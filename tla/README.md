# TLA+ models of aforo-loadgen

aforo-loadgen drives synthetic usage traffic and subscription changes against
the Aforo billing platform and then checks that the platform billed them
correctly. These modules model its control: who does what, in which order, and
what each failure leaves behind. TLC checks small instances of them; TLAPS proves
the most important properties for every value of the constants. `PROJECT.json` maps
every definition to the lines it models, and lists the runs, the mutants that
show each property can fail, the theorems, the findings and the hazards.

## 1. The system

One process (`aforo-loadgen run`) seeds tenants, products and subscriptions,
generates usage events, pushes them through ingestion drivers, changes
subscriptions while the traffic flows and validates the outcome. The same binary
can be a coordinator with worker processes, or an HTTP server that starts runs.

| component | state | operations | what is hard |
|---|---|---|---|
| circuit breaker (`driver/circuit_breaker.go`) | three atomics, a ring of one-second buckets under a mutex | `Allow`, `Record` by every pool worker | the atomics are read and written one by one |
| backpressure (`driver/backpressure.go`) | active flag, multiplier, belowSince, the same ring | `Record` by every worker, `Multiplier` by the pacer | two-step engage and release |
| pool, fairness (`driver/pool.go`, `fairness.go`) | two bounded channels, counters, a decaying window of shares | receive, dispatch, drain on cancel, admit or defer | cancellation with events in several places; integer decay |
| ingestion drivers (`driver/rest_batch.go`, `csv_upload.go`, `ai_agent_wire.go`, the stateless ones) | per-tenant buffers and timers; session cache | `Submit`, timer flush, `Close`, janitor | timer, full batch, `Close` and cancelled callers race for a buffer |
| generator (`generator`) | index of the manifest, fault planner, pacer, output channel | `Run`: pick, inject, send | two sorted lists that must stay aligned; a fault must be refused for its own reason |
| runner (`runner`, `cli/run*.go`) | wires generator, filter and pool; partitions; result | `Run`, split, merge | result must be built after everybody stopped; sums over partitions |
| coordinator and workers (`coord`, `cli/coordinator.go`) | per-worker state, heartbeats; a worker's current run and report | assign, heartbeat, report, abort over HTTP | lost calls, crashes, restarts, runs of an earlier coordinator |
| lifecycle agent (`lifecycle`) | picker's view of each subscription, resume timers, dunning counters, transition log | one ticker goroutine per transition kind; deferred resumes; shutdown | stale view, answers lost, timers at shutdown |
| seeder (`seed`) | manifest under a lock, bounded error channel | per-tenant provisioning in parallel, save, clean | retries and lost answers of create calls; what is not in the manifest is never cleaned |
| orchestrator (`orchestrator`) | status of seven stages | doctor, seed, run beside lifecycle, validate, report, clean | what each failure leaves behind; cancellation |
| payments (`payments`, `cli/payments.go`) | invoice queue, counters, payment and transition logs | workers charge and record; one dunning walk per decline | walks outlive the workers; logs are closed at the end |
| credit notes, wallet audit (`creditnotes`, `wallet`) | note and hold states, snapshots | draft, issue, apply; poll, snapshot, verify | answers lost after the platform acted; poller beside the last snapshots |
| validator (`validate`) | reads the log, the run and the platform | 18 checks, a shadow biller, a fuzzer | a check that passes must be right; two bill runs raced on purpose |
| service authentication (`serviceauth`, `aforo/client.go`) | token cache, client slots | mint, cache, authorise, retry | a token that expires while a call waits |
| chaos (`chaos`) | injected faults and their recovery | tick, inject, recover, close | recovery on every exit path; faults that overlap |
| soak (`soak`) | snapshots, alerts, files | snapshot, detect, summarise | median of a window that excludes its ends |
| server (`server`) | running table, runs index, child processes | trigger, cancel, observe, shutdown | a trigger in its startup window meets shutdown |
| scenario (`scenario`) | none | rates, mixes, load curves | integer splits |
| cost, metrics, CLI flags, doctor, contract, tax, fx, mutual TLS | none or counters | estimates, wiring, adapters | sequential |

How they meet: the generator writes events to a channel; the fairness filter
reads it and writes the pool's channel; every worker asks the breaker, calls the
driver of the event and reports the outcome to breaker and backpressure, whose
multiplier slows the generator's pacer. The lifecycle agent runs beside this and
shares only the platform and the manifest. A distributed worker runs the same
pipeline over its share of the tenants; the coordinator knows it through four
HTTP calls. `e2e` strings seed, run, lifecycle, validate and clean together over
one manifest on disk; `payments` runs after a bill run and leaves the logs checks
15 to 17 read; every call to an internal endpoint takes a service token.

What makes each part correct:

* breaker: opens only on the configured evidence, stays open for its time, closes
  only on the configured probes; the window counts the outcomes of its seconds;
* backpressure: flag and multiplier agree; no release before a quiet period;
* pipeline: no event lost, counted twice or accepted twice; an "ok" is true; the
  run ends; the result accounts for everything;
* coordinator: the run ends whatever dies; only final reports of living workers
  are merged; every tenant is reported;
* lifecycle: no transition during a pause; the agent's log is legal; shutdown
  waits for exactly the resumes that run, and ends;
* server: a final status is written once and tells what happened to the worker;
  shutdown ends, after the rows of the runs it observes are final;
* seeder and orchestrator: nothing is made twice, the manifest is exact, every way
  out cleans up, the command ends;
* payments: every invoice and every step of every walk is accounted for; the logs
  are never ahead of the platform; the command ends;
* validator: a PASS is true, as far as the check can see; the oracle computes what adding up units does;
* tokens: an internal call arrives with a valid credential and nothing else does;
* chaos: no fault outlives the run unless its own command was lost;
* partitioned run: every tenant once, the merged result is the sum of the parts.

## 2. The modules

| module | models | kind |
|---|---|---|
| `RollingCounter` | the ring of buckets (`touchBucket`, `tally`), and what breaker and backpressure have in common | operators, shared state |
| `CircuitBreaker` | `Allow`, `Record` as atomic steps of each worker | state machine |
| `Backpressure` | `Record` as atomic steps | state machine |
| `Drivers` | `Submit`, flushes, sessions and `Close` of the drivers; the platform's answers | state and actions |
| `Pipeline` | generator, filter, workers, result; extends `Drivers` | composition |
| `Coordinator` | CLI sequence, coordinator goroutines, worker handlers, faults | composition |
| `Lifecycle` | tickers, resumes, shutdown, platform, Check 10 | composition |
| `Server` | trigger, cancel, observer, shutdown, worker processes | composition |
| `Seed` | provisioning of tenants, manifest, clean; the platform's answers | state and actions |
| `Stages` | what `e2e` promises: a stage per status, in order | abstract specification |
| `EndToEnd` | orchestrator and `seed` command; extends `Seed`, refines `Stages` | composition |
| `Payments`, `CreditNotes`, `WalletAudit` | the three parts of the payments command | state and actions |
| `PaymentsCommand` | `cli/payments.go`, ERP verification and checks 15 to 17 | composition |
| `Chaos` | scheduler, executor, target | state and actions |
| `ServiceAuth` | token provider and retrying client | state and actions |
| `Soak` | monitor and its files | state and actions |
| `ScenarioRates`, `Billing` | rate tables; the shadow biller | operators |
| `Validate` | validator, report and exit code; checks 1 to 9, 11, 13 and 14 | state and actions |
| `Generator`, `Traffic` | producer and fault injection; the run command and its partitions | operators; state and actions |
| `Support` | `Chaos`, `ServiceAuth`, `Soak`, `Validate`, `Traffic` | composition |
| `MC...` | constants for TLC | instances |
| `DriverProofs`, `PipelineProofs`, `CoordinatorProofs`, `LifecycleProofs`, `ServerProofs`, `EndToEndProofs`, `PaymentsCommandProofs`, `SupportProofs` | theorems about the modules they extend | proofs |

### RollingCounter, CircuitBreaker, Backpressure

One action is one atomic operation or one critical section, so whatever the Go
scheduler may interleave is interleaved. A worker's local variables are `result`,
`at`, `hot`; `pc` says which operation comes next. `now` is the clock in seconds;
a `Record` takes its time before it gets the lock, and what it stamps may be up to
`MaxSkew` seconds old. `since` is a history variable, the clock reading of the
`Record` that opened the breaker; `StaysOpen` compares it with what Allow's timer
lets through and holds under every interleaving, because `Record` stamps
`openedAt` before it stores the state. It is about the timer: a worker that passed
the timer and waits before its CompareAndSwap can still end a later open period
early. `overlap` is a history variable: it becomes true when two
calls have been under way at once. The properties `ClosesAfterProbes` and
`ThrottleConsistentAlone` hold as long as it is
false. With overlapping calls the breaker can close on fewer probes than configured
(circuit_breaker.go:125, against the comment at :44): the state becomes half-open
before the probe counter is reset, so that a success in between adds to the count of
the period before; and a failure that loaded half-open can reopen a breaker that
another worker has just closed. The breaker trips, and the backpressure controller
throttles, at a rate equal to the threshold too (`>=` at circuit_breaker.go:177 and
backpressure.go:109), where the comments say "exceeds" (circuit_breaker.go:33-34, 53
and 138, backpressure.go:13-14). With two overlapping `Record`s the flag and the multiplier of the backpressure
controller can disagree at rest (`ThrottleConsistent` without the condition does
not hold): a release can store the normal multiplier after an engage stored the
slow one.

### Drivers and Pipeline

An event is a number; `mix` gives its tenant, agent, driver and whether it is a
negative path. `Drivers` keeps a buffer, a timer and a POST in flight per tenant
for `rest_batch`, the rows of `csv_upload`, and sessions with their cache for
`ai_agent_wire`. Every driver that sends one request per event and keeps nothing
is `SubmitDirect`. `accepted` counts how often the platform took an event; an
answer may be lost after it did. A Result is `ok` when the driver has read from the
answer that this event was taken, and `blind` when the pool counts a success that
tells nothing of the event: a row of `csv_upload`, a 200 of `mcp_jsonrpc` that may
hold a JSON-RPC error (mcp_jsonrpc.go:194-200), and every item of a batch whose 2xx
body was cut off or does not parse (rest_batch.go:228, 237-239). `OkIsAccepted` is
about the first kind; of the second kind nothing can be promised. `Pipeline` adds the generator's producer, both
channels, the fairness gate (counts, total, halving when a window rolls over), the
pool's workers and the shutdown: cancellation, drain, result, `Close`.
`NeverStuck` says that somebody can take a step until the run is closed. It names
the guards (`Ready`, the disjunction of what each goroutine waits for) instead of
using ENABLED, which is out of the prover's reach; on the instance of the run both
forms agree.

Abstractions: the generator's counter is incremented with the channel send rather
than just after it; latencies, pacing and payloads are left out; the order of the
answers is free. Observed while modelling and kept in the model: a 3xx answer is
counted in no error class; csv rows are answered 202 before their upload and the
last of them are uploaded after the result is built; a 2xx of a gateway or webhook
endpoint is what `accepted` counts for those drivers, whatever is behind it; after a cancellation the filter can block for ever on its send, with an
event in hand, but nobody waits for it; two workers that miss the session cache
together each open a session of one (tenant, agent), which the comment at
ai_agent_wire.go:83 says must not happen; the gate defers nobody as long as
`2/(n*minShare)` is at least one.

### Coordinator

`call[w]` is where the coordinator's goroutine for `w` is, `cstate[w]` and
`silence[w]` what it knows; `run`, `wstate`, `report`, `stopping` are the worker
process. Every HTTP call is two steps, served and answered, and both halves can
be lost. `Faults` selects what may go wrong in an instance. `Home` stands for
`stableHash(t) % n`. An assignment with no tenants is rejected by the worker, as
it is when the tenant list of the manifest is empty. An assignment the coordinator
gave up may still reach the worker: `late` holds those workers, and `LateServe` is
`handleAssign` at any later moment. A worker may die at any moment, the dispatch
included. `acked` is a history variable, the workers whose acceptance arrived.

Observed: a worker restarted within the dropout window, or one that refused, answers
"idle" and is polled for ever, and a worker that died before its acceptance arrived
has a zero `lastHeartbeat` and can never be dropped (coordinator.go:279); these are
the two exceptions `PollTerminates` makes (`PolledForEver`); a report that cannot
be fetched leaves a gap that is not marked; the state "aborted" is unreachable,
since the generator turns a cancelled context into a clean end; on an interrupt
the coordinator does not abort its workers although docs/ops-runbook.md:135 says
so (cli/coordinator.go:233); redistribution of a dropped worker's tenants is not
implemented; the report of a run an earlier coordinator started is merged as if it
were ours (coordinator.go:321, while protocol.go:45-47 says "the coordinator drops
mismatched responses" and :72-74 that messages of a previous run "are detected and
dropped"; no code compares the RunID), and a worker answers with that report until
its next assignment (worker_handler.go:68). `MergedIsFinal` says how far this goes:
only a worker whose acceptance never arrived, which Dispatch's error names, can
contribute such a report. A heartbeat of an earlier run is taken for one of ours in
the same way, so that a busy worker that refused is waited for until its own run ends.

### Lifecycle

`plat` is the platform's state of a subscription, `live` the picker's view.
`task[k]` is the ticker of kind `k`: it picks, posts, gets an answer (applied and
answered, applied and lost, replayed from an idempotency key, refused) and updates
log and picker. `timer[s]` is the resume of `s` from its arming to the end of its
callback and `wg` the scheduler's WaitGroup. `violation` holds the kinds of the
rows Check 10 would reject. `late` and `churned` are history variables; `churned`
holds the subscriptions that were cancelled while no pause or resume of theirs was
under way, because a pause that overlaps a cancellation puts the subscription back
among those that are picked (pause_resume.go:184, while trial_cancel.go:56 says a
cancelled one is not picked again).

Observed: a pause that completes after `Cancel` arms a timer nobody stops;
a resume whose intent row cannot be written leaves the subscription suspended for
the rest of the run; a pause whose outcome row cannot be written gets no resume;
a payment retry pairs the picker's state with the platform's status, so its row
can be one that Check 10 rejects (`Check10Clean` says it is the only kind); the
idempotency key holds the day and no attempt, so later dunning retries of a day
are replays; the dunning walker's counters are never reset.

### Server

`trig[r]`, `cancel[r]` and `obs[r]` are where the goroutines of run `r` are, and a
step of theirs ends where another goroutine can see it: at a write of the index, at
the lock of the running table, at the cancel flag, at the signal and at the
WaitGroup. `row` is the status column of the index and `proc` the worker; its
`stopped` is an exit with 0 caused by an interrupt, which only the flag
distinguishes from `ok`. `unwritten` (the latest write of the row was refused) and
`watched` (the runs that had an observer when shutdown began) are history
variables. A write with the request's context fails when the client is gone, and is
covered by a flaky index. Left out: the read-only endpoints, authentication, the
manifest store and the other columns. An interrupt from outside, such as a Ctrl-C
that reaches the whole process group, is left out too.

Observed: a trigger in its startup window, or between the running table and
`observeWG.Add`, is not waited for by a shutdown, and its worker outlives the
server although the comment of `Start` says the call blocks until workers exit;
triggers are still accepted while the server drains, and a worker that hangs after
such a trigger is not among those that are killed (`ShutdownEnds` excludes it); a
cancellation that finds the run in the table just before the observer removes it is
answered 202 although the row becomes completed; without a `run.json` an empty
manifest is stored and linked; nothing reconciles the rows a crash leaves behind;
the manifest store has no timeout (server.go:486); a Ctrl-C in a terminal reaches
the workers too, since they share the process group (cli/server.go:145).

### Seed, EndToEnd, Stages

A roster gives each tenant an archetype, and the archetype a plan: the sequence of
`provision*` calls with the entity each makes, how it looks it up first and whether
it sends an Idempotency-Key. One action is one HTTP attempt, applied and answered,
applied with the answer lost, not applied or refused; `made` counts the copies of an
entity on the platform, `gone` what was archived. Goroutines are started in the order of the roster, take one of `Slots`,
append to the manifest or report an error; the manifest is saved once, after all of
them; `Clean` walks it back. `EndToEnd` adds the `seed` command and the
orchestrator: stages as a program counter, the run and the lifecycle agent side by
side with what each may end in, a signal at any time.

`Stages` is what `e2e` promises without saying how: every stage is settled once and
in order, an abandoned one leaves only the clean stage to be settled, and the
command ends with an error when a stage it cannot do without failed or was left
out; a failed report or clean stage is no such error.
`StagesImplemented` shows that `EndToEnd` implements it, with the stage table, the
first error and the return as refinement mapping.

Observed: errors go to a channel of four per archetype that nobody reads before all
goroutines are done (seeder.go:157, 184), so that a seed with more failing tenants
than that hangs for ever at the send (seeder.go:174, 179) and saves no manifest,
although seeder.go:119 has it saved "even on partial failure" and cli/seed.go:148
"on cancel". One Ctrl-C early enough is all it takes for five of the scenarios:
bench-ingest-batched (10 tenants, room for 4), bench-ingest-replay (20, 4),
bench-ingest-unbatched (150, 4), walk-realistic-50t (50, 32) and run-15k-7day
(500, 48). The run has a roster of five tenants of one archetype, which reaches it:
`Blocked` is the hang, `Terminates` says that it is the only way not to return and
that a roster which fits the channel always returns. An archetype that gets no
tenant adds to the capacity and is left out. Further: a failed tenant is not in the manifest and so never archived, although
runner.go:81 and seeder.go:119 speak of what was created; `seed --clean` after
`--reuse-tenant-id` archives the operator's own tenant; a repeated `revokeIngestKey`
is answered 404 and counted as an error; subscription transitions are POSTed
without a key; lists are read one page deep; a catalog that lists the subscription of a customer to
an offering twice makes it once and cancels it twice (`NamedOnce` excludes it); the
seed key collides from the
thousandth customer of a tenant on; e2e exits with 0 although its report or
clean stage failed; a cancelled validate stage is reported as PASS while the command
fails.

### Payments, CreditNotes, WalletAudit, PaymentsCommand

`pay[i]` is where the processing of an invoice is, `dun[i]` where its dunning walk
is: the walks outlive the pool and do not see the command's context. `payLog` and
`trail` are the rows of the two logs, `note`, `erp`, `hold` and `sub` the platform.
A post may be applied and its answer lost. `PaymentsCommand` is the sequence of
cli/payments.go (`where`), with the wallet poller beside it, the workers of the ERP
verification, and checks 15 to 17 over the files that are left. Check 15 fails on an
invoice that is not in the ERP, on a rate of verified invoices below the one asked for
and on a slow 95th percentile; how many were verified in time is a free choice.

Observed: a charge that requires action is in no bucket of the summary; a live
decline (402) is classified as an error and never dunned; a Ctrl-C does not stop
the walks; a recovery whose answer is lost can be reported as a failed escalation;
the row of a failed credit note carries no id, so check 16 reports a missing DRAFT;
settlement and release of a hold are never seen by the poller and
`OutstandingHolds` is always 0; an interrupted run passes check 17; `VerifyAll`
drops the invoices it did not get to without a word.

### Chaos, ServiceAuth, Soak

`Chaos` holds the mutex of `Tick` and `Close` (`mu`) across the loop over events; a
command fails before or after it reached the target; `faults` counts what is in
force at a place. `ServiceAuth` has concurrent callers over one cache; a call waits
for a slot, mints or finds its token, travels and may be retried; `Second` ticks make
one second, because `iat` and `exp` are whole seconds. `Soak` keeps the snapshots,
their alerts and the files, one per second of the clock. The lower end of the baseline
window is exclusive, as in the code (`After`), while the comment at snapshot.go:280
writes it inclusive.

Observed: neither the scheduler nor the monitor is started by a command yet; the
allow list is compared exactly though its comment speaks of a prefix; an injection
whose answer is lost is not recovered; recovery uses the context of the caller;
of two overlapping slowdowns the first recovery ends both; a recovery can be marked
on another row of the same type that started at the same time (chaos.go:357);
snapshots of one second overwrite each other's file.

### ScenarioRates, Billing, Validate

`Billing` is the shadow biller: eight pricing models, discount, tax, routing between
wallet and invoice, in mills. `ByUnit` is the reference it is compared with: it adds
up the price of the first unit, the second, and so on. `ScenarioRates` says which rate
cards pass validation and can reach it. In `Validate` a `world` is a run, the platform
after it and the call of the command; `pos` walks the list of checks, a check that makes
one query is one step, the loops of checks 5 and 9 and the races of checks 8 and 11 are
taken call by call. What the biller computes is `OracleSound`, and that a billing check
that passes is right (`BillingSound`) is a part of it; the PASS of checks 1, 2, 6, 8, 9
and 11 and the report as a whole are `VerdictsSound`.

Two properties say less than the checks' names suggest, because the code does.
`isConflict` looks for "409", "conflict" and "lock held" anywhere in the text of an
error (bill_run_concurrency.go:101-109), so an error that has nothing to do with the
lock can be taken for the lock held, and checks 8 and 11 then pass with two bill runs
begun. A call may fail in the model with such a `lookalike`; `LockSound` names this
one way (`misread`) and rules out every other. Check 5 groups customers by archetype
and triggers every bill run for the tenant of the first of them (billing_match.go:119,
587-593), whose result is that of the whole tenant; `Charged` is that sum.
`BillingSound` therefore says that a PASS compared each amount with what the customer
it was run for owes: a statement about the customer where the tenant has one, and about
a sum where it has several. No property is about the verdicts that repeat one answer of
the platform (checks 3, 4, 13 and 14); they are modelled for the report and the exit code.

Observed: check 6 passes with faults that were accepted (`support_rejections`, the
second finding); the offline backend answers with generated counts although backend.go:151
says succeeded ones; check 5 ignores bill runs that failed; the one-cent epsilon of
`modeMatches` makes the tolerance ineffective; check 9 compares superseded
transitions with the present state; check 8 does not wait for its winner, so check
11 can meet the lock it left; check 14 has no input that makes it pass; a mistyped
`--checks` runs nothing and exits with 0; `Calculate` charges a minimum fee without
usage and `CalculateMetrics` does not (`PathsAgree` excludes it); checks 6 and 7 count a
failed probe as no false positive, and check 9 passes on the log alone when the platform
cannot be asked (`PassedAsked`); negative weights in a mix are accepted.

### Generator, Traffic

`Generator` is the index of the manifest and the choice of an event: product, metric,
subscription, credential, quantity, fault. `Traffic` is the run command: guards,
`partitionManifest` over any hash, `splitTPS`, one runner per partition, the counters
of each answer, and `mergeResults`. An event is made and answered in one step, since
`Pipeline` covers what lies between; a random draw is a free choice among positive
weights (the draw 0, which can hit a first key of weight zero, is left out); latency
data, the fairness report, pacer curves and payload fields are left out.

The ingest paths differ in what they send and in what an answer means. `Credential`
is the key of the paths that call `applyAuthHeaders` and of `ai_agent_rest`, which
knows no admin token; a webhook is signed with the secret of the tenant's source and
carries no key (`Opens`); `ai_agent_rest` sends its envelope whatever the raw body of
a malformed event is (`SendsRaw`); `mcp_jsonrpc` and `ai_agent_wire` talk to the
tenant's own server (`ServerPaths`); a CSV row is answered when it is buffered, and
the row that fills the file gets the answer of the upload, which goes out under its
credential (`Responses`). `FaultsAsTagged` is about the paths on which the platform
sees each event and knows the tenant: there a fault is refused for its own reason,
unless the path does not carry it (`Uncarried`: a wrong or stale key on a webhook, a
malformed body of `ai_agent_rest`), and then the event is accepted like any other
although the run's accounts have it as that fault. It says nothing of `csv_upload`,
`mcp_jsonrpc` and `ai_agent_wire`. `MergedIsWhole` is about the answers the drivers
returned: what the platform holds can be less, where an answer comes before the upload
or from the tenant's server. `collectStaleSubs` sorts the subscriptions first and
rebuilds the list of keys by a search for each (`OriginalKeys`, `newKeys`), as the code
does; `StaleKeysAligned` says that the two end up aligned.

Observed: `splitTPS(1, 4)` gives one to each partition although its comment says
`[1,0,0,0]`; a future event that lags is no longer in the future; the run command
exits with 0 when the run failed; a partition that cannot start is noticed only when
the others are done, and nothing is merged; a stale-key event keeps the tenant of the
tenant that was picked; "4xx (real)" includes the expected ones. Of the pacer, which
is not modelled: the Newton iteration of the bursty curve can oscillate after the
first cycle, and sine and bursty recompute their position from the current multiplier.

### Support

`Chaos`, `ServiceAuth`, `Soak`, `Validate` and `Traffic` share no state with each
other; a behaviour of `Support` exercises one of them (`part`) and leaves the others
as they start, so one run covers all five without a product of their states.

## 3. The runs

| run | instance | shows |
|---|---|---|
| `breaker` | 2 workers, 5 events, 5 seconds, window 2, open for 2, 2 probes | window exact; the open period holds under every interleaving; closes on its probes without overlap |
| `backpressure` | 2 workers, 6 events, 6 seconds | flag and multiplier agree, quiet period before release, without overlap |
| `pipeline` | 3 events in 5 mixes, 2 workers, 3 tenants, buffers of 1, batches of 2 | conservation, balance of a clean run, `DeliverySound`, `KeepsGoing`, with any cancellation and lost answers |
| `coord_faults` | 2 workers, 2 tenants, all faults, one worker with an earlier run, dropped after one silent interval | safety of the merge |
| `coord_live` | 2 workers, lost and late assignments, lost heartbeats, crashes, restarts | the coordinator ends, but for the workers it polls for ever |
| `coord_empty_chunk` | no faults, all tenants hash to one worker | *violation*: it does not end |
| `lifecycle` | 2 subscriptions, 4 tickers, 3 firings, 1 platform move | quiet period, WaitGroup, legal log, cancelled stays out, drained return; held subscriptions come back and the agent returns |
| `server` | 2 runs: the index may refuse one and an operator may cancel it, the worker of the other may hang | shutdown flushes, interrupts are recorded, final is final; runs settle and shutdown ends |
| `e2e` | two tenants, a reused tenant or a catalog; 2 slots, 1 retry, 2 faults, 3 sets of flags | `SeedingSound`, `CleaningSound`, the stages are implemented, the command ends |
| `payments` | at most 2 invoices and 2 workers, 2 attempts, 2 customers, 1 hold, 1 poll, each part in turn | `PaymentsAccounted`, `EvidenceSound`, the command ends |
| `support` | 3 faults; 2 callers, 4 requests, 6 half-seconds; 5 snapshots in a window of 3; some thousand worlds; 4 tenants over 1 to 5 partitions under every hash, events on every kind of path | the five parts of `Support`, one property each and one for the biller |
| `support_rejections` | the same worlds | *violation*: check 6 passes although an event that had to be rejected was not |

Several properties are conjunctions of named parts (`DeliverySound` of
`AcceptedOnce`, `OkIsAccepted`, `SessionIsolation`, and so on); each part is stated
and commented on its own next to the conjunction. The mutant of a conjunction breaks
one of its parts.

Bounds. Two workers are enough for every race of two calls, and no property here
counts workers. Three events fill a batch, start the next one and leave one in a
channel; buffers of one make every send block. Three firings let a pause, a
second transition of the same subscription and a third on the result of both
happen; one platform move is enough to make a picked state stale. Two runs of the
server let one be between any two steps while the other is drained; each fault is
given to one of them to keep liveness checkable, the safety properties are proved
for all of them, and for any number of runs. Five seconds of
clock let a ring of two slots be reused twice. Two faults in a seeding are a lost
answer and a second failure on its retry; two tenants in two slots interleave at
every call. Two invoices are both workers busy, and a walk that goes on while the
other invoice is charged. Six half-seconds are more than the life of a token and
its refresh, and three cache keys overflow a cache of two. Four tenants over up to four
partitions leave partitions empty and fill them from the largest; five are refused.
Five snapshots put three or four of them into the window of the last, and with four the
median of two values is a third, so that both severities of an alert occur.
Every model of the biller is sampled on both sides of each of its tier boundaries. Deadlock checking is off where a behaviour ends: these systems stop
when the run is over or a bound is reached. `NeverStuck` takes its place in the
pipeline; `e2e` and `payments` are checked for deadlock and have an explicit last
state.

Fairness. `Coordinator`: goroutines are scheduled and calls have a timeout
(`WF` of `CallStep`, `MainStep`), the clock advances, a run loop ends because a
scenario has a duration; no fault is fair. `Lifecycle`: tickers and callbacks are
scheduled, a request ends by its client's timeout, an armed timer fires, `Run`
goes on; nothing obliges a ticker to find work, the platform to move, or the
context to end. `Server`: handlers and observers are scheduled, the manifest store
answers, a worker that does not hang ends because a scenario has a duration, the
killer runs 30 seconds after the shutdown; nobody has to trigger, cancel or stop
anything. With finitely many triggers the WaitGroup is eventually left alone, so
weak fairness of its `Wait` is enough. `EndToEnd`: goroutines are scheduled, every
request ends by its timeout and its retries are bounded, a run has a duration and a
cancelled agent drains (`WF` of `Progress`); no fault, signal, lifecycle error or
operator step is fair. `PaymentsCommand`: the command's goroutine and its pools, the
poller and each walk are scheduled (`WF` of each), requests time out, a timer fires;
no signal is fair.

## 4. The proofs

Nothing is assumed but the named ASSUMEs on the constants and, in one theorem, a
hypothesis of its own; every theorem is for every value of the constants.

* `DriverProofs` (breaker and backpressure, which share the ring). `TypeCorrect` is
  inductive as it stands. `SequentialClose` rests on `SeqInv`:
  while no two calls have overlapped, at most one worker is inside a call
  (`OneCall`), the probe counter agrees with the history (`Counted`) and every
  program point knows what its branch established (`SeqAt`), since the guard and
  the store it guards are different steps. `OpenPeriodHonoured` needs no such
  condition: `OpenInv` says that every `Record` under way read the clock at most
  `MaxSkew` ago, so that whichever of them stamps last, the stamp is no more than that
  older than the reading of the one that opened the breaker. `RollingWindowExact` ties every slot of
  the ring to the second it was last reset for (`RingInv`) and has a hypothesis,
  `MaxSkew < Window`: no `Record` waits for the lock as long as the whole window. One
  that does finds its slot already reused for a later second, resets it and the
  outcomes of that second are gone; the code has no guard against it, a wait of the
  default sixty seconds is merely not to be expected. `Throttle` and `SequentialRelease` use
  `RestInv`, the counterpart of `SeqInv`: between two `Record`s flag, multiplier and
  `belowSince` agree, inside one they may not, and the release has seen its delay.
* `PipelineProofs`: `NothingLost` is proved with `FlowTypes`, `Holds` (whoever is
  said to have an event has one) and `Ends` (a channel is closed only after its
  writer is done and, in a run that was not cancelled, a finished stage has left
  nothing behind). `CleanRunsBalance` follows from `Ends` and `Conservation`.
  `DeliveryIsSound` adds `DeliveryInv`, the ownership of an event: it is in one place
  of the flow (`FlowOnce`) and in at most one buffer, batch or call (`OneHolder`), a
  batch that was taken from its buffer is sent by whoever took it and by nobody else,
  and an answer belongs to the batch that is on the wire (`WireInv`, `Delivered`).
  `RunGoesOn` (`KeepsGoing`) has two halves. That somebody can always take a step
  needs `BatchInv`: a batch with rows is posted, timed or on its way (`Posted`,
  `Timed`), and a worker that waits for an answer waits for a batch somebody will
  send (`Awaited`). That the fairness gate never defers every tenant at once needs
  `SharedBy`: for any group of tenants a bound on the sum of their counts that
  survives the halving of a window, where every count is rounded down on its own and
  the total is not their sum; it rules out that each is over twice the average share.
* `CoordinatorProofs`: `MergedReportsFinal` needs that a heartbeat reply on its way
  carries a state the worker had (`FlightInv`) and that a stored report belongs to
  a finished run, and to ours once the worker accepted (`ReportInv`). `TerminalStatesStick` is a step property from the
  types and the goroutine's early return. `EveryTenantOnce` uses `HeldInv`: for as
  long as nothing was lost or taken late, a worker that was seen ended is ended, holds the
  report of this run and is merged before the coordinator prints.
* `LifecycleProofs`: `IInv` joins the types; `Counts` (a walker cannot have counted
  more attempts than were fired); `Tasks` (a transition in flight was picked from
  a state that allows it); `Pauses` (a pause in flight has no resume outstanding,
  and holds its subscription by the time it schedules one, without which a second
  pause could arm a second timer and the WaitGroup would be off by one); `Drains`
  (after `Cancel` only a late schedule arms a timer); `GivenUp` (a churned
  subscription is suspended and no resume is on its way). From it `QuietPeriod`,
  `WaitGroupBalanced` (with the cardinality theorems), `ReturnsDrained`,
  `OnlyRetriesRejected`, `CancelledForGood` (for the cancellations that overlap no
  pause, see `churned`) and `TypeCorrect`.
* `ServerProofs`: `IInv` says what the WaitGroup counts (the runs whose observer is
  busy, with the cardinality theorems), who may still write a row (`OneWriter`,
  `ObserverSees`), that the flag precedes the signal (`FlagFirst`) and that a run
  observed at shutdown stays observed until it is done (`Drained`). From it
  `TypeCorrect`, `ShutdownFlushes`, `InterruptIsCancelled` and, as a step property,
  `FinalStaysFinal`.
* `EndToEndProofs`: `Orchestrated` is the refinement of `Stages`: every step of the
  command settles stages in order or is a stutter. It needs `OrchInv`, which ties the
  program counter to the stage table (`Reached`: what is settled, what is still open,
  and when an error was recorded); `CleanupTried` follows from the same invariant.
  `Seeding` rests on `SeedInv`: per tenant, how many copies of each entity of its
  plan there can be at each point of its walk, and how many errors the finished
  goroutines have reported. That every archetype's plan, put together from lists of
  any length, is a non-empty sequence of known calls (`PlanCalls`) is an induction on
  those lengths. `Cleaning` (`CleaningSound`) rests on `CleanInv`: what the walk back over the
  manifest has settled at each of its points, what it still has to visit, and that
  whatever it could not archive was counted as an error, so that a clean without an
  error has left nothing of the manifest on the platform.
* `PaymentsCommandProofs`: `Accounted` and `Evidence` come from one invariant with a
  part per goroutine: the payment pool and its counters (`PayInv`: each bucket counts
  exactly the invoices logged in it), the dunning walks (`WalkInv`: how many rows a
  walk has left at each of its points), the ERP workers (`SyncInv`), the credit notes
  (`NoteInv`: the log is behind the platform by at most the step under way) and the
  wallet poller with its snapshots (`WalletInv`). What one goroutine does leaves the
  parts of the others alone, so each part is proved against its own actions and
  framed against the rest.
* `SupportProofs`: `Credentials` rests on `AuthInv`: a token is taken from the cache
  only with its refresh margin left, and the margin covers the wait for a slot and the
  flight, so it is valid on arrival. `Faults` rests on `ChaosInv`: every fault in
  force has a row without recovery, and a loop over the events has done what the
  events before its index were due. `RacesSound` and `TransitionsSound` rest on
  `ValidInv`: what the two racing bill runs were answered against what was begun
  (`FireInv`) and, for the scan of the transition log, that the cached states are the
  platform's and every row passed so far was right (`ScanInv`). `Verdicts`
  (`VerdictsSound`) adds `JudgedInv`: the report has a row for each check that was
  asked for and is behind the program counter, in order (`WrittenInv`), each row was
  given for what its check was shown (`GivenInv`, `TenantInv`), and the exit code is
  that of the report (`SummaryInv`). The counts it
  compares are sums over finite sets; a small library about such sums (`TotalChanges`
  and its neighbours: a sum changes by what one place changes, grows with its set, and
  is the sum of its parts) is proved by induction on the set's size.
  `Snapshots` (`SnapshotsSound`) rests on `SoakInv`: every alert is justified by the
  snapshots before its own, and a file holds a snapshot with exactly the alerts it
  raised, a contiguous stretch of the list. `OneRun` (`TrafficSound`) rests on
  `TrafficInv`. The loop of `partitionManifest` is followed step by step: the
  partitions always hold every tenant once (`Parted`), those the loop has passed are
  not empty, and by the pigeonhole principle there is a partition of two to take from
  whenever one is (`SomebodyToMove`). The accounts are proved for one number of a
  result at a time: a label says which number is read (`Reading`) and which answers
  count for it (`ShareOf`); an answer adds its share to the reading of one result
  (`SendReads`), `mergeResults` adds up the readings (`MergedReads`), so the merged
  reading is the total of the shares of the history. That a fault is answered as it is
  tagged follows from what `produce` and the injectors put into one event (`EventMade`),
  path by path. That the keys rebuilt after the sort belong to the sorted subscriptions
  needs that subscription ids are unique in the manifest.

The assumptions say what the code or its validation guarantees: positive thresholds,
durations and sizes; a refresh margin no smaller than wait and flight (`ServiceAuth`);
faults at one place are of one type (`Chaos`: a place stands for a target and what is
done to it); an archetype for each tenant and finite rosters (`Seed`); at least one
dunning attempt and a known outcome mix (`PaymentsCommand`); finitely many holds
(`WalletAudit`); a transition log about subscriptions the platform knows, and worlds
whose counters and logs are finite and of their types (`Validate`); latencies that are
numbers (`Soak`); customers that exist in a catalog (`Seed`); a platform that has some
answer to give (`Drivers`); a manifest whose ids, external ids and subscription ids
are unique and whose ingest keys are no API keys, a positive rate, and
payloads whose numbers are integers (`Traffic`). TLC evaluates each of them on the
instance it checks.

Only model-checked, and out of the prover's reach: all liveness (`PollTerminates`,
`PausesAndRunEnd`, `RunsAndShutdownEnd`, both `Terminates`), and `OracleSound` (what
the recursions of the biller compute for every amount, with rounding and sorted tiers).
Induction over data is available in set form only (a set of numbers that contains
the first and is closed under successor), which is how `EndToEndProofs` reasons about
plans and `SupportProofs` about sums. A fold can be unfolded that way; an operator
passed to `SelectSeq` or `SortSeq` is opaque to the provers, so the modules that are
proved about write filters and sorting as sets and functions.

## 5. Not modelled, and the plan

Not modelled, because they keep no state or only pass data on: mutual TLS, the cost
estimate, Prometheus, the probes of doctor and contract, the URL tables of the
platform's endpoints, scenario files, dashboards and scripts. Modelled in part: the
drivers without their payload shapes; the generator without pacer and templates; the
scenario validator without the rules that only look at one field; tax, FX and ERP
adapters only where a check repeats their arithmetic; the commands without their
flags and output; the server without its read-only endpoints; the seeder without
names, prices and bodies.

Next, in this order:

1. parts of `OracleSound` that need no rounding: that a billing check compares the
   right amounts, given what the biller computes;
2. the pacer as a function of time against a reference curve.
