------------------------------ MODULE Pipeline ------------------------------
(***************************************************************************)
(* One load run: Runner.Run of internal/runner/runner.go with the          *)
(* goroutines it starts.  generator.Run puts events on a bounded channel,  *)
(* the fairness filter passes or drops them, the pool's workers dispatch   *)
(* them through the drivers (module Drivers) and count their outcome; when *)
(* all workers and the generator are gone the runner takes the counters as *)
(* the result of the run and closes the drivers.                           *)
(* The circuit breaker's answer is left open here (CircuitBreaker has its  *)
(* behaviour); the pacer only delays the generator.                        *)
(***************************************************************************)
EXTENDS Drivers

CONSTANTS
    BufferSize,       \* capacity of the two channels
    MinTotalForGate,  \* events the gate lets pass unseen (32 in the code)
    ShareNum, ShareDen  \* MinShareFraction

ASSUME PipelineAssumption ==
    /\ BufferSize \in Nat \ {0}
    /\ MinTotalForGate \in Nat
    /\ ShareNum \in Nat \ {0} /\ ShareDen \in Nat \ {0} /\ ShareNum <= ShareDen
    /\ IsFiniteSet(Tenants)

VARIABLES
    gpc, next,   \* the generator, and the event it produces next
    out,         \* Generator.out
    fpc, held,   \* the fairness filter, and the event it passes on
    gate,        \* FairnessGate: tenantCounts and totalEvents
    fout,        \* the filter's out channel
    rpc,         \* the runner
    stats        \* PoolStats, Stats.Generated and deferredCount

genVars   == <<gpc, next, out>>
filtVars  == <<fpc, held, gate, fout>>
flowVars  == <<genVars, filtVars, rpc, stats>>
driverVars == <<mix, cancelled, wpc, cur, res, batchVars, csv, wireVars, accepted>>
vars == <<flowVars, driverVars>>

Counters == {"generated", "submitted", "ok", "client", "server", "transport",
             "expected", "skipped", "deferred"}

TypeOK ==
    /\ DriversTypeOK
    /\ gpc \in {"loop", "put", "done"}
    /\ next \in 1 .. NEvents + 1
    /\ out \in Seq(Events) /\ Len(out) <= BufferSize
    /\ fpc \in {"recv", "put", "done"}
    /\ held \in Events \cup {NoEvent}
    /\ gate \in [counts : [Tenants -> Nat], total : Nat]
    /\ fout \in Seq(Events) /\ Len(fout) <= BufferSize
    /\ rpc \in {"pool", "result", "closing", "closed"}
    /\ stats \in [Counters -> Nat]

Zero == [c \in Counters |-> 0]

Init ==
    /\ DriversInit
    /\ gpc = "loop" /\ next = 1 /\ out = <<>>
    /\ fpc = "recv" /\ held = NoEvent /\ fout = <<>>
    /\ gate = [counts |-> [t \in Tenants |-> 0], total |-> 0]
    /\ rpc = "pool"
    /\ stats = Zero

Count(c) == stats' = [stats EXCEPT ![c] = @ + 1]

-----------------------------------------------------------------------------
(* generator.Run *)

\* Run returns from its loop: the deadline has passed, the pacer's Wait ended
\* with the context, or produce failed (the error only joins RunResult.Errors).
GenStop ==
    /\ gpc = "loop"
    /\ gpc' = "done"
    /\ UNCHANGED <<next, out, filtVars, rpc, stats, driverVars>>

\* The pacer lets one event go and produce makes it.
GenProduce ==
    /\ gpc = "loop"
    /\ next <= NEvents
    /\ gpc' = "put"
    /\ UNCHANGED <<next, out, filtVars, rpc, stats, driverVars>>

\* The select: the event goes on the channel and is counted, ...
GenPut ==
    /\ gpc = "put"
    /\ Len(out) < BufferSize
    /\ out' = Append(out, next)
    /\ next' = next + 1
    /\ gpc' = "loop"
    /\ Count("generated")
    /\ UNCHANGED <<filtVars, rpc, driverVars>>

\* ... or the context is done and the event is forgotten.
GenPutCancelled ==
    /\ gpc = "put"
    /\ cancelled
    /\ gpc' = "done"
    /\ UNCHANGED <<next, out, filtVars, rpc, stats, driverVars>>

-----------------------------------------------------------------------------
(* FairnessGate *)

\* maybeRollWindow once the window is over: half of everything.
rolled(g) == [counts |-> [t \in Tenants |-> g.counts[t] \div 2], total |-> g.total \div 2]

\* count / total > 2 * (1 / MinShareFraction) * (1 / tenants)
OverCap(g, t) ==
    g.counts[t] * Cardinality(Tenants) * ShareNum > 2 * ShareDen * g.total

\* Allow lets everything pass until it has seen enough, then caps the share.
Admits(g, t) == g.total < MinTotalForGate \/ ~OverCap(g, t)

Admitted(g, t) == [counts |-> [g.counts EXCEPT ![t] = @ + 1], total |-> g.total + 1]

-----------------------------------------------------------------------------
(* FairnessFilteredEvents.run *)

\* One event from the generator's channel through Allow; roll is whether the
\* window was over.  A refused event is counted as deferred and dropped.
Filter(roll) ==
    LET g == IF roll THEN rolled(gate) ELSE gate
        t == tenant(Head(out))
    IN  /\ fpc = "recv"
        /\ out # <<>>
        /\ out' = Tail(out)
        /\ IF Admits(g, t)
           THEN /\ fpc' = "put"
                /\ held' = Head(out)
                /\ gate' = Admitted(g, t)
                /\ UNCHANGED stats
           ELSE /\ gate' = g
                /\ Count("deferred")
                /\ UNCHANGED <<fpc, held>>
        /\ UNCHANGED <<gpc, next, fout, rpc, driverVars>>

\* The send has no case for the context: it waits for room for ever.
FilterPut ==
    /\ fpc = "put"
    /\ Len(fout) < BufferSize
    /\ fout' = Append(fout, held)
    /\ held' = NoEvent
    /\ fpc' = "recv"
    /\ UNCHANGED <<genVars, gate, rpc, stats, driverVars>>

FilterClose ==
    /\ fpc = "recv"
    /\ out = <<>> /\ gpc = "done"
    /\ fpc' = "done"
    /\ UNCHANGED <<genVars, held, gate, fout, rpc, stats, driverVars>>

-----------------------------------------------------------------------------
(* Pool.worker and Pool.dispatch *)

notWorker == <<mix, cancelled, batchVars, csv, wireVars, accepted>>

WorkerReceive(w) ==
    /\ wpc[w] = "recv"
    /\ fout # <<>>
    /\ cur' = [cur EXCEPT ![w] = Head(fout)]
    /\ fout' = Tail(fout)
    /\ Goto(w, "dispatch")
    /\ UNCHANGED <<genVars, fpc, held, gate, rpc, stats, notWorker>>

\* The channel is closed and empty.
WorkerEnd(w) ==
    /\ wpc[w] = "recv"
    /\ fout = <<>> /\ fpc = "done"
    /\ Goto(w, "done")
    /\ UNCHANGED <<cur, flowVars, notWorker>>

WorkerCancelled(w) ==
    /\ wpc[w] = "recv"
    /\ cancelled
    /\ Goto(w, "drain")
    /\ UNCHANGED <<cur, flowVars, notWorker>>

\* Mutant of drainOnExit: what is drained is not reported.
drainOnExitSilent(w) ==
    /\ wpc[w] = "drain"
    /\ IF fout # <<>> THEN fout' = Tail(fout) /\ UNCHANGED <<wpc, res>>
                      ELSE Goto(w, "done") /\ UNCHANGED fout
    /\ UNCHANGED <<cur, genVars, fpc, held, gate, rpc, stats, notWorker>>

\* One round of drainOnExit: an event is counted as skipped; nothing there ends it.
drainOnExit(w) ==
    /\ wpc[w] = "drain"
    /\ IF fout # <<>> THEN fout' = Tail(fout) /\ Count("skipped") /\ UNCHANGED <<wpc, res>>
                      ELSE Goto(w, "done") /\ UNCHANGED <<fout, stats>>
    /\ UNCHANGED <<cur, genVars, fpc, held, gate, rpc, notWorker>>

\* CircuitBreaker.Allow refuses.
DispatchRefused(w) ==
    /\ wpc[w] = "dispatch"
    /\ Count("skipped")
    /\ cur' = [cur EXCEPT ![w] = NoEvent]
    /\ Goto(w, "recv")
    /\ UNCHANGED <<genVars, filtVars, rpc, notWorker>>

DispatchAllowed(w) ==
    /\ wpc[w] = "dispatch"
    /\ Goto(w, "submit")
    /\ UNCHANGED <<cur, flowVars, notWorker>>

\* IsExpectedFailure: a negative-path event the platform rejected.
Expected(e, r) == mix[e].neg /\ r = "client"

\* The counters one result adds to: Submitted, its class (a redirect has none,
\* and to the pool any 2xx is ok), and ExpectedFailures.
Class(r) == IF r = "blind" THEN "ok" ELSE r

Counted(e, r) ==
    {"submitted"} \cup ({Class(r)} \cap Counters)
                  \cup (IF Expected(e, r) THEN {"expected"} ELSE {})

\* dispatch after Submit: count, inform the controllers, call OnResult.
Dispatched(w) ==
    /\ wpc[w] = "record"
    /\ stats' = [c \in Counters |-> IF c \in Counted(cur[w], res[w])
                                    THEN stats[c] + 1 ELSE stats[c]]
    /\ cur' = [cur EXCEPT ![w] = NoEvent]
    /\ res' = [res EXCEPT ![w] = NoResult]
    /\ wpc' = [wpc EXCEPT ![w] = "recv"]
    /\ UNCHANGED <<genVars, filtVars, rpc, notWorker>>

-----------------------------------------------------------------------------
(* Runner.Run *)

\* SIGINT, SIGTERM or an abort cancels the run's context.
Cancel ==
    /\ ~cancelled
    /\ rpc = "pool"
    /\ cancelled' = TRUE
    /\ UNCHANGED <<flowVars, mix, wpc, cur, res, batchVars, csv, wireVars, accepted>>

\* Mutant of BuildResult: the runner does not wait for the workers.
BuildResultEarly ==
    /\ rpc = "pool"
    /\ gpc = "done"
    /\ rpc' = "result"
    /\ UNCHANGED <<genVars, filtVars, stats, driverVars>>

\* pool.Run has returned and the generator's error is in: buildResult.
BuildResult ==
    /\ rpc = "pool"
    /\ \A w \in Workers : wpc[w] = "done"
    /\ gpc = "done"
    /\ rpc' = "result"
    /\ UNCHANGED <<genVars, filtVars, stats, driverVars>>

\* pool.Close closes the drivers in the order the registry built them.
PoolCloseCsv ==
    /\ rpc = "result"
    /\ rpc' = "closing"
    /\ CloseCsv
    /\ UNCHANGED <<genVars, filtVars, stats>>

PoolCloseBatch ==
    /\ rpc = "closing"
    /\ rpc' = "closed"
    /\ CloseBatch
    /\ UNCHANGED <<genVars, filtVars, stats>>

GeneratorStep == GenStop \/ GenProduce \/ GenPut \/ GenPutCancelled

FilterStep == (\E roll \in BOOLEAN : Filter(roll)) \/ FilterPut \/ FilterClose

WorkerStep(w) ==
    \/ WorkerReceive(w) \/ WorkerEnd(w) \/ WorkerCancelled(w) \/ drainOnExit(w)
    \/ DispatchRefused(w) \/ DispatchAllowed(w) \/ Dispatched(w)
    \/ SubmitStep(w) /\ UNCHANGED flowVars

BatchGoroutine(b) == BatchStep(b) /\ UNCHANGED flowVars

RunnerStep == BuildResult \/ PoolCloseCsv \/ PoolCloseBatch

\* What goes on by itself: goroutines are scheduled, timers fire, and the HTTP
\* client's timeout ends every POST.  Cancel and the sweeper are not among them.
Progress ==
    \/ GeneratorStep \/ FilterStep
    \/ \E w \in Workers : WorkerStep(w)
    \/ \E b \in Events : BatchGoroutine(b)
    \/ RunnerStep

Next ==
    \/ Progress
    \/ \E s \in Events : SweepSession(s) /\ UNCHANGED flowVars
    \/ Cancel

Spec == Init /\ [][Next]_vars

-----------------------------------------------------------------------------
(* Properties *)

Busy == {w \in Workers : wpc[w] \in BusyPCs}
InFlight == Len(out) + Len(fout) + (IF fpc = "put" THEN 1 ELSE 0) + Cardinality(Busy)

\* In every state each generated event is counted exactly once as submitted,
\* skipped or deferred, or still sits in a channel, in the filter or in a worker.
Conservation ==
    stats["generated"] =
      stats["submitted"] + stats["skipped"] + stats["deferred"] + InFlight

\* A run that was not cancelled reports every event it generated: nothing was
\* left in a channel when the result was built.
CleanRunBalances ==
    rpc # "pool" /\ ~cancelled =>
      stats["generated"] = stats["submitted"] + stats["skipped"] + stats["deferred"]

\* The platform takes no event twice, whatever timers, full batches, Close and
\* cancelled Submits race for the same buffer.
AcceptedOnce == \A e \in Events : accepted[e] <= 1

\* A success whose answer the driver has read says that the platform has this
\* event, once: rest_batch gives every item of the answer to its own event, also
\* when the event's batch was sent by another worker, a timer or Close.  A
\* success that rests on a status alone (csv_upload, mcp_jsonrpc, a batch whose
\* body was cut off) is "blind" and promises nothing.
OkIsAccepted ==
    \A w \in Workers :
      wpc[w] = "record" /\ res[w] = "ok" => accepted[cur[w]] = 1

\* An event invokes its agent only in a session opened for its own tenant.
SessionIsolation ==
    \A w \in Workers :
      wpc[w] = "invoke" => opener[sess[w]][1] = tenant(cur[w])

\* What the drivers promise the pool: the platform takes an event at most once,
\* whatever flush, timer and Close race for its batch; an "ok" that was read is
\* true; no event is sent over a session of another tenant.
DeliverySound == TypeOK /\ AcceptedOnce /\ OkIsAccepted /\ SessionIsolation

\* The gate never shuts out everybody: whatever windows have rolled over, some
\* tenant's next event is admitted.
SomeTenantAdmitted == \E t \in Tenants : Admits(gate, t)

\* Who can go on by itself: the guards of Progress, actor by actor.
GeneratorReady == gpc = "loop" \/ (gpc = "put" /\ (Len(out) < BufferSize \/ cancelled))

FilterReady ==
    \/ fpc = "recv" /\ (out # <<>> \/ gpc = "done")
    \/ fpc = "put" /\ Len(fout) < BufferSize

WorkerReady(w) ==
    CASE wpc[w] = "done" -> FALSE
      [] wpc[w] = "recv" -> fout # <<>> \/ fpc = "done" \/ cancelled
      [] wpc[w] = "send" -> chan[cur[w]] # NoResult
      [] wpc[w] = "wait" -> chan[cur[w]] # NoResult \/ cancelled
      [] OTHER -> TRUE

BatchReady(b) == timer[b] # "none" \/ posting[b] # <<>>

RunnerReady ==
    \/ rpc = "pool" /\ gpc = "done" /\ \A w \in Workers : wpc[w] = "done"
    \/ rpc \in {"result", "closing"}

Ready ==
    \/ GeneratorReady \/ FilterReady \/ RunnerReady
    \/ \E w \in Workers : WorkerReady(w)
    \/ \E b \in Events : BatchReady(b)

\* Until the run is over somebody can go on without outside help: no goroutine
\* waits for a batch nobody will send, for a channel nobody reads or closes, or
\* for a worker that is gone.  No step can be repeated for ever (each consumes
\* an event, a timer or a phase), so this is what makes every run end.
NeverStuck == rpc # "closed" => Ready

\* A run can always go on: somebody can take a step until the driver is closed,
\* and the fairness gate never shuts out everybody.
KeepsGoing == NeverStuck /\ SomeTenantAdmitted
=============================================================================
