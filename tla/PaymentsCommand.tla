-------------------------- MODULE PaymentsCommand --------------------------
(***************************************************************************)
(* The payments command (internal/cli/payments.go): the wallet's first     *)
(* snapshots, the payments, the credit notes, the check that the ERP has   *)
(* the invoices (internal/erp), the end of the poller, the wallet's last   *)
(* snapshots and the end of the dunning walks, with the poller and the     *)
(* walks running beside them.  A signal may come at any moment.            *)
(***************************************************************************)
EXTENDS WalletAudit

CONSTANTS
    Scenarios   \* [n, cfg, notes, erp, wallet]: invoices, payments, the parts
                \* enabled, the customers whose wallets are audited

\* The charge succeeds or is declined as drawn; a walk makes at least one attempt.
ASSUME ScenarioAssumption ==
    \A s \in Scenarios :
        /\ s.n \in 0..MaxInvoices
        /\ s.cfg.mode \in {"offline", "live"} /\ s.cfg.attempts \in Nat \ {0}
        /\ s.cfg.mix \subseteq {"succeeded", "declined", "insufficient_funds"}
        /\ s.notes \in BOOLEAN /\ s.erp \in BOOLEAN
        /\ s.wallet \subseteq Customers

VARIABLES
    scen,       \* the scenario
    where,      \* where runPayments is
    sync,       \* where the check of an invoice's ERP entry is
    syncPool,   \* workers of VerifyAll that have not returned
    erp         \* the platform's sync log

commandVars == <<scen, where, sync, syncPool, erp>>
vars == <<paymentsVars, noteVars, walletVars, commandVars>>

Where == {"pre", "payments", "notes", "erp", "unpoll", "post", "window", "expiry",
          "dunning", "exit"}
SyncStates == {"queued", "poll", "synced", "failed", "missing", "dropped"}

Init ==
    /\ scen \in Scenarios
    /\ PaymentsInit(scen.n, scen.cfg) /\ CreditNotesInit(scen.n) /\ WalletInit(scen.wallet)
    /\ where = "pre"
    /\ sync = [i \in 1..scen.n |-> "queued"]
    /\ syncPool = 0
    /\ erp = [i \in 1..scen.n |-> "none"]

-----------------------------------------------------------------------------
\* fetchSyncLog, once: an answer that settles the invoice is believed even
\* when the deadline has passed; with no such answer, a passed deadline or a
\* cancelled context makes it missing, and a wait is followed by a poll.
VerifyOne(i) ==
    /\ sync[i] = "poll"
    /\ \/ /\ ~ctxDone /\ erp[i] # "none"
          /\ sync' = [sync EXCEPT ![i] = erp[i]]
       \/ sync' = [sync EXCEPT ![i] = "missing"]
    /\ UNCHANGED <<paymentsVars, noteVars, walletVars, scen, where, syncPool, erp>>

Polling == {i \in invoices : sync[i] = "poll"}
SyncQueue == {i \in invoices : sync[i] = "queued"}

VerifyTakes ==
    /\ Cardinality(Polling) < syncPool /\ SyncQueue # {}
    /\ LET i == First(SyncQueue) IN
          IF ctxDone THEN /\ sync' = [sync EXCEPT ![i] = "dropped"]
                          /\ syncPool' = syncPool - 1
                     ELSE /\ sync' = [sync EXCEPT ![i] = "poll"]
                          /\ UNCHANGED syncPool
    /\ UNCHANGED <<paymentsVars, noteVars, walletVars, scen, where, erp>>

VerifyWorkerEnds ==
    /\ Cardinality(Polling) < syncPool /\ SyncQueue = {}
    /\ syncPool' = syncPool - 1
    /\ UNCHANGED <<paymentsVars, noteVars, walletVars, scen, where, sync, erp>>

VerifyAll == VerifyTakes \/ VerifyWorkerEnds \/ \E i \in invoices : VerifyOne(i)

\* The platform pushes an invoice to the ERP.
PlatformSyncs(i) ==
    /\ where = "erp" /\ erp[i] = "none"
    /\ \E s \in {"synced", "failed"} : erp' = [erp EXCEPT ![i] = s]
    /\ UNCHANGED <<paymentsVars, noteVars, walletVars, scen, where, sync, syncPool>>

\* erp_sync.jsonl, and check 15 on it; whether external ids are to be verified,
\* which rows the provider's sandbox confirmed, and whether the p95 of the
\* latencies is beyond the SLA come from outside.
SyncLog == {i \in invoices : sync[i] \in {"synced", "failed", "missing"}}

runERPSync(verify, verified, slow) ==
    LET synced == {i \in SyncLog : sync[i] = "synced"} IN
    IF SyncLog = {} THEN "SKIP"
    ELSE IF \/ 100 * Cardinality(synced) < 99 * Cardinality(SyncLog)
            \/ verify /\ 100 * Cardinality(synced \cap verified) < 99 * Cardinality(synced)
            \/ slow
         THEN "FAIL" ELSE "PASS"

-----------------------------------------------------------------------------
Goto(w) == where' = w /\ UNCHANGED <<scen, sync, erp>>

CapturePreRun ==
    /\ where = "pre" /\ walletEnabled /\ tick["command"].phase = "none"
    /\ StartTick("command", "pre")
    /\ UNCHANGED <<paymentsVars, noteVars, customers, hold, audit, events, priorHolds, poller, pollCtx, polls,
                   commandVars>>

\* The poller and the payment workers start.
StartPayments ==
    /\ where = "pre"
    /\ walletEnabled => TickStops("command")
    /\ tick' = [tick EXCEPT !["command"] = NoTick]
    /\ poller' = IF walletEnabled THEN "waiting" ELSE "done"
    /\ ProcessInvoices
    /\ Goto("payments")
    /\ UNCHANGED <<noteVars, customers, hold, audit, events, priorHolds, pollCtx, polls, syncPool>>

StartNotes ==
    /\ where = "payments" /\ PoolDone
    /\ Goto("notes")
    /\ UNCHANGED <<paymentsVars, noteVars, walletVars, syncPool>>

StartVerify ==
    /\ where = "notes"
    /\ scen.notes => NotesOver
    /\ syncPool' = IF scen.erp THEN Workers ELSE 0
    /\ Goto("erp")
    /\ UNCHANGED <<paymentsVars, noteVars, walletVars>>

\* pollCancel, then wait for the poller.
StopPoller ==
    /\ where = "erp" /\ syncPool = 0
    /\ pollCtx' = TRUE
    /\ Goto("unpoll")
    /\ UNCHANGED <<paymentsVars, noteVars, customers, hold, audit, events, priorHolds, tick, poller, polls, syncPool>>

PollDone == poller = "done"

CapturePostRun ==
    /\ \/ /\ where = "unpoll" /\ PollDone
          /\ IF walletEnabled THEN StartTick("command", "post") /\ Goto("post")
                            ELSE Goto("dunning") /\ UNCHANGED tick
       \/ /\ where = "post" /\ TickStops("command")
          /\ tick' = [tick EXCEPT !["command"] = NoTick]
          /\ Goto("window")
       \/ /\ where = "window"
          /\ IF ctxDone THEN Goto("dunning") /\ UNCHANGED tick
                        ELSE StartTick("command", "post-expiry") /\ Goto("expiry")
       \/ /\ where = "expiry" /\ TickStops("command")
          /\ tick' = [tick EXCEPT !["command"] = NoTick]
          /\ Goto("dunning")
    /\ UNCHANGED <<paymentsVars, noteVars, customers, hold, audit, events, priorHolds, poller, pollCtx, polls, syncPool>>

\* The walks are waited for before the deferred Close of the log.
Return ==
    /\ where = "dunning" /\ WaitDunning
    /\ tlogOpen' = FALSE
    /\ Goto("exit")
    /\ UNCHANGED <<invoices, ctxDone, trail, payVars, dunVars, noteVars, walletVars, syncPool>>

Signal ==
    /\ ~ctxDone /\ where # "exit"
    /\ ctxDone' = TRUE
    /\ UNCHANGED <<invoices, tlogOpen, trail, payVars, dunVars, noteVars, walletVars, commandVars>>

runPayments ==
    \/ CapturePreRun \/ StartPayments \/ StartNotes \/ StartVerify
    \/ StopPoller \/ CapturePostRun \/ Return

\* The steps of the command and of its goroutines.
Work ==
    \/ runPayments
    \/ where = "payments" /\ PayStep /\ UNCHANGED <<noteVars, walletVars, commandVars>>
    \/ where = "notes" /\ scen.notes /\ NotesStep /\ UNCHANGED <<walletVars, commandVars>>
    \/ VerifyAll
    \/ tickAll("command") /\ UNCHANGED <<paymentsVars, noteVars, commandVars>>

PollerStep == (PollUntil \/ tickAll("poller")) /\ UNCHANGED <<paymentsVars, noteVars, commandVars>>

WalkStep(i) == i \in invoices /\ Walk(i) /\ UNCHANGED <<noteVars, walletVars, commandVars>>

Environment ==
    \/ Signal
    \/ \E i \in invoices : PlatformSyncs(i)
    \/ \E i \in invoices : /\ WalkExpires(i) \/ PlatformEscalates(i)
                           /\ UNCHANGED <<noteVars, walletVars, commandVars>>
    \/ /\ walletEnabled /\ where # "exit"
       /\ PlatformHolds /\ UNCHANGED <<paymentsVars, noteVars, commandVars>>

Done == where = "exit" /\ UNCHANGED vars

Next == Work \/ PollerStep \/ (\E i \in 1..MaxInvoices : WalkStep(i)) \/ Environment \/ Done

Spec == Init /\ [][Next]_vars

\* Every goroutine is scheduled: a request ends in an answer or in the
\* client's timeout, a timer fires, a ready channel is received from.
Fairness == WF_vars(Work) /\ WF_vars(PollerStep) /\ \A i \in 1..MaxInvoices : WF_vars(WalkStep(i))
FairSpec == Spec /\ Fairness
-----------------------------------------------------------------------------
(* Properties.                                                             *)

TypeOK ==
    /\ where \in Where
    /\ sync \in [invoices -> SyncStates]
    /\ pool \in 0..Workers /\ syncPool \in 0..Workers
    /\ pay \in [invoices -> {"queued", "charge", "drive", "fallback", "record", "done", "dropped"}]
    /\ outcome \in [invoices -> Outcomes]
    /\ attempt \in [invoices -> 0..cfg.attempts]
    /\ step \in {"next", "draft", "issue", "apply"}
    /\ note \in [invoices -> {"none", "DRAFT", "ISSUED", "APPLIED"}]
    /\ poller \in {"off", "waiting", "ticking", "done"}

\* When the command returns, payments.jsonl and the counters of the summary
\* agree (processOne, tally): every invoice a worker processed has one row,
\* every bucket counts the rows of its outcome, and only a signal leaves an
\* invoice without one, or without the entry of its ERP check.
EveryInvoiceAccounted ==
    where = "exit" =>
        /\ \A i \in invoices :
              /\ pay[i] \in {"done", "dropped", "queued"}
              /\ Len(payLog[i]) = IF pay[i] = "done" THEN 1 ELSE 0
              /\ ~ctxDone => pay[i] = "done"
              /\ ~ctxDone /\ scen.erp => sync[i] \in {"synced", "failed", "missing"}
        /\ stats["processed"] = Cardinality({i \in invoices : pay[i] = "done"})
        /\ \A b \in Buckets : stats[b] = Cardinality({i \in invoices : payLog[i] = <<b>>})

\* The rows of an invoice's dunning attempts in transitions.jsonl.
StepRows(i) == {k \in 1..Len(trail[i]) : trail[i][k].kind = "DUNNING_STEP"}

\* No row of a dunning walk is lost to the closing of transitions.jsonl
\* (WaitDunning), a signal or not: when the command returns, each declined
\* invoice has a mark and then the attempts 1, 2, ... in order, and unless
\* the walk ran out of its own time the last row is the recovery of the
\* subscription or, after the last attempt, the escalation.
DunningReported ==
    where = "exit" =>
        \A i \in invoices :
            LET last == trail[i][Len(trail[i])] IN
            IF payLog[i] # <<>> /\ payLog[i][1] \in Declines
            THEN /\ trail[i][1].kind = "RETRY_PAYMENT"
                 /\ StepRows(i) = 2..(attempt[i] + 1)
                 /\ \A k \in StepRows(i) : trail[i][k].n = k - 1
                 /\ ~expired[i] =>
                       IF last.kind = "DUNNING_ESCALATE"
                       THEN attempt[i] = cfg.attempts /\ (last.status = "OK" => sub[i] = "SUSPENDED")
                       ELSE sub[i] = "ACTIVE" /\ Len(trail[i]) = attempt[i] + 1
            ELSE StepRows(i) = {}

\* What the command leaves in payments.jsonl, transitions.jsonl and its summary
\* accounts for every invoice and for every step of every dunning walk.
PaymentsAccounted == TypeOK /\ EveryInvoiceAccounted /\ DunningReported

\* credit_notes.jsonl is never ahead of the platform (runFlow logs what was
\* answered), and a check 16 that passes is right: every note drawn has
\* reached the state it was drawn for, lost answers and signals included.
\* erp_sync.jsonl holds the platform's word, and a check 15 that passes is
\* right that the ERP has 99% of the invoices it saw.
ChecksSound ==
    /\ \A i \in invoices :
          /\ HasRow(<<i, TRUE>>, "APPLIED") => note[i] = "APPLIED"
          /\ HasRow(<<i, TRUE>>, "ISSUED") => note[i] \in {"ISSUED", "APPLIED"}
    /\ where = "exit" /\ runCreditNotes = "PASS" =>
          \A i \in invoices : /\ drawn[i] = "apply" => note[i] = "APPLIED"
                              /\ drawn[i] = "issue" => note[i] = "ISSUED"
    /\ \A i \in invoices : sync[i] \in {"synced", "failed"} => erp[i] = sync[i]
    /\ where = "exit" /\ (\E verify, slow \in BOOLEAN, verified \in SUBSET invoices : runERPSync(verify, verified, slow) = "PASS") =>
          100 * Cardinality({i \in SyncLog : erp[i] = "synced"}) >= 99 * Cardinality(SyncLog)

PhaseOrder == [pre |-> 1, mid |-> 2, post |-> 3]
Rank(s) == IF s.phase = "post-expiry" THEN 4 ELSE PhaseOrder[s.phase]

\* wallet_audit.jsonl tells each wallet's story in order (LoadAudit relies
\* on it): one "pre", then "mid", then one "post" and one "post-expiry", the
\* last two missing only after a signal; the poller is never at work beside
\* the last snapshots, and a hold is reported at most once.
WalletStory ==
    /\ \A c \in customers :
          /\ \A j, k \in DOMAIN audit[c] : j < k => Rank(audit[c][j]) <= Rank(audit[c][k])
          /\ \A ph \in {"pre", "post", "post-expiry"} : Cardinality(Phase(c, ph)) <= 1
          /\ where = "exit" /\ walletEnabled =>
                /\ Phase(c, "pre") # {}
                /\ ~ctxDone => Phase(c, "post") # {} /\ Phase(c, "post-expiry") # {}
    /\ where \in {"post", "window", "expiry"} => tick["poller"] = NoTick
    /\ \A h \in Holds : events[h] <= 1

\* What checks 15 to 17 read is the platform's story: logs never ahead of it, a
\* PASS that is right, wallet snapshots in order.
EvidenceSound == ChecksSound /\ WalletStory

\* The command returns: after a signal too, for the walks it cannot stop are
\* bounded by their attempts (Walk) and their own deadline.
Terminates == <>(where = "exit")
=============================================================================
