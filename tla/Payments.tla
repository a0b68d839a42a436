------------------------------ MODULE Payments ------------------------------
(***************************************************************************)
(* The payment driver and its dunning walks (internal/payments).           *)
(*                                                                         *)
(* A pool of workers takes the invoices from a channel that is filled      *)
(* before they start.  Each charges one invoice, marks it on the platform, *)
(* tallies it and appends a row to payments.jsonl; a charge that is        *)
(* declined starts a dunning walk of its own, which outlives the pool and  *)
(* does not see the command's context.  The walks, and the platform marks, *)
(* append to transitions.jsonl.  The manifest yields one invoice for each  *)
(* subscription, so an invoice stands for its subscription too.            *)
(***************************************************************************)
EXTENDS Integers, Sequences, FiniteSets

CONSTANTS
    MaxInvoices,    \* bound: invoices of a manifest
    Workers         \* DriverConfig.Workers

ASSUME PaymentsAssumption ==
    /\ MaxInvoices \in Nat /\ Workers \in Nat \ {0}

VARIABLES
    invoices,   \* buildInvoicesFromManifest: 1..n
    ctxDone,    \* the command's context is cancelled
    cfg,        \* [mode, mix, attempts]: the mode of the Stripe client, the
                \* outcomes with a weight, DunningConfig.MaxAttempts
    pay,        \* where the processing of an invoice is
    pool,       \* workers that have not returned
    outcome,    \* Charge.Outcome
    stats,      \* Driver.Stats
    payLog,     \* rows of payments.jsonl for an invoice
    tlogOpen,   \* transitions.jsonl is open
    trail,      \* rows of transitions.jsonl for an invoice
    dun,        \* where the dunning walk of an invoice is
    attempt,    \* n of DunningDriver.Walk
    expired,    \* the walk's 30 minutes are over
    sub         \* the platform's subscription status

payVars == <<cfg, pay, pool, outcome, stats, payLog>>
dunVars == <<dun, attempt, expired, sub>>
paymentsVars == <<invoices, ctxDone, tlogOpen, trail, payVars, dunVars>>

Outcomes == {"succeeded", "declined", "insufficient_funds", "requires_action", "error"}
Declines == {"declined", "insufficient_funds"}
Buckets  == {"succeeded", "declined", "insufficient_funds", "error"}

PaymentsInit(n, f) ==
    /\ invoices = 1..n
    /\ ctxDone = FALSE
    /\ cfg = f
    /\ pay = [i \in 1..n |-> "queued"]
    /\ pool = 0
    /\ outcome = [i \in 1..n |-> "error"]
    /\ stats = [b \in Buckets \cup {"processed"} |-> 0]
    /\ payLog = [i \in 1..n |-> <<>>]
    /\ tlogOpen = TRUE
    /\ trail = [i \in 1..n |-> <<>>]
    /\ dun = [i \in 1..n |-> "none"]
    /\ attempt = [i \in 1..n |-> 0]
    /\ expired = [i \in 1..n |-> FALSE]
    /\ sub = [i \in 1..n |-> "ACTIVE"]

-----------------------------------------------------------------------------
\* A row written after the log is closed is dropped: the error is ignored.
AppendTransition(i, kind, n, status) ==
    trail' = IF tlogOpen
             THEN [trail EXCEPT ![i] = Append(@, [kind |-> kind, n |-> n, status |-> status])]
             ELSE trail

\* A RequiresAction is counted in no bucket.
tally(s, o) == IF o \in Buckets THEN [s EXCEPT ![o] = @ + 1] ELSE s

Busy == {i \in invoices : pay[i] \in {"charge", "drive", "fallback", "record"}}
Queue == {i \in invoices : pay[i] = "queued"}
NextInvoice == CHOOSE i \in Queue : \A j \in Queue : i <= j

\* ProcessInvoices: no worker is started for an empty list.
ProcessInvoices ==
    /\ pool' = IF invoices = {} THEN 0 ELSE Workers
    /\ UNCHANGED <<invoices, ctxDone, cfg, pay, outcome, stats, payLog, tlogOpen, trail, dunVars>>

\* A worker that sees the cancelled context has already received its invoice.
WorkerTakes ==
    /\ Cardinality(Busy) < pool /\ Queue # {}
    /\ LET i == NextInvoice IN
          IF ctxDone
          THEN /\ pay' = [pay EXCEPT ![i] = "dropped"]
               /\ pool' = pool - 1
               /\ UNCHANGED stats
          ELSE /\ pay' = [pay EXCEPT ![i] = "charge"]
               /\ stats' = [stats EXCEPT !["processed"] = @ + 1]
               /\ UNCHANGED pool
    /\ UNCHANGED <<invoices, ctxDone, cfg, outcome, payLog, tlogOpen, trail, dunVars>>

WorkerEnds ==
    /\ Cardinality(Busy) < pool /\ Queue = {}
    /\ pool' = pool - 1
    /\ UNCHANGED <<invoices, ctxDone, cfg, pay, outcome, stats, payLog, tlogOpen, trail, dunVars>>

\* Stripe: an error body has no status; a card may want a further step.
StripeAnswers(want) ==
    {[status |-> "", code |-> ""], [status |-> "requires_action", code |-> ""],
     CASE want = "succeeded" -> [status |-> "succeeded", code |-> ""]
       [] want = "declined" -> [status |-> "requires_payment_method", code |-> "card_declined"]
       [] OTHER -> [status |-> "requires_payment_method", code |-> "insufficient_funds"]}

classifyStripeStatus(a) ==
    CASE a.status \in {"succeeded", "requires_action"} -> a.status
      [] a.status = "requires_payment_method" /\ a.code = "insufficient_funds" -> a.code
      [] a.status = "requires_payment_method" /\ a.code # "insufficient_funds" -> "declined"
      [] OTHER -> "error"

liveCharge(want) == {classifyStripeStatus(a) : a \in StripeAnswers(want)}

\* The card stands for the outcome.
offlineCharge(want) == {want}

CreatePaymentIntent(want) ==
    IF cfg.mode = "offline" THEN offlineCharge(want) ELSE liveCharge(want)

\* The charge fails before it has an answer: counted and logged at once.
ChargeFails(i) ==
    /\ pay[i] = "charge" /\ cfg.mode = "live"
    /\ pay' = [pay EXCEPT ![i] = "done"]
    /\ stats' = tally(stats, "error")
    /\ payLog' = [payLog EXCEPT ![i] = Append(@, "error")]
    /\ UNCHANGED <<invoices, ctxDone, cfg, pool, outcome, tlogOpen, trail, dunVars>>

Charge(i) ==
    /\ pay[i] = "charge"
    /\ ctxDone => cfg.mode = "offline"
    /\ \E want \in cfg.mix :
          \E o \in CreatePaymentIntent(want) : outcome' = [outcome EXCEPT ![i] = o]
    /\ pay' = [pay EXCEPT ![i] = "drive"]
    /\ UNCHANGED <<invoices, ctxDone, cfg, pool, stats, payLog, tlogOpen, trail, dunVars>>

\* The first path of two that does not answer 404 decides.
driverPlatformPayment(i) ==
    /\ pay[i] \in {"drive", "fallback"}
    /\ \E answer \in {"OK", "FAIL", "404"} :
          /\ ctxDone => answer = "FAIL"
          /\ IF answer = "404" /\ pay[i] = "drive"
             THEN /\ pay' = [pay EXCEPT ![i] = "fallback"]
                  /\ UNCHANGED trail
             ELSE /\ pay' = [pay EXCEPT ![i] = "record"]
                  /\ AppendTransition(i, "RETRY_PAYMENT", 0,
                                      IF answer = "404" THEN "SKIPPED" ELSE answer)
    /\ UNCHANGED <<invoices, ctxDone, cfg, pool, outcome, stats, payLog, tlogOpen, dunVars>>

\* The tail of processOne: tally, log row, and the walk of a declined charge.
\* A subscription whose payment is declined is PAST_DUE on the platform.
Record(i) ==
    /\ pay[i] = "record"
    /\ pay' = [pay EXCEPT ![i] = "done"]
    /\ stats' = tally(stats, outcome[i])
    /\ payLog' = [payLog EXCEPT ![i] = Append(@, outcome[i])]
    /\ IF outcome[i] \in Declines
       THEN /\ dun' = [dun EXCEPT ![i] = "wait"]
            /\ sub' = [sub EXCEPT ![i] = "PAST_DUE"]
       ELSE UNCHANGED <<dun, sub>>
    /\ UNCHANGED <<invoices, ctxDone, cfg, pool, outcome, tlogOpen, trail, attempt, expired>>

PoolDone == pool = 0

-----------------------------------------------------------------------------
\* The walk waits its interval, or finds its own context over.
WalkWaits(i) ==
    /\ dun[i] = "wait"
    /\ \/ /\ expired[i]
          /\ dun' = [dun EXCEPT ![i] = "done"]
          /\ UNCHANGED attempt
       \/ /\ ~expired[i]
          /\ dun' = [dun EXCEPT ![i] = "post"]
          /\ attempt' = [attempt EXCEPT ![i] = @ + 1]
    /\ UNCHANGED <<invoices, ctxDone, tlogOpen, trail, payVars, expired, sub>>

WalkExpires(i) ==
    /\ dun[i] \in {"wait", "post", "observe"} /\ ~expired[i]
    /\ expired' = [expired EXCEPT ![i] = TRUE]
    /\ UNCHANGED <<invoices, ctxDone, tlogOpen, trail, payVars, dun, attempt, sub>>

AfterAttempt(i) == IF attempt[i] < cfg.attempts THEN "wait" ELSE "observe"

\* The retry that recovers the subscription ends the walk.
RetryRecovers(i) ==
    /\ dun[i] = "post" /\ ~expired[i]
    /\ sub[i] \in {"PAST_DUE", "ACTIVE"}
    /\ sub' = [sub EXCEPT ![i] = "ACTIVE"]
    /\ dun' = [dun EXCEPT ![i] = "done"]
    /\ AppendTransition(i, "DUNNING_STEP", attempt[i], "OK")
    /\ UNCHANGED <<invoices, ctxDone, tlogOpen, payVars, attempt, expired>>

\* A refusal and an answer that is not ACTIVE are one: still failing, and OK.
RetryStillFailing(i) ==
    /\ dun[i] = "post" /\ ~expired[i]
    /\ dun' = [dun EXCEPT ![i] = AfterAttempt(i)]
    /\ AppendTransition(i, "DUNNING_STEP", attempt[i], "OK")
    /\ UNCHANGED <<invoices, ctxDone, tlogOpen, payVars, attempt, expired, sub>>

\* No answer: the platform may have taken the payment.
RetryUnanswered(i) ==
    /\ dun[i] = "post"
    /\ \/ UNCHANGED sub
       \/ sub[i] = "PAST_DUE" /\ sub' = [sub EXCEPT ![i] = "ACTIVE"]
    /\ dun' = [dun EXCEPT ![i] = AfterAttempt(i)]
    /\ AppendTransition(i, "DUNNING_STEP", attempt[i], "FAIL")
    /\ UNCHANGED <<invoices, ctxDone, tlogOpen, payVars, attempt, expired>>

terminalStatus(escalated, err) == IF escalated /\ ~err THEN "OK" ELSE "FAIL"

observeTerminalState(i) ==
    /\ dun[i] = "observe"
    /\ \E err \in BOOLEAN :
          /\ expired[i] => err
          /\ AppendTransition(i, "DUNNING_ESCALATE", 0,
                              terminalStatus(sub[i] \in {"SUSPENDED", "CANCELLED"}, err))
    /\ dun' = [dun EXCEPT ![i] = "done"]
    /\ UNCHANGED <<invoices, ctxDone, tlogOpen, payVars, attempt, expired, sub>>

\* The platform's DunningScheduler gives a subscription up.
PlatformEscalates(i) ==
    /\ sub[i] = "PAST_DUE" /\ attempt[i] = cfg.attempts
    /\ sub' = [sub EXCEPT ![i] = "SUSPENDED"]
    /\ UNCHANGED <<invoices, ctxDone, tlogOpen, trail, payVars, dun, attempt, expired>>

Walk(i) ==
    \/ WalkWaits(i) \/ RetryRecovers(i) \/ RetryStillFailing(i)
    \/ RetryUnanswered(i) \/ observeTerminalState(i)

\* Mutant of WaitDunning: the walks are not waited for.
WaitNothing == TRUE

WaitDunning == \A i \in invoices : dun[i] \in {"none", "done"}

PayStep ==
    \/ WorkerTakes \/ WorkerEnds
    \/ \E i \in invoices : \/ ChargeFails(i) \/ Charge(i)
                           \/ driverPlatformPayment(i) \/ Record(i)
=============================================================================
