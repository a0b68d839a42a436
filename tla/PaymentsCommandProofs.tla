----------------------- MODULE PaymentsCommandProofs -----------------------
(***************************************************************************)
(* Theorems about the payments command, for any number of invoices,        *)
(* workers, attempts, wallets and holds: what it leaves in its logs and    *)
(* its summary accounts for every invoice and every dunning walk           *)
(* (Accounted), and the evidence that checks 15 to 17 read is sound        *)
(* (Evidence).                                                             *)
(*                                                                         *)
(* The inductive invariant has one part per goroutine: the payment workers *)
(* (PayInv), a dunning walk (WalkInv), the ERP workers (SyncInv), the      *)
(* credit-note driver (NoteInv), and the wallet's two ticks (WalletInv).   *)
(* A part mentions variables of its own and the command's place, so a step *)
(* of another goroutine leaves it alone.                                   *)
(***************************************************************************)
EXTENDS PaymentsCommand, FiniteSetTheorems, TLAPS

-----------------------------------------------------------------------------
(* The invariant. *)

\* The parameters of the run do not change.
Setup ==
    /\ scen \in Scenarios
    /\ invoices = 1..scen.n /\ cfg = scen.cfg /\ customers = scen.wallet
    /\ where \in Where /\ ctxDone \in BOOLEAN

PayStates == {"queued", "charge", "drive", "fallback", "record", "done", "dropped"}

\* The payment workers: one log row for an invoice that is done, and counters
\* that count what is logged; invoices stay queued only after a signal.
PayTypes ==
    /\ pool \in 0..Workers
    /\ pay \in [invoices -> PayStates]
    /\ outcome \in [invoices -> Outcomes]
    /\ stats \in [Buckets \cup {"processed"} -> Nat]
    /\ payLog \in [invoices -> Seq(Outcomes)]

PoolInv ==
    /\ Cardinality(Busy) <= pool
    /\ where = "pre" => Queue = invoices
    /\ where \notin {"pre", "payments"} => pool = 0
    /\ ~ctxDone => /\ \A i \in invoices : pay[i] # "dropped"
                   /\ where = "payments" => pool = Workers \/ Queue = {}
                   /\ where \notin {"pre", "payments"} => Queue = {}

Taken == {i \in invoices : pay[i] \notin {"queued", "dropped"}}
Logged(b) == {i \in invoices : payLog[i] = <<b>>}

RowInv(i) ==
    IF pay[i] = "done" THEN \E o \in Outcomes : payLog[i] = <<o>> ELSE payLog[i] = <<>>

StatsInv ==
    /\ \A i \in invoices : RowInv(i)
    /\ stats["processed"] = Cardinality(Taken)
    /\ \A b \in Buckets : stats[b] = Cardinality(Logged(b))

PayInv == PayTypes /\ PoolInv /\ StatsInv

\* A dunning walk: what its rows in transitions.jsonl are at each point.
Kinds == {"RETRY_PAYMENT", "DUNNING_STEP", "DUNNING_ESCALATE"}
TrailRow == [kind : Kinds, n : Nat, status : {"OK", "FAIL", "SKIPPED"}]

WalkTypes ==
    /\ tlogOpen \in BOOLEAN
    /\ trail \in [invoices -> Seq(TrailRow)]
    /\ dun \in [invoices -> {"none", "wait", "post", "observe", "done"}]
    /\ attempt \in [invoices -> 0..cfg.attempts]
    /\ expired \in [invoices -> BOOLEAN]
    /\ sub \in [invoices -> {"ACTIVE", "PAST_DUE", "SUSPENDED"}]

Unwalked(i) ==
    /\ attempt[i] = 0
    /\ pay[i] = "record" => Len(trail[i]) = 1
    /\ pay[i] \notin {"record", "done"} => trail[i] = <<>>
    /\ pay[i] = "done" => payLog[i][1] \notin Declines
    /\ \A k \in 1..Len(trail[i]) : trail[i][k].kind = "RETRY_PAYMENT"

Made(i) == IF dun[i] = "post" THEN attempt[i] - 1 ELSE attempt[i]

Walked(i) ==
    /\ pay[i] = "done" /\ payLog[i][1] \in Declines
    /\ Len(trail[i]) \in {Made(i) + 1, Made(i) + 2}
    /\ trail[i][1].kind = "RETRY_PAYMENT"
    /\ \A k \in 2..(Made(i) + 1) : trail[i][k].kind = "DUNNING_STEP" /\ trail[i][k].n = k - 1
    /\ Len(trail[i]) = Made(i) + 2 =>
          /\ dun[i] = "done" /\ attempt[i] = cfg.attempts
          /\ trail[i][Made(i) + 2].kind = "DUNNING_ESCALATE"
          /\ trail[i][Made(i) + 2].status = "OK" => sub[i] = "SUSPENDED"
    /\ dun[i] = "done" /\ Len(trail[i]) = Made(i) + 1 /\ ~expired[i] => sub[i] = "ACTIVE"
    /\ dun[i] = "wait" => attempt[i] < cfg.attempts
    /\ dun[i] = "post" => attempt[i] > 0
    /\ dun[i] = "observe" => attempt[i] = cfg.attempts

TrailInv(i) == IF dun[i] = "none" THEN Unwalked(i) ELSE Walked(i)

WalkInv ==
    /\ WalkTypes
    /\ tlogOpen <=> where # "exit"
    /\ where = "exit" => WaitDunning
    /\ \A i \in invoices : TrailInv(i)

\* The ERP workers, as the payment workers; an entry is the platform's word.
SyncTypes ==
    /\ sync \in [invoices -> SyncStates]
    /\ syncPool \in 0..Workers
    /\ erp \in [invoices -> {"none", "synced", "failed"}]

SyncInv ==
    /\ SyncTypes
    /\ Cardinality(Polling) <= syncPool
    /\ where # "erp" => syncPool = 0
    /\ where \in {"pre", "payments", "notes"} => SyncQueue = invoices
    /\ ~ctxDone => /\ \A i \in invoices : sync[i] # "dropped"
                   /\ scen.erp /\ where = "erp" => syncPool = Workers \/ SyncQueue = {}
                   /\ scen.erp /\ where \notin {"pre", "payments", "notes", "erp"} => SyncQueue = {}
    /\ \A i \in invoices : sync[i] \in {"synced", "failed"} => erp[i] = sync[i]

\* The credit-note driver: what an invoice's note and rows are at each point of
\* runFlow, and how they can be when it is over.
NoteRow(id, status) == [id |-> id, status |-> status]
Drafted == NoteRow(TRUE, "DRAFT")
Issued  == NoteRow(TRUE, "ISSUED")
Applied == NoteRow(TRUE, "APPLIED")
Errored == NoteRow(FALSE, "error")

Untouched(i) == cnLog[i] = <<>> /\ note[i] = "none" /\ drawn[i] = "none"

InFlow(i) ==
    \/ step = "draft" /\ cnLog[i] = <<>> /\ note[i] = "none" /\ drawn[i] # "none"
    \/ step = "issue" /\ cnLog[i] = <<Drafted>> /\ note[i] = "DRAFT" /\ drawn[i] # "none"
    \/ step = "apply" /\ cnLog[i] = <<Drafted, Issued>> /\ note[i] = "ISSUED" /\ drawn[i] = "apply"

Settled(i) ==
    \/ Untouched(i)
    \/ cnLog[i] \in {<<NoteRow(FALSE, "DRAFT")>>, <<Errored>>, <<Drafted, Errored>>}
    \/ cnLog[i] = <<Drafted, Issued>> /\ note[i] = "ISSUED" /\ drawn[i] = "issue"
    \/ cnLog[i] = <<Drafted, Issued, Applied>> /\ note[i] = "APPLIED" /\ drawn[i] = "apply"
    \/ cnLog[i] = <<Drafted, Issued, Errored>> /\ note[i] \in {"ISSUED", "APPLIED"}

NoteTypes ==
    /\ cur \in Nat /\ step \in {"next", "draft", "issue", "apply"}
    /\ drawn \in [invoices -> {"none", "issue", "apply"}]
    /\ note \in [invoices -> {"none", "DRAFT", "ISSUED", "APPLIED"}]
    /\ cnLog \in [invoices -> Seq([id : BOOLEAN, status : {"DRAFT", "ISSUED", "APPLIED", "error"}])]

NoteInv ==
    /\ NoteTypes
    /\ where # "notes" \/ ~scen.notes => step = "next"
    /\ step # "next" => cur \in invoices /\ InFlow(cur)
    /\ \A i \in invoices : /\ i < cur => Settled(i)
                           /\ i > cur \/ (i = cur /\ step = "next") => Untouched(i)

\* The wallet: which ticks run at which place of the command, what they have
\* written, and that no row is of a later phase than the command is in.
Phases == {"pre", "mid", "post", "post-expiry"}
Snapshot == [phase : Phases, balance : Nat, held : Nat]
Tick == [phase : Phases \cup {"none"}, left : SUBSET customers, at : {"snapshot", "holds"}]

WalletTypes ==
    /\ audit \in [customers -> Seq(Snapshot)]
    /\ events \in [Holds -> Nat]
    /\ tick \in [{"poller", "command"} -> Tick]
    /\ poller \in {"off", "waiting", "ticking", "done"}
    /\ pollCtx \in BOOLEAN /\ polls \in Nat

Started == {"payments", "notes", "erp", "unpoll"}
Ended   == {"dunning", "exit"}

TickPlaces ==
    /\ \A p \in {"poller", "command"} :
          /\ tick[p].phase = "none" => tick[p] = NoTick
          /\ tick[p].at = "holds" => tick[p].phase # "pre" /\ tick[p].left # {}
    /\ where = "pre" => tick["command"].phase \in {"none", "pre"}
    /\ where = "post" => tick["command"].phase = "post"
    /\ where = "expiry" => tick["command"].phase = "post-expiry"
    /\ where \notin {"pre", "post", "expiry"} => tick["command"].phase = "none"
    /\ tick["poller"].phase = IF poller = "ticking" THEN "mid" ELSE "none"
    /\ poller = "off" <=> where = "pre"
    /\ where \notin Started \cup {"pre"} => poller = "done"
    /\ where \in {"post", "window", "expiry"} => walletEnabled

\* The customers a tick has not written a snapshot of.
Todo(t) == IF t.at = "holds" THEN t.left \ {First(t.left)} ELSE t.left

WhereRank == IF where = "pre" THEN 1
             ELSE IF where \in Started THEN 2
             ELSE IF where \in {"post", "window"} THEN 3 ELSE 4

Ranked(c) == \A k \in 1..Len(audit[c]) : Rank(audit[c][k]) <= WhereRank

Ordered(c) ==
    /\ \A j, k \in 1..Len(audit[c]) : j < k => Rank(audit[c][j]) <= Rank(audit[c][k])
    /\ \A ph \in {"pre", "post", "post-expiry"} : \A j, k \in Phase(c, ph) : j = k

Covered(c) ==
    /\ tick["command"].phase # "none" =>
          (c \in Todo(tick["command"]) <=> Phase(c, tick["command"].phase) = {})
    /\ where = "pre" => tick["command"].phase = "pre" \/ Phase(c, "pre") = {}
    /\ where # "pre" => Phase(c, "pre") # {}
    /\ ~ctxDone => /\ where \in {"window", "expiry"} \cup Ended => Phase(c, "post") # {}
                   /\ where \in Ended => Phase(c, "post-expiry") # {}

HoldsSeen == \A h \in Holds : events[h] = IF h \in priorHolds THEN 1 ELSE 0

WalletInv ==
    /\ WalletTypes /\ TickPlaces
    /\ \A c \in customers : Ranked(c) /\ Ordered(c) /\ Covered(c)
    /\ HoldsSeen

IInv == Setup /\ PayInv /\ WalkInv /\ SyncInv /\ NoteInv /\ WalletInv

-----------------------------------------------------------------------------
(***************************************************************************)
(* Who moves: the command, a signal, or one goroutine with the part of the *)
(* platform it talks to.                                                   *)
(***************************************************************************)
PayMoves == where = "payments" /\ PayStep /\ UNCHANGED <<noteVars, walletVars, commandVars>>
WalkMoves(i) ==
    /\ Walk(i) \/ WalkExpires(i) \/ PlatformEscalates(i)
    /\ UNCHANGED <<noteVars, walletVars, commandVars>>
NoteMoves == where = "notes" /\ scen.notes /\ NotesStep /\ UNCHANGED <<walletVars, commandVars>>
SyncMoves == VerifyAll \/ \E i \in invoices : PlatformSyncs(i)
WalletMoves ==
    /\ PollUntil \/ PlatformHolds \/ \E p \in {"poller", "command"} : tickAll(p)
    /\ UNCHANGED <<paymentsVars, noteVars, commandVars>>

LEMMA Movers ==
    ASSUME [Next]_vars
    PROVE  \/ runPayments \/ Signal \/ PayMoves \/ NoteMoves \/ SyncMoves \/ WalletMoves
           \/ \E i \in invoices : WalkMoves(i)
           \/ UNCHANGED vars
  BY DEF Next, Work, PollerStep, WalkStep, Environment, Done,
         PayMoves, WalkMoves, NoteMoves, SyncMoves, WalletMoves

LEMMA PayFrame ==
    PayMoves => UNCHANGED <<invoices, ctxDone, tlogOpen, cfg, attempt, expired, noteVars, walletVars, commandVars>>
  BY DEF PayMoves, PayStep, WorkerTakes, WorkerEnds, ChargeFails, Charge,
         driverPlatformPayment, Record, payVars, dunVars

LEMMA WalkFrame ==
    ASSUME NEW i, WalkMoves(i)
    PROVE  UNCHANGED <<invoices, ctxDone, tlogOpen, payVars, noteVars, walletVars, commandVars>>
  BY DEF WalkMoves, Walk, WalkWaits, RetryRecovers, RetryStillFailing, RetryUnanswered,
         observeTerminalState, WalkExpires, PlatformEscalates

LEMMA NoteFrame == NoteMoves => UNCHANGED <<paymentsVars, walletVars, commandVars>>
  BY DEF NoteMoves, NotesStep

LEMMA SyncFrame == SyncMoves => UNCHANGED <<paymentsVars, noteVars, walletVars, scen, where>>
  BY DEF SyncMoves, VerifyAll, VerifyTakes, VerifyWorkerEnds, VerifyOne, PlatformSyncs

LEMMA WalletFrame == WalletMoves => UNCHANGED <<paymentsVars, noteVars, commandVars>>
  BY DEF WalletMoves

LEMMA WalletKeeps == WalletMoves => UNCHANGED <<customers, pollCtx>>
  BY DEF WalletMoves, PollUntil, PlatformHolds, tickAll, TickSnapshot, TickHolds

LEMMA CommandFrame ==
    runPayments => UNCHANGED <<invoices, ctxDone, trail, cfg, pay, outcome, stats, payLog, dunVars,
                               noteVars, customers, hold, audit, events, priorHolds, polls, scen, sync, erp>>
  BY DEF runPayments, CapturePreRun, StartPayments, StartNotes, StartVerify, StopPoller,
         CapturePostRun, Return, ProcessInvoices, Goto, payVars, dunVars, paymentsVars,
         walletVars, commandVars

-----------------------------------------------------------------------------
(* Facts about sets. *)
LEMMA FirstIn ==
    ASSUME NEW S, S \subseteq Nat, S # {}
    PROVE  First(S) \in S
  <1> DEFINE R == OpToRel(<, Nat)
  <1>1. IsWellFoundedOn(R, Nat)
    BY NatLessThanWellFounded
  <1>2. \A y, x \in Nat : y < x => <<y, x>> \in R
    BY DEF OpToRel
  <1> HIDE DEF R
  <1>3. PICK x \in S : \A y \in S : ~(<<y, x>> \in R)
    BY <1>1, WFMin
  <1>4. ASSUME NEW y \in S PROVE x <= y
    <2>1. x \in Nat /\ y \in Nat
      OBVIOUS
    <2>2. ~(y < x)
      BY <1>2, <1>3, <2>1
    <2> QED
      BY <2>1, <2>2
  <1> QED
    BY <1>3, <1>4 DEF First

LEMMA Scenario ==
    ASSUME Setup
    PROVE  /\ scen.n \in Nat /\ invoices \subseteq Nat /\ IsFiniteSet(invoices)
           /\ cfg.attempts \in Nat \ {0} /\ cfg.mode \in {"offline", "live"}
           /\ cfg.mix \subseteq {"succeeded", "declined", "insufficient_funds"}
           /\ scen.notes \in BOOLEAN /\ scen.erp \in BOOLEAN
           /\ customers \subseteq Nat
  <1>1. scen.n \in 0..MaxInvoices
    BY ScenarioAssumption DEF Setup
  <1>2. scen.n \in Nat
    BY <1>1, PaymentsAssumption
  <1>3. IsFiniteSet(invoices)
    BY <1>2, FS_Interval DEF Setup
  <1>4. invoices \subseteq Nat
    BY <1>2 DEF Setup
  <1>5. /\ cfg.attempts \in Nat \ {0} /\ cfg.mode \in {"offline", "live"}
        /\ cfg.mix \subseteq {"succeeded", "declined", "insufficient_funds"}
    BY ScenarioAssumption DEF Setup
  <1>6. scen.notes \in BOOLEAN /\ scen.erp \in BOOLEAN /\ customers \subseteq Nat
    BY ScenarioAssumption, WalletAssumption DEF Setup
  <1> QED
    BY <1>2, <1>3, <1>4, <1>5, <1>6

(* A set of invoices is finite. *)
LEMMA InvoiceSet ==
    ASSUME Setup, NEW S \in SUBSET invoices
    PROVE  IsFiniteSet(S) /\ Cardinality(S) \in Nat
  BY Scenario, FS_Subset, FS_CardinalityType

-----------------------------------------------------------------------------
(* The parameters of the run. *)
LEMMA SetupInit == Init => Setup
  BY DEF Init, Setup, PaymentsInit, WalletInit, Where

LEMMA SetupStep == ASSUME Setup, [Next]_vars PROVE Setup'
  <1> USE DEF Setup, paymentsVars, walletVars, commandVars
  <1>1. CASE runPayments
    <2>1. where' \in Where
      BY <1>1 DEF runPayments, CapturePreRun, StartPayments, StartNotes, StartVerify, StopPoller,
             CapturePostRun, Return, Goto, Where
    <2> QED
      BY <1>1, <2>1, CommandFrame
  <1>2. CASE Signal
    BY <1>2 DEF Signal, payVars
  <1>3. CASE PayMoves
    BY <1>3, PayFrame
  <1>4. CASE NoteMoves
    BY <1>4, NoteFrame DEF payVars
  <1>5. CASE SyncMoves
    BY <1>5, SyncFrame DEF payVars
  <1>6. CASE WalletMoves
    BY <1>6, WalletFrame, WalletKeeps DEF payVars
  <1>7. ASSUME NEW i \in invoices, WalkMoves(i) PROVE Setup'
    BY <1>7, WalkFrame DEF payVars
  <1>8. CASE UNCHANGED vars
    BY <1>8 DEF vars, payVars
  <1> QED
    BY <1>1, <1>2, <1>3, <1>4, <1>5, <1>6, <1>7, <1>8, Movers

-----------------------------------------------------------------------------
(* The payment workers. *)
LEMMA PayInit == ASSUME Init PROVE PayInv
  <1>s. Setup
    BY SetupInit
  <1> USE DEF Init, PaymentsInit
  <1>1. Busy = {} /\ Taken = {} /\ Queue = invoices
    BY DEF Busy, Taken, Queue
  <1>2. \A b \in Buckets : Logged(b) = {}
    BY DEF Logged
  <1>3. Cardinality({}) = 0
    BY FS_EmptySet
  <1>4. PayTypes
    BY PaymentsAssumption DEF PayTypes, PayStates, Outcomes
  <1>5. PoolInv
    BY <1>1, <1>3, <1>s DEF PoolInv
  <1>6. StatsInv
    BY <1>1, <1>2, <1>3 DEF StatsInv, RowInv, Buckets
  <1> QED
    BY <1>4, <1>5, <1>6 DEF PayInv

\* A row of an outcome, and the counter of its bucket.
LEMMA RowCounted ==
    ASSUME Setup, PayTypes, StatsInv, NEW i \in invoices, NEW o \in Outcomes,
           payLog[i] = <<>>, payLog' = [payLog EXCEPT ![i] = Append(@, o)],
           stats' = tally(stats, o), UNCHANGED invoices
    PROVE  /\ payLog' \in [invoices -> Seq(Outcomes)] /\ payLog'[i] = <<o>>
           /\ stats' \in [Buckets \cup {"processed"} -> Nat]
           /\ stats'["processed"] = stats["processed"]
           /\ \A b \in Buckets : stats'[b] = Cardinality(Logged(b)')
  <1>1. payLog'[i] = <<o>> /\ <<o>> # <<>> /\ \A j \in invoices \ {i} : payLog'[j] = payLog[j]
    BY DEF PayTypes
  <1>2. payLog' \in [invoices -> Seq(Outcomes)]
    BY DEF PayTypes
  <1>3. stats' \in [Buckets \cup {"processed"} -> Nat] /\ stats'["processed"] = stats["processed"]
    BY DEF PayTypes, tally, Buckets
  <1>4. ASSUME NEW b \in Buckets PROVE stats'[b] = Cardinality(Logged(b)')
    <2>1. IsFiniteSet(Logged(b)) /\ Cardinality(Logged(b)) \in Nat
      BY InvoiceSet DEF Logged
    <2>2. i \notin Logged(b)
      <3>1. <<b>> # <<>>
        OBVIOUS
      <3> QED
        BY <3>1 DEF Logged
    <2>5. stats[b] = Cardinality(Logged(b))
      BY DEF StatsInv
    <2>3. CASE b = o
      <3>1. Logged(b)' = Logged(b) \cup {i}
        BY <1>1, <2>3 DEF Logged
      <3>2. stats'[b] = stats[b] + 1
        BY <2>3 DEF tally, PayTypes
      <3> QED
        BY <2>1, <2>2, <2>5, <3>1, <3>2, FS_AddElement
    <2>4. CASE b # o
      <3>1. <<b>> # <<o>>
        BY <2>4
      <3>2. Logged(b)' = Logged(b)
        BY <1>1, <2>2, <3>1 DEF Logged
      <3>3. stats'[b] = stats[b]
        BY <2>4 DEF tally, PayTypes
      <3> QED
        BY <2>5, <3>2, <3>3
    <2> QED
      BY <2>3, <2>4
  <1> QED
    BY <1>1, <1>2, <1>3, <1>4

\* An invoice moves within the hands of a worker, or leaves them.
LEMMA Handled ==
    ASSUME Setup, PayInv, where = "payments", UNCHANGED <<invoices, ctxDone, where, pool, cfg>>,
           NEW i \in Busy, NEW p \in PayStates \ {"queued", "dropped"},
           pay' = [pay EXCEPT ![i] = p]
    PROVE  pay' \in [invoices -> PayStates] /\ PoolInv' /\ Taken' = Taken
  <1>0. i \in invoices /\ pay[i] \in {"charge", "drive", "fallback", "record"}
    BY DEF Busy
  <1>1. pay' \in [invoices -> PayStates] /\ pay'[i] = p /\ \A j \in invoices \ {i} : pay'[j] = pay[j]
    BY <1>0 DEF PayInv, PayTypes
  <1>2. Taken' = Taken /\ Queue' = Queue /\ Busy' \in SUBSET Busy
    BY <1>0, <1>1 DEF Taken, Queue, Busy
  <1>3. IsFiniteSet(Busy) /\ Cardinality(Busy) \in Nat
    BY InvoiceSet DEF Busy
  <1>4. Cardinality(Busy') <= Cardinality(Busy) /\ Cardinality(Busy') \in Nat
    BY <1>2, <1>3, FS_Subset, FS_CardinalityType
  <1>5. Cardinality(Busy') <= pool'
    BY <1>3, <1>4 DEF PayInv, PoolInv, PayTypes
  <1>6. ~ctxDone' => \A j \in invoices : pay'[j] # "dropped"
    BY <1>1 DEF PayInv, PoolInv
  <1> QED
    BY <1>1, <1>2, <1>5, <1>6 DEF PayInv, PoolInv

LEMMA PayMovesInv == ASSUME Setup, PayInv, PayMoves PROVE PayInv'
  <1>f. UNCHANGED <<invoices, ctxDone, cfg, where>> /\ where = "payments"
    BY PayFrame DEF PayMoves, commandVars
  <1>b. /\ IsFiniteSet(Busy) /\ Cardinality(Busy) \in Nat
        /\ IsFiniteSet(Taken) /\ Cardinality(Taken) \in Nat
        /\ pool \in Nat /\ Workers \in Nat
    BY InvoiceSet, PaymentsAssumption DEF Busy, Taken, PayInv, PayTypes
  <1>1. CASE WorkerTakes
    <2> DEFINE i == NextInvoice
    <2>1. i \in Queue
      <3>1. Queue \subseteq Nat /\ Queue # {}
        BY <1>1, Scenario DEF Queue, WorkerTakes
      <3> QED
        BY <3>1, FirstIn DEF NextInvoice, First
    <2> HIDE DEF i
    <2>2. i \in invoices /\ pay[i] = "queued"
      BY <2>1 DEF Queue
    <2>3. Queue # {} /\ Cardinality(Busy) < pool /\ UNCHANGED <<outcome, payLog>>
      BY <1>1 DEF WorkerTakes
    <2>4. CASE ctxDone
      <3>1. pay' = [pay EXCEPT ![i] = "dropped"] /\ pool' = pool - 1 /\ stats' = stats
        BY <1>1, <2>4 DEF WorkerTakes, i
      <3>2. pay' \in [invoices -> PayStates] /\ pay'[i] = "dropped" /\ \A j \in invoices \ {i} : pay'[j] = pay[j]
        BY <3>1, <2>2 DEF PayInv, PayTypes, PayStates
      <3>3. Busy' = Busy /\ Taken' = Taken
        BY <1>f, <2>2, <3>2 DEF Busy, Taken
      <3>4. pool' \in 0..Workers /\ Cardinality(Busy)' <= pool'
        BY <1>b, <2>3, <3>1, <3>3 DEF PayInv, PayTypes
      <3>5. PoolInv'
        BY <1>f, <2>4, <3>4 DEF PoolInv
      <3>6. StatsInv'
        <4>1. \A j \in invoices : RowInv(j)'
          BY <2>2, <2>3, <3>2 DEF PayInv, StatsInv, RowInv
        <4>2. \A b \in Buckets : Logged(b)' = Logged(b)
          BY <1>f, <2>3 DEF Logged
        <4> QED
          BY <1>f, <3>1, <3>3, <4>1, <4>2 DEF PayInv, StatsInv
      <3> QED
        BY <1>f, <2>3, <3>1, <3>2, <3>4, <3>5, <3>6 DEF PayInv, PayTypes
    <2>5. CASE ~ctxDone
      <3>1. /\ pay' = [pay EXCEPT ![i] = "charge"] /\ pool' = pool
            /\ stats' = [stats EXCEPT !["processed"] = @ + 1]
        BY <1>1, <2>5 DEF WorkerTakes, i
      <3>2. pay' \in [invoices -> PayStates] /\ pay'[i] = "charge" /\ \A j \in invoices \ {i} : pay'[j] = pay[j]
        BY <3>1, <2>2 DEF PayInv, PayTypes, PayStates
      <3>3. /\ Busy' = Busy \cup {i} /\ Taken' = Taken \cup {i}
            /\ i \notin Busy /\ i \notin Taken
        BY <1>f, <2>2, <3>2 DEF Busy, Taken
      <3>4. Cardinality(Busy') = Cardinality(Busy) + 1 /\ Cardinality(Taken') = Cardinality(Taken) + 1
        BY <1>b, <3>3, FS_AddElement
      <3>5. Cardinality(Busy)' <= pool'
        BY <1>b, <2>3, <3>1, <3>4
      <3>6. pool = Workers /\ \A j \in invoices : pay'[j] # "dropped"
        BY <1>f, <2>3, <2>5, <3>2 DEF PayInv, PoolInv
      <3>7. PoolInv'
        BY <1>f, <2>5, <3>1, <3>5, <3>6 DEF PoolInv
      <3>8. StatsInv'
        <4>1. \A j \in invoices : RowInv(j)'
          BY <2>2, <2>3, <3>2 DEF PayInv, StatsInv, RowInv
        <4>2. \A b \in Buckets : Logged(b)' = Logged(b)
          BY <1>f, <2>3 DEF Logged
        <4>3. stats'["processed"] = stats["processed"] + 1 /\ \A b \in Buckets : stats'[b] = stats[b]
          BY <3>1 DEF PayInv, PayTypes, Buckets
        <4> QED
          BY <1>f, <3>4, <4>1, <4>2, <4>3 DEF PayInv, StatsInv
      <3>9. stats' \in [Buckets \cup {"processed"} -> Nat]
        BY <3>1 DEF PayInv, PayTypes
      <3> QED
        BY <1>f, <2>3, <3>1, <3>2, <3>7, <3>8, <3>9 DEF PayInv, PayTypes
    <2> QED
      BY <2>4, <2>5 DEF Setup
  <1>2. CASE WorkerEnds
    <2>1. /\ Cardinality(Busy) < pool /\ Queue = {} /\ pool' = pool - 1
          /\ UNCHANGED <<pay, outcome, stats, payLog>>
      BY <1>2 DEF WorkerEnds
    <2>2. Busy' = Busy /\ Taken' = Taken /\ Queue' = Queue /\ \A b \in Buckets : Logged(b)' = Logged(b)
      BY <1>f, <2>1 DEF Busy, Taken, Queue, Logged
    <2>3. pool' \in 0..Workers /\ Cardinality(Busy)' <= pool'
      BY <1>b, <2>1, <2>2 DEF PayInv, PayTypes
    <2>4. PoolInv'
      BY <1>f, <2>1, <2>2, <2>3 DEF PayInv, PoolInv
    <2>5. StatsInv'
      BY <1>f, <2>1, <2>2 DEF PayInv, StatsInv, RowInv
    <2> QED
      BY <1>f, <2>1, <2>3, <2>4, <2>5 DEF PayInv, PayTypes
  <1>3. ASSUME NEW i \in invoices, ChargeFails(i) PROVE PayInv'
    <2>1. i \in Busy /\ pay[i] = "charge" /\ UNCHANGED <<pool, outcome>>
      BY <1>3 DEF ChargeFails, Busy
    <2>2. pay' = [pay EXCEPT ![i] = "done"] /\ "done" \in PayStates \ {"queued", "dropped"}
      BY <1>3 DEF ChargeFails, PayStates
    <2>3. pay' \in [invoices -> PayStates] /\ PoolInv' /\ Taken' = Taken
      BY <1>f, <2>1, <2>2, Handled
    <2>4. payLog[i] = <<>>
      BY <2>1 DEF PayInv, StatsInv, RowInv
    <2>5. "error" \in Outcomes
      BY DEF Outcomes
    <2>6. payLog' = [payLog EXCEPT ![i] = Append(@, "error")] /\ stats' = tally(stats, "error")
      BY <1>3 DEF ChargeFails
    <2>7. /\ payLog' \in [invoices -> Seq(Outcomes)] /\ payLog'[i] = <<"error">>
          /\ stats' \in [Buckets \cup {"processed"} -> Nat]
          /\ stats'["processed"] = stats["processed"]
          /\ \A b \in Buckets : stats'[b] = Cardinality(Logged(b)')
      BY <1>f, <2>4, <2>5, <2>6, RowCounted DEF PayInv
    <2>8. \A j \in invoices : RowInv(j)'
      BY <2>2, <2>5, <2>6, <2>7 DEF PayInv, PayTypes, StatsInv, RowInv
    <2> QED
      BY <1>f, <2>1, <2>3, <2>7, <2>8 DEF PayInv, PayTypes, StatsInv
  <1>4. ASSUME NEW i \in invoices, Charge(i) PROVE PayInv'
    <2>1. i \in Busy /\ pay[i] = "charge" /\ UNCHANGED <<pool, stats, payLog>>
      BY <1>4 DEF Charge, Busy
    <2>2. pay' = [pay EXCEPT ![i] = "drive"] /\ "drive" \in PayStates \ {"queued", "dropped"}
      BY <1>4 DEF Charge, PayStates
    <2>3. pay' \in [invoices -> PayStates] /\ PoolInv' /\ Taken' = Taken
      BY <1>f, <2>1, <2>2, Handled
    <2>4. PICK want \in cfg.mix : \E o \in CreatePaymentIntent(want) : outcome' = [outcome EXCEPT ![i] = o]
      BY <1>4 DEF Charge
    <2>5. PICK o \in CreatePaymentIntent(want) : outcome' = [outcome EXCEPT ![i] = o]
      BY <2>4
    <2>6. o \in Outcomes
      BY <2>4, <2>5, Scenario DEF CreatePaymentIntent, offlineCharge, liveCharge,
         classifyStripeStatus, StripeAnswers, Outcomes
    <2>7. outcome' \in [invoices -> Outcomes]
      BY <2>5, <2>6 DEF PayInv, PayTypes
    <2>8. \A j \in invoices : RowInv(j)'
      BY <2>1, <2>2 DEF PayInv, PayTypes, StatsInv, RowInv
    <2>9. \A b \in Buckets : Logged(b)' = Logged(b)
      BY <1>f, <2>1 DEF Logged
    <2> QED
      BY <1>f, <2>1, <2>3, <2>7, <2>8, <2>9 DEF PayInv, PayTypes, StatsInv
  <1>5. ASSUME NEW i \in invoices, driverPlatformPayment(i) PROVE PayInv'
    <2>1. i \in Busy /\ pay[i] \in {"drive", "fallback"} /\ UNCHANGED <<pool, outcome, stats, payLog>>
      BY <1>5 DEF driverPlatformPayment, Busy
    <2>2. PICK p \in {"fallback", "record"} : pay' = [pay EXCEPT ![i] = p]
      BY <1>5 DEF driverPlatformPayment
    <2>3. p \in PayStates \ {"queued", "dropped"} /\ p # "done"
      BY <2>2 DEF PayStates
    <2>4. pay' \in [invoices -> PayStates] /\ PoolInv' /\ Taken' = Taken
      BY <1>f, <2>1, <2>2, <2>3, Handled
    <2>5. \A j \in invoices : RowInv(j)'
      BY <2>1, <2>2, <2>3 DEF PayInv, PayTypes, StatsInv, RowInv
    <2>6. \A b \in Buckets : Logged(b)' = Logged(b)
      BY <1>f, <2>1 DEF Logged
    <2> QED
      BY <1>f, <2>1, <2>4, <2>5, <2>6 DEF PayInv, PayTypes, StatsInv
  <1>6. ASSUME NEW i \in invoices, Record(i) PROVE PayInv'
    <2>1. i \in Busy /\ pay[i] = "record" /\ UNCHANGED <<pool, outcome>>
      BY <1>6 DEF Record, Busy
    <2>2. pay' = [pay EXCEPT ![i] = "done"] /\ "done" \in PayStates \ {"queued", "dropped"}
      BY <1>6 DEF Record, PayStates
    <2>3. pay' \in [invoices -> PayStates] /\ PoolInv' /\ Taken' = Taken
      BY <1>f, <2>1, <2>2, Handled
    <2>4. payLog[i] = <<>>
      BY <2>1 DEF PayInv, StatsInv, RowInv
    <2>5. outcome[i] \in Outcomes
      BY DEF PayInv, PayTypes
    <2>6. payLog' = [payLog EXCEPT ![i] = Append(@, outcome[i])] /\ stats' = tally(stats, outcome[i])
      BY <1>6 DEF Record
    <2>7. /\ payLog' \in [invoices -> Seq(Outcomes)] /\ payLog'[i] = <<outcome[i]>>
          /\ stats' \in [Buckets \cup {"processed"} -> Nat]
          /\ stats'["processed"] = stats["processed"]
          /\ \A b \in Buckets : stats'[b] = Cardinality(Logged(b)')
      BY <1>f, <2>4, <2>5, <2>6, RowCounted DEF PayInv
    <2>8. \A j \in invoices : RowInv(j)'
      BY <2>2, <2>5, <2>6, <2>7 DEF PayInv, PayTypes, StatsInv, RowInv
    <2> QED
      BY <1>f, <2>1, <2>3, <2>7, <2>8 DEF PayInv, PayTypes, StatsInv
  <1> QED
    BY <1>1, <1>2, <1>3, <1>4, <1>5, <1>6 DEF PayMoves, PayStep

LEMMA CommandPool ==
    ASSUME runPayments
    PROVE  \/ where = "pre" /\ where' = "pre" /\ pool' = pool
           \/ where = "pre" /\ where' = "payments" /\ pool' = IF invoices = {} THEN 0 ELSE Workers
           \/ where = "payments" /\ where' = "notes" /\ pool = 0 /\ pool' = pool
           \/ where \notin {"pre", "payments"} /\ where' \notin {"pre", "payments"} /\ pool' = pool
  <1> USE DEF Goto, paymentsVars, payVars, commandVars
  <1>1. CASE CapturePreRun
    BY <1>1 DEF CapturePreRun
  <1>2. CASE StartPayments
    BY <1>2 DEF StartPayments, ProcessInvoices
  <1>3. CASE StartNotes
    BY <1>3 DEF StartNotes, PoolDone
  <1>4. CASE StartVerify
    BY <1>4 DEF StartVerify
  <1>5. CASE StopPoller
    BY <1>5 DEF StopPoller
  <1>6. CASE CapturePostRun
    BY <1>6 DEF CapturePostRun
  <1>7. CASE Return
    BY <1>7 DEF Return
  <1> QED
    BY <1>1, <1>2, <1>3, <1>4, <1>5, <1>6, <1>7 DEF runPayments

LEMMA PayUnmoved ==
    ASSUME PayInv, UNCHANGED <<invoices, ctxDone, payVars, where>>
    PROVE  PayInv'
  <1> USE DEF payVars
  <1>1. Busy' = Busy /\ Queue' = Queue /\ Taken' = Taken /\ \A b \in Buckets : Logged(b)' = Logged(b)
    BY DEF Busy, Queue, Taken, Logged
  <1>2. PayTypes'
    BY DEF PayInv, PayTypes
  <1>3. PoolInv'
    BY <1>1 DEF PayInv, PoolInv
  <1>4. StatsInv'
    BY <1>1 DEF PayInv, StatsInv, RowInv
  <1> QED
    BY <1>2, <1>3, <1>4 DEF PayInv

LEMMA PayStepInv == ASSUME Setup, PayInv, [Next]_vars PROVE PayInv'
  <1> USE DEF paymentsVars, commandVars
  <1>1. CASE runPayments
    <2>f. UNCHANGED <<invoices, ctxDone, cfg, pay, outcome, stats, payLog>>
      BY <1>1, CommandFrame
    <2>1. Busy' = Busy /\ Queue' = Queue /\ Taken' = Taken /\ \A b \in Buckets : Logged(b)' = Logged(b)
      BY <2>f DEF Busy, Queue, Taken, Logged
    <2>2. Workers \in Nat \ {0} /\ pool \in 0..Workers /\ Cardinality(Busy) <= pool
      BY PaymentsAssumption DEF PayInv, PayTypes, PoolInv
    <2>3. PayTypes'
      BY <1>1, <2>f, <2>2, CommandPool DEF PayInv, PayTypes
    <2>4. StatsInv'
      BY <2>f, <2>1 DEF PayInv, StatsInv, RowInv
    <2>5. where = "pre" => Cardinality(Busy) = 0
      <3> SUFFICES ASSUME where = "pre" PROVE Cardinality(Busy) = 0
        OBVIOUS
      <3>1. Busy = {}
        BY DEF PayInv, PoolInv, Busy, Queue
      <3> QED
        BY <3>1, FS_EmptySet
    <2>6. PoolInv'
      <3>1. Cardinality(Busy') <= pool'
        BY <1>1, <2>1, <2>2, <2>5, CommandPool
      <3>2. \A i \in invoices : pay'[i] = pay[i]
        BY <2>f
      <3>3. invoices = {} => Queue = {}
        BY DEF Queue
      <3> QED
        BY <1>1, <2>f, <2>1, <2>2, <3>1, <3>2, <3>3, CommandPool DEF PayInv, PoolInv
    <2> QED
      BY <2>3, <2>4, <2>6 DEF PayInv
  <1>2. CASE Signal
    <2>1. UNCHANGED <<invoices, payVars, where>> /\ ctxDone'
      BY <1>2 DEF Signal
    <2>2. Busy' = Busy /\ Queue' = Queue /\ Taken' = Taken /\ \A b \in Buckets : Logged(b)' = Logged(b)
      BY <2>1 DEF Busy, Queue, Taken, Logged, payVars
    <2>3. PayTypes' /\ PoolInv'
      BY <2>1, <2>2 DEF PayInv, PayTypes, PoolInv, payVars
    <2>4. StatsInv'
      BY <2>1, <2>2 DEF PayInv, StatsInv, RowInv, payVars
    <2> QED
      BY <2>3, <2>4 DEF PayInv
  <1>3. CASE PayMoves
    BY <1>3, PayMovesInv
  <1>4. CASE NoteMoves
    BY <1>4, NoteFrame, PayUnmoved
  <1>5. CASE SyncMoves
    BY <1>5, SyncFrame, PayUnmoved
  <1>6. CASE WalletMoves
    BY <1>6, WalletFrame, PayUnmoved
  <1>7. ASSUME NEW i \in invoices, WalkMoves(i) PROVE PayInv'
    BY <1>7, WalkFrame, PayUnmoved
  <1>8. CASE UNCHANGED vars
    BY <1>8, PayUnmoved DEF vars
  <1> QED
    BY <1>1, <1>2, <1>3, <1>4, <1>5, <1>6, <1>7, <1>8, Movers

-----------------------------------------------------------------------------
(* The ERP workers. *)
LEMMA SyncInit == ASSUME Init PROVE SyncInv
  <1>s. Setup
    BY SetupInit
  <1>1. invoices = 1..scen.n
    BY <1>s DEF Setup
  <1>2. Polling = {} /\ SyncQueue = invoices
    BY <1>1 DEF Init, Polling, SyncQueue
  <1>3. Cardinality(Polling) = 0
    BY <1>2, FS_EmptySet
  <1>4. SyncTypes
    BY <1>1, PaymentsAssumption DEF Init, SyncTypes, SyncStates
  <1> QED
    BY <1>1, <1>2, <1>3, <1>4 DEF Init, SyncInv

LEMMA CommandSync ==
    ASSUME runPayments
    PROVE  \/ /\ where \in {"pre", "payments", "notes"} /\ where' \in {"pre", "payments", "notes"}
              /\ syncPool' = syncPool
           \/ where = "notes" /\ where' = "erp" /\ syncPool' = IF scen.erp THEN Workers ELSE 0
           \/ where = "erp" /\ where' = "unpoll" /\ syncPool = 0 /\ syncPool' = syncPool
           \/ /\ where \notin {"pre", "payments", "notes", "erp"}
              /\ where' \notin {"pre", "payments", "notes", "erp"}
              /\ syncPool' = syncPool
  <1> USE DEF Goto, commandVars
  <1>1. CASE CapturePreRun
    BY <1>1 DEF CapturePreRun
  <1>2. CASE StartPayments
    BY <1>2 DEF StartPayments
  <1>3. CASE StartNotes
    BY <1>3 DEF StartNotes
  <1>4. CASE StartVerify
    BY <1>4 DEF StartVerify
  <1>5. CASE StopPoller
    BY <1>5 DEF StopPoller
  <1>6. CASE CapturePostRun
    BY <1>6 DEF CapturePostRun
  <1>7. CASE Return
    BY <1>7 DEF Return
  <1> QED
    BY <1>1, <1>2, <1>3, <1>4, <1>5, <1>6, <1>7 DEF runPayments

LEMMA SyncUnmoved ==
    ASSUME SyncInv, UNCHANGED <<invoices, scen, ctxDone, where, sync, syncPool, erp>>
    PROVE  SyncInv'
  <1>1. Polling' = Polling /\ SyncQueue' = SyncQueue
    BY DEF Polling, SyncQueue
  <1> QED
    BY <1>1 DEF SyncInv, SyncTypes

LEMMA SyncMovesInv == ASSUME Setup, SyncInv, SyncMoves PROVE SyncInv'
  <1>f. UNCHANGED <<invoices, ctxDone, scen, where>>
    BY SyncFrame DEF paymentsVars
  <1>b. /\ IsFiniteSet(Polling) /\ Cardinality(Polling) \in Nat
        /\ syncPool \in Nat /\ Workers \in Nat
    BY InvoiceSet, PaymentsAssumption DEF Polling, SyncInv, SyncTypes
  <1>1. CASE VerifyTakes
    <2> DEFINE i == First(SyncQueue)
    <2>1. i \in SyncQueue
      <3>1. SyncQueue \subseteq Nat /\ SyncQueue # {}
        BY <1>1, Scenario DEF SyncQueue, VerifyTakes
      <3> QED
        BY <3>1, FirstIn
    <2> HIDE DEF i
    <2>2. i \in invoices /\ sync[i] = "queued"
      BY <2>1 DEF SyncQueue
    <2>3. SyncQueue # {} /\ Cardinality(Polling) < syncPool /\ UNCHANGED erp
      BY <1>1 DEF VerifyTakes
    <2>4. where = "erp"
      BY <1>b, <2>3 DEF SyncInv
    <2>5. CASE ctxDone
      <3>1. sync' = [sync EXCEPT ![i] = "dropped"] /\ syncPool' = syncPool - 1
        BY <1>1, <2>5 DEF VerifyTakes, i
      <3>2. sync' \in [invoices -> SyncStates] /\ sync'[i] = "dropped" /\ \A j \in invoices \ {i} : sync'[j] = sync[j]
        BY <3>1, <2>2 DEF SyncInv, SyncTypes, SyncStates
      <3>3. Polling' = Polling
        BY <1>f, <2>2, <3>2 DEF Polling
      <3>4. syncPool' \in 0..Workers /\ Cardinality(Polling)' <= syncPool'
        BY <1>b, <2>3, <3>1, <3>3 DEF SyncInv, SyncTypes
      <3>5. \A j \in invoices : sync'[j] \in {"synced", "failed"} => erp'[j] = sync'[j]
        BY <2>3, <3>2 DEF SyncInv
      <3> QED
        BY <1>f, <2>3, <2>4, <2>5, <3>2, <3>4, <3>5 DEF SyncInv, SyncTypes
    <2>6. CASE ~ctxDone
      <3>1. sync' = [sync EXCEPT ![i] = "poll"] /\ syncPool' = syncPool
        BY <1>1, <2>6 DEF VerifyTakes, i
      <3>2. sync' \in [invoices -> SyncStates] /\ sync'[i] = "poll" /\ \A j \in invoices \ {i} : sync'[j] = sync[j]
        BY <3>1, <2>2 DEF SyncInv, SyncTypes, SyncStates
      <3>3. Polling' = Polling \cup {i} /\ i \notin Polling
        BY <1>f, <2>2, <3>2 DEF Polling
      <3>4. Cardinality(Polling') = Cardinality(Polling) + 1
        BY <1>b, <3>3, FS_AddElement
      <3>5. Cardinality(Polling)' <= syncPool'
        BY <1>b, <2>3, <3>1, <3>4
      <3>6. \A j \in invoices : /\ sync'[j] # "dropped"
                                /\ sync'[j] \in {"synced", "failed"} => erp'[j] = sync'[j]
        BY <2>3, <2>6, <3>2 DEF SyncInv
      <3>7. scen.erp => syncPool = Workers
        BY <2>3, <2>4, <2>6 DEF SyncInv
      <3> QED
        BY <1>f, <2>3, <2>4, <3>1, <3>2, <3>5, <3>6, <3>7 DEF SyncInv, SyncTypes
    <2> QED
      BY <2>5, <2>6 DEF Setup
  <1>2. CASE VerifyWorkerEnds
    <2>1. /\ Cardinality(Polling) < syncPool /\ SyncQueue = {} /\ syncPool' = syncPool - 1
          /\ UNCHANGED <<sync, erp>>
      BY <1>2 DEF VerifyWorkerEnds
    <2>2. Polling' = Polling /\ SyncQueue' = SyncQueue
      BY <1>f, <2>1 DEF Polling, SyncQueue
    <2>3. syncPool' \in 0..Workers /\ Cardinality(Polling)' <= syncPool' /\ where = "erp"
      BY <1>b, <2>1, <2>2 DEF SyncInv, SyncTypes
    <2> QED
      BY <1>f, <2>1, <2>2, <2>3 DEF SyncInv, SyncTypes
  <1>3. ASSUME NEW i \in invoices, VerifyOne(i) PROVE SyncInv'
    <2>1. sync[i] = "poll" /\ UNCHANGED <<syncPool, erp>>
      BY <1>3 DEF VerifyOne
    <2>2. PICK s \in {"synced", "failed", "missing"} :
             sync' = [sync EXCEPT ![i] = s] /\ (s # "missing" => erp[i] = s)
      BY <1>3 DEF VerifyOne, SyncInv, SyncTypes
    <2>3. sync' \in [invoices -> SyncStates] /\ sync'[i] = s /\ \A j \in invoices \ {i} : sync'[j] = sync[j]
      BY <2>2 DEF SyncInv, SyncTypes, SyncStates
    <2>4. Polling' \in SUBSET Polling /\ SyncQueue' = SyncQueue
      BY <1>f, <2>1, <2>2, <2>3 DEF Polling, SyncQueue
    <2>5. Cardinality(Polling') <= Cardinality(Polling) /\ Cardinality(Polling') \in Nat
      BY <1>b, <2>4, FS_Subset, FS_CardinalityType
    <2>6. Cardinality(Polling') <= syncPool'
      BY <1>b, <2>1, <2>5 DEF SyncInv
    <2>7. \A j \in invoices : sync'[j] \in {"synced", "failed"} => erp'[j] = sync'[j]
      BY <2>1, <2>2, <2>3 DEF SyncInv
    <2>8. ~ctxDone => \A j \in invoices : sync'[j] # "dropped"
      BY <2>2, <2>3 DEF SyncInv
    <2>9. where \notin {"pre", "payments", "notes"}
      BY <2>1 DEF SyncInv, SyncQueue
    <2> QED
      BY <1>f, <2>1, <2>3, <2>4, <2>6, <2>7, <2>8, <2>9 DEF SyncInv, SyncTypes
  <1>4. ASSUME NEW i \in invoices, PlatformSyncs(i) PROVE SyncInv'
    <2>1. erp[i] = "none" /\ UNCHANGED <<sync, syncPool>>
      BY <1>4 DEF PlatformSyncs
    <2>2. PICK s \in {"synced", "failed"} : erp' = [erp EXCEPT ![i] = s]
      BY <1>4 DEF PlatformSyncs
    <2>3. Polling' = Polling /\ SyncQueue' = SyncQueue
      BY <1>f, <2>1 DEF Polling, SyncQueue
    <2>4. erp' \in [invoices -> {"none", "synced", "failed"}]
      BY <2>2 DEF SyncInv, SyncTypes
    <2>5. \A j \in invoices : sync'[j] \in {"synced", "failed"} => erp'[j] = sync'[j]
      BY <2>1, <2>2 DEF SyncInv, SyncTypes
    <2> QED
      BY <1>f, <2>1, <2>3, <2>4, <2>5 DEF SyncInv, SyncTypes
  <1> QED
    BY <1>1, <1>2, <1>3, <1>4 DEF SyncMoves, VerifyAll

LEMMA SyncStepInv == ASSUME Setup, SyncInv, [Next]_vars PROVE SyncInv'
  <1> USE DEF paymentsVars, commandVars
  <1>1. CASE runPayments
    <2>f. UNCHANGED <<invoices, ctxDone, scen, sync, erp>>
      BY <1>1, CommandFrame
    <2>1. Polling' = Polling /\ SyncQueue' = SyncQueue
      BY <2>f DEF Polling, SyncQueue
    <2>2. Workers \in Nat \ {0} /\ syncPool \in 0..Workers /\ Cardinality(Polling) <= syncPool
      BY PaymentsAssumption DEF SyncInv, SyncTypes
    <2>3. where = "notes" => Cardinality(Polling) = 0
      <3> SUFFICES ASSUME where = "notes" PROVE Cardinality(Polling) = 0
        OBVIOUS
      <3>1. Polling = {}
        BY DEF SyncInv, Polling, SyncQueue
      <3> QED
        BY <3>1, FS_EmptySet
    <2>4. SyncTypes'
      BY <1>1, <2>f, <2>2, CommandSync DEF SyncInv, SyncTypes
    <2>5. Cardinality(Polling') <= syncPool'
      BY <1>1, <2>1, <2>2, <2>3, CommandSync
    <2> QED
      BY <1>1, <2>f, <2>1, <2>2, <2>4, <2>5, CommandSync DEF SyncInv
  <1>2. CASE Signal
    <2>1. UNCHANGED <<invoices, scen, where, sync, syncPool, erp>> /\ ctxDone'
      BY <1>2 DEF Signal
    <2>2. Polling' = Polling /\ SyncQueue' = SyncQueue
      BY <2>1 DEF Polling, SyncQueue
    <2> QED
      BY <2>1, <2>2 DEF SyncInv, SyncTypes
  <1>3. CASE PayMoves
    BY <1>3, PayFrame, SyncUnmoved
  <1>4. CASE NoteMoves
    BY <1>4, NoteFrame, SyncUnmoved
  <1>5. CASE SyncMoves
    BY <1>5, SyncMovesInv
  <1>6. CASE WalletMoves
    BY <1>6, WalletFrame, SyncUnmoved
  <1>7. ASSUME NEW i \in invoices, WalkMoves(i) PROVE SyncInv'
    BY <1>7, WalkFrame, SyncUnmoved
  <1>8. CASE UNCHANGED vars
    BY <1>8, SyncUnmoved DEF vars
  <1> QED
    BY <1>1, <1>2, <1>3, <1>4, <1>5, <1>6, <1>7, <1>8, Movers

-----------------------------------------------------------------------------
(* The credit-note driver. *)
LEMMA NoteInit == ASSUME Init PROVE NoteInv
  <1>1. invoices = 1..scen.n /\ scen.n \in Nat
    BY SetupInit, Scenario DEF Setup
  <1>2. NoteTypes
    BY <1>1 DEF Init, CreditNotesInit, NoteTypes
  <1>3. step = "next" /\ cur = 1 /\ \A i \in invoices : Untouched(i)
    BY <1>1 DEF Init, CreditNotesInit, Untouched
  <1>4. \A i \in invoices : ~(i < 1)
    BY <1>1
  <1> QED
    BY <1>2, <1>3, <1>4 DEF NoteInv

LEMMA NoteUnmoved ==
    ASSUME NoteInv, UNCHANGED <<invoices, scen, noteVars>>,
           where' # "notes" \/ ~scen.notes => step = "next"
    PROVE  NoteInv'
  BY DEF NoteInv, NoteTypes, noteVars, InFlow, Settled, Untouched

\* One step of the flow: the invoice at hand moves on, or is settled.
LEMMA NoteAdvance ==
    ASSUME Setup, NoteInv, NoteTypes', UNCHANGED <<invoices, scen, where>>,
           where = "notes", scen.notes,
           NEW i \in invoices, i = cur,
           \A j \in invoices \ {i} :
              cnLog'[j] = cnLog[j] /\ note'[j] = note[j] /\ drawn'[j] = drawn[j],
           \/ cur' = i + 1 /\ step' = "next" /\ Settled(i)'
           \/ cur' = i /\ step' # "next" /\ InFlow(i)'
    PROVE  NoteInv'
  <1>0. invoices \subseteq Nat
    BY Scenario
  <1>1. \A j \in invoices \ {i} : /\ Settled(j) => Settled(j)'
                                  /\ Untouched(j) => Untouched(j)'
    BY DEF Settled, Untouched
  <1>2. CASE cur' = i + 1 /\ step' = "next" /\ Settled(i)'
    <2>1. \A j \in invoices : /\ j < cur' => Settled(j)'
                              /\ j > cur' \/ (j = cur' /\ step' = "next") => Untouched(j)'
      <3> TAKE j \in invoices
      <3>1. CASE j = i
        BY <1>0, <1>2, <3>1
      <3>2. CASE j # i
        <4>1. /\ j < cur' => j < cur
              /\ j > cur' \/ j = cur' => j > cur
          BY <1>0, <1>2, <3>2
        <4> QED
          BY <1>1, <3>2, <4>1 DEF NoteInv
      <3> QED
        BY <3>1, <3>2
    <2> QED
      BY <1>2, <2>1 DEF NoteInv
  <1>3. CASE cur' = i /\ step' # "next" /\ InFlow(i)'
    <2>1. \A j \in invoices : /\ j < cur' => Settled(j)'
                              /\ j > cur' => Untouched(j)'
      <3> TAKE j \in invoices
      <3>1. CASE j = i
        BY <1>0, <1>3, <3>1
      <3>2. CASE j # i
        BY <1>0, <1>1, <1>3, <3>2 DEF NoteInv
      <3> QED
        BY <3>1, <3>2
    <2>2. InFlow(cur)'
      BY <1>3
    <2> QED
      BY <1>3, <2>1, <2>2 DEF NoteInv
  <1> QED
    BY <1>2, <1>3

CNRow == [id : BOOLEAN, status : {"DRAFT", "ISSUED", "APPLIED", "error"}]

\* A row is appended for the invoice at hand.
LEMMA LogRow ==
    ASSUME NoteTypes, NEW id \in BOOLEAN, NEW status \in {"DRAFT", "ISSUED", "APPLIED", "error"},
           NEW i \in invoices, i = cur, Log(id, status)
    PROVE  /\ cnLog' \in [invoices -> Seq(CNRow)]
           /\ cnLog'[i] = Append(cnLog[i], NoteRow(id, status))
           /\ \A j \in invoices \ {i} : cnLog'[j] = cnLog[j]
  <1>1. NoteRow(id, status) \in CNRow /\ cnLog \in [invoices -> Seq(CNRow)]
    BY DEF NoteRow, CNRow, NoteTypes
  <1>2. cnLog' = [cnLog EXCEPT ![i] = Append(cnLog[i], NoteRow(id, status))]
    BY DEF Log, NoteRow
  <1> QED
    BY <1>1, <1>2

\* Rows appended to a short log.
LEMMA FirstRow == ASSUME NEW a PROVE Append(<<>>, a) = <<a>>
  OBVIOUS

LEMMA SecondRow == ASSUME NEW a, NEW b PROVE Append(<<a>>, b) = <<a, b>>
  <1> DEFINE S == {a, b}
             s == Append(<<a>>, b)
             t == <<a, b>>
  <1>1. s \in Seq(S) /\ Len(s) = 2 /\ s[1] = a /\ s[2] = b
    OBVIOUS
  <1>2. t \in Seq(S) /\ Len(t) = 2 /\ t[1] = a /\ t[2] = b
    OBVIOUS
  <1> HIDE DEF s, t, S
  <1>3. \A k \in 1..Len(s) : s[k] = t[k]
    BY <1>1, <1>2
  <1>4. s = t
    BY <1>1, <1>2, <1>3
  <1> QED
    BY <1>4 DEF s, t

LEMMA ThirdRow == ASSUME NEW a, NEW b, NEW c PROVE Append(<<a, b>>, c) = <<a, b, c>>
  <1> DEFINE S == {a, b, c}
             s == Append(<<a, b>>, c)
             t == <<a, b, c>>
  <1>1. s \in Seq(S) /\ Len(s) = 3 /\ s[1] = a /\ s[2] = b /\ s[3] = c
    OBVIOUS
  <1>2. t \in Seq(S) /\ Len(t) = 3 /\ t[1] = a /\ t[2] = b /\ t[3] = c
    OBVIOUS
  <1> HIDE DEF s, t, S
  <1>3. \A k \in 1..Len(s) : s[k] = t[k]
    BY <1>1, <1>2
  <1>4. s = t
    BY <1>1, <1>2, <1>3
  <1> QED
    BY <1>4 DEF s, t

LEMMA NoteMovesInv == ASSUME Setup, NoteInv, NoteMoves PROVE NoteInv'
  <1>f. UNCHANGED <<invoices, scen, where>> /\ where = "notes" /\ scen.notes
    BY NoteFrame DEF NoteMoves, paymentsVars, commandVars
  <1>t. NoteTypes /\ invoices \subseteq Nat
    BY Scenario DEF NoteInv
  <1>1. CASE DrawNote
    <2>1. PICK i \in invoices : i = cur
      BY <1>1 DEF DrawNote, NotesOver
    <2>2. step = "next" /\ Untouched(i) /\ UNCHANGED <<note, cnLog>>
      BY <1>1, <2>1 DEF DrawNote, NoteInv
    <2>3. PICK d \in {"none", "issue", "apply"} :
             /\ drawn' = [drawn EXCEPT ![cur] = d]
             /\ IF d = "none" THEN cur' = cur + 1 /\ UNCHANGED step
                              ELSE step' = "draft" /\ UNCHANGED cur
      BY <1>1 DEF DrawNote
    <2>4. NoteTypes'
      BY <1>f, <1>t, <2>1, <2>2, <2>3 DEF NoteTypes
    <2>5. drawn'[i] = d /\ \A j \in invoices \ {i} :
             cnLog'[j] = cnLog[j] /\ note'[j] = note[j] /\ drawn'[j] = drawn[j]
      BY <1>t, <2>1, <2>2, <2>3 DEF NoteTypes
    <2>6. \/ cur' = i + 1 /\ step' = "next" /\ Settled(i)'
          \/ cur' = i /\ step' # "next" /\ InFlow(i)'
      BY <2>1, <2>2, <2>3, <2>5 DEF Untouched, Settled, InFlow
    <2> QED
      BY <1>f, <2>1, <2>4, <2>5, <2>6, NoteAdvance
  <1>2. CASE step # "next" /\ runFlow
    <2>1. PICK i \in invoices : i = cur
      BY <1>2 DEF NoteInv
    <2>2. InFlow(i)
      BY <1>2, <2>1 DEF NoteInv
    <2>3. ASSUME NEW before, NEW after \in {"DRAFT", "ISSUED", "APPLIED"}, PostFails(before, after),
                 step = "apply" => after = "APPLIED"
          PROVE  NoteInv'
      <3>1. /\ cnLog' \in [invoices -> Seq(CNRow)]
            /\ cnLog'[i] = Append(cnLog[i], Errored)
            /\ \A j \in invoices \ {i} : cnLog'[j] = cnLog[j]
        <4>1. Log(FALSE, "error") /\ NoteRow(FALSE, "error") = Errored
          BY <2>3 DEF PostFails, FlowFails, Errored
        <4> QED
          BY <1>t, <2>1, <4>1, LogRow
      <3>2. cur' = i + 1 /\ step' = "next" /\ UNCHANGED drawn
        BY <2>1, <2>3 DEF PostFails, FlowFails
      <3>3. /\ note' \in [invoices -> {"none", "DRAFT", "ISSUED", "APPLIED"}]
            /\ note'[i] \in {note[i], after}
            /\ \A j \in invoices \ {i} : note'[j] = note[j]
        BY <1>t, <2>1, <2>3 DEF PostFails, NoteTypes
      <3>4. NoteTypes'
        BY <1>f, <1>t, <2>1, <3>1, <3>2, <3>3 DEF NoteTypes, CNRow
      <3>5. Settled(i)'
        <4>1. CASE step = "draft"
          <5>1. cnLog[i] = <<>>
            BY <2>2, <4>1 DEF InFlow
          <5>2. cnLog'[i] = <<Errored>>
            BY <3>1, <5>1, FirstRow
          <5> QED
            BY <5>2 DEF Settled
        <4>2. CASE step = "issue"
          <5>1. cnLog'[i] = <<Drafted, Errored>>
            BY <2>2, <3>1, <4>2, SecondRow DEF InFlow
          <5> QED
            BY <5>1 DEF Settled
        <4>3. CASE step = "apply"
          <5>1. cnLog'[i] = <<Drafted, Issued, Errored>> /\ note[i] = "ISSUED"
            BY <2>2, <3>1, <4>3, ThirdRow DEF InFlow
          <5> QED
            BY <2>3, <3>3, <4>3, <5>1 DEF Settled
        <4> QED
          BY <2>2, <4>1, <4>2, <4>3 DEF InFlow
      <3> QED
        BY <1>f, <2>1, <3>1, <3>2, <3>3, <3>4, <3>5, NoteAdvance
    <2>4. ASSUME NEW id \in BOOLEAN, NEW status \in {"DRAFT", "ISSUED", "APPLIED"}, Log(id, status),
                 note' = [note EXCEPT ![cur] = status], UNCHANGED drawn,
                 cur' \in {cur, cur + 1}, step' \in {"next", "draft", "issue", "apply"}
          PROVE  /\ NoteTypes'
                 /\ cnLog'[i] = Append(cnLog[i], NoteRow(id, status)) /\ note'[i] = status
                 /\ \A j \in invoices \ {i} :
                      cnLog'[j] = cnLog[j] /\ note'[j] = note[j] /\ drawn'[j] = drawn[j]
      <3>1. /\ cnLog' \in [invoices -> Seq(CNRow)]
            /\ cnLog'[i] = Append(cnLog[i], NoteRow(id, status))
            /\ \A j \in invoices \ {i} : cnLog'[j] = cnLog[j]
        BY <1>t, <2>1, <2>4, LogRow
      <3>2. /\ note' \in [invoices -> {"none", "DRAFT", "ISSUED", "APPLIED"}] /\ note'[i] = status
            /\ \A j \in invoices \ {i} : note'[j] = note[j]
        BY <1>t, <2>1, <2>4 DEF NoteTypes
      <3>3. NoteTypes'
        BY <1>f, <1>t, <2>1, <2>4, <3>1, <3>2 DEF NoteTypes, CNRow
      <3> QED
        BY <2>4, <3>1, <3>2, <3>3
    <2>5. CASE DraftNote
      <3>0. step = "draft"
        BY <2>5 DEF DraftNote
      <3>1. CASE PostFails("none", "DRAFT")
        BY <2>3, <3>0, <3>1
      <3>2. CASE ~PostFails("none", "DRAFT")
        <4>1. PICK id \in BOOLEAN :
                 /\ Log(id, "DRAFT") /\ note' = [note EXCEPT ![cur] = "DRAFT"] /\ UNCHANGED drawn
                 /\ IF id THEN step' = "issue" /\ UNCHANGED cur
                          ELSE step' = "next" /\ cur' = cur + 1
          BY <2>5, <3>2 DEF DraftNote
        <4>2. /\ NoteTypes'
              /\ cnLog'[i] = Append(cnLog[i], NoteRow(id, "DRAFT")) /\ note'[i] = "DRAFT"
              /\ \A j \in invoices \ {i} :
                   cnLog'[j] = cnLog[j] /\ note'[j] = note[j] /\ drawn'[j] = drawn[j]
          BY <2>4, <4>1
        <4>3. cnLog[i] = <<>> /\ drawn[i] # "none" /\ drawn'[i] = drawn[i]
          BY <2>2, <3>0, <4>1 DEF InFlow
        <4>4. cnLog'[i] = <<NoteRow(id, "DRAFT")>>
          BY <4>2, <4>3
        <4>5. \/ cur' = i + 1 /\ step' = "next" /\ Settled(i)'
              \/ cur' = i /\ step' # "next" /\ InFlow(i)'
          BY <2>1, <4>1, <4>2, <4>3, <4>4 DEF Settled, InFlow, Drafted
        <4> QED
          BY <1>f, <2>1, <4>2, <4>5, NoteAdvance
      <3> QED
        BY <3>1, <3>2
    <2>6. CASE IssueNote
      <3>0. step = "issue"
        BY <2>6 DEF IssueNote
      <3>1. CASE PostFails("DRAFT", "ISSUED")
        BY <2>3, <3>0, <3>1
      <3>2. CASE ~PostFails("DRAFT", "ISSUED")
        <4>1. /\ Log(TRUE, "ISSUED") /\ note' = [note EXCEPT ![cur] = "ISSUED"] /\ UNCHANGED drawn
              /\ IF drawn[cur] = "apply" THEN step' = "apply" /\ UNCHANGED cur
                                         ELSE step' = "next" /\ cur' = cur + 1
          BY <2>6, <3>2 DEF IssueNote
        <4>2. /\ NoteTypes'
              /\ cnLog'[i] = Append(cnLog[i], NoteRow(TRUE, "ISSUED")) /\ note'[i] = "ISSUED"
              /\ \A j \in invoices \ {i} :
                   cnLog'[j] = cnLog[j] /\ note'[j] = note[j] /\ drawn'[j] = drawn[j]
          BY <2>4, <4>1
        <4>3. /\ cnLog[i] = <<Drafted>> /\ drawn[i] # "none" /\ drawn'[i] = drawn[i]
              /\ drawn[i] \in {"issue", "apply"}
          BY <1>t, <2>2, <3>0, <4>1 DEF InFlow, NoteTypes
        <4>4. cnLog'[i] = <<Drafted, Issued>>
          BY <4>2, <4>3, SecondRow DEF Issued
        <4>5. \/ cur' = i + 1 /\ step' = "next" /\ Settled(i)'
              \/ cur' = i /\ step' # "next" /\ InFlow(i)'
          BY <2>1, <4>1, <4>2, <4>3, <4>4 DEF Settled, InFlow
        <4> QED
          BY <1>f, <2>1, <4>2, <4>5, NoteAdvance
      <3> QED
        BY <3>1, <3>2
    <2>7. CASE ApplyNote
      <3>0. step = "apply"
        BY <2>7 DEF ApplyNote
      <3>1. CASE PostFails("ISSUED", "APPLIED")
        BY <2>3, <3>0, <3>1
      <3>2. CASE ~PostFails("ISSUED", "APPLIED")
        <4>1. /\ Log(TRUE, "APPLIED") /\ note' = [note EXCEPT ![cur] = "APPLIED"] /\ UNCHANGED drawn
              /\ step' = "next" /\ cur' = cur + 1
          BY <2>7, <3>2 DEF ApplyNote
        <4>2. /\ NoteTypes'
              /\ cnLog'[i] = Append(cnLog[i], NoteRow(TRUE, "APPLIED")) /\ note'[i] = "APPLIED"
              /\ \A j \in invoices \ {i} :
                   cnLog'[j] = cnLog[j] /\ note'[j] = note[j] /\ drawn'[j] = drawn[j]
          BY <2>4, <4>1
        <4>3. cnLog[i] = <<Drafted, Issued>> /\ drawn'[i] = "apply"
          BY <2>2, <3>0, <4>1 DEF InFlow
        <4>4. cnLog'[i] = <<Drafted, Issued, Applied>>
          BY <4>2, <4>3, ThirdRow DEF Applied
        <4>5. cur' = i + 1 /\ step' = "next" /\ Settled(i)'
          BY <2>1, <4>1, <4>2, <4>3, <4>4 DEF Settled
        <4> QED
          BY <1>f, <2>1, <4>2, <4>5, NoteAdvance
      <3> QED
        BY <3>1, <3>2
    <2> QED
      BY <1>2, <2>5, <2>6, <2>7 DEF runFlow
  <1> QED
    BY <1>1, <1>2 DEF NoteMoves, NotesStep, runFlow, DraftNote, IssueNote, ApplyNote

LEMMA NoteStepInv == ASSUME Setup, NoteInv, [Next]_vars PROVE NoteInv'
  <1> USE DEF paymentsVars, commandVars
  <1>0. UNCHANGED where => (where' # "notes" \/ ~scen.notes => step = "next")
    BY DEF NoteInv
  <1>1. CASE runPayments
    <2>1. UNCHANGED <<invoices, scen, noteVars>>
      BY <1>1, CommandFrame
    <2>2. where = "notes" /\ scen.notes => NotesOver
      BY <1>1 DEF runPayments, CapturePreRun, StartPayments, StartNotes, StartVerify, StopPoller,
                  CapturePostRun, Return
    <2>3. step = "next"
      BY <2>2 DEF NoteInv, NotesOver
    <2> QED
      BY <2>1, <2>3, NoteUnmoved
  <1>2. CASE Signal
    BY <1>0, <1>2, NoteUnmoved DEF Signal
  <1>3. CASE PayMoves
    BY <1>0, <1>3, PayFrame, NoteUnmoved
  <1>4. CASE NoteMoves
    BY <1>4, NoteMovesInv
  <1>5. CASE SyncMoves
    BY <1>0, <1>5, SyncFrame, NoteUnmoved
  <1>6. CASE WalletMoves
    BY <1>0, <1>6, WalletFrame, NoteUnmoved
  <1>7. ASSUME NEW i \in invoices, WalkMoves(i) PROVE NoteInv'
    BY <1>0, <1>7, WalkFrame, NoteUnmoved
  <1>8. CASE UNCHANGED vars
    BY <1>0, <1>8, NoteUnmoved DEF vars
  <1> QED
    BY <1>1, <1>2, <1>3, <1>4, <1>5, <1>6, <1>7, <1>8, Movers

-----------------------------------------------------------------------------
(* The dunning walks. *)
LEMMA WalkInit == ASSUME Init PROVE WalkInv
  <1>1. invoices = 1..scen.n /\ cfg.attempts \in Nat \ {0}
    BY SetupInit, Scenario DEF Setup
  <1>2. WalkTypes
    BY <1>1 DEF Init, PaymentsInit, WalkTypes
  <1>3. \A i \in invoices : TrailInv(i)
    BY <1>1 DEF Init, PaymentsInit, TrailInv, Unwalked
  <1> QED
    BY <1>2, <1>3 DEF Init, PaymentsInit, WalkInv

\* What TrailInv(i) says depends on the entries of i alone.
LEMMA TrailUnmoved ==
    ASSUME UNCHANGED cfg, NEW i, TrailInv(i),
           /\ pay'[i] = pay[i] /\ payLog'[i] = payLog[i] /\ trail'[i] = trail[i]
           /\ dun'[i] = dun[i] /\ attempt'[i] = attempt[i] /\ expired'[i] = expired[i] /\ sub'[i] = sub[i]
    PROVE  TrailInv(i)'
  <1>1. CASE dun[i] = "none"
    <2>1. Unwalked(i)'
      BY <1>1 DEF TrailInv, Unwalked
    <2> QED
      BY <1>1, <2>1 DEF TrailInv
  <1>2. CASE dun[i] # "none"
    <2>1. Made(i)' = Made(i)
      BY DEF Made
    <2>2. Walked(i)'
      BY <1>2, <2>1 DEF TrailInv, Walked
    <2> QED
      BY <1>2, <2>2 DEF TrailInv
  <1> QED
    BY <1>1, <1>2

LEMMA WalkUnmoved ==
    ASSUME WalkInv, UNCHANGED <<invoices, cfg, pay, payLog, tlogOpen, trail, dunVars, where>>
    PROVE  WalkInv'
  <1> USE DEF dunVars
  <1>1. \A i \in invoices : TrailInv(i)'
    BY TrailUnmoved DEF WalkInv
  <1> QED
    BY <1>1 DEF WalkInv, WalkTypes, WaitDunning

LEMMA AppendRow ==
    ASSUME WalkTypes, NEW i \in invoices, NEW r \in TrailRow,
           trail' = [trail EXCEPT ![i] = Append(@, r)]
    PROVE  /\ trail' \in [invoices -> Seq(TrailRow)]
           /\ Len(trail[i]) \in Nat
           /\ Len(trail'[i]) = Len(trail[i]) + 1
           /\ trail'[i][Len(trail[i]) + 1] = r
           /\ \A k \in 1..Len(trail[i]) : trail'[i][k] = trail[i][k]
           /\ \A j \in invoices \ {i} : trail'[j] = trail[j]
  <1>1. trail \in [invoices -> Seq(TrailRow)] /\ trail[i] \in Seq(TrailRow)
    BY DEF WalkTypes
  <1>2. trail'[i] = Append(trail[i], r) /\ \A j \in invoices \ {i} : trail'[j] = trail[j]
    BY <1>1
  <1>3. trail' \in [invoices -> Seq(TrailRow)]
    BY <1>1
  <1> QED
    BY <1>1, <1>2, <1>3

\* An invoice in the hands of a payment worker has no walk.
LEMMA BusyUnwalked ==
    ASSUME WalkInv, NEW i \in invoices, pay[i] # "done"
    PROVE  dun[i] = "none" /\ Unwalked(i)
  BY DEF WalkInv, TrailInv, Walked

LEMMA WalkPayMoves == ASSUME Setup, PayInv, WalkInv, PayMoves PROVE WalkInv'
  <1>f. UNCHANGED <<invoices, cfg, tlogOpen, attempt, expired, where>> /\ where = "payments"
    BY PayFrame DEF PayMoves, commandVars
  <1>a. cfg.attempts \in Nat \ {0} /\ tlogOpen /\ pay \in [invoices -> PayStates]
    BY <1>f, Scenario DEF WalkInv, PayInv, PayTypes
  <1>1. CASE WorkerTakes \/ WorkerEnds
    <2>1. UNCHANGED <<payLog, trail, dun, sub>>
      BY <1>1 DEF WorkerTakes, WorkerEnds, dunVars
    <2>2. ASSUME NEW j \in invoices PROVE TrailInv(j)'
      <3>1. \/ pay'[j] = pay[j]
            \/ pay[j] = "queued" /\ pay'[j] \in {"dropped", "charge"}
        <4>1. CASE WorkerEnds
          BY <4>1 DEF WorkerEnds
        <4>2. CASE WorkerTakes
          <5>1. NextInvoice \in Queue
            <6>1. Queue \subseteq Nat /\ Queue # {}
              BY <4>2, Scenario DEF Queue, WorkerTakes
            <6> QED
              BY <6>1, FirstIn DEF NextInvoice, First
          <5>2. pay[NextInvoice] = "queued"
            BY <5>1 DEF Queue
          <5>3. PICK p \in {"dropped", "charge"} : pay' = [pay EXCEPT ![NextInvoice] = p]
            BY <4>2 DEF WorkerTakes
          <5> QED
            BY <1>a, <5>2, <5>3
        <4> QED
          BY <1>1, <4>1, <4>2
      <3>2. CASE pay'[j] = pay[j]
        BY <1>f, <2>1, <3>2, TrailUnmoved DEF WalkInv
      <3>3. CASE pay[j] = "queued" /\ pay'[j] \in {"dropped", "charge"}
        BY <1>f, <2>1, <3>3, BusyUnwalked DEF TrailInv, Unwalked
      <3> QED
        BY <3>1, <3>2, <3>3
    <2> QED
      BY <1>f, <2>1, <2>2 DEF WalkInv, WalkTypes, WaitDunning
  <1>2. ASSUME NEW i \in invoices, ChargeFails(i) PROVE WalkInv'
    <2>1. pay[i] = "charge" /\ UNCHANGED <<trail, dun, sub>>
      BY <1>2 DEF ChargeFails, dunVars
    <2>2. pay' = [pay EXCEPT ![i] = "done"] /\ payLog' = [payLog EXCEPT ![i] = Append(@, "error")]
      BY <1>2 DEF ChargeFails
    <2>3. payLog[i] = <<>> /\ payLog \in [invoices -> Seq(Outcomes)]
      BY <2>1 DEF PayInv, PayTypes, StatsInv, RowInv
    <2>4. payLog'[i] = <<"error">> /\ pay'[i] = "done"
      BY <1>a, <2>2, <2>3
    <2>5. \A j \in invoices \ {i} : payLog'[j] = payLog[j] /\ pay'[j] = pay[j]
      BY <1>a, <2>2, <2>3
    <2>6. payLog'[i][1] \notin Declines
      BY <2>4 DEF Declines
    <2>7. TrailInv(i)'
      BY <1>f, <2>1, <2>4, <2>6, BusyUnwalked DEF TrailInv, Unwalked
    <2>8. \A j \in invoices \ {i} : TrailInv(j)'
      BY <1>f, <2>1, <2>5, TrailUnmoved DEF WalkInv
    <2> QED
      BY <1>f, <2>1, <2>7, <2>8 DEF WalkInv, WalkTypes, WaitDunning
  <1>3. ASSUME NEW i \in invoices, Charge(i) PROVE WalkInv'
    <2>1. pay[i] = "charge" /\ pay' = [pay EXCEPT ![i] = "drive"] /\ UNCHANGED <<payLog, trail, dun, sub>>
      BY <1>3 DEF Charge, dunVars
    <2>2. pay'[i] = "drive" /\ \A j \in invoices \ {i} : pay'[j] = pay[j]
      BY <1>a, <2>1
    <2>3. TrailInv(i)'
      BY <1>f, <2>1, <2>2, BusyUnwalked DEF TrailInv, Unwalked
    <2>4. \A j \in invoices \ {i} : TrailInv(j)'
      BY <1>f, <2>1, <2>2, TrailUnmoved DEF WalkInv
    <2> QED
      BY <1>f, <2>1, <2>3, <2>4 DEF WalkInv, WalkTypes, WaitDunning
  <1>4. ASSUME NEW i \in invoices, driverPlatformPayment(i) PROVE WalkInv'
    <2>1. pay[i] \in {"drive", "fallback"} /\ UNCHANGED <<payLog, dun, sub>>
      BY <1>4 DEF driverPlatformPayment, dunVars
    <2>2. dun[i] = "none" /\ Unwalked(i) /\ trail[i] = <<>>
      BY <2>1, BusyUnwalked DEF Unwalked
    <2>3. PICK answer \in {"OK", "FAIL", "404"} :
             \/ pay' = [pay EXCEPT ![i] = "fallback"] /\ UNCHANGED trail
             \/ /\ pay' = [pay EXCEPT ![i] = "record"]
                /\ AppendTransition(i, "RETRY_PAYMENT", 0, IF answer = "404" THEN "SKIPPED" ELSE answer)
      BY <1>4 DEF driverPlatformPayment
    <2>4. CASE pay' = [pay EXCEPT ![i] = "fallback"] /\ UNCHANGED trail
      <3>1. pay'[i] = "fallback" /\ \A j \in invoices \ {i} : pay'[j] = pay[j]
        BY <1>a, <2>4
      <3>2. TrailInv(i)'
        BY <1>f, <2>1, <2>2, <2>4, <3>1 DEF TrailInv, Unwalked
      <3>3. \A j \in invoices \ {i} : TrailInv(j)'
        BY <1>f, <2>1, <2>4, <3>1, TrailUnmoved DEF WalkInv
      <3> QED
        BY <1>f, <2>1, <2>4, <3>2, <3>3 DEF WalkInv, WalkTypes, WaitDunning
    <2>5. CASE /\ pay' = [pay EXCEPT ![i] = "record"]
               /\ AppendTransition(i, "RETRY_PAYMENT", 0, IF answer = "404" THEN "SKIPPED" ELSE answer)
      <3>1. pay'[i] = "record" /\ \A j \in invoices \ {i} : pay'[j] = pay[j]
        BY <1>a, <2>5
      <3>2. PICK r \in TrailRow : r.kind = "RETRY_PAYMENT" /\ trail' = [trail EXCEPT ![i] = Append(@, r)]
        <4>1. PICK status \in {"OK", "FAIL", "SKIPPED"} : AppendTransition(i, "RETRY_PAYMENT", 0, status)
          BY <2>5
        <4> DEFINE r == [kind |-> "RETRY_PAYMENT", n |-> 0, status |-> status]
        <4>2. r \in TrailRow /\ r.kind = "RETRY_PAYMENT"
          BY DEF TrailRow, Kinds
        <4>3. trail' = [trail EXCEPT ![i] = Append(@, r)]
          BY <1>a, <4>1 DEF AppendTransition
        <4> QED
          BY <4>2, <4>3
      <3>3. /\ trail' \in [invoices -> Seq(TrailRow)]
            /\ Len(trail'[i]) = Len(trail[i]) + 1
            /\ trail'[i][Len(trail[i]) + 1] = r
            /\ \A j \in invoices \ {i} : trail'[j] = trail[j]
        BY <3>2, AppendRow DEF WalkInv
      <3>4. Len(trail'[i]) = 1 /\ trail'[i][1].kind = "RETRY_PAYMENT"
        BY <2>2, <3>2, <3>3
      <3>5. TrailInv(i)'
        BY <1>f, <2>1, <2>2, <3>1, <3>4 DEF TrailInv, Unwalked
      <3>6. \A j \in invoices \ {i} : TrailInv(j)'
        BY <1>f, <2>1, <3>1, <3>3, TrailUnmoved DEF WalkInv
      <3> QED
        BY <1>f, <2>1, <3>3, <3>5, <3>6 DEF WalkInv, WalkTypes, WaitDunning
    <2> QED
      BY <2>3, <2>4, <2>5
  <1>5. ASSUME NEW i \in invoices, Record(i) PROVE WalkInv'
    <2>1. pay[i] = "record" /\ UNCHANGED trail
      BY <1>5 DEF Record
    <2>2. dun[i] = "none" /\ Unwalked(i)
      BY <2>1, BusyUnwalked
    <2>3. pay' = [pay EXCEPT ![i] = "done"] /\ payLog' = [payLog EXCEPT ![i] = Append(@, outcome[i])]
      BY <1>5 DEF Record
    <2>4. payLog[i] = <<>> /\ payLog \in [invoices -> Seq(Outcomes)] /\ outcome[i] \in Outcomes
      BY <2>1 DEF PayInv, PayTypes, StatsInv, RowInv
    <2>5. payLog'[i] = <<outcome[i]>> /\ pay'[i] = "done"
      BY <1>a, <2>3, <2>4
    <2>6. \A j \in invoices \ {i} : payLog'[j] = payLog[j] /\ pay'[j] = pay[j]
      BY <1>a, <2>3, <2>4
    <2>7. payLog'[i][1] = outcome[i]
      BY <2>5
    <2>8. CASE outcome[i] \notin Declines
      <3>1. UNCHANGED <<dun, sub>>
        BY <1>5, <2>8 DEF Record
      <3>2. TrailInv(i)'
        BY <1>f, <2>1, <2>2, <2>5, <2>7, <2>8, <3>1 DEF TrailInv, Unwalked
      <3>3. \A j \in invoices \ {i} : TrailInv(j)'
        BY <1>f, <2>1, <2>6, <3>1, TrailUnmoved DEF WalkInv
      <3> QED
        BY <1>f, <2>1, <3>1, <3>2, <3>3 DEF WalkInv, WalkTypes, WaitDunning
    <2>9. CASE outcome[i] \in Declines
      <3>1. dun' = [dun EXCEPT ![i] = "wait"] /\ sub' = [sub EXCEPT ![i] = "PAST_DUE"]
        BY <1>5, <2>9 DEF Record
      <3>2. /\ dun' \in [invoices -> {"none", "wait", "post", "observe", "done"}]
            /\ sub' \in [invoices -> {"ACTIVE", "PAST_DUE", "SUSPENDED"}]
            /\ dun'[i] = "wait" /\ \A j \in invoices \ {i} : dun'[j] = dun[j] /\ sub'[j] = sub[j]
        BY <3>1 DEF WalkInv, WalkTypes
      <3>3. Made(i)' = 0 /\ attempt'[i] = 0
        BY <1>f, <2>2, <3>2 DEF Made, Unwalked
      <3>4. Len(trail'[i]) = 1 /\ trail'[i][1].kind = "RETRY_PAYMENT"
        BY <2>1, <2>2 DEF Unwalked
      <3>5. Walked(i)'
        BY <1>a, <1>f, <2>5, <2>7, <2>9, <3>2, <3>3, <3>4 DEF Walked
      <3>6. TrailInv(i)'
        BY <3>2, <3>5 DEF TrailInv
      <3>7. \A j \in invoices \ {i} : TrailInv(j)'
        BY <1>f, <2>1, <2>6, <3>2, TrailUnmoved DEF WalkInv
      <3> QED
        BY <1>f, <2>1, <3>2, <3>6, <3>7 DEF WalkInv, WalkTypes
    <2> QED
      BY <2>8, <2>9
  <1> QED
    BY <1>1, <1>2, <1>3, <1>4, <1>5 DEF PayMoves, PayStep

\* The rows of a walk that has just appended the row of its attempt.
LEMMA AttemptLogged ==
    ASSUME Setup, WalkInv, NEW i \in invoices, dun[i] = "post", tlogOpen,
           NEW status \in {"OK", "FAIL"}, AppendTransition(i, "DUNNING_STEP", attempt[i], status),
           UNCHANGED <<invoices, cfg, pay, payLog, attempt>>,
           NEW d \in {"wait", "observe", "done"}, dun'[i] = d
    PROVE  /\ trail' \in [invoices -> Seq(TrailRow)]
           /\ \A j \in invoices \ {i} : trail'[j] = trail[j]
           /\ pay'[i] = "done" /\ payLog'[i][1] \in Declines
           /\ Made(i)' = attempt[i] /\ Made(i)' \in Nat /\ Len(trail'[i]) = Made(i)' + 1
           /\ trail'[i][1].kind = "RETRY_PAYMENT"
           /\ \A k \in 2..(Made(i)' + 1) :
                 trail'[i][k].kind = "DUNNING_STEP" /\ trail'[i][k].n = k - 1
  <1>1. Walked(i) /\ WalkTypes /\ cfg.attempts \in Nat
    BY Scenario DEF WalkInv, TrailInv
  <1>2. attempt[i] \in Nat \ {0}
    BY <1>1 DEF Walked, WalkTypes
  <1>3. Made(i) = attempt[i] - 1 /\ Len(trail[i]) = attempt[i] /\ Made(i)' = attempt[i]
    BY <1>1, <1>2 DEF Walked, Made
  <1> DEFINE r == [kind |-> "DUNNING_STEP", n |-> attempt[i], status |-> status]
  <1>4. r \in TrailRow /\ r.kind = "DUNNING_STEP" /\ r.n = attempt[i]
    BY <1>2 DEF TrailRow, Kinds
  <1>5. trail' = [trail EXCEPT ![i] = Append(@, r)]
    BY DEF AppendTransition
  <1> HIDE DEF r
  <1>6. /\ trail' \in [invoices -> Seq(TrailRow)]
        /\ Len(trail'[i]) = Len(trail[i]) + 1
        /\ trail'[i][Len(trail[i]) + 1] = r
        /\ \A k \in 1..Len(trail[i]) : trail'[i][k] = trail[i][k]
        /\ \A j \in invoices \ {i} : trail'[j] = trail[j]
    BY <1>1, <1>4, <1>5, AppendRow
  <1>7. pay'[i] = "done" /\ payLog'[i][1] \in Declines
    BY <1>1 DEF Walked
  <1>8. trail'[i][1].kind = "RETRY_PAYMENT"
    <2>1. 1 \in 1..Len(trail[i])
      BY <1>2, <1>3
    <2>2. trail'[i][1] = trail[i][1]
      BY <1>6, <2>1
    <2> QED
      BY <1>1, <2>2 DEF Walked
  <1>9. ASSUME NEW k \in 2..(attempt[i] + 1)
        PROVE  trail'[i][k].kind = "DUNNING_STEP" /\ trail'[i][k].n = k - 1
    <2>1. CASE k = attempt[i] + 1
      BY <1>2, <1>3, <1>4, <1>6, <2>1
    <2>2. CASE k # attempt[i] + 1
      <3>1. k \in 2..(Made(i) + 1) /\ k \in 1..Len(trail[i])
        BY <1>2, <1>3, <2>2
      <3> QED
        BY <1>1, <1>6, <3>1 DEF Walked
    <2> QED
      BY <2>1, <2>2
  <1> QED
    BY <1>2, <1>3, <1>6, <1>7, <1>8, <1>9

LEMMA WalkMovesInv ==
    ASSUME Setup, WalkInv, NEW i \in invoices, WalkMoves(i)
    PROVE  WalkInv'
  <1>f. UNCHANGED <<invoices, cfg, pay, payLog, tlogOpen, where>>
    BY WalkFrame DEF payVars, commandVars
  <1>a. WalkTypes /\ cfg.attempts \in Nat \ {0} /\ attempt[i] \in Nat /\ attempt[i] <= cfg.attempts
    BY Scenario DEF WalkInv, WalkTypes
  <1>o. dun[i] \in {"wait", "post", "observe"} => tlogOpen /\ where # "exit" /\ Walked(i)
    BY <1>a DEF WalkInv, WaitDunning, TrailInv
  <1>1. CASE WalkWaits(i)
    <2>1. dun[i] = "wait" /\ UNCHANGED <<trail, expired, sub>>
      BY <1>1 DEF WalkWaits
    <2>2. Walked(i) /\ attempt[i] < cfg.attempts /\ where # "exit"
      BY <1>o, <2>1 DEF Walked
    <2>3. CASE expired[i] /\ dun' = [dun EXCEPT ![i] = "done"] /\ UNCHANGED attempt
      <3>1. /\ dun' \in [invoices -> {"none", "wait", "post", "observe", "done"}] /\ dun'[i] = "done"
            /\ \A j \in invoices \ {i} : dun'[j] = dun[j]
        BY <1>a, <2>3 DEF WalkTypes
      <3>2. Made(i)' = Made(i) /\ expired'[i]
        BY <2>1, <2>3, <3>1 DEF Made
      <3>3. Walked(i)'
        BY <1>f, <2>1, <2>2, <2>3, <3>1, <3>2 DEF Walked
      <3>4. \A j \in invoices \ {i} : TrailInv(j)'
        BY <1>f, <2>1, <2>3, <3>1, TrailUnmoved DEF WalkInv
      <3>5. TrailInv(i)'
        BY <3>1, <3>3 DEF TrailInv
      <3> QED
        BY <1>f, <2>1, <2>2, <2>3, <3>1, <3>4, <3>5 DEF WalkInv, WalkTypes
    <2>4. CASE /\ ~expired[i] /\ dun' = [dun EXCEPT ![i] = "post"]
               /\ attempt' = [attempt EXCEPT ![i] = @ + 1]
      <3>1. /\ dun' \in [invoices -> {"none", "wait", "post", "observe", "done"}] /\ dun'[i] = "post"
            /\ \A j \in invoices \ {i} : dun'[j] = dun[j]
        BY <1>a, <2>4 DEF WalkTypes
      <3>2. /\ attempt' \in [invoices -> 0..cfg.attempts] /\ attempt'[i] = attempt[i] + 1
            /\ \A j \in invoices \ {i} : attempt'[j] = attempt[j]
        BY <1>a, <2>2, <2>4 DEF WalkTypes
      <3>3. Made(i)' = Made(i)
        BY <1>a, <2>1, <3>1, <3>2 DEF Made
      <3>4. Walked(i)'
        BY <1>a, <1>f, <2>1, <2>2, <3>1, <3>2, <3>3 DEF Walked
      <3>5. \A j \in invoices \ {i} : TrailInv(j)'
        BY <1>f, <2>1, <3>1, <3>2, TrailUnmoved DEF WalkInv
      <3>6. TrailInv(i)'
        BY <3>1, <3>4 DEF TrailInv
      <3> QED
        BY <1>f, <2>1, <2>2, <3>1, <3>2, <3>5, <3>6 DEF WalkInv, WalkTypes
    <2> QED
      BY <1>1, <2>3, <2>4 DEF WalkWaits
  <1>2. CASE RetryRecovers(i) \/ RetryStillFailing(i) \/ RetryUnanswered(i)
    <2>1. dun[i] = "post" /\ UNCHANGED <<attempt, expired>>
      BY <1>2 DEF RetryRecovers, RetryStillFailing, RetryUnanswered
    <2>2. tlogOpen /\ where # "exit" /\ Walked(i)
      BY <1>o, <2>1
    <2>3. PICK status \in {"OK", "FAIL"} : AppendTransition(i, "DUNNING_STEP", attempt[i], status)
      BY <1>2 DEF RetryRecovers, RetryStillFailing, RetryUnanswered
    <2>4. PICK d \in {"wait", "observe", "done"} :
             /\ dun' = [dun EXCEPT ![i] = d]
             /\ d = "done" => sub' = [sub EXCEPT ![i] = "ACTIVE"]
             /\ d # "done" => d = AfterAttempt(i)
      BY <1>2 DEF RetryRecovers, RetryStillFailing, RetryUnanswered, AfterAttempt
    <2>5. /\ dun' \in [invoices -> {"none", "wait", "post", "observe", "done"}] /\ dun'[i] = d
          /\ \A j \in invoices \ {i} : dun'[j] = dun[j]
      BY <1>a, <2>4 DEF WalkTypes
    <2>6. /\ sub' \in [invoices -> {"ACTIVE", "PAST_DUE", "SUSPENDED"}]
          /\ \A j \in invoices \ {i} : sub'[j] = sub[j]
          /\ d = "done" => sub'[i] = "ACTIVE"
      BY <1>2, <1>a, <2>4 DEF RetryRecovers, RetryStillFailing, RetryUnanswered, WalkTypes
    <2>7. /\ trail' \in [invoices -> Seq(TrailRow)]
          /\ \A j \in invoices \ {i} : trail'[j] = trail[j]
          /\ pay'[i] = "done" /\ payLog'[i][1] \in Declines
          /\ Made(i)' = attempt[i] /\ Made(i)' \in Nat /\ Len(trail'[i]) = Made(i)' + 1
          /\ trail'[i][1].kind = "RETRY_PAYMENT"
          /\ \A k \in 2..(Made(i)' + 1) :
                trail'[i][k].kind = "DUNNING_STEP" /\ trail'[i][k].n = k - 1
      BY <1>f, <2>1, <2>2, <2>3, <2>5, AttemptLogged
    <2>8. /\ d = "wait" => attempt'[i] < cfg'.attempts
          /\ d = "observe" => attempt'[i] = cfg'.attempts
      BY <1>a, <1>f, <2>1, <2>4 DEF AfterAttempt
    <2>9. Walked(i)'
      <3>1. Len(trail'[i]) # Made(i)' + 2 /\ Len(trail'[i]) \in {Made(i)' + 1, Made(i)' + 2}
        BY <2>7
      <3> QED
        BY <2>5, <2>6, <2>7, <2>8, <3>1 DEF Walked
    <2>10. \A j \in invoices \ {i} : TrailInv(j)'
      BY <1>f, <2>1, <2>5, <2>6, <2>7, TrailUnmoved DEF WalkInv
    <2>11. TrailInv(i)'
      BY <2>5, <2>9 DEF TrailInv
    <2> QED
      BY <1>f, <2>1, <2>2, <2>5, <2>6, <2>7, <2>10, <2>11 DEF WalkInv, WalkTypes
  <1>3. CASE observeTerminalState(i)
    <2>1. dun[i] = "observe" /\ dun' = [dun EXCEPT ![i] = "done"] /\ UNCHANGED <<attempt, expired, sub>>
      BY <1>3 DEF observeTerminalState
    <2>2. tlogOpen /\ where # "exit" /\ Walked(i) /\ attempt[i] = cfg.attempts
      BY <1>o, <2>1 DEF Walked
    <2>3. PICK err \in BOOLEAN :
             AppendTransition(i, "DUNNING_ESCALATE", 0,
                              terminalStatus(sub[i] \in {"SUSPENDED", "CANCELLED"}, err))
      BY <1>3 DEF observeTerminalState
    <2> DEFINE status == terminalStatus(sub[i] \in {"SUSPENDED", "CANCELLED"}, err)
               r == [kind |-> "DUNNING_ESCALATE", n |-> 0, status |-> status]
    <2>4. status \in {"OK", "FAIL"} /\ (status = "OK" => sub[i] = "SUSPENDED")
      BY <1>a DEF terminalStatus, WalkTypes
    <2>5. trail' = [trail EXCEPT ![i] = Append(@, r)]
      BY <2>2, <2>3 DEF AppendTransition
    <2> HIDE DEF status
    <2>6. r \in TrailRow /\ r.kind = "DUNNING_ESCALATE" /\ (r.status = "OK" => sub[i] = "SUSPENDED")
      BY <2>4 DEF TrailRow, Kinds
    <2> HIDE DEF r
    <2>7. /\ trail' \in [invoices -> Seq(TrailRow)]
          /\ Len(trail'[i]) = Len(trail[i]) + 1
          /\ trail'[i][Len(trail[i]) + 1] = r
          /\ \A k \in 1..Len(trail[i]) : trail'[i][k] = trail[i][k]
          /\ \A j \in invoices \ {i} : trail'[j] = trail[j]
      BY <1>a, <2>5, <2>6, AppendRow
    <2>8. /\ dun' \in [invoices -> {"none", "wait", "post", "observe", "done"}] /\ dun'[i] = "done"
          /\ \A j \in invoices \ {i} : dun'[j] = dun[j]
      BY <1>a, <2>1 DEF WalkTypes
    <2>9. Made(i) = attempt[i] /\ Made(i)' = attempt[i] /\ Len(trail[i]) = attempt[i] + 1
      BY <1>a, <2>1, <2>2, <2>8 DEF Made, Walked
    <2>10. Walked(i)'
      <3>1. Len(trail'[i]) = Made(i)' + 2 /\ Len(trail'[i]) # Made(i)' + 1
        BY <1>a, <2>7, <2>9
      <3>k. \A k \in 1..(Made(i)' + 1) : trail'[i][k] = trail[i][k]
        BY <1>a, <2>7, <2>9
      <3>2. trail'[i][1].kind = "RETRY_PAYMENT"
        <4>1. 1 \in 1..(Made(i)' + 1)
          BY <1>a, <2>9
        <4>2. trail'[i][1] = trail[i][1]
          BY <3>k, <4>1
        <4> QED
          BY <2>2, <4>2 DEF Walked
      <3>3. ASSUME NEW k \in 2..(Made(i)' + 1)
            PROVE  trail'[i][k].kind = "DUNNING_STEP" /\ trail'[i][k].n = k - 1
        <4>1. k \in 1..(Made(i)' + 1) /\ k \in 2..(Made(i) + 1)
          BY <1>a, <2>9
        <4>2. trail'[i][k] = trail[i][k]
          BY <3>k, <4>1
        <4> QED
          BY <2>2, <4>1, <4>2 DEF Walked
      <3>4. trail'[i][Made(i)' + 2] = r
        BY <1>a, <2>7, <2>9
      <3>5. pay'[i] = "done" /\ payLog'[i][1] \in Declines /\ attempt'[i] = cfg'.attempts
        BY <1>f, <2>1, <2>2 DEF Walked
      <3>6. sub'[i] = sub[i]
        BY <2>1
      <3> QED
        BY <2>6, <2>8, <3>1, <3>2, <3>3, <3>4, <3>5, <3>6 DEF Walked
    <2>11. \A j \in invoices \ {i} : TrailInv(j)'
      BY <1>f, <2>1, <2>7, <2>8, TrailUnmoved DEF WalkInv
    <2>12. TrailInv(i)'
      BY <2>8, <2>10 DEF TrailInv
    <2> QED
      BY <1>f, <2>1, <2>2, <2>7, <2>8, <2>11, <2>12 DEF WalkInv, WalkTypes
  <1>4. CASE WalkExpires(i)
    <2>1. /\ dun[i] \in {"wait", "post", "observe"} /\ expired' = [expired EXCEPT ![i] = TRUE]
          /\ UNCHANGED <<trail, dun, attempt, sub>>
      BY <1>4 DEF WalkExpires
    <2>2. Walked(i)
      BY <1>o, <2>1
    <2>3. /\ expired' \in [invoices -> BOOLEAN]
          /\ \A j \in invoices \ {i} : expired'[j] = expired[j]
      BY <1>a, <2>1 DEF WalkTypes
    <2>4. Made(i)' = Made(i)
      BY <2>1 DEF Made
    <2>5. Walked(i)'
      BY <1>f, <2>1, <2>2, <2>4 DEF Walked
    <2>6. TrailInv(i)'
      BY <2>1, <2>5 DEF TrailInv
    <2>7. \A j \in invoices \ {i} : TrailInv(j)'
      BY <1>f, <2>1, <2>3, TrailUnmoved DEF WalkInv
    <2> QED
      BY <1>f, <2>1, <2>3, <2>6, <2>7 DEF WalkInv, WalkTypes, WaitDunning
  <1>5. CASE PlatformEscalates(i)
    <2>1. /\ sub[i] = "PAST_DUE" /\ sub' = [sub EXCEPT ![i] = "SUSPENDED"]
          /\ UNCHANGED <<trail, dun, attempt, expired>>
      BY <1>5 DEF PlatformEscalates
    <2>2. /\ sub' \in [invoices -> {"ACTIVE", "PAST_DUE", "SUSPENDED"}] /\ sub'[i] = "SUSPENDED"
          /\ \A j \in invoices \ {i} : sub'[j] = sub[j]
      BY <1>a, <2>1 DEF WalkTypes
    <2>3. Made(i)' = Made(i)
      BY <2>1 DEF Made
    <2>4. TrailInv(i)'
      <3>1. CASE dun[i] = "none"
        BY <1>f, <2>1, <3>1 DEF TrailInv, Unwalked, WalkInv
      <3>2. CASE dun[i] # "none"
        <4>1. Walked(i)
          BY <3>2 DEF WalkInv, TrailInv
        <4>2. Walked(i)'
          BY <1>f, <2>1, <2>2, <2>3, <4>1 DEF Walked
        <4> QED
          BY <2>1, <3>2, <4>2 DEF TrailInv
      <3> QED
        BY <3>1, <3>2
    <2>5. \A j \in invoices \ {i} : TrailInv(j)'
      BY <1>f, <2>1, <2>2, TrailUnmoved DEF WalkInv
    <2> QED
      BY <1>f, <2>1, <2>2, <2>4, <2>5 DEF WalkInv, WalkTypes, WaitDunning
  <1> QED
    BY <1>1, <1>2, <1>3, <1>4, <1>5 DEF WalkMoves, Walk

LEMMA WalkStepInv == ASSUME Setup, PayInv, WalkInv, [Next]_vars PROVE WalkInv'
  <1> USE DEF paymentsVars, payVars, commandVars
  <1>1. CASE runPayments
    <2>f. UNCHANGED <<invoices, cfg, pay, payLog, trail, dunVars>>
      BY <1>1, CommandFrame
    <2>1. CASE Return
      <3>1. ~tlogOpen' /\ tlogOpen' \in BOOLEAN /\ where' = "exit" /\ WaitDunning
        BY <2>1 DEF Return, Goto
      <3>2. \A i \in invoices : TrailInv(i)'
        BY <2>f, TrailUnmoved DEF WalkInv, dunVars
      <3> QED
        BY <2>f, <3>1, <3>2 DEF WalkInv, WalkTypes, WaitDunning, dunVars
    <2>2. CASE ~Return
      <3>1. UNCHANGED tlogOpen /\ where # "exit" /\ where' # "exit"
        BY <1>1, <2>2 DEF runPayments, CapturePreRun, StartPayments, StartNotes, StartVerify,
              StopPoller, CapturePostRun, ProcessInvoices, Goto
      <3>2. \A i \in invoices : TrailInv(i)'
        BY <2>f, TrailUnmoved DEF WalkInv, dunVars
      <3> QED
        BY <2>f, <3>1, <3>2 DEF WalkInv, WalkTypes, dunVars
    <2> QED
      BY <2>1, <2>2
  <1>2. CASE Signal
    BY <1>2, WalkUnmoved DEF Signal
  <1>3. CASE PayMoves
    BY <1>3, WalkPayMoves
  <1>4. CASE NoteMoves
    BY <1>4, NoteFrame, WalkUnmoved
  <1>5. CASE SyncMoves
    BY <1>5, SyncFrame, WalkUnmoved
  <1>6. CASE WalletMoves
    BY <1>6, WalletFrame, WalkUnmoved
  <1>7. ASSUME NEW i \in invoices, WalkMoves(i) PROVE WalkInv'
    BY <1>7, WalkMovesInv
  <1>8. CASE UNCHANGED vars
    BY <1>8, WalkUnmoved DEF vars
  <1> QED
    BY <1>1, <1>2, <1>3, <1>4, <1>5, <1>6, <1>7, <1>8, Movers

-----------------------------------------------------------------------------
(* The wallet. *)
LEMMA RankOf ==
    ASSUME NEW s \in Snapshot
    PROVE  /\ s.phase = "pre" => Rank(s) = 1
           /\ s.phase = "mid" => Rank(s) = 2
           /\ s.phase = "post" => Rank(s) = 3
           /\ s.phase = "post-expiry" => Rank(s) = 4
           /\ Rank(s) \in 1..4
  BY DEF Snapshot, Phases, Rank, PhaseOrder

LEMMA WalletInitial == ASSUME Init PROVE WalletInv
  <1> USE DEF Init, WalletInit
  <1>1. customers = scen.wallet /\ where = "pre"
    OBVIOUS
  <1>2. WalletTypes
    <2>1. NoTick \in Tick
      BY DEF Tick, NoTick
    <2>2. tick \in [{"poller", "command"} -> Tick]
      BY <2>1
    <2>3. audit \in [customers -> Seq(Snapshot)] /\ events \in [Holds -> Nat]
      OBVIOUS
    <2>4. poller = "off" /\ pollCtx \in BOOLEAN /\ polls \in Nat
      OBVIOUS
    <2> QED
      BY <2>2, <2>3, <2>4 DEF WalletTypes
  <1>3. TickPlaces
    BY DEF TickPlaces, NoTick
  <1>4. ASSUME NEW c \in customers PROVE Ranked(c) /\ Ordered(c) /\ Covered(c)
    <2>1. audit[c] = <<>>
      OBVIOUS
    <2>2. \A ph : Phase(c, ph) = {}
      BY <2>1 DEF Phase
    <2>3. Len(audit[c]) = 0
      BY <2>1
    <2>4. tick["command"].phase = "none"
      BY DEF NoTick
    <2> QED
      BY <1>1, <2>2, <2>3, <2>4 DEF Ranked, Ordered, Covered, Started, Ended
  <1>5. HoldsSeen
    BY DEF HoldsSeen
  <1> QED
    BY <1>2, <1>3, <1>4, <1>5 DEF WalletInv

\* Nothing of the wallet moves; a signal may come.
LEMMA WalletUnmoved ==
    ASSUME WalletInv, UNCHANGED <<walletVars, where>>, ctxDone' \/ (ctxDone' <=> ctxDone)
    PROVE  WalletInv'
  <1> USE DEF walletVars
  <1>1. WalletTypes'
    BY DEF WalletInv, WalletTypes, Tick
  <1>2. TickPlaces'
    BY DEF WalletInv, TickPlaces, walletEnabled
  <1>3. \A c \in customers : Ranked(c)'
    BY DEF WalletInv, Ranked, WhereRank
  <1>4. \A c \in customers : Ordered(c)'
    BY DEF WalletInv, Ordered, Phase
  <1>5. \A c \in customers : Covered(c)'
    BY DEF WalletInv, Covered, Phase, Todo
  <1>6. HoldsSeen'
    BY DEF WalletInv, HoldsSeen
  <1> QED
    BY <1>1, <1>2, <1>3, <1>4, <1>5, <1>6 DEF WalletInv

\* A snapshot appended to a customer's log.
LEMMA SnapshotLogged ==
    ASSUME WalletTypes, NEW c \in customers, NEW s \in Snapshot,
           audit' = [audit EXCEPT ![c] = Append(@, s)]
    PROVE  /\ audit' \in [customers -> Seq(Snapshot)]
           /\ Len(audit[c]) \in Nat /\ Len(audit'[c]) = Len(audit[c]) + 1
           /\ audit'[c][Len(audit[c]) + 1] = s
           /\ \A k \in 1..Len(audit[c]) : audit'[c][k] = audit[c][k] /\ audit[c][k] \in Snapshot
           /\ \A d \in customers \ {c} : audit'[d] = audit[d]
           /\ \A ph : Phase(c, ph)' = IF ph = s.phase THEN Phase(c, ph) \cup {Len(audit[c]) + 1}
                                                      ELSE Phase(c, ph)
           /\ \A d \in customers \ {c} : \A ph : Phase(d, ph)' = Phase(d, ph)
  <1>1. audit \in [customers -> Seq(Snapshot)] /\ audit[c] \in Seq(Snapshot)
    BY DEF WalletTypes
  <1>2. audit'[c] = Append(audit[c], s) /\ \A d \in customers \ {c} : audit'[d] = audit[d]
    BY <1>1
  <1>3. audit' \in [customers -> Seq(Snapshot)]
    BY <1>1
  <1>4. /\ Len(audit[c]) \in Nat /\ Len(audit'[c]) = Len(audit[c]) + 1
        /\ audit'[c][Len(audit[c]) + 1] = s
        /\ \A k \in 1..Len(audit[c]) : audit'[c][k] = audit[c][k] /\ audit[c][k] \in Snapshot
    BY <1>1, <1>2
  <1>5. DOMAIN audit[c] = 1..Len(audit[c]) /\ DOMAIN audit'[c] = 1..(Len(audit[c]) + 1)
    BY <1>1, <1>3, <1>4
  <1>6. ASSUME NEW ph
        PROVE  Phase(c, ph)' = IF ph = s.phase THEN Phase(c, ph) \cup {Len(audit[c]) + 1}
                                               ELSE Phase(c, ph)
    <2>1. Phase(c, ph) = {k \in 1..Len(audit[c]) : audit[c][k].phase = ph}
      BY <1>5 DEF Phase
    <2>2. Phase(c, ph)' = {k \in 1..(Len(audit[c]) + 1) : audit'[c][k].phase = ph}
      BY <1>5 DEF Phase
    <2>3. 1..(Len(audit[c]) + 1) = (1..Len(audit[c])) \cup {Len(audit[c]) + 1}
      BY <1>4
    <2> QED
      BY <1>4, <2>1, <2>2, <2>3
  <1>7. \A d \in customers \ {c} : \A ph : Phase(d, ph)' = Phase(d, ph)
    BY <1>2 DEF Phase
  <1> QED
    BY <1>2, <1>3, <1>4, <1>6, <1>7

\* Logs that do not grow, at a place of the command that is not earlier.
LEMMA LogsKept ==
    ASSUME WalletInv, UNCHANGED <<customers, audit>>, WhereRank <= WhereRank'
    PROVE  \A c \in customers : /\ Ranked(c)' /\ Ordered(c)'
                                /\ \A ph : Phase(c, ph)' = Phase(c, ph)
  <1>1. \A c \in customers : \A ph : Phase(c, ph)' = Phase(c, ph)
    BY DEF Phase
  <1>2. ASSUME NEW c \in customers PROVE Ranked(c)'
    <2>1. audit[c] \in Seq(Snapshot)
      BY DEF WalletInv, WalletTypes
    <2>2. \A k \in 1..Len(audit[c]) : Rank(audit[c][k]) \in Int
      BY <2>1, RankOf
    <2>3. WhereRank \in Int /\ WhereRank' \in Int
      BY DEF WhereRank
    <2> SUFFICES ASSUME NEW k \in 1..Len(audit[c]) PROVE Rank(audit[c][k]) <= WhereRank'
      BY DEF Ranked
    <2>4. Rank(audit[c][k]) <= WhereRank
      BY DEF WalletInv, Ranked
    <2> QED
      BY <2>2, <2>3, <2>4
  <1>3. \A c \in customers : Ordered(c)'
    BY <1>1 DEF WalletInv, Ordered
  <1> QED
    BY <1>1, <1>2, <1>3

\* No snapshot of a phase the command has not come to.
LEMMA NotYet ==
    ASSUME WalletInv, NEW c \in customers
    PROVE  /\ WhereRank < 3 => Phase(c, "post") = {}
           /\ WhereRank < 4 => Phase(c, "post-expiry") = {}
  <1>1. audit[c] \in Seq(Snapshot) /\ DOMAIN audit[c] = 1..Len(audit[c]) /\ WhereRank \in Int
    BY DEF WalletInv, WalletTypes, WhereRank
  <1>2. ASSUME NEW k \in 1..Len(audit[c]) PROVE audit[c][k] \in Snapshot /\ Rank(audit[c][k]) <= WhereRank
    BY <1>1 DEF WalletInv, Ranked
  <1>3. ASSUME WhereRank < 3 PROVE Phase(c, "post") = {}
    <2> SUFFICES ASSUME NEW k \in 1..Len(audit[c]), audit[c][k].phase = "post" PROVE FALSE
      BY <1>1 DEF Phase
    <2>1. Rank(audit[c][k]) = 3 /\ Rank(audit[c][k]) <= WhereRank
      BY <1>2, RankOf
    <2> QED
      BY <1>1, <1>3, <2>1
  <1>4. ASSUME WhereRank < 4 PROVE Phase(c, "post-expiry") = {}
    <2> SUFFICES ASSUME NEW k \in 1..Len(audit[c]), audit[c][k].phase = "post-expiry" PROVE FALSE
      BY <1>1 DEF Phase
    <2>1. Rank(audit[c][k]) = 4 /\ Rank(audit[c][k]) <= WhereRank
      BY <1>2, RankOf
    <2> QED
      BY <1>1, <1>4, <2>1
  <1> QED
    BY <1>3, <1>4

\* A tick starts: no customer of it has a snapshot.
LEMMA TickStarts ==
    ASSUME WalletTypes, NEW p \in {"poller", "command"}, NEW ph \in Phases, StartTick(p, ph),
           UNCHANGED customers
    PROVE  /\ tick' \in [{"poller", "command"} -> Tick]' /\ tick'[p].phase = ph
           /\ tick'[p].at = "snapshot" /\ Todo(tick'[p]) = customers
           /\ \A q \in {"poller", "command"} \ {p} : tick'[q] = tick[q]
  <1> DEFINE t == [phase |-> ph, left |-> customers, at |-> "snapshot"]
  <1>1. t \in Tick /\ Tick' = Tick /\ t.phase = ph /\ t.at = "snapshot" /\ t.left = customers
    BY DEF Tick
  <1>2. tick' = [tick EXCEPT ![p] = t]
    BY DEF StartTick
  <1> HIDE DEF t
  <1>3. tick'[p] = t /\ \A q \in {"poller", "command"} \ {p} : tick'[q] = tick[q]
    BY <1>2 DEF WalletTypes
  <1>4. tick' \in [{"poller", "command"} -> Tick]
    BY <1>1, <1>2 DEF WalletTypes
  <1> QED
    BY <1>1, <1>3, <1>4 DEF Todo

\* A tick is over.
LEMMA TickEnds ==
    ASSUME WalletTypes, NEW p \in {"poller", "command"}, tick' = [tick EXCEPT ![p] = NoTick],
           UNCHANGED customers
    PROVE  /\ tick' \in [{"poller", "command"} -> Tick]' /\ tick'[p] = NoTick
           /\ NoTick.phase = "none" /\ NoTick.at = "snapshot"
           /\ \A q \in {"poller", "command"} \ {p} : tick'[q] = tick[q]
  <1>1. NoTick \in Tick /\ Tick' = Tick /\ NoTick.phase = "none" /\ NoTick.at = "snapshot"
    BY DEF Tick, NoTick
  <1>2. tick' \in [{"poller", "command"} -> Tick]
    BY <1>1 DEF WalletTypes
  <1>3. tick'[p] = NoTick /\ \A q \in {"poller", "command"} \ {p} : tick'[q] = tick[q]
    BY DEF WalletTypes
  <1> QED
    BY <1>1, <1>2, <1>3

\* The command's ticks, and the places it goes through with the wallets.
LEMMA WalletCommand == ASSUME Setup, WalletInv, runPayments PROVE WalletInv'
  <1>f. UNCHANGED <<customers, ctxDone, audit, events, priorHolds, polls>>
    BY CommandFrame
  <1>t. WalletTypes /\ TickPlaces
    BY DEF WalletInv
  <1>h. HoldsSeen'
    BY <1>f DEF WalletInv, HoldsSeen
  <1> USE DEF Started, Ended
  <1>w. ASSUME UNCHANGED tick, poller' \in {"off", "waiting", "ticking", "done"}, pollCtx' \in BOOLEAN
        PROVE  WalletTypes'
    BY <1>f, <1>t, <1>w DEF WalletTypes, Tick
  <1>1. CASE CapturePreRun
    <2>1. /\ where = "pre" /\ where' = "pre" /\ tick["command"].phase = "none"
          /\ StartTick("command", "pre") /\ UNCHANGED <<poller, pollCtx>>
      BY <1>1 DEF CapturePreRun, commandVars
    <2>2. /\ tick' \in [{"poller", "command"} -> Tick]' /\ tick'["command"].phase = "pre"
          /\ tick'["command"].at = "snapshot" /\ Todo(tick'["command"]) = customers
          /\ tick'["poller"] = tick["poller"]
      BY <1>f, <1>t, <2>1, TickStarts DEF Phases
    <2>3. WalletTypes'
      BY <1>f, <1>t, <2>1, <2>2 DEF WalletTypes
    <2>4. TickPlaces'
      BY <1>f, <1>t, <2>1, <2>2 DEF TickPlaces, walletEnabled
    <2>5. WhereRank <= WhereRank'
      BY <2>1 DEF WhereRank
    <2>6. \A c \in customers : Covered(c)'
      BY <1>f, <2>1, <2>2, <2>5, LogsKept DEF WalletInv, Covered
    <2> QED
      BY <1>f, <1>h, <2>3, <2>4, <2>5, <2>6, LogsKept DEF WalletInv
  <1>2. CASE StartPayments
    <2>1. /\ where = "pre" /\ where' = "payments" /\ (walletEnabled => TickStops("command"))
          /\ tick' = [tick EXCEPT !["command"] = NoTick]
          /\ poller' \in {"waiting", "done"} /\ UNCHANGED pollCtx
      BY <1>2 DEF StartPayments, Goto
    <2>2. /\ tick' \in [{"poller", "command"} -> Tick]' /\ tick'["command"] = NoTick
          /\ NoTick.phase = "none" /\ NoTick.at = "snapshot" /\ tick'["poller"] = tick["poller"]
      BY <1>f, <1>t, <2>1, TickEnds
    <2>3. WalletTypes'
      BY <1>f, <1>t, <2>1, <2>2 DEF WalletTypes
    <2>4. tick["poller"].phase = "none"
      BY <1>t, <2>1 DEF TickPlaces
    <2>5. TickPlaces'
      BY <1>f, <1>t, <2>1, <2>2, <2>4 DEF TickPlaces, walletEnabled
    <2>6. WhereRank <= WhereRank'
      BY <2>1 DEF WhereRank
    <2>7. ASSUME NEW c \in customers PROVE Covered(c)'
      <3>1. /\ tick["command"].phase = "pre" /\ tick["command"].left = {}
            /\ tick["command"].at = "snapshot"
        BY <1>t, <2>1 DEF walletEnabled, TickStops, TickPlaces
      <3>2. Phase(c, "pre") # {}
        BY <3>1 DEF WalletInv, Covered, Todo
      <3>3. Phase(c, "pre")' # {}
        BY <1>f, <2>6, <3>2, LogsKept
      <3> QED
        BY <2>1, <2>2, <3>3 DEF Covered
    <2> QED
      BY <1>f, <1>h, <2>3, <2>5, <2>6, <2>7, LogsKept DEF WalletInv
  <1>3. CASE StartNotes \/ StartVerify \/ StopPoller
    <2>1. /\ UNCHANGED <<tick, poller>> /\ pollCtx' \in BOOLEAN
          /\ where \in {"payments", "notes", "erp"} /\ where' \in Started
      BY <1>3, <1>t DEF StartNotes, StartVerify, StopPoller, Goto, walletVars, WalletTypes
    <2>2. WalletTypes'
      BY <1>t, <1>w, <2>1 DEF WalletTypes
    <2>3. TickPlaces'
      BY <1>f, <1>t, <2>1 DEF TickPlaces, walletEnabled
    <2>4. WhereRank <= WhereRank'
      BY <2>1 DEF WhereRank
    <2>5. tick'["command"].phase = "none"
      BY <1>t, <2>1 DEF TickPlaces
    <2>6. \A c \in customers : Covered(c)'
      BY <1>f, <2>1, <2>4, <2>5, LogsKept DEF WalletInv, Covered
    <2> QED
      BY <1>f, <1>h, <2>2, <2>3, <2>4, <2>6, LogsKept DEF WalletInv
  <1>4. ASSUME where \in {"unpoll", "window"}, poller = "done", UNCHANGED <<tick, poller, pollCtx>>,
               where' = "dunning", customers = {} \/ ctxDone
        PROVE  WalletInv'
    <2>1. WalletTypes'
      BY <1>t, <1>w, <1>4 DEF WalletTypes
    <2>2. TickPlaces'
      BY <1>f, <1>t, <1>4 DEF TickPlaces, walletEnabled
    <2>3. WhereRank <= WhereRank'
      BY <1>4 DEF WhereRank
    <2>4. tick'["command"].phase = "none"
      BY <1>t, <1>4 DEF TickPlaces
    <2>5. \A c \in customers : Covered(c)'
      BY <1>f, <1>4, <2>3, <2>4, LogsKept DEF WalletInv, Covered
    <2> QED
      BY <1>f, <1>h, <2>1, <2>2, <2>3, <2>5, LogsKept DEF WalletInv
  <1>5. CASE CapturePostRun
    <2>u. UNCHANGED <<poller, pollCtx>>
      BY <1>5 DEF CapturePostRun
    <2>1. CASE where = "unpoll"
      <3>1. /\ poller = "done"
            /\ IF walletEnabled THEN StartTick("command", "post") /\ where' = "post"
                                ELSE where' = "dunning" /\ UNCHANGED tick
        BY <1>5, <2>1 DEF CapturePostRun, PollDone, Goto
      <3>2. CASE walletEnabled
        <4>1. /\ tick' \in [{"poller", "command"} -> Tick]' /\ tick'["command"].phase = "post"
              /\ tick'["command"].at = "snapshot" /\ Todo(tick'["command"]) = customers
              /\ tick'["poller"] = tick["poller"]
          BY <1>f, <1>t, <3>1, <3>2, TickStarts DEF Phases
        <4>2. WalletTypes'
          BY <1>f, <1>t, <2>u, <4>1 DEF WalletTypes
        <4>3. TickPlaces'
          BY <1>f, <1>t, <2>u, <3>1, <3>2, <4>1 DEF TickPlaces, walletEnabled
        <4>4. WhereRank <= WhereRank' /\ WhereRank < 3
          BY <2>1, <3>1, <3>2 DEF WhereRank
        <4>5. ASSUME NEW c \in customers PROVE Covered(c)'
          <5>1. Phase(c, "post")' = {} /\ Phase(c, "pre")' = Phase(c, "pre")
            BY <1>f, <4>4, NotYet, LogsKept
          <5>2. Phase(c, "pre") # {}
            BY <2>1 DEF WalletInv, Covered
          <5> QED
            BY <3>1, <3>2, <4>1, <5>1, <5>2 DEF Covered
        <4> QED
          BY <1>f, <1>h, <4>2, <4>3, <4>4, <4>5, LogsKept DEF WalletInv
      <3>3. CASE ~walletEnabled
        BY <1>4, <2>1, <2>u, <3>1, <3>3 DEF walletEnabled
      <3> QED
        BY <3>2, <3>3
    <2>2. CASE where \in {"post", "expiry"}
      <3>1. /\ TickStops("command") /\ tick' = [tick EXCEPT !["command"] = NoTick]
            /\ where' = IF where = "post" THEN "window" ELSE "dunning"
        BY <1>5, <2>2 DEF CapturePostRun, Goto
      <3>2. /\ tick' \in [{"poller", "command"} -> Tick]' /\ tick'["command"] = NoTick
            /\ NoTick.phase = "none" /\ NoTick.at = "snapshot" /\ tick'["poller"] = tick["poller"]
        BY <1>f, <1>t, <3>1, TickEnds
      <3>3. WalletTypes'
        BY <1>f, <1>t, <2>u, <3>2 DEF WalletTypes
      <3>4. TickPlaces'
        BY <1>f, <1>t, <2>2, <2>u, <3>1, <3>2 DEF TickPlaces, walletEnabled
      <3>5. WhereRank <= WhereRank'
        BY <2>2, <3>1 DEF WhereRank
      <3>6. ASSUME NEW c \in customers PROVE Covered(c)'
        <4>1. tick["command"].phase = (IF where = "post" THEN "post" ELSE "post-expiry")
          BY <1>t, <2>2 DEF TickPlaces
        <4>2. ~ctxDone => tick["command"].left = {} /\ tick["command"].at = "snapshot"
          BY <3>1 DEF TickStops, Over
        <4>3. ~ctxDone => Phase(c, tick["command"].phase) # {}
          BY <4>1, <4>2 DEF WalletInv, Covered, Todo
        <4>4. \A ph : Phase(c, ph)' = Phase(c, ph)
          BY <1>f, <3>5, LogsKept
        <4>5. Phase(c, "pre") # {} /\ (~ctxDone /\ where = "expiry" => Phase(c, "post") # {})
          BY <2>2 DEF WalletInv, Covered
        <4> QED
          BY <1>f, <2>2, <3>1, <3>2, <4>1, <4>3, <4>4, <4>5 DEF Covered
      <3> QED
        BY <1>f, <1>h, <3>3, <3>4, <3>5, <3>6, LogsKept DEF WalletInv
    <2>3. CASE where = "window"
      <3>1. IF ctxDone THEN where' = "dunning" /\ UNCHANGED tick
                       ELSE StartTick("command", "post-expiry") /\ where' = "expiry"
        BY <1>5, <2>3 DEF CapturePostRun, Goto
      <3>2. poller = "done"
        BY <1>t, <2>3 DEF TickPlaces
      <3>3. CASE ctxDone
        BY <1>4, <2>3, <2>u, <3>1, <3>2, <3>3
      <3>4. CASE ~ctxDone
        <4>1. /\ tick' \in [{"poller", "command"} -> Tick]' /\ tick'["command"].phase = "post-expiry"
              /\ tick'["command"].at = "snapshot" /\ Todo(tick'["command"]) = customers
              /\ tick'["poller"] = tick["poller"]
          BY <1>f, <1>t, <3>1, <3>4, TickStarts DEF Phases
        <4>2. WalletTypes'
          BY <1>f, <1>t, <2>u, <4>1 DEF WalletTypes
        <4>3. TickPlaces'
          BY <1>f, <1>t, <2>3, <2>u, <3>1, <3>2, <3>4, <4>1 DEF TickPlaces, walletEnabled
        <4>4. WhereRank <= WhereRank' /\ WhereRank < 4
          BY <2>3, <3>1, <3>4 DEF WhereRank
        <4>5. ASSUME NEW c \in customers PROVE Covered(c)'
          <5>1. /\ Phase(c, "post-expiry")' = {} /\ Phase(c, "pre")' = Phase(c, "pre")
                /\ Phase(c, "post")' = Phase(c, "post")
            BY <1>f, <4>4, NotYet, LogsKept
          <5>2. Phase(c, "pre") # {} /\ Phase(c, "post") # {}
            BY <2>3, <3>4 DEF WalletInv, Covered
          <5> QED
            BY <3>1, <3>4, <4>1, <5>1, <5>2 DEF Covered
        <4> QED
          BY <1>f, <1>h, <4>2, <4>3, <4>4, <4>5, LogsKept DEF WalletInv
      <3> QED
        BY <3>3, <3>4
    <2> QED
      BY <1>5, <2>1, <2>2, <2>3 DEF CapturePostRun
  <1>6. CASE Return
    <2>1. where = "dunning" /\ where' = "exit" /\ UNCHANGED <<tick, poller, pollCtx>>
      BY <1>6 DEF Return, Goto, walletVars
    <2>2. WalletTypes'
      BY <1>t, <1>w, <2>1 DEF WalletTypes
    <2>3. TickPlaces'
      BY <1>f, <1>t, <2>1 DEF TickPlaces, walletEnabled
    <2>4. WhereRank <= WhereRank'
      BY <2>1 DEF WhereRank
    <2>5. tick'["command"].phase = "none"
      BY <1>t, <2>1 DEF TickPlaces
    <2>6. \A c \in customers : Covered(c)'
      BY <1>f, <2>1, <2>4, <2>5, LogsKept DEF WalletInv, Covered
    <2> QED
      BY <1>f, <1>h, <2>2, <2>3, <2>4, <2>6, LogsKept DEF WalletInv
  <1> QED
    BY <1>1, <1>2, <1>3, <1>5, <1>6 DEF runPayments

\* A snapshot of a tick: the customer is taken off what it has to do.
LEMMA TickAdvances ==
    ASSUME Setup, WalletTypes, NEW p \in {"poller", "command"}, tick[p].left # {}, UNCHANGED customers,
           NEW c, c = First(tick[p].left),
           tick' = [tick EXCEPT ![p] = IF @.phase = "pre" THEN Past(@, c) ELSE [@ EXCEPT !.at = "holds"]]
    PROVE  /\ tick' \in [{"poller", "command"} -> Tick]' /\ c \in tick[p].left /\ c \in customers
           /\ tick'[p].phase = tick[p].phase
           /\ tick'[p].at = "holds" => tick[p].phase # "pre" /\ tick'[p].left # {}
           /\ tick[p].at = "snapshot" => Todo(tick'[p]) = Todo(tick[p]) \ {c}
           /\ \A q \in {"poller", "command"} \ {p} : tick'[q] = tick[q]
  <1>1. tick[p] \in Tick
    BY DEF WalletTypes
  <1>2. tick[p].left \subseteq customers /\ customers \subseteq Nat
    BY <1>1, Scenario DEF Tick
  <1>3. c \in tick[p].left /\ c \in customers
    BY <1>2, FirstIn
  <1>4. \A q \in {"poller", "command"} \ {p} : tick'[q] = tick[q]
    BY DEF WalletTypes
  <1>5. CASE tick[p].phase = "pre"
    <2>1. tick' = [tick EXCEPT ![p] = Past(tick[p], c)] /\ tick'[p] = Past(tick[p], c)
      BY <1>5 DEF WalletTypes
    <2>2. /\ Past(tick[p], c) \in Tick /\ Past(tick[p], c).phase = tick[p].phase
          /\ Past(tick[p], c).at = "snapshot" /\ Past(tick[p], c).left = tick[p].left \ {c}
      BY <1>1 DEF Past, Tick
    <2>3. tick' \in [{"poller", "command"} -> Tick] /\ Tick' = Tick
      BY <2>1, <2>2 DEF WalletTypes, Tick
    <2> QED
      BY <1>3, <1>4, <2>1, <2>2, <2>3 DEF Todo
  <1>6. CASE tick[p].phase # "pre"
    <2> DEFINE t == [tick[p] EXCEPT !.at = "holds"]
    <2>1. tick' = [tick EXCEPT ![p] = t] /\ tick'[p] = t
      BY <1>6 DEF WalletTypes
    <2>2. t \in Tick /\ t.phase = tick[p].phase /\ t.at = "holds" /\ t.left = tick[p].left
      BY <1>1 DEF Tick
    <2> HIDE DEF t
    <2>3. tick' \in [{"poller", "command"} -> Tick] /\ Tick' = Tick
      BY <2>1, <2>2 DEF WalletTypes, Tick
    <2> QED
      BY <1>3, <1>4, <1>6, <2>1, <2>2, <2>3 DEF Todo
  <1> QED
    BY <1>5, <1>6

LEMMA SnapshotTyped ==
    ASSUME NEW c \in customers, NEW phase \in Phases, NEW err \in BOOLEAN, NEW s \in snapshot(c, phase, err)
    PROVE  s \in Snapshot /\ s.phase = phase
  <1>1. Cardinality(Pending(c)) \in Nat
    BY WalletAssumption, FS_Subset, FS_CardinalityType DEF Pending
  <1>2. PICK n \in Nat : s = [phase |-> phase, balance |-> IF err THEN 0 ELSE Balance, held |-> n]
    BY <1>1 DEF snapshot
  <1>3. (IF err THEN 0 ELSE Balance) \in Nat
    BY WalletAssumption
  <1> QED
    BY <1>2, <1>3 DEF Snapshot

LEMMA SnapshotInv ==
    ASSUME Setup, WalletInv, NEW p \in {"poller", "command"}, TickSnapshot(p),
           UNCHANGED <<where, ctxDone>>
    PROVE  WalletInv'
  <1>c. PICK c, ph : c = First(tick[p].left) /\ ph = tick[p].phase
    OBVIOUS
  <1>t. WalletTypes /\ TickPlaces /\ tick[p] \in Tick
    BY DEF WalletInv, WalletTypes
  <1>u. UNCHANGED <<customers, events, priorHolds, poller, pollCtx, polls>>
    BY DEF TickSnapshot
  <1>0. ph # "none" /\ tick[p].at = "snapshot" /\ tick[p].left # {} /\ ph \in Phases
    BY <1>t, <1>c DEF TickSnapshot, Tick
  <1>1. tick' = [tick EXCEPT ![p] = IF @.phase = "pre" THEN Past(@, c) ELSE [@ EXCEPT !.at = "holds"]]
    BY <1>c DEF TickSnapshot
  <1>e. PICK err \in BOOLEAN :
           \E s \in snapshot(c, ph, err) : audit' = [audit EXCEPT ![c] = Append(@, s)]
    BY <1>c DEF TickSnapshot
  <1>2. PICK s \in snapshot(c, ph, err) : audit' = [audit EXCEPT ![c] = Append(@, s)]
    BY <1>e
  <1>3. /\ tick' \in [{"poller", "command"} -> Tick]' /\ c \in tick[p].left /\ c \in customers
        /\ tick'[p].phase = tick[p].phase
        /\ tick'[p].at = "holds" => tick[p].phase # "pre" /\ tick'[p].left # {}
        /\ Todo(tick'[p]) = Todo(tick[p]) \ {c}
        /\ \A q \in {"poller", "command"} \ {p} : tick'[q] = tick[q]
    BY <1>t, <1>u, <1>0, <1>1, <1>c, TickAdvances
  <1>4. s \in Snapshot /\ s.phase = ph
    BY <1>0, <1>2, <1>3, SnapshotTyped
  <1>5. /\ audit' \in [customers -> Seq(Snapshot)]
        /\ Len(audit[c]) \in Nat /\ Len(audit'[c]) = Len(audit[c]) + 1
        /\ audit'[c][Len(audit[c]) + 1] = s
        /\ \A k \in 1..Len(audit[c]) : audit'[c][k] = audit[c][k] /\ audit[c][k] \in Snapshot
        /\ \A d \in customers \ {c} : audit'[d] = audit[d]
        /\ \A x : Phase(c, x)' = IF x = s.phase THEN Phase(c, x) \cup {Len(audit[c]) + 1}
                                                ELSE Phase(c, x)
        /\ \A d \in customers \ {c} : \A x : Phase(d, x)' = Phase(d, x)
    BY <1>t, <1>2, <1>3, <1>4, SnapshotLogged
  <1>6. Rank(s) = WhereRank
    BY <1>t, <1>0, <1>4, <1>c, RankOf DEF TickPlaces, WhereRank, Started, Phases, Setup, Where
  <1>7. WalletTypes'
    BY <1>t, <1>u, <1>3, <1>5 DEF WalletTypes
  <1>8. TickPlaces'
    <2>1. tick'[p].phase # "none"
      BY <1>0, <1>3, <1>c
    <2>2. \A q \in {"poller", "command"} : tick'[q].phase = tick[q].phase
      BY <1>3
    <2>3. \A q \in {"poller", "command"} :
             /\ tick'[q].phase = "none" => tick'[q] = NoTick
             /\ tick'[q].at = "holds" => tick'[q].phase # "pre" /\ tick'[q].left # {}
      BY <1>t, <1>3, <2>1 DEF TickPlaces
    <2> QED
      BY <1>t, <1>u, <2>2, <2>3 DEF TickPlaces, walletEnabled
  <1>9. ASSUME NEW d \in customers PROVE Ranked(d)' /\ Ordered(d)'
    <2>r. WhereRank' = WhereRank /\ Ranked(d) /\ Ordered(d)
      BY DEF WhereRank, WalletInv
    <2>1. CASE d # c
      <3>1. audit'[d] = audit[d] /\ \A x : Phase(d, x)' = Phase(d, x)
        BY <1>5, <2>1
      <3> QED
        BY <2>r, <3>1 DEF Ranked, Ordered
    <2>2. CASE d = c
      <3> DEFINE n == Len(audit[c])
      <3>0. n \in Nat /\ WhereRank \in Int
        BY <1>5 DEF WhereRank
      <3>1. ASSUME NEW k \in 1..(n + 1)
            PROVE  /\ k = n + 1 => audit'[c][k] = s
                   /\ k # n + 1 => k \in 1..n /\ audit'[c][k] = audit[c][k]
        BY <1>5, <3>0
      <3> HIDE DEF n
      <3>2. \A k \in 1..n : Rank(audit[c][k]) <= WhereRank /\ Rank(audit[c][k]) \in Int
        BY <1>5, <2>2, <2>r, RankOf DEF Ranked, n
      <3>3. \A k \in 1..(n + 1) : Rank(audit'[c][k]) <= WhereRank
        BY <1>6, <3>0, <3>1, <3>2
      <3>4. ASSUME NEW j \in 1..(n + 1), NEW k \in 1..(n + 1), j < k
            PROVE  Rank(audit'[c][j]) <= Rank(audit'[c][k])
        <4>1. j \in 1..n /\ audit'[c][j] = audit[c][j]
          BY <3>0, <3>1, <3>4
        <4>2. CASE k = n + 1
          BY <1>6, <3>1, <3>2, <4>1, <4>2
        <4>3. CASE k # n + 1
          <5>1. k \in 1..n /\ audit'[c][k] = audit[c][k]
            BY <3>1, <4>3
          <5> QED
            BY <2>2, <2>r, <3>4, <4>1, <5>1 DEF Ordered, n
        <4> QED
          BY <4>2, <4>3
      <3>5. ASSUME NEW x \in {"pre", "post", "post-expiry"}, NEW j \in Phase(c, x)', NEW k \in Phase(c, x)'
            PROVE  j = k
        <4>1. CASE x # s.phase
          BY <1>5, <2>2, <2>r, <4>1 DEF Ordered
        <4>2. CASE x = s.phase
          <5>1. p = "command" /\ tick["command"].phase = x
            BY <1>t, <1>4, <1>c, <4>2 DEF TickPlaces
          <5>2. c \in Todo(tick["command"])
            BY <1>0, <1>3, <5>1 DEF Todo
          <5>3. Phase(c, x) = {}
            BY <1>0, <1>3, <1>c, <5>1, <5>2 DEF WalletInv, Covered
          <5>4. Phase(c, x)' = {Len(audit[c]) + 1}
            BY <1>5, <4>2, <5>3
          <5> QED
            BY <3>5, <5>4
        <4> QED
          BY <4>1, <4>2
      <3>6. Ranked(c)'
        BY <1>5, <2>r, <3>3 DEF Ranked, n
      <3>7. Ordered(c)'
        BY <1>5, <3>4, <3>5 DEF Ordered, n
      <3> QED
        BY <2>2, <3>6, <3>7
    <2> QED
      BY <2>1, <2>2
  <1>10. ASSUME NEW d \in customers PROVE Covered(d)'
    <2>1. \A x : Phase(d, x) # {} => Phase(d, x)' # {}
      BY <1>5
    <2>2. tick'["command"].phase = tick["command"].phase
      BY <1>3
    <2>x. PICK x : x = tick["command"].phase
      OBVIOUS
    <2>3. x # "none" => (d \in Todo(tick'["command"]) <=> Phase(d, x)' = {})
      <3> SUFFICES ASSUME x # "none"
                   PROVE  d \in Todo(tick'["command"]) <=> Phase(d, x)' = {}
        OBVIOUS
      <3>1. d \in Todo(tick["command"]) <=> Phase(d, x) = {}
        BY <2>x DEF WalletInv, Covered
      <3>2. p = "command"
        BY <1>t, <1>0, <1>c, <2>x DEF TickPlaces, Started
      <3>3. CASE d = c
        <4>1. Phase(d, x)' # {}
          BY <1>4, <1>5, <1>c, <2>x, <3>2, <3>3
        <4> QED
          BY <1>3, <3>2, <3>3, <4>1
      <3>4. CASE d # c
        <4>1. Phase(d, x)' = Phase(d, x)
          BY <1>5, <3>4
        <4> QED
          BY <1>3, <3>1, <3>2, <3>4, <4>1
      <3> QED
        BY <3>3, <3>4
    <2>4. where = "pre" => tick["command"].phase = "pre"
      <3> SUFFICES ASSUME where = "pre" PROVE tick["command"].phase = "pre"
        OBVIOUS
      <3>1. p = "command"
        BY <1>t, <1>0, <1>c DEF TickPlaces
      <3> QED
        BY <1>t, <1>0, <1>c, <3>1 DEF TickPlaces
    <2>5. Covered(d)
      BY DEF WalletInv
    <2>6. tick'["command"].phase = x /\ tick["command"].phase = x
      BY <2>2, <2>x
    <2> QED
      BY <2>1, <2>3, <2>4, <2>5, <2>6 DEF Covered
  <1>11. HoldsSeen'
    BY <1>u DEF WalletInv, HoldsSeen
  <1> QED
    BY <1>u, <1>7, <1>8, <1>9, <1>10, <1>11 DEF WalletInv

\* The holds of a customer: its snapshot is written, the tick goes on.
LEMMA HoldsInv ==
    ASSUME Setup, WalletInv, NEW p \in {"poller", "command"}, TickHolds(p),
           UNCHANGED <<where, ctxDone>>
    PROVE  WalletInv'
  <1>c. PICK c : c = First(tick[p].left)
    OBVIOUS
  <1>t. WalletTypes /\ TickPlaces /\ tick[p] \in Tick
    BY DEF WalletInv, WalletTypes
  <1>u. UNCHANGED <<customers, audit, poller, pollCtx, polls>> /\ tick[p].at = "holds"
    BY DEF TickHolds
  <1>1. tick' = [tick EXCEPT ![p] = Past(@, c)]
    BY <1>c DEF TickHolds
  <1>2. PICK seen : /\ seen \subseteq Holds
                    /\ events' = [h \in Holds |-> events[h] + (IF h \in seen \ priorHolds THEN 1 ELSE 0)]
                    /\ priorHolds' = priorHolds \cup seen
    BY DEF TickHolds, Pending
  <1>3. /\ tick'[p] = Past(tick[p], c) /\ tick' = [tick EXCEPT ![p] = Past(tick[p], c)]
        /\ \A q \in {"poller", "command"} \ {p} : tick'[q] = tick[q]
    BY <1>t, <1>1 DEF WalletTypes
  <1>4. /\ Past(tick[p], c) \in Tick /\ Past(tick[p], c).phase = tick[p].phase
        /\ Past(tick[p], c).at = "snapshot" /\ Past(tick[p], c).left = tick[p].left \ {c}
    BY <1>t DEF Past, Tick
  <1>5. /\ tick' \in [{"poller", "command"} -> Tick]' /\ tick'[p].phase = tick[p].phase
        /\ tick'[p].at = "snapshot" /\ Todo(tick'[p]) = Todo(tick[p])
    <2>1. tick' \in [{"poller", "command"} -> Tick] /\ Tick' = Tick
      BY <1>t, <1>u, <1>3, <1>4 DEF WalletTypes, Tick
    <2> QED
      BY <1>c, <1>u, <1>3, <1>4, <2>1 DEF Todo
  <1>6. tick[p].phase # "none"
    BY <1>t, <1>u DEF TickPlaces, NoTick
  <1>7. events' \in [Holds -> Nat]
    <2>1. \A h \in Holds : events[h] + (IF h \in seen \ priorHolds THEN 1 ELSE 0) \in Nat
      BY <1>t DEF WalletTypes
    <2> QED
      BY <1>2, <2>1
  <1>8. WalletTypes'
    BY <1>t, <1>u, <1>5, <1>7 DEF WalletTypes
  <1>9. TickPlaces'
    <2>1. \A q \in {"poller", "command"} : tick'[q].phase = tick[q].phase
      BY <1>3, <1>5
    <2>2. \A q \in {"poller", "command"} :
             /\ tick'[q].phase = "none" => tick'[q] = NoTick
             /\ tick'[q].at = "holds" => tick'[q].phase # "pre" /\ tick'[q].left # {}
      BY <1>t, <1>3, <1>5, <1>6 DEF TickPlaces
    <2> QED
      BY <1>t, <1>u, <2>1, <2>2 DEF TickPlaces, walletEnabled
  <1>10. \A d \in customers : Ranked(d)' /\ Ordered(d)' /\ \A x : Phase(d, x)' = Phase(d, x)
    <2>1. WhereRank' = WhereRank /\ WhereRank <= WhereRank'
      BY DEF WhereRank
    <2> QED
      BY <1>u, <2>1, LogsKept
  <1>11. /\ tick'["command"].phase = tick["command"].phase
         /\ Todo(tick'["command"]) = Todo(tick["command"])
    BY <1>3, <1>5
  <1>12. ASSUME NEW d \in customers PROVE Covered(d)'
    <2>1. Covered(d)
      BY DEF WalletInv
    <2> QED
      BY <1>10, <1>11, <2>1 DEF Covered
  <1>13. HoldsSeen'
    <2> SUFFICES ASSUME NEW h \in Holds PROVE events'[h] = IF h \in priorHolds' THEN 1 ELSE 0
      BY DEF HoldsSeen
    <2>1. events[h] = IF h \in priorHolds THEN 1 ELSE 0
      BY DEF WalletInv, HoldsSeen
    <2> QED
      BY <1>2, <2>1
  <1> QED
    BY <1>u, <1>8, <1>9, <1>10, <1>12, <1>13 DEF WalletInv

\* The poller starts a tick, ends one, or returns.
LEMMA PollerInv ==
    ASSUME Setup, WalletInv, PollUntil, UNCHANGED <<where, ctxDone>>
    PROVE  WalletInv'
  <1>t. WalletTypes /\ TickPlaces
    BY DEF WalletInv
  <1>u. UNCHANGED <<customers, audit, events, priorHolds, pollCtx>>
    BY DEF PollUntil
  <1>w. /\ poller \in {"waiting", "ticking"} /\ where # "pre" /\ where \in Started /\ poller' # "off"
        /\ polls' \in Nat
    BY <1>t DEF PollUntil, TickPlaces, WalletTypes
  <1>1. \A d \in customers : Ranked(d)' /\ Ordered(d)' /\ \A x : Phase(d, x)' = Phase(d, x)
    <2>1. WhereRank <= WhereRank'
      BY DEF WhereRank
    <2> QED
      BY <1>u, <2>1, LogsKept
  <1>2. /\ tick' \in [{"poller", "command"} -> Tick]' /\ tick'["command"] = tick["command"]
        /\ poller' \in {"waiting", "ticking", "done"}
        /\ tick'["poller"].phase = IF poller' = "ticking" THEN "mid" ELSE "none"
        /\ tick'["poller"].phase = "none" => tick'["poller"] = NoTick
        /\ tick'["poller"].at = "snapshot"
    <2>1. CASE poller = "waiting" /\ StartTick("poller", "mid") /\ poller' = "ticking"
      <3>1. "mid" \in Phases
        BY DEF Phases
      <3> QED
        BY <1>t, <1>u, <2>1, <3>1, TickStarts
    <2>2. CASE poller = "waiting" /\ poller' = "done" /\ UNCHANGED tick
      <3>1. tick["poller"] = NoTick /\ NoTick.at = "snapshot" /\ NoTick.phase = "none"
        BY <1>t, <2>2 DEF TickPlaces, NoTick
      <3> QED
        BY <1>t, <1>u, <2>2, <3>1 DEF WalletTypes, Tick
    <2>3. CASE tick' = [tick EXCEPT !["poller"] = NoTick] /\ poller' = "waiting"
      BY <1>t, <1>u, <2>3, TickEnds
    <2> QED
      BY <2>1, <2>2, <2>3 DEF PollUntil
  <1>3. WalletTypes'
    BY <1>t, <1>u, <1>w, <1>2 DEF WalletTypes
  <1>4. TickPlaces'
    BY <1>t, <1>u, <1>w, <1>2 DEF TickPlaces, walletEnabled, Started
  <1>5. ASSUME NEW d \in customers PROVE Covered(d)'
    <2>1. Covered(d)
      BY DEF WalletInv
    <2> QED
      BY <1>1, <1>2, <2>1 DEF Covered
  <1>6. HoldsSeen'
    BY <1>u DEF WalletInv, HoldsSeen
  <1> QED
    BY <1>u, <1>1, <1>3, <1>4, <1>5, <1>6 DEF WalletInv

LEMMA WalletMovesInv == ASSUME Setup, WalletInv, WalletMoves PROVE WalletInv'
  <1>1. UNCHANGED <<where, ctxDone>>
    BY WalletFrame DEF paymentsVars, commandVars
  <1>2. CASE PollUntil
    BY <1>1, <1>2, PollerInv
  <1>3. CASE PlatformHolds
    <2> USE <1>3 DEF PlatformHolds
    <2>1. WalletTypes'
      BY DEF WalletInv, WalletTypes, Tick
    <2>2. TickPlaces'
      BY <1>1 DEF WalletInv, TickPlaces, walletEnabled
    <2>3. \A c \in customers : Ranked(c)' /\ Ordered(c)' /\ \A x : Phase(c, x)' = Phase(c, x)
      <3>1. WhereRank <= WhereRank'
        BY <1>1 DEF WhereRank
      <3> QED
        BY <3>1, LogsKept
    <2>4. \A c \in customers : Covered(c)'
      BY <1>1, <2>3 DEF WalletInv, Covered
    <2>5. HoldsSeen'
      BY DEF WalletInv, HoldsSeen
    <2> QED
      BY <2>1, <2>2, <2>3, <2>4, <2>5 DEF WalletInv
  <1>4. CASE \E p \in {"poller", "command"} : tickAll(p)
    BY <1>1, <1>4, SnapshotInv, HoldsInv DEF tickAll
  <1> QED
    BY <1>2, <1>3, <1>4 DEF WalletMoves

LEMMA WalletStepInv == ASSUME Setup, WalletInv, [Next]_vars PROVE WalletInv'
  <1> USE DEF commandVars, paymentsVars
  <1>1. CASE runPayments
    BY <1>1, WalletCommand
  <1>2. CASE Signal
    BY <1>2, WalletUnmoved DEF Signal
  <1>3. CASE PayMoves
    BY <1>3, PayFrame, WalletUnmoved
  <1>4. CASE NoteMoves
    BY <1>4, NoteFrame, WalletUnmoved
  <1>5. CASE SyncMoves
    BY <1>5, SyncFrame, WalletUnmoved
  <1>6. CASE WalletMoves
    BY <1>6, WalletMovesInv
  <1>7. CASE \E i \in invoices : WalkMoves(i)
    BY <1>7, WalkFrame, WalletUnmoved
  <1>8. CASE UNCHANGED vars
    BY <1>8, WalletUnmoved DEF vars
  <1> QED
    BY <1>1, <1>2, <1>3, <1>4, <1>5, <1>6, <1>7, <1>8, Movers

-----------------------------------------------------------------------------
(* The whole invariant. *)
LEMMA InvInit == Init => IInv
  BY SetupInit, PayInit, WalkInit, SyncInit, NoteInit, WalletInitial DEF IInv

LEMMA InvStep == IInv /\ [Next]_vars => IInv'
  BY SetupStep, PayStepInv, WalkStepInv, SyncStepInv, NoteStepInv, WalletStepInv DEF IInv

LEMMA Invariant == Spec => []IInv
  BY InvInit, InvStep, PTL DEF Spec

-----------------------------------------------------------------------------
(* What the command leaves behind. *)

\* At the end every worker has returned: no invoice is half processed.
LEMMA PaymentsOver ==
    ASSUME IInv, where = "exit"
    PROVE  \A i \in invoices : /\ pay[i] \in {"done", "dropped", "queued"}
                               /\ ~ctxDone => pay[i] = "done"
  <1>0. Setup /\ PayTypes /\ PoolInv
    BY DEF IInv, PayInv
  <1>1. Cardinality(Busy) <= 0 /\ Busy \in SUBSET invoices
    BY <1>0 DEF PoolInv, Busy
  <1>2. IsFiniteSet(Busy) /\ Cardinality(Busy) \in Nat
    BY <1>0, <1>1, InvoiceSet
  <1>3. Cardinality(Busy) = 0
    BY <1>1, <1>2
  <1>4. Busy = {}
    BY <1>2, <1>3, FS_EmptySet
  <1>5. \A i \in invoices : pay[i] \in PayStates
    BY <1>0 DEF PayTypes
  <1>6. ~ctxDone => Queue = {} /\ \A i \in invoices : pay[i] # "dropped"
    BY <1>0 DEF PoolInv
  <1> QED
    BY <1>4, <1>5, <1>6 DEF Busy, Queue, PayStates

LEMMA SyncOver ==
    ASSUME IInv, where = "exit", ~ctxDone, scen.erp
    PROVE  \A i \in invoices : sync[i] \in {"synced", "failed", "missing"}
  <1>0. Setup /\ SyncInv /\ SyncTypes
    BY DEF IInv, SyncInv
  <1>1. Cardinality(Polling) <= 0 /\ Polling \in SUBSET invoices
    BY <1>0 DEF SyncInv, Polling
  <1>2. IsFiniteSet(Polling) /\ Cardinality(Polling) \in Nat
    BY <1>0, <1>1, InvoiceSet
  <1>3. Cardinality(Polling) = 0
    BY <1>1, <1>2
  <1>4. Polling = {}
    BY <1>2, <1>3, FS_EmptySet
  <1>5. SyncQueue = {} /\ \A i \in invoices : sync[i] # "dropped"
    BY <1>0 DEF SyncInv
  <1>6. \A i \in invoices : sync[i] \in SyncStates
    BY <1>0 DEF SyncTypes
  <1> QED
    BY <1>4, <1>5, <1>6 DEF Polling, SyncQueue, SyncStates

LEMMA AllAccounted == IInv => EveryInvoiceAccounted
  <1> SUFFICES ASSUME IInv, where = "exit" PROVE EveryInvoiceAccounted
    BY DEF EveryInvoiceAccounted
  <1>0. StatsInv
    BY DEF IInv, PayInv
  <1>1. ASSUME NEW i \in invoices PROVE Len(payLog[i]) = IF pay[i] = "done" THEN 1 ELSE 0
    <2>1. RowInv(i)
      BY <1>0 DEF StatsInv
    <2>2. CASE pay[i] = "done"
      <3>1. PICK o \in Outcomes : payLog[i] = <<o>>
        BY <2>1, <2>2 DEF RowInv
      <3>2. Len(payLog[i]) = 1
        BY <3>1
      <3> QED
        BY <2>2, <3>2
    <2>3. CASE pay[i] # "done"
      <3>1. payLog[i] = <<>>
        BY <2>1, <2>3 DEF RowInv
      <3>2. Len(payLog[i]) = 0
        BY <3>1
      <3> QED
        BY <2>3, <3>2
    <2> QED
      BY <2>2, <2>3
  <1>2. Taken = {i \in invoices : pay[i] = "done"}
    BY PaymentsOver DEF Taken
  <1>3. stats["processed"] = Cardinality({i \in invoices : pay[i] = "done"})
    BY <1>0, <1>2 DEF StatsInv
  <1>4. \A b \in Buckets : stats[b] = Cardinality({i \in invoices : payLog[i] = <<b>>})
    BY <1>0 DEF StatsInv, Logged
  <1> QED
    BY <1>1, <1>3, <1>4, PaymentsOver, SyncOver DEF EveryInvoiceAccounted

LEMMA WalksReported == IInv => DunningReported
  <1> SUFFICES ASSUME IInv, where = "exit", NEW i \in invoices
               PROVE  LET last == trail[i][Len(trail[i])] IN
                      IF payLog[i] # <<>> /\ payLog[i][1] \in Declines
                      THEN /\ trail[i][1].kind = "RETRY_PAYMENT"
                           /\ StepRows(i) = 2..(attempt[i] + 1)
                           /\ \A k \in StepRows(i) : trail[i][k].n = k - 1
                           /\ ~expired[i] =>
                                 IF last.kind = "DUNNING_ESCALATE"
                                 THEN attempt[i] = cfg.attempts /\ (last.status = "OK" => sub[i] = "SUSPENDED")
                                 ELSE sub[i] = "ACTIVE" /\ Len(trail[i]) = attempt[i] + 1
                      ELSE StepRows(i) = {}
    BY DEF DunningReported
  <1>0. /\ dun[i] \in {"none", "done"} /\ TrailInv(i) /\ RowInv(i)
        /\ trail[i] \in Seq(TrailRow) /\ Len(trail[i]) \in Nat
        /\ attempt[i] \in Nat /\ cfg.attempts \in Nat
    <2>1. cfg.attempts \in Nat
      BY Scenario DEF IInv
    <2>2. attempt[i] \in 0..cfg.attempts /\ trail[i] \in Seq(TrailRow)
      BY DEF IInv, WalkInv, WalkTypes
    <2> QED
      BY <2>1, <2>2 DEF IInv, WalkInv, WaitDunning, PayInv, StatsInv
  <1>1. CASE dun[i] = "none"
    <2>1. Unwalked(i)
      BY <1>0, <1>1 DEF TrailInv
    <2>2. StepRows(i) = {}
      BY <2>1 DEF StepRows, Unwalked
    <2>3. ~(payLog[i] # <<>> /\ payLog[i][1] \in Declines)
      BY <1>0, <2>1 DEF Unwalked, RowInv
    <2> QED
      BY <2>2, <2>3
  <1>2. CASE dun[i] = "done"
    <2>1. Walked(i) /\ Made(i) = attempt[i]
      BY <1>0, <1>2 DEF TrailInv, Made
    <2>2. payLog[i] # <<>> /\ payLog[i][1] \in Declines
      BY <1>0, <2>1 DEF Walked, RowInv
    <2>3. trail[i][1].kind = "RETRY_PAYMENT" /\ Len(trail[i]) \in {attempt[i] + 1, attempt[i] + 2}
      BY <2>1 DEF Walked
    <2>4. \A k \in 2..(attempt[i] + 1) : trail[i][k].kind = "DUNNING_STEP" /\ trail[i][k].n = k - 1
      BY <2>1 DEF Walked
    <2>5. Len(trail[i]) = attempt[i] + 2 =>
             /\ attempt[i] = cfg.attempts /\ trail[i][attempt[i] + 2].kind = "DUNNING_ESCALATE"
             /\ trail[i][attempt[i] + 2].status = "OK" => sub[i] = "SUSPENDED"
      BY <2>1 DEF Walked
    <2>6. StepRows(i) = 2..(attempt[i] + 1)
      <3>1. ASSUME NEW k \in 1..Len(trail[i])
            PROVE  trail[i][k].kind = "DUNNING_STEP" <=> k \in 2..(attempt[i] + 1)
        <4>1. CASE k = 1
          BY <1>0, <2>3, <4>1
        <4>2. CASE k \in 2..(attempt[i] + 1)
          BY <2>4, <4>2
        <4>3. CASE k = attempt[i] + 2
          BY <1>0, <2>5, <2>3, <4>3
        <4> QED
          BY <1>0, <2>3, <4>1, <4>2, <4>3
      <3>2. 2..(attempt[i] + 1) \subseteq 1..Len(trail[i])
        BY <1>0, <2>3
      <3> QED
        BY <3>1, <3>2 DEF StepRows
    <2>7. CASE Len(trail[i]) = attempt[i] + 2
      BY <2>2, <2>3, <2>4, <2>5, <2>6, <2>7
    <2>8. CASE Len(trail[i]) = attempt[i] + 1
      <3>1. ~expired[i] => sub[i] = "ACTIVE"
        BY <1>2, <2>1, <2>8 DEF Walked
      <3>2. trail[i][Len(trail[i])].kind # "DUNNING_ESCALATE"
        <4>1. CASE attempt[i] = 0
          BY <2>3, <2>8, <4>1
        <4>2. CASE attempt[i] # 0
          <5>1. attempt[i] + 1 \in 2..(attempt[i] + 1)
            BY <1>0, <4>2
          <5> QED
            BY <2>4, <2>8, <5>1
        <4> QED
          BY <4>1, <4>2
      <3> QED
        BY <2>2, <2>3, <2>4, <2>6, <2>8, <3>1, <3>2
    <2> QED
      BY <2>3, <2>7, <2>8
  <1> QED
    BY <1>0, <1>1, <1>2

LEMMA Typed == IInv => TypeOK
  BY DEF IInv, Setup, PayInv, PayTypes, PayStates, WalkInv, WalkTypes, SyncInv, SyncTypes,
         NoteInv, NoteTypes, WalletInv, WalletTypes, TypeOK

\* What the command leaves in payments.jsonl, transitions.jsonl and its summary accounts for every
\* invoice and every dunning walk (processOne, tally, WaitDunning), whatever fails and whenever a
\* signal comes.
THEOREM Accounted == Spec => []PaymentsAccounted
  <1>1. IInv => PaymentsAccounted
    BY Typed, AllAccounted, WalksReported DEF PaymentsAccounted
  <1> QED
    BY <1>1, Invariant, PTL

-----------------------------------------------------------------------------
(* The evidence of checks 15 to 17. *)

\* The log of an invoice's credit note is one of a few, and tells what the
\* platform has done.
LEMMA NoteShape ==
    ASSUME Setup, NoteInv, NEW i \in invoices
    PROVE  /\ Settled(i) \/ InFlow(i)
           /\ where = "exit" => Settled(i)
  <1>1. i \in Nat /\ cur \in Nat
    BY Scenario DEF NoteInv, NoteTypes
  <1>2. Untouched(i) => Settled(i)
    BY DEF Settled
  <1>3. CASE i < cur
    BY <1>3 DEF NoteInv
  <1>4. CASE i > cur
    BY <1>2, <1>4 DEF NoteInv
  <1>5. CASE i = cur /\ step = "next"
    BY <1>2, <1>5 DEF NoteInv
  <1>6. CASE i = cur /\ step # "next"
    BY <1>6 DEF NoteInv
  <1> QED
    BY <1>1, <1>3, <1>4, <1>5, <1>6

LEMMA RowsTold ==
    ASSUME NEW i \in invoices, Settled(i) \/ InFlow(i)
    PROVE  /\ HasRow(<<i, TRUE>>, "APPLIED") => note[i] = "APPLIED"
           /\ HasRow(<<i, TRUE>>, "ISSUED") => note[i] \in {"ISSUED", "APPLIED"}
           /\ ~HasRow(<<i, FALSE>>, "ISSUED")
           /\ Settled(i) /\ Rows(i, FALSE) = {} =>
                 /\ drawn[i] = "apply" => note[i] = "APPLIED"
                 /\ drawn[i] = "issue" => note[i] = "ISSUED"
  <1> DEFINE Unid == NoteRow(FALSE, "DRAFT")
  <1>a. \A b, st : HasRow(<<i, b>>, st) <=>
                     \E k \in DOMAIN cnLog[i] : cnLog[i][k].id = b /\ cnLog[i][k].status = st
    BY DEF HasRow, Rows
  <1>b. Rows(i, FALSE) = {} <=> \A k \in DOMAIN cnLog[i] : cnLog[i][k].id # FALSE
    BY DEF Rows
  <1>c. /\ Drafted.id = TRUE /\ Issued.id = TRUE /\ Applied.id = TRUE
        /\ Errored.id = FALSE /\ Unid.id = FALSE
        /\ Drafted.status = "DRAFT" /\ Issued.status = "ISSUED" /\ Applied.status = "APPLIED"
        /\ Errored.status = "error" /\ Unid.status = "DRAFT"
    BY DEF NoteRow, Drafted, Issued, Applied, Errored
  <1>u. Unid = NoteRow(FALSE, "DRAFT")
    OBVIOUS
  <1> HIDE DEF Unid
  <1>1. CASE cnLog[i] = <<>>
    <2>1. DOMAIN cnLog[i] = {}
      BY <1>1
    <2>2. Settled(i) => drawn[i] = "none"
      BY <1>1 DEF Settled, Untouched
    <2> QED
      BY <1>a, <2>1, <2>2
  <1>2. ASSUME NEW a \in {Unid, Errored, Drafted}, cnLog[i] = <<a>>
        PROVE  /\ ~HasRow(<<i, TRUE>>, "APPLIED") /\ ~HasRow(<<i, TRUE>>, "ISSUED")
               /\ ~HasRow(<<i, FALSE>>, "ISSUED")
               /\ a # Drafted => Rows(i, FALSE) # {}
    <2>1. DOMAIN cnLog[i] = {1} /\ cnLog[i][1] = a
      BY <1>2
    <2>2. a.status \in {"DRAFT", "error"} /\ (a # Drafted => a.id = FALSE)
      BY <1>2, <1>c
    <2>3. \A b : ~HasRow(<<i, b>>, "APPLIED") /\ ~HasRow(<<i, b>>, "ISSUED")
      BY <1>a, <2>1, <2>2
    <2>4. a # Drafted => Rows(i, FALSE) # {}
      BY <1>b, <2>1, <2>2
    <2> QED
      BY <2>3, <2>4
  <1>3. CASE cnLog[i] = <<Drafted>>
    <2>0. /\ Len(cnLog[i]) = 1 /\ cnLog[i] # <<>>
          /\ \A a, b : cnLog[i] # <<a, b>>
          /\ \A a, b, c : cnLog[i] # <<a, b, c>>
      BY <1>3
    <2>a. cnLog[i] # <<NoteRow(FALSE, "DRAFT")>> /\ cnLog[i] # <<Errored>>
      <3>1. Unid # Drafted /\ Errored # Drafted
        BY <1>c
      <3>2. cnLog[i][1] = Drafted /\ \A a : cnLog[i] = <<a>> => cnLog[i][1] = a
        BY <1>3
      <3> QED
        BY <1>u, <3>1, <3>2
    <2>1. ~Settled(i)
      BY <2>0, <2>a DEF Settled, Untouched
    <2> QED
      BY <1>2, <1>3, <2>1
  <1>4. CASE cnLog[i] = <<Drafted, Errored>>
    <2>1. DOMAIN cnLog[i] = {1, 2} /\ cnLog[i][1] = Drafted /\ cnLog[i][2] = Errored
      BY <1>4
    <2>2. Rows(i, FALSE) # {}
      BY <1>b, <1>c, <2>1
    <2>3. \A b : ~HasRow(<<i, b>>, "APPLIED") /\ ~HasRow(<<i, b>>, "ISSUED")
      BY <1>a, <1>c, <2>1
    <2> QED
      BY <2>2, <2>3
  <1>5. CASE cnLog[i] = <<Drafted, Issued>> /\ note[i] = "ISSUED"
    <2>1. DOMAIN cnLog[i] = {1, 2} /\ cnLog[i][1] = Drafted /\ cnLog[i][2] = Issued
      BY <1>5
    <2>2. Settled(i) => drawn[i] = "issue"
      BY <1>5, <1>c, <2>1 DEF Settled, Untouched
    <2> QED
      BY <1>5, <1>a, <1>b, <1>c, <2>1, <2>2
  <1>6. CASE cnLog[i] = <<Drafted, Issued, Applied>> /\ note[i] = "APPLIED" /\ drawn[i] = "apply"
    <2>1. DOMAIN cnLog[i] = {1, 2, 3} /\ cnLog[i][1] = Drafted /\ cnLog[i][2] = Issued /\ cnLog[i][3] = Applied
      BY <1>6
    <2> QED
      BY <1>6, <1>a, <1>b, <1>c, <2>1
  <1>7. CASE cnLog[i] = <<Drafted, Issued, Errored>> /\ note[i] \in {"ISSUED", "APPLIED"}
    <2>1. DOMAIN cnLog[i] = {1, 2, 3} /\ cnLog[i][1] = Drafted /\ cnLog[i][2] = Issued /\ cnLog[i][3] = Errored
      BY <1>7
    <2>2. Rows(i, FALSE) # {}
      BY <1>b, <1>c, <2>1
    <2>3. \A b : ~HasRow(<<i, b>>, "APPLIED")
      BY <1>a, <1>c, <2>1
    <2>i. Drafted.status # "ISSUED" /\ Errored.status # "ISSUED" /\ Issued.id # FALSE
      BY <1>c
    <2>4. ~HasRow(<<i, FALSE>>, "ISSUED")
      <3> SUFFICES ASSUME NEW k \in {1, 2, 3}, cnLog[i][k].id = FALSE, cnLog[i][k].status = "ISSUED"
                   PROVE  FALSE
        <4>1. HasRow(<<i, FALSE>>, "ISSUED") =>
                 \E k \in DOMAIN cnLog[i] : cnLog[i][k].id = FALSE /\ cnLog[i][k].status = "ISSUED"
          BY DEF HasRow, Rows
        <4> QED
          BY <2>1, <4>1
      <3>1. cnLog[i][k] \in {Drafted, Issued, Errored}
        BY <2>1
      <3> QED
        BY <2>i, <3>1
    <2> QED
      BY <1>7, <2>2, <2>3, <2>4
  <1>8. CASE cnLog[i] \in {<<Unid>>, <<Errored>>}
    <2>1. Unid # Drafted /\ Errored # Drafted
      BY <1>c
    <2>2. \E a \in {Unid, Errored} : cnLog[i] = <<a>>
      BY <1>8
    <2> QED
      BY <1>2, <2>1, <2>2
  <1>9. \/ cnLog[i] = <<>> \/ cnLog[i] \in {<<Unid>>, <<Errored>>} \/ cnLog[i] = <<Drafted>>
        \/ cnLog[i] = <<Drafted, Errored>>
        \/ cnLog[i] = <<Drafted, Issued>> /\ note[i] = "ISSUED"
        \/ cnLog[i] = <<Drafted, Issued, Applied>> /\ note[i] = "APPLIED" /\ drawn[i] = "apply"
        \/ cnLog[i] = <<Drafted, Issued, Errored>> /\ note[i] \in {"ISSUED", "APPLIED"}
    BY <1>u DEF Settled, InFlow, Untouched
  <1> QED
    BY <1>1, <1>3, <1>4, <1>5, <1>6, <1>7, <1>8, <1>9

LEMMA NotesSound ==
    ASSUME IInv
    PROVE  /\ \A i \in invoices :
                 /\ HasRow(<<i, TRUE>>, "APPLIED") => note[i] = "APPLIED"
                 /\ HasRow(<<i, TRUE>>, "ISSUED") => note[i] \in {"ISSUED", "APPLIED"}
           /\ where = "exit" /\ runCreditNotes = "PASS" =>
                 \A i \in invoices : /\ drawn[i] = "apply" => note[i] = "APPLIED"
                                     /\ drawn[i] = "issue" => note[i] = "ISSUED"
  <1>0. Setup /\ NoteInv
    BY DEF IInv
  <1>1. \A i \in invoices : Settled(i) \/ InFlow(i)
    BY <1>0, NoteShape
  <1>2. ASSUME where = "exit", runCreditNotes = "PASS", NEW i \in invoices
        PROVE  /\ drawn[i] = "apply" => note[i] = "APPLIED"
               /\ drawn[i] = "issue" => note[i] = "ISSUED"
    <2>1. \A g \in Reconstruct : HasRow(g, "ISSUED")
      BY <1>2 DEF runCreditNotes
    <2>2. <<i, FALSE>> \notin Reconstruct
      BY <1>1, <2>1, RowsTold
    <2>3. Rows(i, FALSE) = {}
      BY <2>2 DEF Reconstruct
    <2>4. Settled(i)
      BY <1>0, <1>2, NoteShape
    <2> QED
      BY <2>3, <2>4, RowsTold
  <1> QED
    BY <1>1, <1>2, RowsTold

LEMMA SyncSound ==
    ASSUME IInv, where = "exit", NEW verify, NEW slow, NEW verified, runERPSync(verify, verified, slow) = "PASS"
    PROVE  100 * Cardinality({i \in SyncLog : erp[i] = "synced"}) >= 99 * Cardinality(SyncLog)
  <1> DEFINE A == {i \in SyncLog : sync[i] = "synced"}
             B == {i \in SyncLog : erp[i] = "synced"}
  <1>1. A \subseteq B /\ A \in SUBSET invoices /\ B \in SUBSET invoices /\ SyncLog \in SUBSET invoices
    BY DEF IInv, SyncInv, SyncLog
  <1>2. ~(100 * Cardinality(A) < 99 * Cardinality(SyncLog))
    BY DEF runERPSync
  <1> HIDE DEF A, B
  <1>3. /\ IsFiniteSet(B) /\ Cardinality(A) \in Nat /\ Cardinality(B) \in Nat
        /\ Cardinality(SyncLog) \in Nat
    BY <1>1, InvoiceSet DEF IInv
  <1>4. Cardinality(A) <= Cardinality(B)
    BY <1>1, <1>3, FS_Subset
  <1>5. 100 * Cardinality(B) >= 99 * Cardinality(SyncLog)
    BY <1>2, <1>3, <1>4
  <1> QED
    BY <1>5 DEF B

LEMMA ChecksAreSound == IInv => ChecksSound
  <1> SUFFICES ASSUME IInv PROVE ChecksSound
    OBVIOUS
  <1>1. \A i \in invoices : sync[i] \in {"synced", "failed"} => erp[i] = sync[i]
    BY DEF IInv, SyncInv
  <1> QED
    BY <1>1, NotesSound, SyncSound DEF ChecksSound

LEMMA StoryTold == IInv => WalletStory
  <1> SUFFICES ASSUME IInv PROVE WalletStory
    OBVIOUS
  <1>0. WalletTypes /\ TickPlaces /\ HoldsSeen
    BY DEF IInv, WalletInv
  <1>1. ASSUME NEW c \in customers
        PROVE  /\ \A j, k \in DOMAIN audit[c] : j < k => Rank(audit[c][j]) <= Rank(audit[c][k])
               /\ \A ph \in {"pre", "post", "post-expiry"} : Cardinality(Phase(c, ph)) <= 1
               /\ where = "exit" => /\ Phase(c, "pre") # {}
                                    /\ ~ctxDone => Phase(c, "post") # {} /\ Phase(c, "post-expiry") # {}
    <2>1. DOMAIN audit[c] = 1..Len(audit[c])
      BY <1>0 DEF WalletTypes
    <2>2. Ordered(c) /\ Covered(c)
      BY DEF IInv, WalletInv
    <2>3. ASSUME NEW ph \in {"pre", "post", "post-expiry"} PROVE Cardinality(Phase(c, ph)) <= 1
      <3>1. CASE Phase(c, ph) = {}
        BY <3>1, FS_EmptySet
      <3>2. CASE Phase(c, ph) # {}
        <4>1. PICK k : Phase(c, ph) = {k}
          BY <2>2, <3>2 DEF Ordered
        <4> QED
          BY <4>1, FS_Singleton
      <3> QED
        BY <3>1, <3>2
    <2> QED
      BY <2>1, <2>2, <2>3 DEF Ordered, Covered, Ended
  <1>2. where \in {"post", "window", "expiry"} => tick["poller"] = NoTick
    BY <1>0 DEF TickPlaces, Started
  <1>3. \A h \in Holds : events[h] <= 1
    BY <1>0 DEF HoldsSeen
  <1> QED
    BY <1>1, <1>2, <1>3 DEF WalletStory

\* What checks 15 to 17 read is the platform's story: logs never ahead of it, a PASS of runCreditNotes
\* and runERPSync that is right, each wallet's snapshots in order and none missing but for a signal
\* (tickAll, LoadAudit), each hold reported at most once.
THEOREM Evidence == Spec => []EvidenceSound
  <1>1. IInv => EvidenceSound
    BY ChecksAreSound, StoryTold DEF EvidenceSound
  <1> QED
    BY <1>1, Invariant, PTL
=============================================================================
