--------------------------- MODULE CircuitBreaker ---------------------------
(***************************************************************************)
(* The rolling-window circuit breaker of internal/driver/circuit_breaker.go*)
(* as the workers of the pool (internal/driver/pool.go, dispatch) use it:  *)
(* every worker asks Allow, submits, and reports the outcome to Record.    *)
(*                                                                         *)
(* state, openedAt and halfSuccess are three independent atomics and only  *)
(* the ring of buckets is under mu, so one action here is one atomic       *)
(* operation (or one critical section) of the code, and everything between *)
(* two of them can be interleaved with the other workers.  Time is counted *)
(* in seconds, the unit of the ring.                                       *)
(***************************************************************************)
EXTENDS Integers, RollingCounter

CONSTANTS
    OpenDuration,   \* seconds the breaker stays open
    HalfOpenProbes, \* successes that close a half-open breaker
    MaxSkew         \* bound: seconds a Record is under way

ASSUME BreakerAssumption ==
    /\ OpenDuration \in Nat \ {0}
    /\ HalfOpenProbes \in Nat \ {0}
    /\ MinSamples \in Nat \ {0}
    /\ ErrNum \in Nat \ {0} /\ ErrDen \in Nat \ {0}
    /\ MaxTime \in Nat /\ MaxEvents \in Nat /\ MaxSkew \in Nat

VARIABLES
    state,       \* cb.state
    openedAt,    \* cb.openedAt
    halfSuccess, \* cb.halfSuccess
    result,      \* outcome of the worker's Submit (Record's argument)
    hot,         \* Record's local tally is at or above the threshold
    probes,      \* history: probe successes counted since half-open began
    since,       \* history: the clock of the Record that opened the breaker
    log          \* history: outcomes recorded per second since the last reset

atomics == <<state, openedAt, halfSuccess>>
ring    == <<buckets, log>>
local   == <<result, at, hot>>
history == <<overlap, probes, since>>
vars    == <<now, atomics, ring, pc, local, sent, history>>

Times   == 0 .. MaxTime
PCs     == {"idle", "timer", "cas", "reset", "recheck", "submit", "record",
            "tally", "branch", "probe", "close", "clear", "stamp", "open"}

TypeOK ==
    /\ now \in Times
    /\ state \in {"closed", "half_open", "open"}
    /\ openedAt \in Times
    /\ halfSuccess \in Nat
    /\ buckets \in [Slots -> Bucket]
    /\ log \in [Times -> Count]
    /\ pc \in [Workers -> PCs]
    /\ result \in [Workers -> BOOLEAN]
    /\ at \in [Workers -> Times]
    /\ hot \in [Workers -> BOOLEAN]
    /\ sent \in Nat
    /\ overlap \in BOOLEAN
    /\ probes \in Nat
    /\ since \in Times

-----------------------------------------------------------------------------
\* Record's rate check on the tally.
RateExceeded(b, t) ==
    LET total == tallySucc(b, t) + tallyFail(b, t)
    IN  /\ total >= MinSamples
        /\ tallyFail(b, t) * ErrDen >= total * ErrNum

-----------------------------------------------------------------------------
Init ==
    /\ now = 0
    /\ state = "closed"
    /\ openedAt = 0
    /\ halfSuccess = 0
    /\ buckets = EmptyRing
    /\ log = [t \in Times |-> NoCount]
    /\ pc = [w \in Workers |-> "idle"]
    /\ result = [w \in Workers |-> FALSE]
    /\ at = [w \in Workers |-> 0]
    /\ hot = [w \in Workers |-> FALSE]
    /\ sent = 0
    /\ overlap = FALSE
    /\ probes = 0
    /\ since = 0

(***************************************************************************)
(* Allow                                                                   *)
(***************************************************************************)
\* dispatch picks up the next event; Allow loads the state.
AllowLoad(w) ==
    /\ sent < MaxEvents
    /\ sent' = sent + 1
    /\ overlap' = (overlap \/ \E v \in Workers \ {w} : pc[v] # "idle")
    /\ Goto(w, "idle", IF state = "open" THEN "timer" ELSE "submit")
    /\ UNCHANGED <<now, atomics, ring, local, probes, since>>

\* The open-to-half-open timer; refused events go back to the loop.
AllowTimer(w) ==
    /\ Goto(w, "timer", IF now - openedAt >= OpenDuration THEN "cas" ELSE "idle")
    /\ UNCHANGED <<now, atomics, ring, local, sent, history>>

\* CompareAndSwap(open, half_open).
AllowCAS(w) ==
    /\ \/ /\ state = "open"
          /\ Goto(w, "cas", "reset")
          /\ state' = "half_open"
          /\ probes' = 0
       \/ /\ state # "open"
          /\ Goto(w, "cas", "recheck")
          /\ UNCHANGED <<state, probes>>
    /\ UNCHANGED <<now, openedAt, halfSuccess, ring, local, sent, overlap, since>>

\* Mutant of AllowReset: the probe counter of the previous period is kept.
AllowResetSkipped(w) ==
    /\ Goto(w, "reset", "recheck")
    /\ UNCHANGED <<now, atomics, ring, local, sent, history>>

\* The winner of the CAS clears the probe counter, one step later.
AllowReset(w) ==
    /\ Goto(w, "reset", "recheck")
    /\ halfSuccess' = 0
    /\ UNCHANGED <<now, state, openedAt, ring, local, sent, history>>

\* return cb.State() == StateHalfOpen
AllowRecheck(w) ==
    /\ Goto(w, "recheck", IF state = "half_open" THEN "submit" ELSE "idle")
    /\ UNCHANGED <<now, atomics, ring, local, sent, history>>

(***************************************************************************)
(* Driver.Submit and the classification in dispatch: success or an         *)
(* expected negative-path failure is reported as TRUE, anything else FALSE.*)
(***************************************************************************)
Submit(w) ==
    /\ Goto(w, "submit", "record")
    /\ \E ok \in BOOLEAN : result' = [result EXCEPT ![w] = ok]
    /\ UNCHANGED <<now, atomics, ring, at, hot, sent, history>>

(***************************************************************************)
(* Record                                                                  *)
(***************************************************************************)
RecordNow(w) ==
    /\ Goto(w, "record", "tally")
    /\ at' = [at EXCEPT ![w] = now]
    /\ UNCHANGED <<now, atomics, ring, result, hot, sent, history>>

\* The critical section: touchBucket, then tally.
RecordTally(w) ==
    /\ Goto(w, "tally", "branch")
    /\ buckets' = touchBucket(buckets, at[w], result[w])
    /\ log' = [log EXCEPT ![at[w]] = Bump(@, result[w])]
    /\ hot' = [hot EXCEPT ![w] = RateExceeded(buckets', at[w])]
    /\ UNCHANGED <<now, atomics, result, at, sent, history>>

\* Record loads the state once and decides on that value.
RecordBranch(w) ==
    /\ Goto(w, "branch",
            CASE state = "half_open" /\ result[w]  -> "probe"
              [] state = "half_open" /\ ~result[w] -> "stamp"
              [] state = "closed" /\ hot[w]        -> "stamp"
              [] OTHER                             -> "idle")
    /\ UNCHANGED <<now, atomics, ring, local, sent, history>>

\* halfSuccess.Add(1)
RecordProbe(w) ==
    /\ Goto(w, "probe", IF halfSuccess + 1 >= HalfOpenProbes THEN "close" ELSE "idle")
    /\ halfSuccess' = halfSuccess + 1
    /\ probes' = probes + 1
    /\ UNCHANGED <<now, state, openedAt, ring, local, sent, overlap, since>>

\* CompareAndSwap(half_open, closed)
RecordClose(w) ==
    /\ \/ /\ state = "half_open"
          /\ Goto(w, "close", "clear")
          /\ state' = "closed"
       \/ /\ state # "half_open"
          /\ Goto(w, "close", "idle")
          /\ UNCHANGED state
    /\ UNCHANGED <<now, openedAt, halfSuccess, ring, local, sent, history>>

\* The history is reset in a critical section of its own.
RecordClear(w) ==
    /\ Goto(w, "clear", "idle")
    /\ buckets' = EmptyRing
    /\ log' = [t \in Times |-> NoCount]
    /\ UNCHANGED <<now, atomics, local, sent, history>>

\* Mutant of RecordStamp: the end of the open period is stored.
RecordStampDeadline(w) ==
    /\ Goto(w, "stamp", "open")
    /\ openedAt' = at[w] + OpenDuration
    /\ UNCHANGED <<now, state, halfSuccess, ring, local, sent, history>>

\* openedAt.Store(now), with the now Record started with
RecordStamp(w) ==
    /\ Goto(w, "stamp", "open")
    /\ openedAt' = at[w]
    /\ UNCHANGED <<now, state, halfSuccess, ring, local, sent, history>>

\* state.Store(open), whatever the state is by then
RecordOpen(w) ==
    /\ Goto(w, "open", "idle")
    /\ state' = "open"
    /\ since' = IF state = "open" THEN since ELSE at[w]
    /\ UNCHANGED <<now, openedAt, halfSuccess, ring, local, sent, overlap, probes>>

\* Mutant of RecordTrip: the breaker is open before it is stamped.
RecordTripSwapped(w) ==
    \/ /\ Goto(w, "stamp", "open")
       /\ state' = "open"
       /\ since' = IF state = "open" THEN since ELSE at[w]
       /\ UNCHANGED <<now, openedAt, halfSuccess, ring, local, sent, overlap, probes>>
    \/ /\ Goto(w, "open", "idle")
       /\ openedAt' = at[w]
       /\ UNCHANGED <<now, state, halfSuccess, ring, local, sent, history>>

\* Record's two stores when it trips or reopens the breaker, in this order.
RecordTrip(w) == RecordStamp(w) \/ RecordOpen(w)

\* One second passes; no Record is under way for longer than MaxSkew.
Recording == {"tally", "branch", "stamp", "open"}

Tick ==
    /\ now < MaxTime
    /\ \A w \in Workers : pc[w] \in Recording => now - at[w] < MaxSkew
    /\ now' = now + 1
    /\ UNCHANGED <<atomics, ring, pc, local, sent, history>>

WorkerStep(w) ==
    \/ AllowLoad(w) \/ AllowTimer(w) \/ AllowCAS(w) \/ AllowReset(w)
    \/ AllowRecheck(w) \/ Submit(w) \/ RecordNow(w) \/ RecordTally(w)
    \/ RecordBranch(w) \/ RecordProbe(w) \/ RecordClose(w) \/ RecordClear(w)
    \/ RecordTrip(w)

Next == Tick \/ \E w \in Workers : WorkerStep(w)

Spec == Init /\ [][Next]_vars

-----------------------------------------------------------------------------
(* Properties. *)

\* The ring never loses and never keeps too long: what tally adds up at the
\* present second is exactly the outcomes recorded in the last Window seconds
\* since the breaker last closed (touchBucket, tally), although the ring
\* reuses its slots and workers arrive with a time taken before the lock.
RollingWindow ==
    /\ tallySucc(buckets, now) = LoggedSucc(log, now)
    /\ tallyFail(buckets, now) = LoggedFail(log, now)

\* As long as no two calls have overlapped, a half-open breaker closes only after
\* HalfOpenProbes successes of this half-open period (Allow clears halfSuccess,
\* Record counts).
ClosesAfterProbes ==
    [][~overlap /\ state = "half_open" /\ state' = "closed"
         => probes >= HalfOpenProbes]_vars

\* However Allow and Record interleave, Allow's timer lets a worker past an open
\* breaker only OpenDuration after the Record that opened it read the clock,
\* less MaxSkew, the time a slower Record may take before it stamps openedAt
\* with an older reading (the breaker is stamped before it is seen open).
StaysOpen ==
    [][\A w \in Workers : state = "open" /\ pc[w] = "timer" /\ pc'[w] = "cas"
         => now - since >= OpenDuration - MaxSkew]_vars
=============================================================================
