--------------------------- MODULE RollingCounter ---------------------------
(***************************************************************************)
(* The ring of one-second success/failure counters that the circuit        *)
(* breaker and the backpressure controller each keep (counterBucket,       *)
(* touchBucket and tally of internal/driver/circuit_breaker.go, repeated   *)
(* line for line in backpressure.go), the plain log of outcomes it stands  *)
(* for, and what else the two controllers declare alike.  Each controller  *)
(* has a ring, a clock and workers of its own: a specification is about    *)
(* one of them.                                                            *)
(***************************************************************************)
EXTENDS Integers, FiniteSetsExt

CONSTANTS
    Window,         \* seconds of lookback = number of buckets
    Workers,        \* goroutines of the pool
    MinSamples,     \* outcomes below which the rate is not looked at
    ErrNum, ErrDen, \* ErrorRateThreshold = ErrNum / ErrDen
    MaxTime,        \* bound: the clock stops here
    MaxEvents       \* bound: events a run dispatches

VARIABLES
    now,         \* the wall clock
    buckets,     \* the controller's ring, under its mu
    pc, at,      \* where each worker is, and Record's local now
    sent,        \* events dispatched so far (bounds the model)
    overlap      \* history: two calls have been under way at the same time

ASSUME WindowAssumption == Window \in Nat \ {0}

Slots     == 0 .. Window - 1
Count     == [succ : Nat, fail : Nat]
Bucket    == [tsec : Int, succ : Nat, fail : Nat]
NoCount   == [succ |-> 0, fail |-> 0]
Empty     == [tsec |-> -1, succ |-> 0, fail |-> 0]
EmptyRing == [i \in Slots |-> Empty]

Bump(c, ok) == IF ok THEN [c EXCEPT !.succ = @ + 1] ELSE [c EXCEPT !.fail = @ + 1]

Goto(w, from, to) == pc[w] = from /\ pc' = [pc EXCEPT ![w] = to]

\* Mutant of touchBucket: the slot keeps the counts of the second it held.
TouchBucketStale(b, t, ok) ==
    [b EXCEPT ![t % Window] = Bump([@ EXCEPT !.tsec = t], ok)]

\* A slot that still holds another second is cleared before it counts.
touchBucket(b, t, ok) ==
    [b EXCEPT ![t % Window] =
        Bump(IF @.tsec = t THEN @ ELSE [Empty EXCEPT !.tsec = t], ok)]

\* The slots tally adds up, and its two results.
Fresh(b, t)     == {i \in Slots : b[i].tsec >= 0 /\ b[i].tsec > t - Window}
tallySucc(b, t) == MapThenSumSet(LAMBDA i : b[i].succ, Fresh(b, t))
tallyFail(b, t) == MapThenSumSet(LAMBDA i : b[i].fail, Fresh(b, t))

\* The reference: a log with one counter per second, summed over the window.
LoggedSucc(log, t) ==
    MapThenSumSet(LAMBDA s : log[s].succ, {s \in DOMAIN log : s > t - Window})
LoggedFail(log, t) ==
    MapThenSumSet(LAMBDA s : log[s].fail, {s \in DOMAIN log : s > t - Window})
=============================================================================
