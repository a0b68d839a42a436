---------------------------- MODULE Backpressure ----------------------------
(***************************************************************************)
(* The backpressure controller of internal/driver/backpressure.go.  The    *)
(* pool's workers report outcomes to Record; the generator multiplies its  *)
(* TPS by Multiplier.  active, multiplier and belowSince are separate      *)
(* atomics, so one action is one load or store (the ring is under mu).     *)
(***************************************************************************)
EXTENDS Integers, RollingCounter

CONSTANT RecoverDelay   \* seconds below the threshold before release

ASSUME BackpressureAssumption ==
    /\ RecoverDelay \in Nat \ {0}
    /\ MinSamples \in Nat \ {0}
    /\ ErrNum \in Nat \ {0} /\ ErrDen \in Nat \ {0}
    /\ MaxTime \in Nat \ {0} /\ MaxEvents \in Nat

VARIABLES
    active,      \* bp.active
    multiplier,  \* bp.multiplier: "normal" is 1.0, "slow" is SlowMultiplier
    belowSince,  \* bp.belowSince, 0 when the rate is not below
    lastHot      \* history: time of the last Record that found the rate high

shared       == <<active, multiplier, belowSince>>
throttleVars == <<now, shared, buckets, pc, at, sent, lastHot, overlap>>

ThrottlePCs == {"idle", "tally", "hot", "engage?", "engage", "slow",
                "below", "since", "release?", "first", "release", "normal"}

ThrottleTypeOK ==
    /\ now \in 1 .. MaxTime
    /\ active \in BOOLEAN
    /\ multiplier \in {"normal", "slow"}
    /\ belowSince \in 0 .. MaxTime
    /\ buckets \in [Slots -> Bucket]
    /\ pc \in [Workers -> ThrottlePCs]
    /\ at \in [Workers -> 0 .. MaxTime]
    /\ sent \in 0 .. MaxEvents
    /\ lastHot \in 0 .. MaxTime
    /\ overlap \in BOOLEAN

-----------------------------------------------------------------------------
Total(b, t) == tallySucc(b, t) + tallyFail(b, t)
Enough(b, t) == Total(b, t) >= MinSamples
High(b, t) == tallyFail(b, t) * ErrDen >= Total(b, t) * ErrNum

ThrottleInit ==
    /\ now = 1
    /\ active = FALSE
    /\ multiplier = "normal"
    /\ belowSince = 0
    /\ buckets = EmptyRing
    /\ pc = [w \in Workers |-> "idle"]
    /\ at = [w \in Workers |-> 0]
    /\ sent = 0
    /\ lastHot = 0
    /\ overlap = FALSE

\* Record takes its time before it locks.
ReportNow(w) ==
    /\ sent < MaxEvents
    /\ sent' = sent + 1
    /\ Goto(w, "idle", "tally")
    /\ at' = [at EXCEPT ![w] = now]
    /\ overlap' = (overlap \/ \E v \in Workers : pc[v] # "idle")
    /\ UNCHANGED <<now, shared, buckets, lastHot>>

\* The critical section, and the decision on the tally it returns.
ReportTally(w, ok) ==
    LET b == touchBucket(buckets, at[w], ok)
    IN  /\ Goto(w, "tally", CASE ~Enough(b, at[w])                   -> "idle"
                              [] Enough(b, at[w]) /\ High(b, at[w])  -> "hot"
                              [] Enough(b, at[w]) /\ ~High(b, at[w]) -> "below")
        /\ buckets' = b
        /\ UNCHANGED <<now, shared, at, sent, lastHot, overlap>>

(* The rate is at or above the threshold. *)

\* Mutant of ClearBelow: belowSince survives the relapse.
ClearBelowSkipped(w) ==
    /\ Goto(w, "hot", "engage?")
    /\ lastHot' = at[w]
    /\ UNCHANGED <<now, shared, buckets, at, sent, overlap>>

ClearBelow(w) ==
    /\ Goto(w, "hot", "engage?")
    /\ belowSince' = 0
    /\ lastHot' = at[w]
    /\ UNCHANGED <<now, active, multiplier, buckets, at, sent, overlap>>

EngageLoad(w) ==
    /\ Goto(w, "engage?", IF active THEN "idle" ELSE "engage")
    /\ UNCHANGED <<now, shared, buckets, at, sent, lastHot, overlap>>

Engage(w) ==
    /\ Goto(w, "engage", "slow")
    /\ active' = TRUE
    /\ UNCHANGED <<now, multiplier, belowSince, buckets, at, sent, lastHot, overlap>>

SetSlow(w) ==
    /\ Goto(w, "slow", "idle")
    /\ multiplier' = "slow"
    /\ UNCHANGED <<now, active, belowSince, buckets, at, sent, lastHot, overlap>>

(* The rate is below the threshold. *)

BelowLoad(w) ==
    /\ Goto(w, "below", IF belowSince = 0 THEN "since" ELSE "release?")
    /\ UNCHANGED <<now, shared, buckets, at, sent, lastHot, overlap>>

BelowStore(w) ==
    /\ Goto(w, "since", "release?")
    /\ belowSince' = at[w]
    /\ UNCHANGED <<now, active, multiplier, buckets, at, sent, lastHot, overlap>>

ReleaseLoad(w) ==
    /\ Goto(w, "release?", IF active THEN "first" ELSE "idle")
    /\ UNCHANGED <<now, shared, buckets, at, sent, lastHot, overlap>>

ReleaseCheck(w) ==
    /\ Goto(w, "first", IF belowSince > 0 /\ at[w] - belowSince >= RecoverDelay
                        THEN "release" ELSE "idle")
    /\ UNCHANGED <<now, shared, buckets, at, sent, lastHot, overlap>>

\* Mutant of Release: the controller returns before it resets the multiplier.
ReleaseOnly(w) ==
    /\ Goto(w, "release", "idle")
    /\ active' = FALSE
    /\ UNCHANGED <<now, multiplier, belowSince, buckets, at, sent, lastHot, overlap>>

Release(w) ==
    /\ Goto(w, "release", "normal")
    /\ active' = FALSE
    /\ UNCHANGED <<now, multiplier, belowSince, buckets, at, sent, lastHot, overlap>>

SetNormal(w) ==
    /\ Goto(w, "normal", "idle")
    /\ multiplier' = "normal"
    /\ UNCHANGED <<now, active, belowSince, buckets, at, sent, lastHot, overlap>>

ThrottleTick ==
    /\ now < MaxTime
    /\ now' = now + 1
    /\ UNCHANGED <<shared, buckets, pc, at, sent, lastHot, overlap>>

ThrottleStep(w) ==
    \/ ReportNow(w) \/ \E ok \in BOOLEAN : ReportTally(w, ok)
    \/ ClearBelow(w) \/ EngageLoad(w) \/ Engage(w) \/ SetSlow(w)
    \/ BelowLoad(w) \/ BelowStore(w) \/ ReleaseLoad(w) \/ ReleaseCheck(w)
    \/ Release(w) \/ SetNormal(w)

ThrottleNext == ThrottleTick \/ \E w \in Workers : ThrottleStep(w)

ThrottleSpec == ThrottleInit /\ [][ThrottleNext]_throttleVars

-----------------------------------------------------------------------------
Quiet == \A w \in Workers : pc[w] = "idle"

\* When no Record is under way, Active and Multiplier tell the same story: the
\* controller is throttling exactly when the multiplier is below 1.0.
ThrottleConsistent == Quiet => (active <=> multiplier = "slow")

\* As long as no two Records have overlapped, Active and Multiplier agree
\* whenever the controller is at rest.
ThrottleConsistentAlone == ~overlap => ThrottleConsistent

\* The state of the controller is well formed, and Active and Multiplier agree
\* at rest as long as no two Records have overlapped.
ThrottleSound == ThrottleTypeOK /\ ThrottleConsistentAlone

\* As long as no two Records have overlapped, throttling is released only by one
\* that comes RecoverDelay after the last that found the rate high.
ReleasesAfterDelay ==
    [][active /\ ~active' /\ ~overlap =>
         \E w \in Workers : pc[w] = "release" /\ at[w] - lastHot >= RecoverDelay]_throttleVars
=============================================================================
