-------------------------------- MODULE Chaos --------------------------------
(***************************************************************************)
(* The chaos scheduler (internal/chaos): the run engine ticks it, it fires *)
(* the faults that are due on the target, recovers those whose time is     *)
(* over, and Close recovers the rest.  Tick and Close hold one mutex; the  *)
(* context they are given can be cancelled between any two commands.  A    *)
(* command fails before it reaches the target or, its answer lost to the   *)
(* timeout of the executor, after it.                                      *)
(***************************************************************************)
EXTENDS Naturals, Sequences, FiniteSets

CONSTANTS
    Plans,     \* event lists to run: sequences of [type, place, at, dur]
    Jitter,    \* JitterTolerance
    MaxClock   \* bound: the clock stops here

VARIABLES
    clock,     \* run time, in ticks
    chaosCtx,  \* the context of the run: live or done
    plan,      \* cfg.Events, sorted by At
    started,   \* Start was called
    closed,    \* Scheduler.closed
    pending,   \* Scheduler.pending: [state, startedAt, deadline] of each event
    outcomes,  \* the chaos timeline; of is the event, for the properties
    mu,        \* who holds the mutex, where it is in its loop, the time it read
    lastTick,  \* history: nowT of the last Tick that ran to its end, plus one; 0 if none
    faults,    \* the target: how many faults are in force at a place
    recovered, \* history: calls of the Recovery of each event
    unsure     \* history: events one of whose commands failed

chaosVars == <<clock, chaosCtx, plan, started, closed, pending, outcomes, mu, lastTick,
               faults, recovered, unsure>>

ChaosTypes == {"kafka_kill", "redis_flush", "ch_slowdown", "net_partition"}
Event == [type : ChaosTypes, place : STRING, at : Nat, dur : Nat]

\* A broker, an interface and a pair of hosts are different places.
ASSUME ChaosAssumption ==
    /\ \A p \in Plans : p \in Seq(Event)
    /\ \A p \in Plans : \A i, j \in 1..Len(p) : p[i].place = p[j].place => p[i].type = p[j].type
    /\ Jitter \in Nat /\ MaxClock \in Nat

Places == UNION {{p[i].place : i \in 1..Len(p)} : p \in Plans}
Idle == [by |-> "none", phase |-> "fire", i |-> 1, now |-> 0]
Waiting == [state |-> "waiting", startedAt |-> 0, deadline |-> 0]

-----------------------------------------------------------------------------
(* Construction and the clock.                                             *)

\* sort.Slice by At: events of the same moment keep no particular order.
Orders(p) == {[i \in 1..Len(p) |-> p[f[i]]] : f \in
                 {g \in [1..Len(p) -> 1..Len(p)] :
                    /\ \A i, j \in 1..Len(p) : i # j => g[i] # g[j]
                    /\ \A i, j \in 1..Len(p) : i < j => p[g[i]].at <= p[g[j]].at}}

NewScheduler ==
    /\ \E p \in Plans : plan \in Orders(p)
    /\ clock = 0 /\ chaosCtx = "live"
    /\ started = FALSE /\ closed = FALSE
    /\ pending = <<>> /\ outcomes = <<>>
    /\ mu = Idle /\ lastTick = 0
    /\ faults = [x \in Places |-> 0]
    /\ recovered = [i \in 1..Len(plan) |-> 0]
    /\ unsure = {}

Advance ==
    /\ clock < MaxClock
    /\ clock' = clock + 1
    /\ UNCHANGED <<chaosCtx, plan, started, closed, pending, outcomes, mu, lastTick, faults,
                   recovered, unsure>>

CancelRun ==
    /\ chaosCtx = "live"
    /\ chaosCtx' = "done"
    /\ UNCHANGED <<clock, plan, started, closed, pending, outcomes, mu, lastTick, faults,
                   recovered, unsure>>

Start ==
    /\ ~started /\ mu.by = "none"
    /\ started' = TRUE
    /\ pending' = [i \in 1..Len(plan) |-> Waiting]
    /\ UNCHANGED <<clock, chaosCtx, plan, closed, outcomes, mu, lastTick, faults, recovered,
                   unsure>>

-----------------------------------------------------------------------------
(* The target.                                                             *)

\* kafka is stopped or not, tc replaces the one qdisc of an interface, each
\* net_partition inserts a rule of its own, a flush leaves nothing behind.
Injected(e) ==
    CASE e.type = "net_partition" -> [faults EXCEPT ![e.place] = @ + 1]
      [] e.type = "redis_flush"   -> faults
      [] OTHER                    -> [faults EXCEPT ![e.place] = 1]

Undone(e) ==
    CASE e.type = "net_partition" -> [faults EXCEPT ![e.place] = IF @ > 0 THEN @ - 1 ELSE 0]
      [] e.type = "redis_flush"   -> faults
      [] OTHER                    -> [faults EXCEPT ![e.place] = 0]

\* ShellExecutor.Run: what it answers, and the target it leaves.
Run(after, ok, left) ==
    \/ chaosCtx = "live" /\ ok = TRUE /\ left = after
    \/ ok = FALSE /\ left = faults
    \/ chaosCtx = "live" /\ ok = FALSE /\ left = after

\* A flush has no recovery command.
RunRecovery(e, ok, left) == IF e.type = "redis_flush" THEN ok = TRUE /\ left = faults
                                                      ELSE Run(Undone(e), ok, left)

-----------------------------------------------------------------------------
(* fire, recover and the loops of Tick and Close.                          *)

Active(i) == pending[i].state = "active"
Holder == mu.i \in 1..Len(pending)
Due(i) == pending[i].state = "waiting" /\ mu.now + Jitter >= plan[i].at
Expired(i) == Active(i) /\ mu.now >= pending[i].deadline

NextIndex == mu' = [mu EXCEPT !.i = @ + 1]

Row(i, t, error) == [type |-> plan[i].type, startedAt |-> t, dur |-> plan[i].dur, of |-> i,
                     error |-> error, done |-> FALSE, recoveredAt |-> 0]

\* The latest open row of the type that started when this event did.
Patched(i, t) == {k \in 1..Len(outcomes) : /\ outcomes[k].type = plan[i].type
                                           /\ outcomes[k].startedAt = t
                                           /\ ~outcomes[k].done}

\* Mutant of recover: the event stays active.
recoverKeeps(i) ==
    /\ RunRecovery(plan[i], TRUE, faults')
    /\ recovered' = [recovered EXCEPT ![i] = @ + 1]
    /\ UNCHANGED <<unsure, outcomes, pending>>

recover(i) ==
    \E ok \in BOOLEAN :
        /\ RunRecovery(plan[i], ok, faults')
        /\ recovered' = [recovered EXCEPT ![i] = @ + 1]
        /\ unsure' = IF ok THEN unsure ELSE unsure \cup {i}
        /\ outcomes' =
              LET m == Patched(i, pending[i].startedAt) IN
              IF m = {} THEN outcomes
              ELSE [outcomes EXCEPT ![CHOOSE k \in m : \A l \in m : l <= k] =
                       [@ EXCEPT !.done = TRUE, !.recoveredAt = mu.now]]
        /\ pending' = [pending EXCEPT ![i].state = "out"]

\* A fault whose Inject failed is not recovered, whatever it left.
FireFails(i) ==
    /\ Run(Injected(plan[i]), FALSE, faults')
    /\ outcomes' = Append(outcomes, Row(i, mu.now, TRUE))
    /\ pending' = [pending EXCEPT ![i].state = "out"]
    /\ unsure' = unsure \cup {i}
    /\ NextIndex
    /\ UNCHANGED recovered

\* A fault of no duration is recovered before the loop goes on.
FireLands(i) ==
    /\ Run(Injected(plan[i]), TRUE, faults')
    /\ outcomes' = Append(outcomes, Row(i, mu.now, FALSE))
    /\ pending' = [pending EXCEPT ![i] = [state |-> "active", startedAt |-> mu.now,
                                          deadline |-> mu.now + plan[i].dur]]
    /\ IF plan[i].dur > 0 THEN NextIndex ELSE UNCHANGED mu
    /\ UNCHANGED <<recovered, unsure>>

fire(i) == FireFails(i) \/ FireLands(i)

TickStart ==
    /\ mu.by = "none" /\ started /\ ~closed
    /\ mu' = [Idle EXCEPT !.by = "tick", !.now = clock]
    /\ UNCHANGED <<clock, chaosCtx, plan, started, closed, pending, outcomes, lastTick, faults,
                   recovered, unsure>>

TickFire ==
    /\ mu.by = "tick" /\ mu.phase = "fire" /\ Holder
    /\ LET i == mu.i IN
       \/ Due(i) /\ fire(i)
       \/ Active(i) /\ plan[i].dur = 0 /\ recover(i) /\ NextIndex
       \/ ~Due(i) /\ ~(Active(i) /\ plan[i].dur = 0) /\ NextIndex
          /\ UNCHANGED <<pending, outcomes, faults, recovered, unsure>>
    /\ UNCHANGED <<clock, chaosCtx, plan, started, closed, lastTick>>

TickTurns ==
    /\ mu.by = "tick" /\ mu.phase = "fire" /\ ~Holder
    /\ mu' = [mu EXCEPT !.phase = "recover", !.i = 1]
    /\ UNCHANGED <<clock, chaosCtx, plan, started, closed, pending, outcomes, lastTick, faults,
                   recovered, unsure>>

TickRecover ==
    /\ mu.by = "tick" /\ mu.phase = "recover" /\ Holder
    /\ IF Expired(mu.i) THEN recover(mu.i)
                        ELSE UNCHANGED <<pending, outcomes, faults, recovered, unsure>>
    /\ NextIndex
    /\ UNCHANGED <<clock, chaosCtx, plan, started, closed, lastTick>>

TickEnds ==
    /\ mu.by = "tick" /\ mu.phase = "recover" /\ ~Holder
    /\ lastTick' = mu.now + 1
    /\ mu' = Idle
    /\ UNCHANGED <<clock, chaosCtx, plan, started, closed, pending, outcomes, faults, recovered,
                   unsure>>

Tick == TickStart \/ TickFire \/ TickTurns \/ TickRecover \/ TickEnds

CloseStart ==
    /\ mu.by = "none" /\ ~closed
    /\ closed' = TRUE
    /\ mu' = [Idle EXCEPT !.by = "close", !.now = clock]
    /\ UNCHANGED <<clock, chaosCtx, plan, started, pending, outcomes, lastTick, faults,
                   recovered, unsure>>

CloseRecover ==
    /\ mu.by = "close" /\ Holder
    /\ IF Active(mu.i) THEN recover(mu.i)
                       ELSE UNCHANGED <<pending, outcomes, faults, recovered, unsure>>
    /\ NextIndex
    /\ UNCHANGED <<clock, chaosCtx, plan, started, closed, lastTick>>

CloseEnds ==
    /\ mu.by = "close" /\ ~Holder
    /\ mu' = Idle
    /\ UNCHANGED <<clock, chaosCtx, plan, started, closed, pending, outcomes, lastTick, faults,
                   recovered, unsure>>

Close == CloseStart \/ CloseRecover \/ CloseEnds

ChaosNext == Advance \/ CancelRun \/ Start \/ Tick \/ Close

ChaosSpec == NewScheduler /\ [][ChaosNext]_chaosVars

-----------------------------------------------------------------------------
(* Properties.                                                             *)

ChaosTypeOK ==
    /\ clock \in 0..MaxClock /\ chaosCtx \in {"live", "done"}
    /\ started \in BOOLEAN /\ closed \in BOOLEAN
    /\ Len(pending) \in {0, Len(plan)}
    /\ \A i \in 1..Len(pending) : pending[i].state \in {"waiting", "active", "out"}
    /\ Len(outcomes) <= Len(plan)
    /\ faults \in [Places -> 0..Len(plan)]
    /\ unsure \subseteq 1..Len(plan)

\* Once Close has returned, a fault left on the target is one whose Inject or
\* Recovery failed: every other one was undone, whatever the order of the
\* ticks, the recoveries of overlapping faults and the end of the run.
NoFaultOutlivesRun ==
    closed /\ mu.by = "none" =>
        \A x \in Places : faults[x] > 0 => \E i \in unsure : plan[i].place = x

\* "The scheduler always calls Recovery exactly once per successful Inject":
\* never twice, and once by the time Close has returned.
RecoveryOnce ==
    /\ \A i \in DOMAIN recovered : recovered[i] <= 1
    /\ \A k \in 1..Len(outcomes) :
          recovered[outcomes[k].of] = (IF outcomes[k].error \/ Active(outcomes[k].of) THEN 0 ELSE 1)
    /\ closed /\ mu.by = "none" => \A i \in 1..Len(pending) : ~Active(i)

\* A Tick that has run to its end has missed nothing: what was due at the time
\* it read was fired, what had expired was recovered.
TickComplete ==
    mu.by = "none" /\ lastTick > 0 =>
        \A i \in 1..Len(pending) :
            /\ pending[i].state = "waiting" => plan[i].at > lastTick - 1 + Jitter
            /\ Active(i) => pending[i].deadline > lastTick - 1

\* The rule of a net_partition stays until its own recovery: the one of an
\* overlapping partition of the same pair removes one rule, not both.
PartitionsHold ==
    \A x \in Places :
        Cardinality({i \in 1..Len(pending) :
            Active(i) /\ plan[i].type = "net_partition" /\ plan[i].place = x}) <= faults[x]

\* Faults stay within their windows: each is recovered once, by the tick that
\* is due or by Close, none outlives the run unless its own command was lost,
\* and a recovery does not lift the partition of another event.
FaultsContained ==
    ChaosTypeOK /\ NoFaultOutlivesRun /\ RecoveryOnce /\ TickComplete /\ PartitionsHold
=============================================================================
