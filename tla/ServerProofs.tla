---------------------------- MODULE ServerProofs ----------------------------
(***************************************************************************)
(* The safety properties of Server for every finite set of runs, whichever *)
(* of them are flaky, hang or are cancelled.                               *)
(*                                                                         *)
(* The WaitGroup is a number; what it means is that it counts the runs an  *)
(* observer is busy with.  The rest of the invariant is about one run at a *)
(* time: who may still write its row, and what an interrupt implies.       *)
(***************************************************************************)
EXTENDS Server, FiniteSetTheorems, TLAPS

Observing == {r \in Runs : obs[r] \in Active}

\* The trigger handler has the row until it hands it to the observer.
OneWriter(r) ==
    /\ trig[r] \in {"none", "spawn"} => proc[r] = "none"
    /\ trig[r] = "error" => proc[r] \in {"none", "failed", "killed"}
    /\ obs[r] # "none" => trig[r] = "accepted"
    /\ row[r] \in Final => trig[r] = "error" \/ obs[r] = "done"

\* How far the observer is, against the worker and the row.
ObserverSees(r) ==
    /\ obs[r] \in {"classify", "final", "done"} => proc[r] \in Dead
    /\ obs[r] \in {"final", "done"} => verdict[r] \in Final
    /\ obs[r] = "done" => row[r] \in Final \/ r \in unwritten

\* The flag is up before the interrupt is sent.
FlagFirst(r) ==
    /\ cancel[r] = "stored" => flag[r]
    /\ sig[r] => flag[r]
    /\ proc[r] = "stopped" => sig[r]
    /\ obs[r] = "final" /\ proc[r] = "stopped" => verdict[r] = "cancelled"
    /\ row[r] \in Final /\ proc[r] = "stopped" => row[r] = "cancelled"

\* A run that was observed when shutdown began still is, or its observer is done.
Drained(r) ==
    r \in watched => /\ phase # "serving"
                     /\ obs[r] \in Active \cup {"done"}
                     /\ phase \in {"closing", "exited"} => obs[r] = "done"

IInv ==
    /\ TypeOK
    /\ wg = Cardinality(Observing)
    /\ \A r \in Runs : OneWriter(r) /\ ObserverSees(r) /\ FlagFirst(r) /\ Drained(r)

-----------------------------------------------------------------------------
\* One-step facts about the set the WaitGroup counts.
LEMMA ObservingFinite ==
    ASSUME TypeOK
    PROVE  IsFiniteSet(Observing) /\ Cardinality(Observing) \in Nat
<1>1. Observing \subseteq Runs
  BY DEF Observing
<1> QED
  BY <1>1, ServerAssumption, FS_Subset, FS_CardinalityType

\* A new observer adds one.
LEMMA ObservingGrows ==
    ASSUME TypeOK, NEW r \in Runs, obs[r] = "none",
           obs' = [obs EXCEPT ![r] = "running"]
    PROVE  Cardinality(Observing') = Cardinality(Observing) + 1
<1>1. Observing' = Observing \cup {r} /\ r \notin Observing
  BY DEF TypeOK, Observing, Active
<1> QED
  BY <1>1, ObservingFinite, FS_AddElement

\* An observer that is done takes one away, and there was one to take.
LEMMA ObservingShrinks ==
    ASSUME TypeOK, NEW r \in Runs, obs[r] = "final",
           obs' = [obs EXCEPT ![r] = "done"]
    PROVE  /\ Cardinality(Observing') = Cardinality(Observing) - 1
           /\ Cardinality(Observing') \in Nat
<1>1. Observing' = Observing \ {r} /\ r \in Observing
  BY DEF TypeOK, Observing, Active
<1>2. IsFiniteSet(Observing')
  BY <1>1, ObservingFinite, FS_RemoveElement
<1> QED
  BY <1>1, <1>2, ObservingFinite, FS_RemoveElement, FS_CardinalityType

\* Nobody is left when the WaitGroup is at zero.
LEMMA ObservingNobody ==
    ASSUME IInv, wg = 0
    PROVE  \A r \in Runs : obs[r] \notin Active
<1>1. Observing = {}
  BY ObservingFinite, FS_EmptySet DEF IInv
<1> QED
  BY <1>1 DEF Observing

-----------------------------------------------------------------------------
LEMMA InitEstablishes == Init => IInv
<1> SUFFICES ASSUME Init
             PROVE  IInv
  OBVIOUS
<1>1. TypeOK
  BY DEF Init, TypeOK
<1>2. Observing = {}
  BY DEF Init, Observing, Active
<1>3. wg = Cardinality(Observing)
  BY <1>2, FS_EmptySet DEF Init
<1>4. \A r \in Runs : OneWriter(r) /\ ObserverSees(r) /\ FlagFirst(r) /\ Drained(r)
  BY DEF Init, OneWriter, ObserverSees, FlagFirst, Drained, Final
<1> QED
  BY <1>1, <1>3, <1>4 DEF IInv

LEMMA NextPreserves == IInv /\ [Next]_vars => IInv'
<1> SUFFICES ASSUME IInv, [Next]_vars
             PROVE  IInv'
  OBVIOUS
<1> USE DEF handlers, observer, shutdown, index, worker, Final, Dead, Active
<1> DEFINE Parts == \A s \in Runs : OneWriter(s) /\ ObserverSees(s) /\ FlagFirst(s) /\ Drained(s)
<1>0. TypeOK /\ Parts /\ wg = Cardinality(Observing)
  BY DEF IInv
<1>1. ASSUME NEW r \in Runs, TriggerInsert(r) PROVE IInv'
  <2>1. TypeOK'
    BY <1>0, <1>1 DEF TypeOK, TriggerInsert, At, Up
  <2>2. Parts'
    BY <1>0, <1>1 DEF TypeOK, TriggerInsert, At, Up, OneWriter, ObserverSees, FlagFirst, Drained
  <2>3. Observing' = Observing /\ wg' = wg
    BY <1>0, <1>1 DEF TypeOK, TriggerInsert, Observing
  <2> QED
    BY <1>0, <2>1, <2>2, <2>3 DEF IInv
<1>2. ASSUME NEW r \in Runs, TriggerSpawn(r) PROVE IInv'
  <2>1. TypeOK'
    BY <1>0, <1>2 DEF TypeOK, TriggerSpawn, At, Up
  <2>2. Parts'
    BY <1>0, <1>2 DEF TypeOK, TriggerSpawn, At, Up, OneWriter, ObserverSees, FlagFirst, Drained
  <2>3. Observing' = Observing /\ wg' = wg
    BY <1>0, <1>2 DEF TypeOK, TriggerSpawn, Observing
  <2> QED
    BY <1>0, <2>1, <2>2, <2>3 DEF IInv
<1>3. ASSUME NEW r \in Runs, TriggerSpawnFails(r) PROVE IInv'
  <2>1. TypeOK'
    BY <1>0, <1>3 DEF TypeOK, TriggerSpawnFails, At, Up, Update
  <2>2. Parts'
    BY <1>0, <1>3 DEF TypeOK, TriggerSpawnFails, At, Up, Update, OneWriter, ObserverSees, FlagFirst, Drained
  <2>3. Observing' = Observing /\ wg' = wg
    BY <1>0, <1>3 DEF TypeOK, TriggerSpawnFails, Observing
  <2> QED
    BY <1>0, <2>1, <2>2, <2>3 DEF IInv
<1>4. ASSUME NEW r \in Runs, TriggerStartupFails(r) PROVE IInv'
  <2>1. TypeOK'
    BY <1>0, <1>4 DEF TypeOK, TriggerStartupFails, At, Up, Update
  <2>2. Parts'
    BY <1>0, <1>4 DEF TypeOK, TriggerStartupFails, At, Up, Update, OneWriter, ObserverSees, FlagFirst, Drained
  <2>3. Observing' = Observing /\ wg' = wg
    BY <1>0, <1>4 DEF TypeOK, TriggerStartupFails, Observing
  <2> QED
    BY <1>0, <2>1, <2>2, <2>3 DEF IInv
<1>5. ASSUME NEW r \in Runs, TriggerGraceOver(r) PROVE IInv'
  <2>1. TypeOK'
    BY <1>0, <1>5 DEF TypeOK, TriggerGraceOver, At, Up
  <2>2. Parts'
    BY <1>0, <1>5 DEF TypeOK, TriggerGraceOver, At, Up, OneWriter, ObserverSees, FlagFirst, Drained
  <2>3. Observing' = Observing /\ wg' = wg
    BY <1>0, <1>5 DEF TypeOK, TriggerGraceOver, Observing
  <2> QED
    BY <1>0, <2>1, <2>2, <2>3 DEF IInv
<1>6. ASSUME NEW r \in Runs, TriggerRegister(r) PROVE IInv'
  <2>1. TypeOK'
    BY <1>0, <1>6 DEF TypeOK, TriggerRegister, At, Up
  <2>2. Parts'
    BY <1>0, <1>6 DEF TypeOK, TriggerRegister, At, Up, OneWriter, ObserverSees, FlagFirst, Drained
  <2>3. Observing' = Observing /\ wg' = wg
    BY <1>0, <1>6 DEF TypeOK, TriggerRegister, Observing
  <2> QED
    BY <1>0, <2>1, <2>2, <2>3 DEF IInv
<1>7. ASSUME NEW r \in Runs, CancelLookup(r) PROVE IInv'
  <2>1. TypeOK'
    BY <1>0, <1>7 DEF TypeOK, CancelLookup
  <2>2. Parts'
    BY <1>0, <1>7 DEF TypeOK, CancelLookup, OneWriter, ObserverSees, FlagFirst, Drained
  <2>3. Observing' = Observing /\ wg' = wg
    BY <1>0, <1>7 DEF TypeOK, CancelLookup, Observing
  <2> QED
    BY <1>0, <2>1, <2>2, <2>3 DEF IInv
<1>8. ASSUME NEW r \in Runs, CancelStore(r) PROVE IInv'
  <2>1. TypeOK'
    BY <1>0, <1>8 DEF TypeOK, CancelStore
  <2>2. Parts'
    BY <1>0, <1>8 DEF TypeOK, CancelStore, OneWriter, ObserverSees, FlagFirst, Drained
  <2>3. Observing' = Observing /\ wg' = wg
    BY <1>0, <1>8 DEF TypeOK, CancelStore, Observing
  <2> QED
    BY <1>0, <2>1, <2>2, <2>3 DEF IInv
<1>9. ASSUME NEW r \in Runs, CancelSignal(r) PROVE IInv'
  <2>1. TypeOK'
    BY <1>0, <1>9 DEF TypeOK, CancelSignal
  <2>2. Parts'
    BY <1>0, <1>9 DEF TypeOK, CancelSignal, OneWriter, ObserverSees, FlagFirst, Drained
  <2>3. Observing' = Observing /\ wg' = wg
    BY <1>0, <1>9 DEF TypeOK, CancelSignal, Observing
  <2> QED
    BY <1>0, <2>1, <2>2, <2>3 DEF IInv
<1>10. ASSUME NEW r \in Runs, ObserveRunning(r) PROVE IInv'
  <2>1. TypeOK'
    BY <1>0, <1>10 DEF TypeOK, ObserveRunning, Update
  <2>2. Parts'
    BY <1>0, <1>10 DEF TypeOK, ObserveRunning, Update, OneWriter, ObserverSees, FlagFirst, Drained
  <2>3. Observing' = Observing /\ wg' = wg
    BY <1>0, <1>10 DEF TypeOK, ObserveRunning, Observing
  <2> QED
    BY <1>0, <2>1, <2>2, <2>3 DEF IInv
<1>11. ASSUME NEW r \in Runs, ObserveExit(r) PROVE IInv'
  <2>1. TypeOK'
    BY <1>0, <1>11 DEF TypeOK, ObserveExit
  <2>2. Parts'
    BY <1>0, <1>11 DEF TypeOK, ObserveExit, OneWriter, ObserverSees, FlagFirst, Drained
  <2>3. Observing' = Observing /\ wg' = wg
    BY <1>0, <1>11 DEF TypeOK, ObserveExit, Observing
  <2> QED
    BY <1>0, <2>1, <2>2, <2>3 DEF IInv
<1>12. ASSUME NEW r \in Runs, ObserveClassify(r) PROVE IInv'
  <2>1. TypeOK'
    BY <1>0, <1>12 DEF TypeOK, ObserveClassify
  <2>2. Parts'
    BY <1>0, <1>12 DEF TypeOK, ObserveClassify, OneWriter, ObserverSees, FlagFirst, Drained
  <2>3. Observing' = Observing /\ wg' = wg
    BY <1>0, <1>12 DEF TypeOK, ObserveClassify, Observing
  <2> QED
    BY <1>0, <2>1, <2>2, <2>3 DEF IInv
<1>13. ASSUME NEW r \in Runs, MarkVictim(r) PROVE IInv'
  <2>1. TypeOK'
    BY <1>0, <1>13 DEF TypeOK, MarkVictim
  <2>2. Parts'
    BY <1>0, <1>13 DEF TypeOK, MarkVictim, OneWriter, ObserverSees, FlagFirst, Drained
  <2>3. Observing' = Observing /\ wg' = wg
    BY <1>0, <1>13 DEF TypeOK, MarkVictim, Observing
  <2> QED
    BY <1>0, <2>1, <2>2, <2>3 DEF IInv
<1>14. ASSUME NEW r \in Runs, KillVictim(r) PROVE IInv'
  <2>1. TypeOK'
    BY <1>0, <1>14 DEF TypeOK, KillVictim
  <2>2. Parts'
    BY <1>0, <1>14 DEF TypeOK, KillVictim, OneWriter, ObserverSees, FlagFirst, Drained
  <2>3. Observing' = Observing /\ wg' = wg
    BY <1>0, <1>14 DEF TypeOK, KillVictim, Observing
  <2> QED
    BY <1>0, <2>1, <2>2, <2>3 DEF IInv
<1>15. ASSUME NEW r \in Runs, ProcExits(r) PROVE IInv'
  <2>1. TypeOK'
    BY <1>0, <1>15 DEF TypeOK, ProcExits
  <2>2. Parts'
    BY <1>0, <1>15 DEF TypeOK, ProcExits, OneWriter, ObserverSees, FlagFirst, Drained
  <2>3. Observing' = Observing /\ wg' = wg
    BY <1>0, <1>15 DEF TypeOK, ProcExits, Observing
  <2> QED
    BY <1>0, <2>1, <2>2, <2>3 DEF IInv
<1>16. ASSUME NEW r \in Runs, ProcHangs(r) PROVE IInv'
  <2>1. TypeOK'
    BY <1>0, <1>16 DEF TypeOK, ProcHangs
  <2>2. Parts'
    BY <1>0, <1>16 DEF TypeOK, ProcHangs, OneWriter, ObserverSees, FlagFirst, Drained
  <2>3. Observing' = Observing /\ wg' = wg
    BY <1>0, <1>16 DEF TypeOK, ProcHangs, Observing
  <2> QED
    BY <1>0, <2>1, <2>2, <2>3 DEF IInv
<1>17. ASSUME NEW r \in Runs, TriggerObserve(r) PROVE IInv'
  <2>1. obs[r] = "none"
    BY <1>0, <1>17 DEF TypeOK, TriggerObserve, At, Up, OneWriter
  <2>2. wg' = Cardinality(Observing)' /\ wg' \in Nat
    <3>1. obs' = [obs EXCEPT ![r] = "running"] /\ wg' = wg + 1
      BY <1>17 DEF TriggerObserve
    <3>2. Cardinality(Observing') = Cardinality(Observing) + 1
      BY <1>0, <2>1, <3>1, ObservingGrows
    <3>3. Cardinality(Observing) \in Nat
      BY <1>0, ObservingFinite
    <3> QED
      BY <1>0, <3>1, <3>2, <3>3
  <2>3. TypeOK'
    BY <1>0, <1>17, <2>2 DEF TypeOK, TriggerObserve, At, Up
  <2>4. Parts'
    BY <1>0, <1>17, <2>1 DEF TypeOK, TriggerObserve, At, Up, OneWriter, ObserverSees, FlagFirst, Drained
  <2> QED
    BY <2>2, <2>3, <2>4 DEF IInv
<1>18. ASSUME NEW r \in Runs, ObserveFinal(r) PROVE IInv'
  <2>1. obs[r] = "final"
    BY <1>0, <1>18 DEF TypeOK, ObserveFinal, Update, OneWriter
  <2>2. wg' = Cardinality(Observing)' /\ wg' \in Nat
    BY <1>0, <1>18, <2>1, ObservingShrinks, ObservingFinite DEF ObserveFinal
  <2>3. TypeOK'
    BY <1>0, <1>18, <2>2 DEF TypeOK, ObserveFinal, Update
  <2>4. Parts'
    BY <1>0, <1>18, <2>1 DEF TypeOK, ObserveFinal, Update, OneWriter, ObserverSees, FlagFirst, Drained
  <2> QED
    BY <2>2, <2>3, <2>4 DEF IInv
<1>19. ASSUME ServeFails PROVE IInv'
  <2>1. TypeOK'
    BY <1>0, <1>19 DEF TypeOK, ServeFails
  <2>2. Parts'
    BY <1>0, <1>19 DEF TypeOK, ServeFails, OneWriter, ObserverSees, FlagFirst, Drained
  <2>3. Observing' = Observing /\ wg' = wg
    BY <1>0, <1>19 DEF TypeOK, ServeFails, Observing
  <2> QED
    BY <1>0, <2>1, <2>2, <2>3 DEF IInv
<1>20. ASSUME ShutdownStart PROVE IInv'
  <2>1. TypeOK'
    BY <1>0, <1>20 DEF TypeOK, ShutdownStart
  <2>2. Parts'
    BY <1>0, <1>20 DEF TypeOK, ShutdownStart, OneWriter, ObserverSees, FlagFirst, Drained
  <2>3. Observing' = Observing /\ wg' = wg
    BY <1>0, <1>20 DEF TypeOK, ShutdownStart, Observing
  <2> QED
    BY <1>0, <2>1, <2>2, <2>3 DEF IInv
<1>21. ASSUME WaitObservers PROVE IInv'
  <2>1. TypeOK'
    BY <1>0, <1>21 DEF TypeOK, WaitObservers
  <2>2. Parts'
    BY <1>0, <1>21, ObservingNobody DEF TypeOK, WaitObservers, OneWriter, ObserverSees, FlagFirst, Drained
  <2>3. Observing' = Observing /\ wg' = wg
    BY <1>0, <1>21 DEF TypeOK, WaitObservers, Observing
  <2> QED
    BY <1>0, <2>1, <2>2, <2>3 DEF IInv
<1>22. ASSUME Exit PROVE IInv'
  <2>1. TypeOK'
    BY <1>0, <1>22 DEF TypeOK, Exit
  <2>2. Parts'
    BY <1>0, <1>22 DEF TypeOK, Exit, OneWriter, ObserverSees, FlagFirst, Drained
  <2>3. Observing' = Observing /\ wg' = wg
    BY <1>0, <1>22 DEF TypeOK, Exit, Observing
  <2> QED
    BY <1>0, <2>1, <2>2, <2>3 DEF IInv
<1>23. ASSUME UNCHANGED vars PROVE IInv'
  BY <1>0, <1>23 DEF IInv, vars, TypeOK, Observing, OneWriter, ObserverSees, FlagFirst, Drained
<1> QED
  BY <1>1, <1>2, <1>3, <1>4, <1>5, <1>6, <1>7, <1>8, <1>9, <1>10, <1>11, <1>12, <1>13, <1>14, <1>15, <1>16, <1>17, <1>18, <1>19, <1>20, <1>21, <1>22, <1>23 DEF Next, Trigger, Cancel, Observe

\* The invariant holds in every reachable state.
THEOREM ServerInvariant == Spec => []IInv
<1>1. Init => IInv
  BY InitEstablishes
<1>2. IInv /\ [Next]_vars => IInv'
  BY NextPreserves
<1> QED
  BY <1>1, <1>2, PTL DEF Spec

\* Every variable of the server keeps its type: in particular observeWG
\* never goes below zero, which would make its Done panic.
THEOREM TypeCorrect == Spec => []TypeOK
<1>1. IInv => TypeOK
  BY DEF IInv
<1> QED
  BY <1>1, ServerInvariant, PTL

\* For any number of runs: when Server.Start returns after a shutdown, every run
\* that was being observed is over and its row has a final status or was refused.
THEOREM ShutdownFlushes == Spec => []WatchedAreFlushed
<1>1. IInv => WatchedAreFlushed
  BY DEF IInv, TypeOK, Drained, ObserverSees, WatchedAreFlushed
<1> QED
  BY <1>1, ServerInvariant, PTL

\* A worker that handleCancelRun or cancelAllRuns stopped is recorded as cancelled,
\* however the request, the exit and the observer interleave.
THEOREM InterruptIsCancelled == Spec => []StoppedIsCancelled
<1>1. IInv => StoppedIsCancelled
  BY DEF IInv, FlagFirst, StoppedIsCancelled
<1> QED
  BY <1>1, ServerInvariant, PTL

\* No step of the trigger handler or of the observer overwrites a final status.
THEOREM FinalStaysFinal == Spec => FinalIsFinal
<1> DEFINE Keep == \A r \in Runs : row[r] \in Final => row'[r] = row[r]
<1>1. IInv /\ [Next]_vars => [Keep]_vars
  <2> SUFFICES ASSUME IInv, Next
               PROVE  Keep
    OBVIOUS
  <2> USE DEF Final
  <2>1. \A r \in Runs : row[r] \in Final => trig[r] = "error" \/ (trig[r] = "accepted" /\ obs[r] = "done")
    BY DEF IInv, OneWriter
  <2>2. ASSUME NEW s \in Runs, TriggerInsert(s) PROVE Keep
    BY <2>1, <2>2 DEF IInv, TypeOK, TriggerInsert, At
  <2>3. ASSUME NEW s \in Runs, TriggerSpawnFails(s) \/ TriggerStartupFails(s) PROVE Keep
    BY <2>1, <2>3 DEF IInv, TypeOK, TriggerSpawnFails, TriggerStartupFails, At, Update
  <2>4. ASSUME NEW s \in Runs, ObserveRunning(s) \/ ObserveFinal(s) PROVE Keep
    BY <2>1, <2>4 DEF IInv, TypeOK, OneWriter, ObserveRunning, ObserveFinal, Update
  <2>5. CASE UNCHANGED row
    BY <2>5
  <2>6. \/ UNCHANGED row
        \/ \E s \in Runs : \/ TriggerInsert(s) \/ TriggerSpawnFails(s) \/ TriggerStartupFails(s)
                           \/ ObserveRunning(s) \/ ObserveFinal(s)
    BY DEF Next, Trigger, Cancel, Observe, index, TriggerSpawn, TriggerGraceOver,
           TriggerRegister, TriggerObserve, CancelLookup, CancelStore, CancelSignal,
           ObserveExit, ObserveClassify, MarkVictim, KillVictim, ProcExits, ProcHangs,
           ServeFails, ShutdownStart, WaitObservers, Exit
  <2> QED
    BY <2>2, <2>3, <2>4, <2>5, <2>6
<1> QED
  BY <1>1, ServerInvariant, PTL DEF Spec, FinalIsFinal

=============================================================================
