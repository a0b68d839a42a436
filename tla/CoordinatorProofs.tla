------------------------- MODULE CoordinatorProofs -------------------------
(***************************************************************************)
(* Theorems about Coordinator, for any fleet, any tenants and hash, any    *)
(* timeout and every combination of faults.                                *)
(***************************************************************************)
EXTENDS Coordinator, TLAPS

USE DEF coord, worker, proc

-----------------------------------------------------------------------------
LEMMA TypeInit == Init => TypeOK
  <1> SUFFICES ASSUME Init PROVE TypeOK
    OBVIOUS
  <1> USE CoordinatorAssumption DEF Init
  <1>1. PICK busy \in SUBSET Stale : \E over \in SUBSET busy :
         /\ run = [w \in Workers |-> IF w \in busy THEN "previous" ELSE "none"]
         /\ wstate = [w \in Workers |-> CASE w \in over        -> "done"
                                          [] w \in busy \ over -> "running"
                                          [] OTHER             -> "idle"]
         /\ report = [w \in Workers |-> IF w \in over THEN "previous" ELSE "none"]
         /\ finished = over \X {"previous"}
    OBVIOUS
  <1>2. PICK over \in SUBSET busy :
         /\ run = [w \in Workers |-> IF w \in busy THEN "previous" ELSE "none"]
         /\ wstate = [w \in Workers |-> CASE w \in over        -> "done"
                                          [] w \in busy \ over -> "running"
                                          [] OTHER             -> "idle"]
         /\ report = [w \in Workers |-> IF w \in over THEN "previous" ELSE "none"]
         /\ finished = over \X {"previous"}
    BY <1>1
  <1>3. run \in [Workers -> Runs] /\ report \in [Workers -> Runs]
    BY <1>2 DEF Runs
  <1>4. wstate \in [Workers -> WStates]
    BY <1>2 DEF WStates, Live
  <1>5. finished \subseteq Workers \X Runs
    BY <1>2 DEF Runs
  <1>6. cstate \in [Workers -> CStates] /\ call \in [Workers -> Calls]
        /\ beat \in [Workers -> WStates]
    BY DEF CStates, Calls, WStates
  <1>7. silence \in [Workers -> Silences] /\ late \subseteq Workers /\ acked \subseteq Workers
    BY DEF Silences
  <1> QED
    BY <1>3, <1>4, <1>5, <1>6, <1>7 DEF TypeOK

LEMMA TypeStep == TypeOK /\ [Next]_vars => TypeOK'
  <1> SUFFICES ASSUME TypeOK, [Next]_vars PROVE TypeOK'
    OBVIOUS
  <1> USE CoordinatorAssumption
  <1>0. CASE UNCHANGED vars
    BY <1>0 DEF TypeOK, vars
  <1>1. CASE MainStep
    BY <1>1 DEF MainStep, TypeOK, Calls, DispatchDone, PollStart, PollDone, PollCancelled, Exit
  <1>2. CASE Tick \/ Interrupt
    <2>1. ASSUME NEW v \in Workers, silence[v] \in 0 .. DropoutTimeout
          PROVE  silence[v] + 1 \in Silences
      BY <2>1 DEF Silences
    <2> QED
      BY <1>2, <2>1 DEF TypeOK, Tick, Interrupt
  <1>3. ASSUME NEW w \in Workers, CallStep(w) \/ RunStep(w) \/ WorkerFault(w)
        PROVE  TypeOK'
    <2>1. CASE AcceptReject(w)
      <3>1. call' \in [Workers -> Calls]
        BY <2>1 DEF AcceptReject, TypeOK, Calls
      <3>2. CASE Refuses(w)
        BY <2>1, <3>1, <3>2 DEF AcceptReject, Refuses, TypeOK
      <3>3. CASE InitFails(w)
        BY <2>1, <3>1, <3>3 DEF AcceptReject, InitFails, Current, TypeOK, WStates, Runs
      <3> QED
        BY <2>1, <3>2, <3>3 DEF AcceptReject
    <2>3. CASE Accept(w)
      BY <2>3 DEF Accept, Takes, Current, TypeOK, Calls, CStates, WStates, Live, Runs
    <2>4. CASE AssignReply(w)
      <3>1. 0 \in Silences /\ "running" \in CStates /\ "answered" \in Calls
        BY DEF Silences, CStates, WStates, Live, Calls
      <3> QED
        BY <2>4, <3>1 DEF AssignReply, TypeOK
    <2>5. CASE AssignError(w)
      BY <2>5 DEF AssignError, TypeOK, Calls, CStates, WStates, Live, Runs
    <2>6. CASE HeartbeatSkip(w)
      BY <2>6 DEF HeartbeatSkip, TypeOK, Calls, CStates, WStates, Live, Runs
    <2>7. CASE HeartbeatServe(w)
      BY <2>7 DEF HeartbeatServe, TypeOK, Calls, CStates, WStates, Live, Runs
    <2>8. CASE HeartbeatReply(w)
      <3>1. beat[w] \in WStates
        BY DEF TypeOK
      <3>2. beat[w] \in CStates
        BY <3>1 DEF CStates
      <3>3. 0 \in Silences /\ "answered" \in Calls /\ "idle" \in WStates
        BY DEF Silences, Calls, WStates
      <3> QED
        BY <2>8, <3>2, <3>3 DEF HeartbeatReply, TypeOK
    <2>9. CASE HeartbeatError(w)
      BY <2>9 DEF HeartbeatError, TypeOK, Calls, CStates, WStates, Live, Runs
    <2>10. CASE FetchDropped(w)
      BY <2>10 DEF FetchDropped, TypeOK, Calls, CStates, WStates, Live, Runs
    <2>11. CASE FetchReport(w)
      <3>1. <<w, report[w]>> \in Workers \X Runs
        BY DEF TypeOK
      <3>2. merged' \subseteq Workers \X Runs
        BY <2>11, <3>1 DEF FetchReport, TypeOK
      <3> QED
        BY <2>11, <3>2 DEF FetchReport, TypeOK, Calls
    <2>12. CASE FetchMissing(w)
      BY <2>12 DEF FetchMissing, TypeOK, Calls, CStates, WStates, Live, Runs
    <2>13. CASE RunLoopStart(w)
      BY <2>13 DEF RunLoopStart, TypeOK, Calls, CStates, WStates, Live, Runs
    <2>14. CASE RunLoopEnd(w)
      <3>1. <<w, run[w]>> \in Workers \X Runs
        BY DEF TypeOK
      <3>2. finished' \subseteq Workers \X Runs
        BY <2>14, <3>1 DEF RunLoopEnd, TypeOK
      <3>3. wstate' \in [Workers -> WStates]
        BY <2>14 DEF RunLoopEnd, TypeOK, WStates
      <3> QED
        BY <2>14, <3>2, <3>3 DEF RunLoopEnd, TypeOK
    <2>15. CASE Abort(w)
      BY <2>15 DEF Abort, TypeOK, Calls, CStates, WStates, Live, Runs
    <2>16. CASE Crash(w)
      BY <2>16 DEF Crash, Current, TypeOK, Calls, CStates, WStates, Live, Runs
    <2>17. CASE Restart(w)
      BY <2>17 DEF Restart, TypeOK, Calls, CStates, WStates, Live, Runs
    <2>18. CASE LateServe(w)
      <3>1. late' \subseteq Workers /\ lost' \in BOOLEAN
        BY <2>18 DEF LateServe, TypeOK
      <3>2. CASE Refuses(w)
        BY <2>18, <3>1, <3>2 DEF LateServe, Refuses, TypeOK
      <3>u. UNCHANGED <<phase, cancelled, cstate, silence, call, beat, merged, up, finished, acked>>
        BY <2>18 DEF LateServe
      <3>3. CASE InitFails(w) \/ Takes(w)
        <4>1. PICK r \in Runs, s \in WStates : Current(w, r, s)
          BY <3>3 DEF InitFails, Takes, Runs, WStates, Live
        <4>2. /\ run' \in [Workers -> Runs] /\ wstate' \in [Workers -> WStates]
              /\ report' \in [Workers -> Runs] /\ stopping' \in [Workers -> BOOLEAN]
          BY <4>1 DEF Current, TypeOK, Runs
        <4> QED
          BY <3>u, <3>1, <4>2 DEF TypeOK
      <3> QED
        BY <2>18, <3>2, <3>3 DEF LateServe
    <2> QED
      BY <1>3, <2>1, <2>3, <2>4, <2>5, <2>6, <2>7, <2>8, <2>9, <2>10,
         <2>11, <2>12, <2>13, <2>14, <2>15, <2>16, <2>17, <2>18 DEF CallStep, RunStep, WorkerFault
  <1> QED
    BY <1>0, <1>1, <1>2, <1>3 DEF Next

(* Type correctness: no interleaving of calls, faults, restarts and the      *)
(* clock leaves the types; in particular no worker state but done and failed *)
(* is ever terminal, and no state but the coordinator's own is "dropped".    *)
THEOREM TypeCorrect == Spec => []TypeOK
  BY TypeInit, TypeStep, PTL DEF Spec

-----------------------------------------------------------------------------
(***************************************************************************)
(* The strengthening.  A terminal state survives because nothing that      *)
(* could overwrite it is on its way: a heartbeat reply exists only for a   *)
(* worker that is not terminal and only while polling, and an assignment   *)
(* that is not answered belongs to a worker of which nothing is known yet. *)
(* A report is final because the worker publishes it at the end of its     *)
(* loop, and nothing is merged before polling is over.                     *)
(***************************************************************************)
FlightInv ==
    \A w \in Workers :
      /\ call[w] = "beat" => phase = "poll" /\ ~isTerminalState(cstate[w])
      /\ phase = "dispatch" /\ call[w] # "answered" => cstate[w] = ""

ReportInv ==
    /\ \A w \in Workers : w \in acked \/ call[w] = "accepted" => report[w] # "previous" /\ run[w] # "previous"
    /\ \A w \in Workers : report[w] # "none" => <<w, report[w]>> \in finished
    /\ phase \in {"dispatch", "poll"} => merged = {}

IInv == FlightInv /\ ReportInv /\ MergedIsFinal

LEMMA InvInit == Init => IInv
  <1> SUFFICES ASSUME Init PROVE IInv
    OBVIOUS
  <1>1. FlightInv
    BY DEF Init, FlightInv
  <1>2. ReportInv
    BY CoordinatorAssumption DEF Init, ReportInv
  <1>3. MergedIsFinal
    BY DEF Init, MergedIsFinal
  <1> QED
    BY <1>1, <1>2, <1>3 DEF IInv

LEMMA FlightStep == TypeOK /\ FlightInv /\ [Next]_vars => FlightInv'
  <1> SUFFICES ASSUME TypeOK, FlightInv, [Next]_vars PROVE FlightInv'
    OBVIOUS
  <1> USE DEF FlightInv
  <1>0. CASE UNCHANGED vars
    BY <1>0 DEF vars
  <1>1. CASE MainStep
    BY <1>1 DEF MainStep, TypeOK, AllAt, DispatchDone, PollStart, PollDone, PollCancelled, Exit
  <1>2. CASE Tick \/ Interrupt
    BY <1>2 DEF Tick, Interrupt
  <1>3. ASSUME NEW w \in Workers, CallStep(w) \/ RunStep(w) \/ WorkerFault(w)
        PROVE  FlightInv'
    <2>1. CASE AcceptReject(w)
      BY <2>1 DEF AcceptReject, Refuses, InitFails, Current, TypeOK, isTerminalState, Terminal
    <2>3. CASE Accept(w)
      BY <2>3 DEF Accept, Takes, Current, TypeOK, isTerminalState, Terminal
    <2>4. CASE AssignReply(w)
      BY <2>4 DEF AssignReply, TypeOK, isTerminalState, Terminal
    <2>5. CASE AssignError(w)
      BY <2>5 DEF AssignError, TypeOK, isTerminalState, Terminal
    <2>6. CASE HeartbeatSkip(w)
      BY <2>6 DEF HeartbeatSkip, TypeOK, isTerminalState, Terminal
    <2>7. CASE HeartbeatServe(w)
      BY <2>7 DEF HeartbeatServe, TypeOK, isTerminalState, Terminal
    <2>8. CASE HeartbeatReply(w)
      BY <2>8 DEF HeartbeatReply, TypeOK, isTerminalState, Terminal
    <2>9. CASE HeartbeatError(w)
      BY <2>9 DEF HeartbeatError, TypeOK, isTerminalState, Terminal
    <2>10. CASE FetchDropped(w)
      BY <2>10 DEF FetchDropped, TypeOK, isTerminalState, Terminal
    <2>11. CASE FetchReport(w)
      BY <2>11 DEF FetchReport, TypeOK, isTerminalState, Terminal
    <2>12. CASE FetchMissing(w)
      BY <2>12 DEF FetchMissing, TypeOK, isTerminalState, Terminal
    <2>13. CASE RunLoopStart(w)
      BY <2>13 DEF RunLoopStart, TypeOK, isTerminalState, Terminal
    <2>14. CASE RunLoopEnd(w)
      BY <2>14 DEF RunLoopEnd, TypeOK, isTerminalState, Terminal
    <2>15. CASE Abort(w)
      BY <2>15 DEF Abort, TypeOK, isTerminalState, Terminal
    <2>16. CASE Crash(w)
      BY <2>16 DEF Crash, Current, TypeOK, isTerminalState, Terminal
    <2>17. CASE Restart(w)
      BY <2>17 DEF Restart, TypeOK, isTerminalState, Terminal
    <2>18. CASE LateServe(w)
      BY <2>18 DEF LateServe, Refuses, InitFails, Takes, Current, TypeOK, isTerminalState, Terminal
    <2> QED
      BY <1>3, <2>1, <2>3, <2>4, <2>5, <2>6, <2>7, <2>8, <2>9, <2>10,
         <2>11, <2>12, <2>13, <2>14, <2>15, <2>16, <2>17, <2>18 DEF CallStep, RunStep, WorkerFault
  <1> QED
    BY <1>0, <1>1, <1>2, <1>3 DEF Next

LEMMA ReportStep ==
    TypeOK /\ ReportInv /\ MergedIsFinal /\ [Next]_vars => ReportInv' /\ MergedIsFinal'
  <1> SUFFICES ASSUME TypeOK, ReportInv, MergedIsFinal, [Next]_vars
               PROVE  ReportInv' /\ MergedIsFinal'
    OBVIOUS
  <1> USE DEF ReportInv, MergedIsFinal, Runs
  <1>0. CASE UNCHANGED vars
    BY <1>0 DEF vars
  <1>1. CASE MainStep
    BY <1>1 DEF MainStep, DispatchDone, PollStart, PollDone, PollCancelled, Exit
  <1>2. CASE Tick \/ Interrupt
    BY <1>2 DEF Tick, Interrupt
  <1>3. ASSUME NEW w \in Workers, CallStep(w) \/ RunStep(w) \/ WorkerFault(w)
        PROVE  ReportInv' /\ MergedIsFinal'
    <2>1. CASE AcceptReject(w)
      BY <2>1 DEF AcceptReject, Refuses, InitFails, Current, TypeOK
    <2>3. CASE Accept(w)
      BY <2>3 DEF Accept, Takes, Current, TypeOK
    <2>4. CASE AssignReply(w)
      BY <2>4 DEF AssignReply, TypeOK
    <2>5. CASE AssignError(w)
      BY <2>5 DEF AssignError, TypeOK
    <2>6. CASE HeartbeatSkip(w)
      BY <2>6 DEF HeartbeatSkip, TypeOK
    <2>7. CASE HeartbeatServe(w)
      BY <2>7 DEF HeartbeatServe, TypeOK
    <2>8. CASE HeartbeatReply(w)
      BY <2>8 DEF HeartbeatReply, TypeOK
    <2>9. CASE HeartbeatError(w)
      BY <2>9 DEF HeartbeatError, TypeOK
    <2>10. CASE FetchDropped(w)
      BY <2>10 DEF FetchDropped, TypeOK
    <2>11. CASE FetchReport(w)
      BY <2>11 DEF FetchReport, TypeOK
    <2>12. CASE FetchMissing(w)
      BY <2>12 DEF FetchMissing, TypeOK
    <2>13. CASE RunLoopStart(w)
      BY <2>13 DEF RunLoopStart, TypeOK
    <2>14. CASE RunLoopEnd(w)
      BY <2>14 DEF RunLoopEnd, TypeOK
    <2>15. CASE Abort(w)
      BY <2>15 DEF Abort, TypeOK
    <2>16. CASE Crash(w)
      BY <2>16 DEF Crash, Current, TypeOK
    <2>17. CASE Restart(w)
      BY <2>17 DEF Restart, TypeOK
    <2>18. CASE LateServe(w)
      BY <2>18 DEF LateServe, Refuses, InitFails, Takes, Current, TypeOK
    <2> QED
      BY <1>3, <2>1, <2>3, <2>4, <2>5, <2>6, <2>7, <2>8, <2>9, <2>10,
         <2>11, <2>12, <2>13, <2>14, <2>15, <2>16, <2>17, <2>18 DEF CallStep, RunStep, WorkerFault
  <1> QED
    BY <1>0, <1>1, <1>2, <1>3 DEF Next

(* The merged result is made of final reports only, none of a worker that is *)
(* also listed as dropped, whatever is lost, restarted or interrupted.       *)
THEOREM MergedReportsFinal == Spec => []MergedIsFinal
  <1>1. TypeOK /\ IInv /\ [Next]_vars => IInv'
    BY FlightStep, ReportStep DEF IInv
  <1>2. IInv => MergedIsFinal
    BY DEF IInv
  <1> QED
    BY <1>1, <1>2, TypeInit, TypeStep, InvInit, PTL DEF Spec

LEMMA StickyStep ==
    TypeOK /\ FlightInv /\ [Next]_vars =>
      \A w \in Workers : isTerminalState(cstate[w]) => cstate'[w] = cstate[w]
  <1> SUFFICES ASSUME TypeOK, FlightInv, [Next]_vars,
                      NEW v \in Workers, isTerminalState(cstate[v])
               PROVE  cstate'[v] = cstate[v]
    OBVIOUS
  <1>0. CASE UNCHANGED vars
    BY <1>0 DEF vars
  <1>1. CASE MainStep
    BY <1>1 DEF MainStep, DispatchDone, PollStart, PollDone, PollCancelled, Exit
  <1>2. CASE Tick \/ Interrupt
    BY <1>2 DEF Tick, Interrupt
  <1>3. ASSUME NEW w \in Workers, CallStep(w) \/ RunStep(w) \/ WorkerFault(w)
        PROVE  cstate'[v] = cstate[v]
    <2>1. CASE AcceptReject(w)
      BY <2>1 DEF AcceptReject, Refuses, InitFails, Current, TypeOK, FlightInv, isTerminalState, Terminal
    <2>3. CASE Accept(w)
      BY <2>3 DEF Accept, Takes, Current, TypeOK, FlightInv, isTerminalState, Terminal
    <2>4. CASE AssignReply(w)
      BY <2>4 DEF AssignReply, TypeOK, FlightInv, isTerminalState, Terminal
    <2>5. CASE AssignError(w)
      BY <2>5 DEF AssignError, TypeOK, FlightInv, isTerminalState, Terminal
    <2>6. CASE HeartbeatSkip(w)
      BY <2>6 DEF HeartbeatSkip, TypeOK, FlightInv, isTerminalState, Terminal
    <2>7. CASE HeartbeatServe(w)
      BY <2>7 DEF HeartbeatServe, TypeOK, FlightInv, isTerminalState, Terminal
    <2>8. CASE HeartbeatReply(w)
      BY <2>8 DEF HeartbeatReply, TypeOK, FlightInv, isTerminalState, Terminal
    <2>9. CASE HeartbeatError(w)
      BY <2>9 DEF HeartbeatError, TypeOK, FlightInv, isTerminalState, Terminal
    <2>10. CASE FetchDropped(w)
      BY <2>10 DEF FetchDropped, TypeOK, FlightInv, isTerminalState, Terminal
    <2>11. CASE FetchReport(w)
      BY <2>11 DEF FetchReport, TypeOK, FlightInv, isTerminalState, Terminal
    <2>12. CASE FetchMissing(w)
      BY <2>12 DEF FetchMissing, TypeOK, FlightInv, isTerminalState, Terminal
    <2>13. CASE RunLoopStart(w)
      BY <2>13 DEF RunLoopStart, TypeOK, FlightInv, isTerminalState, Terminal
    <2>14. CASE RunLoopEnd(w)
      BY <2>14 DEF RunLoopEnd, TypeOK, FlightInv, isTerminalState, Terminal
    <2>15. CASE Abort(w)
      BY <2>15 DEF Abort, TypeOK, FlightInv, isTerminalState, Terminal
    <2>16. CASE Crash(w)
      BY <2>16 DEF Crash, Current, TypeOK, FlightInv, isTerminalState, Terminal
    <2>17. CASE Restart(w)
      BY <2>17 DEF Restart, TypeOK, FlightInv, isTerminalState, Terminal
    <2>18. CASE LateServe(w)
      BY <2>18 DEF LateServe, Refuses, InitFails, Takes, Current, TypeOK, FlightInv, isTerminalState, Terminal
    <2> QED
      BY <1>3, <2>1, <2>3, <2>4, <2>5, <2>6, <2>7, <2>8, <2>9, <2>10,
         <2>11, <2>12, <2>13, <2>14, <2>15, <2>16, <2>17, <2>18 DEF CallStep, RunStep, WorkerFault
  <1> QED
    BY <1>0, <1>1, <1>2, <1>3 DEF Next

(* What the coordinator has concluded about a worker it never revises.       *)
THEOREM TerminalStatesStick == Spec => TerminalSticks
  <1>1. TypeOK /\ FlightInv /\ [Next]_vars =>
          [\A w \in Workers : isTerminalState(cstate[w]) => cstate'[w] = cstate[w]]_vars
    BY StickyStep
  <1>2. Init => FlightInv
    BY InvInit DEF IInv
  <1> QED
    BY <1>1, <1>2, TypeInit, TypeStep, FlightStep, PTL DEF Spec, TerminalSticks

-----------------------------------------------------------------------------
(***************************************************************************)
(* Every tenant reported.  A worker that holds our run took it during the  *)
(* dispatch and has not died since: what the coordinator hears of it is    *)
(* about our run, it has published our report by the time it is seen       *)
(* terminal, and it can be given up, or its report missed, only by a call  *)
(* that was lost.                                                          *)
(***************************************************************************)
Ended == {"done", "failed"}

AtEnd == phase \in {"aggregate", "exited"} /\ ~cancelled

Held(w) ==
    /\ up[w]
    /\ wstate[w] \in Live \cup Ended
    /\ report[w] = IF wstate[w] \in Ended THEN "ours" ELSE "none"
    /\ beat[w] \in Ended \/ cstate[w] \in Ended => wstate[w] \in Ended
    /\ cstate[w] # "dropped"
    /\ \A r \in Runs : <<w, r>> \in merged => r = "ours"
    /\ AtEnd => isTerminalState(cstate[w])
    /\ AtEnd /\ call[w] = "answered" => <<w, "ours">> \in merged

HeldInv ==
    /\ ~lost => \A w \in Workers : run[w] = "ours" => Held(w)
    /\ phase = "dispatch" =>
         \A w \in Workers : beat[w] = "idle" /\ cstate[w] \in {"", "running"}
    /\ phase = "exited" => AllAt("answered")

LEMMA HeldInit == Init => HeldInv
  <1> SUFFICES ASSUME Init PROVE HeldInv
    OBVIOUS
  <1>1. \A w \in Workers : run[w] # "ours"
    BY DEF Init
  <1> QED
    BY <1>1 DEF Init, HeldInv

LEMMA HeldStep == TypeOK /\ ReportInv /\ HeldInv /\ [Next]_vars => HeldInv'
  <1> SUFFICES ASSUME TypeOK, ReportInv, HeldInv, [Next]_vars PROVE HeldInv'
    OBVIOUS
  <1> USE DEF HeldInv, Held, AtEnd, Ended, Live, AllAt
  <1>0. CASE UNCHANGED vars
    BY <1>0 DEF vars
  <1>1. CASE MainStep
    <2>1. CASE DispatchDone
      BY <2>1 DEF DispatchDone
    <2>2. CASE PollStart
      BY <2>2 DEF PollStart
    <2>3. CASE PollDone
      BY <2>3 DEF PollDone
    <2>4. CASE PollCancelled
      BY <2>4 DEF PollCancelled
    <2>5. CASE Exit
      BY <2>5 DEF Exit
    <2> QED
      BY <1>1, <2>1, <2>2, <2>3, <2>4, <2>5 DEF MainStep
  <1>2. CASE Tick \/ Interrupt
    <2>1. CASE Tick
      BY <2>1 DEF Tick
    <2>2. CASE Interrupt
      BY <2>2 DEF Interrupt
    <2> QED
      BY <1>2, <2>1, <2>2
  <1>3. ASSUME NEW w \in Workers, CallStep(w) \/ RunStep(w) \/ WorkerFault(w)
        PROVE  HeldInv'
    <2>1. CASE AcceptReject(w)
      <3>1. CASE Refuses(w)
        BY <2>1, <3>1 DEF AcceptReject, Refuses, TypeOK
      <3>2. CASE InitFails(w)
        BY <2>1, <3>2 DEF AcceptReject, InitFails, Current, TypeOK
      <3> QED
        BY <2>1, <3>1, <3>2 DEF AcceptReject
    <2>3. CASE Accept(w)
      BY <2>3 DEF Accept, Takes, Current, TypeOK, ReportInv, isTerminalState, Terminal
    <2>4. CASE AssignReply(w)
      BY <2>4 DEF AssignReply, TypeOK, isTerminalState, Terminal
    <2>5. CASE AssignError(w)
      BY <2>5 DEF AssignError, TypeOK, isTerminalState, Terminal
    <2>6. CASE HeartbeatSkip(w)
      BY <2>6 DEF HeartbeatSkip, TypeOK, isTerminalState, Terminal
    <2>7. CASE HeartbeatServe(w)
      BY <2>7 DEF HeartbeatServe, TypeOK, isTerminalState, Terminal
    <2>8. CASE HeartbeatReply(w)
      BY <2>8 DEF HeartbeatReply, TypeOK, isTerminalState, Terminal, WStates
    <2>9. CASE HeartbeatError(w)
      BY <2>9 DEF HeartbeatError, TypeOK, isTerminalState, Terminal
    <2>10. CASE FetchDropped(w)
      BY <2>10 DEF FetchDropped, TypeOK, isTerminalState, Terminal
    <2>11. CASE FetchReport(w)
      BY <2>11 DEF FetchReport, TypeOK, isTerminalState, Terminal
    <2>12. CASE FetchMissing(w)
      BY <2>12 DEF FetchMissing, TypeOK, isTerminalState, Terminal, CStates, WStates
    <2>13. CASE RunLoopStart(w)
      BY <2>13 DEF RunLoopStart, TypeOK, isTerminalState, Terminal
    <2>14. CASE RunLoopEnd(w)
      BY <2>14 DEF RunLoopEnd, TypeOK, isTerminalState, Terminal
    <2>15. CASE Abort(w)
      BY <2>15 DEF Abort, TypeOK, isTerminalState, Terminal
    <2>16. CASE Crash(w)
      BY <2>16 DEF Crash, Current, TypeOK, isTerminalState, Terminal
    <2>17. CASE Restart(w)
      BY <2>17 DEF Restart, TypeOK, isTerminalState, Terminal
    <2>18. CASE LateServe(w)
      <3>0. UNCHANGED <<phase, cancelled, cstate, call, beat, merged, up>>
        BY <2>18 DEF LateServe
      <3>1. CASE Refuses(w) /\ UNCHANGED lost
        BY <3>0, <3>1 DEF Refuses
      <3>2. CASE InitFails(w) /\ UNCHANGED lost
        BY <3>0, <3>2 DEF InitFails, Current, TypeOK
      <3>3. CASE Takes(w) /\ lost' /\ phase # "dispatch"
        BY <3>0, <3>3
      <3>4. CASE Takes(w) /\ phase = "dispatch" /\ lost' = lost
        <4>1. merged = {}
          BY <3>4 DEF ReportInv
        <4>2. Held(w)'
          BY <2>18, <3>0, <3>4, <4>1 DEF LateServe, Takes, Current, TypeOK
        <4>3. ASSUME NEW v \in Workers, v # w, run'[v] = "ours", ~lost' PROVE Held(v)'
          BY <3>0, <3>4, <4>3 DEF Takes, Current, TypeOK
        <4> QED
          BY <3>0, <4>2, <4>3
      <3>5. lost' = lost \/ (Takes(w) /\ lost' /\ phase # "dispatch")
        BY <2>18 DEF LateServe, TypeOK
      <3> QED
        BY <2>18, <3>1, <3>2, <3>3, <3>4, <3>5 DEF LateServe, TypeOK
    <2> QED
      BY <1>3, <2>1, <2>3, <2>4, <2>5, <2>6, <2>7, <2>8, <2>9, <2>10,
         <2>11, <2>12, <2>13, <2>14, <2>15, <2>16, <2>17, <2>18 DEF CallStep, RunStep, WorkerFault
  <1> QED
    BY <1>0, <1>1, <1>2, <1>3 DEF Next

(* Both sides of the protocol stay well formed; and when every worker took   *)
(* the run and still holds it and no call to a living worker was lost, the   *)
(* report of an uninterrupted run has every tenant exactly once: whatever    *)
(* the fleet, the hash and the timeout, and whichever acceptances got lost.  *)
THEOREM EveryTenantOnce == Spec => []TenantsReported
  <1>1. TypeOK /\ HeldInv => TenantsReported
    <2> SUFFICES ASSUME TypeOK, HeldInv, phase = "exited", ~cancelled, ~lost,
                        \A w \in Workers : run[w] = "ours",
                        NEW t \in Tenants
                 PROVE  \E w \in Workers :
                          t \in Chunk(w) /\ \A r \in Runs : <<w, r>> \in merged <=> r = "ours"
      BY DEF TenantsReported, EveryTenantReported
    <2>1. Home[t] \in Workers /\ t \in Chunk(Home[t])
      BY CoordinatorAssumption DEF Chunk
    <2>2. Held(Home[t]) /\ call[Home[t]] = "answered"
      BY <2>1 DEF HeldInv, AllAt
    <2>3. \A r \in Runs : <<Home[t], r>> \in merged <=> r = "ours"
      BY <2>2 DEF Held, AtEnd
    <2> QED
      BY <2>1, <2>3
  <1>2. TypeOK /\ IInv /\ [Next]_vars => IInv'
    BY FlightStep, ReportStep DEF IInv
  <1>3. IInv => ReportInv
    BY DEF IInv
  <1> QED
    BY <1>1, <1>2, <1>3, TypeInit, TypeStep, InvInit, HeldInit, HeldStep, PTL DEF Spec
=============================================================================
