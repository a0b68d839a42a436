------------------------------- MODULE Server -------------------------------
(***************************************************************************)
(* The run server (internal/server): POST /runs inserts a row in the runs  *)
(* index, spawns a worker process and gives it a moment to fail before it  *)
(* answers; a goroutine observes the worker and writes the row's final     *)
(* status; POST /cancel interrupts a worker; shutting down interrupts all  *)
(* and waits for their observers.                                          *)
(*                                                                         *)
(* A step ends wherever another goroutine can see what it did: at a write  *)
(* of the index, at the mutex of the running table, at the atomic cancel   *)
(* flag and at the WaitGroup.  Read-only endpoints, authentication and the *)
(* contents of a row are left out.                                         *)
(***************************************************************************)
EXTENDS Integers, FiniteSets

CONSTANTS
    Runs,       \* run ids, one trigger request each
    Flaky,      \* runs of which a write of the index may fail
    Hanging,    \* runs whose worker may stop reacting, to SIGINT too
    Unwanted    \* runs somebody may cancel

ASSUME ServerAssumption ==
    IsFiniteSet(Runs) /\ {Flaky, Hanging, Unwanted} \subseteq SUBSET Runs

VARIABLES
    phase,      \* where Server.Start is
    trig,       \* trig[r]: where handleTriggerRun is
    cancel,     \* cancel[r]: where handleCancelRun is
    obs,        \* obs[r]: where observeRun is
    verdict,    \* verdict[r]: observeRun's final row.Status
    running,    \* Server.running
    wg,         \* Server.observeWG
    flag,       \* runState.cancelled
    todo,       \* cancelAllRuns: handles it has not signalled yet
    victims,    \* cancelAllRuns: handles
    row,        \* the index: row[r].status (external)
    proc,       \* the worker process (external)
    sig,        \* SIGINT was sent to it
    unwritten,  \* history: runs of which the latest write of the index failed
    watched     \* history: runs an observer had when shutdown began

handlers == <<trig, cancel>>
observer == <<obs, verdict, wg>>
shutdown == <<phase, todo, victims, watched>>
index    == <<row, unwritten>>
worker   == <<proc, sig>>
vars     == <<handlers, observer, shutdown, index, worker, running, flag>>

Final  == {"completed", "failed", "cancelled"}
Dead   == {"ok", "failed", "stopped", "killed"}
Active == {"running", "wait", "classify", "final"}

TypeOK ==
    /\ phase \in {"serving", "marking", "closing", "exited"}
    /\ trig \in [Runs -> {"none", "spawn", "grace", "register", "observe",
                          "accepted", "error"}]
    /\ cancel \in [Runs -> {"none", "found", "stored", "accepted"}]
    /\ obs \in [Runs -> {"none", "done"} \cup Active]
    /\ verdict \in [Runs -> {"none"} \cup Final]
    /\ running \subseteq Runs
    /\ wg \in Nat
    /\ flag \in [Runs -> BOOLEAN]
    /\ todo \subseteq Runs /\ victims \subseteq Runs /\ watched \subseteq Runs
    /\ row \in [Runs -> {"none", "queued", "running"} \cup Final]
    /\ proc \in [Runs -> {"none", "alive", "hung"} \cup Dead]
    /\ sig \in [Runs -> BOOLEAN]
    /\ unwritten \subseteq Runs

Init ==
    /\ phase = "serving"
    /\ trig = [r \in Runs |-> "none"]
    /\ cancel = [r \in Runs |-> "none"]
    /\ obs = [r \in Runs |-> "none"]
    /\ verdict = [r \in Runs |-> "none"]
    /\ running = {}
    /\ wg = 0
    /\ flag = [r \in Runs |-> FALSE]
    /\ todo = {} /\ victims = {} /\ watched = {}
    /\ row = [r \in Runs |-> "none"]
    /\ proc = [r \in Runs |-> "none"]
    /\ sig = [r \in Runs |-> FALSE]
    /\ unwritten = {}

\* The process serves until Start returns; srv.Shutdown closes the listener.
Up        == phase # "exited"
Listening == phase \in {"serving", "marking"}

\* Index.Update, whose failure every caller ignores or only logs.
Update(r, status) ==
    \/ row' = [row EXCEPT ![r] = status] /\ unwritten' = unwritten \ {r}
    \/ r \in Flaky /\ unwritten' = unwritten \cup {r} /\ UNCHANGED row

-----------------------------------------------------------------------------
(* handleTriggerRun *)

\* The handler goes from one step to the next.
At(r, from, to) == Up /\ trig[r] = from /\ trig' = [trig EXCEPT ![r] = to]

\* A valid request is given an id and a row; without the row it is refused, also
\* when only the answer of the index was lost.
TriggerInsert(r) ==
    /\ Listening
    /\ \/ /\ At(r, "none", "spawn")
          /\ row' = [row EXCEPT ![r] = "queued"]
          /\ UNCHANGED unwritten
       \/ /\ r \in Flaky
          /\ At(r, "none", "error")
          /\ row' \in {row, [row EXCEPT ![r] = "queued"]}
          /\ unwritten' = unwritten \cup {r}
    /\ UNCHANGED <<cancel, observer, shutdown, worker, running, flag>>

TriggerSpawn(r) ==
    /\ At(r, "spawn", "grace")
    /\ proc' = [proc EXCEPT ![r] = "alive"]
    /\ UNCHANGED <<cancel, observer, shutdown, index, sig, running, flag>>

TriggerSpawnFails(r) ==
    /\ At(r, "spawn", "error")
    /\ Update(r, "failed")
    /\ UNCHANGED <<cancel, observer, shutdown, worker, running, flag>>

\* Mutant of TriggerStartupFails: the handler goes on after its error answer.
TriggerStartupFallsThrough(r) ==
    /\ At(r, "grace", "register")
    /\ proc[r] \in {"failed", "killed"}
    /\ Update(r, "failed")
    /\ UNCHANGED <<cancel, observer, shutdown, worker, running, flag>>

\* The worker is seen to exit non-zero within StartupGrace.
TriggerStartupFails(r) ==
    /\ At(r, "grace", "error")
    /\ proc[r] \in {"failed", "killed"}
    /\ Update(r, "failed")
    /\ UNCHANGED <<cancel, observer, shutdown, worker, running, flag>>

\* StartupGrace is over, which select may notice first, or the worker is done.
TriggerGraceOver(r) ==
    /\ At(r, "grace", "register")
    /\ UNCHANGED <<cancel, observer, shutdown, index, worker, running, flag>>

TriggerRegister(r) ==
    /\ At(r, "register", "observe")
    /\ running' = running \cup {r}
    /\ UNCHANGED <<cancel, observer, shutdown, index, worker, flag>>

\* Mutant of TriggerObserve: a worker that is done already is not observed.
TriggerObserveLive(r) ==
    /\ At(r, "observe", "accepted")
    /\ IF proc[r] \in Dead THEN UNCHANGED <<wg, obs>>
       ELSE wg' = wg + 1 /\ obs' = [obs EXCEPT ![r] = "running"]
    /\ UNCHANGED <<cancel, verdict, shutdown, index, worker, running, flag>>

\* observeWG.Add, the observer is started and the caller gets its 202.
TriggerObserve(r) ==
    /\ At(r, "observe", "accepted")
    /\ wg' = wg + 1
    /\ obs' = [obs EXCEPT ![r] = "running"]
    /\ UNCHANGED <<cancel, verdict, shutdown, index, worker, running, flag>>

-----------------------------------------------------------------------------
(* handleCancelRun; a run that is not in the table is a 404. *)

CancelLookup(r) ==
    /\ Listening
    /\ cancel[r] = "none" /\ r \in Unwanted \cap running
    /\ cancel' = [cancel EXCEPT ![r] = "found"]
    /\ UNCHANGED <<trig, observer, shutdown, index, worker, running, flag>>

\* Mutant of CancelStore: the worker is interrupted before the flag is up.
CancelStoreLate(r) ==
    /\ Up
    /\ \/ /\ cancel[r] = "found" /\ ~sig[r]
          /\ sig' = [sig EXCEPT ![r] = TRUE]
          /\ UNCHANGED <<cancel, flag>>
       \/ /\ cancel[r] = "found" /\ sig[r]
          /\ cancel' = [cancel EXCEPT ![r] = "stored"]
          /\ flag' = [flag EXCEPT ![r] = TRUE]
          /\ UNCHANGED sig
    /\ UNCHANGED <<trig, observer, shutdown, index, proc, running>>

CancelStore(r) ==
    /\ Up
    /\ cancel[r] = "found"
    /\ cancel' = [cancel EXCEPT ![r] = "stored"]
    /\ flag' = [flag EXCEPT ![r] = TRUE]
    /\ UNCHANGED <<trig, observer, shutdown, index, worker, running>>

\* SIGINT, which a worker that is gone no longer notices.
CancelSignal(r) ==
    /\ Up
    /\ cancel[r] = "stored"
    /\ cancel' = [cancel EXCEPT ![r] = "accepted"]
    /\ sig' = [sig EXCEPT ![r] = TRUE]
    /\ UNCHANGED <<trig, observer, shutdown, index, proc, running, flag>>

-----------------------------------------------------------------------------
(* observeRun *)

ObserveRunning(r) ==
    /\ Up
    /\ obs[r] = "running"
    /\ Update(r, "running")
    /\ obs' = [obs EXCEPT ![r] = "wait"]
    /\ UNCHANGED <<handlers, verdict, wg, shutdown, worker, running, flag>>

\* Wait returns; the run leaves the table before its status is decided.
ObserveExit(r) ==
    /\ Up
    /\ obs[r] = "wait" /\ proc[r] \in Dead
    /\ obs' = [obs EXCEPT ![r] = "classify"]
    /\ running' = running \ {r}
    /\ UNCHANGED <<handlers, verdict, wg, shutdown, index, worker, flag>>

\* The flag decides, then the exit code; run.json is read and stored.
ObserveClassify(r) ==
    /\ Up
    /\ obs[r] = "classify"
    /\ obs' = [obs EXCEPT ![r] = "final"]
    /\ verdict' = [verdict EXCEPT ![r] =
         CASE flag[r]                         -> "cancelled"
           [] ~flag[r] /\ proc[r] \in {"failed", "killed"} -> "failed"
           [] OTHER                           -> "completed"]
    /\ UNCHANGED <<handlers, wg, shutdown, index, worker, running, flag>>

\* Mutant of ObserveFinal: Done is deferred and called as well.
ObserveFinalTwice(r) ==
    /\ Up
    /\ obs[r] = "final"
    /\ Update(r, verdict[r])
    /\ obs' = [obs EXCEPT ![r] = "done"]
    /\ wg' = wg - 2
    /\ UNCHANGED <<handlers, verdict, shutdown, worker, running, flag>>

\* The last write of the row and the deferred Done.
ObserveFinal(r) ==
    /\ Up
    /\ obs[r] = "final"
    /\ Update(r, verdict[r])
    /\ obs' = [obs EXCEPT ![r] = "done"]
    /\ wg' = wg - 1
    /\ UNCHANGED <<handlers, verdict, shutdown, worker, running, flag>>

-----------------------------------------------------------------------------
(* Server.Start: it serves until the listener fails or its context is done. *)

\* ListenAndServe fails: Start returns at once, drains nothing.
ServeFails ==
    /\ phase = "serving"
    /\ phase' = "exited"
    /\ UNCHANGED <<handlers, observer, todo, victims, watched, index, worker, running, flag>>

\* cancelAllRuns copies the table.
ShutdownStart ==
    /\ phase = "serving"
    /\ phase' = "marking"
    /\ todo' = running /\ victims' = running
    /\ watched' = {r \in Runs : obs[r] \in Active}
    /\ UNCHANGED <<handlers, observer, index, worker, running, flag>>

MarkVictim(r) ==
    /\ Up
    /\ r \in todo
    /\ todo' = todo \ {r}
    /\ flag' = [flag EXCEPT ![r] = TRUE]
    /\ sig' = [sig EXCEPT ![r] = TRUE]
    /\ UNCHANGED <<handlers, observer, phase, victims, watched, index, proc, running>>

\* 30 seconds later: a worker that is still in the table is killed.
KillVictim(r) ==
    /\ Up
    /\ todo = {} /\ r \in victims \cap running
    /\ proc[r] \in {"alive", "hung"}
    /\ proc' = [proc EXCEPT ![r] = "killed"]
    /\ UNCHANGED <<handlers, observer, shutdown, index, sig, running, flag>>

\* Mutant of WaitObservers: Start does not wait.
WaitNobody ==
    /\ phase = "marking" /\ todo = {}
    /\ phase' = "closing"
    /\ UNCHANGED <<handlers, observer, todo, victims, watched, index, worker, running, flag>>

\* observeWG.Wait
WaitObservers ==
    /\ phase = "marking" /\ todo = {}
    /\ wg = 0
    /\ phase' = "closing"
    /\ UNCHANGED <<handlers, observer, todo, victims, watched, index, worker, running, flag>>

\* srv.Shutdown waits for the handlers for at most 30 seconds; Start returns and
\* the process is gone.
Exit ==
    /\ phase = "closing"
    /\ phase' = "exited"
    /\ UNCHANGED <<handlers, observer, todo, victims, watched, index, worker, running, flag>>

-----------------------------------------------------------------------------
(* The worker process, which outlives the server. *)

\* It ends by itself, well or not; interrupted, it drains and exits with 0.
ProcExits(r) ==
    /\ proc[r] = "alive"
    /\ \/ proc' = [proc EXCEPT ![r] = "ok"]
       \/ proc' = [proc EXCEPT ![r] = "failed"]
       \/ sig[r] /\ proc' = [proc EXCEPT ![r] = "stopped"]
    /\ UNCHANGED <<handlers, observer, shutdown, index, sig, running, flag>>

ProcHangs(r) ==
    /\ r \in Hanging
    /\ proc[r] = "alive"
    /\ proc' = [proc EXCEPT ![r] = "hung"]
    /\ UNCHANGED <<handlers, observer, shutdown, index, sig, running, flag>>

-----------------------------------------------------------------------------
Trigger(r) ==
    \/ TriggerSpawn(r) \/ TriggerSpawnFails(r) \/ TriggerStartupFails(r)
    \/ TriggerGraceOver(r) \/ TriggerRegister(r) \/ TriggerObserve(r)

Cancel(r) == CancelStore(r) \/ CancelSignal(r)

Observe(r) ==
    ObserveRunning(r) \/ ObserveExit(r) \/ ObserveClassify(r) \/ ObserveFinal(r)

Next ==
    \/ \E r \in Runs : \/ TriggerInsert(r) \/ Trigger(r)
                       \/ CancelLookup(r) \/ Cancel(r)
                       \/ Observe(r) \/ MarkVictim(r) \/ KillVictim(r)
                       \/ ProcExits(r) \/ ProcHangs(r)
    \/ ServeFails \/ ShutdownStart \/ WaitObservers \/ Exit

Spec == Init /\ [][Next]_vars

\* Handlers and observers are scheduled, a worker that does not hang ends (a
\* scenario has a duration) and Start goes on; nobody has to trigger or cancel a
\* run, or to stop the server.
Fairness ==
    /\ \A r \in Runs : /\ WF_vars(Trigger(r)) /\ WF_vars(Cancel(r))
                       /\ WF_vars(Observe(r)) /\ WF_vars(MarkVictim(r))
                       /\ WF_vars(KillVictim(r)) /\ WF_vars(ProcExits(r))
    /\ WF_vars(WaitObservers) /\ WF_vars(Exit)

FairSpec == Spec /\ Fairness

-----------------------------------------------------------------------------
(* Properties *)

\* When Start returns, every run that was being observed when shutdown began is
\* over: its worker is gone, nobody observes it any more and its row has a final
\* status, unless the index refused that write.
WatchedAreFlushed ==
    phase = "exited" =>
      \A r \in watched : /\ obs[r] = "done"
                         /\ proc[r] \in Dead
                         /\ row[r] \in Final \/ r \in unwritten

\* A worker that stopped because it was interrupted is never recorded as
\* completed or failed, although its exit code says so.
StoppedIsCancelled ==
    \A r \in Runs : proc[r] = "stopped" /\ row[r] \in Final => row[r] = "cancelled"

\* A final status is final: trigger handler and observer never both write one.
FinalIsFinal ==
    [][\A r \in Runs : row[r] \in Final => row'[r] = row[r]]_vars

\* A run that was answered 202 gets its final status, unless its worker hangs, the
\* index refuses that write or the server is stopped first.
RunSettles ==
    \A r \in Runs :
      trig[r] = "accepted"
        ~> (row[r] \in Final \/ (obs[r] = "done" /\ r \in unwritten) \/ proc[r] = "hung" \/ ~Up)

\* A shutdown ends, whatever workers hang, unless it is one that was triggered too
\* late to be among those that are killed.
ShutdownEnds ==
    phase = "marking" ~> (phase = "exited"
                            \/ \E r \in Runs \ victims : proc[r] = "hung")

\* Every accepted run gets a final row, and a shutdown ends.
RunsAndShutdownEnd == RunSettles /\ ShutdownEnds
=============================================================================
