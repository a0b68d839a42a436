---------------------------- MODULE Coordinator ----------------------------
(***************************************************************************)
(* One distributed run: the coordinator of internal/coord/coordinator.go,  *)
(* driven by internal/cli/coordinator.go (Dispatch, then PollUntilDone,    *)
(* then AggregateReports), and the worker processes that                   *)
(* internal/coord/worker_handler.go implements behind worker_server.go.    *)
(*                                                                         *)
(* A call is split where the network can come between its halves: the      *)
(* worker serves the request in one step and the coordinator applies the   *)
(* reply in another, and either half may be lost.  What can go wrong in an *)
(* instance is the set Faults.                                             *)
(***************************************************************************)
EXTENDS Integers, FiniteSets

CONSTANTS
    Workers,        \* worker processes, one per address of --workers
    Tenants,        \* tenant ids of the manifest
    Home,           \* Home[t] is the worker that stableHash(t) % n picks
    DropoutTimeout, \* in polling intervals
    Stale,          \* workers that may still hold a previous run
    Faults          \* subset of FaultKinds that may happen

FaultKinds == {"assign",    \* an assignment or its answer is lost
               "poll",      \* a heartbeat or its answer is lost
               "fetch",     \* the fetch of a report fails
               "reject",    \* a worker's own validation rejects
               "crash",     \* a worker dies
               "restart",   \* a dead worker process comes back
               "abort",     \* an operator posts /v1/abort to a worker
               "interrupt"} \* SIGINT or SIGTERM at the coordinator

ASSUME CoordinatorAssumption ==
    /\ Home \in [Tenants -> Workers]
    /\ DropoutTimeout \in Nat
    /\ Stale \subseteq Workers
    /\ Faults \subseteq FaultKinds

VARIABLES
    phase,     \* what the CLI is doing
    cancelled, \* the signal context is done
    cstate,    \* workerState.state
    silence,   \* intervals since workerState.lastHeartbeat, -1 when it is zero
    call,      \* where the coordinator's goroutine for a worker is
    beat,      \* the state carried by a heartbeat reply on its way ("idle" if none)
    merged,    \* <<worker, run>> of the reports AggregateReports collected
    up,        \* the worker process is alive
    run,       \* RunnerWorkerHandler.current: the run it holds
    wstate,    \* runState.state, "idle" when it holds none
    report,    \* the run of runState.finalReport
    stopping,  \* runState.ctx is cancelled
    late,      \* workers whose assignment was given up and may still be served
    finished,  \* history: <<worker, run>> whose run loop came to its end
    acked,     \* history: workers whose acceptance reached the coordinator
    lost       \* history: a call to a living worker has failed while polling or
               \* fetching, or an assignment was taken after the dispatch

coord  == <<phase, cancelled, cstate, silence, call, beat, merged>>
proc   == <<up, run, wstate, report, stopping, late>>
worker == <<proc, finished, acked, lost>>
vars   == <<coord, worker>>

Runs     == {"none", "previous", "ours"}
Terminal == {"done", "aborted", "failed", "dropped"}
Live     == {"ramp", "running"}
WStates  == {"idle"} \cup Live \cup {"done", "failed"}
CStates  == {""} \cup WStates \cup {"dropped"}
Silences == {-1} \cup 0 .. DropoutTimeout + 1
Calls    == {"none", "asked", "accepted", "rejected", "beat", "answered"}

TypeOK ==
    /\ phase \in {"dispatch", "poll", "aggregate", "exited"}
    /\ cancelled \in BOOLEAN
    /\ cstate \in [Workers -> CStates]
    /\ silence \in [Workers -> Silences]
    /\ call \in [Workers -> Calls]
    /\ beat \in [Workers -> WStates]
    /\ merged \subseteq Workers \X Runs
    /\ up \in [Workers -> BOOLEAN]
    /\ run \in [Workers -> Runs]
    /\ wstate \in [Workers -> WStates]
    /\ report \in [Workers -> Runs]
    /\ stopping \in [Workers -> BOOLEAN]
    /\ late \subseteq Workers
    /\ finished \subseteq Workers \X Runs
    /\ acked \subseteq Workers
    /\ lost \in BOOLEAN

-----------------------------------------------------------------------------
\* partitionTenants: the chunk of a worker.
Chunk(w) == {t \in Tenants : Home[t] = w}

isTerminalState(s) == s \in Terminal

AllAt(c) == \A w \in Workers : call[w] = c

\* NewCoordinator has reached every worker and Dispatch has started a
\* goroutine for each; a stale worker is running or has finished another run.
Init ==
    /\ phase = "dispatch"
    /\ cancelled = FALSE
    /\ cstate = [w \in Workers |-> ""]
    /\ silence = [w \in Workers |-> -1]
    /\ call = [w \in Workers |-> "asked"]
    /\ beat = [w \in Workers |-> "idle"]
    /\ merged = {}
    /\ up = [w \in Workers |-> TRUE]
    /\ \E busy \in SUBSET Stale : \E over \in SUBSET busy :
         /\ run = [w \in Workers |-> IF w \in busy THEN "previous" ELSE "none"]
         /\ wstate = [w \in Workers |-> CASE w \in over        -> "done"
                                          [] w \in busy \ over -> "running"
                                          [] OTHER             -> "idle"]
         /\ report = [w \in Workers |-> IF w \in over THEN "previous" ELSE "none"]
         /\ finished = over \X {"previous"}
    /\ stopping = [w \in Workers |-> FALSE]
    /\ late = {}
    /\ acked = {}
    /\ lost = FALSE

-----------------------------------------------------------------------------
(* Dispatch: one Assign per worker, all concurrent. *)

\* What Accept leaves in RunnerWorkerHandler.current: a run, or none.
Current(w, r, s) ==
    /\ run' = [run EXCEPT ![w] = r]
    /\ wstate' = [wstate EXCEPT ![w] = s]
    /\ report' = [report EXCEPT ![w] = "none"]
    /\ stopping' = [stopping EXCEPT ![w] = FALSE]

\* Accept refuses: busy, invalid, or nothing of the manifest is in the chunk.
Refuses(w) ==
    /\ wstate[w] \in Live \/ Chunk(w) = {} \/ "reject" \in Faults
    /\ UNCHANGED <<run, wstate, report, stopping>>

\* Accept gets as far as runner.New, which fails: the previous run is forgotten.
InitFails(w) ==
    /\ wstate[w] \notin Live /\ Chunk(w) # {}
    /\ "reject" \in Faults
    /\ Current(w, "none", "idle")

\* Mutant of Takes: the handler answers with the report of the run before.
TakesKeepsReport(w) ==
    /\ wstate[w] \notin Live /\ Chunk(w) # {}
    /\ run' = [run EXCEPT ![w] = "ours"]
    /\ wstate' = [wstate EXCEPT ![w] = "ramp"]
    /\ stopping' = [stopping EXCEPT ![w] = FALSE]
    /\ UNCHANGED report

\* Accept replaces the worker's run by ours and starts its run loop.
Takes(w) ==
    /\ wstate[w] \notin Live /\ Chunk(w) # {}
    /\ Current(w, "ours", "ramp")

AcceptReject(w) ==
    /\ phase = "dispatch" /\ call[w] = "asked" /\ up[w]
    /\ Refuses(w) \/ InitFails(w)
    /\ call' = [call EXCEPT ![w] = "rejected"]
    /\ UNCHANGED <<phase, cancelled, cstate, silence, beat, merged, up, late, finished, acked, lost>>

Accept(w) ==
    /\ phase = "dispatch" /\ call[w] = "asked" /\ up[w]
    /\ Takes(w)
    /\ call' = [call EXCEPT ![w] = "accepted"]
    /\ UNCHANGED <<phase, cancelled, cstate, silence, beat, merged, up, late, finished, acked, lost>>

\* The answer arrives.  Only an acceptance touches workerState.
AssignReply(w) ==
    /\ phase = "dispatch" /\ call[w] \in {"accepted", "rejected"}
    /\ call' = [call EXCEPT ![w] = "answered"]
    /\ \/ /\ call[w] = "accepted"
          /\ cstate' = [cstate EXCEPT ![w] = "running"]
          /\ silence' = [silence EXCEPT ![w] = 0]
          /\ acked' = acked \cup {w}
       \/ /\ call[w] = "rejected"
          /\ UNCHANGED <<cstate, silence, acked>>
    /\ UNCHANGED <<phase, cancelled, beat, merged, proc, finished, lost>>

\* Assign fails: the request or its answer is lost, the worker is dead, or the
\* context is done.  A request that is on its way may be served all the same.
AssignError(w) ==
    /\ phase = "dispatch" /\ call[w] \in {"asked", "accepted", "rejected"}
    /\ "assign" \in Faults \/ cancelled \/ ~up[w]
    /\ call' = [call EXCEPT ![w] = "answered"]
    /\ \/ UNCHANGED late
       \/ call[w] = "asked" /\ up[w] /\ late' = late \cup {w}
    /\ UNCHANGED <<phase, cancelled, cstate, silence, beat, merged,
                   up, run, wstate, report, stopping, finished, acked, lost>>

\* handleAssign serves a request the coordinator no longer waits for.
LateServe(w) ==
    /\ w \in late /\ up[w]
    /\ late' = late \ {w}
    /\ \/ (Refuses(w) \/ InitFails(w)) /\ UNCHANGED lost
       \/ Takes(w) /\ lost' = (lost \/ phase # "dispatch")
    /\ UNCHANGED <<coord, up, finished, acked>>

\* Whatever Dispatch returned, runCoordinator goes on to poll.
DispatchDone ==
    /\ phase = "dispatch" /\ AllAt("answered")
    /\ phase' = "poll"
    /\ call' = [w \in Workers |-> "none"]
    /\ UNCHANGED <<cancelled, cstate, silence, beat, merged, worker>>

-----------------------------------------------------------------------------
(* PollUntilDone: rounds of one heartbeat per worker. *)

\* The ticker fires and pollOnce starts a goroutine per worker.
PollStart ==
    /\ phase = "poll" /\ AllAt("none")
    /\ call' = [w \in Workers |-> "asked"]
    /\ UNCHANGED <<phase, cancelled, cstate, silence, beat, merged, worker>>

\* heartbeatOne returns at once for a worker in a terminal state.
HeartbeatSkip(w) ==
    /\ phase = "poll" /\ call[w] = "asked" /\ isTerminalState(cstate[w])
    /\ call' = [call EXCEPT ![w] = "answered"]
    /\ UNCHANGED <<phase, cancelled, cstate, silence, beat, merged, worker>>

\* The worker's Heartbeat handler.
HeartbeatServe(w) ==
    /\ phase = "poll" /\ call[w] = "asked" /\ ~isTerminalState(cstate[w])
    /\ up[w] /\ ~cancelled
    /\ call' = [call EXCEPT ![w] = "beat"]
    /\ beat' = [beat EXCEPT ![w] = wstate[w]]
    /\ UNCHANGED <<phase, cancelled, cstate, silence, merged, worker>>

\* heartbeatOne with an answer.
HeartbeatReply(w) ==
    /\ phase = "poll" /\ call[w] = "beat"
    /\ call' = [call EXCEPT ![w] = "answered"]
    /\ silence' = [silence EXCEPT ![w] = 0]
    /\ cstate' = [cstate EXCEPT ![w] = beat[w]]
    /\ beat' = [beat EXCEPT ![w] = "idle"]
    /\ UNCHANGED <<phase, cancelled, merged, worker>>

\* Mutant of HeartbeatError: a terminal worker is dropped as well.
HeartbeatErrorAny(w) ==
    /\ phase = "poll" /\ call[w] \in {"asked", "beat"}
    /\ "poll" \in Faults \/ ~up[w] \/ cancelled
    /\ call' = [call EXCEPT ![w] = "answered"]
    /\ cstate' = IF silence[w] > DropoutTimeout
                 THEN [cstate EXCEPT ![w] = "dropped"] ELSE cstate
    /\ beat' = [beat EXCEPT ![w] = "idle"]
    /\ lost' = (lost \/ up[w])
    /\ UNCHANGED <<phase, cancelled, silence, merged, proc, finished, acked>>

\* Mutant of HeartbeatError: no worker is ever declared dropped.
HeartbeatErrorNoDrop(w) ==
    /\ phase = "poll" /\ call[w] \in {"asked", "beat"} /\ ~isTerminalState(cstate[w])
    /\ "poll" \in Faults \/ ~up[w] \/ cancelled
    /\ call' = [call EXCEPT ![w] = "answered"]
    /\ beat' = [beat EXCEPT ![w] = "idle"]
    /\ lost' = (lost \/ up[w])
    /\ UNCHANGED <<phase, cancelled, cstate, silence, merged, proc, finished, acked>>

\* heartbeatOne with an error: the dropout window, which needs a first contact.
HeartbeatError(w) ==
    /\ phase = "poll" /\ call[w] \in {"asked", "beat"} /\ ~isTerminalState(cstate[w])
    /\ "poll" \in Faults \/ ~up[w] \/ cancelled
    /\ call' = [call EXCEPT ![w] = "answered"]
    /\ cstate' = IF silence[w] > DropoutTimeout
                 THEN [cstate EXCEPT ![w] = "dropped"] ELSE cstate
    /\ beat' = [beat EXCEPT ![w] = "idle"]
    /\ lost' = (lost \/ up[w])
    /\ UNCHANGED <<phase, cancelled, silence, merged, proc, finished, acked>>

\* The round is over; PollUntilDone returns when allTerminal.
PollDone ==
    /\ phase = "poll" /\ AllAt("answered")
    /\ \/ /\ \A w \in Workers : isTerminalState(cstate[w])
          /\ phase' = "aggregate"
          /\ call' = [w \in Workers |-> "asked"]
       \/ /\ \E w \in Workers : ~isTerminalState(cstate[w])
          /\ phase' = phase
          /\ call' = [w \in Workers |-> "none"]
    /\ UNCHANGED <<cancelled, cstate, silence, beat, merged, worker>>

\* PollUntilDone returns ctx.Err(); runCoordinator goes on to aggregate.
PollCancelled ==
    /\ phase = "poll" /\ AllAt("none") /\ cancelled
    /\ phase' = "aggregate"
    /\ call' = [w \in Workers |-> "asked"]
    /\ UNCHANGED <<cancelled, cstate, silence, beat, merged, worker>>

-----------------------------------------------------------------------------
(* AggregateReports and mergeReports. *)

FetchDropped(w) ==
    /\ phase = "aggregate" /\ call[w] = "asked" /\ cstate[w] = "dropped"
    /\ call' = [call EXCEPT ![w] = "answered"]
    /\ UNCHANGED <<phase, cancelled, cstate, silence, beat, merged, worker>>

FetchReport(w) ==
    /\ phase = "aggregate" /\ call[w] = "asked" /\ cstate[w] # "dropped"
    /\ up[w] /\ report[w] # "none"
    /\ call' = [call EXCEPT ![w] = "answered"]
    /\ merged' = merged \cup {<<w, report[w]>>}
    /\ UNCHANGED <<phase, cancelled, cstate, silence, beat, worker>>

\* The fetch fails, or the worker answers that it has no report yet.
FetchMissing(w) ==
    /\ phase = "aggregate" /\ call[w] = "asked" /\ cstate[w] # "dropped"
    /\ "fetch" \in Faults \/ ~up[w] \/ report[w] = "none"
    /\ call' = [call EXCEPT ![w] = "answered"]
    /\ lost' = (lost \/ (up[w] /\ report[w] # "none"))
    /\ UNCHANGED <<phase, cancelled, cstate, silence, beat, merged, proc, finished, acked>>

\* run.json is written and the process ends; no worker is told.
Exit ==
    /\ phase = "aggregate" /\ AllAt("answered")
    /\ phase' = "exited"
    /\ UNCHANGED <<cancelled, cstate, silence, call, beat, merged, worker>>

-----------------------------------------------------------------------------
(* Time and signals. *)

\* A polling interval passes.  Silence beyond the timeout is all alike.
Tick ==
    /\ phase \in {"dispatch", "poll"}
    /\ \E w \in Workers : silence[w] \in 0 .. DropoutTimeout
    /\ silence' = [w \in Workers |-> IF silence[w] \in 0 .. DropoutTimeout
                                     THEN silence[w] + 1 ELSE silence[w]]
    /\ UNCHANGED <<phase, cancelled, cstate, call, beat, merged, worker>>

Interrupt ==
    /\ "interrupt" \in Faults
    /\ phase \in {"dispatch", "poll"} /\ ~cancelled
    /\ cancelled' = TRUE
    /\ UNCHANGED <<phase, cstate, silence, call, beat, merged, worker>>

-----------------------------------------------------------------------------
(* The worker process. *)

RunLoopStart(w) ==
    /\ up[w] /\ wstate[w] = "ramp"
    /\ wstate' = [wstate EXCEPT ![w] = "running"]
    /\ UNCHANGED <<coord, up, run, report, stopping, late, finished, acked, lost>>

\* Mutant of RunLoopEnd: the state is published, the report is not.
RunLoopEndNoReport(w) ==
    /\ up[w] /\ wstate[w] = "running"
    /\ \E s \in {"done", "failed"} : wstate' = [wstate EXCEPT ![w] = s]
    /\ finished' = finished \cup {<<w, run[w]>>}
    /\ UNCHANGED <<coord, up, run, report, stopping, late, acked, lost>>

\* Runner.Run always returns a result, and no cancelled context as its error,
\* so the loop ends "done" or "failed" and the report is set under one lock.
RunLoopEnd(w) ==
    /\ up[w] /\ wstate[w] = "running"
    /\ \E s \in {"done", "failed"} : wstate' = [wstate EXCEPT ![w] = s]
    /\ report' = [report EXCEPT ![w] = run[w]]
    /\ finished' = finished \cup {<<w, run[w]>>}
    /\ UNCHANGED <<coord, up, run, stopping, late, acked, lost>>

\* Abort cancels whatever run the worker holds; the RunID is not looked at.
Abort(w) ==
    /\ "abort" \in Faults
    /\ up[w] /\ run[w] # "none"
    /\ stopping' = [stopping EXCEPT ![w] = TRUE]
    /\ UNCHANGED <<coord, up, run, wstate, report, late, finished, acked, lost>>

Crash(w) ==
    /\ "crash" \in Faults
    /\ up[w]
    /\ up' = [up EXCEPT ![w] = FALSE]
    /\ Current(w, "none", "idle")
    /\ late' = late \ {w}
    /\ UNCHANGED <<coord, finished, acked, lost>>

\* The process comes back with a handler that holds no run.
Restart(w) ==
    /\ "restart" \in Faults
    /\ ~up[w]
    /\ up' = [up EXCEPT ![w] = TRUE]
    /\ UNCHANGED <<coord, run, wstate, report, stopping, late, finished, acked, lost>>

-----------------------------------------------------------------------------
CallStep(w) ==
    \/ AcceptReject(w) \/ Accept(w)
    \/ AssignReply(w) \/ AssignError(w)
    \/ HeartbeatSkip(w) \/ HeartbeatServe(w) \/ HeartbeatReply(w) \/ HeartbeatError(w)
    \/ FetchDropped(w) \/ FetchReport(w) \/ FetchMissing(w)

MainStep == DispatchDone \/ PollStart \/ PollDone \/ PollCancelled \/ Exit

RunStep(w) == RunLoopStart(w) \/ RunLoopEnd(w)

WorkerFault(w) == LateServe(w) \/ Abort(w) \/ Crash(w) \/ Restart(w)

Next ==
    \/ MainStep \/ Tick \/ Interrupt
    \/ \E w \in Workers : CallStep(w) \/ RunStep(w) \/ WorkerFault(w)

Spec == Init /\ [][Next]_vars

\* The coordinator's goroutines are scheduled and their calls time out, the
\* clock runs, and a run loop ends (a scenario has a duration).
Fairness ==
    /\ WF_vars(MainStep)
    /\ WF_vars(Tick)
    /\ \A w \in Workers : WF_vars(CallStep(w)) /\ WF_vars(RunStep(w))

FairSpec == Spec /\ Fairness

-----------------------------------------------------------------------------
(* Properties. *)

\* A worker the coordinator has seen done, failed or dropped stays so: no
\* heartbeat of an earlier round and no later answer changes workerState.state
\* (heartbeatOne's early return).
TerminalSticks ==
    [][\A w \in Workers : isTerminalState(cstate[w]) => cstate'[w] = cstate[w]]_vars

\* A merged report is final: its run came to its end on that worker, which is not
\* also counted as dropped; and it is the report of an earlier run, which nothing
\* in AggregateReports compares with RunID, only of a worker whose acceptance
\* never arrived, so that Dispatch has named it in its error.
MergedIsFinal ==
    \A w \in Workers, r \in Runs :
      <<w, r>> \in merged =>
        /\ <<w, r>> \in finished /\ cstate[w] # "dropped"
        /\ r # "ours" => w \notin acked

\* When every worker took the run and still holds it, and no call to a living
\* worker failed, the report an uninterrupted CLI writes holds the traffic of
\* every tenant exactly once: each tenant's worker has finished our run and it
\* is our run's report that is merged, also when its acceptance was lost or it
\* held another run before (runLoop publishes state and report together).
EveryTenantReported ==
    phase = "exited" /\ ~cancelled /\ ~lost /\ (\A w \in Workers : run[w] = "ours") =>
      \A t \in Tenants : \E w \in Workers :
        t \in Chunk(w) /\ \A r \in Runs : <<w, r>> \in merged <=> r = "ours"

\* Both sides of the protocol stay well formed, and a run that nothing was lost
\* of reports the traffic of every tenant exactly once.
TenantsReported == TypeOK /\ EveryTenantReported

\* PollUntilDone returns, without any condition.
PollReturns == <>(phase = "exited")

\* A worker that the coordinator has never heard from, or that is back again and
\* again and holds no run, is polled for ever.
PolledForEver(w) ==
    \/ <>[](~isTerminalState(cstate[w]) /\ silence[w] = -1)
    \/ <>[](~isTerminalState(cstate[w]) /\ wstate[w] = "idle") /\ []<>up[w]

\* The coordinator gets to its end: every worker is seen terminal or is dropped
\* (PollUntilDone), whatever calls are lost, whichever workers die, come back or
\* are aborted, and whenever; except that it polls for ever a worker it never
\* had an answer from, or one that keeps answering without a run.
PollTerminates == <>(phase = "exited") \/ \E w \in Workers : PolledForEver(w)
=============================================================================
