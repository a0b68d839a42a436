--------------------------- MODULE LifecycleProofs ---------------------------
(***************************************************************************)
(* Theorems about Lifecycle, for any subscriptions, any set of enabled     *)
(* kinds, any retry limit and any number of firings and platform moves.    *)
(***************************************************************************)
EXTENDS Lifecycle, TLAPS, FiniteSetTheorems

USE DEF platform, picker, resumes, run

\* The types, with the counter of the WaitGroup only known to be an integer.
Types ==
    /\ plat \in [Subs -> States]
    /\ live \in [Subs -> States]
    /\ susp \in [Subs -> BOOLEAN]
    /\ seen \in [Subs -> [Kinds \cup {"RESUME"} -> States \cup {"", NoKey}]]
    /\ moves \in 0..MaxMoves
    /\ task \in [Kinds -> Task]
    /\ timer \in [Subs -> {"none", "armed"} \cup InCallback]
    /\ wg \in Int
    /\ logOK \in BOOLEAN
    /\ violation \subseteq AllKinds
    /\ agent \in {"running", "cancelling", "draining", "joining", "returned"}
    /\ cancelled \in BOOLEAN
    /\ fires \in 0..MaxFires
    /\ churned \subseteq Subs
    /\ late \in BOOLEAN

\* A walker cannot count more attempts than were fired.
Counts ==
    /\ count \in [Subs -> Nat]
    /\ \A s \in Subs : count[s] <= fires

\* A transition in flight was picked for a subscription, from a state that
\* allows it; only the walker escalates.
Tasks == \A k \in Kinds :
    /\ task[k].pc # "idle" => task[k].sub \in Subs /\ CanFireFrom(k, task[k].from)
    /\ task[k].pc = "escalate" => k = "RETRY_PAYMENT"

\* A pause in flight has no resume outstanding yet, and holds its subscription by
\* the time it schedules one.
Pauses == \A k \in Kinds :
    /\ task[k].pc = "sched" => k = "PAUSE" /\ susp[task[k].sub]
    /\ k = "PAUSE" /\ task[k].pc # "idle" => ~Outstanding(task[k].sub)

\* After Cancel has stopped the timers only a late Schedule arms one, and after
\* its wait only such a timer is outstanding.
Drains ==
    /\ agent = "draining" /\ ~late => \A s \in Subs : timer[s] # "armed"
    /\ agent \in {"joining", "returned"} /\ ~late => \A s \in Subs : ~Outstanding(s)

\* A subscription that was given up is suspended, and nothing is under way that
\* would bring it back.
GivenUp == \A s \in churned : susp[s] /\ ~Paused(s)

IInv == Types /\ Counts /\ Tasks /\ Pauses /\ QuietWhilePaused /\ WgBalanced /\ Drains
             /\ Check10Clean /\ GivenUp

LEMMA OutcomesInStates ==
    ASSUME NEW k \in AllKinds \ {"DUNNING_STEP"}, NEW st \in States
    PROVE  Outcomes(k, st) \subseteq States /\ ExpectedPostState(k, st) \in States
  BY DEF Outcomes, ExpectedPostState, States, AllKinds, TickerKinds

\* A ticker's record stays one when a field is given a value of its type.
LEMMA IdleTask == Idle \in Task
  BY DEF Task, Idle, TaskPc

LEMMA TaskPcUpdate ==
    ASSUME NEW t \in Task, NEW pc \in TaskPc
    PROVE  /\ [t EXCEPT !.pc = pc] \in Task
           /\ [t EXCEPT !.pc = pc].pc = pc
           /\ [t EXCEPT !.pc = pc].sub = t.sub
           /\ [t EXCEPT !.pc = pc].from = t.from
  <1>1. [t EXCEPT !.pc = pc] \in Task
    BY DEF Task
  <1> QED
    BY <1>1 DEF Task

\* What each step of a ticker makes of its record: it starts idle or goes back to
\* idle, it is filled by a pick, or it moves on with the same subscription.
Moved(k, t) ==
    /\ t \in Task
    /\ task' = [task EXCEPT ![k] = t]
    /\ t.pc # "idle" => t.sub = task[k].sub /\ t.from = task[k].from
    /\ t.pc # "escalate"
    /\ t.pc = "sched" => k = "PAUSE" /\ Mark(k)

LEMMA TickerMoves ==
    ASSUME Types, Tasks, NEW k \in Kinds,
           Serve(k) \/ Network(k) \/ Ticker(k)
    PROVE  /\ task[k].pc # "idle"
           /\ \E t \in Task : Moved(k, t)
  <1> USE DEF Types
  <1>0. task[k] \in Task /\ task[k].sub \in Subs \cup {"none"}
    BY DEF Task
  <1>1. CASE Serve(k)
    <2>1. PICK post \in States, status \in States \cup {""} :
             /\ Accept(k, task[k].sub, post, status)
             /\ \/ task' = [task EXCEPT ![k] = [@ EXCEPT !.pc = "ok", !.status = status]]
                \/ task' = [task EXCEPT ![k] = [@ EXCEPT !.pc = "err"]]
      BY <1>1 DEF Serve
    <2>2. CASE task' = [task EXCEPT ![k] = [@ EXCEPT !.pc = "ok", !.status = status]]
      <3> DEFINE u == [task[k] EXCEPT !.pc = "ok", !.status = status]
      <3>1. "ok" \in TaskPc
        BY DEF TaskPc
      <3>2. u \in Task /\ u.sub = task[k].sub /\ u.from = task[k].from /\ u.pc = "ok"
        <4>1. u \in Task
          BY <1>0, <3>1 DEF Task
        <4> QED
          BY <1>0, <4>1 DEF Task
      <3>3. task' = [task EXCEPT ![k] = u]
        BY <2>2
      <3> HIDE DEF u
      <3> QED
        BY <1>1, <3>2, <3>3 DEF Serve, Moved
    <2>3. CASE task' = [task EXCEPT ![k] = [@ EXCEPT !.pc = "err"]]
      <3>1. Moved(k, [task[k] EXCEPT !.pc = "err"])
        BY <1>0, <2>3, TaskPcUpdate DEF Moved, TaskPc
      <3> QED
        BY <1>1, <3>1 DEF Serve, Moved
    <2> QED
      BY <2>1, <2>2, <2>3
  <1>2. CASE Replay(k)
    <2>1. task[k].sub \in Subs
      BY <1>2 DEF Replay, Tasks
    <2>2. seen[task[k].sub] \in [Kinds \cup {"RESUME"} -> States \cup {"", NoKey}]
      BY <2>1
    <2>3. seen[task[k].sub][k] \in States \cup {""}
      BY <1>2, <2>2 DEF Replay
    <2> DEFINE u == [task[k] EXCEPT !.pc = "ok", !.status = seen[task[k].sub][k]]
    <2>4. "ok" \in TaskPc
      BY DEF TaskPc
    <2>5. u \in Task /\ u.sub = task[k].sub /\ u.from = task[k].from /\ u.pc = "ok"
      <3>1. u \in Task
        BY <1>0, <2>3, <2>4 DEF Task
      <3> QED
        BY <1>0, <3>1 DEF Task
    <2>6. task' = [task EXCEPT ![k] = u]
      BY <1>2 DEF Replay
    <2> HIDE DEF u
    <2> QED
      BY <1>2, <2>5, <2>6 DEF Replay, Moved
  <1>3. CASE Reject(k)
    <2>1. Moved(k, [task[k] EXCEPT !.pc = "err"])
      BY <1>0, <1>3, TaskPcUpdate DEF Reject, Moved, TaskPc
    <2> QED
      BY <1>3, <2>1 DEF Reject, Moved
  <1>4. ASSUME Moved(k, Idle) \/ (\E pc \in TaskPc : Moved(k, [task[k] EXCEPT !.pc = pc]))
        PROVE  \E t \in Task : Moved(k, t)
    BY <1>4 DEF Moved
  <1>5. CASE Failed(k) \/ Schedule(k)
    <2>1. Moved(k, Idle)
      BY <1>5, IdleTask DEF Failed, Schedule, Moved, Idle
    <2> QED
      BY <1>4, <1>5, <2>1 DEF Failed, Schedule
  <1>6. CASE Succeed(k) \/ Escalate(k) \/ Mark(k)
    <2>1. PICK pc \in {"mark", "sched"} :
            \/ task' = [task EXCEPT ![k] = Idle]
            \/ /\ task' = [task EXCEPT ![k] = [@ EXCEPT !.pc = pc]]
               /\ pc = "sched" => k = "PAUSE" /\ Mark(k)
      BY <1>6 DEF Succeed, Escalate, Mark
    <2> DEFINE u == [task[k] EXCEPT !.pc = pc]
    <2>2. pc \in TaskPc
      BY DEF TaskPc
    <2>3. u \in Task /\ u.sub = task[k].sub /\ u.from = task[k].from /\ u.pc = pc
      BY <1>0, <2>2, TaskPcUpdate
    <2>4. \/ task' = [task EXCEPT ![k] = Idle]
          \/ task' = [task EXCEPT ![k] = u] /\ (u.pc = "sched" => k = "PAUSE" /\ Mark(k))
      BY <2>1, <2>3
    <2>5. Idle.pc = "idle"
      BY DEF Idle
    <2> HIDE DEF u
    <2> QED
      BY <1>6, <2>3, <2>4, <2>5, IdleTask DEF Succeed, Escalate, Mark, Moved
  <1> QED
    BY <1>1, <1>2, <1>3, <1>5, <1>6 DEF Network, Ticker

\* A pick fills the record, or leaves it idle.
LEMMA FireMoves ==
    ASSUME Types, NEW k \in Kinds, Fire(k)
    PROVE  \E t \in Task :
             /\ task' = [task EXCEPT ![k] = t]
             /\ t.pc \in {"idle", "sent", "err", "escalate"}
             /\ t.pc = "escalate" => k = "RETRY_PAYMENT"
             /\ t.pc # "idle" => /\ t.sub \in Subs
                                /\ ~susp[t.sub]
                                /\ t.from = live[t.sub]
                                /\ CanFireFrom(k, t.from)
  <1>1. PICK s \in Subs :
          /\ Eligible(k, s)
          /\ task' = [task EXCEPT ![k] =
              IF k \in {"UPGRADE", "DOWNGRADE", "MIGRATE"} /\ s \in Offerless THEN Idle
              ELSE IF Escalates(k, s)
              THEN [pc |-> "escalate", sub |-> s, from |-> live[s], status |-> ""]
              ELSE IF ~logOK THEN Idle
              ELSE [pc |-> IF cancelled THEN "err" ELSE "sent",
                    sub |-> s, from |-> live[s], status |-> ""]]
    BY DEF Fire
  <1>2. live[s] \in States
    BY DEF Types
  <1>3. ASSUME NEW pc \in {"sent", "err", "escalate"}
        PROVE  [pc |-> pc, sub |-> s, from |-> live[s], status |-> ""] \in Task
    BY <1>2, <1>3 DEF Task, TaskPc
  <1>4. CASE task' = [task EXCEPT ![k] = Idle]
    BY <1>4, IdleTask DEF Idle
  <1>5. CASE \E pc \in {"sent", "err", "escalate"} :
              /\ task' = [task EXCEPT ![k] =
                            [pc |-> pc, sub |-> s, from |-> live[s], status |-> ""]]
              /\ pc = "escalate" => k = "RETRY_PAYMENT"
    BY <1>1, <1>3, <1>5 DEF Eligible
  <1> QED
    BY <1>1, <1>4, <1>5 DEF Escalates

LEMMA TypesInit == Init => Types /\ Counts /\ Tasks
  <1> SUFFICES ASSUME Init PROVE Types /\ Counts /\ Tasks
    OBVIOUS
  <1> USE LifecycleAssumption
  <1>1. plat \in [Subs -> States] /\ live \in [Subs -> States]
    BY DEF Init
  <1>2. task \in [Kinds -> Task] /\ Tasks
    BY IdleTask DEF Init, Tasks, Idle
  <1>3. seen \in [Subs -> [Kinds \cup {"RESUME"} -> States \cup {"", NoKey}]]
    BY DEF Init
  <1>4. Counts
    BY DEF Init, Counts
  <1>5. moves \in 0..MaxMoves /\ fires \in 0..MaxFires /\ wg \in Int
    BY DEF Init
  <1> QED
    BY <1>1, <1>2, <1>3, <1>4, <1>5 DEF Init, Types

LEMMA AppendTypes ==
    ASSUME Types, NEW kind \in AllKinds, NEW from, NEW post, Append(kind, from, post)
    PROVE  violation' \subseteq AllKinds
  <1>1. Rows(kind) \subseteq AllKinds
    BY DEF Rows, AllKinds, TickerKinds
  <1>2. violation' \subseteq violation \cup Rows(kind)
    BY DEF Append
  <1> QED
    BY <1>1, <1>2 DEF Types

LEMMA AcceptTypes ==
    ASSUME Types, NEW kind \in Kinds \cup {"RESUME"}, NEW s \in Subs, NEW post, NEW status,
           Accept(kind, s, post, status)
    PROVE  /\ plat' \in [Subs -> States]
           /\ seen' \in [Subs -> [Kinds \cup {"RESUME"} -> States \cup {"", NoKey}]]
           /\ status \in States \cup {""}
           /\ moves' = moves
  <1>1. kind \in AllKinds \ {"DUNNING_STEP"}
    BY LifecycleAssumption DEF AllKinds, TickerKinds
  <1>2. post \in States
    BY <1>1, OutcomesInStates DEF Accept, Types
  <1>3. status \in States \cup {""}
    BY <1>2 DEF Accept, Answers
  <1> QED
    BY <1>2, <1>3 DEF Accept, Types

LEMMA TypesStep == Types /\ Tasks /\ [Next]_vars => Types'
  <1> SUFFICES ASSUME Types, Tasks, [Next]_vars PROVE Types'
    OBVIOUS
  <1> USE LifecycleAssumption
  <1>0. CASE UNCHANGED vars
    BY <1>0 DEF Types, vars
  <1>n. wg \in Int /\ moves \in 0..MaxMoves /\ fires \in 0..MaxFires
    BY DEF Types
  <1>1. ASSUME NEW k \in Kinds, Fire(k) PROVE Types'
    <2>0. PICK t \in Task : task' = [task EXCEPT ![k] = t]
      BY <1>1, FireMoves
    <2>1. task' \in [Kinds -> Task]
      BY <2>0 DEF Types
    <2>2. fires < MaxFires /\ fires' = fires + 1
      BY <1>1 DEF Fire
    <2>3. fires' \in 0..MaxFires
      BY <1>n, <2>2
    <2> QED
      BY <1>1, <2>1, <2>3 DEF Fire, Types
  <1>2. ASSUME NEW k \in Kinds, Network(k) \/ Ticker(k) PROVE Types'
    <2>1. task' \in [Kinds -> Task]
      BY <1>2, TickerMoves DEF Types, Moved
    <2>2. task[k].sub \in Subs /\ task[k].from \in States
      <3>1. task[k].pc # "idle"
        BY <1>2, TickerMoves
      <3>2. task[k].sub \in Subs /\ CanFireFrom(k, task[k].from)
        BY <3>1 DEF Tasks
      <3>3. k \in TickerKinds
        OBVIOUS
      <3> QED
        BY <3>2, <3>3 DEF CanFireFrom, States, TickerKinds
    <2>3. k \in AllKinds /\ k # "DUNNING_STEP"
      BY DEF AllKinds, TickerKinds
    <2>4. CASE Serve(k)
      <3>1. PICK post \in States, status \in States \cup {""} :
              Accept(k, task[k].sub, post, status)
        BY <2>4 DEF Serve
      <3>2. /\ plat' \in [Subs -> States]
            /\ seen' \in [Subs -> [Kinds \cup {"RESUME"} -> States \cup {"", NoKey}]]
            /\ moves' = moves
        BY <2>2, <3>1, AcceptTypes
      <3> QED
        BY <2>1, <2>4, <3>2 DEF Serve, Types
    <2>5. CASE Replay(k) \/ Reject(k)
      BY <2>1, <2>5 DEF Replay, Reject, Types
    <2>6. CASE Failed(k)
      <3>1. violation' \subseteq AllKinds
        BY <2>3, <2>6, AppendTypes DEF Failed
      <3> QED
        BY <2>1, <2>6, <3>1 DEF Failed, Types
    <2>7. CASE Succeed(k)
      <3>1. task[k].status \in States \cup {""}
        BY DEF Types, Task
      <3>2. NewLive(k, task[k]) \in States
        BY <2>2, <2>3, <3>1, OutcomesInStates DEF NewLive, fromPlatformStatus, Types
      <3>3. violation' \subseteq AllKinds
        BY <2>3, <2>7, AppendTypes DEF Succeed
      <3>4. live' \in [Subs -> States]
        BY <2>2, <2>7, <3>2 DEF Succeed, Types
      <3> QED
        BY <2>1, <2>7, <3>3, <3>4 DEF Succeed, Types
    <2>8. CASE Escalate(k)
      <3>1. violation' \subseteq AllKinds
        BY <2>8, AppendTypes DEF Escalate, AllKinds
      <3>2. live' \in [Subs -> States]
        BY <2>8 DEF Escalate, Types, States
      <3> QED
        BY <2>1, <2>8, <3>1, <3>2 DEF Escalate, Types
    <2>9. CASE Mark(k)
      BY <2>1, <2>2, <2>9 DEF Mark, Types
    <2>10. CASE Schedule(k)
      <3>1. wg' \in Int
        BY <1>n, <2>10 DEF Schedule
      <3>2. timer' \in [Subs -> {"none", "armed"} \cup InCallback]
        BY <2>2, <2>10 DEF Schedule, Types
      <3>3. late' \in BOOLEAN
        BY <2>10 DEF Schedule, Types
      <3> QED
        BY <2>1, <2>10, <3>1, <3>2, <3>3 DEF Schedule, Types
    <2> QED
      BY <1>2, <2>4, <2>5, <2>6, <2>7, <2>8, <2>9, <2>10 DEF Network, Ticker
  <1>3. ASSUME NEW s \in Subs, TimerFires(s) \/ RejectResume(s) \/ ResumeMark(s) PROVE Types'
    <2>1. timer' \in [Subs -> {"none", "armed"} \cup InCallback]
      BY <1>3 DEF TimerFires, RejectResume, ResumeMark, Types, InCallback
    <2>2. susp' \in [Subs -> BOOLEAN]
      BY <1>3 DEF TimerFires, RejectResume, ResumeMark, Types
    <2>3. wg' \in Int
      BY <1>3, <1>n DEF TimerFires, RejectResume, ResumeMark
    <2> QED
      BY <1>3, <2>1, <2>2, <2>3 DEF TimerFires, RejectResume, ResumeMark, Types
  <1>4. ASSUME NEW s \in Subs, ServeResume(s) PROVE Types'
    <2>1. /\ plat' \in [Subs -> States]
          /\ seen' \in [Subs -> [Kinds \cup {"RESUME"} -> States \cup {"", NoKey}]]
          /\ moves' = moves
      BY <1>4, AcceptTypes DEF ServeResume
    <2>2. timer' \in [Subs -> {"none", "armed"} \cup InCallback]
      BY <1>4 DEF ServeResume, Types, InCallback
    <2> QED
      BY <1>4, <2>1, <2>2 DEF ServeResume, Types
  <1>5. ASSUME NEW s \in Subs, ResumeOutcome(s) PROVE Types'
    <2>1. violation' \subseteq AllKinds
      BY <1>5, AppendTypes DEF ResumeOutcome, AllKinds
    <2>2. timer' \in [Subs -> {"none", "armed"} \cup InCallback]
      BY <1>5 DEF ResumeOutcome, Types, InCallback
    <2>3. live' \in [Subs -> States]
      BY <1>5 DEF ResumeOutcome, Types, States
    <2> QED
      BY <1>5, <2>1, <2>2, <2>3 DEF ResumeOutcome, Types
  <1>6. ASSUME NEW s \in Subs, PlatformMoves(s) PROVE Types'
    <2>1. \A t \in States : legalNextStates[t] \subseteq States
      BY DEF legalNextStates, States
    <2>2. plat' \in [Subs -> States] /\ moves' \in 0..MaxMoves
      <3>1. plat' \in [Subs -> States]
        BY <1>6, <2>1 DEF PlatformMoves, Types
      <3> QED
        BY <1>6, <1>n, <3>1 DEF PlatformMoves
    <2> QED
      BY <1>6, <2>2 DEF PlatformMoves, Types
  <1>7. CASE CancelResumes
    <2>1. {s \in Subs : timer[s] = "armed"} \in SUBSET Subs
      OBVIOUS
    <2>2. Cardinality({s \in Subs : timer[s] = "armed"}) \in Nat
      BY <2>1, FS_Subset, FS_CardinalityType
    <2>3. wg' \in Int
      BY <1>7, <1>n, <2>2 DEF CancelResumes
    <2>4. timer' \in [Subs -> {"none", "armed"} \cup InCallback]
      BY <1>7 DEF CancelResumes, Types
    <2> QED
      BY <1>7, <2>3, <2>4 DEF CancelResumes, Types
  <1>8. CASE CtxDone \/ Drained \/ Return \/ LogFails
    BY <1>8 DEF CtxDone, Drained, Return, LogFails, Types
  <1> QED
    BY <1>0, <1>1, <1>2, <1>3, <1>4, <1>5, <1>6, <1>7, <1>8
    DEF Next, Callback, Shutdown

LEMMA TasksStep == Types /\ Tasks /\ [Next]_vars => Tasks'
  <1> SUFFICES ASSUME Types, Tasks, [Next]_vars PROVE Tasks'
    OBVIOUS
  <1>1. ASSUME NEW k \in Kinds, Fire(k) PROVE Tasks'
    <2>1. PICK t \in Task :
             /\ task' = [task EXCEPT ![k] = t]
             /\ t.pc = "escalate" => k = "RETRY_PAYMENT"
             /\ t.pc # "idle" => t.sub \in Subs /\ CanFireFrom(k, t.from)
      BY <1>1, FireMoves
    <2>2. \A j \in Kinds : task'[j] = IF j = k THEN t ELSE task[j]
      BY <2>1 DEF Types
    <2> QED
      BY <2>1, <2>2 DEF Tasks
  <1>2. ASSUME NEW k \in Kinds, Network(k) \/ Ticker(k) PROVE Tasks'
    <2>1. PICK t \in Task : Moved(k, t)
      BY <1>2, TickerMoves
    <2>2. task[k].sub \in Subs /\ CanFireFrom(k, task[k].from)
      BY <1>2, TickerMoves DEF Tasks
    <2> QED
      BY <2>1, <2>2 DEF Tasks, Types, Moved
  <1>3. CASE UNCHANGED task
    BY <1>3 DEF Tasks
  <1> QED
    BY <1>1, <1>2, <1>3 DEF Next, vars, Callback, Shutdown, TimerFires, ServeResume,
       RejectResume, ResumeOutcome, ResumeMark, PlatformMoves, CtxDone, CancelResumes, Drained,
       Return, LogFails

LEMMA CountsStep == Types /\ Counts /\ [Next]_vars => Counts'
  <1> SUFFICES ASSUME Types, Counts, [Next]_vars PROVE Counts'
    OBVIOUS
  <1>0. fires \in Nat
    <2>1. fires \in 0..MaxFires
      BY DEF Types
    <2> QED
      BY <2>1
  <1>1. ASSUME NEW k \in Kinds, Fire(k) PROVE Counts'
    <2>1. fires' = fires + 1
      BY <1>1 DEF Fire
    <2>2. \E s \in Subs : count' = count \/ count' = [count EXCEPT ![s] = @ + 1]
      BY <1>1 DEF Fire
    <2> QED
      BY <1>0, <2>1, <2>2 DEF Counts
  <1>2. CASE UNCHANGED <<count, fires>>
    BY <1>2 DEF Counts
  <1> QED
    BY <1>1, <1>2 DEF Next, vars, Network, Ticker, Callback, Shutdown, TimerFires, ServeResume,
       RejectResume, ResumeOutcome, ResumeMark, PlatformMoves, CtxDone, CancelResumes, Drained,
       Return, LogFails, Serve, Replay, Reject, Failed, Succeed, Escalate, Mark, Schedule

-----------------------------------------------------------------------------
(* The quiet period. *)

LEMMA QuietStep ==
    Types /\ Tasks /\ Pauses /\ QuietWhilePaused /\ [Next]_vars => Pauses' /\ QuietWhilePaused'
  <1> SUFFICES ASSUME Types, Tasks, Pauses, QuietWhilePaused, [Next]_vars
               PROVE  Pauses' /\ QuietWhilePaused'
    OBVIOUS
  <1>1. ASSUME NEW k \in Kinds, Fire(k) PROVE Pauses' /\ QuietWhilePaused'
    <2>1. UNCHANGED <<susp, timer>>
      BY <1>1 DEF Fire
    <2>2. PICK t \in Task :
             /\ task' = [task EXCEPT ![k] = t]
             /\ t.pc # "sched"
             /\ t.pc # "idle" => t.sub \in Subs /\ ~susp[t.sub]
      BY <1>1, FireMoves
    <2>3. \A j \in Kinds : task'[j] = IF j = k THEN t ELSE task[j]
      BY <2>2 DEF Types
    <2>4. \A s : Outstanding(s)' <=> Outstanding(s)
      BY <2>1 DEF Outstanding
    <2>5. Pauses'
      BY <2>1, <2>2, <2>3, <2>4 DEF Pauses, QuietWhilePaused
    <2> QED
      BY <2>1, <2>4, <2>5 DEF QuietWhilePaused
  <1>2. ASSUME NEW k \in Kinds, Network(k) \/ Failed(k) \/ Succeed(k) \/ Escalate(k)
        PROVE  Pauses' /\ QuietWhilePaused'
    <2>1. UNCHANGED <<susp, timer>>
      BY <1>2 DEF Network, Serve, Replay, Reject, Failed, Succeed, Escalate
    <2>2. PICK t \in Task : Moved(k, t)
      BY <1>2, TickerMoves DEF Ticker
    <2>3. task[k].pc # "idle"
      BY <1>2, TickerMoves DEF Ticker
    <2>4. ~Mark(k)
      BY <1>2 DEF Network, Serve, Replay, Reject, Failed, Succeed, Escalate, Mark
    <2>5. \A j \in Kinds : task'[j] = IF j = k THEN t ELSE task[j]
      BY <2>2 DEF Types, Moved
    <2>6. \A s : Outstanding(s)' <=> Outstanding(s)
      BY <2>1 DEF Outstanding
    <2>7. Pauses'
      BY <2>1, <2>2, <2>3, <2>4, <2>5, <2>6 DEF Pauses, Moved
    <2> QED
      BY <2>1, <2>6, <2>7 DEF QuietWhilePaused
  <1>3. ASSUME NEW k \in Kinds, Mark(k) PROVE Pauses' /\ QuietWhilePaused'
    <2>1. PICK t \in Task : Moved(k, t)
      BY <1>3, TickerMoves DEF Ticker
    <2>2. task[k].pc # "idle" /\ task[k].sub \in Subs
      BY <1>3 DEF Mark, Tasks
    <2>3. susp' = [susp EXCEPT ![task[k].sub] = TRUE] /\ UNCHANGED timer
      BY <1>3 DEF Mark
    <2>4. \A s \in Subs : susp[s] => susp'[s]
      BY <2>3 DEF Types
    <2>5. susp'[task[k].sub]
      BY <2>2, <2>3 DEF Types
    <2>6. \A j \in Kinds : task'[j] = IF j = k THEN t ELSE task[j]
      BY <2>1 DEF Types, Moved
    <2>7. \A s : Outstanding(s)' <=> Outstanding(s)
      BY <2>3 DEF Outstanding
    <2>8. Pauses'
      BY <2>1, <2>2, <2>4, <2>5, <2>6, <2>7 DEF Pauses, Moved, Tasks
    <2> QED
      BY <2>4, <2>7, <2>8 DEF QuietWhilePaused
  <1>4. ASSUME NEW k \in Kinds, Schedule(k) PROVE Pauses' /\ QuietWhilePaused'
    <2>1. k = "PAUSE" /\ susp[task[k].sub] /\ task[k].sub \in Subs
      BY <1>4 DEF Schedule, Pauses, Tasks
    <2>2. timer' = [timer EXCEPT ![task[k].sub] = "armed"] /\ UNCHANGED susp
          /\ task' = [task EXCEPT ![k] = Idle]
      BY <1>4 DEF Schedule
    <2> QED
      BY <2>1, <2>2 DEF Pauses, QuietWhilePaused, Outstanding, Types, Idle, Tasks
  <1>5. ASSUME NEW s \in Subs, TimerFires(s) \/ ServeResume(s) \/ RejectResume(s)
                                 \/ ResumeOutcome(s)
        PROVE  Pauses' /\ QuietWhilePaused'
    <2>1. UNCHANGED <<susp, task>>
      BY <1>5 DEF TimerFires, ServeResume, RejectResume, ResumeOutcome
    <2>2. Outstanding(s)
      BY <1>5 DEF TimerFires, ServeResume, RejectResume, ResumeOutcome, Outstanding, InCallback
    <2>3. \E st \in {"none", "armed"} \cup InCallback : timer' = [timer EXCEPT ![s] = st]
      BY <1>5 DEF TimerFires, ServeResume, RejectResume, ResumeOutcome, InCallback
    <2>4. \A v \in Subs : Outstanding(v)' => Outstanding(v)
      BY <2>2, <2>3 DEF Outstanding, Types
    <2> QED
      BY <2>1, <2>4 DEF Pauses, QuietWhilePaused, Tasks
  <1>6. ASSUME NEW s \in Subs, ResumeMark(s) PROVE Pauses' /\ QuietWhilePaused'
    <2>1. susp' = [susp EXCEPT ![s] = FALSE] /\ timer' = [timer EXCEPT ![s] = "none"]
          /\ UNCHANGED task /\ Outstanding(s)
      BY <1>6 DEF ResumeMark, Outstanding, InCallback
    <2>2. \A v \in Subs : Outstanding(v)' <=> Outstanding(v) /\ v # s
      BY <2>1 DEF Outstanding, Types, InCallback
    <2>3. \A k \in Kinds : task[k].pc = "sched" => task[k].sub # s
      BY <2>1 DEF Pauses
    <2> QED
      BY <2>1, <2>2, <2>3 DEF Pauses, QuietWhilePaused, Tasks, Types
  <1>7. CASE CancelResumes
    <2>1. \A v \in Subs : Outstanding(v)' => Outstanding(v)
      BY <1>7 DEF CancelResumes, Outstanding, InCallback
    <2> QED
      BY <1>7, <2>1 DEF CancelResumes, Pauses, QuietWhilePaused, Tasks
  <1>8. CASE UNCHANGED <<susp, timer, task>>
    BY <1>8 DEF Pauses, QuietWhilePaused, Outstanding
  <1> QED
    BY <1>1, <1>2, <1>3, <1>4, <1>5, <1>6, <1>7, <1>8 DEF Next, vars, Ticker, Callback, Shutdown,
       PlatformMoves, CtxDone, Drained, Return, LogFails

-----------------------------------------------------------------------------
(* The WaitGroup and the shutdown. *)

Resumes == {s \in Subs : Outstanding(s)}

LEMMA ResumesFinite == IsFiniteSet(Resumes) /\ Cardinality(Resumes) \in Nat
  <1>1. Resumes \in SUBSET Subs
    BY DEF Resumes
  <1> QED
    BY <1>1, LifecycleAssumption, FS_Subset, FS_CardinalityType

LEMMA WgStep ==
    Types /\ Tasks /\ Pauses /\ WgBalanced /\ [Next]_vars => WgBalanced'
  <1> SUFFICES ASSUME Types, Tasks, Pauses, WgBalanced, [Next]_vars PROVE WgBalanced'
    OBVIOUS
  <1>a. wg = Cardinality(Resumes)
    BY DEF WgBalanced, Resumes
  <1>b. ASSUME wg' = Cardinality(Resumes') PROVE WgBalanced'
    BY <1>b DEF WgBalanced, Resumes
  <1>c. ASSUME UNCHANGED wg, Resumes' = Resumes PROVE WgBalanced'
    BY <1>a, <1>b, <1>c
  <1>d. ASSUME NEW s \in Resumes, wg' = wg - 1, Resumes' = Resumes \ {s} PROVE WgBalanced'
    BY <1>a, <1>b, <1>d, ResumesFinite, FS_RemoveElement
  <1>1. ASSUME NEW k \in Kinds, Schedule(k) PROVE WgBalanced'
    <2>1. task[k].sub \in Subs /\ ~Outstanding(task[k].sub)
      BY <1>1 DEF Schedule, Pauses, Tasks
    <2>2. wg' = wg + 1 /\ timer' = [timer EXCEPT ![task[k].sub] = "armed"]
      BY <1>1, <2>1 DEF Schedule, Outstanding
    <2>3. Resumes' = Resumes \cup {task[k].sub}
      BY <2>1, <2>2 DEF Resumes, Outstanding, Types
    <2>4. task[k].sub \notin Resumes
      BY <2>1 DEF Resumes
    <2> QED
      BY <1>a, <1>b, <2>2, <2>3, <2>4, ResumesFinite, FS_AddElement
  <1>2. ASSUME NEW s \in Subs, ServeResume(s) \/ RejectResume(s) \/ ResumeOutcome(s)
        PROVE  WgBalanced'
    <2>1. UNCHANGED wg /\ Outstanding(s)
      BY <1>2 DEF ServeResume, RejectResume, ResumeOutcome, Outstanding, InCallback
    <2>2. \E st \in InCallback : timer' = [timer EXCEPT ![s] = st]
      BY <1>2 DEF ServeResume, RejectResume, ResumeOutcome, InCallback
    <2>3. Resumes' = Resumes
      BY <2>1, <2>2 DEF Resumes, Outstanding, Types
    <2> QED
      BY <1>c, <2>1, <2>3
  <1>3. ASSUME NEW s \in Subs, TimerFires(s) PROVE WgBalanced'
    <2>1. Outstanding(s) /\ s \in Resumes
      BY <1>3 DEF TimerFires, Outstanding, Resumes
    <2>2. CASE logOK
      <3>1. UNCHANGED wg /\ timer' = [timer EXCEPT ![s] = "sent"]
        BY <1>3, <2>2 DEF TimerFires
      <3>2. Resumes' = Resumes
        BY <2>1, <3>1 DEF Resumes, Outstanding, Types, InCallback
      <3> QED
        BY <1>c, <3>1, <3>2
    <2>3. CASE ~logOK
      <3>1. wg' = wg - 1 /\ timer' = [timer EXCEPT ![s] = "none"]
        BY <1>3, <2>3 DEF TimerFires
      <3>2. Resumes' = Resumes \ {s}
        BY <3>1 DEF Resumes, Outstanding, Types, InCallback
      <3> QED
        BY <1>d, <2>1, <3>1, <3>2
    <2> QED
      BY <2>2, <2>3
  <1>4. ASSUME NEW s \in Subs, ResumeMark(s) PROVE WgBalanced'
    <2>1. wg' = wg - 1 /\ timer' = [timer EXCEPT ![s] = "none"] /\ s \in Resumes
      BY <1>4 DEF ResumeMark, Outstanding, Resumes, InCallback
    <2>2. Resumes' = Resumes \ {s}
      BY <2>1 DEF Resumes, Outstanding, Types, InCallback
    <2> QED
      BY <1>d, <2>1, <2>2
  <1>5. CASE CancelResumes
    <2> DEFINE Armed == {s \in Subs : timer[s] = "armed"}
    <2>1. Armed = Resumes \cap Armed
      BY DEF Resumes, Outstanding
    <2>2. Resumes' = Resumes \ Armed
      BY <1>5 DEF CancelResumes, Resumes, Outstanding, InCallback
    <2>3. wg' = wg - Cardinality(Armed)
      BY <1>5 DEF CancelResumes
    <2> HIDE DEF Armed
    <2>4. Cardinality(Resumes \ Armed) = Cardinality(Resumes) - Cardinality(Resumes \cap Armed)
      BY ResumesFinite, FS_Difference
    <2> QED
      BY <1>a, <1>b, <2>1, <2>2, <2>3, <2>4
  <1>6. CASE UNCHANGED <<wg, timer>>
    BY <1>c, <1>6 DEF Resumes, Outstanding
  <1> QED
    BY <1>1, <1>2, <1>3, <1>4, <1>5, <1>6 DEF Next, vars, Network, Ticker, Callback, Shutdown,
       PlatformMoves, CtxDone, Drained, Return, LogFails, Fire, Serve, Replay, Reject, Failed,
       Succeed, Escalate, Mark

LEMMA DrainsStep ==
    Types /\ WgBalanced /\ Drains /\ [Next]_vars => Drains'
  <1> SUFFICES ASSUME Types, WgBalanced, Drains, [Next]_vars PROVE Drains'
    OBVIOUS
  <1>1. ASSUME NEW k \in Kinds, Schedule(k) PROVE Drains'
    <2>1. late' \/ agent' \in {"running", "cancelling"}
      BY <1>1 DEF Schedule, Types
    <2> QED
      BY <2>1 DEF Drains
  <1>2. ASSUME NEW s \in Subs, Callback(s) PROVE Drains'
    <2>1. UNCHANGED <<agent, late>>
      BY <1>2 DEF Callback, TimerFires, ServeResume, RejectResume, ResumeOutcome, ResumeMark
    <2>2. \E st \in {"none"} \cup InCallback : timer' = [timer EXCEPT ![s] = st]
      BY <1>2 DEF Callback, TimerFires, ServeResume, RejectResume, ResumeOutcome, ResumeMark,
         InCallback
    <2>3. Outstanding(s)
      BY <1>2 DEF Callback, TimerFires, ServeResume, RejectResume, ResumeOutcome, ResumeMark,
         Outstanding, InCallback
    <2>4. \A v \in Subs : Outstanding(v)' => Outstanding(v)
      BY <2>2, <2>3 DEF Outstanding, Types
    <2>5. \A v \in Subs : timer'[v] = "armed" => timer[v] = "armed"
      BY <2>2 DEF Types, InCallback
    <2> QED
      BY <2>1, <2>4, <2>5 DEF Drains
  <1>3. CASE CancelResumes
    BY <1>3 DEF CancelResumes, Drains
  <1>4. CASE Drained
    <2>1. Cardinality(Resumes) = 0
      BY <1>4 DEF Drained, WgBalanced, Resumes
    <2>2. Resumes = {}
      BY <2>1, ResumesFinite, FS_EmptySet
    <2>3. \A s \in Subs : ~Outstanding(s)
      BY <2>2 DEF Resumes
    <2> QED
      BY <1>4, <2>3 DEF Drained, Drains, Outstanding
  <1>5. CASE Return \/ CtxDone
    BY <1>5 DEF Return, CtxDone, Drains, Outstanding
  <1>6. CASE UNCHANGED <<agent, late, timer>>
    BY <1>6 DEF Drains, Outstanding
  <1> QED
    BY <1>1, <1>2, <1>3, <1>4, <1>5, <1>6 DEF Next, vars, Network, Ticker, Shutdown,
       PlatformMoves, LogFails, Fire, Serve, Replay, Reject, Failed, Succeed, Escalate, Mark

-----------------------------------------------------------------------------
(* The rows of the log. *)

\* From a state that allows it, every transition but a payment retry promises a
\* state the platform's machine may move to.
LEMMA LegalRow ==
    ASSUME NEW kind \in AllKinds \ {"DUNNING_STEP"}, NEW from \in States,
           CanFireFrom(kind, from)
    PROVE  RowLegal(kind, from, ExpectedPostState(kind, from))
  BY DEF RowLegal, CanFireFrom, ExpectedPostState, IsLegalTransition, IsTerminal,
     legalNextStates, States, AllKinds, TickerKinds

LEMMA RowsStep ==
    Types /\ Tasks /\ Check10Clean /\ [Next]_vars => Check10Clean'
  <1> SUFFICES ASSUME Types, Tasks, Check10Clean, [Next]_vars PROVE Check10Clean'
    OBVIOUS
  <1>a. ASSUME NEW kind, NEW from, NEW post, Append(kind, from, post),
               CanFireFrom(kind, from), kind # "DUNNING_STEP",
               kind = "RETRY_PAYMENT" \/ RowLegal(kind, from, post)
        PROVE  Check10Clean'
    <2>1. CASE kind = "RETRY_PAYMENT"
      <3>1. CanFireFrom("DUNNING_STEP", from)
        BY <1>a, <2>1 DEF CanFireFrom
      <3>2. RowLegal("DUNNING_STEP", from, "")
        BY <3>1 DEF RowLegal
      <3>3. Rows(kind) = {"RETRY_PAYMENT", "DUNNING_STEP"}
        BY <2>1 DEF Rows
      <3> QED
        BY <1>a, <3>2, <3>3 DEF Append, Check10Clean
    <2>2. CASE kind # "RETRY_PAYMENT"
      <3>1. Rows(kind) = {kind}
        BY <2>2 DEF Rows
      <3> QED
        BY <1>a, <2>2, <3>1 DEF Append, Check10Clean
    <2> QED
      BY <2>1, <2>2
  <1>1. ASSUME NEW k \in Kinds, Failed(k) PROVE Check10Clean'
    <2>1. CanFireFrom(k, task[k].from)
      BY <1>1 DEF Failed, Tasks
    <2>2. RowLegal(k, task[k].from, "")
      BY <2>1 DEF RowLegal
    <2>3. k # "DUNNING_STEP"
      BY LifecycleAssumption DEF TickerKinds
    <2> QED
      BY <1>1, <1>a, <2>1, <2>2, <2>3 DEF Failed
  <1>2. ASSUME NEW k \in Kinds, Succeed(k) PROVE Check10Clean'
    <2>1. CanFireFrom(k, task[k].from)
      BY <1>2 DEF Succeed, Tasks
    <2>2. k \in TickerKinds
      BY LifecycleAssumption
    <2>3. task[k].from \in States
      BY <2>1, <2>2 DEF CanFireFrom, States, TickerKinds
    <2>4. k = "RETRY_PAYMENT" \/ RowLegal(k, task[k].from, RowPost(k, task[k]))
      BY <2>1, <2>2, <2>3, LegalRow DEF RowPost, AllKinds, TickerKinds
    <2> QED
      BY <1>2, <1>a, <2>1, <2>2, <2>4 DEF Succeed, TickerKinds
  <1>3. ASSUME NEW k \in Kinds, Escalate(k) PROVE Check10Clean'
    <2>1. CanFireFrom("RETRY_PAYMENT", task[k].from)
      BY <1>3 DEF Escalate, Tasks
    <2>2. CanFireFrom("DUNNING_ESCALATE", task[k].from) /\ task[k].from \in States
      BY <2>1 DEF CanFireFrom, States
    <2>3. ExpectedPostState("DUNNING_ESCALATE", task[k].from) = "SUSPENDED"
      BY DEF ExpectedPostState
    <2>4. RowLegal("DUNNING_ESCALATE", task[k].from, "SUSPENDED")
      BY <2>2, <2>3, LegalRow DEF AllKinds
    <2> QED
      BY <1>3, <1>a, <2>2, <2>4 DEF Escalate
  <1>4. ASSUME NEW s \in Subs, ResumeOutcome(s) PROVE Check10Clean'
    <2>1. /\ RowLegal("RESUME", "PAUSED", "ACTIVE")
          /\ RowLegal("RESUME", "PAUSED", "")
          /\ CanFireFrom("RESUME", "PAUSED")
      BY DEF RowLegal, CanFireFrom, IsTerminal, IsLegalTransition, legalNextStates, States
    <2> QED
      BY <1>4, <1>a, <2>1 DEF ResumeOutcome
  <1>5. CASE UNCHANGED violation
    BY <1>5 DEF Check10Clean
  <1> QED
    BY <1>1, <1>2, <1>3, <1>4, <1>5 DEF Next, vars, Network, Ticker, Callback, Shutdown,
       TimerFires, ServeResume, RejectResume, ResumeMark, PlatformMoves, CtxDone, CancelResumes,
       Drained, Return, LogFails, Fire, Serve, Replay, Reject, Mark, Schedule

-----------------------------------------------------------------------------
(* The cancelled trials. *)

\* Only a resume callback lifts a suspension and only a pause arms one; a pause
\* needs a pick, which a suspended subscription is not offered for.
LEMMA GivenUpStep ==
    Types /\ Tasks /\ Pauses /\ GivenUp /\ [Next]_vars => GivenUp'
  <1> SUFFICES ASSUME Types, Tasks, Pauses, GivenUp, [Next]_vars,
                      NEW s \in churned'
               PROVE  susp'[s] /\ ~Paused(s)'
    BY DEF GivenUp
  <1>1. ASSUME NEW k \in Kinds, Fire(k) PROVE susp'[s] /\ ~Paused(s)'
    <2>1. UNCHANGED <<susp, timer, churned>>
      BY <1>1 DEF Fire
    <2>2. susp[s] /\ ~Paused(s)
      BY <2>1 DEF GivenUp
    <2>3. PICK t \in Task : /\ task' = [task EXCEPT ![k] = t]
                            /\ t.pc # "idle" => t.sub \in Subs /\ ~susp[t.sub]
      BY <1>1, FireMoves
    <2>4. \A j \in Kinds : task'[j].pc # "idle" /\ task'[j].sub = s => task'[j] = task[j]
      <3>1. t.pc # "idle" => t.sub # s
        BY <2>2, <2>3
      <3>2. \A j \in Kinds : task'[j] = IF j = k THEN t ELSE task[j]
        BY <2>3 DEF Types
      <3> QED
        BY <3>1, <3>2
    <2> QED
      BY <2>1, <2>2, <2>4 DEF Paused, Outstanding
  <1>2. ASSUME NEW k \in Kinds, Network(k) \/ Ticker(k), ~Mark(k)
        PROVE  susp'[s] /\ ~Paused(s)'
    <2>1. UNCHANGED <<susp, churned>>
      BY <1>2 DEF Network, Serve, Replay, Reject, Ticker, Failed, Succeed, Escalate, Schedule
    <2>2. susp[s] /\ ~Paused(s)
      BY <2>1 DEF GivenUp
    <2>s. s \in Subs
      BY <2>1 DEF Types
    <2>3. PICK t \in Task : Moved(k, t)
      BY <1>2, TickerMoves
    <2>4. task[k].pc # "idle"
      BY <1>2, TickerMoves
    <2>5. \A j \in Kinds : task'[j].pc # "idle" =>
             task[j].pc # "idle" /\ task'[j].sub = task[j].sub
      BY <2>3, <2>4 DEF Types, Moved
    <2>6. Outstanding(s)' => Outstanding(s)
      <3>1. CASE Schedule(k)
        <4>1. k = "PAUSE" /\ k \in Kinds \cap {"PAUSE"} /\ task[k].pc # "idle"
          BY <3>1 DEF Schedule, Pauses
        <4>2. task[k].sub # s
          BY <2>2, <4>1 DEF Paused
        <4>3. timer' = [timer EXCEPT ![task[k].sub] = "armed"]
          BY <3>1 DEF Schedule
        <4>4. timer'[s] = timer[s]
          BY <4>2, <4>3, <2>s DEF Types
        <4> QED
          BY <4>4 DEF Outstanding
      <3>2. CASE ~Schedule(k)
        <4>1. UNCHANGED timer
          BY <1>2, <3>2 DEF Network, Serve, Replay, Reject, Ticker, Failed, Succeed, Escalate
        <4> QED
          BY <4>1 DEF Outstanding
      <3> QED
        BY <3>1, <3>2
    <2> QED
      BY <2>1, <2>2, <2>5, <2>6 DEF Paused
  <1>3. ASSUME NEW k \in Kinds, Mark(k) PROVE susp'[s] /\ ~Paused(s)'
    <2>1. /\ susp' = [susp EXCEPT ![task[k].sub] = TRUE]
          /\ churned' = IF k = "TRIAL_CANCEL" /\ ~Paused(task[k].sub)
                        THEN churned \cup {task[k].sub} ELSE churned
          /\ UNCHANGED timer
      BY <1>3 DEF Mark
    <2>2. ~Paused(s) /\ (s = task[k].sub \/ susp[s])
      BY <2>1 DEF GivenUp
    <2>3. s \in Subs
      BY <1>3, <2>1 DEF Types, Tasks, Mark
    <2>4. PICK t \in Task : Moved(k, t)
      BY <1>3, TickerMoves DEF Ticker
    <2>5. task[k].pc # "idle"
      BY <1>3 DEF Mark
    <2>6. \A j \in Kinds : task'[j].pc # "idle" =>
             task[j].pc # "idle" /\ task'[j].sub = task[j].sub
      BY <2>4, <2>5 DEF Types, Moved
    <2>7. ~Paused(s)'
      BY <2>1, <2>2, <2>6 DEF Paused, Outstanding
    <2>8. susp'[s]
      BY <2>1, <2>2, <2>3 DEF Types
    <2> QED
      BY <2>7, <2>8
  <1>4. ASSUME NEW v \in Subs, Callback(v) PROVE susp'[s] /\ ~Paused(s)'
    <2>1. UNCHANGED <<task, churned>>
      BY <1>4 DEF Callback, TimerFires, ServeResume, RejectResume, ResumeOutcome, ResumeMark
    <2>2. susp[s] /\ ~Paused(s)
      BY <2>1 DEF GivenUp
    <2>3. Outstanding(v)
      BY <1>4 DEF Callback, TimerFires, ServeResume, RejectResume, ResumeOutcome, ResumeMark,
         Outstanding, InCallback
    <2>4. v # s
      BY <2>2, <2>3 DEF Paused
    <2>5. /\ \E st : timer' = [timer EXCEPT ![v] = st]
          /\ susp' = susp \/ susp' = [susp EXCEPT ![v] = FALSE]
      BY <1>4 DEF Callback, TimerFires, ServeResume, RejectResume, ResumeOutcome, ResumeMark
    <2>6. timer'[s] = timer[s] /\ susp'[s] = susp[s]
      BY <2>1, <2>4, <2>5 DEF Types
    <2> QED
      BY <2>1, <2>2, <2>6 DEF Paused, Outstanding
  <1>5. CASE CancelResumes
    <2>1. UNCHANGED <<task, susp, churned>> /\ (Outstanding(s)' => Outstanding(s))
      BY <1>5 DEF CancelResumes, Outstanding, InCallback, Types
    <2> QED
      BY <2>1 DEF GivenUp, Paused
  <1>6. CASE UNCHANGED <<susp, timer, task, churned>>
    BY <1>6 DEF GivenUp, Paused, Outstanding
  <1> QED
    BY <1>1, <1>2, <1>3, <1>4, <1>5, <1>6 DEF Next, vars, Shutdown,
       PlatformMoves, CtxDone, Drained, Return, LogFails

-----------------------------------------------------------------------------

LEMMA InitInv == Init => IInv
  <1> SUFFICES ASSUME Init PROVE IInv
    OBVIOUS
  <1>1. Types /\ Counts /\ Tasks
    BY TypesInit
  <1>2. \A s \in Subs : ~Outstanding(s)
    BY DEF Init, Outstanding, InCallback
  <1>3. Resumes = {}
    BY <1>2 DEF Resumes
  <1>4. WgBalanced
    BY <1>3, FS_EmptySet DEF Init, WgBalanced, Resumes
  <1>5. Pauses
    BY DEF Init, Pauses, Idle
  <1>6. QuietWhilePaused /\ Drains
    BY <1>2 DEF Init, QuietWhilePaused, Drains
  <1>7. Check10Clean
    BY DEF Init, Check10Clean
  <1>8. GivenUp
    BY DEF Init, GivenUp
  <1> QED
    BY <1>1, <1>4, <1>5, <1>6, <1>7, <1>8 DEF IInv

\* The inductive invariant of the agent: types and attempt counts, what a
\* transition in flight may rely on, the quiet period, the WaitGroup's balance
\* what Cancel has achieved so far and what keeps a cancelled trial out.
THEOREM Inductive == Spec => []IInv
  <1>1. IInv /\ [Next]_vars => IInv'
    BY TypesStep, TasksStep, CountsStep, QuietStep, WgStep, DrainsStep, RowsStep,
       GivenUpStep DEF IInv
  <1> QED
    BY <1>1, InitInv, PTL DEF Spec

\* Every variable keeps its type; ResumeScheduler's WaitGroup never goes negative.
THEOREM TypeCorrect == Spec => []TypeOK
  <1>1. IInv => TypeOK
    <2> SUFFICES ASSUME IInv PROVE TypeOK
      OBVIOUS
    <2>1. wg \in Nat
      BY ResumesFinite DEF IInv, WgBalanced, Resumes
    <2>2. fires \in 0..MaxFires
      BY DEF IInv, Types
    <2>3. ASSUME NEW s \in Subs PROVE count[s] \in 0..MaxFires
      BY <2>2, LifecycleAssumption DEF IInv, Counts
    <2>4. count \in [Subs -> 0..MaxFires]
      BY <2>3 DEF IInv, Counts
    <2> QED
      BY <2>1, <2>4 DEF IInv, Types, TypeOK
  <1> QED
    BY <1>1, Inductive, PTL

\* No ticker can pick a subscription whose resume is pending or running: the
\* quiet period of FirePauseAndScheduleResume holds in every interleaving.
THEOREM QuietPeriod == Spec => []QuietWhilePaused
  BY Inductive, PTL DEF IInv

\* Cancel waits for exactly the callbacks that will still run.
THEOREM WaitGroupBalanced == Spec => []WgBalanced
  BY Inductive, PTL DEF IInv

\* When Agent.Run returns no resume is outstanding, unless a pause was scheduled
\* after Cancel had stopped the timers.
THEOREM ReturnsDrained == Spec => []DrainedOnReturn
  <1>1. IInv => DrainedOnReturn
    BY DEF IInv, Drains, DrainedOnReturn
  <1> QED
    BY <1>1, Inductive, PTL

\* Check 10 can reject only rows of payment retries.
THEOREM OnlyRetriesRejected == Spec => []Check10Clean
  BY Inductive, PTL DEF IInv

\* FireTrialCancel's mark lasts: whatever transitions of the subscription other
\* than a pause are still in flight then, no ticker is offered it again.
THEOREM CancelledForGood == Spec => []CancelledStaysOut
  <1>1. IInv => CancelledStaysOut
    BY DEF IInv, GivenUp, CancelledStaysOut
  <1> QED
    BY <1>1, Inductive, PTL

=============================================================================
