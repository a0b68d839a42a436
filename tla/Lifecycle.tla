------------------------------ MODULE Lifecycle ------------------------------
(***************************************************************************)
(* The lifecycle agent (internal/lifecycle): one ticker goroutine per      *)
(* enabled transition kind picks a subscription that its own view (the     *)
(* Picker) says is eligible, posts the transition to the platform and      *)
(* records the outcome; a pause schedules a resume on a timer; shutting    *)
(* down cancels the timers and joins the tickers.                          *)
(*                                                                         *)
(* A goroutine's accesses to the picker's maps take a lock each, so they   *)
(* are separate steps; a log append is merged with the picker update next  *)
(* to it, since nobody reads the log while the agent runs.  Durations are  *)
(* left out: a ticker, a timer or an answer may come at any moment.  The   *)
(* calendar day inside an idempotency key is left to chance: a key that    *)
(* was used before is answered by a replay or is new again.                *)
(***************************************************************************)
EXTENDS Integers, FiniteSets

CONSTANTS
    Subs,           \* subscriptions of the manifest
    Offerless,      \* those whose tenant has no offering to move to
    StartStates,    \* states a subscription may be seeded in
    Kinds,          \* transition kinds with a positive hourly percentage
    MaxRetries,     \* DunningConfig.MaxRetries
    MaxFires,       \* bound: transitions fired by the tickers in a behaviour
    MaxMoves        \* bound: state changes the platform makes by itself

States == {"CREATED", "TRIALING", "ACTIVE", "PAST_DUE", "PAUSED",
           "EXPIRING_SOON", "EXPIRED", "CANCELLED", "SUSPENDED"}

\* buildTickers adds no ticker for RESUME or the dunning kinds.
TickerKinds == {"UPGRADE", "DOWNGRADE", "PAUSE", "TRIAL_CONVERSION",
                "TRIAL_CANCEL", "MIGRATE", "RETRY_PAYMENT"}

AllKinds == TickerKinds \cup {"RESUME", "DUNNING_STEP", "DUNNING_ESCALATE"}

IsTerminal(s) == s \in {"CANCELLED", "EXPIRED"}

ASSUME LifecycleAssumption ==
    /\ IsFiniteSet(Subs)
    /\ Offerless \subseteq Subs
    /\ StartStates \subseteq States \ {"CANCELLED", "EXPIRED"}
    /\ Kinds \subseteq TickerKinds
    /\ MaxRetries \in Nat \ {0}
    /\ MaxFires \in Nat
    /\ MaxMoves \in Nat

-----------------------------------------------------------------------------
(* statemachine.go *)

\* The states from which the agent attempts a transition of a kind.
CanFireFrom(kind, from) ==
    /\ ~IsTerminal(from)
    /\ from \in CASE kind \in {"UPGRADE", "DOWNGRADE"} ->
                        {"ACTIVE", "TRIALING", "PAST_DUE", "EXPIRING_SOON"}
                  [] kind = "PAUSE" -> {"ACTIVE", "TRIALING"}
                  [] kind = "RESUME" -> {"PAUSED"}
                  [] kind \in {"TRIAL_CONVERSION", "TRIAL_CANCEL"} -> {"TRIALING"}
                  [] kind = "MIGRATE" ->
                        {"ACTIVE", "TRIALING", "PAUSED", "EXPIRING_SOON", "PAST_DUE"}
                  [] kind \in {"RETRY_PAYMENT", "DUNNING_STEP", "DUNNING_ESCALATE"} ->
                        {"PAST_DUE", "SUSPENDED"}

ExpectedPostState(kind, prior) ==
    CASE kind \in {"UPGRADE", "DOWNGRADE", "MIGRATE"} -> prior
      [] kind = "PAUSE" -> "PAUSED"
      [] kind \in {"RESUME", "TRIAL_CONVERSION", "RETRY_PAYMENT"} -> "ACTIVE"
      [] kind = "TRIAL_CANCEL" -> "CANCELLED"
      [] kind = "DUNNING_ESCALATE" -> "SUSPENDED"
      [] kind = "DUNNING_STEP" -> ""

legalNextStates ==
    [s \in States |->
        CASE s = "CREATED"       -> {"TRIALING", "ACTIVE", "CANCELLED"}
          [] s = "TRIALING"      -> {"ACTIVE", "CANCELLED", "PAUSED"}
          [] s = "ACTIVE"        -> {"PAST_DUE", "PAUSED", "EXPIRING_SOON",
                                     "EXPIRED", "CANCELLED", "SUSPENDED"}
          [] s = "PAST_DUE"      -> {"ACTIVE", "SUSPENDED", "CANCELLED", "EXPIRED"}
          [] s = "PAUSED"        -> {"ACTIVE", "CANCELLED", "EXPIRED"}
          [] s = "EXPIRING_SOON" -> {"ACTIVE", "EXPIRED", "CANCELLED"}
          [] s = "SUSPENDED"     -> {"ACTIVE", "CANCELLED", "EXPIRED"}
          [] OTHER               -> {}]

IsLegalTransition(from, to) ==
    from = to \/ (~IsTerminal(from) /\ to \in legalNextStates[from])

\* A status the agent does not know is taken for ACTIVE.
fromPlatformStatus(status) == IF status \in States THEN status ELSE "ACTIVE"

-----------------------------------------------------------------------------

VARIABLES
    plat,       \* plat[s]: the platform's state of s (external)
    seen,       \* seen[s][k]: status it answered under the key of (s, k), or NoKey
    moves,      \* state changes it made by itself
    live,       \* Picker.liveStates
    susp,       \* Picker.suspended
    task,       \* task[k]: what the ticker of kind k is doing
    count,      \* DunningWalker.count
    timer,      \* timer[s]: the resume of s and how far its callback got
    wg,         \* ResumeScheduler.wg
    logOK,      \* transitions.jsonl can be written
    violation,  \* kinds of the rows of the log that Check 10 rejects
    agent,      \* where Agent.Run is
    cancelled,  \* its context is done
    fires,      \* transitions fired so far
    churned,    \* history: cancelled trials with no pause or resume under way then
    late        \* history: a pause was scheduled after Cancel stopped the timers

platform == <<plat, seen, moves>>
picker == <<live, susp>>
resumes == <<timer, wg>>
run == <<agent, cancelled>>
vars == <<platform, picker, task, count, resumes, logOK, violation, run, fires,
          churned, late>>

NoKey == "no key"

\* idle: waiting for the tick; sent: the POST is out; ok / err: it answered;
\* escalate: the walker skips the POST; mark, sched: after SetLiveState.  A
\* ticker that has seen its context done is one that stays idle.
TaskPc == {"idle", "sent", "ok", "err", "escalate", "mark", "sched"}

Task == [pc : TaskPc, sub : Subs \cup {"none"}, from : States \cup {""},
         status : States \cup {""}]

Idle == [pc |-> "idle", sub |-> "none", from |-> "", status |-> ""]

\* armed: not fired yet; sent, ok, err, mark: inside fireResume.
InCallback == {"sent", "ok", "err", "mark"}
Outstanding(s) == timer[s] \in {"armed"} \cup InCallback

Init ==
    /\ plat \in [Subs -> StartStates]
    /\ live = plat
    /\ seen = [s \in Subs |-> [k \in Kinds \cup {"RESUME"} |-> NoKey]]
    /\ moves = 0
    /\ susp = [s \in Subs |-> FALSE]
    /\ task = [k \in Kinds |-> Idle]
    /\ count = [s \in Subs |-> 0]
    /\ timer = [s \in Subs |-> "none"]
    /\ wg = 0
    /\ logOK = TRUE
    /\ violation = {}
    /\ agent = "running"
    /\ cancelled = FALSE
    /\ fires = 0
    /\ churned = {}
    /\ late = FALSE

-----------------------------------------------------------------------------
(* The platform, as the transition modules use it. *)

\* The states an accepted request may leave a subscription in.
Outcomes(kind, st) ==
    IF kind = "RETRY_PAYMENT"
    THEN {"ACTIVE", st} \cup IF st = "PAST_DUE" THEN {"SUSPENDED"} ELSE {}
    ELSE {ExpectedPostState(kind, st)}

\* The status in its answer, which may be missing; the agent reads it for three
\* kinds only.
Answers(kind, post) ==
    IF kind \in {"UPGRADE", "DOWNGRADE", "RETRY_PAYMENT"} THEN {post, ""} ELSE {""}

\* A trial is cancelled through the general /cancel endpoint, which the state
\* machine opens to every state that may end in CANCELLED.
Accepts(kind, st) ==
    IF kind = "TRIAL_CANCEL" THEN "CANCELLED" \in legalNextStates[st]
    ELSE CanFireFrom(kind, st)

\* The platform applies a request and answers.
Accept(kind, s, post, status) ==
    /\ Accepts(kind, plat[s])
    /\ post \in Outcomes(kind, plat[s])
    /\ status \in Answers(kind, post)
    /\ plat' = [plat EXCEPT ![s] = post]
    /\ seen' = [seen EXCEPT ![s][kind] = status]
    /\ UNCHANGED moves

\* A payment fails, a term ends: the platform moves a subscription by itself.
PlatformMoves(s) ==
    /\ moves < MaxMoves
    /\ \E t \in legalNextStates[plat[s]] : plat' = [plat EXCEPT ![s] = t]
    /\ moves' = moves + 1
    /\ UNCHANGED <<seen, picker, task, count, resumes, logOK, violation, run,
                   fires, churned, late>>

-----------------------------------------------------------------------------
(* The ticker goroutines. *)

\* Mutant of Eligible: only terminal states are filtered out.
EligibleAny(k, s) == ~susp[s] /\ ~IsTerminal(live[s])

\* PickFor's candidates.
Eligible(k, s) == ~susp[s] /\ CanFireFrom(k, live[s])

\* Check 10 on one outcome row; post is empty on a FAIL or a DUNNING_STEP row.
RowLegal(kind, from, post) ==
    /\ CanFireFrom(kind, from)
    /\ post # "" => IsLegalTransition(from, post)

\* A payment retry is followed by the outcome row of its dunning step.
Rows(kind) == IF kind = "RETRY_PAYMENT" THEN {"RETRY_PAYMENT", "DUNNING_STEP"} ELSE {kind}

\* Log.Append of the outcome rows, seen through the verdict Check 10 reaches.
Append(kind, from, post) ==
    violation' = violation \cup
      {r \in Rows(kind) : logOK /\ ~RowLegal(r, from, IF r = "DUNNING_STEP" THEN "" ELSE post)}

Escalates(k, s) == k = "RETRY_PAYMENT" /\ count[s] + 1 > MaxRetries

\* PickFor, the intent row and the POST.  The walker counts the attempt first;
\* no offering to move to is a SKIPPED row, and no log no POST.  A request made
\* on a context that is done fails without being sent.
Fire(k) ==
    /\ agent # "returned"
    /\ task[k].pc = "idle"
    /\ fires < MaxFires
    /\ \E s \in Subs :
         /\ Eligible(k, s)
         /\ count' = IF k = "RETRY_PAYMENT" THEN [count EXCEPT ![s] = @ + 1] ELSE count
         /\ task' = [task EXCEPT ![k] =
              IF k \in {"UPGRADE", "DOWNGRADE", "MIGRATE"} /\ s \in Offerless THEN Idle
              ELSE IF Escalates(k, s)
              THEN [pc |-> "escalate", sub |-> s, from |-> live[s], status |-> ""]
              ELSE IF ~logOK THEN Idle
              ELSE [pc |-> IF cancelled THEN "err" ELSE "sent",
                    sub |-> s, from |-> live[s], status |-> ""]]
    /\ fires' = fires + 1
    /\ UNCHANGED <<platform, picker, resumes, logOK, violation, run, churned, late>>

\* The request is applied; its answer comes back, or is lost or unreadable.
Serve(k) ==
    /\ task[k].pc = "sent"
    /\ \E post \in States : \E status \in {post, ""} :
         /\ Accept(k, task[k].sub, post, status)
         /\ \/ task' = [task EXCEPT ![k].pc = "ok", ![k].status = status]
            \/ task' = [task EXCEPT ![k].pc = "err"]
    /\ UNCHANGED <<picker, count, resumes, logOK, violation, run, fires, churned, late>>

\* The key was used today: the platform repeats its first answer.
Replay(k) ==
    /\ task[k].pc = "sent"
    /\ seen[task[k].sub][k] # NoKey
    /\ task' = [task EXCEPT ![k].pc = "ok", ![k].status = seen[task[k].sub][k]]
    /\ UNCHANGED <<platform, picker, count, resumes, logOK, violation, run, fires,
                   churned, late>>

\* The platform refuses, or the request never arrives, or the context is done.
Reject(k) ==
    /\ task[k].pc = "sent"
    /\ task' = [task EXCEPT ![k].pc = "err"]
    /\ UNCHANGED <<platform, picker, count, resumes, logOK, violation, run, fires,
                   churned, late>>

\* A FAIL row: the picker keeps its view.
Failed(k) ==
    /\ task[k].pc = "err"
    /\ Append(k, task[k].from, "")
    /\ task' = [task EXCEPT ![k] = Idle]
    /\ UNCHANGED <<platform, picker, count, resumes, logOK, run, fires, churned, late>>

\* The state an OK row promises.
RowPost(k, t) ==
    IF k = "RETRY_PAYMENT" /\ t.status # "" THEN t.status
    ELSE ExpectedPostState(k, t.from)

\* Mutant of NewLive: the status of an answer is stored as it came, even if empty.
NewLiveRaw(k, t) ==
    CASE k \in {"PAUSE", "TRIAL_CONVERSION", "TRIAL_CANCEL"} -> ExpectedPostState(k, t.from)
      [] k \in {"UPGRADE", "DOWNGRADE", "RETRY_PAYMENT"} -> t.status
      [] OTHER -> live[t.sub]

\* What the picker is told: plan changes and retries pass on the status of the
\* answer, if there is one; a migration says nothing.
NewLive(k, t) ==
    CASE k \in {"PAUSE", "TRIAL_CONVERSION", "TRIAL_CANCEL"} -> ExpectedPostState(k, t.from)
      [] k \in {"UPGRADE", "DOWNGRADE", "RETRY_PAYMENT"} /\ t.status # "" ->
            fromPlatformStatus(t.status)
      [] OTHER -> live[t.sub]

\* Mutant of Succeed: telling the picker a new state also lifts a suspension.
SucceedLifts(k) ==
    /\ task[k].pc = "ok"
    /\ Append(k, task[k].from, RowPost(k, task[k]))
    /\ live' = IF logOK \/ k = "RETRY_PAYMENT"
               THEN [live EXCEPT ![task[k].sub] = NewLive(k, task[k])] ELSE live
    /\ susp' = [susp EXCEPT ![task[k].sub] = @ /\ live'[task[k].sub] = live[task[k].sub]]
    /\ task' = [task EXCEPT ![k] =
         IF logOK /\ k \in {"PAUSE", "TRIAL_CANCEL"} THEN [@ EXCEPT !.pc = "mark"] ELSE Idle]
    /\ UNCHANGED <<platform, count, resumes, logOK, run, fires, churned, late>>

\* The OK row and SetLiveState.  When the row cannot be written every kind but
\* RETRY_PAYMENT, which updates the picker first, returns before the update.
Succeed(k) ==
    /\ task[k].pc = "ok"
    /\ Append(k, task[k].from, RowPost(k, task[k]))
    /\ live' = IF logOK \/ k = "RETRY_PAYMENT"
               THEN [live EXCEPT ![task[k].sub] = NewLive(k, task[k])] ELSE live
    /\ task' = [task EXCEPT ![k] =
         IF logOK /\ k \in {"PAUSE", "TRIAL_CANCEL"} THEN [@ EXCEPT !.pc = "mark"] ELSE Idle]
    /\ UNCHANGED <<platform, susp, count, resumes, logOK, run, fires, churned, late>>

\* The walker's escalation row and SetLiveState, with no call to the platform.
Escalate(k) ==
    /\ task[k].pc = "escalate"
    /\ Append("DUNNING_ESCALATE", task[k].from, "SUSPENDED")
    /\ live' = IF logOK THEN [live EXCEPT ![task[k].sub] = "SUSPENDED"] ELSE live
    /\ task' = [task EXCEPT ![k] = IF logOK THEN [@ EXCEPT !.pc = "mark"] ELSE Idle]
    /\ UNCHANGED <<platform, susp, count, resumes, logOK, run, fires, churned, late>>

\* A pause of s is in flight or its resume is outstanding.
Paused(s) ==
    Outstanding(s) \/ \E k \in Kinds \cap {"PAUSE"} : task[k].pc # "idle" /\ task[k].sub = s

\* Mutant of Mark: a pause does not hold its subscription.
MarkNoPause(k) ==
    /\ task[k].pc = "mark"
    /\ susp' = IF k = "PAUSE" THEN susp ELSE [susp EXCEPT ![task[k].sub] = TRUE]
    /\ task' = [task EXCEPT ![k] = IF k = "PAUSE" THEN [@ EXCEPT !.pc = "sched"] ELSE Idle]
    /\ churned' = IF k = "TRIAL_CANCEL" /\ ~Paused(task[k].sub)
                  THEN churned \cup {task[k].sub} ELSE churned
    /\ UNCHANGED <<platform, live, count, resumes, logOK, violation, run, fires, late>>

\* MarkSuspended; a pause goes on to schedule its resume.
Mark(k) ==
    /\ task[k].pc = "mark"
    /\ susp' = [susp EXCEPT ![task[k].sub] = TRUE]
    /\ task' = [task EXCEPT ![k] = IF k = "PAUSE" THEN [@ EXCEPT !.pc = "sched"] ELSE Idle]
    /\ churned' = IF k = "TRIAL_CANCEL" /\ ~Paused(task[k].sub)
                  THEN churned \cup {task[k].sub} ELSE churned
    /\ UNCHANGED <<platform, live, count, resumes, logOK, violation, run, fires, late>>

\* Mutant of Schedule: replacing a timer or not, the counter is left alone.
ScheduleNoAdd(k) ==
    /\ task[k].pc = "sched"
    /\ timer' = [timer EXCEPT ![task[k].sub] = "armed"]
    /\ wg' = wg
    /\ task' = [task EXCEPT ![k] = Idle]
    /\ late' = (late \/ agent \notin {"running", "cancelling"})
    /\ UNCHANGED <<platform, picker, count, logOK, violation, run, fires, churned>>

\* ResumeScheduler.Schedule: a timer that could be stopped gives up its count.
Schedule(k) ==
    /\ task[k].pc = "sched"
    /\ timer' = [timer EXCEPT ![task[k].sub] = "armed"]
    /\ wg' = IF timer[task[k].sub] = "armed" THEN wg ELSE wg + 1
    /\ task' = [task EXCEPT ![k] = Idle]
    /\ late' = (late \/ agent \notin {"running", "cancelling"})
    /\ UNCHANGED <<platform, picker, count, logOK, violation, run, fires, churned>>

-----------------------------------------------------------------------------
(* The deferred resume, on a context of its own. *)

\* The intent row; when it cannot be written fireResume returns at once.
TimerFires(s) ==
    /\ timer[s] = "armed"
    /\ timer' = [timer EXCEPT ![s] = IF logOK THEN "sent" ELSE "none"]
    /\ wg' = IF logOK THEN wg ELSE wg - 1
    /\ UNCHANGED <<platform, picker, task, count, logOK, violation, run, fires,
                   churned, late>>

ServeResume(s) ==
    /\ timer[s] = "sent"
    /\ Accept("RESUME", s, "ACTIVE", "")
    /\ \E pc \in {"ok", "err"} : timer' = [timer EXCEPT ![s] = pc]
    /\ UNCHANGED <<picker, task, count, wg, logOK, violation, run, fires, churned, late>>

\* Refused, lost or timed out; or answered by a replay.
RejectResume(s) ==
    /\ timer[s] = "sent"
    /\ \/ timer' = [timer EXCEPT ![s] = "err"]
       \/ seen[s]["RESUME"] # NoKey /\ timer' = [timer EXCEPT ![s] = "ok"]
    /\ UNCHANGED <<platform, picker, task, count, wg, logOK, violation, run, fires,
                   churned, late>>

\* The outcome row, whose failure is ignored, and SetLiveState on success.
ResumeOutcome(s) ==
    /\ timer[s] \in {"ok", "err"}
    /\ Append("RESUME", "PAUSED", IF timer[s] = "ok" THEN "ACTIVE" ELSE "")
    /\ live' = IF timer[s] = "ok" THEN [live EXCEPT ![s] = "ACTIVE"] ELSE live
    /\ timer' = [timer EXCEPT ![s] = "mark"]
    /\ UNCHANGED <<platform, susp, task, count, wg, logOK, run, fires, churned, late>>

\* Mutant of ResumeMark: a failed resume leaves the subscription unpickable.
ResumeMarkSkipped(s) ==
    /\ timer[s] = "mark"
    /\ susp' = IF live[s] = "ACTIVE" THEN [susp EXCEPT ![s] = FALSE] ELSE susp
    /\ timer' = [timer EXCEPT ![s] = "none"]
    /\ wg' = wg - 1
    /\ UNCHANGED <<platform, live, task, count, logOK, violation, run, fires, churned, late>>

\* MarkLive, and the callback's deferred Done.
ResumeMark(s) ==
    /\ timer[s] = "mark"
    /\ susp' = [susp EXCEPT ![s] = FALSE]
    /\ timer' = [timer EXCEPT ![s] = "none"]
    /\ wg' = wg - 1
    /\ UNCHANGED <<platform, live, task, count, logOK, violation, run, fires, churned, late>>

-----------------------------------------------------------------------------
(* Agent.Run. *)

\* The caller's context ends.
CtxDone ==
    /\ ~cancelled
    /\ cancelled' = TRUE
    /\ agent' = "cancelling"
    /\ UNCHANGED <<platform, picker, task, count, resumes, logOK, violation, fires,
                   churned, late>>

\* Cancel, up to its wait: every timer that can be stopped is.
CancelResumes ==
    /\ agent = "cancelling"
    /\ agent' = "draining"
    /\ timer' = [s \in Subs |-> IF timer[s] = "armed" THEN "none" ELSE timer[s]]
    /\ wg' = wg - Cardinality({s \in Subs : timer[s] = "armed"})
    /\ UNCHANGED <<platform, picker, task, count, logOK, violation, cancelled, fires,
                   churned, late>>

\* Mutant of Drained: Cancel returns without waiting.
DrainedNoWait ==
    /\ agent = "draining"
    /\ agent' = "joining"
    /\ UNCHANGED <<platform, picker, task, count, resumes, logOK, violation, cancelled,
                   fires, churned, late>>

\* Cancel's wait for the callbacks.
Drained ==
    /\ agent = "draining"
    /\ wg = 0
    /\ agent' = "joining"
    /\ UNCHANGED <<platform, picker, task, count, resumes, logOK, violation, cancelled,
                   fires, churned, late>>

\* Every ticker is back at its select and takes the context's case; Run returns
\* and its caller closes the log.
Return ==
    /\ agent = "joining"
    /\ \A k \in Kinds : task[k].pc = "idle"
    /\ agent' = "returned"
    /\ logOK' = FALSE
    /\ UNCHANGED <<platform, picker, task, count, resumes, violation, cancelled, fires,
                   churned, late>>

\* The file system stops taking rows.
LogFails ==
    /\ logOK
    /\ logOK' = FALSE
    /\ UNCHANGED <<platform, picker, task, count, resumes, violation, run, fires,
                   churned, late>>

-----------------------------------------------------------------------------

Network(k) == Serve(k) \/ Replay(k) \/ Reject(k)

Ticker(k) == Failed(k) \/ Succeed(k) \/ Escalate(k) \/ Mark(k) \/ Schedule(k)

Callback(s) ==
    TimerFires(s) \/ ServeResume(s) \/ RejectResume(s) \/ ResumeOutcome(s) \/ ResumeMark(s)

Shutdown == CancelResumes \/ Drained \/ Return

Next ==
    \/ \E k \in Kinds : Fire(k) \/ Network(k) \/ Ticker(k)
    \/ \E s \in Subs : Callback(s) \/ PlatformMoves(s)
    \/ CtxDone \/ Shutdown \/ LogFails

\* Goroutines are scheduled, every request ends by its client's timeout and an
\* armed timer fires; nothing makes a ticker find work, the platform move by
\* itself, the context end or the log break.
Fairness ==
    /\ \A k \in Kinds : WF_vars(Network(k)) /\ WF_vars(Ticker(k))
    /\ \A s \in Subs : WF_vars(Callback(s))
    /\ WF_vars(Shutdown)

Spec == Init /\ [][Next]_vars

FairSpec == Spec /\ Fairness

-----------------------------------------------------------------------------
(* Properties *)

\* Types; the resume scheduler's WaitGroup counter never goes negative, which
\* would panic the agent.
TypeOK ==
    /\ plat \in [Subs -> States]
    /\ live \in [Subs -> States]
    /\ susp \in [Subs -> BOOLEAN]
    /\ seen \in [Subs -> [Kinds \cup {"RESUME"} -> States \cup {"", NoKey}]]
    /\ moves \in 0..MaxMoves
    /\ task \in [Kinds -> Task]
    /\ count \in [Subs -> 0..MaxFires]
    /\ timer \in [Subs -> {"none", "armed"} \cup InCallback]
    /\ wg \in Nat
    /\ logOK \in BOOLEAN
    /\ violation \subseteq AllKinds
    /\ agent \in {"running", "cancelling", "draining", "joining", "returned"}
    /\ cancelled \in BOOLEAN
    /\ fires \in 0..MaxFires
    /\ churned \subseteq Subs
    /\ late \in BOOLEAN

\* The quiet period of FirePauseAndScheduleResume: as long as a resume of a
\* subscription is pending or running, no ticker can pick that subscription.
QuietWhilePaused == \A s \in Subs : Outstanding(s) => susp[s]

\* The WaitGroup of ResumeScheduler counts the outstanding resumes exactly:
\* Cancel neither returns before a callback has ended nor waits for one that
\* was stopped.
WgBalanced == wg = Cardinality({s \in Subs : Outstanding(s)})

\* Whatever the interleaving of tickers, resumes and platform, the only rows the
\* agent can log that the validator's Check 10 rejects are payment retries, whose
\* row pairs the picker's state with whatever status the platform answered.
Check10Clean == violation \subseteq {"RETRY_PAYMENT"}

\* Run leaves no resume behind, if no pause was scheduled after Cancel had
\* stopped the timers.
DrainedOnReturn ==
    agent = "returned" /\ ~late => \A s \in Subs : ~Outstanding(s)

\* FireTrialCancel marks the picker "so we never pick this sub again": whatever
\* transitions of it are still in flight then, other than a pause, and whatever
\* they report, no ticker is offered a subscription whose trial was cancelled.
CancelledStaysOut == \A s \in churned : susp[s]

\* A resume that was scheduled gives the subscription back to the tickers, even
\* when the platform refuses it; only the end of the run or a log that cannot
\* be written may keep it away.
HeldIsReleased ==
    \A s \in Subs : timer[s] = "armed" ~> (~susp[s] \/ cancelled \/ ~logOK)

\* Once its context is done, Agent.Run returns.
AgentReturns == cancelled ~> (agent = "returned")

\* A pause ends, and so does the agent: a scheduled resume releases its
\* subscription, and Agent.Run returns once its context is done.
PausesAndRunEnd == HeldIsReleased /\ AgentReturns

=============================================================================
