------------------------------ MODULE EndToEnd ------------------------------
(***************************************************************************)
(* The two commands that seed a platform: seed, followed by seed --clean   *)
(* when the operator likes, and e2e, whose orchestrator runs seven stages  *)
(* (internal/orchestrator) of which two are the seeder and its clean-up.   *)
(*                                                                         *)
(* Seed and clean are the steps of module Seed; the other stages are their *)
(* outcomes.  A context that is cancelled reaches every stage after it.    *)
(***************************************************************************)
EXTENDS Seed

CONSTANTS Flags     \* [doctor, lifecycle, keep]: the flags of e2e

VARIABLES
    cmd,        \* "seed" or "e2e"
    opt,        \* its flags
    where,      \* where the command is
    stage,      \* Result.Stages[s].Status
    firstErr,   \* Orchestrator.Run has an error to return
    runOut,     \* the result of the run goroutine
    lcOut,      \* the result of the lifecycle goroutine
    overall,    \* Result.Overall
    cancelled   \* history: the lifecycle agent cancelled a subscription

orch == <<cmd, opt, where, stage, firstErr, runOut, lcOut, overall, cancelled>>
vars == <<seedVars, orch>>

Stage == {"doctor", "seed", "run", "lifecycle", "validate", "report", "clean"}

TypeOK ==
    /\ main \in {"seeding", "seeded", "cleaning", "cleaned"}
    /\ pc \in [Tenants -> {"idle", "get", "post", "reget", "failing", "failed", "done"}]
    /\ \A t \in Tenants : at[t] \in 1..Len(Plan[arch[t]])
    /\ tries \in [Tenants \cup {Cleaner} -> 0..MaxRetries]
    /\ manifest \subseteq Tenants
    /\ errs \in 0..(Cardinality(Tenants) + 1)
    /\ stage \in [Stage -> {"PENDING", "PASS", "FAIL", "SKIP"}]
    /\ where \in {"doctor", "seed", "fork", "validate", "report", "clean",
                  "cleaning", "operator", "return", "exit"}
    /\ overall \in {"PENDING", "PASS", "FAIL", "SKIP"}

\* e2e has no flag to reuse a tenant or seed a catalog; seed wants a single
\* tenant for either, and a reused one for a catalog.
runE2E(r) == \A t \in DOMAIN r : ~r[t].catalog /\ ~r[t].reuse

runCatalogSeed(r) ==
    \A t \in DOMAIN r : /\ r[t].catalog => r[t].reuse
                        /\ r[t].reuse => DOMAIN r = {t}

Init ==
    /\ SeedInit
    /\ cmd \in {"seed", "e2e"}
    /\ opt \in Flags
    /\ IF cmd = "e2e" THEN runE2E(arch) ELSE runCatalogSeed(arch)
    /\ cmd = "seed" => opt = CHOOSE o \in Flags : TRUE
    /\ where = IF cmd = "e2e" THEN "doctor" ELSE "seed"
    /\ stage = [s \in Stage |-> "PENDING"]
    /\ firstErr = FALSE
    /\ runOut = "none" /\ lcOut = "none" /\ overall = "PENDING"
    /\ cancelled = FALSE

\* endStage: an error that is a cancellation is a PASS.
endStage(err) == IF err \in {"ok", "canceled"} THEN "PASS" ELSE "FAIL"

setStage(s, v) == stage' = [stage EXCEPT ![s] = v]

\* What a stage that watches the context comes to.
StageOutcomes == {"ok", "error"} \cup IF ctxDone THEN {"canceled"} ELSE {}

-----------------------------------------------------------------------------
DoctorStage ==
    /\ where = "doctor"
    /\ \/ /\ ~opt.doctor
          /\ setStage("doctor", "SKIP")
          /\ where' = "seed"
          /\ UNCHANGED firstErr
       \/ /\ opt.doctor
          /\ \E o \in StageOutcomes \cup {"critical"} :
                /\ setStage("doctor", IF o = "critical" THEN "PASS" ELSE endStage(o))
                /\ firstErr' = (o # "ok")
                /\ where' = IF o = "ok" THEN "seed" ELSE "return"
    /\ UNCHANGED <<seedVars, cmd, opt, runOut, lcOut, overall, cancelled>>

\* The steps of Seeder.Run.
SeedStage ==
    /\ where = "seed"
    /\ SeedNext
    /\ UNCHANGED orch

\* NewClient or NewSeeder refuses: nothing is sent.
SeedRejected ==
    /\ cmd = "e2e" /\ where = "seed" /\ main = "seeding"
    /\ \A t \in Tenants : pc[t] = "idle"
    /\ setStage("seed", "FAIL")
    /\ firstErr' = TRUE
    /\ where' = "clean"
    /\ UNCHANGED <<seedVars, cmd, opt, runOut, lcOut, overall, cancelled>>

\* An error of one tenant fails the stage; lifecycle is skipped when the run
\* begins.
SeedEnds ==
    /\ where = "seed" /\ main = "seeded" /\ cmd = "e2e"
    /\ IF errs > 0
       THEN /\ setStage("seed", "FAIL")
            /\ firstErr' = TRUE
            /\ where' = "clean"
            /\ UNCHANGED lcOut
       ELSE /\ stage' = [stage EXCEPT !["seed"] = "PASS",
                            !["lifecycle"] = IF opt.lifecycle THEN @ ELSE "SKIP"]
            /\ where' = "fork"
            /\ lcOut' = IF opt.lifecycle THEN "running" ELSE "skipped"
            /\ UNCHANGED firstErr
    /\ runOut' = IF errs > 0 THEN "none" ELSE "running"
    /\ UNCHANGED <<seedVars, cmd, opt, overall, cancelled>>

\* The run goroutine returns and cancels the context it shares with the
\* lifecycle agent; it may come back with no result.
RunEnds ==
    /\ where = "fork" /\ runOut = "running"
    /\ runOut' \in StageOutcomes \cup {"empty"}
    /\ UNCHANGED <<seedVars, cmd, opt, where, stage, firstErr, lcOut, overall, cancelled>>

\* Mutant of LifecycleEnds: the end of the run does not cancel the agent.
LifecycleEndsAlone ==
    /\ where = "fork" /\ lcOut = "running" /\ ctxDone
    /\ lcOut' = "ok"
    /\ UNCHANGED <<seedVars, cmd, opt, where, stage, firstErr, runOut, overall, cancelled>>

\* The agent drains when the run has ended, which cancels their context, or
\* the command's own context is over.
LifecycleEnds ==
    /\ where = "fork" /\ lcOut = "running" /\ (runOut # "running" \/ ctxDone)
    /\ lcOut' = "ok"
    /\ UNCHANGED <<seedVars, cmd, opt, where, stage, firstErr, runOut, overall, cancelled>>

LifecycleFails ==
    /\ where = "fork" /\ lcOut = "running"
    /\ lcOut' = "error"
    /\ UNCHANGED <<seedVars, cmd, opt, where, stage, firstErr, runOut, overall, cancelled>>

\* While it runs the agent cancels subscriptions.
LifecycleCancels(t) ==
    /\ where = "fork" /\ lcOut = "running" /\ ~ctxDone
    /\ \E e \in Live(arch[t]) : gone' = gone \cup {<<t, e>>}
    /\ cancelled' = TRUE
    /\ UNCHANGED <<arch, ctxDone, main, pc, at, tries, errs, manifest, saved, made,
                   todo, cleanErrs, faults, cmd, opt, where, stage, firstErr,
                   runOut, lcOut, overall>>

\* Mutant of Join: a failed lifecycle leaves no error.
JoinIgnoringLifecycle ==
    /\ where = "fork" /\ "running" \notin {runOut, lcOut}
    /\ stage' = [stage EXCEPT
          !["run"] = IF runOut = "error" THEN "FAIL" ELSE "PASS",
          !["lifecycle"] = IF lcOut = "skipped" THEN @ ELSE endStage(lcOut)]
    /\ firstErr' = (runOut \in {"error", "empty"})
    /\ where' = IF runOut \in {"ok", "canceled"} THEN "validate" ELSE "clean"
    /\ UNCHANGED <<seedVars, cmd, opt, runOut, lcOut, overall, cancelled>>

\* wg.Wait: both are settled at once; a run that failed goes straight to
\* clean, whose manifest is on disk.
Join ==
    /\ where = "fork" /\ "running" \notin {runOut, lcOut}
    /\ stage' = [stage EXCEPT
          !["run"] = IF runOut = "error" THEN "FAIL" ELSE "PASS",
          !["lifecycle"] = IF lcOut = "skipped" THEN @ ELSE endStage(lcOut)]
    /\ firstErr' = (lcOut = "error" \/ runOut \in {"error", "empty"})
    /\ where' = IF runOut \in {"ok", "canceled"} THEN "validate" ELSE "clean"
    /\ UNCHANGED <<seedVars, cmd, opt, runOut, lcOut, overall, cancelled>>

ValidateStage ==
    /\ where = "validate"
    /\ \E o \in StageOutcomes \cup {"failed"} :
          /\ setStage("validate", IF o = "failed" THEN "FAIL" ELSE endStage(o))
          /\ firstErr' = (firstErr \/ o # "ok")
    /\ where' = "report"
    /\ UNCHANGED <<seedVars, cmd, opt, runOut, lcOut, overall, cancelled>>

\* A report that cannot be written is a warning.
ReportStage ==
    /\ where = "report"
    /\ \E o \in {"ok", "error"} : setStage("report", endStage(o))
    /\ where' = "clean"
    /\ UNCHANGED <<seedVars, cmd, opt, firstErr, runOut, lcOut, overall, cancelled>>

runCleanStage ==
    /\ where = "clean"
    /\ IF opt.keep \/ ~saved
       THEN /\ setStage("clean", "SKIP")
            /\ where' = "return"
            /\ UNCHANGED seedVars
       ELSE /\ CleanStart(ctxDone)
            /\ where' = "cleaning"
            /\ UNCHANGED stage
    /\ UNCHANGED <<cmd, opt, firstErr, runOut, lcOut, overall, cancelled>>

CleanStep ==
    /\ where \in {"cleaning", "operator"}
    /\ Archive \/ CleanReturns
    /\ UNCHANGED orch

\* The error of Clean is no cancellation and Run does not return it.
CleanEnds ==
    /\ where = "cleaning" /\ main = "cleaned"
    /\ setStage("clean", IF cleanErrs > 0 THEN "FAIL" ELSE "PASS")
    /\ where' = "return"
    /\ UNCHANGED <<seedVars, cmd, opt, firstErr, runOut, lcOut, overall, cancelled>>

rollUpStatus ==
    IF \E s \in Stage : stage[s] \in {"FAIL", "PENDING"} THEN "FAIL"
    ELSE IF \E s \in Stage : stage[s] = "PASS" THEN "PASS" ELSE "SKIP"

\* The deferred summary, whichever way Run returns.
Return ==
    /\ where = "return"
    /\ overall' = rollUpStatus
    /\ where' = "exit"
    /\ UNCHANGED <<seedVars, cmd, opt, stage, firstErr, runOut, lcOut, cancelled>>

-----------------------------------------------------------------------------
(* The seed command alone.                                                 *)

runSeed ==
    /\ cmd = "seed" /\ where = "seed" /\ main = "seeded"
    /\ firstErr' = (errs > 0)
    /\ where' = "operator"
    /\ UNCHANGED <<seedVars, cmd, opt, stage, runOut, lcOut, overall, cancelled>>

\* seed --clean, a process of its own.
runCleanFlow ==
    /\ where = "operator" /\ main = "seeded" /\ saved
    /\ CleanStart(FALSE)
    /\ UNCHANGED orch

runSeedOver ==
    /\ where = "operator" /\ main \in {"seeded", "cleaned"}
    /\ where' = "exit"
    /\ UNCHANGED <<seedVars, cmd, opt, stage, firstErr, runOut, lcOut, overall, cancelled>>

Signal ==
    /\ where \notin {"return", "exit"} /\ main # "cleaned"
    /\ where = "operator" => main = "cleaning"
    /\ ~ctxDone /\ ctxDone' = TRUE
    /\ UNCHANGED <<arch, main, pc, at, tries, errs, manifest, saved, made, gone,
                   todo, cleanErrs, faults, orch>>

Done == where = "exit" /\ UNCHANGED vars

\* The goroutines of the seeder wait for each other and Run for all of them.
Hangs == where = "seed" /\ Blocked /\ UNCHANGED vars

Progress ==
    \/ DoctorStage \/ SeedStage \/ SeedRejected \/ SeedEnds \/ RunEnds
    \/ LifecycleEnds \/ Join \/ ValidateStage \/ ReportStage
    \/ runCleanStage \/ CleanStep \/ CleanEnds \/ Return
    \/ runSeed \/ runCleanFlow \/ runSeedOver

Next ==
    \/ Progress \/ LifecycleFails \/ Signal \/ Done \/ Hangs
    \/ \E t \in Tenants : LifecycleCancels(t)

Spec == Init /\ [][Next]_vars

\* Every stage the program is in goes on: requests time out, the run has a
\* duration, the agent drains when its context is over.
FairSpec == Spec /\ WF_vars(Progress)

-----------------------------------------------------------------------------
(* Properties                                                              *)

\* No retry, lost answer or conflict makes a second copy of an entity, and no
\* transition is applied twice: the Idempotency-Key of the create calls.
NothingTwice == \A t \in Tenants : \A e \in DOMAIN made[t] : made[t][e] <= 1

\* A tenant is in the manifest exactly when its whole plan landed; and when
\* Seeder.Run returns every tenant is in the manifest or has an error, so that
\* seed's exit status cannot hide a tenant that is missing from it.
EveryTenantAccounted ==
    /\ \A t \in manifest : \A k \in 1..Len(Plan[arch[t]]) :
          LET s == Plan[arch[t]][k] IN s.post /\ ~s.miss => Exists(t, s.ent)
    /\ main # "seeding" =>
          errs = Cardinality(Tenants \ manifest) + (IF saved THEN 0 ELSE 1)

\* Seeding is exact under retries, lost answers and conflicts: nothing is made
\* twice, the manifest holds the tenants that are complete, and the errors
\* tell the others.
SeedingSound == TypeOK /\ NothingTwice /\ EveryTenantAccounted

\* Clean without errors has archived everything of its manifest that has an
\* archive call, whatever was archived or lost before.
CleanIsThorough ==
    main = "cleaned" /\ cleanErrs = 0 =>
        \A t \in manifest : \A k \in 1..Len(CleanPlan[arch[t]]) :
            <<t, CleanPlan[arch[t]][k]>> \in gone

\* A catalog may list a customer's subscription to an offering twice: it is
\* made once, and cancelled twice.
NamedOnce(a) ==
    a.catalog => \A j, k \in 1..Len(a.subs) :
        SubscriptionOf(a.subs[j]) = SubscriptionOf(a.subs[k]) => j = k

\* The order of Clean: with nothing lost or interrupted the platform refuses
\* none of its calls.
CleanSucceeds ==
    /\ main = "cleaned" /\ faults = 0 /\ ~ctxDone /\ ~cancelled
    /\ \A t \in manifest : NamedOnce(arch[t])
    => cleanErrs = 0

\* Whatever fails after the seed stage began, e2e does not end before it has
\* tried to clean up, was told not to, or has no manifest to clean from.
CleansUp ==
    cmd = "e2e" /\ where = "exit" /\ stage["seed"] # "PENDING" =>
        \/ stage["clean"] \in {"PASS", "FAIL"}
        \/ stage["clean"] = "SKIP" /\ (opt.keep \/ ~saved)

\* Cleaning is attempted on every way out of e2e, its order is one the platform
\* accepts, and when it reports no error nothing of the manifest is left.
CleaningSound == CleanIsThorough /\ CleanSucceeds /\ CleansUp

\* The orchestrator implements the abstract stages.
Abstract == INSTANCE Stages WITH
    status <- stage,
    failed <- cmd = "e2e" /\ firstErr,
    over   <- cmd = "e2e" /\ where = "exit"

StagesImplemented == Abstract!Spec

\* Every command returns unless more tenants fail than errCh has room for: then
\* a goroutine of Seeder.Run is blocked at its send and wg.Wait never returns.  A
\* roster that fits the channel always comes to an end.
Terminates ==
    /\ <>(where = "exit" \/ Blocked)
    /\ Cardinality(Tenants) <= ErrCap => <>(where = "exit")
=============================================================================
