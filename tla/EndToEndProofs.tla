--------------------------- MODULE EndToEndProofs ---------------------------
(***************************************************************************)
(* Proofs about the seed and e2e commands.  First the orchestrator: where  *)
(* Run is says which stages are settled (Reached), and that is enough to   *)
(* show that the stages are those of module Stages and that no way out     *)
(* leaves the clean-up untried.  Then the seeder.                          *)
(***************************************************************************)
EXTENDS EndToEnd, FiniteSetTheorems, SequenceTheorems, WellFoundedInduction, TLAPS

Statuses == {"PENDING", "PASS", "FAIL", "SKIP"}
Open(s) == stage[s] = "PENDING"

OrchTypes ==
    /\ cmd \in {"seed", "e2e"}
    /\ stage \in [Stage -> Statuses]
    /\ firstErr \in BOOLEAN
    /\ where \in {"doctor", "seed", "fork", "validate", "report", "clean", "cleaning", "operator",
                  "return", "exit"}
    /\ overall \in Statuses
    /\ runOut \in {"none", "running", "ok", "error", "canceled", "empty"}
    /\ lcOut \in {"none", "running", "skipped", "ok", "error"}

\* Everything of the work is settled, or Run has an error to return.
Complete == firstErr \/ \A s \in Stage \ {"clean"} : ~Open(s)

\* Cleaning was tried, or there was a reason not to.
Cleaned ==
    \/ stage["clean"] \in {"PASS", "FAIL"}
    \/ stage["clean"] = "SKIP" /\ (opt.keep \/ ~saved)

\* What is settled where e2e is.
Reached ==
    /\ where # "operator"
    /\ where \in {"doctor", "seed", "fork"} => ~firstErr
    /\ where = "doctor" => \A s \in Stage : Open(s)
    /\ where = "seed" => ~Open("doctor") /\ \A s \in Stage \ {"doctor"} : Open(s)
    /\ where = "fork" => /\ ~Open("doctor") /\ ~Open("seed")
                         /\ \A s \in {"run", "validate", "report", "clean"} : Open(s)
                         /\ Open("lifecycle") <=> lcOut # "skipped"
                         /\ "none" \notin {runOut, lcOut}
    /\ where = "validate" => /\ \A s \in {"doctor", "seed", "run", "lifecycle"} : ~Open(s)
                             /\ \A s \in {"validate", "report", "clean"} : Open(s)
    /\ where = "report" => /\ \A s \in Stage \ {"report", "clean"} : ~Open(s)
                           /\ Open("report") /\ Open("clean")
    /\ where \in {"clean", "cleaning"} => Open("clean") /\ Complete
    /\ where = "return" => Complete /\ (Open("clean") => firstErr)
    /\ where \in {"return", "exit"} /\ ~Open("seed") => Cleaned

OrchInv ==
    /\ OrchTypes
    /\ cmd = "e2e" => Reached
    /\ cmd = "seed" => where \in {"seed", "operator", "exit"} /\ \A s \in Stage : Open(s)

LEMMA OrchInit == Init => OrchInv
  BY DEF Init, OrchInv, OrchTypes, Reached, Open, Stage, Statuses

LEMMA OrchStep == OrchInv /\ [Next]_vars => OrchInv'
  <1> SUFFICES ASSUME OrchInv, [Next]_vars PROVE OrchInv'
    OBVIOUS
  <1> USE DEF OrchInv, OrchTypes, Reached, Open, Complete, Cleaned, Stage, Statuses
  <1>1. CASE DoctorStage
    <2>1. CASE ~opt.doctor
      BY <1>1, <2>1 DEF DoctorStage, setStage
    <2>2. CASE opt.doctor
      <3>1. PICK o \in StageOutcomes \cup {"critical"} :
               /\ setStage("doctor", IF o = "critical" THEN "PASS" ELSE endStage(o))
               /\ firstErr' = (o # "ok")
               /\ where' = IF o = "ok" THEN "seed" ELSE "return"
        BY <1>1, <2>2 DEF DoctorStage
      <3>2. PICK v \in {"PASS", "FAIL"} : stage' = [stage EXCEPT !["doctor"] = v]
        BY <3>1 DEF setStage, endStage
      <3>3. where = "doctor" /\ UNCHANGED <<cmd, opt, saved, runOut, lcOut, overall>>
        BY <1>1 DEF DoctorStage, seedVars
      <3>4. firstErr' \in BOOLEAN /\ (firstErr' <=> o # "ok")
        BY <3>1
      <3>5. CASE o = "ok"
        <4>1. where' = "seed" /\ ~firstErr'
          BY <3>1, <3>4, <3>5
        <4> QED
          BY <3>2, <3>3, <3>4, <4>1
      <3>6. CASE o # "ok"
        <4>1. where' = "return" /\ firstErr'
          BY <3>1, <3>4, <3>6
        <4> QED
          BY <3>2, <3>3, <3>4, <4>1
      <3> QED
        BY <3>5, <3>6
    <2> QED
      BY <2>1, <2>2
  <1>2. CASE SeedStage
    BY <1>2 DEF SeedStage, orch
  <1>3. CASE SeedRejected
    BY <1>3 DEF SeedRejected, setStage
  <1>4. CASE SeedEnds
    <2>1. CASE errs > 0
      BY <1>4, <2>1 DEF SeedEnds, setStage
    <2>2. CASE ~(errs > 0)
      BY <1>4, <2>2 DEF SeedEnds
    <2> QED
      BY <2>1, <2>2
  <1>5. CASE RunEnds
    BY <1>5 DEF RunEnds, StageOutcomes
  <1>6. CASE LifecycleEnds \/ LifecycleFails \/ \E t \in Tenants : LifecycleCancels(t)
    BY <1>6 DEF LifecycleEnds, LifecycleFails, LifecycleCancels, seedVars
  <1>7. CASE Join
    BY <1>7 DEF Join, endStage
  <1>8. CASE ValidateStage
    BY <1>8 DEF ValidateStage, setStage, endStage, StageOutcomes
  <1>9. CASE ReportStage
    BY <1>9 DEF ReportStage, setStage, endStage
  <1>10. CASE runCleanStage
    BY <1>10 DEF runCleanStage, setStage, CleanStart, seedVars
  <1>11. CASE CleanStep
    BY <1>11 DEF CleanStep, orch
  <1>12. CASE CleanEnds
    BY <1>12 DEF CleanEnds, setStage, seedVars
  <1>13. CASE Return
    BY <1>13 DEF Return, rollUpStatus, seedVars
  <1>14. CASE runSeed \/ runCleanFlow \/ runSeedOver
    <2>1. CASE runSeed
      <3>1. firstErr' \in BOOLEAN
        BY <2>1 DEF runSeed
      <3> QED
        BY <2>1, <3>1 DEF runSeed
    <2>2. CASE runCleanFlow \/ runSeedOver
      BY <2>2 DEF runCleanFlow, runSeedOver, orch
    <2> QED
      BY <1>14, <2>1, <2>2
  <1>15. CASE Signal
    BY <1>15 DEF Signal, orch
  <1>16. CASE UNCHANGED vars
    BY <1>16 DEF vars, orch, seedVars
  <1> QED
    BY <1>1, <1>2, <1>3, <1>4, <1>5, <1>6, <1>7, <1>8, <1>9, <1>10, <1>11, <1>12, <1>13, <1>14,
       <1>15, <1>16 DEF Next, Progress, Done, Hangs

\* The orchestrator tries to clean up whatever failed after seeding began, on
\* every way out of Run.
THEOREM CleanupTried == Spec => []CleansUp
  <1>1. OrchInv => CleansUp
    BY DEF OrchInv, Reached, Open, Cleaned, CleansUp
  <1> QED
    BY <1>1, OrchInit, OrchStep, PTL DEF Spec

-----------------------------------------------------------------------------
(* The refinement of Stages.                                               *)

\* The order of the stages, written out.
Precedes(s, u) ==
    \/ s = "doctor" /\ u \in Stage \ {"doctor"}
    \/ s = "seed" /\ u \in Stage \ {"doctor", "seed"}
    \/ s = "run" /\ u \in {"lifecycle", "validate", "report", "clean"}
    \/ s = "lifecycle" /\ u \in {"validate", "report", "clean"}
    \/ s = "validate" /\ u \in {"report", "clean"}
    \/ s = "report" /\ u = "clean"

LEMMA StageOrder ==
    /\ Abstract!Names = Stage
    /\ \A s, u : Abstract!Before(s, u) => Precedes(s, u)
  <1>1. 1..Len(Abstract!AllStages) = {1, 2, 3, 4, 5, 6, 7}
    BY DEF Abstract!AllStages
  <1>2. /\ Abstract!AllStages[1] = "doctor" /\ Abstract!AllStages[2] = "seed"
        /\ Abstract!AllStages[3] = "run" /\ Abstract!AllStages[4] = "lifecycle"
        /\ Abstract!AllStages[5] = "validate" /\ Abstract!AllStages[6] = "report"
        /\ Abstract!AllStages[7] = "clean"
    BY DEF Abstract!AllStages
  <1>3. Abstract!Names = Stage
    BY <1>1, <1>2 DEF Abstract!Names, Stage
  <1>4. ASSUME NEW s, NEW u, Abstract!Before(s, u) PROVE Precedes(s, u)
    <2>1. PICK i, j \in 1..Len(Abstract!AllStages) :
             i < j /\ Abstract!AllStages[i] = s /\ Abstract!AllStages[j] = u
      BY <1>4 DEF Abstract!Before
    <2>2. CASE i = 1
      BY <1>1, <1>2, <2>1, <2>2 DEF Precedes, Stage
    <2>3. CASE i = 2
      BY <1>1, <1>2, <2>1, <2>3 DEF Precedes, Stage
    <2>4. CASE i \in {3, 4}
      BY <1>1, <1>2, <2>1, <2>4 DEF Precedes, Stage
    <2>5. CASE i \in {5, 6, 7}
      BY <1>1, <1>2, <2>1, <2>5 DEF Precedes, Stage
    <2> QED
      BY <1>1, <2>1, <2>2, <2>3, <2>4, <2>5
  <1> QED
    BY <1>3, <1>4

\* A step of e2e that settles the stages of S is the Settle of Stages.
LEMMA SettleStep ==
    ASSUME OrchTypes, OrchTypes', cmd = "e2e", cmd' = cmd, where # "exit", where' # "exit",
           NEW S \in SUBSET Stage, S # {},
           \A s \in S : Open(s) /\ ~Open(s)',
           \A s \in Stage \ S : stage'[s] = stage[s],
           \A s \in S : \A u \in Stage : Precedes(s, u) /\ ~Open(u) => u = "lifecycle",
           \/ S = {"clean"}
           \/ \A s \in S : \A u \in Stage :
                Precedes(u, s) => ~Open(u) \/ u \in S \/ (u = "run" /\ s = "lifecycle"),
           firstErr => firstErr',
           \A s \in S \ {"report", "clean"} : stage'[s] = "FAIL" => firstErr'
    PROVE  Abstract!Next
  <1> DEFINE D == {s \in Abstract!Names : stage'[s] # stage[s]}
  <1>1. Abstract!Names = Stage
    BY StageOrder
  <1>2. D = S
    BY <1>1 DEF Open
  <1>3. stage' \in [Abstract!Names -> {"PENDING", "PASS", "FAIL", "SKIP"}]
    BY <1>1 DEF OrchTypes, Statuses
  <1>4. \A s \in D : /\ ~Abstract!Settled(s)
                     /\ \A u \in Abstract!Names :
                          Abstract!Before(s, u) /\ Abstract!Settled(u) => u = "lifecycle"
    BY <1>1, <1>2, StageOrder DEF Abstract!Settled, Open
  <1>5. \/ D = {"clean"}
        \/ \A s \in D : \A u \in Abstract!Names : Abstract!Before(u, s) =>
             Abstract!Settled(u) \/ u \in D \/ <<u, s>> = <<"run", "lifecycle">>
    BY <1>1, <1>2, StageOrder DEF Abstract!Settled, Open
  <1>6. (cmd' = "e2e" /\ firstErr') \in {f \in BOOLEAN :
           (cmd = "e2e" /\ firstErr) \/ (\E s \in D \ {"report", "clean"} : stage'[s] = "FAIL") => f}
    BY <1>2 DEF OrchTypes
  <1>7. (cmd' = "e2e" /\ where' = "exit") = (cmd = "e2e" /\ where = "exit")
        /\ ~(cmd = "e2e" /\ where = "exit")
    OBVIOUS
  <1> HIDE DEF D
  <1>8. D = {s \in Abstract!Names : stage'[s] # stage[s]} /\ D # {}
    BY <1>2 DEF D
  <1> QED
    BY <1>3, <1>4, <1>5, <1>6, <1>7, <1>8 DEF Abstract!Next, Abstract!Settle

\* A step that settles nothing, and does not end e2e, is no step of Stages.
LEMMA Stutters ==
    ASSUME stage' = stage, cmd' = cmd, firstErr' = firstErr \/ cmd = "seed",
           where' = where \/ cmd = "seed" \/ (where # "exit" /\ where' # "exit")
    PROVE  UNCHANGED Abstract!vars
  <1>1. cmd = "seed" => cmd # "e2e"
    OBVIOUS
  <1>2. (cmd' = "e2e" /\ firstErr') = (cmd = "e2e" /\ firstErr)
    BY <1>1
  <1>3. (cmd' = "e2e" /\ where' = "exit") = (cmd = "e2e" /\ where = "exit")
    BY <1>1
  <1> QED
    BY <1>2, <1>3 DEF Abstract!vars

LEMMA StagesStep == OrchInv /\ [Next]_vars => [Abstract!Next]_(Abstract!vars)
  <1> SUFFICES ASSUME OrchInv, [Next]_vars PROVE Abstract!Next \/ UNCHANGED Abstract!vars
    OBVIOUS
  <1>a. OrchInv' /\ OrchTypes /\ OrchTypes' /\ (cmd = "e2e" => Reached)
        /\ (cmd = "seed" => where \in {"seed", "operator", "exit"}) /\ cmd \in {"seed", "e2e"}
    BY OrchStep DEF OrchInv, OrchTypes
  <1>1. CASE DoctorStage
    <2>1. /\ cmd = "e2e" /\ cmd' = cmd /\ where = "doctor" /\ where' # "exit" /\ ~firstErr
          /\ \A s \in Stage : Open(s)
      BY <1>1, <1>a DEF DoctorStage, Reached
    <2>2. /\ ~Open("doctor")' /\ \A s \in Stage \ {"doctor"} : stage'[s] = stage[s]
          /\ stage'["doctor"] = "FAIL" => firstErr'
      BY <1>1, <1>a
      DEF DoctorStage, setStage, endStage, StageOutcomes, OrchTypes, Open, Stage, Statuses
    <2> QED
      BY <1>a, <2>1, <2>2, SettleStep, {"doctor"} \in SUBSET Stage DEF Precedes, Stage
  <1>2. CASE SeedStage \/ CleanStep \/ runCleanFlow \/ Signal
    BY <1>2, Stutters DEF SeedStage, CleanStep, runCleanFlow, Signal, orch
  <1>3. CASE SeedRejected
    <2>1. /\ cmd = "e2e" /\ cmd' = cmd /\ where = "seed" /\ where' = "clean" /\ firstErr'
          /\ \A s \in Stage \ {"doctor"} : Open(s)
      BY <1>3, <1>a DEF SeedRejected, Reached
    <2>2. ~Open("seed")' /\ \A s \in Stage \ {"seed"} : stage'[s] = stage[s]
      BY <1>3, <1>a DEF SeedRejected, setStage, OrchTypes, Open, Stage, Statuses
    <2>3. ~Open("doctor")
      BY <1>a, <2>1 DEF Reached
    <2> QED
      BY <1>a, <2>1, <2>2, <2>3, SettleStep, {"seed"} \in SUBSET Stage DEF Precedes, Stage
  <1>4. CASE SeedEnds
    <2>1. /\ cmd = "e2e" /\ cmd' = cmd /\ where = "seed" /\ where' \in {"clean", "fork"}
          /\ ~Open("doctor") /\ ~firstErr
          /\ \A s \in Stage \ {"doctor"} : Open(s)
      BY <1>4, <1>a DEF SeedEnds, Reached
    <2>2. CASE errs > 0
      <3>1. ~Open("seed")' /\ (\A s \in Stage \ {"seed"} : stage'[s] = stage[s]) /\ firstErr'
        BY <1>4, <1>a, <2>2 DEF SeedEnds, setStage, OrchTypes, Open, Stage, Statuses
      <3> QED
        BY <1>a, <2>1, <3>1, SettleStep, {"seed"} \in SUBSET Stage DEF Precedes, Stage
    <2>3. CASE ~(errs > 0) /\ opt.lifecycle
      <3>1. stage'["seed"] = "PASS" /\ (\A s \in Stage \ {"seed"} : stage'[s] = stage[s])
        BY <1>4, <1>a, <2>3 DEF SeedEnds, OrchTypes, Stage
      <3> QED
        BY <1>a, <2>1, <3>1, SettleStep, {"seed"} \in SUBSET Stage DEF Precedes, Stage, Open
    <2>4. CASE ~(errs > 0) /\ ~opt.lifecycle
      <3>1. /\ stage'["seed"] = "PASS" /\ stage'["lifecycle"] = "SKIP"
            /\ \A s \in Stage \ {"seed", "lifecycle"} : stage'[s] = stage[s]
        BY <1>4, <1>a, <2>4 DEF SeedEnds, OrchTypes, Stage
      <3> QED
        BY <1>a, <2>1, <3>1, SettleStep, {"seed", "lifecycle"} \in SUBSET Stage
        DEF Precedes, Stage, Open
    <2> QED
      BY <2>2, <2>3, <2>4
  <1>5. CASE \/ RunEnds \/ LifecycleEnds \/ LifecycleFails
             \/ \E t \in Tenants : LifecycleCancels(t)
    BY <1>5, Stutters DEF RunEnds, LifecycleEnds, LifecycleFails, LifecycleCancels
  <1>6. CASE Join
    <2>1. /\ cmd = "e2e" /\ cmd' = cmd /\ where = "fork" /\ where' \in {"clean", "validate"}
          /\ ~Open("doctor") /\ ~Open("seed") /\ ~firstErr
          /\ \A s \in {"run", "validate", "report", "clean"} : Open(s)
          /\ Open("lifecycle") <=> lcOut # "skipped"
          /\ lcOut \in {"skipped", "ok", "error"}
      BY <1>6, <1>a DEF Join, Reached, OrchTypes
    <2>2. /\ stage'["run"] = IF runOut = "error" THEN "FAIL" ELSE "PASS"
          /\ stage'["lifecycle"] = IF lcOut = "skipped" THEN stage["lifecycle"] ELSE endStage(lcOut)
          /\ \A s \in Stage \ {"run", "lifecycle"} : stage'[s] = stage[s]
          /\ lcOut = "error" \/ runOut = "error" => firstErr'
      BY <1>6, <1>a DEF Join, OrchTypes, Stage
    <2>3. CASE lcOut = "skipped"
      BY <1>a, <2>1, <2>2, <2>3, SettleStep, {"run"} \in SUBSET Stage DEF Precedes, Stage, Open
    <2>4. CASE lcOut # "skipped"
      <3>1. stage'["lifecycle"] = IF lcOut = "error" THEN "FAIL" ELSE "PASS"
        BY <2>1, <2>2, <2>4 DEF endStage
      <3> QED
        BY <1>a, <2>1, <2>2, <2>4, <3>1, SettleStep, {"run", "lifecycle"} \in SUBSET Stage
        DEF Precedes, Stage, Open
    <2> QED
      BY <2>3, <2>4
  <1>7. CASE ValidateStage
    <2>1. /\ cmd = "e2e" /\ cmd' = cmd /\ where = "validate" /\ where' = "report"
          /\ \A s \in {"doctor", "seed", "run", "lifecycle"} : ~Open(s)
          /\ \A s \in {"validate", "report", "clean"} : Open(s)
      BY <1>7, <1>a DEF ValidateStage, Reached
    <2>2. PICK o \in StageOutcomes \cup {"failed"} :
             /\ setStage("validate", IF o = "failed" THEN "FAIL" ELSE endStage(o))
             /\ firstErr' = (firstErr \/ o # "ok")
      BY <1>7 DEF ValidateStage
    <2>3. /\ ~Open("validate")' /\ \A s \in Stage \ {"validate"} : stage'[s] = stage[s]
          /\ stage'["validate"] = "FAIL" => o # "ok"
      BY <1>a, <2>2 DEF setStage, endStage, OrchTypes, Open, Stage
    <2>4. (o # "ok" => firstErr') /\ (firstErr => firstErr')
      BY <2>2
    <2> QED
      BY <1>a, <2>1, <2>3, <2>4, SettleStep, {"validate"} \in SUBSET Stage DEF Precedes, Stage
  <1>8. CASE ReportStage
    <2>1. /\ cmd = "e2e" /\ cmd' = cmd /\ where = "report" /\ where' = "clean"
          /\ \A s \in Stage \ {"report", "clean"} : ~Open(s)
          /\ Open("report") /\ Open("clean") /\ firstErr' = firstErr
      BY <1>8, <1>a DEF ReportStage, Reached
    <2>2. ~Open("report")' /\ \A s \in Stage \ {"report"} : stage'[s] = stage[s]
      BY <1>8, <1>a DEF ReportStage, setStage, endStage, OrchTypes, Open, Stage
    <2> QED
      BY <1>a, <2>1, <2>2, SettleStep, {"report"} \in SUBSET Stage DEF Precedes, Stage
  <1>9. ASSUME cmd = "e2e", cmd' = cmd, where \in {"clean", "cleaning"}, where' # "exit",
               ~Open("clean")', \A s \in Stage \ {"clean"} : stage'[s] = stage[s],
               firstErr' = firstErr
        PROVE  Abstract!Next
    BY <1>a, <1>9, SettleStep, {"clean"} \in SUBSET Stage DEF Precedes, Stage, Reached
  <1>10. CASE runCleanStage
    <2>1. cmd = "e2e" /\ cmd' = cmd /\ where = "clean" /\ firstErr' = firstErr
      BY <1>10, <1>a DEF runCleanStage
    <2>2. CASE opt.keep \/ ~saved
      <3>1. /\ ~Open("clean")' /\ \A s \in Stage \ {"clean"} : stage'[s] = stage[s]
            /\ where' = "return"
        BY <1>10, <1>a, <2>2 DEF runCleanStage, setStage, OrchTypes, Open, Stage
      <3> QED
        BY <1>9, <2>1, <3>1
    <2>3. CASE ~(opt.keep \/ ~saved)
      BY <1>10, <2>1, <2>3, Stutters DEF runCleanStage
    <2> QED
      BY <2>2, <2>3
  <1>11. CASE CleanEnds
    <2>1. /\ cmd = "e2e" /\ cmd' = cmd /\ where = "cleaning" /\ firstErr' = firstErr
          /\ where' = "return"
      BY <1>11, <1>a DEF CleanEnds
    <2>2. ~Open("clean")' /\ \A s \in Stage \ {"clean"} : stage'[s] = stage[s]
      BY <1>11, <1>a DEF CleanEnds, setStage, OrchTypes, Open, Stage
    <2> QED
      BY <1>9, <2>1, <2>2
  <1>12. CASE Return
    <2>1. /\ cmd = "e2e" /\ cmd' = cmd /\ where = "return" /\ where' = "exit"
          /\ stage' = stage /\ firstErr' = firstErr
          /\ firstErr \/ \A s \in Stage : ~Open(s)
      BY <1>12, <1>a DEF Return, Reached, Complete
    <2>2. (cmd' = "e2e" /\ firstErr') \in {f \in BOOLEAN :
             (cmd = "e2e" /\ firstErr) \/ (\E s \in Abstract!Names : ~Abstract!Settled(s)) => f}
      BY <1>a, <2>1, StageOrder DEF Abstract!Settled, Open, OrchTypes
    <2>3. (cmd' = "e2e" /\ where' = "exit") = TRUE /\ ~(cmd = "e2e" /\ where = "exit")
      BY <2>1
    <2> QED
      BY <2>1, <2>2, <2>3 DEF Abstract!Next, Abstract!Finish
  <1>13. CASE runSeed \/ runSeedOver
    <2>1. cmd = "seed" /\ cmd' = cmd /\ stage' = stage
      BY <1>13, <1>a DEF runSeed, runSeedOver, Reached
    <2> QED
      BY <2>1, Stutters
  <1>14. CASE UNCHANGED vars
    BY <1>14, Stutters DEF vars, orch
  <1> QED
    BY <1>1, <1>2, <1>3, <1>4, <1>5, <1>6, <1>7, <1>8, <1>10, <1>11, <1>12, <1>13, <1>14
    DEF Next, Progress, Done, Hangs

\* The orchestrator implements the abstract stages: each is settled once and
\* in order, after a failure only clean is, and a failure that counts is
\* returned.
THEOREM Orchestrated == Spec => StagesImplemented
  <1>1. Init => Abstract!Init
    BY StageOrder DEF Init, Abstract!Init
  <1> QED
    BY <1>1, OrchInit, OrchStep, StagesStep, PTL DEF Spec, StagesImplemented, Abstract!Spec

-----------------------------------------------------------------------------
(***************************************************************************)
(* The seeder: first what its plans are made of.  They are flattened       *)
(* sequences of any length, so this is an induction on the length, which   *)
(* the provers can do over sets of numbers.                                *)
(***************************************************************************)
\* A set of numbers that has 0 and the successors of its numbers has them all.
LEMMA SetInduction ==
    ASSUME NEW S, 0 \in S, \A n \in Nat : n \in S => n + 1 \in S
    PROVE  Nat \subseteq S
  <1> DEFINE T == Nat \ S
             R == OpToRel(<, Nat)
  <1> SUFFICES ASSUME T # {} PROVE FALSE
    OBVIOUS
  <1>1. IsWellFoundedOn(R, Nat)
    BY NatLessThanWellFounded
  <1>2. \A y, x \in Nat : y < x => <<y, x>> \in R
    BY DEF OpToRel
  <1>3. T \subseteq Nat
    OBVIOUS
  <1> HIDE DEF R, T
  <1>4. PICK x \in T : \A y \in T : ~(<<y, x>> \in R)
    BY <1>1, <1>3, WFMin
  <1>5. x \in Nat /\ x # 0 /\ x - 1 \in Nat
    BY <1>3, <1>4 DEF T
  <1>6. x - 1 \in T
    BY <1>4, <1>5 DEF T
  <1>7. <<x - 1, x>> \in R
    BY <1>2, <1>5
  <1> QED
    BY <1>4, <1>6, <1>7

\* The first n steps of FlattenSeq.
Flattens(g, ss, n) == \A i \in 1..n : g[i] = IF i = 1 THEN ss[i] ELSE g[i-1] \o ss[i]

\* There are such steps for every length.
LEMMA FlattenSteps ==
    ASSUME NEW T, NEW ss, NEW N \in Nat, \A i \in 1..N : ss[i] \in Seq(T)
    PROVE  \E g \in [1..N -> Seq(T)] : Flattens(g, ss, N)
  <1> DEFINE S == {n \in Nat : n <= N => \E g \in [1..n -> Seq(T)] : Flattens(g, ss, n)}
  <1>1. 0 \in S
    <2>1. [i \in 1..0 |-> <<>>] \in [1..0 -> Seq(T)]
      OBVIOUS
    <2>2. Flattens([i \in 1..0 |-> <<>>], ss, 0)
      BY DEF Flattens
    <2> QED
      BY <2>1, <2>2
  <1>2. ASSUME NEW n \in Nat, n \in S PROVE n + 1 \in S
    <2>1. CASE n + 1 <= N
      <3>1. PICK g \in [1..n -> Seq(T)] : Flattens(g, ss, n)
        BY <1>2, <2>1
      <3> DEFINE v == IF n = 0 THEN ss[1] ELSE g[n] \o ss[n + 1]
                 h == [i \in 1..(n + 1) |-> IF i = n + 1 THEN v ELSE g[i]]
      <3>2. v \in Seq(T)
        <4>1. CASE n = 0
          BY <2>1, <4>1
        <4>2. CASE n # 0
          <5>1. g[n] \in Seq(T) /\ ss[n + 1] \in Seq(T)
            BY <2>1, <3>1, <4>2
          <5>2. g[n] \o ss[n + 1] \in Seq(T)
            BY <5>1, ConcatProperties
          <5> QED
            BY <4>2, <5>2
        <4> QED
          BY <4>1, <4>2
      <3>3. \A i \in 1..(n + 1) : h[i] = IF i = 1 THEN ss[i] ELSE h[i-1] \o ss[i]
        <4>1. ASSUME NEW i \in 1..(n + 1) PROVE h[i] = IF i = 1 THEN ss[i] ELSE h[i-1] \o ss[i]
          <5>1. CASE i = n + 1 /\ n = 0
            BY <5>1
          <5>2. CASE i = n + 1 /\ n # 0
            <6>1. i - 1 = n /\ i - 1 \in 1..(n + 1) /\ i - 1 # n + 1 /\ i # 1
              BY <5>2
            <6>2. h[i] = v /\ h[i - 1] = g[n]
              BY <5>2, <6>1
            <6>3. v = g[n] \o ss[i]
              BY <5>2
            <6> QED
              BY <6>1, <6>2, <6>3
          <5>3. CASE i # n + 1 /\ i = 1
            <6>1. i \in 1..n /\ h[i] = g[i]
              BY <5>3
            <6> QED
              BY <3>1, <5>3, <6>1 DEF Flattens
          <5>4. CASE i # n + 1 /\ i # 1
            <6>1. i \in 1..n /\ h[i] = g[i] /\ h[i - 1] = g[i - 1]
              BY <5>4
            <6> QED
              BY <3>1, <5>4, <6>1 DEF Flattens
          <5> QED
            BY <5>1, <5>2, <5>3, <5>4
        <4> QED
          BY <4>1
      <3> HIDE DEF v
      <3>4. h \in [1..(n + 1) -> Seq(T)]
        BY <3>1, <3>2
      <3> HIDE DEF h
      <3>5. Flattens(h, ss, n + 1)
        BY <3>3 DEF Flattens
      <3> QED
        BY <3>4, <3>5
    <2>2. CASE ~(n + 1 <= N)
      BY <2>2
    <2> QED
      BY <2>1, <2>2
  <1> HIDE DEF S
  <1>3. Nat \subseteq S
    BY <1>1, <1>2, SetInduction
  <1> QED
    BY <1>3 DEF S

\* A table over 1..n is a sequence.
LEMMA Listed ==
    ASSUME NEW T, NEW n \in Nat, NEW f, f = [i \in 1..n |-> f[i]], \A i \in 1..n : f[i] \in T
    PROVE  f \in Seq(T) /\ Len(f) = n
  OBVIOUS

\* Flattening sequences over T gives a sequence over T.
LEMMA FlattenType ==
    ASSUME NEW T, NEW ss, Len(ss) \in Nat, Len(ss) = 0 => ss = <<>>,
           \A i \in 1..Len(ss) : ss[i] \in Seq(T)
    PROVE  FlattenSeq(ss) \in Seq(T)
  <1> DEFINE F(g) == [i \in 1..Len(ss) |-> IF i = 1 THEN ss[i] ELSE g[i-1] \o ss[i]]
             c == CHOOSE k : k = F(k)
  <1>1. CASE Len(ss) = 0
    <2>1. FlattenSeq(ss) = ss
      BY <1>1 DEF FlattenSeq
    <2> QED
      BY <1>1, <2>1
  <1>2. CASE Len(ss) # 0
    <2>1. FlattenSeq(ss) = c[Len(ss)]
      BY <1>2 DEF FlattenSeq
    <2>2. PICK g \in [1..Len(ss) -> Seq(T)] : Flattens(g, ss, Len(ss))
      BY FlattenSteps
    <2>3. g = F(g)
      BY <2>2 DEF Flattens
    <2>4. c = F(c)
      BY <2>3
    <2> HIDE DEF c
    <2> DEFINE S == {n \in Nat : n + 1 <= Len(ss) => c[n + 1] \in Seq(T)}
    <2>5. 0 \in S
      <3>1. 1 \in 1..Len(ss)
        BY <1>2
      <3>2. c[1] = ss[1]
        BY <2>4, <3>1
      <3> QED
        BY <3>1, <3>2
    <2>6. ASSUME NEW n \in Nat, n \in S PROVE n + 1 \in S
      <3>1. CASE n + 1 + 1 <= Len(ss)
        <4>0. PICK m \in 1..Len(ss) : m = n + 1 + 1
          BY <3>1
        <4>1. m # 1 /\ m - 1 = n + 1 /\ n + 1 <= Len(ss)
          BY <3>1, <4>0
        <4>2. c[m] = c[m - 1] \o ss[m]
          BY <2>4, <4>1
        <4>3. c[n + 1] \in Seq(T)
          BY <2>6, <4>1
        <4>4. c[n + 1] \o ss[m] \in Seq(T)
          BY <4>3, ConcatProperties
        <4>5. c[n + 1 + 1] \in Seq(T)
          BY <4>0, <4>1, <4>2, <4>4
        <4> QED
          BY <4>5
      <3>2. CASE ~(n + 1 + 1 <= Len(ss))
        BY <3>2
      <3> QED
        BY <3>1, <3>2
    <2> HIDE DEF S
    <2>7. Nat \subseteq S
      BY <2>5, <2>6, SetInduction
    <2>8. Len(ss) - 1 \in S /\ Len(ss) - 1 + 1 = Len(ss)
      BY <1>2, <2>7
    <2> QED
      BY <2>1, <2>8 DEF S
  <1> QED
    BY <1>1, <1>2

Transitions == {"cancel", "expire", "pause"}
Kinds == {"tenant", "billing-entity", "gateway", "ingest-key", "product", "metrics", "rate-plan",
          "offering", "customer", "wallet", "payment-method", "subscription", "api-key",
          "stale-keys"} \cup Transitions
Ents == {<<k>> : k \in Kinds} \cup (Kinds \X Nat) \cup (Kinds \X Nat \X Nat)

\* A provision call POSTs or only reads; a POST has an Idempotency-Key or is
\* a transition.
Calls == {s \in [ent : Ents, pre : {"lookup", "read", "none"}, post : BOOLEAN, keyed : BOOLEAN,
                 miss : BOOLEAN] :
             /\ s.post \/ s.pre = "read"
             /\ s.post => s.keyed \/ s.ent[1] \in Transitions}

LEMMA StepCalls ==
    ASSUME NEW ent \in Ents, NEW pre \in {"lookup", "read", "none"}
    PROVE  /\ Step(ent, pre, TRUE, TRUE) \in Calls
           /\ ent[1] \in Transitions => Step(ent, pre, TRUE, FALSE) \in Calls
           /\ Step(ent, "read", FALSE, FALSE) \in Calls
  BY DEF Step, Calls

LEMMA EntForms ==
    /\ \A k \in Kinds : <<k>> \in Ents
    /\ \A k \in Kinds : \A i \in Nat : <<k, i>> \in Ents
    /\ \A k \in Kinds : \A i, o \in Nat : <<k, i, o>> \in Ents /\ <<k, i, o>>[1] = k
  BY DEF Ents

LEMMA Provisions ==
    /\ provisionTenant \in Calls /\ provisionDefaultBillingEntity \in Calls
    /\ provisionPaymentGatewayIfNeeded \in Calls /\ provisionIngestKey \in Calls
    /\ \A i \in Nat : /\ provisionProduct(i) \in Calls /\ provisionMetrics(i) \in Calls
                      /\ provisionRatePlan(i) \in Calls /\ provisionOffering(i) \in Calls
                      /\ provisionCustomer(i) \in Calls /\ provisionWallet(i) \in Calls
                      /\ provisionPaymentMethod(i) \in Calls
    /\ \A i, o \in Nat : /\ provisionSubscription(i, o) \in Calls
                         /\ provisionAPIKey(i, o) \in Calls
  <1> DEFINE Pre == {"lookup", "read", "none"}
  <1>1. \A k \in Kinds : \A pre \in Pre : Step(<<k>>, pre, TRUE, TRUE) \in Calls
    BY StepCalls, EntForms
  <1>2. \A k \in Kinds : \A i \in Nat : \A pre \in Pre : Step(<<k, i>>, pre, TRUE, TRUE) \in Calls
    BY StepCalls, EntForms
  <1>3. \A k \in Kinds : \A i, o \in Nat : \A pre \in Pre :
           Step(<<k, i, o>>, pre, TRUE, TRUE) \in Calls
    BY StepCalls, EntForms
  <1>4. /\ provisionTenant \in Calls /\ provisionDefaultBillingEntity \in Calls
        /\ provisionPaymentGatewayIfNeeded \in Calls /\ provisionIngestKey \in Calls
    BY <1>1 DEF Kinds, provisionTenant, provisionDefaultBillingEntity, provisionPaymentGatewayIfNeeded,
                provisionIngestKey
  <1>5. ASSUME NEW i \in Nat
        PROVE  /\ provisionProduct(i) \in Calls /\ provisionMetrics(i) \in Calls
               /\ provisionRatePlan(i) \in Calls /\ provisionOffering(i) \in Calls
               /\ provisionCustomer(i) \in Calls /\ provisionWallet(i) \in Calls
               /\ provisionPaymentMethod(i) \in Calls
    BY <1>2 DEF Kinds, provisionProduct, provisionMetrics, provisionRatePlan, provisionOffering,
                provisionCustomer, provisionWallet, provisionPaymentMethod
  <1>6. ASSUME NEW i \in Nat, NEW o \in Nat
        PROVE  provisionSubscription(i, o) \in Calls /\ provisionAPIKey(i, o) \in Calls
    BY <1>3 DEF Kinds, provisionSubscription, provisionAPIKey
  <1> QED
    BY <1>4, <1>5, <1>6

LEMMA Pieces ==
    /\ \A c \in Calls : <<c>> \in Seq(Calls) /\ Len(<<c>>) = 1
    /\ <<>> \in Seq(Calls)
    /\ \A c \in Calls : \A b : Only(b, c) \in Seq(Calls)
    /\ \A c, d \in Calls : <<c, d>> \in Seq(Calls)
    /\ \A x, y \in Seq(Calls) : x \o y \in Seq(Calls) /\ Len(x \o y) = Len(x) + Len(y)
  <1>1. \A c \in Calls : <<c>> \in Seq(Calls) /\ Len(<<c>>) = 1
    OBVIOUS
  <1>2. \A c \in Calls : \A b : Only(b, c) \in Seq(Calls)
    BY <1>1 DEF Only
  <1>3. \A x, y \in Seq(Calls) : x \o y \in Seq(Calls) /\ Len(x \o y) = Len(x) + Len(y)
    BY ConcatProperties
  <1> QED
    BY <1>1, <1>2, <1>3

\* Subscriptions: the transition and the check of the keys.
LEMMA SubscriptionCalls ==
    ASSUME NEW i \in Nat, NEW o \in Nat, NEW state
    PROVE  /\ transitionSubscription(i, o, state) \in Seq(Calls)
           /\ verifyStaleKeys(i, o, state) \in Seq(Calls)
  <1>1. /\ \A k \in Transitions : Step(<<k, i, o>>, "none", TRUE, FALSE) \in Calls
        /\ Step(<<"stale-keys", i, o>>, "read", FALSE, FALSE) \in Calls
    BY StepCalls, EntForms DEF Transitions, Kinds
  <1>2. \A c \in Calls : [c EXCEPT !.miss = TRUE] \in Calls
    BY DEF Calls
  <1>3. /\ <<Step(<<"cancel", i, o>>, "none", TRUE, FALSE)>> \in Seq(Calls)
        /\ <<Step(<<"pause", i, o>>, "none", TRUE, FALSE)>> \in Seq(Calls)
        /\ <<[Step(<<"expire", i, o>>, "none", TRUE, FALSE) EXCEPT !.miss = TRUE]>> \in Seq(Calls)
    BY <1>1, <1>2, Pieces DEF Transitions
  <1>4. transitionSubscription(i, o, state) \in Seq(Calls)
    BY <1>3, Pieces DEF transitionSubscription
  <1> QED
    BY <1>1, <1>4, Pieces DEF verifyStaleKeys

\* A flattened table of calls is a sequence of calls.
LEMMA Tables ==
    ASSUME NEW n \in Nat, NEW f, DOMAIN f = 1..n, f = [i \in 1..n |-> f[i]],
           \A i \in 1..n : f[i] \in Seq(Calls)
    PROVE  FlattenSeq(f) \in Seq(Calls)
  <1>1. f \in Seq(Seq(Calls)) /\ Len(f) = n
    OBVIOUS
  <1>2. n = 0 => f = <<>>
    BY <1>1
  <1> QED
    BY <1>1, <1>2, FlattenType

LEMMA CustomerCalls ==
    ASSUME NEW i \in Nat, NEW c, c.card \in Nat
    PROVE  seedCustomer(i, c) \in Seq(Calls)
  <1>1. /\ <<provisionCustomer(i)>> \in Seq(Calls)
        /\ Only(NeedsWallet(c.mode), provisionWallet(i)) \in Seq(Calls)
        /\ Only(NeedsPaymentMethod(c.mode), provisionPaymentMethod(i)) \in Seq(Calls)
        /\ <<provisionSubscription(i, c.card)>> \in Seq(Calls)
        /\ Only(c.state # "TRIALING", provisionAPIKey(i, c.card)) \in Seq(Calls)
        /\ transitionSubscription(i, c.card, c.state) \in Seq(Calls)
        /\ verifyStaleKeys(i, c.card, c.state) \in Seq(Calls)
    BY Pieces, Provisions, SubscriptionCalls
  <1> QED
    BY <1>1, Pieces DEF seedCustomer

LEMMA CatalogSubCalls ==
    ASSUME NEW s, s.customer \in Nat, s.card \in Nat
    PROVE  seedCatalogSub(s) \in Seq(Calls)
  <1>1. /\ Only(NeedsWallet(s.mode), provisionWallet(s.customer)) \in Seq(Calls)
        /\ Only(NeedsPaymentMethod(s.mode), provisionPaymentMethod(s.customer)) \in Seq(Calls)
        /\ <<provisionCatalogSubscription(s.customer, s.card)>> \in Seq(Calls)
        /\ Only(s.state # "TRIALING", provisionAPIKey(s.customer, s.card)) \in Seq(Calls)
        /\ transitionSubscription(s.customer, s.card, s.state) \in Seq(Calls)
    BY Pieces, Provisions, SubscriptionCalls DEF provisionCatalogSubscription
  <1> QED
    BY <1>1, Pieces DEF seedCatalogSub

\* Every plan is a non-empty sequence of such calls.
LEMMA PlanCalls ==
    ASSUME NEW a \in Archetypes
    PROVE  /\ Plan[a] \in Seq(Calls) /\ Len(Plan[a]) \in Nat /\ Len(Plan[a]) >= 1
           /\ \A k \in 1..Len(Plan[a]) : Plan[a][k] \in Calls
  <1> DEFINE first == <<provisionDefaultBillingEntity>>
             gateway == Only(NeedsPaymentMethod(a.mode), provisionPaymentGatewayIfNeeded)
  <1>1. a.catalog \in BOOLEAN /\ a.products \in Nat /\ a.cards \in Nat
    BY RosterAssumption
  <1>2. first \in Seq(Calls) /\ Len(first) = 1 /\ gateway \in Seq(Calls)
    BY Pieces, Provisions
  <1>3. FlattenSeq([p \in 1..a.products |-> <<provisionProduct(p), provisionMetrics(p)>>])
          \in Seq(Calls)
    <2>1. \A p \in 1..a.products : <<provisionProduct(p), provisionMetrics(p)>> \in Seq(Calls)
      BY <1>1, Pieces, Provisions
    <2> QED
      BY <1>1, <2>1, Tables
  <1>4. CASE ~a.catalog
    <2> DEFINE tenant == Only(~a.reuse, provisionTenant)
               key == Only(a.ingest, provisionIngestKey)
               people == FlattenSeq([i \in 1..Len(a.customers) |-> seedCustomer(i, a.customers[i])])
    <2>1. tenant \in Seq(Calls) /\ key \in Seq(Calls)
      BY Pieces, Provisions
    <2>2. seedProducts(a) \in Seq(Calls)
      BY <1>3 DEF seedProducts
    <2>3. seedRateCards(a) \in Seq(Calls)
      <3>1. \A c \in 1..a.cards : <<provisionRatePlan(c), provisionOffering(c)>> \in Seq(Calls)
        BY <1>1, Pieces, Provisions
      <3> QED
        BY <1>1, <3>1, Tables DEF seedRateCards
    <2>4. people \in Seq(Calls)
      <3>1. Len(a.customers) \in Nat /\ \A i \in 1..Len(a.customers) : a.customers[i].card \in Nat
        BY <1>4, RosterAssumption
      <3>2. \A i \in 1..Len(a.customers) : seedCustomer(i, a.customers[i]) \in Seq(Calls)
        BY <3>1, CustomerCalls
      <3> QED
        BY <3>1, <3>2, Tables
    <2>5. Plan[a] = tenant \o first \o gateway \o key \o seedProducts(a) \o seedRateCards(a) \o people
      <3>1. Plan[a] = seedOneTenant(a)
        BY <1>4 DEF Plan
      <3> QED
        BY <3>1 DEF seedOneTenant
    <2> HIDE DEF tenant, first, gateway, key, people
    <2>6. tenant \o first \in Seq(Calls) /\ Len(tenant \o first) >= 1
      <3>1. tenant \o first \in Seq(Calls) /\ Len(tenant \o first) = Len(tenant) + Len(first)
        BY <1>2, <2>1, Pieces
      <3>2. Len(tenant) \in Nat
        BY <2>1, LenProperties
      <3> QED
        BY <1>2, <3>1, <3>2
    <2>7. /\ tenant \o first \o gateway \in Seq(Calls)
          /\ Len(tenant \o first \o gateway) >= 1
      BY <1>2, <2>6, Pieces, LenProperties
    <2>8. /\ tenant \o first \o gateway \o key \in Seq(Calls)
          /\ Len(tenant \o first \o gateway \o key) >= 1
      BY <2>1, <2>7, Pieces, LenProperties
    <2>9. /\ tenant \o first \o gateway \o key \o seedProducts(a) \in Seq(Calls)
          /\ Len(tenant \o first \o gateway \o key \o seedProducts(a)) >= 1
      BY <2>2, <2>8, Pieces, LenProperties
    <2>10. /\ tenant \o first \o gateway \o key \o seedProducts(a) \o seedRateCards(a) \in Seq(Calls)
           /\ Len(tenant \o first \o gateway \o key \o seedProducts(a) \o seedRateCards(a)) >= 1
      BY <2>3, <2>9, Pieces, LenProperties
    <2>11. Plan[a] \in Seq(Calls) /\ Len(Plan[a]) >= 1
      BY <2>4, <2>5, <2>10, Pieces, LenProperties
    <2> QED
      BY <2>11, LenProperties
  <1>5. CASE a.catalog
    <2> DEFINE products == FlattenSeq([p \in 1..a.products |->
                             <<provisionCatalogProduct(p), provisionMetrics(p)>>])
               plans == [c \in 1..a.cards |-> provisionCatalogRatePlan(c)]
               offerings == [c \in 1..a.cards |-> provisionCatalogOffering(c)]
               people == [i \in 1..a.people |-> provisionCatalogCustomer(i)]
               subs == FlattenSeq([k \in 1..Len(a.subs) |-> seedCatalogSub(a.subs[k])])
    <2>1. /\ a.people \in Nat /\ Len(a.subs) \in Nat
          /\ \A k \in 1..Len(a.subs) : a.subs[k].customer \in Nat /\ a.subs[k].card \in Nat
      BY <1>5, RosterAssumption
    <2>2. products \in Seq(Calls)
      BY <1>3 DEF provisionCatalogProduct
    <2>3. plans \in Seq(Calls) /\ offerings \in Seq(Calls) /\ people \in Seq(Calls)
      <3>1. /\ \A c \in 1..a.cards : /\ provisionCatalogRatePlan(c) \in Calls
                                     /\ provisionCatalogOffering(c) \in Calls
            /\ \A i \in 1..a.people : provisionCatalogCustomer(i) \in Calls
        BY <1>1, <2>1, Provisions
        DEF provisionCatalogRatePlan, provisionCatalogOffering, provisionCatalogCustomer
      <3>2. plans \in Seq(Calls)
        BY <1>1, <3>1, Listed
      <3>3. offerings \in Seq(Calls)
        BY <1>1, <3>1, Listed
      <3>4. people \in Seq(Calls)
        BY <2>1, <3>1, Listed
      <3> QED
        BY <3>2, <3>3, <3>4
    <2>4. subs \in Seq(Calls)
      <3>1. \A k \in 1..Len(a.subs) : seedCatalogSub(a.subs[k]) \in Seq(Calls)
        BY <2>1, CatalogSubCalls
      <3> QED
        BY <2>1, <3>1, Tables
    <2>5. Plan[a] = first \o gateway \o products \o plans \o offerings \o people \o subs
      BY <1>5 DEF Plan, seedCatalogTenant
    <2> HIDE DEF first, gateway, products, plans, offerings, people, subs
    <2>6. first \o gateway \in Seq(Calls) /\ Len(first \o gateway) >= 1
      BY <1>2, Pieces, LenProperties
    <2>7. /\ first \o gateway \o products \in Seq(Calls)
          /\ Len(first \o gateway \o products) >= 1
      BY <2>2, <2>6, Pieces, LenProperties
    <2>8. /\ first \o gateway \o products \o plans \in Seq(Calls)
          /\ Len(first \o gateway \o products \o plans) >= 1
      BY <2>3, <2>7, Pieces, LenProperties
    <2>9. /\ first \o gateway \o products \o plans \o offerings \in Seq(Calls)
          /\ Len(first \o gateway \o products \o plans \o offerings) >= 1
      BY <2>3, <2>8, Pieces, LenProperties
    <2>10. /\ first \o gateway \o products \o plans \o offerings \o people \in Seq(Calls)
           /\ Len(first \o gateway \o products \o plans \o offerings \o people) >= 1
      BY <2>3, <2>9, Pieces, LenProperties
    <2>11. Plan[a] \in Seq(Calls) /\ Len(Plan[a]) >= 1
      BY <2>4, <2>5, <2>10, Pieces, LenProperties
    <2> QED
      BY <2>11, LenProperties
  <1> QED
    BY <1>1, <1>4, <1>5

-----------------------------------------------------------------------------
(***************************************************************************)
(* What a tenant's goroutine has done follows from where it is: all of its *)
(* plan before its place, and nothing twice (TenantInv).  The errors count *)
(* the tenants that failed (ErrInv).                                       *)
(***************************************************************************)
Phases == {"idle", "get", "post", "reget", "failing", "failed", "done"}
Known(t) == Entities(arch[t]) \cup Found(arch[t])

\* A step of the plan that leaves something on the platform.
Lands(s) == s.post /\ ~s.miss

TenantInv(t) ==
    /\ at[t] \in 1..Len(Plan[arch[t]])
    /\ t \in manifest <=> pc[t] = "done"
    /\ pc[t] = "idle" => at[t] = 1
    /\ pc[t] = "post" => CurrentStep(t).post
    /\ made[t] \in [Known(t) -> 0..1]
    /\ \A k \in 1..Len(Plan[arch[t]]) :
         (k < at[t] \/ pc[t] = "done") /\ Lands(Plan[arch[t]][k]) => Exists(t, Plan[arch[t]][k].ent)

SeedShape ==
    /\ arch \in Rosters /\ saved \in BOOLEAN
    /\ main \in {"seeding", "seeded", "cleaning", "cleaned"}
    /\ pc \in [Tenants -> Phases]
    /\ at \in [Tenants -> Nat]
    /\ tries \in [Tenants \cup {Cleaner} -> 0..MaxRetries]
    /\ manifest \subseteq Tenants
    /\ made = [t \in Tenants |-> made[t]]

Failed == {t \in Tenants : pc[t] = "failed"}

ErrInv ==
    /\ main = "seeding" => ~saved /\ errs = Cardinality(Failed)
    /\ main # "seeding" => /\ errs = Cardinality(Failed) + (IF saved THEN 0 ELSE 1)
                           /\ \A t \in Tenants : pc[t] \in {"done", "failed"}

SeedInv == SeedShape /\ (\A t \in Tenants : TenantInv(t)) /\ ErrInv

\* The plan of a tenant.
LEMMA TenantPlan ==
    ASSUME arch \in Rosters, NEW t \in Tenants
    PROVE  /\ arch[t] \in Archetypes
           /\ Len(Plan[arch[t]]) \in Nat /\ Len(Plan[arch[t]]) >= 1
           /\ \A k \in 1..Len(Plan[arch[t]]) : /\ Plan[arch[t]][k] \in Calls
                                               /\ Plan[arch[t]][k].ent \in Known(t)
  <1>1. arch[t] \in Archetypes
    BY DEF Archetypes, Tenants
  <1> QED
    BY <1>1, PlanCalls DEF Known, Entities

LEMMA SeedInitInv == Init => SeedInv
  <1> SUFFICES ASSUME SeedInit PROVE SeedInv
    BY DEF Init
  <1>1. arch \in Rosters /\ saved = FALSE /\ main = "seeding" /\ errs = 0 /\ manifest = {}
        /\ 0 \in 0..MaxRetries
    BY SeedAssumption DEF SeedInit
  <1>2. SeedShape
    BY <1>1 DEF SeedInit, SeedShape, Phases
  <1>3. ASSUME NEW t \in Tenants PROVE TenantInv(t)
    <2>1. /\ at[t] = 1 /\ pc[t] = "idle" /\ t \notin manifest
          /\ made[t] = [e \in Known(t) |-> IF e \in Found(arch[t]) THEN 1 ELSE 0]
      BY DEF SeedInit, Known
    <2>2. at[t] \in 1..Len(Plan[arch[t]])
      BY <1>1, <2>1, TenantPlan
    <2>3. made[t] \in [Known(t) -> 0..1]
      BY <2>1
    <2> QED
      BY <2>1, <2>2, <2>3 DEF TenantInv
  <1>4. ErrInv
    <2>1. Failed = {}
      BY DEF SeedInit, Failed
    <2> QED
      BY <1>1, <2>1, FS_EmptySet DEF ErrInv
  <1> QED
    BY <1>2, <1>3, <1>4 DEF SeedInv

\* What a request of t leaves on the platform.
Landed(t) ==
    /\ made' = [u \in Tenants |-> made'[u]]
    /\ \A u \in Tenants \ {t} : made'[u] = made[u]
    /\ made'[t] \in [Known(t) -> 0..1]
    /\ \A e \in Known(t) : made[t][e] <= made'[t][e]

\* A goroutine at work, and the frame of its step.
Working(t) == t \in Tenants /\ pc[t] \in {"idle", "get", "post", "reget"}
Aside == UNCHANGED <<arch, main, errs, saved>>

\* The step of a goroutine to phase x at place y.
LEMMA TenantStep ==
    ASSUME SeedInv, NEW t, Working(t), Aside, Landed(t),
           NEW x \in Phases \ {"idle", "failed"}, NEW y \in 1..Len(Plan[arch[t]]),
           pc' = [pc EXCEPT ![t] = x], at' = [at EXCEPT ![t] = y],
           tries' \in [Tenants \cup {Cleaner} -> 0..MaxRetries],
           manifest' = IF x = "done" THEN manifest \cup {t} ELSE manifest,
           x = "post" => Plan[arch[t]][y].post,
           \A k \in 1..Len(Plan[arch[t]]) :
              (k < y \/ x = "done") /\ Lands(Plan[arch[t]][k]) => made'[t][Plan[arch[t]][k].ent] > 0
    PROVE  SeedInv'
  <1>1. /\ SeedShape /\ ErrInv /\ t \in Tenants /\ Tenants' = Tenants /\ arch' = arch
        /\ pc[t] \notin {"done", "failed"} /\ main = "seeding" /\ main' = main
        /\ errs' = errs /\ saved' = saved
    BY DEF SeedInv, Working, Aside, Tenants, ErrInv
  <1>2. /\ pc \in [Tenants -> Phases] /\ at \in [Tenants -> Nat] /\ Len(Plan[arch[t]]) \in Nat
        /\ arch \in Rosters
    BY <1>1, TenantPlan DEF SeedShape
  <1>3. /\ pc'[t] = x /\ \A u \in Tenants \ {t} : pc'[u] = pc[u] /\ at'[u] = at[u]
        /\ at'[t] = y
    BY <1>1, <1>2
  <1>4. SeedShape'
    BY <1>1, <1>2 DEF SeedShape, Landed
  <1>5. ASSUME NEW u \in Tenants PROVE TenantInv(u)'
    <2>1. CASE u = t
      <3>1. t \notin manifest
        BY <1>1 DEF SeedInv, TenantInv
      <3>2. made'[t] \in [Known(t)' -> 0..1]
        BY <1>1 DEF Landed, Known
      <3> QED
        BY <1>1, <1>3, <2>1, <3>1, <3>2 DEF TenantInv, CurrentStep, Exists
    <2>2. CASE u # t
      <3>1. pc'[u] = pc[u] /\ at'[u] = at[u] /\ made'[u] = made[u] /\ (u \in manifest' <=> u \in manifest)
        BY <1>3, <2>2 DEF Landed
      <3>2. TenantInv(u)
        BY DEF SeedInv
      <3> QED
        BY <1>1, <3>1, <3>2 DEF TenantInv, CurrentStep, Exists, Known
    <2> QED
      BY <2>1, <2>2
  <1>6. ErrInv'
    <2>1. Failed' = Failed
      BY <1>1, <1>3 DEF Failed
    <2> QED
      BY <1>1, <2>1 DEF ErrInv
  <1> QED
    BY <1>1, <1>4, <1>5, <1>6 DEF SeedInv

\* A request that changes nothing.
LEMMA NothingLands ==
    ASSUME SeedInv, NEW t \in Tenants, made' = made PROVE Landed(t)
  <1>1. made[t] \in [Known(t) -> 0..1] /\ made = [u \in Tenants |-> made[u]]
    BY DEF SeedInv, TenantInv, SeedShape
  <1> QED
    BY <1>1 DEF Landed

\* A POST of the current step: with an Idempotency-Key, or of a transition
\* that is not repeated, it makes the first copy or none.
LEMMA ApplyLands ==
    ASSUME SeedInv, NEW t \in Tenants, pc[t] = "post", ~Repeats(t, CurrentStep(t)),
           made' = Apply(t, CurrentStep(t))
    PROVE  Landed(t) /\ made'[t][CurrentStep(t).ent] > 0
  <1> DEFINE s == CurrentStep(t)
             e == s.ent
  <1>1. /\ made[t] \in [Known(t) -> 0..1] /\ made = [u \in Tenants |-> made[u]]
        /\ s.post /\ at[t] \in 1..Len(Plan[arch[t]]) /\ arch \in Rosters
    BY DEF SeedInv, TenantInv, SeedShape
  <1>2. s \in Calls /\ e \in Known(t)
    BY <1>1, TenantPlan DEF CurrentStep
  <1>3. s.keyed \/ e[1] \in Transitions
    BY <1>1, <1>2 DEF Calls
  <1>4. ~s.keyed => ~Exists(t, e)
    BY <1>3 DEF Repeats, Transitions
  <1> HIDE DEF s, e
  <1>5. CASE Exists(t, e)
    <2>1. made' = made
      BY <1>4, <1>5 DEF Apply, s, e
    <2> QED
      BY <1>5, <2>1, NothingLands DEF Exists, s, e
  <1>6. CASE ~Exists(t, e)
    <2>1. made[t][e] = 0
      BY <1>1, <1>2, <1>6 DEF Exists
    <2> DEFINE m == [made[t] EXCEPT ![e] = made[t][e] + 1]
    <2>2. made' = [made EXCEPT ![t] = m]
      BY <1>6 DEF Apply, s, e
    <2>3. m \in [Known(t) -> 0..1] /\ m[e] = 1 /\ \A d \in Known(t) : made[t][d] <= m[d]
      BY <1>1, <1>2, <2>1
    <2> HIDE DEF m
    <2>4. made'[t] = m /\ (\A u \in Tenants \ {t} : made'[u] = made[u])
          /\ made' = [u \in Tenants |-> made'[u]]
      BY <1>1, <2>2
    <2>5. Landed(t) /\ made'[t][e] = 1
      BY <2>3, <2>4 DEF Landed
    <2> QED
      BY <2>5 DEF s, e
  <1> QED
    BY <1>5, <1>6

\* What the plan of t has landed stays.
LEMMA StaysLanded ==
    ASSUME SeedInv, NEW t \in Tenants, Landed(t), NEW k \in 1..Len(Plan[arch[t]]), k < at[t],
           Lands(Plan[arch[t]][k])
    PROVE  made'[t][Plan[arch[t]][k].ent] > 0
  <1>1. /\ made[t] \in [Known(t) -> 0..1] /\ arch \in Rosters
        /\ made[t][Plan[arch[t]][k].ent] > 0
    BY DEF SeedInv, SeedShape, TenantInv, Exists
  <1>2. Plan[arch[t]][k].ent \in Known(t)
    BY <1>1, TenantPlan
  <1>3. /\ made'[t] \in [Known(t) -> 0..1]
        /\ made[t][Plan[arch[t]][k].ent] <= made'[t][Plan[arch[t]][k].ent]
    BY <1>2 DEF Landed
  <1> QED
    BY <1>1, <1>2, <1>3

\* The first request of a step is a POST only when the step has one.
LEMMA FirstPost ==
    ASSUME NEW s \in Calls
    PROVE  FirstPhase(s) \in {"get", "post"} /\ (FirstPhase(s) = "post" => s.post)
  BY DEF FirstPhase, Calls

LEMMA NoTries ==
    ASSUME SeedInv, NEW t \in Tenants \cup {Cleaner}
    PROVE  [tries EXCEPT ![t] = 0] \in [Tenants \cup {Cleaner} -> 0..MaxRetries]
  BY SeedAssumption DEF SeedInv, SeedShape

LEMMA AdvanceStep ==
    ASSUME SeedInv, NEW t, Working(t), Aside, Landed(t), Advance(t),
           Lands(CurrentStep(t)) => made'[t][CurrentStep(t).ent] > 0
    PROVE  SeedInv'
  <1> DEFINE n == Len(Plan[arch[t]])
  <1>1. /\ t \in Tenants /\ arch \in Rosters /\ at[t] \in 1..n /\ n \in Nat
        /\ at \in [Tenants -> Nat]
    BY TenantPlan DEF SeedInv, SeedShape, TenantInv, Working
  <1>2. tries' \in [Tenants \cup {Cleaner} -> 0..MaxRetries]
    BY <1>1, NoTries DEF Advance
  <1>3. ASSUME NEW k \in 1..n, k <= at[t], Lands(Plan[arch[t]][k])
        PROVE  made'[t][Plan[arch[t]][k].ent] > 0
    <2>1. CASE k = at[t]
      BY <1>3, <2>1 DEF CurrentStep
    <2>2. CASE k < at[t]
      BY <1>1, <1>3, <2>2, StaysLanded
    <2> QED
      BY <1>1, <1>3, <2>1, <2>2
  <1>4. CASE at[t] = n
    <2>1. pc' = [pc EXCEPT ![t] = "done"] /\ manifest' = manifest \cup {t} /\ at' = at
      BY <1>4 DEF Advance
    <2>2. at' = [at EXCEPT ![t] = at[t]]
      BY <1>1, <2>1
    <2>3. \A k \in 1..n : Lands(Plan[arch[t]][k]) => made'[t][Plan[arch[t]][k].ent] > 0
      BY <1>1, <1>3, <1>4
    <2> QED
      BY <1>1, <1>2, <2>1, <2>2, <2>3, TenantStep DEF Phases
  <1>5. CASE at[t] # n
    <2> DEFINE y == at[t] + 1
               x == FirstPhase(Plan[arch[t]][y])
    <2>1. pc' = [pc EXCEPT ![t] = x] /\ manifest' = manifest /\ at' = [at EXCEPT ![t] = y]
      BY <1>5 DEF Advance
    <2>2. y \in 1..n
      BY <1>1, <1>5
    <2>3. Plan[arch[t]][y] \in Calls
      BY <1>1, <2>2, TenantPlan
    <2>4. x \in {"get", "post"} /\ (x = "post" => Plan[arch[t]][y].post)
      BY <2>3, FirstPost
    <2>5. x \in Phases \ {"idle", "failed"} /\ x # "done"
      BY <2>4 DEF Phases
    <2>6. \A k \in 1..n : k < y /\ Lands(Plan[arch[t]][k]) => made'[t][Plan[arch[t]][k].ent] > 0
      BY <1>1, <1>3
    <2> HIDE DEF x, y
    <2> QED
      BY <1>2, <2>1, <2>2, <2>4, <2>5, <2>6, TenantStep
  <1> QED
    BY <1>4, <1>5

\* A step to another phase of the same place.
LEMMA SamePlace ==
    ASSUME SeedInv, NEW t, Working(t), Aside, Landed(t), NEW x \in {"get", "post", "reget", "failing"},
           pc' = [pc EXCEPT ![t] = x], UNCHANGED <<at, manifest>>,
           tries' \in [Tenants \cup {Cleaner} -> 0..MaxRetries],
           x = "post" => CurrentStep(t).post
    PROVE  SeedInv'
  <1>1. /\ t \in Tenants /\ at[t] \in 1..Len(Plan[arch[t]]) /\ at \in [Tenants -> Nat]
    BY DEF SeedInv, SeedShape, TenantInv, Working
  <1>2. at' = [at EXCEPT ![t] = at[t]]
    BY <1>1
  <1>3. \A k \in 1..Len(Plan[arch[t]]) :
          k < at[t] /\ Lands(Plan[arch[t]][k]) => made'[t][Plan[arch[t]][k].ent] > 0
    BY <1>1, StaysLanded
  <1>4. x \in Phases \ {"idle", "failed"} /\ x # "done"
    BY DEF Phases
  <1> QED
    BY <1>1, <1>2, <1>3, <1>4, TenantStep DEF CurrentStep

LEMMA FailStep ==
    ASSUME SeedInv, NEW t, Working(t), Aside, Landed(t), Fail(t) PROVE SeedInv'
  <1>1. t \in Tenants /\ tries' \in [Tenants \cup {Cleaner} -> 0..MaxRetries]
    BY NoTries DEF Fail, Working
  <1> QED
    BY <1>1, SamePlace DEF Fail

LEMMA GotoStep ==
    ASSUME SeedInv, NEW t, Working(t), Aside, Landed(t), NEW x \in {"post", "reget"}, Goto(t, x),
           x = "post" => CurrentStep(t).post
    PROVE  SeedInv'
  <1>1. t \in Tenants /\ tries' \in [Tenants \cup {Cleaner} -> 0..MaxRetries]
    BY NoTries DEF Goto, Working
  <1> QED
    BY <1>1, SamePlace DEF Goto

LEMMA RetryStep ==
    ASSUME SeedInv, NEW t, Working(t), pc[t] # "idle", Aside, Landed(t), Retry(t) PROVE SeedInv'
  <1>1. CASE Fail(t)
    BY <1>1, FailStep
  <1>2. CASE ~GivesUp(t) /\ tries' = [tries EXCEPT ![t] = tries[t] + 1] /\ UNCHANGED <<pc, at, manifest>>
    <2>1. /\ t \in Tenants /\ pc \in [Tenants -> Phases] /\ pc[t] \in {"get", "post", "reget"}
          /\ tries \in [Tenants \cup {Cleaner} -> 0..MaxRetries] /\ MaxRetries \in Nat
      BY SeedAssumption DEF SeedInv, SeedShape, Working
    <2>2. tries[t] + 1 \in 0..MaxRetries
      BY <1>2, <2>1 DEF GivesUp
    <2>3. tries' \in [Tenants \cup {Cleaner} -> 0..MaxRetries]
      BY <1>2, <2>1, <2>2
    <2>4. pc' = [pc EXCEPT ![t] = pc[t]]
      BY <1>2, <2>1
    <2>5. pc[t] = "post" => CurrentStep(t).post
      BY <2>1 DEF SeedInv, TenantInv
    <2> QED
      BY <1>2, <2>1, <2>3, <2>4, <2>5, SamePlace
  <1> QED
    BY <1>1, <1>2 DEF Retry

\* The error of a tenant is counted when it is sent.
LEMMA SendStep ==
    ASSUME SeedInv, NEW t \in Tenants, SendErr(t) PROVE SeedInv'
  <1>1. /\ SeedShape /\ ErrInv /\ pc[t] = "failing" /\ pc' = [pc EXCEPT ![t] = "failed"]
        /\ errs' = errs + 1 /\ Tenants' = Tenants
        /\ UNCHANGED <<arch, main, at, tries, manifest, saved, made>>
    BY DEF SeedInv, SendErr, Tenants
  <1>2. /\ pc \in [Tenants -> Phases] /\ pc'[t] = "failed" /\ main = "seeding"
        /\ \A u \in Tenants \ {t} : pc'[u] = pc[u]
    BY <1>1 DEF SeedShape, ErrInv
  <1>3. SeedShape'
    BY <1>1, <1>2 DEF SeedShape, Phases
  <1>4. ASSUME NEW u \in Tenants PROVE TenantInv(u)'
    <2>1. TenantInv(u)
      BY DEF SeedInv
    <2>2. CASE u = t
      BY <1>1, <1>2, <2>1, <2>2 DEF TenantInv, CurrentStep, Exists, Known
    <2>3. CASE u # t
      BY <1>1, <1>2, <2>1, <2>3 DEF TenantInv, CurrentStep, Exists, Known
    <2> QED
      BY <2>2, <2>3
  <1>5. ErrInv'
    <2>1. Failed' = Failed \cup {t} /\ t \notin Failed
      BY <1>1, <1>2 DEF Failed
    <2>2. IsFiniteSet(Failed)
      <3>1. IsFiniteSet(Tenants) /\ Failed \subseteq Tenants
        BY <1>1, RosterAssumption DEF Tenants, Failed, SeedShape
      <3> QED
        BY <3>1, FS_Subset
    <2>3. Cardinality(Failed') = Cardinality(Failed) + 1
      BY <2>1, <2>2, FS_AddElement
    <2> QED
      BY <1>1, <1>2, <2>3 DEF ErrInv
  <1> QED
    BY <1>1, <1>3, <1>4, <1>5 DEF SeedInv

\* Steps that leave the tenants alone.
LEMMA Elsewhere ==
    ASSUME SeedInv, UNCHANGED <<arch, pc, at, manifest, made>>, saved' \in BOOLEAN,
           main' \in {"seeding", "seeded", "cleaning", "cleaned"},
           tries' \in [Tenants \cup {Cleaner} -> 0..MaxRetries], ErrInv'
    PROVE  SeedInv'
  <1>1. Tenants' = Tenants
    BY DEF Tenants
  <1>2. SeedShape'
    BY <1>1 DEF SeedInv, SeedShape
  <1>3. ASSUME NEW t \in Tenants PROVE TenantInv(t)'
    BY DEF SeedInv, TenantInv, CurrentStep, Exists, Known
  <1> QED
    BY <1>1, <1>2, <1>3 DEF SeedInv

\* The requests of a goroutine.
LEMMA RequestStep ==
    ASSUME SeedInv, NEW t \in Tenants,
           \/ Spawn(t) \/ CtxOver(t) \/ Get(t) \/ GetFails(t) \/ Post(t)
           \/ PostMissing(t) \/ PostUnanswered(t) \/ PostRefused(t) \/ PostConflict(t)
    PROVE  SeedInv'
  <1> DEFINE s == CurrentStep(t)
  <1>a. /\ arch \in Rosters /\ at[t] \in 1..Len(Plan[arch[t]]) /\ pc \in [Tenants -> Phases]
        /\ pc[t] = "idle" => at[t] = 1
        /\ pc[t] = "post" => s.post
    BY DEF SeedInv, SeedShape, TenantInv
  <1>b. s \in Calls
    BY <1>a, TenantPlan DEF CurrentStep
  <1>c. Working(t) /\ Aside
    BY DEF Spawn, CtxOver, Get, GetFails, Post, PostMissing, PostUnanswered, PostRefused,
           PostConflict, Working, Aside, frame
  <1>d. made' = made => Landed(t)
    BY NothingLands
  <1>1. CASE Spawn(t)
    <2>1. CASE ctxDone
      BY <1>1, <1>c, <1>d, <2>1, FailStep DEF Spawn
    <2>2. CASE ~ctxDone
      <3> DEFINE x == FirstPhase(Plan[arch[t]][1])
      <3>1. /\ pc' = [pc EXCEPT ![t] = x] /\ UNCHANGED <<at, tries, manifest, made>> /\ at[t] = 1
        BY <1>1, <1>a, <2>2 DEF Spawn
      <3>2. x \in {"get", "post"} /\ (x = "post" => s.post)
        BY <1>b, <3>1, FirstPost DEF CurrentStep
      <3>3. tries' \in [Tenants \cup {Cleaner} -> 0..MaxRetries]
        BY <3>1 DEF SeedInv, SeedShape
      <3> HIDE DEF x
      <3> QED
        BY <1>c, <1>d, <3>1, <3>2, <3>3, SamePlace
    <2> QED
      BY <2>1, <2>2
  <1>2. CASE CtxOver(t)
    BY <1>2, <1>c, <1>d, FailStep DEF CtxOver
  <1>3. CASE Get(t)
    <2>1. made' = made /\ Landed(t)
      BY <1>3, <1>d DEF Get
    <2>2. CASE s.pre = "lookup" /\ Exists(t, s.ent) /\ Advance(t)
      BY <1>c, <2>1, <2>2, AdvanceStep DEF Exists
    <2>3. CASE s.pre = "lookup" /\ Goto(t, "post")
      <3>1. s.post
        BY <1>b, <2>3 DEF Calls
      <3> QED
        BY <1>c, <2>1, <2>3, <3>1, GotoStep
    <2>4. CASE Fail(t)
      BY <1>c, <2>1, <2>4, FailStep
    <2>5. CASE s.post /\ Goto(t, "post")
      BY <1>c, <2>1, <2>5, GotoStep
    <2>6. CASE ~s.post /\ Advance(t)
      BY <1>c, <2>1, <2>6, AdvanceStep DEF Lands
    <2> QED
      BY <1>3, <2>2, <2>3, <2>4, <2>5, <2>6 DEF Get
  <1>4. CASE GetFails(t)
    <2>1. Landed(t) /\ pc[t] # "idle" /\ (Retry(t) \/ Fail(t))
      BY <1>4, <1>d DEF GetFails
    <2> QED
      BY <1>c, <2>1, RetryStep, FailStep
  <1>5. CASE Post(t)
    <2>1. CASE ~Repeats(t, s) /\ made' = Apply(t, s) /\ Advance(t)
      <3>1. Landed(t) /\ made'[t][s.ent] > 0
        BY <1>5, <2>1, ApplyLands DEF Post
      <3> QED
        BY <1>c, <2>1, <3>1, AdvanceStep
    <2>2. CASE Repeats(t, s) /\ made' = made /\ Advance(t)
      BY <1>c, <1>d, <2>2, AdvanceStep DEF Repeats, Exists
    <2>3. CASE made' = made /\ Fail(t)
      BY <1>c, <1>d, <2>3, FailStep
    <2> QED
      BY <1>5, <2>1, <2>2, <2>3 DEF Post
  <1>6. CASE PostMissing(t)
    <2>1. Landed(t) /\ Advance(t) /\ s.miss
      BY <1>6, <1>d DEF PostMissing
    <2> QED
      BY <1>c, <2>1, AdvanceStep DEF Lands
  <1>7. CASE PostUnanswered(t)
    <2>1. Landed(t)
      <3>1. CASE made' = made
        BY <1>d, <3>1
      <3>2. CASE made' # made
        BY <1>7, <3>2, ApplyLands DEF PostUnanswered
      <3> QED
        BY <3>1, <3>2
    <2> QED
      BY <1>7, <1>c, <2>1, RetryStep DEF PostUnanswered
  <1>8. CASE PostRefused(t)
    BY <1>8, <1>c, <1>d, FailStep DEF PostRefused
  <1>9. CASE PostConflict(t)
    <2>1. Landed(t) /\ (Goto(t, "reget") \/ Fail(t))
      BY <1>9, <1>d DEF PostConflict
    <2> QED
      BY <1>c, <2>1, GotoStep, FailStep
  <1> QED
    BY <1>1, <1>2, <1>3, <1>4, <1>5, <1>6, <1>7, <1>8, <1>9

\* Clean, whose attempts are counted as the seeder's are.
LEMMA CleanerTries ==
    ASSUME SeedInv, NEW x, ArchiveFails(x) \/ ArchiveOnce(x) \/ ArchiveAgain(x) \/ ArchiveUnanswered(x)
    PROVE  tries' \in [Tenants \cup {Cleaner} -> 0..MaxRetries]
  <1>1. tries \in [Tenants \cup {Cleaner} -> 0..MaxRetries] /\ MaxRetries \in Nat
    BY SeedAssumption DEF SeedInv, SeedShape
  <1>2. CASE tries' = [tries EXCEPT ![Cleaner] = 0]
    BY <1>2, NoTries
  <1>3. CASE ~GivesUp(Cleaner) /\ tries' = [tries EXCEPT ![Cleaner] = tries[Cleaner] + 1]
    <2>1. tries[Cleaner] + 1 \in 0..MaxRetries
      BY <1>1, <1>3 DEF GivesUp
    <2> QED
      BY <1>1, <1>3, <2>1
  <1> QED
    BY <1>2, <1>3 DEF ArchiveFails, ArchiveOnce, ArchiveAgain, ArchiveUnanswered, NextArchive

\* Seeder.Run returns when every goroutine has, with or without a manifest.
LEMMA ReturnStep == SeedInv /\ SeedReturns => SeedInv'
  <1> SUFFICES ASSUME SeedInv, SeedReturns PROVE SeedInv'
    OBVIOUS
  <1>a. /\ main = "seeding" /\ main' = "seeded"
        /\ \A t \in Tenants : pc[t] \in {"done", "failed"}
        /\ (saved' = TRUE /\ errs' = errs) \/ (saved' = saved /\ errs' = errs + 1)
        /\ UNCHANGED <<arch, pc, at, manifest, made, tries>>
    BY DEF SeedReturns
  <1>b. ErrInv /\ ~saved /\ errs = Cardinality(Failed) /\ saved \in BOOLEAN
    BY <1>a DEF SeedInv, ErrInv, SeedShape
  <1>e. (saved' /\ errs' = errs) \/ (~saved' /\ errs' = errs + 1)
    <2>1. CASE saved' = TRUE /\ errs' = errs
      BY <2>1
    <2>2. CASE saved' = saved /\ errs' = errs + 1
      <3>1. ~saved'
        BY <1>b, <2>2
      <3> QED
        BY <2>2, <3>1
    <2> QED
      BY <1>a, <2>1, <2>2
  <1>f. saved' \in BOOLEAN
    BY <1>a, <1>b
  <1>1. /\ main' = "seeded" /\ ~saved /\ errs = Cardinality(Failed)
        /\ \A t \in Tenants : pc[t] \in {"done", "failed"}
        /\ (saved' /\ errs' = errs) \/ (~saved' /\ errs' = errs + 1)
        /\ saved' \in BOOLEAN
        /\ UNCHANGED <<arch, pc, at, manifest, made, tries>>
    BY <1>a, <1>b, <1>e, <1>f, Zenon
  <1>2. IsFiniteSet(Failed) /\ Cardinality(Failed) \in Nat
    <2>1. IsFiniteSet(Tenants) /\ Failed \subseteq Tenants
      BY RosterAssumption DEF Tenants, Failed, SeedShape, SeedInv
    <2> QED
      BY <2>1, FS_Subset, FS_CardinalityType
  <1>3. Failed' = Failed /\ Tenants' = Tenants
    BY <1>1 DEF Failed, Tenants
  <1>4. ErrInv'
    <2>1. CASE saved' /\ errs' = errs
      BY <1>1, <1>2, <1>3, <2>1 DEF ErrInv
    <2>2. CASE ~saved' /\ errs' = errs + 1
      BY <1>1, <1>2, <1>3, <2>2 DEF ErrInv
    <2> QED
      BY <1>1, <2>1, <2>2
  <1>5. saved' \in BOOLEAN /\ tries' \in [Tenants \cup {Cleaner} -> 0..MaxRetries]
    BY <1>1 DEF SeedInv, SeedShape
  <1> QED
    BY <1>1, <1>4, <1>5, Elsewhere

LEMMA SeedStepInv == SeedInv /\ [Next]_vars => SeedInv'
  <1> SUFFICES ASSUME SeedInv, [Next]_vars PROVE SeedInv'
    OBVIOUS
  <1>a. SeedShape /\ ErrInv
    BY DEF SeedInv
  <1>b. ASSUME UNCHANGED <<arch, pc, at, manifest, made, saved, errs>>,
               main' = main \/ (main # "seeding" /\ main' \in {"cleaning", "cleaned"}),
               tries' \in [Tenants \cup {Cleaner} -> 0..MaxRetries]
        PROVE  SeedInv'
    <2>1. Failed' = Failed /\ Tenants' = Tenants
      BY <1>b DEF Failed, Tenants
    <2>2. ErrInv'
      BY <1>a, <1>b, <2>1 DEF ErrInv
    <2>3. saved' \in BOOLEAN /\ main' \in {"seeding", "seeded", "cleaning", "cleaned"}
      BY <1>a, <1>b DEF SeedShape
    <2> QED
      BY <1>b, <2>2, <2>3, Elsewhere
  <1>c. tries \in [Tenants \cup {Cleaner} -> 0..MaxRetries]
    BY <1>a DEF SeedShape
  <1>1. CASE SeedStage
    BY <1>1, RequestStep, SendStep, ReturnStep DEF SeedStage, SeedNext
  <1>2. CASE UNCHANGED seedVars
    <2>1. UNCHANGED <<arch, pc, at, manifest, made, saved, errs>>
      BY <1>2 DEF seedVars
    <2>2. main' = main \/ (main # "seeding" /\ main' \in {"cleaning", "cleaned"})
      BY <1>2 DEF seedVars
    <2>3. tries' = tries
      BY <1>2 DEF seedVars
    <2>4. tries' \in [Tenants \cup {Cleaner} -> 0..MaxRetries]
      BY <1>c, <2>3
    <2> QED
      BY <1>b, <2>1, <2>2, <2>4
  <1>3. CASE \E over : saved /\ CleanStart(over)
    <2>1. main # "seeding"
      BY <1>3, <1>a DEF ErrInv
    <2> QED
      BY <1>3, <1>b, <1>c, <2>1 DEF CleanStart
  <1>4. CASE Archive
    <2>1. tries' \in [Tenants \cup {Cleaner} -> 0..MaxRetries]
      BY <1>4, CleanerTries DEF Archive
    <2> QED
      BY <1>4, <1>b, <2>1 DEF Archive, CleanFrame
  <1>5. CASE CleanReturns
    BY <1>5, <1>b, <1>c DEF CleanReturns, CleanFrame
  <1>6. CASE Signal \/ \E t \in Tenants : LifecycleCancels(t)
    <2>1. UNCHANGED <<arch, pc, at, manifest, made, saved, errs>>
      BY <1>6 DEF Signal, LifecycleCancels
    <2>2. main' = main \/ (main # "seeding" /\ main' \in {"cleaning", "cleaned"})
      BY <1>6 DEF Signal, LifecycleCancels
    <2>3. tries' = tries
      BY <1>6 DEF Signal, LifecycleCancels
    <2>4. tries' \in [Tenants \cup {Cleaner} -> 0..MaxRetries]
      BY <1>c, <2>3
    <2> QED
      BY <1>b, <2>1, <2>2, <2>4
  <1>7. CASE runCleanStage
    <2>1. CASE opt.keep \/ ~saved
      BY <1>7, <1>2, <2>1 DEF runCleanStage
    <2>2. CASE ~(opt.keep \/ ~saved)
      BY <1>7, <1>3, <2>2 DEF runCleanStage
    <2> QED
      BY <2>1, <2>2
  <1>8. CASE CleanStep
    BY <1>8, <1>4, <1>5 DEF CleanStep
  <1>9. CASE runCleanFlow
    BY <1>9, <1>3 DEF runCleanFlow
  <1>10. CASE \/ DoctorStage \/ SeedRejected \/ SeedEnds \/ RunEnds \/ LifecycleEnds
              \/ LifecycleFails \/ Join \/ ValidateStage \/ ReportStage \/ CleanEnds \/ Return
              \/ runSeed \/ runSeedOver
    BY <1>10, <1>2
    DEF DoctorStage, SeedRejected, SeedEnds, RunEnds, LifecycleEnds, LifecycleFails, Join,
        ValidateStage, ReportStage, CleanEnds, Return, runSeed, runSeedOver
  <1>11. CASE UNCHANGED vars
    BY <1>11, <1>2 DEF vars
  <1> QED
    BY <1>1, <1>6, <1>7, <1>8, <1>9, <1>10, <1>11 DEF Next, Progress, Done, Hangs

\* The seeder, for any roster, concurrency, retries and faults: no lost answer,
\* retry or conflict makes a second copy of anything, a tenant of the manifest
\* is complete, and when Run returns each of the others has its error.
THEOREM Seeding == Spec => []SeedingSound
  <1>1. OrchInv /\ SeedInv => SeedingSound
    <2> SUFFICES ASSUME OrchInv, SeedInv PROVE SeedingSound
      OBVIOUS
    <2>1. SeedShape /\ ErrInv /\ (\A t \in Tenants : TenantInv(t)) /\ OrchTypes
      BY DEF SeedInv, OrchInv
    <2>2. /\ IsFiniteSet(Tenants) /\ IsFiniteSet(Failed) /\ Cardinality(Failed) \in Nat
          /\ Cardinality(Failed) <= Cardinality(Tenants) /\ Cardinality(Tenants) \in Nat
      <3>1. IsFiniteSet(Tenants) /\ Failed \subseteq Tenants
        BY <2>1, RosterAssumption DEF Tenants, Failed, SeedShape
      <3> QED
        BY <3>1, FS_Subset, FS_CardinalityType
    <2>3. TypeOK
      <3>1. errs \in 0..(Cardinality(Tenants) + 1)
        <4>1. errs = Cardinality(Failed) \/ errs = Cardinality(Failed) + 1
          BY <2>1, <2>2 DEF ErrInv
        <4> QED
          BY <2>2, <4>1
      <3>2. \A t \in Tenants : at[t] \in 1..Len(Plan[arch[t]])
        BY <2>1 DEF TenantInv
      <3> QED
        BY <2>1, <3>1, <3>2 DEF TypeOK, SeedShape, Phases, OrchTypes, Statuses
    <2>4. NothingTwice
      BY <2>1 DEF NothingTwice, TenantInv
    <2>5. EveryTenantAccounted
      <3>1. \A t \in manifest : \A k \in 1..Len(Plan[arch[t]]) :
               Plan[arch[t]][k].post /\ ~Plan[arch[t]][k].miss => Exists(t, Plan[arch[t]][k].ent)
        BY <2>1 DEF SeedShape, TenantInv, Lands
      <3>2. main # "seeding" => Tenants \ manifest = Failed
        BY <2>1 DEF SeedShape, TenantInv, ErrInv, Failed
      <3>3. main # "seeding" =>
               errs = Cardinality(Tenants \ manifest) + (IF saved THEN 0 ELSE 1)
        BY <2>1, <3>2 DEF ErrInv
      <3> QED
        BY <3>1, <3>3 DEF EveryTenantAccounted
    <2> QED
      BY <2>3, <2>4, <2>5 DEF SeedingSound
  <1> QED
    BY <1>1, OrchInit, OrchStep, SeedInitInv, SeedStepInv, PTL DEF Spec
-----------------------------------------------------------------------------
(***************************************************************************)
(* Clean.  What it has to archive is a flattened table too; the order in   *)
(* it is the point, so the pieces are followed to their places.            *)
(***************************************************************************)
\* Piece i of the first n of ss is in F after o[i] others, and F has no more.
Spread(F, ss, n, o) ==
    /\ \A i \in 1..n : \A j \in 1..Len(ss[i]) : o[i] + j \in 1..Len(F) /\ F[o[i] + j] = ss[i][j]
    /\ \A k \in 1..Len(F) : \E i \in 1..n : \E j \in 1..Len(ss[i]) : k = o[i] + j

\* One more piece at the end.
LEMMA SpreadOn ==
    ASSUME NEW T, NEW ss, NEW n \in Nat, NEW F \in Seq(T), NEW o \in [1..n -> Nat],
           \A i \in 1..(n + 1) : ss[i] \in Seq(T), Spread(F, ss, n, o)
    PROVE  \E p \in [1..(n + 1) -> Nat] : Spread(F \o ss[n + 1], ss, n + 1, p)
  <1> DEFINE m == n + 1
             G == F \o ss[m]
             p == [i \in 1..m |-> IF i = m THEN Len(F) ELSE o[i]]
  <1>1. m \in 1..m /\ m \in Nat /\ ss[m] \in Seq(T) /\ Len(F) \in Nat /\ Len(ss[m]) \in Nat
    OBVIOUS
  <1>2. /\ Len(G) = Len(F) + Len(ss[m])
        /\ \A i \in 1..Len(G) : G[i] = IF i <= Len(F) THEN F[i] ELSE ss[m][i - Len(F)]
    BY <1>1, ConcatProperties
  <1> HIDE DEF G
  <1>3. p \in [1..m -> Nat] /\ p[m] = Len(F) /\ \A i \in 1..n : p[i] = o[i] /\ i \in 1..m
    BY <1>1
  <1> HIDE DEF p
  <1>4. ASSUME NEW i \in 1..m, NEW j \in 1..Len(ss[i])
        PROVE  p[i] + j \in 1..Len(G) /\ G[p[i] + j] = ss[i][j]
    <2>1. CASE i = m
      <3>1. j \in 1..Len(ss[m]) /\ p[i] = Len(F)
        BY <1>3, <2>1
      <3>2. /\ Len(F) + j \in 1..Len(G) /\ ~(Len(F) + j <= Len(F))
            /\ Len(F) + j - Len(F) = j
        BY <1>1, <1>2, <3>1
      <3> QED
        BY <1>2, <2>1, <3>1, <3>2
    <2>2. CASE i # m
      <3>1. i \in 1..n /\ p[i] = o[i]
        BY <1>3, <2>2
      <3>2. o[i] + j \in 1..Len(F) /\ F[o[i] + j] = ss[i][j]
        BY <3>1 DEF Spread
      <3>3. o[i] + j \in 1..Len(G) /\ o[i] + j <= Len(F)
        BY <1>1, <1>2, <3>2
      <3>4. G[o[i] + j] = F[o[i] + j]
        BY <1>2, <3>3
      <3> QED
        BY <3>1, <3>2, <3>3, <3>4
    <2> QED
      BY <2>1, <2>2
  <1>5. ASSUME NEW k \in 1..Len(G)
        PROVE  \E i \in 1..m : \E j \in 1..Len(ss[i]) : k = p[i] + j
    <2>1. CASE k <= Len(F)
      <3>1. PICK i \in 1..n : \E j \in 1..Len(ss[i]) : k = o[i] + j
        BY <1>1, <2>1 DEF Spread
      <3> QED
        BY <1>3, <3>1
    <2>2. CASE ~(k <= Len(F))
      <3>1. k - Len(F) \in 1..Len(ss[m]) /\ k = p[m] + (k - Len(F))
        BY <1>1, <1>2, <1>3, <2>2
      <3> QED
        BY <1>1, <3>1
    <2> QED
      BY <2>1, <2>2
  <1>6. Spread(G, ss, m, p)
    BY <1>4, <1>5 DEF Spread
  <1> QED
    BY <1>3, <1>6 DEF G

\* Flattening puts every piece somewhere, whole, and adds nothing.
LEMMA FlattenSpread ==
    ASSUME NEW T, NEW n \in Nat, NEW ss, ss = [i \in 1..n |-> ss[i]],
           \A i \in 1..n : ss[i] \in Seq(T)
    PROVE  /\ FlattenSeq(ss) \in Seq(T)
           /\ \E o \in [1..n -> Nat] : Spread(FlattenSeq(ss), ss, n, o)
  <1> DEFINE F(g) == [i \in 1..Len(ss) |-> IF i = 1 THEN ss[i] ELSE g[i-1] \o ss[i]]
             c == CHOOSE k : k = F(k)
  <1>0. Len(ss) = n /\ ss \in Seq(Seq(T)) /\ (n = 0 => ss = <<>>)
    BY Listed
  <1>t. FlattenSeq(ss) \in Seq(T)
    BY <1>0, FlattenType
  <1>1. CASE n = 0
    <2>1. FlattenSeq(ss) = <<>> /\ Len(<<>>) = 0
      BY <1>0, <1>1 DEF FlattenSeq
    <2>2. Spread(<<>>, ss, 0, [i \in 1..0 |-> 0])
      BY DEF Spread
    <2>3. [i \in 1..0 |-> 0] \in [1..0 -> Nat]
      OBVIOUS
    <2> QED
      BY <1>t, <1>1, <2>1, <2>2, <2>3
  <1>2. CASE n # 0
    <2>1. FlattenSeq(ss) = c[n]
      BY <1>0, <1>2 DEF FlattenSeq
    <2>2. PICK g \in [1..n -> Seq(T)] : Flattens(g, ss, n)
      BY FlattenSteps
    <2>3. g = F(g)
      BY <1>0, <2>2 DEF Flattens
    <2>4. c = F(c)
      BY <2>3
    <2> HIDE DEF c
    <2> DEFINE Good(m) == c[m] \in Seq(T) /\ \E o \in [1..m -> Nat] : Spread(c[m], ss, m, o)
               S == {m \in Nat : m + 1 <= n => Good(m + 1)}
    <2>5. 0 \in S
      <3>1. 1 \in 1..n /\ ss[1] \in Seq(T)
        BY <1>2
      <3>2. c[1] = ss[1]
        BY <1>0, <2>4, <3>1
      <3>3. [i \in 1..1 |-> 0] \in [1..1 -> Nat]
        OBVIOUS
      <3>4. Spread(ss[1], ss, 1, [i \in 1..1 |-> 0])
        BY <3>1 DEF Spread
      <3>5. Good(1)
        BY <3>1, <3>2, <3>3, <3>4
      <3> HIDE DEF Good
      <3>6. 0 + 1 = 1
        OBVIOUS
      <3> QED
        BY <3>5, <3>6
    <2>6. ASSUME NEW m \in Nat, m \in S PROVE m + 1 \in S
      <3>1. CASE m + 1 + 1 <= n
        <4>0. PICK q \in 1..n : q = m + 1 + 1
          BY <3>1
        <4>1. q # 1 /\ q - 1 = m + 1 /\ m + 1 <= n /\ m + 1 \in Nat
          BY <3>1, <4>0
        <4>2. c[q] = c[m + 1] \o ss[q]
          BY <1>0, <2>4, <4>1
        <4>3. Good(m + 1)
          BY <2>6, <4>1
        <4>4. PICK o \in [1..(m + 1) -> Nat] : Spread(c[m + 1], ss, m + 1, o)
          BY <4>3
        <4>5. \A i \in 1..(m + 1 + 1) : ss[i] \in Seq(T)
          BY <3>1
        <4>6. \E p \in [1..(m + 1 + 1) -> Nat] : Spread(c[m + 1] \o ss[m + 1 + 1], ss, m + 1 + 1, p)
          BY <4>1, <4>3, <4>4, <4>5, SpreadOn
        <4>7. c[m + 1] \o ss[q] \in Seq(T)
          BY <4>3, ConcatProperties
        <4>8. Good(m + 1 + 1)
          BY <4>0, <4>2, <4>6, <4>7
        <4> HIDE DEF Good
        <4> QED
          BY <4>8
      <3>2. CASE ~(m + 1 + 1 <= n)
        BY <3>2
      <3> QED
        BY <3>1, <3>2
    <2> HIDE DEF S, Good
    <2>7. Nat \subseteq S
      BY <2>5, <2>6, SetInduction
    <2>8. n - 1 \in Nat /\ n - 1 + 1 = n /\ n - 1 \in S
      BY <1>2, <2>7
    <2>9. Good(n)
      BY <2>8 DEF S
    <2> QED
      BY <2>1, <2>9 DEF Good
  <1> QED
    BY <1>1, <1>2

\* A customer's subscriptions: its own, and each once when the catalog lists
\* none twice.
LEMMA SubsOf ==
    ASSUME NEW a \in Archetypes, NEW i \in 1..People(a)
    PROVE  LET S == Subscriptions(a, i)
           IN  /\ Len(S) \in Nat /\ DOMAIN S = 1..Len(S)
               /\ \A x \in 1..Len(S) : S[x].customer = i /\ S[x].card \in Nat
               /\ NamedOnce(a) => \A x, y \in 1..Len(S) :
                     SubscriptionOf(S[x]) = SubscriptionOf(S[y]) => x = y
  <1> DEFINE S == Subscriptions(a, i)
  <1>1. CASE ~a.catalog
    <2> DEFINE r == [customer |-> i, card |-> a.customers[i].card, mode |-> a.customers[i].mode,
                     state |-> a.customers[i].state]
    <2>1. S = <<r>>
      BY <1>1 DEF Subscriptions
    <2>2. i \in 1..Len(a.customers) /\ a.customers[i].card \in Nat
      BY <1>1, RosterAssumption DEF People
    <2>3. r.customer = i /\ r.card \in Nat
      BY <2>2
    <2> HIDE DEF r, S
    <2>4. Len(S) = 1 /\ DOMAIN S = 1..1 /\ S[1] = r
      BY <2>1
    <2>5. \A x \in 1..1 : x = 1
      OBVIOUS
    <2> QED
      BY <2>3, <2>4, <2>5 DEF S
  <1>2. CASE a.catalog
    <2> DEFINE T == {a.subs[k] : k \in 1..Len(a.subs)}
               N == Len(a.subs)
               ss == [k \in 1..N |-> Only(a.subs[k].customer = i, a.subs[k])]
    <2>1. S = FlattenSeq(ss)
      BY <1>2 DEF Subscriptions
    <2>2. N \in Nat /\ \A k \in 1..N : a.subs[k].card \in Nat
      BY <1>2, RosterAssumption
    <2>3. ASSUME NEW k \in 1..N
          PROVE  /\ ss[k] \in Seq(T) /\ Len(ss[k]) \in Nat
                 /\ \A j \in 1..Len(ss[k]) : j = 1 /\ ss[k][j] = a.subs[k] /\ a.subs[k].customer = i
      <3>1. a.subs[k] \in T
        OBVIOUS
      <3> HIDE DEF T
      <3>2. CASE a.subs[k].customer = i
        <4>1. ss[k] = <<a.subs[k]>>
          BY <3>2 DEF Only
        <4> HIDE DEF ss
        <4>2. Len(ss[k]) = 1 /\ ss[k][1] = a.subs[k] /\ ss[k] \in Seq(T)
          BY <3>1, <4>1
        <4> QED
          BY <3>2, <4>2
      <3>3. CASE a.subs[k].customer # i
        <4>1. ss[k] = <<>>
          BY <3>3 DEF Only
        <4> HIDE DEF ss
        <4> QED
          BY <4>1
      <3> QED
        BY <3>2, <3>3
    <2>4. ss = [k \in 1..N |-> ss[k]]
      OBVIOUS
    <2> HIDE DEF ss, T, N, S
    <2>5. S \in Seq(T) /\ \E o \in [1..N -> Nat] : Spread(S, ss, N, o)
      BY <2>1, <2>2, <2>3, <2>4, FlattenSpread
    <2>6. PICK o \in [1..N -> Nat] : Spread(S, ss, N, o)
      BY <2>5
    <2>7. Len(S) \in Nat /\ DOMAIN S = 1..Len(S)
      BY <2>5
    <2>8. \A x \in 1..Len(S) : \E k \in 1..N : x = o[k] + 1 /\ S[x] = a.subs[k] /\ a.subs[k].customer = i
      <3> SUFFICES ASSUME NEW x \in 1..Len(S)
                   PROVE  \E k \in 1..N : x = o[k] + 1 /\ S[x] = a.subs[k] /\ a.subs[k].customer = i
        OBVIOUS
      <3>1. PICK k \in 1..N : \E j \in 1..Len(ss[k]) : x = o[k] + j
        BY <2>6 DEF Spread
      <3>2. PICK j \in 1..Len(ss[k]) : x = o[k] + j
        BY <3>1
      <3>3. S[o[k] + j] = ss[k][j]
        BY <2>6 DEF Spread
      <3> QED
        BY <2>3, <3>2, <3>3
    <2>9. \A x \in 1..Len(S) : S[x].customer = i /\ S[x].card \in Nat
      BY <2>2, <2>8
    <2>10. ASSUME NamedOnce(a), NEW x \in 1..Len(S), NEW y \in 1..Len(S),
                  SubscriptionOf(S[x]) = SubscriptionOf(S[y])
           PROVE  x = y
      <3>1. PICK k \in 1..N : x = o[k] + 1 /\ S[x] = a.subs[k]
        BY <2>8
      <3>2. PICK m \in 1..N : y = o[m] + 1 /\ S[y] = a.subs[m]
        BY <2>8
      <3>3. k = m
        BY <1>2, <2>10, <3>1, <3>2 DEF NamedOnce, N
      <3> QED
        BY <3>1, <3>2, <3>3
    <2> QED
      BY <2>7, <2>9, <2>10 DEF S
  <1>3. a.catalog \in BOOLEAN
    BY RosterAssumption
  <1> QED
    BY <1>1, <1>2

\* What Clean cancels of customer i.
Cancels(a, i) ==
    LET subs == Subscriptions(a, i)
    IN  FlattenSeq([k \in 1..Len(subs) |-> Only(~Over(subs[k]), SubscriptionOf(subs[k]))])

SubsEnts(i) == {<<"subscription", i, c>> : c \in Nat}

LEMMA CancelsOf ==
    ASSUME NEW a \in Archetypes, NEW i \in 1..People(a)
    PROVE  /\ Cancels(a, i) \in Seq(SubsEnts(i))
           /\ NamedOnce(a) => \A x, y \in 1..Len(Cancels(a, i)) :
                 Cancels(a, i)[x] = Cancels(a, i)[y] => x = y
           /\ \A k \in 1..Len(Subscriptions(a, i)) : ~Over(Subscriptions(a, i)[k]) =>
                 \E x \in 1..Len(Cancels(a, i)) :
                    Cancels(a, i)[x] = SubscriptionOf(Subscriptions(a, i)[k])
  <1> DEFINE S == Subscriptions(a, i)
             N == Len(S)
             T == SubsEnts(i)
             C == Cancels(a, i)
             ss == [k \in 1..N |-> Only(~Over(S[k]), SubscriptionOf(S[k]))]
  <1>1. /\ N \in Nat
        /\ \A x \in 1..N : S[x].customer = i /\ S[x].card \in Nat
        /\ NamedOnce(a) => \A x, y \in 1..N : SubscriptionOf(S[x]) = SubscriptionOf(S[y]) => x = y
    BY SubsOf
  <1>2. C = FlattenSeq(ss)
    BY DEF Cancels
  <1> HIDE DEF C, S
  <1>3. \A k \in 1..N : SubscriptionOf(S[k]) \in T
    BY <1>1 DEF SubscriptionOf, SubsEnts
  <1>4. ASSUME NEW k \in 1..N
        PROVE  /\ ss[k] \in Seq(T) /\ Len(ss[k]) \in Nat
               /\ \A j \in 1..Len(ss[k]) : j = 1 /\ ss[k][j] = SubscriptionOf(S[k])
               /\ ~Over(S[k]) => 1 \in 1..Len(ss[k])
    <2> HIDE DEF T
    <2>1. CASE ~Over(S[k])
      <3>1. ss[k] = <<SubscriptionOf(S[k])>>
        BY <2>1 DEF Only
      <3> HIDE DEF ss
      <3>2. Len(ss[k]) = 1 /\ ss[k][1] = SubscriptionOf(S[k]) /\ ss[k] \in Seq(T)
        BY <1>3, <3>1
      <3> QED
        BY <3>2
    <2>2. CASE Over(S[k])
      <3>1. ss[k] = <<>>
        BY <2>2 DEF Only
      <3> HIDE DEF ss
      <3> QED
        BY <2>2, <3>1
    <2> QED
      BY <2>1, <2>2
  <1>5. ss = [k \in 1..N |-> ss[k]]
    OBVIOUS
  <1> HIDE DEF ss, N, T
  <1>6. C \in Seq(T) /\ \E o \in [1..N -> Nat] : Spread(C, ss, N, o)
    BY <1>1, <1>2, <1>4, <1>5, FlattenSpread
  <1>7. PICK o \in [1..N -> Nat] : Spread(C, ss, N, o)
    BY <1>6
  <1>8. \A x \in 1..Len(C) : \E k \in 1..N : x = o[k] + 1 /\ C[x] = SubscriptionOf(S[k])
    <2> SUFFICES ASSUME NEW x \in 1..Len(C)
                 PROVE  \E k \in 1..N : x = o[k] + 1 /\ C[x] = SubscriptionOf(S[k])
      OBVIOUS
    <2>1. PICK k \in 1..N : \E j \in 1..Len(ss[k]) : x = o[k] + j
      BY <1>7 DEF Spread
    <2>2. PICK j \in 1..Len(ss[k]) : x = o[k] + j
      BY <2>1
    <2>3. C[o[k] + j] = ss[k][j]
      BY <1>7 DEF Spread
    <2> QED
      BY <1>4, <2>2, <2>3
  <1>9. ASSUME NamedOnce(a), NEW x \in 1..Len(C), NEW y \in 1..Len(C), C[x] = C[y]
        PROVE  x = y
    <2>1. PICK k \in 1..N : x = o[k] + 1 /\ C[x] = SubscriptionOf(S[k])
      BY <1>8
    <2>2. PICK m \in 1..N : y = o[m] + 1 /\ C[y] = SubscriptionOf(S[m])
      BY <1>8
    <2>3. k = m
      BY <1>1, <1>9, <2>1, <2>2
    <2> QED
      BY <2>1, <2>2, <2>3
  <1>10. ASSUME NEW k \in 1..N, ~Over(S[k])
         PROVE  \E x \in 1..Len(C) : C[x] = SubscriptionOf(S[k])
    <2>1. 1 \in 1..Len(ss[k]) /\ ss[k][1] = SubscriptionOf(S[k])
      BY <1>4, <1>10
    <2>2. o[k] + 1 \in 1..Len(C) /\ C[o[k] + 1] = ss[k][1]
      BY <1>7, <2>1 DEF Spread
    <2> QED
      BY <2>1, <2>2
  <1> QED
    BY <1>6, <1>9, <1>10 DEF C, T, S, N

\* What Clean cancels of a tenant: all its live subscriptions, and each once.
LEMMA CancelList ==
    ASSUME NEW a \in Archetypes
    PROVE  LET A == archiveSubscription(a)
           IN  /\ A \in Seq(Ents)
               /\ \A x \in 1..Len(A) : A[x][1] = "subscription"
               /\ NamedOnce(a) => \A x, y \in 1..Len(A) : A[x] = A[y] => x = y
               /\ \A e \in Live(a) : \E x \in 1..Len(A) : A[x] = e
  <1> DEFINE N == People(a)
             ss == [i \in 1..N |-> Cancels(a, i)]
             A == archiveSubscription(a)
             T == UNION {SubsEnts(i) : i \in 1..N}
  <1>1. N \in Nat
    BY RosterAssumption DEF People
  <1>2. A = FlattenSeq(ss)
    BY DEF archiveSubscription, Cancels
  <1>3. \A i \in 1..N : SubsEnts(i) \subseteq T /\ SubsEnts(i) \subseteq Ents
    BY <1>1, EntForms DEF SubsEnts, Kinds
  <1>4. \A i \in 1..N : ss[i] \in Seq(SubsEnts(i)) /\ ss[i] = Cancels(a, i)
    BY CancelsOf
  <1>5. ss = [i \in 1..N |-> ss[i]]
    OBVIOUS
  <1> HIDE DEF A, ss, T, N
  <1>6. \A i \in 1..N : ss[i] \in Seq(Ents)
    BY <1>3, <1>4
  <1>7. A \in Seq(Ents) /\ \E o \in [1..N -> Nat] : Spread(A, ss, N, o)
    BY <1>1, <1>2, <1>5, <1>6, FlattenSpread
  <1>8. PICK o \in [1..N -> Nat] : Spread(A, ss, N, o)
    BY <1>7
  <1>9. ASSUME NEW x \in 1..Len(A)
        PROVE  \E i \in 1..N : \E j \in 1..Len(ss[i]) : /\ x = o[i] + j /\ A[x] = ss[i][j]
                                                       /\ ss[i][j] \in SubsEnts(i)
    <2>1. PICK i \in 1..N : \E j \in 1..Len(ss[i]) : x = o[i] + j
      BY <1>8 DEF Spread
    <2>2. PICK j \in 1..Len(ss[i]) : x = o[i] + j
      BY <2>1
    <2>3. A[o[i] + j] = ss[i][j]
      BY <1>8 DEF Spread
    <2>4. ss[i][j] \in SubsEnts(i)
      BY <1>4
    <2> QED
      BY <2>2, <2>3, <2>4
  <1>10. \A i : \A e \in SubsEnts(i) : e[1] = "subscription" /\ e[2] = i
    BY DEF SubsEnts
  <1>11. \A x \in 1..Len(A) : A[x][1] = "subscription"
    BY <1>9, <1>10
  <1>12. ASSUME NamedOnce(a), NEW x \in 1..Len(A), NEW y \in 1..Len(A), A[x] = A[y]
         PROVE  x = y
    <2>1. PICK i \in 1..N : \E j \in 1..Len(ss[i]) : /\ x = o[i] + j /\ A[x] = ss[i][j]
                                                    /\ ss[i][j] \in SubsEnts(i)
      BY <1>9
    <2>2. PICK k \in 1..N : \E j \in 1..Len(ss[k]) : /\ y = o[k] + j /\ A[y] = ss[k][j]
                                                    /\ ss[k][j] \in SubsEnts(k)
      BY <1>9
    <2>3. i = k
      <3>1. A[x] \in SubsEnts(i) /\ A[x] \in SubsEnts(k)
        BY <1>12, <2>1, <2>2
      <3> QED
        BY <1>10, <3>1
    <2>4. PICK j \in 1..Len(ss[i]) : x = o[i] + j /\ A[x] = ss[i][j]
      BY <2>1
    <2>5. PICK m \in 1..Len(ss[i]) : y = o[i] + m /\ A[y] = ss[i][m]
      BY <2>2, <2>3
    <2>6. \A u, v \in 1..Len(ss[i]) : ss[i][u] = ss[i][v] => u = v
      BY <1>4, <1>12, CancelsOf DEF N
    <2>7. j = m
      BY <1>12, <2>4, <2>5, <2>6
    <2>8. x = o[i] + m
      BY <2>4, <2>7
    <2> QED
      BY <2>5, <2>8
  <1>13. ASSUME NEW e \in Live(a)
         PROVE  \E x \in 1..Len(A) : A[x] = e
    <2>1. PICK i \in 1..N : \E s \in Range(Subscriptions(a, i)) : ~Over(s) /\ e = SubscriptionOf(s)
      BY DEF Live, N
    <2>2. /\ DOMAIN Subscriptions(a, i) = 1..Len(Subscriptions(a, i))
      BY SubsOf DEF N
    <2>3. PICK k \in 1..Len(Subscriptions(a, i)) : /\ ~Over(Subscriptions(a, i)[k])
                                                  /\ e = SubscriptionOf(Subscriptions(a, i)[k])
      BY <2>1, <2>2 DEF Range
    <2>4. PICK j \in 1..Len(ss[i]) : ss[i][j] = e
      BY <1>4, <2>3, CancelsOf DEF N
    <2>5. o[i] + j \in 1..Len(A) /\ A[o[i] + j] = ss[i][j]
      BY <1>8 DEF Spread
    <2> QED
      BY <2>4, <2>5
  <1> QED
    BY <1>7, <1>11, <1>12, <1>13 DEF A

\* A second cancel or revoke may fail: what they are of.
Touched == {"subscription", "ingest-key"}
Single(s) == \A x, y \in 1..Len(s) : s[x] = s[y] /\ s[x][1] \in Touched => x = y

\* The live subscriptions of a are in s, before its offerings.
Led(a, s) ==
    /\ \A e \in Live(a) : \E x \in 1..Len(s) : s[x] = e
    /\ \A x \in 1..Len(s) : s[x][1] = "offering" =>
          \A e \in Live(a) : \E y \in 1..(x - 1) : s[y] = e

\* More at the end, of other kinds or of kinds that may come again.
LEMMA LedOn ==
    ASSUME NEW a, NEW s \in Seq(Ents), NEW b \in Seq(Ents), Led(a, s)
    PROVE  /\ s \o b \in Seq(Ents) /\ Led(a, s \o b)
           /\ Single(s) /\ Single(b)
              /\ (\A y \in 1..Len(b) : b[y][1] \in Touched =>
                     \A x \in 1..Len(s) : s[x][1] # b[y][1])
              => Single(s \o b)
           /\ \A k : (\A x \in 1..Len(s) : s[x][1] # k) /\ (\A x \in 1..Len(b) : b[x][1] # k) =>
                 \A x \in 1..Len(s \o b) : (s \o b)[x][1] # k
  <1> DEFINE c == s \o b
  <1>1. /\ c \in Seq(Ents) /\ Len(c) = Len(s) + Len(b)
        /\ \A x \in 1..Len(c) : c[x] = IF x <= Len(s) THEN s[x] ELSE b[x - Len(s)]
    BY ConcatProperties
  <1>2. Len(s) \in Nat /\ Len(b) \in Nat
    OBVIOUS
  <1> HIDE DEF c
  <1>3. \A x \in 1..Len(s) : x \in 1..Len(c) /\ c[x] = s[x]
    BY <1>1, <1>2
  <1>4. \A x \in 1..Len(c) : x \in 1..Len(s) \/ (x - Len(s) \in 1..Len(b) /\ c[x] = b[x - Len(s)])
    BY <1>1, <1>2
  <1>5. Led(a, c)
    <2>1. \A e \in Live(a) : \E x \in 1..Len(c) : c[x] = e
      BY <1>3 DEF Led
    <2>2. ASSUME NEW x \in 1..Len(c), c[x][1] = "offering", NEW e \in Live(a)
          PROVE  \E y \in 1..(x - 1) : c[y] = e
      <3>1. CASE x \in 1..Len(s)
        <4>1. PICK y \in 1..(x - 1) : s[y] = e
          BY <1>3, <2>2, <3>1 DEF Led
        <4>2. y \in 1..Len(s)
          BY <1>2, <3>1
        <4> QED
          BY <1>3, <4>1, <4>2
      <3>2. CASE x \notin 1..Len(s)
        <4>1. PICK y \in 1..Len(s) : s[y] = e
          BY DEF Led
        <4>2. y \in 1..(x - 1)
          BY <1>2, <3>2
        <4> QED
          BY <1>3, <4>1, <4>2
      <3> QED
        BY <3>1, <3>2
    <2> QED
      BY <2>1, <2>2 DEF Led
  <1>6. ASSUME Single(s), Single(b),
               \A y \in 1..Len(b) : b[y][1] \in Touched => \A x \in 1..Len(s) : s[x][1] # b[y][1]
        PROVE  Single(c)
    <2> SUFFICES ASSUME NEW x \in 1..Len(c), NEW y \in 1..Len(c), c[x] = c[y], c[x][1] \in Touched
                 PROVE  x = y
      BY DEF Single
    <2>1. CASE x \in 1..Len(s) /\ y \in 1..Len(s)
      BY <1>3, <1>6, <2>1 DEF Single
    <2>2. CASE x \in 1..Len(s) /\ y \notin 1..Len(s)
      <3>1. c[x] = s[x] /\ y - Len(s) \in 1..Len(b) /\ c[y] = b[y - Len(s)]
        BY <1>3, <1>4, <2>2
      <3> QED
        BY <1>6, <2>2, <3>1
    <2>3. CASE x \notin 1..Len(s) /\ y \in 1..Len(s)
      <3>1. c[y] = s[y] /\ x - Len(s) \in 1..Len(b) /\ c[x] = b[x - Len(s)]
        BY <1>3, <1>4, <2>3
      <3> QED
        BY <1>6, <2>3, <3>1
    <2>4. CASE x \notin 1..Len(s) /\ y \notin 1..Len(s)
      <3>1. /\ x - Len(s) \in 1..Len(b) /\ c[x] = b[x - Len(s)]
            /\ y - Len(s) \in 1..Len(b) /\ c[y] = b[y - Len(s)]
        BY <1>4, <2>4
      <3>2. x - Len(s) = y - Len(s)
        BY <1>6, <3>1 DEF Single
      <3> QED
        BY <1>2, <3>2
    <2> QED
      BY <2>1, <2>2, <2>3, <2>4
  <1>7. ASSUME NEW k, \A x \in 1..Len(s) : s[x][1] # k, \A x \in 1..Len(b) : b[x][1] # k,
               NEW x \in 1..Len(c)
        PROVE  c[x][1] # k
    BY <1>3, <1>4, <1>7
  <1> QED
    BY <1>1, <1>5, <1>6, <1>7 DEF c

\* The other lists of a tenant's archive calls.
LEMMA ArchiveLists ==
    ASSUME NEW a \in Archetypes
    PROVE  /\ archiveOffering(a) \in Seq({"offering"} \X Nat)
           /\ archiveRatePlan(a) \in Seq({"rate-plan"} \X Nat)
           /\ archiveProduct(a) \in Seq({"product"} \X Nat)
           /\ archiveCustomer(a) \in Seq({"wallet", "customer"} \X Nat)
           /\ revokeIngestKey(a) \in Seq({<<"ingest-key">>})
           /\ \A x, y \in 1..Len(revokeIngestKey(a)) : x = y
           /\ archiveTenant \in Seq({<<"tenant">>})
  <1>1. a.products \in Nat /\ a.cards \in Nat /\ People(a) \in Nat
    BY RosterAssumption DEF People
  <1>2. archiveOffering(a) \in Seq({"offering"} \X Nat)
    BY <1>1 DEF archiveOffering
  <1>3. archiveRatePlan(a) \in Seq({"rate-plan"} \X Nat)
    BY <1>1 DEF archiveRatePlan
  <1>4. archiveProduct(a) \in Seq({"product"} \X Nat)
    BY <1>1 DEF archiveProduct
  <1> DEFINE T == {"wallet", "customer"} \X Nat
             N == People(a)
             ss == [i \in 1..N |-> archiveWallet(a, i) \o <<<<"customer", i>>>>]
  <1>5. ASSUME NEW i \in 1..N PROVE archiveWallet(a, i) \o <<<<"customer", i>>>> \in Seq(T)
    <2> DEFINE S == Subscriptions(a, i)
               ws == [k \in 1..Len(S) |-> Only(NeedsWallet(S[k].mode), <<"wallet", i>>)]
    <2>1. <<"wallet", i>> \in T /\ <<"customer", i>> \in T
      BY <1>1
    <2>2. Len(S) \in Nat
      BY SubsOf
    <2> HIDE DEF T, S
    <2>3. <<<<"wallet", i>>>> \in Seq(T) /\ <<>> \in Seq(T) /\ <<<<"customer", i>>>> \in Seq(T)
      BY <2>1
    <2>4. \A k \in 1..Len(S) : ws[k] \in Seq(T)
      BY <2>3 DEF Only
    <2>5. ws = [k \in 1..Len(S) |-> ws[k]]
      OBVIOUS
    <2>6. FlattenSeq(ws) = archiveWallet(a, i)
      BY DEF archiveWallet, S
    <2> HIDE DEF ws
    <2>7. archiveWallet(a, i) \in Seq(T)
      BY <2>2, <2>4, <2>5, <2>6, FlattenSpread
    <2> QED
      BY <2>3, <2>7, ConcatProperties
  <1>6. archiveCustomer(a) \in Seq(T)
    <2>1. archiveCustomer(a) = FlattenSeq(ss)
      BY DEF archiveCustomer
    <2>2. ss = [i \in 1..N |-> ss[i]] /\ \A i \in 1..N : ss[i] \in Seq(T)
      BY <1>5
    <2> HIDE DEF ss, T
    <2> QED
      BY <1>1, <2>1, <2>2, FlattenSpread
  <1>7. revokeIngestKey(a) \in Seq({<<"ingest-key">>}) /\ \A x, y \in 1..Len(revokeIngestKey(a)) : x = y
    <2>1. CASE ~a.catalog /\ a.ingest
      <3>1. revokeIngestKey(a) = <<<<"ingest-key">>>>
        BY <2>1 DEF revokeIngestKey, Only
      <3> QED
        BY <3>1
    <2>2. CASE ~(~a.catalog /\ a.ingest)
      <3>1. revokeIngestKey(a) = <<>>
        BY <2>2 DEF revokeIngestKey, Only
      <3> QED
        BY <3>1
    <2> QED
      BY <2>1, <2>2
  <1>8. archiveTenant \in Seq({<<"tenant">>})
    BY DEF archiveTenant
  <1> QED
    BY <1>2, <1>3, <1>4, <1>6, <1>7, <1>8

\* Clean's calls for a tenant.
LEMMA CleanPlanOrder ==
    ASSUME NEW a \in Archetypes
    PROVE  /\ CleanPlan[a] \in Seq(Ents) /\ Led(a, CleanPlan[a])
           /\ NamedOnce(a) => Single(CleanPlan[a])
  <1> DEFINE A == archiveSubscription(a)
             B == archiveOffering(a)
             C == archiveRatePlan(a)
             D == archiveProduct(a)
             E == archiveCustomer(a)
             K == revokeIngestKey(a)
             T == archiveTenant
  <1>1. CleanPlan[a] = A \o B \o C \o D \o E \o K \o T
    BY DEF CleanPlan
  <1>2. /\ A \in Seq(Ents) /\ \A x \in 1..Len(A) : A[x][1] = "subscription"
        /\ NamedOnce(a) => \A x, y \in 1..Len(A) : A[x] = A[y] => x = y
        /\ \A e \in Live(a) : \E x \in 1..Len(A) : A[x] = e
    BY CancelList
  <1>3. Led(a, A) /\ (NamedOnce(a) => Single(A)) /\ \A x \in 1..Len(A) : A[x][1] # "ingest-key"
    BY <1>2 DEF Led, Single
  <1> DEFINE Plain(s) == /\ s \in Seq(Ents)
                         /\ \A x \in 1..Len(s) : s[x][1] \notin Touched
  <1>4. Plain(B) /\ Plain(C) /\ Plain(D) /\ Plain(E) /\ Plain(T)
    <2>1. ASSUME NEW U, NEW s \in Seq(U), U \subseteq Ents, \A u \in U : u[1] \notin Touched
          PROVE  Plain(s)
      BY <2>1
    <2>2. \A k \in Kinds \ Touched : {k} \X Nat \subseteq Ents /\ \A u \in {k} \X Nat : u[1] \notin Touched
      BY DEF Ents
    <2>3. {"offering", "rate-plan", "product"} \subseteq Kinds \ Touched
      BY DEF Kinds, Touched
    <2>4. /\ {"wallet", "customer"} \X Nat \subseteq Ents
          /\ \A u \in {"wallet", "customer"} \X Nat : u[1] \notin Touched
      BY DEF Ents, Kinds, Touched
    <2>5. {<<"tenant">>} \subseteq Ents /\ \A u \in {<<"tenant">>} : u[1] \notin Touched
      BY DEF Ents, Kinds, Touched
    <2> HIDE DEF B, C, D, E, T, Plain
    <2>6. Plain(B)
      BY <2>1, <2>2, <2>3, ArchiveLists DEF B
    <2>7. Plain(C)
      BY <2>1, <2>2, <2>3, ArchiveLists DEF C
    <2>8. Plain(D)
      BY <2>1, <2>2, <2>3, ArchiveLists DEF D
    <2>9. Plain(E)
      BY <2>1, <2>4, ArchiveLists DEF E
    <2>10. Plain(T)
      <3>1. T \in Seq({<<"tenant">>})
        BY ArchiveLists DEF T
      <3> DEFINE U == {<<"tenant">>}
      <3>2. T \in Seq(U) /\ U \subseteq Ents /\ \A u \in U : u[1] \notin Touched
        BY <2>5, <3>1
      <3> HIDE DEF U
      <3> QED
        BY <2>1, <3>2
    <2> QED
      BY <2>6, <2>7, <2>8, <2>9, <2>10
  <1>5. /\ K \in Seq(Ents) /\ Single(K)
        /\ \A x \in 1..Len(K) : K[x][1] = "ingest-key"
    <2>1. K \in Seq({<<"ingest-key">>}) /\ \A x, y \in 1..Len(K) : x = y
      BY ArchiveLists
    <2>2. <<"ingest-key">> \in Ents
      BY EntForms DEF Kinds
    <2> HIDE DEF K
    <2> QED
      BY <2>1, <2>2 DEF Single
  <1> HIDE DEF A, B, C, D, E, K, T
  <1> DEFINE Keyless(s) == \A x \in 1..Len(s) : s[x][1] # "ingest-key"
             Good(s) == s \in Seq(Ents) /\ Led(a, s) /\ (NamedOnce(a) => Single(s))
  <1>6. ASSUME NEW s, Good(s), NEW b, Plain(b)
        PROVE  Good(s \o b) /\ (Keyless(s) => Keyless(s \o b))
    <2>1. Single(b) /\ Keyless(b)
      BY <1>6 DEF Single, Touched
    <2>2. s \in Seq(Ents) /\ b \in Seq(Ents) /\ Led(a, s)
      BY <1>6
    <2>3. s \o b \in Seq(Ents) /\ Led(a, s \o b)
      BY <2>2, LedOn
    <2>4. NamedOnce(a) => Single(s \o b)
      BY <1>6, <2>1, <2>2, LedOn
    <2>5. Keyless(s) => Keyless(s \o b)
      BY <2>1, <2>2, LedOn
    <2> QED
      BY <2>3, <2>4, <2>5
  <1>7. Good(A) /\ Keyless(A)
    BY <1>2, <1>3
  <1> HIDE DEF Good, Keyless, Plain
  <1>8. Good(A \o B) /\ Keyless(A \o B)
    BY <1>4, <1>6, <1>7
  <1>9. Good(A \o B \o C) /\ Keyless(A \o B \o C)
    BY <1>4, <1>6, <1>8
  <1>10. Good(A \o B \o C \o D) /\ Keyless(A \o B \o C \o D)
    BY <1>4, <1>6, <1>9
  <1>11. Good(A \o B \o C \o D \o E) /\ Keyless(A \o B \o C \o D \o E)
    BY <1>4, <1>6, <1>10
  <1>12. Good(A \o B \o C \o D \o E \o K)
    <2> DEFINE s == A \o B \o C \o D \o E
    <2>1. s \in Seq(Ents) /\ Led(a, s) /\ (NamedOnce(a) => Single(s)) /\ Keyless(s)
      BY <1>11 DEF Good
    <2> HIDE DEF s
    <2>2. s \o K \in Seq(Ents) /\ Led(a, s \o K)
      BY <1>5, <2>1, LedOn
    <2>3. \A y \in 1..Len(K) : K[y][1] \in Touched => \A x \in 1..Len(s) : s[x][1] # K[y][1]
      BY <1>5, <2>1 DEF Keyless
    <2>4. NamedOnce(a) => Single(s \o K)
      BY <1>5, <2>1, <2>3, LedOn
    <2>5. Good(s \o K)
      BY <2>2, <2>4 DEF Good
    <2> QED
      BY <2>5 DEF s
  <1>13. Good(A \o B \o C \o D \o E \o K \o T)
    BY <1>4, <1>6, <1>12
  <1> QED
    BY <1>1, <1>13 DEF Good

\* The manifest in some order.
LEMMA InSomeOrder ==
    ASSUME NEW S, IsFiniteSet(S)
    PROVE  LET ts == SetToSeq(S)
           IN  /\ ts \in [1..Cardinality(S) -> S] /\ Cardinality(S) \in Nat
               /\ \A i, j \in 1..Cardinality(S) : ts[i] = ts[j] => i = j
               /\ \A t \in S : \E i \in 1..Cardinality(S) : ts[i] = t
  <1> DEFINE n == Cardinality(S)
             ts == SetToSeq(S)
             D == [1..n -> S]
             P(f) == \A i, j \in 1..n : f[i] = f[j] => i = j
  <1>1. n \in Nat
    BY FS_CardinalityType
  <1>2. PICK b : b \in Bijection(1..n, S)
    BY FS_CardinalityType DEF ExistsBijection
  <1>3. b \in D /\ P(b)
    BY <1>2 DEF Bijection, Injection, Surjection, IsInjective
  <1>4. ts = CHOOSE f \in D : IsInjective(f)
    BY DEF SetToSeq
  <1>5. \A f \in D : IsInjective(f) <=> P(f)
    BY DEF IsInjective
  <1> HIDE DEF D, P, n, ts
  <1>6. ts \in D /\ P(ts)
    BY <1>3, <1>4, <1>5
  <1>7. ts \in Injection(1..n, S)
    BY <1>6 DEF D, P, Injection, IsInjective
  <1>8. ts \in Surjection(1..n, S)
    <2>1. IsFiniteSet(1..n) /\ Cardinality(1..n) = n
      BY <1>1, FS_Interval
    <2> QED
      BY <1>7, <2>1, FS_Injection DEF n
  <1> QED
    BY <1>1, <1>6, <1>8 DEF D, P, n, ts, Surjection

\* A call of Clean that may fail when it comes again.
Touchy(x) == x[2][1] \in Touched

\* Nothing that could be refused is left: what must come once does, and the
\* live subscriptions of an offering are archived or come before it.
Orderly ==
    /\ \A x, y \in 1..Len(todo) : todo[x] = todo[y] /\ Touchy(todo[x]) => x = y
    /\ \A x \in 1..Len(todo) : Touchy(todo[x]) => todo[x] \notin gone
    /\ \A x \in 1..Len(todo) : todo[x][2][1] = "offering" =>
          \A e \in Live(arch[todo[x][1]]) :
             \/ <<todo[x][1], e>> \in gone
             \/ \E y \in 1..(x - 1) : todo[y] = <<todo[x][1], e>>

\* Everything of the manifest is archived or still to come.
Remains ==
    \A t \in manifest : \A k \in 1..Len(CleanPlan[arch[t]]) :
        \/ <<t, CleanPlan[arch[t]][k]>> \in gone
        \/ \E j \in 1..Len(todo) : todo[j] = <<t, CleanPlan[arch[t]][k]>>

\* Clean begins.
LEMMA StartOrder ==
    ASSUME arch \in Rosters, manifest \subseteq Tenants, NEW over, CleanStart(over)
    PROVE  /\ todo' \in Seq(manifest \X Ents) /\ Remains'
           /\ gone = {} /\ (\A t \in manifest : NamedOnce(arch[t])) => Orderly'
  <1> DEFINE ts == SetToSeq(manifest)
             n == Cardinality(manifest)
             p(t) == CleanPlan[arch[t]]
             of(t) == [j \in 1..Len(p(t)) |-> <<t, p(t)[j]>>]
             ss == [k \in 1..n |-> of(ts[k])]
             T == manifest \X Ents
  <1>1. IsFiniteSet(manifest)
    <2>1. IsFiniteSet(Tenants)
      BY RosterAssumption DEF Tenants
    <2> QED
      BY <2>1, FS_Subset
  <1>2. /\ ts \in [1..n -> manifest] /\ n \in Nat
        /\ \A i, j \in 1..n : ts[i] = ts[j] => i = j
        /\ \A t \in manifest : \E i \in 1..n : ts[i] = t
    BY <1>1, InSomeOrder
  <1>3. Len(ts) = n
    BY <1>2
  <1>4. todo' = FlattenSeq(ss) /\ UNCHANGED <<arch, manifest, gone>>
    BY <1>3 DEF CleanStart
  <1>5. ASSUME NEW t \in manifest
        PROVE  /\ p(t) \in Seq(Ents) /\ Len(p(t)) \in Nat /\ Led(arch[t], p(t))
               /\ NamedOnce(arch[t]) => Single(p(t))
               /\ of(t) \in Seq(T) /\ Len(of(t)) = Len(p(t))
               /\ \A j \in 1..Len(p(t)) : of(t)[j] = <<t, p(t)[j]>> /\ p(t)[j] \in Ents
    <2>1. arch[t] \in Archetypes
      BY DEF Archetypes, Tenants
    <2>2. p(t) \in Seq(Ents) /\ Led(arch[t], p(t)) /\ (NamedOnce(arch[t]) => Single(p(t)))
      BY <2>1, CleanPlanOrder
    <2>3. Len(p(t)) \in Nat /\ \A j \in 1..Len(p(t)) : p(t)[j] \in Ents
      BY <2>2
    <2> DEFINE q == p(t)
    <2>4. of(t) = [j \in 1..Len(q) |-> <<t, q[j]>>]
      OBVIOUS
    <2>5. \A j \in 1..Len(q) : <<t, q[j]>> \in T
      BY <2>3
    <2> HIDE DEF q, T
    <2>6. of(t) \in Seq(T) /\ Len(of(t)) = Len(q) /\ \A j \in 1..Len(q) : of(t)[j] = <<t, q[j]>>
      BY <2>3, <2>4, <2>5 DEF q
    <2> QED
      BY <2>2, <2>3, <2>6 DEF q
  <1> HIDE DEF p
  <1>6. ss = [k \in 1..n |-> ss[k]] /\ \A k \in 1..n : ss[k] = of(ts[k]) /\ ts[k] \in manifest
    BY <1>2
  <1> HIDE DEF ss, of, ts, n, T
  <1>7. \A k \in 1..n : ss[k] \in Seq(T)
    BY <1>5, <1>6
  <1>8. todo' \in Seq(T) /\ \E o \in [1..n -> Nat] : Spread(todo', ss, n, o)
    BY <1>2, <1>4, <1>6, <1>7, FlattenSpread
  <1>9. PICK o \in [1..n -> Nat] : Spread(todo', ss, n, o)
    BY <1>8
  <1>10. ASSUME NEW k \in 1..n, NEW j \in 1..Len(p(ts[k]))
         PROVE  /\ o[k] + j \in 1..Len(todo') /\ todo'[o[k] + j] = <<ts[k], p(ts[k])[j]>>
                /\ j \in Nat /\ o[k] \in Nat
    <2>1. ts[k] \in manifest /\ ss[k] = of(ts[k])
      BY <1>6
    <2>2. Len(ss[k]) = Len(p(ts[k])) /\ ss[k][j] = <<ts[k], p(ts[k])[j]>>
      BY <1>5, <2>1
    <2>3. j \in 1..Len(ss[k])
      BY <2>2
    <2>4. o[k] + j \in 1..Len(todo') /\ todo'[o[k] + j] = ss[k][j]
      BY <1>9, <2>3 DEF Spread
    <2>5. j \in Nat
      BY <1>5, <2>1
    <2> QED
      BY <2>2, <2>4, <2>5
  <1>11. ASSUME NEW x \in 1..Len(todo')
         PROVE  \E k \in 1..n : \E j \in 1..Len(p(ts[k])) :
                   x = o[k] + j /\ todo'[x] = <<ts[k], p(ts[k])[j]>>
    <2>1. PICK k \in 1..n : \E j \in 1..Len(ss[k]) : x = o[k] + j
      BY <1>9 DEF Spread
    <2>2. PICK j \in 1..Len(ss[k]) : x = o[k] + j
      BY <2>1
    <2>3. ts[k] \in manifest /\ ss[k] = of(ts[k]) /\ Len(ss[k]) = Len(p(ts[k]))
      BY <1>5, <1>6
    <2>4. j \in 1..Len(p(ts[k]))
      BY <2>3
    <2> QED
      BY <1>10, <2>2, <2>4
  <1>12. Remains'
    <2> SUFFICES ASSUME NEW t \in manifest, NEW j \in 1..Len(p(t))
                 PROVE  \E x \in 1..Len(todo') : todo'[x] = <<t, p(t)[j]>>
      BY <1>4 DEF Remains, p
    <2>1. PICK k \in 1..n : ts[k] = t
      BY <1>2
    <2>2. j \in 1..Len(p(ts[k]))
      BY <2>1
    <2> QED
      BY <1>10, <2>1, <2>2
  <1>13. ASSUME gone = {}, \A t \in manifest : NamedOnce(arch[t]) PROVE Orderly'
    <2>1. ASSUME NEW x \in 1..Len(todo'), NEW y \in 1..Len(todo'), todo'[x] = todo'[y],
                 Touchy(todo'[x])
          PROVE  x = y
      <3>1. PICK k \in 1..n : \E j \in 1..Len(p(ts[k])) :
                x = o[k] + j /\ todo'[x] = <<ts[k], p(ts[k])[j]>>
        BY <1>11
      <3>2. PICK m \in 1..n : \E j \in 1..Len(p(ts[m])) :
                y = o[m] + j /\ todo'[y] = <<ts[m], p(ts[m])[j]>>
        BY <1>11
      <3>3. ts[k] = ts[m]
        BY <2>1, <3>1, <3>2
      <3>4. k = m
        BY <1>2, <3>3
      <3>5. PICK i \in 1..Len(p(ts[k])) : x = o[k] + i /\ todo'[x] = <<ts[k], p(ts[k])[i]>>
        BY <3>1
      <3>6. PICK j \in 1..Len(p(ts[k])) : y = o[k] + j /\ todo'[y] = <<ts[k], p(ts[k])[j]>>
        BY <3>2, <3>4
      <3>7. p(ts[k])[i] = p(ts[k])[j] /\ p(ts[k])[i][1] \in Touched
        BY <2>1, <3>5, <3>6 DEF Touchy
      <3>8. Single(p(ts[k]))
        BY <1>5, <1>6, <1>13
      <3>9. i = j
        BY <3>7, <3>8 DEF Single
      <3>10. x = o[k] + j
        BY <3>5, <3>9
      <3> QED
        BY <3>6, <3>10
    <2>2. ASSUME NEW x \in 1..Len(todo'), todo'[x][2][1] = "offering",
                 NEW e \in Live(arch[todo'[x][1]])
          PROVE  \E y \in 1..(x - 1) : todo'[y] = <<todo'[x][1], e>>
      <3>1. PICK k \in 1..n : \E j \in 1..Len(p(ts[k])) :
                x = o[k] + j /\ todo'[x] = <<ts[k], p(ts[k])[j]>>
        BY <1>11
      <3>2. PICK j \in 1..Len(p(ts[k])) : x = o[k] + j /\ todo'[x] = <<ts[k], p(ts[k])[j]>>
        BY <3>1
      <3>3. ts[k] \in manifest /\ todo'[x][1] = ts[k] /\ p(ts[k])[j][1] = "offering"
        BY <1>6, <2>2, <3>2
      <3>4. Led(arch[ts[k]], p(ts[k])) /\ Len(p(ts[k])) \in Nat
        BY <1>5, <3>3
      <3>5. PICK i \in 1..(j - 1) : p(ts[k])[i] = e
        BY <2>2, <3>3, <3>4 DEF Led
      <3>6. i \in 1..Len(p(ts[k]))
        BY <3>4
      <3>7. o[k] + i \in 1..Len(todo') /\ todo'[o[k] + i] = <<ts[k], e>> /\ o[k] \in Nat
        BY <1>10, <3>5, <3>6
      <3>8. o[k] + i \in 1..(x - 1)
        BY <3>2, <3>4, <3>5, <3>7
      <3> QED
        BY <3>3, <3>7, <3>8
    <2> QED
      BY <1>4, <1>13, <2>1, <2>2 DEF Orderly, Touchy
  <1> QED
    BY <1>8, <1>12, <1>13 DEF T

\* Nothing was lost, interrupted or cancelled by others.
Calm ==
    /\ faults = 0 /\ ~ctxDone /\ ~cancelled
    /\ \A t \in manifest : NamedOnce(arch[t])

CleanInv ==
    /\ faults \in Nat
    /\ where \in {"doctor", "seed", "fork", "validate", "report", "clean"} =>
          main \in {"seeding", "seeded"}
    /\ main \in {"seeding", "seeded"} => cleanErrs = 0 /\ (~cancelled => gone = {})
    /\ main \in {"cleaning", "cleaned"} =>
          /\ todo \in Seq(manifest \X Ents) /\ cleanErrs \in Nat
          /\ cleanErrs = 0 => Remains
          /\ Calm => cleanErrs = 0 /\ Orderly
    /\ main = "cleaned" => todo = <<>>

\* What an archive call that is over does to the rest.
LEMMA RestOf ==
    ASSUME NEW T, todo \in Seq(T), todo # <<>>, todo' = Tail(todo)
    PROVE  /\ todo' \in Seq(T) /\ Len(todo') = Len(todo) - 1 /\ Len(todo) \in Nat \ {0}
           /\ Head(todo) = todo[1] /\ todo[1] \in T
           /\ \A x \in 1..Len(todo') : todo'[x] = todo[x + 1] /\ x + 1 \in 1..Len(todo)
           /\ \A x \in 1..Len(todo) : x = 1 \/ (x - 1 \in 1..Len(todo') /\ todo'[x - 1] = todo[x])
  <1>1. /\ todo' \in Seq(T) /\ Len(todo') = Len(todo) - 1 /\ Head(todo) \in T
        /\ \A x \in 1..Len(todo') : todo'[x] = todo[x + 1]
    BY HeadTailProperties
  <1>2. Len(todo) \in Nat \ {0} /\ Head(todo) = todo[1]
    BY EmptySeq, LenProperties
  <1>3. \A x \in 1..Len(todo') : x + 1 \in 1..Len(todo)
    BY <1>1, <1>2
  <1>4. ASSUME NEW x \in 1..Len(todo), x # 1
        PROVE  x - 1 \in 1..Len(todo') /\ todo'[x - 1] = todo[x]
    <2>1. x - 1 \in 1..Len(todo') /\ x - 1 + 1 = x
      BY <1>1, <1>2, <1>4
    <2> QED
      BY <1>1, <2>1
  <1> QED
    BY <1>1, <1>2, <1>3, <1>4

LEMMA RemainsOn ==
    ASSUME NEW T, todo \in Seq(T), todo # <<>>, todo' = Tail(todo), Remains,
           Head(todo) \in gone', gone \subseteq gone', UNCHANGED <<arch, manifest>>
    PROVE  Remains'
  <1> SUFFICES ASSUME NEW t \in manifest, NEW k \in 1..Len(CleanPlan[arch[t]])
               PROVE  \/ <<t, CleanPlan[arch[t]][k]>> \in gone'
                      \/ \E j \in 1..Len(todo') : todo'[j] = <<t, CleanPlan[arch[t]][k]>>
    BY DEF Remains
  <1> DEFINE z == <<t, CleanPlan[arch[t]][k]>>
  <1>1. z \in gone \/ \E j \in 1..Len(todo) : todo[j] = z
    BY DEF Remains
  <1> HIDE DEF z
  <1>2. CASE \E j \in 1..Len(todo) : todo[j] = z
    <2>1. PICK j \in 1..Len(todo) : todo[j] = z
      BY <1>2
    <2>2. CASE j = 1
      <3>1. z = Head(todo)
        BY <2>1, <2>2, RestOf
      <3> QED
        BY <3>1 DEF z
    <2>3. CASE j # 1
      <3>1. j - 1 \in 1..Len(todo') /\ todo'[j - 1] = todo[j]
        BY <2>3, RestOf
      <3> QED
        BY <2>1, <3>1 DEF z
    <2> QED
      BY <2>2, <2>3
  <1> QED
    BY <1>1, <1>2 DEF z

LEMMA OrderlyOn ==
    ASSUME NEW T, todo \in Seq(T), todo # <<>>, todo' = Tail(todo), Orderly,
           gone' = gone \cup {Head(todo)}, UNCHANGED arch
    PROVE  Orderly'
  <1>1. /\ Len(todo') = Len(todo) - 1 /\ Len(todo) \in Nat \ {0} /\ Head(todo) = todo[1]
        /\ \A x \in 1..Len(todo') : todo'[x] = todo[x + 1] /\ x + 1 \in 1..Len(todo)
    BY RestOf
  <1>2. Len(todo') \in Nat /\ 1 \in 1..Len(todo)
    BY <1>1
  <1>3. ASSUME NEW x \in 1..Len(todo'), NEW y \in 1..Len(todo'), todo'[x] = todo'[y], Touchy(todo'[x])
        PROVE  x = y
    <2>1. x + 1 = y + 1
      BY <1>1, <1>3 DEF Orderly, Touchy
    <2> QED
      BY <1>2, <2>1
  <1>4. ASSUME NEW x \in 1..Len(todo'), Touchy(todo'[x])
        PROVE  todo'[x] \notin gone'
    <2>1. todo'[x] = todo[x + 1] /\ x + 1 \in 1..Len(todo) /\ x + 1 # 1
      BY <1>1, <1>2
    <2>2. todo[x + 1] # todo[1]
      BY <1>2, <1>4, <2>1 DEF Orderly, Touchy
    <2> QED
      BY <1>1, <1>4, <2>1, <2>2 DEF Orderly, Touchy
  <1>5. ASSUME NEW x \in 1..Len(todo'), todo'[x][2][1] = "offering",
               NEW e \in Live(arch[todo'[x][1]])
        PROVE  \/ <<todo'[x][1], e>> \in gone'
               \/ \E y \in 1..(x - 1) : todo'[y] = <<todo'[x][1], e>>
    <2>1. todo'[x] = todo[x + 1] /\ x + 1 \in 1..Len(todo) /\ x + 1 - 1 = x
      BY <1>1, <1>2
    <2> DEFINE z == <<todo'[x][1], e>>
    <2>2. z \in gone \/ \E y \in 1..(x + 1 - 1) : todo[y] = z
      <3> DEFINE w == x + 1
      <3>1. w \in 1..Len(todo) /\ todo[w] = todo'[x]
        BY <2>1
      <3> HIDE DEF w
      <3>2. \/ <<todo[w][1], e>> \in gone
            \/ \E y \in 1..(w - 1) : todo[y] = <<todo[w][1], e>>
        BY <1>5, <3>1 DEF Orderly
      <3> QED
        BY <3>1, <3>2 DEF w
    <2> HIDE DEF z
    <2>3. CASE \E y \in 1..(x + 1 - 1) : todo[y] = z
      <3>1. PICK y \in 1..x : todo[y] = z
        BY <2>1, <2>3
      <3>2. CASE y = 1
        BY <1>1, <3>1, <3>2 DEF z
      <3>3. CASE y # 1
        <4>1. y - 1 \in 1..(x - 1) /\ y - 1 \in 1..Len(todo') /\ y - 1 + 1 = y
          BY <1>2, <3>3
        <4> QED
          BY <1>1, <3>1, <4>1 DEF z
      <3> QED
        BY <3>2, <3>3
    <2> QED
      BY <2>2, <2>3 DEF z
  <1> QED
    BY <1>3, <1>4, <1>5 DEF Orderly, Touchy

\* An archive call and its answer.
LEMMA ArchiveStep == CleanInv /\ Archive /\ UNCHANGED orch => CleanInv'
  <1> SUFFICES ASSUME CleanInv, Archive, UNCHANGED orch PROVE CleanInv'
    OBVIOUS
  <1> DEFINE x == Head(todo)
             T == manifest \X Ents
  <1>1. /\ main = "cleaning" /\ todo # <<>> /\ main' = main
        /\ UNCHANGED <<arch, ctxDone, manifest, cancelled, where>>
    BY DEF Archive, CleanFrame, orch
  <1>2. /\ todo \in Seq(T) /\ cleanErrs \in Nat /\ faults \in Nat
        /\ where \notin {"doctor", "seed", "fork", "validate", "report", "clean"}
        /\ cleanErrs = 0 => Remains
        /\ Calm => cleanErrs = 0 /\ Orderly
    BY <1>1 DEF CleanInv
  <1>3. SUFFICES /\ todo' \in Seq(T) /\ cleanErrs' \in Nat /\ faults' \in Nat
                 /\ cleanErrs' = 0 => Remains'
                 /\ Calm' => cleanErrs' = 0 /\ Orderly'
    BY <1>1, <1>2 DEF CleanInv
  <1> HIDE DEF x, T
  <1>4. ASSUME todo' = Tail(todo) PROVE todo' \in Seq(T)
    BY <1>1, <1>2, <1>4, RestOf
  <1>5. CASE ArchiveFails(x)
    <2>1. todo' = Tail(todo) /\ cleanErrs' = cleanErrs + 1 /\ UNCHANGED <<gone, faults>>
      BY <1>5 DEF ArchiveFails, NextArchive
    <2>2. ~Calm
      <3> SUFFICES ASSUME Calm PROVE FALSE
        OBVIOUS
      <3>1. Guarded(x) /\ Orderly
        BY <1>2, <1>5 DEF ArchiveFails, Calm
      <3>2. PICK e \in Live(arch[x[1]]) : <<x[1], e>> \notin gone /\ x[2][1] = "offering"
        BY <3>1 DEF Guarded
      <3>3. 1 \in 1..Len(todo) /\ todo[1] = x
        BY <1>1, <1>2, <2>1, RestOf DEF x
      <3>4. ~\E y \in 1..(1 - 1) : todo[y] = <<x[1], e>>
        OBVIOUS
      <3> QED
        BY <3>1, <3>2, <3>3, <3>4 DEF Orderly
    <2>3. ~Calm'
      BY <1>1, <2>1, <2>2 DEF Calm
    <2>4. cleanErrs' \in Nat /\ cleanErrs' # 0
      BY <1>2, <2>1
    <2> QED
      BY <1>2, <1>4, <2>1, <2>3, <2>4
  <1>6. CASE ArchiveOnce(x)
    <2>1. /\ todo' = Tail(todo) /\ cleanErrs' = cleanErrs + 0 /\ gone' = gone \cup {x}
          /\ faults' = faults
      BY <1>6 DEF ArchiveOnce, NextArchive
    <2>2. cleanErrs' = cleanErrs
      BY <1>2, <2>1
    <2>3. Calm' => Calm
      BY <1>1, <2>1 DEF Calm
    <2>4. Remains => Remains'
      BY <1>1, <1>2, <2>1, RemainsOn DEF x
    <2>5. Orderly => Orderly'
      BY <1>1, <1>2, <2>1, OrderlyOn DEF x
    <2> QED
      BY <1>2, <1>4, <2>1, <2>2, <2>3, <2>4, <2>5
  <1>7. CASE ArchiveAgain(x)
    <2>1. PICK failed \in BOOLEAN : /\ x[2][1] \notin {"ingest-key", "subscription"} => ~failed
                                    /\ NextArchive(failed)
      BY <1>7 DEF ArchiveAgain
    <2>2. /\ todo' = Tail(todo) /\ x \in gone /\ UNCHANGED <<gone, faults>>
          /\ cleanErrs' = cleanErrs + (IF failed THEN 1 ELSE 0)
      BY <1>7, <2>1 DEF ArchiveAgain, NextArchive
    <2>3. (Calm' => Calm) /\ gone' = gone \cup {x}
      BY <1>1, <2>2 DEF Calm
    <2>4. Remains => Remains'
      BY <1>1, <1>2, <2>2, RemainsOn DEF x
    <2>5. Orderly => Orderly'
      BY <1>1, <1>2, <2>2, <2>3, OrderlyOn DEF x
    <2>6. Calm => ~failed
      <3> SUFFICES ASSUME Calm, failed PROVE FALSE
        OBVIOUS
      <3>1. Touchy(x)
        BY <2>1 DEF Touchy, Touched
      <3>2. 1 \in 1..Len(todo) /\ todo[1] = x
        BY <1>1, <1>2, <2>2, RestOf DEF x
      <3> QED
        BY <1>2, <2>2, <3>1, <3>2 DEF Orderly
    <2>7. /\ failed => cleanErrs' \in Nat /\ cleanErrs' # 0
          /\ ~failed => cleanErrs' = cleanErrs
      BY <1>2, <2>2
    <2> QED
      BY <1>2, <1>4, <2>2, <2>3, <2>4, <2>5, <2>6, <2>7
  <1>8. CASE ArchiveUnanswered(x)
    <2>1. faults' = faults + 1 /\ gone \subseteq gone'
      BY <1>8 DEF ArchiveUnanswered, Faulty
    <2>2. faults' \in Nat /\ ~Calm'
      BY <1>2, <2>1 DEF Calm
    <2>3. CASE NextArchive(TRUE)
      <3>1. todo' = Tail(todo) /\ cleanErrs' = cleanErrs + 1
        BY <2>3 DEF NextArchive
      <3>2. cleanErrs' \in Nat /\ cleanErrs' # 0
        BY <1>2, <3>1
      <3> QED
        BY <1>4, <2>2, <3>1, <3>2
    <2>4. CASE UNCHANGED <<todo, cleanErrs>>
      <3>1. Remains => Remains'
        BY <1>1, <2>1, <2>4 DEF Remains
      <3> QED
        BY <1>2, <2>2, <2>4, <3>1
    <2> QED
      BY <1>8, <2>3, <2>4 DEF ArchiveUnanswered
  <1> QED
    BY <1>5, <1>6, <1>7, <1>8 DEF Archive, x

\* The other steps.
LEMMA CleanStepInv == SeedInv /\ CleanInv /\ [Next]_vars => CleanInv'
  <1> SUFFICES ASSUME SeedInv, CleanInv, [Next]_vars PROVE CleanInv'
    OBVIOUS
  <1> DEFINE Early == {"doctor", "seed", "fork", "validate", "report", "clean"}
  <1>a. /\ arch \in Rosters /\ manifest \subseteq Tenants /\ (saved => main # "seeding")
        /\ main \in {"seeding", "seeded", "cleaning", "cleaned"}
    BY DEF SeedInv, SeedShape, ErrInv
  <1>b. ASSUME UNCHANGED <<arch, ctxDone, main, manifest, gone, todo, cleanErrs, faults, cancelled>>,
               where' \in Early => where \in Early
        PROVE  CleanInv'
    <2>1. (Calm' <=> Calm) /\ (Remains' <=> Remains) /\ (Orderly' <=> Orderly)
      BY <1>b DEF Calm, Remains, Orderly
    <2> QED
      BY <1>b, <2>1 DEF CleanInv
  <1>1. CASE SeedStage
    <2>1. /\ where = "seed" /\ main \in {"seeding", "seeded"} /\ cancelled' = cancelled
          /\ cleanErrs = 0 /\ (~cancelled => gone = {}) /\ faults \in Nat
      BY <1>1 DEF SeedStage, CleanInv, orch
    <2>2. /\ UNCHANGED <<gone, cleanErrs>> /\ main' \in {main, "seeded"}
          /\ faults' = faults \/ faults' = faults + 1
      BY <1>1
      DEF SeedStage, SeedNext, Spawn, CtxOver, Get, GetFails, Post, PostMissing, PostUnanswered,
          PostRefused, PostConflict, SendErr, SeedReturns, frame, Faulty
    <2>3. faults' \in Nat
      BY <2>1, <2>2
    <2> QED
      BY <2>1, <2>2, <2>3 DEF CleanInv
  <1>2. ASSUME UNCHANGED <<seedVars, cancelled>>, where' \in Early => where \in Early
        PROVE  CleanInv'
    BY <1>2, <1>b DEF seedVars
  <1>3. ASSUME NEW over, CleanStart(over), main \in {"seeding", "seeded"}, cancelled' = cancelled,
               where' \notin Early
        PROVE  CleanInv'
    <2>1. /\ todo' \in Seq(manifest \X Ents) /\ Remains'
          /\ gone = {} /\ (\A t \in manifest : NamedOnce(arch[t])) => Orderly'
      BY <1>a, <1>3, StartOrder
    <2>2. /\ main' = "cleaning" /\ UNCHANGED <<arch, manifest, gone, cleanErrs, faults>>
          /\ cleanErrs = 0 /\ (~cancelled => gone = {}) /\ faults \in Nat
      BY <1>3 DEF CleanStart, CleanInv
    <2>3. Calm' => Orderly'
      BY <1>3, <2>1, <2>2 DEF Calm
    <2> QED
      BY <1>3, <2>1, <2>2, <2>3 DEF CleanInv
  <1>4. CASE CleanStep
    <2>1. CASE Archive
      BY <1>4, <2>1, ArchiveStep DEF CleanStep
    <2>2. CASE CleanReturns
      <3>1. /\ main = "cleaning" /\ main' = "cleaned" /\ todo = <<>>
            /\ where \in {"cleaning", "operator"} /\ UNCHANGED <<where, cancelled>>
            /\ UNCHANGED <<arch, ctxDone, manifest, gone, todo, cleanErrs, faults>>
        BY <1>4, <2>2 DEF CleanStep, CleanReturns, CleanFrame, orch
      <3>2. (Calm' <=> Calm) /\ (Remains' <=> Remains) /\ (Orderly' <=> Orderly)
        BY <3>1 DEF Calm, Remains, Orderly
      <3> QED
        BY <3>1, <3>2 DEF CleanInv
    <2> QED
      BY <1>4, <2>1, <2>2 DEF CleanStep
  <1>5. CASE Signal
    <2>1. /\ main # "cleaned" /\ ctxDone'
          /\ UNCHANGED <<arch, main, manifest, gone, todo, cleanErrs, faults, cancelled, where>>
      BY <1>5 DEF Signal, orch
    <2>2. ~Calm' /\ (Remains' <=> Remains)
      BY <2>1 DEF Calm, Remains
    <2> QED
      BY <2>1, <2>2 DEF CleanInv
  <1>6. CASE \E t \in Tenants : LifecycleCancels(t)
    <2>1. /\ where = "fork" /\ cancelled'
          /\ UNCHANGED <<main, cleanErrs, faults, where>>
      BY <1>6 DEF LifecycleCancels
    <2>2. main \in {"seeding", "seeded"}
      BY <2>1 DEF CleanInv
    <2> QED
      BY <2>1, <2>2 DEF CleanInv
  <1>7. CASE runCleanStage
    <2>1. CASE opt.keep \/ ~saved
      BY <1>7, <1>2, <2>1 DEF runCleanStage
    <2>2. CASE ~(opt.keep \/ ~saved)
      <3>1. where = "clean" /\ where' = "cleaning" /\ CleanStart(ctxDone) /\ cancelled' = cancelled
        BY <1>7, <2>2 DEF runCleanStage
      <3>2. main \in {"seeding", "seeded"}
        BY <3>1 DEF CleanInv
      <3> QED
        BY <1>3, <3>1, <3>2
    <2> QED
      BY <2>1, <2>2
  <1>8. CASE runCleanFlow
    BY <1>8, <1>3 DEF runCleanFlow, orch
  <1>9. CASE \/ DoctorStage \/ SeedRejected \/ SeedEnds \/ RunEnds \/ LifecycleEnds
             \/ LifecycleFails \/ Join \/ ValidateStage \/ ReportStage \/ CleanEnds \/ Return
             \/ runSeed \/ runSeedOver
    BY <1>9, <1>2
    DEF DoctorStage, SeedRejected, SeedEnds, RunEnds, LifecycleEnds, LifecycleFails, Join,
        ValidateStage, ReportStage, CleanEnds, Return, runSeed, runSeedOver
  <1>10. CASE UNCHANGED vars
    BY <1>10, <1>2 DEF vars, orch
  <1> QED
    BY <1>1, <1>4, <1>5, <1>6, <1>7, <1>8, <1>9, <1>10 DEF Next, Progress, Done, Hangs

\* Clean, for any roster, flags and faults: when it reports no error, nothing of
\* the manifest is left on the platform; with nothing lost, interrupted or
\* cancelled by the lifecycle agent its order draws no refusal; and e2e does not
\* end without having tried it.
THEOREM Cleaning == Spec => []CleaningSound
  <1>1. Init => CleanInv
    BY DEF Init, SeedInit, CleanInv
  <1>2. OrchInv /\ CleanInv => CleaningSound
    <2> SUFFICES ASSUME OrchInv, CleanInv PROVE CleaningSound
      OBVIOUS
    <2>1. CleanIsThorough
      <3> SUFFICES ASSUME main = "cleaned", cleanErrs = 0, NEW t \in manifest,
                          NEW k \in 1..Len(CleanPlan[arch[t]])
                   PROVE  <<t, CleanPlan[arch[t]][k]>> \in gone
        BY DEF CleanIsThorough
      <3>1. Remains /\ todo = <<>>
        BY DEF CleanInv
      <3>2. Len(todo) = 0
        BY <3>1
      <3>3. ~\E j \in 1..Len(todo) : todo[j] = <<t, CleanPlan[arch[t]][k]>>
        BY <3>2
      <3> QED
        BY <3>1, <3>3 DEF Remains
    <2>2. CleanSucceeds
      BY DEF CleanSucceeds, CleanInv, Calm
    <2>3. CleansUp
      BY DEF OrchInv, Open, Cleaned, Reached, CleansUp
    <2> QED
      BY <2>1, <2>2, <2>3 DEF CleaningSound
  <1> QED
    BY <1>1, <1>2, OrchInit, OrchStep, SeedInitInv, SeedStepInv, CleanStepInv, PTL DEF Spec
=============================================================================
