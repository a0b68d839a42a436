------------------------------- MODULE Stages -------------------------------
(***************************************************************************)
(* What the e2e command promises of its stages, without saying how: the    *)
(* result lists every stage; a stage is settled once, after the stages     *)
(* before it; when one is given up only the clean stage is still settled;  *)
(* then the command ends, with an error when a stage it could not do       *)
(* without failed.  Report and clean are the two it can do without.        *)
(***************************************************************************)
EXTENDS Integers, Sequences

VARIABLES
    status,     \* status[s]: Result.Stages
    failed,     \* Run will return an error
    over        \* Run has returned

vars == <<status, failed, over>>

AllStages == <<"doctor", "seed", "run", "lifecycle", "validate", "report", "clean">>

Names == {AllStages[k] : k \in 1..Len(AllStages)}

Before(s, u) == \E i, j \in 1..Len(AllStages) :
                    i < j /\ AllStages[i] = s /\ AllStages[j] = u

Settled(s) == status[s] # "PENDING"

Init ==
    /\ status = [s \in Names |-> "PENDING"]
    /\ failed = FALSE
    /\ over = FALSE

\* Some stages are settled, together.  Lifecycle runs beside run and may be
\* skipped ahead of it.
Settle ==
    /\ ~over
    /\ status' \in [Names -> {"PENDING", "PASS", "FAIL", "SKIP"}]
    /\ LET S == {s \in Names : status'[s] # status[s]} IN
          /\ S # {}
          /\ \A s \in S :
                /\ ~Settled(s)
                /\ \A u \in Names : Before(s, u) /\ Settled(u) => u = "lifecycle"
          /\ \/ S = {"clean"}
             \/ \A s \in S : \A u \in Names :
                   Before(u, s) => Settled(u) \/ u \in S \/ <<u, s>> = <<"run", "lifecycle">>
          /\ failed' \in {f \in BOOLEAN :
                failed \/ (\E s \in S \ {"report", "clean"} : status'[s] = "FAIL") => f}
    /\ UNCHANGED over

\* A run that was given up is an error.
Finish ==
    /\ ~over
    /\ over' = TRUE
    /\ UNCHANGED status
    /\ failed' \in {f \in BOOLEAN :
          (failed \/ \E s \in Names : ~Settled(s)) => f}

Next == Settle \/ Finish

Spec == Init /\ [][Next]_vars
=============================================================================
