------------------------------- MODULE Support -------------------------------
(***************************************************************************)
(* The parts that need no common state: the chaos scheduler, the service   *)
(* tokens, the soak monitor, the validator and the partitioned run.  A     *)
(* behaviour exercises one of them and leaves the others as they start.    *)
(***************************************************************************)
EXTENDS Chaos, ServiceAuth, Soak, Validate, Traffic

VARIABLE part   \* the part a behaviour is about

vars == <<part, chaosVars, authVars, soakVars, validateVars, trafficVars>>

Init == /\ part \in {"chaos", "auth", "soak", "validate", "traffic"}
        /\ NewScheduler
        /\ part # "chaos" => plan = CHOOSE p \in UNION {Orders(q) : q \in Plans} : TRUE
        /\ AuthInit
        /\ part # "auth" => config = CHOOSE f \in Configs : TRUE
        /\ SoakInit
        /\ ValidateInit(IF part = "validate" THEN Worlds ELSE {CHOOSE w \in Worlds : TRUE})
        /\ TrafficInit(IF part = "traffic" THEN Jobs ELSE {<<>>})

Next == /\ \/ part = "chaos" /\ ChaosNext /\ UNCHANGED <<authVars, soakVars, validateVars, trafficVars>>
           \/ part = "auth" /\ AuthNext /\ UNCHANGED <<chaosVars, soakVars, validateVars, trafficVars>>
           \/ part = "soak" /\ SoakNext /\ UNCHANGED <<chaosVars, authVars, validateVars, trafficVars>>
           \/ part = "validate" /\ ValidateNext /\ UNCHANGED <<chaosVars, authVars, soakVars, trafficVars>>
           \/ part = "traffic" /\ TrafficNext /\ UNCHANGED <<chaosVars, authVars, soakVars, validateVars>>
        /\ UNCHANGED part

Spec == Init /\ [][Next]_vars
=============================================================================
