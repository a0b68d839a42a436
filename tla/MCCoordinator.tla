--------------------------- MODULE MCCoordinator ---------------------------
(* Instances of Coordinator for TLC: two workers, two tenants. *)
EXTENDS Coordinator, TLC

CONSTANTS w1, w2, t1, t2

\* Both workers have a tenant.
HomeSpread == (t1 :> w1) @@ (t2 :> w2)

\* The hash sends every tenant to the same worker.
HomeSkewed == (t1 :> w1) @@ (t2 :> w1)
=============================================================================
