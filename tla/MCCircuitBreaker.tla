-------------------------- MODULE MCCircuitBreaker --------------------------
(* Instances of CircuitBreaker for TLC: the workers are interchangeable. *)
EXTENDS CircuitBreaker, TLC

WorkerSymmetry == Permutations(Workers)
=============================================================================
