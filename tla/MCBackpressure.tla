---------------------------- MODULE MCBackpressure ----------------------------
(* Instances of Backpressure: two workers of the pool. *)
EXTENDS Backpressure, TLC

CONSTANTS w1, w2
Symmetry == Permutations({w1, w2})
=============================================================================
