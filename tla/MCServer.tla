------------------------------ MODULE MCServer ------------------------------
(* An instance of Server for TLC: two runs, one whose rows may be refused and *)
(* one whose worker may hang.                                                *)
EXTENDS Server

CONSTANTS r1, r2
=============================================================================
