----------------------------- MODULE MCPipeline -----------------------------
(* Instances of Pipeline: event mixes that exercise one driver each. *)
EXTENDS Pipeline, TLC

CONSTANTS w1, w2, t1, t2, t3, a1

ev(t, p, n) == [tenant |-> t, agent |-> a1, path |-> p, neg |-> n]

MixBatch == <<ev(t1, "batch", FALSE), ev(t1, "batch", FALSE), ev(t1, "batch", FALSE)>>
MixTwo   == <<ev(t1, "batch", FALSE), ev(t2, "batch", FALSE), ev(t2, "batch", TRUE)>>
MixCsv   == <<ev(t1, "csv", FALSE), ev(t1, "csv", FALSE), ev(t2, "csv", FALSE)>>
MixOther == <<ev(t1, "direct", TRUE), ev(t2, "unknown", FALSE), ev(t3, "mcp", FALSE)>>
MixWire  == <<ev(t1, "wire", FALSE), ev(t1, "wire", FALSE), ev(t2, "wire", FALSE)>>

AllMixes  == {MixBatch, MixTwo, MixCsv, MixOther, MixWire}
Symmetry  == Permutations({w1, w2})
=============================================================================
