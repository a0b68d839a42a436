-------------------------- MODULE MCPaymentsCommand --------------------------
(***************************************************************************)
(* Two invoices with each part of the command enabled in turn, and one     *)
(* invoice with all of them.                                               *)
(***************************************************************************)
EXTENDS PaymentsCommand

Pay(m, x, a) == [mode |-> m, mix |-> x, attempts |-> a]
Scenario(n, f, parts, wallets) ==
    [n |-> n, cfg |-> f, notes |-> "notes" \in parts, erp |-> "erp" \in parts, wallet |-> wallets]

MCScenarios ==
    {Scenario(1, Pay("offline", {"succeeded", "declined", "insufficient_funds"}, 2), {}, {}),
     Scenario(2, Pay("offline", {"declined"}, 1), {}, {}),
     Scenario(2, Pay("live", {"succeeded"}, 1), {}, {}),
     Scenario(1, Pay("live", {"declined"}, 1), {"notes"}, {}),
     Scenario(2, Pay("offline", {"succeeded"}, 1), {"notes"}, {}),
     Scenario(2, Pay("offline", {"succeeded"}, 1), {"erp"}, {}),
     Scenario(1, Pay("offline", {"succeeded"}, 1), {}, {1}),
     Scenario(0, Pay("offline", {"succeeded"}, 1), {"notes", "erp"}, {1, 2})}
MCOwner == [h \in {"h1"} |-> 1]
=============================================================================
