----------------------------- MODULE MCEndToEnd -----------------------------
(* Instances of the seed and e2e commands for TLC. *)
EXTENDS EndToEnd

\* A postpaid tenant with a customer that ends CANCELLED.
Postpaid ==
    [catalog |-> FALSE, reuse |-> FALSE, mode |-> "POSTPAID", ingest |-> TRUE,
     products |-> 1, cards |-> 1,
     customers |-> <<[mode |-> "POSTPAID", state |-> "CANCELLED", card |-> 1]>>]

\* A small prepaid one; its customer stays in trial and gets no key.
Prepaid ==
    [catalog |-> FALSE, reuse |-> FALSE, mode |-> "PREPAID", ingest |-> TRUE,
     products |-> 1, cards |-> 1,
     customers |-> <<[mode |-> "PREPAID", state |-> "TRIALING", card |-> 1]>>]

\* The operator's own tenant, with two cards and customers of other states.
Reused ==
    [catalog |-> FALSE, reuse |-> TRUE, mode |-> "HYBRID", ingest |-> FALSE,
     products |-> 1, cards |-> 2,
     customers |-> <<[mode |-> "HYBRID", state |-> "EXPIRED", card |-> 1],
                     [mode |-> "PREPAID", state |-> "PAUSED", card |-> 2]>>]

\* A catalog: one customer with two subscriptions and one wallet.
Catalog ==
    [catalog |-> TRUE, reuse |-> TRUE, mode |-> "HYBRID", ingest |-> FALSE,
     products |-> 1, cards |-> 2, people |-> 1,
     subs |-> <<[customer |-> 1, card |-> 1, mode |-> "PREPAID", state |-> "ACTIVE"],
                [customer |-> 1, card |-> 2, mode |-> "HYBRID", state |-> "CANCELLED"]>>]

\* Five tenants of one archetype: one more than errCh holds.
MCRosters == {<<Postpaid, Prepaid>>, <<Reused>>, <<Catalog>>,
              <<Postpaid, Postpaid, Postpaid, Postpaid, Postpaid>>}

\* The five fail by the signal alone.
MCMaxFaults == [r \in MCRosters |-> IF Len(r) = 5 THEN 0 ELSE 2]

MCFlags == {[doctor |-> TRUE, lifecycle |-> TRUE, keep |-> FALSE],
            [doctor |-> FALSE, lifecycle |-> FALSE, keep |-> TRUE],
            [doctor |-> FALSE, lifecycle |-> FALSE, keep |-> FALSE]}
=============================================================================
