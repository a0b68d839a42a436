------------------------------ MODULE MCSupport ------------------------------
(***************************************************************************)
(* Overlapping faults of one kind, simultaneous ones and instantaneous     *)
(* ones; two callers and three cache keys over more than a token's life;   *)
(* five snapshots, four of them in the window of the last; some thousand   *)
(* worlds to validate; four tenants hashed to partitions in every way.     *)
(***************************************************************************)
EXTENDS Support

Ev(type, place, at, dur) == [type |-> type, place |-> place, at |-> at, dur |-> dur]
MCPlans ==
    {<<Ev("net_partition", "np", 2, 1), Ev("net_partition", "np", 1, 2), Ev("kafka_kill", "k", 1, 0)>>,
     <<Ev("ch_slowdown", "ch", 1, 2), Ev("ch_slowdown", "ch", 1, 1), Ev("redis_flush", "r", 0, 0)>>}

Rq(internal, url, svc, tenant, scope) ==
    [internal |-> internal, url |-> url, svc |-> svc, tenant |-> tenant, scope |-> scope]
MCRequests ==
    {Rq(TRUE, "u1", "organization", "t1", ""), Rq(TRUE, "u1", "", "t2", ""),
     Rq(TRUE, "u2", "billing", "t1", "s"), Rq(FALSE, "u1", "organization", "t1", "")}
MCServices == {[svc |-> "organization", url |-> "u1"], [svc |-> "usage", url |-> "u2"],
               [svc |-> "billing", url |-> "u3"], [svc |-> "organization", url |-> "u3"]}
MCRules == {[url |-> "u2", score |-> 1, aud |-> "gateway"], [url |-> "u2", score |-> 2, aud |-> "pricing"]}
MCConfigs == {[mint |-> m, send |-> s] : m, s \in BOOLEAN}

\* A failure rate at its threshold and one beyond; 130 is 30% above a median
\* of 100 and 13% above one of 115.
MCSnaps == {[p99 |-> 100, failed |-> 1, ingested |-> 99], [p99 |-> 130, failed |-> 2, ingested |-> 98]}
-----------------------------------------------------------------------------
(* Worlds to validate: small runs and platforms, right or wrong in one or  *)
(* two respects, each for the checks it is about.                          *)

MCKinds == {"late_event", "future_event", "malformed", "oversize", "stale_key", "wrong_auth"}
NoneSent == [k \in MCKinds |-> 0]
T3 == <<"t1", "t2", "t3">>

Rate(model) ==
    CASE model = "PER_UNIT"       -> [NoRate EXCEPT !.rate = 25, !.min = 40, !.free = 1, !.block = 2]
      [] model = "FLAT_RATE"      -> [NoRate EXCEPT !.flat = 500]
      [] model = "PERCENTAGE"     -> [NoRate EXCEPT !.pct = 3, !.min = 70]
      [] model = "INCLUDED_QUOTA" -> [NoRate EXCEPT !.free = 2, !.rate = 15, !.block = 2]
      [] model = "GRADUATED"      -> [NoRate EXCEPT !.tiers = <<[upTo |-> 2, price |-> 30, flat |-> 20],
                                         [upTo |-> 4, price |-> 15, flat |-> 0], [upTo |-> 0, price |-> 5, flat |-> 0]>>]
      [] model = "VOLUME_TIERED"  -> [NoRate EXCEPT !.tiers = <<[upTo |-> 2, price |-> 30, flat |-> 0],
                                         [upTo |-> 4, price |-> 15, flat |-> 10]>>]
      [] model = "STAIRCASE"      -> [NoRate EXCEPT !.free = 1,
                                         !.bands = <<[from |-> 3, to |-> 0, price |-> 150], [from |-> 0, to |-> 2, price |-> 70]>>]
      [] model = "OUTCOME_BASED"  -> [NoRate EXCEPT !.rate = 20, !.weights = [success |-> 4, failure |-> 1]]

\* A bounded last tier, odd mills, a free allowance without blocks.
MoreRates ==
    {<<"GRADUATED", [NoRate EXCEPT !.tiers = <<[upTo |-> 2, price |-> 7, flat |-> 0], [upTo |-> 4, price |-> 3, flat |-> 5]>>]>>,
     <<"PER_UNIT", [NoRate EXCEPT !.rate = 7, !.min = 15]>>,
     <<"PER_UNIT", [NoRate EXCEPT !.rate = 5, !.min = 4, !.free = 2]>>,
     <<"INCLUDED_QUOTA", [NoRate EXCEPT !.free = 1, !.rate = 3]>>}

Sample(model, r, events, discount, tax, mode, wallet) ==
    [model |-> model, events |-> events, base |-> 1000 * events, agg |-> "COUNT",
     outcomes |-> IF model = "OUTCOME_BASED" THEN ExpectedOutcomes(events, [success |-> 2, failure |-> 1]) ELSE <<>>,
     rate |-> [r EXCEPT !.wallet = wallet], discount |-> discount, tax |-> tax, mode |-> mode]

Terms == {<<[type |-> "", value |-> 0], 0, "POSTPAID", 0>>, <<[type |-> "PERCENTAGE", value |-> 15], 18, "HYBRID", 60>>,
          <<[type |-> "FIXED_AMOUNT", value |-> 45], 7, "PREPAID", 100>>, <<[type |-> "FIXED_AMOUNT", value |-> 1000], 7, "HYBRID", 20>>}

Samples == {Sample(p[1], p[2], n, t[1], t[2], t[3], t[4]) :
               p \in {<<m, Rate(m)>> : m \in Models} \cup MoreRates, n \in 0..7, t \in Terms}
Accepted == {s \in Samples : checkTenants(s.model, s.mode, s.rate, UnitScale)}

MCWorld ==
    [only |-> {"none of them"}, offline |-> FALSE, include |-> TRUE, short |-> FALSE,
     caps |-> {"EventQueries", "CacheMetrics", "BillRuns", "CrossTenantProbe", "Subscriptions"},
     tenants |-> <<"t1", "t2">>, gen |-> [t1 |-> 4, t2 |-> 2], succeeded |-> 6, stored |-> [t1 |-> 4, t2 |-> 2],
     lostMax |-> 0, leaks |-> FALSE, leakMax |-> 0, nulls |-> 0, hits |-> 95, hitMin |-> 90,
     sent |-> NoneSent, handled |-> NoneSent, revoked |-> 0, onRevoked |-> 0, samples |-> {},
     taxes |-> {}, taxEngine |-> "none", taxTolerance |-> 0, payments |-> {}, fxAtIngest |-> FALSE,
     log |-> <<>>, state |-> [s1 |-> "ACTIVE", s2 |-> "PAUSED"],
     customers |-> <<>>, offerings |-> <<>>, plans |-> <<>>, cards |-> <<>>, metrics |-> <<>>, usage |-> <<>>,
     mix |-> <<>>, fallback |-> <<>>, archetype |-> [t1 |-> 1, t2 |-> 1], onlyArchetypes |-> {}, tolerance |-> 0, ceiling |-> 0,
     offers |-> <<1, 2>>, subs |-> <<<<"ACTIVE">>, <<"CANCELLED", "PAUSED">>>>, lockWorks |-> TRUE, partial |-> FALSE]

CountWorlds ==
    {w \in {[MCWorld EXCEPT !.only = {"event_count_per_tenant"}, !.gen = g, !.succeeded = n, !.stored = s,
                     !.lostMax = tol, !.short = b, !.offline = off] :
        g \in {[t1 |-> 4, t2 |-> 2], [t1 |-> 0, t2 |-> 0]}, n \in 0..6,
        s \in [{"t1", "t2"} -> 0..4], tol \in 0..1, b \in BOOLEAN, off \in BOOLEAN} :
        w.succeeded <= w.gen["t1"] + w.gen["t2"]}

PlatformWorlds ==
    {[MCWorld EXCEPT !.only = {"cross_tenant_leakage", "billing_hierarchy_resolution", "cache_hit_ratio"},
                     !.tenants = SubSeq(T3, 1, n), !.leaks = b, !.nulls = z, !.hits = h, !.hitMin = hm, !.caps = c] :
        n \in 1..3, b \in BOOLEAN, z \in 0..1, h \in {80, 90}, hm \in {0, 90}, c \in {MCWorld.caps, {"EventQueries"}}}
    \cup {[MCWorld EXCEPT !.only = {"tax_math", "multi_currency"}, !.taxes = t, !.taxEngine = e, !.payments = p, !.fxAtIngest = b] :
        t \in SUBSET {[ok |-> TRUE, pct |-> 18, cents |-> 1800], [ok |-> TRUE, pct |-> 7, cents |-> 710], [ok |-> FALSE, pct |-> 7, cents |-> 0]},
        p \in SUBSET {[want |-> "", currency |-> "USD"], [want |-> "EUR", currency |-> "EUR"], [want |-> "EUR", currency |-> "USD"]},
        b \in BOOLEAN, e \in {"none", "broken", "built"}}

Sent4(n) == [NoneSent EXCEPT !["late_event"] = n[1], !["malformed"] = n[2], !["stale_key"] = n[3], !["wrong_auth"] = n[4]]
NegativeWorlds ==
    {w \in {[MCWorld EXCEPT !.only = {"negative_path_correctness", "property_based_invariants"},
                 !.sent = Sent4(n), !.handled = Sent4(h), !.revoked = v[1], !.onRevoked = v[2], !.short = b, !.offline = off] :
               n \in {0, 2} \X {0, 2} \X {0, 1} \X {0, 1}, h \in (0..2) \X (0..2) \X (0..1) \X (0..1),
               v \in {<<0, 0>>, <<1, 0>>, <<1, 1>>}, b \in BOOLEAN, off \in BOOLEAN} :
        \A k \in MCKinds : w.handled[k] <= w.sent[k]}

FuzzWorlds == {[MCWorld EXCEPT !.only = {"property_based_invariants"}, !.samples = {s}] : s \in Accepted}

MCRow(sub, kind, status, expected, unstable) ==
    [sub |-> sub, kind |-> kind, status |-> status, expected |-> expected, unstable |-> unstable]
MCLogRows == {MCRow("s1", "PAUSE", "OK", "PAUSED", FALSE), MCRow("s1", "RESUME", "OK", "ACTIVE", FALSE),
              MCRow("s2", "PAUSE", "OK", "PAUSED", FALSE), MCRow("s1", "MIGRATE", "FAIL", "", TRUE),
              MCRow("s1", "RESUME", "PENDING", "", FALSE), MCRow("s2", "MIGRATE", "OK", "", FALSE)}
LogWorlds == {[MCWorld EXCEPT !.only = {"lifecycle_correctness"}, !.log = l, !.state["s1"] = st, !.caps = c] :
                 l \in SeqOf(MCLogRows, 3), st \in {"ACTIVE", "PAUSED"}, c \in {MCWorld.caps, {}}}

MCPlanCards ==
    [p1 |-> [model |-> "PER_UNIT", mode |-> "POSTPAID", rate |-> Rate("PER_UNIT")],
     p2 |-> [model |-> "GRADUATED", mode |-> "HYBRID", rate |-> [Rate("GRADUATED") EXCEPT !.wallet = 40]],
     p3 |-> [model |-> "BARTER", mode |-> "POSTPAID", rate |-> Rate("PER_UNIT")],
     p4 |-> [model |-> "", mode |-> "BARTER", rate |-> Rate("PER_UNIT")]]
MCCustomer(tenant, subs, keys, card) ==
    [tenant |-> tenant, subs |-> subs, keys |-> keys, card |-> card, discount |-> [type |-> "PERCENTAGE", value |-> 10], tax |-> 7]
MCUsage(q1, q2) == [t1 |-> [calls |-> [events |-> 1, quantity |-> q1 * UnitScale, max |-> UnitScale, byStatus |-> <<>>]],
                    t2 |-> [calls |-> [events |-> 1, quantity |-> q2 * UnitScale, max |-> UnitScale, byStatus |-> <<>>]]]
MCFallback == [name |-> "", model |-> "PER_UNIT", mode |-> "POSTPAID", rate |-> Rate("PER_UNIT")]
MCBillWorld ==
    [MCWorld EXCEPT !.only = {"per_archetype_billing_match"}, !.ceiling = 50,
        !.offerings = [o1 |-> [plan |-> "p1", mode |-> ""], o2 |-> [plan |-> "p2", mode |-> "HYBRID"],
                       o3 |-> [plan |-> "p3", mode |-> "POSTPAID"], o4 |-> [plan |-> "p4", mode |-> "BARTER"]],
        !.plans = MCPlanCards, !.metrics = <<[name |-> "calls", agg |-> "SUM"]>>,
        !.cards = <<[plan |-> "p1", overrides |-> <<>>], [plan |-> "p2", overrides |-> <<>>],
                    [plan |-> "p3", overrides |-> <<>>], [plan |-> "p4", overrides |-> <<>>]>>,
        !.fallback = <<MCFallback, [MCFallback EXCEPT !.mode = "PREPAID"]>>]
\* Two customers of one tenant and one of another, in one bucket or in two;
\* tenants of one customer each; plans with an unknown model or mode.
BillWorlds ==
    {[MCBillWorld EXCEPT !.include = b, !.usage = u, !.tolerance = kt[2], !.archetype = [t1 |-> a[1], t2 |-> a[2]],
          !.customers = <<MCCustomer("t1", <<"o1">>, kt[1], "p1"), MCCustomer("t1", <<"gone", "o2", "o1">>, 2, "p2"),
                          MCCustomer("t2", <<"o2">>, 1, "p2")>>] :
        b \in BOOLEAN, kt \in {<<0, 0>>, <<4, 0>>, <<4, 100>>}, u \in {MCUsage(6, 3), MCUsage(6, 0), <<>>}, a \in {<<1, 1>>, <<2, 1>>}}
    \cup {[MCBillWorld EXCEPT !.usage = u, !.archetype = [t1 |-> 2, t2 |-> 1], !.onlyArchetypes = o,
          !.customers = <<MCCustomer("t1", <<s[1]>>, 1, s[2]), MCCustomer("t2", <<"o2">>, 1, "p2")>>] :
        u \in {MCUsage(6, 3), <<>>}, o \in {{}, {1}, {2}}, s \in {<<"o1", "p1">>, <<"o3", "p3">>, <<"o4", "p4">>}}

RaceWorlds ==
    {[MCWorld EXCEPT !.only = {"bill_run_concurrency", "bill_run_vs_lifecycle"}, !.lockWorks = b, !.offers = o] :
        b \in BOOLEAN, o \in {<<1, 1>>, <<1, 2>>, <<2, 2>>}}
    \cup {[MCWorld EXCEPT !.only = {"bill_run_concurrency", "bill_run_vs_lifecycle"}, !.lockWorks = b, !.partial = TRUE] : b \in BOOLEAN}

MCDeltas == {-500, 0, 4, 10}

MCWorlds == CountWorlds \cup PlatformWorlds \cup NegativeWorlds \cup FuzzWorlds \cup LogWorlds \cup BillWorlds \cup RaceWorlds
            \cup {MCWorld, [MCWorld EXCEPT !.only = {}, !.offline = TRUE, !.include = FALSE],
                  [MCWorld EXCEPT !.only = {"property_based_invariants"}, !.caps = {}, !.revoked = 1, !.onRevoked = 1]}
-----------------------------------------------------------------------------
(* Runs to start: every way the hashes can fall for four tenants, and the  *)
(* events of three tenants of which one has no ingest key and one no live  *)
(* subscription, with all faults or without stale keys, on every kind of   *)
(* path.                                                                   *)

Metric(name, field, agg) == [name |-> name, field |-> field, agg |-> agg]
MCKey(secret, revoked) == [secret |-> secret, revoked |-> revoked]
MCSub(id, customer, stale, keys) == [id |-> id, customer |-> customer, stale |-> stale, keys |-> keys]
MCTenant(id, ext, ingest, products, subs) == [id |-> id, ext |-> ext, ingest |-> ingest, products |-> products, subs |-> subs]

ApiProduct == [type |-> "API", metrics |-> <<Metric("calls", "", "COUNT"), Metric("bytes", "size", "SUM")>>]
McpProduct == [type |-> "MCP_SERVER", metrics |-> <<Metric("tools", "", "COUNT")>>]
AgentProduct == [type |-> "AI_AGENT", metrics |-> <<Metric("tokens", "absent", "MAX"), Metric("", "", "")>>]

Three ==
    <<MCTenant("t1", 2, "i1", <<ApiProduct>>,
               <<MCSub(5, "c1", FALSE, <<MCKey("k1", FALSE)>>), MCSub(4, "c2", TRUE, <<MCKey("k2", TRUE), MCKey("k3", FALSE)>>)>>),
      MCTenant("t2", 3, "", <<AgentProduct, [type |-> "MCP_SERVER", metrics |-> <<>>]>>,
               <<MCSub(1, "c3", TRUE, <<MCKey("k4", TRUE)>>), MCSub(2, "c3", FALSE, <<MCKey("k5", FALSE)>>)>>),
      MCTenant("t3", 1, "i3", <<ApiProduct, AgentProduct>>, <<MCSub(3, "c4", TRUE, <<MCKey("k6", TRUE), MCKey("k7", TRUE)>>)>>)>>
Four == [i \in 1..4 |-> MCTenant(<<"a", "b", "c", "d">>[i], (i * 3) % 5, "i", <<ApiProduct>>, <<MCSub(i, "c", FALSE, <<MCKey("k", FALSE)>>)>>)]

Mixed ==
    <<MCTenant("t1", 1, "i1", <<ApiProduct, AgentProduct, McpProduct>>,
               <<MCSub(5, "c1", FALSE, <<MCKey("k1", FALSE)>>), MCSub(4, "c2", TRUE, <<MCKey("k2", TRUE)>>)>>),
      MCTenant("t2", 2, "i2", <<AgentProduct>>, <<MCSub(2, "c3", FALSE, <<MCKey("k5", FALSE)>>)>>)>>
NoFaults == [k \in Range(NegativeKinds) |-> 0]
AllFaults == [k \in Range(NegativeKinds) |-> 1]
Traffics(shares, tps) ==
    [shares |-> shares, tps |-> tps, mix |-> [API |-> 2, AI_AGENT |-> 1, MCP_SERVER |-> 0, AGENTIC_API |-> 0],
     paths |-> [rest_direct |-> 1, rest_batch |-> 0]]
OnPaths(sc, paths) ==
    [sc EXCEPT !.mix = [API |-> 1, AI_AGENT |-> 1, MCP_SERVER |-> 1, AGENTIC_API |-> 0], !.paths = [p \in paths |-> 1]]
Job(m, hash, n, sc, ack, events) ==
    [manifest |-> m, hash |-> hash, partitions |-> n, scenario |-> sc, sources |-> {"t1"}, ack |-> ack, local |-> TRUE,
     hours |-> 1, events |-> events]

MCJobs ==
    {Job(Four, h, n, Traffics(NoFaults, 3), FALSE, 0) : h \in [{"a", "b", "c", "d"} -> 0..3], n \in 1..5}
    \cup {Job(Three, [t1 |-> 0, t2 |-> h, t3 |-> 0], n, Traffics(sh, 10), FALSE, 1) :
        h \in 0..1, n \in 1..2, sh \in {AllFaults, [AllFaults EXCEPT !["stale_key"] = 0]}}
    \cup {Job(Three, [t1 |-> 0, t2 |-> 1, t3 |-> 1], 2, Traffics([NoFaults EXCEPT ![k] = 50], 10), FALSE, 2) :
        k \in {"stale_key", "wrong_auth"}}
    \cup {Job(Mixed, [t1 |-> 0, t2 |-> 0], 1, OnPaths(Traffics(AllFaults, 10), paths), FALSE, 1) :
        paths \in {{"webhook_receiver", "rest_batch", "csv_upload"}, {"ai_agent_rest", "ai_agent_wire", "mcp_jsonrpc"}}}
    \cup {Job(Mixed, [t1 |-> 0, t2 |-> 1], 2, OnPaths(Traffics([NoFaults EXCEPT !["wrong_auth"] = 100], 10), paths), FALSE, 2) :
        paths \in {{"webhook_receiver", "csv_upload"}}}
    \cup {Job(Three, [t1 |-> 0, t2 |-> 1, t3 |-> 0], 2, Traffics([NoFaults EXCEPT !["late_event"] = 100], 1001), ack, 2) :
        ack \in BOOLEAN}
MCBodies == {[fields |-> [size |-> 3], status |-> "SUCCESS"], [fields |-> [size |-> 0], status |-> "FAILURE"]}
=============================================================================
