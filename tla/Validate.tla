------------------------------ MODULE Validate ------------------------------
(***************************************************************************)
(* The validator of internal/validate: the checks that judge a run by what *)
(* was sent, what was seeded and what the platform answers.  The checks    *)
(* over transitions, payments, credit notes, wallets and the ERP belong to *)
(* the modules of those parts.  A world is a run, the platform after it,   *)
(* and a call of the command; checks that make one query are one step, the *)
(* loop over customers, the loop over transitions and the races of the     *)
(* bill runs are taken call by call.                                       *)
(***************************************************************************)
EXTENDS Billing

CONSTANTS
    Worlds,     \* the worlds to validate
    MaxProbes,  \* cross-tenant probes (10 in the code)
    Deltas      \* mills by which a bill run may miss

Total(f) == SumFunction(f)

\* Negative paths: sent is what was planned, handled what the platform did
\* as the kind expects (late events are accepted, the others rejected).
RejectedKinds == <<"future_event", "malformed", "oversize", "stale_key", "wrong_auth">>

\* A transition log names subscriptions the platform knows of, no tenant is
\* seeded twice, and no more is accepted, or handled, than was sent.
ASSUME WorldAssumption ==
    /\ Worlds # {} /\ MaxProbes \in Nat \ {0}
    /\ \A w \in Worlds :
          /\ Len(w.log) \in Nat
          /\ \A i \in 1..Len(w.log) : w.log[i].sub \in DOMAIN w.state
          /\ w.tenants \in Seq(Range(w.tenants)) /\ IsInjective(w.tenants)
          /\ IsFiniteSet(DOMAIN w.gen) /\ w.gen \in [DOMAIN w.gen -> Nat] /\ w.stored \in [DOMAIN w.gen -> Nat]
          /\ w.succeeded \in 0..Total(w.gen) /\ w.lostMax \in Nat
          /\ w.hits \in Nat /\ w.hitMin \in Nat
          /\ w.sent \in [Range(RejectedKinds) \cup {"late_event"} -> Nat]
          /\ w.handled \in [DOMAIN w.sent -> Nat] /\ \A k \in DOMAIN w.sent : w.handled[k] <= w.sent[k]

VARIABLES
    world,      \* Inputs, and the platform it asks
    vctx,       \* the context of the command: live or done
    pos,        \* the check that is next or under way
    stage,      \* between checks ("next") or inside one ("in")
    verdicts,   \* report.Checks; answer is what the backend said, for the properties
    rollup,    \* report.Summary
    scan,       \* check 9: where the loop is and what it knows
    bills,      \* check 5: [expected, actual] of the customers done
    fires,      \* checks 8 and 11: the three concurrent calls
    lock,       \* the platform: tenants with a bill run under way
    begun,      \* history: bill runs the current race has started
    moved       \* history: what the migrate of check 11 did

validateVars == <<world, vctx, pos, stage, verdicts, rollup, scan, bills, fires, lock, begun, moved>>

AllChecks == <<"event_count_per_tenant", "cross_tenant_leakage", "billing_hierarchy_resolution",
               "cache_hit_ratio", "per_archetype_billing_match", "negative_path_correctness",
               "property_based_invariants", "bill_run_concurrency", "lifecycle_correctness",
               "bill_run_vs_lifecycle", "tax_math", "multi_currency">>

wantedChecks(only) == IF only = {} THEN Range(AllChecks) ELSE only

Wanted(i) == AllChecks[i] \in wantedChecks(world.only)

\* The first check asked for from the i-th on; past the list if there is none.
NextCheck(i) == Min({j \in i..Len(AllChecks) : Wanted(j)} \cup {Len(AllChecks) + 1})

Done == pos > Len(AllChecks)
Check == AllChecks[pos]
AtCheck(name) == ~Done /\ Check = name

NoSummary == [overall |-> "none", exit |-> 0]
Calls == {"A", "B", "migrate"}
NoScan == [i |-> 1, live |-> FALSE, known |-> <<>>, ok |-> TRUE, n |-> 0]

-----------------------------------------------------------------------------
(* The backend.                                                            *)

Capabilities == IF world.offline THEN {"EventQueries"} ELSE world.caps
Can(cap) == cap \in Capabilities

\* A live backend may fail or lack an operation; the offline one answers
\* EventCountByTenant and nothing else.
Answers(op) == IF ~world.offline THEN {"ok", "error", "unsupported"}
               ELSE IF op = "EventCountByTenant" THEN {"ok"} ELSE {"unsupported"}

\* Offline the counts are those of the events generated.
EventCountByTenant == IF world.offline THEN world.gen ELSE world.stored

Judge(cap, answer, ok) ==
    IF ~Can(cap) \/ answer = "unsupported" THEN "SKIP"
    ELSE IF answer = "ok" /\ ok THEN "PASS" ELSE "FAIL"

-----------------------------------------------------------------------------
(* Checks of one query.                                                    *)

\* int64(a * (b / c)) in floating point: a product that is whole may come out
\* one short.
Truncated(a, b, c) ==
    LET q == (a * b) \div c IN
    IF world.short /\ q > 0 /\ (a * b) % c = 0 /\ b % c # 0 THEN q - 1 ELSE q

expectedStoredByTenant ==
    [t \in DOMAIN world.gen |->
        IF Total(world.gen) = 0 THEN 0 ELSE Truncated(world.gen[t], world.succeeded, Total(world.gen))]

runEventCount(answer) ==
    Judge("EventQueries", answer,
          \A t \in DOMAIN world.gen :
             expectedStoredByTenant[t] - EventCountByTenant[t] \in -world.lostMax..world.lostMax)

\* Each of the first tenants, read with the header of its neighbour.
buildCrossTenantProbes(tenants) ==
    {<<tenants[i], tenants[(i % Len(tenants)) + 1]>> : i \in 1..Least(MaxProbes, Len(tenants))}

\* A platform that leaks shows one row to every other tenant.
LeakedRows(probe) == IF world.leaks /\ probe[1] # probe[2] THEN 1 ELSE 0

runCrossTenantLeakage(answer) ==
    IF Can("CrossTenantProbe") /\ Len(world.tenants) < 2 THEN "SKIP"
    ELSE Judge("CrossTenantProbe", answer,
               Total([p \in buildCrossTenantProbes(world.tenants) |-> LeakedRows(p)]) <= world.leakMax)

runBillingHierarchy(answer) == Judge("EventQueries", answer, world.nulls = 0)

runCacheHitRatio(answer) ==
    Judge("CacheMetrics", answer, world.hitMin = 0 \/ world.hits >= world.hitMin)

\* driver.Pool counts every expected answer, the 2xx of a late event too.
IsExpectedFailure(kind) == world.handled[kind]
ExpectedFailures == Total([k \in DOMAIN world.sent |-> IsExpectedFailure(k)])

expectedRejectTotal == Total([k \in Range(RejectedKinds) |-> world.sent[k]])

\* Mutant of splitProportional: every kind is given the whole total.
splitProportionalWhole(total) == [k \in Range(RejectedKinds) |-> total]

\* By name, in proportion to what was planned and no more than the names
\* before it leave; the last name takes the rest.
splitProportional(total) ==
    LET Planned(i) == world.sent[RejectedKinds[i]]
        Part(i) == Truncated(total, Planned(i), expectedRejectTotal)
        Left(i) == Most(total - Total([j \in 1..i - 1 |-> Part(j)]), 0)
        Share(i) == IF Planned(i) = 0 THEN 0
                    ELSE IF i = Len(RejectedKinds) THEN Left(i) ELSE Least(Left(i), Part(i))
    IN  [k \in Range(RejectedKinds) |->
            IF total = 0 \/ expectedRejectTotal = 0 THEN 0
            ELSE Share(CHOOSE i \in 1..Len(RejectedKinds) : RejectedKinds[i] = k)]

\* No revoked key, no query; a query that fails finds nothing.
staleKeyFalsePositives(answer) ==
    IF world.revoked > 0 /\ answer = "ok" THEN world.onRevoked ELSE 0

runNegativePathCorrectness(answer) ==
    LET got == splitProportional(ExpectedFailures) IN
    IF /\ \A k \in Range(RejectedKinds) : got[k] >= world.sent[k]
       /\ world.sent["stale_key"] > 0 => staleKeyFalsePositives(answer) = 0
    THEN "PASS" ELSE "FAIL"

\* The fuzzer over the shadow biller, with the result of the probe.
runInvariants(answer) ==
    IF /\ Can("EventQueries") => staleKeyFalsePositives(answer) = 0
       /\ \A s \in world.samples : checkInvariants(s, Calculate(s))
    THEN "PASS" ELSE "FAIL"

\* The engine's tax on 100 dollars against the configured rate, in cents.
MultiplyAndRound(subtotal, pct) == (subtotal * pct) \div 100

\* No jurisdiction, an engine that cannot be built, or one row of each currency
\* whose jurisdiction has a rate.
runTaxMath ==
    LET tol == IF world.taxTolerance > 0 THEN world.taxTolerance ELSE 1
        wrong == {r \in world.taxes : ~r.ok \/ r.cents - MultiplyAndRound(10000, r.pct) \notin -tol..tol}
    IN  IF world.taxEngine = "none" THEN "SKIP"
        ELSE IF world.taxEngine = "broken" \/ wrong # {} THEN "FAIL"
        ELSE IF world.taxes = {} THEN "SKIP" ELSE "PASS"

\* A payment in the customer's currency is never converted and never counted.
runMultiCurrency ==
    LET wrong == {p \in world.payments : p.want # "" /\ p.currency # p.want} IN
    IF world.fxAtIngest \/ wrong # {} THEN "FAIL" ELSE "SKIP"

Verdict(name, answer) ==
    CASE name = "event_count_per_tenant"       -> runEventCount(answer)
      [] name = "cross_tenant_leakage"         -> runCrossTenantLeakage(answer)
      [] name = "billing_hierarchy_resolution" -> runBillingHierarchy(answer)
      [] name = "cache_hit_ratio"              -> runCacheHitRatio(answer)
      [] name = "negative_path_correctness"    -> runNegativePathCorrectness(answer)
      [] name = "property_based_invariants"    -> runInvariants(answer)
      [] name = "tax_math"                     -> runTaxMath
      [] name = "multi_currency"               -> runMultiCurrency

OneQuery == {"event_count_per_tenant", "cross_tenant_leakage", "billing_hierarchy_resolution",
             "cache_hit_ratio", "negative_path_correctness", "property_based_invariants",
             "tax_math", "multi_currency"}

Query(name) == IF name = "event_count_per_tenant" THEN "EventCountByTenant" ELSE "other"

-----------------------------------------------------------------------------
(* Check 5: what a customer should be charged.                             *)

\* The tenants of an archetype are one bucket, named by the first of them; an
\* archetype's name is a number here, so that names can be sorted.
groupByArchetype(a) ==
    [tenantID  |-> SelectSeq(world.tenants, LAMBDA t : world.archetype[t] = a)[1],
     customers |-> SelectSeq(world.customers, LAMBDA c : world.archetype[c.tenant] = a)]

Bucket(c) == groupByArchetype(world.archetype[c.tenant])

ArchetypeMatches(a) == world.onlyArchetypes = {} \/ a \in world.onlyArchetypes

\* The customers in the order of the two loops.
Billed ==
    LET names == SelectSeq(SetToSortSeq({world.archetype[t] : t \in Range(world.tenants)}, <), ArchetypeMatches)
    IN  FoldLeft(LAMBDA acc, a : acc \o groupByArchetype(a).customers, <<>>, names)

\* The first subscription whose offering and rate plan are both known, with the
\* archetype's mode and model where they have none; the plan of the archetype's
\* first tenant if there is none.
planFor(c) ==
    LET known == {i \in 1..Len(c.subs) :
                    c.subs[i] \in DOMAIN world.offerings
                    /\ world.offerings[c.subs[i]].plan \in DOMAIN world.plans}
        off == world.offerings[c.subs[CHOOSE i \in known : \A j \in known : i <= j]]
        own == world.fallback[world.archetype[c.tenant]]
        model == world.plans[off.plan].model
    IN  IF known = {} THEN own
        ELSE [name |-> off.plan, rate |-> world.plans[off.plan].rate,
              mode |-> IF off.mode = "" THEN own.mode ELSE off.mode,
              model |-> IF model = "" THEN own.model ELSE model]

\* The index of the rate card a plan was seeded from, if it can be told.
resolveCard(name) ==
    LET hit == {i \in 1..Len(world.cards) : name # "" /\ world.cards[i].plan = name} IN
    IF hit # {} THEN hit
    ELSE IF world.cards # <<>> /\ (name = "" \/ Len(world.cards) = 1) THEN {1} ELSE {}

NoRate == [flat |-> 0, rate |-> 0, pct |-> 0, min |-> 0, free |-> 0, block |-> 0, cb |-> 0,
           tiers |-> <<>>, bands |-> <<>>, weights |-> <<>>, wallet |-> 0]

overridePricing(o) == IF o.model = "FLAT_RATE" THEN [model |-> "PER_UNIT", rate |-> NoRate] ELSE o

\* The flat fee is on the first metric without an override; outcomes weigh
\* sums and counts only.
ResolveMetricPricing(plan, overrides) ==
    LET ms == world.metrics
        own == {i \in 1..Len(ms) : ms[i].name \notin DOMAIN overrides}
        Own(i) ==
            IF plan.model = "FLAT_RATE" /\ \E j \in own : j < i THEN [model |-> "PER_UNIT", rate |-> NoRate]
            ELSE IF plan.model # "OUTCOME_BASED" THEN [model |-> plan.model, rate |-> [plan.rate EXCEPT !.weights = <<>>]]
            ELSE IF ms[i].agg \in {"", "SUM", "COUNT"} THEN [model |-> plan.model, rate |-> plan.rate]
            ELSE [model |-> "PER_UNIT", rate |-> [plan.rate EXCEPT !.weights = <<>>]]
    IN  [i \in 1..Len(ms) |-> IF i \in own THEN Own(i) ELSE overridePricing(overrides[ms[i].name])]

\* The keys the generator can pick: not revoked, on a live subscription.
usableKeys(c) == c.keys

OfTenant(t) == {i \in 1..Len(world.customers) : world.customers[i].tenant = t}
totalWeight(t) == SumOver(OfTenant(t), LAMBDA i : usableKeys(world.customers[i]))

\* A customer's part of its tenant's usage, to the micro-unit.
share(c, x) == IF usableKeys(c) = 0 THEN 0 ELSE RoundToEven(x * usableKeys(c), totalWeight(c.tenant))

UnitsOf(c, m, u) ==
    LET events == share(c, UnitScale * u.events) IN
    CASE m.agg \in {"", "SUM"} -> share(c, u.quantity)
      [] m.agg = "AVG" -> IF events > 0 THEN RoundToEven(u.quantity, u.events) ELSE 0
      [] m.agg = "MAX" -> IF events > 0 THEN u.max ELSE 0
      [] OTHER -> events

outcomeRows(c, u, units) ==
    IF DOMAIN u.byStatus # {} THEN [s \in DOMAIN u.byStatus |-> share(c, u.byStatus[s])]
    ELSE LET mix == ExpectedOutcomes(1, world.mix) IN
         [s \in DOMAIN mix |-> (mix[s] * units) \div UnitScale]

chargeBase(r) == IF r.cb > 0 THEN r.cb ELSE 1000

PerMetric(c) == world.usage # <<>> /\ world.metrics # <<>> /\ resolveCard(planFor(c).name) # {}

perMetricInputs(c) ==
    LET plan == planFor(c)
        card == world.cards[CHOOSE i \in resolveCard(plan.name) : TRUE]
        pricing == ResolveMetricPricing(plan, card.overrides)
        Input(i) ==
            LET u == world.usage[c.tenant][world.metrics[i].name]
                units == UnitsOf(c, world.metrics[i], u)
            IN  [model |-> pricing[i].model, rate |-> pricing[i].rate, units |-> units,
                 agg |-> world.metrics[i].agg, base |-> (units * chargeBase(plan.rate)) \div UnitScale,
                 outcomes |-> IF pricing[i].model = "OUTCOME_BASED" /\ units > 0
                              THEN outcomeRows(c, u, units) ELSE <<>>]
    IN  [i \in 1..Len(world.metrics) |-> Input(i)]

\* The first tenant's events over the customers of all of the bucket.
eventsPerCustomerEstimate(bucket) == world.gen[bucket.tenantID] \div Len(bucket.customers)

computeExpected(c) ==
    LET plan == planFor(c)
        events == eventsPerCustomerEstimate(Bucket(c))
    IN  Calculate([model |-> plan.model, events |-> events, base |-> events * chargeBase(plan.rate),
                   outcomes |-> IF plan.model = "OUTCOME_BASED" THEN ExpectedOutcomes(events, world.mix) ELSE <<>>,
                   agg |-> "COUNT", rate |-> plan.rate, discount |-> c.discount, tax |-> c.tax,
                   mode |-> plan.mode])

expectedFor(c) ==
    IF PerMetric(c)
    THEN CalculateMetrics(perMetricInputs(c), c.discount, c.tax, planFor(c).mode, planFor(c).rate.wallet)
    ELSE computeExpected(c)

\* ErrInvalidConfig: a model the shadow biller does not know.
InvalidConfig(c) ==
    IF PerMetric(c) THEN \E i \in 1..Len(world.metrics) : perMetricInputs(c)[i].model \notin Models
    ELSE planFor(c).model \notin Models

\* In thousandths: the flag, or the scenario's ceiling where it is stricter.
tolerance == LET flag == IF world.tolerance > 0 THEN world.tolerance ELSE 1
             IN  IF world.ceiling > 0 THEN Least(flag, world.ceiling) ELSE flag

Gap(a, b) == Most(a - b, b - a)

relativeDriftWithin(expected, actual, tol) ==
    IF expected = 0 THEN actual = 0 ELSE 1000 * Gap(expected, actual) <= tol * expected

\* To less than a cent (ten mills).
modeMatches(mode, e, a) ==
    CASE mode = "POSTPAID" -> a.wallet < 10 /\ Gap(a.invoice, e.total) < 10
      [] mode = "PREPAID"  -> Gap(a.wallet, e.total) < 10 /\ a.invoice < 10
      [] mode = "HYBRID"   -> Gap(a.wallet + a.invoice, e.total) < 10
      [] OTHER             -> FALSE

Matches(c, bill) ==
    /\ relativeDriftWithin(bill.expected.total, bill.actual.wallet + bill.actual.invoice, tolerance)
    /\ modeMatches(planFor(c).mode, bill.expected, bill.actual)

NoBill == [invoice |-> -1, wallet |-> -1]

\* What the platform charges some customers of a tenant.
Charged(who, side) == SumOver({i \in who : ~InvalidConfig(world.customers[i])},
                              LAMBDA i : expectedFor(world.customers[i])[side])

\* A bill run is of a tenant, and so is its result: the sum over the customers
\* it billed, all of them or those an earlier run left.  It may miss by a delta
\* or book the wrong side.  One that cannot be triggered, or does not end,
\* charges nothing the validator sees.
runOneBillRun(tenantID) ==
    {NoBill} \cup
    (IF vctx = "done" THEN {}
     ELSE UNION {{[invoice |-> Charged(who, "total"), wallet |-> 0], [invoice |-> 0, wallet |-> Charged(who, "total")]}
                 \cup {[invoice |-> Most(Charged(who, "invoice") + d, 0), wallet |-> Charged(who, "wallet")] : d \in Deltas}
                    : who \in SUBSET OfTenant(tenantID)})

-----------------------------------------------------------------------------
(* The loop over the checks.                                               *)

Report(status, answer) ==
    /\ verdicts' = Append(verdicts, [name |-> Check, status |-> status, answer |-> answer])
    /\ pos' = NextCheck(pos + 1)
    /\ stage' = "next"

ValidateInit(worlds) ==
    /\ world \in worlds
    /\ vctx = "live" /\ pos = NextCheck(1) /\ stage = "next"
    /\ verdicts = <<>> /\ rollup = NoSummary
    /\ scan = NoScan /\ bills = <<>>
    /\ fires = [x \in Calls |-> "idle"]
    /\ lock = {} /\ begun = 0 /\ moved = "no"

Cancel == /\ vctx = "live" /\ rollup = NoSummary
          /\ vctx' = "done"
          /\ UNCHANGED <<world, pos, stage, verdicts, rollup, scan, bills, fires, lock, begun, moved>>

\* A cancelled command still reports every check that is left.
SkipCheck ==
    /\ stage = "next" /\ ~Done /\ vctx = "done"
    /\ Report("SKIP", "cancelled")
    /\ UNCHANGED <<world, vctx, rollup, scan, bills, fires, lock, begun, moved>>

dispatch ==
    /\ stage = "next" /\ ~Done /\ vctx = "live"
    /\ Check \in OneQuery
    /\ \E a \in Answers(Query(Check)) : Report(Verdict(Check, a), a)
    /\ UNCHANGED <<world, vctx, rollup, scan, bills, fires, lock, begun, moved>>

\* Check 5.
BillingDisabled == ~world.include \/ ~Can("BillRuns")

BillingMatchStart ==
    /\ stage = "next" /\ vctx = "live" /\ AtCheck("per_archetype_billing_match")
    /\ IF BillingDisabled THEN Report("SKIP", "none") ELSE stage' = "in" /\ UNCHANGED <<pos, verdicts>>
    /\ UNCHANGED <<world, vctx, rollup, scan, bills, fires, lock, begun, moved>>

\* Every customer has a run of its own, of the tenant its bucket is named by.
BillOneCustomer ==
    /\ stage = "in" /\ Len(bills) < Len(Billed) /\ AtCheck("per_archetype_billing_match")
    /\ LET c == Billed[Len(bills) + 1] IN
       IF InvalidConfig(c) THEN bills' = Append(bills, [expected |-> NoBill, actual |-> NoBill])
       ELSE \E a \in runOneBillRun(Bucket(c).tenantID) :
               bills' = Append(bills, [expected |-> expectedFor(c), actual |-> a])
    /\ UNCHANGED <<world, vctx, pos, stage, verdicts, rollup, scan, fires, lock, begun, moved>>

\* A customer that cannot be priced, or whose bill run failed, leaves its
\* archetype unmatched but not the check.
runBillingMatch ==
    /\ stage = "in" /\ Len(bills) = Len(Billed) /\ AtCheck("per_archetype_billing_match")
    /\ Report(IF \A i \in 1..Len(bills) : bills[i].actual = NoBill \/ Matches(Billed[i], bills[i])
              THEN "PASS" ELSE "FAIL", "none")
    /\ UNCHANGED <<world, vctx, rollup, scan, bills, fires, lock, begun, moved>>

\* Check 9.
LifecycleStart ==
    /\ stage = "next" /\ vctx = "live" /\ AtCheck("lifecycle_correctness")
    /\ IF world.log = <<>> THEN Report("SKIP", "none") /\ UNCHANGED scan
       ELSE /\ stage' = "in"
            /\ scan' = [NoScan EXCEPT !.live = Can("Subscriptions"), !.known = [s \in DOMAIN world.state |-> ""]]
            /\ UNCHANGED <<pos, verdicts>>
    /\ UNCHANGED <<world, vctx, rollup, bills, fires, lock, begun, moved>>

\* A subscription last seen in the expected state is not asked for again.
Asked(row) == /\ scan.live /\ row.status = "OK" /\ row.expected # ""
              /\ scan.known[row.sub] # row.expected

Unstable(row) == row.kind = "MIGRATE" /\ row.status = "FAIL" /\ row.unstable

ScanRow ==
    /\ stage = "in" /\ scan.i <= Len(world.log) /\ AtCheck("lifecycle_correctness")
    /\ LET row == world.log[scan.i]
           next == [scan EXCEPT !.i = @ + 1]
           counted == [next EXCEPT !.n = @ + 1, !.ok = @ /\ ~Unstable(row)]
       IN  IF row.status = "PENDING" THEN scan' = next
           ELSE IF ~Asked(row) THEN scan' = counted
           ELSE \E a \in IF vctx = "done" THEN {"error"} ELSE Answers("other") :
                scan' = CASE a = "unsupported" -> [counted EXCEPT !.live = FALSE]
                          [] a = "error"       -> [counted EXCEPT !.ok = FALSE]
                          [] a = "ok"          -> [counted EXCEPT !.known[row.sub] = world.state[row.sub],
                                                                  !.ok = @ /\ world.state[row.sub] = row.expected]
    /\ UNCHANGED <<world, vctx, pos, stage, verdicts, rollup, bills, fires, lock, begun, moved>>

runLifecycleCorrectness ==
    /\ stage = "in" /\ scan.i > Len(world.log) /\ AtCheck("lifecycle_correctness")
    /\ Report(IF ~scan.ok THEN "FAIL" ELSE IF scan.n = 0 THEN "SKIP" ELSE "PASS",
              IF scan.live THEN "ok" ELSE "unsupported")
    /\ UNCHANGED <<world, vctx, rollup, scan, bills, fires, lock, begun, moved>>

-----------------------------------------------------------------------------
(* Checks 8 and 11: two bill runs at once, and a migrate.                  *)

Races == {"bill_run_concurrency", "bill_run_vs_lifecycle"}
AtRace == ~Done /\ Check \in Races

isTerminalState(s) == s \in {"CANCELLED", "EXPIRED"}

\* The first tenant with two offerings and a subscription that can migrate.
pickEligibleSub ==
    {i \in 1..Len(world.tenants) :
        /\ world.offers[i] >= 2 /\ \E j \in 1..Len(world.subs[i]) : ~isTerminalState(world.subs[i][j])
        /\ \A k \in 1..i - 1 : world.offers[k] < 2 \/ \A j \in 1..Len(world.subs[k]) : isTerminalState(world.subs[k][j])}

RaceTenant == IF Check = "bill_run_concurrency" THEN 1 ELSE CHOOSE i \in pickEligibleSub : TRUE

RaceSkipped ==
    \/ BillingDisabled \/ world.tenants = <<>>
    \/ Check = "bill_run_vs_lifecycle" /\ (~Can("Subscriptions") \/ pickEligibleSub = {})

RaceStart ==
    /\ stage = "next" /\ vctx = "live" /\ AtRace
    /\ IF RaceSkipped THEN Report("SKIP", "none") /\ UNCHANGED fires
       ELSE /\ stage' = "in" /\ UNCHANGED <<pos, verdicts>>
            /\ fires' = [x \in Calls |-> IF x = "migrate" /\ Check = "bill_run_concurrency" THEN "idle" ELSE "sent"]
    /\ begun' = 0 /\ moved' = "no"
    /\ UNCHANGED <<world, vctx, rollup, scan, bills, lock>>

\* RedisLockService: one bill run of a tenant at a time, if the lock works.
TriggerBillRun(x) ==
    /\ stage = "in" /\ x \in {"A", "B"} /\ fires[x] = "sent" /\ AtRace
    /\ IF world.lockWorks /\ RaceTenant \in lock
       THEN fires' = [fires EXCEPT ![x] = "refused"] /\ UNCHANGED <<lock, begun>>
       ELSE /\ fires' = [fires EXCEPT ![x] = "accepted"]
            /\ lock' = lock \cup {RaceTenant} /\ begun' = begun + 1
    /\ UNCHANGED <<world, vctx, pos, stage, verdicts, rollup, scan, bills, moved>>

\* In place, under a new id, or refused.
MigrateSubscription ==
    /\ stage = "in" /\ fires["migrate"] = "sent" /\ AtRace
    /\ \E m \in {"stable", "new id", "no"} :
          /\ moved' = m
          /\ fires' = [fires EXCEPT !["migrate"] = IF m = "no" THEN "refused" ELSE "accepted"]
    /\ UNCHANGED <<world, vctx, pos, stage, verdicts, rollup, scan, bills, lock, begun>>

\* The answer; or an error instead, before or after the platform acted, whose
\* text (a URL, a proxy's body) may read like a conflict.
CallReturns(x) ==
    /\ stage = "in" /\ fires[x] \in {"sent", "accepted", "refused"} /\ AtRace
    /\ \E a \in {"error", "lookalike"} \cup (CASE fires[x] = "sent"     -> IF world.partial THEN {"unsupported"} ELSE {}
                                  [] fires[x] = "accepted" -> IF vctx = "live" THEN {"ok"} ELSE {}
                                  [] fires[x] = "refused"  -> IF vctx = "live" THEN {"conflict"} ELSE {}) :
          fires' = [fires EXCEPT ![x] = a]
    /\ UNCHANGED <<world, vctx, pos, stage, verdicts, rollup, scan, bills, lock, begun, moved>>

BillRunEnds(t) ==
    /\ t \in lock /\ rollup = NoSummary
    /\ lock' = lock \ {t}
    /\ UNCHANGED <<world, vctx, pos, stage, verdicts, rollup, scan, bills, fires, begun, moved>>

\* "409", "conflict" or "lock held" anywhere in the text.
isConflict(answer) == answer \in {"conflict", "lookalike"}

RaceVerdict ==
    LET runs == {"A", "B"}
        ok == {x \in runs : fires[x] = "ok"}
        conflicts == {x \in runs : isConflict(fires[x])}
        m == fires["migrate"]
    IN  IF \E x \in runs : fires[x] = "unsupported" THEN "SKIP"
        ELSE IF /\ Cardinality(ok) = 1 /\ Cardinality(conflicts) = 1
                /\ Check = "bill_run_vs_lifecycle" =>
                      isConflict(m) \/ (m = "ok" /\ moved = "stable")
        THEN "PASS" ELSE "FAIL"

\* History: whether one run was begun and the id kept, and if not, whether it
\* is an error that reads like a conflict that hides it.
RaceTruth ==
    LET misread(x) == fires[x] = "lookalike" IN
    IF begun = 1 /\ moved # "new id" THEN "ok"
    ELSE IF /\ begun > 0
            /\ begun > 1 => misread("A") \/ misread("B")
            /\ moved = "new id" => misread("migrate")
    THEN "misread" ELSE "broken"

RaceEnds ==
    /\ stage = "in" /\ \A x \in Calls : fires[x] \notin {"sent", "accepted", "refused"}
    /\ AtRace
    /\ Report(RaceVerdict, RaceTruth)
    /\ UNCHANGED <<world, vctx, rollup, scan, bills, fires, lock, begun, moved>>

-----------------------------------------------------------------------------
(* The summary.                                                           *)

Count(status) == Cardinality({i \in 1..Len(verdicts) : verdicts[i].status = status})

Finalize == IF Count("FAIL") > 0 THEN "FAIL" ELSE IF Count("PASS") = 0 THEN "SKIP" ELSE "PASS"

\* The report is written, then a failed check makes the command fail.
runValidate ==
    /\ rollup = NoSummary /\ Done
    /\ \E saved \in BOOLEAN :
          rollup' = [overall |-> Finalize, exit |-> IF saved /\ Count("FAIL") = 0 THEN 0 ELSE 1]
    /\ UNCHANGED <<world, vctx, pos, stage, verdicts, scan, bills, fires, lock, begun, moved>>

ValidateNext ==
    \/ Cancel \/ SkipCheck \/ dispatch
    \/ BillingMatchStart \/ BillOneCustomer \/ runBillingMatch
    \/ LifecycleStart \/ ScanRow \/ runLifecycleCorrectness
    \/ RaceStart \/ MigrateSubscription \/ RaceEnds
    \/ \E x \in Calls : TriggerBillRun(x) \/ CallReturns(x)
    \/ \E t \in lock : BillRunEnds(t)
    \/ runValidate

-----------------------------------------------------------------------------
(* Properties.                                                             *)

Statuses == {"PASS", "FAIL", "SKIP"}

ValidateTypeOK ==
    /\ vctx \in {"live", "done"} /\ pos \in 1..Len(AllChecks) + 1
    /\ \A i \in 1..Len(verdicts) : verdicts[i].status \in Statuses
    /\ fires \in [Calls -> {"idle", "sent", "accepted", "refused", "ok", "conflict", "lookalike", "error", "unsupported"}]
    /\ lock \subseteq 1..Len(world.tenants) /\ begun \in 0..2

Passed(name) == \E i \in 1..Len(verdicts) : verdicts[i].name = name /\ verdicts[i].status = "PASS"
PassedAsked(name) == \E i \in 1..Len(verdicts) :
    verdicts[i].name = name /\ verdicts[i].status = "PASS" /\ verdicts[i].answer = "ok"

\* The checks asked for, in the order of the list.
InOrder ==
    LET places == {i \in 1..Len(AllChecks) : Wanted(i)} IN
    [n \in 1..Cardinality(places) |->
        AllChecks[CHOOSE i \in places : Cardinality({j \in places : j <= i}) = n]]

\* The report has one verdict of every check that was asked for, in their
\* order, whenever the command is cancelled; a check that failed makes it and
\* the command fail, and a report nothing passed in is no pass (Validator.Run,
\* Finalize, runValidate).
ReportSound ==
    rollup # NoSummary =>
        /\ [i \in 1..Len(verdicts) |-> verdicts[i].name] = InOrder
        /\ (rollup.overall = "FAIL") <=> \E i \in 1..Len(verdicts) : verdicts[i].status = "FAIL"
        /\ rollup.overall = "FAIL" => rollup.exit = 1
        /\ rollup.overall = "PASS" => \E c \in Range(AllChecks) : Passed(c)

\* Check 1 shares the accepted events out by a global ratio; what it passes
\* has still lost no more than the tolerance and the rounding of each tenant.
LossBounded ==
    Passed("event_count_per_tenant") /\ ~world.offline =>
        LET n == Cardinality(DOMAIN world.gen)
            lost == world.succeeded - Total(world.stored)
        IN  /\ lost >= -n * world.lostMax
            /\ lost <= n * (world.lostMax + IF world.succeeded = Total(world.gen) THEN 0 ELSE 1)

\* "Any regression shows up everywhere": a platform that shows a tenant's rows
\* to the others does not pass check 2, however the neighbours of the first
\* tenants wrap around the list and whichever of them are probed.
FaultsSeen ==
    Passed("cross_tenant_leakage") /\ world.leakMax = 0 => ~world.leaks

\* Check 6 without late events: although one counter is shared out over the
\* kinds, it passes only if every event that had to be rejected was.
RejectionsSound ==
    Passed("negative_path_correctness") /\ world.sent["late_event"] = 0 =>
        \A k \in Range(RejectedKinds) : world.handled[k] = world.sent[k]

\* "Equality is the ideal; less than Expected is the regression": the same of
\* every run, late events or not.
RejectionsSeen ==
    Passed("negative_path_correctness") => \A k \in Range(RejectedKinds) : world.handled[k] = world.sent[k]

\* Check 9 asks for a subscription only once per expected state, and passes
\* only if the platform is where every successful transition left it.
LifecycleSound ==
    PassedAsked("lifecycle_correctness") =>
        \A i \in 1..Len(world.log) :
            world.log[i].status = "OK" /\ world.log[i].expected # "" =>
                world.state[world.log[i].sub] = world.log[i].expected

\* Checks 8 and 11 pass only if one of the two bill runs was started and no
\* more, and the subscription kept its id, whatever was lost, cancelled or
\* finished in between; unless an error was taken for a conflict by its words:
\* then a second run, or a migration under a new id, may be behind the PASS, but
\* never none at all (isConflict, RaceVerdict).
LockSound ==
    \A i \in 1..Len(verdicts) :
        verdicts[i].name \in Races /\ verdicts[i].status = "PASS" => verdicts[i].answer \in {"ok", "misread"}

\* The report can be believed: every check asked for is in it once, and each
\* PASS says something true of the platform it looked at: of check 1, 2 and 9,
\* of check 6 without late events, of 8 and 11 up to misread errors.
VerdictsSound ==
    /\ ValidateTypeOK /\ ReportSound
    /\ LossBounded /\ FaultsSeen /\ RejectionsSound
    /\ LifecycleSound /\ LockSound

-----------------------------------------------------------------------------
(* The shadow biller, on the customers of check 5 and the samples of 7.    *)

Fuzzed == \E i \in 1..Len(verdicts) : verdicts[i].name = "property_based_invariants"

\* The formula of every pricing model charges what counting unit by unit does.
OracleMatchesUnits ==
    Fuzzed => \A s \in world.samples :
        s.model # "OUTCOME_BASED" => Calculate(s).subtotal = roundCents(ByUnit(s), 1)

\* Check 7 never fails for the shadow biller itself: whatever the model, the
\* discount, the tax and the wallet, its totals add up.
FuzzClean ==
    Fuzzed => \A s \in world.samples : checkInvariants(s, Calculate(s)) /\ IsValid(s, Calculate(s))

AsMetric(s) == [model |-> s.model, units |-> UnitScale * s.events, base |-> s.base,
                outcomes |-> s.outcomes, agg |-> s.agg, rate |-> s.rate]

\* The per-metric path and the event-count path agree on one metric of whole
\* units: which of them expectedFor takes makes no difference.
PathsAgree ==
    Fuzzed => \A s \in world.samples : s.events > 0 =>
        CalculateMetrics(<<AsMetric(s)>>, s.discount, s.tax, s.mode, s.rate.wallet) = Calculate(s)

\* What a customer owes by the definition of its own card, for its share of
\* whole units of the one metric of its tenant.
Owed(c) ==
    LET own == world.plans[c.card]
        n == (world.usage[c.tenant][world.metrics[1].name].quantity * c.keys)
               \div (UnitScale * SumOver(OfTenant(c.tenant), LAMBDA i : world.customers[i].keys))
        raw == ByUnit([model |-> own.model, rate |-> own.rate, events |-> n, base |-> 1000 * n])
    IN  IF n = 0 /\ own.model # "FLAT_RATE" THEN 0
        ELSE finish(raw, c.discount, c.tax, own.mode, own.rate.wallet).total

\* Check 5 passes only if the amount of every bill run that ended, which is that
\* of the archetype's first tenant, is to the cent what the customer it was run
\* for owes by its own rate card and its own share of the usage.  Where the
\* tenant has that one customer, it was charged what it owes; where it has
\* several, the check compares a sum with each of its parts, and a PASS says
\* that the run billed one customer's worth (runOneBillRun, modeMatches).
BillingSound ==
    Passed("per_archetype_billing_match") /\ world.usage # <<>> =>
        \A i \in 1..Len(bills) : bills[i].actual # NoBill =>
            Gap(bills[i].actual.invoice + bills[i].actual.wallet, Owed(Billed[i])) < 10

\* The shadow biller is an oracle: it charges what adding up the units one by
\* one does, its invariants hold of it on every input, its two entry points
\* agree where both apply, and check 5, which compares with it, passes bill runs
\* that come to what their customers owe.
OracleSound == OracleMatchesUnits /\ FuzzClean /\ PathsAgree /\ BillingSound
=============================================================================
