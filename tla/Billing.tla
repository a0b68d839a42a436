------------------------------- MODULE Billing -------------------------------
(***************************************************************************)
(* The shadow biller of internal/validate/billing: what the validator      *)
(* expects the platform to charge.  Money is in mills (a tenth of a cent), *)
(* a unit is UnitScale micro-units (10^6 in the code), percentages are     *)
(* whole numbers, so every step is exact until the code rounds.            *)
(***************************************************************************)
EXTENDS ScenarioRates

CONSTANTS
    UnitScale,  \* micro-units of a unit
    MaxUnits    \* stands for math.MaxInt64: more units than anybody uses

ASSUME BillingAssumption == UnitScale \in Nat \ {0} /\ MaxUnits \in Nat \ {0}

Least(a, b) == IF a < b THEN a ELSE b
Most(a, b) == IF a > b THEN a ELSE b

-----------------------------------------------------------------------------
(* Rounding.                                                               *)

\* math.RoundToEven(n / d).
RoundToEven(n, d) ==
    LET q == n \div d
        r == 2 * (n % d)
    IN  IF r < d \/ (r = d /\ q % 2 = 0) THEN q ELSE q + 1

\* n / d mills to the cent.
roundCents(n, d) == 10 * RoundToEven(n, 10 * d)

-----------------------------------------------------------------------------
(* The charge of each pricing model, in mills.                             *)

ceilBlocks(billable, block) == (billable + block * UnitScale - 1) \div (block * UnitScale)

\* units are micro-units; the min fee is a floor even when nothing is billable.
linearCharge(units, r) ==
    LET billable == Most(units - UnitScale * r.free, 0)
        cost == IF r.block > 0 /\ billable > 0
                THEN roundCents(ceilBlocks(billable, r.block) * r.block * r.rate, 1)
                ELSE roundCents(billable * r.rate, UnitScale)
    IN  IF units < 0 THEN roundCents(units * r.rate, UnitScale)
        ELSE Most(cost, roundCents(r.min, 1))

flatRateCharge(r) == r.flat

\* base is a multiple of 100 mills.
percentageCharge(base, r) ==
    IF base < 0 \/ r.pct < 0 THEN Most(0, r.min) ELSE Most((base \div 100) * r.pct, r.min)

includedQuotaCharge(events, r) ==
    LET overage == events - r.free IN
    IF overage <= 0 THEN 0
    ELSE IF r.block > 0 THEN ((overage + r.block - 1) \div r.block) * r.block * r.rate
    ELSE overage * r.rate

\* convertTiers: 0 is "the rest".
convertTiers(tiers) ==
    [i \in 1..Len(tiers) |-> [tiers[i] EXCEPT !.upTo = IF @ <= 0 THEN MaxUnits ELSE @]]

SortTiersAscending(tiers) == SortSeq(tiers, LAMBDA a, b : a.upTo < b.upTo)

\* One tier after the other takes what lies in its band.
FillTier(events, acc, t) ==
    LET used == Least(t.upTo - acc.from, events - acc.from) IN
    IF events <= acc.from \/ t.upTo <= acc.from THEN acc
    ELSE [from |-> t.upTo, total |-> acc.total + used * t.price + t.flat,
          rows |-> Append(acc.rows, used * t.price + t.flat)]

graduatedResult(events, raw) ==
    FoldLeft(LAMBDA acc, t : FillTier(events, acc, t),
             [from |-> 0, total |-> 0, rows |-> <<>>], SortTiersAscending(raw))

\* Mutant of graduatedCharge: the last tier has no upper bound, and is one off.
graduatedChargeLastOpen(events, raw) ==
    LET all == graduatedResult(events, raw)
        last == SortTiersAscending(raw)[Len(raw)]
    IN  all.total + last.price * Most(events - last.upTo + 1, 0)

\* Units above a bounded last tier cost nothing.
graduatedCharge(events, raw) == IF events <= 0 THEN 0 ELSE graduatedResult(events, raw).total

\* The whole volume at the price of the tier it ends in.
volumeTieredCharge(events, raw) ==
    LET tiers == SortTiersAscending(raw)
        fit == {i \in 1..Len(tiers) : events <= tiers[i].upTo}
        at == IF fit = {} THEN Len(tiers) ELSE CHOOSE i \in fit : \A j \in fit : i <= j
    IN  IF events <= 0 \/ raw = <<>> THEN 0 ELSE events * tiers[at].price + tiers[at].flat

staircaseCharge(units, free, raw) ==
    LET billable == Most(units - UnitScale * free, 0)
        bands == SortSeq(raw, LAMBDA a, b : a.from < b.from)
        fit == {i \in 1..Len(bands) : /\ billable >= UnitScale * bands[i].from
                                      /\ bands[i].to = 0 \/ billable <= UnitScale * bands[i].to}
        at == IF fit = {} THEN Len(bands) ELSE CHOOSE i \in fit : \A j \in fit : i <= j
    IN  IF billable = 0 \/ raw = <<>> THEN 0 ELSE roundCents(bands[at].price, 1)

-----------------------------------------------------------------------------
(* Outcomes: usage by status, weighted.                                    *)

SumOver(S, f(_)) == FoldSet(LAMBDA x, acc : acc + f(x), 0, S)

\* mix gives shares in 1/UnitScale; what it leaves lands on the blank status.
ExpectedOutcomes(events, mix) ==
    LET covered == SumOver(DOMAIN mix, LAMBDA s : mix[s])
        named == {s \in DOMAIN mix : mix[s] > 0}
        rest == IF UnitScale > covered THEN {""} ELSE {}
    IN  IF events <= 0 THEN [s \in {} |-> 0]
        ELSE [s \in named \cup rest |-> events * (IF s = "" THEN UnitScale - covered ELSE mix[s])]

hasOutcomeUsage(rows) == \E s \in DOMAIN rows : rows[s] # 0

Splits(rows, weights, agg) == DOMAIN rows # {} /\ DOMAIN weights # {} /\ agg \in {"", "SUM", "COUNT"}

\* A status without a weight counts in full; each line is rounded.
WeightOutcomes(rows, weights) ==
    SumOver(DOMAIN rows, LAMBDA s : IF s \in DOMAIN weights
                                    THEN RoundToEven(rows[s] * weights[s], UnitScale) ELSE rows[s])

Weighted(units, m) == IF Splits(m.outcomes, m.rate.weights, m.agg)
                      THEN WeightOutcomes(m.outcomes, m.rate.weights) ELSE units

-----------------------------------------------------------------------------
(* rate (a count of events) and rateMetric (micro-units of one metric).    *)

rate(in) ==
    LET r == in.rate IN
    CASE in.model = "PER_UNIT"       -> IF in.events = 0 THEN 0 ELSE linearCharge(UnitScale * in.events, r)
      [] in.model = "OUTCOME_BASED"  -> IF in.events = 0 /\ ~hasOutcomeUsage(in.outcomes) THEN 0
                                        ELSE linearCharge(Weighted(UnitScale * in.events, in), r)
      [] in.model = "STAIRCASE"      -> staircaseCharge(UnitScale * in.events, r.free, r.bands)
      [] in.model = "FLAT_RATE"      -> flatRateCharge(r)
      [] in.model = "PERCENTAGE"     -> percentageCharge(in.base, r)
      [] in.model = "INCLUDED_QUOTA" -> includedQuotaCharge(in.events, r)
      [] in.model = "GRADUATED"      -> graduatedCharge(in.events, convertTiers(r.tiers))
      [] in.model = "VOLUME_TIERED"  -> volumeTieredCharge(in.events, convertTiers(r.tiers))

\* math.Round: a half goes up.
Whole(units) == (2 * units + UnitScale) \div (2 * UnitScale)

\* No usage, no line, except the flat fee; a percentage floor too.
rateMetric(m) ==
    LET r == m.rate IN
    IF m.model = "FLAT_RATE" THEN flatRateCharge(r)
    ELSE IF m.units <= 0 /\ ~hasOutcomeUsage(m.outcomes) THEN 0
    ELSE CASE m.model = "PER_UNIT"       -> linearCharge(m.units, r)
           [] m.model = "OUTCOME_BASED"  -> linearCharge(Weighted(m.units, m), r)
           [] m.model = "STAIRCASE"      -> staircaseCharge(m.units, r.free, r.bands)
           [] m.model = "PERCENTAGE"     -> percentageCharge(m.base, r)
           [] m.model = "INCLUDED_QUOTA" -> includedQuotaCharge(Whole(m.units), r)
           [] m.model = "GRADUATED"      -> graduatedCharge(Whole(m.units), convertTiers(r.tiers))
           [] m.model = "VOLUME_TIERED"  -> volumeTieredCharge(Whole(m.units), convertTiers(r.tiers))

-----------------------------------------------------------------------------
(* Discount, tax and route.                                                *)

\* In hundredths of a mill, at most the subtotal.
applyDiscount(subtotal, d) ==
    IF subtotal <= 0 THEN 0
    ELSE LET amount == CASE d.type = "PERCENTAGE"   -> subtotal * d.value
                         [] d.type = "FIXED_AMOUNT" -> 100 * d.value
                         [] OTHER                   -> 0
         IN  Least(Most(amount, 0), 100 * subtotal)

route(total, mode, available) ==
    LET w == CASE mode = "PREPAID" -> total
               [] mode = "HYBRID"  -> Least(total, Most(available, 0))
               [] OTHER            -> 0
    IN  IF total <= 0 THEN [wallet |-> 0, invoice |-> 0] ELSE [wallet |-> w, invoice |-> total - w]

finish(raw, d, taxPct, mode, available) ==
    LET subtotal == roundCents(raw, 1)
        discount == roundCents(applyDiscount(subtotal, d), 100)
        tax == roundCents((subtotal - discount) * taxPct, 100)
        total == subtotal - discount + tax
    IN  [subtotal |-> subtotal, discount |-> discount, tax |-> tax, total |-> total,
         wallet |-> route(total, mode, available).wallet,
         invoice |-> route(total, mode, available).invoice]

Calculate(in) == finish(rate(in), in.discount, in.tax, in.mode, in.rate.wallet)

\* Every line is rounded, then summed.
CalculateMetrics(metrics, discount, tax, mode, available) ==
    finish(FoldLeft(LAMBDA acc, m : acc + roundCents(rateMetric(m), 1), 0, metrics),
           discount, tax, mode, available)

-----------------------------------------------------------------------------
(* Check 7's invariants, as the fuzzer asserts them on every sample.       *)

checkInvariants(in, out) ==
    /\ out.invoice >= 0
    /\ out.discount \in 0..out.subtotal
    /\ in.mode = "HYBRID" => out.wallet + out.invoice = out.total
    /\ in.model = "GRADUATED" /\ in.events > 0 =>
          LET sum == FoldLeft(+, 0, graduatedResult(in.events, convertTiers(in.rate.tiers)).rows)
          IN  sum - out.subtotal \in -10..10

\* RouteCheck, DiscountCheck and TaxCheck.
IsValid(in, out) ==
    /\ out.wallet >= 0 /\ out.invoice >= 0 /\ out.wallet + out.invoice = out.total
    /\ in.mode = "POSTPAID" => out.wallet = 0
    /\ in.mode = "PREPAID" => out.invoice = 0
    /\ in.mode = "HYBRID" => out.wallet <= in.rate.wallet
    /\ out.discount \in 0..out.subtotal
    /\ out.tax >= 0 /\ out.total = out.subtotal - out.discount + out.tax

-----------------------------------------------------------------------------
(* The reference: the charge by definition of the pricing model, for a     *)
(* count of events, before rounding.                                       *)

TierOf(u, tiers) == {i \in 1..Len(tiers) :
    u <= tiers[i].upTo /\ \A j \in 1..Len(tiers) : u <= tiers[j].upTo => tiers[i].upTo <= tiers[j].upTo}

ByUnit(in) ==
    LET r == in.rate
        n == in.events
        tiers == convertTiers(r.tiers)
        blocks(b) == CHOOSE k \in 0..n : k * b >= n - r.free /\ (k > 0 => (k - 1) * b < n - r.free)
        linear == IF n <= r.free THEN 0
                  ELSE IF r.block > 0 THEN blocks(r.block) * r.block * r.rate ELSE (n - r.free) * r.rate
    IN  CASE in.model = "FLAT_RATE"      -> r.flat
          [] in.model = "PER_UNIT"       -> IF n = 0 THEN 0 ELSE Most(roundCents(linear, 1), roundCents(r.min, 1))
          [] in.model = "INCLUDED_QUOTA" -> linear
          [] in.model = "PERCENTAGE"     -> Most((in.base \div 100) * r.pct, r.min)
          [] in.model = "GRADUATED"      ->
                SumOver(1..n, LAMBDA u : SumOver(TierOf(u, tiers), LAMBDA i : tiers[i].price))
                + SumOver(UNION {TierOf(u, tiers) : u \in 1..n}, LAMBDA i : tiers[i].flat)
          [] in.model = "VOLUME_TIERED"  ->
                LET at == IF TierOf(n, tiers) = {} THEN {Len(tiers)} ELSE TierOf(n, tiers)
                IN  IF n = 0 THEN 0 ELSE SumOver(at, LAMBDA i : n * tiers[i].price + tiers[i].flat)
          [] in.model = "STAIRCASE"      ->
                LET at == {i \in 1..Len(r.bands) : n - r.free >= r.bands[i].from
                              /\ (r.bands[i].to = 0 \/ n - r.free <= r.bands[i].to)}
                    top == {i \in 1..Len(r.bands) : \A j \in 1..Len(r.bands) : r.bands[j].from <= r.bands[i].from}
                IN  IF n <= r.free THEN 0
                    ELSE roundCents(r.bands[CHOOSE i \in (IF at = {} THEN top ELSE at) : TRUE].price, 1)
          [] OTHER -> 0
=============================================================================
