---------------------------- MODULE ScenarioRates ----------------------------
(***************************************************************************)
(* What the scenario validator (internal/scenario) asks of a rate config   *)
(* before anything is seeded from it or billed by it.  Money is in mills   *)
(* (a tenth of a cent), shares are in percent.                             *)
(***************************************************************************)
EXTENDS Integers, Sequences, FiniteSets, SequencesExt

Models == {"PER_UNIT", "FLAT_RATE", "PERCENTAGE", "INCLUDED_QUOTA", "GRADUATED",
           "VOLUME_TIERED", "STAIRCASE", "OUTCOME_BASED"}
Modes == {"POSTPAID", "PREPAID", "HYBRID"}

\* Ascending, and 0 ("the rest") only in the last place.
validateTierBandOrdering(tiers) ==
    /\ \A i \in 1..Len(tiers) : tiers[i].upTo = 0 => i = Len(tiers)
    /\ \A i, j \in 1..Len(tiers) : i < j /\ tiers[j].upTo # 0 => tiers[i].upTo < tiers[j].upTo

\* In order of from: starting at 0 or 1, contiguous, open only at the top.
checkStaircaseBands(raw) ==
    LET bands == SortSeq(raw, LAMBDA a, b : a.from < b.from) IN
    /\ bands # <<>> /\ bands[1].from \in {0, 1}
    /\ \A i \in 1..Len(bands) :
          /\ bands[i].price > 0
          /\ bands[i].to = 0 => i = Len(bands)
          /\ bands[i].to # 0 => bands[i].to >= bands[i].from
          /\ i > 1 => bands[i].from = bands[i - 1].to + 1

\* weights is a function of statuses, in units of 1/scale.
checkOutcomeWeights(weights, scale) ==
    /\ \A s \in DOMAIN weights : weights[s] \in 0..scale
    /\ \E s \in DOMAIN weights : weights[s] > 0

checkModelSpecificConfig(model, r, scale) ==
    IF model = "STAIRCASE" THEN checkStaircaseBands(r.bands)
                           ELSE r.rate > 0 /\ checkOutcomeWeights(r.weights, scale)

\* The number that drives the bill of the model is positive.
checkTenants(model, mode, r, scale) ==
    /\ mode \in {"PREPAID", "HYBRID"} => r.wallet > 0
    /\ CASE model = "FLAT_RATE"      -> r.flat > 0
         [] model = "PER_UNIT"       -> r.rate > 0
         [] model = "PERCENTAGE"     -> r.pct \in 1..100
         [] model = "INCLUDED_QUOTA" -> r.free > 0 /\ r.rate > 0
         [] model \in {"GRADUATED", "VOLUME_TIERED"} ->
                r.tiers # <<>> /\ validateTierBandOrdering(r.tiers)
         [] OTHER -> checkModelSpecificConfig(model, r, scale)
=============================================================================
