------------------------------ MODULE Generator ------------------------------
(***************************************************************************)
(* What the generator (internal/generator) puts into an event: whom it is  *)
(* for, with which credential, at what time, and which fault is injected.  *)
(* Every draw from the random source is a free choice among the values of  *)
(* positive weight.                                                        *)
(*                                                                         *)
(* A tenant of the manifest is [id, ext, ingest, products, subs], a        *)
(* product [type, metrics], a metric [name, field, agg], a subscription    *)
(* [id, customer, stale, keys] and a key [secret, revoked].  "" stands for *)
(* what is absent; ids that are sorted are numbers, 0 for none.  Time is   *)
(* in minutes, shares are in percent.                                      *)
(***************************************************************************)
EXTENDS Integers, Sequences, FiniteSets, SequencesExt

CONSTANTS
    Bodies,     \* payloads of a template: [fields: its numbers by name, status]
    AdminToken  \* the fallback credential of the command line, or ""

NegativeKinds == <<"late_event", "future_event", "malformed", "wrong_auth", "stale_key", "oversize">>

PositiveKeys(w) == {k \in DOMAIN w : w[k] > 0}
WeightOf(w) == FoldFunction(LAMBDA x, y : x + y, 0, w)

\* The elements of S in the order of their keys, no two of which are equal.
SortedBy(S, key) ==
    [k \in 1..Cardinality(S) |-> CHOOSE x \in S : Cardinality({y \in S : key[y] < key[x]}) = k - 1]
-----------------------------------------------------------------------------
(* The view of a manifest.                                                 *)

productTypes(t) == {t.products[i].type : i \in {j \in DOMAIN t.products : t.products[j].metrics # <<>>}}
MetricsOf(t, pt) ==
    UNION {Range(t.products[i].metrics) : i \in {j \in DOMAIN t.products : t.products[j].type = pt}}

\* Keys are not tied to a product, so each stands for all types of its tenant.
activeIdx(t) ==
    UNION {{[sub |-> s, key |-> k, type |-> pt] :
               k \in {x \in Range(s.keys) : ~x.revoked}, pt \in productTypes(t)} :
           s \in {x \in Range(t.subs) : ~x.stale}}

indexTenants(m) == {t \in Range(m) : activeIdx(t) # {}}

pickTripleForProduct(t, pt) == {x \in activeIdx(t) : x.type = pt}

revokedKeys(s) == {k \in Range(s.keys) : k.revoked}
StaleSubs(m) == UNION {{s \in Range(t.subs) : s.stale /\ revokedKeys(s) # {}} : t \in Range(m)}

\* The revoked keys gathered by subscription id, in a second walk.
OriginalKeys(subs) ==
    [id \in {s.id : s \in subs} |-> revokedKeys(CHOOSE s \in subs : s.id = id)]

\* Keys that belong to the ids, put where idx says each id is now.
newKeys(subs, original) ==
    LET idx == [id \in DOMAIN original |-> CHOOSE i \in DOMAIN subs : subs[i].id = id]
    IN  [i \in DOMAIN subs |-> original[CHOOSE id \in DOMAIN original : idx[id] = i]]

\* The subscriptions are sorted by id and the keys follow; one needs no order.
collectStaleSubs(m) ==
    LET subs == SortedBy(StaleSubs(m), [s \in StaleSubs(m) |-> s.id])
    IN  [subs |-> subs,
         keys |-> IF Len(subs) > 1 THEN newKeys(subs, OriginalKeys(StaleSubs(m)))
                  ELSE [i \in DOMAIN subs |-> revokedKeys(subs[i])]]
-----------------------------------------------------------------------------
(* The planner of faults.                                                  *)

NewNegativePathPlanner(shares, m) ==
    /\ \A k \in DOMAIN shares : shares[k] >= 0
    /\ WeightOf(shares) <= 100
    /\ shares["stale_key"] > 0 => collectStaleSubs(m).subs # <<>>

Pick(shares) == PositiveKeys(shares) \cup (IF WeightOf(shares) < 100 THEN {""} ELSE {})

injectLate(e) == [e EXCEPT !.at = @ - 120]
injectFuture(e) == [e EXCEPT !.at = @ + 10]
injectMalformed(e) == [e EXCEPT !.raw = TRUE]
injectOversize(e) == [e EXCEPT !.oversize = TRUE]
injectWrongAuth(e) == [e EXCEPT !.token = "fabricated", !.ingest = ""]

\* The event keeps its tenant and customer: the key may be another tenant's.
injectStaleKey(e, sub, key) ==
    [e EXCEPT !.token = key.secret, !.ingest = "", !.sub = sub.id, !.stale = sub.id]

Apply(e, kind, m) ==
    LET stale == collectStaleSubs(m)
        faulty == CASE kind = ""             -> {e}
                    [] kind = "late_event"   -> {injectLate(e)}
                    [] kind = "future_event" -> {injectFuture(e)}
                    [] kind = "malformed"    -> {injectMalformed(e)}
                    [] kind = "wrong_auth"   -> {injectWrongAuth(e)}
                    [] kind = "oversize"     -> {injectOversize(e)}
                    [] kind = "stale_key"    -> UNION {{injectStaleKey(e, stale.subs[i], k) : k \in stale.keys[i]} :
                                                      i \in DOMAIN stale.subs}
    IN  {[f EXCEPT !.negative = kind] : f \in faulty}
-----------------------------------------------------------------------------
(* One event.                                                              *)

\* Anything but a positive number in the metric's field counts as one.
resolveQuantity(body, m) ==
    IF /\ m.agg \in {"SUM", "MAX", "AVG", "PERCENTILE_95", "PERCENTILE_99", "MIN"}
       /\ m.field \in DOMAIN body.fields /\ body.fields[m.field] > 0
    THEN body.fields[m.field] ELSE 1

productPicker(mix) == IF WeightOf(mix) <= 0 THEN {"API"} ELSE PositiveKeys(mix)
ingestPicker(paths) == IF WeightOf(paths) <= 0 THEN {"rest_direct"} ELSE PositiveKeys(paths)

\* The event of one draw, before a fault is injected; at is the time the
\* pacer scheduled it for.
Compose(t, triple, m, body, path, at) ==
    [tenant |-> t.id, customer |-> triple.sub.customer, sub |-> triple.sub.id, type |-> triple.type, path |-> path,
     metric |-> m.name, quantity |-> resolveQuantity(body, m), status |-> body.status, at |-> at,
     token |-> triple.key.secret, ingest |-> t.ingest, negative |-> "", raw |-> FALSE, oversize |-> FALSE, stale |-> 0]

\* The triples the product picker can lead to, and the metrics with a name.
Triples(t, sc) == UNION {pickTripleForProduct(t, pt) : pt \in productPicker(sc.mix)}
NamedMetrics(t, pt) == {x \in MetricsOf(t, pt) : x.name # ""}

\* The events the next draws can give; a draw that finds no key or no metric
\* with a name gives none.
DrawsWith(t, triple, sc, at) ==
    {Compose(t, triple, met, body, path, at) :
        met \in NamedMetrics(t, triple.type), body \in Bodies, path \in ingestPicker(sc.paths)}
DrawsFor(t, sc, at) == UNION {DrawsWith(t, x, sc, at) : x \in Triples(t, sc)}
Draws(m, sc, at) == UNION {DrawsFor(t, sc, at) : t \in indexTenants(m)}
produce(m, sc, at) == UNION {Apply(e, kind, m) : kind \in Pick(sc.shares), e \in Draws(m, sc, at)}
=============================================================================
