-------------------------------- MODULE Seed --------------------------------
(***************************************************************************)
(* Seeding a platform with tenants (internal/seed) and archiving them.     *)
(*                                                                         *)
(* Seeder.Run gives every tenant a goroutine, at most so many at a time.     *)
(* One goroutine walks its tenant's plan, provision call by provision      *)
(* call; a call looks its entity up, POSTs it when it is not there, and    *)
(* looks it up again when the platform answers 409.  The first call that   *)
(* fails ends the tenant.  A tenant whose plan is done is appended to the  *)
(* manifest, which is written once, after every goroutine has returned.    *)
(* Clean walks the manifest and archives what it names, best effort.       *)
(*                                                                         *)
(* One action is one HTTP attempt, with every answer the platform and the  *)
(* network can give: applied and answered, applied with the answer lost,   *)
(* not applied, refused.  Names, prices and bodies are left out; what the  *)
(* platform does with a request is external.                               *)
(***************************************************************************)
EXTENDS Integers, FiniteSets, Sequences, SequencesExt

CONSTANTS
    Rosters,    \* what one may be asked to seed: sequences of archetypes, one per tenant
    Slots,      \* SeederConfig.Concurrency
    MaxRetries, \* ClientConfig.MaxRetries
    MaxFaults   \* bound: lost answers, transient errors and refusals, with each roster

ASSUME SeedAssumption ==
    /\ Slots \in Nat \ {0}
    /\ MaxRetries \in Nat /\ MaxFaults \in [Rosters -> Nat]

VARIABLES
    arch,       \* the roster of this seed
    ctxDone,    \* the context was cancelled (SIGINT, SIGTERM)
    main,       \* where Seeder.Run and Clean are
    pc,         \* pc[t]: where the goroutine of tenant t is
    at,         \* at[t]: its place in the plan
    tries,      \* tries[t]: attempts of the request it is in; tries[Cleaner]
    errs,       \* errors in errCh
    manifest,   \* Manifest.Tenants
    saved,      \* the manifest was written to its file
    made,       \* made[t][e]: copies of entity e on the platform (external)
    gone,       \* <<t, e>> archived or cancelled (external)
    todo,       \* Clean: what it has still to archive
    cleanErrs,  \* CleanResult.Errors
    faults      \* faults so far

seedVars == <<arch, ctxDone, main, pc, at, tries, errs, manifest, saved, made,
              gone, todo, cleanErrs, faults>>

Cleaner == 0    \* no tenant
Tenants == DOMAIN arch

\* The capacity of errCh: four for every archetype, however many tenants it has.
ErrCap == 4 * Cardinality({arch[t] : t \in Tenants})

-----------------------------------------------------------------------------
(* The plan of a tenant.  A step is one provision call: what it does before *)
(* the POST ("lookup": return the entity when it is there; "read": a GET    *)
(* that must answer; "none"), whether it POSTs, whether the POST carries an *)
(* Idempotency-Key and whether a 404 counts as success.                     *)
Step(ent, pre, post, keyed) ==
    [ent |-> ent, pre |-> pre, post |-> post, keyed |-> keyed, miss |-> FALSE]

Only(cond, step) == IF cond THEN <<step>> ELSE <<>>

NeedsWallet(mode) == mode \in {"PREPAID", "HYBRID"}
NeedsPaymentMethod(mode) == mode \in {"POSTPAID", "HYBRID"}

provisionTenant == Step(<<"tenant">>, "lookup", TRUE, TRUE)
provisionDefaultBillingEntity == Step(<<"billing-entity">>, "none", TRUE, TRUE)
provisionPaymentGatewayIfNeeded == Step(<<"gateway">>, "none", TRUE, TRUE)
provisionIngestKey == Step(<<"ingest-key">>, "none", TRUE, TRUE)
provisionProduct(p) == Step(<<"product", p>>, "lookup", TRUE, TRUE)
provisionMetrics(p) == Step(<<"metrics", p>>, "read", TRUE, TRUE)
provisionRatePlan(c) == Step(<<"rate-plan", c>>, "lookup", TRUE, TRUE)
provisionOffering(c) == Step(<<"offering", c>>, "lookup", TRUE, TRUE)
provisionCustomer(i) == Step(<<"customer", i>>, "lookup", TRUE, TRUE)
provisionWallet(i) == Step(<<"wallet", i>>, "lookup", TRUE, TRUE)
provisionPaymentMethod(i) == Step(<<"payment-method", i>>, "lookup", TRUE, TRUE)
provisionSubscription(i, o) == Step(<<"subscription", i, o>>, "lookup", TRUE, TRUE)
provisionAPIKey(i, o) == Step(<<"api-key", i, o>>, "lookup", TRUE, TRUE)

\* Cancel, expire and pause are POSTs without an Idempotency-Key; a missing
\* expire endpoint is success.  The other states need no call.
transitionSubscription(i, o, state) ==
    CASE state = "CANCELLED" -> <<Step(<<"cancel", i, o>>, "none", TRUE, FALSE)>>
      [] state = "PAUSED" -> <<Step(<<"pause", i, o>>, "none", TRUE, FALSE)>>
      [] state = "EXPIRED" -> <<[Step(<<"expire", i, o>>, "none", TRUE, FALSE)
                                 EXCEPT !.miss = TRUE]>>
      [] OTHER -> <<>>

\* The keys of a cancelled or expired subscription are read back.
verifyStaleKeys(i, o, state) ==
    Only(state \in {"CANCELLED", "EXPIRED"},
         Step(<<"stale-keys", i, o>>, "read", FALSE, FALSE))

\* A customer of an archetype holds one subscription, to its card's offering.
seedCustomer(i, c) ==
    <<provisionCustomer(i)>>
      \o Only(NeedsWallet(c.mode), provisionWallet(i))
      \o Only(NeedsPaymentMethod(c.mode), provisionPaymentMethod(i))
      \o <<provisionSubscription(i, c.card)>>
      \o Only(c.state # "TRIALING", provisionAPIKey(i, c.card))
      \o transitionSubscription(i, c.card, c.state)
      \o verifyStaleKeys(i, c.card, c.state)

seedProducts(a) ==
    FlattenSeq([p \in 1..a.products |-> <<provisionProduct(p), provisionMetrics(p)>>])

seedRateCards(a) ==
    FlattenSeq([c \in 1..a.cards |-> <<provisionRatePlan(c), provisionOffering(c)>>])

seedOneTenant(a) ==
    Only(~a.reuse, provisionTenant)
      \o <<provisionDefaultBillingEntity>>
      \o Only(NeedsPaymentMethod(a.mode), provisionPaymentGatewayIfNeeded)
      \o Only(a.ingest, provisionIngestKey)
      \o seedProducts(a)
      \o seedRateCards(a)
      \o FlattenSeq([i \in 1..Len(a.customers) |-> seedCustomer(i, a.customers[i])])

\* A catalog is seeded level by level, with calls of its own that differ in
\* the names they give; its subscriptions name a customer and an offering, so
\* that two of them may share a customer's wallet.
provisionCatalogProduct(p) == provisionProduct(p)
provisionCatalogRatePlan(c) == provisionRatePlan(c)
provisionCatalogOffering(c) == provisionOffering(c)
provisionCatalogCustomer(i) == provisionCustomer(i)
provisionCatalogSubscription(i, o) == provisionSubscription(i, o)

seedCatalogSub(s) ==
    Only(NeedsWallet(s.mode), provisionWallet(s.customer))
      \o Only(NeedsPaymentMethod(s.mode), provisionPaymentMethod(s.customer))
      \o <<provisionCatalogSubscription(s.customer, s.card)>>
      \o Only(s.state # "TRIALING", provisionAPIKey(s.customer, s.card))
      \o transitionSubscription(s.customer, s.card, s.state)

seedCatalogTenant(a) ==
    <<provisionDefaultBillingEntity>>
      \o Only(NeedsPaymentMethod(a.mode), provisionPaymentGatewayIfNeeded)
      \o FlattenSeq([p \in 1..a.products |->
            <<provisionCatalogProduct(p), provisionMetrics(p)>>])
      \o [c \in 1..a.cards |-> provisionCatalogRatePlan(c)]
      \o [c \in 1..a.cards |-> provisionCatalogOffering(c)]
      \o [i \in 1..a.people |-> provisionCatalogCustomer(i)]
      \o FlattenSeq([k \in 1..Len(a.subs) |-> seedCatalogSub(a.subs[k])])

Archetypes == UNION {{r[t] : t \in DOMAIN r} : r \in Rosters}

\* A roster lists the tenants in the order of the loop; what an archetype counts and names are numbers.
ASSUME RosterAssumption ==
    /\ \A r \in Rosters : IsFiniteSet(DOMAIN r) /\ DOMAIN r \subseteq Nat \ {0}
    /\ \A a \in Archetypes :
          /\ a.catalog \in BOOLEAN /\ a.products \in Nat /\ a.cards \in Nat
          /\ ~a.catalog => /\ Len(a.customers) \in Nat
                           /\ \A i \in 1..Len(a.customers) : a.customers[i].card \in Nat
          /\ a.catalog => /\ a.people \in Nat /\ Len(a.subs) \in Nat
                          /\ \A k \in 1..Len(a.subs) : /\ a.subs[k].customer \in 1..a.people
                                                       /\ a.subs[k].card \in Nat

Plan == [a \in Archetypes |->
            IF a.catalog THEN seedCatalogTenant(a) ELSE seedOneTenant(a)]

Entities(a) == {Plan[a][k].ent : k \in 1..Len(Plan[a])}

\* A reused tenant is the operator's own: it may have a product and a rate
\* plan of the names the seeder uses.
Found(a) == IF a.reuse THEN {<<"tenant">>, <<"product", 1>>} ELSE {}

-----------------------------------------------------------------------------
(* The client: what one request's attempts come to.                        *)

\* A request that is not answered is tried again unless the context is over
\* or the retries are spent; then it is an error.
GivesUp(who) == ctxDone \/ tries[who] >= MaxRetries

CurrentStep(t) == Plan[arch[t]][at[t]]

FirstPhase(step) == IF step.pre = "none" THEN "post" ELSE "get"

\* The goroutine of t goes on to the next step of its plan, or appends the
\* tenant to the manifest.
Advance(t) ==
    /\ tries' = [tries EXCEPT ![t] = 0]
    /\ IF at[t] = Len(Plan[arch[t]])
       THEN /\ pc' = [pc EXCEPT ![t] = "done"]
            /\ manifest' = manifest \cup {t}
            /\ UNCHANGED at
       ELSE /\ at' = [at EXCEPT ![t] = @ + 1]
            /\ pc' = [pc EXCEPT ![t] = FirstPhase(Plan[arch[t]][at[t] + 1])]
            /\ UNCHANGED manifest

Fail(t) ==
    /\ pc' = [pc EXCEPT ![t] = "failing"]
    /\ tries' = [tries EXCEPT ![t] = 0]
    /\ UNCHANGED <<at, manifest>>

\* Another phase of the same provision call.
Goto(t, phase) ==
    /\ pc' = [pc EXCEPT ![t] = phase]
    /\ tries' = [tries EXCEPT ![t] = 0]
    /\ UNCHANGED <<at, manifest>>

Retry(t) ==
    \/ /\ GivesUp(t) /\ Fail(t)
    \/ /\ ~GivesUp(t)
       /\ tries' = [tries EXCEPT ![t] = @ + 1]
       /\ UNCHANGED <<pc, at, manifest>>

Exists(t, e) == made[t][e] > 0

Faulty == faults < MaxFaults[arch] /\ faults' = faults + 1

frame == <<arch, ctxDone, main, errs, saved, gone, todo, cleanErrs>>

\* Clients notice a cancelled context before they send.
CtxOver(t) ==
    /\ pc[t] \in {"get", "post", "reget"} /\ ctxDone
    /\ Fail(t)
    /\ UNCHANGED <<made, faults, frame>>

\* A GET: of a lookup, of a lookup after 409, or of something to read.  A
\* list answer holds one page: an entity beyond it is not found.
Get(t) ==
    /\ pc[t] \in {"get", "reget"} /\ ~ctxDone
    /\ LET s == CurrentStep(t)
           there == Exists(t, s.ent)
       IN  \/ /\ s.pre = "lookup" /\ there /\ Advance(t) /\ UNCHANGED faults
           \/ /\ s.pre = "lookup" /\ pc[t] = "get" /\ ~there
              /\ Goto(t, "post") /\ UNCHANGED faults
           \/ /\ s.pre = "lookup" /\ there /\ Faulty
              /\ IF pc[t] = "get" THEN Goto(t, "post") ELSE Fail(t)
           \/ /\ s.pre = "read" /\ UNCHANGED faults
              /\ IF s.post THEN Goto(t, "post") ELSE Advance(t)
    /\ UNCHANGED <<made, frame>>

GetFails(t) ==
    /\ pc[t] \in {"get", "reget"} /\ ~ctxDone /\ Faulty
    /\ \E o \in {"transient", "refused"} :
          IF o = "transient" THEN Retry(t) ELSE Fail(t)
    /\ UNCHANGED <<made, frame>>

\* What a POST leaves on the platform: with an Idempotency-Key a second one
\* is answered from the first (external).
Apply(t, s) ==
    IF s.keyed /\ Exists(t, s.ent) THEN made ELSE [made EXCEPT ![t][s.ent] = @ + 1]

\* Repeating a transition: the platform takes it as done or refuses it.
Repeats(t, s) == s.ent[1] \in {"cancel", "expire", "pause"} /\ Exists(t, s.ent)

Post(t) ==
    /\ pc[t] = "post" /\ ~ctxDone
    /\ LET s == CurrentStep(t) IN
          \/ /\ ~Repeats(t, s)
             /\ made' = Apply(t, s)
             /\ Advance(t)
          \/ /\ Repeats(t, s)
             /\ UNCHANGED made
             /\ Advance(t) \/ Fail(t)
    /\ UNCHANGED <<faults, frame>>

PostMissing(t) ==
    /\ pc[t] = "post" /\ ~ctxDone /\ CurrentStep(t).miss
    /\ Advance(t)
    /\ UNCHANGED <<made, faults, frame>>

\* The answer is lost after the platform applied the request, or before.
PostUnanswered(t) ==
    /\ pc[t] = "post" /\ ~ctxDone /\ Faulty
    /\ LET s == CurrentStep(t) IN
          made' \in {made, IF Repeats(t, s) THEN made ELSE Apply(t, s)}
    /\ Retry(t)
    /\ UNCHANGED frame

PostRefused(t) ==
    /\ pc[t] = "post" /\ ~ctxDone /\ Faulty
    /\ Fail(t)
    /\ UNCHANGED <<made, frame>>

\* 409: somebody has the name already.
PostConflict(t) ==
    /\ pc[t] = "post" /\ ~ctxDone
    /\ LET s == CurrentStep(t) IN
          /\ s.keyed /\ Exists(t, s.ent)
          /\ IF s.pre = "lookup" THEN Goto(t, "reget") ELSE Fail(t)
    /\ UNCHANGED <<made, faults, frame>>

-----------------------------------------------------------------------------
(* Seeder.Run                                                              *)

Holding == {t \in Tenants : pc[t] \notin {"idle", "done", "failed"}}

\* Mutant of Spawn: a tenant that meets a cancelled context leaves no error.
SpawnSilent(t) ==
    /\ main = "seeding" /\ pc[t] = "idle"
    /\ Cardinality(Holding) < Slots
    /\ pc' = [pc EXCEPT ![t] = IF ctxDone THEN "failed" ELSE FirstPhase(Plan[arch[t]][1])]
    /\ UNCHANGED <<at, tries, manifest, made, faults, frame>>

\* The main loop takes a slot and starts the next tenant.
Spawn(t) ==
    /\ main = "seeding" /\ pc[t] = "idle"
    /\ \A u \in Tenants : u < t => pc[u] # "idle"
    /\ Cardinality(Holding) < Slots
    /\ IF ctxDone
       THEN Fail(t)
       ELSE /\ pc' = [pc EXCEPT ![t] = FirstPhase(Plan[arch[t]][1])]
            /\ UNCHANGED <<at, tries, manifest>>
    /\ UNCHANGED <<made, faults, frame>>

\* The error is sent before the slot is freed; nobody receives until every
\* goroutine has returned.  A catalog's error is appended without a channel.
SendErr(t) ==
    /\ pc[t] = "failing"
    /\ errs < ErrCap \/ arch[t].catalog
    /\ errs' = errs + 1
    /\ pc' = [pc EXCEPT ![t] = "failed"]
    /\ UNCHANGED <<arch, ctxDone, main, at, tries, manifest, saved, made, gone,
                   todo, cleanErrs, faults>>

\* A goroutine is at its send, errCh is full, and nobody will ever receive.
Blocked == \E t \in Tenants : pc[t] = "failing" /\ errs >= ErrCap /\ ~arch[t].catalog

\* wg.Wait, Finalize and Save.
SeedReturns ==
    /\ main = "seeding"
    /\ \A t \in Tenants : pc[t] \in {"done", "failed"}
    /\ main' = "seeded"
    /\ \/ /\ saved' = TRUE
          /\ UNCHANGED <<errs, faults>>
       \/ /\ Faulty                        \* os.WriteFile fails
          /\ errs' = errs + 1
          /\ UNCHANGED saved
    /\ UNCHANGED <<arch, ctxDone, pc, at, tries, manifest, made, gone, todo,
                   cleanErrs>>

SeedNext ==
    \/ \E t \in Tenants :
          \/ Spawn(t) \/ CtxOver(t) \/ Get(t) \/ GetFails(t) \/ Post(t)
          \/ PostMissing(t) \/ PostUnanswered(t) \/ PostRefused(t)
          \/ PostConflict(t) \/ SendErr(t)
    \/ SeedReturns

-----------------------------------------------------------------------------
(* Clean                                                                   *)

\* The subscriptions the manifest has of customer i.
People(a) == IF a.catalog THEN a.people ELSE Len(a.customers)
Subscriptions(a, i) ==
    IF a.catalog THEN FlattenSeq([k \in 1..Len(a.subs) |-> Only(a.subs[k].customer = i, a.subs[k])])
    ELSE <<[customer |-> i, card |-> a.customers[i].card, mode |-> a.customers[i].mode,
            state |-> a.customers[i].state]>>

\* A subscription the manifest has as cancelled or expired is left alone.
Over(sub) == sub.state \in {"CANCELLED", "EXPIRED"}
SubscriptionOf(sub) == <<"subscription", sub.customer, sub.card>>
Live(a) == UNION {{SubscriptionOf(sub) : sub \in {x \in Range(Subscriptions(a, i)) : ~Over(x)}} :
                  i \in 1..People(a)}

\* The archive calls of a tenant; keys, payment methods, gateways, billing
\* entities and metrics have none.
archiveSubscription(a) ==
    FlattenSeq([i \in 1..People(a) |->
        LET subs == Subscriptions(a, i)
        IN  FlattenSeq([k \in 1..Len(subs) |-> Only(~Over(subs[k]), SubscriptionOf(subs[k]))])])
archiveOffering(a) == [c \in 1..a.cards |-> <<"offering", c>>]
archiveRatePlan(a) == [c \in 1..a.cards |-> <<"rate-plan", c>>]
archiveProduct(a) == [p \in 1..a.products |-> <<"product", p>>]
archiveWallet(a, i) ==
    LET subs == Subscriptions(a, i)
    IN  FlattenSeq([k \in 1..Len(subs) |-> Only(NeedsWallet(subs[k].mode), <<"wallet", i>>)])
archiveCustomer(a) ==
    FlattenSeq([i \in 1..People(a) |-> archiveWallet(a, i) \o <<<<"customer", i>>>>])
revokeIngestKey(a) == Only(~a.catalog /\ a.ingest, <<"ingest-key">>)
archiveTenant == <<<<"tenant">>>>

\* Mutant of CleanPlan: offerings go before the subscriptions that use them.
CleanPlanOfferingsFirst == [a \in Archetypes |->
    archiveOffering(a) \o archiveSubscription(a) \o archiveRatePlan(a)
      \o archiveProduct(a) \o archiveCustomer(a) \o revokeIngestKey(a)
      \o archiveTenant]

CleanPlan == [a \in Archetypes |->
    archiveSubscription(a) \o archiveOffering(a) \o archiveRatePlan(a)
      \o archiveProduct(a) \o archiveCustomer(a) \o revokeIngestKey(a)
      \o archiveTenant]

\* Clean begins with the manifest read back; over: its context is cancelled.
CleanStart(over) ==
    /\ main' = "cleaning"
    /\ ctxDone' = over
    /\ todo' = LET ts == SetToSeq(manifest)
                   of(t) == [j \in 1..Len(CleanPlan[arch[t]]) |-> <<t, CleanPlan[arch[t]][j]>>]
               IN  FlattenSeq([k \in 1..Len(ts) |-> of(ts[k])])
    /\ UNCHANGED <<arch, pc, at, tries, errs, manifest, saved, made, gone,
                   cleanErrs, faults>>

\* The platform does not archive an offering that has a live subscription.
Guarded(x) ==
    /\ x[2][1] = "offering"
    /\ \E e \in Live(arch[x[1]]) : e[3] = x[2][2] /\ <<x[1], e>> \notin gone

CleanFrame == <<arch, ctxDone, pc, at, errs, manifest, saved, made>>

NextArchive(failed) ==
    /\ todo' = Tail(todo)
    /\ tries' = [tries EXCEPT ![Cleaner] = 0]
    /\ cleanErrs' = cleanErrs + (IF failed THEN 1 ELSE 0)

\* An archive call of something archived before: 404 is success, except for
\* the ingest key; a second cancel may be refused.
ArchiveAgain(x) ==
    /\ x \in gone
    /\ \E failed \in BOOLEAN :
          /\ x[2][1] = "ingest-key" => failed
          /\ x[2][1] \notin {"ingest-key", "subscription"} => ~failed
          /\ NextArchive(failed)
    /\ UNCHANGED <<gone, faults>>

ArchiveOnce(x) ==
    /\ x \notin gone /\ ~Guarded(x)
    /\ gone' = gone \cup {x}
    /\ NextArchive(FALSE)
    /\ UNCHANGED faults

ArchiveFails(x) ==
    /\ ctxDone \/ Guarded(x)
    /\ NextArchive(TRUE)
    /\ UNCHANGED <<gone, faults>>

ArchiveUnanswered(x) ==
    /\ Faulty
    /\ gone' \in {gone} \cup IF Guarded(x) THEN {} ELSE {gone \cup {x}}
    /\ IF GivesUp(Cleaner)
       THEN NextArchive(TRUE)
       ELSE /\ tries' = [tries EXCEPT ![Cleaner] = @ + 1]
            /\ UNCHANGED <<todo, cleanErrs>>

Archive ==
    /\ main = "cleaning" /\ todo # <<>>
    /\ \/ ArchiveFails(Head(todo))
       \/ /\ ~ctxDone
          /\ \/ ArchiveOnce(Head(todo))
             \/ ArchiveAgain(Head(todo))
             \/ ArchiveUnanswered(Head(todo))
    /\ UNCHANGED <<CleanFrame, main>>

CleanReturns ==
    /\ main = "cleaning" /\ todo = <<>>
    /\ main' = "cleaned"
    /\ UNCHANGED <<CleanFrame, tries, gone, todo, cleanErrs, faults>>

SeedInit ==
    /\ arch \in Rosters
    /\ ctxDone = FALSE
    /\ main = "seeding"
    /\ pc = [t \in Tenants |-> "idle"]
    /\ at = [t \in Tenants |-> 1]
    /\ tries = [t \in Tenants \cup {Cleaner} |-> 0]
    /\ errs = 0
    /\ manifest = {}
    /\ saved = FALSE
    /\ made = [t \in Tenants |-> [e \in Entities(arch[t]) \cup Found(arch[t]) |->
                                     IF e \in Found(arch[t]) THEN 1 ELSE 0]]
    /\ gone = {}
    /\ todo = <<>>
    /\ cleanErrs = 0
    /\ faults = 0
=============================================================================
