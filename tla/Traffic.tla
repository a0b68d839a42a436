------------------------------- MODULE Traffic -------------------------------
(***************************************************************************)
(* The run command (internal/cli/run.go) and the partitioned run of        *)
(* internal/runner: the manifest is split over partitions, each runs its   *)
(* own generator, accounts for every answer and builds a result, and the   *)
(* results are merged into one.  What lies between an event and its answer *)
(* is the business of Pipeline; here an event is made and answered in one  *)
(* step.                                                                   *)
(***************************************************************************)
EXTENDS Generator, Bags

CONSTANTS
    Jobs,   \* runs to start: [manifest, hash, partitions, scenario, sources, ack, local, hours, events]
            \* sources: the tenants with a webhook source; events is a bound
    Lags    \* how late an event may be made, in minutes

VARIABLES
    job,     \* what the command was called with
    command, \* "new", "refused", "running" or "done"
    chunks,  \* manifest of each partition
    shard,   \* each partition's runner: [phase, tps, result]
    merged,  \* the result on disk under the command's directory, or <<>>
    sent     \* history: the events of the run with their answers

trafficVars == <<job, command, chunks, shard, merged, sent>>

\* Ids, external ids and subscription ids are unique, an ingest key is nobody's
\* API key and not the one wrong_auth makes up, and a scenario has a rate.
JobOK(j) ==
    /\ j.manifest \in Seq(Range(j.manifest)) /\ j.partitions \in Int
    /\ j.scenario.tps \in Nat \ {0} /\ DOMAIN j.scenario.shares = Range(NegativeKinds)
    /\ \A i, k \in DOMAIN j.manifest : i # k => j.manifest[i].id # j.manifest[k].id /\ j.manifest[i].ext # j.manifest[k].ext
    /\ \A t \in Range(j.manifest) :
          /\ t.ext \in Int /\ j.hash[t.id] \in Nat /\ t.ingest # "fabricated" /\ t.subs \in Seq(Range(t.subs))
          /\ \A s \in Range(t.subs) : s.id \in Int /\ \A k \in Range(s.keys) : k.secret # ""
    /\ \A t, u \in Range(j.manifest) : \A s \in Range(t.subs) :
          /\ \A k \in Range(s.keys) : k.secret # u.ingest
          /\ \A r \in Range(u.subs) : r.id = s.id => r = s

ASSUME TrafficAssumption ==
    /\ Lags \subseteq Nat /\ \A j \in Jobs : JobOK(j)
    /\ \A b \in Bodies : \A f \in DOMAIN b.fields : b.fields[f] \in Int

highTPSThreshold == 1000
localLongRunGuardThreshold == 1
-----------------------------------------------------------------------------
(* Splitting the work.                                                     *)

FinalizeChunk(c) == SortedBy(Range(c), [t \in Range(c) |-> t.ext])

FirstOf(S) == CHOOSE i \in S : \A j \in S : i <= j
Largest(cs) == FirstOf({i \in DOMAIN cs : \A j \in DOMAIN cs : Len(cs[i]) >= Len(cs[j])})

\* Mutant of redistributeOneTenant: the tenant stays where it was, too.
redistributeCopies(cs) ==
    LET empty == FirstOf({i \in DOMAIN cs : cs[i] = <<>>})
    IN  [cs EXCEPT ![empty] = <<Last(cs[Largest(cs)])>>]

\* The last tenant of the largest partition moves to the first empty one.
redistributeOneTenant(cs) ==
    LET large == Largest(cs)
        empty == FirstOf({i \in DOMAIN cs : cs[i] = <<>>})
    IN  IF Len(cs[large]) <= 1 THEN cs
        ELSE [cs EXCEPT ![large] = FinalizeChunk(Front(@)), ![empty] = <<Last(cs[large])>>]

\* The places S of m in their order.
Picked(m, S) ==
    LET order == SortedBy(S, [i \in S |-> i])
    IN  [k \in DOMAIN order |-> m[order[k]]]

\* Every tenant is appended to the partition its id falls on; hash stands for
\* fnv32a of the id.
Hashed(m, hash, n) == [c \in 1..n |-> Picked(m, {i \in DOMAIN m : hash[m[i].id] % n = c - 1})]

\* The loop's step for partition i: sorted, and filled if nothing fell on it.
Filled(cs, i) ==
    LET next == [cs EXCEPT ![i] = FinalizeChunk(@)]
    IN  IF next[i] = <<>> THEN redistributeOneTenant(next) ELSE next

partitionManifest(m, hash, n) ==
    LET after[i \in 0..n] == IF i = 0 THEN Hashed(m, hash, n) ELSE Filled(after[i - 1], i)
    IN  after[n]

splitTPS(total, n) ==
    [i \in 1..n |-> LET share == (total \div n) + (IF i <= total % n THEN 1 ELSE 0)
                    IN  IF total > 0 /\ share = 0 THEN 1 ELSE share]
-----------------------------------------------------------------------------
(* Accounts.                                                               *)

NoUsage == [events |-> 0, quantity |-> 0, max |-> 0, byStatus |-> <<>>]
NoStatus == [events |-> 0, quantity |-> 0]
At(f, k, zero) == IF k \in DOMAIN f THEN f[k] ELSE zero
Joined(f, g, Op(_, _), zero) == [k \in DOMAIN f \cup DOMAIN g |-> Op(At(f, k, zero), At(g, k, zero))]

SumStatus(a, b) == [events |-> a.events + b.events, quantity |-> a.quantity + b.quantity]
Higher(a, b) == IF b > a THEN b ELSE a

\* MetricUsage.merge; an event is merged as the usage of that event.
mergeUsage(u, o) ==
    [events |-> u.events + o.events, quantity |-> u.quantity + o.quantity, max |-> Higher(u.max, o.max),
     byStatus |-> Joined(u.byStatus, o.byStatus, SumStatus, NoStatus)]
mergeMetricUsage(dst, src) == Joined(dst, src, mergeUsage, NoUsage)

add(u, q, status) ==
    mergeUsage(u, [events |-> 1, quantity |-> q, max |-> q, byStatus |-> [s \in {status} |-> [events |-> 1, quantity |-> q]]])
Record(usage, e) ==
    [k \in DOMAIN usage \cup {<<e.tenant, e.metric>>} |->
        IF k = <<e.tenant, e.metric>> THEN add(At(usage, k, NoUsage), e.quantity, e.status) ELSE usage[k]]

NoResult ==
    [generated |-> 0, classes |-> EmptyBag, expected |-> 0, negative |-> EmptyBag,
     perTenant |-> EmptyBag, perProductType |-> EmptyBag, perPath |-> EmptyBag, usage |-> <<>>]

IsSuccess(status) == status \in 200..299
IsClientError(status) == status \in 400..499
IsServerError(status) == status >= 500
Class(status) == CASE IsSuccess(status) -> "ok" [] IsClientError(status) -> "client"
                   [] IsServerError(status) -> "server" [] OTHER -> "transport"
ExpectedFailure(e, status) ==
    \/ e.negative = "late_event" /\ IsSuccess(status)
    \/ e.negative \in {"future_event", "malformed", "oversize"} /\ IsClientError(status)
    \/ e.negative \in {"wrong_auth", "stale_key"} /\ status \in {401, 403}

Plus(bag, x) == bag (+) SetToBag({x})

\* Usage is what was answered with success; the counters take every answer.
onResult(r, e, status) ==
    [r EXCEPT !.perTenant = Plus(@, e.tenant), !.perProductType = Plus(@, e.type), !.perPath = Plus(@, e.path),
              !.usage = IF IsSuccess(status) THEN Record(@, e) ELSE @]

Dispatch(r, e, status) ==
    [r EXCEPT !.generated = @ + 1, !.classes = Plus(@, Class(status)),
              !.expected = IF ExpectedFailure(e, status) THEN @ + 1 ELSE @,
              !.negative = IF e.negative # "" THEN Plus(@, e.negative) ELSE @]

mergeResult(m, r) ==
    [generated |-> m.generated + r.generated, classes |-> m.classes (+) r.classes, expected |-> m.expected + r.expected,
     negative |-> m.negative (+) r.negative, perTenant |-> m.perTenant (+) r.perTenant,
     perProductType |-> m.perProductType (+) r.perProductType, perPath |-> m.perPath (+) r.perPath,
     usage |-> mergeMetricUsage(m.usage, r.usage)]
mergeResults(rs) ==
    LET upTo[i \in 0..Len(rs)] == IF i = 0 THEN NoResult ELSE mergeResult(upTo[i - 1], rs[i])
    IN  upTo[Len(rs)]
-----------------------------------------------------------------------------
(* What the drivers make of an event, and what they are answered.          *)

\* The drivers of one product type call a server of the tenant's, with a body
\* of their own, or the platform; an event of another type is an error.
ServerPaths == {"mcp_jsonrpc", "ai_agent_wire"}
Speaks(e) ==
    /\ e.path \in {"ai_agent_rest", "ai_agent_wire"} => e.type = "AI_AGENT"
    /\ e.path = "mcp_jsonrpc" => e.type = "MCP_SERVER"

\* The one credential a request carries, on the paths of the endpoint.
applyAuthHeaders(e) ==
    IF e.ingest # "" THEN e.ingest ELSE IF e.token # "" THEN e.token ELSE AdminToken

\* The agent driver knows no admin token; "" is a request without a credential.
Credential(e) ==
    IF e.path = "ai_agent_rest" THEN IF e.ingest # "" THEN e.ingest ELSE e.token
    ELSE applyAuthHeaders(e)

\* The agent driver sends the envelope whatever RawBody says.
SendsRaw(e) == e.raw /\ e.path # "ai_agent_rest"

IngestKeys(id) == {t.ingest : t \in {x \in Range(job.manifest) : x.id = id}} \ {""}

\* Only ingest keys open the endpoint.  A webhook is signed with the secret of
\* the tenant's source and carries no key at all.
Opens(e) ==
    IF e.path = "webhook_receiver" THEN e.tenant \in job.sources
    ELSE Credential(e) \in IngestKeys(e.tenant)

\* Times up to five minutes ahead are taken.
IngestStatus(e, now) ==
    IF ~Opens(e) THEN IF e.path = "webhook_receiver" THEN 404 ELSE 401
    ELSE IF e.oversize THEN 413
    ELSE IF SendsRaw(e) THEN 400
    ELSE IF e.at > now + 5 THEN 422
    ELSE IF e.quantity <= 0 THEN 400 ELSE 202

\* What the driver may return: the platform's answer, a 5xx or none.  A row of
\* a CSV file is answered 202 when it is buffered, and the row that fills the
\* file gets the answer to the upload, which goes out under its credential.
Responses(e) ==
    IF ~Speaks(e) THEN {0}
    ELSE {503, 0} \cup CASE e.path \in ServerPaths -> {200, 400, 401}
                        [] e.path = "csv_upload" -> {202} \cup (IF Opens(e) THEN {} ELSE {401})
                        [] OTHER -> {IngestStatus(e, 0)}
-----------------------------------------------------------------------------
(* The command.                                                            *)

TrafficInit(jobs) ==
    /\ job \in jobs
    /\ command = "new" /\ chunks = <<>> /\ shard = <<>> /\ merged = <<>> /\ sent = <<>>

Admitted ==
    /\ job.local /\ job.hours > localLongRunGuardThreshold => job.ack
    /\ job.scenario.tps > highTPSThreshold => job.ack
    /\ job.partitions \in 1..Len(job.manifest)

runRunRefuses ==
    /\ command = "new" /\ ~Admitted
    /\ command' = "refused"
    /\ UNCHANGED <<job, chunks, shard, merged, sent>>

RunDistributed ==
    /\ command = "new" /\ Admitted
    /\ command' = "running"
    /\ chunks' = partitionManifest(job.manifest, job.hash, job.partitions)
    /\ shard' = [i \in 1..job.partitions |->
                    [phase |-> "new", tps |-> splitTPS(job.scenario.tps, job.partitions)[i], result |-> NoResult]]
    /\ UNCHANGED <<job, merged, sent>>

\* NewGenerator refuses a partition without a usable tenant, and one without
\* a revoked key when the scenario injects stale keys.
NewRunner(i) ==
    /\ command = "running" /\ shard[i].phase = "new"
    /\ shard' = [shard EXCEPT ![i].phase =
                    IF indexTenants(chunks[i]) # {} /\ NewNegativePathPlanner(job.scenario.shares, chunks[i])
                    THEN "running" ELSE "failed"]
    /\ UNCHANGED <<job, command, chunks, merged, sent>>

\* An event and its answer.
Send(i) ==
    /\ command = "running" /\ shard[i].phase = "running" /\ Len(sent) < job.events
    /\ \E lag \in Lags : \E e \in produce(chunks[i], job.scenario, -lag) : \E status \in Responses(e) :
          /\ shard' = [shard EXCEPT ![i].result = onResult(Dispatch(@, e, status), e, status)]
          /\ sent' = Append(sent, [event |-> e, lag |-> lag, status |-> status])
    /\ UNCHANGED <<job, command, chunks, merged>>

\* The duration is over or the run is interrupted.
RunEnds(i) ==
    /\ command = "running" /\ shard[i].phase = "running"
    /\ shard' = [shard EXCEPT ![i].phase = "done"]
    /\ UNCHANGED <<job, command, chunks, merged, sent>>

\* All partitions are waited for; one that could not start spoils the rest.
Merge ==
    /\ command = "running" /\ \A i \in DOMAIN shard : shard[i].phase \in {"done", "failed"}
    /\ command' = "done"
    /\ merged' = IF \E i \in DOMAIN shard : shard[i].phase = "failed" THEN <<>>
                 ELSE mergeResults([i \in DOMAIN shard |-> shard[i].result])
    /\ UNCHANGED <<job, chunks, shard, sent>>

TrafficNext == runRunRefuses \/ RunDistributed \/ Merge \/ \E i \in DOMAIN shard : NewRunner(i) \/ Send(i) \/ RunEnds(i)
-----------------------------------------------------------------------------
\* Every tenant of the manifest is driven by exactly one partition, none of
\* which is empty, whatever the hashes (partitionManifest), and the shares of
\* the rate add up to it, or to one per partition if that is more (splitTPS).
PartitionsComplete ==
    chunks # <<>> =>
        /\ \A t \in Range(job.manifest) : \E c \in DOMAIN chunks : \E k \in DOMAIN chunks[c] :
              /\ chunks[c][k] = t
              /\ \A d \in DOMAIN chunks : \A l \in DOMAIN chunks[d] : chunks[d][l] = t => d = c /\ l = k
        /\ \A c \in DOMAIN chunks : chunks[c] # <<>> /\ Range(chunks[c]) \subseteq Range(job.manifest)
        /\ WeightOf([c \in DOMAIN shard |-> shard[c].tps]) = Higher(job.scenario.tps, job.partitions)

\* The quantity of the answers S of the run.
QuantityOf(S) == WeightOf([i \in S |-> sent[i].event.quantity])

\* The merged result says of every tenant what was sent for it, and of every
\* tenant, metric and status exactly the usage of the events that were answered
\* with success (onResult, Record, mergeResults): billing is validated against
\* it.  What the platform holds is less where an answer comes before the upload
\* or from the tenant's own server (Responses).
MergedIsWhole ==
    merged # <<>> =>
        /\ merged.generated = Len(sent)
        /\ \A i \in DOMAIN sent : LET e == sent[i].event IN
              /\ At(merged.perTenant, e.tenant, 0) = Cardinality({j \in DOMAIN sent : sent[j].event.tenant = e.tenant})
              /\ LET mine == {j \in DOMAIN sent : <<sent[j].event.tenant, sent[j].event.metric>> = <<e.tenant, e.metric>> /\ IsSuccess(sent[j].status)}
                     same == {j \in mine : sent[j].event.status = e.status}
                     u == At(merged.usage, <<e.tenant, e.metric>>, NoUsage)
                 IN  /\ u.events = Cardinality(mine) /\ u.quantity = QuantityOf(mine)
                     /\ \A j \in mine : sent[j].event.quantity <= u.max
                     /\ At(u.byStatus, e.status, NoStatus) = [events |-> Cardinality(same), quantity |-> QuantityOf(same)]

\* The platform sees every event of the path, and knows the tenant by it: it
\* has a source for webhooks, an ingest key for the other paths.
Reaches(e) ==
    /\ Speaks(e) /\ e.path \notin ServerPaths \cup {"csv_upload"}
    /\ IF e.path = "webhook_receiver" THEN e.tenant \in job.sources
       ELSE \E t \in Range(job.manifest) : t.id = e.tenant /\ t.ingest # ""

\* A fault the path does not carry: a webhook has no key, and the agent driver
\* no raw body.
Uncarried(e) ==
    \/ e.path = "webhook_receiver" /\ e.negative \in {"wrong_auth", "stale_key"}
    \/ e.path = "ai_agent_rest" /\ e.negative = "malformed"

\* What is tagged as a fault is refused by the platform for it, and what is
\* not, or only late, is accepted, on every path that reaches the platform
\* with each event: the key that is sent is the fault's and no valid one
\* beside it (injectWrongAuth, injectStaleKey, applyAuthHeaders), and the
\* quantity is positive.  An event made five minutes late is no longer in the
\* future, and a fault that its path does not carry is accepted like any other
\* event, although the accounts have it as that fault.  Nothing is said of
\* CSV uploads, which answer for an event before it is sent, nor of the paths
\* to the tenants' own servers.
FaultsAsTagged ==
    \A i \in DOMAIN sent : LET e == sent[i].event IN
        Reaches(e) =>
            CASE e.negative \in {"", "late_event"} \/ Uncarried(e) -> IngestStatus(e, 0) = 202
              [] e.negative = "future_event" -> sent[i].lag < 5 => IngestStatus(e, 0) = 422
              [] OTHER -> ExpectedFailure(e, IngestStatus(e, 0))

\* The key of a stale_key event is a revoked one of the very subscription the
\* event names in its log row and its header (collectStaleSubs sorts the
\* subscriptions and must sort the keys with them).
StaleKeysAligned ==
    \A i \in DOMAIN sent : LET e == sent[i].event IN
        e.negative = "stale_key" =>
            \E t \in Range(job.manifest) : \E s \in Range(t.subs) :
                s.id = e.stale /\ \E k \in Range(s.keys) : k.revoked /\ k.secret = e.token

TrafficTypeOK ==
    /\ command \in {"new", "refused", "running", "done"}
    /\ \A i \in DOMAIN shard : shard[i].phase \in {"new", "running", "done", "failed"}

\* A partitioned run is one run: every tenant is in one partition with its
\* share of the load, the merged result is the sum of what was sent and
\* answered with success, and where the platform sees every event of a path,
\* each fault the path can carry is refused as its event is tagged.
TrafficSound ==
    TrafficTypeOK /\ PartitionsComplete /\ MergedIsWhole /\ FaultsAsTagged /\ StaleKeysAligned
=============================================================================
