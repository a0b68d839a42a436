----------------------------- MODULE ServiceAuth -----------------------------
(***************************************************************************)
(* Service tokens (internal/serviceauth) as the HTTP clients use them: a   *)
(* call makes several attempts, each attempt authorises its request, and   *)
(* the signer hands out a cached token or mints one.  The clock is read    *)
(* before the lock of the cache is taken, and the request travels before   *)
(* the target looks at the token.                                          *)
(***************************************************************************)
EXTENDS Integers, FiniteSets

CONSTANTS
    Callers,       \* goroutines sharing one Signer
    Requests,      \* [internal, url, svc, tenant, scope] of the calls they make
    Services,      \* Target.URLs: [svc, url] records
    AudienceRules, \* AudienceOverrides: [url, score, aud] records
    Configs,       \* [mint, send]: a token key, the shared key's opt-in
    Second,        \* clock ticks of a second
    TokenTTL, RefreshMargin,   \* in seconds
    maxCachedTokens,
    MaxRetries,
    MaxWait,       \* bound: ticks a caller waits for the lock of the cache
    MaxFlight,     \* bound: ticks a request travels
    MaxTime        \* bound: the clock stops here

VARIABLES
    time,      \* the clock of this process and of the target
    config,    \* Signer.cfg
    cache,     \* Signer.cache: token of a key
    call,      \* what each caller is doing
    arrival    \* history: the request that has just arrived and when

authVars == <<time, config, cache, call, arrival>>

ASSUME AuthAssumption ==
    /\ \A r \in Requests : r.internal \in BOOLEAN
    /\ Configs \subseteq [mint : BOOLEAN, send : BOOLEAN]
    /\ Second \in Nat \ {0}
    /\ RefreshMargin \in Nat /\ TokenTTL \in Nat /\ TokenTTL > RefreshMargin
    /\ maxCachedTokens \in Nat \ {0}
    /\ MaxTime \in Nat /\ MaxRetries \in Nat /\ MaxWait \in Nat /\ MaxFlight \in Nat
    /\ MaxWait + MaxFlight <= Second * RefreshMargin

NoToken == [key |-> <<>>, iat |-> -1]
Quiet == [state |-> "idle", req |-> <<>>, attempt |-> 0, at |-> 0, token |-> NoToken, shared |-> FALSE]
Nothing == [req |-> <<>>, token |-> NoToken, shared |-> FALSE, at |-> 0]
Silence == arrival' = Nothing

-----------------------------------------------------------------------------
(* Who the token is for.                                                   *)

DefaultAudiences == [organization |-> "organization-service", billing |-> "billing-service",
                     usage |-> "usage-ingestor-service"]

\* An override of the destination wins, the most specific first; then the
\* service the caller names; then the only service at that URL.
audience(r) ==
    LET rules == {x \in AudienceRules : x.url = r.url}
        matches == {DefaultAudiences[s.svc] : s \in {t \in Services : t.url = r.url}}
    IN  IF rules # {} THEN {(CHOOSE x \in rules : \A y \in rules : y.score <= x.score).aud}
        ELSE IF r.svc # "" THEN {DefaultAudiences[s] : s \in {r.svc} \cap DOMAIN DefaultAudiences}
        ELSE IF Cardinality(matches) = 1 THEN matches ELSE {}

CanMint == config.mint
SharedFallbackActive == config.send
HasCredential == CanMint \/ SharedFallbackActive

cacheKey(r) == <<CHOOSE a \in audience(r) : TRUE, r.tenant, r.scope>>

-----------------------------------------------------------------------------
(* Signer.Token.                                                           *)

\* Mint truncates iat to whole seconds.
Mint(k, now) == [key |-> k, iat |-> now \div Second]
exp(tok) == Second * (tok.iat + TokenTTL)
refreshAt(tok) == Second * (tok.iat + TokenTTL - RefreshMargin)

Store(k, tok) ==
    [x \in (IF Cardinality(DOMAIN cache) >= maxCachedTokens THEN {} ELSE DOMAIN cache) \cup {k} |->
        IF x = k THEN tok ELSE cache[x]]

\* Under the lock, with the time read before it.
Token(k, now, tok) ==
    IF k \in DOMAIN cache /\ now < refreshAt(cache[k])
    THEN tok = cache[k] /\ UNCHANGED cache
    ELSE tok = Mint(k, now) /\ cache' = Store(k, Mint(k, now))

-----------------------------------------------------------------------------
(* One call: Client.Do and doOnce.                                         *)

Begin(c) ==
    /\ call[c].state = "idle"
    /\ \E r \in Requests : call' = [call EXCEPT ![c] = [Quiet EXCEPT !.state = "slot", !.req = r]]
    /\ UNCHANGED <<time, config, cache>> /\ Silence

\* AuthorizeScoped: off the internal paths it adds nothing; without a
\* credential, or without an audience, the call fails before it is sent and is
\* not retried; otherwise the clock is read for the token.
AuthorizeScoped(c) ==
    LET r == call[c].req IN
    /\ call[c].state = "slot"
    /\ \/ /\ ~r.internal
          /\ call' = [call EXCEPT ![c].state = "wire", ![c].at = time]
       \/ /\ r.internal
          /\ ~HasCredential \/ (CanMint /\ audience(r) = {})
          /\ call' = [call EXCEPT ![c] = Quiet]
       \/ /\ r.internal /\ CanMint /\ audience(r) # {}
          /\ call' = [call EXCEPT ![c].state = "lock", ![c].at = time]
       \/ /\ r.internal /\ ~CanMint /\ SharedFallbackActive
          /\ call' = [call EXCEPT ![c].state = "wire", ![c].at = time, ![c].shared = TRUE]
    /\ UNCHANGED <<time, config, cache>> /\ Silence

GetToken(c) ==
    /\ call[c].state = "lock"
    /\ \E tok \in {Mint(cacheKey(call[c].req), call[c].at)} \cup {cache[k] : k \in DOMAIN cache} :
          /\ Token(cacheKey(call[c].req), call[c].at, tok)
          /\ call' = [call EXCEPT ![c].state = "wire", ![c].at = time, ![c].token = tok,
                                  ![c].shared = SharedFallbackActive]
    /\ UNCHANGED <<time, config>> /\ Silence

Arrive(c) ==
    /\ call[c].state = "wire"
    /\ arrival' = [req |-> call[c].req, token |-> call[c].token, shared |-> call[c].shared, at |-> time]
    /\ call' = [call EXCEPT ![c].state = "answer", ![c].at = 0]
    /\ UNCHANGED <<time, config, cache>>

\* Mutant of Retry: the attempt goes out with the token of the first one.
RetrySame(c) ==
    /\ call[c].state = "answer" /\ call[c].attempt < MaxRetries
    /\ call' = [call EXCEPT ![c].state = "wire", ![c].attempt = @ + 1, ![c].at = time]
    /\ UNCHANGED <<time, config, cache>> /\ Silence

\* A retryable answer: back off, take a slot and authorise again.
Retry(c) ==
    /\ call[c].state = "answer" /\ call[c].attempt < MaxRetries
    /\ call' = [call EXCEPT ![c] = [Quiet EXCEPT !.state = "slot", !.req = call[c].req,
                                                 !.attempt = call[c].attempt + 1]]
    /\ UNCHANGED <<time, config, cache>> /\ Silence

Finish(c) ==
    /\ call[c].state = "answer"
    /\ call' = [call EXCEPT ![c] = Quiet]
    /\ UNCHANGED <<time, config, cache>> /\ Silence

\* Waits for the lock and transmission end within their bounds.
TimePasses ==
    /\ time < MaxTime
    /\ \A c \in Callers : /\ call[c].state = "lock" => time + 1 - call[c].at <= MaxWait
                          /\ call[c].state = "wire" => time + 1 - call[c].at <= MaxFlight
    /\ time' = time + 1
    /\ UNCHANGED <<config, cache, call>> /\ Silence

AuthInit ==
    /\ time = 0 /\ config \in Configs
    /\ cache = [k \in {} |-> NoToken]
    /\ call = [c \in Callers |-> Quiet]
    /\ arrival = Nothing

AuthNext ==
    \/ TimePasses
    \/ \E c \in Callers : Begin(c) \/ AuthorizeScoped(c) \/ GetToken(c) \/ Arrive(c) \/ Retry(c) \/ Finish(c)

AuthSpec == AuthInit /\ [][AuthNext]_authVars

-----------------------------------------------------------------------------
(* Properties.                                                             *)

AuthTypeOK ==
    /\ time \in 0..MaxTime /\ config \in Configs
    /\ \A k \in DOMAIN cache : cache[k].key = k /\ cache[k].iat \in 0..MaxTime
    /\ \A c \in Callers : call[c].state \in {"idle", "slot", "lock", "wire", "answer"}

\* Every token that reaches the target is for it, for the tenant and the
\* scopes of the request, already issued and not yet expired: a wait for the
\* lock, a slow request or a retry after a long backoff does not make it stale.
TokensAccepted ==
    arrival.token # NoToken =>
        /\ arrival.token.key = cacheKey(arrival.req)
        /\ Second * arrival.token.iat <= arrival.at
        /\ arrival.at < exp(arrival.token)

\* A request to an internal endpoint never arrives without a credential, and
\* no credential arrives anywhere else; the shared key only if it was opted in.
CredentialsWhereDue ==
    arrival.req # <<>> =>
        /\ arrival.req.internal <=> (arrival.token # NoToken \/ arrival.shared)
        /\ arrival.shared => config.send

\* The cache never holds more than maxCachedTokens tokens.
CacheBounded == Cardinality(DOMAIN cache) <= maxCachedTokens

\* Every internal call arrives with the credential it needs, still valid after
\* any wait or retry, no other call carries one, and the cache stays bounded.
CredentialsSound == AuthTypeOK /\ TokensAccepted /\ CredentialsWhereDue /\ CacheBounded
=============================================================================
