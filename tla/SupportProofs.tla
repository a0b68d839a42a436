--------------------------- MODULE SupportProofs ---------------------------
(***************************************************************************)
(* Theorems about the parts that Support puts side by side: first of each  *)
(* part's own specification, then of Support's, whose steps are steps of   *)
(* one part that leave the others alone.                                   *)
(***************************************************************************)
EXTENDS Support, TLAPS, FiniteSetTheorems, SequenceTheorems, WellFoundedInduction

-----------------------------------------------------------------------------
(***************************************************************************)
(* Service tokens.  The clock only moves on while nobody waits longer than *)
(* MaxWait for the cache and no request travels longer than MaxFlight, so  *)
(* a token that was not due for a refresh when the clock was read is still *)
(* valid when it arrives: that is what RefreshMargin is for.               *)
(***************************************************************************)
Keys  == {cacheKey(r) : r \in Requests} \cup {<<>>}
Tokens == [key : Keys, iat : Int]
Call  == [state : {"idle", "slot", "lock", "wire", "answer"}, req : Requests \cup {<<>>},
          attempt : Nat, at : Nat, token : Tokens, shared : BOOLEAN]

\* The credential a request on the wire carries.
Carries(v) ==
    /\ v.req.internal <=> (v.token # NoToken \/ v.shared)
    /\ v.shared => config.send
    /\ v.token # NoToken =>
         /\ v.token.key = cacheKey(v.req)
         /\ Second * v.token.iat <= v.at
         /\ v.at < refreshAt(v.token) + MaxWait

CallInv(v) ==
    /\ v \in Call
    /\ v.state # "idle" => v.req \in Requests
    /\ v.state \in {"idle", "slot", "lock"} => v.token = NoToken /\ ~v.shared
    /\ v.state = "lock" => v.req.internal /\ v.at <= time /\ time - v.at <= MaxWait
    /\ v.state = "wire" => Carries(v) /\ v.at <= time /\ time - v.at <= MaxFlight

CacheInv ==
    /\ IsFiniteSet(DOMAIN cache)
    /\ \A k \in DOMAIN cache :
         /\ cache[k] \in Tokens /\ cache[k].key = k
         /\ cache[k].iat \in 0..MaxTime /\ Second * cache[k].iat <= time

AuthInv ==
    /\ time \in 0..MaxTime /\ config \in Configs
    /\ CacheInv /\ CacheBounded
    /\ call \in [Callers -> Call] /\ \A c \in Callers : CallInv(call[c])
    /\ TokensAccepted /\ CredentialsWhereDue

LEMMA AuthInitInv == AuthInit => AuthInv
  <1> SUFFICES ASSUME AuthInit PROVE AuthInv
    OBVIOUS
  <1> USE AuthAssumption
  <1>1. NoToken \in Tokens
    BY DEF NoToken, Tokens, Keys
  <1>2. Quiet \in Call
    BY <1>1 DEF Quiet, Call
  <1>3. \A c \in Callers : CallInv(call[c])
    BY <1>2 DEF AuthInit, CallInv, Quiet
  <1>4. DOMAIN cache = {}
    BY DEF AuthInit
  <1>5. CacheInv /\ CacheBounded
    BY <1>4, FS_EmptySet DEF CacheInv, CacheBounded
  <1>6. TokensAccepted /\ CredentialsWhereDue
    BY DEF AuthInit, Nothing, TokensAccepted, CredentialsWhereDue
  <1>7. time \in 0..MaxTime /\ config \in Configs
    BY DEF AuthInit
  <1>8. call \in [Callers -> Call]
    BY <1>2 DEF AuthInit
  <1> QED
    BY <1>3, <1>5, <1>6, <1>7, <1>8 DEF AuthInv

\* A minted token is not due for a refresh, is issued, and is not the absent one.
LEMMA Minted ==
    ASSUME NEW k \in Keys, NEW now \in 0..MaxTime
    PROVE  /\ Mint(k, now) \in Tokens /\ Mint(k, now).key = k
           /\ Mint(k, now).iat \in 0..MaxTime
           /\ Second * Mint(k, now).iat <= now
           /\ now < refreshAt(Mint(k, now))
           /\ Mint(k, now) # NoToken
  <1> USE AuthAssumption
  <1> DEFINE q == now \div Second
  <1>1. q \in Nat /\ Second * q <= now /\ now < Second * q + Second
    OBVIOUS
  <1>2. q <= now
    BY <1>1
  <1> HIDE DEF q
  <1>3. Mint(k, now) = [key |-> k, iat |-> q]
    BY DEF Mint, q
  <1>4. q + TokenTTL - RefreshMargin >= q + 1
    BY <1>1
  <1>5. Second * (q + TokenTTL - RefreshMargin) >= Second * (q + 1)
    BY <1>1, <1>4
  <1>6. Second * (q + 1) = Second * q + Second
    BY <1>1
  <1>7. now < Second * (q + TokenTTL - RefreshMargin)
    BY <1>1, <1>5, <1>6
  <1>8. q # -1
    BY <1>1
  <1> QED
    BY <1>1, <1>2, <1>3, <1>7, <1>8 DEF refreshAt, Tokens, NoToken

\* A token lives RefreshMargin seconds beyond its refresh.
LEMMA Margin ==
    ASSUME NEW t \in Tokens
    PROVE  /\ exp(t) = refreshAt(t) + Second * RefreshMargin
           /\ refreshAt(t) \in Int
  <1> USE AuthAssumption
  <1>1. t.iat \in Int
    BY DEF Tokens
  <1> QED
    BY <1>1 DEF exp, refreshAt

\* The record of a caller that got its token, and of one that tries again.
LEMMA CallWithToken ==
    ASSUME NEW v \in Call, NEW t \in Nat, NEW k \in Tokens, NEW b \in BOOLEAN
    PROVE  [v EXCEPT !.state = "wire", !.at = t, !.token = k, !.shared = b] \in Call
  BY DEF Call

LEMMA CallAgain ==
    ASSUME NEW r \in Requests, NEW a \in Nat
    PROVE  LET n == [Quiet EXCEPT !.state = "slot", !.req = r, !.attempt = a]
           IN  n \in Call /\ n.state = "slot" /\ n.req = r /\ n.token = NoToken /\ ~n.shared
  <1>1. NoToken \in Tokens
    BY DEF NoToken, Tokens, Keys
  <1> QED
    BY <1>1 DEF Quiet, Call

\* One caller's record is replaced while the clock stands still.
LEMMA CallUpdate ==
    ASSUME AuthInv, NEW c \in Callers, NEW n, CallInv(n),
           call' = [call EXCEPT ![c] = n], UNCHANGED <<time, config>>
    PROVE  call' \in [Callers -> Call] /\ \A d \in Callers : CallInv(call[d])'
  <1>1. n \in Call
    BY DEF CallInv
  <1>2. call' \in [Callers -> Call]
    BY <1>1 DEF AuthInv
  <1>3. ASSUME NEW d \in Callers PROVE CallInv(call[d])'
    <2>1. CallInv(call'[d])
      BY DEF AuthInv
    <2> QED
      BY <2>1 DEF CallInv, Carries
  <1> QED
    BY <1>2, <1>3

\* What the shared parts of the state need when nothing has arrived.
LEMMA Silent ==
    ASSUME Silence PROVE TokensAccepted' /\ CredentialsWhereDue'
  BY DEF Silence, Nothing, TokensAccepted, CredentialsWhereDue

LEMMA AuthStep == AuthInv /\ [AuthNext]_authVars => AuthInv'
  <1> SUFFICES ASSUME AuthInv, [AuthNext]_authVars PROVE AuthInv'
    OBVIOUS
  <1> USE AuthAssumption
  <1>a. NoToken \in Tokens /\ Quiet \in Call
    BY DEF NoToken, Tokens, Keys, Quiet, Call
  <1>b. ASSUME UNCHANGED <<time, config, cache>>, Silence,
               call' \in [Callers -> Call], \A d \in Callers : CallInv(call[d])'
        PROVE  AuthInv'
    BY <1>b, Silent DEF AuthInv, CacheInv, CacheBounded
  <1>0. CASE UNCHANGED authVars
    BY <1>0 DEF authVars, AuthInv, CacheInv, CacheBounded, CallInv, Carries, TokensAccepted,
       CredentialsWhereDue
  <1>1. CASE TimePasses
    <2>1. time' \in 0..MaxTime /\ time' = time + 1 /\ time \in Nat
      BY <1>1 DEF TimePasses, AuthInv
    <2>2. CacheInv'
      <3>1. ASSUME NEW k \in DOMAIN cache
            PROVE  Second * cache[k].iat <= time + 1
        <4>1. cache[k].iat \in Nat /\ Second * cache[k].iat <= time
          BY DEF AuthInv, CacheInv
        <4> QED
          BY <2>1, <4>1
      <3> QED
        BY <1>1, <2>1, <3>1 DEF TimePasses, AuthInv, CacheInv
    <2>3. ASSUME NEW d \in Callers PROVE CallInv(call[d])'
      <3>1. CallInv(call[d]) /\ call[d].at \in Nat
        BY DEF AuthInv, Call
      <3>2. /\ call[d].state = "lock" => time + 1 - call[d].at <= MaxWait
            /\ call[d].state = "wire" => time + 1 - call[d].at <= MaxFlight
            /\ UNCHANGED <<call, config>>
        BY <1>1 DEF TimePasses
      <3> QED
        BY <2>1, <3>1, <3>2 DEF CallInv, Carries
    <2> QED
      BY <1>1, <2>1, <2>2, <2>3, Silent DEF TimePasses, AuthInv, CacheBounded
  <1>2. ASSUME NEW c \in Callers, Begin(c) PROVE AuthInv'
    <2>1. PICK r \in Requests :
            call' = [call EXCEPT ![c] = [Quiet EXCEPT !.state = "slot", !.req = r]]
      BY <1>2 DEF Begin
    <2> DEFINE n == [Quiet EXCEPT !.state = "slot", !.req = r]
    <2>2. n \in Call /\ n.state = "slot" /\ n.req = r /\ n.token = NoToken /\ ~n.shared
      BY <1>a DEF Quiet, Call
    <2> HIDE DEF n
    <2>3. CallInv(n)
      BY <2>2 DEF CallInv
    <2>4. call' = [call EXCEPT ![c] = n]
      BY <2>1 DEF n
    <2> QED
      BY <1>2, <1>b, <2>3, <2>4, CallUpdate DEF Begin
  <1>3. ASSUME NEW c \in Callers, AuthorizeScoped(c) PROVE AuthInv'
    <2> DEFINE v == call[c]
    <2>0. /\ v \in Call /\ v.req \in Requests /\ v.token = NoToken /\ v.shared = FALSE
          /\ time \in Nat /\ config \in Configs
      BY <1>3 DEF AuthorizeScoped, AuthInv, CallInv, Call
    <2>1. CASE call' = [call EXCEPT ![c].state = "wire", ![c].at = time] /\ ~v.req.internal
      <3> DEFINE n == [v EXCEPT !.state = "wire", !.at = time]
      <3>1. n \in Call
        BY <2>0 DEF Call
      <3>2. /\ n.state = "wire" /\ n.at = time /\ n.req = v.req /\ n.token = NoToken
            /\ n.shared = FALSE
        BY <2>0 DEF Call
      <3>3. call' = [call EXCEPT ![c] = n]
        BY <2>1
      <3> HIDE DEF n
      <3>4. CallInv(n)
        BY <2>0, <2>1, <3>1, <3>2 DEF CallInv, Carries
      <3> QED
        BY <1>3, <1>b, <3>3, <3>4, CallUpdate DEF AuthorizeScoped
    <2>2. CASE call' = [call EXCEPT ![c] = Quiet]
      <3>1. CallInv(Quiet)
        BY <1>a DEF CallInv, Quiet
      <3> QED
        BY <1>3, <1>b, <2>2, <3>1, CallUpdate DEF AuthorizeScoped
    <2>3. CASE call' = [call EXCEPT ![c].state = "lock", ![c].at = time] /\ v.req.internal
      <3> DEFINE n == [v EXCEPT !.state = "lock", !.at = time]
      <3>1. n \in Call
        BY <2>0 DEF Call
      <3>2. /\ n.state = "lock" /\ n.at = time /\ n.req = v.req /\ n.token = NoToken
            /\ n.shared = FALSE
        BY <2>0 DEF Call
      <3>3. call' = [call EXCEPT ![c] = n]
        BY <2>3
      <3> HIDE DEF n
      <3>4. CallInv(n)
        BY <2>0, <2>3, <3>1, <3>2 DEF CallInv
      <3> QED
        BY <1>3, <1>b, <3>3, <3>4, CallUpdate DEF AuthorizeScoped
    <2>4. CASE /\ call' = [call EXCEPT ![c].state = "wire", ![c].at = time, ![c].shared = TRUE]
               /\ v.req.internal /\ SharedFallbackActive
      <3> DEFINE n == [v EXCEPT !.state = "wire", !.at = time, !.shared = TRUE]
      <3>1. n \in Call
        BY <2>0 DEF Call
      <3>2. /\ n.state = "wire" /\ n.at = time /\ n.req = v.req /\ n.token = NoToken
            /\ n.shared = TRUE
        BY <2>0 DEF Call
      <3>3. call' = [call EXCEPT ![c] = n]
        BY <2>4
      <3> HIDE DEF n
      <3>4. CallInv(n)
        BY <2>0, <2>4, <3>1, <3>2 DEF CallInv, Carries, SharedFallbackActive
      <3> QED
        BY <1>3, <1>b, <3>3, <3>4, CallUpdate DEF AuthorizeScoped
    <2> QED
      BY <1>3, <2>1, <2>2, <2>3, <2>4 DEF AuthorizeScoped
  <1>4. ASSUME NEW c \in Callers, GetToken(c) PROVE AuthInv'
    <2> DEFINE v == call[c]
               k == cacheKey(v.req)
    <2>0. /\ v \in Call /\ v.req \in Requests /\ v.req.internal /\ v.shared = FALSE
          /\ v.at \in Nat /\ v.at <= time /\ time - v.at <= MaxWait
          /\ time \in 0..MaxTime /\ config \in Configs
      BY <1>4 DEF GetToken, AuthInv, CallInv, Call
    <2>1. k \in Keys /\ v.at \in 0..MaxTime
      BY <2>0 DEF Keys
    <2>2. PICK tok :
            /\ Token(k, v.at, tok)
            /\ call' = [call EXCEPT ![c].state = "wire", ![c].at = time, ![c].token = tok,
                                    ![c].shared = SharedFallbackActive]
      BY <1>4 DEF GetToken
    <2>3. /\ tok \in Tokens /\ tok.key = k /\ tok # NoToken
          /\ Second * tok.iat <= v.at \/ Second * tok.iat <= time
          /\ v.at < refreshAt(tok)
          /\ CacheInv' /\ CacheBounded'
      <3> HIDE DEF k, v
      <3>1. CASE k \in DOMAIN cache /\ v.at < refreshAt(cache[k])
        <4>1. tok = cache[k] /\ UNCHANGED cache
          BY <2>2, <3>1 DEF Token
        <4>2. cache[k] # NoToken
          BY <3>1 DEF AuthInv, CacheInv, NoToken
        <4> QED
          BY <1>4, <3>1, <4>1, <4>2 DEF AuthInv, CacheInv, CacheBounded, GetToken
      <3>2. CASE ~(k \in DOMAIN cache /\ v.at < refreshAt(cache[k]))
        <4> DEFINE m == Mint(k, v.at)
                   D == IF Cardinality(DOMAIN cache) >= maxCachedTokens THEN {} ELSE DOMAIN cache
        <4>1. tok = m /\ cache' = [x \in D \cup {k} |-> IF x = k THEN m ELSE cache[x]]
          BY <2>2, <3>2 DEF Token, Store
        <4>2. /\ m \in Tokens /\ m.key = k /\ m.iat \in 0..MaxTime
              /\ Second * m.iat <= v.at /\ v.at < refreshAt(m) /\ m # NoToken
          BY <2>1, Minted
        <4>3. /\ IsFiniteSet(D) /\ D \subseteq DOMAIN cache
              /\ Cardinality(D) \in Nat /\ Cardinality(D) < maxCachedTokens
          BY FS_EmptySet, FS_CardinalityType DEF AuthInv, CacheInv
        <4> HIDE DEF m, D
        <4>4. /\ IsFiniteSet(D \cup {k})
              /\ Cardinality(D \cup {k}) \in {Cardinality(D), Cardinality(D) + 1}
          BY <4>3, FS_AddElement
        <4>5. DOMAIN cache' = D \cup {k}
          BY <4>1
        <4>6. CacheBounded'
          BY <4>3, <4>4, <4>5 DEF CacheBounded
        <4>7. ASSUME NEW x \in D \cup {k}
              PROVE  /\ cache'[x] \in Tokens /\ cache'[x].key = x
                     /\ cache'[x].iat \in 0..MaxTime /\ Second * cache'[x].iat <= time
          <5>1. CASE x = k
            <6>1. cache'[x] = m
              BY <4>1, <5>1
            <6>2. m.iat \in Nat
              BY <4>2
            <6> QED
              BY <2>0, <4>2, <5>1, <6>1, <6>2 DEF v
          <5>2. CASE x # k
            <6>1. cache'[x] = cache[x] /\ x \in DOMAIN cache
              BY <4>1, <4>3, <5>2
            <6> QED
              BY <6>1 DEF AuthInv, CacheInv
          <5> QED
            BY <5>1, <5>2
        <4>8. CacheInv'
          BY <1>4, <4>4, <4>5, <4>7 DEF CacheInv, GetToken
        <4> QED
          BY <4>1, <4>2, <4>6, <4>8
      <3> QED
        BY <3>1, <3>2
    <2> DEFINE n == [v EXCEPT !.state = "wire", !.at = time, !.token = tok,
                              !.shared = SharedFallbackActive]
    <2>4. SharedFallbackActive \in BOOLEAN /\ SharedFallbackActive = config.send
      BY <2>0 DEF SharedFallbackActive
    <2>5. n \in Call
      <3>1. v \in Call /\ time \in Nat /\ tok \in Tokens /\ SharedFallbackActive \in BOOLEAN
        BY <2>0, <2>3, <2>4
      <3> HIDE DEF v
      <3> QED
        BY <3>1, CallWithToken
    <2>6. /\ n.state = "wire" /\ n.at = time /\ n.req = v.req /\ n.token = tok
          /\ n.shared = config.send
      BY <2>0, <2>4 DEF Call
    <2>7. call' = [call EXCEPT ![c] = n]
      BY <2>2
    <2> HIDE DEF n
    <2>8. Second * tok.iat <= time /\ time < refreshAt(tok) + MaxWait
      <3>1. tok.iat \in Int /\ refreshAt(tok) \in Int
        BY <2>3, Margin DEF Tokens
      <3> HIDE DEF v
      <3>2. Second * tok.iat \in Int
        BY <3>1
      <3> QED
        BY <2>0, <2>3, <3>1, <3>2
    <2>9. CallInv(n)
      BY <2>0, <2>3, <2>5, <2>6, <2>8 DEF CallInv, Carries
    <2>10. call' \in [Callers -> Call] /\ \A d \in Callers : CallInv(call[d])'
      BY <1>4, <2>7, <2>9, CallUpdate DEF GetToken
    <2> QED
      BY <1>4, <2>3, <2>10, Silent DEF AuthInv, GetToken
  <1>5. ASSUME NEW c \in Callers, Arrive(c) PROVE AuthInv'
    <2> DEFINE v == call[c]
    <2>0. /\ v \in Call /\ v.req \in Requests /\ Carries(v) /\ v.at \in Nat /\ v.at <= time
          /\ time - v.at <= MaxFlight /\ time \in Nat
      BY <1>5 DEF Arrive, AuthInv, CallInv, Call
    <2>1. arrival' = [req |-> v.req, token |-> v.token, shared |-> v.shared, at |-> time]
      BY <1>5 DEF Arrive
    <2>2. CredentialsWhereDue'
      BY <1>5, <2>0, <2>1 DEF CredentialsWhereDue, Carries, Arrive
    <2>3. TokensAccepted'
      <3> SUFFICES ASSUME v.token # NoToken
                   PROVE  /\ v.token.key = cacheKey(v.req)
                          /\ Second * v.token.iat <= time
                          /\ time < exp(v.token)
        BY <2>1 DEF TokensAccepted
      <3>1. v.token \in Tokens
        BY <2>0 DEF Call
      <3>2. /\ v.token.key = cacheKey(v.req) /\ Second * v.token.iat <= v.at
            /\ v.at < refreshAt(v.token) + MaxWait
        BY <2>0 DEF Carries
      <3>3. /\ exp(v.token) = refreshAt(v.token) + Second * RefreshMargin
            /\ refreshAt(v.token) \in Int /\ Second * v.token.iat \in Int
            /\ Second * RefreshMargin \in Int
        BY <3>1, Margin DEF Tokens
      <3> HIDE DEF v
      <3> QED
        BY <2>0, <3>2, <3>3
    <2> DEFINE n == [v EXCEPT !.state = "answer", !.at = 0]
    <2>4. n \in Call
      BY <2>0 DEF Call
    <2>5. n.state = "answer" /\ n.req = v.req
      BY <2>0 DEF Call
    <2>6. call' = [call EXCEPT ![c] = n]
      BY <1>5 DEF Arrive
    <2> HIDE DEF n
    <2>7. CallInv(n)
      BY <2>0, <2>4, <2>5 DEF CallInv
    <2>8. call' \in [Callers -> Call] /\ \A d \in Callers : CallInv(call[d])'
      BY <1>5, <2>6, <2>7, CallUpdate DEF Arrive
    <2> QED
      BY <1>5, <2>2, <2>3, <2>8 DEF AuthInv, CacheInv, CacheBounded, Arrive
  <1>6. ASSUME NEW c \in Callers, Retry(c) PROVE AuthInv'
    <2> DEFINE n == [Quiet EXCEPT !.state = "slot", !.req = call[c].req,
                                  !.attempt = call[c].attempt + 1]
    <2>1. call[c].req \in Requests /\ call[c].attempt + 1 \in Nat
      BY <1>6 DEF Retry, AuthInv, CallInv, Call
    <2>2. n \in Call /\ n.state = "slot" /\ n.req = call[c].req /\ n.token = NoToken /\ ~n.shared
      BY <2>1, CallAgain
    <2>3. call' = [call EXCEPT ![c] = n]
      BY <1>6 DEF Retry
    <2> HIDE DEF n
    <2>4. CallInv(n)
      BY <2>1, <2>2 DEF CallInv
    <2> QED
      BY <1>6, <1>b, <2>3, <2>4, CallUpdate DEF Retry
  <1>7. ASSUME NEW c \in Callers, Finish(c) PROVE AuthInv'
    <2>1. CallInv(Quiet)
      BY <1>a DEF CallInv, Quiet
    <2> QED
      BY <1>7, <1>b, <2>1, CallUpdate DEF Finish
  <1> QED
    BY <1>0, <1>1, <1>2, <1>3, <1>4, <1>5, <1>6, <1>7 DEF AuthNext

\* The signer and its clients, for any number of callers, any requests, token
\* lifetime, margin and cache size: an internal call never arrives without its
\* credential, a token never expires on its way, nothing else carries one.
THEOREM AuthCredentials == AuthSpec => []CredentialsSound
  <1>1. AuthInv => CredentialsSound
    BY DEF AuthInv, CacheInv, CallInv, Call, CredentialsSound, AuthTypeOK
  <1> QED
    BY <1>1, AuthInitInv, AuthStep, PTL DEF AuthSpec

-----------------------------------------------------------------------------
(***************************************************************************)
(* The chaos scheduler.  An event is waiting, active or out; the rows of   *)
(* the timeline, the recoveries and the target follow from that (EventInv, *)
(* RowInv, TargetInv), and what the loops of Tick and Close have already   *)
(* looked at stays dealt with until they end (LoopInv).                    *)
(***************************************************************************)
Fault   == [state : {"waiting", "active", "out"}, startedAt : Nat, deadline : Nat]
Mutex   == [by : {"none", "tick", "close"}, phase : {"fire", "recover"}, i : Nat \ {0}, now : Nat]
Entry   == [type : ChaosTypes, startedAt : Nat, dur : Nat, of : Nat, error : BOOLEAN,
            done : BOOLEAN, recoveredAt : Nat]

PlanInv ==
    /\ Len(plan) \in Nat
    /\ \A i \in 1..Len(plan) : plan[i] \in Event /\ plan[i].place \in Places
    /\ \A i, j \in 1..Len(plan) : plan[i].place = plan[j].place => plan[i].type = plan[j].type

ShapeInv ==
    /\ clock \in 0..MaxClock /\ chaosCtx \in {"live", "done"}
    /\ started \in BOOLEAN /\ closed \in BOOLEAN
    /\ mu \in Mutex /\ lastTick \in Nat
    /\ pending \in Seq(Fault) /\ Len(pending) = IF started THEN Len(plan) ELSE 0
    /\ outcomes \in Seq(Entry)
    /\ faults \in [Places -> Nat]
    /\ recovered \in [1..Len(plan) -> 0..1]
    /\ unsure \subseteq 1..Len(pending)

Fired == {i \in 1..Len(pending) : pending[i].state # "waiting"}

EventInv ==
    /\ \A i \in 1..Len(pending) :
         pending[i].state # "out" => recovered[i] = 0 /\ i \notin unsure
    /\ ~started => \A i \in 1..Len(plan) : recovered[i] = 0

RowInv ==
    /\ Len(outcomes) = Cardinality(Fired)
    /\ \A k \in 1..Len(outcomes) :
         /\ outcomes[k].of \in Fired
         /\ Active(outcomes[k].of) => ~outcomes[k].error
         /\ ~Active(outcomes[k].of) => recovered[outcomes[k].of] = IF outcomes[k].error THEN 0 ELSE 1

\* The events that may account for the faults of a place, and its partitions.
Held(x)  == {i \in 1..Len(pending) : plan[i].place = x /\ (Active(i) \/ i \in unsure)}
Rules(x) == {i \in 1..Len(pending) : Active(i) /\ plan[i].type = "net_partition" /\ plan[i].place = x}

TargetInv ==
    /\ \A x \in Places : /\ faults[x] <= Cardinality(Held(x))
                          /\ Cardinality(Rules(x)) <= faults[x]
    /\ \A i \in 1..Len(plan) : plan[i].type = "redis_flush" => faults[plan[i].place] = 0

\* What a Tick at time t has fired, and what it has recovered.
FiredBy(i, t)     == pending[i].state = "waiting" => plan[i].at > t + Jitter
RecoveredBy(i, t) == Active(i) => pending[i].deadline > t

LoopInv ==
    /\ mu.by = "tick" => started /\ ~closed
    /\ mu.by = "close" => closed
    /\ lastTick > 0 => started
    /\ closed => \A i \in 1..Len(pending) : mu.by # "close" \/ i < mu.i => ~Active(i)
    /\ mu.by = "tick" =>
         \A i \in 1..Len(pending) :
           /\ i < mu.i \/ mu.phase = "recover" => FiredBy(i, mu.now)
           /\ i < mu.i /\ mu.phase = "recover" => RecoveredBy(i, mu.now)
    /\ mu.by # "tick" /\ lastTick > 0 =>
         \A i \in 1..Len(pending) : FiredBy(i, lastTick - 1) /\ RecoveredBy(i, lastTick - 1)

DataInv == PlanInv /\ ShapeInv /\ EventInv /\ RowInv /\ TargetInv
ChaosInv == DataInv /\ LoopInv

\* The indices in use.
LEMMA Indices ==
    ASSUME PlanInv, ShapeInv
    PROVE  /\ Len(pending) \in Nat /\ Len(pending) <= Len(plan)
           /\ 1..Len(pending) \subseteq 1..Len(plan)
           /\ \A i \in 1..Len(pending) : pending[i] \in Fault
  <1>1. Len(pending) \in Nat /\ \A i \in 1..Len(pending) : pending[i] \in Fault
    BY LenProperties DEF ShapeInv
  <1>2. Len(pending) = Len(plan) \/ Len(pending) = 0
    BY DEF ShapeInv
  <1> QED
    BY <1>1, <1>2 DEF PlanInv

LEMMA UpTo ==
    ASSUME NEW n \in Nat PROVE IsFiniteSet(1..n) /\ Cardinality(1..n) = n
  <1>1. 1 \in Int /\ n \in Int
    OBVIOUS
  <1>2. IsFiniteSet(1..n) /\ Cardinality(1..n) = IF 1 > n THEN 0 ELSE n - 1 + 1
    BY <1>1, FS_Interval
  <1> QED
    BY <1>2

LEMMA Finite ==
    ASSUME PlanInv, ShapeInv, NEW T \in SUBSET (1..Len(pending))
    PROVE  /\ IsFiniteSet(T) /\ Cardinality(T) \in Nat /\ Cardinality(T) <= Len(plan)
  <1>1. Len(pending) \in Nat /\ Len(pending) <= Len(plan) /\ Len(plan) \in Nat
    BY Indices DEF PlanInv
  <1>2. IsFiniteSet(1..Len(pending)) /\ Cardinality(1..Len(pending)) = Len(pending)
    BY <1>1, UpTo
  <1>3. IsFiniteSet(T) /\ Cardinality(T) <= Cardinality(1..Len(pending))
    BY <1>2, FS_Subset
  <1>4. Cardinality(T) \in Nat
    BY <1>3, FS_CardinalityType
  <1> QED
    BY <1>1, <1>2, <1>3, <1>4

LEMMA ChaosInitInv == NewScheduler => ChaosInv
  <1> SUFFICES ASSUME NewScheduler PROVE ChaosInv
    OBVIOUS
  <1> USE ChaosAssumption
  <1>1. PICK p \in Plans : plan \in Orders(p)
    BY DEF NewScheduler
  <1>2. PICK f \in [1..Len(p) -> 1..Len(p)] : plan = [i \in 1..Len(p) |-> p[f[i]]]
    BY <1>1 DEF Orders
  <1>3. p \in Seq(Event) /\ Len(p) \in Nat
    OBVIOUS
  <1>4. Len(plan) = Len(p) /\ \A i \in 1..Len(p) : f[i] \in 1..Len(p) /\ plan[i] = p[f[i]]
    BY <1>2, <1>3
  <1>5. \A i \in 1..Len(p) : p[i] \in Event /\ p[i].place \in Places
    BY <1>3 DEF Places
  <1>6. PlanInv
    <2>1. \A i \in 1..Len(plan) : plan[i] \in Event /\ plan[i].place \in Places
      BY <1>4, <1>5
    <2>2. ASSUME NEW i \in 1..Len(plan), NEW j \in 1..Len(plan), plan[i].place = plan[j].place
          PROVE  plan[i].type = plan[j].type
      <3>1. /\ f[i] \in 1..Len(p) /\ f[j] \in 1..Len(p)
            /\ plan[i] = p[f[i]] /\ plan[j] = p[f[j]]
        BY <1>4
      <3>2. p[f[i]].place = p[f[j]].place
        BY <2>2, <3>1
      <3> QED
        BY <3>1, <3>2
    <2> QED
      BY <1>3, <1>4, <2>1, <2>2 DEF PlanInv
  <1>7. /\ pending = <<>> /\ outcomes = <<>> /\ Len(pending) = 0 /\ Len(outcomes) = 0
        /\ 1..Len(pending) = {} /\ 1..Len(outcomes) = {}
    BY DEF NewScheduler
  <1>8. Idle \in Mutex
    BY DEF Idle, Mutex
  <1>9. ShapeInv
    <2>1. pending \in Seq(Fault) /\ outcomes \in Seq(Entry)
      BY <1>7
    <2>2. faults \in [Places -> Nat] /\ recovered \in [1..Len(plan) -> 0..1]
      BY DEF NewScheduler
    <2>3. unsure \subseteq 1..Len(pending) /\ started = FALSE /\ closed = FALSE
          /\ mu = Idle /\ lastTick = 0 /\ clock = 0 /\ chaosCtx = "live"
      BY DEF NewScheduler
    <2>4. Len(pending) = IF started THEN Len(plan) ELSE 0
      BY <1>7, <2>3
    <2>5. clock \in 0..MaxClock /\ lastTick \in Nat /\ mu \in Mutex
      BY <1>8, <2>3
    <2> QED
      BY <2>1, <2>2, <2>3, <2>4, <2>5 DEF ShapeInv
  <1>10. EventInv
    BY <1>7 DEF NewScheduler, EventInv
  <1>11. Fired = {} /\ \A x : Held(x) = {} /\ Rules(x) = {}
    BY <1>7 DEF Fired, Held, Rules
  <1>12. RowInv
    BY <1>7, <1>11, FS_EmptySet DEF RowInv
  <1>13. TargetInv
    <2>1. \A x \in Places : faults[x] = 0
      BY DEF NewScheduler
    <2>2. \A x \in Places : Cardinality(Held(x)) = 0 /\ Cardinality(Rules(x)) = 0
      BY <1>11, FS_EmptySet
    <2> QED
      BY <1>6, <2>1, <2>2 DEF TargetInv, PlanInv
  <1>14. LoopInv
    BY <1>7 DEF NewScheduler, LoopInv, Idle
  <1> QED
    BY <1>6, <1>9, <1>10, <1>12, <1>13, <1>14 DEF ChaosInv, DataInv

\* What an injection does to the target, whether or not it is heard of.
LEMMA Inject ==
    ASSUME PlanInv, ShapeInv, NEW i \in 1..Len(plan), NEW ok \in BOOLEAN,
           Run(Injected(plan[i]), ok, faults')
    PROVE  /\ faults' \in [Places -> Nat]
           /\ \A x \in Places : x # plan[i].place => faults'[x] = faults[x]
           /\ faults'[plan[i].place] <= faults[plan[i].place] + 1
           /\ plan[i].type = "net_partition" =>
                /\ faults[plan[i].place] <= faults'[plan[i].place]
                /\ ok => faults'[plan[i].place] = faults[plan[i].place] + 1
           /\ plan[i].type = "redis_flush" => faults'[plan[i].place] = faults[plan[i].place]
  <1>1. faults \in [Places -> Nat] /\ plan[i].place \in Places /\ plan[i].type \in ChaosTypes
    BY DEF PlanInv, ShapeInv, Event
  <1>2. (faults' = faults /\ ~ok) \/ faults' = Injected(plan[i])
    BY DEF Run
  <1>3. CASE faults' = faults /\ ~ok
    BY <1>1, <1>3
  <1>4. CASE faults' = Injected(plan[i]) /\ plan[i].type = "net_partition"
    <2>1. faults' = [faults EXCEPT ![plan[i].place] = faults[plan[i].place] + 1]
      BY <1>4 DEF Injected
    <2> QED
      BY <1>1, <1>4, <2>1
  <1>5. CASE faults' = Injected(plan[i]) /\ plan[i].type = "redis_flush"
    <2>1. faults' = faults
      BY <1>5 DEF Injected
    <2> QED
      BY <1>1, <1>5, <2>1
  <1>6. CASE faults' = Injected(plan[i]) /\ plan[i].type \notin {"net_partition", "redis_flush"}
    <2>1. faults' = [faults EXCEPT ![plan[i].place] = 1]
      BY <1>6 DEF Injected
    <2> QED
      BY <1>1, <1>6, <2>1
  <1> QED
    BY <1>2, <1>3, <1>4, <1>5, <1>6

\* What a recovery does to it.
LEMMA Undo ==
    ASSUME PlanInv, ShapeInv, NEW i \in 1..Len(plan), NEW ok \in BOOLEAN,
           RunRecovery(plan[i], ok, faults')
    PROVE  /\ faults' \in [Places -> Nat]
           /\ \A x \in Places : x # plan[i].place => faults'[x] = faults[x]
           /\ faults'[plan[i].place] <= faults[plan[i].place]
           /\ ok /\ plan[i].type # "redis_flush" =>
                faults'[plan[i].place] = 0 \/ faults'[plan[i].place] <= faults[plan[i].place] - 1
           /\ plan[i].type = "net_partition" =>
                faults[plan[i].place] - 1 <= faults'[plan[i].place]
           /\ plan[i].type = "redis_flush" => faults'[plan[i].place] = faults[plan[i].place]
  <1>1. faults \in [Places -> Nat] /\ plan[i].place \in Places /\ plan[i].type \in ChaosTypes
    BY DEF PlanInv, ShapeInv, Event
  <1>2. \/ faults' = faults /\ (~ok \/ plan[i].type = "redis_flush")
        \/ faults' = Undone(plan[i]) /\ plan[i].type # "redis_flush"
    BY DEF Run, RunRecovery
  <1>3. CASE faults' = faults /\ (~ok \/ plan[i].type = "redis_flush")
    BY <1>1, <1>3
  <1>4. CASE faults' = Undone(plan[i]) /\ plan[i].type = "net_partition"
    <2>1. faults' = [faults EXCEPT ![plan[i].place] =
                       IF faults[plan[i].place] > 0 THEN faults[plan[i].place] - 1 ELSE 0]
      BY <1>4 DEF Undone
    <2> QED
      BY <1>1, <1>4, <2>1
  <1>5. CASE faults' = Undone(plan[i]) /\ plan[i].type \notin {"net_partition", "redis_flush"}
    <2>1. faults' = [faults EXCEPT ![plan[i].place] = 0]
      BY <1>5 DEF Undone
    <2> QED
      BY <1>1, <1>5, <2>1
  <1> QED
    BY <1>2, <1>3, <1>4, <1>5

\* What the loops leave alone while they deal with an event.
Frame == mu' \in Mutex /\ UNCHANGED <<clock, chaosCtx, plan, started, closed, lastTick>>

LEMMA EventMoves ==
    ASSUME PlanInv, ShapeInv, NEW i \in 1..Len(pending), NEW r \in Fault,
           pending' = [pending EXCEPT ![i] = r]
    PROVE  /\ pending' \in Seq(Fault) /\ Len(pending') = Len(pending)
           /\ pending'[i] = r
           /\ \A j \in 1..Len(pending) : j # i => pending'[j] = pending[j]
  BY ExceptSeq DEF ShapeInv

\* A place without partitions has no rules.
LEMMA NoRules ==
    ASSUME PlanInv, ShapeInv, NEW i \in 1..Len(plan), plan[i].type # "net_partition"
    PROVE  Rules(plan[i].place) = {}
  BY Indices DEF PlanInv, Rules

\* A fault that could not be injected: the event is out, its command unsure.
LEMMA FailsData ==
    ASSUME DataInv, Frame, NEW i \in 1..Len(pending), pending[i].state = "waiting", FireFails(i)
    PROVE  DataInv'
  <1> DEFINE r == [pending[i] EXCEPT !.state = "out"]
             pl == plan[i].place
  <1>a. PlanInv /\ ShapeInv /\ EventInv /\ RowInv /\ TargetInv
    BY DEF DataInv
  <1>b. i \in 1..Len(plan) /\ pending[i] \in Fault /\ plan[i] \in Event /\ pl \in Places
    BY <1>a, Indices DEF PlanInv
  <1>1. r \in Fault /\ r.state = "out"
    BY <1>b DEF Fault
  <1>2. pending' = [pending EXCEPT ![i] = r]
    BY DEF FireFails
  <1> HIDE DEF r
  <1>3. /\ pending' \in Seq(Fault) /\ Len(pending') = Len(pending)
        /\ pending'[i].state = "out"
        /\ \A j \in 1..Len(pending) : j # i => pending'[j] = pending[j]
    BY <1>a, <1>1, <1>2, EventMoves
  <1> DEFINE row == Row(i, mu.now, TRUE)
  <1>4. row \in Entry /\ row.of = i /\ row.error = TRUE
    BY <1>a, <1>b DEF Row, Entry, Event, ShapeInv, Mutex
  <1>5. outcomes' = Append(outcomes, row)
    BY DEF FireFails
  <1> HIDE DEF row
  <1>6. /\ outcomes \in Seq(Entry) /\ Len(outcomes) \in Nat
        /\ outcomes' \in Seq(Entry) /\ Len(outcomes') = Len(outcomes) + 1
        /\ \A k \in 1..Len(outcomes) : outcomes'[k] = outcomes[k]
        /\ outcomes'[Len(outcomes) + 1] = row
    BY <1>a, <1>4, <1>5, AppendProperties, LenProperties DEF ShapeInv
  <1>7. /\ faults' \in [Places -> Nat] /\ faults \in [Places -> Nat]
        /\ \A x \in Places : x # pl => faults'[x] = faults[x]
        /\ faults'[pl] <= faults[pl] + 1
        /\ plan[i].type = "net_partition" => faults[pl] <= faults'[pl]
        /\ plan[i].type = "redis_flush" => faults'[pl] = faults[pl]
    BY <1>a, <1>b, Inject DEF FireFails, ShapeInv
  <1>8. recovered' = recovered /\ unsure' = unsure \cup {i} /\ plan' = plan /\ started' = started
    BY DEF FireFails, Frame
  <1>9. PlanInv'
    BY <1>a, <1>8 DEF PlanInv
  <1>10. ShapeInv'
    BY <1>a, <1>3, <1>6, <1>7, <1>8 DEF ShapeInv, Frame
  <1>11. EventInv'
    BY <1>a, <1>3, <1>8 DEF EventInv
  <1>12. Fired' = Fired \cup {i} /\ i \notin Fired
    BY <1>3 DEF Fired
  <1>13. Cardinality(Fired') = Cardinality(Fired) + 1
    <2>1. Fired \in SUBSET (1..Len(pending))
      BY DEF Fired
    <2> QED
      BY <1>a, <1>12, <2>1, Finite, FS_AddElement
  <1>14. RowInv'
    <2>1. ASSUME NEW k \in 1..Len(outcomes')
          PROVE  /\ outcomes'[k].of \in Fired'
                 /\ Active(outcomes[k].of)' => ~outcomes'[k].error
                 /\ ~Active(outcomes[k].of)' =>
                      recovered'[outcomes'[k].of] = IF outcomes'[k].error THEN 0 ELSE 1
      <3>1. CASE k = Len(outcomes) + 1
        <4>1. outcomes'[k].of = i /\ outcomes'[k].error = TRUE
          BY <1>4, <1>6, <3>1
        <4>2. recovered[i] = 0
          BY <1>a DEF EventInv
        <4> QED
          BY <1>3, <1>8, <1>12, <4>1, <4>2 DEF Active
      <3>2. CASE k \in 1..Len(outcomes)
        <4>1. outcomes'[k] = outcomes[k] /\ outcomes[k].of \in Fired
          BY <1>6, <1>a, <3>2 DEF RowInv
        <4>2. outcomes[k].of # i /\ pending'[outcomes[k].of] = pending[outcomes[k].of]
          BY <1>3, <1>12, <4>1 DEF Fired
        <4> QED
          BY <1>a, <1>8, <1>12, <3>2, <4>1, <4>2 DEF RowInv, Active
      <3> QED
        BY <1>6, <3>1, <3>2
    <2> QED
      BY <1>a, <1>6, <1>13, <2>1 DEF RowInv
  <1>15. ASSUME NEW x \in Places
         PROVE  /\ faults'[x] <= Cardinality(Held(x)')
                /\ Cardinality(Rules(x)') <= faults'[x]
    <2>1. Held(x) \in SUBSET (1..Len(pending)) /\ Rules(x) \in SUBSET (1..Len(pending))
      BY DEF Held, Rules
    <2>2. /\ IsFiniteSet(Held(x)) /\ Cardinality(Held(x)) \in Nat
          /\ IsFiniteSet(Rules(x)) /\ Cardinality(Rules(x)) \in Nat
      BY <1>a, <2>1, Finite
    <2>3. faults[x] <= Cardinality(Held(x)) /\ Cardinality(Rules(x)) <= faults[x]
      BY <1>a DEF TargetInv
    <2>4. Rules(x)' = Rules(x)
      BY <1>3, <1>8 DEF Rules, Active
    <2>5. CASE x = pl
      <3>1. Held(x)' = Held(x) \cup {i}
        BY <1>3, <1>8, <2>5 DEF Held, Active
      <3>2. i \notin Held(x)
        BY <1>a DEF EventInv, Held, Active
      <3>3. Cardinality(Held(x)') = Cardinality(Held(x)) + 1
        BY <2>2, <3>1, <3>2, FS_AddElement
      <3>4. CASE plan[i].type = "net_partition"
        BY <1>7, <2>2, <2>3, <2>4, <2>5, <3>3, <3>4
      <3>5. CASE plan[i].type # "net_partition"
        <4>1. Rules(x) = {}
          BY <1>a, <1>b, <2>5, <3>5, NoRules
        <4>2. Cardinality(Rules(x)') = 0
          BY <2>4, <4>1, FS_EmptySet
        <4> QED
          BY <1>7, <2>2, <2>3, <2>5, <3>3, <4>2
      <3> QED
        BY <3>4, <3>5
    <2>6. CASE x # pl
      <3>1. Held(x)' = Held(x)
        BY <1>3, <1>8, <2>6 DEF Held, Active
      <3> QED
        BY <1>7, <2>3, <2>4, <2>6, <3>1
    <2> QED
      BY <2>5, <2>6
  <1>16. ASSUME NEW j \in 1..Len(plan), plan[j].type = "redis_flush"
         PROVE  faults'[plan[j].place] = 0
    <2>1. faults[plan[j].place] = 0 /\ plan[j].place \in Places
      BY <1>a, <1>16 DEF TargetInv, PlanInv
    <2>2. plan[j].place = pl => plan[i].type = "redis_flush"
      BY <1>a, <1>b, <1>16 DEF PlanInv
    <2> QED
      BY <1>7, <2>1, <2>2
  <1>17. TargetInv'
    BY <1>8, <1>15, <1>16 DEF TargetInv
  <1> QED
    BY <1>9, <1>10, <1>11, <1>14, <1>17 DEF DataInv
\* A fault that is in force until it is recovered.
LEMMA LandsData ==
    ASSUME DataInv, Frame, NEW i \in 1..Len(pending), pending[i].state = "waiting", FireLands(i)
    PROVE  DataInv'
  <1> DEFINE r == [state |-> "active", startedAt |-> mu.now, deadline |-> mu.now + plan[i].dur]
             pl == plan[i].place
  <1>a. PlanInv /\ ShapeInv /\ EventInv /\ RowInv /\ TargetInv
    BY DEF DataInv
  <1>b. i \in 1..Len(plan) /\ pending[i] \in Fault /\ plan[i] \in Event /\ pl \in Places
    BY <1>a, Indices DEF PlanInv
  <1>1. r \in Fault /\ r.state = "active"
    BY <1>a, <1>b DEF Fault, Event, ShapeInv, Mutex
  <1>2. pending' = [pending EXCEPT ![i] = r]
    BY DEF FireLands
  <1> HIDE DEF r
  <1>3. /\ pending' \in Seq(Fault) /\ Len(pending') = Len(pending)
        /\ pending'[i].state = "active"
        /\ \A j \in 1..Len(pending) : j # i => pending'[j] = pending[j]
    BY <1>a, <1>1, <1>2, EventMoves
  <1> DEFINE row == Row(i, mu.now, FALSE)
  <1>4. row \in Entry /\ row.of = i /\ row.error = FALSE
    BY <1>a, <1>b DEF Row, Entry, Event, ShapeInv, Mutex
  <1>5. outcomes' = Append(outcomes, row)
    BY DEF FireLands
  <1> HIDE DEF row
  <1>6. /\ outcomes \in Seq(Entry) /\ Len(outcomes) \in Nat
        /\ outcomes' \in Seq(Entry) /\ Len(outcomes') = Len(outcomes) + 1
        /\ \A k \in 1..Len(outcomes) : outcomes'[k] = outcomes[k]
        /\ outcomes'[Len(outcomes) + 1] = row
    BY <1>a, <1>4, <1>5, AppendProperties, LenProperties DEF ShapeInv
  <1>7. /\ faults' \in [Places -> Nat] /\ faults \in [Places -> Nat]
        /\ \A x \in Places : x # pl => faults'[x] = faults[x]
        /\ faults'[pl] <= faults[pl] + 1
        /\ plan[i].type = "net_partition" => faults'[pl] = faults[pl] + 1
        /\ plan[i].type = "redis_flush" => faults'[pl] = faults[pl]
    BY <1>a, <1>b, Inject DEF FireLands, ShapeInv
  <1>8. recovered' = recovered /\ unsure' = unsure /\ plan' = plan /\ started' = started
    BY DEF FireLands, Frame
  <1>9. PlanInv'
    BY <1>a, <1>8 DEF PlanInv
  <1>10. ShapeInv'
    BY <1>a, <1>3, <1>6, <1>7, <1>8 DEF ShapeInv, Frame
  <1>11. EventInv'
    BY <1>a, <1>3, <1>8 DEF EventInv
  <1>12. Fired' = Fired \cup {i} /\ i \notin Fired
    BY <1>3 DEF Fired
  <1>13. Cardinality(Fired') = Cardinality(Fired) + 1
    <2>1. Fired \in SUBSET (1..Len(pending))
      BY DEF Fired
    <2> QED
      BY <1>a, <1>12, <2>1, Finite, FS_AddElement
  <1>14. RowInv'
    <2>1. ASSUME NEW k \in 1..Len(outcomes')
          PROVE  /\ outcomes'[k].of \in Fired'
                 /\ Active(outcomes[k].of)' => ~outcomes'[k].error
                 /\ ~Active(outcomes[k].of)' =>
                      recovered'[outcomes'[k].of] = IF outcomes'[k].error THEN 0 ELSE 1
      <3>1. CASE k = Len(outcomes) + 1
        <4>1. outcomes'[k].of = i /\ outcomes'[k].error = FALSE
          BY <1>4, <1>6, <3>1
        <4> QED
          BY <1>3, <1>12, <4>1 DEF Active
      <3>2. CASE k \in 1..Len(outcomes)
        <4>1. outcomes'[k] = outcomes[k] /\ outcomes[k].of \in Fired
          BY <1>6, <1>a, <3>2 DEF RowInv
        <4>2. outcomes[k].of # i /\ pending'[outcomes[k].of] = pending[outcomes[k].of]
          BY <1>3, <1>12, <4>1 DEF Fired
        <4> QED
          BY <1>a, <1>8, <1>12, <3>2, <4>1, <4>2 DEF RowInv, Active
      <3> QED
        BY <1>6, <3>1, <3>2
    <2> QED
      BY <1>a, <1>6, <1>13, <2>1 DEF RowInv
  <1>15. ASSUME NEW x \in Places
         PROVE  /\ faults'[x] <= Cardinality(Held(x)')
                /\ Cardinality(Rules(x)') <= faults'[x]
    <2>1. Held(x) \in SUBSET (1..Len(pending)) /\ Rules(x) \in SUBSET (1..Len(pending))
      BY DEF Held, Rules
    <2>2. /\ IsFiniteSet(Held(x)) /\ Cardinality(Held(x)) \in Nat
          /\ IsFiniteSet(Rules(x)) /\ Cardinality(Rules(x)) \in Nat
      BY <1>a, <2>1, Finite
    <2>3. faults[x] <= Cardinality(Held(x)) /\ Cardinality(Rules(x)) <= faults[x]
      BY <1>a DEF TargetInv
    <2>5. CASE x = pl
      <3>1. Held(x)' = Held(x) \cup {i}
        BY <1>3, <1>8, <2>5 DEF Held, Active
      <3>2. i \notin Held(x)
        BY <1>a DEF EventInv, Held, Active
      <3>3. Cardinality(Held(x)') = Cardinality(Held(x)) + 1
        BY <2>2, <3>1, <3>2, FS_AddElement
      <3>4. CASE plan[i].type = "net_partition"
        <4>1. Rules(x)' = Rules(x) \cup {i} /\ i \notin Rules(x)
          BY <1>3, <1>8, <2>5, <3>4 DEF Rules, Active
        <4>2. Cardinality(Rules(x)') = Cardinality(Rules(x)) + 1
          BY <2>2, <4>1, FS_AddElement
        <4> QED
          BY <1>7, <2>2, <2>3, <2>5, <3>3, <3>4, <4>2
      <3>5. CASE plan[i].type # "net_partition"
        <4>1. Rules(x)' = {}
          BY <1>3, <1>8, <1>a, <1>b, <2>5, <3>5, Indices DEF Rules, PlanInv
        <4>2. Cardinality(Rules(x)') = 0
          BY <4>1, FS_EmptySet
        <4> QED
          BY <1>7, <2>2, <2>3, <2>5, <3>3, <4>2
      <3> QED
        BY <3>4, <3>5
    <2>6. CASE x # pl
      <3>1. Held(x)' = Held(x) /\ Rules(x)' = Rules(x)
        BY <1>3, <1>8, <2>6 DEF Held, Rules, Active
      <3> QED
        BY <1>7, <2>3, <2>6, <3>1
    <2> QED
      BY <2>5, <2>6
  <1>16. ASSUME NEW j \in 1..Len(plan), plan[j].type = "redis_flush"
         PROVE  faults'[plan[j].place] = 0
    <2>1. faults[plan[j].place] = 0 /\ plan[j].place \in Places
      BY <1>a, <1>16 DEF TargetInv, PlanInv
    <2>2. plan[j].place = pl => plan[i].type = "redis_flush"
      BY <1>a, <1>b, <1>16 DEF PlanInv
    <2> QED
      BY <1>7, <2>1, <2>2
  <1>17. TargetInv'
    BY <1>8, <1>15, <1>16 DEF TargetInv
  <1> QED
    BY <1>9, <1>10, <1>11, <1>14, <1>17 DEF DataInv

\* recover changes the time line in place: which events it holds, and which
\* of them failed, stays.
LEMMA Patching ==
    ASSUME ShapeInv, NEW i \in 1..Len(pending), recover(i)
    PROVE  /\ outcomes' \in Seq(Entry) /\ Len(outcomes') = Len(outcomes)
           /\ \A k \in 1..Len(outcomes) : /\ outcomes'[k].of = outcomes[k].of
                                          /\ outcomes'[k].error = outcomes[k].error
  <1> DEFINE m == Patched(i, pending[i].startedAt)
             c == CHOOSE k \in m : \A l \in m : l <= k
             o == [outcomes[c] EXCEPT !.done = TRUE, !.recoveredAt = mu.now]
  <1>1. outcomes \in Seq(Entry) /\ Len(outcomes) \in Nat /\ mu.now \in Nat
    BY LenProperties DEF ShapeInv, Mutex
  <1>2. CASE outcomes' = outcomes
    BY <1>1, <1>2
  <1>3. CASE outcomes' = [outcomes EXCEPT ![c] = o]
    <2> HIDE DEF c
    <2>1. CASE c \in 1..Len(outcomes)
      <3>1. outcomes[c] \in Entry
        BY <1>1, <2>1
      <3>2. o \in Entry /\ o.of = outcomes[c].of /\ o.error = outcomes[c].error
        BY <1>1, <3>1 DEF Entry
      <3> HIDE DEF o
      <3>3. /\ outcomes' \in Seq(Entry) /\ Len(outcomes') = Len(outcomes)
            /\ outcomes'[c] = o
            /\ \A k \in 1..Len(outcomes) : k # c => outcomes'[k] = outcomes[k]
        BY <1>1, <1>3, <2>1, <3>2, ExceptSeq
      <3> QED
        BY <3>2, <3>3
    <2>2. CASE c \notin 1..Len(outcomes)
      <3>1. DOMAIN outcomes = 1..Len(outcomes)
        BY <1>1
      <3>2. outcomes' = outcomes
        BY <1>1, <1>3, <2>2, <3>1
      <3> QED
        BY <1>1, <3>2
    <2> QED
      BY <2>1, <2>2
  <1> QED
    BY <1>2, <1>3 DEF recover

\* A recovery: the event is out, and the faults of its place lose it.
LEMMA RecoverData ==
    ASSUME DataInv, Frame, NEW i \in 1..Len(pending), Active(i), recover(i)
    PROVE  DataInv'
  <1> DEFINE r == [pending[i] EXCEPT !.state = "out"]
             pl == plan[i].place
  <1>a. PlanInv /\ ShapeInv /\ EventInv /\ RowInv /\ TargetInv
    BY DEF DataInv
  <1>b. i \in 1..Len(plan) /\ pending[i] \in Fault /\ plan[i] \in Event /\ pl \in Places
    BY <1>a, Indices DEF PlanInv
  <1>1. r \in Fault /\ r.state = "out"
    BY <1>b DEF Fault
  <1>2. pending' = [pending EXCEPT ![i] = r]
    BY DEF recover
  <1> HIDE DEF r
  <1>3. /\ pending' \in Seq(Fault) /\ Len(pending') = Len(pending)
        /\ pending'[i].state = "out" /\ pending[i].state = "active"
        /\ \A j \in 1..Len(pending) : j # i => pending'[j] = pending[j]
    BY <1>a, <1>1, <1>2, EventMoves DEF Active
  <1>4. /\ outcomes' \in Seq(Entry) /\ Len(outcomes') = Len(outcomes)
        /\ \A k \in 1..Len(outcomes) : /\ outcomes'[k].of = outcomes[k].of
                                       /\ outcomes'[k].error = outcomes[k].error
    BY <1>a, Patching
  <1>5. PICK ok \in BOOLEAN : /\ RunRecovery(plan[i], ok, faults')
                              /\ unsure' = IF ok THEN unsure ELSE unsure \cup {i}
    BY DEF recover
  <1>6. recovered' = [recovered EXCEPT ![i] = 1] /\ recovered'[i] = 1
        /\ recovered' \in [1..Len(plan) -> 0..1] /\ i \notin unsure
        /\ \A j \in 1..Len(plan) : j # i => recovered'[j] = recovered[j]
    <2>1. recovered[i] = 0 /\ i \notin unsure
      BY <1>a, <1>3 DEF EventInv
    <2> QED
      BY <1>a, <1>b, <2>1 DEF recover, ShapeInv
  <1>7. /\ faults' \in [Places -> Nat] /\ faults \in [Places -> Nat]
        /\ \A x \in Places : x # pl => faults'[x] = faults[x]
        /\ faults'[pl] <= faults[pl]
        /\ ok /\ plan[i].type # "redis_flush" => faults'[pl] = 0 \/ faults'[pl] <= faults[pl] - 1
        /\ plan[i].type = "net_partition" => faults[pl] - 1 <= faults'[pl]
        /\ plan[i].type = "redis_flush" => faults'[pl] = faults[pl]
    BY <1>a, <1>b, <1>5, Undo DEF ShapeInv
  <1>8. /\ plan' = plan /\ started' = started /\ unsure \subseteq unsure'
        /\ unsure' \subseteq unsure \cup {i} /\ (i \in unsure' => ~ok)
        /\ (~ok => i \in unsure')
    BY <1>5, <1>6 DEF Frame
  <1>9. PlanInv'
    BY <1>a, <1>8 DEF PlanInv
  <1>10. ShapeInv'
    <2>1. unsure' \subseteq 1..Len(pending')
      BY <1>a, <1>3, <1>8 DEF ShapeInv
    <2> QED
      BY <1>a, <1>3, <1>4, <1>6, <1>7, <1>8, <2>1 DEF ShapeInv, Frame
  <1>11. EventInv'
    <2>1. ASSUME NEW j \in 1..Len(pending'), pending'[j].state # "out"
          PROVE  recovered'[j] = 0 /\ j \notin unsure'
      <3>1. j # i /\ j \in 1..Len(pending) /\ j \in 1..Len(plan) /\ pending'[j] = pending[j]
        BY <1>a, <1>3, <2>1, Indices
      <3> QED
        BY <1>a, <1>6, <1>8, <2>1, <3>1 DEF EventInv
    <2>2. started'
      BY <1>a, <1>8 DEF ShapeInv
    <2> QED
      BY <2>1, <2>2 DEF EventInv
  <1>12. Fired' = Fired
    BY <1>3 DEF Fired
  <1>13. RowInv'
    <2>1. ASSUME NEW k \in 1..Len(outcomes)
          PROVE  /\ outcomes'[k].of \in Fired'
                 /\ Active(outcomes[k].of)' => ~outcomes'[k].error
                 /\ ~Active(outcomes[k].of)' =>
                      recovered'[outcomes'[k].of] = IF outcomes'[k].error THEN 0 ELSE 1
      <3> DEFINE e == outcomes[k].of
      <3>1. e \in Fired /\ e \in 1..Len(pending) /\ e \in 1..Len(plan)
        BY <1>a, Indices DEF RowInv, Fired
      <3>2. outcomes'[k].of = e /\ outcomes'[k].error = outcomes[k].error
        BY <1>4
      <3>3. CASE e = i
        <4>1. ~outcomes[k].error
          BY <1>a, <3>3 DEF RowInv
        <4> QED
          BY <1>3, <1>6, <1>12, <3>1, <3>2, <3>3, <4>1 DEF Active
      <3>4. CASE e # i
        <4>1. pending'[e] = pending[e] /\ recovered'[e] = recovered[e]
          BY <1>3, <1>6, <3>1, <3>4
        <4> QED
          BY <1>a, <1>12, <3>1, <3>2, <4>1 DEF RowInv, Active
      <3> QED
        BY <3>3, <3>4
    <2> QED
      BY <1>a, <1>4, <1>12, <2>1 DEF RowInv
  <1>14. ASSUME NEW x \in Places
         PROVE  /\ faults'[x] <= Cardinality(Held(x)')
                /\ Cardinality(Rules(x)') <= faults'[x]
    <2>1. Held(x) \in SUBSET (1..Len(pending)) /\ Rules(x) \in SUBSET (1..Len(pending))
      BY DEF Held, Rules
    <2>2. /\ IsFiniteSet(Held(x)) /\ Cardinality(Held(x)) \in Nat
          /\ IsFiniteSet(Rules(x)) /\ Cardinality(Rules(x)) \in Nat
      BY <1>a, <2>1, Finite
    <2>3. faults[x] <= Cardinality(Held(x)) /\ Cardinality(Rules(x)) <= faults[x]
      BY <1>a DEF TargetInv
    <2>4. CASE x # pl
      <3>1. Held(x)' = Held(x) /\ Rules(x)' = Rules(x)
        BY <1>3, <1>8, <2>4 DEF Held, Rules, Active
      <3> QED
        BY <1>7, <2>3, <2>4, <3>1
    <2>5. CASE x = pl
      <3>1. i \in Held(x)
        BY <2>5 DEF Held
      <3>2. faults'[x] <= Cardinality(Held(x)')
        <4>1. CASE ~ok
          <5>1. Held(x)' = Held(x)
            BY <1>3, <1>8, <2>5, <3>1, <4>1 DEF Held, Active
          <5> QED
            BY <1>7, <2>2, <2>3, <2>5, <5>1
        <4>2. CASE ok
          <5>1. Held(x)' = Held(x) \ {i}
            BY <1>3, <1>6, <1>8, <2>5, <4>2 DEF Held, Active
          <5>2. Cardinality(Held(x)') = Cardinality(Held(x)) - 1 /\ Cardinality(Held(x)') \in Nat
            BY <2>2, <3>1, <5>1, FS_RemoveElement, FS_CardinalityType
          <5>3. CASE plan[i].type = "redis_flush"
            BY <1>a, <1>b, <1>7, <2>5, <5>2, <5>3 DEF TargetInv
          <5>4. CASE plan[i].type # "redis_flush"
            BY <1>7, <2>2, <2>3, <2>5, <4>2, <5>2, <5>4
          <5> QED
            BY <5>3, <5>4
        <4> QED
          BY <4>1, <4>2
      <3>3. Cardinality(Rules(x)') <= faults'[x]
        <4>1. CASE plan[i].type = "net_partition"
          <5>1. Rules(x)' = Rules(x) \ {i} /\ i \in Rules(x)
            BY <1>3, <1>8, <2>5, <4>1 DEF Rules, Active
          <5>2. Cardinality(Rules(x)') = Cardinality(Rules(x)) - 1
            BY <2>2, <5>1, FS_RemoveElement
          <5> QED
            BY <1>7, <2>2, <2>3, <2>5, <4>1, <5>2
        <4>2. CASE plan[i].type # "net_partition"
          <5>1. Rules(x)' = {}
            BY <1>3, <1>8, <1>a, <1>b, <2>5, <4>2, Indices DEF Rules, PlanInv
          <5>2. Cardinality(Rules(x)') = 0
            BY <5>1, FS_EmptySet
          <5> QED
            BY <1>7, <2>5, <5>2
        <4> QED
          BY <4>1, <4>2
      <3> QED
        BY <3>2, <3>3
    <2> QED
      BY <2>4, <2>5
  <1>15. ASSUME NEW j \in 1..Len(plan), plan[j].type = "redis_flush"
         PROVE  faults'[plan[j].place] = 0
    <2>1. faults[plan[j].place] = 0 /\ plan[j].place \in Places
      BY <1>a, <1>15 DEF TargetInv, PlanInv
    <2>2. plan[j].place = pl => plan[i].type = "redis_flush"
      BY <1>a, <1>b, <1>15 DEF PlanInv
    <2> QED
      BY <1>7, <2>1, <2>2
  <1>16. TargetInv'
    BY <1>8, <1>14, <1>15 DEF TargetInv
  <1> QED
    BY <1>9, <1>10, <1>11, <1>13, <1>16 DEF DataInv

\* The loop that changes nothing but its place.
LEMMA SameData ==
    ASSUME DataInv, mu' \in Mutex, clock' \in 0..MaxClock, chaosCtx' \in {"live", "done"},
           closed' \in BOOLEAN, lastTick' \in Nat,
           UNCHANGED <<plan, started, pending, outcomes, faults, recovered, unsure>>
    PROVE  DataInv'
  BY DEF DataInv, PlanInv, ShapeInv, EventInv, RowInv, TargetInv, Fired, Held, Rules, Active

\* Where the loops stand, once the record of one event may have moved.
LEMMA OneMoves ==
    ASSUME DataInv, NEW i \in 1..Len(pending), recover(i) \/ FireFails(i) \/ FireLands(i)
    PROVE  /\ Len(pending') = Len(pending) /\ pending'[i].state # "waiting"
           /\ recover(i) => pending'[i].state = "out"
           /\ \A j \in 1..Len(pending) : j # i => pending'[j] = pending[j]
  <1> DEFINE r == [pending[i] EXCEPT !.state = "out"]
             q == [state |-> "active", startedAt |-> mu.now, deadline |-> mu.now + plan[i].dur]
  <1>a. PlanInv /\ ShapeInv
    BY DEF DataInv
  <1>b. pending[i] \in Fault /\ plan[i] \in Event
    BY <1>a, Indices DEF PlanInv
  <1>1. r \in Fault /\ r.state = "out"
    BY <1>b DEF Fault
  <1>c. mu.now \in Nat /\ plan[i].dur \in Nat
    BY <1>a, <1>b DEF Event, ShapeInv, Mutex
  <1>d. q \in Fault /\ q.state = "active"
    BY <1>c DEF Fault
  <1>2. CASE recover(i) \/ FireFails(i)
    <2>1. pending' = [pending EXCEPT ![i] = r]
      BY <1>2 DEF recover, FireFails
    <2> HIDE DEF r
    <2> QED
      BY <1>a, <1>1, <2>1, EventMoves
  <1>3. CASE FireLands(i) /\ ~recover(i)
    <2>1. pending' = [pending EXCEPT ![i] = q]
      BY <1>3 DEF FireLands
    <2> HIDE DEF q
    <2> QED
      BY <1>a, <1>d, <1>3, <2>1, EventMoves
  <1> QED
    BY <1>2, <1>3

\* The mutex holder's place in its loop.
LEMMA Moves ==
    ASSUME mu \in Mutex, NextIndex
    PROVE  /\ mu' \in Mutex /\ mu'.i = mu.i + 1
           /\ mu'.by = mu.by /\ mu'.phase = mu.phase /\ mu'.now = mu.now
  BY DEF Mutex, NextIndex

LEMMA AfterLast ==
    ASSUME PlanInv, ShapeInv, ~Holder
    PROVE  \A i \in 1..Len(pending) : i < mu.i
  BY Indices DEF Holder, ShapeInv, Mutex

\* The scheduler is started once, before anything was fired.
LEMMA StartStep ==
    ASSUME ChaosInv, Start PROVE ChaosInv'
  <1>a. PlanInv /\ ShapeInv /\ EventInv /\ RowInv /\ TargetInv /\ LoopInv
    BY DEF ChaosInv, DataInv
  <1>b. /\ ~started /\ started' = TRUE /\ mu.by = "none"
        /\ pending' = [i \in 1..Len(plan) |-> Waiting]
        /\ UNCHANGED <<clock, chaosCtx, plan, closed, outcomes, mu, lastTick, faults, recovered,
                       unsure>>
    BY DEF Start
  <1>1. Waiting \in Fault /\ Waiting.state = "waiting"
    BY DEF Waiting, Fault
  <1>2. /\ pending' \in Seq(Fault) /\ Len(pending') = Len(plan)
        /\ \A i \in 1..Len(plan) : pending'[i] = Waiting
    BY <1>a, <1>b, <1>1 DEF PlanInv
  <1>3. Len(pending) = 0 /\ 1..Len(pending) = {} /\ unsure = {}
    BY <1>a, <1>b DEF ShapeInv
  <1>4. \A i \in 1..Len(plan) : recovered[i] = 0
    BY <1>a, <1>b DEF EventInv
  <1>5. Fired = {} /\ Fired' = {}
    BY <1>1, <1>2, <1>3 DEF Fired
  <1>6. \A x : Held(x) = {} /\ Held(x)' = {} /\ Rules(x) = {} /\ Rules(x)' = {}
    BY <1>b, <1>1, <1>2, <1>3 DEF Held, Rules, Active
  <1>7. PlanInv'
    BY <1>a, <1>b DEF PlanInv
  <1>8. ShapeInv'
    BY <1>a, <1>b, <1>2, <1>3 DEF ShapeInv
  <1>9. EventInv'
    BY <1>b, <1>2, <1>3, <1>4 DEF EventInv
  <1>10. Len(outcomes) = 0
    BY <1>a, <1>5, FS_EmptySet DEF RowInv
  <1>11. RowInv'
    BY <1>b, <1>5, <1>10, FS_EmptySet DEF RowInv
  <1>12. TargetInv'
    BY <1>a, <1>b, <1>6 DEF TargetInv
  <1>13. LoopInv'
    BY <1>a, <1>b, <1>1, <1>2 DEF LoopInv, ShapeInv, Active
  <1> QED
    BY <1>7, <1>8, <1>9, <1>11, <1>12, <1>13 DEF ChaosInv, DataInv

\* The first loop of Tick: what is due is fired, and recovered at once if it
\* has no duration.
LEMMA FireStep ==
    ASSUME ChaosInv, TickFire PROVE ChaosInv'
  <1>0. PICK i, t : i = mu.i /\ t = mu.now
    OBVIOUS
  <1>a. PlanInv /\ ShapeInv /\ DataInv /\ LoopInv
    BY DEF ChaosInv, DataInv
  <1>b. /\ mu.by = "tick" /\ mu.phase = "fire" /\ i \in 1..Len(pending) /\ started /\ ~closed
        /\ UNCHANGED <<clock, chaosCtx, plan, started, closed, lastTick>>
    BY <1>0, <1>a DEF TickFire, Holder, LoopInv
  <1>c. mu \in Mutex
    BY <1>a DEF ShapeInv
  <1>d. \A j \in 1..Len(pending) : j < i => FiredBy(j, t)
    BY <1>0, <1>a, <1>b DEF LoopInv
  <1>e. ASSUME /\ Len(pending') = Len(pending)
               /\ \A j \in 1..Len(pending) : j # i => pending'[j] = pending[j]
               /\ mu' = mu \/ (NextIndex /\ FiredBy(i, t)')
        PROVE  LoopInv'
    <2>1. /\ mu'.by = "tick" /\ mu'.phase = "fire" /\ mu'.now = t
          /\ mu'.i = i \/ (mu'.i = i + 1 /\ FiredBy(i, t)')
      BY <1>0, <1>b, <1>c, <1>e, Moves
    <2>2. ASSUME NEW j \in 1..Len(pending), j < mu'.i PROVE FiredBy(j, t)'
      <3>1. j < i \/ (j = i /\ FiredBy(i, t)')
        BY <1>b, <2>1, <2>2
      <3>2. CASE j < i
        BY <1>b, <1>d, <1>e, <3>2 DEF FiredBy
      <3> QED
        BY <3>1, <3>2 DEF FiredBy
    <2> QED
      BY <1>b, <1>e, <2>1, <2>2 DEF LoopInv, FiredBy
  <1>1. CASE Due(i) /\ fire(i)
    <2>1. pending[i].state = "waiting" /\ (FireFails(i) \/ FireLands(i))
      BY <1>1 DEF Due, fire
    <2>2. mu' = mu \/ NextIndex
      BY <2>1 DEF FireFails, FireLands
    <2>3. Frame
      BY <1>b, <1>c, <2>2, Moves DEF Frame
    <2>4. DataInv'
      BY <1>a, <1>b, <2>1, <2>3, FailsData, LandsData
    <2>5. /\ Len(pending') = Len(pending) /\ pending'[i].state # "waiting"
          /\ \A j \in 1..Len(pending) : j # i => pending'[j] = pending[j]
      BY <1>a, <1>b, <2>1, OneMoves
    <2>6. FiredBy(i, t)'
      BY <2>5 DEF FiredBy
    <2> QED
      BY <1>e, <2>2, <2>4, <2>5, <2>6 DEF ChaosInv
  <1>2. CASE Active(i) /\ plan[i].dur = 0 /\ recover(i) /\ NextIndex
    <2>1. Frame
      BY <1>b, <1>c, <1>2, Moves DEF Frame
    <2>2. DataInv'
      BY <1>a, <1>b, <1>2, <2>1, RecoverData
    <2>3. /\ Len(pending') = Len(pending) /\ pending'[i].state # "waiting"
          /\ \A j \in 1..Len(pending) : j # i => pending'[j] = pending[j]
      BY <1>a, <1>b, <1>2, OneMoves
    <2> QED
      BY <1>e, <1>2, <2>2, <2>3 DEF ChaosInv, FiredBy
  <1>3. CASE ~Due(i) /\ NextIndex /\ UNCHANGED <<pending, outcomes, faults, recovered, unsure>>
    <2>1. mu' \in Mutex /\ mu'.now = t
      BY <1>0, <1>c, <1>3, Moves
    <2>2. DataInv'
      BY <1>a, <1>b, <1>3, <2>1, SameData DEF ShapeInv
    <2>3. FiredBy(i, t)
      <3>1. mu.now + Jitter \in Nat /\ plan[i].at \in Nat
        <4>1. plan[i] \in Event /\ mu.now \in Nat /\ Jitter \in Nat
          BY <1>a, <1>b, <1>c, ChaosAssumption, Indices DEF PlanInv, Mutex
        <4> QED
          BY <4>1 DEF Event
      <3> QED
        BY <1>0, <1>3, <3>1 DEF Due, FiredBy
    <2> QED
      BY <1>b, <1>e, <1>3, <2>1, <2>2, <2>3 DEF ChaosInv, FiredBy
  <1> QED
    BY <1>0, <1>1, <1>2, <1>3 DEF TickFire

\* The second loop of Tick: what has expired is recovered.
LEMMA ExpireStep ==
    ASSUME ChaosInv, TickRecover PROVE ChaosInv'
  <1>0. PICK i, t : i = mu.i /\ t = mu.now
    OBVIOUS
  <1>a. PlanInv /\ ShapeInv /\ DataInv /\ LoopInv
    BY DEF ChaosInv, DataInv
  <1>b. /\ mu.by = "tick" /\ mu.phase = "recover" /\ i \in 1..Len(pending) /\ started /\ ~closed
        /\ UNCHANGED <<clock, chaosCtx, plan, started, closed, lastTick>>
        /\ NextIndex
    BY <1>0, <1>a DEF TickRecover, Holder, LoopInv
  <1>c. /\ mu' \in Mutex /\ mu'.i = i + 1 /\ mu'.by = "tick" /\ mu'.phase = "recover"
        /\ mu'.now = t
    BY <1>0, <1>a, <1>b, Moves DEF ShapeInv
  <1>d. \A j \in 1..Len(pending) : FiredBy(j, t) /\ (j < i => RecoveredBy(j, t))
    BY <1>0, <1>a, <1>b DEF LoopInv
  <1>e. ASSUME /\ Len(pending') = Len(pending)
               /\ \A j \in 1..Len(pending) : j # i => pending'[j] = pending[j]
               /\ FiredBy(i, t)' /\ RecoveredBy(i, t)'
        PROVE  LoopInv'
    <2>1. ASSUME NEW j \in 1..Len(pending)
          PROVE  FiredBy(j, t)' /\ (j < i + 1 => RecoveredBy(j, t)')
      <3>1. CASE j = i
        BY <1>e, <3>1 DEF FiredBy, RecoveredBy, Active
      <3>2. CASE j # i
        <4>1. pending'[j] = pending[j] /\ (j < i + 1 => j < i)
          BY <1>b, <1>e, <3>2
        <4> QED
          BY <1>b, <1>d, <4>1 DEF FiredBy, RecoveredBy, Active
      <3> QED
        BY <3>1, <3>2
    <2> QED
      BY <1>b, <1>c, <1>e, <2>1 DEF LoopInv, FiredBy, RecoveredBy, Active
  <1>1. CASE Expired(i)
    <2>1. recover(i) /\ Active(i) /\ Frame
      BY <1>0, <1>1, <1>b, <1>c DEF TickRecover, Expired, Frame
    <2>2. DataInv'
      BY <1>a, <1>b, <2>1, RecoverData
    <2>3. /\ Len(pending') = Len(pending) /\ pending'[i].state # "waiting"
          /\ pending'[i].state # "active"
          /\ \A j \in 1..Len(pending) : j # i => pending'[j] = pending[j]
      BY <1>a, <1>b, <2>1, OneMoves
    <2> QED
      BY <1>e, <2>2, <2>3 DEF ChaosInv, FiredBy, RecoveredBy, Active
  <1>2. CASE ~Expired(i)
    <2>1. UNCHANGED <<pending, outcomes, faults, recovered, unsure>>
      BY <1>0, <1>2 DEF TickRecover
    <2>2. DataInv'
      BY <1>a, <1>b, <1>c, <2>1, SameData DEF ShapeInv
    <2>3. RecoveredBy(i, t)
      <3>1. mu.now \in Nat /\ pending[i].deadline \in Nat
        <4>1. pending[i] \in Fault /\ mu \in Mutex
          BY <1>a, <1>b, Indices DEF ShapeInv
        <4> QED
          BY <4>1 DEF Fault, Mutex
      <3> QED
        BY <1>0, <1>2, <3>1 DEF Expired, RecoveredBy
    <2> QED
      BY <1>b, <1>d, <1>e, <2>1, <2>2, <2>3 DEF ChaosInv, FiredBy, RecoveredBy, Active
  <1> QED
    BY <1>1, <1>2

\* The loop of Close: what is still active is recovered.
LEMMA CloseStep ==
    ASSUME ChaosInv, CloseRecover PROVE ChaosInv'
  <1>0. PICK i, t : i = mu.i /\ t = lastTick - 1
    OBVIOUS
  <1>a. PlanInv /\ ShapeInv /\ DataInv /\ LoopInv
    BY DEF ChaosInv, DataInv
  <1>b. /\ mu.by = "close" /\ i \in 1..Len(pending) /\ closed
        /\ UNCHANGED <<clock, chaosCtx, plan, started, closed, lastTick>>
        /\ NextIndex
    BY <1>0, <1>a DEF CloseRecover, Holder, LoopInv
  <1>c. mu' \in Mutex /\ mu'.i = i + 1 /\ mu'.by = "close"
    BY <1>0, <1>a, <1>b, Moves DEF ShapeInv
  <1>d. /\ lastTick > 0 => started
        /\ \A j \in 1..Len(pending) : /\ j < i => ~Active(j)
                                      /\ lastTick > 0 => FiredBy(j, t) /\ RecoveredBy(j, t)
    BY <1>0, <1>a, <1>b DEF LoopInv
  <1>e. ASSUME /\ Len(pending') = Len(pending)
               /\ \A j \in 1..Len(pending) : j # i => pending'[j] = pending[j]
               /\ ~Active(i)' /\ (lastTick > 0 => FiredBy(i, t)')
        PROVE  LoopInv'
    <2>1. ASSUME NEW j \in 1..Len(pending)
          PROVE  /\ j < i + 1 => ~Active(j)'
                 /\ lastTick > 0 => FiredBy(j, t)' /\ RecoveredBy(j, t)'
      <3>1. CASE j = i
        BY <1>e, <3>1 DEF FiredBy, RecoveredBy, Active
      <3>2. CASE j # i
        <4>1. pending'[j] = pending[j] /\ (j < i + 1 => j < i)
          BY <1>b, <1>e, <3>2
        <4> QED
          BY <1>b, <1>d, <4>1 DEF FiredBy, RecoveredBy, Active
      <3> QED
        BY <3>1, <3>2
    <2> QED
      BY <1>0, <1>b, <1>c, <1>d, <1>e, <2>1 DEF LoopInv, FiredBy, RecoveredBy, Active
  <1>1. CASE Active(i)
    <2>1. recover(i) /\ Frame
      BY <1>0, <1>1, <1>b, <1>c DEF CloseRecover, Frame
    <2>2. DataInv'
      BY <1>1, <1>a, <1>b, <2>1, RecoverData
    <2>3. /\ Len(pending') = Len(pending) /\ pending'[i].state = "out"
          /\ \A j \in 1..Len(pending) : j # i => pending'[j] = pending[j]
      BY <1>a, <1>b, <2>1, OneMoves
    <2> QED
      BY <1>e, <2>2, <2>3 DEF ChaosInv, FiredBy, Active
  <1>2. CASE ~Active(i)
    <2>1. UNCHANGED <<pending, outcomes, faults, recovered, unsure>>
      BY <1>0, <1>2 DEF CloseRecover
    <2>2. DataInv'
      BY <1>a, <1>b, <1>c, <2>1, SameData DEF ShapeInv
    <2> QED
      BY <1>2, <1>b, <1>d, <1>e, <2>1, <2>2 DEF ChaosInv, FiredBy, Active
  <1> QED
    BY <1>1, <1>2

\* Every step keeps the invariant.
LEMMA ChaosStep == ChaosInv /\ [ChaosNext]_chaosVars => ChaosInv'
  <1> SUFFICES ASSUME ChaosInv, [ChaosNext]_chaosVars PROVE ChaosInv'
    OBVIOUS
  <1>a. PlanInv /\ ShapeInv /\ DataInv /\ LoopInv
    BY DEF ChaosInv, DataInv
  <1>b. /\ mu \in Mutex /\ Idle \in Mutex /\ clock \in 0..MaxClock /\ clock \in Nat
        /\ chaosCtx \in {"live", "done"} /\ closed \in BOOLEAN /\ lastTick \in Nat
    BY <1>a, ChaosAssumption DEF ShapeInv, Idle, Mutex
  <1>1. CASE Advance
    <2>1. clock' \in 0..MaxClock
      BY <1>1, <1>b, ChaosAssumption DEF Advance
    <2>2. DataInv'
      BY <1>1, <1>a, <1>b, <2>1, SameData DEF Advance
    <2> QED
      BY <1>1, <1>a, <2>2 DEF ChaosInv, LoopInv, FiredBy, RecoveredBy, Active, Advance
  <1>2. CASE CancelRun
    <2>1. DataInv'
      BY <1>2, <1>a, <1>b, SameData DEF CancelRun
    <2> QED
      BY <1>2, <1>a, <2>1 DEF ChaosInv, LoopInv, FiredBy, RecoveredBy, Active, CancelRun
  <1>3. CASE TickStart
    <2>1. /\ mu' \in Mutex /\ mu'.by = "tick" /\ mu'.phase = "fire" /\ mu'.i = 1
          /\ started /\ ~closed
      BY <1>3, <1>b DEF TickStart, Idle, Mutex
    <2>2. DataInv'
      BY <1>3, <1>a, <1>b, <2>1, SameData DEF TickStart
    <2> QED
      BY <1>3, <2>1, <2>2 DEF ChaosInv, LoopInv, TickStart
  <1>4. CASE TickTurns
    <2>1. /\ mu' \in Mutex /\ mu'.by = "tick" /\ mu'.phase = "recover" /\ mu'.i = 1
          /\ mu'.now = mu.now /\ mu.by = "tick"
      <3>1. mu' = [mu EXCEPT !.phase = "recover", !.i = 1] /\ mu.by = "tick"
        BY <1>4 DEF TickTurns
      <3>2. 1 \in Nat \ {0}
        OBVIOUS
      <3> QED
        BY <1>b, <3>1, <3>2 DEF Mutex
    <2>2. DataInv'
      BY <1>4, <1>a, <1>b, <2>1, SameData DEF TickTurns
    <2>3. \A i \in 1..Len(pending) : FiredBy(i, mu.now)
      BY <1>4, <1>a, AfterLast DEF LoopInv, TickTurns
    <2> QED
      BY <1>4, <1>a, <2>1, <2>2, <2>3 DEF ChaosInv, LoopInv, FiredBy, TickTurns
  <1>5. CASE TickEnds
    <2>1. /\ mu' = Idle /\ mu'.by = "none" /\ lastTick' = mu.now + 1 /\ mu.now \in Nat
          /\ started /\ ~closed
      BY <1>5, <1>a, <1>b DEF TickEnds, Idle, Mutex, LoopInv
    <2>2. DataInv'
      BY <1>5, <1>a, <1>b, <2>1, SameData DEF TickEnds
    <2>3. \A i \in 1..Len(pending) : FiredBy(i, mu.now) /\ RecoveredBy(i, mu.now)
      BY <1>5, <1>a, AfterLast DEF LoopInv, TickEnds
    <2>4. lastTick' - 1 = mu.now
      BY <2>1
    <2> QED
      BY <1>5, <2>1, <2>2, <2>3, <2>4
      DEF ChaosInv, LoopInv, FiredBy, RecoveredBy, Active, TickEnds
  <1>6. CASE CloseStart
    <2>1. mu' \in Mutex /\ mu'.by = "close" /\ mu'.i = 1 /\ mu.by = "none"
      BY <1>6, <1>b DEF CloseStart, Idle, Mutex
    <2>2. DataInv'
      BY <1>6, <1>a, <1>b, <2>1, SameData DEF CloseStart
    <2> QED
      BY <1>6, <1>a, <2>1, <2>2
      DEF ChaosInv, LoopInv, FiredBy, RecoveredBy, Active, CloseStart
  <1>7. CASE CloseEnds
    <2>1. mu' = Idle /\ mu'.by = "none" /\ mu.by = "close"
      BY <1>7 DEF CloseEnds, Idle
    <2>2. DataInv'
      BY <1>7, <1>a, <1>b, <2>1, SameData DEF CloseEnds
    <2>3. \A i \in 1..Len(pending) : ~Active(i)
      BY <1>7, <1>a, AfterLast DEF LoopInv, CloseEnds
    <2> QED
      BY <1>7, <1>a, <2>1, <2>2, <2>3
      DEF ChaosInv, LoopInv, FiredBy, RecoveredBy, Active, CloseEnds
  <1>8. CASE UNCHANGED chaosVars
    <2>1. DataInv'
      BY <1>8, <1>a, <1>b, SameData DEF chaosVars
    <2> QED
      BY <1>8, <1>a, <2>1 DEF ChaosInv, LoopInv, FiredBy, RecoveredBy, Active, chaosVars
  <1> QED
    BY <1>1, <1>2, <1>3, <1>4, <1>5, <1>6, <1>7, <1>8, StartStep, FireStep, ExpireStep, CloseStep
    DEF ChaosNext, Tick, Close

\* The invariant gives what the run checks.
LEMMA Contained == ChaosInv => FaultsContained
  <1> SUFFICES ASSUME ChaosInv PROVE FaultsContained
    OBVIOUS
  <1>a. PlanInv /\ ShapeInv /\ EventInv /\ RowInv /\ TargetInv /\ LoopInv
    BY DEF ChaosInv, DataInv
  <1>1. /\ Len(pending) \in Nat /\ 1..Len(pending) \subseteq 1..Len(plan) /\ Len(plan) \in Nat
        /\ \A i \in 1..Len(pending) : pending[i] \in Fault
        /\ faults \in [Places -> Nat]
    BY <1>a, Indices DEF PlanInv, ShapeInv
  <1>2. ASSUME NEW x \in Places
        PROVE  /\ IsFiniteSet(Held(x)) /\ Cardinality(Held(x)) \in Nat
               /\ Cardinality(Held(x)) <= Len(plan)
               /\ faults[x] <= Cardinality(Held(x)) /\ Cardinality(Rules(x)) <= faults[x]
    <2>1. Held(x) \in SUBSET (1..Len(pending))
      BY DEF Held
    <2> QED
      BY <1>a, <2>1, Finite DEF TargetInv
  <1>3. ChaosTypeOK
    <2>1. faults \in [Places -> 0..Len(plan)]
      BY <1>1, <1>2
    <2>2. Fired \in SUBSET (1..Len(pending))
      BY DEF Fired
    <2>3. Len(outcomes) <= Len(plan)
      BY <1>a, <2>2, Finite DEF RowInv
    <2>4. \A i \in 1..Len(pending) : pending[i].state \in {"waiting", "active", "out"}
      BY <1>1 DEF Fault
    <2> QED
      BY <1>a, <1>1, <2>1, <2>3, <2>4 DEF ChaosTypeOK, ShapeInv
  <1>4. NoFaultOutlivesRun
    <2> SUFFICES ASSUME closed, mu.by = "none", NEW x \in Places, faults[x] > 0
                 PROVE  \E i \in unsure : plan[i].place = x
      BY DEF NoFaultOutlivesRun
    <2>1. \A i \in 1..Len(pending) : ~Active(i)
      BY <1>a DEF LoopInv
    <2>2. Held(x) # {}
      <3>1. Cardinality(Held(x)) # 0
        BY <1>1, <1>2
      <3> QED
        BY <3>1, FS_EmptySet
    <2> QED
      BY <2>1, <2>2 DEF Held
  <1>5. RecoveryOnce
    <2>1. \A i \in DOMAIN recovered : recovered[i] <= 1
      BY <1>a DEF ShapeInv
    <2>2. ASSUME NEW k \in 1..Len(outcomes)
          PROVE  recovered[outcomes[k].of] =
                   (IF outcomes[k].error \/ Active(outcomes[k].of) THEN 0 ELSE 1)
      <3>1. outcomes[k].of \in 1..Len(pending)
        BY <1>a DEF RowInv, Fired
      <3>2. CASE Active(outcomes[k].of)
        BY <1>a, <3>1, <3>2 DEF EventInv, Active
      <3>3. CASE ~Active(outcomes[k].of)
        BY <1>a, <3>3 DEF RowInv
      <3> QED
        BY <3>2, <3>3
    <2>3. closed /\ mu.by = "none" => \A i \in 1..Len(pending) : ~Active(i)
      BY <1>a DEF LoopInv
    <2> QED
      BY <2>1, <2>2, <2>3 DEF RecoveryOnce
  <1>6. TickComplete
    BY <1>a DEF LoopInv, TickComplete, FiredBy, RecoveredBy
  <1>7. PartitionsHold
    BY <1>2 DEF PartitionsHold, Rules
  <1> QED
    BY <1>3, <1>4, <1>5, <1>6, <1>7 DEF FaultsContained

\* The scheduler on its own, for any events, jitter and clock: a fault is
\* recovered once, by the tick that is due or by Close, none outlives the run
\* unless its own command was lost, and no recovery lifts the partition of
\* another event.
THEOREM ChaosContained == ChaosSpec => []FaultsContained
  BY ChaosInitInv, ChaosStep, Contained, PTL DEF ChaosSpec

-----------------------------------------------------------------------------
(***************************************************************************)
(* The validator's races and its loop over the transitions.  In a race,    *)
(* the bill runs begun are those answered as accepted and perhaps those    *)
(* whose answer was lost (FireInv); in the loop, what is known of a        *)
(* subscription is what the platform said of it, and as long as nothing    *)
(* was wrong the rows behind the loop are right (ScanInv).                 *)
(***************************************************************************)
\* A finite set of numbers that is not empty has a greatest and a least.
LEMMA Extremes ==
    ASSUME NEW S, S \subseteq Nat, S # {}, IsFiniteSet(S)
    PROVE  /\ \E x \in S : \A y \in S : y <= x
           /\ \E x \in S : \A y \in S : x <= y
  <1> DEFINE R == OpToRel(<, Nat)
             Above(x) == {y \in S : y > x}
             T == {Cardinality(Above(x)) : x \in S}
  <1>1. IsWellFoundedOn(R, Nat)
    BY NatLessThanWellFounded
  <1>2. \A y, x \in Nat : y < x => <<y, x>> \in R
    BY DEF OpToRel
  <1>3. \A x \in S : IsFiniteSet(Above(x)) /\ Cardinality(Above(x)) \in Nat
    <2>1. \A x \in S : Above(x) \subseteq S
      OBVIOUS
    <2> HIDE DEF Above
    <2> QED
      BY <2>1, FS_Subset, FS_CardinalityType
  <1> HIDE DEF R
  <1>4. PICK m \in T : \A y \in T : ~(<<y, m>> \in R)
    <2>1. T \subseteq Nat /\ T # {}
      BY <1>3
    <2> HIDE DEF T
    <2> QED
      BY <1>1, <2>1, WFMin
  <1>5. PICK x \in S : m = Cardinality(Above(x))
    BY <1>4
  <1>6. ASSUME NEW y \in S, ~(y <= x) PROVE FALSE
    <2>0. x \in Nat /\ y \in Nat /\ x < y /\ \A z \in S : z \in Nat
      BY <1>6
    <2>1. Above(y) \subseteq Above(x) /\ y \in Above(x) /\ y \notin Above(y)
      <3>1. \A z \in Above(y) : z \in Above(x)
        BY <2>0
      <3>2. y \in Above(x) /\ y \notin Above(y)
        BY <2>0
      <3> HIDE DEF Above
      <3> QED
        BY <3>1, <3>2
    <2>2. Cardinality(Above(y)) \in T
      OBVIOUS
    <2> HIDE DEF Above, T
    <2>3. Cardinality(Above(y)) < Cardinality(Above(x))
      BY <1>3, <2>1, FS_Subset
    <2> QED
      BY <1>2, <1>3, <1>4, <1>5, <2>2, <2>3
  <1>7. PICK z \in S : \A y \in S : ~(<<y, z>> \in R)
    BY <1>1, WFMin
  <1>8. \A y \in S : y <= x
    BY <1>6
  <1>9. ASSUME NEW y \in S PROVE z <= y
    <2>1. y \in Nat /\ z \in Nat
      OBVIOUS
    <2>2. ~(y < z)
      BY <1>2, <1>7, <2>1
    <2> QED
      BY <2>1, <2>2
  <1> QED
    BY <1>8, <1>9

FireStates == {"idle", "sent", "accepted", "refused", "ok", "conflict", "lookalike", "error", "unsupported"}
RowNames == {AllChecks[k] : k \in Nat}
ReportRow == [name : RowNames, status : Statuses,
              answer : {"ok", "error", "unsupported", "cancelled", "none", "broken", "misread"}]

\* A bill run that was certainly begun, or may have been.
Sure(x)  == IF fires[x] \in {"accepted", "ok"} THEN 1 ELSE 0
Maybe(x) == IF fires[x] \in {"accepted", "ok", "error", "lookalike"} THEN 1 ELSE 0

FireInv ==
    stage = "in" /\ AtRace =>
        /\ begun \in Nat
        /\ Sure("A") + Sure("B") <= begun /\ begun <= Maybe("A") + Maybe("B")
        /\ fires["migrate"] \notin {"accepted", "ok", "error", "lookalike"} => moved = "no"
        /\ Check = "bill_run_concurrency" => fires["migrate"] = "idle"

RightRow(i) ==
    world.log[i].status = "OK" /\ world.log[i].expected # "" =>
        world.state[world.log[i].sub] = world.log[i].expected

Known == [DOMAIN world.state -> {""} \cup {world.state[s] : s \in DOMAIN world.state}]

ScanInv ==
    stage = "in" /\ AtCheck("lifecycle_correctness") =>
        /\ scan \in [i : Nat \ {0}, live : BOOLEAN, known : Known, ok : BOOLEAN, n : Nat]
        /\ \A s \in DOMAIN world.state : scan.known[s] \in {"", world.state[s]}
        /\ scan.live /\ scan.ok => \A i \in 1..(scan.i - 1) : RightRow(i)

ReportInv ==
    /\ world \in Worlds /\ pos \in Nat /\ stage \in {"next", "in"}
    /\ verdicts \in Seq(ReportRow)
    /\ fires \in [Calls -> FireStates]

ValidInv == ReportInv /\ FireInv /\ ScanInv /\ LockSound /\ LifecycleSound

\* The next check asked for: the places passed over are not, and it is.
LEMMA NextFound ==
    ASSUME NEW i \in Nat
    PROVE  /\ NextCheck(i) \in Nat
           /\ i <= Len(AllChecks) + 1 => NextCheck(i) \in i..Len(AllChecks) + 1
           /\ \A j \in i..Len(AllChecks) : j < NextCheck(i) => ~Wanted(j)
           /\ NextCheck(i) <= Len(AllChecks) => Wanted(NextCheck(i))
  <1> DEFINE N == Len(AllChecks)
             S == {j \in i..N : Wanted(j)} \cup {N + 1}
  <1>1. N \in Nat
    BY DEF AllChecks
  <1> HIDE DEF N
  <1>2. S \subseteq Nat /\ S # {}
    BY <1>1
  <1>3. IsFiniteSet(S)
    <2>1. IsFiniteSet(i..N)
      BY <1>1, FS_Interval
    <2>2. IsFiniteSet({j \in i..N : Wanted(j)})
      BY <2>1, FS_Subset
    <2> QED
      BY <2>2, FS_AddElement
  <1> DEFINE P(x) == \A y \in S : x <= y
             m == CHOOSE x \in S : P(x)
  <1>4. \E x \in S : P(x)
    BY <1>2, <1>3, Extremes
  <1>5. NextCheck(i) = m
    BY DEF NextCheck, Min, N
  <1>6. m \in S /\ P(m)
    <2> HIDE DEF S, P
    <2> QED
      BY <1>4
  <1> HIDE DEF m
  <1> QED
    BY <1>1, <1>5, <1>6 DEF N

\* A verdict that is right where it passes ends the check.
LEMMA Reported ==
    ASSUME ValidInv, NEW s \in Statuses,
           NEW a \in {"ok", "error", "unsupported", "cancelled", "none", "broken", "misread"},
           Report(s, a), UNCHANGED world, fires' \in [Calls -> FireStates],
           Check \in Races /\ s = "PASS" => a \in {"ok", "misread"},
           Check = "lifecycle_correctness" /\ s = "PASS" /\ a = "ok" =>
              \A i \in 1..Len(world.log) : RightRow(i)
    PROVE  ValidInv'
  <1>1. PICK r : r = [name |-> Check, status |-> s, answer |-> a]
    OBVIOUS
  <1>2. pos \in Nat /\ verdicts \in Seq(ReportRow) /\ Check \in RowNames
    BY DEF ValidInv, ReportInv, Check, RowNames
  <1>3. r \in ReportRow /\ r.name = Check /\ r.status = s /\ r.answer = a
    BY <1>1, <1>2 DEF ReportRow
  <1>4. verdicts' = Append(verdicts, r) /\ pos' = NextCheck(pos + 1) /\ stage' = "next"
    BY <1>1 DEF Report
  <1>5. pos' \in Nat
    BY <1>2, <1>4, NextFound
  <1>6. /\ verdicts' \in Seq(ReportRow) /\ Len(verdicts) \in Nat /\ Len(verdicts') = Len(verdicts) + 1
        /\ verdicts'[Len(verdicts) + 1] = r
        /\ \A i \in 1..Len(verdicts) : verdicts'[i] = verdicts[i]
    BY <1>2, <1>3, <1>4
  <1>7. \A i \in 1..Len(verdicts') : verdicts'[i] = r \/ (i \in 1..Len(verdicts) /\ verdicts'[i] = verdicts[i])
    BY <1>6
  <1>8. ReportInv'
    BY <1>2, <1>4, <1>5, <1>6 DEF ValidInv, ReportInv
  <1>9. FireInv' /\ ScanInv'
    BY <1>4 DEF FireInv, ScanInv
  <1>10. LockSound'
    BY <1>3, <1>7 DEF ValidInv, LockSound
  <1>11. LifecycleSound'
    <2> SUFFICES ASSUME PassedAsked("lifecycle_correctness")', NEW i \in 1..Len(world.log) PROVE RightRow(i)
      BY DEF LifecycleSound, RightRow
    <2>1. PICK j \in 1..Len(verdicts') : /\ verdicts'[j].name = "lifecycle_correctness"
                                         /\ verdicts'[j].status = "PASS" /\ verdicts'[j].answer = "ok"
      BY DEF PassedAsked
    <2>2. CASE verdicts'[j] = r
      BY <1>3, <2>1, <2>2
    <2>3. CASE j \in 1..Len(verdicts) /\ verdicts'[j] = verdicts[j]
      <3>1. PassedAsked("lifecycle_correctness")
        BY <2>1, <2>3 DEF PassedAsked
      <3> QED
        BY <3>1 DEF ValidInv, LifecycleSound, RightRow
    <2> QED
      BY <1>7, <2>1, <2>2, <2>3
  <1> QED
    BY <1>8, <1>9, <1>10, <1>11 DEF ValidInv

\* Nothing of a check moves.
LEMMA CheckUnmoved ==
    ASSUME ValidInv, UNCHANGED <<world, pos, stage, verdicts, scan, fires, begun, moved>>
    PROVE  ValidInv'
  <1>1. ReportInv'
    BY DEF ValidInv, ReportInv
  <1>2. FireInv'
    BY DEF ValidInv, FireInv, AtRace, Check, Done, Sure, Maybe
  <1>3. ScanInv'
    BY DEF ValidInv, ScanInv, AtCheck, Check, Done, Known, RightRow
  <1>4. LockSound' /\ LifecycleSound'
    BY DEF ValidInv, LockSound, LifecycleSound, PassedAsked
  <1> QED
    BY <1>1, <1>2, <1>3, <1>4 DEF ValidInv

\* A check of one query gives one of the three verdicts.
LEMMA VerdictGiven ==
    ASSUME NEW name \in OneQuery, NEW a
    PROVE  Verdict(name, a) \in Statuses
  <1>1. ASSUME NEW cap, NEW b, NEW ok PROVE Judge(cap, b, ok) \in Statuses
    BY DEF Judge, Statuses
  <1>2. /\ runEventCount(a) \in Statuses /\ runBillingHierarchy(a) \in Statuses
        /\ runCacheHitRatio(a) \in Statuses
    BY <1>1 DEF runEventCount, runBillingHierarchy, runCacheHitRatio
  <1>3. runCrossTenantLeakage(a) \in Statuses
    BY <1>1 DEF runCrossTenantLeakage, Statuses
  <1>4. runNegativePathCorrectness(a) \in Statuses
    BY DEF runNegativePathCorrectness, Statuses
  <1>5. runInvariants(a) \in Statuses /\ runTaxMath \in Statuses /\ runMultiCurrency \in Statuses
    BY DEF runInvariants, runTaxMath, runMultiCurrency, Statuses
  <1> QED
    BY <1>2, <1>3, <1>4, <1>5 DEF Verdict, OneQuery

\* A check starts its work: no row is written, and it has no call under way.
LEMMA CheckStarts ==
    ASSUME ValidInv, UNCHANGED <<world, pos, verdicts>>, stage' \in {"next", "in"},
           fires' \in [Calls -> FireStates], FireInv', ScanInv'
    PROVE  ValidInv'
  <1>1. ReportInv'
    BY DEF ValidInv, ReportInv
  <1>2. LockSound' /\ LifecycleSound'
    BY DEF ValidInv, LockSound, LifecycleSound, PassedAsked
  <1> QED
    BY <1>1, <1>2 DEF ValidInv

\* A row of the loop.
LEMMA ScanStep == ASSUME ValidInv, ScanRow PROVE ValidInv'
  <1> DEFINE Scans == [i : Nat \ {0}, live : BOOLEAN, known : Known, ok : BOOLEAN, n : Nat]
             Good(t) == /\ t \in Scans
                        /\ \A s \in DOMAIN world.state : t.known[s] \in {"", world.state[s]}
                        /\ t.live /\ t.ok => \A i \in 1..(t.i - 1) : RightRow(i)
  <1>0. /\ stage = "in" /\ AtCheck("lifecycle_correctness") /\ scan.i <= Len(world.log)
        /\ UNCHANGED <<world, pos, stage, verdicts, fires, begun, moved>>
    BY DEF ScanRow
  <1>1. Good(scan)
    BY <1>0 DEF ValidInv, ScanInv
  <1>w. Len(world.log) \in Nat /\ \A i \in 1..Len(world.log) : world.log[i].sub \in DOMAIN world.state
    BY WorldAssumption DEF ValidInv, ReportInv
  <1>f. /\ scan.i \in Nat \ {0} /\ scan.live \in BOOLEAN /\ scan.known \in Known /\ scan.ok \in BOOLEAN
        /\ scan.n \in Nat
        /\ scan = [i |-> scan.i, live |-> scan.live, known |-> scan.known, ok |-> scan.ok, n |-> scan.n]
    BY <1>1
  <1>i. scan.i \in 1..Len(world.log) /\ scan.i \in Nat
    BY <1>0, <1>f, <1>w
  <1>r. PICK row : row = world.log[scan.i]
    OBVIOUS
  <1>d. row.sub \in DOMAIN world.state
    BY <1>i, <1>r, <1>w
  <1>n. PICK next : next = [scan EXCEPT !.i = @ + 1]
    OBVIOUS
  <1>m. next = [i |-> scan.i + 1, live |-> scan.live, known |-> scan.known, ok |-> scan.ok, n |-> scan.n]
    BY <1>f, <1>n
  <1>2. next \in Scans /\ next.i = scan.i + 1 /\ next.live = scan.live /\ next.known = scan.known /\ next.ok = scan.ok
    BY <1>f, <1>m
  <1>c. PICK counted : counted = [next EXCEPT !.n = @ + 1, !.ok = @ /\ ~Unstable(row)]
    OBVIOUS
  <1>k. counted = [i |-> scan.i + 1, live |-> scan.live, known |-> scan.known,
                   ok |-> scan.ok /\ ~Unstable(row), n |-> scan.n + 1]
    BY <1>m, <1>c
  <1>3. /\ counted \in Scans /\ counted.i = scan.i + 1 /\ counted.live = scan.live /\ counted.known = scan.known
        /\ counted.ok => scan.ok
    BY <1>f, <1>k
  <1>a. PICK answered : answered = [counted EXCEPT !.known[row.sub] = world.state[row.sub],
                                                   !.ok = @ /\ world.state[row.sub] = row.expected]
    OBVIOUS
  <1>4. /\ answered \in Scans /\ answered.i = scan.i + 1 /\ answered.live = scan.live
        /\ \A s \in DOMAIN world.state : answered.known[s] \in {world.state[s], scan.known[s]}
        /\ answered.ok => scan.ok /\ world.state[row.sub] = row.expected
    BY <1>1, <1>3, <1>a, <1>d DEF Known
  <1>5. \/ row.status = "PENDING" /\ scan' = next
        \/ ~Asked(row) /\ scan' = counted
        \/ scan' = [counted EXCEPT !.live = FALSE]
        \/ scan' = [counted EXCEPT !.ok = FALSE]
        \/ scan' = answered
    <2>1. IF row.status = "PENDING" THEN scan' = next
          ELSE IF ~Asked(row) THEN scan' = counted
          ELSE \E a \in IF vctx = "done" THEN {"error"} ELSE Answers("other") :
                scan' = CASE a = "unsupported" -> [counted EXCEPT !.live = FALSE]
                          [] a = "error"       -> [counted EXCEPT !.ok = FALSE]
                          [] a = "ok"          -> answered
      BY <1>r, <1>n, <1>c, <1>a DEF ScanRow
    <2>2. \A a \in IF vctx = "done" THEN {"error"} ELSE Answers("other") : a \in {"unsupported", "error", "ok"}
      BY DEF Answers
    <2> QED
      BY <2>1, <2>2
  <1>s. ASSUME NEW t \in Scans, t.i = scan.i + 1, t.live /\ t.ok => scan.live /\ scan.ok /\ RightRow(scan.i)
        PROVE  t.live /\ t.ok => \A i \in 1..(t.i - 1) : RightRow(i)
    <2> SUFFICES ASSUME t.live, t.ok, NEW i \in 1..scan.i PROVE RightRow(i)
      BY <1>i, <1>s
    <2>1. CASE i = scan.i
      BY <1>s, <2>1
    <2>2. CASE i # scan.i
      <3>1. i \in 1..(scan.i - 1)
        BY <1>i, <2>2
      <3> QED
        BY <1>1, <1>s, <3>1
    <2> QED
      BY <2>1, <2>2
  <1>6. Good(scan')
    <2>1. CASE row.status = "PENDING" /\ scan' = next
      <3>1. RightRow(scan.i)
        BY <1>r, <2>1 DEF RightRow
      <3> QED
        BY <1>1, <1>2, <1>s, <2>1, <3>1
    <2>2. CASE ~Asked(row) /\ scan' = counted
      <3>1. scan.live => RightRow(scan.i)
        BY <1>r, <1>1, <1>d, <2>2 DEF RightRow, Asked
      <3> QED
        BY <1>1, <1>3, <1>s, <2>2, <3>1
    <2>3. CASE scan' = [counted EXCEPT !.live = FALSE]
      <3>1. scan' \in Scans /\ scan'.live = FALSE /\ scan'.known = scan.known
        BY <1>3, <2>3
      <3> QED
        BY <1>1, <3>1
    <2>4. CASE scan' = [counted EXCEPT !.ok = FALSE]
      <3>1. scan' \in Scans /\ scan'.ok = FALSE /\ scan'.known = scan.known
        BY <1>3, <2>4
      <3> QED
        BY <1>1, <3>1
    <2>5. CASE scan' = answered
      <3>1. answered.ok => RightRow(scan.i)
        BY <1>r, <1>4 DEF RightRow
      <3> QED
        BY <1>1, <1>4, <1>s, <2>5, <3>1
    <2> QED
      BY <1>5, <2>1, <2>2, <2>3, <2>4, <2>5
  <1>7. ScanInv'
    BY <1>0, <1>6 DEF ScanInv, Known, RightRow
  <1>8. FireInv'
    BY <1>0 DEF ValidInv, FireInv, AtRace, Check, Done, Sure, Maybe
  <1> QED
    BY <1>0, <1>7, <1>8, CheckStarts DEF ValidInv, ReportInv

\* The calls of a race.
LEMMA RaceSteps ==
    ASSUME ValidInv, NEW x \in Calls, TriggerBillRun(x) \/ CallReturns(x) \/ MigrateSubscription
    PROVE  ValidInv'
  <1>0. /\ stage = "in" /\ AtRace /\ UNCHANGED <<world, pos, stage, verdicts, scan>>
        /\ fires \in [Calls -> FireStates]
    BY DEF ValidInv, ReportInv, TriggerBillRun, CallReturns, MigrateSubscription
  <1>1. ScanInv'
    BY <1>0 DEF ValidInv, ScanInv, AtCheck, Check, Done, Known, RightRow
  <1>2. /\ begun \in Nat /\ Sure("A") + Sure("B") <= begun /\ begun <= Maybe("A") + Maybe("B")
        /\ fires["migrate"] \notin {"accepted", "ok", "error", "lookalike"} => moved = "no"
        /\ Check = "bill_run_concurrency" => fires["migrate"] = "idle"
    BY <1>0 DEF ValidInv, FireInv
  <1>3. fires' \in [Calls -> FireStates] /\ FireInv'
    <2>1. CASE TriggerBillRun(x)
      <3>1. /\ x \in {"A", "B"} /\ fires[x] = "sent" /\ UNCHANGED moved
            /\ \/ fires' = [fires EXCEPT ![x] = "refused"] /\ begun' = begun
               \/ fires' = [fires EXCEPT ![x] = "accepted"] /\ begun' = begun + 1
        BY <2>1 DEF TriggerBillRun
      <3>2. fires' \in [Calls -> FireStates]
        BY <1>0, <3>1 DEF FireStates
      <3>3. fires'["migrate"] = fires["migrate"]
        BY <1>0, <3>1 DEF Calls
      <3>4. begun' \in Nat /\ Sure("A")' + Sure("B")' <= begun' /\ begun' <= Maybe("A")' + Maybe("B")'
        BY <1>0, <1>2, <3>1 DEF Sure, Maybe, Calls
      <3> QED
        BY <1>0, <1>2, <3>1, <3>2, <3>3, <3>4 DEF FireInv, Check
    <2>2. CASE CallReturns(x)
      <3>1. PICK a \in {"error", "lookalike", "unsupported", "ok", "conflict"} :
               /\ fires' = [fires EXCEPT ![x] = a] /\ UNCHANGED <<begun, moved>>
               /\ fires[x] \in {"sent", "accepted", "refused"}
               /\ fires[x] = "sent" => a \in {"error", "lookalike", "unsupported"}
               /\ fires[x] = "accepted" => a \in {"error", "lookalike", "ok"}
               /\ fires[x] = "refused" => a \in {"error", "lookalike", "conflict"}
        BY <2>2 DEF CallReturns
      <3>2. fires' \in [Calls -> FireStates]
        BY <1>0, <3>1 DEF FireStates
      <3>3. fires'["migrate"] \notin {"accepted", "ok", "error", "lookalike"} => moved = "no"
        BY <1>0, <1>2, <3>1 DEF Calls
      <3>4. Check = "bill_run_concurrency" => fires'["migrate"] = "idle"
        BY <1>0, <1>2, <3>1 DEF Calls
      <3>5. begun' \in Nat /\ Sure("A")' + Sure("B")' <= begun' /\ begun' <= Maybe("A")' + Maybe("B")'
        BY <1>0, <1>2, <3>1 DEF Sure, Maybe, Calls
      <3> QED
        BY <1>0, <3>1, <3>2, <3>3, <3>4, <3>5 DEF FireInv, Check
    <2>3. CASE MigrateSubscription
      <3>1. /\ fires["migrate"] = "sent" /\ UNCHANGED begun
            /\ \/ moved' = "no" /\ fires' = [fires EXCEPT !["migrate"] = "refused"]
               \/ fires' = [fires EXCEPT !["migrate"] = "accepted"]
        BY <2>3 DEF MigrateSubscription
      <3>2. fires' \in [Calls -> FireStates]
        BY <1>0, <3>1 DEF FireStates
      <3>3. \A y \in {"A", "B"} : fires'[y] = fires[y]
        BY <1>0, <3>1 DEF Calls
      <3>4. fires'["migrate"] \in {"refused", "accepted"} /\ (fires'["migrate"] = "refused" => moved' = "no")
        BY <1>0, <3>1 DEF Calls
      <3>5. Check # "bill_run_concurrency"
        BY <1>2, <3>1
      <3> QED
        BY <1>0, <1>2, <3>1, <3>2, <3>3, <3>4, <3>5 DEF FireInv, Check, Sure, Maybe
    <2> QED
      BY <2>1, <2>2, <2>3
  <1> QED
    BY <1>0, <1>1, <1>3, CheckStarts

\* A race that passes has begun one bill run and kept the subscription's id, or misread an error.
LEMMA RaceJudged ==
    ASSUME ValidInv, RaceEnds
    PROVE  ValidInv'
  <1>0. /\ stage = "in" /\ AtRace /\ UNCHANGED <<world, fires>> /\ fires \in [Calls -> FireStates]
        /\ Check \in Races
    BY DEF ValidInv, ReportInv, RaceEnds, AtRace
  <1>1. /\ begun \in Nat /\ Sure("A") + Sure("B") <= begun /\ begun <= Maybe("A") + Maybe("B")
        /\ fires["migrate"] \notin {"accepted", "ok", "error", "lookalike"} => moved = "no"
        /\ Check = "bill_run_concurrency" => fires["migrate"] = "idle"
    BY <1>0 DEF ValidInv, FireInv
  <1> DEFINE ok == {x \in {"A", "B"} : fires[x] = "ok"}
             conflicts == {x \in {"A", "B"} : isConflict(fires[x])}
  <1>2. RaceVerdict \in Statuses
    BY DEF RaceVerdict, Statuses
  <1>3. ASSUME RaceVerdict = "PASS" PROVE RaceTruth \in {"ok", "misread"}
    <2>1. /\ Cardinality(ok) = 1 /\ Cardinality(conflicts) = 1
          /\ Check = "bill_run_vs_lifecycle" =>
                isConflict(fires["migrate"]) \/ (fires["migrate"] = "ok" /\ moved = "stable")
      BY <1>3 DEF RaceVerdict
    <2>2. ok # {} /\ conflicts # {}
      BY <2>1, FS_EmptySet
    <2>3. \/ fires["A"] = "ok" /\ fires["B"] \in {"conflict", "lookalike"}
          \/ fires["B"] = "ok" /\ fires["A"] \in {"conflict", "lookalike"}
      BY <2>2 DEF isConflict
    <2>4. begun = 1 \/ (begun > 1 /\ (fires["A"] = "lookalike" \/ fires["B"] = "lookalike"))
      BY <1>1, <2>3 DEF Sure, Maybe
    <2>5. moved = "new id" => fires["migrate"] = "lookalike"
      BY <1>0, <1>1, <2>1 DEF Races, isConflict
    <2>6. begun > 0 /\ (begun > 1 => fires["A"] = "lookalike" \/ fires["B"] = "lookalike")
      BY <1>1, <2>4
    <2>7. CASE begun = 1 /\ moved # "new id"
      BY <2>7 DEF RaceTruth
    <2>8. CASE ~(begun = 1 /\ moved # "new id")
      BY <2>5, <2>6, <2>8, Zenon DEF RaceTruth
    <2> QED
      BY <2>7, <2>8
  <1>4. RaceTruth \in {"ok", "misread", "broken"} /\ Report(RaceVerdict, RaceTruth)
    BY DEF RaceEnds, RaceTruth
  <1>5. Check # "lifecycle_correctness"
    BY <1>0 DEF Races
  <1> HIDE DEF ok, conflicts
  <1> QED
    BY <1>0, <1>2, <1>3, <1>4, <1>5, Reported

LEMMA ValidStep == ValidInv /\ [ValidateNext]_validateVars => ValidInv'
  <1> SUFFICES ASSUME ValidInv, [ValidateNext]_validateVars PROVE ValidInv'
    OBVIOUS
  <1>f. fires \in [Calls -> FireStates]
    BY DEF ValidInv, ReportInv
  <1>s. "SKIP" \in Statuses /\ "PASS" \in Statuses /\ "FAIL" \in Statuses
    BY DEF Statuses
  <1>1. CASE UNCHANGED validateVars \/ Cancel \/ BillOneCustomer \/ runValidate \/ \E t \in lock : BillRunEnds(t)
    BY <1>1, CheckUnmoved DEF validateVars, Cancel, BillOneCustomer, runValidate, BillRunEnds
  <1>2. CASE SkipCheck
    BY <1>2, <1>f, <1>s, Reported DEF SkipCheck
  <1>3. CASE dispatch
    <2>1. PICK a \in {"ok", "error", "unsupported"} : Report(Verdict(Check, a), a)
      BY <1>3 DEF dispatch, Answers
    <2>2. Check \in OneQuery /\ UNCHANGED <<world, fires>>
      BY <1>3 DEF dispatch
    <2>3. Verdict(Check, a) \in Statuses
      BY <2>2, VerdictGiven
    <2>4. Check \notin Races /\ Check # "lifecycle_correctness"
      BY <2>2 DEF OneQuery, Races
    <2> QED
      BY <1>f, <2>1, <2>2, <2>3, <2>4, Reported
  <1>4. CASE BillingMatchStart
    <2>1. Check = "per_archetype_billing_match" /\ UNCHANGED <<world, fires, scan, begun, moved>>
      BY <1>4 DEF BillingMatchStart, AtCheck
    <2>2. CASE Report("SKIP", "none")
      BY <1>f, <1>s, <2>1, <2>2, Reported
    <2>3. CASE stage' = "in" /\ UNCHANGED <<pos, verdicts>>
      <3>1. Check' = Check
        BY <2>1, <2>3 DEF Check
      <3>2. FireInv' /\ ScanInv'
        BY <2>1, <3>1 DEF FireInv, ScanInv, AtRace, AtCheck, Races
      <3> QED
        BY <1>f, <2>1, <2>3, <3>2, CheckStarts
    <2> QED
      BY <1>4, <2>2, <2>3 DEF BillingMatchStart
  <1>5. CASE runBillingMatch
    <2>1. Check = "per_archetype_billing_match" /\ UNCHANGED <<world, fires>>
      BY <1>5 DEF runBillingMatch, AtCheck
    <2>2. PICK s \in {"PASS", "FAIL"} : Report(s, "none")
      BY <1>5 DEF runBillingMatch
    <2>3. Check \notin Races /\ Check # "lifecycle_correctness"
      BY <2>1 DEF Races
    <2> QED
      BY <1>f, <1>s, <2>1, <2>2, <2>3, Reported
  <1>6. CASE LifecycleStart
    <2>1. Check = "lifecycle_correctness" /\ UNCHANGED <<world, fires, begun, moved>>
      BY <1>6 DEF LifecycleStart, AtCheck
    <2>2. CASE Report("SKIP", "none")
      BY <1>f, <1>s, <2>1, <2>2, Reported
    <2>3. CASE /\ stage' = "in" /\ UNCHANGED <<pos, verdicts>>
               /\ scan' = [NoScan EXCEPT !.live = Can("Subscriptions"), !.known = [s \in DOMAIN world.state |-> ""]]
      <3>1. Check' = Check
        BY <2>1, <2>3 DEF Check
      <3>k. PICK k, l, t : k = [s \in DOMAIN world.state |-> ""] /\ l = Can("Subscriptions") /\ t = TRUE
        OBVIOUS
      <3>a. k \in Known
        BY <3>k DEF Known
      <3>b. l \in BOOLEAN /\ t \in BOOLEAN
        <4>1. Can("Subscriptions") \in BOOLEAN
          BY DEF Can
        <4>2. l \in BOOLEAN
          BY <3>k, <4>1
        <4>3. t \in BOOLEAN
          BY <3>k
        <4> QED
          BY <4>2, <4>3
      <3>2. \A s \in DOMAIN world.state : k[s] = ""
        BY <3>k
      <3>3. scan' = [i |-> 1, live |-> l, known |-> k, ok |-> t, n |-> 0]
        BY <2>3, <3>k DEF NoScan
      <3>4. /\ scan' \in [i : Nat \ {0}, live : BOOLEAN, known : Known, ok : BOOLEAN, n : Nat]
            /\ scan'.i = 1 /\ scan'.known = k
        BY <3>a, <3>b, <3>3
      <3>5. FireInv'
        BY <2>1, <3>1 DEF FireInv, AtRace, Races
      <3>6. ScanInv'
        <4>1. Known' = Known
          BY <2>1 DEF Known
        <4>2. 1..(scan'.i - 1) = {}
          BY <3>4
        <4> QED
          BY <2>1, <3>2, <3>4, <4>1, <4>2 DEF ScanInv
      <3> QED
        BY <1>f, <2>1, <2>3, <3>5, <3>6, CheckStarts
    <2> QED
      BY <1>6, <2>2, <2>3 DEF LifecycleStart
  <1>7. CASE ScanRow
    BY <1>7, ScanStep
  <1>8. CASE runLifecycleCorrectness
    <2>1. /\ Check = "lifecycle_correctness" /\ AtCheck("lifecycle_correctness") /\ stage = "in"
          /\ UNCHANGED <<world, fires>> /\ scan.i > Len(world.log)
      BY <1>8 DEF runLifecycleCorrectness, AtCheck
    <2>2. PICK s \in {"PASS", "FAIL", "SKIP"}, a \in {"ok", "unsupported"} :
             Report(s, a) /\ (s = "PASS" => scan.ok) /\ (a = "ok" => scan.live)
      BY <1>8 DEF runLifecycleCorrectness
    <2>3. s = "PASS" /\ a = "ok" => \A i \in 1..Len(world.log) : RightRow(i)
      <3> SUFFICES ASSUME s = "PASS", a = "ok", NEW i \in 1..Len(world.log) PROVE RightRow(i)
        OBVIOUS
      <3>1. scan.i \in Nat /\ \A j \in 1..(scan.i - 1) : RightRow(j)
        BY <2>1, <2>2 DEF ValidInv, ScanInv
      <3>2. Len(world.log) \in Nat
        BY WorldAssumption DEF ValidInv, ReportInv
      <3>3. i \in 1..(scan.i - 1)
        BY <2>1, <3>1, <3>2
      <3> QED
        BY <3>1, <3>3
    <2>4. Check \notin Races
      BY <2>1 DEF Races
    <2> QED
      BY <1>f, <1>s, <2>1, <2>2, <2>3, <2>4, Reported
  <1>9. CASE RaceStart
    <2>1. Check \in Races /\ AtRace /\ UNCHANGED <<world, scan>> /\ begun' = 0 /\ moved' = "no"
      BY <1>9 DEF RaceStart, AtRace
    <2>2. CASE Report("SKIP", "none") /\ UNCHANGED fires
      BY <1>f, <1>s, <2>1, <2>2, Reported
    <2>3. CASE /\ stage' = "in" /\ UNCHANGED <<pos, verdicts>>
               /\ fires' = [x \in Calls |-> IF x = "migrate" /\ Check = "bill_run_concurrency" THEN "idle" ELSE "sent"]
      <3>1. Check' = Check
        BY <2>1, <2>3 DEF Check
      <3>2. /\ fires' \in [Calls -> FireStates] /\ fires'["A"] = "sent" /\ fires'["B"] = "sent"
            /\ fires'["migrate"] \in {"idle", "sent"}
            /\ Check = "bill_run_concurrency" => fires'["migrate"] = "idle"
        BY <2>3 DEF Calls, FireStates
      <3>3. FireInv'
        BY <2>1, <3>1, <3>2 DEF FireInv, Sure, Maybe
      <3>4. ScanInv'
        BY <2>1, <3>1 DEF ScanInv, AtCheck, Races
      <3> QED
        BY <2>1, <2>3, <3>2, <3>3, <3>4, CheckStarts
    <2> QED
      BY <1>9, <2>2, <2>3 DEF RaceStart
  <1>10. CASE MigrateSubscription \/ \E x \in Calls : TriggerBillRun(x) \/ CallReturns(x)
    BY <1>10, RaceSteps DEF Calls
  <1>11. CASE RaceEnds
    BY <1>11, RaceJudged
  <1> QED
    BY <1>1, <1>2, <1>3, <1>4, <1>5, <1>6, <1>7, <1>8, <1>9, <1>10, <1>11 DEF ValidateNext

-----------------------------------------------------------------------------
(***************************************************************************)
(* Totals.  SumFunction adds the values up in an order of its own choosing *)
(* (First); PartSums are the sums over the parts of the domain.            *)
(***************************************************************************)
First(s) == CHOOSE x \in s : TRUE

PartSums(f) ==
    CHOOSE it : it = [s \in SUBSET DOMAIN f |-> IF s = {} THEN 0 ELSE f[First(s)] + it[s \ {First(s)}]]

\* What it is to add up the parts.
Steps(p, f, D) ==
    \A s \in SUBSET D : p[s] = IF s = {} THEN 0 ELSE f[First(s)] + p[s \ {First(s)}]

AddsUp(p, f, D) ==
    /\ p \in [SUBSET D -> Int] /\ p[{}] = 0
    /\ \A s \in SUBSET D : s # {} => First(s) \in s /\ p[s] = f[First(s)] + p[s \ {First(s)}]

LEMMA TotalIsPart == \A f : Total(f) = PartSums(f)[DOMAIN f]
  BY DEF Total, SumFunction, SumFunctionOnSet, FoldFunctionOnSet, MapThenFoldSet, PartSums, First

LEMMA Upwards ==
    ASSUME NEW S, 0 \in S, \A n \in Nat : n \in S => n + 1 \in S
    PROVE  Nat \subseteq S
  <1> DEFINE T == Nat \ S
             R == OpToRel(<, Nat)
  <1> SUFFICES ASSUME T # {} PROVE FALSE
    OBVIOUS
  <1>1. IsWellFoundedOn(R, Nat)
    BY NatLessThanWellFounded
  <1>2. \A y, x \in Nat : y < x => <<y, x>> \in R
    BY DEF OpToRel
  <1>3. T \subseteq Nat
    OBVIOUS
  <1> HIDE DEF R, T
  <1>4. PICK x \in T : \A y \in T : ~(<<y, x>> \in R)
    BY <1>1, <1>3, WFMin
  <1>5. x \in Nat /\ x # 0 /\ x - 1 \in Nat
    BY <1>3, <1>4 DEF T
  <1>6. x - 1 \in T
    BY <1>4, <1>5 DEF T
  <1>7. <<x - 1, x>> \in R
    BY <1>2, <1>5
  <1> QED
    BY <1>4, <1>6, <1>7

\* Taking any element away leaves one less.
LEMMA OneLess ==
    ASSUME NEW D, IsFiniteSet(D), NEW s \in SUBSET D, NEW x \in s
    PROVE  /\ IsFiniteSet(s) /\ Cardinality(s) \in Nat /\ Cardinality(s) > 0
           /\ s \ {x} \in SUBSET D /\ Cardinality(s \ {x}) = Cardinality(s) - 1
  <1>1. IsFiniteSet(s)
    BY FS_Subset
  <1>2. Cardinality(s) \in Nat /\ Cardinality(s \ {x}) = Cardinality(s) - 1 /\ IsFiniteSet(s \ {x})
    BY <1>1, FS_CardinalityType, FS_RemoveElement
  <1>3. Cardinality(s \ {x}) \in Nat
    BY <1>2, FS_CardinalityType
  <1> QED
    BY <1>1, <1>2, <1>3

\* What holds of nothing and of a part with one more element holds of every part.
LEMMA PartInduction ==
    ASSUME NEW D, IsFiniteSet(D), NEW P, {} \in P,
           \A s \in SUBSET D : s # {} /\ (\A x \in s : s \ {x} \in P) => s \in P
    PROVE  \A s \in SUBSET D : s \in P
  <1> DEFINE N == {n \in Nat : \A s \in SUBSET D : Cardinality(s) = n => s \in P}
  <1>1. 0 \in N
    <2> SUFFICES ASSUME NEW s \in SUBSET D, Cardinality(s) = 0 PROVE s \in P
      OBVIOUS
    <2>1. IsFiniteSet(s)
      BY FS_Subset
    <2>2. s = {}
      BY <2>1, FS_EmptySet
    <2> QED
      BY <2>2
  <1>2. ASSUME NEW n \in Nat, n \in N PROVE n + 1 \in N
    <2> SUFFICES ASSUME NEW s \in SUBSET D, Cardinality(s) = n + 1 PROVE s \in P
      OBVIOUS
    <2>1. s # {}
      <3>1. Cardinality({}) = 0
        BY FS_EmptySet
      <3>2. n + 1 # 0
        OBVIOUS
      <3> HIDE DEF N
      <3> QED
        BY <3>1, <3>2, Zenon
    <2>2. ASSUME NEW x \in s PROVE s \ {x} \in P
      <3>1. s \ {x} \in SUBSET D /\ Cardinality(s \ {x}) = Cardinality(s) - 1
        BY OneLess
      <3>2. Cardinality(s \ {x}) = n
        BY <3>1
      <3> QED
        BY <1>2, <3>1, <3>2
    <2> QED
      BY <2>1, <2>2
  <1> HIDE DEF N
  <1>3. Nat \subseteq N
    BY <1>1, <1>2, Upwards
  <1> SUFFICES ASSUME NEW s \in SUBSET D PROVE s \in P
    OBVIOUS
  <1>4. Cardinality(s) \in Nat
    BY FS_Subset, FS_CardinalityType
  <1> QED
    BY <1>3, <1>4 DEF N

LEMMA PartSumsExist ==
    ASSUME NEW D, IsFiniteSet(D), NEW f \in [D -> Int]
    PROVE  \E g \in [SUBSET D -> Int] : Steps(g, f, D)
  <1> DEFINE Sums(g, n) == \A s \in SUBSET D : Cardinality(s) <= n =>
                              g[s] = IF s = {} THEN 0 ELSE f[First(s)] + g[s \ {First(s)}]
             N == {n \in Nat : \E g \in [SUBSET D -> Int] : Sums(g, n)}
  <1>f. \A s \in SUBSET D : s # {} => First(s) \in s /\ f[First(s)] \in Int /\ s \ {First(s)} \in SUBSET D
    BY DEF First
  <1>c. \A s \in SUBSET D : IsFiniteSet(s) /\ Cardinality(s) \in Nat
    BY FS_Subset, FS_CardinalityType
  <1>l. \A s \in SUBSET D : s # {} => Cardinality(s) > 0 /\ Cardinality(s \ {First(s)}) = Cardinality(s) - 1
    BY <1>f, OneLess
  <1>1. 0 \in N
    <2>1. [s \in SUBSET D |-> 0] \in [SUBSET D -> Int]
      OBVIOUS
    <2>2. Sums([s \in SUBSET D |-> 0], 0)
      BY <1>c, <1>l
    <2> QED
      BY <2>1, <2>2
  <1>2. ASSUME NEW n \in Nat, n \in N PROVE n + 1 \in N
    <2>1. PICK g \in [SUBSET D -> Int] : Sums(g, n)
      BY <1>2
    <2>2. PICK h : h = [s \in SUBSET D |-> IF Cardinality(s) <= n THEN g[s] ELSE f[First(s)] + g[s \ {First(s)}]]
      OBVIOUS
    <2>3. \A s \in SUBSET D : ~(Cardinality(s) <= n) => s # {}
      <3>1. Cardinality({}) = 0 /\ 0 <= n
        BY FS_EmptySet
      <3> HIDE DEF Sums, N
      <3> QED
        BY <3>1, Zenon
    <2>4. h \in [SUBSET D -> Int]
      BY <1>f, <2>2, <2>3
    <2>5. \A s \in SUBSET D : Cardinality(s) <= n => h[s] = g[s]
      BY <2>2
    <2>6. \A s \in SUBSET D : ~(Cardinality(s) <= n) => h[s] = f[First(s)] + g[s \ {First(s)}]
      BY <2>2
    <2>7. \A s \in SUBSET D : Cardinality(s) <= n + 1 /\ s # {} => h[s \ {First(s)}] = g[s \ {First(s)}]
      BY <1>f, <1>c, <1>l, <2>5
    <2>8. Sums(h, n + 1)
      <3> SUFFICES ASSUME NEW s \in SUBSET D, Cardinality(s) <= n + 1
                   PROVE  h[s] = IF s = {} THEN 0 ELSE f[First(s)] + h[s \ {First(s)}]
        OBVIOUS
      <3>1. CASE Cardinality(s) <= n
        BY <2>1, <2>5, <2>7, <3>1
      <3>2. CASE ~(Cardinality(s) <= n)
        BY <2>3, <2>6, <2>7, <3>2
      <3> QED
        BY <3>1, <3>2
    <2> HIDE DEF Sums
    <2> QED
      BY <2>4, <2>8
  <1> HIDE DEF N
  <1>3. Cardinality(D) \in N
    BY <1>1, <1>2, <1>c, Upwards
  <1>4. PICK g \in [SUBSET D -> Int] : Sums(g, Cardinality(D))
    BY <1>3 DEF N
  <1>5. \A s \in SUBSET D : Cardinality(s) <= Cardinality(D)
    BY FS_Subset
  <1> QED
    BY <1>4, <1>5 DEF Steps

LEMMA PartSumsDo ==
    ASSUME NEW D, IsFiniteSet(D), NEW f \in [D -> Int]
    PROVE  AddsUp(PartSums(f), f, D) /\ Total(f) = PartSums(f)[D]
  <1> DEFINE Is(it) == it = [s \in SUBSET D |-> IF s = {} THEN 0 ELSE f[First(s)] + it[s \ {First(s)}]]
  <1>1. PICK g \in [SUBSET D -> Int] : Steps(g, f, D)
    BY PartSumsExist
  <1>2. Is(g)
    <2>1. g = [s \in SUBSET D |-> g[s]]
      <3> HIDE DEF Is
      <3> QED
        BY Zenon
    <2>2. [s \in SUBSET D |-> g[s]] = [s \in SUBSET D |-> IF s = {} THEN 0 ELSE f[First(s)] + g[s \ {First(s)}]]
      BY <1>1, Zenon DEF Steps
    <2> QED
      BY <2>1, <2>2
  <1>3. PartSums(f) = CHOOSE it : Is(it)
    BY DEF PartSums
  <1>4. Is(PartSums(f))
    <2> HIDE DEF Is
    <2> QED
      BY <1>2, <1>3
  <1>5. PICK p : p = PartSums(f)
    OBVIOUS
  <1>6. \A s \in SUBSET D : p[s] = IF s = {} THEN 0 ELSE f[First(s)] + p[s \ {First(s)}]
    BY <1>4, <1>5
  <1>7. \A s \in SUBSET D : s # {} => First(s) \in s
    BY DEF First
  <1>8. \A s \in SUBSET D : p[s] \in Int
    <2> DEFINE P == {s \in SUBSET D : p[s] \in Int}
    <2>1. {} \in P
      <3>1. {} \in SUBSET D
        OBVIOUS
      <3>2. p[{}] = 0
        BY <1>6, <3>1
      <3> QED
        BY <3>1, <3>2
    <2>2. ASSUME NEW s \in SUBSET D, s # {}, \A x \in s : s \ {x} \in P PROVE s \in P
      <3>1. First(s) \in s /\ First(s) \in D
        BY <1>7, <2>2
      <3>2. p[s] = f[First(s)] + p[s \ {First(s)}]
        BY <1>6, <2>2
      <3>3. f[First(s)] \in Int /\ p[s \ {First(s)}] \in Int
        BY <2>2, <3>1
      <3>4. p[s] \in Int
        BY <3>2, <3>3
      <3> QED
        BY <3>4
    <2>3. \A s \in SUBSET D : s \in P
      <3> HIDE DEF P
      <3> QED
        BY <2>1, <2>2, PartInduction
    <2> QED
      BY <2>3
  <1>9. p \in [SUBSET D -> Int]
    <2>1. p = [s \in SUBSET D |-> IF s = {} THEN 0 ELSE f[First(s)] + p[s \ {First(s)}]]
      BY <1>4, <1>5
    <2>2. p = [s \in SUBSET D |-> p[s]]
      BY <2>1, <1>6
    <2> QED
      BY <1>8, <2>2
  <1>10. Total(f) = p[D]
    BY <1>5, TotalIsPart
  <1>11. {} \in SUBSET D
    OBVIOUS
  <1>12. p[{}] = 0
    BY <1>6, <1>11
  <1>13. \A s \in SUBSET D : s # {} => p[s] = f[First(s)] + p[s \ {First(s)}]
    BY <1>6
  <1>14. AddsUp(p, f, D)
    BY <1>7, <1>9, <1>12, <1>13, Zenon DEF AddsUp
  <1> QED
    BY <1>5, <1>10, <1>14

\* Any element may be taken out first.
LEMMA TakeOut ==
    ASSUME NEW D, IsFiniteSet(D), NEW f \in [D -> Int], NEW E \in SUBSET D, NEW z \in E
    PROVE  PartSums(f)[E] = f[z] + PartSums(f)[E \ {z}]
  <1>1. PICK p : p = PartSums(f)
    OBVIOUS
  <1>2. /\ p \in [SUBSET D -> Int]
        /\ \A s \in SUBSET D : s # {} => First(s) \in s /\ p[s] = f[First(s)] + p[s \ {First(s)}]
    <2>1. AddsUp(p, f, D)
      BY <1>1, PartSumsDo
    <2> QED
      BY <2>1, Zenon DEF AddsUp
  <1> DEFINE P == {s \in SUBSET D : \A x \in s : p[s] = f[x] + p[s \ {x}]}
  <1>3. {} \in P
    OBVIOUS
  <1>4. ASSUME NEW s \in SUBSET D, s # {}, \A x \in s : s \ {x} \in P PROVE s \in P
    <2> SUFFICES ASSUME NEW x \in s PROVE p[s] = f[x] + p[s \ {x}]
      BY <1>4
    <2>1. PICK y \in s : p[s] = f[y] + p[s \ {y}]
      BY <1>2, <1>4
    <2>2. CASE x = y
      BY <2>1, <2>2
    <2>3. CASE x # y
      <3>1. x \in s \ {y} /\ y \in s \ {x} /\ (s \ {y}) \ {x} = (s \ {x}) \ {y}
        BY <2>3
      <3>2. p[s \ {y}] = f[x] + p[(s \ {y}) \ {x}]
        BY <1>4, <3>1
      <3>3. p[s \ {x}] = f[y] + p[(s \ {x}) \ {y}]
        BY <1>4, <3>1
      <3>4. /\ f[x] \in Int /\ f[y] \in Int /\ p[(s \ {x}) \ {y}] \in Int
        BY <1>2
      <3>5. p[s] = f[y] + (f[x] + p[(s \ {x}) \ {y}]) /\ p[s \ {x}] = f[y] + p[(s \ {x}) \ {y}]
        BY <2>1, <3>1, <3>2, <3>3
      <3> HIDE DEF P
      <3> QED
        BY <3>4, <3>5
    <2> QED
      BY <2>2, <2>3
  <1> HIDE DEF P
  <1>5. \A s \in SUBSET D : s \in P
    BY <1>3, <1>4, PartInduction
  <1> QED
    BY <1>1, <1>5 DEF P

\* Functions that agree on a part have the same sum there.
LEMMA SameParts ==
    ASSUME NEW D, IsFiniteSet(D), NEW f \in [D -> Int], NEW E \in SUBSET D, NEW g \in [E -> Int],
           \A x \in E : g[x] = f[x]
    PROVE  PartSums(f)[E] = Total(g)
  <1>0. IsFiniteSet(E)
    BY FS_Subset
  <1>1. PICK p, q : p = PartSums(f) /\ q = PartSums(g)
    OBVIOUS
  <1>2. /\ p \in [SUBSET D -> Int] /\ p[{}] = 0
        /\ \A s \in SUBSET D : s # {} => First(s) \in s /\ p[s] = f[First(s)] + p[s \ {First(s)}]
    <2>1. AddsUp(p, f, D)
      BY <1>1, PartSumsDo
    <2> QED
      BY <2>1, Zenon DEF AddsUp
  <1>3. /\ q \in [SUBSET E -> Int] /\ q[{}] = 0 /\ Total(g) = q[E]
        /\ \A s \in SUBSET E : s # {} => First(s) \in s /\ q[s] = g[First(s)] + q[s \ {First(s)}]
    <2>1. AddsUp(q, g, E) /\ Total(g) = q[E]
      BY <1>0, <1>1, PartSumsDo
    <2> QED
      BY <2>1, Zenon DEF AddsUp
  <1> DEFINE P == {s \in SUBSET E : p[s] = q[s]}
  <1>4. {} \in P
    BY <1>2, <1>3
  <1>5. ASSUME NEW s \in SUBSET E, s # {}, \A x \in s : s \ {x} \in P PROVE s \in P
    <2>1. s \in SUBSET D /\ First(s) \in s /\ First(s) \in E
      BY <1>3, <1>5
    <2>2. p[s] = f[First(s)] + p[s \ {First(s)}] /\ q[s] = g[First(s)] + q[s \ {First(s)}]
      BY <1>2, <1>3, <1>5, <2>1
    <2>3. p[s \ {First(s)}] = q[s \ {First(s)}]
      BY <1>5, <2>1
    <2> QED
      BY <2>1, <2>2, <2>3
  <1> HIDE DEF P
  <1>6. E \in P
    BY <1>0, <1>4, <1>5, PartInduction
  <1> QED
    BY <1>1, <1>3, <1>6 DEF P

\* A total of numbers is a number, and none of them is more.
LEMMA TotalOfNat ==
    ASSUME NEW D, IsFiniteSet(D), NEW f \in [D -> Nat]
    PROVE  Total(f) \in Nat /\ \A x \in D : f[x] <= Total(f)
  <1>0. f \in [D -> Int]
    OBVIOUS
  <1>1. PICK p : p = PartSums(f)
    OBVIOUS
  <1>2. /\ p \in [SUBSET D -> Int] /\ p[{}] = 0 /\ Total(f) = p[D]
        /\ \A s \in SUBSET D : s # {} => First(s) \in s /\ p[s] = f[First(s)] + p[s \ {First(s)}]
    <2>1. AddsUp(p, f, D) /\ Total(f) = p[D]
      BY <1>0, <1>1, PartSumsDo
    <2> QED
      BY <2>1, Zenon DEF AddsUp
  <1> DEFINE P == {s \in SUBSET D : p[s] \in Nat}
  <1>3. {} \in P
    BY <1>2
  <1>4. ASSUME NEW s \in SUBSET D, s # {}, \A x \in s : s \ {x} \in P PROVE s \in P
    <2>1. First(s) \in s /\ p[s] = f[First(s)] + p[s \ {First(s)}] /\ p[s \ {First(s)}] \in Nat
      BY <1>2, <1>4
    <2>2. f[First(s)] \in Nat
      BY <2>1
    <2>3. p[s] \in Nat
      BY <2>1, <2>2
    <2> QED
      BY <2>3
  <1> HIDE DEF P
  <1>5. \A s \in SUBSET D : s \in P
    BY <1>3, <1>4, PartInduction
  <1>6. ASSUME NEW x \in D PROVE f[x] <= p[D]
    <2>1. p[D] = f[x] + p[D \ {x}]
      BY <1>0, <1>1, TakeOut
    <2>2. p[D \ {x}] \in Nat /\ f[x] \in Nat
      BY <1>5 DEF P
    <2> QED
      BY <2>1, <2>2
  <1>7. p[D] \in Nat
    BY <1>5 DEF P
  <1> QED
    BY <1>2, <1>6, <1>7

-----------------------------------------------------------------------------
(* Check 1: what is stored against what each tenant should have.           *)

LEMMA Quotient ==
    ASSUME NEW m \in Nat, NEW c \in Nat, c > 0
    PROVE  m \div c \in Nat /\ c * (m \div c) <= m /\ m < c * (m \div c) + c /\ m % c = m - c * (m \div c)
  OBVIOUS

LEMMA Scaled ==
    ASSUME NEW G \in Nat, NEW s \in Nat, NEW e \in Int, NEW pe \in Int, NEW g \in Int, NEW pg \in Int,
           NEW k \in Nat, NEW c \in Nat,
           G * e <= g * s, G * e >= g * s - c * G, G * pe <= s * pg, G * pe >= s * pg - G * (c * k)
    PROVE  G * (e + pe) <= s * (g + pg) /\ G * (e + pe) >= s * (g + pg) - G * (c * (k + 1))
  OBVIOUS

LEMMA Unscaled ==
    ASSUME NEW G \in Nat, G > 0, NEW s \in Nat, NEW E \in Int, NEW d \in Nat, G * E <= s * G, G * E >= s * G - G * d
    PROVE  E <= s /\ E >= s - d
  OBVIOUS

LEMMA Whole1 ==
    ASSUME NEW a \in Nat, NEW c \in Nat, c > 0
    PROVE  (a * c) \div c = a /\ c % c = 0
  OBVIOUS

\* A part of a whole, rounded down and perhaps one short.
LEMMA TruncatedNear ==
    ASSUME NEW a \in Nat, NEW b \in Nat, NEW c \in Nat, c > 0
    PROVE  /\ Truncated(a, b, c) \in Nat
           /\ c * Truncated(a, b, c) <= a * b /\ c * Truncated(a, b, c) >= a * b - c
           /\ b = c => Truncated(a, b, c) = a
  <1>1. PICK m : m = a * b
    OBVIOUS
  <1>2. m \in Nat
    BY <1>1
  <1>3. PICK q : q = m \div c
    OBVIOUS
  <1>4. q \in Nat /\ c * q <= m /\ m < c * q + c /\ m % c = m - c * q
    BY <1>2, <1>3, Quotient
  <1>5. PICK e : e = Truncated(a, b, c)
    OBVIOUS
  <1>6. \/ e = q
        \/ e = q - 1 /\ q > 0 /\ m % c = 0 /\ b % c # 0
    BY <1>1, <1>3, <1>5 DEF Truncated
  <1>7. e \in Nat /\ c * e <= m /\ c * e >= m - c
    <2>1. CASE e = q
      BY <1>2, <1>4, <2>1
    <2>2. CASE e = q - 1 /\ q > 0 /\ m % c = 0
      <3>1. c * q = m
        BY <1>2, <1>4, <2>2
      <3>2. e \in Nat /\ c * e = c * q - c
        BY <1>4, <2>2
      <3> QED
        BY <1>2, <3>1, <3>2
    <2> QED
      BY <1>6, <2>1, <2>2
  <1>8. b = c => e = a
    <2> SUFFICES ASSUME b = c PROVE e = a
      OBVIOUS
    <2>1. q = a /\ b % c = 0
      BY <1>1, <1>3, Whole1
    <2> QED
      BY <1>6, <2>1
  <1> QED
    BY <1>1, <1>5, <1>7, <1>8

\* Parts that are right to within c of a unit each add up to the whole within c
\* for each.
LEMMA PartsOfWhole ==
    ASSUME NEW D, IsFiniteSet(D), NEW g \in [D -> Nat], NEW e \in [D -> Int], NEW s \in Nat, NEW c \in Nat, NEW G \in Nat,
           G = Total(g), G > 0,
           \A x \in D : G * e[x] <= g[x] * s /\ G * e[x] >= g[x] * s - c * G
    PROVE  Total(e) <= s /\ Total(e) >= s - c * Cardinality(D)
  <1>0. g \in [D -> Int]
    OBVIOUS
  <1>1. PICK p, q : p = PartSums(e) /\ q = PartSums(g)
    OBVIOUS
  <1>2. /\ p \in [SUBSET D -> Int] /\ p[{}] = 0 /\ Total(e) = p[D]
        /\ \A x \in SUBSET D : x # {} => First(x) \in x /\ p[x] = e[First(x)] + p[x \ {First(x)}]
    <2>1. AddsUp(p, e, D) /\ Total(e) = p[D]
      BY <1>1, PartSumsDo
    <2> QED
      BY <2>1, Zenon DEF AddsUp
  <1>3. /\ q \in [SUBSET D -> Int] /\ q[{}] = 0 /\ Total(g) = q[D]
        /\ \A x \in SUBSET D : x # {} => First(x) \in x /\ q[x] = g[First(x)] + q[x \ {First(x)}]
    <2>1. AddsUp(q, g, D) /\ Total(g) = q[D]
      BY <1>0, <1>1, PartSumsDo
    <2> QED
      BY <2>1, Zenon DEF AddsUp
  <1> DEFINE P == {x \in SUBSET D : /\ G * p[x] <= s * q[x]
                                    /\ G * p[x] >= s * q[x] - G * (c * Cardinality(x))}
  <1>4. {} \in P
    <2>1. Cardinality({}) = 0 /\ {} \in SUBSET D
      BY FS_EmptySet
    <2>2. G * 0 <= s * 0 /\ G * 0 >= s * 0 - G * (c * 0)
      OBVIOUS
    <2> QED
      BY <1>2, <1>3, <2>1, <2>2
  <1>5. ASSUME NEW x \in SUBSET D, x # {}, \A y \in x : x \ {y} \in P PROVE x \in P
    <2>1. PICK y \in x : y = First(x)
      BY <1>2, <1>5
    <2>2. p[x] = e[y] + p[x \ {y}] /\ q[x] = g[y] + q[x \ {y}]
      BY <1>2, <1>3, <1>5, <2>1
    <2>3. PICK k : k = Cardinality(x \ {y})
      OBVIOUS
    <2>4. k \in Nat /\ Cardinality(x) = k + 1
      BY <2>3, OneLess
    <2>5. G * p[x \ {y}] <= s * q[x \ {y}] /\ G * p[x \ {y}] >= s * q[x \ {y}] - G * (c * k)
      BY <1>5, <2>3
    <2>6. e[y] \in Int /\ g[y] \in Int /\ p[x \ {y}] \in Int /\ q[x \ {y}] \in Int
      BY <1>0, <1>2, <1>3
    <2>7. G * e[y] <= g[y] * s /\ G * e[y] >= g[y] * s - c * G
      OBVIOUS
    <2> HIDE DEF P
    <2>8. /\ G * (e[y] + p[x \ {y}]) <= s * (g[y] + q[x \ {y}])
          /\ G * (e[y] + p[x \ {y}]) >= s * (g[y] + q[x \ {y}]) - G * (c * (k + 1))
      BY <2>4, <2>5, <2>6, <2>7, Scaled
    <2> QED
      BY <2>2, <2>4, <2>8 DEF P
  <1> HIDE DEF P
  <1>6. D \in P
    BY <1>4, <1>5, PartInduction
  <1>7. PICK d : d = c * Cardinality(D)
    OBVIOUS
  <1>8. d \in Nat
    BY <1>7, FS_CardinalityType
  <1>9. p[D] \in Int /\ G * p[D] <= s * G /\ G * p[D] >= s * G - G * d
    BY <1>2, <1>3, <1>6, <1>7 DEF P
  <1>10. p[D] <= s /\ p[D] >= s - d
    BY <1>8, <1>9, Unscaled
  <1> QED
    BY <1>2, <1>7, <1>10

\* Two functions close everywhere have totals as close, for each.
LEMMA CloseTotals ==
    ASSUME NEW D, IsFiniteSet(D), NEW e \in [D -> Int], NEW t \in [D -> Int], NEW L \in Nat,
           \A x \in D : e[x] - t[x] \in -L..L
    PROVE  /\ Total(e) \in Int /\ Total(t) \in Int
           /\ Total(e) - Total(t) <= Cardinality(D) * L /\ Total(t) - Total(e) <= Cardinality(D) * L
  <1>1. PICK p, q : p = PartSums(e) /\ q = PartSums(t)
    OBVIOUS
  <1>2. /\ p \in [SUBSET D -> Int] /\ p[{}] = 0 /\ Total(e) = p[D]
        /\ \A x \in SUBSET D : x # {} => First(x) \in x /\ p[x] = e[First(x)] + p[x \ {First(x)}]
    <2>1. AddsUp(p, e, D) /\ Total(e) = p[D]
      BY <1>1, PartSumsDo
    <2> QED
      BY <2>1, Zenon DEF AddsUp
  <1>3. /\ q \in [SUBSET D -> Int] /\ q[{}] = 0 /\ Total(t) = q[D]
        /\ \A x \in SUBSET D : x # {} => First(x) \in x /\ q[x] = t[First(x)] + q[x \ {First(x)}]
    <2>1. AddsUp(q, t, D) /\ Total(t) = q[D]
      BY <1>1, PartSumsDo
    <2> QED
      BY <2>1, Zenon DEF AddsUp
  <1> DEFINE P == {x \in SUBSET D : p[x] - q[x] <= Cardinality(x) * L /\ q[x] - p[x] <= Cardinality(x) * L}
  <1>4. {} \in P
    <2>1. Cardinality({}) = 0 /\ {} \in SUBSET D
      BY FS_EmptySet
    <2>2. 0 - 0 <= 0 * L
      OBVIOUS
    <2> QED
      BY <1>2, <1>3, <2>1, <2>2
  <1>5. ASSUME NEW x \in SUBSET D, x # {}, \A y \in x : x \ {y} \in P PROVE x \in P
    <2>1. PICK y \in x : y = First(x)
      BY <1>2, <1>5
    <2>2. p[x] = e[y] + p[x \ {y}] /\ q[x] = t[y] + q[x \ {y}]
      BY <1>2, <1>3, <1>5, <2>1
    <2>3. PICK k : k = Cardinality(x \ {y})
      OBVIOUS
    <2>4. k \in Nat /\ Cardinality(x) = k + 1
      BY <2>3, OneLess
    <2>5. p[x \ {y}] - q[x \ {y}] <= k * L /\ q[x \ {y}] - p[x \ {y}] <= k * L
      BY <1>5, <2>3
    <2>6. e[y] \in Int /\ t[y] \in Int /\ p[x \ {y}] \in Int /\ q[x \ {y}] \in Int /\ e[y] - t[y] \in -L..L
      BY <1>2, <1>3
    <2>7. (k + 1) * L = k * L + L /\ k * L \in Nat
      BY <2>4
    <2> HIDE DEF P
    <2>8. p[x] - q[x] <= k * L + L /\ q[x] - p[x] <= k * L + L
      BY <2>2, <2>5, <2>6, <2>7
    <2> QED
      BY <2>4, <2>7, <2>8 DEF P
  <1> HIDE DEF P
  <1>6. D \in P
    BY <1>4, <1>5, PartInduction
  <1> QED
    BY <1>2, <1>3, <1>6 DEF P

-----------------------------------------------------------------------------
(***************************************************************************)
(* The report as a whole.  A row stands at the place its check has among   *)
(* those asked for (WrittenInv), what a row that passes says is true of    *)
(* the world (GivenInv), the lock is only ever taken for a tenant of the   *)
(* run (TenantInv), and the summary is that of the finished report         *)
(* (SummaryInv).                                                           *)
(***************************************************************************)
AskedFor == {i \in 1..Len(AllChecks) : Wanted(i)}
Before(p) == {j \in AskedFor : j < p}
Place(i) == Cardinality({j \in AskedFor : j <= i})

WrittenInv ==
    /\ vctx \in {"live", "done"} /\ pos \in 1..Len(AllChecks) + 1
    /\ ~Done => Wanted(pos)
    /\ Len(verdicts) = Cardinality(Before(pos))
    /\ \A n \in 1..Len(verdicts) : \E i \in Before(pos) :
          verdicts[n].name = AllChecks[i] /\ Place(i) = n

\* What is true of the world if a check of one query passes.
WithinLoss ==
    LET n == Cardinality(DOMAIN world.gen)
        lost == world.succeeded - Total(world.stored)
    IN  /\ lost >= -n * world.lostMax
        /\ lost <= n * (world.lostMax + IF world.succeeded = Total(world.gen) THEN 0 ELSE 1)

AllRejected == \A k \in Range(RejectedKinds) : world.handled[k] = world.sent[k]

Good(name, answer) ==
    /\ name = "event_count_per_tenant" /\ ~world.offline => WithinLoss
    /\ name = "cross_tenant_leakage" /\ world.leakMax = 0 => ~world.leaks
    /\ name = "negative_path_correctness" /\ world.sent["late_event"] = 0 => AllRejected

GivenInv ==
    \A n \in 1..Len(verdicts) :
        verdicts[n].status = "PASS" => Good(verdicts[n].name, verdicts[n].answer)

TenantInv ==
    /\ lock \subseteq 1..Len(world.tenants) /\ begun \in 0..2
    /\ stage = "in" /\ AtRace => RaceTenant \in 1..Len(world.tenants)

SummaryInv ==
    rollup # NoSummary =>
        /\ Done /\ rollup.overall = Finalize
        /\ Count("FAIL") > 0 => rollup.exit = 1

JudgedInv == WrittenInv /\ GivenInv /\ TenantInv /\ SummaryInv

LEMMA ListLength == Len(AllChecks) = 12
  BY DEF AllChecks

LEMMA AskedFinite ==
    ASSUME NEW S, S \subseteq AskedFor
    PROVE  IsFiniteSet(S) /\ Cardinality(S) \in Nat
  <1>1. IsFiniteSet(1..12)
    <2>1. 1 \in Int /\ 12 \in Int
      OBVIOUS
    <2>2. \A m, n \in Int : IsFiniteSet(m..n)
      BY FS_Interval
    <2> QED
      BY <2>1, <2>2
  <1>2. S \subseteq 1..12
    BY ListLength DEF AskedFor
  <1>3. IsFiniteSet(S)
    BY <1>1, <1>2, FS_Subset
  <1> QED
    BY <1>3, FS_CardinalityType

\* Two checks asked for have two places.
LEMMA PlacesDiffer ==
    ASSUME NEW i \in AskedFor, NEW k \in AskedFor, Place(i) = Place(k)
    PROVE  i = k
  <1> DEFINE U(x) == {j \in AskedFor : j <= x}
  <1>0. ASSUME NEW x \in AskedFor, NEW y \in AskedFor, x < y PROVE Place(x) # Place(y)
    <2>1. U(x) \subseteq U(y) /\ y \in U(y) /\ y \notin U(x)
      BY <1>0, ListLength DEF AskedFor
    <2>2. IsFiniteSet(U(y))
      BY AskedFinite
    <2>3. Cardinality(U(x)) \in Nat /\ Cardinality(U(y)) \in Nat
      BY AskedFinite
    <2>4. Place(x) = Cardinality(U(x)) /\ Place(y) = Cardinality(U(y))
      BY DEF Place
    <2> HIDE DEF U
    <2>5. Cardinality(U(x)) < Cardinality(U(y))
      BY <2>1, <2>2, <2>3, FS_Subset
    <2> QED
      BY <2>3, <2>4, <2>5
  <1>1. i \in Nat /\ k \in Nat
    BY ListLength DEF AskedFor
  <1> QED
    BY <1>0, <1>1

\* After a row the next check is where the places counted end.
LEMMA Passing ==
    ASSUME pos \in 1..Len(AllChecks), Wanted(pos)
    PROVE  LET p == NextCheck(pos + 1)
           IN  /\ p \in 1..Len(AllChecks) + 1 /\ (p <= Len(AllChecks) => Wanted(p))
               /\ Before(p) = Before(pos) \cup {pos} /\ pos \notin Before(pos)
               /\ Cardinality(Before(p)) = Cardinality(Before(pos)) + 1
               /\ Place(pos) = Cardinality(Before(p))
  <1> DEFINE p == NextCheck(pos + 1)
  <1>1. pos \in Nat /\ pos + 1 \in Nat /\ pos + 1 <= Len(AllChecks) + 1
    BY ListLength
  <1>2. /\ p \in pos + 1..Len(AllChecks) + 1
        /\ \A j \in pos + 1..Len(AllChecks) : j < p => ~Wanted(j)
        /\ p <= Len(AllChecks) => Wanted(p)
    BY <1>1, NextFound
  <1> HIDE DEF p
  <1>3. Before(p) = Before(pos) \cup {pos} /\ pos \notin Before(pos)
    BY <1>1, <1>2, ListLength DEF Before, AskedFor
  <1>4. {j \in AskedFor : j <= pos} = Before(p)
    BY <1>1, <1>2, ListLength DEF Before, AskedFor
  <1>5. Cardinality(Before(p)) = Cardinality(Before(pos)) + 1
    <2>1. IsFiniteSet(Before(pos))
      BY AskedFinite DEF Before
    <2> QED
      BY <1>3, <2>1, FS_AddElement
  <1>6. p \in 1..Len(AllChecks) + 1
    BY <1>1, <1>2, ListLength
  <1>7. Place(pos) = Cardinality(Before(p))
    BY <1>4 DEF Place
  <1> QED
    BY <1>2, <1>3, <1>5, <1>6, <1>7 DEF p

\* A row is written.
LEMMA Wrote ==
    ASSUME ValidInv, JudgedInv, NEW s, NEW a, Report(s, a), ~Done,
           UNCHANGED <<world, vctx, rollup, lock>>, begun' \in 0..2,
           s = "PASS" => Good(Check, a)
    PROVE  JudgedInv'
  <1>1. PICK r : r = [name |-> Check, status |-> s, answer |-> a]
    OBVIOUS
  <1>2. r.name = AllChecks[pos] /\ r.status = s /\ r.answer = a /\ Check = AllChecks[pos]
    BY <1>1 DEF Check
  <1>3. verdicts \in Seq(ReportRow) /\ verdicts' = Append(verdicts, r) /\ pos' = NextCheck(pos + 1) /\ stage' = "next"
    BY <1>1 DEF Report, ValidInv, ReportInv
  <1>4. /\ Len(verdicts) \in Nat /\ Len(verdicts') = Len(verdicts) + 1
        /\ verdicts'[Len(verdicts) + 1] = r
        /\ \A i \in 1..Len(verdicts) : verdicts'[i] = verdicts[i]
    BY <1>3
  <1>5. pos \in 1..Len(AllChecks) /\ Wanted(pos)
    BY ListLength DEF JudgedInv, WrittenInv, Done
  <1>6. /\ pos' \in 1..Len(AllChecks) + 1 /\ (pos' <= Len(AllChecks) => Wanted(pos'))
        /\ Before(pos') = Before(pos) \cup {pos}
        /\ Cardinality(Before(pos')) = Cardinality(Before(pos)) + 1
        /\ Place(pos) = Cardinality(Before(pos'))
    BY <1>3, <1>5, Passing
  <1>7. AskedFor' = AskedFor /\ (\A x : Wanted(x)' = Wanted(x)) /\ AllChecks' = AllChecks
    BY DEF Wanted, wantedChecks, AskedFor
  <1>8. \A x : Before(x)' = Before(x) /\ Place(x)' = Place(x)
    BY <1>7 DEF Before, Place
  <1>9. Before(pos)' = Before(pos')
    BY <1>7 DEF Before
  <1>10. WrittenInv'
    <2>1. vctx' \in {"live", "done"} /\ pos' \in 1..Len(AllChecks) + 1
      BY <1>6 DEF JudgedInv, WrittenInv
    <2>2. (~Done => Wanted(pos))'
      BY <1>6, <1>7, <2>1, ListLength DEF Done, Wanted, wantedChecks
    <2>3. Len(verdicts') = Cardinality(Before(pos'))
      BY <1>4, <1>6 DEF JudgedInv, WrittenInv
    <2>4. ASSUME NEW n \in 1..Len(verdicts')
          PROVE  \E i \in Before(pos') : verdicts'[n].name = AllChecks[i] /\ Place(i) = n
      <3>1. CASE n \in 1..Len(verdicts)
        BY <1>4, <1>6, <3>1 DEF JudgedInv, WrittenInv
      <3>2. CASE n = Len(verdicts) + 1
        <4>1. pos \in Before(pos') /\ verdicts'[n].name = AllChecks[pos] /\ Place(pos) = n
          BY <1>2, <1>4, <1>6, <3>2, <2>3
        <4> QED
          BY <4>1
      <3> QED
        BY <1>4, <2>4, <3>1, <3>2
    <2> QED
      BY <1>8, <1>9, <2>1, <2>2, <2>3, <2>4 DEF WrittenInv
  <1>11. \A n, b : Good(n, b)' = Good(n, b)
    BY DEF Good, WithinLoss, AllRejected, Can, Capabilities
  <1>12. GivenInv'
    <2> SUFFICES ASSUME NEW n \in 1..Len(verdicts'), verdicts'[n].status = "PASS"
                 PROVE  Good(verdicts'[n].name, verdicts'[n].answer)
      BY <1>11 DEF GivenInv, Good, WithinLoss, AllRejected, Can, Capabilities
    <2>1. CASE n \in 1..Len(verdicts)
      BY <1>4, <2>1 DEF JudgedInv, GivenInv
    <2>2. CASE n = Len(verdicts) + 1
      BY <1>2, <1>4, <2>2
    <2> QED
      BY <1>4, <2>1, <2>2
  <1>13. TenantInv'
    BY <1>3 DEF JudgedInv, TenantInv
  <1>14. rollup' = NoSummary
    BY DEF JudgedInv, SummaryInv, NoSummary
  <1>15. SummaryInv'
    BY <1>14 DEF SummaryInv, NoSummary
  <1> QED
    BY <1>10, <1>12, <1>13, <1>15 DEF JudgedInv

\* No row is written.
LEMMA Unwritten ==
    ASSUME JudgedInv, UNCHANGED <<world, pos, verdicts, rollup>>, vctx' \in {"live", "done"}, TenantInv'
    PROVE  JudgedInv'
  <1>1. AskedFor' = AskedFor /\ (\A x : Wanted(x)' = Wanted(x))
    BY DEF Wanted, wantedChecks, AskedFor
  <1>2. \A x : Before(x)' = Before(x) /\ Place(x)' = Place(x)
    BY <1>1 DEF Before, Place
  <1>3. WrittenInv'
    BY <1>1, <1>2 DEF JudgedInv, WrittenInv, Done, Before, Wanted, wantedChecks
  <1>4. GivenInv'
    BY DEF JudgedInv, GivenInv, Good, WithinLoss, AllRejected, Can, Capabilities
  <1>5. SummaryInv'
    BY DEF JudgedInv, SummaryInv, Done, Finalize, Count, NoSummary
  <1> QED
    BY <1>3, <1>4, <1>5 DEF JudgedInv

\* A race is about a tenant of the run.
LEMMA RaceOfTenant ==
    ASSUME ValidInv, AtRace, ~RaceSkipped
    PROVE  RaceTenant \in 1..Len(world.tenants)
  <1>1. world.tenants \in Seq(Range(world.tenants)) /\ world.tenants # <<>>
    BY WorldAssumption DEF ValidInv, ReportInv, RaceSkipped
  <1>2. Len(world.tenants) \in Nat /\ Len(world.tenants) >= 1
    <2> DEFINE T == world.tenants
               R == Range(world.tenants)
    <2>1. T \in Seq(R) /\ T # <<>>
      BY <1>1
    <2> HIDE DEF T, R
    <2>2. Len(T) \in Nat /\ Len(T) >= 1
      BY <2>1
    <2> QED
      BY <2>2 DEF T
  <1>3. CASE Check = "bill_run_concurrency"
    BY <1>2, <1>3 DEF RaceTenant
  <1>4. CASE Check # "bill_run_concurrency"
    <2>1. pickEligibleSub # {}
      BY <1>4 DEF AtRace, Races, RaceSkipped
    <2>2. RaceTenant \in pickEligibleSub
      BY <1>4, <2>1 DEF RaceTenant
    <2> QED
      BY <2>2 DEF pickEligibleSub
  <1> QED
    BY <1>3, <1>4

LEMMA RaceStays ==
    ASSUME UNCHANGED <<world, pos>>
    PROVE  RaceTenant' = RaceTenant /\ AtRace' = AtRace /\ Done' = Done
  BY DEF RaceTenant, pickEligibleSub, Check, AtRace, Done, isTerminalState

-----------------------------------------------------------------------------
(* What the checks of one query let pass.                                  *)

LEMMA JudgedOk ==
    ASSUME NEW cap, NEW a, NEW ok, Judge(cap, a, ok) = "PASS"
    PROVE  ok /\ Can(cap)
  BY DEF Judge

\* Check 1.
LEMMA LossSeen ==
    ASSUME world \in Worlds, NEW a, runEventCount(a) = "PASS", ~world.offline
    PROVE  WithinLoss
  <1>1. PICK D, g, t, L, s, G, n :
           /\ D = DOMAIN world.gen /\ g = world.gen /\ t = world.stored /\ L = world.lostMax
           /\ s = world.succeeded /\ G = Total(world.gen) /\ n = Cardinality(D)
    OBVIOUS
  <1>2. /\ IsFiniteSet(D) /\ g \in [D -> Nat] /\ t \in [D -> Nat] /\ L \in Nat /\ s \in 0..G
    BY <1>1, WorldAssumption
  <1>3. G \in Nat /\ s \in Nat /\ n \in Nat /\ s <= G
    <2>1. G \in Nat /\ n \in Nat
      BY <1>1, <1>2, TotalOfNat, FS_CardinalityType
    <2> QED
      BY <1>2, <2>1
  <1>4. PICK e : e = [x \in D |-> IF G = 0 THEN 0 ELSE Truncated(g[x], s, G)]
    OBVIOUS
  <1>5. expectedStoredByTenant = e /\ EventCountByTenant = t
    BY <1>1, <1>4 DEF expectedStoredByTenant, EventCountByTenant
  <1>6. \A x \in D : e[x] - t[x] \in -L..L
    <2>1. \A x \in DOMAIN world.gen :
             expectedStoredByTenant[x] - EventCountByTenant[x] \in -world.lostMax..world.lostMax
      BY JudgedOk DEF runEventCount
    <2> QED
      BY <1>1, <1>5, <2>1
  <1>7. e \in [D -> Int] /\ t \in [D -> Int]
    <2>1. \A x \in D : G # 0 => Truncated(g[x], s, G) \in Nat
      BY <1>2, <1>3, TruncatedNear
    <2> QED
      BY <1>2, <1>4, <2>1
  <1>8. /\ Total(e) \in Int /\ Total(t) \in Int
        /\ Total(e) - Total(t) <= n * L /\ Total(t) - Total(e) <= n * L
    BY <1>1, <1>2, <1>6, <1>7, CloseTotals
  <1>9. Total(e) <= s /\ Total(e) >= s - (IF s = G THEN 0 ELSE n)
    <2>1. CASE G = 0
      <3>2. PICK z : z = [x \in D |-> 0]
        OBVIOUS
      <3>3. z \in [D -> Int] /\ e = z
        BY <1>4, <2>1, <3>2
      <3>4. z \in [D -> Nat]
        BY <3>2
      <3>5. g = z
        <4>1. \A x \in D : g[x] <= Total(g)
          BY <1>2, TotalOfNat
        <4>2. \A x \in D : g[x] \in Nat /\ g[x] <= 0
          BY <1>1, <1>2, <2>1, <4>1
        <4>3. \A x \in D : g[x] = 0
          BY <4>2
        <4> QED
          BY <1>2, <3>2, <4>3
      <3>6. Total(e) = 0
        BY <1>1, <2>1, <3>3, <3>5
      <3>7. s = 0
        BY <1>3, <2>1
      <3> QED
        BY <2>1, <3>6, <3>7
    <2>2. CASE G # 0
      <3>1. G > 0
        BY <1>3, <2>2
      <3>2. \A x \in D : g[x] \in Nat /\ e[x] = Truncated(g[x], s, G)
        BY <1>2, <1>4, <2>2
      <3>3. CASE s = G
        <4>1. ASSUME NEW x \in D PROVE e[x] = g[x]
          <5>1. g[x] \in Nat /\ e[x] = Truncated(g[x], s, G)
            BY <3>2
          <5>2. Truncated(g[x], s, G) = g[x]
            BY <1>3, <3>1, <3>3, <5>1, TruncatedNear
          <5> QED
            BY <5>1, <5>2
        <4>2. e = g
          BY <1>2, <1>7, <4>1
        <4> QED
          BY <1>1, <1>3, <3>3, <4>2
      <3>4. CASE s # G
        <4>1. \A x \in D : G * e[x] <= g[x] * s /\ G * e[x] >= g[x] * s - 1 * G
          <5> SUFFICES ASSUME NEW x \in D PROVE G * e[x] <= g[x] * s /\ G * e[x] >= g[x] * s - 1 * G
            OBVIOUS
          <5>1. g[x] \in Nat /\ e[x] = Truncated(g[x], s, G)
            BY <3>2
          <5>2. G * Truncated(g[x], s, G) <= g[x] * s /\ G * Truncated(g[x], s, G) >= g[x] * s - G
            BY <1>3, <3>1, <5>1, TruncatedNear
          <5>3. 1 * G = G
            BY <1>3
          <5> QED
            BY <5>1, <5>2, <5>3
        <4>2. Total(e) <= s /\ Total(e) >= s - 1 * n
          BY <1>1, <1>2, <1>3, <1>7, <3>1, <4>1, PartsOfWhole
        <4> QED
          BY <1>3, <3>4, <4>2
      <3> QED
        BY <3>3, <3>4
    <2> QED
      BY <2>1, <2>2
  <1>10. s - Total(t) >= -(n * L)
    BY <1>2, <1>3, <1>8, <1>9
  <1>11. s - Total(t) <= n * (L + IF s = G THEN 0 ELSE 1)
    <2>1. n * (L + 0) = n * L /\ n * (L + 1) = n * L + n
      BY <1>2, <1>3
    <2> QED
      BY <1>2, <1>3, <1>8, <1>9, <2>1
  <1> QED
    BY <1>1, <1>10, <1>11 DEF WithinLoss

\* Check 2: the first tenant is read with the header of the second.
LEMMA LeakSeen ==
    ASSUME world \in Worlds, NEW a, runCrossTenantLeakage(a) = "PASS", world.leakMax = 0
    PROVE  ~world.leaks
  <1> SUFFICES ASSUME world.leaks PROVE FALSE
    OBVIOUS
  <1>1. PICK T, R : T = world.tenants /\ R = Range(world.tenants)
    OBVIOUS
  <1>2. /\ T \in Seq(R) /\ IsInjective(T) /\ MaxProbes \in Nat /\ MaxProbes > 0
    BY <1>1, WorldAssumption
  <1>3. PICK D, f : D = buildCrossTenantProbes(T) /\ f = [p \in D |-> LeakedRows(p)]
    OBVIOUS
  <1>4. Can("CrossTenantProbe") /\ Total(f) <= 0 /\ ~(Len(T) < 2)
    <2>1. ~(Can("CrossTenantProbe") /\ Len(world.tenants) < 2)
      BY DEF runCrossTenantLeakage
    <2>2. Judge("CrossTenantProbe", a, Total(f) <= 0) = "PASS"
      BY <1>1, <1>3, <2>1 DEF runCrossTenantLeakage
    <2> QED
      BY <1>1, <2>1, <2>2 DEF Judge
  <1>5. Len(T) \in Nat /\ Len(T) >= 2 /\ DOMAIN T = 1..Len(T)
    BY <1>2, <1>4
  <1>6. PICK m : m = Least(MaxProbes, Len(T))
    OBVIOUS
  <1>7. m \in Nat /\ m >= 1
    <2>1. m = MaxProbes \/ m = Len(T)
      BY <1>6 DEF Least
    <2> QED
      BY <1>2, <1>5, <2>1
  <1>8. D = {<<T[i], T[(i % Len(T)) + 1]>> : i \in 1..m}
    BY <1>3, <1>6 DEF buildCrossTenantProbes
  <1>9. IsFiniteSet(D)
    <2> DEFINE h == [i \in 1..m |-> <<T[i], T[(i % Len(T)) + 1]>>]
    <2>1. h \in Surjection(1..m, D)
      BY <1>8 DEF Surjection
    <2>2. IsFiniteSet(1..m)
      BY <1>7, FS_Interval
    <2> HIDE DEF h
    <2> QED
      BY <2>1, <2>2, FS_Surjection
  <1>10. f \in [D -> Nat]
    BY <1>3 DEF LeakedRows
  <1>11. PICK p : p = <<T[1], T[2]>>
    OBVIOUS
  <1>12. p \in D
    <2>1. 1 % Len(T) = 1
      BY <1>5
    <2>2. 1 \in 1..m /\ (1 % Len(T)) + 1 = 2
      BY <1>7, <2>1
    <2> QED
      BY <1>8, <1>11, <2>2
  <1>13. f[p] = 1
    <2>1. T[1] # T[2]
      BY <1>2, <1>5 DEF IsInjective
    <2>2. p[1] # p[2]
      BY <1>11, <2>1
    <2> QED
      BY <1>3, <1>12, <2>2 DEF LeakedRows
  <1>14. Total(f) \in Nat /\ f[p] <= Total(f)
    BY <1>9, <1>10, <1>12, TotalOfNat
  <1> QED
    BY <1>4, <1>13, <1>14

-----------------------------------------------------------------------------
(* Check 6: one counter shared out over the kinds.                         *)

LEMMA KindList ==
    /\ Len(RejectedKinds) = 5
    /\ Range(RejectedKinds) = {"future_event", "malformed", "oversize", "stale_key", "wrong_auth"}
    /\ RejectedKinds[1] = "future_event" /\ RejectedKinds[2] = "malformed" /\ RejectedKinds[3] = "oversize"
    /\ RejectedKinds[4] = "stale_key" /\ RejectedKinds[5] = "wrong_auth"
  <1>1. /\ Len(RejectedKinds) = 5 /\ DOMAIN RejectedKinds = 1..5
        /\ RejectedKinds[1] = "future_event" /\ RejectedKinds[2] = "malformed" /\ RejectedKinds[3] = "oversize"
        /\ RejectedKinds[4] = "stale_key" /\ RejectedKinds[5] = "wrong_auth"
    BY DEF RejectedKinds
  <1>2. \A i : i \in 1..5 <=> i = 1 \/ i = 2 \/ i = 3 \/ i = 4 \/ i = 5
    OBVIOUS
  <1>3. Range(RejectedKinds) = {RejectedKinds[i] : i \in 1..5}
    BY <1>1 DEF Range
  <1> QED
    BY <1>1, <1>2, <1>3

\* The place of a kind in the list.
LEMMA KindPlace ==
    ASSUME NEW i \in 1..5
    PROVE  (CHOOSE j \in 1..Len(RejectedKinds) : RejectedKinds[j] = RejectedKinds[i]) = i
  <1>1. \A j \in 1..5 : RejectedKinds[j] = RejectedKinds[i] => j = i
    <2>1. \A x \in 1..5 : x = 1 \/ x = 2 \/ x = 3 \/ x = 4 \/ x = 5
      OBVIOUS
    <2> QED
      BY <2>1, KindList
  <1>2. Len(RejectedKinds) = 5
    BY KindList
  <1> QED
    BY <1>1, <1>2

\* A total over one more place.
LEMMA TotalNext ==
    ASSUME NEW n \in Nat, NEW f \in [1..n + 1 -> Int], NEW g \in [1..n -> Int], \A x \in 1..n : g[x] = f[x]
    PROVE  Total(f) = Total(g) + f[n + 1] /\ Total(g) \in Int
  <1>1. PICK D, E : D = 1..n + 1 /\ E = 1..n
    OBVIOUS
  <1>2. IsFiniteSet(D) /\ IsFiniteSet(E) /\ f \in [D -> Int] /\ g \in [E -> Int] /\ \A x \in E : g[x] = f[x]
    BY <1>1, FS_Interval
  <1>3. E \in SUBSET D /\ n + 1 \in D /\ D \ {n + 1} = E
    BY <1>1
  <1>4. PartSums(f)[E] = Total(g)
    BY <1>2, <1>3, SameParts
  <1>5. PartSums(f)[D] = f[n + 1] + PartSums(f)[D \ {n + 1}]
    <2>1. D \in SUBSET D
      OBVIOUS
    <2> QED
      BY <1>2, <1>3, <2>1, TakeOut
  <1>6. Total(f) = PartSums(f)[D]
    BY <1>2, PartSumsDo
  <1>7. Total(g) \in Int
    <2>1. AddsUp(PartSums(g), g, E) /\ Total(g) = PartSums(g)[E]
      BY <1>2, PartSumsDo
    <2>2. PartSums(g) \in [SUBSET E -> Int]
      BY <2>1, Zenon DEF AddsUp
    <2>3. E \in SUBSET E
      OBVIOUS
    <2> QED
      BY <2>1, <2>2, <2>3
  <1>8. f[n + 1] \in Int
    BY <1>1, <1>3
  <1>9. Total(f) = f[n + 1] + Total(g)
    BY <1>3, <1>4, <1>5, <1>6
  <1> QED
    BY <1>7, <1>8, <1>9

LEMMA TotalNone ==
    ASSUME NEW g \in [1..0 -> Int]
    PROVE  Total(g) = 0
  <1>1. 1..0 = {} /\ IsFiniteSet({})
    BY FS_EmptySet
  <1>2. g \in [{} -> Int]
    BY <1>1
  <1>3. AddsUp(PartSums(g), g, {}) /\ Total(g) = PartSums(g)[{}]
    BY <1>1, <1>2, PartSumsDo
  <1> QED
    BY <1>3, Zenon DEF AddsUp

\* The six kinds added up.
LEMMA SixKinds ==
    ASSUME NEW h \in [Range(RejectedKinds) \cup {"late_event"} -> Int]
    PROVE  Total(h) = h["future_event"] + h["malformed"] + h["oversize"] + h["stale_key"] + h["wrong_auth"] + h["late_event"]
  <1> DEFINE D6 == {"future_event", "malformed", "oversize", "stale_key", "wrong_auth", "late_event"}
             D5 == {"malformed", "oversize", "stale_key", "wrong_auth", "late_event"}
             D4 == {"oversize", "stale_key", "wrong_auth", "late_event"}
             D3 == {"stale_key", "wrong_auth", "late_event"}
             D2 == {"wrong_auth", "late_event"}
             D1 == {"late_event"}
  <1>1. h \in [D6 -> Int]
    BY KindList
  <1>2. IsFiniteSet(D6)
    <2>1. IsFiniteSet({}) /\ \A S, x : IsFiniteSet(S) => IsFiniteSet(S \cup {x})
      BY FS_EmptySet, FS_AddElement
    <2>2. IsFiniteSet({} \cup {"late_event"})
      BY <2>1, Zenon
    <2>3. IsFiniteSet(({} \cup {"late_event"}) \cup {"wrong_auth"})
      BY <2>1, <2>2, Zenon
    <2>4. IsFiniteSet((({} \cup {"late_event"}) \cup {"wrong_auth"}) \cup {"stale_key"})
      BY <2>1, <2>3, Zenon
    <2>5. IsFiniteSet(D3)
      <3>1. D3 = (({} \cup {"late_event"}) \cup {"wrong_auth"}) \cup {"stale_key"}
        OBVIOUS
      <3> QED
        BY <2>4, <3>1
    <2>6. IsFiniteSet(D3 \cup {"oversize"})
      BY <2>1, <2>5, Zenon
    <2>7. IsFiniteSet((D3 \cup {"oversize"}) \cup {"malformed"})
      BY <2>1, <2>6, Zenon
    <2>8. IsFiniteSet(((D3 \cup {"oversize"}) \cup {"malformed"}) \cup {"future_event"})
      BY <2>1, <2>7, Zenon
    <2>9. D6 = ((D3 \cup {"oversize"}) \cup {"malformed"}) \cup {"future_event"}
      OBVIOUS
    <2> QED
      BY <2>8, <2>9
  <1>3. D6 \ {"future_event"} = D5 /\ D5 \ {"malformed"} = D4 /\ D4 \ {"oversize"} = D3
    OBVIOUS
  <1>4. D3 \ {"stale_key"} = D2 /\ D2 \ {"wrong_auth"} = D1 /\ D1 \ {"late_event"} = {}
    OBVIOUS
  <1>5. /\ D6 \in SUBSET D6 /\ D5 \in SUBSET D6 /\ D4 \in SUBSET D6 /\ D3 \in SUBSET D6 /\ D2 \in SUBSET D6 /\ D1 \in SUBSET D6
        /\ "future_event" \in D6 /\ "malformed" \in D5 /\ "oversize" \in D4 /\ "stale_key" \in D3 /\ "wrong_auth" \in D2
        /\ "late_event" \in D1
    OBVIOUS
  <1>6. PICK p : p = PartSums(h)
    OBVIOUS
  <1> HIDE DEF D6, D5, D4, D3, D2, D1
  <1>7. ASSUME NEW s \in SUBSET D6, NEW x \in s PROVE p[s] = h[x] + p[s \ {x}]
    BY <1>1, <1>2, <1>6, TakeOut
  <1>8. p[{}] = 0 /\ Total(h) = p[D6]
    <2>1. AddsUp(p, h, D6) /\ Total(h) = p[D6]
      BY <1>1, <1>2, <1>6, PartSumsDo
    <2> QED
      BY <2>1, Zenon DEF AddsUp
  <1>9. /\ p[D6] = h["future_event"] + p[D5] /\ p[D5] = h["malformed"] + p[D4] /\ p[D4] = h["oversize"] + p[D3]
        /\ p[D3] = h["stale_key"] + p[D2] /\ p[D2] = h["wrong_auth"] + p[D1] /\ p[D1] = h["late_event"] + p[{}]
    <2>1. p[D6] = h["future_event"] + p[D6 \ {"future_event"}]
      BY <1>5, <1>7, Zenon
    <2>2. p[D5] = h["malformed"] + p[D5 \ {"malformed"}]
      BY <1>5, <1>7, Zenon
    <2>3. p[D4] = h["oversize"] + p[D4 \ {"oversize"}]
      BY <1>5, <1>7, Zenon
    <2>4. p[D3] = h["stale_key"] + p[D3 \ {"stale_key"}]
      BY <1>5, <1>7, Zenon
    <2>5. p[D2] = h["wrong_auth"] + p[D2 \ {"wrong_auth"}]
      BY <1>5, <1>7, Zenon
    <2>6. p[D1] = h["late_event"] + p[D1 \ {"late_event"}]
      BY <1>5, <1>7, Zenon
    <2> QED
      BY <1>3, <1>4, <2>1, <2>2, <2>3, <2>4, <2>5, <2>6
  <1>10. /\ h["future_event"] \in Int /\ h["malformed"] \in Int /\ h["oversize"] \in Int
         /\ h["stale_key"] \in Int /\ h["wrong_auth"] \in Int /\ h["late_event"] \in Int
    BY <1>1 DEF D6
  <1> QED
    BY <1>8, <1>9, <1>10

\* What is given to one name leaves that much less to the next.
LEMMA Leaves ==
    ASSUME NEW total \in Nat, NEW sum \in Int, NEW piece \in Nat, NEW share0 \in Int,
           share0 = 0 \/ share0 = Least(Most(total - sum, 0), piece)
    PROVE  share0 <= Most(total - sum, 0) - Most(total - (sum + piece), 0)
  BY DEF Least, Most

\* Shared out over the kinds is never more than there is to share.
LEMMA Shared ==
    ASSUME world \in Worlds, NEW total \in Nat
    PROVE  LET got == splitProportional(total)
           IN  /\ \A k \in Range(RejectedKinds) : got[k] \in Int
               /\ got["future_event"] + got["malformed"] + got["oversize"] + got["stale_key"] + got["wrong_auth"] <= total
  <1> DEFINE Planned(i) == world.sent[RejectedKinds[i]]
             Part(i) == Truncated(total, Planned(i), expectedRejectTotal)
             Sum(i) == Total([j \in 1..i - 1 |-> Part(j)])
             Left(i) == Most(total - Sum(i), 0)
             Given(i) == IF Planned(i) = 0 THEN 0 ELSE IF i = Len(RejectedKinds) THEN Left(i) ELSE Least(Left(i), Part(i))
             got == splitProportional(total)
  <1>1. ASSUME NEW i \in 1..5
        PROVE  got[RejectedKinds[i]] = IF total = 0 \/ expectedRejectTotal = 0 THEN 0 ELSE Given(i)
    <2>1. RejectedKinds[i] \in Range(RejectedKinds)
      <3>1. DOMAIN RejectedKinds = 1..5
        BY DEF RejectedKinds
      <3> QED
        BY <3>1 DEF Range
    <2>2. (CHOOSE j \in 1..Len(RejectedKinds) : RejectedKinds[j] = RejectedKinds[i]) = i
      BY KindPlace
    <2>3. got = [k \in Range(RejectedKinds) |->
                   IF total = 0 \/ expectedRejectTotal = 0 THEN 0
                   ELSE Given(CHOOSE j \in 1..Len(RejectedKinds) : RejectedKinds[j] = k)]
      BY DEF splitProportional
    <2>4. got[RejectedKinds[i]] =
            IF total = 0 \/ expectedRejectTotal = 0 THEN 0
            ELSE Given(CHOOSE j \in 1..Len(RejectedKinds) : RejectedKinds[j] = RejectedKinds[i])
      <3> HIDE DEF got, Given
      <3> QED
        BY <2>1, <2>3, Zenon
    <2> HIDE DEF got, Given
    <2> QED
      BY <2>2, <2>4, Zenon
  <1> HIDE DEF got
  <1>k. /\ RejectedKinds[1] = "future_event" /\ RejectedKinds[2] = "malformed" /\ RejectedKinds[3] = "oversize"
        /\ RejectedKinds[4] = "stale_key" /\ RejectedKinds[5] = "wrong_auth" /\ Len(RejectedKinds) = 5
        /\ Range(RejectedKinds) = {"future_event", "malformed", "oversize", "stale_key", "wrong_auth"}
    BY KindList
  <1>s. world.sent \in [Range(RejectedKinds) \cup {"late_event"} -> Nat]
    BY WorldAssumption
  <1>i. 1 \in 1..5 /\ 2 \in 1..5 /\ 3 \in 1..5 /\ 4 \in 1..5 /\ 5 \in 1..5
    OBVIOUS
  <1>2. CASE total = 0 \/ expectedRejectTotal = 0
    <2>1. ASSUME NEW i \in 1..5 PROVE got[RejectedKinds[i]] = 0
      BY <1>1, <1>2
    <2>2. /\ got["future_event"] = 0 /\ got["malformed"] = 0 /\ got["oversize"] = 0
          /\ got["stale_key"] = 0 /\ got["wrong_auth"] = 0
      BY <1>i, <1>k, <2>1
    <2>3. got["future_event"] + got["malformed"] + got["oversize"] + got["stale_key"] + got["wrong_auth"] <= total
      BY <2>2
    <2> QED
      BY <1>k, <2>2, <2>3 DEF got
  <1>3. CASE ~(total = 0 \/ expectedRejectTotal = 0)
    <2>1. \A i \in 1..5 : got[RejectedKinds[i]] = Given(i)
      BY <1>1, <1>3
    <2>2. expectedRejectTotal \in Nat /\ expectedRejectTotal > 0
      <3>1. PICK K : K = Range(RejectedKinds)
        OBVIOUS
      <3>2. PICK f : f = [k \in K |-> world.sent[k]]
        OBVIOUS
      <3>3. f \in [K -> Nat]
        BY <1>s, <3>1, <3>2
      <3>4. IsFiniteSet(K)
        <4>1. IsFiniteSet(1..5)
          <5>1. \A m, n \in Int : IsFiniteSet(m..n)
            BY FS_Interval
          <5>2. 1 \in Int /\ 5 \in Int
            OBVIOUS
          <5> QED
            BY <5>1, <5>2
        <4>2. K = {RejectedKinds[i] : i \in 1..5}
          BY <3>1 DEF Range, RejectedKinds
        <4>3. [i \in 1..5 |-> RejectedKinds[i]] \in Surjection(1..5, K)
          BY <4>2 DEF Surjection
        <4> QED
          BY <4>1, <4>3, FS_Surjection
      <3>5. expectedRejectTotal = Total(f)
        BY <3>1, <3>2 DEF expectedRejectTotal
      <3>6. Total(f) \in Nat
        BY <3>3, <3>4, TotalOfNat
      <3> QED
        BY <1>3, <3>5, <3>6
    <2>3. \A i \in 1..5 : Planned(i) \in Nat
      <3>1. \A x \in 1..5 : x = 1 \/ x = 2 \/ x = 3 \/ x = 4 \/ x = 5
        OBVIOUS
      <3> QED
        BY <1>k, <1>s, <3>1
    <2> HIDE DEF Planned
    <2>4. \A i \in 1..5 : Part(i) \in Nat
      BY <2>2, <2>3, TruncatedNear
    <2> HIDE DEF Part
    <2>5. Sum(1) = 0
      <3>1. [j \in 1..1 - 1 |-> Part(j)] \in [1..0 -> Int]
        OBVIOUS
      <3> QED
        BY <3>1, TotalNone
    <2>6. ASSUME NEW i \in 1..4 PROVE Sum(i + 1) = Sum(i) + Part(i) /\ Sum(i) \in Int
      <3>1. PICK n : n = i - 1
        OBVIOUS
      <3>2. n \in Nat /\ n + 1 = i /\ n + 1 \in 1..5
        BY <3>1
      <3>3. PICK f, g : f = [j \in 1..n + 1 |-> Part(j)] /\ g = [j \in 1..n |-> Part(j)]
        OBVIOUS
      <3>4. f \in [1..n + 1 -> Int] /\ g \in [1..n -> Int]
        <4>1. \A j \in 1..n + 1 : j \in 1..5
          BY <3>1
        <4>2. \A j \in 1..n + 1 : Part(j) \in Int
          BY <2>4, <4>1
        <4>3. \A j \in 1..n : Part(j) \in Int
          BY <3>2, <4>2
        <4> QED
          BY <3>3, <4>2, <4>3
      <3>5. (\A x \in 1..n : g[x] = f[x]) /\ f[n + 1] = Part(i)
        BY <3>2, <3>3
      <3>6. Total(f) = Total(g) + f[n + 1] /\ Total(g) \in Int
        BY <3>2, <3>4, <3>5, TotalNext
      <3>7. Sum(i + 1) = Total(f) /\ Sum(i) = Total(g)
        BY <3>1, <3>2, <3>3
      <3> QED
        BY <3>5, <3>6, <3>7
    <2> HIDE DEF Sum
    <2>7. /\ Sum(2) = Sum(1) + Part(1) /\ Sum(3) = Sum(2) + Part(2) /\ Sum(4) = Sum(3) + Part(3)
          /\ Sum(5) = Sum(4) + Part(4)
          /\ Sum(1) \in Int /\ Sum(2) \in Int /\ Sum(3) \in Int /\ Sum(4) \in Int
      <3>1. 1 \in 1..4 /\ 2 \in 1..4 /\ 3 \in 1..4 /\ 4 \in 1..4 /\ 1 + 1 = 2 /\ 2 + 1 = 3 /\ 3 + 1 = 4 /\ 4 + 1 = 5
        OBVIOUS
      <3> QED
        BY <2>6, <3>1
    <2>8. Sum(5) \in Int
      BY <1>i, <2>4, <2>7
    <2>9. \A i \in 1..5 : Left(i) \in Int /\ Left(i) >= 0
      <3>1. \A x \in 1..5 : x = 1 \/ x = 2 \/ x = 3 \/ x = 4 \/ x = 5
        OBVIOUS
      <3>2. \A x \in 1..5 : Sum(x) \in Int
        BY <2>7, <2>8, <3>1
      <3> QED
        BY <3>2 DEF Most
    <2>10. \A i \in 1..5 : Given(i) \in Int
      <3>1. \A x, y \in Int : Least(x, y) \in Int
        BY DEF Least
      <3> HIDE DEF Left
      <3>2. \A i \in 1..5 : Given(i) = 0 \/ Given(i) = Left(i) \/ Given(i) = Least(Left(i), Part(i))
        OBVIOUS
      <3>3. ASSUME NEW i \in 1..5 PROVE Left(i) \in Int /\ Least(Left(i), Part(i)) \in Int
        <4>1. Left(i) \in Int /\ Part(i) \in Int
          BY <2>4, <2>9
        <4> QED
          BY <3>1, <4>1, Zenon
      <3> HIDE DEF Given
      <3> QED
        BY <3>2, <3>3
    <2>11. ASSUME NEW i \in 1..4 PROVE Given(i) <= Left(i) - Left(i + 1)
      <3>1. i \in 1..5 /\ i # 5
        OBVIOUS
      <3>2. Given(i) = 0 \/ Given(i) = Least(Most(total - Sum(i), 0), Part(i))
        BY <1>k, <3>1
      <3>3. Sum(i) \in Int /\ Part(i) \in Nat /\ Given(i) \in Int /\ Sum(i + 1) = Sum(i) + Part(i)
        BY <2>4, <2>6, <2>10, <3>1
      <3> HIDE DEF Given
      <3>4. Given(i) <= Most(total - Sum(i), 0) - Most(total - (Sum(i) + Part(i)), 0)
        BY <3>2, <3>3, Leaves
      <3> QED
        BY <3>3, <3>4
    <2>12. Given(5) <= Left(5)
      <3>1. Given(5) = 0 \/ Given(5) = Left(5)
        BY <1>k
      <3> HIDE DEF Given, Left
      <3> QED
        BY <1>i, <2>9, <2>10, <3>1
    <2>13. Left(1) = total
      BY <2>5 DEF Most
    <2> HIDE DEF Given, Left
    <2>14. /\ Given(1) <= Left(1) - Left(2) /\ Given(2) <= Left(2) - Left(3) /\ Given(3) <= Left(3) - Left(4)
           /\ Given(4) <= Left(4) - Left(5)
      <3>1. 1 \in 1..4 /\ 2 \in 1..4 /\ 3 \in 1..4 /\ 4 \in 1..4 /\ 1 + 1 = 2 /\ 2 + 1 = 3 /\ 3 + 1 = 4 /\ 4 + 1 = 5
        OBVIOUS
      <3> QED
        BY <2>11, <3>1
    <2>15. /\ Given(1) \in Int /\ Given(2) \in Int /\ Given(3) \in Int /\ Given(4) \in Int /\ Given(5) \in Int
           /\ Left(2) \in Int /\ Left(3) \in Int /\ Left(4) \in Int /\ Left(5) \in Int
      BY <1>i, <2>9, <2>10
    <2>16. Given(1) + Given(2) + Given(3) + Given(4) + Given(5) <= total
      BY <2>12, <2>13, <2>14, <2>15
    <2>17. /\ got["future_event"] = Given(1) /\ got["malformed"] = Given(2) /\ got["oversize"] = Given(3)
           /\ got["stale_key"] = Given(4) /\ got["wrong_auth"] = Given(5)
      BY <1>i, <1>k, <2>1
    <2> QED
      BY <1>k, <2>15, <2>16, <2>17 DEF got
  <1> QED
    BY <1>2, <1>3

\* Check 6.
LEMMA RejectionsFound ==
    ASSUME world \in Worlds, NEW a, runNegativePathCorrectness(a) = "PASS"
    PROVE  /\ world.sent["late_event"] = 0 => AllRejected
           /\ world.sent["stale_key"] > 0 => staleKeyFalsePositives(a) = 0
  <1>1. PICK got : got = splitProportional(ExpectedFailures)
    OBVIOUS
  <1>2. /\ \A k \in Range(RejectedKinds) : got[k] >= world.sent[k]
        /\ world.sent["stale_key"] > 0 => staleKeyFalsePositives(a) = 0
    BY <1>1 DEF runNegativePathCorrectness
  <1>3. PICK s, h : s = world.sent /\ h = [k \in DOMAIN world.sent |-> world.handled[k]]
    OBVIOUS
  <1>4. /\ s \in [Range(RejectedKinds) \cup {"late_event"} -> Nat]
        /\ h \in [Range(RejectedKinds) \cup {"late_event"} -> Nat]
        /\ \A k \in Range(RejectedKinds) \cup {"late_event"} : h[k] = world.handled[k] /\ h[k] <= s[k]
    BY <1>3, WorldAssumption
  <1>5. ExpectedFailures = Total(h)
    BY <1>3 DEF ExpectedFailures, IsExpectedFailure
  <1>6. Total(h) = h["future_event"] + h["malformed"] + h["oversize"] + h["stale_key"] + h["wrong_auth"] + h["late_event"]
    <2>1. h \in [Range(RejectedKinds) \cup {"late_event"} -> Int]
      BY <1>4
    <2> QED
      BY <2>1, SixKinds
  <1>7. Range(RejectedKinds) = {"future_event", "malformed", "oversize", "stale_key", "wrong_auth"}
    BY KindList
  <1>8. \A k \in Range(RejectedKinds) \cup {"late_event"} : h[k] \in Nat /\ s[k] \in Nat
    BY <1>4
  <1>9. Total(h) \in Nat
    BY <1>6, <1>7, <1>8
  <1>10. /\ \A k \in Range(RejectedKinds) : got[k] \in Int
         /\ got["future_event"] + got["malformed"] + got["oversize"] + got["stale_key"] + got["wrong_auth"] <= Total(h)
    BY <1>1, <1>5, <1>9, Shared
  <1>11. ASSUME s["late_event"] = 0 PROVE \A k \in Range(RejectedKinds) : h[k] = s[k]
    <2>1. h["late_event"] = 0
      BY <1>4, <1>8, <1>11
    <2>2. /\ got["future_event"] >= s["future_event"] /\ got["malformed"] >= s["malformed"] /\ got["oversize"] >= s["oversize"]
          /\ got["stale_key"] >= s["stale_key"] /\ got["wrong_auth"] >= s["wrong_auth"]
      BY <1>2, <1>3, <1>7
    <2>3. /\ h["future_event"] <= s["future_event"] /\ h["malformed"] <= s["malformed"] /\ h["oversize"] <= s["oversize"]
          /\ h["stale_key"] <= s["stale_key"] /\ h["wrong_auth"] <= s["wrong_auth"]
      BY <1>4, <1>7
    <2>4. /\ got["future_event"] \in Int /\ got["malformed"] \in Int /\ got["oversize"] \in Int
          /\ got["stale_key"] \in Int /\ got["wrong_auth"] \in Int
      BY <1>7, <1>10
    <2>5. /\ h["future_event"] \in Nat /\ h["malformed"] \in Nat /\ h["oversize"] \in Nat
          /\ h["stale_key"] \in Nat /\ h["wrong_auth"] \in Nat
          /\ s["future_event"] \in Nat /\ s["malformed"] \in Nat /\ s["oversize"] \in Nat
          /\ s["stale_key"] \in Nat /\ s["wrong_auth"] \in Nat
      BY <1>7, <1>8
    <2>6. /\ h["future_event"] = s["future_event"] /\ h["malformed"] = s["malformed"] /\ h["oversize"] = s["oversize"]
          /\ h["stale_key"] = s["stale_key"] /\ h["wrong_auth"] = s["wrong_auth"]
      BY <1>6, <1>10, <2>1, <2>2, <2>3, <2>4, <2>5
    <2> QED
      BY <1>7, <2>6
  <1> QED
    BY <1>2, <1>3, <1>4, <1>11 DEF AllRejected

\* Whatever the check of one query, what it passes is so.
LEMMA Checked ==
    ASSUME ValidInv, NEW name \in OneQuery, NEW a, Verdict(name, a) = "PASS"
    PROVE  Good(name, a)
  <1>1. world \in Worlds
    BY DEF ValidInv, ReportInv
  <1>2. CASE name = "event_count_per_tenant"
    BY <1>1, <1>2, LossSeen DEF Verdict, Good
  <1>3. CASE name = "cross_tenant_leakage"
    BY <1>1, <1>3, LeakSeen DEF Verdict, Good
  <1>4. CASE name = "negative_path_correctness"
    <2>1. runNegativePathCorrectness(a) = "PASS"
      BY <1>4 DEF Verdict
    <2>2. world.sent["late_event"] = 0 => AllRejected
      BY <1>1, <2>1, RejectionsFound
    <2> QED
      BY <1>4, <2>2 DEF Good
  <1>5. CASE name \in OneQuery \ {"event_count_per_tenant", "cross_tenant_leakage", "negative_path_correctness"}
    BY <1>5 DEF Good
  <1> QED
    BY <1>2, <1>3, <1>4, <1>5 DEF OneQuery

-----------------------------------------------------------------------------
(* Every step keeps the invariant, and it is what the report promises.     *)

LEMMA JudgedStep == ValidInv /\ ValidInv' /\ JudgedInv /\ [ValidateNext]_validateVars => JudgedInv'
  <1> SUFFICES ASSUME ValidInv, ValidInv', JudgedInv, [ValidateNext]_validateVars PROVE JudgedInv'
    OBVIOUS
  <1>v. /\ vctx \in {"live", "done"} /\ begun \in 0..2 /\ lock \subseteq 1..Len(world.tenants)
    BY DEF JudgedInv, WrittenInv, TenantInv
  <1>g. \A name, a : name \notin OneQuery => Good(name, a)
    BY DEF Good, OneQuery
  <1>1. CASE UNCHANGED validateVars \/ Cancel \/ BillOneCustomer \/ ScanRow
    <2>1. /\ UNCHANGED <<world, pos, stage, verdicts, rollup, lock, begun>> /\ vctx' \in {"live", "done"}
      BY <1>1, <1>v DEF validateVars, Cancel, BillOneCustomer, ScanRow
    <2>2. TenantInv'
      BY <2>1, RaceStays DEF JudgedInv, TenantInv
    <2> QED
      BY <2>1, <2>2, Unwritten
  <1>2. CASE SkipCheck
    BY <1>2, <1>v, Wrote DEF SkipCheck
  <1>3. CASE dispatch
    <2>1. PICK a : Report(Verdict(Check, a), a)
      BY <1>3 DEF dispatch
    <2>2. Check \in OneQuery /\ ~Done /\ UNCHANGED <<world, vctx, rollup, lock, begun>>
      BY <1>3 DEF dispatch
    <2>3. Verdict(Check, a) = "PASS" => Good(Check, a)
      BY <2>2, Checked
    <2> QED
      BY <1>v, <2>1, <2>2, <2>3, Wrote
  <1>4. CASE BillingMatchStart \/ LifecycleStart
    <2>1. /\ ~Done /\ UNCHANGED <<world, vctx, rollup, lock, begun>>
          /\ Check \in {"per_archetype_billing_match", "lifecycle_correctness"}
          /\ \/ Report("SKIP", "none")
             \/ stage' = "in" /\ UNCHANGED <<pos, verdicts>>
      BY <1>4 DEF BillingMatchStart, LifecycleStart, AtCheck
    <2>2. CASE Report("SKIP", "none")
      BY <1>v, <2>1, <2>2, Wrote
    <2>3. CASE stage' = "in" /\ UNCHANGED <<pos, verdicts>>
      <3>1. ~AtRace'
        BY <2>1, <2>3, RaceStays DEF AtRace, Races
      <3>2. TenantInv'
        BY <1>v, <2>1, <3>1 DEF TenantInv
      <3> QED
        BY <1>v, <2>1, <2>3, <3>2, Unwritten
    <2> QED
      BY <2>1, <2>2, <2>3
  <1>5. CASE runBillingMatch \/ runLifecycleCorrectness \/ RaceEnds
    <2>1. PICK s, a : Report(s, a)
      BY <1>5 DEF runBillingMatch, runLifecycleCorrectness, RaceEnds
    <2>2. /\ ~Done /\ UNCHANGED <<world, vctx, rollup, lock, begun>>
          /\ Check \in {"per_archetype_billing_match", "lifecycle_correctness"} \cup Races
      BY <1>5 DEF runBillingMatch, runLifecycleCorrectness, RaceEnds, AtCheck, AtRace
    <2>3. Good(Check, a)
      BY <1>g, <2>2 DEF Races, OneQuery
    <2> QED
      BY <1>v, <2>1, <2>2, <2>3, Wrote
  <1>6. CASE RaceStart
    <2>1. AtRace /\ ~Done /\ begun' = 0 /\ UNCHANGED <<world, vctx, rollup, lock>>
      BY <1>6 DEF RaceStart, AtRace
    <2>2. CASE RaceSkipped
      <3>1. Report("SKIP", "none")
        BY <1>6, <2>2 DEF RaceStart
      <3>2. begun' \in 0..2
        BY <2>1
      <3> QED
        BY <2>1, <3>1, <3>2, Wrote
    <2>3. CASE ~RaceSkipped
      <3>1. stage' = "in" /\ UNCHANGED <<pos, verdicts>>
        BY <1>6, <2>3 DEF RaceStart
      <3>2. RaceTenant \in 1..Len(world.tenants)
        BY <2>1, <2>3, RaceOfTenant
      <3>3. TenantInv'
        BY <1>v, <2>1, <3>1, <3>2, RaceStays DEF TenantInv
      <3> QED
        BY <1>v, <2>1, <3>1, <3>3, Unwritten
    <2> QED
      BY <2>2, <2>3
  <1>7. ASSUME NEW x \in Calls, MigrateSubscription \/ TriggerBillRun(x) \/ CallReturns(x) PROVE JudgedInv'
    <2>1. /\ stage = "in" /\ AtRace /\ UNCHANGED <<world, pos, stage, verdicts, rollup, vctx>>
          /\ lock' \subseteq lock \cup {RaceTenant}
      BY <1>7 DEF MigrateSubscription, TriggerBillRun, CallReturns
    <2>2. AtRace' /\ RaceTenant' = RaceTenant /\ RaceTenant \in 1..Len(world.tenants)
      BY <2>1, RaceStays DEF JudgedInv, TenantInv
    <2>3. begun' \in 0..2
      <3>1. (begun \in Nat /\ begun <= Maybe("A") + Maybe("B"))'
        BY <2>1, <2>2 DEF ValidInv, FireInv
      <3>2. (Maybe("A") \in 0..1 /\ Maybe("B") \in 0..1)'
        BY DEF Maybe
      <3> QED
        BY <3>1, <3>2
    <2>4. TenantInv'
      BY <1>v, <2>1, <2>2, <2>3 DEF TenantInv
    <2> QED
      BY <1>v, <2>1, <2>4, Unwritten
  <1>8. CASE \E t \in lock : BillRunEnds(t)
    <2>1. UNCHANGED <<world, pos, stage, verdicts, rollup, vctx, begun>> /\ lock' \subseteq lock
      BY <1>8 DEF BillRunEnds
    <2>2. TenantInv'
      BY <1>v, <2>1, RaceStays DEF JudgedInv, TenantInv
    <2> QED
      BY <1>v, <2>1, <2>2, Unwritten
  <1>9. CASE runValidate
    <2>1. PICK saved \in BOOLEAN :
             rollup' = [overall |-> Finalize, exit |-> IF saved /\ Count("FAIL") = 0 THEN 0 ELSE 1]
      BY <1>9 DEF runValidate
    <2>2. Done /\ UNCHANGED <<world, vctx, pos, stage, verdicts, lock, begun>>
      BY <1>9 DEF runValidate
    <2>3. WrittenInv' /\ GivenInv' /\ TenantInv'
      <3>1. AskedFor' = AskedFor /\ (\A x : Wanted(x)' = Wanted(x))
        BY <2>2 DEF Wanted, wantedChecks, AskedFor
      <3>2. \A x : Before(x)' = Before(x) /\ Place(x)' = Place(x)
        BY <3>1 DEF Before, Place
      <3>3. WrittenInv'
        BY <2>2, <3>1, <3>2 DEF JudgedInv, WrittenInv, Done, Before, Wanted, wantedChecks
      <3>4. GivenInv'
        BY <2>2 DEF JudgedInv, GivenInv, Good, WithinLoss, AllRejected, Can, Capabilities
      <3>5. TenantInv'
        BY <2>2, RaceStays DEF JudgedInv, TenantInv
      <3> QED
        BY <3>3, <3>4, <3>5
    <2>4. SummaryInv'
      <3>1. Finalize' = Finalize /\ Count("FAIL")' = Count("FAIL") /\ Done'
        BY <2>2 DEF Finalize, Count, Done
      <3>2. Count("FAIL") > 0 => Count("FAIL") # 0
        <4>1. Count("FAIL") \in Nat
          <5>1. {i \in 1..Len(verdicts) : verdicts[i].status = "FAIL"} \subseteq 1..Len(verdicts)
            OBVIOUS
          <5>2. Len(verdicts) \in Nat
            BY DEF ValidInv, ReportInv
          <5>3. IsFiniteSet(1..Len(verdicts))
            BY <5>2, FS_Interval
          <5> QED
            BY <5>1, <5>3, FS_Subset, FS_CardinalityType DEF Count
        <4> QED
          BY <4>1
      <3> QED
        BY <2>1, <3>1, <3>2 DEF SummaryInv
    <2> QED
      BY <2>3, <2>4 DEF JudgedInv
  <1> QED
    BY <1>1, <1>2, <1>3, <1>4, <1>5, <1>6, <1>7, <1>8, <1>9 DEF ValidateNext, Calls

\* How many rows have a status.
LEMMA Counted ==
    ASSUME ValidInv, NEW st
    PROVE  Count(st) \in Nat /\ (Count(st) = 0 <=> \A i \in 1..Len(verdicts) : verdicts[i].status # st)
  <1> DEFINE S == {i \in 1..Len(verdicts) : verdicts[i].status = st}
  <1>1. IsFiniteSet(S)
    <2>1. Len(verdicts) \in Nat
      BY DEF ValidInv, ReportInv
    <2>2. IsFiniteSet(1..Len(verdicts))
      BY <2>1, FS_Interval
    <2>3. S \subseteq 1..Len(verdicts)
      OBVIOUS
    <2> HIDE DEF S
    <2> QED
      BY <2>2, <2>3, FS_Subset
  <1>2. Count(st) = Cardinality(S)
    BY DEF Count
  <1>3. S = {} <=> \A i \in 1..Len(verdicts) : verdicts[i].status # st
    OBVIOUS
  <1> HIDE DEF S
  <1>4. Cardinality(S) \in Nat /\ (Cardinality(S) = 0 <=> S = {})
    BY <1>1, FS_CardinalityType, FS_EmptySet
  <1> QED
    BY <1>2, <1>3, <1>4

\* A finished report has the checks asked for, in their order.
LEMMA Complete ==
    ASSUME ValidInv, JudgedInv, Done
    PROVE  [i \in 1..Len(verdicts) |-> verdicts[i].name] = InOrder
  <1>1. Before(pos) = AskedFor /\ Len(verdicts) = Cardinality(AskedFor)
    <2>1. Before(pos) = AskedFor
      BY ListLength DEF Done, Before, AskedFor, JudgedInv, WrittenInv
    <2> QED
      BY <2>1 DEF JudgedInv, WrittenInv
  <1> DEFINE Its(n) == CHOOSE i \in AskedFor : Place(i) = n
  <1>2. InOrder = [n \in 1..Cardinality(AskedFor) |-> AllChecks[Its(n)]]
    BY DEF InOrder, AskedFor, Place
  <1>3. ASSUME NEW n \in 1..Len(verdicts) PROVE verdicts[n].name = AllChecks[Its(n)]
    <2>1. PICK i \in AskedFor : verdicts[n].name = AllChecks[i] /\ Place(i) = n
      BY <1>1 DEF JudgedInv, WrittenInv
    <2>2. Its(n) \in AskedFor /\ Place(Its(n)) = n
      BY <2>1
    <2> HIDE DEF Its
    <2>3. Its(n) = i
      BY <2>1, <2>2, PlacesDiffer
    <2> QED
      BY <2>1, <2>3
  <1> HIDE DEF Its
  <1> QED
    BY <1>1, <1>2, <1>3

LEMMA ReportComplete ==
    ASSUME ValidInv, JudgedInv
    PROVE  ReportSound
  <1> SUFFICES ASSUME rollup # NoSummary
               PROVE  /\ [i \in 1..Len(verdicts) |-> verdicts[i].name] = InOrder
                      /\ (rollup.overall = "FAIL") <=> \E i \in 1..Len(verdicts) : verdicts[i].status = "FAIL"
                      /\ rollup.overall = "FAIL" => rollup.exit = 1
                      /\ rollup.overall = "PASS" => \E c \in Range(AllChecks) : Passed(c)
    BY DEF ReportSound
  <1>1. Done /\ rollup.overall = Finalize /\ (Count("FAIL") > 0 => rollup.exit = 1)
    BY DEF JudgedInv, SummaryInv
  <1>2. /\ Count("FAIL") \in Nat /\ (Count("FAIL") = 0 <=> \A i \in 1..Len(verdicts) : verdicts[i].status # "FAIL")
        /\ Count("PASS") \in Nat /\ (Count("PASS") = 0 <=> \A i \in 1..Len(verdicts) : verdicts[i].status # "PASS")
    BY Counted
  <1>3. (rollup.overall = "FAIL") <=> Count("FAIL") > 0
    BY <1>1 DEF Finalize
  <1>4. rollup.overall = "PASS" => \E c \in Range(AllChecks) : Passed(c)
    <2> SUFFICES ASSUME rollup.overall = "PASS" PROVE \E c \in Range(AllChecks) : Passed(c)
      OBVIOUS
    <2>1. PICK n \in 1..Len(verdicts) : verdicts[n].status = "PASS"
      BY <1>1, <1>2 DEF Finalize
    <2>2. PICK i \in Before(pos) : verdicts[n].name = AllChecks[i]
      BY DEF JudgedInv, WrittenInv
    <2>3. i \in DOMAIN AllChecks
      BY <2>2, ListLength DEF Before, AskedFor, AllChecks
    <2>4. AllChecks[i] \in Range(AllChecks)
      BY <2>3 DEF Range
    <2>5. Passed(AllChecks[i])
      BY <2>1, <2>2 DEF Passed
    <2> QED
      BY <2>4, <2>5
  <1>5. (\E i \in 1..Len(verdicts) : verdicts[i].status = "FAIL") <=> Count("FAIL") > 0
    BY <1>2
  <1>6. [i \in 1..Len(verdicts) |-> verdicts[i].name] = InOrder
    BY <1>1, Complete
  <1> QED
    BY <1>1, <1>3, <1>4, <1>5, <1>6

\* The invariant says all that the property does.
LEMMA VerdictsHold ==
    ASSUME ValidInv, JudgedInv
    PROVE  VerdictsSound
  <1>1. ValidateTypeOK
    <2>1. verdicts \in Seq(ReportRow) /\ fires \in [Calls -> FireStates]
      BY DEF ValidInv, ReportInv
    <2>2. \A r \in ReportRow : r.status \in Statuses
      BY DEF ReportRow
    <2>3. \A i \in 1..Len(verdicts) : verdicts[i] \in ReportRow
      BY <2>1
    <2> QED
      BY <2>1, <2>2, <2>3 DEF ValidateTypeOK, FireStates, JudgedInv, WrittenInv, TenantInv
  <1>2. LossBounded
    BY DEF LossBounded, Passed, JudgedInv, GivenInv, Good, WithinLoss
  <1>3. FaultsSeen
    BY DEF FaultsSeen, Passed, JudgedInv, GivenInv, Good
  <1>4. RejectionsSound
    BY DEF RejectionsSound, Passed, PassedAsked, JudgedInv, GivenInv, Good, AllRejected
  <1> QED
    BY <1>1, <1>2, <1>3, <1>4, ReportComplete DEF VerdictsSound, ValidInv

-----------------------------------------------------------------------------
(***************************************************************************)
(* The soak monitor.  An alert names its snapshot and looks only at those  *)
(* before it, so what was true of it when it was raised stays true.        *)
(***************************************************************************)
\* A window of snapshots: the value at each of its places, and the order.
LEMMA SortedPlace ==
    ASSUME NEW ss, NEW win, IsFiniteSet(win), \A i \in win : ss[i].p99 \in Nat,
           NEW r \in 1..Cardinality(win)
    PROVE  LET v == Sorted(ss, win, r)
           IN  /\ v \in Nat
               /\ Cardinality({i \in win : ss[i].p99 < v}) < r
               /\ Cardinality({i \in win : ss[i].p99 <= v}) >= r
  <1> DEFINE V == {ss[i].p99 : i \in win}
             Below(v) == {i \in win : ss[i].p99 < v}
             UpToIt(v) == {i \in win : ss[i].p99 <= v}
             E == {v \in V : Cardinality(UpToIt(v)) >= r}
  <1>1. V \subseteq Nat /\ IsFiniteSet(V)
    <2> DEFINE f == [i \in win |-> ss[i].p99]
    <2>1. f \in Surjection(win, V)
      BY DEF Surjection
    <2> QED
      BY <2>1, FS_Surjection
  <1>2. Cardinality(win) \in Nat /\ r \in Nat /\ r >= 1 /\ win # {}
    BY FS_CardinalityType, FS_EmptySet
  <1>3. V # {}
    BY <1>2
  <1>4. \A v : /\ IsFiniteSet(Below(v)) /\ Cardinality(Below(v)) \in Nat
               /\ IsFiniteSet(UpToIt(v)) /\ Cardinality(UpToIt(v)) \in Nat
    <2>1. \A v : Below(v) \subseteq win /\ UpToIt(v) \subseteq win
      OBVIOUS
    <2> HIDE DEF Below, UpToIt
    <2> QED
      BY <2>1, FS_Subset, FS_CardinalityType
  <1>5. E # {}
    <2>1. PICK x \in V : \A y \in V : y <= x
      BY <1>1, <1>3, Extremes
    <2>2. \A i \in win : ss[i].p99 \in V
      OBVIOUS
    <2>3. UpToIt(x) = win
      BY <2>1, <2>2
    <2>4. Cardinality(UpToIt(x)) >= r
      BY <1>2, <2>3
    <2> QED
      BY <2>4
  <1>6. PICK v \in E : \A y \in E : v <= y
    <2>1. E \subseteq V
      OBVIOUS
    <2>2. E \subseteq Nat /\ IsFiniteSet(E)
      BY <1>1, <2>1, FS_Subset
    <2> HIDE DEF E
    <2> QED
      BY <1>5, <2>2, Extremes
  <1>7. Cardinality(Below(v)) < r
    <2> SUFFICES ASSUME ~(Cardinality(Below(v)) < r) PROVE FALSE
      OBVIOUS
    <2> DEFINE L == {y \in V : y < v}
    <2>1. Below(v) # {}
      <3>1. Cardinality({}) = 0
        BY FS_EmptySet
      <3> HIDE DEF Below
      <3> QED
        BY <1>2, <3>1
    <2>2. L # {} /\ L \subseteq Nat /\ IsFiniteSet(L)
      <3>1. L \subseteq V
        OBVIOUS
      <3>2. L # {}
        <4>1. PICK i \in win : ss[i].p99 < v
          BY <2>1
        <4>2. ss[i].p99 \in L
          BY <4>1
        <4> QED
          BY <4>2
      <3> HIDE DEF L, V
      <3> QED
        BY <1>1, <3>1, <3>2, FS_Subset
    <2>3. PICK x \in L : \A y \in L : y <= x
      BY <2>2, Extremes
    <2>4. Below(v) \subseteq UpToIt(x)
      BY <2>3
    <2>5. Cardinality(Below(v)) <= Cardinality(UpToIt(x))
      <3> HIDE DEF Below, UpToIt
      <3> QED
        BY <1>4, <2>4, FS_Subset
    <2>6. x \in E
      <3>1. Cardinality(UpToIt(x)) >= r
        <4> HIDE DEF Below, UpToIt
        <4> QED
          BY <1>2, <1>4, <2>5
      <3>2. x \in V
        BY <2>3
      <3> HIDE DEF UpToIt, V
      <3> QED
        BY <3>1, <3>2
    <2>7. v <= x /\ x < v /\ v \in Nat /\ x \in Nat
      BY <1>1, <1>6, <2>3, <2>6
    <2> QED
      BY <2>7
  <1>8. v \in V /\ Cardinality(UpToIt(v)) >= r
    OBVIOUS
  <1> DEFINE P(u) == Cardinality(Below(u)) < r /\ Cardinality(UpToIt(u)) >= r
             w == CHOOSE u \in V : P(u)
  <1>9. Sorted(ss, win, r) = w
    BY DEF Sorted
  <1> HIDE DEF V, Below, UpToIt
  <1>10. w \in V /\ P(w)
    BY <1>7, <1>8
  <1> QED
    BY <1>1, <1>9, <1>10 DEF Below, UpToIt

\* Half of the window is at or below half of twice the median.
LEMMA MedianPlace ==
    ASSUME NEW ss, NEW now, IsFiniteSet(Window(ss, now)),
           \A i \in Window(ss, now) : ss[i].p99 \in Nat,
           medianP99WithinWindow(ss, now) > 0
    PROVE  LET win == Window(ss, now)
           IN  /\ Cardinality(win) >= 3 /\ medianP99WithinWindow(ss, now) \in Nat
               /\ \E v \in Nat : /\ 2 * v <= medianP99WithinWindow(ss, now)
                                 /\ 2 * Cardinality({i \in win : ss[i].p99 <= v}) >= Cardinality(win)
  <1> DEFINE win == Window(ss, now)
             n == Cardinality(win)
             mid == n \div 2
             m == medianP99WithinWindow(ss, now)
             C(v) == Cardinality({i \in win : ss[i].p99 <= v})
             D(v) == Cardinality({i \in win : ss[i].p99 < v})
  <1>1. n \in Nat /\ mid \in Nat /\ (n % 2 = 0 => n = 2 * mid) /\ (n % 2 # 0 => n = 2 * mid + 1)
    BY FS_CardinalityType
  <1>2. m = IF n < 3 THEN 0 ELSE IF n % 2 = 0 THEN Sorted(ss, win, mid) + Sorted(ss, win, mid + 1)
            ELSE 2 * Sorted(ss, win, mid + 1)
    BY DEF medianP99WithinWindow
  <1>3. n >= 3
    BY <1>1, <1>2
  <1>4. mid \in 1..n /\ mid + 1 \in 1..n
    BY <1>1, <1>3
  <1> DEFINE v1 == Sorted(ss, win, mid)
             v2 == Sorted(ss, win, mid + 1)
  <1>5. /\ v1 \in Nat /\ D(v1) < mid /\ C(v1) >= mid
        /\ v2 \in Nat /\ C(v2) >= mid + 1
    <2>1. v1 \in Nat /\ D(v1) < mid /\ C(v1) >= mid
      BY <1>4, SortedPlace
    <2>2. v2 \in Nat /\ C(v2) >= mid + 1
      BY <1>4, SortedPlace
    <2> QED
      BY <2>1, <2>2
  <1>6. \A v : C(v) \in Nat /\ D(v) \in Nat
    <2>1. \A v : {i \in win : ss[i].p99 <= v} \subseteq win /\ {i \in win : ss[i].p99 < v} \subseteq win
      OBVIOUS
    <2> HIDE DEF win
    <2> QED
      BY <2>1, FS_Subset, FS_CardinalityType DEF win
  <1> HIDE DEF v1, v2, m
  <1>7. CASE n % 2 = 0
    <2>1. v1 <= v2
      <3> SUFFICES ASSUME v2 < v1 PROVE FALSE
        BY <1>5
      <3> DEFINE X == {i \in win : ss[i].p99 <= v2}
                 Y == {i \in win : ss[i].p99 < v1}
      <3>1. X \subseteq Y /\ Y \subseteq win
        BY <1>5
      <3> HIDE DEF X, Y
      <3>2. Cardinality(X) <= Cardinality(Y)
        BY <3>1, FS_Subset
      <3>3. Cardinality(X) = C(v2) /\ Cardinality(Y) = D(v1)
        BY DEF X, Y
      <3> HIDE DEF C, D
      <3> QED
        BY <1>1, <1>5, <1>6, <3>2, <3>3
    <2>2. m = v1 + v2
      BY <1>1, <1>2, <1>3, <1>7 DEF v1, v2
    <2>3. m \in Nat /\ 2 * v1 <= m /\ 2 * C(v1) >= n
      <3> HIDE DEF C, D, n, mid
      <3> QED
        BY <1>1, <1>5, <1>6, <1>7, <2>1, <2>2
    <2> QED
      BY <1>3, <1>5, <2>3 DEF m
  <1>8. CASE n % 2 # 0
    <2>1. m = 2 * v2
      BY <1>1, <1>2, <1>3, <1>8 DEF v2
    <2>2. m \in Nat /\ 2 * v2 <= m /\ 2 * C(v2) >= n
      <3> HIDE DEF C, D, n, mid
      <3> QED
        BY <1>1, <1>5, <1>6, <1>8, <2>1
    <2> QED
      BY <1>3, <1>5, <2>2 DEF m
  <1> QED
    BY <1>7, <1>8

Snapshot == [at : Nat, p99 : Nat, failed : {s.failed : s \in Snaps}, ingested : {s.ingested : s \in Snaps}]
Alert == [kind : {"high_failure_rate", "p99_drift"}, severity : {"WARN", "CRITICAL"}, of : Nat]

\* The snapshots of ss that speak for its alert a.
Earlier(ss, a) ==
    {i \in 1..(a.of - 1) : ss[i].at < ss[a.of].at /\ ss[i].at > ss[a.of].at - AnomalyWindow}
Lower(ss, a) ==
    {i \in Earlier(ss, a) : IF a.severity = "CRITICAL" THEN 4 * ss[a.of].p99 > 5 * ss[i].p99
                                                      ELSE 10 * ss[a.of].p99 > 11 * ss[i].p99}
Justified(ss, a) == a.kind = "p99_drift" =>
    /\ Cardinality(Earlier(ss, a)) >= 3
    /\ 2 * Cardinality(Lower(ss, a)) >= Cardinality(Earlier(ss, a))

\* File t is that of snapshot i, whose alerts come after the first p.
FileOf(t, i, p) ==
    /\ files[t].snap = snapshots[i] /\ snapshots[i].at = t
    /\ \A j \in 1..Len(files[t].alerts) : files[t].alerts[j] = alerts[p + j]
    /\ \A k \in 1..Len(alerts) : alerts[k].of = i <=> k \in (p + 1)..(p + Len(files[t].alerts))

SoakInv ==
    /\ snapshots \in Seq(Snapshot)
    /\ alerts \in Seq(Alert)
    /\ \A k \in 1..Len(alerts) : alerts[k].of \in 1..Len(snapshots) /\ Justified(snapshots, alerts[k])
    /\ \A t \in DOMAIN files :
          /\ files[t].alerts \in Seq(Alert)
          /\ \E i \in 1..Len(snapshots), p \in 0..(Len(alerts) - Len(files[t].alerts)) : FileOf(t, i, p)

LEMMA SoakHolds == SoakInv => SnapshotsSound
  <1> SUFFICES ASSUME SoakInv PROVE SnapshotsSound
    OBVIOUS
  <1>1. DriftJustified
    BY DEF SoakInv, DriftJustified, Justified, Earlier, Lower
  <1>2. FilesAgree
    BY DEF SoakInv, FilesAgree, FileOf
  <1> QED
    BY <1>1, <1>2 DEF SnapshotsSound

LEMMA Margins ==
    ASSUME NEW p \in Nat, NEW x \in Nat, NEW t \in Nat, 2 * x <= t
    PROVE  /\ 20 * p > 11 * t => 10 * p > 11 * x
           /\ 8 * p > 5 * t => 4 * p > 5 * x
  OBVIOUS

LEMMA Pairs ==
    ASSUME NEW T, NEW a \in T, NEW b \in T
    PROVE  /\ <<a>> \o <<b>> = <<a, b>> /\ <<a>> \o <<>> = <<a>> /\ <<>> \o <<b>> = <<b>>
           /\ <<a, b>> \in Seq(T) /\ <<a>> \in Seq(T) /\ <<b>> \in Seq(T)
  <1>2. <<a>> \in Seq(T) /\ <<b>> \in Seq(T) /\ <<a, b>> \in Seq(T)
    OBVIOUS
  <1>1. <<a>> \o <<b>> = <<a, b>>
    <2> DEFINE c == <<a>> \o <<b>>
               e == <<a, b>>
    <2>1. c \in Seq(T) /\ Len(c) = 2 /\ \A i \in 1..2 : c[i] = e[i]
      BY <1>2, ConcatProperties
    <2>2. e \in Seq(T) /\ Len(e) = 2
      BY <1>2
    <2> HIDE DEF c, e
    <2>3. c = e
      BY <2>1, <2>2, SeqEqual
    <2> QED
      BY <2>3 DEF c, e
  <1>3. <<a>> \o <<>> = <<a>> /\ <<>> \o <<b>> = <<b>>
    BY <1>2, ConcatEmptySeq
  <1> QED
    BY <1>1, <1>2, <1>3

\* What detect raises is of the latest snapshot, and justified by those before.
LEMMA Detected ==
    ASSUME NEW ss \in Seq(Snapshot), NEW s \in Snapshot, ss # <<>>, s = ss[Len(ss)]
    PROVE  /\ detect(ss, s) \in Seq(Alert)
           /\ \A j \in 1..Len(detect(ss, s)) : detect(ss, s)[j].of = Len(ss)
           /\ \A j \in 1..Len(detect(ss, s)) : LET a == detect(ss, s)[j] IN
                 a.kind = "p99_drift" =>
                    LET win == Window(ss, s.at)
                        low == {i \in win : IF a.severity = "CRITICAL" THEN 4 * s.p99 > 5 * ss[i].p99
                                                                      ELSE 10 * s.p99 > 11 * ss[i].p99}
                    IN  Cardinality(win) >= 3 /\ 2 * Cardinality(low) >= Cardinality(win)
  <1> DEFINE twice == medianP99WithinWindow(ss, s.at)
             win == Window(ss, s.at)
             r == [kind |-> "high_failure_rate", severity |-> "WARN", of |-> Len(ss)]
             sev == IF 8 * s.p99 > 5 * twice THEN "CRITICAL" ELSE "WARN"
             d == [kind |-> "p99_drift", of |-> Len(ss), severity |-> sev]
             fail == IF 100 * s.failed > s.failed + s.ingested THEN <<r>> ELSE <<>>
             drift == IF twice > 0 /\ 20 * s.p99 > 11 * twice THEN <<d>> ELSE <<>>
             low(sv) == {i \in win : IF sv = "CRITICAL" THEN 4 * s.p99 > 5 * ss[i].p99
                                                       ELSE 10 * s.p99 > 11 * ss[i].p99}
             Fine(a) == /\ a \in Alert /\ a.of = Len(ss)
                        /\ a.kind = "p99_drift" =>
                              /\ Cardinality(win) >= 3
                              /\ 2 * Cardinality(low(a.severity)) >= Cardinality(win)
             new == detect(ss, s)
  <1>1. new = fail \o drift
    BY DEF detect
  <1>2. Len(ss) \in Nat
    OBVIOUS
  <1>3. Fine(r)
    BY <1>2 DEF Alert
  <1>4. ASSUME twice > 0, 20 * s.p99 > 11 * twice PROVE Fine(d)
    <2>1. d \in Alert /\ d.of = Len(ss) /\ d.severity = sev /\ sev \in {"WARN", "CRITICAL"}
      BY <1>2 DEF Alert
    <2>2. IsFiniteSet(win) /\ \A i \in win : ss[i].p99 \in Nat
      <3>1. win \subseteq 1..Len(ss) /\ IsFiniteSet(1..Len(ss))
        BY <1>2, FS_Interval DEF Window
      <3>2. IsFiniteSet(win)
        BY <3>1, FS_Subset
      <3>3. \A i \in 1..Len(ss) : ss[i] \in Snapshot
        OBVIOUS
      <3> QED
        BY <3>1, <3>2, <3>3 DEF Snapshot
    <2>3. Cardinality(win) >= 3 /\ twice \in Nat
      BY <1>4, <2>2, MedianPlace
    <2>4. PICK v \in Nat : /\ 2 * v <= twice
                           /\ 2 * Cardinality({i \in win : ss[i].p99 <= v}) >= Cardinality(win)
      BY <1>4, <2>2, MedianPlace
    <2> DEFINE X == {i \in win : ss[i].p99 <= v}
               Y == low(sev)
    <2>5. s.p99 \in Nat
      BY DEF Snapshot
    <2> HIDE DEF twice, win
    <2>6. X \subseteq Y
      <3> SUFFICES ASSUME NEW i \in win, ss[i].p99 <= v
                   PROVE  IF sev = "CRITICAL" THEN 4 * s.p99 > 5 * ss[i].p99
                                              ELSE 10 * s.p99 > 11 * ss[i].p99
        OBVIOUS
      <3>1. ss[i].p99 \in Nat /\ 2 * ss[i].p99 <= twice
        BY <2>2, <2>3, <2>4
      <3>2. 10 * s.p99 > 11 * ss[i].p99
        BY <1>4, <2>3, <2>5, <3>1, Margins
      <3>3. 8 * s.p99 > 5 * twice => 4 * s.p99 > 5 * ss[i].p99
        BY <2>3, <2>5, <3>1, Margins
      <3> QED
        BY <3>2, <3>3
    <2>7. IsFiniteSet(X) /\ IsFiniteSet(Y) /\ Cardinality(X) <= Cardinality(Y)
      <3>1. Y \subseteq win
        OBVIOUS
      <3> HIDE DEF X, Y
      <3> QED
        BY <2>2, <2>6, <3>1, FS_Subset
    <2>8. Cardinality(X) \in Nat /\ Cardinality(Y) \in Nat /\ Cardinality(win) \in Nat
      BY <2>2, <2>7, FS_CardinalityType
    <2>9. 2 * Cardinality(Y) >= Cardinality(win)
      <3>1. 2 * Cardinality(X) >= Cardinality(win)
        BY <2>4
      <3> HIDE DEF X, Y
      <3> QED
        BY <2>7, <2>8, <3>1
    <2> HIDE DEF sev, low
    <2> QED
      BY <2>1, <2>3, <2>9
  <1> HIDE DEF r, d, twice, Fine
  <1>5. CASE 100 * s.failed > s.failed + s.ingested /\ (twice > 0 /\ 20 * s.p99 > 11 * twice)
    <2>1. new = <<r, d>> /\ Fine(r) /\ Fine(d)
      <3>1. fail = <<r>> /\ drift = <<d>> /\ Fine(r) /\ Fine(d)
        BY <1>3, <1>4, <1>5
      <3>2. r \in Alert /\ d \in Alert
        BY <3>1 DEF Fine
      <3> QED
        BY <1>1, <3>1, <3>2, Pairs
    <2> HIDE DEF new
    <2>2. Len(new) = 2 /\ \A j \in 1..Len(new) : Fine(new[j])
      BY <2>1
    <2>3. new \in Seq(Alert)
      BY <2>1 DEF Fine
    <2> QED
      BY <2>2, <2>3 DEF Fine, new
  <1>6. CASE 100 * s.failed > s.failed + s.ingested /\ ~(twice > 0 /\ 20 * s.p99 > 11 * twice)
    <2>1. new = <<r>> /\ Fine(r)
      <3>1. fail = <<r>> /\ drift = <<>> /\ Fine(r)
        BY <1>3, <1>6
      <3>2. r \in Alert
        BY <3>1 DEF Fine
      <3> QED
        BY <1>1, <3>1, <3>2, Pairs
    <2> HIDE DEF new
    <2>2. Len(new) = 1 /\ \A j \in 1..Len(new) : Fine(new[j])
      BY <2>1
    <2>3. new \in Seq(Alert)
      BY <2>1 DEF Fine
    <2> QED
      BY <2>2, <2>3 DEF Fine, new
  <1>7. CASE ~(100 * s.failed > s.failed + s.ingested) /\ (twice > 0 /\ 20 * s.p99 > 11 * twice)
    <2>1. new = <<d>> /\ Fine(d)
      <3>1. fail = <<>> /\ drift = <<d>> /\ Fine(d)
        BY <1>4, <1>7
      <3>2. d \in Alert
        BY <3>1 DEF Fine
      <3> QED
        BY <1>1, <3>1, <3>2, Pairs
    <2> HIDE DEF new
    <2>2. Len(new) = 1 /\ \A j \in 1..Len(new) : Fine(new[j])
      BY <2>1
    <2>3. new \in Seq(Alert)
      BY <2>1 DEF Fine
    <2> QED
      BY <2>2, <2>3 DEF Fine, new
  <1>8. CASE ~(100 * s.failed > s.failed + s.ingested) /\ ~(twice > 0 /\ 20 * s.p99 > 11 * twice)
    <2>1. new = <<>>
      BY <1>1, <1>8
    <2> HIDE DEF new
    <2> QED
      BY <2>1 DEF new
  <1> QED
    BY <1>5, <1>6, <1>7, <1>8

LEMMA SoakStep == SoakInv /\ [SoakNext]_soakVars => SoakInv'
  <1> SUFFICES ASSUME SoakInv, [SoakNext]_soakVars PROVE SoakInv'
    OBVIOUS
  <1>1. CASE UNCHANGED <<snapshots, alerts, files>>
    <2>2. \A t, i, p : FileOf(t, i, p)' <=> FileOf(t, i, p)
      BY <1>1 DEF FileOf
    <2> QED
      BY <1>1, <2>2 DEF SoakInv
  <1>2. ASSUME NEW s \in Snapshot, NEW wrote \in BOOLEAN, Take(s, wrote) PROVE SoakInv'
    <2> DEFINE ss == Append(snapshots, s)
               new == detect(ss, s)
    <2>0. PICK n, m : n = Len(snapshots) /\ m = Len(alerts)
      OBVIOUS
    <2> USE <2>0
    <2>1. /\ snapshots' = ss /\ alerts' = alerts \o new
          /\ files' = IF wrote THEN [t \in DOMAIN files \cup {s.at} |->
                                       IF t = s.at THEN [snap |-> s, alerts |-> new] ELSE files[t]]
                               ELSE files
      BY <1>2 DEF Take
    <2>2. /\ snapshots \in Seq(Snapshot) /\ alerts \in Seq(Alert) /\ n \in Nat /\ m \in Nat
      BY DEF SoakInv
    <2>3. /\ ss \in Seq(Snapshot) /\ Len(ss) = n + 1 /\ ss # <<>> /\ ss[n + 1] = s
          /\ \A i \in 1..n : ss[i] = snapshots[i]
      BY <2>2, AppendProperties, EmptySeq
    <2> HIDE DEF ss
    <2>4. /\ new \in Seq(Alert) /\ Len(new) \in Nat
          /\ \A j \in 1..Len(new) : new[j] \in Alert /\ new[j].of = n + 1
      BY <2>3, Detected
    <2>5. \A j \in 1..Len(new) : new[j].kind = "p99_drift" =>
             LET win == Window(ss, s.at)
                 low == {i \in win : IF new[j].severity = "CRITICAL" THEN 4 * s.p99 > 5 * ss[i].p99
                                                                   ELSE 10 * s.p99 > 11 * ss[i].p99}
             IN  Cardinality(win) >= 3 /\ 2 * Cardinality(low) >= Cardinality(win)
      BY <2>3, Detected
    <2> HIDE DEF new
    <2>6. /\ alerts' \in Seq(Alert) /\ Len(alerts') = m + Len(new)
          /\ \A k \in 1..m : k \in 1..Len(alerts') /\ alerts'[k] = alerts[k]
          /\ \A j \in 1..Len(new) : m + j \in 1..Len(alerts') /\ alerts'[m + j] = new[j]
      <3>1. /\ alerts \o new \in Seq(Alert) /\ Len(alerts \o new) = m + Len(new)
            /\ \A k \in 1..(m + Len(new)) :
                  (alerts \o new)[k] = IF k <= m THEN alerts[k] ELSE new[k - m]
        BY <2>2, <2>4, ConcatProperties
      <3>2. \A k \in 1..m : k \in 1..(m + Len(new)) /\ k <= m
        BY <2>2, <2>4
      <3>3. \A j \in 1..Len(new) : m + j \in 1..(m + Len(new)) /\ ~(m + j <= m) /\ m + j - m = j
        BY <2>2, <2>4
      <3> QED
        BY <2>1, <3>1, <3>2, <3>3
    <2>7. \A k \in 1..Len(alerts') : k \in 1..m \/ \E j \in 1..Len(new) : k = m + j
      <3> SUFFICES ASSUME NEW k \in 1..Len(alerts'), k \notin 1..m
                   PROVE  \E j \in 1..Len(new) : k = m + j
        OBVIOUS
      <3>1. k - m \in 1..Len(new) /\ k = m + (k - m)
        BY <2>2, <2>4, <2>6
      <3> QED
        BY <3>1
    <2>8. ASSUME NEW k \in 1..Len(alerts')
          PROVE  alerts'[k].of \in 1..Len(snapshots') /\ Justified(ss, alerts'[k])
      <3>1. CASE k \in 1..m
        <4>1. PICK a : /\ a = alerts'[k] /\ a.of \in 1..n /\ Justified(snapshots, a)
          BY <2>6, <3>1 DEF SoakInv
        <4>2. \A i \in 1..a.of : ss[i] = snapshots[i]
          BY <2>2, <2>3, <4>1
        <4>3. a.of \in 1..a.of /\ \A i \in 1..(a.of - 1) : i \in 1..a.of
          BY <2>2, <4>1
        <4>4. Earlier(ss, a) = Earlier(snapshots, a)
          BY <4>2, <4>3 DEF Earlier
        <4>5. Lower(ss, a) = Lower(snapshots, a)
          <5>1. \A i \in Earlier(ss, a) : i \in 1..(a.of - 1)
            BY DEF Earlier
          <5> QED
            BY <4>2, <4>3, <4>4, <5>1 DEF Lower
        <4>6. Justified(ss, a)
          BY <4>1, <4>4, <4>5 DEF Justified
        <4>7. a.of \in 1..Len(snapshots')
          BY <2>1, <2>2, <2>3, <4>1
        <4> QED
          BY <4>1, <4>6, <4>7
      <3>2. CASE \E j \in 1..Len(new) : k = m + j
        <4>1. PICK j \in 1..Len(new) : k = m + j
          BY <3>2
        <4>2. PICK a : a = new[j] /\ alerts'[k] = a /\ a.of = n + 1
          BY <2>4, <2>6, <4>1
        <4>3. a.kind = "p99_drift" =>
                LET win == Window(ss, s.at)
                    low == {i \in win : IF a.severity = "CRITICAL" THEN 4 * s.p99 > 5 * ss[i].p99
                                                                  ELSE 10 * s.p99 > 11 * ss[i].p99}
                IN  Cardinality(win) >= 3 /\ 2 * Cardinality(low) >= Cardinality(win)
          BY <2>5, <4>2
        <4>4. ss[a.of] = s /\ a.of - 1 = n
          BY <2>1, <2>2, <2>3, <4>2
        <4>5. Earlier(ss, a) = Window(ss, s.at)
          <5>1. Earlier(ss, a) = {i \in 1..n : ss[i].at < s.at /\ ss[i].at > s.at - AnomalyWindow}
            BY <2>1, <4>4 DEF Earlier
          <5>2. \A i \in 1..Len(ss) : i \in 1..n \/ i = n + 1
            BY <2>2, <2>3
          <5>3. \A i \in 1..n : i \in 1..Len(ss)
            BY <2>2, <2>3
          <5>4. ~(ss[n + 1].at < s.at)
            <6>1. s.at \in Nat
              BY DEF Snapshot
            <6> QED
              BY <2>3, <6>1
          <5> QED
            BY <5>1, <5>2, <5>3, <5>4 DEF Window
        <4>6. Lower(ss, a) = {i \in Window(ss, s.at) : IF a.severity = "CRITICAL" THEN 4 * s.p99 > 5 * ss[i].p99
                                                      ELSE 10 * s.p99 > 11 * ss[i].p99}
          BY <2>1, <4>4, <4>5 DEF Lower
        <4>7. Justified(ss, a)
          BY <4>3, <4>5, <4>6 DEF Justified
        <4>8. a.of \in 1..Len(snapshots')
          BY <2>1, <2>2, <2>3, <4>2
        <4> QED
          BY <4>2, <4>7, <4>8
      <3> QED
        BY <2>7, <3>1, <3>2
    <2>9. ASSUME NEW t \in DOMAIN files, files'[t] = files[t]
          PROVE  /\ files'[t].alerts \in Seq(Alert)
                 /\ \E i \in 1..Len(snapshots'), p \in 0..(Len(alerts') - Len(files'[t].alerts)) :
                       FileOf(t, i, p)'
      <3> DEFINE own == files[t].alerts
                 l == Len(own)
      <3>1. own \in Seq(Alert) /\ l \in Nat
        BY DEF SoakInv
      <3>2. PICK i \in 1..n, p \in 0..(m - l) : FileOf(t, i, p)
        BY DEF SoakInv
      <3>3. i \in 1..Len(snapshots') /\ p \in 0..(Len(alerts') - l) /\ i # n + 1 /\ p \in Nat /\ p + l <= m
        <4>1. i \in 1..Len(snapshots') /\ i # n + 1
          BY <2>1, <2>2, <2>3
        <4>2. p \in Nat /\ p + l <= m
          BY <2>2, <3>1
        <4>3. p \in 0..(Len(alerts') - l)
          <5>1. Len(new) \in Nat /\ Len(alerts') = m + Len(new)
            BY <2>4, <2>6
          <5> HIDE DEF l
          <5> QED
            BY <2>2, <3>1, <4>2, <5>1
        <4> QED
          BY <4>1, <4>2, <4>3
      <3>4. snapshots'[i] = snapshots[i]
        BY <2>1, <2>3
      <3>5. \A j \in 1..l : p + j \in 1..m
        BY <2>2, <3>1, <3>3
      <3>6. \A j \in 1..l : own[j] = alerts'[p + j]
        BY <2>6, <3>2, <3>5 DEF FileOf
      <3>7. ASSUME NEW k \in 1..Len(alerts')
            PROVE  alerts'[k].of = i <=> k \in (p + 1)..(p + l)
        <4>1. CASE k \in 1..m
          BY <2>6, <3>2, <4>1 DEF FileOf
        <4>2. CASE \E j \in 1..Len(new) : k = m + j
          <5>1. alerts'[k].of = n + 1
            BY <2>4, <2>6, <4>2
          <5>2. k \notin (p + 1)..(p + l)
            BY <2>2, <2>4, <3>1, <3>3, <4>2
          <5> QED
            BY <3>3, <5>1, <5>2
        <4> QED
          BY <2>7, <4>1, <4>2
      <3>8. FileOf(t, i, p)'
        BY <2>9, <3>2, <3>4, <3>6, <3>7 DEF FileOf
      <3> QED
        BY <2>9, <3>1, <3>3, <3>8
    <2>10. ASSUME NEW t, t = s.at, files'[t] = [snap |-> s, alerts |-> new]
           PROVE  /\ files'[t].alerts \in Seq(Alert)
                  /\ \E i \in 1..Len(snapshots'), p \in 0..(Len(alerts') - Len(files'[t].alerts)) :
                        FileOf(t, i, p)'
      <3>1. files'[t].alerts = new /\ files'[t].snap = s
        BY <2>10
      <3>2. n + 1 \in 1..Len(snapshots') /\ m \in 0..(Len(alerts') - Len(new))
        BY <2>1, <2>2, <2>3, <2>4, <2>6
      <3>3. snapshots'[n + 1] = s
        BY <2>1, <2>3
      <3>4. ASSUME NEW k \in 1..Len(alerts')
            PROVE  alerts'[k].of = n + 1 <=> k \in (m + 1)..(m + Len(new))
        <4>1. CASE k \in 1..m
          <5>1. alerts'[k] = alerts[k] /\ alerts[k].of \in 1..n
            BY <2>6, <4>1 DEF SoakInv
          <5>2. alerts'[k].of # n + 1
            BY <2>2, <5>1
          <5>3. k \notin (m + 1)..(m + Len(new))
            BY <2>2, <2>4, <4>1
          <5> QED
            BY <5>2, <5>3
        <4>2. CASE \E j \in 1..Len(new) : k = m + j
          <5>1. alerts'[k].of = n + 1
            BY <2>4, <2>6, <4>2
          <5>2. k \in (m + 1)..(m + Len(new))
            BY <2>2, <2>4, <4>2
          <5> QED
            BY <5>1, <5>2
        <4> QED
          BY <2>7, <4>1, <4>2
      <3>5. FileOf(t, n + 1, m)'
        BY <2>6, <2>10, <3>1, <3>3, <3>4 DEF FileOf
      <3> QED
        BY <2>4, <3>1, <3>2, <3>5
    <2>11. ASSUME NEW t \in DOMAIN files'
           PROVE  \/ t \in DOMAIN files /\ files'[t] = files[t]
                  \/ t = s.at /\ files'[t] = [snap |-> s, alerts |-> new]
      BY <2>1
    <2> QED
      BY <2>1, <2>3, <2>6, <2>8, <2>9, <2>10, <2>11 DEF SoakInv
  <1>3. CASE SoakNext
    <2>1. CASE Save
      BY <1>1, <2>1 DEF Save
    <2>2. ASSUME NEW s \in Snaps, NEW t \in Times, NEW wrote \in BOOLEAN,
                 Take([at |-> t, p99 |-> s.p99, failed |-> s.failed, ingested |-> s.ingested], wrote)
          PROVE  SoakInv'
      <3>1. [at |-> t, p99 |-> s.p99, failed |-> s.failed, ingested |-> s.ingested] \in Snapshot
        BY SoakAssumption DEF Snapshot, Times
      <3> QED
        BY <1>2, <2>2, <3>1
    <2> QED
      BY <1>3, <2>1, <2>2 DEF SoakNext
  <1> QED
    BY <1>1, <1>3 DEF soakVars

-----------------------------------------------------------------------------
(***************************************************************************)
(* The three in the composition of Support, whose steps are steps of one   *)
(* part and leave the others alone.                                        *)
(***************************************************************************)

\* The composition the run checks: the credentials of ServiceAuth.
THEOREM Credentials == Spec => []CredentialsSound
  <1>1. Init => AuthInit
    BY DEF Init
  <1>2. [Next]_vars => [AuthNext]_authVars
    BY DEF Next, vars
  <1>3. AuthInv => CredentialsSound
    BY DEF AuthInv, CacheInv, CallInv, Call, CredentialsSound, AuthTypeOK
  <1> QED
    BY <1>1, <1>2, <1>3, AuthInitInv, AuthStep, PTL DEF Spec

\* The composition the run checks: the faults of Chaos.
THEOREM Faults == Spec => []FaultsContained
  <1>1. Init => NewScheduler
    BY DEF Init
  <1>2. [Next]_vars => [ChaosNext]_chaosVars
    BY DEF Next, vars
  <1> QED
    BY <1>1, <1>2, ChaosInitInv, ChaosStep, Contained, PTL DEF Spec

\* The monitor's alerts and files, for any snapshots, window and failing writes:
\* a drift alert has three earlier snapshots in its window and half of them lie
\* below by its margin, and a file holds a snapshot with the alerts it raised.
THEOREM Snapshots == Spec => []SnapshotsSound
  <1>1. Init => SoakInv
    <2>1. SoakInit => SoakInv
      <3> SUFFICES ASSUME SoakInit PROVE SoakInv
        OBVIOUS
      <3>1. snapshots = <<>> /\ alerts = <<>> /\ DOMAIN files = {}
        BY DEF SoakInit
      <3>2. Len(alerts) = 0
        BY <3>1
      <3> QED
        BY <3>1, <3>2 DEF SoakInv
    <2> QED
      BY <2>1 DEF Init
  <1>2. [Next]_vars => [SoakNext]_soakVars
    BY DEF Next, vars
  <1> QED
    BY <1>1, <1>2, SoakStep, SoakHolds, PTL DEF Spec

LEMMA Validated == Spec => []ValidInv
  <1>1. Init => ValidInv
    <2> SUFFICES ASSUME Init PROVE ValidInv
      OBVIOUS
    <2>1. /\ world \in Worlds /\ pos = NextCheck(1) /\ stage = "next" /\ verdicts = <<>>
          /\ fires = [x \in Calls |-> "idle"]
      BY WorldAssumption DEF Init, ValidateInit
    <2>2. verdicts \in Seq(ReportRow) /\ Len(verdicts) = 0
      BY <2>1
    <2>3. fires \in [Calls -> FireStates]
      BY <2>1 DEF FireStates
    <2>4. pos \in Nat
      <3>1. 1 \in Nat
        OBVIOUS
      <3> QED
        BY <2>1, <3>1, NextFound
    <2>5. ReportInv /\ FireInv /\ ScanInv
      BY <2>1, <2>2, <2>3, <2>4 DEF ReportInv, FireInv, ScanInv
    <2>6. LockSound /\ LifecycleSound
      BY <2>2 DEF LockSound, LifecycleSound, PassedAsked
    <2> QED
      BY <2>5, <2>6 DEF ValidInv
  <1>2. [Next]_vars => [ValidateNext]_validateVars
    BY DEF Next, vars
  <1> QED
    BY <1>1, <1>2, ValidStep, PTL DEF Spec

LEMMA Judged == Spec => []JudgedInv
  <1>1. Init => JudgedInv
    <2> SUFFICES ASSUME Init PROVE JudgedInv
      OBVIOUS
    <2>1. /\ vctx = "live" /\ pos = NextCheck(1) /\ stage = "next" /\ verdicts = <<>> /\ rollup = NoSummary
          /\ lock = {} /\ begun = 0
      BY DEF Init, ValidateInit
    <2>2. /\ pos \in 1..Len(AllChecks) + 1 /\ (pos <= Len(AllChecks) => Wanted(pos))
          /\ \A j \in 1..Len(AllChecks) : j < pos => ~Wanted(j)
      <3>1. 1 \in Nat /\ 1 <= Len(AllChecks) + 1
        BY ListLength
      <3> QED
        BY <2>1, <3>1, NextFound
    <2>3. Before(pos) = {}
      BY <2>2 DEF Before, AskedFor
    <2>4. Len(verdicts) = 0 /\ Cardinality({}) = 0
      BY <2>1, FS_EmptySet
    <2>5. WrittenInv
      <3>1. Len(verdicts) = Cardinality(Before(pos))
        BY <2>3, <2>4
      <3>2. ~Done => Wanted(pos)
        BY <2>2, ListLength DEF Done
      <3>3. 1..Len(verdicts) = {}
        BY <2>4
      <3>4. vctx \in {"live", "done"}
        BY <2>1
      <3> QED
        BY <2>2, <3>1, <3>2, <3>3, <3>4 DEF WrittenInv
    <2>6. GivenInv
      BY <2>4 DEF GivenInv
    <2>7. TenantInv /\ SummaryInv
      BY <2>1 DEF TenantInv, SummaryInv
    <2> QED
      BY <2>5, <2>6, <2>7 DEF JudgedInv
  <1>2. [Next]_vars => [ValidateNext]_validateVars
    BY DEF Next, vars
  <1> QED
    BY <1>1, <1>2, Validated, JudgedStep, PTL DEF Spec

\* A report can be believed (Validator.Run, Finalize, the checks and runValidate): for any run, any
\* platform and any choice of checks it has one row of each, in their order, whenever the command is
\* cancelled; a row that failed makes the command fail; and a PASS is true of the platform: no more
\* lost than the tolerance and the rounding (check 1), no leak between two tenants (2), without late
\* events every rejection made although one counter is shared out over the kinds (6), every
\* transition where it was left (9), one bill run begun unless an error was misread (8 and 11).
THEOREM Verdicts == Spec => []VerdictsSound
  BY Validated, Judged, VerdictsHold, PTL

\* Checks 8 and 11 (RaceVerdict) pass only if exactly one of the two bill runs was begun and the
\* subscription kept its id, for any platform, whatever calls are lost and whenever the command is
\* cancelled, or if the words of an error were taken for a conflict (isConflict): then a second run,
\* or a migration to a new id, may be hidden, but at least one run was begun.
THEOREM RacesSound == Spec => []LockSound
  <1>1. ValidInv => LockSound
    BY DEF ValidInv
  <1> QED
    BY <1>1, Validated, PTL

\* Check 9 (runLifecycleCorrectness) passes only if the platform is where every successful transition
\* left it, for any log, although it remembers answers and does not ask twice.
THEOREM TransitionsSound == Spec => []LifecycleSound
  <1>1. ValidInv => LifecycleSound
    BY DEF ValidInv
  <1> QED
    BY <1>1, Validated, PTL

-----------------------------------------------------------------------------
(***************************************************************************)
(* The partitioned run.  More about totals, and the order of a finite set. *)
(***************************************************************************)
LEMMA WeightIsTotal == \A f : WeightOf(f) = Total(f)
  <1>1. \A f : WeightOf(f) = PartSums(f)[DOMAIN f]
    BY DEF WeightOf, FoldFunction, FoldFunctionOnSet, MapThenFoldSet, PartSums, First
  <1> QED
    BY <1>1, TotalIsPart

LEMMA TotalChanges ==
    ASSUME NEW D, IsFiniteSet(D), NEW f \in [D -> Int], NEW g \in [D -> Int], NEW z \in D,
           \A x \in D : x # z => g[x] = f[x]
    PROVE  Total(f) \in Int /\ Total(g) = Total(f) - f[z] + g[z]
  <1>1. PICK E : E = D \ {z}
    OBVIOUS
  <1>2. E \in SUBSET D /\ D \in SUBSET D
    BY <1>1
  <1>3. PICK h : h = [x \in E |-> f[x]]
    OBVIOUS
  <1>4. h \in [E -> Int] /\ (\A x \in E : h[x] = f[x]) /\ (\A x \in E : h[x] = g[x])
    BY <1>1, <1>3
  <1>5. PartSums(f)[E] = Total(h) /\ PartSums(g)[E] = Total(h)
    BY <1>2, <1>4, SameParts
  <1>6. PartSums(f)[D] = f[z] + PartSums(f)[E] /\ PartSums(g)[D] = g[z] + PartSums(g)[E]
    <2>1. PartSums(f)[D] = f[z] + PartSums(f)[D \ {z}]
      BY <1>2, TakeOut
    <2>2. PartSums(g)[D] = g[z] + PartSums(g)[D \ {z}]
      BY <1>2, TakeOut
    <2> QED
      BY <1>1, <2>1, <2>2
  <1>7. Total(f) = PartSums(f)[D] /\ Total(g) = PartSums(g)[D]
    BY PartSumsDo
  <1>8. AddsUp(PartSums(f), f, D)
    BY PartSumsDo
  <1>9. PartSums(f)[E] \in Int /\ PartSums(f)[D] \in Int
    BY <1>2, <1>8 DEF AddsUp
  <1>10. f[z] \in Int /\ g[z] \in Int
    OBVIOUS
  <1> QED
    BY <1>5, <1>6, <1>7, <1>9, <1>10

LEMMA TotalGrows ==
    ASSUME NEW D, IsFiniteSet(D), NEW z, z \notin D, NEW f \in [D -> Int], NEW g \in [D \cup {z} -> Int],
           \A x \in D : g[x] = f[x]
    PROVE  Total(f) \in Int /\ Total(g) = Total(f) + g[z]
  <1>1. PICK E : E = D \cup {z}
    OBVIOUS
  <1>2. IsFiniteSet(E) /\ z \in E /\ E \ {z} = D /\ g \in [E -> Int] /\ D \in SUBSET E /\ E \in SUBSET E
    BY <1>1, FS_AddElement
  <1>3. PartSums(g)[D] = Total(f)
    BY <1>2, SameParts
  <1>4. PartSums(g)[E] = g[z] + PartSums(g)[E \ {z}]
    BY <1>2, TakeOut
  <1>5. Total(g) = PartSums(g)[E] /\ AddsUp(PartSums(g), g, E)
    BY <1>2, PartSumsDo
  <1>6. PartSums(g)[D] \in Int
    BY <1>2, <1>5 DEF AddsUp
  <1>7. g[z] \in Int
    BY <1>2
  <1>8. PartSums(g)[E] = g[z] + Total(f)
    BY <1>2, <1>3, <1>4
  <1>9. Total(f) \in Int
    BY <1>3, <1>6
  <1>10. Total(g) = g[z] + Total(f)
    BY <1>5, <1>8
  <1> QED
    BY <1>7, <1>9, <1>10

LEMMA TotalOfNone ==
    ASSUME NEW f, DOMAIN f = {}
    PROVE  Total(f) = 0
  <1> DEFINE Is(it) == it = [s \in SUBSET {} |-> IF s = {} THEN 0 ELSE f[First(s)] + it[s \ {First(s)}]]
  <1>3. Is([s \in SUBSET {} |-> 0])
    OBVIOUS
  <1>4. PartSums(f) = CHOOSE it : Is(it)
    BY DEF PartSums
  <1>5. Is(PartSums(f))
    <2> HIDE DEF Is
    <2> QED
      BY <1>3, <1>4
  <1>6. PartSums(f)[{}] = 0
    BY <1>5
  <1> QED
    BY <1>6, TotalIsPart

\* The elements of a finite set by how many precede them.
Preceding(S, key, x) == {y \in S : key[y] < key[x]}

LEMMA Ranks ==
    ASSUME NEW S, IsFiniteSet(S), NEW key, \A x \in S : key[x] \in Int,
           \A x, y \in S : key[x] = key[y] => x = y
    PROVE  /\ \A x \in S : Cardinality(Preceding(S, key, x)) \in 0 .. Cardinality(S) - 1
           /\ \A x, y \in S : Cardinality(Preceding(S, key, x)) = Cardinality(Preceding(S, key, y)) => x = y
           /\ \A k \in 1..Cardinality(S) : \E x \in S : Cardinality(Preceding(S, key, x)) = k - 1
  <1>0. Cardinality(S) \in Nat
    BY FS_CardinalityType
  <1>1. ASSUME NEW x \in S
        PROVE  /\ IsFiniteSet(Preceding(S, key, x)) /\ Cardinality(Preceding(S, key, x)) \in Nat
               /\ Preceding(S, key, x) \subseteq S
    BY FS_Subset, FS_CardinalityType DEF Preceding
  <1>2. ASSUME NEW x \in S PROVE Cardinality(Preceding(S, key, x)) \in 0 .. Cardinality(S) - 1
    <2>1. Preceding(S, key, x) \in SUBSET (S \ {x})
      BY DEF Preceding
    <2>2. IsFiniteSet(S \ {x}) /\ Cardinality(S \ {x}) = Cardinality(S) - 1
      BY FS_RemoveElement
    <2>3. Cardinality(Preceding(S, key, x)) <= Cardinality(S) - 1
      BY <2>1, <2>2, FS_Subset
    <2> QED
      BY <1>0, <1>1, <2>3
  <1>3. ASSUME NEW x \in S, NEW y \in S, key[x] < key[y]
        PROVE  Cardinality(Preceding(S, key, x)) # Cardinality(Preceding(S, key, y))
    <2>1. Preceding(S, key, x) \in SUBSET Preceding(S, key, y)
      BY <1>3 DEF Preceding
    <2>2. x \in Preceding(S, key, y) /\ x \notin Preceding(S, key, x)
      BY <1>3 DEF Preceding
    <2>3. IsFiniteSet(Preceding(S, key, y))
      BY <1>1
    <2> QED
      BY <2>1, <2>2, <2>3, FS_Subset
  <1>4. ASSUME NEW x \in S, NEW y \in S, Cardinality(Preceding(S, key, x)) = Cardinality(Preceding(S, key, y))
        PROVE  x = y
    <2>1. ~(key[x] < key[y]) /\ ~(key[y] < key[x])
      BY <1>3, <1>4
    <2>2. key[x] \in Int /\ key[y] \in Int
      OBVIOUS
    <2>3. key[x] = key[y]
      BY <2>1, <2>2
    <2> QED
      BY <2>3
  <1>5. ASSUME NEW k \in 1..Cardinality(S) PROVE \E x \in S : Cardinality(Preceding(S, key, x)) = k - 1
    <2>1. PICK T : T = 0 .. Cardinality(S) - 1
      OBVIOUS
    <2>2. PICK f : f = [x \in S |-> Cardinality(Preceding(S, key, x))]
      OBVIOUS
    <2>3. f \in [S -> T] /\ \A x \in S : f[x] = Cardinality(Preceding(S, key, x))
      BY <1>2, <2>1, <2>2
    <2>4. f \in Injection(S, T)
      <3>1. \A x, y \in S : f[x] = f[y] => x = y
        BY <1>4, <2>3
      <3> QED
        BY <2>3, <3>1 DEF Injection, IsInjective
    <2>5. IsFiniteSet(T) /\ Cardinality(T) = Cardinality(S)
      <3>1. 0 \in Int /\ Cardinality(S) - 1 \in Int
        BY <1>0
      <3>2. IsFiniteSet(T) /\ Cardinality(T) = IF 0 > Cardinality(S) - 1 THEN 0 ELSE Cardinality(S) - 1 - 0 + 1
        BY <2>1, <3>1, FS_Interval
      <3> QED
        BY <1>0, <3>2
    <2>6. f \in Surjection(S, T)
      BY <2>4, <2>5, FS_Injection
    <2>7. k - 1 \in T
      BY <1>0, <2>1
    <2>8. PICK x \in S : f[x] = k - 1
      BY <2>6, <2>7 DEF Surjection
    <2> QED
      BY <2>3, <2>8
  <1> QED
    BY <1>2, <1>4, <1>5

\* SortedBy lists every element once.
LEMMA Sorted1 ==
    ASSUME NEW S, IsFiniteSet(S), NEW key, \A x \in S : key[x] \in Int,
           \A x, y \in S : key[x] = key[y] => x = y
    PROVE  /\ SortedBy(S, key) \in [1..Cardinality(S) -> S] /\ Cardinality(S) \in Nat
           /\ \A i, j \in 1..Cardinality(S) : SortedBy(S, key)[i] = SortedBy(S, key)[j] => i = j
           /\ \A x \in S : \E i \in 1..Cardinality(S) : SortedBy(S, key)[i] = x
  <1>0. Cardinality(S) \in Nat
    BY FS_CardinalityType
  <1>1. /\ \A x \in S : Cardinality(Preceding(S, key, x)) \in 0 .. Cardinality(S) - 1
        /\ \A x, y \in S : Cardinality(Preceding(S, key, x)) = Cardinality(Preceding(S, key, y)) => x = y
        /\ \A k \in 1..Cardinality(S) : \E x \in S : Cardinality(Preceding(S, key, x)) = k - 1
    BY Ranks
  <1>2. PICK s : s = SortedBy(S, key)
    OBVIOUS
  <1>3. s = [k \in 1..Cardinality(S) |-> CHOOSE x \in S : Cardinality(Preceding(S, key, x)) = k - 1]
    BY <1>2, Zenon DEF SortedBy, Preceding
  <1>4. ASSUME NEW k \in 1..Cardinality(S) PROVE s[k] \in S /\ Cardinality(Preceding(S, key, s[k])) = k - 1
    <2>1. s[k] = CHOOSE x \in S : Cardinality(Preceding(S, key, x)) = k - 1
      BY <1>3
    <2>2. \E x \in S : Cardinality(Preceding(S, key, x)) = k - 1
      BY <1>1
    <2> QED
      BY <2>1, <2>2, Zenon
  <1>5. s \in [1..Cardinality(S) -> S]
    BY <1>3, <1>4
  <1>6. ASSUME NEW i \in 1..Cardinality(S), NEW j \in 1..Cardinality(S), s[i] = s[j] PROVE i = j
    <2>1. i - 1 = j - 1
      BY <1>4, <1>6
    <2> QED
      BY <1>0, <2>1
  <1>7. ASSUME NEW x \in S PROVE \E i \in 1..Cardinality(S) : s[i] = x
    <2>1. PICK k : k = Cardinality(Preceding(S, key, x)) + 1
      OBVIOUS
    <2>2. Cardinality(Preceding(S, key, x)) \in 0 .. Cardinality(S) - 1
      BY <1>1
    <2>3. k \in 1..Cardinality(S) /\ k - 1 = Cardinality(Preceding(S, key, x))
      BY <1>0, <2>1, <2>2
    <2>4. s[k] = x
      BY <1>1, <1>4, <2>3
    <2> QED
      BY <2>3, <2>4
  <1> QED
    BY <1>0, <1>2, <1>5, <1>6, <1>7

-----------------------------------------------------------------------------
(* partitionManifest. *)

LEMMA LowestOf ==
    ASSUME NEW S \in SUBSET Nat, S # {}
    PROVE  FirstOf(S) \in S /\ \A j \in S : FirstOf(S) <= j
  <1> DEFINE R == OpToRel(<, Nat)
  <1>1. IsWellFoundedOn(R, Nat)
    BY NatLessThanWellFounded
  <1>2. \A y, x \in Nat : y < x => <<y, x>> \in R
    BY DEF OpToRel
  <1> HIDE DEF R
  <1>3. PICK x \in S : \A y \in S : ~(<<y, x>> \in R)
    BY <1>1, WFMin
  <1>4. ASSUME NEW y \in S PROVE x <= y
    <2>1. x \in Nat /\ y \in Nat
      OBVIOUS
    <2>2. ~(y < x)
      BY <1>2, <1>3, <2>1
    <2> QED
      BY <2>1, <2>2
  <1>5. \E i \in S : \A j \in S : i <= j
    BY <1>4
  <1>6. FirstOf(S) = CHOOSE i \in S : \A j \in S : i <= j
    BY DEF FirstOf
  <1> QED
    BY <1>5, <1>6, Zenon

\* A list without repetitions.
Distinct(c) == \A i, j \in 1..Len(c) : c[i] = c[j] => i = j

LEMMA Listed ==
    ASSUME NEW R, NEW c \in Seq(R)
    PROVE  /\ Len(c) \in Nat /\ DOMAIN c = 1..Len(c) /\ c \in [1..Len(c) -> R]
           /\ Range(c) \subseteq R /\ IsFiniteSet(Range(c))
           /\ Range(c) = {c[i] : i \in 1..Len(c)}
           /\ Distinct(c) => Cardinality(Range(c)) = Len(c)
           /\ (c = <<>> <=> Len(c) = 0)
  <1>1. Len(c) \in Nat /\ DOMAIN c = 1..Len(c) /\ c \in [1..Len(c) -> R] /\ (c = <<>> <=> Len(c) = 0)
    OBVIOUS
  <1>2. Range(c) = {c[i] : i \in 1..Len(c)}
    BY <1>1 DEF Range
  <1>3. PICK D : D = 1..Len(c)
    OBVIOUS
  <1>4. IsFiniteSet(D) /\ Cardinality(D) = Len(c)
    <2>1. 1 \in Int /\ Len(c) \in Int
      BY <1>1
    <2>2. IsFiniteSet(D) /\ Cardinality(D) = IF 1 > Len(c) THEN 0 ELSE Len(c) - 1 + 1
      BY <1>3, <2>1, FS_Interval
    <2> QED
      BY <1>1, <2>2
  <1>5. c \in Surjection(D, Range(c))
    <2>1. c \in [D -> Range(c)]
      BY <1>1, <1>2, <1>3
    <2>2. \A t \in Range(c) : \E i \in D : c[i] = t
      BY <1>2, <1>3
    <2> QED
      BY <2>1, <2>2 DEF Surjection
  <1>6. IsFiniteSet(Range(c)) /\ (Cardinality(Range(c)) = Cardinality(D) <=> c \in Injection(D, Range(c)))
    BY <1>4, <1>5, FS_Surjection
  <1>7. Distinct(c) => c \in Injection(D, Range(c))
    <2> SUFFICES ASSUME Distinct(c) PROVE c \in Injection(D, Range(c))
      OBVIOUS
    <2>1. c \in [D -> Range(c)]
      BY <1>1, <1>2, <1>3
    <2>2. \A x, y \in D : c[x] = c[y] => x = y
      BY <1>3 DEF Distinct
    <2> QED
      BY <2>1, <2>2 DEF Injection, IsInjective
  <1>8. Range(c) \subseteq R
    BY <1>1, <1>2
  <1> QED
    BY <1>1, <1>2, <1>4, <1>6, <1>7, <1>8

\* What makes the tenants R tell apart.
KeysDiffer(R) ==
    /\ \A t \in R : t.ext \in Int
    /\ \A t, u \in R : t.ext = u.ext => t = u

LEMMA Finalized ==
    ASSUME NEW R, KeysDiffer(R), NEW c \in Seq(R), Distinct(c)
    PROVE  /\ FinalizeChunk(c) \in Seq(R) /\ Distinct(FinalizeChunk(c))
           /\ Range(FinalizeChunk(c)) = Range(c) /\ Len(FinalizeChunk(c)) = Len(c)
  <1>1. PICK S : S = Range(c)
    OBVIOUS
  <1>2. PICK key : key = [t \in S |-> t.ext]
    OBVIOUS
  <1>3. PICK n : n = Cardinality(S)
    OBVIOUS
  <1>4. IsFiniteSet(S) /\ S \subseteq R /\ n = Len(c)
    BY <1>1, <1>3, Listed
  <1>5. /\ \A x \in S : key[x] \in Int
        /\ \A x, y \in S : key[x] = key[y] => x = y
    BY <1>2, <1>4 DEF KeysDiffer
  <1>6. PICK f : f = SortedBy(S, key)
    OBVIOUS
  <1>7. /\ f \in [1..n -> S] /\ n \in Nat
        /\ \A i, j \in 1..n : f[i] = f[j] => i = j
        /\ \A x \in S : \E i \in 1..n : f[i] = x
    <2>1. /\ SortedBy(S, key) \in [1..Cardinality(S) -> S] /\ Cardinality(S) \in Nat
          /\ \A i, j \in 1..Cardinality(S) : SortedBy(S, key)[i] = SortedBy(S, key)[j] => i = j
          /\ \A x \in S : \E i \in 1..Cardinality(S) : SortedBy(S, key)[i] = x
      BY <1>4, <1>5, Sorted1
    <2> QED
      BY <1>3, <1>6, <2>1, Zenon
  <1>8. f \in Seq(R) /\ Len(f) = n /\ DOMAIN f = 1..n
    <2>1. f \in [1..n -> R]
      BY <1>4, <1>7
    <2> QED
      BY <1>7, <2>1
  <1>9. Range(f) = S
    BY <1>7, <1>8 DEF Range
  <1>10. Distinct(f)
    BY <1>7, <1>8 DEF Distinct
  <1>11. FinalizeChunk(c) = f
    BY <1>1, <1>2, <1>6 DEF FinalizeChunk
  <1> QED
    BY <1>1, <1>4, <1>8, <1>9, <1>10, <1>11

\* Everybody is in one partition, once.
Parted(cs, R, n) ==
    /\ cs \in [1..n -> Seq(R)]
    /\ \A c \in 1..n : Distinct(cs[c])
    /\ \A t \in R : \E c \in 1..n : t \in Range(cs[c])
    /\ \A c, d \in 1..n : c # d => Range(cs[c]) \cap Range(cs[d]) = {}

LEMMA LargestIs ==
    ASSUME NEW R, NEW n \in Nat \ {0}, NEW cs \in [1..n -> Seq(R)]
    PROVE  Largest(cs) \in 1..n /\ \A j \in 1..n : Len(cs[Largest(cs)]) >= Len(cs[j])
  <1>1. PICK D : D = 1..n
    OBVIOUS
  <1>2. IsFiniteSet(D)
    BY <1>1, FS_Interval
  <1>3. PICK L : L = [c \in D |-> Len(cs[c])]
    OBVIOUS
  <1>4. L \in [D -> Nat] /\ \A c \in D : L[c] = Len(cs[c])
    BY <1>1, <1>3
  <1> DEFINE P == {s \in SUBSET D : s # {} => \E i \in s : \A j \in s : L[i] >= L[j]}
  <1>5. {} \in P
    OBVIOUS
  <1>6. ASSUME NEW s \in SUBSET D, s # {}, \A x \in s : s \ {x} \in P PROVE s \in P
    <2>1. PICK x \in s : TRUE
      BY <1>6
    <2>2. CASE s \ {x} = {}
      <3>1. \A j \in s : j = x
        BY <2>2
      <3>2. L[x] \in Nat
        BY <1>4
      <3> QED
        BY <3>1, <3>2
    <2>3. CASE s \ {x} # {}
      <3>1. PICK i \in s \ {x} : \A j \in s \ {x} : L[i] >= L[j]
        BY <1>6, <2>3
      <3>2. \A j \in s : L[j] \in Nat
        BY <1>4
      <3>3. CASE L[i] >= L[x]
        BY <3>1, <3>3
      <3>4. CASE ~(L[i] >= L[x])
        <4>1. \A j \in s : L[x] >= L[j]
          BY <3>1, <3>2, <3>4
        <4> QED
          BY <4>1
      <3> QED
        BY <3>3, <3>4
    <2> QED
      BY <2>2, <2>3
  <1> HIDE DEF P
  <1>7. D \in P
    BY <1>2, <1>5, <1>6, PartInduction
  <1>8. PICK S : S = {i \in DOMAIN cs : \A j \in DOMAIN cs : Len(cs[i]) >= Len(cs[j])}
    OBVIOUS
  <1>9. 1 \in D
    BY <1>1
  <1>10. PICK i \in D : \A j \in D : L[i] >= L[j]
    BY <1>7, <1>9 DEF P
  <1>11. i \in S
    BY <1>1, <1>4, <1>8, <1>10
  <1>12. FirstOf(S) \in S
    <2>1. S \in SUBSET Nat
      BY <1>8
    <2> QED
      BY <1>11, <2>1, LowestOf
  <1>13. Largest(cs) = FirstOf(S)
    BY <1>8 DEF Largest
  <1> QED
    BY <1>8, <1>12, <1>13

\* With no more partitions than tenants, an empty one means that another has two.
LEMMA SomebodyToMove ==
    ASSUME NEW R, IsFiniteSet(R), NEW n \in Nat \ {0}, n <= Cardinality(R), NEW cs, Parted(cs, R, n),
           NEW e \in 1..n, cs[e] = <<>>
    PROVE  \E c \in 1..n : Len(cs[c]) > 1
  <1> SUFFICES ASSUME \A c \in 1..n : ~(Len(cs[c]) > 1) PROVE FALSE
    OBVIOUS
  <1>1. PICK D, T : D = 1..n /\ T = D \ {e}
    OBVIOUS
  <1>2. IsFiniteSet(T) /\ Cardinality(T) = n - 1
    <2>1. 1 \in Int /\ n \in Int
      OBVIOUS
    <2>2. IsFiniteSet(D) /\ Cardinality(D) = IF 1 > n THEN 0 ELSE n - 1 + 1
      BY <1>1, <2>1, FS_Interval
    <2>3. Cardinality(D) = n /\ e \in D
      BY <1>1, <2>2
    <2> QED
      BY <1>1, <2>2, <2>3, FS_RemoveElement
  <1>3. ASSUME NEW t \in R PROVE \E c \in T : t \in Range(cs[c])
    <2>1. PICK c \in 1..n : t \in Range(cs[c])
      BY DEF Parted
    <2>2. Range(cs[e]) = {}
      BY DEF Range
    <2> QED
      BY <1>1, <2>1, <2>2
  <1>4. PICK f : f = [t \in R |-> CHOOSE c \in T : t \in Range(cs[c])]
    OBVIOUS
  <1>5. f \in [R -> T] /\ \A t \in R : t \in Range(cs[f[t]])
    BY <1>3, <1>4
  <1>6. Cardinality(R) \in Nat
    BY FS_CardinalityType
  <1>7. PICK t, u \in R : t # u /\ f[t] = f[u]
    <2>1. Cardinality(T) < Cardinality(R)
      BY <1>2, <1>6
    <2> QED
      BY <1>2, <1>5, <2>1, FS_PigeonHole
  <1>8. PICK c : c = f[t]
    OBVIOUS
  <1>9. c \in 1..n /\ t \in Range(cs[c]) /\ u \in Range(cs[c])
    BY <1>1, <1>5, <1>7, <1>8
  <1>10. cs[c] \in Seq(R)
    BY <1>9 DEF Parted
  <1>11. Len(cs[c]) \in Nat /\ Range(cs[c]) = {cs[c][i] : i \in 1..Len(cs[c])}
    BY <1>10, Listed
  <1>12. PICK i, j \in 1..Len(cs[c]) : t = cs[c][i] /\ u = cs[c][j]
    BY <1>9, <1>11
  <1>13. i = 1 /\ j = 1
    BY <1>9, <1>11, <1>12
  <1> QED
    BY <1>7, <1>12, <1>13

\* s lists every element of S once.
Lists(s, n, S) ==
    /\ s \in [1..n -> S] /\ n \in Nat
    /\ \A i, j \in 1..n : s[i] = s[j] => i = j
    /\ \A x \in S : \E i \in 1..n : s[i] = x

LEMMA NumbersSorted ==
    ASSUME NEW S, IsFiniteSet(S), \A x \in S : x \in Int
    PROVE  Lists(SortedBy(S, [i \in S |-> i]), Cardinality(S), S)
  <1>1. PICK key : key = [i \in S |-> i]
    OBVIOUS
  <1>2. \A x \in S : key[x] \in Int
    BY <1>1
  <1>3. \A x, y \in S : key[x] = key[y] => x = y
    BY <1>1
  <1>4. /\ SortedBy(S, key) \in [1..Cardinality(S) -> S] /\ Cardinality(S) \in Nat
        /\ \A i, j \in 1..Cardinality(S) : SortedBy(S, key)[i] = SortedBy(S, key)[j] => i = j
        /\ \A x \in S : \E i \in 1..Cardinality(S) : SortedBy(S, key)[i] = x
    BY <1>2, <1>3, Sorted1
  <1> QED
    BY <1>1, <1>4, Zenon DEF Lists

LEMMA OneLeft ==
    ASSUME NEW k \in Nat, k > 1
    PROVE  k - 1 # 0
  OBVIOUS

LEMMA PickedIs ==
    ASSUME NEW R, NEW m \in Seq(R), Distinct(m), NEW S \in SUBSET (1..Len(m))
    PROVE  /\ Picked(m, S) \in Seq(R) /\ Distinct(Picked(m, S))
           /\ Range(Picked(m, S)) = {m[i] : i \in S}
  <1>0. Len(m) \in Nat /\ m \in [1..Len(m) -> R]
    BY Listed
  <1>1. IsFiniteSet(S)
    <2>1. IsFiniteSet(1..Len(m))
      BY <1>0, FS_Interval
    <2> QED
      BY <2>1, FS_Subset
  <1>4. PICK n, s : n = Cardinality(S) /\ s = SortedBy(S, [i \in S |-> i])
    OBVIOUS
  <1>5. /\ s \in [1..n -> S] /\ n \in Nat
        /\ \A i, j \in 1..n : s[i] = s[j] => i = j
        /\ \A x \in S : \E i \in 1..n : s[i] = x
    <2>1. \A x \in S : x \in Int
      BY <1>0
    <2>2. Lists(SortedBy(S, [i \in S |-> i]), Cardinality(S), S)
      BY <1>1, <2>1, NumbersSorted
    <2>3. Lists(s, n, S)
      BY <1>4, <2>2
    <2> QED
      BY <2>3 DEF Lists
  <1>6. PICK f : f = Picked(m, S)
    OBVIOUS
  <1>7. f = [k \in 1..n |-> m[s[k]]]
    <2>1. DOMAIN s = 1..n
      BY <1>5
    <2>2. f = [k \in DOMAIN s |-> m[s[k]]]
      BY <1>4, <1>6 DEF Picked
    <2> QED
      BY <2>1, <2>2
  <1>8. \A k \in 1..n : s[k] \in 1..Len(m) /\ f[k] = m[s[k]] /\ f[k] \in R
    BY <1>0, <1>5, <1>7
  <1>9. f \in Seq(R) /\ Len(f) = n /\ DOMAIN f = 1..n
    <2>1. f \in [1..n -> R]
      BY <1>7, <1>8
    <2> QED
      BY <1>5, <2>1
  <1>10. Distinct(f)
    <2> SUFFICES ASSUME NEW i \in 1..n, NEW j \in 1..n, f[i] = f[j] PROVE i = j
      BY <1>9 DEF Distinct
    <2>1. m[s[i]] = m[s[j]] /\ s[i] \in 1..Len(m) /\ s[j] \in 1..Len(m)
      BY <1>8
    <2>2. s[i] = s[j]
      BY <2>1 DEF Distinct
    <2> QED
      BY <1>5, <2>2
  <1>11. Range(f) = {m[i] : i \in S}
    BY <1>5, <1>8, <1>9 DEF Range
  <1> QED
    BY <1>6, <1>9, <1>10, <1>11

LEMMA HashedParted ==
    ASSUME NEW R, NEW m \in Seq(R), Distinct(m), Range(m) = R, NEW n \in Nat \ {0},
           NEW hash, \A t \in R : hash[t.id] \in Nat
    PROVE  Parted(Hashed(m, hash, n), R, n)
  <1>0. Len(m) \in Nat /\ m \in [1..Len(m) -> R] /\ DOMAIN m = 1..Len(m) /\ R = {m[i] : i \in 1..Len(m)}
    BY Listed
  <1>1. PICK Q : Q = [c \in 1..n |-> {i \in DOMAIN m : hash[m[i].id] % n = c - 1}]
    OBVIOUS
  <1>2. PICK cs : cs = Hashed(m, hash, n)
    OBVIOUS
  <1>3. cs = [c \in 1..n |-> Picked(m, Q[c])]
    BY <1>1, <1>2 DEF Hashed
  <1>4. ASSUME NEW c \in 1..n PROVE cs[c] \in Seq(R) /\ Distinct(cs[c]) /\ Range(cs[c]) = {m[i] : i \in Q[c]}
    <2>1. Q[c] \in SUBSET (1..Len(m))
      BY <1>0, <1>1
    <2>2. cs[c] = Picked(m, Q[c])
      BY <1>3
    <2> QED
      BY <2>1, <2>2, PickedIs
  <1>5. cs \in [1..n -> Seq(R)]
    BY <1>3, <1>4
  <1>6. ASSUME NEW t \in R PROVE \E c \in 1..n : t \in Range(cs[c])
    <2>1. PICK i \in 1..Len(m) : t = m[i]
      BY <1>0
    <2>2. PICK c : c = (hash[t.id] % n) + 1
      OBVIOUS
    <2>3. hash[t.id] \in Nat /\ hash[t.id] % n \in 0..(n-1)
      OBVIOUS
    <2>4. c \in 1..n /\ c - 1 = hash[t.id] % n
      BY <2>2, <2>3
    <2>5. i \in Q[c]
      BY <1>0, <1>1, <2>1, <2>4
    <2> QED
      BY <1>4, <2>1, <2>4, <2>5
  <1>7. ASSUME NEW c \in 1..n, NEW d \in 1..n, NEW t, t \in Range(cs[c]), t \in Range(cs[d]) PROVE c = d
    <2>1. PICK i \in Q[c] : t = m[i]
      BY <1>4, <1>7
    <2>2. PICK j \in Q[d] : t = m[j]
      BY <1>4, <1>7
    <2>3. i \in 1..Len(m) /\ j \in 1..Len(m)
      BY <1>0, <1>1
    <2>4. i = j
      BY <2>1, <2>2, <2>3 DEF Distinct
    <2>5. c - 1 = d - 1
      BY <1>1, <2>1, <2>2, <2>4
    <2> QED
      BY <2>5
  <1> QED
    BY <1>2, <1>4, <1>5, <1>6, <1>7 DEF Parted

LEMMA FrontIs ==
    ASSUME NEW R, NEW c \in Seq(R), Distinct(c), Len(c) > 1
    PROVE  /\ Front(c) \in Seq(R) /\ Distinct(Front(c)) /\ Len(Front(c)) = Len(c) - 1
           /\ Last(c) \in R /\ Last(c) \notin Range(Front(c))
           /\ Range(c) = Range(Front(c)) \cup {Last(c)}
  <1>0. Len(c) \in Nat /\ c \in [1..Len(c) -> R] /\ DOMAIN c = 1..Len(c) /\ Range(c) = {c[i] : i \in 1..Len(c)}
    BY Listed
  <1>1. PICK n \in Nat : n = Len(c) - 1 /\ n + 1 = Len(c)
    <2>1. Len(c) - 1 \in Nat /\ (Len(c) - 1) + 1 = Len(c)
      BY <1>0
    <2> QED
      BY <2>1
  <1>2. PICK f : f = Front(c)
    OBVIOUS
  <1>3. f \in Seq(R) /\ Len(f) = n /\ \A i \in 1..n : f[i] = c[i]
    BY <1>0, <1>1, <1>2 DEF Front
  <1>4. Range(f) = {f[i] : i \in 1..n}
    BY <1>3, Listed
  <1>5. Last(c) = c[n + 1] /\ n + 1 \in 1..Len(c)
    BY <1>1 DEF Last
  <1>6. \A i : i \in 1..Len(c) <=> i \in 1..n \/ i = n + 1
    BY <1>1
  <1>7. Distinct(f)
    BY <1>3, <1>6 DEF Distinct
  <1>8. c[n + 1] \notin Range(f)
    <2> SUFFICES ASSUME NEW i \in 1..n, c[n + 1] = c[i] PROVE FALSE
      BY <1>3, <1>4
    <2>1. i = n + 1
      BY <1>6 DEF Distinct
    <2> QED
      BY <2>1
  <1>9. Range(c) = Range(f) \cup {c[n + 1]}
    BY <1>0, <1>3, <1>4, <1>6
  <1> QED
    BY <1>0, <1>1, <1>2, <1>3, <1>5, <1>7, <1>8, <1>9

LEMMA OneListed ==
    ASSUME NEW R, NEW t \in R
    PROVE  <<t>> \in Seq(R) /\ Distinct(<<t>>) /\ Range(<<t>>) = {t} /\ <<t>> # <<>>
  <1>1. <<t>> \in Seq(R) /\ Len(<<t>>) = 1 /\ <<t>>[1] = t /\ <<t>> # <<>>
    OBVIOUS
  <1>2. \A i : i \in 1..1 <=> i = 1
    OBVIOUS
  <1>3. Distinct(<<t>>)
    BY <1>1, <1>2 DEF Distinct
  <1>4. Range(<<t>>) = {<<t>>[i] : i \in 1..Len(<<t>>)}
    BY <1>1, Listed
  <1> QED
    BY <1>1, <1>2, <1>3, <1>4

\* One tenant goes from l to the empty e.
Moved(cs, l, e) == [cs EXCEPT ![l] = FinalizeChunk(Front(@)), ![e] = <<Last(cs[l])>>]

LEMMA MovedParted ==
    ASSUME NEW R, KeysDiffer(R), NEW n \in Nat \ {0}, NEW cs, Parted(cs, R, n),
           NEW l \in 1..n, NEW e \in 1..n, cs[e] = <<>>, Len(cs[l]) > 1
    PROVE  /\ Parted(Moved(cs, l, e), R, n) /\ Moved(cs, l, e)[e] # <<>>
           /\ \A c \in 1..n : cs[c] # <<>> => Moved(cs, l, e)[c] # <<>>
  <1>0. PICK ds : ds = Moved(cs, l, e)
    OBVIOUS
  <1>t. cs \in [1..n -> Seq(R)] /\ cs[l] \in Seq(R) /\ Distinct(cs[l])
    BY DEF Parted
  <1>1. l # e
    OBVIOUS
  <1>2. PICK a, b, z : a = cs[l] /\ b = FinalizeChunk(Front(a)) /\ z = Last(a)
    OBVIOUS
  <1>3. /\ Front(a) \in Seq(R) /\ Distinct(Front(a)) /\ Len(Front(a)) = Len(a) - 1
        /\ z \in R /\ z \notin Range(Front(a)) /\ Range(a) = Range(Front(a)) \cup {z}
    BY <1>t, <1>2, FrontIs
  <1>4. b \in Seq(R) /\ Distinct(b) /\ Range(b) = Range(Front(a)) /\ Len(b) = Len(a) - 1
    BY <1>2, <1>3, Finalized
  <1>5. <<z>> \in Seq(R) /\ Distinct(<<z>>) /\ Range(<<z>>) = {z} /\ <<z>> # <<>>
    BY <1>3, OneListed
  <1>6. ds = [c \in 1..n |-> IF c = e THEN <<z>> ELSE IF c = l THEN b ELSE cs[c]]
    BY <1>0, <1>t, <1>1, <1>2 DEF Moved
  <1>7. ds[e] = <<z>> /\ ds[l] = b /\ \A c \in 1..n : c # e /\ c # l => ds[c] = cs[c]
    BY <1>1, <1>6
  <1>8. ds \in [1..n -> Seq(R)]
    BY <1>t, <1>4, <1>5, <1>6
  <1>9. \A c \in 1..n : Distinct(ds[c])
    BY <1>4, <1>5, <1>7 DEF Parted
  <1>10. Range(cs[e]) = {} /\ Range(ds[e]) = {z} /\ z \notin Range(ds[l]) /\ Range(cs[l]) = Range(ds[l]) \cup {z}
    <2>1. Range(cs[e]) = {}
      BY DEF Range
    <2> QED
      BY <1>2, <1>3, <1>4, <1>5, <1>7, <2>1
  <1>11. ASSUME NEW t \in R PROVE \E c \in 1..n : t \in Range(ds[c])
    <2>1. PICK c \in 1..n : t \in Range(cs[c])
      BY DEF Parted
    <2>2. CASE c = l
      BY <1>10, <2>1, <2>2
    <2>3. CASE c # l
      <3>1. c # e
        BY <1>10, <2>1
      <3> QED
        BY <1>7, <2>1, <2>3, <3>1
    <2> QED
      BY <2>2, <2>3
  <1>12. ASSUME NEW c \in 1..n PROVE Range(ds[c]) \subseteq IF c = e THEN {z} ELSE Range(cs[c]) \ {z}
    <2>1. CASE c = e
      BY <1>10, <2>1
    <2>2. CASE c = l
      BY <1>1, <1>10, <2>2
    <2>3. CASE c # e /\ c # l
      <3>1. Range(cs[c]) \cap Range(cs[l]) = {}
        BY <2>3 DEF Parted
      <3> QED
        BY <1>7, <1>10, <2>3, <3>1
    <2> QED
      BY <2>1, <2>2, <2>3
  <1>13. ASSUME NEW c \in 1..n, NEW d \in 1..n, c # d PROVE Range(ds[c]) \cap Range(ds[d]) = {}
    <2>1. Range(cs[c]) \cap Range(cs[d]) = {}
      BY <1>13 DEF Parted
    <2> QED
      BY <1>12, <1>13, <2>1
  <1>14. ASSUME NEW c \in 1..n, cs[c] # <<>> PROVE ds[c] # <<>>
    <2>1. b # <<>>
      <3>1. Len(a) \in Nat /\ Len(a) > 1
        BY <1>t, <1>2, Listed
      <3>2. Len(a) - 1 # 0
        BY <3>1, OneLeft
      <3>3. Len(b) = Len(a) - 1 /\ (b = <<>> <=> Len(b) = 0)
        BY <1>4, Listed
      <3> QED
        BY <3>2, <3>3
    <2> QED
      BY <1>5, <1>7, <1>14, <2>1
  <1> QED
    BY <1>0, <1>5, <1>7, <1>8, <1>9, <1>11, <1>13, <1>14 DEF Parted

LEMMA FirstIs ==
    ASSUME NEW S \in SUBSET Nat, NEW e \in S, \A j \in S : e <= j
    PROVE  FirstOf(S) = e
  <1>1. FirstOf(S) \in S /\ \A j \in S : FirstOf(S) <= j
    BY LowestOf
  <1>2. FirstOf(S) <= e /\ e <= FirstOf(S) /\ e \in Nat /\ FirstOf(S) \in Nat
    BY <1>1
  <1> QED
    BY <1>2

\* Sorting one of the lists does not matter.
Tidied(cs, i) == [cs EXCEPT ![i] = FinalizeChunk(@)]

LEMMA OrderedParted ==
    ASSUME NEW R, KeysDiffer(R), NEW n \in Nat \ {0}, NEW cs, Parted(cs, R, n), NEW i \in 1..n
    PROVE  Parted(Tidied(cs, i), R, n) /\ \A c \in 1..n : cs[c] # <<>> => Tidied(cs, i)[c] # <<>>
  <1>0. PICK ds : ds = Tidied(cs, i)
    OBVIOUS
  <1>1. cs \in [1..n -> Seq(R)] /\ cs[i] \in Seq(R) /\ Distinct(cs[i])
    BY DEF Parted
  <1>2. PICK b : b = FinalizeChunk(cs[i])
    OBVIOUS
  <1>3. b \in Seq(R) /\ Distinct(b) /\ Range(b) = Range(cs[i]) /\ Len(b) = Len(cs[i])
    BY <1>1, <1>2, Finalized
  <1>4. (b = <<>> <=> Len(b) = 0) /\ (cs[i] = <<>> <=> Len(cs[i]) = 0)
    BY <1>1, <1>3, Listed
  <1>5. ds = [c \in 1..n |-> IF c = i THEN b ELSE cs[c]]
    BY <1>0, <1>1, <1>2 DEF Tidied
  <1>6. ds[i] = b /\ \A c \in 1..n : c # i => ds[c] = cs[c]
    BY <1>5
  <1>7. ds \in [1..n -> Seq(R)]
    BY <1>1, <1>3, <1>5
  <1>8. \A c \in 1..n : Range(ds[c]) = Range(cs[c]) /\ Distinct(ds[c])
    BY <1>3, <1>6 DEF Parted
  <1>9. \A c \in 1..n : cs[c] # <<>> => ds[c] # <<>>
    BY <1>3, <1>4, <1>6
  <1>10. \A t \in R : \E c \in 1..n : t \in Range(ds[c])
    BY <1>8 DEF Parted
  <1>11. \A c, d \in 1..n : c # d => Range(ds[c]) \cap Range(ds[d]) = {}
    BY <1>8 DEF Parted
  <1> QED
    BY <1>0, <1>7, <1>8, <1>9, <1>10, <1>11 DEF Parted

\* With partitions 1..i - 1 filled, the loop's step fills partition i.
LEMMA FilledParted ==
    ASSUME NEW R, IsFiniteSet(R), KeysDiffer(R), NEW n \in Nat \ {0}, n <= Cardinality(R), NEW cs, Parted(cs, R, n),
           NEW i \in 1..n, \A c \in 1..n : c < i => cs[c] # <<>>
    PROVE  Parted(Filled(cs, i), R, n) /\ \A c \in 1..n : c <= i => Filled(cs, i)[c] # <<>>
  <1>1. PICK ds : ds = Tidied(cs, i)
    OBVIOUS
  <1>2. Parted(ds, R, n) /\ \A c \in 1..n : cs[c] # <<>> => ds[c] # <<>>
    BY <1>1, OrderedParted
  <1>3. Filled(cs, i) = IF ds[i] = <<>> THEN redistributeOneTenant(ds) ELSE ds
    BY <1>1 DEF Filled, Tidied
  <1>4. i \in Nat /\ \A c \in 1..n : c \in Nat
    OBVIOUS
  <1>5. CASE ds[i] # <<>>
    <2>1. \A c \in 1..n : c <= i => ds[c] # <<>>
      BY <1>2, <1>4, <1>5
    <2> QED
      BY <1>2, <1>3, <1>5, <2>1
  <1>6. CASE ds[i] = <<>>
    <2>1. PICK l : l = Largest(ds)
      OBVIOUS
    <2>2. ds \in [1..n -> Seq(R)] /\ DOMAIN ds = 1..n
      BY <1>2 DEF Parted
    <2>3. l \in 1..n /\ \A j \in 1..n : Len(ds[l]) >= Len(ds[j])
      BY <2>1, <2>2, LargestIs
    <2>4. PICK c \in 1..n : Len(ds[c]) > 1
      BY <1>2, <1>6, SomebodyToMove
    <2>5. Len(ds[l]) > 1 /\ ~(Len(ds[l]) <= 1)
      <3>1. Len(ds[l]) \in Nat /\ Len(ds[c]) \in Nat /\ Len(ds[l]) >= Len(ds[c])
        BY <2>2, <2>3
      <3> QED
        BY <2>4, <3>1
    <2>6. PICK S : S = {k \in DOMAIN ds : ds[k] = <<>>}
      OBVIOUS
    <2>7. S \in SUBSET Nat /\ i \in S
      BY <1>6, <2>2, <2>6
    <2>8. \A j \in S : i <= j
      BY <1>2, <1>4, <2>2, <2>6
    <2>9. FirstOf(S) = i
      BY <2>7, <2>8, FirstIs
    <2>10. PICK es : es = Moved(ds, l, i)
      OBVIOUS
    <2>11. redistributeOneTenant(ds) = es
      BY <2>1, <2>5, <2>6, <2>9, <2>10 DEF redistributeOneTenant, Moved
    <2>12. /\ Parted(es, R, n) /\ es[i] # <<>>
           /\ \A k \in 1..n : ds[k] # <<>> => es[k] # <<>>
      BY <1>2, <1>6, <2>3, <2>5, <2>10, MovedParted
    <2>13. \A k \in 1..n : k <= i => es[k] # <<>>
      BY <1>2, <1>4, <2>12
    <2> QED
      BY <1>3, <1>6, <2>11, <2>12, <2>13
  <1> QED
    BY <1>5, <1>6

\* The loop of partitionManifest, as far as its body was run.
LEMMA LoopRuns ==
    ASSUME NEW m, NEW hash, NEW n \in Nat
    PROVE  \E g : /\ g = [i \in 0..n |-> IF i = 0 THEN Hashed(m, hash, n) ELSE Filled(g[i - 1], i)]
                  /\ partitionManifest(m, hash, n) = g[n]
  <1> DEFINE Is(g, k) == g = [i \in 0..k |-> IF i = 0 THEN Hashed(m, hash, n) ELSE Filled(g[i - 1], i)]
             N == {k \in Nat : \E g : Is(g, k)}
  <1>1. 0 \in N
    <2>1. PICK g : g = [i \in 0..0 |-> Hashed(m, hash, n)]
      OBVIOUS
    <2>2. Is(g, 0)
      <3>1. \A i \in 0..0 : i = 0
        OBVIOUS
      <3> QED
        BY <2>1, <3>1
    <2> QED
      BY <2>2
  <1>2. ASSUME NEW k \in Nat, k \in N PROVE k + 1 \in N
    <2>1. PICK g : Is(g, k)
      BY <1>2
    <2>2. PICK h : h = [i \in 0..(k + 1) |-> IF i = k + 1 THEN Filled(g[k], k + 1) ELSE g[i]]
      OBVIOUS
    <2>3. \A i \in 0..(k + 1) : i # k + 1 => i \in 0..k
      OBVIOUS
    <2>4. \A i \in 0..(k + 1) : i # 0 => i - 1 \in 0..k /\ i - 1 \in 0..(k + 1) /\ i - 1 # k + 1
      OBVIOUS
    <2>5. ASSUME NEW i \in 0..(k + 1) PROVE h[i] = IF i = 0 THEN Hashed(m, hash, n) ELSE Filled(h[i - 1], i)
      <3>1. i # 0 => h[i - 1] = g[i - 1]
        BY <2>2, <2>4
      <3>2. CASE i = k + 1
        <4>1. i # 0 /\ i - 1 = k
          BY <3>2
        <4>2. h[i] = Filled(g[k], k + 1)
          BY <2>2, <3>2
        <4> QED
          BY <3>1, <3>2, <4>1, <4>2
      <3>3. CASE i # k + 1
        <4>1. h[i] = g[i]
          BY <2>2, <3>3
        <4>2. g[i] = IF i = 0 THEN Hashed(m, hash, n) ELSE Filled(g[i - 1], i)
          BY <2>1, <2>3, <3>3
        <4> QED
          BY <3>1, <4>1, <4>2
      <3> QED
        BY <3>2, <3>3
    <2>6. Is(h, k + 1)
      <3>1. h = [i \in 0..(k + 1) |-> h[i]]
        BY <2>2
      <3>2. [i \in 0..(k + 1) |-> h[i]] = [i \in 0..(k + 1) |-> IF i = 0 THEN Hashed(m, hash, n) ELSE Filled(h[i - 1], i)]
        BY <2>5, Zenon
      <3> QED
        BY <3>1, <3>2
    <2> HIDE DEF Is
    <2> QED
      BY <2>6
  <1> HIDE DEF N
  <1>3. n \in N
    BY <1>1, <1>2, Upwards
  <1>4. \E g : Is(g, n)
    BY <1>3 DEF N
  <1>5. PICK f : f = CHOOSE g : Is(g, n)
    OBVIOUS
  <1>6. Is(f, n)
    <2> HIDE DEF Is
    <2> QED
      BY <1>4, <1>5
  <1>7. partitionManifest(m, hash, n) = f[n]
    BY <1>5 DEF partitionManifest
  <1> QED
    BY <1>6, <1>7

LEMMA Partitioned ==
    ASSUME NEW R, NEW m \in Seq(R), Distinct(m), Range(m) = R, KeysDiffer(R), NEW n \in 1..Len(m),
           NEW hash, \A t \in R : hash[t.id] \in Nat
    PROVE  /\ Parted(partitionManifest(m, hash, n), R, n)
           /\ \A c \in 1..n : partitionManifest(m, hash, n)[c] # <<>>
  <1>1. IsFiniteSet(R) /\ Cardinality(R) = Len(m) /\ Len(m) \in Nat
    BY Listed
  <1>2. n \in Nat \ {0} /\ n <= Cardinality(R) /\ n \in Nat
    BY <1>1
  <1>3. PICK g : /\ g = [i \in 0..n |-> IF i = 0 THEN Hashed(m, hash, n) ELSE Filled(g[i - 1], i)]
                 /\ partitionManifest(m, hash, n) = g[n]
    BY <1>2, LoopRuns
  <1> DEFINE Well(k) == Parted(g[k], R, n) /\ \A c \in 1..n : c <= k => g[k][c] # <<>>
             N == {k \in Nat : k <= n => Well(k)}
  <1>4. 0 \in N
    <2>1. g[0] = Hashed(m, hash, n)
      BY <1>2, <1>3
    <2>2. Parted(g[0], R, n)
      BY <1>2, <2>1, HashedParted
    <2>3. \A c \in 1..n : ~(c <= 0)
      BY <1>2
    <2> QED
      BY <2>2, <2>3
  <1>5. ASSUME NEW k \in Nat, k \in N PROVE k + 1 \in N
    <2> SUFFICES ASSUME k + 1 <= n PROVE Well(k + 1)
      OBVIOUS
    <2>1. k <= n /\ k + 1 \in 1..n /\ k + 1 \in 0..n /\ k + 1 # 0 /\ (k + 1) - 1 = k
      BY <1>2
    <2>2. g[k + 1] = Filled(g[k], k + 1)
      BY <1>3, <2>1
    <2>3. Well(k)
      BY <1>5, <2>1
    <2>4. PICK cs, i : cs = g[k] /\ i = k + 1
      OBVIOUS
    <2>5. Parted(cs, R, n) /\ \A c \in 1..n : c < i => cs[c] # <<>>
      BY <1>2, <2>3, <2>4
    <2>6. Parted(Filled(cs, i), R, n) /\ \A c \in 1..n : c <= i => Filled(cs, i)[c] # <<>>
      <3> HIDE DEF N, Well
      <3> QED
        BY <1>1, <1>2, <2>1, <2>4, <2>5, FilledParted
    <2> QED
      BY <2>2, <2>4, <2>6
  <1> HIDE DEF N
  <1>6. n \in N
    BY <1>2, <1>4, <1>5, Upwards
  <1>7. Well(n)
    BY <1>2, <1>6 DEF N
  <1>8. \A c \in 1..n : c <= n
    BY <1>2
  <1> QED
    BY <1>3, <1>7, <1>8

LEMMA TenantsDiffer ==
    ASSUME NEW j, JobOK(j)
    PROVE  /\ j.manifest \in Seq(Range(j.manifest)) /\ Distinct(j.manifest) /\ KeysDiffer(Range(j.manifest))
           /\ \A t \in Range(j.manifest) : j.hash[t.id] \in Nat
           /\ \A t, u \in Range(j.manifest) : t.id = u.id => t = u
  <1>1. PICK m, R : m = j.manifest /\ R = Range(m)
    OBVIOUS
  <1>2. /\ m \in Seq(R)
        /\ \A i, k \in DOMAIN m : i # k => m[i].id # m[k].id /\ m[i].ext # m[k].ext
        /\ \A t \in R : t.ext \in Int /\ j.hash[t.id] \in Nat
    BY <1>1 DEF JobOK
  <1>3. DOMAIN m = 1..Len(m) /\ R = {m[i] : i \in 1..Len(m)}
    BY <1>1, <1>2, Listed
  <1>4. Distinct(m)
    BY <1>2, <1>3 DEF Distinct
  <1>5. \A t, u \in R : t.ext = u.ext \/ t.id = u.id => t = u
    BY <1>2, <1>3
  <1>6. KeysDiffer(R)
    BY <1>2, <1>5 DEF KeysDiffer
  <1> QED
    BY <1>1, <1>2, <1>4, <1>5, <1>6

\* q for each of n, and one more for the first r.
FirstMore(n, q, r) == [i \in 1..n |-> q + (IF i <= r THEN 1 ELSE 0)]

LEMMA SharesAddUp ==
    ASSUME NEW n \in Nat, NEW q \in Nat, NEW r \in Nat, r <= n
    PROVE  Total(FirstMore(n, q, r)) = n * q + r
  <1> DEFINE G(k) == [i \in 1..k |-> q + (IF i <= r THEN 1 ELSE 0)]
             N == {k \in Nat : Total(G(k)) = k * q + (IF k <= r THEN k ELSE r)}
  <1>0. ASSUME NEW k \in Nat PROVE G(k) \in [1..k -> Int]
    OBVIOUS
  <1>1. 0 \in N
    <2>1. Total(G(0)) = 0
      <3>1. G(0) \in [1..0 -> Int]
        BY <1>0
      <3> HIDE DEF G
      <3> QED
        BY <3>1, TotalNone
    <2> HIDE DEF G
    <2> QED
      BY <2>1
  <1>2. ASSUME NEW k \in Nat, k \in N PROVE k + 1 \in N
    <2>1. G(k + 1) \in [1..k + 1 -> Int] /\ G(k) \in [1..k -> Int]
      BY <1>0
    <2>2. \A x \in 1..k : G(k)[x] = G(k + 1)[x]
      OBVIOUS
    <2>3. G(k + 1)[k + 1] = q + (IF k + 1 <= r THEN 1 ELSE 0)
      OBVIOUS
    <2>4. Total(G(k)) = k * q + (IF k <= r THEN k ELSE r)
      BY <1>2
    <2> HIDE DEF G, N
    <2>5. Total(G(k + 1)) = Total(G(k)) + G(k + 1)[k + 1]
      BY <2>1, <2>2, TotalNext
    <2>6. (k + 1) * q = k * q + q /\ k * q \in Nat
      OBVIOUS
    <2>7. PICK p : p = k * q
      OBVIOUS
    <2>8. Total(G(k + 1)) = (p + q) + (IF k + 1 <= r THEN k + 1 ELSE r)
      BY <2>3, <2>4, <2>5, <2>6, <2>7
    <2>9. Total(G(k + 1)) = (k + 1) * q + (IF k + 1 <= r THEN k + 1 ELSE r)
      BY <2>6, <2>7, <2>8
    <2> QED
      BY <2>9 DEF N
  <1> HIDE DEF N
  <1>3. n \in N
    BY <1>1, <1>2, Upwards
  <1>4. G(n) = FirstMore(n, q, r)
    BY DEF FirstMore
  <1>5. Total(G(n)) = n * q + (IF n <= r THEN n ELSE r)
    BY <1>3 DEF N
  <1>6. (IF n <= r THEN n ELSE r) = r
    OBVIOUS
  <1> HIDE DEF G
  <1> QED
    BY <1>4, <1>5, <1>6

LEMMA NoQuotient ==
    ASSUME NEW n \in Nat, NEW q \in Nat, NEW r \in Nat, NEW total \in Nat \ {0}, total = n * q + r, r < n
    PROVE  /\ q = 0 => total = r /\ total < n
           /\ q # 0 => n <= total
  OBVIOUS

LEMMA RateSplit ==
    ASSUME NEW n \in Nat \ {0}, NEW total \in Nat \ {0}, NEW f, f = [i \in 1..n |-> splitTPS(total, n)[i]]
    PROVE  WeightOf(f) = Higher(total, n)
  <1>1. PICK q, r : q = total \div n /\ r = total % n
    OBVIOUS
  <1>2. q \in Nat /\ r \in Nat /\ r < n /\ total = n * q + r
    <2>1. /\ total \div n \in Nat /\ n * (total \div n) <= total /\ total < n * (total \div n) + n
          /\ total % n = total - n * (total \div n)
      BY Quotient
    <2>2. PICK p : p = n * q
      OBVIOUS
    <2>3. q \in Nat /\ p <= total /\ total < p + n /\ r = total - p
      BY <1>1, <2>1, <2>2
    <2>4. p \in Nat
      BY <2>2, <2>3
    <2> QED
      BY <2>2, <2>3, <2>4
  <1>3. f = [i \in 1..n |-> IF q + (IF i <= r THEN 1 ELSE 0) = 0 THEN 1 ELSE q + (IF i <= r THEN 1 ELSE 0)]
    BY <1>1 DEF splitTPS
  <1>4. q = 0 => total = r /\ total < n
    BY <1>2, NoQuotient
  <1>5. q # 0 => n <= total
    BY <1>2, NoQuotient
  <1>6. WeightOf(f) = Total(f)
    BY WeightIsTotal
  <1>7. CASE q = 0
    <2>1. f = FirstMore(n, 0, n)
      BY <1>2, <1>3, <1>7 DEF FirstMore
    <2>2. Total(f) = n * 0 + n
      <3>1. n \in Nat /\ 0 \in Nat /\ n <= n
        OBVIOUS
      <3>2. Total(FirstMore(n, 0, n)) = n * 0 + n
        BY <3>1, SharesAddUp
      <3> QED
        BY <2>1, <3>2
    <2>3. Higher(total, n) = n
      BY <1>4, <1>7 DEF Higher
    <2> QED
      BY <1>6, <2>2, <2>3
  <1>8. CASE q # 0
    <2>1. f = FirstMore(n, q, r)
      BY <1>2, <1>3, <1>8 DEF FirstMore
    <2>2. Total(f) = n * q + r
      <3>1. n \in Nat /\ r <= n
        BY <1>2
      <3>2. Total(FirstMore(n, q, r)) = n * q + r
        BY <1>2, <3>1, SharesAddUp
      <3> QED
        BY <2>1, <3>2
    <2>3. Higher(total, n) = total
      BY <1>5, <1>8 DEF Higher
    <2> QED
      BY <1>2, <1>6, <2>2, <2>3
  <1> QED
    BY <1>7, <1>8

-----------------------------------------------------------------------------
(***************************************************************************)
(* The accounts.  A label l says which number of a result is read, and     *)
(* which answers count for it: all of them, those of a tenant, or those    *)
(* accepted of a tenant, metric and status, by number or by quantity.      *)
(***************************************************************************)
UsageAt(r, l) == At(r.usage, <<l.tenant, l.metric>>, NoUsage)
StatusAt(u, l) == At(u.byStatus, l.status, NoStatus)

UsageReading(u, l) ==
    CASE l.kind = "events" -> u.events
      [] l.kind = "quantity" -> u.quantity
      [] l.kind = "statusEvents" -> StatusAt(u, l).events
      [] OTHER -> StatusAt(u, l).quantity

Reading(r, l) ==
    CASE l.kind = "all" -> r.generated
      [] l.kind = "tenant" -> At(r.perTenant, l.tenant, 0)
      [] OTHER -> UsageReading(UsageAt(r, l), l)

Accepted(e, status, l) == <<e.tenant, e.metric>> = <<l.tenant, l.metric>> /\ IsSuccess(status)
Counts(e, status, l) ==
    CASE l.kind = "all" -> TRUE
      [] l.kind = "tenant" -> e.tenant = l.tenant
      [] l.kind \in {"events", "quantity"} -> Accepted(e, status, l)
      [] OTHER -> Accepted(e, status, l) /\ e.status = l.status
Weighs(e, l) == IF l.kind \in {"all", "tenant", "events", "statusEvents"} THEN 1 ELSE e.quantity
ShareOf(e, status, l) == IF Counts(e, status, l) THEN Weighs(e, l) ELSE 0

StatusOK(x) == x = [events |-> x.events, quantity |-> x.quantity] /\ x.events \in Nat /\ x.quantity \in Nat
UsageOK(u) ==
    /\ u.events \in Nat /\ u.quantity \in Nat /\ u.max \in Nat
    /\ \A s \in DOMAIN u.byStatus : StatusOK(u.byStatus[s])

ResultOK(r) ==
    /\ r = [generated |-> r.generated, classes |-> r.classes, expected |-> r.expected, negative |-> r.negative,
            perTenant |-> r.perTenant, perProductType |-> r.perProductType, perPath |-> r.perPath, usage |-> r.usage]
    /\ r.generated \in Nat
    /\ \A t \in DOMAIN r.perTenant : r.perTenant[t] \in Nat
    /\ \A k \in DOMAIN r.usage : UsageOK(r.usage[k])

LEMMA StatusCounts ==
    ASSUME NEW x, StatusOK(x)
    PROVE  x.events \in Nat /\ x.quantity \in Nat
  BY DEF StatusOK

LEMMA NothingYet == UsageOK(NoUsage) /\ ResultOK(NoResult) /\ \A l : Reading(NoResult, l) = 0 /\ UsageAt(NoResult, l) = NoUsage
  <1>1. UsageOK(NoUsage) /\ DOMAIN NoUsage.byStatus = {}
    BY DEF UsageOK, NoUsage
  <1>2. /\ NoResult.generated = 0 /\ DOMAIN NoResult.perTenant = {} /\ DOMAIN NoResult.usage = {}
        /\ NoResult = [generated |-> NoResult.generated, classes |-> NoResult.classes, expected |-> NoResult.expected,
                       negative |-> NoResult.negative, perTenant |-> NoResult.perTenant,
                       perProductType |-> NoResult.perProductType, perPath |-> NoResult.perPath, usage |-> NoResult.usage]
    BY DEF NoResult, EmptyBag, SetToBag
  <1>3. ResultOK(NoResult)
    BY <1>2 DEF ResultOK
  <1>4. ASSUME NEW l PROVE Reading(NoResult, l) = 0 /\ UsageAt(NoResult, l) = NoUsage
    <2>1. UsageAt(NoResult, l) = NoUsage
      BY <1>2 DEF UsageAt, At
    <2>2. At(NoResult.perTenant, l.tenant, 0) = 0
      BY <1>2 DEF At
    <2>3. StatusAt(NoUsage, l) = NoStatus
      BY <1>1 DEF StatusAt, At
    <2>4. UsageReading(NoUsage, l) = 0
      BY <2>3 DEF UsageReading, NoStatus, NoUsage
    <2> QED
      BY <1>2, <2>1, <2>2, <2>4 DEF Reading
  <1> QED
    BY <1>1, <1>3, <1>4

LEMMA UsageMerges ==
    ASSUME NEW u, NEW o, UsageOK(u), UsageOK(o), NEW v, v = mergeUsage(u, o)
    PROVE  /\ UsageOK(v) /\ v.events = u.events + o.events /\ v.quantity = u.quantity + o.quantity
           /\ v.max >= u.max /\ v.max >= o.max
           /\ \A l : /\ StatusAt(v, l).events = StatusAt(u, l).events + StatusAt(o, l).events
                     /\ StatusAt(v, l).quantity = StatusAt(u, l).quantity + StatusAt(o, l).quantity
                     /\ StatusAt(v, l).events \in Nat /\ StatusAt(v, l).quantity \in Nat
  <1>1. PICK a, b, c : a = u.byStatus /\ b = o.byStatus /\ c = v.byStatus
    OBVIOUS
  <1>2. /\ c = [k \in DOMAIN a \cup DOMAIN b |-> [events |-> At(a, k, NoStatus).events + At(b, k, NoStatus).events,
                                                  quantity |-> At(a, k, NoStatus).quantity + At(b, k, NoStatus).quantity]]
    BY <1>1 DEF mergeUsage, Joined, SumStatus
  <1>3. v.events = u.events + o.events /\ v.quantity = u.quantity + o.quantity /\ v.max = Higher(u.max, o.max)
    BY DEF mergeUsage
  <1>4. u.max \in Nat /\ o.max \in Nat /\ u.events \in Nat /\ o.events \in Nat /\ u.quantity \in Nat /\ o.quantity \in Nat
    BY DEF UsageOK
  <1>5. v.max \in Nat /\ v.max >= u.max /\ v.max >= o.max
    BY <1>3, <1>4 DEF Higher
  <1>6. NoStatus.events = 0 /\ NoStatus.quantity = 0
    BY DEF NoStatus
  <1>7. ASSUME NEW k
        PROVE  /\ At(a, k, NoStatus).events \in Nat /\ At(a, k, NoStatus).quantity \in Nat
               /\ At(b, k, NoStatus).events \in Nat /\ At(b, k, NoStatus).quantity \in Nat
    <2>1. StatusOK(NoStatus)
      BY DEF StatusOK, NoStatus
    <2>2. StatusOK(At(a, k, NoStatus)) /\ StatusOK(At(b, k, NoStatus))
      BY <1>1, <2>1 DEF At, UsageOK
    <2> QED
      BY <2>2, StatusCounts
  <1>8. ASSUME NEW k
        PROVE  /\ At(c, k, NoStatus).events = At(a, k, NoStatus).events + At(b, k, NoStatus).events
               /\ At(c, k, NoStatus).quantity = At(a, k, NoStatus).quantity + At(b, k, NoStatus).quantity
    <2>1. CASE k \in DOMAIN a \cup DOMAIN b
      <3>1. c[k] = [events |-> At(a, k, NoStatus).events + At(b, k, NoStatus).events,
                    quantity |-> At(a, k, NoStatus).quantity + At(b, k, NoStatus).quantity]
        BY <1>2, <2>1
      <3>2. At(c, k, NoStatus) = c[k]
        BY <1>2, <2>1 DEF At
      <3> QED
        BY <3>1, <3>2
    <2>2. CASE k \notin DOMAIN a \cup DOMAIN b
      <3>1. At(c, k, NoStatus) = NoStatus /\ At(a, k, NoStatus) = NoStatus /\ At(b, k, NoStatus) = NoStatus
        BY <1>2, <2>2 DEF At
      <3> QED
        BY <1>6, <3>1
    <2> QED
      BY <2>1, <2>2
  <1>9. ASSUME NEW k PROVE At(c, k, NoStatus).events \in Nat /\ At(c, k, NoStatus).quantity \in Nat
    BY <1>7, <1>8
  <1>10. ASSUME NEW k \in DOMAIN c PROVE StatusOK(c[k])
    <2>1. c[k].events \in Nat /\ c[k].quantity \in Nat
      BY <1>9, <1>10 DEF At
    <2>2. c[k] = [events |-> c[k].events, quantity |-> c[k].quantity]
      BY <1>2
    <2> QED
      BY <2>1, <2>2 DEF StatusOK
  <1>11. UsageOK(v)
    BY <1>1, <1>3, <1>4, <1>5, <1>10 DEF UsageOK
  <1> QED
    BY <1>1, <1>3, <1>5, <1>8, <1>9, <1>11 DEF StatusAt

LEMMA UsageReadings ==
    ASSUME NEW u, NEW o, UsageOK(u), UsageOK(o), NEW v, v = mergeUsage(u, o), NEW l
    PROVE  UsageReading(v, l) = UsageReading(u, l) + UsageReading(o, l)
  <1>1. /\ v.events = u.events + o.events /\ v.quantity = u.quantity + o.quantity
        /\ StatusAt(v, l).events = StatusAt(u, l).events + StatusAt(o, l).events
        /\ StatusAt(v, l).quantity = StatusAt(u, l).quantity + StatusAt(o, l).quantity
    BY UsageMerges
  <1> QED
    BY <1>1 DEF UsageReading

LEMMA StatusIsOne ==
    ASSUME NEW u, UsageOK(u), NEW l
    PROVE  StatusOK(StatusAt(u, l))
  <1>1. StatusOK(NoStatus)
    BY DEF StatusOK, NoStatus
  <1> QED
    BY <1>1 DEF StatusAt, At, UsageOK

LEMMA ReadingIsNat ==
    ASSUME NEW r, ResultOK(r), NEW l
    PROVE  Reading(r, l) \in Nat /\ UsageOK(UsageAt(r, l))
  <1>1. UsageOK(UsageAt(r, l))
    BY NothingYet DEF UsageAt, At, ResultOK
  <1>3. ASSUME NEW u, UsageOK(u) PROVE UsageReading(u, l) \in Nat
    <2>1. StatusAt(u, l).events \in Nat /\ StatusAt(u, l).quantity \in Nat
      BY <1>3, StatusIsOne, StatusCounts
    <2> QED
      BY <1>3, <2>1 DEF UsageReading, UsageOK
  <1>4. At(r.perTenant, l.tenant, 0) \in Nat /\ r.generated \in Nat
    BY DEF At, ResultOK
  <1> QED
    BY <1>1, <1>3, <1>4 DEF Reading

\* mergeResult adds every number up.
LEMMA MergeReads ==
    ASSUME NEW m, NEW r, ResultOK(m), ResultOK(r), NEW p, p = mergeResult(m, r)
    PROVE  /\ ResultOK(p)
           /\ \A l : /\ Reading(p, l) = Reading(m, l) + Reading(r, l)
                     /\ UsageAt(p, l).max >= UsageAt(m, l).max /\ UsageAt(p, l).max >= UsageAt(r, l).max
  <1>1. /\ p.generated = m.generated + r.generated
        /\ p.perTenant = m.perTenant (+) r.perTenant
        /\ p.usage = mergeMetricUsage(m.usage, r.usage)
        /\ p = [generated |-> p.generated, classes |-> p.classes, expected |-> p.expected, negative |-> p.negative,
                perTenant |-> p.perTenant, perProductType |-> p.perProductType, perPath |-> p.perPath, usage |-> p.usage]
    BY DEF mergeResult
  <1>2. PICK a, b, c : a = m.perTenant /\ b = r.perTenant /\ c = p.perTenant
    OBVIOUS
  <1>3. c = [e \in DOMAIN a \cup DOMAIN b |-> (IF e \in DOMAIN a THEN a[e] ELSE 0) + (IF e \in DOMAIN b THEN b[e] ELSE 0)]
    BY <1>1, <1>2 DEF (+)
  <1>4. \A t : (t \in DOMAIN a => a[t] \in Nat) /\ (t \in DOMAIN b => b[t] \in Nat)
    BY <1>2 DEF ResultOK
  <1>5. \A t : At(c, t, 0) = At(a, t, 0) + At(b, t, 0) /\ At(c, t, 0) \in Nat
    BY <1>3, <1>4 DEF At
  <1>6. PICK f, g, h : f = m.usage /\ g = r.usage /\ h = p.usage
    OBVIOUS
  <1>7. h = [k \in DOMAIN f \cup DOMAIN g |-> mergeUsage(At(f, k, NoUsage), At(g, k, NoUsage))]
    BY <1>1, <1>6 DEF mergeMetricUsage, Joined
  <1>8. \A k : UsageOK(At(f, k, NoUsage)) /\ UsageOK(At(g, k, NoUsage))
    BY <1>6, NothingYet DEF At, ResultOK
  <1>9. \A k \in DOMAIN h : UsageOK(h[k])
    <2> SUFFICES ASSUME NEW k \in DOMAIN h PROVE UsageOK(h[k])
      OBVIOUS
    <2>1. h[k] = mergeUsage(At(f, k, NoUsage), At(g, k, NoUsage))
      BY <1>7
    <2> QED
      BY <1>8, <2>1, UsageMerges
  <1>10. m.generated \in Nat /\ r.generated \in Nat
    BY DEF ResultOK
  <1>11. ResultOK(p)
    <2>1. \A t \in DOMAIN c : c[t] \in Nat
      BY <1>5 DEF At
    <2>2. p.generated \in Nat
      BY <1>1, <1>10
    <2> QED
      BY <1>1, <1>2, <1>6, <1>9, <2>1, <2>2 DEF ResultOK
  <1>12. ASSUME NEW k, NEW l
         PROVE  /\ UsageReading(At(h, k, NoUsage), l) = UsageReading(At(f, k, NoUsage), l) + UsageReading(At(g, k, NoUsage), l)
                /\ At(h, k, NoUsage).max >= At(f, k, NoUsage).max /\ At(h, k, NoUsage).max >= At(g, k, NoUsage).max
    <2>1. CASE k \in DOMAIN h
      <3>1. PICK u, o, v : u = At(f, k, NoUsage) /\ o = At(g, k, NoUsage) /\ v = At(h, k, NoUsage)
        OBVIOUS
      <3>2. v = mergeUsage(u, o)
        <4>1. v = h[k]
          BY <2>1, <3>1 DEF At
        <4>2. h[k] = mergeUsage(At(f, k, NoUsage), At(g, k, NoUsage))
          BY <1>7, <2>1
        <4> QED
          BY <3>1, <4>1, <4>2
      <3>3. UsageOK(u) /\ UsageOK(o)
        BY <1>8, <3>1
      <3>4. UsageReading(v, l) = UsageReading(u, l) + UsageReading(o, l)
        BY <3>2, <3>3, UsageReadings
      <3>5. v.max >= u.max /\ v.max >= o.max
        BY <3>2, <3>3, UsageMerges
      <3> QED
        BY <3>1, <3>4, <3>5
    <2>2. CASE k \notin DOMAIN h
      <3>1. DOMAIN h = DOMAIN f \cup DOMAIN g
        BY <1>7
      <3>2. At(h, k, NoUsage) = NoUsage /\ At(f, k, NoUsage) = NoUsage /\ At(g, k, NoUsage) = NoUsage
        BY <2>2, <3>1 DEF At
      <3>3. NoUsage.max = 0 /\ NoUsage.events = 0 /\ NoUsage.quantity = 0 /\ DOMAIN NoUsage.byStatus = {}
        BY DEF NoUsage
      <3>4. StatusAt(NoUsage, l).events = 0 /\ StatusAt(NoUsage, l).quantity = 0
        BY <3>3 DEF StatusAt, At, NoStatus
      <3>5. UsageReading(NoUsage, l) = 0
        BY <3>3, <3>4 DEF UsageReading
      <3> QED
        BY <3>2, <3>3, <3>5
    <2> QED
      BY <2>1, <2>2
  <1>13. ASSUME NEW l
         PROVE  /\ Reading(p, l) = Reading(m, l) + Reading(r, l)
                /\ UsageAt(p, l).max >= UsageAt(m, l).max /\ UsageAt(p, l).max >= UsageAt(r, l).max
    <2>1. /\ UsageReading(UsageAt(p, l), l) = UsageReading(UsageAt(m, l), l) + UsageReading(UsageAt(r, l), l)
          /\ UsageAt(p, l).max >= UsageAt(m, l).max /\ UsageAt(p, l).max >= UsageAt(r, l).max
      BY <1>6, <1>12 DEF UsageAt
    <2>2. At(p.perTenant, l.tenant, 0) = At(m.perTenant, l.tenant, 0) + At(r.perTenant, l.tenant, 0)
      BY <1>2, <1>5
    <2> QED
      BY <1>1, <2>1, <2>2 DEF Reading
  <1> QED
    BY <1>11, <1>13

\* An event by itself, as add takes it.
OneEvent(e) ==
    [events |-> 1, quantity |-> e.quantity, max |-> e.quantity,
     byStatus |-> [s \in {e.status} |-> [events |-> 1, quantity |-> e.quantity]]]

LEMMA OneEventReads ==
    ASSUME NEW e, e.quantity \in Nat, NEW l
    PROVE  /\ UsageOK(OneEvent(e)) /\ OneEvent(e).max = e.quantity
           /\ UsageReading(OneEvent(e), l) =
                 CASE l.kind = "events" -> 1 [] l.kind = "quantity" -> e.quantity
                   [] l.kind = "statusEvents" -> (IF e.status = l.status THEN 1 ELSE 0)
                   [] OTHER -> (IF e.status = l.status THEN e.quantity ELSE 0)
  <1>1. PICK u : u = OneEvent(e)
    OBVIOUS
  <1>2. /\ u.events = 1 /\ u.quantity = e.quantity /\ u.max = e.quantity
        /\ u.byStatus = [s \in {e.status} |-> [events |-> 1, quantity |-> e.quantity]]
    BY <1>1 DEF OneEvent
  <1>3. UsageOK(u)
    <2>1. \A s \in {e.status} : StatusOK(u.byStatus[s])
      BY <1>2 DEF StatusOK
    <2> QED
      BY <1>2, <2>1 DEF UsageOK
  <1>4. StatusAt(u, l) = IF e.status = l.status THEN [events |-> 1, quantity |-> e.quantity] ELSE NoStatus
    BY <1>2 DEF StatusAt, At
  <1>5. /\ StatusAt(u, l).events = (IF e.status = l.status THEN 1 ELSE 0)
        /\ StatusAt(u, l).quantity = (IF e.status = l.status THEN e.quantity ELSE 0)
    BY <1>4 DEF NoStatus
  <1> QED
    BY <1>1, <1>2, <1>3, <1>5 DEF UsageReading

\* What an answer does to a result.
LEMMA SendReads ==
    ASSUME NEW r, ResultOK(r), NEW e, e.quantity \in Nat, NEW status,
           NEW p, p = onResult(Dispatch(r, e, status), e, status)
    PROVE  /\ ResultOK(p)
           /\ \A l : /\ Reading(p, l) = Reading(r, l) + ShareOf(e, status, l)
                     /\ UsageAt(p, l).max >= UsageAt(r, l).max
                     /\ Accepted(e, status, l) => UsageAt(p, l).max >= e.quantity
  <1>1. PICK d : d = Dispatch(r, e, status)
    OBVIOUS
  <1>2. /\ d = [generated |-> d.generated, classes |-> d.classes, expected |-> d.expected, negative |-> d.negative,
                perTenant |-> d.perTenant, perProductType |-> d.perProductType, perPath |-> d.perPath, usage |-> d.usage]
        /\ d.generated = r.generated + 1 /\ d.perTenant = r.perTenant /\ d.usage = r.usage
    <2>1. r = [generated |-> r.generated, classes |-> r.classes, expected |-> r.expected, negative |-> r.negative,
               perTenant |-> r.perTenant, perProductType |-> r.perProductType, perPath |-> r.perPath, usage |-> r.usage]
      BY DEF ResultOK
    <2> QED
      BY <1>1, <2>1 DEF Dispatch
  <1>3. /\ p = [generated |-> p.generated, classes |-> p.classes, expected |-> p.expected, negative |-> p.negative,
                perTenant |-> p.perTenant, perProductType |-> p.perProductType, perPath |-> p.perPath, usage |-> p.usage]
        /\ p.generated = d.generated /\ p.perTenant = Plus(d.perTenant, e.tenant)
        /\ p.usage = IF IsSuccess(status) THEN Record(d.usage, e) ELSE d.usage
    <2>1. p = onResult(d, e, status)
      BY <1>1
    <2> QED
      BY <1>2, <2>1 DEF onResult
  <1>4. PICK a, c : a = r.perTenant /\ c = p.perTenant
    OBVIOUS
  <1>5. c = [x \in DOMAIN a \cup {e.tenant} |-> (IF x \in DOMAIN a THEN a[x] ELSE 0) + (IF x \in {e.tenant} THEN 1 ELSE 0)]
    <2>1. PICK b : b = SetToBag({e.tenant})
      OBVIOUS
    <2>2. DOMAIN b = {e.tenant} /\ \A x \in {e.tenant} : b[x] = 1
      BY <2>1 DEF SetToBag
    <2>3. c = a (+) b
      BY <1>2, <1>3, <1>4, <2>1 DEF Plus
    <2>4. c = [x \in DOMAIN a \cup DOMAIN b |-> (IF x \in DOMAIN a THEN a[x] ELSE 0) + (IF x \in DOMAIN b THEN b[x] ELSE 0)]
      BY <2>3 DEF (+)
    <2> QED
      BY <2>2, <2>4
  <1>6. \A x : x \in DOMAIN a => a[x] \in Nat
    BY <1>4 DEF ResultOK
  <1>7. \A x : At(c, x, 0) = At(a, x, 0) + (IF e.tenant = x THEN 1 ELSE 0) /\ At(c, x, 0) \in Nat
    BY <1>5, <1>6 DEF At
  <1>8. PICK f, h, key : f = r.usage /\ h = p.usage /\ key = <<e.tenant, e.metric>>
    OBVIOUS
  <1>9. \A k : UsageOK(At(f, k, NoUsage))
    BY <1>8, NothingYet DEF At, ResultOK
  <1>10. IsSuccess(status) => h = [k \in DOMAIN f \cup {key} |-> IF k = key THEN add(At(f, k, NoUsage), e.quantity, e.status) ELSE f[k]]
    BY <1>2, <1>3, <1>8 DEF Record
  <1>11. ~IsSuccess(status) => h = f
    BY <1>2, <1>3, <1>8
  <1>12. \A u : add(u, e.quantity, e.status) = mergeUsage(u, OneEvent(e))
    BY DEF add, OneEvent
  <1>13. UsageOK(OneEvent(e)) /\ OneEvent(e).max = e.quantity
    BY OneEventReads
  <1>14. ASSUME NEW k
         PROVE  At(h, k, NoUsage) = IF IsSuccess(status) /\ k = key THEN mergeUsage(At(f, k, NoUsage), OneEvent(e))
                                    ELSE At(f, k, NoUsage)
    <2>1. CASE ~IsSuccess(status)
      BY <1>11, <2>1
    <2>2. CASE IsSuccess(status) /\ k = key
      <3>1. k \in DOMAIN h /\ h[k] = add(At(f, k, NoUsage), e.quantity, e.status)
        BY <1>10, <2>2
      <3>2. At(h, k, NoUsage) = h[k]
        BY <3>1 DEF At
      <3> QED
        BY <1>12, <2>2, <3>1, <3>2
    <2>3. CASE IsSuccess(status) /\ k # key
      BY <1>10, <2>3 DEF At
    <2> QED
      BY <2>1, <2>2, <2>3
  <1>15. ASSUME NEW k PROVE UsageOK(At(h, k, NoUsage))
    <2>1. CASE IsSuccess(status) /\ k = key
      <3>1. At(h, k, NoUsage) = mergeUsage(At(f, k, NoUsage), OneEvent(e))
        BY <1>14, <2>1
      <3> QED
        BY <1>9, <1>13, <3>1, UsageMerges
    <2>2. CASE ~(IsSuccess(status) /\ k = key)
      <3>1. At(h, k, NoUsage) = At(f, k, NoUsage)
        BY <1>14, <2>2
      <3> QED
        BY <1>9, <3>1
    <2> QED
      BY <2>1, <2>2
  <1>16. r.generated \in Nat
    BY DEF ResultOK
  <1>17. ResultOK(p)
    <2>1. \A t \in DOMAIN c : c[t] \in Nat
      BY <1>7 DEF At
    <2>2. \A k \in DOMAIN h : UsageOK(h[k])
      BY <1>15 DEF At
    <2>3. p.generated \in Nat
      BY <1>2, <1>3, <1>16
    <2> QED
      BY <1>3, <1>4, <1>8, <2>1, <2>2, <2>3 DEF ResultOK
  <1>18. ASSUME NEW l
         PROVE  /\ Reading(p, l) = Reading(r, l) + ShareOf(e, status, l)
                /\ UsageAt(p, l).max >= UsageAt(r, l).max
                /\ Accepted(e, status, l) => UsageAt(p, l).max >= e.quantity
    <2>1. PICK u, v : u = UsageAt(r, l) /\ v = UsageAt(p, l)
      OBVIOUS
    <2>2. UsageOK(u) /\ UsageOK(v)
      BY <1>8, <1>9, <1>15, <2>1 DEF UsageAt
    <2>3. v = IF Accepted(e, status, l) THEN mergeUsage(u, OneEvent(e)) ELSE u
      <3>1. Accepted(e, status, l) <=> IsSuccess(status) /\ <<l.tenant, l.metric>> = key
        BY <1>8 DEF Accepted
      <3>2. u = At(f, <<l.tenant, l.metric>>, NoUsage) /\ v = At(h, <<l.tenant, l.metric>>, NoUsage)
        BY <1>8, <2>1 DEF UsageAt
      <3> QED
        BY <1>14, <3>1, <3>2
    <2>4. u.max \in Nat /\ v.max \in Nat
      BY <2>2 DEF UsageOK
    <2>5. v.max >= u.max /\ (Accepted(e, status, l) => v.max >= e.quantity)
      <3>1. CASE Accepted(e, status, l)
        <4>1. v = mergeUsage(u, OneEvent(e))
          BY <2>3, <3>1
        <4>2. v.max >= u.max /\ v.max >= OneEvent(e).max
          BY <1>13, <2>2, <4>1, UsageMerges
        <4> QED
          BY <1>13, <4>2
      <3>2. CASE ~Accepted(e, status, l)
        BY <2>3, <2>4, <3>2
      <3> QED
        BY <3>1, <3>2
    <2>6. Reading(r, l) \in Nat
      BY ReadingIsNat
    <2>7. CASE l.kind = "all"
      <3>1. Reading(p, l) = r.generated + 1 /\ Reading(r, l) = r.generated /\ ShareOf(e, status, l) = 1
        BY <1>2, <1>3, <2>7 DEF Reading, ShareOf, Counts, Weighs
      <3> QED
        BY <2>1, <2>5, <3>1
    <2>8. CASE l.kind = "tenant"
      <3>1. /\ Reading(p, l) = At(c, l.tenant, 0) /\ Reading(r, l) = At(a, l.tenant, 0)
            /\ ShareOf(e, status, l) = IF e.tenant = l.tenant THEN 1 ELSE 0
        BY <1>4, <2>8 DEF Reading, ShareOf, Counts, Weighs
      <3> QED
        BY <1>7, <2>1, <2>5, <3>1
    <2>9. CASE l.kind # "all" /\ l.kind # "tenant"
      <3>1. Reading(p, l) = UsageReading(v, l) /\ Reading(r, l) = UsageReading(u, l)
        BY <2>1, <2>9 DEF Reading
      <3>2. CASE ~Accepted(e, status, l)
        <4>1. ShareOf(e, status, l) = 0
          BY <2>9, <3>2 DEF ShareOf, Counts
        <4>2. Reading(p, l) = Reading(r, l)
          BY <2>3, <3>1, <3>2
        <4> QED
          BY <2>1, <2>5, <2>6, <4>1, <4>2
      <3>3. CASE Accepted(e, status, l)
        <4>1. v = mergeUsage(u, OneEvent(e))
          BY <2>3, <3>3
        <4>2. UsageReading(v, l) = UsageReading(u, l) + UsageReading(OneEvent(e), l)
          BY <1>13, <2>2, <4>1, UsageReadings
        <4>3. UsageReading(OneEvent(e), l) =
                 CASE l.kind = "events" -> 1 [] l.kind = "quantity" -> e.quantity
                   [] l.kind = "statusEvents" -> (IF e.status = l.status THEN 1 ELSE 0)
                   [] OTHER -> (IF e.status = l.status THEN e.quantity ELSE 0)
          BY OneEventReads
        <4>4. ShareOf(e, status, l) =
                 CASE l.kind = "events" -> 1 [] l.kind = "quantity" -> e.quantity
                   [] l.kind = "statusEvents" -> (IF e.status = l.status THEN 1 ELSE 0)
                   [] OTHER -> (IF e.status = l.status THEN e.quantity ELSE 0)
          BY <2>9, <3>3 DEF ShareOf, Counts, Weighs
        <4>5. UsageReading(OneEvent(e), l) = ShareOf(e, status, l)
          BY <4>3, <4>4
        <4> QED
          BY <2>1, <2>5, <3>1, <4>2, <4>5
      <3> QED
        BY <3>2, <3>3
    <2> QED
      BY <2>7, <2>8, <2>9
  <1> QED
    BY <1>17, <1>18

\* The loop of mergeResults.
LEMMA MergeRuns ==
    ASSUME NEW rs, Len(rs) \in Nat
    PROVE  \E g : /\ g = [i \in 0..Len(rs) |-> IF i = 0 THEN NoResult ELSE mergeResult(g[i - 1], rs[i])]
                  /\ mergeResults(rs) = g[Len(rs)]
  <1> DEFINE Is(g, k) == g = [i \in 0..k |-> IF i = 0 THEN NoResult ELSE mergeResult(g[i - 1], rs[i])]
             N == {k \in Nat : \E g : Is(g, k)}
  <1>1. 0 \in N
    <2>1. PICK g : g = [i \in 0..0 |-> NoResult]
      OBVIOUS
    <2>2. Is(g, 0)
      <3>1. \A i \in 0..0 : i = 0
        OBVIOUS
      <3> QED
        BY <2>1, <3>1
    <2> QED
      BY <2>2
  <1>2. ASSUME NEW k \in Nat, k \in N PROVE k + 1 \in N
    <2>1. PICK g : Is(g, k)
      BY <1>2
    <2>2. PICK h : h = [i \in 0..(k + 1) |-> IF i = k + 1 THEN mergeResult(g[k], rs[k + 1]) ELSE g[i]]
      OBVIOUS
    <2>3. \A i \in 0..(k + 1) : i # k + 1 => i \in 0..k
      OBVIOUS
    <2>4. \A i \in 0..(k + 1) : i # 0 => i - 1 \in 0..k /\ i - 1 \in 0..(k + 1) /\ i - 1 # k + 1
      OBVIOUS
    <2>5. ASSUME NEW i \in 0..(k + 1) PROVE h[i] = IF i = 0 THEN NoResult ELSE mergeResult(h[i - 1], rs[i])
      <3>1. i # 0 => h[i - 1] = g[i - 1]
        BY <2>2, <2>4
      <3>2. CASE i = k + 1
        <4>1. i # 0 /\ i - 1 = k
          BY <3>2
        <4>2. h[i] = mergeResult(g[k], rs[k + 1])
          BY <2>2, <3>2
        <4> QED
          BY <3>1, <3>2, <4>1, <4>2
      <3>3. CASE i # k + 1
        <4>1. h[i] = g[i]
          BY <2>2, <3>3
        <4>2. g[i] = IF i = 0 THEN NoResult ELSE mergeResult(g[i - 1], rs[i])
          BY <2>1, <2>3, <3>3
        <4> QED
          BY <3>1, <4>1, <4>2
      <3> QED
        BY <3>2, <3>3
    <2>6. Is(h, k + 1)
      <3>1. h = [i \in 0..(k + 1) |-> h[i]]
        BY <2>2
      <3>2. [i \in 0..(k + 1) |-> h[i]] = [i \in 0..(k + 1) |-> IF i = 0 THEN NoResult ELSE mergeResult(h[i - 1], rs[i])]
        BY <2>5, Zenon
      <3> QED
        BY <3>1, <3>2
    <2> HIDE DEF Is
    <2> QED
      BY <2>6
  <1> HIDE DEF N
  <1>3. Len(rs) \in N
    BY <1>1, <1>2, Upwards
  <1>4. \E g : Is(g, Len(rs))
    BY <1>3 DEF N
  <1>5. PICK f : f = CHOOSE g : Is(g, Len(rs))
    OBVIOUS
  <1>6. Is(f, Len(rs))
    <2> HIDE DEF Is
    <2> QED
      BY <1>4, <1>5
  <1>7. mergeResults(rs) = f[Len(rs)]
    BY <1>5 DEF mergeResults
  <1> QED
    BY <1>6, <1>7

Readings(rs, n, l) == [i \in 1..n |-> Reading(rs[i], l)]

LEMMA MergedReads ==
    ASSUME NEW n \in Nat, NEW rs, Len(rs) = n, \A i \in 1..n : ResultOK(rs[i])
    PROVE  /\ ResultOK(mergeResults(rs))
           /\ \A l : Reading(mergeResults(rs), l) = Total(Readings(rs, n, l))
           /\ \A l : \A i \in 1..n : UsageAt(mergeResults(rs), l).max >= UsageAt(rs[i], l).max
  <1>1. PICK g : /\ g = [i \in 0..n |-> IF i = 0 THEN NoResult ELSE mergeResult(g[i - 1], rs[i])]
                 /\ mergeResults(rs) = g[n]
    BY MergeRuns
  <1>t. ASSUME NEW k \in Nat, k <= n, NEW l PROVE Readings(rs, k, l) \in [1..k -> Int]
    <2>1. \A i \in 1..k : i \in 1..n
      BY <1>t
    <2>2. \A i \in 1..k : Reading(rs[i], l) \in Int
      BY <2>1, ReadingIsNat
    <2> QED
      BY <2>2 DEF Readings
  <1> DEFINE Summed(k) ==
                 /\ ResultOK(g[k])
                 /\ \A l : Reading(g[k], l) = Total(Readings(rs, k, l))
                 /\ \A l : \A i \in 1..k : UsageAt(g[k], l).max >= UsageAt(rs[i], l).max
             N == {k \in Nat : k <= n => Summed(k)}
  <1>2. 0 \in N
    <2>1. g[0] = NoResult
      BY <1>1
    <2>2. ASSUME NEW l PROVE Total(Readings(rs, 0, l)) = 0
      BY <1>t, TotalNone
    <2>3. \A i \in 1..0 : FALSE
      OBVIOUS
    <2>4. ResultOK(g[0]) /\ \A l : Reading(g[0], l) = Total(Readings(rs, 0, l))
      BY <2>1, <2>2, NothingYet
    <2> QED
      BY <2>3, <2>4
  <1>3. ASSUME NEW k \in Nat, k \in N PROVE k + 1 \in N
    <2> SUFFICES ASSUME k + 1 <= n PROVE Summed(k + 1)
      OBVIOUS
    <2>1. k <= n /\ k + 1 \in 1..n /\ k + 1 \in 0..n /\ k + 1 # 0 /\ (k + 1) - 1 = k
      OBVIOUS
    <2>2. PICK m, r, p : m = g[k] /\ r = rs[k + 1] /\ p = g[k + 1]
      OBVIOUS
    <2>3. p = mergeResult(m, r)
      BY <1>1, <2>1, <2>2
    <2>4. /\ ResultOK(m) /\ ResultOK(r)
          /\ \A l : Reading(m, l) = Total(Readings(rs, k, l))
          /\ \A l : \A i \in 1..k : UsageAt(m, l).max >= UsageAt(rs[i], l).max
      BY <1>3, <2>1, <2>2
    <2>5. /\ ResultOK(p)
          /\ \A l : /\ Reading(p, l) = Reading(m, l) + Reading(r, l)
                    /\ UsageAt(p, l).max >= UsageAt(m, l).max /\ UsageAt(p, l).max >= UsageAt(r, l).max
      BY <2>3, <2>4, MergeReads
    <2> HIDE DEF N, Summed
    <2>6. ASSUME NEW l PROVE Reading(p, l) = Total(Readings(rs, k + 1, l))
      <3>1. Readings(rs, k, l) \in [1..k -> Int] /\ Readings(rs, k + 1, l) \in [1..k + 1 -> Int]
        BY <1>t, <2>1
      <3>2. \A x \in 1..k : Readings(rs, k, l)[x] = Readings(rs, k + 1, l)[x]
        BY DEF Readings
      <3>3. Readings(rs, k + 1, l)[k + 1] = Reading(r, l)
        BY <2>1, <2>2 DEF Readings
      <3>4. Total(Readings(rs, k + 1, l)) = Total(Readings(rs, k, l)) + Readings(rs, k + 1, l)[k + 1]
        BY <3>1, <3>2, TotalNext
      <3> QED
        BY <2>4, <2>5, <3>3, <3>4
    <2>7. ASSUME NEW l, NEW i \in 1..k + 1 PROVE UsageAt(p, l).max >= UsageAt(rs[i], l).max
      <3>1. CASE i = k + 1
        BY <2>2, <2>5, <3>1
      <3>2. CASE i # k + 1
        <4>1. i \in 1..k /\ i \in 1..n
          BY <2>1, <3>2
        <4>2. UsageOK(UsageAt(p, l)) /\ UsageOK(UsageAt(m, l)) /\ UsageOK(UsageAt(rs[i], l))
          BY <2>4, <2>5, <4>1, ReadingIsNat
        <4>3. UsageAt(p, l).max \in Nat /\ UsageAt(m, l).max \in Nat /\ UsageAt(rs[i], l).max \in Nat
          BY <4>2 DEF UsageOK
        <4>4. UsageAt(m, l).max >= UsageAt(rs[i], l).max /\ UsageAt(p, l).max >= UsageAt(m, l).max
          BY <2>4, <2>5, <4>1
        <4> QED
          BY <4>3, <4>4
      <3> QED
        BY <3>1, <3>2
    <2> QED
      BY <2>2, <2>5, <2>6, <2>7 DEF Summed
  <1> HIDE DEF N
  <1>4. n \in N
    BY <1>2, <1>3, Upwards
  <1>5. Summed(n)
    BY <1>4 DEF N
  <1> QED
    BY <1>1, <1>5

\* g is h on S and zero on the rest of D.
ZeroOutside(g, D, h, S) ==
    /\ IsFiniteSet(D) /\ S \in SUBSET D /\ g \in [D -> Int] /\ h \in [S -> Int]
    /\ \A x \in S : g[x] = h[x]
    /\ \A x \in D : x \notin S => g[x] = 0

LEMMA TotalOfPart ==
    ASSUME NEW g, NEW D, NEW h, NEW S, ZeroOutside(g, D, h, S)
    PROVE  Total(g) = Total(h)
  <1> SUFFICES ASSUME IsFiniteSet(D), S \in SUBSET D, g \in [D -> Int], h \in [S -> Int],
                      \A x \in S : g[x] = h[x], \A x \in D : x \notin S => g[x] = 0
               PROVE  Total(g) = Total(h)
    BY DEF ZeroOutside
  <1>1. IsFiniteSet(S)
    BY FS_Subset
  <1>2. PICK p, q : p = PartSums(g) /\ q = PartSums(h)
    OBVIOUS
  <1>3. p \in [SUBSET D -> Int] /\ p[{}] = 0 /\ Total(g) = p[D]
    <2>1. AddsUp(p, g, D) /\ Total(g) = p[D]
      BY <1>2, PartSumsDo
    <2> QED
      BY <2>1, Zenon DEF AddsUp
  <1>4. q \in [SUBSET S -> Int] /\ q[{}] = 0 /\ Total(h) = q[S]
    <2>1. AddsUp(q, h, S) /\ Total(h) = q[S]
      BY <1>1, <1>2, PartSumsDo
    <2> QED
      BY <2>1, Zenon DEF AddsUp
  <1>p. ASSUME NEW s \in SUBSET D, NEW x \in s PROVE p[s] = g[x] + p[s \ {x}]
    <2>1. PartSums(g)[s] = g[x] + PartSums(g)[s \ {x}]
      BY TakeOut
    <2> QED
      BY <1>2, <2>1
  <1>q. ASSUME NEW s \in SUBSET S, NEW x \in s PROVE q[s] = h[x] + q[s \ {x}]
    <2>1. PartSums(h)[s] = h[x] + PartSums(h)[s \ {x}]
      BY <1>1, TakeOut
    <2> QED
      BY <1>2, <2>1
  <1> DEFINE P == {s \in SUBSET D : p[s] = q[s \cap S]}
  <1>5. {} \in P
    <2>1. {} \cap S = {}
      OBVIOUS
    <2> QED
      BY <1>3, <1>4, <2>1
  <1>6. ASSUME NEW s \in SUBSET D, s # {}, \A x \in s : s \ {x} \in P PROVE s \in P
    <2>1. PICK x \in s : TRUE
      BY <1>6
    <2>2. p[s] = g[x] + p[s \ {x}]
      BY <1>p
    <2>3. p[s \ {x}] = q[(s \ {x}) \cap S] /\ p[s \ {x}] \in Int
      BY <1>3, <1>6, <2>1
    <2>4. CASE x \in S
      <3>1. PICK t : t = s \cap S
        OBVIOUS
      <3>2. t \in SUBSET S /\ x \in t /\ t \ {x} = (s \ {x}) \cap S
        BY <2>4, <3>1
      <3>3. q[t] = h[x] + q[t \ {x}]
        BY <1>q, <3>2
      <3>4. p[s] = q[t]
        BY <2>2, <2>3, <2>4, <3>2, <3>3
      <3> QED
        BY <3>1, <3>4
    <2>5. CASE x \notin S
      <3>1. (s \ {x}) \cap S = s \cap S /\ g[x] = 0
        BY <2>5
      <3>2. p[s] = p[s \ {x}]
        BY <2>2, <2>3, <3>1
      <3>3. p[s] = q[s \cap S]
        BY <2>3, <3>1, <3>2
      <3> QED
        BY <3>3
    <2> QED
      BY <2>4, <2>5
  <1> HIDE DEF P
  <1>7. D \in P
    BY <1>5, <1>6, PartInduction
  <1>8. D \cap S = S
    OBVIOUS
  <1> QED
    BY <1>3, <1>4, <1>7, <1>8 DEF P

LEMMA TotalOfOnes ==
    ASSUME NEW S, IsFiniteSet(S), NEW h \in [S -> Int], \A x \in S : h[x] = 1
    PROVE  Total(h) = Cardinality(S)
  <1>1. h \in [S -> Int] /\ \A x \in S : h[x] = 1
    OBVIOUS
  <1>2. PICK q : q = PartSums(h)
    OBVIOUS
  <1>3. q \in [SUBSET S -> Int] /\ q[{}] = 0 /\ Total(h) = q[S]
    <2>1. AddsUp(q, h, S) /\ Total(h) = q[S]
      BY <1>1, <1>2, PartSumsDo
    <2> QED
      BY <2>1, Zenon DEF AddsUp
  <1>q. ASSUME NEW s \in SUBSET S, NEW x \in s PROVE q[s] = h[x] + q[s \ {x}]
    <2>1. PartSums(h)[s] = h[x] + PartSums(h)[s \ {x}]
      BY <1>1, TakeOut
    <2> QED
      BY <1>2, <2>1
  <1> DEFINE P == {s \in SUBSET S : q[s] = Cardinality(s)}
  <1>4. {} \in P
    BY <1>3, FS_EmptySet
  <1>5. ASSUME NEW s \in SUBSET S, s # {}, \A x \in s : s \ {x} \in P PROVE s \in P
    <2>1. PICK x \in s : TRUE
      BY <1>5
    <2>2. q[s] = h[x] + q[s \ {x}]
      BY <1>q
    <2>3. Cardinality(s) \in Nat /\ Cardinality(s \ {x}) = Cardinality(s) - 1
      BY OneLess
    <2>4. q[s \ {x}] = Cardinality(s \ {x}) /\ h[x] = 1
      BY <1>1, <1>5, <2>1
    <2>5. q[s] = Cardinality(s)
      BY <2>2, <2>3, <2>4
    <2> QED
      BY <2>5
  <1> HIDE DEF P
  <1>6. S \in P
    BY <1>4, <1>5, PartInduction
  <1> QED
    BY <1>3, <1>6 DEF P

-----------------------------------------------------------------------------
(* What is in an event.                                                    *)

LEMMA StaleListed ==
    ASSUME NEW j, JobOK(j), NEW m, Range(m) \subseteq Range(j.manifest), NEW i \in DOMAIN collectStaleSubs(m).subs
    PROVE  /\ collectStaleSubs(m).subs[i] \in StaleSubs(m)
           /\ collectStaleSubs(m).keys[i] = revokedKeys(collectStaleSubs(m).subs[i])
  <1>1. PICK S, key : S = StaleSubs(m) /\ key = [s \in S |-> s.id]
    OBVIOUS
  <1>2. IsFiniteSet(Range(m))
    <2>1. IsFiniteSet(Range(j.manifest))
      BY Listed DEF JobOK
    <2> QED
      BY <2>1, FS_Subset
  <1>3. ASSUME NEW s \in S PROVE \E t \in Range(j.manifest) : s \in Range(t.subs)
    BY <1>1 DEF StaleSubs
  <1>4. IsFiniteSet(S)
    <2>1. PICK F : F = [t \in Range(m) |-> {s \in Range(t.subs) : s.stale /\ revokedKeys(s) # {}}]
      OBVIOUS
    <2>2. ASSUME NEW t \in Range(m) PROVE IsFiniteSet(F[t])
      <3>1. IsFiniteSet(Range(t.subs))
        BY Listed DEF JobOK
      <3>2. F[t] \subseteq Range(t.subs)
        BY <2>1
      <3> QED
        BY <3>1, <3>2, FS_Subset
    <2>3. PICK U : U = {F[t] : t \in Range(m)}
      OBVIOUS
    <2>4. IsFiniteSet(U)
      <3>1. F \in Surjection(Range(m), U)
        <4>1. F \in [Range(m) -> U]
          BY <2>1, <2>3
        <4>2. \A u \in U : \E t \in Range(m) : F[t] = u
          BY <2>3
        <4> QED
          BY <4>1, <4>2 DEF Surjection
      <3> QED
        BY <1>2, <3>1, FS_Surjection
    <2>5. \A u \in U : IsFiniteSet(u)
      BY <2>2, <2>3
    <2>6. IsFiniteSet(UNION U)
      BY <2>4, <2>5, FS_UNION
    <2>7. S = UNION U
      BY <1>1, <2>1, <2>3 DEF StaleSubs
    <2> QED
      BY <2>6, <2>7
  <1>5. \A s \in S : key[s] \in Int
    BY <1>1, <1>3 DEF JobOK
  <1>6. \A r, s \in S : key[r] = key[s] => r = s
    BY <1>1, <1>3 DEF JobOK
  <1>7. PICK f : f = SortedBy(S, key)
    OBVIOUS
  <1>8. f \in [1..Cardinality(S) -> S]
    <2>1. SortedBy(S, key) \in [1..Cardinality(S) -> S]
      BY <1>4, <1>5, <1>6, Sorted1
    <2> QED
      BY <1>7, <2>1
  <1>9. PICK g : g = OriginalKeys(S)
    OBVIOUS
  <1>10. /\ collectStaleSubs(m).subs = f
         /\ collectStaleSubs(m).keys = IF Len(f) > 1 THEN newKeys(f, g) ELSE [k \in DOMAIN f |-> revokedKeys(f[k])]
    BY <1>1, <1>7, <1>9 DEF collectStaleSubs
  <1>11. /\ \A k, l \in DOMAIN f : f[k] = f[l] => k = l
         /\ \A s \in S : \E k \in DOMAIN f : f[k] = s
    BY <1>4, <1>5, <1>6, <1>7, <1>8, Sorted1
  <1>12. i \in DOMAIN f /\ f[i] \in S
    BY <1>8, <1>10
  <1>13. newKeys(f, g)[i] = revokedKeys(f[i])
    <2>1. \A r, s \in S : r.id = s.id => r = s
      BY <1>1, <1>6
    <2>2. DOMAIN g = {s.id : s \in S} /\ \A s \in S : g[s.id] = revokedKeys(s)
      <3>1. g = [id \in {s.id : s \in S} |-> revokedKeys(CHOOSE s \in S : s.id = id)]
        BY <1>9 DEF OriginalKeys
      <3>2. ASSUME NEW s \in S PROVE (CHOOSE r \in S : r.id = s.id) = s
        <4>1. (CHOOSE r \in S : r.id = s.id) \in S /\ (CHOOSE r \in S : r.id = s.id).id = s.id
          BY Zenon
        <4> QED
          BY <2>1, <4>1
      <3> QED
        BY <3>1, <3>2
    <2>3. PICK idx : idx = [id \in DOMAIN g |-> CHOOSE k \in DOMAIN f : f[k].id = id]
      OBVIOUS
    <2>4. ASSUME NEW id \in DOMAIN g PROVE idx[id] \in DOMAIN f /\ f[idx[id]].id = id
      <3>1. \E k \in DOMAIN f : f[k].id = id
        BY <1>11, <2>2
      <3>2. idx[id] = CHOOSE k \in DOMAIN f : f[k].id = id
        BY <2>3
      <3> QED
        BY <3>1, <3>2, Zenon
    <2>5. f[i].id \in DOMAIN g /\ idx[f[i].id] = i
      <3>1. f[i].id \in DOMAIN g
        BY <1>12, <2>2
      <3>2. idx[f[i].id] \in DOMAIN f /\ f[idx[f[i].id]].id = f[i].id
        BY <2>4, <3>1
      <3>3. f[idx[f[i].id]] = f[i]
        BY <1>8, <1>12, <2>1, <3>2
      <3> QED
        BY <1>11, <1>12, <3>1, <3>2, <3>3
    <2>6. PICK c : c = CHOOSE id \in DOMAIN g : idx[id] = i
      OBVIOUS
    <2>7. c \in DOMAIN g /\ idx[c] = i
      BY <2>5, <2>6, Zenon
    <2>8. c = f[i].id
      BY <2>4, <2>7
    <2>9. newKeys(f, g)[i] = g[c]
      <3>1. newKeys(f, g)[i] = g[CHOOSE id \in DOMAIN g : [x \in DOMAIN g |-> CHOOSE k \in DOMAIN f : f[k].id = x][id] = i]
        BY <1>12, Zenon DEF newKeys
      <3> QED
        BY <2>3, <2>6, <3>1, Zenon
    <2> QED
      BY <1>12, <2>2, <2>8, <2>9
  <1> QED
    BY <1>1, <1>10, <1>12, <1>13

\* Somebody's draw.
Drawn(t, m, sc, at, e) ==
    \E triple, met, path : \E body \in Bodies : \E kind \in Pick(sc.shares) :
        e \in Apply(Compose(t, triple, met, body, path, at), kind, m)

LEMMA EventDrawn ==
    ASSUME NEW m, NEW sc, NEW at, NEW e \in produce(m, sc, at)
    PROVE  \E t \in Range(m) : Drawn(t, m, sc, at, e)
  <1>1. produce(m, sc, at) = UNION {Apply(x, kind, m) : kind \in Pick(sc.shares), x \in Draws(m, sc, at)}
    BY DEF produce
  <1>2. PICK kind \in Pick(sc.shares), x \in Draws(m, sc, at) : e \in Apply(x, kind, m)
    BY <1>1
  <1>3. PICK t \in indexTenants(m) : x \in DrawsFor(t, sc, at)
    BY <1>2 DEF Draws
  <1>4. t \in Range(m)
    BY <1>3 DEF indexTenants
  <1>5. PICK triple \in Triples(t, sc) : x \in DrawsWith(t, triple, sc, at)
    BY <1>3 DEF DrawsFor
  <1>6. PICK met, path, body : body \in Bodies /\ x = Compose(t, triple, met, body, path, at)
    BY <1>5 DEF DrawsWith
  <1> QED
    BY <1>2, <1>4, <1>6 DEF Drawn

EventShape(x) ==
    x = [tenant |-> x.tenant, customer |-> x.customer, sub |-> x.sub, type |-> x.type, path |-> x.path,
         metric |-> x.metric, quantity |-> x.quantity, status |-> x.status, at |-> x.at, token |-> x.token,
         ingest |-> x.ingest, negative |-> x.negative, raw |-> x.raw, oversize |-> x.oversize, stale |-> x.stale]

\* An event for t without a fault.
Faultless(x, t, at) ==
    /\ EventShape(x)
    /\ x.tenant = t.id /\ x.quantity \in Nat \ {0} /\ x.at = at /\ x.ingest = t.ingest
    /\ x.raw = FALSE /\ x.oversize = FALSE

LEMMA Composed ==
    ASSUME NEW t, NEW triple, NEW met, NEW body \in Bodies, NEW path, NEW at
    PROVE  Faultless(Compose(t, triple, met, body, path, at), t, at)
  <1>1. resolveQuantity(body, met) \in Nat \ {0}
    <2> DEFINE read == /\ met.agg \in {"SUM", "MAX", "AVG", "PERCENTILE_95", "PERCENTILE_99", "MIN"}
                       /\ met.field \in DOMAIN body.fields /\ body.fields[met.field] > 0
    <2>1. CASE read
      <3>1. body.fields[met.field] \in Int /\ body.fields[met.field] > 0
        BY <2>1, TrafficAssumption
      <3>2. resolveQuantity(body, met) = body.fields[met.field]
        BY <2>1 DEF resolveQuantity
      <3>3. PICK v : v = body.fields[met.field]
        OBVIOUS
      <3>4. v \in Int /\ v > 0 /\ resolveQuantity(body, met) = v
        BY <3>1, <3>2, <3>3
      <3> QED
        BY <3>4
    <2>2. CASE ~read
      <3>1. resolveQuantity(body, met) = 1
        BY <2>2 DEF resolveQuantity
      <3> QED
        BY <3>1
    <2> QED
      BY <2>1, <2>2
  <1>2. PICK q : q = resolveQuantity(body, met)
    OBVIOUS
  <1>3. PICK x : x = [tenant |-> t.id, customer |-> triple.sub.customer, sub |-> triple.sub.id, type |-> triple.type, path |-> path,
             metric |-> met.name, quantity |-> q, status |-> body.status, at |-> at,
             token |-> triple.key.secret, ingest |-> t.ingest, negative |-> "", raw |-> FALSE, oversize |-> FALSE, stale |-> 0]
    OBVIOUS
  <1>4. /\ x.tenant = t.id /\ x.customer = triple.sub.customer /\ x.sub = triple.sub.id /\ x.type = triple.type
        /\ x.path = path /\ x.metric = met.name /\ x.quantity = q /\ x.status = body.status /\ x.at = at
        /\ x.token = triple.key.secret /\ x.ingest = t.ingest /\ x.negative = "" /\ x.raw = FALSE
        /\ x.oversize = FALSE /\ x.stale = 0
    <2>1. x.tenant = t.id /\ x.customer = triple.sub.customer /\ x.sub = triple.sub.id /\ x.type = triple.type
      BY <1>3
    <2>2. x.path = path /\ x.metric = met.name /\ x.quantity = q /\ x.status = body.status /\ x.at = at
      BY <1>3
    <2>3. x.token = triple.key.secret /\ x.ingest = t.ingest /\ x.negative = "" /\ x.stale = 0
      BY <1>3
    <2>4. x.raw = FALSE /\ x.oversize = FALSE
      BY <1>3
    <2> QED
      BY <2>1, <2>2, <2>3, <2>4
  <1>5. EventShape(x)
    BY <1>3, <1>4, Zenon DEF EventShape
  <1>6. Faultless(x, t, at)
    BY <1>1, <1>2, <1>4, <1>5 DEF Faultless
  <1>7. Compose(t, triple, met, body, path, at) = x
    BY <1>2, <1>3 DEF Compose
  <1> QED
    BY <1>6, <1>7

\* What a fault does to an event and what it leaves alone.
Faulty(e, kind, x, m) ==
    /\ e.negative = kind /\ e.tenant = x.tenant /\ e.quantity = x.quantity
    /\ e.at = IF kind = "late_event" THEN x.at - 120 ELSE IF kind = "future_event" THEN x.at + 10 ELSE x.at
    /\ e.raw = (x.raw \/ kind = "malformed") /\ e.oversize = (x.oversize \/ kind = "oversize")
    /\ e.ingest = IF kind \in {"wrong_auth", "stale_key"} THEN "" ELSE x.ingest
    /\ kind = "wrong_auth" => e.token = "fabricated"
    /\ kind = "stale_key" =>
          \E t \in Range(m) : \E s \in Range(t.subs) : \E k \in Range(s.keys) :
              k.revoked /\ e.token = k.secret /\ e.stale = s.id

LEMMA FaultInjected ==
    ASSUME NEW j, JobOK(j), NEW m, Range(m) \subseteq Range(j.manifest),
           NEW x, NEW t, NEW at, Faultless(x, t, at),
           NEW kind \in Pick(j.scenario.shares), NEW e \in Apply(x, kind, m)
    PROVE  Faulty(e, kind, x, m) /\ kind \in {"", "late_event", "future_event", "malformed", "wrong_auth", "stale_key", "oversize"}
  <1>1. kind \in {"", "late_event", "future_event", "malformed", "wrong_auth", "stale_key", "oversize"}
    <2>1. kind \in Range(NegativeKinds) \cup {""}
      BY DEF JobOK, Pick, PositiveKeys
    <2>2. Range(NegativeKinds) = {NegativeKinds[i] : i \in 1..6}
      BY DEF Range, NegativeKinds
    <2>3. \A i \in 1..6 : i = 1 \/ i = 2 \/ i = 3 \/ i = 4 \/ i = 5 \/ i = 6
      OBVIOUS
    <2>4. /\ NegativeKinds[1] = "late_event" /\ NegativeKinds[2] = "future_event" /\ NegativeKinds[3] = "malformed"
          /\ NegativeKinds[4] = "wrong_auth" /\ NegativeKinds[5] = "stale_key" /\ NegativeKinds[6] = "oversize"
      BY DEF NegativeKinds
    <2> QED
      BY <2>1, <2>2, <2>3, <2>4
  <1>2. EventShape(x) /\ x.raw = FALSE /\ x.oversize = FALSE
    BY DEF Faultless
  <1>3. CASE kind = ""
    <2>1. e = [x EXCEPT !.negative = kind]
      BY <1>3 DEF Apply
    <2> QED
      BY <1>1, <1>2, <1>3, <2>1 DEF EventShape, Faulty
  <1>4. CASE kind = "late_event"
    <2>1. e = [injectLate(x) EXCEPT !.negative = kind]
      BY <1>4 DEF Apply
    <2> QED
      BY <1>1, <1>2, <1>4, <2>1 DEF EventShape, Faulty, injectLate
  <1>5. CASE kind = "future_event"
    <2>1. e = [injectFuture(x) EXCEPT !.negative = kind]
      BY <1>5 DEF Apply
    <2> QED
      BY <1>1, <1>2, <1>5, <2>1 DEF EventShape, Faulty, injectFuture
  <1>6. CASE kind = "malformed"
    <2>1. e = [injectMalformed(x) EXCEPT !.negative = kind]
      BY <1>6 DEF Apply
    <2> QED
      BY <1>1, <1>2, <1>6, <2>1 DEF EventShape, Faulty, injectMalformed
  <1>7. CASE kind = "wrong_auth"
    <2>1. e = [injectWrongAuth(x) EXCEPT !.negative = kind]
      BY <1>7 DEF Apply
    <2> QED
      BY <1>1, <1>2, <1>7, <2>1 DEF EventShape, Faulty, injectWrongAuth
  <1>8. CASE kind = "oversize"
    <2>1. e = [injectOversize(x) EXCEPT !.negative = kind]
      BY <1>8 DEF Apply
    <2> QED
      BY <1>1, <1>2, <1>8, <2>1 DEF EventShape, Faulty, injectOversize
  <1>9. CASE kind = "stale_key"
    <2>1. PICK c : c = collectStaleSubs(m)
      OBVIOUS
    <2>2. PICK i, k : i \in DOMAIN c.subs /\ k \in c.keys[i] /\ e = [injectStaleKey(x, c.subs[i], k) EXCEPT !.negative = kind]
      BY <1>9, <2>1 DEF Apply
    <2>3. PICK s : s = c.subs[i]
      OBVIOUS
    <2>4. s \in StaleSubs(m) /\ c.keys[i] = revokedKeys(s)
      BY <2>1, <2>2, <2>3, StaleListed
    <2>5. PICK u \in Range(m) : s \in Range(u.subs)
      BY <2>4 DEF StaleSubs
    <2>6. k \in Range(s.keys) /\ k.revoked
      BY <2>2, <2>4 DEF revokedKeys
    <2>7. e = [[x EXCEPT !.token = k.secret, !.ingest = "", !.sub = s.id, !.stale = s.id] EXCEPT !.negative = kind]
      BY <2>2, <2>3 DEF injectStaleKey
    <2>8. /\ e.negative = kind /\ e.tenant = x.tenant /\ e.quantity = x.quantity /\ e.at = x.at /\ e.raw = x.raw
          /\ e.oversize = x.oversize /\ e.ingest = "" /\ e.token = k.secret /\ e.stale = s.id
      BY <1>2, <2>7 DEF EventShape
    <2> QED
      BY <1>1, <1>2, <1>9, <2>5, <2>6, <2>8 DEF Faulty
  <1> QED
    BY <1>1, <1>3, <1>4, <1>5, <1>6, <1>7, <1>8, <1>9

\* The answer of the endpoint, case by case.
AnswerOf(e) ==
    /\ ~Opens(e) /\ e.path # "webhook_receiver" => IngestStatus(e, 0) = 401
    /\ Opens(e) =>
          /\ e.oversize => IngestStatus(e, 0) = 413
          /\ ~e.oversize /\ SendsRaw(e) => IngestStatus(e, 0) = 400
          /\ ~e.oversize /\ ~SendsRaw(e) /\ e.at > 0 + 5 => IngestStatus(e, 0) = 422
          /\ ~e.oversize /\ ~SendsRaw(e) /\ ~(e.at > 0 + 5) /\ ~(e.quantity <= 0) => IngestStatus(e, 0) = 202

LEMMA Answered ==
    ASSUME NEW e
    PROVE  AnswerOf(e)
  BY DEF AnswerOf, IngestStatus

\* FaultsAsTagged and StaleKeysAligned of one event.
AsTagged(e, lag) ==
    CASE e.negative \in {"", "late_event"} \/ Uncarried(e) -> IngestStatus(e, 0) = 202
      [] e.negative = "future_event" -> lag < 5 => IngestStatus(e, 0) = 422
      [] OTHER -> ExpectedFailure(e, IngestStatus(e, 0))
Tagged(e, lag) == Reaches(e) => AsTagged(e, lag)
Aligned(e) ==
    e.negative = "stale_key" =>
        \E t \in Range(job.manifest) : \E s \in Range(t.subs) :
            s.id = e.stale /\ \E k \in Range(s.keys) : k.revoked /\ k.secret = e.token

LEMMA EventMade ==
    ASSUME JobOK(job), NEW m, Range(m) \subseteq Range(job.manifest), NEW lag \in Nat,
           NEW e \in produce(m, job.scenario, -lag)
    PROVE  e.quantity \in Nat /\ Tagged(e, lag) /\ Aligned(e)
  <1>1. PICK t \in Range(m) : Drawn(t, m, job.scenario, -lag, e)
    BY EventDrawn
  <1>2. PICK x, kind : /\ kind \in Pick(job.scenario.shares) /\ e \in Apply(x, kind, m)
                       /\ Faultless(x, t, -lag)
    BY <1>1, Composed DEF Drawn
  <1>3. Faulty(e, kind, x, m) /\ kind \in {"", "late_event", "future_event", "malformed", "wrong_auth", "stale_key", "oversize"}
    BY <1>2, FaultInjected
  <1>4. /\ x.tenant = t.id /\ x.quantity \in Nat \ {0} /\ x.at = -lag /\ x.ingest = t.ingest
        /\ x.raw = FALSE /\ x.oversize = FALSE
    BY <1>2 DEF Faultless
  <1>5. /\ e.negative = kind /\ e.tenant = t.id /\ e.quantity \in Nat \ {0}
        /\ e.at = IF kind = "late_event" THEN -lag - 120 ELSE IF kind = "future_event" THEN -lag + 10 ELSE -lag
        /\ e.raw <=> kind = "malformed"
        /\ e.oversize <=> kind = "oversize"
        /\ e.ingest = IF kind \in {"wrong_auth", "stale_key"} THEN "" ELSE t.ingest
        /\ kind = "wrong_auth" => e.token = "fabricated"
        /\ kind = "stale_key" =>
              \E u \in Range(m) : \E s \in Range(u.subs) : \E k \in Range(s.keys) :
                  k.revoked /\ e.token = k.secret /\ e.stale = s.id
    BY <1>3, <1>4 DEF Faulty
  <1>6. Aligned(e)
    BY <1>5 DEF Aligned
  <1>7. ASSUME Reaches(e) PROVE AsTagged(e, lag)
    <2>1. t \in Range(job.manifest) /\ \A u \in Range(job.manifest) : u.id = t.id => u = t
      BY <1>1, TenantsDiffer
    <2>2. e.path = "webhook_receiver" => Opens(e)
      BY <1>7 DEF Reaches, Opens
    <2>3. ASSUME e.path # "webhook_receiver"
          PROVE  t.ingest # "" /\ (Opens(e) <=> Credential(e) = t.ingest)
      <3>1. \E u \in Range(job.manifest) : u.id = e.tenant /\ u.ingest # ""
        BY <1>7, <2>3 DEF Reaches
      <3>2. t.ingest # "" /\ e.tenant = t.id
        BY <1>5, <2>1, <3>1
      <3>3. {y \in Range(job.manifest) : y.id = e.tenant} = {t}
        BY <2>1, <3>2
      <3>4. IngestKeys(e.tenant) = {t.ingest}
        BY <3>2, <3>3 DEF IngestKeys
      <3> QED
        BY <2>3, <3>2, <3>4 DEF Opens
    <2>4. kind \notin {"wrong_auth", "stale_key"} => Opens(e)
      BY <1>5, <2>2, <2>3 DEF Credential, applyAuthHeaders
    <2>5. /\ ~Opens(e) /\ e.path # "webhook_receiver" => IngestStatus(e, 0) = 401
          /\ Opens(e) =>
                /\ e.oversize => IngestStatus(e, 0) = 413
                /\ ~e.oversize /\ SendsRaw(e) => IngestStatus(e, 0) = 400
                /\ ~e.oversize /\ ~SendsRaw(e) /\ e.at > 0 + 5 => IngestStatus(e, 0) = 422
                /\ ~e.oversize /\ ~SendsRaw(e) /\ ~(e.at > 0 + 5) /\ ~(e.quantity <= 0) => IngestStatus(e, 0) = 202
      BY Answered DEF AnswerOf
    <2>6. ~(e.quantity <= 0)
      <3>1. e.quantity \in Nat \ {0}
        BY <1>5
      <3>2. \A q \in Nat \ {0} : ~(q <= 0)
        OBVIOUS
      <3> QED
        BY <3>1, <3>2
    <2>7. kind # "future_event" => ~(e.at > 0 + 5)
      <3>1. kind # "future_event" => e.at = -lag - 120 \/ e.at = -lag
        BY <1>5
      <3>2. ~(-lag - 120 > 0 + 5) /\ ~(-lag > 0 + 5)
        OBVIOUS
      <3> QED
        BY <3>1, <3>2
    <2>8. (SendsRaw(e) <=> kind = "malformed" /\ e.path # "ai_agent_rest") /\ (e.oversize <=> kind = "oversize")
      BY <1>5 DEF SendsRaw
    <2>9. Uncarried(e) <=> \/ e.path = "webhook_receiver" /\ kind \in {"wrong_auth", "stale_key"}
                           \/ e.path = "ai_agent_rest" /\ kind = "malformed"
      BY <1>5 DEF Uncarried
    <2>10. CASE kind = "" \/ kind = "late_event" \/ Uncarried(e)
      <3>1. Opens(e) /\ ~e.oversize /\ ~SendsRaw(e) /\ kind # "future_event"
        BY <2>2, <2>4, <2>8, <2>9, <2>10
      <3>2. IngestStatus(e, 0) = 202
        BY <2>5, <2>6, <2>7, <3>1
      <3>3. e.negative \in {"", "late_event"} \/ Uncarried(e)
        BY <1>5, <2>10
      <3>4. e.negative # "future_event"
        BY <1>5, <3>1
      <3> QED
        BY <3>2, <3>3, <3>4, Zenon DEF AsTagged
    <2>11. CASE kind = "future_event"
      <3>1. (lag < 5 => e.at > 0 + 5) /\ Opens(e) /\ ~SendsRaw(e) /\ ~e.oversize
        <4>1. e.at = -lag + 10
          BY <1>5, <2>11
        <4>2. lag < 5 => -lag + 10 > 0 + 5
          OBVIOUS
        <4> QED
          BY <2>4, <2>8, <2>11, <4>1, <4>2
      <3>2. lag < 5 => IngestStatus(e, 0) = 422
        BY <2>5, <3>1
      <3>3. e.negative = "future_event" /\ ~Uncarried(e)
        BY <1>5, <2>9, <2>11
      <3> QED
        BY <3>2, <3>3 DEF AsTagged
    <2>12. CASE (kind = "malformed" \/ kind = "oversize") /\ ~Uncarried(e)
      <3>1. IngestStatus(e, 0) \in {400, 413}
        BY <2>4, <2>5, <2>8, <2>9, <2>12
      <3>2. IsClientError(IngestStatus(e, 0))
        BY <3>1 DEF IsClientError
      <3>3. ExpectedFailure(e, IngestStatus(e, 0))
        BY <1>5, <2>12, <3>2 DEF ExpectedFailure
      <3>4. e.negative \notin {"", "late_event", "future_event"}
        BY <1>5, <2>12
      <3> QED
        BY <2>12, <3>3, <3>4 DEF AsTagged
    <2>13. CASE (kind = "wrong_auth" \/ kind = "stale_key") /\ ~Uncarried(e)
      <3>0. e.path # "webhook_receiver"
        BY <2>9, <2>13
      <3>1. e.token # "" /\ e.token # t.ingest /\ e.ingest = ""
        <4>1. CASE kind = "wrong_auth"
          <5>1. t.ingest # "fabricated"
            BY <2>1 DEF JobOK
          <5> QED
            BY <1>5, <4>1, <5>1
        <4>2. CASE kind = "stale_key"
          <5>1. PICK u \in Range(m) : \E s \in Range(u.subs) : \E k \in Range(s.keys) : k.revoked /\ e.token = k.secret
            BY <1>5, <4>2
          <5>2. PICK s \in Range(u.subs) : \E k \in Range(s.keys) : e.token = k.secret
            BY <5>1
          <5>3. PICK k \in Range(s.keys) : e.token = k.secret
            BY <5>2
          <5>4. u \in Range(job.manifest)
            OBVIOUS
          <5>5. k.secret # ""
            BY <5>4 DEF JobOK
          <5>6. k.secret # t.ingest
            BY <2>1, <5>4 DEF JobOK
          <5> QED
            BY <1>5, <4>2, <5>3, <5>5, <5>6
        <4> QED
          BY <2>13, <4>1, <4>2
      <3>2. Credential(e) = e.token
        BY <3>1 DEF Credential, applyAuthHeaders
      <3>3. IngestStatus(e, 0) = 401
        BY <2>3, <2>5, <3>0, <3>1, <3>2
      <3>4. ExpectedFailure(e, IngestStatus(e, 0))
        BY <1>5, <2>13, <3>3 DEF ExpectedFailure
      <3>5. e.negative \notin {"", "late_event", "future_event"}
        BY <1>5, <2>13
      <3> QED
        BY <2>13, <3>4, <3>5 DEF AsTagged
    <2> QED
      BY <1>3, <2>10, <2>11, <2>12, <2>13
  <1>8. Tagged(e, lag)
    BY <1>7, Zenon DEF Tagged
  <1> QED
    BY <1>5, <1>6, <1>8

(***************************************************************************)
(* The run as a whole: the readings of the partitions' results add up to   *)
(* the shares of what was sent.                                            *)
(***************************************************************************)
SharesOf(s, l) == [j \in 1..Len(s) |-> ShareOf(s[j].event, s[j].status, l)]
Results(sh) == [i \in DOMAIN sh |-> sh[i].result]

Weighed(s) == Len(s) \in Nat /\ \A j \in 1..Len(s) : s[j].event.quantity \in Nat
Accounted(rs, n, s) ==
    /\ \A l : Total(Readings(rs, n, l)) = Total(SharesOf(s, l))
    /\ \A l : \A j \in 1..Len(s) : Accepted(s[j].event, s[j].status, l) =>
                  \E i \in 1..n : UsageAt(rs[i], l).max >= s[j].event.quantity
Summed(m, s) ==
    /\ ResultOK(m)
    /\ \A l : Reading(m, l) = Total(SharesOf(s, l))
    /\ \A l : \A j \in 1..Len(s) : Accepted(s[j].event, s[j].status, l) => UsageAt(m, l).max >= s[j].event.quantity

LEMMA ShareIsNat ==
    ASSUME NEW e, e.quantity \in Nat, NEW status, NEW l
    PROVE  ShareOf(e, status, l) \in Nat
  BY DEF ShareOf, Weighs

LEMMA ReadingsAreInts ==
    ASSUME NEW n \in Nat, NEW rs, \A i \in 1..n : ResultOK(rs[i]), NEW l
    PROVE  Readings(rs, n, l) \in [1..n -> Int]
  <1>1. \A i \in 1..n : Reading(rs[i], l) \in Int
    BY ReadingIsNat
  <1> QED
    BY <1>1 DEF Readings

LEMMA SharesAreInts ==
    ASSUME NEW s, Weighed(s), NEW l
    PROVE  SharesOf(s, l) \in [1..Len(s) -> Int]
  <1>1. \A j \in 1..Len(s) : ShareOf(s[j].event, s[j].status, l) \in Int
    BY ShareIsNat DEF Weighed
  <1> QED
    BY <1>1 DEF SharesOf

LEMMA MaxIsNat ==
    ASSUME NEW r, ResultOK(r), NEW l
    PROVE  UsageAt(r, l).max \in Nat
  BY ReadingIsNat DEF UsageOK

\* An answer goes to the result of partition i and to the history.
AnswerTo(n, rs, qs, i, s, t, e, status) ==
    /\ n \in Nat /\ (\A k \in 1..n : ResultOK(rs[k])) /\ i \in 1..n
    /\ Weighed(s) /\ e.quantity \in Nat
    /\ \A k \in 1..n : k # i => qs[k] = rs[k]
    /\ qs[i] = onResult(Dispatch(rs[i], e, status), e, status)
    /\ Len(t) = Len(s) + 1 /\ \A j \in 1..Len(s) : t[j] = s[j]
    /\ t[Len(s) + 1].event = e /\ t[Len(s) + 1].status = status
    /\ Accounted(rs, n, s)

LEMMA AnswerAccounted ==
    ASSUME NEW n, NEW rs, NEW qs, NEW i, NEW s, NEW t, NEW e, NEW status, AnswerTo(n, rs, qs, i, s, t, e, status)
    PROVE  (\A k \in 1..n : ResultOK(qs[k])) /\ Weighed(t) /\ Accounted(qs, n, t)
  <1> SUFFICES ASSUME n \in Nat, \A k \in 1..n : ResultOK(rs[k]), i \in 1..n,
                      Weighed(s), e.quantity \in Nat,
                      \A k \in 1..n : k # i => qs[k] = rs[k],
                      qs[i] = onResult(Dispatch(rs[i], e, status), e, status),
                      Len(t) = Len(s) + 1, \A j \in 1..Len(s) : t[j] = s[j],
                      t[Len(s) + 1].event = e, t[Len(s) + 1].status = status,
                      Accounted(rs, n, s)
               PROVE  (\A k \in 1..n : ResultOK(qs[k])) /\ Weighed(t) /\ Accounted(qs, n, t)
    BY DEF AnswerTo
  <1>1. PICK p : p = qs[i]
    OBVIOUS
  <1>2. /\ ResultOK(p)
        /\ \A l : /\ Reading(p, l) = Reading(rs[i], l) + ShareOf(e, status, l)
                  /\ UsageAt(p, l).max >= UsageAt(rs[i], l).max
                  /\ Accepted(e, status, l) => UsageAt(p, l).max >= e.quantity
    BY <1>1, SendReads
  <1>3. \A k \in 1..n : ResultOK(qs[k])
    BY <1>1, <1>2
  <1>4. PICK m : m = Len(s)
    OBVIOUS
  <1>5. m \in Nat /\ Len(t) = m + 1 /\ (\A j \in 1..m : t[j] = s[j]) /\ t[m + 1].event = e /\ t[m + 1].status = status
    BY <1>4 DEF Weighed
  <1>6. Weighed(t)
    <2>1. ASSUME NEW j \in 1..m + 1 PROVE t[j].event.quantity \in Nat
      <3>1. CASE j = m + 1
        BY <1>5, <3>1
      <3>2. CASE j # m + 1
        <4>1. j \in 1..m
          BY <1>5, <3>2
        <4> QED
          BY <1>4, <1>5, <4>1 DEF Weighed
      <3> QED
        BY <3>1, <3>2
    <2>2. m + 1 \in Nat
      BY <1>5
    <2> QED
      BY <1>5, <2>1, <2>2 DEF Weighed
  <1>7. ASSUME NEW l PROVE Total(Readings(qs, n, l)) = Total(SharesOf(t, l))
    <2>1. PICK f, g : f = Readings(rs, n, l) /\ g = Readings(qs, n, l)
      OBVIOUS
    <2>2. f \in [1..n -> Int] /\ g \in [1..n -> Int]
      BY <1>3, <2>1, ReadingsAreInts
    <2>3. \A k \in 1..n : k # i => g[k] = f[k]
      BY <2>1 DEF Readings
    <2>4. g[i] = f[i] + ShareOf(e, status, l)
      <3>1. f[i] = Reading(rs[i], l) /\ g[i] = Reading(p, l)
        BY <1>1, <2>1 DEF Readings
      <3> QED
        BY <1>2, <3>1
    <2>5. IsFiniteSet(1..n)
      BY FS_Interval
    <2>6. Total(f) \in Int /\ Total(g) = Total(f) - f[i] + g[i]
      BY <2>2, <2>3, <2>5, TotalChanges
    <2>7. ShareOf(e, status, l) \in Nat /\ f[i] \in Int
      BY <2>2, ShareIsNat
    <2>8. Total(g) = Total(f) + ShareOf(e, status, l)
      BY <2>4, <2>6, <2>7
    <2>9. PICK a, b : a = SharesOf(s, l) /\ b = SharesOf(t, l)
      OBVIOUS
    <2>10. a \in [1..m -> Int] /\ b \in [1..m + 1 -> Int]
      BY <1>4, <1>5, <1>6, <2>9, SharesAreInts
    <2>11. \A j \in 1..m : a[j] = b[j]
      <3>1. \A j \in 1..m : j \in 1..m + 1
        BY <1>5
      <3> QED
        BY <1>4, <1>5, <2>9, <3>1 DEF SharesOf
    <2>12. b[m + 1] = ShareOf(e, status, l)
      <3>1. m + 1 \in 1..m + 1
        BY <1>5
      <3> QED
        BY <1>5, <2>9, <3>1 DEF SharesOf
    <2>13. Total(b) = Total(a) + b[m + 1]
      BY <1>5, <2>10, <2>11, TotalNext
    <2>14. Total(f) = Total(a)
      BY <2>1, <2>9 DEF Accounted
    <2> QED
      BY <2>1, <2>8, <2>9, <2>12, <2>13, <2>14
  <1>8. ASSUME NEW l, NEW j \in 1..Len(t), Accepted(t[j].event, t[j].status, l)
        PROVE  \E k \in 1..n : UsageAt(qs[k], l).max >= t[j].event.quantity
    <2>1. CASE j = m + 1
      BY <1>1, <1>2, <1>5, <1>8, <2>1
    <2>2. CASE j # m + 1
      <3>1. j \in 1..m /\ t[j] = s[j]
        BY <1>5, <2>2
      <3>2. PICK k \in 1..n : UsageAt(rs[k], l).max >= s[j].event.quantity
        BY <1>4, <1>8, <3>1 DEF Accounted
      <3>3. UsageAt(qs[k], l).max >= UsageAt(rs[k], l).max
        <4>1. CASE k = i
          BY <1>1, <1>2, <4>1
        <4>2. CASE k # i
          <5>1. qs[k] = rs[k] /\ UsageAt(rs[k], l).max \in Nat
            BY <4>2, MaxIsNat
          <5> QED
            BY <5>1
        <4> QED
          BY <4>1, <4>2
      <3>4. UsageAt(qs[k], l).max \in Nat /\ UsageAt(rs[k], l).max \in Nat
        BY <1>3, MaxIsNat
      <3>5. s[j].event.quantity \in Nat
        BY <1>4, <3>1 DEF Weighed
      <3>6. UsageAt(qs[k], l).max >= s[j].event.quantity
        BY <3>2, <3>3, <3>4, <3>5
      <3> QED
        BY <3>1, <3>6
    <2> QED
      BY <2>1, <2>2
  <1> QED
    BY <1>3, <1>6, <1>7, <1>8 DEF Accounted

\* mergeResults over accounted results.
LEMMA MergedSummed ==
    ASSUME NEW n \in Nat, NEW rs, Len(rs) = n, \A i \in 1..n : ResultOK(rs[i]), NEW s, Weighed(s), Accounted(rs, n, s)
    PROVE  Summed(mergeResults(rs), s)
  <1>1. PICK m : m = mergeResults(rs)
    OBVIOUS
  <1>2. /\ ResultOK(m)
        /\ \A l : Reading(m, l) = Total(Readings(rs, n, l))
        /\ \A l : \A i \in 1..n : UsageAt(m, l).max >= UsageAt(rs[i], l).max
    BY <1>1, MergedReads
  <1>3. \A l : Reading(m, l) = Total(SharesOf(s, l))
    BY <1>2 DEF Accounted
  <1>4. ASSUME NEW l, NEW j \in 1..Len(s), Accepted(s[j].event, s[j].status, l)
        PROVE  UsageAt(m, l).max >= s[j].event.quantity
    <2>1. PICK i \in 1..n : UsageAt(rs[i], l).max >= s[j].event.quantity
      BY <1>4 DEF Accounted
    <2>2. UsageAt(m, l).max >= UsageAt(rs[i], l).max
      BY <1>2
    <2>3. UsageAt(m, l).max \in Nat /\ UsageAt(rs[i], l).max \in Nat /\ s[j].event.quantity \in Nat
      BY <1>2, MaxIsNat DEF Weighed
    <2> QED
      BY <2>1, <2>2, <2>3
  <1> QED
    BY <1>1, <1>2, <1>3, <1>4 DEF Summed

\* A total of shares counts the answers that count for it, or sums their quantities.
Countable == {"all", "tenant", "events", "statusEvents"}
LEMMA SharesCount ==
    ASSUME NEW s, Weighed(s), NEW l, NEW S \in SUBSET (1..Len(s)),
           \A j \in 1..Len(s) : j \in S <=> Counts(s[j].event, s[j].status, l)
    PROVE  /\ l.kind \in Countable => Total(SharesOf(s, l)) = Cardinality(S)
           /\ l.kind \notin Countable => Total(SharesOf(s, l)) = Total([j \in S |-> s[j].event.quantity])
  <1>1. PICK D, g : D = 1..Len(s) /\ g = SharesOf(s, l)
    OBVIOUS
  <1>2. g \in [D -> Int] /\ S \in SUBSET D /\ \A j \in D : s[j].event.quantity \in Nat
    BY <1>1, SharesAreInts DEF Weighed
  <1>3. IsFiniteSet(D) /\ IsFiniteSet(S)
    <2>1. Len(s) \in Int /\ 1 \in Int
      BY DEF Weighed
    <2>2. IsFiniteSet(D)
      BY <1>1, <2>1, FS_Interval
    <2> QED
      BY <1>2, <2>2, FS_Subset
  <1>4. \A j \in D : j \notin S => g[j] = 0
    BY <1>1 DEF SharesOf, ShareOf
  <1>5. \A j \in S : g[j] = Weighs(s[j].event, l)
    BY <1>1, <1>2 DEF SharesOf, ShareOf
  <1>6. ASSUME l.kind \in Countable PROVE Total(g) = Cardinality(S)
    <2>1. PICK h : h = [j \in S |-> 1]
      OBVIOUS
    <2>2. h \in [S -> Int] /\ \A j \in S : h[j] = 1
      BY <2>1
    <2>3. \A j \in S : g[j] = h[j]
      BY <1>5, <1>6, <2>2 DEF Weighs, Countable
    <2>4. Total(g) = Total(h)
      <3>1. ZeroOutside(g, D, h, S)
        BY <1>2, <1>3, <1>4, <2>2, <2>3 DEF ZeroOutside
      <3> QED
        BY <3>1, TotalOfPart
    <2>5. Total(h) = Cardinality(S)
      BY <1>3, <2>2, TotalOfOnes
    <2> QED
      BY <2>4, <2>5
  <1>7. ASSUME l.kind \notin Countable PROVE Total(g) = Total([j \in S |-> s[j].event.quantity])
    <2>1. PICK h : h = [j \in S |-> s[j].event.quantity]
      OBVIOUS
    <2>2. h \in [S -> Int] /\ \A j \in S : h[j] = s[j].event.quantity
      BY <1>2, <2>1
    <2>3. \A j \in S : g[j] = h[j]
      BY <1>5, <1>7, <2>2 DEF Weighs, Countable
    <2>4. Total(g) = Total(h)
      <3>1. ZeroOutside(g, D, h, S)
        BY <1>2, <1>3, <1>4, <2>2, <2>3 DEF ZeroOutside
      <3> QED
        BY <3>1, TotalOfPart
    <2> QED
      BY <2>1, <2>4
  <1> QED
    BY <1>1, <1>6, <1>7

LEMMA WholeRead ==
    ASSUME Weighed(sent), DOMAIN sent = 1..Len(sent), merged # <<>> => Summed(merged, sent)
    PROVE  MergedIsWhole
  <1> SUFFICES ASSUME merged # <<>> PROVE MergedIsWhole
    BY DEF MergedIsWhole
  <1> USE DEF Countable
  <1>1. PICK n : n = Len(sent)
    OBVIOUS
  <1>2. n \in Nat /\ DOMAIN sent = 1..n
    BY <1>1 DEF Weighed
  <1>3. /\ ResultOK(merged)
        /\ \A l : Reading(merged, l) = Total(SharesOf(sent, l))
        /\ \A l : \A j \in 1..n : Accepted(sent[j].event, sent[j].status, l) => UsageAt(merged, l).max >= sent[j].event.quantity
    BY <1>1 DEF Summed
  <1>4. ASSUME NEW l, l.kind \in Countable, NEW S \in SUBSET (1..n),
               \A j \in 1..n : j \in S <=> Counts(sent[j].event, sent[j].status, l)
        PROVE  Reading(merged, l) = Cardinality(S)
    <2> HIDE DEF Countable
    <2> QED
      BY <1>1, <1>3, <1>4, SharesCount
  <1>5. ASSUME NEW l, l.kind \notin Countable, NEW S \in SUBSET (1..n),
               \A j \in 1..n : j \in S <=> Counts(sent[j].event, sent[j].status, l)
        PROVE  Reading(merged, l) = QuantityOf(S)
    <2> HIDE DEF Countable
    <2>1. Reading(merged, l) = Total([j \in S |-> sent[j].event.quantity])
      BY <1>1, <1>3, <1>5, SharesCount
    <2>2. QuantityOf(S) = Total([j \in S |-> sent[j].event.quantity])
      BY WeightIsTotal DEF QuantityOf
    <2> QED
      BY <2>1, <2>2
  <1>6. merged.generated = Len(sent)
    <2>1. PICK l : l = [kind |-> "all"]
      OBVIOUS
    <2>2. l.kind = "all"
      BY <2>1
    <2>3. PICK S : S = 1..n
      OBVIOUS
    <2>4. Reading(merged, l) = Cardinality(1..n)
      <3>1. S \in SUBSET (1..n) /\ \A j \in 1..n : j \in S <=> Counts(sent[j].event, sent[j].status, l)
        BY <2>2, <2>3 DEF Counts
      <3>2. Reading(merged, l) = Cardinality(S)
        BY <1>4, <2>2, <3>1
      <3> QED
        BY <2>3, <3>2
    <2>5. Cardinality(1..n) = n
      <3>1. 1 \in Int /\ n \in Int
        BY <1>2
      <3> QED
        BY <1>2, <3>1, FS_Interval
    <2>6. Reading(merged, l) = merged.generated
      BY <2>2 DEF Reading
    <2> QED
      BY <1>1, <2>4, <2>5, <2>6
  <1>7. ASSUME NEW i \in DOMAIN sent PROVE LET e == sent[i].event IN
               At(merged.perTenant, e.tenant, 0) = Cardinality({j \in DOMAIN sent : sent[j].event.tenant = e.tenant})
    <2> DEFINE e == sent[i].event
    <2> HIDE DEF e
    <2>1. PICK l : l = [kind |-> "tenant", tenant |-> e.tenant]
      OBVIOUS
    <2>2. l.kind = "tenant" /\ l.tenant = e.tenant
      BY <2>1
    <2>3. PICK S : S = {j \in DOMAIN sent : sent[j].event.tenant = e.tenant}
      OBVIOUS
    <2>4. S \in SUBSET (1..n) /\ \A j \in 1..n : j \in S <=> Counts(sent[j].event, sent[j].status, l)
      BY <1>2, <2>2, <2>3 DEF Counts
    <2>5. Reading(merged, l) = Cardinality(S)
      BY <1>4, <2>2, <2>4
    <2>6. Reading(merged, l) = At(merged.perTenant, e.tenant, 0)
      BY <2>2 DEF Reading
    <2> QED
      BY <2>3, <2>5, <2>6 DEF e
  <1>8. ASSUME NEW i \in DOMAIN sent PROVE LET
            e == sent[i].event
            mine == {j \in DOMAIN sent : <<sent[j].event.tenant, sent[j].event.metric>> = <<e.tenant, e.metric>> /\ IsSuccess(sent[j].status)}
            same == {j \in mine : sent[j].event.status = e.status}
            u == At(merged.usage, <<e.tenant, e.metric>>, NoUsage)
        IN  /\ u.events = Cardinality(mine) /\ u.quantity = QuantityOf(mine)
            /\ \A j \in mine : sent[j].event.quantity <= u.max
            /\ At(u.byStatus, e.status, NoStatus) = [events |-> Cardinality(same), quantity |-> QuantityOf(same)]
    <2> DEFINE e == sent[i].event
               mine == {j \in DOMAIN sent : <<sent[j].event.tenant, sent[j].event.metric>> = <<e.tenant, e.metric>> /\ IsSuccess(sent[j].status)}
               same == {j \in mine : sent[j].event.status = e.status}
               u == At(merged.usage, <<e.tenant, e.metric>>, NoUsage)
    <2> HIDE DEF e, mine, same, u
    <2>1. ASSUME NEW kind
          PROVE  \E l : l.kind = kind /\ l.tenant = e.tenant /\ l.metric = e.metric /\ l.status = e.status
      <3>1. PICK l : l = [kind |-> kind, tenant |-> e.tenant, metric |-> e.metric, status |-> e.status]
        OBVIOUS
      <3>2. l.kind = kind /\ l.tenant = e.tenant /\ l.metric = e.metric /\ l.status = e.status
        BY <3>1
      <3> QED
        BY <3>2
    <2>2. PICK a : a.kind = "events" /\ a.tenant = e.tenant /\ a.metric = e.metric /\ a.status = e.status
      BY <2>1
    <2>3. PICK b : b.kind = "quantity" /\ b.tenant = e.tenant /\ b.metric = e.metric /\ b.status = e.status
      BY <2>1
    <2>4. PICK c : c.kind = "statusEvents" /\ c.tenant = e.tenant /\ c.metric = e.metric /\ c.status = e.status
      BY <2>1
    <2>5. PICK d : d.kind = "statusQuantity" /\ d.tenant = e.tenant /\ d.metric = e.metric /\ d.status = e.status
      BY <2>1
    <2>6. mine \in SUBSET (1..n) /\ same \in SUBSET (1..n)
      BY <1>2 DEF mine, same
    <2>7. \A j \in 1..n : j \in mine <=> Accepted(sent[j].event, sent[j].status, a)
      BY <1>2, <2>2 DEF Accepted, mine
    <2>8. \A j \in 1..n : j \in mine <=> Counts(sent[j].event, sent[j].status, a)
      BY <2>2, <2>7 DEF Counts
    <2>9. \A j \in 1..n : j \in mine <=> Counts(sent[j].event, sent[j].status, b)
      BY <2>2, <2>3, <2>7 DEF Counts, Accepted
    <2>10. \A j \in 1..n : j \in same <=> j \in mine /\ sent[j].event.status = e.status
      BY DEF same
    <2>11. \A j \in 1..n : j \in same <=> Counts(sent[j].event, sent[j].status, c)
      BY <2>2, <2>4, <2>7, <2>10 DEF Counts, Accepted
    <2>12. \A j \in 1..n : j \in same <=> Counts(sent[j].event, sent[j].status, d)
      BY <2>2, <2>5, <2>7, <2>10 DEF Counts, Accepted
    <2>13. UsageAt(merged, a) = u /\ UsageAt(merged, b) = u /\ UsageAt(merged, c) = u /\ UsageAt(merged, d) = u
      BY <2>2, <2>3, <2>4, <2>5 DEF UsageAt, u
    <2>14. u.events = Cardinality(mine)
      <3>1. Reading(merged, a) = u.events
        BY <2>2, <2>13 DEF Reading, UsageReading
      <3> QED
        BY <1>4, <2>2, <2>6, <2>8, <3>1
    <2>15. u.quantity = QuantityOf(mine)
      <3>1. Reading(merged, b) = u.quantity
        BY <2>3, <2>13 DEF Reading, UsageReading
      <3> QED
        BY <1>5, <2>3, <2>6, <2>9, <3>1
    <2>16. PICK x : x = At(u.byStatus, e.status, NoStatus)
      OBVIOUS
    <2>17. StatusAt(u, c) = x /\ StatusAt(u, d) = x
      BY <2>4, <2>5, <2>16 DEF StatusAt
    <2>18. x.events = Cardinality(same)
      <3>1. Reading(merged, c) = x.events
        BY <2>4, <2>13, <2>17 DEF Reading, UsageReading
      <3> QED
        BY <1>4, <2>4, <2>6, <2>11, <3>1
    <2>19. x.quantity = QuantityOf(same)
      <3>1. Reading(merged, d) = x.quantity
        BY <2>5, <2>13, <2>17 DEF Reading, UsageReading
      <3> QED
        BY <1>5, <2>5, <2>6, <2>12, <3>1
    <2>20. x = [events |-> x.events, quantity |-> x.quantity]
      <3>1. UsageOK(u)
        BY <1>3, <2>13, ReadingIsNat
      <3>2. StatusOK(x)
        BY <2>17, <3>1, StatusIsOne
      <3> QED
        BY <3>2 DEF StatusOK
    <2>21. \A j \in mine : sent[j].event.quantity <= u.max
      <3> SUFFICES ASSUME NEW j \in mine PROVE sent[j].event.quantity <= u.max
        OBVIOUS
      <3>1. j \in 1..n /\ Accepted(sent[j].event, sent[j].status, a)
        BY <2>6, <2>7
      <3>2. u.max >= sent[j].event.quantity
        BY <1>3, <2>13, <3>1
      <3>3. sent[j].event.quantity \in Nat
        BY <1>1, <3>1 DEF Weighed
      <3>4. u.max \in Nat
        BY <1>3, <2>13, MaxIsNat
      <3> QED
        BY <3>2, <3>3, <3>4
    <2>22. x = [events |-> Cardinality(same), quantity |-> QuantityOf(same)]
      BY <2>18, <2>19, <2>20
    <2> QED
      BY <2>14, <2>15, <2>16, <2>21, <2>22, Zenon DEF e, mine, same, u
  <1> QED
    BY <1>6, <1>7, <1>8, Zenon DEF MergedIsWhole

(***************************************************************************)
(* The invariant of the partitioned run.                                   *)
(***************************************************************************)
Phases == {"new", "running", "done", "failed"}
Runner(x) == x = [phase |-> x.phase, tps |-> x.tps, result |-> x.result] /\ x.phase \in Phases

\* An event and its answer, as Send leaves them in the history.
Told(x) == Tagged(x.event, x.lag) /\ Aligned(x.event)

SplitInv ==
    /\ job \in Jobs /\ job.partitions \in 1..Len(job.manifest)
    /\ Parted(chunks, Range(job.manifest), job.partitions)
    /\ \A c \in 1..job.partitions : chunks[c] # <<>>
ShardInv ==
    /\ DOMAIN shard = 1..job.partitions
    /\ \A i \in DOMAIN shard : Runner(shard[i]) /\ ResultOK(Results(shard)[i])
    /\ WeightOf([c \in DOMAIN shard |-> shard[c].tps]) = Higher(job.scenario.tps, job.partitions)
SentInv == sent \in Seq(Range(sent)) /\ Weighed(sent) /\ \A j \in DOMAIN sent : Told(sent[j])
AccountInv == Accounted(Results(shard), job.partitions, sent) /\ (merged # <<>> => Summed(merged, sent))

TrafficInv ==
    /\ part = "traffic" => job \in Jobs
    /\ command \in {"new", "refused", "running", "done"}
    /\ part # "traffic" => command = "new"
    /\ command \in {"new", "refused"} => chunks = <<>> /\ shard = <<>> /\ merged = <<>> /\ sent = <<>>
    /\ command \in {"running", "done"} => SplitInv /\ ShardInv /\ SentInv /\ AccountInv
    /\ command = "running" => merged = <<>>

LEMMA TrafficHolds == TrafficInv => TrafficSound
  <1> SUFFICES ASSUME TrafficInv PROVE TrafficSound
    OBVIOUS
  <1>1. CASE command \in {"new", "refused"}
    <2>1. chunks = <<>> /\ shard = <<>> /\ merged = <<>> /\ sent = <<>> /\ command \in {"new", "refused", "running", "done"}
      BY <1>1 DEF TrafficInv
    <2>2. TrafficTypeOK
      BY <2>1 DEF TrafficTypeOK
    <2>3. PartitionsComplete /\ MergedIsWhole
      BY <2>1 DEF PartitionsComplete, MergedIsWhole
    <2>4. FaultsAsTagged /\ StaleKeysAligned
      BY <2>1 DEF FaultsAsTagged, StaleKeysAligned
    <2> QED
      BY <2>2, <2>3, <2>4 DEF TrafficSound
  <1>2. CASE command \in {"running", "done"}
    <2>1. SplitInv /\ ShardInv /\ SentInv /\ AccountInv
      BY <1>2 DEF TrafficInv
    <2>2. TrafficTypeOK
      BY <1>2, <2>1 DEF TrafficTypeOK, ShardInv, Runner, Phases
    <2>3. PartitionsComplete
      <3>1. PICK R, n : R = Range(job.manifest) /\ n = job.partitions
        OBVIOUS
      <3>2. Parted(chunks, R, n) /\ \A c \in 1..n : chunks[c] # <<>>
        BY <2>1, <3>1 DEF SplitInv
      <3>3. DOMAIN chunks = 1..n /\ \A c \in 1..n : chunks[c] \in Seq(R)
        BY <3>2 DEF Parted
      <3>4. \A c \in 1..n : Range(chunks[c]) \subseteq R /\ \A k \in DOMAIN chunks[c] : chunks[c][k] \in Range(chunks[c])
        BY <3>3, Listed DEF Range
      <3>5. ASSUME NEW t \in R
            PROVE  \E c \in DOMAIN chunks : \E k \in DOMAIN chunks[c] :
                      /\ chunks[c][k] = t
                      /\ \A d \in DOMAIN chunks : \A l \in DOMAIN chunks[d] : chunks[d][l] = t => d = c /\ l = k
        <4>1. PICK c \in 1..n : t \in Range(chunks[c])
          BY <3>2 DEF Parted
        <4>2. PICK k \in DOMAIN chunks[c] : chunks[c][k] = t
          BY <4>1 DEF Range
        <4>3. ASSUME NEW d \in 1..n, NEW l \in DOMAIN chunks[d], chunks[d][l] = t PROVE d = c /\ l = k
          <5>1. t \in Range(chunks[d])
            BY <3>4, <4>3
          <5>2. d = c
            BY <3>2, <4>1, <5>1 DEF Parted
          <5>3. Distinct(chunks[c])
            BY <3>2 DEF Parted
          <5> QED
            BY <4>2, <4>3, <5>2, <5>3 DEF Distinct
        <4> QED
          BY <3>3, <4>2, <4>3
      <3>6. WeightOf([c \in DOMAIN shard |-> shard[c].tps]) = Higher(job.scenario.tps, job.partitions)
        BY <2>1 DEF ShardInv
      <3>7. \A c \in DOMAIN chunks : chunks[c] # <<>> /\ Range(chunks[c]) \subseteq R
        BY <3>2, <3>3, <3>4
      <3> QED
        BY <3>1, <3>5, <3>6, <3>7, Zenon DEF PartitionsComplete
    <2>4. MergedIsWhole
      <3>1. Weighed(sent) /\ DOMAIN sent = 1..Len(sent) /\ (merged # <<>> => Summed(merged, sent))
        BY <2>1 DEF SentInv, AccountInv
      <3> QED
        BY <3>1, WholeRead
    <2>5. \A i \in DOMAIN sent : Tagged(sent[i].event, sent[i].lag) /\ Aligned(sent[i].event)
      BY <2>1 DEF SentInv, Told
    <2>6. FaultsAsTagged
      BY <2>5, Zenon DEF FaultsAsTagged, Tagged, AsTagged
    <2>7. StaleKeysAligned
      BY <2>5, Zenon DEF StaleKeysAligned, Aligned
    <2> QED
      BY <2>2, <2>3, <2>4, <2>6, <2>7 DEF TrafficSound
  <1> QED
    BY <1>1, <1>2 DEF TrafficInv

LEMMA ToldStays ==
    ASSUME job' = job
    PROVE  \A x : Told(x) => Told(x)'
  <1>1. ASSUME NEW e PROVE IngestStatus(e, 0)' = IngestStatus(e, 0)
    <2>1. IngestKeys(e.tenant)' = IngestKeys(e.tenant)
      BY Zenon DEF IngestKeys
    <2>2. Opens(e)' <=> Opens(e)
      BY <2>1 DEF Opens
    <2> QED
      BY <2>2 DEF IngestStatus
  <1>2. ASSUME NEW e, Aligned(e) PROVE Aligned(e)'
    BY <1>2, Zenon DEF Aligned
  <1>3. ASSUME NEW e, NEW lag, Tagged(e, lag) PROVE Tagged(e, lag)'
    <2>1. PICK a : a = IngestStatus(e, 0) /\ a = IngestStatus(e, 0)'
      BY <1>1
    <2>2. ExpectedFailure(e, IngestStatus(e, 0)) <=> ExpectedFailure(e, a)
      BY <2>1
    <2>3. ExpectedFailure(e, IngestStatus(e, 0))' <=> ExpectedFailure(e, a)
      BY <2>1 DEF ExpectedFailure
    <2>4. Reaches(e)' <=> Reaches(e)
      BY Zenon DEF Reaches
    <2>5. AsTagged(e, lag)' <=> AsTagged(e, lag)
      BY <2>1, <2>2, <2>3 DEF AsTagged
    <2> QED
      BY <1>3, <2>4, <2>5 DEF Tagged
  <1> QED
    BY <1>2, <1>3 DEF Told

\* Before anything is sent.
LEMMA NothingAccounted ==
    ASSUME NEW n \in Nat, NEW rs, \A i \in 1..n : rs[i] = NoResult, NEW s, Len(s) = 0
    PROVE  Accounted(rs, n, s)
  <1>1. \A i \in 1..n : ResultOK(rs[i])
    BY NothingYet
  <1>2. ASSUME NEW l PROVE Total(Readings(rs, n, l)) = 0 /\ Total(SharesOf(s, l)) = 0
    <2>1. PICK D, g : D = 1..n /\ g = Readings(rs, n, l)
      OBVIOUS
    <2>2. PICK h : h = [x \in {} |-> 0]
      OBVIOUS
    <2>3. Total(h) = 0
      BY <2>2, TotalOfNone
    <2>4. g \in [D -> Int] /\ \A x \in D : g[x] = 0
      <3>1. g \in [D -> Int]
        BY <1>1, <2>1, ReadingsAreInts
      <3>2. \A x \in D : g[x] = Reading(NoResult, l)
        BY <2>1 DEF Readings
      <3> QED
        BY <3>1, <3>2, NothingYet
    <2>5. IsFiniteSet(D)
      BY <2>1, FS_Interval
    <2>6. ZeroOutside(g, D, h, {})
      BY <2>2, <2>4, <2>5 DEF ZeroOutside
    <2>7. Total(g) = 0
      BY <2>3, <2>6, TotalOfPart
    <2>8. DOMAIN SharesOf(s, l) = {}
      BY DEF SharesOf
    <2> QED
      BY <2>1, <2>7, <2>8, TotalOfNone
  <1> QED
    BY <1>2 DEF Accounted

LEMMA RunBegins ==
    ASSUME TrafficInv, part = "traffic", RunDistributed, part' = part
    PROVE  TrafficInv'
  <1>1. /\ job \in Jobs /\ merged = <<>> /\ sent = <<>> /\ job' = job /\ merged' = merged /\ sent' = sent
        /\ command' = "running" /\ Admitted
    BY DEF TrafficInv, RunDistributed
  <1>2. JobOK(job)
    BY <1>1, TrafficAssumption
  <1>3. PICK m, R, n, hash, tps : m = job.manifest /\ R = Range(m) /\ n = job.partitions /\ hash = job.hash /\ tps = job.scenario.tps
    OBVIOUS
  <1>4. m \in Seq(R) /\ Distinct(m) /\ KeysDiffer(R) /\ (\A t \in R : hash[t.id] \in Nat)
    BY <1>2, <1>3, TenantsDiffer
  <1>5. n \in 1..Len(m) /\ tps \in Nat \ {0}
    BY <1>1, <1>2, <1>3 DEF Admitted, JobOK
  <1>6. n \in Nat \ {0} /\ n \in Nat
    <2>1. Len(m) \in Nat
      BY <1>4
    <2> QED
      BY <1>5, <2>1
  <1>7. chunks' = partitionManifest(m, hash, n)
    BY <1>3 DEF RunDistributed
  <1>8. Parted(chunks', R, n) /\ \A c \in 1..n : chunks'[c] # <<>>
    BY <1>3, <1>4, <1>5, <1>7, Partitioned
  <1>9. SplitInv'
    BY <1>1, <1>3, <1>5, <1>8 DEF SplitInv
  <1>10. shard' = [i \in 1..n |-> [phase |-> "new", tps |-> splitTPS(tps, n)[i], result |-> NoResult]]
    BY <1>3 DEF RunDistributed
  <1>11. /\ DOMAIN shard' = 1..n
         /\ \A i \in 1..n : shard'[i] = [phase |-> "new", tps |-> splitTPS(tps, n)[i], result |-> NoResult]
    BY <1>10
  <1>12. \A i \in 1..n : Runner(shard'[i]) /\ shard'[i].tps = splitTPS(tps, n)[i] /\ shard'[i].result = NoResult
    BY <1>11 DEF Runner, Phases
  <1>13. \A i \in 1..n : Results(shard')[i] = NoResult
    BY <1>11, <1>12 DEF Results
  <1>14. WeightOf([c \in DOMAIN shard' |-> shard'[c].tps]) = Higher(tps, n)
    <2>1. PICK f : f = [c \in DOMAIN shard' |-> shard'[c].tps]
      OBVIOUS
    <2>2. f = [i \in 1..n |-> splitTPS(tps, n)[i]]
      BY <1>11, <1>12, <2>1
    <2>3. WeightOf(f) = Higher(tps, n)
      BY <1>5, <1>6, <2>2, RateSplit
    <2> QED
      BY <2>1, <2>3
  <1>15. ShardInv'
    <2>1. \A i \in 1..n : ResultOK(Results(shard')[i])
      BY <1>13, NothingYet
    <2> QED
      BY <1>1, <1>3, <1>11, <1>12, <1>14, <2>1 DEF ShardInv
  <1>16. SentInv'
    <2>1. sent' = <<>> /\ Len(sent') = 0 /\ DOMAIN sent' = {}
      BY <1>1
    <2> QED
      BY <2>1 DEF SentInv, Weighed
  <1>17. AccountInv'
    <2>1. Len(sent') = 0
      BY <1>1
    <2>2. Accounted(Results(shard'), n, sent')
      BY <1>6, <1>13, <2>1, NothingAccounted
    <2> QED
      BY <1>1, <1>3, <2>2 DEF AccountInv
  <1> QED
    BY <1>1, <1>9, <1>15, <1>16, <1>17 DEF TrafficInv

\* A runner comes to another phase.
LEMMA PhaseMoves ==
    ASSUME TrafficInv, part = "traffic", part' = part, command = "running", NEW i \in DOMAIN shard, NEW ph \in Phases,
           shard' = [shard EXCEPT ![i].phase = ph], UNCHANGED <<job, command, chunks, merged, sent>>
    PROVE  TrafficInv'
  <1>1. SplitInv /\ ShardInv /\ SentInv /\ AccountInv /\ merged = <<>>
    BY DEF TrafficInv
  <1>2. job' = job /\ command' = command /\ chunks' = chunks /\ merged' = merged /\ sent' = sent
    OBVIOUS
  <1>3. /\ DOMAIN shard' = DOMAIN shard
        /\ \A k \in DOMAIN shard : k # i => shard'[k] = shard[k]
        /\ shard'[i] = [shard[i] EXCEPT !.phase = ph]
    OBVIOUS
  <1>4. shard'[i].phase = ph /\ shard'[i].tps = shard[i].tps /\ shard'[i].result = shard[i].result /\ Runner(shard'[i])
    <2>1. Runner(shard[i])
      BY <1>1 DEF ShardInv
    <2>2. shard[i] = [phase |-> shard[i].phase, tps |-> shard[i].tps, result |-> shard[i].result]
      BY <2>1 DEF Runner
    <2>3. shard'[i] = [phase |-> ph, tps |-> shard[i].tps, result |-> shard[i].result]
      BY <1>3, <2>2
    <2> QED
      BY <2>3 DEF Runner
  <1>5. \A k \in DOMAIN shard : Runner(shard'[k]) /\ shard'[k].tps = shard[k].tps /\ shard'[k].result = shard[k].result
    BY <1>1, <1>3, <1>4 DEF ShardInv
  <1>6. Results(shard') = Results(shard)
    BY <1>3, <1>5 DEF Results
  <1>7. [c \in DOMAIN shard' |-> shard'[c].tps] = [c \in DOMAIN shard |-> shard[c].tps]
    BY <1>3, <1>5
  <1>8. ShardInv'
    BY <1>1, <1>2, <1>3, <1>5, <1>6, <1>7 DEF ShardInv
  <1>9. AccountInv'
    BY <1>1, <1>2, <1>6 DEF AccountInv
  <1>10. SplitInv'
    BY <1>1, <1>2 DEF SplitInv
  <1>11. SentInv'
    BY <1>1, <1>2, ToldStays DEF SentInv
  <1> QED
    BY <1>1, <1>2, <1>8, <1>9, <1>10, <1>11 DEF TrafficInv

LEMMA EventSent ==
    ASSUME TrafficInv, part = "traffic", part' = part, NEW i \in DOMAIN shard, Send(i)
    PROVE  TrafficInv'
  <1>1. command = "running" /\ SplitInv /\ ShardInv /\ SentInv /\ AccountInv /\ merged = <<>>
    BY DEF TrafficInv, Send
  <1>2. job' = job /\ command' = command /\ chunks' = chunks /\ merged' = merged
    BY DEF Send
  <1>3. PICK lag \in Lags : \E e \in produce(chunks[i], job.scenario, -lag) : \E status \in Responses(e) :
           /\ shard' = [shard EXCEPT ![i].result = onResult(Dispatch(@, e, status), e, status)]
           /\ sent' = Append(sent, [event |-> e, lag |-> lag, status |-> status])
    BY DEF Send
  <1>4. PICK e \in produce(chunks[i], job.scenario, -lag) : \E status \in Responses(e) :
           /\ shard' = [shard EXCEPT ![i].result = onResult(Dispatch(@, e, status), e, status)]
           /\ sent' = Append(sent, [event |-> e, lag |-> lag, status |-> status])
    BY <1>3
  <1>5. PICK status : /\ shard' = [shard EXCEPT ![i].result = onResult(Dispatch(@, e, status), e, status)]
                      /\ sent' = Append(sent, [event |-> e, lag |-> lag, status |-> status])
    BY <1>4
  <1>6. PICK n : n = job.partitions
    OBVIOUS
  <1>7. n \in Nat /\ DOMAIN shard = 1..n /\ i \in 1..n
    <2>1. Len(job.manifest) \in Nat
      <3>1. JobOK(job)
        BY <1>1, TrafficAssumption DEF SplitInv
      <3>2. job.manifest \in Seq(Range(job.manifest))
        BY <3>1, TenantsDiffer
      <3> QED
        BY <3>2
    <2> QED
      BY <1>1, <1>6, <2>1 DEF SplitInv, ShardInv
  <1>8. e.quantity \in Nat /\ Tagged(e, lag) /\ Aligned(e)
    <2>1. JobOK(job) /\ lag \in Nat
      BY <1>1, TrafficAssumption DEF SplitInv
    <2>2. Range(chunks[i]) \subseteq Range(job.manifest)
      <3>1. chunks[i] \in Seq(Range(job.manifest))
        BY <1>1, <1>6, <1>7 DEF SplitInv, Parted
      <3> QED
        BY <3>1, Listed
    <2> QED
      BY <2>1, <2>2, EventMade
  <1>9. PICK r : r = onResult(Dispatch(shard[i].result, e, status), e, status)
    OBVIOUS
  <1>10. /\ DOMAIN shard' = DOMAIN shard
         /\ \A k \in DOMAIN shard : k # i => shard'[k] = shard[k]
         /\ shard'[i] = [shard[i] EXCEPT !.result = r]
    BY <1>5, <1>9
  <1>11. shard'[i].tps = shard[i].tps /\ shard'[i].result = r /\ Runner(shard'[i])
    <2>1. Runner(shard[i])
      BY <1>1 DEF ShardInv
    <2>2. shard[i] = [phase |-> shard[i].phase, tps |-> shard[i].tps, result |-> shard[i].result] /\ shard[i].phase \in Phases
      BY <2>1 DEF Runner
    <2>3. shard'[i] = [phase |-> shard[i].phase, tps |-> shard[i].tps, result |-> r]
      BY <1>10, <2>2
    <2> QED
      BY <2>2, <2>3 DEF Runner
  <1>12. \A k \in DOMAIN shard : Runner(shard'[k]) /\ shard'[k].tps = shard[k].tps
    BY <1>1, <1>10, <1>11 DEF ShardInv
  <1>13. PICK rs, qs : rs = Results(shard) /\ qs = Results(shard')
    OBVIOUS
  <1>14. /\ \A k \in 1..n : k # i => qs[k] = rs[k]
         /\ qs[i] = onResult(Dispatch(rs[i], e, status), e, status)
    <2>1. \A k \in 1..n : rs[k] = shard[k].result /\ qs[k] = shard'[k].result
      BY <1>7, <1>10, <1>13 DEF Results
    <2>2. \A k \in 1..n : k # i => qs[k] = rs[k]
      BY <1>7, <1>10, <2>1
    <2>3. rs[i] = shard[i].result /\ qs[i] = r
      BY <1>7, <1>11, <2>1
    <2> QED
      BY <1>9, <2>2, <2>3
  <1>15. \A k \in 1..n : ResultOK(rs[k])
    BY <1>1, <1>7, <1>13 DEF ShardInv
  <1>16. PICK x : x = [event |-> e, lag |-> lag, status |-> status]
    OBVIOUS
  <1>17. x.event = e /\ x.lag = lag /\ x.status = status
    BY <1>16
  <1>18. PICK s, t : s = sent /\ t = sent'
    OBVIOUS
  <1>19. s \in Seq(Range(s)) /\ t = Append(s, x) /\ Weighed(s) /\ Len(s) \in Nat
    BY <1>1, <1>5, <1>16, <1>18 DEF SentInv
  <1>20. PICK X : X = Range(s) \cup {x}
    OBVIOUS
  <1>21. /\ t \in Seq(X) /\ Len(t) = Len(s) + 1 /\ DOMAIN t = 1..Len(s) + 1
         /\ (\A j \in 1..Len(s) : t[j] = s[j]) /\ t[Len(s) + 1] = x
    <2>1. s \in Seq(X) /\ x \in X
      BY <1>19, <1>20
    <2> QED
      BY <1>19, <2>1
  <1>22. t \in Seq(Range(t))
    <2>1. PICK m : m = Len(s) + 1
      OBVIOUS
    <2>2. m \in Nat /\ DOMAIN t = 1..m
      BY <1>19, <1>21, <2>1
    <2>3. t = [j \in 1..m |-> t[j]]
      BY <1>21, <2>1, <2>2
    <2>4. \A j \in 1..m : t[j] \in Range(t)
      BY <2>2 DEF Range
    <2>5. t \in [1..m -> Range(t)]
      BY <2>3, <2>4
    <2> QED
      BY <2>2, <2>5
  <1>23. Accounted(rs, n, s)
    BY <1>1, <1>6, <1>13, <1>18 DEF AccountInv
  <1>24. (\A k \in 1..n : ResultOK(qs[k])) /\ Weighed(t) /\ Accounted(qs, n, t)
    <2>1. t[Len(s) + 1].event = e /\ t[Len(s) + 1].status = status
      BY <1>17, <1>21
    <2>2. AnswerTo(n, rs, qs, i, s, t, e, status)
      BY <1>7, <1>8, <1>14, <1>15, <1>19, <1>21, <1>23, <2>1 DEF AnswerTo
    <2> QED
      BY <2>2, AnswerAccounted
  <1>25. SplitInv'
    BY <1>1, <1>2 DEF SplitInv
  <1>26. ShardInv'
    <2>1. [c \in DOMAIN shard' |-> shard'[c].tps] = [c \in DOMAIN shard |-> shard[c].tps]
      BY <1>10, <1>12
    <2>2. WeightOf([c \in DOMAIN shard |-> shard[c].tps]) = Higher(job.scenario.tps, job.partitions)
      BY <1>1 DEF ShardInv
    <2> QED
      BY <1>2, <1>6, <1>7, <1>10, <1>12, <1>13, <1>24, <2>1, <2>2 DEF ShardInv
  <1>27. SentInv'
    <2>1. ASSUME NEW j \in DOMAIN t PROVE Told(t[j])'
      <3>1. Told(t[j])
        <4>1. CASE j = Len(s) + 1
          BY <1>8, <1>17, <1>21, <4>1 DEF Told
        <4>2. CASE j # Len(s) + 1
          <5>1. j \in 1..Len(s) /\ t[j] = s[j]
            BY <1>19, <1>21, <4>2
          <5>2. DOMAIN s = 1..Len(s)
            BY <1>19
          <5> QED
            BY <1>1, <1>18, <5>1, <5>2 DEF SentInv
        <4> QED
          BY <4>1, <4>2
      <3> QED
        BY <1>2, <3>1, ToldStays
    <2>2. \A j \in DOMAIN sent' : Told(sent[j])'
      BY <1>18, <2>1
    <2> QED
      BY <1>18, <1>22, <1>24, <2>2 DEF SentInv
  <1>28. AccountInv'
    BY <1>1, <1>2, <1>6, <1>13, <1>18, <1>24 DEF AccountInv
  <1> QED
    BY <1>1, <1>2, <1>25, <1>26, <1>27, <1>28 DEF TrafficInv

LEMMA ResultsMerged ==
    ASSUME TrafficInv, part = "traffic", part' = part, Merge
    PROVE  TrafficInv'
  <1>1. command = "running" /\ SplitInv /\ ShardInv /\ SentInv /\ AccountInv /\ merged = <<>>
    BY DEF TrafficInv, Merge
  <1>2. job' = job /\ command' = "done" /\ chunks' = chunks /\ shard' = shard /\ sent' = sent
    BY DEF Merge
  <1>3. PICK rs, n : rs = Results(shard) /\ n = job.partitions
    OBVIOUS
  <1>4. n \in Nat
    <2>1. Len(job.manifest) \in Nat
      <3>1. JobOK(job)
        BY <1>1, TrafficAssumption DEF SplitInv
      <3>2. job.manifest \in Seq(Range(job.manifest))
        BY <3>1, TenantsDiffer
      <3> QED
        BY <3>2
    <2> QED
      BY <1>1, <1>3, <2>1 DEF SplitInv
  <1>5. DOMAIN rs = 1..n /\ \A k \in 1..n : ResultOK(rs[k])
    BY <1>1, <1>3 DEF ShardInv, Results
  <1>6. Len(rs) = n
    <2>1. rs = [k \in 1..n |-> rs[k]]
      <3>1. rs = [k \in DOMAIN shard |-> shard[k].result]
        BY <1>3 DEF Results
      <3> QED
        BY <1>5, <3>1
    <2> QED
      BY <1>4, <2>1
  <1>7. Summed(mergeResults(rs), sent)
    BY <1>1, <1>3, <1>4, <1>5, <1>6, MergedSummed DEF SentInv, AccountInv
  <1>8. merged' = <<>> \/ merged' = mergeResults(rs)
    BY <1>3 DEF Merge, Results
  <1>9. AccountInv'
    BY <1>1, <1>2, <1>3, <1>7, <1>8 DEF AccountInv
  <1>10. SplitInv' /\ ShardInv'
    BY <1>1, <1>2 DEF SplitInv, ShardInv
  <1>11. SentInv'
    BY <1>1, <1>2, ToldStays DEF SentInv
  <1>12. job \in Jobs
    BY <1>1 DEF SplitInv
  <1> QED
    BY <1>2, <1>9, <1>10, <1>11, <1>12 DEF TrafficInv

LEMMA TrafficStep ==
    ASSUME TrafficInv, [Next]_vars
    PROVE  TrafficInv'
  <1>1. CASE part = "traffic" /\ TrafficNext /\ part' = part
    <2>1. CASE runRunRefuses
      BY <1>1, <2>1 DEF TrafficInv, runRunRefuses
    <2>2. CASE RunDistributed
      BY <1>1, <2>2, RunBegins
    <2>3. CASE Merge
      BY <1>1, <2>3, ResultsMerged
    <2>4. ASSUME NEW i \in DOMAIN shard, NewRunner(i) PROVE TrafficInv'
      <3>1. PICK ph \in Phases : shard' = [shard EXCEPT ![i].phase = ph]
        BY <2>4 DEF NewRunner, Phases
      <3>2. command = "running" /\ UNCHANGED <<job, command, chunks, merged, sent>>
        BY <2>4 DEF NewRunner
      <3> QED
        BY <1>1, <3>1, <3>2, PhaseMoves
    <2>5. ASSUME NEW i \in DOMAIN shard, RunEnds(i) PROVE TrafficInv'
      <3>1. PICK ph \in Phases : shard' = [shard EXCEPT ![i].phase = ph]
        BY <2>5 DEF RunEnds, Phases
      <3>2. command = "running" /\ UNCHANGED <<job, command, chunks, merged, sent>>
        BY <2>5 DEF RunEnds
      <3> QED
        BY <1>1, <3>1, <3>2, PhaseMoves
    <2>6. ASSUME NEW i \in DOMAIN shard, Send(i) PROVE TrafficInv'
      BY <1>1, <2>6, EventSent
    <2> QED
      BY <1>1, <2>1, <2>2, <2>3, <2>4, <2>5, <2>6 DEF TrafficNext
  <1>2. CASE part' = part /\ UNCHANGED trafficVars
    <2>1. job' = job /\ command' = command /\ chunks' = chunks /\ shard' = shard /\ merged' = merged /\ sent' = sent
      BY <1>2 DEF trafficVars
    <2>2. SplitInv /\ ShardInv /\ AccountInv => SplitInv' /\ ShardInv' /\ AccountInv'
      BY <2>1 DEF SplitInv, ShardInv, AccountInv
    <2>3. SentInv => SentInv'
      BY <2>1, ToldStays DEF SentInv
    <2> QED
      BY <1>2, <2>1, <2>2, <2>3 DEF TrafficInv
  <1> QED
    BY <1>1, <1>2 DEF Next, vars

\* A partitioned run is one run (RunDistributed, partitionManifest, splitTPS, mergeResults, produce,
\* the injectors and onResult), for any manifest, hash, number of partitions, scenario and answers:
\* no tenant is driven twice or left out, no partition is empty and the rate adds up; the merged
\* result is, for every tenant, metric and status, what was sent and answered with success, whatever
\* the order in which the partitions are answered; on the paths on which the platform sees every
\* event (all but csv_upload, mcp_jsonrpc and ai_agent_wire) it answers an event as it is tagged,
\* unless the path does not carry the fault, which is then accepted (a key on a webhook, a raw body on
\* ai_agent_rest); and the stale keys belong to the subscriptions they are logged under.
THEOREM OneRun == Spec => []TrafficSound
  <1>1. Init => TrafficInv
    <2> SUFFICES ASSUME Init PROVE TrafficInv
      OBVIOUS
    <2>1. TrafficInit(IF part = "traffic" THEN Jobs ELSE {<<>>})
      BY DEF Init
    <2>2. /\ part = "traffic" => job \in Jobs
          /\ command = "new" /\ chunks = <<>> /\ shard = <<>> /\ merged = <<>> /\ sent = <<>>
      BY <2>1 DEF TrafficInit
    <2> QED
      BY <2>2 DEF TrafficInv
  <1>2. TrafficInv /\ [Next]_vars => TrafficInv'
    BY TrafficStep
  <1> QED
    BY <1>1, <1>2, TrafficHolds, PTL DEF Spec
=============================================================================
