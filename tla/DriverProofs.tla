---------------------------- MODULE DriverProofs ----------------------------
(***************************************************************************)
(* Theorems about the two controllers of the driver that keep a ring of    *)
(* one-second counters, for every number of workers and every              *)
(* configuration: the circuit breaker (CircuitBreaker) and, at the end,    *)
(* backpressure (Backpressure).                                            *)
(***************************************************************************)
EXTENDS CircuitBreaker, Backpressure, FiniteSetTheorems, TLAPS

USE DEF atomics, ring, local, history, shared

(* A bumped counter is a counter, and touchBucket keeps the ring a ring. *)
LEMMA BumpBucket ==
    ASSUME NEW c \in Bucket, NEW ok \in BOOLEAN
    PROVE  Bump(c, ok) \in Bucket
  BY DEF Bump, Bucket

LEMMA BumpCount ==
    ASSUME NEW c \in Count, NEW ok \in BOOLEAN
    PROVE  Bump(c, ok) \in Count
  BY DEF Bump, Count

LEMMA TouchBucketType ==
    ASSUME NEW b \in [Slots -> Bucket],
           NEW t \in Nat, NEW ok \in BOOLEAN
    PROVE  touchBucket(b, t, ok) \in [Slots -> Bucket]
  <1>1. t % Window \in Slots
    BY WindowAssumption DEF Slots
  <1>2. b[t % Window] \in Bucket
    BY <1>1
  <1>3. [Empty EXCEPT !.tsec = t] \in Bucket
    BY DEF Empty, Bucket
  <1>4. Bump(IF b[t % Window].tsec = t THEN b[t % Window]
             ELSE [Empty EXCEPT !.tsec = t], ok)
          \in Bucket
    BY <1>2, <1>3, BumpBucket
  <1> QED
    BY <1>1, <1>4 DEF touchBucket

(* The program counter stays one, whatever step a worker takes. *)
LEMMA GotoType ==
    ASSUME NEW w \in Workers, NEW from, NEW to \in PCs,
           pc \in [Workers -> PCs], Goto(w, from, to)
    PROVE  pc' \in [Workers -> PCs]
  BY DEF Goto

-----------------------------------------------------------------------------
(* The variables of the breaker and the workers' locals keep their types. *)
LEMMA TypeInit == Init => TypeOK
  <1> SUFFICES ASSUME Init PROVE TypeOK
    OBVIOUS
  <1>1. Empty \in Bucket
    BY DEF Empty, Bucket
  <1>2. NoCount \in Count
    BY DEF NoCount, Count
  <1>3. 0 \in Times
    BY BreakerAssumption DEF Times
  <1>4. pc \in [Workers -> PCs]
    BY DEF Init, PCs
  <1> QED
    BY <1>1, <1>2, <1>3, <1>4 DEF Init, TypeOK, EmptyRing

LEMMA TypeStep == TypeOK /\ [Next]_vars => TypeOK'
  <1> SUFFICES ASSUME TypeOK, [Next]_vars PROVE TypeOK'
    OBVIOUS
  <1>0. CASE UNCHANGED vars
    BY <1>0 DEF TypeOK, vars
  <1>1. CASE Tick
    BY <1>1, BreakerAssumption DEF TypeOK, Tick, Times
  <1>2. ASSUME NEW w \in Workers, WorkerStep(w) PROVE TypeOK'
    <2>1. CASE AllowLoad(w)
      <3>1. pc' \in [Workers -> PCs]
        BY <2>1, GotoType DEF TypeOK, AllowLoad, PCs
      <3> QED
        BY <2>1, <3>1 DEF TypeOK, AllowLoad
    <2>2. CASE AllowTimer(w)
      BY <2>2, GotoType DEF TypeOK, AllowTimer, Goto, PCs
    <2>3. CASE AllowCAS(w)
      BY <2>3, GotoType DEF TypeOK, AllowCAS, Goto, PCs
    <2>4. CASE AllowReset(w)
      BY <2>4, GotoType DEF TypeOK, AllowReset, Goto, PCs
    <2>5. CASE AllowRecheck(w)
      BY <2>5, GotoType DEF TypeOK, AllowRecheck, Goto, PCs
    <2>6. CASE Submit(w)
      BY <2>6, GotoType DEF TypeOK, Submit, Goto, PCs
    <2>7. CASE RecordNow(w)
      BY <2>7, GotoType DEF TypeOK, RecordNow, Goto, PCs
    <2>8. CASE RecordTally(w)
      <3>1. buckets' \in [Slots -> Bucket]
        <4>1. at[w] \in Nat /\ result[w] \in BOOLEAN
          BY BreakerAssumption DEF TypeOK, Times
        <4> QED
          BY <2>8, <4>1, TouchBucketType DEF TypeOK, RecordTally
      <3>2. log' \in [Times -> Count]
        <4>1. Bump(log[at[w]], result[w]) \in Count
          BY BumpCount DEF TypeOK
        <4> QED
          BY <2>8, <4>1 DEF TypeOK, RecordTally
      <3>3. hot' \in [Workers -> BOOLEAN]
        <4>1. RateExceeded(buckets', at[w]) \in BOOLEAN
          BY DEF RateExceeded
        <4> QED
          BY <2>8, <4>1 DEF TypeOK, RecordTally
      <3>4. pc' \in [Workers -> PCs]
        BY <2>8, GotoType DEF TypeOK, RecordTally, PCs
      <3> QED
        BY <2>8, <3>1, <3>2, <3>3, <3>4 DEF TypeOK, RecordTally
    <2>9. CASE RecordBranch(w)
      <3>1. pc' \in [Workers -> PCs]
        BY <2>9, GotoType DEF TypeOK, RecordBranch, Goto, PCs
      <3> QED
        BY <2>9, <3>1 DEF TypeOK, RecordBranch
    <2>10. CASE RecordProbe(w)
      <3>1. pc' \in [Workers -> PCs]
        BY <2>10, GotoType DEF TypeOK, RecordProbe, PCs
      <3> QED
        BY <2>10, <3>1 DEF TypeOK, RecordProbe
    <2>11. CASE RecordClose(w)
      BY <2>11, GotoType DEF TypeOK, RecordClose, Goto, PCs
    <2>12. CASE RecordClear(w)
      <3>1. Empty \in Bucket
        BY DEF Empty, Bucket
      <3>2. NoCount \in Count
        BY DEF NoCount, Count
      <3>3. pc' \in [Workers -> PCs]
        BY <2>12, GotoType DEF TypeOK, RecordClear, PCs
      <3> QED
        BY <2>12, <3>1, <3>2, <3>3 DEF TypeOK, RecordClear, EmptyRing
    <2>13. CASE RecordStamp(w)
      BY <2>13, GotoType DEF TypeOK, RecordStamp, Goto, PCs
    <2>14. CASE RecordOpen(w)
      BY <2>14, GotoType DEF TypeOK, RecordOpen, Goto, PCs
    <2> QED
      BY <1>2, <2>1, <2>2, <2>3, <2>4, <2>5, <2>6, <2>7, <2>8, <2>9, <2>10,
         <2>11, <2>12, <2>13, <2>14 DEF WorkerStep, RecordTrip
  <1> QED
    BY <1>0, <1>1, <1>2 DEF Next

(* Type correctness of the breaker under any number of concurrent workers:  *)
(* no interleaving of Allow, Record and the clock leaves the types.         *)
THEOREM TypeCorrect == Spec => []TypeOK
  BY TypeInit, TypeStep, PTL DEF Spec

-----------------------------------------------------------------------------
(***************************************************************************)
(* While calls have not overlapped at most one worker is inside a call, so *)
(* what it read is still true when it acts on it.  SeqAt says for every    *)
(* point of the code what that is, Counted that the counter of probe       *)
(* successes is the number of them except while it waits to be cleared.    *)
(***************************************************************************)
Counted ==
    state = "half_open" /\ (\A w \in Workers : pc[w] # "reset") => halfSuccess = probes

SeqAt(w) ==
    /\ pc[w] = "reset" => state = "half_open" /\ probes = 0
    /\ pc[w] = "probe" => state = "half_open"
    /\ pc[w] = "close" => state = "half_open" /\ probes >= HalfOpenProbes

OneCall == \A u, v \in Workers : pc[u] # "idle" /\ pc[v] # "idle" => u = v

SeqInv == ~overlap => OneCall /\ Counted /\ \A w \in Workers : SeqAt(w)

LEMMA SeqInit == Init => SeqInv
  BY DEF Init, SeqInv, SeqAt, Counted, OneCall

LEMMA SeqStep == TypeOK /\ SeqInv /\ [Next]_vars => SeqInv'
  <1> SUFFICES ASSUME TypeOK, SeqInv, [Next]_vars PROVE SeqInv'
    OBVIOUS
  <1> USE BreakerAssumption
  <1>0. CASE UNCHANGED vars
    BY <1>0 DEF SeqInv, SeqAt, Counted, OneCall, vars
  <1>1. CASE Tick
    BY <1>1 DEF SeqInv, SeqAt, Counted, OneCall, Tick, TypeOK, Times
  <1>2. ASSUME NEW w \in Workers, WorkerStep(w) PROVE SeqInv'
    <2>0. SeqInv
      OBVIOUS
    <2>1. CASE AllowLoad(w)
      <3> SUFFICES ASSUME ~overlap'
                  PROVE  OneCall' /\ Counted' /\ \A v \in Workers : SeqAt(v)'
        BY DEF SeqInv
      <3>1. ~overlap /\ \A v \in Workers \ {w} : pc[v] = "idle"
        BY <2>1 DEF AllowLoad, TypeOK
      <3>2. OneCall /\ Counted /\ \A v \in Workers : SeqAt(v)
        BY <3>1, <2>0 DEF SeqInv
      <3>3. /\ pc[w] = "idle"
            /\ pc' = [pc EXCEPT ![w] = IF state = "open" THEN "timer" ELSE "submit"]
            /\ UNCHANGED <<now, state, openedAt, halfSuccess, hot, probes>>
        BY <2>1 DEF AllowLoad, Goto
      <3>4. OneCall'
        BY <3>1, <3>3 DEF OneCall, TypeOK
      <3>5. ASSUME NEW v \in Workers PROVE SeqAt(v)'
        BY <3>1, <3>2, <3>3 DEF SeqAt, Counted, TypeOK, PCs
      <3>6. Counted'
        BY <3>1, <3>2, <3>3 DEF Counted, TypeOK
      <3> QED
        BY <3>4, <3>5, <3>6
    <2>2. CASE AllowTimer(w)
      BY <2>2, <2>0 DEF AllowTimer, Goto, SeqInv, OneCall, SeqAt, Counted, TypeOK, PCs
    <2>3. CASE AllowCAS(w)
      BY <2>3, <2>0 DEF AllowCAS, Goto, SeqInv, OneCall, SeqAt, Counted, TypeOK, PCs
    <2>4. CASE AllowReset(w)
      BY <2>4, <2>0 DEF AllowReset, Goto, SeqInv, OneCall, SeqAt, Counted, TypeOK, PCs
    <2>5. CASE AllowRecheck(w)
      BY <2>5, <2>0 DEF AllowRecheck, Goto, SeqInv, OneCall, SeqAt, Counted, TypeOK, PCs
    <2>6. CASE Submit(w)
      BY <2>6, <2>0 DEF Submit, Goto, SeqInv, OneCall, SeqAt, Counted, TypeOK, PCs
    <2>7. CASE RecordNow(w)
      BY <2>7, <2>0 DEF RecordNow, Goto, SeqInv, OneCall, SeqAt, Counted, TypeOK, PCs
    <2>8. CASE RecordTally(w)
      BY <2>8, <2>0 DEF RecordTally, Goto, SeqInv, OneCall, SeqAt, Counted, TypeOK, PCs
    <2>9. CASE RecordBranch(w)
      BY <2>9, <2>0 DEF RecordBranch, Goto, SeqInv, OneCall, SeqAt, Counted, TypeOK, PCs
    <2>10. CASE RecordProbe(w)
      BY <2>10, <2>0 DEF RecordProbe, Goto, SeqInv, OneCall, SeqAt, Counted, TypeOK, PCs
    <2>11. CASE RecordClose(w)
      BY <2>11, <2>0 DEF RecordClose, Goto, SeqInv, OneCall, SeqAt, Counted, TypeOK, PCs
    <2>12. CASE RecordClear(w)
      BY <2>12, <2>0 DEF RecordClear, Goto, SeqInv, OneCall, SeqAt, Counted, TypeOK, PCs
    <2>13. CASE RecordStamp(w)
      BY <2>13, <2>0 DEF RecordStamp, Goto, SeqInv, OneCall, SeqAt, Counted, TypeOK, PCs
    <2>14. CASE RecordOpen(w)
      BY <2>14, <2>0 DEF RecordOpen, Goto, SeqInv, OneCall, SeqAt, Counted, TypeOK, PCs
    <2> QED
      BY <1>2, <2>1, <2>2, <2>3, <2>4, <2>5, <2>6, <2>7, <2>8, <2>9, <2>10,
         <2>11, <2>12, <2>13, <2>14 DEF WorkerStep, RecordTrip
  <1> QED
    BY <1>0, <1>1, <1>2 DEF Next

(* Only RecordClose closes a half-open breaker. *)
LEMMA SeqSteps ==
    TypeOK /\ SeqInv /\ [Next]_vars =>
      (~overlap /\ state = "half_open" /\ state' = "closed" => probes >= HalfOpenProbes)
  <1> SUFFICES ASSUME TypeOK, SeqInv, [Next]_vars, ~overlap,
                      state = "half_open", state' = "closed"
               PROVE  probes >= HalfOpenProbes
    OBVIOUS
  <1>0. ~(UNCHANGED vars \/ Tick)
    BY DEF vars, Tick
  <1>1. PICK w \in Workers : WorkerStep(w)
    BY <1>0 DEF Next
  <1>2. RecordClose(w)
    BY <1>1 DEF WorkerStep, RecordTrip, AllowLoad, AllowTimer, AllowCAS, AllowReset,
       AllowRecheck, Submit, RecordNow, RecordTally, RecordBranch, RecordProbe,
       RecordClear, RecordStamp, RecordOpen
  <1> QED
    BY <1>2 DEF RecordClose, Goto, SeqInv, SeqAt

(* However many workers there are: as long as their calls have not           *)
(* overlapped, the breaker closes only after HalfOpenProbes successes of the *)
(* half-open period.                                                         *)
THEOREM SequentialClose == Spec => ClosesAfterProbes
  <1>1. TypeOK /\ SeqInv /\ [Next]_vars =>
          [~overlap /\ state = "half_open" /\ state' = "closed"
             => probes >= HalfOpenProbes]_vars
    BY SeqSteps
  <1> QED
    BY <1>1, TypeInit, TypeStep, SeqInit, SeqStep, PTL DEF Spec, ClosesAfterProbes

-----------------------------------------------------------------------------
(***************************************************************************)
(* The open period, under every interleaving.  A Record that is under way  *)
(* read the clock at most MaxSkew ago, so whatever Record stamps openedAt  *)
(* last, the stamp is at most MaxSkew older than the reading of the Record *)
(* that opened the breaker, and of any Record about to open it.            *)
(***************************************************************************)
OpenInv ==
    /\ \A w \in Workers : pc[w] \in Recording => at[w] <= now /\ now <= at[w] + MaxSkew
    /\ \A w \in Workers : pc[w] = "open" => openedAt >= at[w] - MaxSkew
    /\ state = "open" => openedAt >= since - MaxSkew
    /\ since <= now

LEMMA OpenInit == Init => OpenInv
  BY DEF Init, OpenInv, Recording

LEMMA OpenStep == TypeOK /\ OpenInv /\ [Next]_vars => OpenInv'
  <1> SUFFICES ASSUME TypeOK, OpenInv, [Next]_vars PROVE OpenInv'
    OBVIOUS
  <1> USE BreakerAssumption DEF Recording
  <1>t. /\ now \in Int /\ openedAt \in Int /\ since \in Int
        /\ \A w \in Workers : at[w] \in Int
        /\ pc \in [Workers -> PCs] /\ at \in [Workers -> Times]
    BY DEF TypeOK, Times
  <1>0. CASE UNCHANGED vars
    BY <1>0 DEF OpenInv, vars
  <1>1. CASE Tick
    BY <1>1, <1>t DEF OpenInv, Tick
  <1>2. ASSUME NEW w \in Workers, WorkerStep(w) PROVE OpenInv'
    <2>1. CASE AllowLoad(w)
      BY <2>1, <1>t DEF AllowLoad, Goto, OpenInv
    <2>2. CASE AllowTimer(w) \/ AllowReset(w) \/ AllowRecheck(w) \/ Submit(w)
      BY <2>2, <1>t DEF AllowTimer, AllowReset, AllowRecheck, Submit, Goto, OpenInv
    <2>3. CASE AllowCAS(w) \/ RecordProbe(w) \/ RecordClose(w) \/ RecordClear(w)
      BY <2>3, <1>t DEF AllowCAS, RecordProbe, RecordClose, RecordClear, Goto, OpenInv
    <2>4. CASE RecordNow(w)
      BY <2>4, <1>t DEF RecordNow, Goto, OpenInv
    <2>5. CASE RecordTally(w)
      BY <2>5, <1>t DEF RecordTally, Goto, OpenInv
    <2>6. CASE RecordBranch(w)
      BY <2>6, <1>t DEF RecordBranch, Goto, OpenInv
    <2>7. CASE RecordStamp(w)
      <3>1. /\ openedAt' = at[w] /\ now - MaxSkew <= at[w]
            /\ UNCHANGED <<now, state, at, since>>
        BY <2>7, <1>t DEF RecordStamp, Goto, OpenInv
      <3>2. \A v \in Workers : pc'[v] = "open" => at[v] <= now
        BY <2>7, <1>t DEF RecordStamp, Goto, OpenInv
      <3> QED
        BY <2>7, <3>1, <3>2, <1>t DEF RecordStamp, Goto, OpenInv
    <2>8. CASE RecordOpen(w)
      BY <2>8, <1>t DEF RecordOpen, Goto, OpenInv
    <2> QED
      BY <1>2, <2>1, <2>2, <2>3, <2>4, <2>5, <2>6, <2>7, <2>8 DEF WorkerStep, RecordTrip
  <1> QED
    BY <1>0, <1>1, <1>2 DEF Next

(* For every configuration, number of workers and interleaving: the timer    *)
(* lets a worker past an open breaker only OpenDuration after the clock of   *)
(* the Record that opened it, less the time a Record may be under way.       *)
THEOREM OpenPeriodHonoured == Spec => StaysOpen
  <1>1. TypeOK /\ OpenInv /\ [Next]_vars =>
          [\A w \in Workers : state = "open" /\ pc[w] = "timer" /\ pc'[w] = "cas"
             => now - since >= OpenDuration - MaxSkew]_vars
    <2> SUFFICES ASSUME TypeOK, OpenInv, [Next]_vars, NEW w \in Workers,
                        state = "open", pc[w] = "timer", pc'[w] = "cas"
                 PROVE  now - since >= OpenDuration - MaxSkew
      OBVIOUS
    <2>1. now \in Int /\ openedAt \in Int /\ since \in Int
      BY DEF TypeOK, Times
    <2>2. PICK v \in Workers : WorkerStep(v)
      BY DEF Next, vars, Tick
    <2>3. v = w
      BY <2>2 DEF WorkerStep, RecordTrip, AllowLoad, AllowTimer, AllowCAS, AllowReset,
         AllowRecheck, Submit, RecordNow, RecordTally, RecordBranch, RecordProbe,
         RecordClose, RecordClear, RecordStamp, RecordOpen, Goto, TypeOK
    <2>4. AllowTimer(w)
      BY <2>2, <2>3 DEF WorkerStep, RecordTrip, AllowLoad, AllowCAS, AllowReset,
         AllowRecheck, Submit, RecordNow, RecordTally, RecordBranch, RecordProbe,
         RecordClose, RecordClear, RecordStamp, RecordOpen, Goto
    <2>5. now - openedAt >= OpenDuration
      BY <2>4 DEF AllowTimer, Goto, TypeOK
    <2> QED
      BY <2>1, <2>5, BreakerAssumption DEF OpenInv
  <1> QED
    BY <1>1, TypeInit, TypeStep, OpenInit, OpenStep, PTL DEF Spec, StaysOpen

-----------------------------------------------------------------------------
(***************************************************************************)
(* The rolling window.  A sum over a finite set is the number of units     *)
(* that are added, so two sums are equal when their units can be paired.   *)
(***************************************************************************)
\* What contains the empty set, and every set that it contains all the
\* smaller ones of, contains all subsets of a finite set.
LEMMA SubsetInduction ==
    ASSUME NEW D, IsFiniteSet(D), NEW C, {} \in C,
           \A s \in SUBSET D : s # {} /\ (\A x \in s : s \ {x} \in C) => s \in C
    PROVE  SUBSET D \subseteq C
  <1> DEFINE T == (SUBSET D) \ C
             R == StrictSubsetOrdering(D)
             F == FiniteSubsetsOf(D)
  <1> SUFFICES ASSUME T # {} PROVE FALSE
    OBVIOUS
  <1>1. IsWellFoundedOn(R, F)
    BY FS_StrictSubsetOrderingWellFounded
  <1>2. T \subseteq F
    BY FS_Subset DEF FiniteSubsetsOf
  <1>3. \A s, t \in SUBSET D : s \subseteq t /\ s # t => <<s, t>> \in R
    BY DEF StrictSubsetOrdering
  <1> HIDE DEF R, F, T
  <1>4. PICK t \in T : \A s \in T : ~(<<s, t>> \in R)
    BY <1>1, <1>2, WFMin
  <1>5. t \in SUBSET D /\ t # {} /\ t \notin C
    BY <1>4 DEF T
  <1>6. ASSUME NEW x \in t PROVE t \ {x} \in C
    <2>1. t \ {x} \in SUBSET D /\ t \ {x} \subseteq t /\ t \ {x} # t
      BY <1>5
    <2>2. <<t \ {x}, t>> \in R
      BY <1>3, <1>5, <2>1
    <2>3. t \ {x} \notin T
      BY <1>4, <2>2
    <2> QED
      BY <2>1, <2>3 DEF T
  <1> QED
    BY <1>5, <1>6

\* The units that are added up when g is summed over s.
Units(g, s) == {p \in s \X Nat : 1 <= p[2] /\ p[2] <= g[p[1]]}

LEMMA UnitsOfOne ==
    ASSUME NEW x, NEW n \in Nat
    PROVE  /\ IsFiniteSet({x} \X (1..n))
           /\ Cardinality({x} \X (1..n)) = n
  <1> DEFINE B == {x} \X (1..n)
             f == [k \in 1..n |-> <<x, k>>]
  <1>1. IsFiniteSet(1..n) /\ Cardinality(1..n) = n
    BY FS_Interval
  <1>2. f \in [1..n -> B]
    OBVIOUS
  <1>3. \A a, b \in 1..n : f[a] = f[b] => a = b
    OBVIOUS
  <1>4. \A y \in B : \E k \in 1..n : f[k] = y
    OBVIOUS
  <1>5. f \in Bijection(1..n, B)
    BY <1>2, <1>3, <1>4 DEF Bijection, Injection, Surjection, IsInjective
  <1>6. ExistsBijection(1..n, B)
    BY <1>5 DEF ExistsBijection
  <1> HIDE DEF B
  <1>7. IsFiniteSet(B) /\ Cardinality(B) = Cardinality(1..n)
    BY <1>1, <1>6, FS_Bijection
  <1> QED
    BY <1>1, <1>7 DEF B

LEMMA UnitsFinite ==
    ASSUME NEW D, IsFiniteSet(D), NEW g \in [D -> Nat]
    PROVE  \A s \in SUBSET D : IsFiniteSet(Units(g, s))
  <1> DEFINE C == {s \in SUBSET D : IsFiniteSet(Units(g, s))}
  <1>1. {} \in C
    <2>1. Units(g, {}) = {}
      BY DEF Units
    <2> QED
      BY <2>1, FS_EmptySet
  <1>2. ASSUME NEW s \in SUBSET D, s # {}, \A x \in s : s \ {x} \in C
        PROVE  s \in C
    <2>1. PICK x \in s : TRUE
      BY <1>2
    <2>2. Units(g, s) = Units(g, s \ {x}) \cup ({x} \X (1..g[x]))
      BY <2>1 DEF Units
    <2>3. IsFiniteSet({x} \X (1..g[x]))
      BY <2>1, UnitsOfOne
    <2>4. IsFiniteSet(Units(g, s \ {x}))
      BY <1>2, <2>1
    <2>5. IsFiniteSet(Units(g, s \ {x}) \cup ({x} \X (1..g[x])))
      BY <2>3, <2>4, FS_Union
    <2> QED
      BY <2>2, <2>5
  <1> HIDE DEF C
  <1>3. SUBSET D \subseteq C
    BY <1>1, <1>2, SubsetInduction
  <1> QED
    BY <1>3 DEF C

\* Every element adds its units, whichever is taken first.
LEMMA UnitsStep ==
    ASSUME NEW D, IsFiniteSet(D), NEW g \in [D -> Nat],
           NEW s \in SUBSET D, NEW x \in s
    PROVE  Cardinality(Units(g, s)) = g[x] + Cardinality(Units(g, s \ {x}))
  <1> DEFINE A == Units(g, s \ {x})
             B == {x} \X (1..g[x])
  <1>1. Units(g, s) = A \cup B
    BY DEF Units
  <1>2. A \cap B = {}
    BY DEF Units
  <1>3. IsFiniteSet(B) /\ Cardinality(B) = g[x] /\ g[x] \in Nat
    BY UnitsOfOne
  <1>4. s \ {x} \in SUBSET D
    OBVIOUS
  <1>5. IsFiniteSet(A)
    BY <1>4, UnitsFinite
  <1> HIDE DEF A, B
  <1>6. Cardinality(A) \in Nat
    BY <1>5, FS_CardinalityType
  <1>7. Cardinality(A \cup B) = Cardinality(A) + Cardinality(B) - Cardinality(A \cap B)
    BY <1>3, <1>5, FS_Union
  <1>8. Cardinality(A \cap B) = 0
    BY <1>2, FS_EmptySet
  <1>9. Cardinality(A \cup B) = g[x] + Cardinality(A)
    BY <1>3, <1>6, <1>7, <1>8
  <1> QED
    BY <1>1, <1>9 DEF A

\* The recursion by which MapThenSumSet adds up g.
Adds(k, g, D) ==
    k = [s \in SUBSET D |->
           IF s = {} THEN 0
           ELSE g[CHOOSE x \in s : TRUE] + k[s \ {CHOOSE x \in s : TRUE}]]

\* It has a solution, and any solution counts the units.
LEMMA AddsExists ==
    ASSUME NEW D, IsFiniteSet(D), NEW g \in [D -> Nat]
    PROVE  \E k : Adds(k, g, D)
  <1> DEFINE k == [s \in SUBSET D |-> Cardinality(Units(g, s))]
  <1>1. ASSUME NEW s \in SUBSET D
        PROVE  k[s] = IF s = {} THEN 0
                      ELSE g[CHOOSE x \in s : TRUE] + k[s \ {CHOOSE x \in s : TRUE}]
    <2>1. CASE s = {}
      <3>1. Units(g, s) = {}
        BY <2>1 DEF Units
      <3> QED
        BY <2>1, <3>1, FS_EmptySet
    <2>2. CASE s # {}
      <3>1. PICK x : x = CHOOSE y \in s : TRUE
        OBVIOUS
      <3>2. x \in s
        BY <2>2, <3>1
      <3>3. Cardinality(Units(g, s)) = g[x] + Cardinality(Units(g, s \ {x}))
        BY <3>2, UnitsStep
      <3>4. k[s] = g[x] + k[s \ {x}]
        BY <3>3
      <3> HIDE DEF k
      <3> QED
        BY <2>2, <3>1, <3>4
    <2> QED
      BY <2>1, <2>2
  <1>2. k = [s \in SUBSET D |-> k[s]]
    OBVIOUS
  <1> HIDE DEF k
  <1>3. Adds(k, g, D)
    BY <1>1, <1>2 DEF Adds
  <1> QED
    BY <1>3

LEMMA AddsCount ==
    ASSUME NEW D, IsFiniteSet(D), NEW g \in [D -> Nat], NEW k, Adds(k, g, D)
    PROVE  k[D] = Cardinality(Units(g, D))
  <1> DEFINE C == {s \in SUBSET D : k[s] = Cardinality(Units(g, s))}
  <1>1. {} \in C
    <2>1. Units(g, {}) = {}
      BY DEF Units
    <2>2. k[{}] = 0
      BY DEF Adds
    <2> QED
      BY <2>1, <2>2, FS_EmptySet
  <1>2. ASSUME NEW s \in SUBSET D, s # {}, \A x \in s : s \ {x} \in C
        PROVE  s \in C
    <2>1. PICK x : x = CHOOSE y \in s : TRUE
      OBVIOUS
    <2>2. x \in s
      BY <1>2, <2>1
    <2>3. k[s] = g[x] + k[s \ {x}]
      BY <1>2, <2>1 DEF Adds
    <2>4. k[s \ {x}] = Cardinality(Units(g, s \ {x}))
      BY <1>2, <2>2
    <2>5. Cardinality(Units(g, s)) = g[x] + Cardinality(Units(g, s \ {x}))
      BY <2>2, UnitsStep
    <2> QED
      BY <2>3, <2>4, <2>5
  <1> HIDE DEF C
  <1>3. SUBSET D \subseteq C
    BY <1>1, <1>2, SubsetInduction
  <1> QED
    BY <1>3 DEF C

\* What tally and the sums of the log count, successes and failures.
LEMMA SuccUnits ==
    ASSUME NEW f, NEW D, IsFiniteSet(D), \A i \in D : f[i].succ \in Nat
    PROVE  MapThenSumSet(LAMBDA i : f[i].succ, D)
             = Cardinality(Units([i \in D |-> f[i].succ], D))
  <1> DEFINE F(k) == [s \in SUBSET D |->
                        IF s = {} THEN 0
                        ELSE f[CHOOSE x \in s : TRUE].succ + k[s \ {CHOOSE x \in s : TRUE}]]
             c == CHOOSE k : k = F(k)
             g == [i \in D |-> f[i].succ]
  <1>1. MapThenSumSet(LAMBDA i : f[i].succ, D) = c[D]
    BY DEF MapThenSumSet, MapThenFoldSet
  <1>2. g \in [D -> Nat]
    OBVIOUS
  <1>3. ASSUME NEW k PROVE Adds(k, g, D) <=> k = F(k)
    <2>1. \A s \in SUBSET D : s # {} => g[CHOOSE x \in s : TRUE] = f[CHOOSE x \in s : TRUE].succ
      OBVIOUS
    <2> HIDE DEF g
    <2> QED
      BY <2>1 DEF Adds
  <1> HIDE DEF g
  <1>4. PICK k0 : Adds(k0, g, D)
    BY <1>2, AddsExists
  <1>5. k0 = F(k0)
    BY <1>3, <1>4
  <1>6. c = F(c)
    BY <1>5
  <1> HIDE DEF c
  <1>7. Adds(c, g, D)
    BY <1>3, <1>6
  <1>8. c[D] = Cardinality(Units(g, D))
    BY <1>2, <1>7, AddsCount
  <1> QED
    BY <1>1, <1>8 DEF g

LEMMA FailUnits ==
    ASSUME NEW f, NEW D, IsFiniteSet(D), \A i \in D : f[i].fail \in Nat
    PROVE  MapThenSumSet(LAMBDA i : f[i].fail, D)
             = Cardinality(Units([i \in D |-> f[i].fail], D))
  <1> DEFINE F(k) == [s \in SUBSET D |->
                        IF s = {} THEN 0
                        ELSE f[CHOOSE x \in s : TRUE].fail + k[s \ {CHOOSE x \in s : TRUE}]]
             c == CHOOSE k : k = F(k)
             g == [i \in D |-> f[i].fail]
  <1>1. MapThenSumSet(LAMBDA i : f[i].fail, D) = c[D]
    BY DEF MapThenSumSet, MapThenFoldSet
  <1>2. g \in [D -> Nat]
    OBVIOUS
  <1>3. ASSUME NEW k PROVE Adds(k, g, D) <=> k = F(k)
    <2>1. \A s \in SUBSET D : s # {} => g[CHOOSE x \in s : TRUE] = f[CHOOSE x \in s : TRUE].fail
      OBVIOUS
    <2> HIDE DEF g
    <2> QED
      BY <2>1 DEF Adds
  <1> HIDE DEF g
  <1>4. PICK k0 : Adds(k0, g, D)
    BY <1>2, AddsExists
  <1>5. k0 = F(k0)
    BY <1>3, <1>4
  <1>6. c = F(c)
    BY <1>5
  <1> HIDE DEF c
  <1>7. Adds(c, g, D)
    BY <1>3, <1>6
  <1>8. c[D] = Cardinality(Units(g, D))
    BY <1>2, <1>7, AddsCount
  <1> QED
    BY <1>1, <1>8 DEF g

\* Two sums are equal when what is not zero can be paired.
LEMMA SameUnits ==
    ASSUME NEW D, IsFiniteSet(D), NEW g \in [D -> Nat],
           NEW E, NEW h \in [E -> Nat],
           NEW m \in [D -> E], IsInjective(m),
           \A i \in D : h[m[i]] = g[i],
           \A e \in E : h[e] # 0 => \E i \in D : m[i] = e
    PROVE  Cardinality(Units(h, E)) = Cardinality(Units(g, D))
  <1> DEFINE P == Units(g, D)
             Q == Units(h, E)
             f == [p \in P |-> <<m[p[1]], p[2]>>]
  <1>1. f \in [P -> Q]
    <2>1. ASSUME NEW p \in P PROVE f[p] \in Q
      <3>1. p[1] \in D /\ p[2] \in Nat /\ 1 <= p[2] /\ p[2] <= g[p[1]]
        BY DEF Units
      <3>2. m[p[1]] \in E /\ h[m[p[1]]] = g[p[1]]
        BY <3>1
      <3> QED
        BY <3>1, <3>2 DEF Units
    <2> QED
      BY <2>1
  <1>2. \A a, b \in P : f[a] = f[b] => a = b
    <2>1. ASSUME NEW a \in P, NEW b \in P, f[a] = f[b] PROVE a = b
      <3>1. a \in D \X Nat /\ b \in D \X Nat
        BY DEF Units
      <3>2. m[a[1]] = m[b[1]] /\ a[2] = b[2]
        BY <2>1
      <3>3. a[1] = b[1]
        BY <3>1, <3>2 DEF IsInjective
      <3> QED
        BY <3>1, <3>2, <3>3
    <2> QED
      BY <2>1
  <1>3. \A q \in Q : \E p \in P : f[p] = q
    <2>1. ASSUME NEW q \in Q PROVE \E p \in P : f[p] = q
      <3>1. q \in E \X Nat /\ 1 <= q[2] /\ q[2] <= h[q[1]]
        BY DEF Units
      <3>2. h[q[1]] # 0
        BY <3>1
      <3>3. PICK i \in D : m[i] = q[1]
        BY <3>1, <3>2
      <3>4. <<i, q[2]>> \in P
        BY <3>1, <3>3 DEF Units
      <3>5. f[<<i, q[2]>>] = q
        BY <3>1, <3>3, <3>4
      <3> QED
        BY <3>4, <3>5
    <2> QED
      BY <2>1
  <1>4. f \in Bijection(P, Q)
    BY <1>1, <1>2, <1>3 DEF Bijection, Injection, Surjection, IsInjective
  <1>5. ExistsBijection(P, Q)
    BY <1>4 DEF ExistsBijection
  <1>6. IsFiniteSet(P)
    BY UnitsFinite
  <1> HIDE DEF P, Q
  <1>7. Cardinality(Q) = Cardinality(P)
    BY <1>5, <1>6, FS_Bijection
  <1> QED
    BY <1>7 DEF P, Q

-----------------------------------------------------------------------------
\* A Record that waits for mu has not waited longer than the bound.
WaitInv == \A w \in Workers : pc[w] = "tally" => at[w] <= now /\ now - at[w] <= MaxSkew

\* A slot holds a second of its own residue, none that is yet to come, and
\* while the second is in the window its counts are the log's.
SlotInv ==
    \A i \in Slots :
        /\ buckets[i].tsec <= now
        /\ buckets[i].tsec >= 0 => buckets[i].tsec % Window = i
        /\ i \in Fresh(buckets, now) =>
              /\ buckets[i].succ = log[buckets[i].tsec].succ
              /\ buckets[i].fail = log[buckets[i].tsec].fail

\* A second of the window that was logged has its slot.
LogInv ==
    \A s \in Times : s > now - Window => buckets[s % Window].tsec = s \/ log[s] = NoCount

RingInv == WaitInv /\ SlotInv /\ LogInv

\* Two seconds that share a slot are a whole window apart.
LEMMA OneResidue ==
    ASSUME NEW s \in Nat, NEW t \in Nat, s % Window = t % Window,
           s - t < Window, t - s < Window
    PROVE  s = t
  <1> DEFINE p == s \div Window
             q == t \div Window
  <1>1. Window \in Nat /\ Window > 0
    BY WindowAssumption
  <1>2. s = Window * p + (s % Window) /\ t = Window * q + (t % Window) /\ p \in Int /\ q \in Int
    BY <1>1
  <1> HIDE DEF p, q
  <1>r. s % Window \in Int
    BY <1>1
  <1>m. Window * p \in Int /\ Window * q \in Int
    BY <1>1, <1>2
  <1>3. s - t = Window * p - Window * q
    BY <1>2, <1>r, <1>m
  <1>4. ASSUME NEW a \in Int, NEW b \in Int, a > b PROVE Window * a - Window * b >= Window
    BY <1>1, <1>4
  <1>5. ~(p > q)
    BY <1>1, <1>2, <1>3, <1>4
  <1>6. ~(q > p)
    BY <1>1, <1>2, <1>3, <1>4
  <1>7. p = q
    BY <1>2, <1>5, <1>6
  <1> QED
    BY <1>2, <1>7

\* The invariant at work: tally and the log count the same.
LEMMA RingSound ==
    ASSUME TypeOK, SlotInv, LogInv
    PROVE  RollingWindow
  <1> DEFINE D == Fresh(buckets, now)
             E == {s \in DOMAIN log : s > now - Window}
             m == [i \in D |-> buckets[i].tsec]
  <1>0. Window \in Nat /\ Window # 0 /\ now \in Int /\ MaxTime \in Nat /\ DOMAIN log = Times
    BY WindowAssumption, BreakerAssumption DEF TypeOK, Times
  <1>1. IsFiniteSet(D) /\ D \subseteq Slots
    <2>1. IsFiniteSet(Slots)
      BY <1>0, FS_Interval DEF Slots
    <2>2. D \in SUBSET Slots
      BY DEF Fresh
    <2> QED
      BY <2>1, <2>2, FS_Subset
  <1>2. IsFiniteSet(E) /\ E \subseteq Times
    <2>1. IsFiniteSet(Times)
      BY <1>0, FS_Interval DEF Times
    <2>2. E \in SUBSET Times
      BY <1>0
    <2> QED
      BY <2>1, <2>2, FS_Subset
  <1>3. \A i \in D : /\ buckets[i].tsec \in Int /\ buckets[i].succ \in Nat /\ buckets[i].fail \in Nat
                    /\ buckets[i].tsec >= 0 /\ buckets[i].tsec > now - Window
    BY <1>1 DEF TypeOK, Bucket, Fresh
  <1>4. \A s \in E : log[s].succ \in Nat /\ log[s].fail \in Nat
    BY <1>2 DEF TypeOK, Count
  <1>5. m \in [D -> E]
    <2>1. ASSUME NEW i \in D PROVE buckets[i].tsec \in E
      <3>1. buckets[i].tsec <= now
        BY <1>1 DEF SlotInv
      <3>2. buckets[i].tsec \in Times
        BY <1>0, <1>3, <3>1 DEF TypeOK, Times
      <3> QED
        BY <1>0, <1>3, <3>2
    <2> QED
      BY <2>1
  <1>6. IsInjective(m)
    <2>1. ASSUME NEW i \in D, NEW j \in D, m[i] = m[j] PROVE i = j
      <3>1. i = buckets[i].tsec % Window /\ j = buckets[j].tsec % Window
        BY <1>1, <1>3 DEF SlotInv
      <3>2. buckets[i].tsec = buckets[j].tsec
        BY <2>1
      <3> QED
        BY <3>1, <3>2
    <2> QED
      BY <2>1 DEF IsInjective
  <1>7. \A i \in D : log[m[i]].succ = buckets[i].succ /\ log[m[i]].fail = buckets[i].fail
    BY <1>1 DEF SlotInv
  <1>8. \A s \in E : log[s].succ # 0 \/ log[s].fail # 0 => \E i \in D : m[i] = s
    <2>1. ASSUME NEW s \in E, log[s].succ # 0 \/ log[s].fail # 0 PROVE \E i \in D : m[i] = s
      <3>1. s \in Times /\ s \in Nat /\ s > now - Window
        BY <1>0, <1>2 DEF Times
      <3>2. log[s] # NoCount
        BY <2>1 DEF NoCount
      <3>3. buckets[s % Window].tsec = s
        BY <3>1, <3>2 DEF LogInv
      <3>4. s % Window \in Slots
        BY <1>0, <3>1 DEF Slots
      <3>5. s % Window \in D
        BY <3>1, <3>3, <3>4 DEF Fresh
      <3> QED
        BY <3>3, <3>5
    <2> QED
      BY <2>1
  <1>9. tallySucc(buckets, now) = LoggedSucc(log, now)
    <2> DEFINE g == [i \in D |-> buckets[i].succ]
               h == [s \in E |-> log[s].succ]
    <2>1. tallySucc(buckets, now) = Cardinality(Units(g, D))
      <3>1. MapThenSumSet(LAMBDA i : buckets[i].succ, D) = Cardinality(Units(g, D))
        BY <1>1, <1>3, SuccUnits
      <3> QED
        BY <3>1 DEF tallySucc
    <2>2. LoggedSucc(log, now) = Cardinality(Units(h, E))
      <3>1. MapThenSumSet(LAMBDA s : log[s].succ, E) = Cardinality(Units(h, E))
        BY <1>2, <1>4, SuccUnits
      <3> QED
        BY <3>1 DEF LoggedSucc
    <2>3. g \in [D -> Nat] /\ h \in [E -> Nat]
      BY <1>3, <1>4
    <2>4. \A i \in D : h[m[i]] = g[i]
      BY <1>5, <1>7
    <2>5. \A s \in E : h[s] # 0 => \E i \in D : m[i] = s
      BY <1>8
    <2> HIDE DEF g, h, m, D, E
    <2>6. Cardinality(Units(h, E)) = Cardinality(Units(g, D))
      BY <1>1, <1>5, <1>6, <2>3, <2>4, <2>5, SameUnits
    <2> QED
      BY <2>1, <2>2, <2>6
  <1>10. tallyFail(buckets, now) = LoggedFail(log, now)
    <2> DEFINE g == [i \in D |-> buckets[i].fail]
               h == [s \in E |-> log[s].fail]
    <2>1. tallyFail(buckets, now) = Cardinality(Units(g, D))
      <3>1. MapThenSumSet(LAMBDA i : buckets[i].fail, D) = Cardinality(Units(g, D))
        BY <1>1, <1>3, FailUnits
      <3> QED
        BY <3>1 DEF tallyFail
    <2>2. LoggedFail(log, now) = Cardinality(Units(h, E))
      <3>1. MapThenSumSet(LAMBDA s : log[s].fail, E) = Cardinality(Units(h, E))
        BY <1>2, <1>4, FailUnits
      <3> QED
        BY <3>1 DEF LoggedFail
    <2>3. g \in [D -> Nat] /\ h \in [E -> Nat]
      BY <1>3, <1>4
    <2>4. \A i \in D : h[m[i]] = g[i]
      BY <1>5, <1>7
    <2>5. \A s \in E : h[s] # 0 => \E i \in D : m[i] = s
      BY <1>8
    <2> HIDE DEF g, h, m, D, E
    <2>6. Cardinality(Units(h, E)) = Cardinality(Units(g, D))
      BY <1>1, <1>5, <1>6, <2>3, <2>4, <2>5, SameUnits
    <2> QED
      BY <2>1, <2>2, <2>6
  <1> HIDE DEF D, E, m
  <1> QED
    BY <1>9, <1>10 DEF RollingWindow

\* An empty ring stands for an empty log.
LEMMA RingEmpty ==
    ASSUME now \in Nat, buckets = EmptyRing, log = [t \in Times |-> NoCount]
    PROVE  SlotInv /\ LogInv
  <1>1. \A i \in Slots : buckets[i].tsec = -1
    BY DEF EmptyRing, Empty
  <1>2. SlotInv
    BY <1>1 DEF SlotInv, Fresh
  <1>3. LogInv
    BY DEF LogInv
  <1> QED
    BY <1>2, <1>3

LEMMA RingInit == Init => RingInv
  <1> SUFFICES ASSUME Init PROVE RingInv
    OBVIOUS
  <1>1. WaitInv
    BY DEF Init, WaitInv
  <1>2. SlotInv /\ LogInv
    BY RingEmpty DEF Init
  <1> QED
    BY <1>1, <1>2 DEF RingInv

\* The clock moves on: nothing becomes fresh.
LEMMA RingTick == TypeOK /\ RingInv /\ Tick => RingInv'
  <1> SUFFICES ASSUME TypeOK, RingInv, Tick PROVE RingInv'
    OBVIOUS
  <1>0. now \in Nat /\ now' = now + 1 /\ Window \in Nat /\ MaxSkew \in Nat
    BY WindowAssumption, BreakerAssumption DEF TypeOK, Times, Tick
  <1>u. UNCHANGED <<buckets, log, pc, at>>
    BY DEF Tick
  <1>1. WaitInv'
    <2>1. ASSUME NEW w \in Workers, pc[w] = "tally" PROVE at[w] <= now' /\ now' - at[w] <= MaxSkew
      <3>1. at[w] <= now /\ now - at[w] < MaxSkew /\ at[w] \in Nat
        BY <2>1 DEF RingInv, WaitInv, Tick, Recording, TypeOK, Times
      <3> QED
        BY <1>0, <3>1
    <2> QED
      BY <1>u, <2>1 DEF WaitInv
  <1>2. SlotInv'
    <2>1. ASSUME NEW i \in Slots
          PROVE  /\ buckets[i].tsec <= now'
                 /\ buckets[i].tsec >= 0 => buckets[i].tsec % Window = i
                 /\ i \in Fresh(buckets, now') =>
                       /\ buckets[i].succ = log[buckets[i].tsec].succ
                       /\ buckets[i].fail = log[buckets[i].tsec].fail
      <3>1. buckets[i].tsec \in Int
        BY DEF TypeOK, Bucket
      <3>2. i \in Fresh(buckets, now') => i \in Fresh(buckets, now)
        BY <1>0, <3>1 DEF Fresh
      <3>3. buckets[i].tsec <= now'
        BY <1>0, <3>1 DEF RingInv, SlotInv
      <3> QED
        BY <3>2, <3>3 DEF RingInv, SlotInv
    <2> QED
      BY <1>u, <2>1 DEF SlotInv
  <1>3. LogInv'
    <2>1. \A s \in Times : s > now' - Window => s > now - Window
      BY <1>0 DEF Times
    <2> QED
      BY <1>u, <2>1 DEF RingInv, LogInv
  <1> QED
    BY <1>1, <1>2, <1>3 DEF RingInv

\* Bump counts one, in the bucket as in the log.
LEMMA BumpSame ==
    ASSUME NEW b \in Bucket, NEW c \in Count, NEW ok \in BOOLEAN,
           b.succ = c.succ, b.fail = c.fail
    PROVE  /\ Bump(b, ok).tsec = b.tsec
           /\ Bump(b, ok).succ = Bump(c, ok).succ
           /\ Bump(b, ok).fail = Bump(c, ok).fail
  BY DEF Bump, Bucket, Count

\* The critical section of Record.  Its second is in the window, since it has
\* waited less than that; so what its slot held is that second or too old.
LEMMA RingTally ==
    ASSUME MaxSkew < Window, TypeOK, RingInv, NEW w \in Workers, RecordTally(w)
    PROVE  SlotInv' /\ LogInv'
  <1> DEFINE t == at[w]
             ok == result[w]
             n == t % Window
             old == IF buckets[n].tsec = t THEN buckets[n] ELSE [Empty EXCEPT !.tsec = t]
             new == Bump(old, ok)
  <1>0. Window \in Nat /\ Window # 0 /\ now \in Nat /\ now' = now /\ MaxSkew \in Nat
    BY WindowAssumption, BreakerAssumption DEF TypeOK, Times, RecordTally
  <1>1. t \in Times /\ t \in Nat /\ ok \in BOOLEAN /\ t <= now /\ t > now - Window
    <2>1. t \in Times /\ ok \in BOOLEAN
      BY DEF TypeOK
    <2>2. t \in Nat
      BY <2>1, BreakerAssumption DEF Times
    <2>3. t <= now /\ now - t <= MaxSkew
      BY DEF RingInv, WaitInv, RecordTally, Goto
    <2> QED
      BY <1>0, <2>1, <2>2, <2>3
  <1>2. n \in Slots /\ buckets[n] \in Bucket /\ log[t] \in Count
    <2>1. n \in Slots
      BY <1>0, <1>1 DEF Slots
    <2> QED
      BY <1>1, <2>1 DEF TypeOK
  <1>3. old \in Bucket /\ old.tsec = t /\ old.succ = log[t].succ /\ old.fail = log[t].fail
    <2>1. CASE buckets[n].tsec = t
      <3>1. n \in Fresh(buckets, now)
        BY <1>1, <1>2, <2>1 DEF Fresh
      <3> QED
        BY <1>2, <2>1, <3>1 DEF RingInv, SlotInv
    <2>2. CASE buckets[n].tsec # t
      <3>1. log[t] = NoCount
        BY <1>1, <2>2 DEF RingInv, LogInv
      <3> QED
        BY <1>1, <2>2, <3>1 DEF NoCount, Empty, Bucket
    <2> QED
      BY <2>1, <2>2
  <1> HIDE DEF old
  <1>4. /\ new.tsec = t
        /\ new.succ = Bump(log[t], ok).succ
        /\ new.fail = Bump(log[t], ok).fail
    BY <1>1, <1>2, <1>3, BumpSame
  <1>5. /\ buckets' = [buckets EXCEPT ![n] = new]
        /\ log' = [log EXCEPT ![t] = Bump(log[t], ok)]
    BY DEF RecordTally, touchBucket, old
  <1> HIDE DEF new
  <1>6. /\ buckets'[n] = new /\ \A i \in Slots \ {n} : buckets'[i] = buckets[i]
        /\ log'[t] = Bump(log[t], ok) /\ \A s \in Times \ {t} : log'[s] = log[s]
    BY <1>1, <1>2, <1>5 DEF TypeOK
  <1>7. SlotInv'
    <2>1. ASSUME NEW i \in Slots
          PROVE  /\ buckets'[i].tsec <= now
                 /\ buckets'[i].tsec >= 0 => buckets'[i].tsec % Window = i
                 /\ i \in Fresh(buckets', now) =>
                       /\ buckets'[i].succ = log'[buckets'[i].tsec].succ
                       /\ buckets'[i].fail = log'[buckets'[i].tsec].fail
      <3>1. CASE i = n
        BY <1>1, <1>4, <1>6, <3>1
      <3>2. CASE i # n
        <4>1. buckets'[i] = buckets[i] /\ buckets[i].tsec \in Int
          BY <1>6, <3>2 DEF TypeOK, Bucket
        <4>2. /\ buckets[i].tsec <= now
              /\ buckets[i].tsec >= 0 => buckets[i].tsec % Window = i
              /\ i \in Fresh(buckets, now) =>
                       /\ buckets[i].succ = log[buckets[i].tsec].succ
                       /\ buckets[i].fail = log[buckets[i].tsec].fail
          BY DEF RingInv, SlotInv
        <4>3. ASSUME i \in Fresh(buckets', now)
              PROVE  /\ buckets'[i].succ = log'[buckets'[i].tsec].succ
                     /\ buckets'[i].fail = log'[buckets'[i].tsec].fail
          <5>1. i \in Fresh(buckets, now) /\ buckets[i].tsec >= 0
            BY <4>1, <4>3 DEF Fresh
          <5>2. buckets[i].tsec # t
            BY <3>2, <4>2, <5>1
          <5>3. buckets[i].tsec \in Times
            BY <1>0, BreakerAssumption, <4>1, <4>2, <5>1 DEF TypeOK, Times
          <5>4. log'[buckets[i].tsec] = log[buckets[i].tsec]
            BY <1>6, <5>2, <5>3
          <5> QED
            BY <4>1, <4>2, <5>1, <5>4
        <4> QED
          BY <4>1, <4>2, <4>3
      <3> QED
        BY <3>1, <3>2
    <2> QED
      BY <1>0, <2>1 DEF SlotInv
  <1>8. LogInv'
    <2>1. ASSUME NEW s \in Times, s > now - Window
          PROVE  buckets'[s % Window].tsec = s \/ log'[s] = NoCount
      <3>0. s \in Nat
        BY BreakerAssumption DEF Times
      <3>1. CASE s = t
        BY <1>4, <1>6, <3>1
      <3>2. CASE s # t
        <4>1. log'[s] = log[s]
          BY <1>6, <3>2
        <4>2. CASE s % Window = n
          <5>1. buckets[s % Window].tsec # s
            <6>1. SUFFICES ASSUME buckets[n].tsec = s PROVE FALSE
              BY <4>2
            <6>2. s <= now
              BY <1>2, <6>1 DEF RingInv, SlotInv
            <6>3. s - t < Window /\ t - s < Window
              BY <1>0, <1>1, <2>1, <3>0, <6>2
            <6>4. t \in Nat /\ s % Window = t % Window
              BY <1>1, <4>2
            <6> HIDE DEF t, n
            <6>5. s = t
              BY <3>0, <6>3, <6>4, OneResidue
            <6> QED
              BY <3>2, <6>5
          <5>2. log[s] = NoCount
            BY <2>1, <5>1 DEF RingInv, LogInv
          <5> QED
            BY <4>1, <5>2
        <4>3. CASE s % Window # n
          <5>1. s % Window \in Slots
            BY <1>0, <3>0 DEF Slots
          <5>2. buckets'[s % Window] = buckets[s % Window]
            BY <1>6, <4>3, <5>1
          <5>3. buckets[s % Window].tsec = s \/ log[s] = NoCount
            BY <2>1 DEF RingInv, LogInv
          <5> QED
            BY <4>1, <5>2, <5>3
        <4> QED
          BY <4>2, <4>3
      <3> QED
        BY <3>1, <3>2
    <2> QED
      BY <1>0, <2>1 DEF LogInv
  <1> QED
    BY <1>7, <1>8

LEMMA RingStep ==
    ASSUME MaxSkew < Window, TypeOK, RingInv, [Next]_vars
    PROVE  RingInv'
  <1>0. CASE UNCHANGED vars
    BY <1>0 DEF vars, RingInv, WaitInv, SlotInv, LogInv
  <1>1. CASE Tick
    BY <1>1, RingTick
  <1>2. ASSUME NEW w \in Workers, WorkerStep(w) PROVE RingInv'
    <2>n. now' = now /\ now \in Nat
      BY <1>2, BreakerAssumption
         DEF TypeOK, Times, WorkerStep, AllowLoad, AllowTimer, AllowCAS, AllowReset, AllowRecheck,
             Submit, RecordNow, RecordTally, RecordBranch, RecordProbe, RecordClose, RecordClear,
             RecordTrip, RecordStamp, RecordOpen
    <2>1. WaitInv'
      <3>1. CASE RecordNow(w)
        <4>1. \A v \in Workers : at'[v] = IF v = w THEN now ELSE at[v]
          BY <3>1 DEF RecordNow, TypeOK
        <4>2. \A v \in Workers \ {w} : pc'[v] = pc[v]
          BY <3>1 DEF RecordNow, Goto, TypeOK
        <4> QED
          BY <2>n, <4>1, <4>2, BreakerAssumption DEF RingInv, WaitInv
      <3>2. CASE ~RecordNow(w)
        <4>1. /\ at' = at
              /\ \E from, to \in PCs : to # "tally" /\ Goto(w, from, to)
          BY <1>2, <3>2
             DEF WorkerStep, AllowLoad, AllowTimer, AllowCAS, AllowReset, AllowRecheck, PCs,
                 Submit, RecordTally, RecordBranch, RecordProbe, RecordClose, RecordClear,
                 RecordTrip, RecordStamp, RecordOpen
        <4>2. \A v \in Workers : pc'[v] = "tally" => pc[v] = "tally"
          BY <4>1 DEF Goto, TypeOK
        <4> QED
          BY <2>n, <4>1, <4>2 DEF RingInv, WaitInv
      <3> QED
        BY <3>1, <3>2
    <2>2. SlotInv' /\ LogInv'
      <3>1. CASE RecordTally(w)
        BY <3>1, RingTally
      <3>2. CASE RecordClear(w)
        <4>1. buckets' = EmptyRing /\ log' = [t \in Times |-> NoCount] /\ now' \in Nat
          BY <2>n, <3>2 DEF RecordClear
        <4>2. \A i \in Slots : buckets'[i].tsec = -1
          BY <4>1 DEF EmptyRing, Empty
        <4>3. SlotInv'
          BY <4>1, <4>2 DEF SlotInv, Fresh
        <4>4. LogInv'
          BY <4>1 DEF LogInv
        <4> QED
          BY <4>3, <4>4
      <3>3. CASE ~RecordTally(w) /\ ~RecordClear(w)
        <4>1. UNCHANGED <<now, buckets, log>>
          BY <1>2, <3>3
             DEF WorkerStep, AllowLoad, AllowTimer, AllowCAS, AllowReset, AllowRecheck, Submit,
                 RecordNow, RecordBranch, RecordProbe, RecordClose, RecordTrip, RecordStamp, RecordOpen
        <4> QED
          BY <4>1 DEF RingInv, SlotInv, LogInv
      <3> QED
        BY <3>1, <3>2, <3>3
    <2> QED
      BY <2>1, <2>2 DEF RingInv
  <1> QED
    BY <1>0, <1>1, <1>2 DEF Next

\* The ring never loses and never keeps too long (touchBucket, tally): if no
\* Record waits for mu as long as the whole window, tally adds up exactly
\* the outcomes of the last Window seconds since the breaker last closed,
\* however the workers' times and their critical sections interleave.
THEOREM RollingWindowExact ==
    ASSUME MaxSkew < Window
    PROVE  Spec => []RollingWindow
  <1>1. Init => TypeOK /\ RingInv
    BY TypeInit, RingInit
  <1>2. TypeOK /\ RingInv /\ [Next]_vars => (TypeOK /\ RingInv)'
    BY TypeStep, RingStep
  <1>3. TypeOK /\ RingInv => RollingWindow
    BY RingSound DEF RingInv
  <1> QED
    BY <1>1, <1>2, <1>3, PTL DEF Spec

-----------------------------------------------------------------------------
(***************************************************************************)
(* The backpressure controller, the other user of the ring.  It is a       *)
(* system of its own: what it has in common with the breaker are the names *)
(* of its constants and of some variables.                                 *)
(***************************************************************************)
-----------------------------------------------------------------------------
(* The variables of the controller and Record's locals keep their types. *)
LEMMA ThrottleTypeInit == ASSUME ThrottleInit PROVE ThrottleTypeOK
  <1> USE BackpressureAssumption
  <1>1. Empty \in Bucket
    BY DEF Empty, Bucket
  <1>2. pc \in [Workers -> ThrottlePCs]
    BY DEF ThrottleInit, ThrottlePCs
  <1>3. buckets \in [Slots -> Bucket]
    BY <1>1 DEF ThrottleInit, EmptyRing
  <1>4. at \in [Workers -> 0 .. MaxTime]
    BY BackpressureAssumption DEF ThrottleInit
  <1>5. active \in BOOLEAN /\ overlap \in BOOLEAN /\ multiplier \in {"normal", "slow"}
    BY DEF ThrottleInit
  <1>6. /\ now \in 1 .. MaxTime /\ belowSince \in 0 .. MaxTime
        /\ sent \in 0 .. MaxEvents /\ lastHot \in 0 .. MaxTime
    BY BackpressureAssumption DEF ThrottleInit
  <1> QED
    BY <1>2, <1>3, <1>4, <1>5, <1>6 DEF ThrottleTypeOK

LEMMA ThrottleTypeStep == ASSUME ThrottleTypeOK, [ThrottleNext]_throttleVars PROVE ThrottleTypeOK'
  <1> USE BackpressureAssumption
  <1>0. CASE UNCHANGED throttleVars
    BY <1>0 DEF ThrottleTypeOK, throttleVars
  <1>1. CASE ThrottleTick
    BY <1>1 DEF ThrottleTypeOK, ThrottleTick
  <1>2. ASSUME NEW w \in Workers, ThrottleStep(w) PROVE ThrottleTypeOK'
    <2>1. CASE ReportNow(w)
      BY <2>1 DEF ThrottleTypeOK, ReportNow, Goto, ThrottlePCs
    <2>2. ASSUME NEW ok \in BOOLEAN, ReportTally(w, ok) PROVE ThrottleTypeOK'
      <3> DEFINE b == touchBucket(buckets, at[w], ok)
      <3>1. buckets' \in [Slots -> Bucket]
        <4>1. at[w] \in Nat
          BY DEF ThrottleTypeOK
        <4> QED
          BY <2>2, <4>1, TouchBucketType DEF ThrottleTypeOK, ReportTally
      <3>2. PICK to \in {"idle", "hot", "below"} : pc' = [pc EXCEPT ![w] = to]
        <4> HIDE DEF b
        <4>1. Enough(b, at[w]) \in BOOLEAN /\ High(b, at[w]) \in BOOLEAN
          BY DEF Enough, High
        <4> QED
          BY <2>2, <4>1 DEF ReportTally, Goto, b
      <3>3. pc' \in [Workers -> ThrottlePCs]
        BY <3>2 DEF ThrottleTypeOK, ThrottlePCs
      <3> QED
        BY <2>2, <3>1, <3>3 DEF ThrottleTypeOK, ReportTally
    <2>3. CASE ClearBelow(w)
      BY <2>3 DEF ThrottleTypeOK, ClearBelow, Goto, ThrottlePCs
    <2>4. CASE EngageLoad(w)
      BY <2>4 DEF ThrottleTypeOK, EngageLoad, Goto, ThrottlePCs
    <2>5. CASE Engage(w)
      BY <2>5 DEF ThrottleTypeOK, Engage, Goto, ThrottlePCs
    <2>6. CASE SetSlow(w)
      BY <2>6 DEF ThrottleTypeOK, SetSlow, Goto, ThrottlePCs
    <2>7. CASE BelowLoad(w)
      BY <2>7 DEF ThrottleTypeOK, BelowLoad, Goto, ThrottlePCs
    <2>8. CASE BelowStore(w)
      BY <2>8 DEF ThrottleTypeOK, BelowStore, Goto, ThrottlePCs
    <2>9. CASE ReleaseLoad(w)
      BY <2>9 DEF ThrottleTypeOK, ReleaseLoad, Goto, ThrottlePCs
    <2>10. CASE ReleaseCheck(w)
      <3>1. PICK to \in {"release", "idle"} : pc' = [pc EXCEPT ![w] = to]
        BY <2>10 DEF ReleaseCheck, Goto
      <3> QED
        BY <2>10, <3>1 DEF ThrottleTypeOK, ReleaseCheck, ThrottlePCs
    <2>11. CASE Release(w)
      BY <2>11 DEF ThrottleTypeOK, Release, Goto, ThrottlePCs
    <2>12. CASE SetNormal(w)
      BY <2>12 DEF ThrottleTypeOK, SetNormal, Goto, ThrottlePCs
    <2> QED
      BY <1>2, <2>1, <2>2, <2>3, <2>4, <2>5, <2>6, <2>7, <2>8, <2>9, <2>10,
         <2>11, <2>12 DEF ThrottleStep
  <1> QED
    BY <1>0, <1>1, <1>2 DEF ThrottleNext

-----------------------------------------------------------------------------
(***************************************************************************)
(* While Records have not overlapped at most one worker is inside one, so  *)
(* what it loaded still holds when it stores.  Agree: Active and the       *)
(* multiplier differ only between the two stores of one transition.        *)
(* RecordAt says what a worker knows at each point of Record, Marks that   *)
(* belowSince was set after the last hot outcome.                          *)
(***************************************************************************)
OneRecord == \A u, v \in Workers : pc[u] # "idle" /\ pc[v] # "idle" => u = v

Agree ==
    (\A w \in Workers : pc[w] \notin {"slow", "normal"}) => (active <=> multiplier = "slow")

Marks == lastHot <= now /\ (belowSince > 0 => lastHot <= belowSince)

RecordAt(w) ==
    /\ pc[w] # "idle" => lastHot <= at[w] /\ at[w] <= now
    /\ pc[w] \in {"engage", "normal"} => ~active
    /\ pc[w] \in {"slow", "first", "release"} => active
    /\ pc[w] = "release" => at[w] - lastHot >= RecoverDelay

RestInv == ~overlap => OneRecord /\ Agree /\ Marks /\ \A w \in Workers : RecordAt(w)

LEMMA ThrottleSeqInit == ThrottleInit => RestInv
  BY DEF ThrottleInit, RestInv, RecordAt, Agree, Marks, OneRecord

LEMMA ThrottleSeqStep ==
    ASSUME ThrottleTypeOK, RestInv, [ThrottleNext]_throttleVars
    PROVE  RestInv'
  <1> USE BackpressureAssumption
  <1> USE DEF RestInv, OneRecord, Agree, Marks, RecordAt
  <1>0. CASE UNCHANGED throttleVars
    BY <1>0 DEF throttleVars
  <1>1. CASE ThrottleTick
    BY <1>1 DEF ThrottleTick, ThrottleTypeOK
  <1>2. ASSUME NEW w \in Workers, ThrottleStep(w) PROVE RestInv'
    <2>1. CASE ReportNow(w)
      <3> SUFFICES ASSUME ~overlap' PROVE RestInv'
        OBVIOUS
      <3>1. ~overlap /\ \A v \in Workers : pc[v] = "idle"
        BY <2>1 DEF ReportNow
      <3>2. /\ pc' = [pc EXCEPT ![w] = "tally"] /\ at' = [at EXCEPT ![w] = now]
            /\ UNCHANGED <<now, shared, lastHot>>
        BY <2>1 DEF ReportNow, Goto
      <3> QED
        BY <3>1, <3>2 DEF ThrottleTypeOK
    <2>2. ASSUME NEW ok \in BOOLEAN, ReportTally(w, ok) PROVE RestInv'
      <3>1. PICK to \in {"idle", "hot", "below"} : pc' = [pc EXCEPT ![w] = to]
        <4> DEFINE b == touchBucket(buckets, at[w], ok)
        <4> HIDE DEF b
        <4>1. Enough(b, at[w]) \in BOOLEAN /\ High(b, at[w]) \in BOOLEAN
          BY DEF Enough, High
        <4> QED
          BY <2>2, <4>1 DEF ReportTally, Goto, b
      <3>2. pc[w] = "tally" /\ UNCHANGED <<now, shared, at, sent, lastHot, overlap>>
        BY <2>2 DEF ReportTally, Goto
      <3> QED
        BY <3>1, <3>2 DEF ThrottleTypeOK
    <2>3. CASE ClearBelow(w)
      BY <2>3 DEF ClearBelow, Goto, ThrottleTypeOK
    <2>4. CASE EngageLoad(w)
      BY <2>4 DEF EngageLoad, Goto, ThrottleTypeOK
    <2>5. CASE Engage(w)
      BY <2>5 DEF Engage, Goto, ThrottleTypeOK
    <2>6. CASE SetSlow(w)
      BY <2>6 DEF SetSlow, Goto, ThrottleTypeOK
    <2>7. CASE BelowLoad(w)
      BY <2>7 DEF BelowLoad, Goto, ThrottleTypeOK
    <2>8. CASE BelowStore(w)
      BY <2>8 DEF BelowStore, Goto, ThrottleTypeOK
    <2>9. CASE ReleaseLoad(w)
      BY <2>9 DEF ReleaseLoad, Goto, ThrottleTypeOK
    <2>10. CASE ReleaseCheck(w)
      BY <2>10 DEF ReleaseCheck, Goto, ThrottleTypeOK
    <2>11. CASE Release(w)
      BY <2>11 DEF Release, Goto, ThrottleTypeOK
    <2>12. CASE SetNormal(w)
      BY <2>12 DEF SetNormal, Goto, ThrottleTypeOK
    <2> QED
      BY <1>2, <2>1, <2>2, <2>3, <2>4, <2>5, <2>6, <2>7, <2>8, <2>9, <2>10,
         <2>11, <2>12 DEF ThrottleStep
  <1> QED
    BY <1>0, <1>1, <1>2 DEF ThrottleNext

(* However many workers report: the controller's state is well formed, and   *)
(* as long as no two Records have overlapped, Active and Multiplier agree    *)
(* whenever none is under way.                                               *)
THEOREM Throttle == ThrottleSpec => []ThrottleSound
  <1>0. ThrottleInit => ThrottleTypeOK
    BY ThrottleTypeInit
  <1>s. ThrottleTypeOK /\ RestInv /\ [ThrottleNext]_throttleVars => ThrottleTypeOK' /\ RestInv'
    BY ThrottleTypeStep, ThrottleSeqStep
  <1>1. ThrottleTypeOK /\ RestInv => ThrottleSound
    BY DEF RestInv, Agree, ThrottleSound, ThrottleConsistentAlone, ThrottleConsistent, Quiet
  <1> QED
    BY <1>0, <1>1, <1>s, ThrottleSeqInit, PTL DEF ThrottleSpec

(* As long as no two Records have overlapped, throttling ends only in the    *)
(* release step of a Record that came RecoverDelay after the last hot one.   *)
THEOREM SequentialRelease == ThrottleSpec => ReleasesAfterDelay
  <1>0. ThrottleInit => ThrottleTypeOK
    BY ThrottleTypeInit
  <1>s. ThrottleTypeOK /\ RestInv /\ [ThrottleNext]_throttleVars => ThrottleTypeOK' /\ RestInv'
    BY ThrottleTypeStep, ThrottleSeqStep
  <1>1. ThrottleTypeOK /\ RestInv /\ [ThrottleNext]_throttleVars =>
          [active /\ ~active' /\ ~overlap =>
             \E w \in Workers : pc[w] = "release" /\ at[w] - lastHot >= RecoverDelay]_throttleVars
    <2> SUFFICES ASSUME ThrottleTypeOK, RestInv, [ThrottleNext]_throttleVars, active, ~active', ~overlap
                 PROVE  \E w \in Workers : pc[w] = "release" /\ at[w] - lastHot >= RecoverDelay
      OBVIOUS
    <2>1. ~UNCHANGED throttleVars /\ ~ThrottleTick
      BY DEF throttleVars, ThrottleTick
    <2>2. PICK w \in Workers : ThrottleStep(w)
      BY <2>1 DEF ThrottleNext
    <2>3. Release(w)
      BY <2>2 DEF ThrottleStep, ReportNow, ReportTally, ClearBelow, EngageLoad, Engage,
         SetSlow, BelowLoad, BelowStore, ReleaseLoad, ReleaseCheck, SetNormal
    <2> QED
      BY <2>3 DEF Release, Goto, RestInv, RecordAt
  <1> QED
    BY <1>0, <1>1, <1>s, ThrottleSeqInit, PTL DEF ThrottleSpec, ReleasesAfterDelay
=============================================================================
