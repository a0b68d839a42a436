--------------------------- MODULE PipelineProofs ----------------------------
(***************************************************************************)
(* No event of a run is lost, and none is accepted twice or reported to be *)
(* what it is not: theorems about Pipeline for any number of workers,      *)
(* tenants and events, any event mix, buffer and batch sizes and fairness  *)
(* settings.                                                               *)
(***************************************************************************)
EXTENDS Pipeline, TLAPS, FiniteSetTheorems, WellFoundedInduction

USE DEF genVars, filtVars, flowVars, driverVars, batchVars, wireVars, notWorker

\* The types of what carries an event or its result.
FlowTypes ==
    /\ cancelled \in BOOLEAN
    /\ wpc \in [Workers -> PCs]
    /\ cur \in [Workers -> Events \cup {NoEvent}]
    /\ res \in [Workers -> Results \cup {NoResult}]
    /\ chan \in [Events -> Results \cup {NoResult}]
    /\ gpc \in {"loop", "put", "done"}
    /\ next \in 1 .. NEvents + 1
    /\ out \in Seq(Events)
    /\ fpc \in {"recv", "put", "done"}
    /\ held \in Events \cup {NoEvent}
    /\ fout \in Seq(Events)
    /\ rpc \in {"pool", "result", "closing", "closed"}
    /\ stats \in [Counters -> Nat]

\* Who is said to have an event has one.
Holds ==
    /\ gpc = "put" => next \in Events
    /\ fpc = "put" => held \in Events
    /\ \A w \in Workers : wpc[w] \in BusyPCs => cur[w] \in Events

LEMMA NEventsType == NEvents \in Nat /\ NEvents # 0
  BY DriversAssumption

LEMMA FlowInit == Init => FlowTypes /\ Holds
  <1> SUFFICES ASSUME Init PROVE FlowTypes /\ Holds
    OBVIOUS
  <1>a. next \in 1 .. NEvents + 1
    <2>1. next = 1
      BY DEF Init
    <2> QED
      BY <2>1, NEventsType
  <1>b. wpc \in [Workers -> PCs] /\ stats \in [Counters -> Nat]
    BY DEF Init, DriversInit, PCs, Zero
  <1>c. out \in Seq(Events) /\ fout \in Seq(Events)
    BY DEF Init
  <1>d. /\ cur \in [Workers -> Events \cup {NoEvent}]
        /\ res \in [Workers -> Results \cup {NoResult}]
        /\ chan \in [Events -> Results \cup {NoResult}]
    BY DEF Init, DriversInit
  <1>1. FlowTypes
    BY <1>a, <1>b, <1>c, <1>d DEF Init, DriversInit, FlowTypes
  <1>2. Holds
    BY DEF Init, DriversInit, Holds, BusyPCs
  <1> QED
    BY <1>1, <1>2

\* A Submit keeps its worker busy with the same event and leaves it with a result
\* of a known class; nothing else of the flow moves.
LEMMA SubmitKeeps ==
    ASSUME FlowTypes, Holds, NEW w \in Workers, SubmitStep(w)
    PROVE  /\ wpc[w] \in BusyPCs
           /\ \E pc \in BusyPCs : wpc' = [wpc EXCEPT ![w] = pc]
           /\ res' \in [Workers -> Results \cup {NoResult}]
           /\ UNCHANGED <<cur, chan, cancelled>>
  <1> DEFINE Goal == /\ wpc[w] \in BusyPCs
                     /\ \E pc \in BusyPCs : wpc' = [wpc EXCEPT ![w] = pc]
                     /\ res' \in [Workers -> Results \cup {NoResult}]
                     /\ UNCHANGED <<cur, chan, cancelled>>
  <1>a. ASSUME NEW r \in Results, Return(w, r)
        PROVE  /\ \E pc \in BusyPCs : wpc' = [wpc EXCEPT ![w] = pc]
               /\ res' \in [Workers -> Results \cup {NoResult}]
    BY <1>a DEF Return, BusyPCs, FlowTypes
  <1>b. ASSUME NEW pc \in BusyPCs, Goto(w, pc)
        PROVE  /\ \E p \in BusyPCs : wpc' = [wpc EXCEPT ![w] = p]
               /\ res' \in [Workers -> Results \cup {NoResult}]
    BY <1>b DEF Goto, FlowTypes
  <1>c. Answers \subseteq Results /\ "ok" \in Results /\ "transport" \in Results
        /\ "client" \in Results /\ "blind" \in Results /\ \A r \in Answers : Blind(r) \in Results
    BY DriversAssumption DEF Results, Posts, Blind
  <1>d. {"submit", "send", "wait", "open", "invoke", "bump", "evict", "end", "delete",
         "record"} \subseteq BusyPCs
    BY DEF BusyPCs
  <1>1. CASE SubmitUnknown(w)
    BY <1>1, <1>a, <1>c, <1>d DEF SubmitUnknown, Driven
  <1>2. CASE SubmitDirect(w)
    BY <1>2, <1>a, <1>c, <1>d DEF SubmitDirect, Driven
  <1>2m. CASE SubmitMcp(w)
    <2>1. wpc[w] = "submit" /\ (\E r \in Answers : Return(w, Blind(r)))
          /\ UNCHANGED <<cur, chan, cancelled>>
      BY <1>2m DEF SubmitMcp, Driven
    <2> QED
      BY <2>1, <1>a, <1>c, <1>d
  <1>3. CASE SubmitBatch(w)
    <2>1. wpc[w] = "submit" /\ (Goto(w, "send") \/ Goto(w, "wait"))
          /\ UNCHANGED <<cur, chan, cancelled>>
      BY <1>3 DEF SubmitBatch, Driven
    <2> QED
      BY <2>1, <1>b, <1>d
  <1>4. CASE SubmitCsv(w)
    <2>1. wpc[w] = "submit" /\ (Return(w, "blind") \/ \E r \in Answers : Return(w, Blind(r)))
          /\ UNCHANGED <<cur, chan, cancelled>>
      BY <1>4 DEF SubmitCsv, Driven
    <2> QED
      BY <2>1, <1>a, <1>c, <1>d
  <1>5. CASE SendReturns(w)
    BY <1>5, <1>b, <1>d DEF SendReturns
  <1>6. CASE AwaitResult(w)
    <2>1. wpc[w] = "wait" /\ cur[w] \in Events
      BY <1>6, <1>d DEF AwaitResult, Holds
    <2>2. chan[cur[w]] \in Results
      BY <1>6, <2>1 DEF AwaitResult, FlowTypes
    <2> QED
      BY <1>6, <1>a, <1>d, <2>1, <2>2 DEF AwaitResult
  <1>7. CASE AwaitCancelled(w)
    BY <1>7, <1>a, <1>c, <1>d DEF AwaitCancelled
  <1>8. CASE resolveSession(w)
    <2>1. wpc[w] = "submit" /\ (Goto(w, "open") \/ Goto(w, "invoke"))
          /\ UNCHANGED <<cur, chan, cancelled>>
      BY <1>8 DEF resolveSession, Driven
    <2> QED
      BY <2>1, <1>b, <1>d
  <1>9. CASE OpenSession(w)
    BY <1>9, <1>b, <1>d DEF OpenSession
  <1>10. CASE OpenSessionFails(w)
    BY <1>10, <1>a, <1>c, <1>d DEF OpenSessionFails
  <1>11. CASE Invoke(w)
    <2>1. wpc[w] = "invoke" /\ UNCHANGED <<cur, chan, cancelled>>
      BY <1>11 DEF Invoke
    <2>2. \/ /\ res' = [res EXCEPT ![w] = "ok"]
             /\ wpc' = [wpc EXCEPT ![w] = "bump"]
          \/ \E r \in Answers \ {"ok"} : Return(w, r)
          \/ /\ res' = [res EXCEPT ![w] = "client"]
             /\ wpc' = [wpc EXCEPT ![w] = "evict"]
      BY <1>11 DEF Invoke
    <2> QED
      BY <2>1, <2>2, <1>a, <1>c, <1>d DEF FlowTypes
  <1>12. CASE recordInvocation(w)
    <2>1. wpc[w] = "bump" /\ (Goto(w, "end") \/ Goto(w, "record"))
          /\ UNCHANGED <<cur, chan, cancelled>>
      BY <1>12 DEF recordInvocation
    <2> QED
      BY <2>1, <1>b, <1>d
  <1>13. CASE evictSession(w)
    BY <1>13, <1>b, <1>d DEF evictSession
  <1>14. CASE endSession(w)
    <2>1. wpc[w] = "end" /\ (Goto(w, "record") \/ Goto(w, "delete"))
          /\ UNCHANGED <<cur, chan, cancelled>>
      BY <1>14 DEF endSession
    <2> QED
      BY <2>1, <1>b, <1>d
  <1>15. CASE DeleteSession(w)
    BY <1>15, <1>b, <1>d DEF DeleteSession
  <1> QED
    BY <1>1, <1>2, <1>2m, <1>3, <1>4, <1>5, <1>6, <1>7, <1>8, <1>9, <1>10, <1>11, <1>12, <1>13, <1>14,
       <1>15 DEF SubmitStep

\* The goroutines of rest_batch deliver results of a known class.
LEMMA BatchKeeps ==
    ASSUME FlowTypes, NEW b \in Events, BatchStep(b)
    PROVE  /\ chan' \in [Events -> Results \cup {NoResult}]
           /\ UNCHANGED <<wpc, cur, res, cancelled>>
  <1>1. CASE send(b)
    <2>1. PICK r \in Answers, told \in BOOLEAN : \E T \in TakenPartly(r, posting[b]) :
            chan' = [e \in Events |-> IF e \in Items(posting[b]) THEN ItemResult(r, told, T, e)
                                                                 ELSE chan[e]]
      BY <1>1 DEF send
    <2>2. \A T, e : ItemResult(r, told, T, e) \in Results
      BY DriversAssumption DEF ItemResult, Results, Posts
    <2> QED
      BY <1>1, <2>1, <2>2 DEF send, FlowTypes
  <1>2. CASE TimerFires(b) \/ flushTenant(b)
    BY <1>2 DEF TimerFires, flushTenant, FlowTypes
  <1> QED
    BY <1>1, <1>2 DEF BatchStep

-----------------------------------------------------------------------------
(* Counting the busy workers. *)

LEMMA BusyFinite == IsFiniteSet(Busy) /\ Cardinality(Busy) \in Nat
  <1>1. Busy \in SUBSET Workers
    BY DEF Busy
  <1> QED
    BY <1>1, DriversAssumption, FS_Subset, FS_CardinalityType

LEMMA BusyChange ==
    ASSUME FlowTypes, NEW w \in Workers, NEW pc \in PCs, wpc' = [wpc EXCEPT ![w] = pc]
    PROVE  /\ (wpc[w] \in BusyPCs <=> pc \in BusyPCs) => Cardinality(Busy') = Cardinality(Busy)
           /\ wpc[w] \notin BusyPCs /\ pc \in BusyPCs
                => Cardinality(Busy') = Cardinality(Busy) + 1
           /\ wpc[w] \in BusyPCs /\ pc \notin BusyPCs
                => Cardinality(Busy') = Cardinality(Busy) - 1
  <1>0. \A v \in Workers : wpc'[v] = IF v = w THEN pc ELSE wpc[v]
    BY DEF FlowTypes
  <1>1. ASSUME wpc[w] \in BusyPCs <=> pc \in BusyPCs PROVE Cardinality(Busy') = Cardinality(Busy)
    <2>1. Busy' = Busy
      BY <1>0, <1>1 DEF Busy
    <2> QED
      BY <2>1
  <1>2. ASSUME wpc[w] \notin BusyPCs, pc \in BusyPCs
        PROVE  Cardinality(Busy') = Cardinality(Busy) + 1
    <2>1. Busy' = Busy \cup {w} /\ w \notin Busy
      BY <1>0, <1>2 DEF Busy
    <2> QED
      BY <2>1, BusyFinite, FS_AddElement
  <1>3. ASSUME wpc[w] \in BusyPCs, pc \notin BusyPCs
        PROVE  Cardinality(Busy') = Cardinality(Busy) - 1
    <2>1. Busy' = Busy \ {w} /\ w \in Busy
      BY <1>0, <1>3 DEF Busy
    <2> QED
      BY <2>1, BusyFinite, FS_RemoveElement
  <1> QED
    BY <1>1, <1>2, <1>3

-----------------------------------------------------------------------------
(* What a run that is not cancelled leaves behind. *)

Ends ==
    /\ fpc = "done" => gpc = "done" /\ out = <<>>
    /\ ~cancelled => \A w \in Workers :
          /\ wpc[w] # "drain"
          /\ wpc[w] = "done" => fpc = "done" /\ fout = <<>>
    /\ rpc # "pool" => gpc = "done" /\ \A w \in Workers : wpc[w] = "done"

IInv == FlowTypes /\ Holds /\ Ends /\ Conservation

LEMMA GeneratorInv == IInv /\ GeneratorStep => IInv'
  <1> SUFFICES ASSUME IInv, GeneratorStep PROVE IInv'
    OBVIOUS
  <1> USE DEF IInv
  <1>1. UNCHANGED <<wpc, fpc, fout, held, rpc, cancelled, cur, res, chan>> /\ Busy' = Busy
    BY DEF GeneratorStep, GenStop, GenProduce, GenPut, GenPutCancelled, Busy
  <1>2. CASE GenStop \/ GenProduce \/ GenPutCancelled
    <2>1. UNCHANGED <<next, out, stats>> /\ gpc \in {"loop", "put"} /\ gpc' \in {"put", "done"}
      BY <1>2 DEF GenStop, GenProduce, GenPutCancelled
    <2>2. FlowTypes'
      BY <1>1, <2>1 DEF FlowTypes
    <2>3. Holds'
      <3>1. gpc' = "put" => next <= NEvents
        BY <1>2 DEF GenStop, GenProduce, GenPutCancelled
      <3>2. gpc' = "put" => next' \in Events
        <4>1. next \in 1 .. NEvents + 1 /\ next' = next
          BY <2>1 DEF FlowTypes
        <4> QED
          BY <4>1, <3>1, NEventsType DEF Events
      <3> QED
        BY <1>1, <3>2 DEF Holds
    <2>4. Ends'
      BY <1>1, <2>1 DEF Ends
    <2>5. Conservation'
      BY <1>1, <2>1 DEF Conservation, InFlight
    <2> QED
      BY <2>2, <2>3, <2>4, <2>5
  <1>3. CASE GenPut
    <2>1. /\ gpc = "put" /\ gpc' = "loop" /\ out' = Append(out, next) /\ next' = next + 1
          /\ stats' = [stats EXCEPT !["generated"] = @ + 1]
      BY <1>3 DEF GenPut, Count
    <2>2. next \in Events
      BY <2>1 DEF Holds
    <2>3. out' \in Seq(Events) /\ Len(out') = Len(out) + 1 /\ Len(out) \in Nat
      BY <2>1, <2>2 DEF FlowTypes
    <2>4. next' \in 1 .. NEvents + 1
      <3>1. next' = next + 1
        BY <2>1
      <3> QED
        BY <3>1, <2>2, NEventsType DEF Events
    <2>5. stats' \in [Counters -> Nat] /\ stats'["generated"] = stats["generated"] + 1
          /\ stats'["submitted"] = stats["submitted"] /\ stats'["skipped"] = stats["skipped"]
          /\ stats'["deferred"] = stats["deferred"]
      BY <2>1 DEF FlowTypes, Counters
    <2>6. FlowTypes'
      BY <1>1, <2>1, <2>3, <2>4, <2>5 DEF FlowTypes
    <2>7. Holds'
      BY <1>1, <2>1 DEF Holds
    <2>8. Ends'
      BY <1>1, <2>1 DEF Ends
    <2>9. Conservation'
      <3>1. /\ stats["generated"] \in Nat /\ stats["submitted"] \in Nat
            /\ stats["skipped"] \in Nat /\ stats["deferred"] \in Nat
            /\ Len(fout) \in Nat
        BY DEF FlowTypes, Counters
      <3> QED
        BY <1>1, <2>3, <2>5, <3>1, BusyFinite DEF Conservation, InFlight
    <2> QED
      BY <2>6, <2>7, <2>8, <2>9
  <1> QED
    BY <1>2, <1>3 DEF GeneratorStep

LEMMA FilterInv == IInv /\ FilterStep => IInv'
  <1> SUFFICES ASSUME IInv, FilterStep PROVE IInv'
    OBVIOUS
  <1> USE DEF IInv
  <1>1. UNCHANGED <<wpc, gpc, next, rpc, cancelled, cur, res, chan>> /\ Busy' = Busy
    BY DEF FilterStep, Filter, FilterPut, FilterClose, Busy, Count
  <1>n. /\ stats["generated"] \in Nat /\ stats["submitted"] \in Nat
        /\ stats["skipped"] \in Nat /\ stats["deferred"] \in Nat
        /\ Len(fout) \in Nat /\ Len(out) \in Nat
    BY DEF FlowTypes, Counters
  <1>2. ASSUME NEW roll \in BOOLEAN, Filter(roll) PROVE IInv'
    <2>1. /\ fpc = "recv" /\ out # <<>> /\ out' = Tail(out) /\ UNCHANGED fout
          /\ \/ fpc' = "put" /\ held' = Head(out) /\ UNCHANGED stats
             \/ stats' = [stats EXCEPT !["deferred"] = @ + 1] /\ UNCHANGED <<fpc, held>>
      BY <1>2 DEF Filter, Count
    <2>2. Head(out) \in Events /\ out' \in Seq(Events) /\ Len(out') = Len(out) - 1
      BY <2>1 DEF FlowTypes
    <2>3. stats' \in [Counters -> Nat] /\ stats'["generated"] = stats["generated"]
          /\ stats'["submitted"] = stats["submitted"] /\ stats'["skipped"] = stats["skipped"]
          /\ stats'["deferred"] + (IF fpc' = "put" THEN 1 ELSE 0) = stats["deferred"] + 1
      BY <2>1, <1>n DEF FlowTypes, Counters
    <2>4. FlowTypes'
      BY <1>1, <2>1, <2>2, <2>3 DEF FlowTypes
    <2>5. Holds'
      BY <1>1, <2>1, <2>2 DEF Holds
    <2>6. Ends'
      BY <1>1, <2>1 DEF Ends
    <2>7. stats'["deferred"] \in Nat
      <3>1. "deferred" \in Counters /\ stats' \in [Counters -> Nat]
        BY <2>3 DEF Counters
      <3> QED
        BY <3>1
    <2>8. Conservation'
      <3>1. InFlight = Len(out) + Len(fout) + 0 + Cardinality(Busy)
        BY <2>1 DEF InFlight
      <3>2. Len(fout') = Len(fout) /\ Cardinality(Busy') = Cardinality(Busy)
        BY <1>1, <2>1
      <3>3. CASE fpc' = "put"
        <4>1. InFlight' = Len(out') + Len(fout') + 1 + Cardinality(Busy')
          BY <3>3 DEF InFlight
        <4>2. InFlight' = InFlight
          BY <1>n, <2>2, <3>1, <3>2, <4>1, BusyFinite
        <4>3. stats'["deferred"] = stats["deferred"]
          BY <1>n, <2>3, <2>7, <3>3
        <4> QED
          BY <2>3, <4>2, <4>3 DEF Conservation
      <3>4. CASE fpc' # "put"
        <4>1. InFlight' = Len(out') + Len(fout') + 0 + Cardinality(Busy')
          BY <3>4 DEF InFlight
        <4>2. InFlight' = InFlight - 1 /\ InFlight \in Nat
          BY <1>n, <2>2, <3>1, <3>2, <4>1, BusyFinite
        <4>3. stats'["deferred"] = stats["deferred"] + 1
          BY <1>n, <2>3, <2>7, <3>4
        <4>4. stats'["generated"] = stats["generated"]
              /\ stats'["submitted"] = stats["submitted"] /\ stats'["skipped"] = stats["skipped"]
          BY <2>3
        <4> HIDE DEF IInv
        <4>5. stats["generated"]
                = stats["submitted"] + stats["skipped"] + stats["deferred"] + InFlight
          BY DEF IInv, Conservation
        <4>6. stats["generated"]
                = stats["submitted"] + stats["skipped"] + (stats["deferred"] + 1) + (InFlight - 1)
          BY <1>n, <4>2, <4>5
        <4> QED
          BY <4>2, <4>3, <4>4, <4>6 DEF Conservation
      <3> QED
        BY <3>3, <3>4
    <2> QED
      BY <2>4, <2>5, <2>6, <2>8
  <1>3. CASE FilterPut
    <2>1. /\ fpc = "put" /\ fpc' = "recv" /\ fout' = Append(fout, held) /\ held' = NoEvent
          /\ UNCHANGED <<out, stats>>
      BY <1>3 DEF FilterPut
    <2>2. fout' \in Seq(Events) /\ Len(fout') = Len(fout) + 1
      BY <2>1 DEF FlowTypes, Holds
    <2>3. FlowTypes'
      BY <1>1, <2>1, <2>2 DEF FlowTypes
    <2>4. Holds' /\ Ends'
      BY <1>1, <2>1 DEF Holds, Ends
    <2>5. Conservation'
      BY <1>1, <1>n, <2>1, <2>2, BusyFinite DEF Conservation, InFlight
    <2> QED
      BY <2>3, <2>4, <2>5
  <1>4. CASE FilterClose
    <2>1. fpc = "recv" /\ fpc' = "done" /\ out = <<>> /\ gpc = "done"
          /\ UNCHANGED <<held, fout, out, stats>>
      BY <1>4 DEF FilterClose
    <2>2. FlowTypes'
      BY <1>1, <2>1 DEF FlowTypes
    <2>3. Holds' /\ Ends'
      BY <1>1, <2>1 DEF Holds, Ends
    <2>4. Conservation'
      BY <1>1, <2>1 DEF Conservation, InFlight
    <2> QED
      BY <2>2, <2>3, <2>4
  <1> QED
    BY <1>2, <1>3, <1>4 DEF FilterStep

-----------------------------------------------------------------------------
(* The workers. *)

LEMMA InFlightType == FlowTypes => InFlight \in Nat
  <1> SUFFICES ASSUME FlowTypes PROVE InFlight \in Nat
    OBVIOUS
  <1>1. Len(out) \in Nat /\ Len(fout) \in Nat
    BY DEF FlowTypes
  <1>2. (IF fpc = "put" THEN 1 ELSE 0) \in Nat
    OBVIOUS
  <1> QED
    BY <1>1, <1>2, BusyFinite DEF InFlight

\* One event leaves the flow and one of the three outcome counters takes it.
LEMMA LeavesFlow ==
    ASSUME FlowTypes, Conservation, InFlight' = InFlight - 1,
           stats' \in [Counters -> Nat],
           stats'["generated"] = stats["generated"],
           stats'["deferred"] = stats["deferred"],
           \/ /\ stats'["submitted"] = stats["submitted"] + 1
              /\ stats'["skipped"] = stats["skipped"]
           \/ /\ stats'["submitted"] = stats["submitted"]
              /\ stats'["skipped"] = stats["skipped"] + 1
    PROVE  Conservation'
  <1>1. /\ stats["generated"] \in Nat /\ stats["submitted"] \in Nat
        /\ stats["skipped"] \in Nat /\ stats["deferred"] \in Nat
    BY DEF FlowTypes, Counters
  <1>2. InFlight \in Nat
    BY InFlightType
  <1>3. stats["generated"] = stats["submitted"] + stats["skipped"] + stats["deferred"] + InFlight
    BY DEF Conservation
  <1>4. stats["generated"]
          = (stats["submitted"] + 1) + stats["skipped"] + stats["deferred"] + (InFlight - 1)
        /\ stats["generated"]
          = stats["submitted"] + (stats["skipped"] + 1) + stats["deferred"] + (InFlight - 1)
    BY <1>1, <1>2, <1>3
  <1>5. CASE stats'["submitted"] = stats["submitted"] + 1 /\ stats'["skipped"] = stats["skipped"]
    BY <1>4, <1>5 DEF Conservation
  <1>6. CASE stats'["submitted"] = stats["submitted"] /\ stats'["skipped"] = stats["skipped"] + 1
    BY <1>4, <1>6 DEF Conservation
  <1> QED
    BY <1>5, <1>6

\* A worker that is not gone and does not go away keeps Ends, and while one is
\* there the runner is in pool.Run.
LEMMA WorkerKeepsEnds ==
    ASSUME FlowTypes, Ends, NEW w \in Workers, NEW pc \in PCs \ {"drain", "done"},
           wpc[w] # "done", wpc' = [wpc EXCEPT ![w] = pc],
           UNCHANGED <<gpc, out, fpc, rpc, cancelled>>,
           fout' = fout \/ fout # <<>>
    PROVE  Ends'
  <1>1. \A v \in Workers : wpc'[v] = IF v = w THEN pc ELSE wpc[v]
    BY DEF FlowTypes
  <1>2. rpc = "pool"
    BY DEF Ends
  <1>3. ~cancelled /\ fout # <<>> => \A v \in Workers : wpc[v] # "done"
    BY DEF Ends
  <1> QED
    BY <1>1, <1>2, <1>3 DEF Ends

LEMMA SubmitInv ==
    ASSUME IInv, NEW w \in Workers, SubmitStep(w), UNCHANGED flowVars
    PROVE  IInv'
  <1> USE DEF IInv
  <1>1. UNCHANGED <<gpc, next, out, fpc, held, fout, rpc, stats>>
    OBVIOUS
  <1>2. /\ wpc[w] \in BusyPCs
        /\ res' \in [Workers -> Results \cup {NoResult}]
        /\ UNCHANGED <<cur, chan, cancelled>>
    BY SubmitKeeps
  <1>3. PICK pc \in BusyPCs : wpc' = [wpc EXCEPT ![w] = pc]
    BY SubmitKeeps
  <1>4. pc \in PCs \ {"drain", "done"} /\ wpc[w] # "done"
    BY <1>2 DEF BusyPCs, PCs
  <1>5. FlowTypes'
    BY <1>1, <1>2, <1>3, <1>4 DEF FlowTypes
  <1>6. Holds'
    BY <1>1, <1>2, <1>3 DEF Holds, FlowTypes
  <1>7. Ends'
    BY <1>1, <1>2, <1>3, <1>4, WorkerKeepsEnds
  <1>8. Conservation'
    <2>1. Cardinality(Busy') = Cardinality(Busy)
      BY <1>2, <1>3, <1>4, BusyChange
    <2> QED
      BY <1>1, <2>1 DEF Conservation, InFlight
  <1> QED
    BY <1>5, <1>6, <1>7, <1>8

LEMMA ReceiveInv == ASSUME IInv, NEW w \in Workers, WorkerReceive(w) PROVE IInv'
  <1> USE DEF IInv
  <1>1. /\ wpc[w] = "recv" /\ fout # <<>> /\ fout' = Tail(fout)
        /\ cur' = [cur EXCEPT ![w] = Head(fout)]
        /\ wpc' = [wpc EXCEPT ![w] = "dispatch"]
        /\ UNCHANGED <<gpc, next, out, fpc, held, rpc, stats, cancelled, res, chan>>
    BY DEF WorkerReceive, Goto
  <1>2. "dispatch" \in PCs \ {"drain", "done"} /\ "dispatch" \in BusyPCs /\ "recv" \notin BusyPCs
    BY DEF PCs, BusyPCs
  <1>3. /\ Head(fout) \in Events /\ fout' \in Seq(Events)
        /\ Len(fout') = Len(fout) - 1 /\ Len(fout) \in Nat /\ Len(out) \in Nat
    BY <1>1 DEF FlowTypes
  <1>4. FlowTypes'
    BY <1>1, <1>2, <1>3 DEF FlowTypes
  <1>5. Holds'
    BY <1>1, <1>3 DEF Holds, FlowTypes
  <1>6. Ends'
    BY <1>1, <1>2, WorkerKeepsEnds
  <1>7. Conservation'
    <2>1. Cardinality(Busy') = Cardinality(Busy) + 1
      BY <1>1, <1>2, BusyChange
    <2>2. InFlight' = InFlight
      <3>1. (IF fpc' = "put" THEN 1 ELSE 0) = (IF fpc = "put" THEN 1 ELSE 0)
            /\ (IF fpc = "put" THEN 1 ELSE 0) \in Nat
            /\ Len(out') = Len(out)
        BY <1>1
      <3> QED
        BY <1>3, <2>1, <3>1, BusyFinite DEF InFlight
    <2> QED
      BY <1>1, <2>2 DEF Conservation
  <1> QED
    BY <1>4, <1>5, <1>6, <1>7

\* The steps of a worker that neither take nor finish an event.
LEMMA WorkerMoveInv ==
    ASSUME IInv, NEW w \in Workers,
           \/ WorkerEnd(w) \/ WorkerCancelled(w) \/ DispatchAllowed(w)
           \/ drainOnExit(w) /\ fout = <<>>
    PROVE  IInv'
  <1> USE DEF IInv
  <1>1. UNCHANGED <<gpc, next, out, fpc, held, fout, rpc, stats, cancelled, cur, res, chan>>
    BY DEF WorkerEnd, WorkerCancelled, DispatchAllowed, drainOnExit, Goto
  <1>2. PICK pc \in {"done", "drain", "submit"} : wpc' = [wpc EXCEPT ![w] = pc]
    BY DEF WorkerEnd, WorkerCancelled, DispatchAllowed, drainOnExit, Goto
  <1>3. /\ wpc[w] \in {"recv", "dispatch", "drain"}
        /\ pc = "submit" <=> wpc[w] = "dispatch"
        /\ pc = "drain" => cancelled
        /\ pc = "done" => fout = <<>> /\ (fpc = "done" \/ wpc[w] = "drain")
    <2>0. wpc'[w] = pc
      BY <1>2 DEF FlowTypes
    <2>1. CASE WorkerEnd(w)
      BY <2>0, <2>1 DEF WorkerEnd, Goto, FlowTypes
    <2>2. CASE WorkerCancelled(w)
      BY <2>0, <2>2 DEF WorkerCancelled, Goto, FlowTypes
    <2>3. CASE DispatchAllowed(w)
      BY <2>0, <2>3 DEF DispatchAllowed, Goto, FlowTypes
    <2>4. CASE drainOnExit(w) /\ fout = <<>>
      BY <2>0, <2>4 DEF drainOnExit, Goto, FlowTypes
    <2> QED
      BY <2>1, <2>2, <2>3, <2>4
  <1>4. pc \in PCs /\ (wpc[w] \in BusyPCs <=> pc \in BusyPCs)
    BY <1>3 DEF PCs, BusyPCs
  <1>5. \A v \in Workers : wpc'[v] = IF v = w THEN pc ELSE wpc[v]
    BY <1>2 DEF FlowTypes
  <1>6. FlowTypes'
    BY <1>1, <1>2, <1>4 DEF FlowTypes
  <1>7. Holds'
    BY <1>1, <1>4, <1>5 DEF Holds
  <1>8. Ends'
    BY <1>1, <1>3, <1>5 DEF Ends
  <1>9. Conservation'
    <2>1. Cardinality(Busy') = Cardinality(Busy)
      BY <1>2, <1>4, BusyChange
    <2> QED
      BY <1>1, <2>1 DEF Conservation, InFlight
  <1> QED
    BY <1>6, <1>7, <1>8, <1>9

\* drainOnExit takes an event and counts it as skipped.
LEMMA DrainInv ==
    ASSUME IInv, NEW w \in Workers, drainOnExit(w), fout # <<>>
    PROVE  IInv'
  <1> USE DEF IInv
  <1>1. /\ wpc[w] = "drain" /\ fout' = Tail(fout)
        /\ stats' = [stats EXCEPT !["skipped"] = @ + 1]
        /\ UNCHANGED <<gpc, next, out, fpc, held, rpc, cancelled, wpc, cur, res, chan>>
    BY DEF drainOnExit, Count
  <1>2. /\ fout' \in Seq(Events) /\ Len(fout') = Len(fout) - 1
        /\ Len(fout) \in Nat /\ Len(out) \in Nat
    BY <1>1 DEF FlowTypes
  <1>3. /\ stats' \in [Counters -> Nat] /\ stats'["skipped"] = stats["skipped"] + 1
        /\ stats'["generated"] = stats["generated"] /\ stats'["submitted"] = stats["submitted"]
        /\ stats'["deferred"] = stats["deferred"]
    BY <1>1 DEF FlowTypes, Counters
  <1>4. FlowTypes'
    BY <1>1, <1>2, <1>3 DEF FlowTypes
  <1>5. Holds'
    BY <1>1 DEF Holds
  <1>6. Ends'
    BY <1>1 DEF Ends
  <1>7. InFlight' = InFlight - 1
    <2>1. /\ (IF fpc' = "put" THEN 1 ELSE 0) = (IF fpc = "put" THEN 1 ELSE 0)
          /\ (IF fpc = "put" THEN 1 ELSE 0) \in Nat
          /\ Len(out') = Len(out) /\ Busy' = Busy
      BY <1>1 DEF Busy
    <2> QED
      BY <1>2, <2>1, BusyFinite DEF InFlight
  <1>8. Conservation'
    BY <1>3, <1>7, LeavesFlow
  <1> QED
    BY <1>4, <1>5, <1>6, <1>8

\* An event the breaker refused is counted as skipped, a dispatched one as
\* submitted, whatever its result.
LEMMA FinishInv ==
    ASSUME IInv, NEW w \in Workers, DispatchRefused(w) \/ Dispatched(w)
    PROVE  IInv'
  <1> USE DEF IInv
  <1>1. /\ wpc[w] \in {"dispatch", "record"}
        /\ cur' = [cur EXCEPT ![w] = NoEvent]
        /\ wpc' = [wpc EXCEPT ![w] = "recv"]
        /\ UNCHANGED <<gpc, next, out, fpc, held, fout, rpc, cancelled, chan>>
    BY DEF DispatchRefused, Dispatched, Goto
  <1>2. res' \in [Workers -> Results \cup {NoResult}]
    BY DEF DispatchRefused, Dispatched, Goto, FlowTypes
  <1>3. /\ stats' \in [Counters -> Nat]
        /\ stats'["generated"] = stats["generated"]
        /\ stats'["deferred"] = stats["deferred"]
        /\ \/ /\ stats'["submitted"] = stats["submitted"] + 1
              /\ stats'["skipped"] = stats["skipped"]
           \/ /\ stats'["submitted"] = stats["submitted"]
              /\ stats'["skipped"] = stats["skipped"] + 1
    <2>0. {"generated", "deferred", "submitted", "skipped"} \subseteq Counters
          /\ stats \in [Counters -> Nat]
      BY DEF Counters, FlowTypes
    <2>1. CASE DispatchRefused(w)
      <3>1. stats' = [stats EXCEPT !["skipped"] = @ + 1]
        BY <2>1 DEF DispatchRefused, Count
      <3> QED
        BY <2>0, <3>1
    <2>2. CASE Dispatched(w)
      <3>1. stats' = [c \in Counters |-> IF c \in Counted(cur[w], res[w])
                                         THEN stats[c] + 1 ELSE stats[c]]
        BY <2>2 DEF Dispatched
      <3>2. res[w] \in Results \cup {NoResult}
        BY DEF FlowTypes
      <3>3. /\ "submitted" \in Counted(cur[w], res[w])
            /\ "generated" \notin Counted(cur[w], res[w])
            /\ "deferred" \notin Counted(cur[w], res[w])
            /\ "skipped" \notin Counted(cur[w], res[w])
        BY <3>2 DEF Counted, Class, Results, Posts, NoResult
      <3> QED
        BY <2>0, <3>1, <3>3
    <2> QED
      BY <2>1, <2>2
  <1>4. "recv" \in PCs \ {"drain", "done"} /\ "recv" \notin BusyPCs /\ wpc[w] \in BusyPCs
        /\ wpc[w] # "done"
    BY <1>1 DEF PCs, BusyPCs
  <1>5. FlowTypes'
    BY <1>1, <1>2, <1>3, <1>4 DEF FlowTypes
  <1>6. Holds'
    BY <1>1, <1>4 DEF Holds, FlowTypes
  <1>7. Ends'
    BY <1>1, <1>4, WorkerKeepsEnds
  <1>8. InFlight' = InFlight - 1
    <2>1. Cardinality(Busy') = Cardinality(Busy) - 1
      BY <1>1, <1>4, BusyChange
    <2>2. /\ (IF fpc' = "put" THEN 1 ELSE 0) = (IF fpc = "put" THEN 1 ELSE 0)
          /\ (IF fpc = "put" THEN 1 ELSE 0) \in Nat
          /\ Len(out') = Len(out) /\ Len(fout') = Len(fout)
      BY <1>1
    <2>3. Len(out) \in Nat /\ Len(fout) \in Nat
      BY DEF FlowTypes
    <2> QED
      BY <2>1, <2>2, <2>3, BusyFinite DEF InFlight
  <1>9. Conservation'
    BY <1>3, <1>8, LeavesFlow
  <1> QED
    BY <1>5, <1>6, <1>7, <1>9

-----------------------------------------------------------------------------
(* The rest of the run, and the theorems. *)

\* What happens beside the flow: rest_batch's goroutines and the sweeper.
LEMMA BesideInv ==
    ASSUME IInv, UNCHANGED flowVars,
           (\E b \in Events : BatchStep(b)) \/ (\E x \in Events : SweepSession(x))
    PROVE  IInv'
  <1> USE DEF IInv
  <1>1. UNCHANGED <<gpc, next, out, fpc, held, fout, rpc, stats>>
    OBVIOUS
  <1>2. /\ chan' \in [Events -> Results \cup {NoResult}]
        /\ UNCHANGED <<wpc, cur, res, cancelled>>
    <2>1. ASSUME NEW x \in Events, SweepSession(x) PROVE UNCHANGED <<wpc, cur, res, cancelled, chan>>
      BY <2>1 DEF SweepSession
    <2> QED
      BY <2>1, BatchKeeps DEF FlowTypes
  <1>3. FlowTypes'
    BY <1>1, <1>2 DEF FlowTypes
  <1>4. Holds' /\ Ends'
    BY <1>1, <1>2 DEF Holds, Ends
  <1>5. Conservation'
    BY <1>1, <1>2 DEF Conservation, InFlight, Busy
  <1> QED
    BY <1>3, <1>4, <1>5

LEMMA RunnerInv == ASSUME IInv, RunnerStep \/ Cancel PROVE IInv'
  <1> USE DEF IInv
  <1>1. UNCHANGED <<gpc, next, out, fpc, held, fout, stats, wpc, cur, res, chan>>
    BY DEF RunnerStep, BuildResult, PoolCloseCsv, PoolCloseBatch, CloseCsv, CloseBatch, Cancel
  <1>2. /\ rpc' \in {"pool", "result", "closing", "closed"}
        /\ rpc' # "pool" => rpc # "pool" \/ (gpc = "done" /\ \A w \in Workers : wpc[w] = "done")
        /\ cancelled' \in BOOLEAN /\ (cancelled => cancelled')
    <2>1. CASE BuildResult
      BY <2>1 DEF BuildResult, FlowTypes
    <2>2. CASE PoolCloseCsv \/ PoolCloseBatch
      BY <2>2 DEF PoolCloseCsv, PoolCloseBatch, CloseCsv, CloseBatch, FlowTypes
    <2>3. CASE Cancel
      BY <2>3 DEF Cancel, FlowTypes
    <2> QED
      BY <2>1, <2>2, <2>3 DEF RunnerStep
  <1>3. FlowTypes'
    BY <1>1, <1>2 DEF FlowTypes
  <1>4. Holds'
    BY <1>1 DEF Holds
  <1>5. Ends'
    BY <1>1, <1>2 DEF Ends
  <1>6. Conservation'
    BY <1>1 DEF Conservation, InFlight, Busy
  <1> QED
    BY <1>3, <1>4, <1>5, <1>6

LEMMA InitInv == Init => IInv
  <1> SUFFICES ASSUME Init PROVE IInv
    OBVIOUS
  <1>1. FlowTypes /\ Holds
    BY FlowInit
  <1>2. Ends
    BY DEF Init, DriversInit, Ends
  <1>3. Conservation
    <2>1. Busy = {}
      BY DEF Init, DriversInit, Busy, BusyPCs
    <2>2. Cardinality(Busy) = 0
      BY <2>1, FS_EmptySet
    <2>3. Len(out) = 0 /\ Len(fout) = 0 /\ fpc # "put"
      BY DEF Init
    <2>4. InFlight = 0
      BY <2>2, <2>3 DEF InFlight
    <2>5. /\ stats["generated"] = 0 /\ stats["submitted"] = 0
          /\ stats["skipped"] = 0 /\ stats["deferred"] = 0
      BY DEF Init, Zero, Counters
    <2> QED
      BY <2>4, <2>5 DEF Conservation
  <1> QED
    BY <1>1, <1>2, <1>3 DEF IInv

LEMMA StepInv == IInv /\ [Next]_vars => IInv'
  <1> SUFFICES ASSUME IInv, [Next]_vars PROVE IInv'
    OBVIOUS
  <1>1. CASE GeneratorStep \/ FilterStep
    BY <1>1, GeneratorInv, FilterInv
  <1>2. ASSUME NEW w \in Workers, WorkerStep(w) PROVE IInv'
    <2>1. CASE drainOnExit(w)
      BY <2>1, DrainInv, WorkerMoveInv
    <2>2. CASE WorkerEnd(w) \/ WorkerCancelled(w) \/ DispatchAllowed(w)
      BY <2>2, WorkerMoveInv
    <2>3. CASE WorkerReceive(w) \/ DispatchRefused(w) \/ Dispatched(w)
      BY <2>3, ReceiveInv, FinishInv
    <2>4. CASE SubmitStep(w) /\ UNCHANGED flowVars
      BY <2>4, SubmitInv
    <2> QED
      BY <1>2, <2>1, <2>2, <2>3, <2>4 DEF WorkerStep
  <1>3. ASSUME NEW b \in Events, BatchGoroutine(b) PROVE IInv'
    BY <1>3, BesideInv DEF BatchGoroutine
  <1>4. ASSUME NEW x \in Events, SweepSession(x), UNCHANGED flowVars PROVE IInv'
    BY <1>4, BesideInv
  <1>5. CASE RunnerStep \/ Cancel
    BY <1>5, RunnerInv
  <1>6. CASE UNCHANGED vars
    <2>1. UNCHANGED <<gpc, next, out, fpc, held, fout, rpc, stats,
                      wpc, cur, res, chan, cancelled>>
      BY <1>6 DEF vars
    <2> QED
      BY <2>1 DEF IInv, FlowTypes, Holds, Ends, Conservation, InFlight, Busy
  <1> QED
    BY <1>1, <1>2, <1>3, <1>4, <1>5, <1>6 DEF Next, Progress

\* Generator, filter and pool lose and invent no event: whatever the workers,
\* the timers and a cancellation do, what Stats.Generated counted is counted once
\* by PoolStats or the filter's deferredCount, or still on its way.
THEOREM NothingLost == Spec => []Conservation
  <1>1. IInv => Conservation
    BY DEF IInv
  <1> QED
    BY InitInv, StepInv, <1>1, PTL DEF Spec

\* The result a run that was not cancelled reports accounts for every event the
\* generator produced: pool.Run returns only when both channels are closed and
\* empty and no worker has an event left.
THEOREM CleanRunsBalance == Spec => []CleanRunBalances
  <1>1. IInv => CleanRunBalances
    <2> SUFFICES ASSUME IInv, rpc # "pool", ~cancelled
                 PROVE  stats["generated"]
                          = stats["submitted"] + stats["skipped"] + stats["deferred"]
      BY DEF CleanRunBalances
    <2>1. Workers # {}
      BY DriversAssumption
    <2>2. \A w \in Workers : wpc[w] = "done"
      BY DEF IInv, Ends
    <2>3. fpc = "done" /\ fout = <<>>
      BY <2>1, <2>2 DEF IInv, Ends
    <2>4. out = <<>>
      BY <2>3 DEF IInv, Ends
    <2>5. Busy = {}
      BY <2>2 DEF Busy, BusyPCs
    <2>6. Cardinality(Busy) = 0
      BY <2>5, FS_EmptySet
    <2>7. InFlight = 0
      BY <2>3, <2>4, <2>6 DEF InFlight
    <2>8. /\ stats["submitted"] \in Nat /\ stats["skipped"] \in Nat /\ stats["deferred"] \in Nat
      BY DEF IInv, FlowTypes, Counters
    <2> QED
      BY <2>7, <2>8 DEF IInv, Conservation
  <1> QED
    BY InitInv, StepInv, <1>1, PTL DEF Spec

-----------------------------------------------------------------------------
(***************************************************************************)
(* What the drivers promise the pool.  An event is in one place at a time: *)
(* still upstream (Upstream), with one worker, in one buffer or on the     *)
(* wire.  Before(P) are the events that have yet to pass the points P of   *)
(* Submit: it only shrinks, which bounds how often something is sent,      *)
(* opened or counted.                                                      *)
(***************************************************************************)
Upstream ==
    {e \in Events : \/ e >= next \/ e \in Items(out) \/ e \in Items(fout)
                    \/ (fpc = "put" /\ held = e)}

FlowOnce ==
    /\ \A i, j \in 1..Len(out) : out[i] = out[j] => i = j
    /\ \A i, j \in 1..Len(fout) : fout[i] = fout[j] => i = j
    /\ \A i \in 1..Len(out) : out[i] < next
    /\ \A j \in 1..Len(fout) : fout[j] < next
    /\ \A i \in 1..Len(out), j \in 1..Len(fout) : out[i] # fout[j]
    /\ fpc = "put" => /\ held < next
                      /\ \A i \in 1..Len(out) : out[i] # held
                      /\ \A j \in 1..Len(fout) : fout[j] # held

OneHolder ==
    /\ \A w \in Workers : cur[w] # NoEvent => cur[w] \notin Upstream /\ wpc[w] \in BusyPCs
    /\ \A v, w \in Workers : cur[v] = cur[w] /\ cur[v] # NoEvent => v = w

Before(P) == {e \in Events : e \in Upstream \/ \E w \in Workers : wpc[w] \in P /\ cur[w] = e}

ToSend == {"dispatch", "submit", "open", "invoke"}
ToOpen == {"dispatch", "submit", "open"}
ToBump == {"dispatch", "submit", "open", "invoke", "bump"}
Early  == {ToSend, ToOpen, ToBump}

\* Sequences of events, and their items.
LEMMA TakeOne ==
    ASSUME NEW s \in Seq(Events), s # <<>>
    PROVE  /\ Head(s) \in Events /\ Head(s) = s[1] /\ Tail(s) \in Seq(Events)
           /\ Len(s) \in Nat /\ 1 \in 1..Len(s)
           /\ Len(Tail(s)) = Len(s) - 1
           /\ \A i \in 1..Len(Tail(s)) : i + 1 \in 1..Len(s) /\ Tail(s)[i] = s[i + 1]
  OBVIOUS

LEMMA ItemsAt == \A s \in Seq(Events) : Items(s) = {s[i] : i \in 1..Len(s)} /\ Items(s) \subseteq Events
  BY DEF Items

LEMMA ItemsAppend ==
    ASSUME NEW s \in Seq(Events), NEW e \in Events
    PROVE  Append(s, e) \in Seq(Events) /\ Items(Append(s, e)) = Items(s) \cup {e}
  <1>1. /\ Append(s, e) \in Seq(Events) /\ Len(Append(s, e)) = Len(s) + 1 /\ Len(s) \in Nat
        /\ \A i \in 1..Len(s) : Append(s, e)[i] = s[i]
        /\ Append(s, e)[Len(s) + 1] = e
    OBVIOUS
  <1>2. \A i : i \in 1..(Len(s) + 1) <=> i \in 1..Len(s) \/ i = Len(s) + 1
    BY <1>1
  <1> QED
    BY <1>1, <1>2, ItemsAt

LEMMA ItemsTail ==
    ASSUME NEW s \in Seq(Events), s # <<>>
    PROVE  Items(s) = Items(Tail(s)) \cup {Head(s)} /\ Head(s) \in Items(s)
  <1>1. \A i \in 1..Len(s) : i = 1 \/ (i - 1 \in 1..Len(Tail(s)) /\ i = (i - 1) + 1)
    BY TakeOne
  <1>2. \A i \in 1..Len(s) : s[i] = Head(s) \/ s[i] \in Items(Tail(s))
    <2> SUFFICES ASSUME NEW i \in 1..Len(s), i # 1 PROVE s[i] \in Items(Tail(s))
      BY TakeOne
    <2>1. i - 1 \in 1..Len(Tail(s)) /\ Tail(s)[i - 1] = s[i]
      BY <1>1, TakeOne
    <2> QED
      BY <2>1, TakeOne, ItemsAt
  <1>3. Items(Tail(s)) \subseteq Items(s) /\ Head(s) \in Items(s)
    <2>1. \A i \in 1..Len(Tail(s)) : Tail(s)[i] \in Items(s)
      BY TakeOne, ItemsAt
    <2>2. Items(Tail(s)) = {Tail(s)[i] : i \in 1..Len(Tail(s))}
      BY TakeOne, ItemsAt
    <2>3. Head(s) \in Items(s)
      BY TakeOne, ItemsAt
    <2> QED
      BY <2>1, <2>2, <2>3
  <1>4. Items(s) \subseteq Items(Tail(s)) \cup {Head(s)}
    BY <1>2, ItemsAt
  <1> QED
    BY <1>3, <1>4

\* Channels and filter hand every event on once, and nothing flows back.
LEMMA FlowOnceInit == Init => FlowOnce /\ OneHolder
  BY DEF Init, DriversInit, FlowOnce, OneHolder

LEMMA SameFlow ==
    ASSUME UNCHANGED <<next, out, fout, fpc, held>>
    PROVE  (FlowOnce => FlowOnce') /\ Upstream' = Upstream
  BY DEF FlowOnce, Upstream

LEMMA GeneratorFlow ==
    ASSUME IInv, FlowOnce, GeneratorStep
    PROVE  FlowOnce' /\ Upstream' \subseteq Upstream
  <1>1. CASE GenStop \/ GenProduce \/ GenPutCancelled
    BY <1>1, SameFlow DEF GenStop, GenProduce, GenPutCancelled
  <1>2. CASE GenPut
    <2>1. /\ gpc = "put" /\ out' = Append(out, next) /\ next' = next + 1
          /\ UNCHANGED <<fout, fpc, held>>
      BY <1>2 DEF GenPut
    <2>2. next \in Events /\ out \in Seq(Events) /\ fout \in Seq(Events) /\ next \in Nat
          /\ held \in Events \cup {NoEvent}
      <3>1. next \in Events /\ out \in Seq(Events) /\ fout \in Seq(Events)
            /\ held \in Events \cup {NoEvent}
        BY <2>1 DEF IInv, Holds, FlowTypes
      <3> QED
        BY <3>1 DEF Events
    <2>3. /\ Len(out) \in Nat /\ Len(out') = Len(out) + 1
          /\ \A i \in 1..Len(out) : out'[i] = out[i]
          /\ out'[Len(out) + 1] = next
      BY <2>1, <2>2
    <2>4. /\ \A i \in 1..Len(out) : out[i] \in Nat
          /\ \A j \in 1..Len(fout) : fout[j] \in Nat
          /\ held \in Nat
      <3>1. /\ \A i \in 1..Len(out) : out[i] \in Events
            /\ \A j \in 1..Len(fout) : fout[j] \in Events
        BY <2>2
      <3>2. \A e \in Events \cup {NoEvent} : e \in Nat
        BY DEF Events, NoEvent
      <3> QED
        BY <2>2, <3>1, <3>2
    <2>5. \A i : i \in 1..Len(out') <=> i \in 1..Len(out) \/ i = Len(out) + 1
      BY <2>3
    <2>f. /\ \A i \in 1..Len(out) : out[i] < next + 1 /\ out[i] # next
          /\ \A j \in 1..Len(fout) : fout[j] < next + 1 /\ fout[j] # next
          /\ fpc = "put" => held < next + 1 /\ held # next
          /\ next < next + 1
      BY <2>2, <2>4 DEF FlowOnce
    <2>6. FlowOnce'
      <3>1. \A i, j \in 1..Len(out') : out'[i] = out'[j] => i = j
        BY <2>3, <2>5, <2>f DEF FlowOnce
      <3>2. \A i \in 1..Len(out') : out'[i] < next'
        BY <2>1, <2>3, <2>5, <2>f
      <3>3. \A i \in 1..Len(out'), j \in 1..Len(fout') : out'[i] # fout'[j]
        BY <2>1, <2>3, <2>5, <2>f DEF FlowOnce
      <3> QED
        BY <2>1, <2>3, <2>5, <2>f, <3>1, <3>2, <3>3 DEF FlowOnce
    <2>7. Items(out') = Items(out) \cup {next}
      BY <2>1, <2>2, ItemsAppend
    <2>8. \A e \in Events : e >= next + 1 => e >= next
      BY <2>2 DEF Events
    <2>9. next >= next
      BY <2>2
    <2>10. Upstream' \subseteq Upstream
      BY <2>1, <2>7, <2>8, <2>9 DEF Upstream
    <2> QED
      BY <2>6, <2>10
  <1> QED
    BY <1>1, <1>2 DEF GeneratorStep

\* The first event leaves a channel.
LEMMA TailDistinct ==
    ASSUME NEW s \in Seq(Events), s # <<>>, \A i, j \in 1..Len(s) : s[i] = s[j] => i = j
    PROVE  /\ \A i, j \in 1..Len(Tail(s)) : Tail(s)[i] = Tail(s)[j] => i = j
           /\ \A i \in 1..Len(Tail(s)) : Tail(s)[i] # Head(s)
           /\ \A i \in 1..Len(Tail(s)) : \E k \in 1..Len(s) : Tail(s)[i] = s[k]
           /\ Head(s) \notin Items(Tail(s))
  <1>1. \A i, j \in 1..Len(Tail(s)) : Tail(s)[i] = Tail(s)[j] => i = j
    BY TakeOne
  <1>2. \A i \in 1..Len(Tail(s)) : Tail(s)[i] # Head(s)
    BY TakeOne
  <1>3. \A i \in 1..Len(Tail(s)) : \E k \in 1..Len(s) : Tail(s)[i] = s[k]
    BY TakeOne
  <1>4. Items(Tail(s)) = {Tail(s)[i] : i \in 1..Len(Tail(s))}
    BY TakeOne, ItemsAt
  <1> QED
    BY <1>1, <1>2, <1>3, <1>4

LEMMA FilterFlow ==
    ASSUME IInv, FlowOnce, FilterStep
    PROVE  FlowOnce' /\ Upstream' \subseteq Upstream
  <1>t. /\ out \in Seq(Events) /\ fout \in Seq(Events)
        /\ held \in Events \cup {NoEvent} /\ (fpc = "put" => held \in Events)
    BY DEF IInv, FlowTypes, Holds
  <1>1. ASSUME NEW roll \in BOOLEAN, Filter(roll) PROVE FlowOnce' /\ Upstream' \subseteq Upstream
    <2>1. /\ fpc = "recv" /\ out # <<>> /\ out' = Tail(out) /\ UNCHANGED <<next, fout>>
          /\ (fpc' = "put" /\ held' = Head(out)) \/ (fpc' = "recv" /\ held' = held)
      BY <1>1 DEF Filter
    <2>2. \A i \in 1..Len(out') : \E k \in 1..Len(out) : out'[i] = out[k]
      BY <1>t, <2>1, TailDistinct DEF FlowOnce
    <2>3. Head(out) = out[1] /\ 1 \in 1..Len(out)
      BY <1>t, <2>1, TakeOne
    <2>4. /\ \A i, j \in 1..Len(out') : out'[i] = out'[j] => i = j
          /\ \A i \in 1..Len(out') : out'[i] # Head(out)
      BY <1>t, <2>1, TailDistinct DEF FlowOnce
    <2>5. FlowOnce'
      BY <2>1, <2>2, <2>3, <2>4 DEF FlowOnce
    <2>6. Items(out) = Items(out') \cup {Head(out)}
      BY <1>t, <2>1, ItemsTail
    <2> QED
      BY <2>1, <2>5, <2>6 DEF Upstream
  <1>2. CASE FilterPut
    <2>1. /\ fpc = "put" /\ fpc' = "recv" /\ fout' = Append(fout, held) /\ UNCHANGED <<next, out>>
      BY <1>2 DEF FilterPut
    <2>2. /\ Len(fout) \in Nat /\ Len(fout') = Len(fout) + 1
          /\ \A i \in 1..Len(fout) : fout'[i] = fout[i]
          /\ fout'[Len(fout) + 1] = held
      BY <1>t, <2>1
    <2>3. \A i : i \in 1..Len(fout') <=> i \in 1..Len(fout) \/ i = Len(fout) + 1
      BY <2>2
    <2>4. FlowOnce'
      BY <2>1, <2>2, <2>3 DEF FlowOnce
    <2>5. Items(fout') = Items(fout) \cup {held}
      BY <1>t, <2>1, ItemsAppend
    <2> QED
      BY <2>1, <2>4, <2>5 DEF Upstream
  <1>3. CASE FilterClose
    <2>1. UNCHANGED <<next, out, fout, held>> /\ fpc = "recv" /\ fpc' = "done"
      BY <1>3 DEF FilterClose
    <2> QED
      BY <2>1 DEF FlowOnce, Upstream
  <1> QED
    BY <1>1, <1>2, <1>3 DEF FilterStep

\* A worker takes the first event of the filter's channel.
LEMMA TakenFlow ==
    ASSUME IInv, FlowOnce, fout # <<>>, fout' = Tail(fout), UNCHANGED <<next, out, fpc, held>>
    PROVE  /\ FlowOnce' /\ Upstream' \subseteq Upstream
           /\ Head(fout) \in Upstream /\ Head(fout) \notin Upstream'
  <1>t. out \in Seq(Events) /\ fout \in Seq(Events) /\ next \in 1 .. NEvents + 1
    BY DEF IInv, FlowTypes
  <1>1. Head(fout) = fout[1] /\ 1 \in 1..Len(fout) /\ Head(fout) \in Events
    BY <1>t, TakeOne
  <1>2. /\ \A i, j \in 1..Len(fout') : fout'[i] = fout'[j] => i = j
        /\ \A i \in 1..Len(fout') : \E k \in 1..Len(fout) : fout'[i] = fout[k]
        /\ Head(fout) \notin Items(fout')
    BY <1>t, TailDistinct DEF FlowOnce
  <1>3. FlowOnce'
    BY <1>2 DEF FlowOnce
  <1>4. Items(fout) = Items(fout') \cup {Head(fout)} /\ Head(fout) \in Items(fout)
    BY <1>t, ItemsTail
  <1>5. Head(fout) < next /\ Head(fout) \in Nat /\ next \in Nat
    BY <1>t, <1>1, NEventsType DEF FlowOnce, Events
  <1>6. ~(Head(fout) >= next)
    BY <1>5
  <1>7. Head(fout) \notin Items(out) /\ ~(fpc = "put" /\ held = Head(fout))
    BY <1>t, <1>1, ItemsAt DEF FlowOnce
  <1> QED
    BY <1>1, <1>2, <1>3, <1>4, <1>6, <1>7 DEF Upstream

\* Nobody moves an event back to where it has passed.
LEMMA SameHolders ==
    ASSUME OneHolder, Upstream' \subseteq Upstream, UNCHANGED <<cur, wpc>>
    PROVE  OneHolder' /\ \A P \in Early : Before(P)' \subseteq Before(P)
  <1>1. OneHolder'
    BY DEF OneHolder
  <1>2. ASSUME NEW P \in Early PROVE Before(P)' \subseteq Before(P)
    BY DEF Before
  <1> QED
    BY <1>1, <1>2

\* A worker goes on with its event.
LEMMA MoveHolders ==
    ASSUME FlowTypes, OneHolder, Upstream' = Upstream, NEW w \in Workers, NEW pc \in BusyPCs,
           wpc[w] \in BusyPCs, wpc' = [wpc EXCEPT ![w] = pc], UNCHANGED cur,
           cur[w] \in Events
    PROVE  /\ OneHolder'
           /\ \A P \in Early : (pc \in P => wpc[w] \in P) => Before(P)' \subseteq Before(P)
           /\ \A P \in Early : pc \notin P => cur[w] \notin Before(P)'
           /\ \A P \in Early : wpc[w] \in P => cur[w] \in Before(P)
  <1>0. cur[w] # NoEvent
    BY DEF Events, NoEvent
  <1>1. \A v \in Workers : wpc'[v] = IF v = w THEN pc ELSE wpc[v]
    BY DEF FlowTypes
  <1>2. OneHolder'
    BY <1>1 DEF OneHolder
  <1>3. ASSUME NEW P \in Early, pc \in P => wpc[w] \in P PROVE Before(P)' \subseteq Before(P)
    BY <1>1, <1>3 DEF Before
  <1>4. ASSUME NEW P \in Early, pc \notin P PROVE cur[w] \notin Before(P)'
    BY <1>0, <1>1, <1>4 DEF Before, OneHolder
  <1>5. ASSUME NEW P \in Early, wpc[w] \in P PROVE cur[w] \in Before(P)
    BY <1>5 DEF Before
  <1> QED
    BY <1>2, <1>3, <1>4, <1>5

\* A worker without an event takes one, or lets go of its own, or goes away.
LEMMA ReceiveHolders ==
    ASSUME IInv, FlowOnce, OneHolder, NEW w \in Workers, WorkerReceive(w)
    PROVE  /\ FlowOnce' /\ OneHolder' /\ Upstream' \subseteq Upstream
           /\ \A P \in Early : Before(P)' \subseteq Before(P)
  <1>1. /\ wpc[w] = "recv" /\ fout # <<>> /\ fout' = Tail(fout)
        /\ cur' = [cur EXCEPT ![w] = Head(fout)]
        /\ wpc' = [wpc EXCEPT ![w] = "dispatch"]
        /\ UNCHANGED <<next, out, fpc, held>>
    BY DEF WorkerReceive, Goto
  <1>2. /\ FlowOnce' /\ Upstream' \subseteq Upstream
        /\ Head(fout) \in Upstream /\ Head(fout) \notin Upstream'
    BY <1>1, TakenFlow
  <1>3. \A v \in Workers : /\ wpc'[v] = IF v = w THEN "dispatch" ELSE wpc[v]
                           /\ cur'[v] = IF v = w THEN Head(fout) ELSE cur[v]
    BY <1>1 DEF IInv, FlowTypes
  <1>4. "dispatch" \in BusyPCs
    BY DEF BusyPCs
  <1>5. OneHolder'
    <2>1. \A v \in Workers : cur'[v] # NoEvent => cur'[v] \notin Upstream' /\ wpc'[v] \in BusyPCs
      BY <1>2, <1>3, <1>4 DEF OneHolder
    <2>2. \A v \in Workers : v # w /\ cur[v] # NoEvent => cur[v] # Head(fout)
      BY <1>2 DEF OneHolder
    <2>3. \A u, v \in Workers : cur'[u] = cur'[v] /\ cur'[u] # NoEvent => u = v
      BY <1>3, <2>2 DEF OneHolder
    <2> QED
      BY <2>1, <2>3 DEF OneHolder
  <1>6. ASSUME NEW P \in Early PROVE Before(P)' \subseteq Before(P)
    <2> SUFFICES ASSUME NEW e \in Events, e \in Before(P)' PROVE e \in Before(P)
      BY DEF Before
    <2>1. CASE e \in Upstream'
      BY <1>2, <2>1 DEF Before
    <2>2. ASSUME NEW v \in Workers, wpc'[v] \in P, cur'[v] = e PROVE e \in Before(P)
      <3>1. CASE v = w
        BY <1>2, <1>3, <2>2, <3>1 DEF Before
      <3>2. CASE v # w
        BY <1>3, <2>2, <3>2 DEF Before
      <3> QED
        BY <3>1, <3>2
    <2> QED
      BY <2>1, <2>2 DEF Before
  <1> QED
    BY <1>2, <1>5, <1>6

LEMMA LeaveHolders ==
    ASSUME IInv, OneHolder, Upstream' \subseteq Upstream, NEW w \in Workers, NEW pc \in PCs \ BusyPCs,
           wpc' = [wpc EXCEPT ![w] = pc],
           cur' = [cur EXCEPT ![w] = NoEvent] \/ (UNCHANGED cur /\ wpc[w] \notin BusyPCs)
    PROVE  /\ OneHolder'
           /\ \A P \in Early : Before(P)' \subseteq Before(P)
  <1>0. cur \in [Workers -> Events \cup {NoEvent}] /\ wpc \in [Workers -> PCs]
    BY DEF IInv, FlowTypes
  <1>1. \A v \in Workers : wpc'[v] = IF v = w THEN pc ELSE wpc[v]
    BY <1>0
  <1>2. \A v \in Workers : cur'[v] = IF v = w THEN NoEvent ELSE cur[v]
    <2>1. wpc[w] \notin BusyPCs => cur[w] = NoEvent
      BY DEF OneHolder
    <2> QED
      BY <1>0, <2>1
  <1>3. OneHolder'
    BY <1>1, <1>2 DEF OneHolder
  <1>4. ASSUME NEW P \in Early PROVE Before(P)' \subseteq Before(P)
    <2>1. NoEvent \notin Events
      BY DEF NoEvent, Events
    <2> QED
      BY <1>1, <1>2, <2>1 DEF Before
  <1> QED
    BY <1>3, <1>4

-----------------------------------------------------------------------------
(* The platform takes an event once, and an "ok" is true. *)

StoreTypes ==
    /\ mix \in Mixes
    /\ pending \in [Tenants -> Seq(Events)]
    /\ csv \in [Tenants -> Seq(Events)]
    /\ posting \in [Events -> Seq(Events)]
    /\ timer \in [Events -> {"none", "armed", "fired"}]
    /\ accepted \in [Events -> Nat]

\* An event that waits in a buffer or is on the wire.
Buffered(e) ==
    \/ \E t \in Tenants : e \in Items(pending[t]) \/ e \in Items(csv[t])
    \/ \E b \in Events : e \in Items(posting[b])

\* No event is in two buffers.
Apart ==
    /\ \A t \in Tenants : \A e \in Items(pending[t]) : tenant(e) = t /\ path(e) = "batch"
    /\ \A t \in Tenants : \A e \in Items(csv[t]) : tenant(e) = t /\ path(e) = "csv"
    /\ \A b \in Events : \A e \in Items(posting[b]) : path(e) = "batch"
    /\ \A b \in Events, t \in Tenants : Items(posting[b]) \cap Items(pending[t]) = {}
    /\ \A b, c \in Events : b # c => Items(posting[b]) \cap Items(posting[c]) = {}

NotSent ==
    /\ \A e \in Before(ToSend) : ~Buffered(e) /\ accepted[e] = 0
    /\ \A e \in Events : Buffered(e) => accepted[e] = 0

AfterSend == {"bump", "evict", "end", "delete", "record"}

\* The worker has an "ok" that its driver has read from the platform's answer.
SaysOk(w) == wpc[w] \in AfterSend /\ res[w] = "ok"

Honest ==
    /\ \A e \in Events : accepted[e] <= 1
    /\ \A e \in Events : chan[e] = "ok" => accepted[e] = 1
    /\ \A w \in Workers : SaysOk(w) => accepted[cur[w]] = 1

Delivered == StoreTypes /\ Apart /\ NotSent /\ Honest

LEMMA EventFacts ==
    ASSUME StoreTypes, NEW e \in Events
    PROVE  tenant(e) \in Tenants /\ mix[e].agent \in Agents /\ path(e) \in Paths /\ mix[e].neg \in BOOLEAN
  BY DriversAssumption DEF StoreTypes, Mix, tenant, path

LEMMA NoItems == Items(<<>>) = {}
  BY DEF Items

LEMMA OneItem == \A e : Items(<<e>>) = {e}
  BY DEF Items

LEMMA DeliveredInit == Init => Delivered
  <1> SUFFICES ASSUME Init PROVE Delivered
    OBVIOUS
  <1>1. StoreTypes
    BY DEF Init, DriversInit, StoreTypes
  <1>2. /\ \A t \in Tenants : Items(pending[t]) = {} /\ Items(csv[t]) = {}
        /\ \A b \in Events : Items(posting[b]) = {}
    BY NoItems DEF Init, DriversInit
  <1>3. Apart
    BY <1>2 DEF Apart
  <1>4. \A e \in Events : ~Buffered(e) /\ accepted[e] = 0 /\ chan[e] = NoResult
    BY <1>2 DEF Buffered, Init, DriversInit
  <1>5. NotSent
    BY <1>4 DEF NotSent, Before
  <1>6. Honest
    <2>1. \A w \in Workers : wpc[w] \notin AfterSend
      BY DEF Init, DriversInit, AfterSend
    <2> QED
      BY <1>4, <2>1 DEF Honest, SaysOk, NoResult
  <1> QED
    BY <1>1, <1>3, <1>5, <1>6 DEF Delivered

\* What Accept leaves.
LEMMA Accepting ==
    ASSUME StoreTypes, NEW T \in SUBSET Events, Accept(T)
    PROVE  /\ accepted' \in [Events -> Nat]
           /\ \A e \in Events : accepted'[e] = IF e \in T THEN accepted[e] + 1 ELSE accepted[e]
  BY DEF StoreTypes, Accept

LEMMA AcceptNone ==
    ASSUME StoreTypes, UNCHANGED accepted PROVE Accept({})
  BY DEF StoreTypes, Accept

\* A step that lets the platform take T, of events nobody has sent before, and
\* buffers only such events, keeps the drivers' promise.
LEMMA Delivery ==
    ASSUME Delivered, NEW T \in SUBSET Events, Accept(T),
           Before(ToSend)' \subseteq Before(ToSend),
           \A e \in T : accepted[e] = 0 /\ ~Buffered(e)' /\ e \notin Before(ToSend)',
           \A e \in Events : Buffered(e)' => \/ Buffered(e)
                                             \/ accepted[e] = 0 /\ e \notin Before(ToSend)',
           \A e \in Events : chan'[e] = "ok" => e \in T \/ chan[e] = "ok",
           \A w \in Workers : SaysOk(w)' => cur'[w] \in Events
                                            /\ (cur'[w] \in T \/ accepted[cur'[w]] = 1)
    PROVE  accepted' \in [Events -> Nat] /\ NotSent' /\ Honest'
  <1>1. /\ accepted' \in [Events -> Nat]
        /\ \A e \in Events : accepted'[e] = IF e \in T THEN accepted[e] + 1 ELSE accepted[e]
    BY Accepting DEF Delivered
  <1>2. /\ \A e \in T : accepted'[e] = 1
        /\ \A e \in Events \ T : accepted'[e] = accepted[e]
    BY <1>1
  <1>3. Before(ToSend) \subseteq Events /\ Before(ToSend)' \subseteq Events
    BY DEF Before
  <1>4. NotSent'
    <2>1. \A e \in Before(ToSend)' : e \notin T /\ ~Buffered(e) /\ accepted[e] = 0
      BY <1>3 DEF Delivered, NotSent
    <2>2. \A e \in Before(ToSend)' : ~Buffered(e)' /\ accepted'[e] = 0
      BY <1>2, <1>3, <2>1
    <2>3. \A e \in Events : Buffered(e)' => accepted'[e] = 0
      BY <1>2 DEF Delivered, NotSent
    <2> QED
      BY <2>2, <2>3 DEF NotSent
  <1>5. Honest'
    <2>1. \A e \in Events : accepted'[e] <= 1
      BY <1>2 DEF Delivered, Honest
    <2>2. \A e \in Events : accepted[e] = 1 => accepted'[e] = 1
      BY <1>2
    <2>3. \A e \in Events : chan'[e] = "ok" => accepted'[e] = 1
      BY <1>2, <2>2 DEF Delivered, Honest
    <2>4. \A w \in Workers : SaysOk(w)' => accepted'[cur'[w]] = 1
      BY <1>2, <2>2
    <2> QED
      BY <2>1, <2>3, <2>4 DEF Honest
  <1> QED
    BY <1>1, <1>4, <1>5

\* Submit only moves forward.
Routes ==
    {<<"submit", "record">>, <<"submit", "send">>, <<"submit", "wait">>, <<"submit", "open">>,
     <<"submit", "invoke">>, <<"send", "wait">>, <<"wait", "record">>, <<"open", "invoke">>,
     <<"open", "record">>, <<"invoke", "bump">>, <<"invoke", "record">>, <<"invoke", "evict">>,
     <<"bump", "end">>, <<"bump", "record">>, <<"evict", "record">>, <<"end", "record">>,
     <<"end", "delete">>, <<"delete", "record">>}

LEMMA SubmitRoute ==
    ASSUME NEW w \in Workers, SubmitStep(w)
    PROVE  \E pc : <<wpc[w], pc>> \in Routes /\ wpc' = [wpc EXCEPT ![w] = pc]
  <1> DEFINE Goes(a, b) == wpc[w] = a /\ wpc' = [wpc EXCEPT ![w] = b]
  <1>a. ASSUME NEW a, NEW b, Goes(a, b), <<a, b>> \in Routes
        PROVE  \E pc : <<wpc[w], pc>> \in Routes /\ wpc' = [wpc EXCEPT ![w] = pc]
    BY <1>a
  <1> HIDE DEF Goes
  <1>1. CASE SubmitUnknown(w)
    <2>1. Goes("submit", "record")
      BY <1>1 DEF Goes, SubmitUnknown, Driven, Return
    <2> QED
      BY <2>1, <1>a DEF Routes
  <1>2. CASE SubmitDirect(w)
    <2>1. Goes("submit", "record")
      BY <1>2 DEF Goes, SubmitDirect, Driven, Return
    <2> QED
      BY <2>1, <1>a DEF Routes
  <1>2m. CASE SubmitMcp(w)
    <2>1. Goes("submit", "record")
      BY <1>2m DEF Goes, SubmitMcp, Driven, Return
    <2> QED
      BY <2>1, <1>a DEF Routes
  <1>3. CASE SubmitBatch(w)
    <2>1. Goes("submit", "send") \/ Goes("submit", "wait")
      BY <1>3 DEF Goes, SubmitBatch, Driven, Goto
    <2> QED
      BY <2>1, <1>a DEF Routes
  <1>4. CASE SubmitCsv(w)
    <2>1. Goes("submit", "record")
      BY <1>4 DEF Goes, SubmitCsv, Driven, Return
    <2> QED
      BY <2>1, <1>a DEF Routes
  <1>5. CASE SendReturns(w)
    <2>1. Goes("send", "wait")
      BY <1>5 DEF Goes, SendReturns, Goto
    <2> QED
      BY <2>1, <1>a DEF Routes
  <1>6. CASE AwaitResult(w) \/ AwaitCancelled(w)
    <2>1. Goes("wait", "record")
      BY <1>6 DEF Goes, AwaitResult, AwaitCancelled, Return
    <2> QED
      BY <2>1, <1>a DEF Routes
  <1>7. CASE resolveSession(w)
    <2>1. Goes("submit", "open") \/ Goes("submit", "invoke")
      BY <1>7 DEF Goes, resolveSession, Driven, Goto
    <2> QED
      BY <2>1, <1>a DEF Routes
  <1>8. CASE OpenSession(w) \/ OpenSessionFails(w)
    <2>1. Goes("open", "invoke") \/ Goes("open", "record")
      BY <1>8 DEF Goes, OpenSession, OpenSessionFails, Goto, Return
    <2> QED
      BY <2>1, <1>a DEF Routes
  <1>9. CASE Invoke(w)
    <2>1. Goes("invoke", "bump") \/ Goes("invoke", "record") \/ Goes("invoke", "evict")
      BY <1>9 DEF Goes, Invoke, Return
    <2> QED
      BY <2>1, <1>a DEF Routes
  <1>10. CASE recordInvocation(w)
    <2>1. Goes("bump", "end") \/ Goes("bump", "record")
      BY <1>10 DEF Goes, recordInvocation, Goto
    <2> QED
      BY <2>1, <1>a DEF Routes
  <1>11. CASE evictSession(w)
    <2>1. Goes("evict", "record")
      BY <1>11 DEF Goes, evictSession, Goto
    <2> QED
      BY <2>1, <1>a DEF Routes
  <1>12. CASE endSession(w)
    <2>1. Goes("end", "record") \/ Goes("end", "delete")
      BY <1>12 DEF Goes, endSession, Goto
    <2> QED
      BY <2>1, <1>a DEF Routes
  <1>13. CASE DeleteSession(w)
    <2>1. Goes("delete", "record")
      BY <1>13 DEF Goes, DeleteSession, Goto
    <2> QED
      BY <2>1, <1>a DEF Routes
  <1> QED
    BY <1>1, <1>2, <1>2m, <1>3, <1>4, <1>5, <1>6, <1>7, <1>8, <1>9, <1>10, <1>11, <1>12, <1>13 DEF SubmitStep

LEMMA SubmitHolders ==
    ASSUME IInv, FlowOnce, OneHolder, NEW w \in Workers, SubmitStep(w), UNCHANGED flowVars
    PROVE  /\ FlowOnce' /\ OneHolder' /\ Upstream' = Upstream
           /\ cur' = cur /\ cur[w] \in Events /\ wpc \in [Workers -> PCs]
           /\ \A P \in Early : /\ Before(P)' \subseteq Before(P)
                               /\ wpc'[w] \notin P => cur[w] \notin Before(P)'
                               /\ wpc[w] \in P => cur[w] \in Before(P)
           /\ \A v \in Workers : v # w => wpc'[v] = wpc[v]
  <1>1. FlowOnce' /\ Upstream' = Upstream
    BY SameFlow
  <1>2. FlowTypes /\ Holds
    BY DEF IInv
  <1>3. wpc[w] \in BusyPCs /\ cur' = cur
    BY <1>2, SubmitKeeps
  <1>4. PICK pc : <<wpc[w], pc>> \in Routes /\ wpc' = [wpc EXCEPT ![w] = pc]
    BY SubmitRoute
  <1>5. pc \in BusyPCs /\ \A P \in Early : pc \in P => wpc[w] \in P
    BY <1>4 DEF Routes, BusyPCs, Early, ToSend, ToOpen, ToBump
  <1>6. cur[w] \in Events
    BY <1>2, <1>3 DEF Holds
  <1>7. wpc \in [Workers -> PCs]
    BY <1>2 DEF FlowTypes
  <1>8. wpc'[w] = pc /\ \A v \in Workers : v # w => wpc'[v] = wpc[v]
    BY <1>4, <1>7
  <1> QED
    BY <1>1, <1>2, <1>3, <1>4, <1>5, <1>6, <1>7, <1>8, MoveHolders

\* A worker sets its own result only.
LEMMA OwnResult ==
    ASSUME FlowTypes, NEW w \in Workers, SubmitStep(w)
    PROVE  \A v \in Workers : v # w => res'[v] = res[v]
  <1>0. \E r : res' = [res EXCEPT ![w] = r]
    <2>1. CASE \/ SubmitUnknown(w) \/ SubmitDirect(w) \/ SubmitMcp(w) \/ SubmitCsv(w)
               \/ AwaitResult(w) \/ AwaitCancelled(w) \/ OpenSessionFails(w)
      BY <2>1 DEF SubmitUnknown, SubmitDirect, SubmitMcp, SubmitCsv, AwaitResult, AwaitCancelled,
                  OpenSessionFails, Return
    <2>2. CASE Invoke(w)
      BY <2>2 DEF Invoke, Return
    <2>3. CASE \/ SubmitBatch(w) \/ SendReturns(w) \/ resolveSession(w) \/ OpenSession(w)
               \/ recordInvocation(w) \/ evictSession(w) \/ endSession(w) \/ DeleteSession(w)
      <3>1. res' = res
        BY <2>3 DEF SubmitBatch, SendReturns, resolveSession, OpenSession, recordInvocation,
                    evictSession, endSession, DeleteSession, Goto
      <3>2. res = [res EXCEPT ![w] = res[w]]
        BY DEF FlowTypes
      <3> QED
        BY <3>1, <3>2
    <2> QED
      BY <2>1, <2>2, <2>3 DEF SubmitStep
  <1> QED
    BY <1>0 DEF FlowTypes

\* Nothing is sent and nothing buffered.
LEMMA Quiet ==
    ASSUME Delivered, UNCHANGED <<mix, pending, posting, csv, accepted, chan>>,
           timer' \in [Events -> {"none", "armed", "fired"}],
           Before(ToSend)' \subseteq Before(ToSend),
           \A w \in Workers : SaysOk(w)' => cur'[w] \in Events /\ accepted[cur'[w]] = 1
    PROVE  Delivered'
  <1>1. StoreTypes
    BY DEF Delivered
  <1>2. Accept({})
    BY <1>1, AcceptNone
  <1>3. \A e \in Events : Buffered(e)' = Buffered(e)
    BY DEF Buffered
  <1>4. NotSent' /\ Honest'
    BY <1>2, <1>3, Delivery
  <1>5. StoreTypes' /\ Apart'
    BY <1>1 DEF StoreTypes, Apart, tenant, path, Delivered
  <1> QED
    BY <1>4, <1>5 DEF Delivered

\* What a Submit leaves as it is.
LEMMA SubmitFrame ==
    ASSUME IInv, FlowOnce, OneHolder, Delivered, NEW w \in Workers, SubmitStep(w),
           UNCHANGED flowVars, UNCHANGED mix, NEW T,
           SaysOk(w)' => cur[w] \in T \/ accepted[cur[w]] = 1
    PROVE  /\ Before(ToSend)' \subseteq Before(ToSend)
           /\ wpc'[w] \notin ToSend => cur[w] \notin Before(ToSend)'
           /\ wpc[w] \in ToSend => ~Buffered(cur[w]) /\ accepted[cur[w]] = 0
           /\ cur[w] \in Events /\ cur' = cur
           /\ \A v \in Workers : SaysOk(v)' => cur'[v] \in Events
                                               /\ (cur'[v] \in T \/ accepted[cur'[v]] = 1)
  <1>1. /\ cur' = cur /\ cur[w] \in Events
        /\ \A P \in Early : /\ Before(P)' \subseteq Before(P)
                            /\ wpc'[w] \notin P => cur[w] \notin Before(P)'
                            /\ wpc[w] \in P => cur[w] \in Before(P)
        /\ \A v \in Workers : v # w => wpc'[v] = wpc[v]
    BY SubmitHolders
  <1>2. ToSend \in Early
    BY DEF Early
  <1>3. \A v \in Workers : v # w => res'[v] = res[v]
    BY OwnResult DEF IInv
  <1>4. ASSUME NEW v \in Workers, SaysOk(v)', v # w PROVE cur[v] \in Events /\ accepted[cur[v]] = 1
    <2>1. SaysOk(v)
      BY <1>1, <1>3, <1>4 DEF SaysOk, path
    <2>2. wpc[v] \in BusyPCs
      BY <2>1 DEF SaysOk, AfterSend, BusyPCs
    <2> QED
      BY <2>1, <2>2 DEF IInv, Holds, Delivered, Honest
  <1>5. wpc[w] \in ToSend => ~Buffered(cur[w]) /\ accepted[cur[w]] = 0
    BY <1>1, <1>2 DEF Delivered, NotSent
  <1> QED
    BY <1>1, <1>2, <1>4, <1>5

\* The steps of Submit that neither send nor buffer.
LEMMA SubmitQuiet ==
    ASSUME IInv, FlowOnce, OneHolder, Delivered, NEW w \in Workers, SubmitStep(w),
           UNCHANGED flowVars, UNCHANGED <<mix, pending, posting, csv, timer, accepted, chan>>,
           SaysOk(w)' => accepted[cur[w]] = 1
    PROVE  Delivered'
  <1>0. PICK T : T = {}
    OBVIOUS
  <1>1. /\ Before(ToSend)' \subseteq Before(ToSend)
        /\ \A v \in Workers : SaysOk(v)' => cur'[v] \in Events /\ accepted[cur'[v]] = 1
    <2>1. SaysOk(w)' => cur[w] \in T \/ accepted[cur[w]] = 1
      OBVIOUS
    <2>2. UNCHANGED mix
      OBVIOUS
    <2>3. /\ Before(ToSend)' \subseteq Before(ToSend)
          /\ \A v \in Workers : SaysOk(v)' => cur'[v] \in Events
                                              /\ (cur'[v] \in T \/ accepted[cur'[v]] = 1)
      BY <2>1, <2>2, SubmitFrame
    <2> QED
      BY <1>0, <2>3
  <1>2. timer' \in [Events -> {"none", "armed", "fired"}]
    BY DEF Delivered, StoreTypes
  <1> QED
    BY <1>1, <1>2, Quiet

LEMMA SubmitWaits ==
    ASSUME IInv, FlowOnce, OneHolder, Delivered, NEW w \in Workers, UNCHANGED flowVars,
           \/ SubmitUnknown(w) \/ SendReturns(w) \/ AwaitResult(w) \/ AwaitCancelled(w)
           \/ resolveSession(w) \/ OpenSession(w) \/ OpenSessionFails(w)
           \/ recordInvocation(w) \/ evictSession(w) \/ endSession(w) \/ DeleteSession(w)
    PROVE  Delivered'
  <1>1. SubmitStep(w)
    BY DEF SubmitStep
  <1>2. UNCHANGED <<mix, pending, posting, csv, timer, accepted, chan>>
    BY DEF SubmitUnknown, SendReturns, AwaitResult, AwaitCancelled, resolveSession, OpenSession,
           OpenSessionFails, recordInvocation, evictSession, endSession, DeleteSession
  <1>3. wpc \in [Workers -> PCs] /\ res \in [Workers -> Results \cup {NoResult}] /\ Honest
    BY DEF IInv, FlowTypes, Delivered
  <1>4. cur' = cur /\ cur[w] \in Events
    BY <1>1, SubmitHolders
  <1>5. SaysOk(w)' => accepted[cur[w]] = 1
    <2>1. CASE SubmitUnknown(w) \/ AwaitCancelled(w) \/ OpenSessionFails(w)
      <3>1. res'[w] = "transport"
        BY <1>3, <2>1 DEF SubmitUnknown, AwaitCancelled, OpenSessionFails, Return
      <3> QED
        BY <3>1 DEF SaysOk
    <2>2. CASE AwaitResult(w)
      <3>1. res'[w] = chan[cur[w]]
        BY <1>3, <2>2 DEF AwaitResult, Return
      <3> QED
        BY <1>3, <1>4, <3>1 DEF SaysOk, Honest
    <2>3. CASE SendReturns(w) \/ resolveSession(w) \/ OpenSession(w)
      <3>1. wpc'[w] \in {"wait", "open", "invoke"}
        BY <1>3, <2>3 DEF SendReturns, resolveSession, OpenSession, Goto
      <3> QED
        BY <3>1 DEF SaysOk, AfterSend
    <2>4. CASE recordInvocation(w) \/ evictSession(w) \/ endSession(w) \/ DeleteSession(w)
      <3>1. res' = res /\ wpc[w] \in AfterSend
        BY <2>4 DEF recordInvocation, evictSession, endSession, DeleteSession, Goto, AfterSend
      <3>2. SaysOk(w)' => SaysOk(w)
        BY <1>2, <1>4, <3>1 DEF SaysOk, path
      <3> QED
        BY <1>3, <3>2 DEF Honest
    <2> QED
      BY <2>1, <2>2, <2>3, <2>4
  <1> QED
    BY <1>1, <1>2, <1>5, SubmitQuiet

\* A POST of one event.
LEMMA TakenItems ==
    ASSUME NEW r, NEW x, NEW T \in Taken(r, x)
    PROVE  T \subseteq Items(x) /\ (r = "ok" => T = Items(x))
  BY DEF Taken

LEMMA TakenPartlyItems ==
    ASSUME NEW r, NEW x, NEW T \in TakenPartly(r, x)
    PROVE  T \subseteq Items(x)
  BY TakenItems DEF TakenPartly

LEMMA SendsOne ==
    ASSUME IInv, FlowOnce, OneHolder, Delivered, NEW w \in Workers, SubmitStep(w),
           UNCHANGED flowVars, UNCHANGED <<mix, pending, posting, csv, timer, chan>>,
           NEW T \in SUBSET {cur[w]}, Accept(T), wpc[w] \in ToSend, wpc'[w] \notin ToSend,
           SaysOk(w)' => cur[w] \in T
    PROVE  Delivered'
  <1>0. UNCHANGED mix /\ (SaysOk(w)' => cur[w] \in T \/ accepted[cur[w]] = 1)
    OBVIOUS
  <1>1. /\ Before(ToSend)' \subseteq Before(ToSend)
        /\ cur[w] \notin Before(ToSend)' /\ ~Buffered(cur[w]) /\ accepted[cur[w]] = 0
        /\ cur[w] \in Events
        /\ \A v \in Workers : SaysOk(v)' => cur'[v] \in Events
                                            /\ (cur'[v] \in T \/ accepted[cur'[v]] = 1)
    BY <1>0, SubmitFrame
  <1>2. \A e \in Events : Buffered(e)' = Buffered(e)
    BY DEF Buffered
  <1>3. T \in SUBSET Events
    BY <1>1
  <1>4. accepted' \in [Events -> Nat] /\ NotSent' /\ Honest'
    BY <1>1, <1>2, <1>3, Delivery
  <1>5. StoreTypes' /\ Apart'
    BY <1>4 DEF StoreTypes, Apart, tenant, path, Delivered
  <1> QED
    BY <1>4, <1>5 DEF Delivered

LEMMA DirectDelivered ==
    ASSUME IInv, FlowOnce, OneHolder, Delivered, NEW w \in Workers, UNCHANGED flowVars,
           SubmitDirect(w)
    PROVE  Delivered'
  <1>1. PICK r \in Answers : \E T \in Taken(r, <<cur[w]>>) : Return(w, r) /\ Accept(T)
    BY DEF SubmitDirect
  <1>2. PICK T \in Taken(r, <<cur[w]>>) : Return(w, r) /\ Accept(T)
    BY <1>1
  <1>3. T \in SUBSET {cur[w]} /\ (r = "ok" => cur[w] \in T)
    BY TakenItems, OneItem
  <1>4. wpc \in [Workers -> PCs] /\ res \in [Workers -> Results \cup {NoResult}]
    BY DEF IInv, FlowTypes
  <1>5. wpc'[w] = "record" /\ res'[w] = r
    BY <1>2, <1>4 DEF Return
  <1>6. wpc[w] \in ToSend /\ wpc'[w] \notin ToSend
    BY <1>5 DEF SubmitDirect, Driven, ToSend
  <1>7. SaysOk(w)' => cur[w] \in T
    BY <1>3, <1>5 DEF SaysOk
  <1>8. SubmitStep(w) /\ UNCHANGED <<mix, pending, posting, csv, timer, chan>>
    BY DEF SubmitStep, SubmitDirect
  <1> QED
    BY <1>2, <1>3, <1>6, <1>7, <1>8, SendsOne

\* A result of mcp_jsonrpc is no "ok" that was read from an answer.
LEMMA McpDelivered ==
    ASSUME IInv, FlowOnce, OneHolder, Delivered, NEW w \in Workers, UNCHANGED flowVars,
           SubmitMcp(w)
    PROVE  Delivered'
  <1>1. PICK r \in Answers : \E T \in TakenPartly(r, <<cur[w]>>) : Return(w, Blind(r)) /\ Accept(T)
    BY DEF SubmitMcp
  <1>2. PICK T \in TakenPartly(r, <<cur[w]>>) : Return(w, Blind(r)) /\ Accept(T)
    BY <1>1
  <1>3. T \in SUBSET {cur[w]}
    BY TakenPartlyItems, OneItem
  <1>4. wpc \in [Workers -> PCs] /\ res \in [Workers -> Results \cup {NoResult}]
    BY DEF IInv, FlowTypes
  <1>5. wpc'[w] = "record" /\ res'[w] # "ok"
    BY <1>2, <1>4 DEF Return, Blind
  <1>6. wpc[w] \in ToSend /\ wpc'[w] \notin ToSend /\ ~SaysOk(w)'
    BY <1>5 DEF SubmitMcp, Driven, ToSend, SaysOk
  <1>8. SubmitStep(w) /\ UNCHANGED <<mix, pending, posting, csv, timer, chan>>
    BY DEF SubmitStep, SubmitMcp
  <1> QED
    BY <1>2, <1>3, <1>6, <1>8, SendsOne

LEMMA InvokeDelivered ==
    ASSUME IInv, FlowOnce, OneHolder, Delivered, NEW w \in Workers, UNCHANGED flowVars, Invoke(w)
    PROVE  Delivered'
  <1>1. wpc \in [Workers -> PCs] /\ res \in [Workers -> Results \cup {NoResult}] /\ StoreTypes
    BY DEF IInv, FlowTypes, Delivered
  <1>2. SubmitStep(w) /\ UNCHANGED <<mix, pending, posting, csv, timer, chan>> /\ wpc[w] \in ToSend
    BY DEF SubmitStep, Invoke, ToSend
  <1>3. ASSUME Accept({cur[w]}), wpc' = [wpc EXCEPT ![w] = "bump"] PROVE Delivered'
    <2>1. PICK T : T = {cur[w]}
      OBVIOUS
    <2>2. wpc'[w] \notin ToSend
      BY <1>1, <1>3 DEF ToSend
    <2>3. Accept(T) /\ T \in SUBSET {cur[w]} /\ (SaysOk(w)' => cur[w] \in T)
      BY <1>3, <2>1
    <2> QED
      BY <1>2, <2>2, <2>3, SendsOne
  <1>4. ASSUME NEW r \in Answers \ {"ok"}, NEW T \in SUBSET {cur[w]}, Return(w, r), Accept(T)
        PROVE  Delivered'
    <2>1. wpc'[w] = "record" /\ res'[w] = r
      BY <1>1, <1>4 DEF Return
    <2>2. wpc'[w] \notin ToSend /\ (SaysOk(w)' => cur[w] \in T)
      BY <2>1 DEF ToSend, SaysOk
    <2> QED
      BY <1>2, <1>4, <2>2, SendsOne
  <1>5. ASSUME res' = [res EXCEPT ![w] = "client"], wpc' = [wpc EXCEPT ![w] = "evict"],
               UNCHANGED accepted
        PROVE  Delivered'
    <2>1. PICK T : T = {}
      OBVIOUS
    <2>2. Accept(T) /\ T \in SUBSET {cur[w]}
      BY <1>1, <1>5, <2>1, AcceptNone
    <2>3. wpc'[w] \notin ToSend /\ (SaysOk(w)' => cur[w] \in T)
      BY <1>1, <1>5 DEF ToSend, SaysOk
    <2> QED
      BY <1>2, <2>2, <2>3, SendsOne
  <1>6. \/ Accept({cur[w]}) /\ wpc' = [wpc EXCEPT ![w] = "bump"]
        \/ \E r \in Answers \ {"ok"} : \E T \in SUBSET {cur[w]} : Return(w, r) /\ Accept(T)
        \/ /\ res' = [res EXCEPT ![w] = "client"] /\ wpc' = [wpc EXCEPT ![w] = "evict"]
           /\ UNCHANGED accepted
    <2>1. \A r : \A T \in (IF sess[w] \in live THEN Taken(r, <<cur[w]>>) ELSE {{}}) :
            T \in SUBSET {cur[w]}
      BY TakenItems, OneItem
    <2> QED
      BY <2>1 DEF Invoke
  <1> QED
    BY <1>3, <1>4, <1>5, <1>6

\* Events move between buffers, or join one.
LEMMA Moves ==
    ASSUME Delivered, UNCHANGED <<mix, accepted, chan>>, StoreTypes', Apart',
           Before(ToSend)' \subseteq Before(ToSend),
           \A e \in Events : Buffered(e)' => \/ Buffered(e)
                                             \/ accepted[e] = 0 /\ e \notin Before(ToSend)',
           \A w \in Workers : SaysOk(w)' => cur'[w] \in Events /\ accepted[cur'[w]] = 1
    PROVE  Delivered'
  <1>1. StoreTypes
    BY DEF Delivered
  <1>2. PICK T : T = {}
    OBVIOUS
  <1>3. Accept(T) /\ T \in SUBSET Events
    BY <1>1, <1>2, AcceptNone
  <1>4. \A e \in T : accepted[e] = 0 /\ ~Buffered(e)' /\ e \notin Before(ToSend)'
    BY <1>2
  <1>5. NotSent' /\ Honest'
    BY <1>3, <1>4, Delivery
  <1> QED
    BY <1>5 DEF Delivered

LEMMA BatchJoins ==
    ASSUME IInv, FlowOnce, OneHolder, Delivered, NEW w \in Workers, UNCHANGED flowVars,
           SubmitBatch(w)
    PROVE  Delivered'
  <1>a. PICK e : e = cur[w]
    OBVIOUS
  <1>b. PICK t : t = tenant(e)
    OBVIOUS
  <1>c. PICK buf : buf = Append(pending[t], e)
    OBVIOUS
  <1>d. PICK b : b = Head(buf)
    OBVIOUS
  <1>1. /\ wpc[w] = "submit" /\ path(e) = "batch"
        /\ UNCHANGED <<mix, accepted, chan, csv>> /\ SubmitStep(w)
        /\ \/ /\ pending' = [pending EXCEPT ![t] = <<>>]
              /\ posting' = [posting EXCEPT ![b] = buf]
              /\ timer' = [timer EXCEPT ![b] = IF timer[b] = "fired" THEN timer[b] ELSE "none"]
              /\ Goto(w, "send")
           \/ /\ pending' = [pending EXCEPT ![t] = buf]
              /\ timer' = [timer EXCEPT ![b] = IF Len(buf) = 1 THEN "armed" ELSE timer[b]]
              /\ Goto(w, "wait") /\ UNCHANGED posting
    BY <1>a, <1>b, <1>c, <1>d DEF SubmitBatch, Driven, SubmitStep
  <1>2. wpc'[w] \in {"send", "wait"} /\ StoreTypes
    BY <1>1 DEF Goto, IInv, FlowTypes, Delivered
  <1>3. wpc'[w] \notin ToSend /\ wpc[w] \in ToSend /\ ~SaysOk(w)' /\ UNCHANGED mix
    BY <1>1, <1>2 DEF ToSend, SaysOk, AfterSend
  <1>o. PICK T : T = {}
    OBVIOUS
  <1>4. /\ Before(ToSend)' \subseteq Before(ToSend) /\ e \notin Before(ToSend)'
        /\ ~Buffered(e) /\ accepted[e] = 0 /\ e \in Events
        /\ \A v \in Workers : SaysOk(v)' => cur'[v] \in Events
                                            /\ (cur'[v] \in T \/ accepted[cur'[v]] = 1)
    BY <1>1, <1>3, <1>a, SubmitFrame
  <1>5. t \in Tenants /\ pending[t] \in Seq(Events)
    BY <1>2, <1>4, <1>b, EventFacts DEF StoreTypes
  <1>6. /\ buf \in Seq(Events) /\ Items(buf) = Items(pending[t]) \cup {e}
        /\ buf # <<>> /\ b \in Events
    <2>1. buf \in Seq(Events) /\ Items(buf) = Items(pending[t]) \cup {e}
      BY <1>4, <1>5, <1>c, ItemsAppend
    <2>2. buf # <<>>
      BY <2>1, NoItems
    <2> QED
      BY <2>1, <2>2, <1>d, TakeOne
  <1>7. StoreTypes'
    <2>1. timer' \in [Events -> {"none", "armed", "fired"}]
      BY <1>1, <1>2, <1>6 DEF StoreTypes
    <2>2. pending' \in [Tenants -> Seq(Events)] /\ posting' \in [Events -> Seq(Events)]
      <3>1. /\ pending \in [Tenants -> Seq(Events)] /\ posting \in [Events -> Seq(Events)]
            /\ <<>> \in Seq(Events)
        BY <1>2 DEF StoreTypes
      <3>2. \/ pending' = [pending EXCEPT ![t] = <<>>] /\ posting' = [posting EXCEPT ![b] = buf]
            \/ pending' = [pending EXCEPT ![t] = buf] /\ posting' = posting
        BY <1>1
      <3> QED
        BY <1>6, <3>1, <3>2
    <2> QED
      BY <1>1, <1>2, <2>1, <2>2 DEF StoreTypes
  <1>n. /\ \A u \in Tenants : e \notin Items(pending[u])
        /\ \A c \in Events : e \notin Items(posting[c])
    BY <1>4 DEF Buffered
  <1>m. Apart
    BY DEF Delivered
  <1>8. Apart' /\ \A x \in Events : Buffered(x)' => Buffered(x) \/ x = e
    <2>1. CASE pending' = [pending EXCEPT ![t] = <<>>] /\ posting' = [posting EXCEPT ![b] = buf]
      <3>1. /\ \A u \in Tenants : Items(pending'[u]) = IF u = t THEN {} ELSE Items(pending[u])
            /\ \A c \in Events : Items(posting'[c])
                                   = IF c = b THEN Items(pending[t]) \cup {e} ELSE Items(posting[c])
        BY <1>2, <1>5, <1>6, <2>1, NoItems DEF StoreTypes
      <3>2. \A u \in Tenants : u # t => Items(pending[t]) \cap Items(pending[u]) = {}
        BY <1>5, <1>m DEF Apart
      <3>3. Apart'
        <4>1. \A u \in Tenants : \A x \in Items(pending'[u]) : tenant(x) = u /\ path(x) = "batch"
          BY <1>m, <3>1 DEF Apart
        <4>2. \A c \in Events : \A x \in Items(posting'[c]) : path(x) = "batch"
          BY <1>1, <1>5, <1>m, <3>1 DEF Apart
        <4>3. \A c \in Events, u \in Tenants : Items(posting'[c]) \cap Items(pending'[u]) = {}
          BY <1>5, <1>n, <1>m, <3>1, <3>2 DEF Apart
        <4>4. \A c, d \in Events : c # d => Items(posting'[c]) \cap Items(posting'[d]) = {}
          BY <1>5, <1>n, <1>m, <3>1 DEF Apart
        <4>5. \A u \in Tenants : \A x \in Items(csv'[u]) : tenant(x) = u /\ path(x) = "csv"
          BY <1>1, <1>m DEF Apart
        <4>6. mix' = mix
          BY <1>1
        <4> QED
          BY <4>1, <4>2, <4>3, <4>4, <4>5, <4>6 DEF Apart, tenant, path
      <3>4. \A x \in Events : Buffered(x)' => Buffered(x) \/ x = e
        BY <1>1, <1>5, <3>1 DEF Buffered
      <3> QED
        BY <3>3, <3>4
    <2>2. CASE pending' = [pending EXCEPT ![t] = buf] /\ posting' = posting
      <3>1. \A u \in Tenants : Items(pending'[u])
                                 = IF u = t THEN Items(pending[t]) \cup {e} ELSE Items(pending[u])
        BY <1>2, <1>5, <1>6, <2>2 DEF StoreTypes
      <3>2. Apart'
        <4>1. \A u \in Tenants : \A x \in Items(pending'[u]) : tenant(x) = u /\ path(x) = "batch"
          BY <1>1, <1>b, <1>m, <3>1 DEF Apart
        <4>2. \A c \in Events, u \in Tenants : Items(posting[c]) \cap Items(pending'[u]) = {}
          BY <1>5, <1>n, <1>m, <3>1 DEF Apart
        <4> QED
          BY <1>1, <1>m, <2>2, <4>1, <4>2 DEF Apart, tenant, path
      <3>3. \A x \in Events : Buffered(x)' => Buffered(x) \/ x = e
        BY <1>1, <1>5, <2>2, <3>1 DEF Buffered
      <3> QED
        BY <3>2, <3>3
    <2> QED
      BY <1>1, <2>1, <2>2
  <1>9. \A x \in Events : Buffered(x)' => Buffered(x) \/ (accepted[x] = 0 /\ x \notin Before(ToSend)')
    BY <1>4, <1>8
  <1>10. \A v \in Workers : SaysOk(v)' => cur'[v] \in Events /\ accepted[cur'[v]] = 1
    BY <1>o, <1>4
  <1>11. UNCHANGED <<mix, accepted, chan>>
    BY <1>1
  <1> QED
    BY <1>4, <1>7, <1>8, <1>9, <1>10, <1>11, Moves

LEMMA CsvDelivered ==
    ASSUME IInv, FlowOnce, OneHolder, Delivered, NEW w \in Workers, UNCHANGED flowVars,
           SubmitCsv(w)
    PROVE  Delivered'
  <1>a. PICK e : e = cur[w]
    OBVIOUS
  <1>b. PICK t : t = tenant(e)
    OBVIOUS
  <1>c. PICK buf : buf = Append(csv[t], e)
    OBVIOUS
  <1>1. /\ wpc[w] = "submit" /\ path(e) = "csv"
        /\ UNCHANGED <<mix, cur, pending, posting, timer, chan>> /\ SubmitStep(w)
        /\ \/ csv' = [csv EXCEPT ![t] = buf] /\ UNCHANGED accepted
           \/ /\ csv' = [csv EXCEPT ![t] = <<>>]
              /\ \E r \in Answers : \E T \in TakenPartly(r, buf) : Accept(T)
        /\ Return(w, "blind") \/ \E r : Return(w, Blind(r))
    BY <1>a, <1>b, <1>c DEF SubmitCsv, Driven, SubmitStep
  <1>2. wpc'[w] = "record" /\ res'[w] # "ok" /\ StoreTypes
    BY <1>1 DEF Return, Blind, IInv, FlowTypes, Delivered
  <1>3. wpc'[w] \notin ToSend /\ wpc[w] \in ToSend /\ ~SaysOk(w)' /\ UNCHANGED mix
    BY <1>1, <1>2 DEF ToSend, SaysOk
  <1>o. PICK none : none = {}
    OBVIOUS
  <1>4. /\ Before(ToSend)' \subseteq Before(ToSend) /\ e \notin Before(ToSend)'
        /\ ~Buffered(e) /\ accepted[e] = 0 /\ e \in Events
        /\ \A v \in Workers : SaysOk(v)' => cur'[v] \in Events
                                            /\ (cur'[v] \in none \/ accepted[cur'[v]] = 1)
    BY <1>1, <1>3, <1>a, SubmitFrame
  <1>5. t \in Tenants /\ csv[t] \in Seq(Events)
    BY <1>2, <1>4, <1>b, EventFacts DEF StoreTypes
  <1>6. buf \in Seq(Events) /\ Items(buf) = Items(csv[t]) \cup {e}
    BY <1>4, <1>5, <1>c, ItemsAppend
  <1>7. \A v \in Workers : SaysOk(v)' => cur'[v] \in Events /\ accepted[cur'[v]] = 1
    BY <1>o, <1>4
  <1>m. Apart /\ NotSent
    BY DEF Delivered
  <1>8. CASE csv' = [csv EXCEPT ![t] = buf] /\ UNCHANGED accepted
    <2>1. StoreTypes'
      BY <1>1, <1>2, <1>6, <1>8 DEF StoreTypes
    <2>2. \A u \in Tenants : Items(csv'[u])
                               = IF u = t THEN Items(csv[t]) \cup {e} ELSE Items(csv[u])
      BY <1>2, <1>5, <1>6, <1>8 DEF StoreTypes
    <2>3. Apart'
      <3>1. \A u \in Tenants : \A x \in Items(csv'[u]) : tenant(x) = u /\ path(x) = "csv"
        BY <1>1, <1>b, <1>m, <2>2 DEF Apart
      <3> QED
        BY <1>1, <1>m, <3>1 DEF Apart, tenant, path
    <2>4. \A x \in Events : Buffered(x)' => Buffered(x) \/ x = e
      BY <1>1, <1>5, <2>2 DEF Buffered
    <2>5. \A x \in Events : Buffered(x)' => Buffered(x) \/ (accepted[x] = 0 /\ x \notin Before(ToSend)')
      BY <1>4, <2>4
    <2>6. UNCHANGED <<mix, accepted, chan>>
      BY <1>1, <1>8
    <2> QED
      BY <1>4, <1>7, <2>1, <2>3, <2>5, <2>6, Moves
  <1>9. ASSUME NEW r \in Answers, NEW T \in TakenPartly(r, buf), Accept(T), csv' = [csv EXCEPT ![t] = <<>>]
        PROVE  Delivered'
    <2>1. T \subseteq Items(csv[t]) \cup {e} /\ T \in SUBSET Events
      <3>1. T \subseteq Items(csv[t]) \cup {e}
        BY <1>6, <1>9, TakenPartlyItems
      <3>2. Items(csv[t]) \subseteq Events
        BY <1>5, ItemsAt
      <3> QED
        BY <1>4, <3>1, <3>2
    <2>2. \A u \in Tenants : Items(csv'[u]) = IF u = t THEN {} ELSE Items(csv[u])
      BY <1>2, <1>5, <1>9, NoItems DEF StoreTypes
    <2>3. \A x \in Events : Buffered(x)' => Buffered(x)
      BY <1>1, <2>2 DEF Buffered
    <2>4. \A x \in Items(csv[t]) : ~Buffered(x)'
      <3>1. \A x \in Items(csv[t]) : tenant(x) = t /\ path(x) = "csv"
        BY <1>5, <1>m DEF Apart
      <3>2. \A x \in Items(csv[t]) : \A u \in Tenants : x \notin Items(pending'[u]) /\ x \notin Items(csv'[u])
        BY <1>1, <1>m, <2>2, <3>1 DEF Apart
      <3>3. \A x \in Items(csv[t]) : \A c \in Events : x \notin Items(posting'[c])
        BY <1>1, <1>m, <3>1 DEF Apart
      <3> QED
        BY <3>2, <3>3 DEF Buffered
    <2>5. \A x \in Items(csv[t]) : x \in Events /\ Buffered(x)
      BY <1>5, ItemsAt DEF Buffered
    <2>6. \A x \in T : accepted[x] = 0 /\ ~Buffered(x)' /\ x \notin Before(ToSend)'
      <3>1. ~Buffered(e)'
        BY <1>4, <2>3
      <3>2. \A x \in Items(csv[t]) : accepted[x] = 0 /\ x \notin Before(ToSend)'
        BY <1>4, <1>m, <2>5 DEF NotSent
      <3> QED
        BY <1>4, <2>1, <2>4, <3>1, <3>2
    <2>7. accepted' \in [Events -> Nat] /\ NotSent' /\ Honest'
      <3>1. \A x \in Events : chan'[x] = "ok" => x \in T \/ chan[x] = "ok"
        BY <1>1
      <3>2. \A v \in Workers : SaysOk(v)' => cur'[v] \in Events
                                             /\ (cur'[v] \in T \/ accepted[cur'[v]] = 1)
        BY <1>7
      <3> QED
        BY <1>4, <1>9, <2>1, <2>3, <2>6, <3>1, <3>2, Delivery
    <2>8. StoreTypes'
      <3>1. csv' \in [Tenants -> Seq(Events)]
        <4>1. <<>> \in Seq(Events) /\ csv \in [Tenants -> Seq(Events)]
          BY <1>2 DEF StoreTypes
        <4> QED
          BY <1>9, <4>1
      <3> QED
        BY <1>1, <1>2, <2>7, <3>1 DEF StoreTypes
    <2>9. Apart'
      <3>1. \A u \in Tenants : \A x \in Items(csv'[u]) : tenant(x) = u /\ path(x) = "csv"
        BY <1>m, <2>2 DEF Apart
      <3> QED
        BY <1>1, <1>m, <3>1 DEF Apart, tenant, path
    <2> QED
      BY <2>7, <2>8, <2>9 DEF Delivered
  <1> QED
    BY <1>1, <1>8, <1>9

LEMMA SubmitDelivered ==
    ASSUME IInv, FlowOnce, OneHolder, Delivered, NEW w \in Workers, SubmitStep(w),
           UNCHANGED flowVars
    PROVE  Delivered'
  BY SubmitWaits, DirectDelivered, McpDelivered, InvokeDelivered, BatchJoins, CsvDelivered DEF SubmitStep

\* What is not a worker's step leaves the workers' answers alone.
LEMMA OthersOk ==
    ASSUME IInv, Delivered, UNCHANGED <<wpc, cur, res, mix>>
    PROVE  \A w \in Workers : SaysOk(w)' => cur'[w] \in Events /\ accepted[cur'[w]] = 1
  <1> SUFFICES ASSUME NEW w \in Workers, SaysOk(w)' PROVE cur'[w] \in Events /\ accepted[cur'[w]] = 1
    OBVIOUS
  <1>1. SaysOk(w) /\ cur'[w] = cur[w]
    BY DEF SaysOk, path
  <1>2. wpc[w] \in BusyPCs
    BY <1>1 DEF SaysOk, AfterSend, BusyPCs
  <1> QED
    BY <1>1, <1>2 DEF IInv, Holds, Delivered, Honest

LEMMA SameBefore ==
    ASSUME UNCHANGED <<wpc, cur, next, out, fout, fpc, held>>
    PROVE  Before(ToSend)' = Before(ToSend)
  BY DEF Before, Upstream

LEMMA FlushDelivered ==
    ASSUME IInv, Delivered, UNCHANGED flowVars, NEW b \in Events, TimerFires(b) \/ flushTenant(b)
    PROVE  Delivered'
  <1>1. /\ UNCHANGED <<wpc, cur, res, mix, next, out, fout, fpc, held, csv, accepted, chan>>
        /\ timer' \in [Events -> {"none", "armed", "fired"}]
        /\ \/ UNCHANGED <<pending, posting>>
           \/ /\ pending[tenant(b)] # <<>>
              /\ posting' = [posting EXCEPT ![b] = pending[tenant(b)]]
              /\ pending' = [pending EXCEPT ![tenant(b)] = <<>>]
    BY DEF TimerFires, flushTenant, Delivered, StoreTypes
  <1>2. Before(ToSend)' = Before(ToSend)
    BY <1>1, SameBefore
  <1>3. \A w \in Workers : SaysOk(w)' => cur'[w] \in Events /\ accepted[cur'[w]] = 1
    BY <1>1, OthersOk
  <1>4. CASE UNCHANGED <<pending, posting>>
    BY <1>1, <1>2, <1>3, <1>4, Quiet
  <1>5. CASE /\ posting' = [posting EXCEPT ![b] = pending[tenant(b)]]
             /\ pending' = [pending EXCEPT ![tenant(b)] = <<>>]
    <2>0. PICK t : t = tenant(b)
      OBVIOUS
    <2>1. StoreTypes /\ Apart /\ t \in Tenants
      BY <2>0, EventFacts DEF Delivered
    <2>2. /\ pending \in [Tenants -> Seq(Events)] /\ posting \in [Events -> Seq(Events)]
          /\ <<>> \in Seq(Events)
      BY <2>1 DEF StoreTypes
    <2>3. StoreTypes'
      <3>1. pending' \in [Tenants -> Seq(Events)] /\ posting' \in [Events -> Seq(Events)]
        BY <1>5, <2>0, <2>1, <2>2
      <3> QED
        BY <1>1, <2>1, <3>1 DEF StoreTypes
    <2>4. /\ \A u \in Tenants : Items(pending'[u]) = IF u = t THEN {} ELSE Items(pending[u])
          /\ \A c \in Events : Items(posting'[c])
                                 = IF c = b THEN Items(pending[t]) ELSE Items(posting[c])
      BY <1>5, <2>0, <2>1, <2>2, NoItems
    <2>5. \A u \in Tenants : u # t => Items(pending[t]) \cap Items(pending[u]) = {}
      BY <2>1 DEF Apart
    <2>6. Apart'
      <3>1. \A u \in Tenants : \A x \in Items(pending'[u]) : tenant(x) = u /\ path(x) = "batch"
        BY <2>1, <2>4 DEF Apart
      <3>2. \A c \in Events : \A x \in Items(posting'[c]) : path(x) = "batch"
        BY <2>1, <2>4 DEF Apart
      <3>3. \A c \in Events, u \in Tenants : Items(posting'[c]) \cap Items(pending'[u]) = {}
        BY <2>1, <2>4, <2>5 DEF Apart
      <3>4. \A c, d \in Events : c # d => Items(posting'[c]) \cap Items(posting'[d]) = {}
        BY <2>1, <2>4 DEF Apart
      <3> QED
        BY <1>1, <2>1, <3>1, <3>2, <3>3, <3>4 DEF Apart, tenant, path
    <2>7. \A x \in Events : Buffered(x)' => Buffered(x)
      BY <1>1, <2>1, <2>4 DEF Buffered
    <2>8. UNCHANGED <<mix, accepted, chan>>
      BY <1>1
    <2> QED
      BY <1>2, <1>3, <2>3, <2>6, <2>7, <2>8, Moves
  <1> QED
    BY <1>1, <1>4, <1>5

\* The answer to a batch.
LEMMA SendDelivered ==
    ASSUME IInv, Delivered, UNCHANGED flowVars, NEW b \in Events, send(b)
    PROVE  Delivered'
  <1>1. /\ UNCHANGED <<wpc, cur, res, mix, next, out, fout, fpc, held, csv, pending, timer>>
        /\ posting' = [posting EXCEPT ![b] = <<>>]
    BY DEF send
  <1>2. PICK r \in Answers, told \in BOOLEAN : \E T \in TakenPartly(r, posting[b]) :
           /\ Accept(T)
           /\ chan' = [e \in Events |-> IF e \in Items(posting[b]) THEN ItemResult(r, told, T, e)
                                                                   ELSE chan[e]]
    BY DEF send
  <1>3. PICK T \in TakenPartly(r, posting[b]) :
           /\ Accept(T)
           /\ chan' = [e \in Events |-> IF e \in Items(posting[b]) THEN ItemResult(r, told, T, e)
                                                                   ELSE chan[e]]
    BY <1>2
  <1>4. StoreTypes /\ Apart /\ NotSent
    BY DEF Delivered
  <1>5. posting \in [Events -> Seq(Events)] /\ <<>> \in Seq(Events)
    BY <1>4 DEF StoreTypes
  <1>6. Items(posting[b]) \subseteq Events
    BY <1>5, ItemsAt
  <1>7. T \subseteq Items(posting[b]) /\ T \in SUBSET Events
    <2>1. T \subseteq Items(posting[b])
      BY TakenPartlyItems
    <2> QED
      BY <1>6, <2>1
  <1>8. \A e \in Events : chan'[e] = "ok" => e \in T \/ chan[e] = "ok"
    BY <1>3 DEF ItemResult
  <1>9. \A c \in Events : Items(posting'[c]) = IF c = b THEN {} ELSE Items(posting[c])
    BY <1>1, <1>5, NoItems
  <1>10. \A x \in Events : Buffered(x)' => Buffered(x)
    BY <1>1, <1>9 DEF Buffered
  <1>11. \A x \in Items(posting[b]) : Buffered(x) /\ ~Buffered(x)'
    <2>1. \A x \in Items(posting[b]) : Buffered(x) /\ path(x) = "batch"
      BY <1>4 DEF Buffered, Apart
    <2>2. \A x \in Items(posting[b]) : \A c \in Events : x \notin Items(posting'[c])
      BY <1>4, <1>9 DEF Apart
    <2>3. \A x \in Items(posting[b]) : \A u \in Tenants : x \notin Items(pending'[u]) /\ x \notin Items(csv'[u])
      BY <1>1, <1>4, <2>1 DEF Apart
    <2> QED
      BY <2>1, <2>2, <2>3 DEF Buffered
  <1>12. Before(ToSend)' = Before(ToSend)
    BY <1>1, SameBefore
  <1>13. \A x \in T : accepted[x] = 0 /\ ~Buffered(x)' /\ x \notin Before(ToSend)'
    BY <1>4, <1>7, <1>11, <1>12 DEF NotSent
  <1>14. \A w \in Workers : SaysOk(w)' => cur'[w] \in Events /\ accepted[cur'[w]] = 1
    BY <1>1, OthersOk
  <1>15. accepted' \in [Events -> Nat] /\ NotSent' /\ Honest'
    BY <1>3, <1>7, <1>8, <1>10, <1>12, <1>13, <1>14, Delivery
  <1>16. StoreTypes'
    <2>1. posting' \in [Events -> Seq(Events)]
      BY <1>1, <1>5
    <2> QED
      BY <1>1, <1>4, <1>15, <2>1 DEF StoreTypes
  <1>17. Apart'
    <2>1. /\ \A c \in Events : \A x \in Items(posting'[c]) : path(x) = "batch"
          /\ \A c \in Events, u \in Tenants : Items(posting'[c]) \cap Items(pending[u]) = {}
          /\ \A c, d \in Events : c # d => Items(posting'[c]) \cap Items(posting'[d]) = {}
      BY <1>4, <1>9 DEF Apart
    <2> QED
      BY <1>1, <1>4, <2>1 DEF Apart, tenant, path
  <1> QED
    BY <1>15, <1>16, <1>17 DEF Delivered

\* Close sends what the Submits have left behind.
LEMMA CloseCsvDelivered ==
    ASSUME IInv, Delivered, UNCHANGED <<next, out, fout, fpc, held>>, CloseCsv
    PROVE  Delivered'
  <1>1. /\ UNCHANGED <<wpc, cur, res, mix, pending, posting, timer, chan>>
        /\ csv' = [t \in Tenants |-> <<>>]
        /\ \E T \in SUBSET UNION {Items(csv[t]) : t \in Tenants} : Accept(T)
    BY DEF CloseCsv
  <1>2. PICK T \in SUBSET UNION {Items(csv[t]) : t \in Tenants} : Accept(T)
    BY <1>1
  <1>4. StoreTypes /\ Apart /\ NotSent
    BY DEF Delivered
  <1>5. Accept(T) /\ \A x \in T : \E t \in Tenants : x \in Items(csv[t])
    BY <1>2
  <1>6. \A t \in Tenants : Items(csv[t]) \subseteq Events /\ Items(csv'[t]) = {}
    BY <1>1, <1>4, ItemsAt, NoItems DEF StoreTypes
  <1>7. T \in SUBSET Events
    BY <1>5, <1>6
  <1>8. \A x \in T : Buffered(x) /\ path(x) = "csv"
    BY <1>4, <1>5 DEF Buffered, Apart
  <1>9. \A x \in Events : Buffered(x)' => Buffered(x)
    BY <1>1, <1>6 DEF Buffered
  <1>10. \A x \in T : ~Buffered(x)'
    <2>1. \A x \in T : \A t \in Tenants : x \notin Items(pending'[t]) /\ x \notin Items(csv'[t])
      BY <1>1, <1>4, <1>6, <1>8 DEF Apart
    <2>2. \A x \in T : \A c \in Events : x \notin Items(posting'[c])
      BY <1>1, <1>4, <1>8 DEF Apart
    <2> QED
      BY <2>1, <2>2 DEF Buffered
  <1>11. Before(ToSend)' = Before(ToSend)
    BY <1>1, SameBefore
  <1>12. \A x \in T : accepted[x] = 0 /\ ~Buffered(x)' /\ x \notin Before(ToSend)'
    BY <1>4, <1>7, <1>8, <1>10, <1>11 DEF NotSent
  <1>13. \A w \in Workers : SaysOk(w)' => cur'[w] \in Events /\ accepted[cur'[w]] = 1
    BY <1>1, OthersOk
  <1>14. accepted' \in [Events -> Nat] /\ NotSent' /\ Honest'
    <2>1. \A e \in Events : chan'[e] = "ok" => e \in T \/ chan[e] = "ok"
      BY <1>1
    <2> QED
      BY <1>5, <1>7, <1>9, <1>11, <1>12, <1>13, <2>1, Delivery
  <1>15. StoreTypes'
    <2>1. csv' \in [Tenants -> Seq(Events)]
      BY <1>1
    <2> QED
      BY <1>1, <1>4, <1>14, <2>1 DEF StoreTypes
  <1>16. Apart'
    BY <1>1, <1>4, <1>6 DEF Apart, tenant, path
  <1> QED
    BY <1>14, <1>15, <1>16 DEF Delivered

LEMMA CloseBatchDelivered ==
    ASSUME IInv, Delivered, UNCHANGED <<next, out, fout, fpc, held>>, CloseBatch
    PROVE  Delivered'
  <1> DEFINE Of(b) == \E t \in {u \in Tenants : pending[u] # <<>>} : Head(pending[t]) = b
  <1>1. /\ UNCHANGED <<wpc, cur, res, mix, csv, chan, accepted>>
        /\ posting' = [b \in Events |-> IF Of(b) THEN pending[tenant(b)] ELSE posting[b]]
        /\ timer' = [b \in Events |-> IF Of(b) /\ timer[b] = "armed" THEN "none" ELSE timer[b]]
        /\ pending' = [t \in Tenants |-> <<>>]
    BY DEF CloseBatch
  <1>2. StoreTypes /\ Apart
    BY DEF Delivered
  <1>3. /\ pending \in [Tenants -> Seq(Events)] /\ posting \in [Events -> Seq(Events)]
        /\ timer \in [Events -> {"none", "armed", "fired"}]
    BY <1>2 DEF StoreTypes
  <1>4. \A b \in Events : Of(b) => tenant(b) \in Tenants /\ Head(pending[tenant(b)]) = b
    <2> SUFFICES ASSUME NEW b \in Events, NEW t \in Tenants, pending[t] # <<>>, Head(pending[t]) = b
                 PROVE  tenant(b) \in Tenants /\ Head(pending[tenant(b)]) = b
      OBVIOUS
    <2>1. b \in Items(pending[t])
      BY <1>3, ItemsTail
    <2> QED
      BY <1>2, <2>1 DEF Apart
  <1>5. \A b, c \in Events : Of(b) /\ Of(c) /\ b # c => tenant(b) # tenant(c)
    BY <1>4
  <1> HIDE DEF Of
  <1>6. /\ \A t \in Tenants : Items(pending'[t]) = {}
        /\ \A b \in Events : Items(posting'[b]) = IF Of(b) THEN Items(pending[tenant(b)])
                                                           ELSE Items(posting[b])
    BY <1>1, NoItems
  <1>7. StoreTypes'
    <2>1. posting' \in [Events -> Seq(Events)]
      BY <1>1, <1>3, <1>4
    <2>2. timer' \in [Events -> {"none", "armed", "fired"}]
      BY <1>1, <1>3
    <2>3. pending' \in [Tenants -> Seq(Events)]
      BY <1>1
    <2> QED
      BY <1>1, <1>2, <2>1, <2>2, <2>3 DEF StoreTypes
  <1>8. Apart'
    <2>1. \A c \in Events : \A x \in Items(posting'[c]) : path(x) = "batch"
      BY <1>2, <1>4, <1>6 DEF Apart
    <2>2. \A t, u \in Tenants : t # u => Items(pending[t]) \cap Items(pending[u]) = {}
      BY <1>2 DEF Apart
    <2>3. \A c, d \in Events : c # d => Items(posting'[c]) \cap Items(posting'[d]) = {}
      <3> SUFFICES ASSUME NEW c \in Events, NEW d \in Events, c # d
                   PROVE  Items(posting'[c]) \cap Items(posting'[d]) = {}
        OBVIOUS
      <3>1. CASE Of(c) /\ Of(d)
        BY <1>4, <1>5, <1>6, <2>2, <3>1
      <3>2. CASE Of(c) /\ ~Of(d)
        BY <1>2, <1>4, <1>6, <3>2 DEF Apart
      <3>3. CASE ~Of(c) /\ Of(d)
        BY <1>2, <1>4, <1>6, <3>3 DEF Apart
      <3>4. CASE ~Of(c) /\ ~Of(d)
        BY <1>2, <1>6, <3>4 DEF Apart
      <3> QED
        BY <3>1, <3>2, <3>3, <3>4
    <2> QED
      BY <1>1, <1>2, <1>6, <2>1, <2>3 DEF Apart, tenant, path
  <1>9. \A x \in Events : Buffered(x)' => Buffered(x)
    BY <1>1, <1>4, <1>6 DEF Buffered
  <1>10. Before(ToSend)' = Before(ToSend)
    BY <1>1, SameBefore
  <1>11. \A w \in Workers : SaysOk(w)' => cur'[w] \in Events /\ accepted[cur'[w]] = 1
    BY <1>1, OthersOk
  <1>12. UNCHANGED <<mix, accepted, chan>>
    BY <1>1
  <1> QED
    BY <1>7, <1>8, <1>9, <1>10, <1>11, <1>12, Moves

\* Every step of a run moves events forward only.
LEMMA HolderStep ==
    ASSUME IInv, FlowOnce, OneHolder, [Next]_vars
    PROVE  /\ FlowOnce' /\ OneHolder'
           /\ \A P \in Early : Before(P)' \subseteq Before(P)
  <1> DEFINE Goal == FlowOnce' /\ OneHolder' /\ \A P \in Early : Before(P)' \subseteq Before(P)
  <1>t. wpc \in [Workers -> PCs] /\ FlowTypes /\ Holds
    BY DEF IInv, FlowTypes
  <1>a. ASSUME UNCHANGED <<next, out, fout, fpc, held, wpc, cur>> PROVE Goal
    <2>1. FlowOnce' /\ Upstream' = Upstream
      BY <1>a, SameFlow
    <2> QED
      BY <1>a, <2>1, SameHolders
  <1>1. CASE GeneratorStep
    <2>1. UNCHANGED <<cur, wpc>>
      BY <1>1 DEF GeneratorStep, GenStop, GenProduce, GenPut, GenPutCancelled
    <2> QED
      BY <1>1, <2>1, GeneratorFlow, SameHolders
  <1>2. CASE FilterStep
    <2>1. UNCHANGED <<cur, wpc>>
      BY <1>2 DEF FilterStep, Filter, FilterPut, FilterClose
    <2> QED
      BY <1>2, <2>1, FilterFlow, SameHolders
  <1>3. ASSUME NEW w \in Workers, WorkerStep(w) PROVE Goal
    <2>1. CASE WorkerReceive(w)
      BY <2>1, ReceiveHolders
    <2>2. ASSUME UNCHANGED <<next, out, fout, fpc, held>>, NEW pc \in PCs \ BusyPCs,
                 wpc' = [wpc EXCEPT ![w] = pc],
                 cur' = [cur EXCEPT ![w] = NoEvent] \/ (UNCHANGED cur /\ wpc[w] \notin BusyPCs)
          PROVE  Goal
      <3>1. FlowOnce' /\ Upstream' = Upstream
        BY <2>2, SameFlow
      <3> QED
        BY <2>2, <3>1, LeaveHolders
    <2>n. "recv" \in PCs \ BusyPCs /\ "drain" \in PCs \ BusyPCs /\ "done" \in PCs \ BusyPCs
      BY DEF PCs, BusyPCs
    <2>3. CASE WorkerEnd(w)
      <3>1. /\ UNCHANGED <<next, out, fout, fpc, held>> /\ wpc' = [wpc EXCEPT ![w] = "done"]
            /\ UNCHANGED cur /\ wpc[w] \notin BusyPCs
        BY <2>3, <2>n DEF WorkerEnd, Goto
      <3> QED
        BY <2>2, <2>n, <3>1
    <2>4. CASE WorkerCancelled(w)
      <3>1. /\ UNCHANGED <<next, out, fout, fpc, held>> /\ wpc' = [wpc EXCEPT ![w] = "drain"]
            /\ UNCHANGED cur /\ wpc[w] \notin BusyPCs
        BY <2>4, <2>n DEF WorkerCancelled, Goto
      <3> QED
        BY <2>2, <2>n, <3>1
    <2>5. CASE drainOnExit(w) /\ fout = <<>>
      <3>1. /\ UNCHANGED <<next, out, fout, fpc, held>> /\ wpc' = [wpc EXCEPT ![w] = "done"]
            /\ UNCHANGED cur /\ wpc[w] \notin BusyPCs
        BY <2>5, <2>n DEF drainOnExit, Goto
      <3> QED
        BY <2>2, <2>n, <3>1
    <2>6. CASE drainOnExit(w) /\ fout # <<>>
      <3>1. fout # <<>> /\ fout' = Tail(fout) /\ UNCHANGED <<next, out, fpc, held, cur, wpc>>
        BY <2>6 DEF drainOnExit
      <3>2. FlowOnce' /\ Upstream' \subseteq Upstream
        BY <3>1, TakenFlow
      <3> QED
        BY <3>1, <3>2, SameHolders
    <2>7. CASE DispatchRefused(w) \/ Dispatched(w)
      <3>1. /\ UNCHANGED <<next, out, fout, fpc, held>> /\ wpc' = [wpc EXCEPT ![w] = "recv"]
            /\ cur' = [cur EXCEPT ![w] = NoEvent]
        BY <2>7 DEF DispatchRefused, Dispatched, Goto
      <3> QED
        BY <2>2, <2>n, <3>1
    <2>8. CASE DispatchAllowed(w)
      <3>1. /\ UNCHANGED <<next, out, fout, fpc, held, cur>> /\ wpc' = [wpc EXCEPT ![w] = "submit"]
            /\ wpc[w] = "dispatch"
        BY <2>8 DEF DispatchAllowed, Goto
      <3>2. "submit" \in BusyPCs /\ wpc[w] \in BusyPCs /\ \A P \in Early : wpc[w] \in P
        BY <3>1 DEF BusyPCs, Early, ToSend, ToOpen, ToBump
      <3>3. FlowOnce' /\ Upstream' = Upstream /\ cur[w] \in Events
        BY <1>t, <3>1, <3>2, SameFlow DEF Holds
      <3>4. OneHolder'
        BY <1>t, <3>1, <3>2, <3>3, MoveHolders
      <3>5. \A P \in Early : ("submit" \in P => wpc[w] \in P) => Before(P)' \subseteq Before(P)
        BY <1>t, <3>1, <3>2, <3>3, MoveHolders
      <3> QED
        BY <3>2, <3>3, <3>4, <3>5
    <2>9. CASE SubmitStep(w) /\ UNCHANGED flowVars
      BY <2>9, SubmitHolders
    <2> QED
      BY <1>3, <2>1, <2>3, <2>4, <2>5, <2>6, <2>7, <2>8, <2>9 DEF WorkerStep
  <1>4. ASSUME NEW b \in Events, BatchGoroutine(b) PROVE Goal
    <2>1. UNCHANGED <<next, out, fout, fpc, held, wpc, cur>>
      BY <1>4 DEF BatchGoroutine, BatchStep, TimerFires, flushTenant, send
    <2> QED
      BY <1>a, <2>1
  <1>5. ASSUME NEW x \in Events, SweepSession(x), UNCHANGED flowVars PROVE Goal
    <2>1. UNCHANGED <<next, out, fout, fpc, held, wpc, cur>>
      BY <1>5 DEF SweepSession
    <2> QED
      BY <1>a, <2>1
  <1>6. CASE RunnerStep \/ Cancel
    <2>1. UNCHANGED <<next, out, fout, fpc, held, wpc, cur>>
      BY <1>6 DEF RunnerStep, BuildResult, PoolCloseCsv, PoolCloseBatch, CloseCsv, CloseBatch, Cancel
    <2> QED
      BY <1>a, <2>1
  <1>7. CASE UNCHANGED vars
    BY <1>7, <1>a DEF vars
  <1> QED
    BY <1>1, <1>2, <1>3, <1>4, <1>5, <1>6, <1>7 DEF Next, Progress

\* A worker that gets no answer in this step.
LEMMA WorkerOk ==
    ASSUME IInv, Delivered, UNCHANGED mix, NEW w \in Workers, wpc'[w] \notin AfterSend,
           \A v \in Workers : v # w => wpc'[v] = wpc[v] /\ cur'[v] = cur[v] /\ res'[v] = res[v]
    PROVE  \A v \in Workers : SaysOk(v)' => cur'[v] \in Events /\ accepted[cur'[v]] = 1
  <1> SUFFICES ASSUME NEW v \in Workers, SaysOk(v)' PROVE cur'[v] \in Events /\ accepted[cur'[v]] = 1
    OBVIOUS
  <1>1. v # w
    BY DEF SaysOk
  <1>2. SaysOk(v) /\ cur'[v] = cur[v]
    BY <1>1 DEF SaysOk, path
  <1>3. wpc[v] \in BusyPCs
    BY <1>2 DEF SaysOk, AfterSend, BusyPCs
  <1> QED
    BY <1>2, <1>3 DEF IInv, Holds, Delivered, Honest

LEMMA DeliveredStep ==
    ASSUME IInv, FlowOnce, OneHolder, Delivered, [Next]_vars
    PROVE  Delivered'
  <1>a. Before(ToSend)' \subseteq Before(ToSend)
    BY HolderStep DEF Early
  <1>b. ASSUME UNCHANGED <<wpc, cur, res, mix, pending, posting, csv, timer, accepted, chan>>
        PROVE  Delivered'
    <2>1. timer' \in [Events -> {"none", "armed", "fired"}]
      BY <1>b DEF Delivered, StoreTypes
    <2> QED
      BY <1>a, <1>b, <2>1, OthersOk, Quiet
  <1>1. CASE GeneratorStep \/ FilterStep
    BY <1>1, <1>b DEF GeneratorStep, GenStop, GenProduce, GenPut, GenPutCancelled,
                      FilterStep, Filter, FilterPut, FilterClose
  <1>2. ASSUME NEW w \in Workers, WorkerStep(w) PROVE Delivered'
    <2>t. wpc \in [Workers -> PCs] /\ cur \in [Workers -> Events \cup {NoEvent}]
          /\ res \in [Workers -> Results \cup {NoResult}]
      BY DEF IInv, FlowTypes
    <2>1. CASE SubmitStep(w) /\ UNCHANGED flowVars
      BY <2>1, SubmitDelivered
    <2>2. CASE \/ WorkerReceive(w) \/ WorkerEnd(w) \/ WorkerCancelled(w) \/ drainOnExit(w)
               \/ DispatchRefused(w) \/ DispatchAllowed(w) \/ Dispatched(w)
      <3>1. UNCHANGED <<mix, pending, posting, csv, timer, accepted, chan>>
        BY <2>2 DEF WorkerReceive, WorkerEnd, WorkerCancelled, drainOnExit, DispatchRefused,
                    DispatchAllowed, Dispatched
      <3>2. \E pc : wpc' = [wpc EXCEPT ![w] = pc] /\ pc \notin AfterSend
        <4>1. CASE drainOnExit(w) /\ fout # <<>>
          <5>1. wpc' = wpc /\ wpc[w] = "drain"
            BY <4>1 DEF drainOnExit
          <5>2. wpc = [wpc EXCEPT ![w] = wpc[w]]
            BY <2>t
          <5> QED
            BY <5>1, <5>2 DEF AfterSend
        <4>2. CASE drainOnExit(w) /\ fout = <<>>
          BY <4>2 DEF drainOnExit, Goto, AfterSend
        <4>3. CASE WorkerReceive(w) \/ WorkerEnd(w) \/ WorkerCancelled(w)
          BY <4>3 DEF WorkerReceive, WorkerEnd, WorkerCancelled, Goto, AfterSend
        <4>4. CASE DispatchRefused(w) \/ DispatchAllowed(w) \/ Dispatched(w)
          BY <4>4 DEF DispatchRefused, DispatchAllowed, Dispatched, Goto, AfterSend
        <4> QED
          BY <2>2, <4>1, <4>2, <4>3, <4>4
      <3>3. \E c : cur' = [cur EXCEPT ![w] = c]
        <4>1. cur' = cur \/ \E c : cur' = [cur EXCEPT ![w] = c]
          BY <2>2 DEF WorkerReceive, WorkerEnd, WorkerCancelled, drainOnExit, DispatchRefused,
                      DispatchAllowed, Dispatched
        <4>2. cur = [cur EXCEPT ![w] = cur[w]]
          BY <2>t
        <4> QED
          BY <4>1, <4>2
      <3>4. \E r : res' = [res EXCEPT ![w] = r]
        <4>1. res' = res \/ \E r : res' = [res EXCEPT ![w] = r]
          BY <2>2 DEF WorkerReceive, WorkerEnd, WorkerCancelled, drainOnExit, DispatchRefused,
                      DispatchAllowed, Dispatched, Goto
        <4>2. res = [res EXCEPT ![w] = res[w]]
          BY <2>t
        <4> QED
          BY <4>1, <4>2
      <3>5. wpc'[w] \notin AfterSend
        BY <2>t, <3>2
      <3>6. \A v \in Workers : v # w => wpc'[v] = wpc[v] /\ cur'[v] = cur[v] /\ res'[v] = res[v]
        BY <2>t, <3>2, <3>3, <3>4
      <3>7. \A v \in Workers : SaysOk(v)' => cur'[v] \in Events /\ accepted[cur'[v]] = 1
        BY <3>1, <3>5, <3>6, WorkerOk
      <3>8. timer' \in [Events -> {"none", "armed", "fired"}]
        BY <3>1 DEF Delivered, StoreTypes
      <3> QED
        BY <1>a, <3>1, <3>7, <3>8, Quiet
    <2> QED
      BY <1>2, <2>1, <2>2 DEF WorkerStep
  <1>3. ASSUME NEW b \in Events, BatchGoroutine(b) PROVE Delivered'
    BY <1>3, FlushDelivered, SendDelivered DEF BatchGoroutine, BatchStep
  <1>4. ASSUME NEW x \in Events, SweepSession(x) PROVE Delivered'
    BY <1>4, <1>b DEF SweepSession
  <1>5. CASE BuildResult \/ Cancel
    BY <1>5, <1>b DEF BuildResult, Cancel
  <1>6. CASE PoolCloseCsv
    BY <1>6, CloseCsvDelivered DEF PoolCloseCsv
  <1>7. CASE PoolCloseBatch
    BY <1>7, CloseBatchDelivered DEF PoolCloseBatch
  <1>8. CASE UNCHANGED vars
    BY <1>8, <1>b DEF vars
  <1> QED
    BY <1>1, <1>2, <1>3, <1>4, <1>5, <1>6, <1>7, <1>8 DEF Next, Progress, RunnerStep

-----------------------------------------------------------------------------
(* Sessions: every one belongs to the key it was opened for, and each event *)
(* opens and counts at most one.                                            *)

Session == [id : Nat, inv : Nat]

WireTypes ==
    /\ opener \in Seq(Keys)
    /\ sessions \in [Keys -> Session]
    /\ sess \in [Workers -> Nat]

Known ==
    /\ \A k \in Keys : sessions[k].id # 0 =>
         sessions[k].id \in 1..Len(opener) /\ opener[sessions[k].id] = k
    /\ \A w \in Workers : sess[w] \in 0..Len(opener)
    /\ live \subseteq 1..Len(opener)

OwnSession(w) == sess[w] # 0 /\ opener[sess[w]] = Key(cur[w])

Isolated == \A w \in Workers : wpc[w] = "invoke" => OwnSession(w)

Counts ==
    /\ Len(opener) + Cardinality(Before(ToOpen)) <= NEvents
    /\ \A k \in Keys : sessions[k].inv + Cardinality(Before(ToBump)) <= NEvents

WireInv == WireTypes /\ Known /\ Isolated /\ Counts

LEMMA CardBefore ==
    ASSUME NEW P
    PROVE  /\ IsFiniteSet(Before(P)) /\ Cardinality(Before(P)) \in Nat
           /\ Cardinality(Before(P)) <= NEvents
  <1>1. IsFiniteSet(Events) /\ Cardinality(Events) = NEvents
    <2>1. NEvents >= 1 /\ 1 \in Int /\ NEvents \in Int
      BY NEventsType
    <2> QED
      BY <2>1, FS_Interval DEF Events
  <1>2. Before(P) \subseteq Events
    BY DEF Before
  <1> QED
    BY <1>1, <1>2, FS_Subset, FS_CardinalityType

LEMMA CardShrinks ==
    ASSUME NEW P, Before(P)' \subseteq Before(P)
    PROVE  /\ Cardinality(Before(P)') \in Nat /\ Cardinality(Before(P)') <= Cardinality(Before(P))
           /\ \A e : e \in Before(P) /\ e \notin Before(P)'
                => Cardinality(Before(P)') + 1 <= Cardinality(Before(P))
  <1>1. IsFiniteSet(Before(P)) /\ Cardinality(Before(P)) \in Nat
    BY CardBefore
  <1>2. IsFiniteSet(Before(P)') /\ Cardinality(Before(P)') <= Cardinality(Before(P))
        /\ Cardinality(Before(P)') \in Nat
    BY <1>1, FS_Subset, FS_CardinalityType
  <1>3. ASSUME NEW e, e \in Before(P), e \notin Before(P)'
        PROVE  Cardinality(Before(P)') + 1 <= Cardinality(Before(P))
    <2>1. Before(P)' \cup {e} \subseteq Before(P)
      BY <1>3
    <2>2. Cardinality(Before(P)' \cup {e}) = Cardinality(Before(P)') + 1
      BY <1>2, <1>3, FS_AddElement
    <2>3. Cardinality(Before(P)' \cup {e}) <= Cardinality(Before(P))
      BY <1>1, <2>1, FS_Subset
    <2> QED
      BY <2>2, <2>3
  <1> QED
    BY <1>2, <1>3

LEMMA WireInit == Init => WireInv
  <1> SUFFICES ASSUME Init PROVE WireInv
    OBVIOUS
  <1>1. /\ opener = <<>> /\ live = {} /\ sessions = [k \in Keys |-> NoSession]
        /\ sess = [w \in Workers |-> 0] /\ \A w \in Workers : wpc[w] # "invoke"
    BY DEF Init, DriversInit
  <1>2. WireTypes
    <2>1. NoSession \in Session
      BY DEF NoSession, Session
    <2>2. opener \in Seq(Keys)
      BY <1>1
    <2>3. sess \in [Workers -> Nat]
      BY <1>1
    <2> QED
      BY <1>1, <2>1, <2>2, <2>3 DEF WireTypes
  <1>3. Len(opener) = 0 /\ \A k \in Keys : sessions[k].id = 0 /\ sessions[k].inv = 0
    BY <1>1 DEF NoSession
  <1>4. Known /\ Isolated
    BY <1>1, <1>3 DEF Known, Isolated
  <1>5. Counts
    <2>1. /\ Cardinality(Before(ToOpen)) \in Nat /\ Cardinality(Before(ToOpen)) <= NEvents
          /\ Cardinality(Before(ToBump)) \in Nat /\ Cardinality(Before(ToBump)) <= NEvents
      BY CardBefore
    <2> QED
      BY <1>3, <2>1 DEF Counts
  <1> QED
    BY <1>2, <1>4, <1>5 DEF WireInv

\* A step that opens no session.
LEMMA WireKeeps ==
    ASSUME WireInv, UNCHANGED <<mix, opener>>, sessions' \in [Keys -> Session],
           sess' \in [Workers -> Nat], live' \subseteq live,
           Before(ToOpen)' \subseteq Before(ToOpen),
           \A k \in Keys : sessions'[k].id = sessions[k].id \/ sessions'[k].id = 0,
           \A w \in Workers : sess'[w] \in 0..Len(opener),
           \A w \in Workers : wpc'[w] = "invoke" =>
              \/ wpc[w] = "invoke" /\ cur'[w] = cur[w] /\ sess'[w] = sess[w]
              \/ sess'[w] # 0 /\ opener[sess'[w]] = Key(cur'[w]),
           \A k \in Keys : sessions'[k].inv + Cardinality(Before(ToBump)') <= NEvents
    PROVE  WireInv'
  <1>1. WireTypes'
    BY DEF WireInv, WireTypes
  <1>2. Known'
    BY DEF WireInv, Known
  <1>3. \A w \in Workers : Key(cur[w])' = Key(cur'[w])
    BY DEF Key, sessionKey, tenant
  <1>4. Isolated'
    <2> SUFFICES ASSUME NEW w \in Workers, wpc'[w] = "invoke"
                 PROVE  sess'[w] # 0 /\ opener[sess'[w]] = Key(cur[w])'
      BY DEF Isolated, OwnSession
    <2> QED
      BY <1>3 DEF WireInv, Isolated, OwnSession
  <1>5. Counts'
    <2>1. /\ Cardinality(Before(ToOpen)') \in Nat /\ Cardinality(Before(ToOpen)) \in Nat
          /\ Cardinality(Before(ToOpen)') <= Cardinality(Before(ToOpen))
      BY CardShrinks, CardBefore
    <2>2. Len(opener) \in Nat /\ Len(opener) + Cardinality(Before(ToOpen)) <= NEvents
      BY DEF WireInv, WireTypes, Counts
    <2>3. Len(opener) + Cardinality(Before(ToOpen)') <= NEvents
      BY <2>1, <2>2, NEventsType
    <2> QED
      BY <2>3 DEF Counts
  <1> QED
    BY <1>1, <1>2, <1>4, <1>5 DEF WireInv

\* A step that does not count an invocation either.
LEMMA InvKeeps ==
    ASSUME WireInv, Before(ToBump)' \subseteq Before(ToBump), sessions' \in [Keys -> Session],
           \A k \in Keys : sessions'[k].inv <= sessions[k].inv
    PROVE  \A k \in Keys : sessions'[k].inv + Cardinality(Before(ToBump)') <= NEvents
  <1> SUFFICES ASSUME NEW k \in Keys
               PROVE  sessions'[k].inv + Cardinality(Before(ToBump)') <= NEvents
    OBVIOUS
  <1>1. /\ Cardinality(Before(ToBump)') \in Nat /\ Cardinality(Before(ToBump)) \in Nat
        /\ Cardinality(Before(ToBump)') <= Cardinality(Before(ToBump))
    BY CardShrinks, CardBefore
  <1>2. /\ sessions[k].inv \in Nat /\ sessions'[k].inv \in Nat
        /\ sessions'[k].inv <= sessions[k].inv
        /\ sessions[k].inv + Cardinality(Before(ToBump)) <= NEvents
    BY DEF WireInv, WireTypes, Session, Counts
  <1> QED
    BY <1>1, <1>2, NEventsType

\* The sessions stay as they are.
LEMMA WireSame ==
    ASSUME WireInv, UNCHANGED <<mix, opener, sessions, sess>>, live' \subseteq live,
           Before(ToOpen)' \subseteq Before(ToOpen), Before(ToBump)' \subseteq Before(ToBump),
           \A w \in Workers : wpc'[w] = "invoke" => wpc[w] = "invoke" /\ cur'[w] = cur[w]
    PROVE  WireInv'
  <1>1. WireTypes /\ Known
    BY DEF WireInv
  <1>2. \A k \in Keys : sessions'[k].inv <= sessions[k].inv
    BY <1>1 DEF WireTypes, Session
  <1>3. sessions' \in [Keys -> Session] /\ sess' \in [Workers -> Nat]
    BY <1>1 DEF WireTypes
  <1>4. \A k \in Keys : sessions'[k].inv + Cardinality(Before(ToBump)') <= NEvents
    BY <1>2, <1>3, InvKeeps
  <1>5. /\ \A k \in Keys : sessions'[k].id = sessions[k].id \/ sessions'[k].id = 0
        /\ \A w \in Workers : sess'[w] \in 0..Len(opener)
        /\ \A w \in Workers : wpc'[w] = "invoke" =>
              \/ wpc[w] = "invoke" /\ cur'[w] = cur[w] /\ sess'[w] = sess[w]
              \/ sess'[w] # 0 /\ opener[sess'[w]] = Key(cur'[w])
    BY <1>1 DEF Known
  <1> QED
    BY <1>3, <1>4, <1>5, WireKeeps

\* The key of a worker's event, and the session cached for it.
LEMMA KeyFacts ==
    ASSUME StoreTypes, WireInv, NEW e \in Events
    PROVE  /\ Key(e) \in Keys
           /\ sessions[Key(e)] \in Session /\ sessions[Key(e)].id \in 0..Len(opener)
           /\ sessions[Key(e)].id # 0 => opener[sessions[Key(e)].id] = Key(e)
  <1>1. Key(e) \in Keys
    BY EventFacts DEF Key, sessionKey, Keys
  <1>2. sessions[Key(e)] \in Session /\ Len(opener) \in Nat
    BY <1>1 DEF WireInv, WireTypes
  <1>3. sessions[Key(e)].id \in Nat
    BY <1>2 DEF Session
  <1>4. sessions[Key(e)].id # 0 =>
           sessions[Key(e)].id \in 1..Len(opener) /\ opener[sessions[Key(e)].id] = Key(e)
    BY <1>1 DEF WireInv, Known
  <1> QED
    BY <1>1, <1>2, <1>3, <1>4

LEMMA ResolveWire ==
    ASSUME IInv, FlowOnce, OneHolder, StoreTypes, WireInv, NEW w \in Workers, UNCHANGED flowVars,
           resolveSession(w)
    PROVE  WireInv'
  <1>0. SubmitStep(w)
    BY DEF SubmitStep
  <1>1. /\ cur' = cur /\ cur[w] \in Events /\ wpc \in [Workers -> PCs]
        /\ \A P \in Early : Before(P)' \subseteq Before(P)
        /\ \A v \in Workers : v # w => wpc'[v] = wpc[v]
    BY <1>0, SubmitHolders
  <1>2. PICK k : k = Key(cur[w])
    OBVIOUS
  <1>3. /\ UNCHANGED <<mix, opener, sessions, live>>
        /\ sess' = [sess EXCEPT ![w] = sessions[k].id]
        /\ wpc' = [wpc EXCEPT ![w] = IF sessions[k].id = 0 THEN "open" ELSE "invoke"]
    BY <1>2 DEF resolveSession, Goto
  <1>4. /\ k \in Keys /\ sessions[k].id \in 0..Len(opener) /\ sessions[k].id \in Nat
        /\ sessions[k].id # 0 => opener[sessions[k].id] = k
    BY <1>1, <1>2, KeyFacts DEF Session
  <1>5. WireTypes /\ Known
    BY DEF WireInv
  <1>6. sess' \in [Workers -> Nat] /\ \A v \in Workers : sess'[v] = IF v = w THEN sessions[k].id ELSE sess[v]
    BY <1>3, <1>4, <1>5 DEF WireTypes
  <1>7. \A v \in Workers : sess'[v] \in 0..Len(opener)
    BY <1>4, <1>5, <1>6 DEF Known
  <1>8. \A v \in Workers : wpc'[v] = "invoke" =>
              \/ wpc[v] = "invoke" /\ cur'[v] = cur[v] /\ sess'[v] = sess[v]
              \/ sess'[v] # 0 /\ opener[sess'[v]] = Key(cur'[v])
    <2> SUFFICES ASSUME NEW v \in Workers, wpc'[v] = "invoke"
                 PROVE  \/ wpc[v] = "invoke" /\ cur'[v] = cur[v] /\ sess'[v] = sess[v]
                        \/ sess'[v] # 0 /\ opener[sess'[v]] = Key(cur'[v])
      OBVIOUS
    <2>1. CASE v = w
      <3>1. sessions[k].id # 0
        BY <1>1, <1>3, <2>1
      <3> QED
        BY <1>1, <1>2, <1>4, <1>6, <2>1, <3>1
    <2>2. CASE v # w
      BY <1>1, <1>6, <2>2
    <2> QED
      BY <2>1, <2>2
  <1>9. sessions' \in [Keys -> Session] /\ \A x \in Keys : sessions'[x].inv <= sessions[x].inv
    BY <1>3, <1>5 DEF WireTypes, Session
  <1>10. Before(ToOpen)' \subseteq Before(ToOpen) /\ Before(ToBump)' \subseteq Before(ToBump)
    BY <1>1 DEF Early
  <1>11. \A x \in Keys : sessions'[x].inv + Cardinality(Before(ToBump)') <= NEvents
    BY <1>9, <1>10, InvKeeps
  <1>12. /\ UNCHANGED <<mix, opener>> /\ live' \subseteq live
         /\ \A x \in Keys : sessions'[x].id = sessions[x].id \/ sessions'[x].id = 0
    BY <1>3
  <1> QED
    BY <1>6, <1>7, <1>8, <1>9, <1>10, <1>11, <1>12, WireKeeps

LEMMA OpenWire ==
    ASSUME IInv, FlowOnce, OneHolder, StoreTypes, WireInv, NEW w \in Workers, UNCHANGED flowVars,
           OpenSession(w)
    PROVE  WireInv'
  <1>0. SubmitStep(w) /\ wpc[w] = "open"
    BY DEF SubmitStep, OpenSession
  <1>1. /\ cur' = cur /\ cur[w] \in Events /\ wpc \in [Workers -> PCs]
        /\ \A P \in Early : /\ Before(P)' \subseteq Before(P)
                            /\ wpc'[w] \notin P => cur[w] \notin Before(P)'
                            /\ wpc[w] \in P => cur[w] \in Before(P)
        /\ \A v \in Workers : v # w => wpc'[v] = wpc[v]
    BY <1>0, SubmitHolders
  <1>2. PICK k : k = Key(cur[w])
    OBVIOUS
  <1>2a. PICK id : id = Len(opener) + 1
    OBVIOUS
  <1>3. /\ opener' = Append(opener, k) /\ live' = live \cup {id}
        /\ sessions' = [sessions EXCEPT ![k] = [id |-> id, inv |-> 0]]
        /\ sess' = [sess EXCEPT ![w] = id] /\ UNCHANGED mix
        /\ wpc' = [wpc EXCEPT ![w] = "invoke"]
    BY <1>2, <1>2a DEF OpenSession, Goto, Key, sessionKey
  <1>4. k \in Keys /\ WireTypes /\ Known /\ Isolated /\ Counts
    BY <1>1, <1>2, KeyFacts DEF WireInv
  <1>5. /\ Len(opener) \in Nat /\ opener' \in Seq(Keys) /\ Len(opener') = Len(opener) + 1
        /\ \A i \in 1..Len(opener) : opener'[i] = opener[i] /\ i \in 1..Len(opener')
        /\ opener'[id] = k /\ id \in 1..Len(opener') /\ id \in Nat /\ id # 0
    BY <1>2a, <1>3, <1>4 DEF WireTypes
  <1>6. /\ sessions' \in [Keys -> Session]
        /\ \A x \in Keys : sessions'[x] = IF x = k THEN [id |-> id, inv |-> 0] ELSE sessions[x]
        /\ sess' \in [Workers -> Nat]
        /\ \A v \in Workers : sess'[v] = IF v = w THEN id ELSE sess[v]
    <2>1. [id |-> id, inv |-> 0] \in Session
      BY <1>5 DEF Session
    <2> QED
      BY <1>3, <1>4, <1>5, <2>1 DEF WireTypes
  <1>7. WireTypes'
    BY <1>5, <1>6 DEF WireTypes
  <1>8. Known'
    <2>1. \A x \in Keys : sessions'[x].id # 0 =>
            sessions'[x].id \in 1..Len(opener') /\ opener'[sessions'[x].id] = x
      BY <1>4, <1>5, <1>6 DEF Known
    <2>2. \A v \in Workers : sess'[v] \in 0..Len(opener')
      <3>1. \A v \in Workers : sess[v] \in 0..Len(opener)
        BY <1>4 DEF Known
      <3> QED
        BY <1>5, <1>6, <3>1
    <2>3. live' \subseteq 1..Len(opener')
      BY <1>3, <1>4, <1>5 DEF Known
    <2> QED
      BY <2>1, <2>2, <2>3 DEF Known
  <1>9. Isolated'
    <2> SUFFICES ASSUME NEW v \in Workers, wpc'[v] = "invoke"
                 PROVE  sess'[v] # 0 /\ opener'[sess'[v]] = Key(cur[v])'
      BY DEF Isolated, OwnSession
    <2>0. Key(cur[v])' = Key(cur[v])
      BY <1>1, <1>3 DEF Key, sessionKey, tenant
    <2>1. CASE v = w
      BY <1>2, <1>5, <1>6, <2>0, <2>1
    <2>2. CASE v # w
      <3>1. sess[v] # 0 /\ opener[sess[v]] = Key(cur[v]) /\ sess[v] \in 0..Len(opener)
        BY <1>1, <1>4, <2>2 DEF Isolated, OwnSession, Known
      <3>2. sess[v] \in 1..Len(opener)
        BY <1>5, <3>1
      <3> QED
        BY <1>5, <1>6, <2>0, <2>2, <3>1, <3>2
    <2> QED
      BY <2>1, <2>2
  <1>10. Counts'
    <2>0. /\ Before(ToOpen)' \subseteq Before(ToOpen) /\ Before(ToBump)' \subseteq Before(ToBump)
          /\ cur[w] \in Before(ToOpen) /\ cur[w] \notin Before(ToOpen)'
      <3>1. wpc'[w] = "invoke"
        BY <1>1, <1>3
      <3>2. ToOpen \in Early /\ ToBump \in Early /\ wpc[w] \in ToOpen /\ wpc'[w] \notin ToOpen
        BY <1>0, <3>1 DEF Early, ToOpen
      <3> QED
        BY <1>1, <3>2
    <2>1. /\ Cardinality(Before(ToOpen)') + 1 <= Cardinality(Before(ToOpen))
          /\ Cardinality(Before(ToOpen)') \in Nat /\ Cardinality(Before(ToOpen)) \in Nat
          /\ Len(opener) + Cardinality(Before(ToOpen)) <= NEvents
      BY <1>4, <2>0, CardShrinks, CardBefore DEF Counts
    <2>2. Len(opener') + Cardinality(Before(ToOpen)') <= NEvents
      BY <1>5, <2>1, NEventsType
    <2>3. \A x \in Keys : sessions'[x].inv <= sessions[x].inv
      BY <1>4, <1>6 DEF WireTypes, Session
    <2>4. \A x \in Keys : sessions'[x].inv + Cardinality(Before(ToBump)') <= NEvents
      BY <1>6, <2>0, <2>3, InvKeeps
    <2> QED
      BY <2>2, <2>4 DEF Counts
  <1> QED
    BY <1>7, <1>8, <1>9, <1>10 DEF WireInv

\* recordInvocation, evictSession and endSession: the cache changes for one key.
LEMMA CacheWire ==
    ASSUME IInv, FlowOnce, OneHolder, StoreTypes, WireInv, NEW w \in Workers, UNCHANGED flowVars,
           recordInvocation(w) \/ evictSession(w) \/ endSession(w)
    PROVE  WireInv'
  <1>0. SubmitStep(w) /\ wpc[w] \in {"bump", "evict", "end"}
    BY DEF SubmitStep, recordInvocation, evictSession, endSession
  <1>1. /\ cur' = cur /\ cur[w] \in Events /\ wpc \in [Workers -> PCs]
        /\ \A P \in Early : /\ Before(P)' \subseteq Before(P)
                            /\ wpc'[w] \notin P => cur[w] \notin Before(P)'
                            /\ wpc[w] \in P => cur[w] \in Before(P)
        /\ \A v \in Workers : v # w => wpc'[v] = wpc[v]
    BY <1>0, SubmitHolders
  <1>2. PICK k : k = Key(cur[w])
    OBVIOUS
  <1>3. /\ k \in Keys /\ sessions[k] \in Session /\ sessions[k].id \in 0..Len(opener)
        /\ WireTypes /\ Known
    BY <1>1, <1>2, KeyFacts DEF WireInv
  <1>4. Before(ToOpen)' \subseteq Before(ToOpen) /\ Before(ToBump)' \subseteq Before(ToBump)
    BY <1>1 DEF Early
  <1>5. UNCHANGED <<mix, opener, live>> /\ wpc'[w] # "invoke"
    <2>1. wpc'[w] \in {"end", "record", "delete"}
      BY <1>1 DEF recordInvocation, evictSession, endSession, Goto
    <2> QED
      BY <2>1 DEF recordInvocation, evictSession, endSession
  <1>6. /\ sess' \in [Workers -> Nat] /\ \A v \in Workers : sess'[v] \in 0..Len(opener)
        /\ \A v \in Workers : v # w => sess'[v] = sess[v]
    <2>1. CASE sess' = sess
      BY <1>3, <2>1 DEF WireTypes, Known
    <2>2. CASE sess' = [sess EXCEPT ![w] = sessions[k].id]
      <3>1. sess \in [Workers -> Nat] /\ sessions[k].id \in Nat
        BY <1>3 DEF WireTypes, Session
      <3> QED
        BY <1>3, <2>2, <3>1 DEF Known
    <2> QED
      BY <1>2, <2>1, <2>2 DEF recordInvocation, evictSession, endSession
  <1>7. /\ sessions' \in [Keys -> Session]
        /\ \A x \in Keys : sessions'[x].id = sessions[x].id \/ sessions'[x].id = 0
        /\ \A x \in Keys : sessions'[x].inv + Cardinality(Before(ToBump)') <= NEvents
    <2>1. CASE sessions' = [sessions EXCEPT ![k] = NoSession]
      <3>1. NoSession \in Session /\ NoSession.id = 0 /\ NoSession.inv = 0
        BY DEF NoSession, Session
      <3>2. /\ sessions' \in [Keys -> Session]
            /\ \A x \in Keys : sessions'[x] = IF x = k THEN NoSession ELSE sessions[x]
        BY <1>3, <2>1, <3>1 DEF WireTypes
      <3>0. \A x \in Keys : sessions[x].inv \in Nat
        BY <1>3 DEF WireTypes, Session
      <3>3. \A x \in Keys : sessions'[x].inv <= sessions[x].inv
        <4> SUFFICES ASSUME NEW x \in Keys PROVE sessions'[x].inv <= sessions[x].inv
          OBVIOUS
        <4>1. sessions'[x].inv = 0 \/ sessions'[x].inv = sessions[x].inv
          BY <3>1, <3>2
        <4> QED
          BY <3>0, <4>1
      <3> QED
        BY <1>4, <3>1, <3>2, <3>3, InvKeeps
    <2>2. CASE recordInvocation(w)
      <3>1. PICK n : n = IF sessions[k].id = 0 THEN 0 ELSE sessions[k].inv + 1
        OBVIOUS
      <3>2. sessions' = [sessions EXCEPT ![k].inv = n]
        BY <1>2, <2>2, <3>1 DEF recordInvocation
      <3>3. n \in Nat /\ n <= sessions[k].inv + 1 /\ sessions[k].inv \in Nat
        BY <1>3, <3>1 DEF Session
      <3>4. /\ sessions' \in [Keys -> Session]
            /\ \A x \in Keys : sessions'[x].id = sessions[x].id
            /\ \A x \in Keys : sessions'[x].inv = IF x = k THEN n ELSE sessions[x].inv
        <4>1. [sessions[k] EXCEPT !.inv = n] \in Session
              /\ [sessions[k] EXCEPT !.inv = n].id = sessions[k].id
              /\ [sessions[k] EXCEPT !.inv = n].inv = n
          BY <1>3, <3>3 DEF Session
        <4>2. sessions' = [sessions EXCEPT ![k] = [sessions[k] EXCEPT !.inv = n]]
          BY <1>3, <3>2 DEF WireTypes
        <4> QED
          BY <1>3, <4>1, <4>2 DEF WireTypes
      <3>5. cur[w] \in Before(ToBump) /\ cur[w] \notin Before(ToBump)'
        <4>1. wpc[w] = "bump" /\ wpc'[w] \in {"end", "record"}
          BY <1>1, <2>2 DEF recordInvocation, Goto
        <4>2. wpc[w] \in ToBump /\ wpc'[w] \notin ToBump /\ ToBump \in Early
          BY <4>1 DEF ToBump, Early
        <4> QED
          BY <1>1, <4>2
      <3>6. /\ Cardinality(Before(ToBump)') + 1 <= Cardinality(Before(ToBump))
            /\ Cardinality(Before(ToBump)') \in Nat /\ Cardinality(Before(ToBump)) \in Nat
        BY <1>4, <3>5, CardShrinks, CardBefore
      <3>7. \A x \in Keys : /\ sessions[x].inv \in Nat
                            /\ sessions[x].inv + Cardinality(Before(ToBump)) <= NEvents
        BY <1>3 DEF WireInv, Counts, WireTypes, Session
      <3>8. ASSUME NEW x \in Keys
            PROVE  sessions'[x].inv + Cardinality(Before(ToBump)') <= NEvents
        <4>1. CASE x = k
          BY <3>3, <3>4, <3>6, <3>7, <4>1, NEventsType
        <4>2. CASE x # k
          BY <3>4, <3>6, <3>7, <4>2, NEventsType
        <4> QED
          BY <4>1, <4>2
      <3> QED
        BY <3>4, <3>8
    <2> QED
      BY <1>2, <2>1, <2>2 DEF evictSession, endSession
  <1>8. \A v \in Workers : wpc'[v] = "invoke" =>
              \/ wpc[v] = "invoke" /\ cur'[v] = cur[v] /\ sess'[v] = sess[v]
              \/ sess'[v] # 0 /\ opener[sess'[v]] = Key(cur'[v])
    BY <1>1, <1>5, <1>6
  <1>9. UNCHANGED <<mix, opener>> /\ live' \subseteq live
    BY <1>5
  <1> QED
    BY <1>4, <1>6, <1>7, <1>8, <1>9, WireKeeps

LEMMA WireStep ==
    ASSUME IInv, FlowOnce, OneHolder, Delivered, WireInv, [Next]_vars
    PROVE  WireInv'
  <1>a. Before(ToOpen)' \subseteq Before(ToOpen) /\ Before(ToBump)' \subseteq Before(ToBump)
    BY HolderStep DEF Early
  <1>s. StoreTypes
    BY DEF Delivered
  <1>t. wpc \in [Workers -> PCs] /\ cur \in [Workers -> Events \cup {NoEvent}]
    BY DEF IInv, FlowTypes
  <1>b. ASSUME UNCHANGED <<mix, opener, sessions, sess>>, live' \subseteq live, UNCHANGED <<wpc, cur>>
        PROVE  WireInv'
    BY <1>a, <1>b, WireSame
  <1>c. ASSUME NEW w \in Workers, UNCHANGED <<mix, opener, sessions, sess>>, live' \subseteq live,
               wpc'[w] # "invoke",
               \A v \in Workers : v # w => wpc'[v] = wpc[v] /\ cur'[v] = cur[v]
        PROVE  WireInv'
    BY <1>a, <1>c, WireSame
  <1>1. CASE GeneratorStep \/ FilterStep
    BY <1>1, <1>b DEF GeneratorStep, GenStop, GenProduce, GenPut, GenPutCancelled,
                      FilterStep, Filter, FilterPut, FilterClose
  <1>2. ASSUME NEW w \in Workers, WorkerStep(w) PROVE WireInv'
    <2>1. CASE drainOnExit(w) /\ fout # <<>>
      BY <2>1, <1>b DEF drainOnExit
    <2>2. ASSUME NEW pc, NEW c, wpc' = [wpc EXCEPT ![w] = pc], pc # "invoke",
                 cur' = cur \/ cur' = [cur EXCEPT ![w] = c],
                 UNCHANGED <<mix, opener, sessions, sess>>, live' \subseteq live
          PROVE  WireInv'
      <3>1. wpc'[w] # "invoke" /\ \A v \in Workers : v # w => wpc'[v] = wpc[v] /\ cur'[v] = cur[v]
        BY <1>t, <2>2
      <3> QED
        BY <1>c, <2>2, <3>1
    <2>3. CASE drainOnExit(w) /\ fout = <<>>
      BY <2>3, <2>2 DEF drainOnExit, Goto
    <2>4. CASE WorkerReceive(w) \/ WorkerEnd(w) \/ WorkerCancelled(w)
      BY <2>4, <2>2 DEF WorkerReceive, WorkerEnd, WorkerCancelled, Goto
    <2>5. CASE DispatchRefused(w) \/ DispatchAllowed(w) \/ Dispatched(w)
      BY <2>5, <2>2 DEF DispatchRefused, DispatchAllowed, Dispatched, Goto
    <2>6. ASSUME SubmitStep(w), UNCHANGED flowVars PROVE WireInv'
      <3>1. CASE resolveSession(w) \/ OpenSession(w) \/ recordInvocation(w) \/ evictSession(w)
                 \/ endSession(w)
        BY <2>6, <3>1, <1>s, ResolveWire, OpenWire, CacheWire
      <3>2. CASE SubmitUnknown(w) \/ AwaitResult(w) \/ AwaitCancelled(w) \/ OpenSessionFails(w)
        <4>1. /\ wpc' = [wpc EXCEPT ![w] = "record"]
              /\ UNCHANGED <<mix, cur, opener, sessions, sess, live>>
          BY <3>2 DEF SubmitUnknown, AwaitResult, AwaitCancelled, OpenSessionFails, Return
        <4> QED
          BY <2>2, <4>1
      <3>3. CASE SubmitDirect(w) \/ SubmitMcp(w) \/ SubmitCsv(w)
        <4>1. /\ wpc' = [wpc EXCEPT ![w] = "record"]
              /\ UNCHANGED <<mix, cur, opener, sessions, sess, live>>
          BY <3>3 DEF SubmitDirect, SubmitMcp, SubmitCsv, Return
        <4> QED
          BY <2>2, <4>1
      <3>4. CASE SubmitBatch(w) \/ SendReturns(w)
        BY <3>4, <2>2 DEF SubmitBatch, SendReturns, Goto
      <3>5. CASE Invoke(w)
        <4>1. /\ \E pc \in {"bump", "record", "evict"} : wpc' = [wpc EXCEPT ![w] = pc]
              /\ UNCHANGED <<mix, cur, opener, sessions, sess, live>>
          BY <3>5 DEF Invoke, Return
        <4> QED
          BY <2>2, <4>1
      <3>6. CASE DeleteSession(w)
        <4>1. /\ wpc' = [wpc EXCEPT ![w] = "record"] /\ live' \subseteq live
              /\ UNCHANGED <<mix, cur, opener, sessions, sess>>
          BY <3>6 DEF DeleteSession, Goto
        <4> QED
          BY <2>2, <4>1
      <3> QED
        BY <2>6, <3>1, <3>2, <3>3, <3>4, <3>5, <3>6 DEF SubmitStep
    <2> QED
      BY <1>2, <2>1, <2>3, <2>4, <2>5, <2>6 DEF WorkerStep
  <1>3. ASSUME NEW b \in Events, BatchGoroutine(b) PROVE WireInv'
    BY <1>3, <1>b DEF BatchGoroutine, BatchStep, TimerFires, flushTenant, send
  <1>4. ASSUME NEW x \in Events, SweepSession(x) PROVE WireInv'
    BY <1>4, <1>b DEF SweepSession
  <1>5. CASE BuildResult \/ Cancel
    BY <1>5, <1>b DEF BuildResult, Cancel
  <1>6. CASE PoolCloseCsv \/ PoolCloseBatch
    BY <1>6, <1>b DEF PoolCloseCsv, CloseCsv, PoolCloseBatch, CloseBatch
  <1>7. CASE UNCHANGED vars
    BY <1>7, <1>b DEF vars
  <1> QED
    BY <1>1, <1>2, <1>3, <1>4, <1>5, <1>6, <1>7 DEF Next, Progress, RunnerStep

-----------------------------------------------------------------------------
(* The bounded channels and the gate's counters. *)

Limits ==
    /\ Len(out) <= BufferSize /\ Len(fout) <= BufferSize
    /\ gate \in [counts : [Tenants -> Nat], total : Nat]

LEMMA GateTypes ==
    ASSUME NEW g \in [counts : [Tenants -> Nat], total : Nat], NEW t \in Tenants
    PROVE  /\ rolled(g) \in [counts : [Tenants -> Nat], total : Nat]
           /\ Admitted(g, t) \in [counts : [Tenants -> Nat], total : Nat]
  <1>1. \A n \in Nat : n \div 2 \in Nat
    OBVIOUS
  <1>2. g.counts \in [Tenants -> Nat] /\ g.total \in Nat
    OBVIOUS
  <1>3. rolled(g) \in [counts : [Tenants -> Nat], total : Nat]
    BY <1>1, <1>2 DEF rolled
  <1>4. [g.counts EXCEPT ![t] = @ + 1] \in [Tenants -> Nat] /\ g.total + 1 \in Nat
    BY <1>2
  <1>5. Admitted(g, t) \in [counts : [Tenants -> Nat], total : Nat]
    BY <1>4 DEF Admitted
  <1> QED
    BY <1>3, <1>5

LEMMA LimitsInit == Init => Limits
  <1> SUFFICES ASSUME Init PROVE Limits
    OBVIOUS
  <1>1. Len(out) = 0 /\ Len(fout) = 0 /\ gate = [counts |-> [t \in Tenants |-> 0], total |-> 0]
    BY DEF Init
  <1>2. BufferSize \in Nat
    BY PipelineAssumption
  <1> QED
    BY <1>1, <1>2 DEF Limits

LEMMA LimitsStep ==
    ASSUME IInv, Delivered, Limits, [Next]_vars
    PROVE  Limits'
  <1>t. out \in Seq(Events) /\ fout \in Seq(Events) /\ BufferSize \in Nat
    BY PipelineAssumption DEF IInv, FlowTypes
  <1>l. Len(out) \in Nat /\ Len(fout) \in Nat
    BY <1>t
  <1>a. ASSUME UNCHANGED <<out, fout, gate>> PROVE Limits'
    BY <1>a DEF Limits
  <1>b. ASSUME fout # <<>>, fout' = Tail(fout), UNCHANGED <<out, gate>> PROVE Limits'
    <2>1. Len(fout') = Len(fout) - 1
      BY <1>t, <1>b, TakeOne
    <2>2. Len(fout') <= BufferSize
      BY <1>l, <1>t, <2>1 DEF Limits
    <2> QED
      BY <1>b, <2>2 DEF Limits
  <1>1. CASE GenStop \/ GenProduce \/ GenPutCancelled \/ FilterClose
    BY <1>1, <1>a DEF GenStop, GenProduce, GenPutCancelled, FilterClose
  <1>2. CASE GenPut
    <2>1. Len(out) < BufferSize /\ out' = Append(out, next) /\ UNCHANGED <<fout, gate>>
      BY <1>2 DEF GenPut
    <2>2. Len(out') = Len(out) + 1
      BY <1>t, <2>1
    <2>3. Len(out') <= BufferSize
      BY <1>l, <1>t, <2>1, <2>2
    <2> QED
      BY <2>1, <2>3 DEF Limits
  <1>3. ASSUME NEW roll \in BOOLEAN, Filter(roll) PROVE Limits'
    <2>1. PICK g : g = IF roll THEN rolled(gate) ELSE gate
      OBVIOUS
    <2>2. PICK t : t = tenant(Head(out))
      OBVIOUS
    <2>3. /\ out # <<>> /\ out' = Tail(out) /\ UNCHANGED fout
          /\ gate' = Admitted(g, t) \/ gate' = g
      BY <1>3, <2>1, <2>2 DEF Filter
    <2>4. t \in Tenants
      BY <1>t, <2>2, <2>3, TakeOne, EventFacts DEF Delivered
    <2>5. g \in [counts : [Tenants -> Nat], total : Nat]
      BY <2>1, <2>4, GateTypes DEF Limits
    <2>6. gate' \in [counts : [Tenants -> Nat], total : Nat]
      BY <2>3, <2>4, <2>5, GateTypes
    <2>7. Len(out') = Len(out) - 1
      BY <1>t, <2>3, TakeOne
    <2>8. Len(out') <= BufferSize
      BY <1>l, <1>t, <2>7 DEF Limits
    <2> QED
      BY <2>3, <2>6, <2>8 DEF Limits
  <1>4. CASE FilterPut
    <2>1. Len(fout) < BufferSize /\ fout' = Append(fout, held) /\ UNCHANGED <<out, gate>>
      BY <1>4 DEF FilterPut
    <2>2. Len(fout') = Len(fout) + 1
      BY <1>t, <2>1
    <2>3. Len(fout') <= BufferSize
      BY <1>l, <1>t, <2>1, <2>2
    <2> QED
      BY <2>1, <2>3 DEF Limits
  <1>5. ASSUME NEW w \in Workers, WorkerStep(w) PROVE Limits'
    <2>1. CASE WorkerReceive(w) \/ (drainOnExit(w) /\ fout # <<>>)
      BY <2>1, <1>b DEF WorkerReceive, drainOnExit
    <2>2. CASE \/ WorkerEnd(w) \/ WorkerCancelled(w) \/ (drainOnExit(w) /\ fout = <<>>)
               \/ DispatchRefused(w) \/ DispatchAllowed(w) \/ Dispatched(w)
      BY <2>2, <1>a DEF WorkerEnd, WorkerCancelled, drainOnExit, DispatchRefused,
                        DispatchAllowed, Dispatched
    <2>3. CASE UNCHANGED flowVars
      BY <2>3, <1>a
    <2> QED
      BY <1>5, <2>1, <2>2, <2>3 DEF WorkerStep
  <1>6. CASE UNCHANGED flowVars \/ UNCHANGED vars \/ Cancel
    BY <1>6, <1>a DEF vars, Cancel
  <1>7. CASE RunnerStep
    BY <1>7, <1>a DEF RunnerStep, BuildResult, PoolCloseCsv, PoolCloseBatch
  <1> QED
    BY <1>1, <1>2, <1>3, <1>4, <1>5, <1>6, <1>7
    DEF Next, Progress, GeneratorStep, FilterStep, BatchGoroutine

DeliveryInv == IInv /\ FlowOnce /\ OneHolder /\ Delivered /\ WireInv /\ Limits

LEMMA DeliveryInvInit == Init => DeliveryInv
  BY InitInv, FlowOnceInit, DeliveredInit, WireInit, LimitsInit DEF DeliveryInv

LEMMA DeliveryInvStep == DeliveryInv /\ [Next]_vars => DeliveryInv'
  BY StepInv, HolderStep, DeliveredStep, WireStep, LimitsStep DEF DeliveryInv

\* The drivers' promise to the pool, for any number of workers, any event mix,
\* batch sizes and session lifetime: however full batches, MaxWait timers, Close
\* and cancelled Submits race for a buffer, the platform takes no event twice; a
\* success that a driver has read from the answer is true (those of csv_upload,
\* mcp_jsonrpc and of a batch whose body was not understood are "blind" and promise
\* nothing); no event is sent over a session that was opened for another tenant.
THEOREM DeliveryIsSound == Spec => []DeliverySound
  <1>1. DeliveryInv => DeliverySound
    <2> SUFFICES ASSUME DeliveryInv PROVE DeliverySound
      OBVIOUS
    <2>1. /\ FlowTypes /\ Holds /\ StoreTypes /\ Honest /\ WireTypes /\ Known /\ Isolated
          /\ Counts /\ Limits
      BY DEF DeliveryInv, IInv, Delivered, WireInv
    <2>2. /\ Cardinality(Before(ToOpen)) \in Nat /\ Cardinality(Before(ToBump)) \in Nat
          /\ Len(opener) \in Nat /\ NEvents \in Nat
      BY <2>1, CardBefore, NEventsType DEF WireTypes
    <2>3. Len(opener) <= NEvents
      BY <2>1, <2>2 DEF Counts
    <2>4. sessions \in [Keys -> [id : 0 .. NEvents, inv : 0 .. NEvents]]
      <3> SUFFICES ASSUME NEW k \in Keys
                   PROVE  sessions[k] \in [id : 0 .. NEvents, inv : 0 .. NEvents]
        BY <2>1 DEF WireTypes
      <3>1. sessions[k] \in Session
        BY <2>1 DEF WireTypes
      <3>2. sessions[k].id \in Nat /\ sessions[k].inv \in Nat
        BY <3>1 DEF Session
      <3>3. sessions[k].id = 0 \/ sessions[k].id \in 1..Len(opener)
        BY <2>1 DEF Known
      <3>4. sessions[k].id \in 0 .. NEvents
        BY <2>2, <2>3, <3>2, <3>3
      <3>5. sessions[k].inv + Cardinality(Before(ToBump)) <= NEvents
        BY <2>1 DEF Counts
      <3>6. sessions[k].inv \in 0 .. NEvents
        BY <2>2, <3>2, <3>5
      <3> QED
        BY <3>1, <3>4, <3>6 DEF Session
    <2>5. sess \in [Workers -> 0 .. NEvents]
      <3> SUFFICES ASSUME NEW w \in Workers PROVE sess[w] \in 0 .. NEvents
        BY <2>1 DEF WireTypes
      <3>1. sess[w] \in 0..Len(opener)
        BY <2>1 DEF Known
      <3> QED
        BY <2>2, <2>3, <3>1
    <2>6. live \subseteq Events
      <3>1. live \subseteq 1..Len(opener)
        BY <2>1 DEF Known
      <3> QED
        BY <2>2, <2>3, <3>1 DEF Events
    <2>7. DriversTypeOK
      BY <2>1, <2>4, <2>5, <2>6 DEF DriversTypeOK, FlowTypes, StoreTypes, WireTypes
    <2>8. TypeOK
      BY <2>1, <2>7 DEF TypeOK, FlowTypes, Limits
    <2>9. AcceptedOnce
      BY <2>1 DEF AcceptedOnce, Honest
    <2>10. OkIsAccepted
      BY <2>1 DEF OkIsAccepted, Honest, SaysOk, AfterSend
    <2>11. SessionIsolation
      <3> SUFFICES ASSUME NEW w \in Workers, wpc[w] = "invoke"
                   PROVE  opener[sess[w]][1] = tenant(cur[w])
        BY DEF SessionIsolation
      <3>1. opener[sess[w]] = Key(cur[w])
        BY <2>1 DEF Isolated, OwnSession
      <3> QED
        BY <3>1 DEF Key, sessionKey
    <2> QED
      BY <2>8, <2>9, <2>10, <2>11 DEF DeliverySound
  <1> QED
    BY <1>1, DeliveryInvInit, DeliveryInvStep, PTL DEF Spec

-----------------------------------------------------------------------------
(***************************************************************************)
(* A run is never stuck.  A Submit that waits has its result, or its event *)
(* is in a buffer or on the wire (Awaited); a buffer has a timer that will *)
(* still send it (Timed); and a batch on the wire is filed under its first *)
(* event, so that none is overwritten by the next (Posted).                *)
(***************************************************************************)
Waits == {"send", "wait"}

Queued(e) == (\E t \in Tenants : e \in Items(pending[t])) \/ (\E b \in Events : e \in Items(posting[b]))

Posted == \A b \in Events : posting[b] # <<>> => b \in Items(posting[b])

Timed == \A t \in Tenants : pending[t] # <<>> => timer[Head(pending[t])] # "none"

Awaited == \A w \in Workers : wpc[w] \in Waits => chan[cur[w]] # NoResult \/ Queued(cur[w])

BatchInv == Posted /\ Timed /\ Awaited

LEMMA BatchInit == Init => BatchInv
  <1> SUFFICES ASSUME Init PROVE BatchInv
    OBVIOUS
  <1>1. /\ pending = [t \in Tenants |-> <<>>] /\ posting = [e \in Events |-> <<>>]
        /\ wpc = [w \in Workers |-> "recv"]
    BY DEF Init, DriversInit
  <1> QED
    BY <1>1 DEF BatchInv, Posted, Timed, Awaited, Waits

LEMMA NoneIsNoResult == NoResult \notin Results
  BY DEF NoResult, Results, Posts

\* The buffers are left alone and nobody begins to wait.
LEMMA BatchSame ==
    ASSUME BatchInv, UNCHANGED <<pending, posting, timer, chan>>,
           \A w \in Workers : wpc'[w] \in Waits => wpc[w] \in Waits /\ cur'[w] = cur[w]
    PROVE  BatchInv'
  <1>1. \A e : Queued(e)' = Queued(e)
    BY DEF Queued
  <1>2. Posted' /\ Timed'
    BY DEF BatchInv, Posted, Timed
  <1>3. Awaited'
    <2> SUFFICES ASSUME NEW w \in Workers, wpc'[w] \in Waits PROVE chan'[cur'[w]] # NoResult \/ Queued(cur'[w])
      BY DEF Awaited, Queued
    <2> QED
      BY DEF BatchInv, Awaited
  <1> QED
    BY <1>2, <1>3 DEF BatchInv

\* A buffer, perhaps with one more event, goes on the wire.
LEMMA BatchMoves ==
    ASSUME StoreTypes, BatchInv, NEW t \in Tenants, NEW s \in Seq(Events), NEW b \in Events,
           b \in Items(s), Items(pending[t]) \subseteq Items(s), posting[b] = <<>>,
           pending' = [pending EXCEPT ![t] = <<>>], posting' = [posting EXCEPT ![b] = s],
           \A c \in Events : c # b => timer'[c] = timer[c],
           \A u \in Tenants : u # t /\ pending[u] # <<>> => Head(pending[u]) # b,
           UNCHANGED chan,
           \A w \in Workers : wpc'[w] \in Waits => (wpc[w] \in Waits /\ cur'[w] = cur[w]) \/ cur'[w] \in Items(s)
    PROVE  BatchInv'
  <1>t. pending \in [Tenants -> Seq(Events)] /\ posting \in [Events -> Seq(Events)]
    BY DEF StoreTypes
  <1>1. /\ \A u \in Tenants : pending'[u] = IF u = t THEN <<>> ELSE pending[u]
        /\ \A c \in Events : posting'[c] = IF c = b THEN s ELSE posting[c]
    BY <1>t
  <1>2. Posted'
    BY <1>1 DEF BatchInv, Posted
  <1>3. Timed'
    <2> SUFFICES ASSUME NEW u \in Tenants, pending'[u] # <<>> PROVE timer'[Head(pending'[u])] # "none"
      BY DEF Timed
    <2>1. u # t /\ pending'[u] = pending[u]
      BY <1>1
    <2>2. Head(pending[u]) \in Events
      BY <1>t, <2>1, TakeOne
    <2> QED
      BY <2>1, <2>2 DEF BatchInv, Timed
  <1>4. \A e : Queued(e) => Queued(e)'
    <2> SUFFICES ASSUME NEW e, Queued(e) PROVE (\E u \in Tenants : e \in Items(pending'[u])) \/ (\E c \in Events : e \in Items(posting'[c]))
      BY DEF Queued
    <2>1. CASE e \in Items(s)
      BY <1>1, <2>1
    <2>2. CASE e \notin Items(s)
      <3>1. CASE \E u \in Tenants : e \in Items(pending[u])
        BY <1>1, <2>2, <3>1
      <3>2. CASE \E c \in Events : e \in Items(posting[c])
        <4>1. PICK c \in Events : e \in Items(posting[c])
          BY <3>2
        <4>2. c # b
          BY <4>1, NoItems
        <4> QED
          BY <1>1, <4>1, <4>2
      <3> QED
        BY <3>1, <3>2 DEF Queued
    <2> QED
      BY <2>1, <2>2
  <1>5. \A e \in Items(s) : Queued(e)'
    BY <1>1 DEF Queued
  <1>6. Awaited'
    <2> SUFFICES ASSUME NEW w \in Workers, wpc'[w] \in Waits PROVE chan'[cur'[w]] # NoResult \/ Queued(cur[w])'
      BY DEF Awaited, Queued
    <2>1. CASE wpc[w] \in Waits /\ cur'[w] = cur[w]
      <3>1. chan[cur[w]] # NoResult \/ Queued(cur[w])
        BY <2>1 DEF BatchInv, Awaited
      <3>2. Queued(cur[w]) => (\E u \in Tenants : cur[w] \in Items(pending'[u])) \/ (\E c \in Events : cur[w] \in Items(posting'[c]))
        BY <1>4 DEF Queued
      <3> QED
        BY <2>1, <3>1, <3>2 DEF Queued
    <2>2. CASE cur'[w] \in Items(s)
      BY <1>1, <2>2 DEF Queued
    <2> QED
      BY <2>1, <2>2
  <1> QED
    BY <1>2, <1>3, <1>6 DEF BatchInv


\* The first event of a buffer is in it.
LEMMA HeadIn ==
    ASSUME NEW s \in Seq(Events), s # <<>>
    PROVE  Head(s) \in Items(s) /\ Head(s) \in Events
  <1>1. Head(s) \in Events /\ Head(s) = s[1] /\ 1 \in 1..Len(s)
    BY TakeOne
  <1> QED
    BY <1>1, ItemsAt

LEMMA FlushBatch ==
    ASSUME Delivered, BatchInv, NEW b \in Events, TimerFires(b) \/ flushTenant(b)
    PROVE  BatchInv'
  <1>t. /\ StoreTypes /\ Apart /\ pending \in [Tenants -> Seq(Events)] /\ posting \in [Events -> Seq(Events)]
        /\ timer \in [Events -> {"none", "armed", "fired"}]
    BY DEF Delivered, StoreTypes
  <1>0. UNCHANGED <<wpc, cur, chan>>
    BY DEF TimerFires, flushTenant
  <1>1. PICK t \in Tenants : t = tenant(b)
    BY <1>t, EventFacts
  <1>2. CASE /\ timer' = [timer EXCEPT ![b] = "fired"] \/ pending[t] = <<>> \/ Head(pending[t]) # b
             /\ \A c \in Events : c # b => timer'[c] = timer[c]
             /\ UNCHANGED <<pending, posting>>
    <2>1. Posted'
      BY <1>2 DEF BatchInv, Posted
    <2>2. Timed'
      <3> SUFFICES ASSUME NEW u \in Tenants, pending[u] # <<>> PROVE timer'[Head(pending[u])] # "none"
        BY <1>2 DEF Timed
      <3>1. Head(pending[u]) \in Items(pending[u]) /\ Head(pending[u]) \in Events
        BY <1>t, HeadIn
      <3>2. tenant(Head(pending[u])) = u
        BY <1>t, <3>1 DEF Apart
      <3>3. CASE Head(pending[u]) = b
        <4>1. u = t
          BY <1>1, <3>2, <3>3
        <4>2. timer' = [timer EXCEPT ![b] = "fired"]
          BY <1>2, <3>3, <4>1
        <4>3. timer'[b] = "fired"
          BY <1>t, <4>2
        <4> QED
          BY <3>3, <4>3
      <3>4. CASE Head(pending[u]) # b
        BY <1>2, <3>1, <3>4 DEF BatchInv, Timed
      <3> QED
        BY <3>3, <3>4
    <2>3. \A e : Queued(e)' = Queued(e)
      BY <1>2 DEF Queued
    <2>4. Awaited'
      <3> SUFFICES ASSUME NEW w \in Workers, wpc[w] \in Waits PROVE chan[cur[w]] # NoResult \/ Queued(cur[w])
        BY <1>0, <1>2 DEF Awaited, Queued
      <3> QED
        BY DEF BatchInv, Awaited
    <2> QED
      BY <2>1, <2>2, <2>4 DEF BatchInv
  <1>3. CASE /\ pending[t] # <<>> /\ Head(pending[t]) = b
             /\ \A c \in Events : c # b => timer'[c] = timer[c]
             /\ posting' = [posting EXCEPT ![b] = pending[t]]
             /\ pending' = [pending EXCEPT ![t] = <<>>]
    <2>1. pending[t] \in Seq(Events) /\ b \in Items(pending[t])
      BY <1>t, <1>3, HeadIn
    <2>2. posting[b] = <<>>
      <3>1. b \notin Items(posting[b])
        BY <1>t, <2>1 DEF Apart
      <3> QED
        BY <3>1 DEF BatchInv, Posted
    <2>3. ASSUME NEW u \in Tenants, u # t, pending[u] # <<>> PROVE Head(pending[u]) # b
      <3>1. Head(pending[u]) \in Items(pending[u])
        BY <1>t, <2>3, HeadIn
      <3>2. tenant(Head(pending[u])) = u
        BY <1>t, <3>1 DEF Apart
      <3> QED
        BY <1>1, <2>3, <3>2
    <2>4. \A w \in Workers : wpc'[w] \in Waits => (wpc[w] \in Waits /\ cur'[w] = cur[w]) \/ cur'[w] \in Items(pending[t])
      BY <1>0
    <2> QED
      BY <1>0, <1>t, <1>3, <2>1, <2>2, <2>3, <2>4, BatchMoves
  <1>4. CASE TimerFires(b)
    <2>1. timer' = [timer EXCEPT ![b] = "fired"] /\ UNCHANGED <<pending, posting>>
      BY <1>4 DEF TimerFires
    <2>2. \A c \in Events : c # b => timer'[c] = timer[c]
      BY <1>t, <2>1
    <2> QED
      BY <1>2, <2>1, <2>2
  <1>5. CASE flushTenant(b)
    <2>1. timer' = [timer EXCEPT ![b] = "none"]
      BY <1>5 DEF flushTenant
    <2>2. \A c \in Events : c # b => timer'[c] = timer[c]
      BY <1>t, <2>1
    <2>3. \/ /\ pending[t] # <<>> /\ Head(pending[t]) = b
             /\ posting' = [posting EXCEPT ![b] = pending[t]] /\ pending' = [pending EXCEPT ![t] = <<>>]
          \/ (pending[t] = <<>> \/ Head(pending[t]) # b) /\ UNCHANGED <<pending, posting>>
      BY <1>1, <1>5 DEF flushTenant
    <2> QED
      BY <1>2, <1>3, <2>2, <2>3
  <1> QED
    BY <1>4, <1>5

LEMMA SendBatch ==
    ASSUME IInv, OneHolder, Delivered, BatchInv, NEW b \in Events, send(b)
    PROVE  BatchInv'
  <1>t. posting \in [Events -> Seq(Events)] /\ cur \in [Workers -> Events \cup {NoEvent}]
    BY DEF Delivered, StoreTypes, IInv, FlowTypes
  <1>1. PICK r \in Answers, told \in BOOLEAN : \E T : chan' = [e \in Events |->
            IF e \in Items(posting[b]) THEN ItemResult(r, told, T, e) ELSE chan[e]]
    BY DEF send
  <1>T. PICK T : chan' = [e \in Events |-> IF e \in Items(posting[b]) THEN ItemResult(r, told, T, e) ELSE chan[e]]
    BY <1>1
  <1>2. posting' = [posting EXCEPT ![b] = <<>>] /\ UNCHANGED <<wpc, cur, pending, timer>>
    BY DEF send
  <1>3. \A e : ItemResult(r, told, T, e) # NoResult
    <2>1. r # NoResult /\ NoResult # "client" /\ NoResult # "blind"
      BY DriversAssumption, NoneIsNoResult DEF Results, Posts
    <2> QED
      BY <2>1 DEF ItemResult
  <1>4. \A c \in Events : posting'[c] = IF c = b THEN <<>> ELSE posting[c]
    BY <1>t, <1>2
  <1>5. Posted' /\ Timed'
    BY <1>2, <1>4 DEF BatchInv, Posted, Timed
  <1>6. Awaited'
    <2> SUFFICES ASSUME NEW w \in Workers, wpc[w] \in Waits, chan'[cur[w]] = NoResult
                 PROVE  (\E t \in Tenants : cur[w] \in Items(pending[t])) \/ (\E c \in Events : cur[w] \in Items(posting'[c]))
      BY <1>2 DEF Awaited, Queued
    <2>1. cur[w] \in Events
      BY DEF IInv, Holds, Waits, BusyPCs
    <2>2. cur[w] \notin Items(posting[b]) /\ chan[cur[w]] = NoResult
      BY <1>T, <1>3, <2>1
    <2>3. Queued(cur[w])
      BY <2>2 DEF BatchInv, Awaited
    <2> QED
      BY <1>4, <2>2, <2>3 DEF Queued
  <1> QED
    BY <1>5, <1>6 DEF BatchInv

\* Close sends what is left; no worker waits any more.
LEMMA CloseBatchKeeps ==
    ASSUME IInv, Delivered, BatchInv, PoolCloseBatch
    PROVE  BatchInv'
  <1>t. pending \in [Tenants -> Seq(Events)] /\ posting \in [Events -> Seq(Events)] /\ Apart
    BY DEF Delivered, StoreTypes
  <1>1. rpc = "closing" /\ wpc' = wpc /\ pending' = [t \in Tenants |-> <<>>]
    BY DEF PoolCloseBatch, CloseBatch
  <1>2. \A w \in Workers : wpc'[w] = "done"
    BY <1>1 DEF IInv, Ends
  <1>3. Timed' /\ Awaited'
    BY <1>1, <1>2 DEF Timed, Awaited, Waits
  <1>4. ASSUME NEW b \in Events, posting'[b] # <<>> PROVE b \in Items(posting'[b])
    <2>1. CASE \E t \in {u \in Tenants : pending[u] # <<>>} : Head(pending[t]) = b
      <3>1. PICK t \in Tenants : pending[t] # <<>> /\ Head(pending[t]) = b
        BY <2>1
      <3>2. b \in Items(pending[t])
        BY <1>t, <3>1, HeadIn
      <3>3. tenant(b) = t
        BY <1>t, <3>2 DEF Apart
      <3>4. posting'[b] = pending[tenant(b)]
        BY <2>1 DEF PoolCloseBatch, CloseBatch
      <3> QED
        BY <3>2, <3>3, <3>4
    <2>2. CASE ~ \E t \in {u \in Tenants : pending[u] # <<>>} : Head(pending[t]) = b
      <3>1. posting'[b] = posting[b]
        BY <2>2 DEF PoolCloseBatch, CloseBatch
      <3> QED
        BY <1>4, <3>1 DEF BatchInv, Posted
    <2> QED
      BY <2>1, <2>2
  <1> QED
    BY <1>3, <1>4 DEF BatchInv, Posted


\* Submit's critical section.
LEMMA JoinBatch ==
    ASSUME IInv, OneHolder, Delivered, BatchInv, NEW w \in Workers, SubmitBatch(w)
    PROVE  BatchInv'
  <1>t. /\ StoreTypes /\ Apart /\ pending \in [Tenants -> Seq(Events)] /\ posting \in [Events -> Seq(Events)]
        /\ timer \in [Events -> {"none", "armed", "fired"}]
        /\ wpc \in [Workers -> PCs] /\ cur \in [Workers -> Events \cup {NoEvent}]
    BY DEF Delivered, StoreTypes, IInv, FlowTypes
  <1>1. wpc[w] = "submit" /\ cur[w] \in Events
    BY DEF SubmitBatch, Driven, IInv, Holds, BusyPCs
  <1>2. PICK e \in Events : e = cur[w]
    BY <1>1
  <1>3. PICK t \in Tenants : t = tenant(e)
    BY <1>t, EventFacts
  <1>4. ~Buffered(e)
    <2>1. e \in Before(ToSend)
      BY <1>1, <1>2 DEF Before, ToSend
    <2> QED
      BY <2>1 DEF Delivered, NotSent
  <1>5. PICK buf : buf = Append(pending[t], e)
    OBVIOUS
  <1>6. buf \in Seq(Events) /\ Items(buf) = Items(pending[t]) \cup {e} /\ buf # <<>>
    <2>1. pending[t] \in Seq(Events)
      BY <1>t
    <2>2. buf \in Seq(Events) /\ Items(buf) = Items(pending[t]) \cup {e}
      BY <1>5, <2>1, ItemsAppend
    <2>3. Append(pending[t], e) # <<>>
      BY <2>1
    <2> QED
      BY <1>5, <2>2, <2>3
  <1>7. PICK b \in Events : b = Head(buf)
    BY <1>6, HeadIn
  <1>8. b \in Items(buf)
    BY <1>6, <1>7, HeadIn
  <1>9. UNCHANGED <<cur, chan>> /\ \A v \in Workers : v # w => wpc'[v] = wpc[v]
    <2>1. UNCHANGED <<cur, chan>> /\ (wpc' = [wpc EXCEPT ![w] = "send"] \/ wpc' = [wpc EXCEPT ![w] = "wait"])
      BY DEF SubmitBatch, Goto
    <2> QED
      BY <1>t, <2>1
  <1>10. CASE Len(buf) >= BatchSize
    <2>1. /\ pending' = [pending EXCEPT ![t] = <<>>] /\ posting' = [posting EXCEPT ![b] = buf]
          /\ timer' = [timer EXCEPT ![b] = IF @ = "fired" THEN @ ELSE "none"]
      BY <1>2, <1>3, <1>5, <1>7, <1>10 DEF SubmitBatch
    <2>2. \A c \in Events : c # b => timer'[c] = timer[c]
      BY <1>t, <2>1
    <2>3. posting[b] = <<>>
      <3>1. b \notin Items(posting[b])
        BY <1>t, <1>4, <1>6, <1>8 DEF Apart, Buffered
      <3> QED
        BY <3>1 DEF BatchInv, Posted
    <2>4. ASSUME NEW u \in Tenants, u # t, pending[u] # <<>> PROVE Head(pending[u]) # b
      <3>1. Head(pending[u]) \in Items(pending[u])
        BY <1>t, <2>4, HeadIn
      <3>2. tenant(Head(pending[u])) = u /\ Head(pending[u]) # e
        BY <1>t, <1>4, <3>1 DEF Apart, Buffered
      <3>3. b \in Items(pending[t]) => tenant(b) = t
        BY <1>t DEF Apart
      <3> QED
        BY <1>6, <1>8, <2>4, <3>2, <3>3
    <2>5. \A v \in Workers : wpc'[v] \in Waits => (wpc[v] \in Waits /\ cur'[v] = cur[v]) \/ cur'[v] \in Items(buf)
      BY <1>2, <1>6, <1>9
    <2>6. Items(pending[t]) \subseteq Items(buf)
      BY <1>6
    <2> QED
      BY <1>t, <1>6, <1>8, <1>9, <2>1, <2>2, <2>3, <2>4, <2>5, <2>6, BatchMoves
  <1>11. CASE ~(Len(buf) >= BatchSize)
    <2>1. /\ pending' = [pending EXCEPT ![t] = buf] /\ UNCHANGED posting
          /\ timer' = [timer EXCEPT ![b] = IF Len(buf) = 1 THEN "armed" ELSE @]
      BY <1>2, <1>3, <1>5, <1>7, <1>11 DEF SubmitBatch
    <2>2. /\ \A u \in Tenants : pending'[u] = IF u = t THEN buf ELSE pending[u]
          /\ \A c \in Events : timer'[c] = timer[c] \/ timer'[c] = "armed"
          /\ Len(buf) = 1 => timer'[b] = "armed"
      BY <1>t, <2>1
    <2>3. Posted'
      BY <2>1 DEF BatchInv, Posted
    <2>4. Timed'
      <3> SUFFICES ASSUME NEW u \in Tenants, pending'[u] # <<>> PROVE timer'[Head(pending'[u])] # "none"
        BY DEF Timed
      <3>1. CASE u # t
        <4>1. pending'[u] = pending[u] /\ Head(pending[u]) \in Events
          BY <1>t, <2>2, <3>1, HeadIn
        <4> QED
          BY <2>2, <4>1 DEF BatchInv, Timed
      <3>2. CASE u = t
        <4>1. Head(pending'[u]) = b
          BY <1>7, <2>2, <3>2
        <4>2. CASE pending[t] = <<>>
          <5>1. Len(buf) = 1
            BY <1>5, <4>2
          <5> QED
            BY <2>2, <4>1, <5>1
        <4>3. CASE pending[t] # <<>>
          <5>1. Head(buf) = Head(pending[t])
            BY <1>t, <1>5, <4>3
          <5>2. timer[b] # "none"
            BY <1>7, <4>3, <5>1 DEF BatchInv, Timed
          <5>3. timer'[b] = timer[b] \/ timer'[b] = "armed"
            BY <2>2
          <5> QED
            BY <4>1, <5>2, <5>3
        <4> QED
          BY <4>2, <4>3
      <3> QED
        BY <3>1, <3>2
    <2>5. \A x : Queued(x) => (\E u \in Tenants : x \in Items(pending'[u])) \/ (\E c \in Events : x \in Items(posting'[c]))
      <3> SUFFICES ASSUME NEW x, NEW u \in Tenants, x \in Items(pending[u]) PROVE x \in Items(pending'[u])
        BY <2>1 DEF Queued
      <3> QED
        BY <1>6, <2>2
    <2>6. e \in Items(pending'[t])
      BY <1>6, <2>2
    <2>7. Awaited'
      <3> SUFFICES ASSUME NEW v \in Workers, wpc'[v] \in Waits
                   PROVE  \/ chan[cur[v]] # NoResult
                          \/ \E u \in Tenants : cur[v] \in Items(pending'[u])
                          \/ \E c \in Events : cur[v] \in Items(posting'[c])
        BY <1>9 DEF Awaited, Queued
      <3>1. CASE v = w
        BY <1>2, <2>6, <3>1
      <3>2. CASE v # w
        <4>1. chan[cur[v]] # NoResult \/ Queued(cur[v])
          BY <1>9, <3>2 DEF BatchInv, Awaited
        <4> QED
          BY <2>5, <4>1
      <3> QED
        BY <3>1, <3>2
    <2> QED
      BY <2>3, <2>4, <2>7 DEF BatchInv
  <1> QED
    BY <1>10, <1>11

\* The other steps of a Submit leave the buffers alone, and only the worker
\* that sent a batch goes on to wait for it.
LEMMA SubmitKeepsBatches ==
    ASSUME IInv, OneHolder, Delivered, BatchInv, NEW w \in Workers, SubmitStep(w)
    PROVE  BatchInv'
  <1>t. wpc \in [Workers -> PCs] /\ res \in [Workers -> Results \cup {NoResult}]
    BY DEF IInv, FlowTypes
  <1>1. CASE SubmitBatch(w)
    BY <1>1, JoinBatch
  <1>2. CASE ~SubmitBatch(w)
    <2>1. UNCHANGED <<pending, posting, timer, chan, cur>>
      BY <1>2 DEF SubmitStep, SubmitUnknown, SubmitDirect, SubmitMcp, SubmitCsv, SendReturns, AwaitResult, AwaitCancelled,
                  resolveSession, OpenSession, OpenSessionFails, Invoke, recordInvocation, evictSession,
                  endSession, DeleteSession
    <2>2. \A v \in Workers : v # w => wpc'[v] = wpc[v]
      <3>1. PICK pc : wpc' = [wpc EXCEPT ![w] = pc]
        BY SubmitRoute
      <3> QED
        BY <1>t, <3>1
    <2>3. wpc'[w] \in Waits => wpc[w] \in Waits
      <3>1. CASE SendReturns(w)
        BY <3>1 DEF SendReturns, Waits
      <3>2. CASE ~SendReturns(w)
        <4> DEFINE Elsewhere == \E pc \in {"record", "open", "invoke", "bump", "evict", "end", "delete"} :
                                   wpc' = [wpc EXCEPT ![w] = pc]
        <4>1. ASSUME \/ SubmitUnknown(w) \/ SubmitDirect(w) \/ SubmitMcp(w) \/ SubmitCsv(w) \/ AwaitResult(w) \/ AwaitCancelled(w)
                     \/ OpenSessionFails(w)
              PROVE  Elsewhere
          <5>1. wpc' = [wpc EXCEPT ![w] = "record"]
            BY <4>1 DEF SubmitUnknown, SubmitDirect, SubmitMcp, SubmitCsv, AwaitResult, AwaitCancelled, OpenSessionFails, Return
          <5> QED
            BY <5>1
        <4>2. ASSUME evictSession(w) \/ DeleteSession(w) PROVE Elsewhere
          <5>1. wpc' = [wpc EXCEPT ![w] = "record"]
            BY <4>2 DEF evictSession, DeleteSession, Goto
          <5> QED
            BY <5>1
        <4>3. ASSUME resolveSession(w) \/ OpenSession(w) PROVE Elsewhere
          <5>1. wpc' = [wpc EXCEPT ![w] = "open"] \/ wpc' = [wpc EXCEPT ![w] = "invoke"]
            BY <4>3 DEF resolveSession, OpenSession, Goto
          <5> QED
            BY <5>1
        <4>4. ASSUME recordInvocation(w) PROVE Elsewhere
          <5>1. wpc' = [wpc EXCEPT ![w] = "end"] \/ wpc' = [wpc EXCEPT ![w] = "record"]
            BY <4>4 DEF recordInvocation, Goto
          <5> QED
            BY <5>1
        <4>5. ASSUME endSession(w) PROVE Elsewhere
          <5>1. wpc' = [wpc EXCEPT ![w] = "delete"] \/ wpc' = [wpc EXCEPT ![w] = "record"]
            BY <4>5 DEF endSession, Goto
          <5> QED
            BY <5>1
        <4>6. ASSUME Invoke(w) PROVE Elsewhere
          <5>1. \/ wpc' = [wpc EXCEPT ![w] = "bump"] \/ wpc' = [wpc EXCEPT ![w] = "evict"]
                \/ wpc' = [wpc EXCEPT ![w] = "record"]
            BY <4>6 DEF Invoke, Return
          <5> QED
            BY <5>1
        <4>7. Elsewhere
          <5> HIDE DEF Elsewhere
          <5> QED
            BY <1>2, <3>2, <4>1, <4>2, <4>3, <4>4, <4>5, <4>6 DEF SubmitStep
        <4> QED
          BY <1>t, <4>7 DEF Waits
      <3> QED
        BY <3>1, <3>2
    <2>4. \A v \in Workers : wpc'[v] \in Waits => wpc[v] \in Waits /\ cur'[v] = cur[v]
      BY <2>1, <2>2, <2>3
    <2> QED
      BY <2>1, <2>4, BatchSame
  <1> QED
    BY <1>1, <1>2

LEMMA BatchInvStep ==
    ASSUME IInv, OneHolder, Delivered, BatchInv, [Next]_vars
    PROVE  BatchInv'
  <1>t. wpc \in [Workers -> PCs] /\ cur \in [Workers -> Events \cup {NoEvent}]
    BY DEF IInv, FlowTypes
  <1>a. ASSUME UNCHANGED <<wpc, cur, pending, posting, timer, chan>> PROVE BatchInv'
    BY <1>a, BatchSame
  <1>1. CASE GeneratorStep \/ FilterStep
    BY <1>1, <1>a DEF GeneratorStep, GenStop, GenProduce, GenPut, GenPutCancelled,
                      FilterStep, Filter, FilterPut, FilterClose
  <1>2. ASSUME NEW w \in Workers, WorkerStep(w) PROVE BatchInv'
    <2>1. CASE SubmitStep(w)
      BY <2>1, SubmitKeepsBatches
    <2>2. CASE drainOnExit(w) /\ fout # <<>>
      BY <2>2, <1>a DEF drainOnExit
    <2>3. CASE \/ WorkerReceive(w) \/ WorkerEnd(w) \/ WorkerCancelled(w) \/ (drainOnExit(w) /\ fout = <<>>)
               \/ DispatchRefused(w) \/ DispatchAllowed(w) \/ Dispatched(w)
      <3>1. UNCHANGED <<pending, posting, timer, chan>>
        BY <2>3 DEF WorkerReceive, WorkerEnd, WorkerCancelled, drainOnExit, DispatchRefused,
                    DispatchAllowed, Dispatched
      <3>2. \E pc : wpc' = [wpc EXCEPT ![w] = pc] /\ pc \notin Waits
        BY <2>3 DEF WorkerReceive, WorkerEnd, WorkerCancelled, drainOnExit, DispatchRefused,
                    DispatchAllowed, Dispatched, Goto, Waits
      <3>3. cur' = cur \/ \E c : cur' = [cur EXCEPT ![w] = c]
        BY <2>3 DEF WorkerReceive, WorkerEnd, WorkerCancelled, drainOnExit, DispatchRefused,
                    DispatchAllowed, Dispatched
      <3>4. \A v \in Workers : wpc'[v] \in Waits => wpc[v] \in Waits /\ cur'[v] = cur[v]
        BY <1>t, <3>2, <3>3
      <3> QED
        BY <3>1, <3>4, BatchSame
    <2> QED
      BY <1>2, <2>1, <2>2, <2>3 DEF WorkerStep
  <1>3. ASSUME NEW b \in Events, BatchGoroutine(b) PROVE BatchInv'
    BY <1>3, FlushBatch, SendBatch DEF BatchGoroutine, BatchStep
  <1>4. ASSUME NEW x \in Events, SweepSession(x) PROVE BatchInv'
    BY <1>4, <1>a DEF SweepSession
  <1>5. CASE BuildResult \/ Cancel \/ PoolCloseCsv \/ UNCHANGED vars
    BY <1>5, <1>a DEF BuildResult, Cancel, PoolCloseCsv, CloseCsv, vars
  <1>6. CASE PoolCloseBatch
    BY <1>6, CloseBatchKeeps
  <1> QED
    BY <1>1, <1>2, <1>3, <1>4, <1>5, <1>6 DEF Next, Progress, RunnerStep


\* Whoever still waits, waits for somebody who can go on.
LEMMA Unstuck ==
    ASSUME DeliveryInv, BatchInv
    PROVE  NeverStuck
  <1> SUFFICES ASSUME rpc # "closed", ~Ready PROVE FALSE
    BY DEF NeverStuck
  <1>t. /\ FlowTypes /\ Ends /\ Holds /\ StoreTypes
    BY DEF DeliveryInv, IInv, Delivered
  <1>1. ~GeneratorReady /\ ~FilterReady /\ ~RunnerReady
    BY DEF Ready
  <1>2. \A w \in Workers : ~WorkerReady(w)
    BY DEF Ready
  <1>3. \A b \in Events : timer[b] = "none" /\ posting[b] = <<>>
    BY DEF Ready, BatchReady
  <1>4. rpc = "pool"
    BY <1>1, <1>t DEF RunnerReady, FlowTypes
  <1>5. PICK w \in Workers : wpc[w] # "done" \/ gpc # "done"
    BY <1>1, <1>4, DriversAssumption DEF RunnerReady
  <1>6. CASE wpc[w] = "done"
    <2>1. gpc = "put" /\ ~cancelled
      BY <1>1, <1>5, <1>6, <1>t DEF GeneratorReady, FlowTypes
    <2> QED
      BY <1>6, <1>t, <2>1 DEF Ends
  <1>7. CASE wpc[w] = "recv"
    <2>1. fout = <<>> /\ fpc # "done"
      BY <1>2, <1>7 DEF WorkerReady
    <2>2. 0 < BufferSize /\ Len(<<>>) = 0
      BY PipelineAssumption
    <2>3. fpc = "recv"
      BY <1>1, <1>t, <2>1, <2>2 DEF FilterReady, FlowTypes
    <2>4. out = <<>> /\ gpc # "done"
      BY <1>1, <2>3 DEF FilterReady
    <2> QED
      BY <1>1, <1>t, <2>2, <2>4 DEF GeneratorReady, FlowTypes
  <1>8. CASE wpc[w] \in Waits
    <2>1. chan[cur[w]] = NoResult
      BY <1>2, <1>8 DEF WorkerReady, Waits
    <2>2. Queued(cur[w])
      BY <1>8, <2>1 DEF BatchInv, Awaited
    <2>3. PICK t \in Tenants : cur[w] \in Items(pending[t])
      BY <1>3, <2>2, NoItems DEF Queued
    <2>4. pending[t] # <<>> /\ pending[t] \in Seq(Events)
      BY <1>t, <2>3, NoItems DEF StoreTypes
    <2>5. Head(pending[t]) \in Events
      BY <2>4, HeadIn
    <2> QED
      BY <1>3, <2>4, <2>5 DEF BatchInv, Timed
  <1>9. CASE wpc[w] \notin Waits \cup {"done", "recv"}
    BY <1>2, <1>9 DEF WorkerReady, Waits
  <1> QED
    BY <1>6, <1>7, <1>8, <1>9

-----------------------------------------------------------------------------
(***************************************************************************)
(* The gate.  Every group of tenants has a bound that leaves room for each *)
(* of its members beside the bound of the others, and that of all is not   *)
(* more than the total: halving keeps it, and it rules out that everybody  *)
(* has more than an average share.                                         *)
(***************************************************************************)
Bounds(p, c) == \A S \in SUBSET Tenants : \A t \in S : p[S] >= c[t] + p[S \ {t}]

LEMMA Halves ==
    ASSUME NEW a \in Nat, NEW b \in Nat, NEW c \in Nat, a >= b + c
    PROVE  a \div 2 \in Nat /\ a \div 2 >= b \div 2 + c \div 2
  OBVIOUS

LEMMA HalfBelow ==
    ASSUME NEW a \in Nat, NEW b \in Nat, a <= b
    PROVE  a \div 2 <= b \div 2
  OBVIOUS

GateStates == [counts : [Tenants -> Nat], total : Nat]

SharedBy(g) == \E p \in [SUBSET Tenants -> Nat] : p[Tenants] <= g.total /\ Bounds(p, g.counts)

LEMMA RolledShared ==
    ASSUME NEW g \in GateStates, SharedBy(g)
    PROVE  SharedBy(rolled(g))
  <1>1. PICK p \in [SUBSET Tenants -> Nat] : p[Tenants] <= g.total /\ Bounds(p, g.counts)
    BY DEF SharedBy
  <1>t. g.counts \in [Tenants -> Nat] /\ g.total \in Nat
    BY DEF GateStates
  <1>2. PICK q : q = [S \in SUBSET Tenants |-> p[S] \div 2]
    OBVIOUS
  <1>3. \A n \in Nat : n \div 2 \in Nat
    OBVIOUS
  <1>4. q \in [SUBSET Tenants -> Nat] /\ \A S \in SUBSET Tenants : q[S] = p[S] \div 2
    BY <1>2, <1>3
  <1>5. q[Tenants] <= g.total \div 2
    <2>1. Tenants \in SUBSET Tenants
      OBVIOUS
    <2>2. p[Tenants] \in Nat
      BY <2>1
    <2>3. p[Tenants] \div 2 <= g.total \div 2
      BY <1>1, <1>t, <2>2, HalfBelow
    <2> QED
      BY <1>4, <2>1, <2>3
  <1>6. ASSUME NEW S \in SUBSET Tenants, NEW t \in S PROVE q[S] >= (g.counts[t] \div 2) + q[S \ {t}]
    <2>1. S \ {t} \in SUBSET Tenants /\ t \in Tenants
      OBVIOUS
    <2>2. p[S] \in Nat /\ p[S \ {t}] \in Nat /\ g.counts[t] \in Nat
      BY <1>t, <2>1
    <2>3. p[S] >= g.counts[t] + p[S \ {t}]
      BY <1>1 DEF Bounds
    <2>4. p[S] \div 2 >= g.counts[t] \div 2 + p[S \ {t}] \div 2
      BY <2>2, <2>3, Halves
    <2> QED
      BY <1>4, <2>1, <2>4
  <1>7. /\ rolled(g).total = g.total \div 2
        /\ \A t \in Tenants : rolled(g).counts[t] = g.counts[t] \div 2
    BY DEF rolled
  <1>8. Bounds(q, rolled(g).counts)
    <2> SUFFICES ASSUME NEW S \in SUBSET Tenants, NEW t \in S PROVE q[S] >= rolled(g).counts[t] + q[S \ {t}]
      BY DEF Bounds
    <2>1. rolled(g).counts[t] = g.counts[t] \div 2
      BY <1>7
    <2> QED
      BY <1>6, <2>1
  <1> QED
    BY <1>4, <1>5, <1>7, <1>8 DEF SharedBy

LEMMA AdmittedShared ==
    ASSUME NEW g \in GateStates, SharedBy(g), NEW x \in Tenants
    PROVE  SharedBy(Admitted(g, x))
  <1>1. PICK p \in [SUBSET Tenants -> Nat] : p[Tenants] <= g.total /\ Bounds(p, g.counts)
    BY DEF SharedBy
  <1>t. g.counts \in [Tenants -> Nat] /\ g.total \in Nat
    BY DEF GateStates
  <1>2. PICK q : q = [S \in SUBSET Tenants |-> IF x \in S THEN p[S] + 1 ELSE p[S]]
    OBVIOUS
  <1>3. q \in [SUBSET Tenants -> Nat] /\ \A S \in SUBSET Tenants : q[S] = IF x \in S THEN p[S] + 1 ELSE p[S]
    BY <1>2
  <1>4. q[Tenants] <= g.total + 1
    <2>1. Tenants \in SUBSET Tenants
      OBVIOUS
    <2>2. p[Tenants] \in Nat /\ q[Tenants] = p[Tenants] + 1
      BY <1>3, <2>1
    <2> QED
      BY <1>1, <1>t, <2>2
  <1>5. Admitted(g, x).total = g.total + 1 /\ Admitted(g, x).counts = [g.counts EXCEPT ![x] = @ + 1]
    BY DEF Admitted
  <1>6. \A t \in Tenants : Admitted(g, x).counts[t] = IF t = x THEN g.counts[t] + 1 ELSE g.counts[t]
    BY <1>t, <1>5
  <1>7. Bounds(q, Admitted(g, x).counts)
    <2> SUFFICES ASSUME NEW S \in SUBSET Tenants, NEW t \in S PROVE q[S] >= Admitted(g, x).counts[t] + q[S \ {t}]
      BY DEF Bounds
    <2>1. S \ {t} \in SUBSET Tenants /\ t \in Tenants
      OBVIOUS
    <2>2. p[S] \in Nat /\ p[S \ {t}] \in Nat /\ g.counts[t] \in Nat /\ p[S] >= g.counts[t] + p[S \ {t}]
      BY <1>1, <1>t, <2>1 DEF Bounds
    <2>3. CASE t = x
      <3>1. q[S] = p[S] + 1 /\ q[S \ {t}] = p[S \ {t}] /\ Admitted(g, x).counts[t] = g.counts[t] + 1
        BY <1>3, <1>6, <2>1, <2>3
      <3> QED
        BY <2>2, <3>1
    <2>4. CASE t # x
      <3>1. Admitted(g, x).counts[t] = g.counts[t]
        BY <1>6, <2>1, <2>4
      <3>2. x \in S <=> x \in S \ {t}
        BY <2>4
      <3>3. (x \in S /\ q[S] = p[S] + 1) \/ (x \notin S /\ q[S] = p[S])
        BY <1>3
      <3>4. (x \in S /\ q[S \ {t}] = p[S \ {t}] + 1) \/ (x \notin S /\ q[S \ {t}] = p[S \ {t}])
        BY <1>3, <2>1, <3>2
      <3>5. (q[S] = p[S] + 1 /\ q[S \ {t}] = p[S \ {t}] + 1) \/ (q[S] = p[S] /\ q[S \ {t}] = p[S \ {t}])
        BY <3>3, <3>4
      <3> QED
        BY <2>2, <3>1, <3>5
    <2> QED
      BY <2>3, <2>4
  <1> QED
    BY <1>3, <1>4, <1>5, <1>7 DEF SharedBy

LEMMA Upwards ==
    ASSUME NEW S, 0 \in S, \A n \in Nat : n \in S => n + 1 \in S
    PROVE  Nat \subseteq S
  <1> DEFINE T == Nat \ S
             R == OpToRel(<, Nat)
  <1> SUFFICES ASSUME T # {} PROVE FALSE
    OBVIOUS
  <1>1. IsWellFoundedOn(R, Nat)
    BY NatLessThanWellFounded
  <1>2. \A y, x \in Nat : y < x => <<y, x>> \in R
    BY DEF OpToRel
  <1>3. T \subseteq Nat
    OBVIOUS
  <1> HIDE DEF R, T
  <1>4. PICK x \in T : \A y \in T : ~(<<y, x>> \in R)
    BY <1>1, <1>3, WFMin
  <1>5. x \in Nat /\ x # 0 /\ x - 1 \in Nat
    BY <1>3, <1>4 DEF T
  <1>6. x - 1 \in T
    BY <1>4, <1>5 DEF T
  <1>7. <<x - 1, x>> \in R
    BY <1>2, <1>5
  <1> QED
    BY <1>4, <1>6, <1>7

\* Taking any element away leaves one less.
LEMMA OneLess ==
    ASSUME NEW D, IsFiniteSet(D), NEW s \in SUBSET D, NEW x \in s
    PROVE  /\ IsFiniteSet(s) /\ Cardinality(s) \in Nat /\ Cardinality(s) > 0
           /\ s \ {x} \in SUBSET D /\ Cardinality(s \ {x}) = Cardinality(s) - 1
  <1>1. IsFiniteSet(s)
    BY FS_Subset
  <1>2. Cardinality(s) \in Nat /\ Cardinality(s \ {x}) = Cardinality(s) - 1 /\ IsFiniteSet(s \ {x})
    BY <1>1, FS_CardinalityType, FS_RemoveElement
  <1>3. Cardinality(s \ {x}) \in Nat
    BY <1>2, FS_CardinalityType
  <1> QED
    BY <1>1, <1>2, <1>3

\* What holds of nothing and of a part with one more element holds of every part.
LEMMA PartInduction ==
    ASSUME NEW D, IsFiniteSet(D), NEW P, {} \in P,
           \A s \in SUBSET D : s # {} /\ (\A x \in s : s \ {x} \in P) => s \in P
    PROVE  \A s \in SUBSET D : s \in P
  <1> DEFINE N == {n \in Nat : \A s \in SUBSET D : Cardinality(s) = n => s \in P}
  <1>1. 0 \in N
    <2> SUFFICES ASSUME NEW s \in SUBSET D, Cardinality(s) = 0 PROVE s \in P
      OBVIOUS
    <2>1. IsFiniteSet(s)
      BY FS_Subset
    <2>2. s = {}
      BY <2>1, FS_EmptySet
    <2> QED
      BY <2>2
  <1>2. ASSUME NEW n \in Nat, n \in N PROVE n + 1 \in N
    <2> SUFFICES ASSUME NEW s \in SUBSET D, Cardinality(s) = n + 1 PROVE s \in P
      OBVIOUS
    <2>1. s # {}
      <3>1. Cardinality({}) = 0
        BY FS_EmptySet
      <3>2. n + 1 # 0
        OBVIOUS
      <3> HIDE DEF N
      <3> QED
        BY <3>1, <3>2, Zenon
    <2>2. ASSUME NEW x \in s PROVE s \ {x} \in P
      <3>1. s \ {x} \in SUBSET D /\ Cardinality(s \ {x}) = Cardinality(s) - 1
        BY OneLess
      <3>2. Cardinality(s \ {x}) = n
        BY <3>1
      <3> QED
        BY <1>2, <3>1, <3>2
    <2> QED
      BY <2>1, <2>2
  <1> HIDE DEF N
  <1>3. Nat \subseteq N
    BY <1>1, <1>2, Upwards
  <1> SUFFICES ASSUME NEW s \in SUBSET D PROVE s \in P
    OBVIOUS
  <1>4. Cardinality(s) \in Nat
    BY FS_Subset, FS_CardinalityType
  <1> QED
    BY <1>3, <1>4 DEF N


-----------------------------------------------------------------------------
LEMMA MoreTimes ==
    ASSUME NEW a \in Nat, NEW x \in Nat, NEW y \in Nat, x >= y
    PROVE  x * a >= y * a
  <1>1. PICK d \in Nat : x = y + d
    <2>1. x - y \in Nat /\ x = y + (x - y)
      OBVIOUS
    <2> QED
      BY <2>1
  <1>2. (y + d) * a = y * a + d * a /\ d * a \in Nat /\ y * a \in Nat
    OBVIOUS
  <1> QED
    BY <1>1, <1>2

LEMMA AddTimes ==
    ASSUME NEW a \in Nat, NEW x \in Nat, NEW y \in Nat, NEW z \in Nat, x >= y + z
    PROVE  x * a >= y * a + z * a
  <1>1. x * a >= (y + z) * a
    BY MoreTimes
  <1>2. (y + z) * a = y * a + z * a
    OBVIOUS
  <1> QED
    BY <1>1, <1>2

\* If every tenant has at least m, the bound of a group is m for each of its members.
LEMMA EveryoneHas ==
    ASSUME NEW c \in [Tenants -> Nat], NEW p \in [SUBSET Tenants -> Nat], Bounds(p, c),
           NEW a \in Nat, NEW m \in Nat, \A t \in Tenants : c[t] * a >= m
    PROVE  p[Tenants] * a >= Cardinality(Tenants) * m
  <1>f. IsFiniteSet(Tenants)
    BY PipelineAssumption
  <1> DEFINE P == {S \in SUBSET Tenants : p[S] * a >= Cardinality(S) * m}
  <1>1. {} \in P
    <2>1. Cardinality({}) = 0
      BY FS_EmptySet
    <2>2. p[{}] \in Nat
      OBVIOUS
    <2>3. p[{}] * a >= 0 * m
      BY <2>2
    <2> QED
      BY <2>1, <2>3
  <1>2. ASSUME NEW S \in SUBSET Tenants, S # {}, \A x \in S : S \ {x} \in P PROVE S \in P
    <2>1. PICK t \in S : TRUE
      BY <1>2
    <2>2. /\ Cardinality(S) \in Nat /\ Cardinality(S) > 0
          /\ Cardinality(S \ {t}) = Cardinality(S) - 1
      BY <1>f, OneLess
    <2>3. p[S] \in Nat /\ p[S \ {t}] \in Nat /\ c[t] \in Nat /\ c[t] * a >= m
      OBVIOUS
    <2>4. p[S] >= c[t] + p[S \ {t}]
      BY DEF Bounds
    <2>5. p[S] * a >= c[t] * a + p[S \ {t}] * a
      BY <2>3, <2>4, AddTimes
    <2>6. p[S \ {t}] * a >= (Cardinality(S) - 1) * m
      BY <1>2, <2>2
    <2>7. (Cardinality(S) - 1) * m + m = Cardinality(S) * m
      BY <2>2
    <2>8. /\ p[S] * a \in Nat /\ c[t] * a \in Nat /\ p[S \ {t}] * a \in Nat
          /\ (Cardinality(S) - 1) * m \in Int /\ Cardinality(S) * m \in Int
      BY <2>2, <2>3
    <2>9. p[S] * a >= Cardinality(S) * m
      BY <2>3, <2>5, <2>6, <2>7, <2>8
    <2> QED
      BY <2>9
  <1> HIDE DEF P
  <1>3. \A S \in SUBSET Tenants : S \in P
    BY <1>f, <1>1, <1>2, PartInduction
  <1>4. Tenants \in P
    BY <1>3
  <1> QED
    BY <1>4 DEF P

\* Two times an average share is more than everybody can have.
LEMMA NotEverybodyOver ==
    ASSUME NEW n \in Nat, n > 0, NEW num \in Nat, NEW den \in Nat, num <= den, NEW k \in Nat
    PROVE  ~(k * (n * num) >= n * (2 * den * k + 1))
  <1>1. k * num <= k * den /\ k * num \in Nat /\ k * den \in Nat
    <2>1. num * k <= den * k
      BY MoreTimes
    <2> QED
      BY <2>1
  <1>2. PICK u \in Nat, v \in Nat : u = k * num /\ v = k * den
    BY <1>1
  <1>3. k * (n * num) = n * u
    BY <1>2
  <1>4. 2 * den * k + 1 = 2 * v + 1
    BY <1>2
  <1>5. (2 * v + 1) * n >= (u + 1) * n
    <2>1. 2 * v + 1 >= u + 1
      BY <1>1, <1>2
    <2> QED
      BY <2>1, MoreTimes
  <1>6. n * (2 * v + 1) = (2 * v + 1) * n /\ (u + 1) * n = n * u + n /\ n * u \in Nat
    OBVIOUS
  <1>7. n * (2 * v + 1) > n * u
    BY <1>5, <1>6
  <1> QED
    BY <1>3, <1>4, <1>7

LEMMA SomebodyAdmitted ==
    ASSUME NEW g \in GateStates, SharedBy(g), Tenants # {}
    PROVE  \E t \in Tenants : Admits(g, t)
  <1> SUFFICES ASSUME \A t \in Tenants : OverCap(g, t) PROVE FALSE
    BY DEF Admits
  <1>t. /\ g.counts \in [Tenants -> Nat] /\ g.total \in Nat
        /\ ShareNum \in Nat /\ ShareDen \in Nat /\ ShareNum <= ShareDen
    BY PipelineAssumption DEF GateStates
  <1>n. Cardinality(Tenants) \in Nat /\ Cardinality(Tenants) > 0
    <2>1. PICK t \in Tenants : TRUE
      OBVIOUS
    <2> QED
      BY <2>1, PipelineAssumption, OneLess
  <1>1. PICK n \in Nat, k \in Nat, c \in [Tenants -> Nat] : n = Cardinality(Tenants) /\ k = g.total /\ c = g.counts
    BY <1>t, <1>n
  <1>2. PICK p \in [SUBSET Tenants -> Nat] : p[Tenants] <= k /\ Bounds(p, c)
    BY <1>1 DEF SharedBy
  <1>3. PICK a \in Nat : a = n * ShareNum
    BY <1>t
  <1>4. PICK m \in Nat : m = 2 * ShareDen * k + 1
    BY <1>t
  <1>5. ASSUME NEW t \in Tenants PROVE c[t] * a >= m
    <2>1. c[t] \in Nat
      OBVIOUS
    <2>2. c[t] * n * ShareNum > 2 * ShareDen * k
      BY <1>1 DEF OverCap
    <2>3. c[t] * n * ShareNum = c[t] * a
      BY <1>t, <1>3, <2>1
    <2>4. 2 * ShareDen * k \in Nat /\ c[t] * a \in Nat
      BY <1>t, <2>1
    <2> QED
      BY <1>4, <2>2, <2>3, <2>4
  <1>6. p[Tenants] * a >= n * m
    BY <1>1, <1>2, <1>5, EveryoneHas
  <1>7. p[Tenants] \in Nat
    OBVIOUS
  <1>8. k * a >= p[Tenants] * a
    BY <1>2, <1>7, MoreTimes
  <1>9. k * a >= n * m
    <2>1. k * a \in Nat /\ p[Tenants] * a \in Nat /\ n * m \in Nat
      BY <1>7
    <2> QED
      BY <1>6, <1>8, <2>1
  <1> QED
    BY <1>t, <1>n, <1>1, <1>3, <1>4, <1>9, NotEverybodyOver

-----------------------------------------------------------------------------
LEMMA GateShared == Init => SharedBy(gate)
  <1> SUFFICES ASSUME Init PROVE SharedBy(gate)
    OBVIOUS
  <1>1. PICK p : p = [S \in SUBSET Tenants |-> 0]
    OBVIOUS
  <1>2. p \in [SUBSET Tenants -> Nat] /\ \A S \in SUBSET Tenants : p[S] = 0
    BY <1>1
  <1>3. gate.total = 0 /\ \A t \in Tenants : gate.counts[t] = 0
    BY DEF Init
  <1>4. Bounds(p, gate.counts)
    <2> SUFFICES ASSUME NEW S \in SUBSET Tenants, NEW t \in S PROVE p[S] >= gate.counts[t] + p[S \ {t}]
      BY DEF Bounds
    <2>1. p[S] = 0 /\ p[S \ {t}] = 0 /\ gate.counts[t] = 0
      BY <1>2, <1>3
    <2> QED
      BY <2>1
  <1>5. p[Tenants] <= gate.total
    <2>1. p[Tenants] = 0
      BY <1>2
    <2> QED
      BY <1>3, <2>1
  <1> QED
    BY <1>2, <1>4, <1>5 DEF SharedBy

LEMMA GateSharedStep ==
    ASSUME DeliveryInv, SharedBy(gate), [Next]_vars
    PROVE  SharedBy(gate)'
  <1>t. StoreTypes /\ out \in Seq(Events) /\ gate \in GateStates
    BY DEF DeliveryInv, IInv, FlowTypes, Delivered, Limits, GateStates
  <1>a. ASSUME UNCHANGED gate PROVE SharedBy(gate)'
    BY <1>a DEF SharedBy
  <1>1. ASSUME NEW roll \in BOOLEAN, Filter(roll) PROVE SharedBy(gate)'
    <2>1. PICK g : g = IF roll THEN rolled(gate) ELSE gate
      OBVIOUS
    <2>2. PICK t : t = tenant(Head(out))
      OBVIOUS
    <2>3. out # <<>> /\ (gate' = Admitted(g, t) \/ gate' = g)
      BY <1>1, <2>1, <2>2 DEF Filter
    <2>4. t \in Tenants
      BY <1>t, <2>2, <2>3, TakeOne, EventFacts
    <2>5. g \in GateStates
      BY <1>t, <2>1, <2>4, GateTypes DEF GateStates
    <2>6. SharedBy(g)
      BY <1>t, <2>1, RolledShared
    <2>7. PICK h : h = gate'
      OBVIOUS
    <2>8. SharedBy(h)
      BY <2>3, <2>4, <2>5, <2>6, <2>7, AdmittedShared
    <2> QED
      BY <2>7, <2>8 DEF SharedBy
  <1>2. CASE GenStop \/ GenProduce \/ GenPut \/ GenPutCancelled \/ FilterClose \/ FilterPut
    BY <1>2, <1>a DEF GenStop, GenProduce, GenPut, GenPutCancelled, FilterClose, FilterPut
  <1>3. ASSUME NEW w \in Workers, WorkerStep(w) PROVE SharedBy(gate)'
    <2>1. CASE \/ WorkerReceive(w) \/ drainOnExit(w) \/ WorkerEnd(w) \/ WorkerCancelled(w)
               \/ DispatchRefused(w) \/ DispatchAllowed(w) \/ Dispatched(w)
      BY <2>1, <1>a DEF WorkerReceive, WorkerEnd, WorkerCancelled, drainOnExit, DispatchRefused,
                        DispatchAllowed, Dispatched
    <2>2. CASE UNCHANGED flowVars
      BY <2>2, <1>a
    <2> QED
      BY <1>3, <2>1, <2>2 DEF WorkerStep
  <1>4. CASE UNCHANGED flowVars \/ UNCHANGED vars \/ Cancel
    BY <1>4, <1>a DEF vars, Cancel
  <1>5. CASE RunnerStep
    BY <1>5, <1>a DEF RunnerStep, BuildResult, PoolCloseCsv, PoolCloseBatch
  <1> QED
    BY <1>1, <1>2, <1>3, <1>4, <1>5
    DEF Next, Progress, GeneratorStep, FilterStep, BatchGoroutine

GoingInv == DeliveryInv /\ BatchInv /\ SharedBy(gate)

\* A run of any size, with any mix, buffers, batches and workers, can always go
\* on: before the driver is closed some goroutine can take its next step by
\* itself (the generator, FairnessFilteredEvents.run, the pool's workers and
\* RESTBatch.flushTenant never wait for one another in a circle, because every
\* event a Submit waits for is in a buffer with a timer or already being sent),
\* and FairnessGate.Allow never refuses every tenant at once, however often
\* maybeRollWindow has halved the counters.
THEOREM RunGoesOn == Spec => []KeepsGoing
  <1>1. Init => GoingInv
    BY DeliveryInvInit, BatchInit, GateShared DEF GoingInv
  <1>2. GoingInv /\ [Next]_vars => GoingInv'
    <2> SUFFICES ASSUME GoingInv, [Next]_vars PROVE GoingInv'
      OBVIOUS
    <2>1. DeliveryInv /\ BatchInv /\ SharedBy(gate) /\ IInv /\ OneHolder /\ Delivered
      BY DEF GoingInv, DeliveryInv
    <2> QED
      BY <2>1, DeliveryInvStep, BatchInvStep, GateSharedStep DEF GoingInv
  <1>3. GoingInv => KeepsGoing
    <2> SUFFICES ASSUME GoingInv PROVE KeepsGoing
      OBVIOUS
    <2>1. DeliveryInv /\ BatchInv /\ SharedBy(gate) /\ StoreTypes /\ gate \in GateStates
      BY DEF GoingInv, DeliveryInv, Delivered, Limits, GateStates
    <2>2. 1 \in Events
      BY NEventsType DEF Events
    <2>3. Tenants # {}
      <3>1. tenant(1) \in Tenants
        BY <2>1, <2>2, EventFacts
      <3> QED
        BY <3>1
    <2> QED
      BY <2>1, <2>3, Unstuck, SomebodyAdmitted DEF KeepsGoing, SomeTenantAdmitted
  <1> QED
    BY <1>1, <1>2, <1>3, PTL DEF Spec
=============================================================================
