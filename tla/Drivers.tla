------------------------------ MODULE Drivers -------------------------------
(***************************************************************************)
(* The ingestion drivers of internal/driver as the pool's workers see      *)
(* them: Multiplex.Submit picks a driver by the event's path and the       *)
(* worker waits for one Result.  Four drivers differ in their state:       *)
(*   direct  one POST per event, no state (rest_direct, sdk_*, gateway_*,  *)
(*           webhook_receiver, ai_agent_rest), and mcp, mcp_jsonrpc, whose *)
(*           2xx may carry a JSON-RPC error;                               *)
(*   batch   rest_batch: a buffer per tenant, sent when full, by a timer   *)
(*           or by Close; every Submit waits for its own result;           *)
(*   csv     csv_upload: a buffer per tenant, every row but the last of a  *)
(*           buffer answered "ok" before it is uploaded;                   *)
(*   wire    ai_agent_wire: a cache of sessions per (tenant, agent).       *)
(* The platform is external: it answers each POST in any way HTTP allows.  *)
(* A Result "blind" is, to the pool, a success like "ok", but the driver   *)
(* has not read from any answer what became of this event.                 *)
(* This module has the worker's half; Pipeline supplies the workers.       *)
(***************************************************************************)
EXTENDS Integers, Sequences, FiniteSets

CONSTANTS
    Workers,     \* goroutines of the pool
    Tenants,
    Agents,
    NEvents,     \* bound: events the generator can produce in the run
    Mixes,       \* the event mixes considered
    Answers,     \* the ways in which a POST may end
    BatchSize,   \* rest_batch.size
    CsvSize,     \* csv_upload batch size
    EndAfter     \* invocations after which a wire session is ended

Events  == 1 .. NEvents
Paths   == {"direct", "mcp", "batch", "csv", "wire", "unknown"}
Posts   == {"ok", "client", "server", "redirect", "transport"}
Results == Posts \cup {"blind"}
Mix     == [Events -> [tenant : Tenants, agent : Agents, path : Paths, neg : BOOLEAN]]

ASSUME DriversAssumption ==
    /\ NEvents \in Nat \ {0}
    /\ Mixes \subseteq Mix
    /\ Answers \subseteq Posts /\ Answers # {}
    /\ BatchSize \in Nat \ {0} /\ CsvSize \in Nat \ {0} /\ EndAfter \in Nat \ {0}
    /\ IsFiniteSet(Workers) /\ Workers # {} /\ "" \notin Tenants

NoEvent  == 0
NoResult == "none"
NoSession == [id |-> 0, inv |-> 0]

VARIABLES
    mix,        \* tenant, agent, path and negative-path tag of every event
    cancelled,  \* the run's context is done
    wpc,        \* where each worker is
    cur,        \* the event it handles
    res,        \* the Result its Submit returns
    pending,    \* RESTBatch.pending: the filling buffer of each tenant
    timer,      \* MaxWait timers, by the first event of their buffer
    posting,    \* batches on the wire, by the first event of their buffer
    chan,       \* batchItem.ch of every event
    csv,        \* CSVUpload.buffers
    sessions,   \* AIAgentWire.sessions
    sess,       \* the session id each worker has resolved
    opener,     \* session id -> the (tenant, agent) it was opened for (server)
    live,       \* session ids the agent server still knows
    accepted    \* how often the platform took each event

batchVars == <<pending, timer, posting, chan>>
wireVars  == <<sessions, sess, opener, live>>

\* A worker holds an event from the moment it received it until it counted it.
BusyPCs == {"dispatch", "submit", "send", "wait", "open", "invoke", "bump",
            "evict", "end", "delete", "record"}
PCs == BusyPCs \cup {"recv", "drain", "done"}

tenant(e) == mix[e].tenant
path(e)   == mix[e].path

sessionKey(t, a) == <<t, a>>
Key(e) == sessionKey(tenant(e), mix[e].agent)
Keys   == (Tenants \cup {""}) \X Agents

DriversTypeOK ==
    /\ mix \in Mixes
    /\ cancelled \in BOOLEAN
    /\ wpc \in [Workers -> PCs]
    /\ cur \in [Workers -> Events \cup {NoEvent}]
    /\ res \in [Workers -> Results \cup {NoResult}]
    /\ pending \in [Tenants -> Seq(Events)]
    /\ timer \in [Events -> {"none", "armed", "fired"}]
    /\ posting \in [Events -> Seq(Events)]
    /\ chan \in [Events -> Results \cup {NoResult}]
    /\ csv \in [Tenants -> Seq(Events)]
    /\ sessions \in [Keys -> [id : 0 .. NEvents, inv : 0 .. NEvents]]
    /\ sess \in [Workers -> 0 .. NEvents]
    /\ opener \in Seq(Keys)
    /\ live \subseteq Events
    /\ accepted \in [Events -> Nat]

DriversInit ==
    /\ mix \in Mixes
    /\ cancelled = FALSE
    /\ wpc = [w \in Workers |-> "recv"]
    /\ cur = [w \in Workers |-> NoEvent]
    /\ res = [w \in Workers |-> NoResult]
    /\ pending = [t \in Tenants |-> <<>>]
    /\ timer = [e \in Events |-> "none"]
    /\ posting = [e \in Events |-> <<>>]
    /\ chan = [e \in Events |-> NoResult]
    /\ csv = [t \in Tenants |-> <<>>]
    /\ sessions = [k \in Keys |-> NoSession]
    /\ sess = [w \in Workers |-> 0]
    /\ opener = <<>>
    /\ live = {}
    /\ accepted = [e \in Events |-> 0]

-----------------------------------------------------------------------------
(* One POST: the verdict on the request, and what the platform took. *)

Items(s) == {s[i] : i \in DOMAIN s}

\* Of a POST of s answered r the platform took: everything (2xx), everything or
\* nothing (the answer was lost), nothing (any other status).
Taken(r, s) ==
    CASE r = "ok"        -> {Items(s)}
      [] r = "transport" -> {{}, Items(s)}
      [] OTHER           -> {{}}

\* A 2xx whose status alone does not tell what was taken.
TakenPartly(r, s) == IF r = "ok" THEN SUBSET Items(s) ELSE Taken(r, s)

Accept(T) == accepted' = [e \in Events |-> IF e \in T THEN accepted[e] + 1 ELSE accepted[e]]

\* The result of a driver that reads no more than the status.
Blind(r) == IF r = "ok" THEN "blind" ELSE r

\* What each item of a batch is told: the verdict, or 422 if it is in errors.  A
\* 2xx body that is cut off or does not parse has told nothing, and all are ok.
ItemResult(r, told, T, e) ==
    CASE r = "ok" /\ ~told             -> "blind"
      [] r = "ok" /\ told /\ e \notin T -> "client"
      [] OTHER                          -> r

Return(w, r) ==
    /\ wpc' = [wpc EXCEPT ![w] = "record"]
    /\ res' = [res EXCEPT ![w] = r]

Goto(w, to) == wpc' = [wpc EXCEPT ![w] = to] /\ UNCHANGED res

Driven(w, p) == wpc[w] = "submit" /\ path(cur[w]) = p

-----------------------------------------------------------------------------
(* direct *)

\* Multiplex.Submit for a path the registry does not know.
SubmitUnknown(w) ==
    /\ Driven(w, "unknown")
    /\ Return(w, "transport")
    /\ UNCHANGED <<mix, cancelled, cur, batchVars, csv, wireVars, accepted>>

\* One event, one POST.  rest_batch sends a negative-path event this way too.
SubmitDirect(w) ==
    /\ Driven(w, "direct") \/ (Driven(w, "batch") /\ mix[cur[w]].neg)
    /\ \E r \in Answers : \E T \in Taken(r, <<cur[w]>>) :
         Return(w, r) /\ Accept(T)
    /\ UNCHANGED <<mix, cancelled, cur, batchVars, csv, wireVars>>

\* mcp_jsonrpc: a 200 with an error object in its body is a success as well.
SubmitMcp(w) ==
    /\ Driven(w, "mcp")
    /\ \E r \in Answers : \E T \in TakenPartly(r, <<cur[w]>>) :
         Return(w, Blind(r)) /\ Accept(T)
    /\ UNCHANGED <<mix, cancelled, cur, batchVars, csv, wireVars>>

-----------------------------------------------------------------------------
(* rest_batch *)

\* Mutant of SubmitBatch: no timer is armed for a new buffer.
SubmitBatchNoTimer(w) ==
    LET e   == cur[w]
        t   == tenant(e)
        buf == Append(pending[t], e)
    IN  /\ Driven(w, "batch") /\ ~mix[e].neg
        /\ IF Len(buf) >= BatchSize
           THEN /\ pending' = [pending EXCEPT ![t] = <<>>]
                /\ posting' = [posting EXCEPT ![Head(buf)] = buf]
                /\ Goto(w, "send")
           ELSE /\ pending' = [pending EXCEPT ![t] = buf]
                /\ Goto(w, "wait")
                /\ UNCHANGED posting
        /\ UNCHANGED <<mix, cancelled, cur, timer, chan, csv, wireVars, accepted>>

\* Submit's critical section: join the tenant's buffer, arming its timer if it
\* is new; a full buffer is taken out, its timer stopped, and sent by this worker.
SubmitBatch(w) ==
    LET e   == cur[w]
        t   == tenant(e)
        buf == Append(pending[t], e)
        b   == Head(buf)
    IN  /\ Driven(w, "batch") /\ ~mix[e].neg
        /\ IF Len(buf) >= BatchSize
           THEN /\ pending' = [pending EXCEPT ![t] = <<>>]
                /\ posting' = [posting EXCEPT ![b] = buf]
                /\ timer' = [timer EXCEPT ![b] = IF @ = "fired" THEN @ ELSE "none"]
                /\ Goto(w, "send")
           ELSE /\ pending' = [pending EXCEPT ![t] = buf]
                /\ timer' = [timer EXCEPT ![b] = IF Len(buf) = 1 THEN "armed" ELSE @]
                /\ Goto(w, "wait")
                /\ UNCHANGED posting
        /\ UNCHANGED <<mix, cancelled, cur, chan, csv, wireVars, accepted>>

\* MaxWait expires: the callback runs in a goroutine of its own.
TimerFires(b) ==
    /\ timer[b] = "armed"
    /\ timer' = [timer EXCEPT ![b] = "fired"]
    /\ UNCHANGED <<mix, cancelled, wpc, cur, res, pending, posting, chan, csv, wireVars, accepted>>

\* Mutant of flushTenant: the buffer is sent without looking whether it is still
\* the tenant's filling buffer.
flushTenantUnchecked(b) ==
    LET t == tenant(b)
    IN  /\ timer[b] = "fired"
        /\ timer' = [timer EXCEPT ![b] = "none"]
        /\ posting' = [posting EXCEPT ![b] = IF pending[t] = <<>> THEN <<b>> ELSE pending[t]]
        /\ pending' = [pending EXCEPT ![t] = <<>>]
        /\ UNCHANGED <<mix, cancelled, wpc, cur, res, chan, csv, wireVars, accepted>>

\* The timer's callback: a no-op if its buffer is not the filling one any more.
flushTenant(b) ==
    LET t    == tenant(b)
        mine == pending[t] # <<>> /\ Head(pending[t]) = b
    IN  /\ timer[b] = "fired"
        /\ timer' = [timer EXCEPT ![b] = "none"]
        /\ IF mine THEN /\ posting' = [posting EXCEPT ![b] = pending[t]]
                        /\ pending' = [pending EXCEPT ![t] = <<>>]
                   ELSE UNCHANGED <<posting, pending>>
        /\ UNCHANGED <<mix, cancelled, wpc, cur, res, chan, csv, wireVars, accepted>>

\* The POST of a batch ends and every item gets its result.
send(b) ==
    /\ posting[b] # <<>>
    /\ \E r \in Answers, told \in BOOLEAN : \E T \in TakenPartly(r, posting[b]) :
         /\ Accept(T)
         /\ chan' = [e \in Events |-> IF e \in Items(posting[b])
                                      THEN ItemResult(r, told, T, e) ELSE chan[e]]
    /\ posting' = [posting EXCEPT ![b] = <<>>]
    /\ UNCHANGED <<mix, cancelled, wpc, cur, res, pending, timer, csv, wireVars>>

\* The worker that filled the batch returns from send.
SendReturns(w) ==
    /\ wpc[w] = "send"
    /\ chan[cur[w]] # NoResult
    /\ Goto(w, "wait")
    /\ UNCHANGED <<mix, cancelled, cur, batchVars, csv, wireVars, accepted>>

\* The select at the end of Submit: the item's result, or the end of the context.
AwaitResult(w) ==
    /\ wpc[w] = "wait"
    /\ chan[cur[w]] # NoResult
    /\ Return(w, chan[cur[w]])
    /\ UNCHANGED <<mix, cancelled, cur, batchVars, csv, wireVars, accepted>>

AwaitCancelled(w) ==
    /\ wpc[w] = "wait"
    /\ cancelled
    /\ Return(w, "transport")
    /\ UNCHANGED <<mix, cancelled, cur, batchVars, csv, wireVars, accepted>>

-----------------------------------------------------------------------------
(* csv_upload *)

\* The row joins the tenant's buffer.  Below BatchSize the answer is a synthetic
\* 202; the row that fills the buffer uploads it and gets the upload's status,
\* which is not about any one row.
SubmitCsv(w) ==
    LET t   == tenant(cur[w])
        buf == Append(csv[t], cur[w])
    IN  /\ Driven(w, "csv")
        /\ IF Len(buf) < CsvSize
           THEN /\ csv' = [csv EXCEPT ![t] = buf]
                /\ Return(w, "blind")
                /\ UNCHANGED accepted
           ELSE /\ csv' = [csv EXCEPT ![t] = <<>>]
                /\ \E r \in Answers : \E T \in TakenPartly(r, buf) :
                     Return(w, Blind(r)) /\ Accept(T)
        /\ UNCHANGED <<mix, cancelled, cur, batchVars, wireVars>>

-----------------------------------------------------------------------------
(* ai_agent_wire *)

\* resolveSession, the lookup under the lock.
resolveSession(w) ==
    LET s == sessions[Key(cur[w])]
    IN  /\ Driven(w, "wire")
        /\ Goto(w, IF s.id = 0 THEN "open" ELSE "invoke")
        /\ sess' = [sess EXCEPT ![w] = s.id]
        /\ UNCHANGED <<mix, cancelled, cur, batchVars, csv, sessions, opener, live, accepted>>

\* resolveSession, a miss: POST /agent/session outside the lock, then the store.
OpenSession(w) ==
    LET id == Len(opener) + 1
    IN  /\ wpc[w] = "open"
        /\ opener' = Append(opener, <<tenant(cur[w]), mix[cur[w]].agent>>)
        /\ live' = live \cup {id}
        /\ sessions' = [sessions EXCEPT ![Key(cur[w])] = [id |-> id, inv |-> 0]]
        /\ sess' = [sess EXCEPT ![w] = id]
        /\ Goto(w, "invoke")
        /\ UNCHANGED <<mix, cancelled, cur, batchVars, csv, accepted>>

OpenSessionFails(w) ==
    /\ wpc[w] = "open"
    /\ Return(w, "transport")
    /\ UNCHANGED <<mix, cancelled, cur, batchVars, csv, wireVars, accepted>>

\* POST /agent/invoke.  The server answers 404 for a session it does not know.
Invoke(w) ==
    /\ wpc[w] = "invoke"
    /\ \/ /\ sess[w] \in live
          /\ Accept({cur[w]})
          /\ res' = [res EXCEPT ![w] = "ok"]
          /\ wpc' = [wpc EXCEPT ![w] = "bump"]
       \/ \E r \in Answers \ {"ok"} :
            \E T \in IF sess[w] \in live THEN Taken(r, <<cur[w]>>) ELSE {{}} :
              Return(w, r) /\ Accept(T)
       \/ /\ sess[w] \notin live
          /\ res' = [res EXCEPT ![w] = "client"]
          /\ wpc' = [wpc EXCEPT ![w] = "evict"]
          /\ UNCHANGED accepted
    /\ UNCHANGED <<mix, cancelled, cur, batchVars, csv, wireVars>>

\* recordInvocation, on whatever session is cached by now.
recordInvocation(w) ==
    LET k == Key(cur[w])
        n == IF sessions[k].id = 0 THEN 0 ELSE sessions[k].inv + 1
    IN  /\ wpc[w] = "bump"
        /\ sessions' = [sessions EXCEPT ![k].inv = n]
        /\ Goto(w, IF n >= EndAfter THEN "end" ELSE "record")
        /\ UNCHANGED <<mix, cancelled, cur, batchVars, csv, sess, opener, live, accepted>>

\* evictSession after a 404 or 410.
evictSession(w) ==
    /\ wpc[w] = "evict"
    /\ sessions' = [sessions EXCEPT ![Key(cur[w])] = NoSession]
    /\ Goto(w, "record")
    /\ UNCHANGED <<mix, cancelled, cur, batchVars, csv, sess, opener, live, accepted>>

\* endSession: the cached session leaves the cache under the lock, ...
endSession(w) ==
    LET s == sessions[Key(cur[w])]
    IN  /\ wpc[w] = "end"
        /\ sessions' = [sessions EXCEPT ![Key(cur[w])] = NoSession]
        /\ sess' = [sess EXCEPT ![w] = s.id]
        /\ Goto(w, IF s.id = 0 THEN "record" ELSE "delete")
        /\ UNCHANGED <<mix, cancelled, cur, batchVars, csv, opener, live, accepted>>

\* ... then DELETE /agent/session/{id}, whose failure is ignored.
DeleteSession(w) ==
    /\ wpc[w] = "delete"
    /\ live' \in {live, live \ {sess[w]}}
    /\ Goto(w, "record")
    /\ UNCHANGED <<mix, cancelled, cur, batchVars, csv, sessions, sess, opener, accepted>>

\* The agent server's sweeper forgets an idle session.
SweepSession(s) ==
    /\ s \in live
    /\ live' = live \ {s}
    /\ UNCHANGED <<mix, cancelled, wpc, cur, res, batchVars, csv, sessions, sess, opener, accepted>>

SubmitStep(w) ==
    \/ SubmitUnknown(w) \/ SubmitDirect(w) \/ SubmitMcp(w)
    \/ SubmitBatch(w) \/ SubmitCsv(w)
    \/ SendReturns(w) \/ AwaitResult(w) \/ AwaitCancelled(w)
    \/ resolveSession(w) \/ OpenSession(w) \/ OpenSessionFails(w) \/ Invoke(w)
    \/ recordInvocation(w) \/ evictSession(w) \/ endSession(w) \/ DeleteSession(w)

BatchStep(b) == TimerFires(b) \/ flushTenant(b) \/ send(b)

-----------------------------------------------------------------------------
(* Close, called by the registry when the pool is closed. *)

\* CSVUpload.Close: Flush uploads every buffer; the results are dropped.
CloseCsv ==
    /\ \E T \in SUBSET UNION {Items(csv[t]) : t \in Tenants} : Accept(T)
    /\ csv' = [t \in Tenants |-> <<>>]
    /\ UNCHANGED <<mix, cancelled, wpc, cur, res, batchVars, wireVars>>

\* RESTBatch.Close: the buffers nobody has sent are sent now, their timers
\* stopped.  The Submits that queued them are gone.
CloseBatch ==
    LET last == {t \in Tenants : pending[t] # <<>>}
        ofTimer(b) == \E t \in last : Head(pending[t]) = b
    IN  /\ posting' = [b \in Events |-> IF ofTimer(b) THEN pending[tenant(b)] ELSE posting[b]]
        /\ timer' = [b \in Events |-> IF ofTimer(b) /\ timer[b] = "armed" THEN "none" ELSE timer[b]]
        /\ pending' = [t \in Tenants |-> <<>>]
        /\ UNCHANGED <<mix, cancelled, wpc, cur, res, chan, csv, wireVars, accepted>>
=============================================================================
