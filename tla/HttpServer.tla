----------------------------- MODULE HttpServer ------------------------------
(***************************************************************************)
(* The hosted MCP server (packages/mcp-trading/src/http.ts and its         *)
(* admission limit, completion log and graceful stop) as the callbacks of  *)
(* one process.  A POST is observed from its arrival, admitted or refused  *)
(* once its body is parsed, and handled by a transport of its own, to      *)
(* which its calls answer in any order.  Node's events of a response       *)
(* (finish, close, error) come when they come: before, between and after   *)
(* those answers.                                                          *)
(*                                                                         *)
(* Of a record only what became of the call is kept: a result and an error *)
(* are both an answer.  Messages that are no calls are left out: they are  *)
(* recorded as not_applicable, whatever happens.  The window of the limit  *)
(* may end at any time.                                                    *)
(***************************************************************************)
EXTENDS Naturals, Sequences, FiniteSets

CONSTANTS
  Requests,
  ClientOf,    \* clientKey of a request
  Batches,     \* [Requests -> the ids of the calls its body may hold]
  perClient,   \* perClientPerMinute
  maxInFlight

Clients == {ClientOf[r] : r \in Requests}

ASSUME HttpAssumption ==
  /\ \A r \in Requests : Batches[r] \subseteq Seq(Nat)
  /\ perClient \in Nat /\ maxInFlight \in Nat \ {0}

VARIABLES
  step,      \* [Requests -> where the request is in the middleware]
  response,  \* [Requests -> what Node has emitted of the response]
  slot,      \* [Requests -> "none", "held" or "released"]
  inFlight,  \* the count of httpLimits.ts
  counts,    \* [Clients -> requests in this window]
  ids,       \* [Requests -> the batch it turned out to hold]
  send,      \* [Requests -> state of transport.send for each call]
  watch,     \* [Requests -> what observeHttpCompletion keeps]
  log,       \* [Requests -> the lines it has logged]
  draining,  \* DrainState
  exited     \* process.exit

admission == <<slot, inFlight, counts>>
process == <<draining, exited>>
vars == <<step, response, admission, ids, send, watch, log, process>>

Open == {"open", "ended"}
Over == {"closed", "cut"}

\* outcome: of each recorded call; mine: the calls whose answer is attributed to
\* their record; flying: sendsInFlight.
Unwatched == [delivery |-> "none", outcome |-> <<>>, mine |-> {}, flying |-> 0,
              completed |-> FALSE]

Init ==
  /\ step = [r \in Requests |-> "none"]
  /\ response = [r \in Requests |-> "none"]
  /\ slot = [r \in Requests |-> "none"]
  /\ inFlight = 0
  /\ counts = [c \in Clients |-> 0]
  /\ ids = [r \in Requests |-> <<>>]
  /\ send = [r \in Requests |-> <<>>]
  /\ watch = [r \in Requests |-> Unwatched]
  /\ log = [r \in Requests |-> <<>>]
  /\ draining = FALSE /\ exited = FALSE

-----------------------------------------------------------------------------
(* httpCompletion.ts *)

\* Variant: a finished response is logged without waiting for its sends.
EmitsAtOnce(w) == ~w.completed /\ w.delivery # "none"

Emits(w) ==
  /\ ~w.completed /\ w.delivery # "none"
  /\ ~(w.delivery = "finished" /\ w.flying > 0)

emit(r, w) ==
  IF Emits(w)
  THEN /\ watch' = [watch EXCEPT ![r] = [w EXCEPT !.completed = TRUE]]
       /\ log' = [log EXCEPT ![r] = Append(@, [delivery |-> w.delivery, outcome |-> w.outcome])]
  ELSE watch' = [watch EXCEPT ![r] = w] /\ UNCHANGED log

onFinish(r) == emit(r, [watch[r] EXCEPT !.delivery = "finished"])

\* A computed response in an interrupted stream is not confirmed delivered.
onAbort(r) ==
  emit(r, [watch[r] EXCEPT !.delivery = "aborted",
                           !.outcome = [i \in DOMAIN @ |-> "no_response"]])

\* Duplicate ids are ambiguous: none of their calls gets the answer.
Unique(r, i) == \A j \in DOMAIN ids[r] : ids[r][j] = ids[r][i] => j = i

-----------------------------------------------------------------------------
(* A request, from its arrival to its handler *)

\* A draining server takes no new connection, but one that is kept alive may
\* bring another request while it is open.
Arrive(r) ==
  /\ step[r] = "none"
  /\ draining => \E q \in Requests : response[q] \in Open \union {"finished"}
  /\ step' = [step EXCEPT ![r] = "parsing"]
  /\ response' = [response EXCEPT ![r] = "open"]
  /\ UNCHANGED <<admission, ids, send, watch, log, process>>

\* express.json, mcpAdmission and the 500 of a failed connection answer by
\* themselves, which ends the response.
EndOpen(r) ==
  response' = [response EXCEPT ![r] = IF @ = "open" THEN "ended" ELSE @]

BodyFails(r) ==
  /\ step[r] = "parsing"
  /\ step' = [step EXCEPT ![r] = "refused"]
  /\ EndOpen(r)
  /\ UNCHANGED <<admission, ids, send, watch, log, process>>

\* The body of a request that was cut while it was read never gets here.
CountRequest(r) ==
  /\ step[r] = "parsing" /\ response[r] \in Open
  /\ \E base \in {counts, [c \in Clients |-> 0]} :
       counts' = [base EXCEPT ![ClientOf[r]] = @ + 1]
  /\ UNCHANGED <<ids, send, watch, log, process>>

\* 429, or 503.
Refuse(r) ==
  /\ CountRequest(r)
  /\ counts'[ClientOf[r]] > perClient \/ inFlight >= maxInFlight
  /\ step' = [step EXCEPT ![r] = "refused"]
  /\ EndOpen(r)
  /\ UNCHANGED <<slot, inFlight>>

Admit(r) ==
  /\ CountRequest(r)
  /\ counts'[ClientOf[r]] <= perClient /\ inFlight < maxInFlight
  /\ step' = [step EXCEPT ![r] = "admitted"]
  /\ slot' = [slot EXCEPT ![r] = "held"]
  /\ inFlight' = inFlight + 1
  /\ UNCHANGED response

\* attach, then handleRequest: each call of the batch gets a record, unless the
\* response was over before.
Handle(r) ==
  /\ step[r] = "admitted"
  /\ step' = [step EXCEPT ![r] = "handled"]
  /\ \E b \in Batches[r] :
       /\ ids' = [ids EXCEPT ![r] = b]
       /\ send' = [send EXCEPT ![r] = [i \in DOMAIN b |-> "none"]]
       /\ watch' = IF watch[r].completed THEN watch
                   ELSE [watch EXCEPT ![r].outcome = [i \in DOMAIN b |-> "no_response"]]
  /\ UNCHANGED <<response, admission, log, process>>

\* server.connect or handleRequest throws; there is a 500 only if no header is out.
HandlerFails(r) ==
  /\ step[r] \in {"admitted", "handled"}
  /\ step' = [step EXCEPT ![r] = "failed"]
  /\ EndOpen(r) \/ (step[r] = "handled" /\ UNCHANGED response)
  /\ UNCHANGED <<admission, ids, send, watch, log, process>>

-----------------------------------------------------------------------------
(* The answers *)

\* transport.send, as attach wrapped it, up to its await.
Send(r, i) ==
  /\ send[r][i] = "none"
  /\ send' = [send EXCEPT ![r][i] = "sending"]
  /\ watch' = IF watch[r].completed \/ ~Unique(r, i) THEN watch
              ELSE [watch EXCEPT ![r].outcome[i] = "answered",
                                 ![r].mine = @ \union {i},
                                 ![r].flying = @ + 1]
  /\ UNCHANGED <<step, response, admission, ids, log, process>>

\* Variant: the finally does not emit.
SettleQuietly(r, i, end) ==
  /\ send[r][i] = "sending"
  /\ send' = [send EXCEPT ![r][i] = end]
  /\ IF i \notin watch[r].mine THEN UNCHANGED <<watch, log>>
     ELSE /\ watch' = [watch EXCEPT
               ![r].flying = @ - 1,
               ![r].outcome[i] = IF end = "failed" THEN "no_response" ELSE @]
          /\ UNCHANGED log
  /\ UNCHANGED <<step, response, admission, ids, process>>

\* Its end: an answer that could not be sent is none, and the last one to end may
\* have kept the lines back.
Settle(r, i, end) ==
  /\ send[r][i] = "sending"
  /\ send' = [send EXCEPT ![r][i] = end]
  /\ IF i \notin watch[r].mine THEN UNCHANGED <<watch, log>>
     ELSE emit(r, [watch[r] EXCEPT
                     !.flying = @ - 1,
                     !.outcome[i] = IF end = "failed" THEN "no_response" ELSE @])
  /\ UNCHANGED <<step, response, admission, ids, process>>

\* The transport ends the response when every id has its answer written.
EndResponse(r) ==
  /\ step[r] = "handled" /\ response[r] = "open"
  /\ \A i \in DOMAIN ids[r] :
       \E j \in DOMAIN ids[r] : ids[r][j] = ids[r][i] /\ send[r][j] # "none"
  /\ EndOpen(r)
  /\ UNCHANGED <<step, admission, ids, send, watch, log, process>>

-----------------------------------------------------------------------------
(* The events of a response *)

\* Variant: every event gives the slot back.
release_again(r) ==
  IF slot[r] = "none" THEN UNCHANGED admission
  ELSE /\ slot' = [slot EXCEPT ![r] = "released"]
       /\ inFlight' = inFlight - 1
       /\ UNCHANGED counts

release(r) ==
  IF slot[r] # "held" THEN UNCHANGED admission
  ELSE /\ slot' = [slot EXCEPT ![r] = "released"]
       /\ inFlight' = inFlight - 1
       /\ UNCHANGED counts

Finish(r) ==
  /\ response[r] = "ended"
  /\ response' = [response EXCEPT ![r] = "finished"]
  /\ release(r)
  /\ onFinish(r)
  /\ UNCHANGED <<step, ids, send, process>>

\* res.writableFinished tells a close after the end from a disconnection.
Close(r) ==
  /\ response[r] \in Open \union {"finished"}
  /\ IF response[r] = "finished"
     THEN response' = [response EXCEPT ![r] = "closed"] /\ onFinish(r)
     ELSE response' = [response EXCEPT ![r] = "cut"] /\ onAbort(r)
  /\ release(r)
  /\ UNCHANGED <<step, ids, send, process>>

Error(r) ==
  /\ response[r] \in Open \union {"finished"} /\ ~watch[r].completed
  /\ onAbort(r)
  /\ UNCHANGED <<step, response, admission, ids, send, process>>

-----------------------------------------------------------------------------
(* httpShutdown.ts *)

begin ==
  /\ ~draining
  /\ draining' = TRUE
  /\ UNCHANGED <<step, response, admission, ids, send, watch, log, exited>>

\* The last connection has closed, or the grace period ends, which cuts the others;
\* process.exit follows at once, before any event of theirs.
finish ==
  /\ draining
  /\ exited' = TRUE
  /\ UNCHANGED <<step, response, admission, ids, send, watch, log, draining>>

Answer(r) ==
  \E i \in DOMAIN ids[r] :
    \/ Send(r, i)
    \/ \E end \in {"sent", "failed"} : Settle(r, i, end)

Next ==
  /\ ~exited
  /\ \/ \E r \in Requests :
          \/ Arrive(r) \/ BodyFails(r) \/ Refuse(r) \/ Admit(r)
          \/ Handle(r) \/ HandlerFails(r)
          \/ Answer(r) \/ EndResponse(r)
          \/ Finish(r) \/ Close(r) \/ Error(r)
     \/ begin \/ finish

\* A send settles: it writes to a stream or fails.
SettleAny(r) ==
  ~exited /\ \E i \in DOMAIN ids[r], end \in {"sent", "failed"} : Settle(r, i, end)

Spec == Init /\ [][Next]_vars /\ \A r \in Requests : WF_vars(SettleAny(r))

-----------------------------------------------------------------------------
(* Properties *)

\* httpLimits.ts: a slot is taken by each admitted request until its response is
\* over, and given back once although finish and close both say so: the count
\* neither leaks nor lets more requests in than maxInFlight.
Handled == {r \in Requests : step[r] \in {"admitted", "handled", "failed"}
                             /\ response[r] \in Open}
SlotsAreExact ==
  /\ inFlight = Cardinality(Handled)
  /\ Cardinality(Handled) <= maxInFlight

\* httpCompletion.ts: "A computed response in an interrupted stream is not
\* confirmed delivered".  A line says that a call was answered exactly if its
\* answer was sent, under an id of its own, and the response was not interrupted
\* before: never because the answer was computed, or still on its way.  And the
\* lines are logged once, whatever events and answers follow.
LoggedAsDelivered ==
  \A r \in Requests :
    /\ Len(log[r]) <= 1
    /\ \A n \in DOMAIN log[r] : \A i \in DOMAIN log[r][n].outcome :
         log[r][n].outcome[i] # "no_response"
           <=> /\ log[r][n].delivery = "finished"
               /\ i \in watch[r].mine /\ send[r][i] = "sent"

\* A response that ended in any way is logged in the end, unless the process stops:
\* a line that waits for a send is not forgotten.
EndIsLogged ==
  \A r \in Requests :
    response[r] \in {"finished"} \union Over ~> (log[r] # <<>> \/ exited)
=============================================================================
