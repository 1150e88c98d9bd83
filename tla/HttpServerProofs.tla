-------------------------- MODULE HttpServerProofs --------------------------
(***************************************************************************)
(* Proofs about HttpServer, for any requests, batches and limits: the      *)
(* count of requests in flight is exact, what is logged of a call is what  *)
(* became of it, and only a send on its way keeps a line back.             *)
(***************************************************************************)
EXTENDS HttpServer, FiniteSetTheorems, TLAPS

Steps == {"none", "parsing", "refused", "admitted", "handled", "failed"}
Responses == {"none", "open", "ended", "finished", "closed", "cut"}

\* The shape of what the events of a response act on.
Shape ==
  /\ step \in [Requests -> Steps]
  /\ response \in [Requests -> Responses]
  /\ slot \in [Requests -> {"none", "held", "released"}]
  /\ inFlight \in Nat

\* The slots held are those of the requests that are handled now.
SlotInv ==
  /\ IsFiniteSet(Handled)
  /\ inFlight = Cardinality(Handled)
  /\ inFlight <= maxInFlight
  /\ \A r \in Requests : slot[r] = "held" <=> r \in Handled

-----------------------------------------------------------------------------
(* Slots *)

LEMMA InitSlots == Init => Shape /\ SlotInv
<1> SUFFICES ASSUME Init PROVE Shape /\ SlotInv
  OBVIOUS
<1>1. Shape
  BY DEF Init, Shape, Steps, Responses
<1>2. Handled = {}
  BY DEF Init, Handled
<1>3. IsFiniteSet(Handled) /\ Cardinality(Handled) = 0
  BY <1>2, FS_EmptySet
<1>4. \A r \in Requests : slot[r] = "none"
  BY DEF Init
<1> QED BY <1>1, <1>2, <1>3, <1>4, HttpAssumption DEF Init, SlotInv

\* A step that neither admits a request nor ends a response.
LEMMA QuietSlots ==
  ASSUME SlotInv, slot' = slot, inFlight' = inFlight, Handled' = Handled
  PROVE  SlotInv'
BY DEF SlotInv

\* What ends a response by itself changes nothing of its being open.
LEMMA EndOpenSlots ==
  ASSUME Shape, NEW r \in Requests, EndOpen(r)
  PROVE  /\ response' \in [Requests -> Responses]
         /\ \A q \in Requests : response'[q] \in Open <=> response[q] \in Open
BY DEF Shape, EndOpen, Open, Responses

LEMMA ArriveSlots ==
  ASSUME Shape, SlotInv, NEW r \in Requests, Arrive(r)
  PROVE  Shape' /\ SlotInv'
<1>1. Shape'
  BY DEF Shape, Arrive, admission, Steps, Responses
<1>2. Handled' = Handled
  BY DEF Shape, Arrive, Handled
<1> QED BY <1>1, <1>2, QuietSlots DEF Arrive, admission

LEMMA RefuseSlots ==
  ASSUME Shape, SlotInv, NEW r \in Requests, BodyFails(r) \/ Refuse(r)
  PROVE  Shape' /\ SlotInv'
<1>1. /\ step[r] = "parsing" /\ step' = [step EXCEPT ![r] = "refused"]
      /\ EndOpen(r) /\ slot' = slot /\ inFlight' = inFlight
  BY DEF BodyFails, Refuse, CountRequest, admission
<1>2. Shape'
  BY <1>1, EndOpenSlots DEF Shape, Steps
<1>3. Handled' = Handled
  BY <1>1, EndOpenSlots DEF Shape, Handled
<1> QED BY <1>1, <1>2, <1>3, QuietSlots

LEMMA AdmitSlots ==
  ASSUME Shape, SlotInv, NEW r \in Requests, Admit(r)
  PROVE  Shape' /\ SlotInv'
<1>1. /\ step[r] = "parsing" /\ step' = [step EXCEPT ![r] = "admitted"]
      /\ response[r] \in Open /\ response' = response
      /\ slot' = [slot EXCEPT ![r] = "held"]
      /\ inFlight' = inFlight + 1 /\ inFlight < maxInFlight
  BY DEF Admit, CountRequest
<1>2. Shape'
  BY <1>1 DEF Shape, Steps
<1>3. r \notin Handled /\ Handled' = Handled \union {r}
  BY <1>1 DEF Shape, Handled
<1>4. IsFiniteSet(Handled') /\ Cardinality(Handled') = Cardinality(Handled) + 1
  BY <1>3, FS_AddElement DEF SlotInv
<1>5. \A q \in Requests : slot'[q] = "held" <=> q \in Handled'
  BY <1>1, <1>3 DEF Shape, SlotInv
<1>6. inFlight' <= maxInFlight
  BY <1>1, HttpAssumption DEF Shape
<1> QED BY <1>1, <1>2, <1>4, <1>5, <1>6 DEF SlotInv

LEMMA HandleSlots ==
  ASSUME Shape, SlotInv, NEW r \in Requests, Handle(r) \/ HandlerFails(r) \/ EndResponse(r)
  PROVE  Shape' /\ SlotInv'
<1>1. /\ step[r] \in {"admitted", "handled"}
      /\ \/ \E s \in {"handled", "failed"} : step' = [step EXCEPT ![r] = s]
         \/ step' = step
      /\ EndOpen(r) \/ response' = response
      /\ slot' = slot /\ inFlight' = inFlight
  BY DEF Handle, HandlerFails, EndResponse, admission
<1>2. /\ response' \in [Requests -> Responses]
      /\ \A q \in Requests : response'[q] \in Open <=> response[q] \in Open
  BY <1>1, EndOpenSlots DEF Shape
<1>3. Shape'
  BY <1>1, <1>2 DEF Shape, Steps
<1>4. Handled' = Handled
  BY <1>1, <1>2 DEF Shape, Handled
<1> QED BY <1>1, <1>3, <1>4, QuietSlots

\* The end of a response gives its slot back, once.
LEMMA EndSlots ==
  ASSUME Shape, SlotInv, NEW r \in Requests, Finish(r) \/ Close(r)
  PROVE  Shape' /\ SlotInv'
<1>1. /\ step' = step /\ release(r)
      /\ \E e \in {"finished", "closed", "cut"} : response' = [response EXCEPT ![r] = e]
  BY DEF Finish, Close
<1>2. Handled' = Handled \ {r}
  BY <1>1 DEF Shape, Handled, Open
<1>3. CASE slot[r] = "held"
  <2>1. slot' = [slot EXCEPT ![r] = "released"] /\ inFlight' = inFlight - 1
    BY <1>1, <1>3 DEF release
  <2>2. r \in Handled
    BY <1>3 DEF SlotInv
  <2>3. IsFiniteSet(Handled') /\ Cardinality(Handled') = Cardinality(Handled) - 1
    BY <1>2, <2>2, FS_RemoveElement DEF SlotInv
  <2>4. inFlight' = Cardinality(Handled') /\ inFlight' \in Nat
    BY <2>1, <2>3, FS_CardinalityType DEF SlotInv
  <2>5. inFlight' <= maxInFlight
    BY <2>1, HttpAssumption DEF SlotInv, Shape
  <2>6. \A q \in Requests : slot'[q] = "held" <=> q \in Handled'
    BY <1>2, <2>1 DEF Shape, SlotInv
  <2>7. Shape'
    BY <1>1, <2>1, <2>4 DEF Shape, Responses
  <2> QED BY <2>3, <2>4, <2>5, <2>6, <2>7 DEF SlotInv
<1>4. CASE slot[r] # "held"
  <2>1. slot' = slot /\ inFlight' = inFlight
    BY <1>1, <1>4 DEF release, admission
  <2>2. Handled' = Handled
    BY <1>2, <1>4 DEF SlotInv
  <2>3. Shape'
    BY <1>1, <2>1 DEF Shape, Responses
  <2> QED BY <2>1, <2>2, <2>3, QuietSlots
<1> QED BY <1>3, <1>4

LEMMA NextSlots == Shape /\ SlotInv /\ [Next]_vars => Shape' /\ SlotInv'
<1> SUFFICES ASSUME Shape, SlotInv, [Next]_vars PROVE Shape' /\ SlotInv'
  OBVIOUS
<1>1. ASSUME NEW r \in Requests,
             \/ Arrive(r) \/ BodyFails(r) \/ Refuse(r) \/ Admit(r)
             \/ Handle(r) \/ HandlerFails(r)
             \/ EndResponse(r)
             \/ Finish(r) \/ Close(r)
      PROVE  Shape' /\ SlotInv'
  BY <1>1, ArriveSlots, RefuseSlots, AdmitSlots, HandleSlots, EndSlots
<1>2. ASSUME NEW r \in Requests, Answer(r) \/ Error(r)
      PROVE  step' = step /\ response' = response /\ slot' = slot /\ inFlight' = inFlight
  BY <1>2 DEF Answer, Send, Settle, Error, admission
<1>3. ASSUME begin \/ finish \/ UNCHANGED vars
      PROVE  step' = step /\ response' = response /\ slot' = slot /\ inFlight' = inFlight
  BY <1>3 DEF begin, finish, vars, admission
<1>4. ASSUME step' = step, response' = response, slot' = slot, inFlight' = inFlight
      PROVE  Shape' /\ SlotInv'
  <2>1. Shape' /\ Handled' = Handled
    BY <1>4 DEF Shape, Handled
  <2> QED BY <1>4, <2>1, QuietSlots
<1> QED BY <1>1, <1>2, <1>3, <1>4 DEF Next

-----------------------------------------------------------------------------
(* Lines *)

IsWatch(w) ==
  /\ w = [delivery |-> w.delivery, outcome |-> w.outcome, mine |-> w.mine,
          flying |-> w.flying, completed |-> w.completed]
  /\ w.delivery \in {"none", "finished", "aborted"}
  /\ w.completed \in BOOLEAN

\* The answers of this watch that are on their way, when the sends are in state s.
Flying(w, s) == {i \in w.mine : s[i] = "sending"}

\* The watch knows which of the calls have had an answer of their own, and how
\* many of those are on their way.
Counts(w, s) ==
  /\ IsWatch(w)
  /\ IsFiniteSet(w.mine) /\ w.mine \subseteq DOMAIN s
  /\ \A i \in w.mine : s[i] # "none"
  /\ w.flying = Cardinality(Flying(w, s))

\* Nothing is logged yet: the outcomes say what was answered until now.
Unlogged(w, s, l) ==
  /\ l = <<>>
  /\ DOMAIN w.outcome = DOMAIN s
  /\ \A i \in DOMAIN s :
       w.outcome[i] # "no_response"
         <=> w.delivery # "aborted" /\ i \in w.mine /\ s[i] \in {"sending", "sent"}

\* A line that was logged tells what will not change any more.
Logged(w, s, l) ==
  /\ Len(l) = 1
  /\ l[1].delivery = "finished" => Flying(w, s) = {}
  /\ \A i \in DOMAIN l[1].outcome :
       l[1].outcome[i] # "no_response"
         <=> l[1].delivery = "finished" /\ i \in w.mine /\ s[i] = "sent"

\* A watch before and after emit.
Emittable(w, s, l) ==
  /\ Counts(w, s)
  /\ IF w.completed THEN Logged(w, s, l) ELSE Unlogged(w, s, l)

Watched(w, s, l) == Emittable(w, s, l) /\ (~w.completed => w.delivery # "aborted")

\* The lines of a request, which has calls once it is handled.
LogOf(r) ==
  /\ ids[r] \in Seq(Nat) /\ DOMAIN send[r] = DOMAIN ids[r]
  /\ step[r] \notin {"handled", "failed"} => ids[r] = <<>>
  /\ Watched(watch[r], send[r], log[r])

LogInv ==
  /\ DOMAIN watch = Requests /\ DOMAIN log = Requests
  /\ DOMAIN send = Requests /\ DOMAIN ids = Requests
  /\ \A r \in Requests : LogOf(r)

LEMMA NoFlying ==
  ASSUME NEW w, NEW s, w.mine = {}
  PROVE  Flying(w, s) = {} /\ Cardinality(Flying(w, s)) = 0
<1>1. Flying(w, s) = {}
  BY DEF Flying
<1> QED BY <1>1, FS_EmptySet

LEMMA InitLog == Init => LogInv
<1> SUFFICES ASSUME Init PROVE LogInv
  OBVIOUS
<1>1. /\ DOMAIN watch = Requests /\ DOMAIN log = Requests
      /\ DOMAIN send = Requests /\ DOMAIN ids = Requests
  BY DEF Init
<1>2. ASSUME NEW r \in Requests
      PROVE  /\ ids[r] = <<>> /\ send[r] = <<>> /\ log[r] = <<>>
             /\ watch[r] = Unwatched
  BY DEF Init
<1>3. Watched(Unwatched, <<>>, <<>>)
  <2>1. Unwatched.mine = {} /\ Unwatched.flying = 0 /\ Unwatched.completed = FALSE
        /\ Unwatched.delivery = "none" /\ Unwatched.outcome = <<>>
    BY DEF Unwatched
  <2>2. IsWatch(Unwatched)
    BY DEF Unwatched, IsWatch
  <2>3. IsFiniteSet(Unwatched.mine)
    BY <2>1, FS_EmptySet
  <2>4. DOMAIN << >> = {}
    OBVIOUS
  <2>5. Counts(Unwatched, <<>>)
    BY <2>1, <2>2, <2>3, NoFlying DEF Counts
  <2>6. Unlogged(Unwatched, <<>>, <<>>)
    BY <2>1, <2>4 DEF Unlogged
  <2> QED BY <2>1, <2>5, <2>6 DEF Watched, Emittable
<1> QED
  <2>1. ASSUME NEW r \in Requests PROVE LogOf(r)
    <3> << >> \in Seq(Nat)
      OBVIOUS
    <3>1. /\ ids[r] \in Seq(Nat) /\ DOMAIN send[r] = DOMAIN ids[r]
      BY <1>2
    <3>2. Watched(watch[r], send[r], log[r])
      BY <1>2, <1>3
    <3> QED BY <1>2, <3>1, <3>2 DEF LogOf
  <2> QED BY <1>1, <2>1 DEF LogInv

\* Whatever event or answer brings a watch to it, emit logs it rightly, or waits.
LEMMA EmitKeeps ==
  ASSUME NEW r \in Requests, NEW w, NEW s, emit(r, w), Emittable(w, s, log[r]),
         DOMAIN watch = Requests, DOMAIN log = Requests
  PROVE  /\ DOMAIN watch' = Requests /\ DOMAIN log' = Requests
         /\ \A q \in Requests : q # r => watch'[q] = watch[q] /\ log'[q] = log[q]
         /\ Watched(watch'[r], s, log'[r])
         /\ watch'[r].mine = w.mine
<1>1. CASE Emits(w)
  <2> DEFINE line == [delivery |-> w.delivery, outcome |-> w.outcome]
  <2>1. /\ watch' = [watch EXCEPT ![r] = [w EXCEPT !.completed = TRUE]]
        /\ log' = [log EXCEPT ![r] = Append(@, line)]
    BY <1>1 DEF emit
  <2>2. ~w.completed /\ log[r] = <<>>
    BY <1>1 DEF Emits, Emittable, Unlogged
  <2>3. watch'[r] = [w EXCEPT !.completed = TRUE] /\ log'[r] = <<line>>
    BY <2>1, <2>2
  <2>4. /\ IsWatch(watch'[r]) /\ watch'[r].completed
        /\ watch'[r].mine = w.mine /\ watch'[r].flying = w.flying
    BY <2>3 DEF Emittable, Counts, IsWatch
  <2>5. Flying(watch'[r], s) = Flying(w, s)
    BY <2>4 DEF Flying
  <2>6. w.delivery = "finished" => Flying(w, s) = {}
    <3>1. ASSUME w.delivery = "finished" PROVE w.flying = 0
      <4>1. w.flying \in Nat
        BY FS_Subset, FS_CardinalityType DEF Emittable, Counts, Flying
      <4> QED BY <1>1, <3>1, <4>1 DEF Emits
    <3>2. IsFiniteSet(Flying(w, s))
      BY FS_Subset DEF Emittable, Counts, Flying
    <3> QED BY <3>1, <3>2, FS_EmptySet DEF Emittable, Counts
  <2>7. Counts(watch'[r], s)
    BY <2>4, <2>5 DEF Emittable, Counts
  <2>8. Logged(watch'[r], s, log'[r])
    <3>1. /\ Len(log'[r]) = 1 /\ log'[r][1] = line
          /\ line.delivery = w.delivery /\ line.outcome = w.outcome
      BY <2>3
    <3>2. \A i \in DOMAIN w.outcome :
            w.outcome[i] # "no_response"
              <=> w.delivery # "aborted" /\ i \in w.mine /\ s[i] \in {"sending", "sent"}
      BY <2>2 DEF Emittable, Unlogged
    <3>3. w.delivery \in {"finished", "aborted"}
      BY <1>1 DEF Emits, Emittable, Counts, IsWatch
    <3>4. w.delivery = "finished" => \A i \in w.mine : s[i] # "sending"
      BY <2>6 DEF Flying
    <3>5. \A i \in DOMAIN w.outcome :
            w.outcome[i] # "no_response"
              <=> w.delivery = "finished" /\ i \in w.mine /\ s[i] = "sent"
      BY <3>2, <3>3, <3>4
    <3> HIDE DEF line
    <3> QED BY <2>4, <2>5, <2>6, <3>1, <3>5 DEF Logged
  <2>9. Watched(watch'[r], s, log'[r])
    BY <2>4, <2>7, <2>8 DEF Watched, Emittable
  <2> QED BY <2>1, <2>4, <2>9
<1>2. CASE ~Emits(w)
  <2>1. watch' = [watch EXCEPT ![r] = w] /\ log' = log
    BY <1>2 DEF emit
  <2>2. ~w.completed => w.delivery # "aborted"
    BY <1>2 DEF Emits
  <2> QED BY <2>1, <2>2 DEF Watched
<1> QED BY <1>1, <1>2

\* The changes of a watch.
LEMMA AbortWatch ==
  ASSUME NEW v, IsWatch(v)
  PROVE  LET w == [v EXCEPT !.delivery = "aborted",
                            !.outcome = [i \in DOMAIN @ |-> "no_response"]]
         IN  /\ IsWatch(w) /\ w.mine = v.mine /\ w.flying = v.flying
             /\ w.outcome = [i \in DOMAIN v.outcome |-> "no_response"]
             /\ w.completed = v.completed /\ w.delivery = "aborted"
<1> PICK w : w = [v EXCEPT !.delivery = "aborted",
                           !.outcome = [i \in DOMAIN @ |-> "no_response"]]
  OBVIOUS
<1>1. /\ IsWatch(w) /\ w.mine = v.mine /\ w.flying = v.flying
      /\ w.outcome = [i \in DOMAIN v.outcome |-> "no_response"]
      /\ w.completed = v.completed /\ w.delivery = "aborted"
  BY DEF IsWatch
<1> QED BY <1>1

LEMMA AnswerWatch ==
  ASSUME NEW v, NEW i, IsWatch(v)
  PROVE  LET w == [v EXCEPT !.outcome = [@ EXCEPT ![i] = "answered"],
                            !.mine = @ \union {i}, !.flying = @ + 1]
         IN  /\ IsWatch(w) /\ w.mine = v.mine \union {i} /\ w.flying = v.flying + 1
             /\ w.outcome = [v.outcome EXCEPT ![i] = "answered"]
             /\ w.completed = v.completed /\ w.delivery = v.delivery
<1> PICK w : w = [v EXCEPT !.outcome = [@ EXCEPT ![i] = "answered"],
                           !.mine = @ \union {i}, !.flying = @ + 1]
  OBVIOUS
<1>1. /\ IsWatch(w) /\ w.mine = v.mine \union {i} /\ w.flying = v.flying + 1
      /\ w.outcome = [v.outcome EXCEPT ![i] = "answered"]
      /\ w.completed = v.completed /\ w.delivery = v.delivery
  BY DEF IsWatch
<1> QED BY <1>1

Settled(v, i, end) ==
  [v EXCEPT !.flying = @ - 1,
            !.outcome[i] = IF end = "failed" THEN "no_response" ELSE @]

\* What a step does to one request leaves the lines of the others alone.
LEMMA OthersKeep ==
  ASSUME LogInv, NEW r \in Requests,
         DOMAIN watch' = Requests, DOMAIN log' = Requests,
         DOMAIN send' = Requests, DOMAIN ids' = Requests,
         \A q \in Requests \ {r} :
           /\ watch'[q] = watch[q] /\ log'[q] = log[q] /\ send'[q] = send[q]
           /\ ids'[q] = ids[q] /\ step'[q] = step[q],
         LogOf(r)'
  PROVE  LogInv'
<1>1. ASSUME NEW q \in Requests PROVE LogOf(q)'
  BY DEF LogInv, LogOf
<1> QED BY <1>1 DEF LogInv

\* A step of the middleware, of the transport's end or of the process: no lines.
LEMMA QuietLog ==
  ASSUME Shape, LogInv, ids' = ids, send' = send, watch' = watch, log' = log,
         \/ step' = step
         \/ \E r \in Requests : \/ step' = [step EXCEPT ![r] = "failed"]
                              \/ /\ step[r] \in {"none", "parsing"}
                                 /\ \E s \in Steps : step' = [step EXCEPT ![r] = s]
  PROVE  LogInv'
<1>1. ASSUME NEW q \in Requests
      PROVE  step'[q] \notin {"handled", "failed"} => step[q] \notin {"handled", "failed"}
  BY DEF Shape
<1>2. ASSUME NEW q \in Requests PROVE LogOf(q)'
  BY <1>1 DEF LogInv, LogOf
<1> QED BY <1>2 DEF LogInv

\* A step that brings the watch of a request to w and emits.
LEMMA EmitLog ==
  ASSUME LogInv, NEW r \in Requests, NEW w, emit(r, w),
         Emittable(w, send'[r], log[r]),
         step' = step, ids' = ids,
         DOMAIN send' = Requests, DOMAIN send'[r] = DOMAIN send[r],
         \A q \in Requests \ {r} : send'[q] = send[q]
  PROVE  LogInv'
<1> DEFINE s == send'[r]
<1> HIDE DEF s
<1>1. /\ DOMAIN watch' = Requests /\ DOMAIN log' = Requests
      /\ \A q \in Requests : q # r => watch'[q] = watch[q] /\ log'[q] = log[q]
      /\ Watched(watch'[r], s, log'[r])
  BY EmitKeeps DEF LogInv, s
<1>2. LogOf(r)'
  BY <1>1 DEF LogInv, LogOf, s
<1> QED BY <1>1, <1>2, OthersKeep DEF LogInv

\* The events of a response: an interruption takes the answers back.
LEMMA FinishLog ==
  ASSUME LogInv, NEW r \in Requests, onFinish(r),
         step' = step, ids' = ids, send' = send
  PROVE  LogInv'
<1> DEFINE v == watch[r]
           w == [v EXCEPT !.delivery = "finished"]
<1>1. emit(r, w)
  BY DEF onFinish
<1>2. Watched(v, send[r], log[r])
  BY DEF LogInv, LogOf
<1>3. IsWatch(v)
  BY <1>2 DEF Watched, Emittable, Counts
<1>4. /\ IsWatch(w) /\ w.mine = v.mine /\ w.flying = v.flying
      /\ w.outcome = v.outcome /\ w.completed = v.completed
      /\ w.delivery = "finished"
  BY <1>3 DEF IsWatch
<1> HIDE DEF v, w
<1>5. Emittable(w, send[r], log[r])
  <2>1. Counts(w, send[r])
    BY <1>2, <1>4 DEF Watched, Emittable, Counts, Flying
  <2>2. CASE w.completed
    BY <1>2, <1>4, <2>1, <2>2 DEF Watched, Emittable, Logged, Flying
  <2>3. CASE ~w.completed
    BY <1>2, <1>4, <2>1, <2>3 DEF Watched, Emittable, Unlogged
  <2> QED BY <2>2, <2>3
<1> QED BY <1>1, <1>5, EmitLog DEF LogInv

LEMMA AbortLog ==
  ASSUME LogInv, NEW r \in Requests, onAbort(r),
         step' = step, ids' = ids, send' = send
  PROVE  LogInv'
<1> DEFINE v == watch[r]
           w == [v EXCEPT !.delivery = "aborted",
                          !.outcome = [i \in DOMAIN @ |-> "no_response"]]
<1>1. emit(r, w)
  BY DEF onAbort
<1>2. Watched(v, send[r], log[r])
  BY DEF LogInv, LogOf
<1>3. IsWatch(v)
  BY <1>2 DEF Watched, Emittable, Counts
<1>4. /\ IsWatch(w) /\ w.mine = v.mine /\ w.flying = v.flying
      /\ w.outcome = [i \in DOMAIN v.outcome |-> "no_response"]
      /\ w.completed = v.completed /\ w.delivery = "aborted"
  BY <1>3, AbortWatch
<1> HIDE DEF v, w
<1>5. Emittable(w, send[r], log[r])
  <2>1. Counts(w, send[r])
    BY <1>2, <1>4 DEF Watched, Emittable, Counts, Flying
  <2>2. CASE w.completed
    BY <1>2, <1>4, <2>1, <2>2 DEF Watched, Emittable, Logged, Flying
  <2>3. CASE ~w.completed
    <3>1. log[r] = <<>> /\ DOMAIN v.outcome = DOMAIN send[r]
      BY <1>2, <1>4, <2>3 DEF Watched, Emittable, Unlogged
    <3>2. Unlogged(w, send[r], log[r])
      BY <1>4, <3>1 DEF Unlogged
    <3> QED BY <2>1, <2>3, <3>2 DEF Emittable
  <2> QED BY <2>2, <2>3
<1> QED BY <1>1, <1>5, EmitLog DEF LogInv

\* A handler finds no call and no answer before its own.
LEMMA HandleLog ==
  ASSUME Shape, LogInv, NEW r \in Requests, Handle(r)
  PROVE  LogInv'
<1> PICK b \in Batches[r] :
       /\ ids' = [ids EXCEPT ![r] = b]
       /\ send' = [send EXCEPT ![r] = [i \in DOMAIN b |-> "none"]]
       /\ watch' = IF watch[r].completed THEN watch
                   ELSE [watch EXCEPT ![r].outcome = [i \in DOMAIN b |-> "no_response"]]
  BY DEF Handle
<1> DEFINE v == watch[r]
           w == IF v.completed THEN v
                ELSE [v EXCEPT !.outcome = [i \in DOMAIN b |-> "no_response"]]
           s == [i \in DOMAIN b |-> "none"]
<1>1. /\ step[r] = "admitted" /\ step' = [step EXCEPT ![r] = "handled"]
      /\ log' = log
  BY DEF Handle
<1>2. ids[r] = <<>> /\ DOMAIN send[r] = {} /\ Watched(v, send[r], log[r])
  <2>1. LogOf(r) /\ step[r] \notin {"handled", "failed"}
    BY <1>1 DEF LogInv
  <2>2. ids[r] = <<>> /\ DOMAIN send[r] = DOMAIN ids[r]
    BY <2>1 DEF LogOf
  <2>3. DOMAIN << >> = {}
    OBVIOUS
  <2> QED BY <2>1, <2>2, <2>3 DEF LogOf
<1>3. IsWatch(v) /\ v.mine = {} /\ v.flying = Cardinality(Flying(v, send[r]))
  BY <1>2 DEF Watched, Emittable, Counts
<1>4. /\ watch'[r] = w /\ send'[r] = s /\ ids'[r] = b /\ step'[r] = "handled"
      /\ DOMAIN watch' = Requests /\ DOMAIN send' = Requests /\ DOMAIN ids' = Requests
  BY <1>1 DEF LogInv, Shape
<1>5. \A q \in Requests \ {r} :
        /\ watch'[q] = watch[q] /\ send'[q] = send[q]
        /\ ids'[q] = ids[q] /\ step'[q] = step[q]
  BY <1>1 DEF LogInv, Shape
<1>6. /\ IsWatch(w) /\ w.mine = {} /\ w.flying = v.flying
      /\ w.completed = v.completed /\ w.delivery = v.delivery
      /\ ~v.completed => w.outcome = [i \in DOMAIN b |-> "no_response"]
  BY <1>3 DEF IsWatch
<1>7. b \in Seq(Nat) /\ DOMAIN s = DOMAIN b /\ \A i \in DOMAIN b : s[i] = "none"
  BY HttpAssumption
<1> HIDE DEF v, w, s
<1>8. Counts(w, s)
  <2>1. w.flying = 0
    BY <1>3, <1>6, NoFlying
  <2>2. IsFiniteSet(w.mine)
    BY <1>6, FS_EmptySet
  <2> QED BY <1>6, <2>1, <2>2, NoFlying DEF Counts
<1>9. Watched(w, s, log[r])
  <2>1. CASE v.completed
    BY <1>2, <1>3, <1>6, <1>8, <2>1, NoFlying DEF Watched, Emittable, Logged
  <2>2. CASE ~v.completed
    BY <1>2, <1>6, <1>7, <1>8, <2>2 DEF Watched, Emittable, Unlogged
  <2> QED BY <2>1, <2>2
<1>10. LogOf(r)'
  BY <1>1, <1>4, <1>7, <1>9 DEF LogOf
<1> QED BY <1>1, <1>4, <1>5, <1>10, OthersKeep DEF LogInv

\* What becomes of a call whose answer is not its record's does not show in a line.
LEMMA StrayAnswer ==
  ASSUME NEW v, NEW s, NEW l, NEW i \in DOMAIN s, NEW e,
         Watched(v, s, l), i \notin v.mine
  PROVE  Watched(v, [s EXCEPT ![i] = e], l)
<1> DEFINE t == [s EXCEPT ![i] = e]
<1>1. DOMAIN t = DOMAIN s /\ \A j \in DOMAIN s \ {i} : t[j] = s[j]
  OBVIOUS
<1> HIDE DEF t
<1>2. Counts(v, s) /\ v.mine \subseteq DOMAIN s
  BY DEF Watched, Emittable, Counts
<1>3. Flying(v, t) = Flying(v, s)
  BY <1>1, <1>2 DEF Flying
<1>4. Counts(v, t)
  BY <1>1, <1>2, <1>3 DEF Counts
<1>5. v.completed => Logged(v, t, l)
  BY <1>1, <1>2, <1>3 DEF Watched, Emittable, Logged
<1>6. ~v.completed => Unlogged(v, t, l)
  BY <1>1, <1>2 DEF Watched, Emittable, Unlogged
<1> QED BY <1>4, <1>5, <1>6 DEF Watched, Emittable, t

\* An answer of its own is on its way from now on.
LEMMA SendLog ==
  ASSUME Shape, LogInv, NEW r \in Requests, NEW i \in DOMAIN ids[r], Send(r, i)
  PROVE  LogInv'
<1> DEFINE v == watch[r]
           s == send[r]
           t == [s EXCEPT ![i] = "sending"]
<1>1. /\ s[i] = "none" /\ step' = step /\ ids' = ids /\ log' = log
      /\ send' = [send EXCEPT ![r] = t]
  BY DEF Send
<1>2. /\ LogOf(r) /\ Watched(v, s, log[r]) /\ i \in DOMAIN s
  BY DEF LogInv, LogOf
<1>3. /\ IsWatch(v) /\ IsFiniteSet(v.mine) /\ v.mine \subseteq DOMAIN s
      /\ \A j \in v.mine : s[j] # "none"
      /\ v.flying = Cardinality(Flying(v, s))
  BY <1>2 DEF Watched, Emittable, Counts
<1>4. i \notin v.mine
  BY <1>1, <1>3
<1>5. DOMAIN t = DOMAIN s /\ t[i] = "sending" /\ \A j \in DOMAIN s \ {i} : t[j] = s[j]
  BY <1>2
<1>6. /\ DOMAIN send' = Requests /\ send'[r] = t
      /\ \A q \in Requests \ {r} : send'[q] = send[q]
  BY <1>1 DEF LogInv
<1>7. ASSUME NEW w, DOMAIN watch' = Requests, watch'[r] = w,
             \A q \in Requests \ {r} : watch'[q] = watch[q], Watched(w, t, log[r])
      PROVE  LogInv'
  <2>1. LogOf(r)'
    BY <1>1, <1>2, <1>5, <1>6, <1>7 DEF LogOf
  <2> QED BY <1>1, <1>6, <1>7, <2>1, OthersKeep DEF LogInv
<1>8. CASE v.completed \/ ~Unique(r, i)
  <2>1. watch' = watch
    BY <1>8 DEF Send
  <2>2. Watched(v, t, log[r])
    BY <1>2, <1>4, StrayAnswer
  <2> HIDE DEF t
  <2> QED BY <1>7, <2>1, <2>2 DEF LogInv
<1>9. CASE ~(v.completed \/ ~Unique(r, i))
  <2> DEFINE w == [v EXCEPT !.outcome = [@ EXCEPT ![i] = "answered"],
                            !.mine = @ \union {i}, !.flying = @ + 1]
  <2>1. watch' = [watch EXCEPT ![r].outcome[i] = "answered",
                               ![r].mine = @ \union {i}, ![r].flying = @ + 1]
    BY <1>9 DEF Send
  <2>2. /\ DOMAIN watch' = Requests /\ watch'[r] = w
        /\ \A q \in Requests \ {r} : watch'[q] = watch[q]
    BY <2>1 DEF LogInv
  <2>3. /\ IsWatch(w) /\ w.mine = v.mine \union {i} /\ w.flying = v.flying + 1
        /\ w.outcome = [v.outcome EXCEPT ![i] = "answered"]
        /\ w.completed = v.completed /\ w.delivery = v.delivery
    BY <1>3, AnswerWatch
  <2> HIDE DEF v, s, t, w
  <2>4. Flying(w, t) = Flying(v, s) \union {i} /\ i \notin Flying(v, s)
    BY <1>3, <1>4, <1>5, <2>3 DEF Flying
  <2>5. Counts(w, t)
    <3>1. IsFiniteSet(w.mine)
      BY <1>3, <2>3, FS_AddElement
    <3>2. IsFiniteSet(Flying(v, s))
      BY <1>3, FS_Subset DEF Flying
    <3>3. Cardinality(Flying(w, t)) = w.flying
      BY <1>3, <2>3, <2>4, <3>2, FS_AddElement
    <3>4. w.mine \subseteq DOMAIN t /\ \A j \in w.mine : t[j] # "none"
      BY <1>2, <1>3, <1>4, <1>5, <2>3
    <3> QED BY <2>3, <3>1, <3>3, <3>4 DEF Counts
  <2>6. Unlogged(v, s, log[r]) /\ v.delivery # "aborted" /\ ~w.completed
    BY <1>2, <1>9, <2>3 DEF Watched, Emittable
  <2>7. Unlogged(w, t, log[r])
    <3>1. DOMAIN w.outcome = DOMAIN t /\ log[r] = <<>>
      BY <1>5, <2>3, <2>6 DEF Unlogged
    <3>2. ASSUME NEW j \in DOMAIN t
          PROVE  w.outcome[j] # "no_response"
                   <=> w.delivery # "aborted" /\ j \in w.mine /\ t[j] \in {"sending", "sent"}
      <4>1. CASE j = i
        BY <1>2, <1>5, <2>3, <2>6, <4>1 DEF Unlogged
      <4>2. CASE j # i
        BY <1>5, <2>3, <2>6, <4>2 DEF Unlogged
      <4> QED BY <4>1, <4>2
    <3> QED BY <3>1, <3>2 DEF Unlogged
  <2>8. Watched(w, t, log[r])
    BY <2>3, <2>5, <2>6, <2>7 DEF Watched, Emittable
  <2> QED BY <1>7, <2>2, <2>8
<1> QED BY <1>8, <1>9

\* A send ends: nothing that was logged depended on it.
LEMMA SettleLog ==
  ASSUME LogInv, NEW r \in Requests, NEW i \in DOMAIN ids[r],
         NEW e \in {"sent", "failed"}, Settle(r, i, e)
  PROVE  LogInv'
<1> DEFINE v == watch[r]
           s == send[r]
           t == [s EXCEPT ![i] = e]
<1>1. /\ s[i] = "sending" /\ step' = step /\ ids' = ids
      /\ send' = [send EXCEPT ![r] = t]
  BY DEF Settle
<1>2. /\ LogOf(r) /\ Watched(v, s, log[r]) /\ i \in DOMAIN s
  BY DEF LogInv, LogOf
<1>3. /\ IsWatch(v) /\ IsFiniteSet(v.mine) /\ v.mine \subseteq DOMAIN s
      /\ \A j \in v.mine : s[j] # "none"
      /\ v.flying = Cardinality(Flying(v, s))
  BY <1>2 DEF Watched, Emittable, Counts
<1>4. DOMAIN t = DOMAIN s /\ t[i] = e /\ \A j \in DOMAIN s \ {i} : t[j] = s[j]
  BY <1>2
<1>5. /\ DOMAIN send' = Requests /\ send'[r] = t
      /\ \A q \in Requests \ {r} : send'[q] = send[q]
  BY <1>1 DEF LogInv
<1>6. CASE i \notin v.mine
  <2>1. watch' = watch /\ log' = log
    BY <1>6 DEF Settle
  <2>2. Watched(v, t, log[r])
    BY <1>2, <1>6, StrayAnswer
  <2> HIDE DEF t
  <2>3. LogOf(r)'
    BY <1>1, <1>2, <1>4, <1>5, <2>1, <2>2 DEF LogOf
  <2> QED BY <1>1, <1>5, <2>1, <2>3, OthersKeep DEF LogInv
<1>7. CASE i \in v.mine
  <2> DEFINE w == Settled(v, i, e)
  <2>1. emit(r, w)
    BY <1>7 DEF Settle, Settled
  <2> HIDE DEF v, s, t
  <2>2. /\ IsWatch(w) /\ w.mine = v.mine /\ w.flying = v.flying - 1
        /\ w.outcome = [v.outcome EXCEPT ![i] =
                          IF e = "failed" THEN "no_response" ELSE v.outcome[i]]
        /\ w.completed = v.completed /\ w.delivery = v.delivery
    <3> PICK u : u = Settled(v, i, e)
      OBVIOUS
    <3>1. /\ IsWatch(u) /\ u.mine = v.mine /\ u.flying = v.flying - 1
          /\ u.outcome = [v.outcome EXCEPT ![i] =
                            IF e = "failed" THEN "no_response" ELSE v.outcome[i]]
          /\ u.completed = v.completed /\ u.delivery = v.delivery
      BY <1>3 DEF IsWatch, Settled
    <3> QED BY <3>1
  <2> HIDE DEF w
  <2>3. i \in Flying(v, s) /\ Flying(w, t) = Flying(v, s) \ {i}
    BY <1>1, <1>3, <1>4, <1>7, <2>2 DEF Flying
  <2>4. Counts(w, t)
    <3>1. IsFiniteSet(Flying(v, s))
      BY <1>3, FS_Subset DEF Flying
    <3>2. Cardinality(Flying(w, t)) = w.flying
      BY <1>3, <2>2, <2>3, <3>1, FS_RemoveElement
    <3>3. w.mine \subseteq DOMAIN t /\ \A j \in w.mine : t[j] # "none"
      BY <1>3, <1>4, <2>2
    <3> QED BY <1>3, <2>2, <3>2, <3>3 DEF Counts
  <2>5. Emittable(w, t, log[r])
    <3>1. CASE w.completed
      <4>1. Logged(v, s, log[r])
        BY <1>2, <2>2, <3>1 DEF Watched, Emittable
      <4>2. log[r][1].delivery # "finished"
        BY <2>3, <4>1 DEF Logged
      <4>3. Logged(w, t, log[r])
        BY <4>1, <4>2 DEF Logged
      <4> QED BY <2>4, <3>1, <4>3 DEF Emittable
    <3>2. CASE ~w.completed
      <4>1. Unlogged(v, s, log[r]) /\ v.delivery # "aborted"
        BY <1>2, <2>2, <3>2 DEF Watched, Emittable
      <4>2. DOMAIN w.outcome = DOMAIN t /\ log[r] = <<>> /\ DOMAIN v.outcome = DOMAIN s
        BY <1>4, <2>2, <4>1 DEF Unlogged
      <4>3. ASSUME NEW j \in DOMAIN t
            PROVE  w.outcome[j] # "no_response"
                     <=> w.delivery # "aborted" /\ j \in w.mine /\ t[j] \in {"sending", "sent"}
        <5>1. CASE j = i
          <6>1. v.outcome[i] # "no_response"
            BY <1>1, <1>2, <1>7, <4>1 DEF Unlogged
          <6> QED BY <1>2, <1>4, <1>7, <2>2, <4>1, <4>2, <5>1, <6>1
        <5>2. CASE j # i
          BY <1>4, <2>2, <4>1, <4>2, <5>2 DEF Unlogged
        <5> QED BY <5>1, <5>2
      <4>4. Unlogged(w, t, log[r])
        BY <4>2, <4>3 DEF Unlogged
      <4> QED BY <2>4, <3>2, <4>4 DEF Emittable
    <3> QED BY <3>1, <3>2
  <2>6. DOMAIN send'[r] = DOMAIN send[r]
    BY <1>4, <1>5 DEF s
  <2> QED BY <1>1, <1>5, <2>1, <2>5, <2>6, EmitLog
<1> QED BY <1>6, <1>7

LEMMA NextLog == Shape /\ LogInv /\ [Next]_vars => LogInv'
<1> SUFFICES ASSUME Shape, LogInv, [Next]_vars PROVE LogInv'
  OBVIOUS
<1>1. ASSUME NEW r \in Requests,
             \/ Arrive(r) \/ BodyFails(r) \/ Refuse(r) \/ Admit(r)
             \/ HandlerFails(r) \/ EndResponse(r)
      PROVE  LogInv'
  <2>1. /\ ids' = ids /\ send' = send /\ watch' = watch /\ log' = log
        /\ \/ step' = step
           \/ step' = [step EXCEPT ![r] = "failed"]
           \/ /\ step[r] \in {"none", "parsing"}
              /\ \E s \in Steps : step' = [step EXCEPT ![r] = s]
    BY <1>1 DEF Arrive, BodyFails, Refuse, Admit, CountRequest, HandlerFails, EndResponse, Steps
  <2> QED BY <2>1, QuietLog
<1>2. ASSUME NEW r \in Requests, Handle(r) PROVE LogInv'
  BY <1>2, HandleLog
<1>3. ASSUME NEW r \in Requests, Answer(r) PROVE LogInv'
  BY <1>3, SendLog, SettleLog DEF Answer
<1>4. ASSUME NEW r \in Requests, Finish(r) \/ Close(r) \/ Error(r) PROVE LogInv'
  BY <1>4, FinishLog, AbortLog DEF Finish, Close, Error
<1>5. ASSUME begin \/ finish \/ UNCHANGED vars PROVE LogInv'
  BY <1>5, QuietLog DEF begin, finish, vars
<1> QED BY <1>1, <1>2, <1>3, <1>4, <1>5 DEF Next

-----------------------------------------------------------------------------
(* What an unlogged end waits for *)

Ended == {"finished"} \union Over

\* A response that is over has told its watch, which keeps its line back for sends
\* alone.
EndOf(w, p) ==
  ~w.completed =>
    /\ p \in Ended => w.delivery = "finished"
    /\ w.delivery = "finished" => w.flying > 0

EndInv == \A r \in Requests : EndOf(watch[r], response[r])

\* After emit, whatever became of the response, if its event is what led to it.
LEMMA EmitEnds ==
  ASSUME LogInv, EndInv, NEW r \in Requests, NEW w, emit(r, w), w.flying \in Int,
         w.delivery \in {"none", "finished", "aborted"},
         \A q \in Requests \ {r} : response'[q] = response[q],
         ~w.completed /\ response'[r] \in Ended => w.delivery # "none"
  PROVE  EndInv'
<1>1. \A q \in Requests \ {r} : watch'[q] = watch[q]
  BY DEF LogInv, emit
<1>2. EndOf(watch'[r], response'[r])
  <2>1. CASE Emits(w)
    <3>1. watch'[r] = [w EXCEPT !.completed = TRUE]
      BY <2>1 DEF LogInv, emit
    <3> QED BY <3>1 DEF EndOf
  <2>2. CASE ~Emits(w)
    <3>1. watch'[r] = w
      BY <2>2 DEF LogInv, emit
    <3> QED BY <2>2, <3>1 DEF EndOf, Emits
  <2> QED BY <2>1, <2>2
<1> QED BY <1>1, <1>2 DEF EndInv

\* What a watch holds, and what it counts.
LEMMA WatchType ==
  ASSUME LogInv, NEW r \in Requests
  PROVE  /\ IsWatch(watch[r]) /\ watch[r].flying \in Nat
         /\ watch[r].flying = Cardinality(Flying(watch[r], send[r]))
         /\ IsFiniteSet(Flying(watch[r], send[r]))
         /\ watch[r].mine \subseteq DOMAIN ids[r]
<1>1. Counts(watch[r], send[r]) /\ DOMAIN send[r] = DOMAIN ids[r]
  BY DEF LogInv, LogOf, Watched, Emittable
<1>2. IsFiniteSet(Flying(watch[r], send[r]))
  BY <1>1, FS_Subset DEF Counts, Flying
<1> QED BY <1>1, <1>2, FS_CardinalityType DEF Counts

\* No step leaves the end of a response unlogged with nothing on its way.
LEMMA NextEnd == Shape /\ LogInv /\ EndInv /\ [Next]_vars => EndInv'
<1> SUFFICES ASSUME Shape, LogInv, EndInv, [Next]_vars PROVE EndInv'
  OBVIOUS
<1>1. ASSUME NEW r \in Requests, Finish(r) PROVE EndInv'
  <2> DEFINE w == [watch[r] EXCEPT !.delivery = "finished"]
  <2>1. /\ w.delivery = "finished" /\ w.flying = watch[r].flying
    BY WatchType DEF IsWatch
  <2>2. emit(r, w) /\ \A q \in Requests \ {r} : response'[q] = response[q]
    BY <1>1 DEF Finish, onFinish, Shape
  <2> HIDE DEF w
  <2> QED BY <2>1, <2>2, WatchType, EmitEnds
<1>2. ASSUME NEW r \in Requests, onAbort(r),
             \A q \in Requests \ {r} : response'[q] = response[q]
      PROVE  EndInv'
  <2> DEFINE w == [watch[r] EXCEPT !.delivery = "aborted",
                                   !.outcome = [i \in DOMAIN @ |-> "no_response"]]
  <2>1. w.delivery = "aborted" /\ w.flying = watch[r].flying
    BY WatchType, AbortWatch
  <2>2. emit(r, w)
    BY <1>2 DEF onAbort
  <2> HIDE DEF w
  <2> QED BY <1>2, <2>1, <2>2, WatchType, EmitEnds
<1>3. ASSUME NEW r \in Requests, Close(r) PROVE EndInv'
  <2>1. \A q \in Requests \ {r} : response'[q] = response[q]
    BY <1>3 DEF Close, Shape
  <2>2. CASE response[r] = "finished"
    <3> DEFINE w == [watch[r] EXCEPT !.delivery = "finished"]
    <3>1. w.delivery = "finished" /\ w.flying = watch[r].flying
      BY WatchType DEF IsWatch
    <3>2. emit(r, w)
      BY <1>3, <2>2 DEF Close, onFinish
    <3> HIDE DEF w
    <3> QED BY <2>1, <3>1, <3>2, WatchType, EmitEnds
  <2>3. CASE response[r] # "finished"
    BY <1>2, <1>3, <2>1, <2>3 DEF Close
  <2> QED BY <2>2, <2>3
<1>4. ASSUME NEW r \in Requests, Error(r) PROVE EndInv'
  BY <1>2, <1>4 DEF Error
<1>5. ASSUME NEW r \in Requests, NEW i \in DOMAIN ids[r],
             NEW e \in {"sent", "failed"}, Settle(r, i, e)
      PROVE  EndInv'
  <2>1. CASE i \notin watch[r].mine
    BY <1>5, <2>1 DEF Settle, EndInv
  <2>2. CASE i \in watch[r].mine
    <3> DEFINE w == Settled(watch[r], i, e)
    <3>1. emit(r, w) /\ response' = response
      BY <1>5, <2>2 DEF Settle, Settled
    <3>2. /\ w.delivery = watch[r].delivery /\ w.flying = watch[r].flying - 1
          /\ w.completed = watch[r].completed
      BY WatchType DEF IsWatch, Settled
    <3>3. EndOf(watch[r], response[r])
      BY DEF EndInv
    <3> HIDE DEF w
    <3>4. w.delivery \in {"none", "finished", "aborted"} /\ w.flying \in Int
      <4>1. watch[r].delivery \in {"none", "finished", "aborted"}
        BY WatchType DEF IsWatch
      <4>2. watch[r].flying \in Nat
        BY WatchType
      <4> QED BY <3>2, <4>1, <4>2
    <3>5. ~w.completed /\ response'[r] \in Ended => w.delivery # "none"
      BY <3>1, <3>2, <3>3 DEF EndOf
    <3> QED BY <3>1, <3>4, <3>5, EmitEnds
  <2> QED BY <2>1, <2>2
<1>6. ASSUME NEW r \in Requests, NEW i \in DOMAIN ids[r], Send(r, i)
      PROVE  EndInv'
  <2>1. response' = response /\ \A q \in Requests \ {r} : watch'[q] = watch[q]
    BY <1>6 DEF Send, LogInv
  <2>2. \/ watch'[r] = watch[r]
        \/ /\ watch'[r].flying = watch[r].flying + 1
           /\ watch'[r].completed = watch[r].completed
           /\ watch'[r].delivery = watch[r].delivery
    <3>1. CASE watch[r].completed \/ ~Unique(r, i)
      BY <1>6, <3>1 DEF Send
    <3>2. CASE ~(watch[r].completed \/ ~Unique(r, i))
      <4> DEFINE w == [watch[r] EXCEPT !.outcome = [@ EXCEPT ![i] = "answered"],
                                       !.mine = @ \union {i}, !.flying = @ + 1]
      <4>1. watch' = [watch EXCEPT ![r].outcome[i] = "answered",
                                   ![r].mine = @ \union {i}, ![r].flying = @ + 1]
        BY <1>6, <3>2 DEF Send
      <4>2. watch'[r] = w
        BY <4>1 DEF LogInv
      <4>3. /\ w.flying = watch[r].flying + 1 /\ w.completed = watch[r].completed
            /\ w.delivery = watch[r].delivery
        BY WatchType, AnswerWatch
      <4> HIDE DEF w
      <4> QED BY <4>2, <4>3
    <3> QED BY <3>1, <3>2
  <2> QED BY <2>1, <2>2, WatchType DEF EndInv, EndOf
<1>7. ASSUME NEW r \in Requests, Handle(r) PROVE EndInv'
  <2>1. PICK b \in Batches[r] :
          watch' = IF watch[r].completed THEN watch
                   ELSE [watch EXCEPT ![r].outcome = [i \in DOMAIN b |-> "no_response"]]
    BY <1>7 DEF Handle
  <2>2. response' = response /\ \A q \in Requests \ {r} : watch'[q] = watch[q]
    BY <1>7, <2>1 DEF Handle, LogInv
  <2>3. /\ watch'[r].flying = watch[r].flying
        /\ watch'[r].completed = watch[r].completed
        /\ watch'[r].delivery = watch[r].delivery
    BY <2>1, WatchType DEF LogInv, IsWatch
  <2> QED BY <2>2, <2>3 DEF EndInv, EndOf
<1>8. CASE \/ \E r \in Requests : \/ Arrive(r) \/ BodyFails(r) \/ Refuse(r) \/ Admit(r)
                                  \/ HandlerFails(r) \/ EndResponse(r)
           \/ begin \/ finish \/ UNCHANGED vars
  <2>1. watch' = watch /\ \A q \in Requests : response'[q] \in Ended => response[q] \in Ended
    BY <1>8 DEF Arrive, BodyFails, Refuse, Admit, CountRequest, HandlerFails, EndResponse,
                EndOpen, begin, finish, vars, Shape, Ended, Over
  <2> QED BY <2>1 DEF EndInv, EndOf
<1> QED BY <1>1, <1>3, <1>4, <1>5, <1>6, <1>7, <1>8 DEF Next, Answer

\* At first no response is over.
LEMMA InitEnd == Init => EndInv
BY DEF Init, EndInv, EndOf, Unwatched, Ended, Over

-----------------------------------------------------------------------------
(* The theorems *)

\* httpLimits.ts: each slot is given back once, and no more are given than there
\* are, for any number of requests and any order of events.
THEOREM SlotsStayExact == Spec => []SlotsAreExact
<1>1. SlotInv => SlotsAreExact
  BY DEF SlotInv, SlotsAreExact
<1> QED BY <1>1, InitSlots, NextSlots, PTL DEF Spec

\* httpCompletion.ts: what is logged of a call is what became of it, for batches of
\* any length, ids that repeat and any order of answers and events.
THEOREM LinesTellDelivery == Spec => []LoggedAsDelivered
<1>1. LogInv => LoggedAsDelivered
  <2> SUFFICES ASSUME LogInv, NEW r \in Requests
               PROVE  /\ Len(log[r]) <= 1
                      /\ \A n \in DOMAIN log[r] : \A i \in DOMAIN log[r][n].outcome :
                           log[r][n].outcome[i] # "no_response"
                             <=> /\ log[r][n].delivery = "finished"
                                 /\ i \in watch[r].mine /\ send[r][i] = "sent"
    BY DEF LoggedAsDelivered
  <2>1. Watched(watch[r], send[r], log[r])
    BY DEF LogInv, LogOf
  <2>2. CASE ~watch[r].completed
    <3>1. log[r] = <<>>
      BY <2>1, <2>2 DEF Watched, Emittable, Unlogged
    <3> QED BY <3>1
  <2>3. CASE watch[r].completed
    <3>1. Logged(watch[r], send[r], log[r])
      BY <2>1, <2>3 DEF Watched, Emittable
    <3>2. DOMAIN log[r] = {1}
      BY <3>1 DEF Logged
    <3> QED BY <3>1, <3>2 DEF Logged
  <2> QED BY <2>2, <2>3
<1> QED BY <1>1, InitSlots, NextSlots, InitLog, NextLog, PTL DEF Spec

\* An end without its lines has an answer of its own on its way.
EndWaitsForSend ==
  \A r \in Requests :
    response[r] \in Ended /\ log[r] = <<>> =>
      \E i \in DOMAIN ids[r] : i \in watch[r].mine /\ send[r][i] = "sending"

\* httpCompletion.ts, emit: the lines of a response that is over, in whatever way,
\* are out, or a send that the watch counts is still on its way: nothing else keeps
\* them back, and that send's end will look again.
THEOREM OnlySendsKeepLinesBack == Spec => []EndWaitsForSend
<1>1. LogInv /\ EndInv => EndWaitsForSend
  <2> SUFFICES ASSUME LogInv, EndInv, NEW r \in Requests,
                      response[r] \in Ended, log[r] = <<>>
               PROVE  \E i \in DOMAIN ids[r] : i \in watch[r].mine /\ send[r][i] = "sending"
    BY DEF EndWaitsForSend
  <2>1. ~watch[r].completed
    BY DEF LogInv, LogOf, Watched, Emittable, Logged
  <2>2. watch[r].flying > 0
    BY <2>1 DEF EndInv, EndOf
  <2>3. Flying(watch[r], send[r]) # {}
    BY <2>2, WatchType, FS_EmptySet
  <2> QED BY <2>3, WatchType DEF Flying
<1> QED BY <1>1, InitSlots, NextSlots, InitLog, NextLog, InitEnd, NextEnd, PTL DEF Spec
=============================================================================
