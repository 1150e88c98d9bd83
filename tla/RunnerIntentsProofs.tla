------------------------ MODULE RunnerIntentsProofs ------------------------
(***************************************************************************)
(* Proofs about RunnerIntents.  What every runner guarantees (counters     *)
(* follow the backend) is shown for both ways of saving the state; that no *)
(* trade is placed twice, for the runners whose identity is on record      *)
(* before their first write; that counters never go back, for the          *)
(* self-hosted runner, which is alone.                                     *)
(***************************************************************************)
EXTENDS RunnerIntents, TLAPS

Key(id, i, n) == [id |-> id, intent |-> i, seq |-> n]

(* Every write a counter counts is among those done under its identity.     *)
Counts(id, seq, done) ==
  \A i \in Intents : \A n \in 0 .. MaxSeq :
    n < seq[i] => Key(id, i, n) \in done

(* The write before a key is done.                                          *)
Follows(k, done) == k.seq > 0 => Key(k.id, k.intent, k.seq - 1) \in done

InOrder ==
  /\ Counts(saved.id, saved.seq, executed)
  /\ saved.id = 0 => saved.seq = NoCounts
  /\ \A p \in Runners : ~Idle(p) => Counts(run[p].id, run[p].seq, executed)
  /\ \A k \in sent \cup executed : Follows(k, executed)

(* All work is done under the identity on record.                           *)
OneIdentity ==
  /\ FileBacked \/ saved.id # 0
  /\ \A p \in Runners : ~Idle(p) => run[p].id = saved.id
  /\ \A k \in sent \cup executed : k.id = saved.id

(* The self-hosted runner is alone, and ahead of what it saved.             *)
Alone ==
  /\ \A p, q \in Runners : ~Idle(p) /\ ~Idle(q) => p = q
  /\ \A p \in Runners : ~Idle(p) =>
       /\ run[p].id = saved.id
       /\ \A i \in Intents : run[p].seq[i] >= saved.seq[i]

RunStates == [step : {"idle", "deciding", "waiting"}, id : 1 .. MaxIds,
              seq : Counters, intent : Intents]

(* A counter is below its bound while a write of it waits for an answer.    *)
Typed ==
  /\ TypeOK
  /\ \A p \in Runners :
       run[p].step = "waiting" => run[p].seq[run[p].intent] < MaxSeq

-----------------------------------------------------------------------------
(* Types *)

(* Everything starts well typed.                                            *)
LEMMA InitTypes == Init => Typed
<1> SUFFICES ASSUME Init PROVE Typed
  OBVIOUS
<1>1. NoCounts \in Counters /\ 1 \in 1 .. MaxIds /\ 1 \in 0 .. MaxIds /\ 0 \in 0 .. MaxIds
  BY IntentAssumption DEF NoCounts, Counters
<1>2. saved \in [id : 0 .. MaxIds, seq : Counters] /\ minted \in 0 .. MaxIds
  BY <1>1 DEF Init
<1>3. PICK i \in Intents :
        run = [p \in Runners |->
                 [step |-> "idle", id |-> 1, seq |-> NoCounts, intent |-> i]]
  BY DEF Init
<1>4. [step |-> "idle", id |-> 1, seq |-> NoCounts, intent |-> i] \in RunStates
  BY <1>1 DEF RunStates
<1>5. run \in [Runners -> RunStates]
  BY <1>3, <1>4
<1> QED BY <1>2, <1>3, <1>5 DEF Init, Typed, TypeOK, RunStates

(* One runner's state changes; no other does.                               *)
LEMMA RunChanges ==
  ASSUME TypeOK, NEW p \in Runners, NEW v \in RunStates,
         run' = [run EXCEPT ![p] = v]
  PROVE  /\ run' \in [Runners -> RunStates]
         /\ run'[p] = v
         /\ \A q \in Runners : q # p => run'[q] = run[q]
BY DEF TypeOK, RunStates

(* A key of a runner is well formed.                                        *)
LEMMA KeyType ==
  ASSUME TypeOK, NEW p \in Runners, NEW i \in Intents
  PROVE  /\ KeyOf(p, i) \in Keys
         /\ KeyOf(p, i) = Key(run[p].id, i, run[p].seq[i])
BY DEF TypeOK, Counters, Keys, KeyOf, Key

(* A confirmed write counts one more of its intent.                         *)
LEMMA ConfirmedState ==
  ASSUME Typed, NEW p \in Runners, ConfirmWrite(p)
  PROVE  \E v \in RunStates :
           /\ run' = [run EXCEPT ![p] = v]
           /\ v.step = "deciding" /\ v.id = run[p].id
           /\ v.seq = Advanced(p)
<1> DEFINE i == run[p].intent
           v == [step |-> "deciding", id |-> run[p].id, seq |-> Advanced(p),
                 intent |-> i]
<1>1. /\ i \in Intents /\ run[p].id \in 1 .. MaxIds
      /\ run[p].seq \in Counters /\ run[p].seq[i] < MaxSeq
  BY DEF Typed, TypeOK, ConfirmWrite
<1>2. run[p].seq[i] \in 0 .. MaxSeq /\ run[p].seq[i] + 1 \in 0 .. MaxSeq
  BY <1>1, IntentAssumption DEF Counters
<1>3. Advanced(p) \in Counters
  BY <1>1, <1>2 DEF Counters, Advanced
<1>4. v \in RunStates
  BY <1>1, <1>3 DEF RunStates
<1>5. run' = [run EXCEPT ![p] = v]
  BY DEF ConfirmWrite, Typed, TypeOK
<1> HIDE DEF v
<1>6. v.step = "deciding" /\ v.id = run[p].id /\ v.seq = Advanced(p)
  BY DEF v
<1> QED BY <1>4, <1>5, <1>6

(* A runner that stops a cycle, or goes on, keeps identity and counters.    *)
LEMMA StepState ==
  ASSUME Typed, NEW p \in Runners, NEW s \in {"idle", "deciding"},
         run' = [run EXCEPT ![p] = [run[p] EXCEPT !.step = s]]
  PROVE  /\ run' \in [Runners -> RunStates]
         /\ run'[p].step = s /\ run'[p].id = run[p].id /\ run'[p].seq = run[p].seq
         /\ \A q \in Runners : q # p => run'[q] = run[q]
<1> DEFINE v == [run[p] EXCEPT !.step = s]
<1>1. TypeOK /\ run[p] \in RunStates
  BY DEF Typed, TypeOK, RunStates
<1>2. v \in RunStates /\ v.step = s /\ v.id = run[p].id /\ v.seq = run[p].seq
  BY <1>1 DEF RunStates
<1>3. run' = [run EXCEPT ![p] = v]
  OBVIOUS
<1> HIDE DEF v
<1> QED BY <1>1, <1>2, <1>3, RunChanges

(* A runner that sends a write keeps identity and counters, too.            *)
LEMMA SendState ==
  ASSUME Typed, NEW p \in Runners, NEW i \in Intents, SendWrite(p, i)
  PROVE  /\ run' \in [Runners -> RunStates]
         /\ run'[p].step = "waiting" /\ run'[p].id = run[p].id
         /\ run'[p].seq = run[p].seq /\ run'[p].intent = i
         /\ \A q \in Runners : q # p => run'[q] = run[q]
<1> DEFINE v == [run[p] EXCEPT !.step = "waiting", !.intent = i]
<1>1. TypeOK /\ run[p] \in RunStates
  BY DEF Typed, TypeOK, RunStates
<1>2. /\ v \in RunStates /\ v.step = "waiting" /\ v.id = run[p].id
      /\ v.seq = run[p].seq /\ v.intent = i
  BY <1>1 DEF RunStates
<1>3. run' = [run EXCEPT ![p] = v]
  BY <1>1 DEF SendWrite, TypeOK
<1> HIDE DEF v
<1> QED BY <1>1, <1>2, <1>3, RunChanges

(* A cycle starts on the saved state.                                       *)
LEMMA StartState ==
  ASSUME Typed, NEW p \in Runners, StartCycle(p)
  PROVE  /\ StartId \in 1 .. MaxIds
         /\ run' \in [Runners -> RunStates]
         /\ run'[p].step = "deciding" /\ run'[p].id = StartId
         /\ run'[p].seq = saved.seq
         /\ \A q \in Runners : q # p => run'[q] = run[q]
<1> DEFINE v == [step |-> "deciding", id |-> StartId, seq |-> saved.seq,
                 intent |-> run[p].intent]
<1>1. TypeOK /\ StartId \in 1 .. MaxIds
  BY DEF Typed, TypeOK, StartCycle, StartId
<1>2. v \in RunStates
  BY <1>1 DEF TypeOK, RunStates
<1>3. v.step = "deciding" /\ v.id = StartId /\ v.seq = saved.seq
  OBVIOUS
<1>4. run' = [run EXCEPT ![p] = v]
  BY <1>1 DEF StartCycle, TypeOK
<1> HIDE DEF v
<1> QED BY <1>1, <1>2, <1>3, <1>4, RunChanges

(* Every step keeps the types.                                              *)
LEMMA NextTypes == Typed /\ [Next]_vars => Typed'
<1> SUFFICES ASSUME Typed, [Next]_vars PROVE Typed'
  OBVIOUS
<1> USE IntentAssumption
<1>a. TypeOK /\ \A p \in Runners : run[p] \in RunStates
  BY DEF Typed, TypeOK, RunStates
<1>b. ASSUME NEW p \in Runners,
             run' \in [Runners -> RunStates],
             run'[p].step # "waiting",
             \A q \in Runners : q # p => run'[q] = run[q],
             saved' \in [id : 0 .. MaxIds, seq : Counters],
             sent' \in SUBSET Keys, executed' \in SUBSET Keys,
             minted' \in 0 .. MaxIds
      PROVE  Typed'
  BY <1>b DEF Typed, TypeOK, RunStates
<1>1. ASSUME NEW p \in Runners, StartCycle(p)
      PROVE  Typed'
  <2>a. StartId \in 0 .. MaxIds
    BY <1>1, StartState
  <2>1. minted' \in 0 .. MaxIds
    BY <1>a, <1>1, <2>a DEF StartCycle, TypeOK
  <2>2. saved' \in [id : 0 .. MaxIds, seq : Counters]
    BY <1>a, <1>1, <2>a DEF StartCycle, Established, TypeOK
  <2> QED BY <1>a, <1>b, <1>1, <2>1, <2>2, StartState DEF TypeOK, StartCycle
<1>2. ASSUME NEW p \in Runners, NEW i \in Intents, SendWrite(p, i)
      PROVE  Typed'
  <2>1. sent' \in SUBSET Keys
    BY <1>a, <1>2, KeyType DEF SendWrite, TypeOK
  <2>2. run[p].seq[i] < MaxSeq
    BY <1>2 DEF SendWrite
  <2>3. TypeOK'
    BY <1>a, <1>2, <2>1, SendState DEF TypeOK, RunStates, SendWrite
  <2> QED BY <1>2, <2>2, <2>3, SendState DEF Typed
<1>3. ASSUME NEW p \in Runners, ConfirmWrite(p)
      PROVE  Typed'
  <2>1. PICK v \in RunStates : run' = [run EXCEPT ![p] = v] /\ v.step = "deciding"
    BY <1>3, ConfirmedState
  <2> QED BY <1>a, <1>b, <1>3, <2>1, RunChanges DEF TypeOK, ConfirmWrite
<1>4. ASSUME NEW p \in Runners, WriteUnconfirmed(p)
      PROVE  Typed'
  <2>1. run' = [run EXCEPT ![p] = [run[p] EXCEPT !.step = "deciding"]]
    BY <1>a, <1>4 DEF WriteUnconfirmed, TypeOK
  <2> QED BY <1>a, <1>b, <1>4, <2>1, StepState DEF TypeOK, WriteUnconfirmed
<1>5. ASSUME NEW p \in Runners, EndCycle(p)
      PROVE  Typed'
  <2>1. run' = [run EXCEPT ![p] = [run[p] EXCEPT !.step = "idle"]]
    BY <1>a, <1>5 DEF EndCycle, AsIdle, TypeOK
  <2>2. saved' \in [id : 0 .. MaxIds, seq : Counters]
    BY <1>a, <1>5 DEF EndCycle, Result, RunStates
  <2> QED BY <1>a, <1>b, <1>5, <2>1, <2>2, StepState DEF TypeOK, EndCycle
<1>6. ASSUME NEW p \in Runners, Crash(p)
      PROVE  Typed'
  <2>1. run' = [run EXCEPT ![p] = [run[p] EXCEPT !.step = "idle"]]
    BY <1>a, <1>6 DEF Crash, AsIdle, TypeOK
  <2> QED BY <1>a, <1>b, <1>6, <2>1, StepState DEF TypeOK, Crash
<1>7. ASSUME NEW k \in sent, Execute(k)
      PROVE  Typed'
  BY <1>7 DEF Typed, TypeOK, Execute
<1>8. CASE UNCHANGED vars
  BY <1>8 DEF Typed, TypeOK, vars
<1>9. ASSUME WasteId
      PROVE  Typed'
  BY <1>9 DEF Typed, TypeOK, WasteId
<1> QED BY <1>1, <1>2, <1>3, <1>4, <1>5, <1>6, <1>7, <1>8, <1>9
       DEF Next, RunnerStep

-----------------------------------------------------------------------------
(* Counters and the backend *)

(* What was done stays done.                                                *)
LEMMA Done ==
  ASSUME NEW d, NEW e, d \subseteq e
  PROVE  /\ \A id, seq : Counts(id, seq, d) => Counts(id, seq, e)
         /\ \A k : Follows(k, d) => Follows(k, e)
         /\ \A id : Counts(id, NoCounts, d)
<1>1. \A id : Counts(id, NoCounts, d)
  BY IntentAssumption DEF Counts, NoCounts
<1>2. \A id, seq : Counts(id, seq, d) => Counts(id, seq, e)
  BY Zenon DEF Counts
<1>3. \A k : Follows(k, d) => Follows(k, e)
  BY Zenon DEF Follows
<1> QED BY <1>1, <1>2, <1>3

(* A step of one runner that neither saves nor executes keeps the order     *)
(* when what it counts, and what it sends, is in order.                     *)
LEMMA RunnerInOrder ==
  ASSUME InOrder, NEW p \in Runners, UNCHANGED <<saved, executed>>,
         \A q \in Runners : q # p => run'[q] = run[q],
         Idle(p)' \/ Counts(run'[p].id, run'[p].seq, executed),
         \A k \in sent' : k \in sent \/ Follows(k, executed)
  PROVE  InOrder'
<1>1. \A q \in Runners : ~Idle(q)' => Counts(run'[q].id, run'[q].seq, executed)
  BY DEF InOrder, Idle
<1>2. \A k \in sent' \cup executed : Follows(k, executed)
  BY DEF InOrder
<1> QED BY <1>1, <1>2 DEF InOrder

(* A confirmed counter counts one more executed write.                      *)
LEMMA ConfirmCounts ==
  ASSUME Typed, NEW p \in Runners, ConfirmWrite(p),
         Counts(run[p].id, run[p].seq, executed)
  PROVE  Counts(run[p].id, Advanced(p), executed)
<1> DEFINE j == run[p].intent
<1>1. run[p].seq \in Counters /\ j \in Intents /\ TypeOK
  BY DEF Typed, TypeOK
<1>2. Key(run[p].id, j, run[p].seq[j]) \in executed
  BY <1>1, KeyType DEF ConfirmWrite, Confirmed
<1>3. ASSUME NEW i \in Intents, NEW n \in 0 .. MaxSeq, n < Advanced(p)[i]
      PROVE  Key(run[p].id, i, n) \in executed
  <2>1. \A m \in Intents : run[p].seq[m] \in 0 .. MaxSeq
    BY <1>1 DEF Counters
  <2>2. Advanced(p)[i] = IF i = j THEN run[p].seq[i] + 1 ELSE run[p].seq[i]
    BY <1>1 DEF Advanced, Counters
  <2>3. n < run[p].seq[i] \/ (i = j /\ n = run[p].seq[j])
    BY <1>3, <2>1, <2>2, IntentAssumption
  <2> QED BY <1>2, <2>3 DEF Counts
<1> QED BY <1>3 DEF Counts

(* A key that is sent follows one that was executed.                        *)
LEMMA SentFollows ==
  ASSUME Typed, NEW p \in Runners, NEW i \in Intents,
         Counts(run[p].id, run[p].seq, executed)
  PROVE  Follows(KeyOf(p, i), executed)
<1>1. run[p].seq[i] \in 0 .. MaxSeq /\ TypeOK
  BY DEF Typed, TypeOK, Counters
<1>2. /\ KeyOf(p, i).id = run[p].id /\ KeyOf(p, i).intent = i
      /\ KeyOf(p, i).seq = run[p].seq[i]
  BY DEF KeyOf
<1>3. ASSUME run[p].seq[i] > 0
      PROVE  Key(run[p].id, i, run[p].seq[i] - 1) \in executed
  <2>1. run[p].seq[i] - 1 \in 0 .. MaxSeq /\ run[p].seq[i] - 1 < run[p].seq[i]
    BY <1>1, <1>3, IntentAssumption
  <2> QED BY <2>1 DEF Counts
<1> QED BY <1>2, <1>3 DEF Follows

(* Every step keeps counters and keys in order.                             *)
LEMMA NextInOrder == Typed /\ InOrder /\ [Next]_vars => InOrder'
<1> SUFFICES ASSUME Typed, InOrder, [Next]_vars PROVE InOrder'
  OBVIOUS
<1>1. ASSUME NEW p \in Runners, StartCycle(p)
      PROVE  InOrder'
  <2>1. Counts(StartId, saved.seq, executed)
    BY Done DEF InOrder, StartId
  <2>2. /\ run'[p].id = StartId /\ run'[p].seq = saved.seq
        /\ \A q \in Runners : q # p => run'[q] = run[q]
    BY <1>1, StartState
  <2>3. UNCHANGED <<sent, executed>> /\ saved' = Established(StartId)
    BY <1>1 DEF StartCycle
  <2>4. StartId \in 1 .. MaxIds
    BY <1>1, StartState
  <2>5. /\ Counts(saved'.id, saved'.seq, executed)
        /\ saved'.id = 0 => saved'.seq = NoCounts
    <3>1. CASE FileBacked
      <4>1. saved'.id = StartId /\ saved'.seq = saved.seq
        BY <2>3, <3>1 DEF Established, Typed, TypeOK
      <4> QED BY <2>1, <2>4, <4>1, IntentAssumption
    <3>2. CASE ~FileBacked
      <4>1. saved' = saved
        BY <2>3, <3>2 DEF Established
      <4> QED BY <4>1 DEF InOrder
    <3> QED BY <3>1, <3>2
  <2>6. \A q \in Runners : ~Idle(q)' => Counts(run'[q].id, run'[q].seq, executed)
    BY <2>1, <2>2 DEF InOrder, Idle
  <2>7. \A k \in sent \cup executed : Follows(k, executed)
    BY DEF InOrder
  <2> QED BY <2>3, <2>5, <2>6, <2>7 DEF InOrder
<1>2. ASSUME NEW p \in Runners, NEW i \in Intents, SendWrite(p, i)
      PROVE  InOrder'
  <2>1. Counts(run[p].id, run[p].seq, executed)
    BY <1>2 DEF InOrder, Idle, SendWrite
  <2>2. \A k \in sent' : k \in sent \/ Follows(k, executed)
    BY <1>2, <2>1, SentFollows DEF SendWrite
  <2>3. UNCHANGED <<saved, executed>>
    BY <1>2 DEF SendWrite
  <2> QED BY <1>2, <2>1, <2>2, <2>3, SendState, RunnerInOrder
<1>3. ASSUME NEW p \in Runners, ConfirmWrite(p)
      PROVE  InOrder'
  <2>1. Counts(run[p].id, run[p].seq, executed)
    BY <1>3 DEF InOrder, Idle, ConfirmWrite
  <2>2. PICK v \in RunStates :
          run' = [run EXCEPT ![p] = v] /\ v.id = run[p].id /\ v.seq = Advanced(p)
    BY <1>3, ConfirmedState
  <2>3. Counts(v.id, v.seq, executed)
    BY <1>3, <2>1, <2>2, ConfirmCounts
  <2>4. TypeOK /\ UNCHANGED <<saved, sent, executed>>
    BY <1>3 DEF Typed, ConfirmWrite
  <2> QED BY <2>2, <2>3, <2>4, RunChanges, RunnerInOrder
<1>4. ASSUME NEW p \in Runners, WriteUnconfirmed(p)
      PROVE  InOrder'
  <2>1. run' = [run EXCEPT ![p] = [run[p] EXCEPT !.step = "deciding"]]
    BY <1>4 DEF WriteUnconfirmed, Typed, TypeOK
  <2>2. Counts(run[p].id, run[p].seq, executed)
    BY <1>4 DEF InOrder, Idle, WriteUnconfirmed
  <2>3. UNCHANGED <<saved, sent, executed>>
    BY <1>4 DEF WriteUnconfirmed
  <2> QED BY <2>1, <2>2, <2>3, StepState, RunnerInOrder
<1>5. ASSUME NEW p \in Runners, EndCycle(p)
      PROVE  InOrder'
  <2>1. run' = [run EXCEPT ![p] = [run[p] EXCEPT !.step = "idle"]]
    BY <1>5 DEF EndCycle, AsIdle, Typed, TypeOK
  <2>2. /\ saved'.id = run[p].id /\ saved'.seq = run[p].seq
        /\ UNCHANGED <<sent, executed>>
    BY <1>5 DEF EndCycle, Result
  <2>3. Counts(run[p].id, run[p].seq, executed) /\ run[p].id # 0
    BY <1>5, IntentAssumption DEF InOrder, Idle, EndCycle, Typed, TypeOK
  <2>4. \A q \in Runners : ~Idle(q)' => Counts(run'[q].id, run'[q].seq, executed)
    BY <2>1, StepState DEF InOrder, Idle
  <2>5. \A k \in sent \cup executed : Follows(k, executed)
    BY DEF InOrder
  <2> QED BY <2>2, <2>3, <2>4, <2>5 DEF InOrder
<1>6. ASSUME NEW p \in Runners, Crash(p)
      PROVE  InOrder'
  <2>1. run' = [run EXCEPT ![p] = [run[p] EXCEPT !.step = "idle"]]
    BY <1>6 DEF Crash, AsIdle, Typed, TypeOK
  <2>2. UNCHANGED <<saved, sent, executed>>
    BY <1>6 DEF Crash
  <2>3. Idle(p)'
    BY <2>1, StepState DEF Idle
  <2> QED BY <2>1, <2>2, <2>3, StepState, RunnerInOrder
<1>7. ASSUME NEW k \in sent, Execute(k)
      PROVE  InOrder'
  <2>1. /\ executed \subseteq executed' /\ UNCHANGED <<saved, run>>
        /\ \A l \in sent' \cup executed' : l \in sent \cup executed
    BY <1>7 DEF Execute
  <2>2. Counts(saved.id, saved.seq, executed')
    BY <2>1, Done DEF InOrder
  <2>3. \A p \in Runners : ~Idle(p) => Counts(run[p].id, run[p].seq, executed')
    BY <2>1, Done DEF InOrder
  <2>4. \A l \in sent' \cup executed' : Follows(l, executed')
    BY <2>1, Done DEF InOrder
  <2> QED BY <2>1, <2>2, <2>3, <2>4 DEF InOrder, Idle
<1>8. CASE UNCHANGED vars
  BY <1>8 DEF InOrder, Idle, vars
<1>9. ASSUME WasteId
      PROVE  InOrder'
  BY <1>9 DEF InOrder, Idle, WasteId
<1> QED BY <1>1, <1>2, <1>3, <1>4, <1>5, <1>6, <1>7, <1>8, <1>9
       DEF Next, RunnerStep

(* Nothing has been counted or sent at the start.                           *)
LEMMA InitInOrder == Init => InOrder
BY Done DEF Init, InOrder, Idle

-----------------------------------------------------------------------------
(* One identity *)

(* A step of one runner that does not save keeps the identity when it works *)
(* and sends under it.                                                      *)
LEMMA RunnerIdentity ==
  ASSUME OneIdentity, NEW p \in Runners, UNCHANGED <<saved, executed>>,
         \A q \in Runners : q # p => run'[q] = run[q],
         Idle(p)' \/ run'[p].id = saved.id,
         \A k \in sent' : k \in sent \/ k.id = saved.id
  PROVE  OneIdentity'
BY DEF OneIdentity, Idle

(* Every step keeps the identity: a save writes the identity it found.      *)
LEMMA NextIdentity == Typed /\ OneIdentity /\ [Next]_vars => OneIdentity'
<1> SUFFICES ASSUME Typed, OneIdentity, [Next]_vars PROVE OneIdentity'
  OBVIOUS
<1> USE IntentAssumption
<1>1. ASSUME NEW p \in Runners, StartCycle(p)
      PROVE  OneIdentity'
  <2>1. /\ run'[p].id = StartId /\ StartId \in 1 .. MaxIds
        /\ \A q \in Runners : q # p => run'[q] = run[q]
    BY <1>1, StartState
  <2>2. UNCHANGED <<sent, executed>> /\ saved' = Established(StartId)
    BY <1>1 DEF StartCycle
  <2>3. saved'.id = StartId
    BY <2>2 DEF Established, StartId, OneIdentity, Typed, TypeOK
  <2>4. \A k \in sent \cup executed : k.id = StartId
    <3>1. \A k \in sent \cup executed : k.id \in 1 .. MaxIds /\ k.id = saved.id
      BY DEF OneIdentity, Typed, TypeOK, Keys
    <3> QED BY <3>1 DEF StartId
  <2>5. \A q \in Runners : q # p /\ ~Idle(q) => run[q].id = StartId
    <3>1. \A q \in Runners : ~Idle(q) => run[q].id = saved.id /\ saved.id # 0
      BY DEF OneIdentity, Typed, TypeOK
    <3> QED BY <3>1 DEF StartId
  <2> QED BY <2>1, <2>2, <2>3, <2>4, <2>5 DEF OneIdentity, Idle
<1>2. ASSUME NEW p \in Runners, NEW i \in Intents, SendWrite(p, i)
      PROVE  OneIdentity'
  <2>1. run[p].id = saved.id /\ sent' = sent \cup {KeyOf(p, i)}
    BY <1>2 DEF SendWrite, OneIdentity, Idle
  <2>2. KeyOf(p, i).id = run[p].id
    BY DEF KeyOf
  <2>3. UNCHANGED <<saved, executed>>
    BY <1>2 DEF SendWrite
  <2> QED BY <1>2, <2>1, <2>2, <2>3, SendState, RunnerIdentity
<1>3. ASSUME NEW p \in Runners, ConfirmWrite(p)
      PROVE  OneIdentity'
  <2>1. PICK v \in RunStates : run' = [run EXCEPT ![p] = v] /\ v.id = run[p].id
    BY <1>3, ConfirmedState
  <2>2. run[p].id = saved.id
    BY <1>3 DEF ConfirmWrite, OneIdentity, Idle
  <2>3. TypeOK /\ UNCHANGED <<saved, sent, executed>>
    BY <1>3 DEF Typed, ConfirmWrite
  <2> QED BY <2>1, <2>2, <2>3, RunChanges, RunnerIdentity
<1>4. ASSUME NEW p \in Runners, WriteUnconfirmed(p)
      PROVE  OneIdentity'
  <2>1. run' = [run EXCEPT ![p] = [run[p] EXCEPT !.step = "deciding"]]
    BY <1>4 DEF WriteUnconfirmed, Typed, TypeOK
  <2>2. run[p].id = saved.id
    BY <1>4 DEF WriteUnconfirmed, OneIdentity, Idle
  <2>3. UNCHANGED <<saved, sent, executed>>
    BY <1>4 DEF WriteUnconfirmed
  <2> QED BY <2>1, <2>2, <2>3, StepState, RunnerIdentity
<1>5. ASSUME NEW p \in Runners, EndCycle(p)
      PROVE  OneIdentity'
  <2>1. run' = [run EXCEPT ![p] = [run[p] EXCEPT !.step = "idle"]]
    BY <1>5 DEF EndCycle, AsIdle, Typed, TypeOK
  <2>2. run[p].id = saved.id
    BY <1>5 DEF EndCycle, OneIdentity, Idle
  <2>3. saved'.id = saved.id /\ UNCHANGED <<sent, executed>>
    BY <1>5, <2>2 DEF EndCycle, Result
  <2> QED BY <2>1, <2>3, StepState DEF OneIdentity, Idle
<1>6. ASSUME NEW p \in Runners, Crash(p)
      PROVE  OneIdentity'
  <2>1. run' = [run EXCEPT ![p] = [run[p] EXCEPT !.step = "idle"]]
    BY <1>6 DEF Crash, AsIdle, Typed, TypeOK
  <2>2. UNCHANGED <<saved, sent, executed>>
    BY <1>6 DEF Crash
  <2>3. Idle(p)'
    BY <2>1, StepState DEF Idle
  <2> QED BY <2>1, <2>2, <2>3, StepState, RunnerIdentity
<1>7. ASSUME NEW k \in sent, Execute(k)
      PROVE  OneIdentity'
  BY <1>7 DEF Execute, OneIdentity, Idle
<1>8. CASE UNCHANGED vars
  BY <1>8 DEF OneIdentity, Idle, vars
<1>9. ASSUME WasteId
      PROVE  OneIdentity'
  BY <1>9 DEF OneIdentity, Idle, WasteId
<1> QED BY <1>1, <1>2, <1>3, <1>4, <1>5, <1>6, <1>7, <1>8, <1>9
       DEF Next, RunnerStep

-----------------------------------------------------------------------------
(* The self-hosted runner *)

(* A step that does not save leaves the runner alone and ahead.             *)
LEMMA RunnerAlone ==
  ASSUME Typed, Alone, NEW p \in Runners, ~Idle(p), UNCHANGED saved,
         \A q \in Runners : q # p => run'[q] = run[q],
         Idle(p)' \/ ( /\ run'[p].id = run[p].id
                       /\ \A i \in Intents : run'[p].seq[i] >= saved.seq[i] )
  PROVE  Alone'
<1>1. \A q \in Runners : q # p => Idle(q) /\ Idle(q)'
  BY DEF Alone, Idle
<1>2. ~Idle(p) => run[p].id = saved.id
  BY DEF Alone
<1> QED BY <1>1, <1>2 DEF Alone

(* Every step keeps the self-hosted runner alone and ahead of its file.     *)
LEMMA NextAlone == FileBacked /\ Typed /\ Alone /\ [Next]_vars => Alone'
<1> SUFFICES ASSUME FileBacked, Typed, Alone, [Next]_vars PROVE Alone'
  OBVIOUS
<1> USE IntentAssumption
<1>a. \A p \in Runners : \A i \in Intents :
        saved.seq[i] \in Nat /\ run[p].seq[i] \in Nat
  BY DEF Typed, TypeOK, Counters
<1>b. \A p \in Runners : ~Idle(p) =>
        \A i \in Intents : run[p].seq[i] >= saved.seq[i]
  BY DEF Alone
<1>1. ASSUME NEW p \in Runners, StartCycle(p)
      PROVE  Alone'
  <2>1. /\ run'[p].id = StartId /\ run'[p].seq = saved.seq
        /\ \A q \in Runners : q # p => run'[q] = run[q]
    BY <1>1, StartState
  <2>2. saved' = Established(StartId) /\ \A q \in Runners : Idle(q)
    BY <1>1 DEF StartCycle
  <2>3. saved'.id = StartId /\ saved'.seq = saved.seq
    BY <2>2 DEF Established, Typed, TypeOK
  <2>4. \A i \in Intents : run'[p].seq[i] >= saved'.seq[i]
    BY <1>a, <2>1, <2>3
  <2>5. \A q \in Runners : q # p => Idle(q)'
    BY <2>1, <2>2 DEF Idle
  <2> QED BY <2>1, <2>3, <2>4, <2>5 DEF Alone
<1>2. ASSUME NEW p \in Runners, NEW i \in Intents, SendWrite(p, i)
      PROVE  Alone'
  <2>1. ~Idle(p) /\ UNCHANGED saved
    BY <1>2 DEF SendWrite, Idle
  <2> QED BY <1>b, <1>2, <2>1, SendState, RunnerAlone
<1>3. ASSUME NEW p \in Runners, ConfirmWrite(p)
      PROVE  Alone'
  <2>1. ~Idle(p) /\ UNCHANGED saved /\ TypeOK
    BY <1>3 DEF ConfirmWrite, Idle, Typed
  <2>2. PICK v \in RunStates :
          /\ run' = [run EXCEPT ![p] = v]
          /\ v.id = run[p].id /\ v.seq = Advanced(p)
    BY <1>3, ConfirmedState
  <2>3. ASSUME NEW i \in Intents
        PROVE  Advanced(p)[i] >= saved.seq[i]
    <3>1. Advanced(p)[i] \in {run[p].seq[i], run[p].seq[i] + 1}
      BY DEF Advanced, Typed, TypeOK, Counters
    <3> QED BY <1>a, <1>b, <2>1, <3>1
  <2> QED BY <2>1, <2>2, <2>3, RunChanges, RunnerAlone
<1>4. ASSUME NEW p \in Runners, WriteUnconfirmed(p)
      PROVE  Alone'
  <2>1. run' = [run EXCEPT ![p] = [run[p] EXCEPT !.step = "deciding"]]
    BY <1>4 DEF WriteUnconfirmed, Typed, TypeOK
  <2>2. ~Idle(p) /\ UNCHANGED saved
    BY <1>4 DEF WriteUnconfirmed, Idle
  <2> QED BY <1>b, <2>1, <2>2, StepState, RunnerAlone
<1>5. ASSUME NEW p \in Runners, EndCycle(p)
      PROVE  Alone'
  <2>1. run' = [run EXCEPT ![p] = [run[p] EXCEPT !.step = "idle"]]
    BY <1>5 DEF EndCycle, AsIdle, Typed, TypeOK
  <2>2. ~Idle(p)
    BY <1>5 DEF EndCycle, Idle
  <2>3. \A q \in Runners : Idle(q)'
    BY <2>1, <2>2, StepState DEF Alone, Idle
  <2> QED BY <2>3 DEF Alone
<1>6. ASSUME NEW p \in Runners, Crash(p)
      PROVE  Alone'
  <2>1. run' = [run EXCEPT ![p] = [run[p] EXCEPT !.step = "idle"]]
    BY <1>6 DEF Crash, AsIdle, Typed, TypeOK
  <2>2. ~Idle(p) /\ UNCHANGED saved
    BY <1>6 DEF Crash
  <2>3. Idle(p)'
    BY <2>1, StepState DEF Idle
  <2> QED BY <2>1, <2>2, <2>3, StepState, RunnerAlone
<1>7. ASSUME NEW k \in sent, Execute(k)
      PROVE  Alone'
  BY <1>7 DEF Execute, Alone, Idle
<1>8. CASE UNCHANGED vars
  BY <1>8 DEF Alone, Idle, vars
<1>9. ASSUME WasteId
      PROVE  Alone'
  BY <1>9 DEF Alone, Idle, WasteId
<1> QED BY <1>1, <1>2, <1>3, <1>4, <1>5, <1>6, <1>7, <1>8, <1>9
       DEF Next, RunnerStep

(* Alone, a runner saves nothing older than what it found.                  *)
LEMMA SavedAdvances ==
  FileBacked /\ Typed /\ Alone /\ [Next]_vars =>
    /\ saved.id # 0 => saved'.id = saved.id
    /\ \A i \in Intents : saved'.seq[i] >= saved.seq[i]
<1> SUFFICES ASSUME FileBacked, Typed, Alone, [Next]_vars
             PROVE  /\ saved.id # 0 => saved'.id = saved.id
                    /\ \A i \in Intents : saved'.seq[i] >= saved.seq[i]
  OBVIOUS
<1>a. \A i \in Intents : saved.seq[i] \in Nat
  BY IntentAssumption DEF Typed, TypeOK, Counters
<1>1. ASSUME NEW p \in Runners, StartCycle(p)
      PROVE  saved'.seq = saved.seq /\ (saved.id # 0 => saved'.id = saved.id)
  BY <1>1 DEF StartCycle, Established, StartId, Typed, TypeOK
<1>2. ASSUME NEW p \in Runners, EndCycle(p)
      PROVE  /\ saved'.id = saved.id
             /\ \A i \in Intents : saved'.seq[i] >= saved.seq[i]
  <2>1. ~Idle(p) /\ saved'.id = run[p].id /\ saved'.seq = run[p].seq
    BY <1>2 DEF EndCycle, Idle, Result
  <2> QED BY <2>1 DEF Alone
<1>3. ASSUME UNCHANGED saved
      PROVE  /\ saved.id # 0 => saved'.id = saved.id
             /\ \A i \in Intents : saved'.seq[i] >= saved.seq[i]
  BY <1>a, <1>3
<1>4. \/ \E p \in Runners : StartCycle(p) \/ EndCycle(p)
      \/ UNCHANGED saved
  BY DEF Next, RunnerStep, SendWrite, ConfirmWrite, WriteUnconfirmed, Crash,
         WasteId, Execute, vars
<1> QED BY <1>a, <1>1, <1>2, <1>3, <1>4

-----------------------------------------------------------------------------
(* Theorems *)

(* All of the above holds in every state of every run of the system.        *)
LEMMA AlwaysInOrder == Spec => [](Typed /\ InOrder)
<1>1. Init => Typed /\ InOrder
  BY InitTypes, InitInOrder
<1>2. Typed /\ InOrder /\ [Next]_vars => Typed' /\ InOrder'
  BY NextTypes, NextInOrder
<1> QED BY <1>1, <1>2, PTL DEF Spec

(* Every variable keeps its type, however many runners there are.           *)
THEOREM IntentTypes == Spec => []TypeOK
<1>1. Typed => TypeOK
  BY DEF Typed
<1> QED BY <1>1, AlwaysInOrder, PTL

(* The saved counters never run ahead of the backend (state.ts, the counters *)
(* of a result), with a state file or without, runs overlapping or not.     *)
THEOREM SavedFollowsBackend == Spec => []SavedIsExecuted
<1>1. InOrder => SavedIsExecuted
  BY DEF InOrder, Counts, Key, SavedIsExecuted
<1> QED BY <1>1, AlwaysInOrder, PTL

(* No counter skips a trade: a key is executed after the one before it.     *)
THEOREM KeysInOrder == Spec => []ExecutedInOrder
<1>1. ASSUME Typed, InOrder, NEW k \in executed, k.seq > 0
      PROVE  [k EXCEPT !.seq = @ - 1] \in executed
  <2>1. Key(k.id, k.intent, k.seq - 1) \in executed
    BY <1>1 DEF InOrder, Follows
  <2>2. k \in Keys
    BY <1>1 DEF Typed, TypeOK
  <2>3. [k EXCEPT !.seq = @ - 1] = Key(k.id, k.intent, k.seq - 1)
    BY <2>2 DEF Keys, Key
  <2> QED BY <2>1, <2>3
<1>2. Typed /\ InOrder => ExecutedInOrder
  BY <1>1 DEF ExecutedInOrder
<1> QED BY <1>2, AlwaysInOrder, PTL

(* No trade is placed twice by a self-hosted agent, or by a hosted one that *)
(* has a saved state, whatever crashes, is lost or comes late.              *)
THEOREM TradesOnce ==
  ASSUME FileBacked \/ Recorded
  PROVE  Spec => []NoDoubleTrade
<1>1. Init => OneIdentity
  BY DEF Init, OneIdentity, Idle
<1>2. Init => Typed
  BY InitTypes
<1>3. Typed /\ OneIdentity /\ [Next]_vars => Typed' /\ OneIdentity'
  BY NextTypes, NextIdentity
<1>4. OneIdentity => NoDoubleTrade
  BY DEF OneIdentity, NoDoubleTrade
<1> QED BY <1>1, <1>2, <1>3, <1>4, PTL DEF Spec

(* A self-hosted agent's counters only grow, and count for one identity.    *)
THEOREM CountersOnlyGrow ==
  ASSUME FileBacked
  PROVE  Spec => CountersAdvance
<1>1. Init => Typed /\ Alone
  BY InitTypes DEF Init, Alone, Idle
<1>2. Typed /\ Alone /\ [Next]_vars => Typed' /\ Alone'
  BY NextTypes, NextAlone
<1>3. Typed /\ Alone /\ [Next]_vars =>
        [ /\ saved.id # 0 => saved'.id = saved.id
          /\ \A i \in Intents : saved'.seq[i] >= saved.seq[i] ]_vars
  BY SavedAdvances
<1> QED BY <1>1, <1>2, <1>3, PTL DEF Spec, CountersAdvance
=============================================================================
