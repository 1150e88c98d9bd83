------------------------- MODULE PmPaperCycleProofs -------------------------
(***************************************************************************)
(* Proofs about PmPaperCycle, for any markets, budgets, policies and       *)
(* limits: whatever crashes, lost answers, late executions and changes of  *)
(* policy, a request that can still trade is on record, a new key is new,  *)
(* and the positions stay within the limits the cycle read long before.    *)
(***************************************************************************)
EXTENDS PmPaperCycle, FiniteSetTheorems, TLAPS

(* The cycle's copy of the state: the same as on disk but for the request   *)
(* that is not saved yet and for the one that is settled; a request that    *)
(* was taken off the copy cannot trade any more.                            *)
CopyInv ==
  /\ pc # "idle" => pol \in Policies
  /\ pc \in {"idle", "begun", "probed", "chosen", "sending", "waiting"} => mem = saved
  /\ pc = "chosen" => mem.pending = None /\ chosen \in Opens
  /\ pc \in {"probed", "sending", "waiting"} => mem.pending # None
  /\ pc = "checkpoint" => saved.pending = None /\ mem.pending # None
  /\ pc = "settled" =>
       /\ mem.seq = saved.seq
       /\ \/ mem.pending = saved.pending
          \/ /\ mem.pending = None /\ saved.pending # None
             /\ saved.pending.key \notin sent \ receipts

(* The counters on record are beyond every key that was ever used.          *)
UsedInv ==
  /\ \A k \in sent \union receipts : k.seq < saved.seq[k.intent]
  /\ saved.pending # None =>
       saved.pending.key.seq < saved.seq[saved.pending.key.intent]
  /\ pc = "checkpoint" =>
       /\ mem.pending.key.seq = saved.seq[mem.pending.key.intent]
       /\ mem.pending.key.seq < mem.seq[mem.pending.key.intent]
       /\ \A i \in Intents : saved.seq[i] <= mem.seq[i]

(* There is room for the position a request may open.                       *)
Room(k) == k.intent.market \notin Held /\ Cardinality(Unsettled) < MaxOpen

RoomInv ==
  /\ IsFiniteSet(Unsettled)
  /\ (pc = "checkpoint" /\ mem.pending.key \in OpenKeys) => Room(mem.pending.key)
  /\ (saved.pending # None /\ saved.pending.key \in OpenKeys \ receipts) =>
       Room(saved.pending.key)
  /\ OnePositionPerMarket
  /\ OpenWithinLimit

(* The request about to be saved is as admissible as one about to be sent.  *)
PolicyInv ==
  (pc \in {"checkpoint", "sending", "waiting"} /\ mem.pending.key \in OpenKeys) =>
    /\ pol.live /\ pol.entry
    /\ mem.pending.key.intent.cash <= pol.cash
    /\ mem.pending.floor = pol.floor

RecordInv == TradableIsOnRecord /\ CopyInv /\ UsedInv

(* The same of the open the model chose, and of the request probed for.     *)
ChosenInv ==
  /\ pc = "chosen" => chosen.cash <= pol.cash
  /\ pc = "probed" => pol.live

-----------------------------------------------------------------------------
(* The parts of a key.                                                      *)
LEMMA KeyParts ==
  /\ \A k \in Keys : k.intent \in Intents /\ k.seq \in Nat
  /\ \A k \in CloseKeys : k \notin OpenKeys /\ k.intent.position \in OpenKeys
  /\ \A i \in Opens, n \in 0 .. MaxSeq - 1 : [intent |-> i, seq |-> n] \in OpenKeys
  /\ \A i \in Closes, n \in 0 .. MaxSeq - 1 : [intent |-> i, seq |-> n] \in CloseKeys
  /\ Opens \subseteq Intents /\ Closes \subseteq Intents
  /\ OpenKeys \subseteq Keys /\ CloseKeys \subseteq Keys
<1>1. \A k \in Keys : k.intent \in Intents /\ k.seq \in Nat
  BY PmAssumption DEF Keys, OpenKeys, CloseKeys, Intents
<1>2. \A k \in CloseKeys : k \notin OpenKeys /\ k.intent.position \in OpenKeys
  BY DEF CloseKeys, OpenKeys, Closes, Opens
<1>3. \A i \in Opens, n \in 0 .. MaxSeq - 1 : [intent |-> i, seq |-> n] \in OpenKeys
  BY DEF OpenKeys
<1>4. \A i \in Closes, n \in 0 .. MaxSeq - 1 : [intent |-> i, seq |-> n] \in CloseKeys
  BY DEF CloseKeys
<1> QED BY <1>1, <1>2, <1>3, <1>4 DEF Intents, Keys

(* The parts of the state an agent keeps.                                   *)
LEMMA StateParts ==
  \A s \in AgentStates :
    /\ s.pending \in Pendings \union {None}
    /\ s.pending # None => s.pending.key \in Keys
    /\ s.seq \in [Intents -> 0 .. MaxSeq]
    /\ \A i \in Intents : s.seq[i] \in Nat
    /\ s = [pending |-> s.pending, seq |-> s.seq]
BY PmAssumption DEF AgentStates, Pendings

LEMMA SettledState ==
  ASSUME NEW s \in AgentStates
  PROVE  /\ [s EXCEPT !.pending = None] \in AgentStates
         /\ [s EXCEPT !.pending = None].pending = None
         /\ [s EXCEPT !.pending = None].seq = s.seq
BY DEF AgentStates

(* The state with a new pending request.                                    *)
LEMMA NewPending ==
  ASSUME TypeOK, NEW i \in Intents, NEW floor \in Floors \union {None},
         MakePending(i, floor)
  PROVE  /\ mem' \in AgentStates
         /\ mem'.pending # None
         /\ mem'.pending.floor = floor
         /\ mem'.pending.key = [intent |-> i, seq |-> mem.seq[i]]
         /\ mem'.pending.key \in Keys
         /\ i \in Opens => mem'.pending.key \in OpenKeys
         /\ i \in Closes => mem'.pending.key \in CloseKeys
         /\ mem'.seq[i] = mem.seq[i] + 1
         /\ \A j \in Intents : mem.seq[j] <= mem'.seq[j]
<1> DEFINE k == [intent |-> i, seq |-> mem.seq[i]]
           q == [mem.seq EXCEPT ![i] = @ + 1]
<1>1. mem.seq \in [Intents -> 0 .. MaxSeq] /\ mem.seq[i] \in 0 .. MaxSeq - 1
  BY PmAssumption, StateParts DEF TypeOK, MakePending
<1>2. k \in Keys /\ (i \in Opens => k \in OpenKeys) /\ (i \in Closes => k \in CloseKeys)
  <2>1. i \in Opens => k \in OpenKeys
    BY <1>1, KeyParts
  <2>2. i \in Closes => k \in CloseKeys
    BY <1>1, KeyParts
  <2> QED BY <2>1, <2>2, KeyParts DEF Intents
<1>3. /\ q \in [Intents -> 0 .. MaxSeq]
      /\ q[i] = mem.seq[i] + 1
      /\ \A j \in Intents : mem.seq[j] <= q[j]
  BY <1>1, PmAssumption
<1>4. k.intent = i /\ k.seq = mem.seq[i]
  OBVIOUS
<1> HIDE DEF q
<1>5. mem' = [pending |-> [key |-> k, floor |-> floor], seq |-> q]
  BY DEF MakePending, q
<1> HIDE DEF k
<1>6. [key |-> k, floor |-> floor] \in Pendings
  BY <1>2 DEF Pendings
<1>7. [key |-> k, floor |-> floor] # None
  BY <1>6, PmAssumption
<1>8. mem' \in AgentStates
  BY <1>3, <1>5, <1>6 DEF AgentStates
<1> QED BY <1>2, <1>3, <1>5, <1>7, <1>8 DEF k

-----------------------------------------------------------------------------
(* Types *)

LEMMA CycleTypes == TypeOK /\ CopyInv /\ Cycle => TypeOK'
<1> SUFFICES ASSUME TypeOK, CopyInv, Cycle PROVE TypeOK'
  OBVIOUS
<1> USE DEF backend
<1>1. ASSUME NEW s \in AgentStates, Forget(s), UNCHANGED backend PROVE TypeOK'
  BY <1>1 DEF TypeOK, Forget, NoView
<1>2. CASE Begin
  <2>1. Admits(policy) \in BOOLEAN /\ Held \subseteq Markets
    BY PmAssumption DEF TypeOK, Admits, Held, Unsettled, OpenKeys, Opens
  <2>2. view' \in [entry: BOOLEAN, held: SUBSET Markets, closable: SUBSET OpenKeys]
    BY <1>2, <2>1 DEF Begin
  <2> QED BY <1>2, <2>2 DEF Begin, TypeOK
<1>3. CASE Skip \/ Persist \/ Crash
  BY <1>1, <1>3 DEF Skip, Persist, Crash, TypeOK
<1>4. CASE ReceiptFound
  BY <1>4, SettledState DEF ReceiptFound, TypeOK
<1>5. CASE ReceiptMissing \/ ResendOpen \/ ResendClose \/ GiveUp
  BY <1>5 DEF ReceiptMissing, ResendOpen, ResendClose, GiveUp, TypeOK
<1>6. ASSUME NEW i \in Opens, DecideOpen(i) PROVE TypeOK'
  BY <1>6 DEF DecideOpen, TypeOK
<1>7. CASE ConfirmOpen
  <2>1. chosen \in Opens /\ pol.floor \in Floors
    BY <1>7, PmAssumption DEF ConfirmOpen, CopyInv
  <2>2. mem' \in AgentStates
    BY <1>7, <2>1, NewPending, KeyParts DEF ConfirmOpen
  <2> QED BY <1>7, <2>2 DEF ConfirmOpen, MakePending, TypeOK
<1>8. ASSUME NEW p \in OpenKeys, DecideClose(p) PROVE TypeOK'
  <2>1. [kind |-> "close", position |-> p] \in Intents
    BY KeyParts DEF Closes
  <2>2. mem' \in AgentStates
    BY <1>8, <2>1, NewPending DEF DecideClose
  <2> QED BY <1>8, <2>2 DEF DecideClose, MakePending, TypeOK
<1>9. CASE Checkpoint
  BY <1>9 DEF Checkpoint, TypeOK
<1>10. CASE Send
  BY <1>10, StateParts DEF Send, TypeOK, CopyInv
<1> QED BY <1>2, <1>3, <1>4, <1>5, <1>6, <1>7, <1>8, <1>9, <1>10 DEF Cycle

LEMMA HearTypes ==
  ASSUME TypeOK, CopyInv, NEW k \in Keys, Hear(k)
  PROVE  mem' \in AgentStates /\ pc' \in {pc, "settled"}
BY SettledState DEF Hear, TypeOK

LEMMA BackendTypes == TypeOK /\ CopyInv /\ Backend => TypeOK'
<1> SUFFICES ASSUME TypeOK, CopyInv, Backend PROVE TypeOK'
  OBVIOUS
<1>1. ASSUME NEW k \in Keys, Answered(k),
             receipts' \subseteq Keys,
             position' \in [OpenKeys -> {"none", "open", "exiting", "settled"}]
      PROVE  TypeOK'
  BY <1>1, HearTypes DEF Answered, TypeOK
<1>2. ASSUME NEW k \in Keys, FillOpen(k) PROVE TypeOK'
  BY <1>1, <1>2 DEF FillOpen, TypeOK
<1>3. ASSUME NEW k \in Keys, Replay(k) \/ Refuse(k) PROVE TypeOK'
  BY <1>1, <1>3 DEF Replay, Refuse, TypeOK
<1>4. ASSUME NEW k \in CloseKeys, NEW s \in {"exiting", "settled"}, AcceptClose(k, s)
      PROVE  TypeOK'
  <2>1. position' \in [OpenKeys -> {"none", "open", "exiting", "settled"}]
    BY <1>4 DEF AcceptClose, TypeOK
  <2>2. receipts' \subseteq Keys /\ k \in Keys
    BY <1>4, KeyParts DEF AcceptClose, TypeOK
  <2> QED BY <1>1, <1>4, <2>1, <2>2 DEF AcceptClose
<1> QED BY <1>2, <1>3, <1>4 DEF Backend

LEMMA OutsideTypes == TypeOK /\ Outside => TypeOK'
<1> SUFFICES ASSUME TypeOK, Outside PROVE TypeOK'
  OBVIOUS
<1>1. ASSUME NEW p \in OpenKeys, Settle(p) PROVE TypeOK'
  BY <1>1 DEF Settle, TypeOK
<1>2. CASE ToggleEntry
  BY <1>2 DEF ToggleEntry, TypeOK
<1>3. ASSUME NEW p \in Policies, ChangePolicy(p) PROVE TypeOK'
  BY <1>3 DEF ChangePolicy, TypeOK
<1> QED BY <1>1, <1>2, <1>3 DEF Outside

-----------------------------------------------------------------------------
(* What is on record *)

(* A step that changes neither the requests nor the record.                 *)
LEMMA RecordUntouched ==
  ASSUME TradableIsOnRecord, UsedInv, UNCHANGED <<sent, receipts, saved>>,
         pc' = "checkpoint" => pc = "checkpoint" /\ mem' = mem
  PROVE  TradableIsOnRecord' /\ UsedInv'
BY DEF TradableIsOnRecord, OnRecord, UsedInv

(* The end of a cycle: the record it leaves still covers what can trade.    *)
LEMMA RecordForgets ==
  ASSUME TypeOK, RecordInv, NEW s \in AgentStates, Forget(s), UNCHANGED backend,
         s = saved \/ (s = mem /\ pc # "checkpoint")
  PROVE  RecordInv'
<1>1. s.seq = saved.seq /\ (s.pending = saved.pending \/
        (s.pending = None /\ saved.pending # None /\ saved.pending.key \notin sent \ receipts))
  BY DEF RecordInv, CopyInv, TypeOK
<1>2. saved' = s /\ mem' = s /\ pc' = "idle" /\ UNCHANGED <<sent, receipts>>
  BY DEF Forget, backend
<1>3. TradableIsOnRecord'
  BY <1>1, <1>2 DEF RecordInv, TradableIsOnRecord, OnRecord
<1>4. CopyInv'
  BY <1>2 DEF CopyInv
<1>5. UsedInv'
  BY <1>1, <1>2 DEF RecordInv, UsedInv
<1> QED BY <1>3, <1>4, <1>5 DEF RecordInv

LEMMA CycleRecords == TypeOK /\ RecordInv /\ Cycle => RecordInv'
<1> SUFFICES ASSUME TypeOK, RecordInv, Cycle PROVE RecordInv'
  OBVIOUS
<1> USE DEF backend
<1>1. CASE Begin
  <2>1. CopyInv'
    BY <1>1 DEF Begin, RecordInv, CopyInv, TypeOK
  <2> QED BY <1>1, <2>1, RecordUntouched DEF Begin, RecordInv
<1>2. CASE Skip \/ Persist \/ Crash
  BY <1>2, RecordForgets DEF Skip, Persist, Crash, TypeOK
<1>3. CASE ReceiptFound
  <2>1. mem'.pending = None /\ mem'.seq = saved.seq /\ saved.pending = mem.pending
    BY <1>3, SettledState DEF ReceiptFound, RecordInv, CopyInv, TypeOK
  <2>2. CopyInv'
    BY <1>3, <2>1 DEF ReceiptFound, RecordInv, CopyInv
  <2> QED BY <1>3, <2>2, RecordUntouched DEF ReceiptFound, RecordInv
<1>4. CASE ReceiptMissing \/ ResendOpen \/ ResendClose \/ GiveUp
  <2>1. CopyInv'
    BY <1>4 DEF ReceiptMissing, ResendOpen, ResendClose, GiveUp, RecordInv, CopyInv
  <2>2. UNCHANGED <<sent, receipts, saved>> /\ pc' # "checkpoint"
    BY <1>4 DEF ReceiptMissing, ResendOpen, ResendClose, GiveUp
  <2> QED BY <2>1, <2>2, RecordUntouched DEF RecordInv
<1>5. ASSUME NEW i \in Opens, DecideOpen(i) PROVE RecordInv'
  <2>1. CopyInv'
    BY <1>5 DEF DecideOpen, RecordInv, CopyInv
  <2> QED BY <1>5, <2>1, RecordUntouched DEF DecideOpen, RecordInv
<1>6. ASSUME NEW i \in Intents, NEW floor \in Floors \union {None},
             MakePending(i, floor), mem = saved, saved.pending = None,
             UNCHANGED <<sent, receipts, saved, pol>>, pol \in Policies
      PROVE  RecordInv'
  <2>1. mem'.pending # None /\ pc' = "checkpoint"
    BY <1>6, NewPending DEF MakePending
  <2>2. CopyInv'
    BY <1>6, <2>1 DEF CopyInv
  <2>3. TradableIsOnRecord'
    BY <1>6 DEF RecordInv, TradableIsOnRecord, OnRecord
  <2>4. mem'.pending.key = [intent |-> i, seq |-> saved.seq[i]]
    BY <1>6, NewPending
  <2>5. saved.seq[i] \in Nat /\ mem'.seq[i] = saved.seq[i] + 1
    BY <1>6, NewPending, StateParts DEF TypeOK
  <2>6. \A j \in Intents : saved.seq[j] <= mem'.seq[j]
    BY <1>6, NewPending
  <2>7. UsedInv'
    BY <1>6, <2>4, <2>5, <2>6 DEF RecordInv, UsedInv
  <2> QED BY <2>2, <2>3, <2>7 DEF RecordInv
<1>7. CASE ConfirmOpen
  <2>1. chosen \in Intents /\ pol \in Policies /\ pol.floor \in Floors
    BY <1>7, PmAssumption, KeyParts DEF ConfirmOpen, RecordInv, CopyInv
  <2> QED BY <1>6, <1>7, <2>1 DEF ConfirmOpen, RecordInv, CopyInv
<1>8. ASSUME NEW p \in OpenKeys, DecideClose(p) PROVE RecordInv'
  <2>1. [kind |-> "close", position |-> p] \in Intents /\ pol \in Policies
    BY <1>8, KeyParts DEF Closes, DecideClose, RecordInv, CopyInv
  <2> QED BY <1>6, <1>8, <2>1 DEF DecideClose, RecordInv, CopyInv
<1>9. CASE Checkpoint
  <2>1. /\ saved.pending = None /\ mem.pending # None /\ saved' = mem /\ mem' = mem
        /\ pc = "checkpoint" /\ pc' = "sending" /\ UNCHANGED <<sent, receipts, pol>>
    BY <1>9 DEF Checkpoint, RecordInv, CopyInv
  <2>2. CopyInv'
    BY <2>1 DEF RecordInv, CopyInv
  <2>3. TradableIsOnRecord'
    BY <2>1 DEF RecordInv, TradableIsOnRecord, OnRecord
  <2>4. \A k \in sent \union receipts : k.seq < mem.seq[k.intent]
    <3> TAKE k \in sent \union receipts
    <3>1. k \in Keys /\ k.intent \in Intents /\ k.seq \in Nat
      BY KeyParts DEF TypeOK
    <3>2. saved.seq[k.intent] \in Nat /\ mem.seq[k.intent] \in Nat
      BY <3>1, StateParts DEF TypeOK
    <3>3. k.seq < saved.seq[k.intent] /\ saved.seq[k.intent] <= mem.seq[k.intent]
      BY <2>1, <3>1 DEF RecordInv, UsedInv
    <3> QED BY <3>1, <3>2, <3>3
  <2>5. UsedInv'
    BY <2>1, <2>4 DEF RecordInv, UsedInv
  <2> QED BY <2>2, <2>3, <2>5 DEF RecordInv
<1>10. CASE Send
  <2>1. saved.pending = mem.pending /\ mem.pending # None /\ mem = saved
    BY <1>10 DEF Send, RecordInv, CopyInv
  <2>2. sent' = sent \union {saved.pending.key} /\ UNCHANGED <<receipts, saved, mem, pol>>
    BY <1>10, <2>1 DEF Send
  <2>3. pc = "sending" /\ pc' = "waiting"
    BY <1>10 DEF Send
  <2>4. CopyInv'
    BY <2>1, <2>2, <2>3 DEF RecordInv, CopyInv
  <2>5. TradableIsOnRecord'
    BY <2>1, <2>2 DEF RecordInv, TradableIsOnRecord, OnRecord
  <2>6. UsedInv'
    BY <2>1, <2>2, <2>3 DEF RecordInv, UsedInv
  <2> QED BY <2>4, <2>5, <2>6 DEF RecordInv
<1> QED BY <1>1, <1>2, <1>3, <1>4, <1>5, <1>7, <1>8, <1>9, <1>10 DEF Cycle

(* A request is decided: it leaves the way as it is heard or not.           *)
LEMMA AnswerRecords ==
  ASSUME TypeOK, RecordInv, NEW k \in Keys, Answered(k), NEW r,
         receipts' = receipts \union r, r = {} \/ r = {k}
  PROVE  RecordInv'
<1>1. k \in sent /\ sent' = sent \ {k} /\ UNCHANGED <<saved, pol, chosen>> /\ Hear(k)
  BY DEF Answered
<1>2. TradableIsOnRecord'
  BY <1>1 DEF RecordInv, TradableIsOnRecord, OnRecord
<1>3. sent' \union receipts' \subseteq sent \union receipts
  BY <1>1
<1>4. sent' \ receipts' \subseteq sent \ receipts
  BY <1>1
<1>5. CASE UNCHANGED <<pc, mem>>
  <2>1. CopyInv'
    BY <1>1, <1>4, <1>5 DEF RecordInv, CopyInv
  <2>2. UsedInv'
    BY <1>1, <1>3, <1>5 DEF RecordInv, UsedInv
  <2> QED BY <1>2, <2>1, <2>2 DEF RecordInv
<1>6. CASE pc = "waiting" /\ mem.pending.key = k /\ pc' = "settled"
           /\ mem' = [mem EXCEPT !.pending = None]
  <2>1. mem'.pending = None /\ mem'.seq = saved.seq /\ saved.pending = mem.pending
        /\ saved.pending # None
    BY <1>6, SettledState DEF RecordInv, CopyInv, TypeOK
  <2>2. CopyInv'
    BY <1>1, <1>6, <2>1 DEF RecordInv, CopyInv
  <2>3. UsedInv'
    BY <1>1, <1>3, <1>6 DEF RecordInv, UsedInv
  <2> QED BY <1>2, <2>2, <2>3 DEF RecordInv
<1> QED BY <1>1, <1>5, <1>6 DEF Hear

LEMMA BackendRecords == TypeOK /\ RecordInv /\ Backend => RecordInv'
<1> SUFFICES ASSUME TypeOK, RecordInv, Backend PROVE RecordInv'
  OBVIOUS
<1>1. ASSUME NEW k \in Keys, FillOpen(k) PROVE RecordInv'
  BY <1>1, AnswerRecords DEF FillOpen
<1>2. ASSUME NEW k \in Keys, Replay(k) \/ Refuse(k) PROVE RecordInv'
  <2>1. Answered(k) /\ receipts' = receipts \union {}
    BY <1>2 DEF Replay, Refuse
  <2> QED BY <2>1, AnswerRecords
<1>3. ASSUME NEW k \in CloseKeys, NEW s \in {"exiting", "settled"}, AcceptClose(k, s)
      PROVE  RecordInv'
  BY <1>3, AnswerRecords, KeyParts DEF AcceptClose
<1> QED BY <1>1, <1>2, <1>3 DEF Backend

LEMMA OutsideRecords == RecordInv /\ (Outside \/ UNCHANGED vars) => RecordInv'
<1> SUFFICES ASSUME RecordInv, Outside \/ UNCHANGED vars PROVE RecordInv'
  OBVIOUS
<1>1. UNCHANGED <<sent, receipts, saved, mem, pc, pol, chosen>>
  BY DEF Outside, Settle, ToggleEntry, ChangePolicy, vars
<1> QED BY <1>1 DEF RecordInv, TradableIsOnRecord, OnRecord, CopyInv, UsedInv

-----------------------------------------------------------------------------
(* Room for a position *)

(* Room does not get less while nothing is opened.                          *)
LEMMA RoomKept ==
  ASSUME RoomInv, Unsettled' \subseteq Unsettled, receipts \subseteq receipts',
         saved'.pending = saved.pending \/ saved'.pending = None,
         pc' = "checkpoint" => pc = "checkpoint" /\ mem' = mem
  PROVE  RoomInv'
<1>1. /\ IsFiniteSet(Unsettled') /\ Cardinality(Unsettled') \in Nat
      /\ Cardinality(Unsettled) \in Nat
      /\ Cardinality(Unsettled') <= Cardinality(Unsettled)
  BY FS_Subset, FS_CardinalityType DEF RoomInv
<1>2. Held' \subseteq Held
  BY DEF Held
<1>3. \A k : Room(k) => Room(k)'
  BY <1>1, <1>2, PmAssumption DEF Room
<1>4. OnePositionPerMarket'
  BY DEF RoomInv, OnePositionPerMarket
<1>5. OpenWithinLimit'
  BY <1>1, PmAssumption DEF RoomInv, OpenWithinLimit
<1>6. (pc = "checkpoint" /\ mem.pending.key \in OpenKeys)' => Room(mem.pending.key)'
  BY <1>3 DEF RoomInv
<1>7. (saved.pending # None /\ saved.pending.key \in OpenKeys \ receipts)' =>
        Room(saved.pending.key)'
  BY <1>3 DEF RoomInv
<1> QED BY <1>1, <1>4, <1>5, <1>6, <1>7 DEF RoomInv

(* The one open that can still trade has room when it is executed.          *)
LEMMA RoomFilled ==
  ASSUME TypeOK, RecordInv, RoomInv, NEW k \in Keys, FillOpen(k)
  PROVE  RoomInv'
<1>1. /\ k \in sent /\ k \in OpenKeys \ receipts
      /\ position' = [position EXCEPT ![k] = "open"]
      /\ receipts' = receipts \union {k} /\ saved' = saved /\ Hear(k)
  BY DEF FillOpen, Answered
<1>2. saved.pending # None /\ saved.pending.key = k
  BY <1>1 DEF RecordInv, TradableIsOnRecord, OnRecord
<1>3. Room(k)
  BY <1>1, <1>2 DEF RoomInv
<1>4. Unsettled' = Unsettled \union {k}
  BY <1>1 DEF Unsettled, TypeOK
<1>5. IsFiniteSet(Unsettled') /\ Cardinality(Unsettled') <= MaxOpen
  <2>1. IsFiniteSet(Unsettled) /\ Cardinality(Unsettled) \in Nat /\ Cardinality(Unsettled) < MaxOpen
    BY <1>3, FS_CardinalityType DEF RoomInv, Room
  <2>2. /\ IsFiniteSet(Unsettled \union {k})
        /\ \/ Cardinality(Unsettled \union {k}) = Cardinality(Unsettled)
           \/ Cardinality(Unsettled \union {k}) = Cardinality(Unsettled) + 1
    BY <2>1, FS_AddElement
  <2> QED BY <1>4, <2>1, <2>2, PmAssumption
<1>6. OnePositionPerMarket'
  BY <1>3, <1>4 DEF RoomInv, OnePositionPerMarket, Room, Held
<1>7. pc' # "checkpoint"
  BY <1>1, <1>2 DEF RecordInv, CopyInv, Hear
<1> QED BY <1>1, <1>2, <1>5, <1>6, <1>7 DEF RoomInv, OpenWithinLimit

LEMMA CycleRoom == TypeOK /\ RecordInv /\ RoomInv /\ Cycle => RoomInv'
<1> SUFFICES ASSUME TypeOK, RecordInv, RoomInv, Cycle PROVE RoomInv'
  OBVIOUS
<1> USE DEF backend
<1>1. UNCHANGED <<position, receipts>>
  BY DEF Cycle, Begin, Skip, Forget, ReceiptFound, ReceiptMissing, ResendOpen, ResendClose,
         DecideOpen, ConfirmOpen, DecideClose, Checkpoint, Send, GiveUp, Persist, Crash
<1>2. Unsettled' = Unsettled /\ Held' = Held /\ receipts' = receipts
  BY <1>1 DEF Unsettled, Held
<1>3. CASE ConfirmOpen
  <2>1. chosen \in Opens /\ pol.floor \in Floors /\ mem = saved
    BY <1>3, PmAssumption DEF ConfirmOpen, RecordInv, CopyInv
  <2>2. mem'.pending.key = [intent |-> chosen, seq |-> mem.seq[chosen]]
    BY <1>3, <2>1, NewPending, KeyParts DEF ConfirmOpen
  <2>3. chosen.market \notin Held /\ Cardinality(Unsettled) < MaxOpen
    BY <1>3 DEF ConfirmOpen, Admits
  <2>4. Room(mem.pending.key)'
    BY <1>2, <2>2, <2>3 DEF Room
  <2>5. saved' = saved
    BY <1>3 DEF ConfirmOpen
  <2>6. IsFiniteSet(Unsettled)' /\ OnePositionPerMarket' /\ OpenWithinLimit'
    BY <1>2 DEF RoomInv, OnePositionPerMarket, OpenWithinLimit
  <2>7. (saved.pending # None /\ saved.pending.key \in OpenKeys \ receipts)' =>
          Room(saved.pending.key)'
    BY <1>2, <2>5 DEF RoomInv, Room
  <2> QED BY <2>4, <2>6, <2>7 DEF RoomInv
<1>4. ASSUME NEW p \in OpenKeys, DecideClose(p) PROVE RoomInv'
  <2>1. [kind |-> "close", position |-> p] \in Closes
    BY DEF Closes
  <2>2. mem'.pending.key \in CloseKeys
    BY <1>4, <2>1, NewPending, KeyParts DEF DecideClose
  <2>3. mem'.pending.key \notin OpenKeys /\ saved' = saved
    BY <1>4, <2>2, KeyParts DEF DecideClose
  <2>4. IsFiniteSet(Unsettled)' /\ OnePositionPerMarket' /\ OpenWithinLimit'
    BY <1>2 DEF RoomInv, OnePositionPerMarket, OpenWithinLimit
  <2>5. (saved.pending # None /\ saved.pending.key \in OpenKeys \ receipts)' =>
          Room(saved.pending.key)'
    BY <1>2, <2>3 DEF RoomInv, Room
  <2> QED BY <2>3, <2>4, <2>5 DEF RoomInv
<1>5. CASE Checkpoint
  <2>1. pc = "checkpoint" /\ saved' = mem /\ mem' = mem /\ pc' = "sending"
    BY <1>5 DEF Checkpoint
  <2>2. IsFiniteSet(Unsettled)' /\ OnePositionPerMarket' /\ OpenWithinLimit'
    BY <1>2 DEF RoomInv, OnePositionPerMarket, OpenWithinLimit
  <2>3. (saved.pending # None /\ saved.pending.key \in OpenKeys \ receipts)' =>
          Room(saved.pending.key)'
    BY <1>2, <2>1 DEF RoomInv, Room
  <2> QED BY <2>1, <2>2, <2>3 DEF RoomInv
<1>6. CASE Begin \/ ReceiptFound \/ ReceiptMissing \/ ResendOpen \/ ResendClose
           \/ (\E i \in Opens : DecideOpen(i)) \/ Send \/ GiveUp
  <2>1. saved' = saved /\ pc' # "checkpoint"
    BY <1>6 DEF Begin, ReceiptFound, ReceiptMissing, ResendOpen, ResendClose, DecideOpen,
                Send, GiveUp
  <2> QED BY <1>2, <2>1, RoomKept
<1>7. CASE Skip \/ Persist \/ Crash
  <2>1. pc' = "idle" /\ (saved'.pending = saved.pending \/ saved'.pending = None)
    BY <1>7 DEF Skip, Persist, Crash, Forget, RecordInv, CopyInv
  <2> QED BY <1>2, <2>1, RoomKept
<1> QED BY <1>3, <1>4, <1>5, <1>6, <1>7 DEF Cycle

LEMMA OtherRoom ==
  TypeOK /\ RecordInv /\ RoomInv /\ (Backend \/ Outside \/ UNCHANGED vars) => RoomInv'
<1> SUFFICES ASSUME TypeOK, RecordInv, RoomInv, Backend \/ Outside \/ UNCHANGED vars
             PROVE RoomInv'
  OBVIOUS
<1>1. ASSUME NEW k \in Keys, Answered(k), receipts \subseteq receipts',
             Unsettled' \subseteq Unsettled
      PROVE  RoomInv'
  BY <1>1, RoomKept DEF Answered, Hear
<1>2. ASSUME NEW k \in Keys, FillOpen(k) PROVE RoomInv'
  BY <1>2, RoomFilled
<1>3. ASSUME NEW k \in Keys, Replay(k) \/ Refuse(k) PROVE RoomInv'
  BY <1>1, <1>3 DEF Replay, Refuse, Unsettled
<1>4. ASSUME NEW k \in CloseKeys, NEW s \in {"exiting", "settled"}, AcceptClose(k, s)
      PROVE  RoomInv'
  <2>1. Unsettled' \subseteq Unsettled
    BY <1>4 DEF AcceptClose, Unsettled, TypeOK
  <2> QED BY <1>1, <1>4, <2>1, KeyParts DEF AcceptClose
<1>5. ASSUME NEW p \in OpenKeys, Settle(p) PROVE RoomInv'
  <2>1. Unsettled' \subseteq Unsettled
    BY <1>5 DEF Settle, Unsettled, TypeOK
  <2> QED BY <1>5, <2>1, RoomKept DEF Settle
<1>6. CASE ToggleEntry \/ (\E p \in Policies : ChangePolicy(p)) \/ UNCHANGED vars
  <2>1. UNCHANGED <<position, receipts, saved, mem, pc>>
    BY <1>6 DEF ToggleEntry, ChangePolicy, vars
  <2> QED BY <2>1, RoomKept DEF Unsettled
<1> QED BY <1>2, <1>3, <1>4, <1>5, <1>6 DEF Backend, Outside

-----------------------------------------------------------------------------
(* The policy of the cycle that sends *)

LEMMA PolicyStep ==
  TypeOK /\ RecordInv /\ PolicyInv /\ ChosenInv /\ [Next]_vars => PolicyInv' /\ ChosenInv'
<1> SUFFICES ASSUME TypeOK, RecordInv, PolicyInv, ChosenInv, [Next]_vars
             PROVE PolicyInv' /\ ChosenInv'
  OBVIOUS
<1> USE DEF backend
<1>1. CASE Begin \/ Skip \/ Persist \/ Crash \/ ReceiptFound \/ ReceiptMissing \/ GiveUp
  <2>1. pc' \in {"idle", "begun", "settled"} \/ (pc' = "probed" /\ pol'.live)
    BY <1>1 DEF Begin, Skip, Persist, Crash, Forget, ReceiptFound, ReceiptMissing, GiveUp
  <2> QED BY <2>1 DEF PolicyInv, ChosenInv
<1>2. CASE ResendOpen
  <2>1. mem = saved /\ mem.pending # None /\ pc' = "sending" /\ UNCHANGED <<mem, pol>>
    BY <1>2 DEF ResendOpen, RecordInv, CopyInv
  <2> QED BY <1>2, <2>1 DEF ResendOpen, Admits, PolicyInv, ChosenInv
<1>3. CASE ResendClose
  <2>1. mem.pending.key \notin OpenKeys /\ UNCHANGED <<mem, pol>> /\ pc' = "sending"
    BY <1>3, KeyParts DEF ResendClose
  <2> QED BY <2>1 DEF PolicyInv, ChosenInv
<1>4. ASSUME NEW i \in Opens, DecideOpen(i) PROVE PolicyInv' /\ ChosenInv'
  BY <1>4 DEF DecideOpen, PolicyInv, ChosenInv
<1>5. CASE ConfirmOpen
  <2>1. chosen \in Opens /\ pol.floor \in Floors /\ chosen.cash <= pol.cash
    BY <1>5, PmAssumption DEF ConfirmOpen, RecordInv, CopyInv, ChosenInv
  <2>2. /\ mem'.pending.key = [intent |-> chosen, seq |-> mem.seq[chosen]]
        /\ mem'.pending.floor = pol.floor
    BY <1>5, <2>1, NewPending, KeyParts DEF ConfirmOpen
  <2>3. mem'.pending.key.intent.cash <= pol.cash
    BY <2>1, <2>2
  <2> QED BY <1>5, <2>2, <2>3 DEF ConfirmOpen, MakePending, Admits, PolicyInv, ChosenInv
<1>6. ASSUME NEW p \in OpenKeys, DecideClose(p) PROVE PolicyInv' /\ ChosenInv'
  <2>1. mem'.pending.key \notin OpenKeys /\ pc' = "checkpoint"
    <3>1. [kind |-> "close", position |-> p] \in Closes
      BY DEF Closes
    <3>2. mem'.pending.key \in CloseKeys
      BY <1>6, <3>1, NewPending, KeyParts DEF DecideClose
    <3> QED BY <1>6, <3>2, KeyParts DEF DecideClose, MakePending
  <2> QED BY <2>1 DEF PolicyInv, ChosenInv
<1>7. CASE Checkpoint \/ Send
  BY <1>7 DEF Checkpoint, Send, PolicyInv, ChosenInv
<1>8. CASE Backend
  <2>1. UNCHANGED <<pol, chosen>> /\ (UNCHANGED <<pc, mem>> \/ pc' = "settled")
    BY <1>8 DEF Backend, FillOpen, Replay, Refuse, AcceptClose, Answered, Hear
  <2> QED BY <2>1 DEF PolicyInv, ChosenInv
<1>9. CASE Outside \/ UNCHANGED vars
  <2>1. UNCHANGED <<pol, chosen, pc, mem>>
    BY <1>9 DEF Outside, Settle, ToggleEntry, ChangePolicy, vars
  <2> QED BY <2>1 DEF PolicyInv, ChosenInv
<1> QED BY <1>1, <1>2, <1>3, <1>4, <1>5, <1>6, <1>7, <1>8, <1>9 DEF Next, Cycle

-----------------------------------------------------------------------------
IInv == TypeOK /\ RecordInv /\ RoomInv /\ PolicyInv /\ ChosenInv

LEMMA InitIInv == Init => IInv
<1> SUFFICES ASSUME Init PROVE IInv
  OBVIOUS
<1>1. Unsettled = {}
  BY DEF Init, Unsettled
<1>2. saved \in AgentStates /\ saved.pending = None
  BY PmAssumption DEF Init, AgentStates
<1>3. TypeOK
  BY <1>2 DEF Init, TypeOK, NoView
<1>4. RecordInv
  BY <1>2 DEF Init, RecordInv, TradableIsOnRecord, CopyInv, UsedInv
<1>5. RoomInv
  BY <1>1, <1>2, FS_EmptySet, PmAssumption DEF Init, RoomInv, OnePositionPerMarket, OpenWithinLimit
<1>6. PolicyInv /\ ChosenInv
  BY DEF Init, PolicyInv, ChosenInv
<1> QED BY <1>3, <1>4, <1>5, <1>6 DEF IInv

LEMMA NextIInv == IInv /\ [Next]_vars => IInv'
<1> SUFFICES ASSUME IInv, [Next]_vars PROVE IInv'
  OBVIOUS
<1>1. TypeOK /\ RecordInv /\ RoomInv /\ CopyInv
  BY DEF IInv, RecordInv
<1>2. PolicyInv' /\ ChosenInv'
  BY PolicyStep DEF IInv
<1>3. CASE Cycle
  BY <1>1, <1>2, <1>3, CycleTypes, CycleRecords, CycleRoom DEF IInv
<1>4. CASE Backend
  BY <1>1, <1>2, <1>4, BackendTypes, BackendRecords, OtherRoom DEF IInv
<1>5. CASE Outside \/ UNCHANGED vars
  <2>1. TypeOK'
    BY <1>1, <1>5, OutsideTypes DEF vars, TypeOK
  <2> QED BY <1>1, <1>2, <1>5, <2>1, OutsideRecords, OtherRoom DEF IInv
<1> QED BY <1>3, <1>4, <1>5 DEF Next

LEMMA SpecIInv == Spec => []IInv
BY InitIInv, NextIInv, PTL DEF Spec

(* The house's state keeps its type.                                        *)
THEOREM HouseTypes == Spec => []TypeOK
<1>1. IInv => TypeOK
  BY DEF IInv
<1> QED BY <1>1, SpecIInv, PTL

(* pmPaperCycle.ts:355: what can still trade is on record, at every crash.  *)
THEOREM NothingIsForgotten == Spec => []TradableIsOnRecord
<1>1. IInv => TradableIsOnRecord
  BY DEF IInv, RecordInv
<1> QED BY <1>1, SpecIInv, PTL

(* intentSeq: a new request never reuses a key.                             *)
THEOREM KeysAreFresh == Spec => []FreshKeyIsNew
<1>1. IInv => FreshKeyIsNew
  <2> SUFFICES ASSUME IInv, pc = "checkpoint" PROVE mem.pending.key \notin sent \union receipts
    BY DEF FreshKeyIsNew
  <2>1. mem.pending.key \in Keys
    BY StateParts DEF IInv, TypeOK, RecordInv, CopyInv
  <2>2. mem.pending.key.seq = saved.seq[mem.pending.key.intent] /\ mem.pending.key.seq \in Nat
    BY <2>1, KeyParts DEF IInv, RecordInv, UsedInv
  <2> QED BY <2>2 DEF IInv, RecordInv, UsedInv
<1> QED BY <1>1, SpecIInv, PTL

(* No market is entered twice, however late a request is executed.          *)
THEOREM MarketsAreHeldOnce == Spec => []OnePositionPerMarket
<1>1. IInv => OnePositionPerMarket
  BY DEF IInv, RoomInv
<1> QED BY <1>1, SpecIInv, PTL

(* maxOpenPositions holds although it was read before the request was made. *)
THEOREM LimitHolds == Spec => []OpenWithinLimit
<1>1. IInv => OpenWithinLimit
  BY DEF IInv, RoomInv
<1> QED BY <1>1, SpecIInv, PTL

(* Entries are sent, and sent again, only under a policy that admits them.  *)
THEOREM PolicyHolds == Spec => []SendsWithinPolicy
<1>1. IInv => SendsWithinPolicy
  BY DEF IInv, PolicyInv, SendsWithinPolicy
<1> QED BY <1>1, SpecIInv, PTL
=============================================================================
