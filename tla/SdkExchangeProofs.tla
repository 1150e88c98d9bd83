-------------------------- MODULE SdkExchangeProofs --------------------------
(***************************************************************************)
(* For every set of endpoints and classes, and every document the API may  *)
(* answer: what the application holds and stores says what the API said.   *)
(* The invariant follows a document through parsing, storing and reloading *)
(* by any sequence of releases; reading and writing both keep the meaning  *)
(* of a cell, but for keys that objects of a class that is not open leave  *)
(* out, and a class of an earlier release demands the same keys.  What a   *)
(* release has left out once it does not have to leave out again.          *)
(* For the endpoints of this SDK: no refusal is taken for a success.       *)
(***************************************************************************)
EXTENDS SdkExchange, SdkEndpoints, TLAPS

\* What is derived from the answer under the class m of the later release.
Faithful(m, f) ==
  /\ DOMAIN f \subseteq DOMAIN answer.doc
  /\ \A k \in DOMAIN answer.doc : SaysTheSame(m, k, f)

\* f was made from g by the class c: no new key, and each with the same meaning or
\* without what c leaves out.
Derived(c, f, g) ==
  \A k \in DOMAIN f :
    /\ k \in DOMAIN g
    /\ \/ Meaning(f[k]) = Meaning(g[k])
       \/ k \in Shuts(c) /\ g[k] \in c.sheds /\ f[k] = "good"

\* c would leave nothing out of f.
Fitted(c, f) ==
  /\ ~c.open => DOMAIN f \subseteq Fields(c)
  /\ \A k \in DOMAIN f : k \in Shuts(c) => f[k] \notin c.sheds

TriedClasses == Tried \in Seq(Models)

HeldInv ==
  parsed # None =>
    /\ parsed.at \in DOMAIN Tried
    /\ Faithful(Tried[parsed.at], parsed.value)
    /\ Fitted(ClassAt(parsed.at), parsed.value)

StoredInv ==
  stored # None =>
    /\ stored.at \in DOMAIN Tried /\ stored.by \in Releases
    /\ Faithful(Tried[stored.at], stored.doc)
    /\ Fitted(InRelease(Tried[stored.at], stored.by), stored.doc)

PhaseInv ==
  /\ outcome \in {"asked", "parsed"} => stored = None
  /\ outcome \in {"restarted", "lost"} => stored # None
  /\ outcome = "loaded" =>
       /\ stored # None /\ parsed.at = stored.at
       /\ parsed.value = from_dict(ClassAt(stored.at), stored.doc)

IInv ==
  /\ TriedClasses /\ release \in Releases
  /\ HeldInv /\ StoredInv /\ PhaseInv
  /\ UpgradeKeepsStore /\ ParsedIsStorable

-----------------------------------------------------------------------------
(* Reading and writing *)

LEMMA MeaningOfConverted ==
  ASSUME NEW m, NEW k, NEW cell
  PROVE  \/ Meaning(Converted(m, k, cell)) = Meaning(cell)
         \/ k \in Shuts(m) /\ cell \in m.sheds /\ Converted(m, k, cell) = "good"
  BY DEF Meaning, Converted, Shed, Spelled

LEMMA MeaningOfSpelled ==
  ASSUME NEW x
  PROVE  Meaning(Spelled(x)) = Meaning(x)
  BY DEF Meaning, Spelled

\* Everything but a time is said in one way only.
LEMMA PlainMeaning ==
  ASSUME NEW x, NEW y, Meaning(x) = Meaning(y),
         y \in {"null", "good", "stray", "strayItem", "knotted", "extra", "late"}
  PROVE  x = y
  BY DEF Meaning, Spelled

\* A class of either release demands the same keys and is as open; the earlier one
\* has no fields, lists or objects that the later one does not have.
LEMMA ClassInRelease ==
  ASSUME NEW m \in Models, NEW r
  PROVE  /\ InRelease(m, r).must = m.must
         /\ InRelease(m, r).open = m.open
         /\ InRelease(m, r).sheds \subseteq {"extra", "late"}
         /\ InRelease(m, r).easyList \subseteq m.easyList
         /\ InRelease(m, r).deepList \subseteq m.deepList
         /\ r # "later" => InRelease(m, r).deepList = {}
         /\ Shuts(InRelease(m, r)) \subseteq Shuts(m)
         /\ Fields(InRelease(m, r)) \subseteq Fields(m)
  BY DEF Models, InRelease, Earlier, Shuts, Fields, Typed, Times

LEMMA ReadIsDerived ==
  ASSUME NEW m, NEW doc
  PROVE  Derived(m, from_dict(m, doc), doc)
  <1>1. SUFFICES ASSUME NEW k \in Kept(m, doc)
                 PROVE  /\ k \in DOMAIN doc
                        /\ \/ Meaning(Converted(m, k, doc[k])) = Meaning(doc[k])
                           \/ /\ k \in Shuts(m) /\ doc[k] \in m.sheds
                              /\ Converted(m, k, doc[k]) = "good"
    BY DEF Derived, from_dict
  <1>2. k \in DOMAIN doc
    BY DEF Kept
  <1> QED
    BY <1>2, MeaningOfConverted

\* What a class has read it has left nothing in to leave out.
LEMMA ReadIsFitted ==
  ASSUME NEW m, m.sheds \subseteq {"extra", "late"}, NEW doc
  PROVE  Fitted(m, from_dict(m, doc))
  <1>1. DOMAIN from_dict(m, doc) = Kept(m, doc)
    BY DEF from_dict
  <1>2. ASSUME NEW k \in Kept(m, doc), k \in Shuts(m)
        PROVE  Converted(m, k, doc[k]) \notin m.sheds
    BY <1>2 DEF Converted, Shed
  <1>3. \A k \in DOMAIN from_dict(m, doc) :
          k \in Shuts(m) => from_dict(m, doc)[k] \notin m.sheds
    BY <1>1, <1>2 DEF from_dict
  <1> QED
    BY <1>1, <1>3 DEF Fitted, Kept

LEMMA WrittenIsFitted ==
  ASSUME NEW m, m.sheds \subseteq {"extra", "late"}, NEW value, Fitted(m, value)
  PROVE  Fitted(m, to_dict(m, value))
  <1>1. ASSUME NEW x, x \notin m.sheds
        PROVE  Spelled(x) \notin m.sheds
    BY <1>1 DEF Spelled
  <1> QED
    BY <1>1 DEF Fitted, to_dict

LEMMA WrittenIsDerived ==
  ASSUME NEW m, NEW value
  PROVE  /\ DOMAIN to_dict(m, value) = DOMAIN value
         /\ \A k \in DOMAIN value :
              /\ Meaning(to_dict(m, value)[k]) = Meaning(value[k])
              /\ value[k] = "good" => to_dict(m, value)[k] = "good"
  BY MeaningOfSpelled DEF to_dict, Spelled

-----------------------------------------------------------------------------
(* What is derived from a faithful document, all of its keys or all that a  *)
(* closed class has fields for, is faithful.                                *)

LEMMA ReadIsFaithful ==
  ASSUME NEW m \in Models, NEW r, NEW doc, Faithful(m, doc)
  PROVE  Faithful(m, from_dict(InRelease(m, r), doc))
  <1> DEFINE c == InRelease(m, r)
             f == from_dict(c, doc)
  <1>1. Derived(c, f, doc)
    BY ReadIsDerived
  <1>2. DOMAIN f = Kept(c, doc)
    BY DEF from_dict
  <1>3. DOMAIN f \subseteq DOMAIN answer.doc
    BY <1>1 DEF Derived, Faithful
  <1>4. /\ c.must = m.must /\ c.open = m.open
        /\ c.sheds \subseteq {"extra", "late"} /\ Shuts(c) \subseteq Shuts(m)
    BY ClassInRelease
  <1>5. ASSUME NEW k \in DOMAIN answer.doc
        PROVE  SaysTheSame(m, k, f)
    <2>1. SaysTheSame(m, k, doc)
      BY DEF Faithful
    <2>2. CASE k \in DOMAIN f
      <3>1. k \in DOMAIN doc
        BY <1>1, <2>2 DEF Derived
      <3>2. CASE Meaning(f[k]) = Meaning(doc[k])
        <4>1. CASE Meaning(doc[k]) = Meaning(answer.doc[k])
          BY <2>2, <3>2, <4>1 DEF SaysTheSame
        <4>2. CASE /\ k \in Shuts(m) /\ answer.doc[k] \in {"extra", "late"}
                   /\ doc[k] = "good"
          <5>1. f[k] = "good"
            BY <3>2, <4>2, PlainMeaning
          <5> QED
            BY <2>2, <4>2, <5>1 DEF SaysTheSame
        <4> QED
          BY <2>1, <3>1, <4>1, <4>2 DEF SaysTheSame
      <3>3. CASE k \in Shuts(c) /\ doc[k] \in c.sheds /\ f[k] = "good"
        <4>1. k \in Shuts(m) /\ doc[k] \in {"extra", "late"}
          BY <1>4, <3>3
        <4>2. Meaning(doc[k]) = Meaning(answer.doc[k])
          BY <2>1, <3>1, <4>1 DEF SaysTheSame
        <4>3. answer.doc[k] \in {"extra", "late"}
          BY <4>1, <4>2 DEF Meaning, Spelled
        <4> QED
          BY <2>2, <3>3, <4>1, <4>3 DEF SaysTheSame
      <3> QED
        BY <1>1, <2>2, <3>2, <3>3 DEF Derived
    <2>3. CASE k \notin DOMAIN f
      <3>1. CASE k \in DOMAIN doc
        <4>1. ~c.open /\ k \notin Fields(c)
          BY <1>2, <2>3, <3>1 DEF Kept
        <4> QED
          BY <1>4, <2>3, <4>1 DEF SaysTheSame, Fields
      <3>2. CASE k \notin DOMAIN doc
        BY <2>1, <2>3, <3>2 DEF SaysTheSame
      <3> QED
        BY <3>1, <3>2
    <2> QED
      BY <2>2, <2>3
  <1> QED
    BY <1>3, <1>5 DEF Faithful

LEMMA WrittenIsFaithful ==
  ASSUME NEW m, NEW c, NEW value, Faithful(m, value)
  PROVE  Faithful(m, to_dict(c, value))
  <1> DEFINE f == to_dict(c, value)
  <1>1. DOMAIN f = DOMAIN value
    BY WrittenIsDerived
  <1>2. DOMAIN f \subseteq DOMAIN answer.doc
    BY <1>1 DEF Faithful
  <1>3. ASSUME NEW k \in DOMAIN answer.doc
        PROVE  SaysTheSame(m, k, f)
    <2>1. SaysTheSame(m, k, value)
      BY DEF Faithful
    <2>2. k \in DOMAIN f => /\ Meaning(f[k]) = Meaning(value[k])
                            /\ value[k] = "good" => f[k] = "good"
      BY <1>1, WrittenIsDerived
    <2> HIDE DEF f
    <2> QED
      BY <1>1, <2>1, <2>2 DEF SaysTheSame
  <1> QED
    BY <1>2, <1>3 DEF Faithful

LEMMA AnswerIsFaithful ==
  ASSUME NEW m
  PROVE  Faithful(m, answer.doc)
  BY DEF Faithful, SaysTheSame

\* A release that can read the answer can read every faithful document.
LEMMA FaithfulIsReadable ==
  ASSUME NEW m \in Models, NEW c, c.must = m.must,
         NEW doc, Faithful(m, doc), Readable(c, answer.doc)
  PROVE  Readable(c, doc)
  <1>1. c.must \subseteq DOMAIN doc
    BY DEF Readable, Faithful, SaysTheSame
  <1>2. ASSUME NEW k \in (c.strict \union c.time) \intersect DOMAIN doc
        PROVE  doc[k] \notin {"null", "strayItem", "stray"}
    <2>1. k \in DOMAIN answer.doc
      BY DEF Faithful
    <2>2. Meaning(doc[k]) = Meaning(answer.doc[k]) \/ doc[k] = "good"
      BY <2>1 DEF Faithful, SaysTheSame
    <2>3. answer.doc[k] \notin {"null", "strayItem", "stray"}
      BY <2>1 DEF Readable
    <2> QED
      BY <2>2, <2>3, PlainMeaning
  <1> QED
    BY <1>1, <1>2 DEF Readable

\* The class in use and the class of the later release.
LEMMA ClassInUse ==
  ASSUME TriedClasses, NEW i \in DOMAIN Tried
  PROVE  /\ Tried[i] \in Models
         /\ ClassAt(i).must = Tried[i].must
         /\ ClassAt(i).sheds \subseteq {"extra", "late"}
         /\ ClassAt(i).easyList \subseteq Tried[i].easyList
         /\ ClassAt(i).deepList \subseteq Tried[i].deepList
         /\ release # "later" => ClassAt(i).deepList = {}
  <1>1. Tried[i] \in Models
    BY DEF TriedClasses
  <1> QED
    BY <1>1, ClassInRelease DEF ClassAt

-----------------------------------------------------------------------------
(* The invariant *)

LEMMA InitHolds == Init => IInv
  <1> SUFFICES ASSUME Init PROVE IInv
    OBVIOUS
  <1>1. TriedClasses
    BY AnswerAssumption DEF Init, TriedClasses, Tried
  <1> QED
    BY <1>1 DEF Init, IInv, HeldInv, StoredInv, PhaseInv, UpgradeKeepsStore,
                ParsedIsStorable

\* What is true of the answer does not change with the steps.
LEMMA SameAnswer ==
  ASSUME answer' = answer
  PROVE  /\ Tried' = Tried
         /\ TriedClasses => TriedClasses'
         /\ \A i, f : Faithful(Tried[i], f) =>
                       /\ DOMAIN f \subseteq DOMAIN answer'.doc
                       /\ \A k \in DOMAIN answer'.doc : SaysTheSame(Tried[i], k, f)
  BY DEF Tried, TriedClasses, Faithful

\* An invariant about what is held, in the next state.
LEMMA HeldNext ==
  ASSUME answer' = answer,
         parsed' # None => /\ release' = release
                           /\ parsed'.at \in DOMAIN Tried
                           /\ Faithful(Tried[parsed'.at], parsed'.value)
                           /\ Fitted(ClassAt(parsed'.at), parsed'.value)
  PROVE  HeldInv'
  <1>1. SUFFICES ASSUME parsed' # None
                 PROVE  /\ parsed'.at \in DOMAIN Tried'
                        /\ Faithful(Tried[parsed.at], parsed.value)'
                        /\ Fitted(ClassAt(parsed.at), parsed.value)'
    BY DEF HeldInv
  <1>2. parsed'.at \in DOMAIN Tried' /\ Faithful(Tried[parsed.at], parsed.value)'
    BY <1>1, SameAnswer DEF Faithful, SaysTheSame
  <1>3. Fitted(ClassAt(parsed.at), parsed.value)'
    BY <1>1, SameAnswer DEF ClassAt, Fitted
  <1> QED
    BY <1>2, <1>3

LEMMA StoredNext ==
  ASSUME answer' = answer,
         stored' # None =>
           /\ stored'.at \in DOMAIN Tried /\ stored'.by \in Releases
           /\ Faithful(Tried[stored'.at], stored'.doc)
           /\ Fitted(InRelease(Tried[stored'.at], stored'.by), stored'.doc)
  PROVE  StoredInv'
  <1>1. SUFFICES ASSUME stored' # None
                 PROVE  /\ stored'.at \in DOMAIN Tried' /\ stored'.by \in Releases
                        /\ Faithful(Tried[stored.at], stored.doc)'
                        /\ Fitted(InRelease(Tried[stored.at], stored.by), stored.doc)'
    BY DEF StoredInv, Releases
  <1>2. /\ stored'.at \in DOMAIN Tried' /\ stored'.by \in Releases
        /\ Faithful(Tried[stored.at], stored.doc)'
    BY <1>1, SameAnswer DEF Faithful, SaysTheSame
  <1>3. Fitted(InRelease(Tried[stored.at], stored.by), stored.doc)'
    BY <1>1, SameAnswer DEF Fitted
  <1> QED
    BY <1>2, <1>3

LEMMA ParseKeeps == IInv /\ _parse_response => IInv'
  <1> SUFFICES ASSUME IInv, _parse_response PROVE IInv'
    OBVIOUS
  <1> USE DEF _parse_response
  <1>1. answer' = answer /\ stored' = stored /\ release' = release
    OBVIOUS
  <1>2. TriedClasses /\ TriedClasses'
    BY <1>1, SameAnswer DEF IInv
  <1>3. HeldInv'
    <2>1. CASE UNCHANGED parsed
      BY <1>1, <2>1, HeldNext DEF IInv, HeldInv
    <2>2. CASE ~UNCHANGED parsed
      <3>1. PICK i \in DOMAIN Tried :
              parsed' = [at |-> i, value |-> from_dict(ClassAt(i), answer.doc)]
        BY <2>2
      <3>2. Faithful(Tried[i], answer.doc)
        BY AnswerIsFaithful
      <3>3. Faithful(Tried[i], from_dict(ClassAt(i), answer.doc))
        BY <1>2, <3>2, ClassInUse, ReadIsFaithful DEF ClassAt
      <3>4. Fitted(ClassAt(i), from_dict(ClassAt(i), answer.doc))
        BY <1>2, ClassInUse, ReadIsFitted
      <3> QED
        BY <1>1, <3>1, <3>3, <3>4, HeldNext
    <2> QED
      BY <2>1, <2>2
  <1>4. StoredInv'
    BY <1>1, StoredNext DEF IInv, StoredInv
  <1>5. PhaseInv' /\ UpgradeKeepsStore' /\ ParsedIsStorable'
    <2>1. outcome' \in {"parsed", "unreadable"} /\ stored = None
      BY DEF IInv, PhaseInv
    <2> QED
      BY <1>1, <2>1 DEF PhaseInv, UpgradeKeepsStore, ParsedIsStorable
  <1>6. release' \in Releases
    BY <1>1 DEF IInv
  <1> QED
    BY <1>2, <1>3, <1>4, <1>5, <1>6 DEF IInv

LEMMA SaveKeeps == IInv /\ Save => IInv'
  <1> SUFFICES ASSUME IInv, Save PROVE IInv'
    OBVIOUS
  <1> DEFINE m == Tried[parsed.at]
             c == ClassAt(parsed.at)
  <1>1. answer' = answer /\ parsed' = parsed /\ release' = release
    BY DEF Save
  <1>2. TriedClasses /\ TriedClasses' /\ release \in Releases /\ release' \in Releases
    BY <1>1, SameAnswer DEF IInv
  <1>3. HeldInv'
    BY <1>1, HeldNext DEF IInv, HeldInv
  <1>4. /\ parsed.at \in DOMAIN Tried
        /\ Faithful(m, parsed.value) /\ Fitted(c, parsed.value)
    BY DEF IInv, HeldInv, Save
  <1>5. CASE Writable(c, parsed.value)
    <2>1. /\ stored' = [at |-> parsed.at, by |-> release,
                        doc |-> to_dict(c, parsed.value)]
          /\ outcome' = "saved"
      BY <1>5 DEF Save
    <2>2. Faithful(m, to_dict(c, parsed.value))
      BY <1>4, WrittenIsFaithful
    <2>3. Fitted(c, to_dict(c, parsed.value))
      BY <1>2, <1>4, ClassInUse, WrittenIsFitted
    <2>4. Fitted(InRelease(m, release), to_dict(c, parsed.value))
      BY <2>3 DEF ClassAt
    <2>5. StoredInv'
      <3> HIDE DEF c
      <3> QED
        BY <1>1, <1>2, <1>4, <2>1, <2>2, <2>4, StoredNext
    <2>6. PhaseInv' /\ UpgradeKeepsStore' /\ ParsedIsStorable'
      BY <2>1 DEF PhaseInv, UpgradeKeepsStore, ParsedIsStorable
    <2> QED
      BY <1>2, <1>3, <2>5, <2>6 DEF IInv
  <1>6. CASE ~Writable(c, parsed.value)
    <2>1. outcome' = "unsaved" /\ stored' = stored
      BY <1>6 DEF Save
    <2>2. StoredInv'
      BY <1>1, <2>1, StoredNext DEF IInv, StoredInv
    <2>3. PICK k \in DOMAIN parsed.value :
            \/ k \in c.easyList /\ parsed.value[k] = "strayItem"
            \/ k \in c.deepList /\ parsed.value[k] = "knotted"
      BY <1>6 DEF Writable, NestedWritable
    <2>4. /\ c.easyList \subseteq m.easyList /\ c.deepList \subseteq m.deepList
          /\ release # "later" => c.deepList = {}
      BY <1>2, <1>4, ClassInUse
    <2>5. k \in DOMAIN answer.doc /\ Meaning(parsed.value[k]) = Meaning(answer.doc[k])
      BY <1>4, <2>3 DEF Faithful, SaysTheSame
    <2>6. answer.doc[k] = parsed.value[k]
      BY <2>3, <2>5, PlainMeaning
    <2>7. \/ k \in m.easyList /\ answer.doc[k] = "strayItem"
          \/ k \in m.deepList /\ answer.doc[k] = "knotted" /\ release = "later"
      BY <2>3, <2>4, <2>6
    <2>8. ParsedIsStorable'
      BY <1>1, <2>5, <2>7, SameAnswer DEF ParsedIsStorable
    <2>9. PhaseInv' /\ UpgradeKeepsStore'
      BY <2>1 DEF PhaseInv, UpgradeKeepsStore
    <2> QED
      BY <1>2, <1>3, <2>2, <2>8, <2>9 DEF IInv
  <1> QED
    BY <1>5, <1>6

LEMMA LoadKeeps == IInv /\ Load => IInv'
  <1> SUFFICES ASSUME IInv, Load PROVE IInv'
    OBVIOUS
  <1> DEFINE c == ClassAt(stored.at)
  <1>1. answer' = answer /\ stored' = stored /\ release' = release
    BY DEF Load
  <1>2. TriedClasses /\ TriedClasses' /\ release' \in Releases
    BY <1>1, SameAnswer DEF IInv
  <1>3. stored # None
    BY DEF IInv, PhaseInv, Load
  <1>4. stored.at \in DOMAIN Tried /\ Faithful(Tried[stored.at], stored.doc)
    BY <1>3 DEF IInv, StoredInv
  <1>5. StoredInv'
    BY <1>1, StoredNext DEF IInv, StoredInv
  <1>6. CASE Readable(c, stored.doc)
    <2>1. /\ parsed' = [at |-> stored.at, value |-> from_dict(c, stored.doc)]
          /\ outcome' = "loaded"
      BY <1>6 DEF Load
    <2>2. Faithful(Tried[stored.at], from_dict(c, stored.doc))
      BY <1>2, <1>4, ClassInUse, ReadIsFaithful DEF ClassAt
    <2>3. Fitted(c, from_dict(c, stored.doc))
      BY <1>2, <1>4, ClassInUse, ReadIsFitted
    <2>4. HeldInv'
      BY <1>1, <1>4, <2>1, <2>2, <2>3, HeldNext
    <2>5. PhaseInv'
      <3>1. parsed'.value = from_dict(ClassAt(stored.at), stored.doc)'
        BY <1>1, <2>1, SameAnswer DEF ClassAt
      <3> QED
        BY <1>1, <1>3, <2>1, <3>1 DEF PhaseInv
    <2>6. UpgradeKeepsStore' /\ ParsedIsStorable'
      BY <2>1 DEF UpgradeKeepsStore, ParsedIsStorable
    <2> QED
      BY <1>2, <1>5, <2>4, <2>5, <2>6 DEF IInv
  <1>7. CASE ~Readable(c, stored.doc)
    <2>1. outcome' = "lost" /\ parsed' = parsed
      BY <1>7 DEF Load
    <2>2. HeldInv'
      BY <1>1, <2>1, HeldNext DEF IInv, HeldInv
    <2>3. ~Readable(c, answer.doc)
      BY <1>2, <1>4, <1>7, ClassInUse, FaithfulIsReadable
    <2>4. UpgradeKeepsStore'
      BY <1>1, <2>3, SameAnswer DEF UpgradeKeepsStore, ClassAt
    <2>5. PhaseInv' /\ ParsedIsStorable'
      BY <1>1, <1>3, <2>1 DEF PhaseInv, ParsedIsStorable
    <2> QED
      BY <1>2, <1>5, <2>2, <2>4, <2>5 DEF IInv
  <1> QED
    BY <1>6, <1>7

\* A restart, an answer without a model, and stuttering.
LEMMA OthersKeep ==
  ASSUME IInv,
         \/ NotParsed
         \/ \E r \in Releases : Restart(r)
         \/ UNCHANGED vars
  PROVE  IInv'
  <1>1. /\ answer' = answer /\ stored' = stored
        /\ (parsed' = parsed /\ release' = release) \/ parsed' = None
    BY DEF NotParsed, Restart, vars
  <1>2. TriedClasses' /\ Tried' = Tried /\ release' \in Releases
    BY <1>1, SameAnswer DEF IInv, NotParsed, Restart, vars
  <1>3. HeldInv'
    BY <1>1, HeldNext DEF IInv, HeldInv
  <1>4. StoredInv'
    BY <1>1, StoredNext DEF IInv, StoredInv
  <1>5. CASE NotParsed
    <2>1. outcome' \in {"ValueError", "UnexpectedStatus", "nothing"}
      BY <1>5 DEF NotParsed
    <2>2. PhaseInv' /\ UpgradeKeepsStore' /\ ParsedIsStorable'
      BY <2>1 DEF PhaseInv, UpgradeKeepsStore, ParsedIsStorable
    <2> QED
      BY <1>2, <1>3, <1>4, <2>2 DEF IInv
  <1>6. CASE \E r \in Releases : Restart(r)
    <2>1. outcome' = IF stored = None THEN "asked" ELSE "restarted"
      BY <1>6 DEF Restart
    <2>2. PhaseInv' /\ UpgradeKeepsStore' /\ ParsedIsStorable'
      BY <1>1, <2>1 DEF PhaseInv, UpgradeKeepsStore, ParsedIsStorable
    <2> QED
      BY <1>2, <1>3, <1>4, <2>2 DEF IInv
  <1>7. CASE UNCHANGED vars
    <2>1. PhaseInv'
      BY <1>7, <1>2 DEF IInv, PhaseInv, ClassAt, vars
    <2>2. UpgradeKeepsStore' /\ ParsedIsStorable'
      BY <1>7, <1>2 DEF IInv, UpgradeKeepsStore, ParsedIsStorable, ClassAt, vars
    <2> QED
      BY <1>2, <1>3, <1>4, <2>1, <2>2 DEF IInv
  <1> QED
    BY <1>5, <1>6, <1>7

LEMMA StepKeeps == IInv /\ [Next]_vars => IInv'
  BY ParseKeeps, SaveKeeps, LoadKeeps, OthersKeep DEF Next

LEMMA InvariantHolds == Spec => []IInv
  BY InitHolds, StepKeeps, PTL DEF Spec

-----------------------------------------------------------------------------
(* Refusals and successes of the endpoints of this SDK                       *)

\* The classes that refusals are read by, and nothing else.
RefusalClasses ==
  {"Error", "OpenFuturesPositionResponse422", "SetFuturesSlTpResponse422",
   "PmPaperV2Failure", "GetPmPaperV2PositionsResponse503", "PmPaperV2Refused",
   "OpenPmPositionResponse422", "PublicMessageError", "RetryableUnavailableError",
   "AgentUniverseValidationError", "GetSpotReferenceResponse404",
   "PlaceSpotOrderResponse400", "PlaceSpotOrderResponse404"}

\* A class tried on a refusal is one of these or demands "accepted", and none of
\* these is tried on a success.
TellsApart(s, models) ==
  \A i \in DOMAIN models :
    /\ s < 300 => models[i].class \notin RefusalClasses
    /\ s >= 400 => models[i].class \in RefusalClasses \/ "accepted" \in models[i].must

Told(e) == \A s \in DOMAIN e : TellsApart(s, e[s])

Successes == {200, 201, 202}
Refusals  == {400, 401, 403, 404, 409, 422, 429, 500, 502, 503}

\* An endpoint tells them apart when its parts do.
LEMMA Joined ==
  ASSUME NEW e, NEW f, Told(e), Told(f)
  PROVE  Told(e ++ f)
  BY DEF Told, ++

\* What a part must keep to: a success is read by a class of its own,
LEMMA SuccessTold ==
  ASSUME NEW S \in SUBSET Successes, NEW m, m.class \notin RefusalClasses
  PROVE  Told(Reads(S, <<m>>))
  BY DEF Told, Reads, TellsApart, Successes

\* a refusal by a class of refusals,
LEMMA RefusalTold ==
  ASSUME NEW S \in SUBSET Refusals, NEW m, m.class \in RefusalClasses
  PROVE  Told(Reads(S, <<m>>))
  <1>1. \A s \in S : ~(s < 300)
    BY DEF Refusals
  <1> QED
    BY <1>1 DEF Told, Reads, TellsApart

\* or by the first of two that fits,
LEMMA TwoTold ==
  ASSUME NEW S \in SUBSET Refusals, NEW m, NEW n, m.class \in RefusalClasses,
         n.class \in RefusalClasses \/ "accepted" \in n.must
  PROVE  Told(Reads(S, <<m, n>>))
  <1>1. \A s \in S : ~(s < 300)
    BY DEF Refusals
  <1> QED
    BY <1>1 DEF Told, Reads, TellsApart

\* both by a class that demands "accepted", and nothing by no class at all.
LEMMA AcceptedTold ==
  ASSUME NEW S, NEW m, m.class \notin RefusalClasses, "accepted" \in m.must
  PROVE  Told(Reads(S, <<m>>))
  BY DEF Told, Reads, TellsApart

LEMMA NothingTold ==
  ASSUME NEW S
  PROVE  Told(NoModel(S))
  BY DEF Told, NoModel, Reads, TellsApart

LEMMA RefusalClassNames ==
  /\ Error.class \in RefusalClasses
  /\ OpenFuturesPositionResponse422.class \in RefusalClasses
  /\ SetFuturesSlTpResponse422.class \in RefusalClasses
  /\ PmPaperV2Failure.class \in RefusalClasses
  /\ GetPmPaperV2PositionsResponse503.class \in RefusalClasses
  /\ PmPaperV2Refused.class \in RefusalClasses
  /\ OpenPmPositionResponse422.class \in RefusalClasses
  /\ PublicMessageError.class \in RefusalClasses
  /\ RetryableUnavailableError.class \in RefusalClasses
  /\ AgentUniverseValidationError.class \in RefusalClasses
  /\ GetSpotReferenceResponse404.class \in RefusalClasses
  /\ PlaceSpotOrderResponse400.class \in RefusalClasses
  /\ PlaceSpotOrderResponse404.class \in RefusalClasses
  BY DEF RefusalClasses, Model,
    Error, OpenFuturesPositionResponse422, SetFuturesSlTpResponse422,
    PmPaperV2Failure, GetPmPaperV2PositionsResponse503, PmPaperV2Refused,
    OpenPmPositionResponse422, PublicMessageError, RetryableUnavailableError,
    AgentUniverseValidationError, GetSpotReferenceResponse404,
    PlaceSpotOrderResponse400, PlaceSpotOrderResponse404

\* No class of a success has the name of one of them.
LEMMA TradingClassNames ==
  /\ FuturesPositionEnvelope.class \notin RefusalClasses
  /\ FuturesQuoteResponse.class \notin RefusalClasses
  /\ WhoamiResponse200.class \notin RefusalClasses
  /\ PmPaperV2DiscoveryResponse.class \notin RefusalClasses
  /\ PmDiscoveryResponse.class \notin RefusalClasses
  /\ PmPaperV2PositionsResponse.class \notin RefusalClasses
  /\ PmPaperV2Opened.class \notin RefusalClasses
  /\ PmPositionEnvelope.class \notin RefusalClasses
  /\ PmQuoteResponse.class \notin RefusalClasses
  /\ PmOpportunityResponse.class \notin RefusalClasses
  /\ GetAgentNewsResponse200.class \notin RefusalClasses
  /\ AgentUniverseResponse.class \notin RefusalClasses
  /\ AgentUniverseSectorsResponse.class \notin RefusalClasses
  /\ GetCandlesResponse200.class \notin RefusalClasses
  /\ GetEquityCurveResponse200.class \notin RefusalClasses
  /\ GetFuturesPositionsResponse200.class \notin RefusalClasses
  /\ GetMarketContextResponse200.class \notin RefusalClasses
  /\ GetMyTradesResponse200.class \notin RefusalClasses
  /\ GetPerformanceResponse200.class \notin RefusalClasses
  /\ GetPmPositionsResponse200.class \notin RefusalClasses
  /\ AgentPortfolio.class \notin RefusalClasses
  /\ Wallet.class \notin RefusalClasses
  /\ ListOpenOrdersResponse200.class \notin RefusalClasses
  /\ ResolveSymbolResponse200.class \notin RefusalClasses
  /\ CancelSpotOrderResponse200.class \notin RefusalClasses
  /\ SpotReferenceResponse.class \notin RefusalClasses
  /\ SpotOrderResponse.class \notin RefusalClasses
  /\ SpotQuoteResponse.class \notin RefusalClasses
  BY DEF RefusalClasses, Model,
    FuturesPositionEnvelope, FuturesQuoteResponse, WhoamiResponse200,
    PmPaperV2DiscoveryResponse, PmDiscoveryResponse, PmPaperV2PositionsResponse,
    PmPaperV2Opened, PmPositionEnvelope, PmQuoteResponse, PmOpportunityResponse,
    GetAgentNewsResponse200, AgentUniverseResponse, AgentUniverseSectorsResponse,
    GetCandlesResponse200, GetEquityCurveResponse200, GetFuturesPositionsResponse200,
    GetMarketContextResponse200, GetMyTradesResponse200, GetPerformanceResponse200,
    GetPmPositionsResponse200, AgentPortfolio, Wallet, ListOpenOrdersResponse200,
    ResolveSymbolResponse200, CancelSpotOrderResponse200, SpotReferenceResponse,
    SpotOrderResponse, SpotQuoteResponse

LEMMA AgentClassNames ==
  /\ AgentLedgerExport.class \notin RefusalClasses
  /\ AgentLedgerResponse.class \notin RefusalClasses
  /\ GetArenaAgentResponse200.class \notin RefusalClasses
  /\ AgentDecisionArtifact.class \notin RefusalClasses
  /\ GetArenaDecisionsResponse200.class \notin RefusalClasses
  /\ GetArenaLeaderboardResponse200.class \notin RefusalClasses
  /\ AgentScorecardResponse.class \notin RefusalClasses
  /\ ScorecardRunDetail.class \notin RefusalClasses
  /\ GetCompetitionBoardResponse200.class \notin RefusalClasses
  /\ ScorecardRunListPage.class \notin RefusalClasses
  /\ ListCompetitionsResponse200.class \notin RefusalClasses
  BY DEF RefusalClasses, Model,
    AgentLedgerExport, AgentLedgerResponse, GetArenaAgentResponse200,
    AgentDecisionArtifact, GetArenaDecisionsResponse200,
    GetArenaLeaderboardResponse200, AgentScorecardResponse, ScorecardRunDetail,
    GetCompetitionBoardResponse200, ScorecardRunListPage, ListCompetitionsResponse200

LEMMA PublicPmClassNames ==
  /\ PublicPmCalibrationResponse.class \notin RefusalClasses
  /\ PublicPmCanonicalDetailResponse.class \notin RefusalClasses
  /\ GetPublicPredictionMarketConsensusMethodologyResponse200.class \notin RefusalClasses
  /\ PublicPmDisagreementsResponse.class \notin RefusalClasses
  /\ PublicPmEventDetailResponse.class \notin RefusalClasses
  /\ PublicPmEventHoldersResponse.class \notin RefusalClasses
  /\ PublicPmEventRevisionsResponse.class \notin RefusalClasses
  /\ PublicPmOrderBookResponse.class \notin RefusalClasses
  /\ PublicPmOverviewResponse.class \notin RefusalClasses
  /\ GetPublicPredictionMarketPriceHistoryResponse200.class \notin RefusalClasses
  /\ PublicPmSourcesHealthResponse.class \notin RefusalClasses
  /\ PublicPmSourcesResponse.class \notin RefusalClasses
  /\ PublicPmPricesHistoryResponse.class \notin RefusalClasses
  /\ PublicPmTradesResponse.class \notin RefusalClasses
  /\ PublicPmVolumeHistoryResponse.class \notin RefusalClasses
  /\ GetPublicPredictionMarketWhaleWalletResponse200.class \notin RefusalClasses
  /\ GetPublicPredictionMarketWhaleWalletsResponse200.class \notin RefusalClasses
  /\ PublicPmWhalesResponse.class \notin RefusalClasses
  /\ PublicPmExpiringEventsResponse.class \notin RefusalClasses
  /\ PublicPmCanonicalListResponse.class \notin RefusalClasses
  /\ PublicPmSurprisesResponse.class \notin RefusalClasses
  /\ PublicPmResolvedEventsResponse.class \notin RefusalClasses
  /\ PublicPmEventsResponse.class \notin RefusalClasses
  BY DEF RefusalClasses, Model,
    PublicPmCalibrationResponse, PublicPmCanonicalDetailResponse,
    GetPublicPredictionMarketConsensusMethodologyResponse200,
    PublicPmDisagreementsResponse, PublicPmEventDetailResponse,
    PublicPmEventHoldersResponse, PublicPmEventRevisionsResponse,
    PublicPmOrderBookResponse, PublicPmOverviewResponse,
    GetPublicPredictionMarketPriceHistoryResponse200, PublicPmSourcesHealthResponse,
    PublicPmSourcesResponse, PublicPmPricesHistoryResponse, PublicPmTradesResponse,
    PublicPmVolumeHistoryResponse, GetPublicPredictionMarketWhaleWalletResponse200,
    GetPublicPredictionMarketWhaleWalletsResponse200, PublicPmWhalesResponse,
    PublicPmExpiringEventsResponse, PublicPmCanonicalListResponse,
    PublicPmSurprisesResponse, PublicPmResolvedEventsResponse, PublicPmEventsResponse

LEMMA PublicClassNames ==
  /\ PublicCoinDetail.class \notin RefusalClasses
  /\ PublicCoinCandles.class \notin RefusalClasses
  /\ PublicCoinPrice.class \notin RefusalClasses
  /\ PublicMarketSnapshot.class \notin RefusalClasses
  /\ PublicCryptoMover.class \notin RefusalClasses
  /\ PublicCoinListResponse.class \notin RefusalClasses
  /\ PublicLivePricesResponse.class \notin RefusalClasses
  /\ PublicCryptoTreasuryResponse.class \notin RefusalClasses
  /\ PublicInstrumentMarkets.class \notin RefusalClasses
  /\ PublicLargeTradesResponse.class \notin RefusalClasses
  /\ PublicLiquidationsResponse.class \notin RefusalClasses
  /\ PublicNotableLargeTradesResponse.class \notin RefusalClasses
  /\ PublicTradfiReferenceDetail.class \notin RefusalClasses
  /\ PublicSecFilingsResponse.class \notin RefusalClasses
  /\ PublicCftcPositioningResponse.class \notin RefusalClasses
  /\ PublicTickerTreasuryResponse.class \notin RefusalClasses
  /\ PublicTradfiReferenceCatalog.class \notin RefusalClasses
  BY DEF RefusalClasses, Model,
    PublicCoinDetail, PublicCoinCandles, PublicCoinPrice, PublicMarketSnapshot,
    PublicCryptoMover, PublicCoinListResponse, PublicLivePricesResponse,
    PublicCryptoTreasuryResponse, PublicInstrumentMarkets, PublicLargeTradesResponse,
    PublicLiquidationsResponse, PublicNotableLargeTradesResponse,
    PublicTradfiReferenceDetail, PublicSecFilingsResponse,
    PublicCftcPositioningResponse, PublicTickerTreasuryResponse,
    PublicTradfiReferenceCatalog

\* The usual endpoint has one class for its successes and Error for its refusals.
LEMMA UsualTold ==
  ASSUME NEW m, m.class \notin RefusalClasses, NEW R \in SUBSET Refusals
  PROVE  Told(Reads({200}, <<m>>) ++ Reads(R, <<Error>>))
  <1>1. Told(Reads({200}, <<m>>))
    BY SuccessTold DEF Successes
  <1> QED
    BY <1>1, RefusalTold, RefusalClassNames, Joined

LEMMA UsualEndpoints ==
  /\ Told(close_futures_position)
  /\ Told(futures_quote)
  /\ Told(whoami)
  /\ Told(export_agent_ledger)
  /\ Told(list_agent_ledger)
  /\ Told(discover_pm_paper_v2)
  /\ Told(discover_prediction_markets)
  /\ Told(pm_quote)
  /\ Told(get_public_coin_candles)
  /\ Told(get_public_top_gainers)
  /\ Told(get_public_top_losers)
  /\ Told(list_public_coins)
  /\ Told(list_public_live_prices)
  /\ Told(get_public_prediction_market_calibration)
  /\ Told(get_public_prediction_market_canonical_event)
  /\ Told(get_public_prediction_market_disagreements)
  /\ Told(get_public_prediction_market_event)
  /\ Told(get_public_prediction_market_event_revisions)
  /\ Told(get_public_prediction_market_overview)
  /\ Told(get_public_prediction_market_price_history)
  /\ Told(get_public_prediction_market_volume_history)
  /\ Told(list_public_expiring_prediction_markets)
  /\ Told(list_public_prediction_market_canonical_events)
  /\ Told(list_public_prediction_market_surprises)
  /\ Told(list_public_resolved_prediction_markets)
  /\ Told(search_public_prediction_market_events)
  /\ Told(get_agent_news)
  /\ Told(get_agent_universe_sectors)
  /\ Told(get_arena_agent)
  /\ Told(get_arena_decision_artifact)
  /\ Told(get_arena_leaderboard)
  /\ Told(get_arena_scorecard)
  /\ Told(get_arena_scorecard_run)
  /\ Told(get_competition_board)
  /\ Told(get_equity_curve)
  /\ Told(get_futures_positions)
  /\ Told(get_my_trades)
  /\ Told(get_performance)
  /\ Told(get_pm_positions)
  /\ Told(get_portfolio)
  /\ Told(get_wallet)
  /\ Told(list_arena_scorecard_runs)
  /\ Told(list_competitions)
  /\ Told(list_open_orders)
  /\ Told(resolve_symbol)
  /\ Told(cancel_spot_order)
  /\ Told(spot_quote)
  <1>1. /\ Told(close_futures_position)
       /\ Told(futures_quote)
       /\ Told(whoami)
       /\ Told(export_agent_ledger)
       /\ Told(list_agent_ledger)
       /\ Told(discover_pm_paper_v2)
       /\ Told(discover_prediction_markets)
       /\ Told(pm_quote)
    BY UsualTold, TradingClassNames, AgentClassNames, PublicPmClassNames, PublicClassNames
    DEF Refusals,
      close_futures_position, futures_quote, whoami, export_agent_ledger,
      list_agent_ledger, discover_pm_paper_v2, discover_prediction_markets,
      pm_quote
  <1>2. /\ Told(get_public_coin_candles)
       /\ Told(get_public_top_gainers)
       /\ Told(get_public_top_losers)
       /\ Told(list_public_coins)
       /\ Told(list_public_live_prices)
    BY UsualTold, TradingClassNames, AgentClassNames, PublicPmClassNames, PublicClassNames
    DEF Refusals,
      get_public_coin_candles, get_public_top_gainers, get_public_top_losers,
      list_public_coins, list_public_live_prices
  <1>3. /\ Told(get_public_prediction_market_calibration)
       /\ Told(get_public_prediction_market_canonical_event)
       /\ Told(get_public_prediction_market_disagreements)
       /\ Told(get_public_prediction_market_event)
       /\ Told(get_public_prediction_market_event_revisions)
       /\ Told(get_public_prediction_market_overview)
       /\ Told(get_public_prediction_market_price_history)
       /\ Told(get_public_prediction_market_volume_history)
       /\ Told(list_public_expiring_prediction_markets)
       /\ Told(list_public_prediction_market_canonical_events)
       /\ Told(list_public_prediction_market_surprises)
       /\ Told(list_public_resolved_prediction_markets)
       /\ Told(search_public_prediction_market_events)
    BY UsualTold, TradingClassNames, AgentClassNames, PublicPmClassNames, PublicClassNames
    DEF Refusals,
      get_public_prediction_market_calibration,
      get_public_prediction_market_canonical_event,
      get_public_prediction_market_disagreements,
      get_public_prediction_market_event,
      get_public_prediction_market_event_revisions,
      get_public_prediction_market_overview,
      get_public_prediction_market_price_history,
      get_public_prediction_market_volume_history,
      list_public_expiring_prediction_markets,
      list_public_prediction_market_canonical_events,
      list_public_prediction_market_surprises,
      list_public_resolved_prediction_markets,
      search_public_prediction_market_events
  <1>4. /\ Told(get_agent_news)
       /\ Told(get_agent_universe_sectors)
       /\ Told(get_arena_agent)
       /\ Told(get_arena_decision_artifact)
       /\ Told(get_arena_leaderboard)
       /\ Told(get_arena_scorecard)
       /\ Told(get_arena_scorecard_run)
       /\ Told(get_competition_board)
       /\ Told(get_equity_curve)
       /\ Told(get_futures_positions)
       /\ Told(get_my_trades)
    BY UsualTold, TradingClassNames, AgentClassNames, PublicPmClassNames, PublicClassNames
    DEF Refusals,
      get_agent_news, get_agent_universe_sectors, get_arena_agent,
      get_arena_decision_artifact, get_arena_leaderboard, get_arena_scorecard,
      get_arena_scorecard_run, get_competition_board, get_equity_curve,
      get_futures_positions, get_my_trades
  <1>5. /\ Told(get_performance)
       /\ Told(get_pm_positions)
       /\ Told(get_portfolio)
       /\ Told(get_wallet)
       /\ Told(list_arena_scorecard_runs)
       /\ Told(list_competitions)
       /\ Told(list_open_orders)
       /\ Told(resolve_symbol)
       /\ Told(cancel_spot_order)
       /\ Told(spot_quote)
    BY UsualTold, TradingClassNames, AgentClassNames, PublicPmClassNames, PublicClassNames
    DEF Refusals,
      get_performance, get_pm_positions, get_portfolio, get_wallet,
      list_arena_scorecard_runs, list_competitions, list_open_orders,
      resolve_symbol, cancel_spot_order, spot_quote
  <1> QED
    BY <1>1, <1>2, <1>3, <1>4, <1>5

\* The reference data adds a status without a class.
LEMMA ReferenceEndpoints ==
  /\ Told(get_public_crypto_treasuries)
  /\ Told(get_public_instrument_markets)
  /\ Told(get_public_large_trades)
  /\ Told(get_public_liquidations)
  /\ Told(get_public_notable_large_trades)
  /\ Told(get_public_tradfi_reference)
  /\ Told(get_public_tradfi_reference_filings)
  /\ Told(get_public_tradfi_reference_positioning)
  /\ Told(get_public_tradfi_reference_treasury)
  /\ Told(list_public_tradfi_references)
  BY SuccessTold, RefusalTold, RefusalClassNames, Joined, NothingTold, PublicClassNames
  DEF Successes, Refusals,
    get_public_crypto_treasuries, get_public_instrument_markets,
    get_public_large_trades, get_public_liquidations, get_public_notable_large_trades,
    get_public_tradfi_reference, get_public_tradfi_reference_filings,
    get_public_tradfi_reference_positioning, get_public_tradfi_reference_treasury,
    list_public_tradfi_references

LEMMA OtherEndpoints ==
  /\ Told(open_futures_position)
  /\ Told(set_futures_sl_tp)
  /\ Told(get_pm_paper_v2_positions)
  /\ Told(open_pm_paper_v2)
  /\ Told(open_pm_position)
  /\ Told(replay_pm_paper_v2_open)
  /\ Told(report_pm_opportunity)
  /\ Told(get_public_coin)
  /\ Told(get_public_coin_price)
  /\ Told(get_public_market_snapshot)
  /\ Told(get_healthz)
  /\ Told(get_public_prediction_market_consensus_methodology)
  /\ Told(get_public_prediction_market_event_holders)
  /\ Told(get_public_prediction_market_order_book)
  /\ Told(get_public_prediction_market_source_health)
  /\ Told(get_public_prediction_market_sources)
  /\ Told(get_public_prediction_market_token_price_history)
  /\ Told(get_public_prediction_market_trades)
  /\ Told(get_public_prediction_market_whale_wallet)
  /\ Told(get_public_prediction_market_whale_wallets)
  /\ Told(get_public_prediction_market_whales)
  /\ Told(stream_public_prediction_market_events)
  /\ Told(get_agent_universe)
  /\ Told(get_arena_decisions)
  /\ Told(get_candles)
  /\ Told(get_market_context)
  /\ Told(get_spot_reference)
  /\ Told(place_spot_order)
  <1>1. /\ Told(get_public_coin)
       /\ Told(get_public_coin_price)
       /\ Told(get_public_market_snapshot)
       /\ Told(get_public_prediction_market_event_holders)
       /\ Told(get_public_prediction_market_order_book)
       /\ Told(get_public_prediction_market_token_price_history)
       /\ Told(get_public_prediction_market_trades)
    BY UsualTold, SuccessTold, RefusalTold, RefusalClassNames, Joined, PublicClassNames,
       PublicPmClassNames
    DEF Successes, Refusals, 
      get_public_coin, get_public_coin_price, get_public_market_snapshot,
      get_public_prediction_market_event_holders,
      get_public_prediction_market_order_book,
      get_public_prediction_market_token_price_history,
      get_public_prediction_market_trades
  <1>2. /\ Told(get_public_prediction_market_source_health)
       /\ Told(get_public_prediction_market_sources)
       /\ Told(get_public_prediction_market_whale_wallet)
       /\ Told(get_public_prediction_market_whale_wallets)
       /\ Told(get_public_prediction_market_whales)
    BY UsualTold, SuccessTold, RefusalTold, RefusalClassNames, NothingTold, Joined,
       PublicPmClassNames
    DEF Successes, Refusals, 
      get_public_prediction_market_source_health,
      get_public_prediction_market_sources, get_public_prediction_market_whale_wallet,
      get_public_prediction_market_whale_wallets, get_public_prediction_market_whales
  <1>3. /\ Told(get_healthz)
       /\ Told(stream_public_prediction_market_events)
    BY NothingTold
    DEF 
      get_healthz, stream_public_prediction_market_events
  <1>4. /\ Told(get_public_prediction_market_consensus_methodology)
    BY SuccessTold, PublicPmClassNames
    DEF Successes, 
      get_public_prediction_market_consensus_methodology
  <1>5. /\ Told(get_agent_universe)
       /\ Told(get_arena_decisions)
       /\ Told(get_candles)
       /\ Told(get_market_context)
    BY UsualTold, SuccessTold, RefusalTold, RefusalClassNames, NothingTold, Joined,
       AgentClassNames, TradingClassNames
    DEF Successes, Refusals, 
      get_agent_universe, get_arena_decisions, get_candles, get_market_context
  <1>6. /\ Told(open_pm_paper_v2)
       /\ Told(replay_pm_paper_v2_open)
    BY SuccessTold, RefusalTold, TwoTold, RefusalClassNames, Joined, TradingClassNames
    DEF Successes, Refusals, 
      open_pm_paper_v2, replay_pm_paper_v2_open
  <1>7. /\ Told(get_spot_reference)
       /\ Told(place_spot_order)
    BY UsualTold, SuccessTold, RefusalTold, RefusalClassNames, Joined, TradingClassNames
    DEF Successes, Refusals, 
      get_spot_reference, place_spot_order
  <1>8. /\ Told(open_futures_position)
       /\ Told(set_futures_sl_tp)
       /\ Told(get_pm_paper_v2_positions)
       /\ Told(open_pm_position)
       /\ Told(report_pm_opportunity)
    BY UsualTold, SuccessTold, RefusalTold, RefusalClassNames, Joined, TradingClassNames
    DEF Successes, Refusals, 
      open_futures_position, set_futures_sl_tp, get_pm_paper_v2_positions,
      open_pm_position, report_pm_opportunity
  <1> QED
    BY <1>1, <1>2, <1>3, <1>4, <1>5, <1>6, <1>7, <1>8

\* A close may be answered by its result whether it was accepted or not.
LEMMA CloseTold == Told(close_pm_paper_v2)
  <1>1. PmPaperV2CloseResult.class \notin RefusalClasses /\ "accepted" \in PmPaperV2CloseResult.must
    BY DEF PmPaperV2CloseResult, Model, RefusalClasses
  <1>2. Told(Reads({200, 202, 404, 409}, <<PmPaperV2CloseResult>>))
    BY <1>1, AcceptedTold
  <1>3. Told(Reads({400}, <<Error, PmPaperV2CloseResult>>))
    BY <1>1, TwoTold, RefusalClassNames DEF Refusals
  <1>4. Told(Reads({401, 403, 429}, <<Error>>)) /\ Told(Reads({503}, <<PmPaperV2Failure>>))
    BY RefusalTold, RefusalClassNames DEF Refusals
  <1> QED
    BY <1>2, <1>3, <1>4, Joined DEF close_pm_paper_v2

LEMMA EveryEndpointTold == \A e \in Endpoints : Told(e)
  BY UsualEndpoints, ReferenceEndpoints, OtherEndpoints, CloseTold DEF Endpoints

\* The answers are those of the endpoints, or of a class read by itself.
AnswersAreDocumented ==
  \A a \in Answers : a.endpoint \in Endpoints \/ DOMAIN a.endpoint = {200}

AnswerIsDocumented == answer \in Answers

LEMMA AnswerStaysDocumented == Spec => []AnswerIsDocumented
  <1> USE DEF AnswerIsDocumented
  <1>1. Init => AnswerIsDocumented
    BY DEF Init
  <1>2. AnswerIsDocumented /\ [Next]_vars => AnswerIsDocumented'
    BY DEF Next, vars, _parse_response, NotParsed, Save, Load, Restart
  <1> QED
    BY <1>1, <1>2, PTL DEF Spec

-----------------------------------------------------------------------------
(* The theorems *)

\* Whatever the endpoints, the classes and the answer: what the application holds
\* says what the API said.
THEOREM AnswersAreKept == Spec => []HoldsWhatWasSaid
  <1>1. IInv => HoldsWhatWasSaid
    BY DEF IInv, HeldInv, Faithful, HoldsWhatWasSaid
  <1> QED
    BY <1>1, InvariantHolds, PTL

\* No stored document is lost to an upgrade or a downgrade that could have read
\* the answer itself.
THEOREM UpgradesAreSafe == Spec => []UpgradeKeepsStore
  <1>1. IInv => UpgradeKeepsStore
    BY DEF IInv
  <1> QED
    BY <1>1, InvariantHolds, PTL

\* Storing fails only on a nullable list with an unreadable item that was kept as
\* it came: the object's own, or, in a release that looks into them, that of an
\* object nested in it.
THEOREM StoringFailsOnLists == Spec => []ParsedIsStorable
  <1>1. IInv => ParsedIsStorable
    BY DEF IInv
  <1> QED
    BY <1>1, InvariantHolds, PTL

\* A document that one release wrote, read and written again by the same or the other.
LEMMA Restored ==
  ASSUME NEW m \in Models, NEW r \in Releases, NEW by \in Releases, NEW doc,
         Fitted(InRelease(m, by), doc), NEW k \in DOMAIN doc,
         NEW d, d = to_dict(InRelease(m, r), from_dict(InRelease(m, r), doc))
  PROVE  \/ k \in DOMAIN d /\ Meaning(d[k]) = Meaning(doc[k])
         \/ /\ by = "later" /\ r = "earlier"
            /\ ~m.open /\ k \notin m.must /\ k \notin DOMAIN d
         \/ /\ by # r
            /\ k \in Shuts(m) /\ doc[k] \in {"extra", "late"}
            /\ k \in DOMAIN d /\ d[k] = "good"
  <1> DEFINE c == InRelease(m, r)
             w == InRelease(m, by)
             f == from_dict(c, doc)
  <1>1. /\ DOMAIN d = DOMAIN f
        /\ \A j \in DOMAIN f : /\ Meaning(d[j]) = Meaning(f[j])
                               /\ f[j] = "good" => d[j] = "good"
    BY WrittenIsDerived
  <1>2. Derived(c, f, doc)
    BY ReadIsDerived
  <1>3. DOMAIN f = Kept(c, doc)
    BY DEF from_dict
  <1>4. /\ c.must = m.must /\ c.open = m.open /\ w.open = m.open
        /\ c.sheds \subseteq {"extra", "late"}
        /\ Shuts(c) \subseteq Shuts(m) /\ Fields(w) \subseteq Fields(m)
    BY ClassInRelease
  <1>5. by = r => w = c
    OBVIOUS
  <1>6. r = "later" => c = m
    BY DEF InRelease
  <1>7. Fitted(w, doc)
    OBVIOUS
  <1> HIDE DEF c, w, f
  <1>8. CASE k \in DOMAIN f
    <2>1. CASE Meaning(f[k]) = Meaning(doc[k])
      BY <1>1, <1>8, <2>1
    <2>2. CASE k \in Shuts(c) /\ doc[k] \in c.sheds /\ f[k] = "good"
      <3>1. by # r
        BY <1>5, <1>7, <2>2 DEF Fitted
      <3>2. k \in Shuts(m) /\ doc[k] \in {"extra", "late"}
        BY <1>4, <2>2
      <3>3. k \in DOMAIN d /\ d[k] = "good"
        BY <1>1, <1>8, <2>2
      <3> QED
        BY <3>1, <3>2, <3>3
    <2> QED
      BY <1>2, <1>8, <2>1, <2>2 DEF Derived
  <1>9. CASE k \notin DOMAIN f
    <2>1. ~c.open /\ k \notin Fields(c)
      BY <1>3, <1>9 DEF Kept
    <2>2. k \in Fields(w)
      BY <1>4, <1>7, <2>1 DEF Fitted
    <2>3. by # r /\ r # "later"
      BY <1>4, <1>5, <1>6, <2>1, <2>2
    <2>4. by = "later" /\ r = "earlier"
      BY <2>3 DEF Releases
    <2>5. ~m.open /\ k \notin m.must /\ k \notin DOMAIN d
      BY <1>1, <1>4, <1>9, <2>1 DEF Fields
    <2> QED
      BY <2>4, <2>5
  <1> QED
    BY <1>8, <1>9

\* The release that wrote a document writes it again without a change of meaning;
\* an upgrade loses no key of it, and a downgrade only optional keys of classes that
\* are not open.
THEOREM StoringKeepsMeaning == Spec => StoringIsStable
  <1> DEFINE Stable ==
        stored # None =>
          /\ DOMAIN stored'.doc \subseteq DOMAIN stored.doc
          /\ \A k \in DOMAIN stored.doc :
               \/ /\ k \in DOMAIN stored'.doc
                  /\ Meaning(stored'.doc[k]) = Meaning(stored.doc[k])
               \/ Wears(Tried[stored.at], k)
  <1>1. IInv /\ [Next]_vars => [Stable]_vars
    <2> SUFFICES ASSUME IInv, Next, stored # None PROVE Stable
      OBVIOUS
    <2>1. CASE stored' = stored
      BY <2>1
    <2>2. CASE Save /\ stored' # stored
      <3> DEFINE m == Tried[stored.at]
                 c == InRelease(m, release)
                 d == to_dict(c, from_dict(c, stored.doc))
      <3>1. outcome = "loaded"
        BY <2>2 DEF IInv, PhaseInv, Save
      <3>2. parsed.at = stored.at /\ parsed.value = from_dict(c, stored.doc)
        BY <3>1 DEF IInv, PhaseInv, ClassAt
      <3>3. stored'.doc = d
        BY <2>2, <3>2 DEF Save, ClassAt
      <3>4. /\ m \in Models /\ release \in Releases /\ stored.by \in Releases
            /\ Fitted(InRelease(m, stored.by), stored.doc)
        BY ClassInUse DEF IInv, StoredInv
      <3>5. DOMAIN d \subseteq DOMAIN stored.doc
        BY ReadIsDerived, WrittenIsDerived DEF Derived
      <3> HIDE DEF m
      <3>6. ASSUME NEW k \in DOMAIN stored.doc
            PROVE  \/ k \in DOMAIN d /\ Meaning(d[k]) = Meaning(stored.doc[k])
                   \/ /\ stored.by = "later" /\ release = "earlier"
                      /\ ~m.open /\ k \notin m.must /\ k \notin DOMAIN d
                   \/ /\ stored.by # release
                      /\ k \in Shuts(m) /\ stored.doc[k] \in {"extra", "late"}
                      /\ k \in DOMAIN d /\ d[k] = "good"
        BY <3>4, Restored
      <3> HIDE DEF c, d
      <3> QED
        BY <3>3, <3>5, <3>6 DEF Wears, m
    <2> QED
      BY <2>1, <2>2 DEF Next, _parse_response, NotParsed, Load, Restart
  <1> QED
    BY <1>1, InvariantHolds, PTL DEF Spec, StoringIsStable

\* For every endpoint of this SDK, whatever document it answers with and whichever
\* releases read and store it: a refusal is not taken for a success.
THEOREM RefusalsAreTold ==
  ASSUME AnswersAreDocumented
  PROVE  Spec => []RefusalIsTold
  <1>1. IInv /\ AnswerIsDocumented => RefusalIsTold
    <2> SUFFICES ASSUME IInv, AnswerIsDocumented, parsed # None, answer.status >= 400,
                        NEW s \in DOMAIN answer.endpoint, s < 300,
                        NEW i \in DOMAIN answer.endpoint[s],
                        answer.endpoint[s][i].class = Tried[parsed.at].class
                 PROVE  "accepted" \in Tried[parsed.at].must
      BY DEF RefusalIsTold
    <2>1. /\ answer.status \in DOMAIN answer.endpoint
          /\ Tried = answer.endpoint[answer.status] /\ parsed.at \in DOMAIN Tried
      BY DEF IInv, HeldInv, Tried
    <2>2. answer.endpoint \in Endpoints
      BY <2>1 DEF AnswersAreDocumented, AnswerIsDocumented
    <2>3. TellsApart(answer.status, Tried) /\ TellsApart(s, answer.endpoint[s])
      BY <2>1, <2>2, EveryEndpointTold DEF Told
    <2> QED
      BY <2>1, <2>3 DEF TellsApart
  <1> QED
    BY <1>1, InvariantHolds, AnswerStaysDocumented, PTL
=============================================================================
