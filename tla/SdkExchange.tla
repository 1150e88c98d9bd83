----------------------------- MODULE SdkExchange -----------------------------
(***************************************************************************)
(* An application on the Python SDK, over the life of a contract that only *)
(* grows.  It makes a call, gets the answer parsed, stores what it got     *)
(* with to_dict and reads it back with from_dict.  It may be restarted at  *)
(* any time, with the SDK of another release: what is in memory is lost,   *)
(* what is stored was written by whichever release ran then.  An SDK of    *)
(* an earlier release knows the required fields of a class, a later one    *)
(* the optional ones as well.                                              *)
(***************************************************************************)
EXTENDS SdkCodec, Naturals, Sequences, FiniteSets

CONSTANTS
  Answers,  \* what may be answered: [endpoint, status, doc]
  Standard, \* the statuses HTTPStatus has a name for
  None

\* An endpoint gives each status it documents the classes to try.
ASSUME AnswerAssumption ==
  \A a \in Answers : \A s \in DOMAIN a.endpoint : a.endpoint[s] \in Seq(Models)

VARIABLES
  answer,   \* the answer of the API to this call
  release,  \* the SDK the application runs on
  raising,  \* Client.raise_on_unexpected_status
  parsed,   \* the model it holds: where its class is in Tried, and its value
  stored,   \* the document it has stored, and the class and release that wrote it
  outcome   \* what the last call of the SDK gave

vars == <<answer, release, raising, parsed, stored, outcome>>

Releases == {"earlier", "later"}

\* The classes to try on this answer, as the running release has them.
Tried == IF answer.status \in DOMAIN answer.endpoint
         THEN answer.endpoint[answer.status] ELSE <<>>

InRelease(m, r) == IF r = "later" THEN m ELSE Earlier(m)

ClassAt(i) == InRelease(Tried[i], release)

Init ==
  /\ answer \in Answers
  /\ release \in Releases
  /\ raising \in BOOLEAN
  /\ parsed = None /\ stored = None /\ outcome = "asked"

\* Every class but the last is tried under an except clause.
FirstReadable(i) ==
  /\ Readable(ClassAt(i), answer.doc)
  /\ \A j \in 1 .. i - 1 : ~Readable(ClassAt(j), answer.doc)

_parse_response ==
  /\ outcome = "asked" /\ Tried # <<>>
  /\ \/ \E i \in DOMAIN Tried :
          /\ FirstReadable(i)
          /\ parsed' = [at |-> i, value |-> from_dict(ClassAt(i), answer.doc)]
          /\ outcome' = "parsed"
     \/ /\ \A i \in DOMAIN Tried : ~Readable(ClassAt(i), answer.doc)
        /\ outcome' = "unreadable"
        /\ UNCHANGED parsed
  /\ UNCHANGED <<answer, release, raising, stored>>

\* A documented status without a class gives None, an undocumented one None or
\* UnexpectedStatus.  One that HTTPStatus does not know raises before that.
NotParsed ==
  /\ outcome = "asked" /\ Tried = <<>>
  /\ outcome' = IF answer.status \notin Standard THEN "ValueError"
                ELSE IF raising /\ answer.status \notin DOMAIN answer.endpoint
                THEN "UnexpectedStatus" ELSE "nothing"
  /\ UNCHANGED <<answer, release, raising, parsed, stored>>

Save ==
  /\ parsed # None /\ outcome \in {"parsed", "loaded"}
  /\ IF Writable(ClassAt(parsed.at), parsed.value)
     THEN /\ stored' = [at |-> parsed.at, by |-> release,
                        doc |-> to_dict(ClassAt(parsed.at), parsed.value)]
          /\ outcome' = "saved"
     ELSE outcome' = "unsaved" /\ UNCHANGED stored
  /\ UNCHANGED <<answer, release, raising, parsed>>

\* The stored document is read by the class it was written by.
Load ==
  /\ outcome = "restarted"
  /\ IF Readable(ClassAt(stored.at), stored.doc)
     THEN /\ parsed' = [at |-> stored.at,
                        value |-> from_dict(ClassAt(stored.at), stored.doc)]
          /\ outcome' = "loaded"
     ELSE outcome' = "lost" /\ UNCHANGED parsed
  /\ UNCHANGED <<answer, release, raising, stored>>

\* Nothing is stored yet: the call is made again and has the same answer.
Restart(r) ==
  /\ release' = r /\ parsed' = None
  /\ outcome' = IF stored = None THEN "asked" ELSE "restarted"
  /\ UNCHANGED <<answer, raising, stored>>

Next ==
  \/ _parse_response
  \/ NotParsed
  \/ Save
  \/ Load
  \/ \E r \in Releases : Restart(r)

Spec == Init /\ [][Next]_vars

-----------------------------------------------------------------------------
(* Properties *)

\* What a value or a cell says, however it is spelled.
Meaning(x) == IF x = "zulu" THEN "offset" ELSE Spelled(x)

\* A key is where it should be when its cell says what the API said.  Only a class
\* that is not open may have dropped a key it did not demand, and only the class
\* of a nested object that is not open may have left out a key in that object.
SaysTheSame(m, k, f) ==
  \/ k \in DOMAIN f /\ Meaning(f[k]) = Meaning(answer.doc[k])
  \/ ~m.open /\ k \notin m.must /\ k \notin DOMAIN f
  \/ /\ k \in Shuts(m) /\ answer.doc[k] \in {"extra", "late"}
     /\ k \in DOMAIN f /\ f[k] = "good"

\* test_generated_contracts.py: a model "preserves wire values and unknown fields".
\* Whatever releases read, stored and reloaded an answer in turn, the application
\* holds what the API said: no key lost or made up, no value changed.
HoldsWhatWasSaid ==
  parsed # None =>
    /\ DOMAIN parsed.value \subseteq DOMAIN answer.doc
    /\ \A k \in DOMAIN answer.doc : SaysTheSame(Tried[parsed.at], k, parsed.value)

\* A stored document is never lost to an upgrade or a downgrade of the SDK, unless
\* the running release could not have read the answer itself.
UpgradeKeepsStore ==
  outcome = "lost" => ~Readable(ClassAt(stored.at), answer.doc)

\* What was parsed can be stored, but for a nullable list with an item its class
\* cannot read: from_dict keeps such a list as it came, and to_dict then fails.
\* The list may be the object's own or that of an object nested in it, which an
\* earlier release did not look into.
ParsedIsStorable ==
  outcome = "unsaved" =>
    \E k \in DOMAIN answer.doc :
      \/ k \in Tried[parsed.at].easyList /\ answer.doc[k] = "strayItem"
      \/ /\ k \in Tried[parsed.at].deepList /\ answer.doc[k] = "knotted"
         /\ release = "later"

\* An application that sees the parsed result alone can tell a refusal from a
\* success: by its class, or because its class demands "accepted".
RefusalIsTold ==
  parsed # None /\ answer.status >= 400 =>
    \A s \in {t \in DOMAIN answer.endpoint : t < 300} :
      \A i \in DOMAIN answer.endpoint[s] :
        answer.endpoint[s][i].class = Tried[parsed.at].class
          => "accepted" \in Tried[parsed.at].must

\* What the running release may do to a key of a document that the other release
\* has stored: the earlier one drops the optional keys of a class that is not open,
\* and either leaves out keys of nested objects that the other one had kept.
Wears(m, k) ==
  \/ /\ stored.by = "later" /\ release = "earlier"
     /\ ~m.open /\ k \notin m.must /\ k \notin DOMAIN stored'.doc
  \/ /\ stored.by # release
     /\ k \in Shuts(m) /\ stored.doc[k] \in {"extra", "late"}
     /\ k \in DOMAIN stored'.doc /\ stored'.doc[k] = "good"

\* Storing a document again wears it out only when releases change: the release
\* that wrote it writes every key back with the same meaning and adds none, an
\* upgrade loses no key of it, and a downgrade loses only the optional keys of
\* classes that are not open.
StoringIsStable ==
  [][stored # None =>
       /\ DOMAIN stored'.doc \subseteq DOMAIN stored.doc
       /\ \A k \in DOMAIN stored.doc :
            \/ /\ k \in DOMAIN stored'.doc
               /\ Meaning(stored'.doc[k]) = Meaning(stored.doc[k])
            \/ Wears(Tried[stored.at], k)]_vars
=============================================================================
