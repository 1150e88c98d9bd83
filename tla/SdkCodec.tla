------------------------------- MODULE SdkCodec -------------------------------
(***************************************************************************)
(* How the Python SDK reads and writes the JSON objects of the API         *)
(* (packages/sdk-python/coinrithm_sdk/models).  Every class there has the  *)
(* same from_dict and to_dict up to the fields it names, so a class is a   *)
(* record of what it does with them, and an object is a function from the  *)
(* keys that are present to what matters of their values:                  *)
(*   null       JSON null;                                                 *)
(*   good       a value of the kind the contract names, other than a time; *)
(*   zulu       a time spelled with Z;  offset: the same time with +00:00; *)
(*   strayItem  a list with an item its class cannot read;                 *)
(*   stray      any other value the field's conversion raises on, such as  *)
(*              an enum value or a shape this SDK does not know.           *)
(* Three more are objects, or lists of them, that their class can read,    *)
(* and that hold at some depth:                                            *)
(*   knotted    a strayItem that is kept as it came;                       *)
(*   extra      in an object of a class that is not open, a key that no    *)
(*              release has a field for;                                   *)
(*   late       in such an object, an optional key of its class.           *)
(* In memory a nested object goes by the cell it will be written as, and a *)
(* datetime is an instant.                                                 *)
(***************************************************************************)

Models ==
  [class: STRING, must: SUBSET STRING, strict: SUBSET STRING, time: SUBSET STRING,
   easy: SUBSET STRING, easyTime: SUBSET STRING, easyList: SUBSET STRING,
   plain: SUBSET STRING, open: BOOLEAN, deepList: SUBSET STRING,
   shut: SUBSET STRING, deepShut: SUBSET STRING, sheds: SUBSET {"extra", "late"}]

\* A class that demands nothing, converts nothing and keeps unknown keys.
Model(name) ==
  [class    |-> name,
   must     |-> {},    \* popped without a default: a missing key raises
   strict   |-> {},    \* converted, and what cannot be converted raises
   time     |-> {},    \* the same for a datetime
   easy     |-> {},    \* nullable: what cannot be converted is kept as it came
   easyTime |-> {},    \* the same for a datetime
   easyList |-> {},    \* the same for a list of objects, as a whole
   plain    |-> {},    \* optional and kept as it came (listed if not open)
   open     |-> TRUE,  \* keys without a field go to additional_properties
   deepList |-> {},    \* its objects hold an easyList, by way of an optional key
   shut     |-> {},    \* its objects are, or by required keys hold, ones not open
   deepShut |-> {},    \* its objects hold such ones, but by an optional key
   sheds    |-> {"extra"}] \* what the objects that are not open leave out

Typed(m) == m.strict \union m.easy \union m.easyList
Times(m) == m.time \union m.easyTime
Fields(m) == m.must \union Typed(m) \union Times(m) \union m.plain
Shuts(m) == m.shut \union m.deepShut

\* from_dict returns: KeyError, ValueError, TypeError or AttributeError otherwise.
Readable(m, doc) ==
  /\ m.must \subseteq DOMAIN doc
  /\ \A k \in (m.strict \union m.time) \intersect DOMAIN doc :
       doc[k] \notin {"null", "strayItem", "stray"}

\* Variant: keys without a field are never kept.
KeptIfKnown(m, doc) == DOMAIN doc \intersect Fields(m)

Kept(m, doc) == IF m.open THEN DOMAIN doc ELSE DOMAIN doc \intersect Fields(m)

\* A nested object is read by its own class, which may leave out keys as well.
Shed(m, k, cell) == IF k \in Shuts(m) /\ cell \in m.sheds THEN "good" ELSE cell

\* Variant: what a nullable field cannot convert becomes None.
ConvertedOrNone(m, k, cell) ==
  IF k \in m.easy /\ cell = "stray" THEN "null"
  ELSE IF k \in Times(m) /\ cell \in {"zulu", "offset"} THEN "instant"
  ELSE Shed(m, k, cell)

\* A field is converted to an object of its class or to a datetime, or kept.
Converted(m, k, cell) ==
  IF k \in Times(m) /\ cell \in {"zulu", "offset"} THEN "instant"
  ELSE Shed(m, k, cell)

from_dict(m, doc) == [k \in Kept(m, doc) |-> Converted(m, k, doc[k])]

\* The to_dict of a nested object raises when it holds a list kept as it came.
NestedWritable(m, value) ==
  \A k \in m.deepList \intersect DOMAIN value : value[k] # "knotted"

\* Variant: to_dict asks every nullable field for an object.
WritableIfConverted(m, value) ==
  /\ \A k \in (m.easyList \union m.easyTime) \intersect DOMAIN value :
       value[k] \notin {"strayItem", "stray"}
  /\ NestedWritable(m, value)

\* to_dict asks every item of a list for its to_dict, also when the list was kept
\* as it came: AttributeError.
Writable(m, value) ==
  /\ \A k \in m.easyList \intersect DOMAIN value : value[k] # "strayItem"
  /\ NestedWritable(m, value)

\* A datetime is written by isoformat.
Spelled(x) == IF x = "instant" THEN "offset" ELSE x

\* Variant: an optional attribute that is unset is written as null.
to_dict_nulls(m, value) ==
  [k \in Fields(m) \union DOMAIN value |->
     IF k \in DOMAIN value THEN Spelled(value[k]) ELSE "null"]

to_dict(m, value) == [k \in DOMAIN value |-> Spelled(value[k])]

\* The class in the SDK that was generated before any of its optional fields was
\* in the contract: their keys were unknown then, in nested classes too.
Earlier(m) ==
  [m EXCEPT
    !.strict = @ \intersect m.must, !.time = @ \intersect m.must,
    !.easy = @ \intersect m.must, !.easyTime = @ \intersect m.must,
    !.easyList = @ \intersect m.must, !.plain = {}, !.deepList = {},
    !.shut = @ \intersect m.must, !.deepShut = {}, !.sheds = {"extra", "late"}]
=============================================================================
