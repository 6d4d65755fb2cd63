------------------------------ MODULE LuaJson ------------------------------
(***************************************************************************)
(* The JSON functions of the Lua module "common" (processor/lua/loader.go):*)
(* a script passes a table to jsonMarshal and the text it gets to          *)
(* jsonUnmarshal.                                                          *)
(*                                                                         *)
(* A Lua value is a record: an atom [t |-> "num", "nonfinite", "str",      *)
(* "bool" or "fn", v |-> ..], "nonfinite" for the numbers NaN and Inf and  *)
(* "fn" for what JSON has no form for, or [t |-> "table", e |-> function   *)
(* by keys], a key being an atom "num" or "str".  A JSON value is an atom, *)
(* [t |-> "array", e |-> sequence] or [t |-> "object", e |-> function by   *)
(* strings].  The string that a number prints as is written as the number. *)
(* A Lua string is bytes; Repaired has those that are not UTF-8.           *)
(***************************************************************************)
EXTENDS Naturals, FiniteSets, Sequences

CONSTANTS
  Atom,     \* the values that are no tables
  Key,      \* the keys of tables; the numbers are those a table keeps in its array
  Repaired, \* what encoding/json makes of a string that is not UTF-8
  MaxSize,  \* bound: the entries of a table
  MaxDepth  \* bound: how deep tables are nested; json.Unmarshal refuses more than 10000

VARIABLES
  arg,     \* what the script passes to jsonMarshal
  json,    \* the text it gets
  back,    \* the table jsonUnmarshal makes of that text
  errMsg   \* jsonUnmarshal has an error message

jsonVars == <<arg, json, back, errMsg>>

KeySets == {K \in SUBSET Key : IsFiniteSet(K) /\ Cardinality(K) <= MaxSize}
Tables(values) == [t : {"table"}, e : UNION {[K -> values] : K \in KeySets}]

\* The values made of the atoms A, by how deep tables are in tables.
Nested(A) ==
  LET made[d \in 0 .. MaxDepth] == IF d = 0 THEN A ELSE A \cup Tables(made[d - 1])
  IN  made

Values == Nested(Atom)

LuaValue == Values[MaxDepth]
Input == Tables(Values[MaxDepth - 1])

None == [t |-> "none"]
Null == [t |-> "null"]
Raised == [t |-> "raised"]
\* json.Marshal's error: an empty text.
NoText == [t |-> "notext"]
EmptyTable == [t |-> "table", e |-> <<>>]

Num(i) == [t |-> "num", v |-> i]
Str(n) == [t |-> "str", v |-> n]
Keys(value) == DOMAIN value.e

\* A table keeps the positive whole numbers in its array.
ASSUME JsonAssumption ==
  /\ \A a \in Atom :
       a.t \in {"num", "nonfinite", "bool", "fn"} \/ (a.t = "str" /\ a = Str(a.v))
  /\ \A k \in Key : k = Str(k.v) \/ (k = Num(k.v) /\ k.v \in Nat \ {0})
  /\ \A n \in DOMAIN Repaired : Num(n) \notin Key /\ Repaired[n] \notin DOMAIN Repaired
  /\ MaxDepth \in 1 .. 10000

-----------------------------------------------------------------------------
FaultyCheckList(value) ==          \* variant: one number key is enough
  \E k \in DOMAIN value.e : k.t = "num"
\* checkList: no key is anything but a number.
CheckList(value) == \A k \in DOMAIN value.e : k.t = "num"

\* ForEach comes to the numbers first, in ascending order, then to the strings.
Before(j, k) == (j.t = "num" /\ k.t = "str") \/ (j.t = k.t /\ j.v < k.v)
Visited(value, i) ==
  CHOOSE k \in Keys(value) : Cardinality({l \in Keys(value) : Before(l, k)}) = i - 1

\* Of two keys that print alike the string comes last and stays.
Named(value, n) == IF Str(n) \in Keys(value) THEN Str(n) ELSE Num(n)

\* The keys of the Go map, and what it has.
Names(value) == {k.v : k \in Keys(value)}
Fields(value) == {value.e[Named(value, n)] : n \in Names(value)}

\* encoding/json puts U+FFFD for what is not UTF-8, in names and values.
Utf8(n) == IF n \in DOMAIN Repaired THEN Repaired[n] ELSE n

\* Of the names written alike, the one that stays when the text is read: the last in
\* the order of their bytes, which the model leaves open.
Staying(value, m) == CHOOSE n \in Names(value) : Utf8(n) = m

\* What marshal and json.Marshal write of a value, where they write "written" of the
\* values in it.  A number that is not finite anywhere in it is an error.
MarshalOf(written, value) ==
  CASE value.t = "fn" -> Null
    [] value.t = "nonfinite" -> NoText
    [] value.t = "str" -> Str(Utf8(value.v))
    [] value.t = "table" /\ (\E x \in Fields(value) : written[x] = NoText) -> NoText
    [] value.t = "table" /\ (\A x \in Fields(value) : written[x] # NoText) /\ CheckList(value) ->
         [t |-> "array",
          e |-> [i \in 1 .. Cardinality(Keys(value)) |-> written[value.e[Visited(value, i)]]]]
    [] value.t = "table" /\ (\A x \in Fields(value) : written[x] # NoText) /\ ~CheckList(value) ->
         [t |-> "object",
          e |-> [m \in {Utf8(n) : n \in Names(value)} |->
                   written[value.e[Named(value, Staying(value, m))]]]]
    [] OTHER -> value

Marshal[value \in LuaValue] == MarshalOf(Marshal, value)

FaultyPlace(i) == Num(i - 1)       \* variant: Insert(i, ...)
\* Where tb.Insert(i+1, ...) puts the element that Go counts as i.
Place(i) == Num(i)

\* A nil is not stored: an object loses the field, an array has a gap.
Stored(e) == {x \in DOMAIN e : e[x] # Null}

\* The texts that jsonMarshal writes.
Json == {Marshal[value] : value \in LuaValue}

\* What becomes of a JSON value, where the values in it become "read".
UnmarshalOf(read, j) ==
  CASE j.t = "object" ->
         [t |-> "table", e |-> [k \in {Str(n) : n \in Stored(j.e)} |-> read[j.e[k.v]]]]
    [] j.t = "array" ->
         [t |-> "table",
          e |-> [k \in {Place(i) : i \in Stored(j.e)} |->
                   read[j.e[CHOOSE i \in Stored(j.e) : Place(i) = k]]]]
    [] OTHER -> j

Unmarshal[j \in Json] == UnmarshalOf(Unmarshal, j)

-----------------------------------------------------------------------------
JsonInit ==
  /\ arg \in Input \cup {None}
  /\ json = None /\ back = None /\ errMsg = FALSE

\* An argument that is no table is a nil *LTable; ForEach panics, and the protected
\* call makes a Lua error of it.
JsonMarshal ==
  /\ json = None /\ json' = IF arg = None THEN Raised ELSE Marshal[arg]
  /\ UNCHANGED <<arg, back, errMsg>>

\* The text is decoded into a Go map: anything but an object, the empty text too, is an
\* error, and the script gets an empty table.
JsonUnmarshal ==
  /\ json \notin {None, Raised} /\ back = None
  /\ \/ json.t = "object" /\ back' = Unmarshal[json] /\ errMsg' = FALSE
     \/ json.t # "object" /\ back' = EmptyTable /\ errMsg' = TRUE
  /\ UNCHANGED <<arg, json>>

JsonNext == JsonMarshal \/ JsonUnmarshal

JsonSpec == JsonInit /\ [][JsonNext]_jsonVars

-----------------------------------------------------------------------------
(* Properties. *)

IsSequence(value) == Keys(value) = {Num(i) : i \in 1 .. Cardinality(Keys(value))}
IsRecord(value) == \A k \in Keys(value) : k.t = "str" /\ Utf8(k.v) = k.v

\* The atoms JSON has a form for: finite numbers, booleans and UTF-8 strings.
Plain == {a \in Atom : a.t \in {"num", "bool"} \/ (a.t = "str" /\ Utf8(a.v) = a.v)}

\* Such atoms, records with UTF-8 names and sequences d deep.
Forms[d \in 0 .. MaxDepth] ==
  IF d = 0 THEN Plain
  ELSE Forms[0] \cup {x \in Tables(Forms[d - 1]) : IsRecord(x) \/ IsSequence(x)}

JsonForm == Forms[MaxDepth]

\* The values without NaN and Inf.
Finite == Nested({a \in Atom : a.t # "nonfinite"})
FiniteValue == Finite[MaxDepth]

\* What a script can put as JSON comes back as it was: a record, with a field at least,
\* of finite numbers, booleans, UTF-8 strings, records and sequences.
RoundTrip ==
  back # None /\ arg \in JsonForm /\ IsRecord(arg) /\ Keys(arg) # {} =>
    back = arg /\ ~errMsg

\* Of a table without NaN and Inf, jsonUnmarshal takes whatever jsonMarshal has written,
\* unless that table was a list or empty: one with a string key is never read as a list,
\* and neither a function nor a broken string makes the text unreadable.
OnlyListsRefused ==
  errMsg /\ arg \in FiniteValue => \A k \in Keys(arg) : k.t = "num"
=============================================================================
