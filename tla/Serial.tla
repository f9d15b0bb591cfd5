------------------------------- MODULE Serial -------------------------------
(***************************************************************************)
(* How the user's spec of a task gets into the row of its dag and back     *)
(* (serialized.py).  A value of a spec, as YAML yields it, is <<kind, x>>: *)
(* x is the text of an atom, the sequence of a list or tuple, the set of a *)
(* set, or the entries of a dict, <<key, value>>, where a key is an atom.  *)
(* What is stored consists of text, numbers, lists and dicts.              *)
(***************************************************************************)
EXTENDS Integers, Sequences, FiniteSets

CONSTANTS
    Texts,      \* what atoms say
    Nesting     \* how deep the values of a spec are nested

(* The types of values that encodings name, and the keys that mark one.    *)
AttrTypes == {"dict", "set", "tuple", "datetime", "timedelta"}
Encoding  == {"__type", "__var"}

ASSUME SerialAssumption ==
    /\ AttrTypes \cup Encoding \subseteq Texts
    /\ Nesting \in Nat \ {0}

Primitives == {"str", "num", "none"}

(* A float is nan or an infinity, an object is of no type that serialize   *)
(* knows.                                                                  *)
Atoms == (Primitives \cup {"float", "object", "datetime", "timedelta"}) \X Texts

(* The keys of a dict are assumed to have different texts.                 *)
IsDict(entries) == \A e, f \in entries : e[1][2] = f[1][2] => e = f

Containers(V) ==
    ({"list", "tuple"} \X Seq(V))
        \cup ({"set"} \X {S \in SUBSET V : IsFiniteSet(S)})
        \cup ({"dict"} \X {entries \in SUBSET (Atoms \X V) : IsDict(entries)})

(* Values by their nesting.  An encoding nests a dict in a dict, and what  *)
(* is stored was encoded twice.                                            *)
Depth == 4 * Nesting + 1
Level[n \in 0..Depth] == IF n = 0 THEN Atoms ELSE Atoms \cup Containers(Level[n - 1])

Values == Level[Depth]

-----------------------------------------------------------------------------
Text(x)   == <<"str", x>>
Number(x) == <<"num", x>>

(* Marks a value whose decoding raises: a dag that holds one is not loaded.*)
Raises == <<"raises", "">>

(* SerializedObject._encode. *)
Encoded(type, x) ==
    <<"dict", {<<Text("__type"), Text(type)>>, <<Text("__var"), x>>}>>

Var(j) == (CHOOSE e \in j[2] : e[1] = Text("__var"))[2]

(* An encoding of this type, of a value that was made such JSON. *)
IsEncoded(j, type, kind) ==
    j[1] = "dict" /\ j = Encoded(type, Var(j)) /\ Var(j)[1] = kind

(* Mutant: a tuple is written as a list is. *)
EncodedListOrTuple(kind, q) ==
    IF kind \in {"list", "tuple"} THEN <<"list", q>> ELSE Encoded(kind, <<"list", q>>)

(* The values of a list, a set, in any one order, or a tuple.              *)
EncodedItems(kind, q) ==
    IF kind = "list" THEN <<"list", q>> ELSE Encoded(kind, <<"list", q>>)

ListOf(S) == CHOOSE q \in [1..Cardinality(S) -> S] : \A x \in S : \E i \in DOMAIN q : q[i] = x

(* nan, infinities and objects become text; a datetime its timestamp.      *)
EncodedAtom(v) ==
    CASE v[1] \in Primitives -> v
      [] v[1] \in {"datetime", "timedelta"} -> Encoded(v[1], Number(v[2]))
      [] OTHER -> Text(v[2])

(* serialize; f is serialize itself, for what is in the value.             *)
SerializeWith(f, v) ==
    CASE v[1] \in {"list", "tuple"} -> EncodedItems(v[1], [i \in DOMAIN v[2] |-> f[v[2][i]]])
      [] v[1] = "set" -> EncodedItems("set", ListOf({f[x] : x \in v[2]}))
      [] v[1] = "dict" ->
            Encoded("dict", <<"dict", {<<Text(e[1][2]), f[e[2]]>> : e \in v[2]}>>)
      [] OTHER -> EncodedAtom(v)

Serialize[v \in Values] == SerializeWith(Serialize, v)

(* deserialize.  A datetime is read with fromisoformat, which a timestamp  *)
(* is no text for.                                                         *)
DeserializeWith(f, j) ==
    CASE j[1] \in Primitives -> j
      [] j[1] = "list" -> <<"list", [i \in DOMAIN j[2] |-> f[j[2][i]]]>>
      [] IsEncoded(j, "dict", "dict") -> <<"dict", {<<e[1], f[e[2]]>> : e \in Var(j)[2]}>>
      [] IsEncoded(j, "timedelta", "num") -> <<"timedelta", Var(j)[2]>>
      [] IsEncoded(j, "set", "list") -> <<"set", {f[Var(j)[2][i]] : i \in DOMAIN Var(j)[2]}>>
      [] IsEncoded(j, "tuple", "list") -> <<"tuple", [i \in DOMAIN Var(j)[2] |-> f[Var(j)[2][i]]]>>
      [] OTHER -> Raises

Deserialize[j \in Values] == DeserializeWith(Deserialize, j)

(* serialize_to_json takes the dict of a spec out of its encoding; to_json *)
(* serializes the whole once more.                                         *)
Stored(params) == Serialize[Var(Serialize[params])]

(* from_json, then deserialize_operator for each of the parameters.        *)
Loaded(json) ==
    <<"dict", {<<e[1], Deserialize[e[2]]>> : e \in Deserialize[json][2]}>>

-----------------------------------------------------------------------------
(* Reference: what a value should be once it was stored and loaded.  It is *)
(* the same but for nan, infinities and objects, which are text, and for   *)
(* datetimes, which cannot be loaded; a key is text.                       *)
KeptWith(f, v) ==
    CASE v[1] \in Primitives \cup {"timedelta"} -> v
      [] v[1] \in {"list", "tuple"} -> <<v[1], [i \in DOMAIN v[2] |-> f[v[2][i]]]>>
      [] v[1] = "set"  -> <<"set", {f[x] : x \in v[2]}>>
      [] v[1] = "dict" -> <<"dict", {<<Text(e[1][2]), f[e[2]]>> : e \in v[2]}>>
      [] v[1] = "datetime" -> Raises
      [] OTHER -> Text(v[2])

Kept[v \in Values] == KeptWith(Kept, v)
=============================================================================
