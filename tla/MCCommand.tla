----------------------------- MODULE MCCommand ------------------------------
(* Small instances of Command for TLC: the two jobs of run_scheduler, two  *)
(* jobs of one name, two users who add at once, and one who adds any spec. *)
EXTENDS StoredSpecs, FiniteSetsExt

CONSTANTS service, pair, ann, bob, eve

Lists ==
    [p \in Processes |->
        CASE p = service -> <<"task_runner", "scheduler">>
          [] p = pair    -> <<"task_runner", "task_runner">>
          [] OTHER       -> <<"lightweight">>]

(* The ids have the other order than the JobList, while the order of the   *)
(* first heartbeats is free.                                               *)
Ids == [r \in Runners |-> 3 - r[2]]

Interrupts ==
    [p \in Processes |-> CASE p = service -> 2 [] p \in {ann, bob} -> 1 [] OTHER -> 0]

(* Graphs are numbered.  Below 512 each of three tasks writes a table of   *)
(* its own, from 512 the last writes the first one's and table 3 is an     *)
(* input; the bits of the number say which task reads which table.         *)
Bit(n, i) == (n \div 2^i) % 2 = 1

Graph(n) ==
    [reads  |-> [t \in 1..3 |-> {x \in 1..3 : Bit(n, 3 * (t - 1) + x - 1)}],
     writes |-> IF n < 512 THEN <<{1}, {2}, {3}>> ELSE <<{1}, {2}, {1}>>]

Chain == [reads |-> <<{}, {1}, {2}>>, writes |-> <<{1}, {2}, {3}>>]

AllTexts == AttrTypes \cup Encoding \cup {"a", "1", "None", "nan", "o", "t", "p", "an unknown operation type"}

(* Each kind of atom, and each way to hold one or two of them.             *)
SomeAtoms ==
    {Text("a"), Number("1"), <<"none", "None">>, <<"float", "nan">>, <<"object", "o">>,
     <<"datetime", "t">>, <<"timedelta", "t">>}

Items ==
    {<<kind, <<x, y>>>> : kind \in {"list", "tuple"}, x \in SomeAtoms, y \in {Text("a")}}
        \cup {<<"set", {x, y}>> : x \in SomeAtoms, y \in {Text("a")}}
        \cup {<<"set", {<<"float", "nan">>, Text("nan")}>>}
        \cup {<<"dict", {<<key, x>>}>> : key \in {Text("a"), Number("1")}, x \in SomeAtoms}

Nested == {<<"list", <<x>>>> : x \in Items}

Params == {<<"dict", {<<Text("p"), x>>}>> : x \in SomeAtoms \cup Items \cup Nested}

ParamsOf(x) == [graph |-> Chain, params |-> <<"dict", {<<Text("p"), x>>}>>]

Plain   == ParamsOf(Text("a"))
Unknown == ParamsOf(Text("an unknown operation type"))
NotANumber == ParamsOf(<<"float", "nan">>)
NanText    == ParamsOf(Text("nan"))

Numbered(S) == FoldSet(LAMBDA x, q : Append(q, x), <<>>, S)

OtherParams == Numbered(Params \ {Plain.params, NotANumber.params})

(* A spec is a number: the first have names; then come the graphs, then    *)
(* the parameters.                                                         *)
Named == <<Plain, Unknown, NotANumber, NanText>>
AllSpecs == 1..(1028 + Len(OtherParams))
InvalidSpecs == {2}
SomeSpec == CHOOSE s \in AllSpecs : TRUE

Contents ==
    [s \in AllSpecs |->
        IF s <= 4 THEN Named[s]
        ELSE IF s <= 1028 THEN [graph |-> Graph(s - 5), params |-> Plain.params]
        ELSE [graph |-> Chain, params |-> OtherParams[s - 1028]]]

(* Nan and the text "nan" are stored alike; the others have a payload each.*)
Payloads == [s \in AllSpecs |-> IF s = 4 THEN 3 ELSE s]

(* Eve alone may have any spec; Ann and Bob have one payload or two.       *)
AllInputs ==
    {[u \in Users |-> IF u = eve THEN s ELSE SomeSpec] : s \in AllSpecs}
        \cup {[u \in Users |-> CASE u = ann -> s [] u = bob -> t [] OTHER -> SomeSpec] :
                  s \in {1, 3}, t \in {1, 4}}
=============================================================================
