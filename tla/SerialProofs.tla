---------------------------- MODULE SerialProofs ----------------------------
(***************************************************************************)
(* Proof that a spec is loaded as it was written, but for what Kept says,  *)
(* however deep its values are nested.  Values are taken level by level:   *)
(* the recursions of Serial have solutions, which their equations define;  *)
(* what deserialize reads is what serialize wrote; and what is stored once *)
(* is not changed by storing it again.                                     *)
(***************************************************************************)
EXTENDS Serial, TLAPS, FiniteSetTheorems, WellFoundedInduction

(* Of some subsets of a finite set, one has no other one below it. *)
LEMMA LeastSubset ==
    ASSUME NEW S, IsFiniteSet(S), NEW C, C \subseteq SUBSET S, C # {}
    PROVE  \E x \in C : \A y \in C : y \subseteq x => y = x
  <1>1. C \subseteq FiniteSubsetsOf(S)
    BY FS_Subset DEF FiniteSubsetsOf
  <1>2. \E x \in C : \A y \in C : ~ (<<y, x>> \in StrictSubsetOrdering(S))
    BY <1>1, FS_StrictSubsetOrderingWellFounded, WFMin
  <1> QED
    BY <1>1, <1>2 DEF StrictSubsetOrdering

(* Induction up to a bound. *)
LEMMA UpTo ==
    ASSUME NEW N \in Nat, NEW R, 0 \in R, \A n \in 1..N : n - 1 \in R => n \in R
    PROVE  \A n \in 0..N : n \in R
  <1> SUFFICES ASSUME NEW k \in 0..N, k \notin R PROVE FALSE
    OBVIOUS
  <1> DEFINE Wrong == {n \in 0..N : n \notin R}
             Below == {0..n : n \in Wrong}
             All   == 0..N
  <1>1. Below \subseteq SUBSET All /\ Below # {}
    OBVIOUS
  <1>2. PICK x \in Below : \A y \in Below : y \subseteq x => y = x
    <2>1. IsFiniteSet(All)
      BY FS_Interval
    <2> HIDE DEF Below, All
    <2> QED
      BY <1>1, <2>1, LeastSubset
  <1>3. PICK n \in Wrong : x = 0..n
    OBVIOUS
  <1>4. n \in 1..N /\ n - 1 \in Wrong
    OBVIOUS
  <1>5. 0..(n - 1) \in Below
    BY <1>4
  <1>6. 0..(n - 1) = 0..n
    <2>1. 0..(n - 1) \subseteq 0..n
      BY <1>4
    <2> HIDE DEF Below
    <2> QED
      BY <1>2, <1>3, <1>5, <2>1
  <1> QED
    BY <1>4, <1>6
-----------------------------------------------------------------------------
(* Levels. *)

LEMMA DepthIsNat == Depth \in Nat /\ Nesting \in 0..Depth
  BY SerialAssumption DEF Depth

LevelsTo(f, k) ==
    f = [n \in 0..k |-> IF n = 0 THEN Atoms ELSE Atoms \cup Containers(f[n - 1])]

LEMMA LevelExists == \E f : LevelsTo(f, Depth)
  <1> DEFINE R == {k \in 0..Depth : \E f : LevelsTo(f, k)}
  <1>1. 0 \in R
    <2> DEFINE f == [n \in 0..0 |-> Atoms]
    <2>1. LevelsTo(f, 0)
      BY DEF LevelsTo
    <2> QED
      BY <2>1, DepthIsNat
  <1>2. ASSUME NEW n \in 1..Depth, n - 1 \in R PROVE n \in R
    <2>1. PICK f : LevelsTo(f, n - 1)
      BY <1>2
    <2> DEFINE g == [i \in 0..n |-> IF i = 0 THEN Atoms ELSE Atoms \cup Containers(f[i - 1])]
    <2>2. ASSUME NEW i \in 0..(n - 1) PROVE g[i] = f[i]
      <3>1. f[i] = IF i = 0 THEN Atoms ELSE Atoms \cup Containers(f[i - 1])
        BY <2>1 DEF LevelsTo
      <3> QED
        BY <3>1
    <2>3. ASSUME NEW i \in 1..n PROVE f[i - 1] = g[i - 1]
      <3>1. i - 1 \in 0..(n - 1)
        OBVIOUS
      <3> HIDE DEF g
      <3> QED
        BY <2>2, <3>1
    <2>4. LevelsTo(g, n)
      <3> DEFINE h == [i \in 0..n |-> IF i = 0 THEN Atoms ELSE Atoms \cup Containers(g[i - 1])]
      <3>1. ASSUME NEW i \in 0..n
            PROVE  (IF i = 0 THEN Atoms ELSE Atoms \cup Containers(f[i - 1])) =
                   (IF i = 0 THEN Atoms ELSE Atoms \cup Containers(g[i - 1]))
        <4> HIDE DEF g
        <4> QED
          BY <2>3
      <3>2. g = h
        BY <3>1, Zenon
      <3> QED
        BY <3>2 DEF LevelsTo
    <2> QED
      BY <2>4, DepthIsNat
  <1> HIDE DEF R
  <1>3. Depth \in R
    BY <1>1, <1>2, UpTo, DepthIsNat
  <1> QED
    BY <1>3 DEF R

LEMMA LevelDef ==
    /\ Level[0] = Atoms
    /\ \A n \in 1..Depth : Level[n] = Atoms \cup Containers(Level[n - 1])
  <1>1. LevelsTo(Level, Depth)
    BY LevelExists DEF LevelsTo, Level
  <1>2. 0 \in 0..Depth /\ \A n \in 1..Depth : n \in 0..Depth /\ n # 0
    BY DepthIsNat
  <1>3. \A n \in 0..Depth :
            Level[n] = IF n = 0 THEN Atoms ELSE Atoms \cup Containers(Level[n - 1])
    BY <1>1, Zenon DEF LevelsTo
  <1> QED
    BY <1>2, <1>3

LEMMA ContainersGrow ==
    ASSUME NEW V, NEW W, V \subseteq W
    PROVE  Containers(V) \subseteq Containers(W)
  <1>1. Seq(V) \subseteq Seq(W)
    OBVIOUS
  <1> QED
    BY <1>1 DEF Containers

LEMMA LevelGrows == \A n \in 1..Depth : Level[n - 1] \subseteq Level[n]
  <1> DEFINE R == {n \in 0..Depth : n > 0 => Level[n - 1] \subseteq Level[n]}
  <1>1. 0 \in R
    BY DepthIsNat
  <1>2. ASSUME NEW n \in 1..Depth, n - 1 \in R PROVE n \in R
    <2>1. CASE n = 1
      BY <2>1, LevelDef
    <2>2. CASE n # 1
      <3>1. Level[n - 2] \subseteq Level[n - 1]
        BY <1>2, <2>2, DepthIsNat
      <3>2. Containers(Level[n - 2]) \subseteq Containers(Level[n - 1])
        BY <3>1, ContainersGrow
      <3>3. Level[n - 1] = Atoms \cup Containers(Level[n - 2])
        BY <2>2, LevelDef, DepthIsNat
      <3> QED
        BY <3>2, <3>3, LevelDef
    <2> QED
      BY <2>1, <2>2
  <1> HIDE DEF R
  <1>3. \A n \in 0..Depth : n \in R
    BY <1>1, <1>2, UpTo, DepthIsNat
  <1> QED
    BY <1>3, DepthIsNat DEF R

LEMMA LevelsNest == \A m, n \in 0..Depth : m <= n => Level[m] \subseteq Level[n]
  <1> TAKE m \in 0..Depth
  <1> DEFINE R == {n \in 0..Depth : m <= n => Level[m] \subseteq Level[n]}
  <1>1. 0 \in R
    BY DepthIsNat
  <1>2. ASSUME NEW n \in 1..Depth, n - 1 \in R PROVE n \in R
    BY <1>2, LevelGrows, DepthIsNat
  <1> HIDE DEF R
  <1>3. \A n \in 0..Depth : n \in R
    BY <1>1, <1>2, UpTo, DepthIsNat
  <1> QED
    BY <1>3 DEF R
-----------------------------------------------------------------------------
(* Containers. *)

LEMMA ContainerKinds ==
    ASSUME NEW V, NEW v \in Containers(V)
    PROVE  /\ v = <<v[1], v[2]>>
           /\ \/ v[1] \in {"list", "tuple"} /\ v[2] \in Seq(V)
              \/ v[1] = "set" /\ v[2] \in SUBSET V /\ IsFiniteSet(v[2])
              \/ v[1] = "dict" /\ v[2] \in SUBSET (Atoms \X V) /\ IsDict(v[2])
  <1>1. CASE v \in {"list", "tuple"} \X Seq(V)
    BY <1>1
  <1>2. CASE v \in {"set"} \X {S \in SUBSET V : IsFiniteSet(S)}
    BY <1>2
  <1>3. CASE v \in {"dict"} \X {entries \in SUBSET (Atoms \X V) : IsDict(entries)}
    BY <1>3
  <1> QED
    BY <1>1, <1>2, <1>3 DEF Containers

LEMMA AtomKinds ==
    ASSUME NEW v \in Atoms
    PROVE  /\ v = <<v[1], v[2]>>
           /\ v[1] \in Primitives \cup {"float", "object", "datetime", "timedelta"}
           /\ v[2] \in Texts
  BY DEF Atoms

(* What becomes of a value depends on its items only.                      *)
LEMMA SerializeLocal ==
    ASSUME NEW V, NEW v, v \in Atoms \cup Containers(V), NEW f, NEW g, \A x \in V : f[x] = g[x]
    PROVE  SerializeWith(f, v) = SerializeWith(g, v)
  <1>1. CASE v \in Atoms
    BY <1>1, AtomKinds DEF SerializeWith, Primitives
  <1>2. CASE v \in Containers(V) /\ v[1] \in {"list", "tuple"}
    <2>1. v[2] \in Seq(V)
      BY <1>2, ContainerKinds
    <2>2. [i \in DOMAIN v[2] |-> f[v[2][i]]] = [i \in DOMAIN v[2] |-> g[v[2][i]]]
      BY <2>1
    <2> QED
      BY <1>2, <2>2 DEF SerializeWith
  <1>3. CASE v \in Containers(V) /\ v[1] = "set"
    <2>1. v[2] \in SUBSET V
      BY <1>3, ContainerKinds
    <2>2. {f[x] : x \in v[2]} = {g[x] : x \in v[2]}
      BY <2>1
    <2> QED
      BY <1>3, <2>2 DEF SerializeWith
  <1>4. CASE v \in Containers(V) /\ v[1] = "dict"
    <2>1. v[2] \in SUBSET (Atoms \X V)
      BY <1>4, ContainerKinds
    <2>2. {<<Text(e[1][2]), f[e[2]]>> : e \in v[2]} = {<<Text(e[1][2]), g[e[2]]>> : e \in v[2]}
      BY <2>1
    <2> QED
      BY <1>4, <2>2 DEF SerializeWith
  <1> QED
    BY <1>1, <1>2, <1>3, <1>4, ContainerKinds

LEMMA KeptLocal ==
    ASSUME NEW V, NEW v, v \in Atoms \cup Containers(V), NEW f, NEW g, \A x \in V : f[x] = g[x]
    PROVE  KeptWith(f, v) = KeptWith(g, v)
  <1>1. CASE v \in Atoms
    BY <1>1, AtomKinds DEF KeptWith, Primitives
  <1>2. CASE v \in Containers(V) /\ v[1] \in {"list", "tuple"}
    <2>1. v[2] \in Seq(V)
      BY <1>2, ContainerKinds
    <2>2. [i \in DOMAIN v[2] |-> f[v[2][i]]] = [i \in DOMAIN v[2] |-> g[v[2][i]]]
      BY <2>1
    <2> QED
      BY <1>2, <2>2 DEF KeptWith, Primitives
  <1>3. CASE v \in Containers(V) /\ v[1] = "set"
    <2>1. v[2] \in SUBSET V
      BY <1>3, ContainerKinds
    <2>2. {f[x] : x \in v[2]} = {g[x] : x \in v[2]}
      BY <2>1
    <2> QED
      BY <1>3, <2>2 DEF KeptWith, Primitives
  <1>4. CASE v \in Containers(V) /\ v[1] = "dict"
    <2>1. v[2] \in SUBSET (Atoms \X V)
      BY <1>4, ContainerKinds
    <2>2. {<<Text(e[1][2]), f[e[2]]>> : e \in v[2]} = {<<Text(e[1][2]), g[e[2]]>> : e \in v[2]}
      BY <2>1
    <2> QED
      BY <1>4, <2>2 DEF KeptWith, Primitives
  <1> QED
    BY <1>1, <1>2, <1>3, <1>4, ContainerKinds

(* The items of an encoding are one level further down.                    *)
LEMMA VarOfEncoding ==
    ASSUME NEW V, NEW j \in Containers(V), NEW type, NEW kind, IsEncoded(j, type, kind)
    PROVE  Var(j) \in V
  <1>1. j[2] \in SUBSET (Atoms \X V)
    BY ContainerKinds DEF IsEncoded
  <1>2. <<Text("__var"), Var(j)>> \in j[2]
    <2>1. j[2] = Encoded(type, Var(j))[2]
      BY DEF IsEncoded
    <2> QED
      BY <2>1 DEF Encoded
  <1> QED
    BY <1>1, <1>2

LEMMA DeserializeLocal ==
    ASSUME NEW W, NEW V, W \subseteq V, V \subseteq Atoms \cup Containers(W),
           NEW j, j \in Atoms \cup Containers(V), NEW f, NEW g, \A x \in V : f[x] = g[x]
    PROVE  DeserializeWith(f, j) = DeserializeWith(g, j)
  <1>1. CASE j \in Atoms
    <2>1. j[1] # "list" /\ j[1] # "dict"
      BY <1>1, AtomKinds DEF Primitives
    <2> QED
      BY <2>1 DEF DeserializeWith, IsEncoded
  <1>2. CASE j \in Containers(V)
    <2>1. j[1] = "list" => [i \in DOMAIN j[2] |-> f[j[2][i]]] = [i \in DOMAIN j[2] |-> g[j[2][i]]]
      <3>1. SUFFICES ASSUME j[1] = "list" PROVE \A i \in DOMAIN j[2] : j[2][i] \in V
        OBVIOUS
      <3>2. j[2] \in Seq(V)
        BY <1>2, <3>1, ContainerKinds
      <3> QED
        BY <3>2
    <2>2. ASSUME NEW type, IsEncoded(j, type, "list")
          PROVE  \A i \in DOMAIN Var(j)[2] : Var(j)[2][i] \in V
      <3>1. Var(j) \in V /\ Var(j)[1] = "list"
        BY <1>2, <2>2, VarOfEncoding DEF IsEncoded
      <3>2. Var(j) \in Containers(W)
        BY <3>1, AtomKinds DEF Primitives
      <3>3. Var(j)[2] \in Seq(W)
        BY <3>1, <3>2, ContainerKinds
      <3> QED
        BY <3>3
    <2>3. ASSUME IsEncoded(j, "dict", "dict") PROVE \A e \in Var(j)[2] : e[2] \in V
      <3>1. Var(j) \in V /\ Var(j)[1] = "dict"
        BY <1>2, <2>3, VarOfEncoding DEF IsEncoded
      <3>2. Var(j) \in Containers(W)
        BY <3>1, AtomKinds DEF Primitives
      <3>3. Var(j)[2] \in SUBSET (Atoms \X W)
        BY <3>1, <3>2, ContainerKinds
      <3> QED
        BY <3>3
    <2>4. IsEncoded(j, "tuple", "list") =>
              [i \in DOMAIN Var(j)[2] |-> f[Var(j)[2][i]]] = [i \in DOMAIN Var(j)[2] |-> g[Var(j)[2][i]]]
      BY <2>2
    <2>5. IsEncoded(j, "set", "list") =>
              {f[Var(j)[2][i]] : i \in DOMAIN Var(j)[2]} = {g[Var(j)[2][i]] : i \in DOMAIN Var(j)[2]}
      BY <2>2
    <2>6. IsEncoded(j, "dict", "dict") =>
              {<<e[1], f[e[2]]>> : e \in Var(j)[2]} = {<<e[1], g[e[2]]>> : e \in Var(j)[2]}
      BY <2>3
    <2> QED
      BY <2>1, <2>4, <2>5, <2>6, SMTT(30) DEF DeserializeWith
  <1> QED
    BY <1>1, <1>2
-----------------------------------------------------------------------------
(* The three recursions have a solution: one for the values of a level     *)
(* gives one for those of the next.                                        *)

LEMMA SerializeInLevel ==
    /\ \A v \in Atoms : \A f, g : SerializeWith(f, v) = SerializeWith(g, v)
    /\ \A n \in 1..Depth : \A v \in Level[n] : \A f, g :
           (\A x \in Level[n - 1] : f[x] = g[x]) => SerializeWith(f, v) = SerializeWith(g, v)
  <1>1. ASSUME NEW v \in Atoms, NEW f, NEW g PROVE SerializeWith(f, v) = SerializeWith(g, v)
    <2> DEFINE none == {}
    <2>1. v \in Atoms \cup Containers(none) /\ \A x \in none : f[x] = g[x]
      OBVIOUS
    <2> HIDE DEF none
    <2> QED
      BY <2>1, SerializeLocal
  <1>2. ASSUME NEW n \in 1..Depth, NEW v \in Level[n], NEW f, NEW g,
               \A x \in Level[n - 1] : f[x] = g[x]
        PROVE  SerializeWith(f, v) = SerializeWith(g, v)
    <2> DEFINE V == Level[n - 1]
    <2>1. v \in Atoms \cup Containers(V) /\ \A x \in V : f[x] = g[x]
      BY <1>2, LevelDef
    <2> HIDE DEF V
    <2> QED
      BY <2>1, SerializeLocal
  <1> QED
    BY <1>1, <1>2

SerializeTo(f, n) == f = [v \in Level[n] |-> SerializeWith(f, v)]

LEMMA SerializeExists == \E f : SerializeTo(f, Depth)
  <1> DEFINE R == {n \in 0..Depth : \E f : SerializeTo(f, n)}
  <1>1. 0 \in R
    <2> DEFINE f == [v \in Level[0] |-> SerializeWith(<<>>, v)]
    <2>1. \A v \in Level[0] : SerializeWith(<<>>, v) = SerializeWith(f, v)
      <3> HIDE DEF f
      <3> QED
        BY SerializeInLevel, LevelDef
    <2>2. f = [v \in Level[0] |-> SerializeWith(f, v)]
      BY <2>1, Zenon
    <2>3. SerializeTo(f, 0)
      BY <2>2, Zenon DEF SerializeTo
    <2> QED
      BY <2>3, DepthIsNat
  <1>2. ASSUME NEW n \in 1..Depth, n - 1 \in R PROVE n \in R
    <2>1. PICK f : SerializeTo(f, n - 1)
      BY <1>2
    <2> DEFINE g == [v \in Level[n] |-> SerializeWith(f, v)]
    <2>2. ASSUME NEW v \in Level[n - 1] PROVE g[v] = f[v]
      <3>1. g[v] = SerializeWith(f, v)
        BY LevelGrows
      <3>2. f[v] = SerializeWith(f, v)
        BY <2>1, Zenon DEF SerializeTo
      <3> QED
        BY <3>1, <3>2
    <2>3. \A v \in Level[n] : SerializeWith(f, v) = SerializeWith(g, v)
      <3> HIDE DEF g
      <3> QED
        BY <2>2, SerializeInLevel
    <2>4. SerializeTo(g, n)
      <3>1. g = [v \in Level[n] |-> SerializeWith(g, v)]
        BY <2>3, Zenon
      <3> QED
        BY <3>1, Zenon DEF SerializeTo
    <2> QED
      BY <2>4, DepthIsNat
  <1> HIDE DEF R
  <1>3. Depth \in R
    BY <1>1, <1>2, UpTo, DepthIsNat
  <1> QED
    BY <1>3 DEF R

LEMMA SerializeDef == \A v \in Values : Serialize[v] = SerializeWith(Serialize, v)
  <1>1. SerializeTo(Serialize, Depth)
    BY SerializeExists DEF SerializeTo, Serialize, Values
  <1> QED
    BY <1>1, Zenon DEF SerializeTo, Values

LEMMA KeptInLevel ==
    /\ \A v \in Atoms : \A f, g : KeptWith(f, v) = KeptWith(g, v)
    /\ \A n \in 1..Depth : \A v \in Level[n] : \A f, g :
           (\A x \in Level[n - 1] : f[x] = g[x]) => KeptWith(f, v) = KeptWith(g, v)
  <1>1. ASSUME NEW v \in Atoms, NEW f, NEW g PROVE KeptWith(f, v) = KeptWith(g, v)
    <2> DEFINE none == {}
    <2>1. v \in Atoms \cup Containers(none) /\ \A x \in none : f[x] = g[x]
      OBVIOUS
    <2> HIDE DEF none
    <2> QED
      BY <2>1, KeptLocal
  <1>2. ASSUME NEW n \in 1..Depth, NEW v \in Level[n], NEW f, NEW g,
               \A x \in Level[n - 1] : f[x] = g[x]
        PROVE  KeptWith(f, v) = KeptWith(g, v)
    <2> DEFINE V == Level[n - 1]
    <2>1. v \in Atoms \cup Containers(V) /\ \A x \in V : f[x] = g[x]
      BY <1>2, LevelDef
    <2> HIDE DEF V
    <2> QED
      BY <2>1, KeptLocal
  <1> QED
    BY <1>1, <1>2

KeptTo(f, n) == f = [v \in Level[n] |-> KeptWith(f, v)]

LEMMA KeptExists == \E f : KeptTo(f, Depth)
  <1> DEFINE R == {n \in 0..Depth : \E f : KeptTo(f, n)}
  <1>1. 0 \in R
    <2> DEFINE f == [v \in Level[0] |-> KeptWith(<<>>, v)]
    <2>1. \A v \in Level[0] : KeptWith(<<>>, v) = KeptWith(f, v)
      <3> HIDE DEF f
      <3> QED
        BY KeptInLevel, LevelDef
    <2>2. f = [v \in Level[0] |-> KeptWith(f, v)]
      BY <2>1, Zenon
    <2>3. KeptTo(f, 0)
      BY <2>2, Zenon DEF KeptTo
    <2> QED
      BY <2>3, DepthIsNat
  <1>2. ASSUME NEW n \in 1..Depth, n - 1 \in R PROVE n \in R
    <2>1. PICK f : KeptTo(f, n - 1)
      BY <1>2
    <2> DEFINE g == [v \in Level[n] |-> KeptWith(f, v)]
    <2>2. ASSUME NEW v \in Level[n - 1] PROVE g[v] = f[v]
      <3>1. g[v] = KeptWith(f, v)
        BY LevelGrows
      <3>2. f[v] = KeptWith(f, v)
        BY <2>1, Zenon DEF KeptTo
      <3> QED
        BY <3>1, <3>2
    <2>3. \A v \in Level[n] : KeptWith(f, v) = KeptWith(g, v)
      <3> HIDE DEF g
      <3> QED
        BY <2>2, KeptInLevel
    <2>4. KeptTo(g, n)
      <3>1. g = [v \in Level[n] |-> KeptWith(g, v)]
        BY <2>3, Zenon
      <3> QED
        BY <3>1, Zenon DEF KeptTo
    <2> QED
      BY <2>4, DepthIsNat
  <1> HIDE DEF R
  <1>3. Depth \in R
    BY <1>1, <1>2, UpTo, DepthIsNat
  <1> QED
    BY <1>3 DEF R

LEMMA KeptDef == \A v \in Values : Kept[v] = KeptWith(Kept, v)
  <1>1. KeptTo(Kept, Depth)
    BY KeptExists DEF KeptTo, Kept, Values
  <1> QED
    BY <1>1, Zenon DEF KeptTo, Values

LEMMA DeserializeInLevel ==
    /\ \A v \in Atoms : \A f, g : DeserializeWith(f, v) = DeserializeWith(g, v)
    /\ \A n \in 1..Depth : \A v \in Level[n] : \A f, g :
           (\A x \in Level[n - 1] : f[x] = g[x]) => DeserializeWith(f, v) = DeserializeWith(g, v)
  <1>1. ASSUME NEW v \in Atoms, NEW f, NEW g PROVE DeserializeWith(f, v) = DeserializeWith(g, v)
    <2> DEFINE none == {}
    <2>1. none \subseteq none /\ none \subseteq Atoms \cup Containers(none)
      OBVIOUS
    <2>2. v \in Atoms \cup Containers(none) /\ \A x \in none : f[x] = g[x]
      OBVIOUS
    <2> HIDE DEF none
    <2> QED
      BY <2>1, <2>2, DeserializeLocal
  <1>2. ASSUME NEW n \in 1..Depth, NEW v \in Level[n], NEW f, NEW g,
               \A x \in Level[n - 1] : f[x] = g[x]
        PROVE  DeserializeWith(f, v) = DeserializeWith(g, v)
    <2> DEFINE V == Level[n - 1]
    <2>1. PICK W : W \subseteq V /\ V \subseteq Atoms \cup Containers(W)
      <3>1. CASE n = 1
        BY <3>1, LevelDef
      <3>2. CASE n # 1
        <4>1. n - 1 \in 1..Depth
          BY <3>2, DepthIsNat
        <4> QED
          BY <4>1, LevelDef, LevelGrows
      <3> QED
        BY <3>1, <3>2
    <2>2. v \in Atoms \cup Containers(V) /\ \A x \in V : f[x] = g[x]
      BY <1>2, LevelDef
    <2> HIDE DEF V
    <2> QED
      BY <2>1, <2>2, DeserializeLocal
  <1> QED
    BY <1>1, <1>2

DeserializeTo(f, n) == f = [v \in Level[n] |-> DeserializeWith(f, v)]

LEMMA DeserializeExists == \E f : DeserializeTo(f, Depth)
  <1> DEFINE R == {n \in 0..Depth : \E f : DeserializeTo(f, n)}
  <1>1. 0 \in R
    <2> DEFINE f == [v \in Level[0] |-> DeserializeWith(<<>>, v)]
    <2>1. \A v \in Level[0] : DeserializeWith(<<>>, v) = DeserializeWith(f, v)
      <3> HIDE DEF f
      <3> QED
        BY DeserializeInLevel, LevelDef
    <2>2. f = [v \in Level[0] |-> DeserializeWith(f, v)]
      BY <2>1, Zenon
    <2>3. DeserializeTo(f, 0)
      BY <2>2, Zenon DEF DeserializeTo
    <2> QED
      BY <2>3, DepthIsNat
  <1>2. ASSUME NEW n \in 1..Depth, n - 1 \in R PROVE n \in R
    <2>1. PICK f : DeserializeTo(f, n - 1)
      BY <1>2
    <2> DEFINE g == [v \in Level[n] |-> DeserializeWith(f, v)]
    <2>2. ASSUME NEW v \in Level[n - 1] PROVE g[v] = f[v]
      <3>1. g[v] = DeserializeWith(f, v)
        BY LevelGrows
      <3>2. f[v] = DeserializeWith(f, v)
        BY <2>1, Zenon DEF DeserializeTo
      <3> QED
        BY <3>1, <3>2
    <2>3. \A v \in Level[n] : DeserializeWith(f, v) = DeserializeWith(g, v)
      <3> HIDE DEF g
      <3> QED
        BY <2>2, DeserializeInLevel
    <2>4. DeserializeTo(g, n)
      <3>1. g = [v \in Level[n] |-> DeserializeWith(g, v)]
        BY <2>3, Zenon
      <3> QED
        BY <3>1, Zenon DEF DeserializeTo
    <2> QED
      BY <2>4, DepthIsNat
  <1> HIDE DEF R
  <1>3. Depth \in R
    BY <1>1, <1>2, UpTo, DepthIsNat
  <1> QED
    BY <1>3 DEF R

LEMMA DeserializeDef == \A v \in Values : Deserialize[v] = DeserializeWith(Deserialize, v)
  <1>1. DeserializeTo(Deserialize, Depth)
    BY DeserializeExists DEF DeserializeTo, Deserialize, Values
  <1> QED
    BY <1>1, Zenon DEF DeserializeTo, Values
-----------------------------------------------------------------------------
(* Encodings. *)

LEMMA TextIsAtom == \A x \in Texts : Text(x) \in Atoms /\ Number(x) \in Atoms
  BY DEF Text, Number, Atoms, Primitives

LEMMA VarOfEncoded ==
    ASSUME NEW type, NEW x
    PROVE  Var(Encoded(type, x)) = x
  <1> DEFINE entries == {<<Text("__type"), Text(type)>>, <<Text("__var"), x>>}
  <1>1. \A e \in entries : e[1] = Text("__var") => e[2] = x
    BY DEF Text
  <1>2. \E e \in entries : e[1] = Text("__var")
    OBVIOUS
  <1>3. Encoded(type, x)[2] = entries
    BY DEF Encoded
  <1> HIDE DEF entries
  <1> QED
    BY <1>1, <1>2, <1>3 DEF Var

LEMMA EncodedIs ==
    ASSUME NEW type, NEW kind, NEW y
    PROVE  LET j == Encoded(type, <<kind, y>>)
           IN  /\ j[1] = "dict"
               /\ Var(j) = <<kind, y>>
               /\ IsEncoded(j, type, kind)
               /\ \A t, k : t # type => ~ IsEncoded(j, t, k)
  <1> DEFINE j == Encoded(type, <<kind, y>>)
  <1>1. Var(j) = <<kind, y>> /\ j[1] = "dict"
    BY VarOfEncoded DEF Encoded
  <1>2. ASSUME NEW t, t # type PROVE Encoded(t, <<kind, y>>) # j
    <2>1. <<Text("__type"), Text(type)>> \notin Encoded(t, <<kind, y>>)[2]
      BY <1>2 DEF Encoded, Text
    <2>2. <<Text("__type"), Text(type)>> \in j[2]
      BY DEF Encoded
    <2> QED
      BY <2>1, <2>2
  <1> HIDE DEF j
  <1>3. j = Encoded(type, Var(j))
    BY <1>1 DEF j
  <1> QED
    BY <1>1, <1>2, <1>3 DEF IsEncoded, j

LEMMA EncodedType ==
    ASSUME NEW W, Atoms \subseteq W, NEW type \in AttrTypes, NEW x \in W
    PROVE  Encoded(type, x) \in Containers(W)
  <1> DEFINE entries == {<<Text("__type"), Text(type)>>, <<Text("__var"), x>>}
  <1>1. Text("__type") \in Atoms /\ Text("__var") \in Atoms /\ Text(type) \in Atoms
    <2>1. "__type" \in Texts /\ "__var" \in Texts
      BY SerialAssumption DEF Encoding
    <2>2. type \in Texts
      BY SerialAssumption
    <2> QED
      BY <2>1, <2>2, TextIsAtom
  <1>2. entries \in SUBSET (Atoms \X W)
    BY <1>1
  <1>3. IsDict(entries)
    BY DEF IsDict, Text
  <1> HIDE DEF entries
  <1>4. <<"dict", entries>> \in Containers(W)
    BY <1>2, <1>3 DEF Containers
  <1> QED
    BY <1>4 DEF Encoded, entries

LEMMA ListOfSet ==
    ASSUME NEW S, IsFiniteSet(S)
    PROVE  /\ ListOf(S) \in Seq(S)
           /\ S = {ListOf(S)[i] : i \in DOMAIN ListOf(S)}
  <1> DEFINE n == Cardinality(S)
             Lists(q) == \A x \in S : \E i \in DOMAIN q : q[i] = x
  <1>1. n \in Nat
    BY FS_CardinalityType
  <1>2. \E q \in [1..n -> S] : Lists(q)
    BY FS_CardinalityType DEF ExistsBijection, Bijection, Surjection
  <1>3. ListOf(S) \in [1..n -> S] /\ Lists(ListOf(S))
    BY <1>2 DEF ListOf
  <1>4. ListOf(S) \in Seq(S)
    BY <1>1, <1>3
  <1> QED
    BY <1>3, <1>4

LEMMA ImageIsFinite ==
    ASSUME NEW S, IsFiniteSet(S), NEW f
    PROVE  IsFiniteSet({f[x] : x \in S})
  <1> DEFINE T == {f[x] : x \in S}
             image == [x \in S |-> f[x]]
  <1>1. image \in Surjection(S, T)
    BY DEF Surjection
  <1> HIDE DEF T, image
  <1>2. IsFiniteSet(T)
    BY <1>1, FS_Surjection
  <1> QED
    BY <1>2 DEF T

LEMMA SerializeAtom ==
    ASSUME NEW W, Atoms \subseteq W, NEW f, NEW v \in Atoms
    PROVE  SerializeWith(f, v) \in Atoms \cup Containers(W)
  <1>1. Number(v[2]) \in Atoms /\ Text(v[2]) \in Atoms
    BY AtomKinds, TextIsAtom
  <1>2. \A type \in AttrTypes : Encoded(type, Number(v[2])) \in Containers(W)
    BY <1>1, EncodedType
  <1>3. CASE v[1] \in Primitives
    BY <1>3 DEF SerializeWith, EncodedAtom, Primitives
  <1>4. CASE v[1] \in {"datetime", "timedelta"}
    <2>1. SerializeWith(f, v) = Encoded(v[1], Number(v[2]))
      BY <1>4 DEF SerializeWith, EncodedAtom, Primitives
    <2> QED
      BY <1>2, <1>4, <2>1 DEF AttrTypes
  <1>5. CASE v[1] \in {"float", "object"}
    BY <1>1, <1>5 DEF SerializeWith, EncodedAtom, Primitives
  <1> QED
    BY <1>3, <1>4, <1>5, AtomKinds

LEMMA SerializeWithType ==
    ASSUME NEW V, NEW U, NEW W, NEW f, \A x \in V : f[x] \in U,
           Atoms \subseteq U, U \subseteq W, Containers(U) \subseteq W,
           NEW v, v \in Atoms \cup Containers(V)
    PROVE  SerializeWith(f, v) \in W \cup Containers(W)
  <1>0. Atoms \subseteq W
    OBVIOUS
  <1>1. CASE v \in Atoms
    BY <1>0, <1>1, SerializeAtom
  <1>2. ASSUME NEW q \in Seq(U), NEW kind \in {"list", "tuple", "set"}
        PROVE  EncodedItems(kind, q) \in W \cup Containers(W)
    <2>1. <<"list", q>> \in W
      BY DEF Containers
    <2> QED
      BY <1>0, <2>1, EncodedType DEF EncodedItems, AttrTypes
  <1>3. CASE v \in Containers(V) /\ v[1] \in {"list", "tuple"}
    <2> DEFINE q == [i \in DOMAIN v[2] |-> f[v[2][i]]]
    <2>1. v[2] \in Seq(V)
      BY <1>3, ContainerKinds
    <2>2. q \in Seq(U)
      BY <2>1
    <2>3. SerializeWith(f, v) = EncodedItems(v[1], q)
      BY <1>3 DEF SerializeWith
    <2> HIDE DEF q
    <2> QED
      BY <1>2, <1>3, <2>2, <2>3
  <1>4. CASE v \in Containers(V) /\ v[1] = "set"
    <2> DEFINE S == {f[x] : x \in v[2]}
    <2>1. v[2] \in SUBSET V /\ IsFiniteSet(v[2])
      BY <1>4, ContainerKinds
    <2>2. IsFiniteSet(S)
      BY <2>1, ImageIsFinite
    <2>3. S \subseteq U
      BY <2>1
    <2>4. SerializeWith(f, v) = EncodedItems("set", ListOf(S))
      BY <1>4 DEF SerializeWith
    <2> HIDE DEF S
    <2>5. ListOf(S) \in Seq(U)
      BY <2>2, <2>3, ListOfSet
    <2> QED
      BY <1>2, <2>4, <2>5
  <1>5. CASE v \in Containers(V) /\ v[1] = "dict"
    <2> DEFINE entries == {<<Text(e[1][2]), f[e[2]]>> : e \in v[2]}
    <2>1. v[2] \in SUBSET (Atoms \X V) /\ IsDict(v[2])
      BY <1>5, ContainerKinds
    <2>2. \A e \in v[2] : Text(e[1][2]) \in Atoms /\ f[e[2]] \in U
      BY <2>1, AtomKinds DEF Text, Atoms, Primitives
    <2>3. entries \in SUBSET (Atoms \X U)
      BY <2>2
    <2>4. IsDict(entries)
      BY <2>1 DEF IsDict, Text
    <2>5. SerializeWith(f, v) = Encoded("dict", <<"dict", entries>>)
      BY <1>5 DEF SerializeWith
    <2> HIDE DEF entries
    <2>6. <<"dict", entries>> \in W
      BY <2>3, <2>4 DEF Containers
    <2> QED
      BY <1>0, <2>5, <2>6, EncodedType DEF AttrTypes
  <1> QED
    BY <1>1, <1>3, <1>4, <1>5, ContainerKinds
(* Values nested up to n levels are stored within 2 * n + 1 levels. *)
LEMMA SerializeLevel ==
    \A n \in 0..Depth : 2 * n + 1 <= Depth =>
        \A v \in Level[n] : v \in Values /\ Serialize[v] \in Level[2 * n + 1]
  <1> DEFINE Stays(n) == \A v \in Level[n] : Serialize[v] \in Level[2 * n + 1]
             R == {n \in 0..Depth : 2 * n + 1 <= Depth => Stays(n)}
  <1>1. \A n \in 0..Depth : Level[n] \subseteq Values
    BY LevelsNest, DepthIsNat DEF Values
  <1>2. 0 \in R
    <2> SUFFICES ASSUME 1 <= Depth, NEW v \in Level[0] PROVE Serialize[v] \in Level[1]
      BY DepthIsNat
    <2> DEFINE W == Level[0]
    <2>1. W = Atoms /\ Level[1] = Atoms \cup Containers(W)
      BY LevelDef, DepthIsNat
    <2>2. Serialize[v] = SerializeWith(Serialize, v)
      BY <1>1, SerializeDef, DepthIsNat
    <2> HIDE DEF W
    <2>3. SerializeWith(Serialize, v) \in Atoms \cup Containers(W)
      BY <2>1, SerializeAtom DEF W
    <2> QED
      BY <2>1, <2>2, <2>3
  <1>3. ASSUME NEW n \in 1..Depth, n - 1 \in R PROVE n \in R
    <2> SUFFICES ASSUME 2 * n + 1 <= Depth, NEW v \in Level[n]
                 PROVE  Serialize[v] \in Level[2 * n + 1]
      OBVIOUS
    <2> DEFINE V == Level[n - 1]
               U == Level[2 * n - 1]
               W == Level[2 * n]
    <2>1. 2 * n - 1 \in 1..Depth /\ 2 * n \in 1..Depth /\ 2 * n + 1 \in 1..Depth
      BY DepthIsNat
    <2>2. Stays(n - 1) /\ 2 * (n - 1) + 1 = 2 * n - 1
      BY <1>3, <2>1, DepthIsNat
    <2>3. \A x \in V : Serialize[x] \in U
      BY <2>2
    <2>4. U = Atoms \cup Containers(Level[2 * n - 2])
      <3>1. (2 * n - 1) - 1 = 2 * n - 2
        OBVIOUS
      <3> QED
        BY <2>1, <3>1, LevelDef
    <2>5. W = Atoms \cup Containers(U)
      BY <2>1, LevelDef
    <2>6. U \subseteq W
      BY <2>1, LevelGrows
    <2>7. Level[2 * n + 1] = Atoms \cup Containers(W)
      <3>1. (2 * n + 1) - 1 = 2 * n
        OBVIOUS
      <3> QED
        BY <2>1, <3>1, LevelDef
    <2>8. W \subseteq Level[2 * n + 1]
      BY <2>1, LevelGrows
    <2>9. v \in Atoms \cup Containers(V)
      BY LevelDef
    <2>10. Serialize[v] = SerializeWith(Serialize, v)
      BY <1>1, SerializeDef
    <2> HIDE DEF V, U, W
    <2>11. SerializeWith(Serialize, v) \in W \cup Containers(W)
      BY <2>3, <2>4, <2>5, <2>6, <2>9, SerializeWithType
    <2> QED
      BY <2>7, <2>8, <2>10, <2>11
  <1> HIDE DEF R
  <1>4. \A n \in 0..Depth : n \in R
    BY <1>2, <1>3, UpTo, DepthIsNat
  <1> QED
    BY <1>1, <1>4 DEF R

-----------------------------------------------------------------------------
(* What is read is what was written. *)

LEMMA AtomRoundTrip ==
    ASSUME NEW f, NEW g, NEW h, NEW v \in Atoms
    PROVE  DeserializeWith(g, SerializeWith(f, v)) = KeptWith(h, v)
  <1>1. SerializeWith(f, v) = EncodedAtom(v)
    BY AtomKinds DEF SerializeWith, Primitives
  <1>2. CASE v[1] \in Primitives
    <2>1. EncodedAtom(v) = v
      BY <1>2 DEF EncodedAtom, Primitives
    <2>2. DeserializeWith(g, v) = v
      BY <1>2 DEF DeserializeWith, Primitives, IsEncoded
    <2>3. KeptWith(h, v) = v
      BY <1>2 DEF KeptWith, Primitives
    <2> QED
      BY <1>1, <2>1, <2>2, <2>3
  <1>3. CASE v[1] \in {"float", "object"}
    <2>1. EncodedAtom(v) = Text(v[2])
      BY <1>3 DEF EncodedAtom, Primitives
    <2>2. DeserializeWith(g, Text(v[2])) = Text(v[2])
      BY DEF DeserializeWith, Primitives, IsEncoded, Text
    <2>3. KeptWith(h, v) = Text(v[2])
      BY <1>3 DEF KeptWith, Primitives
    <2> QED
      BY <1>1, <2>1, <2>2, <2>3
  <1>4. CASE v[1] \in {"datetime", "timedelta"}
    <2> DEFINE j == Encoded(v[1], Number(v[2]))
    <2>1. EncodedAtom(v) = j
      BY <1>4 DEF EncodedAtom, Primitives
    <2>2. /\ j[1] = "dict"
          /\ Var(j) = <<"num", v[2]>>
          /\ IsEncoded(j, v[1], "num")
          /\ \A t, k : t # v[1] => ~ IsEncoded(j, t, k)
      BY EncodedIs DEF Number
    <2> HIDE DEF j
    <2>3. CASE v[1] = "datetime"
      <3>1. DeserializeWith(g, j) = Raises
        BY <2>2, <2>3 DEF DeserializeWith, Primitives
      <3> QED
        BY <1>1, <2>1, <2>3, <3>1 DEF KeptWith, Primitives
    <2>4. CASE v[1] = "timedelta"
      <3>1. DeserializeWith(g, j) = <<"timedelta", v[2]>>
        BY <2>2, <2>4 DEF DeserializeWith, Primitives
      <3>2. v = <<"timedelta", v[2]>>
        BY <2>4, AtomKinds
      <3> QED
        BY <1>1, <2>1, <2>4, <3>1, <3>2 DEF KeptWith, Primitives
    <2> QED
      BY <1>4, <2>3, <2>4
  <1> QED
    BY <1>2, <1>3, <1>4, AtomKinds

(* Over V, g reads what f wrote as h says. *)
Agree(V, f, g, h) == \A x \in V : g[f[x]] = h[x]

LEMMA RoundTripWith ==
    ASSUME NEW V, NEW f, NEW g, NEW h, Agree(V, f, g, h),
           NEW v, v \in Atoms \cup Containers(V)
    PROVE  DeserializeWith(g, SerializeWith(f, v)) = KeptWith(h, v)
  <1> USE DEF Agree
  <1>1. CASE v \in Atoms
    BY <1>1, AtomRoundTrip
  <1>2. CASE v \in Containers(V) /\ v[1] \in {"list", "tuple"}
    <2> DEFINE q == [i \in DOMAIN v[2] |-> f[v[2][i]]]
               r == [i \in DOMAIN v[2] |-> h[v[2][i]]]
    <2>1. v[2] \in Seq(V)
      BY <1>2, ContainerKinds
    <2>2. [i \in DOMAIN q |-> g[q[i]]] = r
      BY <2>1
    <2>3. SerializeWith(f, v) = EncodedItems(v[1], q)
      BY <1>2 DEF SerializeWith
    <2>4. KeptWith(h, v) = <<v[1], r>>
      BY <1>2 DEF KeptWith, Primitives
    <2> HIDE DEF q, r
    <2>5. CASE v[1] = "list"
      <3> DEFINE j == <<"list", q>>
      <3>1. j[1] = "list" /\ j[2] = q
        OBVIOUS
      <3> HIDE DEF j
      <3>2. DeserializeWith(g, j) = <<"list", [i \in DOMAIN q |-> g[q[i]]]>>
        BY <3>1 DEF DeserializeWith, Primitives, IsEncoded
      <3> QED
        BY <2>2, <2>3, <2>4, <2>5, <3>2 DEF EncodedItems, j
    <2>6. CASE v[1] = "tuple"
      <3> DEFINE j == Encoded("tuple", <<"list", q>>)
      <3>1. /\ j[1] = "dict"
            /\ Var(j) = <<"list", q>>
            /\ IsEncoded(j, "tuple", "list")
            /\ \A t, k : t # "tuple" => ~ IsEncoded(j, t, k)
        BY EncodedIs
      <3> HIDE DEF j
      <3>2. DeserializeWith(g, j) = <<"tuple", [i \in DOMAIN q |-> g[q[i]]]>>
        BY <3>1 DEF DeserializeWith, Primitives
      <3> QED
        BY <2>2, <2>3, <2>4, <2>6, <3>2 DEF EncodedItems, j
    <2> QED
      BY <1>2, <2>5, <2>6
  <1>3. CASE v \in Containers(V) /\ v[1] = "set"
    <2> DEFINE S == {f[x] : x \in v[2]}
               T == {h[x] : x \in v[2]}
               q == ListOf(S)
               j == Encoded("set", <<"list", q>>)
    <2>1. v[2] \in SUBSET V /\ IsFiniteSet(v[2])
      BY <1>3, ContainerKinds
    <2>2. {g[y] : y \in S} = T
      BY <2>1
    <2>3. IsFiniteSet(S)
      BY <2>1, ImageIsFinite
    <2>4. SerializeWith(f, v) = j
      BY <1>3 DEF SerializeWith, EncodedItems
    <2>5. KeptWith(h, v) = <<"set", T>>
      BY <1>3 DEF KeptWith, Primitives
    <2> HIDE DEF S, T
    <2>6. S = {q[i] : i \in DOMAIN q}
      BY <2>3, ListOfSet
    <2> HIDE DEF q
    <2>7. {g[q[i]] : i \in DOMAIN q} = T
      BY <2>2, <2>6
    <2>8. /\ j[1] = "dict"
          /\ Var(j) = <<"list", q>>
          /\ IsEncoded(j, "set", "list")
          /\ \A t, k : t # "set" => ~ IsEncoded(j, t, k)
      BY EncodedIs
    <2> HIDE DEF j
    <2>9. DeserializeWith(g, j) = <<"set", {g[q[i]] : i \in DOMAIN q}>>
      BY <2>8 DEF DeserializeWith, Primitives
    <2> QED
      BY <2>4, <2>5, <2>7, <2>9
  <1>4. CASE v \in Containers(V) /\ v[1] = "dict"
    <2> DEFINE S == {<<Text(e[1][2]), f[e[2]]>> : e \in v[2]}
               T == {<<Text(e[1][2]), h[e[2]]>> : e \in v[2]}
               j == Encoded("dict", <<"dict", S>>)
    <2>1. v[2] \in SUBSET (Atoms \X V)
      BY <1>4, ContainerKinds
    <2>2. {<<e[1], g[e[2]]>> : e \in S} = T
      <3>1. \A e \in v[2] : g[f[e[2]]] = h[e[2]]
        BY <2>1
      <3>2. ASSUME NEW y \in S PROVE <<y[1], g[y[2]]>> \in T
        <4>1. PICK e \in v[2] : y = <<Text(e[1][2]), f[e[2]]>>
          OBVIOUS
        <4> QED
          BY <3>1, <4>1
      <3>3. ASSUME NEW e \in v[2]
            PROVE  <<Text(e[1][2]), h[e[2]]>> \in {<<y[1], g[y[2]]>> : y \in S}
        <4> DEFINE y == <<Text(e[1][2]), f[e[2]]>>
        <4>1. y \in S /\ y[1] = Text(e[1][2]) /\ g[y[2]] = h[e[2]]
          BY <3>1
        <4> HIDE DEF y, S
        <4> QED
          BY <4>1
      <3>4. \A z \in T : \E e \in v[2] : z = <<Text(e[1][2]), h[e[2]]>>
        OBVIOUS
      <3> HIDE DEF S, T
      <3> QED
        BY <3>2, <3>3, <3>4
    <2>3. SerializeWith(f, v) = j
      BY <1>4 DEF SerializeWith
    <2>4. KeptWith(h, v) = <<"dict", T>>
      BY <1>4 DEF KeptWith, Primitives
    <2> HIDE DEF S, T
    <2>5. /\ j[1] = "dict"
          /\ Var(j) = <<"dict", S>>
          /\ IsEncoded(j, "dict", "dict")
          /\ \A t, k : t # "dict" => ~ IsEncoded(j, t, k)
      BY EncodedIs
    <2> HIDE DEF j
    <2>6. DeserializeWith(g, j) = <<"dict", {<<e[1], g[e[2]]>> : e \in S}>>
      BY <2>5 DEF DeserializeWith, Primitives
    <2> QED
      BY <2>2, <2>3, <2>4, <2>6
  <1> QED
    BY <1>1, <1>2, <1>3, <1>4, ContainerKinds

LEMMA RoundTrip ==
    \A n \in 0..Depth : 2 * n + 1 <= Depth =>
        \A v \in Level[n] : Deserialize[Serialize[v]] = Kept[v]
  <1> DEFINE Same(n) == \A v \in Level[n] : Deserialize[Serialize[v]] = Kept[v]
             R == {n \in 0..Depth : 2 * n + 1 <= Depth => Same(n)}
  <1>1. ASSUME NEW n \in 0..Depth, 2 * n + 1 <= Depth, NEW v \in Level[n],
               DeserializeWith(Deserialize, SerializeWith(Serialize, v)) = KeptWith(Kept, v)
        PROVE  Deserialize[Serialize[v]] = Kept[v]
    <2>1. v \in Values /\ Serialize[v] \in Level[2 * n + 1]
      BY <1>1, SerializeLevel
    <2>2. Serialize[v] \in Values
      <3>1. 2 * n + 1 \in 0..Depth
        BY <1>1, DepthIsNat
      <3> QED
        BY <2>1, <3>1, LevelsNest, DepthIsNat DEF Values
    <2> QED
      BY <1>1, <2>1, <2>2, SerializeDef, DeserializeDef, KeptDef
  <1>2. 0 \in R
    <2> SUFFICES ASSUME 1 <= Depth, NEW v \in Level[0] PROVE Deserialize[Serialize[v]] = Kept[v]
      BY DepthIsNat
    <2>1. v \in Atoms
      BY LevelDef
    <2> QED
      BY <1>1, <2>1, AtomRoundTrip, DepthIsNat
  <1>3. ASSUME NEW n \in 1..Depth, n - 1 \in R PROVE n \in R
    <2> SUFFICES ASSUME 2 * n + 1 <= Depth, NEW v \in Level[n]
                 PROVE  Deserialize[Serialize[v]] = Kept[v]
      OBVIOUS
    <2> DEFINE V == Level[n - 1]
    <2>1. \A x \in V : Deserialize[Serialize[x]] = Kept[x]
      BY <1>3, DepthIsNat
    <2>2. v \in Atoms \cup Containers(V)
      BY LevelDef
    <2>3. DeserializeWith(Deserialize, SerializeWith(Serialize, v)) = KeptWith(Kept, v)
      <3> DEFINE f == Serialize
                 g == Deserialize
                 h == Kept
      <3>1. Agree(V, f, g, h) /\ v \in Atoms \cup Containers(V)
        BY <2>1, <2>2 DEF Agree
      <3> HIDE DEF V, f, g, h
      <3>2. DeserializeWith(g, SerializeWith(f, v)) = KeptWith(h, v)
        BY <3>1, RoundTripWith
      <3> QED
        BY <3>2 DEF f, g, h
    <2> QED
      BY <1>1, <2>3, DepthIsNat
  <1> HIDE DEF R
  <1>4. \A n \in 0..Depth : n \in R
    BY <1>2, <1>3, UpTo, DepthIsNat
  <1> QED
    BY <1>4 DEF R

(* What is stored keeps its values when it is stored again. *)
LEMMA KeptAtom ==
    ASSUME NEW v \in Atoms, v[1] \in Primitives
    PROVE  Kept[v] = v
  <1>1. v \in Values
    BY LevelDef, LevelsNest, DepthIsNat DEF Values
  <1>2. KeptWith(Kept, v) = v
    BY DEF KeptWith, Primitives
  <1> QED
    BY <1>1, <1>2, KeptDef

LEMMA ContainerLevel ==
    ASSUME NEW n \in 1..Depth, NEW v \in Containers(Level[n - 1])
    PROVE  v \in Level[n] /\ v \in Values
  BY LevelDef, LevelsNest, DepthIsNat DEF Values

LEMMA KeptList ==
    ASSUME NEW n \in 1..Depth, NEW q \in Seq(Level[n - 1]), \A i \in DOMAIN q : Kept[q[i]] = q[i]
    PROVE  <<"list", q>> \in Level[n] /\ Kept[<<"list", q>>] = <<"list", q>>
  <1>1. <<"list", q>> \in Containers(Level[n - 1])
    BY DEF Containers
  <1>2. KeptWith(Kept, <<"list", q>>) = <<"list", [i \in DOMAIN q |-> Kept[q[i]]]>>
    BY DEF KeptWith, Primitives
  <1>3. [i \in DOMAIN q |-> Kept[q[i]]] = q
    OBVIOUS
  <1> QED
    BY <1>1, <1>2, <1>3, ContainerLevel, KeptDef

LEMMA KeptDict ==
    ASSUME NEW n \in 1..Depth, NEW S \in SUBSET (Atoms \X Level[n - 1]), IsDict(S),
           \A e \in S : e[1] = Text(e[1][2]) /\ Kept[e[2]] = e[2]
    PROVE  <<"dict", S>> \in Level[n] /\ Kept[<<"dict", S>>] = <<"dict", S>>
  <1>1. <<"dict", S>> \in Containers(Level[n - 1])
    BY DEF Containers
  <1>2. KeptWith(Kept, <<"dict", S>>) = <<"dict", {<<Text(e[1][2]), Kept[e[2]]>> : e \in S}>>
    BY DEF KeptWith, Primitives
  <1>3. {<<Text(e[1][2]), Kept[e[2]]>> : e \in S} = S
    <2>1. \A e \in S : <<Text(e[1][2]), Kept[e[2]]>> = e
      OBVIOUS
    <2> QED
      BY <2>1
  <1> QED
    BY <1>1, <1>2, <1>3, ContainerLevel, KeptDef

LEMMA KeptEncoded ==
    ASSUME NEW n \in 1..Depth, NEW x \in Level[n - 1], Kept[x] = x, NEW type \in AttrTypes
    PROVE  Kept[Encoded(type, x)] = Encoded(type, x)
  <1> DEFINE S == {<<Text("__type"), Text(type)>>, <<Text("__var"), x>>}
  <1>1. Text("__type") \in Atoms /\ Text("__var") \in Atoms /\ Text(type) \in Atoms
    BY SerialAssumption, TextIsAtom DEF Encoding
  <1>2. Atoms \subseteq Level[n - 1]
    BY LevelDef, LevelsNest, DepthIsNat
  <1>3. S \in SUBSET (Atoms \X Level[n - 1]) /\ IsDict(S)
    BY <1>1, <1>2 DEF IsDict, Text
  <1>4. Kept[Text(type)] = Text(type)
    BY <1>1, KeptAtom DEF Text, Primitives
  <1>5. \A e \in S : e[1] = Text(e[1][2]) /\ Kept[e[2]] = e[2]
    BY <1>4 DEF Text
  <1> HIDE DEF S
  <1>6. Kept[<<"dict", S>>] = <<"dict", S>>
    BY <1>3, <1>5, KeptDict
  <1> QED
    BY <1>6 DEF Encoded, S

(* Over V, f yields what is stored again as it is. *)
Keeps(V, f, W) == \A x \in V : f[x] \in W /\ Kept[f[x]] = f[x]

LEMMA KeptItems ==
    ASSUME NEW m \in 0..Depth, m + 2 <= Depth, NEW kind \in {"list", "tuple", "set"},
           NEW q \in Seq(Level[m]), \A i \in DOMAIN q : Kept[q[i]] = q[i]
    PROVE  Kept[EncodedItems(kind, q)] = EncodedItems(kind, q)
  <1> DEFINE n == m + 1
             k == m + 2
             x == <<"list", q>>
  <1>1. n \in 1..Depth /\ n - 1 = m /\ k \in 1..Depth /\ k - 1 = n
    BY DepthIsNat
  <1> HIDE DEF n, k
  <1>2. q \in Seq(Level[n - 1])
    BY <1>1
  <1>3. x \in Level[n] /\ Kept[x] = x
    BY <1>1, <1>2, KeptList
  <1> HIDE DEF x
  <1>4. x \in Level[k - 1] /\ kind \in AttrTypes \cup {"list"}
    BY <1>1, <1>3 DEF AttrTypes
  <1>5. kind # "list" => Kept[Encoded(kind, x)] = Encoded(kind, x)
    BY <1>1, <1>3, <1>4, KeptEncoded
  <1> QED
    BY <1>3, <1>5 DEF EncodedItems, x

TextKeys(D, f) == {<<Text(e[1][2]), f[e[2]]>> : e \in D}

LEMMA KeptTexts ==
    ASSUME NEW V, NEW W, NEW f, Keeps(V, f, W),
           NEW D, D \in SUBSET (Atoms \X V), IsDict(D)
    PROVE  /\ TextKeys(D, f) \in SUBSET (Atoms \X W)
           /\ IsDict(TextKeys(D, f))
           /\ \A e \in TextKeys(D, f) : e[1] = Text(e[1][2]) /\ Kept[e[2]] = e[2]
  <1> DEFINE S == TextKeys(D, f)
  <1>1. \A x \in V : f[x] \in W /\ Kept[f[x]] = f[x]
    BY DEF Keeps
  <1>2. \A e \in D : Text(e[1][2]) \in Atoms /\ f[e[2]] \in W /\ Kept[f[e[2]]] = f[e[2]]
    BY <1>1, AtomKinds, TextIsAtom
  <1>3. ASSUME NEW y \in S
        PROVE  y \in Atoms \X W /\ y[1] = Text(y[1][2]) /\ Kept[y[2]] = y[2]
    <2>1. PICK e \in D : y = <<Text(e[1][2]), f[e[2]]>>
      BY DEF TextKeys
    <2> QED
      BY <1>2, <2>1 DEF Text
  <1>4. ASSUME NEW y \in S, NEW z \in S, y[1][2] = z[1][2] PROVE y = z
    <2>1. PICK d \in D : y = <<Text(d[1][2]), f[d[2]]>>
      BY DEF TextKeys
    <2>2. PICK e \in D : z = <<Text(e[1][2]), f[e[2]]>>
      BY DEF TextKeys
    <2>3. d[1][2] = e[1][2]
      BY <1>4, <2>1, <2>2 DEF Text
    <2>4. d = e
      BY <2>3 DEF IsDict
    <2> QED
      BY <2>1, <2>2, <2>4
  <1> HIDE DEF S
  <1>5. S \in SUBSET (Atoms \X W) /\ IsDict(S) /\ \A e \in S : e[1] = Text(e[1][2]) /\ Kept[e[2]] = e[2]
    BY <1>3, <1>4 DEF IsDict
  <1> QED
    BY <1>5 DEF S

LEMMA KeptJson ==
    ASSUME NEW m \in 0..Depth, m + 2 <= Depth, NEW V, NEW f, Keeps(V, f, Level[m]),
           NEW v, v \in Atoms \cup Containers(V)
    PROVE  Kept[SerializeWith(f, v)] = SerializeWith(f, v)
  <1>1. CASE v \in Atoms
    <2>1. SerializeWith(f, v) = EncodedAtom(v)
      BY <1>1, AtomKinds DEF SerializeWith, Primitives
    <2>2. Number(v[2]) \in Atoms /\ Text(v[2]) \in Atoms
      BY <1>1, AtomKinds, TextIsAtom
    <2>3. CASE v[1] \in Primitives
      <3>1. EncodedAtom(v) = v
        BY <2>3 DEF EncodedAtom, Primitives
      <3> QED
        BY <1>1, <2>1, <2>3, <3>1, KeptAtom
    <2>4. CASE v[1] \in {"datetime", "timedelta"}
      <3> DEFINE x == Number(v[2])
      <3>1. 1 \in 1..Depth /\ 1 - 1 = 0 /\ x \in Level[0] /\ v[1] \in AttrTypes
        BY <2>2, <2>4, LevelDef, DepthIsNat DEF AttrTypes
      <3>2. Kept[x] = x
        BY <2>2, KeptAtom DEF Number, Primitives
      <3> HIDE DEF x
      <3>3. Kept[Encoded(v[1], x)] = Encoded(v[1], x)
        BY <3>1, <3>2, KeptEncoded
      <3>4. EncodedAtom(v) = Encoded(v[1], x)
        BY <2>4 DEF EncodedAtom, Primitives, x
      <3> QED
        BY <2>1, <3>3, <3>4
    <2>5. CASE v[1] \in {"float", "object"}
      <3>1. EncodedAtom(v) = Text(v[2])
        BY <2>5 DEF EncodedAtom, Primitives
      <3>2. Kept[Text(v[2])] = Text(v[2])
        BY <2>2, KeptAtom DEF Text, Primitives
      <3> QED
        BY <2>1, <3>1, <3>2
    <2> QED
      BY <1>1, <2>3, <2>4, <2>5, AtomKinds
  <1>2. CASE v \in Containers(V) /\ v[1] \in {"list", "tuple"}
    <2> DEFINE q == [i \in DOMAIN v[2] |-> f[v[2][i]]]
    <2>1. v[2] \in Seq(V)
      BY <1>2, ContainerKinds
    <2>2. q \in Seq(Level[m]) /\ \A i \in DOMAIN q : Kept[q[i]] = q[i]
      <3> DEFINE W == Level[m]
      <3>1. \A x \in V : f[x] \in W /\ Kept[f[x]] = f[x]
        BY DEF Keeps
      <3> HIDE DEF W
      <3>2. q \in Seq(W) /\ \A i \in DOMAIN q : Kept[q[i]] = q[i]
        BY <2>1, <3>1
      <3> QED
        BY <3>2 DEF W
    <2>3. SerializeWith(f, v) = EncodedItems(v[1], q)
      BY <1>2 DEF SerializeWith
    <2> HIDE DEF q
    <2> QED
      BY <1>2, <2>2, <2>3, KeptItems
  <1>3. CASE v \in Containers(V) /\ v[1] = "set"
    <2> DEFINE S == {f[x] : x \in v[2]}
               q == ListOf(S)
    <2>1. v[2] \in SUBSET V /\ IsFiniteSet(v[2])
      BY <1>3, ContainerKinds
    <2>2. S \in SUBSET Level[m] /\ \A y \in S : Kept[y] = y
      BY <2>1 DEF Keeps
    <2>3. IsFiniteSet(S)
      BY <2>1, ImageIsFinite
    <2>4. SerializeWith(f, v) = EncodedItems("set", q)
      BY <1>3 DEF SerializeWith
    <2> HIDE DEF S
    <2>5. q \in Seq(S) /\ S = {q[i] : i \in DOMAIN q}
      BY <2>3, ListOfSet
    <2> HIDE DEF q
    <2>6. q \in Seq(Level[m]) /\ \A i \in DOMAIN q : Kept[q[i]] = q[i]
      <3> DEFINE W == Level[m]
      <3>1. S \in SUBSET W
        BY <2>2
      <3> HIDE DEF W
      <3>2. q \in Seq(W)
        BY <2>5, <3>1
      <3>3. \A i \in DOMAIN q : q[i] \in S
        BY <2>5
      <3> QED
        BY <2>2, <3>2, <3>3 DEF W
    <2> QED
      BY <2>4, <2>6, KeptItems
  <1>4. CASE v \in Containers(V) /\ v[1] = "dict"
    <2> DEFINE S == {<<Text(e[1][2]), f[e[2]]>> : e \in v[2]}
               n == m + 1
               k == m + 2
               x == <<"dict", S>>
    <2>1. v[2] \in SUBSET (Atoms \X V) /\ IsDict(v[2])
      BY <1>4, ContainerKinds
    <2>2. n \in 1..Depth /\ n - 1 = m /\ k \in 1..Depth /\ k - 1 = n
      BY DepthIsNat
    <2>3. /\ S \in SUBSET (Atoms \X Level[m])
          /\ IsDict(S)
          /\ \A e \in S : e[1] = Text(e[1][2]) /\ Kept[e[2]] = e[2]
      <3> DEFINE D == v[2]
                 W == Level[m]
      <3>1. D \in SUBSET (Atoms \X V) /\ IsDict(D) /\ S = TextKeys(D, f) /\ Keeps(V, f, W)
        BY <2>1 DEF TextKeys
      <3> HIDE DEF D, S, W
      <3>2. /\ S \in SUBSET (Atoms \X W)
            /\ IsDict(S)
            /\ \A e \in S : e[1] = Text(e[1][2]) /\ Kept[e[2]] = e[2]
        BY <3>1, KeptTexts
      <3> QED
        BY <3>2 DEF W
    <2>4. SerializeWith(f, v) = Encoded("dict", x)
      BY <1>4 DEF SerializeWith
    <2> HIDE DEF n, k, S
    <2>5. S \in SUBSET (Atoms \X Level[n - 1])
      BY <2>2, <2>3
    <2>6. x \in Level[n] /\ Kept[x] = x
      BY <2>2, <2>3, <2>5, KeptDict
    <2> HIDE DEF x
    <2>7. x \in Level[k - 1] /\ "dict" \in AttrTypes
      BY <2>2, <2>6 DEF AttrTypes
    <2> QED
      BY <2>2, <2>4, <2>6, <2>7, KeptEncoded
  <1> QED
    BY <1>1, <1>2, <1>3, <1>4, ContainerKinds

LEMMA JsonKept ==
    \A n \in 0..Depth : 2 * n + 1 <= Depth =>
        \A v \in Level[n] : Kept[Serialize[v]] = Serialize[v]
  <1> DEFINE Same(n) == \A v \in Level[n] : Kept[Serialize[v]] = Serialize[v]
             R == {n \in 0..Depth : 2 * n + 1 <= Depth => Same(n)}
  <1>1. ASSUME NEW n \in 0..Depth, 2 * n + 1 <= Depth, NEW v \in Level[n],
               NEW m \in 0..Depth, m + 2 <= Depth,
               NEW V, Keeps(V, Serialize, Level[m]), v \in Atoms \cup Containers(V)
        PROVE  Kept[Serialize[v]] = Serialize[v]
    <2>1. Serialize[v] = SerializeWith(Serialize, v)
      BY <1>1, SerializeLevel, SerializeDef
    <2> DEFINE f == Serialize
    <2>2. Keeps(V, f, Level[m])
      BY <1>1
    <2> HIDE DEF f
    <2>3. Kept[SerializeWith(f, v)] = SerializeWith(f, v)
      BY <1>1, <2>2, KeptJson
    <2> QED
      BY <2>1, <2>3 DEF f
  <1>2. 0 \in R
    <2> SUFFICES ASSUME NEW v \in Level[0] PROVE Kept[Serialize[v]] = Serialize[v]
      BY DepthIsNat
    <2>1. Keeps({}, Serialize, Level[0]) /\ v \in Atoms \cup Containers({})
      BY LevelDef DEF Keeps
    <2>2. 0 \in 0..Depth /\ 0 + 2 <= Depth /\ 2 * 0 + 1 <= Depth
      BY SerialAssumption DEF Depth
    <2> QED
      BY <1>1, <2>1, <2>2
  <1>3. ASSUME NEW n \in 1..Depth, n - 1 \in R PROVE n \in R
    <2> SUFFICES ASSUME 2 * n + 1 <= Depth, NEW v \in Level[n]
                 PROVE  Kept[Serialize[v]] = Serialize[v]
      OBVIOUS
    <2> DEFINE V == Level[n - 1]
               m == 2 * n - 1
    <2>1. /\ n - 1 \in 0..Depth /\ n \in 0..Depth
          /\ 2 * (n - 1) + 1 = m
          /\ m \in 0..Depth /\ m + 2 <= Depth
      BY DepthIsNat
    <2>2. 2 * (n - 1) + 1 <= Depth
      BY <2>1, DepthIsNat
    <2>3. \A x \in V : Kept[Serialize[x]] = Serialize[x]
      BY <1>3, <2>2
    <2>4. \A x \in V : Serialize[x] \in Level[2 * (n - 1) + 1]
      BY <2>1, <2>2, SerializeLevel
    <2>5. Keeps(V, Serialize, Level[m])
      BY <2>1, <2>3, <2>4 DEF Keeps
    <2>6. v \in Atoms \cup Containers(V)
      BY LevelDef
    <2> HIDE DEF V, m
    <2> QED
      BY <1>1, <2>1, <2>5, <2>6
  <1> HIDE DEF R
  <1>4. \A n \in 0..Depth : n \in R
    BY <1>2, <1>3, UpTo, DepthIsNat
  <1> QED
    BY <1>4 DEF R

LEMMA LoadedStored ==
    ASSUME NEW params \in Level[Nesting], params[1] = "dict"
    PROVE  Loaded(Stored(params)) = Kept[params]
  <1> DEFINE k == Nesting - 1
             l == 2 * Nesting - 1
             n == 2 * Nesting
             V == Level[k]
             D == params[2]
             S == TextKeys(D, Serialize)
             J == <<"dict", S>>
  <1>1. /\ k \in 0..Depth /\ 2 * k + 1 = l /\ l <= Depth
        /\ l \in 0..Depth /\ n \in 1..Depth /\ n - 1 = l
        /\ n \in 0..Depth /\ 2 * n + 1 <= Depth
        /\ Nesting \in 1..Depth /\ Nesting - 1 = k
    BY SerialAssumption DEF Depth
  <1>2. params \in Containers(V) /\ params \in Values
    <2>1. params \notin Atoms
      BY AtomKinds DEF Primitives
    <2> QED
      BY <1>1, <2>1, LevelDef, ContainerLevel
  <1>3. D \in SUBSET (Atoms \X V) /\ IsDict(D)
    BY <1>2, ContainerKinds
  <1>4. \A x \in V : /\ Serialize[x] \in Level[l]
                     /\ Kept[Serialize[x]] = Serialize[x]
                     /\ Deserialize[Serialize[x]] = Kept[x]
    BY <1>1, SerializeLevel, JsonKept, RoundTrip
  <1>5. Stored(params) = Serialize[J]
    <2>1. Serialize[params] = SerializeWith(Serialize, params)
      BY <1>2, SerializeDef
    <2>2. SerializeWith(Serialize, params) = Encoded("dict", J)
      BY DEF SerializeWith, TextKeys
    <2> QED
      BY <2>1, <2>2, VarOfEncoded DEF Stored
  <1>6. S \in SUBSET (Atoms \X Level[l]) /\ IsDict(S)
        /\ \A e \in S : e[1] = Text(e[1][2]) /\ Kept[e[2]] = e[2]
    <2> DEFINE f == Serialize
               W == Level[l]
    <2>1. Keeps(V, f, W)
      BY <1>4 DEF Keeps
    <2> HIDE DEF V, D, f, W
    <2>2. LET T == TextKeys(D, f)
          IN  /\ T \in SUBSET (Atoms \X W) /\ IsDict(T)
              /\ \A e \in T : e[1] = Text(e[1][2]) /\ Kept[e[2]] = e[2]
      BY <1>3, <2>1, KeptTexts
    <2> QED
      BY <2>2 DEF f, W
  <1>7. {<<e[1], Deserialize[e[2]]>> : e \in S} = {<<Text(e[1][2]), Kept[e[2]]>> : e \in D}
    <2> DEFINE T == {<<Text(e[1][2]), Kept[e[2]]>> : e \in D}
    <2>1. \A e \in D : Deserialize[Serialize[e[2]]] = Kept[e[2]]
      BY <1>3, <1>4
    <2>2. ASSUME NEW y \in S PROVE <<y[1], Deserialize[y[2]]>> \in T
      <3>1. PICK e \in D : y = <<Text(e[1][2]), Serialize[e[2]]>>
        BY DEF TextKeys
      <3> QED
        BY <2>1, <3>1
    <2>3. ASSUME NEW e \in D
          PROVE  <<Text(e[1][2]), Kept[e[2]]>> \in {<<y[1], Deserialize[y[2]]>> : y \in S}
      <3> DEFINE y == <<Text(e[1][2]), Serialize[e[2]]>>
      <3>1. y \in S /\ y[1] = Text(e[1][2]) /\ Deserialize[y[2]] = Kept[e[2]]
        BY <2>1 DEF TextKeys
      <3> HIDE DEF y, S
      <3> QED
        BY <3>1
    <2>4. \A z \in T : \E e \in D : z = <<Text(e[1][2]), Kept[e[2]]>>
      OBVIOUS
    <2> HIDE DEF S, T
    <2> QED
      BY <2>2, <2>3, <2>4
  <1>8. Kept[params] = <<"dict", {<<Text(e[1][2]), Kept[e[2]]>> : e \in D}>>
    BY <1>2, KeptDef DEF KeptWith, Primitives
  <1> HIDE DEF k, l, n, V, S
  <1>9. J \in Level[n] /\ Kept[J] = J
    <2>1. S \in SUBSET (Atoms \X Level[n - 1])
      BY <1>1, <1>6
    <2> QED
      BY <1>1, <1>6, <2>1, KeptDict
  <1> HIDE DEF J
  <1>10. Deserialize[Serialize[J]] = J
    BY <1>1, <1>9, RoundTrip
  <1>11. J[2] = S
    BY DEF J
  <1> QED
    BY <1>5, <1>7, <1>8, <1>10, <1>11 DEF Loaded
=============================================================================
