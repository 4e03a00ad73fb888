----------------------------- MODULE DataProofs -----------------------------
(***************************************************************************)
(* Proofs about the interpreter's work on data.                            *)
(*                                                                         *)
(* Boxed values (Values), for any types, any scalars, any nesting and any  *)
(* number of threads: the interpreter compares as Go does, hashes what is  *)
(* equal alike, uses the host's map where that compares as it does itself, *)
(* and asserts types as they were put into interfaces.                     *)
(*                                                                         *)
(* Integer arithmetic (Arith), at every width: the interpreter's           *)
(* operations and conversions give what the Go specification says.         *)
(***************************************************************************)
EXTENDS Values, Arith, SequenceTheorems, FiniteSetTheorems, TLAPS

\* A set of numbers that is not empty has a least element.
LEMMA LeastOne ==
  ASSUME NEW T \in SUBSET Nat, T # {}
  PROVE  \E x \in T : \A y \in T : x <= y
<1> DEFINE Below(n) == 1 .. n
           Initial == {Below(x) : x \in T}
           R == StrictSubsetOrdering(Nat)
<1>1. IsWellFoundedOn(R, FiniteSubsetsOf(Nat))
  BY FS_StrictSubsetOrderingWellFounded
<1>2. Initial \subseteq FiniteSubsetsOf(Nat) /\ Initial # {}
  <2>1. ASSUME NEW x \in T PROVE Below(x) \in FiniteSubsetsOf(Nat)
    <3>1. IsFiniteSet(Below(x)) /\ Below(x) \subseteq Nat
      BY FS_Interval
    <3> QED BY <3>1 DEF FiniteSubsetsOf
  <2> HIDE DEF Below
  <2> QED BY <2>1
<1>3. PICK S \in Initial : \A V \in Initial : <<V, S>> \notin R
  <2> HIDE DEF Initial, R
  <2> QED BY <1>1, <1>2, WFMin
<1>4. PICK x \in T : S = Below(x)
  BY <1>3
<1>5. ASSUME NEW y \in T, y < x PROVE FALSE
  <2>1. /\ Below(y) \subseteq Below(x) /\ Below(y) # Below(x)
       /\ Below(y) \subseteq Nat /\ Below(x) \subseteq Nat
    <3>1. x \in Below(x) /\ x \notin Below(y)
      BY <1>5
    <3>2. QED BY <1>5, <3>1
  <2>2. <<Below(y), Below(x)>> \in R
    BY <2>1 DEF StrictSubsetOrdering
  <2> QED BY <2>2, <1>3, <1>4
<1> QED BY <1>5

\* A set that has 0 and the successor of each of its numbers has them all.
LEMMA NatsIn ==
  ASSUME NEW S, 0 \in S, \A n \in Nat : n \in S => n + 1 \in S
  PROVE  \A n \in Nat : n \in S
<1> DEFINE Bad == {n \in Nat : n \notin S}
<1> SUFFICES ASSUME Bad # {} PROVE FALSE
  OBVIOUS
<1>1. PICK n \in Bad : \A m \in Bad : n <= m
  <2>1. Bad \in SUBSET Nat
    OBVIOUS
  <2> HIDE DEF Bad
  <2> QED BY <2>1, LeastOne
<1>2. n \in Nat /\ n # 0 /\ n \notin S
  BY <1>1
<1>3. n - 1 \in Nat /\ n - 1 \notin Bad
  BY <1>1, <1>2
<1>4. n - 1 \in S /\ (n - 1) + 1 = n
  BY <1>2, <1>3
<1> QED BY <1>2, <1>3, <1>4

-----------------------------------------------------------------------------
\* The values of a type -----------------------------------------------------------------

\* The types at each level of nesting.
Levels == (0 .. MaxDepth) \X Types

\* The bound is a number.
LEMMA DepthIs == MaxDepth \in Nat
BY TypesAssumption

\* One level is one down, and there.
LEMMA LevelDown ==
  ASSUME NEW n \in 0 .. MaxDepth, n # 0
  PROVE  n - 1 \in 0 .. MaxDepth /\ n - 1 < n /\ n \in Nat
BY TypesAssumption

\* The values that an interface of type T holds, and the aggregates of type T, with parts
\* of the values that f gives one level down.
HeldIn(f, n, T) ==
  UNION {{Dyn(D, v) : v \in f[<<n - 1, D>>]} : D \in {E \in DynTypes : Implements(E, T)}}
MadeOf(f, n, T) ==
  {Agg(h) : h \in Tuples([i \in DOMAIN PartTypes(T) |-> f[<<n - 1, PartTypes(T)[i]>>]])}

\* One level of Nested, from what f gives below.
NestOne(f, p) ==
  CASE IsInterface(p[2]) -> {NilIface} \cup IF p[1] = 0 THEN {} ELSE HeldIn(f, p[1], p[2])
    [] IsAggregate(p[2]) -> IF p[1] = 0 THEN {} ELSE MadeOf(f, p[1], p[2])
    [] OTHER -> {Boxed(TagOf(p[2]), is) : is \in Literals[TagOf(p[2])]}

\* f and g are alike below p.
AlikeBelow(f, g, p) == \A T \in Types : p[1] # 0 => f[<<p[1] - 1, T>>] = g[<<p[1] - 1, T>>]

\* The parts of an aggregate have types, in a row.
LEMMA PartsAre ==
  ASSUME NEW T \in Types, IsAggregate(T)
  PROVE  \E k \in Nat : /\ DOMAIN PartTypes(T) = 1 .. k
                        /\ \A i \in 1 .. k : PartTypes(T)[i] \in Types
<1>1. PartTypes(T) \in Seq(Types)
  BY TypesAssumption
<1>2. PICK s : s = PartTypes(T)
  OBVIOUS
<1>3. s \in Seq(Types)
  BY <1>1, <1>2
<1>4. Len(s) \in Nat /\ DOMAIN s = 1 .. Len(s) /\ \A i \in 1 .. Len(s) : s[i] \in Types
  BY <1>3, LenProperties, ElementOfSeq
<1> QED BY <1>2, <1>4

\* A level of Nested looks at the one below only.
LEMMA NestAgrees ==
  ASSUME NEW f, NEW g, NEW p \in Levels, AlikeBelow(f, g, p)
  PROVE  NestOne(f, p) = NestOne(g, p)
<1>1. PICK n \in 0 .. MaxDepth, T \in Types : p = <<n, T>> /\ p[1] = n /\ p[2] = T
  BY DEF Levels
<1>2. CASE n = 0
  BY <1>1, <1>2 DEF NestOne
<1>3. CASE n # 0
  <2>1. ASSUME NEW D \in Types PROVE f[<<n - 1, D>>] = g[<<n - 1, D>>]
    BY <1>1, <1>3 DEF AlikeBelow
  <2>2. HeldIn(f, n, T) = HeldIn(g, n, T)
    <3> DEFINE S == {E \in DynTypes : Implements(E, T)}
               F(D) == {Dyn(D, v) : v \in f[<<n - 1, D>>]}
               G(D) == {Dyn(D, v) : v \in g[<<n - 1, D>>]}
    <3>1. ASSUME NEW D \in S PROVE F(D) = G(D)
      BY <2>1, TypesAssumption
    <3>2. HeldIn(f, n, T) = UNION {F(D) : D \in S} /\ HeldIn(g, n, T) = UNION {G(D) : D \in S}
      BY DEF HeldIn
    <3> HIDE DEF S, F, G
    <3> QED BY <3>1, <3>2
  <2>3. CASE IsAggregate(T)
    <3> DEFINE F == [i \in DOMAIN PartTypes(T) |-> f[<<n - 1, PartTypes(T)[i]>>]]
               G == [i \in DOMAIN PartTypes(T) |-> g[<<n - 1, PartTypes(T)[i]>>]]
    <3>1. F = G
      BY <2>1, <2>3, PartsAre
    <3>2. /\ MadeOf(f, n, T) = {Agg(h) : h \in Tuples(F)}
         /\ MadeOf(g, n, T) = {Agg(h) : h \in Tuples(G)}
      BY DEF MadeOf
    <3> HIDE DEF F, G
    <3>3. MadeOf(f, n, T) = MadeOf(g, n, T)
      BY <3>1, <3>2
    <3> QED BY <1>1, <2>2, <3>3 DEF NestOne
  <2>4. CASE ~IsAggregate(T)
    BY <1>1, <2>2, <2>4 DEF NestOne
  <2> QED BY <2>3, <2>4
<1> QED BY <1>2, <1>3

\* f gives the values below level n.
NestsTo(f, n) == f = [p \in Levels |-> f[p]] /\ \A p \in Levels : p[1] < n => f[p] = NestOne(f, p)

\* To every level something does.
LEMMA NestsAll == \A n \in Nat : \E f : NestsTo(f, n)
<1> DEFINE S == {n \in Nat : \E f : NestsTo(f, n)}
<1>1. 0 \in S
  <2>1. PICK f : f = [p \in Levels |-> {}]
    OBVIOUS
  <2>2. NestsTo(f, 0)
    BY <2>1, TypesAssumption DEF NestsTo, Levels
  <2> QED BY <2>2
<1>2. ASSUME NEW n \in Nat, n \in S PROVE n + 1 \in S
  <2>1. PICK f : NestsTo(f, n)
    BY <1>2
  <2>2. PICK g : g = [p \in Levels |-> NestOne(f, p)]
    OBVIOUS
  <2>3. ASSUME NEW p \in Levels, p[1] < n + 1 PROVE g[p] = NestOne(g, p)
    <3>1. p[1] \in 0 .. MaxDepth
      BY DEF Levels
    <3>2. AlikeBelow(f, g, p)
      <4>1. ASSUME NEW T \in Types, p[1] # 0 PROVE f[<<p[1] - 1, T>>] = g[<<p[1] - 1, T>>]
        <5>1. PICK q : q = <<p[1] - 1, T>>
          OBVIOUS
        <5>2. q \in Levels /\ q[1] < n
          BY <3>1, <4>1, <5>1, <2>3, TypesAssumption DEF Levels
        <5>3. f[q] = NestOne(f, q) /\ g[q] = NestOne(f, q)
          BY <5>2, <2>1, <2>2 DEF NestsTo
        <5> QED BY <5>1, <5>3
      <4> QED BY <4>1 DEF AlikeBelow
    <3>3. NestOne(f, p) = NestOne(g, p)
      BY <3>2, NestAgrees
    <3> QED BY <3>3, <2>2
  <2>4. g = [p \in Levels |-> g[p]]
    BY <2>2
  <2>5. NestsTo(g, n + 1)
    BY <2>3, <2>4 DEF NestsTo
  <2> QED BY <2>5
<1> HIDE DEF S
<1>3. \A n \in Nat : n \in S
  BY <1>1, <1>2, NatsIn
<1> QED BY <1>3 DEF S

\* Nested is what its definition says.
LEMMA NestedIs ==
  ASSUME NEW p \in Levels
  PROVE  Nested[p] = NestOne(Nested, p)
<1>1. PICK f : NestsTo(f, MaxDepth + 1)
  BY NestsAll, TypesAssumption
<1>2. \A q \in Levels : q[1] < MaxDepth + 1
  BY TypesAssumption DEF Levels
<1>3. f = [q \in Levels |-> NestOne(f, q)]
  BY <1>1, <1>2 DEF NestsTo
<1>4. Nested = CHOOSE g : g = [q \in Levels |-> NestOne(g, q)]
  BY DEF Nested, Levels, NestOne, HeldIn, MadeOf
<1>5. Nested = [q \in Levels |-> NestOne(Nested, q)]
  BY <1>3, <1>4
<1> QED BY <1>5

\* x is an interface value of type T around a value one level down.
Holds(n, T, x) ==
  /\ n # 0
  /\ x.t \in DynTypes /\ x.t \in Types /\ x.t # NoType
  /\ Implements(x.t, T)
  /\ x.v \in Nested[<<n - 1, x.t>>]
  /\ x = Dyn(x.t, x.v)

\* x is an aggregate of type T of parts one level down.
Made(n, T, x) ==
  /\ n # 0
  /\ DOMAIN x.parts = DOMAIN PartTypes(T)
  /\ x.parts = [i \in DOMAIN PartTypes(T) |-> x.parts[i]]
  /\ \A i \in DOMAIN PartTypes(T) : x.parts[i] \in Nested[<<n - 1, PartTypes(T)[i]>>]
  /\ x = Agg(x.parts)

\* The dynamic types are types that are no interfaces.
LEMMA DynIs ==
  ASSUME NEW D \in DynTypes
  PROVE  D \in Types /\ D # NoType /\ D # Unhashable /\ ~IsInterface(D)
BY TypesAssumption DEF IsInterface

\* What an interface holds.
LEMMA HeldIs ==
  ASSUME NEW n \in 0 .. MaxDepth, NEW T \in Types, IsInterface(T),
         NEW x \in Nested[<<n, T>>]
  PROVE  x = NilIface \/ Holds(n, T, x)
<1>1. PICK p : p = <<n, T>> /\ p[1] = n /\ p[2] = T
  OBVIOUS
<1>2. p \in Levels
  BY <1>1 DEF Levels
<1>3. Nested[p] = {NilIface} \cup IF n = 0 THEN {} ELSE HeldIn(Nested, n, T)
  BY <1>1, <1>2, NestedIs DEF NestOne, IsInterface, IsAggregate
<1>4. ASSUME n # 0, x \in HeldIn(Nested, n, T) PROVE Holds(n, T, x)
  <2>1. PICK D \in DynTypes : Implements(D, T) /\ \E v \in Nested[<<n - 1, D>>] : x = Dyn(D, v)
    BY <1>4 DEF HeldIn
  <2>2. PICK v \in Nested[<<n - 1, D>>] : x = Dyn(D, v)
    BY <2>1
  <2>3. x.t = D /\ x.v = v
    BY <2>2 DEF Dyn
  <2> QED BY <1>4, <2>1, <2>2, <2>3, DynIs DEF Holds
<1> QED BY <1>1, <1>3, <1>4

\* What an aggregate is made of.
LEMMA MadeIs ==
  ASSUME NEW n \in 0 .. MaxDepth, NEW T \in Types, IsAggregate(T),
         NEW x \in Nested[<<n, T>>]
  PROVE  Made(n, T, x)
<1>1. PICK p : p = <<n, T>> /\ p[1] = n /\ p[2] = T
  OBVIOUS
<1>2. p \in Levels
  BY <1>1 DEF Levels
<1>3. ~IsInterface(T)
  BY DEF IsInterface, IsAggregate
<1>4. Nested[p] = IF n = 0 THEN {} ELSE MadeOf(Nested, n, T)
  BY <1>1, <1>2, <1>3, NestedIs DEF NestOne
<1>5. n # 0 /\ x \in MadeOf(Nested, n, T)
  BY <1>1, <1>4
<1>6. PICK sets : sets = [i \in DOMAIN PartTypes(T) |-> Nested[<<n - 1, PartTypes(T)[i]>>]]
  OBVIOUS
<1>7. PICK h \in Tuples(sets) : x = Agg(h)
  BY <1>5, <1>6 DEF MadeOf
<1>8. h = [i \in DOMAIN sets |-> h[i]] /\ \A i \in DOMAIN sets : h[i] \in sets[i]
  BY <1>7 DEF Tuples
<1>9. x.parts = h /\ DOMAIN sets = DOMAIN PartTypes(T)
  BY <1>6, <1>7 DEF Agg
<1> QED BY <1>5, <1>6, <1>7, <1>8, <1>9 DEF Made

\* The other values.
LEMMA ScalarIs ==
  ASSUME NEW n \in 0 .. MaxDepth, NEW T \in Types, ~IsInterface(T), ~IsAggregate(T),
         NEW x \in Nested[<<n, T>>]
  PROVE  /\ TagOf(T) \in DOMAIN Literals
         /\ x.is \in Literals[TagOf(T)]
         /\ x = Boxed(TagOf(T), x.is)
         /\ x.tag = TagOf(T)
         /\ x.tag \in {"int", "float", "pointer", "func", "slice", "map", "hashmap"}
<1>1. PICK p : p = <<n, T>> /\ p[1] = n /\ p[2] = T
  OBVIOUS
<1>2. p \in Levels
  BY <1>1 DEF Levels
<1>3. Nested[p] = {Boxed(TagOf(T), is) : is \in Literals[TagOf(T)]}
  BY <1>1, <1>2, NestedIs DEF NestOne
<1>4. PICK is \in Literals[TagOf(T)] : x = Boxed(TagOf(T), is)
  BY <1>1, <1>3
<1>5. x.is = is /\ x.tag = TagOf(T)
  BY <1>4 DEF Boxed
<1>6. TagOf(T) \in DOMAIN Literals
  BY TypesAssumption
<1> QED BY <1>4, <1>5, <1>6, ScalarsAssumption

\* The tag of a value tells its kind.
LEMMA TagTells ==
  ASSUME NEW n \in 0 .. MaxDepth, NEW T \in Types, NEW x \in Nested[<<n, T>>]
  PROVE  /\ x.tag = "agg" <=> IsAggregate(T)
         /\ x.tag = "iface" <=> IsInterface(T)
<1>1. CASE IsAggregate(T)
  <2>1. PICK h : h = x.parts
    OBVIOUS
  <2>2. x = Agg(h)
    BY <1>1, <2>1, MadeIs DEF Made
  <2>3. x.tag = "agg"
    BY <2>2 DEF Agg
  <2> QED BY <1>1, <2>3 DEF IsInterface, IsAggregate
<1>2. CASE IsInterface(T)
  <2>1. PICK D, v : D = x.t /\ v = x.v
    OBVIOUS
  <2>2. x = NilIface \/ x = Dyn(D, v)
    BY <1>2, <2>1, HeldIs DEF Holds
  <2>3. x.tag = "iface"
    BY <2>2 DEF Dyn, NilIface
  <2> QED BY <1>2, <2>3 DEF IsInterface, IsAggregate
<1>3. CASE ~IsAggregate(T) /\ ~IsInterface(T)
  BY <1>3, ScalarIs
<1> QED BY <1>1, <1>2, <1>3

-----------------------------------------------------------------------------
\* Values laid out one after another -------------------------------------------------------

\* f lays out the sequences s one after another, up to the n-th of k.
LaysTo(f, s, k, n) ==
  /\ f = [i \in 1 .. k |-> f[i]]
  /\ \A i \in 1 .. k : i <= n => f[i] = IF i = 1 THEN s[i] ELSE f[i - 1] \o s[i]

\* To every n something does.
LEMMA LaysAll == \A s : \A k, n \in Nat : \E f : LaysTo(f, s, k, n)
<1> SUFFICES ASSUME NEW s, NEW k \in Nat PROVE \A n \in Nat : \E f : LaysTo(f, s, k, n)
  OBVIOUS
<1> DEFINE S == {n \in Nat : \E f : LaysTo(f, s, k, n)}
<1>1. 0 \in S
  <2>1. PICK f : f = [i \in 1 .. k |-> <<>>]
    OBVIOUS
  <2>2. f = [i \in 1 .. k |-> f[i]]
    BY <2>1
  <2>3. \A i \in 1 .. k : ~(i <= 0)
    OBVIOUS
  <2>4. LaysTo(f, s, k, 0)
    BY <2>2, <2>3 DEF LaysTo
  <2> QED BY <2>4
<1>2. ASSUME NEW n \in Nat, n \in S PROVE n + 1 \in S
  <2>1. PICK f : LaysTo(f, s, k, n)
    BY <1>2
  <2>2. PICK g : g = [i \in 1 .. k |-> IF i = 1 THEN s[i] ELSE f[i - 1] \o s[i]]
    OBVIOUS
  <2>3. ASSUME NEW i \in 1 .. k, i <= n + 1 PROVE g[i] = IF i = 1 THEN s[i] ELSE g[i - 1] \o s[i]
    <3>1. CASE i = 1
      BY <2>2, <3>1
    <3>2. CASE i # 1
      <4>1. i - 1 \in 1 .. k /\ i - 1 <= n
        BY <2>3, <3>2
      <4>2. PICK j : j = i - 1
        OBVIOUS
      <4>3. f[j] = g[j]
        BY <4>1, <4>2, <2>1, <2>2 DEF LaysTo
      <4> QED BY <4>2, <4>3, <2>2, <3>2
    <3> QED BY <3>1, <3>2
  <2>4. g = [i \in 1 .. k |-> g[i]]
    BY <2>2
  <2>5. LaysTo(g, s, k, n + 1)
    BY <2>3, <2>4 DEF LaysTo
  <2> QED BY <2>5
<1> HIDE DEF S
<1>3. \A n \in Nat : n \in S
  BY <1>1, <1>2, NatsIn
<1> QED BY <1>3 DEF S

\* g is FlattenSeq of the first of k sequences s over S.
Lays(g, s, k, S) ==
  /\ g[0] = <<>>
  /\ \A i \in 1 .. k : g[i] = g[i - 1] \o s[i]
  /\ \A i \in 0 .. k : g[i] \in Seq(S)
  /\ FlattenSeq(s) = g[k]

\* FlattenSeq is laid out step by step.
LEMMA Laid ==
  ASSUME NEW S, NEW k \in Nat, NEW s, DOMAIN s = 1 .. k, s = [i \in 1 .. k |-> s[i]],
         \A i \in 1 .. k : s[i] \in Seq(S)
  PROVE  \E g : Lays(g, s, k, S)
<1>1. PICK f : LaysTo(f, s, k, k)
  BY LaysAll
<1>2. s \in Seq(Seq(S)) /\ Len(s) = k
  <2>1. s \in [1 .. k -> Seq(S)]
    OBVIOUS
  <2>2. s \in Seq(Seq(S))
    BY <2>1, SeqDef
  <2> QED BY <2>2, LenProperties
<1>3. f = [i \in 1 .. k |-> IF i = 1 THEN s[i] ELSE f[i - 1] \o s[i]]
  <2>1. ASSUME NEW i \in 1 .. k PROVE f[i] = IF i = 1 THEN s[i] ELSE f[i - 1] \o s[i]
    <3>1. i <= k
      OBVIOUS
    <3> QED BY <1>1, <3>1, ZenonT(30) DEF LaysTo
  <2>2. f = [i \in 1 .. k |-> f[i]]
    BY <1>1 DEF LaysTo
  <2> QED BY <2>1, <2>2
<1>4. PICK g : g = [i \in 0 .. k |-> IF i = 0 THEN <<>> ELSE f[i]]
  OBVIOUS
<1>5. g[0] = <<>>
  BY <1>4
<1>6. ASSUME NEW i \in 1 .. k PROVE g[i] = g[i - 1] \o s[i]
  <2>1. CASE i = 1
    <3>1. g[1] = s[1] /\ g[0] = <<>> /\ s[1] \in Seq(S)
      BY <1>3, <1>4, <2>1
    <3> QED BY <3>1, <2>1, ConcatEmptySeq
  <2>2. CASE i # 1
    <3>1. i - 1 \in 1 .. k
      BY <2>2
    <3>2. g[i] = f[i] /\ g[i - 1] = f[i - 1]
      BY <3>1, <1>4
    <3> QED BY <3>2, <1>3, <2>2
  <2> QED BY <2>1, <2>2
<1>7. \A i \in 0 .. k : g[i] \in Seq(S)
  <2> DEFINE G == {i \in Nat : i <= k => g[i] \in Seq(S)}
  <2>1. 0 \in G
    BY <1>5, EmptySeq
  <2>2. ASSUME NEW i \in Nat, i \in G PROVE i + 1 \in G
    <3> SUFFICES ASSUME i + 1 <= k PROVE g[i + 1] \in Seq(S)
      OBVIOUS
    <3>1. i + 1 \in 1 .. k /\ i <= k /\ (i + 1) - 1 = i
      OBVIOUS
    <3>2. PICK j : j = i + 1
      OBVIOUS
    <3>3. g[j] = g[i] \o s[j] /\ g[i] \in Seq(S) /\ s[j] \in Seq(S)
      BY <1>6, <2>2, <3>1, <3>2
    <3> QED BY <3>2, <3>3, ConcatProperties
  <2> HIDE DEF G
  <2>3. \A i \in Nat : i \in G
    BY <2>1, <2>2, NatsIn
  <2> QED BY <2>3 DEF G
<1>8. FlattenSeq(s) = g[k]
  <2>1. CASE k = 0
    <3>1. FlattenSeq(s) = s
      BY <1>2, <2>1 DEF FlattenSeq
    <3>2. s = <<>>
      BY <1>2, <2>1, EmptySeq
    <3> QED BY <3>1, <3>2, <1>5, <2>1
  <2>2. CASE k # 0
    <3> DEFINE h == CHOOSE h : h = [i \in 1 .. k |-> IF i = 1 THEN s[i] ELSE h[i - 1] \o s[i]]
    <3>1. FlattenSeq(s) = h[k]
      BY <1>2, <2>2 DEF FlattenSeq
    <3>2. h = [i \in 1 .. k |-> IF i = 1 THEN s[i] ELSE h[i - 1] \o s[i]]
      BY <1>3
    <3> HIDE DEF h
    <3> DEFINE G == {i \in Nat : i \in 1 .. k => h[i] = f[i]}
    <3>3. 0 \in G
      OBVIOUS
    <3>4. ASSUME NEW i \in Nat, i \in G PROVE i + 1 \in G
      <4> SUFFICES ASSUME i + 1 \in 1 .. k PROVE h[i + 1] = f[i + 1]
        OBVIOUS
      <4>1. PICK j : j = i + 1
        OBVIOUS
      <4>2. j \in 1 .. k /\ j - 1 = i /\ (j # 1 => i \in 1 .. k)
        BY <4>1
      <4>3. j # 1 => h[i] = f[i]
        BY <4>2, <3>4
      <4>4. h[j] = IF j = 1 THEN s[j] ELSE h[i] \o s[j]
        BY <4>2, <3>2
      <4>5. f[j] = IF j = 1 THEN s[j] ELSE f[i] \o s[j]
        BY <4>2, <1>3
      <4> QED BY <4>1, <4>3, <4>4, <4>5
    <3> HIDE DEF G
    <3>5. \A i \in Nat : i \in G
      BY <3>3, <3>4, NatsIn
    <3>6. h[k] = f[k] /\ g[k] = f[k]
      BY <3>5, <2>2, <1>4 DEF G
    <3> QED BY <3>1, <3>6
  <2> QED BY <2>1, <2>2
<1> QED BY <1>5, <1>6, <1>7, <1>8 DEF Lays

-----------------------------------------------------------------------------
\* Functions on values, one level at a time --------------------------------------------------

\* A value with its type and nesting is in Typed.
LEMMA InTyped ==
  ASSUME NEW n \in 0 .. MaxDepth, NEW T \in Types, NEW x \in Nested[<<n, T>>]
  PROVE  <<n, T, x>> \in Typed
<1>1. PICK A : A = {<<n, T, y>> : y \in Nested[<<n, T>>]}
  OBVIOUS
<1>2. <<n, T, x>> \in A
  BY <1>1
<1>3. A \subseteq Typed
  BY <1>1 DEF Typed
<1> QED BY <1>2, <1>3

\* What Typed has in it.
LEMMA TypedIs ==
  ASSUME NEW q \in Typed
  PROVE  /\ q[1] \in 0 .. MaxDepth
         /\ q[2] \in Types
         /\ q[3] \in Nested[<<q[1], q[2]>>]
         /\ q = <<q[1], q[2], q[3]>>
<1>1. PICK n \in 0 .. MaxDepth, T \in Types : q \in {<<n, T, y>> : y \in Nested[<<n, T>>]}
  BY DEF Typed
<1>2. PICK y \in Nested[<<n, T>>] : q = <<n, T, y>>
  BY <1>1
<1>3. q[1] = n /\ q[2] = T /\ q[3] = y
  BY <1>2
<1> QED BY <1>1, <1>2, <1>3

\* Its level is a number.
LEMMA TypedAt ==
  ASSUME NEW q \in Typed
  PROVE  q[1] \in Nat /\ ~(q[1] < 0) /\ q[1] < MaxDepth + 1
<1>1. PICK n : n = q[1]
  OBVIOUS
<1>2. n \in 0 .. MaxDepth
  BY <1>1, TypedIs
<1> QED BY <1>1, <1>2, DepthIs

\* Part i of an aggregate, and what is inside an interface.
Part(q, i) == <<q[1] - 1, PartTypes(q[2])[i], q[3].parts[i]>>
Inner(q) == <<q[1] - 1, q[3].t, q[3].v>>

IsAgg(q) == q[3].tag = "agg"
IsFull(q) == q[3].tag = "iface" /\ q[3].t # NoType

\* The parts of a value are values, one level down.
LEMMA PartsBelow ==
  ASSUME NEW q \in Typed
  PROVE  /\ IsAgg(q) => /\ q[1] # 0
                        /\ \A i \in DOMAIN PartTypes(q[2]) :
                             Part(q, i) \in Typed /\ Part(q, i)[1] = q[1] - 1
         /\ IsFull(q) => q[1] # 0 /\ Inner(q) \in Typed /\ Inner(q)[1] = q[1] - 1
<1>1. PICK n, T, x :
        /\ n \in 0 .. MaxDepth /\ T \in Types
        /\ q = <<n, T, x>> /\ q[1] = n /\ q[2] = T /\ q[3] = x /\ x \in Nested[<<n, T>>]
  BY TypedIs
<1>2. CASE IsAgg(q)
  <2>1. IsAggregate(T)
    BY <1>1, <1>2, TagTells DEF IsAgg
  <2>2. Made(n, T, x)
    BY <1>1, <2>1, MadeIs
  <2>3. n # 0 /\ n - 1 \in 0 .. MaxDepth
    BY <1>1, <2>2, LevelDown DEF Made
  <2>4. ASSUME NEW i \in DOMAIN PartTypes(T) PROVE Part(q, i) \in Typed /\ Part(q, i)[1] = n - 1
    <3>1. PICK D, y : D = PartTypes(T)[i] /\ y = x.parts[i]
      OBVIOUS
    <3>2. D \in Types
      BY <1>1, <2>1, <3>1, PartsAre
    <3>3. y \in Nested[<<n - 1, D>>]
      BY <2>2, <3>1 DEF Made
    <3>4. PICK m : m = n - 1
      OBVIOUS
    <3>5. <<m, D, y>> \in Typed
      BY <2>3, <3>2, <3>3, <3>4, InTyped
    <3>6. Part(q, i) = <<m, D, y>>
      BY <1>1, <3>1, <3>4 DEF Part
    <3> QED BY <3>4, <3>5, <3>6
  <2>5. ~IsFull(q)
    BY <1>2 DEF IsAgg, IsFull
  <2> QED BY <1>1, <2>3, <2>4, <2>5
<1>3. CASE IsFull(q)
  <2>1. IsInterface(T)
    BY <1>1, <1>3, TagTells DEF IsFull
  <2>2. Holds(n, T, x)
    <3>1. NilIface.t = NoType
      BY DEF NilIface, Dyn
    <3> QED BY <1>1, <1>3, <2>1, <3>1, HeldIs DEF IsFull
  <2>3. n # 0 /\ n - 1 \in 0 .. MaxDepth
    BY <1>1, <2>2, LevelDown DEF Holds
  <2>4. PICK D, y, m : D = x.t /\ y = x.v /\ m = n - 1
    OBVIOUS
  <2>5. D \in Types /\ y \in Nested[<<m, D>>]
    BY <2>2, <2>4 DEF Holds
  <2>6. <<m, D, y>> \in Typed
    BY <2>3, <2>4, <2>5, InTyped
  <2>7. Inner(q) = <<m, D, y>>
    BY <1>1, <2>4 DEF Inner
  <2>8. ~IsAgg(q)
    BY <1>3 DEF IsAgg, IsFull
  <2> QED BY <1>1, <2>3, <2>4, <2>6, <2>7, <2>8
<1> QED BY <1>2, <1>3

\* f and g are alike on what is directly inside q.
AlikeUnder(f, g, q) ==
  /\ IsAgg(q) => \A i \in DOMAIN PartTypes(q[2]) : f[Part(q, i)] = g[Part(q, i)]
  /\ IsFull(q) => f[Inner(q)] = g[Inner(q)]

\* Functions that are alike below a level are alike on what is inside the values there.
LEMMA AlikeInside ==
  ASSUME NEW f, NEW g, NEW n \in Nat, \A r \in Typed : r[1] < n => f[r] = g[r],
         NEW q \in Typed, q[1] < n + 1
  PROVE  AlikeUnder(f, g, q)
<1>1. q[1] \in Nat
  BY TypedAt
<1>2. ASSUME NEW r \in Typed, r[1] = q[1] - 1 PROVE f[r] = g[r]
  <2>1. r[1] < n
    BY <1>1, <1>2
  <2> QED BY <2>1
<1>3. ASSUME IsAgg(q), NEW i \in DOMAIN PartTypes(q[2]) PROVE f[Part(q, i)] = g[Part(q, i)]
  <2>1. PICK r : r = Part(q, i)
    OBVIOUS
  <2>2. r \in Typed /\ r[1] = q[1] - 1
    BY <1>3, <2>1, PartsBelow
  <2> QED BY <1>2, <2>1, <2>2
<1>4. ASSUME IsFull(q) PROVE f[Inner(q)] = g[Inner(q)]
  <2>1. PICK r : r = Inner(q)
    OBVIOUS
  <2>2. r \in Typed /\ r[1] = q[1] - 1
    BY <1>4, <2>1, PartsBelow
  <2> QED BY <1>2, <2>1, <2>2
<1> QED BY <1>3, <1>4 DEF AlikeUnder

\* One level of HashOf, from what f gives below.
HashOne(f, q) ==
  CASE q[3].tag = "agg" ->
         Total([i \in DOMAIN PartTypes(q[2]) |-> IF LooksAt(q[2], i) THEN f[Part(q, i)] ELSE 0])
    [] q[3].tag = "iface" ->
         IF q[3].t = NoType THEN 0 ELSE TypeHash(q[3].t) * 8581 + f[Inner(q)]
    [] OTHER -> HashScalar(q[3])

\* A level of HashOf looks at what is inside only.
LEMMA HashOneAgrees ==
  ASSUME NEW f, NEW g, NEW q \in Typed, AlikeUnder(f, g, q)
  PROVE  HashOne(f, q) = HashOne(g, q)
<1>1. CASE IsAgg(q)
  <2> DEFINE F(h) == [i \in DOMAIN PartTypes(q[2]) |->
                        IF LooksAt(q[2], i) THEN h[Part(q, i)] ELSE 0]
  <2>1. F(f) = F(g)
    BY <1>1 DEF AlikeUnder
  <2>2. HashOne(f, q) = Total(F(f)) /\ HashOne(g, q) = Total(F(g))
    BY <1>1 DEF HashOne, IsAgg
  <2> HIDE DEF F
  <2> QED BY <2>1, <2>2
<1>2. CASE ~IsAgg(q)
  BY <1>2 DEF AlikeUnder, HashOne, IsAgg, IsFull
<1> QED BY <1>1, <1>2

\* f gives the hashes below level n.
HashesTo(f, n) ==
  /\ f = [q \in Typed |-> f[q]]
  /\ \A q \in Typed : q[1] < n => f[q] = HashOne(f, q)

\* To every level something does.
LEMMA HashesAll == \A n \in Nat : \E f : HashesTo(f, n)
<1> DEFINE S == {n \in Nat : \E f : HashesTo(f, n)}
<1>1. 0 \in S
  <2>1. PICK f : f = [q \in Typed |-> 0]
    OBVIOUS
  <2>2. f = [q \in Typed |-> f[q]]
    BY <2>1
  <2>3. \A q \in Typed : ~(q[1] < 0)
    BY TypedAt
  <2>4. HashesTo(f, 0)
    BY <2>2, <2>3 DEF HashesTo
  <2> QED BY <2>4
<1>2. ASSUME NEW n \in Nat, n \in S PROVE n + 1 \in S
  <2>1. PICK f : HashesTo(f, n)
    BY <1>2
  <2>2. PICK g : g = [q \in Typed |-> HashOne(f, q)]
    OBVIOUS
  <2>3. \A r \in Typed : r[1] < n => f[r] = g[r]
    BY <2>1, <2>2 DEF HashesTo
  <2>4. ASSUME NEW q \in Typed, q[1] < n + 1 PROVE g[q] = HashOne(g, q)
    <3>1. AlikeUnder(f, g, q)
      BY <2>3, <2>4, AlikeInside
    <3>2. HashOne(f, q) = HashOne(g, q)
      BY <3>1, HashOneAgrees
    <3> QED BY <3>2, <2>2
  <2>5. g = [q \in Typed |-> g[q]]
    BY <2>2
  <2>6. HashesTo(g, n + 1)
    BY <2>4, <2>5 DEF HashesTo
  <2> QED BY <2>6
<1> HIDE DEF S
<1>3. \A n \in Nat : n \in S
  BY <1>1, <1>2, NatsIn
<1> QED BY <1>3 DEF S

\* HashOf is what its definition says.
LEMMA HashOfIs ==
  ASSUME NEW q \in Typed
  PROVE  HashOf[q] = HashOne(HashOf, q)
<1>1. PICK f : HashesTo(f, MaxDepth + 1)
  BY HashesAll, TypesAssumption
<1>2. \A r \in Typed : r[1] < MaxDepth + 1
  BY TypedAt
<1>3. f = [r \in Typed |-> HashOne(f, r)]
  BY <1>1, <1>2 DEF HashesTo
<1>4. HashOf = CHOOSE g : g = [r \in Typed |-> HashOne(g, r)]
  BY DEF HashOf, HashOne, Part, Inner
<1>5. HashOf = [r \in Typed |-> HashOne(HashOf, r)]
  BY <1>3, <1>4
<1> QED BY <1>5

\* One level of StepsOf, from what f gives below.
StepsOne(f, q) ==
  CASE q[3].tag = "agg" ->
         FlattenSeq([i \in DOMAIN PartTypes(q[2]) |->
                       IF LooksAt(q[2], i) THEN f[Part(q, i)] ELSE <<>>])
    [] q[3].tag = "iface" -> <<q[3].t>> \o IF q[3].t = NoType THEN <<>> ELSE f[Inner(q)]
    [] q[3].tag \in {"int", "float", "pointer"} -> <<>>
    [] OTHER -> <<Unhashable>>

\* A level of StepsOf looks at what is inside only.
LEMMA StepsOneAgrees ==
  ASSUME NEW f, NEW g, NEW q \in Typed, AlikeUnder(f, g, q)
  PROVE  StepsOne(f, q) = StepsOne(g, q)
<1>1. CASE IsAgg(q)
  <2> DEFINE F(h) == [i \in DOMAIN PartTypes(q[2]) |->
                        IF LooksAt(q[2], i) THEN h[Part(q, i)] ELSE <<>>]
  <2>1. F(f) = F(g)
    BY <1>1 DEF AlikeUnder
  <2>2. StepsOne(f, q) = FlattenSeq(F(f)) /\ StepsOne(g, q) = FlattenSeq(F(g))
    BY <1>1 DEF StepsOne, IsAgg
  <2> HIDE DEF F
  <2> QED BY <2>1, <2>2
<1>2. CASE ~IsAgg(q)
  BY <1>2 DEF AlikeUnder, StepsOne, IsAgg, IsFull
<1> QED BY <1>1, <1>2

\* f gives the steps below level n.
StepsTo(f, n) ==
  /\ f = [q \in Typed |-> f[q]]
  /\ \A q \in Typed : q[1] < n => f[q] = StepsOne(f, q)

\* To every level something does.
LEMMA StepsAll == \A n \in Nat : \E f : StepsTo(f, n)
<1> DEFINE S == {n \in Nat : \E f : StepsTo(f, n)}
<1>1. 0 \in S
  <2>1. PICK f : f = [q \in Typed |-> 0]
    OBVIOUS
  <2>2. f = [q \in Typed |-> f[q]]
    BY <2>1
  <2>3. \A q \in Typed : ~(q[1] < 0)
    BY TypedAt
  <2>4. StepsTo(f, 0)
    BY <2>2, <2>3 DEF StepsTo
  <2> QED BY <2>4
<1>2. ASSUME NEW n \in Nat, n \in S PROVE n + 1 \in S
  <2>1. PICK f : StepsTo(f, n)
    BY <1>2
  <2>2. PICK g : g = [q \in Typed |-> StepsOne(f, q)]
    OBVIOUS
  <2>3. \A r \in Typed : r[1] < n => f[r] = g[r]
    BY <2>1, <2>2 DEF StepsTo
  <2>4. ASSUME NEW q \in Typed, q[1] < n + 1 PROVE g[q] = StepsOne(g, q)
    <3>1. AlikeUnder(f, g, q)
      BY <2>3, <2>4, AlikeInside
    <3>2. StepsOne(f, q) = StepsOne(g, q)
      BY <3>1, StepsOneAgrees
    <3> QED BY <3>2, <2>2
  <2>5. g = [q \in Typed |-> g[q]]
    BY <2>2
  <2>6. StepsTo(g, n + 1)
    BY <2>4, <2>5 DEF StepsTo
  <2> QED BY <2>6
<1> HIDE DEF S
<1>3. \A n \in Nat : n \in S
  BY <1>1, <1>2, NatsIn
<1> QED BY <1>3 DEF S

\* StepsOf is what its definition says.
LEMMA StepsOfIs ==
  ASSUME NEW q \in Typed
  PROVE  StepsOf[q] = StepsOne(StepsOf, q)
<1>1. PICK f : StepsTo(f, MaxDepth + 1)
  BY StepsAll, TypesAssumption
<1>2. \A r \in Typed : r[1] < MaxDepth + 1
  BY TypedAt
<1>3. f = [r \in Typed |-> StepsOne(f, r)]
  BY <1>1, <1>2 DEF StepsTo
<1>4. StepsOf = CHOOSE g : g = [r \in Typed |-> StepsOne(g, r)]
  BY DEF StepsOf, StepsOne, Part, Inner
<1>5. StepsOf = [r \in Typed |-> StepsOne(StepsOf, r)]
  BY <1>3, <1>4
<1> QED BY <1>5

\* What structure.eq and structure.hash do not look at is what is embedded.
LEMMA LooksElsewhere ==
  ASSUME NEW T, IsAggregate(T), NEW i
  PROVE  LooksAt(T, i) <=> ~IsEmbedded(T, i)
BY DEF IsAggregate, LooksAt, IsEmbedded

\* One level of Atoms, from what f gives below.
AtomsOne(f, q) ==
  CASE q[3].tag = "agg" ->
         FlattenSeq([i \in DOMAIN PartTypes(q[2]) |->
                       LET part == f[Part(q, i)]
                       IN IF IsEmbedded(q[2], i) THEN AllEmbedded(part) ELSE part])
    [] q[3].tag = "iface" ->
         <<[type |-> q[3].t, scalar |-> NoValue, embedded |-> FALSE]>>
           \o IF q[3].t = NoType THEN <<>> ELSE f[Inner(q)]
    [] OTHER -> <<[type |-> NoType, scalar |-> q[3], embedded |-> FALSE]>>

\* A level of Atoms looks at what is inside only.
LEMMA AtomsOneAgrees ==
  ASSUME NEW f, NEW g, NEW q \in Typed, AlikeUnder(f, g, q)
  PROVE  AtomsOne(f, q) = AtomsOne(g, q)
<1>1. CASE IsAgg(q)
  <2> DEFINE F(h) == [i \in DOMAIN PartTypes(q[2]) |->
                        IF IsEmbedded(q[2], i) THEN AllEmbedded(h[Part(q, i)]) ELSE h[Part(q, i)]]
  <2>1. F(f) = F(g)
    BY <1>1 DEF AlikeUnder
  <2>2. AtomsOne(f, q) = FlattenSeq(F(f)) /\ AtomsOne(g, q) = FlattenSeq(F(g))
    BY <1>1 DEF AtomsOne, IsAgg
  <2> HIDE DEF F
  <2> QED BY <2>1, <2>2
<1>2. CASE ~IsAgg(q)
  BY <1>2 DEF AlikeUnder, AtomsOne, IsAgg, IsFull
<1> QED BY <1>1, <1>2

\* f gives the atoms below level n.
AtomizesTo(f, n) ==
  /\ f = [q \in Typed |-> f[q]]
  /\ \A q \in Typed : q[1] < n => f[q] = AtomsOne(f, q)

\* To every level something does.
LEMMA AtomizesAll == \A n \in Nat : \E f : AtomizesTo(f, n)
<1> DEFINE S == {n \in Nat : \E f : AtomizesTo(f, n)}
<1>1. 0 \in S
  <2>1. PICK f : f = [q \in Typed |-> 0]
    OBVIOUS
  <2>2. f = [q \in Typed |-> f[q]]
    BY <2>1
  <2>3. \A q \in Typed : ~(q[1] < 0)
    BY TypedAt
  <2>4. AtomizesTo(f, 0)
    BY <2>2, <2>3 DEF AtomizesTo
  <2> QED BY <2>4
<1>2. ASSUME NEW n \in Nat, n \in S PROVE n + 1 \in S
  <2>1. PICK f : AtomizesTo(f, n)
    BY <1>2
  <2>2. PICK g : g = [q \in Typed |-> AtomsOne(f, q)]
    OBVIOUS
  <2>3. \A r \in Typed : r[1] < n => f[r] = g[r]
    BY <2>1, <2>2 DEF AtomizesTo
  <2>4. ASSUME NEW q \in Typed, q[1] < n + 1 PROVE g[q] = AtomsOne(g, q)
    <3>1. AlikeUnder(f, g, q)
      BY <2>3, <2>4, AlikeInside
    <3>2. AtomsOne(f, q) = AtomsOne(g, q)
      BY <3>1, AtomsOneAgrees
    <3> QED BY <3>2, <2>2
  <2>5. g = [q \in Typed |-> g[q]]
    BY <2>2
  <2>6. AtomizesTo(g, n + 1)
    BY <2>4, <2>5 DEF AtomizesTo
  <2> QED BY <2>6
<1> HIDE DEF S
<1>3. \A n \in Nat : n \in S
  BY <1>1, <1>2, NatsIn
<1> QED BY <1>3 DEF S

\* Atoms is what its definition says.
LEMMA AtomsIs ==
  ASSUME NEW q \in Typed
  PROVE  Atoms[q] = AtomsOne(Atoms, q)
<1>1. PICK f : AtomizesTo(f, MaxDepth + 1)
  BY AtomizesAll, TypesAssumption
<1>2. \A r \in Typed : r[1] < MaxDepth + 1
  BY TypedAt
<1>3. f = [r \in Typed |-> AtomsOne(f, r)]
  BY <1>1, <1>2 DEF AtomizesTo
<1>4. Atoms = CHOOSE g : g = [r \in Typed |-> AtomsOne(g, r)]
  BY DEF Atoms, AtomsOne, Part, Inner
<1>5. Atoms = [r \in Typed |-> AtomsOne(Atoms, r)]
  BY <1>3, <1>4
<1> QED BY <1>5

\* S has every value whose insides it has.
Inductive(S) ==
  \A q \in Typed :
    (/\ IsAgg(q) => \A i \in DOMAIN PartTypes(q[2]) : Part(q, i) \in S
     /\ IsFull(q) => Inner(q) \in S) => q \in S

\* Then it has them all.
LEMMA TypedIn ==
  ASSUME NEW S, Inductive(S)
  PROVE  \A q \in Typed : q \in S
<1> DEFINE N == {n \in Nat : \A q \in Typed : q[1] < n => q \in S}
<1>1. 0 \in N
  BY TypedAt
<1>2. ASSUME NEW n \in Nat, n \in N PROVE n + 1 \in N
  <2>1. \A q \in Typed : q[1] < n => q \in S
    BY <1>2
  <2>2. ASSUME NEW q \in Typed, q[1] < n + 1 PROVE q \in S
    <3>1. q[1] \in Nat
      BY TypedAt
    <3>2. ASSUME NEW r \in Typed, r[1] = q[1] - 1 PROVE r \in S
      <4>1. r[1] < n
        BY <3>1, <3>2, <2>2
      <4> QED BY <4>1, <2>1
    <3>3. ASSUME IsAgg(q), NEW i \in DOMAIN PartTypes(q[2]) PROVE Part(q, i) \in S
      <4>1. PICK r : r = Part(q, i)
        OBVIOUS
      <4>2. r \in Typed /\ r[1] = q[1] - 1
        BY <3>3, <4>1, PartsBelow
      <4> QED BY <3>2, <4>1, <4>2
    <3>4. ASSUME IsFull(q) PROVE Inner(q) \in S
      <4>1. PICK r : r = Inner(q)
        OBVIOUS
      <4>2. r \in Typed /\ r[1] = q[1] - 1
        BY <3>4, <4>1, PartsBelow
      <4> QED BY <3>2, <4>1, <4>2
    <3> QED BY <3>3, <3>4 DEF Inductive
  <2> QED BY <2>2
<1> HIDE DEF N
<1>3. \A n \in Nat : n \in N
  BY <1>1, <1>2, NatsIn
<1>4. MaxDepth + 1 \in N
  BY <1>3, DepthIs
<1> QED BY <1>4, TypedAt DEF N

-----------------------------------------------------------------------------
\* What stops a hash --------------------------------------------------------------------

StepSet == Types \cup {NoType, Unhashable}
ScalarSet ==
  {NoValue} \cup UNION {{Boxed(tag, is) : is \in Literals[tag]} : tag \in DOMAIN Literals}
AtomSet == [type : Types \cup {NoType}, scalar : ScalarSet, embedded : BOOLEAN]

BadSteps == {NoType, Unhashable}
BadAtom(a) ==
  /\ ~a.embedded
  /\ \/ a.scalar.tag \in {"func", "slice", "map", "hashmap"}
     \/ a.scalar = NoValue /\ a.type = NoType
BadAtoms == {a \in AtomSet : BadAtom(a)}

\* s has an element of B.
Meets(s, B) == \E i \in DOMAIN s : s[i] \in B

\* Two sequences have what either has.
LEMMA BothMeet ==
  ASSUME NEW S, NEW a \in Seq(S), NEW b \in Seq(S), NEW B
  PROVE  Meets(a \o b, B) <=> Meets(a, B) \/ Meets(b, B)
<1>1. PICK c : c = a \o b
  OBVIOUS
<1>2. /\ c \in Seq(S) /\ Len(c) = Len(a) + Len(b)
      /\ \A i \in 1 .. Len(a) : c[i] = a[i]
      /\ \A i \in 1 .. Len(b) : c[Len(a) + i] = b[i]
  BY <1>1, ConcatProperties
<1>3. /\ Len(a) \in Nat /\ Len(b) \in Nat
      /\ DOMAIN a = 1 .. Len(a) /\ DOMAIN b = 1 .. Len(b) /\ DOMAIN c = 1 .. Len(c)
  BY <1>2, LenProperties
<1>4. ASSUME NEW i \in DOMAIN a PROVE i \in DOMAIN c /\ c[i] = a[i]
  BY <1>2, <1>3
<1>5. ASSUME NEW i \in DOMAIN b PROVE Len(a) + i \in DOMAIN c /\ c[Len(a) + i] = b[i]
  BY <1>2, <1>3
<1>6. ASSUME NEW i \in DOMAIN c
      PROVE  \/ i \in DOMAIN a /\ c[i] = a[i]
             \/ \E j \in DOMAIN b : c[i] = b[j]
  <2>1. CASE i <= Len(a)
    BY <1>2, <1>3, <2>1
  <2>2. CASE ~(i <= Len(a))
    <3>1. PICK j : j = i - Len(a)
      OBVIOUS
    <3>2. j \in 1 .. Len(b) /\ i = Len(a) + j
      BY <1>2, <1>3, <2>2, <3>1
    <3> QED BY <1>2, <1>3, <3>2
  <2> QED BY <2>1, <2>2
<1> QED BY <1>1, <1>4, <1>5, <1>6 DEF Meets

\* An empty sequence has nothing, one of one element has that.
LEMMA OneMeets ==
  ASSUME NEW B, NEW e
  PROVE  ~Meets(<<>>, B) /\ (Meets(<<e>>, B) <=> e \in B)
BY DEF Meets

\* Sequences laid out have what any of them has.
LEMMA LaidMeets ==
  ASSUME NEW S, NEW k \in Nat, NEW s, NEW g, Lays(g, s, k, S), NEW B,
         \A i \in 1 .. k : s[i] \in Seq(S)
  PROVE  Meets(g[k], B) <=> \E i \in 1 .. k : Meets(s[i], B)
<1> DEFINE Has(n) == \E i \in 1 .. n : Meets(s[i], B)
           N == {n \in Nat : n <= k => (Meets(g[n], B) <=> Has(n))}
<1>1. 0 \in N
  <2>1. ~Meets(g[0], B)
    BY OneMeets DEF Lays
  <2>2. ~Has(0)
    OBVIOUS
  <2> QED BY <2>1, <2>2
<1>2. ASSUME NEW n \in Nat, n \in N PROVE n + 1 \in N
  <2> SUFFICES ASSUME n + 1 <= k PROVE Meets(g[n + 1], B) <=> Has(n + 1)
    OBVIOUS
  <2>1. PICK m : m = n + 1
    OBVIOUS
  <2>2. m \in 1 .. k /\ m - 1 = n /\ n \in 0 .. k
    BY <2>1
  <2>3. g[m] = g[n] \o s[m] /\ g[n] \in Seq(S) /\ s[m] \in Seq(S)
    BY <2>2 DEF Lays
  <2>4. Meets(g[m], B) <=> Meets(g[n], B) \/ Meets(s[m], B)
    BY <2>3, BothMeet
  <2>5. Meets(g[n], B) <=> Has(n)
    BY <1>2, <2>2
  <2>6. Has(m) <=> Has(n) \/ Meets(s[m], B)
    <3>1. 1 .. m = (1 .. n) \cup {m}
      BY <2>1
    <3> QED BY <3>1
  <2> QED BY <2>1, <2>4, <2>5, <2>6
<1> HIDE DEF N, Has
<1>3. \A n \in Nat : n \in N
  BY <1>1, <1>2, NatsIn
<1>4. k \in N
  BY <1>3
<1> QED BY <1>4 DEF N, Has

\* To be embedded changes nothing else of atoms.
LEMMA EmbeddedAre ==
  ASSUME NEW s \in Seq(AtomSet)
  PROVE  /\ AllEmbedded(s) \in Seq(AtomSet) /\ Len(AllEmbedded(s)) = Len(s)
         /\ \A i \in 1 .. Len(s) : /\ AllEmbedded(s)[i] = [s[i] EXCEPT !.embedded = TRUE]
                                  /\ AllEmbedded(s)[i].embedded
                                  /\ AllEmbedded(s)[i].type = s[i].type
                                  /\ AllEmbedded(s)[i].scalar = s[i].scalar
<1>1. PICK n, e : n = Len(s) /\ e = AllEmbedded(s)
  OBVIOUS
<1>2. n \in Nat /\ DOMAIN s = 1 .. n /\ \A i \in 1 .. n : s[i] \in AtomSet
  BY <1>1, LenProperties, ElementOfSeq
<1>3. e = [i \in 1 .. n |-> [s[i] EXCEPT !.embedded = TRUE]]
  BY <1>1, <1>2 DEF AllEmbedded
<1>4. ASSUME NEW i \in 1 .. n
      PROVE  e[i] \in AtomSet /\ e[i].embedded /\ e[i].type = s[i].type /\ e[i].scalar = s[i].scalar
  <2>1. e[i] = [s[i] EXCEPT !.embedded = TRUE] /\ s[i] \in AtomSet
    BY <1>2, <1>3
  <2> QED BY <2>1 DEF AtomSet
<1>5. e \in Seq(AtomSet) /\ Len(e) = n
  BY <1>2, <1>3, <1>4
<1> QED BY <1>1, <1>3, <1>4, <1>5

\* What is embedded stops no hash.
LEMMA EmbeddedMeets ==
  ASSUME NEW s \in Seq(AtomSet)
  PROVE  ~Meets(AllEmbedded(s), BadAtoms)
<1>1. PICK e : e = AllEmbedded(s)
  OBVIOUS
<1>2. e \in Seq(AtomSet) /\ Len(e) = Len(s) /\ \A i \in 1 .. Len(s) : e[i].embedded
  BY <1>1, EmbeddedAre
<1>3. DOMAIN e = 1 .. Len(s)
  BY <1>2, LenProperties
<1>4. \A a \in BadAtoms : ~a.embedded
  BY DEF BadAtoms, BadAtom
<1> QED BY <1>1, <1>2, <1>3, <1>4 DEF Meets

\* What is to be shown of the steps and the atoms of a value.
Told(q) ==
  /\ StepsOf[q] \in Seq(StepSet)
  /\ Atoms[q] \in Seq(AtomSet)
  /\ Meets(StepsOf[q], BadSteps) <=> Meets(Atoms[q], BadAtoms)

\* Of a scalar.
LEMMA ScalarTold ==
  ASSUME NEW q \in Typed, ~IsAgg(q), q[3].tag # "iface"
  PROVE  Told(q)
<1>1. PICK n, T, x : /\ n \in 0 .. MaxDepth /\ T \in Types
                     /\ q = <<n, T, x>> /\ q[1] = n /\ q[2] = T /\ q[3] = x
                     /\ x \in Nested[<<n, T>>]
  BY TypedIs
<1>2. ~IsInterface(T) /\ ~IsAggregate(T)
  BY <1>1, TagTells DEF IsAgg
<1>3. PICK tag, is : tag = TagOf(T) /\ is = x.is
  OBVIOUS
<1>4. /\ tag \in DOMAIN Literals /\ is \in Literals[tag] /\ x = Boxed(tag, is)
      /\ tag \in {"int", "float", "pointer", "func", "slice", "map", "hashmap"}
  BY <1>1, <1>2, <1>3, ScalarIs
<1>5. x.tag = tag /\ x # NoValue
  BY <1>4 DEF Boxed, NoValue
<1>6. PICK a : a = [type |-> NoType, scalar |-> x, embedded |-> FALSE]
  OBVIOUS
<1>7. a.type = NoType /\ a.scalar = x /\ ~a.embedded
  BY <1>6
<1>8. a \in AtomSet
  <2>1. x \in ScalarSet
    BY <1>4 DEF ScalarSet
  <2> QED BY <1>6, <2>1 DEF AtomSet
<1>9. Atoms[q] = <<a>>
  BY <1>1, <1>4, <1>5, <1>6, AtomsIs DEF AtomsOne
<1>10. a \in BadAtoms <=> tag \in {"func", "slice", "map", "hashmap"}
  BY <1>5, <1>7, <1>8 DEF BadAtoms, BadAtom
<1>11. StepsOf[q] = IF tag \in {"int", "float", "pointer"} THEN <<>> ELSE <<Unhashable>>
  BY <1>1, <1>4, <1>5, StepsOfIs DEF StepsOne
<1>12. Unhashable \in BadSteps /\ Unhashable \in StepSet
  BY DEF BadSteps, StepSet
<1>13. StepsOf[q] \in Seq(StepSet) /\ Atoms[q] \in Seq(AtomSet)
  BY <1>8, <1>9, <1>11, <1>12
<1>14. Meets(Atoms[q], BadAtoms) <=> tag \in {"func", "slice", "map", "hashmap"}
  BY <1>9, <1>10, OneMeets
<1>15. Meets(StepsOf[q], BadSteps) <=> tag \notin {"int", "float", "pointer"}
  BY <1>11, <1>12, OneMeets
<1> QED BY <1>4, <1>13, <1>14, <1>15 DEF Told

\* Of an interface, if so of what is inside.
LEMMA InterfaceTold ==
  ASSUME NEW q \in Typed, q[3].tag = "iface", IsFull(q) => Told(Inner(q))
  PROVE  Told(q)
<1>1. PICK n, T, x : /\ n \in 0 .. MaxDepth /\ T \in Types
                     /\ q = <<n, T, x>> /\ q[1] = n /\ q[2] = T /\ q[3] = x
                     /\ x \in Nested[<<n, T>>]
  BY TypedIs
<1>2. IsInterface(T)
  BY <1>1, TagTells
<1>3. PICK D : D = x.t
  OBVIOUS
<1>4. D \in Types \cup {NoType} /\ (D # NoType => D # Unhashable)
  <2>1. NilIface.t = NoType
    BY DEF NilIface, Dyn
  <2>2. x = NilIface \/ D \in DynTypes
    BY <1>1, <1>2, <1>3, HeldIs DEF Holds
  <2> QED BY <1>3, <2>1, <2>2, DynIs
<1>5. PICK a : a = [type |-> D, scalar |-> NoValue, embedded |-> FALSE]
  OBVIOUS
<1>6. a.type = D /\ a.scalar = NoValue /\ ~a.embedded
  BY <1>5
<1>7. a \in AtomSet
  <2>1. NoValue \in ScalarSet
    BY DEF ScalarSet
  <2> QED BY <1>4, <1>5, <2>1 DEF AtomSet
<1>8. a \in BadAtoms <=> D = NoType
  <2>1. NoValue.tag = "none"
    BY DEF NoValue, Boxed
  <2> QED BY <1>6, <1>7, <2>1 DEF BadAtoms, BadAtom
<1>9. D \in StepSet /\ (D \in BadSteps <=> D = NoType)
  BY <1>4 DEF BadSteps, StepSet
<1>10. PICK s, t : /\ s = IF D = NoType THEN <<>> ELSE StepsOf[Inner(q)]
                   /\ t = IF D = NoType THEN <<>> ELSE Atoms[Inner(q)]
  OBVIOUS
<1>11. StepsOf[q] = <<D>> \o s
  BY <1>1, <1>3, <1>10, StepsOfIs DEF StepsOne
<1>12. Atoms[q] = <<a>> \o t
  BY <1>1, <1>3, <1>5, <1>10, AtomsIs DEF AtomsOne
<1>13. /\ s \in Seq(StepSet) /\ t \in Seq(AtomSet)
       /\ D # NoType => (Meets(s, BadSteps) <=> Meets(t, BadAtoms))
  <2>1. CASE D = NoType
    BY <1>10, <2>1, EmptySeq
  <2>2. CASE D # NoType
    <3>1. IsFull(q)
      BY <1>1, <1>3, <2>2 DEF IsFull
    <3> QED BY <1>10, <2>2, <3>1 DEF Told
  <2> QED BY <2>1, <2>2
<1>14. <<D>> \in Seq(StepSet) /\ <<a>> \in Seq(AtomSet)
  BY <1>7, <1>9
<1>15. Meets(StepsOf[q], BadSteps) <=> D = NoType \/ Meets(s, BadSteps)
  <2>1. PICK u : u = <<D>>
    OBVIOUS
  <2>2. u \in Seq(StepSet) /\ s \in Seq(StepSet)
    BY <1>13, <1>14, <2>1
  <2>3. Meets(u \o s, BadSteps) <=> Meets(u, BadSteps) \/ Meets(s, BadSteps)
    BY <2>2, BothMeet
  <2>4. Meets(u, BadSteps) <=> D \in BadSteps
    BY <2>1, OneMeets
  <2> QED BY <1>11, <1>9, <2>1, <2>3, <2>4
<1>16. Meets(Atoms[q], BadAtoms) <=> D = NoType \/ Meets(t, BadAtoms)
  <2>1. PICK u : u = <<a>>
    OBVIOUS
  <2>2. u \in Seq(AtomSet) /\ t \in Seq(AtomSet)
    BY <1>13, <1>14, <2>1
  <2>3. Meets(u \o t, BadAtoms) <=> Meets(u, BadAtoms) \/ Meets(t, BadAtoms)
    BY <2>2, BothMeet
  <2>4. Meets(u, BadAtoms) <=> a \in BadAtoms
    BY <2>1, OneMeets
  <2> QED BY <1>12, <1>8, <2>1, <2>3, <2>4
<1>17. StepsOf[q] \in Seq(StepSet) /\ Atoms[q] \in Seq(AtomSet)
  BY <1>11, <1>12, <1>13, <1>14, ConcatProperties
<1> QED BY <1>13, <1>15, <1>16, <1>17 DEF Told

\* Of an aggregate, if so of its parts.
LEMMA AggregateTold ==
  ASSUME NEW q \in Typed, IsAgg(q), \A i \in DOMAIN PartTypes(q[2]) : Told(Part(q, i))
  PROVE  Told(q)
<1>1. q[2] \in Types /\ IsAggregate(q[2])
  <2>1. PICK n, T, x : /\ n \in 0 .. MaxDepth /\ T \in Types
                       /\ q = <<n, T, x>> /\ q[1] = n /\ q[2] = T /\ q[3] = x
                       /\ x \in Nested[<<n, T>>]
    BY TypedIs
  <2> QED BY <2>1, TagTells DEF IsAgg
<1>2. PICK k \in Nat : DOMAIN PartTypes(q[2]) = 1 .. k
  BY <1>1, PartsAre
<1>3. PICK s : s = [i \in 1 .. k |-> IF LooksAt(q[2], i) THEN StepsOf[Part(q, i)] ELSE <<>>]
  OBVIOUS
<1>4. PICK t : t = [i \in 1 .. k |-> IF IsEmbedded(q[2], i) THEN AllEmbedded(Atoms[Part(q, i)])
                                    ELSE Atoms[Part(q, i)]]
  OBVIOUS
<1>5. StepsOf[q] = FlattenSeq(s)
  BY <1>2, <1>3, StepsOfIs DEF StepsOne, IsAgg
<1>6. Atoms[q] = FlattenSeq(t)
  BY <1>2, <1>4, AtomsIs DEF AtomsOne, IsAgg
<1>7. ASSUME NEW i \in 1 .. k
      PROVE  /\ s[i] \in Seq(StepSet) /\ t[i] \in Seq(AtomSet)
             /\ Meets(s[i], BadSteps) <=> Meets(t[i], BadAtoms)
  <2>0. LooksAt(q[2], i) <=> ~IsEmbedded(q[2], i)
    BY <1>1, LooksElsewhere
  <2>1. CASE LooksAt(q[2], i)
    BY <1>2, <1>3, <1>4, <2>0, <2>1 DEF Told
  <2>2. CASE ~LooksAt(q[2], i)
    <3>1. Atoms[Part(q, i)] \in Seq(AtomSet)
      BY <1>2 DEF Told
    <3>2. s[i] = <<>> /\ t[i] = AllEmbedded(Atoms[Part(q, i)])
      BY <1>3, <1>4, <2>0, <2>2
    <3>3. PICK a : a = Atoms[Part(q, i)]
      OBVIOUS
    <3>4. AllEmbedded(a) \in Seq(AtomSet) /\ ~Meets(AllEmbedded(a), BadAtoms)
      BY <3>1, <3>3, EmbeddedAre, EmbeddedMeets
    <3>5. PICK u : u = s[i]
      OBVIOUS
    <3>6. ~Meets(u, BadSteps) /\ u \in Seq(StepSet)
      <4>1. u = <<>>
        BY <3>2, <3>5
      <4>2. ~Meets(<<>>, BadSteps)
        BY OneMeets
      <4> QED BY <4>1, <4>2
    <3>7. t[i] \in Seq(AtomSet) /\ ~Meets(t[i], BadAtoms)
      BY <3>2, <3>3, <3>4
    <3> QED BY <3>5, <3>6, <3>7
  <2> QED BY <2>1, <2>2
<1>8. PICK g : Lays(g, s, k, StepSet)
  BY <1>3, <1>7, Laid
<1>9. PICK h : Lays(h, t, k, AtomSet)
  BY <1>4, <1>7, Laid
<1>10. Meets(g[k], BadSteps) <=> \E i \in 1 .. k : Meets(s[i], BadSteps)
  BY <1>7, <1>8, LaidMeets
<1>11. Meets(h[k], BadAtoms) <=> \E i \in 1 .. k : Meets(t[i], BadAtoms)
  BY <1>7, <1>9, LaidMeets
<1>12. /\ StepsOf[q] = g[k] /\ g[k] \in Seq(StepSet)
       /\ Atoms[q] = h[k] /\ h[k] \in Seq(AtomSet)
  BY <1>5, <1>6, <1>8, <1>9 DEF Lays
<1> QED BY <1>7, <1>10, <1>11, <1>12 DEF Told

\* Of every value: the steps of its hash are stopped exactly if it has a bad atom.
LEMMA AllTold == \A q \in Typed : Told(q)
<1> DEFINE S == {q \in Typed : Told(q)}
<1>1. ASSUME NEW q \in Typed,
             IsAgg(q) => \A i \in DOMAIN PartTypes(q[2]) : Part(q, i) \in S,
             IsFull(q) => Inner(q) \in S
      PROVE  q \in S
  <2>1. CASE IsAgg(q)
    BY <1>1, <2>1, AggregateTold
  <2>2. CASE q[3].tag = "iface"
    BY <1>1, <2>2, InterfaceTold
  <2>3. CASE ~IsAgg(q) /\ q[3].tag # "iface"
    BY <2>3, ScalarTold
  <2> QED BY <2>1, <2>2, <2>3
<1>2. Inductive(S)
  BY <1>1 DEF Inductive
<1> HIDE DEF S
<1>3. \A q \in Typed : q \in S
  BY <1>2, TypedIn
<1> QED BY <1>3 DEF S

-----------------------------------------------------------------------------
\* Pairs of values, one level at a time -----------------------------------------------------

\* What Pairs has in it.
LEMMA PairsIs ==
  ASSUME NEW q \in Pairs
  PROVE  \E n, T, x, y :
           /\ n \in 0 .. MaxDepth /\ T \in Types
           /\ x \in Nested[<<n, T>>] /\ y \in Nested[<<n, T>>]
           /\ q = <<n, T, x, y>> /\ q[1] = n /\ q[2] = T /\ q[3] = x /\ q[4] = y
<1>1. PICK n \in 0 .. MaxDepth, T \in Types :
        q \in {<<n, T, x, y>> : x \in Nested[<<n, T>>], y \in Nested[<<n, T>>]}
  BY DEF Pairs
<1>2. PICK x \in Nested[<<n, T>>], y \in Nested[<<n, T>>] : q = <<n, T, x, y>>
  BY <1>1
<1>3. q[1] = n /\ q[2] = T /\ q[3] = x /\ q[4] = y
  BY <1>2
<1> QED BY <1>1, <1>2, <1>3

\* Two values of a type, with their nesting, are a pair.
LEMMA InPairs ==
  ASSUME NEW n \in 0 .. MaxDepth, NEW T \in Types, NEW x, NEW y,
         x \in Nested[<<n, T>>], y \in Nested[<<n, T>>]
  PROVE  <<n, T, x, y>> \in Pairs
<1> DEFINE A(m, S) == {<<m, S, u, v>> : u \in Nested[<<m, S>>], v \in Nested[<<m, S>>]}
<1>1. <<n, T, x, y>> \in A(n, T)
  OBVIOUS
<1>2. Pairs = UNION {A(m, S) : m \in 0 .. MaxDepth, S \in Types}
  BY DEF Pairs
<1> HIDE DEF A
<1> QED BY <1>1, <1>2

\* The level of a pair is a number.
LEMMA PairsAt ==
  ASSUME NEW q \in Pairs
  PROVE  q[1] \in Nat /\ ~(q[1] < 0) /\ q[1] < MaxDepth + 1
<1>1. PICK n : n = q[1]
  OBVIOUS
<1>2. n \in 0 .. MaxDepth
  BY <1>1, PairsIs
<1> QED BY <1>1, <1>2, DepthIs

\* The two values of a pair, and the pairs inside it.
Left(q) == <<q[1], q[2], q[3]>>
Right(q) == <<q[1], q[2], q[4]>>
PartPair(q, i) == <<q[1] - 1, PartTypes(q[2])[i], q[3].parts[i], q[4].parts[i]>>
InnerPair(q) == <<q[1] - 1, q[3].t, q[3].v, q[4].v>>

IsFullPair(q) == IsFull(q) /\ q[4].t = q[3].t

\* The values of a pair are values, of one kind.
LEMMA PairOf ==
  ASSUME NEW q \in Pairs
  PROVE  /\ Left(q) \in Typed /\ Right(q) \in Typed
         /\ IsAgg(Left(q)) <=> IsAgg(q)
         /\ IsAgg(Right(q)) <=> IsAgg(q)
         /\ IsFull(Left(q)) <=> IsFull(q)
         /\ q[3].tag = "iface" <=> q[4].tag = "iface"
<1>1. PICK n, T, x, y :
        /\ n \in 0 .. MaxDepth /\ T \in Types
        /\ x \in Nested[<<n, T>>] /\ y \in Nested[<<n, T>>]
        /\ q = <<n, T, x, y>> /\ q[1] = n /\ q[2] = T /\ q[3] = x /\ q[4] = y
  BY PairsIs
<1>2. Left(q) = <<n, T, x>> /\ Right(q) = <<n, T, y>>
  BY <1>1 DEF Left, Right
<1>3. Left(q) \in Typed /\ Right(q) \in Typed
  BY <1>1, <1>2, InTyped
<1>4. Left(q)[3] = x /\ Right(q)[3] = y
  BY <1>2
<1>5. /\ x.tag = "agg" <=> IsAggregate(T)
      /\ y.tag = "agg" <=> IsAggregate(T)
      /\ x.tag = "iface" <=> IsInterface(T)
      /\ y.tag = "iface" <=> IsInterface(T)
  BY <1>1, TagTells
<1> QED BY <1>1, <1>3, <1>4, <1>5 DEF IsAgg, IsFull

\* The pairs inside a pair are pairs, one level down, of what is inside its values.
LEMMA PairsBelow ==
  ASSUME NEW q \in Pairs
  PROVE  /\ IsAgg(q) => \A i \in DOMAIN PartTypes(q[2]) :
              /\ PartPair(q, i) \in Pairs /\ PartPair(q, i)[1] = q[1] - 1
              /\ Left(PartPair(q, i)) = Part(Left(q), i)
              /\ Right(PartPair(q, i)) = Part(Right(q), i)
         /\ IsFullPair(q) =>
              /\ InnerPair(q) \in Pairs /\ InnerPair(q)[1] = q[1] - 1
              /\ Left(InnerPair(q)) = Inner(Left(q))
              /\ Right(InnerPair(q)) = Inner(Right(q))
<1>1. PICK n, T, x, y :
        /\ n \in 0 .. MaxDepth /\ T \in Types
        /\ x \in Nested[<<n, T>>] /\ y \in Nested[<<n, T>>]
        /\ q = <<n, T, x, y>> /\ q[1] = n /\ q[2] = T /\ q[3] = x /\ q[4] = y
  BY PairsIs
<1>2. /\ x.tag = "agg" <=> IsAggregate(T)
      /\ x.tag = "iface" <=> IsInterface(T)
  BY <1>1, TagTells
<1>3. ASSUME IsAgg(q), NEW i \in DOMAIN PartTypes(T)
      PROVE  /\ PartPair(q, i) \in Pairs /\ PartPair(q, i)[1] = n - 1
             /\ Left(PartPair(q, i)) = Part(Left(q), i)
             /\ Right(PartPair(q, i)) = Part(Right(q), i)
  <2>1. IsAggregate(T)
    BY <1>1, <1>2, <1>3 DEF IsAgg
  <2>2. Made(n, T, x) /\ Made(n, T, y)
    BY <1>1, <2>1, MadeIs
  <2>3. PICK m, D, u, v : m = n - 1 /\ D = PartTypes(T)[i] /\ u = x.parts[i] /\ v = y.parts[i]
    OBVIOUS
  <2>4. m \in 0 .. MaxDepth
    BY <1>1, <2>2, <2>3, LevelDown DEF Made
  <2>5. D \in Types
    BY <1>1, <2>1, <2>3, <1>3, PartsAre
  <2>6. u \in Nested[<<m, D>>] /\ v \in Nested[<<m, D>>]
    BY <2>2, <2>3, <1>3 DEF Made
  <2>7. <<m, D, u, v>> \in Pairs
    BY <2>4, <2>5, <2>6, InPairs
  <2>8. PartPair(q, i) = <<m, D, u, v>>
    BY <1>1, <2>3 DEF PartPair
  <2>9. Left(PartPair(q, i)) = <<m, D, u>> /\ Right(PartPair(q, i)) = <<m, D, v>>
    BY <2>8 DEF Left, Right
  <2>10. Left(q) = <<n, T, x>> /\ Right(q) = <<n, T, y>>
    BY <1>1 DEF Left, Right
  <2>11. Part(Left(q), i) = <<m, D, u>> /\ Part(Right(q), i) = <<m, D, v>>
    BY <2>3, <2>10 DEF Part
  <2> QED BY <2>3, <2>7, <2>8, <2>9, <2>11
<1>4. ASSUME IsFullPair(q)
      PROVE  /\ InnerPair(q) \in Pairs /\ InnerPair(q)[1] = n - 1
             /\ Left(InnerPair(q)) = Inner(Left(q))
             /\ Right(InnerPair(q)) = Inner(Right(q))
  <2>1. IsInterface(T) /\ x.t # NoType /\ y.t = x.t
    BY <1>1, <1>2, <1>4 DEF IsFullPair, IsFull
  <2>2. Holds(n, T, x) /\ Holds(n, T, y)
    <3>1. NilIface.t = NoType
      BY DEF NilIface, Dyn
    <3>2. x # NilIface /\ y # NilIface
      BY <2>1, <3>1
    <3> QED BY <1>1, <2>1, <3>2, HeldIs
  <2>3. PICK m, D, u, v : m = n - 1 /\ D = x.t /\ u = x.v /\ v = y.v
    OBVIOUS
  <2>4. m \in 0 .. MaxDepth
    BY <1>1, <2>2, <2>3, LevelDown DEF Holds
  <2>5. D \in Types /\ u \in Nested[<<m, D>>] /\ v \in Nested[<<m, D>>]
    BY <2>1, <2>2, <2>3 DEF Holds
  <2>6. <<m, D, u, v>> \in Pairs
    BY <2>4, <2>5, InPairs
  <2>7. InnerPair(q) = <<m, D, u, v>>
    BY <1>1, <2>3 DEF InnerPair
  <2>8. Left(InnerPair(q)) = <<m, D, u>> /\ Right(InnerPair(q)) = <<m, D, v>>
    BY <2>7 DEF Left, Right
  <2>9. Left(q) = <<n, T, x>> /\ Right(q) = <<n, T, y>>
    BY <1>1 DEF Left, Right
  <2>10. Inner(Left(q)) = <<m, D, u>> /\ Inner(Right(q)) = <<m, D, v>>
    BY <2>1, <2>3, <2>9 DEF Inner
  <2> QED BY <2>3, <2>6, <2>7, <2>8, <2>10
<1> QED BY <1>1, <1>3, <1>4

\* f and g are alike on the pairs directly inside q.
AlikeUnderPair(f, g, q) ==
  /\ IsAgg(q) => \A i \in DOMAIN PartTypes(q[2]) : f[PartPair(q, i)] = g[PartPair(q, i)]
  /\ IsFullPair(q) => f[InnerPair(q)] = g[InnerPair(q)]

\* Functions that are alike below a level are alike on the pairs inside the pairs there.
LEMMA AlikeInsidePair ==
  ASSUME NEW f, NEW g, NEW n \in Nat, \A r \in Pairs : r[1] < n => f[r] = g[r],
         NEW q \in Pairs, q[1] < n + 1
  PROVE  AlikeUnderPair(f, g, q)
<1>1. q[1] \in Nat
  BY PairsAt
<1>2. ASSUME NEW r \in Pairs, r[1] = q[1] - 1 PROVE f[r] = g[r]
  <2>1. r[1] < n
    BY <1>1, <1>2
  <2> QED BY <2>1
<1>3. ASSUME IsAgg(q), NEW i \in DOMAIN PartTypes(q[2])
      PROVE  f[PartPair(q, i)] = g[PartPair(q, i)]
  <2>1. PICK r : r = PartPair(q, i)
    OBVIOUS
  <2>2. r \in Pairs /\ r[1] = q[1] - 1
    BY <1>3, <2>1, PairsBelow
  <2> QED BY <1>2, <2>1, <2>2
<1>4. ASSUME IsFullPair(q) PROVE f[InnerPair(q)] = g[InnerPair(q)]
  <2>1. PICK r : r = InnerPair(q)
    OBVIOUS
  <2>2. r \in Pairs /\ r[1] = q[1] - 1
    BY <1>4, <2>1, PairsBelow
  <2> QED BY <1>2, <2>1, <2>2
<1> QED BY <1>3, <1>4 DEF AlikeUnderPair

\* S has every pair whose inside pairs it has.
PairInductive(S) ==
  \A q \in Pairs :
    (/\ IsAgg(q) => \A i \in DOMAIN PartTypes(q[2]) : PartPair(q, i) \in S
     /\ IsFullPair(q) => InnerPair(q) \in S) => q \in S

\* Then it has them all.
LEMMA PairsIn ==
  ASSUME NEW S, PairInductive(S)
  PROVE  \A q \in Pairs : q \in S
<1> DEFINE N == {n \in Nat : \A q \in Pairs : q[1] < n => q \in S}
<1>1. 0 \in N
  BY PairsAt
<1>2. ASSUME NEW n \in Nat, n \in N PROVE n + 1 \in N
  <2>1. \A q \in Pairs : q[1] < n => q \in S
    BY <1>2
  <2>2. ASSUME NEW q \in Pairs, q[1] < n + 1 PROVE q \in S
    <3>1. q[1] \in Nat
      BY PairsAt
    <3>2. ASSUME NEW r \in Pairs, r[1] = q[1] - 1 PROVE r \in S
      <4>1. r[1] < n
        BY <3>1, <3>2, <2>2
      <4> QED BY <4>1, <2>1
    <3>3. ASSUME IsAgg(q), NEW i \in DOMAIN PartTypes(q[2]) PROVE PartPair(q, i) \in S
      <4>1. PICK r : r = PartPair(q, i)
        OBVIOUS
      <4>2. r \in Pairs /\ r[1] = q[1] - 1
        BY <3>3, <4>1, PairsBelow
      <4> QED BY <3>2, <4>1, <4>2
    <3>4. ASSUME IsFullPair(q) PROVE InnerPair(q) \in S
      <4>1. PICK r : r = InnerPair(q)
        OBVIOUS
      <4>2. r \in Pairs /\ r[1] = q[1] - 1
        BY <3>4, <4>1, PairsBelow
      <4> QED BY <3>2, <4>1, <4>2
    <3> QED BY <3>3, <3>4 DEF PairInductive
  <2> QED BY <2>2
<1> HIDE DEF N
<1>3. \A n \in Nat : n \in N
  BY <1>1, <1>2, NatsIn
<1>4. MaxDepth + 1 \in N
  BY <1>3, DepthIs
<1> QED BY <1>4, PairsAt DEF N

\* One level of Comparison, from what f gives below.
CompareOne(f, q) ==
  CASE q[3].tag = "agg" ->
         Decided([i \in DOMAIN PartTypes(q[2]) |->
                    IF LooksAt(q[2], i) THEN f[PartPair(q, i)] ELSE "equal"])
    [] q[3].tag = "iface" ->
         IF q[3].t = NoType \/ ~SameType(q[3].t, q[4].t)
         THEN Answer(SameType(q[3].t, q[4].t))
         ELSE f[InnerPair(q)]
    [] q[3].tag \in {"int", "float", "pointer"} -> Answer(SameScalar(q[3], q[4]))
    [] OTHER -> "panic"

\* A level of Comparison looks at the pairs inside only.
LEMMA CompareOneAgrees ==
  ASSUME NEW f, NEW g, NEW q \in Pairs, AlikeUnderPair(f, g, q)
  PROVE  CompareOne(f, q) = CompareOne(g, q)
<1>1. CASE IsAgg(q)
  <2> DEFINE F(h) == [i \in DOMAIN PartTypes(q[2]) |->
                        IF LooksAt(q[2], i) THEN h[PartPair(q, i)] ELSE "equal"]
  <2>1. F(f) = F(g)
    BY <1>1 DEF AlikeUnderPair
  <2>2. CompareOne(f, q) = Decided(F(f)) /\ CompareOne(g, q) = Decided(F(g))
    BY <1>1 DEF CompareOne, IsAgg
  <2> HIDE DEF F
  <2> QED BY <2>1, <2>2
<1>2. CASE ~IsAgg(q)
  <2>1. q[3].tag = "iface" /\ q[3].t # NoType /\ q[3].t = q[4].t =>
          f[InnerPair(q)] = g[InnerPair(q)]
    BY DEF AlikeUnderPair, IsFullPair, IsFull
  <2> QED BY <1>2, <2>1 DEF CompareOne, IsAgg, SameType
<1> QED BY <1>1, <1>2

\* f gives the comparisons below level n.
ComparesTo(f, n) ==
  /\ f = [q \in Pairs |-> f[q]]
  /\ \A q \in Pairs : q[1] < n => f[q] = CompareOne(f, q)

\* To every level something does.
LEMMA ComparesAll == \A n \in Nat : \E f : ComparesTo(f, n)
<1> DEFINE S == {n \in Nat : \E f : ComparesTo(f, n)}
<1>1. 0 \in S
  <2>1. PICK f : f = [q \in Pairs |-> 0]
    OBVIOUS
  <2>2. f = [q \in Pairs |-> f[q]]
    BY <2>1
  <2>3. \A q \in Pairs : ~(q[1] < 0)
    BY PairsAt
  <2>4. ComparesTo(f, 0)
    BY <2>2, <2>3 DEF ComparesTo
  <2> QED BY <2>4
<1>2. ASSUME NEW n \in Nat, n \in S PROVE n + 1 \in S
  <2>1. PICK f : ComparesTo(f, n)
    BY <1>2
  <2>2. PICK g : g = [q \in Pairs |-> CompareOne(f, q)]
    OBVIOUS
  <2>3. \A r \in Pairs : r[1] < n => f[r] = g[r]
    BY <2>1, <2>2 DEF ComparesTo
  <2>4. ASSUME NEW q \in Pairs, q[1] < n + 1 PROVE g[q] = CompareOne(g, q)
    <3>1. AlikeUnderPair(f, g, q)
      BY <2>3, <2>4, AlikeInsidePair
    <3>2. CompareOne(f, q) = CompareOne(g, q)
      BY <3>1, CompareOneAgrees
    <3> QED BY <3>2, <2>2
  <2>5. g = [q \in Pairs |-> g[q]]
    BY <2>2
  <2>6. ComparesTo(g, n + 1)
    BY <2>4, <2>5 DEF ComparesTo
  <2> QED BY <2>6
<1> HIDE DEF S
<1>3. \A n \in Nat : n \in S
  BY <1>1, <1>2, NatsIn
<1> QED BY <1>3 DEF S

\* Comparison is what its definition says.
LEMMA ComparisonIs ==
  ASSUME NEW q \in Pairs
  PROVE  Comparison[q] = CompareOne(Comparison, q)
<1>1. PICK f : ComparesTo(f, MaxDepth + 1)
  BY ComparesAll, DepthIs
<1>2. \A r \in Pairs : r[1] < MaxDepth + 1
  BY PairsAt
<1>3. f = [r \in Pairs |-> CompareOne(f, r)]
  BY <1>1, <1>2 DEF ComparesTo
<1>4. Comparison = CHOOSE g : g = [r \in Pairs |-> CompareOne(g, r)]
  BY DEF Comparison, CompareOne, PartPair, InnerPair
<1>5. Comparison = [r \in Pairs |-> CompareOne(Comparison, r)]
  BY <1>3, <1>4
<1> QED BY <1>5

-----------------------------------------------------------------------------
\* Comparing atoms -----------------------------------------------------------------------

\* v is the answer to the atoms a and b: they are all the same, or the first that are not
\* decide, if they are not odd.
Decides(a, b, v) == Odd(a, b) \/ v = Verdict(a, b)

Tells(a, b, v) ==
  \/ /\ v = "equal"
     /\ Len(a) = Len(b)
     /\ \A i \in 1 .. Len(a) : SameAtom(a[i], b[i])
  \/ \E i \in 1 .. Len(a) :
       /\ i \in 1 .. Len(b)
       /\ ~SameAtom(a[i], b[i])
       /\ \A j \in 1 .. (i - 1) : SameAtom(a[j], b[j])
       /\ Decides(a[i], b[i], v)

\* Of one sequence after another, the first that tells the two apart decides.
LEMMA ThenTells ==
  ASSUME NEW a \in Seq(AtomSet), NEW b \in Seq(AtomSet),
         NEW c \in Seq(AtomSet), NEW d \in Seq(AtomSet), NEW v, NEW w,
         Tells(a, b, v), v = "equal" => Tells(c, d, w)
  PROVE  Tells(a \o c, b \o d, IF v = "equal" THEN w ELSE v)
<1>1. PICK e, f : e = a \o c /\ f = b \o d
  OBVIOUS
<1>2. /\ Len(e) = Len(a) + Len(c)
      /\ \A i \in 1 .. Len(a) : e[i] = a[i]
      /\ \A i \in 1 .. Len(c) : e[Len(a) + i] = c[i]
      /\ Len(f) = Len(b) + Len(d)
      /\ \A i \in 1 .. Len(b) : f[i] = b[i]
      /\ \A i \in 1 .. Len(d) : f[Len(b) + i] = d[i]
  BY <1>1, ConcatProperties
<1>3. Len(a) \in Nat /\ Len(b) \in Nat /\ Len(c) \in Nat /\ Len(d) \in Nat
  BY LenProperties
<1>4. CASE /\ v = "equal" /\ Len(a) = Len(b)
           /\ \A i \in 1 .. Len(a) : SameAtom(a[i], b[i])
  <2>1. Tells(c, d, w)
    BY <1>4
  <2>2. ASSUME NEW i \in 1 .. Len(a) PROVE SameAtom(e[i], f[i])
    BY <1>2, <1>4
  <2>3. CASE /\ w = "equal" /\ Len(c) = Len(d)
             /\ \A i \in 1 .. Len(c) : SameAtom(c[i], d[i])
    <3>1. ASSUME NEW i \in 1 .. Len(e) PROVE SameAtom(e[i], f[i])
      <4>1. CASE i <= Len(a)
        BY <2>2, <4>1, <1>3
      <4>2. CASE ~(i <= Len(a))
        <5>1. PICK j : j = i - Len(a)
          OBVIOUS
        <5>2. j \in 1 .. Len(c) /\ i = Len(a) + j
          BY <1>2, <1>3, <4>2, <5>1
        <5>3. e[i] = c[j] /\ f[i] = d[j]
          BY <1>2, <1>4, <2>3, <5>2
        <5> QED BY <2>3, <5>2, <5>3
      <4> QED BY <4>1, <4>2
    <3>2. Len(e) = Len(f)
      BY <1>2, <1>4, <2>3
    <3> QED BY <1>1, <1>4, <2>3, <3>1, <3>2 DEF Tells
  <2>4. ASSUME NEW i \in 1 .. Len(c), i \in 1 .. Len(d), ~SameAtom(c[i], d[i]),
               \A j \in 1 .. (i - 1) : SameAtom(c[j], d[j]),
               Decides(c[i], d[i], w)
        PROVE  Tells(e, f, w)
    <3>1. PICK k : k = Len(a) + i
      OBVIOUS
    <3>2. k \in 1 .. Len(e) /\ k \in 1 .. Len(f)
      BY <1>2, <1>3, <1>4, <2>4, <3>1
    <3>3. e[k] = c[i] /\ f[k] = d[i]
      BY <1>2, <1>4, <2>4, <3>1
    <3>4. ASSUME NEW j \in 1 .. (k - 1) PROVE SameAtom(e[j], f[j])
      <4>1. CASE j <= Len(a)
        BY <2>2, <4>1, <1>3, <3>1
      <4>2. CASE ~(j <= Len(a))
        <5>1. PICK l : l = j - Len(a)
          OBVIOUS
        <5>2. l \in 1 .. (i - 1) /\ l \in 1 .. Len(c) /\ l \in 1 .. Len(d) /\ j = Len(a) + l
          BY <1>3, <2>4, <3>1, <3>2, <4>2, <5>1
        <5>3. e[j] = c[l] /\ f[j] = d[l]
          BY <1>2, <1>4, <5>2
        <5> QED BY <2>4, <5>2, <5>3
      <4> QED BY <4>1, <4>2
    <3> QED BY <2>4, <3>2, <3>3, <3>4 DEF Tells
  <2>5. Tells(e, f, w)
    BY <1>1, <1>4, <2>1, <2>3, <2>4 DEF Tells
  <2> QED BY <1>1, <1>4, <2>5
<1>5. ASSUME NEW i \in 1 .. Len(a), i \in 1 .. Len(b), ~SameAtom(a[i], b[i]),
             \A j \in 1 .. (i - 1) : SameAtom(a[j], b[j]),
             Decides(a[i], b[i], v)
      PROVE  Tells(e, f, IF v = "equal" THEN w ELSE v)
  <2>1. i \in 1 .. Len(e) /\ i \in 1 .. Len(f)
    BY <1>2, <1>3, <1>5
  <2>2. e[i] = a[i] /\ f[i] = b[i]
    BY <1>2, <1>5
  <2>3. ASSUME NEW j \in 1 .. (i - 1) PROVE SameAtom(e[j], f[j])
    <3>1. j \in 1 .. Len(a) /\ j \in 1 .. Len(b)
      BY <1>3, <1>5
    <3>2. e[j] = a[j] /\ f[j] = b[j]
      BY <1>2, <3>1
    <3> QED BY <1>5, <3>2
  <2>4. PICK u : u = IF v = "equal" THEN w ELSE v
    OBVIOUS
  <2>5. Decides(e[i], f[i], u)
    BY <1>5, <2>2, <2>4 DEF Decides, Verdict
  <2>6. ~SameAtom(e[i], f[i])
    BY <1>5, <2>2
  <2>7. Tells(e, f, u)
    BY <2>1, <2>3, <2>5, <2>6 DEF Tells
  <2> QED BY <2>4, <2>7
<1> QED BY <1>1, <1>4, <1>5 DEF Tells

\* Of sequences laid out one after another, the first pair that is told apart decides.
LEMMA DecidedTells ==
  ASSUME NEW k \in Nat, NEW s, NEW t, NEW g, NEW h, NEW answers,
         Lays(g, s, k, AtomSet), Lays(h, t, k, AtomSet), DOMAIN answers = 1 .. k,
         \A i \in 1 .. k : /\ s[i] \in Seq(AtomSet) /\ t[i] \in Seq(AtomSet)
                           /\ Tells(s[i], t[i], answers[i])
  PROVE  Tells(g[k], h[k], Decided(answers))
<1> DEFINE First(n, v) == \E m \in 1 .. n : /\ answers[m] = v
                                            /\ \A j \in 1 .. (m - 1) : answers[j] = "equal"
           Up(n, v) == /\ Tells(g[n], h[n], v)
                       /\ v = "equal" => \A i \in 1 .. n : answers[i] = "equal"
                       /\ v # "equal" => First(n, v)
           N == {n \in Nat : n <= k => \E v : Up(n, v)}
<1>1. 0 \in N
  <2>1. g[0] = <<>> /\ h[0] = <<>>
    BY DEF Lays
  <2>2. Tells(g[0], h[0], "equal")
    BY <2>1, EmptySeq DEF Tells
  <2>3. Up(0, "equal")
    BY <2>2
  <2> QED BY <2>3
<1>2. ASSUME NEW n \in Nat, n \in N PROVE n + 1 \in N
  <2> SUFFICES ASSUME n + 1 <= k PROVE \E v : Up(n + 1, v)
    OBVIOUS
  <2>1. PICK m : m = n + 1
    OBVIOUS
  <2>2. m \in 1 .. k /\ m - 1 = n /\ n \in 0 .. k /\ n <= k /\ m \in 0 .. k
    BY <2>1
  <2>3. PICK v : Up(n, v)
    BY <1>2, <2>2
  <2>4. PICK w, u : w = answers[m] /\ u = IF v = "equal" THEN w ELSE v
    OBVIOUS
  <2>5. /\ g[m] = g[n] \o s[m] /\ h[m] = h[n] \o t[m]
        /\ g[n] \in Seq(AtomSet) /\ h[n] \in Seq(AtomSet)
        /\ s[m] \in Seq(AtomSet) /\ t[m] \in Seq(AtomSet)
        /\ Tells(s[m], t[m], w)
    BY <2>2, <2>4 DEF Lays
  <2>6. Tells(g[n], h[n], v)
    BY <2>3
  <2>7. Tells(g[m], h[m], u)
    BY <2>4, <2>5, <2>6, ThenTells
  <2>8. u = "equal" => \A i \in 1 .. m : answers[i] = "equal"
    <3> SUFFICES ASSUME u = "equal", NEW i \in 1 .. m PROVE answers[i] = "equal"
      OBVIOUS
    <3>1. v = "equal" /\ w = "equal"
      BY <2>4
    <3>2. CASE i = m
      BY <2>4, <3>1, <3>2
    <3>3. CASE i # m
      <4>1. i \in 1 .. n
        BY <2>1, <3>3
      <4> QED BY <2>3, <3>1, <4>1
    <3> QED BY <3>2, <3>3
  <2>9. u # "equal" => First(m, u)
    <3>1. CASE v = "equal"
      <4>1. \A i \in 1 .. n : answers[i] = "equal"
        BY <2>3, <3>1
      <4>2. m \in 1 .. m
        BY <2>2
      <4> QED BY <2>2, <2>4, <3>1, <4>1, <4>2
    <3>2. CASE v # "equal"
      <4>1. First(n, v)
        BY <2>3, <3>2
      <4>2. 1 .. n \subseteq 1 .. m
        BY <2>1
      <4> QED BY <2>4, <3>2, <4>1, <4>2
    <3> QED BY <3>1, <3>2
  <2>10. Up(m, u)
    BY <2>7, <2>8, <2>9
  <2> HIDE DEF Up
  <2> QED BY <2>1, <2>10
<1> HIDE DEF N, Up
<1>3. \A n \in Nat : n \in N
  BY <1>1, <1>2, NatsIn
<1>4. k \in N
  BY <1>3
<1>5. PICK v : Up(k, v)
  BY <1>4 DEF N
<1> USE DEF Up
<1> DEFINE Apart == {i \in DOMAIN answers : answers[i] # "equal"}
<1>6. CASE v = "equal"
  <2>1. Apart = {}
    BY <1>5, <1>6
  <2> QED BY <1>5, <1>6, <2>1 DEF Decided
<1>7. CASE v # "equal"
  <2>1. PICK m \in 1 .. k : answers[m] = v /\ \A j \in 1 .. (m - 1) : answers[j] = "equal"
    BY <1>5, <1>7
  <2>2. m \in Apart /\ \A j \in Apart : m <= j
    BY <1>7, <2>1
  <2>3. \A j \in Apart : j \in Nat
    OBVIOUS
  <2>4. Min(Apart) = m
    BY <2>2, <2>3 DEF Min
  <2>5. Decided(answers) = answers[m]
    BY <2>2, <2>4 DEF Decided
  <2> QED BY <1>5, <2>1, <2>5
<1> QED BY <1>6, <1>7

\* What is to be shown of a pair: its atoms tell what Comparison answers, and its values
\* hash alike if that is "equal".
Compared(q) ==
  /\ Tells(Atoms[Left(q)], Atoms[Right(q)], Comparison[q])
  /\ Comparison[q] = "equal" => HashOf[Left(q)] = HashOf[Right(q)]

\* One atom each.
LEMMA OneTells ==
  ASSUME NEW a \in AtomSet, NEW b \in AtomSet, NEW v
  PROVE  /\ SameAtom(a, b) => Tells(<<a>>, <<b>>, "equal")
         /\ ~SameAtom(a, b) /\ Decides(a, b, v) => Tells(<<a>>, <<b>>, v)
<1>1. PICK s, t : s = <<a>> /\ t = <<b>>
  OBVIOUS
<1>2. s \in Seq(AtomSet) /\ t \in Seq(AtomSet) /\ Len(s) = 1 /\ Len(t) = 1 /\ s[1] = a /\ t[1] = b
  BY <1>1
<1>3. ASSUME SameAtom(a, b) PROVE Tells(s, t, "equal")
  BY <1>2, <1>3 DEF Tells
<1>4. ASSUME ~SameAtom(a, b), Decides(a, b, v) PROVE Tells(s, t, v)
  <2>1. 1 \in 1 .. Len(s) /\ 1 \in 1 .. Len(t) /\ \A j \in 1 .. (1 - 1) : FALSE
    BY <1>2
  <2> QED BY <1>2, <1>4, <2>1 DEF Tells
<1> QED BY <1>1, <1>3, <1>4

\* What is embedded tells nothing apart that is the same, and of the rest only that it is odd.
LEMMA EmbeddedTells ==
  ASSUME NEW s \in Seq(AtomSet), NEW t \in Seq(AtomSet), NEW v, Tells(s, t, v)
  PROVE  Tells(AllEmbedded(s), AllEmbedded(t), "equal")
<1>1. PICK a, b : a = AllEmbedded(s) /\ b = AllEmbedded(t)
  OBVIOUS
<1>2. /\ Len(a) = Len(s) /\ \A i \in 1 .. Len(s) : /\ a[i].embedded /\ a[i].type = s[i].type
                                               /\ a[i].scalar = s[i].scalar
      /\ Len(b) = Len(t) /\ \A i \in 1 .. Len(t) : /\ b[i].embedded /\ b[i].type = t[i].type
                                               /\ b[i].scalar = t[i].scalar
  BY <1>1, EmbeddedAre
<1>3. ASSUME NEW i \in 1 .. Len(s), i \in 1 .. Len(t) PROVE SameAtom(a[i], b[i]) <=> SameAtom(s[i], t[i])
  BY <1>2, <1>3 DEF SameAtom, Incomparable
<1>4. Len(s) \in Nat /\ Len(t) \in Nat
  BY LenProperties
<1>5. CASE Len(s) = Len(t) /\ \A i \in 1 .. Len(s) : SameAtom(s[i], t[i])
  BY <1>1, <1>2, <1>3, <1>5 DEF Tells
<1>6. ASSUME NEW i \in 1 .. Len(s), i \in 1 .. Len(t), ~SameAtom(s[i], t[i]),
             \A j \in 1 .. (i - 1) : SameAtom(s[j], t[j])
      PROVE  Tells(a, b, "equal")
  <2>1. i \in 1 .. Len(a) /\ i \in 1 .. Len(b) /\ ~SameAtom(a[i], b[i])
    BY <1>2, <1>3, <1>6
  <2>2. ASSUME NEW j \in 1 .. (i - 1) PROVE SameAtom(a[j], b[j])
    <3>1. j \in 1 .. Len(s) /\ j \in 1 .. Len(t)
      BY <1>4, <1>6
    <3> QED BY <1>3, <1>6, <3>1
  <2>3. Decides(a[i], b[i], "equal")
    BY <1>2 DEF Decides, Odd
  <2> QED BY <2>1, <2>2, <2>3 DEF Tells
<1> QED BY <1>1, <1>5, <1>6 DEF Tells

\* Scalars.
LEMMA ScalarCompared ==
  ASSUME NEW q \in Pairs, ~IsAgg(q), q[3].tag # "iface"
  PROVE  Compared(q)
<1>1. PICK n, T, x, y :
        /\ n \in 0 .. MaxDepth /\ T \in Types
        /\ x \in Nested[<<n, T>>] /\ y \in Nested[<<n, T>>]
        /\ q = <<n, T, x, y>> /\ q[1] = n /\ q[2] = T /\ q[3] = x /\ q[4] = y
  BY PairsIs
<1>2. ~IsInterface(T) /\ ~IsAggregate(T)
  BY <1>1, TagTells DEF IsAgg
<1>3. PICK tag, i, j : tag = TagOf(T) /\ i = x.is /\ j = y.is
  OBVIOUS
<1>4. /\ tag \in DOMAIN Literals /\ i \in Literals[tag] /\ x = Boxed(tag, i)
      /\ tag \in {"int", "float", "pointer", "func", "slice", "map", "hashmap"}
  BY <1>1, <1>2, <1>3, ScalarIs
<1>5. j \in Literals[tag] /\ y = Boxed(tag, j)
  BY <1>1, <1>2, <1>3, ScalarIs
<1>6. x.tag = tag /\ y.tag = tag /\ x # NoValue /\ y # NoValue
  BY <1>4, <1>5 DEF Boxed, NoValue
<1>7. x \in ScalarSet /\ y \in ScalarSet
  BY <1>4, <1>5 DEF ScalarSet
<1>8. PICK a, b : /\ a = [type |-> NoType, scalar |-> x, embedded |-> FALSE]
                  /\ b = [type |-> NoType, scalar |-> y, embedded |-> FALSE]
  OBVIOUS
<1>9. a \in AtomSet /\ b \in AtomSet
  BY <1>7, <1>8 DEF AtomSet
<1>10. PICK l, r : l = Left(q) /\ r = Right(q)
  OBVIOUS
<1>11. l \in Typed /\ r \in Typed /\ l[3] = x /\ r[3] = y
  BY <1>1, <1>10, PairOf DEF Left, Right
<1>12. Atoms[l] = <<a>> /\ Atoms[r] = <<b>>
  BY <1>4, <1>6, <1>8, <1>11, AtomsIs DEF AtomsOne
<1>13. HashOf[l] = ScalarHash(x) /\ HashOf[r] = ScalarHash(y)
  BY <1>4, <1>6, <1>11, HashOfIs DEF HashOne, HashScalar
<1>14. Comparison[q] = IF tag \in {"int", "float", "pointer"} THEN Answer(SameScalar(x, y))
                       ELSE "panic"
  BY <1>1, <1>4, <1>6, ComparisonIs DEF CompareOne
<1>15. Incomparable(a) <=> tag \notin {"int", "float", "pointer"}
  BY <1>4, <1>6, <1>8 DEF Incomparable
<1>16. SameAtom(a, b) <=> tag \in {"int", "float", "pointer"} /\ SameScalar(x, y)
  BY <1>6, <1>8, <1>15 DEF SameAtom
<1>17. Tells(<<a>>, <<b>>, Comparison[q])
  <2>1. PICK v : v = Comparison[q]
    OBVIOUS
  <2>2. a.type = b.type
    BY <1>8
  <2>3. SameAtom(a, b) => v = "equal"
    BY <1>14, <1>16, <2>1 DEF Answer
  <2>4. ~SameAtom(a, b) => Decides(a, b, v)
    BY <1>14, <1>15, <1>16, <2>1, <2>2 DEF Answer, Decides, Verdict
  <2> QED BY <1>9, <2>1, <2>3, <2>4, OneTells
<1>18. SameScalar(x, y) => ScalarHash(x) = ScalarHash(y)
  BY <1>4, <1>5, ScalarsAssumption
<1>19. Comparison[q] = "equal" => HashOf[l] = HashOf[r]
  BY <1>13, <1>14, <1>18 DEF Answer
<1> QED BY <1>10, <1>12, <1>17, <1>19 DEF Compared

\* Comparison panics for a func, slice or map that two interfaces hold.
LEMMA HeldRefused ==
  ASSUME NEW q \in Pairs, q[3].tag = "iface", IsFullPair(q), NEW C, C = q[3].t,
         ~IsAggregate(C), Underlying(C).kind \in Uncomparable
  PROVE  Comparison[InnerPair(q)] = "panic"
<1>1. PICK p : p = InnerPair(q)
  OBVIOUS
<1>2. p \in Pairs /\ p[2] = C
  BY <1>1, PairsBelow DEF InnerPair
<1>3. PICK n, T, x, y :
        /\ n \in 0 .. MaxDepth /\ T \in Types
        /\ x \in Nested[<<n, T>>] /\ y \in Nested[<<n, T>>]
        /\ p = <<n, T, x, y>> /\ p[1] = n /\ p[2] = T /\ p[3] = x /\ p[4] = y
  BY <1>2, PairsIs
<1>4. T = C /\ ~IsInterface(T) /\ ~IsAggregate(T) /\ TagOf(T) \in {"func", "slice", "map", "hashmap"}
  BY <1>2, <1>3 DEF Uncomparable, IsInterface, TagOf
<1>5. p[3].tag \in {"func", "slice", "map", "hashmap"}
  BY <1>3, <1>4, ScalarIs
<1>6. Comparison[p] = "panic"
  BY <1>2, <1>5, ComparisonIs DEF CompareOne
<1> QED BY <1>1, <1>6

\* Interfaces, if so what is inside.
LEMMA InterfaceCompared ==
  ASSUME NEW q \in Pairs, q[3].tag = "iface", IsFullPair(q) => Compared(InnerPair(q))
  PROVE  Compared(q)
<1>1. PICK n, T, x, y :
        /\ n \in 0 .. MaxDepth /\ T \in Types
        /\ x \in Nested[<<n, T>>] /\ y \in Nested[<<n, T>>]
        /\ q = <<n, T, x, y>> /\ q[1] = n /\ q[2] = T /\ q[3] = x /\ q[4] = y
  BY PairsIs
<1>2. x.tag = "iface" /\ y.tag = "iface" /\ IsInterface(T)
  BY <1>1, TagTells
<1>3. PICK C, D : C = x.t /\ D = y.t
  OBVIOUS
<1>4. C \in Types \cup {NoType} /\ D \in Types \cup {NoType}
  <2>1. NilIface.t = NoType
    BY DEF NilIface, Dyn
  <2>2. (x = NilIface \/ C \in DynTypes) /\ (y = NilIface \/ D \in DynTypes)
    BY <1>1, <1>2, <1>3, HeldIs DEF Holds
  <2> QED BY <1>3, <2>1, <2>2, DynIs
<1>5. PICK a, b : /\ a = [type |-> C, scalar |-> NoValue, embedded |-> FALSE]
                  /\ b = [type |-> D, scalar |-> NoValue, embedded |-> FALSE]
  OBVIOUS
<1>6. a \in AtomSet /\ b \in AtomSet
  <2>1. NoValue \in ScalarSet
    BY DEF ScalarSet
  <2> QED BY <1>4, <1>5, <2>1 DEF AtomSet
<1>7. /\ a.type = C /\ b.type = D
      /\ Incomparable(a) <=> C # NoType /\ ~CanCompare(C)
      /\ SameAtom(a, b) <=> C = D /\ ~Incomparable(a)
  <2>1. NoValue.tag = "none"
    BY DEF NoValue, Boxed
  <2> QED BY <1>5, <2>1 DEF SameAtom, Incomparable
<1>8. PICK l, r : l = Left(q) /\ r = Right(q)
  OBVIOUS
<1>9. l \in Typed /\ r \in Typed /\ l[3] = x /\ r[3] = y
  BY <1>1, <1>8, PairOf DEF Left, Right
<1>10. PICK s, t : /\ s = IF C = NoType THEN <<>> ELSE Atoms[Inner(l)]
                   /\ t = IF D = NoType THEN <<>> ELSE Atoms[Inner(r)]
  OBVIOUS
<1>11. Atoms[l] = <<a>> \o s /\ Atoms[r] = <<b>> \o t
  BY <1>2, <1>3, <1>5, <1>9, <1>10, AtomsIs DEF AtomsOne
<1>12. s \in Seq(AtomSet) /\ t \in Seq(AtomSet)
  <2>1. C # NoType => Atoms[Inner(l)] \in Seq(AtomSet)
    BY <1>2, <1>3, <1>9, PartsBelow, AllTold DEF IsFull, Told
  <2>2. D # NoType => Atoms[Inner(r)] \in Seq(AtomSet)
    BY <1>2, <1>3, <1>9, PartsBelow, AllTold DEF IsFull, Told
  <2> QED BY <1>10, <2>1, <2>2, EmptySeq
<1>13. PICK e, f : e = <<a>> /\ f = <<b>>
  OBVIOUS
<1>14. e \in Seq(AtomSet) /\ f \in Seq(AtomSet)
  BY <1>6, <1>13
<1>15. CASE C # D
  <2>1. Comparison[q] = "differ"
    BY <1>1, <1>2, <1>3, <1>15, ComparisonIs DEF CompareOne, SameType, Answer
  <2>2. Tells(e, f, "differ")
    <3>1. Decides(a, b, "differ")
      BY <1>7, <1>15 DEF Decides, Verdict
    <3> QED BY <1>6, <1>7, <1>13, <1>15, <3>1, OneTells
  <2>3. Tells(e \o s, f \o t, IF "differ" = "equal" THEN "differ" ELSE "differ")
    BY <2>2, <1>12, <1>14, ThenTells
  <2> QED BY <1>8, <1>11, <1>13, <2>1, <2>3 DEF Compared
<1>16. CASE C = D /\ C = NoType
  <2>1. Comparison[q] = "equal"
    BY <1>1, <1>2, <1>3, <1>16, ComparisonIs DEF CompareOne, SameType, Answer
  <2>2. HashOf[l] = 0 /\ HashOf[r] = 0
    <3>1. l[3].tag = "iface" /\ l[3].t = NoType /\ r[3].tag = "iface" /\ r[3].t = NoType
      BY <1>2, <1>3, <1>9, <1>16
    <3>2. HashOf[l] = HashOne(HashOf, l) /\ HashOf[r] = HashOne(HashOf, r)
      BY <1>9, HashOfIs
    <3>3. HashOne(HashOf, l) = 0 /\ HashOne(HashOf, r) = 0
      BY <3>1 DEF HashOne
    <3> QED BY <3>2, <3>3
  <2>3. Tells(e, f, "equal")
    BY <1>6, <1>7, <1>13, <1>16, OneTells
  <2>4. e \o s = e /\ f \o t = f
    BY <1>10, <1>14, <1>16, ConcatEmptySeq
  <2> QED BY <1>8, <1>11, <1>13, <2>1, <2>2, <2>3, <2>4 DEF Compared
<1>17. CASE C = D /\ C # NoType
  <2>1. IsFullPair(q)
    BY <1>1, <1>2, <1>3, <1>17 DEF IsFullPair, IsFull
  <2>2. PICK p : p = InnerPair(q)
    OBVIOUS
  <2>3. Left(p) = Inner(l) /\ Right(p) = Inner(r) /\ Compared(p)
    BY <1>8, <2>1, <2>2, PairsBelow
  <2>4. Comparison[q] = Comparison[p]
    BY <1>1, <1>2, <1>3, <1>17, <2>2, ComparisonIs DEF CompareOne, SameType
  <2>5. /\ HashOf[l] = TypeHash(C) * 8581 + HashOf[Inner(l)]
        /\ HashOf[r] = TypeHash(C) * 8581 + HashOf[Inner(r)]
    <3>1. l[3].tag = "iface" /\ l[3].t = C /\ r[3].tag = "iface" /\ r[3].t = C
      BY <1>2, <1>3, <1>9, <1>17
    <3>2. HashOf[l] = HashOne(HashOf, l) /\ HashOf[r] = HashOne(HashOf, r)
      BY <1>9, HashOfIs
    <3>3. /\ HashOne(HashOf, l) = TypeHash(C) * 8581 + HashOf[Inner(l)]
          /\ HashOne(HashOf, r) = TypeHash(C) * 8581 + HashOf[Inner(r)]
      BY <3>1, <1>17 DEF HashOne
    <3> QED BY <3>2, <3>3
  <2>7. PICK v : v = Comparison[p]
    OBVIOUS
  <2>8. Tells(s, t, v)
    BY <1>10, <1>17, <2>3, <2>7 DEF Compared
  <2>9. Tells(e \o s, f \o t, v)
    <3>1. CASE CanCompare(C)
      <4>1. Tells(e, f, "equal")
        BY <1>6, <1>7, <1>13, <1>17, <3>1, OneTells
      <4>2. Tells(e \o s, f \o t, IF "equal" = "equal" THEN v ELSE "equal")
        BY <4>1, <2>8, <1>12, <1>14, ThenTells
      <4> QED BY <4>2
    <3>2. CASE ~CanCompare(C)
      <4>1. Decides(a, b, v)
        <5>1. CASE IsAggregate(C)
          BY <1>7, <1>17, <3>2, <5>1 DEF Decides, Odd
        <5>2. CASE ~IsAggregate(C)
          <6>1. v = "panic"
            BY <1>1, <1>2, <1>3, <2>1, <2>2, <2>7, <3>2, <5>2, HeldRefused DEF CanCompare
          <6> QED BY <1>7, <1>17, <3>2, <6>1 DEF Decides, Verdict
        <5> QED BY <5>1, <5>2
      <4>2. Tells(e, f, v)
        BY <1>6, <1>7, <1>13, <3>2, <1>17, <4>1, OneTells
      <4>3. Tells(e \o s, f \o t, IF v = "equal" THEN v ELSE v)
        BY <4>2, <2>8, <1>12, <1>14, ThenTells
      <4> QED BY <4>3
    <3> QED BY <3>1, <3>2
  <2>10. Tells(Atoms[l], Atoms[r], Comparison[q])
    BY <1>11, <1>13, <2>4, <2>7, <2>9
  <2>11. Comparison[q] = "equal" => HashOf[l] = HashOf[r]
    BY <2>3, <2>4, <2>5 DEF Compared
  <2> QED BY <1>8, <2>10, <2>11 DEF Compared
<1> QED BY <1>15, <1>16, <1>17

\* Aggregates, if so their parts.
LEMMA AggregateCompared ==
  ASSUME NEW q \in Pairs, IsAgg(q), \A i \in DOMAIN PartTypes(q[2]) : Compared(PartPair(q, i))
  PROVE  Compared(q)
<1>1. PICK l, r : l = Left(q) /\ r = Right(q)
  OBVIOUS
<1>2. /\ l \in Typed /\ r \in Typed /\ IsAgg(l) /\ IsAgg(r)
      /\ l[2] = q[2] /\ r[2] = q[2]
  BY <1>1, PairOf DEF Left, Right
<1>3. q[2] \in Types /\ IsAggregate(q[2])
  <2>1. PICK n, T, x, y :
          /\ n \in 0 .. MaxDepth /\ T \in Types
          /\ x \in Nested[<<n, T>>] /\ y \in Nested[<<n, T>>]
          /\ q = <<n, T, x, y>> /\ q[1] = n /\ q[2] = T /\ q[3] = x /\ q[4] = y
    BY PairsIs
  <2> QED BY <2>1, TagTells DEF IsAgg
<1>4. PICK k \in Nat : DOMAIN PartTypes(q[2]) = 1 .. k
  BY <1>3, PartsAre
<1>5. ASSUME NEW i \in 1 .. k
      PROVE  /\ Compared(PartPair(q, i))
             /\ Left(PartPair(q, i)) = Part(l, i) /\ Right(PartPair(q, i)) = Part(r, i)
             /\ Part(l, i) \in Typed /\ Part(r, i) \in Typed
  <2>1. i \in DOMAIN PartTypes(q[2])
    BY <1>4
  <2>2. Part(l, i) \in Typed /\ Part(r, i) \in Typed
    BY <1>2, <2>1, PartsBelow
  <2> QED BY <1>1, <2>1, <2>2, PairsBelow
<1>6. PICK s : s = [i \in 1 .. k |-> IF IsEmbedded(q[2], i) THEN AllEmbedded(Atoms[Part(l, i)])
                                    ELSE Atoms[Part(l, i)]]
  OBVIOUS
<1>7. PICK t : t = [i \in 1 .. k |-> IF IsEmbedded(q[2], i) THEN AllEmbedded(Atoms[Part(r, i)])
                                    ELSE Atoms[Part(r, i)]]
  OBVIOUS
<1>8. PICK answers : answers = [i \in 1 .. k |-> IF LooksAt(q[2], i) THEN Comparison[PartPair(q, i)]
                                                 ELSE "equal"]
  OBVIOUS
<1>9. Atoms[l] = FlattenSeq(s)
  BY <1>2, <1>4, <1>6, AtomsIs DEF AtomsOne, IsAgg
<1>10. Atoms[r] = FlattenSeq(t)
  BY <1>2, <1>4, <1>7, AtomsIs DEF AtomsOne, IsAgg
<1>11. Comparison[q] = Decided(answers)
  BY <1>4, <1>8, ComparisonIs DEF CompareOne, IsAgg
<1>12. ASSUME NEW i \in 1 .. k
       PROVE  /\ s[i] \in Seq(AtomSet) /\ t[i] \in Seq(AtomSet)
              /\ Tells(s[i], t[i], answers[i])
  <2>1. CASE LooksAt(q[2], i)
    <3>1. /\ s[i] = Atoms[Part(l, i)] /\ t[i] = Atoms[Part(r, i)]
         /\ answers[i] = Comparison[PartPair(q, i)]
      BY <1>3, <1>6, <1>7, <1>8, <2>1, LooksElsewhere
    <3>2. Atoms[Part(l, i)] \in Seq(AtomSet) /\ Atoms[Part(r, i)] \in Seq(AtomSet)
      BY <1>5, AllTold DEF Told
    <3> QED BY <1>5, <3>1, <3>2 DEF Compared
  <2>2. CASE ~LooksAt(q[2], i)
    <3>1. /\ s[i] = AllEmbedded(Atoms[Part(l, i)]) /\ t[i] = AllEmbedded(Atoms[Part(r, i)])
         /\ answers[i] = "equal"
      BY <1>3, <1>6, <1>7, <1>8, <2>2, LooksElsewhere
    <3>2. PICK a, b, v : a = Atoms[Part(l, i)] /\ b = Atoms[Part(r, i)] /\ v = Comparison[PartPair(q, i)]
      OBVIOUS
    <3>3. a \in Seq(AtomSet) /\ b \in Seq(AtomSet)
      BY <1>5, <3>2, AllTold DEF Told
    <3>4. Tells(a, b, v)
      BY <1>5, <3>2 DEF Compared
    <3>5. Tells(AllEmbedded(a), AllEmbedded(b), "equal")
      BY <3>3, <3>4, EmbeddedTells
    <3>6. s[i] \in Seq(AtomSet) /\ t[i] \in Seq(AtomSet)
      BY <3>1, <3>2, <3>3, EmbeddedAre
    <3> QED BY <3>1, <3>2, <3>5, <3>6
  <2> QED BY <2>1, <2>2
<1>13. PICK g : Lays(g, s, k, AtomSet)
  BY <1>6, <1>12, Laid
<1>14. PICK h : Lays(h, t, k, AtomSet)
  BY <1>7, <1>12, Laid
<1>15. DOMAIN answers = 1 .. k
  BY <1>8
<1>16. Tells(g[k], h[k], Decided(answers))
  BY <1>12, <1>13, <1>14, <1>15, DecidedTells
<1>17. Tells(Atoms[l], Atoms[r], Comparison[q])
  BY <1>9, <1>10, <1>11, <1>13, <1>14, <1>16 DEF Lays
<1>18. ASSUME Comparison[q] = "equal" PROVE HashOf[l] = HashOf[r]
  <2> DEFINE F(p) == [i \in DOMAIN PartTypes(q[2]) |->
                        IF LooksAt(q[2], i) THEN HashOf[Part(p, i)] ELSE 0]
  <2>1. HashOf[l] = Total(F(l)) /\ HashOf[r] = Total(F(r))
    BY <1>2, HashOfIs DEF HashOne, IsAgg
  <2>2. ASSUME NEW i \in 1 .. k PROVE answers[i] = "equal"
    <3> DEFINE Apart == {j \in DOMAIN answers : answers[j] # "equal"}
    <3>1. Apart \in SUBSET Nat
      BY <1>15
    <3>2. ASSUME Apart # {} PROVE FALSE
      <4>1. PICK m \in Apart : \A j \in Apart : m <= j
        <5> HIDE DEF Apart
        <5> QED BY <3>1, <3>2, LeastOne
      <4>2. \A j \in Apart : j \in Nat
        BY <3>1
      <4>3. Min(Apart) = m
        BY <4>1, <4>2 DEF Min
      <4>4. Decided(answers) = answers[m]
        BY <3>2, <4>3 DEF Decided
      <4> QED BY <1>11, <1>18, <4>1, <4>4
    <3> QED BY <1>15, <3>2
  <2>3. ASSUME NEW i \in 1 .. k, LooksAt(q[2], i) PROVE HashOf[Part(l, i)] = HashOf[Part(r, i)]
    <3>1. Comparison[PartPair(q, i)] = "equal"
      BY <1>8, <2>2, <2>3
    <3> QED BY <1>5, <3>1 DEF Compared
  <2>4. F(l) = F(r)
    BY <1>4, <2>3
  <2> HIDE DEF F
  <2> QED BY <2>1, <2>4
<1> QED BY <1>1, <1>17, <1>18 DEF Compared

\* Every pair.
LEMMA AllCompared == \A q \in Pairs : Compared(q)
<1> DEFINE S == {q \in Pairs : Compared(q)}
<1>1. ASSUME NEW q \in Pairs,
             IsAgg(q) => \A i \in DOMAIN PartTypes(q[2]) : PartPair(q, i) \in S,
             IsFullPair(q) => InnerPair(q) \in S
      PROVE  q \in S
  <2>1. CASE IsAgg(q)
    BY <1>1, <2>1, AggregateCompared
  <2>2. CASE q[3].tag = "iface"
    BY <1>1, <2>2, InterfaceCompared
  <2>3. CASE ~IsAgg(q) /\ q[3].tag # "iface"
    BY <2>3, ScalarCompared
  <2> QED BY <2>1, <2>2, <2>3
<1>2. PairInductive(S)
  BY <1>1 DEF PairInductive
<1> HIDE DEF S
<1>3. \A q \in Pairs : q \in S
  BY <1>2, PairsIn
<1> QED BY <1>3 DEF S

-----------------------------------------------------------------------------
\* The operations that share nothing -----------------------------------------------------

\* The values of a type.
LEMMA ValsIs ==
  ASSUME NEW T \in Types
  PROVE  Vals[T] = Nested[<<MaxDepth, T>>] /\ MaxDepth \in 0 .. MaxDepth
BY DepthIs DEF Vals

\* On values that are not of an uncomparable kind, equals answers as Go does but
\* for what decides otherwise.
LEMMA EqualsTold ==
  ASSUME NEW T \in Types, NEW x \in Vals[T], NEW y \in Vals[T],
         Underlying(T).kind \notin Uncomparable
  PROVE  Equals(T, x, y) = GoCompare(T, x, y) \/ DecidedOtherwise(T, x, y)
<1>1. PICK q : q = <<MaxDepth, T, x, y>>
  OBVIOUS
<1>2. q \in Pairs
  BY <1>1, ValsIs, InPairs
<1>3. PICK l, r : l = Left(q) /\ r = Right(q)
  OBVIOUS
<1>4. l = <<MaxDepth, T, x>> /\ r = <<MaxDepth, T, y>>
  BY <1>1, <1>3 DEF Left, Right
<1>5. PICK a, b, v : a = Atoms[l] /\ b = Atoms[r] /\ v = Comparison[q]
  OBVIOUS
<1>6. Tells(a, b, v)
  BY <1>2, <1>3, <1>5, AllCompared DEF Compared
<1>7. a \in Seq(AtomSet) /\ b \in Seq(AtomSet)
  BY <1>2, <1>3, <1>5, PairOf, AllTold DEF Told
<1>8. /\ Len(a) \in Nat /\ Len(b) \in Nat
      /\ DOMAIN a = 1 .. Len(a) /\ DOMAIN b = 1 .. Len(b)
  BY <1>7, LenProperties
<1>13. PICK A : A = Differing(a, b)
  OBVIOUS
<1>14. A = {i \in DOMAIN a \cap DOMAIN b : ~SameAtom(a[i], b[i])}
  BY <1>13 DEF Differing
<1>9. /\ GoCompare(T, x, y) = IF A = {} THEN "equal" ELSE Verdict(a[Min(A)], b[Min(A)])
      /\ A # {} /\ Odd(a[Min(A)], b[Min(A)]) => DecidedOtherwise(T, x, y)
  BY <1>4, <1>5, <1>13 DEF GoCompare, DecidedOtherwise
<1>10. Equals(T, x, y) = v
  BY <1>1, <1>5 DEF Equals
<1>11. CASE /\ v = "equal" /\ Len(a) = Len(b)
            /\ \A i \in 1 .. Len(a) : SameAtom(a[i], b[i])
  <2>1. A = {}
    BY <1>8, <1>11, <1>14
  <2> QED BY <1>9, <1>10, <1>11, <2>1
<1>12. ASSUME NEW i \in 1 .. Len(a), i \in 1 .. Len(b), ~SameAtom(a[i], b[i]),
              \A j \in 1 .. (i - 1) : SameAtom(a[j], b[j]),
              Decides(a[i], b[i], v)
       PROVE  Equals(T, x, y) = GoCompare(T, x, y) \/ DecidedOtherwise(T, x, y)
  <2>1. i \in A
    BY <1>8, <1>12, <1>14
  <2>2. ASSUME NEW j \in A PROVE i <= j /\ j \in Nat
    <3>1. j \in 1 .. Len(a) /\ ~SameAtom(a[j], b[j])
      BY <1>8, <1>14
    <3> QED BY <1>8, <1>12, <3>1
  <2>3. Min(A) = i
    <3>1. \A m \in A : (\A j \in A : m <= j) => m = i
      BY <2>1, <2>2
    <3>2. \A j \in A : i <= j
      BY <2>2
    <3> QED BY <2>1, <3>1, <3>2 DEF Min
  <2> QED BY <1>9, <1>10, <1>12, <2>1, <2>3 DEF Decides
<1> QED BY <1>6, <1>11, <1>12 DEF Tells

\* The values of the kinds that are compared to nil only.
LEMMA UncomparableIs ==
  ASSUME NEW T \in Types, Underlying(T).kind \in Uncomparable, NEW x \in Vals[T]
  PROVE  x = Boxed(TagOf(T), x.is) /\ (x.tag = "func" <=> Underlying(T).kind = "func")
<1>1. ~IsInterface(T) /\ ~IsAggregate(T)
  BY DEF Uncomparable, IsInterface, IsAggregate
<1>2. x = Boxed(TagOf(T), x.is) /\ x.tag = TagOf(T)
  BY <1>1, ValsIs, ScalarIs
<1>3. TagOf(T) = "func" <=> Underlying(T).kind = "func"
  BY DEF TagOf
<1> QED BY <1>2, <1>3

\* What BinOp answers for ==.
LEMMA CompareTold ==
  ASSUME NEW T \in Types, NEW x \in Vals[T], NEW y \in Vals[T],
         Underlying(T).kind \in Uncomparable => Nil \in {x.is, y.is}
  PROVE  EqNil(T, x, y) = GoCompare(T, x, y) \/ DecidedOtherwise(T, x, y)
<1>1. CASE Underlying(T).kind \notin Uncomparable
  BY <1>1, EqualsTold DEF EqNil
<1>2. CASE Underlying(T).kind \in Uncomparable
  <2>1. PICK i, j, tag : i = x.is /\ j = y.is /\ tag = TagOf(T)
    OBVIOUS
  <2>2. x = Boxed(tag, i) /\ y = Boxed(tag, j)
    BY <1>2, <2>1, UncomparableIs
  <2>3. i = "nil" \/ j = "nil"
    BY <1>2, <2>1 DEF Nil
  <2>4. GoCompare(T, x, y) = Answer(i = j)
    BY <1>2, <2>1 DEF GoCompare
  <2>5. EqNil(T, x, y) = IF x.tag = "func" /\ j = "closure" /\ i # "closure" THEN "equal"
                         ELSE Answer((i # "nil") = (j # "nil"))
    BY <1>2, <2>1 DEF EqNil, Nil
  <2>6. CASE x.tag = "func" /\ j = "closure" /\ i # "closure"
    <3>1. i = "nil" /\ tag = "func"
      BY <2>2, <2>3, <2>6 DEF Boxed
    <3> QED BY <2>2, <2>6, <3>1 DEF DecidedOtherwise
  <2>7. CASE ~(x.tag = "func" /\ j = "closure" /\ i # "closure")
    <3>1. EqNil(T, x, y) = Answer((i # "nil") = (j # "nil"))
      BY <2>5, <2>7
    <3>2. ((i # "nil") = (j # "nil")) <=> i = j
      BY <2>3
    <3> QED BY <2>4, <3>1, <3>2 DEF Answer
  <2> QED BY <2>6, <2>7
<1> QED BY <1>1, <1>2

\* equals and the host's map tell the same keys apart where the host's map is used.
LEMMA KeyTold ==
  ASSUME NEW T \in Types, UsesBuiltinMap(T), NEW x \in Vals[T], NEW y \in Vals[T]
  PROVE  x.tag # "agg" /\ Equals(T, x, y) = Answer(SameScalar(x, y))
<1>1. ~IsInterface(T) /\ ~IsAggregate(T) /\ TagOf(T) \in {"int", "float", "pointer"}
  BY DEF UsesBuiltinMap, IsInterface, IsAggregate, TagOf
<1>2. x.tag = TagOf(T)
  BY <1>1, ValsIs, ScalarIs
<1>3. PICK q : q = <<MaxDepth, T, x, y>>
  OBVIOUS
<1>4. q \in Pairs /\ q[3] = x /\ q[4] = y
  BY <1>3, ValsIs, InPairs
<1>5. Comparison[q] = Answer(SameScalar(x, y))
  BY <1>1, <1>2, <1>4, ComparisonIs DEF CompareOne
<1> QED BY <1>1, <1>2, <1>3, <1>5 DEF Equals

\* A type assertion tells what the interface holds.
LEMMA AssertTold ==
  ASSUME NEW S \in Types, IsInterface(S), NEW x \in Vals[S], NEW T \in Types,
         NEW commaOk \in BOOLEAN, TypeAssert(S, x, T, commaOk)
  PROVE  AssertTells'
<1> DEFINE ok == x.t # NoType /\ IF IsInterface(T) THEN Implements(x.t, T) ELSE x.t = T
           v == IF ~ok THEN Zero[T] ELSE IF IsInterface(T) THEN x ELSE x.v
           value == IF ok \/ commaOk THEN v ELSE NoValue
<1>1. answer' = [op |-> "assert", type |-> T, x |-> x, ok |-> ok, value |-> value]
  BY DEF TypeAssert
<1>2. answer'.type = T /\ answer'.x = x /\ answer'.ok = ok /\ answer'.value = value
  BY <1>1
<1>3. x = NilIface \/ Holds(MaxDepth, S, x)
  BY ValsIs, HeldIs
<1>4. NilIface.t = NoType
  BY DEF NilIface, Dyn
<1>5. CASE ok
  <2>1. Holds(MaxDepth, S, x) /\ value = v
    BY <1>3, <1>4, <1>5
  <2>2. CASE IsInterface(T)
    BY <1>2, <1>5, <2>1, <2>2 DEF AssertTells
  <2>3. CASE ~IsInterface(T)
    <3>1. value = x.v /\ x.t = T
      BY <1>5, <2>1, <2>3
    <3>2. x = Dyn(T, x.v)
      BY <2>1, <3>1 DEF Holds
    <3> QED BY <1>2, <1>5, <2>3, <3>1, <3>2 DEF AssertTells
  <2> QED BY <2>2, <2>3
<1>6. CASE ~ok
  <2>1. ASSUME NEW u \in Vals[T], x # NilIface
        PROVE  x # (IF IsInterface(T) THEN u ELSE Dyn(T, u))
    <3>1. x.t # NoType
      BY <1>3, <2>1 DEF Holds
    <3>2. CASE IsInterface(T)
      <4>1. u = NilIface \/ Holds(MaxDepth, T, u)
        BY <3>2, ValsIs, HeldIs
      <4>2. ~Implements(x.t, T)
        BY <1>6, <3>1, <3>2
      <4> QED BY <1>4, <2>1, <3>2, <4>1, <4>2 DEF Holds
    <3>3. CASE ~IsInterface(T)
      <4>1. x.t # T
        BY <1>6, <3>1, <3>3
      <4>2. Dyn(T, u).t = T
        BY DEF Dyn
      <4> QED BY <3>3, <4>1, <4>2
    <3> QED BY <3>2, <3>3
  <2>2. \A u \in Vals[T] : \/ x # (IF IsInterface(T) THEN u ELSE Dyn(T, u))
                           \/ x = NilIface
    BY <2>1
  <2> HIDE DEF ok, value
  <2> QED BY <1>2, <1>6, <2>2 DEF AssertTells
<1> QED BY <1>5, <1>6

\* The three properties of the last answer.
AnswersRight == EqualsIsGo /\ BuiltinMapAgrees /\ AssertTells

\* No answer, or one of another operation, is right.
LEMMA OtherRight ==
  ASSUME answer'.op \notin {"compare", "key", "assert"}
  PROVE  AnswersRight'
BY DEF AnswersRight, EqualsIsGo, BuiltinMapAgrees, AssertTells

\* An operation answers right.
LEMMA OperationRight ==
  ASSUME NEW T \in Types, Operation(T)
  PROVE  AnswersRight'
<1>1. ASSUME MakeZero(T) PROVE AnswersRight'
  <2>1. answer'.op = "zero"
    BY <1>1 DEF MakeZero
  <2> QED BY <2>1, OtherRight
<1>2. ASSUME NEW x \in Vals[T], NEW y \in Vals[T], Compare(T, x, y) PROVE AnswersRight'
  <2>1. answer' = [op |-> "compare", type |-> T, x |-> x, y |-> y, is |-> EqNil(T, x, y)]
    BY <1>2 DEF Compare
  <2>2. /\ answer'.op = "compare" /\ answer'.type = T /\ answer'.x = x /\ answer'.y = y
        /\ answer'.is = EqNil(T, x, y)
    BY <2>1
  <2>3. EqNil(T, x, y) = GoCompare(T, x, y) \/ DecidedOtherwise(T, x, y)
    BY <1>2, CompareTold DEF Compare
  <2>4. EqualsIsGo'
    BY <2>2, <2>3 DEF EqualsIsGo
  <2> QED BY <2>2, <2>4 DEF AnswersRight, BuiltinMapAgrees, AssertTells
<1>3. ASSUME NEW x \in Vals[T], NEW y \in Vals[T], HostKey(T, x, y) PROVE AnswersRight'
  <2>1. x.tag # "agg" /\ Equals(T, x, y) = Answer(SameScalar(x, y))
    BY <1>3, KeyTold DEF HostKey
  <2>2. answer' = [op |-> "key", type |-> T, x |-> x, y |-> y, is |-> Answer(SameScalar(x, y))]
    BY <1>3, <2>1 DEF HostKey
  <2>3. /\ answer'.op = "key" /\ answer'.type = T /\ answer'.x = x /\ answer'.y = y
        /\ answer'.is = Answer(SameScalar(x, y))
    BY <2>2
  <2>4. BuiltinMapAgrees'
    BY <2>1, <2>3 DEF BuiltinMapAgrees
  <2> QED BY <2>3, <2>4 DEF AnswersRight, EqualsIsGo, AssertTells
<1>4. ASSUME NEW x \in Vals[T], NEW S \in Types, NEW commaOk \in BOOLEAN,
             TypeAssert(T, x, S, commaOk)
      PROVE  AnswersRight'
  <2>1. answer'.op = "assert" /\ IsInterface(T)
    BY <1>4 DEF TypeAssert
  <2>2. AssertTells'
    BY <1>4, <2>1, AssertTold
  <2> QED BY <2>1, <2>2 DEF AnswersRight, EqualsIsGo, BuiltinMapAgrees
<1> QED BY <1>1, <1>2, <1>3, <1>4 DEF Operation

\* The last answer is right at first and after every step.
LEMMA AnswersStep ==
  /\ Init => AnswersRight
  /\ AnswersRight /\ [Next]_vars => AnswersRight'
<1>1. NoAnswer.op \notin {"compare", "key", "assert"}
  BY DEF NoAnswer
<1>2. ASSUME Init PROVE AnswersRight
  BY <1>1, <1>2 DEF Init, AnswersRight, EqualsIsGo, BuiltinMapAgrees, AssertTells
<1>3. ASSUME AnswersRight, UNCHANGED answer PROVE AnswersRight'
  BY <1>3 DEF AnswersRight, EqualsIsGo, BuiltinMapAgrees, AssertTells
<1>4. ASSUME AnswersRight, Next PROVE AnswersRight'
  <2>1. CASE Quiet /\ \E T \in Types : Operation(T)
    BY <2>1, OperationRight
  <2>2. CASE UseAnswer
    BY <1>1, <2>2, OtherRight DEF UseAnswer
  <2>3. ASSUME NEW th \in Threads, NEW T \in Types, NEW x \in Vals[T], BeginHash(th, T, x)
        PROVE  AnswersRight'
    BY <1>3, <1>4, <2>3 DEF BeginHash
  <2>4. ASSUME NEW th \in Threads, LockMu(th) \/ HashStep(th) \/ EndHash(th) PROVE AnswersRight'
    <3>1. UNCHANGED answer
      BY <2>4 DEF LockMu, HashStep, UnlockMu, PanicInHasher, PanicUnhashable, ReturnHash, EndHash
    <3> QED BY <1>3, <1>4, <3>1
  <2> QED BY <1>4, <2>1, <2>2, <2>3, <2>4 DEF Next
<1>5. ASSUME AnswersRight, UNCHANGED vars PROVE AnswersRight'
  BY <1>3, <1>5 DEF vars
<1> QED BY <1>2, <1>4, <1>5

\* The interpreter compares two values of a type, or one to nil, as Go does, however they
\* are nested, unless what decides for Go is in an embedded field or is a struct or array
\* in an interface that cannot be compared, or a nil func is to the left of a closure
\* (value.go, equals; ops.go, eqnil).
THEOREM ComparesAsGo == Spec => []EqualsIsGo
<1>1. AnswersRight => EqualsIsGo
  BY DEF AnswersRight
<1> QED BY <1>1, AnswersStep, PTL DEF Spec

\* Where usesBuiltinMap has the host's map used, that map finds a key exactly where equals
\* does (value.go, usesBuiltinMap).
THEOREM HostMapFinds == Spec => []BuiltinMapAgrees
<1>1. AnswersRight => BuiltinMapAgrees
  BY DEF AnswersRight
<1> QED BY <1>1, AnswersStep, PTL DEF Spec

\* A type assertion succeeds exactly if the interface holds a value of the asserted type,
\* or that implements it, and gives that back (ops.go, typeAssert).
THEOREM AssertsWhatIsHeld == Spec => []AssertTells
<1>1. AnswersRight => AssertTells
  BY DEF AnswersRight
<1> QED BY <1>1, AnswersStep, PTL DEF Spec

-----------------------------------------------------------------------------
\* Hashing in threads ----------------------------------------------------------------------

\* A key with its nesting, and whether its hash meets what stops it.
KeyOf(k) == <<MaxDepth, k.type, k.value>>
Stops(k) == Meets(StepsOf[KeyOf(k)], BadSteps)

\* Key k, the steps t still to come and the hash h of a thread fit together: what is left
\* to do stops the hash exactly if the key does, until it has.
Fits(k, t, h) ==
  \/ k = NoKey /\ t = <<>> /\ h = Unset
  \/ /\ k # NoKey
     /\ k.type \in Types /\ k.value \in Vals[k.type]
     /\ t \in Seq(StepSet)
     /\ \/ h = Unset /\ (Meets(t, BadSteps) <=> Stops(k))
        \/ h = Panicked /\ t = <<>> /\ Stops(k)
        \/ h = Hashed(HashOf[KeyOf(k)]) /\ t = <<>> /\ ~Stops(k)

ThreadsFit ==
  /\ key = [th \in Threads |-> key[th]]
  /\ todo = [th \in Threads |-> todo[th]]
  /\ hash = [th \in Threads |-> hash[th]]
  /\ \A th \in Threads : Fits(key[th], todo[th], hash[th])
  /\ \A th \in inside : th \in Threads /\ todo[th] # <<>> /\ Head(todo[th]) # Unhashable

\* The three ways a hash stands differ.
LEMMA HashesDiffer ==
  /\ Unset # Panicked
  /\ \A n : Hashed(n) # Unset /\ Hashed(n) # Panicked
  /\ Unset.is # "hashed" /\ Panicked.is # "hashed"
BY DEF Unset, Panicked, Hashed

\* A thread that has a step to do has a key, and no hash.
LEMMA FitsToDo ==
  ASSUME NEW k, NEW t, NEW h, Fits(k, t, h), t # <<>>
  PROVE  /\ k # NoKey /\ k.type \in Types /\ k.value \in Vals[k.type]
         /\ t \in Seq(StepSet)
         /\ h = Unset /\ (Meets(t, BadSteps) <=> Stops(k))
BY DEF Fits

\* A sequence has its head or has it in its tail.
LEMMA HeadOrTail ==
  ASSUME NEW S, NEW t \in Seq(S), t # <<>>, NEW B
  PROVE  /\ Tail(t) \in Seq(S)
         /\ Meets(t, B) <=> Head(t) \in B \/ Meets(Tail(t), B)
<1>1. PICK u, e : u = Tail(t) /\ e = Head(t)
  OBVIOUS
<1>2. u \in Seq(S) /\ e \in S /\ Len(u) = Len(t) - 1 /\ Len(t) \in Nat /\ Len(t) > 0
      /\ e = t[1] /\ \A i \in 1 .. Len(u) : u[i] = t[i + 1]
  BY <1>1
<1>3. DOMAIN t = 1 .. Len(t) /\ DOMAIN u = 1 .. Len(u)
  BY <1>2, LenProperties
<1>4. ASSUME NEW i \in DOMAIN t PROVE t[i] = e \/ \E j \in DOMAIN u : t[i] = u[j]
  <2>1. CASE i = 1
    BY <1>2, <2>1
  <2>2. CASE i # 1
    <3>1. PICK j : j = i - 1
      OBVIOUS
    <3>2. j \in 1 .. Len(u) /\ j + 1 = i
      BY <1>2, <1>3, <2>2, <3>1
    <3> QED BY <1>2, <1>3, <3>2
  <2> QED BY <2>1, <2>2
<1>5. 1 \in DOMAIN t /\ \A j \in DOMAIN u : j + 1 \in DOMAIN t /\ u[j] = t[j + 1]
  BY <1>2, <1>3
<1> QED BY <1>1, <1>2, <1>4, <1>5 DEF Meets

\* The steps of a key.
LEMMA KeyTyped ==
  ASSUME NEW T \in Types, NEW x \in Vals[T]
  PROVE  /\ <<MaxDepth, T, x>> \in Typed
         /\ StepsOf[<<MaxDepth, T, x>>] \in Seq(StepSet)
<1>1. <<MaxDepth, T, x>> \in Typed
  BY ValsIs, InTyped
<1> QED BY <1>1, AllTold DEF Told

\* A step of one thread leaves the others as they are.
LEMMA OneChanges ==
  ASSUME NEW th \in Threads, NEW k, NEW t, NEW h, ThreadsFit, Fits(k, t, h),
         key' = [key EXCEPT ![th] = k], todo' = [todo EXCEPT ![th] = t],
         hash' = [hash EXCEPT ![th] = h],
         inside' \subseteq inside \cup {th},
         th \in inside' => t # <<>> /\ Head(t) # Unhashable
  PROVE  ThreadsFit'
<1>1. /\ key = [o \in Threads |-> key[o]]
      /\ todo = [o \in Threads |-> todo[o]]
      /\ hash = [o \in Threads |-> hash[o]]
      /\ \A o \in Threads : Fits(key[o], todo[o], hash[o])
      /\ \A o \in inside : o \in Threads /\ todo[o] # <<>> /\ Head(todo[o]) # Unhashable
  BY DEF ThreadsFit
<1>2. /\ key' = [o \in Threads |-> key'[o]]
      /\ todo' = [o \in Threads |-> todo'[o]]
      /\ hash' = [o \in Threads |-> hash'[o]]
  BY <1>1
<1>3. key'[th] = k /\ todo'[th] = t /\ hash'[th] = h
  BY <1>1
<1>4. \A o \in Threads : o # th => key'[o] = key[o] /\ todo'[o] = todo[o] /\ hash'[o] = hash[o]
  BY <1>1
<1>5. ASSUME NEW o \in Threads PROVE Fits(key'[o], todo'[o], hash'[o])
  BY <1>1, <1>3, <1>4
<1>6. ASSUME NEW o \in inside' PROVE o \in Threads /\ todo'[o] # <<>> /\ Head(todo'[o]) # Unhashable
  BY <1>1, <1>3, <1>4
<1> QED BY <1>2, <1>5, <1>6 DEF ThreadsFit

\* What a thread has, as it is.
LEMMA AsItIs ==
  ASSUME ThreadsFit, NEW th \in Threads
  PROVE  /\ key = [key EXCEPT ![th] = key[th]]
         /\ todo = [todo EXCEPT ![th] = todo[th]]
         /\ hash = [hash EXCEPT ![th] = hash[th]]
         /\ Fits(key[th], todo[th], hash[th])
<1>1. /\ key = [o \in Threads |-> key[o]]
      /\ todo = [o \in Threads |-> todo[o]]
      /\ hash = [o \in Threads |-> hash[o]]
      /\ \A o \in Threads : Fits(key[o], todo[o], hash[o])
  BY DEF ThreadsFit
<1> QED BY <1>1

\* The first step of a thread is the one it makes in the hasher.
LEMMA FirstStep ==
  ASSUME ThreadsFit, NEW th \in Threads, todo[th] # <<>>
  PROVE  /\ key[th] # NoKey /\ key[th].type \in Types /\ key[th].value \in Vals[key[th].type]
         /\ todo[th] \in Seq(StepSet) /\ Tail(todo[th]) \in Seq(StepSet)
         /\ hash[th] = Unset
         /\ Stops(key[th]) <=> Head(todo[th]) \in BadSteps \/ Meets(Tail(todo[th]), BadSteps)
<1>1. PICK k, t, h : k = key[th] /\ t = todo[th] /\ h = hash[th]
  OBVIOUS
<1>2. Fits(k, t, h) /\ t # <<>>
  BY <1>1, AsItIs
<1>3. /\ k # NoKey /\ k.type \in Types /\ k.value \in Vals[k.type]
      /\ t \in Seq(StepSet)
      /\ h = Unset /\ (Meets(t, BadSteps) <=> Stops(k))
  BY <1>2, FitsToDo
<1>4. /\ Tail(t) \in Seq(StepSet)
     /\ Meets(t, BadSteps) <=> Head(t) \in BadSteps \/ Meets(Tail(t), BadSteps)
  BY <1>2, <1>3, HeadOrTail
<1> QED BY <1>1, <1>3, <1>4

\* A thread begins with all the steps of its key.
LEMMA BeginFits ==
  ASSUME ThreadsFit, NEW th \in Threads, NEW T \in Types, NEW x \in Vals[T], BeginHash(th, T, x)
  PROVE  ThreadsFit'
<1>1. PICK k, t : k = [type |-> T, value |-> x] /\ t = StepsOf[<<MaxDepth, T, x>>]
  OBVIOUS
<1>2. k.type = T /\ k.value = x /\ k # NoKey
  BY <1>1, TypesAssumption DEF NoKey
<1>3. t \in Seq(StepSet) /\ (Meets(t, BadSteps) <=> Stops(k))
  BY <1>1, <1>2, KeyTyped DEF Stops, KeyOf
<1>4. todo[th] = <<>> /\ hash[th] = Unset
  BY AsItIs DEF BeginHash, Fits
<1>5. Fits(k, t, Unset)
  BY <1>2, <1>3 DEF Fits
<1>6. th \notin inside
  BY <1>4 DEF ThreadsFit
<1>7. /\ key' = [key EXCEPT ![th] = k] /\ todo' = [todo EXCEPT ![th] = t]
      /\ hash' = [hash EXCEPT ![th] = Unset] /\ inside' = inside
  BY <1>1, <1>4, AsItIs DEF BeginHash
<1> QED BY <1>5, <1>6, <1>7, OneChanges

\* A thread goes into the hasher.
LEMMA LockFits ==
  ASSUME ThreadsFit, NEW th \in Threads, LockMu(th)
  PROVE  ThreadsFit'
<1>1. PICK k, t, h : k = key[th] /\ t = todo[th] /\ h = hash[th]
  OBVIOUS
<1>2. /\ key' = [key EXCEPT ![th] = k] /\ todo' = [todo EXCEPT ![th] = t]
      /\ hash' = [hash EXCEPT ![th] = h] /\ Fits(k, t, h)
  BY <1>1, AsItIs DEF LockMu
<1>3. t # <<>> /\ Head(t) # Unhashable /\ inside' = inside \cup {th}
  BY <1>1 DEF LockMu
<1> QED BY <1>2, <1>3, OneChanges

\* A thread comes out of the hasher with the hash of a type.
LEMMA UnlockFits ==
  ASSUME ThreadsFit, NEW th \in Threads, UnlockMu(th)
  PROVE  ThreadsFit'
<1>1. th \in inside /\ Head(todo[th]) # NoType /\ Head(todo[th]) # Unhashable /\ todo[th] # <<>>
  BY DEF UnlockMu, ThreadsFit
<1>2. PICK k, t, h : k = key[th] /\ t = Tail(todo[th]) /\ h = hash[th]
  OBVIOUS
<1>3. Head(todo[th]) \notin BadSteps
  BY <1>1 DEF BadSteps
<1>4. Fits(k, t, h)
  BY <1>1, <1>2, <1>3, FirstStep DEF Fits
<1>5. /\ key' = [key EXCEPT ![th] = k] /\ todo' = [todo EXCEPT ![th] = t]
      /\ hash' = [hash EXCEPT ![th] = h] /\ inside' = inside \ {th}
  BY <1>2, AsItIs DEF UnlockMu
<1> QED BY <1>4, <1>5, OneChanges

\* The hash panics at a nil interface, in the hasher, or at a value that it cannot hash.
LEMMA PanicFits ==
  ASSUME ThreadsFit, NEW th \in Threads, PanicInHasher(th) \/ PanicUnhashable(th)
  PROVE  ThreadsFit'
<1>1. todo[th] # <<>> /\ Head(todo[th]) \in BadSteps
  BY DEF PanicInHasher, PanicUnhashable, ThreadsFit, BadSteps
<1>2. PICK k : k = key[th]
  OBVIOUS
<1>3. <<>> \in Seq(StepSet)
  BY EmptySeq
<1>4. Fits(k, <<>>, Panicked)
  BY <1>1, <1>2, <1>3, FirstStep DEF Fits
<1>5. /\ key' = [key EXCEPT ![th] = k] /\ todo' = [todo EXCEPT ![th] = <<>>]
      /\ hash' = [hash EXCEPT ![th] = Panicked]
  BY <1>2, AsItIs DEF PanicInHasher, PanicUnhashable
<1>6. inside' \subseteq inside /\ th \notin inside'
  <2>1. CASE PanicInHasher(th)
    BY <2>1 DEF PanicInHasher
  <2>2. CASE PanicUnhashable(th)
    BY <2>2 DEF PanicUnhashable, ThreadsFit
  <2> QED BY <2>1, <2>2
<1> QED BY <1>4, <1>5, <1>6, OneChanges

\* The hash returns once no step is left.
LEMMA ReturnFits ==
  ASSUME ThreadsFit, NEW th \in Threads, ReturnHash(th)
  PROVE  ThreadsFit'
<1>1. PICK k, t : k = key[th] /\ t = todo[th]
  OBVIOUS
<1>2. k # NoKey /\ t = <<>> /\ hash[th] = Unset
  BY <1>1 DEF ReturnHash
<1>3. Fits(k, t, Unset)
  BY <1>1, <1>2, AsItIs
<1>4. /\ k.type \in Types /\ k.value \in Vals[k.type] /\ t \in Seq(StepSet)
      /\ Meets(t, BadSteps) <=> Stops(k)
  BY <1>2, <1>3, HashesDiffer DEF Fits
<1>5. PICK h : h = Hashed(HashOf[KeyOf(k)])
  OBVIOUS
<1>6. Fits(k, t, h)
  BY <1>2, <1>4, <1>5, OneMeets DEF Fits
<1>7. /\ key' = [key EXCEPT ![th] = k] /\ todo' = [todo EXCEPT ![th] = t]
      /\ hash' = [hash EXCEPT ![th] = h] /\ inside' = inside
  BY <1>1, <1>5, AsItIs DEF ReturnHash, KeyOf
<1>8. th \notin inside
  BY <1>1, <1>2 DEF ThreadsFit
<1> QED BY <1>6, <1>7, <1>8, OneChanges

\* The thread is done with the hash.
LEMMA EndFits ==
  ASSUME ThreadsFit, NEW th \in Threads, EndHash(th)
  PROVE  ThreadsFit'
<1>1. PICK t : t = todo[th]
  OBVIOUS
<1>2. t = <<>>
  BY <1>1, FirstStep DEF EndHash
<1>3. Fits(NoKey, t, Unset)
  BY <1>2 DEF Fits
<1>4. /\ key' = [key EXCEPT ![th] = NoKey] /\ todo' = [todo EXCEPT ![th] = t]
      /\ hash' = [hash EXCEPT ![th] = Unset] /\ inside' = inside
  BY <1>1, AsItIs DEF EndHash
<1>5. th \notin inside
  BY <1>1, <1>2 DEF ThreadsFit
<1> QED BY <1>3, <1>4, <1>5, OneChanges

\* The threads' keys, steps and hashes fit together at first and after every step.
LEMMA ThreadsStep ==
  /\ Init => ThreadsFit
  /\ ThreadsFit /\ [Next]_vars => ThreadsFit'
<1>1. ASSUME Init PROVE ThreadsFit
  BY <1>1 DEF Init, ThreadsFit, Fits
<1>2. ASSUME ThreadsFit, UNCHANGED hashVars PROVE ThreadsFit'
  BY <1>2 DEF ThreadsFit, hashVars
<1>3. ASSUME ThreadsFit, Next PROVE ThreadsFit'
  <2>1. CASE Quiet /\ \E T \in Types : Operation(T)
    <3>1. UNCHANGED hashVars
      BY <2>1 DEF Operation, MakeZero, Compare, HostKey, TypeAssert
    <3> QED BY <1>2, <1>3, <3>1
  <2>2. CASE UseAnswer
    BY <1>2, <1>3, <2>2 DEF UseAnswer
  <2>3. ASSUME NEW th \in Threads, NEW T \in Types, NEW x \in Vals[T], BeginHash(th, T, x)
        PROVE  ThreadsFit'
    BY <1>3, <2>3, BeginFits
  <2>4. ASSUME NEW th \in Threads, LockMu(th) \/ HashStep(th) \/ EndHash(th) PROVE ThreadsFit'
    BY <1>3, <2>4, LockFits, UnlockFits, PanicFits, ReturnFits, EndFits DEF HashStep
  <2> QED BY <1>3, <2>1, <2>2, <2>3, <2>4 DEF Next
<1>4. ASSUME ThreadsFit, UNCHANGED vars PROVE ThreadsFit'
  BY <1>2, <1>4 DEF vars, hashVars
<1> QED BY <1>1, <1>3, <1>4

\* A thread that has a hash has it of its key, and panicked exactly if the key stops a hash.
LEMMA HashedFits ==
  ASSUME ThreadsFit, NEW th \in Threads, hash[th] # Unset
  PROVE  /\ key[th].type \in Types /\ key[th].value \in Vals[key[th].type]
         /\ hash[th] = Panicked <=> Stops(key[th])
         /\ hash[th].is = "hashed" => hash[th] = Hashed(HashOf[KeyOf(key[th])])
<1>1. PICK k, t, h : k = key[th] /\ t = todo[th] /\ h = hash[th]
  OBVIOUS
<1>2. Fits(k, t, h) /\ h # Unset
  BY <1>1, AsItIs
<1>3. /\ k.type \in Types /\ k.value \in Vals[k.type]
      /\ \/ h = Panicked /\ Stops(k)
         \/ h = Hashed(HashOf[KeyOf(k)]) /\ ~Stops(k)
  BY <1>2 DEF Fits
<1> QED BY <1>1, <1>3, HashesDiffer

\* A key stops a hash exactly if it has a bad atom.
LEMMA StopsTold ==
  ASSUME NEW T \in Types, NEW x \in Vals[T]
  PROVE  LET q == <<MaxDepth, T, x>>
         IN Meets(StepsOf[q], BadSteps) <=> \E a \in ToSet(Atoms[q]) : BadAtom(a)
<1>1. PICK q : q = <<MaxDepth, T, x>>
  OBVIOUS
<1>2. Told(q)
  BY <1>1, KeyTyped, AllTold
<1>3. PICK s : s = Atoms[q]
  OBVIOUS
<1>4. s \in Seq(AtomSet) /\ (Meets(StepsOf[q], BadSteps) <=> Meets(s, BadAtoms))
  BY <1>2, <1>3 DEF Told
<1>5. \A i \in DOMAIN s : s[i] \in AtomSet
  BY <1>4, LenProperties, ElementOfSeq
<1>6. Meets(s, BadAtoms) <=> \E a \in ToSet(s) : BadAtom(a)
  <2>1. ToSet(s) = {s[i] : i \in DOMAIN s}
    BY DEF ToSet
  <2>2. Meets(s, BadAtoms) <=> \E i \in DOMAIN s : s[i] \in BadAtoms
    BY DEF Meets
  <2>3. \A i \in DOMAIN s : s[i] \in BadAtoms <=> BadAtom(s[i])
    BY <1>5 DEF BadAtoms, BadAtom
  <2>4. ASSUME NEW i \in DOMAIN s, s[i] \in BadAtoms PROVE \E a \in ToSet(s) : BadAtom(a)
    BY <2>1, <2>3, <2>4
  <2>5. ASSUME NEW a \in ToSet(s), BadAtom(a) PROVE \E i \in DOMAIN s : s[i] \in BadAtoms
    <3>1. PICK i \in DOMAIN s : a = s[i]
      BY <2>1
    <3> QED BY <2>3, <2>5, <3>1
  <2> QED BY <2>2, <2>4, <2>5
<1> QED BY <1>1, <1>3, <1>4, <1>6

\* What fits together agrees.
LEMMA FitsAgrees == ThreadsFit => HashAgrees
<1> SUFFICES ASSUME ThreadsFit PROVE HashAgrees
  OBVIOUS
<1>1. ASSUME NEW th \in Threads, hash[th] # Unset
      PROVE  LET atoms == ToSet(Atoms[<<MaxDepth, key[th].type, key[th].value>>])
             IN (hash[th] = Panicked) <=>
                  \E a \in atoms :
                    /\ ~a.embedded
                    /\ \/ a.scalar.tag \in {"func", "slice", "map", "hashmap"}
                       \/ a.scalar = NoValue /\ a.type = NoType
  <2>1. PICK T, x : T = key[th].type /\ x = key[th].value
    OBVIOUS
  <2>2. T \in Types /\ x \in Vals[T] /\ (hash[th] = Panicked <=> Stops(key[th]))
    BY <1>1, <2>1, HashedFits
  <2>3. PICK q : q = <<MaxDepth, T, x>>
    OBVIOUS
  <2>4. Meets(StepsOf[q], BadSteps) <=> \E a \in ToSet(Atoms[q]) : BadAtom(a)
    BY <2>2, <2>3, StopsTold
  <2>5. Stops(key[th]) <=> Meets(StepsOf[q], BadSteps)
    BY <2>1, <2>3 DEF Stops, KeyOf
  <2>6. PICK A : A = ToSet(Atoms[q])
    OBVIOUS
  <2>7. hash[th] = Panicked <=> \E a \in A : BadAtom(a)
    BY <2>2, <2>4, <2>5, <2>6
  <2>8. hash[th] = Panicked <=>
         \E a \in A :
           /\ ~a.embedded
           /\ \/ a.scalar.tag \in {"func", "slice", "map", "hashmap"}
              \/ a.scalar = NoValue /\ a.type = NoType
    BY <2>7 DEF BadAtom
  <2> QED BY <2>1, <2>3, <2>6, <2>8
<1>2. ASSUME NEW th \in Threads, NEW other \in Threads,
             hash[th].is = "hashed", hash[other].is = "hashed",
             key[th].type = key[other].type,
             Equals(key[th].type, key[th].value, key[other].value) = "equal"
      PROVE  hash[th] = hash[other]
  <2>1. PICK T, x, y : T = key[th].type /\ x = key[th].value /\ y = key[other].value
    OBVIOUS
  <2>2. hash[th] # Unset /\ hash[other] # Unset
    BY <1>2, HashesDiffer
  <2>3. T \in Types /\ x \in Vals[T] /\ hash[th] = Hashed(HashOf[KeyOf(key[th])])
    BY <1>2, <2>1, <2>2, HashedFits
  <2>4. y \in Vals[T] /\ hash[other] = Hashed(HashOf[KeyOf(key[other])])
    BY <1>2, <2>1, <2>2, HashedFits
  <2>5. PICK q : q = <<MaxDepth, T, x, y>>
    OBVIOUS
  <2>6. q \in Pairs
    BY <2>3, <2>4, <2>5, ValsIs, InPairs
  <2>7. Left(q) = KeyOf(key[th]) /\ Right(q) = KeyOf(key[other])
    BY <1>2, <2>1, <2>5 DEF Left, Right, KeyOf
  <2>8. Comparison[q] = "equal"
    BY <1>2, <2>1, <2>5 DEF Equals
  <2>9. HashOf[Left(q)] = HashOf[Right(q)]
    BY <2>6, <2>8, AllCompared DEF Compared
  <2> QED BY <2>3, <2>4, <2>7, <2>9
<1> QED BY <1>1, <1>2 DEF HashAgrees

\* Keys that equals takes for equal hash alike, in whichever threads and after whatever other
\* hashes, and the hash of a key panics exactly if the key holds, not in an embedded field,
\* a nil interface or a func, slice or map (value.go, hash and hashType).
THEOREM EqualKeysHashAlike == Spec => []HashAgrees
<1>1. Init => ThreadsFit
  BY ThreadsStep
<1>2. ThreadsFit /\ [Next]_vars => ThreadsFit'
  BY ThreadsStep
<1> QED BY <1>1, <1>2, FitsAgrees, PTL DEF Spec
\* The hasher is under one lock: at most one thread is in it, the lock is held while one is,
\* and once a thread has panicked there it is held for good, with no thread inside.
HasherGuarded ==
  /\ locked <=> inside # {} \/ nilHashed
  /\ \A a, b \in inside : a = b
  /\ nilHashed => inside = {}

\* The memo table of the hasher, which is shared by all interpreters of the process, is never
\* used by two at once; and a nil interface that one of them hashes leaves it locked for
\* all others from then on (value.go, hashType).
THEOREM HasherIsShared == Spec => []HasherGuarded
<1>1. ASSUME Init PROVE HasherGuarded
  BY <1>1 DEF Init, HasherGuarded
<1>2. ASSUME HasherGuarded, UNCHANGED <<locked, inside, nilHashed>> PROVE HasherGuarded'
  BY <1>2 DEF HasherGuarded
<1>3. ASSUME HasherGuarded, Next PROVE HasherGuarded'
  <2>1. CASE Quiet /\ \E T \in Types : Operation(T)
    BY <1>2, <1>3, <2>1 DEF Operation, MakeZero, Compare, HostKey, TypeAssert, hashVars
  <2>2. CASE UseAnswer
    BY <1>2, <1>3, <2>2 DEF UseAnswer, hashVars
  <2>3. ASSUME NEW th \in Threads, NEW T \in Types, NEW x \in Vals[T], BeginHash(th, T, x)
        PROVE  HasherGuarded'
    BY <1>2, <1>3, <2>3 DEF BeginHash
  <2>4. ASSUME NEW th \in Threads, PanicUnhashable(th) \/ ReturnHash(th) \/ EndHash(th)
        PROVE  HasherGuarded'
    BY <1>2, <1>3, <2>4 DEF PanicUnhashable, ReturnHash, EndHash
  <2>5. ASSUME NEW th \in Threads, LockMu(th) PROVE HasherGuarded'
    BY <1>3, <2>5 DEF HasherGuarded, LockMu
  <2>6. ASSUME NEW th \in Threads, UnlockMu(th) PROVE HasherGuarded'
    BY <1>3, <2>6 DEF HasherGuarded, UnlockMu
  <2>7. ASSUME NEW th \in Threads, PanicInHasher(th) PROVE HasherGuarded'
    BY <1>3, <2>7 DEF HasherGuarded, PanicInHasher
  <2> QED BY <1>3, <2>1, <2>2, <2>3, <2>4, <2>5, <2>6, <2>7 DEF Next, HashStep
<1>4. ASSUME HasherGuarded, UNCHANGED vars PROVE HasherGuarded'
  BY <1>2, <1>4 DEF vars, hashVars
<1> QED BY <1>1, <1>3, <1>4, PTL DEF Spec

-----------------------------------------------------------------------------
\* Powers of two ------------------------------------------------------------------

\* g doubles from 1 on, up to n.
Doubles(g, n) == g = [k \in 0 .. n |-> IF k = 0 THEN 1 ELSE 2 * g[k - 1]]

\* Up to every n something does.
LEMMA DoublesUpTo ==
  ASSUME NEW n \in Nat
  PROVE  \E g : Doubles(g, n)
<1> DEFINE Bad == {k \in Nat : ~\E g : Doubles(g, k)}
<1> SUFFICES ASSUME Bad # {} PROVE FALSE
  OBVIOUS
<1>1. PICK k \in Bad : \A j \in Bad : k <= j
  BY LeastOne
<1>2. k \in Nat /\ ~\E g : Doubles(g, k)
  BY <1>1
<1>3. CASE k = 0
  <2>1. PICK g : g = [j \in 0 .. 0 |-> 1]
    OBVIOUS
  <2>2. g = [j \in 0 .. 0 |-> IF j = 0 THEN 1 ELSE 2 * g[j - 1]]
    BY <2>1
  <2> QED BY <1>2, <1>3, <2>2 DEF Doubles
<1>4. CASE k # 0
  <2>1. k - 1 \in Nat /\ k - 1 \notin Bad
    BY <1>1, <1>4
  <2>2. PICK g : Doubles(g, k - 1)
    BY <2>1
  <2>3. \A j \in 0 .. k - 1 : g[j] = IF j = 0 THEN 1 ELSE 2 * g[j - 1]
    BY <2>2 DEF Doubles
  <2>4. PICK h : h = [j \in 0 .. k |-> IF j < k THEN g[j] ELSE 2 * g[k - 1]]
    OBVIOUS
  <2>5. ASSUME NEW j \in 0 .. k PROVE h[j] = IF j = 0 THEN 1 ELSE 2 * h[j - 1]
    <3>1. CASE j < k
      <4>1. j \in 0 .. k - 1 /\ (j # 0 => j - 1 \in 0 .. k /\ j - 1 < k)
        BY <3>1, <1>2
      <4> QED BY <4>1, <3>1, <2>3, <2>4
    <3>2. CASE ~(j < k)
      <4>1. j = k /\ k - 1 \in 0 .. k /\ k - 1 < k
        BY <3>2, <1>2, <1>4
      <4>2. h[k - 1] = g[k - 1] /\ h[j] = 2 * g[k - 1]
        BY <4>1, <3>2, <2>4
      <4> QED BY <4>1, <4>2, <1>4
    <3> QED BY <3>1, <3>2
  <2>6. h = [j \in 0 .. k |-> h[j]]
    BY <2>4
  <2>7. Doubles(h, k)
    BY <2>5, <2>6 DEF Doubles
  <2> QED BY <2>7, <1>2
<1> QED BY <1>3, <1>4

\* There is one way to.
LEMMA DoublesAlike ==
  ASSUME NEW n \in Nat, NEW m \in Nat, NEW g, NEW h, Doubles(g, n), Doubles(h, m)
  PROVE  \A k \in 0 .. n : k <= m => g[k] = h[k]
<1> DEFINE Bad == {k \in 0 .. n : k <= m /\ g[k] # h[k]}
<1> SUFFICES ASSUME Bad # {} PROVE FALSE
  OBVIOUS
<1>1. PICK k \in Bad : \A j \in Bad : k <= j
  <2>1. Bad \in SUBSET Nat
    OBVIOUS
  <2> HIDE DEF Bad
  <2> QED BY <2>1, LeastOne
<1>2. k \in 0 .. n /\ k \in 0 .. m /\ g[k] # h[k]
  BY <1>1
<1>3. \A j \in 0 .. n : g[j] = IF j = 0 THEN 1 ELSE 2 * g[j - 1]
  BY DEF Doubles
<1>4. \A j \in 0 .. m : h[j] = IF j = 0 THEN 1 ELSE 2 * h[j - 1]
  BY DEF Doubles
<1>5. k # 0
  BY <1>2, <1>3, <1>4
<1>6. k - 1 \in 0 .. n /\ k - 1 <= m /\ k - 1 \notin Bad
  BY <1>1, <1>2, <1>5
<1>7. g[k - 1] = h[k - 1]
  BY <1>6
<1> QED BY <1>2, <1>3, <1>4, <1>5, <1>7

\* Pow2 does.
LEMMA Pow2Is ==
  ASSUME NEW n \in Nat
  PROVE  Pow2[n] = IF n = 0 THEN 1 ELSE 2 * Pow2[n - 1]
<1> DEFINE Body(g) == [k \in Nat |-> IF k = 0 THEN 1 ELSE 2 * g[k - 1]]
           To(k) == CHOOSE g : Doubles(g, k)
           all == [k \in Nat |-> To(k)[k]]
<1>1. \A k \in Nat : Doubles(To(k), k)
  BY DoublesUpTo
<1>2. ASSUME NEW k \in Nat PROVE all[k] = IF k = 0 THEN 1 ELSE 2 * all[k - 1]
  <2>1. PICK g : g = To(k)
    OBVIOUS
  <2>2. Doubles(g, k) /\ all[k] = g[k]
    BY <1>1, <2>1
  <2>3. k \in 0 .. k /\ g[k] = IF k = 0 THEN 1 ELSE 2 * g[k - 1]
    BY <2>2 DEF Doubles
  <2>4. CASE k = 0
    BY <2>2, <2>3, <2>4
  <2>5. CASE k # 0
    <3>1. k - 1 \in Nat /\ k - 1 \in 0 .. k - 1 /\ k - 1 <= k
      BY <2>5
    <3>2. PICK h : h = To(k - 1)
      OBVIOUS
    <3>3. Doubles(h, k - 1) /\ all[k - 1] = h[k - 1]
      BY <1>1, <3>1, <3>2
    <3>4. h[k - 1] = g[k - 1]
      BY <3>1, <3>3, <2>2, DoublesAlike
    <3> QED BY <2>2, <2>3, <2>5, <3>3, <3>4
  <2> QED BY <2>4, <2>5
<1>3. all = [k \in Nat |-> all[k]]
  OBVIOUS
<1> HIDE DEF all
<1>4. all = Body(all)
  BY <1>2, <1>3
<1> HIDE DEF Body
<1>5. Pow2 = CHOOSE g : g = Body(g)
  BY DEF Pow2, Body
<1>6. Pow2 = Body(Pow2)
  BY <1>4, <1>5
<1> QED BY <1>6 DEF Body

\* Every power is a number from 1 on; the next one is twice as large.
LEMMA Pow2Step ==
  /\ Pow2[0] = 1
  /\ \A n \in Nat : Pow2[n] \in Nat /\ Pow2[n] # 0 /\ Pow2[n + 1] = 2 * Pow2[n]
<1>1. Pow2[0] = 1
  BY Pow2Is
<1>2. ASSUME NEW n \in Nat PROVE Pow2[n + 1] = 2 * Pow2[n]
  BY Pow2Is
<1> DEFINE Bad == {n \in Nat : ~(Pow2[n] \in Nat /\ Pow2[n] # 0)}
<1>3. ASSUME Bad # {} PROVE FALSE
  <2>1. PICK k \in Bad : \A j \in Bad : k <= j
    BY <1>3, LeastOne
  <2>2. k # 0
    BY <1>1, <2>1
  <2>3. k - 1 \in Nat /\ k - 1 \notin Bad
    BY <2>1, <2>2
  <2>4. Pow2[k - 1] \in Nat /\ Pow2[k - 1] # 0
    BY <2>3
  <2>5. Pow2[k] = 2 * Pow2[k - 1]
    BY <2>2, Pow2Is
  <2> QED BY <2>1, <2>4, <2>5
<1> QED BY <1>1, <1>2, <1>3

\* Powers multiply.
LEMMA Pow2Add ==
  ASSUME NEW a \in Nat, NEW b \in Nat
  PROVE  Pow2[a + b] = Pow2[a] * Pow2[b]
<1> DEFINE Bad == {k \in Nat : Pow2[a + k] # Pow2[a] * Pow2[k]}
<1> SUFFICES ASSUME Bad # {} PROVE FALSE
  OBVIOUS
<1>1. PICK k \in Bad : \A j \in Bad : k <= j
  BY LeastOne
<1>2. PICK A : A = Pow2[a]
  OBVIOUS
<1>3. A \in Nat /\ Pow2[0] = 1 /\ a + 0 = a
  BY <1>2, Pow2Step
<1>4. k # 0
  BY <1>1, <1>2, <1>3
<1>5. k - 1 \in Nat /\ k - 1 \notin Bad /\ a + (k - 1) \in Nat /\ a + (k - 1) + 1 = a + k /\ (k - 1) + 1 = k
  BY <1>1, <1>4
<1>6. PICK B : B = Pow2[k - 1]
  OBVIOUS
<1>7. Pow2[a + (k - 1)] = A * B /\ B \in Nat
  BY <1>2, <1>5, <1>6, Pow2Step
<1>8. Pow2[a + k] = 2 * (A * B) /\ Pow2[k] = 2 * B
  BY <1>5, <1>6, <1>7, Pow2Step
<1>9. 2 * (A * B) = A * (2 * B)
  BY <1>3, <1>7
<1> QED BY <1>1, <1>2, <1>8, <1>9

\* A larger power is a multiple of a smaller one, twice as much or more.
LEMMA Pow2Parts ==
  ASSUME NEW a \in Nat, NEW b \in Nat, a < b
  PROVE  \E c \in Nat : c # 0 /\ Pow2[b] = Pow2[a] * (2 * c)
<1>1. b - a - 1 \in Nat /\ a + (b - a) = b /\ b - a \in Nat /\ (b - a - 1) + 1 = b - a
  OBVIOUS
<1>2. PICK c : c = Pow2[b - a - 1]
  OBVIOUS
<1>3. c \in Nat /\ c # 0 /\ Pow2[b - a] = 2 * c
  BY <1>1, <1>2, Pow2Step
<1>4. Pow2[b] = Pow2[a] * Pow2[b - a]
  BY <1>1, Pow2Add
<1> QED BY <1>3, <1>4

\* Powers grow.
LEMMA Pow2Grows ==
  ASSUME NEW a \in Nat, NEW b \in Nat, a <= b
  PROVE  Pow2[a] <= Pow2[b]
<1>1. CASE a = b
  BY <1>1, Pow2Step
<1>2. CASE a # b
  <2>0. a < b
    BY <1>2
  <2>1. PICK c \in Nat : c # 0 /\ Pow2[b] = Pow2[a] * (2 * c)
    BY <2>0, Pow2Parts
  <2>2. PICK A : A = Pow2[a]
    OBVIOUS
  <2>3. A \in Nat
    BY <2>2, Pow2Step
  <2>4. A * (2 * c) >= A
    BY <2>1, <2>3
  <2> QED BY <2>1, <2>2, <2>4
<1> QED BY <1>1, <1>2

-----------------------------------------------------------------------------
\* Division -------------------------------------------------------------------------

\* What a quotient and a remainder are.
LEMMA DivMod ==
  ASSUME NEW n \in Int, NEW m \in Nat, m # 0
  PROVE  \E q \in Int, r \in Nat : n \div m = q /\ n % m = r /\ r < m /\ n = m * q + r
<1>1. PICK q : q = n \div m
  OBVIOUS
<1>2. PICK r : r = n % m
  OBVIOUS
<1>3. n = m * q + r
  BY <1>1, <1>2
<1>4. q \in Int /\ r \in Nat /\ r < m
  BY <1>1, <1>2
<1> QED BY <1>1, <1>2, <1>3, <1>4

\* There is one way to divide.
LEMMA DivIs ==
  ASSUME NEW n \in Int, NEW m \in Nat, m # 0, NEW q \in Int, NEW r \in Nat, r < m, n = m * q + r
  PROVE  n \div m = q /\ n % m = r
<1>1. PICK u \in Int, v \in Nat : n \div m = u /\ n % m = v /\ v < m /\ n = m * u + v
  BY DivMod
<1>2. m * (q - u) = v - r
  BY <1>1
<1>3. q - u = 0
  <2>1. CASE q - u >= 1
    <3>1. m * (q - u) >= m
      BY <2>1
    <3> QED BY <3>1, <1>1, <1>2
  <2>2. CASE q - u <= -1
    <3>1. m * (q - u) <= -m
      BY <2>2
    <3> QED BY <3>1, <1>1, <1>2
  <2> QED BY <2>1, <2>2
<1> QED BY <1>1, <1>3

\* Multiples do not change the remainder.
LEMMA DivShift ==
  ASSUME NEW n \in Int, NEW m \in Nat, m # 0, NEW k \in Int
  PROVE  (n + m * k) \div m = n \div m + k /\ (n + m * k) % m = n % m
<1>1. PICK q \in Int, r \in Nat : n \div m = q /\ n % m = r /\ r < m /\ n = m * q + r
  BY DivMod
<1>2. PICK p : p = n + m * k
  OBVIOUS
<1>3. p \in Int /\ p = m * (q + k) + r /\ q + k \in Int
  BY <1>1, <1>2
<1>4. p \div m = q + k /\ p % m = r
  BY <1>1, <1>3, DivIs
<1> QED BY <1>1, <1>2, <1>4

\* Numbers whose difference is a multiple.
LEMMA NoRemainder ==
  ASSUME NEW n \in Int, NEW m \in Nat, m # 0, NEW k \in Int, n = m * k
  PROVE  n % m = 0
<1>1. n = m * k + 0
  OBVIOUS
<1> QED BY <1>1, DivIs

-----------------------------------------------------------------------------
\* Types and words ------------------------------------------------------------------

\* The numbers of a type are as many as its modulus, from its least on.
LEMMA IntTypeIs ==
  ASSUME NEW T \in IntTypes
  PROVE  /\ T.bits \in Nat /\ T.bits # 0 /\ T.bits <= IntBits /\ IntBits \in Nat
         /\ Pow2[T.bits - 1] \in Nat /\ Pow2[T.bits - 1] # 0
         /\ Modulus(T) = 2 * Pow2[T.bits - 1] /\ Modulus(T) \in Nat /\ Modulus(T) # 0
         /\ Least(T) = (IF T.signed THEN -Pow2[T.bits - 1] ELSE 0) /\ Least(T) \in Int
         /\ Int64 \in IntTypes /\ Uint64 \in IntTypes
<1>1. T.bits \in Widths /\ IntBits \in Widths
  BY ArithAssumption DEF IntTypes
<1>2. T.bits \in Nat /\ T.bits # 0 /\ T.bits <= IntBits /\ IntBits \in Nat
  BY <1>1, ArithAssumption
<1>3. T.bits - 1 \in Nat /\ (T.bits - 1) + 1 = T.bits
  BY <1>2
<1>4. /\ Pow2[T.bits - 1] \in Nat /\ Pow2[T.bits - 1] # 0
      /\ Pow2[T.bits] = 2 * Pow2[T.bits - 1]
  BY <1>3, Pow2Step
<1> QED BY <1>1, <1>2, <1>4 DEF Modulus, Least, IntTypes, Int64, Uint64

\* A wrapped number is one of the type, and off by a multiple of the modulus.
LEMMA WrapIs ==
  ASSUME NEW T \in IntTypes, NEW n \in Int
  PROVE  /\ Wrap(T, n) \in InRange(T) /\ Wrap(T, n) \in Int
         /\ \E k \in Int : Wrap(T, n) = n + Modulus(T) * k
<1>1. PICK m : m = Modulus(T)
  OBVIOUS
<1>2. PICK l : l = Least(T)
  OBVIOUS
<1>3. m \in Nat /\ m # 0 /\ l \in Int /\ n - l \in Int
  BY <1>1, <1>2, IntTypeIs
<1>4. PICK q \in Int, r \in Nat : (n - l) \div m = q /\ (n - l) % m = r /\ r < m /\ n - l = m * q + r
  BY <1>3, DivMod
<1>5. Wrap(T, n) = l + r /\ InRange(T) = l .. l + m - 1
  BY <1>1, <1>2, <1>4 DEF Wrap, InRange
<1>6. l + r = n + m * (-q) /\ -q \in Int /\ l + r \in l .. l + m - 1
  BY <1>3, <1>4
<1> QED BY <1>1, <1>5, <1>6

\* A number of the type is kept.
LEMMA WrapSame ==
  ASSUME NEW T \in IntTypes, NEW n \in InRange(T)
  PROVE  Wrap(T, n) = n /\ n \in Int
<1>1. PICK m : m = Modulus(T)
  OBVIOUS
<1>2. PICK l : l = Least(T)
  OBVIOUS
<1>3. m \in Nat /\ m # 0 /\ l \in Int /\ n \in l .. l + m - 1
  BY <1>1, <1>2, IntTypeIs DEF InRange
<1>4. n \in Int /\ n - l \in Nat /\ n - l < m /\ n - l = m * 0 + (n - l)
  BY <1>3
<1>5. PICK d : d = n - l
  OBVIOUS
<1>6. d % m = d
  BY <1>3, <1>4, <1>5, DivIs
<1> QED BY <1>1, <1>2, <1>3, <1>4, <1>5, <1>6 DEF Wrap

\* Wrapping does not change a number modulo the modulus.
LEMMA WrapCongruent ==
  ASSUME NEW T \in IntTypes, NEW n \in Int
  PROVE  Congruent(T, Wrap(T, n), n)
<1>1. PICK k \in Int : Wrap(T, n) = n + Modulus(T) * k
  BY WrapIs
<1>2. PICK m : m = Modulus(T)
  OBVIOUS
<1>3. PICK d : d = Wrap(T, n) - n
  OBVIOUS
<1>4. m \in Nat /\ m # 0 /\ d \in Int /\ d = m * k
  BY <1>1, <1>2, <1>3, IntTypeIs
<1>5. d % m = 0
  BY <1>4, NoRemainder
<1> QED BY <1>2, <1>3, <1>5 DEF Congruent

\* A bit is 0 or 1.
LEMMA BitType ==
  ASSUME NEW n \in Int, NEW i \in Nat
  PROVE  Bit(n, i) \in {0, 1}
<1>1. PICK A : A = Pow2[i]
  OBVIOUS
<1>2. A \in Nat /\ A # 0
  BY <1>1, Pow2Step
<1>3. PICK q \in Int, r \in Nat : n \div A = q /\ n % A = r /\ r < A /\ n = A * q + r
  BY <1>2, DivMod
<1>4. PICK u \in Int, v \in Nat : q \div 2 = u /\ q % 2 = v /\ v < 2 /\ q = 2 * u + v
  BY DivMod
<1> QED BY <1>1, <1>3, <1>4 DEF Bit

\* A multiple of a power does not change the bits below.
LEMMA BitShift ==
  ASSUME NEW n \in Int, NEW k \in Int, NEW w \in Nat, NEW i \in Nat, i < w
  PROVE  Bit(n + Pow2[w] * k, i) = Bit(n, i)
<1>1. PICK A : A = Pow2[i]
  OBVIOUS
<1>2. PICK c \in Nat : c # 0 /\ Pow2[w] = Pow2[i] * (2 * c)
  BY Pow2Parts
<1>3. A \in Nat /\ A # 0
  BY <1>1, Pow2Step
<1>4. PICK j : j = c * k
  OBVIOUS
<1>5. j \in Int /\ 2 * j \in Int /\ Pow2[w] * k = A * (2 * j)
  <2>1. (A * (2 * c)) * k = A * (2 * (c * k))
    BY <1>2, <1>3
  <2> QED BY <1>1, <1>2, <1>4, <2>1
<1>6. PICK e : e = 2 * j
  OBVIOUS
<1>7. (n + A * e) \div A = n \div A + e
  BY <1>3, <1>5, <1>6, DivShift
<1>8. PICK q \in Int, r \in Nat : n \div A = q /\ n % A = r /\ r < A /\ n = A * q + r
  BY <1>3, DivMod
<1>9. (q + 2 * j) % 2 = q % 2
  BY <1>5, DivShift
<1> QED BY <1>1, <1>5, <1>6, <1>7, <1>8, <1>9 DEF Bit

\* A bit that is the number divided.
LEMMA TopBit ==
  ASSUME NEW i \in Nat, NEW s \in Nat, s < Pow2[i], NEW e \in {0, 1}
  PROVE  Bit(s + Pow2[i] * e, i) = e
<1>1. PICK A : A = Pow2[i]
  OBVIOUS
<1>2. PICK n : n = s + A * e
  OBVIOUS
<1>3. A \in Nat /\ A # 0 /\ n \in Int /\ n = A * e + s /\ s < A /\ e \in Int
  BY <1>1, <1>2, Pow2Step
<1>4. n \div A = e
  BY <1>3, DivIs
<1>5. e % 2 = e
  OBVIOUS
<1> QED BY <1>1, <1>2, <1>4, <1>5 DEF Bit

-----------------------------------------------------------------------------
\* Words from their bits ---------------------------------------------------------------

\* g adds up the powers at S, up to n.
Sums(g, S, n) ==
  g = [k \in 0 .. n |-> IF k = 0 THEN 0 ELSE g[k - 1] + IF k - 1 \in S THEN Pow2[k - 1] ELSE 0]

\* Up to every n something does.
LEMMA SumsUpTo ==
  ASSUME NEW S, NEW n \in Nat
  PROVE  \E g : Sums(g, S, n)
<1> DEFINE Bad == {k \in Nat : ~\E g : Sums(g, S, k)}
<1> SUFFICES ASSUME Bad # {} PROVE FALSE
  OBVIOUS
<1>1. PICK k \in Bad : \A j \in Bad : k <= j
  BY LeastOne
<1>2. k \in Nat /\ ~\E g : Sums(g, S, k)
  BY <1>1
<1>3. CASE k = 0
  <2>1. PICK g : g = [j \in 0 .. 0 |-> 0]
    OBVIOUS
  <2>2. g = [j \in 0 .. 0 |-> IF j = 0 THEN 0 ELSE g[j - 1] + IF j - 1 \in S THEN Pow2[j - 1] ELSE 0]
    BY <2>1
  <2> QED BY <1>2, <1>3, <2>2 DEF Sums
<1>4. CASE k # 0
  <2>1. k - 1 \in Nat /\ k - 1 \notin Bad
    BY <1>1, <1>4
  <2>2. PICK g : Sums(g, S, k - 1)
    BY <2>1
  <2> DEFINE add(j) == IF j - 1 \in S THEN Pow2[j - 1] ELSE 0
  <2>3. \A j \in 0 .. k - 1 : g[j] = IF j = 0 THEN 0 ELSE g[j - 1] + add(j)
    BY <2>2 DEF Sums
  <2>4. PICK h : h = [j \in 0 .. k |-> IF j < k THEN g[j] ELSE g[k - 1] + add(k)]
    OBVIOUS
  <2> HIDE DEF add
  <2>5. ASSUME NEW j \in 0 .. k PROVE h[j] = IF j = 0 THEN 0 ELSE h[j - 1] + add(j)
    <3>1. CASE j < k
      <4>1. j \in 0 .. k - 1 /\ (j # 0 => j - 1 \in 0 .. k /\ j - 1 < k)
        BY <3>1, <1>2
      <4> QED BY <4>1, <3>1, <2>3, <2>4
    <3>2. CASE ~(j < k)
      <4>1. j = k /\ k - 1 \in 0 .. k /\ k - 1 < k
        BY <3>2, <1>2, <1>4
      <4>2. h[k - 1] = g[k - 1] /\ h[j] = g[k - 1] + add(k)
        BY <4>1, <3>2, <2>4
      <4> QED BY <4>1, <4>2, <1>4
    <3> QED BY <3>1, <3>2
  <2>6. h = [j \in 0 .. k |-> h[j]]
    BY <2>4
  <2>7. h = [j \in 0 .. k |-> IF j = 0 THEN 0 ELSE h[j - 1] + add(j)]
    BY <2>5, <2>6
  <2>8. Sums(h, S, k)
    BY <2>7 DEF Sums, add
  <2> QED BY <2>8, <1>2
<1> QED BY <1>3, <1>4

\* g's sums are words of that many bits, with the bits at S.
HasBits(s, S, n) ==
  /\ s \in Nat /\ s < Pow2[n]
  /\ \A i \in 0 .. n - 1 : Bit(s, i) = 1 <=> i \in S

\* Adding the next power sets the next bit.
LEMMA SumsHaveBits ==
  ASSUME NEW S, NEW w \in Nat, NEW g, Sums(g, S, w)
  PROVE  \A n \in 0 .. w : HasBits(g[n], S, n)
<1> DEFINE Bad == {n \in 0 .. w : ~HasBits(g[n], S, n)}
<1> SUFFICES ASSUME Bad # {} PROVE FALSE
  OBVIOUS
<1>1. PICK k \in Bad : \A j \in Bad : k <= j
  <2>1. Bad \in SUBSET Nat
    OBVIOUS
  <2> HIDE DEF Bad
  <2> QED BY <2>1, LeastOne
<1>2. k \in 0 .. w /\ ~HasBits(g[k], S, k)
  BY <1>1
<1>3. \A n \in 0 .. w : g[n] = IF n = 0 THEN 0 ELSE g[n - 1] + IF n - 1 \in S THEN Pow2[n - 1] ELSE 0
  BY DEF Sums
<1>4. k # 0
  <2>1. ASSUME k = 0 PROVE HasBits(g[k], S, k)
    <3>1. g[k] = 0 /\ Pow2[k] = 1 /\ 0 .. k - 1 = {}
      BY <2>1, <1>2, <1>3, Pow2Step
    <3> QED BY <3>1 DEF HasBits
  <2> QED BY <2>1, <1>2
<1>5. PICK n : n = k - 1
  OBVIOUS
<1>6. n \in Nat /\ n \in 0 .. w /\ ~(k <= n) /\ n + 1 = k
  BY <1>2, <1>4, <1>5
<1>7. HasBits(g[n], S, n)
  BY <1>1, <1>6
<1>8. PICK s : s = g[n]
  OBVIOUS
<1>9. PICK e : e = IF n \in S THEN 1 ELSE 0
  OBVIOUS
<1>10. PICK A : A = Pow2[n]
  OBVIOUS
<1>11. /\ A \in Nat /\ A # 0 /\ Pow2[k] = 2 * A /\ s \in Nat /\ s < A /\ e \in {0, 1}
  BY <1>6, <1>7, <1>8, <1>9, <1>10, Pow2Step DEF HasBits
<1>12. g[k] = s + A * e
  <2>1. g[k] = s + IF n \in S THEN A ELSE 0
    BY <1>2, <1>3, <1>4, <1>5, <1>8, <1>10
  <2>2. (IF n \in S THEN A ELSE 0) = A * e
    BY <1>9, <1>11
  <2> QED BY <2>1, <2>2
<1>13. g[k] \in Nat /\ g[k] < Pow2[k]
  <2>1. A * e <= A /\ A * e \in Nat
    BY <1>11
  <2> QED BY <2>1, <1>11, <1>12
<1>14. ASSUME NEW i \in 0 .. k - 1 PROVE Bit(g[k], i) = 1 <=> i \in S
  <2>1. CASE i = n
    <3>1. Bit(s + A * e, n) = e
      BY <1>6, <1>10, <1>11, TopBit
    <3> QED BY <2>1, <3>1, <1>9, <1>12
  <2>2. CASE i # n
    <3>1. i \in 0 .. n - 1 /\ i < n /\ i \in Nat
      BY <2>2, <1>5, <1>6
    <3>2. Bit(s + A * e, i) = Bit(s, i)
      <4>1. s \in Int /\ e \in Int
        BY <1>11
      <4> QED BY <4>1, <3>1, <1>6, <1>10, BitShift
    <3> QED BY <3>1, <3>2, <1>7, <1>8, <1>12 DEF HasBits
  <2> QED BY <2>1, <2>2
<1>15. HasBits(g[k], S, k)
  BY <1>13, <1>14 DEF HasBits
<1> QED BY <1>2, <1>15

\* Word has the bits it is made of.
LEMMA WordIs ==
  ASSUME NEW T \in IntTypes, NEW S
  PROVE  HasBits(Word(T, S), S, T.bits)
<1>1. PICK w : w = T.bits
  OBVIOUS
<1>2. w \in Nat /\ w \in 0 .. w
  BY <1>1, IntTypeIs
<1> DEFINE sum == CHOOSE g : Sums(g, S, w)
<1>3. Word(T, S) = sum[w]
  BY <1>1 DEF Word, Sums
<1>4. Sums(sum, S, w)
  BY <1>2, SumsUpTo
<1> HIDE DEF sum
<1>5. HasBits(sum[w], S, w)
  BY <1>2, <1>4, SumsHaveBits
<1> QED BY <1>1, <1>3, <1>5

\* Wrapping keeps the bits.
LEMMA WrapBits ==
  ASSUME NEW T \in IntTypes, NEW n \in Int, NEW i \in 0 .. T.bits - 1
  PROVE  Bit(Wrap(T, n), i) = Bit(n, i)
<1>1. PICK k \in Int : Wrap(T, n) = n + Modulus(T) * k
  BY WrapIs
<1>2. PICK w : w = T.bits
  OBVIOUS
<1>3. w \in Nat /\ i \in Nat /\ i < w
  BY <1>2, IntTypeIs
<1>4. Bit(n + Pow2[w] * k, i) = Bit(n, i)
  BY <1>3, BitShift
<1> QED BY <1>1, <1>2, <1>4 DEF Modulus

\* The ones of a word are those of the number.
LEMMA OnesIs ==
  ASSUME NEW T \in IntTypes, NEW n \in Int, NEW i \in 0 .. T.bits - 1
  PROVE  i \in Ones(T, n) <=> Bit(n, i) = 1
<1>1. PICK w : w = T.bits
  OBVIOUS
<1>2. PICK m : m = Pow2[w]
  OBVIOUS
<1>3. w \in Nat /\ i \in Nat /\ i < w /\ m \in Nat /\ m # 0
  BY <1>1, <1>2, IntTypeIs, Pow2Step
<1>4. PICK q \in Int, r \in Nat : n \div m = q /\ n % m = r /\ r < m /\ n = m * q + r
  BY <1>3, DivMod
<1>5. r = n + m * (-q) /\ -q \in Int
  BY <1>3, <1>4
<1>6. PICK k : k = -q
  OBVIOUS
<1>7. Bit(n + m * k, i) = Bit(n, i)
  BY <1>2, <1>3, <1>5, <1>6, BitShift
<1>8. Pattern(T, n) = r
  BY <1>1, <1>2, <1>4 DEF Pattern, Modulus
<1> QED BY <1>5, <1>6, <1>7, <1>8 DEF Ones

\* A word of a set of bits, wrapped, has them.
LEMMA BitsIs ==
  ASSUME NEW T \in IntTypes, NEW S, NEW i \in 0 .. T.bits - 1
  PROVE  Bit(Wrap(T, Word(T, S)), i) = 1 <=> i \in S
<1>1. PICK n : n = Word(T, S)
  OBVIOUS
<1>2. n \in Int /\ (Bit(n, i) = 1 <=> i \in S)
  BY <1>1, WordIs DEF HasBits
<1>3. Bit(Wrap(T, n), i) = Bit(n, i)
  BY <1>2, WrapBits
<1> QED BY <1>1, <1>2, <1>3

-----------------------------------------------------------------------------
\* The operations ---------------------------------------------------------------------

\* Which numbers a type has.
LEMMA RangeIs ==
  ASSUME NEW T \in IntTypes, NEW n
  PROVE  /\ n \in InRange(T) => n \in Int
         /\ n \in Int => (n \in InRange(T) <=>
              IF T.signed THEN -Pow2[T.bits - 1] <= n /\ n < Pow2[T.bits - 1]
              ELSE 0 <= n /\ n < 2 * Pow2[T.bits - 1])
<1>1. PICK h : h = Pow2[T.bits - 1]
  OBVIOUS
<1>2. PICK l : l = Least(T)
  OBVIOUS
<1>3. h \in Nat /\ h # 0 /\ l = (IF T.signed THEN -h ELSE 0) /\ InRange(T) = l .. l + 2 * h - 1 /\ l \in Int
  BY <1>1, <1>2, IntTypeIs DEF InRange
<1>4. n \in InRange(T) <=> n \in Int /\ l <= n /\ n <= l + 2 * h - 1
  BY <1>3
<1>5. CASE T.signed
  BY <1>1, <1>3, <1>4, <1>5
<1>6. CASE ~T.signed
  BY <1>1, <1>3, <1>4, <1>6
<1> QED BY <1>5, <1>6

\* A number between a number of the type and 0 is one of the type.
LEMMA Between ==
  ASSUME NEW T \in IntTypes, NEW x \in InRange(T), NEW n \in Int,
         \/ 0 <= n /\ n <= x
         \/ x <= n /\ n <= 0
  PROVE  n \in InRange(T)
<1>1. PICK h : h = Pow2[T.bits - 1]
  OBVIOUS
<1>2. h \in Nat /\ h # 0 /\ x \in Int
  BY <1>1, IntTypeIs, RangeIs
<1>3. /\ IF T.signed THEN -h <= x /\ x < h ELSE 0 <= x /\ x < 2 * h
      /\ (IF T.signed THEN -h <= n /\ n < h ELSE 0 <= n /\ n < 2 * h) => n \in InRange(T)
  BY <1>1, <1>2, RangeIs
<1>4. CASE T.signed
  BY <1>2, <1>3, <1>4
<1>5. CASE ~T.signed
  BY <1>2, <1>3, <1>5
<1> QED BY <1>4, <1>5

\* Sums, differences, products.
LEMMA ExactOps ==
  ASSUME NEW T \in IntTypes, NEW x \in InRange(T), NEW y \in InRange(T), NEW op \in {"ADD", "SUB", "MUL"}
  PROVE  GoResult(op, T, x, y, BinOp(op, T, x, y)) /\ BinOp(op, T, x, y) \in InRange(T)
<1>1. x \in Int /\ y \in Int
  BY RangeIs
<1>2. PICK n : n = IF op = "ADD" THEN x + y ELSE IF op = "SUB" THEN x - y ELSE x * y
  OBVIOUS
<1>3. n \in Int
  BY <1>1, <1>2
<1>4. BinOp(op, T, x, y) = Wrap(T, n)
  BY <1>2 DEF BinOp
<1>5. Wrap(T, n) \in InRange(T) /\ Congruent(T, Wrap(T, n), n)
  BY <1>3, WrapIs, WrapCongruent
<1> QED BY <1>2, <1>4, <1>5 DEF GoResult

\* Quotient and remainder of the magnitudes, with their signs.
LEMMA QuoRem ==
  ASSUME NEW x \in Int, NEW y \in Int, y # 0
  PROVE  /\ Quo(x, y) \in Int /\ Rem(x, y) \in Int
         /\ x = Quo(x, y) * y + Rem(x, y)
         /\ Magnitude(Rem(x, y)) < Magnitude(y)
         /\ Rem(x, y) # 0 => (Rem(x, y) < 0) = (x < 0)
         /\ Quo(x, y) \in -Magnitude(x) .. Magnitude(x)
         /\ Rem(x, y) \in -Magnitude(x) .. Magnitude(x)
         /\ IF x < 0 THEN x <= Rem(x, y) /\ Rem(x, y) <= 0 ELSE 0 <= Rem(x, y) /\ Rem(x, y) <= x
<1>1. PICK a : a = Magnitude(x)
  OBVIOUS
<1>2. PICK b : b = Magnitude(y)
  OBVIOUS
<1>3. /\ a \in Nat /\ b \in Nat /\ b # 0 /\ a = (IF x < 0 THEN -x ELSE x) /\ b = (IF y < 0 THEN -y ELSE y)
  BY <1>1, <1>2 DEF Magnitude
<1>4. PICK d \in Int, s \in Nat : a \div b = d /\ a % b = s /\ s < b /\ a = b * d + s
  <2>1. a \in Int /\ b \in Nat /\ b # 0
    BY <1>3
  <2> QED BY ONLY <2>1, DivMod
<1>5. d >= 0
  <2>1. ASSUME d <= -1 PROVE FALSE
    <3>1. b * d <= -b
      BY <2>1, <1>3
    <3> QED BY <3>1, <1>3, <1>4
  <2> QED BY <2>1
<1>6. b * d >= d /\ b * d >= 0
  BY <1>3, <1>5
<1>7. d <= a /\ s <= a
  BY <1>3, <1>4, <1>5, <1>6
<1>8. PICK q : q = Quo(x, y)
  OBVIOUS
<1>9. PICK r : r = Rem(x, y)
  OBVIOUS
<1>10. q = (IF (x < 0) = (y < 0) THEN d ELSE -d) /\ r = (IF x >= 0 THEN s ELSE -s)
  BY <1>1, <1>2, <1>4, <1>8, <1>9 DEF Quo, Rem, Towards
<1>11. x = q * y + r
  <2>1. CASE x >= 0 /\ y > 0
    <3>1. q = d /\ r = s /\ a = x /\ b = y
      BY <2>1, <1>3, <1>10
    <3> QED BY <3>1, <1>4
  <2>2. CASE x >= 0 /\ y < 0
    <3>1. q = -d /\ r = s /\ a = x /\ b = -y
      BY <2>2, <1>3, <1>10
    <3>2. (-y) * d = (-d) * y
      OBVIOUS
    <3> QED BY <3>1, <3>2, <1>4
  <2>3. CASE x < 0 /\ y > 0
    <3>1. q = -d /\ r = -s /\ a = -x /\ b = y
      BY <2>3, <1>3, <1>10
    <3>2. -(y * d) = (-d) * y
      OBVIOUS
    <3>3. x = -(y * d) - s
      BY <3>1, <1>4
    <3> QED BY <3>1, <3>2, <3>3
  <2>4. CASE x < 0 /\ y < 0
    <3>1. q = d /\ r = -s /\ a = -x /\ b = -y
      BY <2>4, <1>3, <1>10
    <3>2. -((-y) * d) = d * y
      OBVIOUS
    <3>3. x = -((-y) * d) - s
      BY <3>1, <1>4
    <3> QED BY <3>1, <3>2, <3>3
  <2> QED BY <2>1, <2>2, <2>3, <2>4
<1>12. q \in Int /\ r \in Int /\ q \in -a .. a /\ r \in -a .. a
  BY <1>3, <1>4, <1>5, <1>7, <1>10
<1>13. Magnitude(r) = s
  BY <1>4, <1>10 DEF Magnitude
<1>14. r # 0 => (r < 0) = (x < 0)
  BY <1>4, <1>10
<1>15. IF x < 0 THEN x <= r /\ r <= 0 ELSE 0 <= r /\ r <= x
  BY <1>3, <1>4, <1>7, <1>10
<1> QED BY <1>1, <1>2, <1>4, <1>8, <1>9, <1>11, <1>12, <1>13, <1>14, <1>15

\* Quotients.
LEMMA QuoOK ==
  ASSUME NEW T \in IntTypes, NEW x \in InRange(T), NEW y \in InRange(T), y # 0
  PROVE  GoResult("QUO", T, x, y, BinOp("QUO", T, x, y)) /\ BinOp("QUO", T, x, y) \in InRange(T)
<1>1. x \in Int /\ y \in Int
  BY RangeIs
<1>2. PICK q : q = Quo(x, y)
  OBVIOUS
<1>3. PICK rem : rem = Rem(x, y)
  OBVIOUS
<1>4. /\ q \in -Magnitude(x) .. Magnitude(x) /\ rem \in -Magnitude(x) .. Magnitude(x) /\ q \in Int
      /\ x = q * y + rem /\ Magnitude(rem) < Magnitude(y)
      /\ rem # 0 => (rem < 0) = (x < 0)
  BY <1>1, <1>2, <1>3, QuoRem
<1>5. BinOp("QUO", T, x, y) = Wrap(T, q)
  BY <1>2 DEF BinOp
<1>6. Wrap(T, q) \in InRange(T) /\ Congruent(T, Wrap(T, q), q)
  BY <1>4, WrapIs, WrapCongruent
<1>7. PICK r : r = Wrap(T, q)
  OBVIOUS
<1>8. GoResult("QUO", T, x, y, r)
  BY <1>4, <1>6, <1>7 DEF GoResult
<1> QED BY <1>5, <1>6, <1>7, <1>8

\* Remainders.
LEMMA RemOK ==
  ASSUME NEW T \in IntTypes, NEW x \in InRange(T), NEW y \in InRange(T), y # 0
  PROVE  GoResult("REM", T, x, y, BinOp("REM", T, x, y)) /\ BinOp("REM", T, x, y) \in InRange(T)
<1>1. x \in Int /\ y \in Int
  BY RangeIs
<1>2. PICK q : q = Quo(x, y)
  OBVIOUS
<1>3. PICK rem : rem = Rem(x, y)
  OBVIOUS
<1>4. /\ q \in -Magnitude(x) .. Magnitude(x) /\ q \in Int /\ rem \in Int
      /\ x = q * y + rem /\ Magnitude(rem) < Magnitude(y)
      /\ rem # 0 => (rem < 0) = (x < 0)
      /\ IF x < 0 THEN x <= rem /\ rem <= 0 ELSE 0 <= rem /\ rem <= x
  BY <1>1, <1>2, <1>3, QuoRem
<1>5. BinOp("REM", T, x, y) = Wrap(T, rem)
  BY <1>3 DEF BinOp
<1>6. rem \in InRange(T)
  <2>1. CASE x < 0
    BY <2>1, <1>4, Between
  <2>2. CASE ~(x < 0)
    BY <2>2, <1>4, Between
  <2> QED BY <2>1, <2>2
<1>7. Wrap(T, rem) = rem
  BY <1>6, WrapSame
<1>8. GoResult("REM", T, x, y, rem)
  BY <1>4 DEF GoResult
<1> QED BY <1>5, <1>6, <1>7, <1>8

\* The bits of the result of a bitwise operation.
BitOps == {"AND", "OR", "XOR", "AND_NOT"}

\* Operations bit by bit.
LEMMA BitOpsOK ==
  ASSUME NEW T \in IntTypes, NEW x \in InRange(T), NEW y \in InRange(T), NEW op \in BitOps
  PROVE  GoResult(op, T, x, y, BinOp(op, T, x, y)) /\ BinOp(op, T, x, y) \in InRange(T)
<1>1. x \in Int /\ y \in Int
  BY RangeIs
<1>2. PICK p : p = Ones(T, x)
  OBVIOUS
<1>3. PICK q : q = Ones(T, y)
  OBVIOUS
<1>4. PICK S : S = IF op = "AND" THEN p \cap q ELSE IF op = "OR" THEN p \cup q
                   ELSE IF op = "XOR" THEN (p \ q) \cup (q \ p) ELSE p \ q
  OBVIOUS
<1>5. BinOp(op, T, x, y) = Wrap(T, Word(T, S))
  BY <1>2, <1>3, <1>4 DEF BinOp, BitOps
<1>6. PICK r : r = BinOp(op, T, x, y)
  OBVIOUS
<1>7. r \in InRange(T)
  <2>1. Word(T, S) \in Int
    BY WordIs DEF HasBits
  <2> QED BY <2>1, <1>5, <1>6, WrapIs
<1>8. ASSUME NEW i \in 0 .. T.bits - 1
      PROVE  (Bit(r, i) = 1) <=> (CASE op = "AND" -> Bit(x, i) = 1 /\ Bit(y, i) = 1
                                    [] op = "OR" -> Bit(x, i) = 1 \/ Bit(y, i) = 1
                                    [] op = "XOR" -> (Bit(x, i) = 1) # (Bit(y, i) = 1)
                                    [] op = "AND_NOT" -> Bit(x, i) = 1 /\ ~(Bit(y, i) = 1)
                                    [] op = "NOT" -> ~(Bit(x, i) = 1))
  <2>1. Bit(r, i) = 1 <=> i \in S
    BY <1>5, <1>6, BitsIs
  <2>2. (i \in p <=> Bit(x, i) = 1) /\ (i \in q <=> Bit(y, i) = 1)
    BY <1>1, <1>2, <1>3, OnesIs
  <2>3. CASE op = "AND"
    BY <2>1, <2>2, <2>3, <1>4
  <2>4. CASE op = "OR"
    BY <2>1, <2>2, <2>4, <1>4
  <2>5. CASE op = "XOR"
    BY <2>1, <2>2, <2>5, <1>4
  <2>6. CASE op = "AND_NOT"
    BY <2>1, <2>2, <2>6, <1>4
  <2> QED BY <2>3, <2>4, <2>5, <2>6 DEF BitOps
<1>9. GoResult(op, T, x, y, r)
  BY <1>8 DEF GoResult, BitOps
<1> QED BY <1>6, <1>7, <1>9

\* The bits of a complement.
LEMMA NotBit ==
  ASSUME NEW x \in Int, NEW i \in Nat
  PROVE  Bit(-x - 1, i) = 1 - Bit(x, i)
<1>1. PICK A : A = Pow2[i]
  OBVIOUS
<1>2. A \in Nat /\ A # 0
  BY <1>1, Pow2Step
<1>3. PICK q \in Int, r \in Nat : x \div A = q /\ x % A = r /\ r < A /\ x = A * q + r
  BY <1>2, DivMod
<1>4. PICK u \in Int, v \in Nat : q \div 2 = u /\ q % 2 = v /\ v < 2 /\ q = 2 * u + v
  BY DivMod
<1>5. PICK n : n = -x - 1
  OBVIOUS
<1>6. PICK e : e = -q - 1
  OBVIOUS
<1>7. n \in Int /\ e \in Int /\ A - 1 - r \in Nat /\ A - 1 - r < A /\ n = A * e + (A - 1 - r)
  <2>1. A * (-q - 1) = -(A * q) - A
    BY <1>2
  <2> QED BY <2>1, <1>2, <1>3, <1>5, <1>6
<1>8. n \div A = e
  <2>1. PICK s : s = A - 1 - r
    OBVIOUS
  <2> QED BY <2>1, <1>2, <1>7, DivIs
<1>9. e % 2 = 1 - v
  <2>1. PICK s : s = 1 - v
    OBVIOUS
  <2>2. PICK k : k = -u - 1
    OBVIOUS
  <2>3. s \in Nat /\ s < 2 /\ k \in Int /\ e = 2 * k + s
    BY <2>1, <2>2, <1>4, <1>6
  <2> QED BY <2>1, <2>3, <1>7, DivIs
<1> QED BY <1>1, <1>3, <1>4, <1>5, <1>8, <1>9 DEF Bit

\* Negation and complement.
LEMMA UnOpsOK ==
  ASSUME NEW T \in IntTypes, NEW x \in InRange(T), NEW op \in {"NEG", "NOT"}, NEW y
  PROVE  GoResult(op, T, x, y, UnOp(op, T, x)) /\ UnOp(op, T, x) \in InRange(T)
<1>1. x \in Int
  BY RangeIs
<1>2. CASE op = "NEG"
  <2>1. PICK r : r = UnOp(op, T, x)
    OBVIOUS
  <2>2. r = Wrap(T, -x) /\ -x \in Int
    BY <1>1, <1>2, <2>1 DEF UnOp
  <2>3. r \in InRange(T) /\ r \in Int /\ Congruent(T, r, -x)
    BY <2>2, WrapIs, WrapCongruent
  <2>4. r - (-x) = r + x - 0
    BY <1>1, <2>3
  <2>5. Congruent(T, r + x, 0)
    BY <2>3, <2>4 DEF Congruent
  <2> QED BY <1>2, <2>1, <2>3, <2>5 DEF GoResult
<1>3. CASE op = "NOT"
  <2>1. PICK r : r = UnOp(op, T, x)
    OBVIOUS
  <2>2. PICK n : n = -x - 1
    OBVIOUS
  <2>3. r = Wrap(T, n) /\ n \in Int
    BY <1>1, <1>3, <2>1, <2>2 DEF UnOp
  <2>4. r \in InRange(T)
    BY <2>3, WrapIs
  <2>5. ASSUME NEW i \in 0 .. T.bits - 1 PROVE Bit(r, i) = 1 <=> ~(Bit(x, i) = 1)
    <3>1. i \in Nat
      BY IntTypeIs
    <3>2. Bit(r, i) = Bit(n, i)
      BY <2>3, WrapBits
    <3>3. Bit(n, i) = 1 - Bit(x, i) /\ Bit(x, i) \in {0, 1}
      BY <1>1, <2>2, <3>1, NotBit, BitType
    <3> QED BY <3>2, <3>3
  <2>6. GoResult(op, T, x, y, r)
    BY <1>3, <2>5 DEF GoResult
  <2> QED BY <2>1, <2>4, <2>6
<1> QED BY <1>2, <1>3

-----------------------------------------------------------------------------
\* Conversions and shifts ---------------------------------------------------------------

\* The widest type of a signedness has the numbers of the others.
LEMMA WidenSame ==
  ASSUME NEW T \in IntTypes, NEW x \in InRange(T)
  PROVE  Widen(T, x) = x
<1>1. PICK W : W = IF T.signed THEN Int64 ELSE Uint64
  OBVIOUS
<1>2. W \in IntTypes /\ W.bits = IntBits /\ W.signed = T.signed
  BY <1>1, IntTypeIs DEF Int64, Uint64, IntTypes
<1>3. T.bits - 1 \in Nat /\ IntBits - 1 \in Nat /\ T.bits - 1 <= IntBits - 1
  BY IntTypeIs
<1>4. Pow2[T.bits - 1] <= Pow2[IntBits - 1]
  <2>1. PICK a : a = T.bits - 1
    OBVIOUS
  <2>2. PICK b : b = IntBits - 1
    OBVIOUS
  <2>3. a \in Nat /\ b \in Nat /\ a <= b
    BY <1>3, <2>1, <2>2
  <2>4. Pow2[a] <= Pow2[b]
    BY ONLY <2>3, Pow2Grows
  <2> QED BY <2>1, <2>2, <2>4
<1>5. PICK g : g = Pow2[T.bits - 1]
  OBVIOUS
<1>6. PICK h : h = Pow2[IntBits - 1]
  OBVIOUS
<1>7. g \in Nat /\ h \in Nat /\ g <= h /\ x \in Int
  BY <1>3, <1>4, <1>5, <1>6, Pow2Step, RangeIs
<1>8. IF T.signed THEN -g <= x /\ x < g ELSE 0 <= x /\ x < 2 * g
  BY <1>5, <1>7, RangeIs
<1>9. x \in InRange(W) <=> IF W.signed THEN -h <= x /\ x < h ELSE 0 <= x /\ x < 2 * h
  BY <1>2, <1>6, <1>7, RangeIs
<1>10. x \in InRange(W)
  BY <1>2, <1>7, <1>8, <1>9
<1>11. Wrap(W, x) = x
  BY <1>2, <1>10, WrapSame
<1> QED BY <1>1, <1>11 DEF Widen

\* A conversion wraps the number.
LEMMA ConvIs ==
  ASSUME NEW D \in IntTypes, NEW S \in IntTypes, NEW x \in InRange(S)
  PROVE  /\ Conv(D, S, x) = Wrap(D, x) /\ Conv(D, S, x) \in InRange(D)
         /\ x \in InRange(D) => Conv(D, S, x) = x
         /\ \A i \in 0 .. D.bits - 1 : Bit(Conv(D, S, x), i) = Bit(x, i)
<1>1. Conv(D, S, x) = Wrap(D, x) /\ x \in Int
  BY WidenSame, RangeIs DEF Conv
<1>2. Wrap(D, x) \in InRange(D)
  BY <1>1, WrapIs
<1>3. x \in InRange(D) => Wrap(D, x) = x
  BY WrapSame
<1>4. ASSUME NEW i \in 0 .. D.bits - 1 PROVE Bit(Wrap(D, x), i) = Bit(x, i)
  BY <1>1, WrapBits
<1> QED BY <1>1, <1>2, <1>3, <1>4

\* A count that is not negative comes to the shift as it is; any count does as a number.
LEMMA CountIs ==
  ASSUME NEW S \in IntTypes, NEW y \in InRange(S)
  PROVE  AsUint64(S, y) \in Nat /\ (y >= 0 => AsUint64(S, y) = y)
<1>1. PICK W : W = Uint64
  OBVIOUS
<1>2. W \in IntTypes /\ W.bits = IntBits /\ ~W.signed
  BY <1>1, IntTypeIs DEF Uint64
<1>3. PICK c : c = Conv(W, S, y)
  OBVIOUS
<1>4. c \in InRange(W) /\ (y \in InRange(W) => c = y)
  BY <1>2, <1>3, ConvIs
<1>5. c \in Nat
  <2>1. c \in Int
    BY <1>2, <1>4, RangeIs
  <2>2. 0 <= c
    BY <1>2, <1>4, <2>1, RangeIs
  <2> QED BY <2>1, <2>2
<1>6. ASSUME y >= 0 PROVE y \in InRange(W)
  <2>1. PICK a : a = S.bits - 1
    OBVIOUS
  <2>2. PICK b : b = IntBits - 1
    OBVIOUS
  <2>3. a \in Nat /\ b \in Nat /\ a <= b
    BY <2>1, <2>2, IntTypeIs
  <2>4. Pow2[a] <= Pow2[b] /\ Pow2[a] \in Nat /\ Pow2[b] \in Nat
    BY ONLY <2>3, Pow2Grows, Pow2Step
  <2>5. y \in Int
    BY RangeIs
  <2>6. y < 2 * Pow2[a]
    <3>1. PICK g : g = Pow2[a]
      OBVIOUS
    <3>2. IF S.signed THEN -g <= y /\ y < g ELSE 0 <= y /\ y < 2 * g
      BY <2>1, <2>5, <3>1, RangeIs
    <3>3. g \in Nat
      BY <2>4, <3>1
    <3>4. y < 2 * g
      BY <3>2, <3>3, <2>5
    <3> QED BY <3>1, <3>4
  <2>7. y < 2 * Pow2[b]
    BY <2>4, <2>5, <2>6
  <2> QED BY <1>2, <1>6, <2>2, <2>5, <2>7, RangeIs
<1> QED BY <1>1, <1>3, <1>4, <1>5, <1>6 DEF AsUint64

\* A number of fewer bits is smaller than the power.
LEMMA BelowPower ==
  ASSUME NEW T \in IntTypes, NEW x \in InRange(T), NEW c \in Nat, T.bits <= c
  PROVE  -Pow2[c] <= x /\ x < Pow2[c]
<1>1. PICK g : g = Pow2[T.bits - 1]
  OBVIOUS
<1>2. g \in Nat /\ T.bits \in Nat /\ Pow2[T.bits] = 2 * g /\ x \in Int
  BY <1>1, IntTypeIs, RangeIs DEF Modulus
<1>3. PICK P : P = Pow2[c]
  OBVIOUS
<1>4. 2 * g <= P /\ P \in Nat
  <2>1. PICK a : a = T.bits
    OBVIOUS
  <2>2. a \in Nat /\ a <= c
    BY <2>1, <1>2
  <2>3. Pow2[a] <= Pow2[c] /\ Pow2[c] \in Nat
    BY ONLY <2>2, Pow2Grows, Pow2Step, c \in Nat
  <2> QED BY <2>1, <2>3, <1>2, <1>3
<1>5. IF T.signed THEN -g <= x /\ x < g ELSE 0 <= x /\ x < 2 * g
  BY <1>1, <1>2, RangeIs
<1>6. -P <= x /\ x < P
  BY <1>2, <1>4, <1>5
<1> QED BY <1>3, <1>6

\* A shift to the right is a division; what it gives is between the number and 0 or -1.
LEMMA Halved ==
  ASSUME NEW x \in Int, NEW P \in Nat, P # 0
  PROVE  /\ x \div P \in Int
         /\ (x \div P) * P <= x /\ x < (x \div P + 1) * P
         /\ IF x < 0 THEN x <= x \div P /\ x \div P <= 0 ELSE 0 <= x \div P /\ x \div P <= x
<1>1. PICK q \in Int, r \in Nat : x \div P = q /\ x % P = r /\ r < P /\ x = P * q + r
  BY DivMod
<1>2. q * P = P * q /\ (q + 1) * P = P * q + P
  OBVIOUS
<1>3. q * P <= x /\ x < (q + 1) * P
  BY <1>1, <1>2
<1>4. CASE x < 0
  <2>1. q <= -1
    <3>1. ASSUME q >= 0 PROVE FALSE
      <4>1. P * q >= 0
        BY <3>1
      <4> QED BY <4>1, <1>1, <1>4
    <3> QED BY <3>1
  <2>2. P * (q + 1) <= q + 1
    BY <2>1
  <2>3. x < q + 1
    BY <2>2, <1>1
  <2>4. x <= q /\ q <= 0
    BY <2>1, <2>3
  <2> QED BY <2>4, <1>1, <1>3, <1>4
<1>5. CASE ~(x < 0)
  <2>1. q >= 0
    <3>1. ASSUME q <= -1 PROVE FALSE
      <4>1. P * q <= -P
        BY <3>1
      <4> QED BY <4>1, <1>1, <1>5
    <3> QED BY <3>1
  <2>2. P * q >= q
    BY <2>1
  <2>3. q <= x
    BY <2>2, <1>1
  <2> QED BY <2>1, <2>3, <1>1, <1>3, <1>5
<1> QED BY <1>4, <1>5

\* A shift has a result of the type.
LEMMA ShiftType ==
  ASSUME NEW T \in IntTypes, NEW x \in InRange(T), NEW op \in {"SHL", "SHR"}, NEW c \in Nat
  PROVE  Shift(op, T, x, c) \in InRange(T)
<1>1. x \in Int /\ Pow2[c] \in Nat /\ Pow2[c] # 0 /\ T.bits \in Nat
  BY RangeIs, Pow2Step, IntTypeIs
<1>2. CASE c >= T.bits
  <2>1. Shift(op, T, x, c) = IF op = "SHR" /\ x < 0 THEN -1 ELSE 0
    BY <1>2 DEF Shift, ShiftCount
  <2>2. 0 \in InRange(T)
    <3>1. 0 <= x \/ x <= 0
      BY <1>1
    <3> QED BY <3>1, Between
  <2>3. x < 0 => -1 \in InRange(T)
    <3>1. ASSUME x < 0 PROVE x <= -1 /\ -1 <= 0 /\ -1 \in Int
      BY <3>1, <1>1
    <3> QED BY <3>1, Between
  <2> QED BY <2>1, <2>2, <2>3
<1>3. CASE ~(c >= T.bits)
  <2>1. PICK n : n = IF op = "SHL" THEN x * Pow2[c] ELSE x \div Pow2[c]
    OBVIOUS
  <2>2. n \in Int
    BY <1>1, <2>1, Halved
  <2>3. Shift(op, T, x, c) = Wrap(T, n)
    BY <1>3, <2>1 DEF Shift, ShiftCount
  <2> QED BY <2>2, <2>3, WrapIs
<1> QED BY <1>2, <1>3

\* Shifts to the left multiply.
LEMMA ShiftLeftOK ==
  ASSUME NEW T \in IntTypes, NEW x \in InRange(T), NEW c \in Nat
  PROVE  Congruent(T, Shift("SHL", T, x, c), x * Pow2[c])
<1>1. x \in Int /\ Pow2[c] \in Nat /\ Pow2[c] # 0 /\ T.bits \in Nat
  BY RangeIs, Pow2Step, IntTypeIs
<1>2. CASE c >= T.bits
  <2>1. Shift("SHL", T, x, c) = 0
    BY <1>2 DEF Shift, ShiftCount
  <2>2. PICK m : m = Modulus(T)
    OBVIOUS
  <2>3. PICK b : b = c - T.bits
    OBVIOUS
  <2>4. PICK a : a = T.bits
    OBVIOUS
  <2>5. a \in Nat /\ b \in Nat /\ a + b = c
    BY <1>1, <1>2, <2>3, <2>4
  <2>6. PICK B : B = Pow2[b]
    OBVIOUS
  <2>7. Pow2[c] = m * B /\ m \in Nat /\ m # 0 /\ B \in Nat
    <3>1. Pow2[a + b] = Pow2[a] * Pow2[b] /\ Pow2[a] \in Nat /\ Pow2[a] # 0 /\ Pow2[b] \in Nat
      BY ONLY <2>5, Pow2Add, Pow2Step
    <3> QED BY <3>1, <2>2, <2>4, <2>5, <2>6 DEF Modulus
  <2>8. PICK d : d = 0 - x * Pow2[c]
    OBVIOUS
  <2>9. PICK k : k = -(x * B)
    OBVIOUS
  <2>10. d \in Int /\ k \in Int /\ d = m * k
    <3>1. x * (m * B) = m * (x * B)
      BY <1>1, <2>7
    <3>2. m * (-(x * B)) = -(m * (x * B))
      BY <1>1, <2>7
    <3> QED BY <3>1, <3>2, <1>1, <2>7, <2>8, <2>9
  <2>11. d % m = 0
    BY ONLY <2>7, <2>10, NoRemainder
  <2> QED BY <2>1, <2>2, <2>8, <2>11 DEF Congruent
<1>3. CASE ~(c >= T.bits)
  <2>1. Shift("SHL", T, x, c) = Wrap(T, x * Pow2[c])
    BY <1>3 DEF Shift, ShiftCount
  <2>2. x * Pow2[c] \in Int
    BY <1>1
  <2> QED BY <2>1, <2>2, WrapCongruent
<1> QED BY <1>2, <1>3

\* Shifts to the right divide.
LEMMA ShiftRightOK ==
  ASSUME NEW T \in IntTypes, NEW x \in InRange(T), NEW c \in Nat
  PROVE  /\ Shift("SHR", T, x, c) * Pow2[c] <= x
         /\ x < (Shift("SHR", T, x, c) + 1) * Pow2[c]
<1>1. PICK P : P = Pow2[c]
  OBVIOUS
<1>2. x \in Int /\ P \in Nat /\ P # 0 /\ T.bits \in Nat
  BY <1>1, RangeIs, Pow2Step, IntTypeIs
<1>3. CASE c >= T.bits
  <2>1. Shift("SHR", T, x, c) = IF x < 0 THEN -1 ELSE 0
    BY <1>3 DEF Shift, ShiftCount
  <2>2. -P <= x /\ x < P
    BY <1>1, <1>2, <1>3, BelowPower
  <2>3. CASE x < 0
    BY <2>1, <2>2, <2>3, <1>1, <1>2
  <2>4. CASE ~(x < 0)
    BY <2>1, <2>2, <2>4, <1>1, <1>2
  <2> QED BY <2>3, <2>4
<1>4. CASE ~(c >= T.bits)
  <2>1. PICK q : q = x \div P
    OBVIOUS
  <2>2. /\ q \in Int /\ q * P <= x /\ x < (q + 1) * P
        /\ IF x < 0 THEN x <= q /\ q <= 0 ELSE 0 <= q /\ q <= x
    BY <1>2, <2>1, Halved
  <2>3. q \in InRange(T)
    BY <2>2, <1>2, Between
  <2>4. Shift("SHR", T, x, c) = q
    <3>1. Wrap(T, q) = q
      BY <2>3, WrapSame
    <3> QED BY <3>1, <1>1, <1>4, <2>1 DEF Shift, ShiftCount
  <2> QED BY <2>2, <2>4, <1>1
<1> QED BY <1>3, <1>4

\* Shifts by counts of any type.
LEMMA ShiftOK ==
  ASSUME NEW T \in IntTypes, NEW x \in InRange(T), NEW op \in {"SHL", "SHR"},
         NEW S \in IntTypes, NEW y \in InRange(S)
  PROVE  /\ GoResult(op, T, x, y, Shift(op, T, x, AsUint64(S, y)))
         /\ Shift(op, T, x, AsUint64(S, y)) \in InRange(T)
<1>1. PICK c : c = AsUint64(S, y)
  OBVIOUS
<1>2. c \in Nat /\ (y >= 0 => c = y) /\ y \in Int
  BY <1>1, CountIs, RangeIs
<1>3. Shift(op, T, x, c) \in InRange(T)
  BY <1>2, ShiftType
<1>4. PICK r : r = Shift(op, T, x, c)
  OBVIOUS
<1>5. CASE op = "SHL"
  <2>1. Congruent(T, r, x * Pow2[c])
    BY <1>2, <1>4, <1>5, ShiftLeftOK
  <2>2. y >= 0 => Congruent(T, r, x * Pow2[y])
    BY <2>1, <1>2
  <2>3. GoResult(op, T, x, y, r)
    BY <2>2, <1>5 DEF GoResult
  <2> QED BY <2>3, <1>1, <1>3, <1>4
<1>6. CASE op = "SHR"
  <2>1. r * Pow2[c] <= x /\ x < (r + 1) * Pow2[c]
    BY <1>2, <1>4, <1>6, ShiftRightOK
  <2>2. y >= 0 => r * Pow2[y] <= x /\ x < (r + 1) * Pow2[y]
    BY <2>1, <1>2
  <2>3. GoResult(op, T, x, y, r)
    BY <2>2, <1>6 DEF GoResult
  <2> QED BY <2>3, <1>1, <1>3, <1>4
<1> QED BY <1>5, <1>6

\* An index that int does not have is refused like any other that is out of range.
LEMMA IndexOK ==
  ASSUME NEW T \in IntTypes, NEW x \in InRange(T), NEW n \in 0 .. MaxLength
  PROVE  AsInt(T, x) \in InRange(Int64) /\ (AsInt(T, x) \notin 0 .. n - 1 <=> x \notin 0 .. n - 1)
<1>1. PICK W : W = Int64
  OBVIOUS
<1>2. W \in IntTypes /\ W.bits = IntBits /\ W.signed
  BY <1>1, IntTypeIs DEF Int64
<1>3. PICK c : c = Conv(W, T, x)
  OBVIOUS
<1>4. c = Wrap(W, x) /\ c \in InRange(W) /\ (x \in InRange(W) => c = x) /\ x \in Int
  BY <1>2, <1>3, ConvIs, RangeIs
<1>5. PICK h : h = Pow2[IntBits - 1]
  OBVIOUS
<1>6. h \in Nat /\ h # 0 /\ Modulus(W) = 2 * h /\ n \in Nat /\ n < h
  <2>1. h \in Nat /\ h # 0 /\ Modulus(W) = 2 * h
    BY <1>2, <1>5, IntTypeIs
  <2> QED BY <2>1, <1>5, ArithAssumption
<1>7. c \in Int /\ -h <= c /\ c < h
  BY <1>2, <1>4, <1>5, RangeIs
<1>8. x \in InRange(W) <=> -h <= x /\ x < h
  BY <1>2, <1>4, <1>5, RangeIs
<1>9. c \notin 0 .. n - 1 <=> x \notin 0 .. n - 1
  <2>1. CASE x \in InRange(W)
    BY <2>1, <1>4
  <2>2. CASE x \notin InRange(W)
    <3>1. x \notin 0 .. n - 1
      BY <2>2, <1>4, <1>6, <1>8
    <3>2. PICK g : g = Pow2[T.bits - 1]
      OBVIOUS
    <3>3. g <= h /\ g \in Nat
      <4>1. PICK a : a = T.bits - 1
        OBVIOUS
      <4>2. PICK b : b = IntBits - 1
        OBVIOUS
      <4>3. a \in Nat /\ b \in Nat /\ a <= b
        BY <4>1, <4>2, IntTypeIs
      <4>4. Pow2[a] <= Pow2[b] /\ Pow2[a] \in Nat
        BY ONLY <4>3, Pow2Grows, Pow2Step
      <4> QED BY <4>1, <4>2, <4>4, <3>2, <1>5
    <3>4. IF T.signed THEN -g <= x /\ x < g ELSE 0 <= x /\ x < 2 * g
      BY <3>2, <1>4, RangeIs
    <3>5. h <= x /\ x < 2 * h
      BY <2>2, <3>3, <3>4, <1>4, <1>6, <1>8
    <3>6. PICK k \in Int : c = x + 2 * h * k
      <4>1. PICK k \in Int : Wrap(W, x) = x + Modulus(W) * k
        BY <1>2, <1>4, WrapIs
      <4> QED BY <4>1, <1>4, <1>6
    <3>7. k <= -1
      <4>1. ASSUME k >= 0 PROVE FALSE
        <5>1. 2 * h * k >= 0
          BY <4>1, <1>6
        <5> QED BY <5>1, <3>5, <3>6, <1>4, <1>6, <1>7
      <4> QED BY <4>1
    <3>8. 2 * h * k <= -(2 * h)
      BY <3>7, <1>6
    <3>9. c < 0
      BY <3>5, <3>6, <3>8, <1>4, <1>6, <1>7
    <3> QED BY <3>1, <3>9
  <2> QED BY <2>1, <2>2
<1> QED BY <1>1, <1>3, <1>4, <1>9 DEF AsInt

-----------------------------------------------------------------------------
\* The machine -----------------------------------------------------------------------------

\* The register holds a number of its type.
ArithTypeOK == type \in IntTypes /\ reg \in InRange(type) /\ trap \in BOOLEAN

ArithInv == ArithTypeOK /\ ArithIsGo /\ ConvIsGo

\* At first it holds 0.
LEMMA ArithInitOK == ArithInit => ArithInv
<1> SUFFICES ASSUME ArithInit PROVE ArithInv
  OBVIOUS
<1>1. PICK T : T = Int64
  OBVIOUS
<1>2. T \in IntTypes /\ T.signed /\ Pow2[T.bits - 1] \in Nat /\ Pow2[T.bits - 1] # 0
  <2>1. Int64 \in IntTypes
    BY ArithAssumption DEF IntTypes, Int64
  <2> QED BY <2>1, <1>1, IntTypeIs DEF Int64
<1>3. 0 \in InRange(T)
  <2>1. PICK h : h = Pow2[T.bits - 1]
    OBVIOUS
  <2>2. -h <= 0 /\ 0 < h
    BY <1>2, <2>1
  <2> QED BY <2>1, <2>2, <1>2, RangeIs
<1>4. ArithTypeOK
  BY <1>1, <1>2, <1>3 DEF ArithInit, ArithTypeOK
<1>5. last.op = "none"
  BY DEF ArithInit, NoInstr
<1> QED BY <1>4, <1>5 DEF ArithInv, ArithIsGo, ConvIsGo, BinOps

\* An operation that went well leaves its result.
LEMMA WentWell ==
  ASSUME NEW op \in BinOps \cup {"SHL", "SHR", "NEG", "NOT"}, NEW x, NEW y, NEW T \in IntTypes, NEW r \in InRange(T),
         type' = T, reg' = r, trap' = FALSE, last'.op = op, last'.x = x, last'.y = y,
         ~(op \in {"QUO", "REM"} /\ y = 0), GoResult(op, T, x, y, r)
  PROVE  ArithInv'
<1>1. ArithTypeOK'
  BY DEF ArithTypeOK
<1>2. op # "CONV" /\ op # "INDEX"
  BY DEF BinOps
<1>3. ConvIsGo'
  BY <1>2 DEF ConvIsGo
<1>4. ArithIsGo'
  BY DEF ArithIsGo
<1> QED BY <1>1, <1>3, <1>4 DEF ArithInv

\* A constant.
LEMMA ConstOK ==
  ASSUME NEW T \in IntTypes, NEW n \in InRange(T), Const(T, n)
  PROVE  ArithInv'
<1>1. ArithTypeOK' /\ last'.op = "none"
  BY DEF Const, ArithTypeOK, NoInstr
<1> QED BY <1>1 DEF ArithInv, ArithIsGo, ConvIsGo, BinOps

\* BinOp but for shifts.
LEMMA BinaryOK ==
  ASSUME ArithInv, NEW op \in BinOps, NEW y \in InRange(type), Binary(op, y)
  PROVE  ArithInv'
<1>1. type \in IntTypes /\ reg \in InRange(type) /\ trap = FALSE
  BY DEF ArithInv, ArithTypeOK, Binary
<1>2. last' = [op |-> op, x |-> reg, y |-> y, from |-> type] /\ type' = type
  BY DEF Binary
<1>3. CASE op \in {"QUO", "REM"} /\ y = 0
  <2>1. trap' = TRUE /\ reg' = reg
    BY <1>3 DEF Binary
  <2>2. ArithTypeOK'
    BY <1>1, <1>2, <2>1 DEF ArithTypeOK
  <2>3. last'.op = op /\ last'.y = y
    BY <1>2
  <2>4. ArithIsGo'
    BY <1>3, <2>1, <2>3 DEF ArithIsGo
  <2>5. ConvIsGo'
    BY <1>3, <2>3 DEF ConvIsGo
  <2> QED BY <2>2, <2>4, <2>5 DEF ArithInv
<1>4. CASE ~(op \in {"QUO", "REM"} /\ y = 0)
  <2>1. reg' = BinOp(op, type, reg, y) /\ trap' = FALSE
    BY <1>1, <1>4 DEF Binary
  <2>2. PICK T : T = type
    OBVIOUS
  <2>3. PICK x : x = reg
    OBVIOUS
  <2>4. T \in IntTypes /\ x \in InRange(T) /\ y \in InRange(T)
    BY <1>1, <2>2, <2>3
  <2>5. GoResult(op, T, x, y, BinOp(op, T, x, y)) /\ BinOp(op, T, x, y) \in InRange(T)
    <3>1. CASE op \in {"ADD", "SUB", "MUL"}
      BY <3>1, <2>4, ExactOps
    <3>2. CASE op = "QUO"
      BY <3>2, <1>4, <2>4, QuoOK
    <3>3. CASE op = "REM"
      BY <3>3, <1>4, <2>4, RemOK
    <3>4. CASE op \in BitOps
      BY <3>4, <2>4, BitOpsOK
    <3> QED BY <3>1, <3>2, <3>3, <3>4 DEF BinOps, BitOps
  <2>6. PICK r : r = BinOp(op, T, x, y)
    OBVIOUS
  <2>7. type' = T /\ reg' = r /\ last'.op = op /\ last'.x = x /\ last'.y = y
    BY <1>2, <2>1, <2>2, <2>3, <2>6
  <2> QED BY <1>4, <2>1, <2>4, <2>5, <2>6, <2>7, WentWell
<1> QED BY <1>3, <1>4

\* BinOp, the shifts.
LEMMA ShiftByOK ==
  ASSUME ArithInv, NEW op \in {"SHL", "SHR"}, NEW S \in IntTypes, NEW y \in InRange(S), ShiftBy(op, S, y)
  PROVE  ArithInv'
<1>1. type \in IntTypes /\ reg \in InRange(type) /\ trap' = FALSE
  BY DEF ArithInv, ArithTypeOK, ShiftBy
<1>2. PICK T : T = type
  OBVIOUS
<1>3. PICK x : x = reg
  OBVIOUS
<1>4. PICK r : r = Shift(op, T, x, AsUint64(S, y))
  OBVIOUS
<1>5. GoResult(op, T, x, y, r) /\ r \in InRange(T)
  BY <1>1, <1>2, <1>3, <1>4, ShiftOK
<1>6. type' = T /\ reg' = r /\ last'.op = op /\ last'.x = x /\ last'.y = y
  BY <1>2, <1>3, <1>4 DEF ShiftBy
<1>7. T \in IntTypes /\ op \notin {"QUO", "REM"}
  BY <1>1, <1>2
<1> QED BY <1>1, <1>5, <1>6, <1>7, WentWell

\* UnOp
LEMMA UnaryOK ==
  ASSUME ArithInv, NEW op \in {"NEG", "NOT"}, Unary(op)
  PROVE  ArithInv'
<1>1. type \in IntTypes /\ reg \in InRange(type) /\ trap' = FALSE
  BY DEF ArithInv, ArithTypeOK, Unary
<1>2. PICK T : T = type
  OBVIOUS
<1>3. PICK x : x = reg
  OBVIOUS
<1>4. PICK r : r = UnOp(op, T, x)
  OBVIOUS
<1>5. GoResult(op, T, x, 0, r) /\ r \in InRange(T)
  BY <1>1, <1>2, <1>3, <1>4, UnOpsOK
<1>6. type' = T /\ reg' = r /\ last'.op = op /\ last'.x = x /\ last'.y = 0
  BY <1>2, <1>3, <1>4 DEF Unary
<1>7. T \in IntTypes /\ op \notin {"QUO", "REM"}
  BY <1>1, <1>2
<1> QED BY <1>1, <1>5, <1>6, <1>7, WentWell

\* Convert
LEMMA ConvertOK ==
  ASSUME ArithInv, NEW D \in IntTypes, Convert(D)
  PROVE  ArithInv'
<1>1. type \in IntTypes /\ reg \in InRange(type) /\ trap \in BOOLEAN
  BY DEF ArithInv, ArithTypeOK
<1>2. PICK c : c = Conv(D, type, reg)
  OBVIOUS
<1>3. /\ c \in InRange(D) /\ (reg \in InRange(D) => c = reg)
      /\ \A i \in 0 .. D.bits - 1 : Bit(c, i) = Bit(reg, i)
  BY <1>1, <1>2, ConvIs
<1>4. reg' = c /\ type' = D /\ trap' = trap /\ last'.op = "CONV" /\ last'.x = reg
  BY <1>2 DEF Convert
<1>5. ArithTypeOK'
  BY <1>1, <1>3, <1>4 DEF ArithTypeOK
<1>6. ConvIsGo'
  BY <1>3, <1>4 DEF ConvIsGo
<1>7. ArithIsGo'
  BY <1>4 DEF ArithIsGo, BinOps
<1> QED BY <1>5, <1>6, <1>7 DEF ArithInv

\* IndexAddr
LEMMA IndexesOK ==
  ASSUME ArithInv, NEW n \in 0 .. MaxLength, Index(n)
  PROVE  ArithInv'
<1>1. type \in IntTypes /\ reg \in InRange(type)
  BY DEF ArithInv, ArithTypeOK
<1>2. PICK c : c = AsInt(type, reg)
  OBVIOUS
<1>3. c \in InRange(Int64) /\ (c \notin 0 .. n - 1 <=> reg \notin 0 .. n - 1)
  BY <1>1, <1>2, IndexOK
<1>4. /\ reg' = c /\ type' = Int64 /\ trap' = (c \notin 0 .. n - 1)
      /\ last'.op = "INDEX" /\ last'.x = reg /\ last'.y = n
  BY <1>2 DEF Index
<1>5. ArithTypeOK'
  BY <1>1, <1>3, <1>4, IntTypeIs DEF ArithTypeOK
<1>6. ConvIsGo'
  BY <1>3, <1>4 DEF ConvIsGo
<1>7. ArithIsGo'
  BY <1>4 DEF ArithIsGo, BinOps
<1> QED BY <1>5, <1>6, <1>7 DEF ArithInv

\* Every instruction keeps the invariant.
LEMMA ArithStep == ArithInv /\ [ArithNext]_arithVars => ArithInv'
<1> SUFFICES ASSUME ArithInv, [ArithNext]_arithVars PROVE ArithInv'
  OBVIOUS
<1>1. CASE \E T \in IntTypes : \E n \in InRange(T) : Const(T, n)
  BY <1>1, ConstOK
<1>2. CASE \E op \in BinOps, y \in InRange(type) : Binary(op, y)
  BY <1>2, BinaryOK
<1>3. CASE \E op \in {"SHL", "SHR"}, S \in IntTypes : \E y \in InRange(S) : ShiftBy(op, S, y)
  BY <1>3, ShiftByOK
<1>4. CASE \E op \in {"NEG", "NOT"} : Unary(op)
  BY <1>4, UnaryOK
<1>5. CASE \E D \in IntTypes : Convert(D)
  BY <1>5, ConvertOK
<1>6. CASE \E n \in 0 .. MaxLength : Index(n)
  BY <1>6, IndexesOK
<1>7. CASE UNCHANGED arithVars
  BY <1>7 DEF arithVars, ArithInv, ArithTypeOK, ArithIsGo, ConvIsGo
<1> QED BY <1>1, <1>2, <1>3, <1>4, <1>5, <1>6, <1>7 DEF ArithNext

\* The invariant is one.
LEMMA ArithThroughout == ArithSpec => []ArithInv
<1>1. ArithInit => ArithInv
  BY ArithInitOK
<1>2. ArithInv /\ [ArithNext]_arithVars => ArithInv'
  BY ArithStep
<1> QED BY <1>1, <1>2, PTL DEF ArithSpec

\* The operators of binop, unop and the shifts (ops.go) give what the Go specification
\* says, at every width.
THEOREM ArithmeticIsGo == ArithSpec => []ArithIsGo
<1>1. ArithInv => ArithIsGo
  BY DEF ArithInv
<1> QED BY <1>1, ArithThroughout, PTL

\* So do conversions between integer types, and the host's check of an index.
THEOREM ConversionsAreGo == ArithSpec => []ConvIsGo
<1>1. ArithInv => ConvIsGo
  BY DEF ArithInv
<1> QED BY <1>1, ArithThroughout, PTL
=============================================================================
