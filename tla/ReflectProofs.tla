--------------------------- MODULE ReflectProofs ---------------------------
(***************************************************************************)
(* Proofs about types and values seen through reflection.                  *)
(*                                                                         *)
(* The emulated package reflect (Reflect), for any named structs and any   *)
(* bounds on the program's variables: every slot holds content that fits   *)
(* its type, the reflect.Value and the interface value at hand fit theirs, *)
(* and so does the content of every slot an address can lead to (RInv).    *)
(* From it: what is shown is what Go shows, and the calls that Go allows   *)
(* answer, outside the named deviations.                                   *)
(*                                                                         *)
(* The search for host types (SymReflect), for any types of the program,   *)
(* any types linked into the host and any depth of its stack: what it      *)
(* finds is what the emulation shows, and it fails for the stated reasons  *)
(* only.                                                                   *)
(***************************************************************************)
EXTENDS Reflect, SymReflect, SequenceTheorems, FiniteSetTheorems, TLAPS

\* A set of numbers that is not empty has a least element.
LEMMA LeastOne ==
  ASSUME NEW T \in SUBSET Nat, T # {}
  PROVE  \E x \in T : \A y \in T : x <= y
<1> DEFINE Below(n) == 1 .. n
           Segments == {Below(x) : x \in T}
           R == StrictSubsetOrdering(Nat)
<1>1. IsWellFoundedOn(R, FiniteSubsetsOf(Nat))
  BY FS_StrictSubsetOrderingWellFounded
<1>2. Segments \subseteq FiniteSubsetsOf(Nat) /\ Segments # {}
  <2>1. ASSUME NEW x \in T PROVE Below(x) \in FiniteSubsetsOf(Nat)
    <3>1. IsFiniteSet(Below(x)) /\ Below(x) \subseteq Nat
      BY FS_Interval
    <3> QED BY <3>1 DEF FiniteSubsetsOf
  <2> HIDE DEF Below
  <2> QED BY <2>1
<1>3. PICK S \in Segments : \A V \in Segments : <<V, S>> \notin R
  <2> HIDE DEF Segments, R
  <2> QED BY <1>1, <1>2, WFMin
<1>4. PICK x \in T : S = Below(x)
  BY <1>3
<1>5. ASSUME NEW y \in T, y < x PROVE FALSE
  <2>1. /\ Below(y) \subseteq Below(x) /\ Below(y) # Below(x)
       /\ Below(y) \subseteq Nat /\ Below(x) \subseteq Nat
    <3>1. x \in Below(x) /\ x \notin Below(y)
      BY <1>5
    <3>2. QED BY <1>5, <3>1
  <2>2. <<Below(y), Below(x)>> \in R
    BY <2>1 DEF StrictSubsetOrdering
  <2> QED BY <2>2, <1>3, <1>4
<1> QED BY <1>5

\* A set that has 0 and the successor of each of its numbers has them all.
LEMMA NatsIn ==
  ASSUME NEW S, 0 \in S, \A n \in Nat : n \in S => n + 1 \in S
  PROVE  \A n \in Nat : n \in S
<1> DEFINE Bad == {n \in Nat : n \notin S}
<1> SUFFICES ASSUME Bad # {} PROVE FALSE
  OBVIOUS
<1>1. PICK n \in Bad : \A m \in Bad : n <= m
  <2>1. Bad \in SUBSET Nat
    OBVIOUS
  <2> HIDE DEF Bad
  <2> QED BY <2>1, LeastOne
<1>2. n \in Nat /\ n # 0 /\ n \notin S
  BY <1>1
<1>3. n - 1 \in Nat /\ n - 1 \notin Bad
  BY <1>1, <1>2
<1>4. n - 1 \in S /\ (n - 1) + 1 = n
  BY <1>2, <1>3
<1> QED BY <1>2, <1>3, <1>4

-----------------------------------------------------------------------------
\* Types and recursion over them -----------------------------------------------------------

Kinds == DOMAIN Bits \cup Composed

\* What is under a type is a type without a name, of the same kind and of the same parts.
LEMMA UnderIs ==
  ASSUME NEW T \in DOMAIN Def
  PROVE  /\ Underlying(T) \in DOMAIN Def
         /\ Def[Underlying(T)].kind = ReflectKind(T)
         /\ ReflectKind(T) \in Kinds
BY TypesAssumption DEF Underlying, U, ReflectKind, Kinds

\* What a type is made of.
LEMMA ElemsAre ==
  ASSUME NEW T \in DOMAIN Def
  PROVE  /\ ReflectKind(T) = "struct" => U(T).fields \in Seq(DOMAIN Def)
         /\ ReflectKind(T) = "array" => U(T).len \in Nat
         /\ ReflectKind(T) \in {"array", "ptr", "slice", "chan", "map"} => U(T).elem \in DOMAIN Def
         /\ ReflectKind(T) = "map" => U(T).key \in DOMAIN Def
<1>1. PICK S : S = Underlying(T)
  OBVIOUS
<1>2. S \in DOMAIN Def /\ Def[S].kind = ReflectKind(T) /\ U(T) = Def[S]
  BY <1>1, UnderIs DEF U
<1> QED BY <1>2, TypesAssumption

\* The parts of a type are types.
LEMMA PartsAre ==
  ASSUME NEW T \in DOMAIN Def
  PROVE  \A i \in DOMAIN PartTypes(T) : PartTypes(T)[i] \in DOMAIN Def
<1>1. CASE Has(T, "struct")
  <2>1. PICK s : s = U(T).fields
    OBVIOUS
  <2>2. s \in Seq(DOMAIN Def)
    BY <1>1, <2>1, ElemsAre DEF Has
  <2>3. \A i \in DOMAIN s : s[i] \in DOMAIN Def
    BY <2>2, LenProperties, ElementOfSeq
  <2>4. PartTypes(T) = s
    BY <1>1, <2>1 DEF PartTypes, Has
  <2> QED BY <2>3, <2>4
<1>2. CASE Has(T, "array")
  <2>1. PartTypes(T) = [i \in 1 .. U(T).len |-> U(T).elem] /\ U(T).elem \in DOMAIN Def
    BY <1>2, ElemsAre DEF PartTypes, Has
  <2> QED BY <2>1
<1>3. CASE ~Has(T, "struct") /\ ~Has(T, "array")
  <2>1. PartTypes(T) = <<>>
    BY <1>3 DEF PartTypes
  <2> QED BY <2>1
<1> QED BY <1>1, <1>2, <1>3

\* One level of Nesting, from what f gives below.
NestOne(f, n) ==
  IF n = 0 THEN {}
  ELSE {T \in DOMAIN Def : \A i \in DOMAIN PartTypes(T) : PartTypes(T)[i] \in f[n - 1]}

\* f gives the levels below n.
NestsTo(f, n) ==
  /\ f = [k \in 0 .. MaxNesting |-> f[k]]
  /\ \A k \in 0 .. MaxNesting : k < n => f[k] = NestOne(f, k)

\* To every level something does.
LEMMA NestsAll == \A n \in Nat : \E f : NestsTo(f, n)
<1> DEFINE S == {n \in Nat : \E f : NestsTo(f, n)}
<1>1. 0 \in S
  <2>1. PICK f : f = [k \in 0 .. MaxNesting |-> {}]
    OBVIOUS
  <2>2. f = [k \in 0 .. MaxNesting |-> f[k]] /\ \A k \in 0 .. MaxNesting : ~(k < 0)
    BY <2>1, TypesAssumption
  <2> QED BY <2>2 DEF NestsTo
<1>2. ASSUME NEW n \in Nat, n \in S PROVE n + 1 \in S
  <2>1. PICK f : NestsTo(f, n)
    BY <1>2
  <2>2. PICK g : g = [k \in 0 .. MaxNesting |-> NestOne(f, k)]
    OBVIOUS
  <2>3. ASSUME NEW k \in 0 .. MaxNesting, k < n + 1 PROVE g[k] = NestOne(g, k)
    <3>1. CASE k = 0
      BY <2>2, <3>1, TypesAssumption DEF NestOne
    <3>2. CASE k # 0
      <4>1. PICK j : j = k - 1
        OBVIOUS
      <4>2. j \in 0 .. MaxNesting /\ j < n
        BY <2>3, <3>2, <4>1, TypesAssumption
      <4>3. f[j] = NestOne(f, j) /\ g[j] = NestOne(f, j)
        BY <2>1, <2>2, <4>2 DEF NestsTo
      <4>4. f[k - 1] = g[k - 1]
        BY <4>1, <4>3
      <4>5. NestOne(f, k) = NestOne(g, k)
        BY <4>4 DEF NestOne
      <4> QED BY <2>2, <4>5
    <3> QED BY <3>1, <3>2
  <2>4. g = [k \in 0 .. MaxNesting |-> g[k]]
    BY <2>2
  <2>5. NestsTo(g, n + 1)
    BY <2>3, <2>4 DEF NestsTo
  <2> QED BY <2>5
<1> HIDE DEF S
<1>3. \A n \in Nat : n \in S
  BY <1>1, <1>2, NatsIn
<1> QED BY <1>3 DEF S

\* Nesting is what its definition says.
LEMMA NestingIs ==
  ASSUME NEW n \in 0 .. MaxNesting
  PROVE  Nesting[n] = NestOne(Nesting, n)
<1>1. PICK f : NestsTo(f, MaxNesting + 1)
  BY NestsAll, TypesAssumption
<1>2. \A k \in 0 .. MaxNesting : k < MaxNesting + 1
  BY TypesAssumption
<1>3. f = [k \in 0 .. MaxNesting |-> NestOne(f, k)]
  BY <1>1, <1>2 DEF NestsTo
<1>4. Nesting = CHOOSE g : g = [k \in 0 .. MaxNesting |-> NestOne(g, k)]
  BY DEF Nesting, NestOne
<1>5. Nesting = [k \in 0 .. MaxNesting |-> NestOne(Nesting, k)]
  BY <1>3, <1>4
<1> QED BY <1>5

\* Level n + 1 has the types whose parts are on level n.
LEMMA NestingStep ==
  ASSUME NEW n \in Nat, n + 1 \in 0 .. MaxNesting
  PROVE  /\ n \in 0 .. MaxNesting
         /\ \A T \in DOMAIN Def :
              T \in Nesting[n + 1] <=> \A i \in DOMAIN PartTypes(T) : PartTypes(T)[i] \in Nesting[n]
<1>1. n \in 0 .. MaxNesting /\ n + 1 # 0 /\ (n + 1) - 1 = n
  BY TypesAssumption
<1>2. Nesting[n + 1] = NestOne(Nesting, n + 1)
  BY NestingIs
<1> QED BY <1>1, <1>2 DEF NestOne

\* No type is on level 0.
LEMMA NestingNone == Nesting[0] = {}
<1>1. 0 \in 0 .. MaxNesting
  BY TypesAssumption
<1> QED BY <1>1, NestingIs DEF NestOne

\* A set that has each type whose parts it has, has all types.
LEMMA TypesIn ==
  ASSUME NEW S,
         \A T \in DOMAIN Def : (\A i \in DOMAIN PartTypes(T) : PartTypes(T)[i] \in S) => T \in S
  PROVE  \A T \in DOMAIN Def : T \in S
<1> DEFINE N == {n \in Nat : n \in 0 .. MaxNesting => \A T \in DOMAIN Def : T \in Nesting[n] => T \in S}
<1>1. 0 \in N
  BY NestingNone
<1>2. ASSUME NEW n \in Nat, n \in N PROVE n + 1 \in N
  <2>1. ASSUME n + 1 \in 0 .. MaxNesting, NEW T \in DOMAIN Def, T \in Nesting[n + 1] PROVE T \in S
    <3>1. n \in 0 .. MaxNesting /\ \A i \in DOMAIN PartTypes(T) : PartTypes(T)[i] \in Nesting[n]
      BY <2>1, NestingStep
    <3>2. \A i \in DOMAIN PartTypes(T) : PartTypes(T)[i] \in S
      BY <1>2, <3>1, PartsAre
    <3> QED BY <3>2
  <2> QED BY <2>1
<1> HIDE DEF N
<1>3. \A n \in Nat : n \in N
  BY <1>1, <1>2, NatsIn
<1>4. MaxNesting \in N /\ MaxNesting \in 0 .. MaxNesting /\ Nesting[MaxNesting] = DOMAIN Def
  BY <1>3, TypesAssumption
<1> QED BY <1>4 DEF N

\* The zero value of a type, from what f gives for its parts.
ZeroOne(f, T) ==
  CASE IsAggregate(T) ->
         Fresh(ReflectKind(T), [i \in DOMAIN PartTypes(T) |-> f[PartTypes(T)[i]]])
    [] ReflectKind(T) = "iface" -> NilIface
    [] ReflectKind(T) = "ptr" -> Ptr(NoPlace)
    [] ReflectKind(T) = "slice" -> Slice(TRUE, <<>>)
    [] ReflectKind(T) = "map" -> Map(TagOf(T), TRUE, <<>>)
    [] ReflectKind(T) = "chan" -> Chan(TRUE, 0)
    [] ReflectKind(T) = "func" -> Func(TRUE)
    [] OTHER -> Num(TagOf(T), 0)

\* f gives the zero values of the types on level n.
ZeroTo(f, n) ==
  n \in 0 .. MaxNesting =>
    /\ f = [T \in DOMAIN Def |-> f[T]]
    /\ \A T \in DOMAIN Def : T \in Nesting[n] => f[T] = ZeroOne(f, T)

\* On every level something does.
LEMMA ZeroAll == \A n \in Nat : \E f : ZeroTo(f, n)
<1> DEFINE S == {n \in Nat : \E f : ZeroTo(f, n)}
<1>1. 0 \in S
  <2>1. PICK f : f = [T \in DOMAIN Def |-> {}]
    OBVIOUS
  <2>2. ZeroTo(f, 0)
    BY <2>1, NestingNone DEF ZeroTo
  <2> QED BY <2>2
<1>2. ASSUME NEW n \in Nat, n \in S PROVE n + 1 \in S
  <2>1. PICK f : ZeroTo(f, n)
    BY <1>2
  <2>2. PICK g : g = [T \in DOMAIN Def |-> ZeroOne(f, T)]
    OBVIOUS
  <2>3. ASSUME n + 1 \in 0 .. MaxNesting, NEW T \in DOMAIN Def, T \in Nesting[n + 1]
        PROVE  g[T] = ZeroOne(g, T)
    <3>1. n \in 0 .. MaxNesting /\ \A i \in DOMAIN PartTypes(T) : PartTypes(T)[i] \in Nesting[n]
      BY <2>3, NestingStep
    <3>2. \A i \in DOMAIN PartTypes(T) : g[PartTypes(T)[i]] = f[PartTypes(T)[i]]
      <4>1. \A R \in DOMAIN Def : R \in Nesting[n] => f[R] = ZeroOne(f, R)
        BY <2>1, <3>1 DEF ZeroTo
      <4>2. \A R \in DOMAIN Def : R \in Nesting[n] => g[R] = f[R]
        BY <4>1, <2>2
      <4> QED BY <4>2, <3>1, PartsAre
    <3>3. [i \in DOMAIN PartTypes(T) |-> g[PartTypes(T)[i]]] = [i \in DOMAIN PartTypes(T) |-> f[PartTypes(T)[i]]]
      BY <3>2
    <3>4. ZeroOne(g, T) = ZeroOne(f, T)
      BY <3>3 DEF ZeroOne
    <3> QED BY <2>2, <3>4
  <2>4. g = [T \in DOMAIN Def |-> g[T]]
    BY <2>2
  <2>5. ZeroTo(g, n + 1)
    BY <2>3, <2>4 DEF ZeroTo
  <2> QED BY <2>5
<1> HIDE DEF S
<1>3. \A n \in Nat : n \in S
  BY <1>1, <1>2, NatsIn
<1> QED BY <1>3 DEF S

\* Zero is what its definition says.
LEMMA ZeroIs ==
  /\ DOMAIN Zero = DOMAIN Def
  /\ \A T \in DOMAIN Def : Zero[T] = ZeroOne(Zero, T)
<1>1. PICK f : ZeroTo(f, MaxNesting)
  BY ZeroAll, TypesAssumption
<1>2. MaxNesting \in 0 .. MaxNesting /\ Nesting[MaxNesting] = DOMAIN Def
  BY TypesAssumption
<1>3. f = [T \in DOMAIN Def |-> ZeroOne(f, T)]
  BY <1>1, <1>2 DEF ZeroTo
<1>4. Zero = CHOOSE g : g = [T \in DOMAIN Def |-> ZeroOne(g, T)]
  BY DEF Zero, ZeroOne
<1>5. Zero = [T \in DOMAIN Def |-> ZeroOne(Zero, T)]
  BY <1>3, <1>4
<1> QED BY <1>5

\* The paths under those that f gives for the parts, and the types they lead to.
LaidPaths(f, T) ==
  {<<>>} \cup UNION {{<<i>> \o p : p \in DOMAIN f[PartTypes(T)[i]]} : i \in DOMAIN PartTypes(T)}
LaidOne(f, T) ==
  [p \in LaidPaths(f, T) |-> IF p = <<>> THEN T ELSE f[PartTypes(T)[Head(p)]][Tail(p)]]

\* f lays out the types on level n.
LaidTo(f, n) ==
  n \in 0 .. MaxNesting =>
    /\ f = [T \in DOMAIN Def |-> f[T]]
    /\ \A T \in DOMAIN Def : T \in Nesting[n] => f[T] = LaidOne(f, T)

\* A layout is that of a type of the level it is asked for, on functions that agree below it.
LEMMA LaidSame ==
  ASSUME NEW f, NEW g, NEW T,
         \A i \in DOMAIN PartTypes(T) : f[PartTypes(T)[i]] = g[PartTypes(T)[i]]
  PROVE  LaidOne(f, T) = LaidOne(g, T)
<1>1. PICK ps : ps = PartTypes(T)
  OBVIOUS
<1>2. \A i \in DOMAIN ps : f[ps[i]] = g[ps[i]]
  BY <1>1
<1> DEFINE F(i) == {<<i>> \o p : p \in DOMAIN f[PartTypes(T)[i]]}
           G(i) == {<<i>> \o p : p \in DOMAIN g[PartTypes(T)[i]]}
<1>3. \A i \in DOMAIN PartTypes(T) : F(i) = G(i)
  OBVIOUS
<1>4. LaidPaths(f, T) = LaidPaths(g, T)
  <2>1. LaidPaths(f, T) = {<<>>} \cup UNION {F(i) : i \in DOMAIN PartTypes(T)}
    BY DEF LaidPaths
  <2>2. LaidPaths(g, T) = {<<>>} \cup UNION {G(i) : i \in DOMAIN PartTypes(T)}
    BY DEF LaidPaths
  <2> HIDE DEF F, G
  <2>3. {F(i) : i \in DOMAIN PartTypes(T)} = {G(i) : i \in DOMAIN PartTypes(T)}
    BY <1>3
  <2> QED BY <2>1, <2>2, <2>3
<1>5. ASSUME NEW p \in LaidPaths(f, T), p # <<>>
      PROVE  f[ps[Head(p)]][Tail(p)] = g[ps[Head(p)]][Tail(p)]
  <2>1. PICK i \in DOMAIN ps : \E q \in DOMAIN f[ps[i]] : p = <<i>> \o q
    BY <1>1, <1>5 DEF LaidPaths
  <2>2. Head(p) = i
    BY <2>1
  <2> QED BY <1>2, <2>1, <2>2
<1> QED BY <1>1, <1>4, <1>5 DEF LaidOne

\* On every level something does.
LEMMA LaidAll == \A n \in Nat : \E f : LaidTo(f, n)
<1> DEFINE S == {n \in Nat : \E f : LaidTo(f, n)}
<1>1. 0 \in S
  <2>1. PICK f : f = [T \in DOMAIN Def |-> {}]
    OBVIOUS
  <2>2. LaidTo(f, 0)
    BY <2>1, NestingNone DEF LaidTo
  <2> QED BY <2>2
<1>2. ASSUME NEW n \in Nat, n \in S PROVE n + 1 \in S
  <2>1. PICK f : LaidTo(f, n)
    BY <1>2
  <2>2. PICK g : g = [T \in DOMAIN Def |-> LaidOne(f, T)]
    OBVIOUS
  <2>3. ASSUME n + 1 \in 0 .. MaxNesting, NEW T \in DOMAIN Def, T \in Nesting[n + 1]
        PROVE  g[T] = LaidOne(g, T)
    <3>1. n \in 0 .. MaxNesting /\ \A i \in DOMAIN PartTypes(T) : PartTypes(T)[i] \in Nesting[n]
      BY <2>3, NestingStep
    <3>2. \A i \in DOMAIN PartTypes(T) : g[PartTypes(T)[i]] = f[PartTypes(T)[i]]
      <4>1. \A R \in DOMAIN Def : R \in Nesting[n] => f[R] = LaidOne(f, R)
        BY <2>1, <3>1 DEF LaidTo
      <4>2. \A R \in DOMAIN Def : R \in Nesting[n] => g[R] = f[R]
        BY <4>1, <2>2
      <4> QED BY <4>2, <3>1, PartsAre
    <3>3. LaidOne(g, T) = LaidOne(f, T)
      BY <3>2, LaidSame
    <3> QED BY <2>2, <3>3
  <2>4. g = [T \in DOMAIN Def |-> g[T]]
    BY <2>2
  <2>5. LaidTo(g, n + 1)
    BY <2>3, <2>4 DEF LaidTo
  <2> QED BY <2>5
<1> HIDE DEF S
<1>3. \A n \in Nat : n \in S
  BY <1>1, <1>2, NatsIn
<1> QED BY <1>3 DEF S

\* Laid is what its definition says.
LEMMA LaidIs ==
  /\ DOMAIN Laid = DOMAIN Def
  /\ \A T \in DOMAIN Def : Laid[T] = LaidOne(Laid, T)
<1>1. PICK f : LaidTo(f, MaxNesting)
  BY LaidAll, TypesAssumption
<1>2. MaxNesting \in 0 .. MaxNesting /\ Nesting[MaxNesting] = DOMAIN Def
  BY TypesAssumption
<1>3. f = [T \in DOMAIN Def |-> LaidOne(f, T)]
  BY <1>1, <1>2 DEF LaidTo
<1>4. Laid = CHOOSE g : g = [T \in DOMAIN Def |-> LaidOne(g, T)]
  BY DEF Laid, LaidOne, LaidPaths
<1>5. Laid = [T \in DOMAIN Def |-> LaidOne(Laid, T)]
  BY <1>3, <1>4
<1> QED BY <1>5

\* A type and what it is laid out as: the paths lead to types, each path goes on to the
\* parts of the type it leads to.
LaidRight(T) ==
  /\ <<>> \in DOMAIN Laid[T] /\ Laid[T][<<>>] = T
  /\ \A p \in DOMAIN Laid[T] :
       /\ p \in Seq(Nat)
       /\ Laid[T][p] \in DOMAIN Def
       /\ \A i \in DOMAIN PartTypes(Laid[T][p]) :
            /\ Append(p, i) \in DOMAIN Laid[T]
            /\ Laid[T][Append(p, i)] = PartTypes(Laid[T][p])[i]

\* The numbers of the parts.
LEMMA PartNumbers ==
  ASSUME NEW T \in DOMAIN Def
  PROVE  DOMAIN PartTypes(T) \subseteq Nat
<1>1. CASE Has(T, "struct")
  <2>1. PICK s : s = U(T).fields
    OBVIOUS
  <2>2. s \in Seq(DOMAIN Def)
    BY <1>1, <2>1, ElemsAre DEF Has
  <2>3. DOMAIN s \subseteq Nat
    BY <2>2, LenProperties
  <2>4. PartTypes(T) = s
    BY <1>1, <2>1 DEF PartTypes, Has
  <2> QED BY <2>3, <2>4
<1>2. CASE Has(T, "array")
  <2>1. PartTypes(T) = [i \in 1 .. U(T).len |-> U(T).elem] /\ U(T).len \in Nat
    BY <1>2, ElemsAre DEF PartTypes, Has
  <2> QED BY <2>1
<1>3. CASE ~Has(T, "struct") /\ ~Has(T, "array")
  <2>1. PartTypes(T) = <<>>
    BY <1>3 DEF PartTypes
  <2> QED BY <2>1
<1> QED BY <1>1, <1>2, <1>3

\* What Laid gives at a path that is not empty is what it gives for the part.
LEMMA LaidPart ==
  ASSUME NEW T \in DOMAIN Def, NEW i \in DOMAIN PartTypes(T), LaidRight(PartTypes(T)[i]),
         NEW q \in DOMAIN Laid[PartTypes(T)[i]]
  PROVE  /\ <<i>> \o q \in DOMAIN Laid[T]
         /\ Laid[T][<<i>> \o q] = Laid[PartTypes(T)[i]][q]
         /\ <<i>> \o q \in Seq(Nat)
<1>1. i \in Nat /\ q \in Seq(Nat)
  BY PartNumbers DEF LaidRight
<1>2. PICK p : p = <<i>> \o q
  OBVIOUS
<1>3. p \in Seq(Nat) /\ p # <<>> /\ Head(p) = i /\ Tail(p) = q
  BY <1>1, <1>2, HeadTailProperties
<1>4. Laid[T] = LaidOne(Laid, T)
  BY LaidIs
<1>5. p \in LaidPaths(Laid, T)
  BY <1>2 DEF LaidPaths
<1>6. p \in DOMAIN Laid[T]
  BY <1>4, <1>5 DEF LaidOne
<1>7. Laid[T][p] = Laid[PartTypes(T)[Head(p)]][Tail(p)]
  BY <1>3, <1>4, <1>5 DEF LaidOne
<1> QED BY <1>2, <1>3, <1>6, <1>7

\* The layout of every type is right.
LEMMA LaidAreRight == \A T \in DOMAIN Def : LaidRight(T)
<1> DEFINE S == {T \in DOMAIN Def : LaidRight(T)}
<1>1. ASSUME NEW T \in DOMAIN Def, \A i \in DOMAIN PartTypes(T) : PartTypes(T)[i] \in S
      PROVE  T \in S
  <2>1. \A i \in DOMAIN PartTypes(T) : LaidRight(PartTypes(T)[i]) /\ PartTypes(T)[i] \in DOMAIN Def
    BY <1>1
  <2>2. Laid[T] = LaidOne(Laid, T)
    BY LaidIs
  <2>3. <<>> \in DOMAIN Laid[T] /\ Laid[T][<<>>] = T
    BY <2>2 DEF LaidOne, LaidPaths
  <2>4. ASSUME NEW p \in DOMAIN Laid[T]
        PROVE  /\ p \in Seq(Nat)
               /\ Laid[T][p] \in DOMAIN Def
               /\ \A j \in DOMAIN PartTypes(Laid[T][p]) :
                    /\ Append(p, j) \in DOMAIN Laid[T]
                    /\ Laid[T][Append(p, j)] = PartTypes(Laid[T][p])[j]
    <3>1. CASE p = <<>>
      <4>1. ASSUME NEW j \in DOMAIN PartTypes(T)
            PROVE  /\ Append(p, j) \in DOMAIN Laid[T]
                   /\ Laid[T][Append(p, j)] = PartTypes(T)[j]
        <5>1. PICK R : R = PartTypes(T)[j]
          OBVIOUS
        <5>2. <<>> \in DOMAIN Laid[R] /\ Laid[R][<<>>] = R
          BY <2>1, <5>1 DEF LaidRight
        <5>3. <<j>> \o <<>> \in DOMAIN Laid[T] /\ Laid[T][<<j>> \o <<>>] = Laid[R][<<>>]
          BY <2>1, <5>1, <5>2, LaidPart
        <5>4. j \in Nat /\ <<j>> \o <<>> = Append(<<>>, j)
          BY PartNumbers
        <5> QED BY <3>1, <5>1, <5>2, <5>3, <5>4
      <4> QED BY <2>3, <3>1, <4>1
    <3>2. CASE p # <<>>
      <4>1. p \in LaidPaths(Laid, T)
        BY <2>2 DEF LaidOne
      <4>2. PICK i \in DOMAIN PartTypes(T) : \E q \in DOMAIN Laid[PartTypes(T)[i]] : p = <<i>> \o q
        BY <3>2, <4>1 DEF LaidPaths
      <4>3. PICK R : R = PartTypes(T)[i]
        OBVIOUS
      <4>4. PICK q \in DOMAIN Laid[R] : p = <<i>> \o q
        BY <4>2, <4>3
      <4>5. LaidRight(R) /\ i \in Nat
        BY <2>1, <4>3, PartNumbers
      <4>6. p \in Seq(Nat) /\ Laid[T][p] = Laid[R][q]
        BY <4>3, <4>4, <4>5, LaidPart
      <4>7. q \in Seq(Nat) /\ Laid[R][q] \in DOMAIN Def
        BY <4>5 DEF LaidRight
      <4>8. ASSUME NEW j \in DOMAIN PartTypes(Laid[R][q])
            PROVE  /\ Append(p, j) \in DOMAIN Laid[T]
                   /\ Laid[T][Append(p, j)] = PartTypes(Laid[R][q])[j]
        <5>1. Append(q, j) \in DOMAIN Laid[R] /\ Laid[R][Append(q, j)] = PartTypes(Laid[R][q])[j]
          BY <4>5 DEF LaidRight
        <5>2. PICK r : r = Append(q, j)
          OBVIOUS
        <5>3. <<i>> \o r \in DOMAIN Laid[T] /\ Laid[T][<<i>> \o r] = Laid[R][r]
          BY <4>3, <4>5, <5>1, <5>2, LaidPart
        <5>4. j \in Nat
          BY <4>7, PartNumbers
        <5>5. <<i>> \o Append(q, j) = Append(<<i>> \o q, j)
          BY <4>5, <4>7, <5>4, AppendProperties, ConcatProperties
        <5> QED BY <4>4, <5>1, <5>2, <5>3, <5>5
      <4> QED BY <4>6, <4>7, <4>8
    <3> QED BY <3>1, <3>2
  <2> QED BY <2>3, <2>4 DEF LaidRight
<1> HIDE DEF S
<1>2. \A T \in DOMAIN Def : T \in S
  BY <1>1, TypesIn
<1> QED BY <1>2 DEF S

-----------------------------------------------------------------------------
\* What fits ---------------------------------------------------------------------------------

\* h2 has the slots of h, of the same types.
Keeps(h, h2) == DOMAIN h \subseteq DOMAIN h2 /\ \A c \in DOMAIN h : h2[c].t = h[c].t

\* What a value of a type that there is looks like, by kind.
LEMMA FitKinds ==
  ASSUME NEW h, NEW T \in DOMAIN Def, NEW v, FitsOutside(h, T, v)
  PROVE  /\ ReflectKind(T) = "iface" =>
              /\ v.tag = "iface" /\ v = Dyn(v.t, v.v)
              /\ v.t = NoType \/ (IsType(v.t) /\ ~Has(v.t, "iface"))
         /\ ReflectKind(T) \in {"struct", "array"} =>
              /\ v.tag = ReflectKind(T)
              /\ DOMAIN Places(v) = DOMAIN PartTypes(T)
              /\ IsInPlace(v) =>
                   \A i \in DOMAIN v.cells : v.cells[i] \in DOMAIN h /\ h[v.cells[i]].t = PartTypes(T)[i]
         /\ ReflectKind(T) = "ptr" =>
              /\ v.tag = "ptr" /\ v = Ptr(v.cell)
              /\ v.cell = NoPlace \/ (v.cell \in DOMAIN h /\ h[v.cell].t = U(T).elem)
         /\ ReflectKind(T) = "slice" =>
              /\ v.tag = "slice" /\ v = Slice(v.nil, v.slots)
              /\ v.nil \in BOOLEAN /\ (v.nil => v.slots = <<>>)
              /\ \A i \in DOMAIN v.slots : v.slots[i] \in DOMAIN h /\ h[v.slots[i]].t = U(T).elem
         /\ ReflectKind(T) = "map" =>
              /\ v.tag = TagOf(T) /\ v = Map(v.tag, v.nil, v.entries)
              /\ v.nil \in BOOLEAN /\ (v.nil => v.entries = <<>>)
         /\ ReflectKind(T) = "chan" =>
              /\ v.tag = "chan" /\ v = Chan(v.nil, v.cap)
              /\ v.nil \in BOOLEAN /\ (v.nil => v.cap = 0)
         /\ ReflectKind(T) = "func" => v.tag = "func" /\ v = Func(v.nil) /\ v.nil \in BOOLEAN
         /\ ReflectKind(T) \in DOMAIN Bits => v.tag = TagOf(T)
BY DEF FitsOutside, IsType, Has, IsAggregate, Bits

\* The tag of a value tells the kind of its type.
LEMMA TagIs ==
  ASSUME NEW h, NEW T \in DOMAIN Def, NEW v, FitsOutside(h, T, v)
  PROVE  v.tag = TagOf(T)
<1>1. ReflectKind(T) \in Kinds
  BY UnderIs
<1>2. ReflectKind(T) # "map" => TagOf(T) = ReflectKind(T)
  BY DEF TagOf, Has, IsType
<1> QED BY <1>1, <1>2, FitKinds DEF Kinds, Composed, Bits

\* The tag of a type.
LEMMA TagKinds ==
  ASSUME NEW T \in DOMAIN Def
  PROVE  /\ \A k \in Composed \ {"map"} : TagOf(T) = k => ReflectKind(T) = k
         /\ TagOf(T) \in {"map", "hashmap"} <=> ReflectKind(T) = "map"
         /\ ReflectKind(T) # "map" => TagOf(T) = ReflectKind(T)
<1>1. ReflectKind(T) \in Kinds
  BY UnderIs
<1> QED BY <1>1 DEF TagOf, Has, IsType, Composed, Kinds, Bits

\* A value of no type is nothing.
LEMMA FitNone ==
  ASSUME NEW h, NEW T, T \notin DOMAIN Def, NEW v
  PROVE  FitsOutside(h, T, v) <=> v = Nothing
BY DEF FitsOutside, IsType, Has, IsAggregate

\* A value whose tag is that of a composed kind has a type of that kind.
LEMMA FitTags ==
  ASSUME NEW h, NEW T, NEW v, FitsOutside(h, T, v)
  PROVE  /\ v.tag \in {"map", "hashmap"} => T \in DOMAIN Def /\ ReflectKind(T) = "map"
         /\ \A k \in Composed \ {"map"} : v.tag = k => T \in DOMAIN Def /\ ReflectKind(T) = k
<1>1. CASE T \in DOMAIN Def
  BY <1>1, TagIs, TagKinds
<1>2. CASE T \notin DOMAIN Def
  <2>1. v.tag = "none"
    BY <1>2, FitNone DEF Nothing
  <2> QED BY <2>1 DEF Composed
<1> QED BY <1>1, <1>2

\* What fits goes on fitting where slots are added.
LEMMA FitMoves ==
  ASSUME NEW h, NEW h2, Keeps(h, h2), NEW T, NEW v, FitsOutside(h, T, v)
  PROVE  FitsOutside(h2, T, v)
<1>1. \A c, S : c \in DOMAIN h /\ h[c].t = S => c \in DOMAIN h2 /\ h2[c].t = S
  BY DEF Keeps
<1>2. CASE T \notin DOMAIN Def
  BY <1>2, FitNone
<1>3. CASE T \in DOMAIN Def
  <2>1. ReflectKind(T) \in Kinds
    BY <1>3, UnderIs
  <2>2. CASE ReflectKind(T) = "iface"
    BY <1>3, <2>2 DEF FitsOutside, IsType, Has, IsAggregate
  <2>3. CASE ReflectKind(T) \in {"struct", "array"}
    BY <1>1, <1>3, <2>3 DEF FitsOutside, IsType, Has, IsAggregate
  <2>4. CASE ReflectKind(T) \in {"ptr", "slice"}
    BY <1>1, <1>3, <2>4 DEF FitsOutside, IsType, Has, IsAggregate
  <2>5. CASE ReflectKind(T) \in {"map", "chan", "func"}
    BY <1>3, <2>5 DEF FitsOutside, IsType, Has, IsAggregate
  <2>6. CASE ReflectKind(T) \in DOMAIN Bits
    BY <1>3, <2>6 DEF FitsOutside, IsType, Has, IsAggregate, Bits
  <2> QED BY <2>1, <2>2, <2>3, <2>4, <2>5, <2>6 DEF Kinds, Composed
<1> QED BY <1>2, <1>3

\* A set of values with their types that all fit, none in a variable's slots, and that has
\* what is in them.
Closed(h, S) ==
  \A q \in S : /\ FitsOutside(h, q[1], q[2]) /\ ~IsInPlace(q[2])
               /\ Inside(h, q[1], q[2]) \subseteq S

\* v is a value of type T as a whole, and none of it is in a variable's slots.
Whole(h, T, v) == \E S : Closed(h, S) /\ <<T, v>> \in S

\* Slot c has an aggregate in it whose parts are the slots under c.
AsLaid(h, c) ==
  /\ h[c].v = InPlace(ReflectKind(h[c].t), [i \in DOMAIN PartTypes(h[c].t) |-> Under(c, i)])
  /\ \A i \in DOMAIN PartTypes(h[c].t) :
       Under(c, i) \in DOMAIN h /\ h[Under(c, i)].t = PartTypes(h[c].t)[i]

\* Slot c has a value of its type.
SlotFits(h, c) ==
  /\ c # NoPlace
  /\ h[c] = [t |-> h[c].t, v |-> h[c].v]
  /\ h[c].t \in DOMAIN Def
  /\ IF IsAggregate(h[c].t) THEN AsLaid(h, c) ELSE Whole(h, h[c].t, h[c].v)

HeapFits(h) == h = [c \in DOMAIN h |-> h[c]] /\ \A c \in DOMAIN h : SlotFits(h, c)

\* v is the aggregate in a slot of type T.
SlotOf(h, T, v) == IsAggregate(T) /\ \E c \in DOMAIN h : h[c].t = T /\ h[c].v = v

\* v is a value of type T, or the aggregate in a slot of the type.
Sits(h, T, v) == Whole(h, T, v) \/ SlotOf(h, T, v)

\* What is in a value that is in no slots does not depend on the slots.
LEMMA InsideSame ==
  ASSUME NEW h, NEW h2, NEW T, NEW v, ~IsInPlace(v)
  PROVE  Inside(h, T, v) = Inside(h2, T, v)
BY DEF Inside

\* A closed set stays one where slots are added.
LEMMA ClosedMoves ==
  ASSUME NEW h, NEW h2, Keeps(h, h2), NEW S, Closed(h, S)
  PROVE  Closed(h2, S)
<1> SUFFICES ASSUME NEW q \in S
             PROVE  /\ FitsOutside(h2, q[1], q[2]) /\ ~IsInPlace(q[2])
                    /\ Inside(h2, q[1], q[2]) \subseteq S
  BY DEF Closed
<1>1. FitsOutside(h, q[1], q[2]) /\ ~IsInPlace(q[2]) /\ Inside(h, q[1], q[2]) \subseteq S
  BY DEF Closed
<1>2. Inside(h2, q[1], q[2]) = Inside(h, q[1], q[2])
  BY <1>1, InsideSame
<1> QED BY <1>1, <1>2, FitMoves

\* So does a whole value.
LEMMA WholeMoves ==
  ASSUME NEW h, NEW h2, Keeps(h, h2), NEW T, NEW v, Whole(h, T, v)
  PROVE  Whole(h2, T, v)
BY ClosedMoves DEF Whole

\* A whole value fits, is in no slots, and what is in it is whole.
LEMMA WholeIs ==
  ASSUME NEW h, NEW T, NEW v, Whole(h, T, v)
  PROVE  /\ FitsOutside(h, T, v) /\ ~IsInPlace(v)
         /\ \A S, w : <<S, w>> \in Inside(h, T, v) => Whole(h, S, w)
<1>1. PICK A : Closed(h, A) /\ <<T, v>> \in A
  BY DEF Whole
<1>2. FitsOutside(h, T, v) /\ ~IsInPlace(v) /\ Inside(h, T, v) \subseteq A
  <2>1. PICK q \in A : q = <<T, v>>
    BY <1>1
  <2>2. FitsOutside(h, q[1], q[2]) /\ ~IsInPlace(q[2]) /\ Inside(h, q[1], q[2]) \subseteq A
    BY <1>1 DEF Closed
  <2>3. q[1] = T /\ q[2] = v
    BY <2>1
  <2> QED BY <2>2, <2>3
<1> QED BY <1>1, <1>2 DEF Whole

\* A value that fits and has whole values in it is whole.
LEMMA WholeOf ==
  ASSUME NEW h, NEW T, NEW v, FitsOutside(h, T, v), ~IsInPlace(v),
         \A S, w : <<S, w>> \in Inside(h, T, v) => Whole(h, S, w),
         \A q \in Inside(h, T, v) : q = <<q[1], q[2]>>
  PROVE  Whole(h, T, v)
<1> DEFINE C(q) == CHOOSE A : Closed(h, A) /\ q \in A
           B == {<<T, v>>} \cup UNION {C(q) : q \in Inside(h, T, v)}
<1>1. ASSUME NEW q \in Inside(h, T, v) PROVE Closed(h, C(q)) /\ q \in C(q)
  <2>1. PICK S, w : q = <<S, w>>
    OBVIOUS
  <2>2. \E A : Closed(h, A) /\ q \in A
    BY <2>1 DEF Whole
  <2> QED BY <2>2
<1> HIDE DEF C
<1>2. Closed(h, B)
  <2> SUFFICES ASSUME NEW r \in B
               PROVE  /\ FitsOutside(h, r[1], r[2]) /\ ~IsInPlace(r[2])
                      /\ Inside(h, r[1], r[2]) \subseteq B
    BY DEF Closed
  <2>1. CASE r = <<T, v>>
    <3>1. r[1] = T /\ r[2] = v
      BY <2>1
    <3>2. Inside(h, T, v) \subseteq B
      BY <1>1
    <3> QED BY <3>1, <3>2
  <2>2. CASE r # <<T, v>>
    <3>1. PICK q \in Inside(h, T, v) : r \in C(q)
      BY <2>2
    <3>2. FitsOutside(h, r[1], r[2]) /\ ~IsInPlace(r[2]) /\ Inside(h, r[1], r[2]) \subseteq C(q)
      BY <1>1, <3>1 DEF Closed
    <3>3. C(q) \subseteq B
      BY <3>1
    <3> QED BY <3>2, <3>3
  <2> QED BY <2>1, <2>2
<1>3. <<T, v>> \in B
  OBVIOUS
<1> HIDE DEF B
<1> QED BY <1>2, <1>3 DEF Whole

\* What is in a value are pairs of a type and a value.
LEMMA InsidePairs ==
  ASSUME NEW h, NEW T, NEW v, NEW q \in Inside(h, T, v)
  PROVE  q = <<q[1], q[2]>>
BY DEF Inside

\* Nothing is a whole value of no type.
LEMMA WholeNone ==
  ASSUME NEW h, NEW T, T \notin DOMAIN Def
  PROVE  Whole(h, T, Nothing)
<1>1. FitsOutside(h, T, Nothing)
  BY FitNone
<1>2. Inside(h, T, Nothing) = {}
  BY DEF Inside, Has, IsType, IsAggregate
<1>3. ~IsInPlace(Nothing)
  BY DEF IsInPlace, Nothing
<1> QED BY <1>1, <1>2, <1>3, WholeOf

\* What is in a value, by kind.
LEMMA InsideKinds ==
  ASSUME NEW h, NEW T, NEW v
  PROVE  /\ Has(T, "iface") => Inside(h, T, v) = {<<v.t, v.v>>}
         /\ Has(T, "map") =>
              \A i \in DOMAIN v.entries : /\ <<U(T).key, v.entries[i].key>> \in Inside(h, T, v)
                                          /\ <<U(T).elem, v.entries[i].val>> \in Inside(h, T, v)
         /\ IsAggregate(T) =>
              \A i \in DOMAIN PartTypes(T) :
                <<PartTypes(T)[i], IF IsInPlace(v) THEN h[v.cells[i]].v ELSE v.parts[i]>> \in Inside(h, T, v)
         /\ ~Has(T, "iface") /\ ~Has(T, "map") /\ ~IsAggregate(T) => Inside(h, T, v) = {}
<1>1. CASE Has(T, "iface")
  BY <1>1 DEF Inside, Has, IsAggregate
<1>2. CASE Has(T, "map")
  <2>1. Inside(h, T, v) =
          UNION {{<<U(T).key, v.entries[i].key>>, <<U(T).elem, v.entries[i].val>>} : i \in DOMAIN v.entries}
    BY <1>2 DEF Inside, Has, IsAggregate
  <2> QED BY <1>2, <2>1 DEF Has, IsAggregate
<1>3. CASE IsAggregate(T)
  <2>1. ~Has(T, "iface") /\ ~Has(T, "map")
    BY <1>3 DEF IsAggregate, Has
  <2>2. Inside(h, T, v) =
          {<<PartTypes(T)[i], IF IsInPlace(v) THEN h[v.cells[i]].v ELSE v.parts[i]>> : i \in DOMAIN PartTypes(T)}
    BY <1>3, <2>1 DEF Inside
  <2> QED BY <1>3, <2>1, <2>2
<1>4. CASE ~Has(T, "iface") /\ ~Has(T, "map") /\ ~IsAggregate(T)
  BY <1>4 DEF Inside
<1> QED BY <1>1, <1>2, <1>3, <1>4

-----------------------------------------------------------------------------
\* Values that fit -----------------------------------------------------------------------------

\* What the zero value of a type is, by kind.
LEMMA ZeroKinds ==
  ASSUME NEW T \in DOMAIN Def
  PROVE  /\ IsAggregate(T) =>
              Zero[T] = Fresh(ReflectKind(T), [i \in DOMAIN PartTypes(T) |-> Zero[PartTypes(T)[i]]])
         /\ ReflectKind(T) = "iface" => Zero[T] = NilIface
         /\ ReflectKind(T) = "ptr" => Zero[T] = Ptr(NoPlace)
         /\ ReflectKind(T) = "slice" => Zero[T] = Slice(TRUE, <<>>)
         /\ ReflectKind(T) = "map" => Zero[T] = Map(TagOf(T), TRUE, <<>>)
         /\ ReflectKind(T) = "chan" => Zero[T] = Chan(TRUE, 0)
         /\ ReflectKind(T) = "func" => Zero[T] = Func(TRUE)
         /\ ReflectKind(T) \in DOMAIN Bits => Zero[T] = Num(TagOf(T), 0)
<1>1. Zero[T] = ZeroOne(Zero, T)
  BY ZeroIs
<1>2. PICK z : z = Zero[T]
  OBVIOUS
<1>3. z = ZeroOne(Zero, T)
  BY <1>1, <1>2
<1>4. CASE IsAggregate(T)
  <2>1. ReflectKind(T) \in {"struct", "array"}
    BY <1>4 DEF IsAggregate, Has
  <2>2. z = Fresh(ReflectKind(T), [i \in DOMAIN PartTypes(T) |-> Zero[PartTypes(T)[i]]])
    BY <1>3, <1>4, <2>1 DEF ZeroOne
  <2> QED BY <1>2, <2>1, <2>2 DEF Bits
<1>5. CASE ~IsAggregate(T)
  BY <1>2, <1>3, <1>5 DEF ZeroOne, Bits
<1> QED BY <1>4, <1>5

\* The zero value of a type fits and has only zero values in it.
LEMMA ZeroOutside ==
  ASSUME NEW h, NEW T \in DOMAIN Def
  PROVE  /\ FitsOutside(h, T, Zero[T]) /\ ~IsInPlace(Zero[T])
         /\ \A q \in Inside(h, T, Zero[T]) :
              \/ q = <<NoType, Nothing>>
              \/ \E S \in DOMAIN Def : q = <<S, Zero[S]>>
<1>1. ReflectKind(T) \in Kinds
  BY UnderIs
<1>2. CASE ReflectKind(T) \in {"struct", "array"}
  <2>1. PICK z : z = Zero[T]
    OBVIOUS
  <2>2. z = Fresh(ReflectKind(T), [i \in DOMAIN PartTypes(T) |-> Zero[PartTypes(T)[i]]])
    BY <1>2, <2>1, ZeroKinds DEF IsAggregate, Has, IsType
  <2>3. z.tag = ReflectKind(T) /\ z.parts = [i \in DOMAIN PartTypes(T) |-> Zero[PartTypes(T)[i]]] /\ ~IsInPlace(z)
    BY <2>2 DEF Fresh, IsInPlace
  <2>4. FitsOutside(h, T, z)
    BY <1>2, <2>3 DEF FitsOutside, IsType, Has, IsAggregate, Places
  <2>5. Inside(h, T, z) = {<<PartTypes(T)[i], z.parts[i]>> : i \in DOMAIN PartTypes(T)}
    BY <1>2, <2>3 DEF Inside, IsType, Has, IsAggregate
  <2>6. \A i \in DOMAIN PartTypes(T) : z.parts[i] = Zero[PartTypes(T)[i]] /\ PartTypes(T)[i] \in DOMAIN Def
    BY <2>3, PartsAre
  <2> QED BY <2>1, <2>3, <2>4, <2>5, <2>6
<1>3. CASE ReflectKind(T) = "iface"
  <2>1. Zero[T] = NilIface
    BY <1>3, ZeroKinds
  <2>2. NilIface.tag = "iface" /\ NilIface.t = NoType /\ NilIface.v = Nothing /\ ~IsInPlace(NilIface)
        /\ NilIface = Dyn(NilIface.t, NilIface.v)
    BY DEF NilIface, Dyn, IsInPlace
  <2>3. FitsOutside(h, T, NilIface)
    BY <1>3, <2>2 DEF FitsOutside, IsType, Has, IsAggregate
  <2>4. Inside(h, T, NilIface) = {<<NoType, Nothing>>}
    BY <1>3, <2>2 DEF Inside, IsType, Has, IsAggregate
  <2> QED BY <2>1, <2>2, <2>3, <2>4
<1>4. CASE ReflectKind(T) \in {"ptr", "slice", "chan", "func"} \cup DOMAIN Bits
  <2>1. PICK z : z = Zero[T]
    OBVIOUS
  <2>2. /\ ReflectKind(T) = "ptr" => z = Ptr(NoPlace)
        /\ ReflectKind(T) = "slice" => z = Slice(TRUE, <<>>)
        /\ ReflectKind(T) = "chan" => z = Chan(TRUE, 0)
        /\ ReflectKind(T) = "func" => z = Func(TRUE)
        /\ ReflectKind(T) \in DOMAIN Bits => z = Num(TagOf(T), 0)
    BY <2>1, ZeroKinds
  <2>3. FitsOutside(h, T, z) /\ ~IsInPlace(z)
    <3>1. CASE ReflectKind(T) = "ptr"
      <4>1. z.tag = "ptr" /\ z.cell = NoPlace /\ z = Ptr(z.cell) /\ ~IsInPlace(z)
        BY <2>2, <3>1 DEF Ptr, IsInPlace
      <4> QED BY <3>1, <4>1 DEF FitsOutside, IsType, Has, IsAggregate
    <3>2. CASE ReflectKind(T) = "slice"
      <4>1. z.tag = "slice" /\ z.nil = TRUE /\ z.slots = <<>> /\ z = Slice(z.nil, z.slots) /\ ~IsInPlace(z)
        BY <2>2, <3>2 DEF Slice, IsInPlace
      <4>2. DOMAIN z.slots = {}
        BY <4>1
      <4>3. FitsOutside(h, T, z)
        BY <3>2, <4>1, <4>2 DEF FitsOutside, IsType, Has, IsAggregate
      <4> QED BY <4>1, <4>3
    <3>3. CASE ReflectKind(T) = "chan"
      <4>1. z.tag = "chan" /\ z.nil = TRUE /\ z.cap = 0 /\ z = Chan(z.nil, z.cap) /\ ~IsInPlace(z)
        BY <2>2, <3>3 DEF Chan, IsInPlace
      <4> QED BY <3>3, <4>1 DEF FitsOutside, IsType, Has, IsAggregate
    <3>4. CASE ReflectKind(T) = "func"
      <4>1. z.tag = "func" /\ z.nil = TRUE /\ z = Func(z.nil) /\ ~IsInPlace(z)
        BY <2>2, <3>4 DEF Func, IsInPlace
      <4> QED BY <3>4, <4>1 DEF FitsOutside, IsType, Has, IsAggregate
    <3>5. CASE ReflectKind(T) \in DOMAIN Bits
      <4>1. z.tag = TagOf(T) /\ ~IsInPlace(z)
        BY <2>2, <3>5 DEF Num, IsInPlace
      <4> QED BY <3>5, <4>1 DEF FitsOutside, IsType, Has, IsAggregate, Bits
    <3> QED BY <1>4, <3>1, <3>2, <3>3, <3>4, <3>5
  <2>4. Inside(h, T, z) = {}
    BY <1>4 DEF Inside, IsType, Has, IsAggregate, Bits
  <2> QED BY <2>1, <2>3, <2>4
<1>5. CASE ReflectKind(T) = "map"
  <2>1. PICK z : z = Zero[T]
    OBVIOUS
  <2>2. z = Map(TagOf(T), TRUE, <<>>)
    BY <1>5, <2>1, ZeroKinds
  <2>3. z.tag = TagOf(T) /\ z.nil = TRUE /\ z.entries = <<>> /\ ~IsInPlace(z) /\ z = Map(z.tag, z.nil, z.entries)
    BY <2>2 DEF Map, IsInPlace
  <2>4. FitsOutside(h, T, z)
    BY <1>5, <2>3 DEF FitsOutside, IsType, Has, IsAggregate
  <2>5. Inside(h, T, z) =
          UNION {{<<U(T).key, z.entries[i].key>>, <<U(T).elem, z.entries[i].val>>} : i \in DOMAIN z.entries}
    BY <1>5 DEF Inside, IsType, Has, IsAggregate
  <2>6. Inside(h, T, z) = {}
    BY <2>3, <2>5
  <2> QED BY <2>1, <2>3, <2>4, <2>6
<1> QED BY <1>1, <1>2, <1>3, <1>4, <1>5 DEF Kinds, Composed

\* So it is whole.
LEMMA ZeroWhole ==
  ASSUME NEW h, NEW T \in DOMAIN Def
  PROVE  Whole(h, T, Zero[T])
<1> DEFINE B == {<<NoType, Nothing>>} \cup {<<S, Zero[S]>> : S \in DOMAIN Def}
<1>1. Closed(h, B)
  <2> SUFFICES ASSUME NEW q \in B
               PROVE  /\ FitsOutside(h, q[1], q[2]) /\ ~IsInPlace(q[2])
                      /\ Inside(h, q[1], q[2]) \subseteq B
    BY DEF Closed
  <2>1. CASE q = <<NoType, Nothing>>
    <3>1. NoType \notin DOMAIN Def
      BY TypesAssumption
    <3>2. FitsOutside(h, NoType, Nothing) /\ ~IsInPlace(Nothing)
      BY <3>1, WholeNone, WholeIs
    <3>3. Inside(h, NoType, Nothing) = {}
      BY <3>1, InsideKinds DEF Has, IsType, IsAggregate
    <3>4. q[1] = NoType /\ q[2] = Nothing
      BY <2>1
    <3> QED BY <3>2, <3>3, <3>4
  <2>2. CASE q # <<NoType, Nothing>>
    <3>1. PICK S \in DOMAIN Def : q = <<S, Zero[S]>>
      BY <2>2
    <3>2. q[1] = S /\ q[2] = Zero[S]
      BY <3>1
    <3>3. Inside(h, S, Zero[S]) \subseteq B
      BY ZeroOutside
    <3> QED BY <3>2, <3>3, ZeroOutside
  <2> QED BY <2>1, <2>2
<1>2. <<T, Zero[T]>> \in B
  OBVIOUS
<1> HIDE DEF B
<1> QED BY <1>1, <1>2 DEF Whole

\* The address of a variable is a whole value of the pointer type.
LEMMA PtrWhole ==
  ASSUME NEW h, NEW P, Has(P, "ptr"), NEW c \in DOMAIN h, h[c].t = U(P).elem
  PROVE  Whole(h, P, Ptr(c))
<1>1. PICK v : v = Ptr(c)
  OBVIOUS
<1>2. v.tag = "ptr" /\ v.cell = c /\ v = Ptr(v.cell) /\ ~IsInPlace(v)
  BY <1>1 DEF Ptr, IsInPlace
<1>3. FitsOutside(h, P, v)
  BY <1>2 DEF FitsOutside, IsType, Has, IsAggregate
<1>4. Inside(h, P, v) = {}
  BY InsideKinds DEF Has, IsAggregate
<1> QED BY <1>1, <1>2, <1>3, <1>4, WholeOf

\* What n steps into a value reach, from what f gives for fewer.
WithinOne(h, T, v, f, n) ==
  IF n = 0 THEN {<<T, v>>}
  ELSE f[n - 1] \cup UNION {Inside(h, q[1], q[2]) : q \in {p \in f[n - 1] : FitsOutside(h, p[1], p[2])}}

\* f gives that for less than n steps.
WithinTo(h, T, v, f, n) ==
  /\ f = [k \in 0 .. MaxNesting |-> f[k]]
  /\ \A k \in 0 .. MaxNesting : k < n => f[k] = WithinOne(h, T, v, f, k)

\* For any number of steps something does.
LEMMA WithinAll ==
  ASSUME NEW h, NEW T, NEW v
  PROVE  \A n \in Nat : \E f : WithinTo(h, T, v, f, n)
<1> DEFINE S == {n \in Nat : \E f : WithinTo(h, T, v, f, n)}
<1>1. 0 \in S
  <2>1. PICK f : f = [k \in 0 .. MaxNesting |-> {}]
    OBVIOUS
  <2>2. f = [k \in 0 .. MaxNesting |-> f[k]] /\ \A k \in 0 .. MaxNesting : ~(k < 0)
    BY <2>1, TypesAssumption
  <2> QED BY <2>2 DEF WithinTo
<1>2. ASSUME NEW n \in Nat, n \in S PROVE n + 1 \in S
  <2>1. PICK f : WithinTo(h, T, v, f, n)
    BY <1>2
  <2>2. PICK g : g = [k \in 0 .. MaxNesting |-> WithinOne(h, T, v, f, k)]
    OBVIOUS
  <2>3. ASSUME NEW k \in 0 .. MaxNesting, k < n + 1 PROVE g[k] = WithinOne(h, T, v, g, k)
    <3>1. CASE k = 0
      BY <2>2, <3>1, TypesAssumption DEF WithinOne
    <3>2. CASE k # 0
      <4>1. PICK j : j = k - 1
        OBVIOUS
      <4>2. j \in 0 .. MaxNesting /\ j < n
        BY <2>3, <3>2, <4>1, TypesAssumption
      <4>3. f[j] = WithinOne(h, T, v, f, j) /\ g[j] = WithinOne(h, T, v, f, j)
        BY <2>1, <2>2, <4>2 DEF WithinTo
      <4>4. f[k - 1] = g[k - 1]
        BY <4>1, <4>3
      <4>5. WithinOne(h, T, v, f, k) = WithinOne(h, T, v, g, k)
        BY <4>4 DEF WithinOne
      <4> QED BY <2>2, <4>5
    <3> QED BY <3>1, <3>2
  <2>4. g = [k \in 0 .. MaxNesting |-> g[k]]
    BY <2>2
  <2>5. WithinTo(h, T, v, g, n + 1)
    BY <2>3, <2>4 DEF WithinTo
  <2> QED BY <2>5
<1> HIDE DEF S
<1>3. \A n \in Nat : n \in S
  BY <1>1, <1>2, NatsIn
<1> QED BY <1>3 DEF S

\* Within is what its definition says.
LEMMA WithinIs ==
  ASSUME NEW h, NEW T, NEW v
  PROVE  \E f : /\ Within(h, T, v) = f[MaxNesting]
                /\ \A n \in 0 .. MaxNesting : f[n] = WithinOne(h, T, v, f, n)
<1>1. PICK f : WithinTo(h, T, v, f, MaxNesting + 1)
  <2>1. MaxNesting + 1 \in Nat
    BY TypesAssumption
  <2>2. \A n \in Nat : \E f : WithinTo(h, T, v, f, n)
    BY WithinAll
  <2> QED BY <2>1, <2>2
<1>2. \A k \in 0 .. MaxNesting : k < MaxNesting + 1
  BY TypesAssumption
<1>3. f = [k \in 0 .. MaxNesting |-> WithinOne(h, T, v, f, k)]
  BY <1>1, <1>2 DEF WithinTo
<1>4. PICK g : g = CHOOSE r : r = [k \in 0 .. MaxNesting |-> WithinOne(h, T, v, r, k)]
  OBVIOUS
<1>5. Within(h, T, v) = g[MaxNesting]
  BY <1>4 DEF Within, WithinOne
<1>6. g = [k \in 0 .. MaxNesting |-> WithinOne(h, T, v, g, k)]
  BY <1>3, <1>4
<1>7. \A n \in 0 .. MaxNesting : g[n] = WithinOne(h, T, v, g, n)
  BY <1>6
<1> QED BY <1>5, <1>7

\* A value is among those within it.
LEMMA WithinSelf ==
  ASSUME NEW h, NEW T, NEW v
  PROVE  <<T, v>> \in Within(h, T, v)
<1>1. PICK f : /\ Within(h, T, v) = f[MaxNesting]
               /\ \A n \in 0 .. MaxNesting : f[n] = WithinOne(h, T, v, f, n)
  BY WithinIs
<1> DEFINE S == {n \in Nat : n \in 0 .. MaxNesting => <<T, v>> \in f[n]}
<1>2. 0 \in S
  BY <1>1 DEF WithinOne
<1>3. ASSUME NEW n \in Nat, n \in S PROVE n + 1 \in S
  <2>1. ASSUME n + 1 \in 0 .. MaxNesting PROVE <<T, v>> \in f[n + 1]
    <3>1. n \in 0 .. MaxNesting /\ n + 1 # 0 /\ (n + 1) - 1 = n
      BY <2>1, TypesAssumption
    <3>2. f[n] \subseteq WithinOne(h, T, v, f, n + 1)
      BY <3>1 DEF WithinOne
    <3> QED BY <1>1, <1>3, <2>1, <3>1, <3>2
  <2> QED BY <2>1
<1> HIDE DEF S
<1>4. \A n \in Nat : n \in S
  BY <1>2, <1>3, NatsIn
<1>5. MaxNesting \in S /\ MaxNesting \in 0 .. MaxNesting
  BY <1>4, TypesAssumption
<1> QED BY <1>1, <1>5 DEF S

\* A value that is right in every reached part, and of which no part is left out, is whole.
LEMMA RightWhole ==
  ASSUME NEW h, NEW T, NEW v,
         \A q \in Within(h, T, v) : /\ FitsOutside(h, q[1], q[2]) /\ ~IsInPlace(q[2])
                                    /\ Inside(h, q[1], q[2]) \subseteq Within(h, T, v)
  PROVE  Whole(h, T, v)
<1>1. PICK S : S = Within(h, T, v)
  OBVIOUS
<1>2. Closed(h, S)
  BY <1>1 DEF Closed
<1> QED BY <1>1, <1>2, WithinSelf DEF Whole

\* The aggregate in a slot: its places are the slots under the slot.
LEMMA SlotOfIs ==
  ASSUME NEW h, HeapFits(h), NEW c \in DOMAIN h, IsAggregate(h[c].t)
  PROVE  /\ h[c].t \in DOMAIN Def /\ h[c].v.tag = ReflectKind(h[c].t) /\ IsInPlace(h[c].v)
         /\ DOMAIN h[c].v.cells = DOMAIN PartTypes(h[c].t)
         /\ \A i \in DOMAIN PartTypes(h[c].t) :
              /\ h[c].v.cells[i] = Under(c, i)
              /\ Under(c, i) \in DOMAIN h /\ h[Under(c, i)].t = PartTypes(h[c].t)[i]
         /\ FitsOutside(h, h[c].t, h[c].v)
<1>1. PICK T, v : T = h[c].t /\ v = h[c].v
  OBVIOUS
<1>2. T \in DOMAIN Def /\ AsLaid(h, c)
  BY <1>1 DEF HeapFits, SlotFits
<1>3. v = InPlace(ReflectKind(T), [i \in DOMAIN PartTypes(T) |-> Under(c, i)])
  BY <1>1, <1>2 DEF AsLaid
<1>4. v.tag = ReflectKind(T) /\ v.cells = [i \in DOMAIN PartTypes(T) |-> Under(c, i)] /\ IsInPlace(v)
  BY <1>3 DEF InPlace, IsInPlace
<1>5. \A i \in DOMAIN PartTypes(T) : Under(c, i) \in DOMAIN h /\ h[Under(c, i)].t = PartTypes(T)[i]
  BY <1>1, <1>2 DEF AsLaid
<1>6. FitsOutside(h, T, v)
  <2>1. ReflectKind(T) \in {"struct", "array"} /\ T \in DOMAIN Def
    BY <1>1, <1>2 DEF IsAggregate, Has
  <2> QED BY <1>4, <1>5, <2>1 DEF FitsOutside, IsType, Has, IsAggregate, Places
<1> QED BY <1>1, <1>2, <1>4, <1>5, <1>6

\* What a slot holds sits in its type.
LEMMA SlotSits ==
  ASSUME NEW h, HeapFits(h), NEW c \in DOMAIN h
  PROVE  /\ c # NoPlace /\ h[c].t \in DOMAIN Def /\ Sits(h, h[c].t, h[c].v)
         /\ ~IsAggregate(h[c].t) => Whole(h, h[c].t, h[c].v)
         /\ IsInPlace(h[c].v) <=> IsAggregate(h[c].t)
<1>1. SlotFits(h, c)
  BY DEF HeapFits
<1>2. CASE IsAggregate(h[c].t)
  BY <1>1, <1>2, SlotOfIs DEF Sits, SlotOf, SlotFits
<1>3. CASE ~IsAggregate(h[c].t)
  <2>1. Whole(h, h[c].t, h[c].v) /\ h[c].t \in DOMAIN Def /\ c # NoPlace
    BY <1>1, <1>3 DEF SlotFits
  <2> QED BY <1>3, <2>1, WholeIs DEF Sits
<1> QED BY <1>2, <1>3

\* A value that sits in a type fits, and so do those in it.
LEMMA SitsIs ==
  ASSUME NEW h, HeapFits(h), NEW T, NEW v, Sits(h, T, v)
  PROVE  /\ FitsOutside(h, T, v)
         /\ \A S, w : <<S, w>> \in Inside(h, T, v) => Sits(h, S, w)
<1>1. CASE Whole(h, T, v)
  BY <1>1, WholeIs DEF Sits
<1>2. CASE SlotOf(h, T, v)
  <2>1. PICK c \in DOMAIN h : h[c].t = T /\ h[c].v = v
    BY <1>2 DEF SlotOf
  <2>2. IsAggregate(T) /\ IsInPlace(v) /\ FitsOutside(h, T, v)
    BY <1>2, <2>1, SlotOfIs DEF SlotOf
  <2>3. Inside(h, T, v) = {<<PartTypes(T)[i], h[v.cells[i]].v>> : i \in DOMAIN PartTypes(T)}
    BY <2>2 DEF Inside, IsAggregate, Has
  <2>4. \A i \in DOMAIN PartTypes(T) :
          v.cells[i] \in DOMAIN h /\ h[v.cells[i]].t = PartTypes(T)[i]
    BY <2>1, <2>2, SlotOfIs
  <2>5. ASSUME NEW S, NEW w, <<S, w>> \in Inside(h, T, v) PROVE Sits(h, S, w)
    <3>1. PICK i \in DOMAIN PartTypes(T) : S = PartTypes(T)[i] /\ w = h[v.cells[i]].v
      BY <2>3, <2>5
    <3>2. PICK d : d = v.cells[i]
      OBVIOUS
    <3>3. d \in DOMAIN h /\ h[d].t = S /\ h[d].v = w
      BY <2>4, <3>1, <3>2
    <3> QED BY <3>3, SlotSits
  <2> QED BY <2>2, <2>5
<1> QED BY <1>1, <1>2 DEF Sits

\* Everything reached from a value that sits in a type fits.
LEMMA SitsFits ==
  ASSUME NEW h, HeapFits(h), NEW T, NEW v, Sits(h, T, v)
  PROVE  \A q \in Within(h, T, v) : FitsOutside(h, q[1], q[2])
<1>1. PICK f : /\ Within(h, T, v) = f[MaxNesting]
               /\ \A n \in 0 .. MaxNesting : f[n] = WithinOne(h, T, v, f, n)
  BY WithinIs
<1> DEFINE S == {n \in Nat : n \in 0 .. MaxNesting => \A q \in f[n] : Sits(h, q[1], q[2])}
<1>2. 0 \in S
  <2>0. 0 \in 0 .. MaxNesting
    BY TypesAssumption
  <2>1. f[0] = {<<T, v>>}
    BY <1>1, <2>0 DEF WithinOne
  <2>2. \A q \in f[0] : q[1] = T /\ q[2] = v
    BY <2>1
  <2> QED BY <2>2
<1>3. ASSUME NEW n \in Nat, n \in S PROVE n + 1 \in S
  <2>1. ASSUME n + 1 \in 0 .. MaxNesting, NEW q \in f[n + 1] PROVE Sits(h, q[1], q[2])
    <3>1. n \in 0 .. MaxNesting /\ n + 1 # 0 /\ (n + 1) - 1 = n
      BY <2>1, TypesAssumption
    <3>2. f[n + 1] = f[n] \cup UNION {Inside(h, p[1], p[2]) : p \in {r \in f[n] : FitsOutside(h, r[1], r[2])}}
      BY <1>1, <2>1, <3>1 DEF WithinOne
    <3>3. \A p \in f[n] : Sits(h, p[1], p[2])
      BY <1>3, <3>1
    <3>4. CASE q \in f[n]
      BY <3>3, <3>4
    <3>5. CASE q \notin f[n]
      <4>1. PICK p \in f[n] : q \in Inside(h, p[1], p[2])
        BY <2>1, <3>2, <3>5
      <4>2. q = <<q[1], q[2]>>
        BY <4>1, InsidePairs
      <4>3. Sits(h, p[1], p[2])
        BY <3>3
      <4>4. \A R, w : <<R, w>> \in Inside(h, p[1], p[2]) => Sits(h, R, w)
        BY <4>3, SitsIs
      <4> QED BY <4>1, <4>2, <4>4
    <3> QED BY <3>4, <3>5
  <2> QED BY <2>1
<1> HIDE DEF S
<1>4. \A n \in Nat : n \in S
  BY <1>2, <1>3, NatsIn
<1>5. MaxNesting \in S /\ MaxNesting \in 0 .. MaxNesting
  BY <1>4, TypesAssumption
<1>6. \A q \in Within(h, T, v) : Sits(h, q[1], q[2])
  BY <1>1, <1>5 DEF S
<1> QED BY <1>6, SitsIs

\* Where slots are added and aggregates stay, what sits goes on sitting.
LEMMA SitsMoves ==
  ASSUME NEW h, NEW h2, Keeps(h, h2), NEW T, NEW v, Sits(h, T, v),
         \A c \in DOMAIN h : IsAggregate(h[c].t) => h2[c].v = h[c].v
  PROVE  Sits(h2, T, v)
<1>1. CASE Whole(h, T, v)
  BY <1>1, WholeMoves DEF Sits
<1>2. CASE SlotOf(h, T, v)
  <2>1. PICK c \in DOMAIN h : h[c].t = T /\ h[c].v = v /\ IsAggregate(T)
    BY <1>2 DEF SlotOf
  <2>2. c \in DOMAIN h2 /\ h2[c].t = T /\ h2[c].v = v
    BY <2>1 DEF Keeps
  <2> QED BY <2>1, <2>2 DEF Sits, SlotOf
<1> QED BY <1>1, <1>2 DEF Sits

\* What a load of a slot makes, from what f gives for the slots under it.
LoadedOne(f, c) ==
  IF IsInPlace(heap[c].v)
  THEN Fresh(heap[c].v.tag, [i \in DOMAIN heap[c].v.cells |-> f[heap[c].v.cells[i]]])
  ELSE heap[c].v

\* f gives the loads of the slots whose types are on level n.
LoadedTo(f, n) ==
  n \in 0 .. MaxNesting =>
    /\ f = [c \in DOMAIN heap |-> f[c]]
    /\ \A c \in DOMAIN heap : heap[c].t \in Nesting[n] => f[c] = LoadedOne(f, c)

\* The load of a slot depends on those of the slots of its parts only.
LEMMA LoadedSame ==
  ASSUME HeapFits(heap), NEW f, NEW g, NEW c \in DOMAIN heap,
         \A i \in DOMAIN PartTypes(heap[c].t) : f[Under(c, i)] = g[Under(c, i)]
  PROVE  LoadedOne(f, c) = LoadedOne(g, c)
<1>1. CASE ~IsInPlace(heap[c].v)
  BY <1>1 DEF LoadedOne
<1>2. CASE IsInPlace(heap[c].v)
  <2>1. IsAggregate(heap[c].t)
    BY <1>2, SlotSits
  <2>2. PICK v : v = heap[c].v
    OBVIOUS
  <2>3. DOMAIN v.cells = DOMAIN PartTypes(heap[c].t) /\ \A i \in DOMAIN v.cells : v.cells[i] = Under(c, i)
    BY <2>1, <2>2, SlotOfIs
  <2>4. \A i \in DOMAIN v.cells : f[v.cells[i]] = g[v.cells[i]]
    BY <2>3
  <2>5. [i \in DOMAIN v.cells |-> f[v.cells[i]]] = [i \in DOMAIN v.cells |-> g[v.cells[i]]]
    BY <2>4
  <2> QED BY <1>2, <2>2, <2>5 DEF LoadedOne
<1> QED BY <1>1, <1>2

\* On every level something gives the loads.
LEMMA LoadedAll ==
  ASSUME HeapFits(heap)
  PROVE  \A n \in Nat : \E f : LoadedTo(f, n)
<1> DEFINE S == {n \in Nat : \E f : LoadedTo(f, n)}
<1>1. 0 \in S
  <2>1. PICK f : f = [c \in DOMAIN heap |-> {}]
    OBVIOUS
  <2>2. LoadedTo(f, 0)
    BY <2>1, NestingNone DEF LoadedTo
  <2> QED BY <2>2
<1>2. ASSUME NEW n \in Nat, n \in S PROVE n + 1 \in S
  <2>1. PICK f : LoadedTo(f, n)
    BY <1>2
  <2>2. PICK g : g = [c \in DOMAIN heap |-> LoadedOne(f, c)]
    OBVIOUS
  <2>3. ASSUME n + 1 \in 0 .. MaxNesting, NEW c \in DOMAIN heap, heap[c].t \in Nesting[n + 1]
        PROVE  g[c] = LoadedOne(g, c)
    <3>0. heap[c].t \in DOMAIN Def
      BY SlotSits
    <3>1. n \in 0 .. MaxNesting /\ \A i \in DOMAIN PartTypes(heap[c].t) : PartTypes(heap[c].t)[i] \in Nesting[n]
      BY <2>3, <3>0, NestingStep
    <3>2. ASSUME NEW i \in DOMAIN PartTypes(heap[c].t) PROVE g[Under(c, i)] = f[Under(c, i)]
      <4>0. IsAggregate(heap[c].t)
        <5>1. ~IsAggregate(heap[c].t) => PartTypes(heap[c].t) = <<>>
          BY DEF PartTypes, IsAggregate
        <5> QED BY <5>1
      <4>1. PICK d : d = Under(c, i)
        OBVIOUS
      <4>2. d \in DOMAIN heap /\ heap[d].t = PartTypes(heap[c].t)[i]
        BY <4>0, <4>1, SlotOfIs
      <4>3. heap[d].t \in Nesting[n]
        BY <3>1, <4>2
      <4>4. f[d] = LoadedOne(f, d) /\ g[d] = LoadedOne(f, d)
        BY <2>1, <2>2, <3>1, <4>2, <4>3 DEF LoadedTo
      <4> QED BY <4>1, <4>4
    <3>3. LoadedOne(g, c) = LoadedOne(f, c)
      BY <3>2, LoadedSame
    <3> QED BY <2>2, <3>3
  <2>4. g = [c \in DOMAIN heap |-> g[c]]
    BY <2>2
  <2>5. LoadedTo(g, n + 1)
    BY <2>3, <2>4 DEF LoadedTo
  <2> QED BY <2>5
<1> HIDE DEF S
<1>3. \A n \in Nat : n \in S
  BY <1>1, <1>2, NatsIn
<1> QED BY <1>3 DEF S

\* Loaded is what its definition says.
LEMMA LoadedIs ==
  ASSUME HeapFits(heap)
  PROVE  \A c \in DOMAIN heap : Loaded[c] = LoadedOne(Loaded, c)
<1>1. PICK f : LoadedTo(f, MaxNesting)
  BY LoadedAll, TypesAssumption
<1>2. MaxNesting \in 0 .. MaxNesting /\ \A c \in DOMAIN heap : heap[c].t \in Nesting[MaxNesting]
  BY TypesAssumption, SlotSits
<1>3. f = [c \in DOMAIN heap |-> LoadedOne(f, c)]
  BY <1>1, <1>2 DEF LoadedTo
<1>4. Loaded = CHOOSE g : g = [c \in DOMAIN heap |-> LoadedOne(g, c)]
  BY DEF Loaded, LoadedOne
<1>5. Loaded = [c \in DOMAIN heap |-> LoadedOne(Loaded, c)]
  BY <1>3, <1>4
<1> QED BY <1>5

\* A new aggregate of whole values is whole.
LEMMA FreshWhole ==
  ASSUME NEW h, NEW T, IsAggregate(T), NEW parts, DOMAIN parts = DOMAIN PartTypes(T),
         \A i \in DOMAIN parts : Whole(h, PartTypes(T)[i], parts[i])
  PROVE  Whole(h, T, Fresh(ReflectKind(T), parts))
<1>1. PICK v : v = Fresh(ReflectKind(T), parts)
  OBVIOUS
<1>2. v.tag = ReflectKind(T) /\ v.parts = parts /\ ~IsInPlace(v)
  BY <1>1 DEF Fresh, IsInPlace
<1>3. FitsOutside(h, T, v)
  <2>1. T \in DOMAIN Def /\ ReflectKind(T) \in {"struct", "array"}
    BY DEF IsAggregate, Has, IsType
  <2> QED BY <1>2, <2>1 DEF FitsOutside, IsType, Has, IsAggregate, Places
<1>4. Inside(h, T, v) = {<<PartTypes(T)[i], parts[i]>> : i \in DOMAIN PartTypes(T)}
  BY <1>2 DEF Inside, IsAggregate, Has
<1>5. \A S, w : <<S, w>> \in Inside(h, T, v) => Whole(h, S, w)
  BY <1>4
<1>6. \A q \in Inside(h, T, v) : q = <<q[1], q[2]>>
  BY InsidePairs
<1> QED BY <1>1, <1>2, <1>3, <1>5, <1>6, WholeOf

\* The load of a slot is a whole value of the slot's type.
LEMMA LoadedWhole ==
  ASSUME HeapFits(heap)
  PROVE  \A c \in DOMAIN heap : Whole(heap, heap[c].t, Loaded[c])
<1> DEFINE S == {T \in DOMAIN Def : \A c \in DOMAIN heap : heap[c].t = T => Whole(heap, T, Loaded[c])}
<1>1. ASSUME NEW T \in DOMAIN Def, \A i \in DOMAIN PartTypes(T) : PartTypes(T)[i] \in S
      PROVE  T \in S
  <2> SUFFICES ASSUME NEW c \in DOMAIN heap, heap[c].t = T
               PROVE  Whole(heap, T, Loaded[c])
    OBVIOUS
  <2>1. Loaded[c] = LoadedOne(Loaded, c)
    BY LoadedIs
  <2>2. CASE ~IsAggregate(T)
    <3>1. Whole(heap, T, heap[c].v) /\ ~IsInPlace(heap[c].v)
      BY <2>2, SlotSits
    <3> QED BY <2>1, <3>1 DEF LoadedOne
  <2>3. CASE IsAggregate(T)
    <3>1. PICK v : v = heap[c].v
      OBVIOUS
    <3>2. /\ IsInPlace(v) /\ v.tag = ReflectKind(T) /\ DOMAIN v.cells = DOMAIN PartTypes(T)
          /\ \A i \in DOMAIN PartTypes(T) :
               v.cells[i] = Under(c, i) /\ Under(c, i) \in DOMAIN heap /\ heap[Under(c, i)].t = PartTypes(T)[i]
      BY <2>3, <3>1, SlotOfIs
    <3>3. PICK parts : parts = [i \in DOMAIN v.cells |-> Loaded[v.cells[i]]]
      OBVIOUS
    <3>4. ASSUME NEW i \in DOMAIN parts PROVE Whole(heap, PartTypes(T)[i], parts[i])
      <4>1. PICK d : d = Under(c, i)
        OBVIOUS
      <4>2. d \in DOMAIN heap /\ heap[d].t = PartTypes(T)[i] /\ parts[i] = Loaded[d]
        BY <3>2, <3>3, <4>1
      <4>3. PartTypes(T)[i] \in S
        BY <1>1, <3>2, <3>3
      <4> QED BY <4>2, <4>3
    <3>5. Whole(heap, T, Fresh(ReflectKind(T), parts))
      <4>1. DOMAIN parts = DOMAIN PartTypes(T)
        BY <3>2, <3>3
      <4> HIDE DEF S
      <4> QED BY <2>3, <3>4, <4>1, FreshWhole
    <3>6. LoadedOne(Loaded, c) = Fresh(ReflectKind(T), parts)
      BY <3>1, <3>2, <3>3 DEF LoadedOne
    <3> QED BY <2>1, <3>5, <3>6
  <2> QED BY <2>2, <2>3
<1> HIDE DEF S
<1>2. \A T \in DOMAIN Def : T \in S
  BY <1>1, TypesIn
<1> QED BY <1>2, SlotSits DEF S

\* So is what Load makes of the value in a slot.
LEMMA LoadWhole ==
  ASSUME HeapFits(heap), NEW c \in DOMAIN heap
  PROVE  Whole(heap, heap[c].t, Load(heap[c].v))
<1>1. Load(heap[c].v) = LoadedOne(Loaded, c)
  BY DEF Load, LoadedOne
<1>2. Loaded[c] = LoadedOne(Loaded, c)
  BY LoadedIs
<1> QED BY <1>1, <1>2, LoadedWhole

\* The content of a whole value is the value.
LEMMA ContentIs ==
  ASSUME NEW h, NEW T, NEW v, Whole(h, T, v)
  PROVE  Content(v) = v
<1>1. FitsOutside(h, T, v) /\ ~IsInPlace(v)
  BY WholeIs
<1>2. CASE v.tag # "iface"
  BY <1>1, <1>2 DEF Content, Load
<1>3. CASE v.tag = "iface"
  <2>1. T \in DOMAIN Def /\ ReflectKind(T) = "iface"
    BY <1>1, <1>3, FitTags DEF Composed
  <2>2. v = Dyn(v.t, v.v)
    BY <1>1, <2>1, FitKinds
  <2>3. <<v.t, v.v>> \in Inside(h, T, v)
    BY <2>1, InsideKinds DEF Has, IsType
  <2>4. ~IsInPlace(v.v)
    BY <2>3, WholeIs
  <2> QED BY <1>3, <2>2, <2>4 DEF Content, Load
<1> QED BY <1>2, <1>3

-----------------------------------------------------------------------------
\* The slots -----------------------------------------------------------------------------------

\* The slots of a new variable.
LEMMA SlotsAre ==
  ASSUME NEW x, NEW T \in DOMAIN Def
  PROVE  /\ \A c : c \in DOMAIN Slots(x, T) <=> \E p \in DOMAIN Laid[T] : c = <<x, p>>
         /\ \A p \in DOMAIN Laid[T] :
              Slots(x, T)[<<x, p>>] =
                [t |-> Laid[T][p],
                 v |-> IF IsAggregate(Laid[T][p])
                       THEN InPlace(ReflectKind(Laid[T][p]),
                                    [i \in DOMAIN PartTypes(Laid[T][p]) |-> Under(<<x, p>>, i)])
                       ELSE Zero[Laid[T][p]]]
<1>1. DOMAIN Slots(x, T) = {<<x, p>> : p \in DOMAIN Laid[T]}
  BY DEF Slots
<1>2. \A c : c \in DOMAIN Slots(x, T) <=> \E p \in DOMAIN Laid[T] : c = <<x, p>>
  BY <1>1
<1>3. ASSUME NEW p \in DOMAIN Laid[T]
      PROVE  Slots(x, T)[<<x, p>>] =
                [t |-> Laid[T][p],
                 v |-> IF IsAggregate(Laid[T][p])
                       THEN InPlace(ReflectKind(Laid[T][p]),
                                    [i \in DOMAIN PartTypes(Laid[T][p]) |-> Under(<<x, p>>, i)])
                       ELSE Zero[Laid[T][p]]]
  <2>1. PICK c : c = <<x, p>>
    OBVIOUS
  <2>2. c \in {<<x, q>> : q \in DOMAIN Laid[T]} /\ c[2] = p
    BY <2>1
  <2>3. Slots(x, T)[c] =
                [t |-> Laid[T][c[2]],
                 v |-> IF IsAggregate(Laid[T][c[2]])
                       THEN InPlace(ReflectKind(Laid[T][c[2]]),
                                    [i \in DOMAIN PartTypes(Laid[T][c[2]]) |-> Under(c, i)])
                       ELSE Zero[Laid[T][c[2]]]]
    BY <2>2 DEF Slots
  <2> QED BY <2>1, <2>2, <2>3
<1> QED BY <1>2, <1>3

\* c is the slot, of type S, at path p of a new variable.
SlotAt(x, T, p, c, S) ==
  /\ c \in DOMAIN Slots(x, T)
  /\ Slots(x, T)[c] = [t |-> S, v |-> Slots(x, T)[c].v]
  /\ Slots(x, T)[c].t = S
  /\ IsAggregate(S) =>
       Slots(x, T)[c].v = InPlace(ReflectKind(S), [i \in DOMAIN PartTypes(S) |-> Under(c, i)])
  /\ ~IsAggregate(S) => Slots(x, T)[c].v = Zero[S]

\* There is one at every path.
LEMMA SlotIs ==
  ASSUME NEW x, NEW T \in DOMAIN Def, NEW p \in DOMAIN Laid[T], NEW c, c = <<x, p>>, NEW S, S = Laid[T][p]
  PROVE  SlotAt(x, T, p, c, S)
<1>1. c \in DOMAIN Slots(x, T)
  BY SlotsAre
<1>2. Slots(x, T)[<<x, p>>] =
        [t |-> S,
         v |-> IF IsAggregate(S)
               THEN InPlace(ReflectKind(S), [i \in DOMAIN PartTypes(S) |-> Under(<<x, p>>, i)])
               ELSE Zero[S]]
  BY SlotsAre
<1>3. PICK s : s = Slots(x, T)[<<x, p>>]
  OBVIOUS
<1>4. s = [t |-> S,
           v |-> IF IsAggregate(S)
                 THEN InPlace(ReflectKind(S), [i \in DOMAIN PartTypes(S) |-> Under(c, i)])
                 ELSE Zero[S]]
  BY <1>2, <1>3
<1>5. /\ s = [t |-> S, v |-> s.v] /\ s.t = S
      /\ IsAggregate(S) => s.v = InPlace(ReflectKind(S), [i \in DOMAIN PartTypes(S) |-> Under(c, i)])
      /\ ~IsAggregate(S) => s.v = Zero[S]
  BY <1>4
<1>6. s = Slots(x, T)[c]
  BY <1>3
<1> QED BY <1>1, <1>5, <1>6 DEF SlotAt

\* The slots of a variable fit where they are as they were laid out, but for scalars.
LEMMA SlotsFit ==
  ASSUME NEW h, NEW x, NEW T \in DOMAIN Def, DOMAIN Slots(x, T) \subseteq DOMAIN h,
         \A c \in DOMAIN Slots(x, T) :
           /\ h[c] = [t |-> Slots(x, T)[c].t, v |-> h[c].v]
           /\ IF IsAggregate(h[c].t) THEN h[c].v = Slots(x, T)[c].v ELSE Whole(h, h[c].t, h[c].v)
  PROVE  \A c \in DOMAIN Slots(x, T) : SlotFits(h, c)
<1> SUFFICES ASSUME NEW p \in DOMAIN Laid[T], NEW c, c = <<x, p>> PROVE SlotFits(h, c)
  BY SlotsAre
<1>1. c \in DOMAIN Slots(x, T)
  BY SlotsAre
<1>2. PICK S : S = Laid[T][p]
  OBVIOUS
<1>3. LaidRight(T)
  BY LaidAreRight
<1>4. S \in DOMAIN Def
  BY <1>2, <1>3 DEF LaidRight
<1>5. SlotAt(x, T, p, c, S)
  BY <1>2, SlotIs
<1>6. h[c] = [t |-> S, v |-> h[c].v] /\ h[c].t = S /\ c # NoPlace
  BY <1>1, <1>5 DEF SlotAt, NoPlace
<1>7. CASE IsAggregate(S)
  <2>1. h[c].v = Slots(x, T)[c].v
    BY <1>1, <1>6, <1>7
  <2>2. Slots(x, T)[c].v = InPlace(ReflectKind(S), [i \in DOMAIN PartTypes(S) |-> Under(c, i)])
    BY <1>5, <1>7 DEF SlotAt
  <2>3. ASSUME NEW i \in DOMAIN PartTypes(S)
        PROVE  Under(c, i) \in DOMAIN h /\ h[Under(c, i)].t = PartTypes(S)[i]
    <3>1. PICK r : r = Append(p, i)
      OBVIOUS
    <3>2. r \in DOMAIN Laid[T] /\ Laid[T][r] = PartTypes(S)[i]
      BY <1>2, <1>3, <3>1 DEF LaidRight
    <3>3. PICK d : d = <<x, r>>
      OBVIOUS
    <3>4. PICK R : R = PartTypes(S)[i]
      OBVIOUS
    <3>5. SlotAt(x, T, r, d, R)
      BY <3>2, <3>3, <3>4, SlotIs
    <3>7. d \in DOMAIN h /\ h[d].t = R
      <4>1. d \in DOMAIN Slots(x, T) /\ Slots(x, T)[d].t = R
        BY <3>5 DEF SlotAt
      <4>2. h[d] = [t |-> Slots(x, T)[d].t, v |-> h[d].v]
        BY <4>1
      <4> QED BY <4>1, <4>2
    <3>6. Under(c, i) = d
      BY <3>1, <3>3 DEF Under
    <3> QED BY <3>4, <3>6, <3>7
  <2>4. AsLaid(h, c)
    BY <1>6, <2>1, <2>2, <2>3 DEF AsLaid
  <2> QED BY <1>4, <1>6, <1>7, <2>4 DEF SlotFits
<1>8. CASE ~IsAggregate(S)
  <2>1. Whole(h, h[c].t, h[c].v)
    BY <1>1, <1>6, <1>8
  <2> QED BY <1>4, <1>6, <1>8, <2>1 DEF SlotFits
<1> QED BY <1>7, <1>8

\* What the program stores.
RightIn(h, T, v) ==
  /\ ~IsAggregate(T)
  /\ \A q \in Within(h, T, v) : /\ FitsOutside(h, q[1], q[2]) /\ ~IsInPlace(q[2])
                                /\ Inside(h, q[1], q[2]) \subseteq Within(h, T, v)

\* It stores whole values.
LEMMA InitialWhole ==
  /\ \A c \in DOMAIN Initial : ~IsAggregate(InitHeap[c].t) /\ Whole(InitHeap, InitHeap[c].t, Initial[c])
  /\ \A T \in DOMAIN Stored : \A v \in Stored[T] : ~IsAggregate(T) /\ Whole(InitHeap, T, v)
  /\ Vars \in Seq(DOMAIN Def)
<1>1. PICK h : h = InitHeap
  OBVIOUS
<1>2. /\ \A c \in DOMAIN Initial : RightIn(h, h[c].t, Initial[c])
      /\ \A T \in DOMAIN Stored : \A v \in Stored[T] : RightIn(h, T, v)
      /\ Vars \in Seq(DOMAIN Def)
  BY <1>1, ValuesAssumption DEF RightIn
<1>3. \A T, v : RightIn(h, T, v) => ~IsAggregate(T) /\ Whole(h, T, v)
  BY RightWhole DEF RightIn
<1> QED BY <1>1, <1>2, <1>3

\* The variables fit from the beginning.
LEMMA InitFits == HeapFits(InitHeap)
<1>1. PICK h : h = InitHeap
  OBVIOUS
<1> DEFINE Slot(c) == Slots(c[1], Vars[c[1]])[c]
<1>2. h = [c \in UNION {DOMAIN Slots(x, Vars[x]) : x \in DOMAIN Vars} |->
             IF c \in DOMAIN Initial THEN [Slot(c) EXCEPT !.v = Initial[c]] ELSE Slot(c)]
  BY <1>1 DEF InitHeap
<1>3. \A x \in DOMAIN Vars : Vars[x] \in DOMAIN Def
  <2>1. PICK s : s = Vars
    OBVIOUS
  <2>2. s \in Seq(DOMAIN Def)
    BY <2>1, InitialWhole
  <2> QED BY <2>1, <2>2, LenProperties, ElementOfSeq
<1>4. ASSUME NEW x \in DOMAIN Vars, NEW T, T = Vars[x]
      PROVE  \A c \in DOMAIN Slots(x, T) : SlotFits(h, c)
  <2>1. T \in DOMAIN Def
    BY <1>3, <1>4
  <2>2. DOMAIN Slots(x, T) \subseteq DOMAIN h
    BY <1>2, <1>4
  <2>3. ASSUME NEW c \in DOMAIN Slots(x, T)
        PROVE  /\ h[c] = [t |-> Slots(x, T)[c].t, v |-> h[c].v]
               /\ IF IsAggregate(h[c].t) THEN h[c].v = Slots(x, T)[c].v ELSE Whole(h, h[c].t, h[c].v)
    <3>1. PICK s : s = Slots(x, T)[c]
      OBVIOUS
    <3>2. PICK p \in DOMAIN Laid[T] : c = <<x, p>>
      BY <2>1, SlotsAre
    <3>3. Slot(c) = s
      BY <1>4, <3>1, <3>2
    <3>4. PICK S : S = Laid[T][p]
      OBVIOUS
    <3>5. /\ s = [t |-> S, v |-> s.v]
          /\ ~IsAggregate(S) => s.v = Zero[S]
      <4>1. SlotAt(x, T, p, c, S)
        BY <2>1, <3>2, <3>4, SlotIs
      <4> QED BY <3>1, <4>1 DEF SlotAt
    <3>6. S \in DOMAIN Def
      BY <2>1, <3>4, LaidAreRight DEF LaidRight
    <3> HIDE DEF Slot
    <3>7. CASE c \in DOMAIN Initial
      <4>1. h[c] = [s EXCEPT !.v = Initial[c]]
        BY <1>2, <2>2, <3>3, <3>7
      <4>2. h[c] = [t |-> S, v |-> Initial[c]]
        BY <3>5, <4>1
      <4>3. ~IsAggregate(h[c].t) /\ Whole(h, h[c].t, Initial[c])
        BY <1>1, <3>7, InitialWhole
      <4> QED BY <3>1, <3>5, <4>2, <4>3
    <3>8. CASE c \notin DOMAIN Initial
      <4>1. h[c] = s
        BY <1>2, <2>2, <3>3, <3>8
      <4>2. h[c].t = S /\ h[c].v = s.v
        BY <3>5, <4>1
      <4>3. ~IsAggregate(S) => Whole(h, S, h[c].v)
        BY <3>5, <3>6, <4>2, ZeroWhole
      <4> QED BY <3>1, <3>5, <4>1, <4>2, <4>3
    <3> QED BY <3>7, <3>8
  <2> QED BY <2>1, <2>2, <2>3, SlotsFit
<1>5. ASSUME NEW c \in DOMAIN h PROVE SlotFits(h, c)
  <2>1. PICK x \in DOMAIN Vars : c \in DOMAIN Slots(x, Vars[x])
    BY <1>2
  <2> QED BY <1>4, <2>1
<1>6. h = [c \in DOMAIN h |-> h[c]]
  BY <1>2
<1> QED BY <1>1, <1>5, <1>6 DEF HeapFits

\* They fit with a variable more.
LEMMA NewFits ==
  ASSUME HeapFits(heap), NEW T \in DOMAIN Def, NEW x, x \notin Allocated,
         NEW h,
         h = [c \in DOMAIN heap \cup DOMAIN Slots(x, T) |->
                IF c \in DOMAIN heap THEN heap[c] ELSE Slots(x, T)[c]]
  PROVE  /\ HeapFits(h) /\ Keeps(heap, h)
         /\ \A c \in DOMAIN heap : h[c] = heap[c]
         /\ <<x, <<>>>> \in DOMAIN h /\ h[<<x, <<>>>>].t = T
<1>1. h = [c \in DOMAIN heap \cup DOMAIN Slots(x, T) |->
             IF c \in DOMAIN heap THEN heap[c] ELSE Slots(x, T)[c]]
  OBVIOUS
<1>2. ASSUME NEW c \in DOMAIN Slots(x, T) PROVE c \notin DOMAIN heap
  <2>1. c[1] = x
    BY SlotsAre
  <2> QED BY <2>1 DEF Allocated
<1>3. \A c \in DOMAIN heap : h[c] = heap[c]
  BY <1>1
<1>4. Keeps(heap, h)
  BY <1>1, <1>3 DEF Keeps
<1>5. \A c \in DOMAIN Slots(x, T) : h[c] = Slots(x, T)[c]
  BY <1>1, <1>2
<1>6. \A c \in DOMAIN Slots(x, T) : SlotFits(h, c)
  <2>1. DOMAIN Slots(x, T) \subseteq DOMAIN h
    BY <1>1
  <2>2. ASSUME NEW c \in DOMAIN Slots(x, T)
        PROVE  /\ h[c] = [t |-> Slots(x, T)[c].t, v |-> h[c].v]
               /\ IF IsAggregate(h[c].t) THEN h[c].v = Slots(x, T)[c].v ELSE Whole(h, h[c].t, h[c].v)
    <3>1. PICK p \in DOMAIN Laid[T] : c = <<x, p>>
      BY SlotsAre
    <3>2. PICK s : s = Slots(x, T)[c]
      OBVIOUS
    <3>3. PICK S : S = Laid[T][p]
      OBVIOUS
    <3>4. s = [t |-> S, v |-> s.v] /\ (~IsAggregate(S) => s.v = Zero[S])
      <4>1. SlotAt(x, T, p, c, S)
        BY <3>1, <3>3, SlotIs
      <4> QED BY <3>2, <4>1 DEF SlotAt
    <3>5. S \in DOMAIN Def
      BY <3>3, LaidAreRight DEF LaidRight
    <3>6. ~IsAggregate(S) => Whole(h, S, s.v)
      BY <3>4, <3>5, ZeroWhole
    <3>7. h[c] = s
      BY <1>5, <3>2
    <3> QED BY <3>2, <3>4, <3>6, <3>7
  <2> QED BY <2>1, <2>2, SlotsFit
<1>7. ASSUME NEW c \in DOMAIN heap PROVE SlotFits(h, c)
  <2>1. SlotFits(heap, c)
    BY DEF HeapFits
  <2>2. h[c] = heap[c]
    BY <1>3
  <2>3. CASE IsAggregate(heap[c].t)
    <3>1. \A i \in DOMAIN PartTypes(heap[c].t) :
            Under(c, i) \in DOMAIN h /\ h[Under(c, i)].t = PartTypes(heap[c].t)[i]
      BY <1>4, <2>3, SlotOfIs DEF Keeps
    <3>2. AsLaid(h, c)
      BY <2>1, <2>2, <2>3, <3>1 DEF SlotFits, AsLaid
    <3> QED BY <2>1, <2>2, <2>3, <3>2 DEF SlotFits
  <2>4. CASE ~IsAggregate(heap[c].t)
    BY <1>4, <2>1, <2>2, <2>4, WholeMoves DEF SlotFits
  <2> QED BY <2>3, <2>4
<1>8. HeapFits(h)
  <2>1. h = [c \in DOMAIN h |-> h[c]] /\ DOMAIN h = DOMAIN heap \cup DOMAIN Slots(x, T)
    BY <1>1
  <2> QED BY <1>6, <1>7, <2>1 DEF HeapFits
<1>9. <<x, <<>>>> \in DOMAIN h /\ h[<<x, <<>>>>].t = T
  <2>1. PICK p : p = <<>>
    OBVIOUS
  <2>2. p \in DOMAIN Laid[T] /\ Laid[T][p] = T
    BY <2>1, LaidAreRight DEF LaidRight
  <2>3. PICK c : c = <<x, p>>
    OBVIOUS
  <2>4. c \in DOMAIN Slots(x, T) /\ Slots(x, T)[c].t = T
    <3>1. SlotAt(x, T, p, c, T)
      BY <2>2, <2>3, SlotIs
    <3> QED BY <3>1 DEF SlotAt
  <2>5. c \in DOMAIN h /\ h[c].t = T
    BY <1>1, <1>5, <2>4
  <2> QED BY <2>1, <2>3, <2>5
<1> QED BY <1>3, <1>4, <1>8, <1>9

\* h has v in slot c.
StoredAt(c, v, h) == h = [heap EXCEPT ![c].v = v]

\* They fit after a store.
LEMMA StoreFits ==
  ASSUME HeapFits(heap), Keeps(InitHeap, heap),
         NEW c \in DOMAIN heap, heap[c].t \in DOMAIN Stored, NEW v \in Stored[heap[c].t],
         NEW h, StoredAt(c, v, h)
  PROVE  /\ HeapFits(h) /\ Keeps(heap, h)
         /\ \A d \in DOMAIN heap : IsAggregate(heap[d].t) => h[d].v = heap[d].v
<1>1. ~IsAggregate(heap[c].t) /\ Whole(InitHeap, heap[c].t, v)
  BY InitialWhole
<1>2. heap[c] = [t |-> heap[c].t, v |-> heap[c].v] /\ heap = [d \in DOMAIN heap |-> heap[d]]
  BY DEF HeapFits, SlotFits
<1>3. DOMAIN h = DOMAIN heap /\ h = [d \in DOMAIN h |-> h[d]] /\ \A d \in DOMAIN heap : d # c => h[d] = heap[d]
  BY <1>2 DEF StoredAt
<1>4. h[c] = [t |-> heap[c].t, v |-> v]
  BY <1>2 DEF StoredAt
<1>5. Keeps(heap, h)
  <2>1. h[c].t = heap[c].t
    BY <1>4
  <2>2. \A d \in DOMAIN heap : h[d].t = heap[d].t
    BY <1>3, <2>1
  <2> QED BY <1>3, <2>2 DEF Keeps
<1>6. Whole(h, heap[c].t, v)
  <2>1. Whole(heap, heap[c].t, v)
    BY <1>1, WholeMoves
  <2> QED BY <1>5, <2>1, WholeMoves
<1>7. \A d \in DOMAIN heap : IsAggregate(heap[d].t) => h[d].v = heap[d].v
  BY <1>1, <1>3
<1>8. ASSUME NEW d \in DOMAIN heap PROVE SlotFits(h, d)
  <2>1. SlotFits(heap, d)
    BY DEF HeapFits
  <2>2. CASE d = c
    <3>1. h[d] = [t |-> h[d].t, v |-> h[d].v] /\ h[d].t = heap[c].t /\ h[d].v = v
      BY <1>4, <2>2
    <3> QED BY <1>1, <1>6, <2>1, <2>2, <3>1 DEF SlotFits
  <2>3. CASE d # c
    <3>1. h[d] = heap[d]
      BY <1>3, <2>3
    <3>2. CASE IsAggregate(heap[d].t)
      <4>1. \A i \in DOMAIN PartTypes(heap[d].t) :
              Under(d, i) \in DOMAIN h /\ h[Under(d, i)].t = PartTypes(heap[d].t)[i]
        BY <1>5, <3>2, SlotOfIs DEF Keeps
      <4>2. AsLaid(h, d)
        BY <2>1, <3>1, <3>2, <4>1 DEF SlotFits, AsLaid
      <4> QED BY <2>1, <3>1, <3>2, <4>2 DEF SlotFits
    <3>3. CASE ~IsAggregate(heap[d].t)
      BY <1>5, <2>1, <3>1, <3>3, WholeMoves DEF SlotFits
    <3> QED BY <3>2, <3>3
  <2> QED BY <2>2, <2>3
<1> QED BY <1>3, <1>5, <1>7, <1>8 DEF HeapFits

-----------------------------------------------------------------------------
\* The invariant -------------------------------------------------------------------------------

TypesOrNone == DOMAIN Def \cup {NoType}

\* v, that is said to be of type T and by Go to be at `place', after the deviations `why'.
Good(h, T, v, place, why) ==
  /\ why \cap {"mapindex", "unset"} = {} => Sits(h, T, v)
  /\ "unset" \in why => v \in {NilIface, Nothing}
  /\ "unset" \notin why => \E S : Sits(h, S, v)
  /\ IsInPlace(v) /\ "shared" \notin why => place # NoPlace
  /\ IsInPlace(v) /\ place # NoPlace => place \in DOMAIN h /\ h[place].v = v
  /\ place # NoPlace /\ "mapindex" \notin why =>
       place \in DOMAIN h /\ h[place].t = T /\ (IsAggregate(T) => IsInPlace(v))

\* The slots fit; the Value and the interface value hold what fits, and what is not a
\* variable's aggregate has not changed.
HeapInv == HeapFits(heap) /\ Keeps(InitHeap, heap)
ValInv ==
  /\ val.t \in TypesOrNone \cup {Unset}
  /\ Good(heap, val.t, val.v, view.place, view.why)
  /\ ~IsInPlace(val.v) => view.seen = val.v
TypInv == typ \in TypesOrNone /\ (typ = NoType \/ val = ZeroValue)
KeptInv ==
  /\ kept.t \in TypesOrNone
  /\ Good(heap, kept.t, kept.v, NoPlace, bound.why)
  /\ ~IsInPlace(kept.v) => bound.seen = kept.v
  /\ bound.why \cap {"mapindex", "unset", "nested"} = {} => ~Has(kept.t, "iface")

RInv == HeapInv /\ ValInv /\ TypInv /\ KeptInv

\* The values that are nothing are in no slots, and are their own content.
LEMMA NilsAre ==
  /\ ~IsInPlace(NilIface) /\ ~IsInPlace(Nothing)
  /\ Content(NilIface) = NilIface /\ Content(Nothing) = Nothing
  /\ NilIface.tag = "iface" /\ NilIface.t = NoType /\ NilIface.v = Nothing /\ Nothing.tag = "none"
<1>1. ~IsInPlace(NilIface) /\ ~IsInPlace(Nothing)
  BY DEF NilIface, Nothing, Dyn, IsInPlace
<1>2. NilIface.tag = "iface" /\ NilIface.t = NoType /\ NilIface.v = Nothing /\ Nothing.tag = "none"
  BY DEF NilIface, Nothing, Dyn
<1>3. Content(NilIface) = Dyn(NoType, Nothing) /\ Content(Nothing) = Nothing
  BY <1>1, <1>2 DEF Content, Load
<1> QED BY <1>1, <1>2, <1>3 DEF NilIface

\* The type with no name is no type, nor is the missing one.
LEMMA NoTypes == NoType \notin DOMAIN Def /\ Unset \notin DOMAIN Def /\ NoType # Unset
BY TypesAssumption DEF NoType, Unset

\* A whole value is good anywhere, at no place.
LEMMA WholeGood ==
  ASSUME NEW h, NEW T, NEW v, Whole(h, T, v), NEW why, "unset" \in why => v \in {NilIface, Nothing}
  PROVE  Good(h, T, v, NoPlace, why)
BY WholeIs DEF Good, Sits

\* What a slot holds is good there.
LEMMA SlotGood ==
  ASSUME NEW h, HeapFits(h), NEW c \in DOMAIN h, NEW why, "unset" \notin why,
         NEW T, "mapindex" \notin why => h[c].t = T, c # NoPlace
  PROVE  Good(h, T, h[c].v, c, why)
BY SlotSits DEF Good

\* The zero Value of the target is good.
LEMMA ZeroGood == ASSUME NEW h PROVE Good(h, Unset, NilIface, NoPlace, {"unset"})
BY NilsAre DEF Good

\* What is good stays so where slots are added and aggregates stay.
LEMMA GoodMoves ==
  ASSUME NEW h, HeapFits(h), NEW h2, Keeps(h, h2),
         \A c \in DOMAIN h : IsAggregate(h[c].t) => h2[c].v = h[c].v,
         NEW T, NEW v, NEW place, NEW why, Good(h, T, v, place, why)
  PROVE  Good(h2, T, v, place, why)
<1>1. \A S : Sits(h, S, v) => Sits(h2, S, v)
  BY SitsMoves
<1>2. ASSUME IsInPlace(v), place # NoPlace PROVE place \in DOMAIN h2 /\ h2[place].v = v
  <2>1. place \in DOMAIN h /\ h[place].v = v
    BY <1>2 DEF Good
  <2>2. IsAggregate(h[place].t)
    BY <1>2, <2>1, SlotSits
  <2> QED BY <2>1, <2>2 DEF Keeps
<1>3. ASSUME place # NoPlace, "mapindex" \notin why
      PROVE  place \in DOMAIN h2 /\ h2[place].t = T /\ (IsAggregate(T) => IsInPlace(v))
  <2>1. place \in DOMAIN h /\ h[place].t = T /\ (IsAggregate(T) => IsInPlace(v))
    BY <1>3 DEF Good
  <2> QED BY <2>1 DEF Keeps
<1> QED BY <1>1, <1>2, <1>3 DEF Good

\* A good value that is in no slots is its own content.
LEMMA GoodContent ==
  ASSUME NEW h, HeapFits(h), NEW T, NEW v, NEW place, NEW why, Good(h, T, v, place, why), ~IsInPlace(v)
  PROVE  Content(v) = v
<1>1. CASE "unset" \in why
  <2>1. v = NilIface \/ v = Nothing
    BY <1>1 DEF Good
  <2> QED BY <2>1, NilsAre
<1>2. CASE "unset" \notin why
  <2>1. PICK S : Sits(h, S, v)
    BY <1>2 DEF Good
  <2>2. ~SlotOf(h, S, v)
    BY SlotSits DEF SlotOf
  <2>3. Whole(h, S, v)
    BY <2>1, <2>2 DEF Sits
  <2> QED BY <2>3, ContentIs
<1> QED BY <1>1, <1>2

\* What a good value with a tag other than of an interface or of nothing sits in.
LEMMA GoodSits ==
  ASSUME NEW h, HeapFits(h), NEW T, NEW v, NEW place, NEW why, Good(h, T, v, place, why),
         v.tag # "none", v.tag = "iface" => v # NilIface \/ "unset" \notin why
  PROVE  /\ "unset" \notin why
         /\ \E S : Sits(h, S, v) /\ FitsOutside(h, S, v) /\ ("mapindex" \notin why => S = T)
<1>1. "unset" \notin why
  BY NilsAre DEF Good
<1>2. CASE "mapindex" \in why
  BY <1>1, <1>2, SitsIs DEF Good
<1>3. CASE "mapindex" \notin why
  <2>1. Sits(h, T, v)
    BY <1>1, <1>3 DEF Good
  <2> QED BY <1>1, <2>1, SitsIs
<1> QED BY <1>1, <1>2, <1>3

\* What is in an interface, or a map, is whole.
LEMMA SitsWhole ==
  ASSUME NEW h, HeapFits(h), NEW S, NEW v, Sits(h, S, v), ~IsAggregate(S)
  PROVE  Whole(h, S, v)
BY DEF Sits, SlotOf

\* The part of a good aggregate is good at the part's place.
LEMMA PartGood ==
  ASSUME HeapFits(heap), NEW T, NEW v, NEW place, NEW why, Good(heap, T, v, place, why),
         IsAggregate(T), v.tag \in {"struct", "array"}, NEW i \in DOMAIN Places(v),
         NEW Q, "mapindex" \notin why => Q = PartTypes(T)[i]
  PROVE  /\ Good(heap, Q, Part(v, i), IF place = NoPlace THEN NoPlace ELSE Under(place, i), why)
         /\ "mapindex" \notin why => i \in DOMAIN PartTypes(T)
<1>1. PICK S : /\ Sits(heap, S, v) /\ FitsOutside(heap, S, v) /\ "unset" \notin why
               /\ "mapindex" \notin why => S = T
  BY GoodSits
<1>2. S \in DOMAIN Def /\ ReflectKind(S) \in {"struct", "array"} /\ IsAggregate(S)
  BY <1>1, FitTags DEF Composed, IsAggregate, Has, IsType
<1>3. DOMAIN Places(v) = DOMAIN PartTypes(S)
  BY <1>1, <1>2, FitKinds
<1>4. PICK w : w = Part(v, i)
  OBVIOUS
<1>5. <<PartTypes(S)[i], w>> \in Inside(heap, S, v)
  BY <1>2, <1>3, <1>4, InsideKinds DEF Part
<1>6. Sits(heap, PartTypes(S)[i], w)
  BY <1>1, <1>5, SitsIs
<1>7. ASSUME IsInPlace(w) PROVE IsInPlace(v)
  <2>1. SUFFICES ASSUME ~IsInPlace(v) PROVE FALSE
    OBVIOUS
  <2>2. ~SlotOf(heap, S, v)
    BY <2>1, SlotSits DEF SlotOf
  <2>3. Whole(heap, S, v)
    BY <1>1, <2>2 DEF Sits
  <2> QED BY <1>5, <1>7, <2>3, WholeIs
<1>8. ASSUME IsInPlace(v), place # NoPlace
      PROVE  Under(place, i) \in DOMAIN heap /\ heap[Under(place, i)].v = w
             /\ heap[Under(place, i)].t = PartTypes(heap[place].t)[i]
  <2>1. place \in DOMAIN heap /\ heap[place].v = v
    BY <1>8 DEF Good
  <2>2. IsAggregate(heap[place].t)
    BY <1>8, <2>1, SlotSits
  <2>3. i \in DOMAIN v.cells
    BY <1>8 DEF Places
  <2>4. /\ v.cells[i] = Under(place, i) /\ Under(place, i) \in DOMAIN heap
        /\ heap[Under(place, i)].t = PartTypes(heap[place].t)[i]
    BY <2>1, <2>2, <2>3, SlotOfIs
  <2>5. w = heap[v.cells[i]].v
    BY <1>4, <1>8 DEF Part
  <2> QED BY <2>4, <2>5
<1>9. PICK at : at = IF place = NoPlace THEN NoPlace ELSE Under(place, i)
  OBVIOUS
<1>10. at # NoPlace <=> place # NoPlace
  BY <1>9 DEF Under, NoPlace
<1>11. why \cap {"mapindex", "unset"} = {} => Sits(heap, Q, w)
  BY <1>1, <1>6
<1>12. IsInPlace(w) /\ "shared" \notin why => at # NoPlace
  BY <1>7, <1>10 DEF Good
<1>13. IsInPlace(w) /\ at # NoPlace => at \in DOMAIN heap /\ heap[at].v = w
  BY <1>7, <1>8, <1>9, <1>10
<1>14. ASSUME at # NoPlace, "mapindex" \notin why
       PROVE  at \in DOMAIN heap /\ heap[at].t = Q /\ (IsAggregate(Q) => IsInPlace(w))
  <2>1. place # NoPlace /\ heap[place].t = T /\ IsInPlace(v)
    BY <1>10, <1>14 DEF Good
  <2>2. at = Under(place, i) /\ at \in DOMAIN heap /\ heap[at].v = w /\ heap[at].t = Q
    BY <1>8, <1>9, <1>14, <2>1
  <2> QED BY <2>2, SlotSits
<1>15. Good(heap, Q, w, at, why)
  BY <1>1, <1>6, <1>11, <1>12, <1>13, <1>14 DEF Good
<1> QED BY <1>1, <1>3, <1>4, <1>9, <1>15

\* A call that gives a good Value keeps the invariant.
LEMMA GivesInv ==
  ASSUME RInv, NEW T \in TypesOrNone, NEW v, NEW place, NEW why, Gives(T, v, place, why),
         HeapFits(heap'), Keeps(heap, heap'),
         \A c \in DOMAIN heap : IsAggregate(heap[c].t) => heap'[c].v = heap[c].v,
         Good(heap', T, v, place, why)
  PROVE  RInv'
<1>1. val'.t = T /\ val'.v = v /\ view'.place = place /\ view'.why = why /\ view'.seen = Content(v)
  BY DEF Gives
<1>2. typ' = NoType /\ kept' = kept /\ bound' = bound
  BY DEF Gives
<1>3. HeapInv'
  <2>1. Keeps(InitHeap, heap')
    BY DEF RInv, HeapInv, Keeps
  <2> QED BY <2>1 DEF HeapInv
<1>4. ValInv'
  <2>1. ~IsInPlace(v) => Content(v) = v
    BY GoodContent
  <2> QED BY <1>1, <2>1 DEF ValInv
<1>5. TypInv'
  BY <1>2 DEF TypInv, TypesOrNone
<1>6. KeptInv'
  <2>1. Good(heap', kept.t, kept.v, NoPlace, bound.why)
    BY GoodMoves DEF RInv, HeapInv, KeptInv
  <2> QED BY <1>2, <2>1 DEF RInv, KeptInv
<1> QED BY <1>3, <1>4, <1>5, <1>6 DEF RInv

\* Slots that nothing happens to stay as they are.
LEMMA SameHeap ==
  ASSUME RInv, heap' = heap
  PROVE  /\ HeapFits(heap') /\ Keeps(heap, heap')
         /\ \A c \in DOMAIN heap : IsAggregate(heap[c].t) => heap'[c].v = heap[c].v
BY DEF RInv, HeapInv, Keeps

\* So does one that gives a good Value and leaves the slots alone.
LEMMA GivesStill ==
  ASSUME RInv, NEW T \in TypesOrNone, NEW v, NEW place, NEW why, Gives(T, v, place, why),
         heap' = heap, Good(heap, T, v, place, why)
  PROVE  RInv'
BY GivesInv, SameHeap

\* So does one that gives a type, or none.
LEMMA GivesTypeInv ==
  ASSUME RInv, NEW T \in TypesOrNone,
         typ' = T, val' = ZeroValue, view' = ZeroView, UNCHANGED <<heap, kept, bound>>
  PROVE  RInv'
<1>1. /\ val'.t = Unset /\ val'.v = NilIface
      /\ view'.place = NoPlace /\ view'.why = {"unset"} /\ view'.seen = NilIface
  BY DEF ZeroValue, ZeroView
<1>2. ValInv'
  BY <1>1, ZeroGood DEF ValInv
<1>3. HeapInv' /\ KeptInv'
  BY DEF RInv, HeapInv, KeptInv
<1>4. TypInv'
  BY DEF TypInv
<1> QED BY <1>2, <1>3, <1>4 DEF RInv

\* So does one that only answers, or panics.
LEMMA StillInv ==
  ASSUME RInv, UNCHANGED <<heap, val, typ, kept, view, bound>>
  PROVE  RInv'
BY DEF RInv, HeapInv, ValInv, TypInv, KeptInv

\* The interface values the program makes are good.
LEMMA MadeGood ==
  ASSUME HeapFits(heap), NEW x \in Made
  PROVE  /\ x.t \in TypesOrNone
         /\ Whole(heap, x.t, x.v)
<1>1. CASE x = NilIface
  BY <1>1, NilsAre, NoTypes, WholeNone DEF TypesOrNone
<1>2. ASSUME NEW c \in DOMAIN heap, NEW P \in DOMAIN Def, Has(P, "ptr"), U(P).elem = heap[c].t, x = Dyn(P, Ptr(c))
      PROVE  x.t \in TypesOrNone /\ Whole(heap, x.t, x.v)
  <2>1. x.t = P /\ x.v = Ptr(c)
    BY <1>2 DEF Dyn
  <2> QED BY <1>2, <2>1, PtrWhole DEF TypesOrNone
<1>3. ASSUME NEW c \in DOMAIN heap,
             x = IF Has(heap[c].t, "iface") THEN heap[c].v ELSE Dyn(heap[c].t, Load(heap[c].v))
      PROVE  x.t \in TypesOrNone /\ Whole(heap, x.t, x.v)
  <2>1. CASE Has(heap[c].t, "iface")
    <3>1. Whole(heap, heap[c].t, x)
      <4>1. ~IsAggregate(heap[c].t)
        BY <2>1 DEF IsAggregate, Has
      <4> QED BY <1>3, <2>1, <4>1, SlotSits
    <3>2. FitsOutside(heap, heap[c].t, x) /\ <<x.t, x.v>> \in Inside(heap, heap[c].t, x)
      BY <2>1, <3>1, WholeIs, InsideKinds
    <3>3. x.t = NoType \/ IsType(x.t)
      BY <2>1, <3>2, FitKinds DEF Has, IsType
    <3> QED BY <3>1, <3>2, <3>3, WholeIs DEF TypesOrNone, IsType
  <2>2. CASE ~Has(heap[c].t, "iface")
    <3>1. x.t = heap[c].t /\ x.v = Load(heap[c].v)
      BY <1>3, <2>2 DEF Dyn
    <3> QED BY <3>1, LoadWhole, SlotSits DEF TypesOrNone
  <2> QED BY <2>1, <2>2
<1>4. \/ x = NilIface
      \/ \E c \in DOMAIN heap : x \in AddressOf(c)
      \/ \E c \in DOMAIN heap : x = ValueIn(c)
  BY DEF Made
<1>5. ASSUME NEW c \in DOMAIN heap, x \in AddressOf(c)
      PROVE  \E P \in DOMAIN Def : Has(P, "ptr") /\ U(P).elem = heap[c].t /\ x = Dyn(P, Ptr(c))
  BY <1>5 DEF AddressOf
<1> QED BY <1>1, <1>2, <1>3, <1>4, <1>5 DEF ValueIn

\* Putting down the Value keeps the invariant.
LEMMA PutDownInv == ASSUME RInv, PutDown PROVE RInv'
BY GivesTypeInv DEF PutDown, TypesOrNone

\* ValueOf keeps the invariant.
LEMMA ValueOfInv ==
  ASSUME RInv, ValueOf
  PROVE  RInv'
<1>1. heap' = heap /\ HeapFits(heap)
  BY DEF ValueOf, RInv, HeapInv
<1>2. CASE \E x \in Made : Gives(x.t, x.v, NoPlace, {})
  <2>1. PICK x \in Made : Gives(x.t, x.v, NoPlace, {})
    BY <1>2
  <2>2. PICK T, v : T = x.t /\ v = x.v
    OBVIOUS
  <2>3. T \in TypesOrNone /\ Good(heap, T, v, NoPlace, {})
    BY <1>1, <2>2, MadeGood, WholeGood
  <2> QED BY <1>1, <2>1, <2>2, <2>3, GivesStill
<1>3. CASE Gives(kept.t, kept.v, NoPlace, bound.why)
  <2>1. kept.t \in TypesOrNone /\ Good(heap, kept.t, kept.v, NoPlace, bound.why)
    BY DEF RInv, KeptInv
  <2> QED BY <1>1, <1>3, <2>1, GivesStill
<1> QED BY <1>2, <1>3 DEF ValueOf

\* TypeOf keeps the invariant.
LEMMA TypeOfInv ==
  ASSUME RInv, TypeOf
  PROVE  RInv'
<1>1. PICK x \in Made \cup {kept} : GivesType(x.t)
  BY DEF TypeOf
<1>2. x.t \in TypesOrNone
  BY <1>1, MadeGood DEF RInv, HeapInv, KeptInv
<1> QED BY <1>1, <1>2, GivesTypeInv DEF GivesType

\* Value.Type keeps the invariant.
LEMMA TypeOfValueInv ==
  ASSUME RInv, TypeOfValue
  PROVE  RInv'
<1>1. CASE val.t = Unset
  BY <1>1, StillInv DEF TypeOfValue, Panics
<1>2. CASE val.t # Unset
  <2>1. val.t \in TypesOrNone
    BY <1>2 DEF RInv, ValInv
  <2> QED BY <1>2, <2>1, GivesTypeInv DEF TypeOfValue, GivesType
<1> QED BY <1>1, <1>2

\* New keeps the invariant.
LEMMA NewInv ==
  ASSUME RInv, New
  PROVE  RInv'
<1>1. CASE ~IsType(typ)
  BY <1>1, StillInv DEF New, Panics
<1>2. CASE IsType(typ)
  <2>1. PICK x \in 1 .. MaxVars :
          /\ x \notin Allocated
          /\ heap' = [c \in DOMAIN heap \cup DOMAIN Slots(x, typ) |->
                        IF c \in DOMAIN heap THEN heap[c] ELSE Slots(x, typ)[c]]
          /\ \E P \in PointersTo(typ) : Gives(P, Ptr(<<x, <<>>>>), NoPlace, {})
    BY <1>2 DEF New
  <2>2. PICK P \in PointersTo(typ) : Gives(P, Ptr(<<x, <<>>>>), NoPlace, {})
    BY <2>1
  <2>3. typ \in DOMAIN Def /\ HeapFits(heap)
    BY <1>2 DEF IsType, RInv, HeapInv
  <2>4. PICK h : h = heap'
    OBVIOUS
  <2>5. /\ HeapFits(h) /\ Keeps(heap, h)
        /\ \A c \in DOMAIN heap : h[c] = heap[c]
        /\ <<x, <<>>>> \in DOMAIN h /\ h[<<x, <<>>>>].t = typ
    BY <2>1, <2>3, <2>4, NewFits
  <2>6. PICK c : c = <<x, <<>>>>
    OBVIOUS
  <2>7. P \in DOMAIN Def /\ Has(P, "ptr") /\ U(P).elem = typ
    BY DEF PointersTo, Has, IsType, ReflectKind, U, Underlying
  <2>8. Whole(h, P, Ptr(c))
    BY <2>5, <2>6, <2>7, PtrWhole
  <2>9. Good(h, P, Ptr(c), NoPlace, {})
    BY <2>8, WholeGood
  <2> QED BY <2>2, <2>4, <2>5, <2>6, <2>7, <2>9, GivesInv DEF TypesOrNone
<1> QED BY <1>1, <1>2

\* Zero keeps the invariant.
LEMMA ZeroOfInv ==
  ASSUME RInv, ZeroOf
  PROVE  RInv'
<1>1. CASE ~IsType(typ)
  BY <1>1, StillInv DEF ZeroOf, Panics
<1>2. CASE IsType(typ)
  <2>1. Gives(typ, Zero[typ], NoPlace, {}) /\ heap' = heap
    BY <1>2 DEF ZeroOf
  <2>2. typ \in TypesOrNone /\ Good(heap, typ, Zero[typ], NoPlace, {})
    BY <1>2, ZeroWhole, WholeGood DEF IsType, TypesOrNone
  <2> QED BY <2>1, <2>2, GivesStill
<1> QED BY <1>1, <1>2

\* Elem keeps the invariant.
LEMMA ElemInv ==
  ASSUME RInv, Elem
  PROVE  RInv'
<1>0. HeapFits(heap) /\ Good(heap, val.t, val.v, view.place, view.why)
  BY DEF RInv, HeapInv, ValInv
<1>1. CASE val.v.tag = "iface"
  <2>1. Gives(val.v.t, val.v.v, NoPlace, view.why) /\ heap' = heap
    BY <1>1 DEF Elem
  <2>2. PICK T, v : T = val.v.t /\ v = val.v.v
    OBVIOUS
  <2>3. CASE "unset" \in view.why
    <3>1. val.v = NilIface
      BY <1>0, <1>1, <2>3, NilsAre DEF Good
    <3>2. T = NoType /\ v = Nothing
      BY <2>2, <3>1, NilsAre
    <3>3. Whole(heap, T, v)
      BY <3>2, NoTypes, WholeNone
    <3>4. Good(heap, T, v, NoPlace, view.why) /\ T \in TypesOrNone
      BY <3>2, <3>3, WholeGood DEF TypesOrNone
    <3> QED BY <2>1, <2>2, <3>4, GivesStill
  <2>4. CASE "unset" \notin view.why
    <3>1. PICK S : Sits(heap, S, val.v) /\ FitsOutside(heap, S, val.v)
      BY <1>0, <2>4, SitsIs DEF Good
    <3>2. S \in DOMAIN Def /\ ReflectKind(S) = "iface"
      BY <1>1, <3>1, FitTags DEF Composed
    <3>3. Whole(heap, S, val.v)
      BY <1>0, <3>1, <3>2, SitsWhole DEF IsAggregate, Has
    <3>4. <<T, v>> \in Inside(heap, S, val.v)
      BY <2>2, <3>2, InsideKinds DEF Has, IsType
    <3>5. Whole(heap, T, v)
      BY <3>3, <3>4, WholeIs
    <3>6. T \in TypesOrNone
      BY <2>2, <3>1, <3>2, FitKinds DEF TypesOrNone, IsType
    <3>7. Good(heap, T, v, NoPlace, view.why)
      BY <2>4, <3>5, WholeGood
    <3> QED BY <2>1, <2>2, <3>6, <3>7, GivesStill
  <2> QED BY <2>3, <2>4
<1>2. CASE val.v.tag # "iface" /\ Points
  <2>1. Gives(U(val.t).elem, heap[val.v.cell].v, val.v.cell, view.why) /\ heap' = heap
    BY <1>2 DEF Elem
  <2>2. PICK c : c = val.v.cell
    OBVIOUS
  <2>3. val.v.tag = "ptr" /\ Has(val.t, "ptr") /\ c # NoPlace
    BY <1>2, <2>2 DEF Points
  <2>4. PICK S : /\ FitsOutside(heap, S, val.v) /\ "unset" \notin view.why
                 /\ "mapindex" \notin view.why => S = val.t
    BY <1>0, <2>3, GoodSits
  <2>5. S \in DOMAIN Def /\ ReflectKind(S) = "ptr"
    BY <2>3, <2>4, FitTags DEF Composed
  <2>6. c \in DOMAIN heap /\ heap[c].t = U(S).elem
    BY <2>2, <2>3, <2>4, <2>5, FitKinds
  <2>7. PICK T : T = U(val.t).elem
    OBVIOUS
  <2>8. T \in TypesOrNone
    BY <2>3, <2>7, ElemsAre DEF Has, IsType, TypesOrNone
  <2>9. Good(heap, T, heap[c].v, c, view.why)
    BY <1>0, <2>3, <2>4, <2>6, <2>7, SlotGood
  <2> QED BY <2>1, <2>2, <2>7, <2>8, <2>9, GivesStill
<1>3. CASE ~(val.v.tag = "iface" \/ Points)
  BY <1>3, StillInv DEF Elem, Panics
<1> QED BY <1>1, <1>2, <1>3

\* Field keeps the invariant.
LEMMA FieldInv ==
  ASSUME RInv, Field
  PROVE  RInv'
<1>0. HeapFits(heap) /\ Good(heap, val.t, val.v, view.place, view.why)
  BY DEF RInv, HeapInv, ValInv
<1>1. CASE val.v.tag = "struct" /\ Has(val.t, "struct")
  <2>1. PICK i \in DOMAIN PartTypes(val.t) :
          IF i \in DOMAIN Places(val.v)
          THEN /\ Gives(PartTypes(val.t)[i], Part(val.v, i), PlaceOfPart(i), view.why)
               /\ UNCHANGED heap
          ELSE Panics("Field")
    BY <1>1 DEF Field
  <2>2. CASE i \in DOMAIN Places(val.v)
    <3>1. PICK T, w, at : T = PartTypes(val.t)[i] /\ w = Part(val.v, i) /\ at = PlaceOfPart(i)
      OBVIOUS
    <3>2. Gives(T, w, at, view.why) /\ heap' = heap
      BY <2>1, <2>2, <3>1
    <3>3. Good(heap, T, w, at, view.why)
      <4>1. IsAggregate(val.t)
        BY <1>1 DEF IsAggregate
      <4>2. at = IF view.place = NoPlace THEN NoPlace ELSE Under(view.place, i)
        BY <3>1 DEF PlaceOfPart
      <4> QED BY <1>0, <1>1, <2>2, <3>1, <4>1, <4>2, PartGood
    <3>4. T \in TypesOrNone
      BY <1>1, <3>1, PartsAre DEF Has, IsType, TypesOrNone
    <3> QED BY <3>2, <3>3, <3>4, GivesStill
  <2>3. CASE i \notin DOMAIN Places(val.v)
    BY <2>1, <2>3, StillInv DEF Panics
  <2> QED BY <2>2, <2>3
<1>2. CASE ~(val.v.tag = "struct" /\ Has(val.t, "struct"))
  BY <1>2, StillInv DEF Field, Panics
<1> QED BY <1>1, <1>2

\* Index keeps the invariant.
LEMMA IndexInv ==
  ASSUME RInv, Index
  PROVE  RInv'
<1>0. HeapFits(heap) /\ Good(heap, val.t, val.v, view.place, view.why)
  BY DEF RInv, HeapInv, ValInv
<1>1. ASSUME val.v.tag = "array", Has(val.t, "array"), UNCHANGED heap, NEW i \in DOMAIN Places(val.v),
             Gives(U(val.t).elem, Part(val.v, i), PlaceOfPart(i), view.why)
      PROVE  RInv'
  <2>1. PICK T, w, at : T = U(val.t).elem /\ w = Part(val.v, i) /\ at = PlaceOfPart(i)
    OBVIOUS
  <2>2. Gives(T, w, at, view.why) /\ heap' = heap
    BY <1>1, <2>1
  <2>3. IsAggregate(val.t) /\ PartTypes(val.t) = [j \in 1 .. U(val.t).len |-> T]
    BY <1>1, <2>1 DEF IsAggregate, PartTypes, Has
  <2>4. PICK Q : Q = IF i \in DOMAIN PartTypes(val.t) THEN PartTypes(val.t)[i] ELSE T
    OBVIOUS
  <2>5. Q = T
    BY <2>3, <2>4
  <2>6. "mapindex" \notin view.why => T = PartTypes(val.t)[i]
    <3>1. ASSUME "mapindex" \notin view.why PROVE i \in DOMAIN PartTypes(val.t)
      <4>1. PICK R : R = PartTypes(val.t)[i]
        OBVIOUS
      <4> QED BY <1>0, <1>1, <2>3, <3>1, <4>1, PartGood
    <3> QED BY <2>4, <2>5, <3>1
  <2>7. at = IF view.place = NoPlace THEN NoPlace ELSE Under(view.place, i)
    BY <2>1 DEF PlaceOfPart
  <2>8. Good(heap, T, w, at, view.why)
    <3>1. IsAggregate(val.t)
      BY <2>3
    <3>2. Good(heap, T, Part(val.v, i), IF view.place = NoPlace THEN NoPlace ELSE Under(view.place, i), view.why)
      BY <1>0, <1>1, <2>6, <3>1, PartGood
    <3> QED BY <2>1, <2>7, <3>2
  <2>9. T \in TypesOrNone
    BY <1>1, <2>1, ElemsAre DEF Has, IsType, TypesOrNone
  <2> QED BY <2>2, <2>8, <2>9, GivesStill
<1>2. ASSUME val.v.tag = "slice", Has(val.t, "slice"), UNCHANGED heap, NEW i \in DOMAIN val.v.slots,
             Gives(U(val.t).elem, heap[val.v.slots[i]].v, val.v.slots[i], view.why)
      PROVE  RInv'
  <2>1. PICK T, c : T = U(val.t).elem /\ c = val.v.slots[i]
    OBVIOUS
  <2>2. Gives(T, heap[c].v, c, view.why) /\ heap' = heap
    BY <1>2, <2>1
  <2>3. PICK S : /\ FitsOutside(heap, S, val.v) /\ "unset" \notin view.why
                 /\ "mapindex" \notin view.why => S = val.t
    BY <1>0, <1>2, GoodSits
  <2>4. S \in DOMAIN Def /\ ReflectKind(S) = "slice"
    BY <1>2, <2>3, FitTags DEF Composed
  <2>5. c \in DOMAIN heap /\ heap[c].t = U(S).elem
    BY <1>2, <2>1, <2>3, <2>4, FitKinds
  <2>6. c # NoPlace
    BY <1>0, <2>5, SlotSits
  <2>7. T \in TypesOrNone
    BY <1>2, <2>1, ElemsAre DEF Has, IsType, TypesOrNone
  <2>8. Good(heap, T, heap[c].v, c, view.why)
    BY <1>0, <2>1, <2>3, <2>5, <2>6, SlotGood
  <2> QED BY <2>2, <2>7, <2>8, GivesStill
<1>3. CASE Panics("Index")
  BY <1>3, StillInv DEF Panics
<1> QED BY <1>1, <1>2, <1>3 DEF Index

\* What a map at hand has in it, under the type it really is of.
LEMMA MapHas ==
  ASSUME RInv, HasMap
  PROVE  /\ "unset" \notin view.why
         /\ U(val.t).key \in TypesOrNone /\ U(val.t).elem \in TypesOrNone
         /\ \E S : /\ \A i \in DOMAIN val.v.entries :
                        /\ Whole(heap, U(S).key, val.v.entries[i].key)
                        /\ Whole(heap, U(S).elem, val.v.entries[i].val)
                   /\ "mapindex" \notin view.why => S = val.t
<1>1. HeapFits(heap) /\ Good(heap, val.t, val.v, view.place, view.why)
  BY DEF RInv, HeapInv, ValInv
<1>2. val.v.tag \in {"map", "hashmap"} /\ Has(val.t, "map")
  BY DEF HasMap
<1>3. PICK S : /\ Sits(heap, S, val.v) /\ FitsOutside(heap, S, val.v) /\ "unset" \notin view.why
               /\ "mapindex" \notin view.why => S = val.t
  BY <1>1, <1>2, GoodSits
<1>4. S \in DOMAIN Def /\ ReflectKind(S) = "map"
  BY <1>2, <1>3, FitTags
<1>5. Whole(heap, S, val.v)
  BY <1>1, <1>3, <1>4, SitsWhole DEF IsAggregate, Has
<1>6. ASSUME NEW i \in DOMAIN val.v.entries
      PROVE  /\ Whole(heap, U(S).key, val.v.entries[i].key)
             /\ Whole(heap, U(S).elem, val.v.entries[i].val)
  <2>1. /\ <<U(S).key, val.v.entries[i].key>> \in Inside(heap, S, val.v)
        /\ <<U(S).elem, val.v.entries[i].val>> \in Inside(heap, S, val.v)
    BY <1>4, InsideKinds DEF Has, IsType
  <2> QED BY <1>5, <2>1, WholeIs
<1>7. U(val.t).key \in TypesOrNone /\ U(val.t).elem \in TypesOrNone
  BY <1>2, ElemsAre DEF Has, IsType, TypesOrNone
<1> QED BY <1>3, <1>6, <1>7

\* A whole value that is given another type, after MapIndex, is good.
LEMMA MistypedGood ==
  ASSUME NEW h, NEW S, NEW v, Whole(h, S, v), NEW T, NEW why, "unset" \notin why,
         "mapindex" \notin why => S = T
  PROVE  Good(h, T, v, NoPlace, why)
BY WholeIs DEF Good, Sits

\* MapIndex keeps the invariant.
LEMMA MapIndexInv ==
  ASSUME RInv, MapIndex
  PROVE  RInv'
<1>1. CASE HasMap
  <2>0. PICK S : /\ \A i \in DOMAIN val.v.entries : Whole(heap, U(S).elem, val.v.entries[i].val)
                 /\ "mapindex" \notin view.why => S = val.t
    BY <1>1, MapHas
  <2>1. heap' = heap /\ "unset" \notin view.why
    BY <1>1, MapHas DEF MapIndex
  <2>2. ASSUME NEW i \in DOMAIN val.v.entries,
               Gives(U(val.t).key, val.v.entries[i].val, NoPlace,
                     view.why \cup (IF U(val.t).key = U(val.t).elem THEN {} ELSE {"mapindex"}))
        PROVE  RInv'
    <3>1. PICK T, v, R, why :
            /\ T = U(val.t).key /\ v = val.v.entries[i].val /\ R = U(S).elem
            /\ why = view.why \cup (IF U(val.t).key = U(val.t).elem THEN {} ELSE {"mapindex"})
      OBVIOUS
    <3>2. Gives(T, v, NoPlace, why) /\ T \in TypesOrNone
      BY <1>1, <2>2, <3>1, MapHas
    <3>3. Whole(heap, R, v)
      BY <2>0, <3>1
    <3>4. "unset" \notin why /\ ("mapindex" \notin why => R = T)
      BY <2>0, <2>1, <3>1
    <3>5. Good(heap, T, v, NoPlace, why)
      BY <3>3, <3>4, MistypedGood
    <3> QED BY <2>1, <3>2, <3>5, GivesStill
  <2>3. ASSUME Gives(NoType, Nothing, NoPlace, view.why) PROVE RInv'
    <3>1. Whole(heap, NoType, Nothing)
      BY NoTypes, WholeNone
    <3>2. Good(heap, NoType, Nothing, NoPlace, view.why)
      BY <3>1, WholeGood
    <3> QED BY <2>1, <2>3, <3>2, GivesStill DEF TypesOrNone
  <2> QED BY <1>1, <2>2, <2>3 DEF MapIndex
<1>2. CASE ~HasMap
  BY <1>2, StillInv DEF MapIndex, Panics
<1> QED BY <1>1, <1>2

\* MapKeys keeps the invariant.
LEMMA MapKeysInv ==
  ASSUME RInv, MapKeys
  PROVE  RInv'
<1>1. CASE HasMap
  <2>0. PICK S : /\ \A i \in DOMAIN val.v.entries : Whole(heap, U(S).key, val.v.entries[i].key)
                 /\ "mapindex" \notin view.why => S = val.t
    BY <1>1, MapHas
  <2>1. heap' = heap /\ "unset" \notin view.why
    BY <1>1, MapHas DEF MapKeys
  <2>2. PICK i \in DOMAIN val.v.entries : Gives(U(val.t).key, val.v.entries[i].key, NoPlace, view.why)
    BY <1>1 DEF MapKeys
  <2>3. PICK T, v, R : T = U(val.t).key /\ v = val.v.entries[i].key /\ R = U(S).key
    OBVIOUS
  <2>4. Gives(T, v, NoPlace, view.why) /\ T \in TypesOrNone
    BY <1>1, <2>2, <2>3, MapHas
  <2>5. Whole(heap, R, v) /\ ("mapindex" \notin view.why => R = T)
    BY <2>0, <2>3
  <2>6. Good(heap, T, v, NoPlace, view.why)
    BY <2>1, <2>5, MistypedGood
  <2> QED BY <2>1, <2>4, <2>6, GivesStill
<1>2. CASE ~HasMap
  BY <1>2, StillInv DEF MapKeys, Panics
<1> QED BY <1>1, <1>2

\* Interface keeps the invariant.
LEMMA InterfaceInv ==
  ASSUME RInv, Interface
  PROVE  RInv'
<1>0. HeapFits(heap) /\ Good(heap, val.t, val.v, view.place, view.why)
  BY DEF RInv, HeapInv, ValInv
<1>1. CASE val.t = Unset
  BY <1>1, StillInv DEF Interface, Panics
<1>2. CASE val.t # Unset
  <2>1. PICK why : why = view.why
                         \cup (IF Has(val.t, "iface") THEN {"nested"} ELSE {})
                         \cup (IF view.place # NoPlace /\ IsInPlace(val.v) THEN {"shared"} ELSE {})
    OBVIOUS
  <2>2. kept' = Dyn(val.t, val.v) /\ bound' = [seen |-> Content(val.v), why |-> why]
    BY <1>2, <2>1 DEF Interface
  <2>3. UNCHANGED <<heap, val, typ, view>>
    BY <1>2 DEF Interface
  <2>4. HeapInv' /\ ValInv' /\ TypInv'
    BY <2>3 DEF RInv, HeapInv, ValInv, TypInv
  <2>5. kept'.t = val.t /\ kept'.v = val.v /\ bound'.seen = Content(val.v) /\ bound'.why = why
    BY <2>2 DEF Dyn
  <2>6. val.t \in TypesOrNone
    BY <1>2 DEF RInv, ValInv
  <2>7. Good(heap, val.t, val.v, NoPlace, why)
    <3>1. "unset" \in why <=> "unset" \in view.why
      BY <2>1
    <3>2. why \cap {"mapindex", "unset"} = {} => view.why \cap {"mapindex", "unset"} = {}
      BY <2>1
    <3>3. IsInPlace(val.v) => "shared" \in why
      BY <1>0, <2>1 DEF Good
    <3> QED BY <1>0, <3>1, <3>2, <3>3 DEF Good
  <2>8. ~IsInPlace(val.v) => Content(val.v) = val.v
    BY <1>0, GoodContent
  <2>9. why \cap {"mapindex", "unset", "nested"} = {} => ~Has(val.t, "iface")
    BY <2>1
  <2>10. KeptInv'
    BY <2>3, <2>5, <2>6, <2>7, <2>8, <2>9 DEF KeptInv
  <2> QED BY <2>4, <2>10 DEF RInv
<1> QED BY <1>1, <1>2

\* A call that answers without a Value keeps the invariant.
LEMMA AskInv ==
  ASSUME RInv, Ask \/ Kind("Kind", val.t) \/ Kind("Type.Kind", typ) \/ AskFixed \/ AskType
  PROVE  RInv'
<1>1. UNCHANGED <<heap, val, typ, kept, view, bound>>
  BY DEF Ask, Kind, AskFixed, AskType, Panics
<1> QED BY <1>1, StillInv

\* A method of Type that gives a type keeps the invariant.
LEMMA TypeCallInv ==
  ASSUME RInv, TypeElem \/ TypeField \/ TypeIn \/ TypeOut \/ SliceOf
  PROVE  RInv'
<1>1. CASE \E T \in TypesOrNone : GivesType(T)
  BY <1>1, GivesTypeInv DEF GivesType
<1>2. CASE \E op : Panics(op)
  BY <1>2, StillInv DEF Panics
<1>3. CASE TypeElem
  <2>1. IsType(typ) /\ ReflectKind(typ) \in HasElem => U(typ).elem \in TypesOrNone
    BY ElemsAre DEF HasElem, IsType, TypesOrNone
  <2> QED BY <1>1, <1>2, <1>3, <2>1 DEF TypeElem
<1>4. CASE TypeField
  <2>1. ASSUME Has(typ, "struct"), NEW i \in DOMAIN U(typ).fields PROVE U(typ).fields[i] \in TypesOrNone
    <3>1. PartTypes(typ) = U(typ).fields /\ typ \in DOMAIN Def
      BY <2>1 DEF PartTypes, Has, IsType
    <3> QED BY <2>1, <3>1, PartsAre DEF TypesOrNone
  <2> QED BY <1>1, <1>2, <1>4, <2>1 DEF TypeField
<1>5. ASSUME IsType(typ), Def[typ].kind = "func"
      PROVE  /\ \A i \in DOMAIN Def[typ].ins : Def[typ].ins[i] \in TypesOrNone
             /\ \A i \in DOMAIN Def[typ].outs : Def[typ].outs[i] \in TypesOrNone
  <2>1. PICK s, t : s = Def[typ].ins /\ t = Def[typ].outs
    OBVIOUS
  <2>2. s \in Seq(DOMAIN Def) /\ t \in Seq(DOMAIN Def)
    BY <1>5, <2>1, TypesAssumption DEF IsType
  <2>3. (\A i \in DOMAIN s : s[i] \in DOMAIN Def) /\ (\A i \in DOMAIN t : t[i] \in DOMAIN Def)
    BY <2>2, LenProperties, ElementOfSeq
  <2> QED BY <2>1, <2>3 DEF TypesOrNone
<1>6. CASE TypeIn
  BY <1>1, <1>2, <1>5, <1>6 DEF TypeIn
<1>7. CASE TypeOut
  BY <1>1, <1>2, <1>5, <1>7 DEF TypeOut
<1>8. CASE SliceOf
  BY <1>1, <1>2, <1>8 DEF SliceOf, SlicesOf, TypesOrNone
<1> QED BY <1>3, <1>4, <1>6, <1>7, <1>8

\* A store keeps the invariant.
LEMMA StoreInv ==
  ASSUME RInv, Store
  PROVE  RInv'
<1>1. PICK c \in DOMAIN heap :
        /\ heap[c].t \in DOMAIN Stored
        /\ \E v \in Stored[heap[c].t] : heap' = [heap EXCEPT ![c].v = v]
  BY DEF Store
<1>2. PICK v \in Stored[heap[c].t] : heap' = [heap EXCEPT ![c].v = v]
  BY <1>1
<1>3. UNCHANGED <<val, typ, kept, view, bound>>
  BY DEF Store
<1>4. PICK h : h = heap'
  OBVIOUS
<1>5. /\ HeapFits(h) /\ Keeps(heap, h)
      /\ \A d \in DOMAIN heap : IsAggregate(heap[d].t) => h[d].v = heap[d].v
  <2>1. HeapFits(heap) /\ Keeps(InitHeap, heap)
    BY DEF RInv, HeapInv
  <2>2. StoredAt(c, v, h) /\ heap[c].t \in DOMAIN Stored
    BY <1>1, <1>2, <1>4 DEF StoredAt
  <2> QED BY <2>1, <2>2, StoreFits
<1>6. HeapInv'
  <2>1. Keeps(InitHeap, h)
    BY <1>5 DEF RInv, HeapInv, Keeps
  <2> QED BY <1>4, <1>5, <2>1 DEF HeapInv
<1>7. Good(h, val.t, val.v, view.place, view.why) /\ Good(h, kept.t, kept.v, NoPlace, bound.why)
  BY <1>5, GoodMoves DEF RInv, HeapInv, ValInv, KeptInv
<1>8. ValInv' /\ TypInv' /\ KeptInv'
  BY <1>3, <1>4, <1>7 DEF RInv, ValInv, TypInv, KeptInv
<1> QED BY <1>6, <1>8 DEF RInv

\* The invariant holds at the beginning.
LEMMA InitInv ==
  ASSUME Init
  PROVE  RInv
<1>1. HeapInv
  BY InitFits DEF Init, HeapInv, Keeps
<1>2. ValInv
  <2>1. /\ val.t = Unset /\ val.v = NilIface
        /\ view.place = NoPlace /\ view.why = {"unset"} /\ view.seen = NilIface
    BY DEF Init, ZeroValue, ZeroView
  <2> QED BY <2>1, ZeroGood DEF ValInv
<1>3. TypInv
  BY DEF Init, TypInv, TypesOrNone
<1>4. KeptInv
  <2>1. kept.t = NoType /\ kept.v = Nothing /\ bound.seen = Nothing /\ bound.why = {}
    BY NilsAre DEF Init
  <2>2. Whole(heap, NoType, Nothing)
    BY NoTypes, WholeNone
  <2>3. Good(heap, NoType, Nothing, NoPlace, {})
    BY <2>2, WholeGood
  <2>4. ~Has(NoType, "iface")
    BY NoTypes DEF Has, IsType
  <2> QED BY <2>1, <2>3, <2>4 DEF KeptInv, TypesOrNone
<1> QED BY <1>1, <1>2, <1>3, <1>4 DEF RInv

\* Every step keeps it.
LEMMA StepInv ==
  ASSUME RInv, [Next]_vars
  PROVE  RInv'
<1>1. CASE UNCHANGED vars
  BY <1>1, StillInv DEF vars
<1> QED BY <1>1, PutDownInv, ValueOfInv, TypeOfInv, TypeOfValueInv, NewInv, ZeroOfInv, ElemInv,
           FieldInv, IndexInv, MapIndexInv, MapKeysInv, InterfaceInv, AskInv, TypeCallInv, StoreInv
        DEF Next

\* At every time the slots, the Value and the interface value are as the invariant says.
THEOREM SlotsFitTheirTypes == Spec => []RInv
BY InitInv, StepInv, PTL DEF Spec

-----------------------------------------------------------------------------
\* What the runs check ---------------------------------------------------------------------------

\* What the invariant says of the Value and the interface value.
LEMMA InvFits ==
  ASSUME RInv
  PROVE  ValuesFit
<1>1. HeapFits(heap) /\ Good(heap, val.t, val.v, view.place, view.why) /\ Good(heap, kept.t, kept.v, NoPlace, bound.why)
  BY DEF RInv, HeapInv, ValInv, KeptInv
<1>2. \A T, v : Sits(heap, T, v) => Fits(T, v)
  BY <1>1, SitsFits DEF Fits
<1>3. view.why \cap {"mapindex", "unset"} = {} => Fits(val.t, val.v)
  BY <1>1, <1>2 DEF Good
<1>4. bound.why \cap {"mapindex", "unset", "nested"} = {} =>
        Fits(kept.t, kept.v) /\ (IsType(kept.t) => ~Has(kept.t, "iface"))
  <2>1. bound.why \cap {"mapindex", "unset", "nested"} = {} => bound.why \cap {"mapindex", "unset"} = {}
    OBVIOUS
  <2> QED BY <1>1, <1>2, <2>1 DEF Good, RInv, KeptInv
<1>5. IsType(typ) \/ typ = NoType
  BY DEF RInv, TypInv, TypesOrNone, IsType
<1> QED BY <1>3, <1>4, <1>5 DEF ValuesFit

\* What the emulation hands to the program fits the type it has.
THEOREM ReflectedValuesFit == Spec => []ValuesFit
BY SlotsFitTheirTypes, InvFits, PTL

\* And of what they show.
LEMMA InvContent ==
  ASSUME RInv
  PROVE  ContentAsGo
<1>1. HeapFits(heap) /\ Good(heap, val.t, val.v, view.place, view.why) /\ Good(heap, kept.t, kept.v, NoPlace, bound.why)
  BY DEF RInv, HeapInv, ValInv, KeptInv
<1>2. ASSUME "shared" \notin view.why, "mapindex" \in view.why => view.place = NoPlace
      PROVE  Content(val.v) = IF view.place # NoPlace /\ IsAggregate(val.t)
                              THEN Content(heap[view.place].v) ELSE view.seen
  <2>1. CASE view.place # NoPlace /\ IsAggregate(val.t)
    <3>1. IsInPlace(val.v)
      BY <1>1, <1>2, <2>1 DEF Good
    <3>2. heap[view.place].v = val.v
      BY <1>1, <2>1, <3>1 DEF Good
    <3> QED BY <2>1, <3>2
  <2>2. CASE ~(view.place # NoPlace /\ IsAggregate(val.t))
    <3>1. ~IsInPlace(val.v)
      <4> SUFFICES ASSUME IsInPlace(val.v) PROVE FALSE
        OBVIOUS
      <4>1. view.place # NoPlace
        BY <1>1, <1>2 DEF Good
      <4>2. view.place \in DOMAIN heap /\ heap[view.place].v = val.v /\ heap[view.place].t = val.t
        BY <1>1, <1>2, <4>1 DEF Good
      <4>3. IsAggregate(val.t)
        BY <1>1, <4>2, SlotSits
      <4> QED BY <2>2, <4>1, <4>3
    <3>2. Content(val.v) = val.v
      BY <1>1, <3>1, GoodContent
    <3>3. view.seen = val.v
      BY <3>1 DEF RInv, ValInv
    <3> QED BY <2>2, <3>2, <3>3
  <2> QED BY <2>1, <2>2
<1>3. ASSUME "shared" \notin bound.why PROVE Content(kept.v) = bound.seen
  <2>1. ~IsInPlace(kept.v)
    BY <1>1, <1>3 DEF Good
  <2>2. Content(kept.v) = kept.v
    BY <1>1, <2>1, GoodContent
  <2> QED BY <2>1, <2>2 DEF RInv, KeptInv
<1> QED BY <1>2, <1>3 DEF ContentAsGo

\* A Value of an aggregate shows the variable it was taken from, any other what it was made
\* with; an interface value does not change, but for those made of such an aggregate.
THEOREM ShowsAsGo == Spec => []ContentAsGo
BY SlotsFitTheirTypes, InvContent, PTL

-----------------------------------------------------------------------------
\* Whether calls answer ----------------------------------------------------------------------------

\* What fits has the tag that the calls look for.
LEMMA AllowedTag ==
  ASSUME RInv, view.why \cap {"mapindex", "unset"} = {}
  PROVE  /\ FitsOutside(heap, val.t, val.v)
         /\ IsType(val.t) => val.t \in DOMAIN Def /\ val.v.tag = TagOf(val.t)
<1>1. HeapFits(heap) /\ Sits(heap, val.t, val.v)
  BY DEF RInv, HeapInv, ValInv, Good
<1>2. FitsOutside(heap, val.t, val.v)
  BY <1>1, SitsIs
<1> QED BY <1>2, TagIs DEF IsType

\* What excuses a call.
Excused(op) ==
  \/ view.why \cap {"mapindex", "unset"} # {} /\ typ = NoType
  \/ op = "Elem" /\ val.v = Ptr(NoPlace)
  \/ op = "Index" /\ Has(val.t, "string")
  \/ op \in {"Type.In", "Type.Out", "Type.NumIn", "Type.NumOut"} /\ Def[typ].kind = "named"
  \/ op = "Kind" /\ ~IsType(val.t)

\* A panic of a call that is not allowed, or is excused, is as it should be.
LEMMA PanicsRight ==
  ASSUME NEW op, Panics(op), Allowed(op) => Excused(op)
  PROVE  CallsAnswer'
<1>1. told'.op = op /\ told'.ok = FALSE
  BY DEF Panics
<1>2. UNCHANGED <<heap, val, typ, kept, view, bound>>
  BY DEF Panics
<1>3. Allowed(op)' <=> Allowed(op)
  BY <1>2 DEF Allowed
<1> QED BY <1>1, <1>2, <1>3 DEF CallsAnswer, Excused

\* So is any answer, but for that of IsNil.
LEMMA AnswersRight ==
  ASSUME NEW op, NEW is, Done(op, is), op # "IsNil"
  PROVE  CallsAnswer'
<1>1. told'.op = op /\ told'.ok = TRUE
  BY DEF Done
<1> QED BY <1>1 DEF CallsAnswer

\* Where the program has a Value with a type, it has no Type; where the Value is known to
\* have the wrong one, calls are excused.
LEMMA MistypedExcused ==
  ASSUME RInv, IsType(val.t), view.why \cap {"mapindex", "unset"} # {}, NEW op
  PROVE  Excused(op)
<1>1. val # ZeroValue
  <2>1. val.t # Unset
    BY NoTypes DEF IsType
  <2> QED BY <2>1 DEF ZeroValue
<1> QED BY <1>1 DEF Excused, RInv, TypInv

\* What calls on a Value are allowed on, and have not to answer.
LEMMA ValuePanics ==
  ASSUME RInv, NEW op, Panics(op), op \in DOMAIN AllowsValue,
         ASSUME view.why \cap {"mapindex", "unset"} = {}, val.t \in DOMAIN Def,
                ReflectKind(val.t) \in AllowsValue[op], val.v.tag = TagOf(val.t),
                FitsOutside(heap, val.t, val.v)
         PROVE  Excused(op)
  PROVE  CallsAnswer'
<1>1. SUFFICES ASSUME Allowed(op) PROVE Excused(op)
  BY PanicsRight
<1>2. IsType(val.t) /\ ReflectKind(val.t) \in AllowsValue[op]
  BY <1>1 DEF Allowed, AllowsValue, AllowsType
<1>3. CASE view.why \cap {"mapindex", "unset"} # {}
  BY <1>2, <1>3, MistypedExcused
<1>4. CASE view.why \cap {"mapindex", "unset"} = {}
  BY <1>2, <1>4, AllowedTag DEF IsType
<1> QED BY <1>3, <1>4

\* IsNil tells the zero value of a type that has nil.
LEMMA IsNilTells ==
  ASSUME RInv, view.why \cap {"mapindex", "unset"} = {}, val.v.tag \in Takes["IsNil"]
  PROVE  IsNilValue(val.v) = (val.v = Zero[val.t])
<1>1. PICK T, v : T = val.t /\ v = val.v
  OBVIOUS
<1>2. HeapFits(heap) /\ Sits(heap, T, v) /\ FitsOutside(heap, T, v)
  BY <1>1, SitsIs DEF RInv, HeapInv, ValInv, Good
<1>3. v.tag \in {"ptr", "chan", "map", "hashmap", "iface", "slice", "func"}
  BY <1>1 DEF Takes
<1>4. T \in DOMAIN Def /\ (v.tag \in {"map", "hashmap"} => ReflectKind(T) = "map")
      /\ (v.tag \notin {"map", "hashmap"} => ReflectKind(T) = v.tag)
  BY <1>2, <1>3, FitTags DEF Composed
<1>5. CASE v.tag = "ptr"
  <2>1. v = Ptr(v.cell) /\ Zero[T] = Ptr(NoPlace)
    BY <1>2, <1>4, <1>5, FitKinds, ZeroKinds
  <2>2. v.cell = NoPlace <=> v = Ptr(NoPlace)
    BY <2>1 DEF Ptr
  <2> QED BY <1>1, <1>5, <2>1, <2>2 DEF IsNilValue
<1>6. CASE v.tag = "iface"
  <2>1. /\ v = Dyn(v.t, v.v) /\ Zero[T] = NilIface
        /\ v.t = NoType \/ IsType(v.t)
    BY <1>2, <1>4, <1>6, FitKinds, ZeroKinds
  <2>2. <<v.t, v.v>> \in Inside(heap, T, v)
    BY <1>4, <1>6, InsideKinds DEF Has, IsType
  <2>3. FitsOutside(heap, v.t, v.v)
    BY <1>2, <2>2, SitsIs
  <2>4. ~IsType(v.t) => v = NilIface
    <3>1. ASSUME ~IsType(v.t) PROVE v.t = NoType /\ v.v = Nothing
      BY <2>1, <2>3, <3>1, FitNone DEF IsType
    <3> QED BY <2>1, <3>1 DEF NilIface
  <2>5. v = NilIface => ~IsType(v.t)
    BY NilsAre, NoTypes DEF IsType
  <2> QED BY <1>1, <1>6, <2>1, <2>4, <2>5 DEF IsNilValue
<1>7. CASE v.tag = "slice"
  <2>1. v = Slice(v.nil, v.slots) /\ v.nil \in BOOLEAN /\ (v.nil => v.slots = <<>>) /\ Zero[T] = Slice(TRUE, <<>>)
    BY <1>2, <1>4, <1>7, FitKinds, ZeroKinds
  <2>2. v.nil <=> v = Slice(TRUE, <<>>)
    BY <2>1 DEF Slice
  <2> QED BY <1>1, <1>7, <2>1, <2>2 DEF IsNilValue
<1>8. CASE v.tag \in {"map", "hashmap"}
  <2>1. /\ v = Map(v.tag, v.nil, v.entries) /\ v.tag = TagOf(T)
        /\ v.nil \in BOOLEAN /\ (v.nil => v.entries = <<>>) /\ Zero[T] = Map(TagOf(T), TRUE, <<>>)
    BY <1>2, <1>4, <1>8, FitKinds, ZeroKinds
  <2>2. v.nil <=> v = Map(TagOf(T), TRUE, <<>>)
    BY <2>1 DEF Map
  <2> QED BY <1>1, <1>8, <2>1, <2>2 DEF IsNilValue
<1>9. CASE v.tag = "chan"
  <2>1. v = Chan(v.nil, v.cap) /\ v.nil \in BOOLEAN /\ (v.nil => v.cap = 0) /\ Zero[T] = Chan(TRUE, 0)
    BY <1>2, <1>4, <1>9, FitKinds, ZeroKinds
  <2>2. v.nil <=> v = Chan(TRUE, 0)
    BY <2>1 DEF Chan
  <2> QED BY <1>1, <1>9, <2>1, <2>2 DEF IsNilValue
<1>10. CASE v.tag = "func"
  <2>1. v = Func(v.nil) /\ v.nil \in BOOLEAN /\ Zero[T] = Func(TRUE)
    BY <1>2, <1>4, <1>10, FitKinds, ZeroKinds
  <2>2. v.nil <=> v = Func(TRUE)
    BY <2>1 DEF Func
  <2> QED BY <1>1, <1>10, <2>1, <2>2 DEF IsNilValue
<1> QED BY <1>3, <1>5, <1>6, <1>7, <1>8, <1>9, <1>10

\* The queries of a Value.
LEMMA AskAnswers ==
  ASSUME RInv, Ask
  PROVE  CallsAnswer'
<1>1. PICK op \in DOMAIN Takes :
        IF val.v.tag \in Takes[op]
        THEN Done(op, Answer(op, val.v)) /\ UNCHANGED <<heap, val, typ, kept, view, bound>>
        ELSE Panics(op)
  BY DEF Ask
<1>2. CASE val.v.tag \in Takes[op] /\ op # "IsNil"
  BY <1>1, <1>2, AnswersRight
<1>3. CASE val.v.tag \in Takes[op] /\ op = "IsNil"
  <2>1. /\ told'.op = "IsNil" /\ told'.ok = TRUE /\ told'.is = IsNilValue(val.v)
        /\ UNCHANGED <<heap, val, typ, kept, view, bound>>
    BY <1>1, <1>3 DEF Done, Answer
  <2>2. view.why \cap {"mapindex", "unset"} = {} => IsNilValue(val.v) = (val.v = Zero[val.t])
    BY <1>3, IsNilTells
  <2> QED BY <2>1, <2>2 DEF CallsAnswer
<1>4. CASE val.v.tag \notin Takes[op]
  <2>1. Panics(op)
    BY <1>1, <1>4
  <2>2. op \in {"Int", "Uint", "Bool", "Len", "IsNil", "NumField", "Pointer"}
    BY <1>1 DEF Takes
  <2>3. ASSUME val.t \in DOMAIN Def, ReflectKind(val.t) \in AllowsValue[op], val.v.tag = TagOf(val.t)
        PROVE  Excused(op)
    <3>1. /\ TagOf(val.t) \in {"map", "hashmap"} <=> ReflectKind(val.t) = "map"
          /\ ReflectKind(val.t) # "map" => TagOf(val.t) = ReflectKind(val.t)
      BY <2>3, TagKinds
    <3>2. TagOf(val.t) \in Takes[op]
      BY <2>2, <2>3, <3>1 DEF Takes, AllowsValue, Signed, Unsigned
    <3> QED BY <1>4, <2>3, <3>2
  <2>4. op \in DOMAIN AllowsValue
    BY <2>2 DEF AllowsValue
  <2> QED BY <2>1, <2>3, <2>4, ValuePanics
<1> QED BY <1>2, <1>3, <1>4

\* Elem answers, but for a nil pointer.
LEMMA ElemAnswers ==
  ASSUME RInv, Elem
  PROVE  CallsAnswer'
<1>1. CASE val.v.tag = "iface" \/ Points
  <2>1. Done("call", "nothing")
    BY <1>1 DEF Elem, Gives
  <2> QED BY <2>1, AnswersRight
<1>2. CASE ~(val.v.tag = "iface" \/ Points)
  <2>1. Panics("Elem")
    BY <1>2 DEF Elem
  <2>2. "Elem" \in DOMAIN AllowsValue /\ AllowsValue["Elem"] = {"ptr", "iface"}
    BY DEF AllowsValue
  <2>3. ASSUME val.t \in DOMAIN Def, ReflectKind(val.t) \in {"ptr", "iface"}, val.v.tag = TagOf(val.t),
               FitsOutside(heap, val.t, val.v)
        PROVE  Excused("Elem")
    <3>1. val.v.tag = ReflectKind(val.t)
      BY <2>3, TagKinds
    <3>2. val.v.tag = "ptr" /\ Has(val.t, "ptr")
      BY <1>2, <2>3, <3>1 DEF Has, IsType
    <3>3. val.v = Ptr(val.v.cell)
      BY <2>3, <3>1, <3>2, FitKinds
    <3>4. val.v.cell = NoPlace
      BY <1>2, <3>2 DEF Points
    <3> QED BY <3>3, <3>4 DEF Excused
  <2> QED BY <2>1, <2>2, <2>3, ValuePanics
<1> QED BY <1>1, <1>2

\* Field answers.
LEMMA FieldAnswers ==
  ASSUME RInv, Field
  PROVE  CallsAnswer'
<1>1. CASE Done("call", "nothing")
  BY <1>1, AnswersRight
<1>2. ASSUME Panics("Field"), ~(val.v.tag = "struct" /\ Has(val.t, "struct")) \/ DOMAIN Places(val.v) # DOMAIN PartTypes(val.t)
      PROVE  CallsAnswer'
  <2>1. "Field" \in DOMAIN AllowsValue /\ AllowsValue["Field"] = {"struct"}
    BY DEF AllowsValue
  <2>2. ASSUME val.t \in DOMAIN Def, ReflectKind(val.t) = "struct", val.v.tag = TagOf(val.t),
               FitsOutside(heap, val.t, val.v)
        PROVE  FALSE
    <3>1. val.v.tag = "struct"
      BY <2>2, TagKinds
    <3>2. DOMAIN Places(val.v) = DOMAIN PartTypes(val.t)
      <4>1. PICK T, v : T = val.t /\ v = val.v
        OBVIOUS
      <4>2. T \in DOMAIN Def /\ FitsOutside(heap, T, v) /\ ReflectKind(T) \in {"struct", "array"}
        BY <2>2, <4>1
      <4>3. DOMAIN Places(v) = DOMAIN PartTypes(T)
        BY <4>2, FitKinds
      <4> QED BY <4>1, <4>3
    <3> QED BY <1>2, <2>2, <3>1, <3>2 DEF Has, IsType
  <2> QED BY <1>2, <2>1, <2>2, ValuePanics
<1>3. CASE val.v.tag = "struct" /\ Has(val.t, "struct")
  <2>1. PICK i \in DOMAIN PartTypes(val.t) :
          IF i \in DOMAIN Places(val.v)
          THEN /\ Gives(PartTypes(val.t)[i], Part(val.v, i), PlaceOfPart(i), view.why)
               /\ UNCHANGED heap
          ELSE Panics("Field")
    BY <1>3 DEF Field
  <2>2. CASE i \in DOMAIN Places(val.v)
    BY <1>1, <2>1, <2>2 DEF Gives
  <2>3. CASE i \notin DOMAIN Places(val.v)
    BY <1>2, <2>1, <2>3
  <2> QED BY <2>2, <2>3
<1> QED BY <1>2, <1>3 DEF Field

\* Index answers, but for a string.
LEMMA IndexAnswers ==
  ASSUME RInv, Index
  PROVE  CallsAnswer'
<1>1. CASE Done("call", "nothing")
  BY <1>1, AnswersRight
<1>2. ASSUME Panics("Index"), ~\E k \in {"array", "slice"} : val.v.tag = k /\ Has(val.t, k)
      PROVE  CallsAnswer'
  <2>1. "Index" \in DOMAIN AllowsValue /\ AllowsValue["Index"] = {"array", "slice", "string"}
    BY DEF AllowsValue
  <2>2. ASSUME val.t \in DOMAIN Def, ReflectKind(val.t) \in {"array", "slice", "string"}, val.v.tag = TagOf(val.t)
        PROVE  Excused("Index")
    <3>1. val.v.tag = ReflectKind(val.t)
      BY <2>2, TagKinds
    <3> QED BY <1>2, <2>2, <3>1 DEF Has, IsType, Excused
  <2> QED BY <1>2, <2>1, <2>2, ValuePanics
<1> QED BY <1>1, <1>2 DEF Index, Gives

\* MapIndex and MapKeys answer.
LEMMA MapAnswers ==
  ASSUME RInv, MapIndex \/ MapKeys
  PROVE  CallsAnswer'
<1>1. CASE Done("call", "nothing")
  BY <1>1, AnswersRight
<1>2. ASSUME NEW op \in {"MapIndex", "MapKeys"}, Panics(op), ~HasMap
      PROVE  CallsAnswer'
  <2>1. op \in DOMAIN AllowsValue /\ AllowsValue[op] = {"map"}
    BY DEF AllowsValue
  <2>2. ASSUME val.t \in DOMAIN Def, ReflectKind(val.t) = "map", val.v.tag = TagOf(val.t)
        PROVE  FALSE
    BY <1>2, <2>2, TagKinds DEF HasMap, Has, IsType
  <2> QED BY <1>2, <2>1, <2>2, ValuePanics
<1> QED BY <1>1, <1>2 DEF MapIndex, MapKeys, Gives

\* The calls that panic only on what is no type.
LEMMA TypedAnswers ==
  ASSUME RInv,
         \/ TypeOfValue \/ New \/ ZeroOf \/ Interface \/ SliceOf
         \/ Kind("Kind", val.t) \/ Kind("Type.Kind", typ)
  PROVE  CallsAnswer'
<1>1. CASE Done("call", "nothing")
  BY <1>1, AnswersRight
<1>2. ASSUME NEW op, NEW is, Done(op, is), op # "IsNil" PROVE CallsAnswer'
  BY <1>2, AnswersRight
<1>3. ASSUME NEW op, Panics(op), Allowed(op) => Excused(op) PROVE CallsAnswer'
  BY <1>3, PanicsRight
<1>4. ~IsType(Unset)
  BY NoTypes DEF IsType
<1>5. ~IsType(val.t) => ~Allowed("Type") /\ ~Allowed("Interface") /\ Excused("Kind")
  BY DEF Allowed, AllowsValue, AllowsType, Excused
<1>6. ~IsType(typ) => ~Allowed("New") /\ ~Allowed("Zero") /\ ~Allowed("SliceOf") /\ ~Allowed("Type.Kind")
  BY DEF Allowed, AllowsValue, AllowsType
<1>7. CASE TypeOfValue
  BY <1>1, <1>3, <1>4, <1>5, <1>7 DEF TypeOfValue, GivesType
<1>8. CASE New
  BY <1>1, <1>3, <1>6, <1>8 DEF New, Gives
<1>9. CASE ZeroOf
  BY <1>1, <1>3, <1>6, <1>9 DEF ZeroOf, Gives
<1>10. CASE Interface
  BY <1>1, <1>3, <1>4, <1>5, <1>10 DEF Interface
<1>11. CASE SliceOf
  BY <1>1, <1>3, <1>6, <1>11 DEF SliceOf, GivesType
<1>12. CASE Kind("Kind", val.t)
  BY <1>2, <1>3, <1>5, <1>12 DEF Kind
<1>13. CASE Kind("Type.Kind", typ)
  BY <1>2, <1>3, <1>6, <1>13 DEF Kind
<1> QED BY <1>7, <1>8, <1>9, <1>10, <1>11, <1>12, <1>13

\* The methods of Type answer on the kinds that have them, but for In, Out, NumIn and NumOut
\* of a named type.
LEMMA TypeAnswers ==
  ASSUME RInv, TypeElem \/ TypeField \/ TypeIn \/ TypeOut \/ AskType
  PROVE  CallsAnswer'
<1>1. CASE Done("call", "nothing")
  BY <1>1, AnswersRight
<1>2. ASSUME NEW op, NEW is, Done(op, is), op # "IsNil" PROVE CallsAnswer'
  BY <1>2, AnswersRight
<1>3. ASSUME NEW op, Panics(op), Allowed(op) => Excused(op) PROVE CallsAnswer'
  BY <1>3, PanicsRight
<1>4. \A op \in DOMAIN AllowsType : Allowed(op) => IsType(typ) /\ ReflectKind(typ) \in AllowsType[op]
  BY DEF Allowed, AllowsType, AllowsValue
<1>5. /\ Allowed("Type.Elem") => IsType(typ) /\ ReflectKind(typ) \in HasElem
      /\ Allowed("Type.Field") => Has(typ, "struct")
      /\ Allowed("Type.NumField") => Has(typ, "struct")
      /\ Allowed("Type.Bits") => IsType(typ) /\ ReflectKind(typ) \in DOMAIN Bits
  BY <1>4 DEF AllowsType, Has, Bits
<1>6. ASSUME NEW op \in {"Type.In", "Type.Out", "Type.NumIn", "Type.NumOut"}, Allowed(op),
             ~(IsType(typ) /\ Def[typ].kind = "func")
      PROVE  Excused(op)
  <2>1. IsType(typ) /\ ReflectKind(typ) = "func"
    BY <1>4, <1>6 DEF AllowsType
  <2>2. Def[typ].kind = "named"
    BY <1>6, <2>1 DEF ReflectKind, U, Underlying
  <2> QED BY <2>2 DEF Excused
<1>7. CASE TypeElem
  BY <1>1, <1>3, <1>5, <1>7 DEF TypeElem, GivesType
<1>8. CASE TypeField
  BY <1>1, <1>3, <1>5, <1>8 DEF TypeField, GivesType
<1>9. CASE TypeIn
  BY <1>1, <1>3, <1>6, <1>9 DEF TypeIn, GivesType
<1>10. CASE TypeOut
  BY <1>1, <1>3, <1>6, <1>10 DEF TypeOut, GivesType
<1>11. CASE AskType
  BY <1>2, <1>3, <1>5, <1>6, <1>11 DEF AskType
<1> QED BY <1>7, <1>8, <1>9, <1>10, <1>11

\* Every step leaves the answer right.
LEMMA StepAnswers ==
  ASSUME RInv, CallsAnswer, [Next]_vars
  PROVE  CallsAnswer'
<1>1. CASE UNCHANGED vars
  BY <1>1 DEF vars, CallsAnswer, Allowed
<1>2. CASE Done("call", "nothing")
  BY <1>2, AnswersRight
<1>3. CASE PutDown \/ ValueOf \/ TypeOf \/ Store
  BY <1>2, <1>3 DEF PutDown, ValueOf, TypeOf, Store, Gives, GivesType
<1>4. CASE AskFixed
  BY <1>4, AnswersRight DEF AskFixed
<1> QED BY <1>1, <1>3, <1>4, ElemAnswers, FieldAnswers, IndexAnswers, MapAnswers, TypedAnswers,
           TypeAnswers, AskAnswers
        DEF Next

\* A call on a kind that package reflect allows it on answers, but for the four named
\* exceptions, and IsNil tells the zero value.
THEOREM AllowedCallsAnswer == Spec => []CallsAnswer
<1>1. ASSUME Init PROVE CallsAnswer
  <2>1. told.op = "call" /\ told.ok = TRUE
    BY <1>1 DEF Init
  <2> QED BY <2>1 DEF CallsAnswer
<1> QED BY <1>1, StepAnswers, SlotsFitTheirTypes, PTL DEF Spec

-----------------------------------------------------------------------------
\* The types ---------------------------------------------------------------------

\* A part of a type is a type; so is the type under it, which has no name.
LEMMA TypeIs ==
  ASSUME NEW T \in DOMAIN Def
  PROVE  /\ DOMAIN Children(T) = 1 .. Len(Children(T)) /\ Len(Children(T)) \in Nat
         /\ \A i \in DOMAIN Children(T) : Children(T)[i] \in DOMAIN Def
         /\ Underlying(T) \in DOMAIN Def /\ Def[Underlying(T)].kind # "named"
         /\ Underlying(Underlying(T)) = Underlying(T)
         /\ Def[T].kind = "named" => Children(T) = <<Underlying(T)>>
<1>1. /\ Children(T) \in Seq(DOMAIN Def)
      /\ Def[T].kind = "named" => Def[Def[T].under].kind # "named"
  BY DefAssumption
<1>2. /\ DOMAIN Children(T) = 1 .. Len(Children(T)) /\ Len(Children(T)) \in Nat
      /\ \A i \in DOMAIN Children(T) : Children(T)[i] \in DOMAIN Def
  BY <1>1, LenProperties, ElementOfSeq
<1>3. CASE Def[T].kind = "named"
  <2>1. Children(T) = <<Def[T].under>> /\ Underlying(T) = Def[T].under
    BY <1>3 DEF Children, Underlying
  <2>2. Def[T].under \in DOMAIN Def
    BY <2>1, <1>2
  <2> QED BY <1>1, <1>2, <1>3, <2>1, <2>2 DEF Underlying
<1>4. CASE Def[T].kind # "named"
  BY <1>2, <1>4 DEF Underlying
<1> QED BY <1>3, <1>4

\* A type that is walked is shown by its kind and its parts.
LEMMA WalkedKind ==
  ASSUME NEW T \in DOMAIN Def, Walked(T)
  PROVE  /\ ReflectKind(T) \notin {"struct", "iface"}
         /\ ReflectKind(Underlying(T)) = ReflectKind(T)
         /\ Def[T].kind # "named" => ReflectKind(T) = Def[T].kind /\ Underlying(T) = T
BY TypeIs DEF Walked, LookedUp, ReflectKind, U, Underlying

-----------------------------------------------------------------------------
\* What is shown of a type, and what is met from it --------------------------------

Pairs(n) == (0 .. n) \X DOMAIN Def

\* One more part of Shown, from what f shows of the parts.
ShowOne(f, p) ==
  IF p[1] = 0 THEN NotAsked
  ELSE IF ReflectKind(p[2]) \in {"struct", "iface"} THEN HostType(ReflectKind(p[2]), p[2], <<>>)
  ELSE HostType(ReflectKind(p[2]), "",
                [i \in DOMAIN Children(Underlying(p[2])) |-> f[<<p[1] - 1, Children(Underlying(p[2]))[i]>>]])

\* One more step of Met, from what f meets from the parts.
MeetOne(f, p) ==
  {p[2]} \cup IF p[1] = 0 \/ ~Walked(p[2]) THEN {}
              ELSE UNION {f[<<p[1] - 1, Children(p[2])[i]>>] : i \in DOMAIN Children(p[2])}

ShowsTo(f, n) == f = [p \in Pairs(n) |-> ShowOne(f, p)]
MeetsTo(f, n) == f = [p \in Pairs(n) |-> MeetOne(f, p)]

\* f and g agree on pairs below n.
AgreeBelow(f, g, n) == \A k \in 0 .. n : k < n => \A T \in DOMAIN Def : f[<<k, T>>] = g[<<k, T>>]

\* The parts of what is shown are one step down.
LEMMA ShowAgrees ==
  ASSUME NEW f, NEW g, NEW n \in Nat, AgreeBelow(f, g, n), NEW T \in DOMAIN Def, NEW k \in 0 .. n
  PROVE  ShowOne(f, <<k, T>>) = ShowOne(g, <<k, T>>)
<1>0. CASE k = 0
  BY <1>0 DEF ShowOne
<1>1. CASE k # 0
  <2>1. k - 1 \in 0 .. n /\ k - 1 < n
    BY <1>1
  <2>2. \A i \in DOMAIN Children(Underlying(T)) : Children(Underlying(T))[i] \in DOMAIN Def
    BY TypeIs
  <2>3. \A i \in DOMAIN Children(Underlying(T)) :
           f[<<k - 1, Children(Underlying(T))[i]>>] = g[<<k - 1, Children(Underlying(T))[i]>>]
    BY <2>1, <2>2 DEF AgreeBelow
  <2> QED BY <2>3 DEF ShowOne
<1> QED BY <1>0, <1>1

\* So are the parts that are met.
LEMMA MeetAgrees ==
  ASSUME NEW f, NEW g, NEW n \in Nat, AgreeBelow(f, g, n), NEW T \in DOMAIN Def, NEW k \in 0 .. n
  PROVE  MeetOne(f, <<k, T>>) = MeetOne(g, <<k, T>>)
<1>0. CASE k = 0
  BY <1>0 DEF MeetOne
<1>1. CASE k # 0
  <2>1. k - 1 \in 0 .. n /\ k - 1 < n
    BY <1>1
  <2>2. \A i \in DOMAIN Children(T) : Children(T)[i] \in DOMAIN Def
    BY TypeIs
  <2>3. \A i \in DOMAIN Children(T) : f[<<k - 1, Children(T)[i]>>] = g[<<k - 1, Children(T)[i]>>]
    BY <2>1, <2>2 DEF AgreeBelow
  <2> DEFINE F == {f[<<k - 1, Children(T)[i]>>] : i \in DOMAIN Children(T)}
             G == {g[<<k - 1, Children(T)[i]>>] : i \in DOMAIN Children(T)}
  <2>4. F = G
    BY <2>3
  <2>5. /\ MeetOne(f, <<k, T>>) = {T} \cup IF k = 0 \/ ~Walked(T) THEN {} ELSE UNION F
        /\ MeetOne(g, <<k, T>>) = {T} \cup IF k = 0 \/ ~Walked(T) THEN {} ELSE UNION G
    BY DEF MeetOne
  <2> HIDE DEF F, G
  <2> QED BY <2>4, <2>5
<1> QED BY <1>0, <1>1

\* A function over pairs is told by what it is at each.
LEMMA OverPairs ==
  ASSUME NEW n \in Nat, NEW p \in Pairs(n)
  PROVE  p[1] \in 0 .. n /\ p[2] \in DOMAIN Def /\ p = <<p[1], p[2]>>
BY DEF Pairs

\* Everything can be shown down to n parts of parts.
LEMMA ShowsAll ==
  ASSUME NEW n \in Nat
  PROVE  \E f : ShowsTo(f, n)
<1> DEFINE Bad == {k \in Nat : ~\E f : ShowsTo(f, k)}
<1> SUFFICES ASSUME Bad # {} PROVE FALSE
  OBVIOUS
<1>1. PICK k \in Bad : \A j \in Bad : k <= j
  BY LeastOne
<1>2. k \in Nat /\ ~\E f : ShowsTo(f, k)
  BY <1>1
<1>3. \E f : \A p \in Pairs(k) : p[1] < k => f[p] = ShowOne(f, p)
  <2>1. CASE k = 0
    BY <2>1, <1>2, OverPairs
  <2>2. CASE k # 0
    <3>1. k - 1 \in Nat /\ k - 1 \notin Bad
      BY <2>2, <1>1
    <3>2. PICK f : ShowsTo(f, k - 1)
      BY <3>1
    <3>3. ASSUME NEW p \in Pairs(k), p[1] < k PROVE f[p] = ShowOne(f, p)
      <4>1. p \in Pairs(k - 1)
        BY <3>3, <1>2, OverPairs DEF Pairs
      <4> QED BY <4>1, <3>2 DEF ShowsTo
    <3> QED BY <3>3
  <2> QED BY <2>1, <2>2
<1>4. PICK f : \A p \in Pairs(k) : p[1] < k => f[p] = ShowOne(f, p)
  BY <1>3
<1> DEFINE g == [p \in Pairs(k) |-> ShowOne(f, p)]
<1>5. AgreeBelow(f, g, k)
  <2>1. ASSUME NEW j \in 0 .. k, j < k, NEW T \in DOMAIN Def PROVE f[<<j, T>>] = g[<<j, T>>]
    <3>1. <<j, T>> \in Pairs(k) /\ <<j, T>>[1] = j
      BY DEF Pairs
    <3> QED BY <2>1, <3>1, <1>4
  <2> HIDE DEF g
  <2> QED BY <2>1 DEF AgreeBelow
<1>6. ASSUME NEW p \in Pairs(k) PROVE g[p] = ShowOne(g, p)
  <2>1. p[1] \in 0 .. k /\ p[2] \in DOMAIN Def /\ p = <<p[1], p[2]>>
    BY <1>2, OverPairs
  <2>2. g[p] = ShowOne(f, p)
    OBVIOUS
  <2> HIDE DEF g
  <2>3. ShowOne(f, <<p[1], p[2]>>) = ShowOne(g, <<p[1], p[2]>>)
    BY <2>1, <1>2, <1>5, ShowAgrees
  <2> QED BY <2>1, <2>2, <2>3
<1>7. g = [p \in Pairs(k) |-> g[p]]
  OBVIOUS
<1> HIDE DEF g
<1>8. ShowsTo(g, k)
  BY <1>6, <1>7 DEF ShowsTo
<1> QED BY <1>8, <1>2

\* Everything can be met down to n calls.
LEMMA MeetsAll ==
  ASSUME NEW n \in Nat
  PROVE  \E f : MeetsTo(f, n)
<1> DEFINE Bad == {k \in Nat : ~\E f : MeetsTo(f, k)}
<1> SUFFICES ASSUME Bad # {} PROVE FALSE
  OBVIOUS
<1>1. PICK k \in Bad : \A j \in Bad : k <= j
  BY LeastOne
<1>2. k \in Nat /\ ~\E f : MeetsTo(f, k)
  BY <1>1
<1>3. \E f : \A p \in Pairs(k) : p[1] < k => f[p] = MeetOne(f, p)
  <2>1. CASE k = 0
    BY <2>1, <1>2, OverPairs
  <2>2. CASE k # 0
    <3>1. k - 1 \in Nat /\ k - 1 \notin Bad
      BY <2>2, <1>1
    <3>2. PICK f : MeetsTo(f, k - 1)
      BY <3>1
    <3>3. ASSUME NEW p \in Pairs(k), p[1] < k PROVE f[p] = MeetOne(f, p)
      <4>1. p \in Pairs(k - 1)
        BY <3>3, <1>2, OverPairs DEF Pairs
      <4> QED BY <4>1, <3>2 DEF MeetsTo
    <3> QED BY <3>3
  <2> QED BY <2>1, <2>2
<1>4. PICK f : \A p \in Pairs(k) : p[1] < k => f[p] = MeetOne(f, p)
  BY <1>3
<1> DEFINE g == [p \in Pairs(k) |-> MeetOne(f, p)]
<1>5. AgreeBelow(f, g, k)
  <2>1. ASSUME NEW j \in 0 .. k, j < k, NEW T \in DOMAIN Def PROVE f[<<j, T>>] = g[<<j, T>>]
    <3>1. <<j, T>> \in Pairs(k) /\ <<j, T>>[1] = j
      BY DEF Pairs
    <3> QED BY <2>1, <3>1, <1>4
  <2> HIDE DEF g
  <2> QED BY <2>1 DEF AgreeBelow
<1>6. ASSUME NEW p \in Pairs(k) PROVE g[p] = MeetOne(g, p)
  <2>1. p[1] \in 0 .. k /\ p[2] \in DOMAIN Def /\ p = <<p[1], p[2]>>
    BY <1>2, OverPairs
  <2>2. g[p] = MeetOne(f, p)
    OBVIOUS
  <2> HIDE DEF g
  <2>3. MeetOne(f, <<p[1], p[2]>>) = MeetOne(g, <<p[1], p[2]>>)
    BY <2>1, <1>2, <1>5, MeetAgrees
  <2> QED BY <2>1, <2>2, <2>3
<1>7. g = [p \in Pairs(k) |-> g[p]]
  OBVIOUS
<1> HIDE DEF g
<1>8. MeetsTo(g, k)
  BY <1>6, <1>7 DEF MeetsTo
<1> QED BY <1>8, <1>2

\* Shown is what its definition says.
LEMMA ShownIs ==
  ASSUME NEW n \in 0 .. MaxDepth, NEW T \in DOMAIN Def
  PROVE  Shown[<<n, T>>] = ShowOne(Shown, <<n, T>>)
<1>1. MaxDepth \in Nat
  BY HostAssumption
<1>2. PICK f : ShowsTo(f, MaxDepth)
  BY <1>1, ShowsAll
<1>3. Shown = CHOOSE g : ShowsTo(g, MaxDepth)
  BY DEF Shown, ShowsTo, Pairs, ShowOne
<1>4. ShowsTo(Shown, MaxDepth)
  BY <1>2, <1>3
<1>5. <<n, T>> \in Pairs(MaxDepth)
  BY DEF Pairs
<1> QED BY <1>4, <1>5 DEF ShowsTo

\* Met is what its definition says.
LEMMA MetIs ==
  ASSUME NEW n \in 0 .. MaxDepth, NEW T \in DOMAIN Def
  PROVE  Met[<<n, T>>] = MeetOne(Met, <<n, T>>)
<1>1. MaxDepth \in Nat
  BY HostAssumption
<1>2. PICK f : MeetsTo(f, MaxDepth)
  BY <1>1, MeetsAll
<1>3. Met = CHOOSE g : MeetsTo(g, MaxDepth)
  BY DEF Met, MeetsTo, Pairs, MeetOne
<1>4. MeetsTo(Met, MaxDepth)
  BY <1>2, <1>3
<1>5. <<n, T>> \in Pairs(MaxDepth)
  BY DEF Pairs
<1> QED BY <1>4, <1>5 DEF MeetsTo

-----------------------------------------------------------------------------
\* Sequences of whatever elements --------------------------------------------------

IsSeq(h) == \E n \in Nat : h = [i \in 1 .. n |-> h[i]]

\* A function over 1 .. n is a sequence of length n.
LEMMA SeqIs ==
  ASSUME NEW h, IsSeq(h)
  PROVE  /\ Len(h) \in Nat /\ DOMAIN h = 1 .. Len(h)
         /\ h = [i \in 1 .. Len(h) |-> h[i]]
         /\ h \in Seq({h[i] : i \in DOMAIN h})
<1>1. PICK n \in Nat : h = [i \in 1 .. n |-> h[i]]
  BY DEF IsSeq
<1>2. DOMAIN h = 1 .. n
  BY <1>1
<1> DEFINE S == {h[i] : i \in DOMAIN h}
<1>3. h \in [1 .. n -> S]
  BY <1>1, <1>2
<1>4. h \in Seq(S)
  <2> HIDE DEF S
  <2> QED BY <1>3, SeqDef
<1>5. Len(h) \in Nat /\ DOMAIN h = 1 .. Len(h)
  <2> HIDE DEF S
  <2> QED BY <1>4, LenProperties
<1>6. h = [i \in 1 .. Len(h) |-> h[i]]
  BY <1>1, <1>2, <1>5
<1> QED BY <1>4, <1>5, <1>6

\* The elements of a sequence that one is appended to.
LEMMA AppendIs ==
  ASSUME NEW h, IsSeq(h), NEW x
  PROVE  /\ IsSeq(Append(h, x)) /\ Len(Append(h, x)) = Len(h) + 1
         /\ DOMAIN Append(h, x) = 1 .. Len(h) + 1
         /\ \A i \in 1 .. Len(h) : Append(h, x)[i] = h[i]
         /\ Append(h, x)[Len(h) + 1] = x
<1> DEFINE S == {h[i] : i \in DOMAIN h} \cup {x}
<1>1. h \in Seq(S) /\ Len(h) \in Nat /\ x \in S
  <2>1. {h[i] : i \in DOMAIN h} \subseteq S /\ x \in S
    OBVIOUS
  <2>2. h \in Seq({h[i] : i \in DOMAIN h}) /\ Len(h) \in Nat
    BY SeqIs
  <2> HIDE DEF S
  <2> QED BY <2>1, <2>2, SeqMonotonic
<1> HIDE DEF S
<1>2. /\ Append(h, x) \in Seq(S) /\ Len(Append(h, x)) = Len(h) + 1
      /\ \A i \in 1 .. Len(h) : Append(h, x)[i] = h[i]
      /\ Append(h, x)[Len(h) + 1] = x
  BY <1>1, AppendProperties
<1>3. DOMAIN Append(h, x) = 1 .. Len(h) + 1 /\ IsSeq(Append(h, x))
  <2>1. Append(h, x) \in [1 .. Len(h) + 1 -> S] /\ Len(h) + 1 \in Nat
    BY <1>1, <1>2, LenProperties
  <2> QED BY <2>1 DEF IsSeq
<1> QED BY <1>2, <1>3

\* The elements of what is left of a sequence without its last.
LEMMA FrontIs ==
  ASSUME NEW h, IsSeq(h), Len(h) # 0
  PROVE  /\ IsSeq(SubSeq(h, 1, Len(h) - 1)) /\ Len(SubSeq(h, 1, Len(h) - 1)) = Len(h) - 1
         /\ DOMAIN SubSeq(h, 1, Len(h) - 1) = 1 .. Len(h) - 1
         /\ \A i \in 1 .. Len(h) - 1 : SubSeq(h, 1, Len(h) - 1)[i] = h[i]
<1> DEFINE S == {h[i] : i \in DOMAIN h}
           k == SubSeq(h, 1, Len(h) - 1)
<1>1. Len(h) \in Nat /\ DOMAIN h = 1 .. Len(h) /\ Len(h) - 1 \in Nat
  BY SeqIs
<1>2. \A i \in 1 .. Len(h) - 1 : h[i] \in S
  BY <1>1
<1>3. k \in Seq(S) /\ Len(k) = Len(h) - 1 /\ \A i \in 1 .. Len(h) - 1 : k[i] = h[1 + i - 1]
  <2> HIDE DEF S
  <2>1. Len(k) = IF 1 <= Len(h) - 1 THEN Len(h) - 1 - 1 + 1 ELSE 0
    BY <1>1, <1>2, SubSeqProperties
  <2>2. k \in Seq(S) /\ \A i \in 1 .. Len(h) - 1 - 1 + 1 : k[i] = h[1 + i - 1]
    <3>1. PICK n : n = Len(h) - 1
      OBVIOUS
    <3>2. SubSeq(h, 1, n) \in Seq(S) /\ \A i \in 1 .. n - 1 + 1 : SubSeq(h, 1, n)[i] = h[1 + i - 1]
      BY <1>1, <1>2, <3>1, SubSeqProperties
    <3> QED BY <3>1, <3>2
  <2> HIDE DEF k
  <2>3. PICK n : n = Len(h)
    OBVIOUS
  <2>4. n \in Nat /\ n # 0
    BY <1>1, <2>3
  <2>5. \A i \in 1 .. n - 1 : i \in 1 .. n - 1 - 1 + 1
    BY <2>4
  <2>6. (IF 1 <= n - 1 THEN n - 1 - 1 + 1 ELSE 0) = n - 1
    BY <2>4
  <2>7. Len(k) = n - 1
    BY <2>1, <2>3, <2>6
  <2>8. \A i \in 1 .. n - 1 : k[i] = h[1 + i - 1]
    BY <2>2, <2>3, <2>5
  <2> QED BY <2>2, <2>3, <2>7, <2>8
<1>4. \A i \in 1 .. Len(h) - 1 : 1 + i - 1 = i
  BY <1>1
<1>5. IsSeq(k) /\ DOMAIN k = 1 .. Len(h) - 1
  <2> HIDE DEF S
  <2>1. k \in [1 .. Len(h) - 1 -> S]
    BY <1>3, LenProperties
  <2> HIDE DEF k
  <2> QED BY <2>1, <1>1 DEF IsSeq
<1> HIDE DEF k
<1>6. \A i \in 1 .. Len(h) - 1 : k[i] = h[i]
  BY <1>3, <1>4
<1> QED BY <1>3, <1>5, <1>6 DEF k

\* Only the empty sequence has no elements.
LEMMA EmptyIs ==
  ASSUME NEW h, IsSeq(h)
  PROVE  h = <<>> <=> Len(h) = 0
BY SeqIs, EmptySeq

-----------------------------------------------------------------------------
\* What a call of findReflectType gives ---------------------------------------------

\* h is what is shown of T down to m parts of parts or more.
Finished(h, T, m) == \A k \in 0 .. MaxDepth : m <= k => Shown[<<k, T>>] = h

\* A type that was looked up is all shown by its name.
LEMMA LookedUpDone ==
  ASSUME NEW T \in DOMAIN Def, LookedUp(T), NEW m \in Nat, m # 0
  PROVE  Finished(HostType(ReflectKind(T), T, <<>>), T, m)
<1>1. ASSUME NEW k \in 0 .. MaxDepth, m <= k PROVE Shown[<<k, T>>] = HostType(ReflectKind(T), T, <<>>)
  <2>1. k # 0 /\ MaxDepth \in Nat
    BY <1>1, HostAssumption
  <2>2. Shown[<<k, T>>] = ShowOne(Shown, <<k, T>>)
    BY ShownIs
  <2> QED BY <2>1, <2>2 DEF ShowOne, LookedUp
<1> QED BY <1>1 DEF Finished

\* What is shown of a type with a name is what is shown of the type under it.
LEMMA NamedDone ==
  ASSUME NEW T \in DOMAIN Def, Walked(T), NEW m \in Nat, NEW h, Finished(h, Underlying(T), m)
  PROVE  Finished(h, T, m + 1)
<1>1. ASSUME NEW k \in 0 .. MaxDepth, m + 1 <= k PROVE Shown[<<k, T>>] = h
  <2>1. k # 0 /\ m <= k
    BY <1>1, HostAssumption
  <2>2. Underlying(T) \in DOMAIN Def /\ Underlying(Underlying(T)) = Underlying(T)
    BY TypeIs
  <2>3. Shown[<<k, T>>] = ShowOne(Shown, <<k, T>>) /\ Shown[<<k, Underlying(T)>>] = ShowOne(Shown, <<k, Underlying(T)>>)
    BY <2>2, ShownIs
  <2>4. ReflectKind(T) \notin {"struct", "iface"} /\ ReflectKind(Underlying(T)) = ReflectKind(T)
    BY WalkedKind
  <2>5. ShowOne(Shown, <<k, T>>) = ShowOne(Shown, <<k, Underlying(T)>>)
    BY <2>2, <2>4 DEF ShowOne
  <2>6. Shown[<<k, Underlying(T)>>] = h
    BY <2>1 DEF Finished
  <2> QED BY <2>3, <2>5, <2>6
<1> QED BY <1>1 DEF Finished

\* What is shown of a type is put together from what is shown of its parts.
LEMMA ConstructDone ==
  ASSUME NEW T \in DOMAIN Def, Walked(T), Def[T].kind # "named", NEW m \in Nat, NEW got, IsSeq(got),
         Len(got) = Len(Children(T)), \A j \in 1 .. Len(got) : Finished(got[j], Children(T)[j], m)
  PROVE  Finished(HostType(Def[T].kind, "", got), T, m + 1)
<1>1. ASSUME NEW k \in 0 .. MaxDepth, m + 1 <= k
      PROVE  Shown[<<k, T>>] = HostType(Def[T].kind, "", got)
  <2>1. k # 0 /\ m <= k - 1 /\ k - 1 \in 0 .. MaxDepth
    BY <1>1, HostAssumption
  <2>2. Shown[<<k, T>>] = ShowOne(Shown, <<k, T>>)
    BY ShownIs
  <2>3. ReflectKind(T) \notin {"struct", "iface"} /\ ReflectKind(T) = Def[T].kind /\ Underlying(T) = T
    BY WalkedKind
  <2> DEFINE parts == [i \in DOMAIN Children(T) |-> Shown[<<k - 1, Children(T)[i]>>]]
  <2>4. ShowOne(Shown, <<k, T>>) = HostType(Def[T].kind, "", parts)
    BY <2>1, <2>3 DEF ShowOne
  <2>5. DOMAIN Children(T) = 1 .. Len(got)
    BY TypeIs
  <2>6. \A j \in 1 .. Len(got) : Shown[<<k - 1, Children(T)[j]>>] = got[j]
    BY <2>1 DEF Finished
  <2>7. parts = [i \in 1 .. Len(got) |-> got[i]]
    BY <2>5, <2>6
  <2>8. parts = got
    BY <2>7, SeqIs
  <2> HIDE DEF parts
  <2> QED BY <2>2, <2>4, <2>8
<1> QED BY <1>1 DEF Finished

-----------------------------------------------------------------------------
\* Walks ------------------------------------------------------------------------------

\* Q is a part of T that the walk goes to.
Calls(T, Q) == Walked(T) /\ \E i \in DOMAIN Children(T) : Children(T)[i] = Q

\* What is met from a part is met from the type.
LEMMA MetPart ==
  ASSUME NEW T \in DOMAIN Def, NEW Q \in DOMAIN Def, Calls(T, Q), NEW n \in 0 .. MaxDepth, n # 0
  PROVE  Met[<<n - 1, Q>>] \subseteq Met[<<n, T>>]
<1>1. PICK i \in DOMAIN Children(T) : Children(T)[i] = Q
  BY DEF Calls
<1> DEFINE S == {Met[<<n - 1, Children(T)[j]>>] : j \in DOMAIN Children(T)}
<1>2. Met[<<n, T>>] = {T} \cup UNION S
  <2>1. Met[<<n, T>>] = MeetOne(Met, <<n, T>>)
    BY MetIs
  <2>2. MeetOne(Met, <<n, T>>) = {T} \cup IF n = 0 \/ ~Walked(T) THEN {} ELSE UNION S
    BY DEF MeetOne
  <2> HIDE DEF S
  <2> QED BY <2>1, <2>2 DEF Calls
<1>3. Met[<<n - 1, Q>>] \in S
  BY <1>1
<1> HIDE DEF S
<1> QED BY <1>2, <1>3

\* A type is met from itself.
LEMMA MetSelf ==
  ASSUME NEW T \in DOMAIN Def, NEW n \in 0 .. MaxDepth
  PROVE  T \in Met[<<n, T>>]
BY MetIs DEF MeetOne

\* c goes from type to part of it, n times.
Chain(c, n) ==
  /\ \A i \in 0 .. n : c[i] \in DOMAIN Def
  /\ \A i \in 0 .. n : i < n => Calls(c[i], c[i + 1])

\* What a chain comes to is met from where it starts.
LEMMA ChainMet ==
  ASSUME NEW c, NEW n \in 0 .. MaxDepth, Chain(c, n), NEW b \in 0 .. n
  PROVE  \A a \in 0 .. b : c[b] \in Met[<<b - a, c[a]>>]
<1>0. MaxDepth \in Nat
  BY HostAssumption
<1> DEFINE Bad == {d \in 0 .. b : c[b] \notin Met[<<d, c[b - d]>>]}
<1>1. ASSUME Bad # {} PROVE FALSE
  <2>1. PICK d \in Bad : \A x \in Bad : d <= x
    <3>1. Bad \in SUBSET Nat
      OBVIOUS
    <3> HIDE DEF Bad
    <3> QED BY <1>1, <3>1, LeastOne
  <2>2. d \in 0 .. b /\ c[b] \notin Met[<<d, c[b - d]>>] /\ d \in 0 .. MaxDepth
    BY <2>1, <1>0
  <2>3. CASE d = 0
    <3>1. b - d = b /\ c[b] \in DOMAIN Def
      BY <2>3 DEF Chain
    <3> QED BY <3>1, <2>2, MetSelf
  <2>4. CASE d # 0
    <3>1. d - 1 \in 0 .. b /\ ~(d <= d - 1) /\ b - (d - 1) = (b - d) + 1
      BY <2>4, <2>2
    <3>2. c[b] \in Met[<<d - 1, c[(b - d) + 1]>>]
      BY <3>1, <2>1
    <3>3. b - d \in 0 .. n /\ (b - d) + 1 \in 0 .. n /\ b - d < n
      BY <2>4, <2>2
    <3>4. PICK T : T = c[b - d]
      OBVIOUS
    <3>5. PICK Q : Q = c[(b - d) + 1]
      OBVIOUS
    <3>6. T \in DOMAIN Def /\ Q \in DOMAIN Def /\ Calls(T, Q)
      BY <3>3, <3>4, <3>5 DEF Chain
    <3>7. Met[<<d - 1, Q>>] \subseteq Met[<<d, T>>]
      BY <3>6, <2>2, <2>4, MetPart
    <3> QED BY <3>2, <3>4, <3>5, <3>7, <2>2
  <2> QED BY <2>3, <2>4
<1>2. ASSUME NEW a \in 0 .. b PROVE c[b] \in Met[<<b - a, c[a]>>]
  <2>1. b - a \in 0 .. b /\ b - (b - a) = a
    BY <1>0
  <2>2. b - a \notin Bad
    BY <1>1
  <2> QED BY <2>1, <2>2
<1> QED BY <1>2

\* A chain longer than there are types comes round.
LEMMA ChainCircular ==
  ASSUME NEW c, Chain(c, MaxDepth)
  PROVE  Circular(c[0])
<1>0. MaxDepth \in Nat /\ IsFiniteSet(DOMAIN Def) /\ Cardinality(DOMAIN Def) <= MaxDepth /\ Cardinality(DOMAIN Def) \in Nat
  BY HostAssumption, DefAssumption, FS_CardinalityType
<1> DEFINE f == [i \in 0 .. MaxDepth |-> c[i]]
<1>1. f \in [0 .. MaxDepth -> DOMAIN Def]
  BY DEF Chain
<1>2. IsFiniteSet(0 .. MaxDepth) /\ Cardinality(0 .. MaxDepth) = MaxDepth + 1
  BY <1>0, FS_Interval
<1>3. \E x, y \in 0 .. MaxDepth : x # y /\ f[x] = f[y]
  <2> HIDE DEF f
  <2>1. Cardinality(DOMAIN Def) < Cardinality(0 .. MaxDepth)
    BY <1>0, <1>2
  <2> QED BY <1>0, <1>1, <1>2, <2>1, FS_PigeonHole
<1>4. PICK a \in 0 .. MaxDepth, b \in 0 .. MaxDepth : a < b /\ c[a] = c[b]
  <2>1. PICK x \in 0 .. MaxDepth, y \in 0 .. MaxDepth : x # y /\ c[x] = c[y]
    BY <1>3
  <2>2. x < y \/ y < x
    BY <2>1, <1>0
  <2> QED BY <2>1, <2>2
<1>5. MaxDepth \in 0 .. MaxDepth
  BY <1>0
<1>6. a \in 0 .. b /\ a + 1 \in 0 .. b /\ a + 1 \in 0 .. MaxDepth /\ a < MaxDepth /\ 0 \in 0 .. a
  BY <1>0, <1>4
<1>7. c[b] \in Met[<<b - (a + 1), c[a + 1]>>]
  BY <1>5, <1>6, ChainMet
<1>8. c[a] \in Met[<<a - 0, c[0]>>]
  BY <1>5, <1>6, ChainMet
<1>9. b - (a + 1) \in 0 .. MaxDepth /\ a - 0 \in 0 .. MaxDepth
  BY <1>0, <1>4, <1>6
<1>10. c[a] \in WalkedFrom(c[0]) /\ c[a] \in WalkedFrom(c[a + 1])
  BY <1>4, <1>7, <1>8, <1>9 DEF WalkedFrom
<1>11. Walked(c[a]) /\ \E i \in DOMAIN Children(c[a]) : Children(c[a])[i] = c[a + 1]
  BY <1>6 DEF Chain, Calls
<1> QED BY <1>10, <1>11 DEF Circular

-----------------------------------------------------------------------------
\* The invariant ------------------------------------------------------------------------

\* On the walk from T the table gives another type for its name.
Misled(T) == \E Q \in WalkedFrom(T) : Mistaken(Q)

\* A call at place i of the stack of a search for A has found its parts up to the one it
\* is at, unless the search was misled.
FrameOK(A, x, i) ==
  /\ x = [type |-> x.type, got |-> x.got]
  /\ x.type \in DOMAIN Def
  /\ IsSeq(x.got) /\ Len(x.got) <= Len(Children(x.type))
  /\ \A j \in 1 .. Len(x.got) : x.got[j] \notin {Panicked, Died}
  /\ Misled(A) \/ \A j \in 1 .. Len(x.got) : Finished(x.got[j], Children(x.type)[j], MaxDepth - i)

\* x has called y.
Below(x, y) ==
  /\ Walked(x.type)
  /\ Len(x.got) < Len(Children(x.type))
  /\ y.type = Children(x.type)[Len(x.got) + 1]

StackOK ==
  /\ IsSeq(stack) /\ Len(stack) <= MaxDepth
  /\ \A i \in 1 .. Len(stack) : FrameOK(asked, stack[i], i)
  /\ \A i \in 1 .. Len(stack) : i < Len(stack) => Below(stack[i], stack[i + 1])
  /\ stack # <<>> => stack[1].type = asked

\* A type that cannot be given is met.
Wanting(T) == \E Q \in WalkedFrom(T) : Lacking(Q)

FoundOK ==
  \/ found = NotAsked
  \/ /\ asked \in DOMAIN Def
     /\ \/ found = Panicked /\ Wanting(asked)
        \/ found = Died /\ Circular(asked)
        \/ found \notin {Panicked, Died} /\ (found = Shown[<<MaxDepth, asked>>] \/ Misled(asked))

SymInv ==
  /\ asked \in DOMAIN Def \cup {NoType}
  /\ StackOK
  /\ FoundOK
  /\ Running => found = NotAsked

\* While the walk is on, the call on top is one of it.
LEMMA TopIs ==
  ASSUME SymInv, Running
  PROVE  /\ Len(stack) \in 1 .. MaxDepth /\ FrameOK(asked, Top, Len(stack)) /\ Top.type \in DOMAIN Def
         /\ asked \in DOMAIN Def /\ MaxDepth \in Nat /\ found = NotAsked
<1>1. IsSeq(stack) /\ Len(stack) <= MaxDepth /\ MaxDepth \in Nat /\ Len(stack) \in Nat /\ Len(stack) # 0
  BY HostAssumption, SeqIs, EmptyIs DEF SymInv, StackOK, Running
<1>2. Len(stack) \in 1 .. Len(stack) /\ 1 \in 1 .. Len(stack)
  BY <1>1
<1>3. FrameOK(asked, stack[Len(stack)], Len(stack)) /\ FrameOK(asked, stack[1], 1)
  BY <1>2 DEF SymInv, StackOK
<1>4. stack[1].type = asked
  BY DEF SymInv, StackOK, Running
<1> QED BY <1>1, <1>3, <1>4 DEF FrameOK, Top, SymInv

\* The calls under way are a chain of types from the one asked for.
LEMMA StackChain ==
  ASSUME SymInv, Running
  PROVE  \E c : /\ c = [i \in 0 .. Len(stack) - 1 |-> stack[i + 1].type]
                /\ Chain(c, Len(stack) - 1)
<1>1. PICK c : c = [i \in 0 .. Len(stack) - 1 |-> stack[i + 1].type]
  OBVIOUS
<1>0. Len(stack) \in 1 .. MaxDepth /\ MaxDepth \in Nat
  BY TopIs
<1>2. ASSUME NEW i \in 0 .. Len(stack) - 1
      PROVE  /\ c[i] = stack[i + 1].type /\ c[i] \in DOMAIN Def
             /\ i < Len(stack) - 1 => Calls(c[i], c[i + 1])
  <2>1. i + 1 \in 1 .. Len(stack)
    BY <1>0
  <2>2. FrameOK(asked, stack[i + 1], i + 1)
    BY <2>1 DEF SymInv, StackOK
  <2>3. c[i] = stack[i + 1].type /\ c[i] \in DOMAIN Def
    BY <1>1, <2>2 DEF FrameOK
  <2>4. ASSUME i < Len(stack) - 1 PROVE Calls(c[i], c[i + 1])
    <3>1. i + 1 < Len(stack) /\ i + 1 \in 0 .. Len(stack) - 1
      BY <2>4, <1>0
    <3>2. PICK x : x = stack[i + 1]
      OBVIOUS
    <3>3. PICK y : y = stack[(i + 1) + 1]
      OBVIOUS
    <3>4. Below(x, y)
      BY <2>1, <3>1, <3>2, <3>3 DEF SymInv, StackOK
    <3>5. c[i] = x.type /\ c[i + 1] = y.type
      BY <1>1, <3>1, <3>2, <3>3
    <3>6. x.type \in DOMAIN Def /\ Len(x.got) \in Nat
      BY <2>2, <3>2, SeqIs DEF FrameOK
    <3>7. Len(x.got) + 1 \in DOMAIN Children(x.type)
      BY <3>4, <3>6, TypeIs DEF Below
    <3> QED BY <3>4, <3>5, <3>7 DEF Below, Calls
  <2> QED BY <2>3, <2>4
<1>3. Chain(c, Len(stack) - 1)
  BY <1>2 DEF Chain
<1> QED BY <1>1, <1>3

\* The type of the call on top is met from the one asked for.
LEMMA TopMet ==
  ASSUME SymInv, Running
  PROVE  Top.type \in WalkedFrom(asked)
<1>1. PICK c : /\ c = [i \in 0 .. Len(stack) - 1 |-> stack[i + 1].type]
               /\ Chain(c, Len(stack) - 1)
  BY StackChain
<1>2. Len(stack) \in 1 .. MaxDepth /\ MaxDepth \in Nat
  BY TopIs
<1>3. PICK n : n = Len(stack) - 1
  OBVIOUS
<1>4. n \in 0 .. MaxDepth /\ n \in 0 .. n /\ 0 \in 0 .. n /\ n - 0 = n /\ n + 1 = Len(stack)
  BY <1>2, <1>3
<1>5. c[n] \in Met[<<n - 0, c[0]>>]
  BY <1>1, <1>3, <1>4, ChainMet
<1>6. c[n] = Top.type /\ c[0] = asked
  <2>1. c[n] = stack[n + 1].type /\ c[0] = stack[0 + 1].type
    BY <1>1, <1>3, <1>4
  <2>2. stack[1].type = asked
    BY DEF SymInv, StackOK, Running
  <2> QED BY <2>1, <2>2, <1>4 DEF Top
<1> QED BY <1>4, <1>5, <1>6 DEF WalkedFrom

-----------------------------------------------------------------------------
\* The steps ------------------------------------------------------------------------------

\* Initially nothing is asked.
LEMMA SymInitOK == SymInit => SymInv
<1> SUFFICES ASSUME SymInit PROVE SymInv
  OBVIOUS
<1>1. IsSeq(<<>>) /\ Len(<<>>) = 0 /\ MaxDepth \in Nat
  <2>1. <<>> = [i \in 1 .. 0 |-> <<>>[i]]
    OBVIOUS
  <2> QED BY <2>1, HostAssumption DEF IsSeq
<1>2. StackOK
  BY <1>1 DEF SymInit, StackOK
<1> QED BY <1>2 DEF SymInit, SymInv, FoundOK, Running

\* The walk is over, in one of its ways.
LEMMA Ended ==
  ASSUME SymInv, asked \in DOMAIN Def, stack' = <<>>, UNCHANGED asked,
         \/ found' = Panicked /\ Wanting(asked)
         \/ found' = Died /\ Circular(asked)
         \/ found' \notin {Panicked, Died} /\ (found' = Shown[<<MaxDepth, asked>>] \/ Misled(asked))
  PROVE  SymInv'
<1>1. IsSeq(<<>>) /\ Len(<<>>) = 0 /\ MaxDepth \in Nat
  <2>1. <<>> = [i \in 1 .. 0 |-> <<>>[i]]
    OBVIOUS
  <2> QED BY <2>1, HostAssumption DEF IsSeq
<1>2. StackOK'
  BY <1>1 DEF StackOK
<1>3. FoundOK'
  BY DEF FoundOK
<1> QED BY <1>2, <1>3 DEF SymInv, Running

\* The call on top has found h, its caller goes on.
LEMMA Returned ==
  ASSUME SymInv, Running, NEW h, Returns(h), h \notin {Panicked, Died},
         Misled(asked) \/ Finished(h, Top.type, MaxDepth - Len(stack) + 1)
  PROVE  SymInv'
<1>0. /\ Len(stack) \in 1 .. MaxDepth /\ FrameOK(asked, Top, Len(stack)) /\ asked \in DOMAIN Def
      /\ MaxDepth \in Nat /\ IsSeq(stack) /\ found = NotAsked /\ UNCHANGED asked
  BY TopIs DEF SymInv, StackOK, Returns
<1>1. PICK rest : rest = Rest
  OBVIOUS
<1>2. /\ IsSeq(rest) /\ Len(rest) = Len(stack) - 1 /\ DOMAIN rest = 1 .. Len(stack) - 1
      /\ \A i \in 1 .. Len(stack) - 1 : rest[i] = stack[i]
  <2>1. Len(stack) # 0
    BY <1>0
  <2> QED BY <1>0, <1>1, <2>1, FrontIs DEF Rest
<1>3. CASE Len(stack) = 1
  <2>1. rest = <<>>
    BY <1>2, <1>3, EmptyIs
  <2>2. stack' = <<>> /\ found' = h
    BY <1>1, <2>1 DEF Returns
  <2>3. Top.type = asked
    BY <1>3 DEF SymInv, StackOK, Running, Top
  <2>4. MaxDepth \in 0 .. MaxDepth /\ MaxDepth - Len(stack) + 1 <= MaxDepth
    BY <1>0
  <2>5. Misled(asked) \/ Shown[<<MaxDepth, asked>>] = h
    BY <2>3, <2>4 DEF Finished
  <2> QED BY <1>0, <2>2, <2>5, Ended
<1>4. CASE Len(stack) # 1
  <2>1. PICK n : n = Len(stack) - 1
    OBVIOUS
  <2>2. n \in 1 .. Len(stack) - 1 /\ n + 1 = Len(stack) /\ n \in Nat /\ n # 0 /\ n < Len(stack) /\ n \in 1 .. Len(stack)
    BY <1>0, <1>4, <2>1
  <2>3. rest # <<>>
    BY <1>2, <2>1, <2>2, EmptyIs
  <2>4. PICK x : x = stack[n]
    OBVIOUS
  <2>5. FrameOK(asked, x, n) /\ Below(x, Top)
    BY <2>2, <2>4 DEF SymInv, StackOK, Top
  <2>6. PICK y : y = [type |-> x.type, got |-> Append(x.got, h)]
    OBVIOUS
  <2>7. stack' = [rest EXCEPT ![n] = y] /\ found' = found
    <3>1. stack' = [Rest EXCEPT ![Len(Rest)].got = Append(@, h)] /\ found' = found
      BY <1>1, <2>3 DEF Returns
    <3>2. stack' = [rest EXCEPT ![n] = [rest[n] EXCEPT !.got = Append(rest[n].got, h)]]
      BY <3>1, <1>1, <1>2, <2>1
    <3>3. rest[n] = x /\ x = [type |-> x.type, got |-> x.got]
      <4>1. x = [type |-> x.type, got |-> x.got]
        BY <2>5 DEF FrameOK
      <4>2. rest[n] = x
        BY <1>2, <2>2, <2>4
      <4> QED BY <4>1, <4>2
    <3>4. [x EXCEPT !.got = Append(x.got, h)] = y
      <4>1. PICK got : got = Append(x.got, h)
        OBVIOUS
      <4>2. PICK T : T = x.type
        OBVIOUS
      <4>3. x = [type |-> T, got |-> x.got] /\ y = [type |-> T, got |-> got]
        BY <3>3, <2>6, <4>1, <4>2
      <4>4. [x EXCEPT !.got = got] = y
        BY <4>3
      <4> QED BY <4>1, <4>4
    <3> QED BY <3>1, <3>2, <3>3, <3>4
  <2>8. /\ IsSeq(stack') /\ Len(stack') = n /\ stack'[n] = y
        /\ \A i \in 1 .. n : i # n => stack'[i] = stack[i]
    <3>1. DOMAIN stack' = 1 .. n /\ stack' = [i \in 1 .. n |-> stack'[i]]
      BY <1>2, <2>1, <2>7
    <3>2. IsSeq(stack')
      BY <3>1, <2>2 DEF IsSeq
    <3>3. Len(stack') = n
      BY <3>1, <3>2, <2>2, SeqIs
    <3> QED BY <3>2, <3>3, <1>2, <2>1, <2>2, <2>7
  <2>9. FrameOK(asked, y, n)
    <3>1. PICK got : got = x.got
      OBVIOUS
    <3>2. IsSeq(got) /\ Len(got) \in Nat /\ Len(got) < Len(Children(x.type)) /\ Len(Children(x.type)) \in Nat
      BY <3>1, <2>5, SeqIs, TypeIs DEF FrameOK, Below
    <3>3. /\ IsSeq(Append(got, h)) /\ Len(Append(got, h)) = Len(got) + 1
          /\ \A i \in 1 .. Len(got) : Append(got, h)[i] = got[i]
          /\ Append(got, h)[Len(got) + 1] = h
      BY <3>2, AppendIs
    <3>4. MaxDepth - Len(stack) + 1 = MaxDepth - n
      BY <1>0, <2>2
    <3>5. ASSUME NEW j \in 1 .. Len(got) + 1
          PROVE  /\ Append(got, h)[j] \notin {Panicked, Died}
                 /\ ~Misled(asked) => Finished(Append(got, h)[j], Children(x.type)[j], MaxDepth - n)
      <4>1. CASE j = Len(got) + 1
        <5>1. Children(x.type)[j] = Top.type
          BY <4>1, <3>1, <2>5 DEF Below
        <5> QED BY <4>1, <5>1, <3>3, <3>4
      <4>2. CASE j # Len(got) + 1
        <5>1. j \in 1 .. Len(got)
          BY <4>2, <3>2
        <5>2. /\ got[j] \notin {Panicked, Died}
              /\ ~Misled(asked) => Finished(got[j], Children(x.type)[j], MaxDepth - n)
          BY <5>1, <3>1, <2>5 DEF FrameOK
        <5> QED BY <5>1, <5>2, <3>3
      <4> QED BY <4>1, <4>2
    <3>6. y.type = x.type /\ y.got = Append(got, h) /\ y = [type |-> y.type, got |-> y.got] /\ x.type \in DOMAIN Def
      BY <2>5, <2>6, <3>1 DEF FrameOK
    <3> HIDE DEF FrameOK
    <3>7. Len(y.got) <= Len(Children(x.type))
      BY <3>2, <3>3, <3>6
    <3> QED BY <3>3, <3>5, <3>6, <3>7 DEF FrameOK
  <2>10. \A i \in 1 .. n : FrameOK(asked, stack'[i], i)
    <3>1. \A i \in 1 .. n : i # n => FrameOK(asked, stack[i], i)
      BY <2>2, <1>0 DEF SymInv, StackOK
    <3> QED BY <3>1, <2>8, <2>9
  <2>11. \A i \in 1 .. n : i < n => Below(stack'[i], stack'[i + 1])
    <3>1. ASSUME NEW i \in 1 .. n, i < n PROVE Below(stack'[i], stack'[i + 1])
      <4>1. i + 1 \in 1 .. n /\ i \in 1 .. Len(stack) /\ i < Len(stack) /\ i # n
        BY <3>1, <2>2
      <4>2. Below(stack[i], stack[i + 1])
        BY <4>1 DEF SymInv, StackOK
      <4>3. stack'[i + 1].type = stack[i + 1].type
        BY <4>1, <2>4, <2>6, <2>8
      <4>4. stack'[i] = stack[i]
        BY <4>1, <2>8
      <4> QED BY <4>2, <4>3, <4>4 DEF Below
    <3> QED BY <3>1
  <2>12. stack'[1].type = asked
    <3>1. 1 \in 1 .. n
      BY <2>2
    <3>2. stack'[1].type = stack[1].type
      BY <3>1, <2>4, <2>6, <2>8
    <3> QED BY <3>2 DEF SymInv, StackOK, Running
  <2>13. StackOK'
    <3>1. n <= MaxDepth
      BY <1>0, <2>2
    <3> QED BY <3>1, <2>8, <2>10, <2>11, <2>12, <1>0 DEF StackOK
  <2> QED BY <1>0, <2>7, <2>13 DEF SymInv, FoundOK
<1> QED BY <1>3, <1>4

\* A type of the host is neither a panic nor the end of the process.
LEMMA HostNotFailed ==
  ASSUME NEW kind, NEW name, NEW of
  PROVE  HostType(kind, name, of) \notin {Panicked, Died}
<1>1. PICK h : h = HostType(kind, name, of)
  OBVIOUS
<1>2. DOMAIN h = {"kind", "name", "of"}
  BY <1>1 DEF HostType
<1>3. DOMAIN Panicked = {"kind"} /\ DOMAIN Died = {"kind"}
  BY DEF Panicked, Died
<1> QED BY <1>1, <1>2, <1>3

\* A named struct or interface is looked up.
LEMMA LookUpOK == SymInv /\ LookUp => SymInv'
<1> SUFFICES ASSUME SymInv, LookUp PROVE SymInv'
  OBVIOUS
<1>0. /\ Running /\ LookedUp(Top.type) /\ Len(stack) \in 1 .. MaxDepth /\ Top.type \in DOMAIN Def
      /\ asked \in DOMAIN Def /\ MaxDepth \in Nat
  BY TopIs DEF LookUp
<1>1. PICK name : name = Def[Top.type].name
  OBVIOUS
<1>2. CASE name \in DOMAIN Linked
  <2>1. PICK Q : Q = Linked[name]
    OBVIOUS
  <2>2. PICK h : h = HostType(ReflectKind(Q), Q, <<>>)
    OBVIOUS
  <2>3. h \notin {Panicked, Died} /\ Returns(h)
    BY <1>1, <1>2, <2>1, <2>2, HostNotFailed DEF LookUp
  <2>4. PICK m : m = MaxDepth - Len(stack) + 1
    OBVIOUS
  <2>5. CASE Q = Top.type
    <3>1. m \in Nat /\ m # 0
      BY <1>0, <2>4
    <3>2. Finished(h, Top.type, m)
      BY <1>0, <2>2, <2>5, <3>1, LookedUpDone
    <3> QED BY <1>0, <2>3, <2>4, <3>2, Returned
  <2>6. CASE Q # Top.type
    <3>1. Mistaken(Top.type)
      BY <1>0, <1>1, <1>2, <2>1, <2>6 DEF Mistaken
    <3>2. Misled(asked)
      BY <1>0, <3>1, TopMet DEF Misled
    <3> QED BY <1>0, <2>3, <3>2, Returned
  <2> QED BY <2>5, <2>6
<1>3. CASE name \notin DOMAIN Linked
  <2>1. stack' = <<>> /\ found' = Panicked /\ UNCHANGED asked
    BY <1>1, <1>3 DEF LookUp, Ends
  <2>2. Wanting(asked)
    BY <1>0, <1>1, <1>3, TopMet DEF Wanting, Walked, Lacking
  <2> QED BY <1>0, <2>1, <2>2, Ended
<1> QED BY <1>2, <1>3

\* Neither a struct or an interface without a name nor a method's signature is found.
LEMMA UnsupportedOK == SymInv /\ Unsupported => SymInv'
<1> SUFFICES ASSUME SymInv, Unsupported PROVE SymInv'
  OBVIOUS
<1>0. /\ Running /\ asked \in DOMAIN Def
      /\ Def[Top.type].kind \in {"struct", "iface"} \/ HasReceiver(Top.type)
  BY TopIs DEF Unsupported
<1>1. Lacking(Top.type)
  BY <1>0 DEF Lacking, Walked, LookedUp, HasReceiver
<1>2. Wanting(asked)
  BY <1>0, <1>1, TopMet DEF Wanting
<1> QED BY <1>0, <1>2, Ended DEF Unsupported, Ends

\* The walk goes on to the next part.
LEMMA RecurseOK == SymInv /\ Recurse => SymInv'
<1> SUFFICES ASSUME SymInv, Recurse PROVE SymInv'
  OBVIOUS
<1>0. /\ Running /\ Walked(Top.type) /\ Len(Top.got) < Len(Children(Top.type))
      /\ Len(stack) \in 1 .. MaxDepth /\ FrameOK(asked, Top, Len(stack)) /\ Top.type \in DOMAIN Def
      /\ asked \in DOMAIN Def /\ MaxDepth \in Nat /\ found = NotAsked /\ IsSeq(stack)
  BY TopIs DEF Recurse, SymInv, StackOK
<1>1. PICK T : T = Children(Top.type)[Len(Top.got) + 1]
  OBVIOUS
<1>2. T \in DOMAIN Def /\ Calls(Top.type, T)
  <2>1. Len(Top.got) + 1 \in DOMAIN Children(Top.type)
    BY <1>0, SeqIs, TypeIs DEF FrameOK
  <2> QED BY <2>1, <1>0, <1>1, TypeIs DEF Calls
<1>3. PICK n : n = Len(stack)
  OBVIOUS
<1>4. CASE n = MaxDepth
  <2>1. PICK c : /\ c = [i \in 0 .. Len(stack) - 1 |-> stack[i + 1].type]
                 /\ Chain(c, Len(stack) - 1)
    BY <1>0, StackChain
  <2>2. PICK d : d = [i \in 0 .. n |-> IF i = n THEN T ELSE c[i]]
    OBVIOUS
  <2>3. \A i \in 0 .. n : i # n => i \in 0 .. n - 1 /\ (i + 1 # n => i < n - 1)
    BY <1>0, <1>3
  <2>4. n \in 0 .. n /\ n \in 1 .. MaxDepth /\ 0 \in 0 .. n /\ 0 # n /\ 0 \in 0 .. n - 1 /\ n - 1 \in 0 .. n - 1
    BY <1>0, <1>3
  <2>5. c[n - 1] = Top.type /\ c[0] = asked
    <3>1. c[n - 1] = stack[n - 1 + 1].type /\ c[0] = stack[0 + 1].type
      BY <2>1, <2>4, <1>3
    <3>2. stack[1].type = asked
      BY <1>0 DEF SymInv, StackOK
    <3> QED BY <3>1, <3>2, <2>4, <1>3 DEF Top
  <2>6. ASSUME NEW i \in 0 .. n PROVE d[i] \in DOMAIN Def /\ (i < n => Calls(d[i], d[i + 1]))
    <3>1. CASE i = n
      BY <3>1, <2>2, <1>2
    <3>2. CASE i # n
      <4>1. i \in 0 .. n - 1 /\ (i + 1 # n => i < n - 1) /\ d[i] = c[i] /\ i + 1 \in 0 .. n
        BY <3>2, <2>2, <2>3, <2>4
      <4>2. c[i] \in DOMAIN Def /\ (i < n - 1 => Calls(c[i], c[i + 1]))
        BY <4>1, <2>1, <1>3 DEF Chain
      <4>3. CASE i + 1 = n
        <5>1. d[i + 1] = T /\ i = n - 1
          BY <4>1, <4>3, <2>2, <2>4
        <5> QED BY <4>1, <4>2, <5>1, <2>5, <1>2
      <4>4. CASE i + 1 # n
        <5>1. d[i + 1] = c[i + 1]
          BY <4>1, <4>4, <2>2
        <5> QED BY <4>1, <4>2, <4>4, <5>1
      <4> QED BY <4>3, <4>4
    <3> QED BY <3>1, <3>2
  <2>7. Chain(d, MaxDepth)
    BY <2>6, <1>4 DEF Chain
  <2>8. d[0] = asked
    BY <2>2, <2>4, <2>5
  <2>9. Circular(asked)
    BY <2>7, <2>8, ChainCircular
  <2>10. stack' = <<>> /\ found' = Died /\ UNCHANGED asked
    BY <1>3, <1>4 DEF Recurse, Ends
  <2> QED BY <1>0, <2>9, <2>10, Ended
<1>5. CASE n # MaxDepth
  <2>1. stack' = Append(stack, Call(T)) /\ UNCHANGED <<asked, found>>
    BY <1>1, <1>3, <1>5 DEF Recurse
  <2>2. PICK x : x = Call(T)
    OBVIOUS
  <2>3. /\ IsSeq(stack') /\ Len(stack') = n + 1 /\ stack'[n + 1] = x
        /\ \A i \in 1 .. n : stack'[i] = stack[i]
    BY <1>0, <1>3, <2>1, <2>2, AppendIs
  <2>4. n + 1 <= MaxDepth /\ n \in Nat /\ n # 0
    BY <1>0, <1>3, <1>5
  <2>5. FrameOK(asked, x, n + 1) /\ x.type = T
    <3>1. x = [type |-> T, got |-> <<>>] /\ x.type = T /\ x.got = <<>>
      BY <2>2 DEF Call
    <3>2. IsSeq(<<>>) /\ Len(<<>>) = 0
      <4>1. <<>> = [i \in 1 .. 0 |-> <<>>[i]]
        OBVIOUS
      <4> QED BY <4>1 DEF IsSeq
    <3>3. Len(Children(T)) \in Nat
      BY <1>2, TypeIs
    <3> QED BY <3>1, <3>2, <3>3, <1>2 DEF FrameOK
  <2>6. \A i \in 1 .. n + 1 : i # n + 1 => i \in 1 .. n
    BY <2>4
  <2>7. \A i \in 1 .. n + 1 : FrameOK(asked, stack'[i], i)
    <3>1. \A i \in 1 .. n : FrameOK(asked, stack[i], i)
      BY <1>3 DEF SymInv, StackOK
    <3> QED BY <3>1, <2>3, <2>5, <2>6
  <2>8. ASSUME NEW i \in 1 .. n + 1, i < n + 1 PROVE Below(stack'[i], stack'[i + 1])
    <3>1. CASE i = n
      <4>1. stack'[i] = Top /\ stack'[i + 1] = x
        BY <3>1, <2>3, <2>4, <1>3 DEF Top
      <4> QED BY <4>1, <1>0, <1>1, <2>5 DEF Below
    <3>2. CASE i # n
      <4>1. i \in 1 .. n /\ i + 1 \in 1 .. n /\ i < n
        BY <3>2, <2>8, <2>4
      <4>2. Below(stack[i], stack[i + 1])
        BY <4>1, <1>3 DEF SymInv, StackOK
      <4> QED BY <4>1, <4>2, <2>3
    <3> QED BY <3>1, <3>2
  <2>9. stack'[1].type = asked
    <3>1. 1 \in 1 .. n
      BY <2>4
    <3> QED BY <3>1, <2>3, <1>0 DEF SymInv, StackOK, Running
  <2>10. StackOK'
    BY <2>1, <2>3, <2>4, <2>7, <2>8, <2>9 DEF StackOK
  <2> QED BY <1>0, <2>1, <2>10 DEF SymInv, FoundOK
<1> QED BY <1>4, <1>5

\* A type is put together from its parts.
LEMMA ConstructOK == SymInv /\ Construct => SymInv'
<1> SUFFICES ASSUME SymInv, Construct PROVE SymInv'
  OBVIOUS
<1>0. /\ Running /\ Walked(Top.type) /\ Len(Top.got) = Len(Children(Top.type))
      /\ Len(stack) \in 1 .. MaxDepth /\ FrameOK(asked, Top, Len(stack)) /\ MaxDepth \in Nat
  BY TopIs DEF Construct
<1>1. PICK T : T = Top.type
  OBVIOUS
<1>2. PICK got : got = Top.got
  OBVIOUS
<1>3. PICK m : m = MaxDepth - Len(stack)
  OBVIOUS
<1>4. /\ T \in DOMAIN Def /\ Walked(T) /\ IsSeq(got) /\ Len(got) = Len(Children(T)) /\ m \in Nat
      /\ \A j \in 1 .. Len(got) : got[j] \notin {Panicked, Died}
      /\ Misled(asked) \/ \A j \in 1 .. Len(got) : Finished(got[j], Children(T)[j], m)
  BY <1>0, <1>1, <1>2, <1>3 DEF FrameOK
<1>5. PICK h : h = IF Def[T].kind = "named" THEN got[1] ELSE HostType(Def[T].kind, "", got)
  OBVIOUS
<1>6. Returns(h)
  BY <1>1, <1>2, <1>5 DEF Construct
<1>7. h \notin {Panicked, Died} /\ (Misled(asked) \/ Finished(h, T, m + 1))
  <2>1. CASE Def[T].kind = "named"
    <3>1. Children(T) = <<Underlying(T)>>
      BY <2>1, <1>4, TypeIs
    <3>2. Len(got) = 1 /\ Children(T)[1] = Underlying(T)
      BY <3>1, <1>4
    <3>3. h \notin {Panicked, Died} /\ (Misled(asked) \/ Finished(h, Underlying(T), m))
      BY <3>2, <2>1, <1>4, <1>5
    <3> QED BY <3>3, <1>4, NamedDone
  <2>2. CASE Def[T].kind # "named"
    <3>1. h \notin {Panicked, Died}
      BY <2>2, <1>5, HostNotFailed
    <3> QED BY <2>2, <3>1, <1>4, <1>5, ConstructDone
  <2> QED BY <2>1, <2>2
<1> QED BY <1>0, <1>1, <1>3, <1>6, <1>7, Returned

\* A search begins with one call.
LEMMA StartOK ==
  ASSUME SymInv, NEW T \in DOMAIN Def, Start(T)
  PROVE  SymInv'
<1>1. stack' = <<Call(T)>> /\ asked' = T /\ found' = NotAsked
  BY DEF Start
<1>2. PICK x : x = Call(T)
  OBVIOUS
<1>3. MaxDepth \in Nat /\ 1 <= MaxDepth
  <2>1. Cardinality(DOMAIN Def) # 0 /\ Cardinality(DOMAIN Def) \in Nat
    BY DefAssumption, FS_EmptySet, FS_CardinalityType
  <2> QED BY <2>1, HostAssumption
<1>4. IsSeq(stack') /\ Len(stack') = 1 /\ stack'[1] = x
  <2>1. Len(<<x>>) = 1 /\ <<x>>[1] = x /\ <<x>> = [i \in 1 .. 1 |-> <<x>>[i]]
    OBVIOUS
  <2> QED BY <2>1, <1>1, <1>2 DEF IsSeq
<1>5. FrameOK(asked', x, 1) /\ x.type = T
  <2>1. x = [type |-> T, got |-> <<>>] /\ x.type = T /\ x.got = <<>>
    BY <1>2 DEF Call
  <2>2. IsSeq(<<>>) /\ Len(<<>>) = 0
    <3>1. <<>> = [i \in 1 .. 0 |-> <<>>[i]]
      OBVIOUS
    <3> QED BY <3>1 DEF IsSeq
  <2>3. Len(Children(T)) \in Nat
    BY TypeIs
  <2> QED BY <2>1, <2>2, <2>3 DEF FrameOK
<1>6. StackOK'
  <2>1. \A i \in 1 .. 1 : i = 1 /\ ~(i < 1)
    OBVIOUS
  <2> QED BY <2>1, <1>1, <1>3, <1>4, <1>5 DEF StackOK
<1> QED BY <1>1, <1>6 DEF SymInv, FoundOK

\* The caller goes on.
LEMMA LeaveOK == SymInv /\ Leave => SymInv'
BY DEF SymInv, Leave, StackOK, FoundOK, Running

\* Every step keeps the invariant.
LEMMA SymStep == SymInv /\ [SymNext]_symVars => SymInv'
<1> SUFFICES ASSUME SymInv, [SymNext]_symVars PROVE SymInv'
  OBVIOUS
<1>1. CASE LookUp
  BY <1>1, LookUpOK
<1>2. CASE Unsupported
  BY <1>2, UnsupportedOK
<1>3. CASE Recurse
  BY <1>3, RecurseOK
<1>4. CASE Construct
  BY <1>4, ConstructOK
<1>5. CASE \E T \in DOMAIN Def : Start(T)
  BY <1>5, StartOK
<1>6. CASE Leave
  BY <1>6, LeaveOK
<1>7. CASE UNCHANGED symVars
  BY <1>7 DEF symVars, SymInv, StackOK, FoundOK, Running
<1> QED BY <1>1, <1>2, <1>3, <1>4, <1>5, <1>6, <1>7 DEF SymNext, Find

\* The invariant is one.
LEMMA SymInvThroughout == SymSpec => []SymInv
<1>1. SymInit => SymInv
  BY SymInitOK
<1>2. SymInv /\ [SymNext]_symVars => SymInv'
  BY SymStep
<1> QED BY <1>1, <1>2, PTL DEF SymSpec

-----------------------------------------------------------------------------
\* What follows -------------------------------------------------------------------------

\* The host type that ReflectType finds is the one the emulation shows, part by part
\* (package.go:135), whatever the types of the program and those the host has, unless the
\* table has another type of a name that the walk met (package.go:275).
THEOREM FoundIsShown == SymSpec => []FoundAsEmulated
<1>1. SymInv => FoundAsEmulated
  BY DEF SymInv, FoundOK, FoundAsEmulated, Misled
<1> QED BY <1>1, SymInvThroughout, PTL

\* The walk of findReflectType (package.go:135) ends the process only for a type that
\* contains itself outside a named struct or interface, and panics only where it meets
\* one that the table lacks (168), one that has no name (192) or a method's signature (177).
THEOREM FailsWithReason == SymSpec => []FailsForReason
<1>1. SymInv => FailsForReason
  <2> SUFFICES ASSUME SymInv PROVE FailsForReason
    OBVIOUS
  <2>1. NotAsked \notin {Panicked, Died} /\ Panicked # Died
    BY DEF NotAsked, Panicked, Died
  <2>2. (found = Died => Circular(asked)) /\ (found = Panicked => Wanting(asked))
    BY <2>1 DEF SymInv, FoundOK
  <2> QED BY <2>2 DEF FailsForReason, Wanting
<1> QED BY <1>1, SymInvThroughout, PTL
=============================================================================
