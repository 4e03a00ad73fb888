---------------------------- MODULE MemoryProofs ----------------------------
(***************************************************************************)
(* The interpreter's memory for any types, slices and capacities, in a     *)
(* program whose slices have scalar elements: every slot has one owner,    *)
(* and what the program sees of the slots are the variables of GoMemory.   *)
(***************************************************************************)
EXTENDS Memory, SequenceTheorems, FiniteSetTheorems, TLAPS

\* A set of numbers that is not empty has a least element.
LEMMA Least ==
  ASSUME NEW T \in SUBSET Nat, T # {}
  PROVE  \E x \in T : \A y \in T : x <= y
<1> DEFINE Below(n) == 1 .. n
           U == {Below(x) : x \in T}
           R == StrictSubsetOrdering(Nat)
<1>1. IsWellFoundedOn(R, FiniteSubsetsOf(Nat))
  BY FS_StrictSubsetOrderingWellFounded
<1>2. U \subseteq FiniteSubsetsOf(Nat) /\ U # {}
  <2>1. ASSUME NEW x \in T PROVE Below(x) \in FiniteSubsetsOf(Nat)
    <3>1. IsFiniteSet(Below(x)) /\ Below(x) \subseteq Nat
      BY FS_Interval
    <3> QED BY <3>1 DEF FiniteSubsetsOf
  <2> HIDE DEF Below
  <2> QED BY <2>1
<1>3. PICK S \in U : \A V \in U : <<V, S>> \notin R
  <2> HIDE DEF U, R
  <2> QED BY <1>1, <1>2, WFMin
<1>4. PICK x \in T : S = Below(x)
  BY <1>3
<1>5. ASSUME NEW y \in T, y < x PROVE FALSE
  <2>1. Below(y) \subseteq Below(x) /\ Below(y) # Below(x) /\ Below(y) \subseteq Nat /\ Below(x) \subseteq Nat
    <3>1. x \in Below(x) /\ x \notin Below(y)
      BY <1>5
    <3>2. QED BY <1>5, <3>1
  <2>2. <<Below(y), Below(x)>> \in R
    BY <2>1 DEF StrictSubsetOrdering
  <2> QED BY <2>2, <1>3, <1>4
<1> QED BY <1>5


Place == Nat \ {0}
Path == Seq(Place)

\* The numbers of the parts of the part at q.
Kids(T, q) == {i \in Place : Append(q, i) \in T}

\* A type, in terms of its parts.
Formed(T) ==
  /\ IsFiniteSet(T) /\ T \subseteq Path /\ <<>> \notin T
  /\ \A q \in Path, i \in Place : Append(q, i) \in T => q \in T \cup {<<>>}
  /\ \A q \in Path, i \in Place : Append(q, i) \in T /\ i # 1 => Append(q, i - 1) \in T

\* What the path of a part of a part is made of.
LEMMA WholeOfAppend ==
  ASSUME NEW q \in Path, NEW i \in Place
  PROVE  Whole(Append(q, i)) = q /\ Append(q, i)[Len(Append(q, i))] = i /\ Append(q, i) \in Path
<1>1. /\ Append(q, i) \in Path /\ Len(Append(q, i)) = Len(q) + 1 /\ Len(q) \in Nat
      /\ \A j \in 1 .. Len(q) : Append(q, i)[j] = q[j]
      /\ Append(q, i)[Len(q) + 1] = i
  BY AppendProperties DEF Path
<1>2. \A j \in 1 .. Len(q) : q[j] \in Place
  BY ElementOfSeq DEF Path
<1>3. SubSeq(Append(q, i), 1, Len(q)) = q
  <2>1. /\ SubSeq(Append(q, i), 1, Len(q)) \in Seq(Place)
        /\ Len(SubSeq(Append(q, i), 1, Len(q))) = Len(q)
        /\ \A j \in 1 .. Len(q) : SubSeq(Append(q, i), 1, Len(q))[j] = q[j]
    BY <1>1, <1>2, SubSeqProperties
  <2> QED BY <2>1, SeqEqual DEF Path
<1> QED BY <1>1, <1>3 DEF Whole

\* The types of the assumption are formed.
LEMMA TypesFormed ==
  ASSUME NEW T, IsType(T)
  PROVE  Formed(T)
<1>1. ASSUME NEW q \in Path, NEW i \in Place, Append(q, i) \in T
      PROVE  q \in T \cup {<<>>} /\ (i # 1 => Append(q, i - 1) \in T)
  BY <1>1, WholeOfAppend DEF IsType
<1> QED BY <1>1 DEF IsType, Formed, Path, Place

-----------------------------------------------------------------------------
\* Concatenated paths.
LEMMA Joined ==
  ASSUME NEW p \in Path, NEW s \in Path
  PROVE  /\ p \o s \in Path /\ From(p, p \o s) = s
         /\ s # <<>> <=> Under(p, p \o s)
         /\ p \o <<>> = p /\ <<>> \o p = p
         /\ s # <<>> => p \o s # <<>>
<1>1. /\ p \o s \in Path /\ Len(p \o s) = Len(p) + Len(s) /\ Len(p) \in Nat /\ Len(s) \in Nat
      /\ \A i \in 1 .. Len(p) + Len(s) : (p \o s)[i] = IF i <= Len(p) THEN p[i] ELSE s[i - Len(p)]
  BY ConcatProperties, LenProperties DEF Path
<1>2. \A i \in 1 .. Len(p \o s) : (p \o s)[i] \in Place
  BY <1>1, ElementOfSeq DEF Path
<1>3. From(p, p \o s) = s
  <2>0. \A i \in Len(p) + 1 .. Len(p \o s) : i \in 1 .. Len(p \o s)
    BY <1>1
  <2>1. /\ From(p, p \o s) \in Seq(Place) /\ Len(From(p, p \o s)) = Len(s)
        /\ \A i \in 1 .. Len(s) : From(p, p \o s)[i] = (p \o s)[Len(p) + 1 + i - 1]
    <3>1. /\ SubSeq(p \o s, Len(p) + 1, Len(p \o s)) \in Seq(Place)
          /\ Len(SubSeq(p \o s, Len(p) + 1, Len(p \o s)))
               = IF Len(p) + 1 <= Len(p \o s) THEN Len(p \o s) - (Len(p) + 1) + 1 ELSE 0
          /\ \A i \in 1 .. Len(p \o s) - (Len(p) + 1) + 1 :
               SubSeq(p \o s, Len(p) + 1, Len(p \o s))[i] = (p \o s)[Len(p) + 1 + i - 1]
      BY <1>1, <1>2, <2>0, SubSeqProperties
    <3> QED BY <1>1, <3>1 DEF From
  <2>2. \A i \in 1 .. Len(s) : (p \o s)[Len(p) + 1 + i - 1] = s[i]
    BY <1>1
  <2> QED BY <2>1, <2>2, SeqEqual DEF Path
<1>4. s # <<>> <=> Len(s) > 0
  BY EmptySeq DEF Path
<1>5. SubSeq(p \o s, 1, Len(p)) = p
  <2>1. /\ SubSeq(p \o s, 1, Len(p)) \in Seq(Place) /\ Len(SubSeq(p \o s, 1, Len(p))) = Len(p)
        /\ \A i \in 1 .. Len(p) : SubSeq(p \o s, 1, Len(p))[i] = (p \o s)[i]
    <3>1. \A i \in 1 .. Len(p) : (p \o s)[i] \in Place
      BY <1>1, <1>2
    <3> QED BY <1>1, <3>1, SubSeqProperties
  <2>2. \A i \in 1 .. Len(p) : (p \o s)[i] = p[i]
    BY <1>1
  <2> QED BY <2>1, <2>2, SeqEqual DEF Path
<1>6. p \o <<>> = p /\ <<>> \o p = p
  BY ConcatEmptySeq DEF Path
<1>7. s # <<>> => p \o s # <<>>
  BY ConcatEqualIffEmpty DEF Path
<1> QED BY <1>1, <1>3, <1>4, <1>5, <1>6, <1>7 DEF Under

\* A path under another is that one and a rest.
LEMMA UnderSplits ==
  ASSUME NEW p \in Path, NEW r \in Path, Under(p, r)
  PROVE  From(p, r) \in Path /\ From(p, r) # <<>> /\ p \o From(p, r) = r
<1>1. Len(p) \in Nat /\ Len(r) \in Nat /\ Len(r) > Len(p) /\ SubSeq(r, 1, Len(p)) = p
  BY LenProperties DEF Path, Under
<1>2. \A i \in 1 .. Len(r) : r[i] \in Place
  BY ElementOfSeq DEF Path
<1>3. SubSeq(r, Len(p) + 1, Len(r)) \in Path /\ Len(SubSeq(r, Len(p) + 1, Len(r))) = Len(r) - Len(p)
  <2>1. \A i \in Len(p) + 1 .. Len(r) : r[i] \in Place
    BY <1>1, <1>2
  <2> QED BY <1>1, <2>1, SubSeqProperties DEF Path
<1>4. SubSeq(r, 1, Len(p)) \o SubSeq(r, Len(p) + 1, Len(r)) = SubSeq(r, 1, Len(r))
  <2>1. 1 \in 1 .. Len(r) + 1 /\ Len(p) \in 1 - 1 .. Len(r) /\ Len(r) \in Len(p) .. Len(r)
    BY <1>1
  <2>2. r \in Seq(Place)
    BY DEF Path
  <2> QED BY <2>1, <2>2, ConcatAdjacentSubSeq
<1>5. SubSeq(r, 1, Len(r)) = r
  BY SubSeqFull DEF Path
<1>6. SubSeq(r, Len(p) + 1, Len(r)) # <<>>
  <2>1. Len(SubSeq(r, Len(p) + 1, Len(r))) # 0
    BY <1>1, <1>3
  <2>2. Len(<<>>) = 0
    BY EmptySeq
  <2> QED BY <2>1, <2>2
<1> QED BY <1>1, <1>3, <1>4, <1>5, <1>6 DEF From

\* The type of a part: the paths that lead on from it.
LEMMA SubIs ==
  ASSUME NEW T, T \subseteq Path, NEW p \in Path
  PROVE  Sub(T, p) = {s \in Path : s # <<>> /\ p \o s \in T}
<1>1. ASSUME NEW s \in Path, s # <<>>, p \o s \in T PROVE s \in Sub(T, p)
  <2>1. Under(p, p \o s) /\ From(p, p \o s) = s
    BY <1>1, Joined
  <2> QED BY <1>1, <2>1 DEF Sub
<1>2. ASSUME NEW s \in Sub(T, p) PROVE s \in Path /\ s # <<>> /\ p \o s \in T
  <2>1. PICK r \in T : Under(p, r) /\ s = From(p, r)
    BY <1>2 DEF Sub
  <2> QED BY <2>1, UnderSplits
<1> QED BY <1>1, <1>2

\* A path with one more step at its end.
LEMMA AppendJoined ==
  ASSUME NEW p \in Path, NEW q \in Path, NEW i \in Place
  PROVE  p \o Append(q, i) = Append(p \o q, i) /\ Append(q, i) # <<>>
<1>1. Append(q, i) = q \o <<i>> /\ Append(p \o q, i) = (p \o q) \o <<i>> /\ <<i>> \in Path /\ Append(q, i) # <<>>
  BY AppendIsConcat, AppendProperties, Joined DEF Path
<1> QED BY <1>1, ConcatAssociative DEF Path

\* A part has the parts it has in the whole.
LEMMA KidsOfSub ==
  ASSUME NEW T, T \subseteq Path, NEW p \in Path, NEW q \in Path
  PROVE  Kids(Sub(T, p), q) = Kids(T, p \o q)
<1>1. \A i \in Place : Append(q, i) \in Path
  BY AppendProperties DEF Path
<1>2. \A i \in Place : Append(q, i) \in Sub(T, p) <=> Append(p \o q, i) \in T
  <2> SUFFICES ASSUME NEW i \in Place PROVE Append(q, i) \in Sub(T, p) <=> Append(p \o q, i) \in T
    OBVIOUS
  <2>1. p \o Append(q, i) = Append(p \o q, i) /\ Append(q, i) # <<>>
    BY AppendJoined
  <2>2. Sub(T, p) = {s \in Path : s # <<>> /\ p \o s \in T}
    BY SubIs
  <2> QED BY <1>1, <2>1, <2>2
<1> QED BY <1>2 DEF Kids

\* The type of a part is formed if the type of the whole is.
LEMMA SubFormed ==
  ASSUME NEW T, Formed(T), NEW p \in Path
  PROVE  Formed(Sub(T, p))
<1> DEFINE S == Sub(T, p)
<1>0. T \subseteq Path
  BY DEF Formed
<1>1. S = {s \in Path : s # <<>> /\ p \o s \in T}
  BY <1>0, SubIs
<1>2. IsFiniteSet(S)
  <2> DEFINE f == [s \in S |-> p \o s]
  <2>1. f \in Injection(S, T)
    <3>1. f \in [S -> T]
      BY <1>1
    <3>2. ASSUME NEW s \in S, NEW t \in S, f[s] = f[t] PROVE s = t
      <4>1. s \in Path /\ t \in Path /\ p \o s = p \o t
        BY <1>1, <3>2
      <4>2. From(p, p \o s) = s /\ From(p, p \o t) = t
        BY <4>1, Joined
      <4> QED BY <4>1, <4>2
    <3> HIDE DEF f, S
    <3> QED BY <3>1, <3>2 DEF Injection, IsInjective
  <2> HIDE DEF f, S
  <2> QED BY <2>1, FS_Injection DEF Formed
<1>3. ASSUME NEW q \in Path, NEW i \in Place, Append(q, i) \in S
      PROVE  q \in S \cup {<<>>} /\ (i # 1 => Append(q, i - 1) \in S)
  <2>1. Append(p \o q, i) \in T /\ p \o q \in Path
    <3>1. p \o Append(q, i) \in T
      BY <1>1, <1>3
    <3>2. p \o q \in Path
      BY Joined
    <3>3. p \o Append(q, i) = Append(p \o q, i)
      BY AppendJoined
    <3> QED BY <3>1, <3>2, <3>3
  <2>2. p \o q \in T \cup {<<>>}
    BY <2>1 DEF Formed
  <2>3. q # <<>> => q \in S
    BY <2>2, <1>1, Joined
  <2>4. ASSUME i # 1 PROVE Append(q, i - 1) \in S
    <3>1. i - 1 \in Place
      BY <2>4 DEF Place
    <3>2. Append(p \o q, i - 1) \in T
      BY <2>1, <2>4 DEF Formed
    <3>3. p \o Append(q, i - 1) \in T /\ Append(q, i - 1) # <<>> /\ Append(q, i - 1) \in Path
      BY <3>1, <3>2, AppendJoined, WholeOfAppend
    <3> QED BY <3>3, <1>1
  <2> QED BY <2>3, <2>4
<1> QED BY <1>1, <1>2, <1>3 DEF Formed

-----------------------------------------------------------------------------
\* A nonempty set of numbers that follow one another from 1 on ends at their number.
LEMMA FromOne ==
  ASSUME NEW K \in SUBSET Place, IsFiniteSet(K), \A i \in K : i # 1 => i - 1 \in K
  PROVE  K = 1 .. Cardinality(K) /\ Cardinality(K) \in Nat
<1> DEFINE m == Cardinality(K)
<1>1. m \in Nat
  BY FS_CardinalityType
<1>2. ASSUME NEW i \in K PROVE 1 .. i \subseteq K
  <2> SUFFICES ASSUME NEW j \in 1 .. i, j \notin K PROVE FALSE
    OBVIOUS
  <2> DEFINE U == {n \in Nat : n \in K /\ n > j}
  <2>0. i \in Nat /\ i # j
    BY DEF Place
  <2>1. PICK n \in U : \A x \in U : n <= x
    <3>1. i \in U
      BY <2>0
    <3> QED BY <3>1, Least
  <2>2. n - 1 \in K
    BY <2>1, <2>0
  <2>3. n - 1 # j /\ n - 1 \in Nat /\ n - 1 >= j
    BY <2>1, <2>0, <2>2
  <2>4. n - 1 \in U
    BY <2>2, <2>3
  <2> QED BY <2>1, <2>4
<1>3. ASSUME NEW i \in K PROVE i \in 1 .. m
  <2>1. i \in Nat \ {0} /\ 1 .. i \subseteq K
    BY <1>2 DEF Place
  <2>2. Cardinality(1 .. i) = i
    BY <2>1, FS_Interval
  <2>3. Cardinality(1 .. i) <= m
    BY <2>1, FS_Subset
  <2> HIDE DEF m
  <2> QED BY <1>1, <2>1, <2>2, <2>3
<1>4. IsFiniteSet(1 .. m) /\ Cardinality(1 .. m) = m /\ K \subseteq 1 .. m
  <2>1. K \subseteq 1 .. m
    BY <1>3
  <2> HIDE DEF m
  <2> QED BY <1>1, <2>1, FS_Interval
<1>5. K = 1 .. m
  BY <1>4, FS_Subset
<1> QED BY <1>1, <1>5

\* The parts of a part have the numbers from 1 to its width.
LEMMA KidsNumbered ==
  ASSUME NEW T, Formed(T), NEW p \in Path
  PROVE  /\ Width(Sub(T, p)) \in Nat
         /\ Kids(T, p) = 1 .. Width(Sub(T, p))
<1> DEFINE K == Kids(T, p)
           S == Sub(T, p)
           One == {q \in S : Len(q) = 1}
<1>0. Formed(S) /\ T \subseteq Path /\ S \subseteq Path
  BY SubFormed DEF Formed
<1>1. \A i \in Place : i \in K <=> <<i>> \in S
  <2> SUFFICES ASSUME NEW i \in Place PROVE i \in K <=> <<i>> \in S
    OBVIOUS
  <2>1. Append(p, i) = p \o <<i>> /\ <<i>> \in Path /\ <<i>> # <<>>
    BY AppendIsConcat DEF Path
  <2>2. S = {s \in Path : s # <<>> /\ p \o s \in T}
    BY <1>0, SubIs
  <2> QED BY <2>1, <2>2 DEF Kids
<1>2. \A q \in One : q[1] \in K /\ q = <<q[1]>>
  <2> SUFFICES ASSUME NEW q \in One PROVE q[1] \in K /\ q = <<q[1]>>
    OBVIOUS
  <2>1. q \in Seq(Place) /\ Len(q) = 1 /\ q \in S
    BY <1>0 DEF Path
  <2>2. q[1] \in Place /\ q = <<q[1]>>
    BY <2>1
  <2> QED BY <2>1, <2>2, <1>1
<1>3. \A i \in K : <<i>> \in One
  <2>1. \A i \in K : i \in Place /\ <<i>> \in S
    BY <1>1 DEF Kids
  <2> QED BY <2>1
<1>4. IsFiniteSet(One) /\ IsFiniteSet(K) /\ Cardinality(K) = Cardinality(One)
  <2>1. IsFiniteSet(One)
    BY <1>0, FS_Subset DEF Formed
  <2> DEFINE f == [q \in One |-> q[1]]
  <2>2. f \in Bijection(One, K)
    <3>1. f \in [One -> K]
      BY <1>2
    <3>2. \A q, r \in One : f[q] = f[r] => q = r
      BY <1>2
    <3>3. \A i \in K : \E q \in One : f[q] = i
      <4> SUFFICES ASSUME NEW i \in K PROVE \E q \in One : f[q] = i
        OBVIOUS
      <4>1. <<i>> \in One /\ <<i>>[1] = i
        BY <1>3
      <4> QED BY <4>1
    <3> HIDE DEF f, One, K
    <3> QED BY <3>1, <3>2, <3>3 DEF Bijection, Injection, IsInjective, Surjection
  <2> HIDE DEF f, One, K
  <2>3. ExistsBijection(One, K)
    BY <2>2 DEF ExistsBijection
  <2> QED BY <2>1, <2>3, FS_Bijection
<1>5. K \in SUBSET Place /\ \A i \in K : i # 1 => i - 1 \in K
  <2>1. ASSUME NEW i \in K, i # 1 PROVE i - 1 \in K
    <3>1. i \in Place /\ i - 1 \in Place /\ Append(p, i) \in T
      BY <2>1 DEF Kids, Place
    <3>2. Append(p, i - 1) \in T
      BY <3>1, <2>1 DEF Formed
    <3> QED BY <3>1, <3>2 DEF Kids
  <2> QED BY <2>1 DEF Kids
<1>6. K = 1 .. Cardinality(K) /\ Cardinality(K) \in Nat
  <2> HIDE DEF K
  <2> QED BY <1>4, <1>5, FromOne
<1> QED BY <1>4, <1>6 DEF Width

-----------------------------------------------------------------------------
\* The parts on the way to a part.
LEMMA Prefixes ==
  ASSUME NEW T, Formed(T), NEW q \in T \cup {<<>>}, NEW n \in 1 .. Len(q)
  PROVE  /\ SubSeq(q, 1, n) \in T
         /\ SubSeq(q, 1, n - 1) \in T \cup {<<>>}
         /\ SubSeq(q, 1, n) = Append(SubSeq(q, 1, n - 1), q[n])
         /\ q[n] \in Kids(T, SubSeq(q, 1, n - 1))
<1>0. q \in Path /\ T \subseteq Path /\ Len(q) \in Nat /\ n \in Nat \ {0} /\ n <= Len(q)
  <2>1. q \in Path /\ T \subseteq Path
    BY EmptySeq DEF Formed, Path
  <2> QED BY <2>1, LenProperties DEF Path
<1>1. ASSUME NEW m \in 1 .. Len(q)
      PROVE  /\ SubSeq(q, 1, m) \in Path /\ SubSeq(q, 1, m - 1) \in Path /\ q[m] \in Place
             /\ SubSeq(q, 1, m) = Append(SubSeq(q, 1, m - 1), q[m])
             /\ SubSeq(q, 1, m) # <<>>
  <2>1. \A i \in 1 .. Len(q) : q[i] \in Place
    BY <1>0, ElementOfSeq DEF Path
  <2>2. /\ SubSeq(q, 1, m - 1) \in Path /\ SubSeq(q, 1, m) \in Path /\ Len(SubSeq(q, 1, m)) = m
    <3>1. \A i \in 1 .. m : q[i] \in Place
      BY <1>0, <2>1
    <3>2. \A i \in 1 .. m - 1 : q[i] \in Place
      BY <1>0, <2>1
    <3>3. m \in Int /\ m - 1 \in Int /\ 1 <= m
      BY <1>0
    <3> QED BY <3>1, <3>2, <3>3, SubSeqProperties DEF Path
  <2>3. SubSeq(q, 1, m) = SubSeq(q, 1, m - 1) \o <<q[m]>>
    <3>1. 1 \in 1 .. Len(q) /\ m \in 1 .. Len(q) /\ q \in Seq(Place)
      BY <1>0 DEF Path
    <3> QED BY <3>1, SubSeqRecursiveSecond
  <2>4. Append(SubSeq(q, 1, m - 1), q[m]) = SubSeq(q, 1, m - 1) \o <<q[m]>>
    BY <2>1, <2>2, AppendIsConcat DEF Path
  <2>5. SubSeq(q, 1, m) # <<>>
    BY <2>2, EmptySeq
  <2> QED BY <2>1, <2>2, <2>3, <2>4, <2>5
<1>2. ASSUME NEW m \in 1 .. Len(q), SubSeq(q, 1, m) \in T
      PROVE  SubSeq(q, 1, m - 1) \in T \cup {<<>>} /\ q[m] \in Kids(T, SubSeq(q, 1, m - 1))
  BY <1>1, <1>2 DEF Formed, Kids
<1>3. SubSeq(q, 1, n) \in T
  <2> SUFFICES ASSUME SubSeq(q, 1, n) \notin T PROVE FALSE
    OBVIOUS
  <2> DEFINE U == {d \in Nat : d < Len(q) /\ SubSeq(q, 1, Len(q) - d) \notin T}
  <2>1. PICK d \in U : \A x \in U : d <= x
    <3>1. Len(q) - n \in U
      <4>1. Len(q) - (Len(q) - n) = n /\ Len(q) - n \in Nat /\ Len(q) - n < Len(q)
        BY <1>0
      <4> QED BY <4>1
    <3> QED BY <3>1, Least
  <2>2. CASE d = 0
    <3>1. SubSeq(q, 1, Len(q)) = q /\ Len(q) - 0 = Len(q)
      BY <1>0, SubSeqFull DEF Path
    <3>2. q \in T
      BY <1>0, EmptySeq
    <3> QED BY <3>1, <3>2, <2>1, <2>2
  <2>3. CASE d # 0
    <3> DEFINE m == Len(q) - d + 1
    <3>1. d - 1 \in Nat /\ d - 1 < d /\ d - 1 < Len(q) /\ Len(q) - (d - 1) = m /\ m \in 1 .. Len(q) /\ m - 1 = Len(q) - d
          /\ Len(q) - d \in 1 .. Len(q)
      BY <1>0, <2>1, <2>3
    <3>2. SubSeq(q, 1, m) \in T
      <4>1. d - 1 \notin U
        BY <2>1, <3>1
      <4> QED BY <3>1, <4>1
    <3>3. SubSeq(q, 1, m - 1) \in T \cup {<<>>}
      BY <3>1, <3>2, <1>2
    <3>4. SubSeq(q, 1, Len(q) - d) # <<>>
      BY <3>1, <1>1
    <3> QED BY <3>1, <3>3, <3>4, <2>1
  <2> QED BY <2>2, <2>3
<1> QED BY <1>1, <1>2, <1>3

-----------------------------------------------------------------------------
\* Trees: the slots of a value ---------------------------------------------------

\* The boxed value x is the part at q of a value of type T whose parts are in the
\* slots L of h.
Node(x, T, L, q) ==
  IF Kids(T, q) = {} THEN x.tag # "agg"
  ELSE /\ x.tag = "agg" /\ DOMAIN x.cells = Kids(T, q)
       /\ x.cells = [i \in DOMAIN x.cells |-> x.cells[i]]
       /\ \A i \in Kids(T, q) : x.cells[i] = L[Append(q, i)]

IsTree(v, T, L, h) ==
  /\ L \in [T -> DOMAIN h]
  /\ \A q, r \in T : L[q] = L[r] => q = r
  /\ Node(v, T, L, <<>>)
  /\ \A q \in T : Node(h[L[q]], T, L, q)

\* Part, in whatever heap.
PartIn(h, v, path) ==
  LET part[n \in 0 .. Len(path)] == IF n = 0 THEN v ELSE h[part[n - 1].cells[path[n]]]
  IN part[Len(path)]

\* It follows the path.
LEMMA PartInIs ==
  ASSUME NEW T, Formed(T), NEW L, NEW v, NEW h, IsTree(v, T, L, h), NEW q \in T \cup {<<>>}
  PROVE  PartIn(h, v, q) = IF q = <<>> THEN v ELSE h[L[q]]
<1> DEFINE Body(g) == [n \in 0 .. Len(q) |-> IF n = 0 THEN v ELSE h[g[n - 1].cells[q[n]]]]
           part == CHOOSE g : g = Body(g)
           at == [n \in 0 .. Len(q) |-> IF n = 0 THEN v ELSE h[L[SubSeq(q, 1, n)]]]
<1>0. q \in Path /\ Len(q) \in Nat
  BY EmptySeq, LenProperties DEF Formed, Path
<1>1. PartIn(h, v, q) = part[Len(q)]
  BY DEF PartIn
<1>2. ASSUME NEW n \in 1 .. Len(q) PROVE at[n] = h[at[n - 1].cells[q[n]]]
  <2> DEFINE u == SubSeq(q, 1, n - 1)
  <2>1. u \in T \cup {<<>>} /\ q[n] \in Kids(T, u) /\ SubSeq(q, 1, n) = Append(u, q[n])
    BY Prefixes
  <2>2. n - 1 \in 0 .. Len(q) /\ n \in 0 .. Len(q) /\ n # 0
    BY <1>0
  <2>3. Node(at[n - 1], T, L, u)
    <3>1. CASE n = 1
      <4>1. u = <<>> /\ n - 1 = 0 /\ at[n - 1] = v
        BY <3>1, <2>2, SubSeqEmpty
      <4> QED BY <4>1 DEF IsTree
    <3>2. CASE n # 1
      <4>1. n - 1 \in 1 .. Len(q) /\ n - 1 # 0
        BY <3>2, <1>0
      <4>2. u \in T
        BY <4>1, Prefixes
      <4>3. at[n - 1] = h[L[u]]
        BY <4>1, <2>2
      <4> QED BY <4>2, <4>3 DEF IsTree
    <3> QED BY <3>1, <3>2
  <2>4. at[n - 1].cells[q[n]] = L[Append(u, q[n])]
    <3> HIDE DEF at, u
    <3> QED BY <2>1, <2>3 DEF Node
  <2>5. at[n] = h[L[SubSeq(q, 1, n)]]
    BY <2>2
  <2> HIDE DEF at, u
  <2> QED BY <2>1, <2>4, <2>5
<1>3. at = Body(at)
  <2>1. \A n \in 0 .. Len(q) : n # 0 => n \in 1 .. Len(q)
    BY <1>0
  <2>2. at[0] = v
    BY <1>0
  <2>3. at = [n \in 0 .. Len(q) |-> at[n]]
    OBVIOUS
  <2>4. \A n \in 0 .. Len(q) : at[n] = IF n = 0 THEN v ELSE h[at[n - 1].cells[q[n]]]
    <3> HIDE DEF at
    <3> QED BY <2>1, <2>2, <1>2
  <2> HIDE DEF at
  <2> QED BY <2>3, <2>4
<1>4. part = Body(part)
  <2> HIDE DEF at, Body
  <2> QED BY <1>3
<1>5. ASSUME NEW n \in 0 .. Len(q), part[n] # at[n] PROVE FALSE
  <2> DEFINE U == {m \in 0 .. Len(q) : part[m] # at[m]}
  <2>1. PICK m \in U : \A x \in U : m <= x
    <3>1. n \in U /\ U \in SUBSET Nat
      BY <1>5, <1>0
    <3> HIDE DEF U
    <3> QED BY <3>1, Least
  <2> HIDE DEF part, at
  <2>2. m # 0
    <3>1. part[0] = v
      BY <1>4, <1>0
    <3>2. at[0] = v
      BY <1>3, <1>0
    <3> QED BY <2>1, <3>1, <3>2
  <2>3. m - 1 \in 0 .. Len(q) /\ m \in 1 .. Len(q) /\ ~(m <= m - 1)
    BY <2>1, <2>2, <1>0
  <2>4. part[m - 1] = at[m - 1]
    BY <2>1, <2>3
  <2>5. part[m] = h[part[m - 1].cells[q[m]]]
    BY <1>4, <2>3, <2>2
  <2>6. at[m] = h[at[m - 1].cells[q[m]]]
    BY <1>2, <2>3
  <2> QED BY <2>1, <2>4, <2>5, <2>6
<1>6. Len(q) \in 0 .. Len(q) /\ part[Len(q)] = at[Len(q)]
  BY <1>0, <1>5
<1>7. at[Len(q)] = IF q = <<>> THEN v ELSE h[L[q]]
  <2>1. SubSeq(q, 1, Len(q)) = q
    BY <1>0, SubSeqFull DEF Path
  <2>2. Len(q) = 0 <=> q = <<>>
    BY <1>0, EmptySeq DEF Path
  <2> QED BY <1>6, <2>1, <2>2
<1> HIDE DEF part, at
<1> QED BY <1>1, <1>6, <1>7

\* So does Part.
LEMMA PartIs ==
  ASSUME NEW T, Formed(T), NEW L, NEW v, IsTree(v, T, L, heap), NEW q \in T \cup {<<>>}
  PROVE  Part(v, q) = IF q = <<>> THEN v ELSE heap[L[q]]
<1>1. Part(v, q) = PartIn(heap, v, q)
  BY DEF Part, PartIn
<1>2. PartIn(heap, v, q) = IF q = <<>> THEN v ELSE heap[L[q]]
  BY PartInIs
<1> QED BY <1>1, <1>2

\* CellAt follows the path as well.
LEMMA CellIs ==
  ASSUME NEW T, Formed(T), NEW L, NEW a, IsTree(heap[a], T, L, heap)
  PROVE  \A q \in T \cup {<<>>} : CellAt(a, q) = IF q = <<>> THEN a ELSE L[q]
<1> SUFFICES ASSUME NEW q \in T \cup {<<>>} PROVE CellAt(a, q) = IF q = <<>> THEN a ELSE L[q]
  OBVIOUS
<1> DEFINE Body(g) == [n \in 0 .. Len(q) |-> IF n = 0 THEN a ELSE heap[g[n - 1]].cells[q[n]]]
           part == CHOOSE g : g = Body(g)
           at == [n \in 0 .. Len(q) |-> IF n = 0 THEN a ELSE L[SubSeq(q, 1, n)]]
<1>0. q \in Path /\ Len(q) \in Nat
  BY EmptySeq, LenProperties DEF Formed, Path
<1>1. CellAt(a, q) = part[Len(q)]
  BY DEF CellAt
<1>2. ASSUME NEW n \in 1 .. Len(q) PROVE at[n] = heap[at[n - 1]].cells[q[n]]
  <2> DEFINE u == SubSeq(q, 1, n - 1)
  <2>1. u \in T \cup {<<>>} /\ q[n] \in Kids(T, u) /\ SubSeq(q, 1, n) = Append(u, q[n])
    BY Prefixes
  <2>2. n - 1 \in 0 .. Len(q) /\ n \in 0 .. Len(q) /\ n # 0
    BY <1>0
  <2>3. Node(heap[at[n - 1]], T, L, u)
    <3>1. CASE n = 1
      <4>1. u = <<>> /\ n - 1 = 0 /\ at[n - 1] = a
        BY <3>1, <2>2, SubSeqEmpty
      <4> QED BY <4>1 DEF IsTree
    <3>2. CASE n # 1
      <4>1. n - 1 \in 1 .. Len(q) /\ n - 1 # 0
        BY <3>2, <1>0
      <4>2. u \in T
        BY <4>1, Prefixes
      <4>3. at[n - 1] = L[u]
        BY <4>1, <2>2
      <4> QED BY <4>2, <4>3 DEF IsTree
    <3> QED BY <3>1, <3>2
  <2>4. heap[at[n - 1]].cells[q[n]] = L[Append(u, q[n])]
    <3> HIDE DEF at, u
    <3> QED BY <2>1, <2>3 DEF Node
  <2>5. at[n] = L[SubSeq(q, 1, n)]
    BY <2>2
  <2> HIDE DEF at, u
  <2> QED BY <2>1, <2>4, <2>5
<1>3. at = Body(at)
  <2>1. \A n \in 0 .. Len(q) : n # 0 => n \in 1 .. Len(q)
    BY <1>0
  <2>2. at[0] = a
    BY <1>0
  <2>3. at = [n \in 0 .. Len(q) |-> at[n]]
    OBVIOUS
  <2>4. \A n \in 0 .. Len(q) : at[n] = IF n = 0 THEN a ELSE heap[at[n - 1]].cells[q[n]]
    <3> HIDE DEF at
    <3> QED BY <2>1, <2>2, <1>2
  <2> HIDE DEF at
  <2> QED BY <2>3, <2>4
<1>4. part = Body(part)
  <2> HIDE DEF at, Body
  <2> QED BY <1>3
<1>5. ASSUME NEW n \in 0 .. Len(q), part[n] # at[n] PROVE FALSE
  <2> DEFINE U == {m \in 0 .. Len(q) : part[m] # at[m]}
  <2>1. PICK m \in U : \A x \in U : m <= x
    <3>1. n \in U /\ U \in SUBSET Nat
      BY <1>5, <1>0
    <3> HIDE DEF U
    <3> QED BY <3>1, Least
  <2> HIDE DEF part, at
  <2>2. m # 0
    <3>1. part[0] = a
      BY <1>4, <1>0
    <3>2. at[0] = a
      BY <1>3, <1>0
    <3> QED BY <2>1, <3>1, <3>2
  <2>3. m - 1 \in 0 .. Len(q) /\ m \in 1 .. Len(q) /\ ~(m <= m - 1)
    BY <2>1, <2>2, <1>0
  <2>4. part[m - 1] = at[m - 1]
    BY <2>1, <2>3
  <2>5. part[m] = heap[part[m - 1]].cells[q[m]]
    BY <1>4, <2>3, <2>2
  <2>6. at[m] = heap[at[m - 1]].cells[q[m]]
    BY <1>2, <2>3
  <2> QED BY <2>1, <2>4, <2>5, <2>6
<1>6. Len(q) \in 0 .. Len(q) /\ part[Len(q)] = at[Len(q)]
  BY <1>0, <1>5
<1>7. at[Len(q)] = IF q = <<>> THEN a ELSE L[q]
  <2>1. SubSeq(q, 1, Len(q)) = q
    BY <1>0, SubSeqFull DEF Path
  <2>2. Len(q) = 0 <=> q = <<>>
    BY <1>0, EmptySeq DEF Path
  <2> QED BY <1>6, <2>1, <2>2
<1> HIDE DEF part, at
<1> QED BY <1>1, <1>6, <1>7

-----------------------------------------------------------------------------
\* A part of a tree is one.
LEMMA TreeAt ==
  ASSUME NEW T, Formed(T), NEW L, NEW v, NEW h, IsTree(v, T, L, h), NEW p \in T \cup {<<>>}
  PROVE  IsTree(IF p = <<>> THEN v ELSE h[L[p]], Sub(T, p), [s \in Sub(T, p) |-> L[p \o s]], h)
<1> DEFINE S == Sub(T, p)
           M == [s \in S |-> L[p \o s]]
           x == IF p = <<>> THEN v ELSE h[L[p]]
<1>0. p \in Path /\ T \subseteq Path /\ <<>> \in Path
  BY EmptySeq DEF Formed, Path
<1>1. S = {s \in Path : s # <<>> /\ p \o s \in T}
  BY <1>0, SubIs
<1>2. M \in [S -> DOMAIN h]
  BY <1>1 DEF IsTree
<1>3. ASSUME NEW s \in S, NEW t \in S, M[s] = M[t] PROVE s = t
  <2>1. p \o s = p \o t /\ s \in Path /\ t \in Path
    BY <1>1, <1>3 DEF IsTree
  <2>2. From(p, p \o s) = s /\ From(p, p \o t) = t
    BY <2>1, <1>0, Joined
  <2> QED BY <2>1, <2>2
<1>4. ASSUME NEW y, NEW s \in Path, Node(y, T, L, p \o s) PROVE Node(y, S, M, s)
  <2>1. Kids(S, s) = Kids(T, p \o s)
    BY <1>0, KidsOfSub
  <2>2. ASSUME NEW i \in Kids(S, s) PROVE M[Append(s, i)] = L[Append(p \o s, i)]
    <3>1. i \in Place /\ Append(s, i) \in S
      BY DEF Kids
    <3>2. p \o Append(s, i) = Append(p \o s, i)
      BY <1>0, <3>1, AppendJoined
    <3> QED BY <3>1, <3>2
  <2> HIDE DEF M, S
  <2> QED BY <1>4, <2>1, <2>2 DEF Node
<1>5. Node(x, S, M, <<>>)
  <2>1. p \o <<>> = p
    BY <1>0, Joined
  <2>2. Node(x, T, L, p)
    BY DEF IsTree
  <2> HIDE DEF M, S, x
  <2> QED BY <2>1, <2>2, <1>0, <1>4
<1>6. ASSUME NEW s \in S PROVE Node(h[M[s]], S, M, s)
  <2>1. s \in Path /\ p \o s \in T /\ M[s] = L[p \o s]
    BY <1>1
  <2>2. Node(h[M[s]], T, L, p \o s)
    BY <2>1 DEF IsTree
  <2> HIDE DEF M, S
  <2> QED BY <2>1, <2>2, <1>4
<1> HIDE DEF M, S, x
<1>7. IsTree(x, S, M, h)
  BY <1>2, <1>3, <1>5, <1>6 DEF IsTree
<1> QED BY <1>7 DEF x, S, M

\* All of a type is the type.
LEMMA SubWhole ==
  ASSUME NEW T, T \subseteq Path, <<>> \notin T
  PROVE  Sub(T, <<>>) = T
<1>1. <<>> \in Path /\ \A s \in Path : <<>> \o s = s
  BY EmptySeq, Joined DEF Path
<1>2. Sub(T, <<>>) = {s \in Path : s # <<>> /\ <<>> \o s \in T}
  BY <1>1, SubIs
<1> QED BY <1>1, <1>2

Same(x, y) == x = y \/ (x.tag # "agg" /\ y.tag # "agg")

\* A tree stays one when only scalars change.
LEMMA TreeKept ==
  ASSUME NEW T, NEW L, NEW v, NEW w, NEW h, NEW k, IsTree(v, T, L, h),
         Same(v, w), DOMAIN h \subseteq DOMAIN k, \A q \in T : Same(h[L[q]], k[L[q]])
  PROVE  IsTree(w, T, L, k)
<1>1. ASSUME NEW x, NEW y, NEW q, Same(x, y), Node(x, T, L, q) PROVE Node(y, T, L, q)
  BY <1>1 DEF Same, Node
<1> QED BY <1>1 DEF IsTree

\* A scalar is a tree without slots.
LEMMA ScalarTree ==
  ASSUME NEW v, v.tag # "agg", NEW h
  PROVE  IsTree(v, {}, [q \in {} |-> 0], h)
BY DEF IsTree, Node, Kids

\* Numbers of the parts of a type.
LEMMA NumberIs ==
  ASSUME NEW T, IsFiniteSet(T)
  PROVE  /\ Cardinality(T) \in Nat
         /\ Number(T) \in [T -> 1 .. Cardinality(T)]
         /\ \A q, r \in T : Number(T)[q] = Number(T)[r] => q = r
         /\ \A q \in T : PathOf(T, Number(T)[q]) = q
         /\ \A k \in 1 .. Cardinality(T) : PathOf(T, k) \in T /\ Number(T)[PathOf(T, k)] = k
<1> DEFINE N == 1 .. Cardinality(T)
<1>1. Cardinality(T) \in Nat /\ ExistsBijection(N, T)
  BY FS_CardinalityType
<1>2. IsFiniteSet(N) /\ Cardinality(N) = Cardinality(T)
  BY <1>1, FS_Interval
<1>3. \E f \in [T -> N] : \A q, r \in T : f[q] = f[r] => q = r
  <2>1. ExistsBijection(T, N)
    BY <1>2, FS_SameCardinalityBij
  <2> HIDE DEF N
  <2> QED BY <2>1 DEF ExistsBijection, Bijection, Injection, IsInjective
<1>4. Number(T) \in [T -> N] /\ \A q, r \in T : Number(T)[q] = Number(T)[r] => q = r
  BY <1>3 DEF Number
<1>5. \A k \in N : \E q \in T : Number(T)[q] = k
  <2> HIDE DEF N
  <2>1. Number(T) \in Injection(T, N)
    BY <1>4 DEF Injection, IsInjective
  <2>2. Number(T) \in Surjection(T, N)
    BY <2>1, <1>2, FS_Injection
  <2> QED BY <2>2 DEF Surjection
<1>6. \A k \in N : PathOf(T, k) \in T /\ Number(T)[PathOf(T, k)] = k
  BY <1>5 DEF PathOf
<1>7. \A q \in T : PathOf(T, Number(T)[q]) = q
  BY <1>4, <1>6
<1> QED BY <1>1, <1>4, <1>6, <1>7

\* The parts of zero(T), in slots of their own.
LEMMA FreshTree ==
  ASSUME NEW T, Formed(T), NEW base, NEW h,
         \A q \in T : /\ base + Number(T)[q] \in DOMAIN h
                      /\ \/ h[base + Number(T)[q]] = PartAt(T, base, q)
                         \/ Kids(T, q) = {} /\ h[base + Number(T)[q]].tag # "agg",
         base \in Nat
  PROVE  IsTree(Zero(T, base), T, [q \in T |-> base + Number(T)[q]], h)
<1> DEFINE L == [q \in T |-> base + Number(T)[q]]
<1>0. /\ Number(T) \in [T -> 1 .. Cardinality(T)] /\ Cardinality(T) \in Nat
      /\ \A q, r \in T : Number(T)[q] = Number(T)[r] => q = r
      /\ T \subseteq Path /\ <<>> \in Path
  BY NumberIs, EmptySeq DEF Formed, Path
<1>1. ASSUME NEW q \in Path PROVE Node(PartAt(T, base, q), T, L, q)
  <2> DEFINE w == Width(Sub(T, q))
  <2>1. w \in Nat /\ Kids(T, q) = 1 .. w
    BY KidsNumbered
  <2>2. CASE w = 0
    <3>1. PartAt(T, base, q).tag = "num" /\ Kids(T, q) = {}
      BY <2>1, <2>2 DEF PartAt, Num
    <3> QED BY <3>1 DEF Node
  <2>3. CASE w # 0
    <3>1. PartAt(T, base, q) = [tag |-> "agg", cells |-> [i \in 1 .. w |-> base + Number(T)[Append(q, i)]]]
      BY <2>3 DEF PartAt
    <3>2. \A i \in 1 .. w : Append(q, i) \in T
      BY <2>1 DEF Kids
    <3>3. 1 \in Kids(T, q)
      BY <2>1, <2>3
    <3> HIDE DEF w
    <3> QED BY <2>1, <3>1, <3>2, <3>3 DEF Node
  <2> QED BY <2>2, <2>3
<1>2. L \in [T -> DOMAIN h]
  OBVIOUS
<1>3. \A q, r \in T : L[q] = L[r] => q = r
  BY <1>0
<1>4. ASSUME NEW q \in T PROVE Node(h[L[q]], T, L, q)
  <2>1. CASE h[L[q]] = PartAt(T, base, q)
    <3> HIDE DEF L
    <3> QED BY <2>1, <1>0, <1>1
  <2>2. CASE Kids(T, q) = {} /\ h[L[q]].tag # "agg"
    BY <2>2 DEF Node
  <2> QED BY <2>1, <2>2
<1>5. Node(Zero(T, base), T, L, <<>>)
  BY <1>0, <1>1 DEF Zero
<1> HIDE DEF L
<1>6. IsTree(Zero(T, base), T, L, h)
  BY <1>2, <1>3, <1>4, <1>5 DEF IsTree
<1> QED BY <1>6 DEF L

\* A leaf of a type has no parts.
LEMMA LeafKids ==
  ASSUME NEW T, Formed(T), NEW q \in Leaves(T)
  PROVE  q \in T \cup {<<>>} /\ Kids(T, q) = {}
<1>1. CASE T = {}
  BY <1>1 DEF Leaves, Kids
<1>2. CASE T # {}
  <2>1. q \in T /\ Sub(T, q) = {} /\ q \in Path /\ T \subseteq Path
    BY <1>2 DEF Leaves, Formed
  <2>2. ASSUME NEW i \in Kids(T, q) PROVE FALSE
    <3>1. i \in Place /\ Append(q, i) \in T /\ <<i>> \in Path /\ <<i>> # <<>>
      BY DEF Kids, Path
    <3>2. Append(q, i) = q \o <<i>>
      BY <2>1, <3>1, AppendIsConcat DEF Path
    <3> QED BY <2>1, <3>1, <3>2, SubIs
  <2> QED BY <2>1, <2>2
<1> QED BY <1>1, <1>2

\* A part without parts is a scalar.
LEMMA ScalarAt ==
  ASSUME NEW T, NEW L, NEW v, NEW h, IsTree(v, T, L, h), NEW q \in T \cup {<<>>}, Kids(T, q) = {}
  PROVE  (IF q = <<>> THEN v ELSE h[L[q]]).tag # "agg"
BY DEF IsTree, Node

-----------------------------------------------------------------------------
\* Sequences of whatever elements --------------------------------------------------

IsSeq(h) == \E n \in Nat : h = [i \in 1 .. n |-> h[i]]

\* A function over 1 .. n is a sequence of length n.
LEMMA SeqIs ==
  ASSUME NEW h, IsSeq(h)
  PROVE  /\ Len(h) \in Nat /\ DOMAIN h = 1 .. Len(h)
         /\ h \in Seq({h[i] : i \in DOMAIN h})
<1>1. PICK n \in Nat : h = [i \in 1 .. n |-> h[i]]
  BY DEF IsSeq
<1>2. DOMAIN h = 1 .. n
  BY <1>1
<1> DEFINE S == {h[i] : i \in DOMAIN h}
<1>3. h \in [1 .. n -> S]
  BY <1>1, <1>2
<1>4. h \in Seq(S)
  <2> HIDE DEF S
  <2> QED BY <1>3, SeqDef
<1>5. Len(h) \in Nat /\ DOMAIN h = 1 .. Len(h)
  <2> HIDE DEF S
  <2> QED BY <1>4, LenProperties
<1> QED BY <1>4, <1>5

\* The elements of a concatenation.
LEMMA ConcatIs ==
  ASSUME NEW h, IsSeq(h), NEW k, IsSeq(k)
  PROVE  /\ IsSeq(h \o k) /\ Len(h \o k) = Len(h) + Len(k)
         /\ DOMAIN (h \o k) = 1 .. Len(h) + Len(k)
         /\ \A i \in 1 .. Len(h) : (h \o k)[i] = h[i]
         /\ \A i \in 1 .. Len(k) : (h \o k)[Len(h) + i] = k[i]
<1> DEFINE S == {h[i] : i \in DOMAIN h} \cup {k[i] : i \in DOMAIN k}
<1>1. h \in Seq(S) /\ k \in Seq(S) /\ Len(h) \in Nat /\ Len(k) \in Nat
  <2>1. {h[i] : i \in DOMAIN h} \subseteq S /\ {k[i] : i \in DOMAIN k} \subseteq S
    OBVIOUS
  <2>2. /\ h \in Seq({h[i] : i \in DOMAIN h}) /\ k \in Seq({k[i] : i \in DOMAIN k})
        /\ Len(h) \in Nat /\ Len(k) \in Nat
    BY SeqIs
  <2> HIDE DEF S
  <2> QED BY <2>1, <2>2, SeqMonotonic
<1> HIDE DEF S
<1>2. /\ h \o k \in Seq(S) /\ Len(h \o k) = Len(h) + Len(k)
      /\ \A i \in 1 .. Len(h) + Len(k) : (h \o k)[i] = IF i <= Len(h) THEN h[i] ELSE k[i - Len(h)]
  BY <1>1, ConcatProperties
<1>3. DOMAIN (h \o k) = 1 .. Len(h) + Len(k) /\ IsSeq(h \o k)
  <2>1. h \o k \in [1 .. Len(h) + Len(k) -> S] /\ Len(h) + Len(k) \in Nat
    BY <1>1, <1>2, LenProperties
  <2> QED BY <2>1 DEF IsSeq
<1>4. ASSUME NEW i \in 1 .. Len(k) PROVE (h \o k)[Len(h) + i] = k[i]
  <2>1. Len(h) + i \in 1 .. Len(h) + Len(k) /\ ~(Len(h) + i <= Len(h)) /\ Len(h) + i - Len(h) = i
    BY <1>1
  <2> QED BY <1>2, <2>1
<1>5. \A i \in 1 .. Len(h) : (h \o k)[i] = h[i]
  BY <1>1, <1>2
<1> QED BY <1>2, <1>3, <1>4, <1>5

\* The elements of a subsequence.
LEMMA SubSeqIs ==
  ASSUME NEW h, IsSeq(h), NEW m \in Nat \ {0}, NEW n \in Nat, n <= Len(h), m <= n + 1
  PROVE  /\ IsSeq(SubSeq(h, m, n)) /\ Len(SubSeq(h, m, n)) = n - m + 1
         /\ \A i \in 1 .. n - m + 1 : SubSeq(h, m, n)[i] = h[m + i - 1] /\ m + i - 1 \in DOMAIN h
<1> DEFINE S == {h[i] : i \in DOMAIN h}
<1>1. Len(h) \in Nat /\ DOMAIN h = 1 .. Len(h)
  BY SeqIs
<1>2. \A i \in m .. n : h[i] \in S
  BY <1>1
<1>3. /\ SubSeq(h, m, n) \in Seq(S) /\ Len(SubSeq(h, m, n)) = n - m + 1
      /\ \A i \in 1 .. n - m + 1 : SubSeq(h, m, n)[i] = h[m + i - 1]
  <2> HIDE DEF S
  <2>1. Len(SubSeq(h, m, n)) = IF m <= n THEN n - m + 1 ELSE 0
    BY <1>2, SubSeqProperties
  <2> QED BY <1>2, <2>1, SubSeqProperties
<1>4. IsSeq(SubSeq(h, m, n))
  <2> HIDE DEF S
  <2>1. SubSeq(h, m, n) \in [1 .. n - m + 1 -> S] /\ n - m + 1 \in Nat
    BY <1>3, LenProperties
  <2> QED BY <2>1 DEF IsSeq
<1> QED BY <1>1, <1>3, <1>4

-----------------------------------------------------------------------------
\* The invariant -------------------------------------------------------------------

Scope ==
  /\ IsSeq(heap) /\ DOMAIN typeOf \subseteq DOMAIN heap /\ typeOf = [o \in DOMAIN typeOf |-> typeOf[o]]
  /\ \A o \in DOMAIN typeOf : Formed(typeOf[o])
  /\ Formed(regType)

\* Every variable and the register has slots own[o] and rl of its own.
Separate(own, rl) ==
  /\ \A o \in DOMAIN typeOf : IsTree(heap[o], typeOf[o], own[o], heap)
  /\ IsTree(reg, regType, rl, heap)
  /\ \A o \in DOMAIN typeOf : \A q \in typeOf[o] :
       /\ own[o][q] \notin DOMAIN typeOf
       /\ \A r \in regType : own[o][q] # rl[r]
       /\ \A p \in DOMAIN typeOf \ {o} : \A r \in typeOf[p] : own[o][q] # own[p][r]
  /\ \A r \in regType : rl[r] \notin DOMAIN typeOf

\* The slot of a part of a variable.
At(own, spot) == IF spot.path = <<>> THEN spot.obj ELSE own[spot.obj][spot.path]
IsSpot(s) ==
  s = [obj |-> s.obj, path |-> s.path] /\ s.obj \in DOMAIN typeOf /\ s.path \in typeOf[s.obj] \cup {<<>>}

SliceOK(own, s) ==
  /\ s = [cells |-> s.cells, len |-> s.len, spots |-> s.spots]
  /\ IsSeq(s.cells) /\ IsSeq(s.spots) /\ Len(s.spots) = Len(s.cells) /\ s.len \in 0 .. Len(s.cells)
  /\ \A i \in 1 .. Len(s.cells) :
       /\ IsSpot(s.spots[i]) /\ s.cells[i] = At(own, s.spots[i])
       /\ Sub(typeOf[s.spots[i].obj], s.spots[i].path) = Elem

\* Pointers and slices point where they are to.
Pointing(own) ==
  /\ ptr # 0 => IsSpot(place) /\ ptr = At(own, place)
  /\ slices = [v \in SliceVars |-> slices[v]]
  /\ \A v \in SliceVars : SliceOK(own, slices[v])

Inv == Scope /\ \E own, rl : Separate(own, rl) /\ Pointing(own)

\* What is at a spot is a tree.
LEMMA SpotTree ==
  ASSUME Scope, NEW own, NEW rl, Separate(own, rl), NEW s, IsSpot(s)
  PROVE  /\ Formed(Sub(typeOf[s.obj], s.path))
         /\ \E M : /\ IsTree(heap[At(own, s)], Sub(typeOf[s.obj], s.path), M, heap)
                   /\ \A r \in Sub(typeOf[s.obj], s.path) : M[r] = own[s.obj][s.path \o r]
         /\ CellAt(s.obj, s.path) = At(own, s)
         /\ At(own, s) \in DOMAIN heap
<1> DEFINE T == typeOf[s.obj]
<1>1. s.obj \in DOMAIN typeOf /\ Formed(T) /\ IsTree(heap[s.obj], T, own[s.obj], heap) /\ s.path \in T \cup {<<>>}
      /\ s.obj \in DOMAIN heap
  BY DEF IsSpot, Scope, Separate
<1>2. s.path \in Path
  BY <1>1, EmptySeq DEF Formed, Path
<1>3. heap[At(own, s)] = IF s.path = <<>> THEN heap[s.obj] ELSE heap[own[s.obj][s.path]]
  BY DEF At
<1>4. CellAt(s.obj, s.path) = At(own, s)
  <2>1. ASSUME NEW o, o = s.obj, NEW q, q = s.path, NEW L, L = own[o], NEW U, U = T
        PROVE  CellAt(o, q) = IF q = <<>> THEN o ELSE L[q]
    <3>1. Formed(U) /\ IsTree(heap[o], U, L, heap) /\ q \in U \cup {<<>>}
      BY <1>1, <2>1
    <3> QED BY ONLY <3>1, CellIs
  <2> QED BY <2>1 DEF At
<1>5. At(own, s) \in DOMAIN heap
  BY <1>1 DEF At, IsTree
<1>6. PICK M : M = [r \in Sub(T, s.path) |-> own[s.obj][s.path \o r]]
  OBVIOUS
<1>7. IsTree(heap[At(own, s)], Sub(T, s.path), M, heap)
  BY <1>1, <1>3, <1>6, TreeAt
<1>8. \A r \in Sub(T, s.path) : M[r] = own[s.obj][s.path \o r]
  BY <1>6
<1>9. Formed(Sub(T, s.path))
  BY <1>1, <1>2, SubFormed
<1> HIDE DEF T
<1>10. \E L : /\ IsTree(heap[At(own, s)], Sub(T, s.path), L, heap)
              /\ \A r \in Sub(T, s.path) : L[r] = own[s.obj][s.path \o r]
  BY <1>7, <1>8
<1> QED BY <1>4, <1>5, <1>9, <1>10 DEF T

-----------------------------------------------------------------------------
\* Steps that only change scalars ------------------------------------------------

\* The spots of variables other than those in D are the same slots after the step.
Stay(own, next, D) ==
  \A s : IsSpot(s) /\ s.obj \notin D =>
    (IsSpot(s))' /\ At(next, s) = At(own, s) /\ typeOf'[s.obj] = typeOf[s.obj]

\* A slice none of whose spots is in D is as good after the step as before.
LEMMA SliceStays ==
  ASSUME NEW own, NEW next, NEW D, Stay(own, next, D), NEW x, SliceOK(own, x),
         \A i \in 1 .. Len(x.cells) : x.spots[i].obj \notin D
  PROVE  (SliceOK(next, x))'
<1> USE DEF Stay
<1>1. ASSUME NEW i \in 1 .. Len(x.cells)
      PROVE  /\ (IsSpot(x.spots[i]))' /\ x.cells[i] = At(next, x.spots[i])
             /\ Sub(typeOf'[x.spots[i].obj], x.spots[i].path) = Elem
  <2>1. IsSpot(x.spots[i]) /\ x.cells[i] = At(own, x.spots[i]) /\ x.spots[i].obj \notin D
        /\ Sub(typeOf[x.spots[i].obj], x.spots[i].path) = Elem
    BY DEF SliceOK
  <2> QED BY <2>1
<1> QED BY <1>1 DEF SliceOK

\* The slices that a step leaves alone.
LEMMA SlicesStay ==
  ASSUME NEW own, NEW next, Stay(own, next, {}), Pointing(own), UNCHANGED <<ptr, place>>
  PROVE  /\ (ptr # 0 => IsSpot(place) /\ ptr = At(next, place))'
         /\ \A v \in SliceVars : (SliceOK(next, slices[v]))' \/ slices'[v] # slices[v]
<1>1. (ptr # 0 => IsSpot(place) /\ ptr = At(next, place))'
  <2> SUFFICES ASSUME ptr # 0 PROVE (IsSpot(place) /\ ptr = At(next, place))'
    OBVIOUS
  <2>1. IsSpot(place) /\ ptr = At(own, place)
    BY DEF Pointing
  <2>2. ASSUME NEW s, s = place PROVE (IsSpot(s))' /\ At(next, s) = At(own, s)
    BY <2>1, <2>2 DEF Stay
  <2> QED BY <2>1, <2>2 DEF IsSpot, At
<1>2. ASSUME NEW v \in SliceVars, slices'[v] = slices[v] PROVE (SliceOK(next, slices[v]))'
  <2>1. ASSUME NEW x, x = slices[v] PROVE (SliceOK(next, x))'
    <3>1. SliceOK(own, x)
      BY <2>1 DEF Pointing
    <3> QED BY <3>1, SliceStays
  <2> QED BY <2>1, <1>2 DEF SliceOK, IsSpot
<1> QED BY <1>1, <1>2

\* Scalars may change, and new variables of the scalar type may come, without any slot
\* changing its owner.
LEMMA Grown ==
  ASSUME Scope, NEW own, NEW rl, Separate(own, rl), NEW objs,
         IsSeq(heap'), DOMAIN heap \subseteq DOMAIN heap', \A c \in DOMAIN heap : Same(heap[c], heap'[c]),
         objs \subseteq DOMAIN heap', objs \cap DOMAIN heap = {}, \A o \in objs : heap'[o].tag # "agg",
         typeOf' = Typed(objs, {}), UNCHANGED <<reg, regType>>
  PROVE  \E next : /\ Scope' /\ (Separate(next, rl))' /\ Stay(own, next, {})
<1>1. PICK next : next = [o \in DOMAIN typeOf \cup objs |-> IF o \in objs THEN [q \in {} |-> 0] ELSE own[o]]
  OBVIOUS
<1>2. /\ DOMAIN typeOf' = DOMAIN typeOf \cup objs
      /\ \A o \in objs : typeOf'[o] = {} /\ next[o] = [q \in {} |-> 0] /\ o \notin DOMAIN typeOf
      /\ \A o \in DOMAIN typeOf : typeOf'[o] = typeOf[o] /\ next[o] = own[o] /\ o \notin objs
  BY <1>1 DEF Typed, Scope
<1>3. Formed({})
  BY FS_EmptySet DEF Formed
<1>4. Scope'
  BY <1>2, <1>3 DEF Scope, Typed
<1>5. Stay(own, next, {})
  BY <1>2 DEF Stay, IsSpot, At
<1>6. \A c : Same(c, c)
  BY DEF Same
<1>7. ASSUME NEW o \in DOMAIN typeOf' PROVE IsTree(heap'[o], typeOf'[o], next[o], heap')
  <2>1. CASE o \in objs
    <3>1. IsTree(heap'[o], {}, [q \in {} |-> 0], heap')
      BY <2>1, ScalarTree
    <3>2. typeOf'[o] = {} /\ next[o] = [q \in {} |-> 0]
      BY <2>1, <1>2
    <3> QED BY <3>1, <3>2
  <2>2. CASE o \notin objs
    <3>1. o \in DOMAIN typeOf /\ o \in DOMAIN heap
      BY <2>2, <1>2 DEF Scope
    <3>2. IsTree(heap[o], typeOf[o], own[o], heap) /\ Same(heap[o], heap'[o])
      BY <3>1 DEF Separate
    <3>3. \A q \in typeOf[o] : own[o][q] \in DOMAIN heap
      BY <3>2 DEF IsTree
    <3>4. IsTree(heap'[o], typeOf[o], own[o], heap')
      BY <3>2, <3>3, TreeKept
    <3> QED BY <3>1, <3>4, <1>2
  <2> QED BY <2>1, <2>2
<1>8. IsTree(reg, regType, rl, heap')
  <2>1. IsTree(reg, regType, rl, heap)
    BY DEF Separate
  <2>2. \A q \in regType : rl[q] \in DOMAIN heap
    BY <2>1 DEF IsTree
  <2> QED BY <2>1, <2>2, <1>6, TreeKept
<1>9. ASSUME NEW o \in DOMAIN typeOf', NEW q \in typeOf'[o]
      PROVE  /\ next[o][q] \notin DOMAIN typeOf'
             /\ \A r \in regType : next[o][q] # rl[r]
             /\ \A p \in DOMAIN typeOf' \ {o} : \A r \in typeOf'[p] : next[o][q] # next[p][r]
  <2>1. o \in DOMAIN typeOf /\ q \in typeOf[o] /\ next[o] = own[o]
    BY <1>2
  <2>2. IsTree(heap[o], typeOf[o], own[o], heap)
    BY <2>1 DEF Separate
  <2>3. own[o][q] \in DOMAIN heap
    BY <2>1, <2>2 DEF IsTree
  <2>4. own[o][q] \notin DOMAIN typeOf'
    BY <2>1, <2>3, <1>2 DEF Separate
  <2>5. ASSUME NEW p \in DOMAIN typeOf' \ {o}, NEW r \in typeOf'[p] PROVE own[o][q] # next[p][r]
    <3>1. p \in DOMAIN typeOf \ {o} /\ r \in typeOf[p] /\ next[p] = own[p]
      BY <1>2
    <3> QED BY <2>1, <3>1 DEF Separate
  <2>6. \A r \in regType : own[o][q] # rl[r]
    BY <2>1 DEF Separate
  <2> QED BY <2>1, <2>4, <2>5, <2>6
<1>10. \A r \in regType : rl[r] \notin DOMAIN typeOf'
  <2>1. \A q \in regType : rl[q] \in DOMAIN heap /\ rl[q] \notin DOMAIN typeOf
    BY DEF IsTree, Separate
  <2> QED BY <2>1, <1>2
<1>11. (Separate(next, rl))'
  BY <1>7, <1>8, <1>9, <1>10 DEF Separate
<1> QED BY <1>4, <1>5, <1>11

\* Steps that leave memory alone.
LEMMA MemoryStays ==
  ASSUME Scope, NEW own, UNCHANGED <<heap, typeOf>>
  PROVE  /\ \A rl : Separate(own, rl) /\ UNCHANGED <<reg, regType>> => (Separate(own, rl))'
         /\ Stay(own, own, {})
         /\ regType' = regType => Scope'
BY DEF Separate, Stay, IsSpot, Scope

-----------------------------------------------------------------------------
\* A step without new variables is one with no new variable.
LEMMA NothingTyped == Scope /\ typeOf' = typeOf => typeOf' = Typed({}, {})
BY DEF Scope, Typed

\* store changes only scalars.
LEMMA StoreScalars ==
  ASSUME Scope, NEW own, NEW rl, Separate(own, rl), Pointing(own), Store
  PROVE  /\ DOMAIN heap' = DOMAIN heap /\ heap' = [c \in DOMAIN heap |-> heap'[c]]
         /\ \A c \in DOMAIN heap : Same(heap[c], heap'[c])
<1>2. /\ Scope /\ ptr # 0 /\ IsSpot(place) /\ ptr = At(own, place) /\ regType = Sub(typeOf[place.obj], place.path)
      /\ UNCHANGED <<typeOf, ptr, place, reg, regType, slices>>
  BY DEF Pointing, Store, PtrType
<1>3. PICK M : IsTree(heap[ptr], regType, M, heap) /\ ptr \in DOMAIN heap
  BY <1>2, SpotTree
<1>4. ASSUME NEW q \in Leaves(regType)
      PROVE  heap[CellAt(ptr, q)].tag # "agg" /\ Part(reg, q).tag # "agg"
  <2>1. Formed(regType) /\ IsTree(reg, regType, rl, heap) /\ q \in regType \cup {<<>>} /\ Kids(regType, q) = {}
    BY <1>2, LeafKids DEF Scope, Separate
  <2>2. CellAt(ptr, q) = IF q = <<>> THEN ptr ELSE M[q]
    <3>1. \A r \in regType \cup {<<>>} : CellAt(ptr, r) = IF r = <<>> THEN ptr ELSE M[r]
      <4>1. ASSUME NEW o, o = ptr, NEW U, U = regType
            PROVE  \A r \in U \cup {<<>>} : CellAt(o, r) = IF r = <<>> THEN o ELSE M[r]
        <5>1. Formed(U) /\ IsTree(heap[o], U, M, heap)
          BY <1>3, <2>1, <4>1
        <5> QED BY ONLY <5>1, CellIs
      <4> QED BY <4>1
    <3> QED BY <2>1, <3>1
  <2>3. Part(reg, q) = IF q = <<>> THEN reg ELSE heap[rl[q]]
    BY <2>1, PartIs
  <2>4. (IF q = <<>> THEN heap[ptr] ELSE heap[M[q]]).tag # "agg"
    BY <1>3, <2>1, ScalarAt
  <2>5. (IF q = <<>> THEN reg ELSE heap[rl[q]]).tag # "agg"
    BY <2>1, ScalarAt
  <2> QED BY <2>2, <2>3, <2>4, <2>5
<1>5. DOMAIN heap' = DOMAIN heap /\ heap' = [c \in DOMAIN heap |-> heap'[c]]
  BY DEF Store
<1>6. ASSUME NEW c \in DOMAIN heap PROVE Same(heap[c], heap'[c])
  <2> DEFINE hit == {q \in Leaves(regType) : CellAt(ptr, q) = c}
  <2>1. heap'[c] = IF hit = {} THEN heap[c] ELSE Part(reg, CHOOSE q \in hit : TRUE)
    BY DEF Store
  <2>2. CASE hit = {}
    BY <2>1, <2>2 DEF Same
  <2>3. CASE hit # {}
    <3>1. PICK q : q = (CHOOSE r \in hit : TRUE) /\ q \in hit
      BY <2>3
    <3>2. heap'[c] = Part(reg, q) /\ q \in Leaves(regType) /\ CellAt(ptr, q) = c
      BY <2>1, <2>3, <3>1
    <3> QED BY <3>2, <1>4 DEF Same
  <2> QED BY <2>2, <2>3
<1> QED BY <1>5, <1>6

\* store() writes scalars over scalars.
LEMMA StoreKeeps ==
  ASSUME Inv, Store
  PROVE  Inv'
<1>1. PICK own, rl : Separate(own, rl) /\ Pointing(own)
  BY DEF Inv
<1>2. Scope /\ UNCHANGED <<typeOf, ptr, place, reg, regType, slices>>
  BY DEF Inv, Store
<1>3. /\ DOMAIN heap' = DOMAIN heap /\ heap' = [c \in DOMAIN heap |-> heap'[c]]
      /\ \A c \in DOMAIN heap : Same(heap[c], heap'[c])
  BY <1>1, <1>2, StoreScalars
<1>4. IsSeq(heap')
  <2>1. DOMAIN heap = 1 .. Len(heap) /\ Len(heap) \in Nat
    BY <1>2, SeqIs DEF Scope
  <2> QED BY <1>3, <2>1 DEF IsSeq
<1>5. typeOf' = Typed({}, {})
  BY <1>2, NothingTyped
<1>6. \E next : Scope' /\ (Separate(next, rl))' /\ Stay(own, next, {})
  BY <1>1, <1>2, <1>3, <1>4, <1>5, Grown
<1>7. PICK next : Scope' /\ (Separate(next, rl))' /\ Stay(own, next, {})
  BY <1>6
<1>8. (Pointing(next))'
  BY <1>1, <1>2, <1>7, SlicesStay DEF Pointing
<1> QED BY <1>7, <1>8 DEF Inv

-----------------------------------------------------------------------------
\* Slices of scalars -------------------------------------------------------------

\* The elements of a slice of scalars are scalars.
LEMMA SliceScalars ==
  ASSUME Scope, NEW own, NEW rl, Separate(own, rl), NEW x, SliceOK(own, x), Elem = {},
         NEW i \in 1 .. Len(x.cells)
  PROVE  x.cells[i] \in DOMAIN heap /\ heap[x.cells[i]].tag # "agg"
<1>1. PICK s : s = x.spots[i] /\ IsSpot(s) /\ x.cells[i] = At(own, s) /\ Sub(typeOf[s.obj], s.path) = {}
  BY DEF SliceOK
<1>2. PICK M : IsTree(heap[At(own, s)], Sub(typeOf[s.obj], s.path), M, heap) /\ At(own, s) \in DOMAIN heap
  BY <1>1, SpotTree
<1>3. heap[At(own, s)].tag # "agg"
  BY <1>1, <1>2 DEF IsTree, Node, Kids
<1> QED BY <1>1, <1>2, <1>3

\* The heap is as it was but for scalars.
LEMMA MovedScalars ==
  ASSUME Scope, NEW to, NEW from,
         \A i \in DOMAIN to : /\ from[i] \in DOMAIN heap /\ heap[to[i]].tag # "agg" /\ heap[from[i]].tag # "agg"
  PROVE  /\ IsSeq(Moved(to, from)) /\ DOMAIN Moved(to, from) = DOMAIN heap
         /\ \A c \in DOMAIN heap : Same(heap[c], Moved(to, from)[c])
<1>1. DOMAIN Moved(to, from) = DOMAIN heap /\ Moved(to, from) = [c \in DOMAIN heap |-> Moved(to, from)[c]]
  BY DEF Moved
<1>2. IsSeq(Moved(to, from))
  <2>1. DOMAIN heap = 1 .. Len(heap) /\ Len(heap) \in Nat
    BY SeqIs DEF Scope
  <2> QED BY <1>1, <2>1 DEF IsSeq
<1>3. ASSUME NEW c \in DOMAIN heap PROVE Same(heap[c], Moved(to, from)[c])
  <2> DEFINE hit == {i \in DOMAIN to : to[i] = c}
  <2>1. Moved(to, from)[c] = IF hit = {} THEN heap[c] ELSE heap[from[CHOOSE i \in hit : TRUE]]
    BY DEF Moved
  <2>2. CASE hit = {}
    BY <2>1, <2>2 DEF Same
  <2>3. CASE hit # {}
    <3>1. PICK i : i = (CHOOSE j \in hit : TRUE) /\ i \in hit
      BY <2>3
    <3>2. Moved(to, from)[c] = heap[from[i]] /\ i \in DOMAIN to /\ to[i] = c
      BY <2>1, <2>3, <3>1
    <3> QED BY <3>2 DEF Same
  <2> QED BY <2>2, <2>3
<1> QED BY <1>1, <1>2, <1>3

\* A step leaves every slice alone or makes a slice of it.
SlicesGoOn ==
  \A own, next : Pointing(own) /\ Stay(own, next, {}) =>
    \A v \in SliceVars : slices'[v] = slices[v] \/ (SliceOK(next, slices[v]))'

\* What all steps have in common that change only scalars.
LEMMA ScalarStep ==
  ASSUME Inv, NEW objs, IsSeq(heap'), DOMAIN heap \subseteq DOMAIN heap',
         \A c \in DOMAIN heap : Same(heap[c], heap'[c]),
         objs \subseteq DOMAIN heap', objs \cap DOMAIN heap = {}, \A o \in objs : heap'[o].tag # "agg",
         typeOf' = Typed(objs, {}), UNCHANGED <<ptr, place, reg, regType>>,
         slices' = [v \in SliceVars |-> slices'[v]], SlicesGoOn
  PROVE  Inv'
<1>1. PICK own, rl : Separate(own, rl) /\ Pointing(own)
  BY DEF Inv
<1>2. PICK next : Scope' /\ (Separate(next, rl))' /\ Stay(own, next, {})
  <2>1. Scope /\ UNCHANGED <<reg, regType>>
    BY DEF Inv
  <2> QED BY <1>1, <2>1, Grown
<1>3. (Pointing(next))'
  <2>1. /\ (ptr # 0 => IsSpot(place) /\ ptr = At(next, place))'
        /\ \A v \in SliceVars : (SliceOK(next, slices[v]))' \/ slices'[v] # slices[v]
    BY <1>1, <1>2, SlicesStay
  <2>2. \A v \in SliceVars : (SliceOK(next, slices[v]))'
    BY <1>1, <1>2, <2>1 DEF SlicesGoOn
  <2> QED BY <2>1, <2>2 DEF Pointing
<1> QED BY <1>2, <1>3 DEF Inv

\* The lengths of a slice.
SliceLengths(x) ==
  /\ x = [cells |-> x.cells, len |-> x.len, spots |-> x.spots]
  /\ IsSeq(x.cells) /\ IsSeq(x.spots) /\ Len(x.spots) = Len(x.cells) /\ Len(x.cells) \in Nat
  /\ DOMAIN x.cells = 1 .. Len(x.cells) /\ DOMAIN x.spots = 1 .. Len(x.cells)
  /\ x.len \in Nat /\ x.len <= Len(x.cells)

\* A slice that points where it is to has lengths that fit.
LEMMA SliceNumbers ==
  ASSUME NEW own, NEW x, SliceOK(own, x)
  PROVE  SliceLengths(x)
<1>1. /\ x = [cells |-> x.cells, len |-> x.len, spots |-> x.spots]
      /\ IsSeq(x.cells) /\ IsSeq(x.spots) /\ Len(x.spots) = Len(x.cells) /\ x.len \in 0 .. Len(x.cells)
  BY DEF SliceOK
<1>2. Len(x.cells) \in Nat /\ DOMAIN x.cells = 1 .. Len(x.cells) /\ DOMAIN x.spots = 1 .. Len(x.spots)
  BY <1>1, SeqIs
<1> QED BY <1>1, <1>2 DEF SliceLengths

\* copy of callBuiltin, of scalars.
LEMMA CopySliceKeeps ==
  ASSUME Inv, Elem = {}, NEW v \in SliceVars, NEW w \in SliceVars, CopySlice(v, w)
  PROVE  Inv'
<1>1. PICK own, rl : Separate(own, rl) /\ Pointing(own)
  BY DEF Inv
<1> DEFINE n == IF slices[v].len < slices[w].len THEN slices[v].len ELSE slices[w].len
           to == SubSeq(slices[v].cells, 1, n)
           from == SubSeq(slices[w].cells, 1, n)
<1>2. Scope /\ heap' = Moved(to, from) /\ UNCHANGED <<typeOf, ptr, place, reg, regType, slices>>
  BY DEF CopySlice, Inv
<1>3. /\ SliceOK(own, slices[v]) /\ SliceOK(own, slices[w])
      /\ IsSeq(slices[v].cells) /\ IsSeq(slices[w].cells)
      /\ Len(slices[v].cells) \in Nat /\ Len(slices[w].cells) \in Nat
      /\ n \in Nat /\ n <= Len(slices[v].cells) /\ n <= Len(slices[w].cells)
  <2>1. \A u \in SliceVars : SliceOK(own, slices[u]) /\ SliceLengths(slices[u])
    BY <1>1, SliceNumbers DEF Pointing
  <2>2. slices[v].len <= Len(slices[v].cells) /\ slices[w].len <= Len(slices[w].cells)
        /\ slices[v].len \in Nat /\ slices[w].len \in Nat
    BY <2>1 DEF SliceLengths
  <2>3. n \in Nat /\ n <= slices[v].len /\ n <= slices[w].len
    BY <2>2
  <2>4. n <= Len(slices[v].cells) /\ n <= Len(slices[w].cells)
    <3> HIDE DEF n
    <3> QED BY <2>1, <2>2, <2>3 DEF SliceLengths
  <2> QED BY <2>1, <2>3, <2>4 DEF SliceLengths
<1>4. ASSUME NEW i \in DOMAIN to
      PROVE  from[i] \in DOMAIN heap /\ heap[to[i]].tag # "agg" /\ heap[from[i]].tag # "agg"
  <2>1. /\ IsSeq(to) /\ Len(to) = n - 1 + 1
        /\ \A j \in 1 .. n - 1 + 1 : to[j] = slices[v].cells[1 + j - 1]
        /\ \A j \in 1 .. n - 1 + 1 : from[j] = slices[w].cells[1 + j - 1]
    <3> HIDE DEF n
    <3>1. 1 \in Nat \ {0} /\ n \in Nat /\ 1 <= n + 1
      BY <1>3
    <3>2. IsSeq(slices[v].cells) /\ n <= Len(slices[v].cells)
      BY <1>3
    <3>3. IsSeq(slices[w].cells) /\ n <= Len(slices[w].cells)
      BY <1>3
    <3>4. IsSeq(to) /\ Len(to) = n - 1 + 1 /\ \A j \in 1 .. n - 1 + 1 : to[j] = slices[v].cells[1 + j - 1]
      BY ONLY <3>1, <3>2, SubSeqIs
    <3>5. \A j \in 1 .. n - 1 + 1 : from[j] = slices[w].cells[1 + j - 1]
      BY ONLY <3>1, <3>3, SubSeqIs
    <3> QED BY ONLY <3>4, <3>5
  <2>2. i \in 1 .. n
    <3> HIDE DEF n, to
    <3> QED BY <2>1, <1>3, SeqIs
  <2>3. to[i] = slices[v].cells[i] /\ from[i] = slices[w].cells[i]
    <3> HIDE DEF n, to, from
    <3> QED BY <2>1, <2>2, <1>3
  <2>4. i \in 1 .. Len(slices[v].cells) /\ i \in 1 .. Len(slices[w].cells)
    <3> HIDE DEF n
    <3> QED BY <2>2, <1>3
  <2> QED BY <2>3, <2>4, <1>1, <1>2, <1>3, SliceScalars
<1> HIDE DEF to, from
<1>5. /\ IsSeq(heap') /\ DOMAIN heap' = DOMAIN heap
      /\ \A c \in DOMAIN heap : Same(heap[c], heap'[c])
  BY <1>2, <1>4, MovedScalars
<1>6. typeOf' = Typed({}, {}) /\ slices' = [u \in SliceVars |-> slices'[u]]
  BY <1>1, <1>2, NothingTyped DEF Pointing
<1>7. SlicesGoOn
  BY <1>2 DEF SlicesGoOn
<1> QED BY <1>2, <1>5, <1>6, <1>7, ScalarStep
\* A step that gives the slice variable v the slice x.
LEMMA NewSlice ==
  ASSUME NEW own, NEW next, NEW v \in SliceVars, NEW x, Pointing(own), Stay(own, next, {}),
         slices' = [slices EXCEPT ![v] = x], (SliceOK(next, x))'
  PROVE  /\ slices' = [u \in SliceVars |-> slices'[u]]
         /\ \A u \in SliceVars : slices'[u] = slices[u] \/ (SliceOK(next, slices[u]))'
<1>1. slices = [u \in SliceVars |-> slices[u]]
  BY DEF Pointing
<1>2. slices'[v] = x /\ (\A u \in SliceVars : u # v => slices'[u] = slices[u])
      /\ slices' = [u \in SliceVars |-> slices'[u]]
  BY <1>1
<1>3. (SliceOK(next, slices[v]))'
  BY <1>2 DEF SliceOK, IsSpot
<1> QED BY <1>2, <1>3

\* append of callBuiltin in the spare capacity.
LEMMA AppendInPlaceKeeps ==
  ASSUME Inv, Elem = {}, NEW v \in SliceVars, NEW u \in SliceVars, NEW w \in SliceVars,
         AppendInPlace(v, u, w)
  PROVE  Inv'
<1>1. PICK own, rl : Separate(own, rl) /\ Pointing(own)
  BY DEF Inv
<1> DEFINE a == slices[u].len
           b == slices[w].len
           n == a + b
           to == SubSeq(slices[u].cells, a + 1, n)
           from == SubSeq(slices[w].cells, 1, b)
<1>0. PICK x : x = [slices[u] EXCEPT !.len = n]
  OBVIOUS
<1>2. /\ Scope /\ n <= Len(slices[u].cells) /\ heap' = Moved(to, from)
      /\ slices' = [slices EXCEPT ![v] = x]
      /\ UNCHANGED <<typeOf, ptr, place, reg, regType>>
  BY <1>0 DEF AppendInPlace, Inv, Cells
<1>3. /\ SliceOK(own, slices[u]) /\ SliceLengths(slices[u])
      /\ SliceOK(own, slices[w]) /\ SliceLengths(slices[w])
  BY <1>1, SliceNumbers DEF Pointing
<1>4. /\ a \in Nat /\ b \in Nat /\ n \in Nat /\ b <= Len(slices[w].cells)
      /\ Len(slices[u].cells) \in Nat /\ Len(slices[w].cells) \in Nat
      /\ IsSeq(slices[u].cells) /\ IsSeq(slices[w].cells)
  BY <1>3 DEF SliceLengths
<1>5. ASSUME NEW i \in DOMAIN to
      PROVE  from[i] \in DOMAIN heap /\ heap[to[i]].tag # "agg" /\ heap[from[i]].tag # "agg"
  <2> HIDE DEF a, b
  <2>1. a + 1 \in Nat \ {0} /\ a + 1 <= n + 1 /\ n - (a + 1) + 1 = b
    BY <1>4
  <2>2. /\ IsSeq(to) /\ Len(to) = b
        /\ \A j \in 1 .. b : to[j] = slices[u].cells[a + 1 + j - 1]
    <3> HIDE DEF n
    <3> QED BY <1>2, <1>4, <2>1, SubSeqIs
  <2>3. \A j \in 1 .. b : from[j] = slices[w].cells[1 + j - 1]
    <3>1. 1 \in Nat \ {0} /\ 1 <= b + 1 /\ b - 1 + 1 = b
      BY <1>4
    <3> QED BY <1>4, <3>1, SubSeqIs
  <2>4. i \in 1 .. b
    <3> HIDE DEF to
    <3> QED BY <2>2, SeqIs
  <2>5. a + 1 + i - 1 = a + i /\ 1 + i - 1 = i
        /\ a + i \in 1 .. Len(slices[u].cells) /\ i \in 1 .. Len(slices[w].cells)
    <3>1. /\ a \in Nat /\ b \in Nat /\ Len(slices[u].cells) \in Nat /\ Len(slices[w].cells) \in Nat
          /\ a + b <= Len(slices[u].cells) /\ b <= Len(slices[w].cells)
      BY <1>2, <1>4
    <3> QED BY ONLY <2>4, <3>1
  <2>6. to[i] = slices[u].cells[a + i] /\ from[i] = slices[w].cells[i]
    <3> HIDE DEF n, to, from
    <3> QED BY <2>2, <2>3, <2>4, <2>5
  <2> QED BY <2>5, <2>6, <1>1, <1>2, <1>3, SliceScalars
<1> HIDE DEF to, from
<1>6. /\ IsSeq(heap') /\ DOMAIN heap' = DOMAIN heap
      /\ \A c \in DOMAIN heap : Same(heap[c], heap'[c])
  BY <1>2, <1>5, MovedScalars
<1>7. typeOf' = Typed({}, {})
  BY <1>2, NothingTyped
<1>8. SliceOK(own, x)
  <2>1. slices[u] = [cells |-> slices[u].cells, len |-> slices[u].len, spots |-> slices[u].spots]
    BY <1>3 DEF SliceOK
  <2>2. x.cells = slices[u].cells /\ x.len = n /\ x.spots = slices[u].spots
        /\ x = [cells |-> x.cells, len |-> x.len, spots |-> x.spots]
    <3> HIDE DEF n
    <3> QED BY <1>0, <2>1
  <2>3. n \in 0 .. Len(slices[u].cells)
    BY <1>2, <1>4
  <2> HIDE DEF n
  <2> QED BY <1>3, <2>2, <2>3 DEF SliceOK
<1>9. ASSUME NEW mine, NEW next, Pointing(mine), Stay(mine, next, {})
      PROVE  \A t \in SliceVars : slices'[t] = slices[t] \/ (SliceOK(next, slices[t]))'
  <2>1. SliceOK(mine, slices[u])
    BY <1>9 DEF Pointing
  <2>2. SliceOK(mine, x)
    <3>1. /\ slices[u] = [cells |-> slices[u].cells, len |-> slices[u].len, spots |-> slices[u].spots]
          /\ x.cells = slices[u].cells /\ x.spots = slices[u].spots
      <4>1. slices[u] = [cells |-> slices[u].cells, len |-> slices[u].len, spots |-> slices[u].spots]
        BY <2>1 DEF SliceOK
      <4> HIDE DEF n
      <4> QED BY <1>0, <4>1
    <3>2. x = [cells |-> x.cells, len |-> x.len, spots |-> x.spots] /\ x.len \in 0 .. Len(x.cells)
      BY <1>8 DEF SliceOK
    <3> QED BY <2>1, <3>1, <3>2 DEF SliceOK
  <2>3. (SliceOK(next, x))'
    BY <1>9, <2>2, SliceStays
  <2> QED BY <1>2, <1>9, <2>3, NewSlice
<1>10. slices' = [t \in SliceVars |-> slices'[t]]
  <2>1. slices = [t \in SliceVars |-> slices[t]]
    BY <1>1 DEF Pointing
  <2> QED BY <1>2, <2>1
<1>11. SlicesGoOn
  BY <1>9 DEF SlicesGoOn
<1>12. Inv /\ UNCHANGED <<ptr, place, reg, regType>>
  BY <1>2
<1> QED BY ONLY <1>6, <1>7, <1>10, <1>11, <1>12, ScalarStep

\* A reslicing has some of the slots of the slice.
LEMMA SliceSliceKeeps ==
  ASSUME Inv, NEW v \in SliceVars, NEW u \in SliceVars, NEW l \in Nat, NEW h \in Nat, NEW m \in Nat,
         SliceSlice(v, u, l, h, m)
  PROVE  Inv'
<1>1. PICK own, rl : Separate(own, rl) /\ Pointing(own)
  BY DEF Inv
<1>0. PICK x : x = [cells |-> SubSeq(slices[u].cells, l + 1, m), len |-> h - l,
                    spots |-> SubSeq(slices[u].spots, l + 1, m)]
  OBVIOUS
<1>2. /\ Scope /\ l <= h /\ h <= m /\ m <= Len(slices[u].cells)
      /\ slices' = [slices EXCEPT ![v] = x]
      /\ UNCHANGED <<heap, typeOf, ptr, place, reg, regType>>
  BY <1>0 DEF SliceSlice, Inv
<1>3. ASSUME NEW mine, Pointing(mine) PROVE SliceOK(mine, x)
  <2>1. SliceOK(mine, slices[u]) /\ SliceLengths(slices[u])
    BY <1>3, SliceNumbers DEF Pointing
  <2>2. l + 1 \in Nat \ {0} /\ l + 1 <= m + 1 /\ m - (l + 1) + 1 = m - l /\ h - l \in 0 .. m - l
    BY <1>2
  <2>3. /\ IsSeq(x.cells) /\ Len(x.cells) = m - l
        /\ \A i \in 1 .. m - l : x.cells[i] = slices[u].cells[l + 1 + i - 1]
    BY <1>0, <1>2, <2>1, <2>2, SubSeqIs DEF SliceLengths
  <2>4. /\ IsSeq(x.spots) /\ Len(x.spots) = m - l
        /\ \A i \in 1 .. m - l : x.spots[i] = slices[u].spots[l + 1 + i - 1]
    BY <1>0, <1>2, <2>1, <2>2, SubSeqIs DEF SliceLengths
  <2>5. \A i \in 1 .. m - l : l + 1 + i - 1 \in 1 .. Len(slices[u].cells)
    BY <1>2, <2>1 DEF SliceLengths
  <2>6. x = [cells |-> x.cells, len |-> x.len, spots |-> x.spots] /\ x.len = h - l
    BY <1>0
  <2>7. ASSUME NEW i \in 1 .. m - l
        PROVE  /\ IsSpot(x.spots[i]) /\ x.cells[i] = At(mine, x.spots[i])
               /\ Sub(typeOf[x.spots[i].obj], x.spots[i].path) = Elem
    <3>1. PICK j \in 1 .. Len(slices[u].cells) :
            x.spots[i] = slices[u].spots[j] /\ x.cells[i] = slices[u].cells[j]
      BY <2>3, <2>4, <2>5
    <3> QED BY <2>1, <3>1 DEF SliceOK
  <2>8. Len(x.spots) = Len(x.cells) /\ x.len \in 0 .. Len(x.cells)
    BY <2>2, <2>3, <2>4, <2>6
  <2>9. ASSUME NEW i \in 1 .. Len(x.cells)
        PROVE  /\ IsSpot(x.spots[i]) /\ x.cells[i] = At(mine, x.spots[i])
               /\ Sub(typeOf[x.spots[i].obj], x.spots[i].path) = Elem
    BY <2>3, <2>7
  <2> QED BY <2>3, <2>4, <2>6, <2>8, <2>9 DEF SliceOK
<1>4. /\ IsSeq(heap') /\ DOMAIN heap' = DOMAIN heap
      /\ \A c \in DOMAIN heap : Same(heap[c], heap'[c])
  BY <1>2 DEF Scope, Same
<1>5. typeOf' = Typed({}, {})
  BY <1>2, NothingTyped
<1>6. ASSUME NEW mine, NEW next, Pointing(mine), Stay(mine, next, {})
      PROVE  \A t \in SliceVars : slices'[t] = slices[t] \/ (SliceOK(next, slices[t]))'
  <2>1. (SliceOK(next, x))'
    BY <1>3, <1>6, SliceStays
  <2> QED BY <1>2, <1>6, <2>1, NewSlice
<1>7. slices' = [t \in SliceVars |-> slices'[t]]
  <2>1. slices = [t \in SliceVars |-> slices[t]]
    BY <1>1 DEF Pointing
  <2> QED BY <1>2, <2>1
<1>8. SlicesGoOn
  BY <1>6 DEF SlicesGoOn
<1>12. Inv /\ UNCHANGED <<ptr, place, reg, regType>>
  BY <1>2
<1> QED BY ONLY <1>4, <1>5, <1>7, <1>8, <1>12, ScalarStep

\* A slice over k new scalars, of which n are in it.
NewCells(k) == [i \in 1 .. k |-> Len(heap) + i]
NewSlots(k) == {Len(heap) + i : i \in 1 .. k}
Fresh(k, n) == [cells |-> NewCells(k), len |-> n, spots |-> [i \in 1 .. k |-> NewSpot(Len(heap) + i)]]

\* Such a slice points at the new variables.
LEMMA FreshSlice ==
  ASSUME Scope, Elem = {}, NEW next, NEW k \in Nat, NEW n \in 0 .. k, NEW x, x = Fresh(k, n),
         typeOf' = Typed(NewSlots(k), {})
  PROVE  (SliceOK(next, x))'
<1>1. x.cells = NewCells(k) /\ x.len = n /\ x.spots = [i \in 1 .. k |-> NewSpot(Len(heap) + i)]
      /\ x = [cells |-> x.cells, len |-> x.len, spots |-> x.spots]
  BY DEF Fresh
<1>2. IsSeq(x.cells) /\ IsSeq(x.spots) /\ Len(x.cells) = k /\ Len(x.spots) = k
  <2>1. IsSeq(x.cells) /\ IsSeq(x.spots)
    BY <1>1 DEF NewCells, IsSeq
  <2>2. DOMAIN x.cells = 1 .. k /\ DOMAIN x.spots = 1 .. k
    BY <1>1 DEF NewCells
  <2> QED BY <1>1, <2>1 DEF NewCells
<1>3. Sub({}, <<>>) = {}
  BY DEF Sub
<1>4. ASSUME NEW i \in 1 .. k
      PROVE  /\ (IsSpot(x.spots[i]))' /\ x.cells[i] = At(next, x.spots[i])
             /\ Sub(typeOf'[x.spots[i].obj], x.spots[i].path) = {}
  <2>1. PICK o : o = Len(heap) + i
    OBVIOUS
  <2>2. x.spots[i] = [obj |-> o, path |-> <<>>] /\ x.cells[i] = o
    BY <1>1, <2>1 DEF NewSpot, NewCells
  <2>3. o \in DOMAIN typeOf' /\ typeOf'[o] = {}
    <3>1. o \in NewSlots(k)
      BY <2>1 DEF NewSlots
    <3> QED BY <3>1 DEF Typed
  <2>4. PICK s : s = x.spots[i]
    OBVIOUS
  <2>5. s = [obj |-> o, path |-> <<>>] /\ s.obj = o /\ s.path = <<>>
    BY <2>2, <2>4
  <2>6. (IsSpot(s))' /\ At(next, s) = o /\ Sub(typeOf'[s.obj], s.path) = {}
    BY <1>3, <2>3, <2>5 DEF IsSpot, At
  <2> QED BY <2>2, <2>4, <2>6
<1> QED BY <1>1, <1>2, <1>4 DEF SliceOK

\* What append and MakeSlice have in common when they allocate: k new scalars and a
\* slice of them.
LEMMA FreshStep ==
  ASSUME Inv, Elem = {}, NEW v \in SliceVars, NEW k \in Nat, NEW n \in 0 .. k,
         NEW cells, IsSeq(cells), Len(cells) = k, \A i \in 1 .. k : cells[i].tag # "agg",
         heap' = heap \o cells, typeOf' = Typed(NewSlots(k), {}),
         NEW x, x = Fresh(k, n), slices' = [slices EXCEPT ![v] = x], UNCHANGED <<ptr, place, reg, regType>>
  PROVE  Inv'
<1>0. PICK objs : objs = NewSlots(k)
  OBVIOUS
<1>1. Scope /\ IsSeq(heap) /\ Len(heap) \in Nat /\ DOMAIN heap = 1 .. Len(heap)
  BY SeqIs DEF Inv, Scope
<1>3. /\ IsSeq(heap') /\ DOMAIN heap' = 1 .. Len(heap) + k
      /\ \A i \in 1 .. Len(heap) : heap'[i] = heap[i]
      /\ \A i \in 1 .. k : heap'[Len(heap) + i] = cells[i]
  <2>1. IsSeq(heap) /\ IsSeq(cells)
    BY <1>1
  <2>2. /\ IsSeq(heap \o cells) /\ DOMAIN (heap \o cells) = 1 .. Len(heap) + Len(cells)
        /\ \A i \in 1 .. Len(heap) : (heap \o cells)[i] = heap[i]
        /\ \A i \in 1 .. Len(cells) : (heap \o cells)[Len(heap) + i] = cells[i]
    BY ONLY <2>1, ConcatIs
  <2> QED BY <2>2
<1>4. /\ DOMAIN heap \subseteq DOMAIN heap' /\ \A c \in DOMAIN heap : Same(heap[c], heap'[c])
      /\ objs \subseteq DOMAIN heap' /\ objs \cap DOMAIN heap = {} /\ \A o \in objs : heap'[o].tag # "agg"
  BY <1>0, <1>1, <1>3 DEF Same, NewSlots
<1>5. ASSUME NEW mine, NEW next, Pointing(mine), Stay(mine, next, {})
      PROVE  \A t \in SliceVars : slices'[t] = slices[t] \/ (SliceOK(next, slices[t]))'
  <2>1. (SliceOK(next, x))'
    BY <1>1, FreshSlice
  <2> QED BY <1>5, <2>1, NewSlice
<1>6. slices' = [t \in SliceVars |-> slices'[t]]
  <2>1. slices = [t \in SliceVars |-> slices[t]]
    BY DEF Inv, Pointing
  <2> QED BY <2>1
<1>7. typeOf' = Typed(objs, {})
  BY <1>0
<1>8. SlicesGoOn
  BY <1>5 DEF SlicesGoOn
<1> QED BY <1>3, <1>4, <1>6, <1>7, <1>8, ScalarStep

\* The step gives v a slice over k new slots with these contents, of which n are in it.
Extends(v, cells, k, n) ==
  /\ k \in Nat /\ n \in 0 .. k /\ IsSeq(cells) /\ Len(cells) = k /\ \A i \in 1 .. k : cells[i].tag # "agg"
  /\ heap' = heap \o cells /\ typeOf' = Typed(NewSlots(k), {})
  /\ slices' = [slices EXCEPT ![v] = Fresh(k, n)] /\ UNCHANGED <<ptr, place, reg, regType>>

\* Such a step keeps every slot with its owner.
LEMMA ExtendsKeeps ==
  ASSUME Inv, Elem = {}, NEW v \in SliceVars, NEW cells, NEW k, NEW n, Extends(v, cells, k, n)
  PROVE  Inv'
BY FreshStep DEF Extends

\* append of callBuiltin in a new host array: it has the elements of both slices and
\* then nil.
LEMMA AppendGrowIs ==
  ASSUME Inv, Elem = {}, NEW v \in SliceVars, NEW u \in SliceVars, NEW w \in SliceVars,
         NEW spare \in Nat, AppendGrow(v, u, w, spare)
  PROVE  \E cells, k, n :
           /\ Extends(v, cells, k, n) /\ n = slices[u].len + slices[w].len /\ n > Len(slices[u].cells)
           /\ \A i \in 1 .. slices[u].len : cells[i] = heap[slices[u].cells[i]]
           /\ \A i \in 1 .. slices[w].len : cells[slices[u].len + i] = heap[slices[w].cells[i]]
           /\ \A i \in 1 .. k : i > n => cells[i] = Nil
<1>1. PICK own, rl : Separate(own, rl) /\ Pointing(own)
  BY DEF Inv
<1> DEFINE a == slices[u].len
           b == slices[w].len
           n == a + b
           k == n + spare
           before == SubSeq(slices[u].cells, 1, a)
           added == SubSeq(slices[w].cells, 1, b)
           from == before \o added
           cells == [i \in 1 .. k |-> IF i <= n THEN heap[from[i]] ELSE Nil]
<1>2. /\ Scope /\ heap' = heap \o cells
      /\ typeOf' = Typed({NewCells(k)[i] : i \in DOMAIN NewCells(k)}, Elem)
      /\ slices' = [slices EXCEPT ![v] = [cells |-> NewCells(k), len |-> n,
                       spots |-> [i \in DOMAIN NewCells(k) |-> NewSpot(NewCells(k)[i])]]]
      /\ UNCHANGED <<ptr, place, reg, regType>>
  BY DEF AppendGrow, Inv, Cells, NewCells
<1>3. /\ SliceOK(own, slices[u]) /\ SliceLengths(slices[u])
      /\ SliceOK(own, slices[w]) /\ SliceLengths(slices[w])
  BY <1>1, SliceNumbers DEF Pointing
<1>4. /\ a \in Nat /\ b \in Nat /\ n \in Nat /\ k \in Nat /\ n \in 0 .. k
      /\ a <= Len(slices[u].cells) /\ b <= Len(slices[w].cells)
      /\ IsSeq(slices[u].cells) /\ IsSeq(slices[w].cells)
  BY <1>3 DEF SliceLengths
<1>5. /\ IsSeq(before) /\ Len(before) = a /\ \A i \in 1 .. a : before[i] = slices[u].cells[i]
      /\ IsSeq(added) /\ Len(added) = b /\ \A i \in 1 .. b : added[i] = slices[w].cells[i]
  <2> HIDE DEF a, b
  <2>1. 1 \in Nat \ {0} /\ 1 <= a + 1 /\ 1 <= b + 1 /\ a - 1 + 1 = a /\ b - 1 + 1 = b
    BY <1>4
  <2>2. /\ IsSeq(before) /\ Len(before) = a /\ \A i \in 1 .. a : before[i] = slices[u].cells[1 + i - 1]
    BY <1>4, <2>1, SubSeqIs
  <2>3. /\ IsSeq(added) /\ Len(added) = b /\ \A i \in 1 .. b : added[i] = slices[w].cells[1 + i - 1]
    BY <1>4, <2>1, SubSeqIs
  <2>4. \A i \in 1 .. a : 1 + i - 1 = i
    BY <1>4
  <2>5. \A i \in 1 .. b : 1 + i - 1 = i
    BY <1>4
  <2> HIDE DEF before, added
  <2> QED BY <2>2, <2>3, <2>4, <2>5
<1>6. ASSUME NEW i \in 1 .. n
      PROVE  /\ heap[from[i]].tag # "agg"
             /\ i <= a => from[i] = slices[u].cells[i]
             /\ \A j \in 1 .. b : i = a + j => from[i] = slices[w].cells[j]
  <2> HIDE DEF a, b
  <2>1. CASE i <= a
    <3>1. i \in 1 .. a /\ i \in 1 .. Len(slices[u].cells)
      BY <1>4, <2>1, <1>3 DEF SliceLengths
    <3>2. from[i] = slices[u].cells[i]
      <4> HIDE DEF before, added
      <4> QED BY <1>5, <3>1, ConcatIs
    <3>3. \A j \in 1 .. b : i # a + j
      BY <1>4, <2>1
    <3> HIDE DEF from
    <3> QED BY <1>1, <1>2, <1>3, <3>1, <3>2, <3>3, SliceScalars
  <2>2. CASE ~(i <= a)
    <3>1. PICK j : j = i - a
      OBVIOUS
    <3>2. j \in 1 .. b /\ j \in 1 .. Len(slices[w].cells) /\ i = a + j
      BY <1>4, <2>2, <3>1, <1>3 DEF SliceLengths
    <3>3. from[i] = slices[w].cells[j]
      <4> HIDE DEF before, added
      <4> QED BY <1>5, <3>2, ConcatIs
    <3>4. \A t \in 1 .. b : i = a + t => t = j
      BY <1>4, <3>2
    <3> HIDE DEF from
    <3> QED BY <1>1, <1>2, <1>3, <2>2, <3>2, <3>3, <3>4, SliceScalars
  <2> QED BY <2>1, <2>2
<1> HIDE DEF from
<1>7. \A i \in 1 .. k : cells[i].tag # "agg"
  <2> HIDE DEF n, k
  <2> SUFFICES ASSUME NEW i \in 1 .. k PROVE cells[i].tag # "agg"
    OBVIOUS
  <2>1. CASE i <= n
    <3>1. i \in 1 .. n
      BY <1>4, <2>1
    <3> QED BY <2>1, <3>1, <1>6
  <2>2. CASE ~(i <= n)
    BY <2>2 DEF Nil
  <2> QED BY <2>1, <2>2
<1>8. IsSeq(cells) /\ Len(cells) = k /\ cells = [i \in 1 .. k |-> IF i <= n THEN heap[from[i]] ELSE Nil]
  <2> HIDE DEF n, k
  <2>1. IsSeq(cells)
    BY <1>4 DEF IsSeq
  <2> QED BY <1>4, <2>1
<1> HIDE DEF cells, k
<1>9. DOMAIN NewCells(k) = 1 .. k /\ \A i \in 1 .. k : NewCells(k)[i] = Len(heap) + i
  BY DEF NewCells
<1>10. typeOf' = Typed(NewSlots(k), {})
  <2>1. {NewCells(k)[i] : i \in DOMAIN NewCells(k)} = NewSlots(k)
    BY <1>9 DEF NewSlots
  <2> QED BY <1>2, <2>1
<1>11. slices' = [slices EXCEPT ![v] = Fresh(k, n)]
  <2>1. [i \in DOMAIN NewCells(k) |-> NewSpot(NewCells(k)[i])] = [i \in 1 .. k |-> NewSpot(Len(heap) + i)]
    BY <1>9
  <2> QED BY <1>2, <2>1 DEF Fresh
<1>12. Extends(v, cells, k, n)
  BY <1>2, <1>4, <1>7, <1>8, <1>10, <1>11 DEF Extends
<1>13. n > Len(slices[u].cells)
  BY DEF AppendGrow
<1>14. ASSUME NEW i \in 1 .. a PROVE cells[i] = heap[slices[u].cells[i]]
  <2> HIDE DEF a, b
  <2>1. i \in 1 .. k /\ i <= n /\ i \in 1 .. n /\ i <= a
    BY <1>4
  <2>2. from[i] = slices[u].cells[i]
    BY <1>6, <2>1
  <2> HIDE DEF n
  <2> QED BY <1>8, <2>1, <2>2
<1>15. ASSUME NEW i \in 1 .. b PROVE cells[a + i] = heap[slices[w].cells[i]]
  <2> HIDE DEF a, b
  <2>1. PICK j : j = a + i
    OBVIOUS
  <2>2. j \in 1 .. k /\ j <= n /\ j \in 1 .. n
    BY <1>4, <2>1
  <2>3. from[j] = slices[w].cells[i]
    BY <1>6, <2>1, <2>2
  <2> HIDE DEF n
  <2> QED BY <1>8, <2>1, <2>2, <2>3
<1>16. ASSUME NEW i \in 1 .. k, i > n PROVE cells[i] = Nil
  <2>1. ~(i <= n)
    BY <1>4, <1>16
  <2> HIDE DEF n
  <2> QED BY <1>8, <2>1
<1> QED BY <1>12, <1>13, <1>14, <1>15, <1>16

\* It keeps the invariant.
LEMMA AppendGrowKeeps ==
  ASSUME Inv, Elem = {}, NEW v \in SliceVars, NEW u \in SliceVars, NEW w \in SliceVars,
         NEW spare \in Nat, AppendGrow(v, u, w, spare)
  PROVE  Inv'
BY AppendGrowIs, ExtendsKeeps

\* MakeSlice of visitInstr, of scalars: the new slots hold zero.
LEMMA MakeSliceIs ==
  ASSUME Inv, Elem = {}, NEW v \in SliceVars, NEW n \in Nat, NEW k \in Nat, MakeSlice(v, n, k)
  PROVE  \E cells : Extends(v, cells, k, n) /\ \A i \in 1 .. k : cells[i] = Num(0)
<1>1. Cardinality(Elem) = 0 /\ 1 + Cardinality(Elem) = 1
  BY FS_EmptySet
<1> DEFINE slot(i) == NextCell + (i - 1) * (1 + Cardinality(Elem))
           cells == [j \in 1 .. k * (1 + Cardinality(Elem)) |->
                       IF (j - 1) % (1 + Cardinality(Elem)) = 0
                       THEN Zero(Elem, slot(((j - 1) \div (1 + Cardinality(Elem))) + 1))
                       ELSE ZeroCells(Elem, slot(((j - 1) \div (1 + Cardinality(Elem))) + 1))
                              [(j - 1) % (1 + Cardinality(Elem))]]
<1>2. /\ n <= k /\ heap' = heap \o cells /\ typeOf' = Typed({slot(i) : i \in 1 .. k}, Elem)
      /\ slices' = [slices EXCEPT ![v] =
                      [cells |-> [i \in 1 .. k |-> slot(i)], len |-> n,
                       spots |-> [i \in 1 .. k |-> NewSpot(slot(i))]]]
      /\ UNCHANGED <<ptr, place, reg, regType>>
  BY DEF MakeSlice
<1>3. Len(heap) \in Nat
  BY SeqIs DEF Inv, Scope
<1>4. \A i \in 1 .. k : slot(i) = Len(heap) + i
  BY <1>1, <1>3 DEF NextCell
<1>5. \A base : Zero(Elem, base) = Num(0)
  <2>1. Sub({}, <<>>) = {}
    BY DEF Sub
  <2>2. Width(Sub({}, <<>>)) = 0
    <3>1. {q \in {} : Len(q) = 1} = {}
      OBVIOUS
    <3> QED BY <2>1, <3>1, FS_EmptySet DEF Width
  <2> QED BY <2>2 DEF Zero, PartAt
<1>6. IsSeq(cells) /\ Len(cells) = k /\ \A i \in 1 .. k : cells[i] = Num(0) /\ cells[i].tag # "agg"
  <2>1. k * (1 + Cardinality(Elem)) = k
    BY <1>1
  <2>2. \A j \in 1 .. k : (j - 1) % (1 + Cardinality(Elem)) = 0
    <3>1. \A j \in 1 .. k : (j - 1) % 1 = 0
      OBVIOUS
    <3> QED BY <1>1, <3>1
  <2> HIDE DEF slot
  <2>3. DOMAIN cells = 1 .. k /\ cells = [i \in 1 .. k |-> cells[i]]
    BY <2>1
  <2>4. \A i \in 1 .. k : cells[i] = Num(0)
    BY <1>5, <2>1, <2>2
  <2>6. Num(0).tag # "agg"
    BY DEF Num
  <2> HIDE DEF cells
  <2>5. IsSeq(cells)
    BY <2>3 DEF IsSeq
  <2> QED BY <2>3, <2>4, <2>5, <2>6
<1> HIDE DEF cells
<1>7. typeOf' = Typed(NewSlots(k), {})
  <2>1. {slot(i) : i \in 1 .. k} = NewSlots(k)
    <3> HIDE DEF slot
    <3> QED BY <1>4 DEF NewSlots
  <2> QED BY <1>2, <2>1
<1>8. slices' = [slices EXCEPT ![v] = Fresh(k, n)]
  <2>1. [i \in 1 .. k |-> slot(i)] = [i \in 1 .. k |-> Len(heap) + i]
        /\ [i \in 1 .. k |-> NewSpot(slot(i))] = [i \in 1 .. k |-> NewSpot(Len(heap) + i)]
    <3> HIDE DEF slot
    <3> QED BY <1>4
  <2> QED BY <1>2, <2>1 DEF Fresh, NewCells
<1>9. n \in 0 .. k
  BY <1>2
<1>10. Extends(v, cells, k, n)
  BY <1>2, <1>6, <1>7, <1>8, <1>9 DEF Extends
<1> QED BY <1>6, <1>10

\* It keeps the invariant.
LEMMA MakeSliceKeeps ==
  ASSUME Inv, Elem = {}, NEW v \in SliceVars, NEW n \in Nat, NEW k \in Nat, MakeSlice(v, n, k)
  PROVE  Inv'
BY MakeSliceIs, ExtendsKeeps

-----------------------------------------------------------------------------
\* The pointer ---------------------------------------------------------------------

\* The type of a part of a part.
LEMMA SubOfSub ==
  ASSUME NEW T, T \subseteq Path, NEW p \in Path, NEW q \in Path
  PROVE  Sub(Sub(T, p), q) = Sub(T, p \o q)
<1>1. Sub(T, p) = {s \in Path : s # <<>> /\ p \o s \in T} /\ Sub(T, p) \subseteq Path
  BY SubIs
<1>2. Sub(Sub(T, p), q) = {s \in Path : s # <<>> /\ q \o s \in Sub(T, p)}
  BY <1>1, SubIs
<1>3. p \o q \in Path
  BY Joined
<1>4. Sub(T, p \o q) = {s \in Path : s # <<>> /\ (p \o q) \o s \in T}
  BY <1>3, SubIs
<1>5. ASSUME NEW s \in Path, s # <<>>
      PROVE  q \o s \in Sub(T, p) <=> (p \o q) \o s \in T
  <2>1. q \o s \in Path /\ q \o s # <<>>
    BY <1>5, Joined
  <2>2. p \o (q \o s) = (p \o q) \o s
    BY ConcatAssociative DEF Path
  <2> QED BY <1>1, <2>1, <2>2
<1> QED BY <1>2, <1>4, <1>5

\* The spot of a part of what is at a spot.
Below(s, i) == [obj |-> s.obj, path |-> Append(s.path, i)]

\* The slots in the aggregate at a spot are the parts of that spot.
LEMMA PartSpot ==
  ASSUME Scope, NEW own, NEW rl, Separate(own, rl), NEW s, IsSpot(s),
         heap[At(own, s)].tag = "agg", NEW i, i \in DOMAIN heap[At(own, s)].cells
  PROVE  /\ IsSpot(Below(s, i)) /\ heap[At(own, s)].cells[i] = At(own, Below(s, i))
         /\ Sub(typeOf[Below(s, i).obj], Below(s, i).path) = Sub(Sub(typeOf[s.obj], s.path), <<i>>)
<1>x. PICK x : x = heap[At(own, s)]
  OBVIOUS
<1>t. PICK t : t = Below(s, i)
  OBVIOUS
<1>a. PICK T : T = typeOf[s.obj]
  OBVIOUS
<1>b. PICK p : p = s.path
  OBVIOUS
<1>c. PICK S : S = Sub(T, p)
  OBVIOUS
<1>0. T = typeOf[s.obj] /\ p = s.path /\ S = Sub(T, p)
  BY <1>a, <1>b, <1>c
<1>1. PICK M : IsTree(x, S, M, heap) /\ \A r \in S : M[r] = own[s.obj][p \o r]
  <2>1. \E M : /\ IsTree(heap[At(own, s)], Sub(typeOf[s.obj], s.path), M, heap)
               /\ \A r \in Sub(typeOf[s.obj], s.path) : M[r] = own[s.obj][s.path \o r]
    BY SpotTree
  <2> QED BY ONLY <1>a, <1>b, <1>c, <1>x, <2>1
<1>2. s.obj \in DOMAIN typeOf /\ p \in Path /\ T \subseteq Path
  <2>1. s.obj \in DOMAIN typeOf /\ p \in T \cup {<<>>}
    BY <1>0 DEF IsSpot
  <2>2. Formed(T)
    BY <1>0, <2>1 DEF Scope
  <2> QED BY <2>1, <2>2, EmptySeq DEF Formed, Path
<1>3. t.obj = s.obj /\ t.path = Append(p, i) /\ t = [obj |-> t.obj, path |-> t.path]
  BY <1>0, <1>t DEF Below
<1>4. Kids(S, <<>>) = DOMAIN x.cells /\ x.cells[i] = M[Append(<<>>, i)]
  BY <1>1, <1>x DEF IsTree, Node
<1>5. i \in Place /\ Append(<<>>, i) \in S
  BY <1>4, <1>x DEF Kids
<1>6. <<>> \in Path /\ <<i>> \in Path /\ Append(<<>>, i) = <<i>>
  BY <1>5, EmptySeq DEF Path
<1>7. p \o <<i>> = Append(p, i) /\ Append(p, i) # <<>> /\ Append(p, i) \in Path
  BY <1>2, <1>5, AppendIsConcat, AppendProperties DEF Path
<1>8. S = {r \in Path : r # <<>> /\ p \o r \in T}
  BY <1>0, <1>2, SubIs
<1>9. Append(p, i) \in T
  BY <1>5, <1>6, <1>7, <1>8
<1>10. x.cells[i] = own[s.obj][Append(p, i)]
  BY <1>1, <1>4, <1>5, <1>6, <1>7
<1>11. IsSpot(t)
  BY <1>0, <1>2, <1>3, <1>9 DEF IsSpot
<1>12. At(own, t) = own[s.obj][Append(p, i)]
  BY <1>3, <1>7 DEF At
<1>13. Sub(S, <<i>>) = Sub(T, Append(p, i))
  <2>1. Sub(Sub(T, p), <<i>>) = Sub(T, p \o <<i>>)
    BY <1>2, <1>6, SubOfSub
  <2> QED BY <1>0, <1>7, <2>1
<1> QED BY <1>x, <1>t, <1>0, <1>3, <1>10, <1>11, <1>12, <1>13

\* What all steps have in common that only move the pointer.
LEMMA PointerStep ==
  ASSUME Inv, UNCHANGED <<heap, typeOf, reg, regType, slices>>,
         \A own, rl : Separate(own, rl) /\ Pointing(own) => IsSpot(place') /\ ptr' = At(own, place')
  PROVE  Inv'
<1>1. PICK own, rl : Separate(own, rl) /\ Pointing(own)
  BY DEF Inv
<1>2. Scope' /\ (Separate(own, rl))'
  <2>1. Scope
    BY DEF Inv
  <2> QED BY <1>1, <2>1, MemoryStays
<1>3. IsSpot(place') /\ ptr' = At(own, place')
  BY <1>1
<1>4. (IsSpot(place) /\ ptr = At(own, place))'
  BY <1>3 DEF IsSpot, At
<1>5. ASSUME NEW v \in SliceVars PROVE (SliceOK(own, slices[v]))'
  <2>1. SliceOK(own, slices[v])
    BY <1>1 DEF Pointing
  <2> QED BY <2>1 DEF SliceOK, IsSpot
<1>6. slices' = [v \in SliceVars |-> slices'[v]]
  BY <1>1 DEF Pointing
<1>7. (Pointing(own))'
  BY <1>4, <1>5, <1>6 DEF Pointing
<1> QED BY <1>2, <1>7 DEF Inv

\* A pointer to a variable.
LEMMA UseVarKeeps ==
  ASSUME Inv, NEW o \in DOMAIN typeOf, UseVar(o)
  PROVE  Inv'
<1>1. /\ UNCHANGED <<heap, typeOf, reg, regType, slices>>
      /\ ptr' = o /\ place' = [obj |-> o, path |-> <<>>]
  BY DEF UseVar, NewSpot
<1>2. \A own : IsSpot(place') /\ ptr' = At(own, place')
  BY <1>1 DEF IsSpot, At
<1> QED BY <1>1, <1>2, PointerStep

\* FieldAddr, and IndexAddr of an array: the pointer moves to a part.
LEMMA FieldAddrKeeps ==
  ASSUME Inv, NEW i, FieldAddr(i)
  PROVE  Inv'
<1>1. /\ ptr # 0 /\ heap[ptr].tag = "agg" /\ i \in DOMAIN heap[ptr].cells
      /\ ptr' = heap[ptr].cells[i] /\ place' = [place EXCEPT !.path = Append(@, i)]
      /\ UNCHANGED <<heap, typeOf, reg, regType, slices>>
  BY DEF FieldAddr
<1>2. ASSUME NEW own, NEW rl, Separate(own, rl), Pointing(own)
      PROVE  IsSpot(place') /\ ptr' = At(own, place')
  <2>1. Scope /\ IsSpot(place) /\ ptr = At(own, place)
    BY <1>1, <1>2 DEF Inv, Pointing
  <2>2. heap[At(own, place)].tag = "agg" /\ i \in DOMAIN heap[At(own, place)].cells
    BY <1>1, <2>1
  <2>3. IsSpot(Below(place, i)) /\ heap[At(own, place)].cells[i] = At(own, Below(place, i))
    BY <1>2, <2>1, <2>2, PartSpot
  <2>4. place' = Below(place, i)
    <3>1. place = [obj |-> place.obj, path |-> place.path]
      BY <2>1 DEF IsSpot
    <3> QED BY <1>1, <3>1 DEF Below
  <2> QED BY <1>1, <2>1, <2>3, <2>4
<1> QED BY <1>1, <1>2, PointerStep

\* IndexAddr of a slice: the pointer moves to an element.
LEMMA IndexAddrKeeps ==
  ASSUME Inv, NEW v \in SliceVars, NEW i, IndexAddr(v, i)
  PROVE  Inv'
<1>1. /\ i \in 1 .. slices[v].len /\ ptr' = slices[v].cells[i] /\ place' = slices[v].spots[i]
      /\ UNCHANGED <<heap, typeOf, reg, regType, slices>>
  BY DEF IndexAddr
<1>2. ASSUME NEW own, NEW rl, Separate(own, rl), Pointing(own)
      PROVE  IsSpot(place') /\ ptr' = At(own, place')
  <2>1. SliceOK(own, slices[v]) /\ SliceLengths(slices[v])
    BY <1>2, SliceNumbers DEF Pointing
  <2>2. i \in 1 .. Len(slices[v].cells)
    BY <1>1, <2>1 DEF SliceLengths
  <2> QED BY <1>1, <2>1, <2>2 DEF SliceOK
<1> QED BY <1>1, <1>2, PointerStep

\* A slice of an array has the array's parts.
LEMMA SliceArrayKeeps ==
  ASSUME Inv, NEW v \in SliceVars, SliceArray(v)
  PROVE  Inv'
<1> DEFINE cells == heap[ptr].cells
           n == Len(cells)
<1>0. PICK x : x = [cells |-> cells, len |-> n,
                    spots |-> [i \in 1 .. n |-> [place EXCEPT !.path = Append(@, i)]]]
  OBVIOUS
<1>1. /\ ptr # 0 /\ heap[ptr].tag = "agg"
      /\ \A i \in DOMAIN cells : Sub(Sub(typeOf[place.obj], place.path), <<i>>) = Elem
      /\ slices' = [slices EXCEPT ![v] = x]
      /\ UNCHANGED <<heap, typeOf, ptr, place, reg, regType>>
  BY <1>0 DEF SliceArray, PtrType
<1>2. Scope
  BY DEF Inv
<1>3. ASSUME NEW own, NEW rl, Separate(own, rl), Pointing(own) PROVE SliceOK(own, x)
  <2>1. IsSpot(place) /\ ptr = At(own, place)
    BY <1>1, <1>3 DEF Pointing
  <2>2. PICK S, M : S = Sub(typeOf[place.obj], place.path) /\ Formed(S) /\ IsTree(heap[ptr], S, M, heap)
    BY <1>2, <1>3, <2>1, SpotTree
  <2>3. cells = [i \in DOMAIN cells |-> cells[i]] /\ DOMAIN cells = Kids(S, <<>>)
    <3>1. heap[ptr].tag = "agg"
      BY <1>1
    <3> QED BY <2>2, <3>1 DEF IsTree, Node
  <2>4. PICK w \in Nat : Kids(S, <<>>) = 1 .. w
    <3>1. <<>> \in Path
      BY EmptySeq DEF Path
    <3> QED BY <2>2, <3>1, KidsNumbered
  <2>5. cells = [i \in 1 .. w |-> cells[i]] /\ IsSeq(cells)
    <3> HIDE DEF cells
    <3> QED BY <2>3, <2>4 DEF IsSeq
  <2>6. n = w /\ n \in Nat /\ DOMAIN cells = 1 .. n
    <3> HIDE DEF cells
    <3> QED BY <2>3, <2>4, <2>5
  <2>7. /\ x = [cells |-> x.cells, len |-> x.len, spots |-> x.spots] /\ x.cells = cells /\ x.len = n
        /\ x.spots = [i \in 1 .. n |-> [place EXCEPT !.path = Append(@, i)]]
    BY <1>0
  <2> HIDE DEF n
  <2>8. IsSeq(x.spots) /\ Len(x.spots) = n
    <3>1. DOMAIN x.spots = 1 .. n /\ x.spots = [i \in 1 .. n |-> x.spots[i]]
      BY <2>7
    <3>2. IsSeq(x.spots)
      BY <2>6, <3>1 DEF IsSeq
    <3> QED BY <2>6, <3>1, <3>2
  <2>9. ASSUME NEW i \in 1 .. n
        PROVE  /\ IsSpot(x.spots[i]) /\ x.cells[i] = At(own, x.spots[i])
               /\ Sub(typeOf[x.spots[i].obj], x.spots[i].path) = Elem
    <3>1. /\ IsSpot(Below(place, i)) /\ heap[At(own, place)].cells[i] = At(own, Below(place, i))
          /\ Sub(typeOf[Below(place, i).obj], Below(place, i).path) = Sub(Sub(typeOf[place.obj], place.path), <<i>>)
      <4>1. heap[At(own, place)].tag = "agg" /\ i \in DOMAIN heap[At(own, place)].cells
        BY <1>1, <2>1, <2>6
      <4> QED BY <1>2, <1>3, <2>1, <4>1, PartSpot
    <3>2. i \in DOMAIN cells
      BY <2>6
    <3>3. x.spots[i] = [place EXCEPT !.path = Append(@, i)]
      BY <2>7
    <3>4. PICK t : t = Below(place, i)
      OBVIOUS
    <3>5. /\ IsSpot(t) /\ cells[i] = At(own, t)
          /\ Sub(typeOf[t.obj], t.path) = Sub(Sub(typeOf[place.obj], place.path), <<i>>)
      BY <2>1, <3>1, <3>4
    <3>6. x.spots[i] = t /\ x.cells[i] = cells[i]
      <4>1. place = [obj |-> place.obj, path |-> place.path]
        BY <2>1 DEF IsSpot
      <4> QED BY <2>7, <3>3, <3>4, <4>1 DEF Below
    <3>7. Sub(Sub(typeOf[place.obj], place.path), <<i>>) = Elem
      BY <1>1, <3>2
    <3> QED BY <3>5, <3>6, <3>7
  <2>10. x.len \in 0 .. Len(x.cells) /\ Len(x.cells) = n
    BY <2>6, <2>7 DEF n
  <2> QED BY <2>5, <2>7, <2>8, <2>9, <2>10 DEF SliceOK
<1>4. PICK own, rl : Separate(own, rl) /\ Pointing(own)
  BY DEF Inv
<1>5. Scope' /\ (Separate(own, rl))' /\ Stay(own, own, {})
  BY <1>1, <1>2, <1>4, MemoryStays
<1>6. (SliceOK(own, x))'
  BY <1>3, <1>4, <1>5, SliceStays
<1>7. /\ slices' = [u \in SliceVars |-> slices'[u]]
      /\ \A u \in SliceVars : slices'[u] = slices[u] \/ (SliceOK(own, slices[u]))'
  BY <1>1, <1>4, <1>5, <1>6, NewSlice
<1>8. /\ (ptr # 0 => IsSpot(place) /\ ptr = At(own, place))'
      /\ \A u \in SliceVars : (SliceOK(own, slices[u]))' \/ slices'[u] # slices[u]
  BY <1>1, <1>4, <1>5, SlicesStay
<1>9. (Pointing(own))'
  <2>1. \A u \in SliceVars : (SliceOK(own, slices[u]))'
    BY <1>7, <1>8
  <2> QED BY <1>7, <1>8, <2>1 DEF Pointing
<1> QED BY <1>5, <1>9 DEF Inv

-----------------------------------------------------------------------------
\* The register --------------------------------------------------------------------

\* What all steps have in common that give the register a value, in slots that no
\* variable has.
LEMMA RegisterStep ==
  ASSUME Inv, UNCHANGED <<typeOf, ptr, place, slices>>,
         IsSeq(heap'), DOMAIN heap \subseteq DOMAIN heap', \A c \in DOMAIN heap : Same(heap[c], heap'[c]),
         Formed(regType'),
         \A own, rl : Separate(own, rl) /\ Pointing(own) =>
           \E new : /\ IsTree(reg', regType', new, heap')
                    /\ \A r \in regType' :
                         /\ new[r] \notin DOMAIN typeOf
                         /\ \A o \in DOMAIN typeOf : \A q \in typeOf[o] : own[o][q] # new[r]
  PROVE  Inv'
<1>1. PICK own, rl : Separate(own, rl) /\ Pointing(own)
  BY DEF Inv
<1>2. PICK new : /\ IsTree(reg', regType', new, heap')
                 /\ \A r \in regType' :
                      /\ new[r] \notin DOMAIN typeOf
                      /\ \A o \in DOMAIN typeOf : \A q \in typeOf[o] : own[o][q] # new[r]
  BY <1>1
<1>3. Scope'
  BY DEF Inv, Scope
<1>4. ASSUME NEW o \in DOMAIN typeOf PROVE IsTree(heap'[o], typeOf[o], own[o], heap')
  <2>1. IsTree(heap[o], typeOf[o], own[o], heap) /\ o \in DOMAIN heap
    BY <1>1 DEF Separate, Inv, Scope
  <2>2. \A q \in typeOf[o] : own[o][q] \in DOMAIN heap
    BY <2>1 DEF IsTree
  <2> QED BY <2>1, <2>2, TreeKept
<1>5. (Separate(own, new))'
  <2>1. \A o \in DOMAIN typeOf : \A q \in typeOf[o] :
          /\ own[o][q] \notin DOMAIN typeOf
          /\ \A p \in DOMAIN typeOf \ {o} : \A r \in typeOf[p] : own[o][q] # own[p][r]
    BY <1>1 DEF Separate
  <2> QED BY <1>2, <1>4, <2>1 DEF Separate
<1>6. (Pointing(own))'
  <2>1. ASSUME NEW v \in SliceVars PROVE (SliceOK(own, slices[v]))'
    <3>1. SliceOK(own, slices[v])
      BY <1>1 DEF Pointing
    <3> QED BY <3>1 DEF SliceOK, IsSpot
  <2>2. (ptr # 0 => IsSpot(place) /\ ptr = At(own, place))'
    BY <1>1 DEF Pointing, IsSpot, At
  <2>3. slices' = [v \in SliceVars |-> slices'[v]]
    BY <1>1 DEF Pointing
  <2> QED BY <2>1, <2>2, <2>3 DEF Pointing
<1> QED BY <1>3, <1>5, <1>6 DEF Inv

\* The scalar type is formed and has no parts.
LEMMA EmptyFormed == Formed({}) /\ \A q : Kids({}, q) = {}
BY FS_EmptySet DEF Formed, Kids

\* A constant in the register has no slots.
LEMMA ConstKeeps ==
  ASSUME Inv, NEW n, Const(n)
  PROVE  Inv'
<1>1. reg' = Num(n) /\ regType' = {} /\ UNCHANGED <<heap, typeOf, ptr, place, slices>>
  BY DEF Const
<1>2. IsTree(reg', {}, [q \in {} |-> 0], heap')
  BY <1>1, ScalarTree DEF Num
<1>3. IsSeq(heap') /\ DOMAIN heap = DOMAIN heap' /\ \A c \in DOMAIN heap : Same(heap[c], heap'[c])
  BY <1>1 DEF Inv, Scope, Same
<1> QED BY <1>1, <1>2, <1>3, EmptyFormed, RegisterStep

\* A part of the value in the register has slots of the register.
LEMMA FieldKeeps ==
  ASSUME Inv, NEW i, Field(i)
  PROVE  Inv'
<1>1. /\ reg.tag = "agg" /\ i \in DOMAIN reg.cells /\ reg' = heap[reg.cells[i]]
      /\ regType' = Sub(regType, <<i>>) /\ UNCHANGED <<heap, typeOf, ptr, place, slices>>
  BY DEF Field
<1>2. Formed(regType) /\ regType \subseteq Path
  BY DEF Inv, Scope, Formed
<1>3. IsSeq(heap') /\ DOMAIN heap = DOMAIN heap' /\ \A c \in DOMAIN heap : Same(heap[c], heap'[c])
  BY <1>1 DEF Inv, Scope, Same
<1>4. ASSUME NEW own, NEW rl, Separate(own, rl)
      PROVE  /\ i \in Place /\ <<i>> \in Path
             /\ \E new : /\ IsTree(reg', regType', new, heap')
                         /\ \A r \in regType' :
                              /\ new[r] \notin DOMAIN typeOf
                              /\ \A o \in DOMAIN typeOf : \A q \in typeOf[o] : own[o][q] # new[r]
  <2>1. IsTree(reg, regType, rl, heap)
    BY <1>4 DEF Separate
  <2>2. Kids(regType, <<>>) = DOMAIN reg.cells /\ reg.cells[i] = rl[Append(<<>>, i)]
    BY <1>1, <2>1 DEF IsTree, Node
  <2>3. i \in Place /\ Append(<<>>, i) \in regType
    BY <1>1, <2>2 DEF Kids
  <2>4. <<i>> \in Path /\ Append(<<>>, i) = <<i>> /\ <<i>> # <<>>
    BY <2>3, EmptySeq DEF Path
  <2>5. PICK p : p = <<i>>
    OBVIOUS
  <2>6. p \in regType \cup {<<>>} /\ p # <<>> /\ p \in Path /\ reg.cells[i] = rl[p]
    BY <2>2, <2>3, <2>4, <2>5
  <2>7. IsTree(heap[rl[p]], Sub(regType, p), [s \in Sub(regType, p) |-> rl[p \o s]], heap)
    <3>1. IsTree(IF p = <<>> THEN reg ELSE heap[rl[p]], Sub(regType, p),
                 [s \in Sub(regType, p) |-> rl[p \o s]], heap)
      BY <1>2, <2>1, <2>6, TreeAt
    <3> QED BY <2>6, <3>1
  <2>8. ASSUME NEW r \in Sub(regType, p)
        PROVE  /\ rl[p \o r] \notin DOMAIN typeOf
               /\ \A o \in DOMAIN typeOf : \A q \in typeOf[o] : own[o][q] # rl[p \o r]
    <3>1. p \o r \in regType
      BY <1>2, <2>6, SubIs
    <3> QED BY <1>4, <3>1 DEF Separate
  <2>9. PICK new : new = [s \in Sub(regType, p) |-> rl[p \o s]]
    OBVIOUS
  <2>10. /\ IsTree(reg', regType', new, heap') /\ regType' = Sub(regType, p)
    BY <1>1, <2>5, <2>6, <2>7, <2>9
  <2>11. \A r \in Sub(regType, p) : new[r] = rl[p \o r]
    BY <2>9
  <2> QED BY <2>3, <2>4, <2>8, <2>10, <2>11
<1>5. Formed(regType')
  <2>1. <<i>> \in Path
    BY <1>4 DEF Inv
  <2> QED BY <1>1, <1>2, <2>1, SubFormed
<1> QED BY <1>1, <1>3, <1>4, <1>5, RegisterStep

\* The slots that load allocates, for an aggregate.
LEMMA LoadedSlots ==
  ASSUME Scope, NEW T, T = PtrType, T # {}, Formed(T), Load
  PROVE  /\ reg' = Zero(T, Len(heap)) /\ IsSeq(heap') /\ DOMAIN heap \subseteq DOMAIN heap'
         /\ \A c \in DOMAIN heap : heap'[c] = heap[c]
         /\ \A q \in T : /\ Len(heap) + Number(T)[q] \in DOMAIN heap' \ DOMAIN heap
                         /\ heap'[Len(heap) + Number(T)[q]]
                              = IF q \in Leaves(T) THEN Part(heap[ptr], q) ELSE PartAt(T, Len(heap), q)
         /\ \A c \in DOMAIN heap' \ DOMAIN heap : \E q \in T : c = Len(heap) + Number(T)[q]
<1> DEFINE base == Len(heap)
           cells == [k \in 1 .. Cardinality(T) |->
                       IF PathOf(T, k) \in Leaves(T) THEN Part(heap[ptr], PathOf(T, k))
                       ELSE PartAt(T, base, PathOf(T, k))]
<1>1. reg' = Zero(T, base) /\ heap' = heap \o cells
  BY DEF Load
<1>2. Len(heap) \in Nat /\ DOMAIN heap = 1 .. Len(heap) /\ IsSeq(heap)
  BY SeqIs DEF Scope
<1>3. /\ Cardinality(T) \in Nat
      /\ Number(T) \in [T -> 1 .. Cardinality(T)]
      /\ \A q \in T : PathOf(T, Number(T)[q]) = q
      /\ \A k \in 1 .. Cardinality(T) : PathOf(T, k) \in T /\ Number(T)[PathOf(T, k)] = k
  BY NumberIs DEF Formed
<1>4. IsSeq(cells) /\ Len(cells) = Cardinality(T)
  <2>1. IsSeq(cells)
    BY <1>3 DEF IsSeq
  <2> QED BY <1>3, <2>1
<1>5. /\ IsSeq(heap') /\ DOMAIN heap' = 1 .. Len(heap) + Cardinality(T)
      /\ \A i \in 1 .. Len(heap) : heap'[i] = heap[i]
      /\ \A i \in 1 .. Cardinality(T) : heap'[Len(heap) + i] = cells[i]
  <2> HIDE DEF cells
  <2> QED BY <1>1, <1>2, <1>4, ConcatIs
<1>6. ASSUME NEW q \in T
      PROVE  /\ Len(heap) + Number(T)[q] \in DOMAIN heap' \ DOMAIN heap
             /\ heap'[Len(heap) + Number(T)[q]]
                  = IF q \in Leaves(T) THEN Part(heap[ptr], q) ELSE PartAt(T, Len(heap), q)
  <2>1. Number(T)[q] \in 1 .. Cardinality(T) /\ PathOf(T, Number(T)[q]) = q
    BY <1>3
  <2>2. Len(heap) + Number(T)[q] \in DOMAIN heap' \ DOMAIN heap
    BY <1>2, <1>3, <1>5, <2>1
  <2> QED BY <1>5, <2>1, <2>2
<1>7. ASSUME NEW c \in DOMAIN heap' \ DOMAIN heap PROVE \E q \in T : c = Len(heap) + Number(T)[q]
  <2>1. PICK k \in 1 .. Cardinality(T) : c = Len(heap) + k
    <3>1. c - Len(heap) \in 1 .. Cardinality(T) /\ c = Len(heap) + (c - Len(heap))
      BY <1>2, <1>3, <1>5
    <3> QED BY <3>1
  <2> QED BY <1>3, <2>1
<1> HIDE DEF cells
<1>8. DOMAIN heap \subseteq DOMAIN heap' /\ \A c \in DOMAIN heap : heap'[c] = heap[c]
  BY <1>2, <1>3, <1>5
<1> QED BY <1>1, <1>5, <1>6, <1>7, <1>8

\* They are those of what is in the register then.
LEMMA LoadedTree ==
  ASSUME Scope, NEW own, NEW rl, Separate(own, rl), Pointing(own), Load, NEW T, T = PtrType, T # {},
         NEW new, new = [q \in T |-> Len(heap) + Number(T)[q]]
  PROVE  IsTree(reg', T, new, heap')
<1>1. /\ ptr # 0 /\ IsSpot(place) /\ ptr = At(own, place) /\ T = Sub(typeOf[place.obj], place.path)
  BY DEF Pointing, Load, PtrType
<1>2. PICK M : Formed(T) /\ IsTree(heap[ptr], T, M, heap) /\ ptr \in DOMAIN heap
  BY <1>1, SpotTree
<1>3. PICK base : base = Len(heap) /\ base \in Nat
  BY SeqIs DEF Scope
<1>4. /\ reg' = Zero(T, base)
      /\ \A q \in T : /\ base + Number(T)[q] \in DOMAIN heap' \ DOMAIN heap
                      /\ heap'[base + Number(T)[q]]
                           = IF q \in Leaves(T) THEN Part(heap[ptr], q) ELSE PartAt(T, base, q)
  BY <1>2, <1>3, LoadedSlots
<1>5. ASSUME NEW q \in T
      PROVE  /\ base + Number(T)[q] \in DOMAIN heap'
             /\ \/ heap'[base + Number(T)[q]] = PartAt(T, base, q)
                \/ Kids(T, q) = {} /\ heap'[base + Number(T)[q]].tag # "agg"
  <2>1. ASSUME q \in Leaves(T) PROVE Kids(T, q) = {} /\ Part(heap[ptr], q).tag # "agg"
    <3>1. Kids(T, q) = {} /\ q \in T \cup {<<>>}
      BY <1>2, <2>1, LeafKids
    <3>2. PICK v : v = heap[ptr]
      OBVIOUS
    <3>3. IsTree(v, T, M, heap)
      BY <1>2, <3>2
    <3>4. Part(v, q) = IF q = <<>> THEN v ELSE heap[M[q]]
      BY <1>2, <3>1, <3>3, PartIs
    <3>5. (IF q = <<>> THEN v ELSE heap[M[q]]).tag # "agg"
      BY <3>1, <3>3, ScalarAt
    <3> QED BY <3>1, <3>2, <3>4, <3>5
  <2> QED BY <1>4, <2>1
<1>6. new = [q \in T |-> base + Number(T)[q]]
  BY <1>3
<1> QED BY <1>2, <1>3, <1>4, <1>5, <1>6, FreshTree

\* What is loaded is in slots of its own.
LEMMA LoadKeeps ==
  ASSUME Inv, Load
  PROVE  Inv'
<1>1. PICK own, rl : Separate(own, rl) /\ Pointing(own)
  BY DEF Inv
<1>2. PICK T : T = PtrType
  OBVIOUS
<1>3. /\ Scope /\ ptr # 0 /\ IsSpot(place) /\ ptr = At(own, place)
      /\ T = Sub(typeOf[place.obj], place.path) /\ regType' = T /\ UNCHANGED <<typeOf, ptr, place, slices>>
  BY <1>1, <1>2 DEF Inv, Pointing, Load, PtrType
<1>4. PICK M : Formed(T) /\ IsTree(heap[ptr], T, M, heap) /\ ptr \in DOMAIN heap
  BY <1>1, <1>3, SpotTree
<1>5. Len(heap) \in Nat /\ DOMAIN heap = 1 .. Len(heap) /\ IsSeq(heap)
  BY <1>3, SeqIs DEF Scope
<1>6. CASE T = {}
  <2>1. reg' = heap[ptr] /\ heap' = heap
    <3>1. ~(PtrType # {})
      BY <1>2, <1>6
    <3> QED BY <3>1 DEF Load
  <2>2. heap[ptr].tag # "agg"
    BY <1>4, <1>6, EmptyFormed DEF IsTree, Node
  <2>3. IsTree(reg', {}, [q \in {} |-> 0], heap')
    BY <2>1, <2>2, ScalarTree
  <2>4. IsSeq(heap') /\ DOMAIN heap = DOMAIN heap' /\ \A c \in DOMAIN heap : Same(heap[c], heap'[c])
    BY <2>1, <1>5 DEF Same
  <2> QED BY <1>3, <1>6, <2>3, <2>4, EmptyFormed, RegisterStep
<1>7. CASE T # {}
  <2>1. PICK base, new : base = Len(heap) /\ new = [q \in T |-> base + Number(T)[q]]
    OBVIOUS
  <2>2. /\ IsSeq(heap') /\ DOMAIN heap \subseteq DOMAIN heap'
        /\ \A c \in DOMAIN heap : heap'[c] = heap[c]
        /\ \A q \in T : base + Number(T)[q] \in DOMAIN heap' \ DOMAIN heap
    BY <1>2, <1>3, <1>4, <1>7, <2>1, LoadedSlots
  <2>3. IsTree(reg', T, new, heap')
    BY <1>1, <1>2, <1>3, <1>7, <2>1, LoadedTree
  <2>4. \A c \in DOMAIN heap : Same(heap[c], heap'[c])
    BY <2>2 DEF Same
  <2>5. \A r \in T : new[r] \notin DOMAIN heap
    BY <2>1, <2>2
  <2>6. ASSUME NEW mine, NEW rm, Separate(mine, rm), NEW r \in T
        PROVE  /\ new[r] \notin DOMAIN typeOf
               /\ \A o \in DOMAIN typeOf : \A q \in typeOf[o] : mine[o][q] # new[r]
    <3>1. \A o \in DOMAIN typeOf : \A q \in typeOf[o] : mine[o][q] \in DOMAIN heap
      BY <2>6 DEF Separate, IsTree
    <3>2. DOMAIN typeOf \subseteq DOMAIN heap
      BY <1>3 DEF Scope
    <3> QED BY <2>5, <3>1, <3>2
  <2> QED BY <1>3, <1>4, <2>2, <2>3, <2>4, <2>6, RegisterStep
<1> QED BY <1>6, <1>7

-----------------------------------------------------------------------------
\* Variables -----------------------------------------------------------------------

\* What both kinds of Alloc do: the slot o gets a zero value, whose parts are in new
\* slots, and no spot in use is in o.
Allocated(o, T, base) ==
  /\ base \in Nat /\ Len(heap) <= base
  /\ o \in DOMAIN heap' /\ (o \in DOMAIN heap => o \in DOMAIN typeOf) /\ o <= base
  /\ IsSeq(heap') /\ DOMAIN heap \subseteq DOMAIN heap' /\ \A c \in DOMAIN heap \ {o} : heap'[c] = heap[c]
  /\ heap'[o] = Zero(T, base)
  /\ \A q \in T : base + Number(T)[q] \in DOMAIN heap' /\ heap'[base + Number(T)[q]] = PartAt(T, base, q)
  /\ \A c \in DOMAIN heap' \ (DOMAIN heap \cup {o}) : \E q \in T : c = base + Number(T)[q]
  /\ typeOf' = Typed({o}, T) /\ UNCHANGED <<reg, regType, slices>>
  /\ \/ ptr' = o /\ place' = NewSpot(o)
     \/ ptr' = ptr /\ place' = place /\ place.obj # o
  /\ \A v \in SliceVars : \A i \in DOMAIN slices[v].spots : slices[v].spots[i].obj # o

\* Such a step keeps every slot with its owner.
LEMMA AllocStep ==
  ASSUME Inv, NEW T, Formed(T), NEW base, NEW o, Allocated(o, T, base)
  PROVE  Inv'
<1> USE DEF Allocated
<1>1. PICK own, rl : Separate(own, rl) /\ Pointing(own)
  BY DEF Inv
<1>2. Scope /\ Len(heap) \in Nat /\ DOMAIN heap = 1 .. Len(heap)
  BY SeqIs DEF Inv, Scope
<1>3. PICK mine : mine = [q \in T |-> base + Number(T)[q]]
  OBVIOUS
<1>4. PICK next : next = [p \in DOMAIN typeOf \cup {o} |-> IF p = o THEN mine ELSE own[p]]
  OBVIOUS
<1>5. /\ DOMAIN typeOf' = DOMAIN typeOf \cup {o} /\ typeOf'[o] = T /\ next[o] = mine
      /\ \A p \in DOMAIN typeOf \ {o} : typeOf'[p] = typeOf[p] /\ next[p] = own[p]
      /\ typeOf' = [p \in DOMAIN typeOf' |-> typeOf'[p]]
  BY <1>4 DEF Typed
<1>6. Scope'
  BY <1>2, <1>5 DEF Scope
<1>7. /\ Cardinality(T) \in Nat /\ Number(T) \in [T -> 1 .. Cardinality(T)]
  BY NumberIs DEF Formed
<1>8. \A q \in T : mine[q] \notin DOMAIN heap /\ mine[q] # o /\ mine[q] \in DOMAIN heap'
  <2> SUFFICES ASSUME NEW q \in T PROVE mine[q] \notin DOMAIN heap /\ mine[q] # o /\ mine[q] \in DOMAIN heap'
    OBVIOUS
  <2>1. Number(T)[q] \in Nat /\ Number(T)[q] >= 1 /\ mine[q] = base + Number(T)[q]
    BY <1>3, <1>7
  <2>2. o \in Nat
    <3>1. IsSeq(heap') /\ o \in DOMAIN heap'
      OBVIOUS
    <3>2. \A h : IsSeq(h) => Len(h) \in Nat /\ DOMAIN h = 1 .. Len(h)
      BY SeqIs
    <3> QED BY ONLY <3>1, <3>2
  <2>3. mine[q] \notin DOMAIN heap /\ mine[q] # o
    BY <1>2, <2>1, <2>2
  <2> QED BY <2>1, <2>3
<1>9. DOMAIN typeOf \subseteq DOMAIN heap
  BY <1>2 DEF Scope
<1>10. ASSUME NEW p \in DOMAIN typeOf, NEW q \in typeOf[p]
       PROVE  own[p][q] \in DOMAIN heap /\ own[p][q] # o /\ own[p][q] \notin DOMAIN typeOf
  <2>1. own[p][q] \in DOMAIN heap /\ own[p][q] \notin DOMAIN typeOf
    BY <1>1 DEF Separate, IsTree
  <2> QED BY <2>1
<1>11. ASSUME NEW r \in regType
       PROVE  rl[r] \in DOMAIN heap /\ rl[r] # o /\ rl[r] \notin DOMAIN typeOf
  <2>1. rl[r] \in DOMAIN heap /\ rl[r] \notin DOMAIN typeOf
    BY <1>1 DEF Separate, IsTree
  <2> QED BY <2>1
<1>12. \A x : Same(x, x)
  BY DEF Same
<1>13. ASSUME NEW p \in DOMAIN typeOf' PROVE IsTree(heap'[p], typeOf'[p], next[p], heap')
  <2>1. CASE p = o
    <3>1. IsTree(Zero(T, base), T, mine, heap')
      BY <1>3, FreshTree
    <3> QED BY <2>1, <3>1, <1>5
  <2>2. CASE p # o
    <3>1. p \in DOMAIN typeOf /\ p \in DOMAIN heap /\ heap'[p] = heap[p]
      BY <2>2, <1>5, <1>9
    <3>2. IsTree(heap[p], typeOf[p], own[p], heap)
      BY <1>1, <3>1 DEF Separate
    <3>3. \A q \in typeOf[p] : Same(heap[own[p][q]], heap'[own[p][q]])
      BY <1>10, <1>12, <3>1
    <3>4. IsTree(heap'[p], typeOf[p], own[p], heap')
      BY <1>12, <3>1, <3>2, <3>3, TreeKept
    <3> QED BY <2>2, <3>1, <3>4, <1>5
  <2> QED BY <2>1, <2>2
<1>14. IsTree(reg, regType, rl, heap')
  <2>1. IsTree(reg, regType, rl, heap)
    BY <1>1 DEF Separate
  <2>2. \A q \in regType : Same(heap[rl[q]], heap'[rl[q]])
    BY <1>11, <1>12
  <2> QED BY <1>12, <2>1, <2>2, TreeKept
<1>15. ASSUME NEW p \in DOMAIN typeOf', NEW q \in typeOf'[p]
       PROVE  /\ next[p][q] \notin DOMAIN typeOf'
              /\ \A r \in regType : next[p][q] # rl[r]
              /\ \A u \in DOMAIN typeOf' \ {p} : \A r \in typeOf'[u] : next[p][q] # next[u][r]
  <2>1. CASE p = o
    <3>1. next[p] = mine /\ q \in T /\ mine[q] \notin DOMAIN heap /\ mine[q] # o
      BY <2>1, <1>5, <1>8
    <3>2. mine[q] \notin DOMAIN typeOf' /\ \A r \in regType : mine[q] # rl[r]
      BY <3>1, <1>5, <1>9, <1>11
    <3>3. ASSUME NEW u \in DOMAIN typeOf' \ {p}, NEW r \in typeOf'[u] PROVE mine[q] # next[u][r]
      <4>1. u \in DOMAIN typeOf /\ r \in typeOf[u] /\ next[u] = own[u]
        BY <2>1, <1>5
      <4>2. own[u][r] \in DOMAIN heap
        BY <4>1, <1>10
      <4> QED BY <3>1, <4>1, <4>2
    <3> QED BY <3>1, <3>2, <3>3
  <2>2. CASE p # o
    <3>1. p \in DOMAIN typeOf /\ q \in typeOf[p] /\ next[p] = own[p]
      BY <2>2, <1>5
    <3>2. own[p][q] \in DOMAIN heap /\ own[p][q] \notin DOMAIN typeOf'
      BY <3>1, <1>5, <1>10
    <3>3. \A r \in regType : own[p][q] # rl[r]
      BY <3>1, <1>1 DEF Separate
    <3>4. ASSUME NEW u \in DOMAIN typeOf' \ {p}, NEW r \in typeOf'[u] PROVE own[p][q] # next[u][r]
      <4>1. CASE u = o
        <5>1. next[u] = mine /\ r \in T
          BY <4>1, <1>5
        <5> QED BY <5>1, <3>2, <1>8
      <4>2. CASE u # o
        <5>1. u \in DOMAIN typeOf \ {p} /\ r \in typeOf[u] /\ next[u] = own[u]
          BY <4>2, <1>5
        <5> QED BY <3>1, <5>1, <1>1 DEF Separate
      <4> QED BY <4>1, <4>2
    <3> QED BY <3>1, <3>2, <3>3, <3>4
  <2> QED BY <2>1, <2>2
<1>16. \A r \in regType : rl[r] \notin DOMAIN typeOf'
  BY <1>5, <1>11
<1>17. (Separate(next, rl))'
  <2>0. reg' = reg /\ regType' = regType
    OBVIOUS
  <2>1. (\A p \in DOMAIN typeOf : IsTree(heap[p], typeOf[p], next[p], heap))'
    BY <1>13
  <2>2. (IsTree(reg, regType, rl, heap))'
    BY <1>14, <2>0
  <2>3. (\A p \in DOMAIN typeOf : \A q \in typeOf[p] :
           /\ next[p][q] \notin DOMAIN typeOf
           /\ \A r \in regType : next[p][q] # rl[r]
           /\ \A u \in DOMAIN typeOf \ {p} : \A r \in typeOf[u] : next[p][q] # next[u][r])'
    BY ONLY <1>15, <2>0
  <2>4. (\A r \in regType : rl[r] \notin DOMAIN typeOf)'
    BY ONLY <1>16, <2>0
  <2> QED BY ONLY <2>1, <2>2, <2>3, <2>4 DEF Separate
<1>18. Stay(own, next, {o})
  <2> SUFFICES ASSUME NEW s, IsSpot(s), s.obj # o
               PROVE  (IsSpot(s))' /\ At(next, s) = At(own, s) /\ typeOf'[s.obj] = typeOf[s.obj]
    BY DEF Stay
  <2>1. s.obj \in DOMAIN typeOf \ {o}
    BY DEF IsSpot
  <2> QED BY <2>1, <1>5 DEF IsSpot, At
<1>19. (ptr # 0 => IsSpot(place) /\ ptr = At(next, place))'
  <2>1. CASE ptr' = o /\ place' = NewSpot(o)
    <3>1. place' = [obj |-> o, path |-> <<>>] /\ o \in DOMAIN typeOf'
      BY <2>1, <1>5 DEF NewSpot
    <3> QED BY <2>1, <3>1 DEF IsSpot, At
  <2>2. CASE ptr' = ptr /\ place' = place /\ place.obj # o
    <3> SUFFICES ASSUME ptr # 0 PROVE (IsSpot(place) /\ ptr = At(next, place))'
      BY <2>2
    <3>1. IsSpot(place) /\ ptr = At(own, place)
      BY <1>1 DEF Pointing
    <3>2. ASSUME NEW s, s = place PROVE (IsSpot(s))' /\ At(next, s) = At(own, s)
      BY <2>2, <3>1, <3>2, <1>18 DEF Stay
    <3> QED BY <2>2, <3>1, <3>2 DEF IsSpot, At
  <2> QED BY <2>1, <2>2
<1>20. ASSUME NEW v \in SliceVars PROVE (SliceOK(next, slices[v]))'
  <2>1. PICK x : x = slices[v]
    OBVIOUS
  <2>2. SliceOK(own, x) /\ SliceLengths(x)
    BY <1>1, <2>1, SliceNumbers DEF Pointing
  <2>3. \A i \in 1 .. Len(x.cells) : x.spots[i].obj \notin {o}
    BY <2>1, <2>2 DEF SliceLengths
  <2>4. (SliceOK(next, x))'
    BY <1>18, <2>2, <2>3, SliceStays
  <2> QED BY <2>1, <2>4 DEF SliceOK, IsSpot
<1>21. slices' = [v \in SliceVars |-> slices'[v]]
  BY <1>1 DEF Pointing
<1>22. (Pointing(next))'
  BY <1>19, <1>20, <1>21 DEF Pointing
<1> QED BY <1>6, <1>17, <1>22 DEF Inv

\* The parts of a zero value, in a sequence.
LEMMA ZeroCellsAre ==
  ASSUME NEW T, Formed(T), NEW base
  PROVE  /\ IsSeq(ZeroCells(T, base)) /\ Len(ZeroCells(T, base)) = Cardinality(T) /\ Cardinality(T) \in Nat
         /\ \A q \in T : Number(T)[q] \in 1 .. Cardinality(T)
                         /\ ZeroCells(T, base)[Number(T)[q]] = PartAt(T, base, q)
<1>1. /\ Cardinality(T) \in Nat /\ Number(T) \in [T -> 1 .. Cardinality(T)]
      /\ \A q \in T : PathOf(T, Number(T)[q]) = q
  BY NumberIs DEF Formed
<1>2. PICK z : z = ZeroCells(T, base)
  OBVIOUS
<1>3. z = [k \in 1 .. Cardinality(T) |-> PartAt(T, base, PathOf(T, k))]
  BY <1>2 DEF ZeroCells
<1>4. IsSeq(z)
  BY <1>1, <1>3 DEF IsSeq
<1>5. Len(z) = Cardinality(T)
  BY <1>1, <1>3
<1>6. \A q \in T : Number(T)[q] \in 1 .. Cardinality(T) /\ z[Number(T)[q]] = PartAt(T, base, q)
  BY <1>1, <1>3
<1> QED BY <1>1, <1>2, <1>4, <1>5, <1>6

\* Alloc of a new variable.
LEMMA AllocHeapIs ==
  ASSUME Inv, NEW T, Formed(T), AllocHeap(T), NEW o, o = NextCell
  PROVE  Allocated(o, T, o) /\ o \notin DOMAIN heap /\ place' = NewSpot(o)
<1>1. o = NextCell
  OBVIOUS
<1>2. PICK z : z = ZeroCells(T, o)
  OBVIOUS
<1>3. /\ heap' = (heap \o <<Zero(T, o)>>) \o z
      /\ typeOf' = Typed({o}, T) /\ ptr' = o /\ place' = NewSpot(o)
      /\ UNCHANGED <<reg, regType, slices>>
  BY <1>1, <1>2 DEF AllocHeap
<1>4. Scope /\ IsSeq(heap) /\ Len(heap) \in Nat /\ DOMAIN heap = 1 .. Len(heap) /\ o = Len(heap) + 1
  BY <1>1, SeqIs DEF Inv, Scope, NextCell
<1>5. /\ IsSeq(z) /\ Len(z) = Cardinality(T) /\ Cardinality(T) \in Nat
      /\ \A q \in T : Number(T)[q] \in 1 .. Cardinality(T) /\ z[Number(T)[q]] = PartAt(T, o, q)
  BY <1>2, ZeroCellsAre
<1>6. PICK y : y = <<Zero(T, o)>>
  OBVIOUS
<1>7. IsSeq(y) /\ Len(y) = 1 /\ y[1] = Zero(T, o)
  <2>1. y = [i \in 1 .. 1 |-> y[i]]
    BY <1>6
  <2> QED BY <1>6, <2>1 DEF IsSeq
<1>8. PICK g : g = heap \o y
  OBVIOUS
<1>9. /\ IsSeq(g) /\ Len(g) = o /\ \A i \in 1 .. Len(heap) : g[i] = heap[i]
      /\ g[o] = Zero(T, o)
  <2>1. 1 \in 1 .. Len(y)
    BY <1>7
  <2>2. /\ IsSeq(g) /\ Len(g) = Len(heap) + 1 /\ \A i \in 1 .. Len(heap) : g[i] = heap[i]
        /\ g[Len(heap) + 1] = y[1]
    <3>1. IsSeq(heap) /\ IsSeq(y)
      BY <1>4, <1>7
    <3>2. /\ IsSeq(heap \o y) /\ Len(heap \o y) = Len(heap) + Len(y)
          /\ \A i \in 1 .. Len(heap) : (heap \o y)[i] = heap[i]
          /\ \A i \in 1 .. Len(y) : (heap \o y)[Len(heap) + i] = y[i]
      BY ONLY <3>1, ConcatIs
    <3> QED BY <1>7, <1>8, <2>1, <3>2
  <2> QED BY <1>4, <1>7, <2>2
<1>10. heap' = g \o z
  BY <1>3, <1>6, <1>8
<1>11. /\ IsSeq(heap') /\ DOMAIN heap' = 1 .. o + Cardinality(T)
       /\ \A i \in 1 .. o : heap'[i] = g[i]
       /\ \A i \in 1 .. Cardinality(T) : heap'[o + i] = z[i]
  BY <1>5, <1>9, <1>10, ConcatIs
<1>12. /\ o \in DOMAIN heap' /\ o \notin DOMAIN heap /\ o \in Nat /\ Len(heap) <= o /\ o <= o
       /\ DOMAIN heap \subseteq DOMAIN heap'
  BY <1>4, <1>5, <1>11
<1>13. heap'[o] = Zero(T, o) /\ \A c \in DOMAIN heap \ {o} : heap'[c] = heap[c]
  BY <1>4, <1>9, <1>11
<1>14. \A q \in T : o + Number(T)[q] \in DOMAIN heap' /\ heap'[o + Number(T)[q]] = PartAt(T, o, q)
  BY <1>4, <1>5, <1>11
<1>15. ASSUME NEW v \in SliceVars, NEW i \in DOMAIN slices[v].spots PROVE slices[v].spots[i].obj # o
  <2>1. PICK own : SliceOK(own, slices[v])
    BY DEF Inv, Pointing
  <2>2. SliceLengths(slices[v])
    BY <2>1, SliceNumbers
  <2>3. slices[v].spots[i].obj \in DOMAIN typeOf
    BY <2>1, <2>2 DEF SliceOK, SliceLengths, IsSpot
  <2> QED BY <2>3, <1>4, <1>12 DEF Scope
<1>16. ASSUME NEW c \in DOMAIN heap' \ (DOMAIN heap \cup {o}) PROVE \E q \in T : c = o + Number(T)[q]
  <2>1. c - o \in 1 .. Cardinality(T) /\ c = o + (c - o)
    BY <1>4, <1>5, <1>11
  <2>2. PICK k \in 1 .. Cardinality(T) : c = o + k
    BY <2>1
  <2>3. PathOf(T, k) \in T /\ Number(T)[PathOf(T, k)] = k
    BY NumberIs DEF Formed
  <2> QED BY <2>2, <2>3
<1> QED BY <1>3, <1>11, <1>12, <1>13, <1>14, <1>15, <1>16 DEF Allocated

\* It keeps the invariant.
LEMMA AllocHeapKeeps ==
  ASSUME Inv, NEW T, Formed(T), AllocHeap(T)
  PROVE  Inv'
BY AllocHeapIs, AllocStep

\* Alloc of a local variable executed again: no spot in use is in it.
LEMMA AllocLocalIs ==
  ASSUME Inv, NEW o \in DOMAIN typeOf, AllocLocal(o), NEW T, T = typeOf[o], NEW base, base = Len(heap)
  PROVE  Allocated(o, T, base) /\ UNCHANGED <<typeOf, ptr, place>> /\ heap[o] # Nil
<1>1. T = typeOf[o]
  OBVIOUS
<1>2. base = Len(heap)
  OBVIOUS
<1>3. PICK z : z = ZeroCells(T, base)
  OBVIOUS
<1>4. PICK g : g = [heap EXCEPT ![o] = Zero(T, base)]
  OBVIOUS
<1>5. /\ o # place.obj /\ \A v \in SliceVars : \A i \in DOMAIN slices[v].spots : slices[v].spots[i].obj # o
      /\ heap' = g \o z /\ heap[o] # Nil
      /\ UNCHANGED <<typeOf, ptr, place, reg, regType, slices>>
  BY <1>1, <1>2, <1>3, <1>4 DEF AllocLocal
<1>6. /\ Scope /\ IsSeq(heap) /\ base \in Nat /\ DOMAIN heap = 1 .. base /\ o \in DOMAIN heap
      /\ Formed(T) /\ typeOf = [p \in DOMAIN typeOf |-> typeOf[p]]
  BY <1>1, <1>2, SeqIs DEF Inv, Scope
<1>7. /\ IsSeq(z) /\ Len(z) = Cardinality(T) /\ Cardinality(T) \in Nat
      /\ \A q \in T : Number(T)[q] \in 1 .. Cardinality(T) /\ z[Number(T)[q]] = PartAt(T, base, q)
  BY <1>3, <1>6, ZeroCellsAre
<1>8. /\ g = [c \in 1 .. base |-> g[c]] /\ g[o] = Zero(T, base)
      /\ \A c \in DOMAIN heap \ {o} : g[c] = heap[c]
  <2>1. heap = [c \in 1 .. base |-> heap[c]]
    <3>1. PICK n \in Nat : heap = [i \in 1 .. n |-> heap[i]]
      BY <1>6 DEF IsSeq
    <3> QED BY <3>1, <1>6
  <2> QED BY <1>4, <1>6, <2>1
<1>9. IsSeq(g) /\ Len(g) = base
  <2>1. IsSeq(g)
    BY <1>6, <1>8 DEF IsSeq
  <2> QED BY <1>6, <1>8, <2>1
<1>10. /\ IsSeq(heap') /\ DOMAIN heap' = 1 .. base + Cardinality(T)
       /\ \A i \in 1 .. base : heap'[i] = g[i]
       /\ \A i \in 1 .. Cardinality(T) : heap'[base + i] = z[i]
  BY <1>5, <1>7, <1>9, ConcatIs
<1>11. /\ o \in DOMAIN heap' /\ o <= base /\ Len(heap) <= base /\ DOMAIN heap \subseteq DOMAIN heap'
  BY <1>2, <1>6, <1>7, <1>10
<1>12. heap'[o] = Zero(T, base) /\ \A c \in DOMAIN heap \ {o} : heap'[c] = heap[c]
  BY <1>6, <1>8, <1>10
<1>13. \A q \in T : base + Number(T)[q] \in DOMAIN heap' /\ heap'[base + Number(T)[q]] = PartAt(T, base, q)
  BY <1>6, <1>7, <1>10
<1>14. typeOf' = Typed({o}, T)
  BY <1>1, <1>5, <1>6 DEF Typed
<1>15. ASSUME NEW c \in DOMAIN heap' \ (DOMAIN heap \cup {o}) PROVE \E q \in T : c = base + Number(T)[q]
  <2>1. c - base \in 1 .. Cardinality(T) /\ c = base + (c - base)
    BY <1>6, <1>7, <1>10
  <2>2. PICK k \in 1 .. Cardinality(T) : c = base + k
    BY <2>1
  <2>3. PathOf(T, k) \in T /\ Number(T)[PathOf(T, k)] = k
    BY <1>6, NumberIs DEF Formed
  <2> QED BY <2>2, <2>3
<1> QED BY <1>5, <1>6, <1>10, <1>11, <1>12, <1>13, <1>14, <1>15 DEF Allocated

\* It keeps the invariant.
LEMMA AllocLocalKeeps ==
  ASSUME Inv, NEW o \in DOMAIN typeOf, AllocLocal(o)
  PROVE  Inv'
<1>1. PICK T, base : T = typeOf[o] /\ base = Len(heap) /\ Formed(T)
  BY DEF Inv, Scope
<1> QED BY <1>1, AllocLocalIs, AllocStep

-----------------------------------------------------------------------------
\* The invariant holds -------------------------------------------------------------

\* Nothing is allocated at first.
LEMMA InvInit == Init => Inv
<1> SUFFICES ASSUME Init PROVE Inv
  OBVIOUS
<1>1. /\ heap = <<>> /\ typeOf = [o \in {} |-> {}] /\ ptr = 0 /\ reg = Num(0) /\ regType = {}
      /\ slices = [v \in SliceVars |-> [cells |-> <<>>, len |-> 0, spots |-> <<>>]]
  BY DEF Init
<1>2. IsSeq(<<>>) /\ Len(<<>>) = 0
  <2>1. 0 \in Nat /\ <<>> = [i \in 1 .. 0 |-> <<>>[i]]
    BY SMT
  <2> QED BY <2>1 DEF IsSeq
<1>3. Scope
  BY <1>1, <1>2, EmptyFormed DEF Scope
<1>4. PICK none : none = [q \in {} |-> 0]
  OBVIOUS
<1>5. IsTree(reg, regType, none, heap)
  BY <1>1, <1>4, ScalarTree DEF Num
<1>6. Separate(none, none)
  BY <1>1, <1>5 DEF Separate
<1>7. Pointing(none)
  <2>1. ASSUME NEW v \in SliceVars PROVE SliceOK(none, slices[v])
    <3>1. slices[v] = [cells |-> <<>>, len |-> 0, spots |-> <<>>]
      BY <1>1
    <3> QED BY <1>2, <3>1 DEF SliceOK
  <2> QED BY <1>1, <2>1 DEF Pointing
<1> QED BY <1>3, <1>6, <1>7 DEF Inv

\* Every instruction keeps every slot with its owner, if the elements of slices are scalars.
LEMMA InvNext ==
  ASSUME Elem = {}, Inv, [Next]_vars
  PROVE  Inv'
<1>1. ASSUME NEW T \in Types, AllocHeap(T) PROVE Inv'
  <2>1. Formed(T)
    BY TypesAssumption, TypesFormed
  <2> QED BY <1>1, <2>1, AllocHeapKeeps
<1>2. ASSUME NEW o \in DOMAIN typeOf, AllocLocal(o) \/ UseVar(o) PROVE Inv'
  BY <1>2, AllocLocalKeeps, UseVarKeeps
<1>3. ASSUME NEW i \in 1 .. 2, FieldAddr(i) \/ Field(i) PROVE Inv'
  BY <1>3, FieldAddrKeeps, FieldKeeps
<1>4. ASSUME NEW n \in Scalars, Const(n) PROVE Inv'
  BY <1>4, ConstKeeps
<1>5. ASSUME Load PROVE Inv'
  BY <1>5, LoadKeeps
<1>6. ASSUME Store PROVE Inv'
  BY <1>6, StoreKeeps
<1>7. ASSUME NEW v \in SliceVars, NEW i \in 1 .. slices[v].len, IndexAddr(v, i) PROVE Inv'
  BY <1>7, IndexAddrKeeps
<1>8. ASSUME NEW v \in SliceVars, NEW c \in Makes, MakeSlice(v, c[1], c[2]) PROVE Inv'
  <2>1. c[1] \in Nat /\ c[2] \in Nat
    BY MemoryAssumption
  <2> QED BY <1>8, <2>1, MakeSliceKeeps
<1>9. ASSUME NEW v \in SliceVars, SliceArray(v) PROVE Inv'
  BY <1>9, SliceArrayKeeps
<1>10. ASSUME NEW v \in SliceVars, NEW u \in SliceVars, NEW c \in Cuts, SliceSlice(v, u, c[1], c[2], c[3])
       PROVE  Inv'
  <2>1. c[1] \in Nat /\ c[2] \in Nat /\ c[3] \in Nat
    BY MemoryAssumption
  <2> QED BY <1>10, <2>1, SliceSliceKeeps
<1>11. ASSUME NEW v \in SliceVars, NEW u \in SliceVars, CopySlice(v, u) PROVE Inv'
  BY <1>11, CopySliceKeeps
<1>12. ASSUME NEW v \in SliceVars, NEW u \in SliceVars, NEW w \in SliceVars, AppendInPlace(v, u, w)
       PROVE  Inv'
  BY <1>12, AppendInPlaceKeeps
<1>13. ASSUME NEW v \in SliceVars, NEW u \in SliceVars, NEW w \in SliceVars, NEW spare \in 0 .. MaxSpare,
              AppendGrow(v, u, w, spare)
       PROVE  Inv'
  <2>1. spare \in Nat
    BY MemoryAssumption
  <2> QED BY <1>13, <2>1, AppendGrowKeeps
<1>14. ASSUME UNCHANGED vars PROVE Inv'
  <2>1. UNCHANGED <<heap, typeOf, ptr, place, reg, regType, slices>>
    BY <1>14 DEF vars
  <2>2. PICK own, rl : Scope /\ Separate(own, rl) /\ Pointing(own)
    BY DEF Inv
  <2>3. Scope' /\ (Separate(own, rl))' /\ Stay(own, own, {})
    BY <2>1, <2>2, MemoryStays
  <2>4. /\ (ptr # 0 => IsSpot(place) /\ ptr = At(own, place))'
        /\ \A v \in SliceVars : (SliceOK(own, slices[v]))' \/ slices'[v] # slices[v]
    BY <2>1, <2>2, <2>3, SlicesStay
  <2>5. slices' = [v \in SliceVars |-> slices'[v]]
    BY <2>1, <2>2 DEF Pointing
  <2>6. (Pointing(own))'
    BY <2>1, <2>4, <2>5 DEF Pointing
  <2> QED BY <2>3, <2>6 DEF Inv
<1> QED BY <1>1, <1>2, <1>3, <1>4, <1>5, <1>6, <1>7, <1>8, <1>9, <1>10, <1>11, <1>12, <1>13, <1>14 DEF Next

-----------------------------------------------------------------------------
\* What it says --------------------------------------------------------------------

\* The slots of a variable, and those of the value in the register.
LEMMA OwnCells ==
  ASSUME Scope, NEW own, NEW rl, Separate(own, rl), NEW o \in DOMAIN typeOf
  PROVE  CellsOf(o) = {o} \cup {own[o][q] : q \in typeOf[o]}
<1>1. PICK T, L : T = typeOf[o] /\ L = own[o]
  OBVIOUS
<1>2. Formed(T) /\ IsTree(heap[o], T, L, heap) /\ <<>> \notin T
  BY <1>1 DEF Scope, Separate, Formed
<1>3. \A q \in T \cup {<<>>} : CellAt(o, q) = IF q = <<>> THEN o ELSE L[q]
  BY ONLY <1>2, CellIs
<1>4. CellsOf(o) = {CellAt(o, q) : q \in T \cup {<<>>}}
  BY <1>1 DEF CellsOf
<1> QED BY <1>1, <1>2, <1>3, <1>4

\* The slots of the value in the register.
LEMMA RegisterCells ==
  ASSUME Scope, NEW own, NEW rl, Separate(own, rl)
  PROVE  RegCells = {rl[q] : q \in regType}
<1>1. Formed(regType) /\ IsTree(reg, regType, rl, heap)
  BY DEF Scope, Separate
<1>2. ASSUME NEW q \in regType
      PROVE  Part(reg, SubSeq(q, 1, Len(q) - 1)).cells[q[Len(q)]] = rl[q]
  <2>1. PICK u : u = SubSeq(q, 1, Len(q) - 1)
    OBVIOUS
  <2>2. Len(q) \in 1 .. Len(q) /\ SubSeq(q, 1, Len(q)) = q
    <3>1. q \in Seq(Place) /\ q # <<>>
      BY <1>1 DEF Formed, Path
    <3>2. Len(q) \in Nat /\ Len(q) # 0
      BY <3>1, LenProperties, EmptySeq
    <3> QED BY <3>1, <3>2, SubSeqFull
  <2>3. u \in regType \cup {<<>>} /\ q = Append(u, q[Len(q)]) /\ q[Len(q)] \in Kids(regType, u)
    BY <1>1, <2>1, <2>2, Prefixes
  <2>4. Part(reg, u) = IF u = <<>> THEN reg ELSE heap[rl[u]]
    BY <1>1, <2>3, PartIs
  <2>5. Node(Part(reg, u), regType, rl, u)
    BY <1>1, <2>3, <2>4 DEF IsTree
  <2>6. Part(reg, u).cells[q[Len(q)]] = rl[Append(u, q[Len(q)])]
    BY <2>3, <2>5 DEF Node
  <2> QED BY <2>1, <2>3, <2>6
<1> QED BY <1>2 DEF RegCells

\* Slots with one owner are not shared.
LEMMA SlotsApart == Inv => NoSharing
<1> SUFFICES ASSUME Inv PROVE NoSharing
  OBVIOUS
<1>1. PICK own, rl : Scope /\ Separate(own, rl)
  BY DEF Inv
<1>2. ASSUME NEW o \in DOMAIN typeOf PROVE CellsOf(o) \cap RegCells = {}
  <2>1. CellsOf(o) = {o} \cup {own[o][q] : q \in typeOf[o]} /\ RegCells = {rl[q] : q \in regType}
    BY <1>1, OwnCells, RegisterCells
  <2>2. \A r \in regType : rl[r] # o
    BY <1>1 DEF Separate
  <2>3. \A q \in typeOf[o] : \A r \in regType : own[o][q] # rl[r]
    BY <1>1 DEF Separate
  <2> QED BY <2>1, <2>2, <2>3
<1>3. ASSUME NEW o \in DOMAIN typeOf, NEW p \in DOMAIN typeOf, p # o PROVE CellsOf(o) \cap CellsOf(p) = {}
  <2>1. /\ CellsOf(o) = {o} \cup {own[o][q] : q \in typeOf[o]}
        /\ CellsOf(p) = {p} \cup {own[p][q] : q \in typeOf[p]}
    BY <1>1, OwnCells
  <2>2. \A q \in typeOf[o] : own[o][q] # p
    BY <1>1 DEF Separate
  <2>3. \A q \in typeOf[p] : own[p][q] # o
    BY <1>1 DEF Separate
  <2>4. \A q \in typeOf[o] : \A r \in typeOf[p] : own[o][q] # own[p][r]
    BY <1>1, <1>3 DEF Separate
  <2> QED BY <1>3, <2>1, <2>2, <2>3, <2>4
<1> QED BY <1>2, <1>3 DEF NoSharing

\* What points at its spot points at the slot that the path leads to.
LEMMA PointersTrue == Inv => PointersStay
<1> SUFFICES ASSUME Inv PROVE PointersStay
  OBVIOUS
<1>1. PICK own, rl : Scope /\ Separate(own, rl) /\ Pointing(own)
  BY DEF Inv
<1>2. ASSUME ptr # 0 PROVE ptr = CellAt(place.obj, place.path)
  <2>1. IsSpot(place) /\ ptr = At(own, place)
    BY <1>1, <1>2 DEF Pointing
  <2>2. ASSUME NEW s, s = place PROVE CellAt(s.obj, s.path) = At(own, s)
    <3>1. IsSpot(s)
      BY <2>1, <2>2
    <3> QED BY <1>1, <3>1, SpotTree
  <2> QED BY <2>1, <2>2
<1>3. ASSUME NEW v \in SliceVars, NEW i \in DOMAIN slices[v].cells
      PROVE  slices[v].cells[i] = CellAt(slices[v].spots[i].obj, slices[v].spots[i].path)
  <2>1. PICK x : x = slices[v]
    OBVIOUS
  <2>2. SliceOK(own, x) /\ SliceLengths(x)
    BY <1>1, <2>1, SliceNumbers DEF Pointing
  <2>3. i \in 1 .. Len(x.cells)
    BY <2>1, <2>2 DEF SliceLengths
  <2>4. PICK s : s = x.spots[i]
    OBVIOUS
  <2>5. IsSpot(s) /\ x.cells[i] = At(own, s)
    BY <2>2, <2>3, <2>4 DEF SliceOK
  <2>6. CellAt(s.obj, s.path) = At(own, s)
    BY <1>1, <2>5, SpotTree
  <2> QED BY <2>1, <2>4, <2>5, <2>6
<1> QED BY <1>2, <1>3 DEF PointersStay

\* In a program whose slices have scalar elements no two variables, nor a variable
\* and the value in a register, have a slot of the interpreter's memory in common:
\* load and store of ops.go copy aggregates.
THEOREM SlotsHaveOneOwner ==
  ASSUME Elem = {}
  PROVE  Spec => []NoSharing
<1>1. Inv /\ [Next]_vars => Inv'
  BY InvNext
<1> QED BY <1>1, InvInit, SlotsApart, PTL DEF Spec

\* In such a program a pointer, and a slice, point at the part of the variable they
\* were taken of whatever is stored there: store of ops.go keeps the slots.
THEOREM PointersAreForGood ==
  ASSUME Elem = {}
  PROVE  Spec => []PointersStay
<1>1. Inv /\ [Next]_vars => Inv'
  BY InvNext
<1> QED BY <1>1, InvInit, PointersTrue, PTL DEF Spec

\* The leaves of a type are its parts that have no parts.
LEMMA LeavesAre ==
  ASSUME NEW T, Formed(T)
  PROVE  Leaves(T) = {q \in T \cup {<<>>} : Kids(T, q) = {}}
<1>1. ASSUME NEW q \in T \cup {<<>>}, Kids(T, q) = {} PROVE q \in Leaves(T)
  <2>1. q \in Path /\ T \subseteq Path /\ <<>> \in Path
    BY EmptySeq DEF Formed, Path
  <2>2. Formed(Sub(T, q)) /\ Kids(Sub(T, q), <<>>) = {}
    <3>1. q \o <<>> = q
      BY <2>1, Joined
    <3>2. Kids(Sub(T, q), <<>>) = Kids(T, q \o <<>>)
      BY <2>1, KidsOfSub
    <3> QED BY <2>1, <1>1, <3>1, <3>2, SubFormed
  <2>3. ASSUME NEW r \in Sub(T, q) PROVE FALSE
    <3>1. r \in Path /\ r # <<>>
      BY <2>2 DEF Formed
    <3>2. Len(r) \in Nat /\ Len(r) # 0
      BY <3>1, EmptySeq DEF Path
    <3>3. 1 \in 1 .. Len(r) /\ 1 - 1 = 0
      BY <3>2
    <3>4. r[1] \in Kids(Sub(T, q), SubSeq(r, 1, 1 - 1))
      BY <2>2, <3>3, Prefixes
    <3>5. SubSeq(r, 1, 1 - 1) = <<>>
      BY <3>3, SubSeqEmpty
    <3> QED BY <3>4, <3>5, <2>2
  <2>4. Sub(T, q) = {}
    BY <2>3
  <2>5. CASE q = <<>>
    <3>1. T = {}
      BY <2>1, <2>4, <2>5, SubWhole DEF Formed
    <3> QED BY <2>5, <3>1 DEF Leaves
  <2>6. CASE q # <<>>
    BY <1>1, <2>4, <2>6 DEF Leaves
  <2> QED BY <2>5, <2>6
<1>2. ASSUME NEW q \in Leaves(T) PROVE q \in T \cup {<<>>} /\ Kids(T, q) = {}
  BY LeafKids
<1> QED BY <1>1, <1>2

\* The leaves of a part, from those of the whole.
LEMMA LeavesOfSub ==
  ASSUME NEW T, Formed(T), NEW p \in T \cup {<<>>}
  PROVE  /\ Leaves(Sub(T, p)) = {s \in Path : p \o s \in Leaves(T)}
         /\ Formed(Sub(T, p)) /\ p \in Path
<1>1. p \in Path /\ T \subseteq Path /\ <<>> \in Path
  BY EmptySeq DEF Formed, Path
<1>2. Formed(Sub(T, p)) /\ Sub(T, p) = {s \in Path : s # <<>> /\ p \o s \in T}
  BY <1>1, SubFormed, SubIs
<1>3. Leaves(Sub(T, p)) = {q \in Sub(T, p) \cup {<<>>} : Kids(Sub(T, p), q) = {}}
  BY <1>2, LeavesAre
<1>4. Leaves(T) = {q \in T \cup {<<>>} : Kids(T, q) = {}}
  BY LeavesAre
<1>5. ASSUME NEW s \in Path PROVE s \in Leaves(Sub(T, p)) <=> p \o s \in Leaves(T)
  <2>1. Kids(Sub(T, p), s) = Kids(T, p \o s)
    BY <1>1, KidsOfSub
  <2>2. s \in Sub(T, p) \cup {<<>>} <=> p \o s \in T \cup {<<>>}
    <3>1. CASE s = <<>>
      BY <1>1, <3>1, Joined
    <3>2. CASE s # <<>>
      <4>1. p \o s # <<>>
        BY <1>1, <3>2, Joined
      <4> QED BY <1>2, <3>2, <4>1
    <3> QED BY <3>1, <3>2
  <2> QED BY <1>3, <1>4, <2>1, <2>2
<1>6. Leaves(Sub(T, p)) \subseteq Path
  BY <1>1, <1>2, <1>3
<1> QED BY <1>1, <1>2, <1>5, <1>6

\* The whole of a value is a part of it.
LEMMA LeafPaths ==
  ASSUME NEW T, Formed(T)
  PROVE  /\ Sub(T, <<>>) = T
         /\ \A t \in Leaves(T) : t \in Path /\ <<>> \o t = t
<1>1. T \subseteq Path /\ <<>> \notin T /\ <<>> \in Path
  BY EmptySeq DEF Formed, Path
<1>2. ASSUME NEW t \in Leaves(T) PROVE t \in Path
  BY <1>1, LeafKids
<1> QED BY <1>1, <1>2, SubWhole, Joined

\* A scalar has one leaf, itself.
LEMMA ScalarLeaves == Leaves({}) = {<<>>}
BY DEF Leaves

-----------------------------------------------------------------------------
\* GoMemory's reads and writes -----------------------------------------------------

\* What GoMemory takes to be below a path.
LEMMA BelowIs ==
  ASSUME NEW T, Formed(T), NEW p \in T \cup {<<>>}, NEW x, DOMAIN x = Leaves(T)
  PROVE  /\ \A r \in GoSpec!Below(x, p) : /\ r \in Leaves(T) /\ GoSpec!From(p, r) \in Leaves(Sub(T, p))
                                          /\ p \o GoSpec!From(p, r) = r
         /\ \A s \in Leaves(Sub(T, p)) : p \o s \in GoSpec!Below(x, p) /\ GoSpec!From(p, p \o s) = s
<1>1. /\ Leaves(Sub(T, p)) = {s \in Path : p \o s \in Leaves(T)} /\ p \in Path
      /\ Leaves(T) = {q \in T \cup {<<>>} : Kids(T, q) = {}} /\ T \subseteq Path /\ <<>> \in Path
  BY LeavesOfSub, LeavesAre, EmptySeq DEF Formed, Path
<1>2. \A r : GoSpec!From(p, r) = From(p, r)
  BY DEF GoSpec!From, From
<1>3. GoSpec!Below(x, p) = {r \in Leaves(T) : Len(r) >= Len(p) /\ SubSeq(r, 1, Len(p)) = p}
  BY DEF GoSpec!Below
<1>4. Len(p) \in Nat /\ SubSeq(p, 1, Len(p)) = p
  BY <1>1, SubSeqFull DEF Path
<1>5. ASSUME NEW r \in GoSpec!Below(x, p)
      PROVE  r \in Leaves(T) /\ From(p, r) \in Leaves(Sub(T, p)) /\ p \o From(p, r) = r
  <2>1. r \in Leaves(T) /\ r \in Path /\ Len(r) >= Len(p) /\ SubSeq(r, 1, Len(p)) = p
    BY <1>1, <1>3
  <2>2. Len(r) \in Nat
    BY <2>1 DEF Path
  <2>3. CASE Len(r) = Len(p)
    <3>1. r = p
      BY <2>1, <2>3, <2>2, SubSeqFull DEF Path
    <3>2. p \o <<>> = p /\ From(p, p \o <<>>) = <<>>
      BY <1>1, Joined
    <3> QED BY <1>1, <2>1, <3>1, <3>2
  <2>4. CASE Len(r) # Len(p)
    <3>1. Under(p, r)
      BY <1>4, <2>1, <2>2, <2>4 DEF Under
    <3>2. From(p, r) \in Path /\ p \o From(p, r) = r
      BY <1>1, <2>1, <3>1, UnderSplits
    <3> QED BY <1>1, <2>1, <3>2
  <2> QED BY <2>3, <2>4
<1>6. ASSUME NEW s \in Leaves(Sub(T, p)) PROVE p \o s \in GoSpec!Below(x, p) /\ From(p, p \o s) = s
  <2>1. s \in Path /\ p \o s \in Leaves(T)
    BY <1>1
  <2>2. From(p, p \o s) = s /\ (s # <<>> <=> Under(p, p \o s)) /\ p \o <<>> = p
    BY <1>1, <2>1, Joined
  <2>3. p \o s \in Path /\ Len(p \o s) \in Nat
    BY <1>1, <2>1 DEF Path
  <2>4. Len(p \o s) >= Len(p) /\ SubSeq(p \o s, 1, Len(p)) = p
    BY <1>4, <2>2, <2>3 DEF Under
  <2> QED BY <1>3, <2>1, <2>2, <2>4
<1> QED BY <1>2, <1>5, <1>6

\* The part at p of the value x of a variable of type T.
PartOf(x, T, p) == [t \in Leaves(Sub(T, p)) |-> x[p \o t]]

\* Read takes the part of the value at the spot.
LEMMA ReadIs ==
  ASSUME NEW m, NEW s, NEW T, Formed(T), s.path \in T \cup {<<>>}, DOMAIN m[s.obj] = Leaves(T)
  PROVE  GoSpec!Read(m, s) = PartOf(m[s.obj], T, s.path)
<1> DEFINE x == m[s.obj]
           B == GoSpec!Below(x, s.path)
<1>1. {GoSpec!From(s.path, r) : r \in B} = Leaves(Sub(T, s.path))
  <2>1. \A r \in B : GoSpec!From(s.path, r) \in Leaves(Sub(T, s.path))
    BY BelowIs
  <2>2. \A t \in Leaves(Sub(T, s.path)) : s.path \o t \in B /\ GoSpec!From(s.path, s.path \o t) = t
    BY BelowIs
  <2> HIDE DEF B
  <2> QED BY <2>1, <2>2
<1>2. GoSpec!Read(m, s) = [q \in {GoSpec!From(s.path, r) : r \in B} |-> x[s.path \o q]]
  BY DEF GoSpec!Read
<1> HIDE DEF B
<1> QED BY <1>1, <1>2 DEF PartOf

-----------------------------------------------------------------------------
\* What the program sees of the slots --------------------------------------------

\* GoMem and GoReg, in whatever heap.
ValueIn(h, v, T) == [q \in Leaves(T) |-> PartIn(h, v, q).n]
Holding(h, ty) == {o \in DOMAIN ty : h[o] # Nil}
MemIn(h, ty) == [o \in Holding(h, ty) |-> ValueIn(h, h[o], ty[o])]

\* The slot of the part of variable o at q.
Slot(own, o, q) == IF q = <<>> THEN o ELSE own[o][q]

\* The scalars in the slots of the part of variable o at path, a part of type T.
Shown(h, own, o, path, T) == [t \in Leaves(T) |-> h[Slot(own, o, path \o t)].n]

\* The variables have slots own[o], each its own.
Owned(h, ty, own) ==
  \A o \in DOMAIN ty : o \in DOMAIN h /\ Formed(ty[o]) /\ IsTree(h[o], ty[o], own[o], h)
Apart(ty, own) ==
  \A o, p \in DOMAIN ty : \A q \in ty[o] \cup {<<>>}, r \in ty[p] \cup {<<>>} :
    Slot(own, o, q) = Slot(own, p, r) => o = p /\ q = r

\* They are those: now, and after a step.
LEMMA SeenNow == GoMem = MemIn(heap, typeOf) /\ GoReg = ValueIn(heap, reg, regType)
BY DEF GoMem, GoReg, ValueOf, Part, MemIn, Holding, ValueIn, PartIn

LEMMA SeenNext == GoMem' = MemIn(heap', typeOf') /\ GoReg' = ValueIn(heap', reg', regType')
BY DEF GoMem, GoReg, ValueOf, Part, MemIn, Holding, ValueIn, PartIn

\* The value of a tree.
LEMMA ValueIs ==
  ASSUME NEW T, Formed(T), NEW L, NEW v, NEW h, IsTree(v, T, L, h)
  PROVE  ValueIn(h, v, T) = [q \in Leaves(T) |-> (IF q = <<>> THEN v ELSE h[L[q]]).n]
<1>1. ASSUME NEW q \in Leaves(T) PROVE PartIn(h, v, q) = IF q = <<>> THEN v ELSE h[L[q]]
  BY LeafKids, PartInIs
<1> QED BY <1>1 DEF ValueIn

\* The value of every variable.
LEMMA MemIs ==
  ASSUME NEW h, NEW ty, NEW own, Owned(h, ty, own)
  PROVE  /\ DOMAIN MemIn(h, ty) = Holding(h, ty)
         /\ \A o \in Holding(h, ty) : MemIn(h, ty)[o] = Shown(h, own, o, <<>>, ty[o])
<1>1. ASSUME NEW o \in Holding(h, ty)
      PROVE  ValueIn(h, h[o], ty[o]) = Shown(h, own, o, <<>>, ty[o])
  <2>1. Formed(ty[o]) /\ IsTree(h[o], ty[o], own[o], h)
    BY DEF Holding, Owned
  <2>2. ValueIn(h, h[o], ty[o]) = [q \in Leaves(ty[o]) |-> (IF q = <<>> THEN h[o] ELSE h[own[o][q]]).n]
    BY <2>1, ValueIs
  <2>3. \A q : (IF q = <<>> THEN h[o] ELSE h[own[o][q]]) = h[Slot(own, o, q)]
    BY DEF Slot
  <2>4. \A q \in Leaves(ty[o]) : <<>> \o q = q
    BY <2>1, LeafPaths
  <2> QED BY <2>2, <2>3, <2>4 DEF Shown
<1> QED BY <1>1 DEF MemIn

\* A part of the value of a variable is what its slots show.
LEMMA PartShown ==
  ASSUME NEW h, NEW own, NEW o, NEW T, Formed(T), NEW p \in T \cup {<<>>}
  PROVE  PartOf(Shown(h, own, o, <<>>, T), T, p) = Shown(h, own, o, p, Sub(T, p))
<1>1. p \in Path /\ <<>> \in Path /\ \A t \in Leaves(Sub(T, p)) : t \in Path /\ p \o t \in Leaves(T) /\ p \o t \in Path
  BY LeavesOfSub, EmptySeq, Joined DEF Path
<1>2. ASSUME NEW t \in Leaves(Sub(T, p))
      PROVE  Shown(h, own, o, <<>>, T)[p \o t] = h[Slot(own, o, p \o t)].n
  <2>1. <<>> \o (p \o t) = p \o t
    BY <1>1, Joined
  <2> QED BY <1>1, <2>1 DEF Shown
<1> QED BY <1>2 DEF PartOf, Shown

\* Reading a spot gives the scalars in its slots.
LEMMA ReadSpot ==
  ASSUME NEW h, NEW ty, NEW own, Owned(h, ty, own), NEW s, s.obj \in Holding(h, ty),
         s.path \in ty[s.obj] \cup {<<>>}
  PROVE  GoSpec!Read(MemIn(h, ty), s) = Shown(h, own, s.obj, s.path, Sub(ty[s.obj], s.path))
<1>1. Formed(ty[s.obj])
  BY DEF Holding, Owned
<1>2. MemIn(h, ty)[s.obj] = Shown(h, own, s.obj, <<>>, ty[s.obj])
  BY MemIs
<1>3. DOMAIN MemIn(h, ty)[s.obj] = Leaves(ty[s.obj])
  BY <1>2 DEF Shown
<1>4. GoSpec!Read(MemIn(h, ty), s) = PartOf(MemIn(h, ty)[s.obj], ty[s.obj], s.path)
  BY <1>1, <1>3, ReadIs
<1> QED BY <1>1, <1>2, <1>4, PartShown

\* Two heaps with the same scalars in the slots of the variables hold the same.
LEMMA MemSame ==
  ASSUME NEW h, NEW k, NEW ty, NEW tz, NEW own, NEW new, Owned(h, ty, own), Owned(k, tz, new),
         Holding(h, ty) = Holding(k, tz),
         \A o \in Holding(h, ty) : /\ ty[o] = tz[o]
                                   /\ \A q \in Leaves(ty[o]) : h[Slot(own, o, q)].n = k[Slot(new, o, q)].n
  PROVE  MemIn(h, ty) = MemIn(k, tz)
<1>1. ASSUME NEW o \in Holding(h, ty) PROVE MemIn(h, ty)[o] = MemIn(k, tz)[o]
  <2>1. MemIn(h, ty)[o] = Shown(h, own, o, <<>>, ty[o])
    BY MemIs
  <2>2. MemIn(k, tz)[o] = Shown(k, new, o, <<>>, ty[o])
    BY MemIs
  <2>3. ASSUME NEW q \in Leaves(ty[o]) PROVE <<>> \o q \in Leaves(ty[o])
    <3>1. Formed(ty[o])
      BY DEF Owned, Holding
    <3> QED BY <3>1, LeafPaths
  <2> QED BY <2>1, <2>2, <2>3 DEF Shown
<1>2. /\ MemIn(h, ty) = [o \in Holding(h, ty) |-> MemIn(h, ty)[o]]
      /\ MemIn(k, tz) = [o \in Holding(h, ty) |-> MemIn(k, tz)[o]]
  BY DEF MemIn
<1> QED BY <1>1, <1>2

\* The scalars in k are those in h, but for those at the spot s, which are val.
Wrote(h, k, ty, own, s, val) ==
  /\ Owned(h, ty, own) /\ Owned(k, ty, own)
  /\ s.obj \in DOMAIN ty /\ s.path \in ty[s.obj] \cup {<<>>}
  /\ val = Shown(k, own, s.obj, s.path, Sub(ty[s.obj], s.path))
  /\ \A o \in Holding(h, ty) : \A q \in Leaves(ty[o]) :
       \/ o = s.obj /\ \E t \in Leaves(Sub(ty[s.obj], s.path)) : q = s.path \o t
       \/ k[Slot(own, o, q)].n = h[Slot(own, o, q)].n
  /\ Holding(k, ty) = Holding(h, ty) \cup {s.obj}
  /\ s.obj \notin Holding(h, ty) => s.path = <<>>

\* That is a write to the spot.
LEMMA WriteSpot ==
  ASSUME NEW h, NEW k, NEW ty, NEW own, NEW s, NEW val, Wrote(h, k, ty, own, s, val)
  PROVE  MemIn(k, ty) = GoSpec!Write(MemIn(h, ty), s, val)
<1> DEFINE W(m, o) == IF o # s.obj THEN m[o]
                      ELSE IF o \notin DOMAIN m THEN val
                      ELSE [r \in DOMAIN m[o] |->
                              IF r \in GoSpec!Below(m[o], s.path) THEN val[GoSpec!From(s.path, r)] ELSE m[o][r]]
<1>1. PICK m : m = MemIn(h, ty)
  OBVIOUS
<1>0. /\ Owned(h, ty, own) /\ Owned(k, ty, own)
      /\ s.obj \in DOMAIN ty /\ s.path \in ty[s.obj] \cup {<<>>}
      /\ val = Shown(k, own, s.obj, s.path, Sub(ty[s.obj], s.path))
      /\ Holding(k, ty) = Holding(h, ty) \cup {s.obj}
      /\ s.obj \notin Holding(h, ty) => s.path = <<>>
  BY DEF Wrote
<1>2. GoSpec!Write(m, s, val) = [o \in DOMAIN m \cup {s.obj} |-> W(m, o)]
  BY DEF GoSpec!Write
<1>3. DOMAIN m = Holding(h, ty) /\ \A o \in Holding(h, ty) : m[o] = Shown(h, own, o, <<>>, ty[o])
  BY <1>0, <1>1, MemIs
<1>4. ASSUME NEW o \in DOMAIN ty
      PROVE  /\ Formed(ty[o]) /\ Sub(ty[o], <<>>) = ty[o]
             /\ \A t \in Leaves(ty[o]) : t \in Path /\ <<>> \o t = t
  <2>1. Formed(ty[o])
    BY <1>0 DEF Owned
  <2> QED BY <2>1, LeafPaths
<1>5. ASSUME NEW o \in Holding(k, ty) PROVE MemIn(k, ty)[o] = W(m, o)
  <2>0. o \in DOMAIN ty
    BY DEF Holding
  <2>1. MemIn(k, ty)[o] = Shown(k, own, o, <<>>, ty[o]) /\ o \in DOMAIN ty
    BY <1>0, <2>0, MemIs
  <2>2. CASE o # s.obj
    <3>1. o \in Holding(h, ty) /\ W(m, o) = m[o] /\ m[o] = Shown(h, own, o, <<>>, ty[o])
      BY <1>0, <1>3, <2>2
    <3>2. \A q \in Leaves(ty[o]) : k[Slot(own, o, q)].n = h[Slot(own, o, q)].n
      BY <2>2, <3>1 DEF Wrote
    <3> HIDE DEF W
    <3> QED BY <1>4, <2>1, <3>1, <3>2 DEF Shown
  <2>3. CASE o = s.obj /\ o \notin Holding(h, ty)
    <3>1. W(m, o) = val /\ s.path = <<>>
      BY <1>0, <1>3, <2>3
    <3> HIDE DEF W
    <3> QED BY <1>0, <1>4, <2>1, <2>3, <3>1
  <2>4. CASE o = s.obj /\ o \in Holding(h, ty)
    <3>1. PICK x, p, T : x = m[o] /\ p = s.path /\ T = ty[o]
      OBVIOUS
    <3>2. /\ Formed(T) /\ p \in T \cup {<<>>} /\ x = Shown(h, own, o, <<>>, T) /\ DOMAIN x = Leaves(T)
          /\ val = Shown(k, own, o, p, Sub(T, p))
      BY <1>0, <1>3, <1>4, <2>1, <2>4, <3>1 DEF Shown
    <3>3. /\ \A r \in GoSpec!Below(x, p) : r \in Leaves(T) /\ GoSpec!From(p, r) \in Leaves(Sub(T, p))
                                          /\ p \o GoSpec!From(p, r) = r
          /\ \A t \in Leaves(Sub(T, p)) : p \o t \in GoSpec!Below(x, p)
      BY ONLY <3>2, BelowIs
    <3>4. ASSUME NEW r \in Leaves(T)
          PROVE  (IF r \in GoSpec!Below(x, p) THEN val[GoSpec!From(p, r)] ELSE x[r]) = k[Slot(own, o, r)].n
      <4>1. CASE r \in GoSpec!Below(x, p)
        BY <3>2, <3>3, <4>1 DEF Shown
      <4>2. CASE r \notin GoSpec!Below(x, p)
        <5>1. k[Slot(own, o, r)].n = h[Slot(own, o, r)].n
          <6>1. \/ \E t \in Leaves(Sub(T, p)) : r = p \o t
                \/ k[Slot(own, o, r)].n = h[Slot(own, o, r)].n
            BY <2>4, <3>1 DEF Wrote
          <6> QED BY <3>3, <4>2, <6>1
        <5>2. x[r] = h[Slot(own, o, r)].n
          BY <1>4, <2>1, <3>1, <3>2 DEF Shown
        <5> QED BY <4>2, <5>1, <5>2
      <4> QED BY <4>1, <4>2
    <3>5. W(m, o) = [r \in Leaves(T) |-> IF r \in GoSpec!Below(x, p) THEN val[GoSpec!From(p, r)] ELSE x[r]]
      BY <1>3, <2>4, <3>1, <3>2
    <3>6. Shown(k, own, o, <<>>, T) = [r \in Leaves(T) |-> k[Slot(own, o, r)].n]
      BY <1>4, <2>1, <3>1 DEF Shown
    <3> HIDE DEF W
    <3> QED BY <2>1, <3>1, <3>4, <3>5, <3>6
  <2> QED BY <2>2, <2>3, <2>4
<1>6. MemIn(k, ty) = [o \in Holding(k, ty) |-> MemIn(k, ty)[o]]
  BY DEF MemIn
<1> HIDE DEF W
<1> QED BY <1>0, <1>1, <1>2, <1>3, <1>5, <1>6

\* The invariant says that the variables own their slots.
LEMMA OwnedNow ==
  ASSUME Scope, NEW own, NEW rl, Separate(own, rl)
  PROVE  Owned(heap, typeOf, own) /\ Apart(typeOf, own)
<1>1. Owned(heap, typeOf, own)
  BY DEF Scope, Separate, Owned
<1>2. ASSUME NEW o \in DOMAIN typeOf, NEW p \in DOMAIN typeOf,
             NEW q \in typeOf[o] \cup {<<>>}, NEW r \in typeOf[p] \cup {<<>>},
             Slot(own, o, q) = Slot(own, p, r)
      PROVE  o = p /\ q = r
  <2>1. CASE q = <<>>
    <3>1. Slot(own, p, r) = o
      BY <1>2, <2>1 DEF Slot
    <3>2. r = <<>>
      BY <3>1 DEF Slot, Separate
    <3> QED BY <2>1, <3>1, <3>2 DEF Slot
  <2>2. CASE q # <<>>
    <3>1. q \in typeOf[o] /\ Slot(own, o, q) = own[o][q] /\ own[o][q] \notin DOMAIN typeOf
      BY <2>2 DEF Slot, Separate
    <3>2. r # <<>> /\ r \in typeOf[p] /\ own[o][q] = own[p][r]
      BY <1>2, <3>1 DEF Slot
    <3>3. o = p
      BY <3>1, <3>2 DEF Separate
    <3>4. IsTree(heap[o], typeOf[o], own[o], heap)
      BY DEF Separate
    <3> QED BY <3>1, <3>2, <3>3, <3>4 DEF IsTree
  <2> QED BY <2>1, <2>2
<1> QED BY <1>1, <1>2 DEF Apart

\* They still do when scalars change.
LEMMA OwnedKept ==
  ASSUME NEW h, NEW k, NEW ty, NEW own, Owned(h, ty, own), DOMAIN h \subseteq DOMAIN k,
         \A c \in DOMAIN h : Same(h[c], k[c])
  PROVE  Owned(k, ty, own)
<1> SUFFICES ASSUME NEW o \in DOMAIN ty PROVE o \in DOMAIN k /\ Formed(ty[o]) /\ IsTree(k[o], ty[o], own[o], k)
  BY DEF Owned
<1>1. PICK T, L, v, w : T = ty[o] /\ L = own[o] /\ v = h[o] /\ w = k[o]
  OBVIOUS
<1>2. o \in DOMAIN h /\ Formed(T) /\ IsTree(v, T, L, h)
  BY <1>1 DEF Owned
<1>3. Same(v, w) /\ \A q \in T : Same(h[L[q]], k[L[q]])
  BY <1>1, <1>2 DEF IsTree
<1>4. IsTree(w, T, L, k)
  BY ONLY <1>2, <1>3, DOMAIN h \subseteq DOMAIN k, TreeKept
<1> QED BY <1>1, <1>2, <1>4

\* And when variables are added or begin anew.
LEMMA OwnedTyped ==
  ASSUME NEW own, Owned(heap, typeOf, own), NEW k, NEW objs, NEW T, Formed(T), NEW new,
         DOMAIN heap \subseteq DOMAIN k, \A c \in DOMAIN heap \ objs : Same(heap[c], k[c]),
         \A o \in objs : o \in DOMAIN k /\ IsTree(k[o], T, new[o], k),
         \A o \in DOMAIN typeOf \ objs : \A q \in typeOf[o] : own[o][q] \notin objs
  PROVE  \E next : /\ Owned(k, Typed(objs, T), next)
                   /\ \A o \in DOMAIN typeOf \ objs : next[o] = own[o]
                   /\ \A o \in objs : next[o] = new[o]
<1>1. PICK next : next = [o \in DOMAIN typeOf \cup objs |-> IF o \in objs THEN new[o] ELSE own[o]]
  OBVIOUS
<1>2. PICK ty : ty = Typed(objs, T)
  OBVIOUS
<1>3. /\ DOMAIN ty = DOMAIN typeOf \cup objs
      /\ \A o \in objs : ty[o] = T /\ next[o] = new[o]
      /\ \A o \in DOMAIN typeOf \ objs : ty[o] = typeOf[o] /\ next[o] = own[o]
  BY <1>1, <1>2 DEF Typed
<1>4. ASSUME NEW o \in DOMAIN ty PROVE o \in DOMAIN k /\ Formed(ty[o]) /\ IsTree(k[o], ty[o], next[o], k)
  <2>1. CASE o \in objs
    BY <1>3, <2>1
  <2>2. CASE o \notin objs
    <3>1. o \in DOMAIN typeOf /\ ty[o] = typeOf[o] /\ next[o] = own[o]
      BY <1>3, <2>2
    <3>2. PICK U, L, v, w : U = typeOf[o] /\ L = own[o] /\ v = heap[o] /\ w = k[o]
      OBVIOUS
    <3>3. o \in DOMAIN heap /\ Formed(U) /\ IsTree(v, U, L, heap)
      BY <3>1, <3>2 DEF Owned
    <3>4. Same(v, w)
      BY <2>2, <3>2, <3>3
    <3>5. \A q \in U : Same(heap[L[q]], k[L[q]])
      BY <2>2, <3>1, <3>2, <3>3 DEF IsTree
    <3>6. IsTree(w, U, L, k)
      BY ONLY <3>3, <3>4, <3>5, DOMAIN heap \subseteq DOMAIN k, TreeKept
    <3> QED BY <3>1, <3>2, <3>3, <3>6
  <2> QED BY <2>1, <2>2
<1>5. Owned(k, ty, next)
  BY <1>4 DEF Owned
<1> QED BY <1>2, <1>3, <1>5

-----------------------------------------------------------------------------
\* Slots with values ---------------------------------------------------------------

\* The program gets no hold of a slot without a value.
SliceFilled(h, x) ==
  \A i \in DOMAIN x.spots :
    /\ i <= x.len => h[x.spots[i].obj] # Nil
    /\ \A j \in DOMAIN x.spots : x.spots[i] = x.spots[j] => i = j

Filled ==
  /\ \A c \in DOMAIN heap : heap[c] # Nil \/ c \in DOMAIN typeOf
  /\ reg # Nil
  /\ ptr # 0 => heap[place.obj] # Nil
  /\ \A v \in SliceVars : SliceFilled(heap, slices[v])

\* No part of a variable or of the value in the register is without a value.
LEMMA PartsFilled ==
  ASSUME Filled, NEW own, NEW rl, Separate(own, rl)
  PROVE  /\ \A o \in DOMAIN typeOf : \A q \in typeOf[o] : heap[own[o][q]] # Nil
         /\ \A q \in regType \cup {<<>>} : (IF q = <<>> THEN reg ELSE heap[rl[q]]) # Nil
<1>1. ASSUME NEW o \in DOMAIN typeOf, NEW q \in typeOf[o] PROVE heap[own[o][q]] # Nil
  BY DEF Filled, Separate, IsTree
<1>2. ASSUME NEW q \in regType PROVE heap[rl[q]] # Nil
  BY DEF Filled, Separate, IsTree
<1> QED BY <1>1, <1>2 DEF Filled

\* A spot has a value if its variable has one.
LEMMA SpotFilled ==
  ASSUME Scope, Filled, NEW own, NEW rl, Separate(own, rl), NEW s, IsSpot(s)
  PROVE  heap[s.obj] # Nil <=> heap[At(own, s)] # Nil
<1>1. CASE s.path = <<>>
  BY <1>1 DEF At
<1>2. CASE s.path # <<>>
  <2>1. PICK T, q : T = typeOf[s.obj] /\ q = s.path
    OBVIOUS
  <2>2. s.obj \in DOMAIN typeOf /\ q \in T /\ q \in Path /\ Formed(T)
    BY <1>2, <2>1 DEF IsSpot, Scope, Formed
  <2>3. heap[At(own, s)] # Nil
    BY <1>2, <2>1, <2>2, PartsFilled DEF At
  <2>4. Len(q) \in Nat /\ Len(q) # 0
    BY <1>2, <2>1, <2>2, EmptySeq DEF Path
  <2>5. 1 \in 1 .. Len(q) /\ 1 - 1 = 0
    BY <2>4
  <2>6. q[1] \in Kids(T, SubSeq(q, 1, 1 - 1)) /\ SubSeq(q, 1, 1 - 1) = <<>>
    BY <2>2, <2>5, Prefixes, SubSeqEmpty
  <2>7. heap[s.obj].tag = "agg"
    <3>1. Node(heap[s.obj], T, own[s.obj], <<>>)
      BY <2>1, <2>2 DEF Separate, IsTree
    <3> QED BY <2>6, <3>1 DEF Node
  <2> QED BY <2>3, <2>7 DEF Nil
<1> QED BY <1>1, <1>2

\* What all steps have in common that keep Filled.
LEMMA FilledStep ==
  ASSUME Inv, Filled, DOMAIN typeOf \subseteq DOMAIN typeOf',
         \A c \in DOMAIN heap : heap'[c] = Nil => heap[c] = Nil,
         \A c \in DOMAIN heap' \ DOMAIN heap : heap'[c] # Nil \/ c \in DOMAIN typeOf',
         reg' # Nil,
         \/ UNCHANGED <<ptr, place>>
         \/ heap'[place'.obj] # Nil,
         \A v \in SliceVars : slices'[v] = slices[v] \/ SliceFilled(heap', slices'[v])
  PROVE  Filled'
<1>1. PICK own : Pointing(own)
  BY DEF Inv
<1>2. DOMAIN typeOf \subseteq DOMAIN heap
  BY DEF Inv, Scope
<1>3. \A c \in DOMAIN heap' : heap'[c] # Nil \/ c \in DOMAIN typeOf'
  BY DEF Filled
<1>4. ptr' # 0 => heap'[place'.obj] # Nil
  BY <1>1, <1>2 DEF Filled, Pointing, IsSpot
<1>5. ASSUME NEW v \in SliceVars PROVE SliceFilled(heap', slices'[v])
  <2>1. CASE slices'[v] = slices[v]
    <3>1. SliceOK(own, slices[v]) /\ SliceLengths(slices[v]) /\ SliceFilled(heap, slices[v])
      BY <1>1, SliceNumbers DEF Pointing, Filled
    <3>2. \A i \in DOMAIN slices[v].spots : slices[v].spots[i].obj \in DOMAIN heap
      BY <1>2, <3>1 DEF SliceOK, SliceLengths, IsSpot
    <3> QED BY <2>1, <3>1, <3>2 DEF SliceFilled
  <2> QED BY <2>1
<1> QED BY <1>3, <1>4, <1>5 DEF Filled

-----------------------------------------------------------------------------
\* Moves of scalars ----------------------------------------------------------------

\* A spot with a scalar, in slot SlotOf.
SlotOf(own, s) == Slot(own, s.obj, s.path)
ScalarSpot(ty, s) ==
  s.obj \in DOMAIN ty /\ s.path \in ty[s.obj] \cup {<<>>} /\ Sub(ty[s.obj], s.path) = {}

\* The heap k is h but for the slots of the spots `to', which have the values that those of
\* `from' have in h.
MovedTo(h, ty, own, to, from, n, k) ==
  /\ DOMAIN k = DOMAIN h
  /\ \A i \in 1 .. n :
       /\ ScalarSpot(ty, to[i]) /\ ScalarSpot(ty, from[i])
       /\ from[i].obj \in Holding(h, ty) /\ h[SlotOf(own, from[i])] # Nil
       /\ to[i].obj \in Holding(h, ty) \/ to[i].path = <<>>
       /\ h[SlotOf(own, to[i])].tag # "agg" /\ k[SlotOf(own, to[i])].tag # "agg"
       /\ k[SlotOf(own, to[i])] = h[SlotOf(own, from[i])]
  /\ \A i, j \in 1 .. n : SlotOf(own, to[i]) = SlotOf(own, to[j]) => i = j
  /\ \A c \in DOMAIN h : (\A i \in 1 .. n : c # SlotOf(own, to[i])) => k[c] = h[c]

\* The heap after i of them.
After(h, own, to, k, i) ==
  [c \in DOMAIN h |-> IF \E j \in 1 .. i : c = SlotOf(own, to[j]) THEN k[c] ELSE h[c]]

\* Variables keep their slots, and their values, in between.
LEMMA AfterIs ==
  ASSUME NEW h, NEW ty, NEW own, NEW to, NEW from, NEW n \in Nat, NEW k, Owned(h, ty, own),
         MovedTo(h, ty, own, to, from, n, k), NEW i \in 0 .. n, NEW g, g = After(h, own, to, k, i)
  PROVE  /\ DOMAIN g = DOMAIN h /\ Owned(g, ty, own)
         /\ \A c \in DOMAIN h : g[c] = Nil => h[c] = Nil
<1>1. DOMAIN g = DOMAIN h
  BY DEF After
<1>2. ASSUME NEW c \in DOMAIN h PROVE Same(h[c], g[c]) /\ (g[c] = Nil => h[c] = Nil)
  <2>1. CASE \E j \in 1 .. i : c = SlotOf(own, to[j])
    <3>1. PICK j \in 1 .. i : c = SlotOf(own, to[j])
      BY <2>1
    <3>2. j \in 1 .. n /\ g[c] = k[c]
      BY <2>1 DEF After
    <3> QED BY <3>1, <3>2 DEF MovedTo, Same
  <2>2. CASE ~ \E j \in 1 .. i : c = SlotOf(own, to[j])
    BY <2>2 DEF After, Same
  <2> QED BY <2>1, <2>2
<1>3. Owned(g, ty, own)
  BY <1>1, <1>2, OwnedKept
<1> QED BY <1>1, <1>2, <1>3

\* One of the moves is one of GoMemory's writes.
LEMMA MoveOne ==
  ASSUME NEW h, NEW ty, NEW own, NEW to, NEW from, NEW n \in Nat, NEW k, Owned(h, ty, own),
         Apart(ty, own), MovedTo(h, ty, own, to, from, n, k), NEW i \in 1 .. n
  PROVE  MemIn(After(h, own, to, k, i), ty)
           = GoSpec!Write(MemIn(After(h, own, to, k, i - 1), ty), to[i], GoSpec!Read(MemIn(h, ty), from[i]))
<1>1. PICK g, f : g = After(h, own, to, k, i) /\ f = After(h, own, to, k, i - 1)
  OBVIOUS
<1>2. PICK s, r : s = to[i] /\ r = from[i]
  OBVIOUS
<1>3. i \in 0 .. n /\ i - 1 \in 0 .. n
  OBVIOUS
<1>4. /\ DOMAIN g = DOMAIN h /\ Owned(g, ty, own)
      /\ \A c \in DOMAIN h : g[c] = Nil => h[c] = Nil
  BY <1>1, <1>3, AfterIs
<1>5. /\ DOMAIN f = DOMAIN h /\ Owned(f, ty, own)
      /\ \A c \in DOMAIN h : f[c] = Nil => h[c] = Nil
  BY <1>1, <1>3, AfterIs
<1>6. /\ ScalarSpot(ty, s) /\ ScalarSpot(ty, r) /\ r.obj \in Holding(h, ty) /\ h[SlotOf(own, r)] # Nil
      /\ s.obj \in Holding(h, ty) \/ s.path = <<>>
      /\ k[SlotOf(own, s)] = h[SlotOf(own, r)]
  BY <1>2 DEF MovedTo
<1>7. \A o \in DOMAIN ty : \A q \in ty[o] \cup {<<>>} : Slot(own, o, q) \in DOMAIN h
  BY DEF Owned, IsTree, Slot
<1>8. SlotOf(own, s) \in DOMAIN h /\ g[SlotOf(own, s)] = k[SlotOf(own, s)]
  <2>1. SlotOf(own, s) \in DOMAIN h
    BY <1>6, <1>7 DEF SlotOf, ScalarSpot
  <2>2. \E j \in 1 .. i : SlotOf(own, s) = SlotOf(own, to[j])
    BY <1>2
  <2> QED BY <1>1, <2>1, <2>2 DEF After
<1>9. ASSUME NEW c \in DOMAIN h, c # SlotOf(own, s) PROVE g[c] = f[c]
  <2>1. (\E j \in 1 .. i : c = SlotOf(own, to[j])) <=> (\E j \in 1 .. i - 1 : c = SlotOf(own, to[j]))
    <3>1. \A j \in 1 .. i : j = i \/ j \in 1 .. i - 1
      OBVIOUS
    <3>2. \A j \in 1 .. i - 1 : j \in 1 .. i
      OBVIOUS
    <3> QED BY <1>2, <1>9, <3>1, <3>2
  <2> QED BY <1>1, <2>1 DEF After
<1>10. \A o : \A path : Shown(h, own, o, path, {}) = [t \in {<<>>} |-> h[Slot(own, o, path \o t)].n]
  BY ScalarLeaves DEF Shown
<1>11. \A path \in Path : path \o <<>> = path
  BY Joined, EmptySeq DEF Path
<1>12. s.path \in Path /\ r.path \in Path
  <2>1. \A o \in DOMAIN ty : Formed(ty[o]) /\ ty[o] \subseteq Path /\ <<>> \in Path
    BY EmptySeq DEF Owned, Formed, Path
  <2> QED BY <1>6, <2>1 DEF ScalarSpot
<1>13. PICK val : val = GoSpec!Read(MemIn(h, ty), r)
  OBVIOUS
<1>14. val = Shown(g, own, s.obj, s.path, {})
  <2>1. val = Shown(h, own, r.obj, r.path, {})
    <3>1. val = Shown(h, own, r.obj, r.path, Sub(ty[r.obj], r.path))
      BY <1>6, <1>13, ReadSpot DEF ScalarSpot
    <3> QED BY <1>6, <3>1 DEF ScalarSpot
  <2>2. h[Slot(own, r.obj, r.path)].n = g[Slot(own, s.obj, s.path)].n
    BY <1>6, <1>8 DEF SlotOf
  <2>3. \A t \in Leaves({}) : t = <<>>
    BY ScalarLeaves
  <2>4. \A t \in Leaves({}) : h[Slot(own, r.obj, r.path \o t)].n = g[Slot(own, s.obj, s.path \o t)].n
    BY <1>11, <1>12, <2>2, <2>3
  <2> QED BY <2>1, <2>4 DEF Shown
<1>15. ASSUME NEW o \in Holding(f, ty), NEW q \in Leaves(ty[o])
       PROVE  \/ o = s.obj /\ \E t \in Leaves({}) : q = s.path \o t
              \/ g[Slot(own, o, q)].n = f[Slot(own, o, q)].n
  <2>1. o \in DOMAIN ty /\ Formed(ty[o])
    BY <1>5 DEF Holding, Owned
  <2>2. q \in ty[o] \cup {<<>>}
    BY <2>1, LeafKids
  <2>3. CASE Slot(own, o, q) = SlotOf(own, s)
    <3>1. o = s.obj /\ q = s.path
      BY <1>6, <2>1, <2>2, <2>3 DEF Apart, SlotOf, ScalarSpot
    <3>2. <<>> \in Leaves({}) /\ q = s.path \o <<>>
      BY <1>11, <1>12, <3>1, ScalarLeaves
    <3> QED BY <3>1, <3>2
  <2>4. CASE Slot(own, o, q) # SlotOf(own, s)
    BY <1>7, <1>9, <2>1, <2>2, <2>4
  <2> QED BY <2>3, <2>4
<1>16. DOMAIN ty \subseteq DOMAIN h /\ \A o \in DOMAIN ty : Slot(own, o, <<>>) = o
  BY DEF Owned, Slot
<1>17. Holding(g, ty) = Holding(f, ty) \cup {s.obj}
  <2>1. s.obj \in DOMAIN ty /\ g[s.obj] # Nil
    <3>1. CASE s.path = <<>>
      <4>1. SlotOf(own, s) = s.obj
        BY <3>1 DEF SlotOf, Slot
      <4> QED BY <1>6, <1>8, <4>1 DEF ScalarSpot
    <3>2. CASE s.path # <<>>
      BY <1>4, <1>6, <1>16, <3>2 DEF ScalarSpot, Holding
    <3> QED BY <3>1, <3>2
  <2>2. ASSUME NEW o \in DOMAIN ty, o # s.obj PROVE g[o] = f[o]
    <3>1. o # SlotOf(own, s)
      BY <1>6, <1>16, <2>2 DEF Apart, SlotOf, ScalarSpot
    <3> QED BY <1>9, <1>16, <3>1
  <2> QED BY <2>1, <2>2 DEF Holding
<1>18. s.obj \notin Holding(f, ty) => s.path = <<>>
  <2>1. Holding(h, ty) \subseteq Holding(f, ty)
    BY <1>5, <1>16 DEF Holding
  <2> QED BY <1>6, <2>1
<1>19. MemIn(g, ty) = GoSpec!Write(MemIn(f, ty), s, val)
  <2>1. /\ s.obj \in DOMAIN ty /\ s.path \in ty[s.obj] \cup {<<>>} /\ Sub(ty[s.obj], s.path) = {}
    BY <1>6 DEF ScalarSpot
  <2>2. val = Shown(g, own, s.obj, s.path, Sub(ty[s.obj], s.path))
    BY <1>14, <2>1
  <2>3. \A o \in Holding(f, ty) : \A q \in Leaves(ty[o]) :
           \/ o = s.obj /\ \E t \in Leaves(Sub(ty[s.obj], s.path)) : q = s.path \o t
           \/ g[Slot(own, o, q)].n = f[Slot(own, o, q)].n
    BY <1>15, <2>1
  <2>4. Wrote(f, g, ty, own, s, val)
    BY <1>4, <1>5, <1>17, <1>18, <2>1, <2>2, <2>3 DEF Wrote
  <2> QED BY ONLY <2>4, WriteSpot
<1> QED BY <1>1, <1>2, <1>13, <1>19

\* All of them are GoMemory's copy.
LEMMA MoveAll ==
  ASSUME NEW h, NEW ty, NEW own, NEW to, NEW from, NEW n \in Nat, NEW k, Owned(h, ty, own),
         Apart(ty, own), MovedTo(h, ty, own, to, from, n, k), Owned(k, ty, own),
         GoMem = MemIn(h, ty), Len(to) = n
  PROVE  GoSpec!WriteAll(to, from) = MemIn(k, ty)
<1> DEFINE Body(f) == [i \in 0 .. Len(to) |->
                         IF i = 0 THEN GoMem ELSE GoSpec!Write(f[i - 1], to[i], GoSpec!Read(GoMem, from[i]))]
           after == CHOOSE f : f = Body(f)
           at == [i \in 0 .. n |-> MemIn(After(h, own, to, k, i), ty)]
<1>1. GoSpec!WriteAll(to, from) = after[Len(to)]
  BY DEF GoSpec!WriteAll
<1>2. at[0] = GoMem
  <2>1. PICK g : g = After(h, own, to, k, 0)
    OBVIOUS
  <2>2. Owned(g, ty, own)
    <3>1. 0 \in 0 .. n
      OBVIOUS
    <3> QED BY <2>1, <3>1, AfterIs
  <2>3. \A c \in DOMAIN h : g[c] = h[c]
    BY <2>1 DEF After
  <2>4. DOMAIN ty \subseteq DOMAIN h
    BY DEF Owned
  <2>5. Holding(h, ty) = Holding(g, ty)
    BY <2>3, <2>4 DEF Holding
  <2>6. ASSUME NEW o \in Holding(h, ty), NEW q \in Leaves(ty[o]) PROVE h[Slot(own, o, q)].n = g[Slot(own, o, q)].n
    <3>1. o \in DOMAIN h /\ Formed(ty[o]) /\ own[o] \in [ty[o] -> DOMAIN h]
      BY DEF Holding, Owned, IsTree
    <3>2. q \in ty[o] \cup {<<>>}
      BY <3>1, LeafKids
    <3> QED BY <2>3, <3>1, <3>2 DEF Slot
  <2>7. MemIn(h, ty) = MemIn(g, ty)
    BY <2>2, <2>5, <2>6, MemSame
  <2>8. 0 \in 0 .. n
    OBVIOUS
  <2> QED BY <2>1, <2>7, <2>8
<1>3. MemIn(After(h, own, to, k, n), ty) = MemIn(k, ty)
  <2>1. PICK g : g = After(h, own, to, k, n)
    OBVIOUS
  <2>2. Owned(g, ty, own) /\ DOMAIN g = DOMAIN h
    <3>1. n \in 0 .. n
      OBVIOUS
    <3> QED BY <2>1, <3>1, AfterIs
  <2>3. \A c \in DOMAIN h : g[c] = k[c]
    BY <2>1 DEF After, MovedTo
  <2>4. DOMAIN ty \subseteq DOMAIN h
    BY DEF Owned
  <2>5. Holding(k, ty) = Holding(g, ty)
    BY <2>3, <2>4 DEF Holding
  <2>6. ASSUME NEW o \in Holding(k, ty), NEW q \in Leaves(ty[o]) PROVE k[Slot(own, o, q)].n = g[Slot(own, o, q)].n
    <3>1. o \in DOMAIN h /\ Formed(ty[o]) /\ own[o] \in [ty[o] -> DOMAIN h]
      BY DEF Holding, Owned, IsTree
    <3>2. q \in ty[o] \cup {<<>>}
      BY <3>1, LeafKids
    <3> QED BY <2>3, <3>1, <3>2 DEF Slot
  <2>7. MemIn(k, ty) = MemIn(g, ty)
    BY <2>2, <2>5, <2>6, MemSame
  <2> QED BY <2>1, <2>7
<1>4. ASSUME NEW i \in 1 .. n PROVE at[i] = GoSpec!Write(at[i - 1], to[i], GoSpec!Read(GoMem, from[i]))
  <2>1. i \in 0 .. n /\ i - 1 \in 0 .. n
    OBVIOUS
  <2>2. at[i] = MemIn(After(h, own, to, k, i), ty) /\ at[i - 1] = MemIn(After(h, own, to, k, i - 1), ty)
    BY <2>1
  <2> HIDE DEF at
  <2> QED BY <2>2, MoveOne
<1>5. at = Body(at)
  <2>1. \A i \in 0 .. n : i # 0 => i \in 1 .. n
    OBVIOUS
  <2>2. at = [i \in 0 .. n |-> at[i]]
    OBVIOUS
  <2>3. \A i \in 0 .. n : at[i] = IF i = 0 THEN GoMem ELSE GoSpec!Write(at[i - 1], to[i], GoSpec!Read(GoMem, from[i]))
    <3> HIDE DEF at
    <3> QED BY <1>2, <1>4, <2>1
  <2> HIDE DEF at
  <2> QED BY <2>2, <2>3
<1>6. after = Body(after)
  <2> HIDE DEF at, Body
  <2> QED BY <1>5
<1>7. ASSUME NEW i \in 0 .. n, after[i] # at[i] PROVE FALSE
  <2> DEFINE U == {m \in 0 .. n : after[m] # at[m]}
  <2>1. PICK m \in U : \A x \in U : m <= x
    <3>1. i \in U /\ U \in SUBSET Nat
      BY <1>7
    <3> HIDE DEF U
    <3> QED BY <3>1, Least
  <2> HIDE DEF after, at
  <2>2. m # 0
    <3>1. after[0] = GoMem
      BY <1>6
    <3> QED BY <1>2, <2>1, <3>1
  <2>3. m - 1 \in 0 .. n /\ m \in 1 .. n /\ ~(m <= m - 1)
    BY <2>1, <2>2
  <2>4. after[m - 1] = at[m - 1]
    BY <2>1, <2>3
  <2>5. after[m] = GoSpec!Write(after[m - 1], to[m], GoSpec!Read(GoMem, from[m]))
    BY <1>6, <2>3, <2>2
  <2>6. at[m] = GoSpec!Write(at[m - 1], to[m], GoSpec!Read(GoMem, from[m]))
    BY <1>4, <2>3
  <2> QED BY <2>1, <2>4, <2>5, <2>6
<1>8. after[Len(to)] = at[n]
  <2>1. n \in 0 .. n
    OBVIOUS
  <2> HIDE DEF after, at
  <2> QED BY <1>7, <2>1
<1>9. at[n] = MemIn(After(h, own, to, k, n), ty)
  OBVIOUS
<1> HIDE DEF after, at
<1> QED BY <1>1, <1>3, <1>8, <1>9

-----------------------------------------------------------------------------
\* Instructions that leave the slots alone -------------------------------------------

\* The program sees no change where there is none.
LEMMA SeenSame ==
  /\ UNCHANGED <<heap, typeOf>> => UNCHANGED GoMem
  /\ UNCHANGED <<heap, reg, regType>> => UNCHANGED GoReg
  /\ UNCHANGED slices => UNCHANGED GoSlices
<1>1. UNCHANGED <<heap, typeOf>> => UNCHANGED GoMem
  BY SeenNow, SeenNext
<1>2. UNCHANGED <<heap, reg, regType>> => UNCHANGED GoReg
  BY SeenNow, SeenNext
<1>3. UNCHANGED slices => UNCHANGED GoSlices
  BY DEF GoSlices
<1> QED BY <1>1, <1>2, <1>3

\* A new slice is seen.
GetsSlice(v, x) ==
  slices = [u \in SliceVars |-> slices[u]] /\ slices' = [slices EXCEPT ![v] = x]
SeesSlice(v, x) ==
  /\ DOMAIN GoSlices = SliceVars
  /\ GoSlices' = [GoSlices EXCEPT ![v] = GoSlices'[v]]
  /\ GoSlices'[v] = [spots |-> x.spots, len |-> x.len]
  /\ \A u \in SliceVars : GoSlices[u].spots = slices[u].spots /\ GoSlices[u].len = slices[u].len

LEMMA SeenSlice ==
  ASSUME NEW v \in SliceVars, NEW x, GetsSlice(v, x)
  PROVE  SeesSlice(v, x)
<1>1. \A u \in SliceVars : slices'[u] = IF u = v THEN x ELSE slices[u]
  BY DEF GetsSlice
<1> QED BY <1>1 DEF GoSlices, SeesSlice

\* What Filled needs of a step that leaves the slots alone.
LEMMA FilledStays ==
  ASSUME Inv, Filled, UNCHANGED <<heap, typeOf>>, reg' # Nil,
         UNCHANGED <<ptr, place>> \/ heap[place'.obj] # Nil,
         \A v \in SliceVars : slices'[v] = slices[v] \/ SliceFilled(heap, slices'[v])
  PROVE  Filled'
<1>1. /\ DOMAIN typeOf \subseteq DOMAIN typeOf'
      /\ \A c \in DOMAIN heap : heap'[c] = Nil => heap[c] = Nil
      /\ \A c \in DOMAIN heap' \ DOMAIN heap : heap'[c] # Nil \/ c \in DOMAIN typeOf'
  OBVIOUS
<1>2. UNCHANGED <<ptr, place>> \/ heap'[place'.obj] # Nil
  OBVIOUS
<1>3. \A v \in SliceVars : slices'[v] = slices[v] \/ SliceFilled(heap', slices'[v])
  OBVIOUS
<1> QED BY ONLY Inv, Filled, reg' # Nil, <1>1, <1>2, <1>3, FilledStep

\* What all steps have in common that only move the pointer.
LEMMA PointStep ==
  ASSUME Inv, Filled, UNCHANGED <<heap, typeOf, reg, regType, slices>>, heap[place'.obj] # Nil
  PROVE  Filled' /\ UNCHANGED <<GoMem, GoReg, GoSlices>>
<1>1. Filled'
  BY FilledStays DEF Filled
<1> QED BY <1>1, SeenSame

\* A variable is designated.
LEMMA UseVarSeen ==
  ASSUME Inv, Filled, NEW o \in DOMAIN typeOf, UseVar(o)
  PROVE  Filled' /\ GoSpec!Point
<1>1. heap[o] # Nil /\ place' = NewSpot(o) /\ place'.obj = o /\ UNCHANGED <<heap, typeOf, reg, regType, slices>>
  BY DEF UseVar, NewSpot
<1>2. Filled' /\ UNCHANGED <<GoMem, GoReg, GoSlices>>
  BY <1>1, PointStep
<1>3. o \in DOMAIN GoMem
  BY <1>1 DEF GoMem
<1> QED BY <1>1, <1>2, <1>3 DEF GoSpec!Point, GoSpec!NewSpot, NewSpot

\* A field or an element of what is designated.
LEMMA FieldAddrSeen ==
  ASSUME Inv, Filled, NEW i \in 1 .. 2, FieldAddr(i)
  PROVE  Filled' /\ GoSpec!Point
<1>1. ptr # 0 /\ place' = [place EXCEPT !.path = Append(@, i)] /\ UNCHANGED <<heap, typeOf, reg, regType, slices>>
  BY DEF FieldAddr
<1>2. place = [obj |-> place.obj, path |-> place.path]
  BY <1>1 DEF Inv, Pointing, IsSpot
<1>3. place'.obj = place.obj
  BY <1>1, <1>2
<1>4. Filled' /\ UNCHANGED <<GoMem, GoReg, GoSlices>>
  BY <1>1, <1>3, PointStep DEF Filled
<1> QED BY <1>1, <1>4 DEF GoSpec!Point

\* An element of a slice.
LEMMA IndexAddrSeen ==
  ASSUME Inv, Filled, NEW v \in SliceVars, NEW i \in 1 .. slices[v].len, IndexAddr(v, i)
  PROVE  Filled' /\ GoSpec!Point
<1>1. place' = slices[v].spots[i] /\ UNCHANGED <<heap, typeOf, reg, regType, slices>>
  BY DEF IndexAddr
<1>2. PICK own : Pointing(own)
  BY DEF Inv
<1>3. SliceLengths(slices[v])
  BY <1>2, SliceNumbers DEF Pointing
<1>4. i \in DOMAIN slices[v].spots /\ i <= slices[v].len
  BY <1>3 DEF SliceLengths
<1>5. Filled' /\ UNCHANGED <<GoMem, GoReg, GoSlices>>
  BY <1>1, <1>4, PointStep DEF Filled, SliceFilled
<1>6. v \in DOMAIN GoSlices /\ GoSlices[v].len = slices[v].len /\ GoSlices[v].spots = slices[v].spots
  BY DEF GoSlices
<1> QED BY <1>1, <1>5, <1>6 DEF GoSpec!Point

\* A constant is a scalar.
LEMMA ConstSeen ==
  ASSUME Inv, Filled, NEW n \in Nat, Const(n)
  PROVE  Filled' /\ GoSpec!Scalar
<1>1. reg' = Num(n) /\ regType' = {} /\ UNCHANGED <<heap, typeOf, ptr, place, slices>>
  BY DEF Const
<1>2. Filled'
  BY <1>1, FilledStays DEF Num, Nil
<1>3. PICK r : r = Num(n)
  OBVIOUS
<1>4. ValueIn(heap, r, {}) = [q \in Leaves({}) |-> (IF q = <<>> THEN r ELSE heap[[x \in {} |-> 0][q]]).n]
  <2>1. IsTree(r, {}, [x \in {} |-> 0], heap)
    BY <1>3, ScalarTree DEF Num
  <2> QED BY <2>1, EmptyFormed, ValueIs
<1>5. GoReg' = [q \in {<<>>} |-> n]
  <2>1. GoReg' = ValueIn(heap, r, {})
    BY <1>1, <1>3, SeenNext
  <2>2. r.n = n
    BY <1>3 DEF Num
  <2> QED BY <1>4, <2>1, <2>2, ScalarLeaves
<1>6. GoReg' \in [{<<>>} -> Nat]
  BY <1>5
<1> QED BY <1>1, <1>2, <1>6, SeenSame DEF GoSpec!Scalar

\* A field of the value at hand.
LEMMA FieldSeen ==
  ASSUME Inv, Filled, NEW i \in 1 .. 2, Field(i)
  PROVE  Filled' /\ GoSpec!Field
<1>1. /\ reg.tag = "agg" /\ i \in DOMAIN reg.cells /\ reg' = heap[reg.cells[i]]
      /\ regType' = Sub(regType, <<i>>) /\ UNCHANGED <<heap, typeOf, ptr, place, slices>>
  BY DEF Field
<1>2. PICK own, rl : Separate(own, rl)
  BY DEF Inv
<1>3. PICK p : p = <<i>>
  OBVIOUS
<1>4. PICK T : T = regType
  OBVIOUS
<1>5. Formed(T) /\ IsTree(reg, T, rl, heap)
  BY <1>2, <1>4 DEF Inv, Scope, Separate
<1>6. i \in Place /\ reg.cells[i] = rl[p] /\ p \in T /\ p # <<>> /\ p \in Path
  <2>1. Kids(T, <<>>) = DOMAIN reg.cells /\ reg.cells[i] = rl[Append(<<>>, i)]
    BY <1>1, <1>5 DEF IsTree, Node
  <2>2. i \in Place /\ Append(<<>>, i) \in T
    BY <1>1, <2>1 DEF Kids
  <2>3. <<i>> \in Path /\ Append(<<>>, i) = <<i>> /\ <<i>> # <<>>
    BY <2>2, EmptySeq DEF Path
  <2> QED BY <1>3, <2>1, <2>2, <2>3
<1>7. PICK L : L = [s \in Sub(T, p) |-> rl[p \o s]]
  OBVIOUS
<1>8. IsTree(reg', Sub(T, p), L, heap)
  <2>1. IsTree(IF p = <<>> THEN reg ELSE heap[rl[p]], Sub(T, p), L, heap)
    BY <1>5, <1>6, <1>7, TreeAt
  <2> QED BY <1>1, <1>6, <2>1
<1>9. Filled'
  <2>1. reg' # Nil
    BY <1>1, <1>2, <1>4, <1>6, PartsFilled
  <2> QED BY <1>1, <2>1, FilledStays
<1>10. Formed(Sub(T, p)) /\ \A s \in Leaves(Sub(T, p)) : p \o s \in Leaves(T) /\ s \in Path
  BY <1>5, <1>6, LeavesOfSub
<1>11. PICK y : y = GoReg
  OBVIOUS
<1>12. y = [q \in Leaves(T) |-> (IF q = <<>> THEN reg ELSE heap[rl[q]]).n]
  BY <1>4, <1>5, <1>11, SeenNow, ValueIs
<1>13. GoReg' = [q \in Leaves(Sub(T, p)) |-> (IF q = <<>> THEN reg' ELSE heap[L[q]]).n]
  <2>1. PICK z : z = reg'
    OBVIOUS
  <2>2. GoReg' = ValueIn(heap, z, Sub(T, p))
    BY <1>1, <1>3, <1>4, <2>1, SeenNext
  <2>3. ValueIn(heap, z, Sub(T, p)) = [q \in Leaves(Sub(T, p)) |-> (IF q = <<>> THEN z ELSE heap[L[q]]).n]
    <3>1. IsTree(z, Sub(T, p), L, heap)
      BY <1>8, <2>1
    <3> QED BY <1>10, <3>1, ValueIs
  <2> QED BY <2>1, <2>2, <2>3
<1>14. ASSUME NEW s \in Leaves(Sub(T, p)) PROVE (IF s = <<>> THEN reg' ELSE heap[L[s]]).n = y[p \o s]
  <2>1. p \o s \in Leaves(T) /\ s \in Sub(T, p) \cup {<<>>}
    BY <1>10, LeafKids
  <2>2. p \o s # <<>>
    BY <1>6, <1>10, Joined
  <2>3. y[p \o s] = heap[rl[p \o s]].n
    BY <1>12, <2>1, <2>2
  <2>4. CASE s = <<>>
    BY <1>1, <1>6, <2>3, <2>4, Joined
  <2>5. CASE s # <<>>
    <3>1. L[s] = rl[p \o s]
      BY <1>7, <2>1, <2>5
    <3> QED BY <2>3, <2>5, <3>1
  <2> QED BY <2>4, <2>5
<1>15. GoReg' = PartOf(y, T, p)
  BY <1>13, <1>14 DEF PartOf
<1>16. PICK spot, m : spot = [obj |-> 1, path |-> p] /\ m = <<y>>
  OBVIOUS
<1>17. GoSpec!Read(m, spot) = PartOf(y, T, p)
  <2>1. spot.obj = 1 /\ spot.path = p /\ m[1] = y
    BY <1>16
  <2>2. DOMAIN y = Leaves(T)
    BY <1>12
  <2>3. spot.path \in T \cup {<<>>} /\ DOMAIN m[spot.obj] = Leaves(T)
    BY <1>6, <2>1, <2>2
  <2>4. GoSpec!Read(m, spot) = PartOf(m[spot.obj], T, spot.path)
    BY <1>5, <2>3, ReadIs
  <2> QED BY <2>1, <2>4
<1>18. GoReg' = GoSpec!Read(<<GoReg>>, [obj |-> 1, path |-> <<i>>])
  BY <1>3, <1>11, <1>15, <1>16, <1>17
<1> QED BY <1>1, <1>9, <1>18, SeenSame DEF GoSpec!Field

\* A reslicing.
LEMMA SliceSliceSeen ==
  ASSUME Inv, Filled, NEW v \in SliceVars, NEW u \in SliceVars, NEW l \in Nat, NEW h \in Nat, NEW m \in Nat,
         SliceSlice(v, u, l, h, m), ~exposed'
  PROVE  Filled' /\ GoSpec!Slice(v)
<1>1. PICK own, rl : Separate(own, rl) /\ Pointing(own)
  BY DEF Inv
<1>2. PICK x : x = [cells |-> SubSeq(slices[u].cells, l + 1, m), len |-> h - l,
                    spots |-> SubSeq(slices[u].spots, l + 1, m)]
  OBVIOUS
<1>3. /\ Scope /\ l <= h /\ h <= m /\ m <= Len(slices[u].cells)
      /\ \A i \in l + 1 .. h : heap[slices[u].cells[i]] # Nil
      /\ slices' = [slices EXCEPT ![v] = x]
      /\ UNCHANGED <<heap, typeOf, ptr, place, reg, regType>>
  BY <1>2 DEF SliceSlice, Inv
<1>4. SliceOK(own, slices[u]) /\ SliceLengths(slices[u]) /\ SliceFilled(heap, slices[u])
      /\ slices = [t \in SliceVars |-> slices[t]]
  BY <1>1, SliceNumbers DEF Pointing, Filled
<1>5. /\ IsSeq(x.spots) /\ Len(x.spots) = m - l /\ DOMAIN x.spots = 1 .. m - l
      /\ \A i \in 1 .. m - l : x.spots[i] = slices[u].spots[l + 1 + i - 1]
  <2>1. l + 1 \in Nat \ {0} /\ l + 1 <= m + 1 /\ m - (l + 1) + 1 = m - l
    BY <1>3
  <2>2. /\ IsSeq(x.spots) /\ Len(x.spots) = m - l
        /\ \A i \in 1 .. m - l : x.spots[i] = slices[u].spots[l + 1 + i - 1]
    BY <1>2, <1>3, <1>4, <2>1, SubSeqIs DEF SliceLengths
  <2> QED BY <2>2, SeqIs
<1>6. ASSUME NEW i \in 1 .. m - l
      PROVE  l + i \in DOMAIN slices[u].spots /\ x.spots[i] = slices[u].spots[l + i] /\ l + 1 + i - 1 = l + i
  <2>1. l + 1 + i - 1 = l + i /\ l + i \in 1 .. Len(slices[u].cells)
    BY <1>3, <1>4 DEF SliceLengths
  <2> QED BY <1>4, <1>5, <2>1 DEF SliceLengths
<1>7. SliceFilled(heap, x)
  <2>1. ASSUME NEW i \in 1 .. m - l, i <= h - l PROVE heap[x.spots[i].obj] # Nil
    <3>1. l + i \in l + 1 .. h
      BY <1>3, <2>1
    <3>2. PICK j : j = l + i
      OBVIOUS
    <3>3. j \in 1 .. Len(slices[u].cells) /\ x.spots[i] = slices[u].spots[j] /\ heap[slices[u].cells[j]] # Nil
      BY <1>3, <1>4, <1>6, <3>1, <3>2 DEF SliceLengths
    <3>4. IsSpot(x.spots[i]) /\ slices[u].cells[j] = At(own, x.spots[i])
      BY <1>4, <3>3 DEF SliceOK
    <3> QED BY <1>1, <1>3, <3>3, <3>4, SpotFilled
  <2>2. ASSUME NEW i \in 1 .. m - l, NEW j \in 1 .. m - l, x.spots[i] = x.spots[j] PROVE i = j
    <3>1. l + i = l + j
      BY <1>4, <1>6, <2>2 DEF SliceFilled
    <3> QED BY <3>1
  <2>3. x.len = h - l
    BY <1>2
  <2> QED BY <1>5, <2>1, <2>2, <2>3 DEF SliceFilled
<1>8. Filled'
  <2>1. reg' # Nil
    BY <1>3 DEF Filled
  <2>2. \A t \in SliceVars : slices'[t] = slices[t] \/ SliceFilled(heap, slices'[t])
    <3>1. slices'[v] = x /\ \A t \in SliceVars : t # v => slices'[t] = slices[t]
      BY <1>3, <1>4
    <3> QED BY <1>7, <3>1
  <2> QED BY <1>3, <2>1, <2>2, FilledStays
<1>9. /\ DOMAIN GoSlices = SliceVars
      /\ GoSlices' = [GoSlices EXCEPT ![v] = GoSlices'[v]]
      /\ GoSlices'[v] = [spots |-> x.spots, len |-> x.len]
      /\ GoSlices[u].spots = slices[u].spots
  <2>1. SeesSlice(v, x)
    BY <1>3, <1>4, SeenSlice DEF GetsSlice
  <2> QED BY <2>1 DEF SeesSlice
<1>10. x.spots = SubSeq(GoSlices[u].spots, l + 1, m) /\ x.len = h - l
  BY <1>2, <1>9
<1>11. m \in 0 .. Len(GoSlices[u].spots) /\ h \in 0 .. m /\ l \in 0 .. m
  BY <1>3, <1>4, <1>9 DEF SliceLengths
<1>12. GoSlices' = [GoSlices EXCEPT ![v] = [spots |-> SubSeq(GoSlices[u].spots, l + 1, m), len |-> h - l]]
  BY <1>9, <1>10
<1>13. UNCHANGED <<GoMem, place, GoReg>>
  BY <1>3, SeenSame
<1> QED BY <1>3, <1>8, <1>9, <1>11, <1>12, <1>13 DEF GoSpec!Slice

\* A slice of an array.
LEMMA SliceArraySeen ==
  ASSUME Inv, Filled, NEW v \in SliceVars, SliceArray(v)
  PROVE  Filled' /\ GoSpec!SliceArray(v)
<1>1. PICK x, n : /\ n = Len(heap[ptr].cells)
                  /\ x = [cells |-> heap[ptr].cells, len |-> n,
                          spots |-> [i \in 1 .. n |-> [place EXCEPT !.path = Append(@, i)]]]
  OBVIOUS
<1>2. /\ ptr # 0 /\ heap[ptr].tag = "agg"
      /\ slices' = [slices EXCEPT ![v] = x]
      /\ UNCHANGED <<heap, typeOf, ptr, place, reg, regType>>
  BY <1>1 DEF SliceArray
<1>3. PICK own, rl : Scope /\ Separate(own, rl) /\ Pointing(own)
  BY DEF Inv
<1>4. IsSpot(place) /\ ptr = At(own, place) /\ slices = [t \in SliceVars |-> slices[t]]
  BY <1>2, <1>3 DEF Pointing
<1>5. n \in Nat
  <2>1. PICK S, M : Formed(S) /\ IsTree(heap[ptr], S, M, heap)
    BY <1>3, <1>4, SpotTree
  <2>2. heap[ptr].cells = [i \in DOMAIN heap[ptr].cells |-> heap[ptr].cells[i]]
        /\ DOMAIN heap[ptr].cells = Kids(S, <<>>)
    BY <1>2, <2>1 DEF IsTree, Node
  <2>3. PICK w \in Nat : Kids(S, <<>>) = 1 .. w
    <3>1. <<>> \in Path
      BY EmptySeq DEF Path
    <3> QED BY <2>1, <3>1, KidsNumbered
  <2>4. IsSeq(heap[ptr].cells)
    BY <2>2, <2>3 DEF IsSeq
  <2> QED BY <1>1, <2>4, SeqIs
<1>6. place.path \in Path /\ place = [obj |-> place.obj, path |-> place.path]
  <2>1. Formed(typeOf[place.obj]) /\ place.path \in typeOf[place.obj] \cup {<<>>} /\ <<>> \in Path
    BY <1>3, <1>4, EmptySeq DEF IsSpot, Scope, Path
  <2> QED BY <1>4, <2>1 DEF Formed, IsSpot
<1>7. ASSUME NEW i \in 1 .. n
      PROVE  x.spots[i].obj = place.obj /\ x.spots[i].path = Append(place.path, i)
  BY <1>1, <1>6
<1>8. SliceFilled(heap, x)
  <2>1. heap[place.obj] # Nil
    BY <1>2 DEF Filled
  <2>2. ASSUME NEW i \in 1 .. n, NEW j \in 1 .. n, x.spots[i] = x.spots[j] PROVE i = j
    <3>1. Append(place.path, i) = Append(place.path, j)
      BY <1>7, <2>2
    <3>2. i \in Place /\ j \in Place
      BY <1>5 DEF Place
    <3> QED BY <1>6, <3>1, <3>2, WholeOfAppend
  <2>3. DOMAIN x.spots = 1 .. n
    BY <1>1
  <2> QED BY <1>7, <2>1, <2>2, <2>3 DEF SliceFilled
<1>9. Filled'
  <2>1. reg' # Nil
    BY <1>2 DEF Filled
  <2>2. \A t \in SliceVars : slices'[t] = slices[t] \/ SliceFilled(heap, slices'[t])
    <3>1. slices'[v] = x /\ \A t \in SliceVars : t # v => slices'[t] = slices[t]
      BY <1>2, <1>4
    <3> QED BY <1>8, <3>1
  <2> QED BY <1>2, <2>1, <2>2, FilledStays
<1>10. /\ GoSlices' = [GoSlices EXCEPT ![v] = GoSlices'[v]]
       /\ GoSlices'[v] = [spots |-> x.spots, len |-> x.len]
  <2>1. SeesSlice(v, x)
    BY <1>2, <1>4, SeenSlice DEF GetsSlice
  <2> QED BY <2>1 DEF SeesSlice
<1>11. x.len = n /\ x.spots = [i \in 1 .. n |-> [place EXCEPT !.path = Append(@, i)]] /\ Len(x.spots) = n
  BY <1>1, <1>5
<1>12. Len(GoSlices'[v].spots) = n
  <2>1. GoSlices'[v].spots = x.spots
    BY <1>10
  <2> QED BY <1>11, <2>1
<1>13. GoSlices' = [GoSlices EXCEPT ![v] = [spots |-> [i \in 1 .. n |-> [place EXCEPT !.path = Append(@, i)]], len |-> n]]
  <2>1. [spots |-> x.spots, len |-> x.len]
          = [spots |-> [i \in 1 .. n |-> [place EXCEPT !.path = Append(@, i)]], len |-> n]
    BY <1>11
  <2> QED BY <1>10, <2>1
<1>14. UNCHANGED <<GoMem, place, GoReg>>
  BY <1>2, SeenSame
<1> QED BY <1>9, <1>12, <1>13, <1>14 DEF GoSpec!SliceArray

\* A slot of a variable is one.
LEMMA SlotIn ==
  ASSUME NEW h, NEW ty, NEW own, Owned(h, ty, own), NEW o \in DOMAIN ty, NEW q, q \in ty[o] \cup {<<>>}
  PROVE  Slot(own, o, q) \in DOMAIN h
BY DEF Owned, IsTree, Slot

\* A slot has one variable, and one place in it.
LEMMA SlotOne ==
  ASSUME NEW ty, NEW own, Apart(ty, own), NEW o \in DOMAIN ty, NEW q, q \in ty[o] \cup {<<>>},
         NEW p \in DOMAIN ty, NEW r, r \in ty[p] \cup {<<>>}, Slot(own, o, q) = Slot(own, p, r)
  PROVE  o = p /\ q = r
BY DEF Apart

-----------------------------------------------------------------------------
\* Load and store --------------------------------------------------------------------

\* The parts of what is at a spot are in the slots of its variable.
LEMMA SpotParts ==
  ASSUME Scope, NEW own, NEW rl, Separate(own, rl), NEW s, IsSpot(s), NEW S, S = Sub(typeOf[s.obj], s.path),
         NEW a, a = At(own, s), NEW t \in S \cup {<<>>}
  PROVE  /\ s.path \o t \in typeOf[s.obj] \cup {<<>>}
         /\ CellAt(a, t) = Slot(own, s.obj, s.path \o t)
         /\ Part(heap[a], t) = heap[Slot(own, s.obj, s.path \o t)]
<1>1. PICK M : /\ Formed(S) /\ IsTree(heap[a], S, M, heap)
               /\ \A r \in S : M[r] = own[s.obj][s.path \o r]
  BY SpotTree
<1>2. /\ s.obj \in DOMAIN typeOf /\ Formed(typeOf[s.obj]) /\ s.path \in typeOf[s.obj] \cup {<<>>}
      /\ typeOf[s.obj] \subseteq Path /\ s.path \in Path
  <2>1. s.obj \in DOMAIN typeOf /\ Formed(typeOf[s.obj]) /\ s.path \in typeOf[s.obj] \cup {<<>>}
    BY DEF IsSpot, Scope
  <2>2. typeOf[s.obj] \subseteq Path /\ <<>> \in Path
    BY <2>1, EmptySeq DEF Formed, Path
  <2> QED BY <2>1, <2>2
<1>3. CellAt(a, t) = IF t = <<>> THEN a ELSE M[t]
  <2>1. \A r \in S \cup {<<>>} : CellAt(a, r) = IF r = <<>> THEN a ELSE M[r]
    <3>1. Formed(S) /\ IsTree(heap[a], S, M, heap)
      BY <1>1
    <3> QED BY ONLY <3>1, CellIs
  <2> QED BY <2>1
<1>4. Part(heap[a], t) = IF t = <<>> THEN heap[a] ELSE heap[M[t]]
  <2>1. PICK v : v = heap[a]
    OBVIOUS
  <2>2. IsTree(v, S, M, heap)
    BY <1>1, <2>1
  <2>3. Part(v, t) = IF t = <<>> THEN v ELSE heap[M[t]]
    BY <1>1, <2>2, PartIs
  <2> QED BY <2>1, <2>3
<1>5. CASE t = <<>>
  <2>1. s.path \o t = s.path
    BY <1>2, <1>5, EmptySeq, Joined DEF Path
  <2>2. a = Slot(own, s.obj, s.path)
    BY DEF At, Slot
  <2> QED BY <1>2, <1>3, <1>4, <1>5, <2>1, <2>2
<1>6. CASE t # <<>>
  <2>1. t \in S
    BY <1>6
  <2>2. t \in Path /\ s.path \o t \in typeOf[s.obj]
    BY <1>2, <2>1, SubIs
  <2>3. s.path \o t # <<>>
    BY <1>2, <1>6, <2>2, Joined
  <2>4. M[t] = Slot(own, s.obj, s.path \o t)
    BY <1>1, <2>1, <2>3 DEF Slot
  <2> QED BY <1>3, <1>4, <1>6, <2>2, <2>4
<1> QED BY <1>5, <1>6

\* The value at hand is seen as it was if its slots are.
LEMMA RegisterSame ==
  ASSUME Scope, NEW own, NEW rl, Separate(own, rl), NEW k, DOMAIN heap \subseteq DOMAIN k,
         \A q \in regType : k[rl[q]] = heap[rl[q]]
  PROVE  ValueIn(k, reg, regType) = GoReg
<1>1. Formed(regType) /\ IsTree(reg, regType, rl, heap)
  BY DEF Scope, Separate
<1>2. IsTree(reg, regType, rl, k)
  <2>1. PICK v, T : v = reg /\ T = regType
    OBVIOUS
  <2>2. IsTree(v, T, rl, heap) /\ Same(v, v) /\ \A q \in T : Same(heap[rl[q]], k[rl[q]])
    BY <1>1, <2>1 DEF Same
  <2>3. IsTree(v, T, rl, k)
    BY ONLY <2>2, DOMAIN heap \subseteq DOMAIN k, TreeKept
  <2> QED BY <2>1, <2>3
<1>3. ASSUME NEW T, T = regType, NEW v, v = reg PROVE ValueIn(k, v, T) = ValueIn(heap, v, T)
  <2>1. /\ ValueIn(heap, v, T) = [q \in Leaves(T) |-> (IF q = <<>> THEN v ELSE heap[rl[q]]).n]
        /\ ValueIn(k, v, T) = [q \in Leaves(T) |-> (IF q = <<>> THEN v ELSE k[rl[q]]).n]
    BY <1>1, <1>2, <1>3, ValueIs
  <2>2. ASSUME NEW q \in Leaves(T)
        PROVE  (IF q = <<>> THEN v ELSE heap[rl[q]]).n = (IF q = <<>> THEN v ELSE k[rl[q]]).n
    <3>1. q \in T \cup {<<>>}
      BY <1>1, <1>3, LeafKids
    <3> QED BY <1>3, <3>1
  <2> QED BY <2>1, <2>2
<1> QED BY <1>3, SeenNow

\* The value at hand's slots are not those of a variable.
LEMMA RegisterApart ==
  ASSUME NEW own, NEW rl, Separate(own, rl), NEW r \in regType, NEW o \in DOMAIN typeOf,
         NEW q \in typeOf[o] \cup {<<>>}
  PROVE  rl[r] # Slot(own, o, q)
BY DEF Separate, Slot

\* What store does to the slots.
LEMMA StoreIs ==
  ASSUME Scope, NEW own, NEW rl, Separate(own, rl), Pointing(own), Store, NEW c \in DOMAIN heap
  PROVE  \/ \E t \in Leaves(regType) : c = Slot(own, place.obj, place.path \o t) /\ heap'[c] = Part(reg, t)
         \/ /\ \A t \in Leaves(regType) : c # Slot(own, place.obj, place.path \o t)
            /\ heap'[c] = heap[c]
<1>1. /\ ptr # 0 /\ IsSpot(place) /\ ptr = At(own, place) /\ regType = Sub(typeOf[place.obj], place.path)
      /\ Formed(regType)
  BY DEF Pointing, Store, PtrType, Scope
<1>2. \A t \in Leaves(regType) : t \in regType \cup {<<>>}
  BY <1>1, LeafKids
<1>3. \A t \in Leaves(regType) : CellAt(ptr, t) = Slot(own, place.obj, place.path \o t)
  <2>1. PICK s, S, a : s = place /\ S = regType /\ a = ptr
    OBVIOUS
  <2>2. IsSpot(s) /\ S = Sub(typeOf[s.obj], s.path) /\ a = At(own, s)
    BY <1>1, <2>1
  <2>3. \A t \in S \cup {<<>>} : CellAt(a, t) = Slot(own, s.obj, s.path \o t)
    BY <2>2, SpotParts
  <2> QED BY <1>2, <2>1, <2>3
<1> DEFINE hit == {q \in Leaves(regType) : CellAt(ptr, q) = c}
<1>4. heap'[c] = IF hit = {} THEN heap[c] ELSE Part(reg, CHOOSE q \in hit : TRUE)
  BY DEF Store
<1>5. CASE hit = {}
  BY <1>3, <1>4, <1>5
<1>6. CASE hit # {}
  <2>1. PICK q : q = (CHOOSE r \in hit : TRUE) /\ q \in hit
    BY <1>6
  <2>2. heap'[c] = Part(reg, q) /\ q \in Leaves(regType) /\ CellAt(ptr, q) = c
    BY <1>4, <1>6, <2>1
  <2> QED BY <1>3, <2>2
<1> QED BY <1>5, <1>6

\* store writes the value at hand to the spot.
LEMMA StoreSeen ==
  ASSUME Inv, Filled, Store
  PROVE  Filled' /\ GoSpec!Store
<1>1. PICK own, rl : Scope /\ Separate(own, rl) /\ Pointing(own)
  BY DEF Inv
<1>2. /\ ptr # 0 /\ IsSpot(place) /\ ptr = At(own, place) /\ regType = Sub(typeOf[place.obj], place.path)
      /\ UNCHANGED <<typeOf, ptr, place, reg, regType, slices>>
  BY <1>1 DEF Pointing, Store, PtrType
<1>3. PICK s, S, T : s = place /\ S = regType /\ T = typeOf[s.obj]
  OBVIOUS
<1>4. /\ S = Sub(T, s.path) /\ s.obj \in DOMAIN typeOf /\ s.path \in T \cup {<<>>} /\ Formed(T) /\ Formed(S)
      /\ heap[s.obj] # Nil
  BY <1>1, <1>2, <1>3 DEF IsSpot, Scope, Filled
<1>5. /\ DOMAIN heap' = DOMAIN heap
      /\ \A c \in DOMAIN heap : Same(heap[c], heap'[c])
  BY <1>1, StoreScalars
<1>6. Owned(heap, typeOf, own) /\ Apart(typeOf, own)
  BY <1>1, OwnedNow
<1>7. PICK k : k = heap'
  OBVIOUS
<1>8. Owned(k, typeOf, own)
  BY <1>5, <1>6, <1>7, OwnedKept
<1>9. ASSUME NEW t \in Leaves(S)
      PROVE  t \in S \cup {<<>>} /\ s.path \o t \in T \cup {<<>>} /\ Slot(own, s.obj, s.path \o t) \in DOMAIN heap
  <2>1. t \in S \cup {<<>>}
    BY <1>4, LeafKids
  <2>2. s.path \o t \in T \cup {<<>>}
    <3>1. PICK a : a = At(own, s)
      OBVIOUS
    <3>2. IsSpot(s)
      BY <1>2, <1>3
    <3> QED BY <1>1, <1>3, <1>4, <2>1, <3>1, <3>2, SpotParts
  <2>3. IsTree(heap[s.obj], T, own[s.obj], heap) /\ s.obj \in DOMAIN heap
    BY <1>3, <1>4, <1>6 DEF Owned
  <2> QED BY <2>1, <2>2, <2>3 DEF Slot, IsTree
<1>10. \A t \in Leaves(S), u \in Leaves(S) : Slot(own, s.obj, s.path \o t) = Slot(own, s.obj, s.path \o u) => t = u
  <2> SUFFICES ASSUME NEW t \in Leaves(S), NEW u \in Leaves(S),
                      Slot(own, s.obj, s.path \o t) = Slot(own, s.obj, s.path \o u)
               PROVE  t = u
    OBVIOUS
  <2>1. s.path \o t = s.path \o u
    <3>1. /\ s.obj \in DOMAIN typeOf /\ s.path \o t \in typeOf[s.obj] \cup {<<>>}
          /\ s.path \o u \in typeOf[s.obj] \cup {<<>>}
      BY <1>3, <1>4, <1>9
    <3>2. Slot(own, s.obj, s.path \o t) = Slot(own, s.obj, s.path \o u)
      OBVIOUS
    <3>3. PICK p, x, y : p = s.obj /\ x = s.path \o t /\ y = s.path \o u
      OBVIOUS
    <3>4. p \in DOMAIN typeOf /\ x \in typeOf[p] \cup {<<>>} /\ y \in typeOf[p] \cup {<<>>} /\ Slot(own, p, x) = Slot(own, p, y)
      BY <3>1, <3>2, <3>3
    <3>5. x = y
      BY <1>6, <3>4, SlotOne
    <3> QED BY <3>3, <3>5
  <2>2. t \in Path /\ u \in Path /\ s.path \in Path
    <3>1. S \subseteq Path /\ T \subseteq Path /\ <<>> \in Path
      BY <1>4, EmptySeq DEF Formed, Path
    <3> QED BY <1>4, <1>9, <3>1
  <2>3. From(s.path, s.path \o t) = t /\ From(s.path, s.path \o u) = u
    BY <2>2, Joined
  <2> QED BY <2>1, <2>3
<1>11. \A c \in DOMAIN heap :
         \/ \E t \in Leaves(S) : c = Slot(own, s.obj, s.path \o t) /\ k[c] = Part(reg, t)
         \/ /\ \A t \in Leaves(S) : c # Slot(own, s.obj, s.path \o t)
            /\ k[c] = heap[c]
  BY <1>1, <1>3, <1>7, StoreIs
<1>12. ASSUME NEW t \in Leaves(S)
       PROVE  k[Slot(own, s.obj, s.path \o t)] = Part(reg, t) /\ Part(reg, t) # Nil
  <2>1. k[Slot(own, s.obj, s.path \o t)] = Part(reg, t)
    BY <1>9, <1>10, <1>11
  <2>2. PICK v : v = reg
    OBVIOUS
  <2>3. Part(v, t) = IF t = <<>> THEN v ELSE heap[rl[t]]
    <3>1. IsTree(v, S, rl, heap)
      BY <1>1, <1>3, <2>2 DEF Separate
    <3> QED BY <1>4, <1>9, <3>1, PartIs
  <2>4. Part(reg, t) # Nil
    BY <1>1, <1>3, <1>9, <2>2, <2>3, PartsFilled
  <2> QED BY <2>1, <2>4
<1>13. PICK val : val = GoReg
  OBVIOUS
<1>14. val = Shown(k, own, s.obj, s.path, S)
  <2>1. val = [q \in Leaves(S) |-> Part(reg, q).n]
    BY <1>3, <1>13 DEF GoReg, ValueOf
  <2> QED BY <1>12, <2>1 DEF Shown
<1>15. ASSUME NEW o \in DOMAIN typeOf, NEW q \in typeOf[o] \cup {<<>>}
       PROVE  \/ o = s.obj /\ \E t \in Leaves(S) : q = s.path \o t
              \/ k[Slot(own, o, q)] = heap[Slot(own, o, q)]
  <2>1. Slot(own, o, q) \in DOMAIN heap
    BY <1>6, SlotIn
  <2>2. ASSUME NEW t \in Leaves(S), Slot(own, o, q) = Slot(own, s.obj, s.path \o t)
        PROVE  o = s.obj /\ q = s.path \o t
    <3>1. s.obj \in DOMAIN typeOf /\ s.path \o t \in typeOf[s.obj] \cup {<<>>}
      BY <1>3, <1>4, <1>9
    <3>2. PICK p, r : p = s.obj /\ r = s.path \o t
      OBVIOUS
    <3>3. p \in DOMAIN typeOf /\ r \in typeOf[p] \cup {<<>>} /\ Slot(own, o, q) = Slot(own, p, r)
      BY <2>2, <3>1, <3>2
    <3>4. o = p /\ q = r
      BY <1>6, <3>3, SlotOne
    <3> QED BY <3>2, <3>4
  <2>3. PICK c : c = Slot(own, o, q)
    OBVIOUS
  <2>4. \/ \E t \in Leaves(S) : c = Slot(own, s.obj, s.path \o t)
        \/ k[c] = heap[c]
    BY <1>11, <2>1, <2>3
  <2> QED BY <2>2, <2>3, <2>4
<1>16. ASSUME NEW c \in DOMAIN heap, k[c] = Nil PROVE heap[c] = Nil
  BY <1>11, <1>12, <1>16
<1>17. Holding(k, typeOf) = Holding(heap, typeOf) \cup {s.obj}
  <2>1. ASSUME NEW o \in DOMAIN typeOf PROVE k[o] = Nil <=> heap[o] = Nil
    <3>1. o \in DOMAIN heap
      BY <1>6 DEF Owned
    <3>2. CASE o = s.obj
      BY <1>4, <1>16, <3>1, <3>2
    <3>3. CASE o # s.obj
      BY <1>15, <3>3 DEF Slot
    <3> QED BY <3>2, <3>3
  <2> QED BY <1>4, <2>1 DEF Holding
<1>18. ASSUME NEW o \in Holding(heap, typeOf), NEW q \in Leaves(typeOf[o])
       PROVE  \/ o = s.obj /\ \E t \in Leaves(S) : q = s.path \o t
              \/ k[Slot(own, o, q)].n = heap[Slot(own, o, q)].n
  <2>1. o \in DOMAIN typeOf /\ Formed(typeOf[o])
    BY <1>6 DEF Holding, Owned
  <2>2. q \in typeOf[o] \cup {<<>>}
    BY <2>1, LeafKids
  <2> QED BY <1>15, <2>1, <2>2
<1>19. Wrote(heap, k, typeOf, own, s, val)
  BY <1>3, <1>4, <1>6, <1>8, <1>14, <1>17, <1>18 DEF Wrote, Holding
<1>20. MemIn(k, typeOf) = GoSpec!Write(MemIn(heap, typeOf), s, val)
  BY <1>19, WriteSpot
<1>21. GoMem' = GoSpec!Write(GoMem, place, GoReg)
  BY <1>2, <1>3, <1>7, <1>13, <1>20, SeenNow, SeenNext
<1>22. place.obj \in DOMAIN GoMem
  BY <1>3, <1>4 DEF GoMem
<1>23. DOMAIN GoReg = DOMAIN GoSpec!Read(GoMem, place)
  <2>1. s.obj \in Holding(heap, typeOf)
    BY <1>4 DEF Holding
  <2>2. GoSpec!Read(MemIn(heap, typeOf), s) = Shown(heap, own, s.obj, s.path, S)
    BY <1>3, <1>4, <1>6, <2>1, ReadSpot
  <2>3. DOMAIN val = Leaves(S) /\ DOMAIN Shown(heap, own, s.obj, s.path, S) = Leaves(S)
    BY <1>14 DEF Shown
  <2> QED BY <1>3, <1>13, <2>2, <2>3, SeenNow
<1>24. GoReg' = GoReg
  <2>1. ASSUME NEW q \in regType PROVE k[rl[q]] = heap[rl[q]]
    <3>1. rl[q] \in DOMAIN heap
      BY <1>1 DEF Separate, IsTree
    <3>2. \A t \in Leaves(S) : rl[q] # Slot(own, s.obj, s.path \o t)
      BY <1>1, <1>3, <1>4, <1>9, RegisterApart
    <3> QED BY <1>11, <3>1, <3>2
  <2>2. ValueIn(k, reg, regType) = GoReg
    BY <1>1, <1>5, <1>7, <2>1, RegisterSame
  <2> QED BY <1>2, <1>7, <2>2, SeenNext
<1>25. Filled'
  BY <1>2, <1>5, <1>7, <1>16, FilledStep DEF Filled
<1> QED BY <1>2, <1>21, <1>22, <1>23, <1>24, <1>25, SeenSame DEF GoSpec!Store

\* The parts of a zero value are values, the scalar ones zero.
LEMMA ZeroParts ==
  ASSUME NEW T, Formed(T), NEW base, NEW q \in T \cup {<<>>}
  PROVE  /\ PartAt(T, base, q) # Nil
         /\ q \in Leaves(T) => PartAt(T, base, q).n = 0
<1>1. q \in Path
  BY EmptySeq DEF Formed, Path
<1>2. PICK w \in Nat : w = Width(Sub(T, q)) /\ Kids(T, q) = 1 .. w
  BY <1>1, KidsNumbered
<1>3. CASE w = 0
  <2>1. PartAt(T, base, q) = Num(0)
    BY <1>2, <1>3 DEF PartAt
  <2> QED BY <2>1 DEF Num, Nil
<1>4. CASE w # 0
  <2>1. PartAt(T, base, q) = [tag |-> "agg", cells |-> [i \in 1 .. w |-> base + Number(T)[Append(q, i)]]]
    BY <1>2, <1>4 DEF PartAt
  <2>2. PartAt(T, base, q).tag = "agg" /\ Nil.tag = "nil"
    BY <2>1 DEF Nil
  <2>3. q \notin Leaves(T)
    <3>1. 1 \in Kids(T, q)
      BY <1>2, <1>4
    <3> QED BY <3>1, LeafKids
  <2> QED BY <2>2, <2>3
<1> QED BY <1>3, <1>4

\* Nothing happens to the variables when only new slots are written.
LEMMA SlotsAdded ==
  ASSUME Scope, NEW own, NEW rl, Separate(own, rl), NEW k, DOMAIN heap \subseteq DOMAIN k,
         \A c \in DOMAIN heap : k[c] = heap[c]
  PROVE  MemIn(k, typeOf) = GoMem
<1>1. Owned(heap, typeOf, own)
  BY OwnedNow
<1>2. Owned(k, typeOf, own)
  <2>1. \A c \in DOMAIN heap : Same(heap[c], k[c])
    BY DEF Same
  <2> QED BY <1>1, <2>1, OwnedKept
<1>3. Holding(heap, typeOf) = Holding(k, typeOf)
  BY <1>1 DEF Holding, Owned
<1>4. ASSUME NEW o \in Holding(heap, typeOf), NEW q \in Leaves(typeOf[o])
      PROVE  heap[Slot(own, o, q)].n = k[Slot(own, o, q)].n
  <2>1. o \in DOMAIN typeOf /\ Formed(typeOf[o])
    BY <1>1 DEF Holding, Owned
  <2>2. q \in typeOf[o] \cup {<<>>}
    BY <2>1, LeafKids
  <2> QED BY <1>1, <2>1, <2>2, SlotIn
<1>5. \A o \in Holding(heap, typeOf) :
        /\ typeOf[o] = typeOf[o]
        /\ \A q \in Leaves(typeOf[o]) : heap[Slot(own, o, q)].n = k[Slot(own, o, q)].n
  BY <1>4
<1>6. MemIn(heap, typeOf) = MemIn(k, typeOf)
  BY ONLY <1>1, <1>2, <1>3, <1>5, MemSame
<1> QED BY <1>6, SeenNow

\* load reads the spot.
LEMMA LoadSeen ==
  ASSUME Inv, Filled, Load
  PROVE  Filled' /\ GoSpec!Load
<1>1. PICK own, rl : Scope /\ Separate(own, rl) /\ Pointing(own)
  BY DEF Inv
<1>2. PICK T, s, a : T = PtrType /\ s = place /\ a = ptr
  OBVIOUS
<1>3. /\ IsSpot(s) /\ a = At(own, s) /\ T = Sub(typeOf[s.obj], s.path)
      /\ regType' = T /\ UNCHANGED <<typeOf, ptr, place, slices>>
      /\ s.obj \in DOMAIN typeOf /\ heap[s.obj] # Nil
  BY <1>1, <1>2 DEF Pointing, Load, PtrType, IsSpot, Filled
<1>4. PICK M : Formed(T) /\ IsTree(heap[a], T, M, heap)
  BY <1>1, <1>3, SpotTree
<1>5. PICK x : x = GoSpec!Read(GoMem, place)
  OBVIOUS
<1>6. x = [t \in Leaves(T) |-> heap[Slot(own, s.obj, s.path \o t)].n]
  <2>1. Owned(heap, typeOf, own) /\ s.obj \in Holding(heap, typeOf) /\ s.path \in typeOf[s.obj] \cup {<<>>}
    BY <1>1, <1>3, OwnedNow DEF Holding, IsSpot
  <2>2. GoSpec!Read(MemIn(heap, typeOf), s) = Shown(heap, own, s.obj, s.path, T)
    BY <1>3, <2>1, ReadSpot
  <2> QED BY <1>2, <1>5, <2>2, SeenNow DEF Shown
<1>7. ASSUME NEW t \in Leaves(T)
      PROVE  /\ t \in T \cup {<<>>} /\ Part(heap[a], t) = heap[Slot(own, s.obj, s.path \o t)]
             /\ Part(heap[a], t) # Nil
  <2>1. t \in T \cup {<<>>}
    BY <1>4, LeafKids
  <2>2. Part(heap[a], t) = heap[Slot(own, s.obj, s.path \o t)] /\ s.path \o t \in typeOf[s.obj] \cup {<<>>}
    BY <1>1, <1>3, <2>1, SpotParts
  <2>3. PICK r : r = s.path \o t
    OBVIOUS
  <2>4. heap[Slot(own, s.obj, r)] # Nil
    BY <1>1, <1>3, <2>2, <2>3, PartsFilled DEF Slot
  <2> QED BY <2>1, <2>2, <2>3, <2>4
<1>8. /\ GoReg' = x /\ GoMem' = GoMem /\ Filled'
  <2>1. CASE T = {}
    <3>1. reg' = heap[a] /\ heap' = heap
      <4>1. ~(PtrType # {})
        BY <1>2, <2>1
      <4> QED BY <1>2, <4>1 DEF Load
    <3>2. <<>> \in Leaves(T) /\ Leaves(T) = {<<>>}
      BY <2>1, ScalarLeaves
    <3>3. Part(heap[a], <<>>) = heap[a]
      <4>1. PICK v : v = heap[a]
        OBVIOUS
      <4>2. IsTree(v, T, M, heap) /\ <<>> \in T \cup {<<>>}
        BY <1>4, <4>1
      <4>3. Part(v, <<>>) = v
        BY <1>4, <4>2, PartIs
      <4> QED BY <4>1, <4>3
    <3>4. ValueIn(heap, heap[a], T) = [q \in Leaves(T) |-> (IF q = <<>> THEN heap[a] ELSE heap[M[q]]).n]
      BY <1>4, ValueIs
    <3>5. GoReg' = ValueIn(heap, heap[a], T)
      BY <1>3, <3>1, SeenNext
    <3>6. GoReg' = x
      <4>1. ASSUME NEW q \in Leaves(T)
            PROVE  (IF q = <<>> THEN heap[a] ELSE heap[M[q]]).n = heap[Slot(own, s.obj, s.path \o q)].n
        <5>1. q = <<>>
          BY <3>2
        <5>2. Part(heap[a], q) = heap[Slot(own, s.obj, s.path \o q)]
          BY <1>7
        <5> QED BY <3>3, <5>1, <5>2
      <4> QED BY <1>6, <3>4, <3>5, <4>1
    <3>7. reg' # Nil
      BY <1>7, <3>1, <3>2, <3>3
    <3>8. Filled'
      BY <1>3, <3>1, <3>7, FilledStays
    <3> QED BY <1>3, <3>1, <3>6, <3>8, SeenSame
  <2>2. CASE T # {}
    <3>1. PICK base, new, k : base = Len(heap) /\ new = [q \in T |-> base + Number(T)[q]] /\ k = heap'
      OBVIOUS
    <3>2. /\ reg' = Zero(T, base) /\ DOMAIN heap \subseteq DOMAIN k
          /\ \A c \in DOMAIN heap : k[c] = heap[c]
          /\ \A q \in T : /\ new[q] \in DOMAIN k \ DOMAIN heap
                          /\ k[new[q]] = IF q \in Leaves(T) THEN Part(heap[a], q) ELSE PartAt(T, base, q)
          /\ \A c \in DOMAIN k \ DOMAIN heap : \E q \in T : c = new[q]
      BY <1>1, <1>2, <1>4, <2>2, <3>1, LoadedSlots
    <3>3. PICK v : v = reg'
      OBVIOUS
    <3>4. IsTree(v, T, new, k)
      BY <1>1, <1>2, <2>2, <3>1, <3>3, LoadedTree
    <3>5. GoMem' = GoMem
      <4>1. MemIn(k, typeOf) = GoMem
        BY <1>1, <3>2, SlotsAdded
      <4> QED BY <1>3, <3>1, <4>1, SeenNext
    <3>6. GoReg' = x
      <4>1. ValueIn(k, v, T) = [q \in Leaves(T) |-> (IF q = <<>> THEN v ELSE k[new[q]]).n]
        BY <1>4, <3>4, ValueIs
      <4>2. ASSUME NEW q \in Leaves(T)
            PROVE  (IF q = <<>> THEN v ELSE k[new[q]]).n = heap[Slot(own, s.obj, s.path \o q)].n
        <5>1. q \in T /\ q # <<>>
          BY <1>4, <2>2 DEF Leaves, Formed
        <5>2. k[new[q]] = Part(heap[a], q)
          BY <3>2, <5>1
        <5> QED BY <1>7, <5>1, <5>2
      <4>3. GoReg' = ValueIn(k, v, T)
        BY <1>3, <3>1, <3>3, SeenNext
      <4> QED BY <1>6, <4>1, <4>2, <4>3
    <3>7. v # Nil
      <4>1. <<>> \in T \cup {<<>>}
        OBVIOUS
      <4> QED BY <1>4, <3>2, <3>3, <4>1, ZeroParts DEF Zero
    <3>8. ASSUME NEW c \in DOMAIN k \ DOMAIN heap PROVE k[c] # Nil
      <4>1. PICK q \in T : c = new[q]
        BY <3>2
      <4>2. k[c] = IF q \in Leaves(T) THEN Part(heap[a], q) ELSE PartAt(T, base, q)
        BY <3>2, <4>1
      <4> QED BY <1>4, <1>7, <4>2, ZeroParts
    <3>9. Filled'
      BY <1>3, <3>1, <3>2, <3>3, <3>7, <3>8, FilledStep
    <3> QED BY <3>5, <3>6, <3>9
  <2> QED BY <2>1, <2>2
<1>9. place.obj \in DOMAIN GoMem
  BY <1>2, <1>3 DEF GoMem
<1> QED BY <1>3, <1>5, <1>8, <1>9, SeenSame DEF GoSpec!Load

-----------------------------------------------------------------------------
\* Variables that begin ---------------------------------------------------------------

\* An Alloc gives one variable the value zero.
LEMMA AllocSeen ==
  ASSUME Inv, Filled, NEW T, Formed(T), NEW base, NEW o, Allocated(o, T, base), o \in DOMAIN heap => heap[o] # Nil
  PROVE  /\ Filled'
         /\ DOMAIN GoMem' = DOMAIN GoMem \cup {o}
         /\ \A p \in DOMAIN GoMem \ {o} : GoMem'[p] = GoMem[p]
         /\ GoMem'[o] = [q \in Leaves(T) |-> 0]
         /\ UNCHANGED <<GoReg, GoSlices>>
<1>1. PICK own, rl : Scope /\ Separate(own, rl) /\ Pointing(own)
  BY DEF Inv
<1>2. PICK k, mine : k = heap' /\ mine = [q \in T |-> base + Number(T)[q]]
  OBVIOUS
<1>3. /\ base \in Nat /\ o \in DOMAIN k /\ DOMAIN heap \subseteq DOMAIN k
      /\ (o \in DOMAIN heap => o \in DOMAIN typeOf)
      /\ \A c \in DOMAIN heap \ {o} : k[c] = heap[c]
      /\ k[o] = Zero(T, base) /\ typeOf' = Typed({o}, T) /\ UNCHANGED <<reg, regType, slices>>
      /\ \A q \in T : mine[q] \in DOMAIN k /\ k[mine[q]] = PartAt(T, base, q)
      /\ \A c \in DOMAIN k \ (DOMAIN heap \cup {o}) : \E q \in T : c = mine[q]
      /\ \/ place' = NewSpot(o)
         \/ ptr' = ptr /\ place' = place
  BY <1>2 DEF Allocated
<1>4. <<>> \in T \cup {<<>>} /\ <<>> \notin T
  BY DEF Formed
<1>5. k[o] # Nil
  BY <1>3, <1>4, ZeroParts DEF Zero
<1>6. Owned(heap, typeOf, own)
  BY <1>1, OwnedNow
<1>7. IsTree(k[o], T, mine, k)
  <2>1. \A q \in T : /\ base + Number(T)[q] \in DOMAIN k
                     /\ \/ k[base + Number(T)[q]] = PartAt(T, base, q)
                        \/ Kids(T, q) = {} /\ k[base + Number(T)[q]].tag # "agg"
    BY <1>2, <1>3
  <2> QED BY <1>2, <1>3, <2>1, FreshTree
<1>8. ASSUME NEW p \in DOMAIN typeOf \ {o}, NEW q \in typeOf[p] PROVE own[p][q] # o /\ own[p][q] \in DOMAIN heap
  <2>1. own[p][q] \in DOMAIN heap /\ own[p][q] \notin DOMAIN typeOf
    BY <1>1 DEF Separate, IsTree
  <2> QED BY <1>3, <2>1
<1>9. PICK ty : ty = Typed({o}, T)
  OBVIOUS
<1>10. PICK next : Owned(k, ty, next) /\ (\A p \in DOMAIN typeOf \ {o} : next[p] = own[p]) /\ next[o] = mine
  <2>1. PICK objs, new : objs = {o} /\ new = [p \in {o} |-> mine]
    OBVIOUS
  <2>2. /\ \A c \in DOMAIN heap \ objs : Same(heap[c], k[c])
        /\ \A p \in objs : p \in DOMAIN k /\ IsTree(k[p], T, new[p], k)
        /\ \A p \in DOMAIN typeOf \ objs : \A q \in typeOf[p] : own[p][q] \notin objs
    BY <1>3, <1>7, <1>8, <2>1 DEF Same
  <2>3. \E next : /\ Owned(k, Typed(objs, T), next)
                  /\ \A p \in DOMAIN typeOf \ objs : next[p] = own[p]
                  /\ \A p \in objs : next[p] = new[p]
    BY <1>3, <1>6, <2>2, OwnedTyped
  <2> QED BY <1>9, <2>1, <2>3
<1>11. /\ DOMAIN ty = DOMAIN typeOf \cup {o} /\ ty[o] = T
       /\ \A p \in DOMAIN typeOf \ {o} : ty[p] = typeOf[p] /\ p \in DOMAIN heap /\ k[p] = heap[p]
  BY <1>3, <1>6, <1>9 DEF Typed, Owned
<1>12. GoMem' = MemIn(k, ty) /\ GoMem = MemIn(heap, typeOf)
  BY <1>2, <1>3, <1>9, SeenNow, SeenNext
<1>13. Holding(k, ty) = Holding(heap, typeOf) \cup {o}
  <2>1. \A p \in DOMAIN typeOf : p # o => (k[p] = Nil <=> heap[p] = Nil)
    BY <1>11
  <2>2. o \in Holding(k, ty)
    BY <1>5, <1>11 DEF Holding
  <2> QED BY <1>11, <2>1, <2>2 DEF Holding
<1>14. /\ DOMAIN GoMem' = Holding(k, ty) /\ DOMAIN GoMem = Holding(heap, typeOf)
       /\ \A p \in Holding(k, ty) : MemIn(k, ty)[p] = Shown(k, next, p, <<>>, ty[p])
       /\ \A p \in Holding(heap, typeOf) : MemIn(heap, typeOf)[p] = Shown(heap, own, p, <<>>, typeOf[p])
  BY <1>6, <1>10, <1>12, MemIs
<1>15. ASSUME NEW p \in DOMAIN GoMem \ {o} PROVE GoMem'[p] = GoMem[p]
  <2>1. p \in Holding(heap, typeOf) /\ p \in Holding(k, ty) /\ p \in DOMAIN typeOf \ {o} /\ p \in DOMAIN heap
    BY <1>11, <1>13, <1>14 DEF Holding
  <2>2. PICK U : U = typeOf[p] /\ U = ty[p] /\ next[p] = own[p]
    BY <1>10, <1>11, <2>1
  <2>3. Formed(U)
    BY <1>6, <2>1, <2>2 DEF Owned
  <2>4. ASSUME NEW t \in Leaves(U)
        PROVE  k[Slot(next, p, <<>> \o t)].n = heap[Slot(own, p, <<>> \o t)].n
    <3>1. t \in U \cup {<<>>} /\ <<>> \o t = t
      BY <2>3, LeafKids, LeafPaths
    <3>2. Slot(next, p, t) = Slot(own, p, t)
      BY <2>2 DEF Slot
    <3>3. Slot(own, p, t) \in DOMAIN heap /\ Slot(own, p, t) # o
      BY <1>8, <2>1, <2>2, <3>1 DEF Slot
    <3> QED BY <1>3, <3>1, <3>2, <3>3
  <2>5. Shown(k, next, p, <<>>, U) = Shown(heap, own, p, <<>>, U)
    BY <2>3, <2>4, LeafPaths DEF Shown
  <2> QED BY <1>12, <1>14, <2>1, <2>2, <2>5
<1>16. GoMem'[o] = [q \in Leaves(T) |-> 0]
  <2>1. GoMem'[o] = Shown(k, next, o, <<>>, T)
    BY <1>11, <1>12, <1>13, <1>14
  <2>2. ASSUME NEW t \in Leaves(T) PROVE k[Slot(next, o, <<>> \o t)].n = 0
    <3>1. t \in T \cup {<<>>} /\ <<>> \o t = t
      BY LeafKids, LeafPaths
    <3>2. CASE t = <<>>
      <4>1. k[Slot(next, o, t)] = PartAt(T, base, t)
        BY <1>3, <3>2 DEF Slot, Zero
      <4> QED BY <3>1, <4>1, ZeroParts
    <3>3. CASE t # <<>>
      <4>1. t \in T /\ Slot(next, o, t) = mine[t]
        BY <1>10, <3>1, <3>3 DEF Slot
      <4>2. k[Slot(next, o, t)] = PartAt(T, base, t)
        BY <1>3, <4>1
      <4> QED BY <3>1, <4>2, ZeroParts
    <3> QED BY <3>2, <3>3
  <2> QED BY <2>1, <2>2 DEF Shown
<1>17. GoReg' = GoReg
  <2>1. ASSUME NEW q \in regType PROVE k[rl[q]] = heap[rl[q]]
    <3>1. rl[q] \in DOMAIN heap /\ rl[q] \notin DOMAIN typeOf
      BY <1>1 DEF Separate, IsTree
    <3> QED BY <1>3, <3>1
  <2>2. ValueIn(k, reg, regType) = GoReg
    BY <1>1, <1>3, <2>1, RegisterSame
  <2> QED BY <1>2, <1>3, <2>2, SeenNext
<1>18. Filled'
  <2>1. ASSUME NEW c \in DOMAIN k \ DOMAIN heap PROVE k[c] # Nil
    <3>1. CASE c = o
      BY <1>5, <3>1
    <3>2. CASE c # o
      BY <1>3, <3>2, ZeroParts
    <3> QED BY <3>1, <3>2
  <2>2. \A c \in DOMAIN heap : k[c] = Nil => heap[c] = Nil
    BY <1>3, <1>5
  <2>3. UNCHANGED <<ptr, place>> \/ k[place'.obj] # Nil
    BY <1>3, <1>5 DEF NewSpot
  <2>4. DOMAIN typeOf \subseteq DOMAIN typeOf'
    BY <1>3, <1>9, <1>11
  <2>5. reg' # Nil /\ \A v \in SliceVars : slices'[v] = slices[v]
    BY <1>3 DEF Filled
  <2> QED BY <1>2, <2>1, <2>2, <2>3, <2>4, <2>5, FilledStep
<1> QED BY <1>3, <1>13, <1>14, <1>15, <1>16, <1>17, <1>18, SeenSame

\* A new variable.
LEMMA AllocHeapSeen ==
  ASSUME Inv, Filled, NEW T, Formed(T), AllocHeap(T)
  PROVE  Filled' /\ GoSpec!NewVar
<1>1. PICK o : o = NextCell
  OBVIOUS
<1>2. Allocated(o, T, o) /\ o \notin DOMAIN heap /\ place' = NewSpot(o)
  BY <1>1, AllocHeapIs
<1>3. /\ Filled'
      /\ DOMAIN GoMem' = DOMAIN GoMem \cup {o}
      /\ \A p \in DOMAIN GoMem \ {o} : GoMem'[p] = GoMem[p]
      /\ GoMem'[o] = [q \in Leaves(T) |-> 0]
      /\ UNCHANGED <<GoReg, GoSlices>>
  BY <1>2, AllocSeen
<1>4. o \notin DOMAIN GoMem
  BY <1>2 DEF Inv, Scope, GoMem
<1>5. GoSpec!Created({o})
  BY <1>3, <1>4 DEF GoSpec!Created
<1>6. o \in DOMAIN GoMem' /\ place' = GoSpec!NewSpot(o)
  BY <1>2, <1>3 DEF NewSpot, GoSpec!NewSpot
<1> QED BY <1>3, <1>5, <1>6 DEF GoSpec!NewVar

\* A local variable begins anew.
LEMMA AllocLocalSeen ==
  ASSUME Inv, Filled, NEW o \in DOMAIN typeOf, AllocLocal(o)
  PROVE  Filled' /\ GoSpec!ZeroVar
<1>1. PICK T, base : T = typeOf[o] /\ base = Len(heap) /\ Formed(T)
  BY DEF Inv, Scope
<1>2. Allocated(o, T, base) /\ UNCHANGED <<typeOf, ptr, place>> /\ heap[o] # Nil
  BY <1>1, AllocLocalIs
<1>3. /\ Filled'
      /\ DOMAIN GoMem' = DOMAIN GoMem \cup {o}
      /\ \A p \in DOMAIN GoMem \ {o} : GoMem'[p] = GoMem[p]
      /\ GoMem'[o] = [q \in Leaves(T) |-> 0]
      /\ UNCHANGED <<GoReg, GoSlices>>
  BY <1>1, <1>2, AllocSeen
<1>4. o \in DOMAIN GoMem /\ DOMAIN GoMem[o] = Leaves(T)
  BY <1>1, <1>2 DEF GoMem, ValueOf
<1>5. GoMem = [p \in DOMAIN GoMem |-> GoMem[p]] /\ GoMem' = [p \in DOMAIN GoMem' |-> GoMem'[p]]
  BY DEF GoMem
<1>6. GoMem' = [GoMem EXCEPT ![o] = [q \in DOMAIN @ |-> 0]]
  <2>1. PICK m, n : m = GoMem /\ n = GoMem'
    OBVIOUS
  <2>2. /\ DOMAIN n = DOMAIN m /\ m = [p \in DOMAIN m |-> m[p]] /\ n = [p \in DOMAIN n |-> n[p]]
        /\ o \in DOMAIN m /\ \A p \in DOMAIN m \ {o} : n[p] = m[p]
        /\ n[o] = [q \in DOMAIN m[o] |-> 0]
    BY <1>3, <1>4, <1>5, <2>1
  <2>3. n = [m EXCEPT ![o] = [q \in DOMAIN @ |-> 0]]
    BY ONLY <2>2
  <2> QED BY <2>1, <2>3
<1> QED BY <1>2, <1>3, <1>4, <1>6 DEF GoSpec!ZeroVar

-----------------------------------------------------------------------------
\* Slices ------------------------------------------------------------------------------

\* A spot in a variable without a value is the variable.
LEMMA NilWhole ==
  ASSUME Scope, NEW own, NEW rl, Separate(own, rl), NEW s, IsSpot(s), heap[s.obj] = Nil
  PROVE  s.path = <<>>
<1>1. PICK T, p, o : T = typeOf[s.obj] /\ p = s.path /\ o = s.obj
  OBVIOUS
<1>2. /\ Formed(T) /\ p \in T \cup {<<>>} /\ IsTree(heap[o], T, own[o], heap)
  BY <1>1 DEF IsSpot, Scope, Separate
<1>3. Kids(T, <<>>) = {}
  <2>1. heap[o].tag # "agg"
    BY <1>1 DEF Nil
  <2> QED BY <1>2, <2>1 DEF IsTree, Node
<1>4. ASSUME p # <<>> PROVE FALSE
  <2>1. p \in Path
    BY <1>2, <1>4 DEF Formed
  <2>2. 1 \in 1 .. Len(p)
    BY <2>1, <1>4, EmptySeq DEF Path
  <2>3. p[1] \in Kids(T, SubSeq(p, 1, 1 - 1))
    BY ONLY <1>2, <2>2, Prefixes
  <2>4. SubSeq(p, 1, 1 - 1) = <<>>
    <3>1. 1 - 1 = 0
      OBVIOUS
    <3>2. SubSeq(p, 1, 0) = <<>>
      BY <2>1, SubSeqEmpty DEF Path
    <3> QED BY <3>1, <3>2
  <2> QED BY <1>3, <2>3, <2>4
<1> QED BY <1>1, <1>4

\* n slots with scalars, and the spots they are of.
Piece(own, cells, spots, n) ==
  /\ IsSeq(cells) /\ IsSeq(spots) /\ Len(cells) = n /\ Len(spots) = n /\ n \in Nat
  /\ \A i \in 1 .. n :
       /\ IsSpot(spots[i]) /\ ScalarSpot(typeOf, spots[i]) /\ cells[i] = SlotOf(own, spots[i])
       /\ cells[i] \in DOMAIN heap /\ heap[cells[i]].tag # "agg"
       /\ heap[spots[i].obj] # Nil <=> heap[cells[i]] # Nil
       /\ heap[spots[i].obj] # Nil \/ spots[i].path = <<>>
Distinct(spots, n) == \A i, j \in 1 .. n : spots[i] = spots[j] => i = j

\* A part of a slice is one.
LEMMA SlicePiece ==
  ASSUME Scope, Filled, Elem = {}, NEW own, NEW rl, Separate(own, rl), NEW x, SliceOK(own, x), SliceFilled(heap, x),
         NEW m \in Nat \ {0}, NEW l \in Nat, l <= Len(x.cells), m <= l + 1,
         NEW n, n = l - m + 1, NEW cells, cells = SubSeq(x.cells, m, l), NEW spots, spots = SubSeq(x.spots, m, l)
  PROVE  /\ Piece(own, cells, spots, n) /\ Distinct(spots, n)
         /\ \A i \in 1 .. n : m + i - 1 <= x.len => heap[cells[i]] # Nil
<1>1. SliceLengths(x) /\ n \in Nat
  BY SliceNumbers
<1>2. /\ IsSeq(cells) /\ Len(cells) = n
      /\ \A i \in 1 .. n : cells[i] = x.cells[m + i - 1] /\ m + i - 1 \in DOMAIN x.cells
  <2>1. IsSeq(x.cells) /\ l <= Len(x.cells)
    BY <1>1 DEF SliceLengths
  <2> QED BY <2>1, SubSeqIs
<1>3. /\ IsSeq(spots) /\ Len(spots) = n
      /\ \A i \in 1 .. n : spots[i] = x.spots[m + i - 1] /\ m + i - 1 \in DOMAIN x.spots
  <2>1. IsSeq(x.spots) /\ l <= Len(x.spots)
    BY <1>1 DEF SliceLengths
  <2> QED BY <2>1, SubSeqIs
<1>4. ASSUME NEW i \in 1 .. n
      PROVE  /\ IsSpot(spots[i]) /\ ScalarSpot(typeOf, spots[i]) /\ cells[i] = SlotOf(own, spots[i])
             /\ cells[i] \in DOMAIN heap /\ heap[cells[i]].tag # "agg"
             /\ heap[spots[i].obj] # Nil <=> heap[cells[i]] # Nil
             /\ heap[spots[i].obj] # Nil \/ spots[i].path = <<>>
             /\ m + i - 1 <= x.len => heap[cells[i]] # Nil
  <2>1. PICK j, s, c : j = m + i - 1 /\ s = spots[i] /\ c = cells[i]
    OBVIOUS
  <2>2. j \in 1 .. Len(x.cells) /\ s = x.spots[j] /\ c = x.cells[j] /\ j \in DOMAIN x.spots
    BY <1>1, <1>2, <1>3, <2>1 DEF SliceLengths
  <2>3. IsSpot(s) /\ c = At(own, s) /\ Sub(typeOf[s.obj], s.path) = {}
    BY <2>2 DEF SliceOK
  <2>4. ScalarSpot(typeOf, s) /\ c = SlotOf(own, s)
    BY <2>3 DEF ScalarSpot, IsSpot, SlotOf, Slot, At
  <2>5. c \in DOMAIN heap /\ heap[c].tag # "agg"
    BY <2>2, SliceScalars
  <2>6. heap[s.obj] # Nil <=> heap[c] # Nil
    BY <2>3, SpotFilled
  <2>7. heap[s.obj] # Nil \/ s.path = <<>>
    BY <2>3, NilWhole
  <2>8. j <= x.len => heap[s.obj] # Nil
    BY <2>2 DEF SliceFilled
  <2> QED BY <2>1, <2>3, <2>4, <2>5, <2>6, <2>7, <2>8
<1>5. ASSUME NEW i \in 1 .. n, NEW j \in 1 .. n, spots[i] = spots[j] PROVE i = j
  <2>1. m + i - 1 = m + j - 1
    BY <1>3, <1>5 DEF SliceFilled
  <2> QED BY <1>1, <2>1
<1> QED BY <1>1, <1>2, <1>3, <1>4, <1>5 DEF Piece, Distinct

\* What Moved does to the slots.
LEMMA MovedIs ==
  ASSUME NEW to, NEW from, NEW n \in Nat, DOMAIN to = 1 .. n, \A i, j \in 1 .. n : to[i] = to[j] => i = j
  PROVE  /\ DOMAIN Moved(to, from) = DOMAIN heap
         /\ \A i \in 1 .. n : to[i] \in DOMAIN heap => Moved(to, from)[to[i]] = heap[from[i]]
         /\ \A c \in DOMAIN heap : (\A i \in 1 .. n : c # to[i]) => Moved(to, from)[c] = heap[c]
<1>1. DOMAIN Moved(to, from) = DOMAIN heap
  BY DEF Moved
<1>2. ASSUME NEW c \in DOMAIN heap, NEW i \in 1 .. n, to[i] = c PROVE Moved(to, from)[c] = heap[from[i]]
  <2> DEFINE hit == {j \in DOMAIN to : to[j] = c}
  <2>1. Moved(to, from)[c] = IF hit = {} THEN heap[c] ELSE heap[from[CHOOSE j \in hit : TRUE]]
    BY DEF Moved
  <2>2. hit = {i}
    BY <1>2
  <2> HIDE DEF hit
  <2>3. (CHOOSE j \in hit : TRUE) = i
    BY <2>2
  <2> QED BY <2>1, <2>2, <2>3
<1>3. ASSUME NEW c \in DOMAIN heap, \A i \in 1 .. n : c # to[i] PROVE Moved(to, from)[c] = heap[c]
  <2> DEFINE hit == {j \in DOMAIN to : to[j] = c}
  <2>1. Moved(to, from)[c] = IF hit = {} THEN heap[c] ELSE heap[from[CHOOSE j \in hit : TRUE]]
    BY DEF Moved
  <2>2. hit = {}
    BY <1>3
  <2> QED BY <2>1, <2>2
<1> QED BY <1>1, <1>2, <1>3

\* A move within slices is a copy of what they hold.
LEMMA MoveSeen ==
  ASSUME Scope, NEW own, NEW rl, Separate(own, rl), NEW n, NEW to, NEW tos, NEW from, NEW froms,
         Piece(own, to, tos, n), Piece(own, from, froms, n), Distinct(tos, n),
         \A i \in 1 .. n : heap[from[i]] # Nil,
         heap' = Moved(to, from), UNCHANGED <<typeOf, reg, regType>>
  PROVE  /\ GoMem' = GoSpec!WriteAll(tos, froms) /\ GoReg' = GoReg
         /\ DOMAIN heap' = DOMAIN heap
         /\ \A c \in DOMAIN heap : heap'[c] = Nil => heap[c] = Nil
         /\ \A i \in 1 .. n : heap'[tos[i].obj] # Nil
<1>1. PICK k : k = heap'
  OBVIOUS
<1>2. Owned(heap, typeOf, own) /\ Apart(typeOf, own)
  BY OwnedNow
<1>3. /\ IsSeq(to) /\ Len(to) = n /\ Len(tos) = n /\ n \in Nat /\ DOMAIN to = 1 .. n
      /\ \A i \in 1 .. n :
           /\ ScalarSpot(typeOf, tos[i]) /\ to[i] = SlotOf(own, tos[i]) /\ to[i] \in DOMAIN heap
           /\ heap[to[i]].tag # "agg"
           /\ heap[tos[i].obj] # Nil \/ tos[i].path = <<>>
           /\ ScalarSpot(typeOf, froms[i]) /\ from[i] = SlotOf(own, froms[i]) /\ from[i] \in DOMAIN heap
           /\ heap[from[i]].tag # "agg" /\ heap[froms[i].obj] # Nil
  BY SeqIs DEF Piece
<1>4. ASSUME NEW i \in 1 .. n, NEW j \in 1 .. n, to[i] = to[j] PROVE i = j
  <2>1. PICK s, r : s = tos[i] /\ r = tos[j]
    OBVIOUS
  <2>2. /\ s.obj \in DOMAIN typeOf /\ s.path \in typeOf[s.obj] \cup {<<>>}
        /\ r.obj \in DOMAIN typeOf /\ r.path \in typeOf[r.obj] \cup {<<>>}
        /\ Slot(own, s.obj, s.path) = Slot(own, r.obj, r.path)
    BY <1>3, <1>4, <2>1 DEF ScalarSpot, SlotOf
  <2>3. s.obj = r.obj /\ s.path = r.path
    BY <1>2, <2>2, SlotOne
  <2>4. s = [obj |-> s.obj, path |-> s.path] /\ r = [obj |-> r.obj, path |-> r.path]
    BY <2>1 DEF Piece, IsSpot
  <2>5. s = r
    BY <2>3, <2>4
  <2> QED BY <2>1, <2>5 DEF Distinct
<1>5. /\ DOMAIN k = DOMAIN heap
      /\ \A i \in 1 .. n : k[to[i]] = heap[from[i]]
      /\ \A c \in DOMAIN heap : (\A i \in 1 .. n : c # to[i]) => k[c] = heap[c]
  <2>1. /\ DOMAIN Moved(to, from) = DOMAIN heap
        /\ \A i \in 1 .. n : to[i] \in DOMAIN heap => Moved(to, from)[to[i]] = heap[from[i]]
        /\ \A c \in DOMAIN heap : (\A i \in 1 .. n : c # to[i]) => Moved(to, from)[c] = heap[c]
    BY <1>3, <1>4, MovedIs
  <2>2. k = Moved(to, from)
    BY <1>1
  <2> QED BY <1>3, <2>1, <2>2
<1>6. \A c \in DOMAIN heap : Same(heap[c], k[c])
  <2> SUFFICES ASSUME NEW c \in DOMAIN heap PROVE Same(heap[c], k[c])
    OBVIOUS
  <2>1. CASE \E i \in 1 .. n : c = to[i]
    <3>1. PICK i \in 1 .. n : c = to[i]
      BY <2>1
    <3>2. k[c] = heap[from[i]] /\ heap[c].tag # "agg" /\ heap[from[i]].tag # "agg"
      BY <1>3, <1>5, <3>1
    <3> QED BY <3>2 DEF Same
  <2>2. CASE \A i \in 1 .. n : c # to[i]
    BY <1>5, <2>2 DEF Same
  <2> QED BY <2>1, <2>2
<1>7. Owned(k, typeOf, own)
  BY <1>2, <1>5, <1>6, OwnedKept
<1>8. MovedTo(heap, typeOf, own, tos, froms, n, k)
  <2>1. ASSUME NEW i \in 1 .. n
        PROVE  /\ ScalarSpot(typeOf, tos[i]) /\ ScalarSpot(typeOf, froms[i])
               /\ froms[i].obj \in Holding(heap, typeOf) /\ heap[SlotOf(own, froms[i])] # Nil
               /\ tos[i].obj \in Holding(heap, typeOf) \/ tos[i].path = <<>>
               /\ heap[SlotOf(own, tos[i])].tag # "agg" /\ k[SlotOf(own, tos[i])].tag # "agg"
               /\ k[SlotOf(own, tos[i])] = heap[SlotOf(own, froms[i])]
    <3>1. /\ ScalarSpot(typeOf, tos[i]) /\ ScalarSpot(typeOf, froms[i])
          /\ to[i] = SlotOf(own, tos[i]) /\ from[i] = SlotOf(own, froms[i])
          /\ heap[to[i]].tag # "agg" /\ heap[from[i]].tag # "agg" /\ heap[from[i]] # Nil
          /\ heap[froms[i].obj] # Nil
          /\ heap[tos[i].obj] # Nil \/ tos[i].path = <<>>
          /\ k[to[i]] = heap[from[i]]
      BY <1>3, <1>5
    <3>2. /\ froms[i].obj \in Holding(heap, typeOf)
          /\ tos[i].obj \in Holding(heap, typeOf) \/ tos[i].path = <<>>
      BY <3>1 DEF ScalarSpot, Holding
    <3> QED BY <3>1, <3>2
  <2>2. \A i, j \in 1 .. n : SlotOf(own, tos[i]) = SlotOf(own, tos[j]) => i = j
    BY <1>3, <1>4
  <2>3. \A c \in DOMAIN heap : (\A i \in 1 .. n : c # SlotOf(own, tos[i])) => k[c] = heap[c]
    BY <1>3, <1>5
  <2> QED BY <1>5, <2>1, <2>2, <2>3 DEF MovedTo
<1>9. GoMem' = GoSpec!WriteAll(tos, froms)
  <2>1. GoMem = MemIn(heap, typeOf)
    BY SeenNow
  <2>2. GoSpec!WriteAll(tos, froms) = MemIn(k, typeOf)
    BY <1>2, <1>3, <1>7, <1>8, <2>1, MoveAll
  <2> QED BY <1>1, <2>2, SeenNext
<1>10. GoReg' = GoReg
  <2>1. ASSUME NEW q \in regType PROVE k[rl[q]] = heap[rl[q]]
    <3>1. rl[q] \in DOMAIN heap
      BY DEF Separate, IsTree
    <3>2. ASSUME NEW i \in 1 .. n PROVE rl[q] # to[i]
      <4>1. PICK s : s = tos[i]
        OBVIOUS
      <4>2. s.obj \in DOMAIN typeOf /\ s.path \in typeOf[s.obj] \cup {<<>>} /\ to[i] = Slot(own, s.obj, s.path)
        BY <1>3, <4>1 DEF ScalarSpot, SlotOf
      <4> QED BY <4>2, RegisterApart
    <3> QED BY <1>5, <3>1, <3>2
  <2>2. ValueIn(k, reg, regType) = GoReg
    BY <1>5, <2>1, RegisterSame
  <2> QED BY <1>1, <2>2, SeenNext
<1>11. ASSUME NEW c \in DOMAIN heap, k[c] = Nil PROVE heap[c] = Nil
  BY <1>5, <1>11
<1>12. ASSUME NEW i \in 1 .. n PROVE k[tos[i].obj] # Nil
  <2>1. tos[i].obj \in DOMAIN heap
    BY <1>2, <1>3 DEF Owned, ScalarSpot
  <2>2. CASE heap[tos[i].obj] # Nil
    BY <1>11, <2>1, <2>2
  <2>3. CASE tos[i].path = <<>>
    <3>1. to[i] = tos[i].obj
      BY <1>3, <2>3 DEF SlotOf, Slot
    <3> QED BY <1>5, <3>1
  <2> QED BY <1>3, <2>2, <2>3
<1> QED BY <1>1, <1>5, <1>9, <1>10, <1>11, <1>12

\* What Filled needs of a step that changes the slots and one slice.
LEMMA FilledSlices ==
  ASSUME Inv, Filled, DOMAIN typeOf \subseteq DOMAIN typeOf', UNCHANGED <<ptr, place, reg>>,
         \A c \in DOMAIN heap : heap'[c] = Nil => heap[c] = Nil,
         \A c \in DOMAIN heap' \ DOMAIN heap : heap'[c] # Nil \/ c \in DOMAIN typeOf',
         NEW v \in SliceVars, NEW x, slices' = [slices EXCEPT ![v] = x], SliceFilled(heap', x)
  PROVE  Filled'
<1>1. slices = [t \in SliceVars |-> slices[t]]
  BY DEF Inv, Pointing
<1>2. \A t \in SliceVars : slices'[t] = slices[t] \/ SliceFilled(heap', slices'[t])
  <2>1. slices'[v] = x /\ \A t \in SliceVars : t # v => slices'[t] = slices[t]
    BY <1>1
  <2> QED BY <2>1
<1>3. reg' # Nil /\ UNCHANGED <<ptr, place>>
  BY DEF Filled
<1> QED BY <1>2, <1>3, FilledStep

\* copy
LEMMA CopySliceSeen ==
  ASSUME Inv, Filled, Elem = {}, NEW v \in SliceVars, NEW w \in SliceVars, CopySlice(v, w)
  PROVE  Filled' /\ GoSpec!CopySlice(v, w)
<1>1. PICK own, rl : Scope /\ Separate(own, rl) /\ Pointing(own)
  BY DEF Inv
<1>2. PICK n : n = IF slices[v].len < slices[w].len THEN slices[v].len ELSE slices[w].len
  OBVIOUS
<1>3. PICK to, tos, from, froms :
        /\ to = SubSeq(slices[v].cells, 1, n) /\ tos = SubSeq(slices[v].spots, 1, n)
        /\ from = SubSeq(slices[w].cells, 1, n) /\ froms = SubSeq(slices[w].spots, 1, n)
  OBVIOUS
<1>4. heap' = Moved(to, from) /\ UNCHANGED <<typeOf, ptr, place, reg, regType, slices>>
  BY <1>2, <1>3 DEF CopySlice
<1>5. /\ SliceOK(own, slices[v]) /\ SliceFilled(heap, slices[v])
      /\ SliceOK(own, slices[w]) /\ SliceFilled(heap, slices[w])
  BY <1>1 DEF Pointing, Filled
<1>6. /\ n \in Nat /\ n <= slices[v].len /\ n <= slices[w].len
      /\ n <= Len(slices[v].cells) /\ n <= Len(slices[w].cells)
  <2>1. SliceLengths(slices[v]) /\ SliceLengths(slices[w])
    BY <1>5, SliceNumbers
  <2>2. /\ slices[v].len \in Nat /\ slices[w].len \in Nat
        /\ Len(slices[v].cells) \in Nat /\ Len(slices[w].cells) \in Nat
        /\ slices[v].len <= Len(slices[v].cells) /\ slices[w].len <= Len(slices[w].cells)
    BY <2>1 DEF SliceLengths
  <2> QED BY <1>2, <2>2
<1>7. 1 \in Nat \ {0} /\ 1 <= n + 1 /\ n = n - 1 + 1 /\ \A i \in 1 .. n : 1 + i - 1 <= n /\ 1 + i - 1 = i
  BY <1>6
<1>8. Piece(own, to, tos, n) /\ Distinct(tos, n)
  BY <1>1, <1>3, <1>5, <1>6, <1>7, SlicePiece
<1>9. Piece(own, from, froms, n) /\ \A i \in 1 .. n : 1 + i - 1 <= slices[w].len => heap[from[i]] # Nil
  <2>1. PICK y, one : y = slices[w] /\ one = 1
    OBVIOUS
  <2>2. /\ Scope /\ Separate(own, rl) /\ SliceOK(own, y) /\ SliceFilled(heap, y) /\ one \in Nat \ {0}
        /\ n \in Nat /\ n <= Len(y.cells) /\ one <= n + 1 /\ n = n - one + 1
        /\ from = SubSeq(y.cells, one, n) /\ froms = SubSeq(y.spots, one, n)
    BY <1>1, <1>3, <1>5, <1>6, <1>7, <2>1
  <2>3. Piece(own, from, froms, n) /\ \A i \in 1 .. n : one + i - 1 <= y.len => heap[from[i]] # Nil
    BY ONLY Filled, Elem = {}, <2>2, SlicePiece
  <2> QED BY <2>1, <2>3
<1>10. \A i \in 1 .. n : heap[from[i]] # Nil
  <2>1. slices[w].len \in Nat
    BY <1>5, SliceNumbers DEF SliceLengths
  <2>2. \A i \in 1 .. n : 1 + i - 1 <= slices[w].len
    BY <1>6, <2>1
  <2> QED BY <1>9, <2>2
<1>11. /\ GoMem' = GoSpec!WriteAll(tos, froms) /\ GoReg' = GoReg
       /\ DOMAIN heap' = DOMAIN heap
       /\ \A c \in DOMAIN heap : heap'[c] = Nil => heap[c] = Nil
  BY <1>1, <1>4, <1>8, <1>9, <1>10, MoveSeen
<1>12. Filled'
  BY <1>4, <1>11, FilledStep DEF Filled
<1>13. /\ GoSlices[v].spots = slices[v].spots /\ GoSlices[v].len = slices[v].len
       /\ GoSlices[w].spots = slices[w].spots /\ GoSlices[w].len = slices[w].len
  BY DEF GoSlices
<1>14. UNCHANGED GoSlices
  BY <1>4, SeenSame
<1>15. GoMem' = GoSpec!WriteAll(SubSeq(GoSlices[v].spots, 1, n), SubSeq(GoSlices[w].spots, 1, n))
  BY <1>3, <1>11, <1>13
<1>16. n = IF GoSlices[v].len < GoSlices[w].len THEN GoSlices[v].len ELSE GoSlices[w].len
  BY <1>2, <1>13
<1> QED BY <1>4, <1>11, <1>12, <1>14, <1>15, <1>16 DEF GoSpec!CopySlice

\* append into the spare capacity.
LEMMA AppendInPlaceSeen ==
  ASSUME Inv, Filled, Elem = {}, NEW v \in SliceVars, NEW u \in SliceVars, NEW w \in SliceVars,
         AppendInPlace(v, u, w)
  PROVE  Filled' /\ GoSpec!AppendSlice(v, u, w)
<1>1. PICK own, rl : Scope /\ Separate(own, rl) /\ Pointing(own)
  BY DEF Inv
<1>2. PICK a, b, n : a = slices[u].len /\ b = slices[w].len /\ n = a + b
  OBVIOUS
<1>3. PICK to, tos, from, froms :
        /\ to = SubSeq(slices[u].cells, a + 1, n) /\ tos = SubSeq(slices[u].spots, a + 1, n)
        /\ from = SubSeq(slices[w].cells, 1, b) /\ froms = SubSeq(slices[w].spots, 1, b)
  OBVIOUS
<1>4. PICK x : x = [slices[u] EXCEPT !.len = n]
  OBVIOUS
<1>5. /\ n <= Len(slices[u].cells) /\ heap' = Moved(to, from) /\ slices' = [slices EXCEPT ![v] = x]
      /\ UNCHANGED <<typeOf, ptr, place, reg, regType>>
  BY <1>2, <1>3, <1>4 DEF AppendInPlace, Cells
<1>6. /\ SliceOK(own, slices[u]) /\ SliceFilled(heap, slices[u]) /\ SliceLengths(slices[u])
      /\ SliceOK(own, slices[w]) /\ SliceFilled(heap, slices[w]) /\ SliceLengths(slices[w])
      /\ slices = [t \in SliceVars |-> slices[t]]
  BY <1>1, SliceNumbers DEF Pointing, Filled
<1>7. /\ a \in Nat /\ b \in Nat /\ n \in Nat /\ Len(slices[u].cells) \in Nat /\ Len(slices[w].cells) \in Nat
      /\ b <= Len(slices[w].cells) /\ a <= Len(slices[u].cells)
  BY <1>2, <1>6 DEF SliceLengths
<1>8. Piece(own, to, tos, b) /\ Distinct(tos, b)
  <2>1. a + 1 \in Nat \ {0} /\ a + 1 <= n + 1 /\ b = n - (a + 1) + 1
    <3>1. a \in Nat /\ b \in Nat /\ n = a + b
      BY <1>2, <1>7
    <3> QED BY ONLY <3>1
  <2>2. PICK y, m : y = slices[u] /\ m = a + 1
    OBVIOUS
  <2>3. /\ Scope /\ Separate(own, rl) /\ SliceOK(own, y) /\ SliceFilled(heap, y) /\ m \in Nat \ {0}
        /\ n \in Nat /\ n <= Len(y.cells) /\ m <= n + 1 /\ b = n - m + 1
        /\ to = SubSeq(y.cells, m, n) /\ tos = SubSeq(y.spots, m, n)
    BY <1>1, <1>3, <1>5, <1>6, <1>7, <2>1, <2>2
  <2> QED BY ONLY Filled, Elem = {}, <2>3, SlicePiece
<1>9. Piece(own, from, froms, b) /\ \A i \in 1 .. b : heap[from[i]] # Nil
  <2>1. 1 \in Nat \ {0} /\ 1 <= b + 1 /\ b = b - 1 + 1
    BY <1>7
  <2>2. Piece(own, from, froms, b) /\ \A i \in 1 .. b : 1 + i - 1 <= slices[w].len => heap[from[i]] # Nil
    <3>1. PICK y, one : y = slices[w] /\ one = 1
      OBVIOUS
    <3>2. /\ Scope /\ Separate(own, rl) /\ SliceOK(own, y) /\ SliceFilled(heap, y) /\ one \in Nat \ {0}
          /\ b \in Nat /\ b <= Len(y.cells) /\ one <= b + 1 /\ b = b - one + 1
          /\ from = SubSeq(y.cells, one, b) /\ froms = SubSeq(y.spots, one, b)
      BY <1>1, <1>3, <1>6, <1>7, <2>1, <3>1
    <3>3. Piece(own, from, froms, b) /\ \A i \in 1 .. b : one + i - 1 <= y.len => heap[from[i]] # Nil
      BY ONLY Filled, Elem = {}, <3>2, SlicePiece
    <3> QED BY <3>1, <3>3
  <2>3. \A i \in 1 .. b : 1 + i - 1 <= slices[w].len
    BY <1>2, <1>7
  <2> QED BY <2>2, <2>3
<1>10. /\ GoMem' = GoSpec!WriteAll(tos, froms) /\ GoReg' = GoReg
       /\ DOMAIN heap' = DOMAIN heap
       /\ \A c \in DOMAIN heap : heap'[c] = Nil => heap[c] = Nil
       /\ \A i \in 1 .. b : heap'[tos[i].obj] # Nil
  BY <1>1, <1>5, <1>8, <1>9, MoveSeen
<1>11. x = [cells |-> slices[u].cells, len |-> n, spots |-> slices[u].spots]
       /\ x.len = n /\ x.spots = slices[u].spots
  <2>1. slices[u] = [cells |-> slices[u].cells, len |-> slices[u].len, spots |-> slices[u].spots]
    BY <1>6 DEF SliceLengths
  <2> QED BY <1>4, <2>1
<1>12. ASSUME NEW i \in DOMAIN x.spots, i <= n PROVE heap'[x.spots[i].obj] # Nil
  <2>1. i \in 1 .. Len(slices[u].cells) /\ i \in DOMAIN slices[u].spots
    BY <1>6, <1>11 DEF SliceLengths
  <2>2. CASE i <= a
    <3>1. heap[slices[u].spots[i].obj] # Nil
      BY <1>2, <1>6, <2>1, <2>2 DEF SliceFilled
    <3>2. IsSpot(slices[u].spots[i])
      BY <1>6, <2>1 DEF SliceOK
    <3>3. slices[u].spots[i].obj \in DOMAIN heap
      BY <1>1, <3>2 DEF IsSpot, Scope
    <3> QED BY <1>10, <1>11, <3>1, <3>3
  <2>3. CASE ~(i <= a)
    <3>1. PICK j : j = i - a
      OBVIOUS
    <3>2. j \in 1 .. b /\ a + 1 + j - 1 = i
      BY <1>2, <1>7, <1>12, <2>1, <2>3, <3>1
    <3>3. tos[j] = slices[u].spots[i]
      <4>1. a + 1 \in Nat \ {0} /\ a + 1 <= n + 1 /\ b = n - (a + 1) + 1 /\ n <= Len(slices[u].spots) /\ IsSeq(slices[u].spots)
        BY <1>2, <1>5, <1>6, <1>7 DEF SliceLengths
      <4>2. \A t \in 1 .. n - (a + 1) + 1 : SubSeq(slices[u].spots, a + 1, n)[t] = slices[u].spots[a + 1 + t - 1]
        BY <1>7, <4>1, SubSeqIs
      <4>3. j \in 1 .. n - (a + 1) + 1
        BY <3>2, <4>1
      <4> QED BY <1>3, <3>2, <4>2, <4>3
    <3> QED BY <1>10, <1>11, <3>2, <3>3
  <2> QED BY <1>7, <2>1, <2>2, <2>3
<1>13. SliceFilled(heap', x)
  BY <1>6, <1>11, <1>12 DEF SliceFilled
<1>14. Filled'
  BY <1>5, <1>10, <1>13, FilledSlices
<1>15. SeesSlice(v, x)
  BY <1>5, <1>6, SeenSlice DEF GetsSlice
<1>16. PICK s : s = GoSlices'[v]
  OBVIOUS
<1>17. /\ GoSlices' = [GoSlices EXCEPT ![v] = s] /\ s.spots = slices[u].spots /\ s.len = n
       /\ GoSlices[u].spots = slices[u].spots /\ GoSlices[u].len = a
       /\ GoSlices[w].spots = slices[w].spots /\ GoSlices[w].len = b
  BY <1>2, <1>11, <1>15, <1>16 DEF SeesSlice
<1>18. GoMem' = GoSpec!WriteAll(SubSeq(s.spots, GoSlices[u].len + 1, n), GoSpec!Spots(GoSlices[w]))
  BY <1>3, <1>10, <1>17 DEF GoSpec!Spots
<1>19. n <= Len(GoSlices[u].spots) /\ n = GoSlices[u].len + GoSlices[w].len /\ s.spots = GoSlices[u].spots
  BY <1>2, <1>5, <1>6, <1>17 DEF SliceLengths
<1> QED BY <1>5, <1>10, <1>14, <1>16, <1>17, <1>18, <1>19 DEF GoSpec!AppendSlice

\* The heap with the new slots, and nothing in them.
Spared(k) == [c \in 1 .. Len(heap) + k |-> IF c \in DOMAIN heap THEN heap[c] ELSE Nil]

\* The slots h before and g after such a step, of variables of types ty, the old ones with
\* the slots they have had.
NewInSight(own, cells, k, h, g, ty, next) ==
  /\ k \in Nat /\ Len(heap) \in Nat /\ DOMAIN heap = 1 .. Len(heap)
  /\ DOMAIN g = 1 .. Len(heap) + k /\ DOMAIN h = 1 .. Len(heap) + k
  /\ \A c \in DOMAIN heap : g[c] = heap[c] /\ h[c] = heap[c]
  /\ \A i \in 1 .. k : g[Len(heap) + i] = cells[i] /\ h[Len(heap) + i] = Nil
  /\ DOMAIN ty = DOMAIN typeOf \cup NewSlots(k) /\ NewSlots(k) \cap DOMAIN heap = {}
  /\ \A o \in NewSlots(k) : ty[o] = {}
  /\ \A o \in DOMAIN typeOf : ty[o] = typeOf[o]
  /\ GoReg' = GoReg /\ MemIn(h, ty) = GoMem
  /\ Owned(h, ty, next) /\ Owned(g, ty, next) /\ Apart(ty, next)
  /\ \A o \in DOMAIN typeOf : next[o] = own[o]

\* What the program sees of such a step, but for the contents of the new slots.
LEMMA ExtendsSeen ==
  ASSUME Inv, NEW own, NEW rl, Scope, Separate(own, rl), NEW v, NEW cells, NEW k, NEW n,
         Extends(v, cells, k, n), NEW h, h = Spared(k), NEW g, g = heap', NEW ty, ty = typeOf'
  PROVE  \E next : NewInSight(own, cells, k, h, g, ty, next)
<1>1. /\ k \in Nat /\ IsSeq(cells) /\ Len(cells) = k /\ \A i \in 1 .. k : cells[i].tag # "agg"
      /\ heap' = heap \o cells /\ typeOf' = Typed(NewSlots(k), {}) /\ UNCHANGED <<reg, regType>>
  BY DEF Extends
<1>2. IsSeq(heap) /\ Len(heap) \in Nat /\ DOMAIN heap = 1 .. Len(heap) /\ DOMAIN typeOf \subseteq DOMAIN heap
  BY SeqIs DEF Scope
<1>4. /\ DOMAIN g = 1 .. Len(heap) + k
      /\ \A i \in 1 .. Len(heap) : g[i] = heap[i]
      /\ \A i \in 1 .. k : g[Len(heap) + i] = cells[i]
  <2>1. /\ DOMAIN (heap \o cells) = 1 .. Len(heap) + Len(cells)
        /\ \A i \in 1 .. Len(heap) : (heap \o cells)[i] = heap[i]
        /\ \A i \in 1 .. Len(cells) : (heap \o cells)[Len(heap) + i] = cells[i]
    <3>1. IsSeq(heap) /\ IsSeq(cells)
      BY <1>1, <1>2
    <3> QED BY ONLY <3>1, ConcatIs
  <2>2. PICK f : f = heap \o cells
    OBVIOUS
  <2>3. g = f /\ Len(cells) = k
    BY <1>1, <2>2
  <2>4. /\ DOMAIN f = 1 .. Len(heap) + Len(cells)
        /\ \A i \in 1 .. Len(heap) : f[i] = heap[i]
        /\ \A i \in 1 .. Len(cells) : f[Len(heap) + i] = cells[i]
    BY ONLY <2>1, <2>2
  <2> QED BY ONLY <2>3, <2>4
<1>5. /\ DOMAIN h = 1 .. Len(heap) + k /\ DOMAIN heap \subseteq DOMAIN h
      /\ \A c \in DOMAIN heap : h[c] = heap[c]
      /\ \A c \in DOMAIN h \ DOMAIN heap : h[c] = Nil
  BY <1>1, <1>2 DEF Spared
<1>6. PICK objs : objs = NewSlots(k)
  OBVIOUS
<1>7. /\ objs \cap DOMAIN heap = {} /\ objs \subseteq DOMAIN h
      /\ \A o \in objs : h[o] = Nil /\ g[o].tag # "agg"
  <2>1. \A i \in 1 .. k : Len(heap) + i \in DOMAIN h \ DOMAIN heap
    BY <1>1, <1>2, <1>5
  <2>2. ASSUME NEW o \in objs
        PROVE  o \in DOMAIN h \ DOMAIN heap /\ g[o].tag # "agg"
    <3>1. PICK i \in 1 .. k : o = Len(heap) + i
      BY <1>6, <2>2 DEF NewSlots
    <3>2. g[Len(heap) + i] = cells[i] /\ cells[i].tag # "agg"
      BY <1>1, <1>4
    <3>3. Len(heap) + i \in DOMAIN h \ DOMAIN heap
      BY <2>1
    <3> QED BY ONLY <3>1, <3>2, <3>3
  <2> QED BY ONLY <1>5, <2>2
<1>8. /\ DOMAIN ty = DOMAIN typeOf \cup objs /\ \A o \in objs : ty[o] = {}
      /\ \A o \in DOMAIN typeOf : ty[o] = typeOf[o] /\ o \notin objs
  BY <1>1, <1>2, <1>6, <1>7 DEF Typed
<1>9. Owned(heap, typeOf, own) /\ Apart(typeOf, own)
  BY OwnedNow
<1>10. PICK next : /\ Owned(h, ty, next)
                   /\ \A o \in DOMAIN typeOf : next[o] = own[o]
  <2>1. PICK none : none = [o \in objs |-> [q \in {} |-> 0]]
    OBVIOUS
  <2>2. \A o \in objs : o \in DOMAIN h /\ IsTree(h[o], {}, none[o], h)
    <3>1. Nil.tag # "agg"
      BY DEF Nil
    <3>2. \A o \in objs : IsTree(Nil, {}, [q \in {} |-> 0], h)
      BY <3>1, ScalarTree
    <3> QED BY <1>7, <2>1, <3>2
  <2>3. \A c \in DOMAIN heap \ objs : Same(heap[c], h[c])
    BY <1>5 DEF Same
  <2>4. \A o \in DOMAIN typeOf \ objs : \A q \in typeOf[o] : own[o][q] \notin objs
    BY <1>7, <1>9 DEF Owned, IsTree
  <2>5. PICK T : T = {}
    OBVIOUS
  <2>8. Formed(T)
    BY <2>5, EmptyFormed
  <2>9. /\ \A o \in objs : o \in DOMAIN h /\ IsTree(h[o], T, none[o], h)
        /\ DOMAIN heap \subseteq DOMAIN h /\ Owned(heap, typeOf, own)
    BY <1>5, <1>9, <2>2, <2>5
  <2>10. \E next : /\ Owned(h, Typed(objs, T), next)
                   /\ \A o \in DOMAIN typeOf \ objs : next[o] = own[o]
                   /\ \A o \in objs : next[o] = none[o]
    BY ONLY <2>3, <2>4, <2>8, <2>9, OwnedTyped
  <2>6. \E next : /\ Owned(h, Typed(objs, {}), next)
                  /\ \A o \in DOMAIN typeOf \ objs : next[o] = own[o]
    BY <2>5, <2>10
  <2>7. ty = Typed(objs, {})
    BY <1>1, <1>6
  <2> QED BY <1>8, <2>6, <2>7
<1>11. Owned(g, ty, next)
  <2>1. ASSUME NEW c \in DOMAIN h PROVE Same(h[c], g[c])
    <3>1. CASE c \in DOMAIN heap
      BY <1>2, <1>4, <1>5, <3>1 DEF Same
    <3>2. CASE c \notin DOMAIN heap
      <4>1. PICK i \in 1 .. k : c = Len(heap) + i
        <5>1. PICK m : m = Len(heap)
          OBVIOUS
        <5>2. k \in Nat /\ m \in Nat /\ c \in 1 .. m + k /\ c \notin 1 .. m
          BY <1>1, <1>2, <1>5, <3>2, <5>1
        <5>3. c - m \in 1 .. k /\ c = m + (c - m)
          BY ONLY <5>2
        <5> QED BY <5>1, <5>3
      <4>2. h[c] = Nil /\ c = Len(heap) + i /\ g[Len(heap) + i] = cells[i] /\ cells[i].tag # "agg"
        <5>1. h[c] = Nil
          BY <1>5, <3>2
        <5>2. g[Len(heap) + i] = cells[i] /\ cells[i].tag # "agg"
          BY <1>1, <1>4
        <5> QED BY <4>1, <5>1, <5>2
      <4>3. Nil.tag # "agg"
        BY DEF Nil
      <4> QED BY ONLY <4>2, <4>3 DEF Same
    <3> QED BY <3>1, <3>2
  <2> QED BY <1>4, <1>5, <1>10, <2>1, OwnedKept
<1>12. Apart(ty, next)
  <2>1. ASSUME NEW o \in DOMAIN ty, NEW p \in DOMAIN ty, NEW q \in ty[o] \cup {<<>>}, NEW r \in ty[p] \cup {<<>>},
               Slot(next, o, q) = Slot(next, p, r)
        PROVE  o = p /\ q = r
    <3>1. ASSUME NEW x \in objs, NEW t \in ty[x] \cup {<<>>} PROVE t = <<>> /\ Slot(next, x, t) \in objs
      BY <1>8, <3>1 DEF Slot
    <3>2. ASSUME NEW x \in DOMAIN typeOf, NEW t \in ty[x] \cup {<<>>}
          PROVE  /\ t \in typeOf[x] \cup {<<>>} /\ Slot(next, x, t) = Slot(own, x, t)
                 /\ Slot(next, x, t) \notin objs
      <4>1. t \in typeOf[x] \cup {<<>>} /\ Slot(next, x, t) = Slot(own, x, t)
        BY <1>8, <1>10, <3>2 DEF Slot
      <4>2. Slot(own, x, t) \in DOMAIN heap
        BY <1>9, <4>1, SlotIn
      <4> QED BY <1>7, <4>1, <4>2
    <3>3. CASE o \in objs /\ p \in objs
      <4>1. q = <<>> /\ r = <<>>
        BY <3>1, <3>3
      <4> QED BY <2>1, <4>1 DEF Slot
    <3>4. CASE o \in DOMAIN typeOf /\ p \in DOMAIN typeOf
      <4>1. /\ q \in typeOf[o] \cup {<<>>} /\ r \in typeOf[p] \cup {<<>>}
            /\ Slot(own, o, q) = Slot(own, p, r)
        BY <2>1, <3>2, <3>4
      <4> QED BY <1>9, <3>4, <4>1, SlotOne
    <3> QED BY <1>8, <2>1, <3>1, <3>2, <3>3, <3>4
  <2> QED BY <2>1 DEF Apart
<1>13. GoReg' = GoReg
  <2>1. \A q \in regType : g[rl[q]] = heap[rl[q]]
    BY <1>2, <1>4 DEF Separate, IsTree
  <2>2. DOMAIN heap \subseteq DOMAIN g
    BY <1>4, <1>5
  <2>3. ValueIn(g, reg, regType) = GoReg
    BY <2>1, <2>2, RegisterSame
  <2> QED BY <1>1, <2>3, SeenNext
<1>14. MemIn(h, ty) = GoMem
  <2>1. Holding(heap, typeOf) = Holding(h, ty)
    BY <1>2, <1>5, <1>7, <1>8 DEF Holding
  <2>2. ASSUME NEW o \in Holding(heap, typeOf)
        PROVE  /\ typeOf[o] = ty[o]
               /\ \A q \in Leaves(typeOf[o]) : heap[Slot(own, o, q)].n = h[Slot(next, o, q)].n
    <3>1. o \in DOMAIN typeOf /\ Formed(typeOf[o])
      BY <1>9 DEF Holding, Owned
    <3>2. ASSUME NEW q \in Leaves(typeOf[o]) PROVE heap[Slot(own, o, q)].n = h[Slot(next, o, q)].n
      <4>1. q \in typeOf[o] \cup {<<>>}
        BY <3>1, LeafKids
      <4>2. Slot(own, o, q) \in DOMAIN heap
        BY <1>9, <3>1, <4>1, SlotIn
      <4>3. Slot(next, o, q) = Slot(own, o, q)
        BY <1>10, <3>1 DEF Slot
      <4> QED BY <1>5, <4>2, <4>3
    <3> QED BY <1>8, <3>1, <3>2
  <2>3. MemIn(heap, typeOf) = MemIn(h, ty)
    BY ONLY <1>9, <1>10, <2>1, <2>2, MemSame
  <2> QED BY <2>3, SeenNow
<1>15. \A i \in 1 .. k : h[Len(heap) + i] = Nil
  BY <1>6, <1>7 DEF NewSlots
<1>16. NewInSight(own, cells, k, h, g, ty, next)
  BY <1>1, <1>2, <1>4, <1>5, <1>6, <1>7, <1>8, <1>10, <1>11, <1>12, <1>13, <1>14, <1>15 DEF NewInSight
<1> QED BY <1>16

\* A slice over new slots, with its spots.
LEMMA FreshIs ==
  ASSUME Len(heap) \in Nat, NEW k \in Nat, NEW n \in 0 .. k, NEW x, x = Fresh(k, n)
  PROVE  /\ x.len = n /\ IsSeq(x.spots) /\ Len(x.spots) = k /\ DOMAIN x.spots = 1 .. k
         /\ \A i \in 1 .. k : /\ x.spots[i] = GoSpec!NewSpot(Len(heap) + i)
                              /\ x.spots[i].obj = Len(heap) + i /\ x.spots[i].path = <<>>
<1>1. x.len = n /\ x.spots = [i \in 1 .. k |-> NewSpot(Len(heap) + i)]
  BY DEF Fresh
<1>2. PICK f : f = x.spots
  OBVIOUS
<1>3. /\ DOMAIN f = 1 .. k
      /\ \A i \in 1 .. k : /\ f[i] = [obj |-> Len(heap) + i, path |-> <<>>]
                           /\ f[i].obj = Len(heap) + i /\ f[i].path = <<>>
  BY <1>1, <1>2 DEF NewSpot
<1>4. f = [i \in 1 .. k |-> f[i]]
  BY <1>1, <1>2
<1>5. IsSeq(f) /\ Len(f) = k
  BY <1>4 DEF IsSeq
<1> QED BY <1>1, <1>2, <1>3, <1>5 DEF GoSpec!NewSpot

\* What Filled needs of a step that gives a slice new slots.
LEMMA ExtendsFilled ==
  ASSUME Inv, Filled, NEW v \in SliceVars, NEW cells, NEW k, NEW n, Extends(v, cells, k, n),
         \A i \in 1 .. n : cells[i] # Nil
  PROVE  Filled'
<1>1. PICK own, rl : Scope /\ Separate(own, rl)
  BY DEF Inv
<1>2. PICK h, g, ty : h = Spared(k) /\ g = heap' /\ ty = typeOf'
  OBVIOUS
<1>3. /\ k \in Nat /\ Len(heap) \in Nat /\ DOMAIN heap = 1 .. Len(heap) /\ DOMAIN heap' = 1 .. Len(heap) + k
      /\ \A c \in DOMAIN heap : heap'[c] = heap[c]
      /\ \A i \in 1 .. k : heap'[Len(heap) + i] = cells[i]
      /\ DOMAIN typeOf' = DOMAIN typeOf \cup NewSlots(k)
  <2>1. PICK next : NewInSight(own, cells, k, h, g, ty, next)
    BY <1>1, <1>2, ExtendsSeen
  <2> QED BY <1>2, <2>1 DEF NewInSight
<1>4. PICK x : x = Fresh(k, n)
  OBVIOUS
<1>5. /\ n \in 0 .. k /\ slices' = [slices EXCEPT ![v] = x] /\ UNCHANGED <<ptr, place, reg>>
  BY <1>4 DEF Extends
<1>6. /\ x.len = n /\ DOMAIN x.spots = 1 .. k
      /\ \A i \in 1 .. k : x.spots[i].obj = Len(heap) + i
  BY <1>3, <1>4, <1>5, FreshIs
<1>7. SliceFilled(heap', x)
  <2>1. ASSUME NEW i \in 1 .. k, i <= n PROVE heap'[x.spots[i].obj] # Nil
    <3>1. i \in 1 .. n
      BY <1>5, <2>1
    <3> QED BY <1>3, <1>6, <3>1
  <2>2. ASSUME NEW i \in 1 .. k, NEW j \in 1 .. k, x.spots[i] = x.spots[j] PROVE i = j
    <3>1. Len(heap) + i = Len(heap) + j
      BY <1>6, <2>2
    <3> QED BY <1>3, <3>1
  <2> QED BY <1>6, <2>1, <2>2 DEF SliceFilled
<1>8. ASSUME NEW c \in DOMAIN heap' \ DOMAIN heap PROVE c \in DOMAIN typeOf'
  <2>1. PICK m : m = Len(heap)
    OBVIOUS
  <2>2. k \in Nat /\ m \in Nat /\ c \in 1 .. m + k /\ c \notin 1 .. m
    BY <1>3, <1>8, <2>1
  <2>3. c - m \in 1 .. k /\ c = m + (c - m)
    BY ONLY <2>2
  <2>4. c \in NewSlots(k)
    BY <2>1, <2>3 DEF NewSlots
  <2> QED BY <1>3, <2>4
<1>9. /\ DOMAIN typeOf \subseteq DOMAIN typeOf'
      /\ \A c \in DOMAIN heap : heap'[c] = Nil => heap[c] = Nil
      /\ \A c \in DOMAIN heap' \ DOMAIN heap : heap'[c] # Nil \/ c \in DOMAIN typeOf'
  BY <1>3, <1>8
<1> QED BY <1>5, <1>7, <1>9, FilledSlices

\* What the program sees of a slice over new slots.
LEMMA ExtendsSlice ==
  ASSUME Inv, NEW v \in SliceVars, NEW cells, NEW k, NEW n, Extends(v, cells, k, n), NEW s, s = GoSlices'[v]
  PROVE  /\ GoSlices' = [GoSlices EXCEPT ![v] = s] /\ s.len = n /\ IsSeq(s.spots) /\ Len(s.spots) = k
         /\ DOMAIN s.spots = 1 .. k
         /\ \A i \in 1 .. k : /\ s.spots[i] = GoSpec!NewSpot(Len(heap) + i)
                              /\ s.spots[i].obj = Len(heap) + i /\ s.spots[i].path = <<>>
         /\ \A u \in SliceVars : GoSlices[u].spots = slices[u].spots /\ GoSlices[u].len = slices[u].len
<1>1. PICK own, rl : Scope /\ Pointing(own)
  BY DEF Inv
<1>2. PICK x : x = Fresh(k, n)
  OBVIOUS
<1>3. k \in Nat /\ n \in 0 .. k /\ Len(heap) \in Nat /\ slices' = [slices EXCEPT ![v] = x]
  BY <1>1, <1>2, SeqIs DEF Extends, Scope
<1>4. SeesSlice(v, x)
  BY <1>1, <1>3, SeenSlice DEF GetsSlice, Pointing
<1>5. /\ GoSlices' = [GoSlices EXCEPT ![v] = s] /\ s = [spots |-> x.spots, len |-> x.len]
      /\ \A u \in SliceVars : GoSlices[u].spots = slices[u].spots /\ GoSlices[u].len = slices[u].len
  BY <1>4 DEF SeesSlice
<1>6. s.spots = x.spots /\ s.len = x.len
  BY <1>5
<1>7. /\ x.len = n /\ IsSeq(x.spots) /\ Len(x.spots) = k /\ DOMAIN x.spots = 1 .. k
      /\ \A i \in 1 .. k : /\ x.spots[i] = GoSpec!NewSpot(Len(heap) + i)
                           /\ x.spots[i].obj = Len(heap) + i /\ x.spots[i].path = <<>>
  BY <1>2, <1>3, FreshIs
<1> QED BY <1>5, <1>6, <1>7

\* MakeSlice of visitInstr: new variables, all zero.
LEMMA MakeSliceSeen ==
  ASSUME Inv, Filled, Elem = {}, NEW v \in SliceVars, NEW n \in Nat, NEW k \in Nat, MakeSlice(v, n, k)
  PROVE  Filled' /\ GoSpec!MakeSlice(v)
<1>1. PICK cells : Extends(v, cells, k, n) /\ \A i \in 1 .. k : cells[i] = Num(0)
  BY MakeSliceIs
<1>2. PICK own, rl : Scope /\ Separate(own, rl)
  BY DEF Inv
<1>3. PICK h, ty, objs, g : h = Spared(k) /\ ty = typeOf' /\ objs = NewSlots(k) /\ g = heap'
  OBVIOUS
<1>4. PICK next : NewInSight(own, cells, k, h, g, ty, next)
  BY <1>1, <1>2, <1>3, ExtendsSeen
<1>5. /\ k \in Nat /\ Len(heap) \in Nat /\ DOMAIN heap = 1 .. Len(heap)
      /\ DOMAIN g = 1 .. Len(heap) + k /\ DOMAIN h = 1 .. Len(heap) + k
      /\ \A c \in DOMAIN heap : g[c] = heap[c] /\ h[c] = heap[c]
      /\ \A i \in 1 .. k : g[Len(heap) + i] = cells[i] /\ h[Len(heap) + i] = Nil
      /\ DOMAIN ty = DOMAIN typeOf \cup objs /\ objs \cap DOMAIN heap = {}
      /\ \A o \in objs : ty[o] = {}
      /\ \A o \in DOMAIN typeOf : ty[o] = typeOf[o] /\ next[o] = own[o]
      /\ GoReg' = GoReg /\ MemIn(h, ty) = GoMem
      /\ Owned(g, ty, next) /\ Owned(h, ty, next)
  BY <1>3, <1>4 DEF NewInSight
<1>6. ASSUME NEW o \in objs PROVE g[o] = Num(0) /\ h[o] = Nil
  <2>1. PICK i \in 1 .. k : o = Len(heap) + i
    BY <1>3, <1>6 DEF NewSlots
  <2> QED BY <1>1, <1>5, <2>1
<1>7. Filled'
  <2>1. n \in 0 .. k /\ \A i \in 1 .. k : cells[i] # Nil
    BY <1>1 DEF Extends, Num, Nil
  <2>2. \A i \in 1 .. n : cells[i] # Nil
    BY <2>1
  <2> QED BY <1>1, <2>2, ExtendsFilled
<1>8. GoMem' = MemIn(g, ty) /\ GoMem = MemIn(h, ty)
  BY <1>3, <1>5, SeenNext
<1>9. /\ Holding(g, ty) = Holding(h, ty) \cup objs
      /\ objs \cap Holding(h, ty) = {}
      /\ \A o \in Holding(h, ty) : o \in DOMAIN typeOf
  <2>1. \A o \in DOMAIN typeOf : o \in DOMAIN heap
    BY <1>2 DEF Scope
  <2>2. Num(0) # Nil
    BY DEF Num, Nil
  <2> QED BY <1>5, <1>6, <2>1, <2>2 DEF Holding
<1>10. /\ DOMAIN GoMem' = DOMAIN GoMem \cup objs /\ objs \cap DOMAIN GoMem = {}
  <2>1. DOMAIN MemIn(g, ty) = Holding(g, ty) /\ DOMAIN MemIn(h, ty) = Holding(h, ty)
    BY <1>5, MemIs
  <2> QED BY <1>8, <1>9, <2>1
<1>11. ASSUME NEW o \in DOMAIN GoMem PROVE GoMem'[o] = GoMem[o]
  <2>1. o \in Holding(h, ty) /\ o \in Holding(g, ty) /\ o \in DOMAIN typeOf
    BY <1>5, <1>8, <1>9, <1>11, MemIs
  <2>2. /\ MemIn(h, ty)[o] = Shown(h, next, o, <<>>, ty[o])
        /\ MemIn(g, ty)[o] = Shown(g, next, o, <<>>, ty[o])
    BY <1>5, <2>1, MemIs
  <2>3. ASSUME NEW t \in Leaves(ty[o])
        PROVE  h[Slot(next, o, <<>> \o t)].n = g[Slot(next, o, <<>> \o t)].n
    <3>1. Formed(typeOf[o]) /\ ty[o] = typeOf[o]
      BY <1>2, <1>5, <2>1 DEF Scope
    <3>2. <<>> \o t = t /\ t \in typeOf[o] \cup {<<>>}
      BY <2>3, <3>1, LeafPaths, LeafKids
    <3>3. Owned(heap, typeOf, own)
      BY <1>2, OwnedNow
    <3>4. Slot(own, o, t) \in DOMAIN heap
      BY <2>1, <3>2, <3>3, SlotIn
    <3>5. Slot(next, o, t) = Slot(own, o, t)
      BY <1>5, <2>1 DEF Slot
    <3> QED BY <1>5, <3>2, <3>4, <3>5
  <2>4. Shown(h, next, o, <<>>, ty[o]) = Shown(g, next, o, <<>>, ty[o])
    BY <2>3 DEF Shown
  <2> QED BY <1>8, <2>2, <2>4
<1>12. ASSUME NEW o \in objs PROVE \A q \in DOMAIN GoMem'[o] : GoMem'[o][q] = 0
  <2>1. ty[o] = {} /\ o \in Holding(g, ty) /\ g[o] = Num(0)
    BY <1>5, <1>6, <1>9
  <2>2. GoMem'[o] = Shown(g, next, o, <<>>, {})
    <3>2. \A p \in Holding(g, ty) : MemIn(g, ty)[p] = Shown(g, next, p, <<>>, ty[p])
      BY <1>5, MemIs
    <3>1. MemIn(g, ty)[o] = Shown(g, next, o, <<>>, ty[o])
      BY ONLY <2>1, <3>2
    <3> QED BY <1>8, <2>1, <3>1
  <2>3. DOMAIN Shown(g, next, o, <<>>, {}) = {<<>>}
    BY ScalarLeaves DEF Shown
  <2>4. Shown(g, next, o, <<>>, {})[<<>>] = 0
    <3>1. <<>> \o <<>> = <<>>
      <4>1. <<>> \in Path
        BY EmptySeq DEF Path
      <4> QED BY <4>1, Joined
    <3>2. Slot(next, o, <<>>) = o
      BY DEF Slot
    <3>3. g[o].n = 0
      BY <2>1 DEF Num
    <3> QED BY <3>1, <3>2, <3>3, ScalarLeaves DEF Shown
  <2> QED BY <2>2, <2>3, <2>4
<1>13. GoSpec!Created(objs)
  BY <1>10, <1>11, <1>12 DEF GoSpec!Created
<1>14. PICK s : s = GoSlices'[v]
  OBVIOUS
<1>15. /\ GoSlices' = [GoSlices EXCEPT ![v] = s] /\ s.len = n /\ Len(s.spots) = k /\ DOMAIN s.spots = 1 .. k
       /\ \A i \in 1 .. k : s.spots[i] = GoSpec!NewSpot(Len(heap) + i) /\ s.spots[i].obj = Len(heap) + i
  BY <1>1, <1>14, ExtendsSlice
<1>16. objs = {s.spots[i].obj : i \in DOMAIN s.spots}
  BY <1>3, <1>15 DEF NewSlots
<1>17. ASSUME NEW i \in DOMAIN s.spots, NEW j \in DOMAIN s.spots, s.spots[i] = s.spots[j] PROVE i = j
  <2>1. i \in 1 .. k /\ j \in 1 .. k /\ Len(heap) + i = Len(heap) + j
    <3>1. s.spots[i].obj = Len(heap) + i /\ s.spots[j].obj = Len(heap) + j /\ i \in 1 .. k /\ j \in 1 .. k
      BY <1>15
    <3> QED BY <1>17, <3>1
  <2> QED BY <1>5, <2>1
<1>18. n <= k /\ UNCHANGED <<place, GoReg>>
  BY <1>1, <1>5 DEF Extends
<1>19. \A i \in DOMAIN s.spots : s.spots[i] = GoSpec!NewSpot(s.spots[i].obj)
  BY <1>15
<1>20. /\ s.len <= Len(s.spots)
       /\ \A i, j \in DOMAIN s.spots : s.spots[i] = s.spots[j] => i = j
       /\ GoSpec!Created({s.spots[i].obj : i \in DOMAIN s.spots})
       /\ GoSlices' = [GoSlices EXCEPT ![v] = s]
  BY <1>13, <1>15, <1>16, <1>17, <1>18
<1>21. GoSpec!MakeSlice(v)
  <2>1. /\ GoSlices'[v].len <= Len(GoSlices'[v].spots)
        /\ \A i, j \in DOMAIN GoSlices'[v].spots : GoSlices'[v].spots[i] = GoSlices'[v].spots[j] => i = j
        /\ \A i \in DOMAIN GoSlices'[v].spots : GoSlices'[v].spots[i] = GoSpec!NewSpot(GoSlices'[v].spots[i].obj)
        /\ GoSpec!Created({GoSlices'[v].spots[i].obj : i \in DOMAIN GoSlices'[v].spots})
        /\ GoSlices' = [GoSlices EXCEPT ![v] = GoSlices'[v]]
        /\ UNCHANGED <<place, GoReg>>
    BY ONLY <1>14, <1>18, <1>19, <1>20
  <2> QED BY ONLY <2>1 DEF GoSpec!MakeSlice
<1> QED BY <1>7, <1>21

\* The contents of some of the slots of a slice are moved to new ones.
LEMMA MovedOut ==
  ASSUME NEW own, NEW cells, NEW k, NEW h, NEW g, NEW ty, NEW next, NewInSight(own, cells, k, h, g, ty, next),
         Scope, Owned(heap, typeOf, own), NEW i \in 1 .. k, NEW s, ScalarSpot(typeOf, s), NEW c, c = SlotOf(own, s), c \in DOMAIN heap,
         heap[c].tag # "agg", heap[c] # Nil, heap[s.obj] # Nil, cells[i] = heap[c],
         NEW to, to.obj = Len(heap) + i, to.path = <<>>
  PROVE  /\ ScalarSpot(ty, to) /\ ScalarSpot(ty, s)
         /\ s.obj \in Holding(h, ty) /\ h[SlotOf(next, s)] # Nil
         /\ h[SlotOf(next, to)].tag # "agg" /\ g[SlotOf(next, to)].tag # "agg"
         /\ SlotOf(next, to) = Len(heap) + i
         /\ g[SlotOf(next, to)] = h[SlotOf(next, s)]
         /\ g[to.obj] # Nil
<1>1. PICK o : o = Len(heap) + i
  OBVIOUS
<1>2. /\ o \in DOMAIN ty /\ ty[o] = {} /\ g[o] = cells[i] /\ h[o] = Nil
      /\ s.obj \in DOMAIN ty /\ ty[s.obj] = typeOf[s.obj] /\ next[s.obj] = own[s.obj]
      /\ h[c] = heap[c]
  <2>1. o \in NewSlots(k)
    BY <1>1 DEF NewSlots
  <2> QED BY <1>1, <2>1 DEF NewInSight, ScalarSpot
<1>3. SlotOf(next, s) = c
  BY <1>2 DEF SlotOf, Slot
<1>4. SlotOf(next, to) = o
  BY <1>1 DEF SlotOf, Slot
<1>5. ScalarSpot(ty, to)
  <2>1. Sub({}, <<>>) = {}
    BY DEF Sub
  <2> QED BY <1>1, <1>2, <2>1 DEF ScalarSpot
<1>6. ScalarSpot(ty, s)
  BY <1>2 DEF ScalarSpot
<1>7. s.obj \in Holding(h, ty)
  <2>1. s.obj \in DOMAIN heap
    BY DEF Scope, ScalarSpot
  <2>2. h[s.obj] = heap[s.obj]
    BY <2>1 DEF NewInSight
  <2> QED BY <1>2, <2>2 DEF Holding
<1>8. Nil.tag # "agg"
  BY DEF Nil
<1> QED BY <1>1, <1>2, <1>3, <1>4, <1>5, <1>6, <1>7, <1>8

\* append of callBuiltin in a new host array.
LEMMA AppendGrowSeen ==
  ASSUME Inv, Filled, Elem = {}, NEW v \in SliceVars, NEW u \in SliceVars, NEW w \in SliceVars,
         NEW spare \in Nat, AppendGrow(v, u, w, spare)
  PROVE  Filled' /\ GoSpec!AppendSlice(v, u, w)
<1>1. PICK own, rl : Scope /\ Separate(own, rl) /\ Pointing(own)
  BY DEF Inv
<1>2. PICK a, b : a = slices[u].len /\ b = slices[w].len
  OBVIOUS
<1>3. PICK cells, k, n :
        /\ Extends(v, cells, k, n) /\ n = a + b /\ n > Len(slices[u].cells)
        /\ \A i \in 1 .. a : cells[i] = heap[slices[u].cells[i]]
        /\ \A i \in 1 .. b : cells[a + i] = heap[slices[w].cells[i]]
        /\ \A i \in 1 .. k : i > n => cells[i] = Nil
  BY <1>2, AppendGrowIs
<1>4. PICK h, g, ty : h = Spared(k) /\ g = heap' /\ ty = typeOf'
  OBVIOUS
<1>5. PICK next : NewInSight(own, cells, k, h, g, ty, next)
  BY <1>1, <1>3, <1>4, ExtendsSeen
<1>6. /\ SliceOK(own, slices[u]) /\ SliceFilled(heap, slices[u]) /\ SliceLengths(slices[u])
      /\ SliceOK(own, slices[w]) /\ SliceFilled(heap, slices[w]) /\ SliceLengths(slices[w])
  BY <1>1, SliceNumbers DEF Pointing, Filled
<1>7. /\ a \in Nat /\ b \in Nat /\ n \in Nat /\ n \in 0 .. k /\ k \in Nat /\ Len(heap) \in Nat
      /\ Len(slices[u].cells) \in Nat /\ Len(slices[w].cells) \in Nat
      /\ b <= Len(slices[w].cells) /\ a <= Len(slices[u].cells)
  BY <1>2, <1>3, <1>5, <1>6 DEF SliceLengths, Extends, NewInSight
<1>8. PICK us, ws, uc, wc : /\ us = SubSeq(slices[u].spots, 1, a) /\ ws = SubSeq(slices[w].spots, 1, b)
                            /\ uc = SubSeq(slices[u].cells, 1, a) /\ wc = SubSeq(slices[w].cells, 1, b)
  OBVIOUS
<1>9. Piece(own, uc, us, a) /\ \A i \in 1 .. a : heap[uc[i]] # Nil /\ cells[i] = heap[uc[i]]
  <2>1. PICK y, one : y = slices[u] /\ one = 1
    OBVIOUS
  <2>2. /\ Scope /\ Separate(own, rl) /\ SliceOK(own, y) /\ SliceFilled(heap, y) /\ one \in Nat \ {0}
        /\ a \in Nat /\ a <= Len(y.cells) /\ one <= a + 1 /\ a = a - one + 1
        /\ uc = SubSeq(y.cells, one, a) /\ us = SubSeq(y.spots, one, a)
    BY <1>1, <1>6, <1>7, <1>8, <2>1
  <2>3. Piece(own, uc, us, a) /\ \A i \in 1 .. a : one + i - 1 <= y.len => heap[uc[i]] # Nil
    BY ONLY Filled, Elem = {}, <2>2, SlicePiece
  <2>4. \A i \in 1 .. a : uc[i] = slices[u].cells[i]
    <3>1. IsSeq(y.cells)
      BY <1>6, <2>1 DEF SliceLengths
    <3>2. \A i \in 1 .. a - one + 1 : SubSeq(y.cells, one, a)[i] = y.cells[one + i - 1]
      BY <2>2, <3>1, SubSeqIs
    <3>3. \A i \in 1 .. a : i \in 1 .. a - one + 1 /\ one + i - 1 = i
      BY <1>7, <2>1
    <3> QED BY <2>1, <2>2, <3>2, <3>3
  <2>5. \A i \in 1 .. a : one + i - 1 <= y.len
    BY <1>2, <1>7, <2>1
  <2> QED BY <1>3, <2>3, <2>4, <2>5
<1>10. Piece(own, wc, ws, b) /\ \A i \in 1 .. b : heap[wc[i]] # Nil /\ cells[a + i] = heap[wc[i]]
  <2>1. PICK y, one : y = slices[w] /\ one = 1
    OBVIOUS
  <2>2. /\ Scope /\ Separate(own, rl) /\ SliceOK(own, y) /\ SliceFilled(heap, y) /\ one \in Nat \ {0}
        /\ b \in Nat /\ b <= Len(y.cells) /\ one <= b + 1 /\ b = b - one + 1
        /\ wc = SubSeq(y.cells, one, b) /\ ws = SubSeq(y.spots, one, b)
    BY <1>1, <1>6, <1>7, <1>8, <2>1
  <2>3. Piece(own, wc, ws, b) /\ \A i \in 1 .. b : one + i - 1 <= y.len => heap[wc[i]] # Nil
    BY ONLY Filled, Elem = {}, <2>2, SlicePiece
  <2>4. \A i \in 1 .. b : wc[i] = slices[w].cells[i]
    <3>1. IsSeq(y.cells)
      BY <1>6, <2>1 DEF SliceLengths
    <3>2. \A i \in 1 .. b - one + 1 : SubSeq(y.cells, one, b)[i] = y.cells[one + i - 1]
      BY <2>2, <3>1, SubSeqIs
    <3>3. \A i \in 1 .. b : i \in 1 .. b - one + 1 /\ one + i - 1 = i
      BY <1>7, <2>1
    <3> QED BY <2>1, <2>2, <3>2, <3>3
  <2>5. \A i \in 1 .. b : one + i - 1 <= y.len
    BY <1>2, <1>7, <2>1
  <2> QED BY <1>3, <2>3, <2>4, <2>5
<1>11. PICK froms : froms = us \o ws
  OBVIOUS
<1>12. /\ \A i \in 1 .. a : froms[i] = us[i]
       /\ \A i \in 1 .. b : froms[a + i] = ws[i]
  <2>1. IsSeq(us) /\ IsSeq(ws) /\ Len(us) = a /\ Len(ws) = b
    BY <1>9, <1>10 DEF Piece
  <2>2. /\ \A i \in 1 .. Len(us) : (us \o ws)[i] = us[i]
        /\ \A i \in 1 .. Len(ws) : (us \o ws)[Len(us) + i] = ws[i]
    BY ONLY <2>1, ConcatIs
  <2>3. /\ \A i \in 1 .. Len(us) : froms[i] = us[i]
        /\ \A i \in 1 .. Len(ws) : froms[Len(us) + i] = ws[i]
    BY ONLY <1>11, <2>2
  <2> QED BY ONLY <2>1, <2>3
<1>13. PICK s : s = GoSlices'[v]
  OBVIOUS
<1>14. /\ GoSlices' = [GoSlices EXCEPT ![v] = s] /\ s.len = n /\ IsSeq(s.spots) /\ Len(s.spots) = k
       /\ DOMAIN s.spots = 1 .. k
       /\ \A i \in 1 .. k : /\ s.spots[i] = GoSpec!NewSpot(Len(heap) + i)
                            /\ s.spots[i].obj = Len(heap) + i /\ s.spots[i].path = <<>>
       /\ \A t \in SliceVars : GoSlices[t].spots = slices[t].spots /\ GoSlices[t].len = slices[t].len
  BY <1>3, <1>13, ExtendsSlice
<1>15. PICK tos : tos = SubSeq(s.spots, 1, n)
  OBVIOUS
<1>16. Len(tos) = n /\ \A i \in 1 .. n : tos[i] = s.spots[i]
  <2>1. PICK one : one = 1
    OBVIOUS
  <2>2. IsSeq(s.spots) /\ one \in Nat \ {0} /\ n \in Nat /\ n <= Len(s.spots) /\ one <= n + 1
    BY <1>7, <1>14, <2>1
  <2>3. PICK f : f = s.spots
    OBVIOUS
  <2>4. /\ Len(SubSeq(f, one, n)) = n - one + 1
        /\ \A i \in 1 .. n - one + 1 : SubSeq(f, one, n)[i] = f[one + i - 1]
    BY <2>2, <2>3, SubSeqIs
  <2>5. n - one + 1 = n /\ \A i \in 1 .. n : one + i - 1 = i
    BY <1>7, <2>1
  <2> QED BY <1>15, <2>1, <2>3, <2>4, <2>5
<1>17. ASSUME NEW i \in 1 .. n
       PROVE  \E c : /\ ScalarSpot(typeOf, froms[i]) /\ c = SlotOf(own, froms[i]) /\ c \in DOMAIN heap
                     /\ heap[c].tag # "agg" /\ heap[c] # Nil /\ heap[froms[i].obj] # Nil /\ cells[i] = heap[c]
  <2>1. CASE i <= a
    <3>1. i \in 1 .. a
      BY <1>7, <2>1
    <3>2. froms[i] = us[i] /\ heap[uc[i]] # Nil /\ cells[i] = heap[uc[i]]
      BY <1>9, <1>12, <3>1
    <3>3. /\ ScalarSpot(typeOf, us[i]) /\ uc[i] = SlotOf(own, us[i]) /\ uc[i] \in DOMAIN heap
          /\ heap[uc[i]].tag # "agg" /\ (heap[us[i].obj] # Nil <=> heap[uc[i]] # Nil)
      BY <1>9, <3>1 DEF Piece
    <3> QED BY <3>2, <3>3
  <2>2. CASE ~(i <= a)
    <3>1. PICK j : j = i - a
      OBVIOUS
    <3>2. j \in 1 .. b /\ a + j = i
      BY <1>3, <1>7, <2>2, <3>1
    <3>3. froms[a + j] = ws[j] /\ heap[wc[j]] # Nil /\ cells[a + j] = heap[wc[j]]
      BY <1>10, <1>12, <3>2
    <3>4. /\ ScalarSpot(typeOf, ws[j]) /\ wc[j] = SlotOf(own, ws[j]) /\ wc[j] \in DOMAIN heap
          /\ heap[wc[j]].tag # "agg" /\ (heap[ws[j].obj] # Nil <=> heap[wc[j]] # Nil)
      BY <1>10, <3>2 DEF Piece
    <3> QED BY <3>2, <3>3, <3>4
  <2> QED BY <2>1, <2>2
<1>18. ASSUME NEW i \in 1 .. n
       PROVE  /\ ScalarSpot(ty, tos[i]) /\ ScalarSpot(ty, froms[i])
              /\ froms[i].obj \in Holding(h, ty) /\ h[SlotOf(next, froms[i])] # Nil
              /\ h[SlotOf(next, tos[i])].tag # "agg" /\ g[SlotOf(next, tos[i])].tag # "agg"
              /\ SlotOf(next, tos[i]) = Len(heap) + i
              /\ g[SlotOf(next, tos[i])] = h[SlotOf(next, froms[i])]
              /\ g[tos[i].obj] # Nil /\ tos[i].path = <<>>
  <2>1. PICK f, t : f = froms[i] /\ t = tos[i]
    OBVIOUS
  <2>2. PICK c : /\ ScalarSpot(typeOf, f) /\ c = SlotOf(own, f) /\ c \in DOMAIN heap
                 /\ heap[c].tag # "agg" /\ heap[c] # Nil /\ heap[f.obj] # Nil /\ cells[i] = heap[c]
    BY <1>17, <2>1
  <2>3. i \in 1 .. k /\ t.obj = Len(heap) + i /\ t.path = <<>>
    <3>1. i \in 1 .. k
      BY <1>7
    <3> QED BY <1>14, <1>16, <2>1, <3>1
  <2>4. Owned(heap, typeOf, own)
    BY <1>1, OwnedNow
  <2>5. /\ ScalarSpot(ty, t) /\ ScalarSpot(ty, f)
        /\ f.obj \in Holding(h, ty) /\ h[SlotOf(next, f)] # Nil
        /\ h[SlotOf(next, t)].tag # "agg" /\ g[SlotOf(next, t)].tag # "agg"
        /\ SlotOf(next, t) = Len(heap) + i
        /\ g[SlotOf(next, t)] = h[SlotOf(next, f)]
        /\ g[t.obj] # Nil
    BY <1>1, <1>5, <2>2, <2>3, <2>4, MovedOut
  <2> QED BY <2>1, <2>3, <2>5
<1>19. MovedTo(h, ty, next, tos, froms, n, g)
  <2>1. DOMAIN g = DOMAIN h
    BY <1>5 DEF NewInSight
  <2>2. ASSUME NEW i \in 1 .. n, NEW j \in 1 .. n, SlotOf(next, tos[i]) = SlotOf(next, tos[j]) PROVE i = j
    <3>1. Len(heap) + i = Len(heap) + j
      BY <1>18, <2>2
    <3> QED BY <1>7, <3>1
  <2>3. ASSUME NEW c \in DOMAIN h, \A i \in 1 .. n : c # SlotOf(next, tos[i]) PROVE g[c] = h[c]
    <3>1. CASE c \in DOMAIN heap
      BY <1>5, <3>1 DEF NewInSight
    <3>2. CASE c \notin DOMAIN heap
      <4>1. PICK m, i : m = Len(heap) /\ i = c - m
        OBVIOUS
      <4>2. m \in Nat /\ c \in 1 .. m + k /\ c \notin 1 .. m
        BY <1>5, <1>7, <3>2, <4>1 DEF NewInSight
      <4>3. i \in 1 .. k /\ c = m + i
        BY <1>7, <4>1, <4>2
      <4>4. i > n
        <5>1. ASSUME i \in 1 .. n PROVE FALSE
          BY <1>18, <2>3, <4>1, <4>3, <5>1
        <5> QED BY <1>7, <4>3, <5>1
      <4>5. g[m + i] = cells[i] /\ h[m + i] = Nil
        BY <1>5, <4>1, <4>3 DEF NewInSight
      <4> QED BY <1>3, <4>3, <4>4, <4>5
    <3> QED BY <3>1, <3>2
  <2> QED BY <1>18, <2>1, <2>2, <2>3 DEF MovedTo
<1>20. GoMem' = GoSpec!WriteAll(tos, froms)
  <2>1. Owned(h, ty, next) /\ Apart(ty, next) /\ Owned(g, ty, next) /\ GoMem = MemIn(h, ty)
    BY <1>5 DEF NewInSight
  <2>2. GoSpec!WriteAll(tos, froms) = MemIn(g, ty)
    BY <1>7, <1>16, <1>19, <2>1, MoveAll
  <2> QED BY <1>4, <2>2, SeenNext
<1>21. Filled'
  <2>1. ASSUME NEW i \in 1 .. n PROVE cells[i] # Nil
    BY <1>17
  <2> QED BY <1>3, <2>1, ExtendsFilled
<1>22. /\ \A i \in DOMAIN s.spots : s.spots[i] = GoSpec!NewSpot(s.spots[i].obj)
       /\ \A i \in DOMAIN s.spots : s.spots[i].obj \notin DOMAIN GoMem
       /\ \A i, j \in DOMAIN s.spots : s.spots[i] = s.spots[j] => i = j
  <2>1. ASSUME NEW i \in DOMAIN s.spots PROVE s.spots[i].obj \notin DOMAIN GoMem
    <3>1. i \in 1 .. k /\ s.spots[i].obj \in NewSlots(k)
      BY <1>14 DEF NewSlots
    <3>2. s.spots[i].obj \notin DOMAIN heap
      BY <1>5, <3>1 DEF NewInSight
    <3>3. DOMAIN GoMem \subseteq DOMAIN heap
      BY <1>1 DEF Scope, GoMem
    <3> QED BY <3>2, <3>3
  <2>2. ASSUME NEW i \in DOMAIN s.spots, NEW j \in DOMAIN s.spots, s.spots[i] = s.spots[j] PROVE i = j
    <3>1. i \in 1 .. k /\ j \in 1 .. k /\ Len(heap) + i = Len(heap) + j
      <4>1. s.spots[i].obj = Len(heap) + i /\ s.spots[j].obj = Len(heap) + j /\ i \in 1 .. k /\ j \in 1 .. k
        BY <1>14
      <4> QED BY <2>2, <4>1
    <3> QED BY <1>7, <3>1
  <2> QED BY <1>14, <2>1, <2>2
<1>23. /\ tos = GoSpec!Spots(s) /\ us = GoSpec!Spots(GoSlices[u]) /\ ws = GoSpec!Spots(GoSlices[w])
       /\ s.len = GoSlices[u].len + GoSlices[w].len
       /\ s.len > Len(GoSlices[u].spots)
  <2>1. /\ GoSlices[u].spots = slices[u].spots /\ GoSlices[u].len = a
        /\ GoSlices[w].spots = slices[w].spots /\ GoSlices[w].len = b
    BY <1>2, <1>14
  <2>2. Len(slices[u].spots) = Len(slices[u].cells)
    BY <1>6 DEF SliceLengths
  <2> QED BY <1>3, <1>8, <1>14, <1>15, <2>1, <2>2 DEF GoSpec!Spots
<1>24. UNCHANGED <<place, GoReg>>
  BY <1>3, <1>5 DEF Extends, NewInSight
<1>25. GoMem' = GoSpec!WriteAll(GoSpec!Spots(s), GoSpec!Spots(GoSlices[u]) \o GoSpec!Spots(GoSlices[w]))
  BY <1>11, <1>20, <1>23
<1>26. GoSpec!AppendSlice(v, u, w)
  BY ONLY <1>13, <1>14, <1>22, <1>23, <1>24, <1>25 DEF GoSpec!AppendSlice
<1> QED BY <1>21, <1>26

\* At first there is nothing to see.
LEMMA FilledInit ==
  ASSUME Init
  PROVE  Filled /\ GoSpec!Init
<1>1. Filled
  <2>1. \A v \in SliceVars : DOMAIN slices[v].spots = {}
    BY DEF Init
  <2>2. \A v \in SliceVars : SliceFilled(heap, slices[v])
    BY <2>1 DEF SliceFilled
  <2> QED BY <2>2 DEF Init, Filled, Num, Nil
<1>2. DOMAIN GoMem = {}
  BY DEF Init, GoMem
<1>3. GoReg = [q \in {<<>>} |-> 0]
  <2>1. reg = Num(0) /\ regType = {}
    BY DEF Init
  <2>2. IsTree(reg, {}, [q \in {} |-> 0], heap)
    BY <2>1, ScalarTree DEF Num
  <2>3. ValueIn(heap, reg, {}) = [q \in Leaves({}) |-> (IF q = <<>> THEN reg ELSE heap[[r \in {} |-> 0][q]]).n]
    <3>1. PICK T, L : T = {} /\ L = [q \in {} |-> 0]
      OBVIOUS
    <3>2. Formed(T) /\ IsTree(reg, T, L, heap)
      BY <2>2, <3>1, EmptyFormed
    <3>3. PICK x, h : x = reg /\ h = heap
      OBVIOUS
    <3>4. ValueIn(h, x, T) = [q \in Leaves(T) |-> (IF q = <<>> THEN x ELSE h[L[q]]).n]
      BY <3>2, <3>3, ValueIs
    <3> QED BY <3>1, <3>3, <3>4
  <2>4. [q \in Leaves({}) |-> (IF q = <<>> THEN reg ELSE heap[[r \in {} |-> 0][q]]).n] = [q \in {<<>>} |-> 0]
    BY <2>1, ScalarLeaves DEF Num
  <2>5. GoReg = ValueIn(heap, reg, regType)
    BY SeenNow
  <2> QED BY <2>1, <2>3, <2>4, <2>5
<1>4. \A v \in DOMAIN GoSlices : GoSlices[v] = [spots |-> <<>>, len |-> 0]
  BY DEF Init, GoSlices
<1> QED BY <1>1, <1>2, <1>3, <1>4 DEF Init, NewSpot, GoSpec!Init

\* A slice that reached into spare slots is not forgotten.
LEMMA ExposedStays ==
  ASSUME [Next]_vars, exposed
  PROVE  exposed'
<1>1. CASE UNCHANGED exposed
  BY <1>1
<1>2. ASSUME NEW v \in SliceVars, NEW u \in SliceVars, NEW c \in Cuts, SliceSlice(v, u, c[1], c[2], c[3])
      PROVE  exposed'
  BY <1>2 DEF SliceSlice
<1>3. (\E T \in Types : AllocHeap(T)) \/ (\E o \in DOMAIN typeOf : AllocLocal(o) \/ UseVar(o))
        => UNCHANGED exposed
  BY DEF AllocHeap, AllocLocal, UseVar
<1>4. (\E i \in 1 .. 2 : FieldAddr(i) \/ Field(i)) \/ (\E n \in Scalars : Const(n)) \/ Load \/ Store
        => UNCHANGED exposed
  BY DEF FieldAddr, Field, Const, Load, Store
<1>5. ASSUME NEW v \in SliceVars,
             \/ \E i \in 1 .. slices[v].len : IndexAddr(v, i)
             \/ \E c \in Makes : MakeSlice(v, c[1], c[2])
             \/ SliceArray(v)
             \/ \E u \in SliceVars : CopySlice(v, u)
             \/ \E u, w \in SliceVars : AppendInPlace(v, u, w)
             \/ \E u, w \in SliceVars : \E spare \in 0 .. MaxSpare : AppendGrow(v, u, w, spare)
      PROVE  UNCHANGED exposed
  BY <1>5 DEF IndexAddr, MakeSlice, SliceArray, CopySlice, AppendInPlace, AppendGrow
<1>6. UNCHANGED vars => UNCHANGED exposed
  BY DEF vars
<1> QED BY <1>1, <1>2, <1>3, <1>4, <1>5, <1>6 DEF Next

\* Until then every instruction does to the variables what Go's does.
LEMMA StepSeen ==
  ASSUME Elem = {}, Inv, Filled, [Next]_vars, ~exposed'
  PROVE  Filled' /\ [GoSpec!Next]_GoSpec!vars
<1>0. DOMAIN GoSlices = SliceVars
  BY DEF GoSlices
<1>1. ASSUME NEW T \in Types, AllocHeap(T) PROVE Filled' /\ GoSpec!Next
  <2>1. Formed(T)
    BY TypesAssumption, TypesFormed
  <2> QED BY <1>1, <2>1, AllocHeapSeen DEF GoSpec!Next
<1>2. ASSUME NEW o \in DOMAIN typeOf, AllocLocal(o) PROVE Filled' /\ GoSpec!Next
  BY <1>2, AllocLocalSeen DEF GoSpec!Next
<1>3. ASSUME NEW o \in DOMAIN typeOf, UseVar(o) PROVE Filled' /\ GoSpec!Next
  BY <1>3, UseVarSeen DEF GoSpec!Next
<1>4. ASSUME NEW i \in 1 .. 2, FieldAddr(i) PROVE Filled' /\ GoSpec!Next
  BY <1>4, FieldAddrSeen DEF GoSpec!Next
<1>5. ASSUME NEW i \in 1 .. 2, Field(i) PROVE Filled' /\ GoSpec!Next
  BY <1>5, FieldSeen DEF GoSpec!Next
<1>6. ASSUME NEW n \in Scalars, Const(n) PROVE Filled' /\ GoSpec!Next
  <2>1. n \in Nat
    BY MemoryAssumption
  <2> QED BY <1>6, <2>1, ConstSeen DEF GoSpec!Next
<1>7. ASSUME Load PROVE Filled' /\ GoSpec!Next
  BY <1>7, LoadSeen DEF GoSpec!Next
<1>8. ASSUME Store PROVE Filled' /\ GoSpec!Next
  BY <1>8, StoreSeen DEF GoSpec!Next
<1>9. ASSUME NEW v \in SliceVars, NEW i \in 1 .. slices[v].len, IndexAddr(v, i)
      PROVE  Filled' /\ GoSpec!Next
  BY <1>9, IndexAddrSeen DEF GoSpec!Next
<1>10. ASSUME NEW v \in SliceVars, NEW c \in Makes, MakeSlice(v, c[1], c[2]) PROVE Filled' /\ GoSpec!Next
  <2>1. PICK n, k : n = c[1] /\ k = c[2]
    OBVIOUS
  <2>2. n \in Nat /\ k \in Nat /\ MakeSlice(v, n, k)
    BY <1>10, <2>1, MemoryAssumption
  <2>3. Filled' /\ GoSpec!MakeSlice(v)
    BY <2>2, MakeSliceSeen
  <2> QED BY <1>0, <2>3 DEF GoSpec!Next
<1>11. ASSUME NEW v \in SliceVars, SliceArray(v) PROVE Filled' /\ GoSpec!Next
  <2>1. Filled' /\ GoSpec!SliceArray(v)
    BY <1>11, SliceArraySeen
  <2> QED BY <1>0, <2>1 DEF GoSpec!Next
<1>12. ASSUME NEW v \in SliceVars, NEW u \in SliceVars, NEW c \in Cuts, SliceSlice(v, u, c[1], c[2], c[3])
       PROVE  Filled' /\ GoSpec!Next
  <2>1. PICK l, h, m : l = c[1] /\ h = c[2] /\ m = c[3]
    OBVIOUS
  <2>2. l \in Nat /\ h \in Nat /\ m \in Nat /\ SliceSlice(v, u, l, h, m)
    BY <1>12, <2>1, MemoryAssumption
  <2>3. Filled' /\ GoSpec!Slice(v)
    BY <2>2, SliceSliceSeen
  <2> QED BY <1>0, <2>3 DEF GoSpec!Next
<1>13. ASSUME NEW v \in SliceVars, NEW u \in SliceVars, CopySlice(v, u) PROVE Filled' /\ GoSpec!Next
  <2>1. Filled' /\ GoSpec!CopySlice(v, u)
    BY <1>13, CopySliceSeen
  <2> QED BY <1>0, <2>1 DEF GoSpec!Next
<1>14. ASSUME NEW v \in SliceVars, NEW u \in SliceVars, NEW w \in SliceVars, AppendInPlace(v, u, w)
       PROVE  Filled' /\ GoSpec!Next
  <2>1. Filled' /\ GoSpec!AppendSlice(v, u, w)
    BY <1>14, AppendInPlaceSeen
  <2> QED BY <1>0, <2>1 DEF GoSpec!Next
<1>15. ASSUME NEW v \in SliceVars, NEW u \in SliceVars, NEW w \in SliceVars, NEW spare \in 0 .. MaxSpare,
              AppendGrow(v, u, w, spare)
       PROVE  Filled' /\ GoSpec!Next
  <2>1. spare \in Nat
    BY MemoryAssumption
  <2>2. Filled' /\ GoSpec!AppendSlice(v, u, w)
    BY <1>15, <2>1, AppendGrowSeen
  <2> QED BY <1>0, <2>2 DEF GoSpec!Next
<1>16. ASSUME UNCHANGED vars PROVE Filled' /\ UNCHANGED GoSpec!vars
  <2>1. UNCHANGED <<heap, typeOf, ptr, place, reg, regType, slices>>
    BY <1>16 DEF vars
  <2>2. UNCHANGED <<GoMem, GoReg, GoSlices>>
    BY <2>1, SeenSame
  <2>3. Filled'
    BY <2>1, FilledStays DEF Filled
  <2> QED BY <2>1, <2>2, <2>3 DEF GoSpec!vars
<1> QED
  BY <1>1, <1>2, <1>3, <1>4, <1>5, <1>6, <1>7, <1>8, <1>9, <1>10, <1>11, <1>12, <1>13, <1>14, <1>15, <1>16
     DEF Next

\* In a program whose slices have scalar elements the interpreter's memory is Go's: the
\* slots that load, store, append, copy and the Allocs of ops.go allocate, copy and share
\* give every variable a value of its own, every pointer and slice its part of one, as
\* long as no slice was made to reach into the spare slots that an append left.
THEOREM MemoryIsGo ==
  ASSUME Elem = {}
  PROVE  Spec => ImplementsGoMemory
<1>1. Init => Inv /\ Filled /\ GoSpec!Init
  BY InvInit, FilledInit
<1>2. Inv /\ [Next]_vars => Inv'
  BY InvNext
<1>3. [Next]_vars /\ exposed => exposed'
  BY ExposedStays
<1>4. Inv /\ Filled /\ [Next]_vars /\ ~exposed' => Filled' /\ [GoSpec!Next]_GoSpec!vars
  BY StepSeen
<1>5. Inv /\ (~exposed => Filled) /\ [Next]_vars
        => Inv' /\ (~exposed => Filled)' /\ [exposed' \/ GoSpec!Next]_(GoSpec!vars)
  BY <1>2, <1>3, <1>4
<1> QED BY <1>1, <1>5, PTL DEF Spec, ImplementsGoMemory

\* In such a program a nil interface value of the host, which append of callBuiltin leaves
\* in spare slots, comes into the register, the variable the pointer is into or an element
\* of a slice only after a slice expression went beyond a length: no append, copy, load or
\* store carries one there.
THEOREM NilsOnlyExposed ==
  ASSUME Elem = {}
  PROVE  Spec => [](~exposed => Filled)
<1>1. Init => Inv /\ Filled
  BY InvInit, FilledInit
<1>2. Inv /\ (~exposed => Filled) /\ [Next]_vars => Inv' /\ (~exposed => Filled)'
  BY InvNext, StepSeen, ExposedStays
<1> QED BY <1>1, <1>2, PTL DEF Spec
=============================================================================
