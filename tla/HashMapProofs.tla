---------------------------- MODULE HashMapProofs ----------------------------
(***************************************************************************)
(* The hash map for any keys, hashes and values: its buckets, its range    *)
(* and the Go map it implements.                                           *)
(*                                                                         *)
(* The model follows links with recursive functions.  The proofs speak of  *)
(* the same entries as the least set that holds the first one and follows  *)
(* the links (Reach), and show once (WalkIs, FindIs) that it is the same.  *)
(***************************************************************************)
EXTENDS HashMap, FiniteSetTheorems, TLAPS

\* A set of numbers that is not empty has a least element.
LEMMA Least ==
  ASSUME NEW T \in SUBSET Nat, T # {}
  PROVE  \E x \in T : \A y \in T : x <= y
<1> DEFINE Below(n) == 1 .. n
           U == {Below(x) : x \in T}
           R == StrictSubsetOrdering(Nat)
<1>1. IsWellFoundedOn(R, FiniteSubsetsOf(Nat))
  BY FS_StrictSubsetOrderingWellFounded
<1>2. U \subseteq FiniteSubsetsOf(Nat) /\ U # {}
  <2>1. ASSUME NEW x \in T PROVE Below(x) \in FiniteSubsetsOf(Nat)
    <3>1. IsFiniteSet(Below(x)) /\ Below(x) \subseteq Nat
      BY FS_Interval
    <3> QED BY <3>1 DEF FiniteSubsetsOf
  <2> HIDE DEF Below
  <2> QED BY <2>1
<1>3. PICK S \in U : \A V \in U : <<V, S>> \notin R
  <2> HIDE DEF U, R
  <2> QED BY <1>1, <1>2, WFMin
<1>4. PICK x \in T : S = Below(x)
  BY <1>3
<1>5. ASSUME NEW y \in T, y < x PROVE FALSE
  <2>1. Below(y) \subseteq Below(x) /\ Below(y) # Below(x) /\ Below(y) \subseteq Nat /\ Below(x) \subseteq Nat
    <3>1. x \in Below(x) /\ x \notin Below(y)
      BY <1>5
    <3>2. QED BY <1>5, <3>1
  <2>2. <<Below(y), Below(x)>> \in R
    BY <2>1 DEF StrictSubsetOrdering
  <2> QED BY <2>2, <1>3, <1>4
<1> QED BY <1>5

-----------------------------------------------------------------------------
\* Walks over links ----------------------------------------------------------

Closed(nx, S) == \A s \in S : s # 0 => nx[s] \in S
\* The entries a walk over the links nx meets from p on.
Reach(nx, p) ==
  {r \in DOMAIN nx : \A S \in SUBSET (DOMAIN nx \cup {0}) : p \in S /\ Closed(nx, S) => r \in S}
\* Links lead to older entries.
Chain(nx) ==
  /\ DOMAIN nx \subseteq Nat \ {0}
  /\ \A s \in DOMAIN nx : nx[s] \in DOMAIN nx \cup {0} /\ nx[s] < s

\* Nothing is met from the nil link.
LEMMA ReachNil ==
  ASSUME NEW nx, Chain(nx)
  PROVE  Reach(nx, 0) = {}
<1>1. {0} \in SUBSET (DOMAIN nx \cup {0}) /\ 0 \in {0} /\ Closed(nx, {0})
  BY DEF Closed
<1> QED BY <1>1 DEF Reach, Chain

\* A set that holds the start and follows its links holds the walk.
LEMMA ReachWithin ==
  ASSUME NEW nx, Chain(nx), NEW p \in DOMAIN nx \cup {0},
         NEW S \in SUBSET (DOMAIN nx \cup {0}), p \in S, Closed(nx, S)
  PROVE  Reach(nx, p) \subseteq S
BY DEF Reach

\* A walk is its first entry and the walk from that entry's successor.
LEMMA ReachStep ==
  ASSUME NEW nx, Chain(nx), NEW p \in DOMAIN nx
  PROVE  Reach(nx, p) = {p} \cup Reach(nx, nx[p])
<1>1. p \in Reach(nx, p)
  BY DEF Reach
<1>2. ASSUME NEW r \in Reach(nx, nx[p]) PROVE r \in Reach(nx, p)
  <2>1. \A S \in SUBSET (DOMAIN nx \cup {0}) : p \in S /\ Closed(nx, S) => nx[p] \in S
    BY DEF Closed, Chain
  <2> QED BY <1>2, <2>1 DEF Reach
<1>3. ASSUME NEW r \in Reach(nx, p), r # p PROVE r \in Reach(nx, nx[p])
  <2> SUFFICES ASSUME NEW S \in SUBSET (DOMAIN nx \cup {0}), nx[p] \in S, Closed(nx, S)
               PROVE  r \in S
    BY DEF Reach
  <2>1. S \cup {p} \in SUBSET (DOMAIN nx \cup {0}) /\ p \in S \cup {p} /\ Closed(nx, S \cup {p})
    BY DEF Closed
  <2>2. r \in S \cup {p}
    BY <2>1 DEF Reach
  <2> QED BY <2>2, <1>3
<1> QED BY <1>1, <1>2, <1>3

\* A walk goes on to the successor of every entry it meets.
LEMMA ReachClosed ==
  ASSUME NEW nx, Chain(nx), NEW p \in DOMAIN nx \cup {0}, NEW s \in Reach(nx, p)
  PROVE  /\ s \in DOMAIN nx
         /\ nx[s] # 0 => nx[s] \in Reach(nx, p)
         /\ Reach(nx, s) \subseteq Reach(nx, p)
<1>1. s \in DOMAIN nx
  BY DEF Reach
<1>2. Reach(nx, s) \subseteq Reach(nx, p)
  BY DEF Reach
<1>3. nx[s] # 0 => nx[s] \in Reach(nx, s)
  <2> SUFFICES ASSUME nx[s] # 0 PROVE nx[s] \in Reach(nx, s)
    OBVIOUS
  <2>1. nx[s] \in DOMAIN nx
    BY <1>1 DEF Chain
  <2> QED BY <1>1, <2>1 DEF Reach, Closed, Chain
<1> QED BY <1>1, <1>2, <1>3

\* A walk meets no entry younger than the one it starts at.
LEMMA ReachBelow ==
  ASSUME NEW nx, Chain(nx), NEW p \in DOMAIN nx
  PROVE  \A r \in Reach(nx, p) : r <= p
<1> DEFINE S == {s \in DOMAIN nx \cup {0} : s <= p}
<1>1. Closed(nx, S)
  BY DEF Closed, Chain
<1>2. p \in S
  BY DEF Chain
<1> QED BY <1>1, <1>2 DEF Reach

\* Of two entries of one walk the walk from one meets the other.
LEMMA ReachLinear ==
  ASSUME NEW nx, Chain(nx), NEW p \in DOMAIN nx \cup {0},
         NEW s \in Reach(nx, p), NEW t \in Reach(nx, p)
  PROVE  s \in Reach(nx, t) \/ t \in Reach(nx, s)
<1> DEFINE Meets(x) == \A y \in Reach(nx, p) : x \in Reach(nx, y) \/ y \in Reach(nx, x)
           S == {x \in Reach(nx, p) : Meets(x)} \cup {0}
<1>1. p \in S
  <2>1. CASE p = 0 BY <2>1
  <2>2. CASE p # 0
    <3>1. p \in Reach(nx, p) BY <2>2, ReachStep
    <3> QED BY <3>1
  <2> QED BY <2>1, <2>2
<1>2. ASSUME NEW x \in S, x # 0 PROVE nx[x] \in S
  <2>1. x \in Reach(nx, p) /\ Meets(x) /\ x \in DOMAIN nx
    BY <1>2, ReachClosed
  <2>2. CASE nx[x] = 0 BY <2>2
  <2>3. CASE nx[x] # 0
    <3>1. nx[x] \in Reach(nx, p) /\ nx[x] \in DOMAIN nx
      BY <2>1, <2>3, ReachClosed DEF Chain
    <3>2. ASSUME NEW y \in Reach(nx, p) PROVE nx[x] \in Reach(nx, y) \/ y \in Reach(nx, nx[x])
      <4>0. y \in DOMAIN nx
        BY ReachClosed
      <4>1. CASE x \in Reach(nx, y)
        BY <4>0, <4>1, <2>3, ReachClosed
      <4>2. CASE y \in Reach(nx, x) /\ y # x
        BY <4>2, <2>1, ReachStep
      <4>3. CASE y = x
        <5>1. nx[x] \in Reach(nx, nx[x]) BY <3>1, ReachStep
        <5> QED BY <5>1, <4>3, <2>1, ReachStep
      <4> QED BY <4>1, <4>2, <4>3, <2>1
    <3> QED BY <3>1, <3>2
  <2> QED BY <2>2, <2>3
<1>3. Closed(nx, S)
  BY <1>2 DEF Closed
<1>4. S \in SUBSET (DOMAIN nx \cup {0})
  BY DEF Reach
<1>5. Reach(nx, p) \subseteq S
  <2> HIDE DEF S
  <2> QED BY <1>1, <1>3, <1>4, ReachWithin
<1>6. s # 0
  BY ReachClosed DEF Chain
<1> QED BY <1>5, <1>6

\* Two entries of one walk do not have the same successor.
LEMMA OnePredecessor ==
  ASSUME NEW nx, Chain(nx), NEW p \in DOMAIN nx \cup {0},
         NEW s \in Reach(nx, p), NEW t \in Reach(nx, p), nx[s] = nx[t], nx[s] # 0
  PROVE  s = t
<1>0. s \in DOMAIN nx /\ t \in DOMAIN nx
  BY ReachClosed
<1>1. ASSUME NEW a \in DOMAIN nx, NEW b \in DOMAIN nx, a \in Reach(nx, b), a # b, nx[a] = nx[b], nx[a] # 0
      PROVE FALSE
  <2>1. a \in Reach(nx, nx[b]) /\ nx[b] \in DOMAIN nx
    BY <1>1, ReachStep DEF Chain
  <2>2. a <= nx[b]
    BY <2>1, ReachBelow
  <2> QED BY <2>2, <1>1 DEF Chain
<1>2. s \in Reach(nx, t) \/ t \in Reach(nx, s)
  BY ReachLinear
<1> QED BY <1>0, <1>1, <1>2

\* Links elsewhere do not matter to a walk.
LEMMA ReachSame ==
  ASSUME NEW nx, Chain(nx), NEW mx, Chain(mx), DOMAIN nx \subseteq DOMAIN mx,
         NEW p \in DOMAIN nx \cup {0}, \A s \in Reach(nx, p) : mx[s] = nx[s]
  PROVE  Reach(mx, p) = Reach(nx, p)
<1>1. CASE p = 0
  BY <1>1, ReachNil
<1>2. CASE p # 0
  <2>0. p \in Reach(nx, p) /\ p \in Reach(mx, p)
    BY <1>2, ReachStep
  <2>1. Reach(mx, p) \subseteq Reach(nx, p) \cup {0}
    <3> DEFINE S == Reach(nx, p) \cup {0}
    <3>1. Closed(mx, S)
      BY ReachClosed DEF Closed
    <3>2. S \in SUBSET (DOMAIN mx \cup {0})
      BY DEF Reach
    <3> HIDE DEF S
    <3>3. p \in S BY <2>0 DEF S
    <3> QED BY <3>1, <3>2, <3>3, ReachWithin DEF S
  <2>2. Reach(nx, p) \subseteq Reach(mx, p) \cup {0}
    <3> DEFINE S == (Reach(mx, p) \cap Reach(nx, p)) \cup {0}
    <3>1. Closed(nx, S)
      BY ReachClosed DEF Closed
    <3>2. S \in SUBSET (DOMAIN nx \cup {0})
      BY DEF Reach
    <3>3. p \in S BY <2>0
    <3>4. Reach(nx, p) \subseteq S
      <4> HIDE DEF S
      <4> QED BY <3>1, <3>2, <3>3, ReachWithin
    <3> QED BY <3>4
  <2>3. 0 \notin Reach(nx, p) /\ 0 \notin Reach(mx, p)
    BY DEF Reach, Chain
  <2> QED BY <2>1, <2>2, <2>3
<1> QED BY <1>1, <1>2

\* Joining a list around x takes x off every walk that meets its predecessor, and
\* leaves the rest.
LEMMA ReachJoined ==
  ASSUME NEW nx, Chain(nx), NEW x \in DOMAIN nx, NEW prev \in DOMAIN nx, nx[prev] = x,
         NEW mx, Chain(mx), DOMAIN mx = DOMAIN nx, mx[prev] = nx[x],
         \A s \in DOMAIN nx : s # prev => mx[s] = nx[s],
         NEW p \in DOMAIN nx \cup {0}
  PROVE  /\ Reach(nx, p) \ {x} \subseteq Reach(mx, p)
         /\ prev \in Reach(nx, p) => Reach(mx, p) = Reach(nx, p) \ {x}
         /\ prev \notin Reach(nx, p) => Reach(mx, p) = Reach(nx, p)
<1>0. DOMAIN mx = DOMAIN nx /\ mx[prev] = nx[x] /\ \A s \in DOMAIN nx : s # prev => mx[s] = nx[s]
  OBVIOUS
<1>1. CASE prev \notin Reach(nx, p)
  <2>1. \A s \in Reach(nx, p) : mx[s] = nx[s]
    BY <1>1, <1>0, ReachClosed
  <2>2. Reach(mx, p) = Reach(nx, p)
    BY <2>1, <1>0, ReachSame
  <2> QED BY <2>2, <1>1
<1>2. CASE prev \in Reach(nx, p)
  <2>0. p # 0 /\ 0 \notin Reach(nx, p) /\ 0 \notin Reach(mx, p) /\ prev > x
    BY <1>2, ReachNil, <1>0 DEF Reach, Chain
  <2>1. p \in Reach(mx, p) /\ p \in Reach(nx, p) /\ p \in DOMAIN nx
    <3>1. p \in DOMAIN nx /\ p \in DOMAIN mx
      BY <2>0, <1>0
    <3>2. p \in Reach(nx, p)
      BY <3>1, ReachStep
    <3>3. p \in Reach(mx, p)
      BY <3>1, ReachStep
    <3> QED BY <3>1, <3>2, <3>3
  <2>2. prev \in Reach(mx, p)
    <3> DEFINE S == Reach(mx, p) \cup Reach(nx, x) \cup {0}
    <3>1. x \in Reach(nx, x)
      BY ReachStep
    <3>2. Closed(nx, S)
      <4> SUFFICES ASSUME NEW s \in S, s # 0 PROVE nx[s] \in S
        BY DEF Closed
      <4>1. CASE s \in Reach(nx, x)
        BY <4>1, ReachClosed
      <4>2. CASE s \in Reach(mx, p) /\ s # prev
        <5>1. p \in DOMAIN mx \cup {0} BY <1>0
        <5>2. s \in DOMAIN mx /\ (mx[s] # 0 => mx[s] \in Reach(mx, p))
          BY <5>1, <4>2, ReachClosed
        <5> QED BY <5>2, <4>2, <1>0
      <4>3. CASE s = prev
        BY <4>3, <3>1
      <4> QED BY <4>1, <4>2, <4>3
    <3>3. S \in SUBSET (DOMAIN nx \cup {0})
      BY <1>0 DEF Reach
    <3>4. p \in S
      BY <2>1
    <3>5. Reach(nx, p) \subseteq S
      <4> HIDE DEF S
      <4> QED BY <3>2, <3>3, <3>4, ReachWithin
    <3>6. prev \notin Reach(nx, x)
      BY <2>0, ReachBelow DEF Chain
    <3> QED BY <3>5, <3>6, <1>2, <2>0
  <2>3. Reach(nx, p) \subseteq Reach(mx, p) \cup {x}
    <3> DEFINE S == Reach(mx, p) \cup {x, 0}
    <3>1. nx[x] \in S
      <4>1. p \in DOMAIN mx \cup {0} BY <1>0
      <4>2. mx[prev] # 0 => mx[prev] \in Reach(mx, p)
        BY <4>1, <2>2, ReachClosed
      <4> QED BY <4>2, <1>0
    <3>2. Closed(nx, S)
      <4> SUFFICES ASSUME NEW s \in S, s # 0 PROVE nx[s] \in S
        BY DEF Closed
      <4>2. CASE s \in Reach(mx, p) /\ s # prev
        <5>1. p \in DOMAIN mx \cup {0} BY <1>0
        <5>2. s \in DOMAIN mx /\ (mx[s] # 0 => mx[s] \in Reach(mx, p))
          BY <5>1, <4>2, ReachClosed
        <5> QED BY <5>2, <4>2, <1>0
      <4> QED BY <4>2, <3>1
    <3>3. S \in SUBSET (DOMAIN nx \cup {0})
      BY <1>0 DEF Reach
    <3>4. p \in S
      BY <2>1
    <3>5. Reach(nx, p) \subseteq S
      <4> HIDE DEF S
      <4> QED BY <3>2, <3>3, <3>4, ReachWithin
    <3> QED BY <3>5, <2>0
  <2>4. x \in Reach(nx, p) /\ nx[x] # x /\ p # x
    <3>1. x \in Reach(nx, p)
      BY <1>2, ReachClosed DEF Chain
    <3>2. prev <= p
      BY <1>2, <2>1, ReachBelow
    <3> QED BY <3>1, <3>2, <2>0 DEF Chain
  <2>5. Reach(mx, p) \subseteq Reach(nx, p) \ {x}
    <3> DEFINE S == (Reach(nx, p) \ {x}) \cup {0}
    <3>1. Closed(mx, S)
      <4> SUFFICES ASSUME NEW s \in S, s # 0 PROVE mx[s] \in S
        BY DEF Closed
      <4>0. s \in Reach(nx, p) /\ s \in DOMAIN nx
        BY ReachClosed
      <4>1. CASE s = prev
        BY <4>1, <1>0, <2>4, ReachClosed
      <4>2. CASE s # prev
        <5>1. nx[s] # x
          BY <4>0, <4>2, <1>2, OnePredecessor DEF Chain
        <5> QED BY <5>1, <4>0, <4>2, <1>0, ReachClosed
      <4> QED BY <4>1, <4>2
    <3>2. S \in SUBSET (DOMAIN mx \cup {0})
      BY <1>0 DEF Reach
    <3>3. p \in S
      BY <2>1, <2>4
    <3>4. Reach(mx, p) \subseteq S
      <4> HIDE DEF S
      <4>1. p \in DOMAIN mx \cup {0} BY <1>0
      <4> QED BY <3>1, <3>2, <3>3, <4>1, ReachWithin
    <3> QED BY <3>4, <2>0
  <2> QED BY <1>2, <2>3, <2>5
<1> QED BY <1>1, <1>2

-----------------------------------------------------------------------------
\* The lists -------------------------------------------------------------------

Nx == [p \in DOMAIN entry |-> entry[p].next]
HashAt(p) == HashOf[entry[p].key]

\* The part of the invariant that needs no Live: where links and buckets lead.
Shape ==
  /\ TypeOK
  /\ Chain(Nx)
  /\ \A p \in DOMAIN entry : entry[p].next # 0 => HashAt(entry[p].next) = HashAt(p)
  /\ \A h \in DOMAIN table : table[h] # 0 => HashAt(table[h]) = h

\* The elements of a sequence.
LEMMA ElementOf ==
  ASSUME NEW S, NEW s \in Seq(S)
  PROVE  \A p \in DOMAIN s : s[p] \in S
OBVIOUS

\* What the types say of the entries and of their links.
LEMMA Entries ==
  ASSUME TypeOK
  PROVE  /\ Len(entry) \in Nat
         /\ DOMAIN entry = 1 .. Len(entry)
         /\ DOMAIN Nx = 1 .. Len(entry)
         /\ DOMAIN Nx \cup {0} = 0 .. Len(entry)
         /\ \A p \in DOMAIN entry : /\ entry[p].key \in Keys
                                  /\ entry[p].value \in Values
                                  /\ entry[p].next \in 0 .. Len(entry)
                                  /\ entry[p] = [key |-> entry[p].key,
                                                value |-> entry[p].value,
                                                next |-> entry[p].next]
                                  /\ Nx[p] = entry[p].next
<1>1. Len(entry) \in Nat /\ DOMAIN entry = 1 .. Len(entry)
  BY DEF TypeOK
<1>2. \A p \in DOMAIN entry : entry[p] \in [key : Keys, value : Values, next : 0 .. Len(entry)]
  BY ElementOf DEF TypeOK
<1> QED BY <1>1, <1>2 DEF Nx

\* The recursive walk of the model (the loops of map.go over entry.next) meets what
\* Reach says.
LEMMA WalkIs ==
  ASSUME Shape
  PROVE  \A p \in 0 .. Len(entry) : WalkFrom(p) = Reach(Nx, p)
<1> DEFINE Body(g) == [q \in 0 .. Len(entry) |-> IF q = Nil THEN {} ELSE {q} \cup g[entry[q].next]]
           walk == CHOOSE g : g = Body(g)
           met == [q \in 0 .. Len(entry) |-> Reach(Nx, q)]
<1>0. TypeOK /\ Chain(Nx)
  BY DEF Shape
<1>1. \A p : WalkFrom(p) = walk[p]
  BY DEF WalkFrom
<1>2. met = Body(met)
  <2>1. Reach(Nx, 0) = {}
    BY <1>0, ReachNil
  <2>2. ASSUME NEW q \in 1 .. Len(entry)
        PROVE Reach(Nx, q) = {q} \cup met[entry[q].next]
    <3>1. Reach(Nx, q) = {q} \cup Reach(Nx, Nx[q])
      BY <1>0, Entries, ReachStep
    <3>2. Nx[q] = entry[q].next /\ entry[q].next \in 0 .. Len(entry)
      BY <1>0, Entries
    <3> QED BY <3>1, <3>2
  <2>3. \A q \in 0 .. Len(entry) : q # 0 => q \in 1 .. Len(entry)
    BY <1>0, Entries
  <2> QED BY <2>1, <2>2, <2>3 DEF Nil
<1>3. walk = Body(walk)
  <2> HIDE DEF Body, met
  <2> QED BY <1>2
<1>4. ASSUME NEW p \in 0 .. Len(entry), walk[p] # met[p] PROVE FALSE
  <2> DEFINE T == {q \in 0 .. Len(entry) : walk[q] # met[q]}
  <2>1. PICK q \in T : \A r \in T : q <= r
    <3>1. p \in T
      BY <1>4
    <3>2. 0 .. Len(entry) \subseteq Nat
      BY <1>0, Entries
    <3>3. T \subseteq 0 .. Len(entry)
      OBVIOUS
    <3> HIDE DEF T
    <3> QED BY <3>1, <3>2, <3>3, Least
  <2> HIDE DEF walk
  <2>2. CASE q = 0
    BY <1>2, <1>3, <2>2 DEF Nil
  <2>3. CASE q # 0
    <3>1. q \in DOMAIN Nx /\ entry[q].next \in 0 .. Len(entry) /\ entry[q].next < q
      BY <1>0, <2>3, Entries DEF Chain
    <3>2. entry[q].next \notin T
      BY <1>0, <3>1, <2>1, Entries
    <3>3. walk[q] = {q} \cup walk[entry[q].next]
      BY <1>3, <2>3 DEF Nil
    <3>4. met[q] = {q} \cup met[entry[q].next]
      BY <1>2, <2>3 DEF Nil
    <3> QED BY <3>1, <3>2, <3>3, <3>4
  <2> QED BY <2>2, <2>3
<1> QED BY <1>1, <1>4

\* The recursive search of lookup, insert and delete finds an entry of the bucket
\* whose key eq()s the key, or there is none.
LEMMA FindIs ==
  ASSUME Shape, NEW k \in Keys
  PROVE  /\ Find(k) = 0 => \A r \in Reach(Nx, First(HashOf[k])) : ~Eq(k, entry[r].key)
         /\ Find(k) # 0 => /\ Find(k) \in Reach(Nx, First(HashOf[k]))
                           /\ Eq(k, entry[Find(k)].key)
<1> DEFINE Body(g) == [q \in 0 .. Len(entry) |->
                         IF q = Nil \/ Eq(k, entry[q].key) THEN q ELSE g[entry[q].next]]
           find == CHOOSE g : g = Body(g)
           M(q) == {r \in Reach(Nx, q) : Eq(k, entry[r].key)}
           best == [q \in 0 .. Len(entry) |->
                      IF M(q) = {} THEN 0 ELSE CHOOSE r \in M(q) : \A s \in M(q) : s <= r]
           Told(q) == IF find[q] = 0 THEN M(q) = {} ELSE find[q] \in M(q)
<1>0. TypeOK /\ Chain(Nx)
  BY DEF Shape
<1>1. Find(k) = find[First(HashOf[k])]
  BY DEF Find
<1>2. M(0) = {}
  BY <1>0, ReachNil
<1>3. ASSUME NEW q \in 1 .. Len(entry)
      PROVE  /\ entry[q].next \in 0 .. Len(entry)
             /\ entry[q].next < q
             /\ M(q) \subseteq Nat
             /\ Eq(k, entry[q].key) => q \in M(q) /\ \A r \in M(q) : r <= q
             /\ ~Eq(k, entry[q].key) => M(q) = M(entry[q].next)
  <2>1. q \in DOMAIN Nx /\ Nx[q] = entry[q].next
    BY <1>0, Entries
  <2>2. Reach(Nx, q) = {q} \cup Reach(Nx, entry[q].next)
    BY <1>0, <2>1, ReachStep
  <2>3. \A r \in Reach(Nx, q) : r <= q
    BY <1>0, <2>1, ReachBelow
  <2>4. Reach(Nx, q) \subseteq Nat
    BY <1>0 DEF Reach, Chain
  <2>5. entry[q].next \in 0 .. Len(entry) /\ entry[q].next < q
    BY <1>0, <2>1, Entries DEF Chain
  <2> QED BY <2>2, <2>3, <2>4, <2>5
<1>4. \A q \in 0 .. Len(entry) : q # 0 => q \in 1 .. Len(entry)
  BY <1>0, Entries
<1>5. best = Body(best)
  <2> SUFFICES ASSUME NEW q \in 0 .. Len(entry) PROVE best[q] = Body(best)[q]
    OBVIOUS
  <2>1. CASE q = 0
    BY <2>1, <1>2 DEF Nil
  <2>2. CASE q # 0 /\ Eq(k, entry[q].key)
    <3>1. q \in M(q) /\ M(q) \subseteq Nat /\ \A r \in M(q) : r <= q
      BY <2>2, <1>3, <1>4
    <3> HIDE DEF M
    <3>2. (CHOOSE r \in M(q) : \A s \in M(q) : s <= r) = q
      BY <3>1
    <3>3. best[q] = q BY <3>1, <3>2
    <3> QED BY <2>2, <3>3
  <2>3. CASE q # 0 /\ ~Eq(k, entry[q].key)
    <3>1. M(q) = M(entry[q].next) /\ entry[q].next \in 0 .. Len(entry)
      BY <2>3, <1>3, <1>4
    <3> HIDE DEF M
    <3> QED BY <2>3, <3>1 DEF Nil
  <2> QED BY <2>1, <2>2, <2>3
<1>6. find = Body(find)
  <2> HIDE DEF Body, best
  <2> QED BY <1>5
<1>7. ASSUME NEW p \in 0 .. Len(entry), ~Told(p) PROVE FALSE
  <2> DEFINE T == {q \in 0 .. Len(entry) : ~Told(q)}
  <2>1. PICK q \in T : \A r \in T : q <= r
    <3>1. p \in T
      BY <1>7
    <3>2. 0 .. Len(entry) \subseteq Nat
      BY <1>0, Entries
    <3>3. T \subseteq 0 .. Len(entry)
      OBVIOUS
    <3> HIDE DEF T
    <3> QED BY <3>1, <3>2, <3>3, Least
  <2> HIDE DEF find, M
  <2>2. CASE q = 0
    <3>1. find[0] = 0
      BY <1>6, <2>2 DEF Nil
    <3> QED BY <3>1, <1>2, <2>2
  <2>3. CASE q # 0
    <3>0. q \in 1 .. Len(entry)
      BY <2>3, <1>4
    <3>1. CASE Eq(k, entry[q].key)
      <4>1. find[q] = q
        BY <1>6, <3>1
      <4> QED BY <4>1, <2>3, <1>3, <3>0, <3>1
    <3>2. CASE ~Eq(k, entry[q].key)
      <4>1. find[q] = find[entry[q].next]
        BY <1>6, <3>2, <2>3 DEF Nil
      <4>2. M(q) = M(entry[q].next) /\ entry[q].next \in 0 .. Len(entry) /\ entry[q].next < q
        BY <1>3, <3>0, <3>2
      <4>3. Told(entry[q].next)
        BY <4>2, <2>1, <3>0
      <4> QED BY <4>1, <4>2, <4>3
    <3> QED BY <3>1, <3>2
  <2> QED BY <2>2, <2>3
<1>8. First(HashOf[k]) \in 0 .. Len(entry)
  BY <1>0, Entries DEF First, Nil, TypeOK
<1> HIDE DEF find
<1>9. Told(First(HashOf[k]))
  BY <1>7, <1>8
<1> QED BY <1>1, <1>9

ListFacts ==
  /\ \A r : r \in Live <=> \E h \in DOMAIN table : r \in Reach(Nx, table[h])
  /\ Live \subseteq DOMAIN entry
  /\ \A r \in Live : HashAt(r) \in DOMAIN table /\ r \in Reach(Nx, table[HashAt(r)])
  /\ \A h \in DOMAIN table : WalkFrom(table[h]) = Reach(Nx, table[h])
  /\ \A p \in DOMAIN entry : \A r \in Reach(Nx, p) : HashAt(r) = HashAt(p)

\* An entry in the map is in the bucket of its own hash.
LEMMA LiveIs == Shape => ListFacts
<1> SUFFICES ASSUME Shape PROVE ListFacts
  OBVIOUS
<1>0. TypeOK /\ Chain(Nx) /\ DOMAIN Nx = DOMAIN entry
  BY Entries DEF Shape
<1>1. \A h \in DOMAIN table : WalkFrom(table[h]) = Reach(Nx, table[h])
  BY <1>0, WalkIs DEF TypeOK
<1>2. \A r : r \in Live <=> \E h \in DOMAIN table : r \in Reach(Nx, table[h])
  BY <1>1 DEF Live
<1>3. Live \subseteq DOMAIN entry
  BY <1>0, <1>2 DEF Reach
<1>4. ASSUME NEW p \in DOMAIN entry PROVE \A r \in Reach(Nx, p) : HashAt(r) = HashAt(p)
  <2> DEFINE S == {r \in DOMAIN entry : HashAt(r) = HashAt(p)} \cup {0}
  <2>1. Closed(Nx, S)
    <3>1. ASSUME NEW s \in S, s # 0 PROVE Nx[s] \in S
      <4>1. s \in DOMAIN entry /\ HashAt(s) = HashAt(p)
        BY <3>1
      <4>2. Nx[s] = entry[s].next /\ Nx[s] \in DOMAIN entry \cup {0}
        BY <4>1, <1>0, Entries DEF Chain
      <4>3. entry[s].next # 0 => HashAt(entry[s].next) = HashAt(s)
        BY <4>1 DEF Shape
      <4> QED BY <4>1, <4>2, <4>3
    <3> QED BY <3>1 DEF Closed
  <2>2. S \in SUBSET (DOMAIN Nx \cup {0}) /\ p \in S
    BY <1>0
  <2>3. Reach(Nx, p) \subseteq S
    <3> HIDE DEF S
    <3> QED BY <1>0, <2>1, <2>2, ReachWithin
  <2>4. 0 \notin Reach(Nx, p)
    BY <1>0 DEF Reach, Chain
  <2> QED BY <2>3, <2>4
<1>5. ASSUME NEW r \in Live PROVE HashAt(r) \in DOMAIN table /\ r \in Reach(Nx, table[HashAt(r)])
  <2>1. PICK h \in DOMAIN table : r \in Reach(Nx, table[h])
    BY <1>2
  <2>2. table[h] # 0
    BY <2>1, <1>0, ReachNil
  <2>3. table[h] \in DOMAIN entry /\ HashAt(table[h]) = h
    BY <2>2, <1>0, Entries DEF Shape, TypeOK
  <2> QED BY <2>1, <2>3, <1>4
<1> QED BY <1>1, <1>2, <1>3, <1>4, <1>5 DEF ListFacts

\* The same after a step.
LEMMA LiveIsNext == Shape' => ListFacts'
BY LiveIs, PTL

\* The inductive invariant of the lists.
ListInv ==
  /\ Shape
  /\ \A p, q \in Live : p # q => ~Eq(entry[p].key, entry[q].key)
  /\ length = Cardinality(Live)

\* A key that is not found in its bucket is nowhere in the map.
LEMMA NoneLive ==
  ASSUME Shape, NEW k \in Keys, Find(k) = 0
  PROVE  \A r \in Live : ~Eq(k, entry[r].key)
<1> SUFFICES ASSUME NEW r \in Live, Eq(k, entry[r].key) PROVE FALSE
  OBVIOUS
<1>1. r \in DOMAIN entry /\ HashAt(r) \in DOMAIN table /\ r \in Reach(Nx, table[HashAt(r)])
  BY LiveIs DEF ListFacts
<1>2. entry[r].key \in Keys
  BY <1>1, Entries DEF Shape
<1>3. HashAt(r) = HashOf[k]
  BY <1>2, HashMapAssumption DEF HashAt
<1> QED BY <1>1, <1>3, FindIs DEF First

\* An entry that is found is in the map, in the bucket where it was looked for.
LEMMA OneLive ==
  ASSUME Shape, NEW k \in Keys, Find(k) # 0
  PROVE  /\ Find(k) \in Live
         /\ Find(k) \in DOMAIN entry
         /\ Eq(k, entry[Find(k)].key)
         /\ HashAt(Find(k)) = HashOf[k]
         /\ HashOf[k] \in DOMAIN table
         /\ Find(k) \in Reach(Nx, table[HashOf[k]])
         /\ First(HashOf[k]) = table[HashOf[k]]
<1>1. Find(k) \in Reach(Nx, First(HashOf[k])) /\ Eq(k, entry[Find(k)].key)
  BY FindIs
<1>2. First(HashOf[k]) # 0
  BY <1>1, ReachNil DEF Shape
<1>3. HashOf[k] \in DOMAIN table /\ First(HashOf[k]) = table[HashOf[k]]
  BY <1>2 DEF First, Nil
<1>4. Find(k) \in Live /\ Find(k) \in DOMAIN entry
  BY <1>1, <1>3, LiveIs DEF ListFacts
<1>5. entry[Find(k)].key \in Keys
  BY <1>4, Entries DEF Shape
<1>6. HashAt(Find(k)) = HashOf[k]
  BY <1>1, <1>5, HashMapAssumption DEF HashAt
<1> QED BY <1>1, <1>3, <1>4, <1>6

-----------------------------------------------------------------------------
\* What an operation does to the lists.
LEMMA SameLists ==
  ASSUME TypeOK, entry' = entry, table' = table
  PROVE  /\ Nx' = Nx
         /\ Live' = Live
         /\ \A p \in DOMAIN entry : HashAt(p)' = HashAt(p)
BY DEF Nx, Live, WalkFrom, HashAt

\* A step that leaves entries and buckets alone keeps the lists well formed.
LEMMA SameShape ==
  ASSUME Shape, entry' = entry, table' = table, TypeOK'
  PROVE  Shape'
BY DEF Shape, Nx, HashAt

\* hashmap.insert of a present key changes one value, no key and no link.
LEMMA ValueSet ==
  ASSUME Shape, NEW k \in Keys, NEW v \in Values, InsertPresent(k, v)
  PROVE  /\ Shape'
         /\ Nx' = Nx
         /\ Live' = Live
         /\ DOMAIN entry' = DOMAIN entry
         /\ \A p \in DOMAIN entry : entry'[p].key = entry[p].key
         /\ \A p \in DOMAIN entry : entry'[p].next = entry[p].next
         /\ \A p \in DOMAIN entry : p # Find(k) => entry'[p] = entry[p]
         /\ entry'[Find(k)].value = v
<1> DEFINE f == Find(k)
           E == [key : Keys, value : Values, next : 0 .. Len(entry)]
<1>0. TypeOK /\ f \in DOMAIN entry /\ entry' = [entry EXCEPT ![f].value = v]
  BY OneLive DEF Shape, InsertPresent, Nil
<1> HIDE DEF f
<1>1. DOMAIN entry' = DOMAIN entry
  BY <1>0
<1>2. \A p \in DOMAIN entry : p # f => entry'[p] = entry[p]
  BY <1>0
<1>3. entry[f] = [key |-> entry[f].key, value |-> entry[f].value, next |-> entry[f].next]
  BY <1>0, Entries
<1>4. entry'[f] = [key |-> entry[f].key, value |-> v, next |-> entry[f].next]
  BY <1>0, <1>3
<1>5. \A p \in DOMAIN entry : entry'[p].key = entry[p].key /\ entry'[p].next = entry[p].next
  BY <1>2, <1>4
<1>6. Nx' = Nx
  BY <1>1, <1>5 DEF Nx
<1>7. entry \in Seq(E) /\ entry[f] \in E
  BY <1>0, ElementOf DEF TypeOK
<1>8. entry'[f] \in E
  BY <1>4, <1>0, Entries
<1>9. entry' = [entry EXCEPT ![f] = entry'[f]]
  BY <1>0
<1>10. entry' \in Seq(E) /\ Len(entry') = Len(entry)
  <2> HIDE DEF E
  <2> QED BY <1>7, <1>8, <1>9, <1>0
<1>11. TypeOK'
  BY <1>0, <1>10 DEF TypeOK, InsertPresent, mapVars, iterVars
<1>12. Shape'
  BY <1>11, <1>1, <1>5, <1>6 DEF Shape, HashAt, InsertPresent, Chain
<1>13. Live' = Live
  <2>1. table' = table
    BY DEF InsertPresent
  <2>2. \A r : r \in Live <=> \E h \in DOMAIN table : r \in Reach(Nx, table[h])
    BY LiveIs DEF ListFacts
  <2>3. \A r : r \in Live' <=> \E h \in DOMAIN table' : r \in Reach(Nx', table'[h])
    BY <1>12, LiveIsNext DEF ListFacts
  <2> QED BY <2>1, <2>2, <2>3, <1>6
<1> QED BY <1>1, <1>2, <1>4, <1>5, <1>6, <1>12, <1>13 DEF f

\* hashmap.insert of a new key adds one entry to the map, before those of its bucket.
LEMMA EntryAdded ==
  ASSUME Shape, NEW k \in Keys, NEW v \in Values, InsertNew(k, v)
  PROVE  /\ Shape'
         /\ Len(entry') = Len(entry) + 1
         /\ Live' = Live \cup {Len(entry) + 1}
         /\ \A p \in DOMAIN entry : entry'[p] = entry[p]
         /\ entry'[Len(entry) + 1].key = k
         /\ entry'[Len(entry) + 1].value = v
         /\ entry'[Len(entry) + 1].next \in Live \cup {0}
         /\ \A p \in 0 .. Len(entry) : Reach(Nx, p)' = Reach(Nx, p)
<1> DEFINE n == Len(entry) + 1
           h == HashOf[k]
           x == [key |-> k, value |-> v, next |-> First(h)]
<1>0. /\ TypeOK
      /\ Len(entry) \in Nat /\ DOMAIN entry = 1 .. Len(entry) /\ DOMAIN Nx = DOMAIN entry
      /\ h \in Hashes
  BY Entries DEF Shape, Hashes
<1>1. First(h) \in 0 .. Len(entry)
  BY <1>0 DEF First, Nil, TypeOK
<1>2. /\ entry' = Append(entry, x)
      /\ table' = [g \in DOMAIN table \cup {h} |-> IF g = h THEN n ELSE table[g]]
  BY DEF InsertNew
<1>3. x \in [key : Keys, value : Values, next : 0 .. n]
  BY <1>0, <1>1
<1>4. entry \in Seq([key : Keys, value : Values, next : 0 .. n])
  <2>1. [key : Keys, value : Values, next : 0 .. Len(entry)] \subseteq [key : Keys, value : Values, next : 0 .. n]
    BY <1>0
  <2>2. \A S, T : entry \in Seq(S) /\ S \subseteq T => entry \in Seq(T)
    BY <1>0
  <2> QED BY <2>1, <2>2, <1>0 DEF TypeOK
<1>5. /\ Len(entry') = n
      /\ DOMAIN entry' = 1 .. n
      /\ entry'[n] = x
      /\ \A p \in DOMAIN entry : entry'[p] = entry[p]
      /\ entry' \in Seq([key : Keys, value : Values, next : 0 .. n])
  <2> DEFINE T == [key : Keys, value : Values, next : 0 .. n]
  <2> HIDE DEF T, x
  <2>1. entry \in Seq(T) /\ x \in T
    BY <1>3, <1>4 DEF T, x
  <2> QED BY <2>1, <1>2, <1>0 DEF T
<1>6. /\ DOMAIN table' = DOMAIN table \cup {h}
      /\ table'[h] = n
      /\ \A g \in DOMAIN table : g # h => table'[g] = table[g]
  BY <1>2
<1>7. TypeOK'
  <2>1. produced \in Seq(1 .. n)
    <3>1. \A S, T : produced \in Seq(S) /\ S \subseteq T => produced \in Seq(T)
      OBVIOUS
    <3>2. 1 .. Len(entry) \subseteq 1 .. n
      BY <1>0
    <3> QED BY <3>1, <3>2, <1>0 DEF TypeOK
  <2>2. \A g \in DOMAIN table' : table'[g] \in 0 .. n
    BY <1>6, <1>0 DEF TypeOK
  <2>3. /\ made' = made /\ length' = length + 1
        /\ cur' = cur /\ due' = due /\ visited' = visited /\ produced' = produced
    BY DEF InsertNew, Remember
  <2>4. cur' \in 0 .. n
    BY <2>3, <1>0 DEF TypeOK
  <2>5. DOMAIN table' \subseteq Hashes
    BY <1>6, <1>0 DEF TypeOK
  <2> QED BY <2>1, <2>2, <2>3, <2>4, <2>5, <1>0, <1>5 DEF TypeOK
<1>8. DOMAIN Nx' = 1 .. n /\ Nx'[n] = First(h) /\ \A p \in DOMAIN entry : Nx'[p] = Nx[p]
  BY <1>0, <1>5 DEF Nx
<1>9. Chain(Nx')
  <2>1. \A s \in DOMAIN Nx : Nx[s] \in 0 .. Len(entry) /\ Nx[s] < s
    BY <1>0 DEF Shape, Chain
  <2> QED BY <2>1, <1>8, <1>1, <1>0 DEF Chain
<1>10. \A p \in DOMAIN entry' : entry'[p].next # 0 =>
          HashOf[entry'[entry'[p].next].key] = HashOf[entry'[p].key]
  <2>1. ASSUME NEW p \in DOMAIN entry, entry[p].next # 0
        PROVE  HashOf[entry'[entry'[p].next].key] = HashOf[entry'[p].key]
    <3>1. entry[p].next \in DOMAIN entry
      BY <2>1, <1>0, Entries
    <3>2. HashOf[entry[entry[p].next].key] = HashOf[entry[p].key]
      BY <2>1 DEF Shape, HashAt
    <3> QED BY <3>1, <3>2, <1>5
  <2>2. First(h) # 0 => First(h) \in DOMAIN entry /\ HashOf[entry[First(h)].key] = h
    BY <1>0, <1>1 DEF First, Nil, Shape, HashAt
  <2>3. First(h) # 0 => HashOf[entry'[First(h)].key] = h
    BY <2>2, <1>5
  <2> QED BY <2>1, <2>3, <1>5, <1>0
<1>11. \A g \in DOMAIN table' : table'[g] # 0 => HashOf[entry'[table'[g]].key] = g
  <2>1. ASSUME NEW g \in DOMAIN table, g # h, table[g] # 0
        PROVE HashOf[entry'[table[g]].key] = g
    <3>1. table[g] \in DOMAIN entry
      BY <2>1, <1>0 DEF TypeOK
    <3> QED BY <3>1, <2>1, <1>5 DEF Shape, HashAt
  <2> QED BY <2>1, <1>5, <1>6
<1>12. Shape'
  BY <1>7, <1>9, <1>10, <1>11 DEF Shape, HashAt
<1>13. \A p \in 0 .. Len(entry) : Reach(Nx', p) = Reach(Nx, p)
  <2>1. ASSUME NEW p \in 0 .. Len(entry) PROVE Reach(Nx', p) = Reach(Nx, p)
    <3>1. Chain(Nx) /\ p \in DOMAIN Nx \cup {0} /\ DOMAIN Nx \subseteq DOMAIN Nx'
      BY <1>0, <1>8 DEF Shape
    <3>2. \A s \in Reach(Nx, p) : Nx'[s] = Nx[s]
      BY <1>0, <1>8 DEF Reach
    <3> QED BY <3>1, <3>2, <1>9, ReachSame
  <2> QED BY <2>1
<1>14. Reach(Nx', n) = {n} \cup Reach(Nx, First(h))
  <2>1. n \in DOMAIN Nx'
    BY <1>8, <1>0
  <2>2. Reach(Nx', n) = {n} \cup Reach(Nx', Nx'[n])
    BY <2>1, <1>9, ReachStep
  <2> QED BY <2>2, <1>8, <1>13, <1>1
<1>15. \A r : r \in Live <=> \E g \in DOMAIN table : r \in Reach(Nx, table[g])
  BY LiveIs DEF ListFacts
<1>16. \A r : r \in Live' <=> \E g \in DOMAIN table' : r \in Reach(Nx', table'[g])
  BY <1>12, LiveIsNext DEF ListFacts
<1>17. First(h) \in Live \cup {0}
  <2>1. CASE h \in DOMAIN table /\ table[h] # 0
    <3>1. table[h] \in DOMAIN Nx
      BY <2>1, <1>0 DEF TypeOK
    <3>2. table[h] \in Reach(Nx, table[h])
      BY <3>1, ReachStep DEF Shape
    <3> QED BY <3>2, <2>1, <1>15 DEF First
  <2> QED BY <2>1 DEF First, Nil
<1>18. \A r : r \in Reach(Nx, First(h)) <=> h \in DOMAIN table /\ r \in Reach(Nx, table[h])
  BY ReachNil DEF First, Nil, Shape
<1>19. Live' = Live \cup {n}
  <2>1. ASSUME NEW g \in DOMAIN table, g # h
        PROVE Reach(Nx', table'[g]) = Reach(Nx, table[g])
    BY <2>1, <1>6, <1>13, <1>0 DEF TypeOK
  <2>2. ASSUME NEW r \in Live' PROVE r \in Live \cup {n}
    <3>1. PICK g \in DOMAIN table' : r \in Reach(Nx', table'[g])
      BY <1>16
    <3>2. CASE g = h
      BY <3>1, <3>2, <1>6, <1>14, <1>18, <1>15
    <3>3. CASE g # h
      <4>1. g \in DOMAIN table BY <3>3, <1>6
      <4> QED BY <4>1, <3>1, <3>3, <2>1, <1>15
    <3> QED BY <3>2, <3>3
  <2>3. n \in Live'
    BY <1>14, <1>16, <1>6
  <2>4. ASSUME NEW r \in Live PROVE r \in Live'
    <3>1. PICK g \in DOMAIN table : r \in Reach(Nx, table[g])
      BY <1>15
    <3>2. CASE g = h
      BY <3>1, <3>2, <1>6, <1>14, <1>18, <1>16
    <3>3. CASE g # h
      <4>1. g \in DOMAIN table' BY <1>6
      <4> QED BY <4>1, <3>1, <3>3, <2>1, <1>16
    <3> QED BY <3>2, <3>3
  <2> QED BY <2>2, <2>3, <2>4
<1> QED BY <1>5, <1>12, <1>13, <1>17, <1>19

\* hashmap.delete takes the entry that was found out of the map and no other, and
\* every walk, the iterator's too, still meets the rest of what it met.
LEMMA Unlinked ==
  ASSUME ListInv, NEW k \in Keys, Delete(k), Find(k) # 0
  PROVE  /\ Shape'
         /\ Len(entry') = Len(entry)
         /\ Live' = Live \ {Find(k)}
         /\ \A p \in DOMAIN entry : entry'[p].key = entry[p].key /\ entry'[p].value = entry[p].value
         /\ \A p \in DOMAIN entry : \/ entry'[p].next = entry[p].next
                                  \/ /\ p \in Live
                                     /\ entry[p].next = Find(k)
                                     /\ entry'[p].next = entry[Find(k)].next
         /\ length' = length - 1
         /\ \A p \in 0 .. Len(entry) : Reach(Nx, p) \ {Find(k)} \subseteq Reach(Nx, p)'
<1> DEFINE e == Find(k)
           h == HashOf[k]
           n == Len(entry)
<1>0. /\ Shape /\ TypeOK /\ Chain(Nx)
      /\ n \in Nat /\ DOMAIN entry = 1 .. n /\ DOMAIN Nx = 1 .. n
      /\ \A p \in DOMAIN entry : Nx[p] = entry[p].next
  BY Entries DEF Shape, ListInv
<1>1. /\ e \in Live /\ e \in DOMAIN entry /\ HashAt(e) = h
      /\ h \in DOMAIN table /\ e \in Reach(Nx, table[h])
      /\ First(h) = table[h]
  BY <1>0, OneLive
<1>2. length - 1 \in Nat
  <2>1. IsFiniteSet(Live)
    <3>1. IsFiniteSet(1 .. n)
      BY <1>0, FS_Interval
    <3>2. Live \subseteq 1 .. n
      BY <1>0, LiveIs DEF ListFacts
    <3> QED BY <3>1, <3>2, FS_Subset
  <2>2. length # 0 /\ length \in Nat
    BY <2>1, <1>1, FS_EmptySet, FS_CardinalityType DEF ListInv
  <2> QED BY <2>2
<1>3. /\ made' = made /\ length' = length - 1
      /\ cur' = cur /\ due' = due /\ visited' = visited /\ produced' = produced
  BY DEF Delete, Remember, Nil
<1>4. \A r : r \in Live <=> \E g \in DOMAIN table : r \in Reach(Nx, table[g])
  BY <1>0, LiveIs DEF ListFacts
<1>5. ASSUME NEW g \in DOMAIN table, g # h, NEW r \in Reach(Nx, table[g])
      PROVE  r # e /\ HashAt(r) = g /\ r \in DOMAIN entry
  <2>1. table[g] # 0
    BY <1>5, <1>0, ReachNil
  <2>2. table[g] \in DOMAIN entry /\ HashAt(table[g]) = g
    BY <2>1, <1>0 DEF Shape, TypeOK
  <2>3. r \in DOMAIN entry
    BY <1>0, <1>5 DEF Reach
  <2> QED BY <2>2, <2>3, <1>0, <1>1, <1>5, LiveIs DEF ListFacts
<1>6. CASE e = First(h)
  <2>1. entry' = entry /\ table' = [table EXCEPT ![h] = entry[e].next]
    BY <1>6, <1>1 DEF Delete, Nil
  <2>2. Nx' = Nx /\ \A p \in DOMAIN entry : HashAt(p)' = HashAt(p)
    BY <2>1 DEF Nx, HashAt
  <2>3. entry[e].next \in 0 .. n /\ (entry[e].next # 0 => HashAt(entry[e].next) = h)
    BY <1>0, <1>1, Entries DEF Shape
  <2>4. /\ DOMAIN table' = DOMAIN table
        /\ table'[h] = entry[e].next
        /\ \A g \in DOMAIN table : g # h => table'[g] = table[g]
    BY <2>1, <1>1
  <2>5. TypeOK'
    BY <2>1, <2>3, <2>4, <1>0, <1>2, <1>3 DEF TypeOK
  <2>6. \A g \in DOMAIN table' : table'[g] # 0 => HashOf[entry'[table'[g]].key] = g
    BY <2>1, <2>3, <2>4, <1>0 DEF Shape, HashAt
  <2>7. Shape'
    BY <2>1, <2>2, <2>5, <2>6, <1>0 DEF Shape, HashAt
  <2>8. \A r : r \in Live' <=> \E g \in DOMAIN table' : r \in Reach(Nx', table'[g])
    BY <2>7, LiveIsNext DEF ListFacts
  <2>9. Reach(Nx, table[h]) = {e} \cup Reach(Nx, entry[e].next) /\ e \notin Reach(Nx, entry[e].next)
    <3>1. Reach(Nx, e) = {e} \cup Reach(Nx, Nx[e])
      BY <1>0, <1>1, ReachStep
    <3>2. Nx[e] < e /\ Nx[e] \in DOMAIN Nx \cup {0}
      BY <1>0, <1>1 DEF Chain
    <3>3. e \notin Reach(Nx, Nx[e])
      BY <3>2, <1>0, <1>1, ReachBelow, ReachNil
    <3> QED BY <3>1, <3>3, <1>6, <1>1, <1>0
  <2>10. Live' = Live \ {e}
    <3>1. ASSUME NEW r \in Live' PROVE r \in Live /\ r # e
      <4>1. PICK g \in DOMAIN table : r \in Reach(Nx, table'[g])
        BY <2>8, <2>4, <2>2
      <4>2. CASE g = h
        BY <4>1, <4>2, <2>4, <2>9, <1>4
      <4>3. CASE g # h
        BY <4>1, <4>3, <2>4, <1>5, <1>4
      <4> QED BY <4>2, <4>3
    <3>2. ASSUME NEW r \in Live, r # e PROVE r \in Live'
      <4>1. PICK g \in DOMAIN table : r \in Reach(Nx, table[g])
        BY <1>4
      <4>2. r \in Reach(Nx, table'[g])
        BY <4>1, <3>2, <2>4, <2>9
      <4> QED BY <4>2, <2>8, <2>4, <2>2
    <3> QED BY <3>1, <3>2
  <2> QED BY <2>1, <2>2, <2>7, <2>10, <1>3
<1>7. CASE e # First(h)
  <2>1. PICK prev \in WalkFrom(First(h)) :
          /\ entry[prev].next = e
          /\ entry' = [entry EXCEPT ![prev].next = entry[e].next]
    BY <1>7, <1>1 DEF Delete, Nil
  <2>2. table' = table
    BY <1>7, <1>1 DEF Delete, Nil
  <2>3. prev \in Reach(Nx, table[h])
    BY <1>0, <1>1, LiveIs DEF ListFacts
  <2>4. prev \in Live /\ prev \in DOMAIN entry
    BY <2>3, <1>0, <1>1, <1>4 DEF Reach
  <2>5. entry[prev] = [key |-> entry[prev].key, value |-> entry[prev].value, next |-> entry[prev].next]
    BY <1>0, <2>4, Entries
  <2>6. /\ DOMAIN entry' = DOMAIN entry
        /\ \A p \in DOMAIN entry : p # prev => entry'[p] = entry[p]
        /\ entry'[prev] = [key |-> entry[prev].key, value |-> entry[prev].value, next |-> entry[e].next]
    BY <2>1, <2>4, <2>5
  <2> DEFINE E == [key : Keys, value : Values, next : 0 .. n]
  <2>7. entry' \in Seq(E) /\ Len(entry') = n
    <3>1. entry \in Seq(E)
      BY <1>0 DEF TypeOK
    <3>2. entry'[prev] \in E
      BY <2>6, <2>4, <1>0, <1>1, Entries
    <3>3. entry' = [entry EXCEPT ![prev] = entry'[prev]]
      BY <2>1
    <3> HIDE DEF E
    <3> QED BY <3>1, <3>2, <3>3, <2>4
  <2>8. TypeOK'
    BY <2>2, <2>7, <1>0, <1>2, <1>3 DEF TypeOK
  <2>9. /\ DOMAIN Nx' = DOMAIN Nx
        /\ Nx'[prev] = Nx[e]
        /\ \A s \in DOMAIN Nx : s # prev => Nx'[s] = Nx[s]
        /\ Nx[prev] = e
    BY <2>1, <2>4, <2>6, <1>0, <1>1 DEF Nx
  <2>10. Chain(Nx')
    BY <2>9, <2>4, <1>0, <1>1 DEF Chain
  <2>11. \A p \in DOMAIN entry : entry'[p].key = entry[p].key /\ HashAt(p)' = HashAt(p)
    BY <2>6 DEF HashAt
  <2>12. \A p \in DOMAIN entry' : entry'[p].next # 0 =>
            HashOf[entry'[entry'[p].next].key] = HashOf[entry'[p].key]
    <3>1. \A p \in DOMAIN entry : entry[p].next # 0 =>
            entry[p].next \in DOMAIN entry /\ HashAt(entry[p].next) = HashAt(p)
      BY <1>0, Entries DEF Shape
    <3>2. ASSUME NEW p \in DOMAIN entry, p # prev, entry'[p].next # 0
          PROVE HashOf[entry'[entry'[p].next].key] = HashOf[entry'[p].key]
      <4>1. entry'[p].next = entry[p].next
        BY <3>2, <2>6
      <4> QED BY <4>1, <3>1, <3>2, <2>11 DEF HashAt
    <3>3. ASSUME entry'[prev].next # 0 PROVE HashOf[entry'[entry'[prev].next].key] = HashOf[entry'[prev].key]
      <4>1. entry'[prev].next = entry[e].next
        BY <2>6
      <4>2. entry[e].next \in DOMAIN entry /\ HashAt(entry[e].next) = HashAt(e) /\ HashAt(e) = HashAt(prev)
        BY <4>1, <3>1, <3>3, <2>1, <2>4, <1>1, <1>0
      <4> QED BY <4>1, <4>2, <2>4, <2>11 DEF HashAt
    <3> QED BY <3>2, <3>3, <2>6
  <2>13. \A g \in DOMAIN table' : table'[g] # 0 => HashOf[entry'[table'[g]].key] = g
    <3>1. ASSUME NEW g \in DOMAIN table, table[g] # 0 PROVE HashOf[entry'[table[g]].key] = g
      <4>1. table[g] \in DOMAIN entry /\ HashAt(table[g]) = g
        BY <3>1, <1>0 DEF Shape, TypeOK
      <4> QED BY <4>1, <2>11 DEF HashAt
    <3> QED BY <3>1, <2>2 DEF HashAt
  <2>14. Shape'
    BY <2>8, <2>10, <2>12, <2>13 DEF Shape, HashAt
  <2>15. \A r : r \in Live' <=> \E g \in DOMAIN table' : r \in Reach(Nx', table'[g])
    BY <2>14, LiveIsNext DEF ListFacts
  <2>16. \A p \in DOMAIN Nx \cup {0} :
            /\ Reach(Nx, p) \ {e} \subseteq Reach(Nx', p)
            /\ prev \in Reach(Nx, p) => Reach(Nx', p) = Reach(Nx, p) \ {e}
            /\ prev \notin Reach(Nx, p) => Reach(Nx', p) = Reach(Nx, p)
    BY <2>9, <2>10, <2>4, <1>0, <1>1, ReachJoined
  <2>17. Live' = Live \ {e}
    <3>1. \A g \in DOMAIN table : table[g] \in DOMAIN Nx \cup {0}
      BY <1>0 DEF TypeOK
    <3>2. Reach(Nx', table[h]) = Reach(Nx, table[h]) \ {e}
      BY <3>1, <2>16, <2>3, <1>1
    <3>3. ASSUME NEW g \in DOMAIN table, g # h
          PROVE Reach(Nx', table[g]) = Reach(Nx, table[g]) /\ e \notin Reach(Nx, table[g])
      <4>1. prev \notin Reach(Nx, table[g])
        <5>1. HashAt(prev) = HashAt(e)
          BY <2>1, <2>4, <1>0, <1>1, Entries DEF Shape, Chain
        <5> QED BY <5>1, <3>3, <1>1, <1>5
      <4> QED BY <4>1, <3>1, <2>16, <3>3, <1>5
    <3>4. ASSUME NEW r \in Live' PROVE r \in Live /\ r # e
      <4>1. PICK g \in DOMAIN table : r \in Reach(Nx', table[g])
        BY <2>15, <2>2
      <4> QED BY <4>1, <3>2, <3>3, <1>4
    <3>5. ASSUME NEW r \in Live, r # e PROVE r \in Live'
      <4>1. PICK g \in DOMAIN table : r \in Reach(Nx, table[g])
        BY <1>4
      <4> QED BY <4>1, <3>2, <3>3, <3>5, <2>15, <2>2
    <3> QED BY <3>4, <3>5
  <2>18. \A p \in DOMAIN entry : entry'[p].value = entry[p].value
    BY <2>6
  <2>19. \A p \in DOMAIN entry : p = prev \/ entry'[p].next = entry[p].next
    BY <2>6
  <2>20. entry'[prev].next = entry[e].next
    BY <2>6
  <2> QED BY <2>1, <2>4, <2>7, <2>11, <2>14, <2>16, <2>17, <2>18, <2>19, <2>20, <1>0, <1>3
<1> QED BY <1>6, <1>7

-----------------------------------------------------------------------------
\* The map holds finitely many entries.
LEMMA LiveFinite ==
  ASSUME Shape
  PROVE  IsFiniteSet(Live)
<1>1. DOMAIN entry = 1 .. Len(entry) /\ Len(entry) \in Nat /\ Live \subseteq DOMAIN entry
  BY Entries, LiveIs DEF Shape, ListFacts
<1>2. IsFiniteSet(1 .. Len(entry))
  BY <1>1, FS_Interval
<1> QED BY <1>1, <1>2, FS_Subset

\* The map is empty at first.
LEMMA NothingYet ==
  ASSUME Init
  PROVE  ListInv /\ Live = {}
<1>1. Live = {}
  BY DEF Init, Live
<1>2. entry = <<>> /\ Len(entry) = 0 /\ DOMAIN entry = {} /\ DOMAIN table = {}
  BY DEF Init
<1>3. produced \in Seq(1 .. 0) /\ entry \in Seq([key : Keys, value : Values, next : 0 .. 0])
  BY DEF Init
<1>4. TypeOK
  <2>1. produced \in Seq(1 .. Len(entry)) /\ entry \in Seq([key : Keys, value : Values, next : 0 .. Len(entry)])
    BY <1>2, <1>3
  <2>2. cur \in 0 .. Len(entry) /\ length \in Nat
    BY <1>2 DEF Init, Nil
  <2> QED BY <1>2, <2>1, <2>2 DEF Init, TypeOK
<1>5. Chain(Nx)
  BY <1>2 DEF Chain, Nx
<1>6. length = Cardinality(Live)
  BY <1>1, FS_EmptySet DEF Init
<1> QED BY <1>1, <1>2, <1>4, <1>5, <1>6 DEF ListInv, Shape

\* A step that leaves the map alone keeps the invariant of its lists.
LEMMA SameInv ==
  ASSUME ListInv, entry' = entry, table' = table, length' = length, TypeOK'
  PROVE  ListInv'
<1>1. TypeOK
  BY DEF ListInv, Shape
<1>2. Shape'
  BY SameShape DEF ListInv
<1>3. Live' = Live
  BY <1>1, SameLists
<1> QED BY <1>2, <1>3 DEF ListInv

\* Every step keeps the lists well formed, their keys distinct and the count right.
LEMMA ListInvNext ==
  ASSUME ListInv, [Next]_vars
  PROVE  ListInv'
<1> USE DEF ListInv
<1>0. /\ Shape /\ TypeOK
      /\ Len(entry) \in Nat /\ DOMAIN entry = 1 .. Len(entry)
      /\ Live \subseteq DOMAIN entry
      /\ IsFiniteSet(Live)
  BY Entries, LiveIs, LiveFinite DEF Shape, ListFacts
<1>0a. cur \in 0 .. Len(entry) /\ produced \in Seq(1 .. Len(entry))
  BY <1>0 DEF TypeOK
<1>1. CASE MakeMap
  BY <1>1, <1>0, SameInv DEF MakeMap, TypeOK, iterVars
<1>2. CASE InsertNil
  BY <1>2, <1>0, SameInv DEF InsertNil, TypeOK, mapVars, iterVars
<1>3. ASSUME NEW k \in Keys, Lookup(k) PROVE ListInv'
  BY <1>3, <1>0, SameInv DEF Lookup, TypeOK, mapVars, iterVars
<1>4. ASSUME NEW k \in Keys, Delete(k) PROVE ListInv'
  <2>1. CASE Find(k) = 0
    BY <1>4, <1>0, <2>1, SameInv DEF Delete, Remember, TypeOK, Nil
  <2>2. CASE Find(k) # 0
    <3>1. Shape' /\ Live' = Live \ {Find(k)} /\ length' = length - 1
          /\ \A p \in DOMAIN entry : entry'[p].key = entry[p].key
      BY <1>4, <2>2, Unlinked
    <3>2. Find(k) \in Live
      BY <1>0, <2>2, OneLive
    <3>3. Cardinality(Live \ {Find(k)}) = Cardinality(Live) - 1
      BY <3>2, <1>0, FS_RemoveElement
    <3>4. \A p, q \in Live' : p # q => ~Eq(entry'[p].key, entry'[q].key)
      BY <3>1, <1>0
    <3> QED BY <3>1, <3>3, <3>4 DEF Eq
  <2> QED BY <2>1, <2>2
<1>5. ASSUME NEW k \in Keys, NEW v \in Values, InsertPresent(k, v) PROVE ListInv'
  <2>1. /\ Shape' /\ Live' = Live
        /\ \A p \in DOMAIN entry : entry'[p].key = entry[p].key
    <3> HIDE DEF ListInv
    <3>1. Shape /\ InsertPresent(k, v)
      BY <1>0, <1>5
    <3> QED BY <3>1, ValueSet
  <2>2. length' = length
    BY <1>5 DEF InsertPresent
  <2> QED BY <2>1, <2>2, <1>0 DEF Eq
<1>6. ASSUME NEW k \in Keys, NEW v \in Values, InsertNew(k, v) PROVE ListInv'
  <2> DEFINE n == Len(entry) + 1
  <2>1. /\ Shape' /\ Live' = Live \cup {n}
        /\ \A p \in DOMAIN entry : entry'[p] = entry[p]
        /\ entry'[n].key = k
    BY <1>0, <1>6, EntryAdded
  <2>2. length' = length + 1 /\ Find(k) = 0
    BY <1>6 DEF InsertNew, Nil
  <2>3. \A r \in Live : ~Eq(k, entry[r].key) /\ ~Eq(entry[r].key, k)
    BY <1>0, <2>2, NoneLive DEF Eq
  <2>4. n \notin Live
    BY <1>0
  <2>5. Cardinality(Live \cup {n}) = Cardinality(Live) + 1
    BY <2>4, <1>0, FS_AddElement
  <2>6. \A p, q \in Live' : p # q => ~Eq(entry'[p].key, entry'[q].key)
    <3>1. \A p \in Live : entry'[p].key = entry[p].key
      BY <2>1, <1>0
    <3> QED BY <3>1, <2>1, <2>3
  <2> HIDE DEF n
  <2> QED BY <2>1, <2>2, <2>5, <2>6 DEF Eq
<1>7. CASE BeginRange
  <2>1. produced' \in Seq(1 .. Len(entry))
    BY <1>7 DEF BeginRange
  <2> QED BY <1>7, <2>1, <1>0, SameInv DEF BeginRange, TypeOK, mapVars, Nil
<1>8. CASE NextInBucket
  <2>1. cur \in 1 .. Len(entry) /\ entry[cur].next \in 0 .. Len(entry)
    BY <1>8, <1>0, <1>0a, Entries DEF NextInBucket, Nil
  <2>2. produced' \in Seq(1 .. Len(entry))
    BY <2>1, <1>8, <1>0a DEF NextInBucket
  <2> QED BY <1>8, <2>1, <2>2, <1>0, SameInv DEF NextInBucket, TypeOK, mapVars
<1>9. CASE NextBucket
  <2>1. PICK skipped \in SUBSET Empty, h \in Buckets \ Empty :
          /\ visited' = visited \cup skipped \cup {h}
          /\ due' = due \ visited'
          /\ produced' = Append(produced, table[h])
          /\ cur' = entry[table[h]].next
    BY <1>9 DEF NextBucket
  <2>2. h \in DOMAIN table /\ table[h] \in 1 .. Len(entry)
    BY <1>0 DEF Buckets, Empty, Nil, TypeOK
  <2>3. entry[table[h]].next \in 0 .. Len(entry)
    BY <2>2, <1>0, Entries
  <2>4. produced' \in Seq(1 .. Len(entry))
    BY <2>1, <2>2, <1>0a
  <2>5. visited' \subseteq Hashes
    BY <2>1, <2>2, <1>0 DEF Empty, Buckets, TypeOK
  <2>6. made' = made /\ table' = table /\ entry' = entry /\ length' = length
    BY <1>9 DEF NextBucket, mapVars
  <2> QED BY <2>1, <2>3, <2>4, <2>5, <2>6, <1>0, SameInv DEF TypeOK
<1>10. ASSUME NEW early \in BOOLEAN, EndRange(early) PROVE ListInv'
  <2>1. produced' \in Seq(1 .. Len(entry))
    BY <1>10 DEF EndRange
  <2> QED BY <1>10, <2>1, <1>0, SameInv DEF EndRange, TypeOK, mapVars, Nil
<1>11. CASE UNCHANGED vars
  BY <1>11, <1>0, SameInv DEF vars, mapVars, iterVars, TypeOK
<1> QED
  <2> HIDE DEF ListInv
  <2>1. CASE Next
    <3>1. CASE \E k \in Keys : Delete(k) \/ Lookup(k)
      BY <3>1, <1>3, <1>4
    <3>2. CASE \E k \in Keys, v \in Values : InsertPresent(k, v) \/ InsertNew(k, v)
      BY <3>2, <1>5, <1>6
    <3>3. CASE EndRange(TRUE) \/ EndRange(FALSE)
      BY <3>3, <1>10
    <3> QED BY <2>1, <3>1, <3>2, <3>3, <1>1, <1>2, <1>7, <1>8, <1>9 DEF Next
  <2> QED BY <2>1, <1>11

-----------------------------------------------------------------------------
\* The range -------------------------------------------------------------------

\* The entries this range has produced.
Made == {produced[i] : i \in DOMAIN produced}

\* The inductive invariant of the range.  An entry that was there all along was
\* produced, or is met from the iterator's entry on, or its bucket is due; what was
\* produced of the iterator's bucket is younger than what is left of it.
RangeInv ==
  /\ ~ranging => cur = 0 /\ produced = <<>> /\ steady = {} /\ seen = {}
  /\ ranging => Live \subseteq seen
  /\ seen \subseteq DOMAIN entry
  /\ \A p \in seen : entry[p].next \in seen \cup {0}
  /\ cur \in seen \cup {0}
  /\ cur # 0 => HashAt(cur) \in visited
  /\ cur # 0 => produced # <<>> /\ HashAt(produced[Len(produced)]) = HashAt(cur)
  /\ \A p \in Made : p \in seen /\ HashAt(p) \in visited
  /\ \A p \in Made : cur # 0 /\ HashAt(p) = HashAt(cur) => cur < p
  /\ \A i, j \in DOMAIN produced : i # j => produced[i] # produced[j]
  /\ due \cap visited = {}
  /\ steady \subseteq Live
  /\ \A p \in steady : p \in Made \/ p \in Reach(Nx, cur) \/ HashAt(p) \in due

\* What the program does to the map inside a range's loop keeps the range's invariant:
\* the entry `gone' is unlinked, a new one is put before those there were, or neither.
LEMMA RangeKept ==
  ASSUME ListInv, ListInv', RangeInv, NEW gone,
         ranging' = ranging, cur' = cur, due' = due, visited' = visited, produced' = produced,
         steady' = steady \cap Live',
         seen' = IF ranging THEN seen \cup Live' ELSE seen,
         DOMAIN entry \subseteq DOMAIN entry',
         \A p \in DOMAIN entry : entry'[p].key = entry[p].key,
         \A p \in DOMAIN entry : \/ entry'[p].next = entry[p].next
                                 \/ /\ entry[p].next = gone
                                    /\ gone \in DOMAIN entry
                                    /\ entry'[p].next = entry[gone].next,
         \A p \in Live' : p \in Live \/ entry'[p].next \in Live \cup {0},
         gone \notin Live',
         \A p \in 0 .. Len(entry) : Reach(Nx, p) \ {gone} \subseteq Reach(Nx, p)'
  PROVE  RangeInv'
<1>0. /\ Len(entry) \in Nat /\ DOMAIN entry = 1 .. Len(entry)
      /\ Live \subseteq DOMAIN entry /\ Live' \subseteq DOMAIN entry'
  BY Entries, LiveIs, LiveIsNext DEF Shape, ListFacts, ListInv
<1>1. Made' = Made /\ Made \subseteq seen /\ seen \subseteq DOMAIN entry /\ seen \subseteq seen'
  BY DEF Made, RangeInv
<1>2. \A p \in DOMAIN entry : HashAt(p)' = HashAt(p)
  BY DEF HashAt
<1>3. ~ranging' => cur' = 0 /\ produced' = <<>> /\ steady' = {} /\ seen' = {}
  BY DEF RangeInv
<1>4. ranging' => Live' \subseteq seen'
  OBVIOUS
<1>5. seen' \subseteq DOMAIN entry'
  BY <1>0, <1>1
<1>6. \A p \in seen' : entry'[p].next \in seen' \cup {0}
  <2>1. ASSUME NEW p \in seen PROVE entry'[p].next \in seen \cup {0}
    <3>1. p \in DOMAIN entry /\ entry[p].next \in seen \cup {0}
      BY <1>1 DEF RangeInv
    <3>2. CASE entry'[p].next = entry[p].next
      BY <3>1, <3>2
    <3>3. CASE entry[p].next = gone /\ gone \in DOMAIN entry /\ entry'[p].next = entry[gone].next
      <4>1. gone \in seen
        BY <3>1, <3>3, <1>0
      <4> QED BY <4>1, <3>3 DEF RangeInv
    <3> QED BY <3>1, <3>2, <3>3
  <2>2. ASSUME NEW p \in seen', p \notin seen PROVE entry'[p].next \in seen' \cup {0}
    <3>1. ranging /\ p \in Live' /\ p \notin Live
      BY <2>2 DEF RangeInv
    <3>2. entry'[p].next \in Live \cup {0}
      BY <3>1
    <3> QED BY <3>1, <3>2, <1>1 DEF RangeInv
  <2> QED BY <2>1, <2>2, <1>1
<1>7. cur' \in seen' \cup {0} /\ (cur' # 0 => cur \in DOMAIN entry /\ HashAt(cur)' \in visited')
  BY <1>1, <1>2 DEF RangeInv
<1>8. cur' # 0 => produced' # <<>> /\ HashOf[entry'[produced'[Len(produced')]].key] = HashAt(cur)'
  <2> SUFFICES ASSUME cur # 0
               PROVE produced # <<>> /\ HashOf[entry'[produced[Len(produced)]].key] = HashAt(cur)'
    OBVIOUS
  <2>1. produced # <<>> /\ HashAt(produced[Len(produced)]) = HashAt(cur) /\ cur \in DOMAIN entry
    BY <1>1 DEF RangeInv
  <2>2. produced[Len(produced)] \in DOMAIN entry
    <3>1. produced \in Seq(1 .. Len(entry))
      BY DEF ListInv, Shape, TypeOK
    <3>2. Len(produced) \in DOMAIN produced
      BY <3>1, <2>1
    <3> QED BY <3>2, <1>1 DEF Made
  <2> QED BY <2>1, <2>2, <1>2 DEF HashAt
<1>9. \A p \in Made' : p \in seen' /\ HashAt(p)' \in visited'
  BY <1>1, <1>2 DEF RangeInv
<1>10. \A p \in Made' : cur' # 0 /\ HashAt(p)' = HashAt(cur)' => cur' < p
  BY <1>1, <1>2, <1>7 DEF RangeInv
<1>11. steady' \subseteq Live'
  OBVIOUS
<1>12. \A p \in steady' : p \in Made' \/ p \in Reach(Nx', cur') \/ HashAt(p)' \in due'
  <2>1. \A p \in steady' : p \in steady /\ p # gone /\ p \in DOMAIN entry
    BY <1>0 DEF RangeInv
  <2>2. cur \in 0 .. Len(entry)
    BY DEF ListInv, Shape, TypeOK
  <2>3. \A p \in steady : p \in Made \/ p \in Reach(Nx, cur) \/ HashAt(p) \in due
    BY DEF RangeInv
  <2> QED BY <2>1, <2>2, <2>3, <1>1, <1>2
<1>13. /\ \A i, j \in DOMAIN produced' : i # j => produced'[i] # produced'[j]
       /\ due' \cap visited' = {}
  BY DEF RangeInv
<1> QED
  BY <1>3, <1>4, <1>5, <1>6, <1>7, <1>8, <1>9, <1>10, <1>11, <1>12, <1>13 DEF RangeInv, HashAt

\* A step that touches neither map nor iterator keeps the range's invariant.
LEMMA NothingDone ==
  ASSUME ListInv, ListInv', RangeInv, entry' = entry, table' = table, UNCHANGED iterVars
  PROVE  RangeInv'
<1>1. TypeOK
  BY DEF ListInv, Shape
<1>2. Nx' = Nx /\ Live' = Live
  BY <1>1, SameLists
<1>3. /\ steady' = steady /\ seen' = seen /\ ranging' = ranging
      /\ cur' = cur /\ due' = due /\ visited' = visited /\ produced' = produced
  BY DEF iterVars
<1>4. Made' = Made
  BY <1>3 DEF Made
<1>5. \A p : HashAt(p)' = HashAt(p)
  BY DEF HashAt
<1> QED BY <1>2, <1>3, <1>4 DEF RangeInv, HashAt

\* A range begins with every bucket due.
LEMMA RangeBegun ==
  ASSUME ListInv, ListInv', BeginRange
  PROVE  RangeInv'
<1>1. /\ TypeOK /\ DOMAIN entry = 1 .. Len(entry) /\ Chain(Nx)
      /\ \A p \in DOMAIN entry : Nx[p] = entry[p].next
  BY Entries DEF ListInv, Shape
<1>2. entry' = entry /\ table' = table
  BY DEF BeginRange, mapVars
<1>3. Nx' = Nx /\ Live' = Live
  BY <1>1, <1>2, SameLists
<1>4. Live \subseteq DOMAIN entry /\ \A p \in Live : HashAt(p) \in DOMAIN table
  BY LiveIs DEF ListInv, ListFacts
<1>5. \A p \in Live : entry[p].next \in Live \cup {0}
  <2>1. ASSUME NEW p \in Live, entry[p].next # 0 PROVE entry[p].next \in Live
    <3>1. PICK h \in DOMAIN table : p \in Reach(Nx, table[h])
      BY LiveIs DEF ListInv, ListFacts
    <3>2. table[h] \in DOMAIN Nx \cup {0}
      BY <1>1, Entries DEF TypeOK
    <3>3. entry[p].next \in Reach(Nx, table[h])
      BY <3>1, <3>2, <2>1, <1>1, <1>4, ReachClosed
    <3> QED BY <3>3, LiveIs DEF ListInv, ListFacts
  <2> QED BY <2>1
<1>6. Made' = {} /\ produced' = <<>> /\ DOMAIN produced' = {}
  BY DEF Made, BeginRange
<1>7. ranging' /\ cur' = 0 /\ due' = DOMAIN table /\ visited' = {} /\ steady' = Live /\ seen' = Live
  BY DEF BeginRange, Nil
<1>8. \A p \in steady' : HashOf[entry'[p].key] \in due'
  BY <1>7, <1>4, <1>2 DEF HashAt
<1> QED BY <1>2, <1>3, <1>4, <1>5, <1>6, <1>7, <1>8 DEF RangeInv, HashAt

\* A sequence with one more element.
LEMMA LastAppended ==
  ASSUME NEW S, NEW s \in Seq(S), NEW x \in S
  PROVE  /\ Append(s, x) # <<>>
         /\ DOMAIN Append(s, x) = DOMAIN s \cup {Len(s) + 1}
         /\ Len(Append(s, x)) = Len(s) + 1
         /\ \A i \in DOMAIN s : Append(s, x)[i] = s[i] /\ i # Len(s) + 1
         /\ Append(s, x)[Len(s) + 1] = x
OBVIOUS

\* An entry that goes to the loop and its successor, which waits.
LEMMA Stepped ==
  ASSUME ListInv, ListInv', RangeInv, NEW x \in seen,
         ranging, ranging' = ranging, entry' = entry, table' = table,
         produced' = Append(produced, x), cur' = entry[x].next,
         x \notin Made,
         HashAt(x) \in visited', visited \subseteq visited', due' \cap visited' = {},
         \A p \in Made : HashAt(p) = HashAt(x) => x < p,
         steady' = steady, seen' = seen,
         \A p \in steady : p \in Made \/ p \in Reach(Nx, x) \/ HashAt(p) \in due'
  PROVE  RangeInv'
<1>1. /\ TypeOK /\ DOMAIN entry = 1 .. Len(entry) /\ DOMAIN Nx = DOMAIN entry /\ Chain(Nx)
      /\ \A p \in DOMAIN entry : Nx[p] = entry[p].next
      /\ x \in DOMAIN entry
      /\ produced \in Seq(1 .. Len(entry))
  BY Entries DEF ListInv, Shape, RangeInv, TypeOK
<1>2. Nx' = Nx /\ Live' = Live /\ \A p : HashAt(p)' = HashAt(p)
  BY <1>1, SameLists DEF HashAt
<1>3. /\ produced' # <<>> /\ produced'[Len(produced')] = x
      /\ DOMAIN produced' = DOMAIN produced \cup {Len(produced) + 1}
      /\ \A i \in DOMAIN produced : produced'[i] = produced[i] /\ i # Len(produced) + 1
      /\ produced'[Len(produced) + 1] = x
  BY <1>1, LastAppended
<1>4. Made' = Made \cup {x}
  BY <1>3 DEF Made
<1>5. cur' \in seen' \cup {0} /\ cur' < x
  BY <1>1 DEF RangeInv, Chain
<1>6. cur' # 0 => HashAt(cur') = HashAt(x)
  BY <1>1 DEF ListInv, Shape
<1>7. \A p \in Made' : p \in seen /\ HashAt(p) \in visited'
  BY <1>4 DEF RangeInv
<1>8. \A p \in Made' : cur' # 0 /\ HashAt(p) = HashAt(cur') => cur' < p
  <2> SUFFICES ASSUME NEW p \in Made', cur' # 0, HashAt(p) = HashAt(cur') PROVE cur' < p
    OBVIOUS
  <2>1. CASE p = x
    BY <2>1, <1>5
  <2>2. CASE p \in Made
    <3>1. x < p
      BY <2>2, <1>6
    <3>2. p \in Nat /\ x \in Nat /\ cur' \in Nat
      BY <1>1, <1>5, <2>2 DEF RangeInv
    <3> QED BY <3>1, <3>2, <1>5
  <2> QED BY <2>1, <2>2, <1>4
<1>9. \A i, j \in DOMAIN produced' : i # j => produced'[i] # produced'[j]
  <2>1. \A i \in DOMAIN produced : produced[i] # x
    BY DEF Made
  <2>2. \A i, j \in DOMAIN produced : i # j => produced[i] # produced[j]
    BY DEF RangeInv
  <2> QED BY <2>1, <2>2, <1>3
<1>10. Reach(Nx, x) = {x} \cup Reach(Nx, cur')
  <2>1. x \in DOMAIN Nx /\ Nx[x] = cur'
    BY <1>1
  <2> QED BY <2>1, <1>1, ReachStep
<1>11. \A p \in steady' : p \in Made' \/ p \in Reach(Nx, cur') \/ HashAt(p) \in due'
  BY <1>4, <1>10
<1>12. \A p \in seen' : entry[p].next \in seen' \cup {0}
  BY DEF RangeInv
<1>13. ranging' /\ Live \subseteq seen' /\ seen' \subseteq DOMAIN entry /\ steady' \subseteq Live
  BY DEF RangeInv
<1>14. cur' # 0 => HashAt(cur') \in visited'
  BY <1>6
<1>15. Reach(Nx, cur)' = Reach(Nx, cur')
  BY <1>2
<1> QED
  BY <1>2, <1>3, <1>5, <1>6, <1>7, <1>8, <1>9, <1>11, <1>12, <1>13, <1>14, <1>15 DEF RangeInv, HashAt

\* hashmapIter.next inside a bucket keeps the range's invariant.
LEMMA InBucket ==
  ASSUME ListInv, ListInv', RangeInv, NextInBucket
  PROVE  RangeInv'
<1>1. /\ ranging /\ cur # 0 /\ ranging' = ranging /\ entry' = entry /\ table' = table
      /\ produced' = Append(produced, cur) /\ cur' = entry[cur].next
      /\ visited' = visited /\ due' = due /\ steady' = steady /\ seen' = seen
  BY DEF NextInBucket, mapVars, Nil
<1>2. cur \in seen /\ HashAt(cur) \in visited
  BY <1>1 DEF RangeInv
<1>3. \A p \in Made : HashAt(p) = HashAt(cur) => cur < p
  BY <1>1 DEF RangeInv
<1>4. cur \in Nat
  BY DEF ListInv, Shape, TypeOK
<1>5. cur \notin Made
  BY <1>3, <1>4
<1>6. /\ \A p \in steady : p \in Made \/ p \in Reach(Nx, cur) \/ HashAt(p) \in due'
      /\ due' \cap visited' = {}
  BY <1>1 DEF RangeInv
<1> QED BY <1>1, <1>2, <1>3, <1>5, <1>6, Stepped

\* hashmapIter.next at another bucket keeps it, and produces an entry of the map.
LEMMA ToBucket ==
  ASSUME ListInv, ListInv', RangeInv, NextBucket
  PROVE  RangeInv' /\ produced'[Len(produced')] \in Live
<1>1. PICK skipped \in SUBSET Empty, h \in Buckets \ Empty :
        /\ visited' = visited \cup skipped \cup {h}
        /\ due' = due \ visited'
        /\ produced' = Append(produced, table[h])
        /\ cur' = entry[table[h]].next
  BY DEF NextBucket
<1>2. /\ ranging /\ cur = 0 /\ ranging' = ranging /\ entry' = entry /\ table' = table
      /\ steady' = steady /\ seen' = seen
  BY DEF NextBucket, mapVars, Nil
<1>3. /\ TypeOK /\ Chain(Nx) /\ DOMAIN Nx = DOMAIN entry /\ DOMAIN entry = 1 .. Len(entry)
      /\ produced \in Seq(1 .. Len(entry))
  BY Entries DEF ListInv, Shape, TypeOK
<1>4. h \in DOMAIN table /\ h \notin visited /\ table[h] \in DOMAIN entry /\ HashAt(table[h]) = h
  BY <1>3 DEF Buckets, Empty, Nil, TypeOK, ListInv, Shape
<1>5. table[h] \in Live
  <2>1. table[h] \in Reach(Nx, table[h])
    BY <1>3, <1>4, ReachStep
  <2> QED BY <2>1, <1>4, LiveIs DEF ListInv, ListFacts
<1>6. table[h] \in seen
  BY <1>2, <1>5 DEF RangeInv
<1>7. \A p \in Made : HashAt(p) # h
  BY <1>4 DEF RangeInv
<1>8. ASSUME NEW p \in steady
      PROVE p \in Made \/ p \in Reach(Nx, table[h]) \/ HashAt(p) \in due'
  <2>1. p \in Live /\ p \notin Reach(Nx, cur)
    BY <1>2, <1>3, ReachNil DEF RangeInv
  <2>2. HashAt(p) \in DOMAIN table /\ p \in Reach(Nx, table[HashAt(p)])
    BY <2>1, LiveIs DEF ListInv, ListFacts
  <2>3. HashAt(p) \notin Empty
    BY <2>2, <1>3, ReachNil DEF Empty, Nil
  <2>4. p \in Made \/ HashAt(p) \in due
    BY <2>1 DEF RangeInv
  <2>5. HashAt(p) \in due => HashAt(p) \notin visited
    BY DEF RangeInv
  <2>6. CASE HashAt(p) = h
    BY <2>2, <2>6
  <2>7. CASE HashAt(p) # h /\ HashAt(p) \in due
    <3>1. HashAt(p) \notin visited'
      BY <1>1, <2>3, <2>5, <2>7
    <3> QED BY <1>1, <2>7, <3>1
  <2> QED BY <2>4, <2>6, <2>7
<1> QED BY <1>1, <1>2, <1>3, <1>4, <1>5, <1>6, <1>7, <1>8, Stepped, LastAppended

\* A range that ends leaves nothing behind.
LEMMA RangeOver ==
  ASSUME ListInv, ListInv', RangeInv, NEW early \in BOOLEAN, EndRange(early)
  PROVE  RangeInv'
<1>1. TypeOK
  BY DEF ListInv, Shape
<1>2. /\ ~ranging' /\ cur' = 0 /\ due' = {} /\ produced' = <<>> /\ steady' = {} /\ seen' = {}
      /\ entry' = entry /\ table' = table
  BY DEF EndRange, mapVars, Nil
<1>3. Made' = {} /\ DOMAIN produced' = {}
  BY <1>2 DEF Made
<1> QED BY <1>2, <1>3 DEF RangeInv

\* Every step keeps the range's invariant.
LEMMA RangeInvNext ==
  ASSUME ListInv, ListInv', RangeInv, [Next]_vars
  PROVE  RangeInv'
<1>0. /\ Shape /\ TypeOK
      /\ Len(entry) \in Nat /\ DOMAIN entry = 1 .. Len(entry)
      /\ Live \subseteq DOMAIN entry /\ 0 \notin Live
      /\ Chain(Nx)
  BY Entries, LiveIs DEF ListInv, Shape, ListFacts
<1>1. CASE MakeMap
  BY <1>1, NothingDone DEF MakeMap
<1>2. CASE InsertNil
  BY <1>2, NothingDone DEF InsertNil, mapVars
<1>3. ASSUME NEW k \in Keys, Lookup(k) PROVE RangeInv'
  BY <1>3, NothingDone DEF Lookup, mapVars
<1>4. ASSUME NEW k \in Keys, Delete(k) PROVE RangeInv'
  <2>0. Remember
    BY <1>4 DEF Delete
  <2>1. CASE Find(k) = 0
    <3>1. entry' = entry /\ table' = table
      BY <1>4, <2>1 DEF Delete, Nil
    <3>2. Nx' = Nx /\ Live' = Live
      BY <3>1, <1>0, SameLists
    <3>3. steady' = steady /\ (ranging => seen' = seen) /\ (~ranging => seen' = seen)
      BY <2>0, <3>2 DEF Remember, RangeInv
    <3>4. UNCHANGED iterVars
      BY <2>0, <3>3 DEF Remember, iterVars
    <3> QED BY <3>1, <3>4, NothingDone
  <2>2. CASE Find(k) # 0
    <3> DEFINE e == Find(k)
    <3>1. /\ Len(entry') = Len(entry)
          /\ Live' = Live \ {e}
          /\ \A p \in DOMAIN entry : entry'[p].key = entry[p].key /\ entry'[p].value = entry[p].value
          /\ \A p \in DOMAIN entry : \/ entry'[p].next = entry[p].next
                                   \/ /\ p \in Live
                                      /\ entry[p].next = e
                                      /\ entry'[p].next = entry[e].next
          /\ \A p \in 0 .. Len(entry) : Reach(Nx, p) \ {e} \subseteq Reach(Nx, p)'
      BY <1>4, <2>2, Unlinked
    <3>2. e \in DOMAIN entry
      BY <1>0, <2>2, OneLive
    <3>3. DOMAIN entry' = DOMAIN entry
      BY <3>1, <1>0 DEF ListInv, Shape, TypeOK
    <3> HIDE DEF e
    <3> QED BY <2>0, <3>1, <3>2, <3>3, RangeKept DEF Remember
  <2> QED BY <2>1, <2>2
<1>5. ASSUME NEW k \in Keys, NEW v \in Values, InsertPresent(k, v) PROVE RangeInv'
  <2>1. /\ Nx' = Nx
        /\ Live' = Live
        /\ DOMAIN entry' = DOMAIN entry
        /\ \A p \in DOMAIN entry : entry'[p].key = entry[p].key
        /\ \A p \in DOMAIN entry : entry'[p].next = entry[p].next
    BY <1>5, <1>0, ValueSet
  <2>2. /\ ranging' = ranging /\ cur' = cur /\ due' = due /\ visited' = visited /\ produced' = produced
        /\ steady' = steady /\ seen' = seen
    BY <1>5 DEF InsertPresent, iterVars
  <2>3. steady' = steady \cap Live' /\ seen' = IF ranging THEN seen \cup Live' ELSE seen
    BY <2>1, <2>2 DEF RangeInv
  <2>4. \A p \in 0 .. Len(entry) : Reach(Nx, p) \ {0} \subseteq Reach(Nx, p)'
    BY <2>1
  <2> QED BY <2>1, <2>2, <2>3, <2>4, <1>0, RangeKept
<1>6. ASSUME NEW k \in Keys, NEW v \in Values, InsertNew(k, v) PROVE RangeInv'
  <2>1. /\ Len(entry') = Len(entry) + 1
        /\ Live' = Live \cup {Len(entry) + 1}
        /\ \A p \in DOMAIN entry : entry'[p] = entry[p]
        /\ entry'[Len(entry) + 1].next \in Live \cup {0}
        /\ \A p \in 0 .. Len(entry) : Reach(Nx, p)' = Reach(Nx, p)
    BY <1>6, <1>0, EntryAdded
  <2>2. DOMAIN entry \subseteq DOMAIN entry'
    BY <2>1, <1>0 DEF ListInv, Shape, TypeOK
  <2>3. 0 \notin Live'
    BY <2>1, <1>0
  <2>4. Remember
    BY <1>6 DEF InsertNew
  <2>5. \A p \in DOMAIN entry : entry'[p].key = entry[p].key /\ entry'[p].next = entry[p].next
    BY <2>1
  <2>6. \A p \in Live' : p \in Live \/ entry'[p].next \in Live \cup {0}
    BY <2>1
  <2>7. \A p \in 0 .. Len(entry) : Reach(Nx, p) \ {0} \subseteq Reach(Nx, p)'
    BY <2>1
  <2> QED BY <2>2, <2>3, <2>4, <2>5, <2>6, <2>7, RangeKept DEF Remember
<1>7. CASE BeginRange
  BY <1>7, RangeBegun
<1>8. CASE NextInBucket
  BY <1>8, InBucket
<1>9. CASE NextBucket
  BY <1>9, ToBucket
<1>10. ASSUME NEW early \in BOOLEAN, EndRange(early) PROVE RangeInv'
  BY <1>10, RangeOver
<1>11. CASE UNCHANGED vars
  BY <1>11, NothingDone DEF vars, mapVars
<1> QED
  <2>1. CASE Next
    <3>1. CASE \E k \in Keys : Delete(k) \/ Lookup(k)
      BY <3>1, <1>3, <1>4
    <3>2. CASE \E k \in Keys, v \in Values : InsertPresent(k, v) \/ InsertNew(k, v)
      BY <3>2, <1>5, <1>6
    <3>3. CASE EndRange(TRUE) \/ EndRange(FALSE)
      BY <3>3, <1>10
    <3> QED BY <2>1, <3>1, <3>2, <3>3, <1>1, <1>2, <1>7, <1>8, <1>9 DEF Next
  <2> QED BY <2>1, <1>11

-----------------------------------------------------------------------------
\* Theorems --------------------------------------------------------------------

\* The inductive invariant.
THEOREM InvHolds == Spec => [](ListInv /\ RangeInv)
<1>1. Init => ListInv /\ RangeInv
  <2> SUFFICES ASSUME Init PROVE ListInv /\ RangeInv
    OBVIOUS
  <2>1. ListInv /\ Live = {}
    BY NothingYet
  <2>2. Made = {} /\ DOMAIN produced = {}
    BY DEF Made, Init
  <2> QED BY <2>1, <2>2 DEF RangeInv, Init, Nil
<1>2. ListInv /\ RangeInv /\ [Next]_vars => (ListInv /\ RangeInv)'
  BY ListInvNext, RangeInvNext
<1> QED BY <1>1, <1>2, PTL DEF Spec

\* Every variable keeps its shape; no link and no iterator points outside the entries.
THEOREM TypeCorrect == Spec => []TypeOK
<1>1. ListInv => TypeOK
  BY DEF ListInv, Shape
<1> QED BY <1>1, InvHolds, PTL

\* The buckets of map.go stay well formed whatever inserts and deletes come: finite,
\* disjoint, of one hash each, without equal keys, and counted by hashmap.length.
THEOREM ListsCorrect == Spec => []ListsOK
<1>1. ListInv => ListsOK
  <2> SUFFICES ASSUME ListInv PROVE ListsOK
    OBVIOUS
  <2>1. /\ TypeOK /\ Chain(Nx) /\ DOMAIN Nx = DOMAIN entry
        /\ \A p \in DOMAIN entry : Nx[p] = entry[p].next
    BY Entries DEF ListInv, Shape
  <2>2. \A p \in DOMAIN entry : entry[p].next < p
    BY <2>1 DEF Chain
  <2>3. ASSUME NEW h \in DOMAIN table, NEW p \in WalkFrom(table[h])
        PROVE HashOf[entry[p].key] = h
    <3>1. p \in Reach(Nx, table[h])
      BY LiveIs DEF ListInv, ListFacts
    <3>2. table[h] # 0
      BY <3>1, <2>1, ReachNil
    <3>3. table[h] \in DOMAIN entry /\ HashAt(table[h]) = h
      BY <3>2, <2>1, Entries DEF ListInv, Shape, TypeOK
    <3> QED BY <3>1, <3>3, LiveIs DEF ListInv, ListFacts, HashAt
  <2> QED BY <2>2, <2>3 DEF ListsOK, ListInv
<1> QED BY <1>1, InvHolds, PTL

\* A range produces no entry twice and none that was gone before it began.
THEOREM NoEntryTwice == Spec => []RangeOnce
<1>1. ListInv /\ RangeInv => RangeOnce
  BY DEF RangeInv, RangeOnce, Made
<1> QED BY <1>1, InvHolds, PTL

\* A range that next() ends has produced every entry that was there all along.
THEOREM RangeIsComplete == Spec => RangeComplete
<1>1. ListInv /\ RangeInv =>
        (ranging /\ ~ranging' /\ cur = Nil /\ due \subseteq Empty =>
           steady \subseteq {produced[i] : i \in DOMAIN produced})
  <2> SUFFICES ASSUME ListInv, RangeInv, cur = 0, due \subseteq Empty, NEW p \in steady
               PROVE  p \in Made
    BY DEF Made, Nil
  <2>1. Chain(Nx)
    BY DEF ListInv, Shape
  <2>2. p \in Live /\ p \notin Reach(Nx, cur)
    BY <2>1, ReachNil DEF RangeInv
  <2>3. p \in Reach(Nx, table[HashAt(p)])
    BY <2>2, LiveIs DEF ListInv, ListFacts
  <2>4. HashAt(p) \notin due
    BY <2>1, <2>3, ReachNil DEF Empty, Nil
  <2> QED BY <2>2, <2>4 DEF RangeInv
<1> QED BY <1>1, InvHolds, PTL DEF Spec, RangeComplete

\* Only as the successor of the entry before it may a deleted entry be produced.
THEOREM RangeIsFresh == Spec => RangeFresh
<1> DEFINE A == produced' # produced /\ produced' # <<>> =>
                  LET last == produced'[Len(produced')]
                  IN \/ last \in Live
                     \/ /\ produced # <<>>
                        /\ HashOf[entry[produced[Len(produced)]].key] = HashOf[entry[last].key]
<1>1. ListInv /\ RangeInv /\ [Next]_vars => A
  <2> SUFFICES ASSUME ListInv, RangeInv, [Next]_vars, produced' # produced, produced' # <<>>
               PROVE  LET last == produced'[Len(produced')]
                      IN \/ last \in Live
                         \/ /\ produced # <<>>
                            /\ HashOf[entry[produced[Len(produced)]].key] = HashOf[entry[last].key]
    OBVIOUS
  <2>1. NextInBucket \/ NextBucket
    BY DEF Next, MakeMap, InsertNil, Delete, Lookup, InsertPresent, InsertNew, Remember, BeginRange,
           EndRange, iterVars, vars
  <2>2. CASE NextInBucket
    <3>1. cur \in 1 .. Len(entry) /\ produced \in Seq(1 .. Len(entry)) /\ produced' = Append(produced, cur)
      BY <2>2 DEF NextInBucket, Nil, ListInv, Shape, TypeOK
    <3>2. produced'[Len(produced')] = cur
      BY <3>1, LastAppended
    <3>3. produced # <<>> /\ HashAt(produced[Len(produced)]) = HashAt(cur)
      BY <2>2 DEF NextInBucket, Nil, RangeInv
    <3> QED BY <3>2, <3>3 DEF HashAt
  <2>3. CASE NextBucket
    <3>1. ListInv'
      BY ListInvNext
    <3> QED BY <2>3, <3>1, ToBucket
  <2> QED BY <2>1, <2>2, <2>3
<1> HIDE DEF A
<1>2. Spec => [][A]_vars
  BY <1>1, InvHolds, PTL DEF Spec
<1> QED BY <1>2 DEF A, RangeFresh

-----------------------------------------------------------------------------
\* Refinement ------------------------------------------------------------------

Assoc == [p \in Live |-> [key |-> entry[p].key, value |-> entry[p].value]]

\* The associations of a map whose entries and buckets stay.
LEMMA SameAssoc ==
  ASSUME TypeOK, entry' = entry, table' = table
  PROVE  Assoc' = Assoc
BY SameLists DEF Assoc

\* The associations of a key are the entries whose keys eq() it.
LEMMA MatchesAre ==
  ASSUME NEW k \in Keys, ListInv
  PROVE  GoMapSpec!Matches(k) = {a \in Live : Eq(k, entry[a].key)}
<1>1. \A a \in Live : entry[a].key \in Keys
  BY Entries, LiveIs DEF ListInv, ListFacts, Shape
<1> QED BY <1>1 DEF GoMapSpec!Matches

\* Every step is one of a Go map, or none.
LEMMA Mapped ==
  ASSUME ListInv, ListInv', [Next]_vars
  PROVE  [GoMapSpec!Next]_(GoMapSpec!mapVars)
<1> USE DEF Assoc
<1>0. /\ Shape /\ TypeOK
      /\ Len(entry) \in Nat /\ DOMAIN entry = 1 .. Len(entry)
      /\ Live \subseteq DOMAIN entry
  BY Entries, LiveIs DEF ListInv, Shape, ListFacts
<1>1. CASE MakeMap
  <2>1. Assoc' = Assoc
    BY <1>1, <1>0, SameAssoc DEF MakeMap
  <2>2. GoMapSpec!Make
    BY <1>1, <2>1 DEF MakeMap, GoMapSpec!Make
  <2> QED BY <2>2 DEF GoMapSpec!Next
<1>2. CASE InsertNil
  <2>1. Assoc' = Assoc
    BY <1>2, <1>0, SameAssoc DEF InsertNil, mapVars
  <2>2. GoMapSpec!WriteNil
    BY <1>2, <2>1 DEF InsertNil, mapVars, GoMapSpec!WriteNil
  <2> QED BY <2>2 DEF GoMapSpec!Next
<1>3. ASSUME NEW k \in Keys, Lookup(k) PROVE GoMapSpec!Next
  <2>1. Assoc' = Assoc /\ made' = made /\ length' = length
    BY <1>3, <1>0, SameAssoc DEF Lookup, mapVars
  <2>2. GoMapSpec!Matches(k) = {a \in Live : Eq(k, entry[a].key)}
    BY MatchesAre
  <2>3. CASE Find(k) = 0
    <3>1. answer' = <<"missing">>
      BY <1>3, <2>3 DEF Lookup, Nil
    <3>2. GoMapSpec!Matches(k) = {}
      BY <1>0, <2>2, <2>3, NoneLive
    <3>3. GoMapSpec!Lookup(k)
      BY <2>1, <3>1, <3>2 DEF GoMapSpec!Lookup
    <3> QED BY <3>3 DEF GoMapSpec!Next
  <2>4. CASE Find(k) # 0
    <3>1. answer' = <<"found", entry[Find(k)].value>>
      BY <1>3, <2>4 DEF Lookup, Nil
    <3>2. Find(k) \in GoMapSpec!Matches(k) /\ Find(k) \in Live
      BY <1>0, <2>2, <2>4, OneLive
    <3>3. Assoc[Find(k)].value = entry[Find(k)].value
      BY <3>2
    <3>4. GoMapSpec!Lookup(k)
      BY <2>1, <3>1, <3>2, <3>3 DEF GoMapSpec!Lookup
    <3> QED BY <3>4 DEF GoMapSpec!Next
  <2> QED BY <2>3, <2>4
<1>4. ASSUME NEW k \in Keys, Delete(k) PROVE GoMapSpec!Next
  <2>1. made' = made /\ answer' = <<"done">>
    BY <1>4 DEF Delete
  <2>2. GoMapSpec!Matches(k) = {a \in Live : Eq(k, entry[a].key)}
    BY MatchesAre
  <2>3. CASE Find(k) = 0
    <3>1. entry' = entry /\ table' = table /\ length' = length
      BY <1>4, <2>3 DEF Delete, Nil
    <3>2. GoMapSpec!Matches(k) = {}
      BY <1>0, <2>2, <2>3, NoneLive
    <3>3. Assoc' = Assoc
      BY <3>1, <1>0, SameAssoc
    <3>4. GoMapSpec!DeleteMissing(k)
      BY <2>1, <3>1, <3>2, <3>3 DEF GoMapSpec!DeleteMissing
    <3> QED BY <3>4 DEF GoMapSpec!Next
  <2>4. CASE Find(k) # 0
    <3> DEFINE e == Find(k)
    <3>1. /\ Live' = Live \ {e} /\ length' = length - 1
          /\ \A p \in DOMAIN entry : entry'[p].key = entry[p].key /\ entry'[p].value = entry[p].value
      BY <1>4, <2>4, Unlinked
    <3>2. e \in GoMapSpec!Matches(k)
      BY <1>0, <2>2, <2>4, OneLive
    <3> HIDE DEF e
    <3>3. DOMAIN Assoc = Live
      OBVIOUS
    <3>4. Assoc' = [b \in DOMAIN Assoc \ {e} |-> Assoc[b]]
      BY <3>1, <3>3, <1>0
    <3>5. GoMapSpec!Delete(k)
      BY <2>1, <3>1, <3>2, <3>4 DEF GoMapSpec!Delete
    <3> QED BY <3>5 DEF GoMapSpec!Next
  <2> QED BY <2>3, <2>4
<1>5. ASSUME NEW k \in Keys, NEW v \in Values, InsertPresent(k, v) PROVE GoMapSpec!Next
  <2> DEFINE f == Find(k)
  <2>1. /\ Live' = Live
        /\ \A p \in DOMAIN entry : entry'[p].key = entry[p].key
        /\ \A p \in DOMAIN entry : p # f => entry'[p] = entry[p]
        /\ entry'[f].value = v
    BY <1>5, <1>0, ValueSet
  <2>2. made /\ made' = made /\ length' = length /\ answer' = <<"done">> /\ f # 0
    BY <1>5 DEF InsertPresent, Nil
  <2>3. f \in GoMapSpec!Matches(k) /\ f \in Live
    BY <1>0, <2>2, MatchesAre, OneLive
  <2> HIDE DEF f
  <2>4. Assoc' = [Assoc EXCEPT ![f].value = v]
    <3>1. DOMAIN Assoc' = DOMAIN Assoc
      BY <2>1
    <3>2. Assoc'[f] = [Assoc[f] EXCEPT !.value = v]
      BY <2>1, <2>3, <1>0
    <3>3. \A p \in Live : p # f => Assoc'[p] = Assoc[p]
      BY <2>1, <1>0
    <3> QED BY <3>2, <3>3, <2>1, <2>3
  <2>5. GoMapSpec!Update(k, v)
    BY <2>2, <2>3, <2>4 DEF GoMapSpec!Update
  <2> QED BY <2>5 DEF GoMapSpec!Next
<1>6. ASSUME NEW k \in Keys, NEW v \in Values, InsertNew(k, v) PROVE GoMapSpec!Next
  <2> DEFINE n == Len(entry) + 1
  <2>1. /\ Live' = Live \cup {n}
        /\ \A p \in DOMAIN entry : entry'[p] = entry[p]
        /\ entry'[n].key = k /\ entry'[n].value = v
    BY <1>6, <1>0, EntryAdded
  <2>2. /\ made /\ made' = made /\ length' = length + 1
        /\ answer' = <<"done">> /\ Find(k) = 0 /\ Len(entry) < MaxEntries
    BY <1>6 DEF InsertNew, Nil
  <2>3. GoMapSpec!Matches(k) = {}
    BY <1>0, <2>2, MatchesAre, NoneLive
  <2>4. n \in Ids \ DOMAIN Assoc
    BY <1>0, <2>2, HashMapAssumption DEF Ids
  <2> HIDE DEF n
  <2>5. Assoc' = [b \in DOMAIN Assoc \cup {n} |-> IF b = n THEN [key |-> k, value |-> v] ELSE Assoc[b]]
    BY <2>1, <1>0
  <2>6. GoMapSpec!Add(k, v)
    BY <2>2, <2>3, <2>4, <2>5 DEF GoMapSpec!Add
  <2> QED BY <2>6 DEF GoMapSpec!Next
<1>7. ASSUME BeginRange \/ NextInBucket \/ NextBucket \/ EndRange(TRUE) \/ EndRange(FALSE) \/ UNCHANGED vars
      PROVE  UNCHANGED GoMapSpec!mapVars
  <2>1. entry' = entry /\ table' = table /\ made' = made /\ length' = length /\ answer' = answer
    BY <1>7 DEF BeginRange, NextInBucket, NextBucket, EndRange, vars, mapVars
  <2>2. Assoc' = Assoc
    BY <2>1, <1>0, SameAssoc
  <2> QED BY <2>1, <2>2 DEF GoMapSpec!mapVars
<1> QED
  <2>1. CASE \E k \in Keys : Delete(k) \/ Lookup(k)
    BY <2>1, <1>3, <1>4
  <2>2. CASE \E k \in Keys, v \in Values : InsertPresent(k, v) \/ InsertNew(k, v)
    BY <2>2, <1>5, <1>6
  <2>3. CASE BeginRange \/ NextInBucket \/ NextBucket \/ EndRange(TRUE) \/ EndRange(FALSE) \/ UNCHANGED vars
    BY <2>3, <1>7
  <2> QED BY <2>1, <2>2, <2>3, <1>1, <1>2 DEF Next

\* The hash map implements the Go map: each operation changes the associations, and
\* answers, as the language says.
THEOREM HashMapImplementsGoMap == Spec => ImplementsGoMap
<1>1. Init => GoMapSpec!Init
  <2> SUFFICES ASSUME Init PROVE GoMapSpec!Init
    OBVIOUS
  <2>1. Live = {}
    BY NothingYet
  <2>2. Assoc = <<>>
    BY <2>1 DEF Assoc
  <2> QED BY <2>2 DEF Init, GoMapSpec!Init, Assoc
<1>2. ListInv /\ ListInv' /\ [Next]_vars => [GoMapSpec!Next]_(GoMapSpec!mapVars)
  BY Mapped
<1>3. Spec => []ListInv
  BY InvHolds, PTL
<1> QED BY <1>1, <1>2, <1>3, PTL DEF Spec, ImplementsGoMap, GoMapSpec!Spec
=============================================================================
