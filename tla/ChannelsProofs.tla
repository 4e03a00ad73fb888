--------------------------- MODULE ChannelsProofs ---------------------------
(***************************************************************************)
(* Channels for any goroutines, channels, capacities and select statements: *)
(* the types, the order of messages on a channel, and what a statement     *)
(* tells the program.                                                      *)
(***************************************************************************)
EXTENDS Channels, FiniteSetTheorems, SequenceTheorems, TLAPS

-----------------------------------------------------------------------------
\* Ranks of the receive cases ----------------------------------------------------

\* A receive case has a place of its own among the receive cases.
LEMMA PlaceType ==
  ASSUME NEW s \in Seq(Case), NEW k \in Receives(s)
  PROVE  /\ Place(s, k) \in 1 .. Cardinality(Receives(s))
         /\ Cardinality(Receives(s)) \in Nat
<1> DEFINE Upto == {j \in Receives(s) : j <= k}
<1>1. Receives(s) \subseteq 1 .. Len(s) /\ Len(s) \in Nat
  BY DEF Receives
<1>2. IsFiniteSet(1 .. Len(s))
  BY <1>1, FS_Interval
<1>3. IsFiniteSet(Receives(s))
  BY <1>1, <1>2, FS_Subset
<1>4. IsFiniteSet(Upto) /\ Cardinality(Upto) <= Cardinality(Receives(s))
  BY <1>3, FS_Subset
<1>5. Cardinality(Receives(s)) \in Nat /\ Cardinality(Upto) \in Nat
  BY <1>3, <1>4, FS_CardinalityType
<1>6. k \in Upto
  BY <1>1
<1>7. Cardinality(Upto) # 0
  BY <1>4, <1>6, FS_EmptySet
<1> QED
  BY <1>4, <1>5, <1>7 DEF Place

LEMMA PlaceGrows ==
  ASSUME NEW s \in Seq(Case), NEW j \in Receives(s), NEW k \in Receives(s), j < k
  PROVE  Place(s, j) # Place(s, k)
<1> DEFINE Upto(l) == {i \in Receives(s) : i <= l}
<1>1. Receives(s) \subseteq 1 .. Len(s) /\ Len(s) \in Nat
  BY DEF Receives
<1>2. IsFiniteSet(Upto(k))
  <2>1. IsFiniteSet(1 .. Len(s))
    BY <1>1, FS_Interval
  <2> QED
    BY <1>1, <2>1, FS_Subset
<1>3. Upto(j) \in SUBSET Upto(k)
  BY <1>1
<1>4. k \in Upto(k) /\ k \notin Upto(j)
  BY <1>1
<1>5. Upto(j) # Upto(k)
  BY <1>4
<1>6. Cardinality(Upto(k)) # Cardinality(Upto(j))
  BY <1>2, <1>3, <1>5, FS_Subset
<1> QED
  BY <1>6 DEF Place

LEMMA PlaceInjective ==
  ASSUME NEW s \in Seq(Case), NEW j \in Receives(s), NEW k \in Receives(s), Place(s, j) = Place(s, k)
  PROVE  j = k
<1>1. j \in Nat /\ k \in Nat
  BY DEF Receives
<1> QED
  BY <1>1, PlaceGrows

\* The code of go/ssa counts the receive cases up to k in its own way.
LEMMA PlaceCounted ==
  ASSUME NEW s \in Seq(Case), NEW k \in DOMAIN s
  PROVE  {j \in 1 .. k : s[j].dir = "recv"} = {j \in Receives(s) : j <= k}
BY DEF Receives

\* The tuple of a select: the index, the flag, and for every receive case its value
\* at the place where the program looks for it.
LEMMA TupleShape ==
  ASSUME NEW s \in Seq(Case), NEW chosen, NEW v, NEW ok, NEW k \in Receives(s)
  PROVE  LET r == SelectTuple(s, chosen, v, ok) IN
         r[2 + Place(s, k)] = IF k = chosen + 1 THEN Received(v, ok) ELSE Zero
<1> DEFINE n == Cardinality(Receives(s))
           Holds(j) == IF j = chosen + 1 THEN Received(v, ok) ELSE Zero
           At(p) == CHOOSE j \in Receives(s) : Place(s, j) = p
           tail == [p \in 1 .. n |-> Holds(At(p))]
           S == {chosen, ok, Received(v, ok), Zero}
<1>1. Place(s, k) \in 1 .. n /\ n \in Nat
  BY PlaceType
<1>2. At(Place(s, k)) = k
  BY PlaceInjective
<1>3. tail[Place(s, k)] = Holds(k)
  BY <1>1, <1>2
<1>4. <<chosen, ok>> \in Seq(S) /\ Len(<<chosen, ok>>) = 2
  OBVIOUS
<1>5. tail \in Seq(S) /\ Len(tail) = n
  BY <1>1
<1> HIDE DEF tail
<1>6. (<<chosen, ok>> \o tail)[2 + Place(s, k)] = tail[Place(s, k)]
  BY <1>1, <1>4, <1>5
<1> QED
  BY <1>3, <1>6 DEF SelectTuple, tail

LEMMA TupleHead ==
  ASSUME NEW s \in Seq(Case), NEW chosen, NEW v, NEW ok
  PROVE  LET r == SelectTuple(s, chosen, v, ok) IN
         /\ r[1] = chosen /\ r[2] = ok
         /\ \A p \in 3 .. Len(r) : r[p] \in {Received(v, ok), Zero}
<1> DEFINE n == Cardinality(Receives(s))
           Holds(j) == IF j = chosen + 1 THEN Received(v, ok) ELSE Zero
           At(p) == CHOOSE j \in Receives(s) : Place(s, j) = p
           tail == [p \in 1 .. n |-> Holds(At(p))]
           S == {chosen, ok, Received(v, ok), Zero}
<1>1. n \in Nat
  <2>1. Receives(s) \subseteq 1 .. Len(s) /\ Len(s) \in Nat
    BY DEF Receives
  <2>2. IsFiniteSet(1 .. Len(s))
    BY <2>1, FS_Interval
  <2>3. IsFiniteSet(Receives(s))
    BY <2>1, <2>2, FS_Subset
  <2> QED
    BY <2>3, FS_CardinalityType
<1>2. tail \in Seq(S) /\ Len(tail) = n
  BY <1>1
<1>3. \A p \in 1 .. n : tail[p] \in {Received(v, ok), Zero}
  OBVIOUS
<1> HIDE DEF tail
<1>4. (<<chosen, ok>> \o tail)[1] = chosen /\ (<<chosen, ok>> \o tail)[2] = ok
  BY <1>1, <1>2
<1>5. Len(<<chosen, ok>> \o tail) = 2 + n
  BY <1>1, <1>2
<1>6. \A p \in 3 .. 2 + n : (<<chosen, ok>> \o tail)[p] = tail[p - 2]
  BY <1>1, <1>2
<1>7. \A p \in 3 .. 2 + n : (<<chosen, ok>> \o tail)[p] \in {Received(v, ok), Zero}
  <2> HIDE DEF n, Holds
  <2>1. \A p \in 3 .. 2 + n : p - 2 \in 1 .. n
    BY <1>1
  <2> QED
    BY <1>3, <1>6, <2>1
<1> QED
  BY <1>4, <1>5, <1>7 DEF SelectTuple, tail

-----------------------------------------------------------------------------
\* Statements ---------------------------------------------------------------------

Statement ==
  [op : {"none", "send", "recv", "select"}, blocking : BOOLEAN, states : Seq(Case), n : 0 .. MaxInstr]

StatementOK(i) ==
  /\ i \in Statement
  /\ i.op \in {"send", "recv"} => i.blocking /\ \E c \in Chan \cup {NilChan} : i.states = <<[dir |-> i.op, ch |-> c]>>

\* What the program reads of case number at is that case: the state it was made from, and
\* what the host delivered.
ReadsCase(i, at, v, ok) ==
  LET o == Outcome(i, Result(i, at, v, ok)) IN
  /\ HostCases(i)[at].dir = "default" => o.case = 0 /\ ~i.blocking
  /\ HostCases(i)[at].dir # "default" =>
       o.case \in DOMAIN i.states /\ o.case # 0 /\ i.states[o.case] = HostCases(i)[at]
  /\ HostCases(i)[at].dir = "recv" => o.val = Received(v, ok) /\ o.ok = ok

LEMMA CaseDirs ==
  ASSUME NEW i, StatementOK(i), NEW k \in DOMAIN i.states
  PROVE  /\ k \in Nat \ {0}
         /\ i.states[k] \in Case
         /\ i.states[k].dir \in {"send", "recv"}
         /\ i.states[k] = [dir |-> i.states[k].dir, ch |-> i.states[k].ch]
<1>1. i.states \in Seq(Case)
  BY DEF StatementOK, Statement
<1>2. k \in 1 .. Len(i.states) /\ Len(i.states) \in Nat
  BY <1>1
<1>3. i.states[k] \in Case
  BY <1>1, <1>2, ElementOfSeq
<1> QED
  BY <1>2, <1>3 DEF Case

\* A case of the host is the default, or a state of the statement one or none places before.
LEMMA CasesOfStates ==
  ASSUME NEW i, StatementOK(i), NEW at \in DOMAIN HostCases(i)
  PROVE  /\ at \in Nat /\ Chosen(i, at) \in Int
         /\ HostCases(i)[at].dir = "default" =>
              Chosen(i, at) = -1 /\ ~i.blocking
         /\ HostCases(i)[at].dir # "default" =>
              Chosen(i, at) + 1 \in DOMAIN i.states /\ HostCases(i)[at] = i.states[Chosen(i, at) + 1]
<1>1. i.blocking \in BOOLEAN /\ i.states \in Seq(Case)
  BY DEF StatementOK, Statement
<1>2. \A k \in DOMAIN i.states : i.states[k].dir # "default"
  BY CaseDirs
<1>3. CASE i.blocking
  <2>1. HostCases(i) = i.states /\ Chosen(i, at) = at - 1
    BY <1>3 DEF HostCases, Chosen
  <2> QED
    BY <1>1, <1>2, <2>1
<1>4. CASE ~i.blocking
  <2> DEFINE d == [dir |-> "default", ch |-> NilChan]
  <2>1. HostCases(i) = <<d>> \o i.states /\ Chosen(i, at) = at - 2
    BY <1>4 DEF HostCases, Chosen
  <2>2. /\ at \in 1 .. 1 + Len(i.states) /\ Len(i.states) \in Nat
        /\ (<<d>> \o i.states)[1] = d
        /\ \A k \in 1 .. Len(i.states) : (<<d>> \o i.states)[k + 1] = i.states[k]
    <3>1. i.states \in Seq(Case \cup {d}) /\ <<d>> \in Seq(Case \cup {d}) /\ Len(<<d>>) = 1 /\ <<d>>[1] = d
      BY <1>1
    <3> HIDE DEF d
    <3> QED
      BY <2>1, <3>1
  <2>3. CASE at = 1
    BY <1>4, <2>1, <2>2, <2>3
  <2>4. CASE at # 1
    <3>1. at - 1 \in 1 .. Len(i.states) /\ at = (at - 1) + 1
      BY <2>2, <2>4
    <3>2. HostCases(i)[at] = i.states[at - 1]
      BY <2>1, <2>2, <3>1
    <3> QED
      BY <1>1, <1>2, <1>4, <2>1, <2>2, <3>1, <3>2
  <2> QED
    BY <2>3, <2>4
<1> QED
  BY <1>1, <1>3, <1>4

LEMMA ReadingSelect ==
  ASSUME NEW i, StatementOK(i), i.op = "select", NEW at \in DOMAIN HostCases(i), NEW v, NEW ok
  PROVE  ReadsCase(i, at, v, ok)
<1> DEFINE r == Result(i, at, v, ok)
           k == Chosen(i, at) + 1
<1>1. r = SelectTuple(i.states, Chosen(i, at), v, ok)
  BY DEF Result
<1>2. r[1] + 1 = k /\ r[2] = ok /\ i.states \in Seq(Case)
  BY <1>1, TupleHead DEF StatementOK, Statement
<1>3. k = 0 => k \notin DOMAIN i.states
  BY <1>2
<1>4. k \in DOMAIN i.states /\ i.states[k].dir = "recv" =>
        r[2 + Cardinality({j \in 1 .. k : i.states[j].dir = "recv"})] = Received(v, ok)
  <2> SUFFICES ASSUME k \in DOMAIN i.states, i.states[k].dir = "recv"
               PROVE  r[2 + Cardinality({j \in 1 .. k : i.states[j].dir = "recv"})] = Received(v, ok)
    OBVIOUS
  <2>1. k \in Receives(i.states)
    BY DEF Receives
  <2>2. Cardinality({j \in 1 .. k : i.states[j].dir = "recv"}) = Place(i.states, k)
    BY <1>2, PlaceCounted DEF Place
  <2> QED
    BY <1>1, <1>2, <2>1, <2>2, TupleShape
<1>5. k \in DOMAIN i.states => i.states[k].dir \in {"send", "recv"} /\ k # 0
  BY CaseDirs
<1> HIDE DEF k, r
<1>6. Outcome(i, r) =
        IF k \notin DOMAIN i.states THEN [case |-> 0, val |-> HostNil, ok |-> FALSE]
        ELSE IF i.states[k].dir = "send" THEN [case |-> k, val |-> HostNil, ok |-> FALSE]
        ELSE [case |-> k, val |-> r[2 + Cardinality({j \in 1 .. k : i.states[j].dir = "recv"})], ok |-> r[2]]
  BY <1>2 DEF Outcome
<1>7. CASE HostCases(i)[at].dir = "default"
  <2>1. k = 0 /\ ~i.blocking
    BY <1>7, CasesOfStates DEF k
  <2> QED
    BY <1>3, <1>6, <1>7, <2>1 DEF ReadsCase, r
<1>8. CASE HostCases(i)[at].dir # "default"
  <2>1. k \in DOMAIN i.states /\ HostCases(i)[at] = i.states[k]
    BY <1>8, CasesOfStates DEF k
  <2>2. CASE i.states[k].dir = "send"
    BY <1>5, <1>6, <2>1, <2>2 DEF ReadsCase, r
  <2>3. CASE i.states[k].dir = "recv"
    BY <1>2, <1>4, <1>5, <1>6, <2>1, <2>3 DEF ReadsCase, r
  <2> QED
    BY <1>5, <2>1, <2>2, <2>3
<1> QED
  BY <1>7, <1>8

LEMMA ReadingOne ==
  ASSUME NEW i, StatementOK(i), i.op \in {"send", "recv"}, NEW at \in DOMAIN HostCases(i), NEW v, NEW ok
  PROVE  ReadsCase(i, at, v, ok)
<1>1. PICK c \in Chan \cup {NilChan} : i.states = <<[dir |-> i.op, ch |-> c]>>
  BY DEF StatementOK
<1>2. i.blocking /\ HostCases(i) = i.states /\ at = 1 /\ DOMAIN i.states = {1}
  BY <1>1 DEF StatementOK, HostCases
<1>3. i.states[1].dir = i.op
  BY <1>1
<1>4. i.op = "send" => Result(i, at, v, ok) = <<>>
  BY DEF Result
<1>5. i.op = "recv" => Result(i, at, v, ok) = <<Received(v, ok), ok>>
  BY DEF Result
<1> DEFINE r == Result(i, at, v, ok)
<1> HIDE DEF r
<1>6. Outcome(i, r) =
        IF i.op = "send" THEN [case |-> 1, val |-> HostNil, ok |-> FALSE]
        ELSE [case |-> 1, val |-> r[1], ok |-> r[2]]
  BY <1>2, <1>3 DEF Outcome
<1>7. i.op = "recv" => r[1] = Received(v, ok) /\ r[2] = ok
  BY <1>5 DEF r
<1> QED
  BY <1>2, <1>3, <1>6, <1>7 DEF ReadsCase, r

LEMMA Reading ==
  ASSUME NEW i, StatementOK(i), i.op # "none", NEW at \in DOMAIN HostCases(i), NEW v, NEW ok
  PROVE  ReadsCase(i, at, v, ok)
<1>1. i.op \in {"send", "recv", "select"}
  BY DEF StatementOK, Statement
<1> QED
  BY <1>1, ReadingSelect, ReadingOne

\* The values in a register are messages or the zero value.
LEMMA RegisterValues ==
  ASSUME NEW i, StatementOK(i), i.op # "none", NEW at \in DOMAIN HostCases(i), NEW v,
         NEW ok \in BOOLEAN, ok => v \in Message
  PROVE  LET r == Result(i, at, v, ok) IN
         r # <<>> => \A k \in ValuesIn(i, r) : r[k] \in {Zero} \cup Message
<1>1. Received(v, ok) \in {Zero} \cup Message
  BY DEF Received
<1>2. CASE i.op = "send"
  <2>1. Result(i, at, v, ok) = <<>>
    BY <1>2 DEF Result
  <2> QED
    BY <2>1
<1>3. CASE i.op = "recv"
  <2>1. Result(i, at, v, ok) = <<Received(v, ok), ok>>
    BY <1>3 DEF Result
  <2> QED
    BY <1>1, <1>3, <2>1 DEF ValuesIn
<1>4. CASE i.op = "select"
  <2>1. Result(i, at, v, ok) = SelectTuple(i.states, Chosen(i, at), v, ok)
    BY <1>4 DEF Result
  <2>2. i.states \in Seq(Case)
    BY DEF StatementOK, Statement
  <2> QED
    BY <1>1, <1>4, <2>1, <2>2, TupleHead DEF ValuesIn
<1> QED
  BY <1>2, <1>3, <1>4 DEF StatementOK, Statement

LEMMA OneMessage == \A x \in Message : <<x>> \in Seq(Message)
  OBVIOUS

LEMMA ConcatMessages == \A s, t \in Seq(Message) : s \o t \in Seq(Message)
  BY ConcatProperties

\* What the histories get of a statement is the message that moved.
LEMMA HistoriesOfCase ==
  ASSUME NEW i, StatementOK(i), i.op # "none", NEW at \in DOMAIN HostCases(i), NEW v,
         NEW ok \in BOOLEAN, NEW c \in Chan
  PROVE  LET o == Outcome(i, Result(i, at, v, ok)) IN
         /\ SentBy(i, o, c) =
              IF HostCases(i)[at].dir = "send" /\ HostCases(i)[at].ch = c THEN <<i.n>> ELSE <<>>
         /\ GotBy(i, o, c) =
              IF HostCases(i)[at].dir = "recv" /\ HostCases(i)[at].ch = c /\ ok THEN <<v>> ELSE <<>>
<1> DEFINE o == Outcome(i, Result(i, at, v, ok))
<1>1. ReadsCase(i, at, v, ok)
  BY Reading
<1>2. CASE HostCases(i)[at].dir = "default"
  <2>1. o.case = 0
    BY <1>1, <1>2 DEF ReadsCase
  <2> QED
    BY <1>2, <2>1 DEF SentBy, GotBy
<1>3. CASE HostCases(i)[at].dir # "default"
  <2>1. o.case \in DOMAIN i.states /\ o.case # 0 /\ i.states[o.case] = HostCases(i)[at]
    BY <1>1, <1>3 DEF ReadsCase
  <2>2. /\ HostCases(i)[at].dir \in {"send", "recv"}
        /\ HostCases(i)[at] = [dir |-> HostCases(i)[at].dir, ch |-> HostCases(i)[at].ch]
    BY <2>1, CaseDirs
  <2>3. HostCases(i)[at].dir = "recv" => o.val = Received(v, ok) /\ o.ok = ok
    BY <1>1 DEF ReadsCase
  <2> HIDE DEF o
  <2>4. \A d \in {"send", "recv"} :
          i.states[o.case] = [dir |-> d, ch |-> c] <=> HostCases(i)[at].dir = d /\ HostCases(i)[at].ch = c
    BY <2>1, <2>2
  <2>5. SentBy(i, o, c) =
          IF HostCases(i)[at].dir = "send" /\ HostCases(i)[at].ch = c THEN <<i.n>> ELSE <<>>
    BY <2>1, <2>4 DEF SentBy
  <2>6. GotBy(i, o, c) =
          IF HostCases(i)[at].dir = "recv" /\ HostCases(i)[at].ch = c /\ ok THEN <<v>> ELSE <<>>
    BY <2>1, <2>3, <2>4 DEF GotBy, Received
  <2> QED
    BY <2>5, <2>6 DEF o
<1> QED
  BY <1>2, <1>3

LEMMA HistoryTypes ==
  ASSUME NEW i, StatementOK(i), i.op # "none", i.n \in Message, NEW at \in DOMAIN HostCases(i), NEW v,
         NEW ok \in BOOLEAN, ok => v \in Message, NEW c \in Chan
  PROVE  LET o == Outcome(i, Result(i, at, v, ok)) IN
         SentBy(i, o, c) \in Seq(Message) /\ GotBy(i, o, c) \in Seq(Message)
<1>1. <<i.n>> \in Seq(Message) /\ <<>> \in Seq(Message)
  BY OneMessage, EmptySeq
<1>2. ok => <<v>> \in Seq(Message)
  BY OneMessage
<1> QED
  BY <1>1, <1>2, HistoriesOfCase

-----------------------------------------------------------------------------
\* The inductive invariant ----------------------------------------------------------

ChansOK == DOMAIN chan = Chan /\ \A c \in Chan : ChanOK(c)
InstrOK ==
  /\ instr \in [Goroutine -> Statement]
  /\ \A g \in Goroutine :
       /\ StatementOK(instr[g]) /\ instr[g].n \in 0 .. count
       /\ pc[g] = "parked" => instr[g].op # "none" /\ instr[g].n \in Message
RegOK ==
  /\ DOMAIN reg = Goroutine
  /\ \A g \in Goroutine : reg[g] # <<>> =>
       \A k \in ValuesIn(instr[g], reg[g]) : reg[g][k] \in {Zero} \cup Message
PcOK == pc \in [Goroutine -> {"unborn", "running", "parked", "panicking", "ended"}]
BoundsOK == count \in 0 .. MaxInstr /\ host \in {"up", "down"}
HistoryOK == \A c \in Chan : sent[c] \in Seq(Message) /\ got[c] \in Seq(Message)

\* The types, with the form of each statement, which TypeOK leaves out.
Shape == ChansOK /\ InstrOK /\ RegOK /\ PcOK /\ BoundsOK /\ HistoryOK

LEMMA ShapeImpliesTypeOK == Shape => TypeOK
BY DEF Shape, ChansOK, InstrOK, RegOK, PcOK, BoundsOK, HistoryOK, TypeOK, Statement

LEMMA InitShape == Init => Shape /\ InOrder
<1> SUFFICES ASSUME Init PROVE Shape /\ InOrder
  OBVIOUS
<1> USE DEF Init
<1>1. ChansOK
  <2> SUFFICES ASSUME NEW c \in Chan PROVE ChanOK(c)
    BY DEF ChansOK
  <2>1. chan[c] = [cap |-> Cap[c], buf |-> <<>>, closed |-> FALSE] /\ Cap[c] \in Nat
    BY ChannelsAssumption DEF NewChan
  <2>2. chan[c].buf = <<>> /\ <<>> \in Seq(Message) /\ Len(<<>>) = 0
    BY <2>1, EmptySeq
  <2>3. chan[c].cap = Cap[c] /\ chan[c].closed = FALSE
    <3> HIDE DEF Init
    <3> QED
      BY <2>1
  <2>4. DOMAIN [cap |-> Cap[c], buf |-> <<>>, closed |-> FALSE] = {"cap", "buf", "closed"}
    OBVIOUS
  <2>5. DOMAIN chan[c] = {"cap", "buf", "closed"}
    BY <2>1, <2>4
  <2>6. Len(chan[c].buf) <= chan[c].cap
    BY <2>1, <2>2
  <2> QED
    BY <2>2, <2>3, <2>5, <2>6 DEF ChanOK
<1>2. InstrOK
  BY ChannelsAssumption, EmptySeq DEF InstrOK, StatementOK, Statement, NoInstr, Instr
<1>3. RegOK /\ PcOK /\ BoundsOK
  BY ChannelsAssumption DEF RegOK, PcOK, BoundsOK
<1>4. HistoryOK
  BY EmptySeq DEF HistoryOK
<1>5. InOrder
  BY ChannelsAssumption, ConcatEmptySeq DEF InOrder, NewChan
<1> QED
  BY <1>1, <1>2, <1>3, <1>4, <1>5 DEF Shape

-----------------------------------------------------------------------------
\* Steps of the host: what a goroutine's statement does to the registers and histories --------

LEMMA DeliverShape ==
  ASSUME Shape, NEW g \in Goroutine, pc[g] = "parked", NEW at \in Cases(g), NEW v, NEW ok \in BOOLEAN,
         ok => v \in Message, Deliver(g, at, v, ok), UNCHANGED <<instr, count, host>>
  PROVE  InstrOK' /\ RegOK' /\ PcOK' /\ BoundsOK' /\ HistoryOK'
<1>1. StatementOK(instr[g]) /\ instr[g].op # "none" /\ instr[g].n \in Message /\ at \in DOMAIN HostCases(instr[g])
  BY DEF Shape, InstrOK, Cases
<1> DEFINE r == Result(instr[g], at, v, ok)
           o == Outcome(instr[g], r)
<1>2. /\ reg' = [reg EXCEPT ![g] = r]
      /\ pc' = [pc EXCEPT ![g] = "running"]
      /\ \A c \in Chan : sent'[c] = sent[c] \o SentBy(instr[g], o, c) /\ got'[c] = got[c] \o GotBy(instr[g], o, c)
  BY DEF Deliver
<1>3. r # <<>> => \A k \in ValuesIn(instr[g], r) : r[k] \in {Zero} \cup Message
  BY <1>1, RegisterValues
<1>4. \A c \in Chan : SentBy(instr[g], o, c) \in Seq(Message) /\ GotBy(instr[g], o, c) \in Seq(Message)
  BY <1>1, HistoryTypes
<1> HIDE DEF r, o
<1>5. InstrOK'
  BY <1>2 DEF Shape, InstrOK, PcOK
<1>6. RegOK'
  BY <1>2, <1>3 DEF Shape, RegOK
<1>7. PcOK' /\ BoundsOK'
  BY <1>2 DEF Shape, PcOK, BoundsOK
<1>8. HistoryOK'
  BY <1>2, <1>4, ConcatMessages DEF Shape, HistoryOK
<1> QED
  BY <1>5, <1>6, <1>7, <1>8

LEMMA HandOverShape ==
  ASSUME Shape, NEW g \in Goroutine, NEW at \in Cases(g), NEW h \in Goroutine, NEW to \in Cases(h),
         HandOver(g, at, h, to)
  PROVE  Shape'
<1>1. /\ StatementOK(instr[g]) /\ instr[g].op # "none" /\ instr[g].n \in Message /\ at \in DOMAIN HostCases(instr[g])
      /\ StatementOK(instr[h]) /\ instr[h].op # "none" /\ to \in DOMAIN HostCases(instr[h])
  BY DEF Shape, InstrOK, Cases, HandOver, Meet, Waits
<1> DEFINE rg == Result(instr[g], at, HostNil, FALSE)
           rh == Result(instr[h], to, instr[g].n, TRUE)
           og == Outcome(instr[g], rg)
           oh == Outcome(instr[h], rh)
<1>2. /\ reg' = [reg EXCEPT ![g] = rg, ![h] = rh]
      /\ pc' = [pc EXCEPT ![g] = "running", ![h] = "running"]
      /\ \A c \in Chan : /\ sent'[c] = sent[c] \o SentBy(instr[g], og, c) \o SentBy(instr[h], oh, c)
                          /\ got'[c] = got[c] \o GotBy(instr[g], og, c) \o GotBy(instr[h], oh, c)
      /\ UNCHANGED <<chan, instr, count, host>>
  BY DEF HandOver
<1>3. /\ rg # <<>> => \A k \in ValuesIn(instr[g], rg) : rg[k] \in {Zero} \cup Message
      /\ rh # <<>> => \A k \in ValuesIn(instr[h], rh) : rh[k] \in {Zero} \cup Message
  BY <1>1, RegisterValues
<1>4. \A c \in Chan : /\ SentBy(instr[g], og, c) \in Seq(Message) /\ GotBy(instr[g], og, c) \in Seq(Message)
                      /\ SentBy(instr[h], oh, c) \in Seq(Message) /\ GotBy(instr[h], oh, c) \in Seq(Message)
  <2> TAKE c \in Chan
  <2>1. SentBy(instr[g], og, c) \in Seq(Message) /\ GotBy(instr[g], og, c) \in Seq(Message)
    BY <1>1, HistoryTypes
  <2>2. instr[h].n \in Message
    BY DEF Shape, InstrOK, HandOver, Meet, Waits
  <2>3. SentBy(instr[h], oh, c) \in Seq(Message) /\ GotBy(instr[h], oh, c) \in Seq(Message)
    BY <1>1, <2>2, HistoryTypes
  <2> QED
    BY <2>1, <2>3
<1> HIDE DEF rg, rh, og, oh
<1>5. InstrOK'
  BY <1>2 DEF Shape, InstrOK, PcOK
<1>6. RegOK'
  BY <1>2, <1>3 DEF Shape, RegOK
<1>7. PcOK' /\ BoundsOK' /\ ChansOK'
  BY <1>2 DEF Shape, PcOK, BoundsOK, ChansOK, ChanOK
<1>8. HistoryOK'
  <2> SUFFICES ASSUME NEW c \in Chan PROVE sent'[c] \in Seq(Message) /\ got'[c] \in Seq(Message)
    BY DEF HistoryOK
  <2>1. sent[c] \in Seq(Message) /\ got[c] \in Seq(Message)
    BY DEF Shape, HistoryOK
  <2>2. sent[c] \o SentBy(instr[g], og, c) \in Seq(Message) /\ got[c] \o GotBy(instr[g], og, c) \in Seq(Message)
    BY <1>4, <2>1, ConcatMessages
  <2>3. sent[c] \o SentBy(instr[g], og, c) \o SentBy(instr[h], oh, c) \in Seq(Message)
    BY <1>4, <2>2, ConcatMessages
  <2>4. got[c] \o GotBy(instr[g], og, c) \o GotBy(instr[h], oh, c) \in Seq(Message)
    BY <1>4, <2>2, ConcatMessages
  <2> QED
    BY <1>2, <2>3, <2>4
<1> QED
  BY <1>5, <1>6, <1>7, <1>8 DEF Shape

LEMMA OneCase ==
  \A d \in {"send", "recv"}, c \in Chan \cup {NilChan} : <<[dir |-> d, ch |-> c]>> \in Seq(Case)
BY DEF Case

\* A channel whose buffer changes within its capacity is still a channel.
LEMMA BufferChanges ==
  ASSUME ChansOK, NEW c \in Chan, NEW b \in Seq(Message), Len(b) <= chan[c].cap,
         chan' = [chan EXCEPT ![c].buf = b]
  PROVE  /\ ChansOK'
         /\ chan'[c].buf = b
         /\ \A d \in Chan \ {c} : chan'[d] = chan[d]
<1>1. DOMAIN chan' = Chan /\ chan'[c] = [chan[c] EXCEPT !.buf = b] /\ \A d \in Chan \ {c} : chan'[d] = chan[d]
  BY DEF ChansOK
<1>2. ChanOK(c)
  BY DEF ChansOK
<1>3. DOMAIN chan'[c] = DOMAIN chan[c]
  BY <1>1
<1>4. chan'[c].buf = b /\ chan'[c].cap = chan[c].cap /\ chan'[c].closed = chan[c].closed
  BY <1>1, <1>2 DEF ChanOK
<1>5. ChanOK(c)'
  BY <1>2, <1>3, <1>4 DEF ChanOK
<1>6. \A d \in Chan \ {c} : ChanOK(d)'
  BY <1>1 DEF ChansOK, ChanOK
<1> QED
  BY <1>1, <1>4, <1>5, <1>6 DEF ChansOK

LEMMA NextShape ==
  ASSUME Shape, NEW g \in Goroutine, Acts(g) \/ GoesOn(g)
  PROVE  Shape'
<1> USE DEF Shape
<1>1. ASSUME NEW op \in {"send", "recv", "select"}, NEW blocking \in BOOLEAN, NEW states \in Seq(Case),
             op \in {"send", "recv"} => blocking /\ \E c \in Chan \cup {NilChan} : states = <<[dir |-> op, ch |-> c]>>,
             Issue(g, op, blocking, states)
      PROVE  Shape'
  <2> DEFINE i == Instr(op, blocking, states, count + 1)
  <2>1. count + 1 \in Message /\ count + 1 \in 0 .. MaxInstr
    BY <1>1, ChannelsAssumption DEF Issue, BoundsOK, Message
  <2>2. StatementOK(i) /\ i.op # "none" /\ i.n = count + 1
    BY <1>1, <2>1 DEF StatementOK, Statement, Instr
  <2>3. i \in Statement
    BY <2>2 DEF StatementOK
  <2> HIDE DEF i
  <2>4. instr' = [instr EXCEPT ![g] = i] /\ reg' = [reg EXCEPT ![g] = <<>>] /\ pc' = [pc EXCEPT ![g] = "parked"]
        /\ count' = count + 1 /\ UNCHANGED <<chan, host, sent, got>>
    BY <1>1 DEF Issue, i
  <2>5. InstrOK'
    BY <2>1, <2>2, <2>3, <2>4 DEF InstrOK, PcOK, BoundsOK
  <2>6. RegOK'
    BY <2>4 DEF RegOK, InstrOK
  <2> QED
    BY <2>1, <2>4, <2>5, <2>6 DEF ChansOK, ChanOK, PcOK, BoundsOK, HistoryOK
<1>2. ASSUME NEW c \in Chan \cup {NilChan}, Send(g, c)
      PROVE  Shape'
  <2>1. <<[dir |-> "send", ch |-> c]>> \in Seq(Case)
    BY OneCase
  <2> QED
    BY <1>1, <1>2, <2>1 DEF Send
<1>3. ASSUME NEW c \in Chan \cup {NilChan}, Receive(g, c)
      PROVE  Shape'
  <2>1. <<[dir |-> "recv", ch |-> c]>> \in Seq(Case)
    BY OneCase
  <2> QED
    BY <1>1, <1>3, <2>1 DEF Receive
<1>4. ASSUME NEW s \in Selects, Select(g, s)
      PROVE  Shape'
  <2>1. s.blocking \in BOOLEAN /\ s.states \in Seq(Case)
    BY ChannelsAssumption
  <2> QED
    BY <1>1, <1>4, <2>1 DEF Select
<1>5. ASSUME NEW c \in Chan \cup {NilChan}, Close(g, c)
      PROVE  Shape'
  <2>1. count' \in 0 .. MaxInstr /\ \A n \in 0 .. count : n \in 0 .. count'
    BY <1>5, ChannelsAssumption DEF Close, BoundsOK
  <2>2. ChansOK'
    BY <1>5 DEF Close, ChansOK, ChanOK
  <2>3. InstrOK'
    BY <1>5, <2>1 DEF Close, InstrOK, PcOK
  <2> QED
    BY <1>5, <2>1, <2>2, <2>3 DEF Close, RegOK, PcOK, BoundsOK, HistoryOK
<1>6. CASE Go(g) \/ Returns(g) \/ Recovers(g) \/ Dies(g)
  <2>1. /\ UNCHANGED <<chan, instr, reg, count, sent, got>>
        /\ host' \in {"up", "down"}
        /\ \E h \in Goroutine : \E p \in {"running", "ended"} : pc' = [pc EXCEPT ![h] = p]
    <3>1. CASE Go(g)
      <4>1. (CHOOSE h \in Unborn : TRUE) \in Goroutine
        BY <3>1 DEF Go, Unborn
      <4> QED
        BY <3>1, <4>1 DEF Go, BoundsOK
    <3> QED
      BY <1>6, <3>1 DEF Returns, Recovers, Dies, BoundsOK
  <2> QED
    BY <2>1 DEF ChansOK, ChanOK, InstrOK, RegOK, PcOK, BoundsOK, HistoryOK
<1>7. ASSUME NEW at \in Cases(g), TakesCase(g, at)
      PROVE  Shape'
  <2>1. CASE Put(g, at)
    <3>1. instr[g].n \in Message /\ Ch(g, at) \in Chan /\ pc[g] = "parked"
      BY <2>1 DEF Put, Waits, InstrOK
    <3> DEFINE b == chan[Ch(g, at)].buf
    <3>2. b \in Seq(Message) /\ Len(b) < chan[Ch(g, at)].cap
          /\ chan' = [chan EXCEPT ![Ch(g, at)].buf = Append(b, instr[g].n)]
          /\ chan[Ch(g, at)].cap \in Nat
      BY <2>1, <3>1, ChannelsAssumption DEF Put, ChansOK, ChanOK
    <3> HIDE DEF b
    <3>3. Append(b, instr[g].n) \in Seq(Message) /\ Len(Append(b, instr[g].n)) <= chan[Ch(g, at)].cap
      BY <3>1, <3>2, AppendProperties
    <3>4. ChansOK'
      BY <3>1, <3>2, <3>3, BufferChanges
    <3> QED
      BY <2>1, <3>1, <3>4, DeliverShape DEF Put
  <2>2. CASE Take(g, at)
    <3> DEFINE b == chan[Ch(g, at)].buf
    <3>1. Ch(g, at) \in Chan /\ pc[g] = "parked" /\ b \in Seq(Message) /\ b # <<>>
      BY <2>2 DEF Take, Waits, ChansOK, ChanOK
    <3>2. Head(b) \in Message /\ Tail(b) \in Seq(Message) /\ Len(Tail(b)) = Len(b) - 1
      BY <3>1, HeadTailProperties
    <3>3. Len(Tail(b)) <= chan[Ch(g, at)].cap
      <4>1. Len(b) <= chan[Ch(g, at)].cap /\ chan[Ch(g, at)].cap \in Nat /\ Len(b) \in Nat
        BY <3>1, ChannelsAssumption DEF ChansOK, ChanOK
      <4> QED
        BY <3>2, <4>1
    <3>6. chan' = [chan EXCEPT ![Ch(g, at)].buf = Tail(b)]
      BY <2>2 DEF Take
    <3>4. Deliver(g, at, Head(b), TRUE) /\ UNCHANGED <<instr, count, host>>
      BY <2>2 DEF Take
    <3> HIDE DEF b
    <3>5. ChansOK'
      BY <3>1, <3>2, <3>3, <3>6, BufferChanges
    <3> QED
      BY <3>1, <3>2, <3>4, <3>5, DeliverShape
  <2>3. CASE TakeClosed(g, at) \/ Default(g, at)
    <3>1. pc[g] = "parked" /\ Deliver(g, at, HostNil, FALSE) /\ UNCHANGED <<chan, instr, count, host>>
      BY <2>3 DEF TakeClosed, Default, Waits
    <3>2. ChansOK'
      BY <3>1 DEF ChansOK, ChanOK
    <3> QED
      BY <3>1, <3>2, DeliverShape
  <2>4. CASE SendPanics(g, at)
    BY <2>4 DEF SendPanics, ChansOK, ChanOK, InstrOK, RegOK, PcOK, BoundsOK, HistoryOK
  <2> QED
    BY <1>7, <2>1, <2>2, <2>3, <2>4 DEF TakesCase
<1>8. CASE Meets(g)
  BY <1>8, HandOverShape DEF Meets
<1> QED
  BY <1>2, <1>3, <1>4, <1>5, <1>6, <1>7, <1>8 DEF Acts, GoesOn

\* Every channel, goroutine, statement and history keeps its shape.
THEOREM TypeCorrect == Spec => []TypeOK
<1>1. Init => Shape
  BY InitShape
<1>2. Shape /\ [Next]_vars => Shape'
  <2> SUFFICES ASSUME Shape, [Next]_vars PROVE Shape'
    OBVIOUS
  <2>1. CASE Next
    BY <2>1, NextShape DEF Next
  <2>2. CASE UNCHANGED vars
    BY <2>2 DEF vars, Shape, ChansOK, ChanOK, InstrOK, RegOK, PcOK, BoundsOK, HistoryOK
  <2> QED
    BY <2>1, <2>2
<1>3. Shape => TypeOK
  BY ShapeImpliesTypeOK
<1> QED
  BY <1>1, <1>2, <1>3, PTL DEF Spec

-----------------------------------------------------------------------------
\* The order of messages --------------------------------------------------------------

LEMMA PutKeepsOrder ==
  ASSUME NEW s \in Seq(Message), NEW t \in Seq(Message), NEW m \in Message
  PROVE  (s \o t) \o <<m>> = s \o Append(t, m)
<1>1. <<m>> \in Seq(Message)
  BY OneMessage
<1>2. Append(t, m) = t \o <<m>>
  BY AppendIsConcat
<1> QED
  BY <1>1, <1>2, ConcatAssociative

LEMMA HeadThenTail ==
  ASSUME NEW t \in Seq(Message), t # <<>>
  PROVE  t = <<Head(t)>> \o Tail(t)
<1>0. Head(t) \in Message /\ Tail(t) \in Seq(Message) /\ <<Head(t)>> \in Seq(Message)
  BY HeadTailProperties, OneMessage
<1>1. Len(t) \in Nat \ {0} /\ Len(Tail(t)) = Len(t) - 1 /\ Head(t) = t[1]
      /\ \A i \in 1 .. Len(Tail(t)) : Tail(t)[i] = t[i + 1]
  BY HeadTailProperties, EmptySeq
<1> DEFINE h == <<Head(t)>>
           u == Tail(t)
<1>2. Len(h) = 1 /\ h[1] = t[1] /\ h \in Seq(Message) /\ u \in Seq(Message)
  BY <1>0, <1>1
<1>3. Len(u) = Len(t) - 1 /\ \A i \in 1 .. Len(u) : u[i] = t[i + 1]
  BY <1>1
<1> HIDE DEF h, u
<1>4. /\ h \o u \in Seq(Message) /\ Len(h \o u) = 1 + Len(u) /\ (h \o u)[1] = h[1]
      /\ \A i \in 1 .. Len(u) : (h \o u)[i + 1] = u[i]
  <2>1. Len(h) \in Nat /\ Len(u) \in Nat
    BY <1>2, LenProperties
  <2>2. h \o u \in Seq(Message) /\ Len(h \o u) = Len(h) + Len(u)
    BY <1>2, ConcatProperties
  <2>3. \A i \in 1 .. Len(h) + Len(u) : (h \o u)[i] = IF i <= Len(h) THEN h[i] ELSE u[i - Len(h)]
    BY <1>2, ConcatProperties
  <2>4. \A i \in 1 .. 1 + Len(u) : (h \o u)[i] = IF i <= 1 THEN h[i] ELSE u[i - 1]
    BY <1>2, <2>3
  <2>5. ASSUME NEW i \in 1 .. Len(u) PROVE (h \o u)[i + 1] = u[i]
    <3>1. i + 1 \in 1 .. 1 + Len(u) /\ ~(i + 1 <= 1) /\ (i + 1) - 1 = i
      BY <2>1
    <3> QED
      BY <2>4, <3>1
  <2> QED
    BY <1>2, <2>1, <2>2, <2>4, <2>5
<1>5. ASSUME NEW i \in 1 .. Len(t) PROVE (h \o u)[i] = t[i]
  <2>1. CASE i = 1
    BY <1>2, <1>4, <2>1
  <2>2. CASE i # 1
    <3>1. i - 1 \in 1 .. Len(u) /\ i = (i - 1) + 1
      BY <1>1, <1>3, <2>2
    <3>2. (h \o u)[(i - 1) + 1] = u[i - 1] /\ u[i - 1] = t[(i - 1) + 1]
      BY <1>3, <1>4, <3>1
    <3> QED
      BY <3>1, <3>2
  <2> QED
    BY <2>1, <2>2
<1>6. Len(h \o u) = Len(t)
  BY <1>1, <1>3, <1>4
<1>7. h \o u = t
  BY <1>4, <1>5, <1>6, SeqEqual
<1> QED
  BY <1>7 DEF h, u

LEMMA TakeKeepsOrder ==
  ASSUME NEW s \in Seq(Message), NEW t \in Seq(Message), t # <<>>
  PROVE  (s \o <<Head(t)>>) \o Tail(t) = s \o t
<1>1. Head(t) \in Message /\ Tail(t) \in Seq(Message) /\ <<Head(t)>> \in Seq(Message)
  BY HeadTailProperties, OneMessage
<1>2. t = <<Head(t)>> \o Tail(t)
  BY HeadThenTail
<1> QED
  BY <1>1, <1>2, ConcatAssociative

\* What a step of the host adds to the histories of a channel.
LEMMA DeliverAdds ==
  ASSUME Shape, NEW g \in Goroutine, pc[g] = "parked", NEW at \in Cases(g), NEW v, NEW ok \in BOOLEAN,
         Deliver(g, at, v, ok), NEW c \in Chan
  PROVE  /\ sent'[c] = IF Dir(g, at) = "send" /\ Ch(g, at) = c THEN sent[c] \o <<instr[g].n>> ELSE sent[c]
         /\ got'[c] = IF Dir(g, at) = "recv" /\ Ch(g, at) = c /\ ok THEN got[c] \o <<v>> ELSE got[c]
<1>1. StatementOK(instr[g]) /\ instr[g].op # "none" /\ at \in DOMAIN HostCases(instr[g])
  BY DEF Shape, InstrOK, Cases
<1> DEFINE o == Outcome(instr[g], Result(instr[g], at, v, ok))
<1>2. sent'[c] = sent[c] \o SentBy(instr[g], o, c) /\ got'[c] = got[c] \o GotBy(instr[g], o, c)
  BY DEF Deliver
<1>3. sent[c] \o <<>> = sent[c] /\ got[c] \o <<>> = got[c]
  BY ConcatEmptySeq DEF Shape, HistoryOK
<1>4. /\ SentBy(instr[g], o, c) = IF Dir(g, at) = "send" /\ Ch(g, at) = c THEN <<instr[g].n>> ELSE <<>>
      /\ GotBy(instr[g], o, c) = IF Dir(g, at) = "recv" /\ Ch(g, at) = c /\ ok THEN <<v>> ELSE <<>>
  BY <1>1, HistoriesOfCase DEF Dir, Ch
<1> QED
  BY <1>2, <1>3, <1>4

LEMMA HandOverAdds ==
  ASSUME Shape, NEW g \in Goroutine, NEW at \in Cases(g), NEW h \in Goroutine, NEW to \in Cases(h),
         HandOver(g, at, h, to), NEW c \in Chan
  PROVE  /\ sent'[c] = IF Ch(g, at) = c THEN sent[c] \o <<instr[g].n>> ELSE sent[c]
         /\ got'[c] = IF Ch(g, at) = c THEN got[c] \o <<instr[g].n>> ELSE got[c]
<1>1. /\ StatementOK(instr[g]) /\ instr[g].op # "none" /\ at \in DOMAIN HostCases(instr[g])
      /\ StatementOK(instr[h]) /\ instr[h].op # "none" /\ to \in DOMAIN HostCases(instr[h])
      /\ instr[g].n \in Message
  BY DEF Shape, InstrOK, Cases, HandOver, Meet, Waits
<1>2. Dir(g, at) = "send" /\ Dir(h, to) = "recv" /\ Ch(g, at) = Ch(h, to)
  BY DEF HandOver, Meet
<1> DEFINE og == Outcome(instr[g], Result(instr[g], at, HostNil, FALSE))
           oh == Outcome(instr[h], Result(instr[h], to, instr[g].n, TRUE))
<1>3. /\ sent'[c] = sent[c] \o SentBy(instr[g], og, c) \o SentBy(instr[h], oh, c)
      /\ got'[c] = got[c] \o GotBy(instr[g], og, c) \o GotBy(instr[h], oh, c)
  BY DEF HandOver
<1>4. /\ SentBy(instr[g], og, c) = IF Ch(g, at) = c THEN <<instr[g].n>> ELSE <<>>
      /\ GotBy(instr[g], og, c) = <<>>
  BY <1>1, <1>2, HistoriesOfCase DEF Dir, Ch
<1>5. /\ SentBy(instr[h], oh, c) = <<>>
      /\ GotBy(instr[h], oh, c) = IF Ch(g, at) = c THEN <<instr[g].n>> ELSE <<>>
  BY <1>1, <1>2, HistoriesOfCase DEF Dir, Ch
<1>6. sent[c] \in Seq(Message) /\ got[c] \in Seq(Message) /\ <<instr[g].n>> \in Seq(Message)
  BY <1>1, OneMessage DEF Shape, HistoryOK
<1>7. sent[c] \o <<instr[g].n>> \in Seq(Message) /\ got[c] \o <<instr[g].n>> \in Seq(Message)
  BY <1>6, ConcatMessages
<1> HIDE DEF og, oh
<1>8. /\ sent[c] \o <<>> = sent[c] /\ got[c] \o <<>> = got[c]
      /\ (sent[c] \o <<instr[g].n>>) \o <<>> = sent[c] \o <<instr[g].n>>
  BY <1>6, <1>7, ConcatEmptySeq
<1> QED
  BY <1>3, <1>4, <1>5, <1>8

LEMMA NextOrder ==
  ASSUME Shape, InOrder, NEW g \in Goroutine, Acts(g) \/ GoesOn(g)
  PROVE  InOrder'
<1> SUFFICES ASSUME NEW c \in Chan PROVE sent'[c] = got'[c] \o chan'[c].buf
  BY DEF InOrder
<1>1. /\ sent[c] = got[c] \o chan[c].buf
      /\ sent[c] \in Seq(Message) /\ got[c] \in Seq(Message) /\ chan[c].buf \in Seq(Message)
  BY DEF Shape, HistoryOK, ChansOK, ChanOK, InOrder
<1>2. CASE Acts(g)
  <2>1. UNCHANGED <<sent, got>> /\ chan'[c].buf = chan[c].buf
    <3>1. ASSUME NEW d \in Chan \cup {NilChan}, Close(g, d) PROVE chan'[c].buf = chan[c].buf
      BY <3>1 DEF Close, Shape, ChansOK, ChanOK
    <3> QED
      BY <1>2, <3>1 DEF Acts, Send, Receive, Select, Issue, Close, Go, Returns, Recovers, Dies
  <2> QED
    BY <1>1, <2>1
<1>3. ASSUME NEW at \in Cases(g), Put(g, at) PROVE sent'[c] = got'[c] \o chan'[c].buf
  <2>1. /\ pc[g] = "parked" /\ Dir(g, at) = "send" /\ Ch(g, at) \in Chan /\ instr[g].n \in Message
        /\ Deliver(g, at, HostNil, FALSE)
        /\ chan' = [chan EXCEPT ![Ch(g, at)].buf = Append(chan[Ch(g, at)].buf, instr[g].n)]
    BY <1>3 DEF Put, Waits, Shape, InstrOK
  <2>2. chan'[c].buf = IF c = Ch(g, at) THEN Append(chan[c].buf, instr[g].n) ELSE chan[c].buf
    BY <2>1 DEF Shape, ChansOK, ChanOK
  <2>3. /\ sent'[c] = IF Ch(g, at) = c THEN sent[c] \o <<instr[g].n>> ELSE sent[c]
        /\ got'[c] = got[c]
    BY <2>1, DeliverAdds
  <2> QED
    <3>1. CASE c = Ch(g, at)
      <4>1. (got[c] \o chan[c].buf) \o <<instr[g].n>> = got[c] \o Append(chan[c].buf, instr[g].n)
        BY <1>1, <2>1, PutKeepsOrder
      <4> QED
        BY <1>1, <2>2, <2>3, <3>1, <4>1
    <3>2. CASE c # Ch(g, at)
      BY <1>1, <2>2, <2>3, <3>2
    <3> QED
      BY <3>1, <3>2
<1>4. ASSUME NEW at \in Cases(g), Take(g, at) PROVE sent'[c] = got'[c] \o chan'[c].buf
  <2>1. /\ pc[g] = "parked" /\ Dir(g, at) = "recv" /\ Ch(g, at) \in Chan
        /\ chan[Ch(g, at)].buf # <<>>
        /\ Deliver(g, at, Head(chan[Ch(g, at)].buf), TRUE)
        /\ chan' = [chan EXCEPT ![Ch(g, at)].buf = Tail(chan[Ch(g, at)].buf)]
    BY <1>4 DEF Take, Waits
  <2>2. chan'[c].buf = IF c = Ch(g, at) THEN Tail(chan[c].buf) ELSE chan[c].buf
    BY <2>1 DEF Shape, ChansOK, ChanOK
  <2>3. /\ sent'[c] = sent[c]
        /\ got'[c] = IF Ch(g, at) = c THEN got[c] \o <<Head(chan[c].buf)>> ELSE got[c]
    BY <2>1, DeliverAdds
  <2> QED
    <3>1. CASE c = Ch(g, at)
      <4>1. (got[c] \o <<Head(chan[c].buf)>>) \o Tail(chan[c].buf) = got[c] \o chan[c].buf
        BY <1>1, <2>1, <3>1, TakeKeepsOrder
      <4> QED
        BY <1>1, <2>2, <2>3, <3>1, <4>1
    <3>2. CASE c # Ch(g, at)
      BY <1>1, <2>2, <2>3, <3>2
    <3> QED
      BY <3>1, <3>2
<1>5. ASSUME NEW at \in Cases(g), TakeClosed(g, at) \/ Default(g, at) PROVE sent'[c] = got'[c] \o chan'[c].buf
  <2>1. pc[g] = "parked" /\ Dir(g, at) \in {"recv", "default"} /\ Deliver(g, at, HostNil, FALSE) /\ UNCHANGED chan
    BY <1>5 DEF TakeClosed, Default, Waits
  <2>2. sent'[c] = sent[c] /\ got'[c] = got[c]
    BY <2>1, DeliverAdds
  <2> QED
    BY <1>1, <2>1, <2>2
<1>6. ASSUME NEW at \in Cases(g), SendPanics(g, at) PROVE sent'[c] = got'[c] \o chan'[c].buf
  BY <1>1, <1>6 DEF SendPanics
<1>7. ASSUME NEW x \in Goroutine, NEW at \in Cases(x), NEW y \in Goroutine, NEW to \in Cases(y), HandOver(x, at, y, to)
      PROVE  sent'[c] = got'[c] \o chan'[c].buf
  <2>1. UNCHANGED chan /\ instr[x].n \in Message /\ (Ch(x, at) = c => chan[c].cap = 0)
    BY <1>7 DEF HandOver, Meet, Waits, Shape, InstrOK
  <2>2. Ch(x, at) = c => chan[c].buf = <<>>
    <3>1. Len(chan[c].buf) \in Nat /\ Len(chan[c].buf) <= chan[c].cap
      BY <1>1 DEF Shape, ChansOK, ChanOK
    <3> QED
      BY <1>1, <2>1, <3>1, EmptySeq
  <2>3. /\ sent'[c] = IF Ch(x, at) = c THEN sent[c] \o <<instr[x].n>> ELSE sent[c]
        /\ got'[c] = IF Ch(x, at) = c THEN got[c] \o <<instr[x].n>> ELSE got[c]
    BY <1>7, HandOverAdds
  <2>4. <<instr[x].n>> \in Seq(Message)
    BY <2>1, OneMessage
  <2>5. got[c] \o <<instr[x].n>> \in Seq(Message)
    BY <1>1, <2>4, ConcatMessages
  <2>6. (got[c] \o <<instr[x].n>>) \o <<>> = got[c] \o <<instr[x].n>> /\ got[c] \o <<>> = got[c]
    BY <1>1, <2>5, ConcatEmptySeq
  <2> QED
    BY <1>1, <2>1, <2>2, <2>3, <2>6
<1> QED
  BY <1>2, <1>3, <1>4, <1>5, <1>6, <1>7 DEF GoesOn, TakesCase, Meets

\* Messages are neither lost nor invented, repeated or reordered, however they are sent and received.
THEOREM MessagesInOrder == Spec => []InOrder
<1>1. Init => Shape /\ InOrder
  BY InitShape
<1>2. Shape /\ InOrder /\ [Next]_vars => (Shape /\ InOrder)'
  <2> SUFFICES ASSUME Shape, InOrder, [Next]_vars PROVE (Shape /\ InOrder)'
    OBVIOUS
  <2>1. CASE Next
    BY <2>1, NextShape, NextOrder DEF Next
  <2>2. CASE UNCHANGED vars
    BY <2>2 DEF vars, Shape, ChansOK, ChanOK, InstrOK, RegOK, PcOK, BoundsOK, HistoryOK, InOrder
  <2> QED
    BY <2>1, <2>2
<1> QED
  BY <1>1, <1>2, PTL DEF Spec

-----------------------------------------------------------------------------
\* What a statement tells ---------------------------------------------------------------

LEMMA ToldIs ==
  ASSUME Shape, NEW g \in Goroutine, pc[g] = "parked", NEW at \in Cases(g), NEW v, NEW ok \in BOOLEAN,
         reg'[g] = Result(instr[g], at, v, ok)
  PROVE  /\ Dir(g, at) = "default" => Told(g).case = 0 /\ ~instr[g].blocking
         /\ Dir(g, at) \in {"send", "recv"} => ToldCase(g, Dir(g, at), Ch(g, at))
         /\ Dir(g, at) = "recv" => Told(g).val = Received(v, ok) /\ Told(g).ok = ok
<1>1. StatementOK(instr[g]) /\ instr[g].op # "none" /\ at \in DOMAIN HostCases(instr[g])
  BY DEF Shape, InstrOK, Cases
<1>2. ReadsCase(instr[g], at, v, ok)
  BY <1>1, Reading
<1>3. Told(g) = Outcome(instr[g], Result(instr[g], at, v, ok))
  BY DEF Told
<1>4. Dir(g, at) # "default" =>
        /\ Told(g).case # 0 /\ instr[g].states[Told(g).case] = HostCases(instr[g])[at]
        /\ HostCases(instr[g])[at] = [dir |-> HostCases(instr[g])[at].dir, ch |-> HostCases(instr[g])[at].ch]
  <2> SUFFICES ASSUME Dir(g, at) # "default"
               PROVE  /\ Told(g).case # 0 /\ instr[g].states[Told(g).case] = HostCases(instr[g])[at]
                      /\ HostCases(instr[g])[at] = [dir |-> HostCases(instr[g])[at].dir, ch |-> HostCases(instr[g])[at].ch]
    OBVIOUS
  <2>1. /\ Told(g).case \in DOMAIN instr[g].states /\ Told(g).case # 0
        /\ instr[g].states[Told(g).case] = HostCases(instr[g])[at]
    BY <1>2, <1>3 DEF ReadsCase, Dir
  <2> HIDE DEF Told
  <2> QED
    BY <1>1, <2>1, CaseDirs
<1>5. Dir(g, at) \in {"send", "recv"} => ToldCase(g, Dir(g, at), Ch(g, at))
  BY <1>4 DEF ToldCase, Dir, Ch
<1> QED
  BY <1>2, <1>3, <1>5 DEF ReadsCase, Dir

LEMMA TakesCaseTells ==
  ASSUME Shape, NEW g \in Goroutine, NEW at \in Cases(g), TakesCase(g, at),
         NEW x \in Goroutine, LeavesStatement(x)
  PROVE  Tells(x)
<1>1. pc[x] = "parked" /\ pc'[x] = "running"
  BY DEF LeavesStatement
<1>2. ASSUME NEW v, NEW ok \in BOOLEAN, Deliver(g, at, v, ok)
      PROVE  x = g /\ reg'[g] = Result(instr[g], at, v, ok) /\ pc[g] = "parked"
  <2>1. reg'[g] = Result(instr[g], at, v, ok) /\ \A y \in Goroutine \ {g} : pc'[y] = pc[y]
    BY <1>2 DEF Deliver, Shape, RegOK, PcOK
  <2> QED
    BY <1>1, <2>1
<1>3. CASE Put(g, at)
  <2>1. x = g /\ reg'[g] = Result(instr[g], at, HostNil, FALSE) /\ pc[g] = "parked"
    BY <1>2, <1>3 DEF Put
  <2>2. Dir(g, at) = "send" /\ Ch(g, at) \in Chan
    BY <1>3 DEF Put
  <2>3. ToldCase(g, "send", Ch(g, at))
    BY <2>1, <2>2, ToldIs
  <2>4. chan'[Ch(g, at)].buf = Append(chan[Ch(g, at)].buf, instr[g].n)
    BY <1>3, <2>2 DEF Put, Shape, ChansOK, ChanOK
  <2> QED
    BY <2>1, <2>2, <2>3, <2>4 DEF Tells, SendTold
<1>4. CASE Take(g, at)
  <2> DEFINE b == chan[Ch(g, at)].buf
  <2>1. x = g /\ reg'[g] = Result(instr[g], at, Head(b), TRUE) /\ pc[g] = "parked"
    BY <1>2, <1>4 DEF Take
  <2>2. Dir(g, at) = "recv" /\ Ch(g, at) \in Chan /\ b \in Seq(Message) /\ b # <<>>
    BY <1>4 DEF Take, Shape, ChansOK, ChanOK
  <2>3. ToldCase(g, "recv", Ch(g, at)) /\ Told(g).val = Received(Head(b), TRUE) /\ Told(g).ok = TRUE
    BY <2>1, <2>2, ToldIs
  <2>4. chan'[Ch(g, at)].buf = Tail(b)
    BY <1>4, <2>2 DEF Take, Shape, ChansOK, ChanOK
  <2>5. b = <<Head(b)>> \o Tail(b)
    BY <2>2, HeadThenTail
  <2>6. ReceiveTold(g, Ch(g, at))
    BY <2>3, <2>4, <2>5 DEF ReceiveTold, Received
  <2> QED
    BY <2>1, <2>2, <2>3, <2>6 DEF Tells
<1>5. CASE TakeClosed(g, at)
  <2>1. x = g /\ reg'[g] = Result(instr[g], at, HostNil, FALSE) /\ pc[g] = "parked"
    BY <1>2, <1>5 DEF TakeClosed
  <2>2. Dir(g, at) = "recv" /\ Ch(g, at) \in Chan /\ chan[Ch(g, at)].closed /\ chan[Ch(g, at)].buf = <<>>
    BY <1>5 DEF TakeClosed
  <2>3. ToldCase(g, "recv", Ch(g, at)) /\ Told(g).val = Received(HostNil, FALSE) /\ Told(g).ok = FALSE
    BY <2>1, <2>2, ToldIs
  <2>4. ReceiveTold(g, Ch(g, at))
    BY <2>2, <2>3 DEF ReceiveTold, Received
  <2> QED
    BY <2>1, <2>2, <2>3, <2>4 DEF Tells
<1>6. CASE Default(g, at)
  <2>1. x = g /\ reg'[g] = Result(instr[g], at, HostNil, FALSE) /\ pc[g] = "parked"
    BY <1>2, <1>6 DEF Default
  <2>2. Dir(g, at) = "default" /\ (\A k \in Cases(g) : ~Ready(g, k)) /\ UNCHANGED chan
    BY <1>6 DEF Default
  <2>3. Told(g).case = 0 /\ ~instr[g].blocking
    BY <2>1, <2>2, ToldIs
  <2> QED
    BY <2>1, <2>2, <2>3 DEF Tells
<1>7. ~SendPanics(g, at)
  BY <1>1 DEF SendPanics, Shape, PcOK
<1> QED
  BY <1>3, <1>4, <1>5, <1>6, <1>7 DEF TakesCase

LEMMA HandOverTells ==
  ASSUME Shape, NEW g \in Goroutine, NEW at \in Cases(g), NEW h \in Goroutine, NEW to \in Cases(h),
         HandOver(g, at, h, to), NEW x \in Goroutine, LeavesStatement(x)
  PROVE  Tells(x)
<1> DEFINE c == Ch(g, at)
<1>1. /\ g # h /\ pc[g] = "parked" /\ pc[h] = "parked"
      /\ Dir(g, at) = "send" /\ Dir(h, to) = "recv" /\ Ch(h, to) = c /\ c \in Chan
  BY DEF HandOver, Meet, Waits
<1>2. /\ reg'[g] = Result(instr[g], at, HostNil, FALSE)
      /\ reg'[h] = Result(instr[h], to, instr[g].n, TRUE)
      /\ pc'[g] = "running" /\ pc'[h] = "running"
      /\ \A y \in Goroutine \ {g, h} : pc'[y] = pc[y]
  BY <1>1 DEF HandOver, Shape, RegOK, PcOK
<1>3. ToldCase(g, "send", c)
  BY <1>1, <1>2, ToldIs
<1>4. ToldCase(h, "recv", c) /\ Told(h).val = Received(instr[g].n, TRUE) /\ Told(h).ok = TRUE
  BY <1>1, <1>2, ToldIs
<1>5. LeavesStatement(g) /\ LeavesStatement(h) /\ Told(h).val = instr[g].n
  BY <1>1, <1>2, <1>4 DEF LeavesStatement, Received
<1> HIDE DEF c
<1>6. SendTold(g, c) /\ ReceiveTold(h, c)
  BY <1>1, <1>3, <1>4, <1>5 DEF SendTold, ReceiveTold
<1>7. x = g \/ x = h
  BY <1>2 DEF LeavesStatement
<1> QED
  BY <1>1, <1>3, <1>4, <1>6, <1>7 DEF Tells

LEMMA ActsTellNothing ==
  ASSUME Shape, NEW g \in Goroutine, Acts(g), NEW x \in Goroutine
  PROVE  ~LeavesStatement(x)
<1>1. CASE Go(g)
  <2>1. (CHOOSE h \in Unborn : TRUE) \in Unborn
    BY <1>1 DEF Go
  <2> QED
    BY <1>1, <2>1 DEF Go, Unborn, LeavesStatement, Shape, PcOK
<1>2. CASE \E c \in Chan \cup {NilChan} : Send(g, c) \/ Receive(g, c) \/ Close(g, c)
  BY <1>2 DEF Send, Receive, Close, Issue, Runs, LeavesStatement, Shape, PcOK
<1>3. CASE \E s \in Selects : Select(g, s)
  BY <1>3 DEF Select, Issue, Runs, LeavesStatement, Shape, PcOK
<1>4. CASE Returns(g) \/ Recovers(g) \/ Dies(g)
  BY <1>4 DEF Returns, Recovers, Dies, Runs, LeavesStatement, Shape, PcOK
<1> QED
  BY <1>1, <1>2, <1>3, <1>4 DEF Acts

\* The index, the flag and the value a statement leaves are those of the case that was performed.
THEOREM CasesAreTold == Spec => CaseTold
<1>1. Init => Shape
  BY InitShape
<1>2. Shape /\ [Next]_vars => Shape'
  <2> SUFFICES ASSUME Shape, [Next]_vars PROVE Shape'
    OBVIOUS
  <2>1. CASE Next
    BY <2>1, NextShape DEF Next
  <2>2. CASE UNCHANGED vars
    BY <2>2 DEF vars, Shape, ChansOK, ChanOK, InstrOK, RegOK, PcOK, BoundsOK, HistoryOK
  <2> QED
    BY <2>1, <2>2
<1>3. Shape /\ [Next]_vars => [\A g \in Goroutine : LeavesStatement(g) => Tells(g)]_vars
  <2> SUFFICES ASSUME Shape, Next, NEW x \in Goroutine, LeavesStatement(x) PROVE Tells(x)
    OBVIOUS
  <2>1. PICK g \in Goroutine : Acts(g) \/ GoesOn(g)
    BY DEF Next
  <2>2. ~Acts(g)
    BY ActsTellNothing
  <2>3. CASE \E at \in Cases(g) : TakesCase(g, at)
    BY <2>3, TakesCaseTells
  <2>4. CASE Meets(g)
    BY <2>4, HandOverTells DEF Meets
  <2> QED
    BY <2>1, <2>2, <2>3, <2>4 DEF GoesOn
<1> QED
  BY <1>1, <1>2, <1>3, PTL DEF Spec, CaseTold

=============================================================================
