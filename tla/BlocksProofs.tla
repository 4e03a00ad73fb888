---------------------------- MODULE BlocksProofs ----------------------------
(***************************************************************************)
(* When visiting the phi nodes one by one is as good as executing them at   *)
(* once: for any function in which no phi node reads another one defined   *)
(* before it in the same block.                                            *)
(***************************************************************************)
EXTENDS Blocks, SequenceTheorems, TLAPS

\* A function in SSA form: an edge for every predecessor, no block twice a predecessor
\* of one block, and values of their own for the phi nodes of a block.
WellFormed ==
  /\ First \in Block /\ NoBlock \notin Block
  /\ \A b \in Block :
       /\ Preds[b] \in Seq(Block)
       /\ Phis[b] \in Seq([reg : Reg, edges : Seq(Reg)])
       /\ \A k \in DOMAIN Phis[b] : Len(Phis[b][k].edges) = Len(Preds[b])
       /\ \A i, j \in DOMAIN Preds[b] : Preds[b][i] = Preds[b][j] => i = j
       /\ \A j, k \in DOMAIN Phis[b] : Phis[b][j].reg = Phis[b][k].reg => j = k
  /\ Phis[First] = <<>>

\* No phi node has an edge that is an earlier phi node of its block.
NoForwarding ==
  \A b \in Block : \A j, k \in DOMAIN Phis[b] :
    j < k => \A i \in DOMAIN Phis[b][k].edges : Phis[b][k].edges[i] # Phis[b][j].reg

-----------------------------------------------------------------------------
\* The values not yet defined by a phi node are as they were when the block was entered.
Untouched ==
  ~PhisDone => \A r \in Reg : (\A j \in DOMAIN Phis[block] : j < phi => Phis[block][j].reg # r) => env[r] = entered[r]

Place ==
  /\ block \in Block => prevBlock \in {Preds[block][i] : i \in DOMAIN Preds[block]} \/ Phis[block] = <<>>
  /\ block \in Block \cup {NoBlock} /\ phi \in Nat \ {0}
  /\ DOMAIN env = Reg

Inv == Place /\ (block # NoBlock => Untouched) /\ PhisParallel

LEMMA PhiType ==
  ASSUME WellFormed, NEW b \in Block, NEW k \in DOMAIN Phis[b]
  PROVE  /\ k \in Nat \ {0}
         /\ Phis[b][k] \in [reg : Reg, edges : Seq(Reg)]
         /\ Phis[b][k].reg \in Reg /\ Phis[b][k].edges \in Seq(Reg)
<1> DEFINE P == [reg : Reg, edges : Seq(Reg)]
<1>1. Phis[b] \in Seq(P)
  BY DEF WellFormed
<1>2. k \in 1..Len(Phis[b]) /\ Len(Phis[b]) \in Nat
  BY <1>1
<1>3. Phis[b][k] \in P
  <2> HIDE DEF P
  <2> QED
    BY <1>1, <1>2, ElementOfSeq
<1> QED
  BY <1>2, <1>3

LEMMA EdgeIs ==
  ASSUME WellFormed, NEW b \in Block, NEW k \in DOMAIN Phis[b],
         prevBlock \in {Preds[b][i] : i \in DOMAIN Preds[b]}
  PROVE  \E i \in DOMAIN Phis[b][k].edges : Edge(b, k) = Phis[b][k].edges[i] /\ Edge(b, k) \in Reg
<1>1. PICK i \in DOMAIN Preds[b] : Preds[b][i] = prevBlock
  OBVIOUS
<1>2. /\ Preds[b] \in Seq(Block) /\ Phis[b] \in Seq([reg : Reg, edges : Seq(Reg)])
      /\ Len(Phis[b][k].edges) = Len(Preds[b])
      /\ \A j \in DOMAIN Preds[b] : Preds[b][j] = prevBlock => j = i
  BY <1>1 DEF WellFormed
<1>3. {j \in DOMAIN Preds[b] : Preds[b][j] = prevBlock} = {i} /\ i \in Nat
  BY <1>1, <1>2
<1>4. (CHOOSE m \in {i} : \A j \in {i} : m <= j) = i
  BY <1>3
<1>5. Edge(b, k) = Phis[b][k].edges[i]
  BY <1>3, <1>4 DEF Edge
<1>6. Phis[b][k].edges \in Seq(Reg)
  BY PhiType
<1>7. i \in DOMAIN Phis[b][k].edges /\ i \in 1..Len(Phis[b][k].edges)
  BY <1>1, <1>2, <1>6
<1>8. Phis[b][k].edges[i] \in Reg
  BY <1>6, <1>7, ElementOfSeq
<1> QED
  BY <1>5, <1>7, <1>8

LEMMA VisitKeepsInv ==
  ASSUME WellFormed, NoForwarding, Inv, VisitPhi
  PROVE  Inv'
<1> DEFINE r == Phis[block][phi].reg
           e == Edge(block, phi)
<1>1. /\ block \in Block /\ phi \in DOMAIN Phis[block] /\ phi' = phi + 1 /\ phi \in Nat \ {0}
      /\ Phis[block] # <<>> /\ DOMAIN env = Reg /\ UNCHANGED <<block, prevBlock, entered>>
      /\ env' = [env EXCEPT ![r] = env[e]]
  BY DEF VisitPhi, PhisDone, Inv, Place
<1>2. prevBlock \in {Preds[block][i] : i \in DOMAIN Preds[block]}
  BY <1>1 DEF Inv, Place
<1>3. r \in Reg
  BY <1>1, PhiType
<1>4. \A j, k \in DOMAIN Phis[block] : Phis[block][j].reg = Phis[block][k].reg => j = k
  BY <1>1 DEF WellFormed
<1>5. \A j \in DOMAIN Phis[block] : j \in Nat
  BY <1>1, PhiType
<1>6. env[e] = entered[e]
  <2>1. PICK i \in DOMAIN Phis[block][phi].edges : e = Phis[block][phi].edges[i] /\ e \in Reg
    BY <1>1, <1>2, EdgeIs
  <2>2. \A j \in DOMAIN Phis[block] : j < phi => Phis[block][j].reg # e
    BY <1>1, <2>1 DEF NoForwarding
  <2>3. \A q \in Reg : (\A j \in DOMAIN Phis[block] : j < phi => Phis[block][j].reg # q) => env[q] = entered[q]
    BY <1>1 DEF Inv, Untouched, PhisDone, WellFormed
  <2> HIDE DEF e
  <2> QED
    BY <2>1, <2>2, <2>3
<1> HIDE DEF r, e
<1>7. PhisParallel'
  <2> SUFFICES ASSUME NEW k \in DOMAIN Phis[block], k < phi + 1
               PROVE  env'[Phis[block][k].reg] = entered[Edge(block, k)]
    BY <1>1 DEF PhisParallel, Edge
  <2>1. CASE k = phi
    BY <1>1, <1>3, <1>6, <2>1 DEF r, e
  <2>2. CASE k # phi
    <3>1. k < phi /\ Phis[block][k].reg # r
      BY <1>1, <1>4, <1>5, <2>2 DEF r
    <3>2. env[Phis[block][k].reg] = entered[Edge(block, k)]
      BY <1>1, <3>1 DEF Inv, PhisParallel, WellFormed
    <3>3. Phis[block][k].reg \in Reg
      BY <1>1, PhiType
    <3> QED
      BY <1>1, <3>1, <3>2, <3>3
  <2> QED
    BY <2>1, <2>2
<1>8. Untouched'
  <2> SUFFICES ASSUME NEW q \in Reg, \A j \in DOMAIN Phis[block] : j < phi + 1 => Phis[block][j].reg # q
               PROVE  env'[q] = entered[q]
    BY <1>1 DEF Untouched
  <2>1. q # r
    BY <1>1 DEF r
  <2>2. \A j \in DOMAIN Phis[block] : j < phi => Phis[block][j].reg # q
    BY <1>1, <1>5
  <2>3. env[q] = entered[q]
    BY <1>1, <2>2 DEF Inv, Untouched, PhisDone, WellFormed
  <2> QED
    BY <1>1, <2>1, <2>3
<1>9. Place'
  BY <1>1, <1>2 DEF Inv, Place
<1> QED
  BY <1>7, <1>8, <1>9 DEF Inv

LEMMA JumpKeepsInv ==
  ASSUME WellFormed, Inv, NEW to \in Succs(block), Jump(to)
  PROVE  Inv'
<1>1. to \in Block /\ block \in {Preds[to][i] : i \in DOMAIN Preds[to]}
  BY DEF Succs
<1>2. block' = to /\ prevBlock' = block /\ phi' = 1 /\ entered' = env /\ env' = env
  BY DEF Jump
<1>3. Place'
  BY <1>1, <1>2 DEF Inv, Place
<1>4. Untouched'
  BY <1>2 DEF Untouched
<1>5. \A k \in DOMAIN Phis[to] : ~(k < 1)
  BY <1>1, PhiType
<1>6. PhisParallel'
  BY <1>2, <1>5 DEF PhisParallel
<1> QED
  BY <1>3, <1>4, <1>6 DEF Inv

LEMMA ComputeKeepsInv ==
  ASSUME WellFormed, Inv, NEW r \in Reg \ PhiRegs, NEW v, Compute(r, v)
  PROVE  Inv'
<1>1. /\ block \in Block /\ PhisDone /\ env' = [env EXCEPT ![r] = v] /\ DOMAIN env = Reg
      /\ UNCHANGED <<block, prevBlock, phi, entered>>
  BY DEF Compute, Inv, Place
<1>2. \A k \in DOMAIN Phis[block] : Phis[block][k].reg # r /\ Phis[block][k].reg \in Reg
  BY <1>1, PhiType DEF PhiRegs
<1>3. PhisParallel'
  BY <1>1, <1>2 DEF Inv, PhisParallel, Edge
<1>4. Untouched' /\ Place'
  BY <1>1 DEF Inv, Untouched, PhisDone, Place
<1> QED
  BY <1>3, <1>4 DEF Inv

\* In a function whose phi nodes never read an earlier one of their block, every phi node
\* defines what its edge held when the block was entered. The loop that swaps two
\* variables is the least function that is not of this kind.
THEOREM PhisAgreeWithoutForwarding == WellFormed /\ NoForwarding => (Spec => []PhisParallel)
<1> SUFFICES ASSUME WellFormed, NoForwarding PROVE Spec => []PhisParallel
  OBVIOUS
<1>1. Init => Inv
  <2> SUFFICES ASSUME Init PROVE Inv
    OBVIOUS
  <2>1. block = First /\ Phis[block] = <<>> /\ phi = 1 /\ First \in Block /\ DOMAIN env = Reg
    BY DEF Init, WellFormed
  <2>2. DOMAIN Phis[block] = {}
    BY <2>1
  <2> QED
    BY <2>1, <2>2 DEF Inv, Place, Untouched, PhisParallel, PhisDone, Init
<1>2. Inv /\ [Next]_vars => Inv'
  <2> SUFFICES ASSUME Inv, [Next]_vars PROVE Inv'
    OBVIOUS
  <2>1. CASE VisitPhi
    BY <2>1, VisitKeepsInv
  <2>2. CASE \E r \in Reg \ PhiRegs, v \in Val : Compute(r, v)
    BY <2>2, ComputeKeepsInv
  <2>3. CASE \E to \in Succs(block) : Jump(to)
    BY <2>3, JumpKeepsInv
  <2>4. CASE Return
    BY <2>4 DEF Return, Inv, Place, PhisParallel, Untouched, WellFormed
  <2>5. CASE UNCHANGED vars
    BY <2>5 DEF vars, Inv, Place, PhisParallel, Untouched, PhisDone, Edge
  <2> QED
    BY <2>1, <2>2, <2>3, <2>4, <2>5 DEF Next
<1>3. Inv => PhisParallel
  BY DEF Inv
<1> QED
  BY <1>1, <1>2, <1>3, PTL DEF Spec

=============================================================================
