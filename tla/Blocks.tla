------------------------------- MODULE Blocks -------------------------------
(***************************************************************************)
(* The basic blocks of one activation record: jumps, and the phi nodes at  *)
(* the head of a block.                                                    *)
(*                                                                         *)
(* runFrame visits the instructions of a block one by one, phi nodes among *)
(* them; in the SSA form all phi nodes of a block take their edges at once, *)
(* when the block is entered.                                              *)
(***************************************************************************)
EXTENDS Naturals, Sequences

CONSTANTS
  Reg,       \* SSA values
  Val,       \* what they may hold
  Block,     \* basic blocks
  First,     \* the block a function starts with
  Preds,     \* a block's predecessors, in order
  Phis       \* a block's phi nodes: the value defined, and an edge for every predecessor

VARIABLES
  env,       \* frame.env
  block,     \* frame.block
  prevBlock, \* frame.prevBlock
  phi,       \* the place of the next phi node to visit
  entered    \* (history) env when the block was entered

vars == <<env, block, prevBlock, phi, entered>>

NoBlock == "none"

Init ==
  /\ env \in [Reg -> Val]
  /\ block = First /\ prevBlock = NoBlock   \* the first block has no phi nodes
  /\ phi = 1
  /\ entered = env

PhisDone == phi \notin DOMAIN Phis[block]
PhiRegs == UNION {{Phis[b][k].reg : k \in DOMAIN Phis[b]} : b \in Block}

\* The edge a phi node takes: that of the first predecessor the frame came from.
Edge(b, k) ==
  LET From == {i \in DOMAIN Preds[b] : Preds[b][i] = prevBlock}
  IN  Phis[b][k].edges[CHOOSE i \in From : \A j \in From : i <= j]

\* case *ssa.Phi.
VisitPhi ==
  /\ block # NoBlock /\ ~PhisDone
  /\ env' = [env EXCEPT ![Phis[block][phi].reg] = env[Edge(block, phi)]]
  /\ phi' = phi + 1
  /\ UNCHANGED <<block, prevBlock, entered>>

\* Any other instruction that defines a value.
Compute(r, v) ==
  /\ block # NoBlock /\ PhisDone
  /\ env' = [env EXCEPT ![r] = v]
  /\ UNCHANGED <<block, prevBlock, phi, entered>>

\* Jump, or If with the successor the condition selects.
Jump(to) ==
  /\ block # NoBlock /\ PhisDone
  /\ prevBlock' = block /\ block' = to
  /\ phi' = 1
  /\ entered' = env
  /\ UNCHANGED env

Return ==
  /\ block # NoBlock /\ PhisDone
  /\ block' = NoBlock
  /\ UNCHANGED <<env, prevBlock, phi, entered>>

Succs(b) == {to \in Block : \E i \in DOMAIN Preds[to] : Preds[to][i] = b}

Next ==
  \/ VisitPhi
  \/ \E r \in Reg \ PhiRegs, v \in Val : Compute(r, v)
  \/ \E to \in Succs(block) : Jump(to)
  \/ Return

Spec == Init /\ [][Next]_vars

-----------------------------------------------------------------------------
\* Properties -----------------------------------------------------------------

\* The semantics of a phi node: it defines the value its edge had when the block was
\* entered. All phi nodes of a block are executed at once.
PhisParallel ==
  block # NoBlock =>
    \A k \in DOMAIN Phis[block] : k < phi => env[Phis[block][k].reg] = entered[Edge(block, k)]

=============================================================================
