---------------------------- MODULE MCBlocksSwap ----------------------------
(***************************************************************************)
(* The SSA form of  for cond { x, y = y, x }.                              *)
(***************************************************************************)
EXTENDS Blocks

CONSTANTS x, y, x0, y0, cond

MCPreds == [entry |-> <<>>, loop |-> <<"entry", "loop">>, exit |-> <<"loop">>]
MCPhis ==
  [entry |-> <<>>,
   loop |-> <<[reg |-> x, edges |-> <<x0, y>>], [reg |-> y, edges |-> <<y0, x>>]>>,
   exit |-> <<>>]

=============================================================================
