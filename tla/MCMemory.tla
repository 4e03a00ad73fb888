------------------------------ MODULE MCMemory ------------------------------
(***************************************************************************)
(* TLC instances of Memory: a struct of two scalars, which is also an      *)
(* array of two, and a struct in a struct.                                 *)
(***************************************************************************)
EXTENDS Memory, TLC

Scalar == {}
Pair == {<<1>>, <<2>>}
Inner == {<<1>>, <<1, 1>>}

MCTypes == {Pair, Inner}
MCNoTypes == {}

\* Room for copies between overlapping slices, and for reslicing into the spare slots
\* of an append.
MCMakes == {<<2, 3>>}
MCCuts == {<<0, 3, 3>>, <<1, 3, 3>>}

\* A full slice of structs, to be appended to another.
MCMakesFull == {<<1, 1>>}

Symmetry == Permutations(SliceVars)
=============================================================================
