------------------------------ MODULE MCArith ------------------------------
(***************************************************************************)
(* TLC instance of Arith: a narrow and a wide integer type, signed and     *)
(* unsigned, standing for int8 and int64.                                  *)
(***************************************************************************)
EXTENDS Arith
=============================================================================
