----------------------------- MODULE MCHashMap -----------------------------
(***************************************************************************)
(* TLC instances of HashMap.  "zero" and "negzero" are equal keys written  *)
(* differently, "other" collides with them, "apart" does not, "nan" equals *)
(* nothing.                                                                *)
(***************************************************************************)
EXTENDS HashMap

Class(k) == IF k = "negzero" THEN "zero" ELSE k

MCClassOf == [k \in {"zero", "negzero", "other", "apart", "nan"} |-> Class(k)]

\* One bucket for all, but for "apart".
MCColliding == [k \in {"zero", "negzero", "other", "apart", "nan"} |->
                  IF k = "apart" THEN 2 ELSE 1]
=============================================================================
