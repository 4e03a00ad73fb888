---------------------------- MODULE ReflectTypes ----------------------------
(***************************************************************************)
(* The types of the program under interpretation, as go/types has them:    *)
(* what the emulated reflection (Reflect) and the search for host types    *)
(* (SymReflect) both go by.                                                *)
(***************************************************************************)

CONSTANT
  Def   \* the types of the program: what each of them is made of

Underlying(T) == IF Def[T].kind = "named" THEN Def[T].under ELSE T
U(T) == Def[Underlying(T)]

NoType == "none"   \* a nil types.Type

IsType(T) == T \in DOMAIN Def

\* reflectKind
ReflectKind(T) == U(T).kind

Has(T, kind) == IsType(T) /\ ReflectKind(T) = kind
=============================================================================
