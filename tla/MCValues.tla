------------------------------ MODULE MCValues ------------------------------
(***************************************************************************)
(* TLC instances of Values: scalars of each kind, a named type with a      *)
(* method beside its underlying type, two interface types, and arrays and  *)
(* structs of scalars and of interfaces, some with an embedded field.      *)
(***************************************************************************)
EXTENDS Values

TInt == Scalar("int")
TFloat == Scalar("float")
TFunc == Scalar("func")
TCelsius == Named("Celsius", TInt, {"String"})
TAny == Iface({})
TStringer == Iface({"String"})

\* A struct with an embedded field, which nests interfaces.
TPair == Struct(<<Field(TAny), Embedded(TInt)>>)

\* A struct that cannot be compared, of parts one of which can.
TAction == Struct(<<Field(TInt), Field(TFunc)>>)

MCDynTypes == {TInt, TFloat, TCelsius, TFunc, TPair, TAction}

MCTypes ==
  MCDynTypes \cup
  {Scalar("pointer"), Scalar("slice"), Map(TFloat), Map(TAny), TAny, TStringer,
   Array(TStringer, 2), Struct(<<Field(TFloat), Embedded(TInt)>>)}

MCLiterals ==
  [int |-> {"0", "1"}, float |-> {"0", "-0", "NaN"}, pointer |-> {"nil", "p"},
   func |-> {"nil", "f", "closure"}, slice |-> {"nil", "some"},
   map |-> {"nil", "some"}, hashmap |-> {"nil", "some"}]

\* TInt and TPair collide.
MCTypeHash(T) == CASE T = TInt -> 1 [] T = TPair -> 1 [] OTHER -> 2

MCScalarHash(x) == CASE x.is \in {"1", "p"} -> 1 [] x.is = "NaN" -> 2 [] OTHER -> 0
=============================================================================
