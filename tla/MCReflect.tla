----------------------------- MODULE MCReflect -----------------------------
(***************************************************************************)
(* A small program: a struct with an interface field, a named pointer to   *)
(* it, an array and a slice of it, a map, a channel of a type the host's   *)
(* binary lacks, a function of a named type, and a slice of itself.  The   *)
(* host has the type T of a function where the program means the struct of *)
(* that name.                                                              *)
(***************************************************************************)
EXTENDS Reflect, SymReflect

Of(kind, elem) == [kind |-> kind, elem |-> elem]
Basic(kind) == [kind |-> kind]
Named(name, T) == [kind |-> "named", name |-> name, under |-> T]
Signature(recv, ins, outs) == [kind |-> "func", recv |-> recv, ins |-> ins, outs |-> outs]

MCDef ==
  [int |-> Basic("int"), uint8 |-> Basic("uint8"), string |-> Basic("string"), any |-> Basic("iface"),
   Fields |-> [kind |-> "struct", fields |-> <<"int", "any">>], S |-> Named("main.S", "Fields"),
   PS |-> Of("ptr", "S"), NP |-> Named("main.NP", "PS"),
   A |-> [kind |-> "array", elem |-> "uint8", len |-> 2], L |-> Of("slice", "uint8"),
   M |-> [kind |-> "map", key |-> "S", elem |-> "string"],
   C |-> Of("chan", "X"), X |-> Named("main.X", "Fields"),
   F |-> Signature(FALSE, <<"S">>, <<"NP">>), NF |-> Named("main.NF", "F"),
   E |-> Named("error", "any"), Error |-> Signature(TRUE, <<>>, <<"string">>),
   T |-> Named("main.T", "Fields"), LocalT |-> Named("main.T", "int"), PT |-> Of("ptr", "T"),
   Q |-> Named("main.Q", "LQ"), LQ |-> Of("slice", "Q")]

MCLinked == "main.S" :> "S" @@ "main.T" :> "LocalT" @@ "error" :> "E"

N(n) == Num("int", n)
Pair(a, b) == Fresh("struct", <<a, b>>)
Entry(k, v) == [key |-> k, val |-> v]

\* The variables s, np, a, l, m, c, nf, str and q.
MCVars == <<"S", "NP", "A", "L", "M", "C", "NF", "string", "Q">>
MCInitial ==
  (<<1, <<1>>>> :> N(1)) @@ (<<1, <<2>>>> :> Dyn("PS", Ptr(NoPlace)))
  @@ (<<2, <<>>>> :> Ptr(<<1, <<>>>>))
  @@ (<<3, <<2>>>> :> Num("uint8", 1))
  @@ (<<4, <<>>>> :> Slice(FALSE, <<<<3, <<1>>>>, <<3, <<2>>>>>>))
  @@ (<<5, <<>>>> :> Map("hashmap", FALSE, <<Entry(Pair(N(0), NilIface), Num("string", 0))>>))
  @@ (<<6, <<>>>> :> Chan(FALSE, 1)) @@ (<<7, <<>>>> :> Func(FALSE))
  @@ (<<8, <<>>>> :> Num("string", 1))

\* Nothing in the repository calls ReflectType for the program yet.  The host asks for any
\* type before the program reflects: the two keep nothing that the other sees.
NotBegun == heap = InitHeap /\ Idle /\ kept = NilIface /\ told.op = "call"
NoneAsked == asked = NoType /\ stack = <<>> /\ found = NotAsked

\* No action reads `told', and a call that sets it to an answer leaves the rest as it is: what
\* can follow the answer can follow without it, so no state is lost by stopping there.
NotAnswered == told.op = "call"

MCInit == Init /\ SymInit
MCNext ==
  \/ NotBegun /\ SymNext /\ UNCHANGED vars
  \/ NoneAsked /\ NotAnswered /\ Next /\ UNCHANGED symVars
MCSpec == MCInit /\ [][MCNext]_<<vars, symVars>>

\* s holds 1 from the beginning: what changes is the variable that New made.
MCStored == [int |-> {N(1)}]
=============================================================================
