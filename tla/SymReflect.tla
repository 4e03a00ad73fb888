----------------------------- MODULE SymReflect -----------------------------
(***************************************************************************)
(* symreflect.ReflectType: the host's type for a type of the program.  It  *)
(* walks the type's structure and looks named structs and interfaces up    *)
(* among the types that the host's binary has, by package path and name:   *)
(* types declared in functions share their names with others, and of those *)
(* the table keeps the one it met last.                                    *)
(***************************************************************************)
EXTENDS ReflectTypes, Naturals, Sequences, FiniteSets

CONSTANTS
  Linked,    \* allTopLevelTypes: for a package path and name, the type the host has of it
  MaxDepth   \* calls of findReflectType the host's stack has room for

VARIABLES
  asked,  \* the type ReflectType was called with
  stack,  \* the calls of findReflectType under way: the type, and the host's types so far
  found   \* what the walk ended with

symVars == <<asked, stack, found>>

NotAsked == [kind |-> "not asked"]
Panicked == [kind |-> "panic"]
Died == [kind |-> "stack overflow"]   \* fatal: the host's process ends
HostType(kind, name, of) == [kind |-> kind, name |-> name, of |-> of]

\* A named type with a struct or an interface under it is looked up, not walked.
LookedUp(T) == Def[T].kind = "named" /\ ReflectKind(T) \in {"struct", "iface"}

\* The types findReflectType calls itself for.
Children(T) ==
  CASE Def[T].kind = "named" -> <<Def[T].under>>
    [] Def[T].kind \in {"ptr", "slice", "array", "chan"} -> <<Def[T].elem>>
    [] Def[T].kind = "map" -> <<Def[T].key, Def[T].elem>>
    [] Def[T].kind = "func" -> Def[T].ins \o Def[T].outs
    [] OTHER -> <<>>

\* The signature of a method, as go/types has it.
HasReceiver(T) == Def[T].kind = "func" /\ Def[T].recv

Walked(T) == ~LookedUp(T) /\ ~HasReceiver(T) /\ Def[T].kind \notin {"struct", "iface"}

\* A type that the table has no type for, or that findReflectType does not take.
Lacking(T) == ~Walked(T) /\ (LookedUp(T) => Def[T].name \notin DOMAIN Linked)

\* A type for which the table has another type of its name.
Mistaken(T) ==
  LookedUp(T) /\ Def[T].name \in DOMAIN Linked /\ Linked[Def[T].name] # T

\* go/types: the parts of a type are types, and what is under a named type has no name.
ASSUME DefAssumption ==
  /\ IsFiniteSet(DOMAIN Def) /\ NoType \notin DOMAIN Def
  /\ \A T \in DOMAIN Def :
       /\ Children(T) \in Seq(DOMAIN Def)
       /\ Def[T].kind = "named" => Def[Def[T].under].kind # "named"
       /\ Def[T].kind = "func" => Def[T].recv \in BOOLEAN

\* The host's stack is deeper than a walk through all the types.
ASSUME HostAssumption ==
  /\ \A name \in DOMAIN Linked : Linked[name] \in DOMAIN Def
  /\ MaxDepth \in Nat /\ Cardinality(DOMAIN Def) <= MaxDepth

Top == stack[Len(stack)]
Rest == SubSeq(stack, 1, Len(stack) - 1)
Running == stack # <<>>
Call(T) == [type |-> T, got |-> <<>>]

SymInit == asked = NoType /\ stack = <<>> /\ found = NotAsked

-----------------------------------------------------------------------------
\* ReflectType
Start(T) ==
  /\ ~Running /\ found # Died
  /\ asked' = T
  /\ stack' = <<Call(T)>>
  /\ found' = NotAsked

\* Mutant: what is found is put before what was found for the other parts.
ReturnsFirst(h) ==
  /\ stack' = IF Rest = <<>> THEN <<>> ELSE [Rest EXCEPT ![Len(Rest)].got = <<h>> \o @]
  /\ found' = IF Rest = <<>> THEN h ELSE found
  /\ UNCHANGED asked

\* The call on top returns h.
Returns(h) ==
  /\ stack' = IF Rest = <<>> THEN <<>> ELSE [Rest EXCEPT ![Len(Rest)].got = Append(@, h)]
  /\ found' = IF Rest = <<>> THEN h ELSE found
  /\ UNCHANGED asked

Ends(outcome) == stack' = <<>> /\ found' = outcome /\ UNCHANGED asked

\* Mutant: only structs are looked up.
LookUpStructs ==
  /\ Running /\ LookedUp(Top.type)
  /\ LET name == Def[Top.type].name
     IN IF name \in DOMAIN Linked /\ ReflectKind(Top.type) = "struct"
        THEN Returns(HostType(ReflectKind(Linked[name]), Linked[name], <<>>))
        ELSE Ends(Panicked)

\* all[pkgName][t.Obj().Name()]
LookUp ==
  /\ Running /\ LookedUp(Top.type)
  /\ LET name == Def[Top.type].name
     IN IF name \in DOMAIN Linked
        THEN Returns(HostType(ReflectKind(Linked[name]), Linked[name], <<>>))
        ELSE Ends(Panicked)

\* A struct or an interface without a name, or the signature of a method.
Unsupported ==
  /\ Running
  /\ Def[Top.type].kind \in {"struct", "iface"} \/ HasReceiver(Top.type)
  /\ Ends(Panicked)

Recurse ==
  /\ Running /\ Walked(Top.type)
  /\ Len(Top.got) < Len(Children(Top.type))
  /\ IF Len(stack) = MaxDepth
     THEN Ends(Died)
     ELSE /\ stack' = Append(stack, Call(Children(Top.type)[Len(Top.got) + 1]))
          /\ UNCHANGED <<asked, found>>

\* The host's constructor; for a named type what was found for the type under it.
Construct ==
  /\ Running /\ Walked(Top.type)
  /\ Len(Top.got) = Len(Children(Top.type))
  /\ Returns(IF Def[Top.type].kind = "named" THEN Top.got[1]
             ELSE HostType(Def[Top.type].kind, "", Top.got))

Find == LookUp \/ Unsupported \/ Recurse \/ Construct

\* The caller is done with what ReflectType returned.
Leave ==
  /\ ~Running /\ found # Died
  /\ asked' = NoType /\ found' = NotAsked
  /\ UNCHANGED stack

SymNext == Find \/ (\E T \in DOMAIN Def : Start(T)) \/ Leave

SymSpec == SymInit /\ [][SymNext]_symVars

-----------------------------------------------------------------------------
\* Properties -----------------------------------------------------------------

\* What the emulated reflection shows the program of the types, part by part down to n
\* parts of parts: the kind of each, and for a struct or an interface which one it is.
Shown[p \in (0 .. MaxDepth) \X DOMAIN Def] ==
  LET n == p[1]
      kind == ReflectKind(p[2])
      parts == Children(Underlying(p[2]))
  IN IF n = 0 THEN NotAsked
     ELSE IF kind \in {"struct", "iface"} THEN HostType(kind, p[2], <<>>)
     ELSE HostType(kind, "", [i \in DOMAIN parts |-> Shown[<<n - 1, parts[i]>>]])

\* The types met on a walk from T that is n calls deep.
Met[p \in (0 .. MaxDepth) \X DOMAIN Def] ==
  LET n == p[1]
      T == p[2]
      parts == Children(T)
  IN {T} \cup IF n = 0 \/ ~Walked(T) THEN {} ELSE UNION {Met[<<n - 1, parts[i]>>] : i \in DOMAIN parts}

WalkedFrom(T) == UNION {Met[<<n, T>>] : n \in 0 .. MaxDepth}

Circular(T) ==
  \E Q \in WalkedFrom(T) : Walked(Q) /\ \E i \in DOMAIN Children(Q) : Q \in WalkedFrom(Children(Q)[i])

\* The host type that ReflectType finds has, part by part, the kind that the emulated
\* Type tells the program, and for a struct or an interface it is that very one: unless
\* the walk met one for which the table has another type of its name, whose kind may be
\* another too.
FoundAsEmulated ==
  found \notin {NotAsked, Panicked, Died} =>
    \/ found = Shown[<<MaxDepth, asked>>]
    \/ \E Q \in WalkedFrom(asked) : Mistaken(Q)

\* The walk exhausts the stack only for a type that contains itself other than through a
\* named struct or interface, and panics only where it meets one the table has no type of
\* its name for, a struct or an interface without a name, or a method's signature.
FailsForReason ==
  /\ found = Died => Circular(asked)
  /\ found = Panicked => \E Q \in WalkedFrom(asked) : Lacking(Q)

=============================================================================
