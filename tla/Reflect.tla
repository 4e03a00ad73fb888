------------------------------ MODULE Reflect ------------------------------
(***************************************************************************)
(* The interpreter's emulation of package reflect (reflect.go).  A Value   *)
(* is a pair of a type and a boxed value, a Type an opaque type; neither   *)
(* remembers where it came from.                                           *)
(*                                                                         *)
(* The program has one Value or Type and one interface value at hand,      *)
(* calls the emulated functions in any order and stores to its variables   *)
(* in between.  It is well typed but may call a method on any kind of      *)
(* Value.  History variables say which variable Go's Value would refer to, *)
(* and which of the emulation's known deviations the Value went through.   *)
(***************************************************************************)
EXTENDS ReflectTypes, Naturals, Sequences, FiniteSets, SequencesExt

CONSTANTS
  Vars,       \* the types of its variables
  Initial,    \* what slots of theirs hold from the beginning, where it is not zero
  Stored,     \* for a scalar type, the values it stores to variables of the type
  MaxVars,    \* bound on its variables, with those that New makes
  MaxNesting  \* bound on how deep values are nested in one another

VARIABLES
  heap,   \* the slots of the variables, with their types (history)
  val,    \* the reflect.Value at hand
  typ,    \* the reflect.Type at hand; taking one up drops the other
  kept,   \* an interface value that Interface made
  told,   \* what the last call answered
  view,   \* (history) of val: the slot Go's Value refers to, if addressable, its
          \* content when it was made, the deviations on its way
  bound   \* (history) of kept: its content when it was made, the deviations

vars == <<heap, val, typ, kept, told, view, bound>>

-----------------------------------------------------------------------------
\* Types -----------------------------------------------------------------------

Unset == "unset"   \* where the target's zero reflect.Value has no rtype at all

IsAggregate(T) == Has(T, "struct") \/ Has(T, "array")
PartTypes(T) ==
  CASE Has(T, "struct") -> U(T).fields
    [] Has(T, "array") -> [i \in 1 .. U(T).len |-> U(T).elem]
    [] OTHER -> <<>>

\* The types in which aggregates are nested less than n deep.
Nesting[n \in 0 .. MaxNesting] ==
  IF n = 0 THEN {}
  ELSE {T \in DOMAIN Def : \A i \in DOMAIN PartTypes(T) : PartTypes(T)[i] \in Nesting[n - 1]}

\* types.NewPointer and types.NewSlice, for types the program has.
PointersTo(T) == {P \in DOMAIN Def : Def[P].kind = "ptr" /\ Def[P].elem = T}
SlicesOf(T) == {S \in DOMAIN Def : Def[S].kind = "slice" /\ Def[S].elem = T}

\* The dynamic type of the host value that stands for a value of type T.
TagOf(T) ==
  IF Has(T, "map") /\ ReflectKind(U(T).key) \in {"struct", "array", "iface"}
  THEN "hashmap"
  ELSE ReflectKind(T)

Signed == {"int"}
Unsigned == {"uint8"}
Bits == [int |-> 64, uint8 |-> 8, bool |-> 8, string |-> 128]
Composed == {"ptr", "slice", "array", "struct", "map", "chan", "func", "iface"}

\* Boxed values ------------------------------------------------------------------

Nothing == [tag |-> "none"]
Num(tag, n) == [tag |-> tag, n |-> n]
Dyn(T, v) == [tag |-> "iface", t |-> T, v |-> v]
NilIface == Dyn(NoType, Nothing)
\* A place is the number of a variable and the path of a part of it.
NoPlace == <<>>
Under(c, i) == <<c[1], Append(c[2], i)>>

Ptr(c) == [tag |-> "ptr", cell |-> c]            \* NoPlace for nil
Slice(nil, slots) == [tag |-> "slice", nil |-> nil, slots |-> slots]
Map(tag, nil, entries) == [tag |-> tag, nil |-> nil, entries |-> entries]
Chan(nil, cap) == [tag |-> "chan", nil |-> nil, cap |-> cap]
Func(nil) == [tag |-> "func", nil |-> nil]

\* An aggregate whose slots nothing else can reach; one with the slots `cells'.
Fresh(tag, parts) == [tag |-> tag, parts |-> parts]
InPlace(tag, cells) == [tag |-> tag, cells |-> cells]

IsInPlace(v) == "cells" \in DOMAIN v
Places(v) == IF IsInPlace(v) THEN v.cells ELSE v.parts
Part(v, i) == IF IsInPlace(v) THEN heap[v.cells[i]].v ELSE v.parts[i]

\* load, of a slot
Loaded[c \in DOMAIN heap] ==
  IF IsInPlace(heap[c].v)
  THEN Fresh(heap[c].v.tag, [i \in DOMAIN heap[c].v.cells |-> Loaded[heap[c].v.cells[i]]])
  ELSE heap[c].v

Load(v) ==
  IF IsInPlace(v) THEN Fresh(v.tag, [i \in DOMAIN v.cells |-> Loaded[v.cells[i]]]) ELSE v

\* The value, or what the interface holds, with no slot of a variable in it.
Content(v) == IF v.tag = "iface" THEN Dyn(v.t, Load(v.v)) ELSE Load(v)

\* zero
Zero[T \in DOMAIN Def] ==
  CASE IsAggregate(T) ->
         Fresh(ReflectKind(T), [i \in DOMAIN PartTypes(T) |-> Zero[PartTypes(T)[i]]])
    [] ReflectKind(T) = "iface" -> NilIface
    [] ReflectKind(T) = "ptr" -> Ptr(NoPlace)
    [] ReflectKind(T) = "slice" -> Slice(TRUE, <<>>)
    [] ReflectKind(T) = "map" -> Map(TagOf(T), TRUE, <<>>)
    [] ReflectKind(T) = "chan" -> Chan(TRUE, 0)
    [] ReflectKind(T) = "func" -> Func(TRUE)
    [] OTHER -> Num(TagOf(T), 0)

\* The types of the slots of a variable of type T, by their paths.
Laid[T \in DOMAIN Def] ==
  LET parts == PartTypes(T)
      paths == {<<>>} \cup UNION {{<<i>> \o p : p \in DOMAIN Laid[parts[i]]} : i \in DOMAIN parts}
  IN [p \in paths |-> IF p = <<>> THEN T ELSE Laid[parts[Head(p)]][Tail(p)]]

\* The slots of a new variable x of type T.
Slots(x, T) ==
  [c \in {<<x, p>> : p \in DOMAIN Laid[T]} |->
     LET S == Laid[T][c[2]]
     IN [t |-> S,
         v |-> IF IsAggregate(S)
               THEN InPlace(ReflectKind(S), [i \in DOMAIN PartTypes(S) |-> Under(c, i)])
               ELSE Zero[S]]]

InitHeap ==
  [c \in UNION {DOMAIN Slots(x, Vars[x]) : x \in DOMAIN Vars} |->
     LET slot == Slots(c[1], Vars[c[1]])[c]
     IN IF c \in DOMAIN Initial THEN [slot EXCEPT !.v = Initial[c]] ELSE slot]

\* v looks, from outside, like a value of type T, where h is the heap.
FitsOutside(h, T, v) ==
  LET IsSlot(c, S) == c \in DOMAIN h /\ h[c].t = S
  IN CASE ~IsType(T) -> v = Nothing
       [] Has(T, "iface") ->
            /\ v.tag = "iface" /\ v = Dyn(v.t, v.v)
            /\ v.t = NoType \/ (IsType(v.t) /\ ~Has(v.t, "iface"))
       [] IsAggregate(T) ->
            /\ v.tag = ReflectKind(T)
            /\ DOMAIN Places(v) = DOMAIN PartTypes(T)
            /\ IsInPlace(v) => \A i \in DOMAIN v.cells : IsSlot(v.cells[i], PartTypes(T)[i])
       [] Has(T, "ptr") ->
            /\ v.tag = "ptr" /\ v = Ptr(v.cell)
            /\ v.cell = NoPlace \/ IsSlot(v.cell, U(T).elem)
       [] Has(T, "slice") ->
            /\ v.tag = "slice" /\ v = Slice(v.nil, v.slots)
            /\ v.nil \in BOOLEAN /\ (v.nil => v.slots = <<>>)
            /\ \A i \in DOMAIN v.slots : IsSlot(v.slots[i], U(T).elem)
       [] Has(T, "map") ->
            /\ v.tag = TagOf(T) /\ v = Map(v.tag, v.nil, v.entries)
            /\ v.nil \in BOOLEAN /\ (v.nil => v.entries = <<>>)
       [] Has(T, "chan") ->
            /\ v.tag = "chan" /\ v = Chan(v.nil, v.cap)
            /\ v.nil \in BOOLEAN /\ (v.nil => v.cap = 0)
       [] Has(T, "func") -> v.tag = "func" /\ v = Func(v.nil) /\ v.nil \in BOOLEAN
       [] OTHER -> v.tag = TagOf(T)

\* The values directly in a value of type T, with their types.
Inside(h, T, v) ==
  CASE Has(T, "iface") -> {<<v.t, v.v>>}
    [] IsAggregate(T) ->
         {<<PartTypes(T)[i], IF IsInPlace(v) THEN h[v.cells[i]].v ELSE v.parts[i]>> : i \in DOMAIN PartTypes(T)}
    [] Has(T, "map") ->
         UNION {{<<U(T).key, v.entries[i].key>>, <<U(T).elem, v.entries[i].val>>} : i \in DOMAIN v.entries}
    [] OTHER -> {}

\* The value and those nested in it, as far as they fit.
Within(h, T, v) ==
  LET To[n \in 0 .. MaxNesting] ==
        IF n = 0 THEN {<<T, v>>}
        ELSE LET outer == To[n - 1]
             IN outer \cup UNION {Inside(h, q[1], q[2]) : q \in {p \in outer : FitsOutside(h, p[1], p[2])}}
  IN To[MaxNesting]

\* v is a value that code compiled for type T can work on.
Fits(T, v) == \A q \in Within(heap, T, v) : FitsOutside(heap, q[1], q[2])

\* go/types: no aggregate has a part of its own type; what is under a named type has no name.
ASSUME TypesAssumption ==
  /\ MaxNesting \in Nat
  /\ {NoType, Unset} \cap DOMAIN Def = {}
  /\ Nesting[MaxNesting] = DOMAIN Def
  /\ \A T \in DOMAIN Def :
       /\ Def[T].kind \in DOMAIN Bits \cup Composed \cup {"named"}
       /\ Def[T].kind = "named" => Def[T].under \in DOMAIN Def /\ Def[Def[T].under].kind # "named"
       /\ Def[T].kind = "struct" => Def[T].fields \in Seq(DOMAIN Def)
       /\ Def[T].kind = "array" => Def[T].len \in Nat
       /\ Def[T].kind \in {"array", "ptr", "slice", "chan", "map"} => Def[T].elem \in DOMAIN Def
       /\ Def[T].kind = "map" => Def[T].key \in DOMAIN Def
       /\ Def[T].kind = "func" => Def[T].ins \in Seq(DOMAIN Def) /\ Def[T].outs \in Seq(DOMAIN Def)

\* The compiler: what the program stores to its variables, before and while it reflects, has
\* the variable's type, and none of the variable's slots in it.
ASSUME ValuesAssumption ==
  LET Right(T, v) ==
        /\ ~IsAggregate(T)
        /\ \A q \in Within(InitHeap, T, v) :
             /\ FitsOutside(InitHeap, q[1], q[2]) /\ ~IsInPlace(q[2])
             /\ Inside(InitHeap, q[1], q[2]) \subseteq Within(InitHeap, T, v)
  IN /\ Vars \in Seq(DOMAIN Def)
     /\ \A c \in DOMAIN Initial : c \in DOMAIN InitHeap /\ Right(InitHeap[c].t, Initial[c])
     /\ \A T \in DOMAIN Stored : IsType(T) /\ \A v \in Stored[T] : Right(T, v)

-----------------------------------------------------------------------------
\* The calls --------------------------------------------------------------------

\* The program's var v reflect.Value: initReflect gives the type two interface fields.
ZeroValue == [t |-> Unset, v |-> NilIface]
ZeroView == [place |-> NoPlace, seen |-> NilIface, why |-> {"unset"}]

Init ==
  /\ heap = InitHeap
  /\ val = ZeroValue /\ view = ZeroView
  /\ typ = NoType
  /\ kept = NilIface
  /\ told = [op |-> "call", ok |-> TRUE, is |-> "nothing"]
  /\ bound = [seen |-> Nothing, why |-> {}]

Done(op, is) == told' = [op |-> op, ok |-> TRUE, is |-> is]
Panics(op) ==
  /\ told' = [op |-> op, ok |-> FALSE, is |-> "panic"]
  /\ UNCHANGED <<heap, val, typ, kept, view, bound>>

\* The call gives the Value (T, v), of the variable at `place' in Go's terms.
Gives(T, v, place, why) ==
  /\ val' = [t |-> T, v |-> v]
  /\ view' = [place |-> place, seen |-> Content(v), why |-> why]
  /\ typ' = NoType
  /\ Done("call", "nothing")
  /\ UNCHANGED <<kept, bound>>

GivesType(T) ==
  /\ typ' = T
  /\ val' = ZeroValue /\ view' = ZeroView
  /\ Done("call", "nothing")
  /\ UNCHANGED <<heap, kept, bound>>

\* Interface values the program makes itself: of the address or the value of a variable.
AddressOf(c) == {Dyn(P, Ptr(c)) : P \in {Q \in DOMAIN Def : Has(Q, "ptr") /\ U(Q).elem = heap[c].t}}
ValueIn(c) == IF Has(heap[c].t, "iface") THEN heap[c].v ELSE Dyn(heap[c].t, Load(heap[c].v))
Made ==
  {NilIface} \cup {ValueIn(c) : c \in DOMAIN heap} \cup UNION {AddressOf(c) : c \in DOMAIN heap}

Idle == val = ZeroValue /\ typ = NoType

\* The program puts down the Value or the Type at hand.
PutDown ==
  /\ ~Idle
  /\ val' = ZeroValue /\ view' = ZeroView /\ typ' = NoType
  /\ Done("call", "nothing")
  /\ UNCHANGED <<heap, kept, bound>>

ValueOf ==
  /\ Idle
  /\ \/ \E x \in Made : Gives(x.t, x.v, NoPlace, {})
     \/ Gives(kept.t, kept.v, NoPlace, bound.why)
  /\ UNCHANGED heap

TypeOf == Idle /\ \E x \in Made \cup {kept} : GivesType(x.t)

\* Value.Type
TypeOfValue ==
  IF val.t = Unset THEN Panics("Type") ELSE GivesType(val.t)

Allocated == {c[1] : c \in DOMAIN heap}

\* reflect.New: a variable of its own.
New ==
  IF ~IsType(typ) THEN Panics("New")
  ELSE \E x \in 1 .. MaxVars :
         /\ x \notin Allocated /\ 1 .. x - 1 \subseteq Allocated
         /\ heap' = [c \in DOMAIN heap \cup DOMAIN Slots(x, typ) |->
                      IF c \in DOMAIN heap THEN heap[c] ELSE Slots(x, typ)[c]]
         /\ \E P \in PointersTo(typ) : Gives(P, Ptr(<<x, <<>>>>), NoPlace, {})

\* reflect.Zero
ZeroOf ==
  IF ~IsType(typ) THEN Panics("Zero")
  ELSE Gives(typ, Zero[typ], NoPlace, {}) /\ UNCHANGED heap

\* Mutant: the type of the pointer has to be unnamed.
PointsUnnamed == val.v.tag = "ptr" /\ Has(val.t, "ptr") /\ Def[val.t].kind = "ptr" /\ val.v.cell # NoPlace

\* The host has a slot to read, and the type assertion on the Value's type succeeds.
Points == val.v.tag = "ptr" /\ Has(val.t, "ptr") /\ val.v.cell # NoPlace

\* Mutant: the value is loaded from the variable.
ElemLoads ==
  IF val.v.tag = "iface" \/ Points
  THEN /\ IF val.v.tag = "iface"
          THEN Gives(val.v.t, val.v.v, NoPlace, view.why)
          ELSE Gives(U(val.t).elem, Load(heap[val.v.cell].v), val.v.cell, view.why)
       /\ UNCHANGED heap
  ELSE Panics("Elem")

\* Value.Elem: what the interface holds, or what is in the slot, an aggregate by reference.
Elem ==
  IF val.v.tag = "iface" \/ Points
  THEN /\ IF val.v.tag = "iface"
          THEN Gives(val.v.t, val.v.v, NoPlace, view.why)
          ELSE Gives(U(val.t).elem, heap[val.v.cell].v, val.v.cell, view.why)
       /\ UNCHANGED heap
  ELSE Panics("Elem")

\* Go's Value of a part refers to a variable if the Value of the whole does.
PlaceOfPart(i) == IF view.place = NoPlace THEN NoPlace ELSE Under(view.place, i)

\* Value.Field
Field ==
  IF val.v.tag = "struct" /\ Has(val.t, "struct")
  THEN \E i \in DOMAIN PartTypes(val.t) :
         IF i \in DOMAIN Places(val.v)
         THEN /\ Gives(PartTypes(val.t)[i], Part(val.v, i), PlaceOfPart(i), view.why)
              /\ UNCHANGED heap
         ELSE Panics("Field")
  ELSE Panics("Field")

\* Value.Index, with an index in range
Index ==
  \/ /\ val.v.tag = "array" /\ Has(val.t, "array")
     /\ \E i \in DOMAIN Places(val.v) :
          Gives(U(val.t).elem, Part(val.v, i), PlaceOfPart(i), view.why)
     /\ UNCHANGED heap
  \/ /\ val.v.tag = "slice" /\ Has(val.t, "slice")
     /\ \E i \in DOMAIN val.v.slots :
          Gives(U(val.t).elem, heap[val.v.slots[i]].v, val.v.slots[i], view.why)
     /\ UNCHANGED heap
  \/ /\ ~\E k \in {"array", "slice"} : val.v.tag = k /\ Has(val.t, k)
     /\ Panics("Index")

HasMap == val.v.tag \in {"map", "hashmap"} /\ Has(val.t, "map")

\* Value.MapIndex: the value is given the type of the map's keys.
MapIndex ==
  IF HasMap
  THEN /\ \/ \E i \in DOMAIN val.v.entries :
               Gives(U(val.t).key, val.v.entries[i].val, NoPlace,
                     view.why \cup (IF U(val.t).key = U(val.t).elem THEN {} ELSE {"mapindex"}))
          \/ Gives(NoType, Nothing, NoPlace, view.why)   \* no such key
       /\ UNCHANGED heap
  ELSE Panics("MapIndex")

\* Mutant: the keys have the type of the elements.
MapKeysElem ==
  IF HasMap
  THEN /\ \E i \in DOMAIN val.v.entries : Gives(U(val.t).elem, val.v.entries[i].key, NoPlace, view.why)
       /\ UNCHANGED heap
  ELSE Panics("MapKeys")

\* Value.MapKeys, and one of the Values it gives.
MapKeys ==
  IF HasMap
  THEN /\ \E i \in DOMAIN val.v.entries : Gives(U(val.t).key, val.v.entries[i].key, NoPlace, view.why)
       /\ UNCHANGED heap
  ELSE Panics("MapKeys")

\* Value.Interface: with the Value's type and its value as they are.
Interface ==
  IF val.t = Unset THEN Panics("Interface")
  ELSE /\ kept' = Dyn(val.t, val.v)
       /\ bound' = [seen |-> Content(val.v),
                    why |-> view.why
                            \cup (IF Has(val.t, "iface") THEN {"nested"} ELSE {})
                            \cup (IF view.place # NoPlace /\ IsInPlace(val.v) THEN {"shared"} ELSE {})]
       /\ Done("call", "nothing")
       /\ UNCHANGED <<heap, val, typ, view>>

-----------------------------------------------------------------------------
\* Calls that answer without a Value ---------------------------------------------

Takes ==
  [Int |-> Signed, Uint |-> Unsigned, Bool |-> {"bool"},
   Len |-> {"string", "array", "chan", "slice", "map", "hashmap"},
   IsNil |-> {"ptr", "chan", "map", "hashmap", "iface", "slice", "func"},
   NumField |-> {"struct"}, Pointer |-> {"ptr", "chan", "slice", "map", "hashmap", "func"}]

IsNilValue(v) ==
  CASE v.tag = "ptr" -> v.cell = NoPlace
    [] v.tag = "iface" -> ~IsType(v.t)
    [] OTHER -> v.nil

LenOf(v) ==
  CASE v.tag = "string" -> v.n
    [] v.tag = "array" -> Len(Places(v))
    [] v.tag = "chan" -> v.cap
    [] v.tag = "slice" -> Len(v.slots)
    [] OTHER -> Len(v.entries)

Answer(op, v) ==
  CASE op = "IsNil" -> IsNilValue(v)
    [] op = "Len" -> LenOf(v)
    [] op = "NumField" -> Len(Places(v))
    [] op = "Pointer" -> "address"
    [] OTHER -> v.n

\* A query of the Value: the host's assertion on the boxed value decides.
Ask ==
  \E op \in DOMAIN Takes :
    IF val.v.tag \in Takes[op]
    THEN Done(op, Answer(op, val.v)) /\ UNCHANGED <<heap, val, typ, kept, view, bound>>
    ELSE Panics(op)

\* Kind, of the Value or of the Type.
Kind(op, T) ==
  IF IsType(T)
  THEN Done(op, ReflectKind(T)) /\ UNCHANGED <<heap, val, typ, kept, view, bound>>
  ELSE Panics(op)

\* CanAddr, CanInterface, IsValid, Set: answers that do not depend on the type.
AskFixed ==
  /\ \/ Done("CanAddr", FALSE) \/ Done("CanInterface", TRUE)
     \/ Done("IsValid", val.v # Nothing) \/ Done("Set", "nothing")
  /\ UNCHANGED <<heap, val, typ, kept, view, bound>>

-----------------------------------------------------------------------------
\* Methods of Type ----------------------------------------------------------------

HasElem == {"ptr", "slice", "array", "chan", "map"}

TypeElem ==
  IF IsType(typ) /\ ReflectKind(typ) \in HasElem
  THEN GivesType(U(typ).elem)
  ELSE Panics("Type.Elem")

TypeField ==
  IF Has(typ, "struct")
  THEN \E i \in DOMAIN U(typ).fields : GivesType(U(typ).fields[i])
  ELSE Panics("Type.Field")

\* In and Out assert that the type is a signature, not its underlying type.
TypeIn ==
  IF IsType(typ) /\ Def[typ].kind = "func"
  THEN \E i \in DOMAIN Def[typ].ins : GivesType(Def[typ].ins[i])
  ELSE Panics("Type.In")

TypeOut ==
  IF IsType(typ) /\ Def[typ].kind = "func"
  THEN \E i \in DOMAIN Def[typ].outs : GivesType(Def[typ].outs[i])
  ELSE Panics("Type.Out")

SliceOf ==
  IF IsType(typ) THEN \E S \in SlicesOf(typ) : GivesType(S) ELSE Panics("SliceOf")

AskType ==
  LET Tells(op, may, n) ==
        IF may THEN Done(op, n) /\ UNCHANGED <<heap, val, typ, kept, view, bound>> ELSE Panics(op)
  IN \/ Tells("Type.NumField", Has(typ, "struct"), Len(U(typ).fields))
     \/ Tells("Type.NumIn", IsType(typ) /\ Def[typ].kind = "func", Len(Def[typ].ins))
     \/ Tells("Type.NumOut", IsType(typ) /\ Def[typ].kind = "func", Len(Def[typ].outs))
     \/ Tells("Type.Bits", IsType(typ) /\ ReflectKind(typ) \in DOMAIN Bits, Bits[ReflectKind(typ)])

-----------------------------------------------------------------------------
\* store, to a variable or a part of one.
Store ==
  \E c \in DOMAIN heap : heap[c].t \in DOMAIN Stored /\
    \E v \in Stored[heap[c].t] :
      /\ heap' = [heap EXCEPT ![c].v = v]
      /\ Done("call", "nothing")
      /\ UNCHANGED <<val, typ, kept, view, bound>>

Next ==
  \/ PutDown \/ ValueOf \/ TypeOf \/ TypeOfValue \/ New \/ ZeroOf
  \/ Elem \/ Field \/ Index \/ MapIndex \/ MapKeys \/ Interface
  \/ Ask \/ Kind("Kind", val.t) \/ Kind("Type.Kind", typ) \/ AskFixed
  \/ TypeElem \/ TypeField \/ TypeIn \/ TypeOut \/ SliceOf \/ AskType
  \/ Store

Spec == Init /\ [][Next]_vars

-----------------------------------------------------------------------------
\* Properties -----------------------------------------------------------------

\* Whatever calls the program chains, the boxed value in a Value or in an interface value
\* is one that code compiled for its type can work on: but for what came out of
\* MapIndex, for the target's zero Value and for interface values in interface values.
ValuesFit ==
  /\ view.why \cap {"mapindex", "unset"} = {} => Fits(val.t, val.v)
  /\ bound.why \cap {"mapindex", "unset", "nested"} = {} =>
       /\ Fits(kept.t, kept.v)
       /\ IsType(kept.t) => ~Has(kept.t, "iface")
  /\ IsType(typ) \/ typ = NoType

\* What package reflect allows, by kind.
AllowsValue ==
  [Elem |-> {"ptr", "iface"}, Field |-> {"struct"}, Index |-> {"array", "slice", "string"},
   MapIndex |-> {"map"}, MapKeys |-> {"map"}, Int |-> Signed, Uint |-> Unsigned,
   Bool |-> {"bool"}, Len |-> {"array", "slice", "string", "map", "chan"},
   IsNil |-> {"ptr", "iface", "slice", "map", "chan", "func"}, NumField |-> {"struct"},
   Pointer |-> {"ptr", "slice", "map", "chan", "func"}]
AllowsType ==
  [op \in {"Type.Elem", "Type.Field", "Type.NumField", "Type.In", "Type.Out", "Type.NumIn",
           "Type.NumOut", "Type.Bits"} |->
     CASE op = "Type.Elem" -> HasElem
       [] op \in {"Type.Field", "Type.NumField"} -> {"struct"}
       [] op = "Type.Bits" -> {"int", "uint8"}
       [] OTHER -> {"func"}]

Allowed(op) ==
  \/ op \in DOMAIN AllowsValue /\ IsType(val.t) /\ ReflectKind(val.t) \in AllowsValue[op]
  \/ op \in DOMAIN AllowsType /\ IsType(typ) /\ ReflectKind(typ) \in AllowsType[op]
  \/ op \in {"New", "Zero", "SliceOf", "Type.Kind"} /\ IsType(typ)
  \/ op \in {"Type", "Interface"} /\ IsType(val.t)
  \/ op = "Kind"   \* of the invalid Value: Invalid

\* A call that package reflect allows on the kind at hand does not end in a failed
\* assertion of the host, but for these: calls on the target's zero Value and on one that
\* has the wrong type since MapIndex; Elem of a nil pointer; Index of a string; what asks
\* for the parameters and results of a named function type; and Kind of a Value without
\* a type, as of ValueOf(nil) or of a key the map lacks (reflect.go:240).  IsNil, which
\* asks the boxed value without its type, answers whether the Value is zero.
CallsAnswer ==
  /\ ~told.ok /\ Allowed(told.op) =>
       \/ view.why \cap {"mapindex", "unset"} # {} /\ typ = NoType
       \/ told.op = "Elem" /\ val.v = Ptr(NoPlace)
       \/ told.op = "Index" /\ Has(val.t, "string")
       \/ told.op \in {"Type.In", "Type.Out", "Type.NumIn", "Type.NumOut"} /\ Def[typ].kind = "named"
       \/ told.op = "Kind" /\ ~IsType(val.t)
  /\ told.ok /\ told.op = "IsNil" /\ view.why \cap {"mapindex", "unset"} = {} =>
       told.is = (val.v = Zero[val.t])

\* A Value of an aggregate that Go could address shows the variable as it is now, as
\* Go's does; any other keeps what it was made with (where Go's Value of a scalar
\* variable would show the variable).  An interface value never changes, unless
\* Interface made it of such an aggregate: then it changes with the variable.  Nothing
\* is said of a Value of a variable that has the wrong type since MapIndex.
ContentAsGo ==
  /\ "shared" \notin view.why /\ ("mapindex" \in view.why => view.place = NoPlace) =>
       Content(val.v) = IF view.place # NoPlace /\ IsAggregate(val.t)
                        THEN Content(heap[view.place].v) ELSE view.seen
  /\ "shared" \notin bound.why => Content(kept.v) = bound.seen

=============================================================================
