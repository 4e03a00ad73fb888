------------------------------- MODULE Memory -------------------------------
(***************************************************************************)
(* The interpreter's memory.  Every variable is a slot that holds a boxed  *)
(* value; a struct or array value is itself a host slice of slots, so that *)
(* &x.f is a slot of its own.  load and store copy aggregates, a register  *)
(* holds one by reference, and the host's append and copy move the boxed   *)
(* contents of the slots of a slice.                                       *)
(*                                                                         *)
(* A type is the set of the paths to the parts of its values: {} is scalar *)
(* and {<<1>>, <<2>>} has two scalar fields.  The program is arbitrary but *)
(* well typed; it has one pointer and one value at hand and a few slice    *)
(* variables.  A history variable says which part of which variable the    *)
(* pointer designates in Go's terms, and the elements of a slice likewise. *)
(***************************************************************************)
EXTENDS Integers, Sequences, FiniteSets

CONSTANTS
  Types,        \* the types of variables the program declares
  Elem,         \* the type of the elements of its slices
  SliceVars,    \* its slice variables
  Scalars,      \* the constants it uses, 0 among them
  MaxCells,     \* bound on the slots allocated
  Makes,        \* the lengths and capacities it asks make for
  Cuts,         \* the bounds <<low, high, max>> in its slice expressions
  MaxSpare      \* bound on the spare capacity the host's append leaves

\* A type: with a path also the one to the whole and those to the parts before.
Whole(path) == SubSeq(path, 1, Len(path) - 1)
IsType(T) ==
  /\ IsFiniteSet(T) /\ T \subseteq Seq(Nat \ {0}) /\ <<>> \notin T
  /\ \A q \in T : /\ Whole(q) \in T \cup {<<>>}
                  /\ q[Len(q)] # 1 => Append(Whole(q), q[Len(q)] - 1) \in T

ASSUME TypesAssumption == \A T \in Types \cup {Elem} : IsType(T)
ASSUME MemoryAssumption ==
  /\ 0 \in Scalars /\ Scalars \subseteq Nat
  /\ MaxCells \in Nat /\ MaxSpare \in Nat
  /\ Makes \subseteq Nat \X Nat
  /\ Cuts \subseteq Nat \X Nat \X Nat

VARIABLES
  heap,     \* the contents of the slots allocated so far
  typeOf,   \* (history) the type of each variable; a variable is named by its slot
  ptr,      \* the slot the pointer at hand points at, 0 for nil
  place,    \* (history) the variable and the path in it that the pointer designates
  reg,      \* the value at hand
  regType,  \* its static type
  slices,   \* the slots of a slice up to its capacity, its length, and its spots
  exposed   \* (history) a slice was made to reach into the spare slots of an append

vars == <<heap, typeOf, ptr, place, reg, regType, slices, exposed>>

-----------------------------------------------------------------------------
\* Types -----------------------------------------------------------------------

From(path, r) == SubSeq(r, Len(path) + 1, Len(r))
Under(path, r) == Len(r) > Len(path) /\ SubSeq(r, 1, Len(path)) = path

Sub(T, path) == {From(path, r) : r \in {q \in T : Under(path, q)}}
Width(T) == Cardinality({q \in T : Len(q) = 1})
Leaves(T) == IF T = {} THEN {<<>>} ELSE {q \in T : Sub(T, q) = {}}

\* The order in which the slots of a value of type T are allocated; any will do.
Number(T) ==
  CHOOSE f \in [T -> 1 .. Cardinality(T)] : \A q, r \in T : f[q] = f[r] => q = r
PathOf(T, k) == CHOOSE q \in T : Number(T)[q] = k

\* Boxed values ------------------------------------------------------------------

Num(n) == [tag |-> "num", n |-> n]
Nil == [tag |-> "nil", n |-> -1]   \* the host's nil interface, no value of the target

\* The part at `path' of a value of type T whose slots are base + 1, base + 2 ...
PartAt(T, base, path) ==
  LET w == Width(Sub(T, path))
  IN IF w = 0
     THEN Num(0)
     ELSE [tag |-> "agg", cells |-> [i \in 1 .. w |-> base + Number(T)[Append(path, i)]]]

\* zero(T): the value, and the contents of its slots.
Zero(T, base) == PartAt(T, base, <<>>)

ZeroCells(T, base) == [k \in 1 .. Cardinality(T) |-> PartAt(T, base, PathOf(T, k))]

\* The part of the value v at a path; the slot of the part of slot a at a path.
Part(v, path) ==
  LET part[n \in 0 .. Len(path)] == IF n = 0 THEN v ELSE heap[part[n - 1].cells[path[n]]]
  IN part[Len(path)]
CellAt(a, path) ==
  LET cell[n \in 0 .. Len(path)] == IF n = 0 THEN a ELSE heap[cell[n - 1]].cells[path[n]]
  IN cell[Len(path)]

NewSpot(o) == [obj |-> o, path |-> <<>>]
NextCell == Len(heap) + 1
Fits(n) == Len(heap) + n <= MaxCells
PtrType == Sub(typeOf[place.obj], place.path)
Typed(objs, T) ==
  [o \in DOMAIN typeOf \cup objs |-> IF o \in objs THEN T ELSE typeOf[o]]

Init ==
  /\ heap = <<>>
  /\ typeOf = [o \in {} |-> {}]
  /\ ptr = 0
  /\ place = NewSpot(0)
  /\ reg = Num(0)
  /\ regType = {}
  /\ slices = [v \in SliceVars |-> [cells |-> <<>>, len |-> 0, spots |-> <<>>]]
  /\ exposed = FALSE

-----------------------------------------------------------------------------
\* Instructions ---------------------------------------------------------------

\* Alloc of a variable that escapes.
AllocHeap(T) ==
  /\ Fits(1 + Cardinality(T))
  /\ heap' = heap \o <<Zero(T, NextCell)>> \o ZeroCells(T, NextCell)
  /\ typeOf' = Typed({NextCell}, T)
  /\ ptr' = NextCell
  /\ place' = NewSpot(NextCell)
  /\ UNCHANGED <<reg, regType, slices, exposed>>

\* Alloc of a local variable executed again: its slot gets a new zero value.  The
\* SSA builder makes a variable local only if no pointer into it outlives this.
AllocLocal(o) ==
  /\ o # place.obj
  /\ \A v \in SliceVars : \A i \in DOMAIN slices[v].spots : slices[v].spots[i].obj # o
  /\ heap[o] # Nil
  /\ Fits(Cardinality(typeOf[o]))
  /\ heap' = [heap EXCEPT ![o] = Zero(typeOf[o], Len(heap))] \o ZeroCells(typeOf[o], Len(heap))
  /\ UNCHANGED <<typeOf, ptr, place, reg, regType, slices, exposed>>

\* The program uses the address of a variable again; not of one that holds the host's
\* nil, as a spare slot does and what is stored from one.
UseVar(o) ==
  /\ heap[o] # Nil
  /\ ptr' = o
  /\ place' = NewSpot(o)
  /\ UNCHANGED <<heap, typeOf, reg, regType, slices, exposed>>

\* FieldAddr, and IndexAddr of a pointer to an array.
FieldAddr(i) ==
  /\ ptr # 0
  /\ heap[ptr].tag = "agg"
  /\ i \in DOMAIN heap[ptr].cells
  /\ ptr' = heap[ptr].cells[i]
  /\ place' = [place EXCEPT !.path = Append(@, i)]
  /\ UNCHANGED <<heap, typeOf, reg, regType, slices, exposed>>

\* IndexAddr of a slice.
IndexAddr(v, i) ==
  /\ i \in 1 .. slices[v].len
  /\ ptr' = slices[v].cells[i]
  /\ place' = slices[v].spots[i]
  /\ UNCHANGED <<heap, typeOf, reg, regType, slices, exposed>>

Const(n) ==
  /\ reg' = Num(n)
  /\ regType' = {}
  /\ UNCHANGED <<heap, typeOf, ptr, place, slices, exposed>>

\* Mutant: the value is not copied.
LoadShared ==
  /\ ptr # 0
  /\ reg' = heap[ptr]
  /\ regType' = PtrType
  /\ UNCHANGED <<heap, typeOf, ptr, place, slices, exposed>>

\* load: a scalar is read, an aggregate is copied into slots of its own.  An aggregate
\* that is not there is a failed type assertion.
Load ==
  /\ ptr # 0
  /\ heap[ptr] = Nil => PtrType = {}
  /\ LET T == PtrType
         base == Len(heap)
         old(k) == Part(heap[ptr], PathOf(T, k))
     IN /\ regType' = T
        /\ \/ T = {} /\ reg' = heap[ptr] /\ UNCHANGED heap
           \/ /\ T # {}
              /\ Fits(Cardinality(T))
              /\ reg' = Zero(T, base)
              /\ heap' = heap \o [k \in 1 .. Cardinality(T) |->
                            IF PathOf(T, k) \in Leaves(T) THEN old(k)
                            ELSE PartAt(T, base, PathOf(T, k))]
  /\ UNCHANGED <<typeOf, ptr, place, slices, exposed>>

\* Mutant: the slot gets the aggregate of the register.
StoreReplaces ==
  /\ ptr # 0
  /\ regType = PtrType
  /\ heap' = [heap EXCEPT ![ptr] = reg]
  /\ UNCHANGED <<typeOf, ptr, place, reg, regType, slices, exposed>>

\* store: the scalar parts are copied into the slots that are there, which an aggregate
\* that is not there has not: a failed type assertion.
Store ==
  /\ ptr # 0
  /\ regType = PtrType
  /\ heap[ptr] = Nil => regType = {}
  /\ heap' = [c \in DOMAIN heap |->
                LET hit == {q \in Leaves(regType) : CellAt(ptr, q) = c}
                IN IF hit = {} THEN heap[c] ELSE Part(reg, CHOOSE q \in hit : TRUE)]
  /\ UNCHANGED <<typeOf, ptr, place, reg, regType, slices, exposed>>

\* Field, and Index of an array: the part, by reference.
Field(i) ==
  /\ reg.tag = "agg"
  /\ i \in DOMAIN reg.cells
  /\ reg' = heap[reg.cells[i]]
  /\ regType' = Sub(regType, <<i>>)
  /\ UNCHANGED <<heap, typeOf, ptr, place, slices, exposed>>

\* Slices ------------------------------------------------------------------------

\* MakeSlice: every slot up to the capacity gets a zero value of its own.
MakeSlice(v, n, cap) ==
  /\ n <= cap
  /\ LET size == 1 + Cardinality(Elem)
         slot(i) == NextCell + (i - 1) * size
     IN /\ Fits(cap * size)
        /\ heap' = heap \o [k \in 1 .. cap * size |->
                              LET i == ((k - 1) \div size) + 1
                                  j == (k - 1) % size
                              IN IF j = 0 THEN Zero(Elem, slot(i))
                                 ELSE ZeroCells(Elem, slot(i))[j]]
        /\ typeOf' = Typed({slot(i) : i \in 1 .. cap}, Elem)
        /\ slices' = [slices EXCEPT ![v] =
                        [cells |-> [i \in 1 .. cap |-> slot(i)], len |-> n,
                         spots |-> [i \in 1 .. cap |-> NewSpot(slot(i))]]]
  /\ UNCHANGED <<ptr, place, reg, regType, exposed>>

\* Slice of a slice: u[l:h:m], for any bounds up to the capacity.  Behind an append's
\* elements there may be spare slots: the program then gets the host's nil for
\* elements that are zero in Go.
SliceSlice(v, u, l, h, m) ==
  /\ l <= h
  /\ h <= m
  /\ m <= Len(slices[u].cells)
  /\ slices' = [slices EXCEPT ![v] = [cells |-> SubSeq(slices[u].cells, l + 1, m),
                                      len |-> h - l,
                                      spots |-> SubSeq(slices[u].spots, l + 1, m)]]
  /\ exposed' = (exposed \/ \E i \in l + 1 .. h : heap[slices[u].cells[i]] = Nil)
  /\ UNCHANGED <<heap, typeOf, ptr, place, reg, regType>>

\* Slice of a pointer to an array: the slice has the array's own slots.
SliceArray(v) ==
  /\ ptr # 0
  /\ heap[ptr].tag = "agg"
  /\ \A i \in DOMAIN heap[ptr].cells : Sub(PtrType, <<i>>) = Elem
  /\ LET n == Len(heap[ptr].cells)
     IN slices' = [slices EXCEPT ![v] =
                     [cells |-> heap[ptr].cells, len |-> n,
                      spots |-> [i \in 1 .. n |-> [place EXCEPT !.path = Append(@, i)]]]]
  /\ UNCHANGED <<heap, typeOf, ptr, place, reg, regType, exposed>>

\* Mutant: the elements are moved one by one, from the first to the last.
MovedInTurn(to, from) ==
  LET after[i \in 0 .. Len(to)] ==
        IF i = 0 THEN heap ELSE [after[i - 1] EXCEPT ![to[i]] = after[i - 1][from[i]]]
  IN after[Len(to)]

\* The heap after the contents of the slots `from' were moved to the slots `to'.
Moved(to, from) ==
  [c \in DOMAIN heap |->
     LET hit == {i \in DOMAIN to : to[i] = c}
     IN IF hit = {} THEN heap[c] ELSE heap[from[CHOOSE i \in hit : TRUE]]]

Cells(s) == SubSeq(s.cells, 1, s.len)

\* v = append(u, w...) in the spare capacity.
AppendInPlace(v, u, w) ==
  LET n == slices[u].len + slices[w].len
  IN /\ n <= Len(slices[u].cells)
     /\ heap' = Moved(SubSeq(slices[u].cells, slices[u].len + 1, n), Cells(slices[w]))
     /\ slices' = [slices EXCEPT ![v] = [slices[u] EXCEPT !.len = n]]
     /\ UNCHANGED <<typeOf, ptr, place, reg, regType, exposed>>

\* v = append(u, w...) in a new host array, with spare slots that hold nil.
AppendGrow(v, u, w, spare) ==
  LET n == slices[u].len + slices[w].len
      new == [i \in 1 .. n + spare |-> Len(heap) + i]
      from == Cells(slices[u]) \o Cells(slices[w])
  IN /\ n > Len(slices[u].cells)
     /\ Fits(n + spare)
     /\ heap' = heap \o [i \in 1 .. n + spare |-> IF i <= n THEN heap[from[i]] ELSE Nil]
     /\ typeOf' = Typed({new[i] : i \in DOMAIN new}, Elem)
     /\ slices' = [slices EXCEPT ![v] = [cells |-> new, len |-> n,
                                         spots |-> [i \in DOMAIN new |-> NewSpot(new[i])]]]
     /\ UNCHANGED <<ptr, place, reg, regType, exposed>>

\* copy(v, w)
CopySlice(v, w) ==
  LET n == IF slices[v].len < slices[w].len THEN slices[v].len ELSE slices[w].len
  IN /\ heap' = Moved(SubSeq(slices[v].cells, 1, n), SubSeq(slices[w].cells, 1, n))
     /\ UNCHANGED <<typeOf, ptr, place, reg, regType, slices, exposed>>

-----------------------------------------------------------------------------
Next ==
  \/ \E T \in Types : AllocHeap(T)
  \/ \E o \in DOMAIN typeOf : AllocLocal(o) \/ UseVar(o)
  \/ \E i \in 1 .. 2 : FieldAddr(i) \/ Field(i)
  \/ \E n \in Scalars : Const(n)
  \/ Load
  \/ Store
  \/ \E v \in SliceVars :
       \/ \E i \in 1 .. slices[v].len : IndexAddr(v, i)
       \/ \E c \in Makes : MakeSlice(v, c[1], c[2])
       \/ SliceArray(v)
       \/ \E u \in SliceVars :
            \/ \E c \in Cuts : SliceSlice(v, u, c[1], c[2], c[3])
            \/ CopySlice(v, u)
            \/ \E w \in SliceVars :
                 \/ AppendInPlace(v, u, w)
                 \/ \E spare \in 0 .. MaxSpare : AppendGrow(v, u, w, spare)

Spec == Init /\ [][Next]_vars

-----------------------------------------------------------------------------
\* Properties -----------------------------------------------------------------

CellsOf(o) == {CellAt(o, q) : q \in typeOf[o] \cup {<<>>}}
RegCells == {Part(reg, SubSeq(q, 1, Len(q) - 1)).cells[q[Len(q)]] : q \in regType}

\* No two variables, nor a variable and the value in a register, have a slot in
\* common, whatever was loaded, stored, appended and copied before.
NoSharing ==
  LET holding == {o \in DOMAIN typeOf : heap[o] # Nil}
  IN \A o \in holding :
       /\ CellsOf(o) \cap RegCells = {}
       /\ \A p \in holding : p # o => CellsOf(o) \cap CellsOf(p) = {}

\* A pointer to a part of a variable, and a slice of it, designate that part for good:
\* no store to the whole gives the part another slot.
PointersStay ==
  /\ ptr # 0 => ptr = CellAt(place.obj, place.path)
  /\ \A v \in SliceVars : \A i \in DOMAIN slices[v].cells :
       slices[v].cells[i] = CellAt(slices[v].spots[i].obj, slices[v].spots[i].path)

\* The value at a slot, as a function from the paths of its scalar parts.
ValueOf(v, T) == [q \in Leaves(T) |-> Part(v, q).n]

\* What the program sees of the slots: its variables, the value at hand and its slices.
GoMem == [o \in {p \in DOMAIN typeOf : heap[p] # Nil} |-> ValueOf(heap[o], typeOf[o])]
GoReg == ValueOf(reg, regType)
GoSlices == [v \in SliceVars |-> [spots |-> slices[v].spots, len |-> slices[v].len]]

GoSpec == INSTANCE GoMemory WITH mem <- GoMem, reg <- GoReg, slices <- GoSlices

\* To the program the slots are Go's variables: every load, store, append and copy
\* does to them what GoMemory says, until a slice reaches into the spare slots of an
\* append (ops.go:236-276 checks no more than the host does, ops.go:952 leaves nil there).
ImplementsGoMemory == GoSpec!Init /\ [][exposed' \/ GoSpec!Next]_(GoSpec!vars)
=============================================================================
