------------------------------ MODULE GoMemory ------------------------------
(***************************************************************************)
(* What Go promises about variables of struct and array type, pointers     *)
(* into them and slices: a variable holds a value of its own.  The memory  *)
(* model of the interpreter (Memory) implements this one.                  *)
(*                                                                         *)
(* A value is a function from the paths of its scalar parts to scalars, a  *)
(* scalar being the function on the empty path.  A spot is a variable and  *)
(* a path in it: what a pointer designates.                                *)
(***************************************************************************)
EXTENDS Naturals, Sequences

VARIABLES
  mem,     \* the variables: from their names to their values
  place,   \* the spot the pointer at hand designates
  reg,     \* the value at hand
  slices   \* slice variables: their elements' spots, up to the capacity, and length

vars == <<mem, place, reg, slices>>

-----------------------------------------------------------------------------
From(path, r) == SubSeq(r, Len(path) + 1, Len(r))

\* The parts of the value x at or below a path.
Below(x, path) == {r \in DOMAIN x : Len(r) >= Len(path) /\ SubSeq(r, 1, Len(path)) = path}

Read(m, spot) ==
  LET x == m[spot.obj]
  IN [q \in {From(spot.path, r) : r \in Below(x, spot.path)} |-> x[spot.path \o q]]

Write(m, spot, v) ==
  [o \in DOMAIN m \cup {spot.obj} |->
     IF o # spot.obj THEN m[o]
     ELSE IF o \notin DOMAIN m THEN v
     ELSE [r \in DOMAIN m[o] |->
             IF r \in Below(m[o], spot.path) THEN v[From(spot.path, r)] ELSE m[o][r]]]

\* The memory with the values of the spots `from' written to those of `to'; they are
\* all read first, as in a copy between overlapping slices.
WriteAll(to, from) ==
  LET after[i \in 0 .. Len(to)] ==
        IF i = 0 THEN mem ELSE Write(after[i - 1], to[i], Read(mem, from[i]))
  IN after[Len(to)]

Spots(s) == SubSeq(s.spots, 1, s.len)
NewSpot(o) == [obj |-> o, path |-> <<>>]

-----------------------------------------------------------------------------
\* The memory gains variables, with all parts zero.
Created(objs) ==
  /\ objs \cap DOMAIN mem = {}
  /\ DOMAIN mem' = DOMAIN mem \cup objs
  /\ \A o \in DOMAIN mem : mem'[o] = mem[o]
  /\ \A o \in objs : \A q \in DOMAIN mem'[o] : mem'[o][q] = 0

NewVar ==
  /\ \E o \in DOMAIN mem' : Created({o}) /\ place' = NewSpot(o)
  /\ UNCHANGED <<reg, slices>>

\* A variable of an inner scope begins anew.
ZeroVar ==
  /\ \E o \in DOMAIN mem : mem' = [mem EXCEPT ![o] = [q \in DOMAIN @ |-> 0]]
  /\ UNCHANGED <<place, reg, slices>>

MakeSlice(v) ==
  LET s == slices'[v]
      objs == {s.spots[i].obj : i \in DOMAIN s.spots}
  IN /\ s.len <= Len(s.spots)
     /\ \A i \in DOMAIN s.spots : s.spots[i] = NewSpot(s.spots[i].obj)
     /\ \A i, j \in DOMAIN s.spots : s.spots[i] = s.spots[j] => i = j
     /\ Created(objs)
     /\ slices' = [slices EXCEPT ![v] = s]
     /\ UNCHANGED <<place, reg>>

\* The pointer at hand changes: to a variable, a field of what it designates or an
\* element of a slice.
Point ==
  /\ \/ \E o \in DOMAIN mem : place' = NewSpot(o)
     \/ \E i \in 1 .. 2 : place' = [place EXCEPT !.path = Append(@, i)]
     \/ \E v \in DOMAIN slices : \E i \in 1 .. slices[v].len : place' = slices[v].spots[i]
  /\ UNCHANGED <<mem, reg, slices>>

Scalar == reg' \in [{<<>>} -> Nat] /\ UNCHANGED <<mem, place, slices>>

Load ==
  /\ place.obj \in DOMAIN mem
  /\ reg' = Read(mem, place)
  /\ UNCHANGED <<mem, place, slices>>

Store ==
  /\ place.obj \in DOMAIN mem
  /\ DOMAIN reg = DOMAIN Read(mem, place)
  /\ mem' = Write(mem, place, reg)
  /\ UNCHANGED <<place, reg, slices>>

\* The value at hand becomes a field of itself.
Field ==
  /\ \E i \in 1 .. 2 : reg' = Read(<<reg>>, [obj |-> 1, path |-> <<i>>])
  /\ UNCHANGED <<mem, place, slices>>

\* v = append(u, w...): in place if the capacity allows, in new variables otherwise.
AppendSlice(v, u, w) ==
  LET n == slices[u].len + slices[w].len
      s == slices'[v]
  IN /\ s.len = n
     /\ \/ /\ n <= Len(slices[u].spots)
           /\ s.spots = slices[u].spots
           /\ mem' = WriteAll(SubSeq(s.spots, slices[u].len + 1, n), Spots(slices[w]))
        \/ /\ n > Len(slices[u].spots)
           /\ \A i \in DOMAIN s.spots : s.spots[i] = NewSpot(s.spots[i].obj)
           /\ \A i \in DOMAIN s.spots : s.spots[i].obj \notin DOMAIN mem
           /\ \A i, j \in DOMAIN s.spots : s.spots[i] = s.spots[j] => i = j
           /\ mem' = WriteAll(Spots(s), Spots(slices[u]) \o Spots(slices[w]))
     /\ slices' = [slices EXCEPT ![v] = s]
     /\ UNCHANGED <<place, reg>>

CopySlice(v, w) ==
  LET n == IF slices[v].len < slices[w].len THEN slices[v].len ELSE slices[w].len
  IN /\ mem' = WriteAll(SubSeq(slices[v].spots, 1, n), SubSeq(slices[w].spots, 1, n))
     /\ UNCHANGED <<place, reg, slices>>

\* v = u[l:h:m]
Slice(v) ==
  /\ \E u \in DOMAIN slices : \E m \in 0 .. Len(slices[u].spots) : \E h \in 0 .. m, l \in 0 .. m :
       /\ l <= h
       /\ slices' = [slices EXCEPT ![v] = [spots |-> SubSeq(slices[u].spots, l + 1, m),
                                           len |-> h - l]]
  /\ UNCHANGED <<mem, place, reg>>

\* v = p[:] of the array p designates.
SliceArray(v) ==
  /\ LET n == Len(slices'[v].spots)
     IN slices' = [slices EXCEPT ![v] =
                     [spots |-> [i \in 1 .. n |-> [place EXCEPT !.path = Append(@, i)]],
                      len |-> n]]
  /\ UNCHANGED <<mem, place, reg>>

Init ==
  /\ DOMAIN mem = {}
  /\ place = [obj |-> 0, path |-> <<>>]
  /\ reg = [q \in {<<>>} |-> 0]
  /\ \A v \in DOMAIN slices : slices[v] = [spots |-> <<>>, len |-> 0]

Next ==
  \/ NewVar \/ ZeroVar \/ Point \/ Scalar \/ Load \/ Store \/ Field
  \/ \E v \in DOMAIN slices : MakeSlice(v) \/ Slice(v) \/ SliceArray(v)
  \/ \E v, u, w \in DOMAIN slices : AppendSlice(v, u, w)
  \/ \E v, w \in DOMAIN slices : CopySlice(v, w)

Spec == Init /\ [][Next]_vars
=============================================================================
