------------------------------- MODULE GoMap -------------------------------
(***************************************************************************)
(* What a Go map promises its program, with no buckets in sight.           *)
(*                                                                         *)
(* A map is a collection of associations.  At most one of them has a key   *)
(* equal to a given key; a NaN equals nothing, itself included, so any     *)
(* number of associations may have one.  A new value for an equal key goes *)
(* into the association that is there and leaves its key alone.            *)
(***************************************************************************)
EXTENDS Naturals, FiniteSets

CONSTANTS
  Keys,
  Values,
  Ids,         \* identities of associations, none used twice
  Equal        \* the pairs of keys that Go's == finds equal

VARIABLES
  made,        \* FALSE for the nil map
  assoc,       \* the associations, from identities to keys and values
  count,       \* what len() returns
  answer       \* what the last operation answered

mapVars == <<made, assoc, count, answer>>

Matches(k) == {a \in DOMAIN assoc : <<k, assoc[a].key>> \in Equal}

Init == made = FALSE /\ assoc = <<>> /\ count = 0 /\ answer = <<"none">>

Make == ~made /\ made' = TRUE /\ UNCHANGED <<assoc, count, answer>>

Update(k, v) ==
  /\ made
  /\ \E a \in Matches(k) : assoc' = [assoc EXCEPT ![a].value = v]
  /\ answer' = <<"done">>
  /\ UNCHANGED <<made, count>>

Add(k, v) ==
  /\ made
  /\ Matches(k) = {}
  /\ \E a \in Ids \ DOMAIN assoc :
       assoc' = [b \in DOMAIN assoc \cup {a} |->
                   IF b = a THEN [key |-> k, value |-> v] ELSE assoc[b]]
  /\ count' = count + 1
  /\ answer' = <<"done">>
  /\ UNCHANGED made

\* Writing to the nil map panics.
WriteNil == ~made /\ answer' = <<"panic">> /\ UNCHANGED <<made, assoc, count>>

Delete(k) ==
  /\ \E a \in Matches(k) : assoc' = [b \in DOMAIN assoc \ {a} |-> assoc[b]]
  /\ count' = count - 1
  /\ answer' = <<"done">>
  /\ UNCHANGED made

DeleteMissing(k) ==
  /\ Matches(k) = {}
  /\ answer' = <<"done">>
  /\ UNCHANGED <<made, assoc, count>>

Lookup(k) ==
  /\ \/ \E a \in Matches(k) : answer' = <<"found", assoc[a].value>>
     \/ Matches(k) = {} /\ answer' = <<"missing">>
  /\ UNCHANGED <<made, assoc, count>>

Next ==
  \/ Make
  \/ WriteNil
  \/ \E k \in Keys : Delete(k) \/ DeleteMissing(k) \/ Lookup(k)
  \/ \E k \in Keys, v \in Values : Update(k, v) \/ Add(k, v)

Spec == Init /\ [][Next]_mapVars
=============================================================================
