---------------------------- MODULE PanicLedger ----------------------------
(***************************************************************************)
(* What Go promises about panics, with no activation record in sight.      *)
(*                                                                         *)
(* Panics are numbered in the order they are raised.  A panic stays live   *)
(* until exactly one of three things happens to it: a recover() returns    *)
(* it, a younger panic takes its place, or it ends the program.  recover() *)
(* only ever returns the youngest live panic, only the panic just below    *)
(* the youngest can be displaced, and a program ends cleanly only when     *)
(* nothing is live.  Frames implements this specification.                 *)
(***************************************************************************)
EXTENDS Naturals

VARIABLES
  raised,     \* how many panics have been raised so far
  live,       \* the panics that have not met their end
  recovered,  \* the panics some recover() returned
  ended,      \* whether the program has ended
  cause       \* the panic that ended it, 0 for none

ledgerVars == <<raised, live, recovered, ended, cause>>

TypeOK ==
  /\ raised \in Nat
  /\ live \in SUBSET (1 .. raised)
  /\ recovered \in SUBSET (1 .. raised)
  /\ ended \in BOOLEAN
  /\ cause \in 0 .. raised

Init ==
  /\ raised = 0
  /\ live = {}
  /\ recovered = {}
  /\ ended = FALSE
  /\ cause = 0

Youngest(p) == p \in live /\ \A q \in live : q <= p

-----------------------------------------------------------------------------
\* A new panic, on top of whatever is live.
Raise ==
  /\ ~ended
  /\ raised' = raised + 1
  /\ live' = live \cup {raised + 1}
  /\ UNCHANGED <<recovered, ended, cause>>

\* A new panic that takes the place of the youngest one as it is raised.
RaiseInPlace ==
  /\ ~ended
  /\ \E p \in live :
       /\ Youngest(p)
       /\ live' = (live \ {p}) \cup {raised + 1}
  /\ raised' = raised + 1
  /\ UNCHANGED <<recovered, ended, cause>>

\* The youngest panic displaces the one just below it.
Displace ==
  /\ ~ended
  /\ \E old, new \in live :
       /\ Youngest(new)
       /\ old # new
       /\ \A q \in live \ {new} : q <= old
       /\ live' = live \ {old}
  /\ UNCHANGED <<raised, recovered, ended, cause>>

\* A recover() returns the youngest panic.
Recover ==
  /\ ~ended
  /\ \E p \in live :
       /\ Youngest(p)
       /\ live' = live \ {p}
       /\ recovered' = recovered \cup {p}
  /\ UNCHANGED <<raised, ended, cause>>

\* The program ends: cleanly when nothing is live, else by the one live panic.
End ==
  /\ ~ended
  /\ \/ live = {} /\ cause' = 0
     \/ \E p \in live : live = {p} /\ cause' = p
  /\ ended' = TRUE
  /\ live' = {}
  /\ UNCHANGED <<raised, recovered>>

Next == Raise \/ RaiseInPlace \/ Displace \/ Recover \/ End

Spec == Init /\ [][Next]_ledgerVars
=============================================================================
