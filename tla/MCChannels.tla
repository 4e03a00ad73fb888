----------------------------- MODULE MCChannels -----------------------------
(***************************************************************************)
(* Two channels, two goroutines, and select statements of each kind: both *)
(* directions on one channel, the nil channel, a receive after a send,     *)
(* with and without default, and the empty one.                            *)
(***************************************************************************)
EXTENDS Channels

CONSTANTS a, b, g0, g1

S(c) == [dir |-> "send", ch |-> c]
R(c) == [dir |-> "recv", ch |-> c]

MCSelects ==
  {[blocking |-> TRUE, states |-> s] : s \in {<<S(a), R(a), R(b)>>, <<R(NilChan), S(a)>>, <<>>}}
  \cup {[blocking |-> FALSE, states |-> <<S(b), R(a)>>]}

\* One channel without a buffer, one with a buffer of one.
MCCap == [c \in {a, b} |-> IF c = a THEN 0 ELSE 1]
=============================================================================
