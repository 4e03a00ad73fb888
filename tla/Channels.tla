------------------------------ MODULE Channels ------------------------------
(***************************************************************************)
(* Goroutines of an interpreted program that communicate: the Send, Go and *)
(* Select instructions, the receive operator and close().                  *)
(*                                                                         *)
(* A channel of the program is a host channel of boxed values, so what     *)
(* blocks and what is delivered is up to the host; the interpreter builds  *)
(* the host's list of cases and turns the host's answer into the register  *)
(* that the program reads.                                                 *)
(***************************************************************************)
EXTENDS Integers, Sequences, FiniteSets

CONSTANTS
  Goroutine, Main,   \* goroutines, one of them the workflow's
  Chan, NilChan,     \* channels the program has made, and the nil one
  Cap,               \* the capacity a channel is made with
  Selects,           \* the select statements of the program: [blocking, states]
  MaxInstr           \* bound on the instructions executed

Case == [dir : {"send", "recv"}, ch : Chan \cup {NilChan}]

ASSUME ChannelsAssumption ==
  /\ Main \in Goroutine /\ NilChan \notin Chan
  /\ Cap \in [Chan -> Nat] /\ MaxInstr \in Nat
  /\ Selects \subseteq [blocking : BOOLEAN, states : Seq(Case)]

VARIABLES
  chan,    \* the host's channels: capacity, buffer, whether closed
  pc,      \* where each goroutine is
  instr,   \* the instruction a goroutine executes or executed last
  reg,     \* the register that instruction writes, empty until it has
  count,   \* instructions executed, bounded by MaxInstr
  host,    \* whether the worker process is "up" or "down"
  sent,    \* (history) what the program believes to have sent on each channel
  got      \* (history) what the program believes to have received

vars == <<chan, pc, instr, reg, count, host, sent, got>>

\* A message is the number of the instruction that sends it; Zero is the zero value of
\* the element type, HostNil the nil the host delivers in place of a message.
Zero == 0
HostNil == -1
Message == 1 .. MaxInstr

\* The host's make(chan value, size).
NewChan(size) == [cap |-> size, buf |-> <<>>, closed |-> FALSE]

Instr(op, blocking, states, n) ==
  [op |-> op, blocking |-> blocking, states |-> states, n |-> n]
NoInstr == Instr("none", TRUE, <<>>, 0)

Init ==
  /\ chan = [c \in Chan |-> NewChan(Cap[c])]
  /\ pc = [g \in Goroutine |-> IF g = Main THEN "running" ELSE "unborn"]
  /\ instr = [g \in Goroutine |-> NoInstr]
  /\ reg = [g \in Goroutine |-> <<>>]
  /\ count = 0
  /\ host = "up"
  /\ sent = [c \in Chan |-> <<>>]
  /\ got = [c \in Chan |-> <<>>]

-----------------------------------------------------------------------------
\* What the interpreter makes of a statement -------------------------------------

\* Mutant: the loop over instr.States stops one short.
HostCasesButLast(i) ==
  IF i.op = "select"
  THEN (IF i.blocking THEN <<>> ELSE <<[dir |-> "default", ch |-> NilChan]>>)
         \o SubSeq(i.states, 1, Len(i.states) - 1)
  ELSE i.states

\* The cases the host chooses from: those of the program, after the default.
HostCases(i) ==
  IF i.blocking THEN i.states ELSE <<[dir |-> "default", ch |-> NilChan]>> \o i.states

Receives(states) == {k \in DOMAIN states : states[k].dir = "recv"}

\* The place of a receive case among the receive cases.
Place(states, k) == Cardinality({j \in Receives(states) : j <= k})

\* Mutant: the default case keeps the host's index.
ChosenByHost(i, at) == at - 1

\* The host's index, from 0; the default case is -1.
Chosen(i, at) == IF i.blocking THEN at - 1 ELSE at - 2

\* Mutant: the host's value is taken as it is.
ReceivedRaw(v, ok) == v

\* What a receive yields: the host delivers its own nil from a closed channel.
Received(v, ok) == IF ok THEN v ELSE Zero

\* Mutant: a value is appended for send cases as well.
SelectTupleOfAll(states, chosen, v, ok) ==
  <<chosen, ok>> \o [k \in DOMAIN states |-> IF k = chosen + 1 THEN Received(v, ok) ELSE Zero]

\* The result tuple: index, recvOk, and a value for every receive case in turn.
SelectTuple(states, chosen, v, ok) ==
  LET Holds(k) == IF k = chosen + 1 THEN Received(v, ok) ELSE Zero
      At(r) == CHOOSE k \in Receives(states) : Place(states, k) = r
  IN  <<chosen, ok>> \o [r \in 1 .. Cardinality(Receives(states)) |-> Holds(At(r))]

\* The register after the host took its case number at and delivered v, ok.
Result(i, at, v, ok) ==
  CASE i.op = "send" -> <<>>
    [] i.op = "recv" -> <<Received(v, ok), ok>>
    [] i.op = "select" -> SelectTuple(i.states, Chosen(i, at), v, ok)

\* What the program reads in the register, by the code go/ssa emits after a statement:
\* the case taken (0 for the default), and the value and flag of a receive.
Outcome(i, r) ==
  LET k == IF i.op = "select" THEN r[1] + 1 ELSE 1
      Extracted == 2 + Cardinality({j \in 1 .. k : i.states[j].dir = "recv"})
  IN  IF k \notin DOMAIN i.states THEN [case |-> 0, val |-> HostNil, ok |-> FALSE]
      ELSE IF i.states[k].dir = "send" THEN [case |-> k, val |-> HostNil, ok |-> FALSE]
      ELSE IF i.op = "select" THEN [case |-> k, val |-> r[Extracted], ok |-> r[2]]
      ELSE [case |-> k, val |-> r[1], ok |-> r[2]]

\* What an outcome adds to the histories of channel c.
SentBy(i, o, c) ==
  IF o.case # 0 /\ i.states[o.case] = [dir |-> "send", ch |-> c] THEN <<i.n>> ELSE <<>>
GotBy(i, o, c) ==
  IF o.case # 0 /\ i.states[o.case] = [dir |-> "recv", ch |-> c] /\ o.ok THEN <<o.val>> ELSE <<>>

-----------------------------------------------------------------------------
\* The host's channels ------------------------------------------------------------

Waits(g) == host = "up" /\ pc[g] = "parked"

\* The direction and the channel of case number at of the statement g waits at.
Dir(g, at) == HostCases(instr[g])[at].dir
Ch(g, at) == HostCases(instr[g])[at].ch
Cases(g) == DOMAIN HostCases(instr[g])

\* One case can be taken without another goroutine.
Alone(g, at) ==
  /\ Ch(g, at) \in Chan
  /\ LET c == chan[Ch(g, at)] IN
     \/ c.closed
     \/ Dir(g, at) = "send" /\ Len(c.buf) < c.cap
     \/ Dir(g, at) = "recv" /\ c.buf # <<>>

\* g sends to h, which receives. One of the two is really waiting.
Meet(g, at, h, to) ==
  /\ g # h /\ Waits(g) /\ Waits(h)
  /\ instr[g].blocking \/ instr[h].blocking
  /\ Dir(g, at) = "send" /\ Dir(h, to) = "recv"
  /\ Ch(g, at) = Ch(h, to) /\ Ch(g, at) \in Chan
  /\ ~chan[Ch(g, at)].closed /\ chan[Ch(g, at)].cap = 0

Ready(g, at) ==
  \/ Alone(g, at)
  \/ \E h \in Goroutine : \E to \in Cases(h) : Meet(g, at, h, to) \/ Meet(h, to, g, at)

-----------------------------------------------------------------------------
\* The instructions ---------------------------------------------------------------

Runs(g) == host = "up" /\ pc[g] = "running"

\* g comes to a statement; states are evaluated once, here.
Issue(g, op, blocking, states) ==
  /\ Runs(g)
  /\ count < MaxInstr
  /\ count' = count + 1
  /\ instr' = [instr EXCEPT ![g] = Instr(op, blocking, states, count + 1)]
  /\ reg' = [reg EXCEPT ![g] = <<>>]
  /\ pc' = [pc EXCEPT ![g] = "parked"]
  /\ UNCHANGED <<chan, host, sent, got>>

Send(g, c) == Issue(g, "send", TRUE, <<[dir |-> "send", ch |-> c]>>)
Receive(g, c) == Issue(g, "recv", TRUE, <<[dir |-> "recv", ch |-> c]>>)
Select(g, s) == Issue(g, "select", s.blocking, s.states)

\* g goes on with what the host says; the histories follow the program's reading.
Deliver(g, at, v, ok) ==
  LET r == Result(instr[g], at, v, ok)
      o == Outcome(instr[g], r)
  IN  /\ reg' = [reg EXCEPT ![g] = r]
      /\ pc' = [pc EXCEPT ![g] = "running"]
      /\ sent' = [c \in Chan |-> sent[c] \o SentBy(instr[g], o, c)]
      /\ got' = [c \in Chan |-> got[c] \o GotBy(instr[g], o, c)]

\* A send into the buffer.
Put(g, at) ==
  /\ Waits(g) /\ Dir(g, at) = "send" /\ Ch(g, at) \in Chan
  /\ LET c == Ch(g, at) IN
     /\ ~chan[c].closed /\ Len(chan[c].buf) < chan[c].cap
     /\ chan' = [chan EXCEPT ![c].buf = Append(@, instr[g].n)]
  /\ Deliver(g, at, HostNil, FALSE)
  /\ UNCHANGED <<instr, count, host>>

\* A receive from the buffer, of a closed channel too.
Take(g, at) ==
  /\ Waits(g) /\ Dir(g, at) = "recv" /\ Ch(g, at) \in Chan
  /\ LET c == Ch(g, at) IN
     /\ chan[c].buf # <<>>
     /\ chan' = [chan EXCEPT ![c].buf = Tail(@)]
     /\ Deliver(g, at, Head(chan[c].buf), TRUE)
  /\ UNCHANGED <<instr, count, host>>

\* A receive from a channel that is closed and drained.
TakeClosed(g, at) ==
  /\ Waits(g) /\ Dir(g, at) = "recv" /\ Ch(g, at) \in Chan
  /\ chan[Ch(g, at)].closed /\ chan[Ch(g, at)].buf = <<>>
  /\ Deliver(g, at, HostNil, FALSE)
  /\ UNCHANGED <<chan, instr, count, host>>

\* g hands its message to h.
HandOver(g, at, h, to) ==
  /\ Meet(g, at, h, to)
  /\ LET rg == Result(instr[g], at, HostNil, FALSE)
         rh == Result(instr[h], to, instr[g].n, TRUE)
         og == Outcome(instr[g], rg)
         oh == Outcome(instr[h], rh)
     IN  /\ reg' = [reg EXCEPT ![g] = rg, ![h] = rh]
         /\ pc' = [pc EXCEPT ![g] = "running", ![h] = "running"]
         /\ sent' = [c \in Chan |-> sent[c] \o SentBy(instr[g], og, c) \o SentBy(instr[h], oh, c)]
         /\ got' = [c \in Chan |-> got[c] \o GotBy(instr[g], og, c) \o GotBy(instr[h], oh, c)]
  /\ UNCHANGED <<chan, instr, count, host>>

\* No case can be taken: the default.
Default(g, at) ==
  /\ Waits(g) /\ Dir(g, at) = "default"
  /\ \A k \in Cases(g) : ~Ready(g, k)
  /\ Deliver(g, at, HostNil, FALSE)
  /\ UNCHANGED <<chan, instr, count, host>>

\* A send on a closed channel is a panic of the program.
SendPanics(g, at) ==
  /\ Waits(g) /\ Dir(g, at) = "send" /\ Ch(g, at) \in Chan /\ chan[Ch(g, at)].closed
  /\ pc' = [pc EXCEPT ![g] = "panicking"]
  /\ UNCHANGED <<chan, instr, reg, count, host, sent, got>>

\* close(c); closing the nil channel or a closed one is a panic.
Close(g, c) ==
  /\ Runs(g)
  /\ count < MaxInstr
  /\ count' = count + 1
  /\ IF c \in Chan /\ ~chan[c].closed
     THEN chan' = [chan EXCEPT ![c].closed = TRUE] /\ UNCHANGED pc
     ELSE pc' = [pc EXCEPT ![g] = "panicking"] /\ UNCHANGED chan
  /\ UNCHANGED <<instr, reg, host, sent, got>>

\* The Go instruction.
Unborn == {h \in Goroutine : pc[h] = "unborn"}
Go(g) ==
  /\ Runs(g)
  /\ Unborn # {}
  /\ pc' = [pc EXCEPT ![CHOOSE h \in Unborn : TRUE] = "running"]
  /\ UNCHANGED <<chan, instr, reg, count, host, sent, got>>

Returns(g) ==
  /\ Runs(g)
  /\ pc' = [pc EXCEPT ![g] = "ended"]
  /\ UNCHANGED <<chan, instr, reg, count, host, sent, got>>

\* A deferred function of the program recovers (see Frames) and the program goes on.
Recovers(g) ==
  /\ host = "up" /\ pc[g] = "panicking"
  /\ pc' = [pc EXCEPT ![g] = "running"]
  /\ UNCHANGED <<chan, instr, reg, count, host, sent, got>>

\* InterpretWorkflow's handler ends the workflow; other goroutines have no handler.
Dies(g) ==
  /\ host = "up" /\ pc[g] = "panicking"
  /\ pc' = [pc EXCEPT ![g] = "ended"]
  /\ host' = IF g = Main THEN "up" ELSE "down"
  /\ UNCHANGED <<chan, instr, reg, count, sent, got>>

\* The host lets g take case number at.
TakesCase(g, at) == Put(g, at) \/ Take(g, at) \/ TakeClosed(g, at) \/ Default(g, at) \/ SendPanics(g, at)
Meets(g) ==
  \E at \in Cases(g), h \in Goroutine : \E to \in Cases(h) :
    HandOver(g, at, h, to) \/ HandOver(h, to, g, at)
GoesOn(g) == (\E at \in Cases(g) : TakesCase(g, at)) \/ Meets(g)

Acts(g) ==
  \/ \E c \in Chan \cup {NilChan} : Send(g, c) \/ Receive(g, c) \/ Close(g, c)
  \/ \E s \in Selects : Select(g, s)
  \/ Go(g) \/ Returns(g) \/ Recovers(g) \/ Dies(g)

Next == \E g \in Goroutine : Acts(g) \/ GoesOn(g)

Spec == Init /\ [][Next]_vars

\* The host wakes a goroutine whose statement can go on.
FairSpec == Spec /\ \A g \in Goroutine : WF_vars(GoesOn(g))

-----------------------------------------------------------------------------
\* Properties -----------------------------------------------------------------

ChanOK(c) ==
  /\ DOMAIN chan[c] = {"cap", "buf", "closed"}
  /\ chan[c].cap = Cap[c] /\ chan[c].closed \in BOOLEAN
  /\ chan[c].buf \in Seq(Message) /\ Len(chan[c].buf) <= chan[c].cap

\* The places of the received values in a register.
ValuesIn(i, r) == IF i.op = "recv" THEN {1} ELSE 3 .. Len(r)

\* The shape of the channels and statements, and of every value a program receives: never
\* the host's nil, which stands for the missing value of a closed channel.
TypeOK ==
  /\ \A c \in Chan : ChanOK(c)
  /\ pc \in [Goroutine -> {"unborn", "running", "parked", "panicking", "ended"}]
  /\ \A g \in Goroutine : instr[g].n \in 0 .. count /\ instr[g].states \in Seq(Case)
  /\ \A g \in Goroutine : reg[g] # <<>> =>
       \A k \in ValuesIn(instr[g], reg[g]) : reg[g][k] \in {Zero} \cup Message
  /\ count \in 0 .. MaxInstr /\ host \in {"up", "down"}
  /\ \A c \in Chan : sent[c] \in Seq(Message) /\ got[c] \in Seq(Message)

\* On every channel what the program believes to have received is what it believes to
\* have sent, in that order, up to what is still in the buffer: whatever statement it
\* sent and received with, nothing is lost, repeated, invented or overtaken.
InOrder == \A c \in Chan : sent[c] = got[c] \o chan[c].buf

\* What g's register tells in this step.
Told(g) == Outcome(instr[g], reg'[g])
ToldCase(g, dir, c) == Told(g).case # 0 /\ instr[g].states[Told(g).case] = [dir |-> dir, ch |-> c]
LeavesStatement(g) == pc[g] = "parked" /\ pc'[g] = "running"

SendTold(g, c) ==
  \/ chan'[c].buf = Append(chan[c].buf, instr[g].n)
  \/ \E h \in Goroutine \ {g} :
       LeavesStatement(h) /\ ToldCase(h, "recv", c) /\ Told(h).ok /\ Told(h).val = instr[g].n
ReceiveTold(g, c) ==
  IF Told(g).ok
  THEN \/ chan[c].buf = <<Told(g).val>> \o chan'[c].buf
       \/ \E h \in Goroutine \ {g} :
            LeavesStatement(h) /\ ToldCase(h, "send", c) /\ Told(g).val = instr[h].n
  ELSE chan[c].closed /\ chan[c].buf = <<>> /\ Told(g).val = Zero

\* What g is told agrees with what happened: the channel of the case has moved, or another
\* goroutine leaves its statement with the opposite case; the default is told only if no
\* case could be taken.
Tells(g) ==
  \/ \E c \in Chan : ToldCase(g, "send", c) /\ SendTold(g, c)
  \/ \E c \in Chan : ToldCase(g, "recv", c) /\ ReceiveTold(g, c)
  \/ /\ Told(g).case = 0 /\ ~instr[g].blocking /\ UNCHANGED chan
     /\ \A k \in Cases(g) : ~Ready(g, k)

\* The case a statement tells the program, by index, flag and value, is the case that
\* the host performed.
CaseTold == [][\A g \in Goroutine : LeavesStatement(g) => Tells(g)]_vars

\* A goroutine that waits for a channel that is closed goes on: what a program, and
\* the watchers of joined contexts among them, wait for with a done channel.
ClosedOn(g) ==
  pc[g] = "parked" /\ \E k \in DOMAIN instr[g].states :
    LET state == instr[g].states[k] IN state.dir = "recv" /\ state.ch \in Chan /\ chan[state.ch].closed
CloseReleases == \A g \in Goroutine : ClosedOn(g) ~> host = "down" \/ ~ClosedOn(g)

=============================================================================
