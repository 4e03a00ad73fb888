------------------------------- MODULE Frames -------------------------------
(***************************************************************************)
(* One interpreted goroutine: the activation records of interp.go, their   *)
(* deferred calls, and the panics that travel through them.                *)
(*                                                                         *)
(* The interpreter runs target code on the host's own stack and raises a   *)
(* target panic as a host panic.  Two host-deferred functions catch it:    *)
(* the one in runDefer (a deferred call panicked) and the one in runFrame  *)
(* (the body panicked).  `flight' is the host panic on its way up; a frame *)
(* it reaches takes it into fr.panicking and fr.panic.                     *)
(*                                                                         *)
(* The target program is arbitrary: in a frame's body any instruction that *)
(* matters here may come next.  MaxWork bounds the calls, defers and       *)
(* panics one run executes.                                                *)
(***************************************************************************)
EXTENDS Naturals, Sequences

CONSTANTS
  MaxWork,        \* bound on the Call, Defer and panicking instructions of a run
  RaiseKinds      \* the host panics the target program may cause

Kinds == {"target", "runtime", "string", "exit"}
DeferKinds == {"func", "recover", "raise"}

ASSUME FramesAssumption ==
  /\ MaxWork \in Nat
  /\ RaiseKinds \subseteq Kinds

VARIABLES
  disableRecover,  \* the interpreter's DisableRecover mode, a parameter of Interpret
  stack,      \* the frames, outermost first: stack[k] is the caller of stack[k+1]
  flight,     \* the host panic being propagated, or NoPanic
  entry,      \* the entry point being called: "init", "main" or "done"
  exitCode,   \* Interpret's result, "running" until there is one
  raised,     \* panics raised so far; also the number of the latest one
  recovered,  \* (history) the panics that recover() returned to the program
  cause,      \* (history) the panic the top-level handler reported, 0 for none
  work        \* instructions counted against MaxWork

vars == <<disableRecover, stack, flight, entry, exitCode, raised, recovered, cause, work>>

-----------------------------------------------------------------------------
Panic == [kind : Kinds \cup {"none"}, id : Nat]
NoPanic == [kind |-> "none", id |-> 0]
NewPanic(kind) == [kind |-> kind, id |-> raised + 1]

\* A deferred call: its target and its rank among the frame's Defer instructions.
Deferred == [kind : DeferKinds, rank : Nat]

\* pc: "body" while instructions run, "returning" in the RunDefers instruction,
\* "unwinding" in the runDefers that runFrame makes after a panic.
Frame ==
  [via       : {"entry", "call", "defer"},
   pc        : {"body", "returning", "unwinding"},
   defers    : Seq(Deferred),  \* fr.defers, latest first
   todo      : Seq(Deferred),  \* what the loop of runDefers has left
   panicking : BOOLEAN,
   panic     : Panic,
   pushed    : Nat,            \* (history) Defer instructions executed
   ran       : Seq(Nat)]       \* (history) ranks of the deferred calls made

NewFrame(via) ==
  [via |-> via, pc |-> "body", defers |-> <<>>, todo |-> <<>>,
   panicking |-> FALSE, panic |-> NoPanic, pushed |-> 0, ran |-> <<>>]

Depth == Len(stack)
Top == stack[Depth]
Pop(s) == SubSeq(s, 1, Len(s) - 1)
SetTop(f) == [stack EXCEPT ![Depth] = f]

Deferring(f) == f.pc \in {"returning", "unwinding"}

\* The frame on top may take a step of its own.
InBody == flight = NoPanic /\ stack # <<>> /\ Top.pc = "body"
InDefers == flight = NoPanic /\ stack # <<>> /\ Deferring(Top)

-----------------------------------------------------------------------------
\* The entry point is called with no caller: Interpret's call(i, nil, ...).
Init ==
  /\ disableRecover \in BOOLEAN
  /\ stack = <<NewFrame("entry")>>
  /\ flight = NoPanic
  /\ entry = "init"
  /\ exitCode = "running"
  /\ raised = 0
  /\ recovered = {}
  /\ cause = 0
  /\ work = 0

\* Instructions of the body ------------------------------------------------

\* A Call instruction whose callee has code.
CallFn ==
  /\ InBody
  /\ work < MaxWork
  /\ stack' = Append(stack, NewFrame("call"))
  /\ work' = work + 1
  /\ UNCHANGED <<disableRecover, flight, entry, exitCode, raised, recovered, cause>>

\* Mutant: the new cell goes behind the old list.
DeferLast(kind) ==
  /\ InBody
  /\ work < MaxWork
  /\ LET n == Top.pushed + 1
     IN stack' = SetTop([Top EXCEPT !.defers = Append(@, [kind |-> kind, rank |-> n]),
                                    !.pushed = n])
  /\ work' = work + 1
  /\ UNCHANGED <<disableRecover, flight, entry, exitCode, raised, recovered, cause>>

\* A Defer instruction: fr.defers becomes a new cell in front of the old list.
Defer(kind) ==
  /\ InBody
  /\ work < MaxWork
  /\ LET n == Top.pushed + 1
     IN stack' = SetTop([Top EXCEPT !.defers = <<[kind |-> kind, rank |-> n]>> \o @,
                                    !.pushed = n])
  /\ work' = work + 1
  /\ UNCHANGED <<disableRecover, flight, entry, exitCode, raised, recovered, cause>>

\* A panic instruction, a runtime error, a failure of the interpreter itself or
\* a call of os.Exit: each is a host panic raised inside runFrame.
Raise(kind) ==
  /\ InBody
  /\ work < MaxWork
  /\ flight' = NewPanic(kind)
  /\ raised' = raised + 1
  /\ work' = work + 1
  /\ UNCHANGED <<disableRecover, stack, entry, exitCode, recovered, cause>>

\* Mutant: a function that is itself panicking may recover.
CanRecoverWhilePanicking == ~disableRecover /\ Depth > 1 /\ stack[Depth - 1].panicking

\* doRecover: the frame calling recover() must not be panicking and its caller
\* must be.
CanRecover ==
  /\ ~disableRecover
  /\ ~Top.panicking
  /\ Depth > 1
  /\ stack[Depth - 1].panicking

\* Mutant: fr.panic survives.
PardonedFlagOnly(f) == [f EXCEPT !.panicking = FALSE]

Pardoned(f) == [f EXCEPT !.panicking = FALSE, !.panic = NoPanic]

\* recover() called in the body.  The panic is cleared first and looked at
\* afterwards: an exitPanic is no value recover() knows, so a string panic is
\* raised in its place.
Recover ==
  /\ InBody
  /\ CanRecover
  /\ stack' = [stack EXCEPT ![Depth - 1] = Pardoned(@)]
  /\ LET p == stack[Depth - 1].panic
     IN \/ /\ p.kind # "exit"
           /\ recovered' = recovered \cup {p.id}
           /\ UNCHANGED <<flight, raised>>
        \/ /\ p.kind = "exit"
           /\ flight' = NewPanic("string")
           /\ raised' = raised + 1
           /\ UNCHANGED recovered
  /\ UNCHANGED <<disableRecover, entry, exitCode, cause, work>>

\* The RunDefers instruction that precedes every Return of a function that defers.
RunDefers ==
  /\ InBody
  /\ stack' = SetTop([Top EXCEPT !.pc = "returning", !.todo = Top.defers])
  /\ UNCHANGED <<disableRecover, flight, entry, exitCode, raised, recovered, cause, work>>

\* The loop of runDefers ---------------------------------------------------

\* The loop moves on to d.tail having made the deferred call d.
Taken(f) == [f EXCEPT !.todo = Tail(@), !.ran = Append(@, Head(f.todo).rank)]

\* Mutant: a panic already there is kept.
CaughtFirst(f, p) == IF f.panicking THEN f ELSE [f EXCEPT !.panicking = TRUE, !.panic = p]

\* runDefer's own deferred function: the call did not return, so the frame is
\* now in a state of panic, whatever state it was in before.
Caught(f, p) == [f EXCEPT !.panicking = TRUE, !.panic = p]

NextDefer(kind) == InDefers /\ Top.todo # <<>> /\ Head(Top.todo).kind = kind

\* The deferred function gets a frame whose caller is the deferring frame.
RunDeferFn ==
  /\ NextDefer("func")
  /\ stack' = Append(SetTop(Taken(Top)), NewFrame("defer"))
  /\ UNCHANGED <<disableRecover, flight, entry, exitCode, raised, recovered, cause, work>>

\* "defer recover()": the built-in is called with the deferring frame itself as
\* its caller.
RunDeferRecover ==
  /\ NextDefer("recover")
  /\ LET p == stack[Depth - 1].panic
     IN \/ /\ ~CanRecover
           /\ stack' = SetTop(Taken(Top))
           /\ UNCHANGED <<raised, recovered>>
        \/ /\ CanRecover
           /\ p.kind # "exit"
           /\ stack' = [stack EXCEPT ![Depth] = Taken(@), ![Depth - 1] = Pardoned(@)]
           /\ recovered' = recovered \cup {p.id}
           /\ UNCHANGED raised
        \/ /\ CanRecover
           /\ p.kind = "exit"
           /\ stack' = [stack EXCEPT ![Depth] = Caught(Taken(@), NewPanic("string")),
                                     ![Depth - 1] = Pardoned(@)]
           /\ raised' = raised + 1
           /\ UNCHANGED recovered
  /\ UNCHANGED <<disableRecover, flight, entry, exitCode, cause, work>>

\* A deferred call that panics without a frame of its own: "defer panic(x)",
\* a deferred nil function, a deferred os.Exit.
RunDeferRaise(kind) ==
  /\ NextDefer("raise")
  /\ stack' = SetTop(Caught(Taken(Top), NewPanic(kind)))
  /\ raised' = raised + 1
  /\ UNCHANGED <<disableRecover, flight, entry, exitCode, recovered, cause, work>>

\* Mutant: the list is not dropped.
ClearedNot(f) == f

\* runDefers leaves its loop: the list is dropped before the state of panic is
\* looked at.
Cleared(f) == [f EXCEPT !.defers = <<>>]

\* Not panicking, or no longer: the function returns, by its Return instruction
\* or through its Recover block.
ReturnFn ==
  /\ InDefers
  /\ Top.todo = <<>>
  /\ ~Top.panicking
  /\ stack' = Pop(stack)
  /\ UNCHANGED <<disableRecover, flight, entry, exitCode, raised, recovered, cause, work>>

\* Mutant: runFrame's deferred function resumes the RunDefers instruction.
PanicAgainSamePc ==
  /\ InDefers
  /\ Top.todo = <<>>
  /\ Top.panicking
  /\ Top.pc = "returning"
  /\ ~disableRecover
  /\ stack' = SetTop(Cleared(Top))
  /\ UNCHANGED <<disableRecover, flight, entry, exitCode, raised, recovered, cause, work>>

\* Still panicking in the RunDefers instruction: the host panic it raises is
\* caught by runFrame of the same frame, which goes over the list again.
PanicAgain ==
  /\ InDefers
  /\ Top.todo = <<>>
  /\ Top.panicking
  /\ Top.pc = "returning"
  /\ ~disableRecover
  /\ LET f == Cleared(Top)
     IN stack' = SetTop([f EXCEPT !.pc = "unwinding", !.todo = f.defers])
  /\ UNCHANGED <<disableRecover, flight, entry, exitCode, raised, recovered, cause, work>>

\* Still panicking and nothing left in this frame to catch it.
PanicOut ==
  /\ InDefers
  /\ Top.todo = <<>>
  /\ Top.panicking
  /\ Top.pc = "unwinding" \/ disableRecover
  /\ flight' = Top.panic
  /\ stack' = Pop(stack)
  /\ UNCHANGED <<disableRecover, entry, exitCode, raised, recovered, cause, work>>

\* A host panic reaches a frame ---------------------------------------------

\* It was raised in the body, or came out of a call the body made: runFrame's
\* deferred function takes it and runs the frame's deferred calls.
UnwindBody ==
  /\ flight # NoPanic
  /\ stack # <<>>
  /\ Top.pc = "body"
  /\ IF disableRecover
     THEN stack' = Pop(stack) /\ UNCHANGED flight
     ELSE /\ stack' = SetTop([Caught(Top, flight) EXCEPT !.pc = "unwinding",
                                                          !.todo = Top.defers])
          /\ flight' = NoPanic
  /\ UNCHANGED <<disableRecover, entry, exitCode, raised, recovered, cause, work>>

\* Mutant: the host panic goes on after it was noted in the frame.
UnwindDeferRethrow ==
  /\ flight # NoPanic
  /\ stack # <<>>
  /\ Deferring(Top)
  /\ stack' = SetTop(Caught(Top, flight))
  /\ UNCHANGED <<disableRecover, flight, entry, exitCode, raised, recovered, cause, work>>

\* It came out of a deferred call: runDefer's deferred function takes it.
UnwindDefer ==
  /\ flight # NoPanic
  /\ stack # <<>>
  /\ Deferring(Top)
  /\ stack' = SetTop(Caught(Top, flight))
  /\ flight' = NoPanic
  /\ UNCHANGED <<disableRecover, entry, exitCode, raised, recovered, cause, work>>

\* The entry points -----------------------------------------------------------

\* init has returned: main is called next.
CallMain ==
  /\ stack = <<>>
  /\ flight = NoPanic
  /\ entry = "init"
  /\ stack' = <<NewFrame("entry")>>
  /\ entry' = "main"
  /\ UNCHANGED <<disableRecover, flight, exitCode, raised, recovered, cause, work>>

Finish(code, by) ==
  /\ entry' = "done"
  /\ exitCode' = code
  /\ cause' = by
  /\ flight' = NoPanic
  /\ UNCHANGED <<disableRecover, stack, raised, recovered, work>>

\* main has returned, or the package has none.
MainReturned == stack = <<>> /\ flight = NoPanic /\ entry = "main" /\ Finish("0", 0)
NoMain == stack = <<>> /\ flight = NoPanic /\ entry = "init" /\ Finish("1", 0)

\* Interpret's top-level handler; in DisableRecover mode the host crashes.
TopHandler ==
  /\ stack = <<>>
  /\ flight # NoPanic
  /\ \/ disableRecover /\ Finish("crash", flight.id)
     \/ ~disableRecover /\ flight.kind = "exit" /\ Finish("status", flight.id)
     \/ ~disableRecover /\ flight.kind # "exit" /\ Finish("2", flight.id)

Terminated == entry = "done" /\ UNCHANGED vars

-----------------------------------------------------------------------------
Next ==
  \/ CallFn
  \/ \E kind \in DeferKinds : Defer(kind)
  \/ \E kind \in RaiseKinds : Raise(kind) \/ RunDeferRaise(kind)
  \/ Recover
  \/ RunDefers
  \/ RunDeferFn
  \/ RunDeferRecover
  \/ ReturnFn
  \/ PanicAgain
  \/ PanicOut
  \/ UnwindBody
  \/ UnwindDefer
  \/ CallMain
  \/ MainReturned
  \/ NoMain
  \/ TopHandler
  \/ Terminated

Spec == Init /\ [][Next]_vars

\* One goroutine that the host keeps scheduling.
FairSpec == Spec /\ WF_vars(Next)

-----------------------------------------------------------------------------
\* Properties -----------------------------------------------------------------

\* The shape of every variable, fr.panic being set exactly in a state of panic.
TypeOK ==
  /\ disableRecover \in BOOLEAN
  /\ stack \in Seq(Frame)
  /\ flight \in Panic
  /\ entry \in {"init", "main", "done"}
  /\ exitCode \in {"running", "0", "1", "2", "status", "crash"}
  /\ raised \in Nat
  /\ recovered \in SUBSET Nat
  /\ cause \in Nat
  /\ work \in Nat

\* Only a frame that is running its deferred calls is in a state of panic, a
\* frame was invoked by a deferred call exactly when its caller is running
\* deferred calls, and only the outermost frame has no caller.  The test in
\* doRecover (fr.caller.panicking) means "invoked by a deferred call of a
\* panicking function" because of this.
WellNested ==
  /\ \A k \in 1 .. Len(stack) :
       /\ stack[k].panicking => Deferring(stack[k])
       /\ stack[k].panicking <=> stack[k].panic # NoPanic
       /\ stack[k].via = "entry" <=> k = 1
  /\ \A k \in 1 .. Len(stack) - 1 :
       stack[k + 1].via = "defer" <=> Deferring(stack[k])

\* The panics held by the frames get younger towards the top of the stack and
\* the one in flight is the youngest: a panic never overtakes a later one.
PanicsOrdered ==
  /\ \A k \in 1 .. Len(stack) :
       stack[k].panicking =>
         /\ stack[k].panic.id \in 1 .. raised
         /\ \A j \in 1 .. k - 1 : stack[j].panicking => stack[j].panic.id < stack[k].panic.id
         /\ flight # NoPanic => stack[k].panic.id < flight.id
  /\ flight # NoPanic => flight.id \in 1 .. raised

\* A body still has every deferred call it pushed, latest first; a frame running
\* them has made the latest ones and has exactly the rest to do.
InOrder(f) ==
  /\ f.pc = "body" =>
       /\ f.ran = <<>>
       /\ f.todo = <<>>
       /\ Len(f.defers) = f.pushed
       /\ \A d \in 1 .. f.pushed : f.defers[d].rank = f.pushed + 1 - d
  /\ Deferring(f) =>
       /\ Len(f.ran) + Len(f.todo) = f.pushed
       /\ \A d \in 1 .. Len(f.ran) : f.ran[d] = f.pushed + 1 - d
       /\ \A d \in 1 .. Len(f.todo) : f.todo[d].rank = Len(f.todo) + 1 - d

\* At any moment, in any frame, nothing deferred has been lost, repeated or
\* reordered, whatever panics the deferred calls made so far have raised.
DefersInOrder == \A k \in 1 .. Len(stack) : InOrder(stack[k])

\* Every Defer instruction a frame executed has been run, once, latest first.
AllDeferredRan(f) ==
  /\ Len(f.ran) = f.pushed
  /\ \A k \in 1 .. f.pushed : f.ran[k] = f.pushed + 1 - k

\* However a function is left -- by its Return, through its Recover block, or by a
\* panic, be it raised before, in or after the RunDefers instruction -- its
\* deferred calls have all been made exactly once in LIFO order (the contract of
\* runDefers).  The one exception is a body that panics in DisableRecover mode.
DefersRunLIFO ==
  [][Len(stack') < Len(stack) =>
       \/ AllDeferredRan(Top)
       \/ disableRecover /\ Top.pc = "body"]_vars

\* What a recover() needs according to doRecover's comment: it is made by a
\* function that a deferred call of the panicking function invoked, or it is
\* itself a deferred call of such a function; a panic comes back at most once,
\* and it is the latest one still alive.
RecoverDirect ==
  [][recovered' # recovered =>
       /\ Depth > 1
       /\ Top.via = "defer"
       /\ ~Top.panicking
       /\ stack[Depth - 1].panicking
       /\ ~stack'[Depth - 1].panicking
       /\ stack[Depth - 1].panic.id \notin recovered
       /\ recovered' = recovered \cup {stack[Depth - 1].panic.id}
       /\ \A k \in 1 .. Depth : stack[k].panicking =>
            stack[k].panic.id <= stack[Depth - 1].panic.id]_vars

\* Every run ends: no panic, recovered or not, leaves the frames in a state from
\* which the interpreter cannot return or loops over its deferred calls.
Ends == <>(entry = "done")

\* The panics that are still to meet their end.
LivePanics ==
  {stack[k].panic.id : k \in {j \in 1 .. Len(stack) : stack[j].panicking}}
    \cup (IF flight = NoPanic THEN {} ELSE {flight.id})

Ledger == INSTANCE PanicLedger WITH live <- LivePanics, ended <- (entry = "done")

\* The frames lose no panic, return none twice, return only the youngest, and a
\* program with a live panic never ends cleanly: see PanicLedger.
PanicsAccounted == Ledger!Spec
=============================================================================
