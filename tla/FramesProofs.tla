---------------------------- MODULE FramesProofs ----------------------------
(***************************************************************************)
(* Theorems about Frames, for every MaxWork, every set of panic kinds and  *)
(* both values of DisableRecover: first the deferred calls and what they   *)
(* return; then the panics, how the frames nest, in which order the panics *)
(* they hold were raised, whom a recover() reaches, and that the frames    *)
(* implement PanicLedger.                                                  *)
(***************************************************************************)
EXTENDS Frames, SequenceTheorems, TLAPS

-----------------------------------------------------------------------------
\* The three ways an action changes the stack.

LEMMA NewFrameType == \A via \in {"entry", "call", "defer"} : NewFrame(via) \in Frame
  BY DEF NewFrame, Frame, Panic, NoPanic

LEMMA SetTopStack ==
  ASSUME stack \in Seq(Frame), stack # <<>>, NEW f \in Frame
  PROVE  /\ Depth \in Nat \ {0}
         /\ SetTop(f) \in Seq(Frame)
         /\ Len(SetTop(f)) = Depth
         /\ SetTop(f)[Depth] = f
         /\ \A k \in 1 .. Depth - 1 : SetTop(f)[k] = stack[k]
  BY DEF SetTop, Depth

LEMMA PopStack ==
  ASSUME stack \in Seq(Frame), stack # <<>>
  PROVE  /\ Pop(stack) \in Seq(Frame)
         /\ Len(Pop(stack)) = Depth - 1
         /\ \A k \in 1 .. Depth - 1 : Pop(stack)[k] = stack[k]
  <1>1. Depth \in Nat \ {0} /\ \A k \in 1 .. Depth : stack[k] \in Frame
    BY DEF Depth
  <1>2. Pop(stack) = SubSeq(stack, 1, Depth - 1)
    BY DEF Pop, Depth
  <1>3. \A k \in 1 .. Depth - 1 : stack[k] \in Frame
    BY <1>1
  <1>4. Depth - 1 \in Int
    BY <1>1
  <1>5. /\ SubSeq(stack, 1, Depth - 1) \in Seq(Frame)
        /\ Len(SubSeq(stack, 1, Depth - 1)) = IF 1 <= Depth - 1 THEN (Depth - 1) - 1 + 1 ELSE 0
        /\ \A k \in 1 .. (Depth - 1) - 1 + 1 : SubSeq(stack, 1, Depth - 1)[k] = stack[1 + k - 1]
    BY <1>3, <1>4, SubSeqProperties
  <1>. QED
    BY <1>1, <1>2, <1>5

LEMMA PushStack ==
  ASSUME NEW s \in Seq(Frame), NEW f \in Frame
  PROVE  /\ Append(s, f) \in Seq(Frame)
         /\ Len(Append(s, f)) = Len(s) + 1
         /\ Append(s, f)[Len(s) + 1] = f
         /\ \A k \in 1 .. Len(s) : Append(s, f)[k] = s[k]
  BY AppendProperties

LEMMA TopType ==
  ASSUME stack \in Seq(Frame), stack # <<>>
  PROVE  Depth \in Nat \ {0} /\ Top \in Frame /\ \A k \in 1 .. Depth : stack[k] \in Frame
  BY DEF Top, Depth

LEMMA BelowTop ==
  ASSUME stack \in Seq(Frame), Depth > 1, NEW f \in Frame, NEW g \in Frame
  PROVE  LET s == [stack EXCEPT ![Depth - 1] = g]
             t == [stack EXCEPT ![Depth] = f, ![Depth - 1] = g]
         IN /\ s \in Seq(Frame) /\ Len(s) = Depth
            /\ t \in Seq(Frame) /\ Len(t) = Depth
            /\ s[Depth] = Top /\ s[Depth - 1] = g
            /\ t[Depth] = f /\ t[Depth - 1] = g
            /\ \A k \in 1 .. Depth - 2 : s[k] = stack[k] /\ t[k] = stack[k]
  BY DEF Depth, Top

\* The ways an action changes a frame.

LEMMA PanicType ==
  ASSUME raised \in Nat
  PROVE  NoPanic \in Panic /\ \A kind \in Kinds : NewPanic(kind) \in Panic
  BY DEF NewPanic, NoPanic, Panic

LEMMA UpdateType ==
  ASSUME NEW f \in Frame, NEW p \in Panic
  PROVE  /\ Caught(f, p) \in Frame
         /\ Pardoned(f) \in Frame
         /\ [Caught(f, p) EXCEPT !.pc = "unwinding", !.todo = f.defers] \in Frame
         /\ [f EXCEPT !.pc = "returning", !.todo = f.defers] \in Frame
         /\ [Cleared(f) EXCEPT !.pc = "unwinding", !.todo = <<>>] \in Frame
  <1>1. NoPanic \in Panic
    BY DEF NoPanic, Panic
  <1>2. Caught(f, p) \in Frame
    BY DEF Caught, Frame
  <1>3. Pardoned(f) \in Frame
    BY <1>1 DEF Pardoned, Frame
  <1>4. f.defers \in Seq(Deferred) /\ <<>> \in Seq(Deferred)
    BY DEF Frame
  <1>5. ASSUME NEW g \in Frame, NEW d \in Seq(Deferred)
        PROVE  /\ [g EXCEPT !.pc = "unwinding", !.todo = d] \in Frame
               /\ [g EXCEPT !.pc = "returning", !.todo = d] \in Frame
               /\ [g EXCEPT !.defers = d] \in Frame
    BY <1>5 DEF Frame
  <1>6. Cleared(f) \in Frame
    BY <1>4, <1>5 DEF Cleared
  <1>. QED
    BY <1>2, <1>3, <1>4, <1>5, <1>6

LEMMA DeferType ==
  ASSUME NEW f \in Frame, NEW kind \in DeferKinds
  PROVE  LET d == [kind |-> kind, rank |-> f.pushed + 1]
             g == [f EXCEPT !.defers = <<d>> \o @, !.pushed = f.pushed + 1]
         IN /\ g \in Frame
            /\ Len(g.defers) = Len(f.defers) + 1
            /\ g.defers[1] = d
            /\ \A k \in 1 .. Len(f.defers) : g.defers[k + 1] = f.defers[k]
  <1> DEFINE d == [kind |-> kind, rank |-> f.pushed + 1]
             g == [f EXCEPT !.defers = <<d>> \o @, !.pushed = f.pushed + 1]
  <1>1. f.defers \in Seq(Deferred) /\ f.pushed \in Nat
    BY DEF Frame
  <1>2. d \in Deferred
    BY <1>1 DEF Deferred
  <1> HIDE DEF d
  <1>3. /\ <<d>> \o f.defers \in Seq(Deferred)
        /\ Len(<<d>> \o f.defers) = Len(f.defers) + 1
        /\ (<<d>> \o f.defers)[1] = d
        /\ \A k \in 1 .. Len(f.defers) : (<<d>> \o f.defers)[k + 1] = f.defers[k]
    BY <1>1, <1>2
  <1>4. g.defers = <<d>> \o f.defers /\ g \in Frame
    <2>1. ASSUME NEW h \in Seq(Deferred), NEW n \in Nat
          PROVE  LET r == [f EXCEPT !.defers = h, !.pushed = n]
                 IN r.defers = h /\ r \in Frame
      BY <2>1 DEF Frame
    <2> DEFINE h == <<d>> \o f.defers
    <2> HIDE DEF h
    <2>2. h \in Seq(Deferred) /\ f.pushed + 1 \in Nat
      BY <1>1, <1>3 DEF h
    <2>3. g = [f EXCEPT !.defers = h, !.pushed = f.pushed + 1]
      BY DEF h
    <2>4. g.defers = h /\ g \in Frame
      BY <2>1, <2>2, <2>3
    <2>. QED
      BY <2>4 DEF h
  <1>5. d = [kind |-> kind, rank |-> f.pushed + 1]
    BY DEF d
  <1>. QED
    BY <1>3, <1>4, <1>5

LEMMA TakenType ==
  ASSUME NEW f \in Frame, f.todo # <<>>
  PROVE  /\ Taken(f) \in Frame
         /\ Len(Taken(f).todo) = Len(f.todo) - 1
         /\ \A k \in 1 .. Len(f.todo) - 1 : Taken(f).todo[k] = f.todo[k + 1]
         /\ Len(Taken(f).ran) = Len(f.ran) + 1
         /\ \A k \in 1 .. Len(f.ran) : Taken(f).ran[k] = f.ran[k]
         /\ Taken(f).ran[Len(f.ran) + 1] = f.todo[1].rank
  <1>1. /\ f.todo \in Seq(Deferred)
        /\ f.ran \in Seq(Nat)
    BY DEF Frame
  <1>2. /\ Head(f.todo) = f.todo[1]
        /\ Head(f.todo) \in Deferred
        /\ Tail(f.todo) \in Seq(Deferred)
        /\ Len(Tail(f.todo)) = Len(f.todo) - 1
        /\ \A k \in 1 .. Len(f.todo) - 1 : Tail(f.todo)[k] = f.todo[k + 1]
    BY <1>1, HeadTailProperties
  <1>3. Head(f.todo).rank \in Nat
    BY <1>2 DEF Deferred
  <1>4. /\ Append(f.ran, Head(f.todo).rank) \in Seq(Nat)
        /\ Len(Append(f.ran, Head(f.todo).rank)) = Len(f.ran) + 1
        /\ \A k \in 1 .. Len(f.ran) : Append(f.ran, Head(f.todo).rank)[k] = f.ran[k]
        /\ Append(f.ran, Head(f.todo).rank)[Len(f.ran) + 1] = Head(f.todo).rank
    BY <1>1, <1>3, AppendProperties
  <1>5. /\ Taken(f).todo = Tail(f.todo)
        /\ Taken(f).ran = Append(f.ran, Head(f.todo).rank)
        /\ Taken(f) \in Frame
    BY <1>2, <1>4 DEF Taken, Frame
  <1>. QED
    BY <1>2, <1>4, <1>5

-----------------------------------------------------------------------------
\* Every variable keeps its shape.
THEOREM TypeCorrect == Spec => []TypeOK
<1>1. Init => TypeOK
  <2>1. NewFrame("entry") \in Frame
    BY NewFrameType
  <2>2. <<NewFrame("entry")>> \in Seq(Frame) /\ NoPanic \in Panic
    BY <2>1 DEF Panic, NoPanic
  <2> SUFFICES ASSUME Init PROVE TypeOK
    OBVIOUS
  <2>3. stack \in Seq(Frame) /\ flight \in Panic
    BY <2>2 DEF Init
  <2>4. recovered \in SUBSET Nat
    BY DEF Init
  <2>5. raised \in Nat /\ cause \in Nat /\ work \in Nat /\ disableRecover \in BOOLEAN
    BY DEF Init
  <2>. QED
    BY <2>3, <2>4, <2>5 DEF Init, TypeOK
<1>2. TypeOK /\ [Next]_vars => TypeOK'
  <2> SUFFICES ASSUME TypeOK, [Next]_vars
               PROVE  TypeOK'
    OBVIOUS
  <2> USE DEF TypeOK
  <2>1. CASE CallFn
    BY <2>1, NewFrameType, PushStack DEF CallFn
  <2>2. ASSUME NEW kind \in DeferKinds, Defer(kind)
        PROVE  TypeOK'
    <3>1. Top \in Frame /\ stack # <<>> /\ work' = work + 1
      BY <2>2, TopType DEF Defer, InBody
    <3>2. PICK f \in Frame : stack' = SetTop(f)
      BY <2>2, <3>1, DeferType DEF Defer
    <3>. QED
      BY <2>2, <3>1, <3>2, SetTopStack DEF Defer
  <2>3. ASSUME NEW kind \in RaiseKinds, Raise(kind)
        PROVE  TypeOK'
    BY <2>3, FramesAssumption, PanicType DEF Raise
  <2>4. ASSUME NEW kind \in RaiseKinds, RunDeferRaise(kind)
        PROVE  TypeOK'
    <3>1. Taken(Top) \in Frame /\ NewPanic(kind) \in Panic
      BY <2>4, FramesAssumption, TopType, TakenType, PanicType
      DEF RunDeferRaise, NextDefer, InDefers
    <3>2. Caught(Taken(Top), NewPanic(kind)) \in Frame
      BY <3>1, UpdateType
    <3>. QED
      BY <2>4, <3>2, SetTopStack DEF RunDeferRaise, NextDefer, InDefers
  <2>5. CASE Recover
    <3>1. Depth > 1 /\ stack[Depth - 1] \in Frame
      BY <2>5, TopType DEF Recover, InBody, CanRecover
    <3>2. stack[Depth - 1].panic \in Panic /\ stack[Depth - 1].panic.id \in Nat
      BY <3>1 DEF Frame, Panic
    <3>3. Pardoned(stack[Depth - 1]) \in Frame /\ NewPanic("string") \in Panic
      BY <3>1, <3>2, UpdateType, PanicType DEF Kinds
    <3>4. stack' \in Seq(Frame)
      BY <2>5, <3>1, <3>3, BelowTop DEF Recover
    <3>5. \/ /\ recovered' = recovered \cup {stack[Depth - 1].panic.id}
             /\ flight' = flight /\ raised' = raised
          \/ recovered' = recovered /\ flight' = NewPanic("string") /\ raised' = raised + 1
      BY <2>5 DEF Recover
    <3>6. recovered' \in SUBSET Nat
      <4>1. recovered' \subseteq recovered \cup {stack[Depth - 1].panic.id}
        BY <3>5
      <4>. QED
        BY <4>1, <3>2
    <3>7. raised' \in Nat /\ flight' \in Panic
      BY <3>3, <3>5
    <3>8. entry' = entry /\ cause' = cause /\ work' = work
          /\ exitCode' = exitCode /\ disableRecover' = disableRecover
      BY <2>5 DEF Recover
    <3>. QED
      BY <3>4, <3>6, <3>7, <3>8
  <2>6. CASE RunDefers
    <3>1. Top \in Frame /\ NoPanic \in Panic
      BY <2>6, TopType, PanicType DEF RunDefers, InBody
    <3>. QED
      BY <2>6, <3>1, UpdateType, SetTopStack DEF RunDefers, InBody
  <2>7. CASE RunDeferFn
    <3>1. Top \in Frame /\ Top.todo # <<>>
      BY <2>7, TopType DEF RunDeferFn, NextDefer, InDefers
    <3>2. SetTop(Taken(Top)) \in Seq(Frame)
      BY <2>7, <3>1, TakenType, SetTopStack DEF RunDeferFn, NextDefer, InDefers
    <3>. QED
      BY <2>7, <3>2, NewFrameType, PushStack DEF RunDeferFn
  <2>8. CASE RunDeferRecover
    <3>1. Top \in Frame /\ Taken(Top) \in Frame
      BY <2>8, TopType, TakenType DEF RunDeferRecover, NextDefer, InDefers
    <3>2. CASE ~CanRecover
      BY <2>8, <3>1, <3>2, SetTopStack DEF RunDeferRecover, NextDefer, InDefers
    <3>3. CASE CanRecover
      <4>1. Depth > 1 /\ stack[Depth - 1] \in Frame
        BY <2>8, <3>3, TopType DEF RunDeferRecover, NextDefer, InDefers, CanRecover
      <4>2. stack[Depth - 1].panic \in Panic /\ stack[Depth - 1].panic.id \in Nat
        BY <4>1 DEF Frame, Panic
      <4>3. /\ Pardoned(stack[Depth - 1]) \in Frame
            /\ Caught(Taken(Top), NewPanic("string")) \in Frame
        BY <3>1, <4>1, <4>2, UpdateType, PanicType DEF Kinds
      <4>4. stack' = [stack EXCEPT ![Depth] = Taken(Top), ![Depth - 1] = Pardoned(stack[Depth - 1])]
            \/ stack' = [stack EXCEPT ![Depth] = Caught(Taken(Top), NewPanic("string")),
                                      ![Depth - 1] = Pardoned(stack[Depth - 1])]
        BY <2>8, <3>3, <4>1 DEF RunDeferRecover, Top, Depth
      <4>5. stack' \in Seq(Frame)
        BY <3>1, <4>1, <4>3, <4>4, BelowTop
      <4>6. raised' \in Nat /\ recovered' \in SUBSET Nat
        <5>1. raised' \in {raised, raised + 1}
          BY <2>8 DEF RunDeferRecover
        <5>2. recovered' \in {recovered, recovered \cup {stack[Depth - 1].panic.id}}
          BY <2>8 DEF RunDeferRecover
        <5>. QED
          BY <4>2, <5>1, <5>2
      <4>. QED
        BY <2>8, <4>5, <4>6 DEF RunDeferRecover
    <3>. QED
      BY <3>2, <3>3
  <2>9. CASE ReturnFn
    BY <2>9, PopStack DEF ReturnFn, InDefers
  <2>10. CASE PanicAgain
    <3>1. Top \in Frame /\ NoPanic \in Panic /\ Cleared(Top).defers = <<>>
      BY <2>10, TopType, PanicType DEF PanicAgain, InDefers, Cleared, Frame
    <3>. QED
      BY <2>10, <3>1, UpdateType, SetTopStack DEF PanicAgain, InDefers
  <2>11. CASE PanicOut
    BY <2>11, PopStack, TopType DEF PanicOut, InDefers, Frame
  <2>12. CASE UnwindBody
    <3>1. Top \in Frame
      BY <2>12, TopType DEF UnwindBody
    <3>2. [Caught(Top, flight) EXCEPT !.pc = "unwinding", !.todo = Top.defers] \in Frame
      BY <3>1, UpdateType
    <3>. QED
      BY <2>12, <3>2, SetTopStack, PopStack, PanicType DEF UnwindBody
  <2>13. CASE UnwindDefer
    <3>1. Caught(Top, flight) \in Frame
      BY <2>13, TopType, UpdateType DEF UnwindDefer
    <3>. QED
      BY <2>13, <3>1, SetTopStack, PanicType DEF UnwindDefer
  <2>14. CASE CallMain
    BY <2>14, NewFrameType DEF CallMain
  <2>15. CASE MainReturned \/ NoMain \/ TopHandler
    <3>1. flight.id \in Nat /\ NoPanic \in Panic
      BY PanicType DEF Panic
    <3>2. PICK code \in {"0", "1", "2", "status", "crash"}, by \in Nat : Finish(code, by)
      BY <2>15, <3>1 DEF MainReturned, NoMain, TopHandler
    <3>. QED
      BY <3>1, <3>2 DEF Finish
  <2>16. CASE Terminated \/ UNCHANGED vars
    BY <2>16 DEF Terminated, vars
  <2>. QED
    BY <2>1, <2>2, <2>3, <2>4, <2>5, <2>6, <2>7, <2>8, <2>9, <2>10, <2>11, <2>12,
       <2>13, <2>14, <2>15, <2>16 DEF Next
<1>. QED
  BY <1>1, <1>2, PTL DEF Spec

-----------------------------------------------------------------------------
\* What each update does to the bookkeeping of one frame's deferred calls.

LEMMA NewFrameInOrder == \A via \in {"entry", "call", "defer"} : InOrder(NewFrame(via))
  BY DEF InOrder, NewFrame, Deferring

LEMMA DeferInOrder ==
  ASSUME NEW f \in Frame, f.pc = "body", InOrder(f), NEW kind \in DeferKinds
  PROVE  InOrder([f EXCEPT !.defers = <<[kind |-> kind, rank |-> f.pushed + 1]>> \o @,
                           !.pushed = f.pushed + 1])
  <1> DEFINE g == [f EXCEPT !.defers = <<[kind |-> kind, rank |-> f.pushed + 1]>> \o @,
                            !.pushed = f.pushed + 1]
  <1>1. /\ g \in Frame
        /\ Len(g.defers) = Len(f.defers) + 1
        /\ g.defers[1] = [kind |-> kind, rank |-> f.pushed + 1]
        /\ \A k \in 1 .. Len(f.defers) : g.defers[k + 1] = f.defers[k]
    BY DeferType
  <1>2. g.pc = "body" /\ g.ran = f.ran /\ g.todo = f.todo /\ g.pushed = f.pushed + 1
    BY DEF Frame
  <1>3. /\ f.pushed \in Nat /\ f.ran = <<>> /\ f.todo = <<>> /\ Len(f.defers) = f.pushed
        /\ \A d \in 1 .. f.pushed : f.defers[d].rank = f.pushed + 1 - d
    BY DEF InOrder, Frame
  <1> HIDE DEF g
  <1>4. ASSUME NEW d \in 1 .. g.pushed
        PROVE  g.defers[d].rank = g.pushed + 1 - d
    <2>1. CASE d = 1
      BY <1>1, <1>2, <1>3, <2>1
    <2>2. CASE d # 1
      <3>1. d - 1 \in 1 .. Len(f.defers) /\ d = (d - 1) + 1
        BY <1>2, <1>3, <2>2
      <3>2. g.defers[d] = f.defers[d - 1]
        BY <1>1, <3>1
      <3>. QED
        BY <1>2, <1>3, <3>1, <3>2
    <2>. QED
      BY <2>1, <2>2
  <1>5. InOrder(g)
    BY <1>1, <1>2, <1>3, <1>4 DEF InOrder, Deferring
  <1>. QED
    BY <1>5 DEF g

LEMMA TakenInOrder ==
  ASSUME NEW f \in Frame, Deferring(f), f.todo # <<>>, InOrder(f)
  PROVE  InOrder(Taken(f)) /\ Deferring(Taken(f))
  <1> DEFINE g == Taken(f)
  <1>1. /\ g \in Frame
        /\ Len(g.todo) = Len(f.todo) - 1
        /\ \A k \in 1 .. Len(f.todo) - 1 : g.todo[k] = f.todo[k + 1]
        /\ Len(g.ran) = Len(f.ran) + 1
        /\ \A k \in 1 .. Len(f.ran) : g.ran[k] = f.ran[k]
        /\ g.ran[Len(f.ran) + 1] = f.todo[1].rank
    BY TakenType
  <1>2. g.pc = f.pc /\ g.pushed = f.pushed
    BY DEF Taken, Frame
  <1>3. /\ Len(f.todo) \in Nat /\ Len(f.todo) > 0 /\ Len(f.ran) \in Nat /\ f.pushed \in Nat
        /\ f.pc \in {"returning", "unwinding"}
    BY DEF Frame, Deferring
  <1>4. /\ Len(f.ran) + Len(f.todo) = f.pushed
        /\ \A d \in 1 .. Len(f.ran) : f.ran[d] = f.pushed + 1 - d
        /\ \A d \in 1 .. Len(f.todo) : f.todo[d].rank = Len(f.todo) + 1 - d
    BY DEF InOrder
  <1> HIDE DEF g
  <1>5. ASSUME NEW d \in 1 .. Len(g.ran)
        PROVE  g.ran[d] = g.pushed + 1 - d
    <2>1. f.todo[1].rank = Len(f.todo) + 1 - 1
      BY <1>3, <1>4
    <2>2. CASE d = Len(f.ran) + 1
      <3>1. \A m, n \in Nat : m + 1 - 1 = (n + m) + 1 - (n + 1)
        OBVIOUS
      <3>2. Len(f.todo) + 1 - 1 = f.pushed + 1 - (Len(f.ran) + 1)
        BY <1>3, <1>4, <3>1
      <3>. QED
        BY <1>1, <1>2, <2>1, <2>2, <3>2
    <2>3. CASE d \in 1 .. Len(f.ran)
      BY <1>1, <1>2, <1>4, <2>3
    <2>. QED
      BY <1>1, <1>3, <2>2, <2>3
  <1>6. ASSUME NEW d \in 1 .. Len(g.todo)
        PROVE  g.todo[d].rank = Len(g.todo) + 1 - d
    <2>1. d \in 1 .. Len(f.todo) - 1 /\ d + 1 \in 1 .. Len(f.todo)
      BY <1>1, <1>3
    <2>2. g.todo[d] = f.todo[d + 1] /\ f.todo[d + 1].rank = Len(f.todo) + 1 - (d + 1)
      BY <1>1, <1>4, <2>1
    <2>3. \A m, e \in Int : m + 1 - (e + 1) = (m - 1) + 1 - e
      OBVIOUS
    <2>4. Len(f.todo) \in Int /\ d \in Int
      BY <1>3
    <2>5. Len(f.todo) + 1 - (d + 1) = (Len(f.todo) - 1) + 1 - d
      BY <2>3, <2>4
    <2>. QED
      BY <1>1, <2>2, <2>5
  <1>7. Len(g.ran) + Len(g.todo) = g.pushed
    <2>1. \A m, n \in Nat : (n + 1) + (m - 1) = n + m
      OBVIOUS
    <2>. QED
      BY <1>1, <1>2, <1>3, <1>4, <2>1
  <1>8. Deferring(g) /\ g.pc # "body"
    BY <1>2 DEF Deferring
  <1>9. InOrder(g)
    BY <1>5, <1>6, <1>7, <1>8 DEF InOrder
  <1>. QED
    BY <1>8, <1>9 DEF g

LEMMA SameInOrder ==
  ASSUME NEW f \in Frame, InOrder(f), NEW p \in Panic
  PROVE  InOrder(Caught(f, p)) /\ InOrder(Pardoned(f))
  <1>1. \A g \in {Caught(f, p), Pardoned(f)} :
          /\ g.pc = f.pc /\ g.ran = f.ran /\ g.todo = f.todo
          /\ g.defers = f.defers /\ g.pushed = f.pushed
    BY DEF Caught, Pardoned, Frame
  <1>. QED
    BY <1>1 DEF InOrder, Deferring

\* From the body to the loop over its deferred calls.
LEMMA StartInOrder ==
  ASSUME NEW f \in Frame, f.pc = "body", InOrder(f), NEW g \in Frame,
         Deferring(g), g.todo = f.defers, g.ran = f.ran, g.pushed = f.pushed
  PROVE  InOrder(g)
  <1>1. f.pushed \in Nat /\ Len(f.ran) = 0 /\ Len(f.defers) = f.pushed
    BY DEF InOrder, Frame
  <1>2. g.pc # "body"
    BY DEF Deferring
  <1>. QED
    BY <1>1, <1>2 DEF InOrder

\* Nothing deferred is ever lost, repeated or reordered.
THEOREM DefersStayInOrder == Spec => []DefersInOrder
<1>1. Init => DefersInOrder
  <2> SUFFICES ASSUME Init PROVE DefersInOrder
    OBVIOUS
  <2>1. Len(stack) = 1 /\ stack[1] = NewFrame("entry")
    BY DEF Init
  <2>. QED
    BY <2>1, NewFrameInOrder DEF DefersInOrder
<1>2. TypeOK /\ DefersInOrder /\ [Next]_vars => DefersInOrder'
  <2> SUFFICES ASSUME TypeOK, DefersInOrder, [Next]_vars
               PROVE  DefersInOrder'
    OBVIOUS
  <2>1. stack \in Seq(Frame)
    BY DEF TypeOK
  <2>2. stack # <<>> => Top \in Frame /\ InOrder(Top) /\ Depth \in Nat \ {0}
    BY <2>1, TopType DEF DefersInOrder, Top, Depth
  \* Actions that change the frame on top only.
  <2>3. ASSUME stack # <<>>, NEW f \in Frame, InOrder(f), stack' = SetTop(f)
        PROVE  DefersInOrder'
    BY <2>1, <2>3, SetTopStack DEF DefersInOrder, Depth
  \* Actions that push a frame.
  <2>4. ASSUME stack # <<>>, NEW f \in Frame, InOrder(f), NEW via \in {"call", "defer"},
               stack' = Append(SetTop(f), NewFrame(via))
        PROVE  DefersInOrder'
    <3>0. /\ Depth \in Nat \ {0} /\ SetTop(f) \in Seq(Frame) /\ Len(SetTop(f)) = Depth
          /\ SetTop(f)[Depth] = f /\ \A k \in 1 .. Depth - 1 : SetTop(f)[k] = stack[k]
      BY <2>1, <2>4, SetTopStack
    <3>1. ASSUME NEW k \in 1 .. Len(SetTop(f)) PROVE InOrder(SetTop(f)[k])
      <4>1. CASE k = Depth
        BY <2>4, <3>0, <4>1
      <4>2. CASE k \in 1 .. Depth - 1
        BY <3>0, <4>2 DEF DefersInOrder, Depth
      <4>. QED
        BY <3>0, <4>1, <4>2
    <3>2. InOrder(NewFrame(via)) /\ NewFrame(via) \in Frame
      BY NewFrameInOrder, NewFrameType
    <3>3. /\ Len(stack') = Depth + 1 /\ stack'[Depth + 1] = NewFrame(via)
          /\ \A k \in 1 .. Depth : stack'[k] = SetTop(f)[k]
      BY <2>4, <3>0, <3>2, PushStack
    <3>4. ASSUME NEW k \in 1 .. Len(stack') PROVE InOrder(stack'[k])
      BY <3>0, <3>1, <3>2, <3>3
    <3>. QED
      BY <3>4 DEF DefersInOrder
  \* Actions that pop the frame on top.
  <2>5. ASSUME stack # <<>>, stack' = Pop(stack)
        PROVE  DefersInOrder'
    BY <2>1, <2>5, PopStack DEF DefersInOrder, Depth
  \* Actions that pardon the frame below the top.
  <2>6. ASSUME Depth > 1, NEW f \in Frame, InOrder(f),
               stack' = [stack EXCEPT ![Depth] = f, ![Depth - 1] = Pardoned(stack[Depth - 1])]
        PROVE  DefersInOrder'
    <3>1. stack # <<>> /\ Depth \in Nat /\ stack[Depth - 1] \in Frame /\ InOrder(stack[Depth - 1])
      BY <2>1, <2>6 DEF DefersInOrder, Depth
    <3>2. NoPanic \in Panic
      BY DEF NoPanic, Panic
    <3>3. Pardoned(stack[Depth - 1]) \in Frame /\ InOrder(Pardoned(stack[Depth - 1]))
      BY <3>1, <3>2, UpdateType, SameInOrder
    <3>4. /\ Len(stack') = Depth
          /\ stack'[Depth] = f /\ stack'[Depth - 1] = Pardoned(stack[Depth - 1])
          /\ \A k \in 1 .. Depth - 2 : stack'[k] = stack[k]
      BY <2>1, <2>6, <3>3, BelowTop
    <3>5. ASSUME NEW k \in 1 .. Len(stack') PROVE InOrder(stack'[k])
      <4>1. CASE k \in {Depth, Depth - 1}
        BY <2>6, <3>3, <3>4, <4>1
      <4>2. CASE k \in 1 .. Depth - 2
        <5>1. stack'[k] = stack[k] /\ k \in 1 .. Len(stack)
          BY <3>1, <3>4, <4>2 DEF Depth
        <5>. QED
          BY <5>1 DEF DefersInOrder
      <4>. QED
        BY <3>1, <3>4, <4>1, <4>2
    <3>. QED
      BY <3>5 DEF DefersInOrder
  <2>10. CASE CallFn
    <3>1. stack # <<>> /\ stack' = Append(SetTop(Top), NewFrame("call"))
      BY <2>1, <2>10 DEF CallFn, InBody, SetTop, Top, Depth
    <3>. QED
      BY <2>2, <2>4, <3>1
  <2>11. ASSUME NEW kind \in DeferKinds, Defer(kind)
         PROVE  DefersInOrder'
    <3>1. stack # <<>> /\ Top.pc = "body"
      BY <2>11 DEF Defer, InBody
    <3>. QED
      BY <2>2, <2>3, <2>11, <3>1, DeferInOrder, DeferType DEF Defer
  <2>12. ASSUME NEW kind \in RaiseKinds, RunDeferRaise(kind)
         PROVE  DefersInOrder'
    <3>1. stack # <<>> /\ Deferring(Top) /\ Top.todo # <<>>
      BY <2>12 DEF RunDeferRaise, NextDefer, InDefers
    <3>2. Taken(Top) \in Frame /\ InOrder(Taken(Top)) /\ NewPanic(kind) \in Panic
      BY <2>2, <3>1, TakenType, TakenInOrder, PanicType, FramesAssumption DEF TypeOK
    <3>3. LET f == Caught(Taken(Top), NewPanic(kind)) IN f \in Frame /\ InOrder(f)
      BY <3>2, UpdateType, SameInOrder
    <3>. QED
      BY <2>3, <2>12, <3>1, <3>3 DEF RunDeferRaise
  <2>13. CASE Recover
    <3>1. Depth > 1 /\ stack # <<>>
      BY <2>13 DEF Recover, InBody, CanRecover
    <3>2. stack' = [stack EXCEPT ![Depth] = Top, ![Depth - 1] = Pardoned(stack[Depth - 1])]
      BY <2>1, <2>13, <3>1 DEF Recover, Top, Depth
    <3>. QED
      BY <2>2, <2>6, <3>1, <3>2
  <2>14. CASE RunDefers
    <3>1. stack # <<>> /\ Top.pc = "body"
      BY <2>14 DEF RunDefers, InBody
    <3> DEFINE f == [Top EXCEPT !.pc = "returning", !.todo = Top.defers]
    <3>2. f \in Frame
      <4>1. NoPanic \in Panic /\ Top \in Frame
        BY <2>2, <3>1 DEF NoPanic, Panic
      <4>. QED
        BY <4>1, UpdateType
    <3>3. Deferring(f) /\ f.todo = Top.defers /\ f.ran = Top.ran /\ f.pushed = Top.pushed
      BY <2>2, <3>1 DEF Deferring, Frame
    <3>4. InOrder(f)
      BY <2>2, <3>1, <3>2, <3>3, StartInOrder
    <3>. QED
      BY <2>3, <2>14, <3>1, <3>2, <3>4 DEF RunDefers
  <2>15. CASE RunDeferFn
    <3>1. stack # <<>> /\ Deferring(Top) /\ Top.todo # <<>>
      BY <2>15 DEF RunDeferFn, NextDefer, InDefers
    <3>. QED
      BY <2>2, <2>4, <2>15, <3>1, TakenType, TakenInOrder DEF RunDeferFn
  <2>16. CASE RunDeferRecover
    <3>1. stack # <<>> /\ Deferring(Top) /\ Top.todo # <<>>
      BY <2>16 DEF RunDeferRecover, NextDefer, InDefers
    <3>2. Taken(Top) \in Frame /\ InOrder(Taken(Top)) /\ NewPanic("string") \in Panic
      BY <2>2, <3>1, TakenType, TakenInOrder, PanicType DEF TypeOK, Kinds
    <3>3. LET f == Caught(Taken(Top), NewPanic("string")) IN f \in Frame /\ InOrder(f)
      BY <3>2, UpdateType, SameInOrder
    <3>4. CASE stack' = SetTop(Taken(Top))
      BY <2>3, <3>1, <3>2, <3>4
    <3>5. CASE /\ CanRecover
               /\ stack' = [stack EXCEPT ![Depth] = Taken(@), ![Depth - 1] = Pardoned(@)]
      <4>1. Depth > 1
        BY <3>5 DEF CanRecover
      <4>2. stack' = [stack EXCEPT ![Depth] = Taken(Top), ![Depth - 1] = Pardoned(stack[Depth - 1])]
        BY <2>1, <3>5, <4>1 DEF Top, Depth
      <4>. QED
        BY <2>6, <3>2, <4>1, <4>2
    <3>6. CASE /\ CanRecover
               /\ stack' = [stack EXCEPT ![Depth] = Caught(Taken(@), NewPanic("string")),
                                         ![Depth - 1] = Pardoned(@)]
      <4>1. Depth > 1
        BY <3>6 DEF CanRecover
      <4>2. stack' = [stack EXCEPT ![Depth] = Caught(Taken(Top), NewPanic("string")),
                                   ![Depth - 1] = Pardoned(stack[Depth - 1])]
        BY <2>1, <3>6, <4>1 DEF Top, Depth
      <4>. QED
        BY <2>6, <3>3, <4>1, <4>2
    <3>. QED
      BY <2>16, <3>4, <3>5, <3>6 DEF RunDeferRecover
  <2>17. CASE ReturnFn \/ PanicOut
    BY <2>5, <2>17 DEF ReturnFn, PanicOut, InDefers
  <2>18. CASE PanicAgain
    <3>1. stack # <<>> /\ Deferring(Top) /\ Top.todo = <<>>
      BY <2>18 DEF PanicAgain, InDefers
    <3> DEFINE f == [Cleared(Top) EXCEPT !.pc = "unwinding", !.todo = <<>>]
    <3>2. f \in Frame
      <4>1. NoPanic \in Panic /\ Top \in Frame
        BY <2>2, <3>1 DEF NoPanic, Panic
      <4>. QED
        BY <4>1, UpdateType
    <3>3. f.pc = "unwinding" /\ f.todo = Top.todo /\ f.ran = Top.ran /\ f.pushed = Top.pushed
      BY <2>2, <3>1 DEF Cleared, Frame
    <3>4. InOrder(f)
      BY <2>2, <3>1, <3>3 DEF InOrder, Deferring
    <3>5. Cleared(Top).defers = <<>>
      BY <2>2, <3>1 DEF Cleared, Frame
    <3>. QED
      BY <2>3, <2>18, <3>1, <3>2, <3>4, <3>5 DEF PanicAgain
  <2>19. CASE UnwindBody
    <3>1. stack # <<>> /\ Top.pc = "body" /\ flight \in Panic
      BY <2>19 DEF UnwindBody, TypeOK
    <3> DEFINE f == [Caught(Top, flight) EXCEPT !.pc = "unwinding", !.todo = Top.defers]
    <3>2. f \in Frame
      BY <2>2, <3>1, UpdateType
    <3>3. Deferring(f) /\ f.todo = Top.defers /\ f.ran = Top.ran /\ f.pushed = Top.pushed
      BY <2>2, <3>1 DEF Deferring, Frame, Caught
    <3>4. InOrder(f)
      BY <2>2, <3>1, <3>2, <3>3, StartInOrder
    <3>. QED
      BY <2>3, <2>5, <2>19, <3>1, <3>2, <3>4 DEF UnwindBody
  <2>20. CASE UnwindDefer
    BY <2>2, <2>3, <2>20, UpdateType, SameInOrder DEF UnwindDefer, TypeOK
  <2>21. CASE CallMain
    <3>1. Len(stack') = 1 /\ stack'[1] = NewFrame("entry")
      BY <2>21 DEF CallMain
    <3>. QED
      BY <3>1, NewFrameInOrder DEF DefersInOrder
  <2>22. CASE UNCHANGED stack
    BY <2>22 DEF DefersInOrder
  <2>23. ASSUME \/ \E kind \in RaiseKinds : Raise(kind)
                \/ MainReturned \/ NoMain \/ TopHandler \/ Terminated \/ UNCHANGED vars
         PROVE  UNCHANGED stack
    BY <2>23 DEF Raise, MainReturned, NoMain, TopHandler, Finish, Terminated, vars
  <2>. QED
    BY <2>10, <2>11, <2>12, <2>13, <2>14, <2>15, <2>16, <2>17, <2>18, <2>19, <2>20,
       <2>21, <2>22, <2>23 DEF Next
<1>. QED
  BY <1>1, <1>2, TypeCorrect, PTL DEF Spec

\* A function is left only when all its deferred calls have been made, once and
\* latest first: the action property checked as DefersRunLIFO.
THEOREM DefersAllRun == Spec => DefersRunLIFO
<1> DEFINE Left == Len(stack') < Len(stack) =>
                     \/ AllDeferredRan(Top)
                     \/ disableRecover /\ Top.pc = "body"
<1>1. TypeOK /\ DefersInOrder /\ [Next]_vars => [Left]_vars
  <2> SUFFICES ASSUME TypeOK, DefersInOrder, Next, Len(stack') < Len(stack)
               PROVE  AllDeferredRan(Top) \/ (disableRecover /\ Top.pc = "body")
    BY DEF vars
  <2>1. stack \in Seq(Frame) /\ Depth \in Nat /\ Depth = Len(stack)
    BY DEF TypeOK, Depth
  <2>2. stack # <<>>
    <3>1. stack = <<>> => Len(stack) = 0
      OBVIOUS
    <3>2. stack = <<>> => stack' = stack \/ stack' = <<NewFrame("entry")>>
      BY DEF Next, CallFn, Defer, Raise, RunDeferRaise, Recover, RunDefers, RunDeferFn,
             RunDeferRecover, ReturnFn, PanicAgain, PanicOut, UnwindBody, UnwindDefer,
             CallMain, MainReturned, NoMain, TopHandler, Finish, Terminated, vars,
             NextDefer, InBody, InDefers
    <3>3. Len(<<NewFrame("entry")>>) = 1
      OBVIOUS
    <3>. QED
      BY <3>1, <3>2, <3>3
  <2>3. Top \in Frame /\ InOrder(Top)
    BY <2>1, <2>2, TopType DEF DefersInOrder, Top
  \* A frame that is done with its list has run all of it.
  <2>4. ASSUME Deferring(Top), Top.todo = <<>>
        PROVE  AllDeferredRan(Top)
    <3>1. Len(Top.ran) \in Nat /\ Len(Top.ran) + Len(Top.todo) = Top.pushed /\ Len(Top.todo) = 0
      BY <2>3, <2>4 DEF InOrder, Frame
    <3>2. Len(Top.ran) = Top.pushed
      BY <3>1
    <3>. QED
      BY <2>3, <2>4, <3>2 DEF InOrder, AllDeferredRan
  \* The other steps do not shorten the stack.
  <2>6. ASSUME NEW f \in Frame, NEW via \in {"call", "defer"}
        PROVE  stack' # Append(SetTop(f), NewFrame(via))
    <3>1. SetTop(f) \in Seq(Frame) /\ Len(SetTop(f)) = Depth /\ NewFrame(via) \in Frame
      BY <2>1, <2>2, SetTopStack, NewFrameType
    <3>2. Len(Append(SetTop(f), NewFrame(via))) = Depth + 1
      BY <3>1, PushStack
    <3>. QED
      BY <2>1, <3>2
  <2>7. ASSUME NEW f, NEW g
        PROVE  /\ stack' # [stack EXCEPT ![Depth] = f, ![Depth - 1] = g]
               /\ stack' # [stack EXCEPT ![Depth - 1] = g]
    BY <2>1
  <2>8. CASE ReturnFn \/ PanicOut
    BY <2>4, <2>8 DEF ReturnFn, PanicOut, InDefers
  <2>9. CASE UnwindBody
    <3>1. CASE disableRecover
      BY <2>9, <3>1 DEF UnwindBody
    <3>2. CASE ~disableRecover
      <4>1. Len(stack') = Len(stack)
        BY <2>1, <2>9, <3>2 DEF UnwindBody, SetTop
      <4>. QED
        BY <2>1, <4>1
    <3>. QED
      BY <3>1, <3>2
  <2>10. CASE CallFn
    <3>1. stack' = Append(SetTop(Top), NewFrame("call"))
      BY <2>1, <2>10 DEF CallFn, SetTop, Top
    <3>. QED
      BY <2>3, <2>6, <3>1
  <2>11. CASE RunDeferFn
    <3>1. Taken(Top) \in Frame
      BY <2>3, <2>11, TakenType DEF RunDeferFn, NextDefer
    <3>. QED
      BY <2>6, <2>11, <3>1 DEF RunDeferFn
  <2>12. CASE Recover
    BY <2>7, <2>12 DEF Recover
  <2>13. ASSUME NEW f, stack' = SetTop(f)
         PROVE  FALSE
    BY <2>1, <2>13 DEF SetTop
  <2>14. CASE RunDeferRecover
    BY <2>7, <2>13, <2>14 DEF RunDeferRecover
  <2>15. CASE \/ \E kind \in DeferKinds : Defer(kind)
              \/ \E kind \in RaiseKinds : RunDeferRaise(kind)
              \/ RunDefers \/ PanicAgain \/ UnwindDefer
    BY <2>13, <2>15 DEF Defer, RunDeferRaise, RunDefers, PanicAgain, UnwindDefer
  <2>16. CASE UNCHANGED stack
    BY <2>1, <2>16
  <2>17. CASE CallMain
    BY <2>2, <2>17 DEF CallMain
  <2>. QED
    BY <2>8, <2>9, <2>10, <2>11, <2>12, <2>14, <2>15, <2>16, <2>17
    DEF Next, Raise, MainReturned, NoMain, TopHandler, Finish, Terminated, vars
<1>. QED
  BY <1>1, TypeCorrect, DefersStayInOrder, PTL DEF Spec, DefersRunLIFO

-----------------------------------------------------------------------------
\* The nesting ------------------------------------------------------------------

\* A panic has a number.
Numbered(p) == p # NoPanic => p.id # 0

\* What a frame says of its state of panic.
Held(f) ==
  /\ f.panicking => Deferring(f)
  /\ f.panicking <=> f.panic # NoPanic
  /\ Numbered(f.panic)

Nested(s) ==
  /\ \A k \in 1 .. Len(s) : Held(s[k]) /\ (s[k].via = "entry" <=> k = 1)
  /\ \A k \in 1 .. Len(s) - 1 : s[k + 1].via = "defer" <=> Deferring(s[k])

LEMMA NestedIsWellNested == Nested(stack) => WellNested
  BY Zenon DEF Nested, WellNested, Held

LEMMA NewFrameHeld ==
  \A via \in {"entry", "call", "defer"} : Held(NewFrame(via)) /\ NewFrame(via).via = via
  BY DEF Held, NewFrame, Numbered

\* The ways an action changes a frame.
LEMMA HeldUpdates ==
  ASSUME NEW f \in Frame, Held(f), NEW p \in Panic, p # NoPanic, Numbered(p)
  PROVE  /\ Held(Pardoned(f)) /\ Pardoned(f).via = f.via /\ (Deferring(Pardoned(f)) <=> Deferring(f))
         /\ Deferring(f) => Held(Caught(f, p))
         /\ Caught(f, p).via = f.via
         /\ LET g == [Caught(f, p) EXCEPT !.pc = "unwinding", !.todo = f.defers]
            IN Held(g) /\ g.via = f.via
         /\ LET g == [f EXCEPT !.pc = "returning", !.todo = f.defers]
            IN Held(g) /\ g.via = f.via
         /\ LET g == [Cleared(f) EXCEPT !.pc = "unwinding", !.todo = <<>>]
            IN Held(g) /\ g.via = f.via
  BY DEF Held, Pardoned, Caught, Cleared, Deferring, Frame, Numbered

LEMMA HeldTaken ==
  ASSUME NEW f \in Frame, Held(f)
  PROVE  /\ Held(Taken(f)) /\ Taken(f).via = f.via /\ (Deferring(Taken(f)) <=> Deferring(f))
         /\ \A d, n : LET g == [f EXCEPT !.defers = d, !.pushed = n] IN Held(g) /\ g.via = f.via
  BY DEF Held, Taken, Deferring, Frame

\* The ways an action changes the stack.
LEMMA NestedSetTop ==
  ASSUME stack \in Seq(Frame), stack # <<>>, Nested(stack),
         NEW f \in Frame, Held(f), f.via = Top.via
  PROVE  Nested(SetTop(f))
  <1>1. /\ Depth \in Nat \ {0} /\ Len(SetTop(f)) = Depth /\ SetTop(f)[Depth] = f
        /\ \A k \in 1 .. Depth - 1 : SetTop(f)[k] = stack[k]
    BY SetTopStack
  <1>2. Depth = Len(stack) /\ Top = stack[Depth]
    BY DEF Depth, Top
  <1>. QED
    BY <1>1, <1>2 DEF Nested

LEMMA NestedPush ==
  ASSUME NEW s \in Seq(Frame), s # <<>>, Nested(s), NEW via \in {"call", "defer"},
         via = "defer" <=> Deferring(s[Len(s)])
  PROVE  Nested(Append(s, NewFrame(via)))
  <1>1. NewFrame(via) \in Frame /\ Held(NewFrame(via)) /\ NewFrame(via).via = via
    BY NewFrameType, NewFrameHeld
  <1> DEFINE t == Append(s, NewFrame(via))
  <1>2. /\ Len(t) = Len(s) + 1 /\ t[Len(s) + 1] = NewFrame(via)
        /\ \A k \in 1 .. Len(s) : t[k] = s[k]
    BY <1>1, PushStack
  <1>3. Len(s) \in Nat \ {0}
    OBVIOUS
  <1> HIDE DEF t
  <1>4. Nested(t)
    BY <1>1, <1>2, <1>3 DEF Nested
  <1>. QED
    BY <1>4 DEF t

LEMMA NestedPop ==
  ASSUME stack \in Seq(Frame), stack # <<>>, Nested(stack)
  PROVE  Nested(Pop(stack))
  <1>1. Len(Pop(stack)) = Depth - 1 /\ \A k \in 1 .. Depth - 1 : Pop(stack)[k] = stack[k]
    BY PopStack
  <1>2. Depth = Len(stack) /\ Depth \in Nat
    BY DEF Depth
  <1>. QED
    BY <1>1, <1>2 DEF Nested

LEMMA NestedBelow ==
  ASSUME stack \in Seq(Frame), Depth > 1, Nested(stack),
         NEW f \in Frame, Held(f), f.via = Top.via,
         NEW g \in Frame, Held(g), g.via = stack[Depth - 1].via,
         Deferring(g) <=> Deferring(stack[Depth - 1])
  PROVE  Nested([stack EXCEPT ![Depth] = f, ![Depth - 1] = g])
  <1> DEFINE t == [stack EXCEPT ![Depth] = f, ![Depth - 1] = g]
  <1>1. /\ Len(t) = Depth /\ t[Depth] = f /\ t[Depth - 1] = g
        /\ \A k \in 1 .. Depth - 2 : t[k] = stack[k]
    BY BelowTop
  <1>2. Depth = Len(stack) /\ Depth \in Nat /\ Top = stack[Depth]
    BY DEF Depth, Top
  <1> HIDE DEF t
  <1>3. ASSUME NEW k \in 1 .. Depth
        PROVE  /\ Held(t[k]) /\ t[k].via = stack[k].via
               /\ k # Depth => (Deferring(t[k]) <=> Deferring(stack[k]))
    <2>1. k = Depth \/ k = Depth - 1 \/ k \in 1 .. Depth - 2
      BY <1>2
    <2>2. Held(stack[k])
      BY <1>2 DEF Nested
    <2>. QED
      BY <1>1, <1>2, <2>1, <2>2
  <1>4. ASSUME NEW k \in 1 .. Depth - 1
        PROVE  t[k + 1].via = "defer" <=> Deferring(t[k])
    <2>1. k \in 1 .. Depth /\ k + 1 \in 1 .. Depth /\ k # Depth
      BY <1>2
    <2>2. stack[k + 1].via = "defer" <=> Deferring(stack[k])
      BY <1>2 DEF Nested
    <2>. QED
      BY <1>3, <2>1, <2>2
  <1>5. \A k \in 1 .. Depth : stack[k].via = "entry" <=> k = 1
    BY <1>2 DEF Nested
  <1>6. Nested(t)
    BY <1>1, <1>3, <1>4, <1>5 DEF Nested
  <1>. QED
    BY <1>6 DEF t

NestInv == Nested(stack) /\ Numbered(flight)

LEMMA NewPanicNumbered ==
  ASSUME raised \in Nat
  PROVE  \A kind \in Kinds : /\ NewPanic(kind) \in Panic /\ NewPanic(kind) # NoPanic
                             /\ NewPanic(kind).id = raised + 1 /\ Numbered(NewPanic(kind))
  <1> SUFFICES ASSUME NEW kind \in Kinds
               PROVE  /\ NewPanic(kind) \in Panic /\ NewPanic(kind) # NoPanic
                      /\ NewPanic(kind).id = raised + 1 /\ Numbered(NewPanic(kind))
    OBVIOUS
  <1>1. NewPanic(kind) \in Panic /\ NewPanic(kind).id = raised + 1
    BY PanicType DEF NewPanic
  <1>2. raised + 1 # 0 /\ NoPanic.id = 0
    BY DEF NoPanic
  <1>. QED
    BY <1>1, <1>2 DEF Numbered

\* The frames nest in the same way after every step.
LEMMA StepNested == TypeOK /\ NestInv /\ [Next]_vars => NestInv'
<1> SUFFICES ASSUME TypeOK, NestInv, [Next]_vars PROVE NestInv'
  OBVIOUS
<1>1. stack \in Seq(Frame) /\ flight \in Panic /\ raised \in Nat /\ Nested(stack) /\ Numbered(flight)
  BY DEF TypeOK, NestInv
<1>2. stack # <<>> => /\ Top \in Frame /\ Held(Top) /\ Depth \in Nat \ {0} /\ Depth = Len(stack)
                      /\ Top = stack[Len(stack)]
  BY <1>1, TopType DEF Nested, Top, Depth
<1>3. Numbered(NoPanic)
  BY DEF Numbered
\* What is put in place of the frame on top.
<1>4. ASSUME stack # <<>>, NEW f \in Frame, Held(f), f.via = Top.via, stack' = SetTop(f),
             Numbered(flight')
      PROVE  NestInv'
  BY <1>1, <1>4, NestedSetTop DEF NestInv
<1>5. ASSUME Depth > 1, NEW f \in Frame, Held(f), f.via = Top.via,
             stack' = [stack EXCEPT ![Depth] = f, ![Depth - 1] = Pardoned(stack[Depth - 1])],
             Numbered(flight')
      PROVE  NestInv'
  <2>1. stack[Depth - 1] \in Frame /\ Held(stack[Depth - 1])
    BY <1>1, <1>5, TopType DEF Nested, Depth
  <2>2. PICK p \in Panic : p # NoPanic /\ Numbered(p)
    BY <1>1, NewPanicNumbered DEF Kinds
  <2>3. LET g == Pardoned(stack[Depth - 1])
        IN /\ g \in Frame /\ Held(g) /\ g.via = stack[Depth - 1].via
           /\ Deferring(g) <=> Deferring(stack[Depth - 1])
    BY <2>1, <2>2, UpdateType, HeldUpdates
  <2>. QED
    BY <1>1, <1>5, <2>3, NestedBelow DEF NestInv
<1>6. PICK q \in Panic : q # NoPanic /\ Numbered(q)
  BY <1>1, NewPanicNumbered DEF Kinds
<1>10. CASE CallFn
  <2>1. stack # <<>> /\ Top.pc = "body" /\ stack' = Append(stack, NewFrame("call")) /\ flight' = flight
    BY <1>10 DEF CallFn, InBody
  <2>2. ~Deferring(stack[Len(stack)])
    BY <1>2, <2>1 DEF Deferring
  <2>. QED
    BY <1>1, <2>1, <2>2, NestedPush DEF NestInv
<1>11. ASSUME NEW kind \in DeferKinds, Defer(kind) PROVE NestInv'
  <2>1. stack # <<>> /\ flight' = flight
    BY <1>11 DEF Defer, InBody
  <2> DEFINE f == [Top EXCEPT !.defers = <<[kind |-> kind, rank |-> Top.pushed + 1]>> \o @,
                              !.pushed = Top.pushed + 1]
  <2>2. f \in Frame
    BY <1>2, <2>1, DeferType
  <2>3. Held(f) /\ f.via = Top.via
    BY <1>2, <2>1, HeldTaken
  <2>4. stack' = SetTop(f)
    BY <1>11 DEF Defer
  <2>. QED
    BY <1>1, <1>4, <2>1, <2>2, <2>3, <2>4
<1>12. ASSUME NEW kind \in RaiseKinds, Raise(kind) PROVE NestInv'
  BY <1>1, <1>12, NewPanicNumbered, FramesAssumption DEF Raise, NestInv
<1>13. ASSUME NEW kind \in RaiseKinds, RunDeferRaise(kind) PROVE NestInv'
  <2>1. stack # <<>> /\ Deferring(Top) /\ Top.todo # <<>> /\ flight' = flight
        /\ stack' = SetTop(Caught(Taken(Top), NewPanic(kind)))
    BY <1>13 DEF RunDeferRaise, NextDefer, InDefers
  <2>2. Taken(Top) \in Frame /\ Held(Taken(Top)) /\ Taken(Top).via = Top.via /\ Deferring(Taken(Top))
    BY <1>2, <2>1, TakenType, HeldTaken
  <2>3. NewPanic(kind) \in Panic /\ NewPanic(kind) # NoPanic /\ Numbered(NewPanic(kind))
    BY <1>1, NewPanicNumbered, FramesAssumption
  <2>. QED
    BY <1>1, <1>4, <2>1, <2>2, <2>3, UpdateType, HeldUpdates
<1>14. CASE Recover
  <2>1. /\ Depth > 1 /\ stack # <<>> /\ stack' = [stack EXCEPT ![Depth - 1] = Pardoned(@)]
        /\ flight' = flight \/ flight' = NewPanic("string")
    BY <1>14 DEF Recover, InBody, CanRecover
  <2>2. stack' = [stack EXCEPT ![Depth] = Top, ![Depth - 1] = Pardoned(stack[Depth - 1])]
    BY <1>1, <2>1 DEF Top, Depth
  <2>3. Numbered(flight')
    BY <1>1, <2>1, NewPanicNumbered DEF Kinds
  <2>. QED
    BY <1>2, <1>5, <2>1, <2>2, <2>3
<1>15. CASE RunDefers
  <2>1. stack # <<>> /\ flight' = flight
        /\ stack' = SetTop([Top EXCEPT !.pc = "returning", !.todo = Top.defers])
    BY <1>15 DEF RunDefers, InBody
  <2> DEFINE f == [Top EXCEPT !.pc = "returning", !.todo = Top.defers]
  <2>2. f \in Frame /\ Held(f) /\ f.via = Top.via
    BY <1>2, <1>6, <2>1, UpdateType, HeldUpdates
  <2> HIDE DEF f
  <2>3. stack' = SetTop(f)
    BY <2>1 DEF f
  <2>. QED
    BY <1>1, <1>4, <2>1, <2>2, <2>3
<1>16. CASE RunDeferFn
  <2>1. /\ stack # <<>> /\ Deferring(Top) /\ Top.todo # <<>> /\ flight' = flight
        /\ stack' = Append(SetTop(Taken(Top)), NewFrame("defer"))
    BY <1>16 DEF RunDeferFn, NextDefer, InDefers
  <2>2. Taken(Top) \in Frame /\ Held(Taken(Top)) /\ Taken(Top).via = Top.via /\ Deferring(Taken(Top))
    BY <1>2, <2>1, TakenType, HeldTaken
  <2>3. /\ Nested(SetTop(Taken(Top))) /\ SetTop(Taken(Top)) \in Seq(Frame)
        /\ Len(SetTop(Taken(Top))) = Depth /\ SetTop(Taken(Top))[Depth] = Taken(Top)
    BY <1>1, <2>1, <2>2, NestedSetTop, SetTopStack
  <2>4. SetTop(Taken(Top)) # <<>>
    BY <1>2, <2>1, <2>3
  <2>. QED
    BY <1>1, <2>1, <2>2, <2>3, <2>4, NestedPush DEF NestInv
<1>17. CASE RunDeferRecover
  <2>1. stack # <<>> /\ Deferring(Top) /\ Top.todo # <<>> /\ flight' = flight
    BY <1>17 DEF RunDeferRecover, NextDefer, InDefers
  <2>2. Taken(Top) \in Frame /\ Held(Taken(Top)) /\ Taken(Top).via = Top.via /\ Deferring(Taken(Top))
    BY <1>2, <2>1, TakenType, HeldTaken
  <2>3. LET p == NewPanic("string") IN p \in Panic /\ p # NoPanic /\ Numbered(p)
    BY <1>1, NewPanicNumbered DEF Kinds
  <2>4. LET f == Caught(Taken(Top), NewPanic("string"))
        IN f \in Frame /\ Held(f) /\ f.via = Top.via
    BY <2>2, <2>3, UpdateType, HeldUpdates
  <2>5. CASE stack' = SetTop(Taken(Top))
    BY <1>1, <1>4, <2>1, <2>2, <2>5
  <2>6. CASE /\ CanRecover
             /\ stack' = [stack EXCEPT ![Depth] = Taken(@), ![Depth - 1] = Pardoned(@)]
    <3>1. Depth > 1
      BY <2>6 DEF CanRecover
    <3>2. stack' = [stack EXCEPT ![Depth] = Taken(Top), ![Depth - 1] = Pardoned(stack[Depth - 1])]
      BY <1>1, <2>6, <3>1 DEF Top, Depth
    <3>. QED
      BY <1>1, <1>5, <2>1, <2>2, <3>1, <3>2
  <2>7. CASE /\ CanRecover
             /\ stack' = [stack EXCEPT ![Depth] = Caught(Taken(@), NewPanic("string")),
                                       ![Depth - 1] = Pardoned(@)]
    <3>1. Depth > 1
      BY <2>7 DEF CanRecover
    <3>2. stack' = [stack EXCEPT ![Depth] = Caught(Taken(Top), NewPanic("string")),
                                 ![Depth - 1] = Pardoned(stack[Depth - 1])]
      BY <1>1, <2>7, <3>1 DEF Top, Depth
    <3>. QED
      BY <1>1, <1>5, <2>1, <2>4, <3>1, <3>2
  <2>. QED
    BY <1>17, <2>5, <2>6, <2>7 DEF RunDeferRecover
<1>18. CASE ReturnFn \/ PanicOut
  <2>1. stack # <<>> /\ stack' = Pop(stack) /\ (flight' = flight \/ flight' = Top.panic)
    BY <1>18 DEF ReturnFn, PanicOut, InDefers
  <2>2. Numbered(flight')
    BY <1>1, <1>2, <2>1 DEF Held
  <2>. QED
    BY <1>1, <2>1, <2>2, NestedPop DEF NestInv
<1>19. CASE PanicAgain
  <2>1. stack # <<>> /\ flight' = flight
    BY <1>19 DEF PanicAgain, InDefers
  <2>2. Cleared(Top).defers = <<>>
    BY <1>2, <2>1 DEF Cleared, Frame
  <2>3. stack' = SetTop([Cleared(Top) EXCEPT !.pc = "unwinding", !.todo = <<>>])
    BY <1>19, <2>2 DEF PanicAgain
  <2>. QED
    BY <1>1, <1>2, <1>4, <1>6, <2>1, <2>3, UpdateType, HeldUpdates
<1>20. CASE UnwindBody
  <2>1. stack # <<>> /\ flight # NoPanic
    BY <1>20 DEF UnwindBody
  <2>2. CASE disableRecover
    BY <1>1, <1>20, <2>1, <2>2, NestedPop DEF UnwindBody, NestInv
  <2>3. CASE ~disableRecover
    <3>1. /\ stack' = SetTop([Caught(Top, flight) EXCEPT !.pc = "unwinding", !.todo = Top.defers])
          /\ flight' = NoPanic
      BY <1>20, <2>3 DEF UnwindBody
    <3> DEFINE f == [Caught(Top, flight) EXCEPT !.pc = "unwinding", !.todo = Top.defers]
    <3>2. f \in Frame /\ Held(f) /\ f.via = Top.via
      BY <1>1, <1>2, <2>1, UpdateType, HeldUpdates
    <3> HIDE DEF f
    <3>3. stack' = SetTop(f)
      BY <3>1 DEF f
    <3>. QED
      BY <1>3, <1>4, <2>1, <3>1, <3>2, <3>3
  <2>. QED
    BY <2>2, <2>3
<1>21. CASE UnwindDefer
  <2>1. /\ stack # <<>> /\ flight # NoPanic /\ Deferring(Top) /\ stack' = SetTop(Caught(Top, flight))
        /\ flight' = NoPanic
    BY <1>21 DEF UnwindDefer
  <2>. QED
    BY <1>1, <1>2, <1>3, <1>4, <2>1, UpdateType, HeldUpdates
<1>22. CASE CallMain
  <2>1. Len(stack') = 1 /\ stack'[1] = NewFrame("entry") /\ flight' = flight
    BY <1>22 DEF CallMain
  <2>. QED
    BY <1>1, <2>1, NewFrameHeld DEF NestInv, Nested
<1>23. CASE MainReturned \/ NoMain \/ TopHandler
  BY <1>1, <1>3, <1>23 DEF MainReturned, NoMain, TopHandler, Finish, NestInv
<1>24. CASE Terminated \/ UNCHANGED vars
  BY <1>24 DEF Terminated, vars, NestInv
<1>. QED
  BY <1>10, <1>11, <1>12, <1>13, <1>14, <1>15, <1>16, <1>17, <1>18, <1>19, <1>20, <1>21,
     <1>22, <1>23, <1>24 DEF Next

LEMMA NestedThroughout == Spec => []NestInv
<1>1. Init => NestInv
  <2> SUFFICES ASSUME Init PROVE NestInv
    OBVIOUS
  <2>1. Len(stack) = 1 /\ stack[1] = NewFrame("entry") /\ flight = NoPanic
    BY DEF Init
  <2>. QED
    BY <2>1, NewFrameHeld DEF NestInv, Nested, Numbered
<1>. QED
  BY <1>1, StepNested, TypeCorrect, PTL DEF Spec

\* Only a frame that runs its deferred calls is in a state of panic, and only the
\* frame above such a frame was invoked by a deferred call: what doRecover's test
\* of fr.caller relies on.
THEOREM FramesNest == Spec => []WellNested
  BY NestedThroughout, NestedIsWellNested, PTL DEF NestInv

-----------------------------------------------------------------------------
\* The numbers of the panics ------------------------------------------------------

\* The number of the panic a frame holds, 0 for none; the same for the one in flight.
Age(f) == IF f.panicking THEN f.panic.id ELSE 0
AgeInFlight == IF flight = NoPanic THEN 0 ELSE flight.id

Pos == Nat \ {0}

\* The ages up the stack, and 0 above it, so that a frame that holds no panic can
\* come or go unnoticed.
Ages(s) == [k \in Pos |-> IF k \in 1 .. Len(s) THEN Age(s[k]) ELSE 0]

LEMMA AgeType == \A f \in Frame : Age(f) \in Nat
  BY DEF Age, Frame, Panic

LEMMA AgesType ==
  ASSUME NEW s \in Seq(Frame)
  PROVE  Ages(s) \in [Pos -> Nat]
  <1>1. ASSUME NEW k \in Pos
        PROVE  (IF k \in 1 .. Len(s) THEN Age(s[k]) ELSE 0) \in Nat
    BY AgeType
  <1>. QED
    BY <1>1 DEF Ages

LEMMA AgesSetTop ==
  ASSUME stack \in Seq(Frame), stack # <<>>, NEW f \in Frame
  PROVE  Ages(SetTop(f)) = [Ages(stack) EXCEPT ![Depth] = Age(f)]
  <1>1. /\ Depth \in Nat \ {0} /\ Len(SetTop(f)) = Depth /\ SetTop(f)[Depth] = f
        /\ \A k \in 1 .. Depth - 1 : SetTop(f)[k] = stack[k]
    BY SetTopStack
  <1>2. Depth = Len(stack)
    BY DEF Depth
  <1>3. ASSUME NEW k \in Pos
        PROVE  Ages(SetTop(f))[k] = IF k = Depth THEN Age(f) ELSE Ages(stack)[k]
    BY <1>1, <1>2 DEF Ages, Pos
  <1>. QED
    BY <1>3 DEF Ages

LEMMA AgesPush ==
  ASSUME NEW s \in Seq(Frame), NEW via \in {"entry", "call", "defer"}
  PROVE  Ages(Append(s, NewFrame(via))) = Ages(s)
  <1>1. NewFrame(via) \in Frame /\ Age(NewFrame(via)) = 0
    BY NewFrameType DEF Age, NewFrame
  <1> DEFINE t == Append(s, NewFrame(via))
  <1>2. /\ Len(t) = Len(s) + 1 /\ t[Len(s) + 1] = NewFrame(via)
        /\ \A k \in 1 .. Len(s) : t[k] = s[k]
    BY <1>1, PushStack
  <1>3. Len(s) \in Nat
    OBVIOUS
  <1> HIDE DEF t
  <1>4. ASSUME NEW k \in Pos PROVE Ages(t)[k] = Ages(s)[k]
    BY <1>1, <1>2, <1>3 DEF Ages, Pos
  <1>5. Ages(t) = Ages(s)
    BY <1>4 DEF Ages
  <1>. QED
    BY <1>5 DEF t

LEMMA AgesPop ==
  ASSUME stack \in Seq(Frame), stack # <<>>
  PROVE  Ages(Pop(stack)) = [Ages(stack) EXCEPT ![Depth] = 0]
  <1>1. Len(Pop(stack)) = Depth - 1 /\ \A k \in 1 .. Depth - 1 : Pop(stack)[k] = stack[k]
    BY PopStack
  <1>2. Depth = Len(stack) /\ Depth \in Nat \ {0}
    BY DEF Depth
  <1>3. ASSUME NEW k \in Pos
        PROVE  Ages(Pop(stack))[k] = IF k = Depth THEN 0 ELSE Ages(stack)[k]
    BY <1>1, <1>2 DEF Ages, Pos
  <1>. QED
    BY <1>3 DEF Ages

LEMMA AgesBelow ==
  ASSUME stack \in Seq(Frame), Depth > 1, NEW f \in Frame, NEW g \in Frame
  PROVE  Ages([stack EXCEPT ![Depth] = f, ![Depth - 1] = g])
           = [Ages(stack) EXCEPT ![Depth] = Age(f), ![Depth - 1] = Age(g)]
  <1> DEFINE t == [stack EXCEPT ![Depth] = f, ![Depth - 1] = g]
  <1>1. /\ Len(t) = Depth /\ t[Depth] = f /\ t[Depth - 1] = g
        /\ \A k \in 1 .. Depth - 2 : t[k] = stack[k]
    BY BelowTop
  <1>2. Depth = Len(stack) /\ Depth \in Nat
    BY DEF Depth
  <1> HIDE DEF t
  <1>3. ASSUME NEW k \in Pos
        PROVE  Ages(t)[k] = IF k = Depth THEN Age(f)
                            ELSE IF k = Depth - 1 THEN Age(g) ELSE Ages(stack)[k]
    BY <1>1, <1>2 DEF Ages, Pos
  <1>4. Ages(t) = [Ages(stack) EXCEPT ![Depth] = Age(f), ![Depth - 1] = Age(g)]
    <2>1. ASSUME NEW a, a = [k \in Pos |-> a[k]], NEW d \in Pos, NEW e \in Pos, d # e,
                 NEW b, b = [k \in Pos |-> b[k]], NEW x, NEW y,
                 \A k \in Pos : b[k] = IF k = d THEN x ELSE IF k = e THEN y ELSE a[k]
          PROVE  b = [a EXCEPT ![d] = x, ![e] = y]
      BY <2>1
    <2>2. Depth \in Pos /\ Depth - 1 \in Pos /\ Depth # Depth - 1
      BY <1>2 DEF Pos
    <2>3. \A s : Ages(s) = [k \in Pos |-> Ages(s)[k]]
      BY DEF Ages
    <2>. QED
      BY <1>3, <2>1, <2>2, <2>3
  <1>. QED
    BY <1>4 DEF t

LEMMA AgesAt ==
  ASSUME stack \in Seq(Frame)
  PROVE  /\ Depth \in Nat
         /\ stack # <<>> => Depth \in Pos /\ Ages(stack)[Depth] = Age(Top)
         /\ \A k \in 1 .. Depth : k \in Pos /\ Ages(stack)[k] = Age(stack[k])
         /\ \A k \in Pos : k > Depth => Ages(stack)[k] = 0
  BY DEF Ages, Depth, Top, Pos

LEMMA AgeUpdates ==
  ASSUME NEW f \in Frame, NEW p \in Panic
  PROVE  /\ Age(Pardoned(f)) = 0
         /\ Age(Caught(f, p)) = p.id
         /\ Age([Caught(f, p) EXCEPT !.pc = "unwinding", !.todo = f.defers]) = p.id
         /\ Age([f EXCEPT !.pc = "returning", !.todo = f.defers]) = Age(f)
         /\ Age([Cleared(f) EXCEPT !.pc = "unwinding", !.todo = <<>>]) = Age(f)
         /\ Age(Taken(f)) = Age(f)
         /\ \A d, n : Age([f EXCEPT !.defers = d, !.pushed = n]) = Age(f)
         /\ Held(f) => (Age(f) = 0 <=> ~f.panicking)
  BY DEF Age, Pardoned, Caught, Cleared, Taken, Frame, Held, Numbered

-----------------------------------------------------------------------------
\* What a step does to the numbers ---------------------------------------------------

ages == Ages(stack)

\* The program does not end in this step.
Going == UNCHANGED cause /\ (entry' = "done" <=> entry = "done")

Unnoticed == UNCHANGED <<ages, AgeInFlight, raised, recovered>>

RaisedInBody ==
  /\ stack # <<>>
  /\ AgeInFlight = 0 /\ AgeInFlight' = raised + 1
  /\ raised' = raised + 1
  /\ UNCHANGED <<ages, recovered>>

RaisedInDefer ==
  /\ stack # <<>>
  /\ AgeInFlight = 0 /\ AgeInFlight' = 0
  /\ ages' = [ages EXCEPT ![Depth] = raised + 1]
  /\ raised' = raised + 1
  /\ UNCHANGED recovered

CaughtByFrame ==
  /\ stack # <<>>
  /\ AgeInFlight # 0 /\ AgeInFlight' = 0
  /\ ages' = [ages EXCEPT ![Depth] = AgeInFlight]
  /\ UNCHANGED <<raised, recovered>>

LeftFrame ==
  /\ stack # <<>>
  /\ AgeInFlight = 0 /\ AgeInFlight' = ages[Depth]
  /\ ages' = [ages EXCEPT ![Depth] = 0]
  /\ UNCHANGED <<raised, recovered>>

\* recover() is called by the frame on top or deferred by it, for the one below.
Recovering ==
  /\ Depth > 1 /\ AgeInFlight = 0
  /\ ages[Depth] = 0 /\ ages[Depth - 1] # 0

Returned ==
  /\ Recovering
  /\ ages' = [ages EXCEPT ![Depth - 1] = 0]
  /\ recovered' = recovered \cup {ages[Depth - 1]}
  /\ UNCHANGED <<AgeInFlight, raised>>

Replaced ==
  /\ Recovering
  /\ \/ AgeInFlight' = raised + 1 /\ ages' = [ages EXCEPT ![Depth - 1] = 0]
     \/ AgeInFlight' = 0 /\ ages' = [ages EXCEPT ![Depth] = raised + 1, ![Depth - 1] = 0]
  /\ raised' = raised + 1
  /\ UNCHANGED recovered

Ended ==
  /\ stack = <<>> /\ (entry # "done" \/ flight # NoPanic)
  /\ entry' = "done" /\ cause' = AgeInFlight
  /\ AgeInFlight' = 0
  /\ UNCHANGED <<ages, raised, recovered>>

Seen ==
  \/ Going /\ (\/ Unnoticed \/ RaisedInBody \/ RaisedInDefer \/ CaughtByFrame \/ LeftFrame
               \/ Returned \/ Replaced)
  \/ Ended

\* Every step is one of these.
LEMMA StepSeen == TypeOK /\ NestInv /\ [Next]_vars => Seen
<1> SUFFICES ASSUME TypeOK, NestInv, [Next]_vars PROVE Seen
  OBVIOUS
<1>1. stack \in Seq(Frame) /\ flight \in Panic /\ raised \in Nat /\ Nested(stack) /\ Numbered(flight)
  BY DEF TypeOK, NestInv
<1>2. stack # <<>> => /\ Top \in Frame /\ Held(Top) /\ Depth \in Nat \ {0} /\ Depth = Len(stack)
                      /\ Top = stack[Len(stack)] /\ ages[Depth] = Age(Top)
  BY <1>1, TopType, AgesAt DEF Nested, Top, Depth, ages
<1>3. AgeInFlight = 0 <=> flight = NoPanic
  BY <1>1 DEF AgeInFlight, Numbered
<1>4. \A kind \in Kinds : NewPanic(kind) \in Panic /\ NewPanic(kind).id = raised + 1
                          /\ NewPanic(kind) # NoPanic
  BY <1>1, NewPanicNumbered
<1>5. PICK q \in Panic : q # NoPanic
  BY <1>4 DEF Kinds
\* Steps that leave the numbers alone.
<1>6. ASSUME stack # <<>>, NEW f \in Frame, Age(f) = Age(Top), stack' = SetTop(f)
      PROVE  ages' = ages
  <2>1. ages' = [ages EXCEPT ![Depth] = Age(Top)]
    BY <1>1, <1>6, AgesSetTop DEF ages
  <2>2. ages \in [Pos -> Nat]
    BY <1>1, AgesType DEF ages
  <2>. QED
    BY <1>2, <1>6, <2>1, <2>2
<1>7. ASSUME UNCHANGED <<entry, flight, raised, recovered, cause>>, ages' = ages
      PROVE  Seen
  BY <1>7 DEF Seen, Going, Unnoticed, AgeInFlight
<1>10. CASE CallFn
  BY <1>1, <1>7, <1>10, AgesPush DEF CallFn, ages
<1>11. ASSUME NEW kind \in DeferKinds, Defer(kind) PROVE Seen
  <2>1. stack # <<>> /\ UNCHANGED <<entry, flight, raised, recovered, cause>>
    BY <1>11 DEF Defer, InBody
  <2> DEFINE f == [Top EXCEPT !.defers = <<[kind |-> kind, rank |-> Top.pushed + 1]>> \o @,
                              !.pushed = Top.pushed + 1]
  <2>2. f \in Frame
    BY <1>2, <2>1, DeferType
  <2>3. Age(f) = Age(Top)
    <3>1. \A d, n : Age([Top EXCEPT !.defers = d, !.pushed = n]) = Age(Top)
      BY <1>2, <1>5, <2>1, AgeUpdates
    <3>. QED
      BY <3>1, Zenon
  <2>4. stack' = SetTop(f)
    BY <1>11 DEF Defer
  <2>. QED
    BY <1>6, <1>7, <2>1, <2>2, <2>3, <2>4
<1>12. ASSUME NEW kind \in RaiseKinds, Raise(kind) PROVE Seen
  <2>1. /\ stack # <<>> /\ flight = NoPanic /\ flight' = NewPanic(kind) /\ raised' = raised + 1
        /\ UNCHANGED <<stack, entry, recovered, cause>>
    BY <1>12 DEF Raise, InBody
  <2>2. AgeInFlight = 0 /\ AgeInFlight' = raised + 1
    BY <1>4, <2>1, FramesAssumption DEF AgeInFlight
  <2>. QED
    BY <2>1, <2>2 DEF Seen, Going, RaisedInBody, ages
<1>13. ASSUME NEW kind \in RaiseKinds, RunDeferRaise(kind) PROVE Seen
  <2>1. /\ stack # <<>> /\ Top.todo # <<>> /\ flight = NoPanic /\ raised' = raised + 1
        /\ stack' = SetTop(Caught(Taken(Top), NewPanic(kind)))
        /\ UNCHANGED <<entry, flight, recovered, cause>>
    BY <1>13 DEF RunDeferRaise, NextDefer, InDefers
  <2> DEFINE f == Caught(Taken(Top), NewPanic(kind))
  <2>2. f \in Frame /\ Age(f) = raised + 1
    <3>1. Taken(Top) \in Frame
      BY <1>2, <2>1, TakenType
    <3>2. NewPanic(kind) \in Panic /\ NewPanic(kind).id = raised + 1
      BY <1>4, FramesAssumption
    <3>. QED
      BY <3>1, <3>2, UpdateType, AgeUpdates
  <2>3. ages' = [ages EXCEPT ![Depth] = raised + 1]
    BY <1>1, <2>1, <2>2, AgesSetTop DEF ages
  <2>. QED
    BY <2>1, <2>3 DEF Seen, Going, RaisedInDefer, AgeInFlight
<1>15. CASE RunDefers
  <2>1. /\ stack # <<>> /\ UNCHANGED <<entry, flight, raised, recovered, cause>>
        /\ stack' = SetTop([Top EXCEPT !.pc = "returning", !.todo = Top.defers])
    BY <1>15 DEF RunDefers, InBody
  <2> DEFINE f == [Top EXCEPT !.pc = "returning", !.todo = Top.defers]
  <2>2. f \in Frame /\ Age(f) = Age(Top)
    BY <1>2, <1>5, <2>1, UpdateType, AgeUpdates
  <2> HIDE DEF f
  <2>3. stack' = SetTop(f)
    BY <2>1 DEF f
  <2>. QED
    BY <1>6, <1>7, <2>1, <2>2, <2>3
<1>16. CASE RunDeferFn
  <2>1. /\ stack # <<>> /\ Top.todo # <<>> /\ UNCHANGED <<entry, flight, raised, recovered, cause>>
        /\ stack' = Append(SetTop(Taken(Top)), NewFrame("defer"))
    BY <1>16 DEF RunDeferFn, NextDefer, InDefers
  <2>2. Taken(Top) \in Frame /\ Age(Taken(Top)) = Age(Top)
    BY <1>2, <1>5, <2>1, TakenType, AgeUpdates
  <2>3. SetTop(Taken(Top)) \in Seq(Frame)
    BY <1>1, <2>1, <2>2, SetTopStack
  <2>4. ages' = Ages(SetTop(Taken(Top)))
    BY <2>1, <2>3, AgesPush DEF ages
  <2>5. Ages(SetTop(Taken(Top))) = [ages EXCEPT ![Depth] = ages[Depth]]
    BY <1>1, <1>2, <2>1, <2>2, AgesSetTop DEF ages
  <2>6. ages \in [Pos -> Nat]
    BY <1>1, AgesType DEF ages
  <2>. QED
    BY <1>7, <2>1, <2>4, <2>5, <2>6
\* recover() in the body, or as the deferred call itself.
<1>17. ASSUME stack # <<>>, CanRecover
       PROVE  /\ Depth > 1 /\ ages[Depth] = 0 /\ ages[Depth - 1] # 0
              /\ ages[Depth - 1] = stack[Depth - 1].panic.id
  <2>1. Depth > 1 /\ stack[Depth - 1].panicking /\ ~Top.panicking /\ Depth - 1 \in 1 .. Depth
        /\ stack[Depth - 1] \in Frame /\ Held(stack[Depth - 1])
    BY <1>1, <1>2, <1>17, TopType DEF CanRecover, Nested
  <2>2. ages[Depth - 1] = Age(stack[Depth - 1])
    BY <1>1, <2>1, AgesAt DEF ages
  <2>3. Age(Top) = 0 /\ Age(stack[Depth - 1]) # 0
    BY <1>2, <1>5, <1>17, <2>1, AgeUpdates
  <2>4. Age(stack[Depth - 1]) = stack[Depth - 1].panic.id
    BY <2>1, Zenon DEF Age
  <2>. QED
    BY <1>2, <1>17, <2>1, <2>2, <2>3, <2>4
<1>18. ASSUME Depth > 1, NEW f \in Frame,
              stack' = [stack EXCEPT ![Depth] = f, ![Depth - 1] = Pardoned(stack[Depth - 1])]
       PROVE  ages' = [ages EXCEPT ![Depth] = Age(f), ![Depth - 1] = 0]
  <2>1. stack[Depth - 1] \in Frame
    BY <1>1, <1>18, TopType DEF Depth
  <2>2. Pardoned(stack[Depth - 1]) \in Frame /\ Age(Pardoned(stack[Depth - 1])) = 0
    BY <1>5, <2>1, UpdateType, AgeUpdates
  <2>. QED
    BY <1>1, <1>18, <2>2, AgesBelow DEF ages
<1>19. ages \in [Pos -> Nat]
  BY <1>1, AgesType DEF ages
<1>20. CASE Recover
  <2>1. /\ stack # <<>> /\ CanRecover /\ flight = NoPanic /\ UNCHANGED <<entry, cause>>
        /\ stack' = [stack EXCEPT ![Depth - 1] = Pardoned(@)]
    BY <1>20 DEF Recover, InBody
  <2>2. /\ Depth > 1 /\ ages[Depth] = 0 /\ ages[Depth - 1] # 0
        /\ ages[Depth - 1] = stack[Depth - 1].panic.id
    BY <1>17, <2>1
  <2>3. stack' = [stack EXCEPT ![Depth] = Top, ![Depth - 1] = Pardoned(stack[Depth - 1])]
    BY <1>1, <2>1, <2>2 DEF Top, Depth
  <2>4. ages' = [ages EXCEPT ![Depth] = 0, ![Depth - 1] = 0]
    BY <1>2, <1>18, <2>1, <2>2, <2>3
  <2>5. ages' = [ages EXCEPT ![Depth - 1] = 0]
    BY <1>2, <1>19, <2>1, <2>2, <2>4
  <2>6. Recovering
    BY <1>3, <2>1, <2>2 DEF Recovering
  <2>7. CASE recovered' = recovered \cup {stack[Depth - 1].panic.id} /\ UNCHANGED <<flight, raised>>
    BY <2>1, <2>2, <2>5, <2>6, <2>7 DEF Seen, Going, Returned, AgeInFlight
  <2>8. CASE flight' = NewPanic("string") /\ raised' = raised + 1 /\ UNCHANGED recovered
    <3>1. AgeInFlight' = raised + 1
      BY <1>4, <2>8 DEF AgeInFlight, Kinds
    <3>. QED
      BY <2>1, <2>5, <2>6, <2>8, <3>1 DEF Seen, Going, Replaced
  <2>. QED
    BY <1>20, <2>7, <2>8 DEF Recover
<1>21. CASE RunDeferRecover
  <2>1. stack # <<>> /\ Top.todo # <<>> /\ flight = NoPanic /\ UNCHANGED <<entry, flight, cause>>
    BY <1>21 DEF RunDeferRecover, NextDefer, InDefers
  <2>2. Taken(Top) \in Frame /\ Age(Taken(Top)) = Age(Top)
    BY <1>2, <1>5, <2>1, TakenType, AgeUpdates
  <2>3. CASE stack' = SetTop(Taken(Top)) /\ UNCHANGED <<raised, recovered>>
    BY <1>6, <1>7, <2>1, <2>2, <2>3
  <2>4. CASE /\ CanRecover
             /\ stack' = [stack EXCEPT ![Depth] = Taken(@), ![Depth - 1] = Pardoned(@)]
             /\ recovered' = recovered \cup {stack[Depth - 1].panic.id}
             /\ UNCHANGED raised
    <3>1. /\ Depth > 1 /\ ages[Depth] = 0 /\ ages[Depth - 1] # 0
          /\ ages[Depth - 1] = stack[Depth - 1].panic.id
      BY <1>17, <2>1, <2>4
    <3>2. stack' = [stack EXCEPT ![Depth] = Taken(Top), ![Depth - 1] = Pardoned(stack[Depth - 1])]
      BY <1>1, <2>4, <3>1 DEF Top, Depth
    <3>3. ages' = [ages EXCEPT ![Depth] = 0, ![Depth - 1] = 0]
      BY <1>2, <1>18, <2>1, <2>2, <3>1, <3>2
    <3>4. ages' = [ages EXCEPT ![Depth - 1] = 0]
      BY <1>2, <1>19, <2>1, <3>1, <3>3
    <3>5. Recovering
      BY <1>3, <2>1, <3>1 DEF Recovering
    <3>. QED
      BY <2>1, <2>4, <3>1, <3>4, <3>5 DEF Seen, Going, Returned, AgeInFlight
  <2>5. CASE /\ CanRecover
             /\ stack' = [stack EXCEPT ![Depth] = Caught(Taken(@), NewPanic("string")),
                                       ![Depth - 1] = Pardoned(@)]
             /\ raised' = raised + 1
             /\ UNCHANGED recovered
    <3>1. Depth > 1 /\ ages[Depth] = 0 /\ ages[Depth - 1] # 0
      BY <1>17, <2>1, <2>5
    <3> DEFINE f == Caught(Taken(Top), NewPanic("string"))
    <3>2. f \in Frame /\ Age(f) = raised + 1
      BY <1>4, <2>2, UpdateType, AgeUpdates DEF Kinds
    <3>3. stack' = [stack EXCEPT ![Depth] = f, ![Depth - 1] = Pardoned(stack[Depth - 1])]
      BY <1>1, <2>5, <3>1 DEF Top, Depth
    <3> HIDE DEF f
    <3>4. ages' = [ages EXCEPT ![Depth] = raised + 1, ![Depth - 1] = 0]
      BY <1>18, <3>1, <3>2, <3>3
    <3>5. Recovering /\ AgeInFlight' = 0
      BY <1>3, <2>1, <3>1 DEF Recovering, AgeInFlight
    <3>. QED
      BY <2>1, <2>5, <3>4, <3>5 DEF Seen, Going, Replaced
  <2>. QED
    BY <1>21, <2>3, <2>4, <2>5 DEF RunDeferRecover
\* A frame that is left holds no panic, or passes it on.
<1>22. ASSUME stack # <<>>, stack' = Pop(stack)
       PROVE  /\ ages' = [ages EXCEPT ![Depth] = 0]
              /\ ~Top.panicking => ages' = ages
  <2>1. ages' = [ages EXCEPT ![Depth] = 0]
    BY <1>1, <1>22, AgesPop DEF ages
  <2>2. ~Top.panicking => ages[Depth] = 0
    BY <1>2, <1>22, Zenon DEF Age
  <2>. QED
    BY <1>2, <1>19, <1>22, <2>1, <2>2
<1>23. CASE ReturnFn
  BY <1>7, <1>22, <1>23 DEF ReturnFn, InDefers
<1>24. CASE PanicOut
  <2>1. /\ stack # <<>> /\ stack' = Pop(stack) /\ Top.panicking /\ flight' = Top.panic
        /\ flight = NoPanic /\ UNCHANGED <<entry, raised, recovered, cause>>
    BY <1>24 DEF PanicOut, InDefers
  <2>2. Age(Top) = Top.panic.id /\ Top.panic # NoPanic
    BY <1>2, <2>1, Zenon DEF Age, Held
  <2>3. AgeInFlight' = ages[Depth] /\ AgeInFlight = 0
    BY <1>2, <2>1, <2>2 DEF AgeInFlight
  <2>. QED
    BY <1>22, <2>1, <2>3 DEF Seen, Going, LeftFrame
<1>25. CASE PanicAgain
  <2>1. stack # <<>> /\ UNCHANGED <<entry, flight, raised, recovered, cause>>
    BY <1>25 DEF PanicAgain, InDefers
  <2> DEFINE f == [Cleared(Top) EXCEPT !.pc = "unwinding", !.todo = <<>>]
  <2>2. Cleared(Top).defers = <<>>
    BY <1>2, <2>1 DEF Cleared, Frame
  <2>3. stack' = SetTop(f)
    BY <1>25, <2>2 DEF PanicAgain
  <2>4. f \in Frame /\ Age(f) = Age(Top)
    BY <1>2, <1>5, <2>1, UpdateType, AgeUpdates
  <2>. QED
    BY <1>6, <1>7, <2>1, <2>3, <2>4
<1>26. ASSUME stack # <<>>, flight # NoPanic, NEW f \in Frame, Age(f) = flight.id,
              stack' = SetTop(f), flight' = NoPanic,
              UNCHANGED <<entry, raised, recovered, cause>>
       PROVE  Seen
  <2>1. AgeInFlight = flight.id /\ AgeInFlight # 0 /\ AgeInFlight' = 0
    BY <1>3, <1>26 DEF AgeInFlight
  <2>2. ages' = [ages EXCEPT ![Depth] = AgeInFlight]
    BY <1>1, <1>26, <2>1, AgesSetTop DEF ages
  <2>. QED
    BY <1>26, <2>1, <2>2 DEF Seen, Going, CaughtByFrame
<1>27. CASE UnwindBody
  <2>1. /\ stack # <<>> /\ flight # NoPanic /\ Top.pc = "body"
        /\ UNCHANGED <<entry, raised, recovered, cause>>
    BY <1>27 DEF UnwindBody
  <2>2. CASE disableRecover
    <3>1. ~Top.panicking
      BY <1>2, <2>1 DEF Held, Deferring
    <3>2. stack' = Pop(stack) /\ flight' = flight
      BY <1>27, <2>2 DEF UnwindBody
    <3>. QED
      BY <1>7, <1>22, <2>1, <3>1, <3>2
  <2>3. CASE ~disableRecover
    <3>1. /\ stack' = SetTop([Caught(Top, flight) EXCEPT !.pc = "unwinding", !.todo = Top.defers])
          /\ flight' = NoPanic
      BY <1>27, <2>3 DEF UnwindBody
    <3> DEFINE f == [Caught(Top, flight) EXCEPT !.pc = "unwinding", !.todo = Top.defers]
    <3>2. f \in Frame /\ Age(f) = flight.id
      BY <1>1, <1>2, <2>1, UpdateType, AgeUpdates
    <3> HIDE DEF f
    <3>3. stack' = SetTop(f)
      BY <3>1 DEF f
    <3>. QED
      BY <1>26, <2>1, <3>1, <3>2, <3>3
  <2>. QED
    BY <2>2, <2>3
<1>28. CASE UnwindDefer
  <2>1. /\ stack # <<>> /\ flight # NoPanic /\ stack' = SetTop(Caught(Top, flight))
        /\ flight' = NoPanic /\ UNCHANGED <<entry, raised, recovered, cause>>
    BY <1>28 DEF UnwindDefer
  <2>2. Caught(Top, flight) \in Frame /\ Age(Caught(Top, flight)) = flight.id
    BY <1>1, <1>2, <2>1, UpdateType, AgeUpdates
  <2>. QED
    BY <1>26, <2>1, <2>2
<1>29. CASE CallMain
  <2>1. /\ stack = <<>> /\ stack' = <<NewFrame("entry")>> /\ entry = "init" /\ entry' = "main"
        /\ UNCHANGED <<flight, raised, recovered, cause>>
    BY <1>29 DEF CallMain
  <2>2. stack' = Append(stack, NewFrame("entry"))
    BY <2>1
  <2>3. ages' = ages
    BY <1>1, <2>2, AgesPush DEF ages
  <2>. QED
    BY <2>1, <2>3 DEF Seen, Going, Unnoticed, AgeInFlight
<1>30. CASE MainReturned \/ NoMain \/ TopHandler
  <2>1. /\ stack = <<>> /\ flight' = NoPanic /\ entry' = "done"
        /\ entry # "done" \/ flight # NoPanic
        /\ UNCHANGED <<stack, raised, recovered>>
        /\ \/ flight = NoPanic /\ cause' = 0
           \/ flight # NoPanic /\ cause' = flight.id
    BY <1>30 DEF MainReturned, NoMain, TopHandler, Finish
  <2>. QED
    BY <2>1 DEF Seen, Ended, AgeInFlight, ages
<1>31. CASE Terminated \/ UNCHANGED vars
  BY <1>7, <1>31 DEF Terminated, vars, ages
<1>. QED
  BY <1>10, <1>11, <1>12, <1>13, <1>15, <1>16, <1>20, <1>21, <1>23, <1>24, <1>25, <1>27,
     <1>28, <1>29, <1>30, <1>31 DEF Next

-----------------------------------------------------------------------------
\* The order of the numbers ------------------------------------------------------------

Growing == \A j, k \in Pos : j < k /\ ages[k] # 0 => ages[j] < ages[k]
YoungestInFlight == AgeInFlight # 0 => \A k \in Pos : ages[k] < AgeInFlight
Bounded == AgeInFlight <= raised /\ \A k \in Pos : ages[k] <= raised

\* A panic that recover() returned is held by no frame and not in flight.
NoneTwice ==
  /\ \A p \in recovered : p \in 1 .. raised /\ p # AgeInFlight
  /\ \A k \in Pos : ages[k] # 0 => ages[k] \notin recovered

OrderInv == Growing /\ YoungestInFlight /\ Bounded /\ NoneTwice

LEMMA AgeTypes ==
  ASSUME TypeOK
  PROVE  /\ ages \in [Pos -> Nat] /\ AgeInFlight \in Nat /\ raised \in Nat /\ Depth \in Nat
         /\ stack # <<>> => Depth \in Pos
         /\ Depth > 1 => Depth - 1 \in Pos
         /\ \A k \in Pos : k > Depth => ages[k] = 0
  <1>1. stack \in Seq(Frame) /\ raised \in Nat /\ flight \in Panic
    BY DEF TypeOK
  <1>2. AgeInFlight \in Nat
    BY <1>1 DEF AgeInFlight, Panic
  <1>. QED
    BY <1>1, <1>2, AgesType, AgesAt DEF ages, Pos

LEMMA StepOrdered == TypeOK /\ OrderInv /\ Seen => OrderInv'
<1> SUFFICES ASSUME TypeOK, OrderInv, Seen PROVE OrderInv'
  OBVIOUS
<1>1. /\ ages \in [Pos -> Nat] /\ AgeInFlight \in Nat /\ raised \in Nat /\ Depth \in Nat
      /\ stack # <<>> => Depth \in Pos
      /\ Depth > 1 => Depth - 1 \in Pos /\ Depth \in Pos
      /\ \A k \in Pos : k > Depth => ages[k] = 0
  BY AgeTypes DEF Pos
<1>2. Pos = Nat \ {0}
  BY DEF Pos
<1> USE DEF OrderInv, Growing, YoungestInFlight, Bounded, NoneTwice
<1>3. CASE Unnoticed
  BY <1>3 DEF Unnoticed
<1>10. CASE Ended
  BY <1>1, <1>10 DEF Ended
<1>4. CASE RaisedInBody
  BY <1>1, <1>4 DEF RaisedInBody
<1>5. CASE RaisedInDefer
  BY <1>1, <1>2, <1>5 DEF RaisedInDefer
<1>6. CASE CaughtByFrame
  BY <1>1, <1>2, <1>6 DEF CaughtByFrame
<1>7. CASE LeftFrame
  BY <1>1, <1>2, <1>7 DEF LeftFrame
<1>8. CASE Returned
  BY <1>1, <1>2, <1>8 DEF Returned, Recovering
<1>9. CASE Replaced
  <2>1. /\ Depth > 1 /\ AgeInFlight = 0 /\ ages[Depth] = 0 /\ raised' = raised + 1
        /\ UNCHANGED recovered
    BY <1>9 DEF Replaced, Recovering
  <2>2. CASE AgeInFlight' = raised + 1 /\ ages' = [ages EXCEPT ![Depth - 1] = 0]
    BY <1>1, <1>2, <2>1, <2>2
  <2>3. CASE AgeInFlight' = 0 /\ ages' = [ages EXCEPT ![Depth] = raised + 1, ![Depth - 1] = 0]
    <3>1. \A k \in Pos : ages'[k] = IF k = Depth THEN raised + 1
                                    ELSE IF k = Depth - 1 THEN 0 ELSE ages[k]
      BY <1>1, <1>2, <2>1, <2>3
    <3>2. ASSUME NEW k \in Pos
          PROVE  /\ ages'[k] \in Nat /\ ages'[k] <= raised + 1
                 /\ k # Depth => ages'[k] \in {0, ages[k]} /\ ages'[k] <= raised
                 /\ k > Depth => ages'[k] = 0
      <4>1. ages[k] \in Nat /\ ages[k] <= raised /\ (k > Depth => ages[k] = 0)
        BY <1>1
      <4>. QED
        BY <1>1, <3>1, <4>1
    <3>3. Growing'
      <4> SUFFICES ASSUME NEW j \in Pos, NEW k \in Pos, j < k, ages'[k] # 0
                   PROVE  ages'[j] < ages'[k]
        OBVIOUS
      <4>1. CASE k = Depth
        <5>1. ages'[k] = raised + 1 /\ j # Depth
          BY <1>2, <3>1, <4>1
        <5>. QED
          BY <1>1, <3>2, <5>1
      <4>2. CASE k # Depth
        <5>1. ages'[k] = ages[k] /\ k < Depth /\ j # Depth
          BY <1>1, <1>2, <3>2, <4>2
        <5>. QED
          BY <1>1, <3>2, <5>1
      <4>. QED
        BY <4>1, <4>2
    <3>4. NoneTwice'
      <4>1. ASSUME NEW p \in recovered PROVE p \in 1 .. raised /\ p \in 1 .. raised + 1 /\ p # 0
        <5>1. p \in 1 .. raised
          OBVIOUS
        <5>. QED
          BY <1>1, <5>1
      <4>2. ASSUME NEW k \in Pos, ages'[k] # 0 PROVE ages'[k] \notin recovered
        <5>1. CASE k = Depth
          <6>1. ages'[k] = raised + 1
            BY <3>1, <5>1
          <6>. QED
            BY <1>1, <4>1, <6>1
        <5>2. CASE k # Depth
          BY <3>2, <4>2, <5>2
        <5>. QED
          BY <5>1, <5>2
      <4>. QED
        BY <2>1, <2>3, <4>1, <4>2
    <3>5. Bounded' /\ YoungestInFlight'
      BY <1>1, <2>1, <2>3, <3>2
    <3>. QED
      BY <3>3, <3>4, <3>5
  <2>. QED
    BY <1>9, <2>2, <2>3 DEF Replaced
<1>. QED
  BY <1>3, <1>4, <1>5, <1>6, <1>7, <1>8, <1>9, <1>10 DEF Seen

LEMMA OrderedThroughout == Spec => []OrderInv
<1>1. Init => OrderInv
  <2> SUFFICES ASSUME Init PROVE OrderInv
    OBVIOUS
  <2>1. stack = Append(<<>>, NewFrame("entry")) /\ flight = NoPanic /\ raised = 0 /\ recovered = {}
    <3>1. \A x : <<x>> = Append(<<>>, x)
      OBVIOUS
    <3>. QED
      BY <3>1 DEF Init
  <2>2. ages = Ages(<<>>)
    <3>1. <<>> \in Seq(Frame)
      OBVIOUS
    <3>2. ages = Ages(Append(<<>>, NewFrame("entry")))
      BY <2>1 DEF ages
    <3>. QED
      BY <3>1, <3>2, AgesPush
  <2>3. \A k \in Pos : ages[k] = 0
    BY <2>2 DEF Ages, Pos
  <2>. QED
    BY <2>1, <2>3 DEF OrderInv, Growing, YoungestInFlight, Bounded, NoneTwice, AgeInFlight
<1>. QED
  BY <1>1, StepOrdered, StepSeen, NestedThroughout, TypeCorrect, PTL DEF Spec

\* A frame in a state of panic, by its age.
LEMMA AgeHeld ==
  ASSUME TypeOK, NestInv, NEW k \in 1 .. Len(stack)
  PROVE  /\ k \in Pos
         /\ stack[k].panicking => ages[k] # 0 /\ ages[k] = stack[k].panic.id
         /\ ~stack[k].panicking => ages[k] = 0
  <1>1. stack \in Seq(Frame) /\ raised \in Nat
    BY DEF TypeOK
  <1>2. stack[k] \in Frame /\ Held(stack[k])
    BY <1>1 DEF NestInv, Nested
  <1>3. k \in Pos /\ ages[k] = Age(stack[k])
    BY <1>1, AgesAt DEF ages, Depth
  <1>4. stack[k].panicking => Age(stack[k]) = stack[k].panic.id
    BY Zenon DEF Age
  <1>5. PICK p \in Panic : p # NoPanic
    BY <1>1, NewPanicNumbered DEF Kinds
  <1>6. Age(stack[k]) = 0 <=> ~stack[k].panicking
    BY <1>2, <1>5, AgeUpdates
  <1>. QED
    BY <1>3, <1>4, <1>6

LEMMA AgeFlies ==
  ASSUME TypeOK, NestInv, flight # NoPanic
  PROVE  AgeInFlight = flight.id /\ AgeInFlight # 0
  BY DEF TypeOK, NestInv, Numbered, AgeInFlight

\* No panic overtakes a later one: the frames hold younger panics the higher they
\* are, and the youngest is in flight.
THEOREM PanicsStayOrdered == Spec => []PanicsOrdered
<1>1. TypeOK /\ NestInv /\ OrderInv => PanicsOrdered
  <2> SUFFICES ASSUME TypeOK, NestInv, OrderInv PROVE PanicsOrdered
    OBVIOUS
  <2>1. ages \in [Pos -> Nat] /\ AgeInFlight \in Nat /\ raised \in Nat /\ Len(stack) \in Nat
    BY AgeTypes DEF Depth
  <2>2. flight # NoPanic => flight.id \in 1 .. raised
    BY <2>1, AgeFlies DEF OrderInv, Bounded
  <2>3. ASSUME NEW k \in 1 .. Len(stack), stack[k].panicking
        PROVE  /\ stack[k].panic.id \in 1 .. raised
               /\ flight # NoPanic => stack[k].panic.id < flight.id
    <3>1. k \in Pos /\ ages[k] # 0 /\ ages[k] = stack[k].panic.id
      BY <2>3, AgeHeld
    <3>2. ages[k] <= raised /\ (AgeInFlight # 0 => ages[k] < AgeInFlight) /\ ages[k] \in Nat
      BY <2>1, <3>1 DEF OrderInv, Bounded, YoungestInFlight
    <3>. QED
      BY <2>1, <3>1, <3>2, AgeFlies
  <2>4. ASSUME NEW k \in 1 .. Len(stack), stack[k].panicking,
               NEW j \in 1 .. k - 1, stack[j].panicking
        PROVE  stack[j].panic.id < stack[k].panic.id
    <3>1. j \in 1 .. Len(stack) /\ j < k
      BY <2>1
    <3>2. j \in Pos /\ k \in Pos /\ ages[k] # 0 /\ ages[k] = stack[k].panic.id
          /\ ages[j] = stack[j].panic.id
      BY <2>4, <3>1, AgeHeld
    <3>. QED
      BY <3>1, <3>2 DEF OrderInv, Growing
  <2>. QED
    BY <2>2, <2>3, <2>4 DEF PanicsOrdered
<1>. QED
  BY <1>1, OrderedThroughout, NestedThroughout, TypeCorrect, PTL

-----------------------------------------------------------------------------
\* recover() -----------------------------------------------------------------------

\* A recover() reaches the panicking function whose deferred call made it, takes the
\* latest panic alive and takes it once: the action property checked as RecoverDirect.
THEOREM RecoverReaches == Spec => RecoverDirect
<1> DEFINE Direct ==
      recovered' # recovered =>
        /\ Depth > 1
        /\ Top.via = "defer"
        /\ ~Top.panicking
        /\ stack[Depth - 1].panicking
        /\ ~stack'[Depth - 1].panicking
        /\ stack[Depth - 1].panic.id \notin recovered
        /\ recovered' = recovered \cup {stack[Depth - 1].panic.id}
        /\ \A k \in 1 .. Depth : stack[k].panicking =>
             stack[k].panic.id <= stack[Depth - 1].panic.id
<1>1. TypeOK /\ NestInv /\ OrderInv /\ [Next]_vars => [Direct]_vars
  <2> SUFFICES ASSUME TypeOK, NestInv, OrderInv, Next, recovered' # recovered
               PROVE  Direct
    BY DEF vars
  <2>1. Recover \/ RunDeferRecover
    BY DEF Next, CallFn, Defer, Raise, RunDeferRaise, RunDefers, RunDeferFn, ReturnFn, PanicAgain,
           PanicOut, UnwindBody, UnwindDefer, CallMain, MainReturned, NoMain, TopHandler, Finish,
           Terminated, vars
  <2>2. /\ CanRecover /\ stack # <<>>
        /\ recovered' = recovered \cup {stack[Depth - 1].panic.id}
        /\ \/ stack' = [stack EXCEPT ![Depth - 1] = Pardoned(@)]
           \/ stack' = [stack EXCEPT ![Depth] = Taken(@), ![Depth - 1] = Pardoned(@)]
    BY <2>1 DEF Recover, RunDeferRecover, InBody, NextDefer, InDefers
  <2>3. /\ stack \in Seq(Frame) /\ Depth \in Nat /\ Depth = Len(stack)
        /\ Depth > 1 /\ ~Top.panicking /\ stack[Depth - 1].panicking
    BY <2>2 DEF TypeOK, CanRecover, Depth
  <2>4. Depth - 1 \in 1 .. Len(stack) /\ Depth - 1 \in 1 .. Len(stack) - 1 /\ Depth \in 1 .. Len(stack)
    BY <2>3
  <2>5. stack[Depth - 1] \in Frame /\ Held(stack[Depth - 1])
    BY <2>3, <2>4 DEF NestInv, Nested
  <2>6. Top.via = "defer"
    <3>1. Deferring(stack[Depth - 1])
      BY <2>3, <2>5 DEF Held
    <3>2. stack[(Depth - 1) + 1].via = "defer"
      BY <2>4, <3>1 DEF NestInv, Nested
    <3>3. (Depth - 1) + 1 = Depth
      BY <2>3
    <3>. QED
      BY <3>2, <3>3 DEF Top
  <2>7. ~stack'[Depth - 1].panicking
    <3>1. stack'[Depth - 1] = Pardoned(stack[Depth - 1])
      BY <2>2, <2>3, <2>4
    <3>2. ~Pardoned(stack[Depth - 1]).panicking
      BY <2>5 DEF Pardoned, Frame
    <3>. QED
      BY <3>1, <3>2
  <2>8. Depth - 1 \in Pos /\ ages[Depth - 1] # 0 /\ ages[Depth - 1] = stack[Depth - 1].panic.id
    BY <2>3, <2>4, AgeHeld
  <2>9. stack[Depth - 1].panic.id \notin recovered
    BY <2>8 DEF OrderInv, NoneTwice
  <2>10. ASSUME NEW k \in 1 .. Depth, stack[k].panicking
         PROVE  stack[k].panic.id <= stack[Depth - 1].panic.id
    <3>1. k \in Pos /\ ages[k] = stack[k].panic.id /\ ages[k] \in Nat
      BY <2>3, <2>10, AgeHeld, AgeTypes
    <3>2. k # Depth
      BY <2>3, <2>10 DEF Top
    <3>3. CASE k = Depth - 1
      BY <2>8, <3>1, <3>3
    <3>4. CASE k < Depth - 1
      <4>1. ages[k] < ages[Depth - 1]
        BY <2>8, <3>1, <3>4 DEF OrderInv, Growing
      <4>2. ages[Depth - 1] \in Nat
        BY <2>8, AgeTypes
      <4>. QED
        BY <2>8, <3>1, <4>1, <4>2
    <3>. QED
      BY <2>3, <3>2, <3>3, <3>4
  <2>. QED
    BY <2>2, <2>3, <2>6, <2>7, <2>9, <2>10
<1>. QED
  BY <1>1, OrderedThroughout, NestedThroughout, TypeCorrect, PTL DEF Spec, RecoverDirect

-----------------------------------------------------------------------------
\* The refinement --------------------------------------------------------------------

\* Interpret has returned only when nothing is left to do.
DoneInv == entry = "done" => stack = <<>> /\ flight = NoPanic

LEMMA DoneThroughout == Spec => []DoneInv
<1>1. Init => DoneInv
  BY DEF Init, DoneInv
<1>2. DoneInv /\ [Next]_vars => DoneInv'
  <2> SUFFICES ASSUME DoneInv, [Next]_vars PROVE DoneInv'
    OBVIOUS
  <2>1. CASE stack # <<>> \/ flight # NoPanic
    <3>1. entry # "done"
      BY <2>1 DEF DoneInv
    <3>2. entry' = "done" => MainReturned \/ NoMain \/ TopHandler
      BY <3>1 DEF Next, CallFn, Defer, Raise, RunDeferRaise, Recover, RunDefers, RunDeferFn,
             RunDeferRecover, ReturnFn, PanicAgain, PanicOut, UnwindBody, UnwindDefer, CallMain,
             Terminated, vars
    <3>. QED
      BY <3>2 DEF DoneInv, MainReturned, NoMain, TopHandler, Finish
  <2>2. CASE stack = <<>> /\ flight = NoPanic
    <3>1. CallMain \/ MainReturned \/ NoMain \/ Terminated \/ UNCHANGED vars
      BY <2>2 DEF Next, CallFn, Defer, Raise, RunDeferRaise, Recover, RunDefers, RunDeferFn,
             RunDeferRecover, NextDefer, InBody, InDefers, ReturnFn, PanicAgain, PanicOut,
             UnwindBody, UnwindDefer, TopHandler
    <3>. QED
      BY <2>2, <3>1 DEF DoneInv, CallMain, MainReturned, NoMain, Finish, Terminated, vars
  <2>. QED
    BY <2>1, <2>2
<1>. QED
  BY <1>1, <1>2, PTL DEF Spec

\* The numbers in a function, 0 apart.
Numbers(a) == {a[k] : k \in Pos} \ {0}

\* No other place has the number of place d; b is a with the number x at d.
OwnNumber(a, d) == \A k \in Pos : k # d => a[k] = 0 \/ a[k] # a[d]
Renumbers(b, a, d, x) == b = [a EXCEPT ![d] = x]

\* What one update does to the numbers.
LEMMA NumbersExcept ==
  \A b : \A a \in [Pos -> Nat], d \in Pos, x \in Nat :
    OwnNumber(a, d) /\ Renumbers(b, a, d, x)
      => Numbers(b) = (Numbers(a) \ {a[d]}) \cup ({x} \ {0})
<1> SUFFICES ASSUME NEW a \in [Pos -> Nat], NEW d \in Pos, NEW x \in Nat, NEW b,
                    OwnNumber(a, d), Renumbers(b, a, d, x)
             PROVE  Numbers(b) = (Numbers(a) \ {a[d]}) \cup ({x} \ {0})
  OBVIOUS
<1>1. b[d] = x /\ \A k \in Pos : k # d => b[k] = a[k]
  BY DEF Renumbers
<1>2. ASSUME NEW n \in Numbers(b) PROVE n \in (Numbers(a) \ {a[d]}) \cup ({x} \ {0})
  <2>1. PICK k \in Pos : n = b[k] /\ n # 0
    BY DEF Numbers
  <2>2. CASE k = d
    BY <1>1, <2>1, <2>2
  <2>3. CASE k # d
    BY <1>1, <2>1, <2>3 DEF Numbers, OwnNumber
  <2>. QED
    BY <2>2, <2>3
<1>3. ASSUME NEW n \in (Numbers(a) \ {a[d]}) \cup ({x} \ {0}) PROVE n \in Numbers(b)
  <2>1. CASE n \in {x} \ {0}
    BY <1>1, <2>1 DEF Numbers
  <2>2. CASE n \in Numbers(a) \ {a[d]}
    <3>1. PICK k \in Pos : n = a[k] /\ n # 0
      BY <2>2 DEF Numbers
    <3>2. k # d
      BY <2>2, <3>1
    <3>. QED
      BY <1>1, <3>1, <3>2 DEF Numbers
  <2>. QED
    BY <2>1, <2>2
<1>. QED
  BY <1>2, <1>3

\* The panics alive are the numbers that are not 0.
LiveInv == LivePanics = Numbers(ages) \cup ({AgeInFlight} \ {0})

LEMMA LiveIs == TypeOK /\ NestInv => LiveInv
<1> SUFFICES ASSUME TypeOK, NestInv PROVE LiveInv
  OBVIOUS
<1>1. /\ ages \in [Pos -> Nat] /\ Depth \in Nat /\ Depth = Len(stack)
      /\ \A k \in Pos : k > Depth => ages[k] = 0
  BY AgeTypes DEF Depth
<1>2. (IF flight = NoPanic THEN {} ELSE {flight.id}) = {AgeInFlight} \ {0}
  <2>1. CASE flight = NoPanic
    BY <2>1 DEF AgeInFlight
  <2>2. CASE flight # NoPanic
    BY <2>2, AgeFlies
  <2>. QED
    BY <2>1, <2>2
<1> DEFINE H == {stack[k].panic.id : k \in {j \in 1 .. Len(stack) : stack[j].panicking}}
           A == {ages[k] : k \in Pos} \ {0}
<1>3. ASSUME NEW x \in H PROVE x \in A
  <2>1. PICK k \in 1 .. Len(stack) : stack[k].panicking /\ x = stack[k].panic.id
    OBVIOUS
  <2>2. k \in Pos /\ ages[k] # 0 /\ ages[k] = x
    BY <2>1, AgeHeld
  <2>. QED
    BY <2>2
<1>4. ASSUME NEW x \in A PROVE x \in H
  <2>1. PICK k \in Pos : x = ages[k] /\ ages[k] # 0
    OBVIOUS
  <2>2. k \in 1 .. Len(stack)
    BY <1>1, <2>1 DEF Pos
  <2>3. stack[k].panicking /\ ages[k] = stack[k].panic.id
    BY <2>1, <2>2, AgeHeld
  <2>. QED
    BY <2>1, <2>2, <2>3
<1>5. H = A
  BY <1>3, <1>4
<1>. QED
  BY <1>2, <1>5 DEF LivePanics, LiveInv, Numbers

\* The frame that is highest among those that hold a panic holds the youngest.
LEMMA HighestYoungest ==
  ASSUME TypeOK, OrderInv, NEW d \in Pos, ages[d] # 0, \A k \in Pos : k > d => ages[k] = 0
  PROVE  /\ \A k \in Pos : k # d => ages[k] < ages[d]
         /\ \A n \in Numbers(ages) : n <= ages[d]
         /\ ages[d] \in Numbers(ages)
<1>1. ages \in [Pos -> Nat]
  BY AgeTypes
<1>2. ASSUME NEW k \in Pos, k # d PROVE ages[k] < ages[d]
  <2>1. k > d \/ k < d
    BY <1>2 DEF Pos
  <2>2. CASE k > d
    BY <1>1, <2>2
  <2>3. CASE k < d
    BY <2>3 DEF OrderInv, Growing
  <2>. QED
    BY <2>1, <2>2, <2>3
<1>3. ASSUME NEW n \in Numbers(ages) PROVE n <= ages[d]
  <2>1. PICK k \in Pos : n = ages[k]
    BY DEF Numbers
  <2>. QED
    BY <1>1, <1>2, <2>1
<1>4. ages[d] \in Numbers(ages)
  BY DEF Numbers
<1>. QED
  BY <1>2, <1>3, <1>4

\* Every step of the frames is a step of the ledger or leaves it alone.
LEMMA StepImplements ==
  TypeOK /\ OrderInv /\ DoneInv /\ LiveInv /\ LiveInv' /\ Seen
    => [Ledger!Next]_(Ledger!ledgerVars)
<1> SUFFICES ASSUME TypeOK, OrderInv, DoneInv, LiveInv, LiveInv', Seen
             PROVE  Ledger!Next \/ UNCHANGED Ledger!ledgerVars
  OBVIOUS
<1>1. /\ ages \in [Pos -> Nat] /\ AgeInFlight \in Nat /\ raised \in Nat /\ Depth \in Nat
      /\ stack # <<>> => Depth \in Pos
      /\ Depth > 1 => Depth - 1 \in Pos /\ Depth \in Pos /\ stack # <<>>
      /\ \A k \in Pos : k > Depth => ages[k] = 0
  <2>1. Depth > 1 => Depth \in Pos /\ stack # <<>>
    BY AgeTypes DEF Depth, Pos
  <2>. QED
    BY <2>1, AgeTypes
<1>2. /\ LivePanics = Numbers(ages) \cup ({AgeInFlight} \ {0})
      /\ LivePanics' = Numbers(ages') \cup ({AgeInFlight'} \ {0})
  BY DEF LiveInv
<1>3. stack # <<>> => entry # "done"
  BY DEF DoneInv
<1>4. \A n \in Numbers(ages) : n \in Nat /\ n # 0
  BY <1>1 DEF Numbers
<1>5. raised + 1 # 0 /\ raised + 1 \in Nat /\ 0 \in Nat
  BY <1>1
\* Nothing but the numbers of the panics changes in the first seven forms.
<1>6. ASSUME Going, UNCHANGED <<LivePanics, raised, recovered>>
      PROVE  UNCHANGED Ledger!ledgerVars
  BY <1>6, Zenon DEF Going, Ledger!ledgerVars
<1>7. ASSUME Going, stack # <<>>, raised' = raised + 1, LivePanics' = LivePanics \cup {raised + 1},
             UNCHANGED recovered
      PROVE  Ledger!Next
  BY <1>3, <1>7, Zenon DEF Going, Ledger!Next, Ledger!Raise
<1>8. ASSUME Going, stack # <<>>, raised' = raised + 1, UNCHANGED recovered,
             NEW p \in LivePanics, \A q \in LivePanics : q <= p,
             LivePanics' = (LivePanics \ {p}) \cup {raised + 1}
      PROVE  Ledger!Next
  BY <1>3, <1>8, Zenon DEF Going, Ledger!Next, Ledger!RaiseInPlace, Ledger!Youngest
<1>10. CASE Going /\ Unnoticed
  BY <1>2, <1>6, <1>10 DEF Unnoticed
<1>11. CASE Going /\ RaisedInBody
  BY <1>1, <1>2, <1>5, <1>7, <1>11 DEF RaisedInBody
<1>12. CASE Going /\ RaisedInDefer
  <2>1. /\ stack # <<>> /\ AgeInFlight = 0 /\ AgeInFlight' = 0 /\ raised' = raised + 1
        /\ ages' = [ages EXCEPT ![Depth] = raised + 1] /\ UNCHANGED recovered
    BY <1>12 DEF RaisedInDefer
  <2>2. CASE ages[Depth] = 0
    <3>1. Numbers(ages') = (Numbers(ages) \ {0}) \cup ({raised + 1} \ {0})
      <4>1. OwnNumber(ages, Depth) /\ Renumbers(ages', ages, Depth, raised + 1)
        BY <2>1, <2>2 DEF OwnNumber, Renumbers
      <4>. QED
        BY <1>1, <1>5, <2>1, <2>2, <4>1, NumbersExcept
    <3>2. LivePanics' = LivePanics \cup {raised + 1}
      BY <1>2, <1>4, <1>5, <2>1, <3>1
    <3>. QED
      BY <1>7, <1>12, <2>1, <3>2
  <2>3. CASE ages[Depth] # 0
    <3>1. /\ \A k \in Pos : k # Depth => ages[k] < ages[Depth]
          /\ \A n \in Numbers(ages) : n <= ages[Depth]
          /\ ages[Depth] \in Numbers(ages)
      BY <1>1, <2>1, <2>3, HighestYoungest
    <3>2. OwnNumber(ages, Depth) /\ Renumbers(ages', ages, Depth, raised + 1)
      BY <1>1, <2>1, <3>1 DEF OwnNumber, Renumbers
    <3>3. Numbers(ages') = (Numbers(ages) \ {ages[Depth]}) \cup ({raised + 1} \ {0})
      BY <1>1, <1>5, <2>1, <3>2, NumbersExcept
    <3>4. /\ LivePanics = Numbers(ages)
          /\ LivePanics' = (LivePanics \ {ages[Depth]}) \cup {raised + 1}
      BY <1>2, <1>5, <2>1, <3>3
    <3>. QED
      BY <1>8, <1>12, <2>1, <3>1, <3>4
  <2>. QED
    BY <2>2, <2>3
<1>13. CASE Going /\ CaughtByFrame
  <2>1. /\ stack # <<>> /\ AgeInFlight # 0 /\ AgeInFlight' = 0
        /\ ages' = [ages EXCEPT ![Depth] = AgeInFlight] /\ UNCHANGED <<raised, recovered>>
    BY <1>13 DEF CaughtByFrame
  <2>2. \A k \in Pos : ages[k] < AgeInFlight
    BY <2>1 DEF OrderInv, YoungestInFlight
  <2>3. CASE ages[Depth] = 0
    <3>1. Numbers(ages') = (Numbers(ages) \ {0}) \cup ({AgeInFlight} \ {0})
      <4>1. OwnNumber(ages, Depth) /\ Renumbers(ages', ages, Depth, AgeInFlight)
        BY <2>1, <2>3 DEF OwnNumber, Renumbers
      <4>. QED
        BY <1>1, <2>1, <2>3, <4>1, NumbersExcept
    <3>2. LivePanics' = LivePanics
      BY <1>2, <1>4, <2>1, <3>1
    <3>. QED
      BY <1>6, <1>13, <2>1, <3>2
  <2>4. CASE ages[Depth] # 0
    <3>1. /\ \A k \in Pos : k # Depth => ages[k] < ages[Depth]
          /\ \A n \in Numbers(ages) : n <= ages[Depth]
          /\ ages[Depth] \in Numbers(ages)
      BY <1>1, <2>1, <2>4, HighestYoungest
    <3>2. OwnNumber(ages, Depth) /\ Renumbers(ages', ages, Depth, AgeInFlight)
      BY <1>1, <2>1, <3>1 DEF OwnNumber, Renumbers
    <3>3. Numbers(ages') = (Numbers(ages) \ {ages[Depth]}) \cup ({AgeInFlight} \ {0})
      BY <1>1, <2>1, <3>2, NumbersExcept
    <3>4. ages[Depth] # AgeInFlight /\ \A n \in Numbers(ages) : n <= AgeInFlight /\ n # AgeInFlight
      <4>1. \A n \in Numbers(ages) : \E k \in Pos : n = ages[k]
        BY DEF Numbers
      <4>. QED
        BY <1>1, <2>1, <2>2, <4>1
    <3>5. /\ AgeInFlight \in LivePanics /\ ages[Depth] \in LivePanics
          /\ \A q \in LivePanics : q <= AgeInFlight
          /\ \A q \in LivePanics \ {AgeInFlight} : q <= ages[Depth]
          /\ LivePanics' = LivePanics \ {ages[Depth]}
      <4>1. LivePanics = Numbers(ages) \cup {AgeInFlight}
        BY <1>2, <2>1
      <4>2. LivePanics' = (Numbers(ages) \ {ages[Depth]}) \cup {AgeInFlight}
        BY <1>2, <2>1, <3>3
      <4>3. LivePanics' = LivePanics \ {ages[Depth]}
        BY <3>4, <4>1, <4>2
      <4>. QED
        BY <1>1, <3>1, <3>4, <4>1, <4>3
    <3>6. Ledger!Displace
      BY <1>3, <1>13, <2>1, <3>4, <3>5, Zenon DEF Going, Ledger!Displace, Ledger!Youngest
    <3>. QED
      BY <3>6 DEF Ledger!Next
  <2>. QED
    BY <2>3, <2>4
<1>14. CASE Going /\ LeftFrame
  <2>1. /\ stack # <<>> /\ AgeInFlight = 0 /\ AgeInFlight' = ages[Depth]
        /\ ages' = [ages EXCEPT ![Depth] = 0] /\ UNCHANGED <<raised, recovered>>
    BY <1>14 DEF LeftFrame
  <2>2. OwnNumber(ages, Depth) /\ Renumbers(ages', ages, Depth, 0)
    <3>1. CASE ages[Depth] = 0
      BY <2>1, <3>1 DEF OwnNumber, Renumbers
    <3>2. CASE ages[Depth] # 0
      <4>1. \A k \in Pos : k # Depth => ages[k] < ages[Depth]
        BY <1>1, <2>1, <3>2, HighestYoungest
      <4>. QED
        BY <1>1, <2>1, <4>1 DEF OwnNumber, Renumbers
    <3>. QED
      BY <3>1, <3>2
  <2>3. Numbers(ages') = (Numbers(ages) \ {ages[Depth]}) \cup ({0} \ {0})
    BY <1>1, <1>5, <2>1, <2>2, NumbersExcept
  <2>4. ages[Depth] = 0 \/ ages[Depth] \in Numbers(ages)
    BY <1>1, <2>1 DEF Numbers
  <2>5. LivePanics' = LivePanics
    BY <1>2, <1>4, <2>1, <2>3, <2>4
  <2>. QED
    BY <1>6, <1>14, <2>1, <2>5
\* The frame below the top holds the youngest panic and loses it.
<1>15. ASSUME Recovering
       PROVE  /\ LivePanics = Numbers(ages) /\ ages[Depth - 1] \in LivePanics /\ stack # <<>>
              /\ \A q \in LivePanics : q <= ages[Depth - 1]
              /\ \A k \in Pos : k # Depth - 1 => ages[k] < ages[Depth - 1]
              /\ \A b : b = [ages EXCEPT ![Depth - 1] = 0]
                    => Numbers(b) = LivePanics \ {ages[Depth - 1]}
  <2>1. /\ Depth > 1 /\ AgeInFlight = 0 /\ ages[Depth] = 0 /\ ages[Depth - 1] # 0
    BY <1>15 DEF Recovering
  <2>2. \A k \in Pos : k > Depth - 1 => ages[k] = 0
    BY <1>1, <2>1 DEF Pos
  <2>3. /\ \A k \in Pos : k # Depth - 1 => ages[k] < ages[Depth - 1]
        /\ \A n \in Numbers(ages) : n <= ages[Depth - 1]
        /\ ages[Depth - 1] \in Numbers(ages)
    BY <1>1, <2>1, <2>2, HighestYoungest
  <2>4. OwnNumber(ages, Depth - 1)
    BY <1>1, <2>1, <2>3 DEF OwnNumber
  <2>5. ASSUME NEW b, b = [ages EXCEPT ![Depth - 1] = 0]
        PROVE  Numbers(b) = (Numbers(ages) \ {ages[Depth - 1]}) \cup ({0} \ {0})
    <3>1. Renumbers(b, ages, Depth - 1, 0)
      BY <2>5 DEF Renumbers
    <3>. QED
      BY <1>1, <1>5, <2>1, <2>4, <3>1, NumbersExcept
  <2>6. LivePanics = Numbers(ages)
    BY <1>2, <2>1
  <2>. QED
    BY <1>1, <2>1, <2>3, <2>5, <2>6
<1>16. CASE Going /\ Returned
  <2>1. /\ Recovering /\ ages' = [ages EXCEPT ![Depth - 1] = 0]
        /\ recovered' = recovered \cup {ages[Depth - 1]} /\ UNCHANGED <<AgeInFlight, raised>>
    BY <1>16 DEF Returned
  <2>2. LivePanics' = LivePanics \ {ages[Depth - 1]}
    BY <1>2, <1>15, <2>1 DEF Recovering
  <2>3. Ledger!Recover
    BY <1>3, <1>15, <1>16, <2>1, <2>2, Zenon DEF Going, Ledger!Recover, Ledger!Youngest
  <2>. QED
    BY <2>3 DEF Ledger!Next
<1>17. CASE Going /\ Replaced
  <2>1. Recovering /\ raised' = raised + 1 /\ UNCHANGED recovered
    BY <1>17 DEF Replaced
  <2>2. LivePanics' = (LivePanics \ {ages[Depth - 1]}) \cup {raised + 1}
    <3>1. CASE AgeInFlight' = raised + 1 /\ ages' = [ages EXCEPT ![Depth - 1] = 0]
      BY <1>2, <1>5, <1>15, <2>1, <3>1
    <3>2. CASE /\ AgeInFlight' = 0
               /\ ages' = [ages EXCEPT ![Depth] = raised + 1, ![Depth - 1] = 0]
      <4> DEFINE c == [ages EXCEPT ![Depth - 1] = 0]
      <4>1. /\ Depth > 1 /\ ages[Depth] = 0 /\ Depth # Depth - 1
        BY <1>1, <2>1 DEF Recovering
      <4>2. c \in [Pos -> Nat] /\ c[Depth] = 0
        BY <1>1, <1>5, <4>1
      <4>3. Renumbers(ages', c, Depth, raised + 1) /\ OwnNumber(c, Depth)
        BY <1>1, <3>2, <4>1, <4>2 DEF Renumbers, OwnNumber
      <4>4. Numbers(c) = LivePanics \ {ages[Depth - 1]}
        BY <1>15, <2>1
      <4> HIDE DEF c
      <4>5. Numbers(ages') = (Numbers(c) \ {0}) \cup ({raised + 1} \ {0})
        BY <1>1, <1>5, <4>1, <4>2, <4>3, NumbersExcept
      <4>. QED
        BY <1>2, <1>4, <1>5, <1>15, <2>1, <3>2, <4>4, <4>5
    <3>. QED
      BY <1>17, <3>1, <3>2 DEF Replaced
  <2>. QED
    BY <1>8, <1>15, <1>17, <2>1, <2>2
<1>18. CASE Ended
  <2>1. /\ stack = <<>> /\ entry' = "done" /\ cause' = AgeInFlight /\ AgeInFlight' = 0
        /\ entry # "done" /\ UNCHANGED <<ages, raised, recovered>>
    BY <1>18 DEF Ended, DoneInv
  <2>2. Numbers(ages) = {}
    <3>1. Depth = 0
      BY <2>1 DEF Depth
    <3>2. \A k \in Pos : ages[k] = 0
      BY <1>1, <3>1 DEF Pos
    <3>. QED
      BY <3>2 DEF Numbers
  <2>3. LivePanics' = {} /\ LivePanics = {AgeInFlight} \ {0}
    BY <1>2, <2>1, <2>2
  <2>4. \/ LivePanics = {} /\ cause' = 0
        \/ AgeInFlight \in LivePanics /\ LivePanics = {AgeInFlight} /\ cause' = AgeInFlight
    BY <2>1, <2>3
  <2>5. Ledger!End
    BY <2>1, <2>3, <2>4, Zenon DEF Ledger!End
  <2>. QED
    BY <2>5 DEF Ledger!Next
<1>. QED
  BY <1>10, <1>11, <1>12, <1>13, <1>14, <1>16, <1>17, <1>18 DEF Seen

\* The frames keep Go's promise about panics: none is lost, none returned twice, only
\* the youngest is returned, and a program with a live panic never ends cleanly.
THEOREM FramesImplementLedger == Spec => PanicsAccounted
<1>1. Init => Ledger!Init
  <2> SUFFICES ASSUME Init PROVE Ledger!Init
    OBVIOUS
  <2>1. /\ stack = <<NewFrame("entry")>> /\ flight = NoPanic /\ raised = 0 /\ recovered = {}
        /\ entry = "init" /\ cause = 0
    BY DEF Init
  <2>2. ~stack[1].panicking /\ Len(stack) = 1
    BY <2>1 DEF NewFrame
  <2>3. LivePanics = {}
    BY <2>1, <2>2 DEF LivePanics
  <2>. QED
    BY <2>1, <2>3 DEF Ledger!Init
<1>. QED
  BY <1>1, StepImplements, StepSeen, LiveIs, DoneThroughout, OrderedThroughout,
     NestedThroughout, TypeCorrect, PTL DEF Spec, PanicsAccounted, Ledger!Spec
=============================================================================
