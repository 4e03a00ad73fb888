--------------------------- MODULE WorkflowProofs ---------------------------
(***************************************************************************)
(* Proofs about a workflow's execution and its joined contexts.            *)
(*                                                                         *)
(* WorkflowRun, for any bounds and either way of calling.  The properties  *)
(* look at the end of an execution.  They hold because of what is true on  *)
(* the way: a panic the program raised is in flight until the handler has  *)
(* it, it is raised in init or in the workflow function only, and          *)
(* `completed' is not yet set then.                                        *)
(*                                                                         *)
(* GoContext, for every set of joined contexts.                            *)
(*                                                                         *)
(* WorkflowContexts is both of them: every step of it is a step of each or *)
(* leaves it alone, so that whatever holds of one of them holds there.     *)
(***************************************************************************)
EXTENDS WorkflowContexts, FiniteSetTheorems, TLAPS

-----------------------------------------------------------------------------
\* The execution of a workflow -------------------------------------------------

\* Where a panic of the program is while the execution goes on.
RaisedInFlight ==
  raised # "none" =>
    \/ phase \in {"init", "fn"} /\ flight = raised
    \/ phase = "ended" /\ outcome = "error"

CompletedLate == completed => phase \in {"closing", "ended"}

EndedOnce ==
  /\ outcome # "running" <=> phase = "ended"
  /\ phase = "ended" => flight = "none"

\* The panics of the interpreter itself are runtime errors.
OwnPanics == flight # "none" /\ raised = "none" => flight = "runtime"

\* The counts, and the shape of everything else.
Counts ==
  /\ params \in 1 .. MaxParams /\ given \in 0 .. MaxParams
  /\ goroutines \in Nat /\ live \in Nat /\ started \in 0 .. MaxGoroutines
  /\ GoroutineCount

Kinds ==
  /\ phase \in {"setup", "init", "bind", "fn", "closing", "ended"}
  /\ completed \in BOOLEAN
  /\ flight \in PanicKinds \cup {"none"} /\ raised \in PanicKinds \cup {"none"}
  /\ outcome \in {"running", "error", "escaped"}
  /\ reason \in {"none", "called os.Exit", "called panic", "unknown"}
  /\ host \in {"up", "down"}

Course == RaisedInFlight /\ CompletedLate /\ EndedOnce /\ OwnPanics /\ ReasonTold

LEMMA ShapeIsTypeOK == Counts /\ Kinds => TypeOK
  BY Zenon DEF Counts, Kinds, TypeOK

-----------------------------------------------------------------------------
\* The initial states satisfy the invariant.
LEMMA InitCounts == Init => Counts
<1> SUFFICES ASSUME Init PROVE Counts
  OBVIOUS
<1>1. params \in 1 .. MaxParams /\ given \in (IF Wrapped THEN {params - 1} ELSE 0 .. MaxParams)
  BY DEF Init
<1>2. goroutines = 1 /\ live = 0 /\ started = 0
  BY DEF Init
<1>3. given \in 0 .. MaxParams
  <2>1. CASE Wrapped
    BY <1>1, <2>1, WorkflowRunAssumption DEF WorkflowRunAssumption
  <2>2. CASE ~Wrapped
    BY <1>1, <2>2, Zenon
  <2> QED
    BY <2>1, <2>2
<1> QED
  BY <1>1, <1>2, <1>3, WorkflowRunAssumption DEF Counts, GoroutineCount, WorkflowRunAssumption

LEMMA InitKinds == Init => Kinds
  BY DEF Init, Kinds

LEMMA InitCourse == Init => Course
  BY DEF Init, Course, RaisedInFlight, CompletedLate, EndedOnce, OwnPanics, ReasonTold

\* The goroutines: one that returns was counted before.
LEMMA StepCounts == Counts /\ [Next]_vars => Counts'
<1> SUFFICES ASSUME Counts, [Next]_vars PROVE Counts'
  OBVIOUS
<1>1. CASE Main \/ Terminated \/ UNCHANGED vars
  <2>1. UNCHANGED <<params, given, goVars>>
    BY <1>1 DEF Main, Setup, SetupFails, InitReturns, BindArgs, FnReturns, CloseDoneCh, Handle,
                CodePanics, Terminated, vars, goVars
  <2> QED
    BY <2>1 DEF Counts, GoroutineCount, goVars
<1>2. CASE Go
  <2>1. /\ UNCHANGED <<params, given, host>>
        /\ started < MaxGoroutines /\ started' = started + 1
        /\ goroutines' = goroutines + 1 /\ live' = live + 1
    BY <1>2, Zenon DEF Go
  <2> QED
    BY <2>1, WorkflowRunAssumption DEF Counts, GoroutineCount, WorkflowRunAssumption
<1>3. CASE GoReturns
  <2>1. /\ UNCHANGED <<params, given, started, host>>
        /\ host = "up" /\ live > 0
        /\ goroutines' = goroutines - 1 /\ live' = live - 1
    BY <1>3, Zenon DEF GoReturns
  <2> QED
    BY <2>1 DEF Counts, GoroutineCount
<1>4. CASE GoPanics
  <2>1. UNCHANGED <<params, given, goroutines, started>> /\ live' = 0 /\ host' = "down"
    BY <1>4, Zenon DEF GoPanics
  <2> QED
    BY <2>1 DEF Counts, GoroutineCount
<1> QED
  BY <1>1, <1>2, <1>3, <1>4 DEF Next

LEMMA StepKinds == Kinds /\ [Next]_vars => Kinds'
<1> SUFFICES ASSUME Kinds, [Next]_vars PROVE Kinds'
  OBVIOUS
<1> USE DEF Kinds
<1>1. CASE Main
  <2>1. /\ phase' \in {"setup", "init", "bind", "fn", "closing", "ended"}
        /\ completed' \in BOOLEAN
        /\ flight' \in PanicKinds \cup {"none"} /\ raised' \in PanicKinds \cup {"none"}
        /\ outcome' \in {"running", "error", "escaped"}
        /\ UNCHANGED host
    BY <1>1 DEF Main, Setup, SetupFails, InitReturns, BindArgs, FnReturns, CloseDoneCh, Handle,
                CodePanics, PanicKinds, In, goVars
  <2>2. reason' \in {"none", "called os.Exit", "called panic", "unknown"}
    BY <1>1 DEF Main, Setup, SetupFails, InitReturns, BindArgs, FnReturns, CloseDoneCh, Handle,
                CodePanics, PanicKinds, ReasonOf
  <2> QED
    BY <2>1, <2>2
<1>2. CASE Go \/ GoReturns \/ GoPanics \/ Terminated \/ UNCHANGED vars
  BY <1>2, Zenon DEF Go, GoReturns, GoPanics, Terminated, vars
<1> QED
  BY <1>1, <1>2 DEF Next

\* The main goroutine: where the program may panic `completed' is not set, and the
\* handler is the next to see the panic.
LEMMA StepCourse == Kinds /\ Course /\ [Next]_vars => Course'
<1> SUFFICES ASSUME Kinds, Course, [Next]_vars PROVE Course'
  OBVIOUS
<1> USE DEF Course, RaisedInFlight, CompletedLate, EndedOnce, OwnPanics, ReasonTold
<1>1. CASE Setup
  BY <1>1 DEF Setup, In
<1>2. CASE SetupFails
  <2>1. phase = "setup" /\ flight = "none" /\ phase' = "ended" /\ outcome' = "escaped"
    BY <1>2, Zenon DEF SetupFails, In
  <2>2. UNCHANGED <<completed, flight, reason, raised>>
    BY <1>2, Zenon DEF SetupFails
  <2> QED
    BY <2>1, <2>2
<1>3. CASE InitReturns
  BY <1>3 DEF InitReturns, In
<1>4. CASE BindArgs
  <2>1. /\ phase = "bind" /\ phase' \in {"bind", "fn"} /\ flight = "none"
        /\ flight' \in {"none", "runtime"}
        /\ UNCHANGED <<completed, outcome, reason, raised>>
    BY <1>4, Zenon DEF BindArgs, In
  <2> QED
    BY <2>1
<1>5. CASE FnReturns
  BY <1>5 DEF FnReturns, In
<1>6. CASE CloseDoneCh
  BY <1>6 DEF CloseDoneCh, In
<1>7. CASE Handle
  BY <1>7 DEF Handle, ReasonOf, Kinds, PanicKinds
<1>8. ASSUME NEW kind \in PanicKinds, CodePanics(kind) PROVE Course'
  BY <1>8 DEF CodePanics, In, PanicKinds
<1>9. CASE Go \/ GoReturns \/ GoPanics \/ Terminated \/ UNCHANGED vars
  <2>1. UNCHANGED <<phase, completed, flight, outcome, reason, raised>>
    BY <1>9 DEF Go, GoReturns, GoPanics, Terminated, vars
  <2> QED
    BY <2>1
<1> QED
  BY <1>1, <1>2, <1>3, <1>4, <1>5, <1>6, <1>7, <1>8, <1>9 DEF Next, Main

\* The strengthened invariant holds throughout.
THEOREM Strengthening == Spec => [](Counts /\ Kinds /\ Course)
  BY InitCounts, InitKinds, InitCourse, StepCounts, StepKinds, StepCourse, PTL DEF Spec

\* Every variable keeps its shape: no goroutine returns that was not started, and no
\* more are started than the bound says.
THEOREM TypeCorrect == Spec => []TypeOK
  BY Strengthening, ShapeIsTypeOK, PTL

\* A panic of the interpreted main goroutine never reaches the caller of InterpretWorkflow.
THEOREM PanicsAreContained == Spec => []PanicsContained
<1>1. Course => PanicsContained
  BY DEF Course, RaisedInFlight, PanicsContained
<1> QED
  BY <1>1, Strengthening, PTL

\* The error's reason tells os.Exit and panic() from failures of the interpreter.
THEOREM ReasonIsTold == Spec => []ReasonTold
<1>1. Course => ReasonTold
  BY DEF Course
<1> QED
  BY <1>1, Strengthening, PTL

\* interpreter.goroutines counts exactly the goroutines that have not returned.
THEOREM GoroutinesCounted == Spec => []GoroutineCount
<1>1. Counts => GoroutineCount
  BY DEF Counts
<1> QED
  BY <1>1, Strengthening, PTL

-----------------------------------------------------------------------------
\* Joined contexts ---------------------------------------------------------------

\* The strengthening: where the error of the Go context is untranslated, what a call
\* of Err has in hand, and what an error implies about the child.
WatcherInv(c) ==
  /\ watcher[c] \in {"unborn", "select", "locked"} => doneErr[c] = "nil"
  /\ watcher[c] = "unborn" => wErr[c] = "nil" /\ noted[c] = "nil" /\ returned[c] = "nil"
  /\ watcher[c] = "assigned" => doneErr[c] \in GoErrors \cup {"nil"}
  /\ watcher[c] \in {"cancel", "ended"} => doneErr[c] \in WorkflowErrors \cup {"nil"}
  /\ watcher[c] \in {"locked", "assigned", "cancel", "ended"} => goErr[c] # "nil"

AnswerInv(c) ==
  /\ noted[c] \in GoErrors => torn[c]
  /\ returned[c] \in GoErrors => torn[c]
  /\ (doneErr[c] # "nil" \/ noted[c] # "nil" \/ returned[c] # "nil") => wErr[c] # "nil"
  /\ wErr[c] # "nil" => goErr[c] # "nil" \/ root # "nil"

CtxInv == \A c \in Ctxs : WatcherInv(c) /\ AnswerInv(c)

\* The switch in the watcher maps each error of a Go context to one of the SDK.
LEMMA TranslatedType == \A e \in GoErrors : Translated(e) \in WorkflowErrors
  BY DEF Translated, GoErrors, WorkflowErrors

\* The three kinds of answer are told apart.
LEMMA NilIsNoError ==
  /\ "nil" \notin GoErrors /\ "nil" \notin WorkflowErrors
  /\ GoErrors \cap WorkflowErrors = {} /\ "ErrCanceled" \in WorkflowErrors
  BY DEF GoErrors, WorkflowErrors

\* The shape and the strengthening are inductive together: that Unlock translates
\* only what there is a translation of needs WatcherInv.
THEOREM CtxStrengthening == CtxSpec => [](CtxTypeOK /\ CtxInv)
<1>1. CtxInit => CtxTypeOK /\ CtxInv
  BY NilIsNoError DEF CtxInit, CtxTypeOK, CtxInv, WatcherInv, AnswerInv
<1>2. CtxTypeOK /\ CtxInv /\ [CtxNext]_ctxVars => CtxTypeOK'
  <2> SUFFICES ASSUME CtxTypeOK, CtxInv, [CtxNext]_ctxVars
               PROVE  CtxTypeOK'
    OBVIOUS
  <2> USE DEF CtxTypeOK, errVars
  <2>1. CASE WorkflowCanceled
    BY <2>1 DEF WorkflowCanceled
  <2>2. ASSUME NEW c \in Ctxs, NEW e \in GoErrors, GoContextFails(c, e)
        PROVE  CtxTypeOK'
    BY <2>2 DEF GoContextFails
  <2>3. ASSUME NEW c \in Ctxs, WithGoContext(c)
        PROVE  CtxTypeOK'
    BY <2>3 DEF WithGoContext
  <2>4. ASSUME NEW c \in Ctxs, Lock(c)
        PROVE  CtxTypeOK'
    BY <2>4 DEF Lock
  <2>5. ASSUME NEW c \in Ctxs, Assign(c)
        PROVE  CtxTypeOK'
    BY <2>5 DEF Assign
  <2>6. ASSUME NEW c \in Ctxs, Unlock(c)
        PROVE  CtxTypeOK'
    <3>1. doneErr[c] \in GoErrors \cup {"nil"}
      BY <2>6 DEF Unlock, CtxInv, WatcherInv
    <3>2. (IF doneErr[c] = "nil" THEN doneErr[c] ELSE Translated(doneErr[c]))
             \in WorkflowErrors \cup {"nil"}
      BY <3>1, TranslatedType
    <3>. QED
      BY <2>6, <3>2 DEF Unlock
  <2>7. ASSUME NEW c \in Ctxs, Cancel(c)
        PROVE  CtxTypeOK'
    BY <2>7 DEF Cancel
  <2>8. ASSUME NEW c \in Ctxs, ReadDoneErr(c)
        PROVE  CtxTypeOK'
    BY <2>8 DEF ReadDoneErr
  <2>9. ASSUME NEW c \in Ctxs, ReturnErr(c)
        PROVE  CtxTypeOK'
    BY <2>9, NilIsNoError DEF ReturnErr
  <2>10. CASE UNCHANGED ctxVars
    BY <2>10 DEF ctxVars
  <2>. QED
    BY <2>1, <2>2, <2>3, <2>4, <2>5, <2>6, <2>7, <2>8, <2>9, <2>10 DEF CtxNext, Watcher
<1>3. CtxTypeOK /\ CtxInv /\ [CtxNext]_ctxVars => CtxInv'
  <2> SUFFICES ASSUME CtxTypeOK, CtxInv, [CtxNext]_ctxVars, NEW d \in Ctxs
               PROVE  WatcherInv(d)' /\ AnswerInv(d)'
    BY DEF CtxInv
  <2>0. WatcherInv(d) /\ AnswerInv(d)
    BY DEF CtxInv
  <2> USE DEF CtxTypeOK, WatcherInv, AnswerInv, errVars
  <2>1. CASE WorkflowCanceled
    BY <2>0, <2>1 DEF WorkflowCanceled, Born
  <2>2. ASSUME NEW c \in Ctxs, NEW e \in GoErrors, GoContextFails(c, e)
        PROVE  WatcherInv(d)' /\ AnswerInv(d)'
    BY <2>0, <2>2, NilIsNoError DEF GoContextFails
  <2>3. ASSUME NEW c \in Ctxs, WithGoContext(c)
        PROVE  WatcherInv(d)' /\ AnswerInv(d)'
    BY <2>0, <2>3 DEF WithGoContext, Born
  <2>4. ASSUME NEW c \in Ctxs, Lock(c)
        PROVE  WatcherInv(d)' /\ AnswerInv(d)'
    BY <2>0, <2>4 DEF Lock
  <2>5. ASSUME NEW c \in Ctxs, Assign(c)
        PROVE  WatcherInv(d)' /\ AnswerInv(d)'
    BY <2>0, <2>5 DEF Assign
  <2>6. ASSUME NEW c \in Ctxs, Unlock(c)
        PROVE  WatcherInv(d)' /\ AnswerInv(d)'
    <3>1. CASE c = d
      <4>1. doneErr[d] \in GoErrors \cup {"nil"}
        BY <2>0, <2>6, <3>1 DEF Unlock
      <4>2. CASE doneErr[d] = "nil"
        BY <2>0, <2>6, <3>1, <4>2 DEF Unlock
      <4>3. CASE doneErr[d] \in GoErrors
        <5>1. doneErr'[d] = Translated(doneErr[d])
          BY <2>6, <3>1, <4>3, NilIsNoError DEF Unlock
        <5>2. doneErr'[d] \in WorkflowErrors
          BY <5>1, <4>3, TranslatedType
        <5>3. doneErr[d] # "nil"
          BY <4>3, NilIsNoError
        <5>. QED
          BY <2>0, <2>6, <3>1, <5>2, <5>3 DEF Unlock
      <4>. QED
        BY <4>1, <4>2, <4>3
    <3>2. CASE c # d
      BY <2>0, <2>6, <3>2 DEF Unlock
    <3>. QED
      BY <3>1, <3>2
  <2>7. ASSUME NEW c \in Ctxs, Cancel(c)
        PROVE  WatcherInv(d)' /\ AnswerInv(d)'
    BY <2>0, <2>7 DEF Cancel
  <2>8. ASSUME NEW c \in Ctxs, ReadDoneErr(c)
        PROVE  WatcherInv(d)' /\ AnswerInv(d)'
    <3>1. CASE c = d
      <4>1. /\ UNCHANGED <<root, wErr, goErr, doneErr, watcher>>
            /\ watcher[d] # "unborn"
            /\ noted'[d] = doneErr[d] /\ returned'[d] = "nil"
            /\ torn'[d] = (watcher[d] = "assigned")
        BY <2>8, <3>1 DEF ReadDoneErr, Born
      <4>2. doneErr[d] \in GoErrors => watcher[d] = "assigned"
        BY <2>0, NilIsNoError
      <4>. QED
        BY <2>0, <4>1, <4>2, NilIsNoError
    <3>2. CASE c # d
      BY <2>0, <2>8, <3>2 DEF ReadDoneErr
    <3>. QED
      BY <3>1, <3>2
  <2>9. ASSUME NEW c \in Ctxs, ReturnErr(c)
        PROVE  WatcherInv(d)' /\ AnswerInv(d)'
    BY <2>0, <2>9, NilIsNoError DEF ReturnErr
  <2>10. CASE UNCHANGED ctxVars
    BY <2>0, <2>10 DEF ctxVars
  <2>. QED
    BY <2>1, <2>2, <2>3, <2>4, <2>5, <2>6, <2>7, <2>8, <2>9, <2>10
    DEF CtxNext, Watcher
<1>. QED
  BY <1>1, <1>2, <1>3, PTL DEF CtxSpec

-----------------------------------------------------------------------------
\* Every variable keeps its shape.
THEOREM CtxTypeCorrect == CtxSpec => []CtxTypeOK
  BY CtxStrengthening, PTL

-----------------------------------------------------------------------------
\* The damage that the broken mutex can do is bounded: combinedContext.Err returns an
\* error of the Go context untranslated only if it looked between the watcher's two writes.
THEOREM OnlyTornUntranslated == CtxSpec => []UntranslatedOnlyTorn
<1>1. CtxInv => UntranslatedOnlyTorn
  BY DEF CtxInv, AnswerInv, UntranslatedOnlyTorn
<1>. QED
  BY <1>1, CtxStrengthening, PTL

\* combinedContext.Err returns no error while Done is open.
THEOREM ErrOnlyAfterDone == CtxSpec => []ErrAfterDone
<1>1. CtxInv => ErrAfterDone
  BY DEF CtxInv, AnswerInv, ErrAfterDone
<1>. QED
  BY <1>1, CtxStrengthening, PTL

\* No joined context is canceled because another one is.
THEOREM CancelHasReason == CtxSpec => []CanceledForReason
<1>1. CtxInv => CanceledForReason
  BY DEF CtxInv, AnswerInv, CanceledForReason
<1>. QED
  BY <1>1, CtxStrengthening, PTL

-----------------------------------------------------------------------------
\* An execution and its joined contexts --------------------------------------------

\* Every step of the composition is a step of each component or leaves it alone.
LEMMA StepIsBoth == [AllNext]_allVars => [Next]_vars /\ [CtxNext]_ctxVars
<1> SUFFICES ASSUME [AllNext]_allVars PROVE [Next]_vars /\ [CtxNext]_ctxVars
  OBVIOUS
<1>1. CASE MainRuns
  BY <1>1 DEF MainRuns, Next
<1>2. CASE StartsOther \/ OtherReturns \/ OtherPanics
  BY <1>2 DEF StartsOther, OtherReturns, OtherPanics, Next
<1>3. CASE Cancels
  BY <1>3 DEF Cancels, CtxNext
<1>4. ASSUME NEW c \in Ctxs, Join(c) PROVE [Next]_vars /\ [CtxNext]_ctxVars
  BY <1>4 DEF Join, Next, CtxNext
<1>5. ASSUME NEW c \in Ctxs, WatcherRuns(c) PROVE [Next]_vars /\ [CtxNext]_ctxVars
  BY <1>5 DEF WatcherRuns, CtxNext, Watcher
<1>6. ASSUME NEW c \in Ctxs, WatcherReturns(c) PROVE [Next]_vars /\ [CtxNext]_ctxVars
  BY <1>6 DEF WatcherReturns, Next, CtxNext, Watcher
<1>7. ASSUME NEW c \in Ctxs, CallErr(c) PROVE [Next]_vars /\ [CtxNext]_ctxVars
  BY <1>7 DEF CallErr, CtxNext
<1>8. ASSUME NEW c \in Ctxs, Fails(c) PROVE [Next]_vars /\ [CtxNext]_ctxVars
  BY <1>8 DEF Fails, CtxNext
<1>9. CASE (Terminated /\ UNCHANGED ctxVars) \/ UNCHANGED allVars
  BY <1>9 DEF Terminated, allVars
<1> QED
  BY <1>1, <1>2, <1>3, <1>4, <1>5, <1>6, <1>7, <1>8, <1>9 DEF AllNext

\* The composition implements both of its components: what is proved of an execution
\* and of joined contexts holds of the two together.
THEOREM CompositionIsBoth == AllSpec => Spec /\ CtxSpec
  BY StepIsBoth, PTL DEF AllSpec, AllInit, Spec, CtxSpec

\* While the host is up every watcher that has not ended is one of the goroutines that
\* interpreter.goroutines counts, besides the main one.
WatchersAreCounted ==
  /\ IsFiniteSet(Watching)
  /\ host = "up" => Cardinality(Watching) <= live

\* A watcher that goes on keeps the set of those that have not ended.
LEMMA WatchingSame ==
  ASSUME \A c \in Ctxs : (watcher'[c] \in {"unborn", "ended"}) <=> (watcher[c] \in {"unborn", "ended"})
  PROVE  Watching' = Watching
  BY DEF Watching

\* Starting or ending a watcher changes the set by one and the count with it.
LEMMA StepWatchers ==
  ASSUME CtxTypeOK, Counts, WatchersAreCounted, [AllNext]_allVars
  PROVE  WatchersAreCounted'
<1>1. CASE MainRuns \/ Cancels \/ (Terminated /\ UNCHANGED ctxVars) \/ UNCHANGED allVars
  <2>1. UNCHANGED <<watcher, live, host>>
    BY <1>1 DEF MainRuns, Main, Setup, SetupFails, InitReturns, BindArgs, FnReturns, CloseDoneCh,
                Handle, CodePanics, Cancels, WorkflowCanceled, Terminated, allVars, vars, goVars,
                ctxVars
  <2>2. Watching' = Watching
    BY <2>1 DEF Watching
  <2> QED
    BY <2>1, <2>2 DEF WatchersAreCounted
<1>2. CASE StartsOther \/ OtherReturns \/ OtherPanics
  <2>1. Watching' = Watching
    BY <1>2 DEF StartsOther, OtherReturns, OtherPanics, ctxVars, Watching
  <2>2. Cardinality(Watching) \in Nat
    BY FS_CardinalityType DEF WatchersAreCounted
  <2>3. CASE StartsOther
    <3>1. live' = live + 1 /\ host' = host
      BY <2>3, Zenon DEF StartsOther, Go
    <3> QED
      BY <2>1, <2>2, <3>1 DEF WatchersAreCounted, Counts
  <2>4. CASE OtherReturns
    <3>1. live' = live - 1 /\ host' = host /\ Others > 0 /\ host = "up"
      BY <2>4, Zenon DEF OtherReturns, GoReturns
    <3> QED
      BY <2>1, <2>2, <3>1 DEF WatchersAreCounted, Counts, Others
  <2>5. CASE OtherPanics
    <3>1. host' = "down"
      BY <2>5, Zenon DEF OtherPanics, GoPanics
    <3> QED
      BY <2>1, <3>1 DEF WatchersAreCounted
  <2> QED
    BY <1>2, <2>3, <2>4, <2>5
<1>3. ASSUME NEW c \in Ctxs, Join(c) PROVE WatchersAreCounted'
  <2>1. Watching' = Watching \cup {c} /\ c \notin Watching
    BY <1>3 DEF Join, WithGoContext, Born, CtxTypeOK, Watching
  <2>2. live' = live + 1 /\ host = "up"
    BY <1>3, Zenon DEF Join, Go
  <2>3. /\ IsFiniteSet(Watching \cup {c})
        /\ Cardinality(Watching \cup {c}) = Cardinality(Watching) + 1
    BY <2>1, FS_AddElement DEF WatchersAreCounted
  <2>4. Cardinality(Watching) \in Nat
    BY FS_CardinalityType DEF WatchersAreCounted
  <2> QED
    BY <2>1, <2>2, <2>3, <2>4 DEF WatchersAreCounted, Counts
<1>4. ASSUME NEW c \in Ctxs, WatcherReturns(c) PROVE WatchersAreCounted'
  <2>1. Watching' = Watching \ {c} /\ c \in Watching
    BY <1>4 DEF WatcherReturns, Cancel, CtxTypeOK, Watching
  <2>2. live' = live - 1 /\ host = "up" /\ host' = "up"
    BY <1>4, Zenon DEF WatcherReturns, GoReturns
  <2>3. /\ IsFiniteSet(Watching \ {c})
        /\ Cardinality(Watching \ {c}) = Cardinality(Watching) - 1
    BY <2>1, FS_RemoveElement DEF WatchersAreCounted
  <2>4. Cardinality(Watching) \in Nat
    BY FS_CardinalityType DEF WatchersAreCounted
  <2> QED
    BY <2>1, <2>2, <2>3, <2>4 DEF WatchersAreCounted, Counts
<1>5. ASSUME NEW c \in Ctxs, WatcherRuns(c) \/ CallErr(c) \/ Fails(c) PROVE WatchersAreCounted'
  <2>1. UNCHANGED <<live, host>>
    BY <1>5 DEF WatcherRuns, CallErr, Fails, vars
  <2>2. \A d \in Ctxs : (watcher'[d] \in {"unborn", "ended"}) <=> (watcher[d] \in {"unborn", "ended"})
    BY <1>5 DEF WatcherRuns, CallErr, Fails, Lock, Assign, Unlock, ReadDoneErr, ReturnErr,
                GoContextFails, CtxTypeOK
  <2>3. Watching' = Watching
    BY <2>2, WatchingSame
  <2> QED
    BY <2>1, <2>3 DEF WatchersAreCounted
<1> QED
  BY <1>1, <1>2, <1>3, <1>4, <1>5 DEF AllNext

\* While the host is up the watchers are among the goroutines of the interpreter, during
\* the execution and after it: none of them is lost from the count, nor counted twice.
THEOREM WatchersCounted == AllSpec => []WatchersAreCounted
<1>1. AllInit => WatchersAreCounted
  <2> SUFFICES ASSUME AllInit PROVE WatchersAreCounted
    OBVIOUS
  <2>1. Watching = {} /\ live = 0
    BY DEF AllInit, Init, CtxInit, Watching
  <2> QED
    BY <2>1, FS_EmptySet DEF WatchersAreCounted
<1>2. AllSpec => [](CtxTypeOK /\ Counts)
  BY CompositionIsBoth, Strengthening, CtxStrengthening, PTL
<1>3. CtxTypeOK /\ Counts /\ WatchersAreCounted /\ [AllNext]_allVars => WatchersAreCounted'
  BY StepWatchers
<1> QED
  BY <1>1, <1>2, <1>3, PTL DEF AllSpec
=============================================================================
