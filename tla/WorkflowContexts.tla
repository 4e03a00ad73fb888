-------------------------- MODULE WorkflowContexts --------------------------
(***************************************************************************)
(* An execution together with the joined contexts its program makes: the   *)
(* watchers are goroutines of the interpreter, so they are counted, go on  *)
(* after the execution has ended and stop with the host.                   *)
(***************************************************************************)
EXTENDS WorkflowRun, GoContext

allVars == <<vars, ctxVars>>

\* The watchers among the interpreted goroutines that live.
Watching == {c \in Ctxs : watcher[c] \notin {"unborn", "ended"}}

Others == live - Cardinality(Watching)

\* Interpreted code other than a watcher's runs.
CodeRuns == host = "up" /\ (In("init") \/ In("fn") \/ Others > 0)

-----------------------------------------------------------------------------
\* A call of withGoContext executes one Go instruction.
Join(c) == CodeRuns /\ Go /\ WithGoContext(c)

\* The goroutine of a watcher ends by its call of cancel().
WatcherReturns(c) == GoReturns /\ Cancel(c)

WatcherRuns(c) ==
  /\ host = "up"
  /\ Lock(c) \/ Assign(c) \/ Unlock(c)
  /\ UNCHANGED vars

\* A call of Err by the program.
CallErr(c) ==
  /\ CodeRuns
  /\ ReadDoneErr(c) \/ ReturnErr(c)
  /\ UNCHANGED vars

\* The server cancels an execution while it lasts; a Go context may fail at any time.
Cancels == host = "up" /\ phase # "ended" /\ WorkflowCanceled /\ UNCHANGED vars

Fails(c) == host = "up" /\ (\E e \in GoErrors : GoContextFails(c, e)) /\ UNCHANGED vars

\* The goroutines that are no watchers.
StartsOther == CodeRuns /\ Go /\ UNCHANGED ctxVars
OtherReturns == Others > 0 /\ GoReturns /\ UNCHANGED ctxVars
OtherPanics == Others > 0 /\ GoPanics /\ UNCHANGED ctxVars

MainRuns == Main /\ UNCHANGED ctxVars

AllInit == Init /\ CtxInit

AllNext ==
  \/ MainRuns
  \/ StartsOther \/ OtherReturns \/ OtherPanics
  \/ Cancels
  \/ \E c \in Ctxs : Join(c) \/ WatcherRuns(c) \/ WatcherReturns(c) \/ CallErr(c) \/ Fails(c)
  \/ Terminated /\ UNCHANGED ctxVars

AllSpec == AllInit /\ [][AllNext]_allVars

\* The host runs the main goroutine, for which the worker waits, and every watcher
\* that is not in its select (that the interpreted Lock returns is assumed).
AllFairSpec ==
  /\ AllSpec
  /\ WF_allVars(MainRuns)
  /\ \A c \in Ctxs : WF_allVars(WatcherRuns(c) \/ WatcherReturns(c))

-----------------------------------------------------------------------------
\* Properties -----------------------------------------------------------------

\* A canceled Go context or workflow context reaches the joined context, also after
\* the execution that made it has ended (withGoContext, context.go:37-55).
CancelReaches ==
  \A c \in Ctxs :
    (Born(c) /\ (goErr[c] # "nil" \/ root # "nil")) ~> (wErr[c] # "nil" \/ host = "down")

\* A watcher whose Go context has failed leaves no goroutine behind.
WatchersEnd ==
  \A c \in Ctxs : (Born(c) /\ goErr[c] # "nil") ~> (watcher[c] = "ended" \/ host = "down")

\* The comment of withGoContext (context.go:36): its watcher is to "Wait for go
\* context cancelled or top-level context cancelled", so the end of the
\* execution is to end the watchers.
WatchersEndWithWorkflow ==
  \A c \in Ctxs : (Born(c) /\ phase = "ended") ~> (watcher[c] = "ended" \/ host = "down")
=============================================================================
