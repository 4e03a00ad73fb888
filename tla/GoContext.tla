----------------------------- MODULE GoContext -----------------------------
(***************************************************************************)
(* The contexts of the workflow package: withGoContext joins a Go context  *)
(* with a cancelable child of the workflow's context and starts a watcher  *)
(* goroutine that carries a Go cancellation over to the child.  The        *)
(* workflow calls Err on the joined context at any time.                   *)
(*                                                                         *)
(* The package runs interpreted.  goContextDoneErrMutex is then an         *)
(* interpreted sync.RWMutex, and "Mutexes are currently broken" there, says*)
(* interp.go:26-29, since what they are made of is not atomic.  So Lock    *)
(* and RLock exclude nobody here; that they return is all that is assumed. *)
(*                                                                         *)
(* Nothing ever closes entireWorkflowDoneCh: CloseDoneCh of WorkflowRun is *)
(* the close that fails.  The watcher's second case is never ready and has *)
(* no action.                                                              *)
(*                                                                         *)
(* External: the Go context (it fails once, for good) and the SDK's        *)
(* workflow context (canceling it cancels its children).                   *)
(***************************************************************************)
EXTENDS Naturals, FiniteSets

CONSTANT Ctxs   \* the joined contexts a workflow creates

VARIABLES
  root,       \* error of the workflow's own context
  wErr,       \* error of the cancelable child; its Done channel closes with it
  goErr,      \* error of the Go context
  doneErr,    \* combinedContext.goContextDoneErr
  watcher,    \* where the watcher goroutine is
  reader,     \* whether a call of Err is under way: "read" if so
  noted,      \* the local variable err of a call of Err under way
  torn,       \* (history) the last call of Err looked between the watcher's two writes
  returned    \* (history) what the last call of Err returned, once it has

ctxVars == <<root, wErr, goErr, doneErr, watcher, reader, noted, torn, returned>>
errVars == <<reader, noted, torn, returned>>

GoErrors == {"context.Canceled", "context.DeadlineExceeded"}
WorkflowErrors == {"ErrCanceled", "ErrDeadlineExceeded"}

Translated(e) ==
  CASE e = "context.Canceled" -> "ErrCanceled"
    [] e = "context.DeadlineExceeded" -> "ErrDeadlineExceeded"

CtxInit ==
  /\ root = "nil"
  /\ wErr = [c \in Ctxs |-> "nil"]
  /\ goErr = [c \in Ctxs |-> "nil"]
  /\ doneErr = [c \in Ctxs |-> "nil"]
  /\ watcher = [c \in Ctxs |-> "unborn"]
  /\ reader = [c \in Ctxs |-> "idle"]
  /\ noted = [c \in Ctxs |-> "nil"]
  /\ torn = [c \in Ctxs |-> FALSE]
  /\ returned = [c \in Ctxs |-> "nil"]

-----------------------------------------------------------------------------
\* The surroundings -----------------------------------------------------------

\* The Go context is canceled or its deadline passes.
GoContextFails(c, e) ==
  /\ goErr[c] = "nil"
  /\ goErr' = [goErr EXCEPT ![c] = e]
  /\ UNCHANGED <<root, wErr, doneErr, watcher, errVars>>

Born(c) == watcher[c] # "unborn"

\* Mutant: the children born so far are left alone.
WorkflowCanceledAlone ==
  /\ root = "nil"
  /\ root' = "ErrCanceled"
  /\ UNCHANGED <<wErr, goErr, doneErr, watcher, errVars>>

\* The server cancels the workflow: the SDK cancels every child that is not yet.
WorkflowCanceled ==
  /\ root = "nil"
  /\ root' = "ErrCanceled"
  /\ wErr' = [c \in Ctxs |-> IF Born(c) THEN "ErrCanceled" ELSE "nil"]
  /\ UNCHANGED <<goErr, doneErr, watcher, errVars>>

\* withGoContext -----------------------------------------------------------------

\* A child of a context that is canceled begins canceled.
WithGoContext(c) ==
  /\ ~Born(c)
  /\ wErr' = [wErr EXCEPT ![c] = root]
  /\ watcher' = [watcher EXCEPT ![c] = "select"]
  /\ UNCHANGED <<root, goErr, doneErr, errVars>>

\* Mutant: the select in a loop that looks out for a cancellation only.
LockCanceled(c) ==
  /\ watcher[c] = "select"
  /\ goErr[c] # "nil"
  /\ watcher' = [watcher EXCEPT ![c] = IF goErr[c] = "context.Canceled" THEN "locked" ELSE @]
  /\ UNCHANGED <<root, wErr, goErr, doneErr, errVars>>

\* case <-ctx.Done(), then goContextDoneErrMutex.Lock(), which excludes no reader.
Lock(c) ==
  /\ watcher[c] = "select"
  /\ goErr[c] # "nil"
  /\ watcher' = [watcher EXCEPT ![c] = "locked"]
  /\ UNCHANGED <<root, wErr, goErr, doneErr, errVars>>

\* Mutant: what the comment says, the opposite test.
AssignFirst(c) ==
  /\ watcher[c] = "locked"
  /\ IF wErr[c] = "nil"
     THEN doneErr' = [doneErr EXCEPT ![c] = goErr[c]]
     ELSE UNCHANGED doneErr
  /\ watcher' = [watcher EXCEPT ![c] = "assigned"]
  /\ UNCHANGED <<root, wErr, goErr, errVars>>

\* The Go error is kept if the workflow context's error IS already set.
Assign(c) ==
  /\ watcher[c] = "locked"
  /\ IF wErr[c] # "nil"
     THEN doneErr' = [doneErr EXCEPT ![c] = goErr[c]]
     ELSE UNCHANGED doneErr
  /\ watcher' = [watcher EXCEPT ![c] = "assigned"]
  /\ UNCHANGED <<root, wErr, goErr, errVars>>

\* Mutant: a deadline is not among the errors that are translated.
UnlockPartly(c) ==
  /\ watcher[c] = "assigned"
  /\ doneErr' = [doneErr EXCEPT ![c] = IF @ = "context.Canceled" THEN Translated(@) ELSE @]
  /\ watcher' = [watcher EXCEPT ![c] = "cancel"]
  /\ UNCHANGED <<root, wErr, goErr, errVars>>

\* The error is translated and the mutex released.
Unlock(c) ==
  /\ watcher[c] = "assigned"
  /\ doneErr' = [doneErr EXCEPT ![c] = IF @ = "nil" THEN @ ELSE Translated(@)]
  /\ watcher' = [watcher EXCEPT ![c] = "cancel"]
  /\ UNCHANGED <<root, wErr, goErr, errVars>>

\* Mutant: the cancel function of the workflow's context is called.
CancelAll(c) ==
  /\ watcher[c] = "cancel"
  /\ wErr' = [d \in Ctxs |-> IF Born(d) THEN "ErrCanceled" ELSE wErr[d]]
  /\ watcher' = [watcher EXCEPT ![c] = "ended"]
  /\ UNCHANGED <<root, goErr, doneErr, errVars>>

\* cancel(): the child fails unless it has already; the goroutine ends.
Cancel(c) ==
  /\ watcher[c] = "cancel"
  /\ wErr' = [wErr EXCEPT ![c] = IF @ = "nil" THEN "ErrCanceled" ELSE @]
  /\ watcher' = [watcher EXCEPT ![c] = "ended"]
  /\ UNCHANGED <<root, goErr, doneErr, errVars>>

\* combinedContext.Err ---------------------------------------------------------

\* RLock, which excludes no writer, and the read of goContextDoneErr.
ReadDoneErr(c) ==
  /\ Born(c)
  /\ reader[c] = "idle"
  /\ reader' = [reader EXCEPT ![c] = "read"]
  /\ noted' = [noted EXCEPT ![c] = doneErr[c]]
  /\ torn' = [torn EXCEPT ![c] = watcher[c] = "assigned"]
  /\ returned' = [returned EXCEPT ![c] = "nil"]
  /\ UNCHANGED <<root, wErr, goErr, doneErr, watcher>>

\* Without an error of the Go context the answer is the workflow context's.
ReturnErr(c) ==
  /\ reader[c] = "read"
  /\ reader' = [reader EXCEPT ![c] = "idle"]
  /\ returned' = [returned EXCEPT ![c] = IF noted[c] = "nil" THEN wErr[c] ELSE noted[c]]
  /\ noted' = [noted EXCEPT ![c] = "nil"]
  /\ UNCHANGED <<root, wErr, goErr, doneErr, watcher, torn>>

Watcher(c) == Lock(c) \/ Assign(c) \/ Unlock(c) \/ Cancel(c)

CtxNext ==
  \/ WorkflowCanceled
  \/ \E c \in Ctxs :
       \/ \E e \in GoErrors : GoContextFails(c, e)
       \/ WithGoContext(c)
       \/ Watcher(c)
       \/ ReadDoneErr(c)
       \/ ReturnErr(c)

CtxSpec == CtxInit /\ [][CtxNext]_ctxVars

-----------------------------------------------------------------------------
\* Properties -----------------------------------------------------------------

\* The shape of every variable.
CtxTypeOK ==
  /\ root \in {"nil", "ErrCanceled"}
  /\ wErr \in [Ctxs -> {"nil", "ErrCanceled"}]
  /\ goErr \in [Ctxs -> GoErrors \cup {"nil"}]
  /\ doneErr \in [Ctxs -> GoErrors \cup WorkflowErrors \cup {"nil"}]
  /\ watcher \in [Ctxs -> {"unborn", "select", "locked", "assigned", "cancel", "ended"}]
  /\ reader \in [Ctxs -> {"idle", "read"}]
  /\ noted \in [Ctxs -> GoErrors \cup WorkflowErrors \cup {"nil"}]
  /\ torn \in [Ctxs -> BOOLEAN]
  /\ returned \in [Ctxs -> GoErrors \cup WorkflowErrors \cup {"nil"}]

\* All that the mutex would keep from the workflow: a call of Err gives it an error
\* of the Go context untranslated only if it looked after the watcher stored
\* that error and before it stored the translation (context.go:43-49).
UntranslatedOnlyTorn == \A c \in Ctxs : returned[c] \in GoErrors => torn[c]

\* Err gives no error at all while the Done channel is open (combinedContext.Err
\* against the watcher, which writes goContextDoneErr twice and closes Done later).
ErrAfterDone == \A c \in Ctxs : returned[c] # "nil" => wErr[c] # "nil"

\* A joined context is canceled for a reason of its own: its Go context or the
\* workflow's context, never because another is.
CanceledForReason ==
  \A c \in Ctxs : wErr[c] # "nil" => goErr[c] # "nil" \/ root # "nil"
=============================================================================
