---------------------------- MODULE WorkflowRun ----------------------------
(***************************************************************************)
(* One execution of an interpreted workflow: the function BuildFunc makes, *)
(* InterpretWorkflow and its panic handler, and the goroutines the         *)
(* interpreted program starts, which outlive the execution.                *)
(*                                                                         *)
(* What the interpreted code does is left open: init and the workflow      *)
(* function return or panic (Frames says how a panic gets there).          *)
(***************************************************************************)
EXTENDS Naturals

CONSTANTS
  Wrapped,        \* called through BuildFunc's function, or InterpretWorkflow itself
  MaxParams,      \* bound on the parameters of the workflow function
  MaxGoroutines   \* bound on the Go instructions executed

ASSUME WorkflowRunAssumption ==
  Wrapped \in BOOLEAN /\ MaxParams \in Nat \ {0} /\ MaxGoroutines \in Nat

PanicKinds == {"exit", "target", "runtime", "string"}

VARIABLES
  params,      \* parameters of the workflow function, the context among them
  given,       \* arguments InterpretWorkflow gets
  phase,       \* the call under way in InterpretWorkflow
  completed,   \* InterpretWorkflow's variable
  flight,      \* the kind of host panic being propagated, or "none"
  outcome,     \* what the caller sees: "running" until it sees something
  reason,      \* panicErr.Reason
  goroutines,  \* interpreter.goroutines
  live,        \* interpreted goroutines, the main one not counted
  started,     \* Go instructions executed, counted against MaxGoroutines
  host,        \* whether the worker process is "up" or "down"
  raised       \* (history) the panic the interpreted program itself raised

vars == <<params, given, phase, completed, flight, outcome, reason, goroutines,
          live, started, host, raised>>
goVars == <<goroutines, live, started, host>>

\* The wrapper takes the context off its arguments; validateAndConvertFuncType has
\* seen that the first parameter is one.
Init ==
  /\ params \in 1 .. MaxParams
  /\ given \in (IF Wrapped THEN {params - 1} ELSE 0 .. MaxParams)
  /\ phase = "setup"
  /\ completed = FALSE
  /\ flight = "none"
  /\ outcome = "running"
  /\ reason = "none"
  /\ goroutines = 1
  /\ live = 0
  /\ started = 0
  /\ host = "up"
  /\ raised = "none"

In(p) == host = "up" /\ phase = p /\ flight = "none"

\* Packages and globals; the handler is in place at the end.
Setup ==
  /\ In("setup")
  /\ phase' = "init"
  /\ UNCHANGED <<params, given, completed, flight, outcome, reason, goVars, raised>>

\* The program lacks the runtime or the workflow package: no handler yet.
SetupFails ==
  /\ In("setup")
  /\ outcome' = "escaped"
  /\ phase' = "ended"
  /\ UNCHANGED <<params, given, completed, flight, reason, goVars, raised>>

\* Mutant: completed is set when init has returned.
InitCompletes ==
  /\ In("init")
  /\ phase' = "bind"
  /\ completed' = TRUE
  /\ UNCHANGED <<params, given, flight, outcome, reason, goVars, raised>>

\* call(init)
InitReturns ==
  /\ In("init")
  /\ phase' = "bind"
  /\ UNCHANGED <<params, given, completed, flight, outcome, reason, goVars, raised>>

\* callSSA of the workflow function: fr.env[p] = args[i] for each parameter.
BindArgs ==
  /\ In("bind")
  /\ IF given < params
     THEN flight' = "runtime" /\ UNCHANGED phase
     ELSE phase' = "fn" /\ UNCHANGED flight
  /\ UNCHANGED <<params, given, completed, outcome, reason, goVars, raised>>

\* The interpreted code panics, or calls os.Exit.
CodePanics(kind) ==
  /\ In("init") \/ In("fn")
  /\ flight' = kind
  /\ raised' = kind
  /\ UNCHANGED <<params, given, phase, completed, outcome, reason, goVars>>

FnReturns ==
  /\ In("fn")
  /\ completed' = TRUE
  /\ phase' = "closing"
  /\ UNCHANGED <<params, given, flight, outcome, reason, goVars, raised>>

\* Mutant: the channel operation blocks.
CloseBlocks == In("closing") /\ UNCHANGED vars

\* close(...(chan struct{})): MakeChan makes a chan value, whatever the element
\* type, so the type assertion fails.
CloseDoneCh ==
  /\ In("closing")
  /\ flight' = "runtime"
  /\ UNCHANGED <<params, given, phase, completed, outcome, reason, goVars, raised>>

\* Mutant: os.Exit taken for panic().
ReasonOfPanic(kind) == IF kind \in {"exit", "target"} THEN "called panic" ELSE "unknown"

ReasonOf(kind) ==
  CASE kind = "exit" -> "called os.Exit"
    [] kind = "target" -> "called panic"
    [] kind \in {"runtime", "string"} -> "unknown"

\* The deferred function of InterpretWorkflow.
Handle ==
  /\ host = "up"
  /\ flight # "none"
  /\ IF completed
     THEN outcome' = "escaped" /\ UNCHANGED reason
     ELSE outcome' = "error" /\ reason' = ReasonOf(flight)
  /\ flight' = "none"
  /\ phase' = "ended"
  /\ UNCHANGED <<params, given, completed, goVars, raised>>

-----------------------------------------------------------------------------
\* A Go instruction, executed by the main goroutine or another.
Go ==
  /\ host = "up"
  /\ In("init") \/ In("fn") \/ live > 0
  /\ started < MaxGoroutines
  /\ goroutines' = goroutines + 1
  /\ live' = live + 1
  /\ started' = started + 1
  /\ UNCHANGED <<params, given, phase, completed, flight, outcome, reason, host, raised>>

GoReturns ==
  /\ host = "up"
  /\ live > 0
  /\ live' = live - 1
  /\ goroutines' = goroutines - 1
  /\ UNCHANGED <<params, given, phase, completed, flight, outcome, reason, started, host, raised>>

\* Nothing recovers a panic at the bottom of an interpreted goroutine.
GoPanics ==
  /\ host = "up"
  /\ live > 0
  /\ live' = 0
  /\ host' = "down"
  /\ UNCHANGED <<params, given, phase, completed, flight, outcome, reason, goroutines, started, raised>>

Terminated == (host = "down" \/ (phase = "ended" /\ live = 0)) /\ UNCHANGED vars

Main ==
  \/ Setup \/ SetupFails \/ InitReturns \/ BindArgs \/ FnReturns \/ CloseDoneCh \/ Handle
  \/ \E kind \in PanicKinds : CodePanics(kind)

Next == Main \/ Go \/ GoReturns \/ GoPanics \/ Terminated

Spec == Init /\ [][Next]_vars

\* The worker schedules the workflow's main goroutine.
FairSpec == Spec /\ WF_vars(Main)

-----------------------------------------------------------------------------
\* Properties -----------------------------------------------------------------

\* The shape of every variable.
TypeOK ==
  /\ params \in 1 .. MaxParams /\ given \in 0 .. MaxParams
  /\ phase \in {"setup", "init", "bind", "fn", "closing", "ended"}
  /\ completed \in BOOLEAN
  /\ flight \in PanicKinds \cup {"none"} /\ raised \in PanicKinds \cup {"none"}
  /\ outcome \in {"running", "error", "escaped"}
  /\ reason \in {"none", "called os.Exit", "called panic", "unknown"}
  /\ goroutines \in Nat /\ live \in Nat /\ started \in 0 .. MaxGoroutines
  /\ host \in {"up", "down"}

\* A panic of the interpreted main goroutine, in init or in the workflow function,
\* never reaches the caller: it becomes a WorkflowPanicError.
PanicsContained == raised # "none" /\ phase = "ended" => outcome = "error"

\* The error tells os.Exit, panic() and failures of the interpreter apart.
ReasonTold ==
  outcome = "error" =>
    /\ reason = "called os.Exit" <=> raised = "exit"
    /\ reason = "called panic" <=> raised = "target"

\* While the host is up interpreter.goroutines counts the main goroutine and those
\* that have not returned, also after the workflow has.
GoroutineCount == host = "up" => goroutines = 1 + live

\* Every execution answers its caller, or the host goes down.
Finishes == <>(outcome # "running" \/ host = "down")

\* The test harness (harness_test.go:57) wants a workflow that does not panic to
\* complete without an error.
ErrorMeansPanic == outcome = "error" => raised # "none"

=============================================================================
