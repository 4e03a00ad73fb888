----------------------------- MODULE MCWorkflow -----------------------------
(***************************************************************************)
(* The TLC instances of WorkflowContexts: an execution, through BuildFunc's*)
(* function or with any number of arguments, and two joined contexts.      *)
(***************************************************************************)
EXTENDS WorkflowContexts
=============================================================================
