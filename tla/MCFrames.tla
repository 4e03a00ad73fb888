------------------------------ MODULE MCFrames ------------------------------
(***************************************************************************)
(* The TLC instance of Frames: both modes, target panics, runtime errors   *)
(* and os.Exit, and a bound on the work.                                   *)
(***************************************************************************)
EXTENDS Frames
=============================================================================
