------------------------------ MODULE MCRecorder ------------------------------
(* Recorder for TLC: two rooms and a few recordings. *)
EXTENDS Recorder
=============================================================================
