---------------------------- MODULE MCInputThread ----------------------------
(* InputThread for TLC: the server's loop and one file-sending thread. *)
EXTENDS InputThread
=============================================================================
