---------------------------- MODULE MCServerLoop ----------------------------
(* ServerLoop for TLC: a connection that carries a file, and another. *)
EXTENDS ServerLoop

CONSTANTS c1, c2

MCMaxSent == [c \in Conns |-> IF c = c1 THEN 3 ELSE 1]
=============================================================================
