---------------------------- MODULE MCSocketTree ----------------------------
(* SocketTree for TLC: four descriptors, so that a node with two children can *)
(* have its successor below its right child, and one connection more than     *)
(* descriptors, so that a freed node is allocated again.                      *)
EXTENDS SocketTree, TLC

MCSockets == 4 .. 7
Interchangeable == Permutations(Senders) \cup Permutations(Addresses)
=============================================================================
