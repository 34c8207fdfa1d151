----------------------------- MODULE MCSessions -----------------------------
(* Small instances of Sessions for TLC. *)
EXTENDS Sessions, TLC

CONSTANTS c1, c2, ann, bob, p, q, f1, f2

\* The database of an earlier run: both users are registered.
TwoUsers ==
    [id \in Ids |->
        CASE id = 1 -> [login |-> ann, pw |-> p, socket |-> NoFd, notif |-> TRUE]
          [] id = 2 -> [login |-> bob, pw |-> q, socket |-> NoFd, notif |-> TRUE]
          [] OTHER -> NoRow]

OneUser == [id \in Ids |-> IF id = 1 THEN TwoUsers[1] ELSE NoRow]

\* Nothing refers to a particular client or descriptor.
Interchangeable == Permutations(Clients) \cup Permutations(Fds)
=============================================================================
