------------------------------ MODULE MCUpload ------------------------------
(* Upload for TLC: two users and three uploads; a file of two pieces, one that *)
(* is cut short after stat, and one whose name the INSERT cannot take.        *)
EXTENDS Upload, TLC

MCFiles == {[name |-> "a", size |-> 2, length |-> 2],
            [name |-> "a", size |-> 2, length |-> 1],
            [name |-> "b'", size |-> 1, length |-> 1]}

Interchangeable == Permutations(Clients)
=============================================================================
