------------------------------ MODULE MCRooms ------------------------------
\* Instances of Rooms for TLC: every run starts from a general room of all
\* users, and some from a public room nobody is in or from two messages.
EXTENDS Rooms

CONSTANTS a, b, t, u

General == [access |-> "general", first |-> NoUser, second |-> NoUser]
MCGeneral == <<General>>
MCGeneralAndPublic == <<General, [General EXCEPT !.access = "public"]>>

MCAllInGeneral == [c \in Clients |-> [r \in RoomIds |-> IF r = 1 THEN 1 ELSE 0]]

Said(c) == [room |-> 1, user |-> c, text |-> t, live |-> TRUE]
MCTwoMessages == <<Said(a), Said(b)>>
MCNoMessages == <<>>
============================================================================
