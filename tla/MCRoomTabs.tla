----------------------------- MODULE MCRoomTabs -----------------------------
(* RoomTabs for TLC: two rooms at the start, two more to enter.              *)
EXTENDS RoomTabs, TLC

CONSTANTS general, a, b, c

MCInitialRooms == <<general, a>>
Interchangeable == Permutations({b, c})
=============================================================================
