----------------------------- MODULE MCRoomCache -----------------------------
(***************************************************************************)
(* RoomCache for TLC: rooms and operations are interchangeable.            *)
(***************************************************************************)
EXTENDS RoomCache, TLC

Symmetry == Permutations(Rooms) \cup Permutations(Ops)
==============================================================================
