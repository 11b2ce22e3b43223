------------------------------ MODULE MCSeating ------------------------------
(***************************************************************************)
(* Seating for TLC: players, rooms and calls are interchangeable.          *)
(***************************************************************************)
EXTENDS Seating, TLC

Symmetry == Permutations(Players) \cup Permutations(Rooms) \cup Permutations(Calls)
==============================================================================
