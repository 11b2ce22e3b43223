---------------------------- MODULE MCRoomEngine ----------------------------
(***************************************************************************)
(* RoomEngine, with the audit of its payouts, for TLC: the symmetry of     *)
(* request slots.                                                          *)
(***************************************************************************)
EXTENDS DiceAudit, TLC

CallSymmetry == Permutations(Calls)
=============================================================================
