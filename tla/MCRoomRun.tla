----------------------------- MODULE MCRoomRun -----------------------------
(***************************************************************************)
(* Instances of RoomRun for TLC.                                           *)
(***************************************************************************)
EXTENDS RoomRun, TLC

CONSTANTS t1, t2, r1
=============================================================================
