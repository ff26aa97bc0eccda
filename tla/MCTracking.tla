----------------------------- MODULE MCTracking -----------------------------
(***************************************************************************)
(* Tracking with the device at 3, friends that may be at the alert         *)
(* distance on either side of it (1 and 5), on it, too far (6), or without *)
(* a position (0).                                                         *)
(***************************************************************************)
EXTENDS Tracking

MCPositions == {0, 1, 3, 5, 6}
=============================================================================
