---------------------------- MODULE MCDriveLoop ----------------------------
(***************************************************************************)
(* A small instance of DriveLoop for TLC: stand, turn back on one wheel at *)
(* a velocity between two steps of the wire, or creep on the other at one  *)
(* that the wire does not show.                                            *)
(***************************************************************************)
EXTENDS DriveLoop, TLC

CONSTANTS left, right

Both(l, r) == (left :> l) @@ (right :> r)
MCCommand  == {Both(0, 0), Both(-3, 0), Both(0, 1)}
=============================================================================
