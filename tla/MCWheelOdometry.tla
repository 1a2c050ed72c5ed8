--------------------------- MODULE MCWheelOdometry ---------------------------
(* Values for WheelOdometry that a .cfg cannot write. *)
EXTENDS WheelOdometry

\* A wheel that turns back by a tick in each unit of time.
TurnsBack == {-1}

\* The host's clock is set back by one unit.
SetBack == {-1}
=============================================================================
