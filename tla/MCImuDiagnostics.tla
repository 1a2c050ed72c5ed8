-------------------------- MODULE MCImuDiagnostics --------------------------
(* A small instance of ImuDiagnostics for TLC: the clock is set back once and forward once. *)
EXTENDS ImuDiagnostics

MCSteps == {-2, 2}
=============================================================================
