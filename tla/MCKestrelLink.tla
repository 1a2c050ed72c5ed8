--------------------------- MODULE MCKestrelLink ---------------------------
(***************************************************************************)
(* A small instance of KestrelLink for TLC: the wheels are driven or at    *)
(* rest, and every other command carries one value.                        *)
(***************************************************************************)
EXTENDS KestrelLink

CONSTANTS none, rest, drive

MCPayload == [id \in MsgId |-> IF id = "WHEEL_VELOCITY" THEN {rest, drive} ELSE {none}]
MCBoot    == [s \in Setting |-> IF s = "WHEEL_VELOCITY" THEN rest ELSE none]
=============================================================================
