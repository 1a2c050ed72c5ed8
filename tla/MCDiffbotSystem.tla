-------------------------- MODULE MCDiffbotSystem --------------------------
(***************************************************************************)
(* Small instances of DiffbotSystem for TLC.  Each .cfg gives values to    *)
(* the commands its properties tell apart and one value to the others.     *)
(***************************************************************************)
EXTENDS DiffbotSystem

CONSTANTS none, kp, zero, one, nan, unnamed

\* The commands and values of an instance.
OneGain    == {kp}
AnyCmd     == {zero, one, nan}
FiniteCmd  == {zero, one}
MCClamp    == [c \in AnyCmd |-> IF c = nan THEN zero ELSE c]
MCUrdf     == [g \in Gain |-> one]

\* The messages of an instance: one that names the gains and the timeout, and one that
\* names the gains and is not a number; or any gains.
Says(gain, timeout) == [gains |-> [g \in Gain |-> gain], timeout |-> timeout]
TwoMessages  == {Says(zero, one), Says(nan, unnamed)}
GainMessages == {Says(gain, unnamed) : gain \in AnyCmd}

\* No LED frames: LedRefresh has them.
MCPayload == [id \in {"HANDSHAKE", "SET_PID_GAINS", "SET_CMD_TIMEOUT", "RESET",
                      "DEACTIVATE", "WHEEL_VELOCITY", "RGB_LED_SET"} |->
                CASE id = "SET_PID_GAINS"   -> [Gain -> {Clamp[c] : c \in GainCmd}]
                  [] id = "SET_CMD_TIMEOUT" -> {Clamp[c] : c \in TimeoutCmd}
                  [] id = "RGB_LED_SET"     -> {}
                  [] OTHER                  -> {none}]

MCBoot == [id \in {"SET_PID_GAINS", "SET_CMD_TIMEOUT", "WHEEL_VELOCITY", "RGB_LED_SET"} |->
             CASE id = "SET_PID_GAINS"   -> [g \in Gain |-> zero]
               [] id = "SET_CMD_TIMEOUT" -> zero
               [] OTHER                  -> none]
=============================================================================
