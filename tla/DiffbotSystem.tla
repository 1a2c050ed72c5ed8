--------------------------- MODULE DiffbotSystem ---------------------------
(***************************************************************************)
(* My_diffbotSystemHardware (my_diffbot_system.cpp), the hardware plugin   *)
(* that ros2_control drives: its lifecycle callbacks and the read() and    *)
(* write() of the control loop, each made of the link calls it makes, over *)
(* the link of KestrelLink.                                                *)
(*                                                                         *)
(* The framework never runs two of these callbacks at once, so the host is *)
(* one thread; `op' is where it stands inside a callback.  What write()    *)
(* says to the LED and the wheels is in LedRefresh and DriveLoop: here it  *)
(* is a frame on the line, or none.                                        *)
(*                                                                         *)
(* kestrel_tuning_controller (base_controllers.yaml) writes the gpios of   *)
(* both kestrel_pid and kestrel_watchdog.  It keeps the last message and   *)
(* writes it again in every cycle, as long as it is not stopped, and       *)
(* nothing in the repository stops it when the component is deactivated.   *)
(* A message names some of the commands and the others stay as they are.   *)
(***************************************************************************)
EXTENDS Naturals, Sequences, SequencesExt

CONSTANTS
  Gain,         \* the gains of kestrel_pid
  GainCmd,      \* values of a gain's gpio command
  TimeoutCmd,   \* values of the cmd_timeout_ms gpio command
  Clamp,        \* ClampCast: what each tuning command is on the wire
  NaN,          \* a command that is not finite
  Zero,         \* the command and the value 0
  Unnamed,      \* what a message says of a command that it does not name
  UrdfGains,    \* kp_l_ ... kd_r_, what on_init read from the URDF
  UrdfTimeout,  \* cmd_timeout_ms_
  MaxAttempts,  \* kMaxAttempts
  MaxStarts,    \* bound: calls of on_activate
  Messages,     \* bound: what users say in their tuning messages
  MaxEdits,     \* bound: tuning messages of the user
  Payload, Boot, MaxSent, MaxQueue

Gains == [Gain -> GainCmd]

\* A message of kestrel_tuning_controller.
Message   == [gains : [Gain -> GainCmd \cup {Unnamed}], timeout : TimeoutCmd \cup {Unnamed}]
NoMessage == [gains |-> [g \in Gain |-> Unnamed], timeout |-> Unnamed]

\* The gains on the wire.
Wire(gains) == [g \in Gain |-> Clamp[gains[g]]]

ASSUME SystemAssumption ==
  /\ NaN \in GainCmd
  /\ Zero \in GainCmd /\ Zero \in TimeoutCmd /\ Zero # NaN
  /\ Unnamed \notin GainCmd \cup TimeoutCmd
  /\ UrdfGains \in [Gain -> GainCmd \ {NaN}]
  /\ UrdfTimeout \in TimeoutCmd \ {NaN}
  /\ GainCmd \cup TimeoutCmd \subseteq DOMAIN Clamp /\ Clamp[NaN] = Clamp[Zero]
  /\ \A gains \in Gains : Wire(gains) \in Payload["SET_PID_GAINS"]
  /\ \A timeout \in TimeoutCmd : Clamp[timeout] \in Payload["SET_CMD_TIMEOUT"]
  /\ \A id \in {"HANDSHAKE", "DEACTIVATE", "RESET"} : Payload[id] # {}
  /\ MaxAttempts \in Nat \ {0}
  /\ MaxStarts \in Nat
  /\ MaxEdits \in Nat
  /\ Messages \subseteq Message

VARIABLES
  fd, plugged, toMcu, toHost, board, slot, call, ret, sent, executed, credited, late,
  lc,           \* the component's lifecycle state
  op,           \* where the host stands in a callback; "idle" between callbacks
  attempt,      \* HandshakeWithRetry's counter
  stamped,      \* the rclcpp::Time members were set from the component's clock
  gainCmd,      \* the gpio commands kestrel_pid/*
  timeoutCmd,   \* the gpio command kestrel_watchdog/cmd_timeout_ms
  message,      \* the message that kestrel_tuning_controller keeps
  sentGains,    \* sent_pid_gains_
  sentTimeout,  \* sent_cmd_timeout_ms_
  starts,       \* bound: calls of on_activate so far
  edits,        \* bound: tuning messages so far
  touched,      \* history: the controller wrote since on_activate seeded the gpios
  told,         \* history: a tuning message came since the last on_deactivate
  retunes,      \* history: SET_PID_GAINS of write() since the gains' gpio changed
  inForce,      \* history: tuning commands whose last send was acknowledged with OK and
                \* that no RESET or power loss undid
  began,        \* history: the commands sent when on_activate last began
  lateBefore    \* history: some wait had been cut short by then

linkVars == <<fd, plugged, toMcu, toHost, board, slot, call, ret, sent, executed,
              credited, late>>
gpio     == <<gainCmd, timeoutCmd>>
trackers == <<sentGains, sentTimeout>>
bounds   == <<starts, edits>>
asked    == <<message, touched, told, retunes>>
start    == <<began, lateBefore>>
history  == <<asked, start, inForce>>
sysVars  == <<lc, op, attempt, stamped, gpio, trackers, bounds, history>>
vars     == <<linkVars, sysVars>>

Link == INSTANCE KestrelLink

ASSUME PayloadAssumption == Link!LinkAssumption

Init ==
  /\ Link!Init
  /\ lc = "unconfigured"
  /\ op = "idle"
  /\ attempt = 0
  /\ stamped = FALSE
  /\ gainCmd = [g \in Gain |-> Zero]
  /\ timeoutCmd = Zero
  /\ message = NoMessage
  /\ sentGains = [g \in Gain |-> Zero]
  /\ sentTimeout = Zero
  /\ starts = 0
  /\ edits = 0
  /\ touched = FALSE
  /\ told = FALSE
  /\ retunes = 0
  /\ inForce = {}
  /\ began = 0
  /\ lateBefore = FALSE

-----------------------------------------------------------------------------
(* Link calls.  A command with an ACK is sent in one step and answered in  *)
(* later ones; `call' is NoCall again when it returned, with `ret' set.    *)

Tuning == {"SET_PID_GAINS", "SET_CMD_TIMEOUT"}

At(o) == op = o /\ call = Link!NoCall

Send(id, arg, next) ==
  /\ \/ Link!Issue(id, arg)
     \/ Link!IssueFails(id)
  /\ op' = next
  /\ inForce' = IF id = "RESET" THEN {} ELSE inForce \ {id}

\* SetWheelVelocity() and SetRGBLED(): nobody looks at what they return.
Fire(id) == Link!PostFails \/ \E arg \in Payload[id] : Link!Post(id, arg)

\* What the link does while the host waits, and what the line does at any time.
WaitStep ==
  /\ \/ Link!TakeAck
     \/ Link!PollAgain
     \/ Link!GiveUp
  /\ inForce' = IF ret' # ret /\ ret'.id \in Tuning /\ ret'.status = "OK"
                THEN inForce \cup {ret'.id} ELSE inForce
  /\ UNCHANGED <<lc, op, attempt, stamped, gpio, trackers, bounds, asked, start>>

LineStep ==
  /\ Link!LineNext
  /\ inForce' = IF plugged' THEN inForce ELSE {}
  /\ UNCHANGED <<lc, op, attempt, stamped, gpio, trackers, bounds, asked, start>>

-----------------------------------------------------------------------------
(* Lifecycle callbacks.                                                    *)

\* The plugin sets the gpio commands itself; the controller keeps its message.
AskedAnew ==
  /\ touched' = FALSE
  /\ retunes' = 0
  /\ UNCHANGED message

OnConfigure ==
  /\ At("idle")
  /\ lc = "unconfigured"
  /\ lc' = "inactive"
  /\ gainCmd' = [g \in Gain |-> Zero]
  /\ timeoutCmd' = Zero
  /\ AskedAnew
  /\ UNCHANGED <<linkVars, op, attempt, stamped, trackers, bounds, told, start, inForce>>

\* on_activate begins with Connect().
OnActivate ==
  /\ At("idle")
  /\ lc = "inactive"
  /\ starts < MaxStarts /\ sent + MaxAttempts + 2 <= MaxSent
  /\ starts' = starts + 1
  /\ began' = sent /\ lateBefore' = late
  /\ \/ Link!Connect(TRUE) /\ op' = "connected" /\ attempt' = 1
     \/ Link!Connect(FALSE) /\ UNCHANGED <<op, attempt>>
  /\ UNCHANGED <<lc, stamped, gpio, trackers, edits, asked, inForce>>

Handshake ==
  /\ At("connected")
  /\ Send("HANDSHAKE", CHOOSE arg \in Payload["HANDSHAKE"] : TRUE, "handshake")
  /\ UNCHANGED <<lc, attempt, stamped, gpio, trackers, bounds, asked, start>>

\* Fault: one attempt too many.
OnceMore == attempt <= MaxAttempts

MayTryAgain == attempt < MaxAttempts

\* Another attempt, a second later.
HandshakeAgain ==
  /\ At("handshake")
  /\ ret.status # "OK"
  /\ MayTryAgain
  /\ attempt' = attempt + 1
  /\ op' = "connected"
  /\ UNCHANGED <<linkVars, lc, stamped, gpio, trackers, bounds, history>>

\* The history of the handshakes is not looked at any more.
HandshakesOver == began' = 0 /\ lateBefore' = FALSE

\* Fault: a failed handshake is not fatal, as a failed tuning command is not.
Shrugged == lc' = "active"

Failure == lc' = lc

\* FAILURE: the component stays inactive and the port stays open.
HandshakeFails ==
  /\ At("handshake")
  /\ ret.status # "OK"
  /\ attempt = MaxAttempts
  /\ attempt' = 0
  /\ op' = "idle"
  /\ Failure
  /\ HandshakesOver
  /\ UNCHANGED <<linkVars, stamped, gpio, trackers, bounds, asked, inForce>>

\* The handshake returned OK: the run's state starts over and the gains are sent.
ActivateGains ==
  /\ At("handshake")
  /\ ret.status = "OK"
  /\ Send("SET_PID_GAINS", Wire(UrdfGains), "gains")
  /\ stamped' = TRUE
  /\ attempt' = 0
  /\ HandshakesOver
  /\ UNCHANGED <<lc, gpio, trackers, bounds, asked>>

ActivateTimeout ==
  /\ At("gains")
  /\ Send("SET_CMD_TIMEOUT", Clamp[UrdfTimeout], "timeout")
  /\ UNCHANGED <<lc, attempt, stamped, gpio, trackers, bounds, asked, start>>

\* Fault: the gpio commands are not seeded.
Unseeded == UNCHANGED gpio

Seed == gainCmd' = UrdfGains /\ timeoutCmd' = UrdfTimeout

\* Fault: the trackers are taken from the gpio commands before those are seeded.
TrackGpio == sentGains' = gainCmd /\ sentTimeout' = timeoutCmd

TrackUrdf == sentGains' = UrdfGains /\ sentTimeout' = UrdfTimeout

\* Whatever the ACKs said, the trackers and the gpio commands take the URDF's values.
ActivateDone ==
  /\ At("timeout")
  /\ lc' = "active"
  /\ op' = "idle"
  /\ TrackUrdf
  /\ Seed
  /\ AskedAnew
  /\ UNCHANGED <<linkVars, attempt, stamped, bounds, told, start, inForce>>

\* on_deactivate: the gpio commands are zeroed.
OnDeactivate ==
  /\ At("idle")
  /\ lc = "active"
  /\ sent + 2 <= MaxSent
  /\ gainCmd' = [g \in Gain |-> Zero]
  /\ timeoutCmd' = Zero
  /\ AskedAnew
  /\ told' = FALSE
  /\ Fire("WHEEL_VELOCITY")
  /\ op' = "stopped"
  /\ UNCHANGED <<lc, attempt, stamped, trackers, bounds, start, inForce>>

Deactivate ==
  /\ At("stopped")
  /\ Send("DEACTIVATE", CHOOSE arg \in Payload["DEACTIVATE"] : TRUE, "deactivate")
  /\ UNCHANGED <<lc, attempt, stamped, gpio, trackers, bounds, asked, start>>

Reset ==
  /\ At("deactivate")
  /\ Send("RESET", CHOOSE arg \in Payload["RESET"] : TRUE, "reset")
  /\ UNCHANGED <<lc, attempt, stamped, gpio, trackers, bounds, asked, start>>

DeactivateDone ==
  /\ At("reset")
  /\ lc' = "inactive"
  /\ op' = "idle"
  /\ UNCHANGED <<linkVars, attempt, stamped, gpio, trackers, bounds, history>>

OnCleanup ==
  /\ At("idle")
  /\ lc = "inactive"
  /\ Link!Shutdown
  /\ lc' = "unconfigured"
  /\ UNCHANGED <<op, attempt, stamped, gpio, trackers, bounds, history>>

-----------------------------------------------------------------------------
(* read() and write(): the control loop calls them on an inactive and on   *)
(* an active component.  An ERROR return (and an exception) finalizes it,  *)
(* for on_error is not overridden.                                         *)

Cycling == lc \in {"inactive", "active"}

Finalize == lc' = "finalized" /\ op' = "idle"

CycleWithoutPort ==
  /\ At("idle")
  /\ Cycling
  /\ ~Link!IsOpen
  /\ Finalize
  /\ UNCHANGED <<linkVars, attempt, stamped, gpio, trackers, bounds, history>>

\* Before the first successful handshake the time members have the clock type of a
\* default rclcpp::Time, and subtracting them from the component's clock throws.
ReadThrows ==
  /\ At("idle")
  /\ Cycling
  /\ ~stamped
  /\ Link!Read
  /\ Finalize
  /\ UNCHANGED <<attempt, stamped, gpio, trackers, bounds, history>>

Read ==
  /\ At("idle")
  /\ Cycling
  /\ stamped
  /\ Link!Read
  /\ UNCHANGED <<lc, op, attempt, stamped, gpio, trackers, bounds, history>>

\* A gain whose command is not finite keeps the value sent last.
GainsWanted  == [g \in Gain |-> IF gainCmd[g] = NaN THEN sentGains[g] ELSE gainCmd[g]]
TimeoutWanted == IF timeoutCmd = NaN THEN sentTimeout ELSE timeoutCmd

\* The code's != on doubles: NaN differs from itself.
Differs(x, y) == x # y \/ x = NaN
GainsDiffer == \E g \in Gain : Differs(GainsWanted[g], sentGains[g])

WriteGains ==
  /\ At("idle")
  /\ Cycling
  /\ Link!IsOpen
  /\ GainsDiffer
  /\ Send("SET_PID_GAINS", Wire(GainsWanted), "writeGains")
  /\ retunes' = retunes + 1
  /\ UNCHANGED <<lc, attempt, stamped, gpio, trackers, bounds, message, touched, told, start>>

\* Fault: the tracker follows only an acknowledged command.
GainsIfAcked == IF ret.status = "OK" THEN GainsWanted ELSE sentGains

GainsSent == GainsWanted

\* The tracker follows the attempt, whatever the ACK said.
GainsWritten ==
  /\ At("writeGains")
  /\ sentGains' = GainsSent
  /\ op' = "tuneTimeout"
  /\ UNCHANGED <<linkVars, lc, attempt, stamped, gpio, sentTimeout, bounds, history>>

GainsCurrent ==
  /\ At("idle")
  /\ Cycling
  /\ Link!IsOpen
  /\ ~GainsDiffer
  /\ op' = "tuneTimeout"
  /\ UNCHANGED <<linkVars, lc, attempt, stamped, gpio, trackers, bounds, history>>

WriteTimeout ==
  /\ At("tuneTimeout")
  /\ Differs(TimeoutWanted, sentTimeout)
  /\ Send("SET_CMD_TIMEOUT", Clamp[TimeoutWanted], "writeTimeout")
  /\ UNCHANGED <<lc, attempt, stamped, gpio, trackers, bounds, asked, start>>

TimeoutWritten ==
  /\ At("writeTimeout")
  /\ sentTimeout' = TimeoutWanted
  /\ op' = "led"
  /\ UNCHANGED <<linkVars, lc, attempt, stamped, gpio, sentGains, bounds, history>>

TimeoutCurrent ==
  /\ At("tuneTimeout")
  /\ ~Differs(TimeoutWanted, sentTimeout)
  /\ op' = "led"
  /\ UNCHANGED <<linkVars, lc, attempt, stamped, gpio, trackers, bounds, history>>

\* WriteLed() and the rest of write() subtract time members too.
WriteThrows ==
  /\ At("led")
  /\ ~stamped
  /\ Finalize
  /\ UNCHANGED <<linkVars, attempt, stamped, gpio, trackers, bounds, history>>

WriteLed ==
  /\ At("led")
  /\ stamped
  /\ op' = "wheels"
  /\ Fire("RGB_LED_SET") \/ UNCHANGED linkVars
  /\ UNCHANGED <<lc, attempt, stamped, gpio, trackers, bounds, history>>

WriteWheels ==
  /\ At("wheels")
  /\ op' = "idle"
  /\ Fire("WHEEL_VELOCITY") \/ UNCHANGED linkVars
  /\ UNCHANGED <<lc, attempt, stamped, gpio, trackers, bounds, history>>

-----------------------------------------------------------------------------
(* kestrel_tuning_controller, which runs on an inactive component too.     *)

\* A tuning message comes, and takes the place of the one before.  One that comes during
\* a callback is looked at by the next update().
Tune ==
  /\ At("idle")
  /\ Cycling
  /\ edits < MaxEdits
  /\ edits' = edits + 1
  /\ message' \in Messages
  /\ told' = TRUE
  /\ UNCHANGED <<linkVars, lc, op, attempt, stamped, gpio, trackers, starts, touched, retunes,
                 start, inForce>>

Named(said, cmd) == IF said = Unnamed THEN cmd ELSE said

\* update(), between read() and write(): the message is written, and written again.  A
\* callback may come between update() and write(), and a controller that was stopped does
\* not update any more.
Update ==
  /\ At("idle")
  /\ Cycling
  /\ message # NoMessage
  /\ gainCmd' = [g \in Gain |-> Named(message.gains[g], gainCmd[g])]
  /\ timeoutCmd' = Named(message.timeout, timeoutCmd)
  /\ touched' = (lc = "active")
  /\ retunes' = IF gainCmd' = gainCmd THEN retunes ELSE 0
  /\ UNCHANGED <<linkVars, lc, op, attempt, stamped, trackers, bounds, message, told, start,
                 inForce>>

-----------------------------------------------------------------------------
Lifecycle ==
  \/ OnConfigure \/ OnActivate \/ Handshake \/ HandshakeAgain \/ HandshakeFails
  \/ ActivateGains \/ ActivateTimeout \/ ActivateDone
  \/ OnDeactivate \/ Deactivate \/ Reset \/ DeactivateDone
  \/ OnCleanup

WriteStep ==
  \/ WriteGains \/ GainsWritten \/ GainsCurrent
  \/ WriteTimeout \/ TimeoutWritten \/ TimeoutCurrent
  \/ WriteThrows \/ WriteLed \/ WriteWheels

Cycle == CycleWithoutPort \/ ReadThrows \/ Read \/ WriteStep

Next ==
  \/ Lifecycle
  \/ Cycle
  \/ WaitStep
  \/ LineStep
  \/ Tune \/ Update

Spec == Init /\ [][Next]_vars

\* The control loop keeps calling update() and write() and a callback goes on to its end;
\* the line drains, and one that carries a kind of command again and again delivers it now and then.
Delivers(id) == toMcu # << >> /\ Head(toMcu).id = id /\ LineStep /\ toMcu' = Tail(toMcu)
                /\ (id \in Link!Setting => board'[id] = Head(toMcu).arg)

HostGoesOn == WriteStep \/ WaitStep \/ (op # "idle" /\ Lifecycle)

Fairness ==
  /\ WF_vars(HostGoesOn)
  /\ WF_vars(LineStep /\ toMcu # << >> /\ toMcu' = Tail(toMcu))
  /\ SF_vars(Delivers("SET_PID_GAINS"))
  /\ SF_vars(Update)

FairSpec == Spec /\ Fairness

-----------------------------------------------------------------------------
(* Properties.                                                             *)

\* Every variable has its type; the link's have the types of KestrelLink.
TypeOK ==
  /\ Link!TypeOK
  /\ lc \in {"unconfigured", "inactive", "active", "finalized"}
  /\ op \in {"idle", "connected", "handshake", "gains", "timeout", "stopped", "deactivate",
             "reset", "writeGains", "tuneTimeout", "writeTimeout", "led", "wheels"}
  /\ attempt \in 0..MaxAttempts
  /\ stamped \in BOOLEAN
  /\ gainCmd \in Gains /\ timeoutCmd \in TimeoutCmd
  /\ sentGains \in Gains /\ sentTimeout \in TimeoutCmd
  /\ starts \in 0..MaxStarts /\ edits \in 0..MaxEdits
  /\ message \in Message
  /\ touched \in BOOLEAN /\ told \in BOOLEAN /\ retunes \in Nat /\ inForce \subseteq Tuning
  /\ began \in Nat /\ lateBefore \in BOOLEAN

\* read() and write() report a closed port as an ERROR, which ends the component for
\* good.  That can never hit an active one: no callback closes the port of an active
\* component, a lost USB device leaves it open, and the time members are set by then.
ActiveNeverFinalized == [][lc = "active" => lc' # "finalized"]_vars

\* "GpioCommandController re-writes its last message every cycle ... a bad ACK must not
\* retry at the full rate" (my_diffbot_system.cpp:590): however often the same gains are
\* written, write() sends them at most once, whatever the link answers, not-a-numbers
\* included.
OneRetunePerMessage == retunes <= 1

\* While the component is active write() tunes the board only when the controller wrote
\* since on_activate seeded the gpios: neither the zeros of on_configure and on_deactivate,
\* nor a retune that the gpios or the trackers hold from an earlier activation, count as a
\* change (my_diffbot_system.cpp:266).
NoPhantomRetune == lc = "active" /\ op \in {"writeGains", "writeTimeout"} => touched

\* "neither the configure-time zeroing nor the deactivate zeroing (or a stale runtime
\* retune) registers as a "change" on the first write()" (my_diffbot_system.cpp:266): an
\* active component tunes the board only when a message came since it was last
\* deactivated.
NoStaleRetune == lc = "active" /\ op \in {"writeGains", "writeTimeout"} => told

\* on_activate takes the board for there only when the board answered a handshake of this
\* very call: not for an ACK that the slot or the open port kept from an earlier one, on a
\* port half open or on a lost device, and whatever became of the attempts before.  An
\* answer may have been outstanding only if a wait had been cut short before the call.
AnsweredNow ==
  At("handshake") /\ ret.status = "OK" /\ ~lateBefore => ret.ack \in (began + 1)..executed

\* sent_pid_gains_ and sent_cmd_timeout_ms_ are what the board runs with, when the last
\* command was acknowledged, no wait was ever cut short and no reset or power loss came
\* between.  The change detection of write() rests on it.
TrackersMatchBoard ==
  op = "idle" /\ lc = "active" /\ ~late =>
    /\ "SET_PID_GAINS" \in inForce => board["SET_PID_GAINS"] = Wire(sentGains)
    /\ "SET_CMD_TIMEOUT" \in inForce => board["SET_CMD_TIMEOUT"] = Clamp[sentTimeout]

\* "Non-fatal on a missing ACK ... the kestrel_tuning_controller gpios can always
\* re-send" (my_diffbot_system.cpp:248): gains that the controller keeps writing reach the
\* board.
GpioCanResend ==
  \A gains \in [Gain -> GainCmd \ {NaN}] :
    <>[](lc = "active" /\ fd = "live" /\ message.gains = gains /\ gainCmd = gains)
      => <>(board["SET_PID_GAINS"] = Wire(gains))
=============================================================================
