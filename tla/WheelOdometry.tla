--------------------------- MODULE WheelOdometry ---------------------------
(***************************************************************************)
(* Wheel odometry: WHEEL_FEEDBACK frames become a snapshot in the Kestrel  *)
(* transport, and ReadWheels() turns the snapshot into joint positions and *)
(* filtered joint velocities (my_diffbot_system.cpp:438-531).              *)
(*                                                                         *)
(* One unit of time is the measuring window of the source, 40 ms.  The     *)
(* board stamps its frames with a clock of its own, which every handshake  *)
(* sets anew; its tick counters only restart with the board.  The timeout  *)
(* of the feedback compares readings of the host's clock, which may be set *)
(* while the robot runs.  Positions are in ticks and velocities in tenths  *)
(* of a tick per unit: the factor 2 pi / cpr is left out.  The firmware's  *)
(* own speed and the duty only feed introspection and are left out too.    *)
(***************************************************************************)
EXTENDS Integers, Sequences, SequencesExt

CONSTANTS
  Wheel,
  Step,        \* ticks a wheel can turn in one unit of time
  Fastest,     \* the largest of them, in magnitude
  MeasWindow,  \* kMeasWindowSec
  StaleAfter,  \* kWheelFeedbackTimeoutSec
  WindowMax,   \* the longest window that is measured over
  Jitter,      \* the control loop calls read() at least once in this time
  Anchor,      \* clock values a handshake may set
  ClockSteps,  \* what the host's clock may be set forward or, if negative, back by
  MaxStep,     \* bound: how far it is set back, in all, since frames were noted last
  MaxTime,     \* bound: units of time
  MaxFrames,   \* bound: frames sent
  MaxEvents,   \* bound: units of time and frames, together
  MaxStarts    \* bound: activations

Magnitude(n) == IF n < 0 THEN -n ELSE n

ASSUME OdometryAssumption ==
  /\ Step \subseteq Int /\ Fastest \in Nat /\ \A d \in Step : Magnitude(d) <= Fastest
  /\ MeasWindow \in Nat \ {0}
  /\ StaleAfter \in Nat /\ WindowMax \in Nat
  /\ MeasWindow <= StaleAfter /\ StaleAfter <= WindowMax
  /\ Jitter \in Nat \ {0}
  /\ Anchor \subseteq Nat /\ {MaxTime, MaxFrames, MaxEvents, MaxStarts} \subseteq Nat
  /\ ClockSteps \subseteq Int /\ MaxStep \in Nat

VARIABLES
  clock,      \* the board's clock
  encoder,    \* the board's tick counters
  wire,       \* frames the host has not parsed
  elapsed,    \* bound: units of time that have passed
  frames,     \* bound: frames that were sent
  starts,     \* bound: activations that were begun
  phase,      \* what the component is doing: see Phase
  stamped,    \* a handshake succeeded once: the time stamps of the plugin are set
  snap,       \* the transport's wheel feedback: count, ticks, stamp
  ticksInit,  \* ticks_init_
  prev,       \* left_encoder_prev_ and right_encoder_prev_
  from,       \* meas_left_prev_, meas_right_prev_ and meas_stamp_prev_
  speed,      \* meas_rad_
  lastCount,  \* last_wheel_count_
  age,        \* now() - last_wheel_count_change_, up to what is stale for good
  stale,      \* wheel_feedback_stale_
  position,   \* position state interfaces
  velocity,   \* velocity state interfaces
  sinceRead,  \* time since the last read()
  silence,    \* history: time since a frame was parsed or read() was resumed
  behind,     \* history: how far the clock was set back since last_wheel_count_change_
  travel,     \* history: ticks turned either way since on_activate() last began
  start,      \* history: positions then
  fresh       \* history: the seeding frame was sent after the handshake

board   == <<clock, encoder, travel>>
bounds  == <<elapsed, frames, starts>>
plugin  == <<ticksInit, prev, from, speed, lastCount, age, stale, behind>>
joint   == <<position, velocity>>
session == <<start, fresh>>
vars    == <<board, wire, bounds, phase, stamped, snap, plugin, joint, sinceRead, silence,
             session>>

\* "connecting" is on_activate() up to the handshake, "activating" the rest of it.
\* "running" is the time after a successful activation, "idle" after a failed one.
Phase == {"unconfigured", "configured", "connecting", "activating", "running", "idle"}

PortOpen == phase \in {"connecting", "activating", "running", "idle"}
Cycling  == phase \in {"running", "idle"}

Zeros == [w \in Wheel |-> 0]
NoFeedbackYet == [count |-> 0, ticks |-> Zeros, stamp |-> 0, new |-> FALSE]

Init ==
  /\ clock \in Anchor
  /\ encoder = Zeros
  /\ wire = << >>
  /\ elapsed = 0
  /\ frames = 0
  /\ starts = 0
  /\ phase = "unconfigured"
  /\ stamped = FALSE
  /\ snap = NoFeedbackYet
  /\ ticksInit = FALSE
  /\ prev = Zeros
  /\ from = [ticks |-> Zeros, stamp |-> 0]
  /\ speed = Zeros
  /\ lastCount = 0
  /\ age = 0
  /\ stale = FALSE
  /\ position = Zeros
  /\ velocity = Zeros
  /\ sinceRead = 0
  /\ silence = 0
  /\ behind = 0
  /\ travel = Zeros
  /\ start = Zeros
  /\ fresh = FALSE

-----------------------------------------------------------------------------
(* The board, the host's clock and time: external.                         *)

UpTo(bound, n) == IF n > bound THEN bound ELSE n

\* The time after which silence counts: a frame parsed by a wait for an ACK is noted by
\* the next read(), and the timeout by the next one after it.
LongSilence == StaleAfter + 2 * Jitter

\* An age that no clock set back makes young again.
TopAge == StaleAfter + 1 + MaxStep

\* A unit of time passes; the control loop is never later than Jitter.
Pass ==
  /\ elapsed < MaxTime /\ elapsed + frames < MaxEvents
  /\ Cycling => sinceRead < Jitter
  /\ elapsed' = elapsed + 1
  /\ clock' = clock + 1
  /\ \E turn \in [Wheel -> Step] :
       /\ encoder' = [w \in Wheel |-> encoder[w] + turn[w]]
       /\ travel' = [w \in Wheel |-> travel[w] + Magnitude(turn[w])]
  /\ age' = UpTo(TopAge, age + 1)
  /\ silence' = IF Cycling THEN UpTo(LongSilence + MaxStep + 1, silence + 1) ELSE 0
  /\ sinceRead' = IF Cycling THEN sinceRead + 1 ELSE 0
  /\ UNCHANGED <<wire, frames, starts, phase, stamped, snap, ticksInit, prev, from, speed,
                 lastCount, stale, behind, joint, session>>

\* The host's clock is set, by hand or by a time server.
ClockSet ==
  /\ \E s \in ClockSteps :
       /\ age' = UpTo(TopAge, age + s)
       /\ behind' = IF s < 0 THEN behind - s ELSE behind
  /\ behind' <= MaxStep
  /\ UNCHANGED <<board, wire, bounds, phase, stamped, snap, ticksInit, prev, from, speed,
                 lastCount, stale, joint, sinceRead, silence, session>>

\* The board sends its counters; what it sends to a closed port is lost.  A frame that
\* is lost on the line is one it did not send.
SendFrame ==
  /\ PortOpen
  /\ frames < MaxFrames /\ elapsed + frames < MaxEvents
  /\ wire' = Append(wire, [ticks |-> encoder, stamp |-> clock])
  /\ frames' = frames + 1
  /\ UNCHANGED <<board, elapsed, starts, phase, stamped, snap, plugin, joint, sinceRead,
                 silence, session>>

\* The board restarts, with the port closed: a restart takes the USB device away.
Restart ==
  /\ ~PortOpen
  /\ clock' = 0
  /\ encoder' = Zeros
  /\ UNCHANGED <<travel, wire, bounds, phase, stamped, snap, plugin, joint, sinceRead,
                 silence, session>>

-----------------------------------------------------------------------------
(* The transport.                                                          *)

\* The snapshot after the frames on the wire were parsed: the last one, and the count.
Parsed ==
  IF wire = << >> THEN snap
  ELSE [count |-> snap.count + Len(wire), ticks |-> Last(wire).ticks,
        stamp |-> Last(wire).stamp, new |-> TRUE]

\* Frames are also parsed outside read(), by every wait for an ACK.
Drain ==
  /\ PortOpen
  /\ wire # << >>
  /\ snap' = Parsed
  /\ wire' = << >>
  /\ silence' = 0
  /\ UNCHANGED <<board, bounds, phase, stamped, plugin, joint, sinceRead, session>>

-----------------------------------------------------------------------------
(* The lifecycle of the component, as far as odometry sees it.             *)

OnConfigure ==
  /\ phase = "unconfigured"
  /\ phase' = "configured"
  /\ position' = Zeros
  /\ velocity' = Zeros
  /\ UNCHANGED <<board, wire, bounds, stamped, snap, plugin, sinceRead, silence, session>>

\* on_activate() begins: Connect() opens a closed port, and leaves an open one alone.
Connect ==
  /\ phase = "configured" \/ Cycling
  /\ starts < MaxStarts
  /\ starts' = starts + 1
  /\ phase' = "connecting"
  /\ travel' = Zeros
  /\ start' = position
  /\ UNCHANGED <<clock, encoder, wire, elapsed, frames, stamped, snap, plugin, joint,
                 sinceRead, silence, fresh>>

\* The state that a successful handshake resets; prev and from keep their old values.
ResetTracking ==
  /\ lastCount' = 0
  /\ age' = 0 /\ behind' = 0
  /\ stale' = FALSE
  /\ ticksInit' = FALSE
  /\ speed' = Zeros
  /\ UNCHANGED <<prev, from>>

\* The handshake succeeds.  Frames sent before its ACK are parsed before it, and those
\* sent after it carry the new clock.
Handshake ==
  /\ phase = "connecting"
  /\ phase' = "activating"
  /\ stamped' = TRUE
  /\ clock' \in Anchor
  /\ snap' = [Parsed EXCEPT !.new = FALSE]
  /\ wire' = << >>
  /\ ResetTracking
  /\ fresh' = FALSE
  /\ UNCHANGED <<encoder, travel, bounds, joint, sinceRead, silence, start>>

\* It fails, having set the board's clock or not.  read() goes on, with the state of the
\* activation before; the first activation ends the component here (DiffbotSystem).
HandshakeFails ==
  /\ phase = "connecting"
  /\ stamped
  /\ phase' = "idle"
  /\ clock' \in Anchor \cup {clock}
  /\ snap' = [Parsed EXCEPT !.new = FALSE]
  /\ wire' = << >>
  /\ fresh' = FALSE
  /\ sinceRead' = 0
  /\ silence' = 0
  /\ UNCHANGED <<encoder, travel, bounds, stamped, plugin, joint, start>>

\* on_activate() returns; its other sends may have parsed frames (Drain) meanwhile.
ActivateDone ==
  /\ phase = "activating"
  /\ phase' = "running"
  /\ sinceRead' = 0
  /\ silence' = 0
  /\ UNCHANGED <<board, wire, bounds, stamped, snap, plugin, joint, session>>

\* Mutant of OnCleanup: frames on the line outlive the closing of the port.
CleanupUnflushed ==
  /\ Cycling
  /\ phase' = "unconfigured"
  /\ sinceRead' = 0
  /\ silence' = 0
  /\ UNCHANGED <<board, wire, bounds, stamped, snap, plugin, joint, session>>

\* Shutdown() closes the port; the frames on the line are lost.  The transport keeps its
\* snapshot, and the plugin keeps its tracking state.
OnCleanup ==
  /\ Cycling
  /\ phase' = "unconfigured"
  /\ wire' = << >>
  /\ sinceRead' = 0
  /\ silence' = 0
  /\ UNCHANGED <<board, bounds, stamped, snap, plugin, joint, session>>

-----------------------------------------------------------------------------
(* ReadWheels().  f is the snapshot that the Read() of this cycle left.     *)

Here(f) == [ticks |-> f.ticks, stamp |-> f.stamp]

NewFrame(f) == f.count # lastCount
TimedOut(f) == ~NewFrame(f) /\ age > StaleAfter

\* Staleness: frames that arrive are noted, and a silence that lasts stops the speed.
NoteFrames(f) ==
  IF NewFrame(f)
  THEN lastCount' = f.count /\ age' = 0 /\ behind' = 0 /\ stale' = FALSE
  ELSE stale' = (stale \/ TimedOut(f)) /\ UNCHANGED <<lastCount, age, behind>>

\* Mutant of SpeedKept: the last speed is reported for ever.
SpeedHeld(f) == speed

SpeedKept(f) == IF TimedOut(f) THEN Zeros ELSE speed

\* The start of the window; frames that resume after a silence begin a new one.
Base(f) == IF NewFrame(f) /\ stale THEN Here(f) ELSE from

\* The speed over the window since b, in tenths, and the filter (alpha = 0.4).
Measured(f, b) ==
  [w \in Wheel |-> (10 * (f.ticks[w] - b.ticks[w])) \div (f.stamp - b.stamp)]
Filtered(m, x) == [w \in Wheel |-> m[w] + (2 * (x[w] - m[w])) \div 5]

RestartWindow(f) ==
  LET window == f.stamp - Base(f).stamp IN
  /\ window < 0 \/ window > WindowMax
  /\ from' = Here(f)
  /\ speed' = SpeedKept(f)

WindowTooShort(f) ==
  LET window == f.stamp - Base(f).stamp IN
  /\ window \in 0..(MeasWindow - 1)
  /\ from' = Base(f)
  /\ speed' = SpeedKept(f)

\* Mutant of MeasureSpeed: the window moves its stamp on, and not its ticks.
MeasureForgetsTicks(f) ==
  LET window == f.stamp - Base(f).stamp IN
  /\ window \in MeasWindow..WindowMax
  /\ from' = [from EXCEPT !.stamp = f.stamp]
  /\ speed' = Filtered(SpeedKept(f), Measured(f, Base(f)))

MeasureSpeed(f) ==
  LET window == f.stamp - Base(f).stamp IN
  /\ window \in MeasWindow..WindowMax
  /\ from' = Here(f)
  /\ speed' = Filtered(SpeedKept(f), Measured(f, Base(f)))

NoFeedback(f) ==
  /\ f.count = 0
  /\ UNCHANGED <<plugin, joint, fresh>>

\* Mutant of SeedTicks: only the window is seeded, and the first delta is absolute.
SeedWindow(f) ==
  /\ f.count # 0
  /\ ~ticksInit
  /\ ticksInit' = TRUE
  /\ from' = Here(f)
  /\ fresh' = f.new
  /\ UNCHANGED <<lastCount, age, behind, stale, prev, speed, joint>>

\* The first snapshot after an activation, new or old, is only remembered.
SeedTicks(f) ==
  /\ f.count # 0
  /\ ~ticksInit
  /\ ticksInit' = TRUE
  /\ prev' = f.ticks
  /\ from' = Here(f)
  /\ fresh' = f.new
  /\ UNCHANGED <<lastCount, age, behind, stale, speed, joint>>

Track(f) ==
  /\ f.count # 0
  /\ ticksInit
  /\ NoteFrames(f)
  /\ RestartWindow(f) \/ WindowTooShort(f) \/ MeasureSpeed(f)
  /\ prev' = f.ticks
  /\ position' = [w \in Wheel |-> position[w] + f.ticks[w] - prev[w]]
  /\ velocity' = speed'
  /\ UNCHANGED <<ticksInit, fresh>>

Read ==
  /\ Cycling
  /\ snap' = Parsed
  /\ wire' = << >>
  /\ NoFeedback(Parsed) \/ SeedTicks(Parsed) \/ Track(Parsed)
  /\ sinceRead' = 0
  /\ silence' = IF wire = << >> THEN silence ELSE 0
  /\ UNCHANGED <<board, bounds, phase, stamped, start>>

-----------------------------------------------------------------------------
Next ==
  \/ Pass \/ ClockSet \/ SendFrame \/ Restart
  \/ Drain \/ OnConfigure \/ Connect \/ Handshake \/ HandshakeFails \/ ActivateDone
  \/ OnCleanup \/ Read

Spec == Init /\ [][Next]_vars

-----------------------------------------------------------------------------
(* Properties                                                              *)

Counts == [Wheel -> Int]

\* The variables keep their types; the counters of the feedback never go back.
TypeOK ==
  /\ clock \in Nat /\ {encoder, travel, position, velocity, speed, prev} \subseteq Counts
  /\ {start, snap.ticks, from.ticks} \subseteq Counts
  /\ phase \in Phase
  /\ {stamped, ticksInit, stale, fresh, snap.new} \subseteq BOOLEAN
  /\ lastCount \in 0..snap.count /\ behind \in 0..MaxStep /\ age \in -behind..TopAge
  /\ sinceRead \in 0..Jitter /\ silence \in 0..(LongSilence + MaxStep + 1)
  /\ wire # << >> => PortOpen

\* Odometry never claims more motion than there was: once ReadWheels() is seeded with a
\* frame that the board sent after the handshake, the positions have moved by no more than
\* the wheels turned since on_activate() began, however often the board restarted and the
\* port was closed before (ticks_init_, *_encoder_prev_).
MotionIsReal ==
  phase = "running" /\ fresh =>
    \A w \in Wheel : Magnitude(position[w] - start[w]) <= travel[w]

\* The filtered speed is one the wheels can have, once ReadWheels() is seeded with a frame
\* that carries the clock this activation's handshake set: no window spans a change of
\* clock, a restart of the board or a silence.
SpeedIsPossible ==
  fresh => \A w \in Wheel : Magnitude(speed[w]) <= 10 * Fastest

\* A robot whose feedback stopped does not report that it moves: after
\* kWheelFeedbackTimeoutSec, the cycles it takes to notice, and what the clock was set back
\* since the last frame was noted, the velocities are zero, on an inactive component and
\* after a failed activation too.
SilenceMeansZero ==
  Cycling /\ ticksInit /\ silence > LongSilence + behind => velocity = Zeros

\* "the first frame after (re)activation only seeds the previous values; using it as a
\* delta would jump the odometry" (my_diffbot_system.cpp:452-453): the positions move by no
\* more than the wheels turned since on_activate() began.  Violated: what seeds is the first
\* snapshot, which read() may take from before, and the first frame is then a delta.
NoOdometryJump ==
  phase = "running" =>
    \A w \in Wheel : Magnitude(position[w] - start[w]) <= travel[w]
=============================================================================
