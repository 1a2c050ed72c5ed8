----------------------------- MODULE LedRefresh -----------------------------
(***************************************************************************)
(* The LED: led gpio commands, ResolveLed (binary_protocol.hpp), WriteLed  *)
(* (my_diffbot_system.cpp) and SetRGBLED, in time.                         *)
(*                                                                         *)
(* The host computes the blinking, frame by frame, and RGB_LED_SET has no  *)
(* ACK: a frame that is lost is repaired by the next change or by the      *)
(* refresh.  The clock runs steadily; ImuDiagnostics sets it.  The first   *)
(* activation succeeds, the port stays plugged.                            *)
(***************************************************************************)
EXTENDS Integers, Sequences

CONSTANTS
  Setting,   \* values of the led gpio commands: mode, color, alt, period
  NaN,       \* a command that is not finite
  ColorMax,  \* the largest uint32
  ColorSpan, \* 2^24: three bytes of a color are sent
  Wrap,      \* time is counted modulo Wrap, which all blinking fits
  Period,    \* of the control loop
  WaitTime,  \* what the tuning commands of one write() may wait for their ACKs
  StartWait, \* what a lifecycle callback may wait for ACKs
  Refresh,   \* 1 s
  Latency,   \* the longest time a frame is on the line: it is gone before its refresh
  MaxBurst,  \* frames in a row that the line loses
  MaxFaults  \* bound: reboots of the board, and deactivations

AllZero == [mode |-> 0, color |-> 0, alt |-> 0, period |-> 0]

ASSUME LedAssumption ==
  /\ Setting \subseteq [mode : Int \union {NaN}, color : Int \union {NaN},
                        alt : Int \union {NaN}, period : Int \union {NaN}]
  /\ AllZero \in Setting /\ NaN \notin Int
  /\ {Wrap, Period, Refresh, ColorSpan} \subseteq Nat \ {0}
  /\ {ColorMax, WaitTime, StartWait, Latency, MaxBurst, MaxFaults} \subseteq Nat
  /\ Latency < Refresh
  /\ \A s \in Setting : s.period # NaN /\ s.period > 0 => Wrap % (2 * s.period) = 0

VARIABLES
  lc,        \* "inactive" or "active"
  pc,        \* where the host is: "idle" between cycles, or in which wait
  due,       \* how long it may stay there
  time,      \* the clock
  gpio,      \* the led gpio commands
  sentLed,   \* sent_led_
  sentAge,   \* now() - last_led_send_, up to Refresh
  wire,      \* LED frames on their way
  led,       \* what the board's LED shows
  burst,     \* bound: frames lost in a row
  faults,    \* bound: reboots and deactivations
  lossy,     \* history: the board has not got, or not kept, the last frame of the session
  since      \* history: time since the output changed or the host was busy, up to Slow + 1

host == <<lc, pc, due>>
vars == <<host, time, gpio, sentLed, sentAge, wire, led, burst, faults, lossy, since>>

-----------------------------------------------------------------------------
(* ClampCast and ResolveLed.                                               *)

ClampCast(v, lowest, highest) ==
  CASE v = NaN                           -> 0
    [] v # NaN /\ v < lowest             -> lowest
    [] v # NaN /\ v > highest            -> highest
    [] v # NaN /\ v \in lowest..highest  -> v

\* Fault: the byte above is sent too.
RgbWhole(color) == ClampCast(color, 0, ColorMax)

Rgb(color) == ClampCast(color, 0, ColorMax) % ColorSpan

Off     == [rgb |-> 0, mode |-> "off"]
Nothing == [rgb |-> 0, mode |-> "nothing"]

Solid(rgb) == [rgb |-> rgb, mode |-> "solid"]
Output     == {Off, Nothing} \union {Solid(rgb) : rgb \in 0..(ColorSpan - 1)}

Finite(v) == IF v = NaN THEN 0 ELSE v

\* The second half of a blink.
Flipped(s) ==
  s.mode # 1 /\ Finite(s.period) > 0 /\ (time \div Finite(s.period)) % 2 = 1

\* Modes: 0 off, 1 solid, 2 blink, 3 alternate; there is no output for another one.
ResolveLed(s) ==
  LET mode == Finite(s.mode) IN
  CASE mode = 0                         -> Off
    [] mode \in 1..3 /\ ~Flipped(s)    -> Solid(Rgb(s.color))
    [] mode = 2 /\ Flipped(s)           -> Solid(0)
    [] mode = 3 /\ Flipped(s)           -> Solid(Rgb(s.alt))
    [] mode \notin 0..3                 -> Nothing

-----------------------------------------------------------------------------
Gap == Period + WaitTime

\* How long the LED may be wrong when the last frame arrived, and when frames are lost.
Fast == Gap + Latency
Slow == (MaxBurst + 1) * (Refresh + Gap) + Latency

Up(n, top) == IF n < top THEN n + 1 ELSE n

Init ==
  /\ lc = "inactive" /\ pc = "handshake" /\ due = StartWait
  /\ time \in 0..(Wrap - 1)
  /\ gpio = AllZero
  /\ sentLed = Nothing /\ sentAge = 0
  /\ wire = << >>
  /\ led \in Output \ {Nothing}
  /\ burst = 0 /\ faults = 0
  /\ lossy = TRUE /\ since = 0

-----------------------------------------------------------------------------
(* write(): WriteLed, after the tuning commands with their waits.          *)

WriteTuning ==
  /\ pc = "idle" /\ due < Period
  /\ pc' = "tuning" /\ due' = WaitTime
  /\ UNCHANGED <<lc, time, gpio, sentLed, sentAge, wire, led, burst, faults, lossy, since>>

\* Fault: no refresh.
DueOnChange == ResolveLed(gpio) \notin {Nothing, sentLed}

LedDue ==
  /\ ResolveLed(gpio) # Nothing
  /\ ResolveLed(gpio) # sentLed \/ sentAge = Refresh

WriteLed ==
  /\ (pc = "idle" /\ due < Period) \/ pc = "tuning"
  /\ pc' = "idle" /\ due' = Period
  /\ IF LedDue THEN /\ sentLed' = ResolveLed(gpio) /\ sentAge' = 0
                    /\ wire' = Append(wire, [val |-> ResolveLed(gpio), age |-> 0])
               ELSE UNCHANGED <<sentLed, sentAge, wire>>
  /\ UNCHANGED <<lc, time, gpio, led, burst, faults, lossy, since>>

-----------------------------------------------------------------------------
(* Lifecycle and controllers.                                              *)

OnActivate ==
  /\ lc = "inactive" /\ pc = "idle"
  /\ pc' = "handshake" /\ due' = StartWait
  /\ since' = 0
  /\ UNCHANGED <<lc, time, gpio, sentLed, sentAge, wire, led, burst, faults, lossy>>

HandshakeFails ==
  /\ pc = "handshake" /\ sentLed # Nothing
  /\ pc' = "idle" /\ due' = Period
  /\ since' = 0
  /\ UNCHANGED <<lc, time, gpio, sentLed, sentAge, wire, led, burst, faults, lossy>>

\* Fault: what was sent in the session before is still trusted.
KeepLed == sentLed

\* sent_led_ has no value any more: the first write() sends what the gpios say.
ResetLed == Nothing

Activated ==
  /\ pc = "handshake"
  /\ lc' = "active" /\ pc' = "idle" /\ due' = Period
  /\ sentLed' = ResetLed /\ sentAge' = 0
  /\ lossy' = FALSE /\ since' = 0
  /\ UNCHANGED <<time, gpio, wire, led, burst, faults>>

\* The gpio commands are zeroed; DEACTIVATE and RESET may start the board over.
OnDeactivate ==
  /\ lc = "active" /\ pc = "idle"
  /\ faults < MaxFaults
  /\ faults' = faults + 1
  /\ gpio' = AllZero
  /\ pc' = "halting" /\ due' = StartWait
  /\ since' = 0
  /\ UNCHANGED <<lc, time, sentLed, sentAge, wire, led, burst, lossy>>

Restarted == led' \in Output \ {Nothing} /\ lossy' = TRUE

Deactivated ==
  /\ pc = "halting"
  /\ lc' = "inactive" /\ pc' = "idle" /\ due' = Period
  /\ Restarted \/ UNCHANGED <<led, lossy>>
  /\ since' = 0
  /\ UNCHANGED <<time, gpio, sentLed, sentAge, wire, burst, faults>>

ChangeLed ==
  /\ lc = "active" /\ pc = "idle"
  /\ gpio' \in Setting
  /\ since' = IF ResolveLed(gpio') = ResolveLed(gpio) THEN since ELSE 0
  /\ UNCHANGED <<host, time, sentLed, sentAge, wire, led, burst, faults, lossy>>

-----------------------------------------------------------------------------
(* The line, the board and time.                                           *)

BoardTakes ==
  /\ wire # << >>
  /\ led' = Head(wire).val
  /\ wire' = Tail(wire)
  /\ lossy' = (lossy /\ Len(wire) > 1)
  /\ burst' = 0
  /\ UNCHANGED <<host, time, gpio, sentLed, sentAge, faults, since>>

Lose ==
  /\ wire # << >> /\ burst < MaxBurst
  /\ burst' = burst + 1
  /\ wire' = Tail(wire)
  /\ lossy' = (lossy \/ Len(wire) = 1)
  /\ UNCHANGED <<host, time, gpio, sentLed, sentAge, led, faults, since>>

Reboot ==
  /\ faults < MaxFaults
  /\ faults' = faults + 1
  /\ Restarted
  /\ since' = 0
  /\ UNCHANGED <<host, time, gpio, sentLed, sentAge, wire, burst>>

Tick ==
  /\ due > 0
  /\ \A i \in DOMAIN wire : wire[i].age < Latency
  /\ due' = due - 1
  /\ time' = (time + 1) % Wrap
  /\ UNCHANGED <<lc, pc, gpio, sentLed, led, burst, faults, lossy>>
  /\ sentAge' = Up(sentAge, Refresh)
  /\ wire' = [i \in DOMAIN wire |-> [wire[i] EXCEPT !.age = @ + 1]]
  /\ since' = IF pc \in {"idle", "tuning"} /\ ResolveLed(gpio)' = ResolveLed(gpio)
              THEN Up(since, Slow + 1) ELSE 0

Next ==
  \/ WriteTuning \/ WriteLed
  \/ OnActivate \/ HandshakeFails \/ Activated \/ OnDeactivate \/ Deactivated
  \/ ChangeLed
  \/ BoardTakes \/ Lose \/ Reboot
  \/ Tick

Spec == Init /\ [][Next]_vars

-----------------------------------------------------------------------------
(* Properties.                                                             *)

\* Every variable has its type.
TypeOK ==
  /\ lc \in {"inactive", "active"} /\ pc \in {"idle", "tuning", "handshake", "halting"}
  /\ due \in Nat /\ time \in 0..(Wrap - 1)
  /\ gpio \in Setting
  /\ sentLed \in Output /\ sentAge \in 0..Refresh
  /\ wire \in Seq([val : Output \ {Nothing}, age : 0..Latency])
  /\ led \in Output \ {Nothing}
  /\ burst \in 0..MaxBurst /\ faults \in 0..MaxFaults
  /\ lossy \in BOOLEAN /\ since \in 0..(Slow + 1)

Shown == led = ResolveLed(gpio) \/ ResolveLed(gpio) = Nothing

\* Each change of a setting, each flip of a blinking LED and each activation shows within
\* one cycle, unless its frame is lost: also after the board started over behind the
\* host's back, for sent_led_ is forgotten then (my_diffbot_system.cpp:246).
ChangesShow == since > Fast /\ ~lossy => Shown

\* "a dropped frame is only repaired by the 1 Hz refresh" (my_diffbot_system.cpp:654), and
\* so is a reboot: whatever is lost, a steady output shows in time.
LossHeals == since > Slow => Shown
=============================================================================
