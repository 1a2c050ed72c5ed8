# Verification of my_diffbot

TLA+ models of the core of `my_diffbot`, a ROS 2 differential-drive robot: the `ros2_control`
hardware plugin, the serial transport under it, the Kestrel board it talks to, and the safety layer
of the bench runner that drives the robot in tests. TLC checks the models on small instances, and
TLAPS proves the most important results for every value of the constants. Paths below are relative
to the repository; `hw/` stands for `my_diffbot_hardware_interface/`.

1. [The system](#1-the-system)
2. [The modules and the code](#2-the-modules-and-the-code)
3. [What is abstracted](#3-what-is-abstracted)
4. [Runs, properties, bounds](#4-runs-properties-bounds)
5. [Fairness](#5-fairness)
6. [What is proved](#6-what-is-proved)
7. [Where the code and its comments disagree](#7-where-the-code-and-its-comments-disagree)
8. [What is not modelled](#8-what-is-not-modelled)
9. [Plan](#9-plan)

To repeat everything: `tlc -config X.cfg M` for each run of the table in section 4, and `tlapm M.tla`
for `KestrelLinkProofs`, `RxFramingProofs`, `DiffbotSystemProofs`, `DriveLoopProofs`,
`LedRefreshProofs`, `WheelOdometryProofs`, `ImuDiagnosticsProofs` and `BenchSafetyProofs`.

## 1. The system

```
 controllers (diff_drive, gpio, imu broadcaster)      external, ros2_control
        |  command and state interfaces
 My_diffbotSystemHardware      hw/src/my_diffbot_system.cpp      lifecycle, read(), write()
        |  calls
 Kestrel                       hw/src/kestrel_transport.cpp      commands, telemetry snapshots
        |  inherits
 SerialTransport               hw/src/serial_transport.cpp       port, pending ACK, RX buffer
        |  calls
 binary_protocol               hw/src/binary_protocol.cpp        BuildFrame, ExtractFrame(s), CRC
        |  bytes over USB CDC
 Kestrel board (ESP32-S3)      external                          executes, acknowledges, measures
```

`scripts/bench/bench.py` drives the robot from above: it publishes velocity commands to the base
controller and watches scan, odometry and joint states.

| Component | State it keeps | Operations | What makes it correct |
|---|---|---|---|
| Serial link and ACKs | file descriptor; one pending ACK and its flag | `Connect`, `Shutdown`, `Reset`, `WriteCommand`, `Read`, `WaitForAck`, the `Kestrel` commands | an ACK answers the command that reports it, and no two; ACKs stay in order |
| Framing | RX buffer | `BuildFrame`, `Read` (batches, chunks), `ExtractFrames`, `ExtractFrame` | whole frames arrive once and in order whatever happens to others; the buffer never overflows |
| Hardware plugin: lifecycle and tuning | lifecycle state; tuning gpio commands; `sent_pid_gains_`, `sent_cmd_timeout_ms_` | `on_configure` … `on_cleanup`, `read`, `write` | an active component stays up; the board runs with what the trackers say; a message retunes once, and nothing retunes that the controller did not write; a handshake is answered in its own activation |
| Wheel commands | joint commands; `last_active_time_` | `write`, `SetWheelVelocity`; the board's command timeout | the motors follow in time although tuning blocks the loop; nothing is followed for long that nobody asks for |
| Wheel feedback and odometry | snapshot (count, ticks, stamp); seeds, measuring window, filtered speed, staleness | `OnMessageReceived`, `ReadWheels` | positions never claim more motion than there was; speeds are possible; silence means zero, by the host's clock |
| LED resolution and refresh | led gpio commands; `sent_led_`, `last_led_send_` | `ResolveLed`, `WriteLed` | changes show at once unless lost; what is lost heals within a few refreshes |
| IMU feedback, diagnostics | snapshots, frame count seen last, two times | `OnMessageReceived`, `ReadImu`, the 1 Hz diagnostics | a dead IMU is told in time, a live one is not called stale |
| Plugin parameters | URDF values | `on_init` | values in range |
| Bench runner (`scripts/bench/bench.py`) | `cmd`, `abort`, the tick's copy of the command | safety timer, `set`, `stop`, signals, the finally block | an abort is final; what is published was judged; the robot comes to rest |
| WiFi watchdog, launch files, URDF, EKF configuration, containers, bench analysis | — | declarative, or offline | — |

How they interact. `ros2_control` calls the lifecycle callbacks and, at 100 Hz, `read()` and
`write()`, never two at once: the host side is one thread. All concurrency is between that thread,
the board, the USB line, the controllers that write command interfaces between cycles, and time. The
bench runner has two threads, signals, and a base controller with a timeout of its own. The hard
behaviours are therefore:

- *ACKs without identity.* An ACK names the `MSG_ID` it answers, not the command. The slot for it
  holds one, `WaitForAck` polls for at most 20 ms in `write()` and 3 s elsewhere
  (`serial_transport.hpp:101`), `HandshakeWithRetry` tries ten times, a second apart, and the loop's
  own `read()` parses ACKs too.
- *Failure everywhere.* The port may not open, open halfway, or lose its device while it stays
  open; frames may be lost or damaged; commands refused; answers late.
- *Trackers.* `write()` decides by comparing with what it believes it sent.
- *Blocking in the loop.* Each tuning command holds `write()` for up to 20 ms before the wheel
  commands go out, and the board stops the wheels when these come too late.
- *Time that jumps.* Every timeout of the plugin but the one of `WaitForAck` is a difference of two
  readings of `get_clock()->now()`, a clock that may be set while the robot runs: the diagnostics
  (`my_diffbot_system.cpp:351`, 404 and 410), the timeout of the wheel feedback (466 and 474), the
  stop grace (570 to 572) and the LED refresh (655). `ImuDiagnostics` and `WheelOdometry` have a
  clock that is set; `DriveLoop` and `LedRefresh` take it as steady (section 3).
- *A controller that repeats itself.* The gpio controller writes its last message again in every cycle
  (`my_diffbot_system.cpp:590`), also over what the plugin wrote into the gpios itself.
- *Two clocks and two lifetimes.* The board's clock is set by each handshake, its counters restart
  with it, the transport's snapshots outlive sessions, the plugin's tracking state is reset by a
  successful handshake only.
- *`read()` and `write()` on an inactive component.* The framework runs them there too, so what
  `on_configure`, a failed `on_activate` and `on_deactivate` leave behind is read by the next
  cycle.
- *Shared variables without a lock.* The bench runner's test and its safety timer both read and write
  `cmd` and `abort`; a signal handler interrupts the one, a failing write to disk kills the other.

`PROJECT.json` lists these hazards one by one, each at its line, with the properties that cover it.

## 2. The modules and the code

| Module | Models | Composes |
|---|---|---|
| `KestrelLink` | the port, the pending-ACK slot, commands with and without an ACK, the two directions of the line, the board's settings | — |
| `RxFraming` | frames to bytes, damage, batches, chunks, extraction | — |
| `DiffbotSystem` | the plugin: lifecycle callbacks, `read()`, `write()` call by call, tuning messages | `Link == INSTANCE KestrelLink`; every link call is an action of that module, by construction |
| `DriveLoop` | wheel commands in time: `write()` with its waits, the stop grace, the line, the board's command timeout | `Switch == INSTANCE DeadMan WITH …` |
| `DeadMan` | the abstract specification of the drive: a dead man's switch | — |
| `WheelOdometry` | `WHEEL_FEEDBACK` frames to positions and velocities, with the board's clock and counters | — |
| `ImuDiagnostics` | `IMU_DATA` and `HEARTBEAT` frames to the published status, in time | — |
| `LedRefresh` | led commands to what the LED shows: `ResolveLed`, `WriteLed`, refresh, loss, in time | — |
| `BenchSafety` | the bench runner: test, safety timer, signals, death of either | — |
| `…Proofs` | the theorems | extend the module and `TLAPS`; `DiffbotSystemProofs` also has `LinkThms == INSTANCE KestrelLinkProofs` |
| `MC…` | values that a `.cfg` cannot write | extend the module |

**KestrelLink.** `fd` is `serial_dev_`: closed, live, or dead (open on a device that is gone).
`slot` is `ack_received_` with the pending ACK; `call` is the command that `WaitForAck` is in the
middle of, `ret` what the last one returned. `ConnectOpens`, `ConnectThrows`, `ConnectHalfway` and
`ConnectAlreadyOpen` are the ways out of `Connect()`; `Shutdown` closes, and as in the code leaves
the pending ACK where it is. A command with an ACK is `Issue` (written) or `IssueFails` (a closed
port or a driver that throws), then any number of `PollAgain`, then `TakeAck` or `GiveUp`: one
iteration of the loop in `WaitForAck` each, with the `Read()` it makes (`SlotAfterRead`). `Post`
and `PostFails` are the commands without one. `sent`, `executed`, `credited` and `late` number the
commands for the properties, and no guard that models code reads them.

**DiffbotSystem.** `lc` is the lifecycle state and `op` the point inside a callback at which the
host stands: each step up to the next link call is one action, named for what it does (`Handshake`,
`HandshakeAgain`, `HandshakeFails`, `ActivateGains`, `ActivateTimeout`, `ActivateDone`;
`OnDeactivate`, `Deactivate`, `Reset`, `DeactivateDone`; `WriteGains`, `GainsWritten`,
`GainsCurrent`, `WriteTimeout`, `TimeoutWritten`, `TimeoutCurrent`, `WriteLed`, `WriteWheels`).
`At(o)` says that the link call made there has returned. `GainsWanted` and `TimeoutWanted` are the
finiteness filter of `write()`, `Differs` is `!=` on doubles. What is said to the LED and the wheels
is a frame or none here; `LedRefresh` and `DriveLoop` say which and when. `Tune` and `Update` are
`kestrel_tuning_controller` (external): a message comes and takes the place of the one before, and
`update()` writes the message into the gpios, again and again, on an inactive component too.
`message` is never forgotten: nothing in the repository stops the controller when the component is
deactivated or cleaned up. `touched` (the controller wrote since `on_activate` seeded the gpios),
`told` (a message came since the last `on_deactivate`), `retunes` (gains sent since the gpios
changed), `inForce`, `began` and `lateBefore` are history. An ERROR return, and an exception, ends
in `finalized`, because `on_error` is not overridden: `CycleWithoutPort` for a closed port,
`ReadThrows` and `WriteThrows` for the subtraction of an `rclcpp::Time` member that no handshake has
set yet (its clock type differs from the component's clock).

**DriveLoop.** `due` is how long the host may stay where it is: asleep until the next cycle, or in a
wait. `WriteTuning` is a pending tuning command with its wait, gains first; `WriteWheels` sends the
wheel commands as long as one is not zero and for `Grace` after (`idle` is the time since
`last_active_time_`). The joint commands are doubles that `ToMrps` rounds towards zero: a command too
small for the wire is sent as zeros and still counts as active. `OnActivate` copies the joint states
into the joint commands and `OnDeactivate` leaves them, as in the code. The board takes frames in
order, stops when its command timeout passes, and may reboot. `held` is history: how long ago each
velocity was last commanded.

**DeadMan.** What the drive promises whatever fails: motors only take up a velocity that was asked
for at most `Delay` ago, and drop it at the latest `Limit` after it was last asked for.

**WheelOdometry.** `clock` and `encoder` are the board's, `wire` the frames on the line, `snap` the
transport's snapshot with its count. `Read` is one `read()`: `NoFeedback` (no frame ever came),
`SeedTicks` (the first snapshot after an activation), `Track` (everything else), which is
`NoteFrames` (count, age, staleness) together with one of `RestartWindow`, `WindowTooShort` and
`MeasureSpeed`. `Handshake` sets the clock and resets what `on_activate` resets (`ResetTracking`);
`HandshakeFails` sets perhaps the clock and resets nothing; `Restart` is a reboot of the board
while the port is closed; `Drain` is the parsing that every wait for an ACK does. `age` is what the
code compares with the timeout, `now() - last_wheel_count_change_`; `ClockSet` (external) sets the
host's clock and so the age, and `behind` is how far it was set back since frames were noted last.
`silence` is true time, and only properties read it.

**ImuDiagnostics.** `rx` are the frames nobody parsed yet; `Poll` is the parsing inside a wait,
`Read` one `read()`: it parses, compares the frame count (`unseen` says that it differs), and
publishes when a second has passed. `changeAge` and `diagAge` are what the code computes, differences
of two readings of the system clock, which `ClockSet` moves either way; `sinceImu` and `quiet` are
true times, and only properties read them. The lifecycle callbacks are there for their waits, during
which nothing is published, and for the frame count that `ResetTimes` forgets. `stamped` says that a
handshake succeeded once: before that an activation that fails finalizes the component, which is in
`DiffbotSystem`.

**LedRefresh.** `ResolveLed` with `ClampCast` and the 24 bits of a color that are sent; `WriteLed`
sends on a change or when a second has passed (`LedDue`). Blink phases come from `time`, counted
modulo a span that all periods divide. `lossy` says that the board has not got, or not kept, the last
frame of the session, and `since` how long the output has been the same with the host not busy.

**RxFraming.** `line` holds the bytes that arrived, `raw` the batch `Read()` took, `buf` the
`rx_buffer_`. `FeedChunk` appends at most `kChunkBytes` and starts the loop of `ExtractFrames`,
whose iterations are `Deliver` (OK), `CrcMismatch` (drop one byte, scan on) and `AwaitBytes`
(INCOMPLETE, NO_START_BYTE or OVERFLOW: the loop ends). `Send` builds a frame and puts it on the
line whole, with one byte altered, or with a run of bytes missing. The CRC is ideal: a byte of it
knows the values it was computed from (`Origin`), and matches nothing else (`CrcIsIdeal`); its value
is free, so it can pass for a start byte, an identifier or a length.

**BenchSafety.** `main` is where the main thread stands: in a test, between the check and the
assignment of `set()`, in the finally block, gone. `tick` is where the safety timer stands: read the
command, judge, look at the abort again, publish. `unsafe` is the set of commands that the tick would
trip for; it changes between ticks. `Signal` trips and raises out of whatever the main thread is in,
`TickRaises` is `power_dropout()` failing to write its file, `Killed` is the end of the process at any
point, `BaseTimesOut` is the base controller's `cmd_vel_timeout`.

The `map` of `PROJECT.json` gives for each definition the lines it translates.

## 3. What is abstracted

- *Host.* One thread: the framework excludes callbacks from each other. Steps inside a callback are
  separate because the line and the board move between them.
- *Board.* External, modelled from what the host's code expects: it takes frames in order, executes
  or refuses each (`COMMAND_FAILED` stands for every refusal, which the host treats alike),
  acknowledges, may lose the ACK, stops the wheels by its own timeout, may keep or lose its settings
  on RESET. It does not invent or repeat ACKs. Its command timeout is taken to be at least one tick;
  what 0 means to it the repository does not say.
- *Values.* Gains and timeouts are model values; `Clamp` is what `ClampCast` makes of each. Wheel
  commands are small integers, so that rounding to the wire is real; led commands are the numbers the
  resolution tells apart.
- *Time.* In `KestrelLink` and `DiffbotSystem` deadlines may pass at any moment (`GiveUp`): every
  timing is a behaviour. In `DriveLoop`, `LedRefresh` and `ImuDiagnostics` time is explicit: a step
  that waits ends at its deadline or before, and time does not pass a deadline. In `WheelOdometry`
  the unit is the 40 ms measuring window. The host's clock is true time set by any steps in
  `ImuDiagnostics` and `WheelOdometry`. `LedRefresh` takes it as steady for the refresh (655), and
  `DriveLoop` for the second after a stop: the stop grace (570 to 572) is true time there. A clock
  that is set forward within that second ends the grace early, perhaps before a zero arrived, and
  leaves the stop to the board's timeout; `KeepsPromise` does not rest on the grace. What a wait for
  an ACK is answered is left to `KestrelLink`: the timed modules know only how long it may take.
- *Composition.* `DiffbotSystem` runs over `KestrelLink`. The timed modules each contain the part of
  `write()` or `read()` they are about, with the waits of the rest; composing them all with the link
  would multiply state spaces without a new interaction, since LED, wheels and IMU share nothing but
  the time that the tuning commands take.
- *Tuning controller.* Its update is a step of its own between two callbacks, as often as it likes:
  more behaviours than the one update per cycle of the code. A message names some of the commands, and
  `Unnamed` is what it says of the others.
- *Odometry.* Positions are in ticks and speeds in tenths of a tick per unit, rounded down; the
  factor 2 pi / cpr is left out. `Jitter` is the longest time between two `read()`s. A handshake's
  change of the clock happens when its ACK is credited or, with a handshake that failed, perhaps.
- *CRC.* Ideal: bytes match only the body they were computed from. Its bytes have ordinary values,
  so a CRC can look like a start byte or a length. That CRC-16 misses some damage is arithmetic and
  outside the model.
- *LibSerial.* External: `Open` may throw, later calls may throw, a write blocks while the driver has
  no room, and on a lost device everything throws while `IsOpen()` stays true.
- *Bench.* What a test does and measures is a choice of commands; what a tick judges by is a choice of
  the commands it would trip for. Python switches threads between any two bytecodes: a step of the
  model is the code between two uses of a shared variable. One exception: `trip()` is one step, and in
  the code two writes (`bench.py:437` and 438), the abort and then the command. It takes nothing away:
  who reads the old command between the two finds the abort when it looks again (`tick()` at 416,
  `check()` at 450), and a command that `set()` writes between them is overwritten by the zero.

## 4. Runs, properties, bounds

| Run | Module, config | Checks | Result |
|---|---|---|---|
| `link` | `MCKestrelLink`, `link.cfg` | `TypeOK`, `AckOrder`, `OnlyThisCall`, `PunctualAck`, `AckCreditedOnce` | hold |
| `link_late` | `MCKestrelLink`, `link_late.cfg` | `AckAnswersThisCommand` | violated |
| `tuning` | `MCDiffbotSystem`, `tuning.cfg` | `TypeOK`, `OneRetunePerMessage`, `NoPhantomRetune`, `TrackersMatchBoard`, `AnsweredNow`, `ActiveNeverFinalized` | hold |
| `stale` | `MCDiffbotSystem`, `stale.cfg` | `NoStaleRetune` | violated |
| `resend` | `MCDiffbotSystem`, `resend.cfg` | `GpioCanResend` | violated, under `FairSpec` |
| `drive` | `MCDriveLoop`, `drive.cfg` | `TypeOK`, `Follows`, `KeepsPromise` | hold |
| `led` | `MCLedRefresh`, `led.cfg` | `TypeOK`, `ChangesShow`, `LossHeals` | hold |
| `imu` | `MCImuDiagnostics`, `imu.cfg` | `TypeOK`, `SilenceIsTold`, `AliveIsTrue`, `StaleIsTrue` | hold |
| `odometry` | `MCWheelOdometry`, `odometry.cfg` | `TypeOK`, `MotionIsReal`, `SpeedIsPossible`, `SilenceMeansZero` | hold |
| `jump` | `MCWheelOdometry`, `jump.cfg` | `NoOdometryJump` | violated |
| `framing` | `MCRxFraming`, `framing.cfg` | `NoOverflow`, `BacklogBounded`, `WholeFramesKept`, `DeliveredInOrder` | hold |
| `bench` | `MCBenchSafety`, `bench.cfg` | `TypeOK`, `AbortIsFinal`, `AbortEndsTest`, `JudgedAsSent`, `RobotRests` | hold |

What each shows, and why its bounds are enough:

- **link.** The chain `credited <= slot < toHost <= executed < toMcu <= sent` holds through losses,
  refusals, unplugging, re-opening and waits cut short. While no wait was cut short (`late` is
  false) everything on the line belongs to the pending call, so an ACK is the answer to the command
  that returns it. Three commands and two frames on the line are enough for two ACKs in the slot's
  way and a third command after them.
- **tuning.** Two activations with two handshake attempts each, with clean-up, re-configuration,
  half-open ports and dead descriptors between them; one tuning message, which names gains and
  timeout or is a gain that is not a number, written again any number of times, in an active or an
  inactive component, before and after each activation. One gain, three commands (zero, one,
  not-a-number): the code treats gains one by one and compares values for equality only; the gains of
  the URDF differ from zero, so that every zeroing is a change. A timeout that is not a number, and
  messages that name some gains only, are in the proofs and not in the run; no LED frames are sent
  (`LedRefresh` has them). `MaxSent = 6` acknowledged commands are an activation (3), and two retunes
  or a deactivation, and one more; what is said to a lost device does not count, so the second
  activation of the run follows a first one that failed, or whose device was lost on the way, in which
  case trackers and gpios have changed all the same. Two full activations with a retune and a
  deactivation between them need 9 or more and more time than a run should take: the proofs have
  no bound, and `stale` goes that far.
  `NoPhantomRetune`: an active component tunes the board only when the controller wrote since the
  activation, so neither the zeros of `on_configure` and `on_deactivate` nor what gpios and trackers
  hold of an older retune is sent. `OneRetunePerMessage`: however often the gains are written again,
  they are sent once. `AnsweredNow`: `on_activate` goes on only with the answer of the board to a
  handshake of this activation, on whatever port, if no wait had been cut short before it; with that,
  `ActiveNeverFinalized` says that none of these failures finalizes an active component.
- **stale.** The same with one handshake attempt and 12 commands: a message, a deactivation, and an
  activation after which the message is written once more.
- **drive.** Two wheels; standing, a velocity between two steps of the wire, and one too small for
  the wire, which counts as driving and is sent as zeros; one lost frame in a row without a fault
  and one fault on top (a longer loss, a reboot, a deactivation), a command timeout longer than
  `Lag` and one shorter. `Follows`: while nothing fails and the board's timeout is longer than
  `Lag = (MaxBurst + 1) * (Period + 2 * AckWait) + Latency`, the motors run what was commanded at most
  `Lag` ago, stops included (with a clock that is steady for the second after one), so driving is
  not cut off while tuning blocks the loop. A stop needs the grace to be longer than `Lag`: here 8
  ticks against 7. It also needs the waits of `on_activate` to leave `Lag` of the grace that begins
  before them (`tardy` is false; `StartWait = 1` gives both cases); otherwise all that stops the
  wheels is the board's timeout. With the code's numbers (100 Hz, two waits of 20 ms: a gap of 50
  ms; 250 ms by default on the board, 1 s of grace) the premise holds for up to three frames lost in
  a row, and fails with four. `KeepsPromise` is the refinement of `DeadMan`, and needs nothing of
  the line or the host.
- **led.** Off, a blink, an alternation with commands that clamp, a mode that does not exist; two bits
  of color of which one is sent; a refresh of three ticks, one lost frame in a row, one reboot or
  deactivation. `Wrap` fits every blink period, so all phases occur. `ChangesShow`: without loss, the
  LED shows the output one cycle and the latency after it changed, and after each activation.
  `LossHeals`: with it, after `MaxBurst + 1` refreshes; a reboot is a loss too.
- **imu.** Activations, deactivations, clean-up, failed handshakes; one frame between two looks
  (the proofs have no such bound); the clock is set back once and
  forward once, by half of the diagnostics' period. `AliveIsTrue`: what is not called stale is at most
  half a second, one cycle and what the clock was set back old, measured from the last frame or the
  last callback, because the forgotten count makes the first `read()` take an old frame for a new one.
  `StaleIsTrue` is the other direction, `SilenceIsTold` the deadline for a dead IMU.
- **odometry.** One wheel, that turns back by one tick a unit, two activations, three
  frames, six units of time, of these two eight together, a window of one unit, staleness after one, the longest window two; the
  host's clock is set back by one unit after the last noted frame. One wheel is enough because the
  wheels do not influence each other; turning back is the direction in which rounding down makes the
  speed largest in magnitude. Clock values 3 and the reboot's 0 give windows that span a change of the
  board's clock in both directions. A wheel that stands or turns forward, and a host clock that is set
  forward, are in the proofs only (a run with them takes too long). Six units and two
  frames are what it takes to measure a speed, set the clock back, and wait for the timeout, two
  cycles and what the clock lost; three frames and five units are a seed, a window and a window after
  it.
  `SilenceMeansZero` carries `+ behind`: set back, the clock keeps the last speed alive for longer by
  just as much, and set forward it only ends it earlier.
- **framing.** Three messages with payloads of 0 and 1 bytes, byte values 0 to 2 with 2 the start
  byte, chunks of 3, a buffer of 9, two damaged frames. The relation that matters,
  `4 + MaxLen + Chunk <= Cap`, is tight here (4 + 2 + 3 = 9) and has slack in the code
  (4 + 255 + 256 <= 1024). The damage is any change of one byte or any missing run of bytes; a false
  start byte or a damaged length then makes the parser hold or reject bytes of the frames behind it.
- **bench.** Two motions and rest, which is what `unsafe` needs to differ for the command in hand and
  the one just set. An abort stops all but at most one motion command that was past its last look
  (`AbortIsFinal`), ends the test after at most the command that `set()` had in hand
  (`AbortEndsTest`); no command is published that its own tick would have tripped for
  (`JudgedAsSent`); and in the end the process is gone and the robot stands (`RobotRests`), although a
  test may have no deadline, the timer may die and the finally block may be left by a second signal.

Bounds appear as constants: `MaxSent`, `MaxQueue`, `MaxStarts`, `MaxEdits`, `MaxTime`, `MaxFrames`, `MaxEvents`,
`MaxDamage`, `MaxFaults`, `MaxBurst`, `MaxRx`, `MaxStep`, `Messages`. In `DiffbotSystem`,
`OnActivate` and `OnDeactivate` start only if the commands they always send still fit under
`MaxSent`, so no callback is stuck halfway; `write()` may reach the bound, after which the system
stops, hence `CHECK_DEADLOCK FALSE` there. The odometry stops at its bounds too, and the bench
runner ends. `drive`, `led` and `imu` never stop: that they have no deadlock shows that no deadline
of theirs is missed. `OneRetunePerMessage` counts sends up to the bound; the proof has none.

## 5. Fairness

`BenchSafety!Spec` (for `RobotRests`):

- `WF(MainStep)`, `WF(TickStep)`: the operating system runs both threads. The steps a test chooses
  (which command, when it is done) are not among them: a test may go on for ever.
- `WF(TimeoutSignal)`: `run.sh:16` runs the program under `timeout`, which signals in the end.
- `WF(BaseTimesOut)`: the base controller's `cmd_vel_timeout` of 0.5 s (`base_controllers.yaml:47`)
  runs in another process.

`DiffbotSystem!FairSpec` (for `GpioCanResend`, which is violated all the same):

- `WF(HostGoesOn)`: a callback that began goes on, a wait for an ACK polls or ends by its deadline,
  and the control loop calls `write()` again and again. That is the framework's 100 Hz loop and the
  deadline of `WaitForAck`.
- `WF` of the line losing or delivering its head: the board reads its USB buffer.
- `SF(Update)`: the controller updates in every cycle that finds the host between two callbacks.
- `SF(Delivers("SET_PID_GAINS"))`: a line that carries the gains again and again delivers them now and
  then. A line that loses every frame for ever has no liveness to offer.

Nothing is assumed of the user, of the ACKs or of USB. What must happen in time in the drive, the LED
and the IMU is an invariant of a model with a clock, and needs no fairness.

## 6. What is proved

Constants are arbitrary, subject to the named assumptions of the modules, which the runs evaluate.

**KestrelLinkProofs** (every payload, setting and bound):

- `LinkTypeOK`. Type correctness is inductive as it stands; one lemma for the host's steps, one for
  the line's.
- `LinkAckOrder`. With type correctness, the chain of section 4 is inductive: `ToMcuInOrder`,
  `ToHostInOrder`, `SlotInOrder`, `executed <= sent` and `CallIsLast` need each other. What keeps
  the slot below `toHost` is that `Read()` takes all ACKs and keeps the last
  (`SlotAfterReadOrder`); what keeps `credited` below a received slot is that `TakeAck` clears the
  flag.
- `LinkAckCreditedOnce`, an action property: only `TakeAck` returns an ACK, and by the chain it is
  newer than the one credited before.
- `LinkOnlyThisCall`. Inductive on top of `AckOrder`. When a call returns by `TakeAck` its ACK
  carries its number, so the board has executed it, so `executed = sent` and nothing is outstanding;
  when it returns by `GiveUp`, `late` is set.
- `LinkPunctualAck`. From `OnlyThisCall`: the ACK taken has the number of the call. `PunctualAck`
  alone is not inductive, for it says nothing of what is on its way.

**RxFramingProofs** (every byte alphabet, chunk, buffer and message set with
`4 + MaxLen + Chunk <= Cap`, payloads that fit a frame, every batch and amount of damage):

- `FramingInvariant`: `TypeOK /\ NoOverflow /\ BacklogBounded` is inductive. Extraction only removes
  bytes (`ScanRemoves`, `ExtractionRemoves`); when it stops, what is left is less than a frame of the
  largest size (`IncompleteIsShort`); so the next chunk fits. `NoOverflow` alone is not inductive.
- `FramingTypeOK`, `FramingNoOverflow`, `FramingBacklogBounded` follow. With the code's constants:
  the overflow guard of `ExtractFrame` is unreachable through `Read()`, and no ACK is ever thrown
  away with the buffer.
- `FramingWholeFramesKept`. Besides the assumptions above it needs `CrcIsIdeal`: no CRC matches by
  chance, which includes that no payload holds a frame with its CRC (such a payload could swallow a
  whole frame, if the line loses the right bytes around it; the CRC of the code has 16 bits, so what
  is proved holds as far as those do). The stream `Ahead` loses bytes at its front only, and each way
  of losing them spares a whole frame: what is scanned over has no start byte (`ScanKeeps`); a
  candidate that does not match is not a whole frame (`HeadFrame`), and costs one byte; one that
  matches cannot end inside a whole frame or hold it (`NoCut`), because its last two bytes are of one
  CRC, and those are neighbours in one frame only.
- `FramingDeliveredInOrder`. The bytes of CRCs in the stream come in the order in which their
  messages were sent (`InLine`) and after all that was handed on (`Later`), and at most two of them
  belong to one message; a match uses both up, so the next match is of a later message.

**DiffbotSystemProofs** (every set of gains and commands, every bound):

- Each step of the plugin is a step of `KestrelLink` or leaves the link alone, which the definitions
  say themselves, and what is proved of the link holds of the plugin: `SystemPunctualAck`,
  `SystemAckCreditedOnce`. Since the proofs instantiate the link a second time, through
  `KestrelLinkProofs`, lemmas `Same…` identify the two instances operator by operator.
- `IInv == TuningTypeOK /\ Standing /\ Seeded /\ Retuned`. `Standing`: the port of an active
  component is open and the time members are set, hence `SystemActiveNeverFinalized`. `Seeded`:
  while the controller has not written since the activation, gpio commands and trackers of an active
  component are the URDF's, hence `SystemNoPhantomRetune`, whatever message the controller keeps.
  `Retuned`: once a retune was sent, and it has returned, nothing differs until the gains' gpios
  change, hence `SystemOneRetunePerMessage`, although the message is written again. None of the
  three properties is inductive without these.
- `SystemAnsweredNow`, by the invariant `Fresh`: while a handshake goes on of an activation before
  which no wait was cut short, every acknowledged command on the line and every ACK on the line or in
  the slot is numbered above what had been sent when the activation began (`FreshLine`), and so is an
  answer that was returned (`FreshAnswer`). It rests on `LinkAckOrder` and on
  `LinkOnlyThisCall`: when the activation begins no call is pending, so nothing is outstanding.
- `SystemTypeOK` rests on the link's and on the types of the commands.
- `SystemTrackersMatchBoard`, by the invariant `Matched`. Between two callbacks the property speaks of
  trackers and board only; within one it needs what the callback still owes. `Due` says, for each
  place a callback can be in, with which value the tracker will agree when it is done (`GainsDue`,
  `TimeoutDue`): `write()` sets the tracker after the send, `on_activate` both trackers after two
  sends. `CommandsOnTheWay` and `AcksOnTheWay` say that a command on the line, or an ACK for it, that
  belongs to the call in hand carries that value (by `OnlyThisCall` nothing else is on the line), and
  `Powered` that nothing is in force on a board that is off or has been reset.

**DriveLoopProofs** (every number of wheels, set of commands and timing):

- `DriveTypeOK`, and `DriveKeepsPromise`, the refinement of `DeadMan`, by initial states and a step
  or stutter for each action. The invariant `Fresh` says how old velocities are: each frame on the
  line that does not stop the wheels carries one that was commanded no longer ago than the frame is
  old, and the motors run at one that was commanded at most `Latency` before the board took its last
  frame, which the timeout bounds.
- `DriveFollows`, for a grace longer than `Lag` (`LoopAssumption`; in the code 1 s against a gap of
  50 ms for each frame of the longest burst). `Follows` says nothing of frames, and is not
  inductive. `InTime` counts what lies between the motors and a frame on the line: the frames lost
  since the last one that was taken, and the frames in front of this one, each a `Gap` apart at the
  most. So what the motors run at was sent at most its age and that many gaps ago (`Last`), and so
  was each frame on the line with respect to those behind it (`Spaced`), which is what `Last` needs
  when the board takes one; the frame that `write()` still owes counts as the last of the line
  (`Age`), and its lateness is what the waits of the tuning commands can add up to (`SinceWrite`).
  While nothing was lost for long, the span is at most `Lag`, and the board's timeout, which is
  longer, did not cut in (`Uncut`). When `write()` goes quiet there is no frame to count; then all
  frames on the line are zeros, for they are younger than the grace (`Zeros`), and so is the motors'
  velocity: a nonzero one is older than the grace less what `Lag` allows (second part of `Recent`),
  hence a zero has arrived. This last part needs no calm, but it needs the zeros to have been sent:
  with the waits of `on_activate` as long as the code has them, they need not be. The proof would
  not go through, TLC found the behaviour when `StartWait` was made as long as `Grace`, and the
  model got the history variable `tardy`.

**LedRefreshProofs** (all settings, periods, waits, bursts; `LedAssumption`: `Refresh` is longer
than `Latency`): `LedTypeOK`, `LedChangesShow`, `LedLossHeals`. What connects `sent_led_` to the LED
is the line: the last frame on it is what was sent last (`LastSent`), and if it is empty, and
nothing was lost, the board shows that (`Kept`); no frame is younger than the last send (`Spaced`).
In time: while the output is steady, it is sent once within a cycle (`SendsSoon`, `Recent`), is on
its way or shows after that (`OnItsWay`), and is sent again after each refresh, so that a burst of
losses is as long as the time since the first of them (`Repeated`, `Repeats`). The assumption is
needed: with a latency of a refresh the first frame can be lost while its refresh is on the line
already, which is not a loss that `ChangesShow` knows of by then (TLC shows it with
`Latency = Refresh`). A frame of 20 bytes is on USB for about a millisecond; the refresh is 1 s.

**WheelOdometryProofs** (every number of wheels, every set of steps, clocks and timings):
`OdometryTypeOK`, `OdometryMotionIsReal`, `OdometrySpeedIsPossible` and `OdometrySilenceMeansZero`.
For the positions, the invariant (`Real`) follows the counters on their way: of what the wheels
turned since `on_activate()` began, each frame of the session (`Recent`) accounts for what the
positions have of it, what the frame adds to that, and what came after the frame (`Accounted`); the
triangle inequality moves the three shares when a wheel turns (`TurningCounts`), a frame is sent
(`Detour`) and a frame is read (`TakingOver`). `MotionIsReal` itself says nothing of frames on the
line, and is not inductive. For the speed, `Paced` says that the wheels can turn from the frame at
the start of the window to every frame of the session, and from each of those to the counters of
now, in the time between them by the board's clock; `MeasuredBound` and `FilterBound` are the facts
about rounding division. For the silence, `Timely` bounds how long it can have lasted before
`read()` noted the last frame and after, by the age that the code computes and what the host's clock
was set back (`behind`: the sum of the two never shrinks but when a frame is noted, `ClockSetAges`),
and `Tracked` says that a frame `read()` has noted lies within the window, so that reading it again
cannot make a new speed.

**ImuDiagnosticsProofs** (every period, wait and timeout, steps of the clock of any size):
`ImuTypeOK`, `ImuSilenceIsTold`, `ImuAliveIsTrue`, `ImuStaleIsTrue`. `Measured` ties the age the
code computes to the true silence, up to what the clock was set; a frame that has not been compared
yet came since the last look (`Unlooked`). `NotTooOld` bounds the silence by the age of the last
publication, while that was not "stale".

**BenchSafetyProofs** (every set of motions): `BenchTypeOK`, `BenchAbortIsFinal`,
`BenchAbortEndsTest`, `BenchJudgedAsSent`. `Aborted` says that after an abort a tick that published
a motion has none left to publish, and `set()` after it set one has none in hand; `Judged` that what
a tick is about to publish is not among the unsafe.

*Only model-checked*: liveness (`RobotRests` of the bench runner), which is outside the reach of the
prover used. Every invariant and every action property that a passing run checks is proved.

## 7. Where the code and its comments disagree

Four runs check a sentence of the repository's comments and find a counterexample.

- **link_late** — `serial_transport.hpp:97-100` presents `WaitForAck` as the answer to the awaited
  command. An ACK that comes after its own wait gave up is returned for the next command of that
  kind: the handshake's second attempt returns the answer to the first. `PunctualAck` is what does
  hold.
- **resend** — `my_diffbot_system.cpp:248-249` says of an unacknowledged send at activation that the
  gpio can always re-send. The trackers take the values although the send failed, so asking for the
  same values again is no change.
- **stale** — `my_diffbot_system.cpp:266-268` says that the seeded gpio commands keep the zeroings and
  a stale runtime retune from registering as a change on the first `write()`. That holds until the
  controller's next update: a message from before the deactivation is written again over the seed
  (590), and `write()` sends it. `NoPhantomRetune` is what does hold. It takes a controller that runs
  on while the component is deactivated; the repository starts `kestrel_tuning_controller` with its
  launch file and never stops it.
- **jump** — `my_diffbot_system.cpp:452-453` says that the first frame after an activation only seeds.
  The first *snapshot* does, and the snapshot outlives the session: a `read()` before the first frame
  seeds from the old one, and the first frame becomes a delta. `MotionIsReal` holds when the seed is
  a frame of the session.

Three more observations, which no run is about:

- "Once fully stopped, keep commanding zero for a full second to confirm a sustained stop [...],
  then go quiet" (`my_diffbot_system.cpp:564-566`). That second starts at line 236, before
  `on_activate` waits for the ACKs of the gains and of the command timeout, up to 3 s each
  (`kestrel_transport.hpp:40` and 43) and not fatal when they are missing. A component that is
  activated at rest after a missing ACK goes quiet at once. `Follows` holds when the waits left
  `Lag` of the second (`~tardy`), and `KeepsPromise` always.
- `write()` of the inactive component, right after `on_deactivate` zeroed the gpio commands, sends the
  zeros as gains and as a command timeout, after the RESET. The next activation sends the URDF's
  values. `NoPhantomRetune` is what holds: it does not happen while the component is active.
- `on_activate` copies the measured wheel speeds into the joint commands and `on_deactivate` leaves
  the joint commands alone, so the loop sends an old velocity again until a controller replaces it.
  `KeepsPromise` counts these copies as asked for, and bounds what follows from them.

## 8. What is not modelled

- *`on_init`*: one sequential pass over URDF parameters before anything runs; its results are
  constants here. Its cast of `cmd_timeout_ms` to 16 bits is in the hazard list.
- *The firmware's speed and duty* (`kestrel_transport.cpp`): introspection only, no decision depends
  on them.
- *`IsHeartbeatHealthy`*: the plugin does not use it. The heartbeat's flag itself is in
  `ImuDiagnostics`.
- *Undefined casts* (`SetWheelVelocity` of a not-a-number, `ResolveLed` with a tiny period): no
  controller of this repository produces such commands; listed as hazards.
- *The CRC polynomial and byte layout of the payloads*: arithmetic on data.
- *Bench runner*: what the single tests drive and measure, the geometry a tick judges by, recording.
  *Bench analysis*: offline numerics.
- *WiFi watchdog*: a 21-line script whose behaviour is NetworkManager's. *Launch files, URDF, EKF
  configuration, containers*: declarative.

## 9. Plan

Done, in this order: `KestrelLink` (everything rests on ACKs), `DiffbotSystem` over it,
`WheelOdometry`, `RxFraming`, `DriveLoop` with `DeadMan`, `ImuDiagnostics`, `LedRefresh`,
`BenchSafety`, and proofs for all of them.

What is left, most important first:

1. `on_init` and the byte layouts as pure definitions against reference ones.
2. The bench runner's motion primitives (`rotate_to`, `drive`) as clients of `BenchSafety`.
