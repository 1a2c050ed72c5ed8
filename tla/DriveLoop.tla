------------------------------ MODULE DriveLoop ------------------------------
(***************************************************************************)
(* The wheel commands of write() (my_diffbot_system.cpp) in time: how old  *)
(* can the velocity be that the motors run at, when tuning commands block  *)
(* the loop, frames are lost, and the board stops the wheels by its own    *)
(* command timeout?                                                        *)
(*                                                                         *)
(* Time passes in ticks.  `due' is how long the host may still stay where  *)
(* it is: asleep until the next cycle, or in a wait for an ACK.  WriteLed  *)
(* takes no time and touches nothing of this; DiffbotSystem has it.        *)
(*                                                                         *)
(* The stop grace of write() (lines 570 to 572) is the difference of two   *)
(* readings of the host's clock.  Here it is true time: the clock is taken *)
(* as steady for the second after a stop.  Set forward in it, the grace    *)
(* ends early, perhaps before a zero arrived, and the stop is left to the  *)
(* board's timeout; set back, it lasts longer.  KeepsPromise does not rest *)
(* on the grace.                                                           *)
(***************************************************************************)
EXTENDS Integers, Sequences

CONSTANTS
  Wheel,      \* the wheels
  Command,    \* joint velocity commands: one number for each wheel
  Scale,      \* what a command must change for the wire to show it, 1 mrps
  Period,     \* of the control loop
  AckWait,    \* kRuntimeAckTimeoutMs
  StartWait,  \* the longest that a handshake, or the waits of a lifecycle callback, take
  Grace,      \* zeros are sent for that long, 1 s: longer than it takes them to arrive
  Timeout,    \* command timeouts the board may run with
  MaxTimeout, \* the longest of them
  Latency,    \* the longest time a frame is on the line
  MaxBurst,   \* frames in a row that the line loses without a fault
  MaxFaults   \* bound: longer losses, reboots of the board and deactivations

\* SetWheelVelocity: int32 mrps, rounded towards zero.
ToMrps(v) == IF v >= 0 THEN v \div Scale ELSE -((-v) \div Scale)
Wire(c) == [w \in Wheel |-> ToMrps(c[w])]

Still    == [w \in Wheel |-> 0]
Velocity == {Wire(c) : c \in Command}

\* The longest time between two writes; how old what the motors follow may get while the
\* line loses no more than MaxBurst frames in a row; how old it may ever get.
Gap   == Period + 2 * AckWait
Lag   == (MaxBurst + 1) * Gap + Latency
Limit == MaxTimeout + Latency

ASSUME LoopAssumption ==
  /\ Command \subseteq [Wheel -> Int] /\ Still \in Command
  /\ Scale \in Nat \ {0} /\ Period \in Nat \ {0}
  /\ AckWait \in Nat /\ StartWait \in Nat /\ Grace \in Nat /\ Latency \in Nat
  /\ MaxBurst \in Nat /\ MaxFaults \in Nat
  /\ Lag < Grace
  /\ MaxTimeout \in Nat /\ Timeout \subseteq 1..MaxTimeout /\ Timeout # {}

VARIABLES
  lc,        \* "inactive" or "active"
  pc,        \* where the host is: "idle" between cycles, or in which wait
  due,       \* how long it may stay there
  cmd,       \* the joint velocity commands
  pending,   \* tuning gpio commands that differ from their trackers
  idle,      \* time since last_active_time_, up to Grace
  wire,      \* wheel frames on their way
  motor,     \* the velocity the motors run at
  frameAge,  \* time since the board took its last wheel frame, up to MaxTimeout
  timeout,   \* the command timeout it runs with
  faults,    \* bound: faults so far
  lost,      \* history: frames lost in a row, up to MaxBurst + 1
  held,      \* history: for each velocity, the time since it was last commanded
  calm,      \* history: time without a fault, up to Lag + 1
  tardy      \* history: the waits of on_activate left less than Lag of the zeros of a stop

host  == <<lc, pc, due, pending, idle>>
board == <<motor, frameAge, timeout>>
bound == <<faults, lost, calm, tardy>>
vars  == <<host, cmd, wire, board, bound, held>>

Up(n, top) == IF n < top THEN n + 1 ELSE n

Init ==
  /\ lc = "inactive" /\ pc = "idle" /\ due = Period
  /\ cmd = Still
  /\ pending = {}
  /\ idle = Grace
  /\ wire = << >>
  /\ motor = Still
  /\ frameAge = 0
  /\ timeout \in Timeout
  /\ faults = 0 /\ lost = 0 /\ calm = 0 /\ tardy = FALSE
  /\ held = [v \in Velocity |-> IF v = Still THEN 0 ELSE Limit + 1]

-----------------------------------------------------------------------------
(* write(): the tuning commands, each with its wait, then the wheels.  The *)
(* framework calls it on an inactive component too.                        *)

Frame(v) == [val |-> v, age |-> 0]

CycleDue == (pc = "idle" /\ due < Period) \/ pc = "tuning"

\* Gains before the command timeout; the trackers follow whatever the ACK says.
WriteTuning ==
  /\ CycleDue
  /\ pending # {}
  /\ LET t == IF "gains" \in pending THEN "gains" ELSE "timeout" IN
       /\ pending' = pending \ {t}
       /\ timeout' \in (IF t = "timeout" THEN Timeout ELSE {timeout})
  /\ pc' = "tuning"
  /\ due' = AckWait
  /\ UNCHANGED <<lc, cmd, idle, wire, motor, frameAge, bound, held>>

\* Fault: stopped as soon as one wheel is.
HalfStopped == \E w \in Wheel : cmd[w] = 0

Stopped == \A w \in Wheel : cmd[w] = 0
IdleNow == IF Stopped THEN idle ELSE 0

\* Fault: each wheel gets the other's command.
Crosswise == Wire([w \in Wheel |-> cmd[CHOOSE u \in Wheel : u = w => Wheel = {w}]])

\* Fault: the command is sent as it is, in rad/s.
Unscaled == cmd

Outgoing == Wire(cmd)

\* Driving, or stopped for less than Grace.
Sends == IdleNow < Grace

WriteWheels ==
  /\ CycleDue
  /\ pending = {}
  /\ idle' = IdleNow
  /\ wire' = IF Sends THEN Append(wire, Frame(Outgoing)) ELSE wire
  /\ pc' = "idle"
  /\ due' = Period
  /\ tardy' = (tardy /\ Stopped)
  /\ UNCHANGED <<lc, cmd, pending, board, faults, lost, calm, held>>

-----------------------------------------------------------------------------
(* Lifecycle.                                                              *)

\* A joint command: the controllers', or at activation the joint states, whatever read()
\* measured last.
Take(c) == cmd' = c /\ held' = [held EXCEPT ![Wire(c)] = 0]

OnActivate ==
  /\ lc = "inactive" /\ pc = "idle"
  /\ \E c \in Command : Take(c)
  /\ pc' = "handshake" /\ due' = StartWait
  /\ UNCHANGED <<lc, pending, idle, wire, board, bound>>

HandshakeFails ==
  /\ pc = "handshake"
  /\ pc' = "idle" /\ due' = Period
  /\ UNCHANGED <<lc, cmd, pending, idle, wire, board, bound, held>>

\* The ACK comes after all that was on the line.  Then gains and timeout are sent.
HandshakeDone ==
  /\ pc = "handshake"
  /\ wire = << >>
  /\ idle' = 0
  /\ pc' = "starting" /\ due' = StartWait
  /\ UNCHANGED <<lc, cmd, pending, wire, board, bound, held>>

Activated ==
  /\ pc = "starting"
  /\ lc' = "active" /\ pc' = "idle" /\ due' = Period
  /\ pending' = {}
  /\ timeout' \in Timeout
  /\ tardy' = (idle + Lag >= Grace)
  /\ UNCHANGED <<cmd, idle, wire, motor, frameAge, faults, lost, calm, held>>

\* The gpio commands are zeroed, the joint commands are not; a zero velocity is sent.
OnDeactivate ==
  /\ lc = "active" /\ pc = "idle"
  /\ faults < MaxFaults
  /\ faults' = faults + 1
  /\ pending' = {"gains", "timeout"}
  /\ wire' = Append(wire, Frame(Still))
  /\ pc' = "halting" /\ due' = StartWait
  /\ calm' = 0
  /\ UNCHANGED <<lc, cmd, idle, board, lost, tardy, held>>

\* DEACTIVATE and RESET were answered or not; the board may have stopped and started over.
Deactivated ==
  /\ pc = "halting"
  /\ lc' = "inactive" /\ pc' = "idle" /\ due' = Period
  /\ motor' \in {motor, Still}
  /\ timeout' \in Timeout
  /\ UNCHANGED <<cmd, pending, idle, wire, frameAge, bound, held>>

-----------------------------------------------------------------------------
(* Controllers write the command interfaces of an active component between *)
(* two cycles.                                                             *)

Controllers == lc = "active" /\ pc = "idle"

Drive ==
  /\ Controllers
  /\ \E c \in Command : Take(c)
  /\ UNCHANGED <<host, wire, board, bound>>

Tune ==
  /\ Controllers
  /\ pending' \in {{"gains"}, {"timeout"}, {"gains", "timeout"}}
  /\ UNCHANGED <<lc, pc, due, cmd, idle, wire, board, bound, held>>

-----------------------------------------------------------------------------
(* The line, the board and time.                                           *)

BoardTakes ==
  /\ wire # << >>
  /\ motor' = Head(wire).val
  /\ frameAge' = 0
  /\ lost' = 0
  /\ wire' = Tail(wire)
  /\ UNCHANGED <<host, cmd, timeout, faults, calm, tardy, held>>

\* One more frame in a row than MaxBurst is a fault.
Lose ==
  /\ wire # << >>
  /\ lost' = Up(lost, MaxBurst + 1)
  /\ faults' = IF lost = MaxBurst THEN faults + 1 ELSE faults
  /\ faults' <= MaxFaults
  /\ wire' = Tail(wire)
  /\ UNCHANGED <<host, cmd, board, calm, tardy, held>>

Reboot ==
  /\ faults < MaxFaults
  /\ faults' = faults + 1
  /\ motor' = Still
  /\ timeout' \in Timeout
  /\ calm' = 0
  /\ UNCHANGED <<host, cmd, wire, frameAge, lost, tardy, held>>

\* Nothing that would keep the motors from following in time.
Steady == /\ lc = "active" /\ pc \in {"idle", "tuning"}
          /\ lost <= MaxBurst
          /\ timeout > Lag
          /\ ~tardy

Tick ==
  /\ due > 0
  /\ \A i \in DOMAIN wire : wire[i].age < Latency
  /\ due' = due - 1
  /\ idle' = Up(idle, Grace)
  /\ wire' = [i \in DOMAIN wire |-> [wire[i] EXCEPT !.age = @ + 1]]
  /\ frameAge' = Up(frameAge, MaxTimeout)
  /\ motor' = IF frameAge' >= timeout THEN Still ELSE motor
  /\ held' = [v \in Velocity |-> IF v = Wire(cmd) THEN 0 ELSE Up(held[v], Limit + 1)]
  /\ calm' = IF Steady THEN Up(calm, Lag + 1) ELSE 0
  /\ UNCHANGED <<lc, pc, cmd, pending, timeout, faults, lost, tardy>>

Next ==
  \/ WriteTuning \/ WriteWheels
  \/ OnActivate \/ HandshakeFails \/ HandshakeDone \/ Activated
  \/ OnDeactivate \/ Deactivated
  \/ Drive \/ Tune
  \/ BoardTakes \/ Lose \/ Reboot
  \/ Tick

Spec == Init /\ [][Next]_vars

-----------------------------------------------------------------------------
(* Properties.                                                             *)

\* Every variable has its type.
TypeOK ==
  /\ lc \in {"inactive", "active"}
  /\ pc \in {"idle", "tuning", "handshake", "starting", "halting"}
  /\ due \in Nat
  /\ cmd \in Command
  /\ pending \subseteq {"gains", "timeout"}
  /\ idle \in 0..Grace
  /\ wire \in Seq([val : Velocity, age : 0..Latency])
  /\ motor \in Velocity /\ frameAge \in 0..MaxTimeout /\ timeout \in Timeout
  /\ faults \in 0..MaxFaults /\ lost \in 0..(MaxBurst + 1)
  /\ calm \in 0..(Lag + 1) /\ tardy \in BOOLEAN
  /\ held \in [Velocity -> 0..(Limit + 1)]

\* The motors run what the host wants, in time: while the line loses no more than MaxBurst
\* frames in a row, the board is up, its command timeout is longer than Lag, and the waits
\* of on_activate and the host's clock, which is not set forward in the second after a stop,
\* leave time for the zeros of it, what they run at was commanded at most Lag ago.  Driving
\* is not cut off by the board's timeout although tuning commands block write() ("a bad ACK
\* must not retry at the full rate", my_diffbot_system.cpp:590), and a stop reaches the
\* motors by frames, within the second that write() repeats it (564), without waiting for
\* that timeout.
Follows == calm > Lag => held[motor] <= Lag

\* Whatever is lost, refused or restarted, the drive is a dead man's switch: "the board's
\* own command timeout holds the wheels at zero" (my_diffbot_system.cpp:566).
Switch == INSTANCE DeadMan WITH
  Rest <- Still, Delay <- Latency, asked <- Wire(cmd), held <- held, motor <- motor

KeepsPromise == Switch!Spec
=============================================================================
