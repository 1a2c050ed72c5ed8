--------------------------- MODULE ImuDiagnostics ---------------------------
(***************************************************************************)
(* The IMU from the wire to /diagnostics: Kestrel::OnMessageReceived       *)
(* (kestrel_transport.cpp), read() and ReadImu() (my_diffbot_system.cpp).  *)
(*                                                                         *)
(* ReadImu() hands the controllers the last orientation it has, however    *)
(* old; the 1 Hz diagnostics are all that tells whether it is alive.  They *)
(* compare readings of the system clock, which may be set while the robot  *)
(* runs, and a frame count that an activation forgets.                     *)
(*                                                                         *)
(* An activation that fails before any got through its handshake finalizes *)
(* the component (DiffbotSystem has that): here it succeeds.  The port     *)
(* stays plugged.                                                          *)
(***************************************************************************)
EXTENDS Integers, Sequences

CONSTANTS
  Period,    \* of the control loop
  WaitTime,  \* what the tuning commands of one write() may wait for their ACKs
  StartWait, \* what a lifecycle callback may wait for ACKs
  Stale,     \* 0.5 s without an IMU frame
  DiagEvery, \* 1 s
  Steps,     \* what the system clock may be set forward or, if negative, back by
  MaxStep,   \* bound: how far it is set, in all, forward and back
  MaxRx      \* bound: frames that arrive between two looks at the port

ASSUME DiagAssumption ==
  /\ {Period, Stale, DiagEvery} \subseteq Nat \ {0} /\ Stale < DiagEvery
  /\ {WaitTime, StartWait, MaxStep, MaxRx} \subseteq Nat /\ Steps \subseteq Int

VARIABLES
  lc,        \* "unconfigured", "inactive" or "active"
  pc,        \* where the host is: "idle" between cycles, or in which wait
  due,       \* how long it may stay there
  stamped,   \* an activation got through its handshake and set the times
  rx,        \* frames that nobody parsed yet
  counted,   \* imu_.count > 0
  unseen,    \* imu_.count # last_imu_count_
  cal,       \* imu_.cal[0]
  healthy,   \* imu_healthy_
  changeAge, \* now() - last_imu_count_change_
  diagAge,   \* now() - last_diag_pub_
  diag,      \* the message of the last status published
  sinceImu,  \* history: time since the last IMU frame was parsed, up to Stale + 1
  quiet,     \* history: the same, or since the last lifecycle callback if that is less
  back,      \* history: how far the clock was set back, and forward
  ahead

port   == <<rx, counted, cal, healthy>>
report == <<unseen, changeAge, diagAge, diag>>
clock  == <<back, ahead>>
vars   == <<lc, pc, due, stamped, port, report, sinceImu, quiet, clock>>

\* The longest time between two reads.
Gap == Period + WaitTime

\* How old an orientation may be that the diagnostics call alive, and how long they may take
\* to call it dead, with a clock that was never set.
Alive == Stale + Gap
Told  == Stale + DiagEvery + 2 * Gap

\* An age, as far as it matters.
Grown(age, by, top) == IF age + by < top THEN age + by ELSE top

Init ==
  /\ lc = "inactive" /\ pc = "handshake" /\ due = StartWait /\ stamped = FALSE
  /\ rx = << >>
  /\ counted = FALSE /\ unseen = FALSE
  /\ cal = "low" /\ healthy = FALSE
  /\ changeAge = 0 /\ diagAge = 0
  /\ diag = "none"
  /\ sinceImu = Stale + 1 /\ quiet = 0
  /\ back = 0 /\ ahead = 0

-----------------------------------------------------------------------------
(* OnMessageReceived.  A short payload is dropped with a warning.          *)

Frame == [id : {"IMU_DATA"}, cal : {"low", "ok"}]
         \union [id : {"HEARTBEAT"}, healthy : BOOLEAN]
         \union [id : {"short"}]

\* The last frame of a kind that waits, or none.
Latest(id) ==
  {rx[i] : i \in {k \in DOMAIN rx : /\ rx[k].id = id
                                   /\ \A j \in DOMAIN rx : rx[j].id = id => j <= k}}

ImuCame == Latest("IMU_DATA") # {}

\* Read() of the transport, with all that came in.
Parse ==
  /\ rx' = << >>
  /\ counted' = (counted \/ ImuCame)
  /\ IF ImuCame THEN \E f \in Latest("IMU_DATA") : cal' = f.cal
                ELSE UNCHANGED cal
  /\ IF Latest("HEARTBEAT") # {} THEN \E f \in Latest("HEARTBEAT") : healthy' = f.healthy
                                 ELSE UNCHANGED healthy
  /\ sinceImu' = IF ImuCame THEN 0 ELSE sinceImu

\* WaitForAck() reads the port all the time that it waits.
Poll ==
  /\ pc # "idle" /\ rx # << >>
  /\ Parse
  /\ unseen' = (unseen \/ ImuCame)
  /\ quiet' = IF ImuCame THEN 0 ELSE quiet
  /\ UNCHANGED <<lc, pc, due, stamped, changeAge, diagAge, diag, clock>>

-----------------------------------------------------------------------------
(* read(), and what of write() takes time.                                 *)

Message(age) ==
  IF age > Stale THEN "stale"
  ELSE IF ~healthy' THEN "unhealthy"
  ELSE IF cal' = "ok" THEN "OK" ELSE "uncalibrated"

\* Fault: the count is compared only when the diagnostics are due.
NotedWhenDue == (unseen \/ ImuCame) /\ diagAge >= DiagEvery

\* Fault: the snapshot is taken before the port is read.
NotedBefore == unseen

\* The frame count differs from the one seen last.
Noted == unseen \/ ImuCame

\* Fault: the diagnostics come once a second only as long as there are frames.
DiagOnFrames == diagAge >= DiagEvery /\ Noted

Publishes == diagAge >= DiagEvery

Read ==
  /\ lc # "unconfigured" /\ pc = "idle" /\ due < Period
  /\ Parse
  /\ changeAge' = IF Noted THEN 0 ELSE changeAge
  /\ unseen' = ((unseen \/ ImuCame) /\ ~Noted)
  /\ IF Publishes THEN diagAge' = 0 /\ diag' = Message(changeAge')
                  ELSE UNCHANGED <<diagAge, diag>>
  /\ \/ pc' = "idle" /\ due' = Period
     \/ pc' = "tuning" /\ due' = WaitTime
  /\ quiet' = IF ImuCame THEN 0 ELSE quiet
  /\ UNCHANGED <<lc, stamped, clock>>

Written ==
  /\ pc = "tuning"
  /\ pc' = "idle" /\ due' = Period
  /\ UNCHANGED <<lc, stamped, port, report, sinceImu, quiet, clock>>

-----------------------------------------------------------------------------
(* Lifecycle.                                                              *)

Enter(wait) == pc' = wait /\ due' = StartWait /\ quiet' = 0
Leave       == pc' = "idle" /\ due' = Period /\ quiet' = 0

\* Connect() succeeds; what came before it opened the port is flushed.
OnActivate ==
  /\ lc = "inactive" /\ pc = "idle"
  /\ Enter("handshake")
  /\ UNCHANGED <<lc, stamped, port, report, sinceImu, clock>>

HandshakeFails ==
  /\ pc = "handshake" /\ stamped
  /\ Leave
  /\ UNCHANGED <<lc, stamped, port, report, sinceImu, clock>>

\* Fault: the count seen last becomes one that is never reached.
ResetToNever == /\ unseen' = TRUE
                /\ changeAge' = 0 /\ diagAge' = 0

\* last_imu_count_ becomes 0 whatever the count is.
ResetTimes == /\ unseen' = counted
              /\ changeAge' = 0 /\ diagAge' = 0

\* Then gains and command timeout are sent, with their waits.
HandshakeDone ==
  /\ pc = "handshake"
  /\ ResetTimes
  /\ stamped' = TRUE
  /\ Enter("starting")
  /\ UNCHANGED <<lc, port, diag, sinceImu, clock>>

Activated ==
  /\ pc = "starting"
  /\ lc' = "active"
  /\ Leave
  /\ UNCHANGED <<stamped, port, report, sinceImu, clock>>

OnDeactivate ==
  /\ lc = "active" /\ pc = "idle"
  /\ Enter("halting")
  /\ UNCHANGED <<lc, stamped, port, report, sinceImu, clock>>

Deactivated ==
  /\ pc = "halting"
  /\ lc' = "inactive"
  /\ Leave
  /\ UNCHANGED <<stamped, port, report, sinceImu, clock>>

\* The port is closed, and opened by the activation that follows: the frames are lost, what
\* was parsed of them is kept.
OnCleanup ==
  /\ lc = "inactive" /\ pc = "idle"
  /\ lc' = "unconfigured"
  /\ Leave
  /\ rx' = << >>
  /\ UNCHANGED <<stamped, counted, cal, healthy, report, sinceImu, clock>>

Reconfigure ==
  /\ lc = "unconfigured"
  /\ lc' = "inactive"
  /\ Enter("handshake")
  /\ UNCHANGED <<stamped, port, report, sinceImu, clock>>

-----------------------------------------------------------------------------
(* The board, the clock and time.                                          *)

BoardSends ==
  /\ lc # "unconfigured" /\ Len(rx) < MaxRx
  /\ \E f \in Frame : rx' = Append(rx, f)
  /\ UNCHANGED <<lc, pc, due, stamped, counted, cal, healthy, report, sinceImu, quiet, clock>>

TopChange == Stale + 1 + MaxStep
TopDiag   == DiagEvery + MaxStep

ClockSet ==
  /\ \E s \in Steps :
       /\ changeAge' = Grown(changeAge, s, TopChange)
       /\ diagAge' = Grown(diagAge, s, TopDiag)
       /\ back' = IF s < 0 THEN back - s ELSE back
       /\ ahead' = IF s > 0 THEN ahead + s ELSE ahead
  /\ back' <= MaxStep /\ ahead' <= MaxStep
  /\ UNCHANGED <<lc, pc, due, stamped, port, unseen, diag, sinceImu, quiet>>

Tick ==
  /\ due > 0 \/ lc = "unconfigured"
  /\ due' = IF due > 0 THEN due - 1 ELSE 0
  /\ changeAge' = Grown(changeAge, 1, TopChange)
  /\ diagAge' = Grown(diagAge, 1, TopDiag)
  /\ sinceImu' = Grown(sinceImu, 1, Stale + 1)
  /\ quiet' = IF lc # "unconfigured" /\ pc \in {"idle", "tuning"}
              THEN Grown(quiet, 1, Told + MaxStep + 1) ELSE 0
  /\ UNCHANGED <<lc, pc, stamped, port, unseen, diag, clock>>

Next ==
  \/ Poll \/ Read \/ Written
  \/ OnActivate \/ HandshakeFails \/ HandshakeDone \/ Activated
  \/ OnDeactivate \/ Deactivated \/ OnCleanup \/ Reconfigure
  \/ BoardSends \/ ClockSet \/ Tick

Spec == Init /\ [][Next]_vars

-----------------------------------------------------------------------------
(* Properties.                                                             *)

\* Every variable has its type.
TypeOK ==
  /\ lc \in {"unconfigured", "inactive", "active"}
  /\ pc \in {"idle", "tuning", "handshake", "starting", "halting"}
  /\ due \in Nat /\ stamped \in BOOLEAN
  /\ rx \in Seq(Frame)
  /\ counted \in BOOLEAN /\ unseen \in BOOLEAN /\ (unseen => counted)
  /\ cal \in {"low", "ok"} /\ healthy \in BOOLEAN
  /\ changeAge \in -MaxStep..TopChange /\ diagAge \in -MaxStep..TopDiag
  /\ diag \in {"none", "stale", "unhealthy", "uncalibrated", "OK"}
  /\ sinceImu \in 0..(Stale + 1) /\ quiet \in 0..(Told + MaxStep + 1)
  /\ back \in 0..MaxStep /\ ahead \in 0..MaxStep

Publication == Read /\ Publishes

\* Diagnostics that do not say "stale" come within half a second and one cycle of the last
\* IMU frame ("when it last changed", my_diffbot_system.hpp:131) or lifecycle callback,
\* whose waits keep read() from looking and whose forgotten frame count passes for a frame;
\* a clock that was set back adds to it.
AliveIsTrue == [][Publication /\ diag' # "stale" => quiet' <= Alive + back]_vars

\* Diagnostics say "stale" only if no frame was parsed for half a second, less what the
\* clock was set forward ("no frames > 0.5 s", my_diffbot_system.cpp:411).
StaleIsTrue ==
  [][Publication /\ diag' = "stale" => sinceImu' + ahead > Stale]_vars

\* A dead IMU is told: while the component cycles and no frame comes, "stale" is what
\* was published last, at the latest half a second, the second between two diagnostics and
\* two cycles later, and what the clock was set back.
SilenceIsTold == quiet > Told + back => diag = "stale"
=============================================================================
