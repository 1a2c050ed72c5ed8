----------------------------- MODULE BenchSafety -----------------------------
(***************************************************************************)
(* The bench runner, scripts/bench/bench.py: a test that drives the robot  *)
(* from the main thread, and a timer of the executor that is its safety    *)
(* layer.  Both use `cmd' and `abort' without a lock, a signal handler     *)
(* interrupts the main thread, and everything may die.                     *)
(*                                                                         *)
(* The executor runs its callbacks one at a time (one default callback     *)
(* group): the sensor data do not change during a tick, `cmd' and `abort'  *)
(* do.  `unsafe' stands for all that tick() judges by: scan, geofence,     *)
(* joint states, wheels that do not turn.                                  *)
(***************************************************************************)
EXTENDS Naturals

CONSTANTS
  Motion,    \* the commands a test drives with
  Rest       \* no motion

ASSUME BenchAssumption == Rest \notin Motion

Command == Motion \union {Rest}

VARIABLES
  main,      \* where the main thread is
  next,      \* the command that set() has in hand
  cmd,       \* self.cmd
  abort,     \* self.abort is not None
  tick,      \* where tick() is, or "idle"
  exec,      \* is the executor alive
  out,       \* v, w of tick()
  unsafe,    \* the commands that tick() would trip for
  base,      \* what the base controller makes the robot do
  late,      \* history: motion commands published since the abort, up to 2
  sets       \* history: motion commands set since the abort, up to 2

timer   == <<tick, exec, out>>
history == <<late, sets>>
vars    == <<main, next, cmd, abort, timer, unsafe, base, history>>

Init ==
  /\ main = "test" /\ next = Rest
  /\ cmd = Rest /\ abort = FALSE
  /\ tick = "idle" /\ exec = TRUE /\ out = Rest
  /\ unsafe = {}
  /\ base = Rest
  /\ late = 0 /\ sets = 0

More(n) == IF n < 2 THEN n + 1 ELSE n

\* Two writes without a lock in the code, the abort first, one step here: who reads the old
\* command between them finds the abort when it looks again, in Guard or in SetCheck.
Trip == abort' = TRUE /\ cmd' = Rest

-----------------------------------------------------------------------------
(* The main thread in a test.  rotate_by() and settled_cloud() may go on   *)
(* for ever.                                                               *)

\* Fault: set() does not look for an abort.
Unchecked == TRUE

\* check(), in set() and sleep().
Unaborted == ~abort

SetCheck ==
  /\ main = "test" /\ Unaborted
  /\ \E m \in Command : next' = m
  /\ main' = "set"
  /\ UNCHANGED <<cmd, abort, timer, unsafe, base, history>>

SetAssign ==
  /\ main = "set"
  /\ cmd' = next
  /\ main' = "test"
  /\ sets' = IF abort /\ next # Rest THEN More(sets) ELSE sets
  /\ UNCHANGED <<next, abort, timer, unsafe, base, late>>

\* stop() does not check.
Stop ==
  /\ main = "test"
  /\ cmd' = Rest
  /\ UNCHANGED <<main, next, abort, timer, unsafe, base, history>>

RaiseAbort ==
  /\ main = "test" /\ ~Unaborted
  /\ main' = "finally"
  /\ UNCHANGED <<next, cmd, abort, timer, unsafe, base, history>>

TestDone ==
  /\ main = "test"
  /\ main' = "finally"
  /\ UNCHANGED <<next, cmd, abort, timer, unsafe, base, history>>

TestRaises ==
  /\ main = "test"
  /\ Trip
  /\ main' = "finally"
  /\ UNCHANGED <<next, timer, unsafe, base, history>>

-----------------------------------------------------------------------------
(* Its end: zeros for 0.6 s, the executor is shut down, the log is saved.  *)

FinallyZero ==
  /\ main = "finally"
  /\ cmd' = Rest
  /\ main' = "zeros"
  /\ UNCHANGED <<next, abort, timer, unsafe, base, history>>

PublishZero ==
  /\ main = "zeros"
  /\ base' = Rest
  /\ main' \in {"zeros", "shutdown"}
  /\ UNCHANGED <<next, cmd, abort, timer, unsafe, history>>

\* ex.shutdown() lets the callback that runs end and starts none; then the log is dumped.
Shutdown ==
  /\ main = "shutdown" /\ tick = "idle"
  /\ main' = "gone" /\ exec' = FALSE
  /\ UNCHANGED <<next, cmd, abort, tick, out, unsafe, base, history>>

\* Fault: the executor's thread is no daemon, and outlives the main one.
GoneAlone == main' = "gone" /\ UNCHANGED <<exec, tick>>

\* The process is gone, its threads with it; a callback that runs may still end.
Gone == main' = "gone" /\ exec' = FALSE /\ tick' \in {tick, "idle"}

\* on_sig().  What it raises leaves the test, or the finally clause and the program.
Signal ==
  /\ main # "gone"
  /\ Trip
  /\ IF main \in {"test", "set"} THEN main' = "finally" /\ UNCHANGED <<exec, tick>>
                                 ELSE Gone
  /\ UNCHANGED <<next, out, unsafe, base, history>>

\* timeout(1) in run.sh ends a run that takes too long; a signal may come at any time.
TimeoutSignal == Signal /\ main \in {"test", "set"}

Killed ==
  /\ main # "gone"
  /\ Gone
  /\ UNCHANGED <<next, cmd, abort, out, unsafe, base, history>>

-----------------------------------------------------------------------------
(* tick(), every 20 ms.                                                    *)

TickRead ==
  /\ tick = "idle" /\ exec /\ main # "shutdown"
  /\ out' = cmd
  /\ tick' = "judge"
  /\ UNCHANGED <<main, next, cmd, abort, exec, unsafe, base, history>>

TickJudge ==
  /\ tick = "judge"
  /\ IF ~abort /\ out \in unsafe THEN Trip ELSE UNCHANGED <<cmd, abort>>
  /\ tick' = "guard"
  /\ UNCHANGED <<main, next, exec, out, unsafe, base, history>>

\* power_dropout() writes its file before it trips: when it cannot, the exception ends spin().
TickRaises ==
  /\ tick = "judge" /\ ~abort /\ out \in unsafe \ {Rest}
  /\ exec' = FALSE /\ tick' = "idle"
  /\ UNCHANGED <<main, next, cmd, abort, out, unsafe, base, history>>

\* Fault: trip() has zeroed the command, why look again.
Unguarded == out

\* Fault: the command is read again.
GuardReread == IF abort THEN Rest ELSE cmd

Guard == IF abort THEN Rest ELSE out

TickGuard ==
  /\ tick = "guard"
  /\ out' = Guard
  /\ tick' = "publish"
  /\ UNCHANGED <<main, next, cmd, abort, exec, unsafe, base, history>>

TickPublish ==
  /\ tick = "publish"
  /\ base' = out
  /\ late' = IF abort /\ out # Rest THEN More(late) ELSE late
  /\ tick' = "idle"
  /\ UNCHANGED <<main, next, cmd, abort, exec, out, unsafe, sets>>

-----------------------------------------------------------------------------
(* The sensors, and the robot.                                             *)

SensorData ==
  /\ tick = "idle" /\ exec
  /\ unsafe' \in SUBSET Command
  /\ UNCHANGED <<main, next, cmd, abort, timer, base, history>>

\* Fault: cmd_vel_timeout 0 switches the timeout off.
BaseNeverTimesOut == FALSE

\* cmd_vel_timeout: the base controller stops when no command came for half a second.
Silent == ~exec /\ tick = "idle" /\ main # "zeros"

BaseTimesOut ==
  /\ Silent
  /\ base' = Rest
  /\ UNCHANGED <<main, next, cmd, abort, timer, unsafe, history>>

MainStep == RaiseAbort \/ SetAssign \/ FinallyZero \/ (PublishZero /\ main' = "shutdown") \/ Shutdown
TickStep == TickRead \/ TickJudge \/ TickRaises \/ TickGuard \/ TickPublish

Next ==
  \/ SetCheck \/ SetAssign \/ Stop \/ RaiseAbort \/ TestDone \/ TestRaises
  \/ FinallyZero \/ PublishZero \/ Shutdown
  \/ Signal \/ Killed
  \/ TickRead \/ TickJudge \/ TickRaises \/ TickGuard \/ TickPublish
  \/ SensorData \/ BaseTimesOut

\* Both threads go on, a test that does not end is ended by timeout(1), and the base
\* controller runs whatever happens here.
Spec ==
  /\ Init /\ [][Next]_vars
  /\ WF_vars(MainStep) /\ WF_vars(TickStep)
  /\ WF_vars(TimeoutSignal) /\ WF_vars(BaseTimesOut)

-----------------------------------------------------------------------------
(* Properties.                                                             *)

\* Every variable has its type; the executor ends with the program.
TypeOK ==
  /\ main \in {"test", "set", "finally", "zeros", "shutdown", "gone"}
  /\ next \in Command /\ cmd \in Command /\ out \in Command /\ base \in Command
  /\ abort \in BOOLEAN /\ exec \in BOOLEAN
  /\ tick \in {"idle", "judge", "guard", "publish"}
  /\ unsafe \subseteq Command
  /\ late \in 0..2 /\ sets \in 0..2
  /\ main = "gone" => ~exec

\* An abort is final although neither thread locks anything: at most one motion command is
\* still published, by a tick that was past its last look when a signal came
\* (bench.py:415-418); set() racing with trip() publishes none.
AbortIsFinal == late <= 1

\* An abort ends the test: at most the command that set() had in hand is still set
\* (bench.py:480-482).
AbortEndsTest == sets <= 1

\* What is published is what was judged: no motion command leaves a tick that would trip for
\* it, whatever the test sets meanwhile (bench.py:362).
JudgedAsSent == [][TickPublish /\ out # Rest => out \notin unsafe]_vars

\* In the end the robot stands still, although rotate_by() has no deadline (bench.py:507),
\* a tick can die, a second signal leaves the finally clause early and the process can be
\* killed while the robot drives.
RobotRests == <>[](main = "gone" /\ base = Rest)
=============================================================================
