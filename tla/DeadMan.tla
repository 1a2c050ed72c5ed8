------------------------------- MODULE DeadMan -------------------------------
(***************************************************************************)
(* What the drive promises, whatever happens to the host, the line or the  *)
(* board: a dead man's switch.  The motors only ever take a velocity that  *)
(* was asked for a moment ago, and keep it only for a limited time after   *)
(* it was last asked for.                                                  *)
(***************************************************************************)
EXTENDS Naturals

CONSTANTS
  Velocity,  \* what can be asked of the motors
  Rest,      \* standing still
  Delay,     \* the oldest request the motors may take up
  Limit      \* the oldest request the motors may still follow

VARIABLES
  asked,     \* the velocity asked for now
  held,      \* for each velocity, the time since it was last asked for, up to Limit + 1
  motor      \* the velocity the motors run at

vars == <<asked, held, motor>>

Init ==
  /\ asked = Rest
  /\ held = [v \in Velocity |-> IF v = Rest THEN 0 ELSE Limit + 1]
  /\ motor = Rest

\* Another velocity is asked for.
Ask ==
  /\ asked' \in Velocity
  /\ held' = [held EXCEPT ![asked'] = 0]
  /\ UNCHANGED motor

\* The motors take up a request, perhaps one that was replaced a moment ago.
Obey ==
  /\ motor' \in {v \in Velocity : held[v] <= Delay}
  /\ UNCHANGED <<asked, held>>

\* They may stop at any time.
Stop ==
  /\ motor' = Rest
  /\ UNCHANGED <<asked, held>>

Older(age) == IF age > Limit THEN age ELSE age + 1

\* Time passes; a request that got too old is not followed any more.
Pass ==
  /\ held' = [v \in Velocity |-> IF v = asked THEN 0 ELSE Older(held[v])]
  /\ motor' \in {motor, Rest}
  /\ motor' = Rest \/ held'[motor'] <= Limit
  /\ UNCHANGED asked

Next == Ask \/ Obey \/ Stop \/ Pass

Spec == Init /\ [][Next]_vars
=============================================================================
