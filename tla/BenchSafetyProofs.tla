-------------------------- MODULE BenchSafetyProofs --------------------------
(* Proofs about BenchSafety: an abort is final and nothing unsafe is published, for any    *)
(* set of motions.                                                                         *)
EXTENDS BenchSafety, TLAPS

\* What an abort leaves behind: tick() publishes no motion twice, set() has none in hand.
Aborted ==
  /\ ~abort => late = 0 /\ sets = 0
  /\ late # 0 => late = 1 /\ (tick = "publish" => out = Rest)
  /\ sets # 0 => sets = 1 /\ main # "set"

\* What tick() found out about the command it has.
Judged ==
  /\ tick = "guard" /\ out \in unsafe => abort
  /\ tick = "publish" /\ out # Rest => out \notin unsafe

IInv == TypeOK /\ Aborted /\ Judged

LEMMA MoreBounded == \A n \in 0..2 : More(n) \in 0..2 /\ (n = 0 => More(n) = 1)
BY DEF More

LEMMA InitIInv == Init => IInv
<1> SUFFICES ASSUME Init
             PROVE  IInv
  OBVIOUS
<1>1. TypeOK
  <2>1. Rest \in Command
    BY DEF Command
  <2>2. next \in Command /\ cmd \in Command /\ out \in Command /\ base \in Command
    BY <2>1 DEF Init
  <2>3. /\ main \in {"test", "set", "finally", "zeros", "shutdown", "gone"}
        /\ tick \in {"idle", "judge", "guard", "publish"}
        /\ abort \in BOOLEAN /\ exec \in BOOLEAN
    BY DEF Init
  <2>4. unsafe \subseteq Command /\ late \in 0..2 /\ sets \in 0..2
    BY DEF Init
  <2>5. main = "gone" => ~exec
    BY DEF Init
  <2> QED
    BY <2>2, <2>3, <2>4, <2>5 DEF TypeOK
<1>2. Aborted
  BY DEF Init, Aborted
<1>3. Judged
  BY DEF Init, Judged
<1> QED
  BY <1>1, <1>2, <1>3 DEF IInv

\* The main thread, while nothing happens to it.
LEMMA MainKeeps ==
  ASSUME IInv, SetCheck \/ SetAssign \/ Stop \/ RaiseAbort \/ TestDone \/ TestRaises
  PROVE  IInv'
<1> USE DEF IInv, TypeOK, Aborted, Judged, timer, history
<1>0. Rest \in Command
  BY DEF Command
<1>1. CASE SetCheck
  BY <1>1 DEF SetCheck, Unaborted
<1>2. CASE SetAssign
  BY <1>2, MoreBounded DEF SetAssign
<1>3. CASE Stop
  BY <1>0, <1>3 DEF Stop
<1>4. CASE RaiseAbort
  BY <1>4 DEF RaiseAbort
<1>5. CASE TestDone
  BY <1>5 DEF TestDone
<1>6. CASE TestRaises
  BY <1>0, <1>6 DEF TestRaises, Trip
<1> QED
  BY <1>1, <1>2, <1>3, <1>4, <1>5, <1>6

\* Its end, orderly or not.
LEMMA EndKeeps ==
  ASSUME IInv, FinallyZero \/ PublishZero \/ Shutdown \/ Signal \/ Killed
  PROVE  IInv'
<1> USE DEF IInv, TypeOK, Aborted, Judged, timer, history
<1>0. Rest \in Command
  BY DEF Command
<1>1. CASE FinallyZero
  BY <1>0, <1>1 DEF FinallyZero
<1>2. CASE PublishZero
  BY <1>0, <1>2 DEF PublishZero
<1>3. CASE Shutdown
  BY <1>3 DEF Shutdown
<1>4. CASE Signal
  BY <1>0, <1>4 DEF Signal, Trip, Gone
<1>5. CASE Killed
  BY <1>5 DEF Killed, Gone
<1> QED
  BY <1>1, <1>2, <1>3, <1>4, <1>5

\* The executor: a tick step by step, and the sensors between two ticks.
LEMMA TickKeeps ==
  ASSUME IInv, TickRead \/ TickJudge \/ TickRaises \/ TickGuard \/ TickPublish \/ SensorData
  PROVE  IInv'
<1> USE DEF IInv, TypeOK, Aborted, Judged, timer, history
<1>0. Rest \in Command
  BY DEF Command
<1>1. CASE TickRead
  BY <1>1 DEF TickRead
<1>2. CASE TickJudge
  BY <1>0, <1>2 DEF TickJudge, Trip
<1>3. CASE TickRaises
  BY <1>3 DEF TickRaises
<1>4. CASE TickGuard
  BY <1>0, <1>4 DEF TickGuard, Guard
<1>5. CASE TickPublish
  BY <1>5, MoreBounded DEF TickPublish
<1>6. CASE SensorData
  BY <1>6 DEF SensorData
<1> QED
  BY <1>1, <1>2, <1>3, <1>4, <1>5, <1>6

LEMMA NextIInv == IInv /\ [Next]_vars => IInv'
<1> SUFFICES ASSUME IInv, [Next]_vars
             PROVE  IInv'
  OBVIOUS
<1>1. CASE SetCheck \/ SetAssign \/ Stop \/ RaiseAbort \/ TestDone \/ TestRaises
  BY <1>1, MainKeeps
<1>2. CASE FinallyZero \/ PublishZero \/ Shutdown \/ Signal \/ Killed
  BY <1>2, EndKeeps
<1>3. CASE TickRead \/ TickJudge \/ TickRaises \/ TickGuard \/ TickPublish \/ SensorData
  BY <1>3, TickKeeps
<1>4. CASE BaseTimesOut
  BY <1>4 DEF BaseTimesOut, IInv, TypeOK, Aborted, Judged, timer, history, Command
<1>5. CASE UNCHANGED vars
  BY <1>5 DEF vars, IInv, TypeOK, Aborted, Judged, timer, history
<1> QED
  BY <1>1, <1>2, <1>3, <1>4, <1>5 DEF Next

LEMMA Invariance == Spec => []IInv
BY InitIInv, NextIInv, PTL DEF Spec

-----------------------------------------------------------------------------
\* Every variable keeps its type (TypeOK of BenchSafety).
THEOREM BenchTypeOK == Spec => []TypeOK
<1>1. IInv => TypeOK
  BY DEF IInv
<1> QED
  BY <1>1, Invariance, PTL

\* At most one motion command is published after an abort (AbortIsFinal of BenchSafety).
THEOREM BenchAbortIsFinal == Spec => []AbortIsFinal
<1>1. IInv => AbortIsFinal
  BY DEF IInv, Aborted, AbortIsFinal
<1> QED
  BY <1>1, Invariance, PTL

\* At most one motion command is set after an abort (AbortEndsTest of BenchSafety).
THEOREM BenchAbortEndsTest == Spec => []AbortEndsTest
<1>1. IInv => AbortEndsTest
  BY DEF IInv, Aborted, AbortEndsTest
<1> QED
  BY <1>1, Invariance, PTL

\* What tick() publishes is what it judged (JudgedAsSent of BenchSafety).
THEOREM BenchJudgedAsSent == Spec => JudgedAsSent
<1>1. IInv => (TickPublish /\ out # Rest => out \notin unsafe)
  BY DEF IInv, Judged, TickPublish
<1>2. IInv /\ [Next]_vars => [TickPublish /\ out # Rest => out \notin unsafe]_vars
  BY <1>1
<1> QED
  BY <1>2, Invariance, PTL DEF Spec, JudgedAsSent
=============================================================================
