-------------------------- MODULE LedRefreshProofs --------------------------
(***************************************************************************)
(* Proofs about LedRefresh: what the gpios say shows in time, for all      *)
(* settings, periods, waits, latencies and bursts of losses.               *)
(***************************************************************************)
EXTENDS LedRefresh, SequenceTheorems, TLAPS

\* What the gpios say now; the control loop runs; the longest that the host may have been
\* where it is, and in the idle part of the cycle before, without a write of the LED.
Out     == ResolveLed(gpio)
Looping == pc \in {"idle", "tuning"}
Stay    == IF pc = "tuning" THEN Gap ELSE Period

\* The time in which n refreshes are sent.
Cost(n) == n * (Refresh + Gap)

Frames == [val : Output \ {Nothing}, age : 0..Latency]

-----------------------------------------------------------------------------
(* The invariant.                                                          *)

Phase == IF Looping THEN due <= Stay ELSE since = 0

\* The tracker and the line: the last frame is what was sent last, and if none is on the
\* way and the board has got and kept it, it shows.
LastSent == wire # << >> /\ sentLed # Nothing => wire[Len(wire)].val = sentLed
Kept     == wire = << >> /\ sentLed # Nothing /\ ~lossy => led = sentLed

\* No frame is younger than the last send, and those sent since the output changed carry it.
Spaced == \A i \in DOMAIN wire : sentAge <= wire[i].age
Recent == \A i \in DOMAIN wire : wire[i].age < since => wire[i].val = Out

\* An output that was not sent yet is new, and the next write sends it.
SendsSoon == Looping /\ Out \notin {Nothing, sentLed} => since + due <= Stay

\* The last frame left within a cycle of the change, or it is a refresh of what shows.
OnItsWay ==
  Out = sentLed /\ Out # Nothing /\ ~lossy /\ wire # << >> =>
    since <= wire[Len(wire)].age + Gap \/ (Len(wire) = 1 /\ led = Out)

\* As long as the output does not show, each frame on the way, counted with those lost in a
\* row, was sent in its turn, and so will be the next.
Repeated == ~Shown => \A i \in DOMAIN wire : since <= Cost(burst + i) + wire[i].age

Repeats ==
  ~Shown /\ Out = sentLed /\ Looping =>
    IF sentAge < Refresh THEN since <= Cost(burst + Len(wire)) + sentAge
                         ELSE since + due <= Cost(burst + Len(wire)) + Refresh + Stay

Line   == LastSent /\ Kept /\ Spaced
Timing == Phase /\ SendsSoon /\ Recent /\ OnItsWay /\ Repeated /\ Repeats

IInv == TypeOK /\ Line /\ Timing

-----------------------------------------------------------------------------
(* The constants.                                                          *)

LEMMA ConstantTypes ==
  /\ Wrap \in Nat \ {0} /\ Period \in Nat \ {0} /\ Refresh \in Nat \ {0}
  /\ ColorSpan \in Nat \ {0} /\ ColorMax \in Nat /\ WaitTime \in Nat /\ StartWait \in Nat
  /\ Latency \in Nat /\ MaxBurst \in Nat /\ MaxFaults \in Nat /\ Latency < Refresh
  /\ Gap \in Nat /\ Gap = Period + WaitTime /\ Fast = Gap + Latency
BY LedAssumption DEF Gap, Fast

LEMMA Product ==
  ASSUME NEW m \in Nat, NEW n \in Nat, NEW k \in Nat
  PROVE  /\ n * k \in Nat /\ (n + 1) * k = n * k + k
         /\ m <= n => m * k <= n * k
<1>1. n * k \in Nat /\ m * k \in Nat /\ (n + 1) * k = n * k + k
  OBVIOUS
<1>2. ASSUME m <= n
      PROVE  m * k <= n * k
  <2>1. n - m \in Nat /\ (n - m) * k \in Nat
    BY <1>2
  <2>2. n * k = m * k + (n - m) * k
    OBVIOUS
  <2> QED
    BY <1>1, <2>1, <2>2
<1> QED
  BY <1>1, <1>2

LEMMA ZeroSum ==
  ASSUME NEW d \in Nat, NEW t \in Nat, d <= t
  PROVE  \A s : s = 0 => s + d <= t
OBVIOUS

\* What is not overdue by the sum of its parts.
LEMMA NotOverdue ==
  ASSUME NEW s \in Nat, NEW d \in Nat, NEW a \in Nat, NEW c \in Nat, NEW r \in Nat,
         NEW g \in Nat, NEW t \in Nat, t <= g, a <= r,
         IF a < r THEN s <= c + a ELSE s + d <= c + r + t
  PROVE  s <= c + r + g
OBVIOUS

LEMMA InTime ==
  ASSUME NEW l \in Nat, NEW a \in 0..l, NEW m \in Nat, NEW c \in Nat, c <= m
  PROVE  c + a <= m + l /\ c + a \in Nat
OBVIOUS

LEMMA CostFacts ==
  /\ \A n \in Nat : Cost(n) \in Nat /\ Cost(n + 1) = Cost(n) + Refresh + Gap
  /\ \A m, n \in Nat : m <= n => Cost(m) <= Cost(n)
  /\ Slow \in Nat /\ Slow = Cost(MaxBurst + 1) + Latency
<1>1. Refresh \in Nat /\ Gap \in Nat /\ Refresh + Gap \in Nat
  BY ConstantTypes
<1>2. \A m, n \in Nat : /\ Cost(n) \in Nat /\ Cost(n + 1) = Cost(n) + (Refresh + Gap)
                        /\ m <= n => Cost(m) <= Cost(n)
  BY <1>1, Product DEF Cost
<1>3. Slow = Cost(MaxBurst + 1) + Latency
  BY DEF Slow, Cost
<1>4. MaxBurst + 1 \in Nat
  BY ConstantTypes
<1>5. \A n \in Nat : Cost(n) \in Nat /\ Cost(n + 1) = Cost(n) + Refresh + Gap
  <2> SUFFICES ASSUME NEW n \in Nat
               PROVE  Cost(n) \in Nat /\ Cost(n + 1) = Cost(n) + Refresh + Gap
    OBVIOUS
  <2>1. Cost(n) \in Nat /\ Cost(n + 1) = Cost(n) + (Refresh + Gap)
    BY <1>2
  <2> QED
    BY <1>1, <2>1
<1>6. Slow \in Nat
  BY <1>3, <1>4, <1>5, ConstantTypes
<1> QED
  BY <1>2, <1>3, <1>5, <1>6

-----------------------------------------------------------------------------
(* ResolveLed.                                                             *)

LEMMA RgbType ==
  ASSUME NEW v \in Int \union {NaN}
  PROVE  Rgb(v) \in 0..(ColorSpan - 1)
<1>1. ColorMax \in Nat /\ ColorSpan \in Nat \ {0} /\ NaN \notin Int
  BY LedAssumption
<1>2. ClampCast(v, 0, ColorMax) \in Nat
  <2>1. CASE v = NaN
    BY <1>1, <2>1 DEF ClampCast
  <2>2. CASE v \in Int /\ v < 0
    BY <1>1, <2>2 DEF ClampCast
  <2>3. CASE v \in Int /\ v > ColorMax
    BY <1>1, <2>3 DEF ClampCast
  <2>4. CASE v \in 0..ColorMax
    BY <1>1, <2>4 DEF ClampCast
  <2> QED
    BY <1>1, <2>1, <2>2, <2>3, <2>4
<1> QED
  BY <1>1, <1>2 DEF Rgb

\* Each setting has an output, whatever its numbers are.
LEMMA ResolveType ==
  ASSUME NEW s \in Setting
  PROVE  ResolveLed(s) \in Output
<1>1. /\ s.mode \in Int \union {NaN} /\ s.color \in Int \union {NaN}
      /\ s.alt \in Int \union {NaN} /\ NaN \notin Int
  BY LedAssumption
<1>2. Finite(s.mode) \in Int /\ (s.mode = 1 <=> Finite(s.mode) = 1)
  BY <1>1 DEF Finite
<1>3. Flipped(s) \in BOOLEAN /\ (Finite(s.mode) = 1 => ~Flipped(s))
  BY <1>2 DEF Flipped
<1>4. 0 \in 0..(ColorSpan - 1)
  BY ConstantTypes
<1>5. /\ Off \in Output /\ Nothing \in Output /\ Solid(0) \in Output
      /\ Solid(Rgb(s.color)) \in Output /\ Solid(Rgb(s.alt)) \in Output
  BY <1>1, <1>4, RgbType DEF Output
<1>6. ResolveLed(s) \in {Off, Nothing, Solid(0), Solid(Rgb(s.color)), Solid(Rgb(s.alt))}
  <2>1. CASE Finite(s.mode) = 0
    BY <2>1 DEF ResolveLed
  <2>2. CASE Finite(s.mode) \in 1..3 /\ ~Flipped(s)
    BY <2>2 DEF ResolveLed
  <2>3. CASE Finite(s.mode) = 2 /\ Flipped(s)
    BY <2>3 DEF ResolveLed
  <2>4. CASE Finite(s.mode) = 3 /\ Flipped(s)
    BY <2>4 DEF ResolveLed
  <2>5. CASE Finite(s.mode) \notin 0..3
    BY <1>2, <2>5 DEF ResolveLed
  <2> QED
    BY <1>2, <1>3, <2>1, <2>2, <2>3, <2>4, <2>5
<1> QED
  BY <1>5, <1>6

LEMMA OutType == TypeOK => Out \in Output
BY ResolveType DEF TypeOK, Out

-----------------------------------------------------------------------------
(* The types.                                                              *)

LEMMA Types ==
  ASSUME TypeOK
  PROVE  /\ due \in Nat /\ sentAge \in 0..Refresh /\ burst \in 0..MaxBurst /\ since \in Nat
         /\ wire \in Seq(Frames) /\ Out \in Output /\ Stay \in Nat
         /\ Len(wire) \in Nat /\ DOMAIN wire = 1..Len(wire)
         /\ \A i \in DOMAIN wire : /\ wire[i].age \in 0..Latency
                                   /\ wire[i].val \in Output \ {Nothing}
<1>1. since \in Nat /\ wire \in Seq(Frames)
  BY CostFacts DEF TypeOK, Frames
<1>2. /\ Len(wire) \in Nat /\ DOMAIN wire = 1..Len(wire)
      /\ \A i \in DOMAIN wire : wire[i] \in Frames
  BY <1>1
<1> QED
  BY <1>1, <1>2, OutType, ConstantTypes DEF TypeOK, Frames, Stay

LEMMA AppendFrame ==
  ASSUME NEW w \in Seq(Frames), NEW f \in Frames
  PROVE  /\ Append(w, f) \in Seq(Frames) /\ Append(w, f) # << >>
         /\ Len(Append(w, f)) = Len(w) + 1
         /\ Append(w, f)[Len(w) + 1] = f
         /\ DOMAIN Append(w, f) = 1..(Len(w) + 1)
         /\ \A i \in 1..Len(w) : Append(w, f)[i] = w[i]
BY AppendProperties

LEMMA TailFrames ==
  ASSUME NEW w \in Seq(Frames), w # << >>
  PROVE  /\ Tail(w) \in Seq(Frames) /\ Head(w) = w[1] /\ Head(w) \in Frames
         /\ Len(Tail(w)) = Len(w) - 1 /\ Len(w) \in Nat \ {0}
         /\ DOMAIN Tail(w) = 1..(Len(w) - 1)
         /\ \A i \in 1..(Len(w) - 1) : Tail(w)[i] = w[i + 1]
         /\ Tail(w) = << >> <=> Len(w) = 1
<1>1. Len(w) \in Nat \ {0} /\ Head(w) = w[1] /\ Head(w) \in Frames
  BY EmptySeq, HeadTailProperties
<1>2. /\ Tail(w) \in Seq(Frames) /\ Len(Tail(w)) = Len(w) - 1
      /\ \A i \in 1..(Len(w) - 1) : Tail(w)[i] = w[i + 1]
  BY <1>1, HeadTailProperties
<1>3. DOMAIN Tail(w) = 1..(Len(w) - 1)
  BY <1>2, LenProperties
<1>4. Tail(w) = << >> <=> Len(w) = 1
  BY <1>1, <1>2, EmptySeq
<1> QED
  BY <1>1, <1>2, <1>3, <1>4

\* All frames grow older by one tick.
LEMMA OlderFrames ==
  ASSUME TypeOK, \A i \in DOMAIN wire : wire[i].age < Latency,
         wire' = [i \in DOMAIN wire |-> [wire[i] EXCEPT !.age = @ + 1]]
  PROVE  /\ wire' \in Seq(Frames) /\ Len(wire') = Len(wire) /\ DOMAIN wire' = DOMAIN wire
         /\ \A i \in DOMAIN wire : wire'[i].val = wire[i].val /\ wire'[i].age = wire[i].age + 1
         /\ wire' = << >> <=> wire = << >>
<1>1. wire \in Seq(Frames) /\ Len(wire) \in Nat /\ DOMAIN wire = 1..Len(wire)
  BY Types
<1>2. \A i \in DOMAIN wire : wire[i] \in Frames
  BY <1>1
<1>3. ASSUME NEW i \in DOMAIN wire
      PROVE  /\ wire'[i].val = wire[i].val /\ wire'[i].age = wire[i].age + 1
             /\ wire'[i] \in Frames
  <2>1. wire'[i] = [wire[i] EXCEPT !.age = @ + 1]
    BY <1>3
  <2>2. wire[i] \in Frames /\ wire[i].age < Latency
    BY <1>2, <1>3
  <2> QED
    BY <2>1, <2>2, ConstantTypes DEF Frames
<1>4. DOMAIN wire' = 1..Len(wire) /\ \A i \in 1..Len(wire) : wire'[i] \in Frames
  BY <1>1, <1>3
<1>5. wire' = [i \in 1..Len(wire) |-> wire'[i]]
  BY <1>1
<1>6. wire' \in [1..Len(wire) -> Frames]
  BY <1>4, <1>5
<1>7. wire' \in Seq(Frames)
  BY <1>1, <1>6, SeqDef
<1>8. Len(wire') = Len(wire)
  BY <1>1, <1>4, <1>7, LenProperties
<1> QED
  BY <1>1, <1>3, <1>4, <1>7, <1>8, EmptySeq

LEMMA UpType ==
  ASSUME NEW top \in Nat, NEW n \in 0..top
  PROVE  /\ Up(n, top) \in 0..top /\ n <= Up(n, top) /\ Up(n, top) <= n + 1
         /\ n < top => Up(n, top) = n + 1
BY DEF Up

LEMMA InitTypeOK == Init => TypeOK
<1> SUFFICES ASSUME Init
             PROVE  TypeOK
  OBVIOUS
<1>1. << >> \in Seq(Frames)
  OBVIOUS
<1>2. Nothing \in Output /\ 0 \in 0..(Slow + 1) /\ 0 \in 0..Refresh /\ StartWait \in Nat
      /\ 0 \in 0..MaxBurst /\ 0 \in 0..MaxFaults
  BY ConstantTypes, CostFacts DEF Output
<1> QED
  BY <1>1, <1>2, LedAssumption DEF Init, TypeOK, Frames

\* Every action but Tick and those of the line.
LEMMA HostKeepsTypes ==
  ASSUME TypeOK,
         \/ WriteTuning \/ WriteLed \/ OnActivate \/ HandshakeFails \/ Activated
         \/ OnDeactivate \/ Deactivated \/ ChangeLed \/ Reboot
  PROVE  TypeOK'
<1>0. /\ 0 \in 0..(Slow + 1) /\ 0 \in 0..Refresh /\ Nothing \in Output
      /\ WaitTime \in Nat /\ StartWait \in Nat /\ Period \in Nat /\ MaxFaults \in Nat
  BY ConstantTypes, CostFacts DEF Output
<1>1. CASE WriteTuning
  BY <1>0, <1>1 DEF WriteTuning, TypeOK
<1>2. CASE WriteLed
  <2>1. CASE LedDue
    <3>1. Out \in Output \ {Nothing} /\ [val |-> Out, age |-> 0] \in Frames
      BY <2>1, OutType, ConstantTypes DEF LedDue, Out, Frames
    <3>2. wire' \in Seq(Frames) /\ sentLed' \in Output /\ sentAge' \in 0..Refresh
      BY <1>0, <1>2, <2>1, <3>1, AppendFrame, Types DEF WriteLed, Out
    <3> QED
      BY <1>0, <1>2, <3>2 DEF WriteLed, TypeOK, Frames
  <2>2. CASE ~LedDue
    BY <1>0, <1>2, <2>2 DEF WriteLed, TypeOK
  <2> QED
    BY <2>1, <2>2
<1>3. CASE OnActivate \/ HandshakeFails
  BY <1>0, <1>3 DEF OnActivate, HandshakeFails, TypeOK
<1>4. CASE Activated
  BY <1>0, <1>4 DEF Activated, ResetLed, TypeOK
<1>5. CASE OnDeactivate
  <2>1. faults' \in 0..MaxFaults /\ AllZero \in Setting
    BY <1>0, <1>5, LedAssumption DEF OnDeactivate, TypeOK
  <2> QED
    BY <1>0, <1>5, <2>1 DEF OnDeactivate, TypeOK
<1>6. CASE Deactivated
  BY <1>0, <1>6 DEF Deactivated, Restarted, TypeOK
<1>7. CASE ChangeLed
  BY <1>0, <1>7 DEF ChangeLed, TypeOK, host
<1>8. CASE Reboot
  BY <1>0, <1>8 DEF Reboot, Restarted, TypeOK, host
<1> QED
  BY <1>1, <1>2, <1>3, <1>4, <1>5, <1>6, <1>7, <1>8

LEMMA LineKeepsTypes ==
  ASSUME TypeOK, BoardTakes \/ Lose
  PROVE  TypeOK'
<1>1. wire \in Seq(Frames) /\ wire # << >>
  BY Types DEF BoardTakes, Lose
<1>2. /\ Tail(wire) \in Seq(Frames) /\ Head(wire) \in Frames
  BY <1>1, TailFrames
<1>3. /\ 0 \in 0..MaxBurst
      /\ burst \in 0..MaxBurst /\ burst < MaxBurst => burst + 1 \in 0..MaxBurst
  BY ConstantTypes
<1>4. (lossy /\ Len(wire) > 1) \in BOOLEAN /\ (lossy \/ Len(wire) = 1) \in BOOLEAN
  OBVIOUS
<1>5. CASE BoardTakes
  BY <1>2, <1>3, <1>4, <1>5 DEF BoardTakes, TypeOK, Frames, host
<1>6. CASE Lose
  BY <1>2, <1>3, <1>4, <1>6 DEF Lose, TypeOK, Frames, host
<1> QED
  BY <1>5, <1>6

LEMMA TickKeepsTypes ==
  ASSUME TypeOK, Tick
  PROVE  TypeOK'
<1>1. due' \in Nat /\ time' \in 0..(Wrap - 1)
  <2>1. due \in Nat /\ due > 0 /\ time \in Nat /\ Wrap \in Nat \ {0}
    BY ConstantTypes DEF Tick, TypeOK
  <2>2. due - 1 \in Nat /\ (time + 1) % Wrap \in 0..(Wrap - 1)
    BY <2>1
  <2> QED
    BY <2>2 DEF Tick
<1>2. sentAge' \in 0..Refresh
  BY UpType, ConstantTypes DEF Tick, TypeOK
<1>3. Slow + 1 \in Nat
  BY CostFacts
<1>4. since' \in 0..(Slow + 1)
  BY <1>3, UpType DEF Tick, TypeOK
<1>5. wire' \in Seq(Frames)
  BY OlderFrames DEF Tick
<1> QED
  BY <1>1, <1>2, <1>4, <1>5 DEF Tick, TypeOK, Frames

LEMMA NextTypeOK == TypeOK /\ [Next]_vars => TypeOK'
<1> SUFFICES ASSUME TypeOK, [Next]_vars
             PROVE  TypeOK'
  OBVIOUS
<1>1. CASE UNCHANGED vars
  BY <1>1 DEF vars, host, TypeOK
<1> QED
  BY <1>1, HostKeepsTypes, LineKeepsTypes, TickKeepsTypes DEF Next

\* Every variable keeps its type (TypeOK of LedRefresh), for all constants.
THEOREM LedTypeOK == Spec => []TypeOK
BY InitTypeOK, NextTypeOK, PTL DEF Spec

-----------------------------------------------------------------------------
(* The invariant holds: Line and Timing, given the types.                  *)

\* Whatever starts the time over leaves nothing overdue.
LEMMA StartOver ==
  ASSUME TypeOK', since' = 0, Looping' => due' <= Stay'
  PROVE  Timing'
<1>1. /\ due' \in Nat /\ Stay' \in Nat /\ sentAge' \in 0..Refresh /\ burst' \in Nat
      /\ Len(wire') \in Nat /\ DOMAIN wire' = 1..Len(wire')
      /\ \A i \in DOMAIN wire' : wire'[i].age \in 0..Latency
  <2>1. /\ due' \in Nat /\ burst' \in 0..MaxBurst /\ sentAge' \in 0..Refresh
        /\ wire' \in Seq(Frames)
    BY DEF TypeOK, Frames
  <2>2. /\ Len(wire') \in Nat /\ DOMAIN wire' = 1..Len(wire')
        /\ \A i \in DOMAIN wire' : wire'[i] \in Frames
    BY <2>1
  <2> QED
    BY <2>1, <2>2, ConstantTypes DEF Frames, Stay
<1>2. Gap \in Nat /\ Refresh \in Nat /\ Latency \in Nat
  BY ConstantTypes
<1>3. \A n \in Nat : Cost(n) \in Nat
  BY CostFacts
<1>4. Phase' /\ SendsSoon' /\ Recent'
  <2>1. Phase'
    BY DEF Phase
  <2>2. SendsSoon'
    <3>1. due' \in Nat
      BY <1>1
    <3>2. Looping' => since' + due' <= Stay'
      BY <1>1, <3>1, ZeroSum
    <3> QED
      BY <3>2 DEF SendsSoon
  <2>3. \A i \in DOMAIN wire' : ~(wire'[i].age < since')
    BY <1>1
  <2> QED
    BY <2>1, <2>2, <2>3 DEF Recent
<1>5. OnItsWay'
  <2>1. wire' # << >> => Len(wire') \in DOMAIN wire'
    <3>1. wire' \in Seq(Frames)
      BY DEF TypeOK, Frames
    <3> QED
      BY <1>1, <3>1, EmptySeq
  <2> QED
    BY <1>1, <1>2, <2>1 DEF OnItsWay
<1>6. Repeated'
  <2>1. ASSUME NEW i \in DOMAIN wire'
        PROVE  0 <= Cost(burst' + i) + wire'[i].age
    <3>1. burst' + i \in Nat /\ wire'[i].age \in Nat
      BY <1>1
    <3> QED
      BY <1>3, <3>1
  <2> QED
    BY <2>1 DEF Repeated
<1>7. Repeats'
  <2>1. burst' + Len(wire') \in Nat
    BY <1>1
  <2>2. Cost(burst' + Len(wire')) \in Nat
    BY <1>3, <2>1
  <2> QED
    BY <1>1, <1>2, <2>2 DEF Repeats
<1> QED
  BY <1>4, <1>5, <1>6, <1>7 DEF Timing

\* Lifecycle steps, other settings and reboots.
LEMMA StartsOver ==
  ASSUME IInv, TypeOK',
         OnActivate \/ HandshakeFails \/ Activated \/ OnDeactivate \/ Deactivated \/ Reboot
  PROVE  Line' /\ Timing'
<1>1. since' = 0 /\ UNCHANGED wire
  BY DEF OnActivate, HandshakeFails, Activated, OnDeactivate, Deactivated, Reboot
<1>2. Looping' => due' <= Stay'
  BY ConstantTypes DEF OnActivate, HandshakeFails, Activated, OnDeactivate, Deactivated, Reboot,
     Looping, Stay, host, IInv, Timing, Phase
<1>3. Line'
  <2>1. CASE OnActivate \/ HandshakeFails \/ OnDeactivate
    BY <1>1, <2>1 DEF OnActivate, HandshakeFails, OnDeactivate, IInv, Line, LastSent, Kept,
                      Spaced
  <2>2. CASE Activated
    BY <1>1, <2>2, Types DEF Activated, ResetLed, IInv, Line, LastSent, Kept, Spaced
  <2>3. CASE Deactivated \/ Reboot
    BY <1>1, <2>3 DEF Deactivated, Reboot, Restarted, IInv, Line, LastSent, Kept, Spaced
  <2> QED
    BY <2>1, <2>2, <2>3
<1> QED
  BY <1>1, <1>2, <1>3, StartOver

LEMMA ChangeKeeps ==
  ASSUME IInv, TypeOK', ChangeLed
  PROVE  Line' /\ Timing'
<1>1. UNCHANGED <<lc, pc, due, time, sentLed, sentAge, wire, led, burst, lossy>>
  BY DEF ChangeLed, host
<1>2. Out' = ResolveLed(gpio')
  BY <1>1 DEF Out, ResolveLed, Flipped
<1>3. Line'
  BY <1>1 DEF IInv, Line, LastSent, Kept, Spaced
<1>4. CASE Out' = Out
  <2>1. since' = since
    BY <1>2, <1>4 DEF ChangeLed, Out
  <2>2. Timing'
    BY <1>1, <1>4, <2>1 DEF IInv, Timing, Phase, Looping, Stay, SendsSoon, Recent, OnItsWay,
       Repeated, Repeats, Shown, Out
  <2> QED
    BY <1>3, <2>2
<1>5. CASE Out' # Out
  <2>1. since' = 0
    BY <1>2, <1>5 DEF ChangeLed, Out
  <2>2. Looping' => due' <= Stay'
    BY <1>1 DEF IInv, Timing, Phase, Looping, Stay
  <2> QED
    BY <1>3, <2>1, <2>2, StartOver
<1> QED
  BY <1>4, <1>5

LEMMA SameOut ==
  ASSUME UNCHANGED <<gpio, time>>
  PROVE  Out' = Out /\ (led' = led => (Shown' <=> Shown))
<1>1. Out' = Out
  BY DEF Out, ResolveLed, Flipped
<1> QED
  BY <1>1 DEF Out, Shown

\* The tuning commands take their time, and no more.
LEMMA TuningKeeps ==
  ASSUME IInv, WriteTuning
  PROVE  Line' /\ Timing'
<1>1. /\ pc = "idle" /\ pc' = "tuning" /\ due' = WaitTime /\ due < Period
      /\ UNCHANGED <<gpio, time, sentLed, sentAge, wire, led, burst, lossy, since>>
  BY DEF WriteTuning
<1>2. Out' = Out /\ (Shown' <=> Shown)
  BY <1>1, SameOut
<1>3. /\ Looping /\ Looping' /\ Stay = Period /\ Stay' = Gap
  BY <1>1 DEF Looping, Stay
<1>4. /\ Gap = Period + WaitTime /\ Period \in Nat /\ WaitTime \in Nat /\ Refresh \in Nat
      /\ due \in Nat /\ since \in Nat
  BY ConstantTypes, Types DEF IInv
<1>5. Line' /\ Recent' /\ OnItsWay' /\ Repeated'
  BY <1>1, <1>2 DEF IInv, Line, Timing, LastSent, Kept, Spaced, Recent, OnItsWay, Repeated
<1>6. Phase' /\ SendsSoon'
  BY <1>1, <1>2, <1>3, <1>4 DEF IInv, Timing, Phase, SendsSoon
<1>7. Repeats'
  <2>1. Cost(burst + Len(wire)) \in Nat
    <3>1. burst + Len(wire) \in Nat
      BY Types, ConstantTypes DEF IInv
    <3> QED
      BY <3>1, CostFacts
  <2>2. Repeats
    BY DEF IInv, Timing
  <2> QED
    BY <1>1, <1>2, <1>3, <1>4, <2>1, <2>2 DEF Repeats
<1> QED
  BY <1>5, <1>6, <1>7 DEF Timing

\* The LED's turn in write(): a new output is sent, and one that shows long enough again.
LEMMA WriteKeeps ==
  ASSUME IInv, TypeOK', WriteLed
  PROVE  Line' /\ Timing'
<1>1. /\ Looping /\ Looping' /\ pc' = "idle" /\ due' = Period /\ Stay' = Period
      /\ UNCHANGED <<gpio, time, led, burst, lossy, since>>
  BY DEF WriteLed, Looping, Stay
<1>2. Out' = Out /\ (Shown' <=> Shown)
  BY <1>1, SameOut
<1>3. /\ due \in Nat /\ sentAge \in 0..Refresh /\ burst \in Nat /\ since \in Nat /\ Stay \in Nat
      /\ wire \in Seq(Frames) /\ Out \in Output /\ Len(wire) \in Nat
      /\ DOMAIN wire = 1..Len(wire)
      /\ \A i \in DOMAIN wire : wire[i].age \in 0..Latency
      /\ Gap \in Nat /\ Refresh \in Nat \ {0} /\ Period \in Nat /\ Latency < Refresh
      /\ Latency \in Nat /\ Stay <= Gap /\ Period <= Gap
  BY Types, ConstantTypes DEF IInv, Stay
<1>4. Line /\ Phase /\ SendsSoon /\ Recent /\ OnItsWay /\ Repeated /\ Repeats
  BY DEF IInv, Timing
<1>5. since <= Gap \/ Out \in {Nothing, sentLed}
  BY <1>1, <1>3, <1>4 DEF SendsSoon
<1>6. CASE ~LedDue
  <2>1. /\ UNCHANGED <<sentLed, sentAge, wire>>
        /\ Out = Nothing \/ (Out = sentLed /\ sentAge < Refresh)
    BY <1>3, <1>6 DEF WriteLed, LedDue, Out
  <2>2. Line' /\ Phase' /\ SendsSoon' /\ Recent' /\ OnItsWay' /\ Repeated'
    BY <1>1, <1>2, <1>3, <1>4, <2>1
       DEF Line, LastSent, Kept, Spaced, Phase, SendsSoon, Recent, OnItsWay, Repeated
  <2>3. Repeats'
    <3>1. Shown => Shown'
      BY <1>2
    <3>2. Out = Nothing => Shown
      BY DEF Shown, Out
    <3> QED
      BY <1>1, <1>2, <1>4, <2>1, <3>1, <3>2 DEF Repeats
  <2> QED
    BY <2>2, <2>3 DEF Timing
<1>7. CASE LedDue
  <2> DEFINE f == [val |-> Out, age |-> 0]
  <2>1. /\ Out # Nothing /\ (Out # sentLed \/ sentAge = Refresh)
        /\ sentLed' = Out /\ sentAge' = 0 /\ wire' = Append(wire, f)
    BY <1>1, <1>7 DEF WriteLed, LedDue, Out
  <2>2. f \in Frames
    BY <1>3, <2>1 DEF Frames
  <2>3. /\ wire' # << >> /\ Len(wire') = Len(wire) + 1 /\ wire'[Len(wire) + 1] = f
        /\ DOMAIN wire' = 1..(Len(wire) + 1) /\ \A i \in 1..Len(wire) : wire'[i] = wire[i]
    BY <1>3, <2>1, <2>2, AppendFrame
  <2>4. \A i \in DOMAIN wire' : (i \in DOMAIN wire /\ wire'[i] = wire[i]) \/ i = Len(wire) + 1
    BY <1>3, <2>3
  <2>5. f.val = Out /\ f.age = 0
    OBVIOUS
  <2> HIDE DEF f
  <2>6. Line'
    BY <1>3, <2>1, <2>3, <2>4, <2>5 DEF Line, LastSent, Kept, Spaced
  <2>7. Phase' /\ SendsSoon'
    BY <1>1, <1>2, <1>3, <2>1 DEF Phase, SendsSoon
  <2>8. Recent'
    BY <1>1, <1>2, <1>4, <2>3, <2>4, <2>5 DEF Recent
  <2>9. \A n \in Nat : Cost(n) \in Nat /\ Cost(n + 1) = Cost(n) + Refresh + Gap
    BY CostFacts
  <2>10. OnItsWay'
    <3>1. CASE since <= Gap
      BY <1>1, <1>3, <2>3, <2>5, <3>1 DEF OnItsWay
    <3>2. CASE Out = sentLed
      <4>1. sentAge = Refresh
        BY <2>1, <3>2
      <4>2. wire = << >>
        <5>1. \A i \in DOMAIN wire : FALSE
          BY <1>3, <1>4, <4>1 DEF Line, Spaced
        <5>2. Len(wire) = 0
          <6>1. Len(wire) # 0 => 1 \in DOMAIN wire
            BY <1>3
          <6> QED
            BY <5>1, <6>1
        <5> QED
          BY <1>3, <5>2, EmptySeq
      <4>3. Len(wire') = 1
        BY <1>3, <2>3, <4>2
      <4>4. ~lossy => led = Out
        BY <1>4, <2>1, <3>2, <4>2 DEF Line, Kept
      <4> QED
        BY <1>1, <1>2, <4>3, <4>4 DEF OnItsWay
    <3> QED
      BY <1>5, <2>1, <3>1, <3>2
  <2>11. ~Shown => since <= Cost(burst + (Len(wire) + 1))
    <3>1. /\ burst + Len(wire) \in Nat /\ Cost(burst + Len(wire)) \in Nat
          /\ Cost(burst + (Len(wire) + 1)) = Cost(burst + Len(wire)) + Refresh + Gap
      <4>1. burst + Len(wire) \in Nat /\ burst + (Len(wire) + 1) = (burst + Len(wire)) + 1
        BY <1>3
      <4> QED
        BY <2>9, <4>1
    <3>2. CASE since <= Gap
      BY <1>3, <3>1, <3>2
    <3>3. CASE Out = sentLed /\ sentAge = Refresh /\ ~Shown
      <4>1. since + due <= Cost(burst + Len(wire)) + Refresh + Stay
        BY <1>1, <1>3, <1>4, <3>3 DEF Repeats
      <4> QED
        BY <1>3, <3>1, <4>1
    <3> QED
      BY <1>5, <2>1, <3>2, <3>3
  <2>12. Repeated'
    <3>1. ASSUME NEW i \in DOMAIN wire', ~Shown
          PROVE  since <= Cost(burst + i) + wire'[i].age
      <4>1. CASE i \in DOMAIN wire /\ wire'[i] = wire[i]
        BY <1>4, <3>1, <4>1 DEF Repeated
      <4>2. CASE i = Len(wire) + 1
        <5>1. burst + (Len(wire) + 1) \in Nat
          BY <1>3
        <5>2. Cost(burst + (Len(wire) + 1)) \in Nat
          BY <2>9, <5>1
        <5> QED
          BY <1>3, <2>3, <2>5, <2>11, <3>1, <4>2, <5>2
      <4> QED
        BY <2>4, <4>1, <4>2
    <3> QED
      BY <1>1, <1>2, <3>1 DEF Repeated
  <2>13. Repeats'
    <3>1. burst + (Len(wire) + 1) \in Nat
      BY <1>3
    <3>2. Cost(burst + (Len(wire) + 1)) \in Nat
      BY <2>9, <3>1
    <3> QED
      BY <1>1, <1>2, <1>3, <2>1, <2>3, <2>11, <3>2 DEF Repeats
  <2> QED
    BY <2>6, <2>7, <2>8, <2>10, <2>12, <2>13 DEF Timing
<1> QED
  BY <1>6, <1>7

\* What shows after the board took a frame: it is the output, or the frame is older than the
\* output.
LEMMA BoardKeeps ==
  ASSUME IInv, TypeOK', BoardTakes
  PROVE  Line' /\ Timing'
<1>1. /\ UNCHANGED <<pc, due, gpio, time, sentLed, sentAge, since>>
      /\ wire # << >> /\ wire' = Tail(wire) /\ led' = Head(wire).val /\ burst' = 0
      /\ lossy' = (lossy /\ Len(wire) > 1)
  BY DEF BoardTakes, host
<1>2. Out' = Out /\ (Shown' <=> led' = Out \/ Out = Nothing)
  BY <1>1, SameOut DEF Shown, Out
<1>3. /\ due \in Nat /\ sentAge \in 0..Refresh /\ burst \in Nat /\ since \in Nat /\ Stay \in Nat
      /\ wire \in Seq(Frames) /\ DOMAIN wire = 1..Len(wire)
      /\ \A i \in DOMAIN wire : wire[i].age \in 0..Latency
      /\ Gap \in Nat /\ Refresh \in Nat \ {0} /\ Latency < Refresh /\ Latency \in Nat
  BY Types, ConstantTypes DEF IInv
<1>4. Line /\ Phase /\ SendsSoon /\ Recent /\ OnItsWay /\ Repeated /\ Repeats
  BY DEF IInv, Timing
<1>5. /\ Head(wire) = wire[1] /\ 1 \in DOMAIN wire
      /\ Len(wire') = Len(wire) - 1 /\ Len(wire) \in Nat \ {0}
      /\ DOMAIN wire' = 1..(Len(wire) - 1)
      /\ \A i \in 1..(Len(wire) - 1) : wire'[i] = wire[i + 1]
      /\ wire' = << >> <=> Len(wire) = 1
  BY <1>1, <1>3, TailFrames
<1>6. \A i \in DOMAIN wire' : i + 1 \in DOMAIN wire /\ wire'[i] = wire[i + 1] /\ i \in Nat
  BY <1>3, <1>5
<1>7. Len(wire) > 1 => Len(wire') \in 1..(Len(wire) - 1) /\ wire'[Len(wire')] = wire[Len(wire)]
  BY <1>5
<1>8. Line'
  <2>1. LastSent'
    BY <1>1, <1>4, <1>5, <1>7 DEF Line, LastSent
  <2>2. Kept'
    BY <1>1, <1>4, <1>5 DEF Line, LastSent, Kept
  <2>3. Spaced'
    BY <1>1, <1>4, <1>6 DEF Line, Spaced
  <2> QED
    BY <2>1, <2>2, <2>3 DEF Line
<1>9. Phase' /\ SendsSoon' /\ Recent'
  BY <1>1, <1>2, <1>4, <1>6 DEF Phase, Looping, Stay, SendsSoon, Recent
<1>10. OnItsWay'
  <2> SUFFICES ASSUME Out = sentLed, Out # Nothing, ~lossy', wire' # << >>
               PROVE  since <= wire'[Len(wire')].age + Gap
    BY <1>1, <1>2 DEF OnItsWay
  <2>1. Len(wire) > 1 /\ Len(wire) # 1
    BY <1>5
  <2>2. wire'[Len(wire')] = wire[Len(wire)]
    BY <1>7, <2>1
  <2>3. ~lossy
    BY <2>1, Zenon DEF BoardTakes
  <2> QED
    BY <1>1, <1>4, <2>1, <2>2, <2>3 DEF OnItsWay
<1>11. ~Shown' => since <= Latency
  <2>1. ~Shown' => wire[1].val # Out
    BY <1>1, <1>2, <1>5
  <2>2. ~Shown' => ~(wire[1].age < since)
    BY <1>4, <1>5, <2>1 DEF Recent
  <2>3. wire[1].age \in 0..Latency
    BY <1>3, <1>5
  <2> QED
    BY <1>3, <2>2, <2>3
<1>12. \A n \in Nat : Cost(n) \in Nat /\ (n # 0 => Refresh <= Cost(n))
  <2>1. \A n \in Nat : Cost(n) \in Nat /\ Cost(n + 1) = Cost(n) + Refresh + Gap
    BY CostFacts
  <2>2. ASSUME NEW n \in Nat, n # 0
        PROVE  Refresh <= Cost(n)
    <3>1. n - 1 \in Nat /\ n = (n - 1) + 1
      BY <2>2
    <3>2. Cost(n - 1) \in Nat /\ Cost(n) = Cost(n - 1) + Refresh + Gap
      BY <2>1, <3>1
    <3> QED
      BY <1>3, <3>2
  <2> QED
    BY <2>1, <2>2
<1>13. Repeated'
  <2>1. ASSUME NEW i \in DOMAIN wire', ~Shown'
        PROVE  since <= Cost(0 + i) + wire'[i].age
    <3>1. i \in Nat /\ i # 0 /\ 0 + i = i /\ wire'[i].age \in 0..Latency
      BY <1>3, <1>5, <1>6, <2>1
    <3>2. Cost(i) \in Nat /\ Refresh <= Cost(i)
      BY <1>12, <3>1
    <3> QED
      BY <1>3, <1>11, <2>1, <3>1, <3>2
  <2> QED
    BY <1>1, <2>1 DEF Repeated
<1>14. Repeats'
  <2>1. CASE Len(wire) = 1
    BY <1>1, <1>2, <1>4, <1>5, <2>1 DEF Line, LastSent, Repeats
  <2>2. CASE Len(wire) > 1
    <3>1. 0 + Len(wire') \in Nat /\ 0 + Len(wire') # 0
      BY <1>5, <1>7, <2>2
    <3>2. Cost(0 + Len(wire')) \in Nat /\ Refresh <= Cost(0 + Len(wire'))
      BY <1>12, <3>1
    <3>3. Stay' = Stay /\ (Looping' => Looping)
      BY <1>1 DEF Stay, Looping
    <3>4. Looping => due <= Stay
      BY <1>4 DEF Phase
    <3> QED
      BY <1>1, <1>3, <1>11, <3>2, <3>3, <3>4 DEF Repeats
  <2> QED
    BY <1>5, <2>1, <2>2
<1> QED
  BY <1>8, <1>9, <1>10, <1>13, <1>14 DEF Timing

\* A frame that is lost counts as one lost in a row instead of one on its way.
LEMMA LoseKeeps ==
  ASSUME IInv, TypeOK', Lose
  PROVE  Line' /\ Timing'
<1>1. /\ UNCHANGED <<pc, due, gpio, time, sentLed, sentAge, since, led>>
      /\ wire # << >> /\ wire' = Tail(wire) /\ burst' = burst + 1
      /\ lossy' = (lossy \/ Len(wire) = 1)
  BY DEF Lose, host
<1>2. Out' = Out /\ (Shown' <=> Shown)
  BY <1>1, SameOut
<1>3. burst \in Nat /\ wire \in Seq(Frames) /\ DOMAIN wire = 1..Len(wire)
  BY Types, ConstantTypes DEF IInv
<1>4. Line /\ Phase /\ SendsSoon /\ Recent /\ OnItsWay /\ Repeated /\ Repeats
  BY DEF IInv, Timing
<1>5. /\ Len(wire') = Len(wire) - 1 /\ Len(wire) \in Nat \ {0}
      /\ DOMAIN wire' = 1..(Len(wire) - 1)
      /\ \A i \in 1..(Len(wire) - 1) : wire'[i] = wire[i + 1]
      /\ wire' = << >> <=> Len(wire) = 1
  BY <1>1, <1>3, TailFrames
<1>6. \A i \in DOMAIN wire' : i + 1 \in DOMAIN wire /\ wire'[i] = wire[i + 1] /\ i \in Nat
  BY <1>3, <1>5
<1>7. Len(wire) > 1 => Len(wire') \in 1..(Len(wire) - 1) /\ wire'[Len(wire')] = wire[Len(wire)]
  BY <1>5
<1>8. Line'
  <2>1. LastSent'
    BY <1>1, <1>4, <1>5, <1>7 DEF Line, LastSent
  <2>2. Kept'
    BY <1>1, <1>5 DEF Kept
  <2>3. Spaced'
    BY <1>1, <1>4, <1>6 DEF Line, Spaced
  <2> QED
    BY <2>1, <2>2, <2>3 DEF Line
<1>9. Phase' /\ SendsSoon' /\ Recent'
  BY <1>1, <1>2, <1>4, <1>6 DEF Phase, Looping, Stay, SendsSoon, Recent
<1>10. OnItsWay'
  <2> SUFFICES ASSUME Out = sentLed, Out # Nothing, ~lossy', wire' # << >>
               PROVE  since <= wire'[Len(wire')].age + Gap
    BY <1>1, <1>2 DEF OnItsWay
  <2>1. Len(wire) > 1 /\ Len(wire) # 1
    BY <1>5
  <2>2. wire'[Len(wire')] = wire[Len(wire)]
    BY <1>7, <2>1
  <2>3. ~lossy
    BY <2>1, Zenon DEF Lose
  <2> QED
    BY <1>1, <1>4, <2>1, <2>2, <2>3 DEF OnItsWay
<1>11. Repeated'
  <2>1. ASSUME NEW i \in DOMAIN wire', ~Shown
        PROVE  since <= Cost(burst' + i) + wire'[i].age
    <3>1. i + 1 \in DOMAIN wire /\ wire'[i] = wire[i + 1] /\ burst' + i = burst + (i + 1)
      BY <1>1, <1>3, <1>6
    <3>2. since <= Cost(burst + (i + 1)) + wire[i + 1].age
      BY <1>4, <2>1, <3>1 DEF Repeated
    <3> QED
      BY <3>1, <3>2
  <2> QED
    BY <1>1, <1>2, <2>1 DEF Repeated
<1>12. Repeats'
  <2>1. burst' + Len(wire') = burst + Len(wire)
    BY <1>1, <1>3, <1>5
  <2>2. Stay' = Stay /\ (Looping' <=> Looping)
    BY <1>1 DEF Stay, Looping
  <2> QED
    BY <1>1, <1>2, <1>4, <2>1, <2>2 DEF Repeats
<1> QED
  BY <1>8, <1>9, <1>10, <1>11, <1>12 DEF Timing

\* A tick: all times grow alike.
LEMMA TickKeeps ==
  ASSUME IInv, TypeOK', Tick
  PROVE  Line' /\ Timing'
<1>1. /\ UNCHANGED <<pc, gpio, sentLed, led, burst, lossy>> /\ due' = due - 1 /\ due > 0
      /\ sentAge' = Up(sentAge, Refresh)
      /\ since' = IF Looping /\ Out' = Out THEN Up(since, Slow + 1) ELSE 0
  BY DEF Tick, Looping, Out
<1>2. /\ wire' \in Seq(Frames) /\ Len(wire') = Len(wire) /\ DOMAIN wire' = DOMAIN wire
      /\ \A i \in DOMAIN wire : wire'[i].val = wire[i].val /\ wire'[i].age = wire[i].age + 1
      /\ wire' = << >> <=> wire = << >>
  BY OlderFrames DEF Tick, IInv
<1>3. /\ due \in Nat /\ sentAge \in 0..Refresh /\ burst \in Nat /\ since \in 0..(Slow + 1)
      /\ since \in Nat /\ Stay \in Nat /\ Slow + 1 \in Nat
      /\ wire \in Seq(Frames) /\ Len(wire) \in Nat /\ DOMAIN wire = 1..Len(wire)
      /\ \A i \in DOMAIN wire : wire[i].age \in 0..Latency
      /\ Gap \in Nat /\ Refresh \in Nat \ {0} /\ Latency < Refresh /\ Latency \in Nat
  <2>1. TypeOK /\ Slow \in Nat /\ since \in 0..(Slow + 1)
    BY CostFacts DEF IInv, TypeOK
  <2>2. Slow + 1 \in Nat
    BY <2>1
  <2> QED
    BY <2>1, <2>2, Types, ConstantTypes
<1>4. Line /\ Phase /\ SendsSoon /\ Recent /\ OnItsWay /\ Repeated /\ Repeats
  BY DEF IInv, Timing
<1>5. /\ sentAge' \in 0..Refresh /\ sentAge' <= sentAge + 1
      /\ sentAge < Refresh => sentAge' = sentAge + 1
      /\ sentAge = Refresh => sentAge' = Refresh
  BY <1>1, <1>3 DEF Up
<1>6. /\ wire # << >> => Len(wire) \in DOMAIN wire
  BY <1>3, EmptySeq
<1>7. Line'
  <2>1. LastSent' /\ Kept'
    BY <1>1, <1>2, <1>4, <1>6 DEF Line, LastSent, Kept
  <2>2. Spaced'
    <3>1. ASSUME NEW i \in DOMAIN wire
          PROVE  sentAge' <= wire[i].age + 1
      <4>1. sentAge <= wire[i].age /\ wire[i].age \in Nat
        BY <1>3, <1>4 DEF Line, Spaced
      <4> QED
        BY <1>3, <1>5, <4>1
    <3> QED
      BY <1>2, <3>1 DEF Spaced
  <2> QED
    BY <2>1, <2>2 DEF Line
<1>8. (Looping' <=> Looping) /\ Stay' = Stay /\ (Looping => due <= Stay)
  BY <1>1, <1>4 DEF Looping, Stay, Phase
<1>9. CASE ~(Looping /\ Out' = Out)
  BY <1>1, <1>3, <1>7, <1>8, <1>9, StartOver
<1>10. CASE Looping /\ Out' = Out
  <2>1. since' \in Nat /\ since' <= since + 1
    BY <1>1, <1>3, <1>10 DEF Up
  <2>2. Shown' <=> Shown
    BY <1>1, <1>10 DEF Shown, Out
  <2>3. Phase' /\ SendsSoon'
    BY <1>1, <1>3, <1>4, <1>8, <1>10, <2>1 DEF Phase, SendsSoon
  <2>4. Recent'
    <3>1. ASSUME NEW i \in DOMAIN wire, wire[i].age + 1 < since'
          PROVE  wire[i].val = Out
      <4>1. wire[i].age < since
        BY <1>3, <2>1, <3>1
      <4> QED
        BY <1>4, <4>1 DEF Recent
    <3> QED
      BY <1>2, <1>10, <3>1 DEF Recent
  <2>5. OnItsWay'
    <3>1. ASSUME wire # << >>, since <= wire[Len(wire)].age + Gap
          PROVE  since' <= wire'[Len(wire')].age + Gap
      <4>1. wire[Len(wire)].age \in Nat /\ wire'[Len(wire')].age = wire[Len(wire)].age + 1
        BY <1>2, <1>3, <1>6, <3>1
      <4> QED
        BY <1>3, <2>1, <3>1, <4>1
    <3> QED
      BY <1>1, <1>2, <1>4, <1>10, <3>1 DEF OnItsWay
  <2>6. \A n \in Nat : Cost(n) \in Nat
    BY CostFacts
  <2>7. Repeated'
    <3>1. ASSUME NEW i \in DOMAIN wire, ~Shown
          PROVE  since' <= Cost(burst + i) + (wire[i].age + 1)
      <4>1. since <= Cost(burst + i) + wire[i].age
        BY <1>4, <3>1 DEF Repeated
      <4>2. burst + i \in Nat /\ wire[i].age \in Nat
        BY <1>3
      <4>3. Cost(burst + i) \in Nat
        BY <2>6, <4>2
      <4> QED
        BY <1>3, <2>1, <4>1, <4>2, <4>3
    <3> QED
      BY <1>1, <1>2, <2>2, <3>1 DEF Repeated
  <2>8. Repeats'
    <3> SUFFICES ASSUME ~Shown, Out = sentLed
                 PROVE  IF sentAge' < Refresh
                        THEN since' <= Cost(burst + Len(wire)) + sentAge'
                        ELSE since' + due' <= Cost(burst + Len(wire)) + Refresh + Stay
      BY <1>1, <1>2, <1>8, <1>10, <2>2 DEF Repeats
    <3>1. burst + Len(wire) \in Nat
      BY <1>3
    <3>2. Cost(burst + Len(wire)) \in Nat
      BY <2>6, <3>1
    <3>3. IF sentAge < Refresh THEN since <= Cost(burst + Len(wire)) + sentAge
                               ELSE since + due <= Cost(burst + Len(wire)) + Refresh + Stay
      BY <1>4, <1>10 DEF Repeats
    <3>4. CASE sentAge < Refresh
      BY <1>1, <1>3, <1>5, <1>8, <1>10, <2>1, <3>2, <3>3, <3>4
    <3>5. CASE sentAge = Refresh
      BY <1>1, <1>3, <1>5, <2>1, <3>2, <3>3, <3>5
    <3> QED
      BY <1>3, <3>4, <3>5
  <2> QED
    BY <1>7, <2>3, <2>4, <2>5, <2>7, <2>8 DEF Timing
<1> QED
  BY <1>9, <1>10

LEMMA InitIInv == Init => IInv
<1> SUFFICES ASSUME Init
             PROVE  IInv
  OBVIOUS
<1>1. TypeOK
  BY InitTypeOK
<1>2. Cost(0 + 0) \in Nat
  BY CostFacts
<1> QED
  BY <1>1, <1>2 DEF Init, IInv, Line, Timing, LastSent, Kept, Spaced, Phase, Looping,
     SendsSoon, Recent, OnItsWay, Repeated, Repeats

LEMMA NextIInv == IInv /\ [Next]_vars => IInv'
<1> SUFFICES ASSUME IInv, [Next]_vars
             PROVE  IInv'
  OBVIOUS
<1>1. TypeOK'
  BY NextTypeOK DEF IInv
<1>2. CASE Next
  BY <1>1, <1>2, StartsOver, ChangeKeeps, TuningKeeps, WriteKeeps, BoardKeeps, LoseKeeps,
     TickKeeps DEF Next, IInv
<1>3. CASE UNCHANGED vars
  <2>1. UNCHANGED <<pc, due, gpio, time, sentLed, sentAge, wire, led, burst, lossy, since>>
    BY <1>3 DEF vars, host
  <2>2. Out' = Out /\ (Shown' <=> Shown)
    BY <2>1, SameOut
  <2> QED
    BY <1>1, <2>1, <2>2 DEF IInv, Line, Timing, LastSent, Kept, Spaced, Phase, Looping, Stay,
       SendsSoon, Recent, OnItsWay, Repeated, Repeats
<1> QED
  BY <1>2, <1>3

LEMMA Invariance == Spec => []IInv
BY InitIInv, NextIInv, PTL DEF Spec

-----------------------------------------------------------------------------
\* What was not sent in time is not the output.
LEMMA SentByNow ==
  ASSUME IInv, since > Gap, Out # Nothing
  PROVE  Out = sentLed /\ Looping
<1>1. since \in Nat /\ due \in Nat /\ Gap \in Nat /\ Stay \in Nat /\ Stay <= Gap
  BY Types, ConstantTypes DEF IInv, Stay
<1> QED
  BY <1>1 DEF IInv, Timing, Phase, SendsSoon

\* A change of a setting, a flip and an activation show within a cycle, unless the frame is
\* lost (ChangesShow of LedRefresh), for all settings, periods and waits.
THEOREM LedChangesShow == Spec => []ChangesShow
<1>1. ASSUME IInv, since > Fast, ~lossy, Out # Nothing
      PROVE  led = Out
  <2>1. /\ since \in Nat /\ wire \in Seq(Frames) /\ Gap \in Nat /\ Latency \in Nat
        /\ Fast = Gap + Latency
        /\ DOMAIN wire = 1..Len(wire) /\ Len(wire) \in Nat
        /\ \A i \in DOMAIN wire : wire[i].age \in 0..Latency
    BY <1>1, Types, ConstantTypes DEF IInv
  <2>2. Out = sentLed
    BY <1>1, <2>1, SentByNow
  <2>3. CASE wire = << >>
    BY <1>1, <2>2, <2>3 DEF IInv, Line, Kept
  <2>4. CASE wire # << >>
    <3>1. Len(wire) \in DOMAIN wire
      BY <2>1, <2>4, EmptySeq
    <3>2. wire[Len(wire)].age \in 0..Latency
      BY <2>1, <3>1
    <3> QED
      BY <1>1, <2>1, <2>2, <2>4, <3>2 DEF IInv, Timing, OnItsWay
  <2> QED
    BY <2>3, <2>4
<1>2. IInv => ChangesShow
  BY <1>1 DEF ChangesShow, Shown, Out
<1> QED
  BY <1>2, Invariance, PTL

\* Whatever is lost or restarted, a steady output shows once the refresh got through
\* (LossHeals of LedRefresh), for all bursts and periods.
THEOREM LedLossHeals == Spec => []LossHeals
<1>1. ASSUME IInv, since > Slow, ~Shown
      PROVE  FALSE
  <2>1. /\ since \in Nat /\ due \in Nat /\ wire \in Seq(Frames) /\ burst \in 0..MaxBurst
        /\ Gap \in Nat /\ Latency \in Nat /\ Refresh \in Nat /\ MaxBurst \in Nat
        /\ sentAge \in 0..Refresh /\ Stay \in Nat /\ Stay <= Gap
        /\ DOMAIN wire = 1..Len(wire) /\ Len(wire) \in Nat
        /\ \A i \in DOMAIN wire : wire[i].age \in 0..Latency
    BY <1>1, Types, ConstantTypes DEF IInv, Stay
  <2>2. /\ Slow \in Nat /\ Slow = Cost(MaxBurst + 1) + Latency
        /\ Cost(burst) \in Nat /\ Cost(burst + 1) = Cost(burst) + Refresh + Gap
        /\ Cost(burst + 1) <= Cost(MaxBurst + 1) /\ Cost(MaxBurst + 1) \in Nat
        /\ Cost(burst + 1) \in Nat
    <3>1. burst \in Nat /\ burst + 1 \in Nat /\ MaxBurst + 1 \in Nat /\ burst + 1 <= MaxBurst + 1
      BY <2>1
    <3> QED
      BY <3>1, CostFacts
  <2>3. Out = sentLed /\ Looping
    <3>1. since > Gap
      BY <1>1, <2>1, <2>2
    <3> QED
      BY <1>1, <3>1, SentByNow DEF Shown, Out
  <2>4. CASE wire = << >>
    <3>1. burst + Len(wire) = burst
      BY <2>1, <2>4
    <3>2. IF sentAge < Refresh THEN since <= Cost(burst) + sentAge
                               ELSE since + due <= Cost(burst) + Refresh + Stay
      BY <1>1, <2>3, <3>1 DEF IInv, Timing, Repeats
    <3>3. /\ since \in Nat /\ due \in Nat /\ sentAge \in Nat /\ sentAge <= Refresh
          /\ Stay \in Nat /\ Gap \in Nat /\ Refresh \in Nat /\ Stay <= Gap
          /\ Cost(burst) \in Nat
      BY <2>1, <2>2
    <3>4. since <= Cost(burst) + Refresh + Gap
      BY <3>2, <3>3, NotOverdue
    <3>5. since <= Cost(burst + 1)
      BY <2>2, <3>4
    <3>6. since <= Cost(MaxBurst + 1)
      BY <2>2, <3>3, <3>5
    <3> QED
      BY <1>1, <2>1, <2>2, <3>6
  <2>5. CASE wire # << >>
    <3>1. 1 \in DOMAIN wire
      BY <2>1, <2>5, EmptySeq
    <3>2. since <= Cost(burst + 1) + wire[1].age /\ wire[1].age \in 0..Latency
      BY <1>1, <2>1, <3>1 DEF IInv, Timing, Repeated
    <3>3. /\ Cost(burst + 1) + wire[1].age <= Slow /\ Cost(burst + 1) + wire[1].age \in Nat
          /\ since \in Nat /\ Slow \in Nat
      BY <2>1, <2>2, <3>2, InTime
    <3>4. since <= Slow
      BY <3>2, <3>3
    <3> QED
      BY <1>1, <3>3, <3>4
  <2> QED
    BY <2>4, <2>5
<1>2. IInv => LossHeals
  BY <1>1 DEF LossHeals
<1> QED
  BY <1>2, Invariance, PTL
=============================================================================
