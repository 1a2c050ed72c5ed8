--------------------------- MODULE DriveLoopProofs ---------------------------
(* Proofs about DriveLoop, for all wheels, commands, periods, waits and timeouts: while   *)
(* little is lost the motors follow in time, and whatever the line, the board and the     *)
(* host do, the drive is a dead man's switch.                                             *)
EXTENDS DriveLoop, SequenceTheorems, TLAPS

\* How old a velocity on the line is, and the one the motors run at.
Fresh ==
  /\ held[Wire(cmd)] = 0
  /\ \A i \in DOMAIN wire : wire[i].val # Still => held[wire[i].val] <= wire[i].age
  /\ motor # Still => frameAge < MaxTimeout /\ held[motor] <= frameAge + Latency

IInv == TypeOK /\ Fresh

LEMMA ConstantTypes ==
  /\ Gap \in Nat /\ Lag \in Nat /\ Limit \in Nat
  /\ MaxTimeout \in Nat /\ Latency \in Nat /\ MaxBurst \in Nat /\ MaxFaults \in Nat
  /\ Grace \in Nat /\ Period \in Nat /\ AckWait \in Nat /\ StartWait \in Nat
  /\ \A t \in Timeout : t \in Nat /\ 1 <= t /\ t <= MaxTimeout
BY LoopAssumption DEF Gap, Lag, Limit

\* Standing still is zero on the wire too.
LEMMA StillIsVelocity == Still \in Velocity /\ Wire(Still) = Still
<1>1. 0 \div Scale = 0
  BY LoopAssumption
<1>2. Wire(Still) = Still
  BY <1>1 DEF Wire, Still, ToMrps
<1> QED
  BY <1>2, LoopAssumption DEF Velocity

LEMMA UpBounded ==
  ASSUME NEW top \in Nat, NEW n \in 0..top
  PROVE  Up(n, top) \in 0..top /\ Up(n, top) <= n + 1
BY DEF Up

LEMMA FrameTypes ==
  ASSUME TypeOK, NEW i \in DOMAIN wire
  PROVE  wire[i].val \in Velocity /\ wire[i].age \in 0..Latency
<1>1. wire \in Seq([val : Velocity, age : 0..Latency])
  BY DEF TypeOK
<1>2. i \in 1..Len(wire)
  BY <1>1, LenProperties
<1>3. wire[i] \in [val : Velocity, age : 0..Latency]
  BY <1>1, <1>2, ElementOfSeq
<1> QED
  BY <1>3

\* What makes a function a sequence.
LEMMA SeqOfFunction ==
  ASSUME NEW S, NEW s, \E n \in Nat : s \in [1..n -> S]
  PROVE  s \in Seq(S)
<1>1. PICK n \in Nat : s \in [1..n -> S]
  OBVIOUS
<1>2. s \in UNION {[1..m -> S] : m \in Nat}
  BY <1>1
<1> QED
  BY <1>2, SeqDef

\* A frame more at the end, a frame less at the head.
LEMMA FramesAppend ==
  ASSUME wire \in Seq([val : Velocity, age : 0..Latency]), NEW v \in Velocity
  PROVE  /\ Append(wire, Frame(v)) \in Seq([val : Velocity, age : 0..Latency])
         /\ \A i \in DOMAIN Append(wire, Frame(v)) :
              \/ i \in DOMAIN wire /\ Append(wire, Frame(v))[i] = wire[i]
              \/ Append(wire, Frame(v))[i] = Frame(v)
<1>1. Frame(v) \in [val : Velocity, age : 0..Latency]
  BY ConstantTypes DEF Frame
<1> QED
  BY <1>1, AppendProperties

LEMMA FramesTail ==
  ASSUME wire \in Seq([val : Velocity, age : 0..Latency]), wire # << >>
  PROVE  /\ Tail(wire) \in Seq([val : Velocity, age : 0..Latency])
         /\ Head(wire) = wire[1] /\ 1 \in DOMAIN wire
         /\ Head(wire) \in [val : Velocity, age : 0..Latency]
         /\ \A i \in DOMAIN Tail(wire) : i + 1 \in DOMAIN wire /\ Tail(wire)[i] = wire[i + 1]
<1>1. Len(wire) \in Nat /\ Len(wire) # 0 /\ DOMAIN wire = 1..Len(wire)
  BY EmptySeq, LenProperties
<1>2. /\ Tail(wire) \in Seq([val : Velocity, age : 0..Latency])
      /\ Len(Tail(wire)) = Len(wire) - 1
      /\ \A i \in 1..Len(Tail(wire)) : Tail(wire)[i] = wire[i + 1]
  BY HeadTailProperties
<1>3. DOMAIN Tail(wire) = 1..Len(Tail(wire))
  BY <1>2, LenProperties
<1>4. Head(wire) = wire[1]
  BY <1>1
<1>5. Head(wire) \in [val : Velocity, age : 0..Latency]
  BY HeadTailProperties
<1> QED
  BY <1>1, <1>2, <1>3, <1>4, <1>5

\* What a frame on its way and the motors have to do with a velocity that was replaced.
LEMMA TakeKeepsFresh ==
  ASSUME IInv, NEW c \in Command, Take(c), UNCHANGED <<wire, motor, frameAge>>
  PROVE  /\ cmd' \in Command /\ held' \in [Velocity -> 0..(Limit + 1)]
         /\ Fresh'
<1>1. Wire(c) \in Velocity
  BY DEF Velocity
<1>2. held' = [held EXCEPT ![Wire(c)] = 0] /\ cmd' = c
  BY DEF Take
<1>3. held \in [Velocity -> 0..(Limit + 1)] /\ Limit \in Nat
  BY ConstantTypes DEF IInv, TypeOK
<1>4. held' \in [Velocity -> 0..(Limit + 1)]
  <2>1. 0 \in 0..(Limit + 1)
    BY <1>3
  <2> QED
    BY <1>1, <1>2, <1>3, <2>1
<1>5. \A v \in Velocity : held'[v] <= held[v]
  <2> SUFFICES ASSUME NEW v \in Velocity
               PROVE  held'[v] <= held[v]
    OBVIOUS
  <2>1. held[v] \in Nat
    BY <1>3
  <2>2. CASE v = Wire(c)
    BY <1>2, <1>3, <2>1, <2>2
  <2>3. CASE v # Wire(c)
    BY <1>2, <1>3, <2>1, <2>3
  <2> QED
    BY <2>2, <2>3
<1>6. \A i \in DOMAIN wire : wire[i].val \in Velocity /\ wire[i].age \in 0..Latency
  BY FrameTypes DEF IInv
<1>7. motor \in Velocity /\ frameAge \in Nat /\ Latency \in Nat
  BY ConstantTypes DEF IInv, TypeOK
<1>8. \A i \in DOMAIN wire : wire[i].val # Still => held'[wire[i].val] <= wire[i].age
  BY <1>3, <1>4, <1>5, <1>6 DEF IInv, Fresh
<1>9. motor # Still => frameAge < MaxTimeout /\ held'[motor] <= frameAge + Latency
  BY <1>3, <1>4, <1>5, <1>7 DEF IInv, Fresh
<1>10. held'[Wire(cmd')] = 0
  BY <1>1, <1>2, <1>3
<1>11. (Wire(cmd))' = Wire(cmd')
  BY DEF Wire
<1> QED
  BY <1>2, <1>4, <1>8, <1>9, <1>10, <1>11 DEF Fresh

\* A frame with what is commanded now keeps Fresh.
LEMMA AppendKeepsFresh ==
  ASSUME IInv, NEW v \in Velocity, v = Still \/ held[v] = 0,
         wire' = Append(wire, Frame(v)), UNCHANGED <<cmd, held, motor, frameAge>>
  PROVE  wire' \in Seq([val : Velocity, age : 0..Latency]) /\ Fresh'
<1>1. wire \in Seq([val : Velocity, age : 0..Latency])
  BY DEF IInv, TypeOK
<1>2. \A i \in DOMAIN wire' : wire'[i].val # Still => held[wire'[i].val] <= wire'[i].age
  <2> SUFFICES ASSUME NEW i \in DOMAIN wire', wire'[i].val # Still
               PROVE  held[wire'[i].val] <= wire'[i].age
    OBVIOUS
  <2>1. CASE i \in DOMAIN wire /\ wire'[i] = wire[i]
    BY <2>1 DEF IInv, Fresh
  <2>2. CASE wire'[i] = Frame(v)
    BY <2>2 DEF Frame
  <2> QED
    BY <1>1, <2>1, <2>2, FramesAppend
<1>3. (Wire(cmd))' = Wire(cmd)
  BY DEF Wire
<1> QED
  BY <1>1, <1>2, <1>3, FramesAppend DEF IInv, Fresh

\* Time passes: all ages grow by one, and the board's timeout cuts off what got too old.
LEMMA TickKeepsFresh ==
  ASSUME IInv, Tick
  PROVE  IInv'
<1> USE ConstantTypes
<1>1. /\ due \in Nat /\ due > 0 /\ idle \in 0..Grace /\ calm \in 0..(Lag + 1)
      /\ frameAge \in 0..MaxTimeout /\ timeout \in Timeout /\ motor \in Velocity
      /\ held \in [Velocity -> 0..(Limit + 1)]
  BY DEF IInv, TypeOK, Tick
<1>2. due' \in Nat
  BY <1>1 DEF Tick
<1>3. idle' \in 0..Grace
  BY <1>1, UpBounded DEF Tick
<1>4. frameAge' \in 0..MaxTimeout
  BY <1>1, UpBounded DEF Tick
<1>5. calm' \in 0..(Lag + 1)
  <2>1. Lag + 1 \in Nat
    BY ConstantTypes
  <2>2. Up(calm, Lag + 1) \in 0..(Lag + 1)
    BY <1>1, <2>1, UpBounded
  <2> QED
    BY <2>1, <2>2 DEF Tick
<1>6. motor' \in Velocity
  BY <1>1, StillIsVelocity DEF Tick
<1>7. \A v \in Velocity : held'[v] \in 0..(Limit + 1) /\ held'[v] <= held[v] + 1
  <2> SUFFICES ASSUME NEW v \in Velocity
               PROVE  held'[v] \in 0..(Limit + 1) /\ held'[v] <= held[v] + 1
    OBVIOUS
  <2>1. held[v] \in 0..(Limit + 1) /\ Limit + 1 \in Nat
    BY <1>1
  <2>2. Up(held[v], Limit + 1) \in 0..(Limit + 1) /\ Up(held[v], Limit + 1) <= held[v] + 1
    BY <2>1, UpBounded
  <2>3. held'[v] = IF v = Wire(cmd) THEN 0 ELSE Up(held[v], Limit + 1)
    BY DEF Tick
  <2> QED
    BY <2>1, <2>2, <2>3
<1>8. held' \in [Velocity -> 0..(Limit + 1)]
  BY <1>7 DEF Tick
<1>9. /\ DOMAIN wire' = DOMAIN wire
      /\ \A i \in DOMAIN wire : wire'[i].val = wire[i].val /\ wire'[i].age = wire[i].age + 1
  <2> SUFFICES ASSUME NEW i \in DOMAIN wire
               PROVE  wire'[i].val = wire[i].val /\ wire'[i].age = wire[i].age + 1
    BY DEF Tick
  <2>1. wire[i] \in [val : Velocity, age : 0..Latency]
    <3>1. wire \in Seq([val : Velocity, age : 0..Latency])
      BY DEF IInv, TypeOK
    <3> QED
      BY <3>1, LenProperties, ElementOfSeq
  <2>2. wire'[i] = [wire[i] EXCEPT !.age = @ + 1]
    BY DEF Tick
  <2> QED
    BY <2>1, <2>2
<1>10. wire' \in Seq([val : Velocity, age : 0..Latency])
  <2>1. wire \in Seq([val : Velocity, age : 0..Latency])
    BY DEF IInv, TypeOK
  <2>2. DOMAIN wire' = 1..Len(wire) /\ Len(wire) \in Nat
    BY <1>9, <2>1, LenProperties
  <2>3. \A i \in 1..Len(wire) : wire'[i] \in [val : Velocity, age : 0..Latency]
    <3> SUFFICES ASSUME NEW i \in DOMAIN wire
                 PROVE  wire'[i] \in [val : Velocity, age : 0..Latency]
      BY <1>9, <2>2
    <3>1. wire[i].age \in 0..Latency /\ wire[i].age < Latency
      BY FrameTypes DEF IInv, Tick
    <3>2. wire[i] \in [val : Velocity, age : 0..Latency]
      BY <2>1, LenProperties, ElementOfSeq
    <3>3. wire'[i] = [wire[i] EXCEPT !.age = @ + 1]
      BY DEF Tick
    <3> QED
      BY <3>1, <3>2, <3>3
  <2>4. wire' = [i \in 1..Len(wire) |-> wire'[i]]
    BY <1>9, <2>2 DEF Tick
  <2>5. wire' \in [1..Len(wire) -> [val : Velocity, age : 0..Latency]]
    BY <2>3, <2>4
  <2>6. \E n \in Nat : wire' \in [1..n -> [val : Velocity, age : 0..Latency]]
    BY <2>2, <2>5
  <2> QED
    BY <2>6, SeqOfFunction
<1>11. \A i \in DOMAIN wire' : wire'[i].val # Still => held'[wire'[i].val] <= wire'[i].age
  <2> SUFFICES ASSUME NEW i \in DOMAIN wire, wire[i].val # Still
               PROVE  held'[wire[i].val] <= wire[i].age + 1
    BY <1>9
  <2>1. held[wire[i].val] <= wire[i].age
    BY DEF IInv, Fresh
  <2>2. wire[i].val \in Velocity /\ wire[i].age \in Nat
    BY FrameTypes DEF IInv
  <2>3. held'[wire[i].val] \in Nat /\ held[wire[i].val] \in Nat
    BY <1>1, <1>8, <2>2
  <2> QED
    BY <1>7, <2>1, <2>2, <2>3
<1>12. ASSUME motor' # Still
       PROVE  frameAge' < MaxTimeout /\ held'[motor'] <= frameAge' + Latency
  <2>1. motor' = motor /\ frameAge' < timeout
    BY <1>1, <1>4, <1>12 DEF Tick
  <2>2. frameAge < MaxTimeout /\ held[motor] <= frameAge + Latency
    BY <1>12, <2>1 DEF IInv, Fresh
  <2>3. frameAge' = frameAge + 1
    BY <2>2 DEF Tick, Up
  <2>4. held'[motor] \in Nat /\ held[motor] \in Nat /\ held'[motor] <= held[motor] + 1
    BY <1>1, <1>7, <1>8
  <2> QED
    BY <1>1, <2>1, <2>2, <2>3, <2>4
<1>13. UNCHANGED <<lc, pc, cmd, pending, timeout, faults, lost, tardy>>
  BY DEF Tick
<1>14. (held[Wire(cmd)])' = 0
  <2>1. Wire(cmd) \in Velocity
    BY DEF IInv, TypeOK, Velocity
  <2>2. (Wire(cmd))' = Wire(cmd)
    BY <1>13 DEF Wire
  <2> QED
    BY <2>1, <2>2 DEF Tick
<1> QED
  BY <1>2, <1>3, <1>4, <1>5, <1>6, <1>8, <1>10, <1>11, <1>12, <1>13, <1>14
     DEF IInv, TypeOK, Fresh

-----------------------------------------------------------------------------
LEMMA InitIInv == Init => IInv
<1> SUFFICES ASSUME Init
             PROVE  IInv
  OBVIOUS
<1> USE ConstantTypes
<1>1. held \in [Velocity -> 0..(Limit + 1)]
  BY DEF Init
<1>2. << >> \in Seq([val : Velocity, age : 0..Latency])
  OBVIOUS
<1>3. tardy \in BOOLEAN
  BY DEF Init
<1>4. Fresh
  BY <1>1, <1>2, StillIsVelocity DEF Init, Fresh
<1> QED
  BY <1>1, <1>2, <1>3, <1>4, StillIsVelocity, LoopAssumption DEF Init, IInv, TypeOK

\* What the board and the motors have to do with a wire that lost its head.
LEMMA TailKeepsFresh ==
  ASSUME IInv, wire # << >>, wire' = Tail(wire), UNCHANGED held
  PROVE  /\ wire' \in Seq([val : Velocity, age : 0..Latency])
         /\ \A i \in DOMAIN wire' : wire'[i].val # Still => held'[wire'[i].val] <= wire'[i].age
<1>1. wire \in Seq([val : Velocity, age : 0..Latency])
  BY DEF IInv, TypeOK
<1> QED
  BY <1>1, FramesTail DEF IInv, Fresh

LEMMA NextIInv == IInv /\ [Next]_vars => IInv'
<1> SUFFICES ASSUME IInv, [Next]_vars
             PROVE  IInv'
  OBVIOUS
<1> USE ConstantTypes
<1>0. TypeOK /\ Fresh
  BY DEF IInv
<1>1. CASE WriteTuning
  BY <1>0, <1>1 DEF WriteTuning, IInv, TypeOK, Fresh, bound
<1>2. CASE WriteWheels
  <2>1. Outgoing \in Velocity
    BY <1>0 DEF TypeOK, Outgoing, Velocity
  <2>2. wire' \in Seq([val : Velocity, age : 0..Latency]) /\ Fresh'
    <3>1. held[Outgoing] = 0
      BY <1>0 DEF Outgoing, Fresh
    <3>2. CASE Sends
      BY <1>2, <2>1, <3>1, <3>2, AppendKeepsFresh DEF WriteWheels, board
    <3>3. CASE ~Sends
      BY <1>0, <1>2, <3>3 DEF WriteWheels, board, TypeOK, Fresh
    <3> QED
      BY <3>2, <3>3
  <2>3. idle' \in 0..Grace
    BY <1>0, <1>2 DEF WriteWheels, IdleNow, TypeOK
  <2> QED
    BY <1>0, <1>2, <2>2, <2>3 DEF WriteWheels, IInv, TypeOK, board, bound
<1>3. CASE OnActivate
  <2>1. PICK c \in Command : Take(c)
    BY <1>3 DEF OnActivate
  <2>2. cmd' \in Command /\ held' \in [Velocity -> 0..(Limit + 1)] /\ Fresh'
    BY <1>3, <2>1, TakeKeepsFresh DEF OnActivate, board
  <2> QED
    BY <1>0, <1>3, <2>2 DEF OnActivate, IInv, TypeOK, board, bound
<1>4. CASE HandshakeFails
  BY <1>0, <1>4 DEF HandshakeFails, IInv, TypeOK, Fresh, board, bound
<1>5. CASE HandshakeDone
  BY <1>0, <1>5 DEF HandshakeDone, IInv, TypeOK, Fresh, board, bound
<1>6. CASE Activated
  BY <1>0, <1>6 DEF Activated, IInv, TypeOK, Fresh, bound
<1>7. CASE OnDeactivate
  <2>1. wire' \in Seq([val : Velocity, age : 0..Latency]) /\ Fresh'
    BY <1>7, StillIsVelocity, AppendKeepsFresh DEF OnDeactivate, board
  <2> QED
    BY <1>0, <1>7, <2>1 DEF OnDeactivate, IInv, TypeOK, board
<1>8. CASE Deactivated
  BY <1>0, <1>8, StillIsVelocity DEF Deactivated, IInv, TypeOK, Fresh, bound
<1>9. CASE Drive
  <2>1. PICK c \in Command : Take(c)
    BY <1>9 DEF Drive
  <2>2. cmd' \in Command /\ held' \in [Velocity -> 0..(Limit + 1)] /\ Fresh'
    BY <1>9, <2>1, TakeKeepsFresh DEF Drive, board
  <2> QED
    BY <1>0, <1>9, <2>2 DEF Drive, IInv, TypeOK, host, board, bound
<1>10. CASE Tune
  BY <1>0, <1>10 DEF Tune, IInv, TypeOK, Fresh, board, bound
<1>11. CASE BoardTakes
  <2>1. /\ wire' \in Seq([val : Velocity, age : 0..Latency])
        /\ \A i \in DOMAIN wire' : wire'[i].val # Still => held'[wire'[i].val] <= wire'[i].age
    BY <1>11, TailKeepsFresh DEF BoardTakes
  <2>2. /\ motor' \in Velocity
        /\ motor' # Still => held[motor'] <= Latency
    <3>1. /\ Head(wire) = wire[1] /\ 1 \in DOMAIN wire
          /\ Head(wire) \in [val : Velocity, age : 0..Latency]
      BY <1>0, <1>11, FramesTail DEF BoardTakes, TypeOK
    <3>2. wire[1].val # Still => held[wire[1].val] <= wire[1].age
      BY <1>0, <3>1 DEF Fresh
    <3>3. held[wire[1].val] \in Nat /\ wire[1].age \in 0..Latency /\ wire[1].val \in Velocity
      BY <1>0, <3>1 DEF TypeOK
    <3> QED
      BY <1>11, <3>1, <3>2, <3>3 DEF BoardTakes
  <2>3. 0 < MaxTimeout
    BY <1>0 DEF TypeOK
  <2> QED
    BY <1>0, <1>11, <2>1, <2>2, <2>3 DEF BoardTakes, IInv, TypeOK, Fresh, host
<1>12. CASE Lose
  <2>1. /\ wire' \in Seq([val : Velocity, age : 0..Latency])
        /\ \A i \in DOMAIN wire' : wire'[i].val # Still => held'[wire'[i].val] <= wire'[i].age
    BY <1>12, TailKeepsFresh DEF Lose
  <2>2. lost' \in 0..(MaxBurst + 1)
    BY <1>0, <1>12, UpBounded DEF Lose, TypeOK
  <2>3. faults' \in 0..MaxFaults
    BY <1>0, <1>12 DEF Lose, TypeOK
  <2> QED
    BY <1>0, <1>12, <2>1, <2>2, <2>3 DEF Lose, IInv, TypeOK, Fresh, host, board
<1>13. CASE Reboot
  BY <1>0, <1>13, StillIsVelocity DEF Reboot, IInv, TypeOK, Fresh, host
<1>14. CASE Tick
  BY <1>14, TickKeepsFresh
<1>15. CASE UNCHANGED vars
  BY <1>0, <1>15 DEF vars, IInv, TypeOK, Fresh, host, board, bound
<1> QED
  BY <1>1, <1>2, <1>3, <1>4, <1>5, <1>6, <1>7, <1>8, <1>9, <1>10, <1>11, <1>12, <1>13,
     <1>14, <1>15 DEF Next

\* Every variable keeps its type (TypeOK of DriveLoop), for all constants.
THEOREM DriveTypeOK == Spec => []TypeOK
<1>1. IInv => TypeOK
  BY DEF IInv
<1> QED
  BY <1>1, InitIInv, NextIInv, PTL DEF Spec

-----------------------------------------------------------------------------
(* The motors follow in time.  What they run at was sent at most `span' ago, where a span *)
(* adds up the age of a later frame and the gaps between that frame and theirs: frames on *)
(* the line, frames lost since, and the one that is still to be written.                  *)

\* The control loop runs, and its zeros were not cut short.
Live == lc = "active" /\ pc \in {"idle", "tuning"} /\ ~tardy

\* The longest time between the last write and the end of what the host is in, and the
\* longest that the last write can be ago.
Longest ==
  IF pc = "idle" THEN Period ELSE IF pending # {} THEN Period + AckWait ELSE Gap
SinceWrite == Longest - due

Gaps(n) == n * Gap

\* The age of a frame on the line; the next one is due a gap after the last write.
Age(i) == IF i <= Len(wire) THEN wire[i].age ELSE SinceWrite - Gap

\* v was sent at most span ago, and in a stop only after the zeros before it.
Recent(v, span) ==
  /\ calm > span => held[v] <= span
  /\ v # Still => idle + Lag < Grace + span

Uncut(span) == calm > span /\ motor # Still => frameAge <= span

Phase ==
  /\ pc = "idle" => due <= Period
  /\ pc = "tuning" => due <= AckWait /\ pending # {"gains", "timeout"}
  /\ pc \in {"handshake", "starting"} => lc = "inactive"
  /\ pc = "starting" => wire = << >>
  /\ calm > 0 => Live

Zeros == \A i \in 1..Len(wire) : wire[i].age < idle => wire[i].val = Still

Spaced ==
  Live => \A i \in 1..Len(wire) : \A j \in (i + 1)..(Len(wire) + 1) :
            Recent(wire[i].val, Age(j) + Gaps(j - i))

Last ==
  Live /\ lost <= MaxBurst => \A j \in 1..(Len(wire) + 1) :
    Recent(motor, Age(j) + Gaps(j + lost)) /\ Uncut(Age(j) + Gaps(j + lost))

InTime == Phase /\ Zeros /\ Spaced /\ Last /\ Follows

LEMMA GapNat == Gap \in Nat \ {0} /\ Gap = Period + AckWait + AckWait
BY LoopAssumption DEF Gap

LEMMA GapsAdd ==
  ASSUME NEW n \in Nat
  PROVE  /\ Gaps(n) \in Nat /\ Gaps(n + 1) = Gaps(n) + Gap
         /\ Gaps(0) = 0 /\ Gaps(1) = Gap
BY GapNat DEF Gaps

LEMMA GapsGrow ==
  ASSUME NEW m \in Nat, NEW n \in Nat, m <= n
  PROVE  Gaps(m) <= Gaps(n)
<1>1. PICK d \in Nat : n = m + d
  <2>1. n - m \in Nat /\ n = m + (n - m)
    OBVIOUS
  <2> QED
    BY <2>1
<1>2. \A g \in Nat : (m + d) * g = m * g + d * g /\ d * g \in Nat /\ m * g \in Nat
  OBVIOUS
<1> QED
  BY <1>1, <1>2, GapNat DEF Gaps

LEMMA SumOrder ==
  \A a, b, c, d, e \in Int :
    /\ a <= b /\ b + c < d + e => a + c < d + e
    /\ a <= b + 1 /\ b + c < d + e => a + c < d + (e + 1)
OBVIOUS

LEMMA LagInGaps == Lag = Gaps(MaxBurst + 1) + Latency
BY GapNat, LoopAssumption DEF Lag, Gaps

\* What the variables of InTime range over.
LEMMA InTimeTypes ==
  ASSUME IInv
  PROVE  /\ Len(wire) \in Nat /\ DOMAIN wire = 1..Len(wire)
         /\ \A i \in 1..Len(wire) : wire[i].val \in Velocity /\ wire[i].age \in Nat
                                    /\ wire[i].age <= Latency
         /\ \A v \in Velocity : held[v] \in Nat
         /\ motor \in Velocity /\ frameAge \in Nat /\ idle \in Nat /\ idle <= Grace
         /\ calm \in Nat /\ calm <= Lag + 1 /\ lost \in Nat /\ due \in Nat
<1>1. wire \in Seq([val : Velocity, age : 0..Latency])
  BY DEF IInv, TypeOK
<1>2. Len(wire) \in Nat /\ DOMAIN wire = 1..Len(wire)
  BY <1>1, LenProperties
<1>3. \A i \in 1..Len(wire) : wire[i].val \in Velocity /\ wire[i].age \in 0..Latency
  BY <1>2, FrameTypes DEF IInv
<1>4. \A v \in Velocity : held[v] \in Nat
  BY ConstantTypes DEF IInv, TypeOK
<1>5. motor \in Velocity /\ frameAge \in Nat /\ idle \in Nat /\ idle <= Grace
  BY ConstantTypes DEF IInv, TypeOK
<1>6. calm \in Nat /\ calm <= Lag + 1 /\ lost \in Nat /\ due \in Nat
  BY ConstantTypes DEF IInv, TypeOK
<1>7. \A i \in 1..Len(wire) : wire[i].val \in Velocity /\ wire[i].age \in Nat
                              /\ wire[i].age <= Latency
  BY <1>3, ConstantTypes
<1> QED
  BY <1>2, <1>4, <1>5, <1>6, <1>7

\* While the loop runs no span is negative, and none is longer than Lag at the head.
LEMMA Spans ==
  ASSUME IInv, Phase, pc \in {"idle", "tuning"},
         NEW j \in 1..(Len(wire) + 1), NEW n \in Nat, 1 <= n
  PROVE  /\ SinceWrite \in 0..Gap
         /\ Age(j) \in Int /\ Age(j) <= Latency /\ Age(j) + Gaps(n) \in Nat
<1>1. SinceWrite \in 0..Gap
  <2>1. Period \in Nat /\ AckWait \in Nat /\ due \in Nat
    BY ConstantTypes, InTimeTypes
  <2>2. due <= Longest /\ Longest \in Nat /\ Longest <= Gap
    BY <2>1, GapNat DEF Phase, Longest
  <2> QED
    BY <2>1, <2>2, GapNat DEF SinceWrite
<1>2. Gaps(n) \in Nat /\ Gap <= Gaps(n)
  BY GapsAdd, GapsGrow
<1>3. CASE j <= Len(wire)
  <2>1. wire[j].age \in Nat /\ wire[j].age <= Latency /\ Age(j) = wire[j].age
    BY <1>3, InTimeTypes DEF Age
  <2> QED
    BY <1>1, <1>2, <2>1
<1>4. CASE ~(j <= Len(wire))
  <2>1. Age(j) = SinceWrite - Gap
    BY <1>4 DEF Age
  <2> QED
    BY <1>1, <1>2, <2>1, GapNat, ConstantTypes
<1> QED
  BY <1>3, <1>4

LEMMA RecentGrows ==
  ASSUME IInv, NEW v \in Velocity, NEW span \in Int, NEW wider \in Int, span <= wider,
         Recent(v, span)
  PROVE  Recent(v, wider)
<1>1. held[v] \in Nat /\ calm \in Nat /\ idle \in Nat
  BY InTimeTypes
<1> QED
  BY <1>1, ConstantTypes DEF Recent

LEMMA InitInTime == Init => InTime
<1> SUFFICES ASSUME Init
             PROVE  InTime
  OBVIOUS
<1>1. wire = << >> /\ lc = "inactive" /\ pc = "idle" /\ due = Period /\ calm = 0
  BY DEF Init
<1>2. ~Live
  BY <1>1 DEF Live
<1>3. Len(wire) = 0
  BY <1>1
<1>4. Follows
  BY <1>1, ConstantTypes DEF Follows
<1>5. Phase
  BY <1>1, ConstantTypes DEF Phase
<1>6. Zeros
  BY <1>3 DEF Zeros
<1> QED
  BY <1>2, <1>4, <1>5, <1>6 DEF InTime, Spaced, Last

LEMMA NextPhase ==
  ASSUME IInv, Phase, [Next]_vars
  PROVE  Phase'
<1> USE ConstantTypes DEF Phase, Live
<1>0. due \in Nat /\ calm \in Nat /\ pending \subseteq {"gains", "timeout"}
  BY InTimeTypes DEF IInv, TypeOK
<1>1. CASE WriteTuning
  <2>1. due' = AckWait /\ pc' = "tuning" /\ UNCHANGED <<lc, calm, tardy, wire>>
    BY <1>1 DEF WriteTuning, bound
  <2>2. pending' # {"gains", "timeout"}
    BY <1>0, <1>1 DEF WriteTuning
  <2>3. pc \in {"idle", "tuning"}
    BY <1>1 DEF WriteTuning, CycleDue
  <2> QED
    BY <2>1, <2>2, <2>3
<1>2. CASE WriteWheels
  <2>1. due' = Period /\ pc' = "idle" /\ UNCHANGED <<lc, calm>> /\ tardy' = (tardy /\ Stopped)
    BY <1>2 DEF WriteWheels
  <2>2. ~tardy => ~tardy'
    BY <2>1
  <2>3. calm > 0 => lc = "active" /\ ~tardy
    OBVIOUS
  <2>4. calm' > 0 => Live'
    BY <2>1, <2>2, <2>3
  <2> QED
    BY <2>1, <2>4
<1>3. CASE OnActivate \/ HandshakeFails \/ HandshakeDone \/ Activated \/ OnDeactivate
           \/ Deactivated
  <2>1. calm' = 0
    BY <1>0, <1>3 DEF OnActivate, HandshakeFails, HandshakeDone, Activated, OnDeactivate,
                      Deactivated, bound
  <2>2. /\ pc' = "idle" => due' = Period
        /\ pc' \in {"idle", "handshake", "starting", "halting"}
        /\ pc' \in {"handshake", "starting"} => lc' = "inactive"
        /\ pc' = "starting" => wire' = << >>
    BY <1>3 DEF OnActivate, HandshakeFails, HandshakeDone, Activated, OnDeactivate,
                Deactivated
  <2> QED
    BY <2>1, <2>2
<1>4. CASE Drive \/ Tune \/ BoardTakes \/ Lose \/ Reboot \/ UNCHANGED vars
  <2>1. /\ UNCHANGED <<lc, pc, due, tardy>> /\ calm' \in {calm, 0}
        /\ pc # "idle" => UNCHANGED pending
    BY <1>4 DEF Drive, Tune, BoardTakes, Lose, Reboot, Controllers, vars, host, bound
  <2>2. pc = "starting" => UNCHANGED wire
    BY <1>4 DEF Drive, Tune, BoardTakes, Lose, Reboot, vars
  <2> QED
    BY <2>1, <2>2
<1>5. CASE Tick
  <2>1. due' = due - 1 /\ UNCHANGED <<lc, pc, tardy, pending>>
    BY <1>5 DEF Tick
  <2>2. calm' > 0 => lc = "active" /\ pc \in {"idle", "tuning"} /\ ~tardy
    BY <1>5 DEF Tick, Steady
  <2>3. pc = "starting" => wire' = << >>
    BY <1>5 DEF Tick
  <2> QED
    BY <1>0, <2>1, <2>2, <2>3
<1> QED
  BY <1>1, <1>2, <1>3, <1>4, <1>5 DEF Next

\* The frames of a sequence of them; the wire with a frame more at its end, and without
\* its head.
LEMMA FramesOf ==
  ASSUME NEW w \in Seq([val : Velocity, age : 0..Latency])
  PROVE  /\ Len(w) \in Nat
         /\ \A i \in 1..Len(w) : w[i].val \in Velocity /\ w[i].age \in Nat
                                 /\ w[i].age <= Latency
<1>1. Len(w) \in Nat /\ \A i \in 1..Len(w) : w[i] \in [val : Velocity, age : 0..Latency]
  BY LenProperties, ElementOfSeq
<1> QED
  BY <1>1, ConstantTypes

LEMMA FrameMore ==
  ASSUME IInv, NEW v \in Velocity, wire' = Append(wire, Frame(v))
  PROVE  /\ Len(wire') = Len(wire) + 1
         /\ wire'[Len(wire) + 1] = Frame(v)
         /\ \A i \in 1..Len(wire) : wire'[i] = wire[i]
<1>1. wire \in Seq([val : Velocity, age : 0..Latency])
  BY DEF IInv, TypeOK
<1>2. Frame(v) \in [val : Velocity, age : 0..Latency]
  BY ConstantTypes DEF Frame
<1> QED
  BY <1>1, <1>2, AppendProperties

LEMMA FrameLess ==
  ASSUME IInv, wire # << >>, wire' = Tail(wire)
  PROVE  /\ Len(wire) \in Nat /\ 1 <= Len(wire) /\ Len(wire') = Len(wire) - 1
         /\ Head(wire) = wire[1]
         /\ \A i \in 1..Len(wire') : wire'[i] = wire[i + 1]
<1>1. wire \in Seq([val : Velocity, age : 0..Latency])
  BY DEF IInv, TypeOK
<1>2. Len(wire) \in Nat /\ Len(wire) # 0
  BY <1>1, EmptySeq, LenProperties
<1>3. /\ Len(Tail(wire)) = Len(wire) - 1
      /\ \A i \in 1..Len(Tail(wire)) : Tail(wire)[i] = wire[i + 1]
  BY <1>1, HeadTailProperties
<1>4. Head(wire) = wire[1]
  BY <1>1
<1> QED
  BY <1>2, <1>3, <1>4

LEMMA FramesOlder ==
  ASSUME IInv, Tick
  PROVE  /\ Len(wire') = Len(wire)
         /\ \A i \in 1..Len(wire) : wire'[i].val = wire[i].val
                                    /\ wire'[i].age = wire[i].age + 1
<1>1. wire \in Seq([val : Velocity, age : 0..Latency])
  BY DEF IInv, TypeOK
<1>2. DOMAIN wire = 1..Len(wire) /\ Len(wire) \in Nat
  BY <1>1, LenProperties
<1>3. wire' = [i \in DOMAIN wire |-> [wire[i] EXCEPT !.age = @ + 1]]
  BY DEF Tick
<1>4. wire' \in Seq([val : Velocity, age : 0..Latency])
  BY TickKeepsFresh DEF IInv, TypeOK
<1>5. DOMAIN wire' = 1..Len(wire') /\ Len(wire') \in Nat
  BY <1>4, LenProperties
<1>6. 1..Len(wire') = 1..Len(wire)
  BY <1>2, <1>3, <1>5
<1>7. Len(wire') = Len(wire)
  <2>1. ASSUME NEW m \in Nat, NEW n \in Nat, 1..m = 1..n, m < n
        PROVE  FALSE
    <3>1. n \in 1..n /\ n \notin 1..m
      BY <2>1
    <3> QED
      BY <2>1, <3>1
  <2>2. ~(Len(wire') < Len(wire)) /\ ~(Len(wire) < Len(wire'))
    BY <1>2, <1>5, <1>6, <2>1
  <2>3. Len(wire') \in Nat /\ Len(wire) \in Nat
    BY <1>2, <1>5
  <2> QED
    BY <2>2, <2>3
<1>8. ASSUME NEW i \in 1..Len(wire)
      PROVE  wire'[i].val = wire[i].val /\ wire'[i].age = wire[i].age + 1
  <2>1. wire[i] \in [val : Velocity, age : 0..Latency]
    BY <1>1, LenProperties, ElementOfSeq
  <2>2. wire'[i] = [wire[i] EXCEPT !.age = @ + 1]
    BY <1>2, <1>3
  <2> QED
    BY <2>1, <2>2
<1> QED
  BY <1>7, <1>8

\* Only zeros are sent while idle counts.
LEMMA NextZeros ==
  ASSUME IInv, Zeros, [Next]_vars
  PROVE  Zeros'
<1> USE ConstantTypes
<1>0. /\ Len(wire) \in Nat /\ idle \in Nat
      /\ \A i \in 1..Len(wire) : wire[i].age \in Nat
  BY InTimeTypes
<1>1. CASE HandshakeDone \/ (WriteWheels /\ ~Stopped)
  <2>1. idle' = 0
    BY <1>1 DEF HandshakeDone, WriteWheels, IdleNow
  <2>2. wire' \in Seq([val : Velocity, age : 0..Latency])
    BY NextIInv DEF IInv, TypeOK
  <2>3. \A i \in 1..Len(wire') : wire'[i].age \in Nat
    BY <2>2, FramesOf
  <2> QED
    BY <2>1, <2>3 DEF Zeros
<1>2. ASSUME NEW v \in Velocity, v = Still, wire' = Append(wire, Frame(v)), idle' = idle
      PROVE  Zeros'
  <2>1. /\ Len(wire') = Len(wire) + 1 /\ wire'[Len(wire) + 1] = Frame(v)
        /\ \A i \in 1..Len(wire) : wire'[i] = wire[i]
    BY <1>2, FrameMore
  <2>2. \A i \in 1..Len(wire') : i \in 1..Len(wire) \/ i = Len(wire) + 1
    BY <1>0, <2>1
  <2> QED
    BY <1>2, <2>1, <2>2 DEF Zeros, Frame
<1>3. CASE WriteWheels /\ Stopped
  <2>1. idle' = idle
    BY <1>3 DEF WriteWheels, IdleNow
  <2>2. CASE wire' = wire
    BY <2>1, <2>2 DEF Zeros
  <2>3. CASE wire' = Append(wire, Frame(Outgoing))
    <3>1. cmd = Still
      <4>1. cmd \in [Wheel -> Int]
        BY LoopAssumption DEF IInv, TypeOK
      <4> QED
        BY <1>3, <4>1 DEF Stopped, Still
    <3>2. Outgoing = Still /\ Still \in Velocity
      BY <3>1, StillIsVelocity DEF Outgoing
    <3> QED
      BY <1>2, <2>1, <2>3, <3>2
  <2> QED
    BY <1>3, <2>2, <2>3 DEF WriteWheels
<1>4. CASE OnDeactivate
  BY <1>2, <1>4, StillIsVelocity DEF OnDeactivate
<1>5. CASE BoardTakes \/ Lose
  <2>1. /\ Len(wire') = Len(wire) - 1
        /\ \A i \in 1..Len(wire') : wire'[i] = wire[i + 1]
    BY <1>5, FrameLess DEF BoardTakes, Lose
  <2>2. idle' = idle
    BY <1>5 DEF BoardTakes, Lose, host
  <2>3. \A i \in 1..Len(wire') : i + 1 \in 1..Len(wire)
    BY <1>0, <2>1
  <2> QED
    BY <2>1, <2>2, <2>3 DEF Zeros
<1>6. CASE Tick
  <2>1. idle' <= idle + 1 /\ idle' \in Nat
    <3>1. idle \in 0..Grace /\ Grace \in Nat
      BY DEF IInv, TypeOK
    <3>2. Up(idle, Grace) \in 0..Grace /\ Up(idle, Grace) <= idle + 1
      BY ONLY <3>1, UpBounded
    <3>3. idle' = Up(idle, Grace)
      BY <1>6 DEF Tick
    <3> HIDE DEF Up
    <3> QED
      BY <3>1, <3>2, <3>3
  <2> QED
    BY <1>0, <1>6, <2>1, FramesOlder DEF Zeros
<1>7. CASE \/ WriteTuning \/ OnActivate \/ HandshakeFails \/ Activated \/ Deactivated
           \/ Drive \/ Tune \/ Reboot \/ UNCHANGED vars
  <2>1. UNCHANGED <<wire, idle>>
    BY <1>7 DEF WriteTuning, OnActivate, HandshakeFails, Activated, Deactivated, Drive,
                Tune, Reboot, vars, host
  <2> QED
    BY <2>1 DEF Zeros
<1> QED
  BY <1>1, <1>3, <1>4, <1>5, <1>6, <1>7 DEF Next

\* Steps that leave the line, the motors and the losses alone: the last write does not get
\* younger by them.
LEMMA Unmoved ==
  ASSUME IInv, InTime, Phase',
         UNCHANGED <<wire, motor, frameAge, lost, idle, calm>>,
         \A v \in Velocity : held'[v] \in Nat /\ held'[v] <= held[v],
         Live' => /\ Live /\ SinceWrite \in Int /\ SinceWrite' \in Int
                  /\ SinceWrite <= SinceWrite'
  PROVE  Spaced' /\ Last' /\ Follows'
<1> USE ConstantTypes
<1>0. /\ Len(wire) \in Nat
      /\ \A i \in 1..Len(wire) : wire[i].val \in Velocity /\ wire[i].age \in Nat
      /\ \A v \in Velocity : held[v] \in Nat
      /\ motor \in Velocity /\ calm \in Nat /\ lost \in Nat
  BY InTimeTypes
<1>1. Follows'
  BY <1>0 DEF InTime, Follows
<1>2. ASSUME NEW v \in Velocity, NEW span \in Int, NEW span1 \in Int, span <= span1,
             Recent(v, span)
      PROVE  /\ calm' > span1 => held'[v] <= span1
             /\ v # Still => idle' + Lag < Grace + span1
  <2>1. Recent(v, span1)
    BY <1>2, RecentGrows
  <2> QED
    BY <1>0, <2>1 DEF Recent
<1>3. ASSUME Live', NEW j \in 1..(Len(wire) + 1)
      PROVE  Age(j) \in Int /\ Age(j)' \in Int /\ Age(j) <= Age(j)'
  <2>1. CASE j <= Len(wire)
    BY <1>0, <2>1 DEF Age
  <2>2. CASE ~(j <= Len(wire))
    BY <1>0, <1>3, <2>2, GapNat DEF Age
  <2> QED
    BY <2>1, <2>2
<1>4. Spaced'
  <2> SUFFICES ASSUME Live', NEW i \in 1..Len(wire), NEW j \in (i + 1)..(Len(wire) + 1)
               PROVE  (Recent(wire[i].val, Age(j) + Gaps(j - i)))'
    BY <1>0 DEF Spaced
  <2>1. Recent(wire[i].val, Age(j) + Gaps(j - i))
    BY DEF InTime, Spaced
  <2>2. j - i \in Nat /\ j \in 1..(Len(wire) + 1)
    BY <1>0
  <2>3. Gaps(j - i) \in Nat /\ Age(j) \in Int /\ Age(j)' \in Int /\ Age(j) <= Age(j)'
    BY <1>3, <2>2, GapsAdd
  <2>4. wire[i].val \in Velocity /\ Age(j) + Gaps(j - i) \in Int
        /\ Age(j)' + Gaps(j - i) \in Int
        /\ Age(j) + Gaps(j - i) <= Age(j)' + Gaps(j - i)
    BY <1>0, <2>3
  <2>5. /\ calm' > Age(j)' + Gaps(j - i) => held'[wire[i].val] <= Age(j)' + Gaps(j - i)
        /\ wire[i].val # Still => idle' + Lag < Grace + (Age(j)' + Gaps(j - i))
    BY <1>2, <2>1, <2>4
  <2> QED
    BY <2>5 DEF Recent, Gaps
<1>5. Last'
  <2> SUFFICES ASSUME Live', lost <= MaxBurst, NEW j \in 1..(Len(wire) + 1)
               PROVE  /\ (Recent(motor, Age(j) + Gaps(j + lost)))'
                      /\ (Uncut(Age(j) + Gaps(j + lost)))'
    BY DEF Last
  <2>1. Recent(motor, Age(j) + Gaps(j + lost)) /\ Uncut(Age(j) + Gaps(j + lost))
    BY DEF InTime, Last
  <2>2. j + lost \in Nat
    BY <1>0
  <2>3. Gaps(j + lost) \in Nat /\ Age(j) \in Int /\ Age(j)' \in Int /\ Age(j) <= Age(j)'
    BY <1>3, <2>2, GapsAdd
  <2>4. /\ calm' > Age(j)' + Gaps(j + lost) => held'[motor] <= Age(j)' + Gaps(j + lost)
        /\ motor # Still => idle' + Lag < Grace + (Age(j)' + Gaps(j + lost))
    BY <1>0, <1>2, <2>1, <2>3
  <2>5. calm' > Age(j)' + Gaps(j + lost) /\ motor # Still
          => frameAge <= Age(j)' + Gaps(j + lost)
    BY <1>0, <2>1, <2>3, InTimeTypes DEF Uncut
  <2> QED
    BY <2>4, <2>5 DEF Recent, Uncut, Gaps
<1> QED
  BY <1>1, <1>4, <1>5

\* A frame less on the line: all others move up.
LEMMA AgesMoveUp ==
  ASSUME IInv, wire # << >>, wire' = Tail(wire), UNCHANGED <<pc, due, pending>>
  PROVE  /\ Len(wire) \in Nat /\ Len(wire') = Len(wire) - 1
         /\ \A j \in 1..(Len(wire') + 1) : Age(j)' = Age(j + 1) /\ j + 1 \in 2..(Len(wire) + 1)
<1>1. /\ Len(wire) \in Nat /\ 1 <= Len(wire) /\ Len(wire') = Len(wire) - 1
      /\ \A i \in 1..Len(wire') : wire'[i] = wire[i + 1]
  BY FrameLess
<1>2. SinceWrite' = SinceWrite
  BY DEF SinceWrite, Longest
<1>3. ASSUME NEW j \in 1..(Len(wire') + 1)
      PROVE  Age(j)' = Age(j + 1)
  <2>1. CASE j <= Len(wire')
    BY <1>1, <2>1 DEF Age
  <2>2. CASE ~(j <= Len(wire'))
    BY <1>1, <1>2, <2>2 DEF Age
  <2> QED
    BY <2>1, <2>2
<1> QED
  BY <1>1, <1>3

LEMMA SpacedMovesUp ==
  ASSUME IInv, InTime, wire # << >>, wire' = Tail(wire),
         UNCHANGED <<lc, pc, due, pending, held, calm, tardy, idle>>
  PROVE  Spaced'
<1>1. /\ Len(wire) \in Nat /\ Len(wire') = Len(wire) - 1
      /\ \A j \in 1..(Len(wire') + 1) : Age(j)' = Age(j + 1)
      /\ \A i \in 1..Len(wire') : wire'[i] = wire[i + 1]
  BY AgesMoveUp, FrameLess
<1> SUFFICES ASSUME Live', NEW i \in 1..Len(wire'), NEW j \in (i + 1)..(Len(wire') + 1)
             PROVE  (Recent(wire[i].val, Age(j) + Gaps(j - i)))'
  BY DEF Spaced
<1>2. Live
  BY DEF Live
<1>3. i + 1 \in 1..Len(wire) /\ j + 1 \in ((i + 1) + 1)..(Len(wire) + 1)
  BY <1>1
<1>4. Recent(wire[i + 1].val, Age(j + 1) + Gaps((j + 1) - (i + 1)))
  BY <1>2, <1>3 DEF InTime, Spaced
<1>5. (j + 1) - (i + 1) = j - i
  BY <1>1
<1>6. Recent(wire[i + 1].val, Age(j + 1) + Gaps(j - i))
  BY <1>4, <1>5
<1>7. Age(j)' = Age(j + 1) /\ wire'[i] = wire[i + 1]
  BY <1>1
<1> QED
  BY <1>6, <1>7 DEF Recent, Gaps

LEMMA LossKept ==
  ASSUME IInv, InTime, Lose
  PROVE  Spaced' /\ Last' /\ Follows'
<1> USE ConstantTypes
<1>0. /\ UNCHANGED <<lc, pc, due, pending, idle, motor, frameAge, calm, tardy, held>>
      /\ wire # << >> /\ wire' = Tail(wire) /\ lost' = Up(lost, MaxBurst + 1)
  BY DEF Lose, host, board
<1>1. Spaced'
  BY <1>0, SpacedMovesUp
<1>2. Follows'
  BY <1>0 DEF InTime, Follows
<1>3. Last'
  <2> SUFFICES ASSUME Live', lost' <= MaxBurst, NEW j \in 1..(Len(wire') + 1)
               PROVE  /\ (Recent(motor, Age(j) + Gaps(j + lost)))'
                      /\ (Uncut(Age(j) + Gaps(j + lost)))'
    BY DEF Last
  <2>1. lost \in Nat /\ lost' = lost + 1 /\ lost <= MaxBurst
    BY <1>0, InTimeTypes DEF Up
  <2>2. Live
    BY <1>0 DEF Live
  <2>3. Age(j)' = Age(j + 1) /\ j + 1 \in 1..(Len(wire) + 1) /\ j \in Nat
    BY <1>0, AgesMoveUp
  <2>4. /\ Recent(motor, Age(j + 1) + Gaps((j + 1) + lost))
        /\ Uncut(Age(j + 1) + Gaps((j + 1) + lost))
    BY <2>1, <2>2, <2>3 DEF InTime, Last
  <2>5. (j + 1) + lost = j + lost'
    BY <2>1, <2>3
  <2>6. Recent(motor, Age(j)' + Gaps(j + lost')) /\ Uncut(Age(j)' + Gaps(j + lost'))
    BY <2>3, <2>4, <2>5
  <2> QED
    BY <1>0, <2>6 DEF Recent, Uncut, Gaps
<1> QED
  BY <1>1, <1>2, <1>3

\* At the head of the line no span is longer than Lag.
LEMMA LastFollows ==
  ASSUME IInv, Phase, Last, lost <= MaxBurst
  PROVE  Follows
<1> USE ConstantTypes
<1> SUFFICES ASSUME calm > Lag
             PROVE  held[motor] <= Lag
  BY DEF Follows
<1>1. Live /\ Len(wire) \in Nat /\ lost \in Nat /\ motor \in Velocity /\ held[motor] \in Nat
      /\ calm \in Nat
  BY InTimeTypes DEF Phase
<1>2. 1 \in 1..(Len(wire) + 1) /\ 1 + lost \in Nat /\ 1 <= 1 + lost
  BY <1>1
<1>3. Age(1) \in Int /\ Age(1) <= Latency
  BY <1>1, <1>2, Spans DEF Live
<1>4. Gaps(1 + lost) \in Nat /\ Gaps(1 + lost) <= Gaps(MaxBurst + 1)
  <2>1. 1 + lost \in Nat /\ MaxBurst + 1 \in Nat /\ 1 + lost <= MaxBurst + 1
    BY <1>1
  <2> QED
    BY <2>1, GapsAdd, GapsGrow
<1>5. Age(1) + Gaps(1 + lost) <= Lag
  BY <1>3, <1>4, GapsAdd, LagInGaps
<1>6. Recent(motor, Age(1) + Gaps(1 + lost))
  BY <1>1, <1>2 DEF Last
<1>7. calm > Age(1) + Gaps(1 + lost)
  BY <1>1, <1>3, <1>4, <1>5
<1> QED
  BY <1>1, <1>3, <1>4, <1>5, <1>6, <1>7 DEF Recent

LEMMA LastFollowsNext == (IInv /\ Phase /\ Last /\ lost <= MaxBurst)' => Follows'
<1>1. IInv /\ Phase /\ Last /\ lost <= MaxBurst => Follows
  BY LastFollows
<1> QED
  BY <1>1, PTL

\* The motors run what the head of the line carried, which the frames behind it date.
LEMMA FrameTaken ==
  ASSUME IInv, InTime, Phase', BoardTakes
  PROVE  Spaced' /\ Last' /\ Follows'
<1> USE ConstantTypes
<1>0. /\ UNCHANGED <<lc, pc, due, pending, idle, calm, tardy, held>>
      /\ wire # << >> /\ wire' = Tail(wire) /\ lost' = 0 /\ frameAge' = 0
      /\ motor' = wire[1].val /\ Len(wire) \in Nat /\ 1 <= Len(wire)
  BY FrameLess DEF BoardTakes, host
<1>1. Spaced'
  BY <1>0, SpacedMovesUp
<1>2. Last'
  <2> SUFFICES ASSUME Live', NEW j \in 1..(Len(wire') + 1)
               PROVE  /\ (Recent(motor, Age(j) + Gaps(j + lost)))'
                      /\ (Uncut(Age(j) + Gaps(j + lost)))'
    BY DEF Last
  <2>1. Live
    BY <1>0 DEF Live
  <2>2. /\ Age(j)' = Age(j + 1) /\ j + 1 \in 2..(Len(wire) + 1) /\ j \in Nat /\ 1 <= j
        /\ (j + 1) - 1 = j /\ j + lost' = j
    BY <1>0, AgesMoveUp
  <2>3. Recent(wire[1].val, Age(j + 1) + Gaps((j + 1) - 1))
    <3>1. 1 \in 1..Len(wire) /\ j + 1 \in (1 + 1)..(Len(wire) + 1)
      BY <1>0, <2>2
    <3> QED
      BY <2>1, <3>1 DEF InTime, Spaced
  <2>4. Recent(wire[1].val, Age(j)' + Gaps(j + lost'))
    BY <2>2, <2>3
  <2>5. Age(j)' + Gaps(j + lost') \in Nat
    <3>1. j + 1 \in 1..(Len(wire) + 1)
      BY <1>0, <2>2
    <3>2. Age(j + 1) + Gaps(j) \in Nat
      BY <2>1, <2>2, <3>1, Spans DEF InTime, Live
    <3> QED
      BY <2>2, <3>2
  <2>6. frameAge' <= Age(j)' + Gaps(j + lost')
    BY <1>0, <2>5
  <2> QED
    BY <1>0, <2>4, <2>6 DEF Recent, Uncut, Gaps
<1>3. IInv'
  BY NextIInv DEF Next
<1>4. (lost <= MaxBurst)'
  BY <1>0
<1> QED
  BY <1>1, <1>2, <1>3, <1>4, LastFollowsNext

\* After a reboot the motors stand still, and calm counts anew.
LEMMA RestartedKept ==
  ASSUME IInv, InTime, Reboot
  PROVE  Spaced' /\ Last' /\ Follows'
<1> USE ConstantTypes
<1>0. /\ UNCHANGED <<lc, pc, due, pending, idle, wire, lost, tardy, held>>
      /\ motor' = Still /\ calm' = 0
  BY DEF Reboot, host
<1>1. Len(wire) \in Nat /\ lost \in Nat
  BY InTimeTypes
<1>2. \A j \in 1..(Len(wire) + 1) : Age(j)' = Age(j)
  BY <1>0 DEF Age, SinceWrite, Longest
<1>3. ASSUME Live', NEW j \in 1..(Len(wire) + 1), NEW n \in Nat, 1 <= n
      PROVE  Age(j) + Gaps(n) \in Nat
  BY <1>0, <1>3, Spans DEF Live, InTime
<1>4. Spaced'
  <2> SUFFICES ASSUME Live', NEW i \in 1..Len(wire), NEW j \in (i + 1)..(Len(wire) + 1)
               PROVE  (Recent(wire[i].val, Age(j) + Gaps(j - i)))'
    BY <1>0 DEF Spaced
  <2>1. Recent(wire[i].val, Age(j) + Gaps(j - i))
    BY <1>0 DEF InTime, Spaced, Live
  <2>2. j - i \in Nat /\ 1 <= j - i /\ j \in 1..(Len(wire) + 1)
    BY <1>1
  <2>3. Age(j) + Gaps(j - i) \in Nat /\ Age(j)' = Age(j)
    BY <1>2, <1>3, <2>2
  <2>4. /\ ~(0 > Age(j) + Gaps(j - i))
        /\ wire[i].val # Still => idle + Lag < Grace + (Age(j) + Gaps(j - i))
    BY <2>1, <2>3 DEF Recent
  <2> QED
    BY <1>0, <2>3, <2>4 DEF Recent, Gaps
<1>5. Last'
  <2> SUFFICES ASSUME Live', NEW j \in 1..(Len(wire) + 1)
               PROVE  /\ (Recent(motor, Age(j) + Gaps(j + lost)))'
                      /\ (Uncut(Age(j) + Gaps(j + lost)))'
    BY <1>0 DEF Last
  <2>1. j + lost \in Nat /\ 1 <= j + lost
    BY <1>1
  <2>2. Age(j) + Gaps(j + lost) \in Nat /\ Age(j)' = Age(j)
    BY <1>2, <1>3, <2>1
  <2>3. ~(0 > Age(j) + Gaps(j + lost))
    BY <2>2
  <2> QED
    BY <1>0, <2>2, <2>3 DEF Recent, Uncut, Gaps
<1>6. Follows'
  BY <1>0 DEF Follows
<1> QED
  BY <1>4, <1>5, <1>6

\* on_activate returns: nothing is on the line, and enough of the grace is left, or it was
\* tardy.
LEMMA ActivatedKept ==
  ASSUME IInv, InTime, Phase', Activated
  PROVE  Spaced' /\ Last' /\ Follows'
<1> USE ConstantTypes
<1>0. /\ pc = "starting" /\ pc' = "idle" /\ due' = Period
      /\ UNCHANGED <<wire, idle, lost, calm, motor, held>>
      /\ tardy' = (idle + Lag >= Grace)
  BY DEF Activated
<1>1. Len(wire') = 0 /\ calm' = 0 /\ lost \in Nat /\ idle \in Nat
  BY <1>0, InTimeTypes DEF InTime, Phase, Live
<1>2. Spaced'
  BY <1>1 DEF Spaced
<1>3. Last'
  <2> SUFFICES ASSUME Live', NEW j \in 1..(Len(wire') + 1)
               PROVE  /\ (Recent(motor, Age(j) + Gaps(j + lost)))'
                      /\ (Uncut(Age(j) + Gaps(j + lost)))'
    BY DEF Last
  <2>1. j = 1 /\ Age(j)' = -Gap
    BY <1>0, <1>1, GapNat DEF Age, SinceWrite, Longest
  <2>2. 1 + lost \in Nat /\ Gaps(1 + lost) \in Nat /\ Gap <= Gaps(1 + lost)
    <3>1. 1 + lost \in Nat /\ 1 \in Nat /\ 1 <= 1 + lost
      BY <1>1
    <3> QED
      BY <3>1, GapsAdd, GapsGrow
  <2>3. Age(j)' + Gaps(j + lost) \in Nat
    BY <2>1, <2>2, GapNat
  <2>4. ~(0 > Age(j)' + Gaps(j + lost))
    BY <2>3
  <2>5. idle + Lag < Grace
    <3>1. ~tardy'
      BY DEF Live
    <3>2. ~(idle + Lag >= Grace)
      BY <1>0, <3>1
    <3> QED
      BY <1>1, <3>2
  <2>6. idle + Lag < Grace + (Age(j)' + Gaps(j + lost))
    BY <1>1, <2>3, <2>5
  <2> QED
    BY <1>0, <1>1, <2>4, <2>6 DEF Recent, Uncut, Gaps
<1>4. Follows'
  BY <1>1 DEF Follows
<1> QED
  BY <1>2, <1>3, <1>4

LEMMA SpansNext ==
  (IInv /\ Phase /\ pc \in {"idle", "tuning"})'
    => (\A j \in 1..(Len(wire) + 1) : \A n \in Nat : 1 <= n => Age(j) + n * Gap \in Nat)'
<1>1. IInv /\ Phase /\ pc \in {"idle", "tuning"}
        => \A j \in 1..(Len(wire) + 1) : \A n \in Nat : 1 <= n => Age(j) + n * Gap \in Nat
  BY Spans DEF Gaps
<1> QED
  BY <1>1, PTL

\* A frame is written: it is a gap behind the one before, at the latest.
LEMMA SentKept ==
  ASSUME IInv, InTime, WriteWheels, Live, Sends
  PROVE  Spaced' /\ Last'
<1> USE ConstantTypes
<1>0. /\ UNCHANGED <<lost, calm, motor, frameAge, held>> /\ idle' = IdleNow
      /\ wire' = Append(wire, Frame(Outgoing)) /\ Outgoing \in Velocity
      /\ pc' = "idle" /\ due' = Period
  BY DEF WriteWheels, board, Outgoing, Velocity, IInv, TypeOK
<1>9. PICK L \in Nat : L = Len(wire)
  BY InTimeTypes
<1>1. /\ Len(wire) = L /\ L \in Nat /\ lost \in Nat /\ idle \in Nat /\ motor \in Velocity
      /\ \A i \in 1..L : wire[i].val \in Velocity
      /\ calm \in Nat /\ frameAge \in Nat /\ \A v \in Velocity : held[v] \in Nat
  BY <1>9, InTimeTypes
<1>2. /\ Len(wire') = L + 1 /\ wire'[L + 1] = Frame(Outgoing)
      /\ \A i \in 1..L : wire'[i] = wire[i]
  BY <1>0, <1>9, FrameMore
<1>3. idle' \in Nat /\ idle' <= idle /\ (Outgoing # Still => idle' = 0)
  <2>1. Stopped => Outgoing = Still
    <3> SUFFICES ASSUME Stopped
                 PROVE  cmd = Still
      BY StillIsVelocity DEF Outgoing
    <3>1. cmd \in [Wheel -> Int]
      BY LoopAssumption DEF IInv, TypeOK
    <3> QED
      BY <3>1 DEF Stopped, Still
  <2> QED
    BY <1>0, <1>1, <2>1 DEF IdleNow
<1>4. /\ \A j \in 1..(L + 1) :
           Age(j) \in Int /\ Age(j)' \in Int /\ Age(j) <= Age(j)'
      /\ Age(L + 2)' = -Gap
  <2>1. SinceWrite \in 0..Gap /\ SinceWrite' = 0
    <3>1. SinceWrite' = 0
      BY <1>0 DEF SinceWrite, Longest
    <3>2. 1 \in 1..(L + 1) /\ 1 \in Nat
      BY <1>1
    <3> QED
      BY <3>1, <3>2, Spans DEF InTime, Live
  <2>2. ASSUME NEW j \in 1..L
        PROVE  Age(j) \in Int /\ Age(j)' = Age(j)
    BY <1>1, <1>2, InTimeTypes DEF Age
  <2>3. Age(L + 1) = SinceWrite - Gap
    BY <1>1 DEF Age
  <2>4. Age(L + 1)' = 0
    BY <1>1, <1>2 DEF Age, Frame
  <2>5. Age(L + 2)' = -Gap
    BY <1>1, <1>2, <2>1, GapNat DEF Age
  <2>6. \A j \in 1..(L + 1) : j \in 1..L \/ j = L + 1
    BY <1>1
  <2> QED
    BY <2>1, <2>2, <2>3, <2>4, <2>5, <2>6, GapNat
<1>5. ASSUME NEW v \in Velocity, NEW span \in Int, NEW wider \in Int, span <= wider,
             Recent(v, span)
      PROVE  /\ calm > wider => held[v] <= wider
             /\ v # Still => idle' + Lag < Grace + wider
  <2>1. Recent(v, wider)
    BY <1>5, RecentGrows
  <2>2. v # Still => idle + Lag < Grace + wider
    BY <2>1 DEF Recent
  <2>3. idle' <= idle /\ idle' \in Nat /\ idle \in Nat /\ Lag \in Nat /\ Grace \in Nat
    BY <1>1, <1>3
  <2>4. calm > wider => held[v] <= wider
    BY <2>1 DEF Recent
  <2>5. v # Still => idle' + Lag < Grace + wider
    <3>1. idle' \in Int /\ idle \in Int /\ Lag \in Int /\ Grace \in Int /\ wider \in Int
      BY <2>3
    <3> QED
      BY <2>2, <2>3, <3>1, SumOrder
  <2> QED
    BY <2>4, <2>5
\* A span up to the frame just written, and the same one up to the next.
<1>6. ASSUME NEW n \in Nat
      PROVE  /\ Gaps(n) \in Nat /\ Age(L + 1) + Gaps(n) \in Int
             /\ Age(L + 2)' + Gaps(n + 1) = Gaps(n)
             /\ Age(L + 1) + Gaps(n) <= Gaps(n)
  <2>1. Age(L + 1) \in Int /\ Age(L + 1) <= 0
    <3>1. L + 1 \in 1..(L + 1)
      BY <1>1
    <3>2. Age(L + 1) = SinceWrite - Gap /\ SinceWrite \in 0..Gap
      <4>1. SinceWrite \in 0..Gap
        BY <1>1, <3>1, Spans, 1 \in Nat DEF InTime, Live
      <4> QED
        BY <1>1, <4>1 DEF Age
    <3> QED
      BY <3>2, GapNat
  <2> QED
    BY <1>4, <2>1, GapsAdd, GapNat
<1>7. Spaced'
  <2> SUFFICES ASSUME NEW i \in 1..(L + 1), NEW j \in (i + 1)..(L + 2)
               PROVE  (Recent(wire[i].val, Age(j) + Gaps(j - i)))'
    BY <1>2 DEF Spaced
  <2>1. CASE i \in 1..L /\ j <= L + 1
    <3>1. Recent(wire[i].val, Age(j) + Gaps(j - i))
      BY <1>1, <2>1 DEF InTime, Spaced
    <3>2. /\ j - i \in Nat /\ j \in 1..(L + 1)
          /\ wire'[i] = wire[i] /\ wire[i].val \in Velocity
      BY <1>1, <1>2, <2>1
    <3>3. /\ Age(j) + Gaps(j - i) \in Int /\ Age(j)' + Gaps(j - i) \in Int
          /\ Age(j) + Gaps(j - i) <= Age(j)' + Gaps(j - i)
      BY <1>4, <3>2, GapsAdd
    <3>4. /\ calm > Age(j)' + Gaps(j - i) => held[wire[i].val] <= Age(j)' + Gaps(j - i)
          /\ wire[i].val # Still => idle' + Lag < Grace + (Age(j)' + Gaps(j - i))
      BY <1>5, <3>1, <3>2, <3>3
    <3> QED
      BY <1>0, <3>2, <3>4 DEF Recent, Gaps
  <2>2. CASE i \in 1..L /\ j = L + 2
    <3> DEFINE n == L + 1 - i
    <3>1. Recent(wire[i].val, Age(L + 1) + Gaps(n))
      BY <1>1, <2>2 DEF InTime, Spaced
    <3>2. n \in Nat /\ j - i = n + 1 /\ wire'[i] = wire[i] /\ wire[i].val \in Velocity
      BY <1>1, <1>2, <2>2
    <3>3. /\ Gaps(n) \in Nat /\ Age(L + 1) + Gaps(n) \in Int
          /\ Age(j)' + Gaps(j - i) = Gaps(n) /\ Age(L + 1) + Gaps(n) <= Gaps(n)
      BY <1>6, <2>2, <3>2
    <3> HIDE DEF n
    <3>4. /\ calm > Gaps(n) => held[wire[i].val] <= Gaps(n)
          /\ wire[i].val # Still => idle' + Lag < Grace + Gaps(n)
      BY <1>5, <3>1, <3>2, <3>3
    <3>5. /\ calm > Age(j)' + Gaps(j - i) => held[wire[i].val] <= Age(j)' + Gaps(j - i)
          /\ wire[i].val # Still => idle' + Lag < Grace + (Age(j)' + Gaps(j - i))
      BY <3>3, <3>4
    <3> QED
      BY <1>0, <3>2, <3>5 DEF Recent, Gaps
  <2>3. CASE i = L + 1
    <3>1. j = L + 2 /\ j - i = 1 /\ wire'[i].val = Outgoing
      BY <1>1, <1>2, <2>3 DEF Frame
    <3>2. Age(j)' + Gaps(j - i) = 0
      BY <1>4, <3>1, GapsAdd, GapNat
    <3>3. held[Outgoing] = 0
      BY DEF IInv, Fresh, Outgoing
    <3>4. /\ calm > Age(j)' + Gaps(j - i) => held[Outgoing] <= Age(j)' + Gaps(j - i)
          /\ Outgoing # Still => idle' + Lag < Grace + (Age(j)' + Gaps(j - i))
      BY <1>3, <3>2, <3>3, LoopAssumption
    <3>5. /\ calm > Age(j)' + Gaps(j - i) => held[wire'[i].val] <= Age(j)' + Gaps(j - i)
          /\ wire'[i].val # Still => idle' + Lag < Grace + (Age(j)' + Gaps(j - i))
      BY <3>1, <3>4
    <3> QED
      BY <1>0, <3>5 DEF Recent, Gaps
  <2>4. i \in 1..L \/ i = L + 1
    BY <1>1
  <2>5. j <= L + 1 \/ j = L + 2
    BY <1>1
  <2> QED
    BY <2>1, <2>2, <2>3, <2>4, <2>5
<1>8. Last'
  <2> SUFFICES ASSUME lost <= MaxBurst, NEW j \in 1..(L + 2)
               PROVE  /\ (Recent(motor, Age(j) + Gaps(j + lost)))'
                      /\ (Uncut(Age(j) + Gaps(j + lost)))'
    BY <1>0, <1>2 DEF Last
  <2>1. CASE j \in 1..(L + 1)
    <3>1. Recent(motor, Age(j) + Gaps(j + lost)) /\ Uncut(Age(j) + Gaps(j + lost))
      BY <1>1, <2>1 DEF InTime, Last
    <3>2. j + lost \in Nat
      BY <1>1
    <3>3. /\ Age(j) + Gaps(j + lost) \in Int /\ Age(j)' + Gaps(j + lost) \in Int
          /\ Age(j) + Gaps(j + lost) <= Age(j)' + Gaps(j + lost)
      BY <1>4, <2>1, <3>2, GapsAdd
    <3>4. /\ calm > Age(j)' + Gaps(j + lost) => held[motor] <= Age(j)' + Gaps(j + lost)
          /\ motor # Still => idle' + Lag < Grace + (Age(j)' + Gaps(j + lost))
      BY <1>1, <1>5, <3>1, <3>3
    <3>5. calm > Age(j)' + Gaps(j + lost) /\ motor # Still
            => frameAge <= Age(j)' + Gaps(j + lost)
      BY <1>1, <3>1, <3>3 DEF Uncut
    <3> QED
      BY <1>0, <3>4, <3>5 DEF Recent, Uncut, Gaps
  <2>2. CASE j = L + 2
    <3> DEFINE n == L + 1 + lost
    <3>1. Recent(motor, Age(L + 1) + Gaps(n)) /\ Uncut(Age(L + 1) + Gaps(n))
      <4>1. L + 1 \in 1..(L + 1)
        BY <1>1
      <4> QED
        BY <1>1, <4>1 DEF InTime, Last
    <3>2. n \in Nat /\ j + lost = n + 1
      BY <1>1, <2>2
    <3>3. /\ Gaps(n) \in Nat /\ Age(L + 1) + Gaps(n) \in Int
          /\ Age(j)' + Gaps(j + lost) = Gaps(n) /\ Age(L + 1) + Gaps(n) <= Gaps(n)
      BY <1>6, <2>2, <3>2
    <3> HIDE DEF n
    <3>4. /\ calm > Gaps(n) => held[motor] <= Gaps(n)
          /\ motor # Still => idle' + Lag < Grace + Gaps(n)
      BY <1>1, <1>5, <3>1, <3>3
    <3>5. calm > Gaps(n) /\ motor # Still => frameAge <= Gaps(n)
      BY <1>1, <3>1, <3>3 DEF Uncut
    <3>6. /\ calm > Age(j)' + Gaps(j + lost) => held[motor] <= Age(j)' + Gaps(j + lost)
          /\ motor # Still => idle' + Lag < Grace + (Age(j)' + Gaps(j + lost))
          /\ calm > Age(j)' + Gaps(j + lost) /\ motor # Still
               => frameAge <= Age(j)' + Gaps(j + lost)
      BY <3>3, <3>4, <3>5
    <3> QED
      BY <1>0, <3>6 DEF Recent, Uncut, Gaps
  <2>3. j \in 1..(L + 1) \/ j = L + 2
    BY <1>1
  <2> QED
    BY <2>1, <2>2, <2>3
<1> QED
  BY <1>7, <1>8

\* write() goes quiet: the grace is over, so the zeros have arrived.
LEMMA QuietKept ==
  ASSUME IInv, InTime, IInv', Phase', WriteWheels, Live, ~Sends
  PROVE  Spaced' /\ Last'
<1> USE ConstantTypes
<1>0. /\ UNCHANGED <<wire, lost, calm, motor, held>> /\ pc' = "idle"
      /\ Len(wire) \in Nat /\ lost \in Nat /\ idle \in Nat /\ idle <= Grace
      /\ motor \in Velocity
  BY InTimeTypes DEF WriteWheels, board
<1>1. Stopped /\ idle = Grace
  BY <1>0, LoopAssumption DEF Sends, IdleNow
<1>2. held[Still] = 0
  <2>1. cmd \in [Wheel -> Int]
    BY LoopAssumption DEF IInv, TypeOK
  <2>2. cmd = Still
    BY <1>1, <2>1 DEF Stopped, Still
  <2> QED
    BY <2>2, StillIsVelocity DEF IInv, Fresh
<1>3. \A i \in 1..Len(wire) : wire[i].val = Still
  <2>1. Latency < Grace
    BY LoopAssumption, GapNat DEF Lag
  <2> QED
    BY <1>1, <2>1, InTimeTypes DEF InTime, Zeros
<1>4. lost <= MaxBurst => motor = Still
  <2> SUFFICES ASSUME lost <= MaxBurst, motor # Still
               PROVE  FALSE
    OBVIOUS
  <2>1. 1 \in 1..(Len(wire) + 1) /\ 1 + lost \in Nat /\ 1 <= 1 + lost
    BY <1>0
  <2>2. Age(1) \in Int /\ Age(1) <= Latency
    BY <2>1, Spans DEF InTime, Live
  <2>3. Gaps(1 + lost) \in Nat /\ Gaps(1 + lost) <= Gaps(MaxBurst + 1)
    <3>1. 1 + lost \in Nat /\ MaxBurst + 1 \in Nat /\ 1 + lost <= MaxBurst + 1
      BY <1>0
    <3> QED
      BY <3>1, GapsAdd, GapsGrow
  <2>4. Age(1) + Gaps(1 + lost) <= Lag
    BY <2>2, <2>3, GapsAdd, LagInGaps
  <2>5. Recent(motor, Age(1) + Gaps(1 + lost))
    BY <2>1 DEF InTime, Last
  <2>6. idle + Lag < Grace + (Age(1) + Gaps(1 + lost))
    BY <2>5 DEF Recent
  <2> QED
    BY <1>1, <2>2, <2>3, <2>4, <2>6
<1>5. ASSUME NEW j \in 1..(Len(wire) + 1), NEW n \in Nat, 1 <= n
      PROVE  Age(j)' + Gaps(n) \in Nat
  <2>1. (\A k \in 1..(Len(wire) + 1) : \A m \in Nat : 1 <= m => Age(k) + m * Gap \in Nat)'
    BY <1>0, SpansNext
  <2> QED
    BY <1>0, <1>5, <2>1 DEF Gaps
<1>6. Spaced'
  <2> SUFFICES ASSUME NEW i \in 1..Len(wire), NEW j \in (i + 1)..(Len(wire) + 1)
               PROVE  (Recent(wire[i].val, Age(j) + Gaps(j - i)))'
    BY <1>0 DEF Spaced
  <2>1. j - i \in Nat /\ 1 <= j - i /\ j \in 1..(Len(wire) + 1)
    BY <1>0
  <2>2. Age(j)' + Gaps(j - i) \in Nat /\ wire'[i].val = Still
    BY <1>0, <1>3, <1>5, <2>1
  <2>3. /\ held'[wire'[i].val] <= Age(j)' + Gaps(j - i)
        /\ wire'[i].val = Still
    BY <1>0, <1>2, <2>2
  <2> QED
    BY <2>3 DEF Recent, Gaps
<1>7. Last'
  <2> SUFFICES ASSUME lost <= MaxBurst, NEW j \in 1..(Len(wire) + 1)
               PROVE  /\ (Recent(motor, Age(j) + Gaps(j + lost)))'
                      /\ (Uncut(Age(j) + Gaps(j + lost)))'
    BY <1>0 DEF Last
  <2>1. j + lost \in Nat /\ 1 <= j + lost
    BY <1>0
  <2>2. Age(j)' + Gaps(j + lost) \in Nat /\ motor' = Still
    BY <1>0, <1>4, <1>5, <2>1
  <2>3. held'[motor'] <= Age(j)' + Gaps(j + lost')
    BY <1>0, <1>2, <2>2
  <2> QED
    BY <2>2, <2>3 DEF Recent, Uncut, Gaps
<1> QED
  BY <1>6, <1>7

\* A component that was tardy drives off: it is in time again.
LEMMA DrivingOffKept ==
  ASSUME IInv, InTime, IInv', Phase', WriteWheels, ~Live
  PROVE  Spaced' /\ Last'
<1> USE ConstantTypes
<1>0. /\ lc' = lc /\ pc' = "idle" /\ idle' = IdleNow /\ calm' = calm /\ calm = 0
      /\ pc \in {"idle", "tuning"} /\ lost' = lost /\ lost \in Nat
  BY InTimeTypes DEF WriteWheels, CycleDue, InTime, Phase
<1>1. Live' => idle' = 0
  <2> SUFFICES ASSUME Live'
               PROVE  ~Stopped
    BY <1>0 DEF IdleNow
  <2>1. lc = "active" /\ ~tardy'
    BY <1>0 DEF Live
  <2>2. tardy
    BY <1>0, <2>1 DEF Live
  <2>3. tardy' = (tardy /\ Stopped)
    BY DEF WriteWheels
  <2> QED
    BY <2>1, <2>2, <2>3
<1>2. PICK L \in Nat : L = Len(wire')
  <2>1. wire' \in Seq([val : Velocity, age : 0..Latency])
    BY DEF IInv, TypeOK
  <2> QED
    BY <2>1, LenProperties
<1>3. ASSUME NEW j \in 1..(L + 1), NEW n \in Nat, 1 <= n
      PROVE  Age(j)' + Gaps(n) \in Nat
  <2>1. (\A k \in 1..(Len(wire) + 1) : \A m \in Nat : 1 <= m => Age(k) + m * Gap \in Nat)'
    BY <1>0, SpansNext
  <2> QED
    BY <1>2, <1>3, <2>1 DEF Gaps
<1>4. Spaced'
  <2> SUFFICES ASSUME Live', NEW i \in 1..L, NEW j \in (i + 1)..(L + 1)
               PROVE  (Recent(wire[i].val, Age(j) + Gaps(j - i)))'
    BY <1>2 DEF Spaced
  <2>1. j - i \in Nat /\ 1 <= j - i /\ j \in 1..(L + 1)
    OBVIOUS
  <2>2. Age(j)' + Gaps(j - i) \in Nat
    BY <1>3, <2>1
  <2>3. ~(calm' > Age(j)' + Gaps(j - i)) /\ idle' + Lag < Grace + (Age(j)' + Gaps(j - i))
    BY <1>0, <1>1, <2>2, LoopAssumption
  <2> QED
    BY <2>3 DEF Recent, Gaps
<1>5. Last'
  <2> SUFFICES ASSUME Live', NEW j \in 1..(L + 1)
               PROVE  /\ (Recent(motor, Age(j) + Gaps(j + lost)))'
                      /\ (Uncut(Age(j) + Gaps(j + lost)))'
    BY <1>2 DEF Last
  <2>1. j + lost' \in Nat /\ 1 <= j + lost'
    BY <1>0
  <2>2. Age(j)' + Gaps(j + lost') \in Nat
    BY <1>3, <2>1
  <2>3. /\ ~(calm' > Age(j)' + Gaps(j + lost'))
        /\ idle' + Lag < Grace + (Age(j)' + Gaps(j + lost'))
    BY <1>0, <1>1, <2>2, LoopAssumption
  <2> QED
    BY <2>3 DEF Recent, Uncut, Gaps
<1> QED
  BY <1>4, <1>5

\* Time passes: all spans grow with it, and the board's timeout does not cut off what is
\* driven in time.
LEMMA TickKept ==
  ASSUME IInv, InTime, IInv', Phase', Tick
  PROVE  Spaced' /\ Last' /\ Follows'
<1> USE ConstantTypes
<1>9. PICK L \in Nat : L = Len(wire)
  BY InTimeTypes
<1>0. /\ UNCHANGED <<lc, pc, pending, tardy, lost>> /\ due' = due - 1 /\ due \in Nat
      /\ Len(wire) = L /\ Len(wire') = L
      /\ \A i \in 1..L : /\ wire'[i].val = wire[i].val /\ wire'[i].age = wire[i].age + 1
                         /\ wire[i].val \in Velocity /\ wire[i].age \in Nat
      /\ motor \in Velocity /\ lost \in Nat
  BY <1>9, FramesOlder, InTimeTypes DEF Tick
<1>1. /\ idle' \in Nat /\ idle' <= idle + 1 /\ idle \in Nat
      /\ frameAge' \in Nat /\ frameAge' <= frameAge + 1 /\ frameAge \in Nat
      /\ calm' \in Nat /\ calm' <= calm + 1 /\ calm \in Nat /\ calm' <= Lag + 1
  <2>1. /\ idle \in 0..Grace /\ frameAge \in 0..MaxTimeout /\ calm \in 0..(Lag + 1)
        /\ calm' \in 0..(Lag + 1) /\ Lag + 1 \in Nat
    BY DEF IInv, TypeOK
  <2>2. /\ Up(idle, Grace) \in 0..Grace /\ Up(idle, Grace) <= idle + 1
        /\ Up(frameAge, MaxTimeout) \in 0..MaxTimeout
        /\ Up(frameAge, MaxTimeout) <= frameAge + 1
        /\ Up(calm, Lag + 1) <= calm + 1
    BY <2>1, UpBounded
  <2> QED
    BY <2>1, <2>2 DEF Tick
<1>2. \A v \in Velocity : held[v] \in Nat /\ held'[v] \in Nat /\ held'[v] <= held[v] + 1
  <2> SUFFICES ASSUME NEW v \in Velocity
               PROVE  held[v] \in Nat /\ held'[v] \in Nat /\ held'[v] <= held[v] + 1
    OBVIOUS
  <2>1. held[v] \in 0..(Limit + 1) /\ held'[v] \in 0..(Limit + 1) /\ Limit + 1 \in Nat
    BY DEF IInv, TypeOK
  <2>2. Up(held[v], Limit + 1) <= held[v] + 1
    BY <2>1, UpBounded
  <2>3. held'[v] = IF v = Wire(cmd) THEN 0 ELSE Up(held[v], Limit + 1)
    BY DEF Tick
  <2> QED
    BY <2>1, <2>2, <2>3
<1>3. calm' > 0 => lost <= MaxBurst /\ timeout > Lag
  BY DEF Tick, Steady
<1>4. ASSUME Live', NEW j \in 1..(L + 1)
      PROVE  Age(j) \in Int /\ Age(j)' = Age(j) + 1
  <2>1. Age(j) \in Int
    BY <1>0, <1>4, Spans, 1 \in Nat DEF InTime, Live
  <2>2. CASE j <= L
    BY <1>0, <2>2 DEF Age
  <2>3. CASE ~(j <= L)
    <3>1. SinceWrite' = SinceWrite + 1 /\ SinceWrite \in Int
      <4>1. Longest' = Longest /\ Longest \in Int
        BY <1>0, GapNat DEF Longest
      <4> QED
        BY <1>0, <4>1 DEF SinceWrite
    <3> QED
      BY <1>0, <2>3, <3>1, GapNat DEF Age
  <2> QED
    BY <2>1, <2>2, <2>3
<1>5. ASSUME NEW v \in Velocity, NEW span \in Int, Recent(v, span)
      PROVE  /\ calm' > span + 1 => held'[v] <= span + 1
             /\ v # Still => idle' + Lag < Grace + (span + 1)
  <2>1. calm > span => held[v] <= span
    BY <1>5 DEF Recent
  <2>2. v # Still => idle + Lag < Grace + span
    BY <1>5 DEF Recent
  <2>3. calm' > span + 1 => held'[v] <= span + 1
    BY <1>1, <1>2, <2>1
  <2>4. v # Still => idle' + Lag < Grace + (span + 1)
    <3>1. idle' \in Int /\ idle \in Int /\ Lag \in Int /\ Grace \in Int /\ span \in Int
      BY <1>1
    <3> QED
      BY <1>1, <2>2, <3>1, SumOrder
  <2> QED
    BY <2>3, <2>4
<1>6. Spaced'
  <2> SUFFICES ASSUME Live', NEW i \in 1..L, NEW j \in (i + 1)..(L + 1)
               PROVE  (Recent(wire[i].val, Age(j) + Gaps(j - i)))'
    BY <1>0 DEF Spaced
  <2>1. Recent(wire[i].val, Age(j) + Gaps(j - i))
    BY <1>0 DEF InTime, Spaced, Live
  <2>2. j - i \in Nat /\ j \in 1..(L + 1)
    OBVIOUS
  <2>3. Age(j) + Gaps(j - i) \in Int /\ Age(j)' + Gaps(j - i) = (Age(j) + Gaps(j - i)) + 1
    BY <1>4, <2>2, GapsAdd
  <2>4. wire'[i].val = wire[i].val /\ wire[i].val \in Velocity
    BY <1>0
  <2>5. /\ calm' > Age(j)' + Gaps(j - i) => held'[wire'[i].val] <= Age(j)' + Gaps(j - i)
        /\ wire'[i].val # Still => idle' + Lag < Grace + (Age(j)' + Gaps(j - i))
    BY <1>5, <2>1, <2>3, <2>4
  <2> QED
    BY <2>5 DEF Recent, Gaps
<1>7. Last'
  <2> SUFFICES ASSUME Live', lost <= MaxBurst, NEW j \in 1..(L + 1)
               PROVE  /\ (Recent(motor, Age(j) + Gaps(j + lost)))'
                      /\ (Uncut(Age(j) + Gaps(j + lost)))'
    BY <1>0 DEF Last
  <2> DEFINE span == Age(j) + Gaps(j + lost)
  <2>1. Recent(motor, span) /\ Uncut(span)
    BY <1>0 DEF InTime, Last, Live
  <2>2. j + lost \in Nat /\ 1 <= j + lost
    BY <1>0
  <2>3. span \in Nat /\ Age(j)' + Gaps(j + lost) = span + 1
    <3>1. span \in Nat
      BY <1>0, <2>2, Spans DEF InTime, Live
    <3> QED
      BY <1>4, <2>2, <3>1, GapsAdd
  <2> HIDE DEF span
  <2>4. CASE motor' = motor
    <3>1. /\ calm' > span + 1 => held'[motor] <= span + 1
          /\ motor # Still => idle' + Lag < Grace + (span + 1)
      BY <1>0, <1>5, <2>1, <2>3
    <3>2. calm' > span + 1 /\ motor # Still => frameAge' <= span + 1
      BY <1>1, <2>1, <2>3 DEF Uncut
    <3>3. /\ calm' > Age(j)' + Gaps(j + lost) => held'[motor'] <= Age(j)' + Gaps(j + lost)
          /\ motor' # Still => idle' + Lag < Grace + (Age(j)' + Gaps(j + lost))
          /\ calm' > Age(j)' + Gaps(j + lost) /\ motor' # Still
               => frameAge' <= Age(j)' + Gaps(j + lost)
      BY <2>3, <2>4, <3>1, <3>2
    <3> QED
      BY <1>0, <3>3 DEF Recent, Uncut, Gaps
  <2>5. CASE motor' # motor
    <3>1. motor' = Still /\ motor # Still /\ frameAge' >= timeout
      BY <2>5 DEF Tick
    <3>2. ~(calm' > span + 1)
      <4> SUFFICES ASSUME calm' > span + 1
                   PROVE  FALSE
        OBVIOUS
      <4>1. frameAge <= span
        BY <1>1, <2>1, <2>3, <3>1 DEF Uncut
      <4>2. timeout > Lag /\ timeout \in Nat
        BY <1>1, <1>3, <2>3 DEF IInv, TypeOK
      <4> QED
        BY <1>1, <2>3, <3>1, <4>1, <4>2
    <3>3. ~(calm' > Age(j)' + Gaps(j + lost)) /\ motor' = Still
      BY <2>3, <3>1, <3>2
    <3> QED
      BY <1>0, <3>3 DEF Recent, Uncut, Gaps
  <2> QED
    BY <2>4, <2>5
<1>8. Follows'
  <2>1. CASE calm' > Lag
    <3>1. (lost <= MaxBurst)'
      BY <1>0, <1>1, <1>3, <2>1
    <3> QED
      BY <1>7, <3>1, LastFollowsNext
  <2>2. CASE ~(calm' > Lag)
    BY <2>2 DEF Follows
  <2> QED
    BY <2>1, <2>2
<1> QED
  BY <1>6, <1>7, <1>8

LEMMA NextInTime == IInv /\ InTime /\ [Next]_vars => InTime'
<1> SUFFICES ASSUME IInv, InTime, [Next]_vars
             PROVE  InTime'
  OBVIOUS
<1> USE ConstantTypes
<1>0. IInv' /\ Phase' /\ Zeros'
  BY NextIInv, NextPhase, NextZeros DEF InTime
<1>1. CASE WriteWheels
  <2>1. Spaced' /\ Last'
    BY <1>0, <1>1, SentKept, QuietKept, DrivingOffKept
  <2>2. UNCHANGED <<calm, motor, held>>
    BY <1>1 DEF WriteWheels, board
  <2>3. Follows'
    BY <2>2 DEF InTime, Follows
  <2> QED
    BY <1>0, <2>1, <2>3 DEF InTime
<1>2. CASE WriteTuning \/ Drive \/ Tune \/ UNCHANGED vars
  <2>1. UNCHANGED <<wire, motor, frameAge, lost, idle, calm, lc, tardy>>
    BY <1>2 DEF WriteTuning, Drive, Tune, vars, host, board, bound
  <2>2. \A v \in Velocity : held'[v] \in Nat /\ held'[v] <= held[v]
    <3> SUFFICES ASSUME NEW v \in Velocity
                 PROVE  held'[v] \in Nat /\ held'[v] <= held[v]
      OBVIOUS
    <3>1. held[v] \in Nat /\ held \in [Velocity -> 0..(Limit + 1)]
      BY InTimeTypes DEF IInv, TypeOK
    <3>2. held' = held \/ \E c \in Command : held' = [held EXCEPT ![Wire(c)] = 0]
      BY <1>2 DEF WriteTuning, Drive, Tune, Take, vars
    <3>3. CASE held'[v] = 0
      BY <3>1, <3>3
    <3>4. CASE held'[v] # 0
      BY <3>1, <3>2, <3>4
    <3> QED
      BY <3>3, <3>4
  <2>3. Live' => Live /\ SinceWrite \in Int /\ SinceWrite' \in Int /\ SinceWrite <= SinceWrite'
    <3> SUFFICES ASSUME Live'
                 PROVE  Live /\ SinceWrite \in Int /\ SinceWrite' \in Int
                        /\ SinceWrite <= SinceWrite'
      OBVIOUS
    <3>1. pc \in {"idle", "tuning"}
      BY <1>2 DEF Live, WriteTuning, CycleDue, Drive, Tune, Controllers, vars, host
    <3>2. Live
      BY <2>1, <3>1 DEF Live
    <3>3. due \in Nat /\ pending \subseteq {"gains", "timeout"}
      BY DEF IInv, TypeOK
    <3>4. CASE WriteTuning
      <4>1. pc' = "tuning" /\ due' = AckWait
        BY <3>4 DEF WriteTuning
      <4>2. pc = "tuning" => pending # {} /\ pending' = {}
        BY <3>3, <3>4 DEF WriteTuning, InTime, Phase
      <4>3. CASE pc = "idle"
        <5>1. Longest = Period /\ due >= 0
          BY <3>3, <4>3 DEF Longest
        <5>2. Longest' = Period + AckWait \/ Longest' = Gap
          BY <4>1 DEF Longest
        <5> QED
          <6>1. SinceWrite = Period - due /\ SinceWrite' = Longest' - AckWait
            BY <4>1, <5>1 DEF SinceWrite
          <6>2. SinceWrite' = Period \/ SinceWrite' = Period + AckWait
            BY <5>2, <6>1, GapNat
          <6> QED
            BY <3>2, <3>3, <6>1, <6>2
      <4>4. CASE pc = "tuning"
        <5>1. Longest = Period + AckWait /\ Longest' = Gap
          BY <4>1, <4>2, <4>4 DEF Longest
        <5> QED
          <6>1. SinceWrite = (Period + AckWait) - due /\ SinceWrite' = Gap - AckWait
            BY <4>1, <5>1 DEF SinceWrite
          <6>2. SinceWrite' = Period + AckWait
            BY <6>1, GapNat
          <6> QED
            BY <3>2, <3>3, <6>1, <6>2
      <4> QED
        BY <3>1, <3>2, <4>3, <4>4
    <3>5. CASE Drive \/ Tune \/ UNCHANGED vars
      <4>1. UNCHANGED <<pc, due>> /\ (pc # "idle" => UNCHANGED pending)
        BY <3>5 DEF Drive, Tune, Controllers, vars, host
      <4>2. SinceWrite' = SinceWrite /\ SinceWrite \in Int
        BY <3>3, <4>1, GapNat DEF SinceWrite, Longest
      <4> QED
        BY <3>2, <4>2
    <3> QED
      BY <1>2, <3>4, <3>5
  <2> QED
    BY <1>0, <2>1, <2>2, <2>3, Unmoved DEF InTime
<1>3. CASE OnActivate \/ HandshakeFails \/ HandshakeDone \/ OnDeactivate \/ Deactivated
  <2>1. calm = 0 \/ OnDeactivate
    BY <1>3, InTimeTypes DEF OnActivate, HandshakeFails, HandshakeDone, Deactivated, InTime,
                             Phase, Live
  <2>2. calm' = 0
    BY <1>3, <2>1 DEF OnActivate, HandshakeFails, HandshakeDone, OnDeactivate, Deactivated,
                      bound
  <2>3. ~(lc' = "active" /\ pc' \in {"idle", "tuning"})
    BY <1>3 DEF OnActivate, HandshakeFails, HandshakeDone, OnDeactivate, Deactivated,
                InTime, Phase
  <2>4. ~Live'
    BY <2>3 DEF Live
  <2>5. Follows'
    BY <2>2 DEF Follows
  <2> QED
    BY <1>0, <2>4, <2>5 DEF InTime, Spaced, Last
<1>4. CASE Activated
  BY <1>0, <1>4, ActivatedKept DEF InTime
<1>5. CASE BoardTakes
  BY <1>0, <1>5, FrameTaken DEF InTime
<1>6. CASE Lose
  BY <1>0, <1>6, LossKept DEF InTime
<1>7. CASE Reboot
  BY <1>0, <1>7, RestartedKept DEF InTime
<1>8. CASE Tick
  BY <1>0, <1>8, TickKept DEF InTime
<1> QED
  BY <1>1, <1>2, <1>3, <1>4, <1>5, <1>6, <1>7, <1>8 DEF Next

\* While the line loses no more than MaxBurst frames in a row and the board's timeout is
\* longer than Lag, the motors run what was commanded at most Lag ago (Follows of DriveLoop):
\* neither tuning nor the board's timeout cuts a drive off, and the zeros of a stop arrive.
THEOREM DriveFollows == Spec => []Follows
<1>1. IInv /\ InTime => Follows
  BY DEF InTime
<1> QED
  BY <1>1, InitIInv, NextIInv, InitInTime, NextInTime, PTL DEF Spec

-----------------------------------------------------------------------------
\* DriveLoop implements DeadMan: where the motors may go.
LEMMA InitSwitch == Init => Switch!Init
BY StillIsVelocity DEF Init, Switch!Init

\* Another command is a request, whoever gives it.
LEMMA TakeAsks ==
  ASSUME NEW c \in Command, Take(c), UNCHANGED motor
  PROVE  Switch!Ask
<1>1. (Wire(cmd))' = Wire(c) /\ Wire(c) \in Velocity
  BY DEF Take, Wire, Velocity
<1> QED
  BY <1>1 DEF Take, Switch!Ask

\* A frame that the board takes left the host at most Latency ago.
LEMMA BoardObeys ==
  ASSUME IInv, BoardTakes
  PROVE  Switch!Obey \/ Switch!Stop
<1> USE ConstantTypes
<1>1. /\ Head(wire) = wire[1] /\ 1 \in DOMAIN wire
      /\ Head(wire) \in [val : Velocity, age : 0..Latency]
  BY FramesTail DEF BoardTakes, IInv, TypeOK
<1>2. (Wire(cmd))' = Wire(cmd) /\ held' = held /\ motor' = wire[1].val
  BY <1>1 DEF BoardTakes, Wire
<1>3. CASE wire[1].val = Still
  BY <1>2, <1>3 DEF Switch!Stop
<1>4. CASE wire[1].val # Still
  <2>1. held[wire[1].val] <= wire[1].age
    BY <1>1, <1>4 DEF IInv, Fresh
  <2>2. held[wire[1].val] \in Nat /\ wire[1].age \in 0..Latency /\ wire[1].val \in Velocity
    BY <1>1 DEF IInv, TypeOK
  <2>3. held[wire[1].val] <= Latency
    BY <2>1, <2>2
  <2> QED
    BY <1>2, <2>2, <2>3 DEF Switch!Obey
<1> QED
  BY <1>3, <1>4

\* The board's timeout cuts off what got too old.
LEMMA TickPasses ==
  ASSUME IInv, Tick
  PROVE  Switch!Pass
<1> USE ConstantTypes
<1>1. IInv'
  BY TickKeepsFresh
<1>2. held \in [Velocity -> 0..(Limit + 1)]
  BY DEF IInv, TypeOK
<1>3. held' = [v \in Velocity |-> IF v = Wire(cmd) THEN 0 ELSE Switch!Older(held[v])]
  <2>1. \A v \in Velocity : Up(held[v], Limit + 1) = Switch!Older(held[v])
    <3> SUFFICES ASSUME NEW v \in Velocity
                 PROVE  Up(held[v], Limit + 1) = Switch!Older(held[v])
      OBVIOUS
    <3>1. held[v] \in 0..(Limit + 1)
      BY <1>2
    <3> QED
      BY <3>1 DEF Up, Switch!Older
  <2>2. held' = [v \in Velocity |-> IF v = Wire(cmd) THEN 0 ELSE Up(held[v], Limit + 1)]
    BY DEF Tick
  <2> QED
    BY <2>1, <2>2
<1>4. motor' \in {motor, Still}
  BY DEF Tick
<1>5. motor' = Still \/ held'[motor'] <= Limit
  <2> SUFFICES ASSUME motor' # Still
               PROVE  held'[motor'] <= Limit
    OBVIOUS
  <2>1. frameAge' < MaxTimeout /\ held'[motor'] <= frameAge' + Latency
    BY <1>1 DEF IInv, Fresh
  <2>2. frameAge' \in Nat /\ held'[motor'] \in Nat
    BY <1>1 DEF IInv, TypeOK
  <2> QED
    BY <2>1, <2>2 DEF Limit
<1>6. (Wire(cmd))' = Wire(cmd)
  BY DEF Tick, Wire
<1> QED
  BY <1>3, <1>4, <1>5, <1>6 DEF Switch!Pass

LEMMA NextSwitch == IInv /\ [Next]_vars => [Switch!Next]_Switch!vars
<1> SUFFICES ASSUME IInv, [Next]_vars
             PROVE  Switch!Next \/ UNCHANGED Switch!vars
  OBVIOUS
<1>1. CASE OnActivate
  BY <1>1, TakeAsks DEF OnActivate, board, Switch!Next
<1>2. CASE Drive
  BY <1>2, TakeAsks DEF Drive, board, Switch!Next
<1>3. CASE BoardTakes
  BY <1>3, BoardObeys DEF Switch!Next
<1>4. CASE Tick
  BY <1>4, TickPasses DEF Switch!Next
<1>5. CASE Deactivated
  BY <1>5 DEF Deactivated, Wire, Switch!Next, Switch!Stop, Switch!vars
<1>6. CASE Reboot
  BY <1>6 DEF Reboot, Wire, Switch!Next, Switch!Stop
<1>7. CASE \/ WriteTuning \/ WriteWheels \/ HandshakeFails \/ HandshakeDone \/ Activated
           \/ OnDeactivate \/ Tune \/ Lose \/ UNCHANGED vars
  <2>1. UNCHANGED <<cmd, held, motor>>
    BY <1>7 DEF WriteTuning, WriteWheels, HandshakeFails, HandshakeDone, Activated,
                OnDeactivate, Tune, Lose, vars, host, board
  <2> QED
    BY <2>1 DEF Wire, Switch!vars
<1> QED
  BY <1>1, <1>2, <1>3, <1>4, <1>5, <1>6, <1>7 DEF Next

\* The drive is a dead man's switch (KeepsPromise of DriveLoop: it implements DeadMan), for
\* all wheels, commands, periods, waits, timeouts and faults.
THEOREM DriveKeepsPromise == Spec => KeepsPromise
<1>1. Init => Switch!Init
  BY InitSwitch
<1>2. IInv /\ [Next]_vars => [Switch!Next]_Switch!vars
  BY NextSwitch
<1> QED
  BY <1>1, <1>2, InitIInv, NextIInv, PTL DEF Spec, KeepsPromise, Switch!Spec
=============================================================================
