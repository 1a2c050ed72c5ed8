------------------------ MODULE ImuDiagnosticsProofs ------------------------
(* Proofs about ImuDiagnostics: what the diagnostics say is true, and in time, for any     *)
(* periods, waits and timeouts, and a clock that is set in steps of any size.              *)
EXTENDS ImuDiagnostics, SequenceTheorems, TLAPS

\* The time since the port was last looked at; there are no looks in a lifecycle callback.
Unlooked == IF pc = "idle" THEN WaitTime + Period - due
            ELSE IF pc = "tuning" THEN WaitTime - due ELSE 0

\* A time that the system clock measured, with what it was set back, has run into its cap.
ChangeCapped == changeAge + back >= TopChange
DiagCapped   == diagAge + back >= TopDiag

Waits ==
  /\ pc = "idle" => due <= Period
  /\ pc = "tuning" => due <= WaitTime /\ lc # "unconfigured"
  /\ pc \notin {"idle", "tuning"} \/ lc = "unconfigured" => quiet = 0
  /\ changeAge + back >= 0 /\ diagAge + back >= 0

\* What ReadImu() knows of the silence: a frame it has not compared came since it looked
\* last, and the age it measures without one is that of the silence, up to the clock.
Measured ==
  /\ unseen => quiet <= Unlooked
  /\ ~unseen => ChangeCapped \/ quiet <= changeAge + back + Gap
  /\ ~unseen => sinceImu > Stale \/ changeAge <= sinceImu + ahead

\* While the diagnostics do not say "stale", they are not older than the silence allows, and
\* at the last look they were not due.
NotTooOld ==
  diag # "stale" =>
    /\ DiagCapped \/ quiet <= Stale + Gap + diagAge + back
    /\ quiet <= Stale + DiagEvery + Gap + back + Unlooked

IInv == TypeOK /\ Waits /\ Measured /\ NotTooOld

LEMMA Amounts ==
  /\ Period \in Nat \ {0} /\ Stale \in Nat \ {0} /\ DiagEvery \in Nat \ {0}
  /\ WaitTime \in Nat /\ StartWait \in Nat /\ MaxStep \in Nat
  /\ Stale < DiagEvery /\ \A s \in Steps : s \in Int
BY DiagAssumption

-----------------------------------------------------------------------------
(* What the port holds, and time.                                          *)

LEMMA LatestAreFrames ==
  ASSUME rx \in Seq(Frame), NEW id, NEW f \in Latest(id)
  PROVE  /\ id = "IMU_DATA" => f.cal \in {"low", "ok"}
         /\ id = "HEARTBEAT" => f.healthy \in BOOLEAN
<1>1. f \in Frame /\ f.id = id
  BY DEF Latest
<1> QED
  BY <1>1 DEF Frame

\* Reading the port keeps the types of the snapshots.
LEMMA ParseTypes ==
  ASSUME TypeOK, Parse
  PROVE  /\ rx' \in Seq(Frame) /\ cal' \in {"low", "ok"} /\ healthy' \in BOOLEAN
         /\ counted' \in BOOLEAN /\ (counted \/ ImuCame => counted')
         /\ sinceImu' \in 0..(Stale + 1)
         /\ sinceImu' = IF ImuCame THEN 0 ELSE sinceImu
<1>1. rx \in Seq(Frame)
  BY DEF TypeOK
<1>2. cal' \in {"low", "ok"}
  <2>1. CASE ImuCame
    BY <1>1, <2>1, LatestAreFrames DEF Parse
  <2>2. CASE ~ImuCame
    BY <2>2 DEF Parse, TypeOK
  <2> QED
    BY <2>1, <2>2
<1>3. healthy' \in BOOLEAN
  <2>1. CASE Latest("HEARTBEAT") # {}
    BY <1>1, <2>1, LatestAreFrames DEF Parse
  <2>2. CASE Latest("HEARTBEAT") = {}
    BY <2>2 DEF Parse, TypeOK
  <2> QED
    BY <2>1, <2>2
<1>4. counted' \in BOOLEAN /\ (counted \/ ImuCame => counted')
  BY DEF Parse, TypeOK, ImuCame
<1>5. sinceImu' \in 0..(Stale + 1) /\ rx' \in Seq(Frame)
  BY Amounts DEF Parse, TypeOK
<1> QED
  BY <1>2, <1>3, <1>4, <1>5 DEF Parse

-----------------------------------------------------------------------------
(* What type correctness says of the times.                                *)

LEMMA Numbers ==
  ASSUME TypeOK
  PROVE  /\ due \in Nat /\ quiet \in Nat /\ quiet <= Told + MaxStep + 1
         /\ sinceImu \in Nat /\ sinceImu <= Stale + 1
         /\ back \in Nat /\ back <= MaxStep /\ ahead \in Nat /\ ahead <= MaxStep
         /\ changeAge \in Int /\ -MaxStep <= changeAge /\ changeAge <= TopChange
         /\ diagAge \in Int /\ -MaxStep <= diagAge /\ diagAge <= TopDiag
         /\ unseen \in BOOLEAN /\ Unlooked \in Int
         /\ {Gap, Told, TopChange, TopDiag} \subseteq Nat
<1>1. {Gap, Told, TopChange, TopDiag} \subseteq Nat
  BY Amounts DEF Gap, Told, TopChange, TopDiag
<1>2. /\ due \in Nat /\ quiet \in 0..(Told + MaxStep + 1) /\ sinceImu \in 0..(Stale + 1)
      /\ back \in 0..MaxStep /\ ahead \in 0..MaxStep /\ changeAge \in -MaxStep..TopChange
      /\ diagAge \in -MaxStep..TopDiag /\ unseen \in BOOLEAN
  BY DEF TypeOK
<1>3. Unlooked \in Int
  BY <1>2, Amounts DEF Unlooked
<1> QED
  BY <1>1, <1>2, <1>3, Amounts

LEMMA NumbersNext ==
  ASSUME TypeOK'
  PROVE  /\ due' \in Nat /\ quiet' \in Nat /\ sinceImu' \in Nat
         /\ back' \in Nat /\ back' <= MaxStep /\ ahead' \in Nat
         /\ changeAge' \in Int /\ diagAge' \in Int /\ unseen' \in BOOLEAN /\ Unlooked' \in Int
<1>1. /\ due' \in Nat /\ quiet' \in 0..(Told + MaxStep + 1) /\ sinceImu' \in 0..(Stale + 1)
      /\ back' \in 0..MaxStep /\ ahead' \in 0..MaxStep /\ changeAge' \in -MaxStep..TopChange
      /\ diagAge' \in -MaxStep..TopDiag /\ unseen' \in BOOLEAN
  BY DEF TypeOK
<1>2. {Told, TopChange, TopDiag} \subseteq Nat
  BY Amounts DEF Gap, Told, TopChange, TopDiag
<1>3. Unlooked' \in Int
  BY <1>1, Amounts DEF Unlooked
<1> QED
  BY <1>1, <1>2, <1>3, Amounts

-----------------------------------------------------------------------------
(* The steps.                                                              *)

LEMMA ZeroInRange ==
  0 \in -MaxStep..TopChange /\ 0 \in -MaxStep..TopDiag /\ 0 \in 0..(Told + MaxStep + 1)
<1>1. {Gap, Told, TopChange, TopDiag} \subseteq Nat
  BY Amounts DEF Gap, Told, TopChange, TopDiag
<1> QED
  BY <1>1, Amounts

LEMMA PollKeeps == ASSUME IInv, Poll PROVE IInv'
<1>0. TypeOK /\ Waits /\ Measured /\ NotTooOld
  BY DEF IInv
<1>1. TypeOK'
  <2>1. quiet' \in 0..(Told + MaxStep + 1) /\ unseen' \in BOOLEAN /\ (unseen' => counted')
    BY <1>0, ZeroInRange, ParseTypes DEF Poll, TypeOK
  <2>2. UNCHANGED <<lc, pc, due, stamped, changeAge, diagAge, diag, back, ahead>>
    BY DEF Poll, clock
  <2>3. Parse
    BY DEF Poll
  <2> QED
    BY <1>0, <2>1, <2>2, <2>3, ParseTypes DEF TypeOK
<1>2. /\ UNCHANGED <<lc, pc, due, stamped, changeAge, diagAge, diag, back, ahead>>
      /\ pc # "idle" /\ unseen' = (unseen \/ ImuCame)
      /\ quiet' = (IF ImuCame THEN 0 ELSE quiet)
      /\ sinceImu' = (IF ImuCame THEN 0 ELSE sinceImu)
  BY DEF Poll, clock, Parse
<1>3. Waits'
  BY <1>0, <1>2 DEF Waits
<1>4. Unlooked' = Unlooked /\ 0 <= Unlooked
  BY <1>0, <1>2, Numbers, Amounts DEF Unlooked, Waits
<1>5. Measured'
  <2>1. CASE ImuCame
    BY <1>2, <1>4, <2>1 DEF Measured
  <2>2. CASE ~ImuCame
    BY <1>0, <1>2, <1>4, <2>2 DEF Measured, ChangeCapped
  <2> QED
    BY <2>1, <2>2
<1>6. NotTooOld'
  <2>1. CASE ImuCame
    BY <1>0, <1>2, <1>4, <2>1, Numbers, Amounts DEF NotTooOld, Waits, DiagCapped
  <2>2. CASE ~ImuCame
    BY <1>0, <1>2, <1>4, <2>2 DEF NotTooOld, DiagCapped
  <2> QED
    BY <2>1, <2>2
<1> QED
  BY <1>1, <1>3, <1>5, <1>6 DEF IInv

LEMMA ReadKeeps == ASSUME IInv, Read PROVE IInv'
<1>0. TypeOK /\ Waits /\ Measured /\ NotTooOld
  BY DEF IInv
<1>1. TypeOK'
  <2>1. /\ changeAge' \in -MaxStep..TopChange /\ diagAge' \in -MaxStep..TopDiag
        /\ quiet' \in 0..(Told + MaxStep + 1) /\ unseen' \in BOOLEAN /\ (unseen' => counted')
    <3>1. changeAge' \in {0, changeAge} /\ diagAge' \in {0, diagAge} /\ quiet' \in {0, quiet}
      BY DEF Read
    <3>2. unseen' = FALSE
      BY DEF Read, Noted
    <3> QED
      BY <1>0, <3>1, <3>2, ZeroInRange DEF TypeOK
  <2>2. diag' \in {"none", "stale", "unhealthy", "uncalibrated", "OK"}
    BY <1>0 DEF Read, TypeOK, Message
  <2>3. due' \in Nat /\ pc' \in {"idle", "tuning"} /\ lc' = lc
    BY Amounts DEF Read
  <2> QED
    BY <1>0, <2>1, <2>2, <2>3, ParseTypes DEF Read, TypeOK, clock
<1>2. /\ pc = "idle" /\ lc # "unconfigured" /\ lc' = lc /\ back' = back /\ ahead' = ahead
      /\ \/ pc' = "idle" /\ due' = Period
         \/ pc' = "tuning" /\ due' = WaitTime
      /\ quiet' = (IF ImuCame THEN 0 ELSE quiet)
      /\ sinceImu' = (IF ImuCame THEN 0 ELSE sinceImu)
  BY DEF Read, clock, Parse
<1>3. /\ changeAge' = (IF unseen \/ ImuCame THEN 0 ELSE changeAge) /\ unseen' = FALSE
      /\ diagAge' \in {0, diagAge} /\ (~Publishes => diagAge' = diagAge /\ diag' = diag)
      /\ Publishes => diagAge' = 0 /\ diag' = Message(changeAge')
  BY DEF Read, Noted
<1>4. Waits'
  BY <1>0, <1>2, <1>3, Numbers, Amounts DEF Waits
<1>5. Unlooked' \in Nat /\ Unlooked <= Gap
  BY <1>0, <1>2, Numbers, Amounts DEF Unlooked, Gap
<1>6. Measured'
  <2>1. CASE ImuCame
    BY <1>0, <1>2, <1>3, <2>1, Numbers, Amounts DEF Measured
  <2>2. CASE ~ImuCame /\ unseen
    BY <1>0, <1>2, <1>3, <1>5, <2>2, Numbers, Amounts DEF Measured
  <2>3. CASE ~ImuCame /\ ~unseen
    BY <1>0, <1>2, <1>3, <2>3 DEF Measured, ChangeCapped
  <2> QED
    BY <2>1, <2>2, <2>3
<1>7. ASSUME diag' # "stale"
      PROVE  quiet' <= Stale + Gap + diagAge' + back' /\ diagAge' < DiagEvery
  <2>1. CASE Publishes
    <3>1. changeAge' <= Stale
      BY <1>1, <1>3, <1>7, <2>1, NumbersNext, Amounts DEF Message
    <3>2. ~ChangeCapped'
      BY <1>1, <3>1, NumbersNext, Amounts DEF ChangeCapped, TopChange
    <3>3. quiet' <= changeAge' + back' + Gap
      BY <1>3, <1>6, <3>2 DEF Measured
    <3> QED
      BY <1>0, <1>1, <1>3, <2>1, <3>1, <3>3, Numbers, NumbersNext, Amounts
  <2>2. CASE ~Publishes
    <3>1. diagAge < DiagEvery
      BY <1>0, <2>2, Numbers, Amounts DEF Publishes
    <3>2. ~DiagCapped
      BY <1>0, <3>1, Numbers, Amounts DEF DiagCapped, TopDiag
    <3>3. quiet <= Stale + Gap + diagAge + back
      BY <1>0, <1>3, <1>7, <2>2, <3>2 DEF NotTooOld
    <3> QED
      BY <1>0, <1>1, <1>2, <1>3, <2>2, <3>1, <3>3, Numbers, NumbersNext, Amounts
  <2> QED
    BY <2>1, <2>2
<1>8. NotTooOld'
  BY <1>0, <1>1, <1>5, <1>7, Numbers, NumbersNext, Amounts DEF NotTooOld
<1> QED
  BY <1>1, <1>4, <1>6, <1>8 DEF IInv

LEMMA WrittenKeeps == ASSUME IInv, Written PROVE IInv'
<1>0. TypeOK /\ Waits /\ Measured /\ NotTooOld
  BY DEF IInv
<1>1. /\ pc = "tuning" /\ pc' = "idle" /\ due' = Period
      /\ UNCHANGED <<lc, stamped, port, report, sinceImu, quiet, clock>>
  BY DEF Written
<1>2. TypeOK'
  BY <1>0, <1>1, Amounts DEF TypeOK, port, report, clock
<1>3. Waits'
  BY <1>0, <1>1, Amounts DEF Waits, report, clock
<1>4. Unlooked <= Unlooked'
  BY <1>0, <1>1, Numbers, Amounts DEF Unlooked
<1>5. Measured'
  BY <1>0, <1>1, <1>2, <1>4, Numbers, NumbersNext DEF Measured, ChangeCapped, report, clock
<1>6. NotTooOld'
  <2>1. diag' # "stale" => DiagCapped' \/ quiet' <= Stale + Gap + diagAge' + back'
    BY <1>0, <1>1 DEF NotTooOld, DiagCapped, report, clock
  <2>2. diag' # "stale" => quiet' <= Stale + DiagEvery + Gap + back' + Unlooked'
    BY <1>0, <1>1, <1>2, <1>4, Numbers, NumbersNext, Amounts DEF NotTooOld, report, clock
  <2> QED
    BY <2>1, <2>2 DEF NotTooOld
<1> QED
  BY <1>2, <1>3, <1>5, <1>6 DEF IInv

\* A lifecycle callback begins or ends.
LEMMA CallbacksKeep ==
  ASSUME IInv, OnActivate \/ HandshakeFails \/ HandshakeDone \/ Activated
               \/ OnDeactivate \/ Deactivated \/ OnCleanup \/ Reconfigure
  PROVE  IInv'
<1>0. TypeOK /\ Waits /\ Measured /\ NotTooOld
  BY DEF IInv
<1>1. /\ lc' \in {"unconfigured", "inactive", "active"}
      /\ \/ pc' \in {"handshake", "starting", "halting"} /\ due' = StartWait
         \/ pc' = "idle" /\ due' = Period
      /\ quiet' = 0 /\ rx' \in {rx, << >>}
      /\ UNCHANGED <<counted, cal, healthy, diag, sinceImu, back, ahead>>
      /\ stamped' \in BOOLEAN
      /\ \/ UNCHANGED <<unseen, changeAge, diagAge>>
         \/ changeAge' = 0 /\ diagAge' = 0 /\ unseen' = counted
  BY <1>0 DEF OnActivate, HandshakeFails, HandshakeDone, Activated, OnDeactivate, Deactivated,
              OnCleanup, Reconfigure, Enter, Leave, ResetTimes, port, report, clock, TypeOK
<1>2. changeAge' \in {0, changeAge} /\ diagAge' \in {0, diagAge} /\ unseen' \in {counted, unseen}
  BY <1>1
<1>3. TypeOK'
  <2>1. rx' \in Seq(Frame)
    BY <1>0, <1>1, EmptySeq DEF TypeOK
  <2>2. /\ changeAge' \in -MaxStep..TopChange /\ diagAge' \in -MaxStep..TopDiag
        /\ quiet' \in 0..(Told + MaxStep + 1)
    BY <1>0, <1>1, <1>2, ZeroInRange DEF TypeOK
  <2>3. due' \in Nat /\ pc' \in {"idle", "tuning", "handshake", "starting", "halting"}
    BY <1>1, Amounts
  <2>4. unseen' \in BOOLEAN /\ (unseen' => counted')
    BY <1>0, <1>1, <1>2 DEF TypeOK
  <2> QED
    BY <1>0, <1>1, <2>1, <2>2, <2>3, <2>4 DEF TypeOK
<1>4. Waits'
  <2>1. changeAge' + back' >= 0 /\ diagAge' + back' >= 0
    BY <1>0, <1>1, <1>2, Numbers DEF Waits
  <2>2. pc' # "tuning" /\ (pc' = "idle" => due' <= Period)
    BY <1>1, Amounts
  <2> QED
    BY <1>1, <2>1, <2>2 DEF Waits
<1>5. Unlooked' \in Nat
  BY <1>1, Amounts DEF Unlooked
<1>6. 0 <= changeAge' + back' /\ 0 <= diagAge' + back' /\ Gap \in Nat
  BY <1>0, <1>3, <1>4, Numbers, NumbersNext DEF Waits
<1>7. Measured'
  <2>1. unseen' => quiet' <= Unlooked'
    BY <1>1, <1>5
  <2>2. quiet' <= changeAge' + back' + Gap
    BY <1>1, <1>3, <1>6, NumbersNext
  <2>3. ~unseen' => sinceImu' > Stale \/ changeAge' <= sinceImu' + ahead'
    <3>1. CASE UNCHANGED <<unseen, changeAge, diagAge>>
      BY <1>0, <1>1, <3>1 DEF Measured
    <3>2. CASE changeAge' = 0
      BY <1>3, <3>2, NumbersNext
    <3> QED
      BY <1>1, <3>1, <3>2
  <2> QED
    BY <2>1, <2>2, <2>3 DEF Measured
<1>8. NotTooOld'
  BY <1>1, <1>3, <1>5, <1>6, NumbersNext, Amounts DEF NotTooOld
<1> QED
  BY <1>3, <1>4, <1>7, <1>8 DEF IInv

LEMMA BoardKeeps == ASSUME IInv, BoardSends PROVE IInv'
<1>1. TypeOK'
  BY DEF IInv, BoardSends, TypeOK, report, clock
<1>2. UNCHANGED <<lc, pc, due, stamped, unseen, changeAge, diagAge, diag, sinceImu, quiet,
                  back, ahead>>
  BY DEF BoardSends, report, clock
<1> QED
  BY <1>1, <1>2 DEF IInv, Waits, Measured, NotTooOld, Unlooked, ChangeCapped, DiagCapped

\* An age that moved with the clock, or was capped, is above what the clock was set back by.
LEMMA MovedAge ==
  ASSUME NEW age \in Int, NEW s \in Int, NEW b \in Nat, NEW age2 \in Int,
         age2 >= age + s \/ age2 >= 0, age + s + b >= 0
  PROVE  age2 + b >= 0
OBVIOUS

LEMMA AboveBack ==
  ASSUME NEW age \in Int, NEW b \in Nat, age + b >= 0, b <= MaxStep
  PROVE  -MaxStep <= age
BY Amounts

LEMMA ClockKeeps == ASSUME IInv, ClockSet PROVE IInv'
<1>0. TypeOK /\ Waits /\ Measured /\ NotTooOld
  BY DEF IInv
<1>1. PICK s \in Steps :
        /\ changeAge' = Grown(changeAge, s, TopChange)
        /\ diagAge' = Grown(diagAge, s, TopDiag)
        /\ back' = IF s < 0 THEN back - s ELSE back
        /\ ahead' = IF s > 0 THEN ahead + s ELSE ahead
  BY DEF ClockSet
<1>2. /\ back' <= MaxStep /\ ahead' <= MaxStep
      /\ UNCHANGED <<lc, pc, due, stamped, rx, counted, cal, healthy, unseen, diag, sinceImu, quiet>>
  BY DEF ClockSet, port
<1>3. s \in Int
  BY Amounts
<1>4. /\ changeAge' \in Int /\ changeAge' <= TopChange
      /\ changeAge' = changeAge + s \/ (changeAge' = TopChange /\ changeAge + s >= TopChange)
  BY <1>0, <1>1, <1>3, Numbers DEF Grown
<1>5. /\ diagAge' \in Int /\ diagAge' <= TopDiag
      /\ diagAge' = diagAge + s \/ (diagAge' = TopDiag /\ diagAge + s >= TopDiag)
  BY <1>0, <1>1, <1>3, Numbers DEF Grown
<1>6. /\ back' \in 0..MaxStep /\ ahead' \in 0..MaxStep /\ back' >= back /\ back' + s >= back
      /\ ahead' >= ahead /\ ahead' >= ahead + s
  BY <1>0, <1>1, <1>2, <1>3, Numbers, Amounts
<1>7. changeAge' + back' >= 0 /\ diagAge' + back' >= 0
  <2>1. changeAge' >= changeAge + s \/ changeAge' >= 0
    BY <1>0, <1>3, <1>4, Numbers
  <2>2. diagAge' >= diagAge + s \/ diagAge' >= 0
    BY <1>0, <1>3, <1>5, Numbers
  <2>3. back' \in Nat /\ changeAge + s + back' >= 0 /\ diagAge + s + back' >= 0
    BY <1>0, <1>3, <1>6, Numbers, Amounts DEF Waits
  <2>4. changeAge \in Int /\ diagAge \in Int /\ changeAge' \in Int /\ diagAge' \in Int
    BY <1>0, <1>4, <1>5, Numbers
  <2>5. changeAge' + back' >= 0
    BY <1>3, <2>1, <2>3, <2>4, MovedAge
  <2>6. diagAge' + back' >= 0
    BY <1>3, <2>2, <2>3, <2>4, MovedAge
  <2> QED
    BY <2>5, <2>6
<1>8. TypeOK'
  <2>1. changeAge' \in -MaxStep..TopChange /\ diagAge' \in -MaxStep..TopDiag
    <3>1. back' \in Nat /\ back' <= MaxStep
      BY <1>6, Amounts
    <3>2. -MaxStep <= changeAge' /\ -MaxStep <= diagAge'
      BY <1>4, <1>5, <1>7, <3>1, AboveBack
    <3>3. TopChange \in Int /\ TopDiag \in Int
      BY <1>0, Numbers
    <3> QED
      BY <1>4, <1>5, <3>2, <3>3, Amounts
  <2> QED
    BY <1>0, <1>2, <1>6, <2>1 DEF TypeOK
<1>9. Waits'
  BY <1>0, <1>2, <1>7 DEF Waits
<1>10. Unlooked' = Unlooked
  BY <1>2 DEF Unlooked
<1>11. ChangeCapped' \/ changeAge' + back' >= changeAge + back
  BY <1>0, <1>3, <1>4, <1>6, Numbers, Amounts DEF ChangeCapped
<1>12. DiagCapped' \/ diagAge' + back' >= diagAge + back
  BY <1>0, <1>3, <1>5, <1>6, Numbers, Amounts DEF DiagCapped
<1>13. Measured'
  <2>1. unseen' => quiet' <= Unlooked'
    BY <1>0, <1>2, <1>10 DEF Measured
  <2>2. ASSUME ~unseen'
        PROVE  ChangeCapped' \/ quiet' <= changeAge' + back' + Gap
    <3>1. ChangeCapped \/ quiet <= changeAge + back + Gap
      BY <1>0, <1>2, <2>2 DEF Measured
    <3> QED
      BY <1>0, <1>2, <1>8, <1>11, <3>1, Numbers, NumbersNext DEF ChangeCapped
  <2>3. ASSUME ~unseen'
        PROVE  sinceImu' > Stale \/ changeAge' <= sinceImu' + ahead'
    <3>1. sinceImu > Stale \/ changeAge <= sinceImu + ahead
      BY <1>0, <1>2, <2>3 DEF Measured
    <3>2. changeAge' <= changeAge + s
      BY <1>0, <1>3, <1>4, Numbers
    <3> QED
      BY <1>0, <1>2, <1>3, <1>6, <1>8, <3>1, <3>2, Numbers, NumbersNext, Amounts
  <2> QED
    BY <2>1, <2>2, <2>3 DEF Measured
<1>14. NotTooOld'
  <2>1. ASSUME diag' # "stale"
        PROVE  DiagCapped' \/ quiet' <= Stale + Gap + diagAge' + back'
    <3>1. DiagCapped \/ quiet <= Stale + Gap + diagAge + back
      BY <1>0, <1>2, <2>1 DEF NotTooOld
    <3> QED
      BY <1>0, <1>2, <1>8, <1>12, <3>1, Numbers, NumbersNext, Amounts DEF DiagCapped
  <2>2. ASSUME diag' # "stale"
        PROVE  quiet' <= Stale + DiagEvery + Gap + back' + Unlooked'
    <3>1. quiet <= Stale + DiagEvery + Gap + back + Unlooked
      BY <1>0, <1>2, <2>2 DEF NotTooOld
    <3> QED
      BY <1>0, <1>2, <1>6, <1>8, <1>10, <3>1, Numbers, NumbersNext, Amounts
  <2> QED
    BY <2>1, <2>2 DEF NotTooOld
<1> QED
  BY <1>8, <1>9, <1>13, <1>14 DEF IInv

LEMMA TickKeeps == ASSUME IInv, Tick PROVE IInv'
<1> DEFINE Cycling == lc # "unconfigured" /\ pc \in {"idle", "tuning"}
<1>0. TypeOK /\ Waits /\ Measured /\ NotTooOld
  BY DEF IInv
<1>1. /\ UNCHANGED <<lc, pc, stamped, rx, counted, cal, healthy, unseen, diag, back, ahead>>
      /\ due' = (IF due > 0 THEN due - 1 ELSE 0) /\ (due > 0 \/ lc = "unconfigured")
      /\ changeAge' = Grown(changeAge, 1, TopChange) /\ diagAge' = Grown(diagAge, 1, TopDiag)
      /\ sinceImu' = Grown(sinceImu, 1, Stale + 1)
      /\ quiet' = (IF Cycling THEN Grown(quiet, 1, Told + MaxStep + 1) ELSE 0)
  BY DEF Tick, port, clock
<1>2. /\ changeAge' \in Int /\ changeAge' <= TopChange
      /\ changeAge' = changeAge + 1 \/ (changeAge' = TopChange /\ changeAge + 1 >= TopChange)
  BY <1>0, <1>1, Numbers DEF Grown
<1>3. /\ diagAge' \in Int /\ diagAge' <= TopDiag
      /\ diagAge' = diagAge + 1 \/ (diagAge' = TopDiag /\ diagAge + 1 >= TopDiag)
  BY <1>0, <1>1, Numbers DEF Grown
<1>4. sinceImu' \in 0..(Stale + 1) /\ (sinceImu' = sinceImu + 1 \/ sinceImu' = Stale + 1)
  BY <1>0, <1>1, Numbers, Amounts DEF Grown
<1>5. quiet' \in 0..(Told + MaxStep + 1) /\ quiet' <= quiet + 1 /\ (~Cycling => quiet' = 0)
  BY <1>0, <1>1, Numbers, Amounts DEF Grown
<1>6. due' \in Nat /\ due' <= due /\ (Cycling => due' = due - 1)
  BY <1>0, <1>1, Numbers
<1>7. changeAge' + back' >= 0 /\ diagAge' + back' >= 0
  BY <1>0, <1>1, <1>2, <1>3, Numbers, Amounts DEF Waits
<1>8. TypeOK'
  <2>1. changeAge' \in -MaxStep..TopChange /\ diagAge' \in -MaxStep..TopDiag
    BY <1>0, <1>1, <1>2, <1>3, <1>7, Numbers, Amounts
  <2> QED
    BY <1>0, <1>1, <1>4, <1>5, <1>6, <2>1 DEF TypeOK
<1>9. Waits'
  BY <1>0, <1>1, <1>5, <1>6, <1>7, Numbers, Amounts DEF Waits
<1>10. 0 <= Unlooked' /\ (Cycling => Unlooked' = Unlooked + 1)
  BY <1>0, <1>1, <1>6, <1>9, Numbers, Amounts DEF Unlooked, Waits
<1>11. Measured'
  <2>1. ASSUME unseen'
        PROVE  quiet' <= Unlooked'
    <3>1. quiet <= Unlooked
      BY <1>0, <1>1, <2>1 DEF Measured
    <3> QED
      BY <1>0, <1>5, <1>8, <1>10, <3>1, Numbers, NumbersNext
  <2>2. ASSUME ~unseen'
        PROVE  ChangeCapped' \/ quiet' <= changeAge' + back' + Gap
    <3>1. ChangeCapped \/ quiet <= changeAge + back + Gap
      BY <1>0, <1>1, <2>2 DEF Measured
    <3> QED
      BY <1>0, <1>1, <1>2, <1>5, <1>8, <3>1, Numbers, NumbersNext DEF ChangeCapped
  <2>3. ASSUME ~unseen'
        PROVE  sinceImu' > Stale \/ changeAge' <= sinceImu' + ahead'
    <3>1. sinceImu > Stale \/ changeAge <= sinceImu + ahead
      BY <1>0, <1>1, <2>3 DEF Measured
    <3>2. changeAge' <= changeAge + 1
      BY <1>0, <1>2, Numbers
    <3> QED
      BY <1>0, <1>1, <1>4, <1>8, <3>1, <3>2, Numbers, NumbersNext, Amounts
  <2> QED
    BY <2>1, <2>2, <2>3 DEF Measured
<1>12. NotTooOld'
  <2>1. ASSUME diag' # "stale"
        PROVE  DiagCapped' \/ quiet' <= Stale + Gap + diagAge' + back'
    <3>1. DiagCapped \/ quiet <= Stale + Gap + diagAge + back
      BY <1>0, <1>1, <2>1 DEF NotTooOld
    <3> QED
      BY <1>0, <1>1, <1>3, <1>5, <1>8, <3>1, Numbers, NumbersNext, Amounts DEF DiagCapped
  <2>2. ASSUME diag' # "stale"
        PROVE  quiet' <= Stale + DiagEvery + Gap + back' + Unlooked'
    <3>1. quiet <= Stale + DiagEvery + Gap + back + Unlooked
      BY <1>0, <1>1, <2>2 DEF NotTooOld
    <3> QED
      BY <1>0, <1>1, <1>5, <1>8, <1>10, <3>1, Numbers, NumbersNext, Amounts
  <2> QED
    BY <2>1, <2>2 DEF NotTooOld
<1> QED
  BY <1>8, <1>9, <1>11, <1>12 DEF IInv

-----------------------------------------------------------------------------
(* The theorems.                                                           *)

LEMMA Invariant == Spec => []IInv
<1>1. Init => IInv
  <2> SUFFICES ASSUME Init
               PROVE  IInv
    OBVIOUS
  <2>1. TypeOK
    <3>1. rx \in Seq(Frame) /\ due \in Nat /\ sinceImu \in 0..(Stale + 1)
      BY Amounts, EmptySeq DEF Init
    <3>2. back \in 0..MaxStep /\ ahead \in 0..MaxStep
      BY Amounts DEF Init
    <3> QED
      BY <3>1, <3>2, ZeroInRange DEF Init, TypeOK
  <2>2. Waits
    BY Amounts DEF Init, Waits
  <2>3. Measured
    BY Amounts DEF Init, Measured, Gap
  <2>4. NotTooOld
    BY Amounts DEF Init, NotTooOld, Unlooked, Gap
  <2> QED
    BY <2>1, <2>2, <2>3, <2>4 DEF IInv
<1>2. IInv /\ [Next]_vars => IInv'
  <2> SUFFICES ASSUME IInv, [Next]_vars
               PROVE  IInv'
    OBVIOUS
  <2>1. CASE UNCHANGED vars
    <3>1. TypeOK'
      BY <2>1 DEF vars, port, report, clock, IInv, TypeOK
    <3> QED
      BY <2>1, <3>1 DEF vars, port, report, clock, IInv, Waits, Measured, NotTooOld, Unlooked,
                        ChangeCapped, DiagCapped
  <2> QED
    BY <2>1, PollKeeps, ReadKeeps, WrittenKeeps, CallbacksKeep, BoardKeeps, ClockKeeps, TickKeeps DEF Next
<1> QED
  BY <1>1, <1>2, PTL DEF Spec

\* Every variable of the diagnostics keeps its type (ReadImu, my_diffbot_system.cpp:390).
THEOREM ImuTypeOK == Spec => []TypeOK
<1>1. IInv => TypeOK
  BY DEF IInv
<1> QED
  BY <1>1, Invariant, PTL

\* A dead IMU is told in time (my_diffbot_system.cpp:350-354, 401-411), for any periods and
\* waits, whatever callbacks come between and however the clock is set.
THEOREM ImuSilenceIsTold == Spec => []SilenceIsTold
<1>1. IInv => SilenceIsTold
  <2> SUFFICES ASSUME TypeOK, Waits, NotTooOld, diag # "stale"
               PROVE  quiet <= Told + back
    BY Numbers, Amounts DEF SilenceIsTold, IInv
  <2>1. Unlooked <= Gap
    BY Numbers, Amounts DEF Waits, Unlooked, Gap
  <2>2. Told = Stale + DiagEvery + Gap + Gap
    BY Numbers, Amounts DEF Told
  <2>3. quiet <= Stale + DiagEvery + Gap + back + Unlooked
    BY DEF NotTooOld
  <2> QED
    BY <2>1, <2>2, <2>3, Numbers, Amounts
<1> QED
  BY <1>1, Invariant, PTL

\* Diagnostics that do not say "stale" are not older than the silence allows
\* (my_diffbot_system.cpp:401-411), for any periods, waits and settings of the clock.
THEOREM ImuAliveIsTrue == Spec => AliveIsTrue
<1>1. IInv /\ IInv' /\ [Next]_vars => [Publication /\ diag' # "stale" => quiet' <= Alive + back]_vars
  <2> SUFFICES ASSUME IInv, IInv', Publication, diag' # "stale"
               PROVE  quiet' <= Alive + back
    OBVIOUS
  <2>0. TypeOK /\ TypeOK'
    BY DEF IInv
  <2>1. diag' = Message(changeAge') /\ ~unseen' /\ back' = back
    BY DEF Publication, Read, Noted, clock
  <2>2. changeAge' <= Stale
    BY <2>0, <2>1, NumbersNext, Amounts DEF Message
  <2>3. ~ChangeCapped'
    BY <2>0, <2>2, NumbersNext, Amounts DEF ChangeCapped, TopChange
  <2>4. quiet' <= changeAge' + back' + Gap
    BY <2>1, <2>3 DEF IInv, Measured
  <2> QED
    BY <2>0, <2>1, <2>2, <2>4, Numbers, NumbersNext, Amounts DEF Alive
<1> QED
  BY <1>1, Invariant, PTL DEF Spec, AliveIsTrue

\* "stale" is only said of an IMU that was silent (my_diffbot_system.cpp:409-412), for any
\* periods, waits and settings of the clock.
THEOREM ImuStaleIsTrue == Spec => StaleIsTrue
<1>1. IInv /\ IInv' /\ [Next]_vars
        => [Publication /\ diag' = "stale" => sinceImu' + ahead > Stale]_vars
  <2> SUFFICES ASSUME IInv, IInv', Publication, diag' = "stale"
               PROVE  sinceImu' + ahead > Stale
    OBVIOUS
  <2>0. TypeOK /\ TypeOK'
    BY DEF IInv
  <2>1. diag' = Message(changeAge') /\ ~unseen' /\ ahead' = ahead
    BY DEF Publication, Read, Noted, clock
  <2>2. changeAge' > Stale
    BY <2>1 DEF Message
  <2>3. sinceImu' > Stale \/ changeAge' <= sinceImu' + ahead'
    BY <2>1 DEF IInv, Measured
  <2> QED
    BY <2>0, <2>1, <2>2, <2>3, Numbers, NumbersNext, Amounts
<1> QED
  BY <1>1, Invariant, PTL DEF Spec, StaleIsTrue
=============================================================================
