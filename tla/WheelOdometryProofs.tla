------------------------ MODULE WheelOdometryProofs ------------------------
(* Proofs about WheelOdometry: types, that odometry is real motion at a possible speed,    *)
(* and that a silence of the feedback ends it, for any wheels, clocks and timings.         *)
EXTENDS WheelOdometry, SequenceTheorems, TLAPS

FrameType == [ticks : Counts, stamp : Nat]
SnapType  == [count : Nat, ticks : Counts, stamp : Nat, new : BOOLEAN]

\* TypeOK, with the shapes of the frames.
Shape ==
  /\ clock \in Nat /\ encoder \in Counts /\ travel \in [Wheel -> Nat]
  /\ wire \in Seq(FrameType) /\ snap \in SnapType /\ from \in FrameType
  /\ {position, velocity, speed, prev, start} \subseteq Counts
  /\ phase \in Phase
  /\ {stamped, ticksInit, stale, fresh} \subseteq BOOLEAN
  /\ lastCount \in 0..snap.count /\ behind \in 0..MaxStep /\ age \in -behind..TopAge
  /\ sinceRead \in 0..Jitter /\ silence \in 0..(LongSilence + MaxStep + 1)
  /\ wire # << >> => PortOpen

\* The counters of the frames that the board sent since the handshake.
Recent == {wire[i].ticks : i \in DOMAIN wire} \cup (IF snap.new THEN {snap.ticks} ELSE {})

\* Of what the wheels turned since on_activate() began, a frame accounts for what the
\* odometry has of it, what the frame adds, and what came after the frame.
Accounted(x) ==
  \A w \in Wheel : Magnitude(position[w] - start[w]) + Magnitude(x[w] - prev[w])
                     + Magnitude(encoder[w] - x[w]) <= travel[w]

\* Before the odometry is seeded, there is only what came after the frame.
Unseeded(x) == \A w \in Wheel : Magnitude(encoder[w] - x[w]) <= travel[w]

Session == {"activating", "running"}

Real ==
  /\ phase = "connecting" => position = start
  /\ phase \in Session /\ ~ticksInit => position = start /\ \A x \in Recent : Unseeded(x)
  /\ phase = "activating" => ~ticksInit /\ ~fresh
  /\ phase = "running" /\ ticksInit /\ fresh => snap.new /\ \A x \in Recent : Accounted(x)
  /\ phase = "running" /\ fresh => ticksInit

\* The snapshot lies in the window that is being measured, short of its end.
InWindow == snap.stamp - from.stamp \in 0..(MeasWindow - 1)

AtRest == velocity = Zeros /\ speed = Zeros

\* What ReadWheels() has seen of the snapshot.
Tracked ==
  /\ ticksInit => snap.count # 0
  /\ ~ticksInit => speed = Zeros /\ lastCount = 0
  /\ ticksInit /\ snap.count = lastCount => InWindow

\* How long the feedback can have been silent, before the odometry is seeded, with a frame
\* that read() has not noted, and after it noted the last one.  A clock that is set back
\* makes the age less and what it is behind more: together they grow with time.
Timely ==
  /\ ~ticksInit /\ snap.count # 0 => silence <= sinceRead
  /\ ticksInit /\ snap.count # lastCount =>
       \/ silence <= sinceRead
       \/ InWindow /\ speed = Zeros /\ silence <= sinceRead + Jitter
  /\ ticksInit /\ snap.count = lastCount =>
       \/ AtRest
       \/ /\ silence <= StaleAfter + Jitter + sinceRead + behind
          /\ age + behind >= TopAge \/ silence <= age + behind + Jitter

Quiet == Tracked /\ (Cycling => Timely)

\* The frames that the board sent since the handshake, and one it would send now.
Heard == {wire[i] : i \in DOMAIN wire} \cup (IF snap.new THEN {Here(snap)} ELSE {})
Now   == [ticks |-> encoder, stamp |-> clock]

\* The wheels can have turned from the counters of x to those of y in the time between.
Reachable(x, y) ==
  \A w \in Wheel : Magnitude(y.ticks[w] - x.ticks[w]) <= Fastest * (y.stamp - x.stamp)

Possible(v) == \A w \in Wheel : Magnitude(v[w]) <= 10 * Fastest

Ready == phase \in {"activating", "running", "idle"}

\* A window begins at the counters and the clock of the session, and so does what ends it.
Paced ==
  /\ Ready /\ ~ticksInit => \A x \in Heard : Reachable(x, Now)
  /\ Cycling /\ ticksInit /\ fresh =>
       /\ snap.new /\ Reachable(from, Now)
       /\ \A x \in Heard : Reachable(from, x) /\ Reachable(x, Now)
  /\ fresh => Possible(speed)

IInv == Shape /\ Real /\ Quiet /\ Paced

-----------------------------------------------------------------------------
(* Frames and snapshots.                                                   *)

LEMMA WireElements == ASSUME Shape PROVE \A i \in DOMAIN wire : wire[i] \in FrameType
<1>1. wire \in Seq(FrameType)
  BY DEF Shape
<1> QED
  BY <1>1

\* The snapshot that parsing leaves: it counts more, and what is new in it came by the line.
LEMMA ParsedFacts ==
  ASSUME Shape
  PROVE  /\ Parsed \in SnapType /\ Parsed.count >= snap.count
         /\ Parsed.new => Parsed.ticks \in Recent
         /\ snap.new => Parsed.new
<1> USE DEF Shape, SnapType, FrameType
<1>1. CASE wire = << >>
  BY <1>1 DEF Parsed, Recent
<1>2. CASE wire # << >>
  <2>1. Len(wire) \in Nat \ {0} /\ Len(wire) \in DOMAIN wire
    BY <1>2, EmptySeq, LenProperties
  <2>2. Last(wire) = wire[Len(wire)] /\ Last(wire) \in FrameType
    BY <2>1, WireElements DEF Last
  <2>3. Parsed = [count |-> snap.count + Len(wire), ticks |-> Last(wire).ticks,
                  stamp |-> Last(wire).stamp, new |-> TRUE]
    BY <1>2 DEF Parsed
  <2>4. Last(wire).ticks \in Recent
    BY <2>1, <2>2 DEF Recent
  <2> QED
    BY <2>1, <2>2, <2>3, <2>4
<1> QED
  BY <1>1, <1>2

\* Counters in the recent frames are counters.
LEMMA RecentCounts == ASSUME Shape PROVE Recent \subseteq Counts
BY WireElements DEF Shape, Recent, SnapType, FrameType

\* Parsing everything only forgets frames.
LEMMA ParsingForgets ==
  ASSUME Shape, snap' = Parsed, wire' = << >>
  PROVE  Recent' \subseteq Recent
BY ParsedFacts DEF Recent

\* What a frame adds to the line.
LEMMA SendingAdds ==
  ASSUME Shape, wire' = Append(wire, [ticks |-> encoder, stamp |-> clock]), snap' = snap
  PROVE  Recent' \subseteq Recent \cup {encoder}
<1> SUFFICES ASSUME NEW x \in Recent', x \notin Recent
             PROVE  x = encoder
  OBVIOUS
<1>1. PICK i \in DOMAIN wire' : x = wire'[i].ticks
  BY DEF Recent
<1>2. wire \in Seq(FrameType) /\ DOMAIN wire = 1..Len(wire) /\ Len(wire) \in Nat
  BY DEF Shape
<1>3. DOMAIN wire' = 1..(Len(wire) + 1)
  BY <1>2
<1>4. CASE i = Len(wire) + 1
  BY <1>1, <1>2, <1>4
<1>5. CASE i # Len(wire) + 1
  <2>1. i \in DOMAIN wire /\ wire'[i] = wire[i]
    BY <1>1, <1>2, <1>3, <1>5
  <2> QED
    BY <1>1, <2>1 DEF Recent
<1> QED
  BY <1>4, <1>5

-----------------------------------------------------------------------------
(* Types.                                                                  *)

LEMMA InitShape == Init => Shape
<1> SUFFICES ASSUME Init
             PROVE  Shape
  OBVIOUS
<1>1. Zeros \in Counts /\ Zeros \in [Wheel -> Nat]
  BY DEF Zeros, Counts
<1>2. from \in FrameType /\ snap \in SnapType
  BY <1>1 DEF Init, FrameType, SnapType, NoFeedbackYet
<1>3. clock \in Nat /\ snap.count = 0
  BY OdometryAssumption DEF Init, NoFeedbackYet
<1>4. /\ 0 \in 0..Jitter /\ 0 \in 0..(LongSilence + MaxStep + 1) /\ 0 \in 0..MaxStep
      /\ 0 \in -0..TopAge
  BY OdometryAssumption DEF LongSilence, TopAge
<1>5. {position, velocity, speed, prev, start} \subseteq Counts /\ wire \in Seq(FrameType)
  BY <1>1 DEF Init
<1>6. /\ encoder \in Counts /\ travel \in [Wheel -> Nat] /\ phase \in Phase
      /\ {stamped, ticksInit, stale, fresh} \subseteq BOOLEAN /\ wire = << >>
  BY <1>1 DEF Init, Phase
<1>7. /\ lastCount \in 0..snap.count /\ behind \in 0..MaxStep /\ age \in -behind..TopAge
      /\ sinceRead \in 0..Jitter /\ silence \in 0..(LongSilence + MaxStep + 1)
  BY <1>3, <1>4 DEF Init
<1> QED
  BY <1>2, <1>3, <1>5, <1>6, <1>7 DEF Shape

\* An age is a number, that is at least what the clock is behind below zero.
LEMMA Ages ==
  ASSUME NEW b \in 0..MaxStep, NEW a
  PROVE  /\ TopAge \in Nat /\ b \in Nat /\ MaxStep \in Nat
         /\ a \in -b..TopAge <=> a \in Int /\ 0 <= a + b /\ a <= TopAge
BY OdometryAssumption DEF TopAge

\* Time passes.
LEMMA PassKeepsShape == ASSUME Shape, Pass PROVE Shape'
<1> USE DEF Shape
<1>1. PICK turn \in [Wheel -> Step] :
        /\ encoder' = [w \in Wheel |-> encoder[w] + turn[w]]
        /\ travel' = [w \in Wheel |-> travel[w] + Magnitude(turn[w])]
  BY DEF Pass
<1>2. \A w \in Wheel : turn[w] \in Int /\ Magnitude(turn[w]) \in Nat
  <2>1. \A d \in Int : Magnitude(d) \in Nat
    BY DEF Magnitude
  <2>2. \A w \in Wheel : turn[w] \in Step
    OBVIOUS
  <2>3. Step \subseteq Int
    BY OdometryAssumption
  <2> QED
    BY <2>1, <2>2, <2>3
<1>3. encoder' \in Counts /\ travel' \in [Wheel -> Nat]
  BY <1>1, <1>2 DEF Counts
<1>4. age' \in -behind..TopAge /\ silence' \in 0..(LongSilence + MaxStep + 1)
  <2>1. /\ behind \in 0..MaxStep /\ age \in -behind..TopAge
        /\ age' = UpTo(TopAge, age + 1)
        /\ silence' = IF Cycling THEN UpTo(LongSilence + MaxStep + 1, silence + 1) ELSE 0
    BY DEF Pass
  <2>2. TopAge \in Nat /\ behind \in Nat /\ age \in Int /\ 0 <= age + behind
    BY <2>1, Ages
  <2>3. age' \in Int /\ 0 <= age' + behind /\ age' <= TopAge
    BY <2>1, <2>2 DEF UpTo
  <2>4. age' \in -behind..TopAge
    BY <2>1, <2>3, Ages
  <2>5. LongSilence + MaxStep + 1 \in Nat /\ silence \in Nat
    BY OdometryAssumption DEF LongSilence
  <2>6. silence' \in 0..(LongSilence + MaxStep + 1)
    BY <2>1, <2>5 DEF UpTo
  <2> QED
    BY <2>4, <2>6
<1>5. sinceRead' \in 0..Jitter
  BY OdometryAssumption DEF Pass
<1> QED
  BY <1>3, <1>4, <1>5 DEF Pass, joint, session, PortOpen

\* Age and behind together do not shrink when the clock is set.
LEMMA Settings ==
  ASSUME NEW t \in Nat, NEW s \in Int, NEW a \in Int, NEW b \in Nat, NEW u \in Int, NEW c \in Nat,
         0 <= a + b, u = t \/ u = a + s, b <= c, s < 0 => c = b - s
  PROVE  0 <= u + c /\ (u = t \/ a + b <= u + c)
OBVIOUS

\* The host's clock is set: what the age loses is what the clock is behind.
LEMMA ClockSetAges ==
  ASSUME Shape, ClockSet
  PROVE  /\ behind' \in 0..MaxStep /\ behind <= behind' /\ age' \in -behind'..TopAge
         /\ \/ age' = TopAge
            \/ age + behind <= age' + behind'
<1>1. PICK s \in ClockSteps :
        /\ age' = UpTo(TopAge, age + s)
        /\ behind' = IF s < 0 THEN behind - s ELSE behind
  BY DEF ClockSet
<1>2. /\ s \in Int /\ MaxStep \in Nat /\ behind' <= MaxStep
      /\ behind \in 0..MaxStep /\ age \in -behind..TopAge
  BY OdometryAssumption DEF ClockSet, Shape
<1>3. TopAge \in Nat /\ behind \in Nat /\ age \in Int /\ 0 <= age + behind
  BY <1>2, Ages
<1>4. behind' \in 0..MaxStep /\ behind <= behind' /\ (s < 0 => behind' = behind - s)
  BY <1>1, <1>2, <1>3
<1>5. /\ age' \in Int /\ age' <= TopAge
      /\ age' = TopAge \/ age' = age + s
  BY <1>1, <1>2, <1>3 DEF UpTo
<1>6. 0 <= age' + behind' /\ (age' = TopAge \/ age + behind <= age' + behind')
  <2>1. behind' \in Nat /\ behind <= behind' /\ (s < 0 => behind' = behind - s)
    BY <1>2, <1>4
  <2>2. s \in Int /\ age' \in Int
    BY <1>2, <1>5
  <2> QED
    BY <1>3, <1>5, <2>1, <2>2, Settings
<1> QED
  BY <1>4, <1>5, <1>6, Ages

LEMMA ClockSetKeepsShape == ASSUME Shape, ClockSet PROVE Shape'
BY ClockSetAges DEF Shape, ClockSet, board, bounds, joint, session, PortOpen

\* The line, the board, and the lifecycle callbacks.
LEMMA OthersKeepShape ==
  ASSUME Shape, SendFrame \/ Restart \/ Drain \/ OnConfigure \/ Connect \/ Handshake
                  \/ HandshakeFails \/ ActivateDone \/ OnCleanup
  PROVE  Shape'
<1> USE DEF Shape, board, bounds, plugin, joint, session, Phase, PortOpen, Cycling
<1>0. /\ Zeros \in Counts /\ << >> \in Seq(FrameType)
      /\ 0 \in 0..Jitter /\ 0 \in 0..(LongSilence + MaxStep + 1) /\ 0 \in 0..MaxStep
      /\ 0 \in -0..TopAge
      /\ Zeros \in [Wheel -> Nat]
  BY OdometryAssumption DEF Zeros, Counts, LongSilence, TopAge
<1>a. /\ Parsed \in SnapType /\ [Parsed EXCEPT !.new = FALSE] \in SnapType
      /\ Parsed.count >= snap.count /\ [Parsed EXCEPT !.new = FALSE].count >= snap.count
  BY ParsedFacts DEF SnapType
<1>b. \A s \in SnapType : s.count >= snap.count => lastCount \in 0..s.count
  BY DEF SnapType
<1>c. Anchor \subseteq Nat
  BY OdometryAssumption
<1>1. CASE SendFrame
  <2>1. [ticks |-> encoder, stamp |-> clock] \in FrameType
    BY DEF FrameType
  <2>2. wire' \in Seq(FrameType)
    BY <1>1, <2>1 DEF SendFrame
  <2> QED
    BY <1>1, <2>2 DEF SendFrame
<1>2. CASE Restart
  BY <1>0, <1>2 DEF Restart
<1>3. CASE Drain
  BY <1>0, <1>a, <1>b, <1>3 DEF Drain
<1>4. CASE OnConfigure
  BY <1>0, <1>4 DEF OnConfigure
<1>5. CASE Connect
  BY <1>0, <1>5 DEF Connect
<1>6. CASE Handshake
  <2>1. snap' \in SnapType /\ lastCount' \in 0..snap'.count
    BY <1>a, <1>6 DEF Handshake, ResetTracking, SnapType
  <2> QED
    BY <1>0, <1>c, <1>6, <2>1 DEF Handshake, ResetTracking
<1>7. CASE HandshakeFails
  <2>1. snap' \in SnapType /\ lastCount' \in 0..snap'.count
    BY <1>a, <1>b, <1>7 DEF HandshakeFails
  <2>2. clock' \in Nat
    BY <1>c, <1>7 DEF HandshakeFails
  <2> QED
    BY <1>0, <1>7, <2>1, <2>2 DEF HandshakeFails
<1>8. CASE ActivateDone
  BY <1>0, <1>8 DEF ActivateDone
<1>9. CASE OnCleanup
  BY <1>0, <1>9 DEF OnCleanup
<1> QED
  BY <1>1, <1>2, <1>3, <1>4, <1>5, <1>6, <1>7, <1>8, <1>9

\* The speed that is measured over a window, and the filter, are numbers.
LEMMA SpeedsAreCounts ==
  ASSUME Shape, NEW f \in SnapType, NEW b \in FrameType, f.stamp - b.stamp > 0
  PROVE  Filtered(SpeedKept(f), Measured(f, b)) \in Counts
<1>1. SpeedKept(f) \in Counts
  BY DEF Shape, SpeedKept, Zeros, Counts
<1>2. Measured(f, b) \in Counts
  <2>1. \A w \in Wheel : f.ticks[w] - b.ticks[w] \in Int
    BY DEF SnapType, FrameType, Counts
  <2>2. f.stamp - b.stamp \in Nat \ {0}
    BY DEF SnapType, FrameType
  <2>3. \A m \in Int, n \in Nat \ {0} : (10 * m) \div n \in Int
    OBVIOUS
  <2> QED
    BY <2>1, <2>2, <2>3 DEF Measured, Counts
<1>3. \A m, x \in Int : m + (2 * (x - m)) \div 5 \in Int
  OBVIOUS
<1> QED
  BY <1>1, <1>2, <1>3 DEF Filtered, Counts

\* ReadWheels() with the snapshot f.
LEMMA TrackKeepsShape ==
  ASSUME Shape, NEW f \in SnapType, f.count >= snap.count, Track(f)
  PROVE  /\ {position, velocity, speed, prev}' \subseteq Counts /\ from' \in FrameType
         /\ lastCount' \in 0..f.count /\ behind' \in 0..MaxStep /\ age' \in -behind'..TopAge
         /\ stale' \in BOOLEAN /\ ticksInit' = ticksInit /\ fresh' = fresh
<1>1. Here(f) \in FrameType /\ Base(f) \in FrameType /\ f.ticks \in Counts
  BY DEF Shape, Here, Base, SnapType, FrameType
<1>2. SpeedKept(f) \in Counts
  BY DEF Shape, SpeedKept, Zeros, Counts
<1>3. from' \in FrameType /\ speed' \in Counts
  <2>1. CASE RestartWindow(f)
    BY <1>1, <1>2, <2>1 DEF RestartWindow
  <2>2. CASE WindowTooShort(f)
    BY <1>1, <1>2, <2>2 DEF WindowTooShort
  <2>3. CASE MeasureSpeed(f)
    <3>1. f.stamp - Base(f).stamp > 0
      BY <1>1, <2>3, OdometryAssumption DEF MeasureSpeed, SnapType, FrameType
    <3>2. Filtered(SpeedKept(f), Measured(f, Base(f))) \in Counts
      BY <1>1, <3>1, SpeedsAreCounts
    <3> QED
      BY <1>1, <2>3, <3>2 DEF MeasureSpeed
  <2> QED
    BY <2>1, <2>2, <2>3 DEF Track
<1>4. \A w \in Wheel : position[w] + f.ticks[w] - prev[w] \in Int
  BY <1>1 DEF Shape, Counts
<1>5. position' \in Counts /\ prev' \in Counts /\ velocity' \in Counts
  BY <1>1, <1>3, <1>4 DEF Track, Counts
<1>6. /\ lastCount' \in 0..f.count /\ behind' \in 0..MaxStep /\ age' \in -behind'..TopAge
      /\ stale' \in BOOLEAN
  <2>1. f.count \in Nat /\ lastCount \in 0..f.count
    BY DEF Shape, SnapType
  <2>2. 0 \in 0..MaxStep /\ 0 \in -0..TopAge /\ f.count \in 0..f.count
    BY <2>1, OdometryAssumption DEF TopAge
  <2>3. CASE NewFrame(f)
    BY <2>2, <2>3 DEF Track, NoteFrames
  <2>4. CASE ~NewFrame(f)
    BY <2>1, <2>4 DEF Track, NoteFrames, TimedOut, Shape
  <2> QED
    BY <2>3, <2>4
<1> QED
  BY <1>3, <1>5, <1>6 DEF Track

LEMMA ReadKeepsShape == ASSUME Shape, Read PROVE Shape'
<1> USE DEF Shape, board, bounds, plugin, joint, session, Phase, PortOpen, Cycling
<1>0. << >> \in Seq(FrameType) /\ 0 \in 0..Jitter /\ 0 \in 0..(LongSilence + MaxStep + 1)
  BY OdometryAssumption DEF LongSilence
<1>1. Parsed \in SnapType /\ Parsed.count >= snap.count
  BY ParsedFacts
<1>2. Parsed.ticks \in Counts /\ Here(Parsed) \in FrameType /\ Parsed.new \in BOOLEAN
  BY <1>1 DEF SnapType, FrameType, Here
<1>3. lastCount \in 0..Parsed.count
  BY <1>1 DEF SnapType
<1>4. CASE NoFeedback(Parsed)
  BY <1>0, <1>1, <1>3, <1>4 DEF Read, NoFeedback
<1>5. CASE SeedTicks(Parsed)
  BY <1>0, <1>1, <1>2, <1>3, <1>5 DEF Read, SeedTicks
<1>6. CASE Track(Parsed)
  BY <1>0, <1>1, <1>6, TrackKeepsShape DEF Read
<1> QED
  BY <1>4, <1>5, <1>6 DEF Read

-----------------------------------------------------------------------------
(* Odometry is real motion.                                                *)

\* The wheels turn by d, of which the sum of the last two terms knows at most |d|.
LEMMA TurningCounts ==
  ASSUME NEW e \in Int, NEW x \in Int, NEW d \in Int
  PROVE  Magnitude(e + d - x) <= Magnitude(e - x) + Magnitude(d)
BY DEF Magnitude

\* What a newer frame adds is at most what an older one adds, and the way between them.
LEMMA Detour ==
  ASSUME NEW e \in Int, NEW x \in Int, NEW p \in Int
  PROVE  Magnitude(e - p) + Magnitude(e - e) <= Magnitude(x - p) + Magnitude(e - x)
BY DEF Magnitude

\* Taking a frame over moves what it adds into the position.
LEMMA TakingOver ==
  ASSUME NEW a \in Int, NEW s \in Int, NEW x \in Int, NEW p \in Int, NEW e \in Int
  PROVE  Magnitude((a + x - p) - s) + Magnitude(x - x) + Magnitude(e - x)
           <= Magnitude(a - s) + Magnitude(x - p) + Magnitude(e - x)
BY DEF Magnitude

LEMMA ClockSetKeepsReal == ASSUME Real, ClockSet PROVE Real'
BY DEF ClockSet, board, joint, session, Real, Session, Recent, Unseeded, Accounted

LEMMA PassKeepsReal == ASSUME Shape, Real, Pass PROVE Real'
<1>1. PICK turn \in [Wheel -> Step] :
        /\ encoder' = [w \in Wheel |-> encoder[w] + turn[w]]
        /\ travel' = [w \in Wheel |-> travel[w] + Magnitude(turn[w])]
  BY DEF Pass
<1>2. Recent' = Recent
  BY DEF Pass, Recent
<1>3. \A x \in Recent, w \in Wheel :
        Magnitude(encoder'[w] - x[w]) <= Magnitude(encoder[w] - x[w]) + Magnitude(turn[w])
  <2> SUFFICES ASSUME NEW x \in Recent, NEW w \in Wheel
               PROVE  Magnitude(encoder'[w] - x[w])
                        <= Magnitude(encoder[w] - x[w]) + Magnitude(turn[w])
    OBVIOUS
  <2>1. encoder[w] \in Int /\ x[w] \in Int /\ turn[w] \in Int
    BY RecentCounts, OdometryAssumption DEF Shape, Counts
  <2> QED
    BY <1>1, <2>1, TurningCounts
<1>4. \A x \in Recent, w \in Wheel :
        /\ Magnitude(encoder[w] - x[w]) \in Nat /\ Magnitude(encoder'[w] - x[w]) \in Nat
        /\ Magnitude(position[w] - start[w]) \in Nat /\ Magnitude(x[w] - prev[w]) \in Nat
        /\ travel[w] \in Nat /\ Magnitude(turn[w]) \in Nat
  <2> SUFFICES ASSUME NEW x \in Recent, NEW w \in Wheel
               PROVE  /\ Magnitude(encoder[w] - x[w]) \in Nat
                      /\ Magnitude(encoder'[w] - x[w]) \in Nat
                      /\ Magnitude(position[w] - start[w]) \in Nat
                      /\ Magnitude(x[w] - prev[w]) \in Nat
                      /\ travel[w] \in Nat /\ Magnitude(turn[w]) \in Nat
    OBVIOUS
  <2>1. /\ encoder[w] \in Int /\ x[w] \in Int /\ turn[w] \in Int /\ position[w] \in Int
        /\ start[w] \in Int /\ prev[w] \in Int /\ travel[w] \in Nat
    BY RecentCounts, OdometryAssumption DEF Shape, Counts
  <2>2. encoder'[w] = encoder[w] + turn[w]
    BY <1>1
  <2>3. \A n \in Int : Magnitude(n) \in Nat
    BY DEF Magnitude
  <2> QED
    BY <2>1, <2>2, <2>3
<1>5. \A x \in Recent : Unseeded(x) => Unseeded(x)'
  BY <1>1, <1>3, <1>4 DEF Unseeded
<1>6. \A x \in Recent : Accounted(x) => Accounted(x)'
  <2> SUFFICES ASSUME NEW x \in Recent, Accounted(x), NEW w \in Wheel
               PROVE  Magnitude(position[w] - start[w]) + Magnitude(x[w] - prev[w])
                        + Magnitude(encoder'[w] - x[w]) <= travel'[w]
    BY DEF Accounted, Pass, joint, session
  <2>1. Magnitude(position[w] - start[w]) + Magnitude(x[w] - prev[w])
          + Magnitude(encoder[w] - x[w]) <= travel[w]
    BY DEF Accounted
  <2>2. travel'[w] = travel[w] + Magnitude(turn[w])
    BY <1>1
  <2> QED
    BY <1>3, <1>4, <2>1, <2>2
<1> QED
  BY <1>2, <1>5, <1>6 DEF Real, Pass, joint, session

LEMMA SendKeepsReal == ASSUME Shape, Real, SendFrame PROVE Real'
<1>1. Recent' \subseteq Recent \cup {encoder}
  BY SendingAdds DEF SendFrame
<1>2. /\ \A x : Unseeded(x) => Unseeded(x)'
      /\ \A x : Accounted(x) => Accounted(x)'
  BY DEF SendFrame, Unseeded, Accounted, board, joint, session, plugin
<1>3. Unseeded(encoder)'
  BY DEF Shape, Unseeded, Magnitude, SendFrame, board, Counts
<1>4. ASSUME snap.new, Accounted(snap.ticks)
      PROVE  Accounted(encoder)
  <2> SUFFICES ASSUME NEW w \in Wheel
               PROVE  Magnitude(position[w] - start[w]) + Magnitude(encoder[w] - prev[w])
                        + Magnitude(encoder[w] - encoder[w]) <= travel[w]
    BY DEF Accounted
  <2>1. /\ encoder[w] \in Int /\ snap.ticks[w] \in Int /\ prev[w] \in Int
        /\ position[w] \in Int /\ start[w] \in Int /\ travel[w] \in Nat
    BY DEF Shape, SnapType, Counts
  <2>2. Magnitude(encoder[w] - prev[w]) + Magnitude(encoder[w] - encoder[w])
          <= Magnitude(snap.ticks[w] - prev[w]) + Magnitude(encoder[w] - snap.ticks[w])
    BY <2>1, Detour
  <2>3. Magnitude(position[w] - start[w]) + Magnitude(snap.ticks[w] - prev[w])
          + Magnitude(encoder[w] - snap.ticks[w]) <= travel[w]
    BY <1>4 DEF Accounted
  <2>4. \A n \in Int : Magnitude(n) \in Nat
    BY DEF Magnitude
  <2> QED
    BY <2>1, <2>2, <2>3, <2>4
<1>5. snap.new => snap.ticks \in Recent
  BY DEF Recent
<1>6. UNCHANGED <<phase, ticksInit, fresh, position, start, snap, encoder>>
  BY DEF SendFrame, joint, session, plugin, board
<1>7. Accounted(encoder) => Accounted(encoder)'
  BY <1>6 DEF SendFrame, Accounted, board, joint, session, plugin
<1> QED
  BY <1>1, <1>2, <1>3, <1>4, <1>5, <1>6, <1>7 DEF Real

\* The other steps of the line, the board and the lifecycle.
LEMMA OthersKeepReal ==
  ASSUME Shape, Real, Restart \/ Drain \/ OnConfigure \/ Connect \/ Handshake
                        \/ HandshakeFails \/ ActivateDone \/ OnCleanup
  PROVE  Real'
<1> USE DEF board, bounds, plugin, joint, session, PortOpen, Cycling, Session
<1>1. CASE Restart
  BY <1>1 DEF Restart, Real
<1>2. CASE Drain
  <2>1. Recent' \subseteq Recent /\ (snap.new => snap'.new)
    BY <1>2, ParsingForgets, ParsedFacts DEF Drain
  <2>2. /\ \A x : Unseeded(x) => Unseeded(x)'
        /\ \A x : Accounted(x) => Accounted(x)'
    BY <1>2 DEF Drain, Unseeded, Accounted
  <2> QED
    BY <1>2, <2>1, <2>2 DEF Drain, Real
<1>3. CASE OnConfigure
  BY <1>3 DEF OnConfigure, Real
<1>4. CASE Connect
  BY <1>4 DEF Connect, Real
<1>5. CASE Handshake
  <2>1. Recent' = {}
    BY <1>5, ParsedFacts DEF Handshake, Recent, SnapType
  <2> QED
    BY <1>5, <2>1 DEF Handshake, ResetTracking, Real
<1>6. CASE HandshakeFails
  BY <1>6 DEF HandshakeFails, Real
<1>7. CASE ActivateDone
  <2>1. Recent' = Recent
    BY <1>7 DEF ActivateDone, Recent
  <2>2. \A x : Unseeded(x) => Unseeded(x)'
    BY <1>7 DEF ActivateDone, Unseeded
  <2> QED
    BY <1>7, <2>1, <2>2 DEF ActivateDone, Real
<1>8. CASE OnCleanup
  BY <1>8 DEF OnCleanup, Real
<1> QED
  BY <1>1, <1>2, <1>3, <1>4, <1>5, <1>6, <1>7, <1>8

LEMMA ReadKeepsReal == ASSUME Shape, Real, Read PROVE Real'
<1> DEFINE f == Parsed
<1> USE DEF board, bounds, plugin, joint, session
<1>1. /\ f \in SnapType /\ (f.new => f.ticks \in Recent) /\ (snap.new => f.new)
      /\ f.ticks \in Counts
  BY ParsedFacts DEF SnapType
<1>2. Recent' \subseteq Recent /\ Recent' = (IF f.new THEN {f.ticks} ELSE {})
  BY ParsingForgets DEF Read, Recent
<1>3. /\ phase' = phase /\ phase \in {"running", "idle"} /\ snap' = f /\ start' = start
      /\ encoder' = encoder /\ travel' = travel
  BY DEF Read, Cycling
<1>4. CASE phase = "idle"
  BY <1>3, <1>4 DEF Real, Session
<1>5. CASE phase = "running"
  <2>1. CASE NoFeedback(f)
    <3>1. /\ \A x : Unseeded(x) => Unseeded(x)'
          /\ \A x : Accounted(x) => Accounted(x)'
      BY <1>3, <2>1 DEF NoFeedback, Unseeded, Accounted
    <3> QED
      BY <1>1, <1>2, <1>3, <1>5, <2>1, <3>1 DEF NoFeedback, Real, Session
  <2>2. CASE SeedTicks(f)
    <3>1. /\ position = start /\ position' = position /\ prev' = f.ticks
          /\ \A x \in Recent : Unseeded(x)
      BY <1>5, <2>2 DEF SeedTicks, Real, Session
    <3>2. ASSUME NEW x, x = f.ticks, Unseeded(x)
          PROVE  Accounted(x)'
      <4> SUFFICES ASSUME NEW w \in Wheel
                   PROVE  Magnitude(position[w] - start[w]) + Magnitude(x[w] - x[w])
                            + Magnitude(encoder[w] - x[w]) <= travel[w]
        BY <1>3, <3>1, <3>2 DEF Accounted
      <4>1. position[w] = start[w] /\ start[w] \in Int /\ x[w] \in Int
        BY <1>1, <3>1, <3>2 DEF Shape, Counts
      <4>2. Magnitude(encoder[w] - x[w]) <= travel[w] /\ encoder[w] \in Int
        BY <3>2 DEF Unseeded, Shape, Counts
      <4>3. Magnitude(position[w] - start[w]) = 0 /\ Magnitude(x[w] - x[w]) = 0
        BY <4>1 DEF Magnitude
      <4>4. Magnitude(encoder[w] - x[w]) \in Nat
        BY <4>1, <4>2 DEF Magnitude
      <4> QED
        BY <4>2, <4>3, <4>4
    <3>3. ticksInit' = TRUE /\ fresh' = f.new /\ snap'.new = f.new
      BY <1>3, <2>2 DEF SeedTicks
    <3>4. f.new => \A x \in Recent' : Accounted(x)'
      BY <1>1, <1>2, <3>1, <3>2
    <3> QED
      BY <1>3, <1>5, <3>3, <3>4 DEF Real, Session
  <2>3. CASE Track(f)
    <3>1. /\ ticksInit /\ ticksInit' = ticksInit /\ fresh' = fresh /\ prev' = f.ticks
          /\ position' = [w \in Wheel |-> position[w] + f.ticks[w] - prev[w]]
      BY <2>3 DEF Track
    <3>2. ASSUME NEW x, x = f.ticks, Accounted(x)
          PROVE  Accounted(x)'
      <4> SUFFICES ASSUME NEW w \in Wheel
                   PROVE  Magnitude(position'[w] - start[w]) + Magnitude(x[w] - x[w])
                            + Magnitude(encoder[w] - x[w]) <= travel[w]
        BY <1>3, <3>1, <3>2 DEF Accounted
      <4>1. /\ position[w] \in Int /\ start[w] \in Int /\ x[w] \in Int
            /\ prev[w] \in Int /\ encoder[w] \in Int /\ travel[w] \in Nat
        BY <1>1, <3>2 DEF Shape, Counts
      <4>2. position'[w] = position[w] + x[w] - prev[w]
        BY <3>1, <3>2
      <4>3. Magnitude(position[w] - start[w]) + Magnitude(x[w] - prev[w])
              + Magnitude(encoder[w] - x[w]) <= travel[w]
        BY <3>2 DEF Accounted
      <4>4. \A n \in Int : Magnitude(n) \in Nat
        BY DEF Magnitude
      <4>5. Magnitude(position'[w] - start[w]) + Magnitude(x[w] - x[w])
              + Magnitude(encoder[w] - x[w])
              <= Magnitude(position[w] - start[w]) + Magnitude(x[w] - prev[w])
                   + Magnitude(encoder[w] - x[w])
        BY <4>1, <4>2, TakingOver
      <4> QED
        BY <4>1, <4>2, <4>3, <4>4, <4>5
    <3>3. ASSUME fresh
          PROVE  snap'.new /\ \A x \in Recent' : Accounted(x)'
      <4>1. snap.new /\ \A x \in Recent : Accounted(x)
        BY <1>5, <3>1, <3>3 DEF Real
      <4> QED
        BY <1>1, <1>2, <1>3, <3>2, <4>1
    <3> QED
      BY <1>3, <1>5, <3>1, <3>3 DEF Real, Session
  <2> QED
    BY <2>1, <2>2, <2>3 DEF Read
<1> QED
  BY <1>3, <1>4, <1>5

-----------------------------------------------------------------------------
(* A silence is noticed.                                                   *)

\* Parsing frames counts them; parsing none changes nothing.
LEMMA ParsedCounts ==
  ASSUME Shape
  PROVE  /\ Parsed.count \in Nat /\ snap.count \in Nat /\ lastCount \in 0..snap.count
         /\ wire = << >> => Parsed = snap
         /\ wire # << >> => Parsed.count > snap.count
<1>1. snap.count \in Nat /\ lastCount \in 0..snap.count /\ wire \in Seq(FrameType)
  BY DEF Shape, SnapType
<1>2. CASE wire = << >>
  BY <1>1, <1>2 DEF Parsed
<1>3. CASE wire # << >>
  <2>1. Len(wire) \in Nat \ {0}
    BY <1>1, <1>3, EmptySeq, LenProperties
  <2>2. Parsed.count = snap.count + Len(wire)
    BY <1>3 DEF Parsed
  <2> QED
    BY <1>1, <1>3, <2>1, <2>2
<1> QED
  BY <1>2, <1>3

\* The clocks of the host are naturals.
LEMMA Times ==
  ASSUME Shape
  PROVE  /\ silence \in Nat /\ sinceRead \in 0..Jitter
         /\ behind \in 0..MaxStep /\ age \in Int /\ 0 <= age + behind
         /\ Jitter \in Nat \ {0} /\ StaleAfter \in Nat /\ MaxStep \in Nat
         /\ TopAge = StaleAfter + 1 + MaxStep
BY OdometryAssumption DEF Shape, LongSilence, TopAge

LEMMA PassKeepsQuiet == ASSUME Shape, Quiet, Pass PROVE Quiet'
<1>1. /\ UNCHANGED <<phase, snap, ticksInit, from, speed, lastCount, velocity, behind>>
      /\ age' = UpTo(TopAge, age + 1)
      /\ silence' = IF Cycling THEN UpTo(LongSilence + MaxStep + 1, silence + 1) ELSE 0
      /\ sinceRead' = IF Cycling THEN sinceRead + 1 ELSE 0
  BY DEF Pass, joint
<1>2. Tracked' /\ (InWindow' <=> InWindow) /\ (AtRest' <=> AtRest)
  BY <1>1 DEF Quiet, Tracked, InWindow, AtRest
<1>3. ASSUME Cycling
      PROVE  Timely'
  <2>1. silence' <= silence + 1 /\ silence' \in Nat /\ sinceRead' = sinceRead + 1
    BY <1>1, <1>3, Times DEF UpTo, LongSilence
  <2>2. age' = TopAge \/ age' = age + 1
    BY <1>1, Times DEF UpTo
  <2>3. age + behind >= TopAge => age' + behind' >= TopAge
    BY <1>1, <2>2, Times
  <2>4. age' = TopAge => age' + behind' >= TopAge
    BY <1>1, Times
  <2>5. Timely
    BY <1>3 DEF Quiet
  <2>6. ~ticksInit /\ snap.count # 0 => silence' <= sinceRead'
    BY <2>1, <2>5, Times DEF Timely
  <2>7. ticksInit /\ snap.count # lastCount =>
          \/ silence' <= sinceRead'
          \/ InWindow /\ speed = Zeros /\ silence' <= sinceRead' + Jitter
    BY <2>1, <2>5, Times DEF Timely
  <2>8. ticksInit /\ snap.count = lastCount =>
          \/ AtRest
          \/ /\ silence' <= StaleAfter + Jitter + sinceRead' + behind'
             /\ age' + behind' >= TopAge \/ silence' <= age' + behind' + Jitter
    BY <1>1, <2>1, <2>2, <2>3, <2>4, <2>5, Times DEF Timely
  <2> QED
    BY <1>1, <1>2, <2>6, <2>7, <2>8 DEF Timely
<1> QED
  BY <1>1, <1>2, <1>3 DEF Quiet, Cycling

LEMMA ClockSetKeepsQuiet == ASSUME Shape, Shape', Quiet, ClockSet PROVE Quiet'
<1>1. UNCHANGED <<phase, snap, ticksInit, from, speed, lastCount, velocity, silence, sinceRead>>
  BY DEF ClockSet, joint
<1>2. Tracked' /\ (InWindow' <=> InWindow) /\ (AtRest' <=> AtRest)
  BY <1>1 DEF Quiet, Tracked, InWindow, AtRest
<1>3. ASSUME Cycling
      PROVE  Timely'
  <2>1. /\ behind' \in Nat /\ behind <= behind' /\ age' \in Int
        /\ age' = TopAge \/ age + behind <= age' + behind'
    BY ClockSetAges, Ages
  <2>2. Timely
    BY <1>3 DEF Quiet
  <2>3. silence <= StaleAfter + Jitter + sinceRead + behind
          => silence <= StaleAfter + Jitter + sinceRead + behind'
    BY <2>1, Times
  <2>4. age + behind >= TopAge \/ silence <= age + behind + Jitter
          => age' + behind' >= TopAge \/ silence <= age' + behind' + Jitter
    BY <2>1, Times
  <2> QED
    BY <1>1, <1>2, <2>2, <2>3, <2>4 DEF Timely
<1> QED
  BY <1>1, <1>2, <1>3 DEF Quiet, Cycling

\* Zero is within every bound of Timely.
LEMMA NothingOverdue ==
  ASSUME NEW a \in Nat, NEW b \in Nat, NEW c \in Nat, NEW d \in Nat, NEW e \in Int,
         0 <= e + d
  PROVE  0 <= a /\ 0 <= b + c + a + d /\ 0 <= e + d + c
OBVIOUS

\* When the silence begins anew, nothing is overdue.
LEMMA SilenceBegins ==
  ASSUME Shape, Shape', silence' = 0
  PROVE  /\ silence' <= sinceRead' /\ silence' <= StaleAfter + Jitter + sinceRead' + behind'
         /\ silence' <= age' + behind' + Jitter
<1>1. /\ sinceRead' \in Nat /\ behind' \in Nat /\ age' \in Int /\ 0 <= age' + behind'
      /\ Jitter \in Nat /\ StaleAfter \in Nat
  <2>1. behind' \in 0..MaxStep /\ age' \in -behind'..TopAge /\ sinceRead' \in 0..Jitter
    BY DEF Shape, TopAge
  <2>2. behind' \in Nat /\ age' \in Int /\ 0 <= age' + behind'
    BY <2>1, Ages
  <2>3. Jitter \in Nat /\ StaleAfter \in Nat
    BY OdometryAssumption
  <2>4. sinceRead' \in Nat
    BY <2>1, <2>3
  <2> QED
    BY <2>2, <2>3, <2>4
<1> QED
  BY <1>1, NothingOverdue

LEMMA FreshSilence == ASSUME Shape, Shape', silence' = 0 PROVE Timely'
BY SilenceBegins DEF Timely

LEMMA OthersKeepQuiet ==
  ASSUME Shape, Shape', Quiet,
         SendFrame \/ Restart \/ Drain \/ OnConfigure \/ Connect \/ Handshake
           \/ HandshakeFails \/ ActivateDone \/ OnCleanup
  PROVE  Quiet'
<1> USE DEF board, bounds, plugin, joint, session, Cycling
<1>1. CASE SendFrame \/ Restart
  BY <1>1 DEF SendFrame, Restart, Quiet, Tracked, Timely, InWindow, AtRest
<1>2. CASE Drain
  <2>1. Parsed.count > snap.count
    BY <1>2, ParsedCounts DEF Drain
  <2>2. Tracked'
    BY <1>2, <2>1, ParsedCounts DEF Drain, Quiet, Tracked
  <2> QED
    BY <1>2, <2>2, FreshSilence DEF Drain, Quiet
<1>3. CASE OnConfigure \/ Connect \/ OnCleanup
  BY <1>3 DEF OnConfigure, Connect, OnCleanup, Quiet, Tracked, InWindow
<1>4. CASE Handshake
  BY <1>4 DEF Handshake, ResetTracking, Quiet, Tracked
<1>5. CASE HandshakeFails
  <2>1. /\ UNCHANGED <<ticksInit, speed, lastCount, from>> /\ silence' = 0
        /\ snap' = [Parsed EXCEPT !.new = FALSE]
    BY <1>5 DEF HandshakeFails
  <2>2. snap'.count = Parsed.count /\ snap'.stamp = Parsed.stamp
    BY <2>1, ParsedFacts DEF SnapType
  <2>3. Tracked'
    <3>1. CASE wire = << >>
      BY <2>1, <2>2, <3>1, ParsedCounts DEF Quiet, Tracked, InWindow
    <3>2. CASE wire # << >>
      BY <2>1, <2>2, <3>2, ParsedCounts DEF Quiet, Tracked
    <3> QED
      BY <3>1, <3>2
  <2> QED
    BY <2>1, <2>3, FreshSilence DEF Quiet
<1>6. CASE ActivateDone
  <2>1. Tracked' /\ silence' = 0
    BY <1>6 DEF ActivateDone, Quiet, Tracked, InWindow
  <2> QED
    BY <2>1, FreshSilence DEF Quiet
<1> QED
  BY <1>1, <1>2, <1>3, <1>4, <1>5, <1>6

\* ReadWheels() leaves the snapshot in the window, at whichever end.
LEMMA TrackLeavesInWindow ==
  ASSUME Shape, NEW f \in SnapType, Track(f)
  PROVE  f.stamp - from'.stamp \in 0..(MeasWindow - 1)
<1>1. f.stamp \in Nat /\ Here(f).stamp = f.stamp
  BY DEF SnapType, Here
<1>2. MeasWindow \in Nat \ {0}
  BY OdometryAssumption
<1>3. CASE from' = Here(f)
  BY <1>1, <1>2, <1>3
<1>4. CASE WindowTooShort(f)
  BY <1>4 DEF WindowTooShort
<1> QED
  BY <1>3, <1>4 DEF Track, RestartWindow, MeasureSpeed

\* A frame that lies in the window leaves the speed at rest when it is.
LEMMA TrackWithinWindow ==
  ASSUME Shape, NEW f \in SnapType, Track(f),
         f.stamp - from.stamp \in 0..(MeasWindow - 1)
  PROVE  speed' = SpeedKept(f) /\ velocity' = SpeedKept(f)
<1>1. f.stamp \in Nat /\ Here(f).stamp = f.stamp
  BY DEF SnapType, Here
<1>2. MeasWindow \in Nat \ {0} /\ WindowMax \in Nat /\ MeasWindow <= WindowMax
  BY OdometryAssumption
<1>3. f.stamp - Base(f).stamp \in 0..(MeasWindow - 1)
  BY <1>1, <1>2 DEF Base
<1>4. ~MeasureSpeed(f)
  BY <1>2, <1>3 DEF MeasureSpeed
<1> QED
  BY <1>4 DEF Track, RestartWindow, WindowTooShort

LEMMA ReadKeepsQuiet == ASSUME Shape, Shape', Quiet, Read PROVE Quiet'
<1> DEFINE f == Parsed
<1>1. /\ f \in SnapType /\ snap' = f /\ phase' = phase /\ Cycling /\ Cycling' /\ sinceRead' = 0
      /\ silence' = (IF wire = << >> THEN silence ELSE 0)
  BY ParsedFacts DEF Read, Cycling
<1>2. Tracked /\ Timely
  BY <1>1 DEF Quiet
<1>3. CASE NoFeedback(f)
  <2>1. UNCHANGED <<ticksInit, speed, lastCount, from>> /\ snap'.count = 0 /\ snap.count = 0
    BY <1>1, <1>3, ParsedFacts, ParsedCounts DEF NoFeedback, plugin
  <2>2. ~ticksInit
    BY <1>2, <2>1 DEF Tracked
  <2> QED
    BY <1>1, <1>2, <2>1, <2>2 DEF Quiet, Tracked, Timely
<1>4. CASE SeedTicks(f)
  <2>1. /\ ticksInit' /\ from' = Here(f) /\ lastCount' = lastCount /\ speed' = speed
        /\ f.count # 0 /\ ~ticksInit
    BY <1>4 DEF SeedTicks
  <2>2. speed = Zeros /\ lastCount = 0
    BY <1>2, <2>1 DEF Tracked
  <2>3. InWindow'
    <3>1. snap'.stamp = f.stamp /\ from'.stamp = f.stamp /\ f.stamp \in Nat
      BY <1>1, <2>1 DEF Here, SnapType
    <3> QED
      BY <3>1, OdometryAssumption DEF InWindow
  <2>4. Tracked' /\ snap'.count # lastCount'
    BY <1>1, <2>1, <2>2, <2>3 DEF Tracked
  <2>5. silence' <= sinceRead' + Jitter
    <3>1. CASE wire = << >>
      <4>1. snap.count # 0
        BY <2>1, <3>1, ParsedCounts
      <4> QED
        BY <1>1, <1>2, <2>1, <3>1, <4>1, Times DEF Timely
    <3>2. CASE wire # << >>
      BY <1>1, <3>2, Times
    <3> QED
      BY <3>1, <3>2
  <2>6. Timely'
    BY <2>1, <2>2, <2>3, <2>4, <2>5 DEF Timely
  <2> QED
    BY <2>4, <2>6 DEF Quiet
<1>5. CASE Track(f)
  <2>1. /\ ticksInit /\ ticksInit' = ticksInit /\ f.count # 0 /\ velocity' = speed'
        /\ NoteFrames(f)
    BY <1>5 DEF Track
  <2>2. InWindow'
    BY <1>1, <1>5, TrackLeavesInWindow DEF InWindow
  <2>3. lastCount' = f.count /\ snap'.count = lastCount'
    BY <1>1, <2>1 DEF NoteFrames, NewFrame
  <2>4. Tracked'
    BY <1>1, <2>1, <2>2, <2>3 DEF Tracked
  <2>5. \/ AtRest'
        \/ /\ silence' <= StaleAfter + Jitter + sinceRead' + behind'
           /\ age' + behind' >= TopAge \/ silence' <= age' + behind' + Jitter
    <3>1. CASE wire # << >>
      <4>1. silence' = 0 /\ behind' \in Nat /\ age' \in Int /\ 0 <= age' + behind'
        <5>1. behind' \in 0..MaxStep /\ age' \in -behind'..TopAge
          BY DEF Shape, TopAge
        <5> QED
          BY <1>1, <3>1, <5>1, Ages
      <4> QED
        BY <4>1, SilenceBegins
    <3>2. CASE wire = << >> /\ NewFrame(f)
      <4>1. /\ f = snap /\ age' = 0 /\ behind' = 0 /\ SpeedKept(f) = speed
            /\ snap.count # lastCount
        BY <2>1, <3>2, ParsedCounts DEF NoteFrames, NewFrame, SpeedKept, TimedOut
      <4>2. CASE silence <= sinceRead
        BY <1>1, <3>2, <4>1, <4>2, Times
      <4>3. CASE InWindow /\ speed = Zeros
        <5>1. f.stamp - from.stamp \in 0..(MeasWindow - 1)
          BY <4>1, <4>3 DEF InWindow
        <5>2. speed' = Zeros /\ velocity' = Zeros
          BY <1>1, <1>5, <4>1, <4>3, <5>1, TrackWithinWindow
        <5> QED
          BY <5>2 DEF AtRest, Zeros
      <4> QED
        BY <1>2, <2>1, <4>1, <4>2, <4>3 DEF Timely
    <3>3. CASE wire = << >> /\ ~NewFrame(f)
      <4>1. /\ f = snap /\ age' = age /\ behind' = behind /\ snap.count = lastCount
            /\ silence' = silence
        BY <1>1, <2>1, <3>3, ParsedCounts DEF NoteFrames, NewFrame
      <4>2. speed' = SpeedKept(f) /\ velocity' = SpeedKept(f)
        <5>1. f.stamp - from.stamp \in 0..(MeasWindow - 1)
          BY <1>2, <2>1, <4>1 DEF Tracked, InWindow
        <5> QED
          BY <1>1, <1>5, <5>1, TrackWithinWindow
      <4>3. CASE age > StaleAfter
        <5>1. SpeedKept(f) = Zeros
          BY <3>3, <4>3 DEF SpeedKept, TimedOut
        <5> QED
          BY <4>2, <5>1 DEF AtRest, Zeros
      <4>4. CASE AtRest
        <5>1. SpeedKept(f) = Zeros
          BY <4>4 DEF SpeedKept, AtRest
        <5> QED
          BY <4>2, <5>1 DEF AtRest, Zeros
      <4>5. CASE silence <= age + behind + Jitter /\ ~(age > StaleAfter)
        BY <1>1, <4>1, <4>5, Times
      <4>6. age + behind >= TopAge => age > StaleAfter
        BY Times
      <4> QED
        BY <1>2, <2>1, <4>1, <4>3, <4>4, <4>5, <4>6 DEF Timely
    <3> QED
      BY <3>1, <3>2, <3>3
  <2>6. Timely'
    BY <2>1, <2>3, <2>5 DEF Timely
  <2> QED
    BY <2>4, <2>6 DEF Quiet
<1> QED
  BY <1>3, <1>4, <1>5 DEF Read

-----------------------------------------------------------------------------
(* The speed is possible.                                                  *)

LEMMA MeasuredBound ==
  ASSUME NEW n \in Int, NEW w \in Nat \ {0}, NEW b \in Nat, Magnitude(n) <= b * w
  PROVE  Magnitude((10 * n) \div w) <= 10 * b
BY SMTT(30) DEF Magnitude

\* The filter stays between the old value and the new one, rounding included.
LEMMA FilterBound ==
  ASSUME NEW m \in Int, NEW x \in Int, NEW b \in Nat, Magnitude(m) <= b, Magnitude(x) <= b
  PROVE  Magnitude(m + (2 * (x - m)) \div 5) <= b
BY DEF Magnitude

LEMMA LaterByOne ==
  ASSUME NEW e \in Int, NEW d \in Int, NEW x \in Int, NEW c \in Int, NEW s \in Int,
         NEW b \in Nat, Magnitude(d) <= b, Magnitude(e - x) <= b * (c - s)
  PROVE  Magnitude(e + d - x) <= b * (c + 1 - s)
BY DEF Magnitude

\* Frames are frames.
LEMMA HeardFrames ==
  ASSUME Shape
  PROVE  Heard \subseteq FrameType /\ Now \in FrameType /\ from \in FrameType
BY WireElements DEF Shape, Heard, Now, Here, SnapType, FrameType

LEMMA ReachableSelf == ASSUME NEW x \in FrameType PROVE Reachable(x, x)
<1>1. \A w \in Wheel : x.ticks[w] \in Int /\ x.stamp \in Int
  BY DEF FrameType, Counts
<1>2. \A n \in Int : Magnitude(n - n) = 0
  BY DEF Magnitude
<1>3. \A n \in Int : Fastest * (n - n) = 0
  BY OdometryAssumption
<1> QED
  BY <1>1, <1>2, <1>3 DEF Reachable

LEMMA ParsedHeard ==
  ASSUME Shape
  PROVE  Parsed.new => Here(Parsed) \in Heard
<1>1. CASE wire = << >>
  BY <1>1 DEF Parsed, Heard
<1>2. CASE wire # << >>
  <2>1. wire \in Seq(FrameType)
    BY DEF Shape
  <2>2. Len(wire) \in DOMAIN wire /\ wire[Len(wire)] \in FrameType
    BY <1>2, <2>1, EmptySeq, LenProperties
  <2>3. Here(Parsed) = [ticks |-> wire[Len(wire)].ticks, stamp |-> wire[Len(wire)].stamp]
    BY <1>2 DEF Parsed, Here, Last
  <2>4. Here(Parsed) = wire[Len(wire)]
    BY <2>2, <2>3 DEF FrameType
  <2> QED
    BY <2>2, <2>4 DEF Heard
<1> QED
  BY <1>1, <1>2

LEMMA ParsingForgetsFrames ==
  ASSUME Shape, snap' = Parsed, wire' = << >>
  PROVE  Heard' \subseteq Heard /\ Heard' = IF Parsed.new THEN {Here(Parsed)} ELSE {}
<1>1. Heard' = IF Parsed.new THEN {Here(Parsed)} ELSE {}
  BY DEF Heard, Here
<1> QED
  BY <1>1, ParsedHeard

LEMMA SendingAddsFrame ==
  ASSUME Shape, wire' = Append(wire, Now), snap' = snap
  PROVE  Heard' \subseteq Heard \cup {Now}
<1> SUFFICES ASSUME NEW x \in Heard', x \notin Heard
             PROVE  x = Now
  OBVIOUS
<1>1. PICK i \in DOMAIN wire' : x = wire'[i]
  BY DEF Heard, Here
<1>2. wire \in Seq(FrameType) /\ DOMAIN wire = 1..Len(wire) /\ Len(wire) \in Nat
  BY DEF Shape
<1>3. DOMAIN wire' = 1..(Len(wire) + 1)
  BY <1>2
<1>4. CASE i = Len(wire) + 1
  BY <1>1, <1>2, <1>4
<1>5. CASE i # Len(wire) + 1
  <2>1. i \in DOMAIN wire /\ wire'[i] = wire[i]
    BY <1>1, <1>2, <1>3, <1>5
  <2> QED
    BY <1>1, <2>1 DEF Heard
<1> QED
  BY <1>4, <1>5

LEMMA ClockSetKeepsPaced == ASSUME Paced, ClockSet PROVE Paced'
BY DEF ClockSet, board, session, Paced, Ready, Cycling, Heard, Here, Now, Possible, Reachable

LEMMA PassKeepsPaced == ASSUME Shape, Paced, Pass PROVE Paced'
<1>1. PICK turn \in [Wheel -> Step] : encoder' = [w \in Wheel |-> encoder[w] + turn[w]]
  BY DEF Pass
<1>2. /\ UNCHANGED <<wire, snap, phase, ticksInit, fresh, from, speed>> /\ clock' = clock + 1
  BY DEF Pass, session
<1>3. Heard' = Heard
  BY <1>2 DEF Heard, Here
<1>4. ASSUME NEW x \in FrameType, Reachable(x, Now)
      PROVE  Reachable(x, Now')
  <2> SUFFICES ASSUME NEW w \in Wheel
               PROVE  Magnitude(encoder'[w] - x.ticks[w]) <= Fastest * (clock' - x.stamp)
    BY DEF Reachable, Now
  <2>1. /\ encoder[w] \in Int /\ x.ticks[w] \in Int /\ turn[w] \in Int /\ clock \in Int
        /\ x.stamp \in Int /\ Fastest \in Nat /\ Magnitude(turn[w]) <= Fastest
    <3>1. turn[w] \in Step
      OBVIOUS
    <3>2. turn[w] \in Int /\ Fastest \in Nat /\ Magnitude(turn[w]) <= Fastest
      BY <3>1, OdometryAssumption
    <3>3. encoder[w] \in Int /\ clock \in Int
      BY DEF Shape, Counts
    <3>4. x.ticks[w] \in Int /\ x.stamp \in Int
      BY DEF Counts, FrameType
    <3> QED
      BY <3>2, <3>3, <3>4
  <2>2. Magnitude(encoder[w] - x.ticks[w]) <= Fastest * (clock - x.stamp)
    BY <1>4 DEF Reachable, Now
  <2>3. Magnitude(encoder[w] + turn[w] - x.ticks[w]) <= Fastest * (clock + 1 - x.stamp)
    BY <2>1, <2>2, LaterByOne
  <2>4. encoder'[w] = encoder[w] + turn[w] /\ clock' = clock + 1
    BY <1>1, <1>2
  <2>5. /\ encoder'[w] - x.ticks[w] = encoder[w] + turn[w] - x.ticks[w]
        /\ Fastest * (clock' - x.stamp) = Fastest * (clock + 1 - x.stamp)
    BY <2>1, <2>4
  <2> QED
    BY <2>3, <2>5
<1>5. \A x \in Heard \cup {from} : Reachable(x, Now) => Reachable(x, Now')
  BY <1>4, HeardFrames
<1> QED
  BY <1>2, <1>3, <1>5 DEF Paced, Ready, Cycling, Possible, Reachable

LEMMA SendKeepsPaced == ASSUME Shape, Paced, SendFrame PROVE Paced'
<1>1. /\ UNCHANGED <<clock, encoder, snap, phase, ticksInit, fresh, from, speed>>
      /\ wire' = Append(wire, Now)
  BY DEF SendFrame, board, plugin, session, Now
<1>2. Heard' \subseteq Heard \cup {Now} /\ Now' = Now
  BY <1>1, SendingAddsFrame DEF Now
<1>3. Reachable(Now, Now)
  BY HeardFrames, ReachableSelf
<1> QED
  BY <1>1, <1>2, <1>3 DEF Paced, Ready, Cycling, Possible, Reachable

LEMMA OthersKeepPaced ==
  ASSUME Shape, Real, Paced, Restart \/ Drain \/ OnConfigure \/ Connect \/ Handshake
                               \/ HandshakeFails \/ ActivateDone \/ OnCleanup
  PROVE  Paced'
<1> USE DEF board, bounds, plugin, joint, session, PortOpen, Cycling, Ready
<1>1. CASE Restart \/ OnConfigure \/ Connect \/ OnCleanup
  BY <1>1 DEF Restart, OnConfigure, Connect, OnCleanup, Paced, Possible
<1>2. CASE Drain
  <2>1. Heard' \subseteq Heard /\ (snap.new => snap'.new)
    BY <1>2, ParsingForgetsFrames, ParsedFacts DEF Drain
  <2>2. UNCHANGED <<phase, ticksInit, fresh, from, speed>> /\ Now' = Now
    BY <1>2 DEF Drain, Now
  <2> QED
    BY <2>1, <2>2 DEF Paced, Possible, Reachable
<1>3. CASE Handshake \/ HandshakeFails
  <2>1. Heard' = {} /\ fresh' = FALSE
    BY <1>3, ParsedFacts DEF Handshake, HandshakeFails, Heard, SnapType
  <2> QED
    BY <2>1 DEF Paced
<1>4. CASE ActivateDone
  <2>1. /\ UNCHANGED <<ticksInit, fresh, from, speed, snap, wire>> /\ Now' = Now
        /\ Heard' = Heard /\ phase = "activating" /\ ~ticksInit /\ ~fresh
    BY <1>4 DEF ActivateDone, Now, Heard, Here, Real
  <2> QED
    BY <2>1 DEF Paced, Possible, Reachable
<1> QED
  BY <1>1, <1>2, <1>3, <1>4

\* The speed after ReadWheels() took a frame that can follow the start of the window.
LEMMA TrackPossible ==
  ASSUME Shape, NEW f \in SnapType, Track(f), Reachable(from, Here(f)), Possible(speed)
  PROVE  Possible(speed')
<1>1. Fastest \in Nat /\ MeasWindow \in Nat \ {0} /\ WindowMax \in Nat
  BY OdometryAssumption
<1>2. SpeedKept(f) \in Counts /\ Possible(SpeedKept(f))
  <2>1. Magnitude(0) <= 10 * Fastest
    BY <1>1 DEF Magnitude
  <2>2. Zeros \in Counts /\ Possible(Zeros)
    BY <2>1 DEF Zeros, Counts, Possible
  <2>3. speed \in Counts
    BY DEF Shape
  <2> QED
    BY <2>2, <2>3 DEF SpeedKept
<1>3. CASE RestartWindow(f) \/ WindowTooShort(f)
  BY <1>2, <1>3 DEF RestartWindow, WindowTooShort
<1>4. CASE MeasureSpeed(f)
  <2>1. /\ f.stamp \in Nat /\ from.stamp \in Nat
        /\ Here(f).stamp = f.stamp /\ Here(f).ticks = f.ticks
    BY DEF Shape, SnapType, FrameType, Here
  <2>2. f.stamp - Base(f).stamp \in MeasWindow..WindowMax
    BY <1>4 DEF MeasureSpeed
  <2>3. Base(f) = from /\ f.stamp - from.stamp \in Nat \ {0}
    BY <1>1, <2>1, <2>2 DEF Base
  <2>4. speed' = Filtered(SpeedKept(f), Measured(f, from))
    BY <1>4, <2>3 DEF MeasureSpeed
  <2> SUFFICES ASSUME NEW w \in Wheel
               PROVE  Magnitude(speed'[w]) <= 10 * Fastest
    BY DEF Possible
  <2> DEFINE n == f.ticks[w] - from.ticks[w]
             x == (10 * n) \div (f.stamp - from.stamp)
             m == SpeedKept(f)[w]
  <2>5. n \in Int /\ Magnitude(n) <= Fastest * (f.stamp - from.stamp)
    <3>1. f.ticks[w] \in Int /\ from.ticks[w] \in Int
      BY DEF Shape, SnapType, FrameType, Counts
    <3>2. Magnitude(Here(f).ticks[w] - from.ticks[w]) <= Fastest * (Here(f).stamp - from.stamp)
      BY DEF Reachable
    <3> QED
      BY <2>1, <3>1, <3>2
  <2>6. Magnitude(x) <= 10 * Fastest
    BY <1>1, <2>3, <2>5, MeasuredBound
  <2>7. x \in Int
    <3>1. \A a \in Int, b \in Nat \ {0} : (10 * a) \div b \in Int
      OBVIOUS
    <3> QED
      BY <2>3, <2>5, <3>1
  <2>8. m \in Int /\ Magnitude(m) <= 10 * Fastest /\ 10 * Fastest \in Nat
    BY <1>1, <1>2 DEF Possible, Counts
  <2>9. speed'[w] = m + (2 * (x - m)) \div 5
    BY <2>4 DEF Filtered, Measured
  <2> HIDE DEF m, x
  <2> QED
    BY <2>6, <2>7, <2>8, <2>9, FilterBound
<1> QED
  BY <1>3, <1>4 DEF Track

LEMMA ReadKeepsPaced == ASSUME Shape, Quiet, Paced, Read PROVE Paced'
<1> DEFINE f == Parsed
<1>1. /\ f \in SnapType /\ snap' = f /\ phase' = phase /\ Cycling /\ Cycling' /\ Ready
      /\ Now' = Now
      /\ (snap.new => f.new) /\ (f.new => Here(f) \in Heard) /\ Here(f) \in FrameType
  BY ParsedFacts, ParsedHeard DEF Read, Cycling, Ready, Now, board, SnapType, FrameType, Here
<1>2. Heard' \subseteq Heard /\ Heard' = IF f.new THEN {Here(f)} ELSE {}
  BY ParsingForgetsFrames DEF Read
<1>3. Reachable(Here(f), Here(f))
  BY <1>1, ReachableSelf
<1>4. CASE NoFeedback(f)
  <2>1. UNCHANGED <<ticksInit, fresh, from, speed>>
    BY <1>4 DEF NoFeedback, plugin
  <2> QED
    BY <1>1, <1>2, <2>1 DEF Paced, Possible, Reachable
<1>5. CASE SeedTicks(f)
  <2>1. ~ticksInit /\ ticksInit' /\ from' = Here(f) /\ fresh' = f.new /\ speed' = speed
    BY <1>5 DEF SeedTicks
  <2>2. speed = Zeros
    BY <2>1 DEF Quiet, Tracked
  <2>3. Possible(speed)
    BY <2>2, OdometryAssumption DEF Possible, Zeros, Magnitude
  <2>4. f.new => Reachable(Here(f), Now)
    BY <1>1, <2>1 DEF Paced
  <2> QED
    BY <1>1, <1>2, <1>3, <2>1, <2>3, <2>4 DEF Paced, Possible, Reachable
<1>6. CASE Track(f)
  <2>1. ticksInit /\ ticksInit' /\ fresh' = fresh
    BY <1>6 DEF Track
  <2>2. from' = from \/ from' = Here(f)
    BY <1>6 DEF Track, RestartWindow, WindowTooShort, MeasureSpeed, Base
  <2>3. CASE fresh
    <3>1. /\ f.new /\ Possible(speed) /\ Reachable(from, Now)
          /\ Reachable(from, Here(f)) /\ Reachable(Here(f), Now)
      BY <1>1, <2>1, <2>3 DEF Paced
    <3>2. Possible(speed')
      BY <1>1, <1>6, <3>1, TrackPossible
    <3>3. Reachable(from', Now) /\ Reachable(from', Here(f))
      BY <1>3, <2>2, <3>1
    <3> QED
      BY <1>1, <1>2, <2>1, <3>1, <3>2, <3>3 DEF Paced, Possible, Reachable
  <2>4. CASE ~fresh
    BY <2>1, <2>4 DEF Paced
  <2> QED
    BY <2>3, <2>4
<1> QED
  BY <1>4, <1>5, <1>6 DEF Read

-----------------------------------------------------------------------------
(* The theorems.                                                           *)

LEMMA Invariant == Spec => []IInv
<1>1. Init => IInv
  <2>1. Init => Quiet
    BY DEF Init, Quiet, Tracked, Cycling, NoFeedbackYet
  <2> QED
    BY <2>1, InitShape DEF Init, IInv, Real, Session, Paced, Ready, Cycling
<1>2. IInv /\ [Next]_vars => IInv'
  <2> SUFFICES ASSUME IInv, [Next]_vars
               PROVE  IInv'
    OBVIOUS
  <2> USE DEF IInv
  <2>1. CASE Pass
    BY <2>1, PassKeepsShape, PassKeepsReal, PassKeepsQuiet, PassKeepsPaced
  <2>6. CASE ClockSet
    BY <2>6, ClockSetKeepsShape, ClockSetKeepsReal, ClockSetKeepsQuiet, ClockSetKeepsPaced
  <2>2. CASE SendFrame
    BY <2>2, OthersKeepShape, SendKeepsReal, OthersKeepQuiet, SendKeepsPaced
  <2>3. CASE Read
    BY <2>3, ReadKeepsShape, ReadKeepsReal, ReadKeepsQuiet, ReadKeepsPaced
  <2>4. CASE Restart \/ Drain \/ OnConfigure \/ Connect \/ Handshake \/ HandshakeFails
               \/ ActivateDone \/ OnCleanup
    BY <2>4, OthersKeepShape, OthersKeepReal, OthersKeepQuiet, OthersKeepPaced
  <2>5. CASE UNCHANGED vars
    BY <2>5 DEF vars, board, bounds, plugin, joint, session, Shape, Real, Recent, Unseeded,
                Accounted, PortOpen, Quiet, Tracked, Timely, InWindow, AtRest, Cycling,
                Paced, Heard, Now, Here, Reachable, Possible, Ready
  <2> QED
    BY <2>1, <2>2, <2>3, <2>4, <2>5, <2>6 DEF Next
<1> QED
  BY <1>1, <1>2, PTL DEF Spec

\* Every variable of the odometry keeps its type, and the plugin never counts more frames
\* than the transport (last_wheel_count_, my_diffbot_system.cpp:464).
THEOREM OdometryTypeOK == Spec => []TypeOK
<1>1. IInv => TypeOK
  <2> SUFFICES ASSUME Shape
               PROVE  TypeOK
    BY DEF IInv
  <2>1. snap.ticks \in Counts /\ from.ticks \in Counts /\ snap.new \in BOOLEAN
    BY DEF Shape, SnapType, FrameType
  <2>2. travel \in Counts
    BY DEF Shape, Counts
  <2>3. {encoder, travel, position, velocity, speed, prev} \subseteq Counts
    BY <2>2 DEF Shape
  <2>4. {stamped, ticksInit, stale, fresh, snap.new} \subseteq BOOLEAN
    BY <2>1 DEF Shape
  <2> QED
    BY <2>1, <2>3, <2>4 DEF Shape, TypeOK
<1> QED
  BY <1>1, Invariant, PTL

\* Once ReadWheels() is seeded with a frame of the session, the positions have moved by no
\* more than the wheels turned since on_activate() began (my_diffbot_system.cpp:482-485), for
\* any wheels, steps and clocks, however the frames and the restarts fell.
THEOREM OdometryMotionIsReal == Spec => []MotionIsReal
<1>1. IInv => MotionIsReal
  <2> SUFFICES ASSUME IInv, phase = "running", fresh, NEW w \in Wheel
               PROVE  Magnitude(position[w] - start[w]) <= travel[w]
    BY DEF MotionIsReal
  <2>1. snap.ticks \in Recent /\ Accounted(snap.ticks)
    BY DEF IInv, Real, Recent
  <2>2. /\ encoder[w] \in Int /\ snap.ticks[w] \in Int /\ prev[w] \in Int
        /\ position[w] \in Int /\ start[w] \in Int /\ travel[w] \in Nat
    BY DEF IInv, Shape, SnapType, Counts
  <2>3. \A n \in Int : Magnitude(n) \in Nat
    BY DEF Magnitude
  <2>4. Magnitude(position[w] - start[w]) + Magnitude(snap.ticks[w] - prev[w])
          + Magnitude(encoder[w] - snap.ticks[w]) <= travel[w]
    BY <2>1 DEF Accounted
  <2> QED
    BY <2>2, <2>3, <2>4
<1> QED
  BY <1>1, Invariant, PTL

\* A robot whose feedback stopped does not report that it moves (kWheelFeedbackTimeoutSec,
\* my_diffbot_system.cpp:464-480), for any length of the timeout, the window and the control
\* period, however the clock is set, with frames parsed by the waits for an ACK too, and after
\* a failed activation.
THEOREM OdometrySilenceMeansZero == Spec => []SilenceMeansZero
<1>1. IInv => SilenceMeansZero
  <2> SUFFICES ASSUME Shape, Timely, ticksInit, silence > LongSilence + behind
               PROVE  velocity = Zeros
    BY DEF IInv, Quiet, SilenceMeansZero
  <2>1. /\ ~(silence <= StaleAfter + Jitter + sinceRead + behind)
        /\ ~(silence <= sinceRead + Jitter)
    BY Times DEF LongSilence
  <2>2. ~(silence <= sinceRead)
    BY <2>1, Times
  <2>3. snap.count = lastCount
    BY <2>1, <2>2 DEF Timely
  <2> QED
    BY <2>1, <2>3 DEF Timely, AtRest
<1> QED
  BY <1>1, Invariant, PTL

\* The filtered speed is one the wheels can have (kMeasWindowSec,
\* my_diffbot_system.cpp:487-508), once seeded with a frame of the session: for any wheels and
\* clocks, no window spans a change of clock or a restart of the board, and neither rounding
\* nor the filter adds to it.
THEOREM OdometrySpeedIsPossible == Spec => []SpeedIsPossible
<1>1. IInv => SpeedIsPossible
  BY DEF IInv, Paced, Possible, SpeedIsPossible
<1> QED
  BY <1>1, Invariant, PTL
=============================================================================
