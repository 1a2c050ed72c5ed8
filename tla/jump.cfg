SPECIFICATION Spec
CONSTANTS
  Wheel = {left}
  Step <- TurnsBack
  Fastest = 1
  MeasWindow = 1
  StaleAfter = 1
  WindowMax = 2
  Jitter = 1
  Anchor = {3}
  ClockSteps <- SetBack
  MaxStep = 1
  MaxTime = 5
  MaxFrames = 3
  MaxEvents = 8
  MaxStarts = 2
INVARIANT NoOdometryJump
\* The odometry stops at the bounds.
CHECK_DEADLOCK FALSE
