SPECIFICATION Spec
CONSTANTS
  Period = 1
  WaitTime = 1
  StartWait = 5
  Stale = 2
  DiagEvery = 4
  Steps <- MCSteps
  MaxStep = 2
  MaxRx = 1
INVARIANT TypeOK
INVARIANT SilenceIsTold
PROPERTY AliveIsTrue
PROPERTY StaleIsTrue
