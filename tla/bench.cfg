SPECIFICATION Spec
CONSTANTS
  ahead = ahead
  turn = turn
  Rest = Rest
  Motion = {ahead, turn}
CHECK_DEADLOCK FALSE
INVARIANT TypeOK
INVARIANT AbortIsFinal
INVARIANT AbortEndsTest
PROPERTY JudgedAsSent
PROPERTY RobotRests
