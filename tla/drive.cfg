SPECIFICATION Spec
CONSTANTS
  left = left
  right = right
  Wheel = {left, right}
  Command <- MCCommand
  Scale = 2
  Period = 1
  AckWait = 1
  StartWait = 1
  Grace = 8
  Timeout = {2, 8}
  MaxTimeout = 8
  Latency = 1
  MaxBurst = 1
  MaxFaults = 1
INVARIANT TypeOK
INVARIANT Follows
PROPERTY KeepsPromise
