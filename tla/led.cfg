SPECIFICATION Spec
CONSTANTS
  nan = nan
  NaN = nan
  Setting <- MCSetting
  ColorMax = 3
  ColorSpan = 2
  Wrap = 12
  Period = 1
  WaitTime = 1
  StartWait = 1
  Refresh = 3
  Latency = 1
  MaxBurst = 1
  MaxFaults = 1
INVARIANT TypeOK
INVARIANT ChangesShow
INVARIANT LossHeals
