SPECIFICATION Spec
CONSTANTS
  none = none
  kp = kp
  zero = zero
  one = one
  nan = nan
  unnamed = unnamed
  Gain <- OneGain
  GainCmd <- AnyCmd
  TimeoutCmd <- FiniteCmd
  Clamp <- MCClamp
  NaN = nan
  Zero = zero
  Unnamed = unnamed
  UrdfGains <- MCUrdf
  UrdfTimeout = zero
  MaxAttempts = 1
  MaxStarts = 2
  Messages <- TwoMessages
  MaxEdits = 1
  Payload <- MCPayload
  Boot <- MCBoot
  MaxSent = 12
  MaxQueue = 1
INVARIANT NoStaleRetune
CHECK_DEADLOCK FALSE
