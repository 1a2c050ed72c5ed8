SPECIFICATION FairSpec
CONSTANTS
  none = none
  kp = kp
  zero = zero
  one = one
  nan = nan
  unnamed = unnamed
  Gain <- OneGain
  GainCmd <- AnyCmd
  TimeoutCmd <- FiniteCmd
  Clamp <- MCClamp
  NaN = nan
  Zero = zero
  Unnamed = unnamed
  UrdfGains <- MCUrdf
  UrdfTimeout = zero
  MaxAttempts = 1
  MaxStarts = 1
  Messages <- GainMessages
  MaxEdits = 1
  Payload <- MCPayload
  Boot <- MCBoot
  MaxSent = 4
  MaxQueue = 1
PROPERTY GpioCanResend
CHECK_DEADLOCK FALSE
