SPECIFICATION Spec
CONSTANTS
  none = none
  kp = kp
  zero = zero
  one = one
  nan = nan
  unnamed = unnamed
  Gain <- OneGain
  GainCmd <- AnyCmd
  TimeoutCmd <- FiniteCmd
  Clamp <- MCClamp
  NaN = nan
  Zero = zero
  Unnamed = unnamed
  UrdfGains <- MCUrdf
  UrdfTimeout = zero
  MaxAttempts = 2
  MaxStarts = 2
  Messages <- TwoMessages
  MaxEdits = 1
  Payload <- MCPayload
  Boot <- MCBoot
  MaxSent = 6
  MaxQueue = 1
INVARIANT TypeOK
INVARIANT OneRetunePerMessage
INVARIANT NoPhantomRetune
INVARIANT TrackersMatchBoard
INVARIANT AnsweredNow
PROPERTY ActiveNeverFinalized
\* The plugin stops at the bounds.
CHECK_DEADLOCK FALSE
