SPECIFICATION Spec
CONSTANTS
  none = none
  rest = rest
  drive = drive
  Payload <- MCPayload
  Boot <- MCBoot
  MaxSent = 2
  MaxQueue = 2
INVARIANT AckAnswersThisCommand
