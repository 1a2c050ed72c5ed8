SPECIFICATION Spec
CONSTANTS
  none = none
  rest = rest
  drive = drive
  Payload <- MCPayload
  Boot <- MCBoot
  MaxSent = 3
  MaxQueue = 2
INVARIANT TypeOK
INVARIANT AckOrder
INVARIANT OnlyThisCall
INVARIANT PunctualAck
PROPERTY AckCreditedOnce
