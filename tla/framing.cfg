SPECIFICATION Spec
CONSTANTS
  Byte <- MCByte
  Value <- MCValue
  Plain <- MCPlain
  CrcLow <- MCCrcLow
  CrcHigh <- MCCrcHigh
  Origin <- MCOrigin
  Start = 2
  MaxLen = 2
  Chunk = 3
  Cap = 9
  Message <- MCMessage
  MaxSent = 3
  MaxDamage = 2
INVARIANT NoOverflow
INVARIANT BacklogBounded
INVARIANT WholeFramesKept
INVARIANT DeliveredInOrder
\* The run ends when all messages were sent and parsed.
CHECK_DEADLOCK FALSE
