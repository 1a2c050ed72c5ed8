----------------------------- MODULE RxFraming -----------------------------
(***************************************************************************)
(* The byte stream from the board: frames are built (BuildFrame), damaged  *)
(* on the line, read in batches and fed to the parser in chunks            *)
(* (SerialTransport::Read), and extracted one by one from the RX buffer    *)
(* (ExtractFrames, ExtractFrame).  One step is one pass of a loop.         *)
(*                                                                         *)
(* A frame is <<start byte, id, length, payload..., CRC low, CRC high>>.    *)
(* The CRC is ideal: only the values it was computed from match it.  Its   *)
(* bytes have values like any other, so they can look like a start byte or *)
(* a length.                                                               *)
(***************************************************************************)
EXTENDS Integers, Sequences, SequencesExt, FiniteSetsExt

CONSTANTS
  Byte,
  Value(_),    \* the value of a byte
  Plain(_),    \* the byte with this value, outside a CRC
  CrcLow(_),   \* the bytes of the CRC of a sequence of bytes
  CrcHigh(_),
  Origin(_),   \* the values that a byte of a CRC was computed from, << >> of any other byte
  Start,       \* 0xAA
  MaxLen,      \* the largest value of a byte, and so of the length of a payload
  Chunk,       \* kChunkBytes
  Cap,         \* kMaxRxBufferBytes
  Message,     \* [id, payload]; each is sent at most once, to tell them apart
  MaxSent,     \* bound: messages sent
  MaxDamage    \* bound: frames damaged on the line

ASSUME FramingAssumption ==
  /\ MaxLen \in Nat /\ Start \in 0..MaxLen
  /\ \A b \in Byte : Value(b) \in 0..MaxLen
  /\ Chunk \in Nat \ {0} /\ Cap \in Nat
  /\ 4 + MaxLen + Chunk <= Cap
  /\ MaxSent \in Nat /\ MaxDamage \in Nat

VARIABLES
  line,        \* bytes that arrive, and were not read yet
  raw,         \* what is left of the batch that Read() took from the port
  buf,         \* rx_buffer_
  extracting,  \* ExtractFrames() is looping
  sent,        \* history: the messages sent, and whether their frame is whole
  got          \* the messages handed to OnMessageReceived()

vars == <<line, raw, buf, extracting, sent, got>>

Init ==
  /\ line = << >>
  /\ raw = << >>
  /\ buf = << >>
  /\ extracting = FALSE
  /\ sent = << >>
  /\ got = << >>

-----------------------------------------------------------------------------
(* The sender and the line.                                                *)

Body(m) == <<Plain(Start), Plain(m.id), Plain(Len(m.payload))>> \o
           [i \in DOMAIN m.payload |-> Plain(m.payload[i])]
Frame(m) == Body(m) \o <<CrcLow(Body(m)), CrcHigh(Body(m))>>

\* A byte of the frame takes another value, or a run of its bytes is lost (the port was
\* opened in the middle of it, a driver dropped them).
Altered(f) ==
  {[f EXCEPT ![c[1]] = Plain(c[2])] :
     c \in {d \in (DOMAIN f) \X (0..MaxLen) : Value(f[d[1]]) # d[2]}}
Shortened(f) ==
  {SubSeq(f, 1, c[1] - 1) \o SubSeq(f, c[2] + 1, Len(f)) :
     c \in {d \in (DOMAIN f) \X (DOMAIN f) : d[1] <= d[2]}}

Values(s) == [i \in DOMAIN s |-> Value(s[i])]
Holds(s, t) == \E k \in 1..(Len(s) - Len(t) + 1) : SubSeq(s, k, k + Len(t) - 1) = t

ASSUME FramesAreBytes ==
  /\ \A v \in 0..MaxLen : Plain(v) \in Byte
  /\ \A m \in Message : Frame(m) \in Seq(Byte)
  /\ Message \subseteq [id : 0..MaxLen, payload : Seq(0..MaxLen)]
  /\ \A m \in Message : Len(m.payload) <= MaxLen

\* No CRC matches by chance: not that of other bytes, not a byte outside a CRC, and none
\* inside a payload, which therefore holds no frame.
ASSUME CrcIsIdeal ==
  /\ \A v \in 0..MaxLen : Value(Plain(v)) = v /\ Origin(Plain(v)) = << >>
  /\ \A n \in 0..MaxLen : \A b \in [1..(3 + n) -> Byte] :
       Origin(CrcLow(b)) = Values(b) /\ Origin(CrcHigh(b)) = Values(b)
  /\ \A b \in Byte : Origin(b) = << >> \/ \E m \in Message : Origin(b) = Values(Body(m))
  /\ \A m, n \in Message : ~Holds(Values(Body(n)), Values(Frame(m)))

Lost == Cardinality({i \in DOMAIN sent : ~sent[i].whole})

Send(m) ==
  /\ Len(sent) < MaxSent
  /\ \A i \in DOMAIN sent : sent[i].msg # m
  /\ \/ /\ line' = line \o Frame(m)
        /\ sent' = Append(sent, [msg |-> m, whole |-> TRUE])
     \/ /\ Lost < MaxDamage
        /\ \E f \in Altered(Frame(m)) \cup Shortened(Frame(m)) : line' = line \o f
        /\ sent' = Append(sent, [msg |-> m, whole |-> FALSE])
  /\ UNCHANGED <<raw, buf, extracting, got>>

-----------------------------------------------------------------------------
(* Read()                                                                  *)

\* n bytes are available, and are taken from the port.
TakeBatch(n) ==
  /\ ~extracting /\ raw = << >>
  /\ raw' = SubSeq(line, 1, n)
  /\ line' = SubSeq(line, n + 1, Len(line))
  /\ UNCHANGED <<buf, extracting, sent, got>>

\* Mutant of FeedChunk: the whole batch is fed in one go.
FeedBatch ==
  /\ ~extracting /\ raw # << >>
  /\ buf' = buf \o raw
  /\ raw' = << >>
  /\ extracting' = TRUE
  /\ UNCHANGED <<line, sent, got>>

\* The next chunk is appended to the buffer, and ExtractFrames() is called.
FeedChunk ==
  /\ ~extracting /\ raw # << >>
  /\ LET n == IF Len(raw) < Chunk THEN Len(raw) ELSE Chunk IN
       /\ buf' = buf \o SubSeq(raw, 1, n)
       /\ raw' = SubSeq(raw, n + 1, Len(raw))
  /\ extracting' = TRUE
  /\ UNCHANGED <<line, sent, got>>

-----------------------------------------------------------------------------
(* ExtractFrame()                                                          *)

\* The buffer from its first start byte on.
Scanned ==
  LET starts == {i \in DOMAIN buf : Value(buf[i]) = Start} IN
  IF starts = {} THEN << >> ELSE SubSeq(buf, Min(starts), Len(buf))

PayloadLen(s) == Value(s[3])
FrameSize(s) == 5 + PayloadLen(s)
Complete(s) == Len(s) >= 3 /\ Len(s) >= FrameSize(s)

CrcMatches(s) ==
  LET n == PayloadLen(s)
      body == SubSeq(s, 1, 3 + n)
  IN s[4 + n] = CrcLow(body) /\ s[5 + n] = CrcHigh(body)

Fits == Len(buf) <= Cap

\* OVERFLOW, which clears the buffer, or NO_START_BYTE or INCOMPLETE, which leave what is
\* scanned to wait for more bytes: ExtractFrames() returns.
AwaitBytes ==
  /\ extracting
  /\ Fits => ~Complete(Scanned)
  /\ buf' = IF Fits THEN Scanned ELSE << >>
  /\ extracting' = FALSE
  /\ UNCHANGED <<line, raw, sent, got>>

\* Mutant of CrcMismatch: the frame that does not match is discarded as a whole.
DiscardFrame ==
  /\ extracting /\ Fits
  /\ Complete(Scanned) /\ ~CrcMatches(Scanned)
  /\ buf' = SubSeq(Scanned, FrameSize(Scanned) + 1, Len(Scanned))
  /\ UNCHANGED <<line, raw, extracting, sent, got>>

\* Mutant of CrcMismatch: the loop ends, instead of scanning again.
MismatchStops ==
  /\ extracting /\ Fits
  /\ Complete(Scanned) /\ ~CrcMatches(Scanned)
  /\ buf' = Tail(Scanned)
  /\ extracting' = FALSE
  /\ UNCHANGED <<line, raw, sent, got>>

\* CRC_MISMATCH: the start byte is discarded, and the rest is scanned again.
CrcMismatch ==
  /\ extracting /\ Fits
  /\ Complete(Scanned) /\ ~CrcMatches(Scanned)
  /\ buf' = Tail(Scanned)
  /\ UNCHANGED <<line, raw, extracting, sent, got>>

Extracted(s) ==
  [id |-> Value(s[2]), payload |-> [i \in 1..PayloadLen(s) |-> Value(s[3 + i])]]

\* Mutant of Deliver: the frame stays in the buffer.
DeliverAndKeep ==
  /\ extracting /\ Fits
  /\ Complete(Scanned) /\ CrcMatches(Scanned)
  /\ got' = Append(got, Extracted(Scanned))
  /\ UNCHANGED <<line, raw, buf, extracting, sent>>

\* OK: the frame is handed to OnMessageReceived() and removed, and the loop goes on.
Deliver ==
  /\ extracting /\ Fits
  /\ Complete(Scanned) /\ CrcMatches(Scanned)
  /\ got' = Append(got, Extracted(Scanned))
  /\ buf' = SubSeq(Scanned, FrameSize(Scanned) + 1, Len(Scanned))
  /\ UNCHANGED <<line, raw, extracting, sent>>

-----------------------------------------------------------------------------
Next ==
  \/ \E m \in Message : Send(m)
  \/ \E n \in 1..Len(line) : TakeBatch(n)
  \/ FeedChunk
  \/ AwaitBytes \/ CrcMismatch \/ Deliver

Spec == Init /\ [][Next]_vars

-----------------------------------------------------------------------------
(* Properties                                                              *)

TypeOK ==
  /\ line \in Seq(Byte) /\ raw \in Seq(Byte) /\ buf \in Seq(Byte)
  /\ extracting \in BOOLEAN

\* The overflow guard (binary_protocol.cpp:70-73) is never reached, however large the
\* backlog: no frame, and no ACK in it, is thrown away with the buffer.
NoOverflow == extracting => Fits

\* Between two chunks the buffer holds less than one frame of the largest size: what a
\* false start byte or a damaged length can hold up is bounded.
BacklogBounded == ~extracting => Len(buf) < 5 + MaxLen

\* The bytes that are still to be parsed.
Ahead == buf \o raw \o line

\* Every message whose frame arrives whole is handed on, or all of its bytes are still to
\* be parsed: no damage to another frame makes the parser skip it.
WholeFramesKept ==
  \A i \in DOMAIN sent : sent[i].whole =>
    Contains(got, sent[i].msg) \/ Holds(Ahead, Frame(sent[i].msg))

\* What is handed on was sent, in that order and once: damage and rescanning never make up,
\* repeat or swap a message.
DeliveredInOrder ==
  \E at \in [DOMAIN got -> DOMAIN sent] :
    /\ \A i \in DOMAIN got : sent[at[i]].msg = got[i]
    /\ \A i, j \in DOMAIN got : i < j => at[i] < at[j]
=============================================================================
