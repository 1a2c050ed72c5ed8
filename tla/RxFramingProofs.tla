-------------------------- MODULE RxFramingProofs --------------------------
(* Proofs about RxFraming, for every size of the chunks and of the buffer that leaves room *)
(* for one largest frame and one chunk: the parser's buffer stays below its limit; and, as *)
(* far as no CRC matches by chance, whole frames are handed on whatever happens to others, *)
(* and what is handed on was sent, once and in order.                                      *)
EXTENDS RxFraming, SequenceTheorems, WellFoundedInduction, TLAPS

\* A set of numbers that is not empty has a least element.
LEMMA LeastOf ==
  ASSUME NEW S, S \subseteq Nat, S # {}
  PROVE  Min(S) \in S /\ \A y \in S : Min(S) <= y
<1>1. PICK x \in S : \A y \in S : <<y, x>> \notin OpToRel(<, Nat)
  BY NatLessThanWellFounded, WFMin
<1>2. \A y \in S : x <= y
  <2> SUFFICES ASSUME NEW y \in S
               PROVE  x <= y
    OBVIOUS
  <2>1. x \in Nat /\ y \in Nat
    OBVIOUS
  <2>2. ~(y < x)
    <3> SUFFICES ASSUME y < x
                 PROVE  <<y, x>> \in OpToRel(<, Nat)
      BY <1>1
    <3> QED
      BY <2>1 DEF OpToRel
  <2> QED
    BY <2>1, <2>2
<1> QED
  BY <1>2 DEF Min

\* The damage of the line leaves a sequence of bytes.
LEMMA DamageOfBytes ==
  ASSUME NEW f \in Seq(Byte), NEW g \in Altered(f) \cup Shortened(f)
  PROVE  g \in Seq(Byte)
<1>1. CASE g \in Altered(f)
  BY <1>1, FramesAreBytes, ExceptSeq DEF Altered
<1>2. CASE g \in Shortened(f)
  <2>1. \E i \in DOMAIN f, j \in DOMAIN f :
          g = SubSeq(f, 1, i - 1) \o SubSeq(f, j + 1, Len(f))
    <3>1. PICK c \in (DOMAIN f) \X (DOMAIN f) :
            g = SubSeq(f, 1, c[1] - 1) \o SubSeq(f, c[2] + 1, Len(f))
      BY <1>2 DEF Shortened
    <3>2. c[1] \in DOMAIN f /\ c[2] \in DOMAIN f
      OBVIOUS
    <3> QED
      BY <3>1, <3>2
  <2> PICK i \in DOMAIN f, j \in DOMAIN f :
        g = SubSeq(f, 1, i - 1) \o SubSeq(f, j + 1, Len(f))
    BY <2>1
  <2>2. SubSeq(f, 1, i - 1) \in Seq(Byte)
    <3>1. \A k \in 1..(i - 1) : f[k] \in Byte
      BY ElementOfSeq
    <3> QED
      BY <3>1, SubSeqProperties
  <2>3. SubSeq(f, j + 1, Len(f)) \in Seq(Byte)
    <3>1. \A k \in (j + 1)..Len(f) : f[k] \in Byte
      BY ElementOfSeq
    <3> QED
      BY <3>1, SubSeqProperties
  <2> QED
    BY <2>1, <2>2, <2>3, ConcatProperties
<1> QED
  BY <1>1, <1>2

\* Scanning for the start byte only removes bytes.
LEMMA ScanRemoves ==
  ASSUME buf \in Seq(Byte)
  PROVE  Scanned \in Seq(Byte) /\ Len(Scanned) <= Len(buf)
<1> DEFINE starts == {i \in DOMAIN buf : Value(buf[i]) = Start}
<1>1. CASE starts = {}
  BY <1>1 DEF Scanned
<1>2. CASE starts # {}
  <2>1. Min(starts) \in 1..Len(buf)
    <3>1. DOMAIN buf = 1..Len(buf)
      OBVIOUS
    <3>2. starts \subseteq Nat
      BY <3>1
    <3>3. Min(starts) \in starts
      BY <1>2, <3>2, LeastOf
    <3> QED
      BY <3>1, <3>3
  <2>2. Scanned = SubSeq(buf, Min(starts), Len(buf))
    BY <1>2 DEF Scanned
  <2> HIDE DEF starts
  <2>3. \A i \in Min(starts)..Len(buf) : buf[i] \in Byte
    BY <2>1, ElementOfSeq
  <2>4. /\ Scanned \in Seq(Byte)
        /\ Len(Scanned) = Len(buf) - Min(starts) + 1
    BY <2>1, <2>2, <2>3, SubSeqProperties
  <2> QED
    BY <2>1, <2>4
<1> QED
  BY <1>1, <1>2

\* What Deliver and CrcMismatch leave of a complete frame is shorter than the buffer was.
LEMMA ExtractionRemoves ==
  ASSUME buf \in Seq(Byte), Complete(Scanned)
  PROVE  /\ SubSeq(Scanned, FrameSize(Scanned) + 1, Len(Scanned)) \in Seq(Byte)
         /\ Len(SubSeq(Scanned, FrameSize(Scanned) + 1, Len(Scanned))) < Len(buf)
         /\ Tail(Scanned) \in Seq(Byte)
         /\ Len(Tail(Scanned)) < Len(buf)
<1>1. Scanned \in Seq(Byte) /\ Len(Scanned) <= Len(buf) /\ Len(Scanned) \in Nat
  BY ScanRemoves
<1>2. Len(Scanned) >= 3
  BY DEF Complete
<1>3. FrameSize(Scanned) \in Nat /\ FrameSize(Scanned) >= 5
  <2>1. Scanned[3] \in Byte
    BY <1>1, <1>2, ElementOfSeq
  <2> QED
    BY <2>1, FramingAssumption DEF FrameSize, PayloadLen
<1>4. FrameSize(Scanned) <= Len(Scanned)
  BY <1>1, <1>3 DEF Complete
<1>5. \A i \in (FrameSize(Scanned) + 1)..Len(Scanned) : Scanned[i] \in Byte
  BY <1>1, <1>3, ElementOfSeq
<1>6. /\ SubSeq(Scanned, FrameSize(Scanned) + 1, Len(Scanned)) \in Seq(Byte)
      /\ Len(SubSeq(Scanned, FrameSize(Scanned) + 1, Len(Scanned))) < Len(buf)
  <2> DEFINE n == FrameSize(Scanned)
             s == Scanned
  <2>1. /\ SubSeq(s, n + 1, Len(s)) \in Seq(Byte)
        /\ Len(SubSeq(s, n + 1, Len(s))) = IF n + 1 <= Len(s) THEN Len(s) - (n + 1) + 1 ELSE 0
    <3>1. n + 1 \in Int /\ Len(s) \in Int
      BY <1>1, <1>3
    <3> HIDE DEF n, s
    <3> QED
      BY <1>5, <3>1, SubSeqProperties DEF n, s
  <2> QED
    BY <2>1, <1>1, <1>3, <1>4, <1>2
<1>7. Tail(Scanned) \in Seq(Byte) /\ Len(Tail(Scanned)) = Len(Scanned) - 1
  <2>1. Scanned # << >>
    BY <1>1, <1>2
  <2> QED
    BY <1>1, <2>1, HeadTailProperties
<1> QED
  BY <1>1, <1>2, <1>6, <1>7

\* Bytes that wait for more are less than one frame of the largest size.
LEMMA IncompleteIsShort ==
  ASSUME buf \in Seq(Byte), ~Complete(Scanned)
  PROVE  Len(Scanned) < 5 + MaxLen
<1>1. Scanned \in Seq(Byte) /\ Len(Scanned) \in Nat
  BY ScanRemoves
<1>2. CASE Len(Scanned) < 3
  BY <1>1, <1>2, FramingAssumption
<1>3. CASE Len(Scanned) >= 3
  <2>1. Scanned[3] \in Byte
    BY <1>1, <1>3, ElementOfSeq
  <2>2. Value(Scanned[3]) \in 0..MaxLen
    BY <2>1, FramingAssumption
  <2>3. Len(Scanned) < 5 + Value(Scanned[3])
    BY <1>1, <1>3, <2>2 DEF Complete, FrameSize, PayloadLen
  <2> QED
    BY <1>1, <2>2, <2>3, FramingAssumption
<1> QED
  BY <1>1, <1>2, <1>3

-----------------------------------------------------------------------------
(* The invariant: outside the loop less than one largest frame waits, and inside it at     *)
(* most one chunk was added to that.                                                       *)
Inv == TypeOK /\ NoOverflow /\ BacklogBounded

LEMMA SendKeeps ==
  ASSUME Inv, NEW m \in Message, Send(m)
  PROVE  Inv'
<1>1. line' \in Seq(Byte)
  <2>1. line \in Seq(Byte) /\ Frame(m) \in Seq(Byte)
    BY FramesAreBytes DEF Inv, TypeOK
  <2>2. CASE line' = line \o Frame(m)
    BY <2>1, <2>2, ConcatProperties
  <2>3. CASE \E f \in Altered(Frame(m)) \cup Shortened(Frame(m)) : line' = line \o f
    <3>1. PICK f \in Altered(Frame(m)) \cup Shortened(Frame(m)) : line' = line \o f
      BY <2>3
    <3>2. f \in Seq(Byte)
      BY <2>1, <3>1, DamageOfBytes
    <3> QED
      BY <2>1, <3>1, <3>2, ConcatProperties
  <2> QED
    BY <2>2, <2>3 DEF Send
<1>2. UNCHANGED <<raw, buf, extracting>>
  BY DEF Send
<1> QED
  BY <1>1, <1>2 DEF Inv, TypeOK, NoOverflow, BacklogBounded, Fits

LEMMA TakeBatchKeeps ==
  ASSUME Inv, NEW n \in 1..Len(line), TakeBatch(n)
  PROVE  Inv'
<1>1. line \in Seq(Byte) /\ Len(line) \in Nat
  BY DEF Inv, TypeOK
<1>2. raw' \in Seq(Byte)
  <2>1. \A i \in 1..n : line[i] \in Byte
    BY <1>1, ElementOfSeq
  <2> QED
    BY <2>1, SubSeqProperties DEF TakeBatch
<1>3. line' \in Seq(Byte)
  <2>1. \A i \in (n + 1)..Len(line) : line[i] \in Byte
    BY <1>1, ElementOfSeq
  <2> QED
    BY <1>1, <2>1, SubSeqProperties DEF TakeBatch
<1> QED
  BY <1>2, <1>3 DEF Inv, TypeOK, NoOverflow, BacklogBounded, Fits, TakeBatch

\* The step that the limit is about: one chunk on top of an incomplete frame.
LEMMA FeedChunkKeeps ==
  ASSUME Inv, FeedChunk
  PROVE  Inv'
<1> DEFINE n == IF Len(raw) < Chunk THEN Len(raw) ELSE Chunk
<1>1. /\ raw \in Seq(Byte) /\ Len(raw) \in Nat
      /\ buf \in Seq(Byte) /\ Len(buf) \in Nat /\ line \in Seq(Byte)
  BY DEF Inv, TypeOK
<1>2. n \in 0..Len(raw) /\ n <= Chunk
  BY <1>1, FramingAssumption
<1>3. /\ buf' = buf \o SubSeq(raw, 1, n) /\ raw' = SubSeq(raw, n + 1, Len(raw))
      /\ extracting' = TRUE /\ line' = line
  BY DEF FeedChunk
<1> HIDE DEF n
<1>4. SubSeq(raw, 1, n) \in Seq(Byte) /\ Len(SubSeq(raw, 1, n)) = n
  <2>1. \A i \in 1..n : raw[i] \in Byte
    BY <1>1, <1>2, ElementOfSeq
  <2> QED
    BY <1>2, <2>1, SubSeqProperties
<1>5. raw' \in Seq(Byte)
  <2>1. \A i \in (n + 1)..Len(raw) : raw[i] \in Byte
    BY <1>1, <1>2, ElementOfSeq
  <2> QED
    BY <1>1, <1>2, <1>3, <2>1, SubSeqProperties
<1>6. buf' \in Seq(Byte) /\ Len(buf') = Len(buf) + n
  BY <1>1, <1>3, <1>4, ConcatProperties
<1>7. Len(buf) < 5 + MaxLen
  BY DEF Inv, BacklogBounded, FeedChunk
<1>8. Len(buf') <= Cap
  BY <1>1, <1>2, <1>6, <1>7, FramingAssumption
<1> QED
  BY <1>1, <1>3, <1>5, <1>6, <1>8 DEF Inv, TypeOK, NoOverflow, BacklogBounded, Fits

LEMMA AwaitBytesKeeps ==
  ASSUME Inv, AwaitBytes
  PROVE  Inv'
<1>1. Fits
  BY DEF Inv, NoOverflow, AwaitBytes
<1>2. buf' = Scanned /\ ~Complete(Scanned) /\ extracting' = FALSE /\ UNCHANGED <<line, raw>>
  BY <1>1 DEF AwaitBytes
<1>3. buf \in Seq(Byte)
  BY DEF Inv, TypeOK
<1>4. buf' \in Seq(Byte) /\ Len(buf') < 5 + MaxLen
  BY <1>2, <1>3, ScanRemoves, IncompleteIsShort
<1> QED
  BY <1>2, <1>4 DEF Inv, TypeOK, NoOverflow, BacklogBounded

LEMMA ExtractionKeeps ==
  ASSUME Inv, CrcMismatch \/ Deliver
  PROVE  Inv'
<1>1. extracting /\ Fits /\ Complete(Scanned) /\ UNCHANGED <<line, raw, extracting>>
  BY DEF CrcMismatch, Deliver
<1>2. buf \in Seq(Byte) /\ Len(buf) \in Nat
  BY DEF Inv, TypeOK
<1>3. buf' \in Seq(Byte) /\ Len(buf') < Len(buf)
  BY <1>1, <1>2, ExtractionRemoves DEF CrcMismatch, Deliver
<1>4. Len(buf') <= Cap
  BY <1>1, <1>2, <1>3, FramingAssumption DEF Fits
<1> QED
  BY <1>1, <1>3, <1>4 DEF Inv, TypeOK, NoOverflow, BacklogBounded, Fits

LEMMA FramingInvariant == Spec => []Inv
<1>1. Init => Inv
  <2> SUFFICES ASSUME Init
               PROVE  Inv
    OBVIOUS
  <2>1. TypeOK
    <3>1. << >> \in Seq(Byte)
      OBVIOUS
    <3>2. line \in Seq(Byte)
      BY <3>1 DEF Init
    <3>3. raw \in Seq(Byte)
      BY <3>1 DEF Init
    <3>4. buf \in Seq(Byte)
      BY <3>1 DEF Init
    <3> QED
      BY <3>2, <3>3, <3>4 DEF Init, TypeOK
  <2>2. ~extracting /\ Len(buf) = 0
    BY DEF Init
  <2> QED
    BY <2>1, <2>2, FramingAssumption DEF Inv, NoOverflow, BacklogBounded
<1>2. Inv /\ [Next]_vars => Inv'
  <2> SUFFICES ASSUME Inv, [Next]_vars
               PROVE  Inv'
    OBVIOUS
  <2>1. CASE \E m \in Message : Send(m)
    BY <2>1, SendKeeps
  <2>2. CASE \E n \in 1..Len(line) : TakeBatch(n)
    BY <2>2, TakeBatchKeeps
  <2>3. CASE FeedChunk
    BY <2>3, FeedChunkKeeps
  <2>4. CASE AwaitBytes
    BY <2>4, AwaitBytesKeeps
  <2>5. CASE CrcMismatch \/ Deliver
    BY <2>5, ExtractionKeeps
  <2>6. CASE UNCHANGED vars
    BY <2>6 DEF vars, Inv, TypeOK, NoOverflow, BacklogBounded, Fits
  <2> QED
    BY <2>1, <2>2, <2>3, <2>4, <2>5, <2>6 DEF Next
<1> QED
  BY <1>1, <1>2, PTL DEF Spec

\* Everything in the buffers of the parser is a byte, whatever the line did to the frames
\* (SerialTransport::Read, ExtractFrames).
THEOREM FramingTypeOK == Spec => []TypeOK
<1>1. Inv => TypeOK
  BY DEF Inv
<1> QED
  BY <1>1, FramingInvariant, PTL

\* However large the backlog, ExtractFrame() never sees a buffer above kMaxRxBufferBytes, if
\* that leaves room for one chunk and one largest frame but for its last byte: the guard
\* that clears the buffer is not reached (binary_protocol.cpp:70-73).
THEOREM FramingNoOverflow == Spec => []NoOverflow
<1>1. Inv => NoOverflow
  BY DEF Inv
<1> QED
  BY <1>1, FramingInvariant, PTL

\* When ExtractFrames() returns, less than one largest frame waits for more bytes.
THEOREM FramingBacklogBounded == Spec => []BacklogBounded
<1>1. Inv => BacklogBounded
  BY DEF Inv
<1> QED
  BY <1>1, FramingInvariant, PTL

-----------------------------------------------------------------------------
(* What a frame is made of.                                                *)

Image(m) == Values(Body(m))

LEMMA Constants ==
  /\ MaxLen \in Nat /\ Start \in 0..MaxLen
  /\ \A b \in Byte : Value(b) \in 0..MaxLen
  /\ \A v \in 0..MaxLen : Plain(v) \in Byte
BY FramingAssumption, FramesAreBytes

LEMMA MessageTypes ==
  ASSUME NEW m \in Message
  PROVE  /\ m = [id |-> m.id, payload |-> m.payload] /\ m.id \in 0..MaxLen
         /\ m.payload \in Seq(0..MaxLen) /\ Len(m.payload) \in 0..MaxLen
         /\ \A i \in 1..Len(m.payload) : m.payload[i] \in 0..MaxLen
<1>1. m \in [id : 0..MaxLen, payload : Seq(0..MaxLen)] /\ Len(m.payload) <= MaxLen
  BY FramesAreBytes
<1>2. m.payload \in Seq(0..MaxLen) /\ Len(m.payload) \in Nat
  BY <1>1
<1>3. \A i \in 1..Len(m.payload) : m.payload[i] \in 0..MaxLen
  BY <1>2, ElementOfSeq
<1> QED
  BY <1>1, <1>2, <1>3, Constants

\* u is s followed by t.
IsJoint(u, s, t) ==
  /\ Len(u) = Len(s) + Len(t)
  /\ \A i \in 1..Len(s) : u[i] = s[i]
  /\ \A i \in 1..Len(t) : u[Len(s) + i] = t[i]

LEMMA Joined ==
  ASSUME NEW S, NEW s \in Seq(S), NEW t \in Seq(S)
  PROVE  s \o t \in Seq(S) /\ IsJoint(s \o t, s, t)
BY DEF IsJoint

LEMMA BodyBytes ==
  ASSUME NEW m \in Message
  PROVE  /\ Body(m) \in Seq(Byte) /\ Len(Body(m)) = 3 + Len(m.payload)
         /\ Body(m)[1] = Plain(Start) /\ Body(m)[2] = Plain(m.id)
         /\ Body(m)[3] = Plain(Len(m.payload))
         /\ \A i \in 1..Len(m.payload) : Body(m)[3 + i] = Plain(m.payload[i])
<1> DEFINE head == <<Plain(Start), Plain(m.id), Plain(Len(m.payload))>>
           rest == [i \in DOMAIN m.payload |-> Plain(m.payload[i])]
           n == Len(m.payload)
<1>1. n \in Nat /\ DOMAIN m.payload = 1..n
  BY MessageTypes
<1>2. head \in Seq(Byte) /\ Len(head) = 3
  BY MessageTypes, Constants
<1>3. \A i \in 1..n : Plain(m.payload[i]) \in Byte
  BY MessageTypes, Constants
<1>4. rest \in [1..n -> Byte] /\ \A i \in 1..n : rest[i] = Plain(m.payload[i])
  BY <1>1, <1>3
<1>5. rest \in Seq(Byte) /\ Len(rest) = n
  BY <1>1, <1>4
<1>6. Body(m) = head \o rest
  BY DEF Body
<1>7. head[1] = Plain(Start) /\ head[2] = Plain(m.id) /\ head[3] = Plain(n)
  OBVIOUS
<1> HIDE DEF head, rest, n
<1>8. /\ Body(m) \in Seq(Byte) /\ Len(Body(m)) = 3 + n
      /\ \A i \in 1..3 : Body(m)[i] = head[i]
      /\ \A i \in 1..n : Body(m)[3 + i] = rest[i]
  <2>1. Body(m) \in Seq(Byte) /\ IsJoint(Body(m), head, rest)
    BY <1>2, <1>5, <1>6, Joined
  <2> QED
    BY <1>2, <1>5, <2>1 DEF IsJoint
<1>9. \A i \in 1..n : Body(m)[3 + i] = Plain(m.payload[i])
  BY <1>4, <1>8 DEF rest, n
<1>10. 1 \in 1..3 /\ 2 \in 1..3 /\ 3 \in 1..3
  OBVIOUS
<1>11. Body(m)[1] = head[1] /\ Body(m)[2] = head[2] /\ Body(m)[3] = head[3]
  BY <1>8, <1>10
<1> QED
  BY <1>7, <1>8, <1>9, <1>11 DEF n

LEMMA FrameBytes ==
  ASSUME NEW m \in Message
  PROVE  /\ Frame(m) \in Seq(Byte) /\ Len(Frame(m)) = 5 + Len(m.payload)
         /\ \A i \in 1..(3 + Len(m.payload)) : Frame(m)[i] = Body(m)[i]
         /\ Frame(m)[4 + Len(m.payload)] = CrcLow(Body(m))
         /\ Frame(m)[5 + Len(m.payload)] = CrcHigh(Body(m))
<1> DEFINE n == Len(m.payload)
           crc == <<CrcLow(Body(m)), CrcHigh(Body(m))>>
           S == Byte \cup {CrcLow(Body(m)), CrcHigh(Body(m))}
<1>1. n \in Nat
  BY MessageTypes
<1>2. Body(m) \in Seq(S) /\ Len(Body(m)) = 3 + n
  <2>1. Body(m) \in Seq(Byte) /\ Len(Body(m)) = 3 + n
    BY BodyBytes
  <2>2. Byte \subseteq S
    OBVIOUS
  <2>3. \A i \in 1..Len(Body(m)) : Body(m)[i] \in S
    BY <2>1, <2>2, ElementOfSeq
  <2> HIDE DEF S
  <2>4. Body(m) \in [1..(3 + n) -> S]
    <3>1. Body(m) \in [1..(3 + n) -> Byte]
      BY <2>1
    <3> QED
      BY <2>1, <2>3, <3>1
  <2> QED
    BY <1>1, <2>1, <2>4, SeqDef
<1>3. crc \in Seq(S) /\ Len(crc) = 2 /\ crc[1] = CrcLow(Body(m)) /\ crc[2] = CrcHigh(Body(m))
  OBVIOUS
<1>4. Frame(m) = Body(m) \o crc
  BY DEF Frame
<1> HIDE DEF n, crc, S
<1>5. /\ Len(Frame(m)) = (3 + n) + 2
      /\ \A i \in 1..(3 + n) : Frame(m)[i] = Body(m)[i]
      /\ \A i \in 1..2 : Frame(m)[(3 + n) + i] = crc[i]
  <2>1. IsJoint(Frame(m), Body(m), crc)
    BY <1>2, <1>3, <1>4, Joined
  <2> QED
    BY <1>2, <1>3, <2>1 DEF IsJoint
<1>6. /\ (3 + n) + 2 = 5 + n /\ (3 + n) + 1 = 4 + n
      /\ 1 \in 1..2 /\ 2 \in 1..2
  BY <1>1
<1>7. Frame(m)[4 + n] = crc[1] /\ Frame(m)[5 + n] = crc[2]
  BY <1>5, <1>6
<1> QED
  BY <1>3, <1>5, <1>6, <1>7, FramesAreBytes DEF n

LEMMA ImageValues ==
  ASSUME NEW m \in Message
  PROVE  /\ DOMAIN Image(m) = 1..(3 + Len(m.payload)) /\ Image(m) # << >>
         /\ Image(m)[1] = Start /\ Image(m)[2] = m.id /\ Image(m)[3] = Len(m.payload)
         /\ \A i \in 1..Len(m.payload) : Image(m)[3 + i] = m.payload[i]
<1> DEFINE n == Len(m.payload)
<1>1. n \in Nat
  BY MessageTypes
<1>2. Body(m) \in Seq(Byte) /\ Len(Body(m)) = 3 + n
  BY BodyBytes
<1>3. DOMAIN Body(m) = 1..(3 + n)
  BY <1>2, LenProperties
<1>4. DOMAIN Image(m) = 1..(3 + n) /\ \A i \in 1..(3 + n) : Image(m)[i] = Value(Body(m)[i])
  BY <1>3 DEF Image, Values
<1>5. 1 \in 1..(3 + n) /\ 2 \in 1..(3 + n) /\ 3 \in 1..(3 + n)
  BY <1>1
<1>6. Image(m)[1] = Start /\ Image(m)[2] = m.id /\ Image(m)[3] = n
  BY <1>4, <1>5, BodyBytes, MessageTypes, Constants, CrcIsIdeal
<1>7. \A i \in 1..n : Image(m)[3 + i] = m.payload[i]
  <2> SUFFICES ASSUME NEW i \in 1..n
               PROVE  Image(m)[3 + i] = m.payload[i]
    OBVIOUS
  <2>1. 3 + i \in 1..(3 + n)
    BY <1>1
  <2>2. Image(m)[3 + i] = Value(Plain(m.payload[i]))
    BY <1>4, <2>1, BodyBytes
  <2>3. m.payload[i] \in 0..MaxLen
    BY MessageTypes
  <2> QED
    BY <2>2, <2>3, CrcIsIdeal
<1>8. Image(m) # << >>
  BY <1>4, <1>5
<1> QED
  BY <1>4, <1>6, <1>7, <1>8

\* The values of a body name its message.
LEMMA ImageNames ==
  ASSUME NEW m \in Message, NEW h \in Message, Image(m) = Image(h)
  PROVE  m = h
<1>1. m.id = h.id /\ Len(m.payload) = Len(h.payload)
  BY ImageValues
<1>2. \A i \in 1..Len(m.payload) : m.payload[i] = h.payload[i]
  BY <1>1, ImageValues
<1>3. m.payload = h.payload
  <2>1. m.payload \in Seq(0..MaxLen) /\ h.payload \in Seq(0..MaxLen)
    BY MessageTypes
  <2> QED
    BY <1>1, <1>2, <2>1, SeqEqual
<1> QED
  BY <1>1, <1>3, MessageTypes

LEMMA BodyOrigins ==
  ASSUME NEW m \in Message
  PROVE  \A i \in 1..(3 + Len(m.payload)) : Origin(Body(m)[i]) = << >>
<1> DEFINE n == Len(m.payload)
<1>1. n \in 0..MaxLen /\ MaxLen \in Nat
  BY MessageTypes, Constants
<1> SUFFICES ASSUME NEW i \in 1..(3 + n)
             PROVE  Origin(Body(m)[i]) = << >>
  OBVIOUS
<1>2. CASE i <= 3
  <2>1. i = 1 \/ i = 2 \/ i = 3
    BY <1>1, <1>2
  <2>2. Body(m)[i] \in {Plain(Start), Plain(m.id), Plain(n)}
    BY <2>1, BodyBytes
  <2>3. Start \in 0..MaxLen /\ m.id \in 0..MaxLen /\ n \in 0..MaxLen
    BY MessageTypes, Constants
  <2> QED
    BY <2>2, <2>3, CrcIsIdeal
<1>3. CASE i > 3
  <2> DEFINE k == i - 3
  <2>1. k \in 1..n /\ i = 3 + k
    BY <1>1, <1>3
  <2> HIDE DEF k
  <2>2. Body(m)[i] = Plain(m.payload[k]) /\ m.payload[k] \in 0..MaxLen
    BY <2>1, BodyBytes, MessageTypes
  <2> QED
    BY <2>2, CrcIsIdeal
<1> QED
  BY <1>1, <1>2, <1>3

LEMMA FrameOrigins ==
  ASSUME NEW m \in Message
  PROVE  /\ \A i \in 1..(3 + Len(m.payload)) : Origin(Frame(m)[i]) = << >>
         /\ Origin(Frame(m)[4 + Len(m.payload)]) = Image(m)
         /\ Origin(Frame(m)[5 + Len(m.payload)]) = Image(m)
<1> DEFINE n == Len(m.payload)
<1>1. n \in 0..MaxLen
  BY MessageTypes
<1>2. Body(m) \in [1..(3 + n) -> Byte]
  BY BodyBytes
<1>3. Origin(CrcLow(Body(m))) = Image(m) /\ Origin(CrcHigh(Body(m))) = Image(m)
  BY <1>1, <1>2, CrcIsIdeal DEF Image
<1> QED
  BY <1>3, FrameBytes, BodyOrigins

\* All bytes of g that come from a CRC come from that of m, and they are at most two
\* neighbours.
Marks(g, m) ==
  /\ \A i \in 1..Len(g) : Origin(g[i]) \in {<< >>, Image(m)}
  /\ \A i, k \in 1..Len(g) :
       i < k /\ Origin(g[i]) = Image(m) /\ Origin(g[k]) = Image(m) => k = i + 1

LEMMA FrameMarks ==
  ASSUME NEW m \in Message
  PROVE  Marks(Frame(m), m)
<1> DEFINE n == Len(m.payload)
<1>1. n \in Nat /\ Len(Frame(m)) = 5 + n
  BY MessageTypes, FrameBytes
<1>2. \A i \in 1..(5 + n) : i \in 1..(3 + n) \/ i = 4 + n \/ i = 5 + n
  BY <1>1
<1>3. \A i \in 1..(5 + n) : Origin(Frame(m)[i]) \in {<< >>, Image(m)}
  BY <1>2, FrameOrigins
<1>4. \A i \in 1..(5 + n) : Origin(Frame(m)[i]) = Image(m) => i \in {4 + n, 5 + n}
  BY <1>2, FrameOrigins, ImageValues
<1>5. \A i, k \in 1..(5 + n) : i < k /\ i \in {4 + n, 5 + n} /\ k \in {4 + n, 5 + n} => k = i + 1
  BY <1>1
<1> QED
  BY <1>1, <1>3, <1>4, <1>5 DEF Marks

\* Bytes of a CRC stay next to each other when a run of bytes is lost, for the run lies
\* before, after or on them.
LEMMA DamageMarks ==
  ASSUME NEW m \in Message, NEW g \in Altered(Frame(m)) \cup Shortened(Frame(m))
  PROVE  Marks(g, m)
<1> DEFINE f == Frame(m)
           L == Len(f)
           n == Len(m.payload)
<1>1. f \in Seq(Byte) /\ L = 5 + n /\ n \in Nat /\ DOMAIN f = 1..L
  BY FrameBytes, MessageTypes
<1>2. Marks(f, m)
  BY FrameMarks
<1>3. CASE g \in Altered(f)
  <2>1. PICK p \in 1..L, v \in 0..MaxLen : g = [f EXCEPT ![p] = Plain(v)]
    <3>1. PICK c \in (DOMAIN f) \X (0..MaxLen) : g = [f EXCEPT ![c[1]] = Plain(c[2])]
      BY <1>3 DEF Altered
    <3>2. c[1] \in 1..L /\ c[2] \in 0..MaxLen
      BY <1>1
    <3> QED
      BY <3>1, <3>2
  <2>2. Len(g) = L /\ \A i \in 1..L : g[i] = f[i] \/ g[i] = Plain(v)
    <3>1. DOMAIN g = 1..L /\ \A i \in 1..L : g[i] = IF i = p THEN Plain(v) ELSE f[i]
      BY <1>1, <2>1
    <3>2. g \in Seq(Byte)
      BY <1>1, <1>3, DamageOfBytes
    <3>3. Len(g) = L
      BY <1>1, <3>1, <3>2
    <3> QED
      BY <3>1, <3>3
  <2>3. Origin(Plain(v)) = << >> /\ Image(m) # << >>
    BY CrcIsIdeal, ImageValues
  <2> QED
    BY <1>2, <2>2, <2>3 DEF Marks
<1>4. CASE g \in Shortened(f)
  <2>1. PICK a \in 1..L, b \in 1..L : a <= b /\ g = SubSeq(f, 1, a - 1) \o SubSeq(f, b + 1, L)
    <3>1. PICK c \in (DOMAIN f) \X (DOMAIN f) :
            c[1] <= c[2] /\ g = SubSeq(f, 1, c[1] - 1) \o SubSeq(f, c[2] + 1, Len(f))
      BY <1>4 DEF Shortened
    <3>2. c[1] \in 1..L /\ c[2] \in 1..L
      BY <1>1
    <3> QED
      BY <3>1, <3>2
  <2> DEFINE left == SubSeq(f, 1, a - 1)
             right == SubSeq(f, b + 1, L)
  <2>2. L \in Nat
    BY <1>1
  <2>3. left \in Seq(Byte) /\ Len(left) = a - 1 /\ \A i \in 1..(a - 1) : left[i] = f[i]
    <3>1. \A i \in 1..(a - 1) : f[i] \in Byte
      BY <1>1, <2>2, ElementOfSeq
    <3> HIDE DEF f, L
    <3> QED
      BY <1>1, <2>2, <3>1, SubSeqProperties
  <2>4. right \in Seq(Byte) /\ Len(right) = L - b /\ \A i \in 1..(L - b) : right[i] = f[b + i]
    <3>1. \A i \in (b + 1)..L : f[i] \in Byte
      BY <1>1, <2>2, ElementOfSeq
    <3> HIDE DEF f, L
    <3> QED
      BY <1>1, <2>2, <3>1, SubSeqProperties
  <2>5. IsJoint(g, left, right)
    <3> HIDE DEF left, right
    <3> QED
      BY <2>1, <2>3, <2>4, Joined DEF left, right
  <2> HIDE DEF f, left, right
  <2>6. /\ Len(g) = (a - 1) + (L - b)
        /\ \A i \in 1..(a - 1) : g[i] = f[i]
        /\ \A i \in 1..(L - b) : g[(a - 1) + i] = f[b + i]
    BY <2>3, <2>4, <2>5 DEF IsJoint
  <2>7. \A i \in 1..Len(g) : i >= a => g[i] = f[i + (b + 1 - a)]
    <3> SUFFICES ASSUME NEW i \in 1..Len(g), i >= a
                 PROVE  g[i] = f[i + (b + 1 - a)]
      OBVIOUS
    <3> HIDE DEF L
    <3>1. i - (a - 1) \in 1..(L - b) /\ (a - 1) + (i - (a - 1)) = i
          /\ b + (i - (a - 1)) = i + (b + 1 - a)
      BY <2>2, <2>6
    <3>2. g[(a - 1) + (i - (a - 1))] = f[b + (i - (a - 1))]
      BY <2>6, <3>1
    <3> QED
      BY <3>1, <3>2
  <2> HIDE DEF L
  <2>8. \A i \in 1..Len(g) : i < a => i \in 1..(a - 1) /\ i \in 1..L
    BY <2>2, <2>6
  <2>9. \A i \in 1..Len(g) : i >= a => i + (b + 1 - a) \in 1..L
    BY <2>1, <2>2, <2>6
  <2>10. \A i \in 1..Len(g) : Origin(g[i]) \in {<< >>, Image(m)}
    BY <1>2, <2>6, <2>7, <2>8, <2>9 DEF Marks, L
  <2>11. ASSUME NEW i \in 1..Len(g), NEW k \in 1..Len(g), i < k,
                Origin(g[i]) = Image(m), Origin(g[k]) = Image(m)
         PROVE  k = i + 1
    <3>1. \A p, q \in 1..L : p < q /\ Origin(f[p]) = Image(m) /\ Origin(f[q]) = Image(m)
                             => q = p + 1
      BY <1>2 DEF Marks, L
    <3>2. CASE k < a
      BY <2>6, <2>8, <2>11, <3>1, <3>2
    <3>3. CASE i >= a
      <4>1. Origin(f[i + (b + 1 - a)]) = Image(m) /\ Origin(f[k + (b + 1 - a)]) = Image(m)
        BY <2>7, <2>11, <2>6, <3>3
      <4>2. i + (b + 1 - a) \in 1..L /\ k + (b + 1 - a) \in 1..L
        BY <2>9, <2>11, <2>6, <3>3
      <4>3. k + (b + 1 - a) = (i + (b + 1 - a)) + 1
        BY <2>11, <2>6, <3>1, <4>1, <4>2
      <4> QED
        BY <2>6, <4>3
    <3>4. CASE i < a /\ k >= a
      <4>1. Origin(f[i]) = Image(m) /\ i \in 1..L
        BY <2>6, <2>8, <2>11, <3>4
      <4>2. Origin(f[k + (b + 1 - a)]) = Image(m) /\ k + (b + 1 - a) \in 1..L
        BY <2>7, <2>9, <2>11, <3>4
      <4>3. k + (b + 1 - a) = i + 1
        BY <2>1, <2>6, <2>11, <3>1, <4>1, <4>2
      <4> QED
        BY <2>1, <2>6, <2>11, <4>3
    <3> QED
      BY <2>6, <3>2, <3>3, <3>4
  <2> QED
    BY <2>10, <2>11 DEF Marks
<1> QED
  BY <1>3, <1>4

-----------------------------------------------------------------------------
(* The invariant of the history.  A is the bytes still to be parsed, S what was sent, G    *)
(* what was handed on.  The bytes of a CRC name the message they belong to; in the stream  *)
(* they come in the order of sending (InLine) and after all that was handed on (Later).    *)

Marked(b, e) == Origin(b) = Image(e.msg)

Once(S) == \A j, h \in 1..Len(S) : S[j].msg = S[h].msg => j = h

Traced(A, S) ==
  \A p \in 1..Len(A) : Origin(A[p]) # << >> => \E j \in 1..Len(S) : Marked(A[p], S[j])

InLine(A, S) ==
  \A p, q \in 1..Len(A) : \A j, h \in 1..Len(S) :
    p < q /\ Marked(A[p], S[j]) /\ Marked(A[q], S[h]) => j < h \/ (j = h /\ q = p + 1)

Later(A, S, G) ==
  \A i \in 1..Len(G), p \in 1..Len(A) : \A j, h \in 1..Len(S) :
    S[j].msg = G[i] /\ Marked(A[p], S[h]) => j < h

Known(S, G) == \A i \in 1..Len(G) : \E j \in 1..Len(S) : S[j].msg = G[i]

InOrder(S, G) ==
  \A i, k \in 1..Len(G) : \A j, h \in 1..Len(S) :
    i < k /\ S[j].msg = G[i] /\ S[h].msg = G[k] => j < h

At(A, k, t) == k + Len(t) <= Len(A) /\ \A i \in 1..Len(t) : A[k + i] = t[i]

Kept(A, S, G) ==
  \A j \in 1..Len(S) : S[j].whole =>
    \/ \E i \in 1..Len(G) : G[i] = S[j].msg
    \/ \E k \in Nat : At(A, k, Frame(S[j].msg))

Record == [msg : Message, whole : BOOLEAN]

Ordered(A, S, G) ==
  Once(S) /\ Traced(A, S) /\ InLine(A, S) /\ Later(A, S, G) /\ Known(S, G) /\ InOrder(S, G)

History ==
  /\ sent \in Seq(Record) /\ got \in Seq(Message)
  /\ Ordered(Ahead, sent, got) /\ Kept(Ahead, sent, got)

\* B is A without its first d bytes.
Rest(A, d, B) == Len(B) = Len(A) - d /\ \A i \in 1..Len(B) : B[i] = A[i + d]

LEMMA RestOrdered ==
  ASSUME NEW A, NEW B, NEW d \in Nat, NEW S, NEW G,
         Len(A) \in Nat, Len(B) \in Nat, Rest(A, d, B), Ordered(A, S, G)
  PROVE  Ordered(B, S, G)
<1>1. \A i \in 1..Len(B) : i + d \in 1..Len(A) /\ B[i] = A[i + d]
  BY DEF Rest
<1>2. Traced(B, S)
  BY <1>1 DEF Ordered, Traced
<1>3. InLine(B, S)
  <2> SUFFICES ASSUME NEW p \in 1..Len(B), NEW q \in 1..Len(B),
                      NEW j \in 1..Len(S), NEW h \in 1..Len(S),
                      p < q, Marked(B[p], S[j]), Marked(B[q], S[h])
               PROVE  j < h \/ (j = h /\ q = p + 1)
    BY DEF InLine
  <2>1. Marked(A[p + d], S[j]) /\ Marked(A[q + d], S[h])
    BY <1>1
  <2>2. p + d < q + d /\ p + d \in 1..Len(A) /\ q + d \in 1..Len(A)
    BY <1>1
  <2>3. j < h \/ (j = h /\ q + d = (p + d) + 1)
    BY <2>1, <2>2 DEF Ordered, InLine
  <2> QED
    BY <2>3
<1>4. Later(B, S, G)
  BY <1>1 DEF Ordered, Later
<1> QED
  BY <1>2, <1>3, <1>4 DEF Ordered

\* What stands at k in A stands at k - d in B.
LEMMA RestAt ==
  ASSUME NEW A, NEW B, NEW d \in Nat, NEW k \in Nat, NEW t,
         Len(A) \in Nat, Len(B) \in Nat, Len(t) \in Nat, Rest(A, d, B), At(A, k, t), d <= k
  PROVE  k - d \in Nat /\ At(B, k - d, t)
<1>1. (k - d) + Len(t) <= Len(B)
  BY DEF Rest, At
<1>2. \A i \in 1..Len(t) : (k - d) + i \in 1..Len(B) /\ ((k - d) + i) + d = k + i
  BY <1>1
<1>3. \A i \in 1..Len(t) : B[(k - d) + i] = A[k + i]
  BY <1>2 DEF Rest
<1> QED
  BY <1>1, <1>3 DEF At

\* More bytes at the end: those of a message that was not sent before.
LEMMA SendOrdered ==
  ASSUME NEW A \in Seq(Byte), NEW S \in Seq(Record), NEW G \in Seq(Message),
         NEW g \in Seq(Byte), NEW e \in Record,
         Ordered(A, S, G), Marks(g, e.msg), \A j \in DOMAIN S : S[j].msg # e.msg
  PROVE  Ordered(A \o g, Append(S, e), G)
<1> DEFINE B == A \o g
           T == Append(S, e)
           a == Len(A)
           n == Len(S)
<1>1. a \in Nat /\ Len(g) \in Nat /\ n \in Nat /\ DOMAIN S = 1..n /\ Len(G) \in Nat
  OBVIOUS
<1>2. IsJoint(B, A, g)
  BY Joined
<1>3. Len(B) = a + Len(g) /\ \A p \in 1..a : B[p] = A[p]
  BY <1>2 DEF IsJoint
<1>4. \A p \in 1..Len(B) : p > a => p - a \in 1..Len(g) /\ B[p] = g[p - a]
  <2> SUFFICES ASSUME NEW p \in 1..Len(B), p > a
               PROVE  p - a \in 1..Len(g) /\ B[p] = g[p - a]
    OBVIOUS
  <2> HIDE DEF B
  <2>1. p - a \in 1..Len(g) /\ a + (p - a) = p
    BY <1>1, <1>3
  <2>2. B[a + (p - a)] = g[p - a]
    BY <1>2, <2>1 DEF IsJoint
  <2> QED
    BY <2>1, <2>2
<1>5. Len(T) = n + 1 /\ T[n + 1] = e /\ \A j \in 1..n : T[j] = S[j]
  BY <1>1
<1> HIDE DEF B, T
<1>6. \A j \in 1..(n + 1) : j \in 1..n \/ j = n + 1
  BY <1>1
<1>7. \A p \in 1..Len(B) : p \in 1..a \/ p > a
  BY <1>1, <1>3
<1>8. \A j \in 1..n : S[j] \in Record /\ S[j].msg \in Message /\ S[j].msg # e.msg
  <2>1. \A j \in 1..n : S[j] \in Record
    BY <1>1, ElementOfSeq
  <2> QED
    BY <1>1, <2>1 DEF Record
<1>9. e.msg \in Message /\ Image(e.msg) # << >>
  BY ImageValues DEF Record
<1>10. \A j \in 1..n : Image(S[j].msg) # Image(e.msg) /\ Image(S[j].msg) # << >>
  BY <1>8, <1>9, ImageNames, ImageValues
\* A byte of the old stream belongs to an old message, one of the new frame to the new one.
<1>11. ASSUME NEW p \in 1..a, NEW h \in 1..(n + 1), Marked(B[p], T[h])
       PROVE  h \in 1..n /\ Marked(A[p], S[h])
  <2>1. Origin(A[p]) = Image(T[h].msg)
    BY <1>3, <1>11 DEF Marked
  <2>2. CASE h \in 1..n
    BY <1>5, <2>1, <2>2 DEF Marked
  <2>3. CASE h = n + 1
    <3>1. Origin(A[p]) = Image(e.msg)
      BY <1>5, <2>1, <2>3
    <3>2. PICK j \in 1..n : Marked(A[p], S[j])
      BY <1>9, <3>1 DEF Ordered, Traced
    <3> QED
      BY <1>10, <3>1, <3>2 DEF Marked
  <2> QED
    BY <1>6, <2>2, <2>3
<1>12. ASSUME NEW p \in 1..Len(B), p > a, NEW h \in 1..(n + 1), Marked(B[p], T[h])
       PROVE  h = n + 1 /\ p - a \in 1..Len(g) /\ Origin(g[p - a]) = Image(e.msg)
  <2>1. p - a \in 1..Len(g) /\ Origin(g[p - a]) = Image(T[h].msg)
    BY <1>4, <1>12 DEF Marked
  <2>2. Origin(g[p - a]) \in {<< >>, Image(e.msg)}
    BY <2>1 DEF Marks
  <2>3. CASE h \in 1..n
    BY <1>5, <1>10, <2>1, <2>2, <2>3
  <2>4. CASE h = n + 1
    BY <1>5, <2>1, <2>4
  <2> QED
    BY <1>6, <2>3, <2>4
<1>13. Once(T)
  <2> SUFFICES ASSUME NEW j \in 1..(n + 1), NEW h \in 1..(n + 1), T[j].msg = T[h].msg
               PROVE  j = h
    BY <1>5 DEF Once
  <2>1. CASE j \in 1..n /\ h \in 1..n
    BY <1>5, <2>1 DEF Ordered, Once
  <2>2. CASE j = n + 1 \/ h = n + 1
    BY <1>5, <1>6, <1>8, <2>2
  <2> QED
    BY <1>6, <2>1, <2>2
<1>14. Traced(B, T)
  <2> SUFFICES ASSUME NEW p \in 1..Len(B), Origin(B[p]) # << >>
               PROVE  \E j \in 1..(n + 1) : Marked(B[p], T[j])
    BY <1>5 DEF Traced
  <2>1. CASE p \in 1..a
    <3>1. PICK j \in 1..n : Marked(A[p], S[j])
      BY <1>3, <2>1 DEF Ordered, Traced
    <3>2. j \in 1..(n + 1) /\ Marked(B[p], T[j])
      BY <1>1, <1>3, <1>5, <2>1, <3>1
    <3> QED
      BY <3>2
  <2>2. CASE p > a
    <3>1. Origin(B[p]) = Image(e.msg)
      BY <1>4, <2>2 DEF Marks
    <3>2. n + 1 \in 1..(n + 1) /\ Marked(B[p], T[n + 1])
      BY <1>1, <1>5, <3>1 DEF Marked
    <3> QED
      BY <3>2
  <2> QED
    BY <1>7, <2>1, <2>2
<1>15. InLine(B, T)
  <2> SUFFICES ASSUME NEW p \in 1..Len(B), NEW q \in 1..Len(B),
                      NEW j \in 1..(n + 1), NEW h \in 1..(n + 1),
                      p < q, Marked(B[p], T[j]), Marked(B[q], T[h])
               PROVE  j < h \/ (j = h /\ q = p + 1)
    BY <1>5 DEF InLine
  <2>0. p \in Int /\ q \in Int /\ a \in Int
    BY <1>1, <1>3
  <2>1. CASE p \in 1..a /\ q \in 1..a
    BY <1>11, <2>1 DEF Ordered, InLine
  <2>2. CASE p \in 1..a /\ q > a
    <3>1. j \in 1..n
      BY <1>11, <2>2
    <3>2. h = n + 1
      BY <1>12, <2>2
    <3> QED
      BY <1>1, <3>1, <3>2
  <2>3. CASE p > a /\ q > a
    <3>1. /\ j = n + 1 /\ h = n + 1
          /\ p - a \in 1..Len(g) /\ Origin(g[p - a]) = Image(e.msg)
          /\ q - a \in 1..Len(g) /\ Origin(g[q - a]) = Image(e.msg)
      BY <1>12, <2>3
    <3>2. p - a < q - a
      BY <2>0
    <3>3. q - a = (p - a) + 1
      BY <3>1, <3>2 DEF Marks
    <3> QED
      BY <2>0, <3>1, <3>3
  <2> QED
    BY <1>7, <2>0, <2>1, <2>2, <2>3
<1>16. Known(T, G)
  <2> SUFFICES ASSUME NEW i \in 1..Len(G)
               PROVE  \E j \in 1..(n + 1) : T[j].msg = G[i]
    BY <1>5 DEF Known
  <2>1. PICK j \in 1..n : S[j].msg = G[i]
    BY DEF Ordered, Known
  <2>2. j \in 1..(n + 1) /\ T[j].msg = G[i]
    BY <1>1, <1>5, <2>1
  <2> QED
    BY <2>2
\* What was handed on was sent before.
<1>17. ASSUME NEW i \in 1..Len(G), NEW j \in 1..(n + 1), T[j].msg = G[i]
       PROVE  j \in 1..n /\ S[j].msg = G[i]
  <2>1. PICK k \in 1..n : S[k].msg = G[i]
    BY DEF Ordered, Known
  <2>2. j # n + 1
    BY <1>5, <1>8, <1>17, <2>1
  <2> QED
    BY <1>5, <1>6, <1>17, <2>2
<1>18. Later(B, T, G)
  <2> SUFFICES ASSUME NEW i \in 1..Len(G), NEW p \in 1..Len(B),
                      NEW j \in 1..(n + 1), NEW h \in 1..(n + 1),
                      T[j].msg = G[i], Marked(B[p], T[h])
               PROVE  j < h
    BY <1>5 DEF Later
  <2>1. CASE p \in 1..a
    BY <1>11, <1>17, <2>1 DEF Ordered, Later
  <2>2. CASE p > a
    <3>1. j \in 1..n
      BY <1>17
    <3>2. h = n + 1
      BY <1>12, <2>2
    <3> QED
      BY <1>1, <3>1, <3>2
  <2> QED
    BY <1>7, <2>1, <2>2
<1>19. InOrder(T, G)
  <2> SUFFICES ASSUME NEW i \in 1..Len(G), NEW k \in 1..Len(G),
                      NEW j \in 1..(n + 1), NEW h \in 1..(n + 1),
                      i < k, T[j].msg = G[i], T[h].msg = G[k]
               PROVE  j < h
    BY <1>5 DEF InOrder
  <2> QED
    BY <1>17 DEF Ordered, InOrder
<1> QED
  BY <1>13, <1>14, <1>15, <1>16, <1>18, <1>19 DEF Ordered, B, T

-----------------------------------------------------------------------------
(* What the parser takes for a frame, and what it cannot cut.              *)

\* The bytes of A from d on look like the frame of h: they match its CRC.
Looks(A, d, h) ==
  /\ d + (5 + Len(h.payload)) <= Len(A)
  /\ \A i \in 1..(3 + Len(h.payload)) : Value(A[d + i]) = Image(h)[i]
  /\ Origin(A[d + (4 + Len(h.payload))]) = Image(h)
  /\ Origin(A[d + (5 + Len(h.payload))]) = Image(h)

LEMMA AsFunction ==
  ASSUME NEW S, NEW s \in Seq(S)
  PROVE  s \in [1..Len(s) -> S]
OBVIOUS

LEMMA AsSequence ==
  ASSUME NEW S, NEW l \in Nat, NEW f \in [1..l -> S]
  PROVE  f \in Seq(S) /\ Len(f) = l
OBVIOUS

LEMMA SplitJoined ==
  ASSUME NEW S, NEW s \in Seq(S), NEW n \in 0..Len(s)
  PROVE  /\ SubSeq(s, 1, n) \in Seq(S) /\ SubSeq(s, n + 1, Len(s)) \in Seq(S)
         /\ SubSeq(s, 1, n) \o SubSeq(s, n + 1, Len(s)) = s
<1> DEFINE t == SubSeq(s, 1, n)
           u == SubSeq(s, n + 1, Len(s))
<1>1. Len(s) \in Nat /\ n \in Nat
  OBVIOUS
<1>2. t \in Seq(S) /\ Len(t) = n /\ \A i \in 1..n : t[i] = s[i]
  <2>1. \A i \in 1..n : s[i] \in S
    BY <1>1, ElementOfSeq
  <2> QED
    BY <1>1, <2>1, SubSeqProperties
<1>3. u \in Seq(S) /\ Len(u) = Len(s) - n /\ \A i \in 1..(Len(s) - n) : u[i] = s[n + i]
  <2>1. \A i \in (n + 1)..Len(s) : s[i] \in S
    BY <1>1, ElementOfSeq
  <2> QED
    BY <1>1, <2>1, SubSeqProperties
<1> HIDE DEF t, u
<1>4. t \o u \in Seq(S) /\ IsJoint(t \o u, t, u)
  BY <1>2, <1>3, Joined
<1> DEFINE v == t \o u
<1> HIDE DEF v
<1>5. /\ v \in Seq(S) /\ Len(v) = Len(s) /\ \A i \in 1..n : v[i] = s[i]
      /\ \A i \in 1..(Len(s) - n) : v[n + i] = s[n + i]
  <2>1. /\ v \in Seq(S) /\ Len(v) = n + (Len(s) - n) /\ \A i \in 1..n : v[i] = t[i]
        /\ \A i \in 1..(Len(s) - n) : v[n + i] = u[i]
    BY <1>2, <1>3, <1>4 DEF IsJoint, v
  <2> QED
    BY <1>1, <1>2, <1>3, <2>1
<1>6. ASSUME NEW i \in 1..Len(s)
      PROVE  v[i] = s[i]
  <2>1. CASE i <= n
    <3>1. i \in 1..n
      BY <1>1, <2>1
    <3> QED
      BY <1>5, <3>1
  <2>2. CASE i > n
    <3>1. i - n \in 1..(Len(s) - n) /\ n + (i - n) = i
      BY <1>1, <2>2
    <3>2. v[n + (i - n)] = s[n + (i - n)]
      BY <1>5, <3>1
    <3> QED
      BY <3>1, <3>2
  <2> QED
    BY <1>1, <2>1, <2>2
<1>7. v = s
  BY <1>5, <1>6, SeqEqual
<1> QED
  BY <1>2, <1>3, <1>7 DEF t, u, v

Associates(s, t, u) == (s \o t) \o u = s \o (t \o u)

LEMMA JoinsAssociate ==
  ASSUME NEW S, NEW s \in Seq(S), NEW t \in Seq(S), NEW u \in Seq(S)
  PROVE  Associates(s, t, u)
BY ConcatAssociative DEF Associates

LEMMA CompleteSize ==
  ASSUME NEW s \in Seq(Byte), Complete(s)
  PROVE  /\ Len(s) \in Nat /\ PayloadLen(s) \in 0..MaxLen
         /\ FrameSize(s) = 5 + PayloadLen(s) /\ FrameSize(s) <= Len(s)
<1>1. Len(s) \in Nat /\ Len(s) >= 3
  BY DEF Complete
<1>2. s[3] \in Byte
  BY <1>1, ElementOfSeq
<1>3. PayloadLen(s) \in 0..MaxLen
  BY <1>2, Constants DEF PayloadLen
<1> QED
  BY <1>1, <1>3 DEF Complete, FrameSize

\* What the CRC was computed from.
LEMMA Covered ==
  ASSUME NEW s \in Seq(Byte), NEW n \in 0..MaxLen, 5 + n <= Len(s)
  PROVE  /\ SubSeq(s, 1, 3 + n) \in [1..(3 + n) -> Byte]
         /\ \A i \in 1..(3 + n) : SubSeq(s, 1, 3 + n)[i] = s[i]
<1>1. n \in Nat /\ Len(s) \in Nat
  BY Constants
<1>2. \A i \in 1..(3 + n) : s[i] \in Byte
  BY <1>1, ElementOfSeq
<1>3. /\ SubSeq(s, 1, 3 + n) \in Seq(Byte) /\ Len(SubSeq(s, 1, 3 + n)) = 3 + n
      /\ \A i \in 1..(3 + n) : SubSeq(s, 1, 3 + n)[i] = s[i]
  BY <1>1, <1>2, SubSeqProperties
<1> QED
  BY <1>3, AsFunction

LEMMA Candidate ==
  ASSUME NEW s \in Seq(Byte), Complete(s), CrcMatches(s)
  PROVE  \E h \in Message : /\ Looks(s, 0, h) /\ Extracted(s) = h
                            /\ FrameSize(s) = 5 + Len(h.payload)
<1> DEFINE n == PayloadLen(s)
           body == SubSeq(s, 1, 3 + n)
<1>1. /\ Len(s) \in Nat /\ n \in 0..MaxLen /\ n \in Nat /\ 5 + n <= Len(s)
      /\ FrameSize(s) = 5 + n
  BY CompleteSize, Constants
<1>2. body \in [1..(3 + n) -> Byte] /\ \A i \in 1..(3 + n) : body[i] = s[i]
  BY <1>1, Covered
<1>3. s[4 + n] = CrcLow(body) /\ s[5 + n] = CrcHigh(body)
  BY DEF CrcMatches
<1> HIDE DEF body, n
<1>4. Origin(s[4 + n]) = Values(body) /\ Origin(s[5 + n]) = Values(body)
  BY <1>1, <1>2, <1>3, CrcIsIdeal
<1>5. DOMAIN Values(body) = 1..(3 + n) /\ \A i \in 1..(3 + n) : Values(body)[i] = Value(s[i])
  BY <1>2 DEF Values
<1>6. Values(body) # << >>
  <2>1. 1 \in 1..(3 + n)
    BY <1>1
  <2>2. 1 \in DOMAIN Values(body)
    BY <1>5, <2>1
  <2>3. DOMAIN << >> = {}
    OBVIOUS
  <2> QED
    BY <2>2, <2>3
<1>7. s[4 + n] \in Byte
  BY <1>1, ElementOfSeq
<1>8. PICK h \in Message : Values(body) = Image(h)
  BY <1>4, <1>6, <1>7, CrcIsIdeal DEF Image
<1>9. n = Len(h.payload)
  <2>1. 3 \in 1..(3 + n)
    BY <1>1
  <2>2. Values(body)[3] = n
    BY <1>5, <2>1 DEF n, PayloadLen
  <2> QED
    BY <1>8, <2>2, ImageValues
<1>10. Looks(s, 0, h)
  <2>1. \A i \in 1..(3 + n) : 0 + i = i
    OBVIOUS
  <2>2. 0 + (4 + n) = 4 + n /\ 0 + (5 + n) = 5 + n
    BY <1>1
  <2> QED
    BY <1>1, <1>4, <1>5, <1>8, <1>9, <2>1, <2>2 DEF Looks
<1>11. Extracted(s) = h
  <2>1. Value(s[2]) = h.id
    <3>1. 2 \in 1..(3 + n)
      BY <1>1
    <3> QED
      BY <1>5, <1>8, <3>1, ImageValues
  <2>2. [i \in 1..n |-> Value(s[3 + i])] = h.payload
    <3>1. \A i \in 1..n : 3 + i \in 1..(3 + n)
      BY <1>1
    <3>2. \A i \in 1..n : Value(s[3 + i]) = h.payload[i]
      BY <1>5, <1>8, <1>9, <3>1, ImageValues
    <3>3. h.payload \in [1..n -> 0..MaxLen]
      BY <1>9, MessageTypes, AsFunction
    <3>4. h.payload = [i \in 1..n |-> h.payload[i]]
      BY <3>3
    <3> QED
      BY <3>2, <3>4
  <2> QED
    BY <2>1, <2>2, MessageTypes DEF Extracted, n
<1> QED
  BY <1>1, <1>9, <1>10, <1>11

\* A whole frame at the head matches, and is its message.
LEMMA HeadFrame ==
  ASSUME NEW s \in Seq(Byte), NEW m \in Message, Complete(s),
         \A i \in 1..Len(Frame(m)) : i <= Len(s) => s[i] = Frame(m)[i]
  PROVE  CrcMatches(s) /\ Extracted(s) = m
<1> DEFINE n == Len(m.payload)
           body == SubSeq(s, 1, 3 + n)
<1>1. n \in 0..MaxLen /\ n \in Nat /\ Len(Frame(m)) = 5 + n
  BY MessageTypes, FrameBytes
<1>2. PayloadLen(s) = n
  <2>1. 3 \in 1..(5 + n) /\ 3 <= Len(s) /\ 3 \in 1..(3 + n)
    BY <1>1 DEF Complete
  <2>2. s[3] = Plain(n)
    BY <1>1, <2>1, FrameBytes, BodyBytes
  <2> QED
    BY <1>1, <2>2, CrcIsIdeal DEF PayloadLen
<1>3. 5 + n <= Len(s) /\ Len(s) \in Nat
  BY <1>2, CompleteSize
<1>4. \A i \in 1..(5 + n) : s[i] = Frame(m)[i]
  BY <1>1, <1>3
<1>5. body \in [1..(3 + n) -> Byte] /\ \A i \in 1..(3 + n) : body[i] = s[i]
  BY <1>1, <1>3, Covered
<1>6. body = Body(m)
  <2>1. \A i \in 1..(3 + n) : i \in 1..(5 + n) /\ body[i] = Body(m)[i]
    BY <1>1, <1>4, <1>5, FrameBytes
  <2>2. Body(m) \in [1..(3 + n) -> Byte]
    BY BodyBytes
  <2> HIDE DEF body
  <2> QED
    BY <1>5, <2>1, <2>2
<1>7. 4 + n \in 1..(5 + n) /\ 5 + n \in 1..(5 + n)
  BY <1>1
<1>8. CrcMatches(s)
  BY <1>2, <1>4, <1>6, <1>7, FrameBytes DEF CrcMatches
<1>9. PICK h \in Message : Looks(s, 0, h) /\ Extracted(s) = h /\ FrameSize(s) = 5 + Len(h.payload)
  BY <1>8, Candidate
<1>10. Image(h) = Image(m)
  <2>1. Len(h.payload) = n
    <3>1. Len(h.payload) \in Nat /\ FrameSize(s) = 5 + n
      BY <1>2, CompleteSize, MessageTypes
    <3> QED
      BY <1>1, <1>9, <3>1
  <2>2. Origin(s[0 + (5 + n)]) = Image(h)
    BY <1>9, <2>1 DEF Looks
  <2>3. 0 + (5 + n) = 5 + n
    BY <1>1
  <2>4. Origin(s[5 + n]) = Image(m)
    BY <1>4, <1>7, FrameOrigins
  <2> QED
    BY <2>2, <2>3, <2>4
<1> QED
  BY <1>8, <1>9, <1>10, ImageNames

LEMMA AtHolds ==
  ASSUME NEW S, NEW s \in Seq(S), NEW t \in Seq(S), NEW k \in Nat, At(s, k, t)
  PROVE  Holds(s, t)
<1>1. Len(s) \in Nat /\ Len(t) \in Nat
  OBVIOUS
<1>2. k + 1 \in 1..(Len(s) - Len(t) + 1) /\ (k + 1) + Len(t) - 1 = k + Len(t)
  BY <1>1 DEF At
<1>3. SubSeq(s, k + 1, k + Len(t)) = t
  <2>1. \A i \in (k + 1)..(k + Len(t)) : s[i] \in S
    <3>1. \A i \in (k + 1)..(k + Len(t)) : i \in 1..Len(s)
      BY <1>1 DEF At
    <3> QED
      BY <3>1, ElementOfSeq
  <2>2. /\ SubSeq(s, k + 1, k + Len(t)) \in Seq(S)
        /\ Len(SubSeq(s, k + 1, k + Len(t))) = Len(t)
        /\ \A i \in 1..Len(t) : SubSeq(s, k + 1, k + Len(t))[i] = s[k + i]
    <3>1. k + 1 \in Int /\ k + Len(t) \in Int
      BY <1>1
    <3>2. /\ SubSeq(s, k + 1, k + Len(t)) \in Seq(S)
          /\ Len(SubSeq(s, k + 1, k + Len(t))) =
               IF k + 1 <= k + Len(t) THEN (k + Len(t)) - (k + 1) + 1 ELSE 0
          /\ \A i \in 1..((k + Len(t)) - (k + 1) + 1) :
               SubSeq(s, k + 1, k + Len(t))[i] = s[(k + 1) + i - 1]
      BY <2>1, <3>1, SubSeqProperties
    <3>3. /\ (k + Len(t)) - (k + 1) + 1 = Len(t)
          /\ \A i \in 1..Len(t) : (k + 1) + i - 1 = k + i
      BY <1>1
    <3>4. \A i \in 1..Len(t) : SubSeq(s, k + 1, k + Len(t))[i] = s[k + i]
      BY <3>2, <3>3
    <3>5. Len(SubSeq(s, k + 1, k + Len(t))) = Len(t)
      BY <1>1, <3>2
    <3> QED
      BY <3>2, <3>4, <3>5
  <2>3. \A i \in 1..Len(t) : SubSeq(s, k + 1, k + Len(t))[i] = t[i]
    BY <2>2 DEF At
  <2> QED
    BY <2>2, <2>3, SeqEqual
<1> QED
  BY <1>2, <1>3 DEF Holds

\* What looks like a frame does not end inside a whole frame, nor hold one, unless it is
\* that frame: its last two bytes are those of a CRC, one after the other.
LEMMA NoCut ==
  ASSUME NEW A, NEW m \in Message, NEW h \in Message, NEW k \in Nat, NEW d \in Nat,
         At(A, k, Frame(m)), Looks(A, d, h), d < k
  PROVE  d + (5 + Len(h.payload)) <= k
<1> DEFINE n == Len(m.payload)
           r == Len(h.payload)
<1>1. n \in Nat /\ r \in Nat /\ Len(Frame(m)) = 5 + n
  BY MessageTypes, FrameBytes
<1>2. \A i \in 1..(5 + n) : A[k + i] = Frame(m)[i]
  BY <1>1 DEF At
<1>3. Image(h) # << >> /\ Image(m) # << >>
  BY ImageValues
<1>4. Origin(A[d + (4 + r)]) = Image(h) /\ Origin(A[d + (5 + r)]) = Image(h)
  BY DEF Looks
<1> SUFFICES ASSUME k < d + (5 + r)
             PROVE  FALSE
  BY <1>1
\* A byte of the frame that names h is one of the two of its CRC, and then h is m.
<1>5. ASSUME NEW i \in 1..(5 + n), Origin(A[k + i]) = Image(h)
      PROVE  (i = 4 + n \/ i = 5 + n) /\ r = n
  <2>1. Origin(Frame(m)[i]) = Image(h)
    BY <1>2, <1>5
  <2>2. i \in 1..(3 + n) \/ i = 4 + n \/ i = 5 + n
    BY <1>1
  <2>3. i = 4 + n \/ i = 5 + n
    BY <1>3, <2>1, <2>2, FrameOrigins
  <2>4. Image(m) = Image(h)
    BY <2>1, <2>3, FrameOrigins
  <2> QED
    BY <2>3, <2>4, ImageNames
<1>6. CASE d + (5 + r) <= k + (5 + n)
  <2> DEFINE i == d + (5 + r) - k
  <2>1. i \in 1..(5 + n) /\ k + i = d + (5 + r)
    BY <1>1, <1>6
  <2>2. (i = 4 + n \/ i = 5 + n) /\ r = n
    <3> HIDE DEF i
    <3> QED
      BY <1>4, <1>5, <2>1
  <2>3. k = d + 1
    <3> HIDE DEF i, n, r
    <3>1. CASE i = 4 + n
      BY <1>1, <2>1, <2>2, <3>1
    <3>2. CASE i = 5 + n
      BY <1>1, <2>1, <2>2, <3>2
    <3> QED
      BY <2>2, <3>1, <3>2
  <2>4. 3 + n \in 1..(5 + n) /\ k + (3 + n) = d + (4 + r)
    <3> HIDE DEF i, n, r
    <3>1. r = n
      BY <2>2
    <3>2. 3 + n \in 1..(5 + n) /\ k + (3 + n) = d + (4 + n)
      BY <1>1, <2>3
    <3> QED
      BY <3>1, <3>2
  <2>5. 3 + n = 4 + n \/ 3 + n = 5 + n
    BY <1>4, <1>5, <2>4
  <2> QED
    BY <1>1, <2>5
<1>7. CASE d + (4 + r) = k + (5 + n)
  <2>1. 5 + n \in 1..(5 + n)
    BY <1>1
  <2>2. r = n
    BY <1>4, <1>5, <1>7, <2>1
  <2> QED
    BY <1>1, <1>7, <2>2
<1>8. CASE k + (5 + n) <= d + (3 + r)
  <2> DEFINE c == k - d
  <2>1. c \in Nat /\ c + (5 + n) <= 3 + r /\ k = d + c
    BY <1>1, <1>8
  <2> HIDE DEF c
  <2>2. \A i \in 1..(5 + n) : c + i \in 1..(3 + r) /\ d + (c + i) = k + i
    BY <1>1, <2>1
  <2>3. \A i \in 1..(5 + n) : Image(h)[c + i] = Value(Frame(m)[i])
    BY <1>2, <2>2 DEF Looks
  <2>4. /\ Values(Frame(m)) \in Seq(0..MaxLen) /\ Len(Values(Frame(m))) = 5 + n
        /\ \A i \in 1..(5 + n) : Values(Frame(m))[i] = Value(Frame(m)[i])
    <3>1. Frame(m) \in [1..(5 + n) -> Byte]
      BY <1>1, FrameBytes, AsFunction
    <3>2. /\ Values(Frame(m)) \in [1..(5 + n) -> 0..MaxLen]
          /\ \A i \in 1..(5 + n) : Values(Frame(m))[i] = Value(Frame(m)[i])
      BY <3>1, Constants DEF Values
    <3>3. 5 + n \in Nat
      BY <1>1
    <3> QED
      BY <3>2, <3>3, AsSequence
  <2>5. Image(h) \in Seq(0..MaxLen) /\ Len(Image(h)) = 3 + r
    <3>1. Body(h) \in [1..(3 + r) -> Byte]
      BY BodyBytes
    <3>2. Image(h) \in [1..(3 + r) -> 0..MaxLen]
      BY <3>1, Constants DEF Image, Values
    <3>3. 3 + r \in Nat
      BY <1>1
    <3> QED
      BY <3>2, <3>3, AsSequence
  <2>6. At(Image(h), c, Values(Frame(m)))
    BY <2>1, <2>3, <2>4, <2>5 DEF At
  <2>7. Holds(Image(h), Values(Frame(m)))
    BY <2>1, <2>4, <2>5, <2>6, AtHolds
  <2> QED
    BY <2>7, CrcIsIdeal DEF Image
<1> QED
  BY <1>1, <1>6, <1>7, <1>8

-----------------------------------------------------------------------------
(* The stream under the steps of the parser.                               *)

LEMMA RestJoint ==
  ASSUME NEW A \in Seq(Byte), NEW B \in Seq(Byte), NEW t \in Seq(Byte),
         NEW d \in 0..Len(A), Rest(A, d, B)
  PROVE  Rest(A \o t, d, B \o t)
<1> DEFINE AA == A \o t
           BB == B \o t
<1>1. Len(A) \in Nat /\ Len(B) \in Nat /\ Len(t) \in Nat /\ d \in Nat
  OBVIOUS
<1>2. IsJoint(AA, A, t) /\ IsJoint(BB, B, t)
  BY Joined
<1> HIDE DEF AA, BB
<1>3. Len(AA) = Len(A) + Len(t) /\ Len(BB) = Len(B) + Len(t) /\ Len(B) = Len(A) - d
  BY <1>2 DEF IsJoint, Rest
<1>4. ASSUME NEW i \in 1..Len(BB)
      PROVE  BB[i] = AA[i + d]
  <2>1. CASE i <= Len(B)
    <3>1. i \in 1..Len(B) /\ i + d \in 1..Len(A)
      BY <1>1, <1>3, <2>1
    <3> QED
      BY <1>2, <3>1 DEF IsJoint, Rest
  <2>2. CASE i > Len(B)
    <3>1. i - Len(B) \in 1..Len(t) /\ Len(B) + (i - Len(B)) = i
          /\ Len(A) + (i - Len(B)) = i + d
      BY <1>1, <1>3, <2>2
    <3>2. BB[Len(B) + (i - Len(B))] = t[i - Len(B)]
      BY <1>2, <3>1 DEF IsJoint
    <3>3. AA[Len(A) + (i - Len(B))] = t[i - Len(B)]
      BY <1>2, <3>1 DEF IsJoint
    <3> QED
      BY <3>1, <3>2, <3>3
  <2> QED
    BY <1>1, <1>3, <2>1, <2>2
<1>5. Len(BB) = Len(AA) - d
  BY <1>1, <1>3
<1> QED
  BY <1>4, <1>5 DEF Rest, AA, BB

LEMMA RestStream ==
  ASSUME TypeOK, NEW x \in Seq(Byte), NEW d \in 0..Len(buf), Rest(buf, d, x)
  PROVE  /\ Ahead \in Seq(Byte) /\ x \o raw \o line \in Seq(Byte)
         /\ Rest(Ahead, d, x \o raw \o line) /\ d <= Len(Ahead)
         /\ Len(buf) <= Len(Ahead) /\ \A i \in 1..Len(buf) : Ahead[i] = buf[i]
<1>1. raw \in Seq(Byte) /\ line \in Seq(Byte) /\ buf \in Seq(Byte)
  BY DEF TypeOK
<1>2. Rest(buf \o raw, d, x \o raw)
  BY <1>1, RestJoint
<1>3. /\ buf \o raw \in Seq(Byte) /\ x \o raw \in Seq(Byte)
      /\ IsJoint(buf \o raw, buf, raw)
  BY <1>1, Joined
<1>4. /\ Ahead \in Seq(Byte) /\ x \o raw \o line \in Seq(Byte)
      /\ IsJoint(Ahead, buf \o raw, line)
  BY <1>1, <1>3, Joined DEF Ahead
<1>5. Len(buf) \in Nat /\ Len(raw) \in Nat /\ Len(line) \in Nat
  BY <1>1
<1>6. /\ Len(buf \o raw) = Len(buf) + Len(raw) /\ Len(Ahead) = Len(buf \o raw) + Len(line)
      /\ \A i \in 1..Len(buf) : (buf \o raw)[i] = buf[i]
      /\ \A i \in 1..Len(buf \o raw) : Ahead[i] = (buf \o raw)[i]
  BY <1>3, <1>4 DEF IsJoint
<1>7. d \in 0..Len(buf \o raw) /\ d <= Len(Ahead) /\ Len(buf) <= Len(Ahead)
  BY <1>5, <1>6
<1>8. Rest(Ahead, d, x \o raw \o line)
  BY <1>1, <1>2, <1>3, <1>7, RestJoint DEF Ahead
<1>9. \A i \in 1..Len(buf) : i \in 1..Len(buf \o raw)
  BY <1>5, <1>6
<1> QED
  BY <1>4, <1>6, <1>7, <1>8, <1>9

\* Scanning removes the bytes before the first start byte.
LEMMA ScanRest ==
  ASSUME buf \in Seq(Byte)
  PROVE  \E d \in 0..Len(buf) : /\ Rest(buf, d, Scanned)
                                /\ \A i \in 1..d : Value(buf[i]) # Start
<1> DEFINE starts == {i \in DOMAIN buf : Value(buf[i]) = Start}
<1>1. Len(buf) \in Nat /\ DOMAIN buf = 1..Len(buf)
  OBVIOUS
<1>2. CASE starts = {}
  <2>1. Scanned = << >>
    BY <1>2 DEF Scanned
  <2>2. Rest(buf, Len(buf), Scanned)
    BY <1>1, <2>1 DEF Rest
  <2>3. \A i \in 1..Len(buf) : Value(buf[i]) # Start
    BY <1>1, <1>2
  <2> QED
    BY <1>1, <2>2, <2>3
<1>3. CASE starts # {}
  <2>1. starts \subseteq Nat
    BY <1>1
  <2>2. Min(starts) \in starts /\ \A y \in starts : Min(starts) <= y
    BY <1>3, <2>1, LeastOf
  <2>3. PICK a \in 1..Len(buf) : a = Min(starts)
    BY <1>1, <2>2
  <2>4. Scanned = SubSeq(buf, a, Len(buf))
    BY <1>3, <2>3 DEF Scanned
  <2>5. \A i \in a..Len(buf) : buf[i] \in Byte
    BY <1>1, ElementOfSeq
  <2>6. /\ Len(Scanned) = Len(buf) - a + 1
        /\ \A i \in 1..(Len(buf) - a + 1) : Scanned[i] = buf[a + i - 1]
    BY <1>1, <2>4, <2>5, SubSeqProperties
  <2>7. \A i \in 1..(Len(buf) - a + 1) : a + i - 1 = i + (a - 1)
    BY <1>1
  <2>8. Rest(buf, a - 1, Scanned)
    <3>1. Len(Scanned) = Len(buf) - (a - 1)
      BY <1>1, <2>6
    <3> QED
      BY <1>1, <2>6, <2>7, <3>1 DEF Rest
  <2>9. \A i \in 1..(a - 1) : Value(buf[i]) # Start
    <3>1. \A i \in 1..(a - 1) : i \in DOMAIN buf /\ ~(a <= i)
      BY <1>1
    <3> QED
      BY <2>2, <2>3, <3>1
  <2>10. a - 1 \in 0..Len(buf)
    BY <1>1
  <2> QED
    BY <2>8, <2>9, <2>10
<1> QED
  BY <1>2, <1>3

\* No whole frame begins before the first start byte.
LEMMA ScanKeeps ==
  ASSUME TypeOK, NEW d \in 0..Len(buf), \A i \in 1..d : Value(buf[i]) # Start,
         NEW m \in Message, NEW k \in Nat, At(Ahead, k, Frame(m))
  PROVE  d <= k
<1>1. buf \in Seq(Byte) /\ Len(buf) \in Nat
  BY DEF TypeOK
<1>2. \A i \in 1..Len(buf) : Ahead[i] = buf[i]
  <2>1. 0 \in 0..Len(buf) /\ Rest(buf, 0, buf)
    BY <1>1 DEF Rest
  <2> QED
    BY <1>1, <2>1, RestStream
<1>3. Len(m.payload) \in Nat /\ Len(Frame(m)) = 5 + Len(m.payload)
  BY MessageTypes, FrameBytes
<1>4. 1 \in 1..(5 + Len(m.payload)) /\ 1 \in 1..(3 + Len(m.payload))
  BY <1>3
<1>5. Value(Ahead[k + 1]) = Start
  <2>1. Ahead[k + 1] = Plain(Start)
    BY <1>3, <1>4, FrameBytes, BodyBytes DEF At
  <2> QED
    BY <2>1, Constants, CrcIsIdeal
<1> SUFFICES ASSUME k < d
             PROVE  FALSE
  BY <1>1
<1>6. k + 1 \in 1..d /\ k + 1 \in 1..Len(buf)
  BY <1>1
<1> QED
  BY <1>2, <1>5, <1>6

LEMMA Appended ==
  ASSUME NEW S, NEW s \in Seq(S), NEW e \in S
  PROVE  /\ Append(s, e) \in Seq(S) /\ Len(s) \in Nat /\ Len(Append(s, e)) = Len(s) + 1
         /\ Append(s, e)[Len(s) + 1] = e /\ \A i \in 1..Len(s) : Append(s, e)[i] = s[i]
OBVIOUS

\* What was handed on is the next message of the stream: its CRC was ahead of all others.
LEMMA DeliverOrdered ==
  ASSUME NEW A, NEW B, NEW S \in Seq(Record), NEW G \in Seq(Message),
         NEW d \in Nat, NEW h \in Message, Len(A) \in Nat, Len(B) \in Nat,
         Rest(A, d + (5 + Len(h.payload)), B), Looks(A, d, h), Ordered(A, S, G)
  PROVE  Ordered(B, S, Append(G, h))
<1> DEFINE p == d + (4 + Len(h.payload))
           D == d + (5 + Len(h.payload))
           T == Append(G, h)
<1>1. Len(S) \in Nat /\ Len(G) \in Nat /\ Len(h.payload) \in Nat
  BY MessageTypes
<1>2. /\ p \in Nat /\ D \in Nat /\ D = p + 1
      /\ p \in 1..Len(A) /\ D \in 1..Len(A)
  BY <1>1 DEF Looks
<1>3. Origin(A[p]) = Image(h) /\ Origin(A[D]) = Image(h) /\ Image(h) # << >>
  BY ImageValues DEF Looks
<1>4. Rest(A, D, B)
  OBVIOUS
<1>5. Len(T) = Len(G) + 1 /\ T[Len(G) + 1] = h /\ \A i \in 1..Len(G) : T[i] = G[i]
  BY Appended
<1> HIDE DEF p, D, T
<1>6. Ordered(B, S, G)
  BY <1>2, <1>4, RestOrdered
<1>7. \A j \in 1..Len(S) : S[j].msg \in Message
  <2>1. \A j \in 1..Len(S) : S[j] \in Record
    BY ElementOfSeq
  <2> QED
    BY <2>1 DEF Record
<1>8. PICK j \in 1..Len(S) : S[j].msg = h
  <2>1. PICK j \in 1..Len(S) : Marked(A[D], S[j])
    BY <1>2, <1>3 DEF Ordered, Traced
  <2>2. S[j].msg = h
    BY <1>3, <1>7, <2>1, ImageNames DEF Marked
  <2> QED
    BY <2>2
<1>9. \A x \in 1..Len(S) : S[x].msg = h => x = j
  BY <1>8 DEF Ordered, Once
<1>10. Marked(A[p], S[j]) /\ Marked(A[D], S[j])
  BY <1>3, <1>8 DEF Marked
<1>11. \A i \in 1..Len(T) : i \in 1..Len(G) \/ i = Len(G) + 1
  BY <1>1, <1>5
<1>12. Known(S, T)
  <2> SUFFICES ASSUME NEW i \in 1..Len(T)
               PROVE  \E x \in 1..Len(S) : S[x].msg = T[i]
    BY DEF Known
  <2>1. CASE i \in 1..Len(G)
    BY <1>5, <2>1 DEF Ordered, Known
  <2>2. CASE i = Len(G) + 1
    BY <1>5, <1>8, <2>2
  <2> QED
    BY <1>11, <2>1, <2>2
<1>13. ASSUME NEW q \in 1..Len(B), NEW x \in 1..Len(S), Marked(B[q], S[x])
       PROVE  j < x
  <2>1. q + D \in 1..Len(A) /\ p < q + D /\ D < q + D /\ q + D # p + 1
    BY <1>2, <1>4 DEF Rest
  <2>2. Marked(A[q + D], S[x])
    BY <1>4, <1>13 DEF Rest
  <2>3. j < x \/ (j = x /\ q + D = p + 1)
    BY <1>2, <1>10, <2>1, <2>2 DEF Ordered, InLine
  <2> QED
    BY <2>1, <2>3
<1>14. Later(B, S, T)
  <2> SUFFICES ASSUME NEW i \in 1..Len(T), NEW q \in 1..Len(B),
                      NEW y \in 1..Len(S), NEW x \in 1..Len(S),
                      S[y].msg = T[i], Marked(B[q], S[x])
               PROVE  y < x
    BY DEF Later
  <2>1. CASE i \in 1..Len(G)
    BY <1>5, <1>6, <2>1 DEF Ordered, Later
  <2>2. CASE i = Len(G) + 1
    <3>1. y = j
      BY <1>5, <1>9, <2>2
    <3> QED
      BY <1>13, <3>1
  <2> QED
    BY <1>11, <2>1, <2>2
<1>15. InOrder(S, T)
  <2> SUFFICES ASSUME NEW i \in 1..Len(T), NEW k \in 1..Len(T),
                      NEW y \in 1..Len(S), NEW x \in 1..Len(S),
                      i < k, S[y].msg = T[i], S[x].msg = T[k]
               PROVE  y < x
    BY DEF InOrder
  <2>1. CASE k \in 1..Len(G)
    <3>1. i \in 1..Len(G)
      BY <1>1, <1>5, <2>1
    <3> QED
      BY <1>5, <2>1, <3>1 DEF Ordered, InOrder
  <2>2. CASE k = Len(G) + 1
    <3>1. i \in 1..Len(G)
      BY <1>1, <1>5, <2>2
    <3>2. x = j
      BY <1>5, <1>9, <2>2
    <3>3. S[y].msg = G[i]
      BY <1>5, <3>1
    <3> QED
      BY <1>2, <1>10, <3>1, <3>2, <3>3 DEF Ordered, Later
  <2> QED
    BY <1>11, <2>1, <2>2
<1> QED
  BY <1>6, <1>12, <1>14, <1>15 DEF Ordered, T

\* The bytes that go leave each whole frame, or go with its message handed on.
LEMMA RestKept ==
  ASSUME NEW A, NEW B, NEW S, NEW G, NEW T, NEW d \in Nat, Len(A) \in Nat, Len(B) \in Nat,
         Rest(A, d, B), Kept(A, S, G),
         \A j \in 1..Len(S) : S[j].msg \in Message,
         \A i \in 1..Len(G) : \E l \in 1..Len(T) : T[l] = G[i],
         \A m \in Message : \A k \in Nat :
           At(A, k, Frame(m)) => d <= k \/ \E l \in 1..Len(T) : T[l] = m
  PROVE  Kept(B, S, T)
<1> SUFFICES ASSUME NEW j \in 1..Len(S), S[j].whole,
                    ~\E l \in 1..Len(T) : T[l] = S[j].msg
             PROVE  \E k \in Nat : At(B, k, Frame(S[j].msg))
  BY DEF Kept
<1>1. ~\E i \in 1..Len(G) : G[i] = S[j].msg
  OBVIOUS
<1>2. PICK k \in Nat : At(A, k, Frame(S[j].msg))
  BY <1>1 DEF Kept
<1>3. d <= k
  BY <1>2
<1>4. Len(Frame(S[j].msg)) \in Nat
  BY FrameBytes, MessageTypes
<1>5. k - d \in Nat /\ At(B, k - d, Frame(S[j].msg))
  BY <1>2, <1>3, <1>4, RestAt
<1> QED
  BY <1>5

LEMMA SendKept ==
  ASSUME NEW A \in Seq(Byte), NEW S \in Seq(Record), NEW G, NEW g \in Seq(Byte),
         NEW e \in Record, Kept(A, S, G), e.whole => g = Frame(e.msg)
  PROVE  Kept(A \o g, Append(S, e), G)
<1> DEFINE B == A \o g
           T == Append(S, e)
<1>1. Len(A) \in Nat /\ Len(g) \in Nat /\ IsJoint(B, A, g)
  BY Joined
<1>2. /\ Len(T) = Len(S) + 1 /\ Len(S) \in Nat
      /\ T[Len(S) + 1] = e /\ \A j \in 1..Len(S) : T[j] = S[j]
  BY Appended
<1> HIDE DEF B, T
<1> SUFFICES ASSUME NEW j \in 1..Len(T), T[j].whole,
                    ~\E i \in 1..Len(G) : G[i] = T[j].msg
             PROVE  \E k \in Nat : At(B, k, Frame(T[j].msg))
  BY DEF Kept, B, T
<1>3. CASE j \in 1..Len(S)
  <2>1. PICK k \in Nat : At(A, k, Frame(S[j].msg))
    BY <1>2, <1>3 DEF Kept
  <2>2. S[j].msg \in Message
    <3>1. S[j] \in Record
      BY <1>3, ElementOfSeq
    <3> QED
      BY <3>1 DEF Record
  <2>3. Len(Frame(S[j].msg)) \in Nat
    BY <2>2, FrameBytes, MessageTypes
  <2> DEFINE f == Frame(S[j].msg)
  <2>4. /\ k + Len(f) <= Len(A) /\ Len(f) \in Nat
        /\ \A i \in 1..Len(f) : A[k + i] = f[i] /\ k + i \in 1..Len(A)
    BY <1>1, <2>1, <2>3 DEF At
  <2> HIDE DEF f
  <2>5. k + Len(f) <= Len(B) /\ \A i \in 1..Len(f) : B[k + i] = f[i]
    BY <1>1, <2>4 DEF IsJoint
  <2>6. At(B, k, f)
    BY <2>5 DEF At
  <2> QED
    BY <1>2, <1>3, <2>6 DEF f
<1>4. CASE j = Len(S) + 1
  <2>1. T[j] = e /\ g = Frame(e.msg)
    BY <1>2, <1>4
  <2>2. Len(A) + Len(g) <= Len(B) /\ \A i \in 1..Len(g) : B[Len(A) + i] = g[i]
    BY <1>1 DEF IsJoint
  <2>3. At(B, Len(A), g)
    BY <2>2 DEF At
  <2> QED
    BY <1>1, <2>1, <2>3
<1> QED
  BY <1>2, <1>3, <1>4

LEMMA SentMessages ==
  ASSUME NEW S \in Seq(Record)
  PROVE  \A j \in 1..Len(S) : S[j] \in Record /\ S[j].msg \in Message
<1>1. \A j \in 1..Len(S) : S[j] \in Record
  BY ElementOfSeq
<1> QED
  BY <1>1 DEF Record

\* Nothing but the place of the bytes changes.
LEMMA SameHistory ==
  ASSUME History, Ahead' = Ahead, UNCHANGED <<sent, got>>
  PROVE  History'
BY DEF History

LEMMA TakeBatchHistory ==
  ASSUME TypeOK, History, NEW n \in 1..Len(line), TakeBatch(n)
  PROVE  History'
<1>1. /\ buf \in Seq(Byte) /\ line \in Seq(Byte) /\ raw = << >>
      /\ buf' = buf /\ raw' = SubSeq(line, 1, n) /\ line' = SubSeq(line, n + 1, Len(line))
      /\ UNCHANGED <<sent, got>>
  BY DEF TypeOK, TakeBatch
<1>2. /\ SubSeq(line, 1, n) \in Seq(Byte) /\ SubSeq(line, n + 1, Len(line)) \in Seq(Byte)
      /\ SubSeq(line, 1, n) \o SubSeq(line, n + 1, Len(line)) = line
  BY <1>1, SplitJoined
<1>3. Ahead' = buf \o line
  <2>1. Associates(buf, SubSeq(line, 1, n), SubSeq(line, n + 1, Len(line)))
    BY <1>1, <1>2, JoinsAssociate
  <2> QED
    BY <1>1, <1>2, <2>1 DEF Ahead, Associates
<1>4. Ahead = buf \o line
  BY <1>1, ConcatEmptySeq DEF Ahead
<1> QED
  BY <1>1, <1>3, <1>4, SameHistory

LEMMA FeedChunkHistory ==
  ASSUME TypeOK, History, FeedChunk
  PROVE  History'
<1> DEFINE n == IF Len(raw) < Chunk THEN Len(raw) ELSE Chunk
           head == SubSeq(raw, 1, n)
           rest == SubSeq(raw, n + 1, Len(raw))
<1>1. /\ buf \in Seq(Byte) /\ line \in Seq(Byte) /\ raw \in Seq(Byte)
      /\ buf' = buf \o head /\ raw' = rest /\ line' = line /\ UNCHANGED <<sent, got>>
  BY DEF TypeOK, FeedChunk
<1>2. n \in 0..Len(raw)
  BY <1>1, FramingAssumption
<1> HIDE DEF n
<1>3. head \in Seq(Byte) /\ rest \in Seq(Byte) /\ head \o rest = raw
  BY <1>1, <1>2, SplitJoined
<1> HIDE DEF head, rest
<1>4. (buf \o head) \o rest = buf \o raw
  <2>1. Associates(buf, head, rest)
    BY <1>1, <1>3, JoinsAssociate
  <2> QED
    BY <1>3, <2>1 DEF Associates
<1>5. Ahead' = Ahead
  BY <1>1, <1>4 DEF Ahead
<1> QED
  BY <1>1, <1>5, SameHistory

LEMMA SendHistory ==
  ASSUME TypeOK, History, NEW m \in Message, Send(m)
  PROVE  History'
<1>1. /\ buf \in Seq(Byte) /\ raw \in Seq(Byte) /\ line \in Seq(Byte)
      /\ sent \in Seq(Record) /\ got \in Seq(Message)
      /\ Ordered(Ahead, sent, got) /\ Kept(Ahead, sent, got)
  BY DEF TypeOK, History
<1>2. PICK e \in Record, g \in Seq(Byte) :
        /\ e.msg = m /\ Marks(g, m) /\ (e.whole => g = Frame(m))
        /\ line' = line \o g /\ sent' = Append(sent, e)
  <2>1. CASE line' = line \o Frame(m) /\ sent' = Append(sent, [msg |-> m, whole |-> TRUE])
    <3>1. [msg |-> m, whole |-> TRUE] \in Record
      BY DEF Record
    <3> QED
      BY <2>1, <3>1, FrameBytes, FrameMarks
  <2>2. CASE /\ \E f \in Altered(Frame(m)) \cup Shortened(Frame(m)) : line' = line \o f
             /\ sent' = Append(sent, [msg |-> m, whole |-> FALSE])
    <3>1. PICK f \in Altered(Frame(m)) \cup Shortened(Frame(m)) : line' = line \o f
      BY <2>2
    <3>2. f \in Seq(Byte) /\ Marks(f, m)
      BY FrameBytes, DamageOfBytes, DamageMarks
    <3>3. [msg |-> m, whole |-> FALSE] \in Record
      BY DEF Record
    <3> QED
      BY <2>2, <3>1, <3>2, <3>3
  <2> QED
    BY <2>1, <2>2 DEF Send
<1>3. UNCHANGED <<raw, buf, got>> /\ \A j \in DOMAIN sent : sent[j].msg # m
  BY DEF Send
<1>4. Ahead \in Seq(Byte) /\ Ahead' = Ahead \o g
  <2>1. buf \o raw \in Seq(Byte) /\ Ahead \in Seq(Byte)
    BY <1>1, Joined DEF Ahead
  <2>2. (buf \o raw) \o (line \o g) = ((buf \o raw) \o line) \o g
    <3>1. Associates(buf \o raw, line, g)
      BY <1>1, <2>1, JoinsAssociate
    <3> QED
      BY <3>1 DEF Associates
  <2> QED
    BY <1>2, <1>3, <2>1, <2>2 DEF Ahead
<1>5. sent' \in Seq(Record) /\ got' \in Seq(Message)
  BY <1>1, <1>2, <1>3, Appended
<1>6. Ordered(Ahead \o g, Append(sent, e), got)
  BY <1>1, <1>2, <1>3, <1>4, SendOrdered
<1>7. Kept(Ahead \o g, Append(sent, e), got)
  BY <1>1, <1>2, <1>4, SendKept
<1> QED
  BY <1>2, <1>3, <1>4, <1>5, <1>6, <1>7 DEF History

\* What the parser does to the stream, and to what it hands on.
LEMMA ParseHistory ==
  ASSUME TypeOK, History, NEW x \in Seq(Byte), NEW d \in 0..Len(buf), Rest(buf, d, x),
         NEW T \in Seq(Message),
         buf' = x, UNCHANGED <<line, raw, sent>>, got' = T,
         \A B : Len(B) \in Nat /\ Rest(Ahead, d, B) => Ordered(B, sent, T),
         \A i \in 1..Len(got) : \E l \in 1..Len(T) : T[l] = got[i],
         \A m \in Message : \A k \in Nat :
           At(Ahead, k, Frame(m)) => d <= k \/ \E l \in 1..Len(T) : T[l] = m
  PROVE  History'
<1> DEFINE B == x \o raw \o line
<1>1. /\ Ahead \in Seq(Byte) /\ B \in Seq(Byte) /\ Rest(Ahead, d, B)
  BY RestStream
<1>2. Ahead' = B
  BY DEF Ahead
<1> HIDE DEF B
<1>3. Len(Ahead) \in Nat /\ Len(B) \in Nat /\ d \in Nat
  BY <1>1
<1>4. Ordered(B, sent, T)
  BY <1>1, <1>3
<1>5. Kept(B, sent, T)
  <2>1. /\ Kept(Ahead, sent, got) /\ \A j \in 1..Len(sent) : sent[j].msg \in Message
    BY SentMessages DEF History
  <2> QED
    BY <1>1, <1>3, <2>1, RestKept
<1>6. sent \in Seq(Record) /\ sent' = sent
  BY DEF History
<1> QED
  BY <1>2, <1>4, <1>5, <1>6 DEF History

\* The first d bytes of the stream are scanned away, and the next ones are the candidate.
LEMMA ScanStream ==
  ASSUME TypeOK
  PROVE  \E d \in 0..Len(buf) :
           /\ Rest(buf, d, Scanned)
           /\ d + Len(Scanned) <= Len(Ahead)
           /\ \A i \in 1..Len(Scanned) : Ahead[d + i] = Scanned[i]
           /\ \A m \in Message : \A k \in Nat : At(Ahead, k, Frame(m)) => d <= k
<1>1. buf \in Seq(Byte) /\ Len(buf) \in Nat
  BY DEF TypeOK
<1>2. PICK d \in 0..Len(buf) : Rest(buf, d, Scanned) /\ \A i \in 1..d : Value(buf[i]) # Start
  BY <1>1, ScanRest
<1>3. Scanned \in Seq(Byte) /\ Len(Scanned) \in Nat
  BY <1>1, ScanRemoves
<1>4. Len(buf) <= Len(Ahead) /\ \A i \in 1..Len(buf) : Ahead[i] = buf[i]
  BY <1>2, <1>3, RestStream
<1>5. Len(Ahead) \in Nat
  <2>1. Ahead \in Seq(Byte)
    BY <1>2, <1>3, RestStream
  <2> QED
    BY <2>1
<1>6. Len(Scanned) = Len(buf) - d /\ \A i \in 1..Len(Scanned) : Scanned[i] = buf[i + d]
  BY <1>2 DEF Rest
<1>7. \A i \in 1..Len(Scanned) : i + d \in 1..Len(buf) /\ i + d = d + i
  BY <1>1, <1>3, <1>6
<1>8. \A i \in 1..Len(Scanned) : Ahead[d + i] = Scanned[i]
  BY <1>4, <1>6, <1>7
<1>9. d + Len(Scanned) <= Len(Ahead)
  BY <1>1, <1>3, <1>4, <1>5, <1>6
<1>10. \A m \in Message : \A k \in Nat : At(Ahead, k, Frame(m)) => d <= k
  BY <1>2, ScanKeeps
<1> QED
  BY <1>2, <1>8, <1>9, <1>10

LEMMA RestOfRest ==
  ASSUME NEW A, NEW s, NEW t, NEW d \in Nat, NEW c \in Nat,
         Len(A) \in Nat, Len(s) \in Nat, Len(t) \in Nat, Rest(A, d, s), Rest(s, c, t)
  PROVE  Rest(A, d + c, t)
<1>1. Len(t) = Len(A) - (d + c)
  BY DEF Rest
<1>2. \A i \in 1..Len(t) : i + c \in 1..Len(s) /\ (i + c) + d = i + (d + c)
  BY DEF Rest
<1>3. \A i \in 1..Len(t) : t[i] = A[i + (d + c)]
  <2> SUFFICES ASSUME NEW i \in 1..Len(t)
               PROVE  t[i] = A[i + (d + c)]
    OBVIOUS
  <2>1. t[i] = s[i + c]
    BY DEF Rest
  <2>2. s[i + c] = A[(i + c) + d]
    BY <1>2 DEF Rest
  <2> QED
    BY <1>2, <2>1, <2>2
<1> QED
  BY <1>1, <1>3 DEF Rest

LEMMA CutRest ==
  ASSUME NEW s \in Seq(Byte), NEW c \in 0..Len(s)
  PROVE  /\ SubSeq(s, c + 1, Len(s)) \in Seq(Byte) /\ Rest(s, c, SubSeq(s, c + 1, Len(s)))
<1> DEFINE t == SubSeq(s, c + 1, Len(s))
<1>1. Len(s) \in Nat /\ c \in Nat
  OBVIOUS
<1>2. t \in Seq(Byte) /\ Len(t) = Len(s) - c /\ \A i \in 1..(Len(s) - c) : t[i] = s[c + i]
  <2>1. \A i \in (c + 1)..Len(s) : s[i] \in Byte
    BY <1>1, ElementOfSeq
  <2> QED
    BY <1>1, <2>1, SubSeqProperties
<1> HIDE DEF t
<1>3. \A i \in 1..(Len(s) - c) : c + i = i + c
  BY <1>1
<1> QED
  BY <1>2, <1>3 DEF Rest, t

LEMMA AwaitBytesHistory ==
  ASSUME Inv, History, AwaitBytes
  PROVE  History'
<1>1. /\ TypeOK /\ buf \in Seq(Byte) /\ Fits
      /\ buf' = Scanned /\ UNCHANGED <<line, raw, sent>> /\ got' = got
  BY DEF Inv, TypeOK, NoOverflow, AwaitBytes
<1>2. PICK d \in 0..Len(buf) :
        /\ Rest(buf, d, Scanned)
        /\ \A m \in Message : \A k \in Nat : At(Ahead, k, Frame(m)) => d <= k
  BY <1>1, ScanStream
<1>3. Scanned \in Seq(Byte) /\ got \in Seq(Message) /\ Ordered(Ahead, sent, got)
  BY <1>1, ScanRemoves DEF History
<1>4. Len(Ahead) \in Nat /\ d \in Nat
  <2>1. Ahead \in Seq(Byte)
    BY <1>1, <1>2, <1>3, RestStream
  <2> QED
    BY <2>1
<1>5. \A B : Len(B) \in Nat /\ Rest(Ahead, d, B) => Ordered(B, sent, got)
  BY <1>3, <1>4, RestOrdered
<1>6. \A i \in 1..Len(got) : \E l \in 1..Len(got) : got[l] = got[i]
  OBVIOUS
<1> QED
  BY <1>1, <1>2, <1>3, <1>5, <1>6, ParseHistory

LEMMA CrcMismatchHistory ==
  ASSUME Inv, History, CrcMismatch
  PROVE  History'
<1>1. /\ TypeOK /\ buf \in Seq(Byte) /\ Complete(Scanned) /\ ~CrcMatches(Scanned)
      /\ buf' = Tail(Scanned) /\ UNCHANGED <<line, raw, sent>> /\ got' = got
  BY DEF Inv, TypeOK, CrcMismatch
<1>2. PICK d \in 0..Len(buf) :
        /\ Rest(buf, d, Scanned)
        /\ d + Len(Scanned) <= Len(Ahead)
        /\ \A i \in 1..Len(Scanned) : Ahead[d + i] = Scanned[i]
        /\ \A m \in Message : \A k \in Nat : At(Ahead, k, Frame(m)) => d <= k
  BY <1>1, ScanStream
<1>3. Scanned \in Seq(Byte) /\ got \in Seq(Message) /\ Ordered(Ahead, sent, got)
  BY <1>1, ScanRemoves DEF History
<1>4. Len(Ahead) \in Nat /\ d \in Nat /\ Len(buf) \in Nat
  <2>1. Ahead \in Seq(Byte)
    BY <1>1, <1>2, <1>3, RestStream
  <2> QED
    BY <1>1, <2>1
<1>5. Len(Scanned) \in Nat /\ Len(Scanned) >= 3 /\ Len(Scanned) = Len(buf) - d
  BY <1>1, <1>2, <1>3 DEF Complete, Rest
<1>6. /\ Tail(Scanned) \in Seq(Byte) /\ Len(Tail(Scanned)) \in Nat
      /\ Rest(buf, d + 1, Tail(Scanned)) /\ d + 1 \in 0..Len(buf)
  <2>1. 1 \in 0..Len(Scanned) /\ 1 \in Nat /\ Len(buf) \in Nat
    BY <1>1, <1>5
  <2>2. Tail(Scanned) = SubSeq(Scanned, 1 + 1, Len(Scanned))
    BY <1>3, <1>5
  <2>3. Tail(Scanned) \in Seq(Byte) /\ Rest(Scanned, 1, Tail(Scanned))
    BY <1>3, <2>1, <2>2, CutRest
  <2>4. Len(Tail(Scanned)) \in Nat
    BY <2>3
  <2>5. Rest(buf, d + 1, Tail(Scanned))
    BY <1>2, <1>4, <1>5, <2>1, <2>3, <2>4, RestOfRest
  <2> QED
    BY <1>4, <1>5, <2>3, <2>4, <2>5
<1>7. \A B : Len(B) \in Nat /\ Rest(Ahead, d + 1, B) => Ordered(B, sent, got)
  BY <1>3, <1>4, RestOrdered
<1>8. \A m \in Message : \A k \in Nat : At(Ahead, k, Frame(m)) => d + 1 <= k
  <2> SUFFICES ASSUME NEW m \in Message, At(Ahead, d, Frame(m))
               PROVE  FALSE
    BY <1>2, <1>4
  <2>1. \A i \in 1..Len(Frame(m)) : i <= Len(Scanned) => Scanned[i] = Frame(m)[i]
    <3>1. Len(Frame(m)) \in Nat
      BY FrameBytes, MessageTypes
    <3>2. \A i \in 1..Len(Frame(m)) : i <= Len(Scanned) => i \in 1..Len(Scanned)
      BY <1>5, <3>1
    <3> QED
      BY <1>2, <3>2 DEF At
  <2>2. CrcMatches(Scanned)
    BY <1>1, <1>3, <2>1, HeadFrame
  <2> QED
    BY <1>1, <2>2
<1>9. \A i \in 1..Len(got) : \E l \in 1..Len(got) : got[l] = got[i]
  OBVIOUS
<1> QED
  BY <1>1, <1>3, <1>6, <1>7, <1>8, <1>9, ParseHistory

LEMMA DeliverHistory ==
  ASSUME Inv, History, Deliver
  PROVE  History'
<1> DEFINE s == Scanned
           F == FrameSize(s)
           t == SubSeq(s, F + 1, Len(s))
<1>1. /\ TypeOK /\ buf \in Seq(Byte) /\ Complete(s) /\ CrcMatches(s)
      /\ buf' = t /\ UNCHANGED <<line, raw, sent>> /\ got' = Append(got, Extracted(s))
  BY DEF Inv, TypeOK, Deliver
<1>2. PICK d \in 0..Len(buf) :
        /\ Rest(buf, d, s)
        /\ d + Len(s) <= Len(Ahead)
        /\ \A i \in 1..Len(s) : Ahead[d + i] = s[i]
        /\ \A m \in Message : \A k \in Nat : At(Ahead, k, Frame(m)) => d <= k
  BY <1>1, ScanStream
<1>3. /\ s \in Seq(Byte) /\ got \in Seq(Message) /\ sent \in Seq(Record)
      /\ Ordered(Ahead, sent, got)
  BY <1>1, ScanRemoves DEF History
<1>4. Len(Ahead) \in Nat /\ d \in Nat /\ Len(buf) \in Nat /\ Len(s) \in Nat
  <2>1. Ahead \in Seq(Byte)
    BY <1>1, <1>2, <1>3, RestStream
  <2> QED
    BY <1>1, <1>3, <2>1
<1>5. PICK h \in Message : Looks(s, 0, h) /\ Extracted(s) = h /\ F = 5 + Len(h.payload)
  BY <1>1, <1>3, Candidate
<1>6. F \in Nat /\ F <= Len(s) /\ Len(s) = Len(buf) - d /\ Len(h.payload) \in Nat
  <2>1. F \in Nat /\ F <= Len(s)
    <3>1. PayloadLen(s) \in Nat
      BY <1>1, <1>3, CompleteSize, Constants
    <3> QED
      BY <1>1, <1>3, <3>1, CompleteSize
  <2>2. Len(s) = Len(buf) - d
    BY <1>2 DEF Rest
  <2> QED
    BY <2>1, <2>2, MessageTypes
<1> HIDE DEF s, F
<1>7. t \in Seq(Byte) /\ Rest(buf, d + F, t) /\ d + F \in 0..Len(buf)
  <2>1. F \in 0..Len(s)
    BY <1>4, <1>6
  <2>2. t \in Seq(Byte) /\ Rest(s, F, t)
    BY <1>3, <2>1, CutRest
  <2>3. Len(t) \in Nat
    BY <2>2
  <2>4. Rest(buf, d + F, t)
    BY <1>2, <1>4, <1>6, <2>2, <2>3, RestOfRest
  <2> QED
    BY <1>4, <1>6, <2>2, <2>4
<1>8. Looks(Ahead, d, h)
  <2>1. \A i \in 1..F : Ahead[d + i] = s[0 + i]
    <3>1. \A i \in 1..F : i \in 1..Len(s) /\ 0 + i = i
      BY <1>4, <1>6
    <3>2. \A i \in 1..F : Ahead[d + i] = s[i]
      BY <1>2, <3>1
    <3> QED
      BY <3>1, <3>2
  <2>2. /\ \A i \in 1..(3 + Len(h.payload)) : i \in 1..F
        /\ 4 + Len(h.payload) \in 1..F /\ 5 + Len(h.payload) \in 1..F
    BY <1>5, <1>6
  <2>3. d + (5 + Len(h.payload)) <= Len(Ahead)
    BY <1>2, <1>4, <1>5, <1>6
  <2>4. \A i \in 1..(3 + Len(h.payload)) : Value(Ahead[d + i]) = Image(h)[i]
    BY <1>5, <2>1, <2>2 DEF Looks
  <2>5. /\ Origin(Ahead[d + (4 + Len(h.payload))]) = Image(h)
        /\ Origin(Ahead[d + (5 + Len(h.payload))]) = Image(h)
    BY <1>5, <2>1, <2>2 DEF Looks
  <2> QED
    BY <2>3, <2>4, <2>5 DEF Looks
<1> DEFINE T == Append(got, h)
<1>9. /\ T \in Seq(Message) /\ Len(got) \in Nat /\ Len(T) = Len(got) + 1
      /\ T[Len(got) + 1] = h /\ \A i \in 1..Len(got) : T[i] = got[i]
  BY <1>3, Appended
<1>10. \A B : Len(B) \in Nat /\ Rest(Ahead, d + F, B) => Ordered(B, sent, T)
  BY <1>3, <1>4, <1>5, <1>8, DeliverOrdered
<1> HIDE DEF T
<1>11. \A i \in 1..Len(got) : \E l \in 1..Len(T) : T[l] = got[i]
  <2>1. \A i \in 1..Len(got) : i \in 1..Len(T) /\ T[i] = got[i]
    BY <1>9
  <2> QED
    BY <2>1
<1>12. \A m \in Message : \A k \in Nat :
         At(Ahead, k, Frame(m)) => d + F <= k \/ \E l \in 1..Len(T) : T[l] = m
  <2> SUFFICES ASSUME NEW m \in Message, NEW k \in Nat, At(Ahead, k, Frame(m))
               PROVE  d + F <= k \/ \E l \in 1..Len(T) : T[l] = m
    OBVIOUS
  <2>1. d < k \/ d = k
    BY <1>2, <1>4
  <2>2. CASE d < k
    BY <1>4, <1>5, <1>8, <2>2, NoCut
  <2>3. CASE d = k
    <3>1. \A i \in 1..Len(Frame(m)) : i <= Len(s) => s[i] = Frame(m)[i]
      <4>1. Len(Frame(m)) \in Nat
        BY FrameBytes, MessageTypes
      <4>2. \A i \in 1..Len(Frame(m)) : i <= Len(s) => i \in 1..Len(s)
        BY <1>4, <4>1
      <4> QED
        BY <1>2, <2>3, <4>2 DEF At
    <3>2. m = h
      BY <1>1, <1>3, <1>5, <3>1, HeadFrame
    <3>3. Len(got) + 1 \in 1..Len(T)
      BY <1>9
    <3> QED
      BY <1>9, <3>2, <3>3
  <2> QED
    BY <2>1, <2>2, <2>3
<1>13. got' = T
  BY <1>1, <1>5 DEF T
<1> HIDE DEF t
<1> QED
  BY <1>1, <1>7, <1>9, <1>10, <1>11, <1>12, <1>13, ParseHistory

LEMMA InitHistory ==
  ASSUME Init
  PROVE  History
<1>1. sent \in Seq(Record) /\ got \in Seq(Message)
  <2>1. << >> \in Seq(Record)
    OBVIOUS
  <2>2. << >> \in Seq(Message)
    OBVIOUS
  <2> QED
    BY <2>1, <2>2 DEF Init
<1>2. Len(sent) = 0 /\ Len(got) = 0
  BY DEF Init
<1>3. Len(Ahead) = 0
  <2>1. << >> \o << >> = << >>
    OBVIOUS
  <2> QED
    BY <2>1 DEF Init, Ahead
<1>4. 1..0 = {}
  OBVIOUS
<1>5. Once(sent) /\ Known(sent, got) /\ InOrder(sent, got)
  BY <1>2, <1>4 DEF Once, Known, InOrder
<1>6. Traced(Ahead, sent) /\ InLine(Ahead, sent) /\ Later(Ahead, sent, got)
  BY <1>2, <1>3, <1>4 DEF Traced, InLine, Later
<1>7. Kept(Ahead, sent, got)
  BY <1>2, <1>4 DEF Kept
<1> QED
  BY <1>1, <1>5, <1>6, <1>7 DEF History, Ordered

LEMMA FramingHistory == Spec => [](Inv /\ History)
<1>1. Init => History
  BY InitHistory
<1>2. Inv /\ History /\ [Next]_vars => History'
  <2> SUFFICES ASSUME Inv, History, [Next]_vars
               PROVE  History'
    OBVIOUS
  <2>0. TypeOK
    BY DEF Inv
  <2>1. CASE \E m \in Message : Send(m)
    BY <2>0, <2>1, SendHistory
  <2>2. CASE \E n \in 1..Len(line) : TakeBatch(n)
    BY <2>0, <2>2, TakeBatchHistory
  <2>3. CASE FeedChunk
    BY <2>0, <2>3, FeedChunkHistory
  <2>4. CASE AwaitBytes
    BY <2>4, AwaitBytesHistory
  <2>5. CASE CrcMismatch
    BY <2>5, CrcMismatchHistory
  <2>6. CASE Deliver
    BY <2>6, DeliverHistory
  <2>7. CASE UNCHANGED vars
    <3>1. Ahead' = Ahead /\ UNCHANGED <<sent, got>>
      BY <2>7 DEF vars, Ahead
    <3> QED
      BY <3>1, SameHistory
  <2> QED
    BY <2>1, <2>2, <2>3, <2>4, <2>5, <2>6, <2>7 DEF Next
<1> QED
  BY <1>1, <1>2, FramingInvariant, PTL DEF Spec

\* Every message whose frame arrives whole is handed to OnMessageReceived(), or its bytes are
\* all still to be parsed: resynchronising after damage (CRC_MISMATCH drops one byte, not the
\* frame, binary_protocol.cpp:113) never skips a whole frame, for all frames, damages, batches
\* and chunks.
THEOREM FramingWholeFramesKept == Spec => []WholeFramesKept
<1>1. Inv /\ History => WholeFramesKept
  <2> SUFFICES ASSUME Inv, History, NEW i \in DOMAIN sent, sent[i].whole,
                      ~Contains(got, sent[i].msg)
               PROVE  Holds(Ahead, Frame(sent[i].msg))
    BY DEF WholeFramesKept
  <2>1. sent \in Seq(Record) /\ Kept(Ahead, sent, got)
    BY DEF History
  <2>2. i \in 1..Len(sent)
    BY <2>1
  <2>3. sent[i].msg \in Message
    BY <2>1, <2>2, SentMessages
  <2>4. ~\E l \in 1..Len(got) : got[l] = sent[i].msg
    BY DEF Contains
  <2>5. PICK k \in Nat : At(Ahead, k, Frame(sent[i].msg))
    BY <2>1, <2>2, <2>4 DEF Kept
  <2>6. Ahead \in Seq(Byte)
    <3>1. buf \in Seq(Byte) /\ raw \in Seq(Byte) /\ line \in Seq(Byte)
      BY DEF Inv, TypeOK
    <3>2. buf \o raw \in Seq(Byte)
      BY <3>1, Joined
    <3> QED
      BY <3>1, <3>2, Joined DEF Ahead
  <2>7. Frame(sent[i].msg) \in Seq(Byte)
    BY <2>3, FrameBytes
  <2> QED
    BY <2>5, <2>6, <2>7, AtHolds
<1> QED
  BY <1>1, FramingHistory, PTL

\* What is handed to OnMessageReceived() was sent, each message once and in the order of
\* sending, whatever the line does to the frames (ExtractFrames).
THEOREM FramingDeliveredInOrder == Spec => []DeliveredInOrder
<1>1. History => DeliveredInOrder
  <2> SUFFICES ASSUME History
               PROVE  DeliveredInOrder
    OBVIOUS
  <2>1. /\ sent \in Seq(Record) /\ got \in Seq(Message)
        /\ Known(sent, got) /\ InOrder(sent, got)
    BY DEF History, Ordered
  <2>2. DOMAIN sent = 1..Len(sent) /\ DOMAIN got = 1..Len(got)
    BY <2>1
  <2> DEFINE at == [i \in DOMAIN got |-> CHOOSE j \in DOMAIN sent : sent[j].msg = got[i]]
  <2>3. \A i \in DOMAIN got : at[i] \in DOMAIN sent /\ sent[at[i]].msg = got[i]
    <3> SUFFICES ASSUME NEW i \in DOMAIN got
                 PROVE  at[i] \in DOMAIN sent /\ sent[at[i]].msg = got[i]
      OBVIOUS
    <3>1. \E j \in DOMAIN sent : sent[j].msg = got[i]
      BY <2>1, <2>2 DEF Known
    <3> QED
      BY <3>1
  <2>4. at \in [DOMAIN got -> DOMAIN sent]
    BY <2>3
  <2> HIDE DEF at
  <2>5. \A i, k \in DOMAIN got : i < k => at[i] < at[k]
    BY <2>1, <2>2, <2>3 DEF InOrder
  <2> QED
    BY <2>3, <2>4, <2>5 DEF DeliveredInOrder
<1> QED
  BY <1>1, FramingHistory, PTL
=============================================================================
