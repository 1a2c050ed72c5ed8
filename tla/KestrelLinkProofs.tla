------------------------- MODULE KestrelLinkProofs -------------------------
(***************************************************************************)
(* What holds of the link for every Payload, Boot, MaxSent and MaxQueue:   *)
(* the type invariant, the order of the ACKs, and that an ACK answers the  *)
(* command that returns it as long as no wait was cut short.               *)
(***************************************************************************)
EXTENDS KestrelLink, TLAPS, SequenceTheorems

-----------------------------------------------------------------------------
(* The data the actions move.                                              *)

\* Read() leaves a well-typed slot behind.
LEMMA SlotAfterReadType ==
  ASSUME TypeOK
  PROVE  /\ SlotAfterRead \in [received : BOOLEAN, ack : Ack \cup {NoAck}]
         /\ ToHostAfterRead \in Seq(Ack)
<1>1. CASE fd = "live" /\ toHost # << >>
  <2>1. toHost \in Seq(Ack) /\ Len(toHost) \in 1..Len(toHost)
    BY <1>1, EmptySeq, LenProperties DEF TypeOK
  <2>2. Last(toHost) \in Ack
    BY <2>1, ElementOfSeq DEF Last
  <2>3. QED
    BY <1>1, <2>2 DEF SlotAfterRead, ToHostAfterRead
<1>2. CASE ~(fd = "live" /\ toHost # << >>)
  BY <1>2 DEF SlotAfterRead, ToHostAfterRead, TypeOK
<1>3. QED
  BY <1>1, <1>2

\* The ACK that answers a pending call is an ACK of the board, before and after the
\* handshake's status is normalised, and keeps its MSG_ID and its number.
LEMMA AnswerType ==
  ASSUME TypeOK, call # NoCall, Answers(SlotAfterRead, call.id)
  PROVE  /\ SlotAfterRead.received
         /\ SlotAfterRead.ack \in Ack
         /\ Normalised(SlotAfterRead.ack) \in Ack
         /\ Normalised(SlotAfterRead.ack).id = call.id
         /\ Normalised(SlotAfterRead.ack).seq = SlotAfterRead.ack.seq
<1>1. call.id \in Acked
  BY DEF TypeOK
<1>2. SlotAfterRead.ack \in Ack /\ SlotAfterRead.ack.id = call.id /\ SlotAfterRead.received
  BY <1>1, SlotAfterReadType DEF Answers, NoAck, Acked
<1>3. QED
  BY <1>2 DEF Normalised, Ack, Answer

\* Executing a frame gives the board settings it can have.
LEMMA BoardAfterType ==
  ASSUME TypeOK, NEW frame \in Frame, NEW b \in BoardAfter(frame)
  PROVE  b \in [Setting -> Arg]
<1>1. board \in [Setting -> Arg] /\ Boot \in [Setting -> Arg] /\ frame.arg \in Arg
  BY LinkAssumption DEF TypeOK, Frame
<1>2. CASE frame.id \in Setting
  BY <1>1, <1>2 DEF BoardAfter
<1>3. CASE frame.id \notin Setting
  <2>1. Boot["WHEEL_VELOCITY"] \in Arg
    BY <1>1 DEF Setting
  <2>2. QED
    BY <1>1, <1>3, <2>1 DEF BoardAfter
<1>4. QED
  BY <1>2, <1>3

-----------------------------------------------------------------------------
(* Types.                                                                  *)

\* A step of the host keeps the types.
LEMMA HostKeepsTypes ==
  ASSUME TypeOK, HostNext
  PROVE  TypeOK'
<1>1. ASSUME NEW ok \in BOOLEAN, Connect(ok)
      PROVE  TypeOK'
  <2>1. << >> \in Seq(Ack)
    OBVIOUS
  <2>2. QED
    BY <1>1, <2>1 DEF Connect, ConnectAlreadyOpen, ConnectOpens, ConnectThrows,
       ConnectHalfway, TypeOK, vars, line, mcu, host
<1>2. ASSUME Shutdown
      PROVE  TypeOK'
  BY <1>2 DEF Shutdown, TypeOK, line, mcu, host
<1>3. ASSUME NEW id \in Acked, NEW arg \in Payload[id], Issue(id, arg)
      PROVE  TypeOK'
  <2>1. [id |-> id, arg |-> arg, seq |-> sent'] \in Frame
    BY <1>3 DEF Issue, TypeOK, Frame, MsgId, Arg
  <2>2. toMcu' \in Seq(Frame)
    BY <1>3, <2>1, AppendProperties DEF Issue, TypeOK
  <2>3. QED
    BY <1>3, <2>2 DEF Issue, TypeOK, port, mcu
<1>4. ASSUME NEW id \in Acked, IssueFails(id)
      PROVE  TypeOK'
  BY <1>4 DEF IssueFails, TypeOK, port, line, mcu, Status
<1>5. ASSUME NEW id \in Unacked, NEW arg \in Payload[id], Post(id, arg)
      PROVE  TypeOK'
  <2>1. [id |-> id, arg |-> arg, seq |-> 0] \in Frame
    BY <1>5 DEF Frame, MsgId, Arg
  <2>2. toMcu' \in Seq(Frame)
    BY <1>5, <2>1, AppendProperties DEF Post, TypeOK
  <2>3. QED
    BY <1>5, <2>2 DEF Post, TypeOK, port, mcu, host
<1>6. ASSUME PostFails
      PROVE  TypeOK'
  BY <1>6 DEF PostFails, TypeOK, vars
<1>7. ASSUME Read
      PROVE  TypeOK'
  BY <1>7, SlotAfterReadType DEF Read, TypeOK, port, mcu
<1>8. ASSUME TakeAck
      PROVE  TypeOK'
  <2>1. Normalised(SlotAfterRead.ack) \in Ack
    BY <1>8, AnswerType DEF TakeAck
  <2>2. call.id \in Acked /\ call.seq \in Nat
    BY <1>8 DEF TakeAck, TypeOK
  <2>3. slot' \in [received : BOOLEAN, ack : Ack \cup {NoAck}] /\ toHost' \in Seq(Ack)
    BY <1>8, <2>1, SlotAfterReadType DEF TakeAck
  <2>4. credited' \in Nat /\ ret' \in [id : Acked, seq : Nat, ack : Nat, status : Status]
    BY <1>8, <2>1, <2>2 DEF TakeAck, Ack, Answer, Status
  <2>5. QED
    BY <1>8, <2>3, <2>4 DEF TakeAck, TypeOK, port, mcu
<1>9. ASSUME PollAgain
      PROVE  TypeOK'
  BY <1>9, SlotAfterReadType DEF PollAgain, TypeOK, port, mcu
<1>10. ASSUME GiveUp
       PROVE  TypeOK'
  BY <1>10 DEF GiveUp, TypeOK, port, line, mcu, Status
<1>11. QED
  BY <1>1, <1>2, <1>3, <1>4, <1>5, <1>6, <1>7, <1>8, <1>9, <1>10 DEF HostNext

\* A step of the board or of the line keeps the types.
LEMMA LineKeepsTypes ==
  ASSUME TypeOK, LineNext
  PROVE  TypeOK'
<1>1. ASSUME FrameLost
      PROVE  TypeOK'
  BY <1>1, HeadTailProperties DEF FrameLost, TypeOK, port, mcu, host
<1>2. ASSUME NEW answer \in Answer, BoardTakes(answer)
      PROVE  TypeOK'
  <2> DEFINE frame == Head(toMcu)
             ack   == [id |-> frame.id, status |-> answer, seq |-> frame.seq]
  <2>1. frame \in Frame /\ toMcu' \in Seq(Frame)
    BY <1>2, HeadTailProperties DEF BoardTakes, TypeOK
  <2>2. board' \in [Setting -> Arg]
    BY <1>2, <2>1, BoardAfterType DEF BoardTakes, TypeOK
  <2>3. executed' \in Nat /\ toHost' \in Seq(Ack)
    <3>1. CASE frame.id \in Acked
      <4>1. ack \in Ack
        BY <2>1, <3>1 DEF Ack, Frame
      <4>2. Append(toHost, ack) \in Seq(Ack)
        BY <4>1, AppendProperties DEF TypeOK
      <4>3. QED
        BY <1>2, <2>1, <3>1, <4>2 DEF BoardTakes, TypeOK, Frame
    <3>2. CASE frame.id \notin Acked
      BY <1>2, <3>2 DEF BoardTakes, TypeOK
    <3>3. QED
      BY <3>1, <3>2
  <2>4. QED
    BY <1>2, <2>1, <2>2, <2>3 DEF BoardTakes, TypeOK, port, host
<1>3. ASSUME BoardWatchdog
      PROVE  TypeOK'
  BY <1>3, LinkAssumption DEF BoardWatchdog, TypeOK, port, line, host, Setting
<1>4. ASSUME Unplug
      PROVE  TypeOK'
  BY <1>4, EmptySeq DEF Unplug, TypeOK, mcu, host, IsOpen
<1>5. ASSUME Replug
      PROVE  TypeOK'
  BY <1>5, LinkAssumption DEF Replug, TypeOK, line, host
<1>6. QED
  BY <1>1, <1>2, <1>3, <1>4, <1>5 DEF LineNext

\* Every variable of the link keeps its type.
THEOREM LinkTypeOK == Spec => []TypeOK
<1>1. Init => TypeOK
  <2>1. << >> \in Seq(Frame) /\ << >> \in Seq(Ack)
    OBVIOUS
  <2>2. SUFFICES ASSUME Init
                 PROVE  TypeOK
    OBVIOUS
  <2>3. /\ slot \in [received : BOOLEAN, ack : Ack \cup {NoAck}]
        /\ board \in [Setting -> Arg]
    BY <2>2, LinkAssumption DEF Init
  <2>4. QED
    BY <2>1, <2>2, <2>3 DEF Init, TypeOK
<1>2. TypeOK /\ [Next]_vars => TypeOK'
  <2>1. CASE UNCHANGED vars
    BY <2>1 DEF TypeOK, vars
  <2>2. QED
    BY <2>1, HostKeepsTypes, LineKeepsTypes DEF Next
<1>3. QED
  BY <1>1, <1>2, PTL DEF Spec

-----------------------------------------------------------------------------
(* The order of the ACKs.                                                  *)

\* Read() keeps the slot and the line behind it in order.
LEMMA SlotAfterReadOrder ==
  ASSUME TypeOK, AckOrder
  PROVE  /\ IF SlotAfterRead.received THEN credited < SlotAfterRead.ack.seq
                                      ELSE credited = SlotAfterRead.ack.seq
         /\ SlotAfterRead.ack.seq <= executed
         /\ \A i \in DOMAIN ToHostAfterRead :
              SlotAfterRead.ack.seq < ToHostAfterRead[i].seq
         /\ \A i \in DOMAIN ToHostAfterRead : ToHostAfterRead[i].seq <= executed
         /\ \A i, j \in DOMAIN ToHostAfterRead :
              i < j => ToHostAfterRead[i].seq < ToHostAfterRead[j].seq
<1>1. CASE fd = "live" /\ toHost # << >>
  <2>1. toHost \in Seq(Ack) /\ Len(toHost) \in DOMAIN toHost
    BY <1>1, EmptySeq, LenProperties DEF TypeOK
  <2>2. slot.ack.seq < Last(toHost).seq /\ Last(toHost).seq <= executed
    BY <2>1 DEF Last, AckOrder, ToHostInOrder
  <2>3. slot.ack.seq \in Nat /\ credited \in Nat
    BY DEF TypeOK, Ack, NoAck
  <2>4. credited <= slot.ack.seq
    BY <2>3 DEF AckOrder, SlotInOrder
  <2>5. credited < Last(toHost).seq
    <3>1. toHost[Len(toHost)] \in Ack
      BY <2>1
    <3>2. QED
      BY <2>2, <2>3, <2>4, <3>1 DEF Ack, Last
  <2>6. QED
    BY <1>1, <2>2, <2>5 DEF SlotAfterRead, ToHostAfterRead
<1>2. CASE ~(fd = "live" /\ toHost # << >>)
  BY <1>2 DEF SlotAfterRead, ToHostAfterRead, AckOrder, SlotInOrder, ToHostInOrder
<1>3. QED
  BY <1>1, <1>2

\* A step of the host keeps the order: a new command is numbered after all others.
LEMMA HostKeepsOrder ==
  ASSUME TypeOK, AckOrder, HostNext
  PROVE  AckOrder'
<1>1. ASSUME NEW ok \in BOOLEAN, Connect(ok)
      PROVE  AckOrder'
  BY <1>1 DEF Connect, ConnectAlreadyOpen, ConnectOpens, ConnectThrows,
     ConnectHalfway, vars, line, mcu, host, AckOrder, ToMcuInOrder, ToHostInOrder,
     SlotInOrder, CallIsLast
<1>2. ASSUME Shutdown
      PROVE  AckOrder'
  BY <1>2 DEF Shutdown, line, mcu, host, AckOrder, ToMcuInOrder, ToHostInOrder,
     SlotInOrder, CallIsLast
<1>3. ASSUME NEW id \in Acked, NEW arg \in Payload[id], Issue(id, arg)
      PROVE  AckOrder'
  <2> DEFINE frame == [id |-> id, arg |-> arg, seq |-> sent + 1]
  <2>1. /\ toMcu' = Append(toMcu, frame)
        /\ sent' = sent + 1
        /\ executed' = executed
    BY <1>3 DEF Issue, mcu
  <2>2. /\ DOMAIN toMcu = 1..Len(toMcu) /\ Len(toMcu) \in Nat
        /\ DOMAIN toMcu' = 1..(Len(toMcu) + 1)
        /\ \A i \in 1..Len(toMcu) : toMcu'[i] = toMcu[i]
        /\ toMcu'[Len(toMcu) + 1] = frame
    BY <2>1 DEF TypeOK
  <2>3. \A i \in 1..Len(toMcu) : toMcu[i].seq \in Nat
    <3>1. toMcu \in Seq(Frame)
      BY DEF TypeOK
    <3>2. \A i \in 1..Len(toMcu) : toMcu[i] \in Frame
      BY <3>1
    <3>3. QED
      BY <3>2 DEF Frame
  <2>4. \A i \in DOMAIN toMcu' : toMcu'[i].id \in Acked =>
          executed < toMcu'[i].seq /\ toMcu'[i].seq <= sent + 1
    BY <2>2, <2>3 DEF AckOrder, ToMcuInOrder, TypeOK
  <2>5. \A i, j \in DOMAIN toMcu' :
          i < j /\ toMcu'[i].id \in Acked /\ toMcu'[j].id \in Acked =>
            toMcu'[i].seq < toMcu'[j].seq
    <3>1. SUFFICES ASSUME NEW i \in DOMAIN toMcu', NEW j \in DOMAIN toMcu', i < j,
                          toMcu'[i].id \in Acked, toMcu'[j].id \in Acked
                   PROVE  toMcu'[i].seq < toMcu'[j].seq
      OBVIOUS
    <3>2. i \in 1..Len(toMcu)
      BY <2>2, <3>1
    <3>3. CASE j \in 1..Len(toMcu)
      BY <2>2, <3>1, <3>2, <3>3 DEF AckOrder, ToMcuInOrder
    <3>4. CASE j = Len(toMcu) + 1
      BY <2>2, <2>3, <3>1, <3>2, <3>4 DEF AckOrder, ToMcuInOrder, TypeOK
    <3>5. QED
      BY <2>2, <3>3, <3>4
  <2>6. ToMcuInOrder'
    BY <2>1, <2>4, <2>5 DEF ToMcuInOrder
  <2>7. ToHostInOrder' /\ SlotInOrder'
    BY <1>3 DEF Issue, mcu, AckOrder, ToHostInOrder, SlotInOrder
  <2>8. executed' <= sent' /\ CallIsLast'
    BY <1>3, <2>1 DEF Issue, AckOrder, CallIsLast, TypeOK
  <2>9. QED
    BY <2>6, <2>7, <2>8 DEF AckOrder
<1>4. ASSUME NEW id \in Acked, IssueFails(id)
      PROVE  AckOrder'
  BY <1>4 DEF IssueFails, port, line, mcu, AckOrder, ToMcuInOrder, ToHostInOrder,
     SlotInOrder, CallIsLast
<1>5. ASSUME NEW id \in Unacked, NEW arg \in Payload[id], Post(id, arg)
      PROVE  AckOrder'
  <2> DEFINE frame == [id |-> id, arg |-> arg, seq |-> 0]
  <2>1. /\ DOMAIN toMcu = 1..Len(toMcu) /\ Len(toMcu) \in Nat
        /\ DOMAIN toMcu' = 1..(Len(toMcu) + 1)
        /\ \A i \in 1..Len(toMcu) : toMcu'[i] = toMcu[i]
        /\ toMcu'[Len(toMcu) + 1] = frame
    BY <1>5 DEF Post, TypeOK
  <2>2. frame.id \notin Acked
    BY DEF Acked, Unacked
  <2>3. \A i \in DOMAIN toMcu' : toMcu'[i].id \in Acked => i \in 1..Len(toMcu)
    BY <2>1, <2>2
  <2>4. ToMcuInOrder'
    BY <1>5, <2>1, <2>3 DEF Post, mcu, host, AckOrder, ToMcuInOrder
  <2>5. QED
    BY <1>5, <2>4 DEF Post, mcu, host, AckOrder, ToHostInOrder, SlotInOrder, CallIsLast
<1>6. ASSUME PostFails
      PROVE  AckOrder'
  BY <1>6 DEF PostFails, vars, AckOrder, ToMcuInOrder, ToHostInOrder, SlotInOrder,
     CallIsLast
<1>7. ASSUME Read
      PROVE  AckOrder'
  BY <1>7, SlotAfterReadOrder DEF Read, mcu, AckOrder, ToMcuInOrder, ToHostInOrder,
     SlotInOrder, CallIsLast
<1>8. ASSUME TakeAck
      PROVE  AckOrder'
  <2> DEFINE ack == Normalised(SlotAfterRead.ack)
  <2>1. ack.seq = SlotAfterRead.ack.seq
    BY <1>8, AnswerType DEF TakeAck
  <2>2. slot' = [received |-> FALSE, ack |-> ack] /\ credited' = ack.seq
    BY <1>8 DEF TakeAck
  <2>3. SlotInOrder'
    BY <1>8, <2>1, <2>2, SlotAfterReadOrder DEF TakeAck, SlotInOrder, mcu
  <2>4. ToHostInOrder'
    BY <1>8, <2>1, <2>2, SlotAfterReadOrder DEF TakeAck, ToHostInOrder, mcu
  <2>5. QED
    BY <1>8, <2>3, <2>4 DEF TakeAck, mcu, AckOrder, ToMcuInOrder, CallIsLast
<1>9. ASSUME PollAgain
      PROVE  AckOrder'
  BY <1>9, SlotAfterReadOrder DEF PollAgain, mcu, AckOrder, ToMcuInOrder,
     ToHostInOrder, SlotInOrder, CallIsLast
<1>10. ASSUME GiveUp
       PROVE  AckOrder'
  BY <1>10 DEF GiveUp, line, mcu, AckOrder, ToMcuInOrder, ToHostInOrder, SlotInOrder,
     CallIsLast
<1>11. QED
  BY <1>1, <1>2, <1>3, <1>4, <1>5, <1>6, <1>7, <1>8, <1>9, <1>10 DEF HostNext

\* The rest of the line toward the board is in order, and past the frame just taken.
LEMMA TailInOrder ==
  ASSUME TypeOK, AckOrder, toMcu # << >>
  PROVE  /\ Tail(toMcu) \in Seq(Frame)
         /\ \A i \in DOMAIN Tail(toMcu) : Tail(toMcu)[i].id \in Acked =>
              executed < Tail(toMcu)[i].seq /\ Tail(toMcu)[i].seq <= sent
         /\ \A i \in DOMAIN Tail(toMcu) :
              Head(toMcu).id \in Acked /\ Tail(toMcu)[i].id \in Acked =>
                Head(toMcu).seq < Tail(toMcu)[i].seq
         /\ \A i, j \in DOMAIN Tail(toMcu) :
              i < j /\ Tail(toMcu)[i].id \in Acked /\ Tail(toMcu)[j].id \in Acked =>
                Tail(toMcu)[i].seq < Tail(toMcu)[j].seq
<1>1. toMcu \in Seq(Frame) /\ Len(toMcu) \in Nat /\ Len(toMcu) >= 1
  BY EmptySeq DEF TypeOK
<1>2. /\ Tail(toMcu) \in Seq(Frame)
      /\ DOMAIN Tail(toMcu) = 1..(Len(toMcu) - 1)
      /\ \A i \in 1..(Len(toMcu) - 1) : Tail(toMcu)[i] = toMcu[i + 1]
      /\ Head(toMcu) = toMcu[1]
  BY <1>1
<1>3. DOMAIN toMcu = 1..Len(toMcu)
  BY <1>1
<1>4. \A i \in DOMAIN Tail(toMcu) : i + 1 \in DOMAIN toMcu /\ 1 \in DOMAIN toMcu /\ 1 < i + 1
  BY <1>1, <1>2, <1>3
<1>5. \A i, j \in DOMAIN Tail(toMcu) : i < j => i + 1 < j + 1
  BY <1>1, <1>2
<1>6. QED
  BY <1>2, <1>4, <1>5 DEF AckOrder, ToMcuInOrder

\* A step of the board or of the line keeps the order: the board takes commands and
\* answers them in the order they were sent.
LEMMA LineKeepsOrder ==
  ASSUME TypeOK, AckOrder, LineNext
  PROVE  AckOrder'
<1>1. ASSUME FrameLost
      PROVE  AckOrder'
  BY <1>1, TailInOrder DEF FrameLost, mcu, host, AckOrder, ToMcuInOrder,
     ToHostInOrder, SlotInOrder, CallIsLast
<1>2. ASSUME NEW answer \in Answer, BoardTakes(answer)
      PROVE  AckOrder'
  <2> DEFINE frame == Head(toMcu)
             ack   == [id |-> frame.id, status |-> answer, seq |-> frame.seq]
  <2>1. toMcu # << >> /\ toMcu' = Tail(toMcu) /\ sent' = sent /\ call' = call
        /\ slot' = slot /\ credited' = credited
    BY <1>2 DEF BoardTakes, host
  <2>2. CASE frame.id \notin Acked
    BY <1>2, <2>1, <2>2, TailInOrder DEF BoardTakes, AckOrder, ToMcuInOrder,
       ToHostInOrder, SlotInOrder, CallIsLast
  <2>3. CASE frame.id \in Acked
    <3>1. executed' = frame.seq /\ toHost' \in {toHost, Append(toHost, ack)}
      BY <1>2, <2>3 DEF BoardTakes
    <3>2. executed < frame.seq /\ frame.seq <= sent
      <4>1. frame = toMcu[1] /\ 1 \in DOMAIN toMcu
        BY <2>1, EmptySeq, LenProperties DEF TypeOK
      <4>2. QED
        BY <2>3, <4>1 DEF AckOrder, ToMcuInOrder
    <3>3. executed \in Nat /\ frame.seq \in Nat /\ sent \in Nat
          /\ credited \in Nat /\ slot.ack.seq \in Nat
      <4>1. frame \in Frame
        BY <2>1, HeadTailProperties DEF TypeOK
      <4>2. QED
        BY <4>1 DEF TypeOK, Frame, Ack, NoAck
    <3>4. ToMcuInOrder'
      BY <2>1, <2>3, <3>1, TailInOrder DEF ToMcuInOrder
    <3>5. SlotInOrder' /\ executed' <= sent' /\ CallIsLast'
      BY <2>1, <3>1, <3>2, <3>3 DEF AckOrder, SlotInOrder, CallIsLast
    <3>6. /\ \A i \in DOMAIN toHost : toHost[i].seq \in Nat
          /\ DOMAIN toHost = 1..Len(toHost) /\ Len(toHost) \in Nat
      <4>1. toHost \in Seq(Ack)
        BY DEF TypeOK
      <4>2. \A i \in DOMAIN toHost : toHost[i] \in Ack
        BY <4>1
      <4>3. QED
        BY <4>1, <4>2 DEF Ack
    <3>7. CASE toHost' = toHost
      BY <2>1, <3>1, <3>2, <3>3, <3>4, <3>5, <3>6, <3>7 DEF AckOrder, ToHostInOrder
    <3>8. CASE toHost' = Append(toHost, ack)
      <4>1. /\ DOMAIN toHost' = 1..(Len(toHost) + 1)
            /\ \A i \in 1..Len(toHost) : toHost'[i] = toHost[i]
            /\ toHost'[Len(toHost) + 1] = ack
        BY <3>6, <3>8 DEF TypeOK
      <4>2. \A i \in DOMAIN toHost' :
              slot'.ack.seq < toHost'[i].seq /\ toHost'[i].seq <= executed'
        <5>1. slot.ack.seq <= executed
          BY DEF AckOrder, SlotInOrder
        <5>2. QED
          BY <2>1, <3>1, <3>2, <3>3, <3>6, <4>1, <5>1 DEF AckOrder, ToHostInOrder
      <4>3. \A i, j \in DOMAIN toHost' : i < j => toHost'[i].seq < toHost'[j].seq
        <5>1. SUFFICES ASSUME NEW i \in DOMAIN toHost', NEW j \in DOMAIN toHost', i < j
                       PROVE  toHost'[i].seq < toHost'[j].seq
          OBVIOUS
        <5>2. i \in 1..Len(toHost)
          BY <3>6, <4>1, <5>1
        <5>3. CASE j \in 1..Len(toHost)
          BY <3>6, <4>1, <5>1, <5>2, <5>3 DEF AckOrder, ToHostInOrder
        <5>4. CASE j = Len(toHost) + 1
          BY <3>2, <3>3, <3>6, <4>1, <5>2, <5>4 DEF AckOrder, ToHostInOrder
        <5>5. QED
          BY <3>6, <4>1, <5>3, <5>4
      <4>4. QED
        BY <3>4, <3>5, <4>2, <4>3 DEF AckOrder, ToHostInOrder
    <3>9. QED
      BY <3>1, <3>7, <3>8
  <2>4. QED
    BY <2>2, <2>3
<1>3. ASSUME BoardWatchdog
      PROVE  AckOrder'
  BY <1>3 DEF BoardWatchdog, line, host, AckOrder, ToMcuInOrder, ToHostInOrder,
     SlotInOrder, CallIsLast
<1>4. ASSUME Unplug
      PROVE  AckOrder'
  BY <1>4 DEF Unplug, mcu, host, AckOrder, ToMcuInOrder, ToHostInOrder,
     SlotInOrder, CallIsLast
<1>5. ASSUME Replug
      PROVE  AckOrder'
  BY <1>5 DEF Replug, line, host, AckOrder, ToMcuInOrder, ToHostInOrder,
     SlotInOrder, CallIsLast
<1>6. QED
  BY <1>1, <1>2, <1>3, <1>4, <1>5 DEF LineNext

\* ACKs are credited in the order of their commands, each one after the board took the
\* command it answers.
THEOREM LinkAckOrder == Spec => []AckOrder
<1>1. Init => AckOrder
  BY DEF Init, AckOrder, ToMcuInOrder, ToHostInOrder, SlotInOrder, CallIsLast, NoAck
<1>2. TypeOK /\ AckOrder /\ [Next]_vars => AckOrder'
  <2>1. CASE UNCHANGED vars
    BY <2>1 DEF vars, AckOrder, ToMcuInOrder, ToHostInOrder, SlotInOrder, CallIsLast
  <2>2. QED
    BY <2>1, HostKeepsOrder, LineKeepsOrder DEF Next
<1>3. QED
  BY <1>1, <1>2, LinkTypeOK, PTL DEF Spec

-----------------------------------------------------------------------------
(* What an ACK is worth.                                                   *)

\* An ACK is newer than every ACK that was credited before it.
THEOREM LinkAckCreditedOnce == Spec => AckCreditedOnce
<1>1. ASSUME TypeOK, AckOrder, [Next]_vars, ret' # ret, ret'.ack # 0
      PROVE  ret'.ack > credited
  <2>1. TakeAck
    <3>1. CASE HostNext
      <4>1. ASSUME NEW ok \in BOOLEAN, Connect(ok)
            PROVE  FALSE
        BY <1>1, <4>1 DEF Connect, ConnectAlreadyOpen, ConnectOpens, ConnectThrows,
           ConnectHalfway, vars, host
      <4>2. ASSUME Shutdown \/ PostFails \/ Read \/ PollAgain
            PROVE  FALSE
        BY <1>1, <4>2 DEF Shutdown, PostFails, Read, PollAgain, vars, host
      <4>3. ASSUME NEW id \in MsgId, NEW arg, Issue(id, arg) \/ Post(id, arg)
            PROVE  FALSE
        BY <1>1, <4>3 DEF Issue, Post, host
      <4>4. ASSUME NEW id \in Acked, IssueFails(id)
            PROVE  FALSE
        BY <1>1, <4>4 DEF IssueFails
      <4>5. ASSUME GiveUp
            PROVE  FALSE
        BY <1>1, <4>5 DEF GiveUp
      <4>6. QED
        BY <3>1, <4>1, <4>2, <4>3, <4>4, <4>5 DEF HostNext, MsgId
    <3>2. CASE LineNext \/ UNCHANGED vars
      BY <1>1, <3>2 DEF LineNext, FrameLost, BoardTakes, BoardWatchdog, Unplug, Replug,
         host, vars
    <3>3. QED
      BY <1>1, <3>1, <3>2 DEF Next
  <2>2. SlotAfterRead.received /\ ret'.ack = SlotAfterRead.ack.seq
        /\ SlotAfterRead.ack \in Ack
    BY <1>1, <2>1, AnswerType DEF TakeAck
  <2>3. credited < SlotAfterRead.ack.seq
    BY <1>1, <2>2, SlotAfterReadOrder
  <2>4. QED
    BY <1>1, <2>2, <2>3 DEF TypeOK, Ack
<1>2. TypeOK /\ AckOrder /\ [Next]_vars
        => [ret' # ret /\ ret'.ack # 0 => ret'.ack > credited]_vars
  BY <1>1
<1>3. QED
  BY <1>2, LinkTypeOK, LinkAckOrder, PTL DEF Spec, AckCreditedOnce

\* The pending call is the only one with anything outstanding: a step keeps it so.
LEMMA HostKeepsOnlyThisCall ==
  ASSUME TypeOK, AckOrder, OnlyThisCall, HostNext
  PROVE  OnlyThisCall'
<1>1. ASSUME NEW ok \in BOOLEAN, Connect(ok)
      PROVE  OnlyThisCall'
  BY <1>1 DEF Connect, ConnectAlreadyOpen, ConnectOpens, ConnectThrows,
     ConnectHalfway, vars, line, mcu, host, OnlyThisCall
<1>2. ASSUME Shutdown \/ PostFails
      PROVE  OnlyThisCall'
  BY <1>2 DEF Shutdown, PostFails, vars, line, mcu, host, OnlyThisCall
<1>3. ASSUME NEW id \in Acked, NEW arg \in Payload[id], Issue(id, arg)
      PROVE  OnlyThisCall'
  <2>1. /\ DOMAIN toMcu = 1..Len(toMcu) /\ Len(toMcu) \in Nat
        /\ DOMAIN toMcu' = 1..(Len(toMcu) + 1)
        /\ \A i \in 1..Len(toMcu) : toMcu'[i] = toMcu[i]
        /\ toMcu'[Len(toMcu) + 1].seq = sent'
    BY <1>3 DEF Issue, TypeOK
  <2>2. call' # NoCall
    BY <1>3 DEF Issue, NoCall, Acked
  <2>3. QED
    BY <1>3, <2>1, <2>2 DEF Issue, OnlyThisCall
<1>4. ASSUME NEW id \in Acked, IssueFails(id)
      PROVE  OnlyThisCall'
  BY <1>4 DEF IssueFails, line, mcu, OnlyThisCall
<1>5. ASSUME NEW id \in Unacked, NEW arg \in Payload[id], Post(id, arg)
      PROVE  OnlyThisCall'
  <2>1. /\ DOMAIN toMcu = 1..Len(toMcu) /\ Len(toMcu) \in Nat
        /\ DOMAIN toMcu' = 1..(Len(toMcu) + 1)
        /\ \A i \in 1..Len(toMcu) : toMcu'[i] = toMcu[i]
        /\ toMcu'[Len(toMcu) + 1].id \notin Acked
    BY <1>5 DEF Post, TypeOK, Acked, Unacked
  <2>2. QED
    BY <1>5, <2>1 DEF Post, host, OnlyThisCall
<1>6. ASSUME Read \/ PollAgain
      PROVE  OnlyThisCall'
  <2>1. /\ DOMAIN toHost = 1..Len(toHost) /\ Len(toHost) \in Nat
        /\ toHost # << >> => Len(toHost) \in DOMAIN toHost
    BY EmptySeq DEF TypeOK
  <2>2. ~late => (SlotAfterRead.received =>
          call # NoCall /\ SlotAfterRead.ack.seq = call.seq)
    BY <2>1 DEF OnlyThisCall, SlotAfterRead, Last
  <2>3. ~late => \A i \in DOMAIN ToHostAfterRead :
          call # NoCall /\ ToHostAfterRead[i].seq = call.seq
    BY DEF OnlyThisCall, ToHostAfterRead
  <2>4. QED
    BY <1>6, <2>2, <2>3 DEF Read, PollAgain, OnlyThisCall
<1>7. ASSUME TakeAck
      PROVE  OnlyThisCall'
  <2>1. SUFFICES ASSUME ~late
                 PROVE  OnlyThisCall'
    BY <1>7 DEF TakeAck, OnlyThisCall
  <2>2. /\ DOMAIN toHost = 1..Len(toHost) /\ Len(toHost) \in Nat
        /\ toHost # << >> => Len(toHost) \in DOMAIN toHost
    BY EmptySeq DEF TypeOK
  <2>3. SlotAfterRead.received /\ SlotAfterRead.ack \in Ack
    BY <1>7, AnswerType DEF TakeAck
  <2>4. SlotAfterRead.ack.seq = call.seq
    BY <2>1, <2>2, <2>3 DEF OnlyThisCall, SlotAfterRead, Last
  <2>5. call.seq \in Nat /\ executed \in Nat
    BY <1>7 DEF TakeAck, TypeOK
  <2>6. call.seq <= executed
    BY <2>4, SlotAfterReadOrder
  <2>7. \A i \in DOMAIN toMcu : toMcu[i].id \notin Acked
    BY <2>1, <2>5, <2>6 DEF OnlyThisCall, AckOrder, ToMcuInOrder
  <2>8. \A i \in DOMAIN ToHostAfterRead : FALSE
    BY <2>1, <2>4, <2>5, SlotAfterReadOrder DEF OnlyThisCall, ToHostAfterRead
  <2>9. QED
    BY <1>7, <2>7, <2>8 DEF TakeAck, OnlyThisCall
<1>8. ASSUME GiveUp
      PROVE  OnlyThisCall'
  BY <1>8 DEF GiveUp, OnlyThisCall
<1>9. QED
  BY <1>1, <1>2, <1>3, <1>4, <1>5, <1>6, <1>7, <1>8 DEF HostNext

LEMMA LineKeepsOnlyThisCall ==
  ASSUME TypeOK, OnlyThisCall, LineNext
  PROVE  OnlyThisCall'
<1>1. toMcu \in Seq(Frame) /\ toHost \in Seq(Ack)
  BY DEF TypeOK
<1>2. ASSUME toMcu # << >>
      PROVE  /\ 1 \in DOMAIN toMcu /\ Head(toMcu) = toMcu[1]
             /\ \A i \in DOMAIN Tail(toMcu) :
                  i + 1 \in DOMAIN toMcu /\ Tail(toMcu)[i] = toMcu[i + 1]
  BY <1>1, <1>2, EmptySeq
<1>3. ASSUME FrameLost
      PROVE  OnlyThisCall'
  BY <1>2, <1>3 DEF FrameLost, mcu, host, OnlyThisCall
<1>4. ASSUME NEW answer \in Answer, BoardTakes(answer)
      PROVE  OnlyThisCall'
  <2> DEFINE frame == Head(toMcu)
             ack   == [id |-> frame.id, status |-> answer, seq |-> frame.seq]
  <2>1. toMcu # << >> /\ toMcu' = Tail(toMcu) /\ late' = late /\ call' = call /\ slot' = slot
    BY <1>4 DEF BoardTakes, host
  <2>2. CASE toHost' = toHost
    BY <1>2, <2>1, <2>2 DEF OnlyThisCall
  <2>3. CASE frame.id \in Acked /\ toHost' = Append(toHost, ack)
    <3>1. /\ DOMAIN toHost = 1..Len(toHost) /\ Len(toHost) \in Nat
          /\ DOMAIN toHost' = 1..(Len(toHost) + 1)
          /\ \A i \in 1..Len(toHost) : toHost'[i] = toHost[i]
          /\ toHost'[Len(toHost) + 1] = ack
      BY <1>1, <2>3
    <3>2. ~late => call # NoCall /\ frame.seq = call.seq
      BY <1>2, <2>1, <2>3 DEF OnlyThisCall
    <3>3. QED
      BY <1>2, <2>1, <3>1, <3>2 DEF OnlyThisCall
  <2>4. QED
    BY <1>4, <2>2, <2>3 DEF BoardTakes
<1>5. ASSUME BoardWatchdog \/ Replug
      PROVE  OnlyThisCall'
  BY <1>5 DEF BoardWatchdog, Replug, line, host, OnlyThisCall
<1>6. ASSUME Unplug
      PROVE  OnlyThisCall'
  BY <1>6 DEF Unplug, mcu, host, OnlyThisCall
<1>7. QED
  BY <1>3, <1>4, <1>5, <1>6 DEF LineNext

\* Until a wait is cut short, nothing is outstanding but the pending call.
THEOREM LinkOnlyThisCall == Spec => []OnlyThisCall
<1>1. Init => OnlyThisCall
  BY DEF Init, OnlyThisCall
<1>2. TypeOK /\ AckOrder /\ OnlyThisCall /\ [Next]_vars => OnlyThisCall'
  <2>1. CASE UNCHANGED vars
    BY <2>1 DEF vars, OnlyThisCall
  <2>2. QED
    BY <2>1, HostKeepsOnlyThisCall, LineKeepsOnlyThisCall DEF Next
<1>3. QED
  BY <1>1, <1>2, LinkTypeOK, LinkAckOrder, PTL DEF Spec

\* Until a wait is cut short, the ACK a command returns is the answer to that command.
THEOREM LinkPunctualAck == Spec => []PunctualAck
<1>1. Init => PunctualAck
  BY DEF Init, PunctualAck, NoRet
<1>2. ASSUME TypeOK, OnlyThisCall, PunctualAck, [Next]_vars
      PROVE  PunctualAck'
  <2>1. CASE ret' = ret /\ (late => late')
    BY <1>2, <2>1 DEF PunctualAck
  <2>2. CASE ret'.ack = 0
    BY <2>2 DEF PunctualAck
  <2>3. CASE TakeAck
    <3>1. SUFFICES ASSUME ~late
                   PROVE  PunctualAck'
      BY <2>3 DEF TakeAck, PunctualAck
    <3>2. toHost # << >> => Len(toHost) \in DOMAIN toHost
      BY <1>2, EmptySeq, LenProperties DEF TypeOK
    <3>3. SlotAfterRead.received
          /\ Normalised(SlotAfterRead.ack).seq = SlotAfterRead.ack.seq
      BY <1>2, <2>3, AnswerType DEF TakeAck
    <3>4. SlotAfterRead.ack.seq = call.seq
      BY <1>2, <3>1, <3>2, <3>3 DEF OnlyThisCall, SlotAfterRead, Last
    <3>5. QED
      BY <2>3, <3>3, <3>4 DEF TakeAck, PunctualAck
  <2>4. CASE LineNext \/ UNCHANGED vars
    <3>1. ret' = ret /\ late' = late
      BY <2>4 DEF LineNext, FrameLost, BoardTakes, BoardWatchdog, Unplug, Replug, host, vars
    <3>2. QED
      BY <2>1, <3>1
  <2>5. CASE HostNext
    <3>1. ASSUME NEW ok \in BOOLEAN, Connect(ok)
          PROVE  ret' = ret /\ late' = late
      BY <3>1 DEF Connect, ConnectAlreadyOpen, ConnectOpens, ConnectThrows,
         ConnectHalfway, vars, host
    <3>2. ASSUME Shutdown \/ PostFails \/ Read \/ PollAgain
          PROVE  ret' = ret /\ late' = late
      BY <3>2 DEF Shutdown, PostFails, Read, PollAgain, vars, host
    <3>3. ASSUME NEW id, NEW arg, Issue(id, arg) \/ Post(id, arg)
          PROVE  ret' = ret /\ late' = late
      BY <3>3 DEF Issue, Post, host
    <3>4. ASSUME NEW id, IssueFails(id)
          PROVE  ret'.ack = 0
      BY <3>4 DEF IssueFails
    <3>5. ASSUME GiveUp
          PROVE  ret'.ack = 0
      BY <3>5 DEF GiveUp
    <3>6. QED
      BY <2>1, <2>2, <2>3, <2>5, <3>1, <3>2, <3>3, <3>4, <3>5 DEF HostNext
  <2>6. QED
    BY <1>2, <2>4, <2>5 DEF Next
<1>3. QED
  BY <1>1, <1>2, LinkTypeOK, LinkOnlyThisCall, PTL DEF Spec
=============================================================================
