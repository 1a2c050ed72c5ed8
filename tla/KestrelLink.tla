---------------------------- MODULE KestrelLink ----------------------------
(***************************************************************************)
(* The serial link between the host and the Kestrel board: the port and    *)
(* the pending-ACK slot of SerialTransport, the commands of Kestrel        *)
(* (kestrel_transport.cpp), the two directions of the USB line, and the    *)
(* board as far as the host can see it.                                    *)
(*                                                                         *)
(* The host is one thread: a command is written, then WaitForAck polls     *)
(* until an ACK with the command's MSG_ID is found in the one-place slot   *)
(* or the deadline passes.  An ACK names only the MSG_ID it answers, so    *)
(* the numbers below (seq, sent, executed, credited) are history: the code *)
(* never reads them.  `late' is history too.                               *)
(***************************************************************************)
EXTENDS Naturals, Sequences, SequencesExt

CONSTANTS
  Payload,    \* for each MSG_ID, what its command may carry beside the timestamp
  Boot,       \* the settings the board starts with
  MaxSent,    \* bound: numbered commands, those that are acknowledged
  MaxQueue    \* bound: frames on their way to the board

Acked   == {"HANDSHAKE", "SET_PID_GAINS", "SET_CMD_TIMEOUT", "RESET", "DEACTIVATE"}
Unacked == {"WHEEL_VELOCITY", "RGB_LED_SET"}
MsgId   == Acked \cup Unacked

\* What the board remembers of the commands it executed.
Setting == {"SET_PID_GAINS", "SET_CMD_TIMEOUT", "WHEEL_VELOCITY", "RGB_LED_SET"}

Arg == UNION {Payload[id] : id \in MsgId}

\* AckStatus: every refusal of the board is one value, the host treats them alike.
Status == {"OK", "COMMAND_FAILED", "TIMEOUT"}
Answer == {"OK", "COMMAND_FAILED"}

ASSUME LinkAssumption ==
  /\ DOMAIN Payload = MsgId
  /\ Boot \in [Setting -> Arg]
  /\ MaxSent \in Nat
  /\ MaxQueue \in Nat \ {0}

Frame == [id : MsgId, arg : Arg, seq : Nat]
Ack   == [id : Acked, status : Answer, seq : Nat]

NoAck  == [id |-> "NONE", status |-> "UNKNOWN", seq |-> 0]
NoCall == [id |-> "NONE", seq |-> 0]
NoRet  == [id |-> "NONE", seq |-> 0, ack |-> 0, status |-> "UNKNOWN"]

VARIABLES
  fd,         \* serial_dev_: "closed", "live", or "dead": open on a lost device
  plugged,    \* the USB device is there
  toMcu,      \* frames on their way to the board
  toHost,     \* ACK frames on their way to the host
  board,      \* the board's settings
  slot,       \* ack_received_ and the pending ACK
  call,       \* the command WaitForAck is polling for
  ret,        \* what the last acknowledged command returned
  sent,       \* history: how many acknowledged commands were written
  executed,   \* history: the last numbered command the board took
  credited,   \* history: the last numbered command whose ACK was consumed
  late        \* history: some WaitForAck gave up before its ACK came

port == <<fd, plugged>>
line == <<toMcu, toHost>>
mcu  == <<board, executed>>
host == <<slot, call, ret, sent, credited, late>>
vars == <<fd, plugged, toMcu, toHost, board, slot, call, ret, sent, executed,
          credited, late>>

Init ==
  /\ fd = "closed"
  /\ plugged \in BOOLEAN
  /\ toMcu = << >>
  /\ toHost = << >>
  /\ board = Boot
  /\ slot = [received |-> FALSE, ack |-> NoAck]
  /\ call = NoCall
  /\ ret = NoRet
  /\ sent = 0
  /\ executed = 0
  /\ credited = 0
  /\ late = FALSE

-----------------------------------------------------------------------------
(* The port.                                                               *)

IsOpen == fd # "closed"

\* Connect() on an open port returns true at once, on a lost device too.
ConnectAlreadyOpen ==
  /\ IsOpen
  /\ UNCHANGED vars

\* Connect() on a closed port: FlushIOBuffers() discards what had come in.
ConnectOpens ==
  /\ ~IsOpen
  /\ plugged
  /\ fd' = "live"
  /\ toHost' = << >>
  /\ UNCHANGED <<plugged, toMcu, mcu, host>>

\* Open() throws.
ConnectThrows ==
  /\ ~IsOpen
  /\ UNCHANGED vars

\* SetBaudRate() or FlushIOBuffers() throws: false is returned, the port is open.
ConnectHalfway ==
  /\ ~IsOpen
  /\ plugged
  /\ fd' = "live"
  /\ UNCHANGED <<plugged, line, mcu, host>>

Connect(ok) ==
  IF ok THEN ConnectAlreadyOpen \/ ConnectOpens
        ELSE ConnectThrows \/ ConnectHalfway

\* Shutdown(): Reset() clears the receive buffer and the counters, and leaves the
\* pending ACK where it is; then the port is closed.
Shutdown ==
  /\ call = NoCall
  /\ fd' = "closed"
  /\ UNCHANGED <<plugged, line, mcu, host>>

-----------------------------------------------------------------------------
(* Commands.                                                               *)

\* WriteCommand() returns false: the port is closed, or the driver throws.
CannotWrite == fd # "live"

\* The driver blocks until there is room for the frame.
CanWrite == fd = "live" /\ Len(toMcu) < MaxQueue

\* A command with an ACK is written and WaitForAck() begins.
Issue(id, arg) ==
  /\ call = NoCall
  /\ CanWrite
  /\ sent < MaxSent
  /\ sent' = sent + 1
  /\ toMcu' = Append(toMcu, [id |-> id, arg |-> arg, seq |-> sent'])
  /\ call' = [id |-> id, seq |-> sent']
  /\ UNCHANGED <<port, toHost, mcu, slot, ret, credited, late>>

\* A command with an ACK is not written: COMMAND_FAILED, without a wait.
IssueFails(id) ==
  /\ call = NoCall
  /\ CannotWrite
  /\ ret' = [id |-> id, seq |-> 0, ack |-> 0, status |-> "COMMAND_FAILED"]
  /\ UNCHANGED <<port, line, mcu, slot, call, sent, credited, late>>

\* SetWheelVelocity() and SetRGBLED() do not wait.
Post(id, arg) ==
  /\ call = NoCall
  /\ CanWrite
  /\ toMcu' = Append(toMcu, [id |-> id, arg |-> arg, seq |-> 0])
  /\ UNCHANGED <<port, toHost, mcu, host>>

PostFails ==
  /\ call = NoCall
  /\ CannotWrite
  /\ UNCHANGED vars

-----------------------------------------------------------------------------
(* Read() and WaitForAck().                                                *)

\* The pending-ACK slot after Read(): each ACK overwrites the one before.  On a
\* lost device the driver throws and Read() changes nothing.
SlotAfterRead ==
  IF fd = "live" /\ toHost # << >>
  THEN [received |-> TRUE, ack |-> Last(toHost)]
  ELSE slot

\* Fault: the parsed bytes stay in the buffer.
ToHostKept == toHost

ToHostAfterRead == IF fd = "live" THEN << >> ELSE toHost

Answers(s, id) == s.received /\ s.ack.id = id

\* The firmware version travels in the status of the handshake's ACK.
Normalised(ack) ==
  IF ack.id = "HANDSHAKE" THEN [ack EXCEPT !.status = "OK"] ELSE ack

\* Read() of the control loop, with nobody waiting.
Read ==
  /\ call = NoCall
  /\ IsOpen
  /\ slot' = SlotAfterRead
  /\ toHost' = ToHostAfterRead
  /\ UNCHANGED <<port, toMcu, mcu, call, ret, sent, credited, late>>

\* Fault: ack_received_ is not cleared.
TakeAckKeepsFlag ==
  /\ call # NoCall
  /\ Answers(SlotAfterRead, call.id)
  /\ LET ack == Normalised(SlotAfterRead.ack) IN
       /\ slot' = [received |-> TRUE, ack |-> ack]
       /\ credited' = ack.seq
       /\ ret' = [id |-> call.id, seq |-> call.seq, ack |-> ack.seq,
                  status |-> ack.status]
  /\ toHost' = ToHostAfterRead
  /\ call' = NoCall
  /\ UNCHANGED <<port, toMcu, mcu, sent, late>>

\* An iteration of WaitForAck() that finds the ACK.
TakeAck ==
  /\ call # NoCall
  /\ Answers(SlotAfterRead, call.id)
  /\ LET ack == Normalised(SlotAfterRead.ack) IN
       /\ slot' = [received |-> FALSE, ack |-> ack]
       /\ credited' = ack.seq
       /\ ret' = [id |-> call.id, seq |-> call.seq, ack |-> ack.seq,
                  status |-> ack.status]
  /\ toHost' = ToHostAfterRead
  /\ call' = NoCall
  /\ UNCHANGED <<port, toMcu, mcu, sent, late>>

\* An iteration that does not: it sleeps 5 ms and polls again.
PollAgain ==
  /\ call # NoCall
  /\ ~Answers(SlotAfterRead, call.id)
  /\ slot' = SlotAfterRead
  /\ toHost' = ToHostAfterRead
  /\ UNCHANGED <<port, toMcu, mcu, call, ret, sent, credited, late>>

\* Fault: at the deadline the pending status is returned.
GiveUpWithPending ==
  /\ call # NoCall
  /\ ret' = [id |-> call.id, seq |-> call.seq, ack |-> 0, status |-> slot.ack.status]
  /\ call' = NoCall
  /\ late' = TRUE
  /\ UNCHANGED <<port, line, mcu, slot, sent, credited>>

\* The deadline passes.
GiveUp ==
  /\ call # NoCall
  /\ ret' = [id |-> call.id, seq |-> call.seq, ack |-> 0, status |-> "TIMEOUT"]
  /\ call' = NoCall
  /\ late' = TRUE
  /\ UNCHANGED <<port, line, mcu, slot, sent, credited>>

-----------------------------------------------------------------------------
(* The board and the line: external.                                       *)

\* A frame is damaged or lost on its way to the board.
FrameLost ==
  /\ toMcu # << >>
  /\ toMcu' = Tail(toMcu)
  /\ UNCHANGED <<port, toHost, mcu, host>>

\* The settings after a command: DEACTIVATE stops the wheels, RESET may bring back
\* what the board boots with.
BoardAfter(frame) ==
  IF frame.id \in Setting
  THEN {[board EXCEPT ![frame.id] = frame.arg]}
  ELSE CASE frame.id = "DEACTIVATE" ->
              {[board EXCEPT !["WHEEL_VELOCITY"] = Boot["WHEEL_VELOCITY"]]}
         [] frame.id = "RESET" -> {board, Boot}
         [] OTHER -> {board}

\* The board executes the next frame, or refuses it; its ACK may be lost.
BoardTakes(answer) ==
  /\ plugged
  /\ toMcu # << >>
  /\ LET frame == Head(toMcu) IN
       /\ IF answer = "OK" THEN board' \in BoardAfter(frame) ELSE board' = board
       /\ IF frame.id \in Acked
          THEN /\ executed' = frame.seq
               /\ toHost' \in {toHost, Append(toHost,
                     [id |-> frame.id, status |-> answer, seq |-> frame.seq])}
          ELSE UNCHANGED <<executed, toHost>>
  /\ toMcu' = Tail(toMcu)
  /\ UNCHANGED <<port, host>>

\* The board's own command timeout stops the wheels.
BoardWatchdog ==
  /\ plugged
  /\ board["WHEEL_VELOCITY"] # Boot["WHEEL_VELOCITY"]
  /\ board' = [board EXCEPT !["WHEEL_VELOCITY"] = Boot["WHEEL_VELOCITY"]]
  /\ UNCHANGED <<port, line, executed, host>>

\* The USB device goes away (or the ESP32 resets): an open descriptor stays open on
\* a device that is gone, and what was on the line is lost.
Unplug ==
  /\ plugged
  /\ plugged' = FALSE
  /\ fd' = IF IsOpen THEN "dead" ELSE fd
  /\ toMcu' = << >>
  /\ toHost' = << >>
  /\ UNCHANGED <<mcu, host>>

\* It comes back, perhaps rebooted.  The old descriptor is of no use any more.
Replug ==
  /\ ~plugged
  /\ plugged' = TRUE
  /\ board' \in {board, Boot}
  /\ UNCHANGED <<fd, line, executed, host>>

-----------------------------------------------------------------------------
HostNext ==
  \/ \E ok \in BOOLEAN : call = NoCall /\ Connect(ok)
  \/ Shutdown
  \/ \E id \in Acked : \E arg \in Payload[id] : Issue(id, arg)
  \/ \E id \in Acked : IssueFails(id)
  \/ \E id \in Unacked : \E arg \in Payload[id] : Post(id, arg)
  \/ PostFails
  \/ Read
  \/ TakeAck
  \/ PollAgain
  \/ GiveUp

LineNext ==
  \/ FrameLost
  \/ \E answer \in Answer : BoardTakes(answer)
  \/ BoardWatchdog
  \/ Unplug
  \/ Replug

Next == HostNext \/ LineNext

Spec == Init /\ [][Next]_vars

-----------------------------------------------------------------------------
(* Properties.                                                             *)

\* Every variable has its type.
TypeOK ==
  /\ fd \in {"closed", "live", "dead"}
  /\ plugged \in BOOLEAN
  /\ toMcu \in Seq(Frame)
  /\ toHost \in Seq(Ack)
  /\ board \in [Setting -> Arg]
  /\ slot \in [received : BOOLEAN, ack : Ack \cup {NoAck}]
  /\ call \in [id : Acked, seq : Nat] \cup {NoCall}
  /\ ret \in [id : Acked, seq : Nat, ack : Nat, status : Status] \cup {NoRet}
  /\ sent \in Nat
  /\ executed \in Nat
  /\ credited \in Nat
  /\ late \in BOOLEAN

\* The numbers on the line.  Frames toward the board carry commands that were sent
\* and not yet executed, ACKs toward the host answer executed commands that were not
\* yet credited, and both directions, with the slot between them, are in order.
ToMcuInOrder ==
  /\ \A i \in DOMAIN toMcu : toMcu[i].id \in Acked =>
       executed < toMcu[i].seq /\ toMcu[i].seq <= sent
  /\ \A i, j \in DOMAIN toMcu :
       i < j /\ toMcu[i].id \in Acked /\ toMcu[j].id \in Acked =>
         toMcu[i].seq < toMcu[j].seq

ToHostInOrder ==
  /\ \A i \in DOMAIN toHost :
       slot.ack.seq < toHost[i].seq /\ toHost[i].seq <= executed
  /\ \A i, j \in DOMAIN toHost : i < j => toHost[i].seq < toHost[j].seq

SlotInOrder ==
  /\ IF slot.received THEN credited < slot.ack.seq ELSE credited = slot.ack.seq
  /\ slot.ack.seq <= executed

CallIsLast == call # NoCall => call.seq = sent

\* No ACK overtakes another or is credited before the board executed the command it
\* answers: credited <= slot < toHost <= executed < toMcu <= sent.
AckOrder ==
  /\ ToMcuInOrder
  /\ ToHostInOrder
  /\ SlotInOrder
  /\ executed <= sent
  /\ CallIsLast

\* Each ACK of the board answers at most one command: clearing ack_received_ in
\* WaitForAck is what keeps an ACK from being counted for the next command too.
AckCreditedOnce == [][ret' # ret /\ ret'.ack # 0 => ret'.ack > credited]_vars

\* As long as no wait was cut short by its deadline, every command and every ACK on the
\* way belongs to the command the host is waiting for.
OnlyThisCall == ~late =>
  /\ \A i \in DOMAIN toMcu : toMcu[i].id \in Acked =>
       call # NoCall /\ toMcu[i].seq = call.seq
  /\ \A i \in DOMAIN toHost : call # NoCall /\ toHost[i].seq = call.seq
  /\ slot.received => call # NoCall /\ slot.ack.seq = call.seq

\* As long as no wait was cut short by its deadline, an ACK that a command returns is
\* the answer to that command, though the ACK itself names only the MSG_ID.
PunctualAck == ~late => (ret.ack # 0 => ret.ack = ret.seq)

\* "Block until an ACK frame arrives for expected_msg_id ... AckStatus from the MCU,
\* or TIMEOUT if no ACK arrived in time" (serial_transport.hpp:97-100), for a reader
\* who takes the ACK to be the answer to the command just sent.
AckAnswersThisCommand == ret.ack # 0 => ret.ack = ret.seq
=============================================================================
