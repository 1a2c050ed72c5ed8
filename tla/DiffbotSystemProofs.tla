------------------------ MODULE DiffbotSystemProofs ------------------------
(***************************************************************************)
(* What holds of the hardware plugin for every set of gains and commands   *)
(* and every bound: an active component has been answered by the board and *)
(* is never finalized, write() tunes the board when it is asked to, once,  *)
(* and the trackers are what the board runs with.                          *)
(***************************************************************************)
EXTENDS DiffbotSystem, TLAPS

\* KestrelLink again, with its theorems.
LinkThms == INSTANCE KestrelLinkProofs

-----------------------------------------------------------------------------
(* The invariant.                                                          *)

\* What write() compares.
TuningTypeOK ==
  /\ gainCmd \in Gains /\ timeoutCmd \in TimeoutCmd
  /\ sentGains \in [Gain -> GainCmd \ {NaN}] /\ sentTimeout \in TimeoutCmd \ {NaN}
  /\ message \in Message
  /\ retunes \in Nat

\* The port of an active component, or of one on its way there, is open and stays so, and
\* the time members are set by then.
Standing ==
  /\ lc = "active" \/ op \in {"connected", "handshake", "gains", "timeout"} => fd # "closed"
  /\ lc = "active" \/ op \in {"gains", "timeout"} => stamped

\* The gpio commands and the trackers are as on_activate left them, unless the controller
\* wrote since.
Seeded ==
  lc = "active" /\ ~touched /\ op \notin {"stopped", "deactivate", "reset"} =>
    /\ gainCmd = UrdfGains /\ timeoutCmd = UrdfTimeout
    /\ sentGains = UrdfGains /\ sentTimeout = UrdfTimeout
    /\ op \notin {"writeGains", "writeTimeout"}

\* A retune was sent, and from its return on nothing is left to send.
Retuned ==
  /\ retunes <= 1
  /\ retunes = 1 => op = "writeGains" \/ ~GainsDiffer

IInv == TuningTypeOK /\ Standing /\ Seeded /\ Retuned

-----------------------------------------------------------------------------
(* Comparing gains.                                                        *)

\* What is wanted is never a not-a-number.
LEMMA WantedFinite ==
  ASSUME TuningTypeOK
  PROVE  /\ GainsWanted \in [Gain -> GainCmd \ {NaN}]
         /\ TimeoutWanted \in TimeoutCmd \ {NaN}
BY DEF TuningTypeOK, Gains, GainsWanted, TimeoutWanted

\* Gains differ only if they are not what is wanted.
LEMMA DifferMeansOther ==
  ASSUME TuningTypeOK, GainsWanted = sentGains
  PROVE  ~GainsDiffer
BY WantedFinite DEF TuningTypeOK, GainsDiffer, Differs

\* Once what was wanted is the tracker, nothing is left to send.
LEMMA SentOnce ==
  ASSUME TuningTypeOK, sentGains' = GainsWanted, gainCmd' = gainCmd
  PROVE  ~GainsDiffer'
<1>1. sentGains' \in [Gain -> GainCmd \ {NaN}]
  BY WantedFinite
<1>2. GainsWanted' = sentGains'
  BY DEF GainsWanted, TuningTypeOK, Gains
<1>3. QED
  BY <1>1, <1>2 DEF GainsDiffer, Differs

-----------------------------------------------------------------------------
(* Every step of the plugin is one of the link, or none.                   *)

LEMMA CommandsExist ==
  /\ (CHOOSE arg \in Payload["HANDSHAKE"] : TRUE) \in Payload["HANDSHAKE"]
  /\ (CHOOSE arg \in Payload["DEACTIVATE"] : TRUE) \in Payload["DEACTIVATE"]
  /\ (CHOOSE arg \in Payload["RESET"] : TRUE) \in Payload["RESET"]
BY SystemAssumption

LEMMA SendIsLinkStep ==
  ASSUME NEW id \in Link!Acked, NEW arg \in Payload[id], NEW next, Send(id, arg, next)
  PROVE  Link!Next
BY DEF Send, Link!Next, Link!HostNext

LEMMA FireIsLinkStep ==
  ASSUME NEW id \in Link!Unacked, Fire(id)
  PROVE  Link!Next
BY DEF Fire, Link!Next, Link!HostNext

LEMMA LifecycleIsLinkStep ==
  ASSUME TuningTypeOK, Lifecycle
  PROVE  [Link!Next]_(Link!vars)
<1> USE DEF Link!vars, linkVars, Link!Acked, Link!Unacked
<1>1. CASE OnConfigure \/ HandshakeAgain \/ HandshakeFails \/ ActivateDone \/ DeactivateDone
  BY <1>1 DEF OnConfigure, HandshakeAgain, HandshakeFails, ActivateDone, DeactivateDone
<1>2. CASE OnActivate
  BY <1>2 DEF OnActivate, At, Link!Next, Link!HostNext
<1>3. CASE Handshake
  BY <1>3, SendIsLinkStep, CommandsExist DEF Handshake
<1>4. CASE ActivateGains
  <2>1. Wire(UrdfGains) \in Payload["SET_PID_GAINS"]
    BY SystemAssumption DEF Gains
  <2>2. QED
    BY <1>4, <2>1, SendIsLinkStep DEF ActivateGains
<1>5. CASE ActivateTimeout
  <2>1. Clamp[UrdfTimeout] \in Payload["SET_CMD_TIMEOUT"]
    BY SystemAssumption
  <2>2. QED
    BY <1>5, <2>1, SendIsLinkStep DEF ActivateTimeout
<1>6. CASE OnDeactivate
  BY <1>6, FireIsLinkStep DEF OnDeactivate
<1>7. CASE Deactivate
  BY <1>7, SendIsLinkStep, CommandsExist DEF Deactivate
<1>8. CASE Reset
  BY <1>8, SendIsLinkStep, CommandsExist DEF Reset
<1>9. CASE OnCleanup
  BY <1>9 DEF OnCleanup, Link!Next, Link!HostNext
<1> QED
  BY <1>1, <1>2, <1>3, <1>4, <1>5, <1>6, <1>7, <1>8, <1>9 DEF Lifecycle

LEMMA CycleIsLinkStep ==
  ASSUME TuningTypeOK, Cycle
  PROVE  [Link!Next]_(Link!vars)
<1> USE DEF Link!vars, linkVars, Link!Acked, Link!Unacked
<1>1. CASE \/ CycleWithoutPort \/ GainsWritten \/ GainsCurrent
           \/ TimeoutWritten \/ TimeoutCurrent \/ WriteThrows
  BY <1>1 DEF CycleWithoutPort, GainsWritten, GainsCurrent, TimeoutWritten, TimeoutCurrent,
     WriteThrows
<1>2. CASE ReadThrows \/ Read
  BY <1>2 DEF ReadThrows, Read, Link!Next, Link!HostNext
<1>3. CASE WriteGains
  <2>1. Wire(GainsWanted) \in Payload["SET_PID_GAINS"]
    BY WantedFinite, SystemAssumption DEF Gains
  <2>2. QED
    BY <1>3, <2>1, SendIsLinkStep DEF WriteGains
<1>4. CASE WriteTimeout
  <2>1. Clamp[TimeoutWanted] \in Payload["SET_CMD_TIMEOUT"]
    BY WantedFinite, SystemAssumption
  <2>2. QED
    BY <1>4, <2>1, SendIsLinkStep DEF WriteTimeout
<1>5. CASE WriteLed
  BY <1>5, FireIsLinkStep DEF WriteLed
<1>6. CASE WriteWheels
  BY <1>6, FireIsLinkStep DEF WriteWheels
<1> QED
  BY <1>1, <1>2, <1>3, <1>4, <1>5, <1>6 DEF Cycle, WriteStep

LEMMA StepIsLinkStep ==
  ASSUME TuningTypeOK, [Next]_vars
  PROVE  [Link!Next]_(Link!vars)
<1>1. CASE WaitStep \/ LineStep
  BY <1>1 DEF WaitStep, LineStep, Link!Next, Link!HostNext
<1>2. CASE Tune \/ Update \/ UNCHANGED vars
  BY <1>2 DEF Tune, Update, vars, linkVars, Link!vars
<1> QED
  BY <1>1, <1>2, LifecycleIsLinkStep, CycleIsLinkStep DEF Next

-----------------------------------------------------------------------------
(* The invariant holds.                                                    *)

LEMMA InitIInv == Init => IInv
<1> SUFFICES ASSUME Init
             PROVE  IInv
  OBVIOUS
<1>1. TuningTypeOK
  BY SystemAssumption DEF Init, TuningTypeOK, Gains, Message, NoMessage
<1>2. QED
  BY <1>1 DEF Init, IInv, Standing, Seeded, Retuned

\* What the link does to the port: only Shutdown() closes it.
LEMMA LinkKeepsOpen ==
  /\ \A id, arg : Link!Issue(id, arg) \/ Link!IssueFails(id) \/ Link!Post(id, arg) => fd' = fd
  /\ Link!PostFails \/ Link!Read \/ Link!TakeAck \/ Link!PollAgain \/ Link!GiveUp => fd' = fd
  /\ Link!Connect(TRUE) => fd' # "closed"
  /\ Link!LineNext /\ fd # "closed" => fd' # "closed"
<1>1. /\ \A id, arg : Link!Issue(id, arg) \/ Link!IssueFails(id) \/ Link!Post(id, arg) => fd' = fd
      /\ Link!PostFails \/ Link!Read \/ Link!TakeAck \/ Link!PollAgain \/ Link!GiveUp => fd' = fd
  BY DEF Link!Issue, Link!IssueFails, Link!Post, Link!PostFails, Link!Read, Link!TakeAck,
     Link!PollAgain, Link!GiveUp, Link!port, Link!vars
<1>2. Link!Connect(TRUE) => fd' # "closed"
  BY DEF Link!Connect, Link!ConnectAlreadyOpen, Link!ConnectOpens, Link!IsOpen, Link!vars
<1>3. Link!LineNext /\ fd # "closed" => fd' # "closed"
  BY DEF Link!LineNext, Link!FrameLost, Link!BoardTakes, Link!BoardWatchdog, Link!Unplug,
     Link!Replug, Link!IsOpen, Link!port
<1>4. QED
  BY <1>1, <1>2, <1>3

LEMMA SendKeepsPort ==
  ASSUME NEW id, NEW arg, NEW next, Send(id, arg, next)
  PROVE  fd' = fd /\ op' = next
BY LinkKeepsOpen DEF Send

LEMMA FireKeepsPort ==
  ASSUME NEW id, Fire(id)
  PROVE  fd' = fd
BY LinkKeepsOpen DEF Fire

\* on_configure, and an activation as far as its handshake.
LEMMA StartKeeps ==
  ASSUME IInv, OnConfigure \/ OnActivate \/ Handshake \/ HandshakeAgain \/ HandshakeFails
  PROVE  IInv'
<1> USE DEF IInv, Standing, Seeded, Retuned, GainsDiffer, GainsWanted, TuningTypeOK,
            gpio, trackers, bounds, history, asked, start
<1>1. CASE OnConfigure
  BY <1>1, SystemAssumption DEF OnConfigure, AskedAnew, At, linkVars, Gains
<1>2. CASE OnActivate
  BY <1>2, LinkKeepsOpen DEF OnActivate, At
<1>3. CASE Handshake
  BY <1>3, SendKeepsPort DEF Handshake, At
<1>4. CASE HandshakeAgain
  BY <1>4 DEF HandshakeAgain, At, linkVars
<1>5. CASE HandshakeFails
  BY <1>5 DEF HandshakeFails, Failure, HandshakesOver, At, linkVars
<1>6. QED
  BY <1>1, <1>2, <1>3, <1>4, <1>5

\* The rest of on_activate.
LEMMA ActivationKeeps ==
  ASSUME IInv, ActivateGains \/ ActivateTimeout \/ ActivateDone
  PROVE  IInv'
<1> USE DEF IInv, Standing, Seeded, Retuned, TuningTypeOK,
            gpio, trackers, bounds, history, asked, start
<1>1. CASE ActivateGains
  BY <1>1, SendKeepsPort DEF ActivateGains, HandshakesOver, At, GainsDiffer, GainsWanted
<1>2. CASE ActivateTimeout
  BY <1>2, SendKeepsPort DEF ActivateTimeout, At, GainsDiffer, GainsWanted
<1>3. CASE ActivateDone
  BY <1>3, SystemAssumption DEF ActivateDone, AskedAnew, TrackUrdf, Seed, At, linkVars, Gains
<1>4. QED
  BY <1>1, <1>2, <1>3

LEMMA DeactivationKeeps ==
  ASSUME IInv, OnDeactivate \/ Deactivate \/ Reset \/ DeactivateDone \/ OnCleanup
  PROVE  IInv'
<1> USE DEF IInv, Standing, Seeded, Retuned, GainsDiffer, GainsWanted, TuningTypeOK,
            gpio, trackers, bounds, history, asked, start
<1>1. CASE OnDeactivate
  BY <1>1, SystemAssumption, FireKeepsPort DEF OnDeactivate, AskedAnew, At, Gains
<1>2. CASE Deactivate
  BY <1>2, SendKeepsPort DEF Deactivate, At
<1>3. CASE Reset
  BY <1>3, SendKeepsPort DEF Reset, At
<1>4. CASE DeactivateDone
  BY <1>4 DEF DeactivateDone, At, linkVars
<1>5. CASE OnCleanup
  BY <1>5 DEF OnCleanup, At
<1>6. QED
  BY <1>1, <1>2, <1>3, <1>4, <1>5

\* read(), and the ends of a cycle that changes no tracker.
LEMMA CycleKeeps ==
  ASSUME IInv,
         \/ CycleWithoutPort \/ ReadThrows \/ Read
         \/ GainsCurrent \/ TimeoutCurrent \/ WriteThrows \/ WriteLed \/ WriteWheels
  PROVE  IInv'
<1> USE DEF IInv, Standing, Seeded, Retuned, GainsDiffer, GainsWanted, TuningTypeOK,
            gpio, trackers, bounds, history, asked, start, linkVars, At
<1>1. CASE CycleWithoutPort \/ WriteThrows
  BY <1>1 DEF CycleWithoutPort, WriteThrows, Finalize, Link!IsOpen
<1>2. CASE ReadThrows \/ Read
  BY <1>2, LinkKeepsOpen DEF ReadThrows, Read, Finalize
<1>3. CASE GainsCurrent \/ TimeoutCurrent
  BY <1>3 DEF GainsCurrent, TimeoutCurrent
<1>4. CASE WriteLed \/ WriteWheels
  BY <1>4, FireKeepsPort DEF WriteLed, WriteWheels
<1>5. QED
  BY <1>1, <1>2, <1>3, <1>4

\* The gains of a retune: they are sent only if they differ, which no seed does and no
\* retune leaves behind.
LEMMA RetuneKeeps ==
  ASSUME IInv, WriteGains \/ GainsWritten
  PROVE  IInv'
<1> USE DEF IInv, gpio, trackers, bounds, history, asked, start, linkVars, At
<1>1. CASE WriteGains
  <2>1. retunes = 0 /\ GainsDiffer /\ fd' = fd /\ op' = "writeGains"
    BY <1>1, SendKeepsPort DEF WriteGains, Retuned, TuningTypeOK
  <2>2. TuningTypeOK' /\ Standing' /\ Retuned'
    BY <1>1, <2>1 DEF WriteGains, TuningTypeOK, Standing, Retuned
  <2>3. ~(lc = "active" /\ ~touched)
    <3>1. ASSUME lc = "active", ~touched
          PROVE  FALSE
      <4>1. gainCmd = UrdfGains /\ sentGains = UrdfGains
        BY <1>1, <3>1 DEF WriteGains, Seeded
      <4>2. UrdfGains \in [Gain -> GainCmd \ {NaN}]
        BY SystemAssumption
      <4>3. GainsWanted = sentGains
        BY <4>1, <4>2 DEF GainsWanted
      <4>4. QED
        BY <2>1, <4>3, DifferMeansOther
    <3>2. QED
      BY <3>1
  <2>4. Seeded'
    BY <1>1, <2>3 DEF WriteGains, Seeded
  <2>5. QED
    BY <2>2, <2>4
<1>2. CASE GainsWritten
  <2>1. ~GainsDiffer'
    BY <1>2, SentOnce DEF GainsWritten, GainsSent
  <2>2. TuningTypeOK' /\ Standing' /\ Retuned'
    BY <1>2, <2>1, WantedFinite DEF GainsWritten, GainsSent, TuningTypeOK, Standing, Retuned
  <2>3. Seeded'
    BY <1>2 DEF GainsWritten, Seeded
  <2>4. QED
    BY <2>2, <2>3
<1>3. QED
  BY <1>1, <1>2

\* The command timeout of a retune.
LEMMA TimeoutKeeps ==
  ASSUME IInv, WriteTimeout \/ TimeoutWritten
  PROVE  IInv'
<1> USE DEF IInv, gpio, trackers, bounds, history, asked, start, linkVars, At,
            GainsDiffer, GainsWanted
<1>1. CASE WriteTimeout
  <2>1. fd' = fd /\ op' = "writeTimeout"
    BY <1>1, SendKeepsPort DEF WriteTimeout
  <2>2. TuningTypeOK' /\ Standing' /\ Retuned'
    BY <1>1, <2>1 DEF WriteTimeout, TuningTypeOK, Standing, Retuned
  <2>3. ~(lc = "active" /\ ~touched)
    BY <1>1, SystemAssumption DEF WriteTimeout, Seeded, TimeoutWanted, Differs
  <2>4. Seeded'
    BY <1>1, <2>3 DEF WriteTimeout, Seeded
  <2>5. QED
    BY <2>2, <2>4
<1>2. CASE TimeoutWritten
  <2>1. TuningTypeOK' /\ Standing' /\ Retuned'
    BY <1>2, WantedFinite DEF TimeoutWritten, TuningTypeOK, Standing, Retuned
  <2>2. Seeded'
    BY <1>2 DEF TimeoutWritten, Seeded
  <2>3. QED
    BY <2>1, <2>2
<1>3. QED
  BY <1>1, <1>2

\* The link while the host waits, the line, and the users.
LEMMA OthersKeep ==
  ASSUME IInv, WaitStep \/ LineStep \/ Tune \/ Update \/ UNCHANGED vars
  PROVE  IInv'
<1> USE DEF IInv, Standing, Seeded, Retuned, TuningTypeOK,
            gpio, trackers, bounds, history, asked, start, linkVars, At
<1>1. CASE WaitStep \/ LineStep
  BY <1>1, LinkKeepsOpen DEF WaitStep, LineStep, GainsDiffer, GainsWanted
<1>2. CASE Tune
  BY <1>2, SystemAssumption DEF Tune, GainsDiffer, GainsWanted
<1>3. CASE Update
  <2>1. gainCmd' \in Gains /\ timeoutCmd' \in TimeoutCmd
    BY <1>3 DEF Update, Named, Message, Gains
  <2>2. gainCmd' = gainCmd => GainsDiffer' = GainsDiffer
    BY <1>3 DEF Update, GainsDiffer, GainsWanted
  <2>3. TuningTypeOK' /\ Standing'
    BY <1>3, <2>1 DEF Update
  <2>4. Seeded'
    <3>1. touched' <=> lc = "active"
      BY <1>3 DEF Update
    <3> QED
      BY <1>3, <3>1 DEF Update
  <2>5. Retuned'
    <3>1. CASE gainCmd' = gainCmd
      BY <1>3, <2>2, <3>1 DEF Update
    <3>2. CASE gainCmd' # gainCmd
      BY <1>3, <3>2 DEF Update
    <3> QED
      BY <3>1, <3>2
  <2> QED
    BY <2>3, <2>4, <2>5
<1>4. CASE UNCHANGED vars
  BY <1>4 DEF vars, sysVars, GainsDiffer, GainsWanted
<1>5. QED
  BY <1>1, <1>2, <1>3, <1>4

LEMMA NextIInv == IInv /\ [Next]_vars => IInv'
BY StartKeeps, ActivationKeeps, DeactivationKeeps, CycleKeeps, RetuneKeeps, TimeoutKeeps,
   OthersKeep DEF Next, Lifecycle, Cycle, WriteStep

LEMMA Invariance == Spec => []IInv
BY InitIInv, NextIInv, PTL DEF Spec

-----------------------------------------------------------------------------
\* No ERROR and no exception of read() or write() ends an active component
\* (ActiveNeverFinalized of DiffbotSystem).
THEOREM SystemActiveNeverFinalized == Spec => ActiveNeverFinalized
<1>1. ASSUME IInv, [Next]_vars
      PROVE  [lc = "active" => lc' # "finalized"]_vars
  <2>1. ASSUME lc = "active", Next
        PROVE  lc' # "finalized"
    <3>1. fd # "closed" /\ stamped
      BY <1>1, <2>1 DEF IInv, Standing
    <3>2. ~CycleWithoutPort /\ ~ReadThrows /\ ~WriteThrows
      BY <3>1 DEF CycleWithoutPort, ReadThrows, WriteThrows, Link!IsOpen
    <3>3. CASE Lifecycle
      BY <2>1, <3>3 DEF Lifecycle, OnConfigure, OnActivate, Handshake, HandshakeAgain,
         HandshakeFails, Failure, ActivateGains, ActivateTimeout, ActivateDone, OnDeactivate,
         Deactivate, Reset, DeactivateDone, OnCleanup
    <3>4. CASE Cycle
      BY <2>1, <3>2, <3>4 DEF Cycle, Read, WriteStep, WriteGains, GainsWritten, GainsCurrent,
         WriteTimeout, TimeoutWritten, TimeoutCurrent, WriteLed, WriteWheels
    <3>5. CASE WaitStep \/ LineStep \/ Tune \/ Update
      BY <2>1, <3>5 DEF WaitStep, LineStep, Tune, Update
    <3>6. QED
      BY <2>1, <3>3, <3>4, <3>5 DEF Next
  <2>2. QED
    BY <1>1, <2>1
<1>2. QED
  BY <1>1, Invariance, PTL DEF Spec, ActiveNeverFinalized

\* However often a message is written again, write() sends its gains at most once
\* (OneRetunePerMessage of DiffbotSystem).
THEOREM SystemOneRetunePerMessage == Spec => []OneRetunePerMessage
<1>1. IInv => OneRetunePerMessage
  BY DEF IInv, Retuned, OneRetunePerMessage
<1>2. QED
  BY <1>1, Invariance, PTL

\* An active component tunes nothing before the controller wrote again, in however many
\* activations (NoPhantomRetune of DiffbotSystem).
THEOREM SystemNoPhantomRetune == Spec => []NoPhantomRetune
<1>1. IInv => NoPhantomRetune
  BY DEF IInv, Seeded, NoPhantomRetune
<1>2. QED
  BY <1>1, Invariance, PTL

-----------------------------------------------------------------------------
(* The theorems of the link.  They are about LinkThms, which is the Link of *)
(* DiffbotSystem with the same parameters: definition by definition the    *)
(* same.                                                                   *)

LEMMA SameInit == (Link!Init <=> LinkThms!Init) /\ Link!vars = LinkThms!vars
BY DEF Link!Init, LinkThms!Init, Link!vars, LinkThms!vars, Link!NoAck, LinkThms!NoAck,
   Link!NoCall, LinkThms!NoCall, Link!NoRet, LinkThms!NoRet

LEMMA SameTypeOK == Link!TypeOK <=> LinkThms!TypeOK
BY DEF Link!TypeOK, LinkThms!TypeOK, Link!Frame, LinkThms!Frame, Link!Ack, LinkThms!Ack,
   Link!Acked, LinkThms!Acked, Link!Unacked, LinkThms!Unacked, Link!MsgId, LinkThms!MsgId,
   Link!Setting, LinkThms!Setting, Link!Arg, LinkThms!Arg, Link!Status, LinkThms!Status,
   Link!Answer, LinkThms!Answer, Link!NoAck, LinkThms!NoAck, Link!NoCall, LinkThms!NoCall,
   Link!NoRet, LinkThms!NoRet

LEMMA SamePort ==
  /\ \A ok : Link!Connect(ok) <=> LinkThms!Connect(ok)
  /\ Link!Shutdown <=> LinkThms!Shutdown
BY DEF Link!Connect, LinkThms!Connect, Link!ConnectAlreadyOpen, LinkThms!ConnectAlreadyOpen,
   Link!ConnectOpens, LinkThms!ConnectOpens, Link!ConnectThrows, LinkThms!ConnectThrows,
   Link!ConnectHalfway, LinkThms!ConnectHalfway, Link!Shutdown, LinkThms!Shutdown,
   Link!IsOpen, LinkThms!IsOpen, Link!NoCall, LinkThms!NoCall, Link!line, LinkThms!line,
   Link!mcu, LinkThms!mcu, Link!host, LinkThms!host, Link!vars, LinkThms!vars

LEMMA SameCommands ==
  /\ \A id, arg : Link!Issue(id, arg) <=> LinkThms!Issue(id, arg)
  /\ \A id : Link!IssueFails(id) <=> LinkThms!IssueFails(id)
  /\ \A id, arg : Link!Post(id, arg) <=> LinkThms!Post(id, arg)
  /\ Link!PostFails <=> LinkThms!PostFails
BY DEF Link!Issue, LinkThms!Issue, Link!IssueFails, LinkThms!IssueFails, Link!Post,
   LinkThms!Post, Link!PostFails, LinkThms!PostFails, Link!CanWrite, LinkThms!CanWrite,
   Link!CannotWrite, LinkThms!CannotWrite, Link!NoCall, LinkThms!NoCall, Link!port,
   LinkThms!port, Link!line, LinkThms!line, Link!mcu, LinkThms!mcu, Link!host,
   LinkThms!host, Link!vars, LinkThms!vars

LEMMA SameReads ==
  /\ Link!Read <=> LinkThms!Read
  /\ Link!TakeAck <=> LinkThms!TakeAck
  /\ Link!PollAgain <=> LinkThms!PollAgain
  /\ Link!GiveUp <=> LinkThms!GiveUp
<1>1. Link!SlotAfterRead = LinkThms!SlotAfterRead
  BY DEF Link!SlotAfterRead, LinkThms!SlotAfterRead, Link!Last, LinkThms!Last
<1>2. Link!ToHostAfterRead = LinkThms!ToHostAfterRead
  BY DEF Link!ToHostAfterRead, LinkThms!ToHostAfterRead
<1>3. Link!Read <=> LinkThms!Read
  BY <1>1, <1>2 DEF Link!Read, LinkThms!Read, Link!IsOpen, LinkThms!IsOpen, Link!NoCall,
     LinkThms!NoCall, Link!port, LinkThms!port, Link!mcu, LinkThms!mcu
<1>4. Link!PollAgain <=> LinkThms!PollAgain
  BY <1>1, <1>2 DEF Link!PollAgain, LinkThms!PollAgain, Link!Answers, LinkThms!Answers,
     Link!NoCall, LinkThms!NoCall, Link!port, LinkThms!port, Link!mcu, LinkThms!mcu
<1>5. Link!TakeAck <=> LinkThms!TakeAck
  <2>1. \A a : Link!Normalised(a) = LinkThms!Normalised(a)
    BY DEF Link!Normalised, LinkThms!Normalised
  <2>2. \A id : Link!Answers(Link!SlotAfterRead, id)
                  <=> LinkThms!Answers(LinkThms!SlotAfterRead, id)
    BY <1>1 DEF Link!Answers, LinkThms!Answers
  <2>3. Link!Normalised(Link!SlotAfterRead.ack)
          = LinkThms!Normalised(LinkThms!SlotAfterRead.ack)
    BY <1>1, <2>1
  <2>4. Link!NoCall = LinkThms!NoCall
    BY DEF Link!NoCall, LinkThms!NoCall
  <2>5. QED
    BY <1>2, <2>2, <2>3, <2>4 DEF Link!TakeAck, LinkThms!TakeAck, Link!port, LinkThms!port,
       Link!mcu, LinkThms!mcu
<1>6. Link!GiveUp <=> LinkThms!GiveUp
  BY DEF Link!GiveUp, LinkThms!GiveUp, Link!NoCall, LinkThms!NoCall, Link!port,
     LinkThms!port, Link!line, LinkThms!line, Link!mcu, LinkThms!mcu
<1>7. QED
  BY <1>3, <1>4, <1>5, <1>6

LEMMA SameLine ==
  /\ Link!FrameLost <=> LinkThms!FrameLost
  /\ \A answer : Link!BoardTakes(answer) <=> LinkThms!BoardTakes(answer)
  /\ Link!BoardWatchdog <=> LinkThms!BoardWatchdog
  /\ Link!Unplug <=> LinkThms!Unplug
  /\ Link!Replug <=> LinkThms!Replug
<1>1. \A frame : Link!BoardAfter(frame) = LinkThms!BoardAfter(frame)
  BY DEF Link!BoardAfter, LinkThms!BoardAfter, Link!Setting, LinkThms!Setting
<1>2. \A answer : Link!BoardTakes(answer) <=> LinkThms!BoardTakes(answer)
  BY <1>1 DEF Link!BoardTakes, LinkThms!BoardTakes, Link!Acked, LinkThms!Acked, Link!port,
     LinkThms!port, Link!host, LinkThms!host
<1>3. /\ Link!FrameLost <=> LinkThms!FrameLost
      /\ Link!BoardWatchdog <=> LinkThms!BoardWatchdog
      /\ Link!Unplug <=> LinkThms!Unplug
      /\ Link!Replug <=> LinkThms!Replug
  BY DEF Link!FrameLost, LinkThms!FrameLost, Link!BoardWatchdog, LinkThms!BoardWatchdog,
     Link!Unplug, LinkThms!Unplug, Link!Replug, LinkThms!Replug, Link!IsOpen,
     LinkThms!IsOpen, Link!port, LinkThms!port, Link!line, LinkThms!line, Link!mcu,
     LinkThms!mcu, Link!host, LinkThms!host
<1>4. QED
  BY <1>2, <1>3

LEMMA SameNext == Link!Next <=> LinkThms!Next
BY SamePort, SameCommands, SameReads, SameLine DEF Link!Next, LinkThms!Next, Link!HostNext,
   LinkThms!HostNext, Link!LineNext, LinkThms!LineNext, Link!NoCall, LinkThms!NoCall,
   Link!Acked, LinkThms!Acked, Link!Unacked, LinkThms!Unacked, Link!Answer, LinkThms!Answer

\* The link's parameters are what its theorems ask for.
LEMMA LinkParameters == LinkThms!LinkAssumption
BY PayloadAssumption DEF Link!LinkAssumption, LinkThms!LinkAssumption, Link!MsgId,
   LinkThms!MsgId, Link!Acked, LinkThms!Acked, Link!Unacked, LinkThms!Unacked, Link!Setting,
   LinkThms!Setting, Link!Arg, LinkThms!Arg

\* So the plugin is a host of that link too.
LEMMA UsesLinkThms == Spec => LinkThms!Spec
<1>1. Init => LinkThms!Init
  BY SameInit DEF Init
<1>2. IInv /\ [Next]_vars => [LinkThms!Next]_(LinkThms!vars)
  BY StepIsLinkStep, SameNext DEF IInv, Link!vars, LinkThms!vars
<1>3. QED
  BY <1>1, <1>2, Invariance, PTL DEF Spec, LinkThms!Spec

\* The types of the variables that are the plugin's own: what counts, and the rest.
CountsOK ==
  /\ attempt \in 0..MaxAttempts /\ starts \in 0..MaxStarts /\ edits \in 0..MaxEdits
  /\ began \in Nat

OwnTypeOK ==
  /\ lc \in {"unconfigured", "inactive", "active", "finalized"}
  /\ op \in {"idle", "connected", "handshake", "gains", "timeout", "stopped", "deactivate",
             "reset", "writeGains", "tuneTimeout", "writeTimeout", "led", "wheels"}
  /\ stamped \in BOOLEAN /\ touched \in BOOLEAN /\ told \in BOOLEAN /\ lateBefore \in BOOLEAN
  /\ inForce \subseteq Tuning

LEMMA InitTypes == Init => CountsOK /\ OwnTypeOK
<1>1. Init => CountsOK
  BY SystemAssumption DEF Init, CountsOK
<1>2. Init => OwnTypeOK
  BY Zenon DEF Init, OwnTypeOK
<1>3. QED
  BY <1>1, <1>2

LEMMA SendKeepsTypes ==
  ASSUME OwnTypeOK, NEW id, NEW arg, NEW next, Send(id, arg, next)
  PROVE  op' = next /\ inForce' \subseteq Tuning
BY DEF Send, OwnTypeOK

LEMMA NextCountsOK ==
  ASSUME CountsOK, sent \in Nat, [Next]_vars
  PROVE  CountsOK'
<1> USE SystemAssumption DEF CountsOK, gpio, trackers, bounds, history, asked, start
<1>1. CASE Lifecycle
  <2>1. CASE OnActivate
    <3>1. /\ starts < MaxStarts /\ starts' = starts + 1 /\ edits' = edits
          /\ attempt' = 1 \/ attempt' = attempt
          /\ began' = sent
      BY <2>1 DEF OnActivate
    <3>2. MaxAttempts \in Nat \ {0} /\ MaxStarts \in Nat
      OBVIOUS
    <3>3. QED
      BY <3>1, <3>2
  <2>2. CASE HandshakeAgain
    BY <2>2 DEF HandshakeAgain, MayTryAgain
  <2>3. CASE OnConfigure \/ Handshake \/ HandshakeFails \/ ActivateGains \/ ActivateTimeout
    BY <2>3 DEF OnConfigure, AskedAnew, Handshake, HandshakeFails, ActivateGains, ActivateTimeout,
       HandshakesOver
  <2>4. CASE \/ ActivateDone \/ OnDeactivate \/ Deactivate \/ Reset \/ DeactivateDone
             \/ OnCleanup
    BY <2>4 DEF ActivateDone, OnDeactivate, AskedAnew, Deactivate, Reset, DeactivateDone, OnCleanup
  <2>5. QED
    BY <1>1, <2>1, <2>2, <2>3, <2>4 DEF Lifecycle
<1>2. CASE Cycle
  BY <1>2 DEF Cycle, CycleWithoutPort, ReadThrows, Read, WriteStep, WriteGains, GainsWritten,
     GainsCurrent, WriteTimeout, TimeoutWritten, TimeoutCurrent, WriteThrows, WriteLed,
     WriteWheels
<1>3. CASE WaitStep \/ LineStep
  BY <1>3 DEF WaitStep, LineStep
<1>4. CASE Tune \/ Update \/ UNCHANGED vars
  BY <1>4 DEF Tune, Update, vars, sysVars
<1>5. QED
  BY <1>1, <1>2, <1>3, <1>4 DEF Next

LEMMA NextOwnTypeOK ==
  ASSUME OwnTypeOK, late \in BOOLEAN, [Next]_vars
  PROVE  OwnTypeOK'
<1> USE DEF OwnTypeOK, gpio, trackers, bounds, history, asked, start
<1>1. CASE OnConfigure \/ OnActivate \/ HandshakeAgain \/ HandshakeFails
  BY <1>1, Zenon DEF OnConfigure, AskedAnew, OnActivate, HandshakeAgain, HandshakeFails, Failure,
     HandshakesOver
<1>2. CASE Handshake \/ ActivateTimeout \/ Deactivate \/ Reset
  BY <1>2, SendKeepsTypes DEF Handshake, ActivateTimeout, Deactivate, Reset
<1>3. CASE ActivateGains
  BY <1>3, SendKeepsTypes DEF ActivateGains, HandshakesOver
<1>4. CASE ActivateDone \/ OnDeactivate \/ DeactivateDone \/ OnCleanup
  BY <1>4, Zenon DEF ActivateDone, OnDeactivate, AskedAnew, DeactivateDone, OnCleanup
<1>5. CASE CycleWithoutPort \/ ReadThrows \/ Read \/ WriteThrows \/ WriteLed \/ WriteWheels
  BY <1>5 DEF CycleWithoutPort, ReadThrows, Read, WriteThrows, WriteLed, WriteWheels, Finalize
<1>6. CASE WriteGains \/ WriteTimeout
  BY <1>6, SendKeepsTypes DEF WriteGains, WriteTimeout
<1>7. CASE GainsWritten \/ GainsCurrent \/ TimeoutWritten \/ TimeoutCurrent
  BY <1>7 DEF GainsWritten, GainsCurrent, TimeoutWritten, TimeoutCurrent
<1>8. CASE WaitStep \/ LineStep
  BY <1>8 DEF WaitStep, LineStep
<1>9. CASE Tune \/ Update \/ UNCHANGED vars
  BY <1>9, Zenon DEF Tune, Update, vars, sysVars
<1>10. QED
  BY <1>1, <1>2, <1>3, <1>4, <1>5, <1>6, <1>7, <1>8, <1>9 DEF Next, Lifecycle, Cycle, WriteStep

\* Every variable keeps its type (TypeOK of DiffbotSystem): the link's by its own theorem.
THEOREM SystemTypeOK == Spec => []TypeOK
<1>1. Spec => []LinkThms!TypeOK
  BY UsesLinkThms, LinkParameters, LinkThms!LinkTypeOK, PTL
<1>2. IInv /\ CountsOK /\ OwnTypeOK /\ LinkThms!TypeOK => TypeOK
  <2>1. TuningTypeOK => sentGains \in Gains /\ sentTimeout \in TimeoutCmd
    BY DEF TuningTypeOK, Gains
  <2>2. QED
    BY <2>1, SameTypeOK, Zenon DEF TypeOK, IInv, CountsOK, OwnTypeOK, TuningTypeOK
<1>3. CountsOK /\ OwnTypeOK /\ LinkThms!TypeOK /\ [Next]_vars => (CountsOK /\ OwnTypeOK)'
  BY NextCountsOK, NextOwnTypeOK DEF LinkThms!TypeOK
<1>4. QED
  BY <1>1, <1>2, <1>3, InitTypes, Invariance, PTL DEF Spec

\* While no wait of the plugin was cut short, an ACK that a command returns is the answer to
\* that command (PunctualAck of KestrelLink, for the link of the plugin).
THEOREM SystemPunctualAck == Spec => []LinkThms!PunctualAck
BY UsesLinkThms, LinkParameters, LinkThms!LinkPunctualAck, PTL

\* No ACK answers two commands of the plugin (AckCreditedOnce of KestrelLink).
THEOREM SystemAckCreditedOnce == Spec => LinkThms!AckCreditedOnce
BY UsesLinkThms, LinkParameters, LinkThms!LinkAckCreditedOnce, PTL
-----------------------------------------------------------------------------
(* The trackers and the board.                                             *)

\* What the board has to run with when the command in hand, or else the last one, was
\* acknowledged: in a callback the trackers follow the send, they do not lead it.
GainsDue ==
  CASE op \in {"gains", "timeout"} -> Wire(UrdfGains)
    [] op = "writeGains"           -> Wire(GainsWanted)
    [] OTHER                       -> Wire(sentGains)

TimeoutDue ==
  CASE op = "timeout"      -> Clamp[UrdfTimeout]
    [] op = "writeTimeout" -> Clamp[TimeoutWanted]
    [] OTHER               -> Clamp[sentTimeout]

Due(id) == IF id = "SET_PID_GAINS" THEN GainsDue ELSE TimeoutDue

\* All commands and ACKs on the line belong to the call in hand; a tuning command carries
\* what is due, and one that the board took is what it runs with.
CommandsOnTheWay ==
  \A i \in DOMAIN toMcu : toMcu[i].id \in Link!Acked =>
    /\ call # Link!NoCall /\ toMcu[i].id = call.id
    /\ call.id \in Tuning => toMcu[i].arg = Due(call.id)

AcksOnTheWay ==
  /\ \A i \in DOMAIN toHost :
       /\ call # Link!NoCall /\ toHost[i].id = call.id
       /\ call.id \in Tuning /\ toHost[i].status = "OK" => board[call.id] = Due(call.id)
  /\ ~slot.received

\* Nothing is in force on a board that may lose it: without power, or asked to reset.
Powered ==
  /\ fd = "live" => plugged
  /\ ~plugged => inForce = {} /\ toHost = << >>
  /\ call.id = "RESET" => inForce = {}

InForceMatches == \A id \in inForce : board[id] = Due(id)

Matches == CommandsOnTheWay /\ AcksOnTheWay /\ Powered /\ InForceMatches

Matched == ~late => Matches

LEMMA InitMatched == Init => Matched
BY DEF Init, Link!Init, Matched, Matches, CommandsOnTheWay, AcksOnTheWay, Powered, InForceMatches,
   Link!NoCall

\* A call that returned leaves nothing on the line.
LEMMA NobodyWaits ==
  ASSUME Matches, Link!TypeOK, call = Link!NoCall
  PROVE  /\ \A i \in DOMAIN toMcu : toMcu[i].id \notin Link!Acked
         /\ toHost = << >>
<1>1. toHost \in Seq(Link!Ack)
  BY DEF Link!TypeOK
<1>2. \A i \in DOMAIN toHost : FALSE
  BY DEF Matches, AcksOnTheWay
<1>3. Len(toHost) = 0
  <2>1. DOMAIN toHost = 1..Len(toHost) /\ Len(toHost) \in Nat
    BY <1>1
  <2>2. ASSUME Len(toHost) # 0
        PROVE  FALSE
    BY <1>2, <2>1, <2>2
  <2> QED
    BY <2>2
<1> QED
  BY <1>1, <1>3 DEF Matches, CommandsOnTheWay

\* Steps that call nothing: what is in force stays what is due.
LEMMA NoCallMatches ==
  ASSUME Matches, Link!TypeOK, call = Link!NoCall, UNCHANGED linkVars, inForce' = inForce,
         \A id \in inForce : Due(id)' = Due(id)
  PROVE  Matches'
<1>1. CommandsOnTheWay' /\ AcksOnTheWay'
  BY NobodyWaits DEF linkVars, Matches, CommandsOnTheWay, AcksOnTheWay
<1>2. Powered' /\ InForceMatches'
  BY DEF linkVars, Matches, Powered, InForceMatches
<1> QED
  BY <1>1, <1>2 DEF Matches

\* A command with an ACK is sent, or cannot be: it is not in force until it is answered.
LEMMA SendMatches ==
  ASSUME Matches, Link!TypeOK, NEW id \in Link!Acked, NEW arg \in Payload[id], NEW next,
         Send(id, arg, next),
         id \in Tuning => arg = Due(id)',
         \A x \in Tuning \ {id} : Due(x)' = Due(x),
         inForce \subseteq Tuning
  PROVE  Matches'
<1>1. call = Link!NoCall /\ UNCHANGED <<fd, plugged, toHost, board, slot>>
  BY DEF Send, Link!Issue, Link!IssueFails, Link!port, Link!mcu, Link!line
<1>2. (\A i \in DOMAIN toMcu : toMcu[i].id \notin Link!Acked) /\ toHost = << >>
  BY <1>1, NobodyWaits
<1>3. AcksOnTheWay'
  BY <1>1, <1>2 DEF Matches, AcksOnTheWay
<1>4. CommandsOnTheWay'
  <2>1. CASE Link!Issue(id, arg)
    <3>1. /\ toMcu \in Seq(Link!Frame)
          /\ toMcu' = Append(toMcu, [id |-> id, arg |-> arg, seq |-> sent'])
          /\ call' = [id |-> id, seq |-> sent'] /\ call'.id = id
      BY <2>1 DEF Link!Issue, Link!TypeOK
    <3>2. call' # Link!NoCall
      BY <3>1 DEF Link!NoCall, Link!Acked
    <3>3. \A i \in DOMAIN toMcu' :
            \/ i \in DOMAIN toMcu /\ toMcu'[i] = toMcu[i]
            \/ toMcu'[i] = [id |-> id, arg |-> arg, seq |-> sent']
      BY <3>1
    <3>4. \A i \in DOMAIN toMcu' : toMcu'[i].id \in Link!Acked =>
            toMcu'[i].id = id /\ toMcu'[i].arg = arg
      BY <1>2, <3>3
    <3> QED
      BY <3>1, <3>2, <3>4 DEF CommandsOnTheWay
  <2>2. CASE Link!IssueFails(id)
    BY <1>1, <1>2, <2>2 DEF Link!IssueFails, Link!line, CommandsOnTheWay
  <2> QED
    BY <2>1, <2>2 DEF Send
<1>5. inForce' \subseteq inForce \ {id} /\ (id = "RESET" => inForce' = {})
  BY DEF Send
<1>6. call'.id = id \/ call' = Link!NoCall
  BY <1>1 DEF Send, Link!Issue, Link!IssueFails
<1>7. Powered'
  BY <1>1, <1>2, <1>5, <1>6 DEF Matches, Powered, Link!NoCall
<1>8. InForceMatches'
  BY <1>1, <1>5 DEF Matches, InForceMatches
<1> QED
  BY <1>3, <1>4, <1>7, <1>8 DEF Matches

\* A frame that is not acknowledged.
LEMMA FireMatches ==
  ASSUME Matches, Link!TypeOK, NEW id \in Link!Unacked, Fire(id), inForce' = inForce,
         \A x \in inForce : Due(x)' = Due(x)
  PROVE  Matches'
<1>1. CASE Link!PostFails
  BY <1>1, NoCallMatches DEF Link!PostFails, Link!vars, linkVars
<1>2. CASE \E arg \in Payload[id] : Link!Post(id, arg)
  <2>1. PICK arg \in Payload[id] : Link!Post(id, arg)
    BY <1>2
  <2>2. /\ call = Link!NoCall /\ UNCHANGED <<fd, plugged, toHost, board, slot, call>>
        /\ toMcu \in Seq(Link!Frame)
        /\ toMcu' = Append(toMcu, [id |-> id, arg |-> arg, seq |-> 0])
    BY <2>1 DEF Link!Post, Link!port, Link!mcu, Link!host, Link!TypeOK
  <2>3. (\A i \in DOMAIN toMcu : toMcu[i].id \notin Link!Acked) /\ toHost = << >>
    BY <2>2, NobodyWaits
  <2>4. \A i \in DOMAIN toMcu' :
          \/ i \in DOMAIN toMcu /\ toMcu'[i] = toMcu[i]
          \/ toMcu'[i] = [id |-> id, arg |-> arg, seq |-> 0]
    BY <2>2
  <2>5. id \notin Link!Acked
    BY DEF Link!Acked, Link!Unacked
  <2>6. CommandsOnTheWay'
    BY <2>3, <2>4, <2>5 DEF CommandsOnTheWay
  <2>7. AcksOnTheWay'
    BY <2>2, <2>3 DEF Matches, AcksOnTheWay
  <2>8. Powered' /\ InForceMatches'
    BY <2>2 DEF Matches, Powered, InForceMatches
  <2> QED
    BY <2>6, <2>7, <2>8 DEF Matches
<1> QED
  BY <1>1, <1>2 DEF Fire

\* The port is opened or closed, or read while nobody waits: nothing had come in.
LEMMA PortMatches ==
  ASSUME Matches, Link!TypeOK, call = Link!NoCall,
         (\E ok \in BOOLEAN : Link!Connect(ok)) \/ Link!Shutdown \/ Link!Read,
         inForce' = inForce, \A x \in inForce : Due(x)' = Due(x)
  PROVE  Matches'
<1>1. toHost = << >>
  BY NobodyWaits
<1>2. /\ UNCHANGED <<plugged, toMcu, board, slot, call>> /\ toHost' = << >>
      /\ fd' = "live" => fd = "live" \/ plugged
  <2>1. CASE \E ok \in BOOLEAN : Link!Connect(ok)
    BY <1>1, <2>1 DEF Link!Connect, Link!ConnectAlreadyOpen, Link!ConnectOpens,
       Link!ConnectThrows, Link!ConnectHalfway, Link!mcu, Link!host, Link!line, Link!vars
  <2>2. CASE Link!Shutdown
    BY <1>1, <2>2 DEF Link!Shutdown, Link!mcu, Link!host, Link!line
  <2>3. CASE Link!Read
    BY <1>1, <2>3 DEF Link!Read, Link!mcu, Link!port, Link!SlotAfterRead, Link!ToHostAfterRead
  <2> QED
    BY <2>1, <2>2, <2>3
<1>3. CommandsOnTheWay' /\ AcksOnTheWay'
  BY <1>2, NobodyWaits DEF Matches, CommandsOnTheWay, AcksOnTheWay
<1>4. Powered' /\ InForceMatches'
  BY <1>2 DEF Matches, Powered, InForceMatches
<1> QED
  BY <1>3, <1>4 DEF Matches

\* What Read() finds while the host waits answers the command in hand.
LEMMA FoundMatches ==
  ASSUME Matches, Link!TypeOK, call # Link!NoCall, Link!SlotAfterRead.received
  PROVE  /\ plugged /\ Link!Answers(Link!SlotAfterRead, call.id)
         /\ Link!SlotAfterRead.ack \in Link!Ack
         /\ call.id \in Tuning /\ Link!SlotAfterRead.ack.status = "OK" =>
              board[call.id] = Due(call.id)
<1>1. fd = "live" /\ toHost # << >> /\ Link!SlotAfterRead.ack = toHost[Len(toHost)]
  BY DEF Matches, AcksOnTheWay, Link!SlotAfterRead, Link!Last
<1>2. toHost \in Seq(Link!Ack) /\ Len(toHost) \in DOMAIN toHost
  <2>1. toHost \in Seq(Link!Ack)
    BY DEF Link!TypeOK
  <2> QED
    BY <1>1, <2>1
<1> QED
  BY <1>1, <1>2 DEF Matches, AcksOnTheWay, Powered, Link!Answers

\* A command that was answered is not on the line any more.
LEMMA AnsweredIsTaken ==
  ASSUME Matches, ~late, Link!TypeOK, Link!AckOrder, Link!OnlyThisCall,
         Link!SlotAfterRead.received
  PROVE  \A i \in DOMAIN toMcu : toMcu[i].id \notin Link!Acked
<1>1. toHost # << >> /\ toHost \in Seq(Link!Ack) /\ toMcu \in Seq(Link!Frame)
  BY DEF Matches, AcksOnTheWay, Link!SlotAfterRead, Link!TypeOK
<1>2. 1 \in DOMAIN toHost /\ toHost[1].seq = call.seq
  <2>1. 1 \in DOMAIN toHost
    BY <1>1
  <2> QED
    BY <2>1 DEF Link!OnlyThisCall
<1>3. toHost[1] \in Link!Ack /\ toHost[1].seq <= executed
  BY <1>1, <1>2 DEF Link!AckOrder, Link!ToHostInOrder
<1>4. ASSUME NEW i \in DOMAIN toMcu, toMcu[i].id \in Link!Acked
      PROVE  FALSE
  <2>1. executed < toMcu[i].seq /\ toMcu[i].seq = call.seq
    BY <1>4 DEF Link!AckOrder, Link!ToMcuInOrder, Link!OnlyThisCall
  <2>2. executed \in Nat /\ toHost[1].seq \in Nat
    BY <1>3 DEF Link!TypeOK, Link!Ack
  <2> QED
    BY <1>2, <1>3, <2>1, <2>2
<1> QED
  BY <1>4

\* A wait ends with the answer to its own command; one that is cut short is late.
LEMMA WaitMatches ==
  ASSUME Matched, Link!TypeOK, Link!AckOrder, Link!OnlyThisCall, WaitStep
  PROVE  Matched'
<1> SUFFICES ASSUME ~late'
             PROVE  Matches'
  BY DEF Matched
<1>1. Link!TakeAck \/ Link!PollAgain
  BY DEF WaitStep, Link!GiveUp
<1>2. Matches /\ late' = late /\ call # Link!NoCall
  BY <1>1 DEF Matched, Link!TakeAck, Link!PollAgain
<1>3. \A id : Due(id)' = Due(id)
  BY DEF WaitStep, Due, GainsDue, TimeoutDue, GainsWanted, TimeoutWanted, gpio, trackers
<1>4. UNCHANGED <<fd, plugged, toMcu, board>>
  BY <1>1 DEF Link!TakeAck, Link!PollAgain, Link!port, Link!mcu
<1>5. CASE Link!TakeAck
  <2>1. Link!SlotAfterRead.received /\ call' = Link!NoCall /\ ~slot'.received
    BY <1>5 DEF Link!TakeAck, Link!Answers
  <2>2. /\ plugged /\ fd = "live" /\ Link!SlotAfterRead.ack \in Link!Ack
        /\ call.id \in Tuning /\ Link!SlotAfterRead.ack.status = "OK" =>
             board[call.id] = Due(call.id)
        /\ Link!SlotAfterRead.ack.id = call.id
    BY <1>2, <2>1, FoundMatches
       DEF Link!Answers, Link!SlotAfterRead, Matches, AcksOnTheWay
  <2>3. toHost' = << >>
    BY <1>5, <2>2 DEF Link!TakeAck, Link!ToHostAfterRead
  <2>4. ret'.id = call.id /\ ret'.status = Link!Normalised(Link!SlotAfterRead.ack).status
    BY <1>5 DEF Link!TakeAck
  <2>5. \A id \in inForce' : id \in inForce \/ board[id] = Due(id)
    <3>1. SUFFICES ASSUME NEW id \in inForce', id \notin inForce
                   PROVE  board[id] = Due(id)
      OBVIOUS
    <3>2. id = call.id /\ id \in Tuning /\ ret'.status = "OK"
      BY <2>4, <3>1 DEF WaitStep
    <3>3. Link!SlotAfterRead.ack.status = "OK"
      BY <2>2, <2>4, <3>2 DEF Link!Normalised, Tuning
    <3> QED
      BY <2>2, <3>2, <3>3
  <2>6. CommandsOnTheWay'
    BY <1>2, <1>4, <2>1, AnsweredIsTaken DEF CommandsOnTheWay
  <2>7. AcksOnTheWay' /\ Powered'
    BY <1>4, <2>1, <2>2, <2>3 DEF AcksOnTheWay, Powered, Link!NoCall
  <2>8. InForceMatches'
    BY <1>2, <1>3, <1>4, <2>5 DEF Matches, InForceMatches
  <2> QED
    BY <2>6, <2>7, <2>8 DEF Matches
<1>6. CASE Link!PollAgain
  <2>1. ~Link!SlotAfterRead.received
    BY <1>2, <1>6, FoundMatches DEF Link!PollAgain
  <2>2. /\ UNCHANGED <<call, ret>> /\ ~slot'.received
        /\ toHost' = toHost \/ toHost' = << >>
    BY <1>6, <2>1 DEF Link!PollAgain, Link!ToHostAfterRead
  <2>3. inForce' = inForce
    BY <2>2 DEF WaitStep
  <2>4. CommandsOnTheWay' /\ AcksOnTheWay'
    BY <1>2, <1>3, <1>4, <2>2 DEF Matches, CommandsOnTheWay, AcksOnTheWay
  <2>5. Powered' /\ InForceMatches'
    BY <1>2, <1>3, <1>4, <2>2, <2>3 DEF Matches, Powered, InForceMatches
  <2> QED
    BY <2>4, <2>5 DEF Matches
<1> QED
  BY <1>1, <1>5, <1>6

LEMMA AppendCases ==
  ASSUME NEW S, NEW s \in Seq(S), NEW e
  PROVE  \A i \in DOMAIN Append(s, e) :
           (i \in DOMAIN s /\ Append(s, e)[i] = s[i]) \/ Append(s, e)[i] = e
OBVIOUS

\* What the board and the line do: a command that is taken is in force, if it is answered.
LEMMA BoardMatches ==
  ASSUME Matches, Link!TypeOK, NEW answer \in Link!Answer, Link!BoardTakes(answer),
         inForce' = inForce, inForce \subseteq Tuning, \A id : Due(id)' = Due(id)
  PROVE  Matches'
<1>1. /\ plugged /\ toMcu # << >> /\ toMcu' = Tail(toMcu)
      /\ UNCHANGED <<fd, plugged, slot, call>>
      /\ toMcu \in Seq(Link!Frame) /\ toHost \in Seq(Link!Ack)
      /\ board \in [Link!Setting -> Link!Arg]
  BY DEF Link!BoardTakes, Link!port, Link!host, Link!TypeOK
<1> DEFINE frame == Head(toMcu)
<1>2. /\ frame = toMcu[1] /\ 1 \in DOMAIN toMcu /\ frame \in Link!Frame
      /\ \A i \in DOMAIN toMcu' : i + 1 \in DOMAIN toMcu /\ toMcu'[i] = toMcu[i + 1]
  BY <1>1
<1>3. CommandsOnTheWay'
  BY <1>1, <1>2 DEF Matches, CommandsOnTheWay
<1>4. frame.id \in Link!Acked =>
        /\ call # Link!NoCall /\ frame.id = call.id
        /\ call.id \in Tuning => frame.arg = Due(call.id)
  BY <1>2 DEF Matches, CommandsOnTheWay
<1>5. \A id \in Tuning :
        board'[id] = board[id] \/ board'[id] = Due(id) \/ (frame.id = "RESET" /\ board' = Boot)
  <2>1. board' \in Link!BoardAfter(frame) \/ board' = board
    BY DEF Link!BoardTakes
  <2>2. CASE frame.id \in Tuning
    <3>1. frame.id \in Link!Acked \cap Link!Setting
      BY <2>2 DEF Tuning, Link!Acked, Link!Setting
    <3>2. board' = [board EXCEPT ![frame.id] = Due(frame.id)] \/ board' = board
      BY <1>4, <2>1, <2>2, <3>1 DEF Link!BoardAfter
    <3>3. ASSUME NEW id \in Tuning
          PROVE  board'[id] = board[id] \/ board'[id] = Due(id)
      <4>1. CASE id = frame.id
        BY <1>1, <3>1, <3>2, <4>1
      <4>2. CASE id # frame.id
        BY <1>1, <3>1, <3>2, <4>2 DEF Tuning, Link!Setting
      <4> QED
        BY <4>1, <4>2
    <3> QED
      BY <3>3
  <2>3. CASE frame.id \in {"WHEEL_VELOCITY", "RGB_LED_SET"}
    BY <1>1, <2>1, <2>3 DEF Link!BoardAfter, Link!Setting, Tuning
  <2>4. CASE frame.id \in {"HANDSHAKE", "RESET", "DEACTIVATE"}
    BY <1>1, <2>1, <2>4 DEF Link!BoardAfter, Link!Setting, Tuning
  <2>5. frame.id \in Link!MsgId
    BY <1>2 DEF Link!Frame
  <2> QED
    BY <2>2, <2>3, <2>4, <2>5 DEF Tuning, Link!MsgId, Link!Acked, Link!Unacked
<1>6. InForceMatches'
  <2>1. ASSUME NEW id \in inForce
        PROVE  board'[id] = Due(id)
    <3>1. board[id] = Due(id) /\ frame.id # "RESET"
      BY <1>4, <2>1 DEF Matches, InForceMatches, Powered, Link!Acked
    <3> QED
      BY <1>5, <3>1
  <2> QED
    BY <2>1 DEF InForceMatches
<1>7. AcksOnTheWay'
  <2>1. \/ toHost' = toHost
        \/ /\ frame.id \in Link!Acked
           /\ toHost' = Append(toHost, [id |-> frame.id, status |-> answer, seq |-> frame.seq])
    BY DEF Link!BoardTakes
  <2>2. \A i \in DOMAIN toHost' :
          \/ i \in DOMAIN toHost /\ toHost'[i] = toHost[i]
          \/ /\ frame.id \in Link!Acked
             /\ toHost'[i] = [id |-> frame.id, status |-> answer, seq |-> frame.seq]
    <3>1. CASE toHost' = toHost
      BY <3>1
    <3>2. CASE toHost' # toHost
      BY <1>1, <2>1, <3>2, AppendCases
    <3> QED
      BY <3>1, <3>2
  <2>3. ASSUME NEW i \in DOMAIN toHost'
        PROVE  /\ call # Link!NoCall /\ toHost'[i].id = call.id
               /\ call.id \in Tuning /\ toHost'[i].status = "OK" => board'[call.id] = Due(call.id)
    <3>1. CASE i \in DOMAIN toHost /\ toHost'[i] = toHost[i]
      <4>1. /\ call # Link!NoCall /\ toHost[i].id = call.id
            /\ call.id \in Tuning /\ toHost[i].status = "OK" => board[call.id] = Due(call.id)
        BY <3>1 DEF Matches, AcksOnTheWay
      <4>2. call.id \in Tuning => frame.id # "RESET"
        BY <1>4 DEF Tuning, Link!Acked
      <4> QED
        BY <1>5, <3>1, <4>1, <4>2
    <3>2. CASE /\ frame.id \in Link!Acked
               /\ toHost'[i] = [id |-> frame.id, status |-> answer, seq |-> frame.seq]
      <4>1. ASSUME call.id \in Tuning, answer = "OK"
            PROVE  board'[call.id] = Due(call.id)
        <5>1. frame.id \in Link!Setting
          BY <1>4, <3>2, <4>1 DEF Tuning, Link!Setting
        <5>2. board' = [board EXCEPT ![frame.id] = frame.arg]
          BY <4>1, <5>1 DEF Link!BoardTakes, Link!BoardAfter
        <5> QED
          BY <1>1, <1>4, <3>2, <4>1, <5>1, <5>2
      <4> QED
        BY <1>4, <3>2, <4>1
    <3> QED
      BY <2>2, <3>1, <3>2
  <2>4. \A i \in DOMAIN toHost' :
          /\ call # Link!NoCall /\ toHost'[i].id = call.id
          /\ call.id \in Tuning /\ toHost'[i].status = "OK" => board'[call.id] = Due(call.id)
    BY <2>3
  <2> QED
    BY <1>1, <2>4 DEF Matches, AcksOnTheWay
<1>8. Powered'
  BY <1>1 DEF Matches, Powered
<1> QED
  BY <1>3, <1>6, <1>7, <1>8 DEF Matches

LEMMA LineMatches ==
  ASSUME Matched, Link!TypeOK, LineStep, inForce \subseteq Tuning
  PROVE  Matched'
<1> SUFFICES ASSUME ~late'
             PROVE  Matches'
  BY DEF Matched
<1>1. UNCHANGED <<slot, call, late>>
  BY DEF LineStep, Link!LineNext, Link!FrameLost, Link!BoardTakes, Link!BoardWatchdog,
     Link!Unplug, Link!Replug, Link!host
<1>2. Matches
  BY <1>1 DEF Matched
<1>3. \A id : Due(id)' = Due(id)
  BY DEF LineStep, Due, GainsDue, TimeoutDue, GainsWanted, TimeoutWanted, gpio, trackers
<1>4. inForce' = IF plugged' THEN inForce ELSE {}
  BY DEF LineStep
<1>5. CASE Link!FrameLost
  <2>1. /\ toMcu # << >> /\ toMcu' = Tail(toMcu) /\ toMcu \in Seq(Link!Frame)
        /\ UNCHANGED <<fd, plugged, toHost, board>>
    BY <1>5 DEF Link!FrameLost, Link!port, Link!mcu, Link!TypeOK
  <2>2. \A i \in DOMAIN toMcu' : i + 1 \in DOMAIN toMcu /\ toMcu'[i] = toMcu[i + 1]
    BY <2>1
  <2>3. CommandsOnTheWay' /\ AcksOnTheWay'
    BY <1>1, <1>2, <1>3, <2>1, <2>2 DEF Matches, CommandsOnTheWay, AcksOnTheWay
  <2>4. Powered' /\ InForceMatches'
    BY <1>1, <1>2, <1>3, <1>4, <2>1 DEF Matches, Powered, InForceMatches
  <2> QED
    BY <2>3, <2>4 DEF Matches
<1>6. CASE \E answer \in Link!Answer : Link!BoardTakes(answer)
  <2>1. PICK answer \in Link!Answer : Link!BoardTakes(answer)
    BY <1>6
  <2>2. inForce' = inForce
    BY <1>4, <2>1 DEF Link!BoardTakes, Link!port
  <2> QED
    BY <1>2, <1>3, <2>1, <2>2, BoardMatches
<1>7. CASE Link!BoardWatchdog
  <2>1. /\ UNCHANGED <<fd, plugged, toMcu, toHost>>
        /\ \A id \in Tuning : board'[id] = board[id]
    BY <1>7 DEF Link!BoardWatchdog, Link!port, Link!line, Link!TypeOK, Link!Setting, Tuning
  <2>2. CommandsOnTheWay' /\ AcksOnTheWay'
    BY <1>1, <1>2, <1>3, <2>1 DEF Matches, CommandsOnTheWay, AcksOnTheWay
  <2>3. Powered' /\ InForceMatches'
    BY <1>1, <1>2, <1>3, <1>4, <2>1 DEF Matches, Powered, InForceMatches
  <2> QED
    BY <2>2, <2>3 DEF Matches
<1>8. CASE Link!Unplug
  <2>1. ~plugged' /\ fd' # "live" /\ toMcu' = << >> /\ toHost' = << >> /\ inForce' = {}
    BY <1>4, <1>8 DEF Link!Unplug, Link!IsOpen
  <2> QED
    BY <1>1, <1>2, <2>1
       DEF Matches, CommandsOnTheWay, AcksOnTheWay, Powered, InForceMatches
<1>9. CASE Link!Replug
  <2>1. ~plugged /\ plugged' /\ UNCHANGED <<fd, toMcu, toHost>>
    BY <1>9 DEF Link!Replug, Link!line
  <2>2. inForce' = {} /\ toHost = << >>
    BY <1>2, <1>4, <2>1 DEF Matches, Powered
  <2> QED
    BY <1>1, <1>2, <1>3, <2>1, <2>2
       DEF Matches, CommandsOnTheWay, AcksOnTheWay, Powered, InForceMatches
<1> QED
  BY <1>5, <1>6, <1>7, <1>8, <1>9 DEF LineStep, Link!LineNext

\* Callbacks between two link calls: the trackers take what was due.
LEMMA QuietMatches ==
  ASSUME Matches, Link!TypeOK, inForce \subseteq Tuning,
         \/ OnConfigure \/ HandshakeAgain \/ HandshakeFails \/ ActivateDone \/ DeactivateDone
         \/ CycleWithoutPort \/ WriteThrows \/ GainsCurrent \/ TimeoutCurrent
         \/ GainsWritten \/ TimeoutWritten \/ Tune \/ Update
  PROVE  Matches'
<1> USE DEF Due, GainsDue, TimeoutDue, At, gpio, trackers, history, asked, start
<1>1. call = Link!NoCall /\ UNCHANGED linkVars /\ inForce' = inForce
  BY DEF OnConfigure, HandshakeAgain, HandshakeFails, ActivateDone, DeactivateDone,
     CycleWithoutPort, WriteThrows, GainsCurrent, TimeoutCurrent, GainsWritten, TimeoutWritten,
     Tune, Update
<1>2. \A id \in Tuning : Due(id)' = Due(id)
  <2>1. CASE OnConfigure \/ HandshakeAgain \/ HandshakeFails \/ DeactivateDone
    BY <2>1 DEF OnConfigure, HandshakeAgain, HandshakeFails, DeactivateDone
  <2>2. CASE ActivateDone
    BY <2>2 DEF ActivateDone, TrackUrdf
  <2>3. CASE CycleWithoutPort \/ WriteThrows \/ GainsCurrent \/ TimeoutCurrent
    BY <2>3 DEF CycleWithoutPort, WriteThrows, GainsCurrent, TimeoutCurrent, Finalize
  <2>4. CASE GainsWritten
    BY <2>4 DEF GainsWritten, GainsSent
  <2>5. CASE TimeoutWritten
    BY <2>5 DEF TimeoutWritten
  <2>6. CASE Tune \/ Update
    BY <2>6 DEF Tune, Update
  <2> QED
    BY <2>1, <2>2, <2>3, <2>4, <2>5, <2>6
<1> QED
  BY <1>1, <1>2, NoCallMatches

\* Callbacks that send a command with an ACK.
LEMMA CommandMatches ==
  ASSUME Matches, Link!TypeOK, TuningTypeOK, inForce \subseteq Tuning,
         \/ Handshake \/ ActivateGains \/ ActivateTimeout \/ Deactivate \/ Reset
         \/ WriteGains \/ WriteTimeout
  PROVE  Matches'
<1> USE DEF At, gpio, trackers, Link!Acked, Tuning
<1>1. CASE Handshake \/ Deactivate \/ Reset
  <2>1. PICK id \in {"HANDSHAKE", "DEACTIVATE", "RESET"} :
          \E arg \in Payload[id], next \in {"handshake", "deactivate", "reset"} :
            Send(id, arg, next)
    BY <1>1, CommandsExist DEF Handshake, Deactivate, Reset
  <2>2. \A x \in Tuning : Due(x)' = Due(x)
    BY <1>1, <2>1
       DEF Handshake, Deactivate, Reset, Send, Due, GainsDue, TimeoutDue
  <2> QED
    BY <2>1, <2>2, SendMatches
<1>2. CASE ActivateGains
  <2>1. /\ Wire(UrdfGains) \in Payload["SET_PID_GAINS"]
        /\ Send("SET_PID_GAINS", Wire(UrdfGains), "gains")
    BY <1>2, SystemAssumption DEF ActivateGains, Gains
  <2>2. Due("SET_PID_GAINS")' = Wire(UrdfGains)
    BY <2>1 DEF Send, Due, GainsDue
  <2>3. Due("SET_CMD_TIMEOUT")' = Due("SET_CMD_TIMEOUT")
    BY <1>2 DEF ActivateGains, Send, Due, TimeoutDue
  <2> QED
    BY <2>1, <2>2, <2>3, SendMatches
<1>3. CASE ActivateTimeout
  <2>1. /\ Clamp[UrdfTimeout] \in Payload["SET_CMD_TIMEOUT"]
        /\ Send("SET_CMD_TIMEOUT", Clamp[UrdfTimeout], "timeout")
    BY <1>3, SystemAssumption DEF ActivateTimeout
  <2>2. Due("SET_CMD_TIMEOUT")' = Clamp[UrdfTimeout]
    BY <2>1 DEF Send, Due, TimeoutDue
  <2>3. Due("SET_PID_GAINS")' = Due("SET_PID_GAINS")
    BY <1>3 DEF ActivateTimeout, Send, Due, GainsDue
  <2> QED
    BY <2>1, <2>2, <2>3, SendMatches
<1>4. CASE WriteGains
  <2>1. /\ Wire(GainsWanted) \in Payload["SET_PID_GAINS"]
        /\ Send("SET_PID_GAINS", Wire(GainsWanted), "writeGains")
    BY <1>4, WantedFinite, SystemAssumption DEF WriteGains, Gains
  <2>2. Due("SET_PID_GAINS")' = Wire(GainsWanted)
    BY <1>4 DEF WriteGains, Send, Due, GainsDue, GainsWanted
  <2>3. Due("SET_CMD_TIMEOUT")' = Due("SET_CMD_TIMEOUT")
    BY <1>4 DEF WriteGains, Send, Due, TimeoutDue
  <2> QED
    BY <2>1, <2>2, <2>3, SendMatches
<1>5. CASE WriteTimeout
  <2>1. /\ Clamp[TimeoutWanted] \in Payload["SET_CMD_TIMEOUT"]
        /\ Send("SET_CMD_TIMEOUT", Clamp[TimeoutWanted], "writeTimeout")
    BY <1>5, WantedFinite, SystemAssumption DEF WriteTimeout
  <2>2. Due("SET_CMD_TIMEOUT")' = Clamp[TimeoutWanted]
    BY <1>5 DEF WriteTimeout, Send, Due, TimeoutDue, TimeoutWanted
  <2>3. Due("SET_PID_GAINS")' = Due("SET_PID_GAINS")
    BY <1>5 DEF WriteTimeout, Send, Due, GainsDue
  <2> QED
    BY <2>1, <2>2, <2>3, SendMatches
<1> QED
  BY <1>1, <1>2, <1>3, <1>4, <1>5

\* Callbacks that post a frame, open or close the port, or read.
LEMMA PostAndPortMatch ==
  ASSUME Matches, Link!TypeOK, inForce \subseteq Tuning,
         \/ OnDeactivate \/ WriteLed \/ WriteWheels
         \/ OnActivate \/ OnCleanup \/ ReadThrows \/ Read
  PROVE  Matches'
<1>1. /\ call = Link!NoCall /\ inForce' = inForce
      /\ \A id \in Tuning : Due(id)' = Due(id)
  <2> USE DEF At, gpio, trackers, history, asked, start, Due, GainsDue, TimeoutDue
  <2>1. CASE OnDeactivate \/ WriteLed \/ WriteWheels
    BY <2>1 DEF OnDeactivate, WriteLed, WriteWheels
  <2>2. CASE OnActivate \/ OnCleanup
    BY <2>2 DEF OnActivate, OnCleanup
  <2>3. CASE ReadThrows \/ Read
    BY <2>3 DEF ReadThrows, Read, Finalize
  <2> QED
    BY <2>1, <2>2, <2>3
<1>2. CASE OnDeactivate \/ WriteLed \/ WriteWheels
  <2>1. (\E id \in Link!Unacked : Fire(id)) \/ UNCHANGED linkVars
    BY <1>2 DEF OnDeactivate, WriteLed, WriteWheels, Link!Unacked
  <2> QED
    BY <1>1, <2>1, FireMatches, NoCallMatches
<1>3. CASE OnActivate \/ OnCleanup \/ ReadThrows \/ Read
  <2>1. (\E ok \in BOOLEAN : Link!Connect(ok)) \/ Link!Shutdown \/ Link!Read
    BY <1>3 DEF OnActivate, OnCleanup, ReadThrows, Read
  <2> QED
    BY <1>1, <2>1, PortMatches
<1> QED
  BY <1>2, <1>3

LEMMA OnlyWaitsAreLate ==
  ASSUME Lifecycle \/ Cycle \/ Tune \/ Update
  PROVE  late' = late
<1> USE DEF linkVars, Link!vars, Link!host
<1>1. \A id, arg, next : Send(id, arg, next) => late' = late
  BY DEF Send, Link!Issue, Link!IssueFails
<1>2. \A id : Fire(id) => late' = late
  BY DEF Fire, Link!Post, Link!PostFails
<1>3. (\E ok \in BOOLEAN : Link!Connect(ok)) \/ Link!Shutdown \/ Link!Read => late' = late
  BY DEF Link!Connect, Link!ConnectAlreadyOpen, Link!ConnectOpens, Link!ConnectThrows,
     Link!ConnectHalfway, Link!Shutdown, Link!Read
<1>4. CASE Lifecycle
  BY <1>1, <1>2, <1>3, <1>4 DEF Lifecycle, OnConfigure, OnActivate, Handshake, HandshakeAgain,
     HandshakeFails, ActivateGains, ActivateTimeout, ActivateDone, OnDeactivate, Deactivate,
     Reset, DeactivateDone, OnCleanup
<1>5. CASE Cycle \/ Tune \/ Update
  BY <1>1, <1>2, <1>3, <1>5 DEF Cycle, CycleWithoutPort, ReadThrows, Read, WriteStep, WriteGains,
     GainsWritten, GainsCurrent, WriteTimeout, TimeoutWritten, TimeoutCurrent, WriteThrows,
     WriteLed, WriteWheels, Tune, Update
<1> QED
  BY <1>4, <1>5

LEMMA NextMatched ==
  ASSUME Matched, Link!TypeOK, Link!AckOrder, Link!OnlyThisCall, TuningTypeOK, OwnTypeOK,
         [Next]_vars
  PROVE  Matched'
<1>1. inForce \subseteq Tuning
  BY DEF OwnTypeOK
<1>2. CASE WaitStep \/ LineStep
  BY <1>1, <1>2, WaitMatches, LineMatches
<1>3. CASE UNCHANGED vars
  BY <1>3 DEF vars, linkVars, sysVars, history, asked, start, gpio, trackers, Matched, Matches,
     CommandsOnTheWay, AcksOnTheWay, Powered, InForceMatches, Due, GainsDue, TimeoutDue,
     GainsWanted, TimeoutWanted
<1>4. CASE Lifecycle \/ Cycle \/ Tune \/ Update
  <2>1. ~late => Matches'
    BY <1>1, <1>4, QuietMatches, CommandMatches, PostAndPortMatch
       DEF Matched, Lifecycle, Cycle, WriteStep
  <2>2. late' = late
    BY <1>4, OnlyWaitsAreLate
  <2> QED
    BY <2>1, <2>2 DEF Matched
<1> QED
  BY <1>2, <1>3, <1>4 DEF Next

LEMMA SameOrder ==
  (Link!AckOrder <=> LinkThms!AckOrder) /\ (Link!OnlyThisCall <=> LinkThms!OnlyThisCall)
BY DEF Link!AckOrder, LinkThms!AckOrder, Link!ToMcuInOrder, LinkThms!ToMcuInOrder,
   Link!ToHostInOrder, LinkThms!ToHostInOrder, Link!SlotInOrder, LinkThms!SlotInOrder,
   Link!CallIsLast, LinkThms!CallIsLast, Link!OnlyThisCall, LinkThms!OnlyThisCall,
   Link!Acked, LinkThms!Acked, Link!NoCall, LinkThms!NoCall

\* While no wait was cut short, what write() compares its commands with is what the board
\* runs with (TrackersMatchBoard of DiffbotSystem).
THEOREM SystemTrackersMatchBoard == Spec => []TrackersMatchBoard
<1>1. Spec => [](LinkThms!TypeOK /\ LinkThms!AckOrder /\ LinkThms!OnlyThisCall)
  BY UsesLinkThms, LinkParameters, LinkThms!LinkTypeOK, LinkThms!LinkAckOrder,
     LinkThms!LinkOnlyThisCall, PTL
<1>2. /\ IInv /\ OwnTypeOK /\ Matched /\ [Next]_vars
      /\ LinkThms!TypeOK /\ LinkThms!AckOrder /\ LinkThms!OnlyThisCall
      => Matched'
  BY SameTypeOK, SameOrder, NextMatched DEF IInv
<1>3. OwnTypeOK /\ LinkThms!TypeOK /\ [Next]_vars => OwnTypeOK'
  BY NextOwnTypeOK DEF LinkThms!TypeOK
<1>4. Matched => TrackersMatchBoard
  BY DEF Matched, Matches, InForceMatches, Due, GainsDue, TimeoutDue, TrackersMatchBoard
<1>5. Init => OwnTypeOK /\ Matched
  BY InitTypes, InitMatched
<1> QED
  BY <1>1, <1>2, <1>3, <1>4, <1>5, Invariance, PTL DEF Spec
-----------------------------------------------------------------------------
(* The handshake.  When on_activate began and no wait had been cut short,  *)
(* nothing was outstanding; all that came since is of this call.           *)

Starting == op \in {"connected", "handshake"} /\ ~lateBefore

\* What is on the line and in the slot was sent after on_activate began.
FreshLine ==
  /\ began <= sent
  /\ \A i \in DOMAIN toMcu : toMcu[i].id \in Link!Acked => began < toMcu[i].seq
  /\ \A i \in DOMAIN toHost : began < toHost[i].seq
  /\ slot.received => began < slot.ack.seq

\* So is what a handshake returns.
FreshAnswer ==
  op = "handshake" /\ call = Link!NoCall /\ ret.status = "OK" =>
    began < ret.ack /\ ret.ack <= executed

Fresh == Starting => FreshLine /\ FreshAnswer

\* on_activate begins.
LEMMA ActivateFresh ==
  ASSUME Link!TypeOK, Link!OnlyThisCall, OwnTypeOK, OnActivate
  PROVE  Fresh'
<1> SUFFICES ASSUME Starting'
             PROVE  FreshLine' /\ FreshAnswer'
  BY DEF Fresh
<1>1. op' = "connected" /\ call = Link!NoCall /\ began' = sent /\ ~late /\ Link!Connect(TRUE)
  BY DEF OnActivate, At, Starting
<1>2. /\ UNCHANGED <<toMcu, slot, sent>>
      /\ toHost' = toHost \/ toHost' = << >>
  BY <1>1 DEF Link!Connect, Link!ConnectAlreadyOpen, Link!ConnectOpens, Link!mcu, Link!host,
     Link!vars
<1>3. sent \in Nat
  BY DEF Link!TypeOK
<1>4. FreshLine'
  BY <1>1, <1>2, <1>3 DEF FreshLine, Link!OnlyThisCall
<1> QED
  BY <1>1, <1>4 DEF FreshAnswer

\* A handshake is sent, or cannot be, or is tried again.
LEMMA HandshakeFresh ==
  ASSUME Link!TypeOK, CountsOK, Fresh, Handshake \/ HandshakeAgain
  PROVE  Fresh'
<1> SUFFICES ASSUME Starting'
             PROVE  FreshLine' /\ FreshAnswer'
  BY DEF Fresh
<1> USE DEF history, asked, start
<1>1. began' = began /\ FreshLine
  BY DEF Handshake, HandshakeAgain, At, Starting, Fresh
<1>2. CASE HandshakeAgain
  BY <1>1, <1>2 DEF HandshakeAgain, linkVars, FreshLine, FreshAnswer
<1>3. CASE Handshake
  <2>1. PICK arg : Link!Issue("HANDSHAKE", arg) \/ Link!IssueFails("HANDSHAKE")
    BY <1>3 DEF Handshake, Send
  <2>2. CASE Link!IssueFails("HANDSHAKE")
    BY <1>1, <2>2 DEF Link!IssueFails, Link!line, FreshLine, FreshAnswer
  <2>3. CASE Link!Issue("HANDSHAKE", arg)
    <3>1. /\ UNCHANGED <<toHost, slot>> /\ sent' = sent + 1
          /\ toMcu' = Append(toMcu, [id |-> "HANDSHAKE", arg |-> arg, seq |-> sent'])
          /\ call' # Link!NoCall
      BY <2>3 DEF Link!Issue, Link!NoCall
    <3>2. toMcu \in Seq(Link!Frame) /\ sent \in Nat /\ began \in Nat
      BY DEF Link!TypeOK, CountsOK
    <3>3. began < sent' /\ began <= sent'
      BY <1>1, <3>1, <3>2 DEF FreshLine
    <3>4. \A i \in DOMAIN toMcu' : toMcu'[i].id \in Link!Acked => began < toMcu'[i].seq
      <4>1. \A i \in DOMAIN toMcu' :
              \/ i \in DOMAIN toMcu /\ toMcu'[i] = toMcu[i]
              \/ toMcu'[i] = [id |-> "HANDSHAKE", arg |-> arg, seq |-> sent']
        BY <3>1, <3>2, AppendCases
      <4> QED
        BY <1>1, <3>3, <4>1 DEF FreshLine
    <3> QED
      BY <1>1, <3>1, <3>3, <3>4 DEF FreshLine, FreshAnswer
  <2> QED
    BY <2>1, <2>2, <2>3
<1> QED
  BY <1>2, <1>3

\* The host waits: what it finds was sent after on_activate began, and was executed.
LEMMA WaitFresh ==
  ASSUME Link!TypeOK, Link!AckOrder, CountsOK, Fresh, WaitStep
  PROVE  Fresh'
<1> SUFFICES ASSUME Starting'
             PROVE  FreshLine' /\ FreshAnswer'
  BY DEF Fresh
<1>1. began' = began /\ FreshLine
  BY DEF WaitStep, Starting, Fresh, start
<1>2. UNCHANGED <<toMcu, sent, executed>> /\ call # Link!NoCall
  BY DEF WaitStep, Link!TakeAck, Link!PollAgain, Link!GiveUp, Link!mcu, Link!line
<1>3. Link!SlotAfterRead.received =>
        began < Link!SlotAfterRead.ack.seq /\ Link!SlotAfterRead.ack.seq <= executed
  <2>1. CASE fd = "live" /\ toHost # << >>
    <3>1. toHost \in Seq(Link!Ack) /\ Len(toHost) \in DOMAIN toHost
      <4>1. toHost \in Seq(Link!Ack)
        BY DEF Link!TypeOK
      <4> QED
        BY <2>1, <4>1
    <3>2. Link!SlotAfterRead.ack = toHost[Len(toHost)]
      BY <2>1 DEF Link!SlotAfterRead, Link!Last
    <3> QED
      BY <1>1, <3>1, <3>2 DEF FreshLine, Link!AckOrder, Link!ToHostInOrder
  <2>2. CASE ~(fd = "live" /\ toHost # << >>)
    BY <1>1, <2>2 DEF Link!SlotAfterRead, FreshLine, Link!AckOrder, Link!SlotInOrder
  <2> QED
    BY <2>1, <2>2
<1>4. CASE Link!TakeAck
  <2>1. ~slot'.received /\ (toHost' = toHost \/ toHost' = << >>)
    BY <1>4 DEF Link!TakeAck, Link!ToHostAfterRead
  <2>2. Link!SlotAfterRead.received
    BY <1>4 DEF Link!TakeAck, Link!Answers
  <2>3. ret'.ack = Link!SlotAfterRead.ack.seq
    <3>1. Link!Normalised(Link!SlotAfterRead.ack).seq = Link!SlotAfterRead.ack.seq
      BY DEF Link!Normalised
    <3> QED
      BY <1>4, <3>1 DEF Link!TakeAck
  <2> QED
    BY <1>1, <1>2, <1>3, <2>1, <2>2, <2>3 DEF FreshLine, FreshAnswer
<1>5. CASE Link!PollAgain
  <2>1. slot' = Link!SlotAfterRead /\ (toHost' = toHost \/ toHost' = << >>) /\ call' = call
    BY <1>5 DEF Link!PollAgain, Link!ToHostAfterRead
  <2> QED
    BY <1>1, <1>2, <1>3, <2>1 DEF FreshLine, FreshAnswer
<1>6. CASE Link!GiveUp
  <2>1. slot' = slot /\ toHost' = toHost /\ ret'.status = "TIMEOUT"
    BY <1>6 DEF Link!GiveUp, Link!line
  <2> QED
    BY <1>1, <1>2, <2>1 DEF FreshLine, FreshAnswer
<1> QED
  BY <1>4, <1>5, <1>6 DEF WaitStep

\* The line: the board answers only what it takes, and takes only what was sent.
LEMMA LineFresh ==
  ASSUME Link!TypeOK, Link!AckOrder, CountsOK, Fresh, LineStep
  PROVE  Fresh'
<1> SUFFICES ASSUME Starting'
             PROVE  FreshLine' /\ FreshAnswer'
  BY DEF Fresh
<1>1. began' = began /\ op' = op /\ FreshLine /\ FreshAnswer
  BY DEF LineStep, Starting, Fresh, start
<1>2. UNCHANGED <<slot, call, ret, sent>>
  BY DEF LineStep, Link!LineNext, Link!FrameLost, Link!BoardTakes, Link!BoardWatchdog,
     Link!Unplug, Link!Replug, Link!host
<1>3. toMcu \in Seq(Link!Frame) /\ toHost \in Seq(Link!Ack) /\ executed \in Nat
  BY DEF Link!TypeOK
<1>4. CASE Link!FrameLost
  <2>1. /\ toMcu # << >> /\ toMcu' = Tail(toMcu) /\ UNCHANGED <<toHost, executed>>
    BY <1>4 DEF Link!FrameLost, Link!mcu
  <2>2. \A i \in DOMAIN toMcu' : i + 1 \in DOMAIN toMcu /\ toMcu'[i] = toMcu[i + 1]
    BY <1>3, <2>1
  <2> QED
    BY <1>1, <1>2, <2>1, <2>2 DEF FreshLine, FreshAnswer
<1>5. CASE \E answer \in Link!Answer : Link!BoardTakes(answer)
  <2>1. PICK answer \in Link!Answer : Link!BoardTakes(answer)
    BY <1>5
  <2> DEFINE frame == Head(toMcu)
  <2>2. toMcu # << >> /\ toMcu' = Tail(toMcu)
    BY <2>1 DEF Link!BoardTakes
  <2>3. /\ frame = toMcu[1] /\ 1 \in DOMAIN toMcu /\ frame \in Link!Frame
        /\ \A i \in DOMAIN toMcu' : i + 1 \in DOMAIN toMcu /\ toMcu'[i] = toMcu[i + 1]
    BY <1>3, <2>2
  <2>4. frame.id \in Link!Acked => began < frame.seq /\ executed < frame.seq
    BY <1>1, <2>3 DEF FreshLine, Link!AckOrder, Link!ToMcuInOrder
  <2>5. executed' \in Nat /\ executed <= executed'
    <3>1. \/ frame.id \in Link!Acked /\ executed' = frame.seq
          \/ executed' = executed
      BY <2>1 DEF Link!BoardTakes
    <3>2. frame.seq \in Nat
      BY <2>3 DEF Link!Frame
    <3> QED
      BY <1>3, <2>4, <3>1, <3>2
  <2>6. \A i \in DOMAIN toHost' : began < toHost'[i].seq
    <3>1. \/ toHost' = toHost
          \/ /\ frame.id \in Link!Acked
             /\ toHost' = Append(toHost, [id |-> frame.id, status |-> answer, seq |-> frame.seq])
      BY <2>1 DEF Link!BoardTakes
    <3>2. CASE toHost' = toHost
      BY <1>1, <3>2 DEF FreshLine
    <3>3. CASE /\ frame.id \in Link!Acked
               /\ toHost' = Append(toHost, [id |-> frame.id, status |-> answer, seq |-> frame.seq])
      <4>1. \A i \in DOMAIN toHost' :
              \/ i \in DOMAIN toHost /\ toHost'[i] = toHost[i]
              \/ toHost'[i] = [id |-> frame.id, status |-> answer, seq |-> frame.seq]
        BY <1>3, <3>3, AppendCases
      <4> QED
        BY <1>1, <2>4, <3>3, <4>1 DEF FreshLine
    <3> QED
      BY <3>1, <3>2, <3>3
  <2>7. FreshLine'
    BY <1>1, <1>2, <2>3, <2>6 DEF FreshLine
  <2>8. FreshAnswer'
    <3>1. ret.ack \in Nat
      BY DEF Link!TypeOK, Link!NoRet
    <3> QED
      BY <1>1, <1>2, <1>3, <2>5, <3>1 DEF FreshAnswer
  <2> QED
    BY <2>7, <2>8
<1>6. CASE Link!BoardWatchdog \/ Link!Replug
  BY <1>1, <1>2, <1>6 DEF Link!BoardWatchdog, Link!Replug, Link!line, FreshLine, FreshAnswer
<1>7. CASE Link!Unplug
  BY <1>1, <1>2, <1>7 DEF Link!Unplug, Link!mcu, FreshLine, FreshAnswer
<1> QED
  BY <1>4, <1>5, <1>6, <1>7 DEF LineStep, Link!LineNext

\* No other step begins an activation or goes on with its handshakes.
LEMMA OthersFresh ==
  ASSUME \/ OnConfigure \/ HandshakeFails \/ ActivateGains \/ ActivateTimeout \/ ActivateDone
         \/ OnDeactivate \/ Deactivate \/ Reset \/ DeactivateDone \/ OnCleanup
         \/ Cycle \/ Tune \/ Update
  PROVE  Fresh'
<1> SUFFICES op' \notin {"connected", "handshake"}
  BY DEF Fresh, Starting
<1>1. CASE OnConfigure \/ HandshakeFails \/ ActivateGains \/ ActivateTimeout \/ ActivateDone
  BY <1>1 DEF OnConfigure, At, HandshakeFails, ActivateGains, ActivateTimeout, ActivateDone, Send
<1>2. CASE OnDeactivate \/ Deactivate \/ Reset \/ DeactivateDone \/ OnCleanup
  BY <1>2 DEF OnDeactivate, Deactivate, Reset, DeactivateDone, OnCleanup, At, Send
<1>3. CASE Cycle
  BY <1>3 DEF Cycle, CycleWithoutPort, ReadThrows, Read, Finalize, WriteStep, WriteGains,
     GainsWritten, GainsCurrent, WriteTimeout, TimeoutWritten, TimeoutCurrent, WriteThrows,
     WriteLed, WriteWheels, At, Send
<1>4. CASE Tune \/ Update
  BY <1>4 DEF Tune, Update, At
<1> QED
  BY <1>1, <1>2, <1>3, <1>4

LEMMA NextFresh ==
  ASSUME Link!TypeOK, Link!AckOrder, Link!OnlyThisCall, CountsOK, OwnTypeOK, Fresh, [Next]_vars
  PROVE  Fresh'
<1>1. CASE UNCHANGED vars
  BY <1>1 DEF vars, linkVars, sysVars, history, start, Fresh, Starting, FreshLine, FreshAnswer
<1> QED
  BY <1>1, ActivateFresh, HandshakeFresh, WaitFresh, LineFresh, OthersFresh DEF Next, Lifecycle

\* A component goes active only on the board's answer to a handshake of that very call, if
\* no wait had been cut short when the call began (AnsweredNow of DiffbotSystem).
THEOREM SystemAnsweredNow == Spec => []AnsweredNow
<1>1. Spec => [](LinkThms!TypeOK /\ LinkThms!AckOrder /\ LinkThms!OnlyThisCall)
  BY UsesLinkThms, LinkParameters, LinkThms!LinkTypeOK, LinkThms!LinkAckOrder,
     LinkThms!LinkOnlyThisCall, PTL
<1>2. /\ CountsOK /\ OwnTypeOK /\ Fresh /\ [Next]_vars
      /\ LinkThms!TypeOK /\ LinkThms!AckOrder /\ LinkThms!OnlyThisCall
      => (CountsOK /\ OwnTypeOK /\ Fresh)'
  BY SameTypeOK, SameOrder, NextFresh, NextCountsOK, NextOwnTypeOK DEF LinkThms!TypeOK
<1>3. CountsOK /\ OwnTypeOK /\ Fresh /\ LinkThms!TypeOK => AnsweredNow
  <2> SUFFICES ASSUME CountsOK, Fresh, LinkThms!TypeOK,
                      At("handshake"), ret.status = "OK", ~lateBefore
               PROVE  ret.ack \in (began + 1)..executed
    BY DEF AnsweredNow
  <2>1. began < ret.ack /\ ret.ack <= executed
    BY DEF At, Fresh, Starting, FreshAnswer
  <2>2. began \in Nat /\ executed \in Nat /\ ret.ack \in Nat
    BY DEF CountsOK, LinkThms!TypeOK, LinkThms!NoRet
  <2> QED
    BY <2>1, <2>2
<1>4. Init => CountsOK /\ OwnTypeOK /\ Fresh
  BY InitTypes DEF Init, Fresh, Starting
<1> QED
  BY <1>1, <1>2, <1>3, <1>4, PTL DEF Spec
=============================================================================
