------------------------- MODULE MeasurementSession -------------------------
(***************************************************************************)
(* The measurement phase: KwpMeasurementSession with its byte engine and   *)
(* its plan, driven by the loop of run_measurement in the sketch, across   *)
(* the adapter and the K line from a control unit.                         *)
(*                                                                         *)
(* The adapter hears every byte on the line, its own included.  The        *)
(* control unit is external; it is modelled by what the session expects of *)
(* it: it sends a block byte by byte, waits for the complement of each but *)
(* the last, then receives the host's block answering each byte but the    *)
(* last.  A disturbance (a byte lost or altered on its way to the adapter, *)
(* a failed operation, a block with a title the plan did not ask for)      *)
(* happens at most MaxDisturbances times.                                  *)
(*                                                                         *)
(* Operation ids, the epochs and the wait for a completion are the subject *)
(* of TransportSession; time appears only as the stall of a silent line.   *)
(***************************************************************************)
EXTENDS MeasurementPlan, Integers, SequencesExt

CONSTANTS
  CounterModulus,    \* tx_counter_ is 8 bits wide: 256 in the code
  EcuCounters,       \* counter bytes the control unit may use
  EcuPayloads,       \* payloads of its blocks
  MaxIdentification, \* bound: identification blocks it sends
  MaxDisturbances    \* bound: disturbances in one session

ASSUME ModulusAssumption == CounterModulus \in 1 .. 256
ASSUME DisturbanceAssumption == MaxDisturbances \in Nat
\* A block of the unit, with its four bytes around the payload, fits frame_.
ASSUME EcuAssumption ==
  EcuCounters \subseteq 0 .. 255 /\ \A p \in EcuPayloads : p \in Seq(0 .. 255) /\ Len(p) <= 61

VARIABLES
  session,      \* the KwpMeasurementSession
  rx,           \* RxIngressRing, as a queue of bytes of one epoch
  toWire,       \* the byte handed to the adapter and not yet sent
  ecu,          \* the control unit
  handedOn,    \* the envelope last handed to the frame queue
  unpublished,  \* history: blocks sent in full less frames handedOn
  hostBlocks,   \* history: host blocks the unit received, modulo the counter
  disturbances

vars == <<session, rx, toWire, ecu, handedOn, unpublished, hostBlocks,
          disturbances>>

K == INSTANCE KwpByteEngine WITH InputBytes <- {}, engine <- session.engine

TitleByte ==
  [Identification |-> 246, Ack |-> 9, GroupHeader |-> 2, GroupBody |-> 244,
   Refused |-> 10, Unknown |-> 85]

GroupZeroTitle == 18
GroupSelectTitle == 41

\* parseKwpFrame: the title of a valid frame.
ParsedTitle(frame) ==
  IF Len(frame) >= 3 /\ \E t \in Titles : frame[3] = TitleByte[t]
  THEN CHOOSE t \in Titles : frame[3] = TitleByte[t]
  ELSE "Unknown"

Block(counter, title, payload) ==
  <<3 + Len(payload), counter, title>> \o payload \o <<K!Terminator>>

NoFrame == [frame |-> <<>>, groupHint |-> 0]

-----------------------------------------------------------------------------
(***************************************************************************)
(* KwpMeasurementSession.                                                  *)
(***************************************************************************)

\* start()
StartedSession ==
  [state |-> "Running", engine |-> K!ResetEngine(K!NewEngine),
   plan |-> StartedPlan, txFrame |-> <<>>, txIndex |-> 0, txCounter |-> 0,
   txActive |-> FALSE, queued |-> FALSE, issued |-> FALSE, actionByte |-> 0,
   resetAfterFinalEcho |-> FALSE]

Faulted(s) == [s EXCEPT !.state = "Fault"]

QueueAction(s, e) ==
  [s EXCEPT !.engine = K!TakeTxRequest(e), !.queued = TRUE,
            !.actionByte = e.txRequest.byte]

StartCurrentHostByte(s) ==
  LET requiresAck == s.txIndex + 1 < Len(s.txFrame)
      begun == K!BeginHostByte(s.engine, s.txFrame[s.txIndex + 1], requiresAck)
  IN  IF K!CanBegin(s.engine) /\ ~s.queued /\ ~s.issued
      THEN QueueAction(s, begun)
      ELSE Faulted(s)

AdvanceAfterTransportEvent(s) ==
  IF s.queued \/ s.issued THEN s
  ELSE IF ~s.txActive
       THEN IF s.engine.txRequest.pending THEN QueueAction(s, s.engine) ELSE s
  ELSE IF s.engine.state # "Idle" THEN s
  ELSE LET stepped == [s EXCEPT !.txIndex = @ + 1]
       IN  IF stepped.txIndex < Len(s.txFrame)
           THEN StartCurrentHostByte(stepped)
           ELSE [stepped EXCEPT !.txActive = FALSE,
                                !.engine = K!ResetEngine(@)]

HostTitle(command) ==
  CASE command.kind = "Ack" -> TitleByte.Ack
    [] command.kind = "GroupZero" -> GroupZeroTitle
    [] command.kind = "GroupSelect" -> GroupSelectTitle

HostPayload(command) ==
  IF command.kind = "GroupSelect" THEN <<command.group>> ELSE <<>>

BuildCommand(s, command) ==
  StartCurrentHostByte(
    [s EXCEPT !.txFrame = Block(s.txCounter, HostTitle(command), HostPayload(command)),
              !.txCounter = (@ + 1) % CounterModulus,
              !.txIndex = 0, !.txActive = TRUE])

\* popAction()
PopAction(s) == [s EXCEPT !.queued = FALSE, !.issued = TRUE]

\* onCompletion() for the outstanding operation.
SessionCompletion(s, success) ==
  LET e == K!OnCompletion(s.engine, success)
      finalHostByte == s.txActive /\ s.txIndex + 1 >= Len(s.txFrame)
      closed == [s EXCEPT !.issued = FALSE, !.engine = e]
      after == IF ~finalHostByte THEN closed
               ELSE IF e.state = "Idle"
               THEN [closed EXCEPT !.txActive = FALSE,
                                   !.engine = K!ResetEngine(e)]
               ELSE [closed EXCEPT !.txActive = FALSE,
                                   !.resetAfterFinalEcho = TRUE]
  IN  IF after.engine.fault # "None" THEN Faulted(after)
      ELSE AdvanceAfterTransportEvent(after)

\* onRxByte() up to the check for a complete frame.
ReceiveByte(s, b) ==
  LET e == K!OnRxByte(s.engine, b)
      heard == [s EXCEPT !.engine = e]
  IN  IF ~s.resetAfterFinalEcho THEN heard
      ELSE IF e.state = "Idle"
      THEN [heard EXCEPT !.engine = K!ResetEngine(e),
                         !.resetAfterFinalEcho = FALSE]
      ELSE [heard EXCEPT !.resetAfterFinalEcho = (e.state = "HostEcho")]

HasFrame(s) == s.engine.fault = "None" /\ K!FrameComplete(s.engine)

\* Mutated form: the envelope is filled after the plan has moved on.
EnvelopeAfterPlan(s) ==
  [frame |-> s.engine.frame,
   groupHint |-> OnFrame(s.plan, ParsedTitle(s.engine.frame)).group]

\* publishValidatedFrame()
Envelope(s) == [frame |-> s.engine.frame, groupHint |-> s.plan.group]

\* onRxByte() after the frame was handedOn: the plan answers or stays quiet.
AnswerFrame(s) ==
  LET frame == s.engine.frame
      title == ParsedTitle(frame)
      plan == OnFrame(s.plan, title)
      fresh == [s EXCEPT !.engine = K!ResetEngine(@)]
      answered == BuildCommand([fresh EXCEPT !.plan = PopCommand(plan)],
                               plan.command)
  IN  IF ~K!ParseValid(frame) THEN AdvanceAfterTransportEvent(fresh)
      ELSE IF ~Accepts(s.plan, title)
      THEN AdvanceAfterTransportEvent([fresh EXCEPT !.plan = plan])
      ELSE IF answered.state = "Fault" THEN answered
      ELSE AdvanceAfterTransportEvent(answered)

SessionRxByte(s) ==
  IF s.engine.fault # "None" THEN Faulted(s)
  ELSE IF HasFrame(s) THEN AnswerFrame(s)
  ELSE AdvanceAfterTransportEvent(s)

\* disconnect()
Disconnected(s) == [s EXCEPT !.state = "Fault", !.queued = FALSE,
                             !.issued = FALSE]

-----------------------------------------------------------------------------
(***************************************************************************)
(* The control unit and the line.                                          *)
(***************************************************************************)

EcuBlock(title, counter, payload) == Block(counter, TitleByte[title], payload)

\* An acknowledgement and a refusal carry no payload.
EcuBlocks(title) ==
  {EcuBlock(title, c, p) :
     c \in EcuCounters,
     p \in IF title \in {"Ack", "Refused"} THEN {<<>>} ELSE EcuPayloads}

\* What a cooperating unit may answer to the block it has received.
ExpectedTitles(block) ==
  LET previous == ParsedTitle(ecu.frame)
  IN  CASE block[3] = 9 /\ previous = "Identification" ->
             IF ecu.idents < MaxIdentification THEN {"Identification", "Ack"}
                                               ELSE {"Ack"}
        [] block[3] = 9 /\ previous # "Identification" -> {"Ack"}
        [] block[3] = GroupZeroTitle -> {"GroupBody"}
        [] block[3] = GroupSelectTitle -> IF previous = "GroupHeader"
                            THEN {"GroupBody", "Refused"} ELSE {"GroupHeader"}
        [] OTHER -> {"Refused"}

Disturb == disturbances < MaxDisturbances /\ disturbances' = disturbances + 1
Undisturbed == UNCHANGED disturbances

\* A byte on the line reaches the adapter, or is lost or altered on its way.
Arrives(b) ==
  \/ rx' = Append(rx, b) /\ Undisturbed
  \/ rx' = rx /\ Disturb
  \/ rx' = Append(rx, (b + 1) % 256) /\ Disturb

EcuSend ==
  /\ ecu.phase = "send"
  /\ Arrives(ecu.frame[ecu.index])
  /\ IF ecu.index < Len(ecu.frame)
     THEN /\ ecu' = [ecu EXCEPT !.phase = "await"]
          /\ UNCHANGED unpublished
     ELSE /\ ecu' = [ecu EXCEPT !.phase = "receive", !.block = <<>>]
          /\ unpublished' = unpublished + 1
  /\ UNCHANGED <<session, toWire, handedOn, hostBlocks>>

EcuAcknowledge ==
  /\ ecu.phase = "acknowledge"
  /\ Arrives(K!Complement(Last(ecu.block)))
  /\ ecu' = [ecu EXCEPT !.phase = "receive"]
  /\ UNCHANGED <<session, toWire, handedOn, unpublished, hostBlocks>>

BlockDone(block) == Len(block) = block[1] + 1

\* The unit starts its next block; it disturbs if it sends an unasked title.
EcuReply(block) ==
  \E title \in Titles :
    /\ title \notin ExpectedTitles(block) => Disturb
    /\ title \in ExpectedTitles(block) => Undisturbed
    /\ \E frame \in EcuBlocks(title) :
         ecu' = [ecu EXCEPT !.phase = "send", !.frame = frame, !.index = 1,
                            !.asked = block,
                            !.idents = IF title = "Identification"
                                         /\ @ < MaxIdentification
                                       THEN @ + 1 ELSE @]

\* The host's byte is on the line and the unit hears it.
EcuHears(b) ==
  LET block == Append(ecu.block, b)
  IN  CASE ecu.phase = "await" ->
             /\ ecu' = IF b = K!Complement(ecu.frame[ecu.index])
                       THEN [ecu EXCEPT !.phase = "send", !.index = @ + 1]
                       ELSE [ecu EXCEPT !.phase = "silent"]
             /\ UNCHANGED <<hostBlocks, disturbances>>
        [] ecu.phase = "receive" /\ BlockDone(block) ->
             /\ EcuReply(block)
             /\ hostBlocks' = (hostBlocks + 1) % CounterModulus
        [] ecu.phase = "receive" /\ ~BlockDone(block) ->
             /\ ecu' = [ecu EXCEPT !.phase = "acknowledge", !.block = block]
             /\ UNCHANGED <<hostBlocks, disturbances>>
        [] OTHER ->
             /\ ecu' = [ecu EXCEPT !.phase = "silent"]
             /\ UNCHANGED <<hostBlocks, disturbances>>

Transmit ==
  /\ toWire # <<>>
  /\ toWire' = <<>>
  /\ EcuHears(Head(toWire))
  /\ rx' = Append(rx, Head(toWire))
  /\ UNCHANGED <<session, handedOn, unpublished>>

\* The echo of the byte just sent is lost or altered before it is read.
DisturbEcho ==
  /\ rx # <<>> /\ Disturb
  /\ \/ rx' = Front(rx)
     \/ rx' = [rx EXCEPT ![Len(rx)] = (@ + 1) % 256]
  /\ UNCHANGED <<session, toWire, ecu, handedOn, unpublished, hostBlocks>>

-----------------------------------------------------------------------------
(***************************************************************************)
(* run_measurement.                                                        *)
(***************************************************************************)

Running == session.state = "Running"

\* popAction and submit_action; a refused submission completes as failed.
Submit ==
  /\ session.queued
  /\ \/ /\ session' = PopAction(session)
        /\ toWire' = <<session.actionByte>>
        /\ Undisturbed
     \/ /\ session' = SessionCompletion(PopAction(session), FALSE)
        /\ UNCHANGED toWire
        /\ Disturb
  /\ UNCHANGED <<rx, ecu, handedOn, unpublished, hostBlocks>>

\* wait_completion returns.  The adapter accepts a byte before or after it is
\* on the line; an operation that fails or times out may still be sent.
Completion ==
  /\ session.issued
  /\ \/ session' = SessionCompletion(session, TRUE) /\ Undisturbed
     \/ session' = SessionCompletion(session, FALSE) /\ Disturb
  /\ UNCHANGED <<rx, toWire, ecu, handedOn, unpublished, hostBlocks>>

\* Mutated form: the loop does not wait for the completion.
LoopIsFreeOnceSubmitted == ~session.queued

\* run_measurement submits what is queued and waits for its completion before
\* it turns to the next received byte, the device and the stall time.
LoopIsFree == ~session.queued /\ ~session.issued

\* The loop pops a byte and feeds it to the session.
PollRx ==
  /\ Running /\ LoopIsFree
  /\ rx # <<>>
  /\ LET heard == ReceiveByte(session, Head(rx))
     IN  /\ session' = SessionRxByte(heard)
         /\ IF HasFrame(heard) /\ K!ParseValid(heard.engine.frame)
            THEN /\ handedOn' = Envelope(heard)
                 /\ unpublished' = unpublished - 1
            ELSE UNCHANGED <<handedOn, unpublished>>
  /\ rx' = Tail(rx)
  /\ UNCHANGED <<toWire, ecu, hostBlocks, disturbances>>

\* The device went away, or nothing was received for the stall time, which is
\* longer than any pause in a dialogue that is still going on.
LineSilent == rx = <<>> /\ toWire = <<>> /\ ecu.phase \notin {"send", "acknowledge"}

Disconnect ==
  /\ Running /\ LoopIsFree
  /\ Disturb
  /\ session' = Disconnected(session)
  /\ UNCHANGED <<rx, toWire, ecu, handedOn, unpublished, hostBlocks>>

Stall ==
  /\ Running /\ LoopIsFree
  /\ LineSilent
  /\ session' = Disconnected(session)
  /\ UNCHANGED <<rx, toWire, ecu, handedOn, unpublished, hostBlocks,
                 disturbances>>

-----------------------------------------------------------------------------
Init ==
  /\ session = StartedSession
  /\ rx = <<>> /\ toWire = <<>>
  /\ \E frame \in EcuBlocks("Identification") :
       ecu = [phase |-> "send", frame |-> frame, index |-> 1, block |-> <<>>,
              asked |-> <<>>, idents |-> 1]
  /\ handedOn = NoFrame /\ unpublished = 0
  /\ hostBlocks = 0 /\ disturbances = 0

Runner == Submit \/ Completion \/ PollRx
Line == EcuSend \/ EcuAcknowledge \/ Transmit

Next == Runner \/ Line \/ DisturbEcho \/ Disconnect \/ Stall

\* The loop task keeps running, a byte handed to the adapter is sent, and the
\* unit goes on with a dialogue it is part of.
Fairness == WF_vars(Runner) /\ WF_vars(Line) /\ WF_vars(Stall)

Spec == Init /\ [][Next]_vars /\ Fairness

-----------------------------------------------------------------------------
Sessions ==
  [state : {"Running", "Fault"}, engine : K!Engine, plan : Plan,
   txFrame : Seq(K!Byte), txIndex : Nat, txCounter : 0 .. CounterModulus - 1,
   txActive : BOOLEAN, queued : BOOLEAN, issued : BOOLEAN,
   actionByte : K!Byte, resetAfterFinalEcho : BOOLEAN]

\* Types, and the indices that stay inside tx_frame_ and frame_.
TypeOK ==
  /\ session \in Sessions
  /\ session.txIndex <= Len(session.txFrame)
  /\ Len(session.engine.frame) <= K!MaxFrame
  /\ rx \in Seq(K!Byte) /\ toWire \in Seq(K!Byte) /\ Len(toWire) <= 1
  /\ ecu.phase \in {"send", "await", "receive", "acknowledge", "silent"}
  /\ handedOn.groupHint \in Groups
  /\ unpublished \in Int /\ disturbances \in 0 .. MaxDisturbances

\* A dialogue that nothing disturbs goes on: whatever the order of echo,
\* completion and the unit's next byte, the engine raises no fault, and the
\* two sides never wait for each other until the stall time ends the session.
UndisturbedKeepsRunning ==
  disturbances = 0 => Running

\* The line is half duplex.  The session never has a byte to send while the
\* byte before it is still on its way, and in an undisturbed dialogue it only
\* talks when it is its turn.
NoCollision ==
  /\ session.queued => toWire = <<>>
  /\ (disturbances = 0 /\ (session.queued \/ toWire # <<>>)) =>
       ecu.phase \in {"await", "receive"}

\* An undisturbed block of the unit is handedOn once: at most the block just
\* sent is not yet handedOn, and none is handedOn twice.
PublishedOnce ==
  disturbances = 0 => unpublished \in 0 .. 1

\* Disturbed or not, what reaches the frame queue is, byte for byte, a block
\* the unit has sent in full: publishValidatedFrame never sees a mixture.
PublishedAsSent ==
  [][handedOn' # handedOn =>
       handedOn'.frame = ecu.frame /\ ecu.phase = "receive"]_vars

\* The group a host block asks for: only GroupSelect has a payload.
RequestedGroup(block) == IF Len(block) = 5 THEN block[4] ELSE 0

\* A group body the plan accepts is handedOn with the group of the request
\* it answers: the decoder picks its formulas by this hint.
HintMatchesRequest ==
  [][(/\ handedOn' # handedOn
      /\ ParsedTitle(handedOn'.frame) = "GroupBody"
      /\ Accepts(session.plan, "GroupBody")) =>
       handedOn'.groupHint = RequestedGroup(ecu.asked)]_vars

\* Disturbed or not, a host block the unit has received in full is the block
\* buildCommand wrote, and its counter continues that of the block before.
HostBlockAsBuilt ==
  [][hostBlocks' # hostBlocks =>
       ecu'.asked = session.txFrame /\ ecu'.asked[2] = hostBlocks]_vars

\* The two sides talk in turn: nothing is sent into a block of the other side,
\* every block of the unit is handedOn once, and every variable keeps its type.
DialogueInOrder == TypeOK /\ NoCollision /\ PublishedOnce

\* Whatever one disturbance does, no block is altered on its way: the queue is
\* given blocks of the unit with the group they answer, and the unit is given
\* the blocks buildCommand wrote.
BlocksIntact == PublishedAsSent /\ HintMatchesRequest /\ HostBlockAsBuilt

\* An undisturbed dialogue comes back to every group again and again: its
\* values, or the unit's refusal to give them, reach the frame queue.
EveryGroupAgain ==
  \A g \in Groups :
    []<>(disturbances > 0 \/
           (/\ handedOn.groupHint = g
            /\ ParsedTitle(handedOn.frame) \in {"GroupBody", "Refused"}))
=============================================================================
