--------------------------- MODULE KwpByteEngine ---------------------------
(***************************************************************************)
(* The byte engine of the measurement phase (kwp_byte_engine.h) with the   *)
(* frame parser that reads its result (kwp_application_parser.h).          *)
(*                                                                         *)
(* On the K line every byte but the last of a block is answered by its     *)
(* complement, and the adapter hears its own bytes as an echo.  The engine *)
(* pairs the echo with the completion of the USB operation before it goes  *)
(* on, and keeps one byte that arrives too early.  Its methods are         *)
(* functions from an engine to an engine; the specification below lets     *)
(* its caller use them in any order.  The trace ring, which only records,  *)
(* is left out.                                                            *)
(***************************************************************************)
EXTENDS Naturals, Sequences

CONSTANT InputBytes   \* bytes an unconstrained caller feeds to the engine

Byte == 0 .. 255
ASSUME InputAssumption == InputBytes \subseteq Byte

VARIABLE engine

Terminator == 3
MaxFrame == 65
Complement(b) == 255 - b

EngineStates == {"Idle", "HostEcho", "HostAck", "RxLength", "RxLengthEcho",
                 "RxByte", "RxByteEcho", "Fault"}
Faults == {"None", "InvalidLength", "UnexpectedByte"}

Requests == [pending : BOOLEAN, byte : Byte]
NoRequest == [pending |-> FALSE, byte |-> 0]
Request(b) == [pending |-> TRUE, byte |-> b]

Engine ==
  [state : EngineStates, fault : Faults, frame : Seq(Byte), expectedSize : Nat,
   expectedEcho : Byte, expectedAck : Byte, requiresAck : BOOLEAN,
   txCompletion : BOOLEAN, echoSeen : BOOLEAN, ackSeen : BOOLEAN,
   deferred : Requests, txRequest : Requests]

NewEngine ==
  [state |-> "Idle", fault |-> "None", frame |-> <<>>, expectedSize |-> 0,
   expectedEcho |-> 0, expectedAck |-> 0, requiresAck |-> FALSE,
   txCompletion |-> FALSE, echoSeen |-> FALSE, ackSeen |-> FALSE,
   deferred |-> NoRequest, txRequest |-> NoRequest]

\* Mutated form: frame_size_ survives a reset.
ResetKeepsFrame(e) ==
  [e EXCEPT !.state = "RxLength", !.fault = "None",
            !.expectedSize = 0, !.txCompletion = FALSE, !.echoSeen = FALSE,
            !.ackSeen = FALSE, !.deferred = NoRequest, !.txRequest = NoRequest]

ResetEngine(e) ==
  [e EXCEPT !.state = "RxLength", !.fault = "None", !.frame = <<>>,
            !.expectedSize = 0, !.txCompletion = FALSE, !.echoSeen = FALSE,
            !.ackSeen = FALSE, !.deferred = NoRequest, !.txRequest = NoRequest]

Fail(e, fault) ==
  [e EXCEPT !.state = "Fault", !.fault = fault, !.txRequest = NoRequest]

CanBegin(e) == e.state \in {"Idle", "RxLength"}

\* beginHostByte in a state that accepts it; otherwise it returns false.
BeginHostByte(e, b, requiresAck) ==
  [e EXCEPT !.state = "HostEcho", !.expectedEcho = b,
            !.expectedAck = Complement(b), !.requiresAck = requiresAck,
            !.txCompletion = FALSE, !.echoSeen = FALSE, !.ackSeen = FALSE,
            !.txRequest = Request(b)]

TakeTxRequest(e) == [e EXCEPT !.txRequest = NoRequest]

IssueInverseAck(e, b, state) ==
  [e EXCEPT !.state = state, !.expectedEcho = Complement(b),
            !.txCompletion = FALSE, !.echoSeen = FALSE, !.ackSeen = FALSE,
            !.txRequest = Request(Complement(b))]

\* handleRxByte when a frame byte is due; processPending calls it with the
\* deferred byte in these two states only, so it needs no recursion.
AcceptLength(e, b) ==
  IF b < 3 \/ b > MaxFrame - 1
  THEN Fail(e, "InvalidLength")
  ELSE IssueInverseAck([e EXCEPT !.frame = <<b>>, !.expectedSize = b + 1],
                       b, "RxLengthEcho")

\* Mutated form: the terminator ends a block wherever it stands.
AcceptUntilTerminator(e, b) ==
  LET filled == [e EXCEPT !.frame = Append(@, b)]
  IN  CASE Len(e.frame) >= e.expectedSize -> Fail(e, "UnexpectedByte")
        [] b = Terminator -> [filled EXCEPT !.state = "Idle"]
        [] Len(e.frame) + 1 < e.expectedSize ->
             IssueInverseAck(filled, b, "RxByteEcho")
        [] OTHER -> Fail(filled, "UnexpectedByte")

AcceptByte(e, b) ==
  LET filled == [e EXCEPT !.frame = Append(@, b)]
  IN  CASE Len(e.frame) >= e.expectedSize -> Fail(e, "UnexpectedByte")
        [] Len(e.frame) + 1 < e.expectedSize ->
             IssueInverseAck(filled, b, "RxByteEcho")
        [] OTHER -> IF b = Terminator THEN [filled EXCEPT !.state = "Idle"]
                                      ELSE Fail(filled, "UnexpectedByte")

ProcessPending(e) ==
  LET taken == [e EXCEPT !.deferred = NoRequest]
  IN  IF ~e.deferred.pending THEN e
      ELSE CASE e.state = "RxLength" -> AcceptLength(taken, e.deferred.byte)
             [] e.state = "RxByte"   -> AcceptByte(taken, e.deferred.byte)
             [] OTHER                -> e

\* A byte nobody waits for is kept for later; a second one is a fault.
DeferRxAfterEcho(e, b) ==
  IF e.deferred.pending THEN Fail(e, "UnexpectedByte")
  ELSE [e EXCEPT !.deferred = Request(b)]

FinishIfReady(e) ==
  LET afterHostByte == IF e.deferred.pending THEN "RxLength" ELSE "Idle"
      next == CASE e.state = "HostEcho" /\ ~e.requiresAck -> afterHostByte
                [] e.state = "HostAck" /\ e.ackSeen -> afterHostByte
                [] e.state \in {"RxLengthEcho", "RxByteEcho"} -> "RxByte"
                [] OTHER -> e.state
  IN  IF e.txCompletion /\ e.echoSeen /\ next # e.state
      THEN ProcessPending([e EXCEPT !.state = next])
      ELSE e

OnCompletion(e, success) ==
  IF e.state \notin {"HostEcho", "HostAck", "RxLengthEcho", "RxByteEcho"} THEN e
  ELSE IF success THEN FinishIfReady([e EXCEPT !.txCompletion = TRUE])
  ELSE Fail([e EXCEPT !.txCompletion = FALSE], "UnexpectedByte")

OnRxByte(e, b) ==
  CASE e.state \in {"HostEcho", "RxLengthEcho", "RxByteEcho"} ->
         IF b # e.expectedEcho THEN DeferRxAfterEcho(e, b)
         ELSE FinishIfReady(
                [e EXCEPT !.echoSeen = TRUE,
                          !.state = IF @ = "HostEcho" /\ e.requiresAck
                                    THEN "HostAck" ELSE @])
    [] e.state = "HostAck" ->
         IF b # e.expectedAck THEN DeferRxAfterEcho(e, b)
         ELSE FinishIfReady([e EXCEPT !.ackSeen = TRUE])
    [] e.state = "RxLength" -> AcceptLength(e, b)
    [] e.state = "RxByte" -> AcceptByte(e, b)
    [] OTHER -> Fail(e, "UnexpectedByte")

FrameComplete(e) ==
  /\ e.state = "Idle"
  /\ Len(e.frame) >= 4
  /\ e.frame[Len(e.frame)] = Terminator

\* parseKwpFrame: what makes a frame valid.
ParseValid(frame) ==
  /\ Len(frame) \in 4 .. MaxFrame
  /\ frame[1] + 1 = Len(frame)
  /\ frame[Len(frame)] = Terminator

-----------------------------------------------------------------------------
\* An engine whose owner may call any method at any time.

EngineInit == engine = NewEngine

ResetCall == engine' = ResetEngine(engine)

BeginCall ==
  /\ CanBegin(engine)
  /\ \E b \in InputBytes, requiresAck \in BOOLEAN :
       engine' = BeginHostByte(engine, b, requiresAck)

TakeCall == engine' = TakeTxRequest(engine)

CompleteCall == \E success \in BOOLEAN : engine' = OnCompletion(engine, success)

ReceiveCall == \E b \in InputBytes : engine' = OnRxByte(engine, b)

EngineNext == ResetCall \/ BeginCall \/ TakeCall \/ CompleteCall \/ ReceiveCall

EngineSpec == EngineInit /\ [][EngineNext]_engine

-----------------------------------------------------------------------------
\* Every field keeps its type and the frame never outgrows frame_.
EngineTypeOK == engine \in Engine /\ Len(engine.frame) <= MaxFrame

\* The engine calls a frame complete only when the parser accepts it, for
\* whatever bytes, echoes and completions arrive in whatever order: the
\* session's branch for a rejected frame (parserRejected) is dead code.
CompleteFramesParse == FrameComplete(engine) => ParseValid(engine.frame)
=============================================================================
