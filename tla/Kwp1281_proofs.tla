--------------------------- MODULE Kwp1281_proofs ---------------------------
(***************************************************************************)
(* Proofs about the two halves of the KWP1281 protocol.                    *)
(*                                                                         *)
(* The byte engine, for every set of input bytes: the inductive invariant  *)
(* GoodEngine adds to the types what each state says about the frame       *)
(* collected so far; each method is shown to preserve it.                  *)
(*                                                                         *)
(* The handshake, for every profile, limit and line noise: HandshakeInv    *)
(* says how many actions each cell of the wave can have taken, what an     *)
(* action under way has to do with the state it was issued in, and when    *)
(* the events of the history were.                                         *)
(***************************************************************************)
EXTENDS KwpByteEngine, KwpHandshake, SequenceTheorems, TLAPS

Collecting == {"RxLengthEcho", "RxByteEcho", "RxByte"}

\* While a block is collected, its length byte fixes where it ends.
PartialFrame(e) ==
  /\ Len(e.frame) >= 1
  /\ e.expectedSize \in 4 .. MaxFrame
  /\ e.expectedSize = e.frame[1] + 1
  /\ Len(e.frame) < e.expectedSize

\* Otherwise frame_ is empty or still holds the last block, which was valid.
SettledFrame(e) == e.frame = <<>> \/ ParseValid(e.frame)

FrameShape(e) ==
  /\ e.state \in Collecting => PartialFrame(e)
  /\ e.state \notin Collecting \union {"Fault"} => SettledFrame(e)
  /\ Len(e.frame) <= MaxFrame

GoodEngine(e) == e \in Engine /\ FrameShape(e)

-----------------------------------------------------------------------------
\* A byte to send and its complement are bytes (issueInverseAck).
LEMMA RequestTypes ==
  /\ NoRequest \in Requests
  /\ \A b \in Byte : /\ Request(b) \in Requests /\ Complement(b) \in Byte
                     /\ Request(Complement(b)) \in Requests
  /\ \A r \in Requests : r.byte \in Byte
  BY DEF Requests, NoRequest, Request, Complement, Byte

\* A frame of no bytes is a frame.
LEMMA EmptyFrame == <<>> \in Seq(Byte) /\ Len(<<>>) = 0
  OBVIOUS

\* An index below an expected size of at most 65 is within frame_.
LEMMA BelowTheEnd ==
  ASSUME NEW size \in Nat, NEW expected \in 4 .. 65, size < expected
  PROVE  size <= 65 /\ expected <= 65
  OBVIOUS

\* A constructed engine is Idle and has no frame.
LEMMA NewIsGood == GoodEngine(NewEngine)
<1>1. NewEngine \in Engine
  <2>1. NoRequest \in Requests
    BY RequestTypes
  <2>2. 0 \in Byte
    BY DEF Byte
  <2> QED
    BY <2>1, <2>2, EmptyFrame DEF NewEngine, Engine, EngineStates, Faults
<1>2. NewEngine.state = "Idle" /\ NewEngine.frame = <<>>
  BY DEF NewEngine
<1> QED
  BY <1>1, <1>2, EmptyFrame
  DEF GoodEngine, FrameShape, Collecting, SettledFrame, MaxFrame

\* reset() forgets the frame.
LEMMA ResetIsGood ==
  ASSUME NEW e \in Engine
  PROVE  GoodEngine(ResetEngine(e))
<1>1. ResetEngine(e) \in Engine
  BY RequestTypes, EmptyFrame DEF ResetEngine, Engine, EngineStates, Faults
<1>2. ResetEngine(e).state = "RxLength" /\ ResetEngine(e).frame = <<>>
  BY DEF ResetEngine, Engine
<1> QED
  BY <1>1, <1>2, EmptyFrame
  DEF GoodEngine, FrameShape, Collecting, SettledFrame, MaxFrame

\* fail() only changes state and fault.
LEMMA FailIsGood ==
  ASSUME NEW e \in Engine, Len(e.frame) <= MaxFrame, NEW fault \in Faults
  PROVE  GoodEngine(Fail(e, fault))
<1>1. Fail(e, fault) \in Engine
  BY RequestTypes DEF Fail, Engine, EngineStates
<1>2. Fail(e, fault).state = "Fault" /\ Fail(e, fault).frame = e.frame
  BY DEF Fail, Engine
<1> QED
  BY <1>1, <1>2 DEF GoodEngine, FrameShape, Collecting

\* issueInverseAck() leaves the frame as it was when the byte was stored.
LEMMA AckIsGood ==
  ASSUME NEW e \in Engine, PartialFrame(e), NEW b \in Byte,
         NEW state \in {"RxLengthEcho", "RxByteEcho"}
  PROVE  GoodEngine(IssueInverseAck(e, b, state))
<1> DEFINE f == IssueInverseAck(e, b, state)
<1>1. f \in Engine
  BY RequestTypes DEF IssueInverseAck, Engine, EngineStates
<1>2. f.state = state /\ f.frame = e.frame /\ f.expectedSize = e.expectedSize
  BY DEF IssueInverseAck, Engine
<1>3. Len(e.frame) <= MaxFrame
  <2>1. Len(e.frame) \in Nat
    BY DEF Engine
  <2>2. e.expectedSize \in 4 .. 65 /\ Len(e.frame) < e.expectedSize
    BY DEF PartialFrame, MaxFrame
  <2> QED
    BY <2>1, <2>2, BelowTheEnd DEF MaxFrame
<1>4. PartialFrame(f)
  BY <1>2 DEF PartialFrame
<1>5. f.state \in Collecting
  BY <1>2 DEF Collecting
<1>6. Len(f.frame) <= MaxFrame
  BY <1>2, <1>3
<1> HIDE DEF f
<1>7. GoodEngine(f)
  BY <1>1, <1>4, <1>5, <1>6 DEF GoodEngine, FrameShape
<1> QED
  BY <1>7 DEF f

\* A length byte is stored only if the frame it announces fits frame_.
LEMMA AcceptLengthIsGood ==
  ASSUME NEW e, GoodEngine(e), NEW b \in Byte
  PROVE  GoodEngine(AcceptLength(e, b))
<1>1. CASE b < 3 \/ b > MaxFrame - 1
  BY <1>1, FailIsGood DEF AcceptLength, GoodEngine, FrameShape, Faults
<1>2. CASE ~(b < 3 \/ b > MaxFrame - 1)
  <2> DEFINE started == [e EXCEPT !.frame = <<b>>, !.expectedSize = b + 1]
  <2>1. started \in Engine
    <3>1. <<b>> \in Seq(Byte) /\ b + 1 \in Nat /\ e \in Engine
      BY DEF Byte, GoodEngine
    <3> QED
      BY <3>1 DEF Engine
  <2>2. PartialFrame(started)
    <3>1. started.frame = <<b>> /\ started.expectedSize = b + 1
      BY DEF GoodEngine, Engine
    <3>2. Len(<<b>>) = 1 /\ <<b>>[1] = b
      OBVIOUS
    <3> QED
      BY <1>2, <3>1, <3>2 DEF PartialFrame, MaxFrame, Byte
  <2>3. AcceptLength(e, b) = IssueInverseAck(started, b, "RxLengthEcho")
    BY <1>2 DEF AcceptLength
  <2> QED
    BY <2>1, <2>2, <2>3, AckIsGood
<1> QED
  BY <1>1, <1>2

\* A byte is stored behind those before it, the last only if it ends a block.
LEMMA AcceptByteIsGood ==
  ASSUME NEW e, GoodEngine(e), e.state = "RxByte", NEW b \in Byte
  PROVE  GoodEngine(AcceptByte(e, b))
<1> DEFINE filled == [e EXCEPT !.frame = Append(@, b)]
<1>1. /\ e \in Engine /\ PartialFrame(e)
      /\ e.frame \in Seq(Byte) /\ e.expectedSize \in Nat
  BY DEF GoodEngine, FrameShape, Collecting, Engine
<1>2. filled \in Engine /\ filled.frame = Append(e.frame, b)
      /\ filled.expectedSize = e.expectedSize
  BY <1>1 DEF Engine
<1>3. /\ Len(filled.frame) = Len(e.frame) + 1
      /\ filled.frame[1] = e.frame[1]
      /\ filled.frame[Len(filled.frame)] = b
  BY <1>1, <1>2 DEF PartialFrame
<1>4. Len(e.frame) \in Nat /\ Len(e.frame) < e.expectedSize
      /\ e.expectedSize <= MaxFrame
  <2>1. Len(e.frame) \in Nat
    BY <1>1
  <2>2. e.expectedSize \in 4 .. 65 /\ Len(e.frame) < e.expectedSize
    BY <1>1 DEF PartialFrame, MaxFrame
  <2> QED
    BY <2>1, <2>2, BelowTheEnd DEF MaxFrame
<1>5. CASE Len(e.frame) + 1 < e.expectedSize
  <2>1. PartialFrame(filled)
    BY <1>1, <1>2, <1>3, <1>4, <1>5 DEF PartialFrame
  <2>2. AcceptByte(e, b) = IssueInverseAck(filled, b, "RxByteEcho")
    BY <1>4, <1>5 DEF AcceptByte
  <2> QED
    BY <1>2, <2>1, <2>2, AckIsGood
<1>6. CASE ~(Len(e.frame) + 1 < e.expectedSize)
  <2>1. AcceptByte(e, b) = IF b = Terminator
                           THEN [filled EXCEPT !.state = "Idle"]
                           ELSE Fail(filled, "UnexpectedByte")
    <3>1. ~(Len(e.frame) >= e.expectedSize)
      BY <1>1, <1>4
    <3> QED
      BY <1>6, <3>1 DEF AcceptByte
  <2>2. Len(filled.frame) = e.expectedSize /\ Len(filled.frame) <= MaxFrame
    BY <1>3, <1>4, <1>6, <1>1
  <2>3. CASE b # Terminator
    BY <1>2, <2>1, <2>2, <2>3, FailIsGood DEF Faults
  <2>4. CASE b = Terminator
    <3> DEFINE done == [filled EXCEPT !.state = "Idle"]
    <3>1. done \in Engine /\ done.frame = filled.frame /\ done.state = "Idle"
      BY <1>2 DEF Engine, EngineStates
    <3>2. ParseValid(filled.frame)
      BY <1>1, <1>3, <2>2, <2>4 DEF ParseValid, PartialFrame
    <3> QED
      BY <2>1, <2>2, <2>4, <3>1, <3>2
      DEF GoodEngine, FrameShape, SettledFrame, Collecting
  <2> QED
    BY <2>3, <2>4
<1> QED
  BY <1>5, <1>6

\* Updating what FrameShape does not look at keeps an engine good.
LEMMA SameFrameIsGood ==
  ASSUME NEW e, GoodEngine(e), NEW f \in Engine,
         f.state = e.state, f.frame = e.frame, f.expectedSize = e.expectedSize
  PROVE  GoodEngine(f)
  BY DEF GoodEngine, FrameShape, PartialFrame, SettledFrame

\* A byte kept while the engine was busy is handled like one just received.
LEMMA ProcessPendingIsGood ==
  ASSUME NEW e, GoodEngine(e)
  PROVE  GoodEngine(ProcessPending(e))
<1> DEFINE taken == [e EXCEPT !.deferred = NoRequest]
<1>1. e \in Engine /\ e.deferred.byte \in Byte
  BY RequestTypes DEF GoodEngine, Engine
<1>2. taken \in Engine /\ taken.state = e.state /\ taken.frame = e.frame
      /\ taken.expectedSize = e.expectedSize
  BY <1>1, RequestTypes DEF Engine
<1>3. GoodEngine(taken)
  BY <1>2, SameFrameIsGood
<1>4. CASE e.deferred.pending /\ e.state = "RxLength"
  BY <1>1, <1>3, <1>4, AcceptLengthIsGood DEF ProcessPending
<1>5. CASE e.deferred.pending /\ e.state = "RxByte"
  BY <1>1, <1>2, <1>3, <1>5, AcceptByteIsGood DEF ProcessPending
<1>6. CASE ~e.deferred.pending \/ e.state \notin {"RxLength", "RxByte"}
  BY <1>6 DEF ProcessPending
<1> QED
  BY <1>4, <1>5, <1>6

\* deferRxAfterEcho() keeps one byte or fails.
LEMMA DeferIsGood ==
  ASSUME NEW e, GoodEngine(e), NEW b \in Byte
  PROVE  GoodEngine(DeferRxAfterEcho(e, b))
<1>1. e \in Engine /\ Len(e.frame) <= MaxFrame
  BY DEF GoodEngine, FrameShape
<1>2. CASE e.deferred.pending
  BY <1>1, <1>2, FailIsGood DEF DeferRxAfterEcho, Faults
<1>3. CASE ~e.deferred.pending
  <2> DEFINE f == [e EXCEPT !.deferred = Request(b)]
  <2>1. f \in Engine /\ f.state = e.state /\ f.frame = e.frame
        /\ f.expectedSize = e.expectedSize
    BY <1>1, RequestTypes DEF Engine
  <2> QED
    BY <1>3, <2>1, SameFrameIsGood DEF DeferRxAfterEcho
<1> QED
  BY <1>2, <1>3

\* finishIfReady() completes a byte and then handles the one kept.
LEMMA FinishIsGood ==
  ASSUME NEW e, GoodEngine(e)
  PROVE  GoodEngine(FinishIfReady(e))
<1>1. e \in Engine
  BY DEF GoodEngine
<1>2. ASSUME NEW next \in {"Idle", "RxLength"}, e.state \in {"HostEcho", "HostAck"}
      PROVE  GoodEngine([e EXCEPT !.state = next])
  BY <1>1, <1>2 DEF GoodEngine, FrameShape, Engine, EngineStates, Collecting,
                    SettledFrame
<1>3. ASSUME e.state \in {"RxLengthEcho", "RxByteEcho"}
      PROVE  GoodEngine([e EXCEPT !.state = "RxByte"])
  BY <1>1, <1>3 DEF GoodEngine, FrameShape, Engine, EngineStates, Collecting,
                    PartialFrame
<1>4. CASE FinishIfReady(e) = e
  BY <1>4
<1>5. CASE FinishIfReady(e) # e
  <2>1. \/ /\ e.state \in {"HostEcho", "HostAck"}
           /\ \E next \in {"Idle", "RxLength"} :
                FinishIfReady(e) = ProcessPending([e EXCEPT !.state = next])
        \/ /\ e.state \in {"RxLengthEcho", "RxByteEcho"}
           /\ FinishIfReady(e) = ProcessPending([e EXCEPT !.state = "RxByte"])
    BY <1>5 DEF FinishIfReady
  <2> QED
    BY <1>2, <1>3, <2>1, ProcessPendingIsGood
<1> QED
  BY <1>4, <1>5

\* completion(), for success and failure.
LEMMA CompletionIsGood ==
  ASSUME NEW e, GoodEngine(e), NEW success \in BOOLEAN
  PROVE  GoodEngine(OnCompletion(e, success))
<1>1. e \in Engine /\ Len(e.frame) <= MaxFrame
  BY DEF GoodEngine, FrameShape
<1> DEFINE f == [e EXCEPT !.txCompletion = success]
<1>2. f \in Engine /\ f.state = e.state /\ f.frame = e.frame
      /\ f.expectedSize = e.expectedSize
  BY <1>1 DEF Engine
<1>3. GoodEngine(f) /\ Len(f.frame) <= MaxFrame
  BY <1>1, <1>2, SameFrameIsGood
<1>4. CASE OnCompletion(e, success) = e
  BY <1>4
<1>5. CASE OnCompletion(e, success) # e /\ success = TRUE
  BY <1>3, <1>5, FinishIsGood DEF OnCompletion
<1>6. CASE OnCompletion(e, success) # e /\ success = FALSE
  BY <1>2, <1>3, <1>6, FailIsGood DEF OnCompletion, Faults
<1> QED
  BY <1>4, <1>5, <1>6

\* onRxByte(), in every state.
LEMMA RxByteIsGood ==
  ASSUME NEW e, GoodEngine(e), NEW b \in Byte
  PROVE  GoodEngine(OnRxByte(e, b))
<1>1. e \in Engine /\ Len(e.frame) <= MaxFrame
  BY DEF GoodEngine, FrameShape
<1>2. CASE e.state \in {"HostEcho", "RxLengthEcho", "RxByteEcho"}
  <2> DEFINE next == IF e.state = "HostEcho" /\ e.requiresAck
                     THEN "HostAck" ELSE e.state
             f == [e EXCEPT !.echoSeen = TRUE, !.state = next]
  <2>1. GoodEngine(f)
    BY <1>1, <1>2 DEF GoodEngine, FrameShape, Engine, EngineStates, Collecting,
                      PartialFrame, SettledFrame
  <2>2. OnRxByte(e, b) = IF b # e.expectedEcho THEN DeferRxAfterEcho(e, b)
                                               ELSE FinishIfReady(f)
    BY <1>1, <1>2 DEF OnRxByte, Engine
  <2> QED
    BY <2>1, <2>2, DeferIsGood, FinishIsGood
<1>3. CASE e.state = "HostAck"
  <2> DEFINE f == [e EXCEPT !.ackSeen = TRUE]
  <2>1. f \in Engine /\ f.state = e.state /\ f.frame = e.frame
        /\ f.expectedSize = e.expectedSize
    BY <1>1 DEF Engine
  <2>2. OnRxByte(e, b) = IF b # e.expectedAck THEN DeferRxAfterEcho(e, b)
                                              ELSE FinishIfReady(f)
    BY <1>3 DEF OnRxByte
  <2> QED
    BY <2>1, <2>2, SameFrameIsGood, DeferIsGood, FinishIsGood
<1>4. CASE e.state = "RxLength"
  BY <1>4, AcceptLengthIsGood DEF OnRxByte
<1>5. CASE e.state = "RxByte"
  BY <1>5, AcceptByteIsGood DEF OnRxByte
<1>6. CASE e.state \in {"Idle", "Fault"}
  BY <1>1, <1>6, FailIsGood DEF OnRxByte, Faults
<1> QED
  BY <1>1, <1>2, <1>3, <1>4, <1>5, <1>6 DEF Engine, EngineStates

\* beginHostByte() starts from Idle or RxLength and leaves the frame as it is.
LEMMA BeginIsGood ==
  ASSUME NEW e, GoodEngine(e), CanBegin(e), NEW b \in Byte,
         NEW requiresAck \in BOOLEAN
  PROVE  GoodEngine(BeginHostByte(e, b, requiresAck))
<1> DEFINE f == BeginHostByte(e, b, requiresAck)
<1>1. f \in Engine
  BY RequestTypes DEF BeginHostByte, GoodEngine, Engine, EngineStates
<1>2. f.state = "HostEcho" /\ f.frame = e.frame
  BY DEF BeginHostByte, GoodEngine, Engine
<1>3. SettledFrame(e) /\ Len(e.frame) <= MaxFrame
  BY DEF GoodEngine, FrameShape, CanBegin, Collecting
<1>4. f.state \notin Collecting /\ SettledFrame(f) /\ Len(f.frame) <= MaxFrame
  BY <1>2, <1>3 DEF Collecting, SettledFrame
<1> HIDE DEF f
<1>5. GoodEngine(f)
  BY <1>1, <1>4 DEF GoodEngine, FrameShape
<1> QED
  BY <1>5 DEF f

\* takeTxRequest() empties the request.
LEMMA TakeIsGood ==
  ASSUME NEW e, GoodEngine(e)
  PROVE  GoodEngine(TakeTxRequest(e))
<1>1. TakeTxRequest(e) \in Engine /\ TakeTxRequest(e).state = e.state
      /\ TakeTxRequest(e).frame = e.frame
      /\ TakeTxRequest(e).expectedSize = e.expectedSize
  BY RequestTypes DEF TakeTxRequest, GoodEngine, Engine
<1> QED
  BY <1>1, SameFrameIsGood

-----------------------------------------------------------------------------
\* In every reachable state the frame has the shape its state promises.
LEMMA EngineStaysGood == EngineSpec => []GoodEngine(engine)
<1>1. EngineInit => GoodEngine(engine)
  BY NewIsGood DEF EngineInit
<1>2. GoodEngine(engine) /\ [EngineNext]_engine => GoodEngine(engine)'
  <2> SUFFICES ASSUME GoodEngine(engine), [EngineNext]_engine
               PROVE  GoodEngine(engine')
    OBVIOUS
  <2>1. CASE ResetCall
    BY <2>1, ResetIsGood DEF ResetCall, GoodEngine
  <2>2. CASE BeginCall
    BY <2>2, BeginIsGood, InputAssumption DEF BeginCall
  <2>3. CASE TakeCall
    BY <2>3, TakeIsGood DEF TakeCall
  <2>4. CASE CompleteCall
    BY <2>4, CompletionIsGood DEF CompleteCall
  <2>5. CASE ReceiveCall
    BY <2>5, RxByteIsGood, InputAssumption DEF ReceiveCall
  <2>6. CASE UNCHANGED engine
    BY <2>6
  <2> QED
    BY <2>1, <2>2, <2>3, <2>4, <2>5, <2>6 DEF EngineNext
<1> QED
  BY <1>1, <1>2, PTL DEF EngineSpec

\* kwp_byte_engine.h: for every sequence of calls and bytes each field keeps
\* its type, and no byte is written behind the end of frame_.
THEOREM TypeCorrect == EngineSpec => []EngineTypeOK
<1>1. GoodEngine(engine) => EngineTypeOK
  BY DEF GoodEngine, FrameShape, EngineTypeOK
<1> QED
  BY <1>1, EngineStaysGood, PTL

\* A frame the engine calls complete is one parseKwpFrame accepts, whatever
\* the caller and the line do.
THEOREM CompleteFramesAreValid == EngineSpec => []CompleteFramesParse
<1>1. GoodEngine(engine) => CompleteFramesParse
  BY DEF GoodEngine, FrameShape, SettledFrame, Collecting, FrameComplete,
         CompleteFramesParse
<1> QED
  BY <1>1, EngineStaysGood, PTL

-----------------------------------------------------------------------------
(***************************************************************************)
(* The handshake.                                                          *)
(***************************************************************************)

\* How many actions it took to get to a cell of the wave.
WaveActions(c) ==
  IF c.pendingWaveStart THEN 1
  ELSE IF c.cell = 0 THEN 2 ELSE IF c.cell = 1 THEN 3 ELSE IF c.cell < LastCell THEN 4 ELSE 5

WaveInv(c) ==
  /\ c.state = "BusIdle" => c.issued = 0 /\ c.level = 1 /\ c.cell = 0
  /\ c.state = "FiveBaud" =>
       /\ c.issued <= WaveActions(c) /\ c.cell <= LastCell
       /\ c.level = IF c.pendingWaveStart THEN 1 ELSE LevelOf(c.cell)
       /\ c.pendingWaveStart => c.cell = 0
  /\ c.state \in {"WaitSync", "WaitKeyBytes"} => c.issued <= 5
  /\ c.issued <= 6

\* The answer: nothing of it before the second key byte.
AnswerInv(c) ==
  /\ c.state \in {"BusIdle", "FiveBaud", "WaitSync", "WaitKeyBytes"} =>
       c.keyBytesSeen <= 1 /\ ~c.ackIssued /\ ~c.echoSeen
  /\ c.state = "KeyAck" => c.keyBytesSeen = 2

\* The actions still to be executed: one at most.
Coming == pc = "pop" /\ core.queue # <<>>
Executing == pc \in {"submit", "wait"}
Quiet == ~Coming /\ ~Executing

QueueInv ==
  /\ pc # "pop" => core.queue = <<>>
  /\ core.queue # <<>> => Tail(core.queue) = <<>>
  /\ core.active <=> Executing

\* What an action under way says of the state it was issued in.
Fits(a, c, at, level, set) ==
  /\ c.state \in {"FiveBaud", "KeyAck", "Fault"}
  /\ c.state = "FiveBaud" =>
       /\ a.kind \in {"SetBaud", "SetBreak"}
       /\ a.kind = "SetBreak" => c.level = 1 - a.value
       /\ a.kind = "SetBaud" \/ set => level = c.level
  /\ c.state # "FiveBaud" =>
       /\ a.kind = "SendByte" /\ a.value = AckByte(c.keyByte2)
       /\ c.keyBytesSeen = 2 /\ at >= c.notBefore

ActionInv ==
  /\ Coming => Fits(Head(core.queue), core, now, line, FALSE)
  /\ Executing => Fits(action, core, now, line, pc = "wait")
  /\ Coming /\ core.state = "KeyAck" => ~core.ackIssued /\ ~core.echoSeen
  /\ Executing /\ core.state = "KeyAck" => core.ackIssued
  /\ Quiet /\ core.state = "KeyAck" /\ ~core.ackIssued => core.issued <= 5
  /\ Quiet /\ core.state \in {"BusIdle", "FiveBaud"} => line = core.level

HistoryInv ==
  /\ history = [waveStart |-> history.waveStart, keyByte |-> history.keyByte,
                answered |-> history.answered, onWire |-> history.onWire]
  /\ core.keyBytesSeen = 2 =>
       /\ core.state \in {"KeyAck", "Active", "Fault"}
       /\ history.keyByte \in Nat /\ core.notBefore = history.keyByte + KeyAckNotBefore
  /\ core.keyBytesSeen # 2 => history.keyByte = Never
  /\ history.answered # Never =>
       core.keyBytesSeen = 2 /\ history.answered \in Nat /\ history.answered >= core.notBefore
  /\ history.onWire \in BOOLEAN
  /\ history.onWire =>
       /\ action.kind = "SendByte" /\ action.value = AckByte(core.keyByte2) /\ core.keyBytesSeen = 2
       /\ ~Coming /\ (core.state = "KeyAck" => core.ackIssued)
  /\ core.state = "Active" => history.answered # Never
  /\ core.ackIssued => core.keyBytesSeen = 2 /\ (pc = "submit" \/ core.state = "Fault" \/ history.answered # Never)
  /\ pc = "wait" /\ action.kind = "SendByte" => history.answered # Never
  /\ core.state = "FiveBaud" =>
       /\ history.waveStart = core.waveStart /\ now >= core.waveStart
       /\ ~core.pendingWaveStart => now >= core.waveStart + core.cell * Cell

HandshakeInv == TypeOK /\ WaveInv(core) /\ AnswerInv(core) /\ QueueInv /\ ActionInv /\ HistoryInv
-----------------------------------------------------------------------------
LEMMA HandshakeConstants ==
  /\ BusIdle \in Nat /\ Cell \in Nat /\ SyncTimeout \in Nat /\ KeyAckNotBefore \in Nat
  /\ KeyAckDeadline \in Nat /\ MaxTime \in Nat /\ MaxNoise \in Nat /\ NoiseBytes \subseteq 0 .. 255
BY ProfileAssumption, BoundsAssumption, NoiseAssumption

LEMMA SomeActions ==
  /\ [kind |-> "SetBaud", value |-> 1200] \in Actions
  /\ \A level \in {0, 1} : [kind |-> "SetBreak", value |-> 1 - level] \in Actions
  /\ \A b \in 0 .. 255 : [kind |-> "SendByte", value |-> AckByte(b)] \in Actions /\ AckByte(b) \in 0 .. 255
BY DEF Actions, AckByte

LEMMA CoreFields ==
  ASSUME NEW c \in Cores
  PROVE  /\ c.state \in CoreStates /\ c.idleDeadline \in Nat /\ c.queue \in Seq(Actions)
         /\ c.issued \in 0 .. MaxActions /\ c.issued \in Nat /\ c.active \in BOOLEAN
         /\ c.pendingWaveStart \in BOOLEAN /\ c.waveStart \in Nat
         /\ c.cell \in 0 .. LastCell + 1 /\ c.cell \in Nat /\ c.level \in {0, 1}
         /\ c.syncDeadline \in Nat /\ c.keyBytesSeen \in 0 .. 2 /\ c.keyByte2 \in 0 .. 255
         /\ c.notBefore \in Nat /\ c.deadline \in Nat /\ c.echoSeen \in BOOLEAN
         /\ c.ackIssued \in BOOLEAN
<1>1. /\ c.state \in CoreStates /\ c.idleDeadline \in Nat /\ c.queue \in Seq(Actions)
      /\ c.issued \in 0 .. MaxActions /\ c.active \in BOOLEAN
      /\ c.pendingWaveStart \in BOOLEAN /\ c.waveStart \in Nat
      /\ c.cell \in 0 .. LastCell + 1 /\ c.level \in {0, 1}
  BY DEF Cores
<1>2. /\ c.syncDeadline \in Nat /\ c.keyBytesSeen \in 0 .. 2 /\ c.keyByte2 \in 0 .. 255
      /\ c.notBefore \in Nat /\ c.deadline \in Nat /\ c.echoSeen \in BOOLEAN
      /\ c.ackIssued \in BOOLEAN
  BY DEF Cores
<1>3. c.issued \in Nat /\ c.cell \in Nat
  BY <1>1 DEF MaxActions, LastCell
<1> QED
  BY <1>1, <1>2, <1>3

LEMMA ActionMade ==
  ASSUME NEW kind \in {"SetBaud", "SetBreak", "SendByte"}, NEW value \in Nat
  PROVE  \E a \in Actions : a.kind = kind /\ a.value = value
<1>1. [kind |-> kind, value |-> value] \in Actions
  BY DEF Actions
<1> QED
  BY <1>1

\* What an issued action changes.
IssuedAs(c, a, d) ==
  /\ d \in Cores /\ d.issued = c.issued + 1 /\ d.queue = <<a>>
  /\ d.queue # <<>> /\ Head(d.queue) = a /\ Tail(d.queue) = <<>>
  /\ d.state = c.state /\ d.active = c.active /\ d.ackIssued = c.ackIssued
  /\ d.waveStart = c.waveStart /\ d.cell = c.cell /\ d.level = c.level
  /\ d.pendingWaveStart = c.pendingWaveStart /\ d.notBefore = c.notBefore
  /\ d.keyByte2 = c.keyByte2 /\ d.keyBytesSeen = c.keyBytesSeen /\ d.echoSeen = c.echoSeen

LEMMA Issues ==
  ASSUME NEW c \in Cores, c.issued <= 5, c.queue = <<>>, NEW a \in Actions,
         NEW d, d = Issue(c, a.kind, a.value)
  PROVE  IssuedAs(c, a, d)
<1>1. ~(c.issued >= MaxActions) /\ c.issued + 1 \in 0 .. MaxActions
  <2>1. c.issued \in 0 .. MaxActions
    BY DEF Cores
  <2> QED
    BY <2>1 DEF MaxActions
<1>2. a = [kind |-> a.kind, value |-> a.value]
  BY DEF Actions
<1>3. PICK queue : queue = <<a>>
  OBVIOUS
<1>4. queue \in Seq(Actions)
  BY <1>3
<1>5. Append(c.queue, a) = queue
  BY <1>3
<1>6. PICK issued \in 0 .. MaxActions : issued = c.issued + 1
  BY <1>1
<1>7. d = [c EXCEPT !.issued = issued, !.queue = queue]
  BY <1>1, <1>2, <1>5, <1>6 DEF Issue
<1>8. [c EXCEPT !.issued = issued, !.queue = queue] \in Cores
  BY <1>4, ZenonT(60) DEF Cores
<1>9. d \in Cores
  BY <1>7, <1>8
<1>10. /\ d.issued = issued /\ d.queue = queue
       /\ d.state = c.state /\ d.active = c.active /\ d.ackIssued = c.ackIssued
       /\ d.waveStart = c.waveStart /\ d.cell = c.cell /\ d.level = c.level
       /\ d.pendingWaveStart = c.pendingWaveStart /\ d.notBefore = c.notBefore
       /\ d.keyByte2 = c.keyByte2 /\ d.keyBytesSeen = c.keyBytesSeen /\ d.echoSeen = c.echoSeen
  BY <1>7 DEF Cores
<1>11. queue # <<>> /\ Head(queue) = a /\ Tail(queue) = <<>>
  BY <1>3
<1> QED
  BY <1>3, <1>6, <1>9, <1>10, <1>11 DEF IssuedAs

LEMMA HandshakeStarts == Init => HandshakeInv
<1> SUFFICES ASSUME Init PROVE HandshakeInv
  OBVIOUS
<1>1. core \in Cores
  <2>1. 0 + BusIdle \in Nat /\ <<>> \in Seq(Actions)
    BY HandshakeConstants
  <2> QED
    BY <2>1 DEF Init, Connected, Cores, CoreStates, MaxActions, LastCell
<1>2. TypeOK
  <2>1. <<>> \in Seq([byte : 0 .. 255, at : 0 .. MaxTime]) /\ 0 \in 0 .. Len(Answer) /\ NoAction \in Actions
    BY DEF Answer, NoAction, Actions
  <2> QED
    BY <1>1, <2>1, HandshakeConstants DEF Init, TypeOK
<1>3. WaveInv(core) /\ AnswerInv(core)
  BY DEF Init, Connected, WaveInv, AnswerInv, WaveActions
<1>4. QueueInv /\ ActionInv
  BY DEF Init, Connected, QueueInv, ActionInv, Coming, Executing, Quiet
<1>5. HistoryInv
  BY DEF Init, Connected, HistoryInv, Never, NoAction
<1> QED
  BY <1>2, <1>3, <1>4, <1>5 DEF HandshakeInv

-----------------------------------------------------------------------------
Arrivals == [byte : 0 .. 255, at : 0 .. MaxTime]

\* Time passes and bytes arrive: the core and the loop stay as they are.
LEMMA Outside ==
  ASSUME HandshakeInv, EcuByte \/ Echo \/ Noise \/ Tick
  PROVE  HandshakeInv'
<1> USE DEF HandshakeInv
<1>1. /\ UNCHANGED <<core, pc, action, line>> /\ now' >= now /\ now' \in 0 .. MaxTime /\ now \in Nat
      /\ ecu' \in 0 .. Len(Answer) /\ noise' \in 0 .. MaxNoise
      /\ history' = history \/ (history.onWire /\ history' = [history EXCEPT !.onWire = FALSE])
  <2>1. now \in 0 .. MaxTime /\ ecu \in 0 .. Len(Answer) /\ noise \in 0 .. MaxNoise /\ Len(Answer) = 3
    BY DEF TypeOK, Answer
  <2> QED
    BY <2>1, HandshakeConstants DEF EcuByte, Echo, Noise, Tick
<1>2. rx' \in Seq(Arrivals)
  <2>1. rx \in Seq(Arrivals) /\ now \in 0 .. MaxTime
    BY DEF TypeOK, Arrivals
  <2>2. CASE UNCHANGED rx
    BY <2>1, <2>2
  <2>3. CASE \E b \in 0 .. 255 : Arrive(b)
    <3>1. PICK b \in 0 .. 255 : rx' = Append(rx, [byte |-> b, at |-> now])
      BY <2>3 DEF Arrive
    <3>2. [byte |-> b, at |-> now] \in Arrivals
      BY <2>1 DEF Arrivals
    <3> QED
      BY <2>1, <3>1, <3>2, AppendProperties
  <2>4. CASE EcuByte
    <3>1. ecu + 1 \in {1, 2, 3}
      BY <2>4 DEF EcuByte, TypeOK, Answer
    <3>2. Answer[ecu + 1] \in 0 .. 255
      BY <3>1 DEF Answer, Sync, KeyByte1, KeyByte2
    <3> QED
      BY <2>3, <2>4, <3>2 DEF EcuByte
  <2>5. CASE Echo
    <3>1. core.keyByte2 \in 0 .. 255 /\ action.value = AckByte(core.keyByte2)
      BY <2>5, CoreFields DEF Echo, HistoryInv, TypeOK
    <3>2. action.value \in 0 .. 255
      BY <3>1, SomeActions, ZenonT(60)
    <3> QED
      BY <2>3, <2>5, <3>2 DEF Echo
  <2>6. CASE Noise
    BY <2>3, <2>6, HandshakeConstants DEF Noise
  <2> QED
    BY <2>2, <2>4, <2>5, <2>6 DEF Tick
<1>3. TypeOK'
  BY <1>1, <1>2 DEF TypeOK, Arrivals
<1>4. WaveInv(core)' /\ AnswerInv(core)' /\ QueueInv'
  BY <1>1 DEF WaveInv, WaveActions, AnswerInv, QueueInv, Executing
<1>5. ActionInv'
  <2>1. core.notBefore \in Nat
    BY CoreFields DEF TypeOK
  <2> QED
    BY <1>1, <2>1 DEF ActionInv, Fits, Quiet, Coming, Executing
<1>6. HistoryInv'
  <2>1. /\ history'.waveStart = history.waveStart /\ history'.keyByte = history.keyByte
        /\ history'.answered = history.answered /\ history'.onWire \in BOOLEAN
        /\ history'.onWire => history.onWire
        /\ history' = [waveStart |-> history'.waveStart, keyByte |-> history'.keyByte,
                       answered |-> history'.answered, onWire |-> history'.onWire]
    BY <1>1 DEF HistoryInv
  <2>2. core.state = "FiveBaud" =>
          /\ now' >= core.waveStart
          /\ ~core.pendingWaveStart => now' >= core.waveStart + core.cell * Cell
    <3>1. core.waveStart \in Nat /\ core.cell \in Nat
      BY CoreFields DEF TypeOK
    <3>2. PICK start \in Nat : start = core.waveStart + core.cell * Cell
      BY <3>1, HandshakeConstants
    <3>3. now' \in Nat
      BY <1>1, HandshakeConstants
    <3> QED
      BY <1>1, <3>1, <3>2, <3>3 DEF HistoryInv
  <2> QED
    BY <1>1, <2>1, <2>2 DEF HistoryInv, Coming
<1> QED
  BY <1>3, <1>4, <1>5, <1>6

\* The head of the loop.
LEMMA Turning ==
  ASSUME HandshakeInv, Turn
  PROVE  HandshakeInv'
<1> USE DEF HandshakeInv
<1>1. /\ UNCHANGED <<core, now, action, rx, line, ecu, noise, history>>
      /\ pc = "turn" /\ pc' \in {"poll", "over"}
  BY DEF Turn
<1>2. TypeOK'
  BY <1>1 DEF TypeOK
<1> QED
  BY <1>1, <1>2 DEF WaveInv, WaveActions, AnswerInv, QueueInv, ActionInv, HistoryInv, Fits, Quiet, Coming,
                    Executing

\* What the core makes of a byte that has come.
Taken(c, at, d) ==
  /\ d \in Cores /\ WaveInv(d) /\ AnswerInv(d)
  /\ d.queue = c.queue /\ ~d.active /\ d.waveStart = c.waveStart /\ d.cell = c.cell
  /\ d.level = c.level /\ d.pendingWaveStart = c.pendingWaveStart
  /\ d.ackIssued = c.ackIssued /\ d.issued = c.issued
  /\ d.state = c.state \/ (c.state \in {"WaitSync", "WaitKeyBytes", "KeyAck"}
                           /\ d.state \in {"WaitKeyBytes", "KeyAck", "Active"})
  /\ d.state = "Active" /\ c.state # "Active" => c.ackIssued
  /\ d.state = "KeyAck" /\ c.state # "KeyAck" =>
       /\ c.state = "WaitKeyBytes" /\ d.keyBytesSeen = 2
       /\ d.notBefore = at + KeyAckNotBefore
  /\ ~(d.state = "KeyAck" /\ c.state # "KeyAck") =>
       /\ d.notBefore = c.notBefore /\ d.keyByte2 = c.keyByte2
       /\ d.keyBytesSeen = 2 <=> c.keyBytesSeen = 2

LEMMA Bytes ==
  ASSUME NEW c \in Cores, NEW b \in 0 .. 255, NEW at \in Nat, ~c.active, WaveInv(c), AnswerInv(c),
         NEW d, d = RxByte(c, b, at)
  PROVE  Taken(c, at, d)
<1> USE DEF Taken
<1> TRUE \in BOOLEAN /\ FALSE \in BOOLEAN /\ 1 \in 0 .. 2 /\ 2 \in 0 .. 2
  OBVIOUS
<1>1. CASE c.state = "WaitSync" /\ b = Sync
  <2>1. d = [c EXCEPT !.state = "WaitKeyBytes"]
    BY <1>1 DEF RxByte
  <2>2. d \in Cores /\ d.state = "WaitKeyBytes"
    <3>1. [c EXCEPT !.state = "WaitKeyBytes"] \in Cores
      BY ZenonT(60) DEF Cores, CoreStates
    <3> QED
      BY <2>1, <3>1 DEF Cores
  <2> QED
    BY <1>1, <2>1, <2>2, ZenonT(60) DEF Cores, WaveInv, WaveActions, AnswerInv
<1>2. CASE c.state = "WaitKeyBytes" /\ c.keyBytesSeen = 1
  <2>1. d = [c EXCEPT !.state = "KeyAck", !.keyBytesSeen = 2, !.keyByte2 = b,
                      !.notBefore = at + KeyAckNotBefore, !.deadline = at + KeyAckDeadline]
    BY <1>2 DEF RxByte
  <2>2. at + KeyAckNotBefore \in Nat /\ at + KeyAckDeadline \in Nat
    BY HandshakeConstants
  <2>3. d \in Cores /\ d.state = "KeyAck" /\ d.keyBytesSeen = 2 /\ d.notBefore = at + KeyAckNotBefore
    <3>1. PICK opens \in Nat, closes \in Nat : opens = at + KeyAckNotBefore /\ closes = at + KeyAckDeadline
      BY <2>2
    <3>2. [c EXCEPT !.state = "KeyAck", !.keyBytesSeen = 2, !.keyByte2 = b,
                    !.notBefore = opens, !.deadline = closes] \in Cores
      BY ZenonT(60) DEF Cores, CoreStates
    <3>3. d = [c EXCEPT !.state = "KeyAck", !.keyBytesSeen = 2, !.keyByte2 = b,
                        !.notBefore = opens, !.deadline = closes]
      BY <2>1, <3>1
    <3> QED
      BY <3>1, <3>2, <3>3 DEF Cores
  <2> QED
    BY <1>2, <2>1, <2>3 DEF Cores, WaveInv, WaveActions, AnswerInv
<1>3. CASE c.state = "WaitKeyBytes" /\ c.keyBytesSeen # 1
  <2>1. d = [c EXCEPT !.keyBytesSeen = c.keyBytesSeen + 1]
    BY <1>3 DEF RxByte
  <2>2. c.keyBytesSeen = 0
    BY <1>3, CoreFields DEF AnswerInv
  <2>3. d \in Cores /\ d.keyBytesSeen = 1
    <3>1. [c EXCEPT !.keyBytesSeen = 1] \in Cores
      BY ZenonT(60) DEF Cores
    <3>2. d = [c EXCEPT !.keyBytesSeen = 1]
      BY <2>1, <2>2
    <3> QED
      BY <3>1, <3>2 DEF Cores
  <2>4. /\ d.queue = c.queue /\ d.active = c.active /\ d.waveStart = c.waveStart /\ d.cell = c.cell
        /\ d.level = c.level /\ d.pendingWaveStart = c.pendingWaveStart
        /\ d.ackIssued = c.ackIssued /\ d.issued = c.issued /\ d.state = c.state
        /\ d.notBefore = c.notBefore /\ d.keyByte2 = c.keyByte2 /\ d.echoSeen = c.echoSeen
    BY <2>1 DEF Cores
  <2>5. WaveInv(d) /\ AnswerInv(d)
    BY <1>3, <2>3, <2>4 DEF WaveInv, WaveActions, AnswerInv
  <2> QED
    BY <1>3, <2>2, <2>3, <2>4, <2>5
<1>4. CASE c.state = "KeyAck" /\ b = AckByte(c.keyByte2) /\ c.ackIssued
  <2>1. d = [c EXCEPT !.echoSeen = TRUE, !.active = FALSE, !.state = "Active"]
    BY <1>4 DEF RxByte
  <2>2. d \in Cores /\ d.state = "Active" /\ ~d.active
    <3>1. [c EXCEPT !.echoSeen = TRUE, !.active = FALSE, !.state = "Active"] \in Cores
      BY ZenonT(60) DEF Cores, CoreStates
    <3> QED
      BY <2>1, <3>1 DEF Cores
  <2> QED
    BY <1>4, <2>1, <2>2, ZenonT(60) DEF Cores, WaveInv, WaveActions, AnswerInv
<1>5. CASE c.state = "KeyAck" /\ b = AckByte(c.keyByte2) /\ ~c.ackIssued
  <2>1. d = [c EXCEPT !.echoSeen = TRUE]
    BY <1>5 DEF RxByte
  <2>2. d \in Cores
    <3>1. [c EXCEPT !.echoSeen = TRUE] \in Cores
      BY ZenonT(60) DEF Cores
    <3> QED
      BY <2>1, <3>1
  <2>3. /\ d.queue = c.queue /\ d.active = c.active /\ d.waveStart = c.waveStart /\ d.cell = c.cell
        /\ d.level = c.level /\ d.pendingWaveStart = c.pendingWaveStart
        /\ d.ackIssued = c.ackIssued /\ d.issued = c.issued /\ d.state = c.state
        /\ d.notBefore = c.notBefore /\ d.keyByte2 = c.keyByte2 /\ d.keyBytesSeen = c.keyBytesSeen
    BY <2>1 DEF Cores
  <2>4. WaveInv(d) /\ AnswerInv(d)
    BY <1>5, <2>3 DEF WaveInv, WaveActions, AnswerInv
  <2> QED
    BY <1>5, <2>2, <2>3, <2>4
<1>6. CASE d = c
  BY <1>6
<1> QED
  BY <1>1, <1>2, <1>3, <1>4, <1>5, <1>6 DEF RxByte

\* The loop takes a byte off the ring, or goes on.
LEMMA Polling ==
  ASSUME HandshakeInv, Poll
  PROVE  HandshakeInv'
<1> USE DEF HandshakeInv
<1>1. /\ UNCHANGED <<now, action, line, ecu, noise>> /\ pc = "poll" /\ pc' \in {"poll", "advance"}
      /\ core \in Cores /\ core.queue = <<>> /\ ~core.active
  BY DEF Poll, TypeOK, QueueInv, Executing
<1>2. CASE rx = <<>>
  <2>1. UNCHANGED <<core, rx, history>>
    BY <1>2 DEF Poll
  <2>2. TypeOK'
    BY <1>1, <2>1 DEF TypeOK
  <2> QED
    BY <1>1, <2>1, <2>2 DEF WaveInv, WaveActions, AnswerInv, QueueInv, ActionInv, HistoryInv, Fits,
                            Quiet, Coming, Executing
<1>3. CASE rx # <<>>
  <2>1. PICK item : item = Head(rx)
    OBVIOUS
  <2>2. item \in Arrivals /\ Tail(rx) \in Seq(Arrivals)
    BY <1>3, <2>1, HeadTailProperties, ZenonT(60) DEF TypeOK, Arrivals
  <2>3. item.byte \in 0 .. 255 /\ item.at \in Nat
    BY <2>2, HandshakeConstants DEF Arrivals
  <2>4. core' = RxByte(core, item.byte, item.at) /\ rx' = Tail(rx)
        /\ history' = (IF core'.state = "KeyAck" /\ core.state # "KeyAck"
                       THEN [history EXCEPT !.keyByte = item.at] ELSE history)
    BY <1>3, <2>1 DEF Poll
  <2>5. Taken(core, item.at, core')
    <3>1. PICK b \in 0 .. 255, at \in Nat : b = item.byte /\ at = item.at
      BY <2>3
    <3>1a. PICK d : d = RxByte(core, b, at)
      OBVIOUS
    <3>2. WaveInv(core) /\ AnswerInv(core)
      OBVIOUS
    <3>3. core' = d
      BY <2>4, <3>1, <3>1a
    <3>4. Taken(core, at, d)
      BY <1>1, <3>1a, <3>2, Bytes
    <3> QED
      BY <3>1, <3>3, <3>4
  <2> USE DEF Taken
  <2>6. TypeOK'
    BY <1>1, <2>2, <2>4, <2>5 DEF TypeOK, Arrivals
  <2>7. QueueInv'
    BY <1>1, <2>5 DEF QueueInv, Executing
  <2>8. ActionInv'
    BY <1>1, <2>5 DEF ActionInv, Quiet, Coming, Executing, WaveInv
  <2>9. HistoryInv'
    <3>1. CASE core'.state = "KeyAck" /\ core.state # "KeyAck"
      <4>1. /\ history'.waveStart = history.waveStart /\ history'.keyByte = item.at
            /\ history'.answered = history.answered /\ history'.onWire = history.onWire
            /\ history' = [waveStart |-> history'.waveStart, keyByte |-> history'.keyByte,
                           answered |-> history'.answered, onWire |-> history'.onWire]
        BY <2>4, <3>1 DEF HistoryInv
      <4>2. core.keyBytesSeen # 2
        BY <2>5, <3>1 DEF AnswerInv
      <4> QED
        BY <1>1, <2>3, <2>5, <3>1, <4>1, <4>2 DEF HistoryInv, Coming
    <3>2. CASE ~(core'.state = "KeyAck" /\ core.state # "KeyAck")
      <4>1. history' = history
        BY <2>4, <3>2
      <4> QED
        BY <1>1, <2>5, <3>2, <4>1 DEF HistoryInv, Coming, AnswerInv
    <3> QED
      BY <3>1, <3>2
  <2> QED
    BY <2>5, <2>6, <2>7, <2>8, <2>9
<1> QED
  BY <1>2, <1>3

\* The next action is taken out of the queue.
LEMMA Popped ==
  ASSUME HandshakeInv, Pop
  PROVE  HandshakeInv'
<1> USE DEF HandshakeInv
<1> TRUE \in BOOLEAN /\ FALSE \in BOOLEAN
  OBVIOUS
<1>1. /\ UNCHANGED <<now, rx, line, ecu, noise, history>> /\ pc = "pop"
      /\ core \in Cores /\ ~core.active
  BY DEF Pop, TypeOK, QueueInv, Executing
<1>2. CASE core.queue = <<>>
  <2>1. UNCHANGED <<core, action>> /\ pc' = "turn"
    BY <1>2 DEF Pop
  <2>2. TypeOK'
    BY <1>1, <2>1 DEF TypeOK
  <2> QED
    BY <1>1, <1>2, <2>1, <2>2 DEF WaveInv, WaveActions, AnswerInv, QueueInv, ActionInv, HistoryInv, Fits,
                                  Quiet, Coming, Executing
<1>3. CASE core.queue # <<>>
  <2>1. PICK first : first = Head(core.queue)
    OBVIOUS
  <2>2. first \in Actions /\ Tail(core.queue) = <<>> /\ <<>> \in Seq(Actions)
    BY <1>1, <1>3, <2>1, HeadTailProperties, CoreFields DEF QueueInv
  <2>3. PICK answering \in BOOLEAN :
          answering = (core.ackIssued \/ (core.state = "KeyAck" /\ first.kind = "SendByte"))
    OBVIOUS
  <2>4. core' = [core EXCEPT !.queue = <<>>, !.active = TRUE, !.ackIssued = answering]
        /\ action' = first /\ pc' = "submit"
    BY <1>3, <2>1, <2>2, <2>3 DEF Pop, PopAction
  <2>5. core' \in Cores
    <3>1. [core EXCEPT !.queue = <<>>, !.active = TRUE, !.ackIssued = answering] \in Cores
      BY <1>1, <2>2, ZenonT(60) DEF Cores
    <3> QED
      BY <2>4, <3>1
  <2>6. /\ core'.queue = <<>> /\ core'.active = TRUE /\ core'.ackIssued = answering
        /\ core'.state = core.state /\ core'.waveStart = core.waveStart /\ core'.cell = core.cell
        /\ core'.level = core.level /\ core'.pendingWaveStart = core.pendingWaveStart
        /\ core'.issued = core.issued /\ core'.notBefore = core.notBefore
        /\ core'.keyByte2 = core.keyByte2 /\ core'.keyBytesSeen = core.keyBytesSeen
        /\ core'.echoSeen = core.echoSeen
    BY <1>1, <2>4 DEF Cores
  <2>7. Coming /\ Fits(first, core, now, line, FALSE)
    BY <1>1, <1>3, <2>1 DEF ActionInv, Coming
  <2>8. TypeOK'
    BY <1>1, <2>2, <2>4, <2>5 DEF TypeOK
  <2>9. WaveInv(core)'
    BY <2>6 DEF WaveInv, WaveActions
  <2>10. AnswerInv(core)'
    <3>1. answering => core.ackIssued \/ core.state = "KeyAck"
      BY <2>3
    <3> QED
      BY <2>6, <3>1 DEF AnswerInv
  <2>11. QueueInv'
    BY <2>4, <2>6 DEF QueueInv, Executing
  <2>12. ActionInv'
    <3>1. Fits(action, core, now, line, pc = "wait")'
      BY <1>1, <2>4, <2>6, <2>7 DEF Fits
    <3>2. core.state = "KeyAck" => answering
      BY <2>3, <2>7 DEF Fits
    <3> QED
      BY <2>4, <2>6, <3>1, <3>2 DEF ActionInv, Coming, Executing, Quiet
  <2>13. HistoryInv'
    <3>1. ~history.onWire
      BY <2>7 DEF HistoryInv
    <3>2. answering => core.keyBytesSeen = 2
      BY <2>3, <2>7 DEF Fits, HistoryInv
    <3> QED
      BY <1>1, <2>4, <2>6, <3>1, <3>2 DEF HistoryInv
  <2> QED
    BY <2>8, <2>9, <2>10, <2>11, <2>12, <2>13
<1> QED
  BY <1>2, <1>3

\* The operation of an action ends, or is refused.
Ended(c, success, d) ==
  /\ d \in Cores /\ WaveInv(d) /\ AnswerInv(d)
  /\ d.active = FALSE /\ d.queue = c.queue /\ d.issued = c.issued /\ d.ackIssued = c.ackIssued
  /\ d.waveStart = c.waveStart /\ d.cell = c.cell /\ d.level = c.level
  /\ d.pendingWaveStart = c.pendingWaveStart /\ d.notBefore = c.notBefore
  /\ d.keyByte2 = c.keyByte2 /\ d.keyBytesSeen = c.keyBytesSeen /\ d.echoSeen = c.echoSeen
  /\ success => d.state = c.state \/ (c.state = "KeyAck" /\ d.state = "Active")
  /\ ~success => d.state = "Fault"

LEMMA Completed ==
  ASSUME NEW c \in Cores, c.active, NEW success \in BOOLEAN, NEW d, d = Completion(c, success),
         WaveInv(c), AnswerInv(c)
  PROVE  Ended(c, success, d)
<1> USE DEF Ended
<1> TRUE \in BOOLEAN /\ FALSE \in BOOLEAN
  OBVIOUS
<1>1. PICK state \in CoreStates :
         /\ d = [c EXCEPT !.active = FALSE, !.state = state]
         /\ success => state = c.state \/ (c.state = "KeyAck" /\ state = "Active")
         /\ ~success => state = "Fault"
  <2>1. CASE success /\ c.state = "KeyAck" /\ c.echoSeen
    <3>1. d = [c EXCEPT !.active = FALSE, !.state = "Active"]
      BY <2>1 DEF Completion
    <3> QED
      BY <2>1, <3>1 DEF CoreStates
  <2>2. CASE success /\ ~(c.state = "KeyAck" /\ c.echoSeen)
    <3>1. d = [c EXCEPT !.active = FALSE, !.state = c.state]
      BY <2>2 DEF Completion
    <3> QED
      BY <2>2, <3>1, CoreFields
  <2>3. CASE ~success
    <3>1. d = [c EXCEPT !.active = FALSE, !.state = "Fault"]
      BY <2>3 DEF Completion
    <3> QED
      BY <2>3, <3>1 DEF CoreStates
  <2> QED
    BY <2>1, <2>2, <2>3
<1>2. d \in Cores
  <2>1. [c EXCEPT !.active = FALSE, !.state = state] \in Cores
    BY ZenonT(60) DEF Cores
  <2> QED
    BY <1>1, <2>1
<1>3. /\ d.active = FALSE /\ d.queue = c.queue /\ d.issued = c.issued /\ d.ackIssued = c.ackIssued
      /\ d.waveStart = c.waveStart /\ d.cell = c.cell /\ d.level = c.level
      /\ d.pendingWaveStart = c.pendingWaveStart /\ d.notBefore = c.notBefore
      /\ d.keyByte2 = c.keyByte2 /\ d.keyBytesSeen = c.keyBytesSeen /\ d.echoSeen = c.echoSeen
      /\ d.state = state
  BY <1>1 DEF Cores
<1>4. WaveInv(d) /\ AnswerInv(d)
  BY <1>1, <1>3 DEF WaveInv, WaveActions, AnswerInv
<1> QED
  BY <1>1, <1>2, <1>3, <1>4

\* An action is submitted, or refused.
LEMMA Submitted ==
  ASSUME HandshakeInv, Submit
  PROVE  HandshakeInv'
<1> USE DEF HandshakeInv
<1>1. /\ UNCHANGED <<now, action, rx, ecu, noise>> /\ pc = "submit"
      /\ core \in Cores /\ core.active /\ core.queue = <<>>
      /\ Fits(action, core, now, line, FALSE) /\ now \in Nat
      /\ core.state = "KeyAck" => core.ackIssued
  <2>1. /\ UNCHANGED <<now, action, rx, ecu, noise>> /\ pc = "submit"
        /\ core \in Cores /\ now \in 0 .. MaxTime
    BY DEF Submit, TypeOK
  <2>2. core.active /\ core.queue = <<>> /\ (core.state = "KeyAck" => core.ackIssued)
    BY <2>1 DEF QueueInv, ActionInv, Executing
  <2>3. Fits(action, core, now, line, pc = "wait")
    BY <2>1 DEF ActionInv, Executing
  <2>4. Fits(action, core, now, line, FALSE)
    BY <2>1, <2>3 DEF Fits
  <2>5. now \in Nat
    BY <2>1, HandshakeConstants
  <2> QED
    BY <2>1, <2>2, <2>4, <2>5
<1>2. CASE /\ pc' = "wait" /\ UNCHANGED core
           /\ line' = IF action.kind = "SetBreak" THEN 1 - action.value ELSE line
           /\ history' = IF action.kind = "SendByte"
                         THEN [history EXCEPT !.answered = now, !.onWire = TRUE]
                         ELSE history
  <2>1. line' \in {0, 1}
    <3>1. action.kind = "SetBreak" => core.state = "FiveBaud" /\ 1 - action.value = core.level
      BY <1>1 DEF Fits
    <3>2. core.level \in {0, 1} /\ line \in {0, 1}
      BY <1>1, CoreFields DEF TypeOK
    <3> QED
      BY <1>2, <3>1, <3>2
  <2>2. TypeOK'
    BY <1>1, <1>2, <2>1 DEF TypeOK
  <2>3. WaveInv(core)' /\ AnswerInv(core)' /\ QueueInv'
    BY <1>1, <1>2 DEF WaveInv, WaveActions, AnswerInv, QueueInv, Executing
  <2>4. ActionInv'
    BY <1>1, <1>2 DEF ActionInv, Coming, Executing, Quiet, Fits
  <2>5. HistoryInv'
    <3>1. CASE action.kind = "SendByte"
      <4>1. /\ history'.waveStart = history.waveStart /\ history'.keyByte = history.keyByte
            /\ history'.answered = now /\ history'.onWire = TRUE
            /\ history' = [waveStart |-> history'.waveStart, keyByte |-> history'.keyByte,
                           answered |-> history'.answered, onWire |-> history'.onWire]
        BY <1>2, <3>1 DEF HistoryInv
      <4>2. core.keyBytesSeen = 2 /\ now >= core.notBefore /\ action.value = AckByte(core.keyByte2)
            /\ core.state # "FiveBaud" /\ now # Never
        BY <1>1, <3>1 DEF Fits, Never
      <4> QED
        BY <1>1, <1>2, <3>1, <4>1, <4>2 DEF HistoryInv, Coming
    <3>2. CASE action.kind # "SendByte"
      <4>1. history' = history /\ core.state = "FiveBaud"
        BY <1>1, <1>2, <3>2 DEF Fits
      <4>2. ~core.ackIssued
        BY <4>1 DEF AnswerInv
      <4> QED
        BY <1>1, <1>2, <3>2, <4>1, <4>2 DEF HistoryInv, Coming
    <3> QED
      BY <3>1, <3>2
  <2> QED
    BY <2>2, <2>3, <2>4, <2>5
<1>3. CASE core' = Completion(core, FALSE) /\ pc' = "over" /\ UNCHANGED <<line, history>>
  <2>1. Ended(core, FALSE, core')
    BY <1>1, <1>3, Completed
  <2> USE DEF Ended
  <2>2. TypeOK'
    BY <1>1, <1>3, <2>1 DEF TypeOK
  <2>3. QueueInv' /\ ActionInv'
    BY <1>1, <1>3, <2>1 DEF QueueInv, ActionInv, Coming, Executing, Quiet
  <2>4. HistoryInv'
    BY <1>1, <1>3, <2>1 DEF HistoryInv, Coming
  <2> QED
    BY <2>1, <2>2, <2>3, <2>4
<1> QED
  BY <1>2, <1>3 DEF Submit

\* wait_completion and the completion of the action.
LEMMA Finished ==
  ASSUME HandshakeInv, Complete
  PROVE  HandshakeInv'
<1> USE DEF HandshakeInv
<1>1. /\ UNCHANGED <<now, action, rx, line, ecu, noise, history>> /\ pc = "wait"
      /\ core \in Cores /\ core.active /\ core.queue = <<>>
      /\ Fits(action, core, now, line, TRUE)
      /\ core.state = "KeyAck" => core.ackIssued
  BY DEF Complete, TypeOK, QueueInv, ActionInv, Executing
<1>2. PICK success \in BOOLEAN : core' = Completion(core, success)
                                 /\ pc' = IF success THEN "pop" ELSE "over"
  BY DEF Complete
<1>3. Ended(core, success, core')
  BY <1>1, <1>2, Completed
<1> USE DEF Ended
<1>4. TypeOK'
  BY <1>1, <1>2, <1>3 DEF TypeOK
<1>5. QueueInv'
  BY <1>1, <1>2, <1>3 DEF QueueInv, Executing
<1>6. core.state \in {"FiveBaud", "KeyAck", "Fault"}
  BY <1>1 DEF Fits
<1>7. core'.state # "BusIdle" /\ (core'.state = "FiveBaud" => core.state = "FiveBaud")
      /\ (core'.state = "KeyAck" => core.state = "KeyAck")
  BY <1>3, <1>6
<1>8. ActionInv'
  <2>1. core.state = "FiveBaud" => line = core.level
    BY <1>1 DEF Fits
  <2> QED
    BY <1>1, <1>2, <1>3, <1>7, <2>1 DEF ActionInv, Coming, Executing, Quiet
<1>9. HistoryInv'
  <2>1. core'.state = "Active" => history.answered # Never
    BY <1>1, <1>3, <1>6 DEF Fits, HistoryInv
  <2> QED
    BY <1>1, <1>2, <1>3, <1>6, <1>7, <2>1 DEF HistoryInv, Coming
<1> QED
  BY <1>3, <1>4, <1>5, <1>8, <1>9

-----------------------------------------------------------------------------
\* What a call of advance() may make of the core.
Advanced(c, at, line0, d) ==
  /\ d \in Cores /\ WaveInv(d) /\ AnswerInv(d)
  /\ ~d.active /\ d.ackIssued = c.ackIssued /\ d.echoSeen = c.echoSeen
  /\ d.keyBytesSeen = c.keyBytesSeen /\ d.keyByte2 = c.keyByte2 /\ d.notBefore = c.notBefore
  /\ d.queue # <<>> =>
       /\ Tail(d.queue) = <<>> /\ Fits(Head(d.queue), d, at, line0, FALSE)
       /\ d.state \in {"KeyAck", "Fault"} => c.state = "KeyAck" /\ ~c.ackIssued /\ ~c.echoSeen
  /\ d.queue = <<>> =>
       /\ d.state = "KeyAck" => c.state = "KeyAck" /\ d.issued = c.issued
       /\ d.state \in {"BusIdle", "FiveBaud"} => line0 = d.level
  /\ d.state = "Active" <=> c.state = "Active"
  /\ d.state = "BusIdle" => c.state = "BusIdle"
  /\ c.keyBytesSeen = 2 => d.state \in {"KeyAck", "Active", "Fault"}
  /\ d.state = "FiveBaud" =>
       /\ c.state = "BusIdle" => d.waveStart = at
       /\ c.state # "BusIdle" => c.state = "FiveBaud" /\ d.waveStart = c.waveStart
       /\ at >= d.waveStart
       /\ ~d.pendingWaveStart => at >= d.waveStart + d.cell * Cell

\* The deadlines at the end of advance().
LEMMA Expires ==
  ASSUME NEW c \in Cores, NEW at, NEW line0, NEW n, Advanced(c, at, line0, n),
         n.state \in {"WaitSync", "KeyAck"}
  PROVE  Advanced(c, at, line0, [n EXCEPT !.state = "Fault"])
<1>1. PICK d : d = [n EXCEPT !.state = "Fault"]
  OBVIOUS
<1>2. n \in Cores
  BY DEF Advanced
<1>3. d \in Cores
  <2>1. [n EXCEPT !.state = "Fault"] \in Cores
    BY <1>2, ZenonT(60) DEF Cores, CoreStates
  <2> QED
    BY <1>1, <2>1
<1>4. /\ d.state = "Fault" /\ d.active = n.active /\ d.queue = n.queue /\ d.issued = n.issued
      /\ d.ackIssued = n.ackIssued /\ d.level = n.level
      /\ d.notBefore = n.notBefore
      /\ d.keyByte2 = n.keyByte2 /\ d.keyBytesSeen = n.keyBytesSeen /\ d.echoSeen = n.echoSeen
  BY <1>1, <1>2 DEF Cores
<1>5. WaveInv(d) /\ AnswerInv(d)
  BY <1>4 DEF Advanced, WaveInv, AnswerInv
<1>6. d.queue # <<>> =>
       /\ Tail(d.queue) = <<>> /\ Fits(Head(d.queue), d, at, line0, FALSE)
       /\ c.state = "KeyAck" /\ ~c.ackIssued /\ ~c.echoSeen
  <2>1. n.queue # <<>> => n.state = "KeyAck"
    BY DEF Advanced, Fits
  <2> QED
    BY <1>4, <2>1 DEF Advanced, Fits
<1>7. c.state # "Active"
  BY DEF Advanced
<1> QED
  BY <1>1, <1>3, <1>4, <1>5, <1>6, <1>7 DEF Advanced

\* A break for the cell the core has come to.
LEMMA Breaks ==
  ASSUME NEW c \in Cores, NEW at \in Nat, c.state = "FiveBaud", ~c.pendingWaveStart, c.queue = <<>>, ~c.active,
         c.cell <= LastCell, AnswerInv(c), c.keyBytesSeen # 2,
         c.level = (IF c.cell = 0 THEN 1 ELSE LevelOf(c.cell - 1)),
         c.issued <= (IF c.cell = 0 THEN 1 ELSE IF c.cell = 1 THEN 2 ELSE IF c.cell = 2 THEN 3 ELSE 4),
         at >= c.waveStart, at >= c.waveStart + c.cell * Cell,
         NEW d, d = IssueBreakForCell(c)
  PROVE  /\ d \in Cores /\ WaveInv(d) /\ AnswerInv(d)
         /\ ~d.active /\ d.ackIssued = c.ackIssued /\ d.echoSeen = c.echoSeen
         /\ d.keyBytesSeen = c.keyBytesSeen /\ d.keyByte2 = c.keyByte2 /\ d.notBefore = c.notBefore
         /\ d.state = "FiveBaud" /\ d.cell = c.cell /\ d.waveStart = c.waveStart /\ ~d.pendingWaveStart
         /\ d.queue = <<>> => d.level = c.level
         /\ d.queue # <<>> => /\ Tail(d.queue) = <<>>
                              /\ Fits(Head(d.queue), d, at, c.level, FALSE)
<1>1. PICK level \in {0, 1} : level = LevelOf(c.cell)
  BY DEF LevelOf
<1>2. c.cell \in 0 .. 9 /\ c.issued \in Nat /\ c.issued <= 4
  BY CoreFields DEF LastCell
<1>3. CASE level = c.level /\ c.cell \notin {0, LastCell}
  <2>1. d = c
    BY <1>1, <1>3 DEF IssueBreakForCell
  <2>2. c.cell \in 2 .. 8
    BY <1>1, <1>2, <1>3 DEF LevelOf, LastCell
  <2>3. c.issued <= WaveActions(c)
    <3>1. WaveActions(c) = 4
      BY <2>2 DEF WaveActions, LastCell
    <3> QED
      BY <1>2, <3>1
  <2>4. WaveInv(c)
    BY <1>1, <1>2, <1>3, <2>3 DEF WaveInv
  <2> QED
    BY <2>1, <2>4
<1>4. CASE level # c.level \/ c.cell \in {0, LastCell}
  <2>1. PICK e : e = [c EXCEPT !.level = level]
    OBVIOUS
  <2>2. e \in Cores /\ e.issued = c.issued /\ e.queue = <<>>
    <3>1. [c EXCEPT !.level = level] \in Cores
      BY ZenonT(60) DEF Cores
    <3> QED
      BY <2>1, <3>1 DEF Cores
  <2>3. PICK action0 \in Actions : action0.kind = "SetBreak" /\ action0.value = 1 - level
    <3>1. 1 - level \in Nat
      OBVIOUS
    <3> QED
      BY <3>1, ActionMade
  <2>4. d = Issue(e, action0.kind, action0.value)
    BY <1>1, <1>4, <2>1, <2>3 DEF IssueBreakForCell
  <2>5. IssuedAs(e, action0, d)
    <3>1. e.issued <= 5
      BY <1>2, <2>2
    <3> QED
      BY <2>2, <2>4, <3>1, Issues
  <2>6. /\ d \in Cores /\ d.issued = c.issued + 1 /\ d.level = level
        /\ d.state = c.state /\ d.active = c.active /\ d.ackIssued = c.ackIssued
        /\ d.waveStart = c.waveStart /\ d.cell = c.cell
        /\ d.pendingWaveStart = c.pendingWaveStart /\ d.notBefore = c.notBefore
        /\ d.keyByte2 = c.keyByte2 /\ d.keyBytesSeen = c.keyBytesSeen /\ d.echoSeen = c.echoSeen
    <3>1. /\ e.issued = c.issued /\ e.level = level
          /\ e.state = c.state /\ e.active = c.active /\ e.ackIssued = c.ackIssued
          /\ e.waveStart = c.waveStart /\ e.cell = c.cell
          /\ e.pendingWaveStart = c.pendingWaveStart /\ e.notBefore = c.notBefore
          /\ e.keyByte2 = c.keyByte2 /\ e.keyBytesSeen = c.keyBytesSeen /\ e.echoSeen = c.echoSeen
      BY <2>1 DEF Cores
    <3> QED
      BY <2>5, <3>1 DEF IssuedAs
  <2>7. d.queue # <<>> /\ Head(d.queue) = action0 /\ Tail(d.queue) = <<>>
    BY <2>5 DEF IssuedAs
  <2>8. d.issued <= WaveActions(d)
    <3>1. c.cell \in {0, 1, 2, LastCell}
      BY <1>1, <1>2, <1>4 DEF LevelOf, LastCell
    <3> QED
      BY <1>2, <2>6, <3>1 DEF WaveActions, LastCell
  <2>9. WaveInv(d) /\ AnswerInv(d)
    BY <1>1, <1>2, <2>6, <2>8 DEF WaveInv, AnswerInv
  <2>10. Fits(action0, d, at, c.level, FALSE)
    BY <2>3, <2>6 DEF Fits
  <2> QED
    BY <2>6, <2>7, <2>9, <2>10
<1> QED
  BY <1>3, <1>4

\* The chain of advance().
LEMMA Progresses ==
  ASSUME NEW c \in Cores, NEW at \in Nat, NEW line0, c.queue = <<>>, ~c.active, WaveInv(c), AnswerInv(c),
         c.state \in {"BusIdle", "FiveBaud"} => line0 = c.level,
         c.state = "KeyAck" /\ ~c.ackIssued => c.issued <= 5,
         c.keyBytesSeen = 2 => c.state \in {"KeyAck", "Active", "Fault"},
         c.state = "FiveBaud" =>
           /\ at >= c.waveStart
           /\ ~c.pendingWaveStart => at >= c.waveStart + c.cell * Cell,
         NEW d, d = Progress(c, at)
  PROVE  Advanced(c, at, line0, d)
<1> TRUE \in BOOLEAN /\ FALSE \in BOOLEAN
  OBVIOUS
<1>1. CASE c.state = "BusIdle" /\ at >= c.idleDeadline
  <2>1. PICK action0 \in Actions : action0.kind = "SetBaud" /\ action0.value = 1200
    BY ActionMade
  <2>2. PICK e : e = Issue(c, action0.kind, action0.value)
    OBVIOUS
  <2>3. IssuedAs(c, action0, e) /\ c.issued = 0
    BY <1>1, <2>2, Issues DEF WaveInv
  <2>4. d = [e EXCEPT !.state = "FiveBaud", !.cell = 0, !.level = 1, !.waveStart = at,
                      !.pendingWaveStart = TRUE]
    BY <1>1, <2>1, <2>2 DEF Progress, StartWave
  <2>5. d \in Cores
    <3>1. "FiveBaud" \in CoreStates /\ 0 \in 0 .. LastCell + 1 /\ 1 \in {0, 1}
      BY DEF CoreStates, LastCell
    <3>2. e \in Cores
      BY <2>3 DEF IssuedAs
    <3>3. [e EXCEPT !.state = "FiveBaud", !.cell = 0, !.level = 1, !.waveStart = at,
                    !.pendingWaveStart = TRUE] \in Cores
      BY <3>1, <3>2, ZenonT(60) DEF Cores
    <3> QED
      BY <2>4, <3>3
  <2>6. /\ d.state = "FiveBaud" /\ d.cell = 0 /\ d.level = 1 /\ d.waveStart = at
        /\ d.pendingWaveStart = TRUE /\ d.issued = 1 /\ d.queue = <<action0>>
        /\ d.active = c.active /\ d.ackIssued = c.ackIssued
        /\ d.notBefore = c.notBefore
        /\ d.keyByte2 = c.keyByte2 /\ d.keyBytesSeen = c.keyBytesSeen /\ d.echoSeen = c.echoSeen
    BY <2>3, <2>4 DEF Cores, IssuedAs
  <2>7. d.queue # <<>> /\ Head(d.queue) = action0 /\ Tail(d.queue) = <<>>
    BY <2>3, <2>6 DEF IssuedAs
  <2>8. WaveInv(d) /\ AnswerInv(d)
    BY <1>1, <2>6 DEF WaveInv, WaveActions, AnswerInv, LastCell
  <2>9. Fits(action0, d, at, line0, FALSE)
    BY <1>1, <2>1, <2>6 DEF Fits, WaveInv
  <2>10. c.keyBytesSeen # 2 /\ c.waveStart \in Nat
    BY <1>1, CoreFields
  <2>11. at >= d.waveStart /\ ~d.active /\ d.pendingWaveStart
    BY <2>6
  <2>12. /\ d.queue # <<>> /\ Tail(d.queue) = <<>> /\ Fits(Head(d.queue), d, at, line0, FALSE)
         /\ d.state = "FiveBaud" /\ c.state = "BusIdle" /\ d.waveStart = at
    BY <1>1, <2>6, <2>7, <2>9
  <2> QED
    BY <2>5, <2>6, <2>8, <2>10, <2>11, <2>12 DEF Advanced
<1>2. CASE c.state = "FiveBaud" /\ c.pendingWaveStart /\ at >= c.waveStart
  <2>1. PICK e : e = [c EXCEPT !.pendingWaveStart = FALSE]
    OBVIOUS
  <2>2. e \in Cores
    <3>1. [c EXCEPT !.pendingWaveStart = FALSE] \in Cores
      BY ZenonT(60) DEF Cores
    <3> QED
      BY <2>1, <3>1
  <2>3. /\ e.state = "FiveBaud" /\ ~e.pendingWaveStart /\ e.cell = 0 /\ e.level = 1
        /\ e.issued = c.issued /\ e.queue = <<>> /\ ~e.active /\ e.waveStart = c.waveStart
        /\ e.ackIssued = c.ackIssued /\ e.notBefore = c.notBefore
        /\ e.keyByte2 = c.keyByte2 /\ e.keyBytesSeen = c.keyBytesSeen /\ e.echoSeen = c.echoSeen
        /\ c.level = 1 /\ c.issued <= 1 /\ c.keyBytesSeen # 2
    BY <1>2, <2>1 DEF Cores, WaveInv, WaveActions
  <2>4. d = IssueBreakForCell(e)
    BY <1>2, <2>1 DEF Progress
  <2>5. e.waveStart + e.cell * Cell = c.waveStart
    BY <2>3, CoreFields, HandshakeConstants
  <2>6. AnswerInv(e) /\ e.cell <= LastCell /\ e.keyBytesSeen # 2
    BY <1>2, <2>3 DEF AnswerInv, LastCell
  <2>7. /\ d \in Cores /\ WaveInv(d) /\ AnswerInv(d)
        /\ ~d.active /\ d.ackIssued = e.ackIssued /\ d.echoSeen = e.echoSeen
        /\ d.keyBytesSeen = e.keyBytesSeen /\ d.keyByte2 = e.keyByte2 /\ d.notBefore = e.notBefore
        /\ d.state = "FiveBaud" /\ d.cell = e.cell /\ d.waveStart = e.waveStart /\ ~d.pendingWaveStart
        /\ d.queue = <<>> => d.level = e.level
        /\ d.queue # <<>> => /\ Tail(d.queue) = <<>>
                             /\ Fits(Head(d.queue), d, at, e.level, FALSE)
    BY <1>2, <2>2, <2>3, <2>4, <2>5, <2>6, Breaks
  <2> QED
    BY <1>2, <2>3, <2>5, <2>7 DEF Advanced
<1>3. CASE c.state = "FiveBaud" /\ ~c.pendingWaveStart /\ CellDue(c, at)
  <2>1. PICK next \in Nat : next = c.cell + 1
    BY CoreFields
  <2>2. at >= c.waveStart + next * Cell /\ c.cell \in 0 .. 9 /\ d = NextCell(c, at)
    BY <1>3, <2>1, CoreFields DEF CellDue, Progress, WaveInv, LastCell
  <2>3. c.keyBytesSeen # 2 /\ c.level = LevelOf(c.cell) /\ c.issued <= WaveActions(c) /\ c.issued \in Nat
        /\ line0 = c.level
    BY <1>3, CoreFields DEF WaveInv
  <2>4. CASE next > LastCell
    <3>1. PICK end \in Nat : end = at + SyncTimeout
      BY HandshakeConstants
    <3>2. d = [c EXCEPT !.cell = next, !.state = "WaitSync", !.syncDeadline = end]
      BY <2>1, <2>2, <2>4, <3>1 DEF NextCell
    <3>3. d \in Cores
      <4>1. next \in 0 .. LastCell + 1 /\ "WaitSync" \in CoreStates
        BY <2>1, <2>2 DEF CoreStates, LastCell
      <4>2. [c EXCEPT !.cell = next, !.state = "WaitSync", !.syncDeadline = end] \in Cores
        BY <4>1, ZenonT(60) DEF Cores
      <4> QED
        BY <3>2, <4>2
    <3>4. /\ d.state = "WaitSync" /\ d.queue = <<>> /\ d.active = c.active /\ d.issued = c.issued
          /\ d.ackIssued = c.ackIssued /\ d.notBefore = c.notBefore
          /\ d.keyByte2 = c.keyByte2 /\ d.keyBytesSeen = c.keyBytesSeen /\ d.echoSeen = c.echoSeen
      BY <3>2 DEF Cores
    <3>5. WaveInv(d) /\ AnswerInv(d)
      <4>1. c.issued <= 5
        BY <1>3, <2>3, CoreFields DEF WaveActions
      <4> QED
        BY <1>3, <3>4, <4>1, <2>3 DEF WaveInv, AnswerInv
    <3> QED
      BY <1>3, <2>3, <3>3, <3>4, <3>5 DEF Advanced
  <2>5. CASE next <= LastCell
    <3>1. PICK e : e = [c EXCEPT !.cell = next]
      OBVIOUS
    <3>2. e \in Cores
      <4>1. next \in 0 .. LastCell + 1
        BY <2>1, <2>2 DEF LastCell
      <4>2. [c EXCEPT !.cell = next] \in Cores
        BY <4>1, ZenonT(60) DEF Cores
      <4> QED
        BY <3>1, <4>2
    <3>3. /\ e.state = "FiveBaud" /\ ~e.pendingWaveStart /\ e.cell = next /\ e.level = c.level
          /\ e.issued = c.issued /\ e.queue = <<>> /\ ~e.active /\ e.waveStart = c.waveStart
          /\ e.ackIssued = c.ackIssued /\ e.notBefore = c.notBefore
          /\ e.keyByte2 = c.keyByte2 /\ e.keyBytesSeen = c.keyBytesSeen /\ e.echoSeen = c.echoSeen
      BY <1>3, <3>1 DEF Cores
    <3>4. d = IssueBreakForCell(e)
      <4>1. ~(c.cell + 1 > LastCell) /\ e = [c EXCEPT !.cell = @ + 1]
        BY <2>1, <2>2, <2>5, <3>1 DEF LastCell
      <4> QED
        BY <2>2, <4>1 DEF NextCell
    <3>5. AnswerInv(e) /\ e.keyBytesSeen # 2
      BY <1>3, <2>3, <3>3 DEF AnswerInv
    <3>6. e.level = (IF e.cell = 0 THEN 1 ELSE LevelOf(e.cell - 1))
      <4>1. e.cell # 0 /\ e.cell - 1 = c.cell
        BY <2>1, <2>2, <3>3
      <4> QED
        BY <2>3, <3>3, <4>1
    <3>7. e.issued <= (IF e.cell = 0 THEN 1 ELSE IF e.cell = 1 THEN 2 ELSE IF e.cell = 2 THEN 3 ELSE 4)
      BY <1>3, <2>1, <2>2, <2>3, <2>5, <3>3 DEF WaveActions, LastCell
    <3>8. at >= e.waveStart /\ at >= e.waveStart + e.cell * Cell
      BY <1>3, <2>2, <3>3
    <3>9. /\ d \in Cores /\ WaveInv(d) /\ AnswerInv(d)
          /\ ~d.active /\ d.ackIssued = e.ackIssued /\ d.echoSeen = e.echoSeen
          /\ d.keyBytesSeen = e.keyBytesSeen /\ d.keyByte2 = e.keyByte2 /\ d.notBefore = e.notBefore
          /\ d.state = "FiveBaud" /\ d.cell = e.cell /\ d.waveStart = e.waveStart /\ ~d.pendingWaveStart
          /\ d.queue = <<>> => d.level = e.level
          /\ d.queue # <<>> => /\ Tail(d.queue) = <<>>
                               /\ Fits(Head(d.queue), d, at, e.level, FALSE)
      BY <2>5, <3>2, <3>3, <3>4, <3>5, <3>6, <3>7, <3>8, Breaks
    <3> QED
      BY <1>3, <2>3, <3>3, <3>8, <3>9 DEF Advanced
  <2> QED
    BY <2>1, <2>4, <2>5 DEF LastCell
<1>4. CASE c.state = "KeyAck" /\ AckDue(c, at)
  <2>1. ~c.ackIssued /\ ~c.echoSeen /\ at >= c.notBefore /\ c.keyBytesSeen = 2 /\ c.issued <= 5
    BY <1>4 DEF AckDue, AnswerInv
  <2>2. PICK action0 \in Actions : action0.kind = "SendByte" /\ action0.value = AckByte(c.keyByte2)
    <3>1. c.keyByte2 \in 0 .. 255
      BY DEF Cores
    <3>2. PICK value \in 0 .. 255 : value = AckByte(c.keyByte2)
      BY <3>1, SomeActions, ZenonT(60)
    <3>3. value \in Nat
      OBVIOUS
    <3> QED
      BY <3>2, <3>3, ActionMade
  <2>3. d = Issue(c, action0.kind, action0.value)
    BY <1>4, <2>2 DEF Progress
  <2>4. IssuedAs(c, action0, d)
    BY <2>1, <2>3, Issues
  <2>5. /\ d \in Cores /\ d.state = c.state /\ d.active = c.active /\ d.issued = c.issued + 1
        /\ d.ackIssued = c.ackIssued /\ d.notBefore = c.notBefore
        /\ d.keyByte2 = c.keyByte2 /\ d.keyBytesSeen = c.keyBytesSeen /\ d.echoSeen = c.echoSeen
    BY <2>4 DEF IssuedAs
  <2>6. d.queue # <<>> /\ Head(d.queue) = action0 /\ Tail(d.queue) = <<>>
    BY <2>4 DEF IssuedAs
  <2>7. WaveInv(d) /\ AnswerInv(d)
    <3>1. d.issued <= 6
      BY <2>1, <2>5, CoreFields
    <3> QED
      BY <1>4, <2>1, <2>5, <3>1 DEF WaveInv, AnswerInv
  <2>8. Fits(action0, d, at, line0, FALSE)
    BY <1>4, <2>1, <2>2, <2>5 DEF Fits
  <2> QED
    BY <1>4, <2>1, <2>5, <2>6, <2>7, <2>8 DEF Advanced
<1>5. CASE d = c
  BY <1>5 DEF Advanced
<1> QED
  BY <1>1, <1>2, <1>3, <1>4, <1>5 DEF Progress

\* A call of advance(), with its deadlines.
LEMMA Advances ==
  ASSUME NEW c \in Cores, NEW at \in Nat, NEW line0, c.queue = <<>>, ~c.active, WaveInv(c), AnswerInv(c),
         c.state \in {"BusIdle", "FiveBaud"} => line0 = c.level,
         c.state = "KeyAck" /\ ~c.ackIssued => c.issued <= 5,
         c.keyBytesSeen = 2 => c.state \in {"KeyAck", "Active", "Fault"},
         c.state = "FiveBaud" =>
           /\ at >= c.waveStart
           /\ ~c.pendingWaveStart => at >= c.waveStart + c.cell * Cell,
         NEW d, d = Advance(c, at)
  PROVE  Advanced(c, at, line0, d)
<1>1. PICK n : n = Progress(c, at)
  OBVIOUS
<1>2. Advanced(c, at, line0, n)
  BY <1>1, Progresses
<1>3. d = n \/ (n.state \in {"WaitSync", "KeyAck"} /\ d = [n EXCEPT !.state = "Fault"])
  BY <1>1 DEF Advance
<1> QED
  BY <1>2, <1>3, Expires

LEMMA Advancing ==
  ASSUME HandshakeInv, AdvanceCore
  PROVE  HandshakeInv'
<1> USE DEF HandshakeInv
<1>1. /\ UNCHANGED <<now, action, rx, line, ecu, noise>> /\ pc = "advance" /\ pc' = "pop"
      /\ core \in Cores /\ core.queue = <<>> /\ ~core.active /\ now \in Nat
      /\ history' = (IF core.state = "BusIdle" /\ core'.state = "FiveBaud"
                     THEN [history EXCEPT !.waveStart = now] ELSE history)
      /\ core' = Advance(core, now)
  <2>1. now \in 0 .. MaxTime
    BY DEF TypeOK
  <2> QED
    BY <2>1, HandshakeConstants DEF AdvanceCore, TypeOK, QueueInv, Executing
<1>2. /\ core.state \in {"BusIdle", "FiveBaud"} => line = core.level
      /\ core.state = "KeyAck" /\ ~core.ackIssued => core.issued <= 5
  BY <1>1 DEF ActionInv, Quiet, Coming, Executing
<1>3. /\ core.keyBytesSeen = 2 => core.state \in {"KeyAck", "Active", "Fault"}
      /\ core.state = "FiveBaud" =>
           /\ now >= core.waveStart
           /\ ~core.pendingWaveStart => now >= core.waveStart + core.cell * Cell
  BY DEF HistoryInv
<1>4. Advanced(core, now, line, core')
  <2>1. WaveInv(core) /\ AnswerInv(core)
    OBVIOUS
  <2>2. PICK d : d = Advance(core, now)
    OBVIOUS
  <2>3. Advanced(core, now, line, d)
    BY <1>1, <1>2, <1>3, <2>1, <2>2, Advances
  <2> QED
    BY <1>1, <2>2, <2>3
<1> USE DEF Advanced
<1>5. TypeOK'
  BY <1>1, <1>4 DEF TypeOK
<1>6. QueueInv'
  BY <1>1, <1>4 DEF QueueInv, Executing
<1>7. ActionInv'
  BY <1>1, <1>2, <1>4 DEF ActionInv, Coming, Executing, Quiet, Fits
<1>8. HistoryInv'
  <2>1. /\ history'.keyByte = history.keyByte
        /\ history'.answered = history.answered /\ history'.onWire = history.onWire
        /\ history' = [waveStart |-> history'.waveStart, keyByte |-> history'.keyByte,
                       answered |-> history'.answered, onWire |-> history'.onWire]
        /\ history'.waveStart = IF core.state = "BusIdle" /\ core'.state = "FiveBaud"
                                THEN now ELSE history.waveStart
    BY <1>1 DEF HistoryInv
  <2>2. core'.state = "FiveBaud" =>
          /\ history'.waveStart = core'.waveStart /\ now >= core'.waveStart
          /\ ~core'.pendingWaveStart => now >= core'.waveStart + core'.cell * Cell
    BY <1>4, <2>1 DEF HistoryInv
  <2>3. core'.keyBytesSeen = 2 =>
          /\ core'.state \in {"KeyAck", "Active", "Fault"}
          /\ history'.keyByte \in Nat /\ core'.notBefore = history'.keyByte + KeyAckNotBefore
    BY <1>4, <2>1 DEF HistoryInv
  <2>4. history'.onWire =>
          /\ action.kind = "SendByte" /\ action.value = AckByte(core'.keyByte2) /\ core'.keyBytesSeen = 2
          /\ ~Coming' /\ (core'.state = "KeyAck" => core'.ackIssued)
    <3>1. history.onWire => core.keyBytesSeen = 2 /\ (core.state = "KeyAck" => core.ackIssued)
      BY DEF HistoryInv
    <3>2. history.onWire => core'.queue = <<>> /\ (core'.state = "KeyAck" => core'.ackIssued)
      BY <1>4, <3>1 DEF Fits
    <3> QED
      BY <1>4, <2>1, <3>2 DEF HistoryInv, Coming
  <2> QED
    BY <1>1, <1>4, <2>1, <2>2, <2>3, <2>4 DEF HistoryInv
<1> QED
  BY <1>4, <1>5, <1>6, <1>7, <1>8

LEMMA HandshakeStep == HandshakeInv /\ [Next]_vars => HandshakeInv'
<1> SUFFICES ASSUME HandshakeInv, [Next]_vars PROVE HandshakeInv'
  OBVIOUS
<1>1. CASE EcuByte \/ Echo \/ Noise \/ Tick
  BY <1>1, Outside
<1>2. CASE Loop
  BY <1>2, Turning, Polling, Advancing, Popped, Submitted, Finished DEF Loop
<1>3. CASE UNCHANGED vars
  BY <1>3 DEF vars, HandshakeInv, TypeOK, WaveInv, WaveActions, AnswerInv, QueueInv, ActionInv,
              HistoryInv, Fits, Quiet, Coming, Executing
<1> QED
  BY <1>1, <1>2, <1>3 DEF Next

LEMMA HandshakeKept == Spec => []HandshakeInv
BY HandshakeStarts, HandshakeStep, PTL DEF Spec

\* The address is on the line as the wave of it goes on, never faster than five baud, whenever the loop
\* of run_handshake looks at the clock, and the actions an attempt issues fit in actions_.
THEOREM AddressIsSent == Spec => []AddressWave
<1>1. HandshakeInv => AddressWave
  <2> SUFFICES ASSUME HandshakeInv PROVE AddressWave
    OBVIOUS
  <2> USE DEF HandshakeInv
  <2>1. AddressOnLine
    BY DEF AddressOnLine, ActionInv, Quiet, Coming, Executing, WaveInv
  <2>2. CellsNotEarly
    BY DEF CellsNotEarly, HistoryInv
  <2>3. ActionsFit
    BY DEF ActionsFit, WaveInv
  <2> QED
    BY <2>1, <2>2, <2>3 DEF AddressWave
<1> QED
  BY <1>1, HandshakeKept, PTL

\* The answer is handed to the adapter no sooner than its window opens, counted from the arrival of the
\* second key byte, and a core is active only when its answer was accepted.
THEOREM AnswerIsOrdered == Spec => []AnswerInOrder
<1>1. HandshakeInv => AnswerInOrder
  <2> SUFFICES ASSUME HandshakeInv PROVE AnswerInOrder
    OBVIOUS
  <2> USE DEF HandshakeInv
  <2>1. ActiveIsAnswered
    BY DEF ActiveIsAnswered, HistoryInv
  <2>2. AnswerNotEarly
    BY DEF AnswerNotEarly, HistoryInv, Never
  <2> QED
    BY <2>1, <2>2 DEF AnswerInOrder
<1> QED
  BY <1>1, HandshakeKept, PTL
=============================================================================
