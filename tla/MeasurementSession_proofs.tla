---------------------- MODULE MeasurementSession_proofs ----------------------
(***************************************************************************)
(* What the session is promised by the queue its bytes come from, for      *)
(* every room of that queue, and what it makes of those bytes: whole       *)
(* blocks or an error, no fault where the wire was undisturbed, and the    *)
(* plan's turn taking - for every unit, whatever it answers.               *)
(***************************************************************************)
EXTENDS MeasurementSession, IngressQueue, SequenceTheorems, TLAPS

(***************************************************************************)
(* The ingress queue.                                                      *)
(***************************************************************************)

Items == [seq : Nat, epoch : Nat]

\* The bytes taken and, behind them, those that wait, as one sequence.
Total == Len(given) + Len(waiting)
Nth(i) == IF i <= Len(given) THEN given[i] ELSE waiting[i - Len(given)]

QueueTypes ==
  /\ next \in Nat /\ epoch \in Nat
  /\ phase \in {"fresh", "running", "broken"}
  /\ given \in Seq(Items) /\ waiting \in Seq(Items)

\* The whole sequence is in order, older than what is offered next, and of
\* earlier epochs as long as the current one has no byte.
StreamInv ==
  /\ \A i \in 1 .. (Total - 1) : Follows(Nth(i), Nth(i + 1))
  /\ \A i \in 1 .. Total :
       /\ Nth(i).seq < next /\ Nth(i).epoch <= epoch
       /\ phase = "fresh" => Nth(i).epoch < epoch
  /\ phase = "running" => Total > 0 /\ Nth(Total) = [seq |-> next - 1, epoch |-> epoch]

\* The lengths are numbers and what is indexed is an item.
LEMMA StreamTypes ==
  ASSUME QueueTypes
  PROVE  /\ Len(given) \in Nat /\ Len(waiting) \in Nat /\ Total \in Nat
         /\ \A i \in 1 .. Total : Nth(i) \in Items
<1>1. Len(given) \in Nat /\ Len(waiting) \in Nat
  BY LenProperties DEF QueueTypes
<1>2. ASSUME NEW i \in 1 .. Total PROVE Nth(i) \in Items
  <2>1. CASE i <= Len(given)
    BY <1>1, <2>1, ElementOfSeq DEF QueueTypes, Nth, Total
  <2>2. CASE i > Len(given)
    <3>1. i - Len(given) \in 1 .. Len(waiting)
      BY <1>1, <2>2 DEF Total
    <3>2. waiting[i - Len(given)] \in Items
      BY <3>1, ElementOfSeq DEF QueueTypes
    <3> QED
      BY <1>1, <2>2, <3>2 DEF Nth
  <2> QED
    BY <1>1, <2>1, <2>2 DEF Total
<1> QED
  BY <1>1, <1>2 DEF Total

\* A step that leaves the sequence as it is.
LEMMA StreamKept ==
  ASSUME QueueTypes, StreamInv, UNCHANGED Total,
         \A i \in 1 .. Total : Nth(i)' = Nth(i),
         epoch' = epoch, next' \in Nat, next' >= next,
         phase' = "running" => phase = "running" /\ next' = next,
         phase' = "fresh" => phase = "fresh"
  PROVE  StreamInv'
<1>1. Total \in Nat /\ \A i \in 1 .. Total : Nth(i) \in Items
  BY StreamTypes
<1>2. next \in Nat /\ epoch \in Nat
  BY DEF QueueTypes
<1>3. \A i \in 1 .. (Total - 1) : Follows(Nth(i), Nth(i + 1))'
  BY <1>1 DEF StreamInv, Follows
<1>4. \A i \in 1 .. Total :
        /\ Nth(i)'.seq < next' /\ Nth(i)'.epoch <= epoch
        /\ phase' = "fresh" => Nth(i)'.epoch < epoch
  BY <1>1, <1>2 DEF StreamInv, Items
<1>5. phase' = "running" => Total > 0 /\ Nth(Total)' = [seq |-> next' - 1, epoch |-> epoch]
  BY <1>1 DEF StreamInv
<1> QED
  BY <1>3, <1>4, <1>5 DEF StreamInv

\* An accepted byte goes to the end and follows what is there: a byte of the
\* running epoch its predecessor, the first byte of an epoch an older one.
LEMMA AcceptKeeps ==
  ASSUME QueueTypes, StreamInv, Accept
  PROVE  QueueTypes' /\ StreamInv'
<1> DEFINE item == [seq |-> next, epoch |-> epoch]
<1>1. /\ phase \in {"fresh", "running"} /\ phase' = "running" /\ next' = next + 1
      /\ waiting' = Append(waiting, item) /\ given' = given /\ epoch' = epoch
  BY DEF Accept, QueueTypes
<1>2. next \in Nat /\ epoch \in Nat /\ item \in Items
  BY DEF QueueTypes, Items
<1>3. /\ waiting' \in Seq(Items) /\ Len(waiting') = Len(waiting) + 1
      /\ \A i \in 1 .. Len(waiting) : waiting'[i] = waiting[i]
      /\ waiting'[Len(waiting) + 1] = item
  BY <1>1, <1>2, AppendProperties DEF QueueTypes
<1>4. /\ Len(given) \in Nat /\ Len(waiting) \in Nat /\ Total \in Nat
      /\ \A i \in 1 .. Total : Nth(i) \in Items
  BY StreamTypes
<1>5. Total' = Total + 1
  BY <1>1, <1>3, <1>4 DEF Total
<1>6. ASSUME NEW i \in 1 .. Total PROVE Nth(i)' = Nth(i)
  <2>1. CASE i <= Len(given)
    BY <1>1, <2>1 DEF Nth
  <2>2. CASE i > Len(given)
    <3>1. i - Len(given) \in 1 .. Len(waiting)
      BY <1>4, <2>2 DEF Total
    <3> QED
      BY <1>1, <1>3, <1>4, <2>2, <3>1 DEF Nth
  <2> QED
    BY <1>4, <2>1, <2>2
<1>7. /\ \A i \in Nat : i = Total + 1 => Nth(i)' = item
      /\ Nth(Total)' = item
  <2>1. Total + 1 - Len(given) = Len(waiting) + 1 /\ ~(Total + 1 <= Len(given))
    BY <1>4 DEF Total
  <2>2. waiting'[Total + 1 - Len(given)] = item
    BY <1>3, <2>1
  <2>3. ASSUME NEW i \in Nat, i = Total + 1 PROVE Nth(i)' = item
    BY <1>1, <1>4, <2>1, <2>2, <2>3 DEF Nth
  <2>4. Nth(Total)' = IF Total' <= Len(given') THEN given'[Total']
                      ELSE waiting'[Total' - Len(given')]
    BY DEF Nth
  <2>5. Nth(Total)' = item
    BY <1>1, <1>4, <1>5, <2>1, <2>2, <2>4
  <2> QED
    BY <2>3, <2>5
<1>8. QueueTypes'
  BY <1>1, <1>2, <1>3 DEF QueueTypes
<1>9. ASSUME NEW i \in 1 .. Total PROVE Follows(Nth(i), Nth(i + 1))'
  <2>1. CASE i = Total
    <3>1. Nth(i)' = Nth(i) /\ Nth(i + 1)' = item /\ Nth(i) \in Items
      <4>1. i \in Nat /\ i + 1 \in Nat /\ i + 1 = Total + 1
        BY <1>4, <2>1
      <4>2. Nth(i + 1)' = item
        BY <1>7, <4>1
      <4> QED
        BY <1>4, <1>6, <4>2
    <3>2. CASE phase = "running"
      <4>1. Nth(i) = [seq |-> next - 1, epoch |-> epoch]
        BY <2>1, <3>2 DEF StreamInv
      <4> QED
        BY <1>2, <3>1, <4>1 DEF Follows
    <3>3. CASE phase = "fresh"
      <4>1. Nth(i).seq < next /\ Nth(i).epoch < epoch
        BY <2>1, <3>3 DEF StreamInv
      <4> QED
        BY <1>2, <3>1, <4>1 DEF Follows, Items
    <3> QED
      BY <1>1, <3>2, <3>3
  <2>2. CASE i # Total
    <3>1. i \in 1 .. (Total - 1) /\ i + 1 \in 1 .. Total
      BY <1>4, <2>2
    <3>2. Nth(i)' = Nth(i) /\ Nth(i + 1)' = Nth(i + 1)
      BY <1>6, <3>1
    <3> QED
      BY <3>1, <3>2 DEF StreamInv, Follows
  <2> QED
    BY <2>1, <2>2
<1>10. ASSUME NEW i \in 1 .. (Total + 1)
       PROVE  Nth(i)'.seq < next + 1 /\ Nth(i)'.epoch <= epoch
  <2>1. CASE i = Total + 1
    <3>1. Nth(i)' = item
      BY <1>4, <1>7, <2>1
    <3> QED
      BY <1>2, <3>1
  <2>2. CASE i \in 1 .. Total
    <3>1. Nth(i)' = Nth(i) /\ Nth(i) \in Items /\ Nth(i).seq < next /\ Nth(i).epoch <= epoch
      BY <1>4, <1>6, <2>2 DEF StreamInv
    <3> QED
      BY <1>2, <3>1 DEF Items
  <2> QED
    BY <1>4, <2>1, <2>2
<1>11. StreamInv'
  <2>1. Total' - 1 = Total
    BY <1>4, <1>5
  <2>2. Nth(Total)' = [seq |-> next' - 1, epoch |-> epoch']
    BY <1>1, <1>2, <1>7
  <2> QED
    BY <1>1, <1>4, <1>5, <1>9, <1>10, <2>1, <2>2 DEF StreamInv
<1> QED
  BY <1>8, <1>11

\* Taking a byte moves the border between the two parts of the sequence.
LEMMA TakeKeeps ==
  ASSUME QueueTypes, StreamInv, Take
  PROVE  QueueTypes' /\ StreamInv'
<1>1. /\ waiting # <<>> /\ given' = Append(given, Head(waiting)) /\ waiting' = Tail(waiting)
      /\ next' = next /\ epoch' = epoch /\ phase' = phase
  BY DEF Take
<1>2. given \in Seq(Items) /\ waiting \in Seq(Items)
  BY DEF QueueTypes
<1>3. /\ Len(given) \in Nat /\ Len(waiting) \in Nat /\ Total \in Nat
  BY StreamTypes
<1>4. /\ waiting' \in Seq(Items) /\ Len(waiting') = Len(waiting) - 1
      /\ \A i \in 1 .. (Len(waiting) - 1) : waiting'[i] = waiting[i + 1]
      /\ Head(waiting) \in Items /\ Head(waiting) = waiting[1]
  BY <1>1, <1>2, HeadTailProperties
<1>5. /\ given' \in Seq(Items) /\ Len(given') = Len(given) + 1
      /\ \A i \in 1 .. Len(given) : given'[i] = given[i]
      /\ given'[Len(given) + 1] = Head(waiting)
  BY <1>1, <1>2, <1>4, AppendProperties
<1>6. Total' = Total
  BY <1>3, <1>4, <1>5 DEF Total
<1>7. ASSUME NEW i \in 1 .. Total PROVE Nth(i)' = Nth(i)
  <2>1. CASE i <= Len(given)
    BY <1>3, <1>5, <2>1 DEF Nth
  <2>2. CASE i = Len(given) + 1
    <3>1. Nth(i) = waiting[1] /\ Nth(i)' = given'[Len(given) + 1]
      BY <1>3, <1>5, <2>2 DEF Nth
    <3> QED
      BY <1>4, <1>5, <3>1
  <2>3. CASE i > Len(given) + 1
    <3>1. i - (Len(given) + 1) \in 1 .. (Len(waiting) - 1)
      BY <1>3, <2>3 DEF Total
    <3>2. Nth(i)' = waiting'[i - (Len(given) + 1)]
      BY <1>3, <1>5, <2>3 DEF Nth
    <3>3. Nth(i) = waiting[i - (Len(given) + 1) + 1]
      BY <1>3, <2>3 DEF Nth
    <3> QED
      BY <1>4, <3>1, <3>2, <3>3
  <2> QED
    BY <1>3, <2>1, <2>2, <2>3
<1>8. next \in Nat
  BY DEF QueueTypes
<1>9. StreamInv'
  BY <1>1, <1>6, <1>7, <1>8, StreamKept
<1> QED
  BY <1>1, <1>4, <1>5, <1>9 DEF QueueTypes

\* What is discarded is the end of the sequence.
LEMMA RestartKeeps ==
  ASSUME QueueTypes, StreamInv, Restart
  PROVE  QueueTypes' /\ StreamInv'
<1>1. /\ waiting' = <<>> /\ epoch' = epoch + 1 /\ phase' = "fresh"
      /\ next' = next /\ given' = given
  BY DEF Restart
<1>2. /\ Len(given) \in Nat /\ Len(waiting) \in Nat /\ Total \in Nat
      /\ \A i \in 1 .. Total : Nth(i) \in Items
  BY StreamTypes
<1>3. Total' = Len(given) /\ Len(given) <= Total
  BY <1>1, <1>2 DEF Total
<1>4. \A i \in 1 .. Len(given) : Nth(i)' = Nth(i)
  BY <1>1, <1>2 DEF Nth
<1>5. QueueTypes'
  BY <1>1 DEF QueueTypes
<1>6. ASSUME NEW i \in 1 .. (Len(given) - 1) PROVE Follows(Nth(i), Nth(i + 1))'
  <2>1. i \in 1 .. (Total - 1) /\ i \in 1 .. Len(given) /\ i + 1 \in 1 .. Len(given)
    BY <1>2, <1>3
  <2> QED
    BY <1>4, <2>1 DEF StreamInv, Follows
<1>7. ASSUME NEW i \in 1 .. Len(given)
      PROVE  /\ Nth(i)'.seq < next /\ Nth(i)'.epoch < epoch + 1
             /\ Nth(i)'.epoch <= epoch + 1
  <2>1. i \in 1 .. Total /\ Nth(i)' = Nth(i)
    BY <1>2, <1>3, <1>4
  <2>2. Nth(i) \in Items /\ Nth(i).seq < next /\ Nth(i).epoch <= epoch /\ epoch \in Nat
    BY <1>2, <2>1 DEF StreamInv, QueueTypes
  <2> QED
    BY <2>1, <2>2 DEF Items
<1>8. StreamInv'
  BY <1>1, <1>3, <1>6, <1>7 DEF StreamInv
<1> QED
  BY <1>5, <1>8

\* Every step keeps the sequence in order.
LEMMA QueueStep ==
  ASSUME QueueTypes, StreamInv, [QueueNext]_queueVars
  PROVE  QueueTypes' /\ StreamInv'
<1>1. CASE Accept
  BY <1>1, AcceptKeeps
<1>2. CASE Lose
  <2>1. /\ next' \in Nat /\ next' > next /\ phase' # "running"
        /\ phase' = "fresh" => phase = "fresh"
        /\ UNCHANGED <<waiting, epoch, given>> /\ phase' \in {"fresh", "broken"}
    BY <1>2 DEF Lose
  <2>2. UNCHANGED Total /\ \A i \in 1 .. Total : Nth(i)' = Nth(i)
    BY <2>1 DEF Total, Nth
  <2>3. next' >= next
    BY <2>1 DEF QueueTypes
  <2>4. StreamInv'
    BY <2>1, <2>2, <2>3, StreamKept
  <2> QED
    BY <2>1, <2>4 DEF QueueTypes
<1>3. CASE Take
  BY <1>3, TakeKeeps
<1>4. CASE Restart
  BY <1>4, RestartKeeps
<1>5. CASE UNCHANGED queueVars
  BY <1>5 DEF queueVars, QueueTypes, StreamInv, Total, Nth, Follows
<1> QED
  BY <1>1, <1>2, <1>3, <1>4, <1>5 DEF QueueNext

\* The consumer takes the stream in order, and without a gap within an epoch.
THEOREM TakenInOrder == QueueSpec => []GivenInOrder
<1>1. QueueInit => QueueTypes /\ StreamInv
  BY DEF QueueInit, QueueTypes, StreamInv, Total, Nth
<1>2. QueueTypes /\ StreamInv => GivenInOrder
  <2> SUFFICES ASSUME QueueTypes, StreamInv, NEW i \in 1 .. (Len(given) - 1)
               PROVE  Follows(given[i], given[i + 1])
    BY DEF GivenInOrder
  <2>1. i \in 1 .. (Total - 1) /\ i <= Len(given) /\ i + 1 <= Len(given)
    BY StreamTypes DEF Total
  <2>2. Nth(i) = given[i] /\ Nth(i + 1) = given[i + 1]
    BY <2>1 DEF Nth
  <2> QED
    BY <2>1, <2>2 DEF StreamInv
<1> QED
  BY QueueStep, <1>1, <1>2, PTL DEF QueueSpec

(***************************************************************************)
(* The session.                                                            *)
(***************************************************************************)

EchoStates == {"HostEcho", "RxLengthEcho", "RxByteEcho"}
HostStates == {"HostEcho", "HostAck"}
RxEchoes == {"RxLengthEcho", "RxByteEcho"}

-----------------------------------------------------------------------------
(* The byte engine, one call at a time. *)

LEMMA EngineFields ==
  ASSUME NEW e \in K!Engine
  PROVE  /\ e.state \in K!EngineStates /\ e.fault \in K!Faults /\ e.frame \in Seq(K!Byte)
         /\ e.expectedSize \in Nat /\ e.expectedEcho \in K!Byte /\ e.expectedAck \in K!Byte
         /\ e.requiresAck \in BOOLEAN /\ e.txCompletion \in BOOLEAN
         /\ e.echoSeen \in BOOLEAN /\ e.ackSeen \in BOOLEAN
         /\ e.deferred \in K!Requests /\ e.txRequest \in K!Requests
BY DEF K!Engine

LEMMA RequestFields ==
  /\ K!NoRequest \in K!Requests /\ ~K!NoRequest.pending
  /\ \A b \in K!Byte : K!Request(b) \in K!Requests /\ K!Request(b).pending /\ K!Request(b).byte = b
  /\ \A r \in K!Requests : r.pending \in BOOLEAN /\ r.byte \in K!Byte
BY DEF K!NoRequest, K!Request, K!Requests, K!Byte

LEMMA ComplementIs ==
  ASSUME NEW b \in K!Byte
  PROVE  /\ K!Complement(b) \in K!Byte /\ K!Complement(b) = 255 - b
         /\ K!Request(K!Complement(b)) \in K!Requests
BY DEF K!Complement, K!Byte, K!Request, K!Requests

LEMMA ResetIs ==
  ASSUME NEW e \in K!Engine, NEW d, d = K!ResetEngine(e)
  PROVE  /\ d \in K!Engine
         /\ d.state = "RxLength" /\ d.fault = "None" /\ d.frame = <<>> /\ d.expectedSize = 0
         /\ d.txRequest = K!NoRequest /\ d.deferred = K!NoRequest
         /\ ~d.txCompletion /\ ~d.echoSeen /\ ~d.ackSeen
<1>1. d \in K!Engine
  <2>1. K!ResetEngine(e) \in K!Engine
    BY RequestFields, EmptySeq DEF K!ResetEngine, K!Engine, K!EngineStates, K!Faults
  <2> QED
    BY <2>1
<1>2. /\ TRUE
         /\ d.state = "RxLength" /\ d.fault = "None" /\ d.frame = <<>> /\ d.expectedSize = 0
         /\ d.txRequest = K!NoRequest /\ d.deferred = K!NoRequest
         /\ ~d.txCompletion /\ ~d.echoSeen /\ ~d.ackSeen
  BY DEF K!ResetEngine, K!Engine
<1> QED
  BY <1>1, <1>2

LEMMA BeginIs ==
  ASSUME NEW e \in K!Engine, NEW b \in K!Byte, NEW r \in BOOLEAN, NEW d, d = K!BeginHostByte(e, b, r)
  PROVE  /\ d \in K!Engine
         /\ d.state = "HostEcho" /\ d.fault = e.fault /\ d.frame = e.frame
         /\ d.expectedSize = e.expectedSize /\ d.expectedEcho = b
         /\ d.expectedAck = K!Complement(b) /\ d.requiresAck = r
         /\ d.txRequest = K!Request(b) /\ d.deferred = e.deferred
         /\ ~d.txCompletion /\ ~d.echoSeen /\ ~d.ackSeen
<1>0. K!Complement(b) \in K!Byte /\ K!Request(b) \in K!Requests
  BY RequestFields, ComplementIs
<1>1. d \in K!Engine
  <2>1. K!BeginHostByte(e, b, r) \in K!Engine
    BY <1>0 DEF K!BeginHostByte, K!Engine, K!EngineStates
  <2> QED
    BY <2>1
<1>2. /\ TRUE
         /\ d.state = "HostEcho" /\ d.fault = e.fault /\ d.frame = e.frame
         /\ d.expectedSize = e.expectedSize /\ d.expectedEcho = b
         /\ d.expectedAck = K!Complement(b) /\ d.requiresAck = r
         /\ d.txRequest = K!Request(b) /\ d.deferred = e.deferred
         /\ ~d.txCompletion /\ ~d.echoSeen /\ ~d.ackSeen
  BY DEF K!BeginHostByte, K!Engine
<1> QED
  BY <1>1, <1>2

LEMMA TakeIs ==
  ASSUME NEW e \in K!Engine, NEW d, d = K!TakeTxRequest(e)
  PROVE  /\ d \in K!Engine
         /\ d = [e EXCEPT !.txRequest = K!NoRequest]
         /\ d.txRequest = K!NoRequest
<1>1. d \in K!Engine
  <2>1. K!TakeTxRequest(e) \in K!Engine
    BY RequestFields DEF K!TakeTxRequest, K!Engine
  <2> QED
    BY <2>1
<1>2. /\ TRUE
         /\ d = [e EXCEPT !.txRequest = K!NoRequest]
         /\ d.txRequest = K!NoRequest
  BY DEF K!TakeTxRequest, K!Engine
<1> QED
  BY <1>1, <1>2

LEMMA FailIs ==
  ASSUME NEW e \in K!Engine, NEW fault \in K!Faults, NEW d, d = K!Fail(e, fault)
  PROVE  /\ d \in K!Engine
         /\ d.state = "Fault" /\ d.fault = fault /\ d.frame = e.frame
         /\ d.expectedSize = e.expectedSize /\ d.txRequest = K!NoRequest
<1>1. d \in K!Engine
  <2>1. K!Fail(e, fault) \in K!Engine
    BY RequestFields DEF K!Fail, K!Engine, K!EngineStates
  <2> QED
    BY <2>1
<1>2. /\ TRUE
         /\ d.state = "Fault" /\ d.fault = fault /\ d.frame = e.frame
         /\ d.expectedSize = e.expectedSize /\ d.txRequest = K!NoRequest
  BY DEF K!Fail, K!Engine
<1> QED
  BY <1>1, <1>2

LEMMA AckIs ==
  ASSUME NEW e \in K!Engine, NEW b \in K!Byte, NEW state \in RxEchoes, NEW d, d = K!IssueInverseAck(e, b, state)
  PROVE  /\ d \in K!Engine
         /\ d.state = state /\ d.fault = e.fault /\ d.frame = e.frame
         /\ d.expectedSize = e.expectedSize /\ d.expectedEcho = K!Complement(b)
         /\ d.txRequest = K!Request(K!Complement(b)) /\ d.deferred = e.deferred
         /\ ~d.txCompletion /\ ~d.echoSeen /\ ~d.ackSeen
<1>1. d \in K!Engine
  <2>1. K!IssueInverseAck(e, b, state) \in K!Engine
    <3>1. K!Complement(b) \in K!Byte /\ K!Request(K!Complement(b)) \in K!Requests
      BY ComplementIs
    <3>2. state \in K!EngineStates
      BY DEF K!EngineStates, RxEchoes
    <3> QED
      BY <3>1, <3>2 DEF K!IssueInverseAck, K!Engine
  <2> QED
    BY <2>1
<1>2. /\ TRUE
         /\ d.state = state /\ d.fault = e.fault /\ d.frame = e.frame
         /\ d.expectedSize = e.expectedSize /\ d.expectedEcho = K!Complement(b)
         /\ d.txRequest = K!Request(K!Complement(b)) /\ d.deferred = e.deferred
         /\ ~d.txCompletion /\ ~d.echoSeen /\ ~d.ackSeen
  BY DEF K!IssueInverseAck, K!Engine
<1> QED
  BY <1>1, <1>2

\* The engine took x as the next byte of a block and owes the unit its complement.
AckOwed(e, x, d) ==
  /\ d.state \in RxEchoes /\ d.fault = e.fault /\ d.frame = Append(e.frame, x)
  /\ d.expectedEcho = K!Complement(x) /\ d.txRequest = K!Request(K!Complement(x))
  /\ d.deferred = e.deferred /\ ~d.txCompletion /\ ~d.echoSeen /\ ~d.ackSeen

LEMMA AcceptLengthIs ==
  ASSUME NEW e \in K!Engine, e.frame = <<>>, NEW b \in K!Byte, NEW d, d = K!AcceptLength(e, b)
  PROVE  /\ d \in K!Engine
         /\ \/ /\ b \notin 3 .. 64 /\ d.state = "Fault" /\ d.fault # "None"
               /\ d.frame = <<>> /\ d.expectedSize = e.expectedSize
            \/ b \in 3 .. 64 /\ AckOwed(e, b, d) /\ d.expectedSize = b + 1
<1>1. CASE b < 3 \/ b > 64
  <2>1. d = K!Fail(e, "InvalidLength") /\ "InvalidLength" \in K!Faults /\ "InvalidLength" # "None"
    BY <1>1 DEF K!AcceptLength, K!MaxFrame, K!Faults
  <2>2. b \notin 3 .. 64
    BY <1>1 DEF K!Byte
  <2>3. d \in K!Engine /\ d.state = "Fault" /\ d.fault # "None"
    BY <2>1, FailIs
  <2>4. d.frame = e.frame /\ d.expectedSize = e.expectedSize
    BY <2>1, FailIs
  <2> QED
    BY <2>2, <2>3, <2>4
<1>2. CASE ~(b < 3 \/ b > 64)
  <2> DEFINE c == [e EXCEPT !.frame = <<b>>, !.expectedSize = b + 1]
  <2>1. c \in K!Engine
    <3>1. <<b>> \in Seq(K!Byte) /\ b + 1 \in Nat
      BY DEF K!Byte
    <3> QED
      BY <3>1 DEF K!Engine
  <2>2. /\ c.frame = <<b>> /\ c.expectedSize = b + 1 /\ c.fault = e.fault
        /\ c.deferred = e.deferred
    BY DEF K!Engine
  <2>3. d = K!IssueInverseAck(c, b, "RxLengthEcho") /\ "RxLengthEcho" \in RxEchoes
    BY <1>2 DEF K!AcceptLength, K!MaxFrame, RxEchoes
  <2>4. <<b>> = Append(e.frame, b)
    OBVIOUS
  <2>5. b \in 3 .. 64
    BY <1>2 DEF K!Byte
  <2> HIDE DEF c
  <2>6. d \in K!Engine
    BY <2>1, <2>3, AckIs
  <2>7. /\ d.state \in RxEchoes /\ d.fault = c.fault /\ d.frame = c.frame
        /\ d.expectedSize = c.expectedSize /\ d.expectedEcho = K!Complement(b)
        /\ d.txRequest = K!Request(K!Complement(b)) /\ d.deferred = c.deferred
        /\ ~d.txCompletion /\ ~d.echoSeen /\ ~d.ackSeen
    BY <2>1, <2>3, AckIs
  <2>8. AckOwed(e, b, d) /\ d.expectedSize = b + 1
    BY <2>2, <2>4, <2>7 DEF AckOwed
  <2> QED
    BY <2>5, <2>6, <2>8
<1> QED
  BY <1>1, <1>2

LEMMA AcceptByteIs ==
  ASSUME NEW e \in K!Engine, Len(e.frame) < e.expectedSize, NEW b \in K!Byte,
         NEW d, d = K!AcceptByte(e, b)
  PROVE  /\ d \in K!Engine /\ d.expectedSize = e.expectedSize /\ d.frame = Append(e.frame, b)
         /\ \/ Len(e.frame) + 1 < e.expectedSize /\ AckOwed(e, b, d)
            \/ /\ Len(e.frame) + 1 = e.expectedSize /\ b = 3
               /\ d.state = "Idle" /\ d.fault = e.fault /\ d.txRequest = e.txRequest
            \/ /\ Len(e.frame) + 1 = e.expectedSize /\ b # 3
               /\ d.state = "Fault" /\ d.fault # "None"
<1> DEFINE filled == [e EXCEPT !.frame = Append(@, b)]
<1>1. e.frame \in Seq(K!Byte) /\ e.expectedSize \in Nat
  BY EngineFields
<1>2. Append(e.frame, b) \in Seq(K!Byte)
  BY <1>1, AppendProperties
<1>3. filled \in K!Engine
  BY <1>2 DEF K!Engine
<1>4. /\ filled.frame = Append(e.frame, b) /\ filled.expectedSize = e.expectedSize
      /\ filled.fault = e.fault /\ filled.deferred = e.deferred /\ filled.txRequest = e.txRequest
  BY DEF K!Engine
<1>5. PICK n \in Nat, m \in Nat : n = Len(e.frame) /\ m = e.expectedSize /\ n < m
  BY <1>1
<1>6. ~(n >= m)
  BY <1>5
<1>7. CASE n + 1 < m
  <2>1. d = K!IssueInverseAck(filled, b, "RxByteEcho") /\ "RxByteEcho" \in RxEchoes
    BY <1>5, <1>6, <1>7 DEF K!AcceptByte, RxEchoes
  <2> HIDE DEF filled
  <2> QED
    BY <1>3, <1>4, <1>5, <1>7, <2>1, AckIs DEF AckOwed
<1>8. CASE ~(n + 1 < m)
  <2>1. n + 1 = m
    BY <1>5, <1>8
  <2>2. d = IF b = 3 THEN [filled EXCEPT !.state = "Idle"] ELSE K!Fail(filled, "UnexpectedByte")
    BY <1>5, <1>6, <1>8 DEF K!AcceptByte, K!Terminator
  <2>3. CASE b = 3
    <3>1. d = [filled EXCEPT !.state = "Idle"]
      BY <2>2, <2>3
    <3> HIDE DEF filled
    <3>2. [filled EXCEPT !.state = "Idle"] \in K!Engine
      BY <1>3 DEF K!Engine, K!EngineStates
    <3>3. /\ d.state = "Idle" /\ d.fault = filled.fault /\ d.txRequest = filled.txRequest
          /\ d.expectedSize = filled.expectedSize /\ d.frame = filled.frame
      BY <1>3, <3>1 DEF K!Engine
    <3>4. d \in K!Engine
      BY <3>1, <3>2
    <3> QED
      BY <1>4, <1>5, <2>1, <2>3, <3>3, <3>4
  <2>4. CASE b # 3
    <3>1. d = K!Fail(filled, "UnexpectedByte") /\ "UnexpectedByte" \in K!Faults /\ "UnexpectedByte" # "None"
      BY <2>2, <2>4 DEF K!Faults
    <3> HIDE DEF filled
    <3> QED
      BY <1>3, <1>4, <1>5, <2>1, <2>4, <3>1, FailIs
  <2> QED
    BY <2>3, <2>4
<1> QED
  BY <1>7, <1>8

\* The completion of a byte whose echo has not been heard.
LEMMA CompletionIs ==
  ASSUME NEW e \in K!Engine, e.state \in EchoStates, ~e.echoSeen, NEW d, NEW success \in BOOLEAN,
         d = K!OnCompletion(e, success)
  PROVE  /\ d \in K!Engine
         /\ success => d = [e EXCEPT !.txCompletion = TRUE]
         /\ ~success => /\ d.state = "Fault" /\ d.fault # "None" /\ d.frame = e.frame
                        /\ d.expectedSize = e.expectedSize
<1>1. CASE success
  <2> DEFINE c == [e EXCEPT !.txCompletion = TRUE]
  <2>1. c \in K!Engine /\ c.echoSeen = e.echoSeen
    BY DEF K!Engine
  <2>2. d = K!FinishIfReady(c)
    BY <1>1 DEF K!OnCompletion, EchoStates
  <2> HIDE DEF c
  <2>3. d = c
    BY <2>1, <2>2 DEF K!FinishIfReady
  <2> QED
    BY <1>1, <2>1, <2>3 DEF c
<1>2. CASE ~success
  <2> DEFINE c == [e EXCEPT !.txCompletion = FALSE]
  <2>1. c \in K!Engine /\ c.frame = e.frame /\ c.expectedSize = e.expectedSize
    BY DEF K!Engine
  <2>2. d = K!Fail(c, "UnexpectedByte") /\ "UnexpectedByte" \in K!Faults /\ "UnexpectedByte" # "None"
    BY <1>2 DEF K!OnCompletion, EchoStates, K!Faults
  <2> HIDE DEF c
  <2> QED
    BY <1>2, <2>1, <2>2, FailIs
<1> QED
  BY <1>1, <1>2

\* A byte nobody waits for is kept, once.
LEMMA UnexpectedIs ==
  ASSUME NEW e \in K!Engine, NEW b \in K!Byte, NEW d, d = K!OnRxByte(e, b),
         \/ e.state \in EchoStates /\ b # e.expectedEcho
         \/ e.state = "HostAck" /\ b # e.expectedAck
  PROVE  /\ d \in K!Engine
         /\ e.deferred.pending => /\ d.state = "Fault" /\ d.fault # "None" /\ d.frame = e.frame
                                  /\ d.expectedSize = e.expectedSize
         /\ ~e.deferred.pending => d = [e EXCEPT !.deferred = K!Request(b)]
<1>1. d = K!DeferRxAfterEcho(e, b)
  BY DEF K!OnRxByte, EchoStates
<1>2. CASE e.deferred.pending
  <2>1. d = K!Fail(e, "UnexpectedByte") /\ "UnexpectedByte" \in K!Faults /\ "UnexpectedByte" # "None"
    BY <1>1, <1>2 DEF K!DeferRxAfterEcho, K!Faults
  <2> QED
    BY <1>2, <2>1, FailIs
<1>3. CASE ~e.deferred.pending
  <2>1. d = [e EXCEPT !.deferred = K!Request(b)]
    BY <1>1, <1>3 DEF K!DeferRxAfterEcho
  <2>2. [e EXCEPT !.deferred = K!Request(b)] \in K!Engine
    BY RequestFields DEF K!Engine
  <2> QED
    BY <1>3, <2>1, <2>2
<1> QED
  BY <1>2, <1>3

\* What FinishIfReady makes of an engine that has paired echo and completion.
LEMMA NotFinished ==
  ASSUME NEW e, e.state = "HostAck", ~e.ackSeen
  PROVE  K!FinishIfReady(e) = e
BY DEF K!FinishIfReady

LEMMA FinishedIs ==
  ASSUME NEW e \in K!Engine, e.txCompletion, e.echoSeen, NEW target \in K!EngineStates,
         \/ e.state = "HostEcho" /\ ~e.requiresAck /\ target = IF e.deferred.pending THEN "RxLength" ELSE "Idle"
         \/ e.state = "HostAck" /\ e.ackSeen /\ target = IF e.deferred.pending THEN "RxLength" ELSE "Idle"
         \/ e.state \in RxEchoes /\ target = "RxByte"
  PROVE  /\ [e EXCEPT !.state = target] \in K!Engine
         /\ K!FinishIfReady(e) = K!ProcessPending([e EXCEPT !.state = target])
<1>1. [e EXCEPT !.state = target] \in K!Engine
  BY DEF K!Engine
<1> DEFINE after == IF e.deferred.pending THEN "RxLength" ELSE "Idle"
           then == CASE e.state = "HostEcho" /\ ~e.requiresAck -> after
                     [] e.state = "HostAck" /\ e.ackSeen -> after
                     [] e.state \in {"RxLengthEcho", "RxByteEcho"} -> "RxByte"
                     [] OTHER -> e.state
<1>2. K!FinishIfReady(e) = IF e.txCompletion /\ e.echoSeen /\ then # e.state
                           THEN K!ProcessPending([e EXCEPT !.state = then]) ELSE e
  BY DEF K!FinishIfReady
<1>3. then = target
  <2>1. CASE e.state = "HostEcho"
    BY <2>1 DEF RxEchoes
  <2>2. CASE e.state = "HostAck"
    BY <2>2 DEF RxEchoes
  <2>3. CASE e.state \in RxEchoes
    BY <2>3 DEF RxEchoes
  <2> QED
    BY <2>1, <2>2, <2>3
<1>4. target # e.state
  BY DEF RxEchoes
<1> HIDE DEF then
<1> QED
  BY <1>1, <1>2, <1>3, <1>4

\* The byte that came too early is taken once a byte is due.
LEMMA PendingIs ==
  ASSUME NEW e \in K!Engine, NEW d, d = K!ProcessPending(e)
  PROVE  /\ ~e.deferred.pending => d = e
         /\ e.deferred.pending /\ e.state \in {"RxLength", "RxByte"} =>
              \E c \in K!Engine :
                /\ c.frame = e.frame /\ c.expectedSize = e.expectedSize /\ c.fault = e.fault
                /\ ~c.deferred.pending /\ c.txRequest = e.txRequest
                /\ e.state = "RxLength" => d = K!AcceptLength(c, e.deferred.byte)
                /\ e.state = "RxByte" => d = K!AcceptByte(c, e.deferred.byte)
<1>1. ASSUME ~e.deferred.pending
      PROVE  d = e
  BY <1>1 DEF K!ProcessPending
<1>2. ASSUME e.deferred.pending, e.state \in {"RxLength", "RxByte"}
      PROVE  \E c \in K!Engine :
                /\ c.frame = e.frame /\ c.expectedSize = e.expectedSize /\ c.fault = e.fault
                /\ ~c.deferred.pending /\ c.txRequest = e.txRequest
                /\ e.state = "RxLength" => d = K!AcceptLength(c, e.deferred.byte)
                /\ e.state = "RxByte" => d = K!AcceptByte(c, e.deferred.byte)
  <2> DEFINE c == [e EXCEPT !.deferred = K!NoRequest]
  <2>1. c \in K!Engine
    BY RequestFields DEF K!Engine
  <2>2. /\ c.frame = e.frame /\ c.expectedSize = e.expectedSize /\ c.fault = e.fault
        /\ c.deferred = K!NoRequest /\ c.txRequest = e.txRequest
    BY DEF K!Engine
  <2>3. /\ e.state = "RxLength" => d = K!AcceptLength(c, e.deferred.byte)
        /\ e.state = "RxByte" => d = K!AcceptByte(c, e.deferred.byte)
    BY <1>2 DEF K!ProcessPending
  <2> HIDE DEF c
  <2> QED
    BY <2>1, <2>2, <2>3, RequestFields
<1> QED
  BY <1>1, <1>2

\* The echo of a host byte that the unit will answer.
LEMMA EchoBeforeAck ==
  ASSUME NEW e \in K!Engine, e.state = "HostEcho", e.requiresAck, ~e.ackSeen,
         NEW d, d = K!OnRxByte(e, e.expectedEcho)
  PROVE  /\ d \in K!Engine /\ d = [e EXCEPT !.echoSeen = TRUE, !.state = "HostAck"]
<1> DEFINE c == [e EXCEPT !.echoSeen = TRUE, !.state = "HostAck"]
<1>1. d = K!FinishIfReady(c)
  BY DEF K!OnRxByte, K!Engine
<1>2. c \in K!Engine /\ c.state = "HostAck" /\ c.ackSeen = e.ackSeen
  BY DEF K!Engine, K!EngineStates
<1> HIDE DEF c
<1>3. d = c
  BY <1>1, <1>2, NotFinished
<1> QED
  BY <1>2, <1>3 DEF c

\* The byte x that came too early is taken for the length of the unit's block.
FirstByte(e, x, d) ==
  \/ /\ x \notin 3 .. 64 /\ d.state = "Fault" /\ d.fault # "None"
     /\ d.frame = <<>> /\ d.expectedSize = e.expectedSize
  \/ /\ x \in 3 .. 64 /\ d.state \in RxEchoes /\ d.fault = e.fault
     /\ d.frame = <<x>> /\ d.expectedSize = x + 1
     /\ d.expectedEcho = K!Complement(x) /\ d.txRequest = K!Request(K!Complement(x))
     /\ ~d.deferred.pending /\ ~d.txCompletion /\ ~d.echoSeen /\ ~d.ackSeen

\* The echo of the last byte of a host block; the unit's first may be there.
LEMMA LastEchoIs ==
  ASSUME NEW e \in K!Engine, e.state = "HostEcho", ~e.requiresAck, e.txCompletion, e.frame = <<>>,
         NEW d, d = K!OnRxByte(e, e.expectedEcho)
  PROVE  /\ d \in K!Engine
         /\ ~e.deferred.pending =>
              d.state = "Idle" /\ d.fault = e.fault /\ d.frame = <<>> /\ d.txRequest = e.txRequest
         /\ e.deferred.pending => FirstByte(e, e.deferred.byte, d)
<1> DEFINE c == [e EXCEPT !.echoSeen = TRUE]
<1>1. d = K!FinishIfReady(c)
  <2>1. [e EXCEPT !.echoSeen = TRUE, !.state = IF @ = "HostEcho" /\ e.requiresAck THEN "HostAck" ELSE @] = c
    BY DEF K!Engine
  <2> QED
    BY <2>1 DEF K!OnRxByte
<1>2. /\ c \in K!Engine /\ c.state = e.state /\ c.requiresAck = e.requiresAck /\ c.txCompletion = e.txCompletion
      /\ c.echoSeen /\ c.deferred = e.deferred /\ c.fault = e.fault /\ c.frame = e.frame
      /\ c.txRequest = e.txRequest /\ c.expectedSize = e.expectedSize
  BY DEF K!Engine
<1> HIDE DEF c
<1> DEFINE state == IF e.deferred.pending THEN "RxLength" ELSE "Idle"
           g == [c EXCEPT !.state = state]
<1>3. state \in K!EngineStates
  BY DEF K!EngineStates
<1>4. g \in K!Engine /\ d = K!ProcessPending(g)
  <2> HIDE DEF state
  <2>1. state = IF c.deferred.pending THEN "RxLength" ELSE "Idle"
    BY <1>2 DEF state
  <2> QED
    BY <1>1, <1>2, <1>3, <2>1, FinishedIs
<1>5. /\ g.state = state /\ g.deferred = e.deferred /\ g.fault = e.fault /\ g.frame = <<>>
      /\ g.txRequest = e.txRequest /\ g.expectedSize = e.expectedSize
  BY <1>2 DEF K!Engine
<1> HIDE DEF g
<1>6. CASE ~e.deferred.pending
  <2>1. d = g
    BY <1>4, <1>5, <1>6, PendingIs
  <2> QED
    BY <1>4, <1>5, <1>6, <2>1
<1>7. CASE e.deferred.pending
  <2>1. g.state = "RxLength"
    BY <1>5, <1>7
  <2>2. PICK h \in K!Engine :
          /\ h.frame = <<>> /\ h.expectedSize = e.expectedSize /\ h.fault = e.fault
          /\ ~h.deferred.pending /\ d = K!AcceptLength(h, e.deferred.byte)
    BY <1>4, <1>5, <1>7, <2>1, PendingIs
  <2>3. PICK b \in K!Byte : b = e.deferred.byte
    BY EngineFields, RequestFields
  <2>4. /\ d \in K!Engine
        /\ \/ /\ b \notin 3 .. 64 /\ d.state = "Fault" /\ d.fault # "None"
               /\ d.frame = <<>> /\ d.expectedSize = h.expectedSize
           \/ b \in 3 .. 64 /\ AckOwed(h, b, d) /\ d.expectedSize = b + 1
    <3>1. h.frame = <<>> /\ d = K!AcceptLength(h, b)
      BY <2>2, <2>3
    <3> QED
      BY <3>1, AcceptLengthIs
  <2>5. Append(<<>>, b) = <<b>>
    OBVIOUS
  <2>6. FirstByte(e, b, d)
    BY <2>2, <2>4, <2>5 DEF AckOwed, FirstByte
  <2> QED
    BY <1>7, <2>3, <2>4, <2>6
<1> QED
  BY <1>6, <1>7

\* The byte x is taken for the next of the unit's block.
NextByte(e, x, d) ==
  /\ d.frame = Append(e.frame, x) /\ d.expectedSize = e.expectedSize
  /\ \/ /\ Len(e.frame) + 1 < e.expectedSize /\ d.state \in RxEchoes /\ d.fault = e.fault
        /\ d.expectedEcho = K!Complement(x) /\ d.txRequest = K!Request(K!Complement(x))
        /\ ~d.deferred.pending /\ ~d.txCompletion /\ ~d.echoSeen /\ ~d.ackSeen
     \/ /\ Len(e.frame) + 1 = e.expectedSize /\ x = 3
        /\ d.state = "Idle" /\ d.fault = e.fault /\ d.txRequest = e.txRequest
     \/ /\ Len(e.frame) + 1 = e.expectedSize /\ x # 3
        /\ d.state = "Fault" /\ d.fault # "None"

\* The echo of an answered byte of the unit's block.
LEMMA OwnEchoIs ==
  ASSUME NEW e \in K!Engine, e.state \in RxEchoes, e.txCompletion, Len(e.frame) < e.expectedSize,
         NEW d, d = K!OnRxByte(e, e.expectedEcho)
  PROVE  /\ d \in K!Engine /\ d.expectedSize = e.expectedSize
         /\ ~e.deferred.pending =>
              /\ d.state = "RxByte" /\ d.fault = e.fault /\ d.frame = e.frame
              /\ d.txRequest = e.txRequest /\ ~d.deferred.pending
         /\ e.deferred.pending => NextByte(e, e.deferred.byte, d)
<1> DEFINE c == [e EXCEPT !.echoSeen = TRUE]
<1>0. e.state \in {"RxLengthEcho", "RxByteEcho"}
  BY DEF RxEchoes
<1>1. d = K!FinishIfReady(c)
  <2>1. [e EXCEPT !.echoSeen = TRUE, !.state = IF @ = "HostEcho" /\ e.requiresAck THEN "HostAck" ELSE @] = c
    BY <1>0 DEF K!Engine
  <2> QED
    BY <1>0, <2>1 DEF K!OnRxByte
<1>2. /\ c \in K!Engine /\ c.state = e.state /\ c.txCompletion = e.txCompletion
      /\ c.echoSeen /\ c.deferred = e.deferred /\ c.fault = e.fault /\ c.frame = e.frame
      /\ c.txRequest = e.txRequest /\ c.expectedSize = e.expectedSize
  BY DEF K!Engine
<1> HIDE DEF c
<1> DEFINE g == [c EXCEPT !.state = "RxByte"]
<1>3. "RxByte" \in K!EngineStates
  BY DEF K!EngineStates
<1>4. g \in K!Engine /\ d = K!ProcessPending(g)
  BY <1>1, <1>2, <1>3, FinishedIs
<1>5. /\ g.state = "RxByte" /\ g.deferred = e.deferred /\ g.fault = e.fault /\ g.frame = e.frame
      /\ g.txRequest = e.txRequest /\ g.expectedSize = e.expectedSize
  BY <1>2 DEF K!Engine
<1> HIDE DEF g
<1>6. CASE ~e.deferred.pending
  <2>1. d = g
    BY <1>4, <1>5, <1>6, PendingIs
  <2> QED
    BY <1>4, <1>5, <1>6, <2>1
<1>7. CASE e.deferred.pending
  <2>2. PICK h \in K!Engine :
          /\ h.frame = e.frame /\ h.expectedSize = e.expectedSize /\ h.fault = e.fault
          /\ ~h.deferred.pending /\ h.txRequest = e.txRequest /\ d = K!AcceptByte(h, e.deferred.byte)
    BY <1>4, <1>5, <1>7, PendingIs
  <2>3. PICK b \in K!Byte : b = e.deferred.byte
    BY EngineFields, RequestFields
  <2>4. /\ d \in K!Engine /\ d.expectedSize = h.expectedSize /\ d.frame = Append(h.frame, b)
        /\ \/ Len(h.frame) + 1 < h.expectedSize /\ AckOwed(h, b, d)
           \/ /\ Len(h.frame) + 1 = h.expectedSize /\ b = 3
              /\ d.state = "Idle" /\ d.fault = h.fault /\ d.txRequest = h.txRequest
           \/ /\ Len(h.frame) + 1 = h.expectedSize /\ b # 3
              /\ d.state = "Fault" /\ d.fault # "None"
    BY <2>2, <2>3, AcceptByteIs
  <2>5. NextByte(e, b, d)
    BY <2>2, <2>4 DEF AckOwed, NextByte
  <2> QED
    BY <1>7, <2>2, <2>3, <2>4, <2>5
<1> QED
  BY <1>6, <1>7

\* The unit's answer to a host byte.
LEMMA UnitAckIs ==
  ASSUME NEW e \in K!Engine, e.state = "HostAck", e.txCompletion, e.echoSeen, ~e.deferred.pending,
         NEW d, d = K!OnRxByte(e, e.expectedAck)
  PROVE  /\ d \in K!Engine /\ d.state = "Idle" /\ d.fault = e.fault /\ d.frame = e.frame
         /\ d.expectedSize = e.expectedSize /\ d.txRequest = e.txRequest /\ d.deferred = e.deferred
<1> DEFINE c == [e EXCEPT !.ackSeen = TRUE]
<1>1. d = K!FinishIfReady(c)
  BY DEF K!OnRxByte
<1>2. /\ c \in K!Engine /\ c.state = "HostAck" /\ c.txCompletion /\ c.echoSeen /\ c.ackSeen
      /\ c.deferred = e.deferred /\ c.fault = e.fault /\ c.frame = e.frame
      /\ c.txRequest = e.txRequest /\ c.expectedSize = e.expectedSize
  BY DEF K!Engine
<1> HIDE DEF c
<1> DEFINE g == [c EXCEPT !.state = "Idle"]
<1>3. "Idle" \in K!EngineStates
  BY DEF K!EngineStates
<1>4. g \in K!Engine /\ d = K!ProcessPending(g)
  BY <1>1, <1>2, <1>3, FinishedIs
<1>5. /\ g.state = "Idle" /\ g.deferred = e.deferred /\ g.fault = e.fault /\ g.frame = e.frame
      /\ g.txRequest = e.txRequest /\ g.expectedSize = e.expectedSize
  BY <1>2 DEF K!Engine
<1> HIDE DEF g
<1>6. d = g
  BY <1>4, <1>5, PendingIs
<1> QED
  BY <1>4, <1>5, <1>6

\* A byte of the unit's block that is waited for.
LEMMA DueByteIs ==
  ASSUME NEW e \in K!Engine, NEW b \in K!Byte, NEW d, d = K!OnRxByte(e, b)
  PROVE  /\ e.state = "RxLength" => d = K!AcceptLength(e, b)
         /\ e.state = "RxByte" => d = K!AcceptByte(e, b)
BY DEF K!OnRxByte

-----------------------------------------------------------------------------
(* The session between two calls. *)

\* A block of either side: its length, at least four bytes, and the block end.
IsBlock(f) == Len(f) \in 4 .. 65 /\ f[1] = Len(f) - 1 /\ f[Len(f)] = 3

\* The host byte under way.
Sent(s) == s.txIndex + 1
LastByte(s) == Sent(s) = Len(s.txFrame)
Busy(s) == s.queued \/ s.issued

\* The block being received ends where its first byte says.
EngineShape(e) ==
  /\ Len(e.frame) <= e.expectedSize /\ e.expectedSize <= 65
  /\ e.state \in RxEchoes \cup {"RxByte"} =>
       /\ 1 <= Len(e.frame) /\ Len(e.frame) < e.expectedSize
       /\ e.expectedSize \in 4 .. 65 /\ e.expectedSize = e.frame[1] + 1
  /\ e.state \in HostStates \cup {"RxLength"} => e.frame = <<>>
  /\ e.state \in RxEchoes => e.expectedEcho = K!Complement(e.frame[Len(e.frame)])
  /\ e.state \in {"RxLength", "RxByte"} => ~e.deferred.pending

\* The host's block is sent byte by byte; the last is not answered.
HostShape(s) ==
  /\ IsBlock(s.txFrame) /\ Sent(s) <= Len(s.txFrame)
  /\ s.engine.expectedEcho = s.txFrame[Sent(s)]
  /\ s.engine.expectedAck = K!Complement(s.txFrame[Sent(s)])
  /\ s.engine.requiresAck <=> ~LastByte(s)
  /\ s.txActive <=> (Busy(s) \/ ~LastByte(s))
  /\ s.resetAfterFinalEcho <=> ~s.txActive
  /\ s.engine.state = "HostAck" => ~LastByte(s)

\* A session that runs waits for a byte.  The completion of an operation is taken before the bytes
\* that follow it, so an echo never comes first.
WaitShape(s) ==
  /\ s.engine.state \in EchoStates \cup {"HostAck", "RxLength", "RxByte"}
  /\ s.engine.fault = "None" /\ s.engine.txRequest = K!NoRequest
  /\ s.engine.state \in HostStates => HostShape(s)
  /\ s.engine.state \notin HostStates => ~s.txActive /\ ~s.resetAfterFinalEcho
  /\ Busy(s) => s.engine.state \in EchoStates /\ ~s.engine.deferred.pending
  /\ s.engine.state \in EchoStates \cup {"HostAck"} => (s.engine.txCompletion <=> ~Busy(s)) /\ ~s.engine.ackSeen
  /\ s.engine.state \in EchoStates => ~s.engine.echoSeen /\ s.engine.expectedEcho = s.actionByte
  /\ s.engine.state = "HostAck" => s.engine.echoSeen

Shape(s) ==
  /\ s \in Sessions /\ s.txIndex <= Len(s.txFrame)
  /\ s.txFrame = <<>> \/ IsBlock(s.txFrame)
  /\ EngineShape(s.engine)
  /\ ~(s.queued /\ s.issued) /\ ~s.plan.pending
  /\ s.state = "Running" => WaitShape(s)
  /\ s.state # "Running" => ~Busy(s)

\* The group of the plan is the one asked for by the block just built.
PlanShape(s) ==
  /\ s.plan.stage # "Fault"
  /\ s.plan.stage = "WaitingGroupZero" => s.plan.group = 0 /\ Len(s.txFrame) = 4
  /\ s.plan.stage \in {"WaitingGroupHeader", "WaitingGroupBody"} =>
       Len(s.txFrame) = 5 /\ s.txFrame[4] = s.plan.group

LEMMA SessionFields ==
  ASSUME NEW s \in Sessions
  PROVE  /\ s.state \in {"Running", "Fault"} /\ s.engine \in K!Engine /\ s.plan \in Plan
         /\ s.txFrame \in Seq(K!Byte) /\ s.txIndex \in Nat /\ s.txCounter \in 0 .. CounterModulus - 1
         /\ s.txActive \in BOOLEAN /\ s.queued \in BOOLEAN /\ s.issued \in BOOLEAN
         /\ s.actionByte \in K!Byte /\ s.resetAfterFinalEcho \in BOOLEAN
BY DEF Sessions

\* Only the engine and what is to be submitted differ.
SameBlock(s, d) ==
  /\ d.state = s.state /\ d.plan = s.plan /\ d.txFrame = s.txFrame /\ d.txIndex = s.txIndex
  /\ d.txCounter = s.txCounter /\ d.txActive = s.txActive
  /\ d.resetAfterFinalEcho = s.resetAfterFinalEcho

LEMMA QueueIs ==
  ASSUME NEW s \in Sessions, NEW e \in K!Engine, NEW d, d = QueueAction(s, e)
  PROVE  /\ d \in Sessions /\ SameBlock(s, d) /\ d.queued /\ d.issued = s.issued
         /\ d.actionByte = e.txRequest.byte
         /\ d.engine = [e EXCEPT !.txRequest = K!NoRequest]
<1>1. PICK f \in K!Engine : f = K!TakeTxRequest(e) /\ f = [e EXCEPT !.txRequest = K!NoRequest]
  BY TakeIs
<1>2. PICK b \in K!Byte : b = e.txRequest.byte
  BY EngineFields, RequestFields
<1>3. d = [s EXCEPT !.engine = f, !.queued = TRUE, !.actionByte = b]
  BY <1>1, <1>2 DEF QueueAction
<1>4. [s EXCEPT !.engine = f, !.queued = TRUE, !.actionByte = b] \in Sessions
  BY DEF Sessions
<1>5. /\ SameBlock(s, d) /\ d.queued /\ d.issued = s.issued
      /\ d.actionByte = b /\ d.engine = f
  BY <1>3 DEF Sessions, SameBlock
<1> QED
  BY <1>1, <1>2, <1>3, <1>4, <1>5

\* The host byte at txIndex is handed to the loop.
BeginsByte(s, d) ==
  /\ SameBlock(s, d) /\ d.queued /\ ~d.issued
  /\ d.actionByte = s.txFrame[Sent(s)]
  /\ d.engine.state = "HostEcho" /\ d.engine.fault = s.engine.fault /\ d.engine.frame = s.engine.frame
  /\ d.engine.expectedSize = s.engine.expectedSize /\ d.engine.expectedEcho = s.txFrame[Sent(s)]
  /\ d.engine.expectedAck = K!Complement(s.txFrame[Sent(s)])
  /\ d.engine.requiresAck <=> Sent(s) < Len(s.txFrame)
  /\ d.engine.txRequest = K!NoRequest /\ d.engine.deferred = s.engine.deferred
  /\ ~d.engine.txCompletion /\ ~d.engine.echoSeen /\ ~d.engine.ackSeen

LEMMA StartIs ==
  ASSUME NEW s \in Sessions, s.engine.state \in {"Idle", "RxLength"}, ~s.queued, ~s.issued,
         Sent(s) <= Len(s.txFrame), NEW d, d = StartCurrentHostByte(s)
  PROVE  d \in Sessions /\ BeginsByte(s, d)
<1>1. s.txFrame \in Seq(K!Byte) /\ s.txIndex \in Nat /\ s.engine \in K!Engine
  BY SessionFields
<1>2. PICK b \in K!Byte : b = s.txFrame[Sent(s)]
  <2>1. Sent(s) \in 1 .. Len(s.txFrame)
    BY <1>1 DEF Sent
  <2> QED
    BY <1>1, <2>1
<1>3. PICK r \in BOOLEAN : r = (s.txIndex + 1 < Len(s.txFrame))
  <2>1. PICK n \in Nat, m \in Nat : n = s.txIndex + 1 /\ m = Len(s.txFrame)
    BY <1>1
  <2>2. (n < m) \in BOOLEAN
    OBVIOUS
  <2> QED
    BY <2>1, <2>2
<1>4. PICK e \in K!Engine :
        /\ e = K!BeginHostByte(s.engine, b, r)
        /\ e.state = "HostEcho" /\ e.fault = s.engine.fault /\ e.frame = s.engine.frame
        /\ e.expectedSize = s.engine.expectedSize /\ e.expectedEcho = b
        /\ e.expectedAck = K!Complement(b) /\ e.requiresAck = r
        /\ e.txRequest = K!Request(b) /\ e.deferred = s.engine.deferred
        /\ ~e.txCompletion /\ ~e.echoSeen /\ ~e.ackSeen
  BY <1>1, BeginIs
<1>5. d = QueueAction(s, e)
  BY <1>2, <1>3, <1>4 DEF StartCurrentHostByte, K!CanBegin, Sent
<1>6. /\ d \in Sessions /\ SameBlock(s, d) /\ d.queued /\ d.issued = s.issued
      /\ d.actionByte = e.txRequest.byte
      /\ d.engine = [e EXCEPT !.txRequest = K!NoRequest]
  BY <1>5, QueueIs
<1>7. PICK f : f = d.engine
  OBVIOUS
<1>8. /\ f.state = e.state /\ f.fault = e.fault /\ f.frame = e.frame /\ f.expectedSize = e.expectedSize
      /\ f.expectedEcho = e.expectedEcho /\ f.expectedAck = e.expectedAck /\ f.requiresAck = e.requiresAck
      /\ f.txRequest = K!NoRequest /\ f.deferred = e.deferred
      /\ f.txCompletion = e.txCompletion /\ f.echoSeen = e.echoSeen /\ f.ackSeen = e.ackSeen
  BY <1>6, <1>7 DEF K!Engine
<1>9. e.txRequest.byte = b
  BY <1>4, RequestFields
<1>10. d.engine.requiresAck <=> Sent(s) < Len(s.txFrame)
  BY <1>3, <1>4, <1>7, <1>8 DEF Sent
<1> QED
  BY <1>2, <1>4, <1>6, <1>7, <1>8, <1>9, <1>10 DEF BeginsByte

\* The block under way, its counter, the plan and the byte given out stay.
SameTalk(s, d) ==
  /\ d.plan = s.plan /\ d.txFrame = s.txFrame /\ d.txIndex = s.txIndex
  /\ d.txCounter = s.txCounter /\ d.actionByte = s.actionByte

LEMMA AdvanceIs ==
  ASSUME NEW s \in Sessions, ~Busy(s), NEW d, d = AdvanceAfterTransportEvent(s)
  PROVE  /\ s.txActive /\ s.engine.state # "Idle" => d = s
         /\ ~s.txActive /\ ~s.engine.txRequest.pending => d = s
         /\ ~s.txActive /\ s.engine.txRequest.pending => d = QueueAction(s, s.engine)
         /\ s.txActive /\ s.engine.state = "Idle" /\ Sent(s) < Len(s.txFrame) =>
              d = StartCurrentHostByte([s EXCEPT !.txIndex = @ + 1])
<1>1. ~(s.queued \/ s.issued)
  BY DEF Busy
<1>2. ASSUME s.txActive, s.engine.state = "Idle", Sent(s) < Len(s.txFrame)
      PROVE  d = StartCurrentHostByte([s EXCEPT !.txIndex = @ + 1])
  <2> DEFINE c == [s EXCEPT !.txIndex = @ + 1]
  <2>1. c.txIndex = s.txIndex + 1 /\ c.txFrame = s.txFrame
    BY DEF Sessions
  <2>2. c.txIndex < Len(c.txFrame)
    BY <1>2, <2>1 DEF Sent
  <2> QED
    BY <1>1, <1>2, <2>2 DEF AdvanceAfterTransportEvent
<1>3. /\ s.txActive /\ s.engine.state # "Idle" => d = s
      /\ ~s.txActive /\ ~s.engine.txRequest.pending => d = s
      /\ ~s.txActive /\ s.engine.txRequest.pending => d = QueueAction(s, s.engine)
  BY <1>1 DEF AdvanceAfterTransportEvent
<1> QED
  BY <1>2, <1>3

\* popAction()
LEMMA PopIs ==
  ASSUME NEW s, Shape(s), s.queued, NEW d, d = PopAction(s)
  PROVE  Shape(d) /\ SameTalk(s, d) /\ d.engine = s.engine /\ d.state = "Running" /\ d.issued /\ ~d.queued
<1>1. s \in Sessions
  BY DEF Shape
<1>2. [s EXCEPT !.queued = FALSE, !.issued = TRUE] \in Sessions
  BY <1>1 DEF Sessions
<1>3. /\ d.engine = s.engine /\ d.state = s.state /\ d.issued /\ ~d.queued /\ SameTalk(s, d)
      /\ d.txActive = s.txActive /\ d.resetAfterFinalEcho = s.resetAfterFinalEcho
  BY <1>1 DEF PopAction, Sessions, SameTalk
<1>4. Busy(s) /\ Busy(d) /\ s.state = "Running"
  BY <1>1, <1>3 DEF Busy, Shape, Sessions
<1>5. HostShape(s) => HostShape(d)
  BY <1>3, <1>4 DEF HostShape, SameTalk, Sent, LastByte
<1>6. WaitShape(s) => WaitShape(d)
  BY <1>3, <1>4, <1>5 DEF WaitShape, SameTalk
<1>7. d \in Sessions
  BY <1>2 DEF PopAction
<1> QED
  BY <1>3, <1>4, <1>6, <1>7 DEF Shape, SameTalk

\* onCompletion() of a byte that was sent.
LEMMA CompletedIs ==
  ASSUME NEW s, Shape(s), s.issued, NEW d, d = SessionCompletion(s, TRUE)
  PROVE  /\ Shape(d) /\ SameTalk(s, d) /\ d.state = "Running" /\ ~Busy(d)
         /\ d.engine.state = s.engine.state /\ d.engine.frame = s.engine.frame
         /\ ~s.engine.deferred.pending /\ ~d.engine.deferred.pending
         /\ d.engine.expectedEcho = s.engine.expectedEcho
<1>1. /\ s \in Sessions /\ s.state = "Running" /\ Busy(s) /\ ~s.queued /\ WaitShape(s)
      /\ EngineShape(s.engine) /\ s.engine \in K!Engine
  BY DEF Shape, Busy, Sessions
<1>2. PICK e \in K!Engine : e = K!OnCompletion(s.engine, TRUE) /\ e = [s.engine EXCEPT !.txCompletion = TRUE]
  <2>1. s.engine.state \in EchoStates /\ ~s.engine.echoSeen
    BY <1>1 DEF WaitShape
  <2> QED
    BY <1>1, <2>1, CompletionIs
<1>3. /\ e.state = s.engine.state /\ e.fault = s.engine.fault /\ e.frame = s.engine.frame
      /\ e.expectedSize = s.engine.expectedSize /\ e.expectedEcho = s.engine.expectedEcho
      /\ e.expectedAck = s.engine.expectedAck /\ e.requiresAck = s.engine.requiresAck
      /\ e.txRequest = s.engine.txRequest /\ e.deferred = s.engine.deferred
      /\ e.txCompletion /\ e.echoSeen = s.engine.echoSeen /\ e.ackSeen = s.engine.ackSeen
  BY <1>1, <1>2 DEF K!Engine
<1>4. e.state \in EchoStates /\ e.state # "Idle" /\ ~e.txRequest.pending /\ e.fault = "None"
  BY <1>1, <1>3, RequestFields DEF WaitShape, EchoStates
<1> DEFINE final == s.txActive /\ s.txIndex + 1 >= Len(s.txFrame)
           after == IF final THEN [s EXCEPT !.issued = FALSE, !.engine = e, !.txActive = FALSE,
                                            !.resetAfterFinalEcho = TRUE]
                    ELSE [s EXCEPT !.issued = FALSE, !.engine = e]
<1>5. /\ after \in Sessions /\ SameTalk(s, after) /\ after.state = "Running" /\ ~Busy(after) /\ after.engine = e
      /\ after.txActive = (s.txActive /\ ~final)
      /\ after.resetAfterFinalEcho = (final \/ s.resetAfterFinalEcho)
  <2>1. CASE final
    BY <1>1, <2>1 DEF Sessions, SameTalk, Busy
  <2>2. CASE ~final
    BY <1>1, <2>2 DEF Sessions, SameTalk, Busy
  <2> QED
    BY <2>1, <2>2
<1>6. d = AdvanceAfterTransportEvent(after)
  <2>1. [[s EXCEPT !.issued = FALSE, !.engine = e] EXCEPT !.txActive = FALSE, !.resetAfterFinalEcho = TRUE]
        = [s EXCEPT !.issued = FALSE, !.engine = e, !.txActive = FALSE, !.resetAfterFinalEcho = TRUE]
    OBVIOUS
  <2>2. after.engine.fault = "None"
    BY <1>4, <1>5
  <2>3. CASE final
    BY <1>2, <1>4, <2>1, <2>2, <2>3 DEF SessionCompletion
  <2>4. CASE ~final
    BY <1>2, <1>4, <2>2, <2>4 DEF SessionCompletion
  <2> QED
    BY <2>3, <2>4
<1>7. d = after
  <2> HIDE DEF after, final
  <2> QED
    BY <1>4, <1>5, <1>6, AdvanceIs
<1>8. EngineShape(e)
  BY <1>1, <1>3 DEF EngineShape
<1>9. WaitShape(d)
  <2>1. s.engine.state \in HostStates => HostShape(d)
    <3> SUFFICES ASSUME s.engine.state \in HostStates
                 PROVE  HostShape(d)
      OBVIOUS
    <3>1. HostShape(s) /\ s.txActive
      BY <1>1 DEF WaitShape, HostShape
    <3>2. final <=> LastByte(s)
      BY <1>1, <3>1, SessionFields DEF HostShape, LastByte, Sent
    <3> HIDE DEF after, final
    <3> QED
      <4>1. /\ d.txFrame = s.txFrame /\ d.txIndex = s.txIndex /\ d.engine = e
            /\ ~Busy(d) /\ e.state # "HostAck"
        BY <1>4, <1>5, <1>7 DEF SameTalk, EchoStates
      <4>2. Sent(d) = Sent(s) /\ (LastByte(d) <=> LastByte(s))
        BY <1>1, <4>1 DEF Sent, LastByte, Busy
      <4>3. (d.txActive <=> ~LastByte(s)) /\ (d.resetAfterFinalEcho <=> LastByte(s))
        BY <1>5, <1>7, <3>1, <3>2 DEF HostShape
      <4> QED
        BY <1>3, <3>1, <4>1, <4>2, <4>3 DEF HostShape
  <2>2. s.engine.state \notin HostStates => ~s.txActive /\ ~s.resetAfterFinalEcho /\ ~final
    BY <1>1 DEF WaitShape
  <2> HIDE DEF after, final
  <2>3. s.engine.state \notin HostStates => ~d.txActive /\ ~d.resetAfterFinalEcho
    BY <1>5, <1>7, <2>2
  <2>4. s.engine.expectedEcho = s.actionByte /\ s.engine.txRequest = K!NoRequest /\ ~s.engine.echoSeen /\ ~s.engine.ackSeen
    BY <1>1, <1>3, <1>4 DEF WaitShape
  <2>5. /\ d.engine.state \in EchoStates \cup {"HostAck", "RxLength", "RxByte"}
        /\ d.engine.fault = "None" /\ d.engine.txRequest = K!NoRequest
        /\ d.engine.state \in EchoStates \cup {"HostAck"} => (d.engine.txCompletion <=> ~Busy(d)) /\ ~d.engine.ackSeen
        /\ d.engine.state \in EchoStates => ~d.engine.echoSeen /\ d.engine.expectedEcho = d.actionByte
        /\ d.engine.state # "HostAck"
    BY <1>3, <1>4, <1>5, <1>7, <2>4 DEF SameTalk, EchoStates
  <2> QED
    <3>1. ~Busy(d) /\ d.engine.state = s.engine.state
      BY <1>3, <1>5, <1>7
    <3> QED
      BY <2>1, <2>3, <2>5, <3>1 DEF WaitShape
<1> HIDE DEF after, final
<1>10. Shape(d)
  BY <1>5, <1>7, <1>8, <1>9 DEF Shape, SameTalk, Busy
<1>11. ~s.engine.deferred.pending
  BY <1>1 DEF WaitShape
<1> QED
  BY <1>3, <1>5, <1>7, <1>10, <1>11

\* onCompletion() of a byte that failed: the session is over.
LEMMA FailedIs ==
  ASSUME NEW s, Shape(s), s.issued, NEW d, d = SessionCompletion(s, FALSE)
  PROVE  /\ Shape(d) /\ SameTalk(s, d) /\ d.state = "Fault" /\ ~Busy(d)
         /\ d.engine.frame = s.engine.frame
<1>1. /\ s \in Sessions /\ s.state = "Running" /\ Busy(s) /\ ~s.queued /\ WaitShape(s)
      /\ EngineShape(s.engine) /\ s.engine \in K!Engine
  BY DEF Shape, Busy, Sessions
<1>2. PICK e \in K!Engine : /\ e = K!OnCompletion(s.engine, FALSE)
                            /\ e.state = "Fault" /\ e.fault # "None" /\ e.frame = s.engine.frame
                            /\ e.expectedSize = s.engine.expectedSize
  <2>1. s.engine.state \in EchoStates /\ ~s.engine.echoSeen
    BY <1>1 DEF WaitShape
  <2> QED
    BY <1>1, <2>1, CompletionIs
<1> DEFINE final == s.txActive /\ s.txIndex + 1 >= Len(s.txFrame)
           after == IF final THEN [s EXCEPT !.issued = FALSE, !.engine = e, !.txActive = FALSE,
                                            !.resetAfterFinalEcho = TRUE]
                    ELSE [s EXCEPT !.issued = FALSE, !.engine = e]
<1>5. /\ after \in Sessions /\ SameTalk(s, after) /\ ~Busy(after) /\ after.engine = e
  <2>1. CASE final
    BY <1>1, <2>1 DEF Sessions, SameTalk, Busy
  <2>2. CASE ~final
    BY <1>1, <2>2 DEF Sessions, SameTalk, Busy
  <2> QED
    BY <2>1, <2>2
<1>6. d = Faulted(after)
  <2>1. [[s EXCEPT !.issued = FALSE, !.engine = e] EXCEPT !.txActive = FALSE, !.resetAfterFinalEcho = TRUE]
        = [s EXCEPT !.issued = FALSE, !.engine = e, !.txActive = FALSE, !.resetAfterFinalEcho = TRUE]
    OBVIOUS
  <2>2. after.engine.fault # "None"
    BY <1>2, <1>5
  <2>3. CASE final
    BY <1>2, <2>1, <2>2, <2>3 DEF SessionCompletion
  <2>4. CASE ~final
    BY <1>2, <2>2, <2>4 DEF SessionCompletion
  <2> QED
    BY <2>3, <2>4
<1> HIDE DEF after, final
<1>7. d \in Sessions /\ d.state = "Fault" /\ SameTalk(after, d) /\ d.engine = e
      /\ d.queued = after.queued /\ d.issued = after.issued
  BY <1>5, <1>6 DEF Faulted, Sessions, SameTalk
<1>8. EngineShape(e)
  BY <1>1, <1>2 DEF EngineShape, RxEchoes, HostStates
<1>9. ~Busy(d) /\ SameTalk(s, d)
  BY <1>5, <1>7 DEF Busy, SameTalk
<1> QED
  BY <1>2, <1>7, <1>8, <1>9 DEF Shape, SameTalk, Busy

-----------------------------------------------------------------------------
(* What the session makes of a byte. *)

Hear(s, b) == SessionRxByte(ReceiveByte(s, b))

\* A session that runs and waits for nothing but a byte.
Listening(s) == Shape(s) /\ s.state = "Running" /\ ~Busy(s)

\* What hearing a byte leaves alone until the session answers.
Kept(s, h) ==
  /\ h \in Sessions /\ ~Busy(h) /\ SameTalk(s, h) /\ h.state = s.state /\ h.txActive = s.txActive

LEMMA ListeningFields ==
  ASSUME NEW s, Listening(s)
  PROVE  /\ s \in Sessions /\ s.state = "Running" /\ ~Busy(s) /\ WaitShape(s) /\ EngineShape(s.engine)
         /\ s.engine \in K!Engine /\ ~s.plan.pending /\ s.engine.frame \in Seq(K!Byte)
         /\ s.txIndex <= Len(s.txFrame) /\ (s.txFrame = <<>> \/ IsBlock(s.txFrame))
         /\ s.engine.fault = "None" /\ s.engine.txRequest = K!NoRequest
<1>1. /\ s \in Sessions /\ s.state = "Running" /\ ~Busy(s) /\ WaitShape(s) /\ EngineShape(s.engine)
      /\ ~s.plan.pending /\ s.txIndex <= Len(s.txFrame) /\ (s.txFrame = <<>> \/ IsBlock(s.txFrame))
  BY DEF Listening, Shape
<1>2. s.engine \in K!Engine
  BY <1>1, SessionFields
<1> QED
  BY <1>1, <1>2, EngineFields DEF WaitShape

LEMMA HeardIs ==
  ASSUME NEW s \in Sessions, ~Busy(s), NEW b \in K!Byte, NEW h, h = ReceiveByte(s, b),
         NEW e \in K!Engine, e = K!OnRxByte(s.engine, b)
  PROVE  /\ Kept(s, h)
         /\ ~s.resetAfterFinalEcho => h.engine = e /\ ~h.resetAfterFinalEcho
         /\ s.resetAfterFinalEcho /\ e.state # "Idle" =>
              h.engine = e /\ (h.resetAfterFinalEcho <=> e.state = "HostEcho")
         /\ s.resetAfterFinalEcho /\ e.state = "Idle" =>
              h.engine = K!ResetEngine(e) /\ ~h.resetAfterFinalEcho
<1>1. CASE ~s.resetAfterFinalEcho
  <2>1. h = [s EXCEPT !.engine = e]
    BY <1>1 DEF ReceiveByte
  <2>2. [s EXCEPT !.engine = e] \in Sessions
    BY DEF Sessions
  <2>3. h.engine = e /\ h.resetAfterFinalEcho = s.resetAfterFinalEcho
    BY <2>1 DEF Sessions
  <2>4. ~Busy(h) /\ SameTalk(s, h) /\ h.state = s.state /\ h.txActive = s.txActive
    BY <2>1 DEF Sessions, Busy, SameTalk
  <2> QED
    BY <1>1, <2>1, <2>2, <2>3, <2>4 DEF Kept
<1>2. CASE s.resetAfterFinalEcho /\ e.state # "Idle"
  <2> DEFINE c == [s EXCEPT !.engine = e]
  <2>1. h = [c EXCEPT !.resetAfterFinalEcho = (e.state = "HostEcho")]
    BY <1>2 DEF ReceiveByte
  <2>2. c \in Sessions /\ SameTalk(s, c) /\ c.state = s.state /\ c.txActive = s.txActive
        /\ c.queued = s.queued /\ c.issued = s.issued /\ c.engine = e
    BY DEF Sessions, SameTalk
  <2> HIDE DEF c
  <2>3. (e.state = "HostEcho") \in BOOLEAN
    OBVIOUS
  <2>4. [c EXCEPT !.resetAfterFinalEcho = (e.state = "HostEcho")] \in Sessions
    BY <2>2, <2>3 DEF Sessions
  <2>5. /\ h.engine = e /\ h.resetAfterFinalEcho = (e.state = "HostEcho") /\ SameTalk(c, h) /\ h.state = c.state
        /\ h.txActive = c.txActive /\ h.queued = c.queued /\ h.issued = c.issued
    BY <2>1, <2>2 DEF Sessions, SameTalk
  <2> QED
    BY <1>2, <2>1, <2>2, <2>4, <2>5 DEF Kept, Busy, SameTalk
<1>3. CASE s.resetAfterFinalEcho /\ e.state = "Idle"
  <2> DEFINE c == [s EXCEPT !.engine = e]
  <2>1. PICK f \in K!Engine : f = K!ResetEngine(e)
    BY ResetIs
  <2>2. h = [c EXCEPT !.engine = f, !.resetAfterFinalEcho = FALSE]
    BY <1>3, <2>1 DEF ReceiveByte
  <2>3. c \in Sessions /\ SameTalk(s, c) /\ c.state = s.state /\ c.txActive = s.txActive
        /\ c.queued = s.queued /\ c.issued = s.issued
    BY DEF Sessions, SameTalk
  <2> HIDE DEF c
  <2>4. [c EXCEPT !.engine = f, !.resetAfterFinalEcho = FALSE] \in Sessions
    BY <2>3 DEF Sessions
  <2>5. /\ h.engine = f /\ ~h.resetAfterFinalEcho /\ SameTalk(c, h) /\ h.state = c.state
        /\ h.txActive = c.txActive /\ h.queued = c.queued /\ h.issued = c.issued
    BY <2>2, <2>3 DEF Sessions, SameTalk
  <2> QED
    BY <1>3, <2>1, <2>2, <2>3, <2>4, <2>5 DEF Kept, Busy, SameTalk
<1> QED
  BY <1>1, <1>2, <1>3, SessionFields

\* A fault of the engine ends the session.
FaultOutcome(s, d) == Shape(d) /\ SameTalk(s, d) /\ d.state = "Fault" /\ ~Busy(d)

LEMMA FaultIs ==
  ASSUME NEW s, Listening(s), NEW h, Kept(s, h), h.engine.state = "Fault", h.engine.fault # "None",
         Len(h.engine.frame) <= h.engine.expectedSize, h.engine.expectedSize <= 65
  PROVE  FaultOutcome(s, SessionRxByte(h)) /\ ~HasFrame(h)
<1> DEFINE d == SessionRxByte(h)
<1>1. d = Faulted(h) /\ h \in Sessions
  BY DEF SessionRxByte, Kept
<1> HIDE DEF d
<1>2. d \in Sessions /\ d.state = "Fault" /\ SameTalk(h, d) /\ d.engine = h.engine
      /\ d.queued = h.queued /\ d.issued = h.issued
  BY <1>1 DEF Faulted, Sessions, SameTalk
<1>3. ~Busy(d) /\ SameTalk(s, d)
  BY <1>2 DEF Kept, Busy, SameTalk
<1>4. EngineShape(d.engine)
  BY <1>2 DEF EngineShape, RxEchoes, HostStates
<1>5. Shape(d)
  BY <1>2, <1>3, <1>4, ListeningFields DEF Shape, SameTalk, Busy
<1>6. ~HasFrame(h)
  BY DEF HasFrame
<1> QED
  BY <1>2, <1>3, <1>5, <1>6 DEF FaultOutcome, d

\* Without a fault and without a frame the session goes on.
LEMMA GoesOn ==
  ASSUME NEW h, h \in Sessions, h.engine.fault = "None", h.engine.state # "Idle" \/ Len(h.engine.frame) = 0
  PROVE  SessionRxByte(h) = AdvanceAfterTransportEvent(h) /\ ~HasFrame(h)
<1>1. ~HasFrame(h)
  BY DEF HasFrame, K!FrameComplete
<1> QED
  BY <1>1 DEF SessionRxByte

\* The session keeps listening.
Quiet(s, d) == Listening(d) /\ SameTalk(s, d)

LEMMA QuietIs ==
  ASSUME NEW s, Listening(s), NEW h, Kept(s, h), WaitShape(h), EngineShape(h.engine)
  PROVE  Quiet(s, SessionRxByte(h)) /\ SessionRxByte(h) = h /\ ~HasFrame(h)
<1>1. h \in Sessions /\ ~Busy(h) /\ SameTalk(s, h) /\ h.state = "Running"
  BY ListeningFields DEF Kept
<1>2. /\ h.engine.fault = "None" /\ h.engine.state # "Idle" /\ h.engine.txRequest = K!NoRequest
  BY DEF WaitShape, EchoStates
<1>3. SessionRxByte(h) = AdvanceAfterTransportEvent(h) /\ ~HasFrame(h)
  BY <1>1, <1>2, GoesOn
<1>4. SessionRxByte(h) = h
  <2>1. h.txActive \in BOOLEAN /\ ~h.engine.txRequest.pending
    BY <1>1, <1>2, SessionFields, RequestFields
  <2> QED
    BY <1>1, <1>2, <1>3, <2>1, AdvanceIs
<1>5. Listening(h)
  BY <1>1, ListeningFields DEF Listening, Shape, SameTalk, Busy
<1> QED
  BY <1>1, <1>3, <1>4, <1>5 DEF Quiet

\* The complement of x goes to the loop.
AckQueued(s, x, d) ==
  /\ Shape(d) /\ d.state = "Running" /\ d.queued
  /\ d.plan = s.plan /\ d.txFrame = s.txFrame /\ d.txIndex = s.txIndex /\ d.txCounter = s.txCounter
  /\ d.engine.state \in RxEchoes /\ d.engine.frame = Append(s.engine.frame, x)
  /\ ~d.engine.deferred.pending /\ d.actionByte = K!Complement(x)

LEMMA AckQueuedIs ==
  ASSUME NEW s, Listening(s), NEW h, Kept(s, h), ~h.txActive, ~h.resetAfterFinalEcho, NEW x \in K!Byte,
         NEW e \in K!Engine, h.engine = e, e.state \in RxEchoes, e.fault = "None",
         e.frame = Append(s.engine.frame, x), e.expectedEcho = K!Complement(x),
         e.txRequest = K!Request(K!Complement(x)),
         ~e.deferred.pending, ~e.txCompletion, ~e.echoSeen, ~e.ackSeen, EngineShape(e)
  PROVE  AckQueued(s, x, SessionRxByte(h)) /\ ~HasFrame(h)
<1> DEFINE d == SessionRxByte(h)
<1>1. h \in Sessions /\ ~Busy(h) /\ SameTalk(s, h) /\ h.state = "Running"
  BY ListeningFields DEF Kept
<1>2. d = AdvanceAfterTransportEvent(h) /\ ~HasFrame(h)
  BY <1>1, GoesOn DEF RxEchoes
<1>3. e.txRequest.pending /\ e.txRequest.byte = K!Complement(x)
  BY ComplementIs, RequestFields
<1>4. d = QueueAction(h, e)
  BY <1>1, <1>2, <1>3, AdvanceIs
<1>5. /\ d \in Sessions /\ SameBlock(h, d) /\ d.queued /\ d.issued = h.issued
      /\ d.actionByte = e.txRequest.byte
      /\ d.engine = [e EXCEPT !.txRequest = K!NoRequest]
  BY <1>1, <1>4, QueueIs
<1> HIDE DEF d
<1>6. /\ d.engine.state = e.state /\ d.engine.fault = e.fault /\ d.engine.frame = e.frame
      /\ d.engine.expectedSize = e.expectedSize /\ d.engine.expectedEcho = e.expectedEcho
      /\ d.engine.txRequest = K!NoRequest /\ d.engine.deferred = e.deferred
      /\ d.engine.txCompletion = e.txCompletion /\ d.engine.echoSeen = e.echoSeen
      /\ d.engine.ackSeen = e.ackSeen
  BY <1>5 DEF K!Engine
<1>7. EngineShape(d.engine)
  BY <1>6 DEF EngineShape
<1>8. Busy(d) /\ ~(d.queued /\ d.issued) /\ d.state = "Running"
  BY <1>1, <1>5 DEF Busy, SameBlock
<1>9. WaitShape(d)
  <2>1. d.engine.state \in RxEchoes /\ d.engine.state \notin HostStates /\ d.engine.state \in EchoStates
        /\ d.engine.state # "HostAck"
    BY <1>6 DEF RxEchoes, HostStates, EchoStates
  <2>2. ~d.txActive /\ ~d.resetAfterFinalEcho
    BY <1>5 DEF SameBlock
  <2> QED
    BY <1>3, <1>5, <1>6, <1>8, <2>1, <2>2 DEF WaitShape
<1>10. Shape(d)
  BY <1>1, <1>5, <1>7, <1>8, <1>9, ListeningFields DEF Shape, SameTalk, SameBlock
<1>11. AckQueued(s, x, d)
  BY <1>1, <1>3, <1>5, <1>6, <1>8, <1>10 DEF AckQueued, SameTalk, SameBlock
<1> QED
  BY <1>2, <1>11 DEF d

\* A byte that is neither the echo nor the answer waited for.
Unexpected(s, b) ==
  \/ s.engine.state \in EchoStates /\ b # s.engine.expectedEcho
  \/ s.engine.state = "HostAck" /\ b # s.engine.expectedAck

\* The reset flag is that of a host block whose last byte awaits its echo.
LEMMA ResetFlag ==
  ASSUME NEW s, Listening(s)
  PROVE  /\ s.resetAfterFinalEcho <=> s.engine.state = "HostEcho" /\ LastByte(s)
         /\ s.txActive <=> s.engine.state \in HostStates /\ ~LastByte(s)
         /\ s.resetAfterFinalEcho \in BOOLEAN /\ s.txActive \in BOOLEAN
<1>1. WaitShape(s) /\ ~Busy(s) /\ s.resetAfterFinalEcho \in BOOLEAN /\ s.txActive \in BOOLEAN
  BY ListeningFields, SessionFields
<1>2. CASE s.engine.state \in HostStates
  BY <1>1, <1>2 DEF WaitShape, HostShape, HostStates
<1>3. CASE s.engine.state \notin HostStates
  BY <1>1, <1>3 DEF WaitShape, HostStates
<1> QED
  BY <1>2, <1>3

LEMMA EarlyByte ==
  ASSUME NEW s, Listening(s), NEW b \in K!Byte, Unexpected(s, b), NEW d, d = Hear(s, b)
  PROVE  /\ ~HasFrame(ReceiveByte(s, b))
         /\ s.engine.deferred.pending => FaultOutcome(s, d)
         /\ ~s.engine.deferred.pending =>
              /\ Quiet(s, d) /\ d.engine.state = s.engine.state /\ d.engine.frame = s.engine.frame
              /\ d.engine.deferred.pending
<1>1. /\ s \in Sessions /\ ~Busy(s) /\ s.engine \in K!Engine /\ WaitShape(s) /\ EngineShape(s.engine)
      /\ s.engine.frame \in Seq(K!Byte)
  BY ListeningFields
<1>2. PICK e \in K!Engine :
         /\ e = K!OnRxByte(s.engine, b)
         /\ s.engine.deferred.pending => /\ e.state = "Fault" /\ e.fault # "None" /\ e.frame = s.engine.frame
                                  /\ e.expectedSize = s.engine.expectedSize
         /\ ~s.engine.deferred.pending => e = [s.engine EXCEPT !.deferred = K!Request(b)]
  BY <1>1, UnexpectedIs DEF Unexpected
<1>3. PICK h : h = ReceiveByte(s, b)
  OBVIOUS
<1>4. d = SessionRxByte(h)
  BY <1>3 DEF Hear
<1>5. s.engine.state # "Idle" /\ s.engine.state \in EchoStates \cup {"HostAck"}
  BY DEF Unexpected, EchoStates
<1>6. CASE s.engine.deferred.pending
  <2>1. Kept(s, h) /\ h.engine = e
    BY <1>1, <1>2, <1>3, <1>6, HeardIs, SessionFields
  <2>2. Len(e.frame) <= e.expectedSize /\ e.expectedSize <= 65
    BY <1>1, <1>2, <1>6 DEF EngineShape
  <2> QED
    BY <1>2, <1>3, <1>4, <1>6, <2>1, <2>2, FaultIs
<1>7. CASE ~s.engine.deferred.pending
  <2>1. /\ e.state = s.engine.state /\ e.fault = s.engine.fault /\ e.frame = s.engine.frame
        /\ e.expectedSize = s.engine.expectedSize /\ e.expectedEcho = s.engine.expectedEcho
        /\ e.expectedAck = s.engine.expectedAck /\ e.requiresAck = s.engine.requiresAck
        /\ e.txRequest = s.engine.txRequest /\ e.deferred = K!Request(b)
        /\ e.txCompletion = s.engine.txCompletion /\ e.echoSeen = s.engine.echoSeen
        /\ e.ackSeen = s.engine.ackSeen
    BY <1>1, <1>2, <1>7 DEF K!Engine
  <2>2. Kept(s, h) /\ h.engine = e
    BY <1>1, <1>2, <1>3, <1>5, <2>1, HeardIs, SessionFields
  <2>3. h.resetAfterFinalEcho <=> s.resetAfterFinalEcho
    <3>1. CASE s.resetAfterFinalEcho
      BY <1>1, <1>2, <1>3, <1>5, <2>1, <3>1, HeardIs, ResetFlag
    <3>2. CASE ~s.resetAfterFinalEcho
      BY <1>1, <1>2, <1>3, <3>2, HeardIs
    <3> QED
      BY <3>1, <3>2
  <2>4. EngineShape(e)
    <3>1. e.state \notin {"RxLength", "RxByte"}
      BY <1>5, <2>1 DEF EchoStates
    <3> QED
      BY <1>1, <2>1, <3>1 DEF EngineShape
  <2>5. s.engine.state \in HostStates => HostShape(h)
    <3> SUFFICES ASSUME s.engine.state \in HostStates PROVE HostShape(h)
      OBVIOUS
    <3>1. HostShape(s)
      BY <1>1 DEF WaitShape
    <3> QED
      BY <1>1, <2>1, <2>2, <2>3, <3>1 DEF HostShape, Kept, SameTalk, Sent, LastByte
  <2>6. WaitShape(h)
    <3>1. h.txActive = s.txActive /\ ~Busy(h) /\ h.actionByte = s.actionByte
      BY <2>2 DEF Kept, SameTalk
    <3> QED
      BY <1>1, <2>1, <2>2, <2>3, <2>5, <3>1 DEF WaitShape
  <2>7. Quiet(s, d) /\ d = h /\ ~HasFrame(h)
    BY <1>4, <2>2, <2>4, <2>6, QuietIs
  <2>8. d.engine.deferred.pending
    BY <2>1, <2>2, <2>7, RequestFields
  <2> QED
    BY <1>3, <1>7, <2>1, <2>2, <2>7, <2>8
<1> QED
  BY <1>6, <1>7

\* The echo of a host byte the unit has to answer.
LEMMA HostEcho ==
  ASSUME NEW s, Listening(s), s.engine.state = "HostEcho", ~LastByte(s), NEW d,
         d = Hear(s, s.engine.expectedEcho)
  PROVE  /\ ~HasFrame(ReceiveByte(s, s.engine.expectedEcho))
         /\ Quiet(s, d) /\ d.engine.state = "HostAck" /\ d.engine.frame = s.engine.frame
         /\ d.engine.deferred = s.engine.deferred
<1>1. /\ s \in Sessions /\ ~Busy(s) /\ s.engine \in K!Engine /\ WaitShape(s) /\ EngineShape(s.engine)
      /\ s.engine.frame \in Seq(K!Byte) /\ HostShape(s)
  BY ListeningFields DEF WaitShape, HostStates
<1>2. PICK b \in K!Byte : b = s.engine.expectedEcho
  BY <1>1, EngineFields
<1>3. PICK e \in K!Engine : /\ e = K!OnRxByte(s.engine, b)
                            /\ e = [s.engine EXCEPT !.echoSeen = TRUE, !.state = "HostAck"]
  BY <1>1, <1>2, EchoBeforeAck DEF WaitShape, HostShape, EchoStates
<1>4. PICK h : h = ReceiveByte(s, b)
  OBVIOUS
<1>5. d = SessionRxByte(h)
  BY <1>2, <1>4 DEF Hear
<1>6. /\ e.state = "HostAck" /\ e.fault = s.engine.fault /\ e.frame = s.engine.frame
      /\ e.expectedSize = s.engine.expectedSize
      /\ e.expectedAck = s.engine.expectedAck /\ e.requiresAck = s.engine.requiresAck
      /\ e.expectedEcho = s.engine.expectedEcho
      /\ e.txRequest = s.engine.txRequest /\ e.deferred = s.engine.deferred
      /\ e.txCompletion = s.engine.txCompletion /\ e.echoSeen /\ e.ackSeen = s.engine.ackSeen
  BY <1>1, <1>3 DEF K!Engine
<1>7. ~s.resetAfterFinalEcho /\ s.txActive
  BY ResetFlag DEF HostStates
<1>8. Kept(s, h) /\ h.engine = e /\ ~h.resetAfterFinalEcho
  <2>1. e = K!OnRxByte(s.engine, b)
    BY <1>3
  <2> QED
    BY <1>1, <1>4, <1>7, <2>1, HeardIs
<1>9. EngineShape(e)
  BY <1>1, <1>6 DEF EngineShape, HostStates, RxEchoes
<1>10. HostShape(h)
  BY <1>1, <1>6, <1>7, <1>8 DEF HostShape, Kept, SameTalk, Sent, LastByte
<1>11. WaitShape(h)
  <2>1. h.txActive = s.txActive /\ ~Busy(h) /\ h.actionByte = s.actionByte
    BY <1>8 DEF Kept, SameTalk
  <2>2. s.engine.txCompletion /\ ~s.engine.ackSeen /\ s.engine.fault = "None" /\ s.engine.txRequest = K!NoRequest
    BY <1>1 DEF WaitShape, EchoStates
  <2> QED
    BY <1>1, <1>6, <1>8, <1>10, <2>1, <2>2 DEF WaitShape, EchoStates, HostStates
<1>12. Quiet(s, d) /\ d = h /\ ~HasFrame(h)
  BY <1>5, <1>8, <1>9, <1>11, QuietIs
<1> QED
  BY <1>2, <1>4, <1>6, <1>8, <1>12

\* The echo of the last byte of a host block: the unit's turn.
LEMMA LastEcho ==
  ASSUME NEW s, Listening(s), s.engine.state = "HostEcho", LastByte(s), NEW d,
         d = Hear(s, s.engine.expectedEcho)
  PROVE  /\ ~HasFrame(ReceiveByte(s, s.engine.expectedEcho))
         /\ ~s.engine.deferred.pending =>
              Quiet(s, d) /\ d.engine.state = "RxLength" /\ d.engine.frame = s.engine.frame
         /\ s.engine.deferred.pending =>
              \/ s.engine.deferred.byte \notin 3 .. 64 /\ FaultOutcome(s, d)
              \/ AckQueued(s, s.engine.deferred.byte, d)
<1>1. /\ s \in Sessions /\ ~Busy(s) /\ s.engine \in K!Engine /\ WaitShape(s) /\ EngineShape(s.engine)
      /\ s.engine.frame = <<>> /\ HostShape(s) /\ s.engine.fault = "None" /\ s.engine.txRequest = K!NoRequest
  BY ListeningFields DEF WaitShape, HostStates, EngineShape
<1>2. PICK b \in K!Byte : b = s.engine.expectedEcho
  BY <1>1, EngineFields
<1>3. PICK x \in K!Byte : x = s.engine.deferred.byte
  BY <1>1, EngineFields, RequestFields
<1>4. PICK e \in K!Engine :
         /\ e = K!OnRxByte(s.engine, b)
         /\ ~s.engine.deferred.pending =>
              e.state = "Idle" /\ e.fault = s.engine.fault /\ e.frame = <<>> /\ e.txRequest = s.engine.txRequest
         /\ s.engine.deferred.pending => FirstByte(s.engine, s.engine.deferred.byte, e)
  <2>1. ~s.engine.requiresAck /\ s.engine.txCompletion
    BY <1>1 DEF WaitShape, HostShape, EchoStates
  <2> QED
    BY <1>1, <1>2, <2>1, LastEchoIs
<1>5. PICK h : h = ReceiveByte(s, b)
  OBVIOUS
<1>6. d = SessionRxByte(h)
  BY <1>2, <1>5 DEF Hear
<1>7. s.resetAfterFinalEcho /\ ~s.txActive
  BY ResetFlag
<1>8. CASE ~s.engine.deferred.pending
  <2>1. Kept(s, h) /\ h.engine = K!ResetEngine(e) /\ ~h.resetAfterFinalEcho
    BY <1>1, <1>4, <1>5, <1>7, <1>8, HeardIs
  <2>2. PICK g \in K!Engine :
         /\ g = h.engine
         /\ g.state = "RxLength" /\ g.fault = "None" /\ g.frame = <<>> /\ g.expectedSize = 0
         /\ g.txRequest = K!NoRequest /\ g.deferred = K!NoRequest
    BY <2>1, ResetIs
  <2>3. EngineShape(g)
    BY <2>2, RequestFields DEF EngineShape, HostStates, RxEchoes
  <2>4. WaitShape(h)
    <3>1. ~h.txActive /\ ~Busy(h)
      BY <1>7, <2>1 DEF Kept
    <3> QED
      BY <2>1, <2>2, <3>1 DEF WaitShape, EchoStates, HostStates
  <2>5. Quiet(s, d) /\ d = h /\ ~HasFrame(h)
    BY <1>6, <2>1, <2>2, <2>3, <2>4, QuietIs
  <2> QED
    BY <1>1, <1>2, <1>5, <1>8, <2>2, <2>5
<1>9. CASE s.engine.deferred.pending
  <2>1. e.state # "Idle" /\ e.state # "HostEcho"
    BY <1>4, <1>9 DEF RxEchoes, FirstByte
  <2>2. Kept(s, h) /\ h.engine = e /\ ~h.resetAfterFinalEcho
    BY <1>1, <1>4, <1>5, <1>7, <2>1, HeardIs
  <2>3. CASE x \notin 3 .. 64
    <3>1. e.state = "Fault" /\ e.fault # "None" /\ e.frame = <<>> /\ e.expectedSize = s.engine.expectedSize
      BY <1>3, <1>4, <1>9, <2>3 DEF FirstByte
    <3>2. Len(e.frame) <= e.expectedSize /\ e.expectedSize <= 65
      BY <1>1, <3>1 DEF EngineShape
    <3> QED
      BY <1>2, <1>3, <1>5, <1>6, <1>9, <2>2, <2>3, <3>1, <3>2, FaultIs
  <2>4. CASE x \in 3 .. 64
    <3>1. /\ e.state \in RxEchoes /\ e.fault = "None"
          /\ e.frame = <<x>> /\ e.expectedSize = x + 1
          /\ e.expectedEcho = K!Complement(x)
          /\ e.txRequest = K!Request(K!Complement(x))
          /\ ~e.deferred.pending /\ ~e.txCompletion /\ ~e.echoSeen /\ ~e.ackSeen
      BY <1>1, <1>3, <1>4, <1>9, <2>4 DEF FirstByte
    <3>2. Len(<<x>>) = 1 /\ <<x>>[1] = x /\ Append(<<>>, x) = <<x>>
      OBVIOUS
    <3>3. EngineShape(e)
      BY <2>4, <3>1, <3>2 DEF EngineShape, RxEchoes, HostStates
    <3>4. ~h.txActive
      BY <1>7, <2>2 DEF Kept
    <3>5. AckQueued(s, x, d) /\ ~HasFrame(h)
      BY <1>1, <1>6, <2>2, <3>1, <3>2, <3>3, <3>4, AckQueuedIs
    <3> QED
      BY <1>2, <1>3, <1>5, <1>9, <3>5
  <2> QED
    BY <2>3, <2>4
<1> QED
  BY <1>8, <1>9

-----------------------------------------------------------------------------
(* Blocks and their titles. *)

LEMMA Within ==
  ASSUME NEW n, n \in Nat, NEW low \in Nat, NEW high \in Nat, low <= n, n <= high
  PROVE  n \in low .. high
OBVIOUS

LEMMA JoinIs ==
  ASSUME NEW s \in Seq(K!Byte), NEW t \in Seq(K!Byte), NEW f, f = s \o t
  PROVE  /\ f \in Seq(K!Byte) /\ Len(f) = Len(s) + Len(t)
         /\ \A i \in 1 .. Len(s) : f[i] = s[i]
         /\ \A i \in 1 .. Len(t) : f[Len(s) + i] = t[i]
<1>1. f \in Seq(K!Byte) /\ Len(f) = Len(s) + Len(t)
  OBVIOUS
<1>2. ASSUME NEW i \in 1 .. Len(s) PROVE f[i] = s[i]
  OBVIOUS
<1>3. ASSUME NEW i \in 1 .. Len(t) PROVE f[Len(s) + i] = t[i]
  OBVIOUS
<1> QED
  BY <1>1, <1>2, <1>3

BlockOf(c, t, p, f) ==
  /\ f \in Seq(K!Byte) /\ IsBlock(f) /\ Len(f) = 4 + Len(p)
  /\ f[2] = c /\ f[3] = t /\ (Len(p) = 1 => f[4] = p[1])

LEMMA BlockIs ==
  ASSUME NEW c \in K!Byte, NEW t \in K!Byte, NEW p \in Seq(K!Byte), Len(p) \in 0 .. 61
  PROVE  BlockOf(c, t, p, Block(c, t, p))
<1>0. PICK f : f = Block(c, t, p)
  OBVIOUS
<1>2. PICK n \in 0 .. 61 : n = Len(p)
  OBVIOUS
<1>3. 3 + n \in K!Byte /\ 3 \in K!Byte
  BY DEF K!Byte
<1>4. PICK first \in Seq(K!Byte) : /\ first = <<3 + n, c, t>> /\ Len(first) = 3
                                   /\ first[1] = 3 + n /\ first[2] = c /\ first[3] = t
  <2>1. <<3 + n, c, t>> \in Seq(K!Byte)
    BY <1>3
  <2> QED
    BY <2>1
<1>5. PICK last \in Seq(K!Byte) : last = <<3>> /\ Len(last) = 1 /\ last[1] = 3
  <2>1. <<3>> \in Seq(K!Byte)
    BY <1>3
  <2> QED
    BY <2>1
<1>6. f = first \o p \o last
  BY <1>0, <1>2, <1>4, <1>5 DEF Block, K!Terminator
<1>7. PICK g \in Seq(K!Byte) : g = first \o p
  <2>1. first \o p \in Seq(K!Byte)
    BY JoinIs
  <2> QED
    BY <2>1
<1>8. Len(g) = 3 + n /\ \A i \in 1 .. 3 : g[i] = first[i]
  BY <1>2, <1>4, <1>7, JoinIs
<1>9. n = 1 => g[4] = p[1]
  <2> SUFFICES ASSUME n = 1 PROVE g[4] = p[1]
    OBVIOUS
  <2>1. \A i \in 1 .. Len(p) : g[Len(first) + i] = p[i]
    BY <1>7, JoinIs
  <2>2. 1 \in 1 .. Len(p)
    <3>1. Len(p) = 1
      BY <1>2
    <3> QED
      BY <3>1
  <2>3. g[Len(first) + 1] = p[1]
    BY <2>1, <2>2
  <2> QED
    BY <1>4, <2>3
<1>10. f \in Seq(K!Byte) /\ Len(f) = 4 + n
  <2>1. f \in Seq(K!Byte) /\ Len(f) = Len(g) + Len(last)
    BY <1>6, <1>7, JoinIs
  <2> QED
    BY <1>5, <1>8, <2>1
<1>11. \A i \in 1 .. Len(g) : f[i] = g[i]
  BY <1>6, <1>7, JoinIs
<1>12. f[1] = 3 + n /\ f[2] = c /\ f[3] = t /\ (n = 1 => f[4] = p[1])
  <2>1. 1 \in 1 .. Len(g) /\ 2 \in 1 .. Len(g) /\ 3 \in 1 .. Len(g) /\ (n = 1 => 4 \in 1 .. Len(g))
    BY <1>8
  <2> QED
    BY <1>4, <1>8, <1>9, <1>11, <2>1
<1>13. f[4 + n] = 3
  <2>1. \A i \in 1 .. Len(last) : f[Len(g) + i] = last[i]
    BY <1>6, <1>7, JoinIs
  <2>2. f[Len(g) + 1] = 3
    BY <1>5, <2>1
  <2>3. Len(g) + 1 = 4 + n
    BY <1>8
  <2> QED
    BY <2>2, <2>3
<1>14. IsBlock(f)
  <2>1. Len(f) \in 4 .. 65 /\ Len(f) - 1 = 3 + n
    BY <1>10
  <2> QED
    BY <1>10, <1>12, <1>13, <2>1 DEF IsBlock
<1> QED
  BY <1>0, <1>2, <1>10, <1>12, <1>14 DEF BlockOf

LEMMA TitleBytes ==
  /\ \A t \in Titles : TitleByte[t] \in K!Byte
  /\ \A t, u \in Titles : TitleByte[t] = TitleByte[u] => t = u
BY DEF Titles, TitleByte, K!Byte

LEMMA TitleIs ==
  ASSUME NEW f, Len(f) \in Nat, Len(f) >= 3, NEW t \in Titles, f[3] = TitleByte[t]
  PROVE  ParsedTitle(f) = t
<1>1. \A u \in Titles : f[3] = TitleByte[u] => u = t
  BY TitleBytes
<1>2. (CHOOSE u \in Titles : f[3] = TitleByte[u]) = t
  BY <1>1
<1> QED
  BY <1>2 DEF ParsedTitle

LEMMA ParsedIsTitle ==
  ASSUME NEW f PROVE ParsedTitle(f) \in Titles
<1>1. CASE Len(f) >= 3 /\ \E t \in Titles : f[3] = TitleByte[t]
  BY <1>1 DEF ParsedTitle
<1>2. CASE ~(Len(f) >= 3 /\ \E t \in Titles : f[3] = TitleByte[t])
  BY <1>2 DEF ParsedTitle, Titles
<1> QED
  BY <1>1, <1>2

LEMMA EcuBlocksAre ==
  ASSUME NEW title \in Titles, NEW f \in EcuBlocks(title)
  PROVE  f \in Seq(K!Byte) /\ IsBlock(f) /\ ParsedTitle(f) = title
<1>1. PICK c \in EcuCounters, p \in (IF title \in {"Ack", "Refused"} THEN {<<>>} ELSE EcuPayloads) :
         f = Block(c, TitleByte[title], p)
  BY DEF EcuBlocks, EcuBlock
<1>2. c \in K!Byte
  BY EcuAssumption DEF K!Byte
<1>3. p \in Seq(K!Byte) /\ Len(p) \in 0 .. 61
  <2>1. CASE p = <<>>
    BY <2>1
  <2>2. CASE p \in EcuPayloads
    <3>1. p \in Seq(K!Byte) /\ Len(p) <= 61
      BY <2>2, EcuAssumption DEF K!Byte
    <3>2. Len(p) \in Nat /\ 0 <= Len(p)
      BY <3>1
    <3> QED
      BY <3>1, <3>2, Within
  <2> QED
    BY <1>1, <2>1, <2>2
<1>4. BlockOf(c, TitleByte[title], p, Block(c, TitleByte[title], p))
  BY <1>2, <1>3, TitleBytes, BlockIs
<1>5. f \in Seq(K!Byte) /\ IsBlock(f) /\ f[3] = TitleByte[title]
  BY <1>1, <1>4 DEF BlockOf
<1>6. Len(f) \in Nat /\ Len(f) >= 3
  BY <1>5 DEF IsBlock
<1> QED
  BY <1>5, <1>6, TitleIs
-----------------------------------------------------------------------------
(* The plan answers a block. *)

LEMMA PlanFields ==
  ASSUME NEW p \in Plan
  PROVE  /\ p.stage \in Stages /\ p.group \in Groups /\ p.pending \in BOOLEAN /\ p.command \in Commands
         /\ p.command.kind \in {"Ack", "GroupZero", "GroupSelect"} /\ p.command.group \in Groups
BY DEF Plan, Commands

\* A plan that asks for a command.
Asks(stage, group, kind, g, d) ==
  /\ d \in Plan /\ d.stage = stage /\ d.group = group /\ d.pending
  /\ d.command.kind = kind /\ d.command.group = g

LEMMA EmitIs ==
  ASSUME NEW p, NEW stage \in Stages, NEW group \in Groups,
         NEW kind \in {"Ack", "GroupZero", "GroupSelect"}, NEW g \in Groups
  PROVE  Asks(stage, group, kind, g, Emit(p, stage, group, Command(kind, g)))
<1>1. Command(kind, g) \in Commands /\ Command(kind, g).kind = kind /\ Command(kind, g).group = g
  BY DEF Command, Commands
<1> QED
  BY <1>1 DEF Emit, Plan, Asks

\* What is asked for next, after a block with the title given.
Answer(p, title, d) ==
  \/ /\ title = "Identification" /\ d.stage = "WaitingIdentification" /\ d.command.kind = "Ack"
  \/ /\ title = "Ack" /\ d.stage = "WaitingGroupZero" /\ d.group = 0 /\ d.command.kind = "GroupZero"
  \/ /\ title \in {"GroupBody", "Refused"} /\ d.stage = "WaitingGroupZero" /\ d.group = 0
     /\ d.command.kind = "GroupZero"
  \/ /\ title \in {"GroupBody", "Refused"} /\ d.stage = "WaitingGroupSwitchAck" /\ d.command.kind = "Ack"
  \/ /\ title = "Ack" /\ d.stage = "WaitingGroupHeader" /\ d.command.kind = "GroupSelect"
     /\ d.command.group = d.group
  \/ /\ title = "GroupHeader" /\ d.stage = "WaitingGroupBody" /\ d.command.kind = "GroupSelect"
     /\ d.command.group = d.group

LEMMA OnFrameIs ==
  ASSUME NEW p \in Plan, NEW title \in Titles, NEW d, d = OnFrame(p, title), ~p.pending
  PROVE  /\ ~Accepts(p, title) => d = p
         /\ Accepts(p, title) => d \in Plan /\ d.pending /\ Answer(p, title, d)
<1>1. CASE ~Accepts(p, title)
  BY <1>1 DEF OnFrame
<1>2. CASE Accepts(p, title)
  <2>1. p.stage \in Stages /\ p.group \in Groups
    BY PlanFields
  <2>2. /\ p.stage = "WaitingIdentification" /\ title = "Identification" =>
             d = Emit(p, p.stage, p.group, Command("Ack", 0))
        /\ p.stage = "WaitingIdentification" /\ title = "Ack" =>
             d = Emit(p, "WaitingGroupZero", 0, Command("GroupZero", 0))
        /\ p.stage = "WaitingGroupZero" => d = Emit(p, "WaitingGroupSwitchAck", 1, Command("Ack", 0))
        /\ p.stage = "WaitingGroupSwitchAck" =>
             d = Emit(p, "WaitingGroupHeader", p.group, Command("GroupSelect", p.group))
        /\ p.stage = "WaitingGroupHeader" =>
             d = Emit(p, "WaitingGroupBody", p.group, Command("GroupSelect", p.group))
        /\ p.stage = "WaitingGroupBody" => d = AdvanceAfterGroup(p)
    BY <1>2 DEF OnFrame
  <2>3. 0 \in Groups /\ 1 \in Groups /\ (p.group < 4 => p.group + 1 \in Groups)
    BY <2>1 DEF Groups, LastGroup
  <2>4. /\ "WaitingGroupZero" \in Stages /\ "WaitingGroupSwitchAck" \in Stages
        /\ "WaitingGroupHeader" \in Stages /\ "WaitingGroupBody" \in Stages
    BY DEF Stages
  <2>5. CASE p.stage = "WaitingIdentification" /\ title = "Identification"
    <3>1. Asks(p.stage, p.group, "Ack", 0, d)
      BY <2>1, <2>2, <2>3, <2>5, EmitIs
    <3> QED
      BY <1>2, <2>5, <3>1 DEF Answer, Asks
  <2>6. CASE p.stage = "WaitingIdentification" /\ title = "Ack"
    <3>1. Asks("WaitingGroupZero", 0, "GroupZero", 0, d)
      BY <2>2, <2>3, <2>4, <2>6, EmitIs
    <3> QED
      BY <1>2, <2>6, <3>1 DEF Answer, Asks
  <2>7. CASE p.stage = "WaitingGroupZero" /\ title = "GroupBody"
    <3>1. Asks("WaitingGroupSwitchAck", 1, "Ack", 0, d)
      BY <2>2, <2>3, <2>4, <2>7, EmitIs
    <3> QED
      BY <1>2, <2>7, <3>1 DEF Answer, Asks
  <2>8. CASE p.stage = "WaitingGroupSwitchAck" /\ title = "Ack"
    <3>1. Asks("WaitingGroupHeader", p.group, "GroupSelect", p.group, d)
      BY <2>1, <2>2, <2>4, <2>8, EmitIs
    <3> QED
      BY <1>2, <2>8, <3>1 DEF Answer, Asks
  <2>9. CASE p.stage = "WaitingGroupHeader" /\ title = "GroupHeader"
    <3>1. Asks("WaitingGroupBody", p.group, "GroupSelect", p.group, d)
      BY <2>1, <2>2, <2>4, <2>9, EmitIs
    <3> QED
      BY <1>2, <2>9, <3>1 DEF Answer, Asks
  <2>10. CASE p.stage = "WaitingGroupBody" /\ title \in {"GroupBody", "Refused"}
    <3>1. CASE p.group >= LastGroup
      <4>1. d = Emit(p, "WaitingGroupZero", 0, Command("GroupZero", 0))
        BY <2>2, <2>10, <3>1 DEF AdvanceAfterGroup
      <4>2. Asks("WaitingGroupZero", 0, "GroupZero", 0, d)
        BY <2>3, <2>4, <4>1, EmitIs
      <4> QED
        BY <1>2, <2>10, <4>2 DEF Answer, Asks
    <3>2. CASE ~(p.group >= LastGroup)
      <4>1. PICK g \in Groups : g = p.group + 1
        BY <2>1, <2>3, <3>2 DEF LastGroup, Groups
      <4>2. d = Emit(p, "WaitingGroupSwitchAck", g, Command("Ack", 0))
        BY <2>2, <2>10, <3>2, <4>1 DEF AdvanceAfterGroup
      <4>3. Asks("WaitingGroupSwitchAck", g, "Ack", 0, d)
        BY <2>3, <2>4, <4>2, EmitIs
      <4> QED
        BY <1>2, <2>10, <4>3 DEF Answer, Asks
    <3> QED
      BY <3>1, <3>2
  <2> QED
    BY <1>2, <2>5, <2>6, <2>7, <2>8, <2>9, <2>10 DEF Accepts
<1> QED
  BY <1>1, <1>2

\* The host block for a command, and the titles of the three kinds.
LEMMA CommandBlockIs ==
  ASSUME NEW p \in Plan, NEW c \in 0 .. CounterModulus - 1,
         NEW f, f = Block(c, HostTitle(p.command), HostPayload(p.command))
  PROVE  /\ f \in Seq(K!Byte) /\ IsBlock(f) /\ f[2] = c
         /\ p.command.kind = "Ack" => Len(f) = 4 /\ f[3] = 9
         /\ p.command.kind = "GroupZero" => Len(f) = 4 /\ f[3] = 18
         /\ p.command.kind = "GroupSelect" => Len(f) = 5 /\ f[3] = 41 /\ f[4] = p.command.group
<1>1. PICK b \in K!Byte : b = c
  BY ModulusAssumption DEF K!Byte
<1>2. /\ p.command.kind \in {"Ack", "GroupZero", "GroupSelect"} /\ p.command.group \in Groups
  BY PlanFields
<1>3. /\ p.command.kind = "Ack" => HostTitle(p.command) = 9
      /\ p.command.kind = "GroupZero" => HostTitle(p.command) = 18
      /\ p.command.kind = "GroupSelect" => HostTitle(p.command) = 41
  BY DEF HostTitle, TitleByte, GroupZeroTitle, GroupSelectTitle
<1>4. PICK t \in K!Byte : t = HostTitle(p.command)
  BY <1>2, <1>3 DEF K!Byte
<1>5. PICK g \in K!Byte : g = p.command.group
  BY <1>2 DEF K!Byte, Groups, LastGroup
<1>6. PICK q : q = HostPayload(p.command)
  OBVIOUS
<1>7. /\ q \in Seq(K!Byte) /\ Len(q) \in 0 .. 61
      /\ p.command.kind # "GroupSelect" => Len(q) = 0
      /\ p.command.kind = "GroupSelect" => Len(q) = 1 /\ q[1] = g
  <2>1. CASE p.command.kind = "GroupSelect"
    <3>1. q = <<g>>
      BY <1>5, <1>6, <2>1 DEF HostPayload
    <3>2. <<g>> \in Seq(K!Byte) /\ Len(<<g>>) = 1 /\ <<g>>[1] = g
      OBVIOUS
    <3> QED
      BY <2>1, <3>1, <3>2
  <2>2. CASE p.command.kind # "GroupSelect"
    <3>1. q = <<>>
      BY <1>6, <2>2 DEF HostPayload
    <3>2. <<>> \in Seq(K!Byte) /\ Len(<<>>) = 0
      OBVIOUS
    <3> QED
      BY <2>2, <3>1, <3>2
  <2> QED
    BY <2>1, <2>2
<1>8. f = Block(b, t, q)
  BY <1>1, <1>4, <1>6
<1>9. BlockOf(b, t, q, Block(b, t, q))
  BY <1>7, BlockIs
<1>10. /\ f \in Seq(K!Byte) /\ IsBlock(f) /\ f[2] = c
       /\ Len(f) = 4 + Len(q) /\ f[3] = t /\ (Len(q) = 1 => f[4] = g)
  BY <1>1, <1>2, <1>7, <1>8, <1>9 DEF BlockOf
<1>11. CASE p.command.kind = "GroupSelect"
  <2>1. Len(q) = 1
    BY <1>7, <1>11
  <2>2. Len(f) = 5 /\ f[4] = g
    BY <1>10, <2>1
  <2> QED
    BY <1>3, <1>4, <1>5, <1>10, <1>11, <2>2
<1>12. CASE p.command.kind # "GroupSelect"
  <2>1. Len(q) = 0
    BY <1>7, <1>12
  <2>2. Len(f) = 4
    BY <1>10, <2>1
  <2> QED
    BY <1>3, <1>4, <1>10, <1>12, <2>2
<1> QED
  BY <1>11, <1>12
\* The host block and the plan after a block with the title given.
Reply(title, d) ==
  \/ title = "Identification" /\ d.plan.stage = "WaitingIdentification" /\ d.txFrame[3] = 9
  \/ /\ title \in {"Ack", "GroupBody", "Refused"} /\ d.plan.stage = "WaitingGroupZero"
     /\ d.plan.group = 0 /\ Len(d.txFrame) = 4 /\ d.txFrame[3] = 18
  \/ title \in {"GroupBody", "Refused"} /\ d.plan.stage = "WaitingGroupSwitchAck" /\ d.txFrame[3] = 9
  \/ /\ title = "Ack" /\ d.plan.stage = "WaitingGroupHeader" /\ Len(d.txFrame) = 5
     /\ d.txFrame[3] = 41 /\ d.txFrame[4] = d.plan.group
  \/ /\ title = "GroupHeader" /\ d.plan.stage = "WaitingGroupBody" /\ Len(d.txFrame) = 5
     /\ d.txFrame[3] = 41 /\ d.txFrame[4] = d.plan.group

\* The plan has answered: the first byte of a new host block goes to the loop.
Answered(s, title, d) ==
  /\ Shape(d) /\ d.state = "Running" /\ d.queued
  /\ d.engine.state = "HostEcho" /\ d.engine.frame = <<>> /\ ~d.engine.deferred.pending
  /\ IsBlock(d.txFrame) /\ d.txIndex = 0 /\ d.actionByte = d.txFrame[1]
  /\ d.txFrame[2] = s.txCounter /\ d.txCounter = (s.txCounter + 1) % CounterModulus
  /\ Reply(title, d)

LEMMA BuiltIs ==
  ASSUME NEW c0 \in Sessions, ~Busy(c0), c0.engine.state = "RxLength", c0.engine.fault = "None",
         c0.engine.frame = <<>>, c0.engine.expectedSize = 0, ~c0.engine.deferred.pending,
         c0.state = "Running", ~c0.resetAfterFinalEcho, ~c0.plan.pending,
         NEW p \in Plan, NEW title \in Titles, Answer(c0.plan, title, p),
         c0.plan.stage = p.stage, c0.plan.group = p.group,
         NEW d, d = BuildCommand(c0, p.command)
  PROVE  Answered(c0, title, d)
<1>1. PICK b \in Seq(K!Byte) :
         /\ b = Block(c0.txCounter, HostTitle(p.command), HostPayload(p.command))
         /\ IsBlock(b) /\ b[2] = c0.txCounter
         /\ p.command.kind = "Ack" => Len(b) = 4 /\ b[3] = 9
         /\ p.command.kind = "GroupZero" => Len(b) = 4 /\ b[3] = 18
         /\ p.command.kind = "GroupSelect" => Len(b) = 5 /\ b[3] = 41 /\ b[4] = p.command.group
  BY SessionFields, CommandBlockIs
<1>2. PICK n \in 0 .. CounterModulus - 1 : n = (c0.txCounter + 1) % CounterModulus
  BY SessionFields, ModulusAssumption
<1> DEFINE c == [c0 EXCEPT !.txFrame = b, !.txCounter = n, !.txIndex = 0, !.txActive = TRUE]
<1>3. d = StartCurrentHostByte(c)
  BY <1>1, <1>2 DEF BuildCommand
<1>4. c \in Sessions
  BY DEF Sessions
<1>5. /\ c.engine = c0.engine /\ c.state = c0.state /\ c.plan = c0.plan /\ c.txFrame = b /\ c.txIndex = 0
      /\ c.txCounter = n /\ c.txActive /\ c.queued = c0.queued /\ c.issued = c0.issued
      /\ c.resetAfterFinalEcho = c0.resetAfterFinalEcho
  BY DEF Sessions
<1> HIDE DEF c
<1>6. Sent(c) = 1 /\ Len(b) \in 4 .. 65 /\ 1 < Len(b) /\ 1 <= Len(b) /\ 1 # Len(b)
  BY <1>1, <1>5 DEF Sent, IsBlock
<1>7. d \in Sessions /\ BeginsByte(c, d)
  <2>1. Sent(c) <= Len(c.txFrame)
    BY <1>5, <1>6
  <2>2. ~c.queued /\ ~c.issued /\ c.engine.state \in {"Idle", "RxLength"}
    BY <1>5 DEF Busy
  <2> QED
    BY <1>3, <1>4, <2>1, <2>2, StartIs
<1>8. /\ d.state = "Running" /\ d.plan = c0.plan /\ d.txFrame = b /\ d.txIndex = 0 /\ d.txCounter = n
      /\ d.txActive /\ ~d.resetAfterFinalEcho /\ d.queued /\ ~d.issued /\ d.actionByte = b[1]
  BY <1>5, <1>6, <1>7 DEF BeginsByte, SameBlock
<1>9. /\ d.engine.state = "HostEcho" /\ d.engine.fault = "None" /\ d.engine.frame = <<>>
      /\ d.engine.expectedSize = 0 /\ d.engine.expectedEcho = b[1]
      /\ d.engine.expectedAck = K!Complement(b[1]) /\ d.engine.requiresAck
      /\ d.engine.txRequest = K!NoRequest /\ ~d.engine.deferred.pending
      /\ ~d.engine.txCompletion /\ ~d.engine.echoSeen /\ ~d.engine.ackSeen
  <2>1. Sent(c) < Len(c.txFrame) /\ c.txFrame[Sent(c)] = b[1]
    BY <1>5, <1>6
  <2> QED
    BY <1>5, <1>7, <2>1 DEF BeginsByte
<1>10. Sent(d) = 1 /\ ~LastByte(d) /\ Busy(d)
  <2>1. Sent(d) = 1 /\ Busy(d)
    BY <1>8 DEF Sent, Busy
  <2> QED
    BY <1>6, <1>8, <2>1 DEF LastByte
<1>11. HostShape(d)
  BY <1>1, <1>6, <1>8, <1>9, <1>10 DEF HostShape
<1>12. WaitShape(d)
  BY <1>8, <1>9, <1>10, <1>11 DEF WaitShape, EchoStates, HostStates
<1>13. EngineShape(d.engine)
  BY <1>9 DEF EngineShape, RxEchoes
<1>14. Shape(d)
  BY <1>1, <1>6, <1>7, <1>8, <1>12, <1>13 DEF Shape
<1>15. Reply(title, d)
  BY <1>1, <1>8 DEF Answer, Reply
<1> QED
  BY <1>1, <1>2, <1>8, <1>9, <1>14, <1>15 DEF Answered

\* A whole block is handedOn and given to the plan.
LEMMA FrameDone ==
  ASSUME NEW s, Listening(s), NEW h, Kept(s, h), ~h.txActive, ~h.resetAfterFinalEcho,
         NEW e \in K!Engine, h.engine = e, e.state = "Idle", e.fault = "None", IsBlock(e.frame),
         NEW title, title = ParsedTitle(e.frame)
  PROVE  /\ HasFrame(h) /\ K!ParseValid(h.engine.frame)
         /\ Accepts(s.plan, title) => Answered(s, title, SessionRxByte(h))
         /\ ~Accepts(s.plan, title) =>
              /\ Quiet(s, SessionRxByte(h)) /\ SessionRxByte(h).engine.state = "RxLength"
              /\ SessionRxByte(h).engine.frame = <<>>
<1> DEFINE d == SessionRxByte(h)
<1>1. h \in Sessions /\ ~Busy(h) /\ SameTalk(s, h) /\ h.state = "Running" /\ ~s.plan.pending
  BY ListeningFields DEF Kept
<1>2. HasFrame(h) /\ K!ParseValid(e.frame)
  <2>1. Len(e.frame) \in 4 .. 65 /\ e.frame[1] = Len(e.frame) - 1 /\ e.frame[Len(e.frame)] = 3
    BY DEF IsBlock
  <2>2. PICK n \in 4 .. 65 : n = Len(e.frame)
    BY <2>1
  <2>3. e.frame[1] = n - 1 /\ e.frame[n] = 3
    BY <2>1, <2>2
  <2>4. n >= 4 /\ (n - 1) + 1 = n
    OBVIOUS
  <2>5. e.frame[1] + 1 = n
    BY <2>3, <2>4
  <2> QED
    BY <2>2, <2>3, <2>4, <2>5 DEF HasFrame, K!FrameComplete, K!ParseValid, K!Terminator, K!MaxFrame
<1>3. d = AnswerFrame(h)
  BY <1>2 DEF SessionRxByte
<1>4. PICK f \in K!Engine :
         /\ f = K!ResetEngine(e)
         /\ f.state = "RxLength" /\ f.fault = "None" /\ f.frame = <<>> /\ f.expectedSize = 0
         /\ f.txRequest = K!NoRequest /\ f.deferred = K!NoRequest
         /\ ~f.txCompletion /\ ~f.echoSeen /\ ~f.ackSeen
  BY ResetIs
<1> DEFINE fresh == [h EXCEPT !.engine = f]
<1>5. [h EXCEPT !.engine = K!ResetEngine(@)] = fresh
  BY <1>4
<1>6. /\ fresh \in Sessions /\ fresh.engine = f /\ fresh.state = "Running" /\ SameTalk(h, fresh)
      /\ fresh.queued = h.queued /\ fresh.issued = h.issued /\ ~fresh.txActive /\ ~fresh.resetAfterFinalEcho
  BY <1>1 DEF Sessions, SameTalk
<1>7. PICK p : p = OnFrame(h.plan, title)
  OBVIOUS
<1>8. h.plan = s.plan /\ h.plan \in Plan /\ title \in Titles
  BY <1>1, SessionFields, ParsedIsTitle DEF SameTalk
<1>9. /\ ~Accepts(s.plan, title) => p = s.plan
      /\ Accepts(s.plan, title) => p \in Plan /\ p.pending /\ Answer(s.plan, title, p)
  BY <1>1, <1>7, <1>8, OnFrameIs
<1>10. CASE ~Accepts(s.plan, title)
  <2> DEFINE c == [fresh EXCEPT !.plan = p]
  <2>1. d = AdvanceAfterTransportEvent(c)
    <3>1. /\ h.engine.frame = e.frame /\ K!ParseValid(h.engine.frame)
          /\ ParsedTitle(h.engine.frame) = title /\ ~Accepts(h.plan, title)
      BY <1>2, <1>8, <1>10
    <3> HIDE DEF fresh
    <3> QED
      BY <1>3, <1>5, <1>7, <3>1 DEF AnswerFrame
  <2>2. p = h.plan /\ p \in Plan
    BY <1>8, <1>9, <1>10
  <2> HIDE DEF fresh
  <2>3. /\ c \in Sessions /\ c.engine = f /\ c.state = "Running" /\ SameTalk(h, c)
        /\ c.queued = h.queued /\ c.issued = h.issued /\ ~c.txActive /\ ~c.resetAfterFinalEcho
    BY <1>6, <2>2 DEF Sessions, SameTalk
  <2> HIDE DEF c
  <2>4. ~Busy(c) /\ SameTalk(s, c)
    BY <1>1, <2>3 DEF Busy, SameTalk
  <2>5. ~c.engine.txRequest.pending
    BY <1>4, <2>3, RequestFields
  <2>6. d = c
    BY <2>1, <2>3, <2>4, <2>5, AdvanceIs
  <2>7. WaitShape(c)
    BY <1>4, <2>3, <2>4 DEF WaitShape, HostStates, EchoStates
  <2>8. EngineShape(c.engine)
    BY <1>4, <2>3, RequestFields DEF EngineShape, RxEchoes
  <2>9. Listening(c)
    BY <2>3, <2>4, <2>7, <2>8, ListeningFields DEF Listening, Shape, SameTalk, Busy
  <2> QED
    BY <1>2, <1>4, <1>10, <2>3, <2>4, <2>6, <2>9 DEF Quiet
<1>11. CASE Accepts(s.plan, title)
  <2>1. PICK q \in Plan : q = PopCommand(p) /\ q.stage = p.stage /\ q.group = p.group /\ ~q.pending
    <3>1. /\ PopCommand(p) \in Plan /\ PopCommand(p).stage = p.stage /\ PopCommand(p).group = p.group
          /\ ~PopCommand(p).pending
      BY <1>9, <1>11 DEF PopCommand, Plan
    <3> QED
      BY <3>1
  <2> DEFINE c0 == [fresh EXCEPT !.plan = q]
  <2> DEFINE a == BuildCommand(c0, p.command)
  <2>2. d = IF a.state = "Fault" THEN a ELSE AdvanceAfterTransportEvent(a)
    <3>1. /\ h.engine.frame = e.frame /\ K!ParseValid(h.engine.frame)
          /\ ParsedTitle(h.engine.frame) = title /\ Accepts(h.plan, title)
      BY <1>2, <1>8, <1>11
    <3> HIDE DEF fresh
    <3> QED
      BY <1>3, <1>5, <1>7, <2>1, <3>1 DEF AnswerFrame
  <2> HIDE DEF fresh
  <2>3. /\ c0 \in Sessions /\ c0.engine = f /\ c0.state = "Running" /\ c0.plan = q
        /\ c0.queued = h.queued /\ c0.issued = h.issued /\ ~c0.resetAfterFinalEcho
        /\ c0.txCounter = h.txCounter
    BY <1>6 DEF Sessions, SameTalk
  <2> HIDE DEF c0
  <2>4. ~Busy(c0) /\ ~c0.engine.deferred.pending
    BY <1>1, <1>4, <2>3, RequestFields DEF Busy
  <2>5. Answer(c0.plan, title, p)
    BY <1>9, <1>11 DEF Answer
  <2>6. Answered(c0, title, a)
    BY <1>4, <1>8, <1>9, <1>11, <2>1, <2>3, <2>4, <2>5, BuiltIs
  <2>7. Answered(s, title, a)
    BY <1>1, <2>3, <2>6 DEF Answered, SameTalk
  <2> HIDE DEF a
  <2>8. d = a
    BY <2>2, <2>7 DEF Answered, AdvanceAfterTransportEvent
  <2> QED
    BY <1>2, <1>11, <2>7, <2>8
<1> QED
  BY <1>10, <1>11
\* The block f is whole: it is handedOn, and the plan answers it or does not.
BlockTaken(s, f, h, d) ==
  /\ HasFrame(h) /\ K!ParseValid(h.engine.frame) /\ h.engine.frame = f /\ IsBlock(f)
  /\ \/ Accepts(s.plan, ParsedTitle(f)) /\ Answered(s, ParsedTitle(f), d)
     \/ /\ ~Accepts(s.plan, ParsedTitle(f)) /\ Quiet(s, d)
        /\ d.engine.state = "RxLength" /\ d.engine.frame = <<>>

\* The byte x is taken for the next of the unit's block.
ByteTaken(s, x, h, d) ==
  \/ ~HasFrame(h) /\ FaultOutcome(s, d) /\ Len(s.engine.frame) + 1 = s.engine.expectedSize /\ x # 3
  \/ ~HasFrame(h) /\ AckQueued(s, x, d) /\ Len(s.engine.frame) + 1 < s.engine.expectedSize
  \/ /\ Len(s.engine.frame) + 1 = s.engine.expectedSize
     /\ BlockTaken(s, Append(s.engine.frame, x), h, d)

\* The byte x is taken for the length of the unit's block.
LengthTaken(s, x, h, d) ==
  /\ ~HasFrame(h)
  /\ \/ x \notin 3 .. 64 /\ FaultOutcome(s, d)
     \/ x \in 3 .. 64 /\ AckQueued(s, x, d)

LEMMA NextByteIs ==
  ASSUME NEW s, Listening(s), s.engine.state \in RxEchoes \cup {"RxByte"}, NEW x \in K!Byte,
         NEW h, Kept(s, h), ~h.txActive, ~h.resetAfterFinalEcho,
         NEW e \in K!Engine, h.engine = e, NextByte(s.engine, x, e), NEW d, d = SessionRxByte(h)
  PROVE  ByteTaken(s, x, h, d)
<1>1. /\ EngineShape(s.engine) /\ s.engine.fault = "None" /\ s.engine.txRequest = K!NoRequest
      /\ s.engine.frame \in Seq(K!Byte)
  BY ListeningFields
<1>2. PICK n \in 4 .. 65 : n = s.engine.expectedSize
  BY <1>1 DEF EngineShape
<1>3. PICK m \in Nat : m = Len(s.engine.frame) /\ 1 <= m /\ m < n
  BY <1>1, <1>2 DEF EngineShape
<1>4. s.engine.frame[1] = n - 1
  <2>1. n = s.engine.frame[1] + 1 /\ 1 \in 1 .. Len(s.engine.frame)
    BY <1>1, <1>2, <1>3 DEF EngineShape
  <2>2. PICK a \in K!Byte : a = s.engine.frame[1]
    BY <1>1, <2>1
  <2>3. a \in Nat /\ n = a + 1
    <3>1. a \in Nat
      BY DEF K!Byte
    <3>2. n = a + 1
      BY <2>1, <2>2
    <3> QED
      BY <3>1, <3>2
  <2>4. a = n - 1
    BY <2>3
  <2> QED
    BY <2>2, <2>4
<1>5. PICK g \in Seq(K!Byte) : /\ g = Append(s.engine.frame, x) /\ Len(g) = m + 1
                               /\ g[1] = n - 1 /\ g[m + 1] = x
  <2>1. PICK f \in Seq(K!Byte) : f = s.engine.frame
    BY <1>1
  <2>2. /\ Append(f, x) \in Seq(K!Byte) /\ Len(Append(f, x)) = m + 1
        /\ Append(f, x)[1] = f[1] /\ Append(f, x)[m + 1] = x
    BY <1>3, <2>1
  <2> QED
    BY <1>4, <2>1, <2>2
<1>6. e.frame = g /\ e.expectedSize = n
  BY <1>2, <1>5 DEF NextByte
<1>7. CASE m + 1 < n
  <2>1. /\ e.state \in RxEchoes /\ e.fault = "None"
        /\ e.expectedEcho = K!Complement(x) /\ e.txRequest = K!Request(K!Complement(x))
        /\ ~e.deferred.pending /\ ~e.txCompletion /\ ~e.echoSeen /\ ~e.ackSeen
    BY <1>1, <1>2, <1>3, <1>7 DEF NextByte
  <2>2. EngineShape(e)
    <3>1. /\ Len(e.frame) <= e.expectedSize /\ e.expectedSize <= 65 /\ 1 <= Len(e.frame)
          /\ Len(e.frame) < e.expectedSize /\ e.expectedSize = e.frame[1] + 1 /\ e.expectedSize \in 4 .. 65
      BY <1>3, <1>5, <1>6, <1>7
    <3>2. e.frame[Len(e.frame)] = x
      BY <1>5, <1>6
    <3> QED
      BY <2>1, <3>1, <3>2 DEF EngineShape, RxEchoes, HostStates
  <2>3. AckQueued(s, x, d) /\ ~HasFrame(h)
    BY <1>5, <1>6, <2>1, <2>2, AckQueuedIs
  <2> QED
    BY <1>2, <1>3, <1>7, <2>3 DEF ByteTaken
<1>8. CASE m + 1 = n /\ x = 3
  <2>1. e.state = "Idle" /\ e.fault = "None"
    BY <1>1, <1>2, <1>3, <1>8 DEF NextByte
  <2>2. IsBlock(g)
    <3>1. Len(g) = n /\ g[n] = 3 /\ g[1] = n - 1
      BY <1>5, <1>8
    <3> QED
      BY <3>1 DEF IsBlock
  <2>3. /\ HasFrame(h) /\ K!ParseValid(h.engine.frame)
        /\ Accepts(s.plan, ParsedTitle(g)) => Answered(s, ParsedTitle(g), d)
        /\ ~Accepts(s.plan, ParsedTitle(g)) =>
             /\ Quiet(s, d) /\ d.engine.state = "RxLength"
             /\ d.engine.frame = <<>>
    BY <1>6, <2>1, <2>2, FrameDone
  <2>4. BlockTaken(s, g, h, d)
    BY <1>6, <2>2, <2>3 DEF BlockTaken
  <2> QED
    BY <1>2, <1>3, <1>5, <1>8, <2>4 DEF ByteTaken
<1>9. CASE m + 1 = n /\ x # 3
  <2>1. e.state = "Fault" /\ e.fault # "None"
    BY <1>1, <1>2, <1>3, <1>9 DEF NextByte
  <2>2. Len(e.frame) <= e.expectedSize /\ e.expectedSize <= 65
    <3>1. Len(e.frame) = n /\ e.expectedSize = n
      BY <1>5, <1>6, <1>9
    <3>2. n <= n /\ n <= 65
      OBVIOUS
    <3> QED
      BY <3>1, <3>2
  <2>3. FaultOutcome(s, d) /\ ~HasFrame(h)
    BY <2>1, <2>2, FaultIs
  <2> QED
    BY <1>2, <1>3, <1>9, <2>3 DEF ByteTaken
<1>10. m + 1 < n \/ m + 1 = n
  BY <1>3
<1> QED
  BY <1>7, <1>8, <1>9, <1>10

\* The session receives.
LEMMA ReceiveFlags ==
  ASSUME NEW s, Listening(s), s.engine.state \in RxEchoes \cup {"RxLength", "RxByte"}
  PROVE  ~s.resetAfterFinalEcho /\ ~s.txActive
BY ResetFlag DEF RxEchoes, HostStates

\* The echo of an answered byte.
LEMMA OwnEcho ==
  ASSUME NEW s, Listening(s), s.engine.state \in RxEchoes, NEW h, h = ReceiveByte(s, s.engine.expectedEcho),
         NEW d, d = SessionRxByte(h)
  PROVE  /\ ~s.engine.deferred.pending =>
              /\ ~HasFrame(h) /\ Quiet(s, d) /\ d.engine.state = "RxByte" /\ d.engine.frame = s.engine.frame
         /\ s.engine.deferred.pending => ByteTaken(s, s.engine.deferred.byte, h, d)
<1>1. /\ s \in Sessions /\ ~Busy(s) /\ s.engine \in K!Engine /\ WaitShape(s) /\ EngineShape(s.engine)
      /\ s.engine.fault = "None" /\ s.engine.txRequest = K!NoRequest
  BY ListeningFields
<1>2. PICK b \in K!Byte : b = s.engine.expectedEcho
  BY <1>1, EngineFields
<1>3. PICK x \in K!Byte : x = s.engine.deferred.byte
  BY <1>1, EngineFields, RequestFields
<1>4. PICK e \in K!Engine :
         /\ e = K!OnRxByte(s.engine, b) /\ e.expectedSize = s.engine.expectedSize
         /\ ~s.engine.deferred.pending =>
              /\ e.state = "RxByte" /\ e.fault = s.engine.fault /\ e.frame = s.engine.frame
              /\ e.txRequest = s.engine.txRequest /\ ~e.deferred.pending
         /\ s.engine.deferred.pending => NextByte(s.engine, s.engine.deferred.byte, e)
  <2>1. s.engine.txCompletion /\ Len(s.engine.frame) < s.engine.expectedSize
    BY <1>1 DEF WaitShape, EngineShape, EchoStates, RxEchoes
  <2> QED
    BY <1>1, <1>2, <2>1, OwnEchoIs
<1>5. Kept(s, h) /\ h.engine = e /\ ~h.resetAfterFinalEcho /\ ~h.txActive
  <2>1. ~s.resetAfterFinalEcho /\ ~s.txActive
    BY ReceiveFlags
  <2>2. h = ReceiveByte(s, b) /\ e = K!OnRxByte(s.engine, b)
    BY <1>2, <1>4
  <2>3. Kept(s, h) /\ h.engine = e /\ ~h.resetAfterFinalEcho
    BY <1>1, <2>1, <2>2, HeardIs
  <2> QED
    BY <2>1, <2>3 DEF Kept
<1>6. CASE ~s.engine.deferred.pending
  <2>1. WaitShape(h)
    <3>1. ~Busy(h)
      BY <1>5 DEF Kept
    <3> QED
      BY <1>1, <1>4, <1>5, <1>6, <3>1 DEF WaitShape, EchoStates, HostStates
  <2>2. EngineShape(h.engine)
    BY <1>1, <1>4, <1>5, <1>6 DEF EngineShape, RxEchoes, HostStates
  <2>3. Quiet(s, d) /\ d = h /\ ~HasFrame(h)
    BY <1>5, <2>1, <2>2, QuietIs
  <2> QED
    BY <1>4, <1>5, <1>6, <2>3
<1>7. CASE s.engine.deferred.pending
  <2>1. NextByte(s.engine, x, e)
    BY <1>3, <1>4, <1>7
  <2>2. ByteTaken(s, x, h, d)
    BY <1>5, <2>1, NextByteIs
  <2> QED
    BY <1>3, <1>7, <2>2
<1> QED
  BY <1>6, <1>7

\* A byte of the unit's block that is waited for.
LEMMA DueByte ==
  ASSUME NEW s, Listening(s), s.engine.state = "RxByte", NEW b \in K!Byte, NEW h, h = ReceiveByte(s, b),
         NEW d, d = SessionRxByte(h)
  PROVE  ByteTaken(s, b, h, d)
<1>1. /\ s \in Sessions /\ ~Busy(s) /\ s.engine \in K!Engine /\ WaitShape(s) /\ EngineShape(s.engine)
      /\ s.engine.fault = "None" /\ s.engine.txRequest = K!NoRequest
  BY ListeningFields
<1>2. Len(s.engine.frame) < s.engine.expectedSize /\ ~s.engine.deferred.pending
  BY <1>1 DEF EngineShape
<1>3. PICK e : e = K!OnRxByte(s.engine, b) /\ e = K!AcceptByte(s.engine, b)
  BY <1>1, DueByteIs
<1>4. /\ e \in K!Engine /\ e.expectedSize = s.engine.expectedSize /\ e.frame = Append(s.engine.frame, b)
      /\ \/ Len(s.engine.frame) + 1 < s.engine.expectedSize /\ AckOwed(s.engine, b, e)
         \/ /\ Len(s.engine.frame) + 1 = s.engine.expectedSize /\ b = 3
            /\ e.state = "Idle" /\ e.fault = s.engine.fault /\ e.txRequest = s.engine.txRequest
         \/ /\ Len(s.engine.frame) + 1 = s.engine.expectedSize /\ b # 3
            /\ e.state = "Fault" /\ e.fault # "None"
  BY <1>1, <1>2, <1>3, AcceptByteIs
<1>5. NextByte(s.engine, b, e)
  BY <1>2, <1>4 DEF NextByte, AckOwed
<1>6. Kept(s, h) /\ h.engine = e /\ ~h.resetAfterFinalEcho /\ ~h.txActive
  <2>1. ~s.resetAfterFinalEcho /\ ~s.txActive
    BY ReceiveFlags
  <2>2. PICK c \in K!Engine : c = e /\ c = K!OnRxByte(s.engine, b)
    BY <1>3, <1>4
  <2>3. Kept(s, h) /\ h.engine = c /\ ~h.resetAfterFinalEcho
    BY <1>1, <2>1, <2>2, HeardIs
  <2> QED
    BY <2>1, <2>2, <2>3 DEF Kept
<1> QED
  BY <1>4, <1>5, <1>6, NextByteIs

LEMMA DueLength ==
  ASSUME NEW s, Listening(s), s.engine.state = "RxLength", NEW b \in K!Byte, NEW h, h = ReceiveByte(s, b),
         NEW d, d = SessionRxByte(h)
  PROVE  LengthTaken(s, b, h, d)
<1>1. /\ s \in Sessions /\ ~Busy(s) /\ s.engine \in K!Engine /\ WaitShape(s) /\ EngineShape(s.engine)
      /\ s.engine.fault = "None" /\ s.engine.txRequest = K!NoRequest
  BY ListeningFields
<1>2. s.engine.frame = <<>> /\ ~s.engine.deferred.pending
  BY <1>1 DEF EngineShape
<1>3. PICK e : e = K!OnRxByte(s.engine, b) /\ e = K!AcceptLength(s.engine, b)
  BY <1>1, DueByteIs
<1>4. /\ e \in K!Engine
      /\ \/ /\ b \notin 3 .. 64 /\ e.state = "Fault" /\ e.fault # "None"
            /\ e.frame = <<>> /\ e.expectedSize = s.engine.expectedSize
         \/ b \in 3 .. 64 /\ AckOwed(s.engine, b, e) /\ e.expectedSize = b + 1
  BY <1>1, <1>2, <1>3, AcceptLengthIs
<1>6. Kept(s, h) /\ h.engine = e /\ ~h.resetAfterFinalEcho /\ ~h.txActive
  <2>1. ~s.resetAfterFinalEcho /\ ~s.txActive
    BY ReceiveFlags
  <2>2. PICK c \in K!Engine : c = e /\ c = K!OnRxByte(s.engine, b)
    BY <1>3, <1>4
  <2>3. Kept(s, h) /\ h.engine = c /\ ~h.resetAfterFinalEcho
    BY <1>1, <2>1, <2>2, HeardIs
  <2> QED
    BY <2>1, <2>2, <2>3 DEF Kept
<1>7. CASE b \notin 3 .. 64
  <2>1. e.state = "Fault" /\ e.fault # "None" /\ e.frame = <<>> /\ e.expectedSize = s.engine.expectedSize
    BY <1>4, <1>7
  <2>2. Len(e.frame) <= e.expectedSize /\ e.expectedSize <= 65
    BY <1>1, <1>2, <2>1 DEF EngineShape
  <2>3. FaultOutcome(s, d) /\ ~HasFrame(h)
    BY <1>4, <1>6, <2>1, <2>2, FaultIs
  <2> QED
    BY <1>7, <2>3 DEF LengthTaken
<1>8. CASE b \in 3 .. 64
  <2>1. AckOwed(s.engine, b, e) /\ e.expectedSize = b + 1
    BY <1>4, <1>8
  <2>2. Append(s.engine.frame, b) = <<b>> /\ Len(<<b>>) = 1 /\ <<b>>[1] = b
    BY <1>2
  <2>3. EngineShape(e)
    BY <1>8, <2>1, <2>2 DEF EngineShape, AckOwed, RxEchoes, HostStates
  <2>4. AckQueued(s, b, d) /\ ~HasFrame(h)
    BY <1>1, <1>2, <1>4, <1>6, <2>1, <2>2, <2>3, AckQueuedIs DEF AckOwed
  <2> QED
    BY <1>8, <2>4 DEF LengthTaken
<1> QED
  BY <1>7, <1>8

\* The next byte of the host block goes to the loop.
NextHostByte(s, d) ==
  /\ Shape(d) /\ d.state = "Running" /\ d.queued
  /\ d.engine.state = "HostEcho" /\ d.engine.frame = <<>> /\ ~d.engine.deferred.pending
  /\ d.plan = s.plan /\ d.txFrame = s.txFrame /\ d.txCounter = s.txCounter
  /\ d.txIndex = s.txIndex + 1 /\ d.actionByte = d.txFrame[Sent(d)]

\* The unit's answer to a host byte.
LEMMA UnitAck ==
  ASSUME NEW s, Listening(s), s.engine.state = "HostAck", ~s.engine.deferred.pending,
         NEW h, h = ReceiveByte(s, s.engine.expectedAck), NEW d, d = SessionRxByte(h)
  PROVE  ~HasFrame(h) /\ NextHostByte(s, d)
<1>1. /\ s \in Sessions /\ ~Busy(s) /\ s.engine \in K!Engine /\ WaitShape(s) /\ EngineShape(s.engine)
      /\ s.engine.fault = "None" /\ s.engine.txRequest = K!NoRequest /\ s.engine.frame = <<>>
      /\ ~s.plan.pending
  BY ListeningFields DEF EngineShape, HostStates
<1>2. PICK b \in K!Byte : b = s.engine.expectedAck
  BY <1>1, EngineFields
<1>3. PICK e \in K!Engine :
         /\ e = K!OnRxByte(s.engine, b) /\ e.state = "Idle" /\ e.fault = s.engine.fault
         /\ e.frame = s.engine.frame /\ e.expectedSize = s.engine.expectedSize
         /\ e.txRequest = s.engine.txRequest /\ e.deferred = s.engine.deferred
  BY <1>1, <1>2, UnitAckIs DEF WaitShape
<1>4. HostShape(s) /\ ~LastByte(s) /\ s.txActive /\ ~s.resetAfterFinalEcho
  BY <1>1, ResetFlag DEF WaitShape, HostShape, HostStates
<1>5. Kept(s, h) /\ h.engine = e /\ ~h.resetAfterFinalEcho /\ h.txActive
  <2>1. h = ReceiveByte(s, b)
    BY <1>2
  <2>2. Kept(s, h) /\ h.engine = e /\ ~h.resetAfterFinalEcho
    BY <1>1, <1>3, <1>4, <2>1, HeardIs
  <2> QED
    BY <1>4, <2>2 DEF Kept
<1>6. h \in Sessions /\ ~Busy(h) /\ SameTalk(s, h) /\ h.state = "Running"
  BY <1>5, ListeningFields DEF Kept
<1>7. d = AdvanceAfterTransportEvent(h) /\ ~HasFrame(h)
  <2>1. Len(h.engine.frame) = 0 /\ h.engine.fault = "None"
    BY <1>1, <1>3, <1>5
  <2> QED
    BY <1>6, <2>1, GoesOn
<1>8. PICK n \in Nat, m \in Nat : /\ n = s.txIndex /\ m = Len(s.txFrame) /\ n + 1 < m /\ m \in 4 .. 65
  <2>1. PICK n \in Nat, m \in Nat : n = s.txIndex /\ m = Len(s.txFrame)
    BY <1>1, SessionFields
  <2>2. n + 1 <= m /\ n + 1 # m
    BY <1>4, <2>1 DEF HostShape, Sent, LastByte
  <2>3. m \in 4 .. 65
    BY <1>4, <2>1, Zenon DEF HostShape, IsBlock
  <2>4. n + 1 < m
    BY <2>2
  <2> QED
    BY <2>1, <2>3, <2>4
<1> DEFINE c == [h EXCEPT !.txIndex = @ + 1]
<1>9. d = StartCurrentHostByte(c)
  <2>1. Sent(h) < Len(h.txFrame)
    BY <1>6, <1>8 DEF SameTalk, Sent
  <2> QED
    BY <1>3, <1>5, <1>6, <1>7, <2>1, AdvanceIs
<1>10. c \in Sessions
  <2>1. h.txIndex + 1 \in Nat
    BY <1>6, SessionFields
  <2> QED
    BY <1>6, <2>1 DEF Sessions
<1>11. /\ c.engine = e /\ c.state = "Running" /\ c.plan = s.plan /\ c.txFrame = s.txFrame /\ c.txIndex = n + 1
       /\ c.txCounter = s.txCounter /\ c.txActive /\ ~c.queued /\ ~c.issued /\ ~c.resetAfterFinalEcho
  BY <1>5, <1>6, <1>8 DEF Sessions, SameTalk, Busy
<1> HIDE DEF c
<1>12. d \in Sessions /\ BeginsByte(c, d)
  <2>1. Sent(c) <= Len(c.txFrame)
    BY <1>8, <1>11 DEF Sent
  <2> QED
    BY <1>3, <1>9, <1>10, <1>11, <2>1, StartIs
<1>13. /\ d.state = "Running" /\ d.plan = s.plan /\ d.txFrame = s.txFrame /\ d.txIndex = n + 1
       /\ d.txCounter = s.txCounter /\ d.txActive /\ ~d.resetAfterFinalEcho /\ d.queued /\ ~d.issued
       /\ d.actionByte = d.txFrame[Sent(d)] /\ Sent(d) = n + 2 /\ Sent(c) = Sent(d)
  BY <1>11, <1>12 DEF BeginsByte, SameBlock, Sent
<1>14. /\ d.engine.state = "HostEcho" /\ d.engine.fault = "None" /\ d.engine.frame = <<>>
       /\ d.engine.expectedSize = s.engine.expectedSize /\ d.engine.expectedEcho = d.txFrame[Sent(d)]
       /\ d.engine.expectedAck = K!Complement(d.txFrame[Sent(d)])
       /\ d.engine.requiresAck <=> Sent(d) < Len(d.txFrame)
       /\ d.engine.txRequest = K!NoRequest /\ ~d.engine.deferred.pending
       /\ ~d.engine.txCompletion /\ ~d.engine.echoSeen /\ ~d.engine.ackSeen
  BY <1>1, <1>3, <1>11, <1>12, <1>13 DEF BeginsByte
<1>15. HostShape(d)
  <2>1. Busy(d) /\ IsBlock(d.txFrame)
    BY <1>4, <1>13 DEF Busy, HostShape
  <2>2. Sent(d) <= Len(d.txFrame) /\ (Sent(d) < Len(d.txFrame) <=> ~LastByte(d))
    BY <1>8, <1>13 DEF LastByte
  <2> QED
    BY <1>13, <1>14, <2>1, <2>2 DEF HostShape
<1>16. WaitShape(d)
  BY <1>13, <1>14, <1>15 DEF WaitShape, EchoStates, HostStates, Busy
<1>17. EngineShape(d.engine)
  BY <1>1, <1>14 DEF EngineShape, RxEchoes
<1>18. Shape(d)
  <2>1. IsBlock(d.txFrame) /\ d.txIndex <= Len(d.txFrame)
    BY <1>4, <1>8, <1>13 DEF HostShape
  <2> QED
    BY <1>1, <1>12, <1>13, <1>16, <1>17, <2>1 DEF Shape
<1>19. NextHostByte(s, d)
  BY <1>8, <1>13, <1>14, <1>18 DEF NextHostByte
<1> QED
  BY <1>7, <1>19
-----------------------------------------------------------------------------
(* The two sides and the bytes between them. *)

Units ==
  [phase : {"send", "await", "receive", "acknowledge", "silent"}, frame : Seq(K!Byte), index : Nat,
   block : Seq(K!Byte), asked : Seq(K!Byte), idents : Nat]

\* The unit waits for an answer to a byte that is not its last, and the host's block is not done
\* while it receives.
UnitShape(u) ==
  /\ u \in Units /\ IsBlock(u.frame) /\ 1 <= u.index /\ u.index <= Len(u.frame)
  /\ u.phase = "await" => u.index < Len(u.frame)
  /\ u.phase = "acknowledge" => u.block # <<>>
  /\ u.phase \in {"receive", "acknowledge"} /\ u.block # <<>> => ~BlockDone(u.block)

\* Bytes the session has still to take before it sends again.
Need(s) ==
  IF s.engine.state \in EchoStates THEN (IF s.engine.deferred.pending THEN 1 ELSE 2)
  ELSE IF s.engine.state = "HostAck" /\ s.engine.deferred.pending THEN 0 ELSE 1

\* A byte on its way to the line comes back as an echo and is answered.
OnWire(s, w) == IF s.queued \/ w # <<>> THEN 2 ELSE 0
FromUnit(u) == IF u.phase \in {"send", "acknowledge"} THEN 1 ELSE 0
Coming(s, q, w, u) == Len(q) + OnWire(s, w) + FromUnit(u)

Agree(f, g, n) == \A i \in 1 .. n : f[i] = g[i]

\* A byte on its way is the answer the unit awaits, or the next of the host's block.
AnswersUnit(s, u, h) ==
  /\ u.phase = "await" /\ u.index = Len(s.engine.frame)
  /\ s.actionByte = K!Complement(s.engine.frame[u.index])
  /\ Agree(s.engine.frame, u.frame, u.index - 1)
  /\ u.asked = s.txFrame /\ s.txCounter = h

ContinuesBlock(s, u, h) ==
  /\ u.phase = "receive" /\ s.engine.frame = <<>>
  /\ IsBlock(s.txFrame) /\ Sent(s) <= Len(s.txFrame)
  /\ Len(u.block) = s.txIndex /\ Agree(u.block, s.txFrame, s.txIndex)
  /\ s.actionByte = s.txFrame[Sent(s)]
  /\ s.txFrame[2] = h /\ s.txCounter = (h + 1) % CounterModulus

WireRel(s, w, u, h) ==
  /\ s.queued => w = <<>>
  /\ w # <<>> => w = <<s.actionByte>>
  /\ s.queued \/ w # <<>> => AnswersUnit(s, u, h) \/ ContinuesBlock(s, u, h)

\* The unit has heard all the session has sent, and sends or has sent byte k + 1 of its block.
Ahead(k, u) ==
  \/ u.phase \in {"send", "await"} /\ u.index = k + 1
  \/ u.phase = "receive" /\ k + 1 = Len(u.frame) /\ u.block = <<>>

HeardBlock(s, u, h) ==
  /\ u.phase \in {"acknowledge", "receive"}
  /\ Len(u.block) = Sent(s) /\ Agree(u.block, s.txFrame, Sent(s))
  /\ s.txFrame[2] = h /\ s.txCounter = (h + 1) % CounterModulus

HeardAnswer(s, u, h) ==
  /\ Agree(s.engine.frame, u.frame, Len(s.engine.frame))
  /\ Ahead(Len(s.engine.frame), u)
  /\ u.asked = s.txFrame /\ s.txCounter = h

Talking(s) == s.engine.state \in HostStates /\ ~LastByte(s)

Heard(s, u, h) ==
  /\ Talking(s) => HeardBlock(s, u, h)
  /\ ~Talking(s) => HeardAnswer(s, u, h)

\* No more bytes come than the session takes before it sends again; if none was lost, the unit has
\* heard everything.
Balance(s, q, w, u, h) ==
  s.state = "Running" =>
    /\ Coming(s, q, w, u) <= Need(s)
    /\ Coming(s, q, w, u) = Need(s) /\ ~s.queued /\ w = <<>> => Heard(s, u, h)

Sound(s, q, w, u, h) ==
  /\ Shape(s) /\ PlanShape(s) /\ UnitShape(u) /\ q \in Seq(K!Byte) /\ w \in Seq(K!Byte)
  /\ WireRel(s, w, u, h) /\ Balance(s, q, w, u, h)

LEMMA UnitFields ==
  ASSUME NEW u \in Units
  PROVE  /\ u.phase \in {"send", "await", "receive", "acknowledge", "silent"}
         /\ u.frame \in Seq(K!Byte) /\ u.index \in Nat /\ u.block \in Seq(K!Byte)
         /\ u.asked \in Seq(K!Byte) /\ u.idents \in Nat
BY DEF Units

\* The wire and what was heard depend on the talk and the block received so far.
LEMMA WireKept ==
  ASSUME NEW s, NEW d, SameTalk(s, d), d.engine.frame = s.engine.frame, NEW w, NEW u, NEW h,
         WireRel(s, w, u, h), d.queued => s.queued /\ w = <<>>
  PROVE  WireRel(d, w, u, h)
<1>1. AnswersUnit(s, u, h) => AnswersUnit(d, u, h)
  BY DEF AnswersUnit, SameTalk
<1>2. ContinuesBlock(s, u, h) => ContinuesBlock(d, u, h)
  BY DEF ContinuesBlock, SameTalk, Sent
<1> QED
  BY <1>1, <1>2 DEF WireRel, SameTalk

LEMMA HeardKept ==
  ASSUME NEW s, NEW d, SameTalk(s, d), d.engine.frame = s.engine.frame, NEW u, NEW h,
         Talking(d) <=> Talking(s), Heard(s, u, h)
  PROVE  Heard(d, u, h)
<1>1. HeardBlock(s, u, h) => HeardBlock(d, u, h)
  BY DEF HeardBlock, SameTalk, Sent
<1>2. HeardAnswer(s, u, h) => HeardAnswer(d, u, h)
  BY DEF HeardAnswer, SameTalk
<1> QED
  BY <1>1, <1>2 DEF Heard

LEMMA PlanKept ==
  ASSUME NEW s, NEW d, SameTalk(s, d), PlanShape(s)
  PROVE  PlanShape(d)
BY DEF PlanShape, SameTalk

\* A session that has ended sends nothing more.
LEMMA EndedIsSound ==
  ASSUME NEW s, NEW q, NEW w, NEW u, NEW h, Sound(s, q, w, u, h), NEW d, SameTalk(s, d), Shape(d),
         d.state = "Fault", ~Busy(d), NEW r \in Seq(K!Byte),
         d.engine.frame = s.engine.frame \/ w = <<>>
  PROVE  Sound(d, r, w, u, h)
<1>1. ~d.queued /\ PlanShape(d)
  BY PlanKept DEF Sound, Busy
<1>2. WireRel(d, w, u, h)
  <2>1. CASE d.engine.frame = s.engine.frame
    BY <1>1, <2>1, WireKept DEF Sound
  <2>2. CASE w = <<>>
    BY <1>1, <2>2 DEF WireRel
  <2> QED
    BY <2>1, <2>2
<1>3. Balance(d, r, w, u, h)
  BY DEF Balance
<1> QED
  BY <1>1, <1>2, <1>3 DEF Sound

\* popAction() and submit_action.
LEMMA SubmitIsSound ==
  ASSUME NEW s, NEW q, NEW w, NEW u, NEW h, Sound(s, q, w, u, h), s.queued, NEW d, d = PopAction(s)
  PROVE  Sound(d, q, <<s.actionByte>>, u, h)
<1>1. /\ Shape(d) /\ SameTalk(s, d) /\ d.engine = s.engine /\ d.state = "Running" /\ d.issued /\ ~d.queued
  BY PopIs DEF Sound
<1>2. s \in Sessions /\ s.state = "Running" /\ s.actionByte \in K!Byte
  BY SessionFields DEF Sound, Shape, Busy
<1>3. WireRel(d, <<s.actionByte>>, u, h)
  <2>1. AnswersUnit(s, u, h) \/ ContinuesBlock(s, u, h)
    BY DEF Sound, WireRel
  <2>2. AnswersUnit(s, u, h) => AnswersUnit(d, u, h)
    BY <1>1 DEF AnswersUnit, SameTalk
  <2>3. ContinuesBlock(s, u, h) => ContinuesBlock(d, u, h)
    BY <1>1 DEF ContinuesBlock, SameTalk, Sent
  <2> QED
    BY <1>1, <2>1, <2>2, <2>3 DEF WireRel, SameTalk
<1>4. Balance(d, q, <<s.actionByte>>, u, h)
  <2>1. <<s.actionByte>> # <<>>
    OBVIOUS
  <2>2. OnWire(d, <<s.actionByte>>) = OnWire(s, w)
    BY <2>1 DEF OnWire
  <2>3. Need(d) = Need(s)
    BY <1>1 DEF Need
  <2>4. Coming(s, q, w, u) <= Need(s)
    BY <1>2 DEF Sound, Balance
  <2>5. Coming(d, q, <<s.actionByte>>, u) <= Need(d)
    BY <2>2, <2>3, <2>4 DEF Coming
  <2> QED
    BY <2>1, <2>5 DEF Balance
<1> QED
  BY <1>1, <1>2, <1>3, <1>4, PlanKept DEF Sound

\* wait_completion returns.
LEMMA CompletionIsSound ==
  ASSUME NEW s, NEW q, NEW w, NEW u, NEW h, Sound(s, q, w, u, h), s.issued, NEW d,
         d = SessionCompletion(s, TRUE)
  PROVE  Sound(d, q, w, u, h)
<1>1. /\ Shape(d) /\ SameTalk(s, d) /\ d.state = "Running" /\ ~Busy(d)
      /\ d.engine.state = s.engine.state /\ d.engine.frame = s.engine.frame
      /\ ~s.engine.deferred.pending /\ ~d.engine.deferred.pending
  BY CompletedIs DEF Sound
<1>2. s.state = "Running" /\ ~s.queued /\ ~d.queued
  BY <1>1 DEF Sound, Shape, Busy
<1>3. WireRel(d, w, u, h)
  BY <1>1, <1>2, WireKept DEF Sound
<1>4. Balance(d, q, w, u, h)
  <2>1. Need(d) = Need(s) /\ OnWire(d, w) = OnWire(s, w)
    BY <1>1, <1>2 DEF Need, OnWire
  <2>2. Coming(d, q, w, u) = Coming(s, q, w, u)
    BY <2>1 DEF Coming
  <2>3. Talking(d) <=> Talking(s)
    BY <1>1 DEF Talking, SameTalk, LastByte, Sent
  <2> QED
    BY <1>1, <1>2, <2>1, <2>2, <2>3, HeardKept DEF Sound, Balance
<1> QED
  BY <1>1, <1>3, <1>4, PlanKept DEF Sound

LEMMA FailureIsSound ==
  ASSUME NEW s, NEW q, NEW w, NEW u, NEW h, Sound(s, q, w, u, h), s.issued, NEW d,
         d = SessionCompletion(s, FALSE)
  PROVE  Sound(d, q, w, u, h)
<1>1. /\ Shape(d) /\ SameTalk(s, d) /\ d.state = "Fault" /\ ~Busy(d) /\ d.engine.frame = s.engine.frame
  BY FailedIs DEF Sound
<1> QED
  BY <1>1, EndedIsSound DEF Sound

\* submit_action is refused.
LEMMA RefusalIsSound ==
  ASSUME NEW s, NEW q, NEW w, NEW u, NEW h, Sound(s, q, w, u, h), s.queued, NEW d,
         d = SessionCompletion(PopAction(s), FALSE)
  PROVE  Sound(d, q, w, u, h)
<1>1. PICK c : c = PopAction(s)
  OBVIOUS
<1>2. Shape(c) /\ SameTalk(s, c) /\ c.engine = s.engine /\ c.issued
  BY <1>1, PopIs DEF Sound
<1>3. /\ Shape(d) /\ SameTalk(c, d) /\ d.state = "Fault" /\ ~Busy(d) /\ d.engine.frame = c.engine.frame
  BY <1>1, <1>2, FailedIs
<1>4. SameTalk(s, d)
  BY <1>2, <1>3 DEF SameTalk
<1> QED
  BY <1>2, <1>3, <1>4, EndedIsSound DEF Sound

\* disconnect()
LEMMA DisconnectIsSound ==
  ASSUME NEW s, NEW q, NEW w, NEW u, NEW h, Sound(s, q, w, u, h), ~Busy(s), NEW d, d = Disconnected(s)
  PROVE  Sound(d, q, w, u, h) /\ d.state = "Fault" /\ ~Busy(d)
<1>1. s \in Sessions
  BY DEF Sound, Shape
<1>2. [s EXCEPT !.state = "Fault", !.queued = FALSE, !.issued = FALSE] \in Sessions
  BY <1>1 DEF Sessions
<1>3. /\ d \in Sessions /\ d.state = "Fault" /\ ~d.queued /\ ~d.issued /\ d.engine = s.engine /\ SameTalk(s, d)
  BY <1>1, <1>2 DEF Disconnected, Sessions, SameTalk
<1>4. Shape(d)
  BY <1>3 DEF Sound, Shape, SameTalk, Busy
<1> QED
  BY <1>3, <1>4, EndedIsSound DEF Sound, Busy

\* A byte is lost or altered before it is read.
LEMMA EchoIsSound ==
  ASSUME NEW s, NEW q, NEW w, NEW u, NEW h, Sound(s, q, w, u, h), NEW r \in Seq(K!Byte),
         Len(r) <= Len(q)
  PROVE  Sound(s, r, w, u, h)
<1>1. PICK n \in Nat, m \in Nat : n = Len(q) /\ m = Len(r) /\ m <= n
  BY DEF Sound
<1>2. PICK o \in Nat, f \in Nat : o = OnWire(s, w) /\ f = FromUnit(u)
  BY DEF OnWire, FromUnit
<1>3. Coming(s, q, w, u) = n + o + f /\ Coming(s, r, w, u) = m + o + f
  BY <1>1, <1>2 DEF Coming
<1>4. Need(s) \in Nat
  BY DEF Need
<1>5. Balance(s, r, w, u, h)
  <2> SUFFICES ASSUME s.state = "Running" PROVE
        /\ Coming(s, r, w, u) <= Need(s)
        /\ Coming(s, r, w, u) = Need(s) /\ ~s.queued /\ w = <<>> => Heard(s, u, h)
    BY DEF Balance
  <2>1. /\ n + o + f <= Need(s)
        /\ n + o + f = Need(s) /\ ~s.queued /\ w = <<>> => Heard(s, u, h)
    BY <1>3 DEF Sound, Balance
  <2>2. m + o + f <= Need(s) /\ (m + o + f = Need(s) => n + o + f = Need(s))
    BY <1>1, <1>4, <2>1
  <2> QED
    BY <1>3, <2>1, <2>2
<1> QED
  BY <1>5 DEF Sound
LEMMA BytesAreNat ==
  ASSUME NEW x \in K!Byte PROVE x \in Nat
BY DEF K!Byte

LEMMA ComingIs ==
  ASSUME NEW s, NEW q \in Seq(K!Byte), NEW w, NEW u
  PROVE  Coming(s, q, w, u) \in Nat
<1>1. PICK n \in Nat : n = Len(q)
  OBVIOUS
<1>2. PICK o \in Nat, f \in Nat : o = OnWire(s, w) /\ f = FromUnit(u)
  BY DEF OnWire, FromUnit
<1>3. n + o + f \in Nat
  OBVIOUS
<1> QED
  BY <1>1, <1>2, <1>3 DEF Coming

\* What follows from a change on the line that brings no byte.
LEMMA LineIsSound ==
  ASSUME NEW s, NEW q, NEW w, NEW u, NEW h, Sound(s, q, w, u, h),
         NEW r \in Seq(K!Byte), NEW z \in Seq(K!Byte), NEW v, UnitShape(v), NEW k,
         WireRel(s, z, v, k), Coming(s, r, z, v) <= Coming(s, q, w, u),
         s.state = "Running" /\ ~s.queued /\ z = <<>> /\ Coming(s, r, z, v) = Need(s)
           /\ Coming(s, q, w, u) = Need(s) => Heard(s, v, k)
  PROVE  Sound(s, r, z, v, k)
<1>1. PICK n \in Nat, m \in Nat : n = Coming(s, q, w, u) /\ m = Coming(s, r, z, v)
  <2>1. q \in Seq(K!Byte)
    BY DEF Sound
  <2> QED
    BY <2>1, ComingIs
<1>2. Need(s) \in Nat
  BY DEF Need
<1>3. Balance(s, r, z, v, k)
  <2> SUFFICES ASSUME s.state = "Running" PROVE
        /\ m <= Need(s)
        /\ m = Need(s) /\ ~s.queued /\ z = <<>> => Heard(s, v, k)
    BY <1>1 DEF Balance
  <2>1. n <= Need(s) /\ m <= n
    BY <1>1 DEF Sound, Balance
  <2>2. m <= Need(s) /\ (m = Need(s) => n = Need(s))
    BY <1>2, <2>1
  <2> QED
    BY <1>1, <2>2
<1> QED
  BY <1>3 DEF Sound

\* The unit sends a byte, which arrives, altered or not, or is lost.
LEMMA SendIsSound ==
  ASSUME NEW s, NEW q, NEW w, NEW u, NEW h, Sound(s, q, w, u, h), u.phase = "send", NEW v,
         v = IF u.index < Len(u.frame) THEN [u EXCEPT !.phase = "await"]
             ELSE [u EXCEPT !.phase = "receive", !.block = <<>>],
         NEW r \in Seq(K!Byte), Len(r) <= Len(q) + 1
  PROVE  Sound(s, r, w, v, h)
<1>1. /\ u \in Units /\ IsBlock(u.frame) /\ 1 <= u.index /\ u.index <= Len(u.frame) /\ UnitShape(u)
      /\ w \in Seq(K!Byte) /\ q \in Seq(K!Byte)
  BY DEF Sound, UnitShape
<1>2. PICK i \in Nat, l \in Nat : i = u.index /\ l = Len(u.frame) /\ 1 <= i /\ i <= l
  BY <1>1, UnitFields
<1>3. ~s.queued /\ w = <<>>
  BY DEF Sound, WireRel, AnswersUnit, ContinuesBlock
<1>4. /\ v \in Units /\ v.frame = u.frame /\ v.index = u.index /\ v.asked = u.asked
      /\ i < l => v.phase = "await" /\ v.block = u.block
      /\ ~(i < l) => v.phase = "receive" /\ v.block = <<>>
  <2>1. CASE i < l
    <3>1. v = [u EXCEPT !.phase = "await"]
      BY <1>2, <2>1
    <3> QED
      BY <1>1, <2>1, <3>1 DEF Units
  <2>2. CASE ~(i < l)
    <3>1. v = [u EXCEPT !.phase = "receive", !.block = <<>>]
      BY <1>2, <2>2
    <3>2. <<>> \in Seq(K!Byte)
      OBVIOUS
    <3> QED
      BY <1>1, <2>2, <3>1, <3>2 DEF Units
  <2> QED
    BY <2>1, <2>2
<1>5. UnitShape(v)
  BY <1>1, <1>2, <1>4 DEF UnitShape
<1>6. WireRel(s, w, v, h)
  BY <1>3 DEF WireRel
<1>7. /\ Coming(s, r, w, v) <= Coming(s, q, w, u)
  <2>1. PICK n \in Nat, m \in Nat : n = Len(q) /\ m = Len(r) /\ m <= n + 1
    <3>1. Len(q) \in Nat /\ Len(r) \in Nat
      BY <1>1, LenProperties
    <3>2. Len(r) <= Len(q) + 1
      OBVIOUS
    <3> QED
      BY <3>1, <3>2
  <2>2. FromUnit(u) = 1 /\ FromUnit(v) = 0 /\ OnWire(s, w) = 0
    BY <1>2, <1>3, <1>4 DEF FromUnit, OnWire
  <2> QED
    BY <2>1, <2>2 DEF Coming
<1>8. ASSUME Heard(s, u, h) PROVE Heard(s, v, h)
  <2>1. HeardBlock(s, u, h) => FALSE
    BY DEF HeardBlock
  <2>2. ASSUME HeardAnswer(s, u, h) PROVE HeardAnswer(s, v, h)
    <3>1. u.index = Len(s.engine.frame) + 1
      BY <2>2 DEF HeardAnswer, Ahead
    <3>2. Ahead(Len(s.engine.frame), v)
      <4>1. CASE i < l
        BY <1>4, <3>1, <4>1 DEF Ahead
      <4>2. CASE ~(i < l)
        <5>1. i = l
          BY <1>2, <4>2
        <5> QED
          BY <1>2, <1>4, <3>1, <4>2, <5>1 DEF Ahead
      <4> QED
        BY <4>1, <4>2
    <3> QED
      BY <1>4, <2>2, <3>2 DEF HeardAnswer
  <2> QED
    BY <1>8, <2>1, <2>2 DEF Heard
<1>9. s.state = "Running" /\ Coming(s, q, w, u) = Need(s) => Heard(s, v, h)
  BY <1>3, <1>8 DEF Sound, Balance
<1> QED
  BY <1>1, <1>5, <1>6, <1>7, <1>9, LineIsSound

\* The unit answers a byte of the host.
LEMMA AcknowledgeIsSound ==
  ASSUME NEW s, NEW q, NEW w, NEW u, NEW h, Sound(s, q, w, u, h), u.phase = "acknowledge", NEW v,
         v = [u EXCEPT !.phase = "receive"], NEW r \in Seq(K!Byte), Len(r) <= Len(q) + 1
  PROVE  Sound(s, r, w, v, h)
<1>1. u \in Units /\ UnitShape(u) /\ w \in Seq(K!Byte) /\ q \in Seq(K!Byte)
  BY DEF Sound, UnitShape
<1>2. ~s.queued /\ w = <<>>
  BY DEF Sound, WireRel, AnswersUnit, ContinuesBlock
<1>3. /\ v \in Units /\ v.frame = u.frame /\ v.index = u.index /\ v.asked = u.asked /\ v.phase = "receive"
      /\ v.block = u.block
  BY <1>1 DEF Units
<1>4. UnitShape(v)
  BY <1>1, <1>3 DEF UnitShape
<1>5. WireRel(s, w, v, h)
  BY <1>2 DEF WireRel
<1>6. Coming(s, r, w, v) <= Coming(s, q, w, u)
  <2>1. PICK n \in Nat, m \in Nat : n = Len(q) /\ m = Len(r) /\ m <= n + 1
    BY <1>1
  <2>2. FromUnit(u) = 1 /\ FromUnit(v) = 0 /\ OnWire(s, w) = 0
    BY <1>2, <1>3 DEF FromUnit, OnWire
  <2> QED
    BY <2>1, <2>2 DEF Coming
<1>7. ASSUME Heard(s, u, h) PROVE Heard(s, v, h)
  <2>1. ~HeardAnswer(s, u, h)
    BY DEF HeardAnswer, Ahead
  <2>2. HeardBlock(s, u, h) => HeardBlock(s, v, h)
    BY <1>3 DEF HeardBlock
  <2> QED
    BY <1>7, <2>1, <2>2 DEF Heard
<1>8. s.state = "Running" /\ Coming(s, q, w, u) = Need(s) => Heard(s, v, h)
  BY <1>2, <1>7 DEF Sound, Balance
<1> QED
  BY <1>1, <1>4, <1>5, <1>6, <1>8, LineIsSound

\* A byte on the wire is the one given out.
LEMMA WireIs ==
  ASSUME NEW s, NEW q, NEW w, NEW u, NEW h, Sound(s, q, w, u, h), w # <<>>
  PROVE  /\ Head(w) = s.actionByte /\ s.actionByte \in K!Byte /\ ~s.queued
         /\ AnswersUnit(s, u, h) \/ ContinuesBlock(s, u, h)
         /\ Append(q, Head(w)) \in Seq(K!Byte) /\ Len(Append(q, Head(w))) = Len(q) + 1
         /\ OnWire(s, w) = 2 /\ OnWire(s, <<>>) = 0
<1>1. s.queued \in BOOLEAN /\ s.actionByte \in K!Byte /\ q \in Seq(K!Byte)
  BY SessionFields DEF Sound, Shape
<1>2. w = <<s.actionByte>> /\ ~s.queued
  BY DEF Sound, WireRel
<1> QED
  BY <1>1, <1>2 DEF Sound, WireRel, OnWire

\* The unit hears the answer it awaits, or another byte.
LEMMA AnswerIsSound ==
  ASSUME NEW s, NEW q, NEW w, NEW u, NEW h, Sound(s, q, w, u, h), w # <<>>, u.phase = "await", NEW v,
         v = IF Head(w) = K!Complement(u.frame[u.index])
             THEN [u EXCEPT !.phase = "send", !.index = @ + 1]
             ELSE [u EXCEPT !.phase = "silent"]
  PROVE  Sound(s, Append(q, Head(w)), <<>>, v, h)
<1>1. /\ u \in Units /\ UnitShape(u) /\ w \in Seq(K!Byte) /\ q \in Seq(K!Byte) /\ s \in Sessions
      /\ EngineShape(s.engine) /\ s.engine.frame \in Seq(K!Byte)
  BY SessionFields, EngineFields DEF Sound, UnitShape, Shape
<1>2. PICK b \in K!Byte : b = Head(w) /\ b = s.actionByte
  BY WireIs
<1>3. AnswersUnit(s, u, h) /\ ~s.queued
  BY WireIs DEF ContinuesBlock
<1>4. PICK i \in Nat, l \in Nat : i = u.index /\ l = Len(u.frame) /\ 1 <= i /\ i < l
  <2>1. u.index \in Nat /\ u.frame \in Seq(K!Byte)
    BY <1>1, UnitFields
  <2>2. Len(u.frame) \in Nat
    BY <2>1, LenProperties
  <2>3. 1 <= u.index /\ u.index < Len(u.frame)
    BY <1>1 DEF UnitShape
  <2> QED
    BY <2>1, <2>2, <2>3
<1>5. i = Len(s.engine.frame) /\ i \in 1 .. Len(s.engine.frame) /\ i \in 1 .. Len(u.frame)
  BY <1>3, <1>4 DEF AnswersUnit
<1>6. PICK x \in K!Byte, y \in K!Byte : x = s.engine.frame[i] /\ y = u.frame[i]
  BY <1>1, <1>5, UnitFields
<1>7. b = K!Complement(x)
  BY <1>2, <1>3, <1>4, <1>6 DEF AnswersUnit
<1>8. CASE b = K!Complement(y)
  <2>1. v = [u EXCEPT !.phase = "send", !.index = @ + 1]
    BY <1>2, <1>4, <1>6, <1>8
  <2>2. /\ v \in Units /\ v.phase = "send" /\ v.index = i + 1 /\ v.frame = u.frame /\ v.block = u.block
        /\ v.asked = u.asked
    <3>1. u.index + 1 \in Nat
      BY <1>4
    <3> QED
      BY <1>1, <1>4, <2>1, <3>1 DEF Units
  <2>3. UnitShape(v)
    BY <1>1, <1>4, <2>2 DEF UnitShape
  <2>4. WireRel(s, <<>>, v, h)
    BY <1>3 DEF WireRel
  <2>5. Coming(s, Append(q, b), <<>>, v) <= Coming(s, q, w, u)
    <3>1. PICK n \in Nat : n = Len(q) /\ Len(Append(q, b)) = n + 1
      BY <1>1
    <3>2. OnWire(s, w) = 2 /\ OnWire(s, <<>>) = 0 /\ FromUnit(u) = 0 /\ FromUnit(v) = 1
      BY <2>2, WireIs DEF FromUnit
    <3> QED
      BY <3>1, <3>2 DEF Coming
  <2>6. s.state = "Running" => Heard(s, v, h)
    <3> SUFFICES ASSUME s.state = "Running" PROVE Heard(s, v, h)
      OBVIOUS
    <3>1. ~Talking(s)
      <4>1. s.engine.frame # <<>>
        BY <1>4, <1>5
      <4> QED
        BY <1>1, <4>1 DEF Talking, EngineShape
    <3>2. x = y
      <4>1. 255 - x = 255 - y
        <5>1. K!Complement(x) = 255 - x /\ K!Complement(y) = 255 - y
          BY ComplementIs
        <5> QED
          BY <1>7, <1>8, <5>1
      <4>2. x \in Nat /\ y \in Nat
        BY BytesAreNat
      <4> QED
        BY <4>1, <4>2
    <3>3. Agree(s.engine.frame, v.frame, Len(s.engine.frame))
      <4>1. Agree(s.engine.frame, u.frame, i - 1)
        BY <1>3, <1>4 DEF AnswersUnit
      <4>2. \A j \in 1 .. i - 1 : s.engine.frame[j] = u.frame[j]
        BY <4>1 DEF Agree
      <4>3. \A j \in 1 .. i : j = i \/ j \in 1 .. i - 1
        BY <1>4
      <4>4. \A j \in 1 .. i : s.engine.frame[j] = u.frame[j]
        BY <1>6, <3>2, <4>2, <4>3
      <4> QED
        BY <1>5, <2>2, <4>4 DEF Agree
    <3>4. HeardAnswer(s, v, h)
      BY <1>3, <1>5, <2>2, <3>3 DEF HeardAnswer, Ahead, AnswersUnit
    <3> QED
      BY <3>1, <3>4 DEF Heard
  <2>7. Append(q, b) \in Seq(K!Byte) /\ <<>> \in Seq(K!Byte)
    BY <1>1
  <2>8. Sound(s, Append(q, b), <<>>, v, h)
    BY <2>3, <2>4, <2>5, <2>6, <2>7, LineIsSound
  <2> QED
    BY <1>2, <2>8
<1>9. CASE b # K!Complement(y)
  <2>1. v = [u EXCEPT !.phase = "silent"]
    BY <1>2, <1>4, <1>6, <1>9
  <2>2. /\ v \in Units /\ v.phase = "silent" /\ v.index = i /\ v.frame = u.frame /\ v.block = u.block
        /\ v.asked = u.asked
    BY <1>1, <1>4, <2>1 DEF Units
  <2>3. UnitShape(v)
    BY <1>1, <1>4, <2>2 DEF UnitShape
  <2>4. WireRel(s, <<>>, v, h)
    BY <1>3 DEF WireRel
  <2>5. PICK n \in Nat : /\ Coming(s, Append(q, b), <<>>, v) = n + 1 /\ Coming(s, q, w, u) = n + 2
    <3>1. PICK n \in Nat : n = Len(q) /\ Len(Append(q, b)) = n + 1
      BY <1>1
    <3>2. OnWire(s, w) = 2 /\ OnWire(s, <<>>) = 0 /\ FromUnit(u) = 0 /\ FromUnit(v) = 0
      BY <2>2, WireIs DEF FromUnit
    <3> QED
      BY <3>1, <3>2 DEF Coming
  <2>6. /\ Coming(s, Append(q, b), <<>>, v) <= Coming(s, q, w, u)
        /\ Coming(s, Append(q, b), <<>>, v) # Coming(s, q, w, u)
    BY <2>5
  <2>7. Append(q, b) \in Seq(K!Byte) /\ <<>> \in Seq(K!Byte)
    BY <1>1
  <2>8. Sound(s, Append(q, b), <<>>, v, h)
    BY <2>3, <2>4, <2>6, <2>7, LineIsSound
  <2> QED
    BY <1>2, <2>8
<1> QED
  BY <1>8, <1>9
\* The unit hears the next byte of the host's block.
LEMMA BlockGrows ==
  ASSUME NEW s, NEW u \in Units, s \in Sessions, NEW h, ContinuesBlock(s, u, h),
         NEW g, g = Append(u.block, s.actionByte)
  PROVE  /\ g \in Seq(K!Byte) /\ g # <<>> /\ Len(g) = Sent(s) /\ Agree(g, s.txFrame, Sent(s))
         /\ BlockDone(g) <=> LastByte(s)
         /\ BlockDone(g) => g = s.txFrame
<1>1. /\ u.block \in Seq(K!Byte) /\ s.actionByte \in K!Byte /\ s.txFrame \in Seq(K!Byte)
  BY UnitFields, SessionFields
<1>2. PICK n \in Nat, l \in 4 .. 65 : /\ n = s.txIndex /\ l = Len(s.txFrame) /\ n + 1 <= l
  <2>1. PICK l \in 4 .. 65 : l = Len(s.txFrame)
    BY DEF ContinuesBlock, IsBlock
  <2>2. PICK n \in Nat : n = s.txIndex
    BY SessionFields
  <2>3. n + 1 <= l
    BY <2>1, <2>2 DEF ContinuesBlock, Sent
  <2> QED
    BY <2>1, <2>2, <2>3
<1>3. Len(u.block) = n /\ Sent(s) = n + 1
  BY <1>2 DEF ContinuesBlock, Sent
<1>4. g \in Seq(K!Byte) /\ g # <<>> /\ Len(g) = n + 1
  BY <1>1, <1>3
<1>5. /\ \A i \in 1 .. n : g[i] = u.block[i]
      /\ g[n + 1] = s.actionByte
  BY <1>1, <1>3
<1>6. \A i \in 1 .. n : u.block[i] = s.txFrame[i]
  BY <1>2 DEF ContinuesBlock, Agree
<1>7. g[n + 1] = s.txFrame[n + 1]
  BY <1>3, <1>5 DEF ContinuesBlock
<1>8. \A i \in 1 .. n + 1 : g[i] = s.txFrame[i]
  <2>1. \A i \in 1 .. n + 1 : i \in 1 .. n \/ i = n + 1
    BY <1>2
  <2> QED
    BY <1>5, <1>6, <1>7, <2>1
<1>9. Agree(g, s.txFrame, Sent(s))
  BY <1>3, <1>8 DEF Agree
<1>10. g[1] = l - 1
  <2>1. s.txFrame[1] = l - 1
    BY <1>2 DEF ContinuesBlock, IsBlock
  <2>2. 1 \in 1 .. n + 1
    BY <1>2
  <2> QED
    BY <1>8, <2>1, <2>2
<1>11. BlockDone(g) <=> n + 1 = l
  <2>1. g[1] + 1 = l
    BY <1>10
  <2> QED
    BY <1>4, <2>1 DEF BlockDone
<1>12. n + 1 = l => g = s.txFrame
  <2> SUFFICES ASSUME n + 1 = l PROVE g = s.txFrame
    OBVIOUS
  <2>1. Len(g) = Len(s.txFrame)
    BY <1>2, <1>4
  <2>2. \A i \in 1 .. Len(g) : g[i] = s.txFrame[i]
    BY <1>4, <1>8
  <2> QED
    BY <1>1, <1>4, <2>1, <2>2, SeqEqual
<1> QED
  BY <1>2, <1>3, <1>4, <1>9, <1>11, <1>12 DEF LastByte

\* Two bytes are owed only to a session that waits for an echo.
LEMMA TwoIsEcho ==
  ASSUME NEW s, NEW q, NEW w, NEW u, NEW h, Sound(s, q, w, u, h), s.state = "Running", w # <<>>
  PROVE  s.engine.state \in EchoStates /\ ~s.engine.deferred.pending /\ q = <<>> /\ FromUnit(u) = 0
<1>1. Coming(s, q, w, u) <= Need(s) /\ OnWire(s, w) = 2 /\ q \in Seq(K!Byte)
  BY WireIs DEF Sound, Balance
<1>2. PICK n \in Nat, f \in Nat : n = Len(q) /\ f = FromUnit(u)
  BY <1>1 DEF FromUnit
<1>3. n + 2 + f <= Need(s)
  BY <1>1, <1>2 DEF Coming
<1>4. Need(s) \in 0 .. 2 /\ (Need(s) = 2 => s.engine.state \in EchoStates /\ ~s.engine.deferred.pending)
  BY DEF Need
<1>5. Need(s) = 2 /\ n = 0 /\ f = 0
  BY <1>2, <1>3, <1>4
<1>6. q = <<>>
  BY <1>1, <1>2, <1>5, EmptySeq
<1> QED
  BY <1>2, <1>4, <1>5, <1>6

LEMMA ByteIsSound ==
  ASSUME NEW s, NEW q, NEW w, NEW u, NEW h, Sound(s, q, w, u, h), w # <<>>, u.phase = "receive",
         NEW g, g = Append(u.block, Head(w)), ~BlockDone(g), NEW v,
         v = [u EXCEPT !.phase = "acknowledge", !.block = g]
  PROVE  Sound(s, Append(q, Head(w)), <<>>, v, h)
<1>1. /\ u \in Units /\ UnitShape(u) /\ w \in Seq(K!Byte) /\ q \in Seq(K!Byte) /\ s \in Sessions
      /\ EngineShape(s.engine)
  BY DEF Sound, UnitShape, Shape
<1>2. /\ Head(w) = s.actionByte /\ ContinuesBlock(s, u, h) /\ ~s.queued
  BY WireIs DEF AnswersUnit
<1>3. g \in Seq(K!Byte) /\ g # <<>> /\ Len(g) = Sent(s) /\ Agree(g, s.txFrame, Sent(s)) /\ ~LastByte(s)
  BY <1>1, <1>2, BlockGrows
<1>4. /\ v \in Units /\ v.phase = "acknowledge" /\ v.index = u.index /\ v.frame = u.frame /\ v.block = g
      /\ v.asked = u.asked
  BY <1>1, <1>3 DEF Units
<1>5. UnitShape(v)
  BY <1>1, <1>3, <1>4 DEF UnitShape
<1>6. WireRel(s, <<>>, v, h)
  BY <1>2 DEF WireRel
<1>7. Coming(s, Append(q, Head(w)), <<>>, v) <= Coming(s, q, w, u)
  <2>1. PICK n \in Nat : n = Len(q) /\ Len(Append(q, Head(w))) = n + 1
    BY <1>1, WireIs
  <2>2. OnWire(s, w) = 2 /\ OnWire(s, <<>>) = 0 /\ FromUnit(u) = 0 /\ FromUnit(v) = 1
    BY <1>4, WireIs DEF FromUnit
  <2> QED
    BY <2>1, <2>2 DEF Coming
<1>8. s.state = "Running" /\ Coming(s, q, w, u) = Need(s) => Heard(s, v, h)
  <2> SUFFICES ASSUME s.state = "Running", Coming(s, q, w, u) = Need(s) PROVE Heard(s, v, h)
    OBVIOUS
  <2>1. s.engine.state = "HostEcho"
    <3>1. s.engine.state \in EchoStates /\ s.engine.frame = <<>>
      BY <1>2, TwoIsEcho DEF ContinuesBlock
    <3> QED
      BY <1>1, <3>1 DEF EngineShape, EchoStates, RxEchoes
  <2>2. Talking(s)
    BY <1>3, <2>1 DEF Talking, HostStates
  <2>3. HeardBlock(s, v, h)
    BY <1>2, <1>3, <1>4 DEF HeardBlock, ContinuesBlock
  <2> QED
    BY <2>2, <2>3 DEF Heard
<1>9. Append(q, Head(w)) \in Seq(K!Byte) /\ <<>> \in Seq(K!Byte)
  BY <1>1, WireIs
<1> QED
  BY <1>5, <1>6, <1>7, <1>8, <1>9, LineIsSound

\* The host's block arrives as it was built.
LEMMA ReceivedIsBuilt ==
  ASSUME NEW s, NEW q, NEW w, NEW u, NEW h, Sound(s, q, w, u, h), w # <<>>, u.phase = "receive",
         BlockDone(Append(u.block, Head(w)))
  PROVE  Append(u.block, Head(w)) = s.txFrame /\ s.txFrame[2] = h /\ LastByte(s)
<1>1. u \in Units /\ s \in Sessions
  BY DEF Sound, UnitShape, Shape
<1>2. /\ Head(w) = s.actionByte /\ ContinuesBlock(s, u, h)
  BY WireIs DEF AnswersUnit
<1>3. PICK g : g = Append(u.block, Head(w)) /\ BlockDone(g)
  OBVIOUS
<1>4. g = s.txFrame /\ LastByte(s)
  BY <1>1, <1>2, <1>3, BlockGrows
<1> QED
  BY <1>2, <1>3, <1>4 DEF ContinuesBlock

\* The unit has the host's block and starts its next.
Replies(v, g) ==
  v \in Units /\ v.phase = "send" /\ v.index = 1 /\ v.asked = g /\ IsBlock(v.frame)

NextCounter(h) == (h + 1) % CounterModulus

LEMMA ReplyIsSound ==
  ASSUME NEW s, NEW q, NEW w, NEW u, NEW h, Sound(s, q, w, u, h), w # <<>>, u.phase = "receive",
         NEW g, g = Append(u.block, Head(w)), BlockDone(g), NEW v, Replies(v, g)
  PROVE  Sound(s, Append(q, Head(w)), <<>>, v, NextCounter(h))
<1>0. v \in Units /\ v.phase = "send" /\ v.index = 1 /\ v.asked = g /\ IsBlock(v.frame)
  BY DEF Replies
<1>1. /\ u \in Units /\ UnitShape(u) /\ w \in Seq(K!Byte) /\ q \in Seq(K!Byte) /\ s \in Sessions
      /\ EngineShape(s.engine)
  BY DEF Sound, UnitShape, Shape
<1>2. /\ Head(w) = s.actionByte /\ ContinuesBlock(s, u, h) /\ ~s.queued
  BY WireIs DEF AnswersUnit
<1>3. g = s.txFrame /\ LastByte(s)
  BY <1>1, <1>2, BlockGrows
<1>5. UnitShape(v)
  <2>1. 1 <= v.index /\ v.index <= Len(v.frame)
    BY <1>0 DEF IsBlock
  <2> QED
    BY <1>0, <2>1 DEF UnitShape
<1>6. WireRel(s, <<>>, v, NextCounter(h))
  BY <1>2 DEF WireRel
<1>7. Coming(s, Append(q, Head(w)), <<>>, v) <= Coming(s, q, w, u)
  <2>1. PICK n \in Nat : n = Len(q) /\ Len(Append(q, Head(w))) = n + 1
    BY <1>1, WireIs
  <2>2. OnWire(s, w) = 2 /\ OnWire(s, <<>>) = 0 /\ FromUnit(u) = 0 /\ FromUnit(v) = 1
    BY <1>0, WireIs DEF FromUnit
  <2> QED
    BY <2>1, <2>2 DEF Coming
<1>8. ~Talking(s)
  BY <1>3 DEF Talking
<1>9. HeardAnswer(s, v, NextCounter(h))
  <2>1. s.engine.frame = <<>> /\ s.txCounter = NextCounter(h)
    BY <1>2 DEF ContinuesBlock, NextCounter
  <2>2. Len(s.engine.frame) = 0
    BY <2>1
  <2> QED
    BY <1>0, <1>3, <2>1, <2>2 DEF HeardAnswer, Agree, Ahead
<1>10. Heard(s, v, NextCounter(h))
  BY <1>8, <1>9 DEF Heard
<1>11. Append(q, Head(w)) \in Seq(K!Byte) /\ <<>> \in Seq(K!Byte)
  BY <1>1, WireIs
<1> QED
  BY <1>5, <1>6, <1>7, <1>10, <1>11, LineIsSound
-----------------------------------------------------------------------------
(* The session takes a byte. *)

\* While it listens nothing is on its way to the line.
LEMMA TakingIs ==
  ASSUME NEW s, NEW q, NEW w, NEW u, NEW h, Sound(s, q, w, u, h), Listening(s), q # <<>>
  PROVE  /\ w = <<>> /\ ~s.queued /\ Head(q) \in K!Byte /\ Tail(q) \in Seq(K!Byte)
         /\ Need(s) \in {1, 2}
         /\ \A d : ~d.queued => Coming(d, Tail(q), <<>>, u) + 1 = Coming(s, q, w, u)
         /\ Need(s) = 1 => Tail(q) = <<>> /\ FromUnit(u) = 0 /\ Heard(s, u, h)
<1>1. /\ q \in Seq(K!Byte) /\ ~s.queued /\ s.state = "Running"
  BY DEF Sound, Listening, Busy
<1>2. /\ Tail(q) \in Seq(K!Byte) /\ Head(q) \in K!Byte /\ Len(Tail(q)) = Len(q) - 1
  BY <1>1, HeadTailProperties
<1>3. PICK n \in Nat : Len(q) = n + 1 /\ Len(Tail(q)) = n
  <2>1. PICK m \in Nat : m = Len(q) /\ m # 0
    BY <1>1, EmptySeq
  <2>2. m - 1 \in Nat /\ (m - 1) + 1 = m
    BY <2>1
  <2>3. Len(q) = (m - 1) + 1 /\ Len(Tail(q)) = m - 1
    BY <1>2, <2>1, <2>2
  <2> QED
    BY <2>2, <2>3
<1>4. PICK o \in Nat, f \in Nat : o = OnWire(s, w) /\ f = FromUnit(u)
  BY DEF OnWire, FromUnit
<1>5. n + 1 + o + f <= Need(s)
  <2>1. Coming(s, q, w, u) <= Need(s)
    BY <1>1 DEF Sound, Balance
  <2> QED
    BY <1>3, <1>4, <2>1 DEF Coming
<1>6. Need(s) \in 0 .. 2
  BY DEF Need
<1>7. o < 2
  BY <1>5, <1>6
<1>8. w = <<>>
  BY <1>4, <1>7 DEF OnWire
<1>9. OnWire(s, w) = 0 /\ \A d : ~d.queued => OnWire(d, <<>>) = 0
  BY <1>1, <1>8 DEF OnWire
<1>10. \A d : ~d.queued => Coming(d, Tail(q), <<>>, u) + 1 = Coming(s, q, w, u)
  <2> SUFFICES ASSUME NEW d, ~d.queued PROVE Coming(d, Tail(q), <<>>, u) + 1 = Coming(s, q, w, u)
    OBVIOUS
  <2>1. OnWire(d, <<>>) = 0
    BY <1>9
  <2>2. Coming(d, Tail(q), <<>>, u) = n + 0 + f
    BY <1>3, <1>4, <2>1 DEF Coming
  <2>3. Coming(s, q, w, u) = n + 1 + 0 + f
    BY <1>3, <1>4, <1>9 DEF Coming
  <2> QED
    BY <2>2, <2>3
<1>11. Need(s) \in {1, 2}
  BY <1>5, <1>6
<1>12. ASSUME Need(s) = 1 PROVE Tail(q) = <<>> /\ FromUnit(u) = 0 /\ Heard(s, u, h)
  <2>1. n = 0 /\ f = 0 /\ o = 0
    BY <1>5, <1>12
  <2>2. Coming(s, q, w, u) = Need(s)
    <3>1. Coming(s, q, w, u) = n + 1 + o + f
      BY <1>3, <1>4 DEF Coming
    <3> QED
      BY <1>12, <2>1, <3>1
  <2>3. Tail(q) = <<>>
    BY <1>2, <1>3, <2>1, EmptySeq
  <2> QED
    BY <1>1, <1>4, <1>8, <2>1, <2>2, <2>3 DEF Sound, Balance
<1> QED
  BY <1>1, <1>2, <1>8, <1>10, <1>11, <1>12

LEMMA QuietIsSound ==
  ASSUME NEW s, NEW q, NEW w, NEW u, NEW h, Sound(s, q, w, u, h), Listening(s), q # <<>>,
         NEW d, Quiet(s, d), d.engine.frame = s.engine.frame, Need(d) + 1 = Need(s),
         Talking(d) <=> Talking(s)
  PROVE  Sound(d, Tail(q), w, u, h)
<1>1. Shape(d) /\ SameTalk(s, d) /\ ~d.queued /\ s.state = "Running" /\ ~s.queued
  BY DEF Quiet, Listening, Busy
<1>2. w = <<>> /\ Tail(q) \in Seq(K!Byte)
  BY TakingIs
<1>3. PICK n \in Nat, m \in Nat : n = Coming(s, q, w, u) /\ m = Coming(d, Tail(q), <<>>, u) /\ m + 1 = n
  <2>1. Coming(d, Tail(q), <<>>, u) + 1 = Coming(s, q, w, u)
    BY <1>1, TakingIs
  <2>2. Coming(d, Tail(q), <<>>, u) \in Nat /\ Coming(s, q, w, u) \in Nat
    BY <1>2, ComingIs DEF Sound
  <2> QED
    BY <2>1, <2>2
<1>4. PICK j \in Nat, k \in Nat : j = Need(s) /\ k = Need(d)
  BY DEF Need
<1>5. n <= j /\ (n = j => Heard(s, u, h))
  BY <1>1, <1>2, <1>3, <1>4 DEF Sound, Balance
<1>6. m <= k /\ (m = k => n = j)
  BY <1>3, <1>4, <1>5
<1>7. Heard(s, u, h) => Heard(d, u, h)
  BY <1>1, HeardKept
<1>8. Balance(d, Tail(q), w, u, h)
  BY <1>2, <1>3, <1>4, <1>5, <1>6, <1>7 DEF Balance
<1>9. WireRel(d, w, u, h)
  BY <1>1, <1>2 DEF WireRel
<1> QED
  BY <1>1, <1>2, <1>8, <1>9, PlanKept DEF Sound

LEMMA FaultIsSound ==
  ASSUME NEW s, NEW q, NEW w, NEW u, NEW h, Sound(s, q, w, u, h), Listening(s), q # <<>>,
         NEW d, FaultOutcome(s, d)
  PROVE  Sound(d, Tail(q), w, u, h)
<1>1. w = <<>> /\ Tail(q) \in Seq(K!Byte)
  BY TakingIs
<1>2. Shape(d) /\ SameTalk(s, d) /\ d.state = "Fault" /\ ~Busy(d)
  BY DEF FaultOutcome
<1> QED
  BY <1>1, <1>2, EndedIsSound

\* What a session that begins to send owes.
LEMMA QueuedIsSound ==
  ASSUME NEW s, NEW q, NEW w, NEW u, NEW h, Sound(s, q, w, u, h), Listening(s), q # <<>>, Need(s) = 1,
         NEW d, Shape(d), d.queued, d.engine.state \in EchoStates, ~d.engine.deferred.pending, PlanShape(d),
         AnswersUnit(d, u, h) \/ ContinuesBlock(d, u, h)
  PROVE  Sound(d, Tail(q), w, u, h)
<1>1. w = <<>> /\ Tail(q) = <<>> /\ FromUnit(u) = 0 /\ Tail(q) \in Seq(K!Byte)
  BY TakingIs
<1>2. WireRel(d, w, u, h)
  BY <1>1 DEF WireRel
<1>3. OnWire(d, w) = 2 /\ Need(d) = 2 /\ Len(Tail(q)) = 0
  BY <1>1 DEF OnWire, Need
<1>4. Coming(d, Tail(q), w, u) <= Need(d)
  <2>1. Coming(d, Tail(q), w, u) = 0 + 2 + 0
    BY <1>1, <1>3 DEF Coming
  <2> QED
    BY <1>3, <2>1
<1>5. Balance(d, Tail(q), w, u, h)
  BY <1>4 DEF Balance
<1> QED
  BY <1>1, <1>2, <1>5 DEF Sound

\* The unit's block is as long as its first byte has told the session.
LEMMA SizeIs ==
  ASSUME NEW s, NEW q, NEW w, NEW u, NEW h, Sound(s, q, w, u, h), Listening(s),
         s.engine.state \in RxEchoes \cup {"RxByte"}, HeardAnswer(s, u, h)
  PROVE  /\ s.engine.expectedSize = Len(u.frame) /\ Len(u.frame) \in 4 .. 65
         /\ Len(s.engine.frame) \in Nat /\ 1 <= Len(s.engine.frame)
<1>1. EngineShape(s.engine) /\ s.engine.frame \in Seq(K!Byte) /\ u.frame \in Seq(K!Byte) /\ IsBlock(u.frame)
  BY ListeningFields, UnitFields DEF Sound, UnitShape
<1>2. PICK l \in 4 .. 65 : l = Len(u.frame) /\ u.frame[1] = l - 1
  BY <1>1 DEF IsBlock
<1>3. Len(s.engine.frame) \in Nat /\ 1 <= Len(s.engine.frame)
  BY <1>1 DEF EngineShape
<1>4. s.engine.frame[1] = u.frame[1]
  <2>1. 1 \in 1 .. Len(s.engine.frame)
    BY <1>3
  <2> QED
    BY <2>1 DEF HeardAnswer, Agree
<1>5. s.engine.expectedSize = (l - 1) + 1
  BY <1>1, <1>2, <1>4 DEF EngineShape
<1>6. (l - 1) + 1 = l
  OBVIOUS
<1> QED
  BY <1>2, <1>3, <1>5, <1>6

LEMMA AckIsSound ==
  ASSUME NEW s, NEW q, NEW w, NEW u, NEW h, Sound(s, q, w, u, h), Listening(s), q # <<>>, Need(s) = 1,
         ~Talking(s), Len(s.engine.frame) + 1 < Len(u.frame), NEW x \in K!Byte,
         NEW d, AckQueued(s, x, d)
  PROVE  Sound(d, Tail(q), w, u, h)
<1>1. FromUnit(u) = 0 /\ Heard(s, u, h) /\ s.engine.frame \in Seq(K!Byte) /\ u.frame \in Seq(K!Byte)
  BY TakingIs, ListeningFields, UnitFields DEF Sound, UnitShape
<1>2. HeardAnswer(s, u, h)
  BY <1>1 DEF Heard
<1>3. PICK k \in Nat, l \in Nat : k = Len(s.engine.frame) /\ l = Len(u.frame) /\ k + 1 < l
  BY <1>1
<1>4. u.phase = "await" /\ u.index = k + 1
  BY <1>1, <1>2, <1>3 DEF HeardAnswer, Ahead, FromUnit
<1>5. PICK g \in Seq(K!Byte) : g = Append(s.engine.frame, x) /\ Len(g) = k + 1 /\ g[k + 1] = x
                               /\ \A i \in 1 .. k : g[i] = s.engine.frame[i]
  <2>1. PICK f \in Seq(K!Byte) : f = s.engine.frame
    BY <1>1
  <2>2. Append(f, x) \in Seq(K!Byte) /\ Len(Append(f, x)) = k + 1 /\ Append(f, x)[k + 1] = x
        /\ \A i \in 1 .. k : Append(f, x)[i] = f[i]
    BY <1>3, <2>1, AppendProperties
  <2> QED
    BY <2>1, <2>2
<1>6. d.engine.frame = g /\ d.actionByte = K!Complement(x) /\ d.txFrame = s.txFrame /\ d.txCounter = s.txCounter
  BY <1>5 DEF AckQueued
<1>7. Agree(g, u.frame, k)
  BY <1>2, <1>3, <1>5 DEF HeardAnswer, Agree
<1>8. AnswersUnit(d, u, h)
  <2>1. (k + 1) - 1 = k
    OBVIOUS
  <2>2. u.index = Len(d.engine.frame) /\ d.actionByte = K!Complement(d.engine.frame[u.index])
        /\ Agree(d.engine.frame, u.frame, u.index - 1)
    BY <1>4, <1>5, <1>6, <1>7, <2>1
  <2> QED
    BY <1>2, <1>4, <1>6, <2>2 DEF AnswersUnit, HeardAnswer
<1>9. PlanShape(d)
  BY DEF AckQueued, PlanShape, Sound
<1>10. Shape(d) /\ d.queued /\ d.engine.state \in EchoStates /\ ~d.engine.deferred.pending
  BY DEF AckQueued, RxEchoes, EchoStates
<1> QED
  BY <1>8, <1>9, <1>10, QueuedIsSound

\* What the loop makes of the byte b, and what it publishes.
Taken(s, q, w, u, h, heard, d) ==
  /\ Sound(d, Tail(q), w, u, h)
  /\ HasFrame(heard) => heard.engine.frame = u.frame /\ u.phase = "receive" /\ u.asked = s.txFrame

\* A whole block is the one the unit has sent.
LEMMA BlockIsSound ==
  ASSUME NEW s, NEW q, NEW w, NEW u, NEW h, Sound(s, q, w, u, h), Listening(s), q # <<>>, Need(s) = 1,
         s.engine.state \in RxEchoes \cup {"RxByte"}, NEW x \in K!Byte,
         Len(s.engine.frame) + 1 = s.engine.expectedSize,
         NEW hh, NEW d, BlockTaken(s, Append(s.engine.frame, x), hh, d)
  PROVE  Taken(s, q, w, u, h, hh, d)
<1> DEFINE g == Append(s.engine.frame, x)
<1>0. BlockTaken(s, g, hh, d)
  OBVIOUS
<1> HIDE DEF g
<1>1. FromUnit(u) = 0 /\ Heard(s, u, h) /\ s.engine.frame \in Seq(K!Byte) /\ u.frame \in Seq(K!Byte)
      /\ IsBlock(u.frame) /\ UnitShape(u) /\ w = <<>> /\ Tail(q) \in Seq(K!Byte)
  BY TakingIs, ListeningFields, UnitFields DEF Sound, UnitShape
<1>2. HeardAnswer(s, u, h) /\ ~Talking(s)
  <2>1. ~Talking(s)
    BY DEF Talking, HostStates, RxEchoes
  <2> QED
    BY <1>1, <2>1 DEF Heard
<1>3. PICK k \in Nat : k = Len(s.engine.frame) /\ k + 1 = Len(u.frame)
  BY <1>2, SizeIs
<1>4. u.phase = "receive" /\ u.block = <<>>
  <2>1. u.phase = "await" => u.index < k + 1
    BY <1>1, <1>3 DEF UnitShape
  <2>2. u.phase = "await" => u.index = k + 1
    BY <1>2, <1>3 DEF HeardAnswer, Ahead
  <2>3. u.phase # "await"
    BY <2>1, <2>2
  <2> QED
    BY <1>1, <1>2, <2>3 DEF HeardAnswer, Ahead, FromUnit
<1>5. g = u.frame
  <2>1. g \in Seq(K!Byte) /\ Len(g) = k + 1
        /\ \A i \in 1 .. k : g[i] = s.engine.frame[i]
    BY <1>1, <1>3, AppendProperties DEF g
  <2>2. \A i \in 1 .. k : g[i] = u.frame[i]
    BY <1>2, <1>3, <2>1 DEF HeardAnswer, Agree
  <2>3. g[k + 1] = 3 /\ u.frame[k + 1] = 3
    <3>1. g[Len(g)] = 3 /\ u.frame[Len(u.frame)] = 3
      BY <1>0, <1>1 DEF BlockTaken, IsBlock
    <3> QED
      BY <1>3, <2>1, <3>1
  <2>4. \A i \in 1 .. k + 1 : i \in 1 .. k \/ i = k + 1
    OBVIOUS
  <2>5. \A i \in 1 .. k + 1 : g[i] = u.frame[i]
    BY <2>2, <2>3, <2>4
  <2> QED
    BY <1>1, <1>3, <2>1, <2>5, SeqEqual
<1>6. hh.engine.frame = u.frame /\ u.asked = s.txFrame /\ s.txCounter = h
  BY <1>0, <1>2, <1>5 DEF BlockTaken, HeardAnswer
<1>7. CASE Answered(s, ParsedTitle(g), d)
  <2>1. /\ Shape(d) /\ d.queued /\ d.engine.state \in EchoStates /\ ~d.engine.deferred.pending
    BY <1>7 DEF Answered, EchoStates
  <2>2. PlanShape(d)
    BY <1>7 DEF Answered, Reply, PlanShape
  <2>3. ContinuesBlock(d, u, h)
    <3>1. Sent(d) = 1 /\ Sent(d) <= Len(d.txFrame) /\ d.txIndex = 0 /\ Len(u.block) = 0
      BY <1>4, <1>7 DEF Answered, IsBlock, Sent
    <3>2. Agree(u.block, d.txFrame, d.txIndex)
      BY <3>1 DEF Agree
    <3> QED
      BY <1>4, <1>6, <1>7, <3>1, <3>2 DEF ContinuesBlock, Answered
  <2> QED
    BY <1>4, <1>6, <2>1, <2>2, <2>3, QueuedIsSound DEF Taken
<1>8. CASE Quiet(s, d) /\ d.engine.state = "RxLength" /\ d.engine.frame = <<>>
  <2>1. Shape(d) /\ SameTalk(s, d) /\ ~d.queued
    BY <1>8 DEF Quiet, Listening, Busy
  <2>2. WireRel(d, w, u, h)
    BY <1>1, <2>1 DEF WireRel
  <2>3. Coming(d, Tail(q), w, u) = 0
    <3>1. Tail(q) = <<>> /\ OnWire(d, w) = 0
      BY <1>1, <2>1, TakingIs DEF OnWire
    <3>2. Len(Tail(q)) = 0
      BY <3>1
    <3>3. Coming(d, Tail(q), w, u) = 0 + 0 + 0
      BY <1>1, <3>1, <3>2 DEF Coming
    <3> QED
      BY <3>3
  <2>4. Need(d) = 1
    BY <1>8 DEF Need, EchoStates
  <2>5. Balance(d, Tail(q), w, u, h)
    BY <2>3, <2>4 DEF Balance
  <2> QED
    BY <1>1, <1>4, <1>6, <2>1, <2>2, <2>5, PlanKept DEF Sound, Taken
<1> QED
  BY <1>0, <1>7, <1>8 DEF BlockTaken
-----------------------------------------------------------------------------
(* onRxByte(). *)

LEMMA ByteTakenIsSound ==
  ASSUME NEW s, NEW q, NEW w, NEW u, NEW h, Sound(s, q, w, u, h), Listening(s), q # <<>>, Need(s) = 1,
         s.engine.state \in RxEchoes \cup {"RxByte"}, NEW x \in K!Byte,
         NEW heard, NEW d, ByteTaken(s, x, heard, d)
  PROVE  Taken(s, q, w, u, h, heard, d)
<1>1. ~Talking(s)
  BY DEF Talking, HostStates, RxEchoes
<1>2. HeardAnswer(s, u, h)
  BY <1>1, TakingIs DEF Heard
<1>3. CASE ~HasFrame(heard) /\ FaultOutcome(s, d)
  BY <1>3, FaultIsSound DEF Taken
<1>4. CASE ~HasFrame(heard) /\ AckQueued(s, x, d) /\ Len(s.engine.frame) + 1 < s.engine.expectedSize
  <2>1. Len(s.engine.frame) + 1 < Len(u.frame)
    BY <1>2, <1>4, SizeIs
  <2> QED
    BY <1>1, <1>4, <2>1, AckIsSound DEF Taken
<1>5. CASE /\ Len(s.engine.frame) + 1 = s.engine.expectedSize
           /\ BlockTaken(s, Append(s.engine.frame, x), heard, d)
  <2>1. Len(s.engine.frame) + 1 = s.engine.expectedSize
    BY <1>5
  <2>2. BlockTaken(s, Append(s.engine.frame, x), heard, d)
    BY <1>5
  <2> QED
    BY <2>1, <2>2, BlockIsSound
<1> QED
  BY <1>3, <1>4, <1>5 DEF ByteTaken

LEMMA BlockIsLong ==
  ASSUME NEW f, IsBlock(f)
  PROVE  0 + 1 < Len(f)
<1>1. PICK l \in 4 .. 65 : l = Len(f)
  BY DEF IsBlock
<1>2. l \in Nat /\ l >= 4
  OBVIOUS
<1>3. 0 + 1 < l
  BY <1>2
<1> QED
  BY <1>1, <1>3

\* A host byte was echoed or answered.
LEMMA HostByteIsSound ==
  ASSUME NEW s, NEW q, NEW w, NEW u, NEW h, Sound(s, q, w, u, h), Listening(s), q # <<>>,
         s.engine.state \in HostStates, ~Unexpected(s, Head(q)), Head(q) \in K!Byte,
         NEW heard, heard = ReceiveByte(s, Head(q)), NEW d, d = SessionRxByte(heard)
  PROVE  Taken(s, q, w, u, h, heard, d)
<1>1. /\ Need(s) \in {1, 2}
      /\ Need(s) = 1 => FromUnit(u) = 0 /\ Heard(s, u, h)
      /\ s.engine.frame = <<>> /\ s.engine.deferred.pending \in BOOLEAN
  <2>1. s.engine.frame = <<>> /\ s.engine \in K!Engine
    BY ListeningFields DEF EngineShape
  <2> QED
    BY <2>1, TakingIs, EngineFields, RequestFields
<1>2. CASE s.engine.state = "HostEcho" /\ ~LastByte(s)
  <2>1. Head(q) = s.engine.expectedEcho /\ d = Hear(s, s.engine.expectedEcho)
    BY <1>2 DEF Unexpected, EchoStates, Hear
  <2>2. /\ ~HasFrame(heard) /\ Quiet(s, d) /\ d.engine.state = "HostAck" /\ d.engine.frame = s.engine.frame
        /\ d.engine.deferred = s.engine.deferred
    BY <1>2, <2>1, HostEcho
  <2>3. Need(d) + 1 = Need(s)
    BY <1>2, <2>2 DEF Need, EchoStates
  <2>4. Talking(d) <=> Talking(s)
    BY <1>2, <2>2 DEF Talking, HostStates, Quiet, SameTalk, LastByte, Sent
  <2> QED
    BY <2>2, <2>3, <2>4, QuietIsSound DEF Taken
<1>3. CASE s.engine.state = "HostEcho" /\ LastByte(s)
  <2>1. Head(q) = s.engine.expectedEcho /\ d = Hear(s, s.engine.expectedEcho)
    BY <1>3 DEF Unexpected, EchoStates, Hear
  <2>2. /\ ~HasFrame(heard)
        /\ ~s.engine.deferred.pending =>
             Quiet(s, d) /\ d.engine.state = "RxLength" /\ d.engine.frame = s.engine.frame
        /\ s.engine.deferred.pending =>
             \/ s.engine.deferred.byte \notin 3 .. 64 /\ FaultOutcome(s, d)
             \/ AckQueued(s, s.engine.deferred.byte, d)
    BY <1>3, <2>1, LastEcho
  <2>3. ~Talking(s)
    BY <1>3 DEF Talking
  <2>4. CASE ~s.engine.deferred.pending
    <3>1. Quiet(s, d) /\ d.engine.state = "RxLength" /\ d.engine.frame = s.engine.frame
      BY <2>2, <2>4
    <3>2. Need(d) = 1 /\ Need(s) = 2
      BY <1>3, <2>4, <3>1 DEF Need, EchoStates
    <3>3. ~Talking(d)
      BY <3>1 DEF Talking, HostStates
    <3>4. Need(d) + 1 = Need(s)
      BY <3>2
    <3>5. Sound(d, Tail(q), w, u, h)
      BY <2>3, <3>1, <3>3, <3>4, QuietIsSound
    <3> QED
      BY <2>2, <3>5 DEF Taken
  <2>5. CASE s.engine.deferred.pending /\ FaultOutcome(s, d)
    BY <2>2, <2>5, FaultIsSound DEF Taken
  <2>6. CASE s.engine.deferred.pending /\ AckQueued(s, s.engine.deferred.byte, d)
    <3>1. Need(s) = 1
      BY <1>3, <2>6 DEF Need, EchoStates
    <3>2. s.engine.deferred.byte \in K!Byte
      BY ListeningFields, EngineFields, RequestFields
    <3>3. Len(s.engine.frame) + 1 < Len(u.frame)
      <4>1. IsBlock(u.frame)
        BY DEF Sound, UnitShape
      <4>2. Len(s.engine.frame) = 0
        BY <1>1
      <4> QED
        BY <4>1, <4>2, BlockIsLong
    <3> QED
      BY <2>2, <2>3, <2>6, <3>1, <3>2, <3>3, AckIsSound DEF Taken
  <2> QED
    BY <1>1, <2>2, <2>4, <2>5, <2>6
<1>4. CASE s.engine.state = "HostAck"
  <2>1. ~s.engine.deferred.pending
    <3>1. s.engine.deferred.pending => Need(s) = 0
      BY <1>4 DEF Need, EchoStates
    <3>2. Need(s) = 1 \/ Need(s) = 2
      BY <1>1
    <3>3. Need(s) # 0
      BY <3>2
    <3> QED
      BY <3>1, <3>3
  <2>2. Head(q) = s.engine.expectedAck
    BY <1>4 DEF Unexpected
  <2>3. ~HasFrame(heard) /\ NextHostByte(s, d)
    BY <1>4, <2>1, <2>2, UnitAck
  <2>4. Need(s) = 1 /\ HostShape(s) /\ ~LastByte(s)
    BY <1>4, <2>1, ListeningFields DEF Need, EchoStates, WaitShape, HostStates, HostShape
  <2>5. HeardBlock(s, u, h) /\ u.phase = "receive"
    <3>1. HeardBlock(s, u, h)
      BY <1>1, <1>4, <2>4 DEF Heard, Talking
    <3> QED
      BY <1>1, <2>4, <3>1 DEF HeardBlock, FromUnit
  <2>6. ContinuesBlock(d, u, h)
    <3>1. Sent(s) = d.txIndex /\ Sent(d) <= Len(d.txFrame)
      BY <2>3 DEF NextHostByte, Sent, Shape, WaitShape, HostShape, HostStates
    <3> QED
      BY <2>3, <2>4, <2>5, <3>1 DEF ContinuesBlock, NextHostByte, HeardBlock, HostShape
  <2>7. PlanShape(d) /\ Shape(d) /\ d.queued /\ d.engine.state \in EchoStates /\ ~d.engine.deferred.pending
    BY <2>3 DEF NextHostByte, PlanShape, Sound, EchoStates
  <2>8. Sound(d, Tail(q), w, u, h)
    BY <2>4, <2>6, <2>7, QueuedIsSound
  <2> QED
    BY <2>3, <2>8 DEF Taken
<1> QED
  BY <1>2, <1>3, <1>4 DEF HostStates

LEMMA ReceiveIsSound ==
  ASSUME NEW s, NEW q, NEW w, NEW u, NEW h, Sound(s, q, w, u, h), Listening(s), q # <<>>,
         NEW heard, heard = ReceiveByte(s, Head(q)), NEW d, d = SessionRxByte(heard)
  PROVE  Taken(s, q, w, u, h, heard, d)
<1>1. /\ Head(q) \in K!Byte /\ Need(s) \in {1, 2} /\ d = Hear(s, Head(q))
      /\ s.engine.state \in EchoStates \cup {"HostAck", "RxLength", "RxByte"}
      /\ s.engine.deferred.pending \in BOOLEAN /\ s.engine.deferred.byte \in K!Byte
      /\ EngineShape(s.engine)
  BY TakingIs, ListeningFields, EngineFields, RequestFields DEF Hear, WaitShape
<1>2. PICK b \in K!Byte : b = Head(q)
  BY <1>1
<1>3. CASE Unexpected(s, b)
  <2>1. /\ ~HasFrame(heard)
        /\ s.engine.deferred.pending => FaultOutcome(s, d)
        /\ ~s.engine.deferred.pending =>
             /\ Quiet(s, d) /\ d.engine.state = s.engine.state /\ d.engine.frame = s.engine.frame
             /\ d.engine.deferred.pending
    BY <1>1, <1>2, <1>3, EarlyByte
  <2>2. CASE s.engine.deferred.pending
    BY <2>1, <2>2, FaultIsSound DEF Taken
  <2>3. CASE ~s.engine.deferred.pending
    <3>1. Quiet(s, d) /\ d.engine.state = s.engine.state /\ d.engine.frame = s.engine.frame
          /\ d.engine.deferred.pending
      BY <2>1, <2>3
    <3>2. Need(d) + 1 = Need(s)
      BY <1>3, <2>3, <3>1 DEF Need, Unexpected, EchoStates
    <3>3. Talking(d) <=> Talking(s)
      BY <3>1 DEF Talking, Quiet, SameTalk, LastByte, Sent
    <3> QED
      BY <2>1, <3>1, <3>2, <3>3, QuietIsSound DEF Taken
  <2> QED
    BY <1>1, <2>2, <2>3
<1>4. CASE ~Unexpected(s, b) /\ s.engine.state \in HostStates
  BY <1>1, <1>2, <1>4, HostByteIsSound
<1>5. CASE ~Unexpected(s, b) /\ s.engine.state \in RxEchoes
  <2>1. b = s.engine.expectedEcho
    BY <1>5 DEF Unexpected, EchoStates, RxEchoes
  <2>2. /\ ~s.engine.deferred.pending =>
             /\ ~HasFrame(heard) /\ Quiet(s, d) /\ d.engine.state = "RxByte" /\ d.engine.frame = s.engine.frame
        /\ s.engine.deferred.pending => ByteTaken(s, s.engine.deferred.byte, heard, d)
    BY <1>2, <1>5, <2>1, OwnEcho
  <2>3. CASE ~s.engine.deferred.pending
    <3>1. ~HasFrame(heard) /\ Quiet(s, d) /\ d.engine.state = "RxByte" /\ d.engine.frame = s.engine.frame
      BY <2>2, <2>3
    <3>2. Need(d) = 1 /\ Need(s) = 2
      BY <1>5, <2>3, <3>1 DEF Need, EchoStates, RxEchoes
    <3>3. ~Talking(d) /\ ~Talking(s)
      BY <1>5, <3>1 DEF Talking, HostStates, RxEchoes
    <3> QED
      BY <3>1, <3>2, <3>3, QuietIsSound DEF Taken
  <2>4. CASE s.engine.deferred.pending
    <3>1. Need(s) = 1 /\ s.engine.state \in RxEchoes \cup {"RxByte"}
      BY <1>5, <2>4 DEF Need, EchoStates, RxEchoes
    <3>2. ByteTaken(s, s.engine.deferred.byte, heard, d)
      BY <2>2, <2>4
    <3> QED
      BY <1>1, <3>1, <3>2, ByteTakenIsSound
  <2> QED
    BY <1>1, <2>3, <2>4
<1>6. CASE s.engine.state = "RxByte"
  <2>1. ByteTaken(s, b, heard, d)
    BY <1>2, <1>6, DueByte
  <2>2. Need(s) = 1 /\ s.engine.state \in RxEchoes \cup {"RxByte"}
    BY <1>6 DEF Need, EchoStates
  <2> QED
    BY <2>1, <2>2, ByteTakenIsSound
<1>7. CASE s.engine.state = "RxLength"
  <2>1. LengthTaken(s, b, heard, d)
    BY <1>2, <1>7, DueLength
  <2>2. Need(s) = 1 /\ ~Talking(s)
    BY <1>7 DEF Need, EchoStates, Talking, HostStates
  <2>3. Len(s.engine.frame) + 1 < Len(u.frame)
    <3>1. IsBlock(u.frame) /\ s.engine.frame = <<>>
      BY <1>1, <1>7 DEF Sound, UnitShape, EngineShape
    <3>2. Len(s.engine.frame) = 0
      BY <3>1
    <3> QED
      BY <3>1, <3>2, BlockIsLong
  <2>4. CASE ~HasFrame(heard) /\ FaultOutcome(s, d)
    BY <2>4, FaultIsSound DEF Taken
  <2>5. CASE ~HasFrame(heard) /\ AckQueued(s, b, d)
    BY <2>2, <2>3, <2>5, AckIsSound DEF Taken
  <2> QED
    BY <2>1, <2>4, <2>5 DEF LengthTaken
<1> QED
  BY <1>1, <1>3, <1>4, <1>5, <1>6, <1>7 DEF EchoStates, HostStates, RxEchoes

LEMMA PlanHeard ==
  ASSUME NEW s \in Sessions, NEW b
  PROVE  ReceiveByte(s, b).plan = s.plan
BY DEF ReceiveByte, Sessions
-----------------------------------------------------------------------------
(* The invariant of the session, and the blocks that pass. *)

SessionInv ==
  /\ Sound(session, rx, toWire, ecu, hostBlocks)
  /\ handedOn.groupHint \in Groups /\ unpublished \in Int /\ disturbances \in 0 .. MaxDisturbances

LEMMA SessionFacts ==
  ASSUME SessionInv
  PROVE  /\ Shape(session) /\ UnitShape(ecu) /\ ecu \in Units /\ session \in Sessions
         /\ rx \in Seq(K!Byte) /\ toWire \in Seq(K!Byte) /\ PlanShape(session)
         /\ unpublished \in Int /\ disturbances \in 0 .. MaxDisturbances
         /\ handedOn.groupHint \in Groups
BY DEF SessionInv, Sound, Shape, UnitShape

LEMMA StartedIs ==
  /\ Shape(StartedSession) /\ PlanShape(StartedSession) /\ StartedSession.state = "Running"
  /\ ~StartedSession.queued /\ ~StartedSession.issued /\ StartedSession.txFrame = <<>>
  /\ StartedSession.txCounter = 0 /\ StartedSession.engine.state = "RxLength"
  /\ StartedSession.engine.frame = <<>> /\ ~StartedSession.engine.deferred.pending
<1>1. K!NewEngine \in K!Engine
  <2>1. K!NoRequest \in K!Requests /\ 0 \in K!Byte
    BY RequestFields DEF K!Byte
  <2>2. <<>> \in Seq(K!Byte)
    OBVIOUS
  <2> QED
    BY <2>1, <2>2 DEF K!NewEngine, K!Engine, K!EngineStates, K!Faults
<1>2. PICK e \in K!Engine :
         /\ e = K!ResetEngine(K!NewEngine)
         /\ e.state = "RxLength" /\ e.fault = "None" /\ e.frame = <<>> /\ e.expectedSize = 0
         /\ e.txRequest = K!NoRequest /\ e.deferred = K!NoRequest
  BY <1>1, ResetIs
<1>3. StartedPlan \in Plan /\ StartedPlan.stage = "WaitingIdentification" /\ ~StartedPlan.pending
  BY DEF StartedPlan, Plan, Stages, Groups, LastGroup, Commands, Command
<1>4. StartedSession =
        [state |-> "Running", engine |-> e, plan |-> StartedPlan, txFrame |-> <<>>, txIndex |-> 0,
         txCounter |-> 0, txActive |-> FALSE, queued |-> FALSE, issued |-> FALSE, actionByte |-> 0,
         resetAfterFinalEcho |-> FALSE]
  BY <1>2 DEF StartedSession
<1>5. /\ StartedSession.state = "Running" /\ StartedSession.engine = e /\ StartedSession.plan = StartedPlan
      /\ StartedSession.txFrame = <<>> /\ StartedSession.txIndex = 0 /\ StartedSession.txCounter = 0
      /\ ~StartedSession.txActive /\ ~StartedSession.queued /\ ~StartedSession.issued
      /\ ~StartedSession.resetAfterFinalEcho
  BY <1>4
<1>6. StartedSession \in Sessions
  <2>1. 0 \in 0 .. CounterModulus - 1 /\ 0 \in K!Byte
    BY ModulusAssumption DEF K!Byte
  <2>2. <<>> \in Seq(K!Byte)
    OBVIOUS
  <2> QED
    BY <1>3, <1>4, <2>1, <2>2 DEF Sessions
<1>7. ~e.deferred.pending
  BY <1>2, RequestFields
<1>8. EngineShape(e)
  BY <1>2, <1>7 DEF EngineShape, RxEchoes
<1>9. WaitShape(StartedSession)
  BY <1>2, <1>5 DEF WaitShape, HostStates, EchoStates, Busy
<1>10. Shape(StartedSession)
  <2>1. Len(StartedSession.txFrame) = 0
    BY <1>5
  <2> QED
    BY <1>3, <1>5, <1>6, <1>8, <1>9, <2>1 DEF Shape
<1> QED
  BY <1>2, <1>3, <1>5, <1>7, <1>10 DEF PlanShape

LEMMA InitIsSound ==
  Init => SessionInv
<1> SUFFICES ASSUME Init PROVE SessionInv
  OBVIOUS
<1>1. PICK frame \in EcuBlocks("Identification") :
        ecu = [phase |-> "send", frame |-> frame, index |-> 1, block |-> <<>>, asked |-> <<>>, idents |-> 1]
  BY DEF Init
<1>2. frame \in Seq(K!Byte) /\ IsBlock(frame)
  BY <1>1, EcuBlocksAre DEF Titles
<1>3. UnitShape(ecu)
  <2>1. ecu \in Units
    <3>1. <<>> \in Seq(K!Byte)
      OBVIOUS
    <3> QED
      BY <1>1, <1>2, <3>1 DEF Units
  <2>2. 1 <= Len(frame)
    BY <1>2 DEF IsBlock
  <2> QED
    BY <1>1, <1>2, <2>1, <2>2 DEF UnitShape
<1>4. session = StartedSession /\ rx = <<>> /\ toWire = <<>> /\ hostBlocks = 0
  BY DEF Init
<1>5. Len(session.engine.frame) = 0 /\ Len(rx) = 0
  BY <1>4, StartedIs
<1>6. HeardAnswer(session, ecu, hostBlocks)
  BY <1>1, <1>4, <1>5, StartedIs DEF HeardAnswer, Agree, Ahead
<1>7. Heard(session, ecu, hostBlocks)
  BY <1>4, <1>6, StartedIs DEF Heard, Talking, HostStates
<1>8. Coming(session, rx, toWire, ecu) = 1
  <2>1. OnWire(session, toWire) = 0 /\ FromUnit(ecu) = 1
    BY <1>1, <1>4, StartedIs DEF OnWire, FromUnit
  <2>2. Coming(session, rx, toWire, ecu) = 0 + 0 + 1
    BY <1>5, <2>1 DEF Coming
  <2> QED
    BY <2>2
<1>9. Need(session) = 1
  BY <1>4, StartedIs DEF Need, EchoStates
<1>10. Balance(session, rx, toWire, ecu, hostBlocks)
  BY <1>7, <1>8, <1>9 DEF Balance
<1>11. WireRel(session, toWire, ecu, hostBlocks)
  BY <1>4, StartedIs DEF WireRel
<1>12. rx \in Seq(K!Byte) /\ toWire \in Seq(K!Byte)
  BY <1>4
<1>13. handedOn.groupHint \in Groups /\ unpublished \in Int /\ disturbances \in 0 .. MaxDisturbances
  BY DisturbanceAssumption DEF Init, NoFrame, Groups, LastGroup
<1> QED
  BY <1>3, <1>4, <1>10, <1>11, <1>12, <1>13, StartedIs DEF SessionInv, Sound

LEMMA DisturbIs ==
  ASSUME disturbances \in 0 .. MaxDisturbances, Disturb \/ Undisturbed
  PROVE  disturbances' \in 0 .. MaxDisturbances
BY DisturbanceAssumption DEF Disturb, Undisturbed

LEMMA ArrivesIs ==
  ASSUME rx \in Seq(K!Byte), NEW b \in K!Byte, Arrives(b)
  PROVE  /\ rx' \in Seq(K!Byte) /\ Len(rx') <= Len(rx) + 1 /\ (Disturb \/ Undisturbed)
         /\ Undisturbed => rx' = Append(rx, b)
<1>1. (b + 1) % 256 \in K!Byte
  BY DEF K!Byte
<1>2. \A x \in K!Byte : Append(rx, x) \in Seq(K!Byte) /\ Len(Append(rx, x)) = Len(rx) + 1
  BY AppendProperties
<1>3. PICK n \in Nat : n = Len(rx)
  OBVIOUS
<1>4. n <= n + 1 /\ n + 1 <= n + 1
  OBVIOUS
<1>5. Disturb => ~Undisturbed
  BY DEF Disturb, Undisturbed
<1>6. CASE rx' = Append(rx, b) /\ Undisturbed
  BY <1>2, <1>3, <1>4, <1>6
<1>7. CASE rx' = rx /\ Disturb
  BY <1>3, <1>4, <1>5, <1>7
<1>8. CASE rx' = Append(rx, (b + 1) % 256) /\ Disturb
  BY <1>1, <1>2, <1>3, <1>4, <1>5, <1>8
<1> QED
  BY <1>6, <1>7, <1>8 DEF Arrives

LEMMA SubmitKeeps ==
  SessionInv /\ Submit => SessionInv'
<1> SUFFICES ASSUME SessionInv, Submit PROVE SessionInv'
  OBVIOUS
<1>1. /\ rx' = rx /\ ecu' = ecu /\ handedOn' = handedOn /\ unpublished' = unpublished
      /\ hostBlocks' = hostBlocks /\ session.queued /\ (Disturb \/ Undisturbed)
  BY DEF Submit
<1>2. Sound(session', rx, toWire', ecu, hostBlocks)
  <2>1. CASE session' = PopAction(session) /\ toWire' = <<session.actionByte>>
    BY <1>1, <2>1, SubmitIsSound DEF SessionInv
  <2>2. CASE session' = SessionCompletion(PopAction(session), FALSE) /\ toWire' = toWire
    BY <1>1, <2>2, RefusalIsSound DEF SessionInv
  <2> QED
    BY <2>1, <2>2 DEF Submit
<1> QED
  BY <1>1, <1>2, DisturbIs DEF SessionInv

LEMMA CompletionKeeps ==
  SessionInv /\ Completion => SessionInv'
<1> SUFFICES ASSUME SessionInv, Completion PROVE SessionInv'
  OBVIOUS
<1>1. /\ rx' = rx /\ ecu' = ecu /\ handedOn' = handedOn /\ unpublished' = unpublished
      /\ toWire' = toWire /\ hostBlocks' = hostBlocks /\ session.issued /\ (Disturb \/ Undisturbed)
  BY DEF Completion
<1>2. Sound(session', rx, toWire, ecu, hostBlocks)
  <2>1. CASE session' = SessionCompletion(session, TRUE)
    BY <1>1, <2>1, CompletionIsSound DEF SessionInv
  <2>2. CASE session' = SessionCompletion(session, FALSE)
    BY <1>1, <2>2, FailureIsSound DEF SessionInv
  <2> QED
    BY <2>1, <2>2 DEF Completion
<1> QED
  BY <1>1, <1>2, DisturbIs DEF SessionInv

\* What is handedOn is the unit's block, with the group the plan asks for.
LEMMA ReceiveKeeps ==
  SessionInv /\ PollRx =>
    /\ SessionInv'
    /\ handedOn' # handedOn =>
         /\ handedOn'.frame = ecu.frame /\ ecu.phase = "receive" /\ ecu.asked = session.txFrame
         /\ handedOn'.groupHint = session.plan.group
<1> SUFFICES ASSUME SessionInv, PollRx
             PROVE  /\ SessionInv'
                    /\ handedOn' # handedOn =>
                         /\ handedOn'.frame = ecu.frame /\ ecu.phase = "receive"
                         /\ ecu.asked = session.txFrame /\ handedOn'.groupHint = session.plan.group
  OBVIOUS
<1>1. PICK heard : heard = ReceiveByte(session, Head(rx))
  OBVIOUS
<1>2. /\ rx # <<>> /\ session' = SessionRxByte(heard) /\ rx' = Tail(rx) /\ toWire' = toWire /\ ecu' = ecu
      /\ hostBlocks' = hostBlocks /\ disturbances' = disturbances
      /\ \/ HasFrame(heard) /\ handedOn' = Envelope(heard) /\ unpublished' = unpublished - 1
         \/ handedOn' = handedOn /\ unpublished' = unpublished
  BY <1>1 DEF PollRx
<1>3. Listening(session)
  BY SessionFacts DEF PollRx, Running, LoopIsFree, Listening, Busy
<1>4. Taken(session, rx, toWire, ecu, hostBlocks, heard, session')
  BY <1>1, <1>2, <1>3, ReceiveIsSound DEF SessionInv
<1>5. heard.plan = session.plan /\ session.plan.group \in Groups
  BY <1>1, SessionFacts, PlanHeard, SessionFields, PlanFields
<1>6. HasFrame(heard) => /\ Envelope(heard).frame = ecu.frame /\ ecu.phase = "receive"
                         /\ ecu.asked = session.txFrame /\ Envelope(heard).groupHint = session.plan.group
  BY <1>4, <1>5 DEF Taken, Envelope
<1>7. Sound(session, rx, toWire, ecu, hostBlocks)'
  BY <1>2, <1>4 DEF Taken
<1>8. handedOn'.groupHint \in Groups /\ unpublished' \in Int
  BY <1>2, <1>5, <1>6, SessionFacts
<1> QED
  BY <1>2, <1>6, <1>7, <1>8, SessionFacts DEF SessionInv

LEMMA EcuSendKeeps ==
  SessionInv /\ EcuSend => SessionInv'
<1> SUFFICES ASSUME SessionInv, EcuSend PROVE SessionInv'
  OBVIOUS
<1>1. /\ ecu.phase = "send" /\ Arrives(ecu.frame[ecu.index])
      /\ session' = session /\ toWire' = toWire /\ handedOn' = handedOn /\ hostBlocks' = hostBlocks
  BY DEF EcuSend
<1>2. ecu.frame[ecu.index] \in K!Byte
  <2>1. ecu.frame \in Seq(K!Byte) /\ ecu.index \in Nat /\ 1 <= ecu.index /\ ecu.index <= Len(ecu.frame)
    BY SessionFacts, UnitFields DEF UnitShape
  <2>2. ecu.index \in 1 .. Len(ecu.frame)
    BY <2>1
  <2> QED
    BY <2>1, <2>2
<1>3. rx' \in Seq(K!Byte) /\ Len(rx') <= Len(rx) + 1 /\ disturbances' \in 0 .. MaxDisturbances
  BY <1>1, <1>2, SessionFacts, ArrivesIs, DisturbIs
<1>4. /\ ecu' = IF ecu.index < Len(ecu.frame) THEN [ecu EXCEPT !.phase = "await"]
                ELSE [ecu EXCEPT !.phase = "receive", !.block = <<>>]
      /\ unpublished' \in Int
  BY SessionFacts DEF EcuSend
<1>5. Sound(session, rx', toWire, ecu', hostBlocks)
  BY <1>1, <1>3, <1>4, SendIsSound DEF SessionInv
<1> QED
  BY <1>1, <1>3, <1>4, <1>5 DEF SessionInv

LEMMA EcuAcknowledgeKeeps ==
  SessionInv /\ EcuAcknowledge => SessionInv'
<1> SUFFICES ASSUME SessionInv, EcuAcknowledge PROVE SessionInv'
  OBVIOUS
<1>1. /\ ecu.phase = "acknowledge" /\ Arrives(K!Complement(Last(ecu.block)))
      /\ ecu' = [ecu EXCEPT !.phase = "receive"] /\ unpublished' = unpublished
      /\ session' = session /\ toWire' = toWire /\ handedOn' = handedOn /\ hostBlocks' = hostBlocks
  BY DEF EcuAcknowledge
<1>2. K!Complement(Last(ecu.block)) \in K!Byte
  <2>1. ecu.block \in Seq(K!Byte) /\ ecu.block # <<>>
    BY <1>1, SessionFacts, UnitFields DEF UnitShape
  <2>2. Last(ecu.block) \in K!Byte
    <3>1. Len(ecu.block) \in 1 .. Len(ecu.block)
      BY <2>1, EmptySeq
    <3> QED
      BY <2>1, <3>1 DEF Last
  <2> QED
    BY <2>2, ComplementIs
<1>3. rx' \in Seq(K!Byte) /\ Len(rx') <= Len(rx) + 1 /\ disturbances' \in 0 .. MaxDisturbances
  BY <1>1, <1>2, SessionFacts, ArrivesIs, DisturbIs
<1>4. Sound(session, rx', toWire, ecu', hostBlocks)
  BY <1>1, <1>3, AcknowledgeIsSound DEF SessionInv
<1> QED
  BY <1>1, <1>3, <1>4 DEF SessionInv

\* The unit starts a block: the host's has arrived as it was built.
LEMMA EcuReplyIs ==
  ASSUME NEW block \in Seq(K!Byte), ecu \in Units, EcuReply(block)
  PROVE  /\ ecu' \in Units /\ ecu'.phase = "send" /\ ecu'.index = 1 /\ ecu'.asked = block
         /\ IsBlock(ecu'.frame) /\ (Disturb \/ Undisturbed)
         /\ \E title \in Titles : /\ ParsedTitle(ecu'.frame) = title
                                  /\ Undisturbed => title \in ExpectedTitles(block)
<1>1. PICK title \in Titles :
        /\ title \notin ExpectedTitles(block) => Disturb
        /\ title \in ExpectedTitles(block) => Undisturbed
        /\ \E frame \in EcuBlocks(title) :
             ecu' = [ecu EXCEPT !.phase = "send", !.frame = frame, !.index = 1, !.asked = block,
                                !.idents = IF title = "Identification" /\ @ < MaxIdentification
                                           THEN @ + 1 ELSE @]
  BY DEF EcuReply
<1>2. PICK frame \in EcuBlocks(title) :
        ecu' = [ecu EXCEPT !.phase = "send", !.frame = frame, !.index = 1, !.asked = block,
                           !.idents = IF title = "Identification" /\ ecu.idents < MaxIdentification
                                      THEN ecu.idents + 1 ELSE ecu.idents]
  BY <1>1
<1>3. frame \in Seq(K!Byte) /\ IsBlock(frame) /\ ParsedTitle(frame) = title
  BY <1>2, EcuBlocksAre
<1>4. PICK n \in Nat : n = IF title = "Identification" /\ ecu.idents < MaxIdentification
                          THEN ecu.idents + 1 ELSE ecu.idents
  BY UnitFields
<1>5. ecu' = [ecu EXCEPT !.phase = "send", !.frame = frame, !.index = 1, !.asked = block, !.idents = n]
  BY <1>2, <1>4
<1>6. ecu' \in Units /\ ecu'.phase = "send" /\ ecu'.index = 1 /\ ecu'.asked = block /\ ecu'.frame = frame
  BY <1>3, <1>5 DEF Units
<1>7. Disturb => ~Undisturbed
  BY DEF Disturb, Undisturbed
<1> QED
  BY <1>1, <1>3, <1>6, <1>7

\* The three things the unit can make of a byte it awaits or receives.
LEMMA HearingIs ==
  ASSUME ecu.phase \in {"await", "receive"}, NEW b, EcuHears(b), NEW g, g = Append(ecu.block, b)
  PROVE  \/ /\ ecu.phase = "await" /\ hostBlocks' = hostBlocks /\ disturbances' = disturbances
            /\ ecu' = IF b = K!Complement(ecu.frame[ecu.index])
                      THEN [ecu EXCEPT !.phase = "send", !.index = @ + 1]
                      ELSE [ecu EXCEPT !.phase = "silent"]
         \/ /\ ecu.phase = "receive" /\ BlockDone(g) /\ EcuReply(g)
            /\ hostBlocks' = (hostBlocks + 1) % CounterModulus
         \/ /\ ecu.phase = "receive" /\ ~BlockDone(g) /\ hostBlocks' = hostBlocks
            /\ disturbances' = disturbances
            /\ ecu' = [ecu EXCEPT !.phase = "acknowledge", !.block = g]
<1>1. CASE ecu.phase = "await"
  BY <1>1 DEF EcuHears
<1>2. CASE ecu.phase = "receive" /\ BlockDone(g)
  BY <1>2 DEF EcuHears
<1>3. CASE ecu.phase = "receive" /\ ~BlockDone(g)
  BY <1>3 DEF EcuHears
<1> QED
  BY <1>1, <1>2, <1>3

LEMMA TransmitKeeps ==
  SessionInv /\ Transmit =>
    /\ SessionInv'
    /\ hostBlocks' # hostBlocks => ecu'.asked = session.txFrame /\ ecu'.asked[2] = hostBlocks
<1> SUFFICES ASSUME SessionInv, Transmit
             PROVE  /\ SessionInv'
                    /\ hostBlocks' # hostBlocks =>
                         ecu'.asked = session.txFrame /\ ecu'.asked[2] = hostBlocks
  OBVIOUS
<1>1. /\ toWire # <<>> /\ toWire' = <<>> /\ EcuHears(Head(toWire)) /\ rx' = Append(rx, Head(toWire))
      /\ session' = session /\ handedOn' = handedOn /\ unpublished' = unpublished
  BY DEF Transmit
<1>2. /\ ecu.phase \in {"await", "receive"} /\ Head(toWire) \in K!Byte
  BY <1>1, WireIs DEF SessionInv, AnswersUnit, ContinuesBlock
<1>3. PICK g : g = Append(ecu.block, Head(toWire))
  OBVIOUS
<1>4. g \in Seq(K!Byte)
  <2>1. ecu.block \in Seq(K!Byte)
    BY SessionFacts, UnitFields
  <2> QED
    BY <1>2, <1>3, <2>1, AppendProperties
<1>5. ASSUME ecu.phase = "await", hostBlocks' = hostBlocks, disturbances' = disturbances,
             ecu' = IF Head(toWire) = K!Complement(ecu.frame[ecu.index])
                    THEN [ecu EXCEPT !.phase = "send", !.index = @ + 1]
                    ELSE [ecu EXCEPT !.phase = "silent"]
      PROVE  SessionInv'
  <2>1. Sound(session, rx', <<>>, ecu', hostBlocks)
    BY <1>1, <1>5, AnswerIsSound DEF SessionInv
  <2> QED
    BY <1>1, <1>5, <2>1 DEF SessionInv
<1>6. ASSUME ecu.phase = "receive", ~BlockDone(g), hostBlocks' = hostBlocks, disturbances' = disturbances,
             ecu' = [ecu EXCEPT !.phase = "acknowledge", !.block = g]
      PROVE  SessionInv'
  <2>1. Sound(session, rx', <<>>, ecu', hostBlocks)
    BY <1>1, <1>3, <1>6, ByteIsSound DEF SessionInv
  <2> QED
    BY <1>1, <1>6, <2>1 DEF SessionInv
<1>7. ASSUME ecu.phase = "receive", BlockDone(g), EcuReply(g),
             hostBlocks' = (hostBlocks + 1) % CounterModulus
      PROVE  SessionInv' /\ ecu'.asked = session.txFrame /\ ecu'.asked[2] = hostBlocks
  <2>1. /\ ecu' \in Units /\ ecu'.phase = "send" /\ ecu'.index = 1 /\ ecu'.asked = g
        /\ IsBlock(ecu'.frame) /\ (Disturb \/ Undisturbed)
    BY <1>4, <1>7, SessionFacts, EcuReplyIs
  <2>2. PICK v : v = ecu'
    OBVIOUS
  <2>3. /\ Sound(session, rx', <<>>, v, (hostBlocks + 1) % CounterModulus)
        /\ g = session.txFrame /\ g[2] = hostBlocks
    <3>1. Replies(v, g)
      BY <2>1, <2>2 DEF Replies
    <3>2. Sound(session, rx, toWire, ecu, hostBlocks) /\ toWire # <<>> /\ ecu.phase = "receive"
      BY <1>1, <1>7 DEF SessionInv
    <3>3. g = Append(ecu.block, Head(toWire)) /\ BlockDone(g)
      BY <1>3, <1>7
    <3>4. Sound(session, Append(rx, Head(toWire)), <<>>, v, NextCounter(hostBlocks))
      BY <3>1, <3>2, <3>3, ReplyIsSound
    <3>5. g = session.txFrame /\ g[2] = hostBlocks
      <4>1. BlockDone(Append(ecu.block, Head(toWire)))
        BY <3>3
      <4> QED
        BY <3>2, <3>3, <4>1, ReceivedIsBuilt
    <3> QED
      BY <1>1, <3>4, <3>5 DEF NextCounter
  <2>4. disturbances' \in 0 .. MaxDisturbances
    BY <2>1, SessionFacts, DisturbIs
  <2> QED
    BY <1>1, <1>7, <2>1, <2>2, <2>3, <2>4 DEF SessionInv
<1> QED
  BY <1>1, <1>2, <1>3, <1>5, <1>6, <1>7, HearingIs

LEMMA DisturbEchoKeeps ==
  SessionInv /\ DisturbEcho => SessionInv'
<1> SUFFICES ASSUME SessionInv, DisturbEcho PROVE SessionInv'
  OBVIOUS
<1>1. /\ rx # <<>> /\ Disturb /\ session' = session /\ toWire' = toWire /\ ecu' = ecu
      /\ handedOn' = handedOn /\ unpublished' = unpublished /\ hostBlocks' = hostBlocks
  BY DEF DisturbEcho
<1>2. PICK n \in Nat : n = Len(rx) /\ n # 0 /\ n - 1 \in Nat /\ n - 1 <= n
  <2>1. PICK n \in Nat : n = Len(rx) /\ n # 0
    BY <1>1, SessionFacts, EmptySeq
  <2> QED
    BY <2>1
<1>3. rx' \in Seq(K!Byte) /\ Len(rx') <= Len(rx)
  <2>1. CASE rx' = Front(rx)
    <3>1. PICK f : f = Front(rx)
      OBVIOUS
    <3>2. f = [i \in 1 .. n - 1 |-> rx[i]]
      BY <1>2, <3>1, SessionFacts DEF Front, SubSeq
    <3>3. \A i \in 1 .. n - 1 : rx[i] \in K!Byte
      BY <1>2, SessionFacts
    <3>4. f \in Seq(K!Byte) /\ Len(f) = n - 1
      BY <1>2, <3>2, <3>3
    <3> QED
      BY <1>2, <2>1, <3>1, <3>4
  <2>2. CASE rx' = [rx EXCEPT ![Len(rx)] = (@ + 1) % 256]
    <3>1. PICK b \in K!Byte : b = rx[n]
      BY <1>2, SessionFacts
    <3>2. PICK c \in K!Byte : c = (b + 1) % 256
      BY DEF K!Byte
    <3>3. rx' = [rx EXCEPT ![n] = c]
      BY <1>2, <2>2, <3>1, <3>2
    <3>4. rx' \in Seq(K!Byte) /\ Len(rx') = n
      BY <1>2, <3>3, SessionFacts
    <3> QED
      BY <1>2, <3>4
  <2> QED
    BY <2>1, <2>2 DEF DisturbEcho
<1>4. Sound(session, rx', toWire, ecu, hostBlocks)
  BY <1>3, EchoIsSound DEF SessionInv
<1> QED
  BY <1>1, <1>4, SessionFacts, DisturbIs DEF SessionInv

LEMMA EndKeeps ==
  SessionInv /\ (Disconnect \/ Stall) => SessionInv'
<1> SUFFICES ASSUME SessionInv, Disconnect \/ Stall PROVE SessionInv'
  OBVIOUS
<1>1. /\ session' = Disconnected(session) /\ ~Busy(session) /\ rx' = rx /\ toWire' = toWire /\ ecu' = ecu
      /\ handedOn' = handedOn /\ unpublished' = unpublished /\ hostBlocks' = hostBlocks
      /\ (Disturb \/ Undisturbed)
  BY DEF Disconnect, Stall, LoopIsFree, Busy, Undisturbed
<1>2. Sound(session', rx, toWire, ecu, hostBlocks)
  BY <1>1, DisconnectIsSound DEF SessionInv
<1> QED
  BY <1>1, <1>2, SessionFacts, DisturbIs DEF SessionInv

\* Every step keeps the invariant, publishes only the unit's block with the group it answers, and
\* gives the unit only the block that was built.
LEMMA SessionStep ==
  SessionInv /\ [Next]_vars =>
    /\ SessionInv'
    /\ handedOn' # handedOn =>
         /\ handedOn'.frame = ecu.frame /\ ecu.phase = "receive" /\ ecu.asked = session.txFrame
         /\ handedOn'.groupHint = session.plan.group
    /\ hostBlocks' # hostBlocks => ecu'.asked = session.txFrame /\ ecu'.asked[2] = hostBlocks
<1> SUFFICES ASSUME SessionInv, [Next]_vars
             PROVE  /\ SessionInv'
                    /\ handedOn' # handedOn =>
                         /\ handedOn'.frame = ecu.frame /\ ecu.phase = "receive"
                         /\ ecu.asked = session.txFrame /\ handedOn'.groupHint = session.plan.group
                    /\ hostBlocks' # hostBlocks =>
                         ecu'.asked = session.txFrame /\ ecu'.asked[2] = hostBlocks
  OBVIOUS
<1>1. CASE Submit
  BY <1>1, SubmitKeeps DEF Submit
<1>2. CASE Completion
  BY <1>2, CompletionKeeps DEF Completion
<1>3. CASE PollRx
  BY <1>3, ReceiveKeeps DEF PollRx
<1>4. CASE EcuSend
  BY <1>4, EcuSendKeeps DEF EcuSend
<1>5. CASE EcuAcknowledge
  BY <1>5, EcuAcknowledgeKeeps DEF EcuAcknowledge
<1>6. CASE Transmit
  BY <1>6, TransmitKeeps DEF Transmit
<1>7. CASE DisturbEcho
  BY <1>7, DisturbEchoKeeps DEF DisturbEcho
<1>8. CASE Disconnect \/ Stall
  BY <1>8, EndKeeps DEF Disconnect, Stall
<1>9. CASE UNCHANGED vars
  BY <1>9 DEF vars, SessionInv
<1> QED
  BY <1>1, <1>2, <1>3, <1>4, <1>5, <1>6, <1>7, <1>8, <1>9 DEF Next, Runner, Line

\* A group body the plan accepts answers the block just built.
LEMMA HintIs ==
  ASSUME SessionInv, Accepts(session.plan, "GroupBody")
  PROVE  session.plan.group = RequestedGroup(session.txFrame)
<1>1. PlanShape(session)
  BY SessionFacts
<1>2. session.plan.stage \in {"WaitingGroupZero", "WaitingGroupBody"}
  BY DEF Accepts
<1>3. CASE session.plan.stage = "WaitingGroupZero"
  BY <1>1, <1>3 DEF PlanShape, RequestedGroup
<1>4. CASE session.plan.stage = "WaitingGroupBody"
  BY <1>1, <1>4 DEF PlanShape, RequestedGroup
<1> QED
  BY <1>2, <1>3, <1>4

\* BlocksIntact: whatever the disturbances, the frame queue is given blocks of the unit, whole and
\* with the group they answer, and the unit is given the blocks buildCommand wrote (onRxByte,
\* publishValidatedFrame and buildCommand of KwpMeasurementSession), for every counter width,
\* payload and number of disturbances.
THEOREM WhatPassesIsIntact == Spec => BlocksIntact
<1>1. Init => SessionInv
  BY InitIsSound
<1>2. SessionInv /\ [Next]_vars => SessionInv'
  BY SessionStep
<1>3. SessionInv /\ [Next]_vars =>
        [handedOn' # handedOn => handedOn'.frame = ecu.frame /\ ecu.phase = "receive"]_vars
  BY SessionStep
<1>4. SessionInv /\ [Next]_vars =>
        [(/\ handedOn' # handedOn
          /\ ParsedTitle(handedOn'.frame) = "GroupBody"
          /\ Accepts(session.plan, "GroupBody")) =>
           handedOn'.groupHint = RequestedGroup(ecu.asked)]_vars
  BY SessionStep, HintIs
<1>5. SessionInv /\ [Next]_vars =>
        [hostBlocks' # hostBlocks => ecu'.asked = session.txFrame /\ ecu'.asked[2] = hostBlocks]_vars
  BY SessionStep
<1> QED
  BY <1>1, <1>2, <1>3, <1>4, <1>5, PTL DEF Spec, BlocksIntact, PublishedAsSent, HintMatchesRequest, HostBlockAsBuilt
-----------------------------------------------------------------------------
(* An undisturbed dialogue. *)

\* What the unit may answer, whatever the number of its identification blocks.
Could(block, previous) ==
  IF block[3] = 9
  THEN IF previous = "Identification" THEN {"Identification", "Ack"} ELSE {"Ack"}
  ELSE IF block[3] = 18 THEN {"GroupBody"}
  ELSE IF block[3] = 41
  THEN IF previous = "GroupHeader" THEN {"GroupBody", "Refused"} ELSE {"GroupHeader"}
  ELSE {"Refused"}

\* The host talks, or its last byte has not reached the unit.
HostsTurn(s, w) == s.engine.state \in HostStates /\ (~LastByte(s) \/ s.queued \/ w # <<>>)

\* The plan waits for what the unit answers, or has begun to answer.
PlanFits(s, w, u) ==
  /\ HostsTurn(s, w) => \A t \in Could(s.txFrame, ParsedTitle(u.frame)) : Accepts(s.plan, t)
  /\ ~HostsTurn(s, w) => Accepts(s.plan, ParsedTitle(u.frame))

\* The byte of the unit the session waits for.
UnitByte(s, u) ==
  IF Talking(s) THEN K!Complement(s.txFrame[Sent(s)]) ELSE u.frame[Len(s.engine.frame) + 1]

\* What has arrived is what was sent: the echo, then the byte of the unit.
Pure(s, q, u) ==
  /\ s.engine.state \in EchoStates =>
       /\ q # <<>> => Head(q) = s.engine.expectedEcho
       /\ q # <<>> /\ Tail(q) # <<>> => Head(Tail(q)) = UnitByte(s, u)
  /\ s.engine.state \notin EchoStates => (q # <<>> => Head(q) = UnitByte(s, u))

Unread(s, u) == IF s.engine.state \notin HostStates /\ u.phase = "receive" THEN 1 ELSE 0

\* No byte is lost, none is early, and the block under way is the unit's up to its last byte.
Calm(s, q, w, u, n) ==
  /\ s.state = "Running" /\ ~s.engine.deferred.pending
  /\ Coming(s, q, w, u) = Need(s)
  /\ s.engine.state \in RxEchoes /\ (s.queued \/ w # <<>>) =>
       s.engine.frame[u.index] = u.frame[u.index]
  /\ Pure(s, q, u) /\ PlanFits(s, w, u) /\ n = Unread(s, u)

LEMMA ExpectedIs ==
  ASSUME NEW block
  PROVE  ExpectedTitles(block) \subseteq Could(block, ParsedTitle(ecu.frame))
<1>1. PICK p : p = ParsedTitle(ecu.frame)
  OBVIOUS
<1>2. CASE block[3] = 9 /\ p = "Identification"
  BY <1>1, <1>2 DEF ExpectedTitles, Could, GroupZeroTitle, GroupSelectTitle
<1>3. CASE block[3] = 9 /\ p # "Identification"
  BY <1>1, <1>3 DEF ExpectedTitles, Could, GroupZeroTitle, GroupSelectTitle
<1>4. CASE block[3] = 18
  BY <1>1, <1>4 DEF ExpectedTitles, Could, GroupZeroTitle, GroupSelectTitle
<1>5. CASE block[3] = 41
  BY <1>1, <1>5 DEF ExpectedTitles, Could, GroupZeroTitle, GroupSelectTitle
<1>6. CASE block[3] \notin {9, 18, 41}
  BY <1>1, <1>6 DEF ExpectedTitles, Could, GroupZeroTitle, GroupSelectTitle
<1> QED
  BY <1>2, <1>3, <1>4, <1>5, <1>6

\* The plan waits for every answer to the block it has just asked for.
LEMMA ReplyFits ==
  ASSUME NEW title, NEW d, Reply(title, d), ~d.plan.pending
  PROVE  \A t \in Could(d.txFrame, title) : Accepts(d.plan, t)
<1>1. CASE title = "Identification" /\ d.plan.stage = "WaitingIdentification" /\ d.txFrame[3] = 9
  BY <1>1 DEF Could, Accepts
<1>2. CASE title \in {"Ack", "GroupBody", "Refused"} /\ d.plan.stage = "WaitingGroupZero" /\ d.txFrame[3] = 18
  BY <1>2 DEF Could, Accepts
<1>3. CASE title \in {"GroupBody", "Refused"} /\ d.plan.stage = "WaitingGroupSwitchAck" /\ d.txFrame[3] = 9
  BY <1>3 DEF Could, Accepts
<1>4. CASE title = "Ack" /\ d.plan.stage = "WaitingGroupHeader" /\ d.txFrame[3] = 41
  BY <1>4 DEF Could, Accepts
<1>5. CASE title = "GroupHeader" /\ d.plan.stage = "WaitingGroupBody" /\ d.txFrame[3] = 41
  BY <1>5 DEF Could, Accepts
<1> QED
  BY <1>1, <1>2, <1>3, <1>4, <1>5 DEF Reply

\* In an undisturbed dialogue the unit has heard everything that was sent.
LEMMA CalmIsHeard ==
  ASSUME NEW s, NEW q, NEW w, NEW u, NEW h, NEW n, Sound(s, q, w, u, h), Calm(s, q, w, u, n),
         ~s.queued, w = <<>>
  PROVE  Heard(s, u, h)
BY DEF Sound, Balance, Calm

LEMMA CalmSubmit ==
  ASSUME NEW s, NEW q, NEW w, NEW u, NEW h, NEW n, Sound(s, q, w, u, h), Calm(s, q, w, u, n), s.queued,
         NEW d, d = PopAction(s)
  PROVE  Calm(d, q, <<s.actionByte>>, u, n)
<1>1. /\ SameTalk(s, d) /\ d.engine = s.engine /\ d.state = "Running" /\ ~d.queued
  BY PopIs DEF Sound
<1>2. <<s.actionByte>> # <<>>
  OBVIOUS
<1>3. OnWire(d, <<s.actionByte>>) = OnWire(s, w) /\ Need(d) = Need(s)
  BY <1>1, <1>2 DEF OnWire, Need
<1>4. Coming(d, q, <<s.actionByte>>, u) = Coming(s, q, w, u)
  BY <1>3 DEF Coming
<1>5. (LastByte(d) <=> LastByte(s)) /\ (Talking(d) <=> Talking(s)) /\ Sent(d) = Sent(s)
  BY <1>1 DEF LastByte, Talking, Sent, SameTalk
<1>6. Pure(d, q, u)
  BY <1>1, <1>5 DEF Calm, Pure, UnitByte, SameTalk
<1>7. PlanFits(d, <<s.actionByte>>, u)
  <2>1. HostsTurn(d, <<s.actionByte>>) <=> HostsTurn(s, w)
    BY <1>1, <1>2 DEF HostsTurn
  <2> QED
    BY <1>1, <2>1 DEF Calm, PlanFits, SameTalk
<1> QED
  BY <1>1, <1>3, <1>4, <1>6, <1>7 DEF Calm, Unread

LEMMA CalmCompletion ==
  ASSUME NEW s, NEW q, NEW w, NEW u, NEW h, NEW n, Sound(s, q, w, u, h), Calm(s, q, w, u, n), s.issued,
         NEW d, d = SessionCompletion(s, TRUE)
  PROVE  Calm(d, q, w, u, n)
<1>1. /\ SameTalk(s, d) /\ d.state = "Running" /\ ~Busy(d) /\ d.engine.state = s.engine.state
      /\ d.engine.frame = s.engine.frame /\ ~s.engine.deferred.pending /\ ~d.engine.deferred.pending
      /\ d.engine.expectedEcho = s.engine.expectedEcho
  BY CompletedIs DEF Sound
<1>2. ~s.queued /\ ~d.queued
  BY <1>1 DEF Sound, Shape, Busy
<1>3. OnWire(d, w) = OnWire(s, w) /\ Need(d) = Need(s)
  BY <1>1, <1>2 DEF OnWire, Need
<1>4. Coming(d, q, w, u) = Coming(s, q, w, u)
  BY <1>3 DEF Coming
<1>5. (LastByte(d) <=> LastByte(s)) /\ (Talking(d) <=> Talking(s)) /\ Sent(d) = Sent(s)
  BY <1>1 DEF LastByte, Talking, Sent, SameTalk
<1>6. Pure(d, q, u)
  BY <1>1, <1>5 DEF Calm, Pure, UnitByte, SameTalk
<1>7. PlanFits(d, w, u)
  <2>1. HostsTurn(d, w) <=> HostsTurn(s, w)
    BY <1>1, <1>2, <1>5 DEF HostsTurn
  <2> QED
    BY <1>1, <2>1 DEF Calm, PlanFits, SameTalk
<1> QED
  BY <1>1, <1>2, <1>3, <1>4, <1>6, <1>7 DEF Calm, Unread
-----------------------------------------------------------------------------
(* The session takes a byte of an undisturbed dialogue. *)

\* What it waits for, and what it has heard of the unit's block.
LEMMA CalmTaking ==
  ASSUME NEW s, NEW q, NEW w, NEW u, NEW h, NEW n, Sound(s, q, w, u, h), Calm(s, q, w, u, n),
         Listening(s), q # <<>>
  PROVE  /\ w = <<>> /\ ~s.queued /\ Heard(s, u, h) /\ Head(q) \in K!Byte /\ Tail(q) \in Seq(K!Byte)
         /\ ~s.engine.deferred.pending /\ Pure(s, q, u) /\ PlanFits(s, w, u) /\ n = Unread(s, u)
         /\ s.engine.state \in EchoStates => Need(s) = 2
         /\ s.engine.state \notin EchoStates => Need(s) = 1 /\ Tail(q) = <<>> /\ FromUnit(u) = 0
         /\ \A d : ~d.queued => Coming(d, Tail(q), <<>>, u) + 1 = Need(s)
<1>1. /\ w = <<>> /\ ~s.queued /\ Head(q) \in K!Byte /\ Tail(q) \in Seq(K!Byte)
      /\ Need(s) = 1 => Tail(q) = <<>> /\ FromUnit(u) = 0
      /\ \A d : ~d.queued => Coming(d, Tail(q), <<>>, u) + 1 = Coming(s, q, w, u)
  BY TakingIs
<1>2. Heard(s, u, h)
  BY <1>1, CalmIsHeard
<1>3. /\ ~s.engine.deferred.pending /\ Pure(s, q, u) /\ PlanFits(s, w, u) /\ n = Unread(s, u)
      /\ Coming(s, q, w, u) = Need(s)
  BY DEF Calm
<1>4. /\ s.engine.state \in EchoStates => Need(s) = 2
      /\ s.engine.state \notin EchoStates => Need(s) = 1
  BY <1>3 DEF Need
<1> QED
  BY <1>1, <1>2, <1>3, <1>4

\* It goes on listening: one byte less is on its way, and one less is waited for.
LEMMA CalmQuiet ==
  ASSUME NEW s, NEW q, NEW w, NEW u, NEW h, NEW n, Sound(s, q, w, u, h), Calm(s, q, w, u, n),
         Listening(s), q # <<>>, s.engine.state \in EchoStates,
         NEW d, Quiet(s, d), d.engine.state \notin EchoStates, ~d.engine.deferred.pending,
         d.engine.frame = s.engine.frame, Talking(d) <=> Talking(s), HostsTurn(d, w) <=> HostsTurn(s, w),
         Unread(d, u) = Unread(s, u)
  PROVE  Calm(d, Tail(q), w, u, n)
<1>1. d.state = "Running" /\ ~d.queued /\ SameTalk(s, d)
  BY DEF Quiet, Listening, Busy
<1>2. Need(d) = 1 /\ Need(s) = 2
  BY CalmTaking DEF Need
<1>3. Coming(d, Tail(q), w, u) = Need(d)
  <2>1. Coming(d, Tail(q), <<>>, u) + 1 = 2
    BY <1>1, <1>2, CalmTaking
  <2>2. Coming(d, Tail(q), <<>>, u) \in Nat
    BY CalmTaking, ComingIs
  <2>3. Coming(d, Tail(q), <<>>, u) = 1
    BY <2>1, <2>2
  <2> QED
    BY <1>2, <2>3, CalmTaking
<1>4. Pure(d, Tail(q), u)
  <2>1. UnitByte(d, u) = UnitByte(s, u)
    BY <1>1 DEF UnitByte, SameTalk, Sent
  <2>2. Tail(q) # <<>> => Head(Tail(q)) = UnitByte(s, u)
    BY CalmTaking DEF Pure
  <2> QED
    BY <2>1, <2>2 DEF Pure
<1>5. PlanFits(d, w, u)
  BY <1>1, CalmTaking DEF PlanFits, SameTalk
<1>6. w = <<>> /\ n = Unread(d, u)
  BY CalmTaking
<1> QED
  BY <1>1, <1>3, <1>4, <1>5, <1>6 DEF Calm

\* It sends: its byte comes back and is answered.
LEMMA CalmQueued ==
  ASSUME NEW q, NEW w, NEW u, NEW n, w = <<>>, q = <<>>, FromUnit(u) = 0, NEW d, d.state = "Running", d.queued,
         d.engine.state \in EchoStates, ~d.engine.deferred.pending, PlanFits(d, w, u), n = Unread(d, u),
         d.engine.state \in RxEchoes => d.engine.frame[u.index] = u.frame[u.index]
  PROVE  Calm(d, q, w, u, n)
<1>1. OnWire(d, w) = 2 /\ Need(d) = 2 /\ Len(q) = 0
  BY DEF OnWire, Need
<1>2. Coming(d, q, w, u) = 0 + 2 + 0
  BY <1>1 DEF Coming
<1>3. Coming(d, q, w, u) = Need(d)
  BY <1>1, <1>2
<1>4. Pure(d, q, u)
  BY DEF Pure
<1> QED
  BY <1>3, <1>4 DEF Calm

LEMMA CalmAck ==
  ASSUME NEW s, NEW q, NEW w, NEW u, NEW h, NEW n, Sound(s, q, w, u, h), Calm(s, q, w, u, n),
         Listening(s), q # <<>>, s.engine.state \in {"RxLength", "RxByte"},
         NEW x, x = Head(q), NEW d, AckQueued(s, x, d), Sound(d, Tail(q), w, u, h)
  PROVE  Calm(d, Tail(q), w, u, n)
<1>1. /\ w = <<>> /\ Tail(q) = <<>> /\ FromUnit(u) = 0 /\ x \in K!Byte
      /\ PlanFits(s, w, u) /\ n = Unread(s, u) /\ Pure(s, q, u)
  BY CalmTaking DEF EchoStates
<1>2. /\ d.state = "Running" /\ d.queued /\ d.engine.state \in RxEchoes /\ d.engine.state \in EchoStates
      /\ d.engine.state \notin HostStates /\ s.engine.state \notin HostStates
      /\ ~d.engine.deferred.pending /\ d.plan = s.plan /\ d.engine.frame = Append(s.engine.frame, x)
  BY DEF AckQueued, RxEchoes, EchoStates, HostStates
<1>3. PlanFits(d, w, u)
  BY <1>1, <1>2 DEF PlanFits, HostsTurn
<1>4. n = Unread(d, u)
  BY <1>1, <1>2 DEF Unread
<1>5. d.engine.frame[u.index] = u.frame[u.index]
  <2>1. s.engine.frame \in Seq(K!Byte)
    BY ListeningFields
  <2>2. PICK f \in Seq(K!Byte), k \in Nat : f = s.engine.frame /\ k = Len(f)
    BY <2>1
  <2>3. Len(Append(f, x)) = k + 1 /\ Append(f, x)[k + 1] = x
    BY <1>1, <2>2, AppendProperties
  <2>4. x = u.frame[k + 1]
    BY <1>1, <1>2, <2>2 DEF Pure, UnitByte, Talking, EchoStates
  <2>5. u.index = k + 1
    <3>1. AnswersUnit(d, u, h) \/ ContinuesBlock(d, u, h)
      BY <1>2 DEF Sound, WireRel
    <3>2. Len(d.engine.frame) = k + 1 /\ d.engine.frame # <<>>
      <4>1. Len(d.engine.frame) = k + 1 /\ k + 1 # 0
        BY <1>2, <2>2, <2>3
      <4> QED
        BY <4>1
    <3> QED
      BY <3>1, <3>2 DEF AnswersUnit, ContinuesBlock
  <2> QED
    BY <1>2, <2>2, <2>3, <2>4, <2>5
<1> QED
  BY <1>1, <1>2, <1>3, <1>4, <1>5, CalmQueued

\* A whole block was asked for and is answered.
LEMMA CalmAnswer ==
  ASSUME NEW s, NEW q, NEW w, NEW u, NEW h, NEW n, Sound(s, q, w, u, h), Calm(s, q, w, u, n),
         Listening(s), q # <<>>, s.engine.state = "RxByte", u.phase = "receive",
         NEW d, Answered(s, ParsedTitle(u.frame), d)
  PROVE  Calm(d, Tail(q), w, u, n - 1)
<1>1. w = <<>> /\ Tail(q) = <<>> /\ FromUnit(u) = 0 /\ n = 1
  BY CalmTaking DEF EchoStates, HostStates, Unread
<1>2. /\ d.state = "Running" /\ d.queued /\ d.engine.state = "HostEcho" /\ ~d.engine.deferred.pending
      /\ ~d.plan.pending /\ Reply(ParsedTitle(u.frame), d)
  BY DEF Answered, Shape
<1>3. PlanFits(d, w, u)
  <2>1. HostsTurn(d, w)
    BY <1>2 DEF HostsTurn, HostStates
  <2> QED
    BY <1>2, <2>1, ReplyFits DEF PlanFits
<1>4. n - 1 = Unread(d, u)
  BY <1>1, <1>2 DEF Unread, HostStates
<1>5. d.engine.state \in EchoStates /\ d.engine.state \notin RxEchoes
  BY <1>2 DEF EchoStates, RxEchoes
<1> QED
  BY <1>1, <1>2, <1>3, <1>4, <1>5, CalmQueued

\* The echo of a byte that was sent.
LEMMA CalmEcho ==
  ASSUME NEW s, NEW q, NEW w, NEW u, NEW h, NEW n, Sound(s, q, w, u, h), Calm(s, q, w, u, n),
         Listening(s), q # <<>>, s.engine.state \in EchoStates,
         NEW heard, heard = ReceiveByte(s, Head(q)), NEW d, d = SessionRxByte(heard)
  PROVE  Calm(d, Tail(q), w, u, n) /\ ~HasFrame(heard)
<1>1. /\ w = <<>> /\ ~s.queued /\ Heard(s, u, h) /\ ~s.engine.deferred.pending
      /\ Head(q) = s.engine.expectedEcho /\ d = Hear(s, s.engine.expectedEcho)
  BY CalmTaking DEF Pure, Hear
<1>2. CASE s.engine.state = "HostEcho" /\ ~LastByte(s)
  <2>1. /\ ~HasFrame(heard) /\ Quiet(s, d) /\ d.engine.state = "HostAck"
        /\ d.engine.frame = s.engine.frame /\ d.engine.deferred = s.engine.deferred
    BY <1>1, <1>2, HostEcho
  <2>2. LastByte(d) <=> LastByte(s)
    BY <2>1 DEF Quiet, SameTalk, LastByte, Sent
  <2>3. /\ d.engine.state \notin EchoStates /\ (Talking(d) <=> Talking(s))
        /\ (HostsTurn(d, w) <=> HostsTurn(s, w)) /\ Unread(d, u) = Unread(s, u)
    BY <1>2, <2>1, <2>2 DEF EchoStates, HostStates, Talking, HostsTurn, Unread
  <2>4. Calm(d, Tail(q), w, u, n)
    BY <1>1, <2>1, <2>3, CalmQuiet
  <2> QED
    BY <2>1, <2>4
<1>3. CASE s.engine.state = "HostEcho" /\ LastByte(s)
  <2>1. /\ ~HasFrame(heard) /\ Quiet(s, d) /\ d.engine.state = "RxLength"
        /\ d.engine.frame = s.engine.frame
    BY <1>1, <1>3, LastEcho
  <2>2. ~d.engine.deferred.pending /\ ~d.queued
    BY <2>1 DEF Quiet, Listening, Shape, EngineShape, Busy
  <2>3. u.phase # "receive"
    <3>1. HeardAnswer(s, u, h) /\ s.engine.frame = <<>> /\ IsBlock(u.frame)
      BY <1>1, <1>3, ListeningFields DEF Heard, Talking, EngineShape, HostStates, Sound, UnitShape
    <3>2. Len(s.engine.frame) = 0
      BY <3>1
    <3>3. Ahead(0, u)
      BY <3>1, <3>2 DEF HeardAnswer
    <3>4. 0 + 1 # Len(u.frame)
      <4>1. PICK l \in 4 .. 65 : l = Len(u.frame)
        BY <3>1 DEF IsBlock
      <4>2. 0 + 1 # l
        OBVIOUS
      <4> QED
        BY <4>1, <4>2
    <3> QED
      BY <3>3, <3>4 DEF Ahead
  <2>4. /\ d.engine.state \notin EchoStates /\ (Talking(d) <=> Talking(s))
        /\ (HostsTurn(d, w) <=> HostsTurn(s, w)) /\ Unread(d, u) = Unread(s, u)
    BY <1>1, <1>3, <2>1, <2>3 DEF EchoStates, HostStates, Talking, HostsTurn, Unread
  <2>5. Calm(d, Tail(q), w, u, n)
    BY <1>1, <2>1, <2>2, <2>4, CalmQuiet
  <2> QED
    BY <2>1, <2>5
<1>4. CASE s.engine.state \in RxEchoes
  <2>1. /\ ~HasFrame(heard) /\ Quiet(s, d) /\ d.engine.state = "RxByte"
        /\ d.engine.frame = s.engine.frame
    BY <1>1, <1>4, OwnEcho DEF Hear
  <2>2. ~d.engine.deferred.pending /\ ~d.queued
    BY <2>1 DEF Quiet, Listening, Shape, EngineShape, Busy
  <2>3. /\ d.engine.state \notin EchoStates /\ (Talking(d) <=> Talking(s))
        /\ (HostsTurn(d, w) <=> HostsTurn(s, w)) /\ Unread(d, u) = Unread(s, u)
    BY <1>4, <2>1 DEF EchoStates, RxEchoes, HostStates, Talking, HostsTurn, Unread
  <2>4. Calm(d, Tail(q), w, u, n)
    BY <1>1, <2>1, <2>2, <2>3, CalmQuiet
  <2> QED
    BY <2>1, <2>4
<1> QED
  BY <1>2, <1>3, <1>4 DEF EchoStates, RxEchoes

\* The unit's answer to a host byte.
LEMMA CalmHostByte ==
  ASSUME NEW s, NEW q, NEW w, NEW u, NEW h, NEW n, Sound(s, q, w, u, h), Calm(s, q, w, u, n),
         Listening(s), q # <<>>, s.engine.state = "HostAck",
         NEW heard, heard = ReceiveByte(s, Head(q)), NEW d, d = SessionRxByte(heard)
  PROVE  Calm(d, Tail(q), w, u, n) /\ ~HasFrame(heard)
<1>1. /\ w = <<>> /\ Tail(q) = <<>> /\ FromUnit(u) = 0 /\ ~s.engine.deferred.pending
      /\ Head(q) = UnitByte(s, u) /\ PlanFits(s, w, u) /\ n = Unread(s, u)
  BY CalmTaking DEF Pure, EchoStates
<1>2. HostShape(s) /\ ~LastByte(s)
  BY ListeningFields DEF WaitShape, HostShape, HostStates
<1>3. Head(q) = s.engine.expectedAck
  BY <1>1, <1>2 DEF UnitByte, Talking, HostStates, HostShape
<1>4. ~HasFrame(heard) /\ NextHostByte(s, d)
  BY <1>1, <1>3, UnitAck
<1>5. /\ d.state = "Running" /\ d.queued /\ d.engine.state = "HostEcho" /\ ~d.engine.deferred.pending
      /\ d.plan = s.plan /\ d.txFrame = s.txFrame
  BY <1>4 DEF NextHostByte
<1>6. PlanFits(d, w, u)
  <2>1. HostsTurn(d, w) /\ HostsTurn(s, w)
    BY <1>2, <1>5 DEF HostsTurn, HostStates
  <2> QED
    BY <1>1, <1>5, <2>1 DEF PlanFits
<1>7. n = Unread(d, u) /\ d.engine.state \in EchoStates /\ d.engine.state \notin RxEchoes
  BY <1>1, <1>5 DEF Unread, HostStates, EchoStates, RxEchoes
<1> QED
  BY <1>1, <1>4, <1>5, <1>6, <1>7, CalmQueued

\* The first byte of a block of the unit.
LEMMA CalmLength ==
  ASSUME NEW s, NEW q, NEW w, NEW u, NEW h, NEW n, Sound(s, q, w, u, h), Calm(s, q, w, u, n),
         Listening(s), q # <<>>, s.engine.state = "RxLength",
         NEW heard, heard = ReceiveByte(s, Head(q)), NEW d, d = SessionRxByte(heard)
  PROVE  Calm(d, Tail(q), w, u, n) /\ ~HasFrame(heard)
<1>1. Head(q) = UnitByte(s, u) /\ Head(q) \in K!Byte
  BY CalmTaking DEF Pure, EchoStates
<1>2. LengthTaken(s, Head(q), heard, d)
  BY <1>1, DueLength
<1>3. Head(q) \in 3 .. 64
  <2>1. s.engine.frame = <<>> /\ IsBlock(u.frame)
    BY ListeningFields DEF EngineShape, Sound, UnitShape
  <2>2. Len(s.engine.frame) = 0
    BY <2>1
  <2>3. Head(q) = u.frame[0 + 1]
    BY <1>1, <2>2 DEF UnitByte, Talking, HostStates
  <2>4. PICK l \in 4 .. 65 : l = Len(u.frame) /\ u.frame[1] = l - 1
    BY <2>1 DEF IsBlock
  <2>5. 0 + 1 = 1 /\ l - 1 \in 3 .. 64
    OBVIOUS
  <2> QED
    BY <2>3, <2>4, <2>5
<1>4. ~HasFrame(heard) /\ AckQueued(s, Head(q), d)
  BY <1>2, <1>3 DEF LengthTaken
<1>5. Sound(d, Tail(q), w, u, h)
  BY ReceiveIsSound DEF Taken
<1> QED
  BY <1>4, <1>5, CalmAck

\* Another byte of it: the last is the block end, and the block was asked for.
LEMMA CalmByte ==
  ASSUME NEW s, NEW q, NEW w, NEW u, NEW h, NEW n, Sound(s, q, w, u, h), Calm(s, q, w, u, n),
         Listening(s), q # <<>>, s.engine.state = "RxByte",
         NEW heard, heard = ReceiveByte(s, Head(q)), NEW d, d = SessionRxByte(heard)
  PROVE  /\ HasFrame(heard) => K!ParseValid(heard.engine.frame) /\ Calm(d, Tail(q), w, u, n - 1)
         /\ ~HasFrame(heard) => Calm(d, Tail(q), w, u, n)
<1>1. Head(q) = UnitByte(s, u) /\ Head(q) \in K!Byte /\ PlanFits(s, w, u) /\ Heard(s, u, h)
  BY CalmTaking DEF Pure, EchoStates
<1>2. ~Talking(s) /\ ~HostsTurn(s, w)
  BY DEF Talking, HostsTurn, HostStates
<1>3. HeardAnswer(s, u, h)
  BY <1>1, <1>2 DEF Heard
<1>4. PICK k \in Nat : k = Len(s.engine.frame)
  BY ListeningFields
<1>5. Head(q) = u.frame[k + 1] /\ s.engine.expectedSize = Len(u.frame)
  BY <1>1, <1>2, <1>3, <1>4, SizeIs DEF UnitByte
<1>6. ByteTaken(s, Head(q), heard, d)
  BY <1>1, DueByte
<1>7. Taken(s, q, w, u, h, heard, d)
  BY ReceiveIsSound
<1>8. CASE ~HasFrame(heard) /\ FaultOutcome(s, d) /\ Len(s.engine.frame) + 1 = s.engine.expectedSize /\ Head(q) # 3
  <2>1. u.frame[Len(u.frame)] = 3
    BY DEF Sound, UnitShape, IsBlock
  <2> QED
    BY <1>4, <1>5, <1>8, <2>1
<1>9. CASE ~HasFrame(heard) /\ AckQueued(s, Head(q), d)
  <2>1. Sound(d, Tail(q), w, u, h)
    BY <1>7 DEF Taken
  <2> QED
    BY <1>9, <2>1, CalmAck
<1>10. CASE BlockTaken(s, Append(s.engine.frame, Head(q)), heard, d)
  <2>1. PICK g : g = Append(s.engine.frame, Head(q)) /\ BlockTaken(s, g, heard, d)
    BY <1>10
  <2>2. HasFrame(heard) /\ K!ParseValid(heard.engine.frame) /\ heard.engine.frame = g
    BY <2>1 DEF BlockTaken
  <2>3. g = u.frame /\ u.phase = "receive"
    BY <1>7, <2>2 DEF Taken
  <2>4. Accepts(s.plan, ParsedTitle(g))
    BY <1>1, <1>2, <2>3 DEF PlanFits
  <2>5. Answered(s, ParsedTitle(u.frame), d)
    BY <2>1, <2>3, <2>4 DEF BlockTaken
  <2>6. Calm(d, Tail(q), w, u, n - 1)
    BY <2>3, <2>5, CalmAnswer
  <2> QED
    BY <2>2, <2>6
<1> QED
  BY <1>6, <1>8, <1>9, <1>10 DEF ByteTaken

LEMMA CalmReceive ==
  ASSUME NEW s, NEW q, NEW w, NEW u, NEW h, NEW n, Sound(s, q, w, u, h), Calm(s, q, w, u, n),
         Listening(s), q # <<>>,
         NEW heard, heard = ReceiveByte(s, Head(q)), NEW d, d = SessionRxByte(heard)
  PROVE  /\ HasFrame(heard) => K!ParseValid(heard.engine.frame) /\ Calm(d, Tail(q), w, u, n - 1)
         /\ ~HasFrame(heard) => Calm(d, Tail(q), w, u, n)
<1>1. s.engine.state \in EchoStates \cup {"HostAck", "RxLength", "RxByte"}
  BY ListeningFields DEF WaitShape
<1>2. CASE s.engine.state \in EchoStates
  BY <1>2, CalmEcho
<1>3. CASE s.engine.state = "HostAck"
  BY <1>3, CalmHostByte
<1>4. CASE s.engine.state = "RxLength"
  BY <1>4, CalmLength
<1>5. CASE s.engine.state = "RxByte"
  BY <1>5, CalmByte
<1> QED
  BY <1>1, <1>2, <1>3, <1>4, <1>5
-----------------------------------------------------------------------------
(* The line of an undisturbed dialogue. *)

\* A byte of the unit arrives where the session waits for it.
LEMMA CalmArrival ==
  ASSUME NEW s, NEW q, NEW w, NEW u, NEW h, NEW n, Sound(s, q, w, u, h), Calm(s, q, w, u, n),
         FromUnit(u) = 1, NEW b \in K!Byte, b = UnitByte(s, u),
         NEW v, FromUnit(v) = 0, UnitByte(s, v) = UnitByte(s, u)
  PROVE  /\ w = <<>> /\ ~s.queued /\ Heard(s, u, h)
         /\ Coming(s, Append(q, b), w, v) = Need(s) /\ Pure(s, Append(q, b), v)
<1>1. q \in Seq(K!Byte) /\ Coming(s, q, w, u) = Need(s) /\ Pure(s, q, u) /\ ~s.engine.deferred.pending
  BY DEF Sound, Calm
<1>2. w = <<>> /\ ~s.queued
  BY DEF Sound, WireRel, AnswersUnit, ContinuesBlock, FromUnit
<1>3. Heard(s, u, h)
  BY <1>2, CalmIsHeard
<1>4. PICK m \in Nat : m = Len(q)
  BY <1>1
<1>5. OnWire(s, w) = 0
  BY <1>2 DEF OnWire
<1>6. PICK j \in Nat : j = Need(s) /\ j = m + 1
  <2>1. Coming(s, q, w, u) = m + 0 + 1
    BY <1>4, <1>5 DEF Coming
  <2>2. m + 0 + 1 = m + 1 /\ m + 1 \in Nat
    OBVIOUS
  <2> QED
    BY <1>1, <2>1, <2>2
<1>7. PICK r \in Seq(K!Byte) : /\ r = Append(q, b) /\ Len(r) = m + 1 /\ r[m + 1] = b
                               /\ \A i \in 1 .. m : r[i] = q[i]
  <2>1. Append(q, b) \in Seq(K!Byte) /\ Len(Append(q, b)) = m + 1 /\ Append(q, b)[m + 1] = b
        /\ \A i \in 1 .. m : Append(q, b)[i] = q[i]
    BY <1>1, <1>4, AppendProperties
  <2> QED
    BY <2>1
<1>8. Coming(s, r, w, v) = (m + 1) + 0 + 0
  BY <1>5, <1>7 DEF Coming
<1>9. Coming(s, r, w, v) = Need(s)
  <2>1. (m + 1) + 0 + 0 = j
    BY <1>6
  <2> QED
    BY <1>6, <1>8, <2>1
<1>10. Pure(s, r, v)
  <2>1. CASE s.engine.state \in EchoStates
    <3>1. Need(s) = 2
      BY <1>1, <2>1 DEF Need
    <3>2. m = 1
      <4>1. m + 1 = 2
        BY <1>6, <3>1
      <4> QED
        BY <4>1
    <3>3. q # <<>> /\ Len(q) = 1 /\ 1 \in 1 .. m
      <4>1. Len(q) = 1 /\ 1 \in 1 .. m
        BY <1>4, <3>2
      <4> QED
        BY <4>1
    <3>4. Head(q) = s.engine.expectedEcho
      BY <1>1, <2>1, <3>3 DEF Pure
    <3>5. r[1] = q[1] /\ r[2] = b /\ Len(r) = 2
      BY <1>7, <3>2, <3>3
    <3>6. r # <<>> /\ Head(r) = r[1] /\ Head(q) = q[1]
      BY <1>1, <3>3, <3>5, HeadTailProperties
    <3>7. Head(Tail(r)) = r[2]
      <4>1. Tail(r) \in Seq(K!Byte) /\ Len(Tail(r)) = 1 /\ Tail(r)[1] = r[2]
        <5>1. /\ Tail(r) \in Seq(K!Byte) /\ Len(Tail(r)) = Len(r) - 1
              /\ \A i \in 1 .. Len(Tail(r)) : Tail(r)[i] = r[i + 1]
          BY <3>6, HeadTailProperties
        <5>2. Len(Tail(r)) = 1
          <6>1. 2 - 1 = 1
            OBVIOUS
          <6> QED
            BY <3>5, <5>1, <6>1
        <5>3. 1 \in 1 .. 1 /\ 1 + 1 = 2
          OBVIOUS
        <5>4. Tail(r)[1] = r[1 + 1]
          BY <5>1, <5>2, <5>3
        <5> QED
          BY <5>1, <5>2, <5>3, <5>4
      <4> DEFINE t == Tail(r)
      <4>2. t \in Seq(K!Byte) /\ Len(t) = 1 /\ t[1] = r[2]
        BY <4>1
      <4> HIDE DEF t
      <4>3. t # <<>>
        <5>1. t = <<>> <=> Len(t) = 0
          BY <4>2, EmptySeq
        <5>2. Len(t) # 0
          BY <4>2
        <5> QED
          BY <5>1, <5>2
      <4>4. Head(t) = t[1]
        BY <4>2, <4>3, HeadTailProperties
      <4>5. Head(t) = r[2]
        BY <4>2, <4>4
      <4> QED
        BY <4>5 DEF t
    <3> QED
      BY <2>1, <3>4, <3>5, <3>6, <3>7 DEF Pure
  <2>2. CASE s.engine.state \notin EchoStates
    <3>1. Need(s) = 1
      BY <1>1, <2>2 DEF Need
    <3>2. m = 0
      <4>1. m + 1 = 1
        BY <1>6, <3>1
      <4> QED
        BY <4>1
    <3>3. r[1] = b /\ Len(r) = 1
      BY <1>7, <3>2
    <3>4. Head(r) = r[1]
      BY <3>3
    <3> QED
      BY <2>2, <3>3, <3>4 DEF Pure
  <2> QED
    BY <2>1, <2>2
<1> QED
  BY <1>2, <1>3, <1>7, <1>9, <1>10

LEMMA CalmSend ==
  ASSUME NEW s, NEW q, NEW w, NEW u, NEW h, NEW n, Sound(s, q, w, u, h), Calm(s, q, w, u, n),
         u.phase = "send", NEW v,
         v = IF u.index < Len(u.frame) THEN [u EXCEPT !.phase = "await"]
             ELSE [u EXCEPT !.phase = "receive", !.block = <<>>],
         NEW k, k = IF u.index < Len(u.frame) THEN n ELSE n + 1
  PROVE  Calm(s, Append(q, u.frame[u.index]), w, v, k)
<1>1. u \in Units /\ UnitShape(u) /\ IsBlock(u.frame)
  BY DEF Sound, UnitShape
<1>2. v.frame = u.frame /\ v.phase = IF u.index < Len(u.frame) THEN "await" ELSE "receive"
  <2>1. CASE u.index < Len(u.frame)
    <3>1. v = [u EXCEPT !.phase = "await"]
      BY <2>1
    <3> QED
      BY <1>1, <2>1, <3>1 DEF Units
  <2>2. CASE ~(u.index < Len(u.frame))
    <3>1. v = [u EXCEPT !.phase = "receive", !.block = <<>>]
      BY <2>2
    <3> QED
      BY <1>1, <2>2, <3>1 DEF Units
  <2> QED
    BY <2>1, <2>2
<1>3. FromUnit(u) = 1 /\ FromUnit(v) = 0
  BY <1>2 DEF FromUnit
<1>4. w = <<>> /\ ~s.queued
  BY DEF Sound, WireRel, AnswersUnit, ContinuesBlock
<1>5. HeardAnswer(s, u, h) /\ ~Talking(s)
  BY <1>4, CalmIsHeard DEF Heard, HeardBlock
<1>6. u.index = Len(s.engine.frame) + 1
  BY <1>5 DEF HeardAnswer, Ahead
<1>7. PICK b : b = u.frame[u.index]
  OBVIOUS
<1>8. b \in K!Byte
  <2>1. u.index \in Nat /\ 1 <= u.index /\ u.index <= Len(u.frame) /\ u.frame \in Seq(K!Byte)
    BY <1>1, UnitFields DEF UnitShape
  <2>2. u.index \in 1 .. Len(u.frame)
    BY <2>1
  <2> QED
    BY <1>7, <2>1, <2>2
<1>9. b = UnitByte(s, u) /\ UnitByte(s, v) = UnitByte(s, u)
  BY <1>2, <1>5, <1>6, <1>7 DEF UnitByte
<1>10. Coming(s, Append(q, b), w, v) = Need(s) /\ Pure(s, Append(q, b), v)
  BY <1>3, <1>8, <1>9, CalmArrival
<1>11. PlanFits(s, w, v)
  BY <1>2 DEF Calm, PlanFits
<1>12. k = Unread(s, v)
  <2>1. n = 0
    BY DEF Calm, Unread
  <2>2. CASE u.index < Len(u.frame)
    BY <1>2, <2>1, <2>2 DEF Unread
  <2>3. CASE ~(u.index < Len(u.frame))
    <3>1. k = 1 /\ v.phase = "receive"
      BY <1>2, <2>1, <2>3
    <3>2. s.engine.state \notin HostStates
      <4> SUFFICES ASSUME s.engine.state \in HostStates PROVE FALSE
        OBVIOUS
      <4>1. s.engine.frame = <<>>
        BY DEF Sound, Shape, EngineShape
      <4>2. Len(s.engine.frame) = 0
        BY <4>1
      <4>3. u.index = 1
        BY <1>6, <4>2
      <4>4. 0 + 1 < Len(u.frame)
        BY <1>1, BlockIsLong
      <4> QED
        BY <2>3, <4>3, <4>4
    <3> QED
      BY <3>1, <3>2 DEF Unread
  <2> QED
    BY <2>2, <2>3
<1> QED
  BY <1>4, <1>7, <1>10, <1>11, <1>12 DEF Calm

LEMMA CalmAcknowledge ==
  ASSUME NEW s, NEW q, NEW w, NEW u, NEW h, NEW n, Sound(s, q, w, u, h), Calm(s, q, w, u, n),
         u.phase = "acknowledge", NEW v, v = [u EXCEPT !.phase = "receive"]
  PROVE  Calm(s, Append(q, K!Complement(Last(u.block))), w, v, n)
<1>1. u \in Units /\ UnitShape(u) /\ u.block \in Seq(K!Byte) /\ u.block # <<>>
  BY UnitFields DEF Sound, UnitShape
<1>2. v.frame = u.frame /\ v.phase = "receive"
  BY <1>1 DEF Units
<1>3. FromUnit(u) = 1 /\ FromUnit(v) = 0
  BY <1>2 DEF FromUnit
<1>4. w = <<>> /\ ~s.queued
  BY DEF Sound, WireRel, AnswersUnit, ContinuesBlock
<1>5. HeardBlock(s, u, h) /\ Talking(s)
  BY <1>4, CalmIsHeard DEF Heard, HeardAnswer, Ahead
<1>6. PICK m \in Nat : m = Len(u.block) /\ m # 0
  BY <1>1, EmptySeq
<1>7. Last(u.block) = u.block[m] /\ u.block[m] \in K!Byte /\ m \in 1 .. m /\ m = Sent(s)
  BY <1>1, <1>5, <1>6 DEF Last, HeardBlock
<1>8. u.block[m] = s.txFrame[Sent(s)]
  BY <1>5, <1>7 DEF HeardBlock, Agree
<1>9. PICK b \in K!Byte : b = K!Complement(Last(u.block))
  BY <1>7, ComplementIs
<1>10. b = UnitByte(s, u) /\ UnitByte(s, v) = UnitByte(s, u)
  BY <1>5, <1>7, <1>8, <1>9 DEF UnitByte
<1>11. Coming(s, Append(q, b), w, v) = Need(s) /\ Pure(s, Append(q, b), v)
  BY <1>3, <1>10, CalmArrival
<1>12. PlanFits(s, w, v)
  BY <1>2 DEF Calm, PlanFits
<1>13. n = Unread(s, v)
  BY <1>5 DEF Calm, Unread, Talking
<1> QED
  BY <1>4, <1>9, <1>11, <1>12, <1>13 DEF Calm

\* The host's byte: it comes back first, and the unit will answer it.
LEMMA CalmEchoComes ==
  ASSUME NEW s, NEW q, NEW w, NEW u, NEW h, NEW n, Sound(s, q, w, u, h), Calm(s, q, w, u, n), w # <<>>,
         NEW v, FromUnit(v) = 1
  PROVE  /\ Coming(s, Append(q, Head(w)), <<>>, v) = Need(s) /\ Pure(s, Append(q, Head(w)), v)
         /\ s.engine.state \in EchoStates /\ ~s.queued /\ Head(w) = s.actionByte
<1>1. s.state = "Running" /\ WaitShape(s)
  BY DEF Calm, Sound, Shape
<1>2. /\ s.engine.state \in EchoStates /\ q = <<>> /\ ~s.engine.deferred.pending
      /\ Head(w) = s.actionByte /\ s.actionByte \in K!Byte /\ ~s.queued /\ OnWire(s, <<>>) = 0
  BY <1>1, TwoIsEcho, WireIs
<1>3. s.engine.expectedEcho = s.actionByte
  BY <1>1, <1>2 DEF WaitShape
<1>4. Append(q, Head(w)) = <<s.actionByte>> /\ Len(<<s.actionByte>>) = 1
      /\ Head(<<s.actionByte>>) = s.actionByte /\ Tail(<<s.actionByte>>) = <<>>
  BY <1>2
<1>5. Pure(s, Append(q, Head(w)), v)
  BY <1>2, <1>3, <1>4 DEF Pure
<1>6. Coming(s, Append(q, Head(w)), <<>>, v) = 1 + 0 + 1
  BY <1>2, <1>4 DEF Coming
<1>7. Need(s) = 2
  BY <1>2 DEF Need
<1> QED
  BY <1>2, <1>5, <1>6, <1>7

LEMMA CalmHeardAnswer ==
  ASSUME NEW s, NEW q, NEW w, NEW u, NEW h, NEW n, Sound(s, q, w, u, h), Calm(s, q, w, u, n), w # <<>>,
         u.phase = "await", NEW v,
         v = IF Head(w) = K!Complement(u.frame[u.index])
             THEN [u EXCEPT !.phase = "send", !.index = @ + 1]
             ELSE [u EXCEPT !.phase = "silent"]
  PROVE  Calm(s, Append(q, Head(w)), <<>>, v, n)
<1>1. u \in Units /\ EngineShape(s.engine) /\ s.state = "Running" /\ s.engine.frame \in Seq(K!Byte)
  <2>1. s.engine \in K!Engine
    BY SessionFields DEF Sound, Shape
  <2> QED
    BY <2>1, EngineFields DEF Sound, UnitShape, Shape, Calm
<1>2. /\ Head(w) = s.actionByte /\ AnswersUnit(s, u, h) /\ ~s.queued /\ s.engine.state \in EchoStates
  <2>1. Head(w) = s.actionByte /\ AnswersUnit(s, u, h) /\ ~s.queued
    BY WireIs DEF ContinuesBlock
  <2> QED
    BY <1>1, <2>1, TwoIsEcho
<1>3. s.engine.state \in RxEchoes
  <2>1. s.engine.frame # <<>>
    <3>1. Len(s.engine.frame) = u.index /\ 1 <= u.index
      BY <1>2 DEF AnswersUnit, Sound, UnitShape
    <3>2. Len(s.engine.frame) # 0
      BY <3>1
    <3> QED
      BY <3>2
  <2> QED
    BY <1>1, <1>2, <2>1 DEF EngineShape, EchoStates, RxEchoes, HostStates
<1>4. s.engine.frame[u.index] = u.frame[u.index]
  BY <1>3 DEF Calm
<1>5. Head(w) = K!Complement(u.frame[u.index])
  BY <1>2, <1>4 DEF AnswersUnit
<1>6. v.phase = "send" /\ v.frame = u.frame
  <2>1. v = [u EXCEPT !.phase = "send", !.index = @ + 1]
    BY <1>5
  <2> QED
    BY <1>1, <2>1 DEF Units
<1>7. FromUnit(v) = 1
  BY <1>6 DEF FromUnit
<1>8. Coming(s, Append(q, Head(w)), <<>>, v) = Need(s) /\ Pure(s, Append(q, Head(w)), v)
  BY <1>7, CalmEchoComes
<1>9. s.engine.state \notin HostStates
  BY <1>3 DEF RxEchoes, HostStates
<1>10. PlanFits(s, <<>>, v)
  BY <1>6, <1>9 DEF Calm, PlanFits, HostsTurn
<1>11. n = Unread(s, v)
  BY <1>6 DEF Calm, Unread
<1> QED
  BY <1>2, <1>8, <1>10, <1>11 DEF Calm

LEMMA CalmHeardByte ==
  ASSUME NEW s, NEW q, NEW w, NEW u, NEW h, NEW n, Sound(s, q, w, u, h), Calm(s, q, w, u, n), w # <<>>,
         u.phase = "receive", NEW g, g = Append(u.block, Head(w)), ~BlockDone(g), NEW v,
         v = [u EXCEPT !.phase = "acknowledge", !.block = g]
  PROVE  Calm(s, Append(q, Head(w)), <<>>, v, n)
<1>1. u \in Units /\ s \in Sessions /\ EngineShape(s.engine) /\ s.state = "Running"
  BY DEF Sound, UnitShape, Shape, Calm
<1>2. Head(w) = s.actionByte /\ ContinuesBlock(s, u, h) /\ ~s.queued
  BY WireIs DEF AnswersUnit
<1>3. ~LastByte(s)
  BY <1>1, <1>2, BlockGrows
<1>4. s.engine.state = "HostEcho"
  BY <1>1, <1>2, TwoIsEcho DEF ContinuesBlock, EngineShape, EchoStates, RxEchoes
<1>5. v.phase = "acknowledge" /\ v.frame = u.frame
  BY <1>1 DEF Units
<1>6. FromUnit(v) = 1
  BY <1>5 DEF FromUnit
<1>7. Coming(s, Append(q, Head(w)), <<>>, v) = Need(s) /\ Pure(s, Append(q, Head(w)), v)
  BY <1>6, CalmEchoComes
<1>8. PlanFits(s, <<>>, v)
  BY <1>3, <1>4, <1>5 DEF Calm, PlanFits, HostsTurn, HostStates
<1>9. n = Unread(s, v) /\ s.engine.state \notin RxEchoes
  BY <1>4 DEF Calm, Unread, HostStates, RxEchoes
<1> QED
  BY <1>2, <1>7, <1>8, <1>9 DEF Calm

\* The unit answers the block with a title the plan waits for.
LEMMA CalmReply ==
  ASSUME NEW s, NEW q, NEW w, NEW u, NEW h, NEW n, Sound(s, q, w, u, h), Calm(s, q, w, u, n), w # <<>>,
         u.phase = "receive", NEW g, g = Append(u.block, Head(w)), BlockDone(g), NEW v, Replies(v, g),
         ParsedTitle(v.frame) \in Could(g, ParsedTitle(u.frame))
  PROVE  Calm(s, Append(q, Head(w)), <<>>, v, n)
<1>1. u \in Units /\ s \in Sessions /\ EngineShape(s.engine) /\ s.state = "Running"
  BY DEF Sound, UnitShape, Shape, Calm
<1>2. Head(w) = s.actionByte /\ ContinuesBlock(s, u, h) /\ ~s.queued
  BY WireIs DEF AnswersUnit
<1>3. LastByte(s) /\ g = s.txFrame
  BY ReceivedIsBuilt
<1>4. s.engine.state = "HostEcho"
  BY <1>1, <1>2, TwoIsEcho DEF ContinuesBlock, EngineShape, EchoStates, RxEchoes
<1>5. v.phase = "send" /\ FromUnit(v) = 1
  BY DEF Replies, FromUnit
<1>6. Coming(s, Append(q, Head(w)), <<>>, v) = Need(s) /\ Pure(s, Append(q, Head(w)), v)
  BY <1>5, CalmEchoComes
<1>7. PlanFits(s, <<>>, v)
  <2>1. HostsTurn(s, w) /\ ~HostsTurn(s, <<>>)
    BY <1>2, <1>3, <1>4 DEF HostsTurn, HostStates
  <2> QED
    BY <1>3, <2>1 DEF Calm, PlanFits
<1>8. n = Unread(s, v) /\ s.engine.state \notin RxEchoes
  BY <1>4 DEF Calm, Unread, HostStates, RxEchoes
<1> QED
  BY <1>2, <1>6, <1>7, <1>8 DEF Calm
-----------------------------------------------------------------------------
(* What an undisturbed dialogue keeps. *)

CalmInv == disturbances = 0 => Calm(session, rx, toWire, ecu, unpublished)

DialogueInv == SessionInv /\ CalmInv

\* Only an undisturbed step leaves an undisturbed dialogue.
LEMMA UndisturbedIs ==
  ASSUME disturbances \in 0 .. MaxDisturbances, disturbances' = 0
  PROVE  /\ ~Disturb
         /\ Disturb \/ Undisturbed => Undisturbed
         /\ Undisturbed => disturbances = 0
<1>1. disturbances + 1 # 0
  BY DisturbanceAssumption
<1> QED
  BY <1>1 DEF Disturb, Undisturbed

LEMMA InitIsCalm ==
  Init => CalmInv
<1> SUFFICES ASSUME Init PROVE Calm(session, rx, toWire, ecu, unpublished)
  BY DEF CalmInv
<1>1. PICK frame \in EcuBlocks("Identification") :
        ecu = [phase |-> "send", frame |-> frame, index |-> 1, block |-> <<>>, asked |-> <<>>, idents |-> 1]
  BY DEF Init
<1>2. ParsedTitle(frame) = "Identification"
  BY <1>1, EcuBlocksAre DEF Titles
<1>3. session = StartedSession /\ rx = <<>> /\ toWire = <<>> /\ unpublished = 0
  BY DEF Init
<1>4. session.state = "Running" /\ session.engine.state = "RxLength" /\ ~session.engine.deferred.pending
      /\ ~session.queued /\ Len(rx) = 0
  BY <1>3, StartedIs
<1>5. OnWire(session, toWire) = 0 /\ FromUnit(ecu) = 1 /\ Need(session) = 1
  BY <1>1, <1>3, <1>4 DEF OnWire, FromUnit, Need, EchoStates
<1>6. Coming(session, rx, toWire, ecu) = 0 + 0 + 1
  BY <1>4, <1>5 DEF Coming
<1>7. Pure(session, rx, ecu)
  BY <1>3 DEF Pure
<1>8. PlanFits(session, toWire, ecu)
  <2>1. session.plan = StartedPlan
    BY <1>3 DEF StartedSession
  <2>2. Accepts(session.plan, "Identification")
    BY <2>1 DEF StartedPlan, Accepts
  <2> QED
    BY <1>1, <1>2, <1>4, <2>2 DEF PlanFits, HostsTurn, HostStates
<1>9. unpublished = Unread(session, ecu)
  BY <1>1, <1>3 DEF Unread
<1> QED
  BY <1>3, <1>4, <1>5, <1>6, <1>7, <1>8, <1>9 DEF Calm, RxEchoes

LEMMA SubmitStaysCalm ==
  DialogueInv /\ Submit => CalmInv'
<1> SUFFICES ASSUME DialogueInv, Submit, disturbances' = 0
             PROVE  Calm(session, rx, toWire, ecu, unpublished)'
  BY DEF CalmInv
<1>1. Sound(session, rx, toWire, ecu, hostBlocks) /\ ~Disturb
  BY UndisturbedIs DEF DialogueInv, SessionInv
<1>2. /\ session.queued /\ session' = PopAction(session) /\ toWire' = <<session.actionByte>>
      /\ Undisturbed /\ rx' = rx /\ ecu' = ecu /\ unpublished' = unpublished
  BY <1>1 DEF Submit
<1>3. Calm(session, rx, toWire, ecu, unpublished)
  BY <1>2, UndisturbedIs DEF DialogueInv, SessionInv, CalmInv
<1>4. Calm(session', rx, <<session.actionByte>>, ecu, unpublished)
  BY <1>1, <1>2, <1>3, CalmSubmit
<1> QED
  BY <1>2, <1>4

LEMMA CompletionStaysCalm ==
  DialogueInv /\ Completion => CalmInv'
<1> SUFFICES ASSUME DialogueInv, Completion, disturbances' = 0
             PROVE  Calm(session, rx, toWire, ecu, unpublished)'
  BY DEF CalmInv
<1>1. Sound(session, rx, toWire, ecu, hostBlocks) /\ ~Disturb
  BY UndisturbedIs DEF DialogueInv, SessionInv
<1>2. /\ session.issued /\ session' = SessionCompletion(session, TRUE) /\ toWire' = toWire
      /\ Undisturbed /\ rx' = rx /\ ecu' = ecu /\ unpublished' = unpublished
  BY <1>1 DEF Completion
<1>3. Calm(session, rx, toWire, ecu, unpublished)
  BY <1>2, UndisturbedIs DEF DialogueInv, SessionInv, CalmInv
<1>4. Calm(session', rx, toWire, ecu, unpublished)
  BY <1>1, <1>2, <1>3, CalmCompletion
<1> QED
  BY <1>2, <1>4

LEMMA ReceiveStaysCalm ==
  DialogueInv /\ PollRx => CalmInv'
<1> SUFFICES ASSUME DialogueInv, PollRx, disturbances' = 0
             PROVE  Calm(session, rx, toWire, ecu, unpublished)'
  BY DEF CalmInv
<1>1. PICK heard : heard = ReceiveByte(session, Head(rx))
  OBVIOUS
<1>2. /\ rx # <<>> /\ session' = SessionRxByte(heard) /\ rx' = Tail(rx) /\ toWire' = toWire /\ ecu' = ecu
      /\ disturbances' = disturbances
      /\ HasFrame(heard) /\ K!ParseValid(heard.engine.frame) => unpublished' = unpublished - 1
      /\ ~(HasFrame(heard) /\ K!ParseValid(heard.engine.frame)) => unpublished' = unpublished
  BY <1>1 DEF PollRx
<1>3. Sound(session, rx, toWire, ecu, hostBlocks) /\ Calm(session, rx, toWire, ecu, unpublished)
  BY <1>2 DEF DialogueInv, SessionInv, CalmInv
<1>4. Listening(session)
  BY <1>3 DEF PollRx, Running, LoopIsFree, Listening, Busy, Sound
<1>5. PICK d : d = SessionRxByte(heard) /\ d = session'
  BY <1>2
<1>6. /\ HasFrame(heard) => /\ K!ParseValid(heard.engine.frame)
                            /\ Calm(d, Tail(rx), toWire, ecu, unpublished - 1)
      /\ ~HasFrame(heard) => Calm(d, Tail(rx), toWire, ecu, unpublished)
  BY <1>1, <1>2, <1>3, <1>4, <1>5, CalmReceive
<1> QED
  BY <1>2, <1>5, <1>6

LEMMA EcuSendStaysCalm ==
  DialogueInv /\ EcuSend => CalmInv'
<1> SUFFICES ASSUME DialogueInv, EcuSend, disturbances' = 0
             PROVE  Calm(session, rx, toWire, ecu, unpublished)'
  BY DEF CalmInv
<1>1. Sound(session, rx, toWire, ecu, hostBlocks) /\ ~Disturb
  BY UndisturbedIs DEF DialogueInv, SessionInv
<1>2. /\ ecu.phase = "send" /\ rx' = Append(rx, ecu.frame[ecu.index]) /\ Undisturbed
      /\ session' = session /\ toWire' = toWire
  BY <1>1 DEF EcuSend, Arrives
<1>3. Calm(session, rx, toWire, ecu, unpublished)
  BY <1>2, UndisturbedIs DEF DialogueInv, SessionInv, CalmInv
<1>4. PICK v, k : v = ecu' /\ k = unpublished'
  OBVIOUS
<1>5. /\ v = IF ecu.index < Len(ecu.frame) THEN [ecu EXCEPT !.phase = "await"]
             ELSE [ecu EXCEPT !.phase = "receive", !.block = <<>>]
      /\ k = IF ecu.index < Len(ecu.frame) THEN unpublished ELSE unpublished + 1
  BY <1>4 DEF EcuSend
<1>6. Calm(session, Append(rx, ecu.frame[ecu.index]), toWire, v, k)
  BY <1>1, <1>2, <1>3, <1>5, CalmSend
<1> QED
  BY <1>2, <1>4, <1>6

LEMMA EcuAcknowledgeStaysCalm ==
  DialogueInv /\ EcuAcknowledge => CalmInv'
<1> SUFFICES ASSUME DialogueInv, EcuAcknowledge, disturbances' = 0
             PROVE  Calm(session, rx, toWire, ecu, unpublished)'
  BY DEF CalmInv
<1>1. Sound(session, rx, toWire, ecu, hostBlocks) /\ ~Disturb
  BY UndisturbedIs DEF DialogueInv, SessionInv
<1>2. /\ ecu.phase = "acknowledge" /\ rx' = Append(rx, K!Complement(Last(ecu.block))) /\ Undisturbed
      /\ session' = session /\ toWire' = toWire /\ unpublished' = unpublished
      /\ ecu' = [ecu EXCEPT !.phase = "receive"]
  BY <1>1 DEF EcuAcknowledge, Arrives
<1>3. Calm(session, rx, toWire, ecu, unpublished)
  BY <1>2, UndisturbedIs DEF DialogueInv, SessionInv, CalmInv
<1>4. PICK v : v = ecu' /\ v = [ecu EXCEPT !.phase = "receive"]
  BY <1>2
<1>5. Calm(session, Append(rx, K!Complement(Last(ecu.block))), toWire, v, unpublished)
  BY <1>1, <1>2, <1>3, <1>4, CalmAcknowledge
<1> QED
  BY <1>2, <1>4, <1>5

LEMMA TransmitStaysCalm ==
  DialogueInv /\ Transmit => CalmInv'
<1> SUFFICES ASSUME DialogueInv, Transmit, disturbances' = 0
             PROVE  Calm(session, rx, toWire, ecu, unpublished)'
  BY DEF CalmInv
<1>1. Sound(session, rx, toWire, ecu, hostBlocks) /\ ~Disturb /\ ecu \in Units
  BY UndisturbedIs, SessionFacts DEF DialogueInv, SessionInv
<1>2. /\ toWire # <<>> /\ toWire' = <<>> /\ EcuHears(Head(toWire)) /\ rx' = Append(rx, Head(toWire))
      /\ session' = session /\ unpublished' = unpublished
  BY DEF Transmit
<1>3. ecu.phase \in {"await", "receive"} /\ Head(toWire) \in K!Byte
  BY <1>1, <1>2, WireIs DEF AnswersUnit, ContinuesBlock
<1>4. PICK g, v : g = Append(ecu.block, Head(toWire)) /\ v = ecu'
  OBVIOUS
<1>5. disturbances' = disturbances => Calm(session, rx, toWire, ecu, unpublished)
  BY DEF DialogueInv, CalmInv
<1>6. ASSUME ecu.phase = "await", disturbances' = disturbances,
             ecu' = IF Head(toWire) = K!Complement(ecu.frame[ecu.index])
                    THEN [ecu EXCEPT !.phase = "send", !.index = @ + 1]
                    ELSE [ecu EXCEPT !.phase = "silent"]
      PROVE  Calm(session, Append(rx, Head(toWire)), <<>>, v, unpublished)
  BY <1>1, <1>2, <1>4, <1>5, <1>6, CalmHeardAnswer
<1>7. ASSUME ecu.phase = "receive", ~BlockDone(g), disturbances' = disturbances,
             ecu' = [ecu EXCEPT !.phase = "acknowledge", !.block = g]
      PROVE  Calm(session, Append(rx, Head(toWire)), <<>>, v, unpublished)
  BY <1>1, <1>2, <1>4, <1>5, <1>7, CalmHeardByte
<1>8. ASSUME ecu.phase = "receive", BlockDone(g), EcuReply(g)
      PROVE  Calm(session, Append(rx, Head(toWire)), <<>>, v, unpublished)
  <2>1. g \in Seq(K!Byte)
    <3>1. ecu.block \in Seq(K!Byte)
      BY <1>1, UnitFields
    <3> QED
      BY <1>3, <1>4, <3>1, AppendProperties
  <2>2. /\ ecu' \in Units /\ ecu'.phase = "send" /\ ecu'.index = 1 /\ ecu'.asked = g
        /\ IsBlock(ecu'.frame) /\ (Disturb \/ Undisturbed)
        /\ \E title \in Titles : /\ ParsedTitle(ecu'.frame) = title
                                 /\ Undisturbed => title \in ExpectedTitles(g)
    BY <1>1, <1>8, <2>1, EcuReplyIs
  <2>3. Undisturbed /\ disturbances' = disturbances
    BY <1>1, <2>2 DEF Undisturbed
  <2>4. ParsedTitle(v.frame) \in Could(g, ParsedTitle(ecu.frame))
    <3>1. ParsedTitle(ecu'.frame) \in ExpectedTitles(g)
      BY <2>2, <2>3
    <3> QED
      BY <1>4, <3>1, ExpectedIs
  <2>5. Replies(v, g)
    BY <1>4, <2>2 DEF Replies
  <2>6. Calm(session, rx, toWire, ecu, unpublished)
    BY <1>5, <2>3
  <2> QED
    BY <1>1, <1>2, <1>4, <1>8, <2>4, <2>5, <2>6, CalmReply
<1>9. Calm(session, Append(rx, Head(toWire)), <<>>, v, unpublished)
  BY <1>2, <1>3, <1>4, <1>6, <1>7, <1>8, HearingIs
<1> QED
  BY <1>2, <1>4, <1>9

\* A dialogue that goes on is never silent for the stall time.
LEMMA StallNeedsDisturbance ==
  DialogueInv /\ Stall => disturbances # 0
<1> SUFFICES ASSUME DialogueInv, Stall, disturbances = 0 PROVE FALSE
  OBVIOUS
<1>1. /\ rx = <<>> /\ toWire = <<>> /\ ~session.queued /\ FromUnit(ecu) = 0 /\ Len(rx) = 0
  BY DEF Stall, LineSilent, LoopIsFree, FromUnit
<1>2. ~session.engine.deferred.pending /\ Coming(session, rx, toWire, ecu) = Need(session)
  BY DEF DialogueInv, CalmInv, Calm
<1>3. Need(session) \in {1, 2}
  BY <1>2 DEF Need
<1>4. OnWire(session, toWire) = 0
  BY <1>1 DEF OnWire
<1>5. Coming(session, rx, toWire, ecu) = 0 + 0 + 0
  BY <1>1, <1>4 DEF Coming
<1>6. 0 + 0 + 0 = 0 /\ 0 \notin {1, 2}
  OBVIOUS
<1> QED
  BY <1>2, <1>3, <1>5, <1>6

LEMMA DialogueStep ==
  DialogueInv /\ [Next]_vars => DialogueInv'
<1> SUFFICES ASSUME DialogueInv, [Next]_vars PROVE DialogueInv'
  OBVIOUS
<1>1. SessionInv' /\ disturbances \in 0 .. MaxDisturbances
  BY SessionStep, SessionFacts DEF DialogueInv
<1>2. CASE Submit
  BY <1>1, <1>2, SubmitStaysCalm DEF DialogueInv
<1>3. CASE Completion
  BY <1>1, <1>3, CompletionStaysCalm DEF DialogueInv
<1>4. CASE PollRx
  BY <1>1, <1>4, ReceiveStaysCalm DEF DialogueInv
<1>5. CASE EcuSend
  BY <1>1, <1>5, EcuSendStaysCalm DEF DialogueInv
<1>6. CASE EcuAcknowledge
  BY <1>1, <1>6, EcuAcknowledgeStaysCalm DEF DialogueInv
<1>7. CASE Transmit
  BY <1>1, <1>7, TransmitStaysCalm DEF DialogueInv
<1>8. CASE DisturbEcho \/ Disconnect
  <2>1. Disturb
    BY <1>8 DEF DisturbEcho, Disconnect
  <2>2. disturbances' # 0
    BY <1>1, <2>1, UndisturbedIs
  <2> QED
    BY <1>1, <2>2 DEF DialogueInv, CalmInv
<1>9. CASE Stall
  <2>1. disturbances' # 0
    BY <1>9, StallNeedsDisturbance DEF Stall
  <2> QED
    BY <1>1, <2>1 DEF DialogueInv, CalmInv
<1>10. CASE UNCHANGED vars
  BY <1>1, <1>10 DEF vars, DialogueInv, CalmInv
<1> QED
  BY <1>2, <1>3, <1>4, <1>5, <1>6, <1>7, <1>8, <1>9, <1>10 DEF Next, Runner, Line

LEMMA DialogueIsKept == Spec => []DialogueInv
<1>1. Init => DialogueInv
  BY InitIsSound, InitIsCalm DEF DialogueInv
<1> QED
  BY <1>1, DialogueStep, PTL DEF Spec

\* UndisturbedKeepsRunning: as long as nothing is lost, altered, refused or answered with another
\* title, the session raises no fault and never ends (KwpByteEngine, KwpMeasurementSession and the
\* loop of run_measurement), for every counter width and payload and any number of identification
\* blocks.
THEOREM NoFaultOfItsOwn == Spec => []UndisturbedKeepsRunning
<1>1. DialogueInv => UndisturbedKeepsRunning
  BY DEF DialogueInv, CalmInv, Calm, UndisturbedKeepsRunning, Running
<1> QED
  BY <1>1, DialogueIsKept, PTL

\* DialogueInOrder: disturbed or not, the host never writes into a byte of the line and every
\* variable keeps its type; in an undisturbed dialogue it talks only when the unit listens, and each
\* block of the unit is handedOn once.
THEOREM BothTalkInTurn == Spec => []DialogueInOrder
<1>1. DialogueInv => DialogueInOrder
  <2> SUFFICES ASSUME DialogueInv PROVE DialogueInOrder
    OBVIOUS
  <2>1. /\ Sound(session, rx, toWire, ecu, hostBlocks) /\ Shape(session) /\ ecu \in Units
        /\ session \in Sessions /\ rx \in Seq(K!Byte) /\ toWire \in Seq(K!Byte)
        /\ WireRel(session, toWire, ecu, hostBlocks)
        /\ handedOn.groupHint \in Groups /\ unpublished \in Int /\ disturbances \in 0 .. MaxDisturbances
    BY SessionFacts DEF DialogueInv, SessionInv, Sound
  <2>2. Len(toWire) <= 1
    <3>1. CASE toWire = <<>>
      <4>1. Len(toWire) = 0
        BY <3>1
      <4> QED
        BY <4>1
    <3>2. CASE toWire # <<>>
      <4>1. toWire = <<session.actionByte>>
        BY <2>1, <3>2 DEF WireRel
      <4>2. Len(toWire) = 1
        BY <4>1
      <4> QED
        BY <4>2
    <3> QED
      BY <3>1, <3>2
  <2>3. session.txIndex <= Len(session.txFrame) /\ Len(session.engine.frame) <= K!MaxFrame
    <3>1. /\ session.engine \in K!Engine /\ session.txIndex <= Len(session.txFrame)
          /\ Len(session.engine.frame) <= session.engine.expectedSize
          /\ session.engine.expectedSize <= 65
      BY <2>1, SessionFields DEF Shape, EngineShape
    <3>2. PICK n \in Nat, m \in Nat : n = Len(session.engine.frame) /\ m = session.engine.expectedSize
      BY <3>1, EngineFields
    <3>3. n <= 65
      BY <3>1, <3>2
    <3> QED
      BY <3>1, <3>2, <3>3 DEF K!MaxFrame
  <2>4. TypeOK
    BY <2>1, <2>2, <2>3, UnitFields DEF TypeOK
  <2>5. NoCollision
    BY <2>1 DEF NoCollision, WireRel, AnswersUnit, ContinuesBlock
  <2>6. PublishedOnce
    BY DEF DialogueInv, CalmInv, Calm, Unread, PublishedOnce
  <2> QED
    BY <2>4, <2>5, <2>6 DEF DialogueInOrder
<1> QED
  BY <1>1, DialogueIsKept, PTL
=============================================================================
