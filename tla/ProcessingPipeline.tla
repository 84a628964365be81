-------------------------- MODULE ProcessingPipeline --------------------------
(***************************************************************************)
(* From a validated frame to a published snapshot: the runner's session    *)
(* flags and its sends into the frame queue (DropNewestQueue,              *)
(* validated_frame_queue.h), and a poll of the processing task             *)
(* (ProcessingService, DiagnosticDecoder, MeasurementModel), which drains  *)
(* the queue first and reads the flags, one after the other, afterwards.   *)
(*                                                                         *)
(* A frame is one the parser accepts: the session sends no others          *)
(* (kwp_measurement_session.h 110) and the decoder uses the same parser.   *)
(* What its payload makes the decoder do is its kind:                      *)
(*   Zero     a body of group zero                                         *)
(*   Header   a header of a numbered group                                 *)
(*   Body     a body of a numbered group with a zone of known formula      *)
(*   RawBody  one without                                                  *)
(*   Plain    anything else, a body that does not fit its header included  *)
(* How an attempt gets to its session is in TransportSession, what the     *)
(* session sends and why in MeasurementSession; here it sends any frame.   *)
(* The slot and head_ of the queue are stored in this order; what another  *)
(* order does is the subject of HeadStoreOrdered in RxIngressRing.         *)
(*                                                                         *)
(* Left out: values and time stamps of fields, ecuDataValid (set and       *)
(* cleared where validity becomes and ceases to be Valid), the logger's    *)
(* copy, and counters other components keep: a change of one publishes the *)
(* same snapshot again.                                                    *)
(***************************************************************************)
EXTENDS Integers, Sequences

CONSTANTS
  Capacity,       \* 33 in the code: one slot stays empty
  Groups,         \* numbered groups: 1 .. 4 in the code
  MaxFrames,      \* bound: calls of trySend
  MaxEpoch,       \* bound: sessions
  MaxGeneration   \* bound: connections

ASSUME CapacityAssumption == Capacity \in Nat \ {0, 1}
ASSUME GroupAssumption == Groups \subseteq Nat \ {0}
ASSUME BoundsAssumption ==
  MaxFrames \in Nat /\ MaxEpoch \in Nat /\ MaxGeneration \in Nat

VARIABLES
  usb,           \* where the device is in its callbacks
  connected, generation,     \* device_state, transport_generation
  active, activeEpoch,       \* kwp_session_active, active_session_epoch
  runner,        \* the loop task: position, its generation and epoch, a frame
  told,          \* history: the last header the unit sent, per group
  queue, nextSequence, drops,  \* ValidatedFrameQueue
  lost,          \* history: sequence numbers of the dropped frames
  ppc,           \* where poll is
  consumed,      \* local to poll
  status,        \* what the status provider has read so far
  last,          \* last* of the service
  expected,      \* expectedSequence_, None until haveSequence_
  headers,       \* headers_ of the decoder, NoHeader unless header_valid_
  snapshot,      \* snapshot_ of the model
  published      \* the latest snapshot given to the consumers

sessionVars == <<active, activeEpoch, runner, told>>
deviceVars == <<usb, connected, generation>>
queueVars == <<queue, nextSequence, drops, lost>>
serviceVars == <<ppc, consumed, status, last, expected, headers, snapshot, published>>
vars == <<deviceVars, sessionVars, queueVars, serviceVars>>

None == -1
Sequences == 0 .. MaxFrames - 1
Epochs == 0 .. MaxEpoch
Generations == 0 .. MaxGeneration
Kinds == {"Zero", "Header", "Body", "RawBody", "Plain"}
Bodies == {"Body", "RawBody"}
\* header: the header the unit sent last for a numbered body in its session.
Frames == [kind : Kinds, group : Groups \union {0}, seq : Sequences,
           epoch : Epochs, gen : Generations, header : Sequences \union {None}]
NoFrame == [kind |-> "Plain", group |-> 0, seq |-> 0, epoch |-> 0, gen |-> 0,
            header |-> None]
NoHeader == [seq |-> None, epoch |-> 0, gen |-> 0]
NoHeaders == [g \in Groups |-> NoHeader]
NoStatus == [k409 |-> FALSE, active |-> FALSE, gen |-> None, epoch |-> None]
Validities == {"Valid", "Stale", "Disconnected", "Unknown"}
EmptySnapshot ==
  [gen |-> 0, epoch |-> 0, lastRx |-> 0, k409 |-> FALSE, kwp |-> FALSE,
   validity |-> "Unknown", source |-> 0, frameCount |-> 0, frameDrops |-> 0,
   fields |-> [g \in Groups \union {0} |-> 0]]

Init ==
  /\ usb = "gone" /\ connected = FALSE /\ generation = 0
  /\ active = FALSE /\ activeEpoch = 0
  /\ runner = [pc |-> "idle", gen |-> 0, epoch |-> 0, frame |-> NoFrame]
  /\ told = [g \in Groups |-> None]
  /\ queue = <<>> /\ nextSequence = 0 /\ drops = 0 /\ lost = {}
  /\ ppc = "drain" /\ consumed = FALSE /\ status = NoStatus /\ last = NoStatus
  /\ expected = None /\ headers = NoHeaders
  /\ snapshot = EmptySnapshot /\ published = EmptySnapshot

-----------------------------------------------------------------------------
(***************************************************************************)
(* The USB callbacks: the generation comes before the state.               *)
(***************************************************************************)

Arrive ==
  /\ usb = "gone" /\ generation < MaxGeneration
  /\ usb' = "arriving" /\ generation' = generation + 1
  /\ UNCHANGED <<connected, sessionVars, queueVars, serviceVars>>

Connected ==
  /\ usb = "arriving"
  /\ usb' = "here" /\ connected' = TRUE
  /\ UNCHANGED <<generation, sessionVars, queueVars, serviceVars>>

Disconnected ==
  /\ usb = "here"
  /\ usb' = "gone" /\ connected' = FALSE
  /\ UNCHANGED <<generation, sessionVars, queueVars, serviceVars>>

-----------------------------------------------------------------------------
(***************************************************************************)
(* The runner: run_session around run_measurement.                         *)
(***************************************************************************)

\* Time: a poll takes less than a handshake, so none began before it.
PollIsShort == ppc = "idle"

\* The attempt takes the next epoch and its handshake succeeds.
HandshakeDone ==
  /\ runner.pc = "idle" /\ connected /\ runner.epoch < MaxEpoch
  /\ PollIsShort
  /\ runner' = [runner EXCEPT !.pc = "handshaken", !.gen = generation,
                              !.epoch = @ + 1]
  /\ told' = [g \in Groups |-> None]
  /\ UNCHANGED <<deviceVars, active, activeEpoch, queueVars, serviceVars>>

StoreEpoch ==
  /\ runner.pc = "handshaken"
  /\ runner' = [runner EXCEPT !.pc = "epoch stored"]
  /\ activeEpoch' = runner.epoch
  /\ UNCHANGED <<deviceVars, active, told, queueVars, serviceVars>>

StoreActive ==
  /\ runner.pc = "epoch stored"
  /\ runner' = [runner EXCEPT !.pc = "running"]
  /\ active' = TRUE
  /\ UNCHANGED <<deviceVars, activeEpoch, told, queueVars, serviceVars>>

\* run_measurement returns: fault, stall, or the device is gone.
EndSession ==
  /\ runner.pc = "running"
  /\ runner' = [runner EXCEPT !.pc = "idle"]
  /\ active' = FALSE
  /\ UNCHANGED <<deviceVars, activeEpoch, told, queueVars, serviceVars>>

NewFrame(kind, group) ==
  [kind |-> kind, group |-> group, seq |-> nextSequence, epoch |-> runner.epoch,
   gen |-> runner.gen,
   header |-> IF kind \in Bodies THEN told[group] ELSE None]

Tell(kind, group) ==
  told' = IF kind = "Header" THEN [told EXCEPT ![group] = nextSequence] ELSE told

QueueFull == Len(queue) = Capacity - 1

\* Mutated form: only a frame that is sent gets a number.
NumberSent(kind, group) ==
  /\ runner.pc = "running" /\ nextSequence < MaxFrames
  /\ nextSequence' = IF QueueFull THEN nextSequence ELSE nextSequence + 1
  /\ Tell(kind, group)
  /\ IF QueueFull
     THEN /\ drops' = drops + 1 /\ lost' = lost \union {nextSequence}
          /\ UNCHANGED runner
     ELSE /\ runner' = [runner EXCEPT !.pc = "send", !.frame = NewFrame(kind, group)]
          /\ UNCHANGED <<drops, lost>>
  /\ UNCHANGED <<deviceVars, active, activeEpoch, queue, serviceVars>>

\* trySend up to the comparison with tail_: the number is taken first.
Number(kind, group) ==
  /\ runner.pc = "running" /\ nextSequence < MaxFrames
  /\ nextSequence' = nextSequence + 1
  /\ Tell(kind, group)
  /\ IF QueueFull
     THEN /\ drops' = drops + 1 /\ lost' = lost \union {nextSequence}
          /\ UNCHANGED runner
     ELSE /\ runner' = [runner EXCEPT !.pc = "send", !.frame = NewFrame(kind, group)]
          /\ UNCHANGED <<drops, lost>>
  /\ UNCHANGED <<deviceVars, active, activeEpoch, queue, serviceVars>>

\* The rest of it: slot and head_.
Store ==
  /\ runner.pc = "send"
  /\ queue' = Append(queue, runner.frame)
  /\ runner' = [runner EXCEPT !.pc = "running", !.frame = NoFrame]
  /\ UNCHANGED <<deviceVars, active, activeEpoch, told, nextSequence, drops,
                 lost, serviceVars>>

Send ==
  \/ \E kind \in {"Zero", "Plain"} : Number(kind, 0)
  \/ \E kind \in Bodies \union {"Header"}, group \in Groups : Number(kind, group)

-----------------------------------------------------------------------------
(***************************************************************************)
(* The decoder and the model, as functions on their state.                 *)
(***************************************************************************)

IsGap(frame) == expected # None /\ frame.seq # expected

\* Mutated form: the session of the cached header is not compared.
HeaderFitsAnySession(cache, frame) ==
  cache[frame.group].seq # None /\ cache[frame.group].gen = frame.gen

HeaderFits(cache, frame) ==
  /\ cache[frame.group].seq # None
  /\ cache[frame.group].gen = frame.gen /\ cache[frame.group].epoch = frame.epoch

CacheHeader(cache, frame) ==
  IF frame.kind = "Header"
  THEN [cache EXCEPT ![frame.group] =
          [seq |-> frame.seq, epoch |-> frame.epoch, gen |-> frame.gen]]
  ELSE cache

Decodes(cache, frame) ==
  frame.kind = "Zero" \/ (frame.kind \in Bodies /\ HeaderFits(cache, frame))

\* MeasurementModel::apply.
Apply(s, frame, decoded) ==
  LET seen == [s EXCEPT !.gen = frame.gen, !.epoch = frame.epoch,
                        !.lastRx = frame.seq, !.k409 = TRUE, !.kwp = TRUE,
                        !.fields[frame.group] = IF decoded THEN frame.seq ELSE @]
  IN IF decoded /\ frame.kind # "RawBody"
     THEN [seen EXCEPT !.validity = "Valid", !.source = frame.group]
     ELSE seen

OnSequenceGap(s) == [s EXCEPT !.frameDrops = @ + 1, !.validity = "Stale"]

OnProtocolStatus(s, t) ==
  LET newSession == t.active /\ (s.gen # t.gen \/ s.epoch # t.epoch)
      kwp == t.k409 /\ t.active
  IN [s EXCEPT !.k409 = t.k409, !.kwp = kwp,
               !.gen = IF t.k409 THEN t.gen ELSE @,
               !.epoch = IF kwp THEN t.epoch ELSE @,
               !.validity = IF ~t.k409 THEN "Disconnected"
                            ELSE IF ~t.active
                            THEN IF @ = "Valid" THEN "Stale" ELSE @
                            ELSE IF newSession THEN "Unknown" ELSE @]

-----------------------------------------------------------------------------
(***************************************************************************)
(* poll: drain, read the status, tell the model, publish.                  *)
(***************************************************************************)

Wake ==
  /\ ppc = "idle"
  /\ ppc' = "drain"
  /\ UNCHANGED <<deviceVars, sessionVars, queueVars, consumed, status, last,
                 expected, headers, snapshot, published>>

\* One frame: tryReceive, the gap test and processRecord.
Drain ==
  /\ ppc = "drain" /\ queue # <<>>
  /\ LET frame == Head(queue)
         cache == IF IsGap(frame) THEN NoHeaders ELSE headers
         before == IF IsGap(frame) THEN OnSequenceGap(snapshot) ELSE snapshot
     IN /\ headers' = CacheHeader(cache, frame)
        /\ snapshot' = Apply(before, frame, Decodes(cache, frame))
        /\ expected' = frame.seq + 1
  /\ queue' = Tail(queue)
  /\ consumed' = TRUE
  /\ UNCHANGED <<deviceVars, sessionVars, nextSequence, drops, lost, ppc,
                 status, last, published>>

DrainDone ==
  /\ ppc = "drain" /\ queue = <<>>
  /\ ppc' = "k409"
  /\ UNCHANGED <<deviceVars, sessionVars, queueVars, consumed, status, last,
                 expected, headers, snapshot, published>>

\* The status provider's four loads.
Load(here, next, read) ==
  /\ ppc = here
  /\ ppc' = next
  /\ status' = read
  /\ UNCHANGED <<deviceVars, sessionVars, queueVars, consumed, last, expected,
                 headers, snapshot, published>>

LoadState == Load("k409", "active", [status EXCEPT !.k409 = connected])
LoadActive == Load("active", "generation", [status EXCEPT !.active = active])
LoadGeneration == Load("generation", "epoch", [status EXCEPT !.gen = generation])
LoadEpoch == Load("epoch", "update", [status EXCEPT !.epoch = activeEpoch])

\* Mutated form: any change of status empties the cache.
ResetsDecoderOnChange == status # last

ResetsDecoder == status # last /\ ~status.active

Update ==
  /\ ppc = "update"
  /\ LET told1 == IF status # last THEN OnProtocolStatus(snapshot, status) ELSE snapshot
         told2 == [told1 EXCEPT !.frameCount = nextSequence, !.frameDrops = drops]
     IN /\ snapshot' = told2
        /\ published' = IF consumed \/ status # last \/ told2 # told1
                        THEN told2 ELSE published
  /\ headers' = IF ResetsDecoder THEN NoHeaders ELSE headers
  /\ last' = status
  /\ ppc' = "idle" /\ consumed' = FALSE
  /\ UNCHANGED <<deviceVars, sessionVars, queueVars, status, expected>>

-----------------------------------------------------------------------------

Device == Arrive \/ Connected \/ Disconnected
Runner == HandshakeDone \/ StoreEpoch \/ StoreActive \/ Send \/ Store \/ EndSession
Poll ==
  \/ Wake \/ Drain \/ DrainDone
  \/ LoadState \/ LoadActive \/ LoadGeneration \/ LoadEpoch
  \/ Update

Next == Device \/ Runner \/ Poll

Spec == Init /\ [][Next]_vars

-----------------------------------------------------------------------------
(***************************************************************************)
(* Properties.                                                             *)
(***************************************************************************)

Snapshots ==
  [gen : Generations, epoch : Epochs, lastRx : 0 .. MaxFrames, k409 : BOOLEAN,
   kwp : BOOLEAN, validity : Validities, source : Groups \union {0},
   frameCount : 0 .. MaxFrames, frameDrops : Nat,
   fields : [Groups \union {0} -> 0 .. MaxFrames]]
Statuses == [k409 : BOOLEAN, active : BOOLEAN, gen : Generations \union {None},
             epoch : Epochs \union {None}]

Caches == [Groups -> [seq : Sequences \union {None}, epoch : Epochs, gen : Generations]]
RunnerStates == [pc : {"idle", "handshaken", "epoch stored", "running", "send"},
                 gen : Generations, epoch : Epochs, frame : Frames \union {NoFrame}]
PollStates == {"idle", "drain", "k409", "active", "generation", "epoch", "update"}

DeviceOK ==
  usb \in {"gone", "arriving", "here"} /\ connected \in BOOLEAN /\ generation \in Generations
SessionOK ==
  /\ active \in BOOLEAN /\ activeEpoch \in Epochs
  /\ runner \in RunnerStates /\ told \in [Groups -> Sequences \union {None}]
QueueOK ==
  /\ queue \in Seq(Frames) /\ Len(queue) < Capacity
  /\ nextSequence \in 0 .. MaxFrames /\ drops \in Nat /\ lost \subseteq Sequences
PollOK ==
  /\ ppc \in PollStates /\ consumed \in BOOLEAN
  /\ status \in Statuses /\ last \in Statuses
DecoderOK == expected \in 0 .. MaxFrames \union {None} /\ headers \in Caches
ModelOK == snapshot \in Snapshots /\ published \in Snapshots

\* Types.  The queue holds as many frames as the code has usable slots
\* (DropNewestQueue).
TypeOK == DeviceOK /\ SessionOK /\ QueueOK /\ PollOK /\ DecoderOK /\ ModelOK

\* A body that is decoded is decoded with the header the unit sent last for
\* its group in the same session, whatever frames the queue dropped
\* (DiagnosticDecoder::process, the gap test of poll).
BodyUsesItsHeader ==
  [][\A g \in Groups :
       snapshot'.fields[g] # snapshot.fields[g] =>
         headers[g].seq = Head(queue).header]_vars

\* In a session that is still going on a body is decoded if nothing was
\* dropped from its header on: no change of status in between, read piece by
\* piece, makes the decoder forget the header (poll, run_session).
KnownHeaderDecodes ==
  [][LET frame == Head(queue) IN
     (/\ Len(queue') < Len(queue)
      /\ frame.kind \in Bodies /\ frame.header # None
      /\ active /\ activeEpoch = frame.epoch
      /\ lost \intersect (frame.header .. frame.seq) = {})
     => snapshot'.fields[frame.group] = frame.seq]_vars

\* A snapshot is valid only as long as nothing was dropped between the frame
\* that gave its values and the last one received (trySend, onSequenceGap).
LossShown ==
  snapshot.validity = "Valid" =>
    lost \intersect (snapshot.fields[snapshot.source] .. snapshot.lastRx) = {}

Now == [k409 |-> connected, active |-> active, gen |-> generation,
        epoch |-> activeEpoch]

\* ARCHITECTURE_V2 280-281: a disconnect and a change of session make the
\* values visibly stale.  Once poll has taken in the status of an ended
\* session and nothing is left in the queue, no consumer is shown a connected
\* control unit or valid values (poll).
EndedSessionShown ==
  (/\ ppc = "idle" /\ queue = <<>>
   /\ ~active /\ runner.pc = "idle" /\ last = Now)
  => ~published.kwp /\ published.validity # "Valid"

=============================================================================
