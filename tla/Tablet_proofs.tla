---------------------------- MODULE Tablet_proofs ----------------------------
(***************************************************************************)
(* Proofs about the components of the tablet that share nothing but the    *)
(* processor: the processing service and its decoder, the audio block      *)
(* pool, the IMU sampler, the audio probe and the first prototype.  Each   *)
(* has its own inductive invariant; the constants are arbitrary within the *)
(* modules' assumptions.                                                   *)
(***************************************************************************)
EXTENDS ProcessingPipeline, AudioPipeline, ImuSampling, AudioProbe, ProtoTester,
        SequenceTheorems, TLAPS

-----------------------------------------------------------------------------
(***************************************************************************)
(* Types.  A queue that was not full when the number was taken has still   *)
(* room when the frame is stored, and the status is read by the time it is *)
(* used.                                                                   *)
(***************************************************************************)

RoomInv == runner.pc = "send" => runner.frame \in Frames /\ Len(queue) < Capacity - 1

StatusInv ==
  /\ ppc \in {"epoch", "update"} => status.gen \in Generations
  /\ ppc = "update" => status.epoch \in Epochs

TypeInv == TypeOK /\ RoomInv /\ StatusInv

LEMMA NoHeadersType == NoHeaders \in Caches
BY BoundsAssumption DEF Caches, NoHeaders, NoHeader, Epochs, Generations

LEMMA EmptySnapshotType == EmptySnapshot \in Snapshots
BY BoundsAssumption DEF EmptySnapshot, Snapshots, Validities, Generations, Epochs

LEMMA TypeInit == Init => TypeInv
<1> SUFFICES ASSUME Init PROVE TypeInv
    OBVIOUS
<1> USE CapacityAssumption, BoundsAssumption
<1>1. DeviceOK
  <2>1. connected \in BOOLEAN BY DEF Init
  <2>2. usb = "gone" /\ generation \in Generations BY DEF Init, Generations
  <2> QED BY <2>1, <2>2 DEF DeviceOK
<1>2. SessionOK
  <2>1. active \in BOOLEAN BY DEF Init
  <2>2. activeEpoch \in Epochs BY DEF Init, Epochs
  <2>3. told \in [Groups -> Sequences \union {None}] BY DEF Init
  <2>4. [pc |-> "idle", gen |-> 0, epoch |-> 0, frame |-> NoFrame] \in RunnerStates
    BY DEF RunnerStates, Generations, Epochs
  <2>5. runner \in RunnerStates BY <2>4 DEF Init
  <2> QED BY <2>1, <2>2, <2>3, <2>5 DEF SessionOK
<1>3. QueueOK BY DEF QueueOK, Init
<1>4. PollOK
  <2>1. NoStatus \in Statuses BY DEF NoStatus, Statuses
  <2>2. consumed \in BOOLEAN BY DEF Init
  <2>3. ppc = "drain" /\ status = NoStatus /\ last = NoStatus BY DEF Init
  <2> QED BY <2>1, <2>2, <2>3 DEF PollOK, PollStates
<1>5. DecoderOK
  <2>1. headers = NoHeaders /\ expected = None BY DEF Init
  <2> QED BY <2>1, NoHeadersType DEF DecoderOK
<1>6. ModelOK BY EmptySnapshotType DEF ModelOK, Init
<1>7. RoomInv /\ StatusInv BY DEF RoomInv, StatusInv, Init
<1> QED BY <1>1, <1>2, <1>3, <1>4, <1>5, <1>6, <1>7 DEF TypeInv, TypeOK

\* What the functions on a snapshot return is a snapshot.
LEMMA ApplyType ==
  ASSUME NEW s \in Snapshots, NEW frame \in Frames, NEW decodes \in BOOLEAN
  PROVE  Apply(s, frame, decodes) \in Snapshots
<1> DEFINE seen == [s EXCEPT !.gen = frame.gen, !.epoch = frame.epoch,
                             !.lastRx = frame.seq, !.k409 = TRUE, !.kwp = TRUE,
                             !.fields[frame.group] = IF decodes THEN frame.seq ELSE @]
<1>1. /\ frame.seq \in 0 .. MaxFrames /\ frame.gen \in Generations
      /\ frame.epoch \in Epochs /\ frame.group \in Groups \union {0}
  BY BoundsAssumption DEF Frames, Sequences
<1>2. s.fields \in [Groups \union {0} -> 0 .. MaxFrames]
  BY DEF Snapshots
<1>3. [s.fields EXCEPT ![frame.group] = IF decodes THEN frame.seq ELSE @]
        \in [Groups \union {0} -> 0 .. MaxFrames]
  BY <1>1, <1>2
<1>4. seen \in Snapshots
  BY <1>1, <1>3 DEF Snapshots
<1> HIDE DEF seen
<1>5. [seen EXCEPT !.validity = "Valid", !.source = frame.group] \in Snapshots
  BY <1>1, <1>4 DEF Snapshots, Validities
<1>6. Apply(s, frame, decodes)
        \in {seen, [seen EXCEPT !.validity = "Valid", !.source = frame.group]}
  BY DEF Apply, seen
<1> QED BY <1>4, <1>5, <1>6

LEMMA GapType ==
  ASSUME NEW s \in Snapshots
  PROVE  OnSequenceGap(s) \in Snapshots
<1>1. s.frameDrops + 1 \in Nat /\ "Stale" \in Validities
  BY DEF Snapshots, Validities
<1>2. \A n \in Nat, v \in Validities :
        [s EXCEPT !.frameDrops = n, !.validity = v] \in Snapshots
  BY DEF Snapshots
<1> QED BY <1>1, <1>2 DEF OnSequenceGap

LEMMA StatusType ==
  ASSUME NEW s \in Snapshots, NEW t \in Statuses,
         t.gen \in Generations, t.epoch \in Epochs
  PROVE  OnProtocolStatus(s, t) \in Snapshots
<1>1. \A gen \in Generations, epoch \in Epochs, k409 \in BOOLEAN, kwp \in BOOLEAN,
         validity \in Validities :
        [s EXCEPT !.k409 = k409, !.kwp = kwp, !.gen = gen, !.epoch = epoch,
                  !.validity = validity] \in Snapshots
  BY DEF Snapshots
<1>2. t.k409 \in BOOLEAN /\ t.active \in BOOLEAN
  BY DEF Statuses
<1>3. s.gen \in Generations /\ s.epoch \in Epochs /\ s.validity \in Validities
  BY DEF Snapshots
<1> DEFINE newSession == t.active /\ (s.gen # t.gen \/ s.epoch # t.epoch)
           kwp == t.k409 /\ t.active
           gen == IF t.k409 THEN t.gen ELSE s.gen
           epoch == IF t.k409 /\ t.active THEN t.epoch ELSE s.epoch
           validity == IF ~t.k409 THEN "Disconnected"
                       ELSE IF ~t.active
                       THEN IF s.validity = "Valid" THEN "Stale" ELSE s.validity
                       ELSE IF newSession THEN "Unknown" ELSE s.validity
<1>4. gen \in Generations /\ epoch \in Epochs /\ validity \in Validities
  BY <1>3 DEF Validities
<1>5. OnProtocolStatus(s, t) =
        [s EXCEPT !.k409 = t.k409, !.kwp = kwp, !.gen = gen,
                  !.epoch = epoch, !.validity = validity]
  BY DEF OnProtocolStatus
<1>6. kwp \in BOOLEAN
  BY <1>2
<1> HIDE DEF kwp, gen, epoch, validity
<1>7. [s EXCEPT !.k409 = t.k409, !.kwp = kwp, !.gen = gen, !.epoch = epoch,
                !.validity = validity] \in Snapshots
  BY <1>1, <1>2, <1>4, <1>6, Zenon
<1> QED BY <1>5, <1>7

LEMMA CacheType ==
  ASSUME NEW cache \in Caches, NEW frame \in Frames
  PROVE  CacheHeader(cache, frame) \in Caches
<1>1. [seq |-> frame.seq, epoch |-> frame.epoch, gen |-> frame.gen]
        \in [seq : Sequences \union {None}, epoch : Epochs, gen : Generations]
  BY DEF Frames
<1> QED BY <1>1 DEF CacheHeader, Caches

-----------------------------------------------------------------------------
(***************************************************************************)
(* Each step keeps the types.                                              *)
(***************************************************************************)

LEMMA NumberType ==
  ASSUME TypeInv, NEW kind \in Kinds, NEW group \in Groups \union {0},
         kind \in Bodies \union {"Header"} => group \in Groups, Number(kind, group)
  PROVE  TypeInv'
<1>0. UNCHANGED <<deviceVars, active, activeEpoch, queue, serviceVars>>
  BY DEF Number
<1>1. nextSequence \in Sequences /\ nextSequence' \in 0 .. MaxFrames
  BY BoundsAssumption DEF Number, Sequences, TypeInv, TypeOK, QueueOK
<1>2. told' \in [Groups -> Sequences \union {None}]
  BY <1>1 DEF Number, Tell, TypeInv, TypeOK, SessionOK
<1>3. runner \in RunnerStates /\ runner.pc = "running"
  BY DEF Number, TypeInv, TypeOK, SessionOK
<1>4. DeviceOK' /\ PollOK' /\ DecoderOK' /\ ModelOK' /\ StatusInv'
  BY <1>0 DEF TypeInv, TypeOK, DeviceOK, PollOK, DecoderOK, ModelOK, StatusInv,
              deviceVars, serviceVars
<1>5. CASE QueueFull
  <2>1. drops' = drops + 1 /\ lost' = lost \union {nextSequence} /\ UNCHANGED runner
    BY <1>5 DEF Number
  <2>2. QueueOK'
    BY <1>0, <1>1, <2>1 DEF TypeInv, TypeOK, QueueOK
  <2>3. SessionOK' /\ RoomInv'
    BY <1>0, <1>2, <1>3, <2>1 DEF TypeInv, TypeOK, SessionOK, RoomInv
  <2> QED BY <1>4, <2>2, <2>3 DEF TypeInv, TypeOK
<1>6. CASE ~QueueFull
  <2>1. /\ runner' = [runner EXCEPT !.pc = "send", !.frame = NewFrame(kind, group)]
        /\ UNCHANGED <<drops, lost>>
    BY <1>6 DEF Number
  <2>2. NewFrame(kind, group) \in Frames
    <3>1. kind \in Bodies => told[group] \in Sequences \union {None}
      BY DEF TypeInv, TypeOK, SessionOK
    <3>2. runner.epoch \in Epochs /\ runner.gen \in Generations
      BY <1>3 DEF RunnerStates
    <3> QED BY <1>1, <3>1, <3>2 DEF NewFrame, Frames
  <2> HIDE DEF NewFrame
  <2>3. runner' \in RunnerStates /\ runner'.frame \in Frames
    BY <1>3, <2>1, <2>2 DEF RunnerStates
  <2>4. QueueOK' /\ RoomInv'
    BY <1>0, <1>1, <1>6, <2>1, <2>3, CapacityAssumption
       DEF TypeInv, TypeOK, QueueOK, RoomInv, QueueFull
  <2>5. SessionOK'
    BY <1>0, <1>2, <2>3 DEF TypeInv, TypeOK, SessionOK
  <2> QED BY <1>4, <2>4, <2>5 DEF TypeInv, TypeOK
<1> QED BY <1>5, <1>6

LEMMA StoreType == TypeInv /\ Store => TypeInv'
<1> SUFFICES ASSUME TypeInv, Store PROVE TypeInv'
    OBVIOUS
<1>1. /\ queue' = Append(queue, runner.frame) /\ runner.pc = "send"
      /\ runner' = [runner EXCEPT !.pc = "running", !.frame = NoFrame]
      /\ UNCHANGED <<deviceVars, active, activeEpoch, told, nextSequence, drops,
                     lost, serviceVars>>
  BY DEF Store
<1>2. runner.frame \in Frames /\ Len(queue) < Capacity - 1
  BY <1>1 DEF TypeInv, RoomInv
<1>3. QueueOK'
  BY <1>1, <1>2, CapacityAssumption DEF TypeInv, TypeOK, QueueOK
<1>4. runner' \in RunnerStates /\ runner'.pc = "running"
  BY <1>1 DEF TypeInv, TypeOK, SessionOK, RunnerStates
<1>5. SessionOK' /\ RoomInv'
  BY <1>1, <1>4 DEF TypeInv, TypeOK, SessionOK, RoomInv
<1>6. DeviceOK' /\ PollOK' /\ DecoderOK' /\ ModelOK' /\ StatusInv'
  BY <1>1 DEF TypeInv, TypeOK, DeviceOK, PollOK, DecoderOK, ModelOK, StatusInv,
              deviceVars, serviceVars
<1> QED BY <1>3, <1>5, <1>6 DEF TypeInv, TypeOK

LEMMA DrainType == TypeInv /\ Drain => TypeInv'
<1> SUFFICES ASSUME TypeInv, Drain PROVE TypeInv'
    OBVIOUS
<1> DEFINE frame == Head(queue)
           cache == IF IsGap(frame) THEN NoHeaders ELSE headers
           before == IF IsGap(frame) THEN OnSequenceGap(snapshot) ELSE snapshot
<1>1. /\ headers' = CacheHeader(cache, frame)
      /\ snapshot' = Apply(before, frame, Decodes(cache, frame))
      /\ expected' = frame.seq + 1
      /\ queue' = Tail(queue) /\ queue # <<>> /\ consumed' = TRUE
      /\ UNCHANGED <<deviceVars, sessionVars, nextSequence, drops, lost, ppc,
                     status, last, published>>
  BY DEF Drain
<1>2. frame \in Frames /\ queue' \in Seq(Frames) /\ Len(queue') = Len(queue) - 1
  BY <1>1 DEF TypeInv, TypeOK, QueueOK
<1>3. before \in Snapshots
  BY GapType DEF TypeInv, TypeOK, ModelOK
<1>4. cache \in Caches
  BY NoHeadersType DEF TypeInv, TypeOK, DecoderOK
<1>5. Decodes(cache, frame) \in BOOLEAN
  BY DEF Decodes, HeaderFits
<1> HIDE DEF frame, cache, before
<1>6. ModelOK'
  BY <1>1, <1>2, <1>3, <1>5, ApplyType DEF TypeInv, TypeOK, ModelOK
<1>7. expected' \in 0 .. MaxFrames
  BY <1>1, <1>2, BoundsAssumption DEF Frames, Sequences
<1>8. DecoderOK'
  BY <1>1, <1>2, <1>4, <1>7, CacheType DEF DecoderOK
<1>9. QueueOK' /\ RoomInv'
  BY <1>1, <1>2, CapacityAssumption DEF TypeInv, TypeOK, QueueOK, RoomInv, sessionVars
<1>10. DeviceOK' /\ SessionOK' /\ PollOK' /\ StatusInv'
  BY <1>1 DEF TypeInv, TypeOK, DeviceOK, SessionOK, PollOK, StatusInv, deviceVars,
              sessionVars
<1> QED BY <1>6, <1>8, <1>9, <1>10 DEF TypeInv, TypeOK

LEMMA UpdateType == TypeInv /\ Update => TypeInv'
<1> SUFFICES ASSUME TypeInv, Update PROVE TypeInv'
    OBVIOUS
<1> DEFINE told1 == IF status # last THEN OnProtocolStatus(snapshot, status)
                    ELSE snapshot
           told2 == [told1 EXCEPT !.frameCount = nextSequence, !.frameDrops = drops]
<1>1. /\ snapshot' = told2 /\ published' \in {told2, published}
      /\ headers' \in {NoHeaders, headers}
      /\ last' = status /\ ppc' = "idle" /\ consumed' = FALSE
      /\ UNCHANGED <<deviceVars, sessionVars, queueVars, status, expected>>
  BY DEF Update
<1>2. status.gen \in Generations /\ status.epoch \in Epochs /\ status \in Statuses
  BY DEF Update, TypeInv, TypeOK, PollOK, StatusInv
<1>3. told1 \in Snapshots
  BY <1>2, StatusType DEF TypeInv, TypeOK, ModelOK
<1> HIDE DEF told1
<1>4. told2 \in Snapshots
  BY <1>3 DEF Snapshots, TypeInv, TypeOK, QueueOK
<1> HIDE DEF told2
<1>5. ModelOK'
  BY <1>1, <1>4 DEF TypeInv, TypeOK, ModelOK
<1>6. DecoderOK'
  BY <1>1, NoHeadersType DEF TypeInv, TypeOK, DecoderOK
<1>7. PollOK' /\ StatusInv'
  BY <1>1, <1>2 DEF TypeInv, TypeOK, PollOK, PollStates, StatusInv
<1>8. DeviceOK' /\ SessionOK' /\ QueueOK' /\ RoomInv'
  BY <1>1 DEF TypeInv, TypeOK, DeviceOK, SessionOK, QueueOK, RoomInv, deviceVars,
              sessionVars, queueVars
<1> QED BY <1>5, <1>6, <1>7, <1>8 DEF TypeInv, TypeOK

LEMMA TypeStep == TypeInv /\ [Next]_vars => TypeInv'
<1> SUFFICES ASSUME TypeInv, [Next]_vars PROVE TypeInv'
    OBVIOUS
<1>1. CASE Device
  <2>1. UNCHANGED <<sessionVars, queueVars, serviceVars>>
    BY <1>1 DEF Device, Arrive, Connected, Disconnected
  <2>2. connected \in BOOLEAN /\ generation \in Generations
    BY DEF TypeInv, TypeOK, DeviceOK
  <2>3. connected' \in {connected, TRUE, FALSE} /\ usb' \in {"gone", "arriving", "here"}
    BY <1>1 DEF Device, Arrive, Connected, Disconnected
  <2>4. generation' \in Generations
    BY <1>1, <2>2, BoundsAssumption DEF Device, Arrive, Connected, Disconnected,
       Generations
  <2>5. DeviceOK'
    BY <2>2, <2>3, <2>4 DEF DeviceOK
  <2> QED
    BY <2>1, <2>5 DEF TypeInv, TypeOK, SessionOK, QueueOK, PollOK, DecoderOK, ModelOK,
                RoomInv, StatusInv, sessionVars, queueVars, serviceVars
<1>2. CASE HandshakeDone \/ StoreEpoch \/ StoreActive \/ EndSession
  <2>1. runner \in RunnerStates /\ generation \in Generations
        /\ told \in [Groups -> Sequences \union {None}]
    BY DEF TypeInv, TypeOK, DeviceOK, SessionOK
  <2>2. runner' \in RunnerStates /\ runner'.pc # "send"
    <3>1. CASE HandshakeDone
      <4>1. runner.epoch + 1 \in Epochs
        <5>1. runner.epoch \in Epochs BY <2>1 DEF RunnerStates
        <5>2. runner.epoch < MaxEpoch BY <3>1 DEF HandshakeDone
        <5> QED BY <5>1, <5>2, BoundsAssumption DEF Epochs
      <4>2. runner' = [runner EXCEPT !.pc = "handshaken", !.gen = generation,
                                     !.epoch = runner.epoch + 1]
        BY <3>1 DEF HandshakeDone
      <4> QED BY <2>1, <4>1, <4>2 DEF RunnerStates
    <3>2. CASE StoreEpoch BY <2>1, <3>2 DEF StoreEpoch, RunnerStates
    <3>3. CASE StoreActive BY <2>1, <3>3 DEF StoreActive, RunnerStates
    <3>4. CASE EndSession BY <2>1, <3>4 DEF EndSession, RunnerStates
    <3> QED BY <1>2, <3>1, <3>2, <3>3, <3>4
  <2>3. active' \in BOOLEAN /\ activeEpoch' \in Epochs
    <3>1. active \in BOOLEAN /\ activeEpoch \in Epochs /\ runner.epoch \in Epochs
      BY <2>1 DEF TypeInv, TypeOK, SessionOK, RunnerStates
    <3>2. active' \in {active, TRUE, FALSE} /\ activeEpoch' \in {activeEpoch, runner.epoch}
      BY <1>2 DEF HandshakeDone, StoreEpoch, StoreActive, EndSession
    <3> QED BY <3>1, <3>2
  <2>4. told' \in [Groups -> Sequences \union {None}]
    BY <1>2, <2>1 DEF HandshakeDone, StoreEpoch, StoreActive, EndSession
  <2>5. UNCHANGED <<deviceVars, queueVars, serviceVars>>
    BY <1>2 DEF HandshakeDone, StoreEpoch, StoreActive, EndSession
  <2>6. SessionOK' /\ RoomInv'
    BY <2>2, <2>3, <2>4 DEF SessionOK, RoomInv
  <2> QED
    BY <2>5, <2>6 DEF TypeInv, TypeOK, DeviceOK, QueueOK, PollOK, DecoderOK, ModelOK,
                      StatusInv, deviceVars, queueVars, serviceVars
<1>3. CASE Send
  <2>1. PICK kind \in Kinds, group \in Groups \union {0} :
           /\ kind \in Bodies \union {"Header"} => group \in Groups
           /\ Number(kind, group)
    BY <1>3 DEF Send, Kinds, Bodies
  <2> QED BY <2>1, NumberType
<1>4. CASE Store
  BY <1>4, StoreType
<1>5. CASE Wake \/ DrainDone
  <2>1. ppc' \in {"drain", "k409"}
        /\ UNCHANGED <<deviceVars, sessionVars, queueVars, consumed, status, last,
                       expected, headers, snapshot, published>>
    BY <1>5 DEF Wake, DrainDone
  <2> QED
    BY <2>1 DEF TypeInv, TypeOK, DeviceOK, SessionOK, QueueOK, PollOK, PollStates,
                DecoderOK, ModelOK, RoomInv, StatusInv, deviceVars, sessionVars,
                queueVars
<1>6. CASE LoadState \/ LoadActive \/ LoadGeneration \/ LoadEpoch
  <2>1. UNCHANGED <<deviceVars, sessionVars, queueVars, consumed, last, expected,
                    headers, snapshot, published>>
    BY <1>6 DEF LoadState, LoadActive, LoadGeneration, LoadEpoch, Load
  <2>2. /\ status \in Statuses /\ StatusInv
        /\ connected \in BOOLEAN /\ active \in BOOLEAN
        /\ generation \in Generations /\ activeEpoch \in Epochs
    BY DEF TypeInv, TypeOK, DeviceOK, SessionOK, PollOK
  <2>3. status' \in Statuses /\ StatusInv' /\ ppc' \in PollStates
    BY <1>6, <2>2 DEF LoadState, LoadActive, LoadGeneration, LoadEpoch, Load,
       StatusInv, Statuses, PollStates
  <2> QED
    BY <2>1, <2>3 DEF TypeInv, TypeOK, DeviceOK, SessionOK, QueueOK, PollOK,
       DecoderOK, ModelOK, RoomInv, deviceVars, sessionVars, queueVars
<1>7. CASE Drain
  BY <1>7, DrainType
<1>8. CASE Update
  BY <1>8, UpdateType
<1>9. CASE UNCHANGED vars
  BY <1>9 DEF TypeInv, TypeOK, DeviceOK, SessionOK, QueueOK, PollOK, DecoderOK,
              ModelOK, RoomInv, StatusInv, vars, deviceVars, sessionVars, queueVars,
              serviceVars
<1> QED
  BY <1>1, <1>2, <1>3, <1>4, <1>5, <1>6, <1>7, <1>8, <1>9 DEF Next, Runner, Poll

\* The types of the pipeline, its queue within its slots (DropNewestQueue), for
\* every capacity, set of groups and bounds.
THEOREM TypeCorrect == Spec => []TypeOK
<1>1. Spec => []TypeInv
  BY TypeInit, TypeStep, PTL DEF Spec
<1>2. TypeInv => TypeOK
  BY DEF TypeInv
<1> QED BY <1>1, <1>2, PTL

-----------------------------------------------------------------------------
(***************************************************************************)
(* The inductive invariant.  A frame is pending from its number on to the  *)
(* poll that takes it.  Numbers that are not pending were dropped, or are  *)
(* below expected.                                                         *)
(***************************************************************************)

Pending == IF runner.pc = "send" THEN Append(queue, runner.frame) ELSE queue

\* Nothing was dropped from number n to the last frame received.
Clear(n) ==
  /\ expected # None /\ n <= snapshot.lastRx
  /\ \A k \in lost : ~(n <= k /\ k <= snapshot.lastRx)

NumberInv ==
  /\ \A k \in lost : k < nextSequence
  /\ expected # None => expected = snapshot.lastRx + 1 /\ expected <= nextSequence
  /\ \A i \in 1 .. Len(Pending) :
       /\ Pending[i].seq < nextSequence /\ Pending[i].seq \notin lost
       /\ expected # None => expected <= Pending[i].seq
       /\ Pending[i].kind = "Zero" => Pending[i].group = 0
       /\ Pending[i].kind \in Bodies \union {"Header"} => Pending[i].group \in Groups
  /\ \A i, j \in 1 .. Len(Pending) : i < j => Pending[i].seq < Pending[j].seq

ValidInv == snapshot.validity = "Valid" => Clear(snapshot.fields[snapshot.source])

\* Header h of group g was dropped, received or is pending before position j;
\* a header that was received is in the cache, unless the cache was emptied or
\* a later one came.
Accounted(g, h, j) ==
  \/ h \in lost
  \/ /\ expected # None /\ h < expected
     /\ headers[g].seq = None \/ h <= headers[g].seq
  \/ \E i \in 1 .. Len(Pending) :
       /\ i < j /\ Pending[i].seq = h
       /\ Pending[i].kind = "Header" /\ Pending[i].group = g

CacheInv ==
  \A g \in Groups : headers[g].seq # None =>
    /\ Clear(headers[g].seq)
    /\ headers[g].epoch <= runner.epoch
    /\ headers[g].epoch = runner.epoch => headers[g].seq <= told[g]

ToldInv ==
  \A g \in Groups : told[g] # None =>
    told[g] < nextSequence /\ Accounted(g, told[g], Len(Pending) + 1)

\* What is true of the pending frame j: a header is not later than the one told
\* last in its session; the header of a body was sent before the body and is
\* accounted for, and no header of its session that is in the cache or pending
\* before it is later than that.
HeaderTold(j) ==
  Pending[j].kind = "Header" /\ Pending[j].epoch = runner.epoch =>
    Pending[j].seq <= told[Pending[j].group]

HeaderKnown(j) ==
  Pending[j].header # None =>
    /\ Pending[j].header < Pending[j].seq
    /\ Accounted(Pending[j].group, Pending[j].header, j)

CacheNotLater(j) ==
  headers[Pending[j].group].seq # None
  /\ headers[Pending[j].group].epoch = Pending[j].epoch =>
    headers[Pending[j].group].seq <= Pending[j].header

PendingNotLater(i, j) ==
  (/\ Pending[i].kind = "Header" /\ Pending[i].group = Pending[j].group
   /\ Pending[i].epoch = Pending[j].epoch)
  => Pending[i].seq <= Pending[j].header

FrameInv ==
  \A j \in 1 .. Len(Pending) :
    /\ Pending[j].epoch <= runner.epoch
    /\ HeaderTold(j)
    /\ Pending[j].kind \in Bodies =>
         /\ HeaderKnown(j) /\ CacheNotLater(j)
         /\ \A i \in 1 .. Len(Pending) : i < j => PendingNotLater(i, j)

HeaderInv == CacheInv /\ ToldInv /\ FrameInv

IInv == TypeInv /\ NumberInv /\ ValidInv /\ HeaderInv

-----------------------------------------------------------------------------
(***************************************************************************)
(* The pending frames and how the steps change them.                       *)
(***************************************************************************)

LEMMA PendingType ==
  ASSUME TypeInv
  PROVE  /\ Pending \in Seq(Frames)
         /\ \A i \in 1 .. Len(Pending) : Pending[i] \in Frames
<1>1. queue \in Seq(Frames) /\ (runner.pc = "send" => runner.frame \in Frames)
  BY DEF TypeInv, TypeOK, QueueOK, RoomInv
<1>2. Pending \in Seq(Frames)
  BY <1>1 DEF Pending
<1> HIDE DEF Pending
<1> QED BY <1>2

LEMMA FrameType ==
  ASSUME NEW frame \in Frames
  PROVE  /\ frame.seq \in Nat /\ frame.header \in Int /\ frame.epoch \in Nat
         /\ frame.header # None => frame.header \in Nat
BY BoundsAssumption DEF Frames, Sequences, Epochs, None

LEMMA NumberTypes ==
  ASSUME TypeInv
  PROVE  /\ nextSequence \in Nat /\ lost \subseteq Nat /\ expected \in Int
         /\ snapshot.lastRx \in Nat /\ runner.epoch \in Nat
         /\ \A g \in Groups : /\ told[g] \in Int /\ told[g] >= -1
                             /\ headers[g].seq \in Int /\ headers[g].seq >= -1
                             /\ headers[g].epoch \in Nat
<1>1. nextSequence \in Nat /\ lost \subseteq Nat
  BY BoundsAssumption DEF TypeInv, TypeOK, QueueOK, Sequences
<1>2. expected \in Int
  BY BoundsAssumption DEF TypeInv, TypeOK, DecoderOK, None
<1>3. snapshot.lastRx \in Nat
  BY BoundsAssumption DEF TypeInv, TypeOK, ModelOK, Snapshots
<1>4. runner.epoch \in Nat
  <2>1. runner.epoch \in Epochs
    BY DEF TypeInv, TypeOK, SessionOK, RunnerStates
  <2> QED BY <2>1, BoundsAssumption DEF Epochs
<1>5. ASSUME NEW g \in Groups PROVE told[g] \in Int /\ told[g] >= -1
  <2>1. told[g] \in Sequences \union {None}
    BY DEF TypeInv, TypeOK, SessionOK
  <2> QED BY <2>1, BoundsAssumption DEF Sequences, None
<1>6. ASSUME NEW g \in Groups
      PROVE  headers[g].seq \in Int /\ headers[g].seq >= -1 /\ headers[g].epoch \in Nat
  <2>1. headers[g].seq \in Sequences \union {None} /\ headers[g].epoch \in Epochs
    BY DEF TypeInv, TypeOK, DecoderOK, Caches
  <2> QED BY <2>1, BoundsAssumption DEF Sequences, Epochs, None
<1> QED BY <1>1, <1>2, <1>3, <1>4, <1>5, <1>6

\* A step that leaves the frames, the numbers and what was received alone may
\* empty the cache, take the validity away, and begin a session.
LEMMA QuietStep ==
  ASSUME IInv, Pending' = Pending, UNCHANGED <<nextSequence, lost, expected>>,
         snapshot'.lastRx = snapshot.lastRx, snapshot'.fields = snapshot.fields,
         snapshot'.source = snapshot.source,
         snapshot'.validity = "Valid" => snapshot.validity = "Valid",
         headers' \in {headers, NoHeaders},
         \/ runner'.epoch = runner.epoch /\ told' = told
         \/ runner'.epoch = runner.epoch + 1 /\ told' = [g \in Groups |-> None]
  PROVE  NumberInv' /\ ValidInv' /\ HeaderInv'
<1> USE PendingType, FrameType, NumberTypes DEF IInv
<1> HIDE DEF Pending
<1>1. \A n : Clear(n)' <=> Clear(n)
  BY DEF Clear
<1>2. NumberInv'
  BY DEF NumberInv
<1>3. ValidInv'
  BY <1>1 DEF ValidInv
<1>4. \A g \in Groups : headers'[g] = headers[g] \/ headers'[g].seq = None
  BY DEF NoHeaders, NoHeader
<1>5. \A g \in Groups : \A h, j : Accounted(g, h, j) => Accounted(g, h, j)'
  BY <1>4 DEF Accounted
<1>6. CacheInv'
  <2> SUFFICES ASSUME NEW g \in Groups, headers'[g].seq # None
               PROVE  (/\ Clear(headers[g].seq) /\ headers[g].epoch <= runner.epoch
                       /\ headers[g].epoch = runner.epoch => headers[g].seq <= told[g])'
    BY DEF CacheInv
  <2>1. headers'[g] = headers[g]
    BY <1>4
  <2>2. /\ Clear(headers[g].seq) /\ headers[g].epoch <= runner.epoch
        /\ headers[g].epoch = runner.epoch => headers[g].seq <= told[g]
    BY <2>1 DEF HeaderInv, CacheInv
  <2>3. Clear(headers[g].seq)'
    BY <2>1, <2>2 DEF Clear
  <2>4. headers[g].epoch \in Nat /\ runner.epoch \in Nat
    OBVIOUS
  <2>5. CASE runner'.epoch = runner.epoch /\ told' = told
    BY <2>1, <2>2, <2>3, <2>5
  <2>6. CASE runner'.epoch = runner.epoch + 1
    BY <2>1, <2>2, <2>3, <2>4, <2>6
  <2> QED BY <2>5, <2>6
<1>7. ToldInv'
  BY <1>5 DEF HeaderInv, ToldInv
<1>8. FrameInv'
  <2> SUFFICES ASSUME NEW j \in 1 .. Len(Pending)
               PROVE  /\ (Pending[j].epoch <= runner.epoch)'
                      /\ HeaderTold(j)'
                      /\ Pending[j].kind \in Bodies =>
                           /\ HeaderKnown(j)' /\ CacheNotLater(j)'
                           /\ \A i \in 1 .. Len(Pending) :
                                i < j => PendingNotLater(i, j)'
    BY DEF FrameInv
  <2>1. Pending[j].epoch <= runner.epoch /\ HeaderTold(j)
    BY DEF HeaderInv, FrameInv
  <2>2. (Pending[j].epoch <= runner.epoch)'
    BY <2>1
  <2>3. HeaderTold(j)'
    BY <2>1 DEF HeaderTold
  <2>4. ASSUME Pending[j].kind \in Bodies
        PROVE  /\ HeaderKnown(j)' /\ CacheNotLater(j)'
               /\ \A i \in 1 .. Len(Pending) : i < j => PendingNotLater(i, j)'
    <3>1. /\ HeaderKnown(j) /\ CacheNotLater(j)
          /\ \A i \in 1 .. Len(Pending) : i < j => PendingNotLater(i, j)
      BY <2>4 DEF HeaderInv, FrameInv
    <3>2. Pending[j].group \in Groups
      BY <2>4 DEF NumberInv
    <3>3. HeaderKnown(j)'
      BY <1>5, <3>1, <3>2 DEF HeaderKnown
    <3>4. CacheNotLater(j)'
      BY <1>4, <3>1, <3>2 DEF CacheNotLater
    <3>5. \A i \in 1 .. Len(Pending) : i < j => PendingNotLater(i, j)'
      BY <3>1 DEF PendingNotLater
    <3> QED BY <3>3, <3>4, <3>5
  <2> QED BY <2>2, <2>3, <2>4
<1> QED BY <1>2, <1>3, <1>6, <1>7, <1>8 DEF HeaderInv

\* A number may grow what was told and what is lost.
LEMMA RefusedStep ==
  ASSUME IInv, Pending' = Pending, NEW kind, NEW group, Tell(kind, group),
         nextSequence' = nextSequence + 1, lost' = lost \union {nextSequence},
         UNCHANGED <<expected, snapshot, headers, runner>>
  PROVE  NumberInv' /\ ValidInv' /\ HeaderInv'
<1> USE PendingType, FrameType, NumberTypes DEF IInv
<1> HIDE DEF Pending
<1>1. \A n : Clear(n) => Clear(n)'
  BY DEF Clear, NumberInv
<1>2. NumberInv'
  BY DEF NumberInv
<1>3. ValidInv'
  BY <1>1 DEF ValidInv
<1>4. \A g \in Groups : told'[g] \in {told[g], nextSequence}
  BY DEF Tell, TypeInv, TypeOK, SessionOK
<1>5. \A g \in Groups : \A h, j : Accounted(g, h, j) => Accounted(g, h, j)'
  BY DEF Accounted
<1>6. CacheInv'
  <2> SUFFICES ASSUME NEW g \in Groups, headers[g].seq # None
               PROVE  /\ Clear(headers[g].seq)' /\ headers[g].epoch <= runner.epoch
                      /\ headers[g].epoch = runner.epoch => headers[g].seq <= told'[g]
    BY DEF CacheInv
  <2>1. /\ Clear(headers[g].seq) /\ headers[g].epoch <= runner.epoch
        /\ headers[g].epoch = runner.epoch => headers[g].seq <= told[g]
    BY DEF HeaderInv, CacheInv
  <2>2. headers[g].seq < nextSequence
    BY <2>1 DEF Clear, NumberInv
  <2> QED BY <1>1, <1>4, <2>1, <2>2
<1>7. ToldInv'
  <2> SUFFICES ASSUME NEW g \in Groups, told'[g] # None
               PROVE  (told[g] < nextSequence /\ Accounted(g, told[g], Len(Pending) + 1))'
    BY DEF ToldInv
  <2>1. CASE told'[g] = nextSequence
    BY <2>1 DEF Accounted
  <2>2. CASE told'[g] = told[g]
    BY <1>5, <2>2 DEF HeaderInv, ToldInv
  <2> QED BY <1>4, <2>1, <2>2
<1>8. FrameInv'
  <2> SUFFICES ASSUME NEW j \in 1 .. Len(Pending)
               PROVE  /\ Pending[j].epoch <= runner.epoch
                      /\ HeaderTold(j)'
                      /\ Pending[j].kind \in Bodies =>
                           /\ HeaderKnown(j)' /\ CacheNotLater(j)'
                           /\ \A i \in 1 .. Len(Pending) :
                                i < j => PendingNotLater(i, j)'
    BY DEF FrameInv
  <2>1. /\ Pending[j].epoch <= runner.epoch /\ HeaderTold(j)
        /\ Pending[j].seq < nextSequence
        /\ Pending[j].kind \in Bodies \union {"Header"} => Pending[j].group \in Groups
    BY DEF HeaderInv, FrameInv, NumberInv
  <2>2. HeaderTold(j)'
    <3> SUFFICES ASSUME Pending[j].kind = "Header", Pending[j].epoch = runner.epoch
                 PROVE  Pending[j].seq <= told'[Pending[j].group]
      BY DEF HeaderTold
    <3>1. Pending[j].seq <= told[Pending[j].group] /\ Pending[j].group \in Groups
      BY <2>1 DEF HeaderTold
    <3>2. Pending[j].seq \in Nat
      OBVIOUS
    <3>3. CASE told'[Pending[j].group] = told[Pending[j].group]
      BY <3>1, <3>3
    <3>4. CASE told'[Pending[j].group] = nextSequence
      BY <2>1, <3>2, <3>4
    <3> QED BY <1>4, <3>1, <3>3, <3>4
  <2>3. ASSUME Pending[j].kind \in Bodies
        PROVE  /\ HeaderKnown(j)' /\ CacheNotLater(j)'
               /\ \A i \in 1 .. Len(Pending) : i < j => PendingNotLater(i, j)'
    BY <1>5, <2>1, <2>3
       DEF HeaderInv, FrameInv, HeaderKnown, CacheNotLater, PendingNotLater
  <2> QED BY <2>1, <2>2, <2>3
<1> QED BY <1>2, <1>3, <1>6, <1>7, <1>8 DEF HeaderInv

\* An accepted frame is the last of the pending ones.
LEMMA AcceptedStep ==
  ASSUME IInv, NEW kind \in Kinds, NEW group \in Groups \union {0},
         kind \in Bodies \union {"Header"} => group \in Groups,
         kind = "Zero" => group = 0,
         NewFrame(kind, group) \in Frames, Tell(kind, group),
         Pending' = Append(Pending, NewFrame(kind, group)),
         nextSequence' = nextSequence + 1, runner'.epoch = runner.epoch,
         UNCHANGED <<lost, expected, snapshot, headers>>
  PROVE  NumberInv' /\ ValidInv' /\ HeaderInv'
<1> DEFINE frame == NewFrame(kind, group)
<1>0. /\ frame \in Frames /\ frame.kind = kind /\ frame.group = group
      /\ frame.seq = nextSequence /\ frame.epoch = runner.epoch
      /\ kind \in Bodies => frame.header = told[group]
  BY DEF NewFrame
<1> HIDE DEF frame
<1> USE PendingType, FrameType, NumberTypes DEF IInv
<1> PICK n \in Nat : n = Len(Pending)
  OBVIOUS
<1>1. /\ Len(Pending) = n /\ Len(Pending') = n + 1 /\ Pending'[n + 1] = frame
      /\ \A i \in 1 .. n : Pending'[i] = Pending[i]
  BY DEF frame
<1> HIDE DEF Pending
<1>2. \A k : Clear(k)' <=> Clear(k)
  BY DEF Clear
<1>3. NumberInv'
  <2>1. \A i \in 1 .. n + 1 : i \in 1 .. n \/ i = n + 1
    BY <1>1
  <2>2. \A i \in 1 .. n :
          /\ Pending[i].seq < nextSequence /\ Pending[i].seq \notin lost
          /\ expected # None => expected <= Pending[i].seq
          /\ Pending[i].kind = "Zero" => Pending[i].group = 0
          /\ Pending[i].kind \in Bodies \union {"Header"} => Pending[i].group \in Groups
    BY <1>1 DEF NumberInv
  <2>3. \A i, j \in 1 .. n : i < j => Pending[i].seq < Pending[j].seq
    BY <1>1 DEF NumberInv
  <2>4. \A k \in lost : k < nextSequence
    BY <1>1 DEF NumberInv
  <2>5. expected # None => expected = snapshot.lastRx + 1 /\ expected <= nextSequence
    BY <1>1 DEF NumberInv
  <2>6. \A i \in 1 .. n : Pending[i].seq \in Nat
    BY <1>1
  <2>7. \A i \in 1 .. n + 1 :
          /\ Pending'[i].seq < nextSequence' /\ Pending'[i].seq \notin lost
          /\ expected # None => expected <= Pending'[i].seq
          /\ Pending'[i].kind = "Zero" => Pending'[i].group = 0
          /\ Pending'[i].kind \in Bodies \union {"Header"} => Pending'[i].group \in Groups
    BY <1>0, <1>1, <2>1, <2>2, <2>4, <2>5, <2>6
  <2>8. \A i, j \in 1 .. n + 1 : i < j => Pending'[i].seq < Pending'[j].seq
    BY <1>0, <1>1, <2>1, <2>2, <2>3
  <2> QED BY <1>1, <2>4, <2>5, <2>7, <2>8 DEF NumberInv
<1>4. ValidInv'
  BY <1>2 DEF ValidInv
<1>5. \A g \in Groups : told'[g] \in {told[g], nextSequence}
                      /\ (told'[g] # told[g] => kind = "Header" /\ group = g)
  BY DEF Tell, TypeInv, TypeOK, SessionOK
<1>6. \A g \in Groups : \A h, j : Accounted(g, h, j) => Accounted(g, h, j)'
  BY <1>1 DEF Accounted
<1>7. \A g \in Groups : headers[g].seq # None => headers[g].seq < nextSequence
  BY <1>1 DEF HeaderInv, CacheInv, Clear, NumberInv
<1>8. CacheInv'
  BY <1>2, <1>5, <1>7 DEF HeaderInv, CacheInv
<1>9. ToldInv'
  <2> SUFFICES ASSUME NEW g \in Groups, told'[g] # None
               PROVE  (told[g] < nextSequence /\ Accounted(g, told[g], Len(Pending) + 1))'
    BY DEF ToldInv
  <2>1. CASE told'[g] = told[g]
    <3>1. told[g] < nextSequence /\ Accounted(g, told[g], n + 1)
      BY <1>1, <2>1 DEF HeaderInv, ToldInv
    <3>2. ASSUME NEW i \in 1 .. n, Pending[i].seq = told[g],
                 Pending[i].kind = "Header", Pending[i].group = g
          PROVE  Accounted(g, told[g], Len(Pending) + 1)'
      <4>1. /\ i \in 1 .. Len(Pending') /\ i < Len(Pending') + 1
            /\ Pending'[i] = Pending[i]
        BY <1>1
      <4> QED BY <2>1, <3>2, <4>1 DEF Accounted
    <3>3. ASSUME \/ told[g] \in lost
                 \/ /\ expected # None /\ told[g] < expected
                    /\ headers[g].seq = None \/ told[g] <= headers[g].seq
          PROVE  Accounted(g, told[g], Len(Pending) + 1)'
      BY <2>1, <3>3 DEF Accounted
    <3>4. \/ told[g] \in lost
          \/ /\ expected # None /\ told[g] < expected
             /\ headers[g].seq = None \/ told[g] <= headers[g].seq
          \/ \E i \in 1 .. n : /\ Pending[i].seq = told[g]
                               /\ Pending[i].kind = "Header" /\ Pending[i].group = g
      BY <1>1, <3>1 DEF Accounted
    <3>5. Accounted(g, told[g], Len(Pending) + 1)'
      BY <3>2, <3>3, <3>4
    <3>6. told'[g] < nextSequence'
      BY <2>1, <3>1
    <3> QED BY <3>5, <3>6
  <2>2. CASE told'[g] # told[g]
    <3>1. told'[g] = nextSequence /\ kind = "Header" /\ group = g
      BY <1>5, <2>2
    <3>2. /\ Pending'[n + 1].seq = told'[g] /\ Pending'[n + 1].kind = "Header"
          /\ Pending'[n + 1].group = g
      BY <1>0, <1>1, <3>1
    <3>3. n + 1 \in 1 .. Len(Pending') /\ n + 1 < Len(Pending') + 1
      BY <1>1
    <3>4. Accounted(g, told[g], Len(Pending) + 1)'
      BY <3>2, <3>3 DEF Accounted
    <3>5. told'[g] < nextSequence'
      BY <3>1
    <3> QED BY <3>4, <3>5
  <2> QED BY <2>1, <2>2
<1>10. FrameInv'
  <2>1. ASSUME NEW j \in 1 .. n
        PROVE  /\ Pending'[j].epoch <= runner'.epoch /\ HeaderTold(j)'
               /\ Pending'[j].kind \in Bodies =>
                    /\ HeaderKnown(j)' /\ CacheNotLater(j)'
                    /\ \A i \in 1 .. Len(Pending') : i < j => PendingNotLater(i, j)'
    <3>1. /\ Pending'[j] = Pending[j] /\ Pending[j].epoch <= runner.epoch
          /\ HeaderTold(j) /\ Pending[j].seq < nextSequence
          /\ Pending[j].kind \in Bodies \union {"Header"} => Pending[j].group \in Groups
      BY <1>1 DEF HeaderInv, FrameInv, NumberInv
    <3>2. HeaderTold(j)'
      BY <1>5, <3>1 DEF HeaderTold
    <3>3. ASSUME Pending[j].kind \in Bodies
          PROVE  /\ HeaderKnown(j)' /\ CacheNotLater(j)'
                 /\ \A i \in 1 .. Len(Pending') : i < j => PendingNotLater(i, j)'
      <4>1. /\ HeaderKnown(j) /\ CacheNotLater(j)
            /\ \A i \in 1 .. n : i < j => PendingNotLater(i, j)
        BY <1>1, <3>3 DEF HeaderInv, FrameInv
      <4>2. HeaderKnown(j)' /\ CacheNotLater(j)'
        BY <1>6, <3>1, <3>3, <4>1 DEF HeaderKnown, CacheNotLater
      <4>3. ASSUME NEW i \in 1 .. Len(Pending'), i < j PROVE PendingNotLater(i, j)'
        <5>1. i \in 1 .. n /\ Pending'[i] = Pending[i]
          BY <1>1, <4>3
        <5> QED BY <3>1, <4>1, <4>3, <5>1 DEF PendingNotLater
      <4> QED BY <4>2, <4>3
    <3> QED BY <3>1, <3>2, <3>3
  <2>2. /\ Pending'[n + 1].epoch <= runner'.epoch /\ HeaderTold(n + 1)'
        /\ Pending'[n + 1].kind \in Bodies =>
             /\ HeaderKnown(n + 1)' /\ CacheNotLater(n + 1)'
             /\ \A i \in 1 .. Len(Pending') : i < n + 1 => PendingNotLater(i, n + 1)'
    <3>1. HeaderTold(n + 1)'
      BY <1>0, <1>1 DEF HeaderTold, Tell, TypeInv, TypeOK, SessionOK
    <3>2. ASSUME kind \in Bodies
          PROVE  /\ HeaderKnown(n + 1)' /\ CacheNotLater(n + 1)'
                 /\ \A i \in 1 .. Len(Pending') :
                      i < n + 1 => PendingNotLater(i, n + 1)'
      <4>1. group \in Groups /\ frame.header = told[group]
        BY <1>0, <3>2
      <4>2. HeaderKnown(n + 1)'
        <5>1. told[group] # None => /\ told[group] < nextSequence
                                    /\ Accounted(group, told[group], n + 1)
          BY <1>1, <4>1 DEF HeaderInv, ToldInv
        <5> QED BY <1>0, <1>1, <1>6, <4>1, <5>1 DEF HeaderKnown
      <4>3. CacheNotLater(n + 1)'
        BY <1>0, <1>1, <4>1 DEF CacheNotLater, HeaderInv, CacheInv
      <4>4. ASSUME NEW i \in 1 .. Len(Pending'), i < n + 1
            PROVE  PendingNotLater(i, n + 1)'
        <5>1. i \in 1 .. n /\ Pending'[i] = Pending[i] /\ HeaderTold(i)
          BY <1>1, <4>4 DEF HeaderInv, FrameInv
        <5> SUFFICES ASSUME Pending[i].kind = "Header", Pending[i].group = group,
                            Pending[i].epoch = runner.epoch
                     PROVE  Pending[i].seq <= told[group]
          <6>1. /\ Pending'[n + 1].group = group /\ Pending'[n + 1].epoch = runner.epoch
                /\ Pending'[n + 1].header = told[group]
            BY <1>0, <1>1, <4>1
          <6> QED BY <5>1, <6>1 DEF PendingNotLater
        <5> QED BY <5>1 DEF HeaderTold
      <4> QED BY <4>2, <4>3, <4>4
    <3> QED BY <1>0, <1>1, <3>1, <3>2
  <2>3. \A j \in 1 .. Len(Pending') : j \in 1 .. n \/ j = n + 1
    BY <1>1
  <2> QED BY <2>1, <2>2, <2>3 DEF FrameInv
<1> QED BY <1>3, <1>4, <1>8, <1>9, <1>10 DEF HeaderInv

\* The first pending frame is the one poll takes; the others move up.
LEMMA DrainShifts ==
  ASSUME TypeInv, Drain, NEW n \in Nat, n = Len(Pending)
  PROVE  /\ n > 0 /\ Head(queue) = Pending[1] /\ Pending[1] \in Frames
         /\ Len(Pending') = n - 1
         /\ \A i \in 1 .. n - 1 : Pending'[i] = Pending[i + 1]
<1>1. /\ queue \in Seq(Frames) /\ queue # <<>>
      /\ runner.pc = "send" => runner.frame \in Frames
      /\ queue' = Tail(queue) /\ runner' = runner
  BY DEF TypeInv, TypeOK, QueueOK, RoomInv, Drain, sessionVars
<1>2. CASE runner.pc = "send"
  <2>1. Pending = Append(queue, runner.frame) /\ Pending' = Append(Tail(queue), runner.frame)
    BY <1>1, <1>2 DEF Pending
  <2> QED BY <1>1, <1>2, <2>1
<1>3. CASE runner.pc # "send"
  <2>1. Pending = queue /\ Pending' = Tail(queue)
    BY <1>1, <1>3 DEF Pending
  <2> QED BY <1>1, <2>1
<1> QED BY <1>2, <1>3

\* A frame taken from the queue was not dropped; unless it follows a gap, what
\* was clear stays clear.
LEMMA DrainClears ==
  ASSUME IInv, Drain, NEW frame, frame = Head(queue)
  PROVE  /\ frame \in Frames /\ expected' = frame.seq + 1
         /\ snapshot'.lastRx = frame.seq
         /\ UNCHANGED <<told, lost, nextSequence, runner>>
         /\ frame.seq \notin lost /\ frame.seq < nextSequence
         /\ expected # None => expected <= frame.seq
         /\ Clear(frame.seq)'
         /\ \A k \in Int : Clear(k) /\ ~IsGap(frame) => Clear(k)'
<1> USE NumberTypes, FrameType DEF IInv
<1> PICK n \in Nat : n = Len(Pending)
  BY PendingType
<1>1. /\ n > 0 /\ frame = Pending[1] /\ frame \in Frames /\ 1 \in 1 .. n
  BY DrainShifts
<1>2. /\ frame.seq \notin lost /\ frame.seq < nextSequence
      /\ expected # None => expected <= frame.seq
  BY <1>1 DEF NumberInv
<1>3. expected' = frame.seq + 1 /\ UNCHANGED <<told, lost, nextSequence, runner>>
  BY DEF Drain, sessionVars
<1>4. snapshot'.lastRx = frame.seq
  <2> DEFINE before == IF IsGap(frame) THEN OnSequenceGap(snapshot) ELSE snapshot
             cache == IF IsGap(frame) THEN NoHeaders ELSE headers
  <2>1. snapshot' = Apply(before, frame, Decodes(cache, frame))
    BY DEF Drain
  <2>2. before \in Snapshots
    BY GapType DEF TypeInv, TypeOK, ModelOK
  <2> HIDE DEF before
  <2> QED BY <2>1, <2>2 DEF Apply, Snapshots
<1>5. frame.seq \in Nat /\ expected' # None
  BY <1>1, <1>3 DEF None
<1>6. Clear(frame.seq)'
  BY <1>2, <1>3, <1>4, <1>5 DEF Clear
<1>7. ASSUME NEW k \in Int, Clear(k), ~IsGap(frame) PROVE Clear(k)'
  <2>1. frame.seq = snapshot.lastRx + 1
    BY <1>7 DEF Clear, IsGap, NumberInv
  <2> QED BY <1>2, <1>3, <1>4, <1>5, <1>7, <2>1 DEF Clear
<1> QED BY <1>1, <1>2, <1>3, <1>4, <1>6, <1>7

\* The cache after a frame: empty, as it was if no gap preceded the frame, or
\* for the group of a header the header.
LEMMA DrainCaches ==
  ASSUME TypeInv, Drain, NEW frame \in Frames, frame = Head(queue),
         frame.kind = "Header" => frame.group \in Groups
  PROVE  /\ \A g \in Groups :
              \/ headers'[g].seq = None
              \/ ~IsGap(frame) /\ headers'[g] = headers[g]
              \/ /\ frame.kind = "Header" /\ frame.group = g
                 /\ headers'[g].seq = frame.seq /\ headers'[g].epoch = frame.epoch
         /\ frame.kind = "Header" => headers'[frame.group].seq = frame.seq
<1> DEFINE cache == IF IsGap(frame) THEN NoHeaders ELSE headers
<1>1. headers' = CacheHeader(cache, frame)
  BY DEF Drain
<1>2. cache \in Caches
  BY NoHeadersType DEF TypeInv, TypeOK, DecoderOK
<1>3. \A g \in Groups : \/ cache[g].seq = None
                        \/ ~IsGap(frame) /\ cache[g] = headers[g]
  BY DEF NoHeaders, NoHeader
<1> HIDE DEF cache
<1>4. CASE frame.kind = "Header"
  <2>1. headers' = [cache EXCEPT ![frame.group] =
                     [seq |-> frame.seq, epoch |-> frame.epoch, gen |-> frame.gen]]
    BY <1>1, <1>4 DEF CacheHeader
  <2>2. \A g \in Groups : g # frame.group => headers'[g] = cache[g]
    BY <1>2, <2>1 DEF Caches
  <2>3. headers'[frame.group] =
          [seq |-> frame.seq, epoch |-> frame.epoch, gen |-> frame.gen]
    BY <1>2, <1>4, <2>1 DEF Caches
  <2>4. /\ headers'[frame.group].seq = frame.seq
        /\ headers'[frame.group].epoch = frame.epoch
    BY <2>3
  <2> QED BY <1>3, <1>4, <2>2, <2>4
<1>5. CASE frame.kind # "Header"
  BY <1>1, <1>3, <1>5 DEF CacheHeader
<1> QED BY <1>4, <1>5

\* A snapshot that is valid after a frame was valid before it, or the frame
\* made it so.
LEMMA DrainValidates ==
  ASSUME TypeInv, Drain, NEW frame \in Frames, frame = Head(queue),
         (snapshot.validity = "Valid")'
  PROVE  \/ snapshot'.fields[snapshot'.source] = frame.seq
         \/ /\ ~IsGap(frame) /\ snapshot.validity = "Valid"
            /\ snapshot'.fields[snapshot'.source] = snapshot.fields[snapshot.source]
<1> DEFINE cache == IF IsGap(frame) THEN NoHeaders ELSE headers
           before == IF IsGap(frame) THEN OnSequenceGap(snapshot) ELSE snapshot
           decodes == Decodes(cache, frame)
<1>1. snapshot' = Apply(before, frame, decodes)
  BY DEF Drain
<1>2. before \in Snapshots /\ snapshot \in Snapshots
  BY GapType DEF TypeInv, TypeOK, ModelOK
<1>3. before.validity = "Valid" => ~IsGap(frame) /\ before = snapshot
  BY <1>2 DEF OnSequenceGap, Snapshots
<1>4. frame.group \in Groups \union {0}
  BY DEF Frames
<1> HIDE DEF before, decodes
<1>5. CASE decodes
  <2>1. CASE frame.kind # "RawBody"
    BY <1>1, <1>2, <1>4, <1>5, <2>1 DEF Apply, Snapshots
  <2>2. CASE frame.kind = "RawBody"
    <3>1. /\ snapshot'.validity = before.validity /\ snapshot'.source = before.source
          /\ snapshot'.fields = [before.fields EXCEPT ![frame.group] = frame.seq]
      BY <1>1, <1>2, <1>5, <2>2 DEF Apply, Snapshots
    <3>2. before.fields \in [Groups \union {0} -> 0 .. MaxFrames]
      BY <1>2 DEF Snapshots
    <3>3. before.source \in Groups \union {0}
      BY <1>2 DEF Snapshots
    <3> QED BY <1>3, <3>1, <3>2, <3>3
  <2> QED BY <2>1, <2>2
<1>6. CASE ~decodes
  <2>1. /\ snapshot'.validity = before.validity /\ snapshot'.source = before.source
        /\ snapshot'.fields = [before.fields EXCEPT ![frame.group] = before.fields[frame.group]]
    BY <1>1, <1>2, <1>6 DEF Apply, Snapshots
  <2>2. before.fields \in [Groups \union {0} -> 0 .. MaxFrames]
    BY <1>2 DEF Snapshots
  <2>3. snapshot'.fields = before.fields
    BY <2>1, <2>2
  <2> QED BY <1>3, <2>1, <2>3
<1> QED BY <1>5, <1>6

\* A frame that is taken: what was known of position j + 1 is known of j.
LEMMA DrainStep ==
  ASSUME IInv, Drain
  PROVE  NumberInv' /\ ValidInv' /\ HeaderInv'
<1> PICK frame : frame = Head(queue)
  OBVIOUS
<1> USE PendingType, FrameType, NumberTypes DEF IInv
<1> PICK n \in Nat : n = Len(Pending)
  OBVIOUS
<1>1. /\ n > 0 /\ frame = Pending[1] /\ Len(Pending') = n - 1
      /\ Len(Pending) = n /\ \A i \in 1 .. n - 1 : Pending'[i] = Pending[i + 1]
  BY DrainShifts
<1>2. /\ frame \in Frames /\ frame.seq \in Nat
      /\ expected' = frame.seq + 1 /\ expected' # None
      /\ snapshot'.lastRx = frame.seq
      /\ UNCHANGED <<told, lost, nextSequence, runner>>
      /\ frame.seq \notin lost /\ frame.seq < nextSequence
      /\ expected # None => expected <= frame.seq
  BY DrainClears DEF None
<1>3. /\ Clear(frame.seq)'
      /\ \A k \in Int : Clear(k) /\ ~IsGap(frame) => Clear(k)'
  BY DrainClears
<1>4. /\ frame.kind = "Header" => frame.group \in Groups
      /\ frame.epoch <= runner.epoch
      /\ frame.kind = "Header" /\ frame.epoch = runner.epoch =>
           frame.seq <= told[frame.group]
  <2>1. 1 \in 1 .. Len(Pending) /\ frame = Pending[1]
    BY <1>1
  <2>2. frame.kind = "Header" => frame.group \in Groups
    BY <2>1 DEF NumberInv
  <2>3. frame.epoch <= runner.epoch /\ HeaderTold(1)
    BY <2>1 DEF HeaderInv, FrameInv
  <2> QED BY <2>1, <2>2, <2>3 DEF HeaderTold
<1>5. /\ \A g \in Groups :
           \/ headers'[g].seq = None
           \/ ~IsGap(frame) /\ headers'[g] = headers[g]
           \/ /\ frame.kind = "Header" /\ frame.group = g
              /\ headers'[g].seq = frame.seq /\ headers'[g].epoch = frame.epoch
      /\ frame.kind = "Header" => headers'[frame.group].seq = frame.seq
  BY <1>2, <1>4, DrainCaches
<1> HIDE DEF Pending
<1>6. ASSUME NEW i \in 1 .. n - 1
      PROVE  i + 1 \in 1 .. n /\ Pending'[i] = Pending[i + 1] /\ Pending[i + 1] \in Frames
  BY <1>1, <1>6
<1>7. NumberInv'
  <2>1. ASSUME NEW i \in 1 .. n - 1
        PROVE  /\ Pending'[i].seq < nextSequence /\ Pending'[i].seq \notin lost
               /\ expected' <= Pending'[i].seq
               /\ Pending'[i].kind = "Zero" => Pending'[i].group = 0
               /\ Pending'[i].kind \in Bodies \union {"Header"} =>
                    Pending'[i].group \in Groups
    <3>1. /\ Pending[i + 1].seq < nextSequence /\ Pending[i + 1].seq \notin lost
          /\ Pending[i + 1].kind = "Zero" => Pending[i + 1].group = 0
          /\ Pending[i + 1].kind \in Bodies \union {"Header"} =>
               Pending[i + 1].group \in Groups
      BY <1>1, <1>6 DEF NumberInv
    <3>2. frame.seq < Pending[i + 1].seq
      <4>1. 1 \in 1 .. n /\ i + 1 \in 1 .. n /\ 1 < i + 1
        BY <1>1, <1>6
      <4> QED BY <1>1, <4>1 DEF NumberInv
    <3>3. Pending[i + 1].seq \in Nat
      BY <1>6
    <3>4. Pending'[i] = Pending[i + 1]
      BY <1>6
    <3>5. expected' <= Pending[i + 1].seq
      BY <1>2, <3>2, <3>3
    <3>6. UNCHANGED <<nextSequence, lost>>
      BY <1>1, <1>2
    <3> QED BY <3>1, <3>4, <3>5, <3>6
  <2>2. ASSUME NEW i \in 1 .. n - 1, NEW j \in 1 .. n - 1, i < j
        PROVE  Pending'[i].seq < Pending'[j].seq
    <3>1. /\ i + 1 \in 1 .. Len(Pending) /\ j + 1 \in 1 .. Len(Pending) /\ i + 1 < j + 1
      BY <1>1, <1>6, <2>2
    <3>2. Pending'[i] = Pending[i + 1] /\ Pending'[j] = Pending[j + 1]
      BY <1>6
    <3>3. \A a, b \in 1 .. Len(Pending) : a < b => Pending[a].seq < Pending[b].seq
      BY <1>1 DEF NumberInv
    <3> QED BY <3>1, <3>2, <3>3
  <2>3. (\A k \in lost : k < nextSequence)'
    BY <1>2 DEF NumberInv
  <2>4. expected' = snapshot'.lastRx + 1 /\ expected' <= nextSequence'
    BY <1>2
  <2> QED BY <1>1, <1>2, <2>1, <2>2, <2>3, <2>4 DEF NumberInv
<1>8. ValidInv'
  <2> SUFFICES ASSUME (snapshot.validity = "Valid")'
               PROVE  Clear(snapshot.fields[snapshot.source])'
    BY DEF ValidInv
  <2>1. CASE snapshot'.fields[snapshot'.source] = frame.seq
    BY <1>3, <2>1 DEF Clear
  <2>2. CASE /\ ~IsGap(frame) /\ snapshot.validity = "Valid"
             /\ snapshot'.fields[snapshot'.source] = snapshot.fields[snapshot.source]
    <3>1. snapshot.fields[snapshot.source] \in Int
      BY BoundsAssumption DEF TypeInv, TypeOK, ModelOK, Snapshots
    <3>2. Clear(snapshot.fields[snapshot.source])
      BY <2>2 DEF ValidInv
    <3> PICK k \in Int : k = snapshot.fields[snapshot.source]
      BY <3>1
    <3>3. Clear(k)'
      BY <1>3, <2>2, <3>2
    <3> QED BY <2>2, <3>3 DEF Clear
  <2> QED BY <1>2, <2>1, <2>2, DrainValidates
<1>9. CacheInv'
  <2> SUFFICES ASSUME NEW g \in Groups, headers'[g].seq # None
               PROVE  /\ Clear(headers[g].seq)' /\ headers'[g].epoch <= runner.epoch
                      /\ headers'[g].epoch = runner.epoch => headers'[g].seq <= told[g]
    BY <1>2 DEF CacheInv
  <2>1. CASE ~IsGap(frame) /\ headers'[g] = headers[g]
    <3>1. /\ Clear(headers[g].seq) /\ headers[g].epoch <= runner.epoch
          /\ headers[g].epoch = runner.epoch => headers[g].seq <= told[g]
      BY <2>1 DEF HeaderInv, CacheInv
    <3> PICK k \in Int : k = headers[g].seq
      OBVIOUS
    <3>2. Clear(k)'
      BY <1>3, <2>1, <3>1
    <3>3. Clear(headers[g].seq)'
      BY <2>1, <3>2 DEF Clear
    <3> QED BY <2>1, <3>1, <3>3
  <2>2. CASE /\ frame.kind = "Header" /\ frame.group = g
             /\ headers'[g].seq = frame.seq /\ headers'[g].epoch = frame.epoch
    <3>1. Clear(headers[g].seq)'
      BY <1>3, <2>2 DEF Clear
    <3> QED BY <1>4, <2>2, <3>1
  <2> QED BY <1>5, <2>1, <2>2
<1>10. ASSUME NEW g \in Groups, NEW h \in Int, NEW j \in 1 .. n, Accounted(g, h, j + 1)
       PROVE  Accounted(g, h, j)'
  <2>1. CASE h \in lost
    BY <1>2, <2>1 DEF Accounted
  <2>2. CASE /\ expected # None /\ h < expected
             /\ headers[g].seq = None \/ h <= headers[g].seq
    <3>1. h < expected' /\ h <= frame.seq
      BY <1>2, <2>2
    <3>2. headers'[g].seq = None \/ h <= headers'[g].seq
      BY <1>5, <2>2, <3>1
    <3> QED BY <1>2, <3>1, <3>2 DEF Accounted
  <2>3. ASSUME NEW i \in 1 .. n, i < j + 1, Pending[i].seq = h,
               Pending[i].kind = "Header", Pending[i].group = g
        PROVE  Accounted(g, h, j)'
    <3>1. CASE i = 1
      <4>1. h = frame.seq /\ headers'[g].seq = frame.seq
        BY <1>1, <1>5, <2>3, <3>1
      <4> QED BY <1>2, <4>1 DEF Accounted
    <3>2. CASE i # 1
      <4>1. i - 1 \in 1 .. Len(Pending') /\ i - 1 < j /\ Pending'[i - 1] = Pending[i]
        BY <1>1, <2>3, <3>2
      <4> QED BY <2>3, <4>1 DEF Accounted
    <3> QED BY <3>1, <3>2
  <2>4. \/ h \in lost
        \/ /\ expected # None /\ h < expected
           /\ headers[g].seq = None \/ h <= headers[g].seq
        \/ \E i \in 1 .. n : /\ i < j + 1 /\ Pending[i].seq = h
                             /\ Pending[i].kind = "Header" /\ Pending[i].group = g
    BY <1>1, <1>10 DEF Accounted
  <2> QED BY <2>1, <2>2, <2>3, <2>4
<1>11. ToldInv'
  <2> SUFFICES ASSUME NEW g \in Groups, told[g] # None
               PROVE  (told[g] < nextSequence /\ Accounted(g, told[g], Len(Pending) + 1))'
    BY <1>2 DEF ToldInv
  <2>1. told[g] < nextSequence /\ Accounted(g, told[g], n + 1)
    BY <1>1 DEF HeaderInv, ToldInv
  <2> PICK h \in Int : h = told[g]
    OBVIOUS
  <2>2. n \in 1 .. n /\ Len(Pending') + 1 = n
    BY <1>1
  <2>3. Accounted(g, h, n)'
    BY <1>10, <2>1, <2>2
  <2> QED BY <1>2, <2>1, <2>2, <2>3 DEF Accounted
<1>12. FrameInv'
  <2> SUFFICES ASSUME NEW j \in 1 .. n - 1
               PROVE  (/\ Pending[j].epoch <= runner.epoch /\ HeaderTold(j)
                       /\ Pending[j].kind \in Bodies =>
                            /\ HeaderKnown(j) /\ CacheNotLater(j)
                            /\ \A i \in 1 .. n - 1 : i < j => PendingNotLater(i, j))'
    BY <1>1 DEF FrameInv
  <2> PICK m \in Nat : m = j + 1
    OBVIOUS
  <2>1. m \in 1 .. n /\ Pending'[j] = Pending[m] /\ Pending[m] \in Frames /\ 1 \in 1 .. n
    BY <1>6
  <2>2. /\ Pending[m].epoch <= runner.epoch /\ HeaderTold(m)
        /\ Pending[m].kind \in Bodies =>
             /\ HeaderKnown(m) /\ CacheNotLater(m)
             /\ \A i \in 1 .. n : i < m => PendingNotLater(i, m)
    BY <1>1, <2>1 DEF HeaderInv, FrameInv
  <2>3. (Pending[j].epoch <= runner.epoch /\ HeaderTold(j))'
    BY <1>2, <2>1, <2>2 DEF HeaderTold
  <2>4. ASSUME Pending[m].kind \in Bodies
        PROVE  /\ HeaderKnown(j)' /\ CacheNotLater(j)'
               /\ \A i \in 1 .. n - 1 : i < j => PendingNotLater(i, j)'
    <3>1. Pending[m].group \in Groups
      BY <1>1, <2>1, <2>4 DEF NumberInv
    <3>2. HeaderKnown(j)'
      <4> PICK g \in Groups : g = Pending[m].group
        BY <3>1
      <4> PICK h \in Int : h = Pending[m].header
        BY <2>1
      <4>1. h # None => h < Pending[m].seq /\ Accounted(g, h, j + 1)
        BY <2>2, <2>4 DEF HeaderKnown
      <4>2. j \in 1 .. n
        BY <1>1
      <4>3. h # None => Accounted(g, h, j)'
        BY <1>10, <4>1, <4>2
      <4>4. /\ (Pending[j].group = g)' /\ (Pending[j].header = h)'
            /\ (Pending[j].seq)' = Pending[m].seq
        BY <2>1
      <4> QED BY <4>1, <4>3, <4>4 DEF HeaderKnown
    <3>3. CacheNotLater(j)'
      <4> SUFFICES ASSUME headers'[Pending[m].group].seq # None,
                          headers'[Pending[m].group].epoch = Pending[m].epoch
                   PROVE  headers'[Pending[m].group].seq <= Pending[m].header
        BY <2>1 DEF CacheNotLater
      <4>1. CASE headers'[Pending[m].group] = headers[Pending[m].group]
        BY <2>2, <2>4, <4>1 DEF CacheNotLater
      <4>2. CASE /\ frame.kind = "Header" /\ frame.group = Pending[m].group
                 /\ headers'[Pending[m].group].seq = frame.seq
                 /\ headers'[Pending[m].group].epoch = frame.epoch
        BY <1>1, <2>1, <2>2, <2>4, <4>2 DEF PendingNotLater
      <4> QED BY <1>5, <3>1, <4>1, <4>2
    <3>4. ASSUME NEW i \in 1 .. n - 1, i < j PROVE PendingNotLater(i, j)'
      <4> PICK k \in Nat : k = i + 1
        OBVIOUS
      <4>1. k \in 1 .. n /\ k < m /\ Pending'[i] = Pending[k]
        BY <1>6, <3>4
      <4> QED BY <2>1, <2>2, <2>4, <4>1 DEF PendingNotLater
    <3> QED BY <3>2, <3>3, <3>4
  <2> QED BY <2>1, <2>3, <2>4
<1> QED BY <1>7, <1>8, <1>9, <1>11, <1>12 DEF HeaderInv

-----------------------------------------------------------------------------
(***************************************************************************)
(* The invariant and what follows from it.                                 *)
(***************************************************************************)

LEMMA InvInit == Init => IInv
<1> SUFFICES ASSUME Init PROVE IInv
  OBVIOUS
<1>1. TypeInv
  BY TypeInit
<1>2. /\ Pending = <<>> /\ lost = {} /\ expected = None
      /\ snapshot.validity = "Unknown"
  BY DEF Init, Pending, EmptySnapshot
<1>3. \A g \in Groups : headers[g].seq = None /\ told[g] = None
  BY DEF Init, NoHeaders, NoHeader
<1> QED
  BY <1>1, <1>2, <1>3
     DEF IInv, NumberInv, ValidInv, HeaderInv, CacheInv, ToldInv, FrameInv

LEMMA NumberStep ==
  ASSUME IInv, NEW kind \in Kinds, NEW group \in Groups \union {0},
         kind \in Bodies \union {"Header"} => group \in Groups,
         kind = "Zero" => group = 0, Number(kind, group), TypeInv'
  PROVE  NumberInv' /\ ValidInv' /\ HeaderInv'
<1>1. /\ Tell(kind, group) /\ runner.pc = "running"
      /\ nextSequence' = nextSequence + 1
      /\ UNCHANGED <<queue, expected, snapshot, headers>>
  BY DEF Number, serviceVars
<1>2. CASE QueueFull
  <2>1. lost' = lost \union {nextSequence} /\ UNCHANGED runner
    BY <1>2 DEF Number
  <2>2. Pending' = Pending
    BY <1>1, <2>1 DEF Pending
  <2> QED BY <1>1, <2>1, <2>2, RefusedStep
<1>3. CASE ~QueueFull
  <2>1. /\ runner' = [runner EXCEPT !.pc = "send", !.frame = NewFrame(kind, group)]
        /\ UNCHANGED lost /\ runner \in RunnerStates
    BY <1>3 DEF Number, IInv, TypeInv, TypeOK, SessionOK
  <2>2. /\ runner'.pc = "send" /\ runner'.frame = NewFrame(kind, group)
        /\ runner'.epoch = runner.epoch
    BY <2>1 DEF RunnerStates
  <2>3. NewFrame(kind, group) \in Frames
    BY <2>2 DEF TypeInv, RoomInv
  <2>4. Pending' = Append(Pending, NewFrame(kind, group))
    BY <1>1, <2>2 DEF Pending
  <2> HIDE DEF NewFrame
  <2> QED BY <1>1, <2>1, <2>2, <2>3, <2>4, AcceptedStep
<1> QED BY <1>2, <1>3

LEMMA InvStep == IInv /\ [Next]_vars => IInv'
<1> SUFFICES ASSUME IInv, [Next]_vars PROVE IInv'
  OBVIOUS
<1>1. TypeInv'
  BY TypeStep DEF IInv
<1>2. runner \in RunnerStates
  BY DEF IInv, TypeInv, TypeOK, SessionOK
<1> SUFFICES NumberInv' /\ ValidInv' /\ HeaderInv'
  BY <1>1 DEF IInv
<1>3. ASSUME UNCHANGED <<queue, runner, told, nextSequence, lost, expected, snapshot,
                         headers>>
      PROVE  NumberInv' /\ ValidInv' /\ HeaderInv'
  <2>1. Pending' = Pending
    BY <1>3 DEF Pending
  <2> QED BY <1>3, <2>1, QuietStep
<1>4. CASE Device \/ Wake \/ DrainDone \/ UNCHANGED vars
           \/ LoadState \/ LoadActive \/ LoadGeneration \/ LoadEpoch
  <2>1. UNCHANGED <<queue, runner, told, nextSequence, lost, expected, snapshot, headers>>
    BY <1>4 DEF Device, Arrive, Connected, Disconnected, Wake, DrainDone, LoadState,
       LoadActive, LoadGeneration, LoadEpoch, Load, vars, sessionVars, queueVars,
       serviceVars
  <2> QED BY <1>3, <2>1
<1>5. CASE HandshakeDone \/ StoreEpoch \/ StoreActive \/ EndSession
  <2>1. UNCHANGED <<queue, nextSequence, lost, expected, snapshot, headers>>
    BY <1>5 DEF HandshakeDone, StoreEpoch, StoreActive, EndSession, queueVars,
       serviceVars
  <2>2. runner.pc # "send" /\ runner'.pc # "send"
    BY <1>2, <1>5 DEF HandshakeDone, StoreEpoch, StoreActive, EndSession, RunnerStates
  <2>3. \/ runner'.epoch = runner.epoch /\ told' = told
        \/ runner'.epoch = runner.epoch + 1 /\ told' = [g \in Groups |-> None]
    BY <1>2, <1>5 DEF HandshakeDone, StoreEpoch, StoreActive, EndSession, RunnerStates
  <2>4. Pending' = Pending
    BY <2>1, <2>2 DEF Pending
  <2> QED BY <2>1, <2>3, <2>4, QuietStep
<1>6. CASE Send
  <2>1. PICK kind \in Kinds, group \in Groups \union {0} :
          /\ kind \in Bodies \union {"Header"} => group \in Groups
          /\ kind = "Zero" => group = 0
          /\ Number(kind, group)
    BY <1>6 DEF Send, Kinds, Bodies
  <2> QED BY <1>1, <2>1, NumberStep
<1>7. CASE Store
  <2>1. /\ runner.pc = "send" /\ queue' = Append(queue, runner.frame)
        /\ runner' = [runner EXCEPT !.pc = "running", !.frame = NoFrame]
        /\ UNCHANGED <<told, nextSequence, lost, expected, snapshot, headers>>
    BY <1>7 DEF Store, serviceVars
  <2>2. runner'.pc = "running" /\ runner'.epoch = runner.epoch
    BY <1>2, <2>1 DEF RunnerStates
  <2>3. Pending' = Pending
    BY <2>1, <2>2 DEF Pending
  <2> QED BY <2>1, <2>2, <2>3, QuietStep
<1>8. CASE Drain
  BY <1>8, DrainStep
<1>9. CASE Update
  <2> DEFINE told1 == IF status # last THEN OnProtocolStatus(snapshot, status)
                      ELSE snapshot
  <2>1. /\ snapshot' = [told1 EXCEPT !.frameCount = nextSequence, !.frameDrops = drops]
        /\ headers' \in {headers, NoHeaders}
        /\ UNCHANGED <<queue, runner, told, nextSequence, lost, expected>>
    BY <1>9 DEF Update, sessionVars, queueVars
  <2>2. snapshot \in Snapshots
    BY DEF IInv, TypeInv, TypeOK, ModelOK
  <2>3. /\ told1.lastRx = snapshot.lastRx /\ told1.fields = snapshot.fields
        /\ told1.source = snapshot.source
        /\ told1.validity = "Valid" => snapshot.validity = "Valid"
    BY <2>2 DEF OnProtocolStatus, Snapshots
  <2>4. \E f : told1 = [snapshot EXCEPT !.k409 = f.k409, !.kwp = f.kwp, !.gen = f.gen,
                                        !.epoch = f.epoch, !.validity = f.validity]
    <3>1. CASE status # last
      <4> DEFINE t == OnProtocolStatus(snapshot, status)
      <4>1. t = [snapshot EXCEPT !.k409 = t.k409, !.kwp = t.kwp, !.gen = t.gen,
                                 !.epoch = t.epoch, !.validity = t.validity]
        BY <2>2 DEF OnProtocolStatus, Snapshots
      <4> QED BY <3>1, <4>1
    <3>2. CASE status = last
      BY <2>2, <3>2 DEF Snapshots
    <3> QED BY <3>1, <3>2
  <2> HIDE DEF told1
  <2>5. /\ snapshot'.lastRx = snapshot.lastRx /\ snapshot'.fields = snapshot.fields
        /\ snapshot'.source = snapshot.source
        /\ snapshot'.validity = "Valid" => snapshot.validity = "Valid"
    BY <2>1, <2>2, <2>3, <2>4 DEF Snapshots
  <2>6. Pending' = Pending
    BY <2>1 DEF Pending
  <2> QED BY <2>1, <2>5, <2>6, QuietStep
<1> QED BY <1>4, <1>5, <1>6, <1>7, <1>8, <1>9 DEF Next, Runner, Poll

LEMMA Invariance == Spec => []IInv
BY InvInit, InvStep, PTL DEF Spec

\* A snapshot is shown as valid only while no frame was dropped between the one
\* that gave its values and the last received (trySend, the gap test of poll,
\* MeasurementModel).
THEOREM LossIsShown == Spec => []LossShown
<1>1. IInv => LossShown
  <2> SUFFICES ASSUME IInv, snapshot.validity = "Valid"
               PROVE  lost \intersect
                        (snapshot.fields[snapshot.source] .. snapshot.lastRx) = {}
    BY DEF LossShown
  <2>1. Clear(snapshot.fields[snapshot.source])
    BY DEF IInv, ValidInv
  <2>2. snapshot.fields[snapshot.source] \in Int /\ snapshot.lastRx \in Int
    BY BoundsAssumption DEF IInv, TypeInv, TypeOK, ModelOK, Snapshots
  <2> QED BY <2>1, <2>2 DEF Clear
<1> QED BY <1>1, Invariance, PTL

\* A body changes a field only with the header that came last for its group in
\* its session in the cache, whatever the queue dropped and whenever the status
\* emptied the cache (DiagnosticDecoder::process, poll).
THEOREM BodiesUseTheirHeader == Spec => BodyUsesItsHeader
<1>1. ASSUME IInv, [Next]_vars, NEW g \in Groups,
             snapshot'.fields[g] # snapshot.fields[g]
      PROVE  headers[g].seq = Head(queue).header
  <2>1. snapshot \in Snapshots
    BY <1>1 DEF IInv, TypeInv, TypeOK, ModelOK
  <2>2. CASE Drain
    <3> PICK frame : frame = Head(queue)
      OBVIOUS
    <3> DEFINE cache == IF IsGap(frame) THEN NoHeaders ELSE headers
               before == IF IsGap(frame) THEN OnSequenceGap(snapshot) ELSE snapshot
               decodes == Decodes(cache, frame)
    <3>1. snapshot' = Apply(before, frame, decodes)
      BY <2>2 DEF Drain
    <3>2. before.fields = snapshot.fields /\ before \in Snapshots
      BY <2>1, GapType DEF OnSequenceGap, Snapshots
    <3>3. /\ frame \in Frames /\ frame.seq \in Nat /\ frame.header \in Int
          /\ frame.seq \notin lost
      BY <1>1, <2>2, DrainClears, FrameType
    <3> HIDE DEF before, decodes
    <3>4. decodes /\ frame.group = g
      <4>1. snapshot'.fields = [before.fields EXCEPT ![frame.group] =
                                  IF decodes THEN frame.seq ELSE before.fields[frame.group]]
        BY <3>1, <3>2 DEF Apply, Snapshots
      <4>2. before.fields \in [Groups \union {0} -> 0 .. MaxFrames]
        BY <3>2 DEF Snapshots
      <4> QED BY <1>1, <3>2, <4>1, <4>2
    <3> PICK n \in Nat : n = Len(Pending)
      BY <1>1, PendingType DEF IInv
    <3>5. 1 \in 1 .. Len(Pending) /\ frame = Pending[1]
      BY <1>1, <2>2, DrainShifts DEF IInv
    <3>6. frame.kind # "Zero"
      <4>1. frame.kind = "Zero" => frame.group = 0
        BY <1>1, <3>5 DEF IInv, NumberInv
      <4> QED BY <3>4, <4>1, GroupAssumption
    <3>7. frame.kind \in Bodies /\ HeaderFits(cache, frame)
      BY <3>4, <3>6 DEF decodes, Decodes
    <3>8. ~IsGap(frame)
      BY <3>4, <3>7 DEF HeaderFits, NoHeaders, NoHeader
    <3>9. headers[g].seq # None /\ headers[g].epoch = frame.epoch
      BY <3>4, <3>7, <3>8 DEF HeaderFits
    <3> HIDE DEF cache
    <3> PICK h \in Int : h = frame.header
      BY <3>3
    <3>10. /\ headers[g].seq \in Int /\ headers[g].seq >= -1 /\ snapshot.lastRx \in Nat
           /\ lost \subseteq Nat
      BY <1>1, NumberTypes DEF IInv
    <3>11. HeaderKnown(1) /\ CacheNotLater(1) /\ Clear(headers[g].seq)
      BY <1>1, <3>5, <3>7, <3>9 DEF IInv, HeaderInv, FrameInv, CacheInv
    <3>12. headers[g].seq <= h
      BY <3>4, <3>5, <3>9, <3>11 DEF CacheNotLater
    <3>13. h # None
      BY <3>9, <3>10, <3>12 DEF None
    <3>14. h < frame.seq /\ Accounted(g, h, 1)
      BY <3>4, <3>5, <3>11, <3>13 DEF HeaderKnown
    <3>15. expected # None /\ expected = snapshot.lastRx + 1
      BY <1>1, <3>11 DEF Clear, IInv, NumberInv
    <3>16. h <= snapshot.lastRx
      BY <3>3, <3>8, <3>10, <3>14, <3>15 DEF IsGap
    <3>17. h \notin lost
      BY <3>11, <3>12, <3>16 DEF Clear
    <3>18. h <= headers[g].seq
      <4>1. h \in lost \/ headers[g].seq = None \/ h <= headers[g].seq
        BY <3>14 DEF Accounted
      <4> QED BY <3>9, <3>17, <4>1
    <3> QED BY <3>10, <3>12, <3>18
  <2>3. CASE Update
    <3>1. snapshot'.fields = snapshot.fields
      BY <2>1, <2>3 DEF Update, OnProtocolStatus, Snapshots
    <3> QED BY <1>1, <3>1
  <2>4. CASE UNCHANGED snapshot
    BY <1>1, <2>4
  <2>5. Drain \/ Update \/ UNCHANGED snapshot
    BY <1>1 DEF Next, Device, Arrive, Connected, Disconnected, Runner, HandshakeDone,
       StoreEpoch, StoreActive, EndSession, Send, Number, Store, Poll, Wake, DrainDone,
       LoadState, LoadActive, LoadGeneration, LoadEpoch, Load, vars, serviceVars
  <2> QED BY <2>2, <2>3, <2>4, <2>5
<1>2. IInv /\ [Next]_vars => [\A g \in Groups :
                               snapshot'.fields[g] # snapshot.fields[g] =>
                                 headers[g].seq = Head(queue).header]_vars
  BY <1>1
<1> QED BY <1>2, Invariance, PTL DEF Spec, BodyUsesItsHeader

-----------------------------------------------------------------------------
(***************************************************************************)
(* A known header decodes.  As long as a session goes on and nothing is    *)
(* dropped from a header on, that header is pending or in the cache:       *)
(* nothing empties it, because a number is missing only where a frame was  *)
(* dropped, and because a status that was read while the header was in the *)
(* cache says that the session is active.                                  *)
(***************************************************************************)

\* The flags follow the runner; before the flag is set nothing is known of the new session.
FlagInv ==
  /\ active <=> runner.pc \in {"running", "send"}
  /\ runner.pc \in {"epoch stored", "running", "send"} => activeEpoch = runner.epoch
  /\ runner.pc \in {"handshaken", "epoch stored"} =>
       /\ \A g \in Groups : told[g] = None
       /\ \A g \in Groups : headers[g].seq # None => headers[g].epoch < runner.epoch
       /\ \A i \in 1 .. Len(Pending) : Pending[i].epoch < runner.epoch

\* A status that was read after a header of the running session came says that it runs.
LoadedInv ==
  active /\ ppc \in {"generation", "epoch", "update"} =>
    \A g \in Groups : headers[g].seq # None /\ headers[g].epoch = runner.epoch =>
      status.active

\* Every number was dropped, received or is pending.
EveryNumber ==
  \A k \in 0 .. nextSequence - 1 :
    \/ k \in lost
    \/ expected # None /\ k < expected
    \/ \E i \in 1 .. Len(Pending) : Pending[i].seq = k

OneGeneration ==
  \A i \in 1 .. Len(Pending) :
    Pending[i].epoch = runner.epoch => Pending[i].gen = runner.gen

\* Nothing was dropped from number h up to number n.
Unbroken(h, n) == \A k \in lost : ~(h <= k /\ k < n)

\* What is pending before position j and not older than h is of the session of the runner.
Followed(h, j) ==
  \A i \in 1 .. Len(Pending) :
    i < j /\ Pending[i].seq >= h => Pending[i].epoch = runner.epoch

\* Header h of group g is in the cache or comes before position j.
Reachable(g, h, j) ==
  \/ headers[g] = [seq |-> h, epoch |-> runner.epoch, gen |-> runner.gen]
  \/ \E i \in 1 .. Len(Pending) :
       /\ i < j /\ Pending[i].seq = h
       /\ Pending[i].kind = "Header" /\ Pending[i].group = g

Known(g, h, j, n) == Followed(h, j) /\ (Unbroken(h, n) => Reachable(g, h, j))

KnownInv ==
  active =>
    /\ \A g \in Groups :
         told[g] # None => Known(g, told[g], Len(Pending) + 1, nextSequence)
    /\ \A j \in 1 .. Len(Pending) :
         (/\ Pending[j].kind \in Bodies /\ Pending[j].header # None
          /\ Pending[j].epoch = runner.epoch)
         => Known(Pending[j].group, Pending[j].header, j, Pending[j].seq)

KInv == FlagInv /\ LoadedInv /\ EveryNumber /\ OneGeneration /\ KnownInv

LEMMA KnownInit == Init => KInv
<1> SUFFICES ASSUME Init PROVE KInv
  OBVIOUS
<1>1. Pending = <<>> /\ nextSequence = 0 /\ active = FALSE /\ runner.pc = "idle"
  BY DEF Init, Pending
<1> QED BY <1>1 DEF KInv, FlagInv, LoadedInv, EveryNumber, OneGeneration, KnownInv

\* A step that leaves the frames, the cache and the session alone.
LEMMA StillKnown ==
  ASSUME KInv, Pending' = Pending,
         UNCHANGED <<nextSequence, lost, expected, told, headers, active, activeEpoch,
                     runner.epoch, runner.gen>>,
         \/ runner'.pc = runner.pc
         \/ runner.pc = "send" /\ runner'.pc = "running",
         ppc' \in {"generation", "epoch", "update"} =>
           \/ status'.active = active
           \/ ppc \in {"generation", "epoch", "update"} /\ status'.active = status.active
  PROVE  KInv'
<1> HIDE DEF Pending
<1> USE DEF KInv
<1>1. FlagInv'
  BY DEF FlagInv
<1>2. LoadedInv'
  BY DEF LoadedInv
<1>3. EveryNumber' /\ OneGeneration'
  BY DEF EveryNumber, OneGeneration
<1>4. \A g, h, j, k : Known(g, h, j, k) => Known(g, h, j, k)'
  BY DEF Known, Followed, Unbroken, Reachable
<1>5. KnownInv'
  BY <1>4 DEF KnownInv
<1> QED BY <1>1, <1>2, <1>3, <1>5

\* The steps of a session.
LEMMA SessionKnown ==
  ASSUME IInv, KInv, HandshakeDone \/ StoreEpoch \/ StoreActive \/ EndSession
  PROVE  KInv'
<1> USE PendingType, FrameType, NumberTypes DEF IInv, KInv
<1>1. runner \in RunnerStates
  BY DEF TypeInv, TypeOK, SessionOK
<1>2. UNCHANGED <<queue, nextSequence, lost, expected, headers, ppc, status>>
  BY DEF HandshakeDone, StoreEpoch, StoreActive, EndSession, queueVars, serviceVars
<1>3. Pending' = Pending
  <2>1. runner.pc # "send" /\ runner'.pc # "send"
    BY <1>1 DEF HandshakeDone, StoreEpoch, StoreActive, EndSession, RunnerStates
  <2> QED BY <1>2, <2>1 DEF Pending
<1> HIDE DEF Pending
<1>4. EveryNumber'
  BY <1>2, <1>3 DEF EveryNumber
<1>5. CASE HandshakeDone
  <2>1. /\ runner.pc = "idle" /\ runner'.pc = "handshaken" /\ runner'.epoch = runner.epoch + 1
        /\ active' = active /\ \A g \in Groups : told'[g] = None
    BY <1>1, <1>5 DEF HandshakeDone, RunnerStates
  <2>2. ~active /\ ~active'
    BY <2>1 DEF FlagInv
  <2>3. /\ \A i \in 1 .. Len(Pending) : Pending[i].epoch <= runner.epoch
        /\ \A g \in Groups : headers[g].seq # None => headers[g].epoch <= runner.epoch
    BY DEF HeaderInv, FrameInv, CacheInv
  <2>4. /\ \A i \in 1 .. Len(Pending) : Pending[i].epoch \in Nat /\ Pending[i].epoch < runner'.epoch
        /\ \A g \in Groups : headers[g].seq # None => headers[g].epoch < runner'.epoch
    BY <2>1, <2>3
  <2>5. FlagInv'
    BY <1>2, <1>3, <2>1, <2>2, <2>4 DEF FlagInv
  <2>6. OneGeneration'
    BY <1>3, <2>1, <2>4 DEF OneGeneration
  <2> QED BY <1>4, <2>2, <2>5, <2>6 DEF LoadedInv, KnownInv
<1>6. CASE StoreEpoch
  <2>1. /\ runner.pc = "handshaken" /\ runner'.pc = "epoch stored" /\ activeEpoch' = runner.epoch
        /\ runner'.epoch = runner.epoch /\ runner'.gen = runner.gen
        /\ active' = active /\ told' = told
    BY <1>1, <1>6 DEF StoreEpoch, RunnerStates
  <2>2. ~active /\ ~active'
    BY <2>1 DEF FlagInv
  <2>3. FlagInv'
    BY <1>2, <1>3, <2>1, <2>2 DEF FlagInv
  <2>4. OneGeneration'
    BY <1>3, <2>1 DEF OneGeneration
  <2> QED BY <1>4, <2>2, <2>3, <2>4 DEF LoadedInv, KnownInv
<1>7. CASE StoreActive
  <2>1. /\ runner.pc = "epoch stored" /\ runner'.pc = "running" /\ activeEpoch' = activeEpoch
        /\ runner'.epoch = runner.epoch /\ runner'.gen = runner.gen
        /\ active' = TRUE /\ told' = told
    BY <1>1, <1>7 DEF StoreActive, RunnerStates
  <2>2. /\ \A g \in Groups : told'[g] = None
        /\ \A g \in Groups : headers[g].seq # None => headers[g].epoch < runner.epoch
        /\ \A i \in 1 .. Len(Pending) : Pending[i].epoch < runner.epoch
        /\ activeEpoch = runner.epoch
    BY <2>1 DEF FlagInv
  <2>3. /\ \A g \in Groups : ~(headers[g].seq # None /\ headers[g].epoch = runner.epoch)
        /\ \A i \in 1 .. Len(Pending) : Pending[i].epoch # runner.epoch
    BY <2>2
  <2>4. FlagInv'
    BY <2>1, <2>2 DEF FlagInv
  <2>5. LoadedInv'
    BY <1>2, <2>1, <2>3 DEF LoadedInv
  <2>6. OneGeneration'
    BY <1>3, <2>1 DEF OneGeneration
  <2>7. KnownInv'
    BY <1>3, <2>1, <2>2, <2>3 DEF KnownInv
  <2> QED BY <1>4, <2>4, <2>5, <2>6, <2>7
<1>8. CASE EndSession
  <2>1. /\ runner'.pc = "idle" /\ runner'.epoch = runner.epoch /\ runner'.gen = runner.gen
        /\ active' = FALSE
    BY <1>1, <1>8 DEF EndSession, RunnerStates
  <2>2. FlagInv'
    BY <2>1 DEF FlagInv
  <2>3. OneGeneration'
    BY <1>3, <2>1 DEF OneGeneration
  <2> QED BY <1>4, <2>1, <2>2, <2>3 DEF LoadedInv, KnownInv
<1> QED BY <1>5, <1>6, <1>7, <1>8

\* A frame that the queue had no room for: what was told last is broken off.
LEMMA RefusedKnown ==
  ASSUME IInv, KInv, Pending' = Pending, NEW kind, NEW group, Tell(kind, group),
         nextSequence' = nextSequence + 1, lost' = lost \union {nextSequence},
         UNCHANGED <<expected, headers, runner, active, activeEpoch, ppc, status>>,
         runner.pc = "running"
  PROVE  KInv'
<1> USE PendingType, FrameType, NumberTypes DEF IInv, KInv
<1> HIDE DEF Pending
<1>1. FlagInv'
  BY DEF FlagInv
<1>2. LoadedInv'
  BY DEF LoadedInv
<1>3. EveryNumber'
  <2>1. \A k \in 0 .. nextSequence' - 1 : k = nextSequence \/ k \in 0 .. nextSequence - 1
    OBVIOUS
  <2> QED BY <2>1 DEF EveryNumber
<1>4. OneGeneration'
  BY DEF OneGeneration
<1>5. \A g, h, j : (Followed(h, j) => Followed(h, j)') /\ (Reachable(g, h, j) => Reachable(g, h, j)')
  BY DEF Followed, Reachable
<1>6. \A h, k : Unbroken(h, k)' => Unbroken(h, k)
  BY DEF Unbroken
<1>7. KnownInv'
  <2>1. active
    BY DEF FlagInv
  <2>2. ASSUME NEW j \in 1 .. Len(Pending), Pending[j].kind \in Bodies,
               Pending[j].header # None, Pending[j].epoch = runner.epoch
        PROVE  Known(Pending[j].group, Pending[j].header, j, Pending[j].seq)'
    <3>1. Known(Pending[j].group, Pending[j].header, j, Pending[j].seq)
      BY <2>1, <2>2 DEF KnownInv
    <3> QED BY <1>5, <1>6, <3>1 DEF Known
  <2>3. ASSUME NEW g \in Groups, told'[g] # None
        PROVE  Known(g, told[g], Len(Pending) + 1, nextSequence)'
    <3>1. PICK h, m : h = told'[g] /\ m = nextSequence'
      OBVIOUS
    <3>2. h = nextSequence \/ h = told[g]
      <4>1. told \in [Groups -> Sequences \union {None}]
        BY DEF TypeInv, TypeOK, SessionOK
      <4> QED BY <3>1, <4>1 DEF Tell
    <3>3. h \in Int /\ h <= nextSequence /\ nextSequence < m
      BY <2>3, <3>1, <3>2 DEF HeaderInv, ToldInv
    <3>4. ~Unbroken(h, m)'
      BY <3>3 DEF Unbroken
    <3>5. Followed(h, Len(Pending) + 1)'
      <4>1. CASE h = nextSequence
        <5>1. \A i \in 1 .. Len(Pending) : Pending[i].seq \in Nat /\ Pending[i].seq < nextSequence
          BY DEF NumberInv
        <5> QED BY <4>1, <5>1 DEF Followed
      <4>2. CASE h = told[g]
        <5>1. Followed(told[g], Len(Pending) + 1)
          BY <2>1, <2>3, <3>1, <4>2 DEF KnownInv, Known
        <5> QED BY <1>5, <4>2, <5>1
      <4> QED BY <3>2, <4>1, <4>2
    <3> QED BY <3>1, <3>4, <3>5 DEF Known
  <2> QED BY <2>1, <2>2, <2>3 DEF KnownInv
<1> QED BY <1>1, <1>2, <1>3, <1>4, <1>7

\* An accepted frame comes after all that was told.
LEMMA AcceptedKnown ==
  ASSUME IInv, KInv, NEW kind \in Kinds, NEW group \in Groups \union {0},
         kind \in Bodies \union {"Header"} => group \in Groups,
         NewFrame(kind, group) \in Frames, Tell(kind, group),
         Pending' = Append(Pending, NewFrame(kind, group)),
         nextSequence' = nextSequence + 1,
         UNCHANGED <<runner.epoch, runner.gen>>, runner.pc = "running", runner'.pc = "send",
         UNCHANGED <<lost, expected, headers, active, activeEpoch, ppc, status>>
  PROVE  KInv'
<1> DEFINE frame == NewFrame(kind, group)
<1>0. /\ frame \in Frames /\ frame.kind = kind /\ frame.group = group
      /\ frame.seq = nextSequence /\ frame.epoch = runner.epoch /\ frame.gen = runner.gen
      /\ kind \in Bodies => frame.header = told[group]
  BY DEF NewFrame
<1> HIDE DEF frame
<1> USE PendingType, FrameType, NumberTypes DEF IInv, KInv
<1> PICK n \in Nat : n = Len(Pending)
  OBVIOUS
<1>1. /\ Len(Pending) = n /\ Len(Pending') = n + 1 /\ Pending'[n + 1] = frame
      /\ \A i \in 1 .. n : Pending'[i] = Pending[i]
  BY DEF frame
<1> HIDE DEF Pending
<1>2. \A i \in 1 .. n + 1 : i \in 1 .. n \/ i = n + 1
  OBVIOUS
<1>3. active /\ active'
  BY DEF FlagInv
<1>4. FlagInv' /\ LoadedInv'
  BY <1>3 DEF FlagInv, LoadedInv
<1>5. EveryNumber'
  <2> SUFFICES ASSUME NEW k \in 0 .. nextSequence
               PROVE  \/ k \in lost
                      \/ expected # None /\ k < expected
                      \/ \E i \in 1 .. n + 1 : Pending'[i].seq = k
    BY <1>1 DEF EveryNumber
  <2>1. CASE k = nextSequence
    BY <1>0, <1>1, <2>1
  <2>2. CASE k # nextSequence
    <3>1. k \in 0 .. nextSequence - 1
      BY <2>2
    <3>2. ASSUME NEW i \in 1 .. n, Pending[i].seq = k
          PROVE  \E a \in 1 .. n + 1 : Pending'[a].seq = k
      <4>1. i \in 1 .. n + 1 /\ Pending'[i].seq = k
        BY <1>1, <3>2
      <4> QED BY <4>1
    <3> QED BY <1>1, <3>1, <3>2 DEF EveryNumber
  <2> QED BY <2>1, <2>2
<1>6. OneGeneration'
  BY <1>0, <1>1, <1>2 DEF OneGeneration
<1>7. ASSUME NEW h, NEW j \in Nat, j <= n + 1, Followed(h, j) PROVE Followed(h, j)'
  BY <1>1, <1>7 DEF Followed
<1>8. ASSUME NEW h, Followed(h, n + 1) PROVE Followed(h, n + 2)'
  BY <1>0, <1>1, <1>2, <1>8 DEF Followed
<1>9. ASSUME NEW g, NEW h, NEW j \in Nat, j <= n + 1, Reachable(g, h, j)
      PROVE  \A m \in Nat : j <= m => Reachable(g, h, m)'
  <2>1. CASE headers[g] = [seq |-> h, epoch |-> runner.epoch, gen |-> runner.gen]
    BY <2>1 DEF Reachable
  <2>2. ASSUME NEW i \in 1 .. n, i < j, Pending[i].seq = h, Pending[i].kind = "Header",
               Pending[i].group = g
        PROVE  \A m \in Nat : j <= m => Reachable(g, h, m)'
    <3>1. i \in 1 .. n + 1 /\ Pending'[i] = Pending[i]
      BY <1>1
    <3>2. \A m \in Nat : j <= m => i < m
      BY <2>2
    <3>3. 1 .. Len(Pending') = 1 .. n + 1
      BY <1>1
    <3> QED BY <2>2, <3>1, <3>2, <3>3 DEF Reachable
  <2> QED BY <1>1, <1>9, <2>1, <2>2 DEF Reachable
<1>10. ASSUME NEW g \in Groups, told'[g] # None
       PROVE  Known(g, told[g], Len(Pending) + 1, nextSequence)'
  <2>1. told \in [Groups -> Sequences \union {None}]
    BY DEF TypeInv, TypeOK, SessionOK
  <2>2. PICK h, m : h = told'[g] /\ m = nextSequence'
    OBVIOUS
  <2>3. CASE kind = "Header" /\ g = group
    <3>1. h = nextSequence
      BY <2>1, <2>2, <2>3 DEF Tell
    <3>2. Followed(h, n + 2)'
      <4>1. \A i \in 1 .. n : Pending[i].seq \in Nat /\ Pending[i].seq < nextSequence
        BY <1>1 DEF NumberInv
      <4> QED BY <1>0, <1>1, <1>2, <3>1, <4>1 DEF Followed
    <3>3. Reachable(g, h, n + 2)'
      <4>1. n + 1 \in 1 .. n + 1 /\ n + 1 < n + 2
        OBVIOUS
      <4> QED BY <1>0, <1>1, <2>3, <3>1, <4>1 DEF Reachable
    <3> QED BY <1>1, <2>2, <3>2, <3>3 DEF Known
  <2>4. CASE ~(kind = "Header" /\ g = group)
    <3>1. h = told[g]
      BY <2>1, <2>2, <2>4 DEF Tell
    <3>2. Known(g, h, n + 1, nextSequence)
      BY <1>1, <1>3, <1>10, <2>2, <3>1 DEF KnownInv
    <3>3. Followed(h, n + 2)'
      BY <1>8, <3>2 DEF Known
    <3>4. Unbroken(h, m)' => Unbroken(h, nextSequence)
      <4>1. \A k \in lost : k \in Nat
        OBVIOUS
      <4> QED BY <2>2, <4>1 DEF Unbroken
    <3>5. Unbroken(h, m)' => Reachable(g, h, n + 2)'
      BY <1>9, <3>2, <3>4 DEF Known
    <3> QED BY <1>1, <2>2, <3>3, <3>5 DEF Known
  <2> QED BY <2>3, <2>4
<1>11. ASSUME NEW j \in 1 .. n + 1, Pending'[j].kind \in Bodies,
              Pending'[j].header # None, Pending'[j].epoch = runner'.epoch
       PROVE  Known(Pending[j].group, Pending[j].header, j, Pending[j].seq)'
  <2>1. PICK g, h, k : g = Pending'[j].group /\ h = Pending'[j].header /\ k = Pending'[j].seq
    OBVIOUS
  <2>2. CASE j \in 1 .. n
    <3>1. Known(g, h, j, k)
      BY <1>1, <1>3, <1>11, <2>1, <2>2 DEF KnownInv
    <3>2. Followed(h, j)' /\ (Reachable(g, h, j) => Reachable(g, h, j)')
      BY <1>7, <1>9, <2>2, <3>1 DEF Known
    <3> QED BY <2>1, <3>1, <3>2 DEF Known, Unbroken
  <2>3. CASE j = n + 1
    <3>1. g = group /\ g \in Groups /\ h = told[g] /\ h # None /\ k = nextSequence
      BY <1>0, <1>1, <1>11, <2>1, <2>3
    <3>2. Known(g, h, n + 1, k)
      BY <1>1, <1>3, <3>1 DEF KnownInv
    <3>3. Followed(h, n + 1)' /\ (Reachable(g, h, n + 1) => Reachable(g, h, n + 1)')
      BY <1>7, <1>9, <3>2 DEF Known
    <3> QED BY <2>1, <2>3, <3>2, <3>3 DEF Known, Unbroken
  <2> QED BY <1>2, <2>2, <2>3
<1>12. KnownInv'
  BY <1>1, <1>10, <1>11 DEF KnownInv
<1> QED BY <1>4, <1>5, <1>6, <1>12

\* A frame that leaves the queue empties no cache that holds an unbroken header.
LEMMA NoGap ==
  ASSUME IInv, EveryNumber, Drain, NEW frame, frame = Head(queue), NEW g \in Groups,
         NEW h \in Int, headers[g].seq = h, h # None,
         NEW n \in Nat, frame.seq <= n, Unbroken(h, n)
  PROVE  ~IsGap(frame) /\ h < frame.seq
<1> USE PendingType, FrameType, NumberTypes DEF IInv
<1>1. /\ frame \in Frames /\ frame.seq \in Nat /\ frame.seq < nextSequence
      /\ expected # None => expected <= frame.seq
      /\ Len(Pending) \in Nat /\ 1 \in 1 .. Len(Pending) /\ frame = Pending[1]
  <2>1. PICK m \in Nat : m = Len(Pending)
    OBVIOUS
  <2>2. m > 0 /\ frame = Pending[1]
    BY <2>1, DrainShifts
  <2> QED BY <2>1, <2>2, DrainClears
<1>2. /\ expected # None /\ h <= snapshot.lastRx /\ expected = snapshot.lastRx + 1
      /\ h >= -1 /\ snapshot.lastRx \in Nat
  BY DEF HeaderInv, CacheInv, Clear, NumberInv
<1> HIDE DEF Pending
<1>3. expected \in Nat /\ h < expected /\ expected <= frame.seq
  BY <1>1, <1>2
<1>4. expected = frame.seq
  <2>1. SUFFICES ASSUME expected < frame.seq PROVE FALSE
    BY <1>1, <1>3
  <2>2. expected \in 0 .. nextSequence - 1 /\ ~(expected < expected)
    BY <1>1, <1>3, <2>1
  <2>3. expected \notin lost
    BY <1>1, <1>3, <2>1 DEF Unbroken
  <2>4. PICK i \in 1 .. Len(Pending) : Pending[i].seq = expected
    BY <2>2, <2>3 DEF EveryNumber
  <2>5. i = 1 \/ 1 < i
    BY <1>1
  <2>6. 1 < i => Pending[1].seq < Pending[i].seq
    BY <1>1 DEF NumberInv
  <2> QED BY <1>1, <1>3, <2>1, <2>4, <2>5, <2>6
<1> QED BY <1>3, <1>4 DEF IsGap

\* The cache after a frame that follows no gap, and after a header.
LEMMA DrainKeepsCache ==
  ASSUME TypeInv, Drain, NEW frame \in Frames, frame = Head(queue), NEW g \in Groups
  PROVE  /\ frame.kind = "Header" /\ frame.group = g =>
              headers'[g] = [seq |-> frame.seq, epoch |-> frame.epoch, gen |-> frame.gen]
         /\ ~(frame.kind = "Header" /\ frame.group = g) /\ ~IsGap(frame) =>
              headers'[g] = headers[g]
<1> PICK cache : cache = IF IsGap(frame) THEN NoHeaders ELSE headers
  OBVIOUS
<1>1. headers' = CacheHeader(cache, frame)
  BY DEF Drain
<1>2. cache \in Caches
  BY NoHeadersType DEF TypeInv, TypeOK, DecoderOK
<1> QED BY <1>1, <1>2 DEF CacheHeader, Caches

LEMMA DrainKnown ==
  ASSUME IInv, KInv, Drain
  PROVE  KInv'
<1> PICK frame : frame = Head(queue)
  OBVIOUS
<1> USE PendingType, FrameType, NumberTypes DEF IInv, KInv
<1> PICK n \in Nat : n = Len(Pending)
  OBVIOUS
<1>1. /\ n > 0 /\ frame = Pending[1] /\ Len(Pending') = n - 1
      /\ Len(Pending) = n /\ \A i \in 1 .. n - 1 : Pending'[i] = Pending[i + 1]
  BY DrainShifts
<1>2. /\ frame \in Frames /\ frame.seq \in Nat
      /\ expected' = frame.seq + 1 /\ expected' # None
      /\ UNCHANGED <<told, lost, nextSequence, runner>>
      /\ expected # None => expected <= frame.seq
      /\ frame.seq < nextSequence
  BY DrainClears DEF None
<1>3. UNCHANGED <<active, activeEpoch, ppc, status>> /\ ppc = "drain"
  BY DEF Drain, sessionVars
<1>4. /\ \A g \in Groups : frame.kind = "Header" /\ frame.group = g =>
           headers'[g] = [seq |-> frame.seq, epoch |-> frame.epoch, gen |-> frame.gen]
      /\ \A g \in Groups : ~(frame.kind = "Header" /\ frame.group = g) /\ ~IsGap(frame) =>
           headers'[g] = headers[g]
  BY <1>2, DrainKeepsCache
<1> HIDE DEF Pending
<1>5. /\ \A i \in 1 .. n - 1 : i + 1 \in 1 .. n
      /\ \A i \in 1 .. n : i = 1 \/ i - 1 \in 1 .. n - 1
      /\ \A i \in 2 .. n : i - 1 \in 1 .. n - 1 /\ Pending'[i - 1] = Pending[i]
      /\ 1 \in 1 .. n
  <2>1. ASSUME NEW i \in 2 .. n PROVE i - 1 \in 1 .. n - 1 /\ Pending'[i - 1] = Pending[i]
    <3>1. i - 1 \in 1 .. n - 1 /\ (i - 1) + 1 = i
      OBVIOUS
    <3> QED BY <1>1, <3>1
  <2> QED BY <1>1, <2>1
<1>6. FlagInv'
  <2>1. CASE runner.pc \in {"handshaken", "epoch stored"}
    <3>1. /\ \A g \in Groups : headers[g].seq # None => headers[g].epoch < runner.epoch
          /\ \A i \in 1 .. n : Pending[i].epoch < runner.epoch
      BY <1>1, <2>1 DEF FlagInv
    <3>2. frame.epoch < runner.epoch
      BY <1>1, <1>5, <3>1
    <3>3. \A i \in 1 .. n - 1 : Pending'[i].epoch < runner.epoch
      BY <1>1, <1>5, <3>1
    <3>4. frame.kind = "Header" => frame.group \in Groups
      BY <1>1, <1>5 DEF NumberInv
    <3>5. \A g \in Groups : headers'[g].seq # None => headers'[g].epoch < runner.epoch
      <4>1. \A g \in Groups :
              \/ headers'[g].seq = None
              \/ ~IsGap(frame) /\ headers'[g] = headers[g]
              \/ headers'[g].epoch = frame.epoch
        BY <1>2, <3>4, DrainCaches
      <4> QED BY <3>1, <3>2, <4>1
    <3> QED BY <1>1, <1>2, <1>3, <2>1, <3>3, <3>5 DEF FlagInv
  <2>2. CASE runner.pc \notin {"handshaken", "epoch stored"}
    BY <1>2, <1>3, <2>2 DEF FlagInv
  <2> QED BY <2>1, <2>2
<1>7. LoadedInv'
  BY <1>3 DEF LoadedInv
<1>8. EveryNumber'
  <2> SUFFICES ASSUME NEW k \in 0 .. nextSequence - 1
               PROVE  \/ k \in lost \/ k < expected'
                      \/ \E i \in 1 .. n - 1 : Pending'[i].seq = k
    BY <1>1, <1>2 DEF EveryNumber
  <2>1. CASE expected # None /\ k < expected
    BY <1>2, <2>1
  <2>2. ASSUME NEW i \in 1 .. n, Pending[i].seq = k
        PROVE  k < expected' \/ \E a \in 1 .. n - 1 : Pending'[a].seq = k
    <3>1. CASE i = 1
      BY <1>1, <1>2, <2>2, <3>1
    <3>2. CASE i # 1
      <4>1. i \in 2 .. n
        BY <3>2
      <4>2. i - 1 \in 1 .. n - 1 /\ Pending'[i - 1].seq = k
        BY <1>5, <2>2, <4>1
      <4> QED BY <4>2
    <3> QED BY <3>1, <3>2
  <2> QED BY <1>1, <2>1, <2>2 DEF EveryNumber
<1>9. OneGeneration'
  <2>1. \A i \in 1 .. n - 1 : i + 1 \in 1 .. n /\ Pending'[i] = Pending[i + 1]
    BY <1>1, <1>5
  <2>2. \A i \in 1 .. n - 1 :
          Pending[i + 1].epoch = runner.epoch => Pending[i + 1].gen = runner.gen
    BY <1>1, <2>1 DEF OneGeneration
  <2>3. \A i \in 1 .. n - 1 :
          Pending'[i].epoch = runner.epoch => Pending'[i].gen = runner.gen
    BY <2>1, <2>2
  <2>4. 1 .. Len(Pending') = 1 .. n - 1 /\ runner' = runner
    BY <1>1, <1>2
  <2> QED BY <2>3, <2>4 DEF OneGeneration
<1>10. ASSUME active, NEW g \in Groups, NEW h \in Int, h # None, NEW j \in 2 .. n + 1,
              NEW k \in Nat, frame.seq < k, Known(g, h, j, k),
              frame.kind = "Header" /\ frame.group = g /\ frame.epoch = runner.epoch =>
                frame.seq <= h
       PROVE  Known(g, h, j - 1, k)'
  <2>1. Followed(h, j - 1)'
    <3>1. ASSUME NEW i \in 1 .. n - 1, i < j - 1, Pending'[i].seq >= h
          PROVE  Pending'[i].epoch = runner.epoch
      <4>1. i + 1 \in 1 .. n /\ i + 1 < j /\ Pending'[i] = Pending[i + 1]
        BY <1>1, <1>5, <3>1
      <4> QED BY <1>1, <1>10, <3>1, <4>1 DEF Known, Followed
    <3> QED BY <1>1, <1>2, <3>1 DEF Followed
  <2>2. ASSUME Unbroken(h, k) PROVE Reachable(g, h, j - 1)'
    <3>1. Reachable(g, h, j) /\ Followed(h, j)
      BY <1>10, <2>2 DEF Known
    <3>2. frame.seq >= h => frame.epoch = runner.epoch
      <4>1. 1 \in 1 .. Len(Pending) /\ 1 < j
        BY <1>1, <1>10
      <4>2. Pending[1].seq >= h => Pending[1].epoch = runner.epoch
        BY <3>1, <4>1 DEF Followed
      <4> QED BY <1>1, <1>5, <4>2
    <3>3. CASE headers[g] = [seq |-> h, epoch |-> runner.epoch, gen |-> runner.gen]
      <4>1. headers[g].seq = h
        BY <3>3
      <4>2. ~IsGap(frame) /\ h < frame.seq
        <5>1. frame.seq <= k
          BY <1>2, <1>10
        <5> QED BY <1>10, <2>2, <4>1, <5>1, NoGap
      <4>3. ~(frame.kind = "Header" /\ frame.group = g)
        BY <1>2, <1>10, <3>2, <4>2
      <4>4. headers'[g] = headers[g]
        BY <1>4, <4>2, <4>3
      <4> QED BY <1>2, <3>3, <4>4 DEF Reachable
    <3>4. ASSUME NEW i \in 1 .. n, i < j, Pending[i].seq = h, Pending[i].kind = "Header",
                 Pending[i].group = g
          PROVE  Reachable(g, h, j - 1)'
      <4>1. CASE i = 1
        <5>1. frame.seq = h /\ frame.epoch = runner.epoch
          BY <1>1, <1>2, <3>2, <3>4, <4>1
        <5>2. frame.gen = runner.gen
          <6>1. 1 \in 1 .. Len(Pending)
            BY <1>1
          <6>2. Pending[1].epoch = runner.epoch => Pending[1].gen = runner.gen
            BY <6>1 DEF OneGeneration
          <6> QED BY <1>1, <5>1, <6>2
        <5>3. headers'[g] = [seq |-> h, epoch |-> runner.epoch, gen |-> runner.gen]
          BY <1>1, <1>4, <3>4, <4>1, <5>1, <5>2
        <5> QED BY <1>2, <5>3 DEF Reachable
      <4>2. CASE i # 1
        <5>1. i \in 2 .. n
          BY <4>2
        <5>2. i - 1 \in 1 .. n - 1 /\ Pending'[i - 1] = Pending[i] /\ i - 1 < j - 1
          BY <1>5, <3>4, <5>1
        <5> QED BY <1>1, <3>4, <5>2 DEF Reachable
      <4> QED BY <4>1, <4>2
    <3> QED BY <1>1, <3>1, <3>3, <3>4 DEF Reachable
  <2> QED BY <1>2, <2>1, <2>2 DEF Known, Unbroken
<1>11. KnownInv'
  <2> SUFFICES ASSUME active PROVE KnownInv'
    BY <1>3 DEF KnownInv
  <2>1. ASSUME NEW g \in Groups, told[g] # None
        PROVE  Known(g, told[g], Len(Pending) + 1, nextSequence)'
    <3>1. PICK h \in Int, k \in Nat : h = told[g] /\ k = nextSequence
      OBVIOUS
    <3>2. Known(g, h, n + 1, k)
      BY <1>1, <2>1, <3>1 DEF KnownInv
    <3>3. frame.kind = "Header" /\ frame.group = g /\ frame.epoch = runner.epoch => frame.seq <= h
      <4>1. HeaderTold(1)
        BY <1>1, <1>5 DEF HeaderInv, FrameInv
      <4> QED BY <1>1, <3>1, <4>1 DEF HeaderTold
    <3>4. n + 1 \in 2 .. n + 1 /\ frame.seq < k /\ h # None
      BY <1>1, <1>2, <2>1, <3>1
    <3>5. Known(g, h, (n + 1) - 1, k)'
      BY <1>10, <3>2, <3>3, <3>4
    <3> QED BY <1>1, <1>2, <3>1, <3>5
  <2>2. ASSUME NEW i \in 1 .. n - 1, Pending'[i].kind \in Bodies,
               Pending'[i].header # None, Pending'[i].epoch = runner.epoch
        PROVE  Known(Pending[i].group, Pending[i].header, i, Pending[i].seq)'
    <3>1. PICK j \in 2 .. n + 1 : j = i + 1 /\ j \in 1 .. n /\ Pending'[i] = Pending[j] /\ j - 1 = i
      BY <1>1, <1>5
    <3>2. PICK g, h, k : g = Pending[j].group /\ h = Pending[j].header /\ k = Pending[j].seq
      OBVIOUS
    <3>3. h \in Int /\ k \in Nat /\ h # None /\ Pending[j].kind \in Bodies /\ g \in Groups
      BY <1>1, <2>2, <3>1, <3>2 DEF NumberInv
    <3>4. Known(g, h, j, k) /\ frame.seq < k
      <4>1. Known(g, h, j, k)
        BY <1>1, <2>2, <3>1, <3>2, <3>3 DEF KnownInv
      <4>2. 1 < j /\ 1 \in 1 .. Len(Pending) /\ j \in 1 .. Len(Pending)
        BY <1>1, <1>5, <3>1
      <4>3. Pending[1].seq < Pending[j].seq
        BY <4>2 DEF NumberInv
      <4> QED BY <1>1, <3>2, <4>1, <4>3
    <3>5. frame.kind = "Header" /\ frame.group = g /\ frame.epoch = runner.epoch => frame.seq <= h
      <4>1. 1 < j /\ 1 \in 1 .. Len(Pending) /\ j \in 1 .. Len(Pending)
        BY <1>1, <1>5, <3>1
      <4>2. PendingNotLater(1, j)
        BY <3>3, <4>1 DEF HeaderInv, FrameInv
      <4> QED BY <1>1, <2>2, <3>1, <3>2, <4>2 DEF PendingNotLater
    <3>6. Known(g, h, j - 1, k)'
      BY <1>10, <3>3, <3>4, <3>5
    <3> QED BY <3>1, <3>2, <3>6
  <2> QED BY <1>1, <1>2, <2>1, <2>2 DEF KnownInv
<1> QED BY <1>6, <1>7, <1>8, <1>9, <1>11

\* The status that poll was given empties no cache the running session needs.
LEMMA UpdateKnown ==
  ASSUME IInv, KInv, Update
  PROVE  KInv'
<1> USE DEF KInv
<1>1. /\ UNCHANGED <<queue, runner, told, nextSequence, lost, expected, active, activeEpoch, status>>
      /\ ppc = "update" /\ ppc' = "idle"
      /\ headers' = headers \/ (headers' = NoHeaders /\ ~status.active)
  BY DEF Update, ResetsDecoder, sessionVars, queueVars
<1>2. Pending' = Pending
  BY <1>1 DEF Pending
<1> HIDE DEF Pending
<1>3. \A g \in Groups : headers'[g] = headers[g] \/ headers'[g].seq = None
  BY <1>1 DEF NoHeaders, NoHeader
<1>4. FlagInv'
  BY <1>1, <1>2, <1>3 DEF FlagInv
<1>5. LoadedInv' /\ EveryNumber' /\ OneGeneration'
  BY <1>1, <1>2 DEF LoadedInv, EveryNumber, OneGeneration
<1>6. ASSUME active, NEW g \in Groups, NEW h, h # None, NEW j, Reachable(g, h, j)
      PROVE  Reachable(g, h, j)'
  <2>1. CASE headers[g] = [seq |-> h, epoch |-> runner.epoch, gen |-> runner.gen]
    <3>1. headers[g].seq # None /\ headers[g].epoch = runner.epoch
      BY <1>6, <2>1
    <3>2. headers' = headers
      BY <1>1, <1>6, <3>1 DEF LoadedInv
    <3> QED BY <1>1, <2>1, <3>2 DEF Reachable
  <2>2. CASE headers[g] # [seq |-> h, epoch |-> runner.epoch, gen |-> runner.gen]
    BY <1>2, <1>6, <2>2 DEF Reachable
  <2> QED BY <2>1, <2>2
<1>7. ASSUME active, NEW g \in Groups, NEW h, h # None, NEW j, NEW k, Known(g, h, j, k)
      PROVE  Known(g, h, j, k)'
  BY <1>1, <1>2, <1>6, <1>7 DEF Known, Followed, Unbroken
<1>8. KnownInv'
  <2> SUFFICES ASSUME active PROVE KnownInv'
    BY <1>1 DEF KnownInv
  <2>1. \A g \in Groups : told[g] # None => Known(g, told[g], Len(Pending) + 1, nextSequence)'
    BY <1>1, <1>2, <1>7 DEF KnownInv
  <2>2. ASSUME NEW j \in 1 .. Len(Pending), Pending[j].kind \in Bodies,
               Pending[j].header # None, Pending[j].epoch = runner.epoch
        PROVE  Known(Pending[j].group, Pending[j].header, j, Pending[j].seq)'
    <3>1. PICK g, h, k : g = Pending[j].group /\ h = Pending[j].header /\ k = Pending[j].seq
      OBVIOUS
    <3>2. Known(g, h, j, k) /\ g \in Groups
      BY <2>2, <3>1 DEF KnownInv, IInv, NumberInv
    <3>3. Known(g, h, j, k)'
      BY <1>7, <2>2, <3>1, <3>2
    <3> QED BY <1>2, <3>1, <3>3
  <2> QED BY <1>1, <1>2, <2>1, <2>2 DEF KnownInv
<1> QED BY <1>4, <1>5, <1>8

LEMMA KnownStep == IInv /\ KInv /\ [Next]_vars => KInv'
<1> SUFFICES ASSUME IInv, KInv, [Next]_vars PROVE KInv'
  OBVIOUS
<1>1. TypeInv' /\ runner \in RunnerStates
  BY TypeStep DEF IInv, TypeInv, TypeOK, SessionOK
<1>2. CASE Device \/ Wake \/ DrainDone \/ UNCHANGED vars
           \/ LoadState \/ LoadActive \/ LoadGeneration \/ LoadEpoch
  <2>1. UNCHANGED <<queue, runner, told, nextSequence, lost, expected, headers, active,
                    activeEpoch>>
    BY <1>2 DEF Device, Arrive, Connected, Disconnected, Wake, DrainDone, LoadState,
       LoadActive, LoadGeneration, LoadEpoch, Load, vars, sessionVars, queueVars, serviceVars
  <2>2. Pending' = Pending
    BY <2>1 DEF Pending
  <2>3. status \in Statuses
    BY DEF IInv, TypeInv, TypeOK, PollOK
  <2>4. ppc' \in {"generation", "epoch", "update"} =>
          \/ status'.active = active
          \/ ppc \in {"generation", "epoch", "update"} /\ status'.active = status.active
    BY <1>2, <2>3 DEF Device, Arrive, Connected, Disconnected, Wake, DrainDone, LoadState,
       LoadActive, LoadGeneration, LoadEpoch, Load, vars, serviceVars, Statuses
  <2> QED BY <2>1, <2>2, <2>4, StillKnown
<1>3. CASE HandshakeDone \/ StoreEpoch \/ StoreActive \/ EndSession
  BY <1>3, SessionKnown
<1>4. CASE Send
  <2>1. PICK kind \in Kinds, group \in Groups \union {0} :
          /\ kind \in Bodies \union {"Header"} => group \in Groups
          /\ Number(kind, group)
    BY <1>4 DEF Send, Kinds, Bodies
  <2>2. /\ Tell(kind, group) /\ runner.pc = "running"
        /\ nextSequence' = nextSequence + 1
        /\ UNCHANGED <<queue, expected, headers, active, activeEpoch, ppc, status>>
    BY <2>1 DEF Number, serviceVars
  <2>3. CASE QueueFull
    <3>1. lost' = lost \union {nextSequence} /\ UNCHANGED runner
      BY <2>1, <2>3 DEF Number
    <3>2. Pending' = Pending
      BY <2>2, <3>1 DEF Pending
    <3> QED BY <2>2, <3>1, <3>2, RefusedKnown
  <2>4. CASE ~QueueFull
    <3>1. /\ runner' = [runner EXCEPT !.pc = "send", !.frame = NewFrame(kind, group)]
          /\ UNCHANGED lost
      BY <2>1, <2>4 DEF Number
    <3>2. /\ runner'.pc = "send" /\ runner'.frame = NewFrame(kind, group)
          /\ runner'.epoch = runner.epoch /\ runner'.gen = runner.gen
      BY <1>1, <3>1 DEF RunnerStates
    <3>3. NewFrame(kind, group) \in Frames
      BY <1>1, <3>2 DEF TypeInv, RoomInv
    <3>4. Pending' = Append(Pending, NewFrame(kind, group))
      BY <2>2, <3>2 DEF Pending
    <3> HIDE DEF NewFrame
    <3> QED BY <2>1, <2>2, <3>1, <3>2, <3>3, <3>4, AcceptedKnown
  <2> QED BY <2>3, <2>4
<1>5. CASE Store
  <2>1. /\ runner.pc = "send" /\ queue' = Append(queue, runner.frame)
        /\ runner' = [runner EXCEPT !.pc = "running", !.frame = NoFrame]
        /\ UNCHANGED <<told, nextSequence, lost, expected, headers, active, activeEpoch, ppc, status>>
    BY <1>5 DEF Store, serviceVars
  <2>2. runner'.pc = "running" /\ runner'.epoch = runner.epoch /\ runner'.gen = runner.gen
    BY <1>1, <2>1 DEF RunnerStates
  <2>3. Pending' = Pending
    BY <2>1, <2>2 DEF Pending
  <2> QED BY <2>1, <2>2, <2>3, StillKnown
<1>6. CASE Drain
  BY <1>6, DrainKnown
<1>7. CASE Update
  BY <1>7, UpdateKnown
<1> QED BY <1>2, <1>3, <1>4, <1>5, <1>6, <1>7 DEF Next, Runner, Poll

\* While a session goes on, a body whose header was sent before it in that
\* session is decoded unless a frame was dropped from the header on: neither the
\* epoch and the flag, which are stored one after the other, nor the status that
\* poll reads piece by piece makes the decoder forget a header it was given
\* (run_session, poll, DiagnosticDecoder::reset).
THEOREM KnownHeadersDecode == Spec => KnownHeaderDecodes
<1>1. ASSUME IInv, KInv, [Next]_vars, NEW frame, frame = Head(queue),
             Len(queue') < Len(queue), frame.kind \in Bodies, frame.header # None,
             active, activeEpoch = frame.epoch,
             lost \intersect (frame.header .. frame.seq) = {}
      PROVE  snapshot'.fields[frame.group] = frame.seq
  <2>1. Drain
    <3>1. queue \in Seq(Frames) /\ Len(queue) \in Nat
      BY <1>1 DEF IInv, TypeInv, TypeOK, QueueOK
    <3>2. Drain \/ Store \/ UNCHANGED queue
      BY <1>1 DEF Next, Device, Arrive, Connected, Disconnected, Runner, HandshakeDone,
         StoreEpoch, StoreActive, EndSession, Send, Number, Poll, Wake, DrainDone,
         LoadState, LoadActive, LoadGeneration, LoadEpoch, Load, Update, vars, queueVars
    <3>3. ~(queue' = queue)
      BY <1>1, <3>1
    <3>4. ~Store
      <4>1. SUFFICES ASSUME Store PROVE FALSE
        OBVIOUS
      <4>2. queue' = Append(queue, runner.frame)
        BY <4>1 DEF Store
      <4>3. Len(queue') = Len(queue) + 1
        BY <3>1, <4>2
      <4> QED BY <1>1, <3>1, <4>3
    <3> QED BY <3>2, <3>3, <3>4
  <2>2. /\ frame \in Frames /\ frame.seq \in Nat /\ frame.header \in Int /\ frame.seq \notin lost
        /\ frame = Pending[1] /\ 1 \in 1 .. Len(Pending) /\ lost \subseteq Nat
    <3>1. PICK n \in Nat : n = Len(Pending)
      BY <1>1, PendingType DEF IInv
    <3>2. n > 0 /\ frame = Pending[1]
      BY <1>1, <2>1, <3>1, DrainShifts DEF IInv
    <3> QED BY <1>1, <2>1, <3>1, <3>2, DrainClears, FrameType, NumberTypes DEF IInv
  <2>3. frame.group \in Groups /\ frame.epoch = runner.epoch
    <3>1. frame.group \in Groups
      BY <1>1, <2>2 DEF IInv, NumberInv
    <3> QED BY <1>1, <3>1 DEF KInv, FlagInv
  <2>4. frame.gen = runner.gen
    BY <1>1, <2>2, <2>3 DEF KInv, OneGeneration
  <2>5. Unbroken(frame.header, frame.seq)
    BY <1>1, <2>2 DEF Unbroken
  <2>6. headers[frame.group] = [seq |-> frame.header, epoch |-> frame.epoch, gen |-> frame.gen]
    <3>1. Known(frame.group, frame.header, 1, frame.seq)
      BY <1>1, <2>2, <2>3 DEF KInv, KnownInv
    <3>2. Reachable(frame.group, frame.header, 1)
      BY <2>5, <3>1 DEF Known
    <3>3. ~\E i \in 1 .. Len(Pending) : i < 1
      OBVIOUS
    <3> QED BY <2>3, <2>4, <3>2, <3>3 DEF Reachable
  <2>7. ~IsGap(frame)
    <3>1. headers[frame.group].seq = frame.header
      BY <2>6
    <3> QED BY <1>1, <2>1, <2>2, <2>3, <2>5, <3>1, NoGap DEF KInv
  <2>8. Decodes(headers, frame)
    BY <1>1, <2>6 DEF Decodes, HeaderFits
  <2>9. snapshot' = Apply(snapshot, frame, Decodes(headers, frame))
    BY <1>1, <2>1, <2>7 DEF Drain
  <2>10. snapshot \in Snapshots
    BY <1>1 DEF IInv, TypeInv, TypeOK, ModelOK
  <2>11. snapshot'.fields = [snapshot.fields EXCEPT ![frame.group] = frame.seq]
    <3>1. PICK decodes : decodes = Decodes(headers, frame)
      OBVIOUS
    <3> QED BY <2>8, <2>9, <2>10, <3>1 DEF Apply, Snapshots
  <2> QED BY <2>3, <2>10, <2>11 DEF Snapshots
<1>2. IInv /\ KInv /\ [Next]_vars =>
        [LET frame == Head(queue) IN
           (/\ Len(queue') < Len(queue)
            /\ frame.kind \in Bodies /\ frame.header # None
            /\ active /\ activeEpoch = frame.epoch
            /\ lost \intersect (frame.header .. frame.seq) = {})
           => snapshot'.fields[frame.group] = frame.seq]_vars
  BY <1>1
<1>3. Spec => []KInv
  BY KnownInit, KnownStep, Invariance, PTL DEF Spec
<1> QED BY <1>2, <1>3, Invariance, PTL DEF Spec, KnownHeaderDecodes

-----------------------------------------------------------------------------
(***************************************************************************)
(* The audio block pool.  Blocks the writer has not taken wait in the order *)
(* of their metadata; each continues the one before.                       *)
(***************************************************************************)

\* The blocks the writer has not taken, in the order in which it will.
Waiting == IF mic.pc = "push" THEN Append(audioReady, mic.handle.block) ELSE audioReady

\* What a block may say of itself when the last one taken said "prior".
Continues(new, prior) ==
  IF new.session = prior.session
  THEN new.sequence > prior.sequence /\ new.first = prior.first + prior.frames + new.gap
  ELSE new.session > prior.session /\ new.first = new.gap

Upcoming(s) == [session |-> s.session, sequence |-> s.sequence, first |-> s.next, gap |-> s.gap]

\* What the writer has taken last when it comes to the k-th of them.
Before(k, waiting, pool, prior) == IF k = 1 THEN prior ELSE pool[waiting[k - 1]].data

AudioOwners == {"Free", "MicOwned", "Ready", "WriterOwned"}
Handles == [block : Blocks, lease : Nat]
Metadata == [session : Nat \ {0}, sequence : Nat, first : Nat, gap : Nat, frames : Nat]
MaybeMetadata == Metadata \cup {NoMetadata}
AudioPools == [Blocks -> [owner : AudioOwners, lease : Nat, data : MaybeMetadata]]
AudioTasks == [pc : {"idle", "push", "discard", "hold", "load", "store"}, handle : Handles,
               head : 0 .. FreeSlots - 1]
Samplers == [session : Nat, recording : BOOLEAN, next : Nat, gap : Nat, sequence : Nat,
             tracked : SUBSET Handles]
FreeQueues == [slots : [0 .. FreeSlots - 1 -> Blocks], head : 0 .. FreeSlots - 1,
               tail : 0 .. FreeSlots - 1]

AudioTypes ==
  /\ audioFree \in FreeQueues /\ audioReady \in Seq(Blocks) /\ blocks \in AudioPools
  /\ sampler \in Samplers /\ mic \in AudioTasks /\ writer \in AudioTasks
  /\ lastWritten \in MaybeMetadata

\* The waiting blocks are Ready, each waits once, and each continues the one before;
\* what the sampler would begin next continues the last one.
Chain(waiting, pool, prior, s) ==
  /\ \A k \in 1 .. Len(waiting) :
       /\ pool[waiting[k]].owner = "Ready" /\ pool[waiting[k]].data \in Metadata
       /\ pool[waiting[k]].data.session <= s.session
       /\ Continues(pool[waiting[k]].data, Before(k, waiting, pool, prior))
  /\ \A j, k \in 1 .. Len(waiting) : waiting[j] = waiting[k] => j = k
  /\ prior.session <= s.session
  /\ s.recording => Continues(Upcoming(s), Before(Len(waiting) + 1, waiting, pool, prior)) /\ s.session > 0

AudioInv == AudioTypes /\ Chain(Waiting, blocks, lastWritten, sampler)
-----------------------------------------------------------------------------
LEMMA AudioConstants ==
  /\ FrameCounts \subseteq Nat \ {0} /\ FreeSlots \in Nat /\ FreeSlots >= 2
  /\ Blocks = 0 .. FreeSlots - 2 /\ 0 \in Blocks /\ Cardinality(Blocks) \in Nat \ {0}
BY AudioAssumption DEF FreeSlots

LEMMA SamplerFields ==
  ASSUME NEW s \in Samplers
  PROVE  /\ s.session \in Nat /\ s.recording \in BOOLEAN /\ s.next \in Nat /\ s.gap \in Nat
         /\ s.sequence \in Nat /\ s.tracked \subseteq Handles
BY DEF Samplers

LEMMA BlockFields ==
  ASSUME NEW pool \in AudioPools, NEW b \in Blocks
  PROVE  pool[b].owner \in AudioOwners /\ pool[b].lease \in Nat /\ pool[b].data \in MaybeMetadata
BY DEF AudioPools

\* Whatever comes before a block is a block's metadata, or none yet.
LEMMA BeforeType ==
  ASSUME NEW waiting \in Seq(Blocks), NEW pool \in AudioPools, NEW prior \in MaybeMetadata,
         NEW k \in 1 .. Len(waiting) + 1
  PROVE  Before(k, waiting, pool, prior) \in MaybeMetadata
<1>1. Len(waiting) \in Nat
  BY LenProperties
<1>2. CASE k # 1
  <2>1. k - 1 \in 1 .. Len(waiting)
    BY <1>1, <1>2
  <2>2. waiting[k - 1] \in Blocks
    BY <2>1, ElementOfSeq
  <2> QED
    BY <1>2, <2>2, BlockFields DEF Before
<1> QED
  BY <1>2 DEF Before

LEMMA MetadataFields ==
  ASSUME NEW d \in MaybeMetadata
  PROVE  /\ d.session \in Nat
         /\ d.session # 0 => d.sequence \in Nat /\ d.first \in Nat /\ d.gap \in Nat /\ d.frames \in Nat
BY DEF MaybeMetadata, Metadata, NoMetadata

\* The waiting blocks stay as they are, and the sampler goes on from where it was.
LEMMA ChainKept ==
  ASSUME NEW waiting \in Seq(Blocks), NEW pool \in AudioPools, NEW pool2 \in AudioPools,
         NEW prior \in MaybeMetadata, NEW s \in Samplers, NEW s2 \in Samplers, Chain(waiting, pool, prior, s),
         \A b \in Blocks : pool[b].owner = "Ready" =>
                             pool2[b].owner = "Ready" /\ pool2[b].data = pool[b].data,
         s2.session = s.session, s2.recording => s.recording,
         s2.recording => s2.sequence >= s.sequence /\ s2.next - s.next = s2.gap - s.gap
  PROVE  Chain(waiting, pool2, prior, s2)
<1>1. Len(waiting) \in Nat /\ \A k \in 1 .. Len(waiting) : waiting[k] \in Blocks
  BY LenProperties, ElementOfSeq
<1>2. \A k \in 1 .. Len(waiting) :
        pool2[waiting[k]].owner = "Ready" /\ pool2[waiting[k]].data = pool[waiting[k]].data
  BY <1>1 DEF Chain
<1>3. \A k \in 1 .. Len(waiting) + 1 : Before(k, waiting, pool2, prior) = Before(k, waiting, pool, prior)
  <2>1. \A k \in 1 .. Len(waiting) + 1 : k = 1 \/ k - 1 \in 1 .. Len(waiting)
    BY <1>1
  <2> QED
    BY <1>2, <2>1 DEF Before
<1>4. \A k \in 1 .. Len(waiting) : k \in 1 .. Len(waiting) + 1
  BY <1>1
<1>5. ASSUME s2.recording
      PROVE  Continues(Upcoming(s2), Before(Len(waiting) + 1, waiting, pool2, prior)) /\ s2.session > 0
  <2>1. Len(waiting) + 1 \in 1 .. Len(waiting) + 1
    BY <1>1
  <2>2. PICK d \in MaybeMetadata : d = Before(Len(waiting) + 1, waiting, pool, prior)
    BY <2>1, BeforeType
  <2>3. Continues(Upcoming(s), d) /\ s.session > 0
    BY <1>5, <2>2 DEF Chain
  <2>4. Continues(Upcoming(s2), d)
    <3>1. /\ s.session \in Nat \ {0} /\ s.next \in Nat /\ s.gap \in Nat /\ s.sequence \in Nat
          /\ s2.next \in Nat /\ s2.gap \in Nat /\ s2.sequence \in Nat
          /\ s2.sequence >= s.sequence /\ s2.next - s.next = s2.gap - s.gap /\ d.session \in Nat
      BY <1>5, <2>3, SamplerFields, MetadataFields
    <3>2. CASE s.session = d.session
      <4>1. d.sequence \in Nat /\ d.first \in Nat /\ d.frames \in Nat
        BY <3>1, <3>2, MetadataFields
      <4>2. s.sequence > d.sequence /\ s.next = d.first + d.frames + s.gap
        BY <2>3, <3>2 DEF Continues, Upcoming
      <4>3. s2.sequence > d.sequence /\ s2.next = d.first + d.frames + s2.gap
        <5>1. PICK n \in Nat, n2 \in Nat, g \in Nat, g2 \in Nat, first \in Nat, frames \in Nat :
                /\ n = s.next /\ n2 = s2.next /\ g = s.gap /\ g2 = s2.gap
                /\ first = d.first /\ frames = d.frames
          BY <3>1, <4>1
        <5>2. n2 = first + frames + g2
          <6>1. n2 - n = g2 - g
            BY <3>1, <5>1
          <6>2. n = first + frames + g
            BY <4>2, <5>1
          <6> QED
            BY <6>1, <6>2
        <5>3. PICK q \in Nat, q1 \in Nat, q2 \in Nat : q = d.sequence /\ q1 = s.sequence /\ q2 = s2.sequence
          BY <3>1, <4>1
        <5>4. q2 > q
          BY <3>1, <4>2, <5>3
        <5> QED
          BY <5>1, <5>2, <5>3, <5>4
      <4> QED
        BY <3>2, <4>3 DEF Continues, Upcoming
    <3>3. CASE s.session # d.session
      <4>1. s.session > d.session /\ s.next = s.gap
        BY <2>3, <3>3 DEF Continues, Upcoming
      <4>2. s2.next = s2.gap
        BY <3>1, <4>1
      <4> QED
        BY <3>3, <4>1, <4>2 DEF Continues, Upcoming
    <3> QED
      BY <3>2, <3>3
  <2> QED
    BY <1>3, <2>1, <2>2, <2>3, <2>4
<1> QED
  BY <1>2, <1>3, <1>4, <1>5 DEF Chain

\* A block is published: it is what the sampler was to begin.
LEMMA ChainGrows ==
  ASSUME NEW waiting \in Seq(Blocks), NEW pool \in AudioPools, NEW pool2 \in AudioPools,
         NEW prior \in MaybeMetadata, NEW s \in Samplers, NEW s2 \in Samplers, Chain(waiting, pool, prior, s),
         NEW b \in Blocks, pool[b].owner # "Ready", pool2[b].owner = "Ready",
         \A c \in Blocks \ {b} : pool2[c].owner = pool[c].owner /\ pool2[c].data = pool[c].data,
         NEW frames \in Nat, s.recording,
         pool2[b].data = [session |-> s.session, sequence |-> s.sequence, first |-> s.next,
                          gap |-> s.gap, frames |-> frames],
         s2.session = s.session, s2.sequence = s.sequence + 1, s2.gap = 0, s2.next = s.next + frames,
         NEW waiting2, waiting2 = Append(waiting, b)
  PROVE  Chain(waiting2, pool2, prior, s2)
<1>1. /\ Len(waiting) \in Nat /\ \A k \in 1 .. Len(waiting) : waiting[k] \in Blocks
      /\ Len(waiting2) = Len(waiting) + 1 /\ waiting2[Len(waiting) + 1] = b
      /\ \A k \in 1 .. Len(waiting) : waiting2[k] = waiting[k]
  BY LenProperties, ElementOfSeq, AppendProperties
<1>2. \A k \in 1 .. Len(waiting) :
        /\ waiting[k] # b
        /\ pool2[waiting[k]].owner = "Ready" /\ pool2[waiting[k]].data = pool[waiting[k]].data
  BY <1>1 DEF Chain
<1>3. \A k \in 1 .. Len(waiting) + 1 : Before(k, waiting2, pool2, prior) = Before(k, waiting, pool, prior)
  <2>1. \A k \in 1 .. Len(waiting) + 1 : k = 1 \/ k - 1 \in 1 .. Len(waiting)
    BY <1>1
  <2> QED
    BY <1>1, <1>2, <2>1 DEF Before
<1>4. PICK d \in Metadata : d = pool2[b].data /\ d.session = s.session /\ d.sequence = s.sequence
                            /\ d.first = s.next /\ d.gap = s.gap /\ d.frames = frames
  <2>1. s.session \in Nat \ {0}
    BY SamplerFields DEF Chain
  <2>2. PICK d : d = [session |-> s.session, sequence |-> s.sequence, first |-> s.next,
                      gap |-> s.gap, frames |-> frames]
    OBVIOUS
  <2>3. d \in Metadata
    BY <2>1, <2>2, SamplerFields DEF Metadata
  <2> QED
    BY <2>2, <2>3
<1>5. Continues(d, Before(Len(waiting) + 1, waiting, pool, prior))
  BY <1>4 DEF Chain, Continues, Upcoming
<1>6. \A k \in 1 .. Len(waiting2) :
       /\ pool2[waiting2[k]].owner = "Ready" /\ pool2[waiting2[k]].data \in Metadata
       /\ pool2[waiting2[k]].data.session <= s2.session
       /\ Continues(pool2[waiting2[k]].data, Before(k, waiting2, pool2, prior))
  <2> SUFFICES ASSUME NEW k \in 1 .. Len(waiting2)
               PROVE  /\ pool2[waiting2[k]].owner = "Ready" /\ pool2[waiting2[k]].data \in Metadata
                      /\ pool2[waiting2[k]].data.session <= s2.session
                      /\ Continues(pool2[waiting2[k]].data, Before(k, waiting2, pool2, prior))
    OBVIOUS
  <2>1. CASE k \in 1 .. Len(waiting)
    <3>1. k \in 1 .. Len(waiting) + 1
      BY <1>1, <2>1
    <3> QED
      BY <1>1, <1>2, <1>3, <2>1, <3>1 DEF Chain
  <2>2. CASE k = Len(waiting) + 1
    <3>1. k \in 1 .. Len(waiting) + 1
      BY <1>1, <2>2
    <3>2. d.session <= s2.session
      BY <1>4, SamplerFields
    <3> QED
      BY <1>1, <1>3, <1>4, <1>5, <2>2, <3>1, <3>2
  <2> QED
    BY <1>1, <2>1, <2>2
<1>7. \A j, k \in 1 .. Len(waiting2) : waiting2[j] = waiting2[k] => j = k
  <2>1. \A k \in 1 .. Len(waiting2) : k \in 1 .. Len(waiting) \/ k = Len(waiting) + 1
    BY <1>1
  <2> QED
    BY <1>1, <1>2, <2>1 DEF Chain
<1>8. Continues(Upcoming(s2), Before(Len(waiting2) + 1, waiting2, pool2, prior)) /\ s2.session > 0
  <2>1. Len(waiting2) + 1 # 1 /\ Len(waiting2) + 1 - 1 = Len(waiting) + 1
    BY <1>1
  <2>2. Before(Len(waiting2) + 1, waiting2, pool2, prior) = d
    BY <1>1, <1>4, <2>1 DEF Before
  <2>3. Continues(Upcoming(s2), d) /\ s2.session > 0
    <3>1. s2.sequence > d.sequence /\ s2.next = d.first + d.frames + s2.gap /\ s2.session = d.session
      BY <1>4, SamplerFields
    <3> QED
      BY <3>1, SamplerFields DEF Continues, Upcoming, Chain
  <2> QED
    BY <2>2, <2>3
<1> QED
  BY <1>6, <1>7, <1>8 DEF Chain

\* The writer takes the first of them.
LEMMA ChainTaken ==
  ASSUME NEW waiting \in Seq(Blocks), NEW pool \in AudioPools, NEW pool2 \in AudioPools,
         NEW prior \in MaybeMetadata, NEW s \in Samplers, Chain(waiting, pool, prior, s),
         waiting # <<>>, NEW waiting2, waiting2 = Tail(waiting),
         \A c \in Blocks : c # waiting[1] => pool2[c].owner = pool[c].owner,
         \A c \in Blocks : pool2[c].data = pool[c].data
  PROVE  Chain(waiting2, pool2, pool[waiting[1]].data, s)
<1>1. /\ Len(waiting) \in Nat \ {0} /\ \A k \in 1 .. Len(waiting) : waiting[k] \in Blocks
      /\ Len(waiting2) = Len(waiting) - 1
      /\ \A k \in 1 .. Len(waiting2) : waiting2[k] = waiting[k + 1]
  BY LenProperties, EmptySeq, ElementOfSeq, HeadTailProperties
<1>2. \A k \in 1 .. Len(waiting2) : k + 1 \in 1 .. Len(waiting) /\ 1 \in 1 .. Len(waiting) /\ k + 1 # 1
  BY <1>1
<1>3. \A k \in 1 .. Len(waiting2) :
        /\ waiting2[k] # waiting[1]
        /\ pool2[waiting2[k]].owner = "Ready" /\ pool2[waiting2[k]].data = pool[waiting[k + 1]].data
  BY <1>1, <1>2 DEF Chain
<1>4. \A k \in 1 .. Len(waiting2) + 1 :
        Before(k, waiting2, pool2, pool[waiting[1]].data) = Before(k + 1, waiting, pool, prior)
  <2> SUFFICES ASSUME NEW k \in 1 .. Len(waiting2) + 1
               PROVE  Before(k, waiting2, pool2, pool[waiting[1]].data) = Before(k + 1, waiting, pool, prior)
    OBVIOUS
  <2>1. k + 1 # 1 /\ k + 1 - 1 = k
    BY <1>1
  <2>2. CASE k = 1
    BY <2>1, <2>2 DEF Before
  <2>3. CASE k # 1
    <3>1. k - 1 \in 1 .. Len(waiting2) /\ k - 1 + 1 = k
      BY <1>1, <2>3
    <3> QED
      BY <1>3, <2>1, <2>3, <3>1 DEF Before
  <2> QED
    BY <2>2, <2>3
<1>5. pool[waiting[1]].data.session <= s.session
  BY <1>1 DEF Chain
<1>6. \A k \in 1 .. Len(waiting2) :
       /\ pool2[waiting2[k]].owner = "Ready" /\ pool2[waiting2[k]].data \in Metadata
       /\ pool2[waiting2[k]].data.session <= s.session
       /\ Continues(pool2[waiting2[k]].data, Before(k, waiting2, pool2, pool[waiting[1]].data))
  <2>1. \A k \in 1 .. Len(waiting2) : k \in 1 .. Len(waiting2) + 1
    BY <1>1
  <2> QED
    BY <1>2, <1>3, <1>4, <2>1 DEF Chain
<1>7. \A j, k \in 1 .. Len(waiting2) : waiting2[j] = waiting2[k] => j = k
  <2>1. \A j, k \in 1 .. Len(waiting2) : j + 1 = k + 1 => j = k
    OBVIOUS
  <2> QED
    BY <1>1, <1>2, <2>1 DEF Chain
<1>8. s.recording => Continues(Upcoming(s), Before(Len(waiting2) + 1, waiting2, pool2, pool[waiting[1]].data))
                     /\ s.session > 0
  <2>1. Len(waiting2) + 1 \in 1 .. Len(waiting2) + 1 /\ Len(waiting2) + 1 + 1 = Len(waiting) + 1
    BY <1>1
  <2> QED
    BY <1>4, <2>1 DEF Chain
<1> QED
  BY <1>5, <1>6, <1>7, <1>8 DEF Chain

-----------------------------------------------------------------------------
LEMMA WaitingType ==
  ASSUME AudioTypes
  PROVE  Waiting \in Seq(Blocks)
BY AppendProperties DEF AudioTypes, Waiting, AudioTasks, Handles

LEMMA AudioStarts == AudioInit => AudioInv
<1> SUFFICES ASSUME AudioInit PROVE AudioInv
  OBVIOUS
<1> USE AudioConstants
<1>1. audioFree \in FreeQueues
  <2>1. \A i \in 0 .. FreeSlots - 1 : i % Cardinality(Blocks) \in Blocks
    BY DEF FreeSlots
  <2> QED
    BY <2>1 DEF AudioInit, FreeQueues, FreeSlots
<1>2. /\ blocks \in AudioPools /\ sampler \in Samplers /\ lastWritten \in MaybeMetadata
      /\ mic \in AudioTasks /\ writer \in AudioTasks /\ audioReady = <<>>
  BY DEF AudioInit, AudioPools, Samplers, MaybeMetadata, AudioOwners, AudioTasks, TaskIdle, NoHandle, Handles
<1>3. AudioTypes
  BY <1>1, <1>2 DEF AudioTypes
<1>4. Waiting = <<>> /\ Len(<<>>) = 0
  BY <1>2 DEF AudioInit, Waiting, TaskIdle
<1>5. lastWritten.session = 0 /\ sampler.session = 0 /\ ~sampler.recording
  BY DEF AudioInit, NoMetadata
<1> QED
  BY <1>3, <1>4, <1>5 DEF AudioInv, Chain

LEMMA Recordings == AudioInv /\ Start => AudioInv'
<1> SUFFICES ASSUME AudioInv, Start PROVE AudioInv'
  OBVIOUS
<1> USE DEF AudioInv
<1>1. UNCHANGED <<audioFree, audioReady, blocks, mic, writer, lastWritten>>
  BY DEF Start
<1>2. PICK session \in Nat : session = sampler.session + 1 /\ session # 0
  BY SamplerFields DEF AudioTypes
<1>3. sampler' = [session |-> session, recording |-> TRUE, next |-> 0, gap |-> 0, sequence |-> 1, tracked |-> {}]
  BY <1>2 DEF Start
<1>4. sampler' \in Samplers
  BY <1>3 DEF Samplers
<1>5. AudioTypes'
  BY <1>1, <1>4 DEF AudioTypes
<1>6. Waiting' = Waiting /\ Waiting \in Seq(Blocks) /\ Len(Waiting) \in Nat
  BY <1>1, WaitingType, LenProperties DEF Waiting
<1>7. PICK d \in MaybeMetadata : d = Before(Len(Waiting) + 1, Waiting, blocks, lastWritten)
  <2>1. Len(Waiting) + 1 \in 1 .. Len(Waiting) + 1
    BY <1>6
  <2> QED
    BY <1>6, <2>1, BeforeType DEF AudioTypes
<1>8. d.session <= sampler.session
  <2>1. Len(Waiting) # 0 => Len(Waiting) \in 1 .. Len(Waiting)
    BY <1>6
  <2>2. Len(Waiting) + 1 = 1 \/ (Len(Waiting) # 0 /\ Len(Waiting) + 1 - 1 = Len(Waiting))
    BY <1>6
  <2> QED
    BY <1>7, <2>1, <2>2 DEF Chain, Before
<1>9. Continues(Upcoming(sampler'), d)
  <2>1. d.session \in Nat /\ sampler.session \in Nat
    BY <1>7, MetadataFields, SamplerFields DEF AudioTypes
  <2> QED
    BY <1>2, <1>3, <1>8, <2>1 DEF Continues, Upcoming
<1>10. \A k \in 1 .. Len(Waiting) : blocks[Waiting[k]].data.session <= session
  <2>1. \A k \in 1 .. Len(Waiting) : blocks[Waiting[k]].data.session \in Nat
    BY DEF Chain, Metadata
  <2> QED
    BY <1>2, <2>1, SamplerFields DEF Chain, AudioTypes
<1>11. lastWritten.session <= session
  <2>1. lastWritten.session \in Nat
    BY MetadataFields DEF AudioTypes
  <2> QED
    BY <1>2, <2>1, SamplerFields DEF Chain, AudioTypes
<1>12. Chain(Waiting, blocks, lastWritten, sampler')
  BY <1>2, <1>3, <1>7, <1>9, <1>10, <1>11 DEF Chain
<1> QED
  BY <1>1, <1>5, <1>6, <1>12

\* The steps that touch no block that waits, and lose frames at most.
LEMMA WaitingKept ==
  ASSUME AudioInv, AudioTypes', UNCHANGED lastWritten, Waiting' = Waiting,
         \A b \in Blocks : blocks[b].owner = "Ready" =>
                             blocks'[b].owner = "Ready" /\ blocks'[b].data = blocks[b].data,
         sampler'.session = sampler.session, sampler'.recording => sampler.recording,
         sampler'.recording => sampler'.sequence >= sampler.sequence
                               /\ sampler'.next - sampler.next = sampler'.gap - sampler.gap
  PROVE  AudioInv'
<1>1. PICK pool, s : pool = blocks' /\ s = sampler'
  OBVIOUS
<1>2. pool \in AudioPools /\ s \in Samplers
  BY <1>1 DEF AudioTypes
<1>3. Chain(Waiting, pool, lastWritten, s)
  BY <1>1, <1>2, ChainKept, WaitingType DEF AudioInv, AudioTypes
<1> QED
  BY <1>1, <1>3 DEF AudioInv

LEMMA Begun == AudioInv /\ BeginBlock => AudioInv'
<1> SUFFICES ASSUME AudioInv, BeginBlock PROVE AudioInv'
  OBVIOUS
<1> USE DEF AudioInv
<1>1. UNCHANGED <<audioReady, mic, writer, lastWritten>>
  BY DEF BeginBlock
<1>2. PICK b \in Blocks : b = audioFree.slots[audioFree.tail]
  BY DEF AudioTypes, FreeQueues
<1>3. PICK lease \in Nat : lease = blocks[b].lease + 1
  BY BlockFields DEF AudioTypes
<1>4. PICK owner \in AudioOwners : owner = IF blocks[b].owner = "Free" THEN "MicOwned" ELSE blocks[b].owner
  BY BlockFields DEF AudioTypes, AudioOwners
<1>5. blocks' = [blocks EXCEPT ![b].lease = lease, ![b].owner = owner]
  BY <1>2, <1>3, <1>4 DEF BeginBlock
<1>6. blocks' \in AudioPools
  <2>1. [blocks EXCEPT ![b].lease = lease, ![b].owner = owner] \in AudioPools
    BY DEF AudioTypes, AudioPools
  <2> QED
    BY <1>5, <2>1
<1>7. \A c \in Blocks : blocks[c].owner = "Ready" =>
                          blocks'[c].owner = "Ready" /\ blocks'[c].data = blocks[c].data
  BY <1>4, <1>5 DEF AudioTypes, AudioPools
<1>8. sampler' = sampler \/ sampler' = [sampler EXCEPT !.tracked = sampler.tracked \cup
                                                        {[block |-> b, lease |-> lease]}]
  BY <1>2, <1>3 DEF BeginBlock
<1>9. [sampler EXCEPT !.tracked = sampler.tracked \cup {[block |-> b, lease |-> lease]}] \in Samplers
  BY DEF AudioTypes, Samplers, Handles
<1>10. sampler' \in Samplers /\ sampler'.session = sampler.session /\ sampler'.recording = sampler.recording
       /\ sampler'.sequence = sampler.sequence /\ sampler'.next = sampler.next /\ sampler'.gap = sampler.gap
  BY <1>8, <1>9 DEF AudioTypes, Samplers
<1>11. audioFree' \in FreeQueues
  <2>1. PICK tail \in 0 .. FreeSlots - 1 : tail = (audioFree.tail + 1) % FreeSlots
    BY AudioConstants DEF AudioTypes, FreeQueues
  <2>2. audioFree' = [audioFree EXCEPT !.tail = tail]
    BY <2>1 DEF BeginBlock
  <2>3. [audioFree EXCEPT !.tail = tail] \in FreeQueues
    BY DEF AudioTypes, FreeQueues
  <2> QED
    BY <2>2, <2>3
<1>12. AudioTypes'
  BY <1>1, <1>6, <1>10, <1>11 DEF AudioTypes
<1>13. Waiting' = Waiting
  BY <1>1 DEF Waiting
<1>14. sampler.sequence >= sampler.sequence /\ sampler.next - sampler.next = sampler.gap - sampler.gap
  BY SamplerFields DEF AudioTypes
<1> QED
  BY <1>1, <1>7, <1>10, <1>12, <1>13, <1>14, WaitingKept

\* Frames are lost: the index and the gap move together.
Lost(s, s2) ==
  /\ s2 \in Samplers /\ s2.session = s.session /\ s2.recording = s.recording
  /\ s2.sequence >= s.sequence /\ s2.next - s.next = s2.gap - s.gap

LEMMA Losing ==
  ASSUME NEW s \in Samplers, NEW frames \in Nat, NEW tracked \in SUBSET Handles,
         NEW s2, s2 = NoteDropped([s EXCEPT !.sequence = s.sequence + 1, !.tracked = tracked], frames)
  PROVE  Lost(s, s2)
<1>1. PICK sequence \in Nat, next \in Nat, gap \in Nat :
        sequence = s.sequence + 1 /\ next = s.next + frames /\ gap = s.gap + frames
  BY SamplerFields
<1>2. PICK t : t = [s EXCEPT !.sequence = sequence, !.tracked = tracked]
  OBVIOUS
<1>3. t.next = s.next /\ t.gap = s.gap
  BY <1>2 DEF Samplers
<1>4. s2 = [s EXCEPT !.sequence = sequence, !.tracked = tracked, !.next = next, !.gap = gap]
  <2>1. s2 = [t EXCEPT !.next = next, !.gap = gap]
    BY <1>1, <1>2, <1>3 DEF NoteDropped
  <2> QED
    BY <1>2, <2>1
<1>5. s2 \in Samplers
  <2>1. [s EXCEPT !.sequence = sequence, !.tracked = tracked, !.next = next, !.gap = gap] \in Samplers
    BY DEF Samplers
  <2> QED
    BY <1>4, <2>1
<1>6. /\ s2.session = s.session /\ s2.recording = s.recording
      /\ s2.sequence = sequence /\ s2.next = next /\ s2.gap = gap
  BY <1>4 DEF Samplers
<1>7. sequence >= s.sequence /\ next - s.next = gap - s.gap
  BY <1>1, SamplerFields
<1> QED
  BY <1>5, <1>6, <1>7 DEF Lost

\* The microphone task goes on with something that is no push.
LEMMA MicGoesOn ==
  ASSUME AudioInv, UNCHANGED <<audioFree, audioReady, writer, lastWritten>>,
         mic.pc # "push", mic'.pc # "push", mic' \in AudioTasks,
         blocks' \in AudioPools,
         \A b \in Blocks : blocks[b].owner = "Ready" =>
                             blocks'[b].owner = "Ready" /\ blocks'[b].data = blocks[b].data,
         Lost(sampler, sampler')
  PROVE  AudioInv'
<1>1. AudioTypes'
  BY DEF AudioInv, AudioTypes, Lost
<1>2. Waiting' = Waiting
  BY DEF Waiting
<1> QED
  BY <1>1, <1>2, WaitingKept DEF Lost

LEMMA DiscardTask ==
  ASSUME NEW h \in Handles
  PROVE  /\ [TaskIdle EXCEPT !.pc = "discard", !.handle = h] \in AudioTasks
         /\ [TaskIdle EXCEPT !.pc = "push", !.handle = h] \in AudioTasks
         /\ [TaskIdle EXCEPT !.pc = "hold", !.handle = h] \in AudioTasks
         /\ [TaskIdle EXCEPT !.pc = "discard", !.handle = h].pc = "discard"
         /\ [TaskIdle EXCEPT !.pc = "push", !.handle = h].pc = "push"
         /\ [TaskIdle EXCEPT !.pc = "push", !.handle = h].handle = h
         /\ TaskIdle \in AudioTasks /\ TaskIdle.pc = "idle"
<1>3. NoHandle \in Handles
  BY AudioConstants DEF NoHandle, Handles
<1>4. TaskIdle \in AudioTasks /\ TaskIdle.pc = "idle"
  BY <1>3, AudioConstants DEF TaskIdle, AudioTasks
<1>5. ASSUME NEW pc \in {"push", "discard", "hold"}
      PROVE  /\ [TaskIdle EXCEPT !.pc = pc, !.handle = h] \in AudioTasks
             /\ [TaskIdle EXCEPT !.pc = pc, !.handle = h].pc = pc
             /\ [TaskIdle EXCEPT !.pc = pc, !.handle = h].handle = h
  BY <1>4 DEF AudioTasks
<1> QED
  BY <1>4, <1>5

LEMMA Committed == AudioInv /\ Commit => AudioInv'
<1> SUFFICES ASSUME AudioInv, Commit PROVE AudioInv'
  OBVIOUS
<1>1. UNCHANGED <<audioFree, audioReady, writer, lastWritten>> /\ mic.pc = "idle" /\ sampler.recording
  BY DEF Commit
<1>2. sampler \in Samplers /\ blocks \in AudioPools
  BY DEF AudioInv, AudioTypes
<1>3. PICK h, frames, s, data :
        /\ h \in Handles /\ frames \in Nat \ {0} /\ h \in sampler.tracked
        /\ s = [sampler EXCEPT !.sequence = sampler.sequence + 1, !.tracked = sampler.tracked \ {h}]
        /\ data = [session |-> s.session, sequence |-> sampler.sequence,
                   first |-> s.next, gap |-> s.gap, frames |-> frames]
        /\ IF Owns(h, "MicOwned") /\ Len(audioReady) < MaxReady
           THEN /\ blocks' = [blocks EXCEPT ![h.block].data = data, ![h.block].owner = "Ready"]
                /\ sampler' = [s EXCEPT !.gap = 0, !.next = s.next + frames]
                /\ mic' = [TaskIdle EXCEPT !.pc = "push", !.handle = h]
           ELSE /\ sampler' = NoteDropped(s, frames)
                /\ mic' = [TaskIdle EXCEPT !.pc = "discard", !.handle = h]
                /\ UNCHANGED blocks
  <2>1. PICK h \in sampler.tracked, frames \in FrameCounts :
        LET s == [sampler EXCEPT !.sequence = sampler.sequence + 1, !.tracked = sampler.tracked \ {h}]
            data == [session |-> s.session, sequence |-> sampler.sequence,
                     first |-> s.next, gap |-> s.gap, frames |-> frames]
        IN  IF Owns(h, "MicOwned") /\ Len(audioReady) < MaxReady
            THEN /\ blocks' = [blocks EXCEPT ![h.block].data = data, ![h.block].owner = "Ready"]
                 /\ sampler' = [s EXCEPT !.gap = 0, !.next = s.next + frames]
                 /\ mic' = [TaskIdle EXCEPT !.pc = "push", !.handle = h]
            ELSE /\ sampler' = NoteDropped(s, frames)
                 /\ mic' = [TaskIdle EXCEPT !.pc = "discard", !.handle = h]
                 /\ UNCHANGED blocks
    BY DEF Commit
  <2>2. h \in Handles /\ frames \in Nat \ {0}
    BY <1>2, SamplerFields, AudioConstants
  <2> QED
    BY <2>1, <2>2
<1> h \in Handles /\ frames \in Nat \ {0}
  BY <1>3
<1>4. PICK tracked \in SUBSET Handles : tracked = sampler.tracked \ {h}
  BY <1>2, SamplerFields
<1>5. CASE Owns(h, "MicOwned") /\ Len(audioReady) < MaxReady
  <2>1. /\ blocks' = [blocks EXCEPT ![h.block].data = data, ![h.block].owner = "Ready"]
        /\ sampler' = [s EXCEPT !.gap = 0, !.next = s.next + frames]
        /\ mic' = [TaskIdle EXCEPT !.pc = "push", !.handle = h]
        /\ h.block \in Blocks /\ blocks[h.block].owner # "Ready"
    BY <1>3, <1>5 DEF Owns, Handles
  <2>2. PICK sequence \in Nat, next \in Nat : sequence = sampler.sequence + 1 /\ next = sampler.next + frames
    BY <1>2, SamplerFields
  <2>3. s = [sampler EXCEPT !.sequence = sequence, !.tracked = tracked]
    BY <1>3, <1>4, <2>2
  <2>4. s.next = sampler.next /\ s.gap = sampler.gap /\ s.session = sampler.session
    BY <1>2, <2>3 DEF Samplers
  <2>5. sampler' = [sampler EXCEPT !.sequence = sequence, !.tracked = tracked, !.gap = 0, !.next = next]
    BY <2>1, <2>2, <2>3, <2>4
  <2>6. sampler' \in Samplers
    <3>1. [sampler EXCEPT !.sequence = sequence, !.tracked = tracked, !.gap = 0, !.next = next] \in Samplers
      BY <1>2 DEF Samplers
    <3> QED
      BY <2>5, <3>1
  <2>7. sampler'.session = sampler.session /\ sampler'.sequence = sampler.sequence + 1
        /\ sampler'.gap = 0 /\ sampler'.next = sampler.next + frames
    BY <1>2, <2>2, <2>5 DEF Samplers
  <2>8. data = [session |-> sampler.session, sequence |-> sampler.sequence, first |-> sampler.next,
                gap |-> sampler.gap, frames |-> frames]
    BY <1>3, <2>4
  <2>9. data \in MaybeMetadata
    <3>1. sampler.session \in Nat \ {0}
      BY <1>1, <1>2, SamplerFields DEF AudioInv, Chain
    <3> QED
      BY <1>2, <2>8, <3>1, SamplerFields DEF MaybeMetadata, Metadata
  <2>10. blocks' \in AudioPools
    <3>1. [blocks EXCEPT ![h.block].data = data, ![h.block].owner = "Ready"] \in AudioPools
      BY <1>2, <2>1, <2>9 DEF AudioPools, AudioOwners
    <3> QED
      BY <2>1, <3>1
  <2>11. /\ blocks'[h.block].owner = "Ready" /\ blocks'[h.block].data = data
         /\ \A c \in Blocks \ {h.block} : blocks'[c].owner = blocks[c].owner /\ blocks'[c].data = blocks[c].data
    BY <1>2, <2>1 DEF AudioPools
  <2>12. mic' \in AudioTasks /\ mic'.pc = "push" /\ mic'.handle = h
    BY <2>1, DiscardTask
  <2>13. AudioTypes'
    BY <1>1, <2>6, <2>10, <2>12 DEF AudioInv, AudioTypes
  <2>14. Waiting' = Append(Waiting, h.block) /\ Waiting \in Seq(Blocks)
    BY <1>1, <2>12, WaitingType DEF Waiting, AudioInv
  <2>15. Chain(Waiting', blocks', lastWritten, sampler')
    <3>1. PICK pool2, s2, waiting2, b : pool2 = blocks' /\ s2 = sampler' /\ waiting2 = Waiting' /\ b = h.block
      OBVIOUS
    <3>2. lastWritten \in MaybeMetadata /\ Chain(Waiting, blocks, lastWritten, sampler)
      BY DEF AudioInv, AudioTypes
    <3>3. pool2 \in AudioPools /\ s2 \in Samplers /\ b \in Blocks /\ frames \in Nat
      BY <1>3, <2>1, <2>6, <2>10, <3>1
    <3>4. blocks[b].owner # "Ready" /\ pool2[b].owner = "Ready"
          /\ \A c \in Blocks \ {b} : pool2[c].owner = blocks[c].owner /\ pool2[c].data = blocks[c].data
      BY <2>1, <2>11, <3>1
    <3>5. pool2[b].data = [session |-> sampler.session, sequence |-> sampler.sequence, first |-> sampler.next,
                           gap |-> sampler.gap, frames |-> frames]
      BY <2>8, <2>11, <3>1
    <3>6. s2.session = sampler.session /\ s2.sequence = sampler.sequence + 1 /\ s2.gap = 0
          /\ s2.next = sampler.next + frames
      BY <2>7, <3>1
    <3>7. waiting2 = Append(Waiting, b)
      BY <2>14, <3>1
    <3>8. Chain(waiting2, pool2, lastWritten, s2)
      BY <1>1, <1>2, <2>14, <3>2, <3>3, <3>4, <3>5, <3>6, <3>7, ChainGrows
    <3> QED
      BY <3>1, <3>8
  <2> QED
    BY <1>1, <2>13, <2>15 DEF AudioInv
<1>6. CASE ~(Owns(h, "MicOwned") /\ Len(audioReady) < MaxReady)
  <2>1. /\ sampler' = NoteDropped([sampler EXCEPT !.sequence = sampler.sequence + 1, !.tracked = tracked], frames)
        /\ mic' = [TaskIdle EXCEPT !.pc = "discard", !.handle = h] /\ UNCHANGED blocks
    BY <1>3, <1>4, <1>6
  <2>2. Lost(sampler, sampler')
    BY <1>2, <2>1, Losing
  <2> QED
    BY <1>1, <1>2, <2>1, <2>2, DiscardTask, MicGoesOn
<1> QED
  BY <1>5, <1>6

LEMMA Pushed == AudioInv /\ PushReady => AudioInv'
<1> SUFFICES ASSUME AudioInv, PushReady PROVE AudioInv'
  OBVIOUS
<1>1. /\ UNCHANGED <<audioFree, blocks, sampler, writer, lastWritten>>
      /\ mic.pc = "push" /\ mic' = TaskIdle /\ audioReady' = Append(audioReady, mic.handle.block)
  BY DEF PushReady
<1>2. audioReady' \in Seq(Blocks)
  BY <1>1, AppendProperties DEF AudioInv, AudioTypes, AudioTasks, Handles
<1>3. mic' \in AudioTasks /\ mic'.pc = "idle"
  BY <1>1, AudioConstants DEF TaskIdle, AudioTasks, NoHandle, Handles
<1>4. AudioTypes'
  BY <1>1, <1>2, <1>3 DEF AudioInv, AudioTypes
<1>5. Waiting' = Waiting
  BY <1>1, <1>3 DEF Waiting
<1>6. sampler.sequence >= sampler.sequence /\ sampler.next - sampler.next = sampler.gap - sampler.gap
  BY SamplerFields DEF AudioInv, AudioTypes
<1> QED
  BY <1>1, <1>4, <1>5, <1>6, WaitingKept

LEMMA Still ==
  ASSUME AudioInv
  PROVE  Lost(sampler, sampler)
BY SamplerFields DEF Lost, AudioInv, AudioTypes

LEMMA Dropping == AudioInv /\ (DiscardBlock \/ RecordDroppedFrames) => AudioInv'
<1> SUFFICES ASSUME AudioInv, DiscardBlock \/ RecordDroppedFrames PROVE AudioInv'
  OBVIOUS
<1>1. UNCHANGED <<audioFree, audioReady, blocks, writer, lastWritten>> /\ mic.pc = "idle"
      /\ mic \in AudioTasks /\ sampler \in Samplers /\ blocks \in AudioPools
  BY DEF DiscardBlock, RecordDroppedFrames, AudioInv, AudioTypes
<1>2. CASE UNCHANGED <<mic, sampler>>
  BY <1>1, <1>2, MicGoesOn, Still
<1>3. CASE DiscardBlock /\ ~UNCHANGED <<mic, sampler>>
  <2>1. PICK h \in sampler.tracked, frames \in FrameCounts :
          /\ mic' = [TaskIdle EXCEPT !.pc = "discard", !.handle = h]
          /\ sampler' = NoteDropped([sampler EXCEPT !.sequence = sampler.sequence + 1,
                                                    !.tracked = sampler.tracked \ {h}], frames)
    BY <1>3 DEF DiscardBlock
  <2>2. h \in Handles /\ frames \in Nat /\ sampler.tracked \ {h} \in SUBSET Handles
    BY <1>1, SamplerFields, AudioConstants
  <2>3. Lost(sampler, sampler')
    BY <1>1, <2>1, <2>2, Losing
  <2> QED
    BY <1>1, <2>1, <2>2, <2>3, DiscardTask, MicGoesOn
<1>4. CASE RecordDroppedFrames
  <2>1. PICK frames \in FrameCounts :
          sampler' = NoteDropped([sampler EXCEPT !.sequence = sampler.sequence + 1], frames) /\ UNCHANGED mic
    BY <1>4 DEF RecordDroppedFrames
  <2>2. [sampler EXCEPT !.sequence = sampler.sequence + 1]
          = [sampler EXCEPT !.sequence = sampler.sequence + 1, !.tracked = sampler.tracked]
    BY <1>1 DEF Samplers
  <2>3. frames \in Nat /\ sampler.tracked \in SUBSET Handles
    BY <1>1, SamplerFields, AudioConstants
  <2>4. Lost(sampler, sampler')
    BY <1>1, <2>1, <2>2, <2>3, Losing
  <2> QED
    BY <1>1, <2>1, <2>4, MicGoesOn
<1> QED
  BY <1>2, <1>3, <1>4

LEMMA Stopping == AudioInv /\ Stop => AudioInv'
<1> SUFFICES ASSUME AudioInv, Stop PROVE AudioInv'
  OBVIOUS
<1>1. UNCHANGED <<audioFree, audioReady, blocks, writer, lastWritten>> /\ mic.pc = "idle"
      /\ mic \in AudioTasks /\ sampler \in Samplers
  BY DEF Stop, AudioInv, AudioTypes
<1>2. CASE sampler' = [sampler EXCEPT !.recording = FALSE, !.gap = 0] /\ UNCHANGED mic
  <2>1. [sampler EXCEPT !.recording = FALSE, !.gap = 0] \in Samplers
    BY <1>1 DEF Samplers
  <2>2. sampler' \in Samplers /\ sampler'.session = sampler.session /\ sampler'.recording = FALSE
    BY <1>1, <1>2, <2>1 DEF Samplers
  <2>3. AudioTypes'
    BY <1>1, <1>2, <2>2 DEF AudioInv, AudioTypes
  <2>4. Waiting' = Waiting
    BY <1>1, <1>2 DEF Waiting
  <2> QED
    BY <1>1, <2>2, <2>3, <2>4, WaitingKept
<1>3. CASE \E h \in sampler.tracked :
             /\ mic' = [TaskIdle EXCEPT !.pc = "discard", !.handle = h]
             /\ sampler' = [sampler EXCEPT !.tracked = sampler.tracked \ {h}]
  <2>1. PICK h \in sampler.tracked :
             /\ mic' = [TaskIdle EXCEPT !.pc = "discard", !.handle = h]
             /\ sampler' = [sampler EXCEPT !.tracked = sampler.tracked \ {h}]
    BY <1>3
  <2>2. PICK tracked \in SUBSET Handles : h \in Handles /\ tracked = sampler.tracked \ {h}
    BY <1>1, SamplerFields
  <2>3. [sampler EXCEPT !.tracked = tracked] \in Samplers
    BY <1>1 DEF Samplers
  <2>4. /\ sampler' \in Samplers /\ sampler'.session = sampler.session
        /\ sampler'.recording = sampler.recording /\ sampler'.sequence = sampler.sequence
        /\ sampler'.next = sampler.next /\ sampler'.gap = sampler.gap
    BY <1>1, <2>1, <2>2, <2>3 DEF Samplers
  <2>5. Lost(sampler, sampler')
    BY <1>1, <2>4, SamplerFields DEF Lost
  <2>6. mic' \in AudioTasks /\ mic'.pc = "discard"
    BY <2>1, <2>2, DiscardTask
  <2>7. blocks' = blocks /\ blocks \in AudioPools
    BY <1>1 DEF AudioInv, AudioTypes
  <2> QED
    BY <1>1, <2>5, <2>6, <2>7, MicGoesOn
<1> QED
  BY <1>2, <1>3 DEF Stop

\* A block goes back to the queue of free blocks.
LEMMA OwnerFreed ==
  ASSUME AudioInv, NEW task \in AudioTasks, NEW owner \in {"MicOwned", "WriterOwned"},
         OwnerToFree(task, owner)
  PROVE  /\ blocks' \in AudioPools
         /\ \A b \in Blocks : blocks[b].owner = "Ready" =>
                                blocks'[b].owner = "Ready" /\ blocks'[b].data = blocks[b].data
<1>1. blocks \in AudioPools /\ task.handle.block \in Blocks
  BY DEF AudioInv, AudioTypes, AudioTasks, Handles
<1>2. CASE Owns(task.handle, owner)
  <2>1. blocks' = [blocks EXCEPT ![task.handle.block].owner = "Free"] /\ blocks[task.handle.block].owner = owner
    BY <1>2 DEF OwnerToFree, Owns
  <2>2. [blocks EXCEPT ![task.handle.block].owner = "Free"] \in AudioPools
    BY <1>1 DEF AudioPools, AudioOwners
  <2> QED
    BY <1>1, <2>1, <2>2 DEF AudioPools
<1>3. CASE UNCHANGED blocks
  BY <1>1, <1>3
<1> QED
  BY <1>2, <1>3 DEF OwnerToFree

LEMMA TaskMoves ==
  ASSUME NEW task \in AudioTasks, AudioInv, NEW owner
  PROVE  /\ Freed(task, owner) \in AudioTasks /\ Freed(task, owner).pc \in {"load", "idle"}
         /\ Loaded(task) \in AudioTasks /\ Loaded(task).pc \in {"store", "idle"}
         /\ TaskIdle \in AudioTasks /\ TaskIdle.pc = "idle"
<1>1. TaskIdle \in AudioTasks /\ TaskIdle.pc = "idle"
  BY AudioConstants DEF TaskIdle, AudioTasks, NoHandle, Handles
<1>2. [task EXCEPT !.pc = "load"] \in AudioTasks /\ [task EXCEPT !.pc = "load"].pc = "load"
  BY DEF AudioTasks
<1>3. audioFree.head \in 0 .. FreeSlots - 1
  BY DEF AudioInv, AudioTypes, FreeQueues
<1>4. /\ [task EXCEPT !.pc = "store", !.head = audioFree.head] \in AudioTasks
      /\ [task EXCEPT !.pc = "store", !.head = audioFree.head].pc = "store"
  BY <1>3 DEF AudioTasks
<1> QED
  BY <1>1, <1>2, <1>4 DEF Freed, Loaded

LEMMA SlotStored ==
  ASSUME AudioInv, NEW task \in AudioTasks, StoreFree(task)
  PROVE  audioFree' \in FreeQueues
<1>1. task.head \in 0 .. FreeSlots - 1 /\ task.handle.block \in Blocks /\ audioFree \in FreeQueues
  BY DEF AudioTasks, Handles, AudioInv, AudioTypes
<1>2. PICK head \in 0 .. FreeSlots - 1 : head = (task.head + 1) % FreeSlots
  BY <1>1, AudioConstants
<1>3. audioFree' = [audioFree EXCEPT !.slots[task.head] = task.handle.block, !.head = head]
  BY <1>2 DEF StoreFree
<1>4. [audioFree EXCEPT !.slots[task.head] = task.handle.block, !.head = head] \in FreeQueues
  BY <1>1 DEF FreeQueues
<1> QED
  BY <1>3, <1>4

LEMMA Returned == AudioInv /\ ReturnToFree => AudioInv'
<1> SUFFICES ASSUME AudioInv, ReturnToFree PROVE AudioInv'
  OBVIOUS
<1>1. /\ UNCHANGED <<audioReady, sampler, lastWritten>>
      /\ mic \in AudioTasks /\ writer \in AudioTasks /\ blocks \in AudioPools /\ audioFree \in FreeQueues
  BY DEF ReturnToFree, AudioInv, AudioTypes
<1>2. /\ blocks' \in AudioPools /\ audioFree' \in FreeQueues
      /\ \A b \in Blocks : blocks[b].owner = "Ready" =>
                             blocks'[b].owner = "Ready" /\ blocks'[b].data = blocks[b].data
      /\ mic' \in AudioTasks /\ writer' \in AudioTasks
      /\ UNCHANGED mic \/ (mic.pc # "push" /\ mic'.pc # "push")
  <2>1. CASE DiscardFromMic /\ UNCHANGED writer
    BY <1>1, <2>1, OwnerFreed, TaskMoves, SlotStored DEF DiscardFromMic
  <2>2. CASE ReleaseFromWriter /\ UNCHANGED mic
    BY <1>1, <2>2, OwnerFreed, TaskMoves, SlotStored DEF ReleaseFromWriter
  <2> QED
    BY <2>1, <2>2 DEF ReturnToFree
<1>3. AudioTypes'
  BY <1>1, <1>2 DEF AudioInv, AudioTypes
<1>4. Waiting' = Waiting
  BY <1>1, <1>2 DEF Waiting
<1> QED
  BY <1>1, <1>2, <1>3, <1>4, WaitingKept, Still DEF Lost

\* What is taken continues what was taken before it.
LEMMA Takes ==
  ASSUME AudioInv, TakeReady
  PROVE  /\ AudioInv'
         /\ lastWritten' # lastWritten => Continues(lastWritten', lastWritten)
<1>1. /\ UNCHANGED <<audioFree, sampler, mic>> /\ audioReady # <<>> /\ audioReady' = Tail(audioReady)
      /\ audioReady \in Seq(Blocks) /\ blocks \in AudioPools
  BY DEF TakeReady, AudioInv, AudioTypes
<1>2. PICK b \in Blocks : b = Head(audioReady) /\ b = audioReady[1]
  BY <1>1, HeadTailProperties
<1>3. /\ Waiting \in Seq(Blocks) /\ Waiting # <<>> /\ Waiting[1] = b /\ Waiting' = Tail(Waiting)
      /\ Len(Waiting) \in Nat \ {0}
  <2>1. Waiting \in Seq(Blocks)
    BY WaitingType DEF AudioInv
  <2>2. CASE mic.pc = "push"
    <3>1. mic.handle.block \in Blocks
      BY DEF AudioInv, AudioTypes, AudioTasks, Handles
    <3>2. Waiting = Append(audioReady, mic.handle.block) /\ Waiting' = Append(Tail(audioReady), mic.handle.block)
      BY <1>1, <2>2 DEF Waiting
    <3>3. Len(audioReady) \in Nat \ {0} /\ 1 \in 1 .. Len(audioReady)
      BY <1>1, EmptySeq
    <3> QED
      BY <1>1, <1>2, <2>1, <3>1, <3>2, <3>3, AppendProperties, HeadTailAppend, EmptySeq
  <2>3. CASE mic.pc # "push"
    BY <1>1, <1>2, <2>1, <2>3, EmptySeq DEF Waiting
  <2> QED
    BY <2>2, <2>3
<1>4. /\ blocks[b].owner = "Ready" /\ blocks[b].data \in Metadata
      /\ Continues(blocks[b].data, lastWritten)
  <2>1. 1 \in 1 .. Len(Waiting)
    BY <1>3
  <2> QED
    BY <1>3, <2>1 DEF AudioInv, Chain, Before
<1>5. /\ blocks' = [blocks EXCEPT ![b].owner = "WriterOwned"]
      /\ writer' = [TaskIdle EXCEPT !.pc = "hold", !.handle = [block |-> b, lease |-> blocks[b].lease]]
      /\ lastWritten' = blocks[b].data
  BY <1>2, <1>4 DEF TakeReady
<1>6. blocks' \in AudioPools
  <2>1. [blocks EXCEPT ![b].owner = "WriterOwned"] \in AudioPools
    BY <1>1 DEF AudioPools, AudioOwners
  <2> QED
    BY <1>5, <2>1
<1>7. /\ \A c \in Blocks : c # b => blocks'[c].owner = blocks[c].owner
      /\ \A c \in Blocks : blocks'[c].data = blocks[c].data
  BY <1>1, <1>5 DEF AudioPools
<1>8. writer' \in AudioTasks
  <2>1. [block |-> b, lease |-> blocks[b].lease] \in Handles
    BY <1>1, BlockFields DEF Handles
  <2> QED
    BY <1>5, <2>1, DiscardTask
<1>9. AudioTypes'
  BY <1>1, <1>4, <1>5, <1>6, <1>8, HeadTailProperties DEF AudioInv, AudioTypes, MaybeMetadata
<1>10. Chain(Waiting', blocks', lastWritten', sampler)
  <2>1. PICK pool2, waiting2 : pool2 = blocks' /\ waiting2 = Waiting'
    OBVIOUS
  <2>2. pool2 \in AudioPools /\ waiting2 = Tail(Waiting)
        /\ (\A c \in Blocks : c # Waiting[1] => pool2[c].owner = blocks[c].owner)
        /\ (\A c \in Blocks : pool2[c].data = blocks[c].data)
    BY <1>3, <1>6, <1>7, <2>1
  <2>3. lastWritten \in MaybeMetadata /\ sampler \in Samplers /\ Chain(Waiting, blocks, lastWritten, sampler)
    BY DEF AudioInv, AudioTypes
  <2>4. Chain(waiting2, pool2, blocks[Waiting[1]].data, sampler)
    BY <1>1, <1>3, <2>2, <2>3, ChainTaken
  <2> QED
    BY <1>3, <1>5, <2>1, <2>4
<1> QED
  BY <1>1, <1>4, <1>5, <1>9, <1>10 DEF AudioInv

LEMMA AudioStep ==
  ASSUME AudioInv, [AudioNext]_audioVars
  PROVE  /\ AudioInv'
         /\ lastWritten' # lastWritten => Continues(lastWritten', lastWritten)
<1>1. CASE TakeReady
  BY <1>1, Takes
<1>2. CASE Start \/ BeginBlock \/ Commit \/ PushReady \/ DiscardBlock \/ RecordDroppedFrames \/ Stop \/ ReturnToFree
  <2>1. UNCHANGED lastWritten
    BY <1>2 DEF Start, BeginBlock, Commit, PushReady, DiscardBlock, RecordDroppedFrames, Stop, ReturnToFree
  <2>2. AudioInv'
    BY <1>2, Recordings, Begun, Committed, Pushed, Dropping, Stopping, Returned
  <2> QED
    BY <2>1, <2>2
<1>3. CASE UNCHANGED audioVars
  <2>1. UNCHANGED <<audioFree, audioReady, blocks, sampler, mic, writer, lastWritten>>
    BY <1>3 DEF audioVars
  <2>2. AudioTypes'
    BY <2>1 DEF AudioInv, AudioTypes
  <2>3. Waiting' = Waiting
    BY <2>1 DEF Waiting
  <2> QED
    BY <2>1, <2>2, <2>3 DEF AudioInv
<1> QED
  BY <1>1, <1>2, <1>3 DEF AudioNext

\* What the writer takes continues what it took before: every frame of a recording was written or is
\* in the gap the next block declares (commitBlock and noteDroppedBlock in audio_sampler.h), however the
\* microphone and the writer interleave over the pool.
THEOREM FramesAreAccounted == AudioSpec => FramesAccountedFor
<1>1. AudioInv /\ [AudioNext]_audioVars => AudioInv'
  BY AudioStep
<1>2. AudioInv /\ [AudioNext]_audioVars =>
        [lastWritten' # lastWritten =>
           LET new == lastWritten'
           IN  IF new.session = lastWritten.session
               THEN /\ new.sequence > lastWritten.sequence
                    /\ new.first = lastWritten.first + lastWritten.frames + new.gap
               ELSE new.session > lastWritten.session /\ new.first = new.gap]_audioVars
  BY AudioStep DEF Continues
<1> QED
  BY <1>1, <1>2, AudioStarts, PTL DEF AudioSpec, FramesAccountedFor

-----------------------------------------------------------------------------
(***************************************************************************)
(* The IMU sampler.  The deadline is a point of the grid of periods that   *)
(* begins with the first sample, and it is ahead of the last one.          *)
(***************************************************************************)

\* The grid of periods that begins with the first sample: the deadline is a point of it, ahead of the
\* last sample.
ImuInv ==
  /\ imuNow \in Nat /\ imuNow > 0
  /\ imuSampler.started \in BOOLEAN /\ imuSampler.deadline \in Nat
  /\ imuSampler.started => lastSampled # Never
  /\ ~imuSampler.started => lastSampled = Never
  /\ lastSampled # Never =>
       /\ lastSampled.first \in Nat /\ lastSampled.at \in Nat
       /\ lastSampled.first <= lastSampled.at
       /\ \E k \in Nat : /\ imuSampler.deadline = lastSampled.first + k * Period
                         /\ lastSampled.at < imuSampler.deadline

LEMMA ImuConstants == Period \in Nat \ {0}
BY ImuAssumption

LEMMA Division ==
  ASSUME NEW p \in Nat \ {0}, NEW a \in Nat
  PROVE  /\ a % p \in 0 .. p - 1 /\ a = p * (a \div p) + (a % p) /\ (a \div p) \in Nat
OBVIOUS

\* Below a point of the grid the quotient is smaller, from it on it is not.
LEMMA GridPoint ==
  ASSUME NEW p \in Nat \ {0}, NEW k \in Nat, NEW a \in Nat, NEW b \in Nat, a < k * p, b >= k * p
  PROVE  b \div p > a \div p
<1>1. PICK q \in Nat, r \in 0 .. p - 1 : q = a \div p /\ a = p * q + r
  BY Division
<1>2. PICK q2 \in Nat, r2 \in 0 .. p - 1 : q2 = b \div p /\ b = p * q2 + r2
  BY Division
<1>3. q < k
  <2>1. p * (k - q) > 0
    BY <1>1
  <2>2. k - q \in Int /\ p > 0
    OBVIOUS
  <2> QED
    BY <2>1, <2>2
<1>4. q2 >= k
  <2>1. p * (q2 - k + 1) > 0
    <3>1. p * (q2 - k) + r2 >= 0
      BY <1>2
    <3>2. p * (q2 - k + 1) = p * (q2 - k) + p
      OBVIOUS
    <3> QED
      BY <3>1, <3>2
  <2>2. q2 - k + 1 \in Int /\ p > 0
    OBVIOUS
  <2> QED
    BY <2>1, <2>2
<1> QED
  BY <1>1, <1>2, <1>3, <1>4

\* The next deadline is the first point of the grid that lies ahead.
LEMMA NextIsAhead ==
  ASSUME NEW polledAt \in Nat, NEW first \in Nat, NEW k \in Nat, NEW deadline \in Nat,
         deadline = first + k * Period
  PROVE  /\ NextDeadline(deadline, polledAt) > polledAt /\ NextDeadline(deadline, polledAt) \in Nat
         /\ \E n \in Nat : NextDeadline(deadline, polledAt) = first + n * Period
<1>1. PICK p \in Nat \ {0} : p = Period
  BY ImuConstants
<1>2. PICK d \in Nat : d = deadline + p /\ d = first + (k + 1) * p
  BY <1>1
<1>3. CASE d <= polledAt
  <2>1. PICK q \in Nat, r \in 0 .. p - 1 : q = (polledAt - d) \div p /\ polledAt - d = p * q + r
    <3>1. PICK a \in Nat : a = polledAt - d
      BY <1>3
    <3>2. a % p \in 0 .. p - 1 /\ a = p * (a \div p) + (a % p) /\ (a \div p) \in Nat
      BY Division
    <3> QED
      BY <3>1, <3>2
  <2>2. NextDeadline(deadline, polledAt) = d + (q + 1) * p
    BY <1>1, <1>2, <1>3, <2>1 DEF NextDeadline
  <2>3. d + (q + 1) * p = d + p * q + p /\ d + (q + 1) * p = first + (k + 1 + q + 1) * p
    BY <1>2
  <2>4. d + (q + 1) * p > polledAt /\ d + (q + 1) * p \in Nat
    <3>1. p * q = polledAt - d - r
      BY <2>1
    <3> QED
      BY <2>3, <3>1
  <2>5. PICK n \in Nat : n = k + 1 + q + 1
    OBVIOUS
  <2>6. NextDeadline(deadline, polledAt) = first + n * Period
    BY <1>1, <2>2, <2>3, <2>5
  <2> QED
    BY <2>2, <2>4, <2>6
<1>4. CASE d > polledAt
  <2>1. NextDeadline(deadline, polledAt) = d
    BY <1>1, <1>2, <1>4 DEF NextDeadline
  <2>2. k + 1 \in Nat /\ NextDeadline(deadline, polledAt) = first + (k + 1) * Period
    BY <1>1, <1>2, <2>1
  <2> QED
    BY <1>2, <1>4, <2>1, <2>2
<1> QED
  BY <1>3, <1>4

LEMMA ImuStarts == ImuInit => ImuInv
BY DEF ImuInit, ImuInv

LEMMA Polled ==
  ASSUME ImuInv, ImuPoll
  PROVE  /\ ImuInv'
         /\ lastSampled # Never => (lastSampled'.at - lastSampled.first) \div Period
                                     > (lastSampled.at - lastSampled.first) \div Period
<1> DEFINE deadline == IF imuSampler.started THEN imuSampler.deadline ELSE imuNow
           first == IF imuSampler.started THEN lastSampled.first ELSE imuNow
<1>1. /\ imuNow >= deadline /\ UNCHANGED imuNow
      /\ imuSampler' = [started |-> TRUE, sequence |-> imuSampler.sequence + 1,
                        deadline |-> NextDeadline(deadline, imuNow)]
      /\ lastSampled' = [first |-> first, at |-> imuNow]
  BY DEF ImuPoll
<1>2. PICK k \in Nat : deadline = first + k * Period /\ deadline \in Nat /\ first \in Nat /\ first <= imuNow
  <2>1. CASE imuSampler.started
    <3>1. PICK k \in Nat : /\ imuSampler.deadline = lastSampled.first + k * Period
                           /\ lastSampled.at < imuSampler.deadline
      BY <2>1 DEF ImuInv
    <3>2. lastSampled.first \in Nat /\ lastSampled.at \in Nat /\ lastSampled.first <= lastSampled.at
          /\ imuSampler.deadline \in Nat /\ imuNow \in Nat
      BY <2>1 DEF ImuInv
    <3>3. lastSampled.first <= imuNow
      BY <1>1, <2>1, <3>1, <3>2
    <3> QED
      BY <2>1, <3>1, <3>2, <3>3
  <2>2. CASE ~imuSampler.started
    <3>1. imuNow = imuNow + 0 * Period /\ imuNow \in Nat
      BY ImuConstants DEF ImuInv
    <3> QED
      BY <2>2, <3>1
  <2> QED
    BY <2>1, <2>2
<1> HIDE DEF deadline, first
<1>3. PICK n \in Nat, next \in Nat : next = NextDeadline(deadline, imuNow) /\ next = first + n * Period /\ next > imuNow
  BY <1>2, NextIsAhead DEF ImuInv
<1>4. ImuInv'
  <2>1. /\ imuSampler'.started = TRUE /\ imuSampler'.deadline = next
        /\ lastSampled'.first = first /\ lastSampled'.at = imuNow
    BY <1>1, <1>3
  <2>2. lastSampled' # Never
    BY <2>1 DEF Never, ImuInv
  <2> QED
    BY <1>1, <1>2, <1>3, <2>1, <2>2 DEF ImuInv
<1>5. ASSUME lastSampled # Never
      PROVE  (lastSampled'.at - lastSampled.first) \div Period
                > (lastSampled.at - lastSampled.first) \div Period
  <2>1. imuSampler.started /\ lastSampled'.at = imuNow
    BY <1>1, <1>5 DEF ImuInv
  <2>2. PICK j \in Nat : /\ imuSampler.deadline = lastSampled.first + j * Period
                         /\ lastSampled.at < imuSampler.deadline
    BY <1>5 DEF ImuInv
  <2>3. imuNow >= imuSampler.deadline
    BY <1>1, <2>1 DEF deadline
  <2>4. lastSampled.first \in Nat /\ lastSampled.at \in Nat /\ lastSampled.first <= lastSampled.at
        /\ imuNow \in Nat
    BY <1>5 DEF ImuInv
  <2>5. PICK p \in Nat \ {0}, grid \in Nat : p = Period /\ grid = j * p /\ grid = j * Period
    BY ImuConstants
  <2>6. /\ imuSampler.deadline = lastSampled.first + grid
        /\ lastSampled.at - lastSampled.first < grid /\ imuNow - lastSampled.first >= grid
        /\ lastSampled.at - lastSampled.first \in Nat /\ imuNow - lastSampled.first \in Nat
    <3>1. imuSampler.deadline = lastSampled.first + grid /\ imuSampler.deadline \in Nat
      BY <2>2, <2>5 DEF ImuInv
    <3> QED
      BY <2>2, <2>3, <2>4, <3>1
  <2>7. PICK a \in Nat, b \in Nat : a = lastSampled.at - lastSampled.first /\ b = imuNow - lastSampled.first
    BY <2>6
  <2>8. b \div p > a \div p
    BY <2>5, <2>6, <2>7, GridPoint
  <2> QED
    BY <2>1, <2>5, <2>7, <2>8
<1> QED
  BY <1>4, <1>5

LEMMA ImuStep ==
  ASSUME ImuInv, [ImuNext]_imuVars
  PROVE  /\ ImuInv'
         /\ lastSampled # Never /\ imuSampler' # imuSampler =>
              (lastSampled'.at - lastSampled.first) \div Period
                > (lastSampled.at - lastSampled.first) \div Period
<1>1. CASE ImuPoll
  BY <1>1, Polled
<1>2. CASE UNCHANGED <<imuSampler, lastSampled>> /\ imuNow' \in {imuNow, imuNow + 1}
  BY <1>2 DEF ImuInv
<1> QED
  BY <1>1, <1>2 DEF ImuNext, ImuTick, LoggerReads, ConsoleReports, imuVars

\* Each sample lies in a later period than the one before: the absolute deadlines of ImuSampler::poll
\* skip what was missed, however late the task runs.
THEOREM SamplesKeepPeriod == ImuSpec => OneSamplePerPeriod
<1>1. ImuInv /\ [ImuNext]_imuVars => ImuInv'
  BY ImuStep
<1>2. ImuInv /\ [ImuNext]_imuVars =>
        [lastSampled # Never /\ imuSampler' # imuSampler =>
           (lastSampled'.at - lastSampled.first) \div Period
             > (lastSampled.at - lastSampled.first) \div Period]_imuVars
  BY ImuStep
<1> QED
  BY <1>1, <1>2, ImuStarts, PTL DEF ImuSpec, OneSamplePerPeriod

-----------------------------------------------------------------------------
(***************************************************************************)
(* The audio probe.  What the buffer begins with is what the result shows, *)
(* for as long as the buffer is said to be of that test.                   *)
(***************************************************************************)

UiStates == {"List", "Detail", "Capturing", "StopConfirm", "Result"}
WavStates == {"Idle", "Requested", "Data", "Verify", "Complete", "Failed"}

ProbeTypes ==
  /\ model \in [state : UiStates, test : Tests]
  /\ capture \in [blocks : Nat, pending : BOOLEAN, levels : Seq(Nat)]
  /\ pcm \in Seq(Nat) /\ starts \in Nat
  /\ results \in [Tests -> [available : BOOLEAN, blocks : Nat, levels : Seq(Nat)]]
  /\ pcmTest \in Tests \cup {NoTest}
  /\ storage \in [state : WavStates, blocks : Nat, file : Seq(Nat)]

\* The buffer begins with so many blocks, whose levels are these.
Holds(samples, n, levels) ==
  /\ Len(levels) = n /\ n <= Len(samples)
  /\ \A i \in 1 .. n : samples[i] = levels[i]

\* The result of the test the buffer is said to be of may lie behind the capture, but not past it.
ResultHeld(test, of, samples, recorded) ==
  test # NoTest => /\ Holds(samples, of[test].blocks, of[test].levels)
                   /\ of[test].blocks <= recorded

FileHeld(file, n, samples) ==
  Len(file) <= n /\ \A i \in 1 .. Len(file) : file[i] = samples[i]

StorageInv ==
  /\ WavBusy => model.state \notin {"Capturing", "StopConfirm"}
  /\ storage.state \in {"Data", "Verify"} =>
       /\ pcmTest # NoTest /\ storage.blocks = results[pcmTest].blocks
       /\ FileHeld(storage.file, storage.blocks, pcm)
       /\ storage.state = "Data" <=> Len(storage.file) < storage.blocks

ProbeInv ==
  /\ ProbeTypes
  /\ Holds(pcm, capture.blocks, capture.levels)
  /\ ResultHeld(pcmTest, results, pcm, capture.blocks)
  /\ StorageInv
-----------------------------------------------------------------------------
LEMMA ProbeConstants == 0 \in Tests /\ NoTest \notin Tests /\ NoTest \in Int
BY ProbeAssumption DEF Tests, NoTest

LEMMA ProbeStarts == ProbeInit => ProbeInv
<1> SUFFICES ASSUME ProbeInit PROVE ProbeInv
  OBVIOUS
<1>1. <<>> \in Seq(Nat) /\ Len(<<>>) = 0
  OBVIOUS
<1>2. ProbeTypes
  BY <1>1, ProbeConstants DEF ProbeInit, ProbeTypes, UiStates, WavStates
<1> QED
  BY <1>1, <1>2 DEF ProbeInit, ProbeInv, Holds, ResultHeld, StorageInv, WavBusy

\* The result of the selected test is what the capture holds.
LEMMA Finalized ==
  ASSUME ProbeInv, NEW n \in Nat, NEW levels \in Seq(Nat), NEW samples, Holds(samples, n, levels),
         FinalizeCaptureResult(n, levels)
  PROVE  /\ results' \in [Tests -> [available : BOOLEAN, blocks : Nat, levels : Seq(Nat)]]
         /\ pcmTest' \in Tests
         /\ \A m \in Nat : n <= m => ResultHeld(pcmTest', results', samples, m)
<1>1. /\ results \in [Tests -> [available : BOOLEAN, blocks : Nat, levels : Seq(Nat)]] /\ model.test \in Tests
      /\ results' = [results EXCEPT ![model.test] = [available |-> TRUE, blocks |-> n, levels |-> levels]]
      /\ pcmTest' = model.test
  BY DEF ProbeInv, ProbeTypes, FinalizeCaptureResult
<1>2. results'[model.test].blocks = n /\ results'[model.test].levels = levels
  BY <1>1
<1> QED
  BY <1>1, <1>2 DEF ResultHeld

\* Without the storage at work and without a change of the buffer, a step may finalize or not.
LEMMA AtRest ==
  ASSUME ProbeTypes', Holds(pcm', capture'.blocks, capture'.levels),
         ResultHeld(pcmTest', results', pcm', capture'.blocks), storage'.state \notin {"Requested", "Data", "Verify"}
  PROVE  ProbeInv'
BY DEF ProbeInv, StorageInv, WavBusy

LEMMA Microphone ==
  ASSUME ProbeInv, ~WavBusy, UNCHANGED <<pcm, results>>, starts' = starts + 1,
         model' \in [state : UiStates, test : Tests],
         \/ /\ capture' = [blocks |-> 0, pending |-> FALSE, levels |-> <<>>] /\ pcmTest' = NoTest
            /\ storage' = [storage EXCEPT !.state = IF storage.state \in {"Complete", "Failed"}
                                                    THEN "Idle" ELSE storage.state]
         \/ UNCHANGED <<capture, pcmTest, storage>>
  PROVE  ProbeInv'
<1>1. starts' = starts + 1 /\ UNCHANGED results
  OBVIOUS
<1>2. <<>> \in Seq(Nat) /\ Len(<<>>) = 0
  OBVIOUS
<1>3. CASE /\ capture' = [blocks |-> 0, pending |-> FALSE, levels |-> <<>>] /\ pcmTest' = NoTest
           /\ storage' = [storage EXCEPT !.state = IF storage.state \in {"Complete", "Failed"}
                                                   THEN "Idle" ELSE storage.state]
  <2>1. PICK state \in WavStates : storage' = [storage EXCEPT !.state = state]
                                   /\ state \notin {"Requested", "Data", "Verify"}
    BY <1>3 DEF WavBusy, WavStates, ProbeInv, ProbeTypes
  <2>2. [storage EXCEPT !.state = state] \in [state : WavStates, blocks : Nat, file : Seq(Nat)]
    BY DEF ProbeInv, ProbeTypes
  <2>3. storage' \in [state : WavStates, blocks : Nat, file : Seq(Nat)] /\ storage'.state = state
    BY <2>1, <2>2 DEF ProbeInv, ProbeTypes
  <2>4. capture' \in [blocks : Nat, pending : BOOLEAN, levels : Seq(Nat)]
    BY <1>2, <1>3
  <2>5. ProbeTypes'
    <3>1. pcm' \in Seq(Nat) /\ starts' \in Nat
      <4>1. pcm \in Seq(Nat) /\ starts \in Nat
        BY DEF ProbeInv, ProbeTypes
      <4>2. pcm' = pcm
        OBVIOUS
      <4>3. starts' \in Nat
        BY <1>1, <4>1
      <4> QED
        BY <4>1, <4>2, <4>3
    <3>2. results' \in [Tests -> [available : BOOLEAN, blocks : Nat, levels : Seq(Nat)]]
      BY <1>1 DEF ProbeInv, ProbeTypes
    <3> QED
      BY <1>3, <2>3, <2>4, <3>1, <3>2 DEF ProbeTypes
  <2>6. Len(pcm) \in Nat
    BY DEF ProbeInv, ProbeTypes
  <2> QED
    BY <1>2, <1>3, <2>1, <2>3, <2>5, <2>6, AtRest DEF Holds, ResultHeld
<1>4. CASE UNCHANGED <<capture, pcmTest, storage>>
  <2>1. ProbeTypes'
    BY <1>1, <1>4 DEF ProbeInv, ProbeTypes
  <2> QED
    BY <1>1, <1>4, <2>1, AtRest DEF ProbeInv, WavBusy
<1> QED
  BY <1>1, <1>3, <1>4

\* The menu's states: what an event can lead to.
LEMMA Dispatched ==
  ASSUME ProbeInv, NEW event, NEW test
  PROVE  /\ Dispatch(event, test) \in [state : UiStates, test : Tests]
         /\ model.state \notin {"Capturing", "StopConfirm"} /\ event # "Activate" =>
              Dispatch(event, test).state \notin {"Capturing", "StopConfirm"}
<1>1. model \in [state : UiStates, test : Tests]
  BY DEF ProbeInv, ProbeTypes
<1>2. Dispatch(event, test) = model
      \/ (/\ test \in Tests /\ Dispatch(event, test) = [state |-> "Detail", test |-> test])
      \/ \E state \in UiStates :
           /\ Dispatch(event, test) = [model EXCEPT !.state = state]
           /\ state \in {"Capturing", "StopConfirm"} =>
                model.state \in {"Capturing", "StopConfirm"} \/ event = "Activate"
  BY DEF Dispatch, UiStates
<1>3. \A state \in UiStates : [model EXCEPT !.state = state] \in [state : UiStates, test : Tests]
                              /\ [model EXCEPT !.state = state].state = state
  BY <1>1
<1>4. test \in Tests => [state |-> "Detail", test |-> test] \in [state : UiStates, test : Tests]
  BY DEF UiStates
<1> QED
  BY <1>1, <1>2, <1>3, <1>4

\* A tap or a command.
LEMMA Applied ==
  ASSUME ProbeInv, NEW event, NEW test, ApplyEvent(event, test)
  PROVE  ProbeInv'
<1>1. PICK next : next = IF RejectedAsBusy(event) THEN model ELSE Dispatch(event, test)
  OBVIOUS
<1>2. model' = next /\ UNCHANGED pcm
  BY <1>1 DEF ApplyEvent
<1>3. next \in [state : UiStates, test : Tests]
      /\ (WavBusy => next.state \notin {"Capturing", "StopConfirm"})
  <2>1. model \in [state : UiStates, test : Tests]
        /\ (WavBusy => model.state \notin {"Capturing", "StopConfirm"})
    BY DEF ProbeInv, ProbeTypes, StorageInv
  <2>2. CASE RejectedAsBusy(event)
    BY <1>1, <2>1, <2>2
  <2>3. CASE ~RejectedAsBusy(event)
    BY <1>1, <2>1, <2>3, Dispatched DEF RejectedAsBusy
  <2> QED
    BY <2>2, <2>3
<1>4. CASE next.state = "Capturing" /\ model.state # "Capturing"
  <2>1. ~WavBusy
    BY <1>3, <1>4
  <2>2. /\ starts' = starts + 1 /\ UNCHANGED results
        /\ \/ /\ capture' = [blocks |-> 0, pending |-> FALSE, levels |-> <<>>] /\ pcmTest' = NoTest
              /\ storage' = [storage EXCEPT !.state = IF storage.state \in {"Complete", "Failed"}
                                                      THEN "Idle" ELSE storage.state]
           \/ UNCHANGED <<capture, pcmTest, storage>>
    <3>0. event # "WriteWav"
      <4>1. event = "WriteWav" => Dispatch(event, test) = model
        BY DEF Dispatch
      <4> QED
        BY <1>1, <1>4, <4>1
    <3>1. StartMicrophone(model.state)
      BY <1>1, <1>4, <3>0 DEF ApplyEvent
    <3>2. starts' = starts + 1 /\ UNCHANGED results
      BY <3>1 DEF StartMicrophone
    <3>3. \/ /\ capture' = [blocks |-> 0, pending |-> FALSE, levels |-> <<>>] /\ pcmTest' = NoTest
             /\ storage' = [storage EXCEPT !.state = IF storage.state \in {"Complete", "Failed"}
                                                     THEN "Idle" ELSE storage.state]
          \/ UNCHANGED <<capture, pcmTest, storage>>
      BY <3>1 DEF StartMicrophone
    <3> QED
      BY <3>2, <3>3
  <2> QED
    BY <1>2, <1>3, <2>1, <2>2, Microphone
<1>5. CASE UNCHANGED <<capture, results, pcmTest, storage, starts>>
  <2>1. ProbeTypes'
    BY <1>2, <1>3, <1>5 DEF ProbeInv, ProbeTypes
  <2> QED
    BY <1>2, <1>3, <1>5, <2>1 DEF ProbeInv, StorageInv, WavBusy
<1>6. CASE next.state # "Capturing" /\ model.state = "Capturing"
  <2>1. StopMicrophone(next.state) /\ ~WavBusy
    BY <1>1, <1>6 DEF ApplyEvent, ProbeInv, StorageInv
  <2>2. capture' = [capture EXCEPT !.pending = FALSE] /\ UNCHANGED <<storage, starts>>
        /\ (UNCHANGED <<results, pcmTest>> \/ FinalizeCaptureResult(capture.blocks, capture.levels))
    BY <2>1 DEF StopMicrophone
  <2>3. capture' \in [blocks : Nat, pending : BOOLEAN, levels : Seq(Nat)]
        /\ capture'.blocks = capture.blocks /\ capture'.levels = capture.levels
        /\ capture.blocks \in Nat /\ capture.levels \in Seq(Nat)
    <3>1. [capture EXCEPT !.pending = FALSE] \in [blocks : Nat, pending : BOOLEAN, levels : Seq(Nat)]
      BY DEF ProbeInv, ProbeTypes
    <3> QED
      BY <2>2, <3>1 DEF ProbeInv, ProbeTypes
  <2>4. /\ results' \in [Tests -> [available : BOOLEAN, blocks : Nat, levels : Seq(Nat)]]
        /\ pcmTest' \in Tests \cup {NoTest}
        /\ ResultHeld(pcmTest', results', pcm, capture.blocks)
    <3>1. CASE UNCHANGED <<results, pcmTest>>
      BY <3>1 DEF ProbeInv, ProbeTypes
    <3>2. CASE FinalizeCaptureResult(capture.blocks, capture.levels)
      <4>1. PICK n \in Nat, levels \in Seq(Nat) : n = capture.blocks /\ levels = capture.levels
        BY <2>3
      <4>2. Holds(pcm, n, levels)
        BY <4>1 DEF ProbeInv
      <4>3. n <= n
        OBVIOUS
      <4> QED
        BY <3>2, <4>1, <4>2, <4>3, Finalized
    <3> QED
      BY <2>2, <3>1, <3>2
  <2>5. ProbeTypes'
    BY <1>2, <1>3, <2>2, <2>3, <2>4 DEF ProbeInv, ProbeTypes
  <2> QED
    BY <1>2, <2>1, <2>2, <2>3, <2>4, <2>5, AtRest DEF ProbeInv, WavBusy
<1>7. CASE /\ model.state = "StopConfirm" /\ UNCHANGED <<capture, storage, starts>>
           /\ FinalizeCaptureResult(capture.blocks, capture.levels)
  <2>1. PICK n \in Nat, levels \in Seq(Nat) : n = capture.blocks /\ levels = capture.levels
    BY DEF ProbeInv, ProbeTypes
  <2>2. Holds(pcm, n, levels) /\ n <= n
    BY <2>1 DEF ProbeInv
  <2>3. /\ results' \in [Tests -> [available : BOOLEAN, blocks : Nat, levels : Seq(Nat)]]
        /\ pcmTest' \in Tests
        /\ ResultHeld(pcmTest', results', pcm, n)
    BY <1>7, <2>1, <2>2, Finalized
  <2>4. ProbeTypes'
    BY <1>2, <1>3, <1>7, <2>3 DEF ProbeInv, ProbeTypes
  <2>5. ~WavBusy
    BY <1>7 DEF ProbeInv, StorageInv
  <2> QED
    BY <1>2, <1>7, <2>1, <2>3, <2>4, <2>5, AtRest DEF ProbeInv, WavBusy
<1>8. CASE /\ event = "WriteWav" /\ model.state = "Result" /\ UNCHANGED <<capture, results, pcmTest, starts>>
           /\ storage' = [storage EXCEPT !.state = IF WavBusy THEN storage.state ELSE "Requested"]
  <2>1. CASE WavBusy
    <3>1. storage' = storage
      BY <1>8, <2>1 DEF ProbeInv, ProbeTypes
    <3> QED
      BY <1>5, <1>8, <3>1
  <2>2. CASE ~WavBusy
    <3>1. storage' = [storage EXCEPT !.state = "Requested"]
      BY <1>8, <2>2
    <3>2. [storage EXCEPT !.state = "Requested"] \in [state : WavStates, blocks : Nat, file : Seq(Nat)]
      BY DEF ProbeInv, ProbeTypes, WavStates
    <3>3. storage' \in [state : WavStates, blocks : Nat, file : Seq(Nat)] /\ storage'.state = "Requested"
      BY <3>1, <3>2 DEF ProbeInv, ProbeTypes
    <3>4. ProbeTypes'
      BY <1>2, <1>3, <1>8, <3>3 DEF ProbeInv, ProbeTypes
    <3>5. next.state \notin {"Capturing", "StopConfirm"}
      <4>1. ~RejectedAsBusy(event)
        BY <1>8 DEF RejectedAsBusy
      <4> QED
        BY <1>1, <1>8, <4>1, Dispatched
    <3> QED
      BY <1>2, <1>8, <3>3, <3>4, <3>5 DEF ProbeInv, StorageInv
  <2> QED
    BY <2>1, <2>2
<1> QED
  BY <1>1, <1>4, <1>5, <1>6, <1>7, <1>8 DEF ApplyEvent

\* A block is copied to the place the blocks so far end at: it may extend the buffer, and leaves what
\* lies before it.
BlockMore(copy, samples, n, block) ==
  /\ copy \in Seq(Nat) /\ n + 1 <= Len(copy) /\ copy[n + 1] = block
  /\ \A i \in 1 .. n : copy[i] = samples[i]

LEMMA Copied ==
  ASSUME NEW samples \in Seq(Nat), NEW n \in Nat, NEW block \in Nat, n <= Len(samples),
         NEW copy, copy = Stored(samples, n, block)
  PROVE  BlockMore(copy, samples, n, block)
<1>1. Len(samples) \in Nat
  OBVIOUS
<1>2. PICK m \in Nat : m = (IF n + 1 > Len(samples) THEN n + 1 ELSE Len(samples)) /\ n + 1 <= m
  BY <1>1
<1>3. copy = [i \in 1 .. m |-> IF i = n + 1 THEN block ELSE samples[i]]
  BY <1>2 DEF Stored
<1>4. \A i \in 1 .. m : (IF i = n + 1 THEN block ELSE samples[i]) \in Nat
  <2>1. \A i \in 1 .. m : i # n + 1 => i \in 1 .. Len(samples)
    BY <1>1, <1>2
  <2> QED
    BY <2>1, ElementOfSeq
<1>5. copy \in [1 .. m -> Nat]
  BY <1>3, <1>4
<1>6. copy \in Seq(Nat) /\ Len(copy) = m
  BY <1>5
<1>7. n + 1 \in 1 .. m /\ \A i \in 1 .. n : i \in 1 .. m /\ i # n + 1
  BY <1>2
<1> QED
  BY <1>2, <1>3, <1>6, <1>7 DEF BlockMore

\* The capture with one block more, or as it was.
LEMMA Extended ==
  ASSUME ProbeInv, model.state = "Capturing",
         NEW ready \in BOOLEAN, NEW n, NEW levels, NEW samples,
         n = capture.blocks + (IF ready THEN 1 ELSE 0),
         levels = IF ready THEN Append(capture.levels, starts) ELSE capture.levels,
         samples = IF ready THEN Stored(pcm, capture.blocks, starts) ELSE pcm
  PROVE  /\ n \in Nat /\ levels \in Seq(Nat) /\ samples \in Seq(Nat)
         /\ Holds(samples, n, levels) /\ ResultHeld(pcmTest, results, samples, n)
<1>1. /\ capture.blocks \in Nat /\ capture.levels \in Seq(Nat) /\ pcm \in Seq(Nat) /\ starts \in Nat
      /\ Holds(pcm, capture.blocks, capture.levels) /\ ResultHeld(pcmTest, results, pcm, capture.blocks)
  BY DEF ProbeInv, ProbeTypes
<1>2. CASE ~ready
  BY <1>1, <1>2
<1>3. CASE ready
  <2>1. PICK old \in Nat, before \in Seq(Nat) : old = capture.blocks /\ before = capture.levels
    BY <1>1
  <2>2. n = old + 1 /\ levels = Append(before, starts) /\ samples = Stored(pcm, old, starts)
    BY <1>3, <2>1
  <2>3. old <= Len(pcm) /\ Len(before) = old /\ \A i \in 1 .. old : pcm[i] = before[i]
    BY <1>1, <2>1 DEF Holds
  <2>4. /\ samples \in Seq(Nat) /\ old + 1 <= Len(samples) /\ samples[old + 1] = starts
        /\ \A i \in 1 .. old : samples[i] = pcm[i]
    <3>1. PICK buffer \in Seq(Nat), block \in Nat : buffer = pcm /\ block = starts
      BY <1>1
    <3>2. old <= Len(buffer) /\ samples = Stored(buffer, old, block)
      BY <2>2, <2>3, <3>1
    <3>3. PICK stored : stored = Stored(buffer, old, block)
      OBVIOUS
    <3>4. old <= Len(buffer)
      BY <3>2
    <3>5. BlockMore(stored, buffer, old, block)
      BY <3>3, <3>4, Copied
    <3>6. stored = samples
      BY <3>2, <3>3
    <3> QED
      BY <3>1, <3>5, <3>6 DEF BlockMore
  <2>5. /\ levels \in Seq(Nat) /\ Len(levels) = old + 1 /\ levels[old + 1] = starts
        /\ \A i \in 1 .. old : levels[i] = before[i]
    <3>1. PICK block \in Nat : block = starts /\ levels = Append(before, block)
      BY <1>1, <2>2
    <3>2. PICK grown : grown = Append(before, block)
      OBVIOUS
    <3>3. /\ grown \in Seq(Nat) /\ Len(grown) = Len(before) + 1 /\ grown[Len(before) + 1] = block
          /\ \A i \in 1 .. Len(before) : grown[i] = before[i]
      BY <3>2, AppendProperties
    <3>4. levels = grown
      BY <3>1, <3>2
    <3> QED
      BY <2>3, <3>1, <3>3, <3>4
  <2>6. \A i \in 1 .. n : i \in 1 .. old \/ i = old + 1
    BY <2>2
  <2>7. Holds(samples, n, levels)
    BY <2>2, <2>3, <2>4, <2>5, <2>6 DEF Holds
  <2>8. ResultHeld(pcmTest, results, samples, n)
    <3> SUFFICES ASSUME pcmTest # NoTest PROVE ResultHeld(pcmTest, results, samples, n)
      BY DEF ResultHeld
    <3>1. PICK held \in Nat, shown \in Seq(Nat) : held = results[pcmTest].blocks /\ shown = results[pcmTest].levels
      BY DEF ProbeInv, ProbeTypes
    <3>2. Holds(pcm, held, shown) /\ held <= old
      BY <1>1, <2>1, <3>1 DEF ResultHeld
    <3>3. \A i \in 1 .. held : i \in 1 .. old
      BY <3>2
    <3>4. held <= Len(samples) /\ held <= n
      <4>1. Len(samples) \in Nat
        BY <2>4
      <4> QED
        BY <2>2, <2>4, <3>2, <4>1
    <3>5. Holds(samples, held, shown)
      BY <2>4, <3>2, <3>3, <3>4 DEF Holds
    <3> QED
      BY <3>1, <3>4, <3>5 DEF ResultHeld
  <2>9. n \in Nat
    BY <2>2
  <2> QED
    BY <2>4, <2>5, <2>7, <2>8, <2>9
<1> QED
  BY <1>2, <1>3

\* A capture ends with what it holds.
LEMMA Ends ==
  ASSUME ProbeInv, ~WavBusy, NEW n \in Nat, NEW levels \in Seq(Nat), NEW samples \in Seq(Nat),
         Holds(samples, n, levels), CompleteCapture(n, levels, samples), UNCHANGED <<storage, starts>>
  PROVE  ProbeInv'
<1>1. /\ model' = [model EXCEPT !.state = "Result"] /\ pcm' = samples
      /\ capture' = [blocks |-> n, pending |-> FALSE, levels |-> levels]
      /\ FinalizeCaptureResult(n, levels)
  BY DEF CompleteCapture
<1>2. model' \in [state : UiStates, test : Tests]
  <2>1. [model EXCEPT !.state = "Result"] \in [state : UiStates, test : Tests]
    BY DEF ProbeInv, ProbeTypes, UiStates
  <2> QED
    BY <1>1, <2>1
<1>3. n <= n
  OBVIOUS
<1>4. /\ results' \in [Tests -> [available : BOOLEAN, blocks : Nat, levels : Seq(Nat)]]
      /\ pcmTest' \in Tests /\ ResultHeld(pcmTest', results', samples, n)
  BY <1>1, <1>3, Finalized
<1>5. capture'.blocks = n /\ capture'.levels = levels
      /\ capture' \in [blocks : Nat, pending : BOOLEAN, levels : Seq(Nat)]
  BY <1>1
<1>6. ProbeTypes'
  BY <1>1, <1>2, <1>4, <1>5 DEF ProbeInv, ProbeTypes
<1> QED
  BY <1>1, <1>4, <1>5, <1>6, AtRest DEF WavBusy

LEMMA Captures == ProbeInv /\ ServiceAudioCapture => ProbeInv'
<1> SUFFICES ASSUME ProbeInv, ServiceAudioCapture PROVE ProbeInv'
  OBVIOUS
<1>1. PICK ready \in BOOLEAN : ready = (capture.pending /\ ~probeMic.recording)
  OBVIOUS
<1>2. PICK n, levels, samples :
        /\ n = capture.blocks + (IF ready THEN 1 ELSE 0)
        /\ levels = IF ready THEN Append(capture.levels, starts) ELSE capture.levels
        /\ samples = IF ready THEN Stored(pcm, capture.blocks, starts) ELSE pcm
  OBVIOUS
<1>3. UNCHANGED <<storage, starts>>
  BY DEF ServiceAudioCapture
<1>4. CASE UNCHANGED <<model, probeMic, capture, pcm, results, pcmTest>>
  BY <1>3, <1>4 DEF ProbeInv, ProbeTypes, StorageInv, WavBusy
<1>5. CASE model.state = "Capturing"
  <2>1. ~WavBusy
    BY <1>5 DEF ProbeInv, StorageInv
  <2>2. /\ n \in Nat /\ levels \in Seq(Nat) /\ samples \in Seq(Nat)
        /\ Holds(samples, n, levels) /\ ResultHeld(pcmTest, results, samples, n)
    BY <1>2, <1>5, Extended
  <2>3. CASE CompleteCapture(n, levels, samples)
    BY <1>3, <2>1, <2>2, <2>3, Ends
  <2>4. CASE CompleteCapture(capture.blocks, capture.levels, pcm)
    <3>1. PICK m \in Nat, shown \in Seq(Nat), buffer \in Seq(Nat) :
            m = capture.blocks /\ shown = capture.levels /\ buffer = pcm
      BY DEF ProbeInv, ProbeTypes
    <3>2. Holds(buffer, m, shown)
      BY <3>1 DEF ProbeInv
    <3> QED
      BY <1>3, <2>1, <2>4, <3>1, <3>2, Ends
  <2>5. CASE /\ capture' = [blocks |-> n, pending |-> TRUE, levels |-> levels]
             /\ pcm' = samples /\ UNCHANGED <<model, results, pcmTest>>
    <3>1. capture'.blocks = n /\ capture'.levels = levels
          /\ capture' \in [blocks : Nat, pending : BOOLEAN, levels : Seq(Nat)]
      BY <2>2, <2>5
    <3>2. ProbeTypes'
      BY <1>3, <2>2, <2>5, <3>1 DEF ProbeInv, ProbeTypes
    <3> QED
      BY <1>3, <2>1, <2>2, <2>5, <3>1, <3>2, AtRest DEF WavBusy
  <2>6. \/ UNCHANGED <<model, probeMic, capture, pcm, results, pcmTest>>
        \/ CompleteCapture(n, levels, samples)
        \/ CompleteCapture(capture.blocks, capture.levels, pcm)
        \/ /\ capture' = [blocks |-> n, pending |-> TRUE, levels |-> levels]
           /\ pcm' = samples /\ UNCHANGED <<model, results, pcmTest>>
    BY <1>1, <1>2, <1>5 DEF ServiceAudioCapture
  <2> QED
    BY <1>4, <2>3, <2>4, <2>5, <2>6
<1>6. CASE model.state # "Capturing"
  <2>1. UNCHANGED <<model, probeMic, capture, pcm, results, pcmTest>>
    BY <1>6 DEF ServiceAudioCapture
  <2> QED
    BY <1>4, <2>1
<1> QED
  BY <1>5, <1>6

\* The file is written from the buffer, chunk by chunk.
LEMMA Writes == ProbeInv /\ ServiceStorage => ProbeInv'
<1> SUFFICES ASSUME ProbeInv, ServiceStorage PROVE ProbeInv'
  OBVIOUS
<1>1. UNCHANGED <<model, capture, pcm, results, pcmTest, starts>>
      /\ storage \in [state : WavStates, blocks : Nat, file : Seq(Nat)]
  BY DEF ServiceStorage, ProbeInv, ProbeTypes
<1>2. ASSUME storage' \in [state : WavStates, blocks : Nat, file : Seq(Nat)], StorageInv'
      PROVE  ProbeInv'
  <2>1. ProbeTypes'
    BY <1>1, <1>2 DEF ProbeInv, ProbeTypes
  <2> QED
    BY <1>1, <1>2, <2>1 DEF ProbeInv
<1>3. CASE \E state \in {"Failed", "Complete"} : storage' = [storage EXCEPT !.state = state]
  <2>1. PICK state \in {"Failed", "Complete"} : storage' = [storage EXCEPT !.state = state]
    BY <1>3
  <2>2. [storage EXCEPT !.state = state] \in [state : WavStates, blocks : Nat, file : Seq(Nat)]
        /\ [storage EXCEPT !.state = state].state = state
    BY <1>1 DEF WavStates
  <2>3. StorageInv'
    BY <2>1, <2>2 DEF StorageInv, WavBusy
  <2> QED
    BY <1>2, <2>1, <2>2, <2>3
<1>4. CASE UNCHANGED storage
  BY <1>1, <1>2, <1>4 DEF ProbeInv, StorageInv, WavBusy
<1>5. CASE /\ storage.state = "Requested"
           /\ pcmTest = model.test /\ results[model.test].available
           /\ results[model.test].blocks # 0
           /\ storage' = [state |-> "Data", blocks |-> results[model.test].blocks, file |-> <<>>]
  <2>1. PICK n \in Nat : n = results[pcmTest].blocks /\ n # 0 /\ pcmTest # NoTest
    BY <1>5, ProbeConstants DEF ProbeInv, ProbeTypes
  <2>2. storage' = [state |-> "Data", blocks |-> n, file |-> <<>>] /\ <<>> \in Seq(Nat) /\ Len(<<>>) = 0
    BY <1>5, <2>1
  <2>3. storage' \in [state : WavStates, blocks : Nat, file : Seq(Nat)]
    BY <2>2 DEF WavStates
  <2>4. model.state \notin {"Capturing", "StopConfirm"}
    BY <1>5 DEF ProbeInv, StorageInv, WavBusy
  <2>5. StorageInv'
    BY <1>1, <2>1, <2>2, <2>4 DEF StorageInv, FileHeld
  <2> QED
    BY <1>2, <2>3, <2>5
<1>6. CASE /\ storage.state = "Data"
           /\ LET file == Append(storage.file, pcm[Len(storage.file) + 1])
              IN storage' = [storage EXCEPT !.file = file, !.state =
                               IF Len(file) < storage.blocks THEN "Data" ELSE "Verify"]
  <2>1. PICK n \in Nat, old \in Seq(Nat), buffer \in Seq(Nat), m \in Nat :
          n = storage.blocks /\ old = storage.file /\ buffer = pcm /\ m = Len(old)
    BY <1>1 DEF ProbeInv, ProbeTypes
  <2>2. /\ pcmTest # NoTest /\ n = results[pcmTest].blocks /\ m < n
        /\ \A i \in 1 .. m : old[i] = buffer[i]
        /\ model.state \notin {"Capturing", "StopConfirm"}
    BY <1>6, <2>1 DEF ProbeInv, StorageInv, FileHeld, WavBusy
  <2>3. n <= Len(buffer)
    BY <2>1, <2>2 DEF ProbeInv, ResultHeld, Holds
  <2>4. m + 1 \in 1 .. Len(buffer)
    BY <2>2, <2>3, LenProperties
  <2>5. PICK block \in Nat : block = buffer[m + 1]
    BY <2>4, ElementOfSeq
  <2>6. PICK file \in Seq(Nat) : file = Append(old, block) /\ Len(file) = m + 1
                                 /\ file[m + 1] = block /\ \A i \in 1 .. m : file[i] = old[i]
    <3>1. PICK file : file = Append(old, block)
      OBVIOUS
    <3>2. /\ file \in Seq(Nat) /\ Len(file) = Len(old) + 1 /\ file[Len(old) + 1] = block
          /\ \A i \in 1 .. Len(old) : file[i] = old[i]
      BY <3>1, AppendProperties
    <3> QED
      BY <2>1, <3>1, <3>2
  <2>7. PICK state \in {"Data", "Verify"} : state = IF m + 1 < n THEN "Data" ELSE "Verify"
    OBVIOUS
  <2>8. storage' = [storage EXCEPT !.file = file, !.state = state]
    BY <1>6, <2>1, <2>5, <2>6, <2>7
  <2>9. [storage EXCEPT !.file = file, !.state = state] \in [state : WavStates, blocks : Nat, file : Seq(Nat)]
    BY <1>1 DEF WavStates
  <2>10. storage'.file = file /\ storage'.state = state /\ storage'.blocks = n
    BY <1>1, <2>1, <2>8
  <2>11. FileHeld(file, n, buffer)
    <3>1. \A i \in 1 .. Len(file) : i \in 1 .. m \/ i = m + 1
      BY <2>6
    <3>2. Len(file) <= n
      BY <2>2, <2>6
    <3> QED
      BY <2>2, <2>5, <2>6, <3>1, <3>2 DEF FileHeld
  <2>12. state = "Data" <=> Len(file) < n
    BY <2>6, <2>7
  <2>13. StorageInv'
    BY <1>1, <2>1, <2>2, <2>10, <2>11, <2>12 DEF StorageInv
  <2> QED
    BY <1>2, <2>8, <2>9, <2>13
<1> QED
  BY <1>3, <1>4, <1>5, <1>6 DEF ServiceStorage

LEMMA ProbeStep == ProbeInv /\ [ProbeNext]_probeVars => ProbeInv'
<1> SUFFICES ASSUME ProbeInv, [ProbeNext]_probeVars PROVE ProbeInv'
  OBVIOUS
<1>1. CASE \E event, test : ApplyEvent(event, test)
  BY <1>1, Applied
<1>2. CASE ServiceAudioCapture
  BY <1>2, Captures
<1>3. CASE ServiceStorage
  BY <1>3, Writes
<1>4. CASE UNCHANGED <<model, capture, pcm, results, pcmTest, storage, starts>>
  BY <1>4 DEF ProbeInv, ProbeTypes, StorageInv, WavBusy
<1> QED
  BY <1>1, <1>2, <1>3, <1>4 DEF ProbeNext, ServiceTouch, ExecuteCommand, TouchReset, SerialEmpty, BlockRecorded,
     probeVars

\* A file that is complete (serviceStorage) holds the blocks whose levels the result showed, whatever is
\* tapped and commanded while it is written, for any number of tests and any size of the buffer.
THEOREM FileIsCapture == ProbeSpec => []FileIsTheCapture
<1>1. ProbeInv => FileIsTheCapture
  <2> SUFFICES ASSUME ProbeInv, storage.state = "Verify"
               PROVE  pcmTest \in Tests /\ results[pcmTest].levels = storage.file
    BY DEF FileIsTheCapture
  <2>1. /\ pcmTest \in Tests /\ storage.blocks = results[pcmTest].blocks
        /\ FileHeld(storage.file, storage.blocks, pcm) /\ ~(Len(storage.file) < storage.blocks)
    BY DEF ProbeInv, ProbeTypes, StorageInv
  <2>2. PICK n \in Nat, levels \in Seq(Nat), file \in Seq(Nat), m \in Nat :
          n = storage.blocks /\ levels = results[pcmTest].levels /\ file = storage.file /\ m = Len(file)
    BY <2>1 DEF ProbeInv, ProbeTypes
  <2>3. m = n /\ \A i \in 1 .. m : file[i] = pcm[i]
    BY <2>1, <2>2 DEF FileHeld
  <2>4. Len(levels) = n /\ \A i \in 1 .. n : pcm[i] = levels[i]
    BY <2>1, <2>2, ProbeConstants DEF ProbeInv, ResultHeld, Holds
  <2>5. levels = file
    <3>1. Len(levels) = Len(file) /\ \A i \in 1 .. Len(levels) : levels[i] = file[i]
      BY <2>2, <2>3, <2>4
    <3> QED
      BY <3>1, SeqEqual
  <2> QED
    BY <2>1, <2>2, <2>5
<1> QED
  BY <1>1, ProbeStarts, ProbeStep, PTL DEF ProbeSpec

-----------------------------------------------------------------------------
(***************************************************************************)
(* The first prototype.  Whatever the unit has to say, has said or was taken *)
(* from it is of the group last asked for.                                 *)
(***************************************************************************)

Marks == {"sync", "kb1", "kb2", "echo", "noise", "length", "counter", "end",
          "ident", "ack", "header", "body", "refused"}
Bytes == [is : Marks, n : Int]
Phases == {"off", "woken", "key?", "send", "acked?", "listen"}
Units == [phase : Phases, out : Seq(Bytes), ident : Int, header : Int]
TesterStates == {"IDLE", "LINE_IDLE_WAIT", "SEND_5BAUD", "WAIT_SYNC", "SEND_INVERTED", "RECEIVE", "ERROR"}
Kept == [of : Int, from : Int]
Testers == [state : TesterStates, since : Int, lastAttempt : Int, lastTx : Int, keys : Int,
            counter : Int, identFinished : BOOLEAN, expected : Int, block : Seq(Bytes),
            echo : BOOLEAN, group : Int, awaitingBody : BOOLEAN, needsAck : BOOLEAN,
            awaitingSwitchAck : BOOLEAN, headers : SUBSET Kept]

ProtoTypes == /\ clock \in Nat /\ now \in Nat /\ linked \in BOOLEAN
              /\ tester \in Testers /\ rx \in Seq(Bytes) /\ ecu \in Units

\* A header or a body among the bytes is of the group g.
Says(b, g) == b.is \in {"header", "body"} => b.n = g
Answering(q, g) == \A i \in DOMAIN q : Says(q[i], g)
\* Neither a header, nor a body, nor the end of a block.
Silent(b) == b.is \notin {"header", "body", "end"}
Quiet(q) == \A i \in DOMAIN q : Silent(q[i])
Has(q, is) == \E i \in DOMAIN q : q[i].is = is
EndIsLast(q) == \A i \in DOMAIN q : q[i].is = "end" => i = Len(q)

\* A unit that has yet to greet or be answered has nothing to send, and a block ends with its end.
Orderly(e) ==
  /\ EndIsLast(e.out) /\ ~Has(e.out, "sync")
  /\ e.phase \in {"woken", "key?"} => e.out = <<>>

\* The unit of this attempt has greeted, and waits for a byte.
Greeted(t, q) ==
  \/ t.state = "WAIT_SYNC" /\ (t.keys # 0 \/ Has(q, "sync"))
  \/ t.state = "SEND_INVERTED"

\* While the tester waits for a greeting no block is on the line once the unit was woken, and a unit that
\* has greeted has no old block left.
Waking(t, q, e) ==
  /\ t.state = "WAIT_SYNC" /\ e.phase \in {"woken", "key?"} => Quiet(q)
  /\ Greeted(t, q) => e.phase \in {"key?", "woken", "off"} /\ Quiet(q) /\ e.out = <<>>

\* In a session whatever the unit has to say, has said or was taken is of the group last asked for, and
\* once the end of its block is on the line it has nothing more to say.
Talking(t, q, e) ==
  t.state = "RECEIVE" =>
    /\ Answering(q, t.group) /\ Answering(e.out, t.group) /\ Answering(t.block, t.group)
    /\ Has(q, "end") => e.out = <<>>
    /\ e.phase \in {"woken", "key?"} => Quiet(q)

OwnHeaders(t) == \A h \in t.headers : h.from = h.of

Tied(t, q, e) == Orderly(e) /\ Waking(t, q, e) /\ Talking(t, q, e) /\ OwnHeaders(t)

ProtoInv == ProtoTypes /\ Tied(tester, rx, ecu) /\ DecodedAsAnswered

-----------------------------------------------------------------------------
\* What becomes of a queue of bytes.
Grown(q, b, r) ==
  /\ \A g : Answering(q, g) /\ Says(b, g) => Answering(r, g)
  /\ Quiet(q) /\ Silent(b) => Quiet(r)
  /\ \A is : Has(r, is) => Has(q, is) \/ b.is = is

Shortened(q, b, r) ==
  /\ \A g : Answering(q, g) => Answering(r, g) /\ Says(b, g)
  /\ Quiet(q) => Quiet(r) /\ Silent(b)
  /\ \A is : Has(r, is) \/ b.is = is => Has(q, is)
  /\ EndIsLast(q) => EndIsLast(r) /\ (b.is = "end" => r = <<>>)

LEMMA Growing ==
  ASSUME NEW q \in Seq(Bytes), NEW b \in Bytes, NEW r, r = Append(q, b)
  PROVE  r \in Seq(Bytes) /\ Grown(q, b, r)
<1>1. PICK n \in Nat : n = Len(q)
  OBVIOUS
<1>2. /\ r \in Seq(Bytes) /\ Len(r) = n + 1 /\ r[n + 1] = b
      /\ \A i \in 1 .. n : r[i] = q[i]
  BY <1>1, AppendProperties
<1>3. DOMAIN q = 1 .. n /\ DOMAIN r = 1 .. n + 1 /\ \A i \in 1 .. n + 1 : i \in 1 .. n \/ i = n + 1
  BY <1>1, <1>2
<1>4. ASSUME NEW g, Answering(q, g), Says(b, g) PROVE Answering(r, g)
  BY <1>2, <1>3, <1>4 DEF Answering
<1>5. Quiet(q) /\ Silent(b) => Quiet(r)
  BY <1>2, <1>3 DEF Quiet
<1>6. ASSUME NEW is, Has(r, is) PROVE Has(q, is) \/ b.is = is
  BY <1>2, <1>3, <1>6 DEF Has
<1> QED
  BY <1>2, <1>4, <1>5, <1>6 DEF Grown

LEMMA Shortening ==
  ASSUME NEW q \in Seq(Bytes), q # <<>>, NEW r, r = Tail(q)
  PROVE  r \in Seq(Bytes) /\ Head(q) \in Bytes /\ Shortened(q, Head(q), r)
<1>1. PICK n \in Nat : n = Len(q)
  OBVIOUS
<1>2. /\ r \in Seq(Bytes) /\ Head(q) \in Bytes /\ Head(q) = q[1] /\ n # 0 /\ Len(r) = n - 1
      /\ \A i \in 1 .. n - 1 : r[i] = q[i + 1]
  BY <1>1, HeadTailProperties
<1>3. PICK b \in Bytes : b = Head(q) /\ b = q[1]
  BY <1>2
<1>4. /\ DOMAIN q = 1 .. n /\ DOMAIN r = 1 .. n - 1 /\ 1 \in 1 .. n
      /\ \A i \in 1 .. n - 1 : i + 1 \in 1 .. n
  BY <1>1, <1>2
<1>5. ASSUME NEW g, Answering(q, g) PROVE Answering(r, g) /\ Says(b, g)
  BY <1>2, <1>3, <1>4, <1>5 DEF Answering
<1>6. Quiet(q) => Quiet(r) /\ Silent(b)
  BY <1>2, <1>3, <1>4 DEF Quiet
<1>7. ASSUME NEW is, Has(r, is) \/ b.is = is PROVE Has(q, is)
  BY <1>2, <1>3, <1>4, <1>7 DEF Has
<1>8. ASSUME EndIsLast(q) PROVE EndIsLast(r) /\ (b.is = "end" => r = <<>>)
  <2>1. EndIsLast(r)
    BY <1>1, <1>2, <1>4, <1>8 DEF EndIsLast
  <2>2. b.is = "end" => n = 1
    BY <1>1, <1>3, <1>4, <1>8 DEF EndIsLast
  <2>3. n = 1 => r = <<>>
    BY <1>2, EmptySeq
  <2> QED
    BY <2>1, <2>2, <2>3
<1> QED
  BY <1>2, <1>3, <1>5, <1>6, <1>7, <1>8 DEF Shortened

LEMMA Nothing ==
  /\ <<>> \in Seq(Bytes) /\ Quiet(<<>>) /\ EndIsLast(<<>>)
  /\ \A g : Answering(<<>>, g)
  /\ \A is : ~Has(<<>>, is)
BY DEF Quiet, EndIsLast, Answering, Has

LEMMA QuietSays ==
  ASSUME NEW q, Quiet(q)
  PROVE  ~Has(q, "end") /\ \A g : Answering(q, g)
BY DEF Quiet, Silent, Has, Answering, Says

\* A block of the unit.
LEMMA UnitBlocks ==
  ASSUME NEW counter \in Int, NEW title \in Marks \ {"sync", "end"}, NEW group \in Int,
         NEW q, q = Block(counter, title, group)
  PROVE  /\ q \in Seq(Bytes) /\ EndIsLast(q) /\ ~Has(q, "sync") /\ Answering(q, group)
         /\ title \notin {"header", "body"} => \A g : Answering(q, g)
<1>1. PICK a, b, c, d : /\ a = [is |-> "length", n |-> 0] /\ b = [is |-> "counter", n |-> counter]
                        /\ c = [is |-> title, n |-> group] /\ d = [is |-> "end", n |-> 0]
  OBVIOUS
<1>2. {a, b, c, d} \subseteq Bytes
  BY <1>1 DEF Bytes, Marks
<1>3. q = <<a, b, c, d>>
  BY <1>1 DEF Block
<1>4. /\ q \in Seq(Bytes) /\ Len(q) = 4 /\ DOMAIN q = 1 .. 4
      /\ q[1] = a /\ q[2] = b /\ q[3] = c /\ q[4] = d
  BY <1>2, <1>3
<1>5. /\ a.is = "length" /\ b.is = "counter" /\ c.is = title /\ c.n = group /\ d.is = "end"
  BY <1>1
<1>6. \A i \in DOMAIN q : i = 1 \/ i = 2 \/ i = 3 \/ i = 4
  BY <1>4
<1>7. EndIsLast(q) /\ ~Has(q, "sync")
  BY <1>4, <1>5, <1>6 DEF EndIsLast, Has
<1>8. Answering(q, group) /\ (title \notin {"header", "body"} => \A g : Answering(q, g))
  BY <1>4, <1>5, <1>6 DEF Answering, Says
<1> QED
  BY <1>4, <1>7, <1>8

LEMMA ProtoConstants ==
  /\ LastGroup \in Nat \ {0} /\ CounterModulus \in Nat \ {0} /\ ClockModulus \in Nat \ {0}
BY ProtoAssumption

\* The bytes of the model are bytes.
LEMMA NamedBytes ==
  /\ Sync \in Bytes /\ Key1 \in Bytes /\ Key2 \in Bytes /\ Echo \in Bytes /\ Noise \in Bytes
  /\ Silent(Sync) /\ Silent(Key1) /\ Silent(Key2) /\ Silent(Echo) /\ Silent(Noise)
  /\ Echo.is = "echo" /\ Noise.is = "noise"
  /\ \A g : Says(Echo, g) /\ Says(Noise, g)
BY DEF Sync, Key1, Key2, Echo, Noise, Bytes, Marks, Silent, Says

\* A session begins without headers and with group 0.
LEMMA FreshTester ==
  ASSUME NEW t \in Testers, NEW v, v = Fresh(t)
  PROVE  /\ v \in Testers /\ v.state = t.state /\ v.keys = t.keys
         /\ v.headers = {} /\ v.block = <<>> /\ v.group = 0
<1>1. /\ -1 \in Int /\ <<>> \in Seq(Bytes) /\ {} \in SUBSET Kept
      /\ {TRUE, FALSE} \subseteq BOOLEAN /\ 0 \in Int
  OBVIOUS
<1>2. [t EXCEPT !.identFinished = FALSE, !.expected = -1, !.block = <<>>, !.echo = FALSE,
                !.group = 0, !.awaitingBody = FALSE, !.needsAck = FALSE,
                !.awaitingSwitchAck = FALSE, !.headers = {}] \in Testers
  BY <1>1 DEF Testers
<1>3. v \in Testers
  BY <1>2 DEF Fresh
<1> QED
  BY <1>3 DEF Fresh, Testers

LEMMA KeysFit == ASSUME NEW t \in Testers, NEW keys \in Int PROVE [t EXCEPT !.keys = keys] \in Testers
BY DEF Testers

\* What an error or a new start leaves.
LEMMA Entering ==
  ASSUME NEW t \in Testers, clock \in Nat, NEW state \in TesterStates, NEW s, s = Enter(t, state)
  PROVE  /\ s \in Testers /\ s.state = state
         /\ s.headers \in {t.headers, {}}
         /\ state \notin {"IDLE", "ERROR"} =>
              s.keys = t.keys /\ s.group = t.group /\ s.block = t.block /\ s.headers = t.headers
<1>1. PICK u : u = [t EXCEPT !.state = state, !.since = clock]
  OBVIOUS
<1>2. /\ u \in Testers /\ u.state = state /\ u.keys = t.keys /\ u.group = t.group
      /\ u.block = t.block /\ u.headers = t.headers
  <2>0. clock \in Int
    OBVIOUS
  <2>1. [t EXCEPT !.state = state, !.since = clock] \in Testers
    BY <2>0 DEF Testers
  <2> QED
    BY <1>1, <2>1 DEF Testers
<1>3. CASE state \in {"IDLE", "ERROR"}
  <2>1. PICK v : v = Fresh(u)
    OBVIOUS
  <2>2. v \in Testers /\ v.state = state /\ v.headers = {}
    BY <1>2, <2>1, FreshTester
  <2>3. s = [v EXCEPT !.keys = 0, !.counter = 0]
    BY <1>1, <1>3, <2>1 DEF Enter
  <2>4. [v EXCEPT !.keys = 0, !.counter = 0] \in Testers
    <3>1. v \in Testers /\ 0 \in Int
      BY <2>2
    <3> QED
      BY <3>1 DEF Testers
  <2>5. s \in Testers /\ s.state = state /\ s.headers = {}
    BY <2>2, <2>3, <2>4 DEF Testers
  <2> QED
    BY <1>3, <2>5
<1>4. CASE state \notin {"IDLE", "ERROR"}
  <2>1. s = u
    BY <1>1, <1>4 DEF Enter
  <2> QED
    BY <1>2, <2>1
<1> QED
  BY <1>3, <1>4

\* Outside an attempt and a session nothing is asked of the line.
LEMMA Apart ==
  ASSUME NEW t, NEW q, NEW e, Orderly(e), OwnHeaders(t),
         t.state \notin {"WAIT_SYNC", "SEND_INVERTED", "RECEIVE"}
  PROVE  Tied(t, q, e)
BY DEF Tied, Waking, Greeted, Talking

\* A byte written changes the unit only if it waits for one.
LEMMA Writing ==
  ASSUME NEW e \in Units, Orderly(e), NEW d, d = Written(e)
  PROVE  /\ d \in Units /\ Orderly(d)
         /\ d.out = e.out \/ (e.out = <<>> /\ \A g : Answering(d.out, g))
         /\ d.out # e.out => e.phase = "key?"
         /\ d.phase \in {"woken", "key?"} => d.phase = e.phase
<1>1. CASE e.phase = "acked?"
  <2>1. d = [e EXCEPT !.phase = "send"]
    BY <1>1 DEF Written
  <2>2. d \in Units /\ d.out = e.out /\ d.phase = "send"
    BY <2>1 DEF Units, Phases
  <2> QED
    BY <2>2 DEF Orderly
<1>2. CASE e.phase = "key?"
  <2>1. PICK q : q = Block(0, "ident", 0)
    OBVIOUS
  <2>2. /\ q \in Seq(Bytes) /\ EndIsLast(q) /\ ~Has(q, "sync")
        /\ \A g : Answering(q, g)
    BY <2>1, UnitBlocks DEF Marks
  <2>3. d = [e EXCEPT !.phase = "send", !.out = q, !.ident = e.ident - 1]
    BY <1>2, <2>1 DEF Written
  <2>4. d \in Units /\ d.out = q /\ d.phase = "send"
    <3>1. e.ident - 1 \in Int /\ "send" \in Phases
      BY DEF Units, Phases
    <3>2. [e EXCEPT !.phase = "send", !.out = q, !.ident = e.ident - 1] \in Units
      BY <2>2, <3>1 DEF Units
    <3> QED
      BY <2>3, <3>2 DEF Units
  <2> QED
    BY <1>2, <2>2, <2>4 DEF Orderly
<1>3. CASE e.phase \notin {"acked?", "key?"}
  BY <1>3 DEF Written
<1> QED
  BY <1>1, <1>2, <1>3

\* Write(q), whatever q is.
LEMMA WriteKeepsTypes ==
  ASSUME ProtoTypes, Orderly(ecu), NEW q \in Seq(Bytes), Write(q)
  PROVE  /\ rx' \in Seq(Bytes) /\ ecu' \in Units /\ Orderly(ecu')
         /\ rx' = q \/ Grown(q, Echo, rx')
         /\ ecu'.out = ecu.out \/ (ecu.out = <<>> /\ \A g : Answering(ecu'.out, g))
         /\ ecu'.out # ecu.out => ecu.phase = "key?"
         /\ ecu'.phase \in {"woken", "key?"} => ecu'.phase = ecu.phase
<1>1. CASE linked
  <2>1. rx' = Append(q, Echo) /\ ecu' = Written(ecu)
    BY <1>1 DEF Write
  <2>2. rx' \in Seq(Bytes) /\ Grown(q, Echo, rx')
    BY <2>1, NamedBytes, Growing
  <2> QED
    BY <2>1, <2>2, Writing DEF ProtoTypes
<1>2. CASE ~linked
  BY <1>2 DEF Write, ProtoTypes
<1> QED
  BY <1>1, <1>2

\* In a session a byte taken or written leaves things as they are.
LEMMA StillTalking ==
  ASSUME NEW t, NEW u, NEW p, NEW q, NEW d, NEW e,
         Tied(t, p, d), t.state = "RECEIVE",
         u.state = "RECEIVE", u.group = t.group, u.headers = t.headers,
         Orderly(e), Answering(u.block, t.group),
         Answering(q, t.group), Has(q, "end") => Has(p, "end"), Quiet(p) => Quiet(q),
         e.out = d.out \/ (d.out = <<>> /\ \A g : Answering(e.out, g)),
         e.out # d.out => d.phase = "key?",
         e.phase \in {"woken", "key?"} => e.phase = d.phase
  PROVE  Tied(u, q, e)
<1>1. Waking(u, q, e)
  BY DEF Waking, Greeted
<1>2. OwnHeaders(u)
  BY DEF Tied, OwnHeaders
<1>3. Answering(e.out, t.group)
  BY DEF Tied, Talking
<1>4. Has(q, "end") => e.out = <<>>
  <2>1. e.out # d.out => ~Has(q, "end")
    BY QuietSays DEF Tied, Talking
  <2> QED
    BY <2>1 DEF Tied, Talking
<1>5. e.phase \in {"woken", "key?"} => Quiet(q)
  BY DEF Tied, Talking
<1>6. Talking(u, q, e)
  BY <1>3, <1>4, <1>5 DEF Talking
<1> QED
  BY <1>1, <1>2, <1>6 DEF Tied

-----------------------------------------------------------------------------
LEMMA ProtoStarts == ProtoInit => ProtoInv
<1> SUFFICES ASSUME ProtoInit PROVE ProtoInv
  OBVIOUS
<1>1. PICK t : t = [state |-> "IDLE", since |-> 1, lastAttempt |-> 0, lastTx |-> 0,
                    keys |-> 0, counter |-> 0, identFinished |-> FALSE,
                    expected |-> -1, block |-> <<>>, echo |-> FALSE, group |-> 0,
                    awaitingBody |-> FALSE, needsAck |-> FALSE,
                    awaitingSwitchAck |-> FALSE, headers |-> {}]
  OBVIOUS
<1>2. t \in Testers /\ t.state = "IDLE"
  <2>1. /\ -1 \in Int /\ <<>> \in Seq(Bytes) /\ {} \in SUBSET Kept /\ "IDLE" \in TesterStates
        /\ FALSE \in BOOLEAN /\ 0 \in Int /\ 1 \in Int
    BY DEF TesterStates
  <2> QED
    BY <1>1, <2>1 DEF Testers
<1>3. tester = Fresh(t)
  BY <1>1 DEF ProtoInit
<1>4. tester \in Testers /\ tester.state = "IDLE" /\ tester.headers = {}
  BY <1>2, <1>3, FreshTester
<1>5. ecu \in Units /\ ecu.out = <<>>
  <2>1. ecu = [phase |-> "off", out |-> <<>>, ident |-> 1, header |-> 0]
    BY DEF ProtoInit
  <2> QED
    BY <2>1 DEF Units, Phases
<1>6. Orderly(ecu) /\ OwnHeaders(tester)
  BY <1>4, <1>5, Nothing DEF Orderly, OwnHeaders
<1>7. Tied(tester, rx, ecu)
  BY <1>4, <1>6, Apart
<1>8. ProtoTypes
  BY <1>4, <1>5 DEF ProtoInit, ProtoTypes
<1>9. DecodedAsAnswered
  BY DEF ProtoInit, DecodedAsAnswered
<1> QED
  BY <1>7, <1>8, <1>9 DEF ProtoInv

LEMMA Sent ==
  ASSUME ProtoInv, EcuSends
  PROVE  ProtoTypes' /\ Tied(tester', rx', ecu')
<1>1. PICK q \in Seq(Bytes), out \in Seq(Bytes) : q = rx /\ out = ecu.out /\ out # <<>>
  BY DEF EcuSends, ProtoInv, ProtoTypes, Units
<1>2. PICK b, r, left : b = Head(out) /\ r = Append(q, b) /\ left = Tail(out)
  OBVIOUS
<1>3. b \in Bytes /\ left \in Seq(Bytes) /\ Shortened(out, b, left)
  BY <1>1, <1>2, Shortening
<1>4. r \in Seq(Bytes) /\ Grown(q, b, r)
  BY <1>2, <1>3, Growing
<1>5. PICK phase \in {"listen", "acked?"} :
        ecu' = [ecu EXCEPT !.out = left, !.phase = phase]
  BY <1>1, <1>2 DEF EcuSends
<1>6. ecu' \in Units /\ ecu'.out = left /\ ecu'.phase = phase
  <2>1. [ecu EXCEPT !.out = left, !.phase = phase] \in Units
    BY <1>3 DEF ProtoInv, ProtoTypes, Units, Phases
  <2> QED
    BY <1>5, <2>1 DEF ProtoInv, ProtoTypes, Units
<1>7. rx' = r /\ tester' = tester /\ UNCHANGED <<clock, now, linked>> /\ ecu.phase = "send"
  BY <1>1, <1>2 DEF EcuSends
<1>8. Orderly(ecu) /\ Waking(tester, q, ecu) /\ Talking(tester, q, ecu) /\ OwnHeaders(tester)
  BY <1>1 DEF ProtoInv, Tied
<1>9. Orderly(ecu')
  BY <1>1, <1>3, <1>6, <1>8 DEF Orderly, Shortened
<1>10. b.is # "sync" /\ ~Greeted(tester, q)
  BY <1>1, <1>3, <1>7, <1>8 DEF Orderly, Waking, Shortened
<1>11. ~Greeted(tester, r)
  BY <1>4, <1>10 DEF Greeted, Grown
<1>12. Waking(tester, r, ecu')
  BY <1>6, <1>11 DEF Waking
<1>13. Talking(tester, r, ecu')
  <2> SUFFICES ASSUME tester.state = "RECEIVE" PROVE Talking(tester, r, ecu')
    BY DEF Talking
  <2>1. Answering(q, tester.group) /\ Answering(out, tester.group)
        /\ Answering(tester.block, tester.group) /\ ~Has(q, "end") /\ EndIsLast(out)
    BY <1>1, <1>8 DEF Talking, Orderly
  <2>2. Answering(r, tester.group) /\ Answering(left, tester.group)
    BY <1>3, <1>4, <2>1 DEF Grown, Shortened
  <2>3. Has(r, "end") => left = <<>>
    BY <1>3, <1>4, <2>1 DEF Grown, Shortened
  <2> QED
    BY <1>6, <2>1, <2>2, <2>3 DEF Talking
<1> QED
  BY <1>4, <1>6, <1>7, <1>8, <1>9, <1>12, <1>13 DEF Tied, ProtoInv, ProtoTypes

LEMMA Greets ==
  ASSUME ProtoInv, EcuGreets
  PROVE  ProtoTypes' /\ Tied(tester', rx', ecu')
<1>1. PICK q \in Seq(Bytes) : q = rx
  BY DEF ProtoInv, ProtoTypes
<1>2. PICK r, s, u : r = Append(q, Sync) /\ s = Append(r, Key1) /\ u = Append(s, Key2)
  OBVIOUS
<1>3. r \in Seq(Bytes) /\ Grown(q, Sync, r)
  BY <1>2, Growing, NamedBytes
<1>4. s \in Seq(Bytes) /\ Grown(r, Key1, s)
  BY <1>2, <1>3, Growing, NamedBytes
<1>5. u \in Seq(Bytes) /\ Grown(s, Key2, u)
  BY <1>2, <1>4, Growing, NamedBytes
<1>6. rx' = u
  <2>1. rx' = q \o <<Sync, Key1, Key2>>
    BY <1>1 DEF EcuGreets
  <2>2. q \o <<Sync, Key1, Key2>> = Append(Append(Append(q, Sync), Key1), Key2)
    BY NamedBytes
  <2> QED
    BY <1>2, <2>1, <2>2
<1>7. /\ ecu' = [ecu EXCEPT !.phase = "key?"] /\ ecu.phase = "woken"
      /\ tester' = tester /\ UNCHANGED <<clock, now, linked>>
  BY DEF EcuGreets
<1>8. ecu' \in Units /\ ecu'.out = ecu.out /\ ecu'.phase = "key?"
  <2>1. [ecu EXCEPT !.phase = "key?"] \in Units
    BY DEF ProtoInv, ProtoTypes, Units, Phases
  <2> QED
    BY <1>7, <2>1 DEF ProtoInv, ProtoTypes, Units
<1>9. Orderly(ecu) /\ Waking(tester, q, ecu) /\ Talking(tester, q, ecu) /\ OwnHeaders(tester)
  BY <1>1 DEF ProtoInv, Tied
<1>10. ecu.out = <<>> /\ Orderly(ecu')
  BY <1>7, <1>8, <1>9 DEF Orderly
<1>11. Quiet(q) => Quiet(u)
  BY <1>3, <1>4, <1>5, NamedBytes DEF Grown
<1>12. Greeted(tester, q) => Quiet(q)
  BY <1>9 DEF Waking
<1>13. Waking(tester, u, ecu')
  BY <1>7, <1>8, <1>9, <1>10, <1>11, <1>12 DEF Waking, Greeted
<1>14. Talking(tester, u, ecu')
  <2> SUFFICES ASSUME tester.state = "RECEIVE" PROVE Talking(tester, u, ecu')
    BY DEF Talking
  <2>1. Quiet(u) /\ Answering(tester.block, tester.group)
    BY <1>7, <1>9, <1>11 DEF Talking
  <2> QED
    BY <1>8, <1>10, <2>1, QuietSays, Nothing DEF Talking
<1> QED
  BY <1>5, <1>6, <1>7, <1>8, <1>9, <1>10, <1>13, <1>14 DEF Tied, ProtoInv, ProtoTypes

\* Less on the line, noise on it, or a unit that goes off.
LEMMA Disturbing ==
  ASSUME NEW t, NEW q \in Seq(Bytes), NEW e \in Units, Tied(t, q, e)
  PROVE  /\ Tied(t, Append(q, Noise), e)
         /\ q # <<>> => Tied(t, Tail(q), e)
         /\ Tied(t, q, [e EXCEPT !.phase = "off"])
         /\ Tied(t, <<>>, e)
<1>1. PICK r, s, d : r = Append(q, Noise) /\ s = Tail(q) /\ d = [e EXCEPT !.phase = "off"]
  OBVIOUS
<1>2. Grown(q, Noise, r) /\ (q # <<>> => Shortened(q, Head(q), s))
  BY <1>1, Growing, Shortening, NamedBytes
<1>3. d.phase = "off" /\ d.out = e.out
  BY <1>1 DEF Units
<1>4. Tied(t, r, e)
  BY <1>2, NamedBytes DEF Tied, Waking, Greeted, Talking, Grown
<1>5. q # <<>> => Tied(t, s, e)
  BY <1>2 DEF Tied, Waking, Greeted, Talking, Shortened
<1>6. Tied(t, q, d)
  BY <1>3 DEF Tied, Orderly, Waking, Greeted, Talking
<1>7. Tied(t, <<>>, e)
  BY Nothing DEF Tied, Waking, Greeted, Talking
<1> QED
  BY <1>1, <1>4, <1>5, <1>6, <1>7

LEMMA Disturbed ==
  ASSUME ProtoInv, Disturb
  PROVE  ProtoTypes' /\ Tied(tester', rx', ecu')
<1>1. tester' = tester /\ UNCHANGED <<clock, now>> /\ linked' \in BOOLEAN
  BY DEF Disturb, ProtoInv, ProtoTypes
<1>2. \/ rx' = Append(rx, Noise) /\ ecu' = ecu
      \/ rx # <<>> /\ rx' = Tail(rx) /\ ecu' = ecu
      \/ rx' = rx /\ ecu' = [ecu EXCEPT !.phase = "off"]
      \/ rx' = <<>> /\ ecu' = ecu
  BY DEF Disturb
<1>3. rx \in Seq(Bytes) /\ ecu \in Units /\ Tied(tester, rx, ecu)
  BY DEF ProtoInv, ProtoTypes
<1>4. Tied(tester, rx', ecu')
  <2>1. /\ Tied(tester, Append(rx, Noise), ecu)
        /\ rx # <<>> => Tied(tester, Tail(rx), ecu)
        /\ Tied(tester, rx, [ecu EXCEPT !.phase = "off"])
        /\ Tied(tester, <<>>, ecu)
    BY <1>3, Disturbing
  <2> QED
    BY <1>2, <2>1
<1>5. rx' \in Seq(Bytes)
  BY <1>2, <1>3, NamedBytes, Growing, Shortening, Nothing
<1>6. ecu' \in Units
  BY <1>2, <1>3 DEF Units, Phases
<1> QED
  BY <1>1, <1>4, <1>5, <1>6 DEF ProtoInv, ProtoTypes

-----------------------------------------------------------------------------
\* A pass in IDLE, LINE_IDLE_WAIT, ERROR, or one that ends in an error: the tester stays apart.
LEMMA Resting ==
  ASSUME ProtoInv, NEW t \in Testers, NEW state \in {"IDLE", "ERROR", "LINE_IDLE_WAIT", "SEND_5BAUD"},
         OwnHeaders(t), tester' = Enter(t, state), rx' \in Seq(Bytes), ecu' = ecu,
         UNCHANGED <<clock, now, linked>>
  PROVE  ProtoTypes' /\ Tied(tester', rx', ecu')
<1>1. PICK s : s = Enter(t, state)
  OBVIOUS
<1>2. clock \in Nat /\ state \in TesterStates /\ Orderly(ecu)
  BY DEF ProtoInv, ProtoTypes, TesterStates, Tied
<1>3. s \in Testers /\ s.state = state /\ s.headers \in {t.headers, {}}
  BY <1>1, <1>2, Entering
<1>4. OwnHeaders(s)
  BY <1>3 DEF OwnHeaders
<1>5. Tied(s, rx', ecu)
  BY <1>2, <1>3, <1>4, Apart
<1> QED
  BY <1>1, <1>3, <1>5 DEF ProtoInv, ProtoTypes

LEMMA PassTied ==
  ASSUME ProtoInv, Pass
  PROVE  ProtoTypes' /\ Tied(tester', rx', ecu')
<1>0. /\ tester \in Testers /\ rx \in Seq(Bytes) /\ ecu \in Units /\ clock \in Nat /\ now \in Nat
      /\ Orderly(ecu) /\ OwnHeaders(tester) /\ Tied(tester, rx, ecu)
  BY DEF ProtoInv, ProtoTypes, Tied
<1>1. UNCHANGED <<clock, now, linked>>
  BY DEF Pass
<1>2. CASE UNCHANGED <<tester, rx, ecu>>
  BY <1>0, <1>1, <1>2 DEF ProtoInv, ProtoTypes
<1>3. CASE Idle /\ ~UNCHANGED <<tester, rx>>
  <2>1. PICK t : t = [tester EXCEPT !.lastAttempt = now]
    OBVIOUS
  <2>2. t \in Testers /\ t.headers = tester.headers
    <3>1. now \in Int
      BY <1>0
    <3>2. [tester EXCEPT !.lastAttempt = now] \in Testers
      BY <1>0, <3>1 DEF Testers
    <3> QED
      BY <1>0, <2>1, <3>2 DEF Testers
  <2>3. tester' = Enter(t, "LINE_IDLE_WAIT") /\ rx' = rx /\ ecu' = ecu
    BY <1>3, <2>1 DEF Idle, EnterState
  <2>4. OwnHeaders(t)
    BY <1>0, <2>2 DEF OwnHeaders
  <2> QED
    BY <1>0, <1>1, <2>2, <2>3, <2>4, Resting
<1>4. CASE LineIdleWait /\ ~UNCHANGED <<tester, rx>>
  <2>1. tester' = Enter(tester, "SEND_5BAUD") /\ rx' = rx /\ ecu' = ecu
    BY <1>4 DEF LineIdleWait, EnterState
  <2> QED
    BY <1>0, <1>1, <2>1, Resting
<1>5. CASE Error /\ ~UNCHANGED <<tester, rx>>
  <2>1. tester' = Enter(tester, "IDLE") /\ rx' = <<>> /\ ecu' = ecu
    BY <1>5 DEF Error, EnterState
  <2> QED
    BY <1>0, <1>1, <2>1, Resting
<1>6. CASE Send5Baud
  <2>1. PICK t : t = [tester EXCEPT !.keys = 0]
    OBVIOUS
  <2>2. t \in Testers /\ t.headers = tester.headers /\ t.keys = 0
    <3>1. [tester EXCEPT !.keys = 0] \in Testers
      BY <1>0, KeysFit
    <3> QED
      BY <1>0, <2>1, <3>1 DEF Testers
  <2>3. PICK s : s = Enter(t, "WAIT_SYNC")
    OBVIOUS
  <2>4. s \in Testers /\ s.state = "WAIT_SYNC" /\ s.keys = 0 /\ s.headers = tester.headers
    <3>1. "WAIT_SYNC" \in TesterStates /\ "WAIT_SYNC" \notin {"IDLE", "ERROR"}
      BY DEF TesterStates
    <3> QED
      BY <1>0, <2>2, <2>3, <3>1, Entering
  <2>5. tester' = s /\ rx' = <<>>
    BY <1>6, <2>1, <2>3 DEF Send5Baud
  <2>6. ecu' \in Units /\ Orderly(ecu')
    <3>1. PICK phase \in Phases : phase = IF linked THEN "woken" ELSE ecu.phase
      BY <1>0 DEF Units, Phases
    <3>2. PICK e : e = [phase |-> phase, out |-> <<>>, ident |-> 2, header |-> 0]
      OBVIOUS
    <3>3. e \in Units /\ e.out = <<>>
      BY <3>2, Nothing DEF Units
    <3>4. Orderly(e)
      BY <3>3, Nothing DEF Orderly
    <3>5. ecu' \in {ecu, e}
      BY <1>6, <3>1, <3>2 DEF Send5Baud
    <3> QED
      BY <1>0, <3>3, <3>4, <3>5
  <2>7. ~Greeted(s, <<>>) /\ OwnHeaders(s)
    BY <1>0, <2>4, Nothing DEF Greeted, OwnHeaders
  <2>8. Tied(s, <<>>, ecu')
    BY <2>4, <2>6, <2>7, Nothing DEF Tied, Waking, Talking
  <2> QED
    BY <1>0, <1>1, <2>4, <2>5, <2>6, <2>8 DEF ProtoInv, ProtoTypes
<1>7. CASE SendInvertedKeyword
  <2>1. PICK f, t : f = Fresh(tester) /\ t = [f EXCEPT !.counter = 0, !.lastTx = clock]
    OBVIOUS
  <2>2. f \in Testers /\ f.headers = {} /\ f.block = <<>> /\ f.group = 0
    BY <1>0, <2>1, FreshTester
  <2>3. t \in Testers /\ t.headers = {} /\ t.block = <<>> /\ t.group = 0
    <3>1. clock \in Int /\ 0 \in Int
      BY <1>0
    <3>2. [f EXCEPT !.counter = 0, !.lastTx = clock] \in Testers
      BY <2>2, <3>1 DEF Testers
    <3> QED
      BY <2>1, <2>2, <3>2 DEF Testers
  <2>4. PICK s : s = Enter(t, "RECEIVE")
    OBVIOUS
  <2>5. s \in Testers /\ s.state = "RECEIVE" /\ s.headers = {} /\ s.block = <<>> /\ s.group = 0
    <3>1. "RECEIVE" \in TesterStates /\ "RECEIVE" \notin {"IDLE", "ERROR"}
      BY DEF TesterStates
    <3> QED
      BY <1>0, <2>3, <2>4, <3>1, Entering
  <2>6. tester' = s /\ Write(rx) /\ tester.state = "SEND_INVERTED"
    BY <1>7, <2>1, <2>4 DEF SendInvertedKeyword
  <2>7. /\ rx' \in Seq(Bytes) /\ ecu' \in Units /\ Orderly(ecu')
        /\ rx' = rx \/ Grown(rx, Echo, rx')
        /\ ecu'.out = ecu.out \/ (ecu.out = <<>> /\ \A g : Answering(ecu'.out, g))
    BY <1>0, <2>6, WriteKeepsTypes DEF ProtoInv
  <2>8. Quiet(rx) /\ ecu.out = <<>>
    BY <1>0, <2>6 DEF Tied, Waking, Greeted
  <2>9. Quiet(rx') /\ \A g : Answering(ecu'.out, g)
    BY <2>7, <2>8, NamedBytes, Nothing DEF Grown
  <2>10. Talking(s, rx', ecu')
    BY <2>5, <2>9, QuietSays, Nothing DEF Talking
  <2>11. Waking(s, rx', ecu') /\ OwnHeaders(s)
    BY <2>5 DEF Waking, Greeted, OwnHeaders
  <2> QED
    BY <1>0, <1>1, <2>5, <2>6, <2>7, <2>10, <2>11 DEF Tied, ProtoInv, ProtoTypes
<1> QED
  BY <1>2, <1>3, <1>4, <1>5, <1>6, <1>7 DEF Pass, Idle, LineIdleWait, Error

\* What is taken while the greeting is awaited.
LEMMA KeyByteTied ==
  ASSUME ProtoInv, KeyByte
  PROVE  ProtoTypes' /\ Tied(tester', rx', ecu')
<1>0. /\ tester \in Testers /\ rx \in Seq(Bytes) /\ rx # <<>> /\ ecu \in Units /\ clock \in Nat
      /\ tester.state = "WAIT_SYNC" /\ Tied(tester, rx, ecu)
      /\ UNCHANGED <<clock, now, linked, ecu>>
  BY DEF ProtoInv, ProtoTypes, KeyByte
<1>1. PICK r, b : r = Tail(rx) /\ b = Head(rx)
  OBVIOUS
<1>2. r \in Seq(Bytes) /\ b \in Bytes /\ Shortened(rx, b, r)
  BY <1>0, <1>1, Shortening
<1>3. ASSUME NEW keys \in {0, 1, 2}, tester' = [tester EXCEPT !.keys = keys], rx' = r,
             keys = 0 \/ tester.keys # 0 \/ b.is = "sync"
      PROVE  tester' \in Testers /\ Tied(tester', r, ecu)
  <2>1. [tester EXCEPT !.keys = keys] \in Testers
    BY <1>0, KeysFit
  <2>2. tester' \in Testers /\ tester'.state = "WAIT_SYNC" /\ tester'.keys = keys
        /\ tester'.headers = tester.headers
    BY <1>0, <1>3, <2>1 DEF Testers
  <2>3. Greeted(tester', r) => Greeted(tester, rx)
    BY <1>0, <1>2, <1>3, <2>2 DEF Greeted, Shortened
  <2>4. Quiet(rx) => Quiet(r)
    BY <1>2 DEF Shortened
  <2>5. Waking(tester', r, ecu) /\ Talking(tester', r, ecu) /\ OwnHeaders(tester') /\ Orderly(ecu)
    BY <1>0, <2>2, <2>3, <2>4 DEF Tied, Waking, Talking, OwnHeaders
  <2> QED
    BY <2>2, <2>5 DEF Tied
<1>4. CASE tester.keys = 0
  <2>1. PICK keys \in {0, 1, 2} : keys = IF b = Sync THEN 1 ELSE 0
    OBVIOUS
  <2>2. tester' = [tester EXCEPT !.keys = keys] /\ rx' = r
    BY <1>1, <1>4, <2>1 DEF KeyByte
  <2>3. keys = 0 \/ b.is = "sync"
    BY <2>1 DEF Sync
  <2> QED
    BY <1>0, <1>2, <1>3, <2>2, <2>3 DEF ProtoInv, ProtoTypes
<1>5. CASE tester.keys = 1
  <2>1. tester' = [tester EXCEPT !.keys = 2] /\ rx' = r
    BY <1>1, <1>5 DEF KeyByte
  <2> QED
    BY <1>0, <1>2, <1>3, <1>5, <2>1 DEF ProtoInv, ProtoTypes
<1>6. CASE tester.keys \notin {0, 1}
  <2>1. PICK t : t = [tester EXCEPT !.keys = 3]
    OBVIOUS
  <2>2. t \in Testers /\ t.headers = tester.headers
    <3>1. [tester EXCEPT !.keys = 3] \in Testers
      BY <1>0, KeysFit
    <3> QED
      BY <1>0, <2>1, <3>1 DEF Testers
  <2>3. PICK s : s = Enter(t, "SEND_INVERTED")
    OBVIOUS
  <2>4. s \in Testers /\ s.state = "SEND_INVERTED" /\ s.headers = tester.headers
    <3>1. "SEND_INVERTED" \in TesterStates /\ "SEND_INVERTED" \notin {"IDLE", "ERROR"}
      BY DEF TesterStates
    <3> QED
      BY <1>0, <2>2, <2>3, <3>1, Entering
  <2>5. tester' = s /\ rx' = <<>>
    BY <1>6, <2>1, <2>3 DEF KeyByte
  <2>6. ecu.phase \in {"key?", "woken", "off"} /\ ecu.out = <<>> /\ Orderly(ecu) /\ OwnHeaders(tester)
    BY <1>0, <1>6 DEF Tied, Waking, Greeted
  <2>7. Tied(s, <<>>, ecu)
    BY <2>4, <2>6, Nothing DEF Tied, Waking, Talking, OwnHeaders
  <2> QED
    BY <1>0, <2>4, <2>5, <2>7 DEF ProtoInv, ProtoTypes
<1> QED
  BY <1>4, <1>5, <1>6

\* The two timeouts.
LEMMA TimeoutTied ==
  ASSUME ProtoInv, KeyTimeout \/ SessionTimeoutCheck
  PROVE  ProtoTypes' /\ Tied(tester', rx', ecu')
<1>1. \/ UNCHANGED <<tester, rx>>
      \/ tester' = Enter(tester, "ERROR") /\ rx' = <<>>
  BY DEF KeyTimeout, SessionTimeoutCheck, EnterState
<1>2. UNCHANGED <<clock, now, linked, ecu>>
  BY DEF KeyTimeout, SessionTimeoutCheck
<1>3. tester \in Testers /\ OwnHeaders(tester) /\ <<>> \in Seq(Bytes)
  BY DEF ProtoInv, ProtoTypes, Tied
<1>4. CASE UNCHANGED <<tester, rx>>
  BY <1>2, <1>4 DEF ProtoInv, ProtoTypes
<1>5. CASE tester' = Enter(tester, "ERROR") /\ rx' = <<>>
  BY <1>2, <1>3, <1>5, Resting
<1> QED
  BY <1>1, <1>4, <1>5

-----------------------------------------------------------------------------
\* A byte taken for an echo or thrown away.
LEMMA Dropped ==
  ASSUME ProtoInv, tester.state = "RECEIVE", rx # <<>>, NEW t \in Testers,
         t.state = "RECEIVE", t.group = tester.group, t.headers = tester.headers,
         t.block \in {tester.block, <<>>}
  PROVE  Tail(rx) \in Seq(Bytes) /\ Tied(t, Tail(rx), ecu)
<1>1. PICK r, b : r = Tail(rx) /\ b = Head(rx)
  OBVIOUS
<1>2. r \in Seq(Bytes) /\ b \in Bytes /\ Shortened(rx, b, r)
  BY <1>1, Shortening DEF ProtoInv, ProtoTypes
<1>3. /\ Tied(tester, rx, ecu) /\ Orderly(ecu) /\ Answering(rx, t.group)
      /\ Answering(tester.block, t.group)
  BY DEF ProtoInv, Tied, Talking
<1>4. /\ Answering(r, t.group) /\ (Has(r, "end") => Has(rx, "end")) /\ (Quiet(rx) => Quiet(r))
      /\ Answering(t.block, t.group)
  BY <1>2, <1>3, Nothing DEF Shortened
<1>5. Tied(t, r, ecu)
  BY <1>3, <1>4, StillTalking
<1> QED
  BY <1>1, <1>2, <1>5

\* A byte taken and answered by its complement.
LEMMA Taken ==
  ASSUME ProtoInv, tester.state = "RECEIVE", rx # <<>>, NEW t \in Testers,
         t.state = "RECEIVE", t.group = tester.group, t.headers = tester.headers,
         Answering(t.block, tester.group), Write(Tail(rx))
  PROVE  rx' \in Seq(Bytes) /\ ecu' \in Units /\ Tied(t, rx', ecu')
<1>1. PICK r, b : r = Tail(rx) /\ b = Head(rx)
  OBVIOUS
<1>2. r \in Seq(Bytes) /\ b \in Bytes /\ Shortened(rx, b, r)
  BY <1>1, Shortening DEF ProtoInv, ProtoTypes
<1>3. Tied(tester, rx, ecu) /\ Orderly(ecu) /\ Answering(rx, tester.group) /\ Write(r)
  BY <1>1 DEF ProtoInv, Tied, Talking
<1>4. /\ rx' \in Seq(Bytes) /\ ecu' \in Units /\ Orderly(ecu')
      /\ rx' = r \/ Grown(r, Echo, rx')
      /\ ecu'.out = ecu.out \/ (ecu.out = <<>> /\ \A g : Answering(ecu'.out, g))
      /\ ecu'.out # ecu.out => ecu.phase = "key?"
      /\ ecu'.phase \in {"woken", "key?"} => ecu'.phase = ecu.phase
  BY <1>2, <1>3, WriteKeepsTypes DEF ProtoInv
<1>5. Answering(r, tester.group) /\ (Has(r, "end") => Has(rx, "end")) /\ (Quiet(rx) => Quiet(r))
  BY <1>2, <1>3 DEF Shortened
<1>6. Answering(rx', tester.group) /\ (Has(rx', "end") => Has(rx, "end")) /\ (Quiet(rx) => Quiet(rx'))
  BY <1>4, <1>5, NamedBytes DEF Grown
<1>7. Tied(t, rx', ecu')
  BY <1>3, <1>4, <1>6, StillTalking
<1> QED
  BY <1>4, <1>7

LEMMA TakenByteTied ==
  ASSUME ProtoInv, TakeByte
  PROVE  ProtoTypes' /\ Tied(tester', rx', ecu')
<1>0. /\ tester \in Testers /\ rx \in Seq(Bytes) /\ rx # <<>> /\ ecu \in Units /\ clock \in Nat
      /\ tester.state = "RECEIVE" /\ Tied(tester, rx, ecu) /\ UNCHANGED <<clock, now, linked>>
  BY DEF ProtoInv, ProtoTypes, TakeByte
<1>1. PICK b : b = Head(rx)
  OBVIOUS
<1>2. b \in Bytes /\ Shortened(rx, b, Tail(rx))
  BY <1>0, <1>1, Shortening
<1>3. Says(b, tester.group) /\ Answering(tester.block, tester.group)
  BY <1>0, <1>2 DEF Tied, Talking, Shortened
<1>4. PICK time \in Int : time = clock
  BY <1>0
<1>5. ASSUME NEW t, tester' = t, t \in Testers, t.state = "RECEIVE", t.group = tester.group,
             t.headers = tester.headers, Answering(t.block, tester.group), Write(Tail(rx))
      PROVE  ProtoTypes' /\ Tied(tester', rx', ecu')
  BY <1>0, <1>5, Taken DEF ProtoInv, ProtoTypes
<1>6. ASSUME NEW t, tester' = t, t \in Testers, t.state = "RECEIVE", t.group = tester.group,
             t.headers = tester.headers, t.block = tester.block, rx' = Tail(rx), ecu' = ecu
      PROVE  ProtoTypes' /\ Tied(tester', rx', ecu')
  BY <1>0, <1>6, Dropped DEF ProtoInv, ProtoTypes
<1>7. ASSUME NEW block \in Seq(Bytes), Answering(block, tester.group),
             tester' = [tester EXCEPT !.block = block, !.echo = TRUE, !.lastTx = time],
             Write(Tail(rx))
      PROVE  ProtoTypes' /\ Tied(tester', rx', ecu')
  <2>1. [tester EXCEPT !.block = block, !.echo = TRUE, !.lastTx = time] \in Testers
    BY <1>0, <1>4, <1>7 DEF Testers
  <2>2. /\ tester' \in Testers /\ tester'.state = "RECEIVE" /\ tester'.group = tester.group
        /\ tester'.headers = tester.headers /\ tester'.block = block
    BY <1>0, <1>7, <2>1 DEF Testers
  <2> QED
    BY <1>5, <1>7, <2>2
<1>8. CASE LengthByte
  <2>1. \/ Write(Tail(rx)) /\ tester' = [tester EXCEPT !.lastTx = time]
        \/ Write(Tail(rx)) /\ tester' = [tester EXCEPT !.block = <<b>>, !.echo = TRUE, !.lastTx = time]
        \/ rx' = Tail(rx) /\ UNCHANGED <<tester, ecu>>
    BY <1>1, <1>4, <1>8 DEF LengthByte
  <2>2. CASE Write(Tail(rx)) /\ tester' = [tester EXCEPT !.lastTx = time]
    <3>1. [tester EXCEPT !.lastTx = time] \in Testers
      BY <1>0, <1>4 DEF Testers
    <3>2. /\ tester' \in Testers /\ tester'.state = "RECEIVE" /\ tester'.group = tester.group
          /\ tester'.headers = tester.headers /\ tester'.block = tester.block
      BY <1>0, <2>2, <3>1 DEF Testers
    <3> QED
      BY <1>3, <1>5, <2>2, <3>2
  <2>3. CASE Write(Tail(rx)) /\ tester' = [tester EXCEPT !.block = <<b>>, !.echo = TRUE, !.lastTx = time]
    <3>1. <<b>> \in Seq(Bytes) /\ Answering(<<b>>, tester.group)
      BY <1>2, <1>3 DEF Answering
    <3> QED
      BY <1>7, <2>3, <3>1
  <2>4. CASE rx' = Tail(rx) /\ UNCHANGED <<tester, ecu>>
    BY <1>0, <1>6, <2>4
  <2> QED
    BY <2>1, <2>2, <2>3, <2>4
<1>9. CASE DataByte
  <2>1. CASE tester.echo
    <3>1. tester' = [tester EXCEPT !.echo = FALSE] /\ rx' = Tail(rx) /\ ecu' = ecu
      BY <1>9, <2>1 DEF DataByte
    <3>2. [tester EXCEPT !.echo = FALSE] \in Testers
      BY <1>0 DEF Testers
    <3>3. /\ tester' \in Testers /\ tester'.state = "RECEIVE" /\ tester'.group = tester.group
          /\ tester'.headers = tester.headers /\ tester'.block = tester.block
      BY <1>0, <3>1, <3>2 DEF Testers
    <3> QED
      BY <1>6, <3>1, <3>3
  <2>2. CASE ~tester.echo
    <3>1. PICK block : block = Append(tester.block, b)
      OBVIOUS
    <3>2. tester.block \in Seq(Bytes)
      BY <1>0 DEF Testers
    <3>3. block \in Seq(Bytes) /\ Grown(tester.block, b, block)
      BY <1>2, <3>1, <3>2, Growing
    <3>4. Answering(block, tester.group)
      BY <1>3, <3>3 DEF Grown
    <3>5. /\ tester' = [tester EXCEPT !.block = block, !.echo = TRUE, !.lastTx = time]
          /\ Write(Tail(rx))
      BY <1>1, <1>4, <1>9, <2>2, <3>1 DEF DataByte
    <3> QED
      BY <1>7, <3>3, <3>4, <3>5
  <2> QED
    BY <2>1, <2>2
<1> QED
  BY <1>8, <1>9 DEF TakeByte

-----------------------------------------------------------------------------
\* What parsing, following and asking keep of the tester.
SameTalk(t, u) ==
  u.state = t.state /\ u.block = t.block /\ u.headers = t.headers

LEMMA Parsing ==
  ASSUME NEW t \in Testers, NEW title \in Bytes, NEW u, u = Parse(t, title),
         OwnHeaders(t), Says(title, t.group)
  PROVE  /\ u \in Testers /\ OwnHeaders(u)
         /\ u.state = t.state /\ u.block = t.block /\ u.group = t.group
<1>1. CASE title.is = "header" /\ Numbered(t)
  <2>1. PICK h : h = [of |-> t.group, from |-> title.n]
    OBVIOUS
  <2>2. h \in Kept /\ h.from = h.of
    BY <1>1, <2>1 DEF Kept, Testers, Bytes, Says
  <2>3. PICK own : own = {k \in t.headers : k.of # t.group} \cup {h}
    OBVIOUS
  <2>4. own \in SUBSET Kept /\ \A k \in own : k.from = k.of
    BY <2>2, <2>3 DEF Testers, OwnHeaders
  <2>5. u = [t EXCEPT !.headers = own]
    BY <1>1, <2>1, <2>3 DEF Parse
  <2>6. [t EXCEPT !.headers = own] \in Testers
    BY <2>4 DEF Testers
  <2> QED
    BY <2>4, <2>5, <2>6 DEF Testers, OwnHeaders
<1>2. CASE ~(title.is = "header" /\ Numbered(t))
  BY <1>2 DEF Parse
<1> QED
  BY <1>1, <1>2

LEMMA Advancing ==
  ASSUME NEW t \in Testers
  PROVE  Advance(t) \in Testers /\ SameTalk(t, Advance(t))
<1>1. PICK u : u = Advance(t)
  OBVIOUS
<1>2. PICK group \in Int : group = (t.group + 1) % (LastGroup + 1)
  BY ProtoConstants DEF Testers
<1>3. u = [t EXCEPT !.group = group, !.needsAck = TRUE, !.awaitingBody = FALSE]
  BY <1>1, <1>2 DEF Advance
<1>4. [t EXCEPT !.group = group, !.needsAck = TRUE, !.awaitingBody = FALSE] \in Testers
  BY DEF Testers
<1> QED
  BY <1>1, <1>3, <1>4 DEF Testers, SameTalk

LEMMA GroupFits ==
  ASSUME NEW t \in Testers, NEW group \in Int
  PROVE  [t EXCEPT !.group = group, !.needsAck = TRUE] \in Testers
BY DEF Testers

LEMMA Following ==
  ASSUME NEW t \in Testers, NEW title, NEW u, u = Follow(t, title)
  PROVE  u \in Testers /\ SameTalk(t, u)
<1>1. \/ u = [t EXCEPT !.awaitingSwitchAck = FALSE]
      \/ u = [t EXCEPT !.awaitingBody = TRUE]
      \/ u = Advance(t)
      \/ u = [t EXCEPT !.group = 1, !.needsAck = TRUE]
  BY DEF Follow
<1>2. /\ [t EXCEPT !.awaitingSwitchAck = FALSE] \in Testers
      /\ [t EXCEPT !.awaitingBody = TRUE] \in Testers
      /\ [t EXCEPT !.group = 1, !.needsAck = TRUE] \in Testers
  <2>1. [t EXCEPT !.awaitingSwitchAck = FALSE] \in Testers
    BY DEF Testers
  <2>2. [t EXCEPT !.awaitingBody = TRUE] \in Testers
    BY DEF Testers
  <2>3. [t EXCEPT !.group = 1, !.needsAck = TRUE] \in Testers
    <3>1. PICK group \in Int : group = 1
      OBVIOUS
    <3> QED
      BY <3>1, GroupFits
  <2> QED
    BY <2>1, <2>2, <2>3
<1>3. CASE u = Advance(t)
  BY <1>3, Advancing
<1>4. CASE u # Advance(t)
  BY <1>1, <1>2, <1>4 DEF Testers, SameTalk
<1> QED
  BY <1>3, <1>4

LEMMA Requesting ==
  ASSUME NEW t \in Testers, NEW r, r = Requested(t)
  PROVE  r.then \in Testers /\ SameTalk(t, r.then)
<1>1. PICK u, v, w : /\ u = [t EXCEPT !.awaitingBody = FALSE]
                     /\ v = [t EXCEPT !.needsAck = FALSE, !.awaitingBody = FALSE, !.awaitingSwitchAck = TRUE]
                     /\ w = [t EXCEPT !.awaitingBody = TRUE]
  OBVIOUS
<1>2. u \in Testers /\ SameTalk(t, u) /\ u.group = t.group
  <2>1. [t EXCEPT !.awaitingBody = FALSE] \in Testers
    BY DEF Testers
  <2> QED
    BY <1>1, <2>1 DEF Testers, SameTalk
<1>3. v \in Testers /\ SameTalk(t, v)
  <2>1. [t EXCEPT !.needsAck = FALSE, !.awaitingBody = FALSE, !.awaitingSwitchAck = TRUE] \in Testers
    BY DEF Testers
  <2> QED
    BY <1>1, <2>1 DEF Testers, SameTalk
<1>4. w \in Testers /\ SameTalk(t, w)
  <2>1. [t EXCEPT !.awaitingBody = TRUE] \in Testers
    BY DEF Testers
  <2> QED
    BY <1>1, <2>1 DEF Testers, SameTalk
<1>5. \/ t.group = 0 /\ r = [title |-> "group0", then |-> u]
      \/ r = [title |-> "ack", then |-> v]
      \/ r = [title |-> "request", then |-> w]
  BY <1>1 DEF Requested
<1> QED
  BY <1>2, <1>3, <1>4, <1>5

LEMMA Replying ==
  ASSUME NEW t \in Testers, NEW title, NEW r, r = Reply(t, title)
  PROVE  r.then \in Testers /\ SameTalk(t, r.then)
<1>1. CASE t.identFinished
  <2>1. PICK u : u = Follow(t, title)
    OBVIOUS
  <2>2. u \in Testers /\ SameTalk(t, u)
    BY <2>1, Following
  <2>3. r = Requested(u)
    BY <1>1, <2>1 DEF Reply
  <2>4. r.then \in Testers /\ SameTalk(u, r.then)
    BY <2>2, <2>3, Requesting
  <2> QED
    BY <2>2, <2>4 DEF SameTalk
<1>2. CASE ~t.identFinished /\ title.is = "ack"
  <2>1. PICK group \in Int : group = 0
    OBVIOUS
  <2>2. PICK u : u = [t EXCEPT !.identFinished = TRUE, !.group = group]
    OBVIOUS
  <2>3. u \in Testers /\ SameTalk(t, u)
    <3>1. [t EXCEPT !.identFinished = TRUE, !.group = group] \in Testers
      BY DEF Testers
    <3> QED
      BY <2>2, <3>1 DEF Testers, SameTalk
  <2>4. r = Requested(u)
    BY <1>2, <2>1, <2>2 DEF Reply
  <2>5. r.then \in Testers /\ SameTalk(u, r.then)
    BY <2>3, <2>4, Requesting
  <2> QED
    BY <2>3, <2>5 DEF SameTalk
<1>3. CASE ~t.identFinished /\ title.is # "ack"
  <2>1. r.then = t
    BY <1>3 DEF Reply
  <2> QED
    BY <2>1 DEF SameTalk
<1> QED
  BY <1>1, <1>2, <1>3

\* What the unit has to say after it has heard a block of the group.
LEMMA Hearing ==
  ASSUME NEW e \in Units, NEW title, NEW group \in Int, NEW counter \in Int,
         NEW answer \in {"ident", "ack", "body", "header", "refused"}, ecu = e,
         NEW d, d = Heard(title, group, counter, answer)
  PROVE  d \in Units /\ Orderly(d) /\ d.phase = "send" /\ Answering(d.out, group)
<1>1. PICK c \in Int : c = (counter + 1) % CounterModulus
  BY ProtoConstants
<1>2. PICK q : q = Block(c, answer, group)
  OBVIOUS
<1>3. q \in Seq(Bytes) /\ EndIsLast(q) /\ ~Has(q, "sync") /\ Answering(q, group)
  BY <1>2, UnitBlocks DEF Marks
<1>4. PICK ident \in Int, header \in Int :
        /\ ident = IF answer = "ident" THEN e.ident - 1 ELSE e.ident
        /\ header = IF answer = "header" THEN group ELSE 0
  BY DEF Units
<1>5. d = [e EXCEPT !.phase = "send", !.out = q, !.ident = ident, !.header = header]
  BY <1>1, <1>2, <1>4 DEF Heard
<1>6. [e EXCEPT !.phase = "send", !.out = q, !.ident = ident, !.header = header] \in Units
  BY <1>3 DEF Units, Phases
<1>7. d \in Units /\ d.phase = "send" /\ d.out = q
  BY <1>5, <1>6 DEF Units
<1> QED
  BY <1>3, <1>7 DEF Orderly

LEMMA BlockSent ==
  ASSUME ProtoInv, ecu.out = <<>>, NEW t \in Testers, NEW title,
         t.state = "RECEIVE", t.block = <<>>, OwnHeaders(t), SendBlock(t, title)
  PROVE  /\ tester' \in Testers /\ rx' = <<>> /\ ecu' \in Units
         /\ Tied(tester', rx', ecu')
<1>1. PICK c \in Int, time \in Int : c = (t.counter + 1) % CounterModulus /\ time = clock
  <2>1. PICK count \in Int : count = t.counter
    BY DEF Testers
  <2>2. (count + 1) % CounterModulus \in Int
    BY ProtoConstants
  <2>3. clock \in Int
    BY DEF ProtoInv, ProtoTypes
  <2> QED
    BY <2>1, <2>2, <2>3
<1>2. tester' = [t EXCEPT !.counter = c, !.lastTx = time]
  BY <1>1 DEF SendBlock
<1>3. [t EXCEPT !.counter = c, !.lastTx = time] \in Testers
  BY DEF Testers
<1>4. /\ tester' \in Testers /\ tester'.state = "RECEIVE" /\ tester'.block = <<>>
      /\ tester'.group = t.group /\ tester'.headers = t.headers
  BY <1>2, <1>3 DEF Testers
<1>5. ecu' \in Units /\ Orderly(ecu') /\ Answering(ecu'.out, t.group)
  <2>1. CASE ecu' = ecu
    BY <2>1, Nothing DEF ProtoInv, ProtoTypes, Tied
  <2>2. CASE ecu' # ecu
    <3>1. PICK answer \in Answers(title, t.group) : ecu' = Heard(title, t.group, t.counter, answer)
      BY <2>2 DEF SendBlock
    <3>2. answer \in {"ident", "ack", "body", "header", "refused"}
      BY <3>1 DEF Answers
    <3>3. t.group \in Int /\ t.counter \in Int /\ ecu \in Units
      BY DEF Testers, ProtoInv, ProtoTypes
    <3> QED
      BY <3>1, <3>2, <3>3, Hearing
  <2> QED
    BY <2>1, <2>2
<1>6. rx' = <<>>
  BY DEF SendBlock
<1>7. Tied(tester', rx', ecu')
  BY <1>4, <1>5, <1>6, Nothing DEF Tied, Waking, Greeted, Talking, OwnHeaders
<1> QED
  BY <1>4, <1>5, <1>6, <1>7

\* A block that ends is decoded as what it is.
LEMMA Decoding ==
  ASSUME NEW t \in Testers, NEW title, OwnHeaders(t), Says(title, t.group), Decode(t, title),
         DecodedAsAnswered
  PROVE  DecodedAsAnswered'
<1>1. CASE title.is = "body" /\ (t.group = 0 \/ t.awaitingBody)
  <2>1. PICK h \in t.headers \cup {[of |-> 0, from |-> 0]} :
          /\ h.of = t.group
          /\ decoded' = [asked |-> t.group, header |-> h.from, body |-> title.n]
    BY <1>1 DEF Decode
  <2>2. title.n = t.group /\ h.from = h.of
    BY <1>1 DEF Says, OwnHeaders
  <2> QED
    BY <2>1, <2>2 DEF DecodedAsAnswered
<1>2. CASE ~(title.is = "body" /\ (t.group = 0 \/ t.awaitingBody))
  BY <1>2 DEF Decode, DecodedAsAnswered
<1> QED
  BY <1>1, <1>2

LEMMA EndByteTied ==
  ASSUME ProtoInv, EndByte
  PROVE  ProtoTypes' /\ Tied(tester', rx', ecu') /\ DecodedAsAnswered'
<1>0. /\ tester \in Testers /\ rx \in Seq(Bytes) /\ rx # <<>> /\ ecu \in Units
      /\ tester.state = "RECEIVE" /\ Tied(tester, rx, ecu) /\ UNCHANGED <<clock, now, linked>>
      /\ Len(tester.block) = 3 /\ tester.block \in Seq(Bytes) /\ DecodedAsAnswered
  BY DEF ProtoInv, ProtoTypes, EndByte, Testers
<1>1. PICK title, number : title = tester.block[3] /\ number = tester.block[2].n
  OBVIOUS
<1>2. title \in Bytes /\ number \in Int /\ Says(title, tester.group)
  <2>1. 3 \in DOMAIN tester.block /\ 2 \in DOMAIN tester.block
    BY <1>0
  <2>2. tester.block[3] \in Bytes /\ tester.block[2] \in Bytes
    BY <1>0, <2>1
  <2> QED
    BY <1>0, <1>1, <2>1, <2>2 DEF Tied, Talking, Answering, Bytes
<1>3. PICK done : done = [tester EXCEPT !.block = <<>>]
  OBVIOUS
<1>4. /\ done \in Testers /\ done.state = "RECEIVE" /\ done.block = <<>>
      /\ done.group = tester.group /\ done.headers = tester.headers
  <2>1. [tester EXCEPT !.block = <<>>] \in Testers
    BY <1>0, Nothing DEF Testers
  <2> QED
    BY <1>0, <1>3, <2>1 DEF Testers
<1>5. OwnHeaders(tester) /\ OwnHeaders(done)
  BY <1>0, <1>4 DEF Tied, OwnHeaders
<1>6. CASE Head(rx).is # "end"
  <2>1. tester' = done /\ rx' = Tail(rx) /\ UNCHANGED <<ecu, decoded>>
    BY <1>3, <1>6 DEF EndByte
  <2>2. Tail(rx) \in Seq(Bytes) /\ Tied(done, Tail(rx), ecu)
    BY <1>0, <1>4, Dropped
  <2>3. ProtoTypes'
    BY <1>0, <1>4, <2>1, <2>2 DEF ProtoInv, ProtoTypes
  <2> QED
    BY <1>0, <2>1, <2>2, <2>3 DEF DecodedAsAnswered
<1>7. CASE Head(rx).is = "end" /\ ~CounterFits(number)
  <2>1. tester' = Enter(done, "ERROR") /\ rx' = <<>> /\ UNCHANGED <<ecu, decoded>>
    BY <1>1, <1>3, <1>7 DEF EndByte, EnterState
  <2>2. ProtoTypes' /\ Tied(tester', rx', ecu')
    BY <1>0, <1>4, <1>5, <2>1, Resting, Nothing
  <2> QED
    BY <1>0, <2>1, <2>2 DEF DecodedAsAnswered
<1>8. CASE Head(rx).is = "end" /\ CounterFits(number)
  <2>1. PICK next \in Int, counter \in Int :
          next = (number + 2) % CounterModulus /\ counter = (number + 1) % CounterModulus
    <3>1. (number + 2) % CounterModulus \in Int
      BY <1>2, ProtoConstants
    <3>2. (number + 1) % CounterModulus \in Int
      BY <1>2, ProtoConstants
    <3> QED
      BY <3>1, <3>2
  <2>2. PICK s : s = [done EXCEPT !.expected = next, !.counter = counter]
    OBVIOUS
  <2>3. /\ s \in Testers /\ s.state = "RECEIVE" /\ s.block = <<>>
        /\ s.group = tester.group /\ s.headers = tester.headers
    <3>1. [done EXCEPT !.expected = next, !.counter = counter] \in Testers
      BY <1>4 DEF Testers
    <3> QED
      BY <1>4, <2>2, <3>1 DEF Testers
  <2>4. PICK t : t = Parse(s, title)
    OBVIOUS
  <2>5. OwnHeaders(s)
    BY <1>5, <2>3 DEF OwnHeaders
  <2>6. /\ t \in Testers /\ OwnHeaders(t)
        /\ t.state = "RECEIVE" /\ t.block = <<>> /\ t.group = tester.group
    BY <1>2, <2>3, <2>4, <2>5, Parsing
  <2>7. PICK r : r = Reply(t, title)
    OBVIOUS
  <2>8. r.then \in Testers /\ SameTalk(t, r.then)
    BY <2>6, <2>7, Replying
  <2>9. /\ r.then.state = "RECEIVE" /\ r.then.block = <<>> /\ OwnHeaders(r.then)
    BY <2>6, <2>8 DEF SameTalk, OwnHeaders
  <2>10. SendBlock(r.then, r.title) /\ Decode(t, title)
    BY <1>1, <1>3, <1>8, <2>1, <2>2, <2>4, <2>7 DEF EndByte
  <2>11. ecu.out = <<>>
    <3>1. Has(rx, "end")
      BY <1>0, <1>8, Shortening DEF Shortened
    <3> QED
      BY <1>0, <3>1 DEF Tied, Talking
  <2>12. /\ tester' \in Testers /\ rx' = <<>> /\ ecu' \in Units
         /\ Tied(tester', rx', ecu')
    BY <2>8, <2>9, <2>10, <2>11, BlockSent
  <2>13. DecodedAsAnswered'
    BY <1>0, <1>2, <2>6, <2>10, Decoding
  <2>14. ProtoTypes'
    BY <1>0, <2>12, Nothing DEF ProtoInv, ProtoTypes
  <2> QED
    BY <2>12, <2>13, <2>14
<1> QED
  BY <1>6, <1>7, <1>8

LEMMA ProtoStep ==
  ASSUME ProtoInv, [ProtoNext]_protoVars
  PROVE  ProtoInv'
<1>1. CASE EndByte
  BY <1>1, EndByteTied DEF ProtoInv
<1>2. CASE Tick \/ BeginPass \/ UNCHANGED protoVars
  BY <1>2 DEF ProtoInv, ProtoTypes, DecodedAsAnswered, Tick, BeginPass, protoVars
<1>3. CASE ~EndByte /\ ~(Tick \/ BeginPass \/ UNCHANGED protoVars)
  <2>1. \/ Disturb \/ EcuSends \/ EcuGreets \/ Pass \/ KeyByte \/ KeyTimeout
        \/ TakeByte \/ SessionTimeoutCheck
    BY <1>3 DEF ProtoNext
  <2>2. decoded' = decoded /\ DecodedAsAnswered
    BY <2>1 DEF Disturb, EcuSends, EcuGreets, Pass, KeyByte, KeyTimeout, TakeByte,
       SessionTimeoutCheck, ProtoInv
  <2>3. ProtoTypes' /\ Tied(tester', rx', ecu')
    BY <2>1, Disturbed, Sent, Greets, PassTied, KeyByteTied, TakenByteTied, TimeoutTied
  <2> QED
    BY <2>2, <2>3 DEF ProtoInv, DecodedAsAnswered
<1> QED
  BY <1>1, <1>2, <1>3

\* A body is decoded as the group it answers and with the header kept for that group (parseBlock and
\* handleBlock of EcuInitTester), for any number of groups and disturbances, any timeouts and any modulus
\* of the counter and the clock.
THEOREM BodiesAreOwn == ProtoSpec => []DecodedAsAnswered
<1>1. ProtoInv => DecodedAsAnswered
  BY DEF ProtoInv
<1> QED
  BY <1>1, ProtoStarts, ProtoStep, PTL DEF ProtoSpec
==============================================================================
