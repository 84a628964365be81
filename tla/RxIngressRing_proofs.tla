------------------------ MODULE RxIngressRing_proofs ------------------------
(***************************************************************************)
(* Proofs about RxIngressRing for every capacity, every stream of bytes    *)
(* and either order of the two plain stores that publish a byte.           *)
(***************************************************************************)
EXTENDS RxIngressRing, SequenceTheorems, TLAPS

\* The last position that is already published, or passed over as dropped.
LastSeq == IF callbackPc = "store" /\ "head" \in stored THEN nextSeq ELSE nextSeq - 1

Resetting == loopPc \in {"resetTail", "resetEpoch", "resetOpen"}

\* The active flag is up exactly while a batch is being handled, and a batch
\* that is past its checks still has a byte to account for.
BatchInv ==
  /\ producerActive <=> callbackPc # "idle"
  /\ callbackPc \in {"loadState", "loadEpoch", "drop", "check", "poisoned", "store"}
       => left >= 1

\* What a batch read when it began stays true while it publishes: the reset
\* does not reopen the ring under it and does not change its epoch.
SnapshotInv ==
  /\ callbackPc \in {"check", "store"} =>
       batchState = "Open" /\ ringState = "Open" /\ batchEpoch = epoch
  /\ callbackPc = "loadEpoch" /\ batchState = "Open" => ringState = "Open"
  /\ callbackPc = "poisoned" => ringState = "Poisoned"
  /\ callbackPc = "drop" => batchState = "Poisoned"

\* Past its checks the reset runs on a poisoned ring no batch is writing to.
ResetInv ==
  /\ loopPc = "resetRecheck" => ringState = "Poisoned"
  /\ Resetting => ringState = "Poisoned" /\ callbackPc # "poisoned"

\* Publishing extends the current epoch at its end.
LogInv ==
  /\ \A item \in log : item.seq <= LastSeq /\ item.epoch <= epoch
  /\ ringState = "Open" =>
       \A item \in log : item.epoch = epoch =>
         [seq |-> LastSeq, epoch |-> epoch] \in log
  /\ ringState = "Open" /\ batchState = "Poisoned" /\ callbackPc \in {"loadEpoch", "drop"}
       => \A item \in log : item.epoch # epoch
  /\ loopPc = "resetOpen" => \A item \in log : item.epoch # epoch

RoomInv ==
  /\ callbackPc = "store" /\ "head" \notin stored => claim = head /\ Succ(head) # tail
  /\ loopPc \in {"copy", "advance"} => tail # head

CountInv == ringPublished + dropped = nextSeq - 1

IInv ==
  /\ RingTypeOK /\ BatchInv /\ SnapshotInv /\ ResetInv
  /\ LogInv /\ NoHoleInEpoch /\ RoomInv /\ CountInv

-----------------------------------------------------------------------------
\* Succ, the modular increment of the source's indices, stays in the ring and
\* never maps two slots, or a slot and itself, to the same slot.
LEMMA SuccFacts ==
  /\ \A i \in RingIndices : Succ(i) \in RingIndices /\ Succ(i) # i
  /\ \A i, j \in RingIndices : Succ(i) = Succ(j) => i = j
  BY RingCapacityAssumption DEF RingIndices, Succ

\* The ring starts Open and empty.
LEMMA InitInv == RingInit => IInv
<1> SUFFICES ASSUME RingInit PROVE IInv
  OBVIOUS
<1>1. RingTypeOK
  <2>1. slots \in [RingIndices -> Items]
    BY DEF RingInit, Items, Unwritten
  <2>2. 0 \in RingIndices
    BY RingCapacityAssumption DEF RingIndices
  <2>3. got \in Seq(Items)
    BY DEF RingInit
  <2> QED
    BY <2>1, <2>2, <2>3 DEF RingInit, RingTypeOK, RingStates
<1>2. BatchInv /\ SnapshotInv /\ ResetInv /\ RoomInv /\ CountInv
  BY DEF RingInit, BatchInv, SnapshotInv, ResetInv, Resetting, RoomInv, CountInv
<1>3. LogInv /\ NoHoleInEpoch
  BY DEF RingInit, LogInv, NoHoleInEpoch
<1> QED
  BY <1>1, <1>2, <1>3 DEF IInv

\* Every step keeps the types, and the indices inside the slots.
LEMMA TypeStep == RingTypeOK /\ BatchInv /\ [RingNext]_rxRingVars => RingTypeOK'
<1> SUFFICES ASSUME RingTypeOK, BatchInv, [RingNext]_rxRingVars PROVE RingTypeOK'
  OBVIOUS
<1> USE DEF RingTypeOK, ringVars, metricVars, producerVars, consumerVars
<1>1. CASE BeginBatch
  BY <1>1, RingBoundsAssumption DEF BeginBatch
<1>2. CASE LoadRingState
  BY <1>2 DEF LoadRingState
<1>3. CASE LoadRingEpoch
  BY <1>3 DEF LoadRingEpoch
<1>4. CASE DropBatch
  BY <1>4 DEF DropBatch
<1>5. CASE ClaimSlot
  BY <1>5 DEF ClaimSlot
<1>6. CASE Poison
  BY <1>6 DEF Poison, RingStates
<1>7. CASE CountRefused
  BY <1>7 DEF CountRefused, BatchInv
<1>8. CASE StoreSlot
  BY <1>8 DEF StoreSlot, Items
<1>9. CASE StoreHead
  <2>1. head' \in RingIndices
    BY <1>9, SuccFacts DEF StoreHead
  <2>2. [seq |-> nextSeq, epoch |-> batchEpoch] \in Items
    BY DEF Items
  <2>3. log' \subseteq Items /\ stored' \in SUBSET {"slot", "head"}
    BY <1>9, <2>2 DEF StoreHead
  <2> QED
    BY <1>9, <2>1, <2>3 DEF StoreHead
<1>10. CASE NextByte
  BY <1>10 DEF NextByte, BatchInv
<1>11. CASE EndBatch
  BY <1>11 DEF EndBatch
<1>12. CASE PopLoad \/ PopCopy \/ PopAdvance
  <2>1. CASE PopLoad
    BY <1>12, <2>1 DEF PopLoad, ConsumerAt
  <2>2. CASE PopCopy
    <3>1. slots[tail] \in Items
      OBVIOUS
    <3>2. got' \in Seq(Items)
      BY <2>2, <3>1 DEF PopCopy
    <3> QED
      BY <2>2, <3>2 DEF PopCopy, ConsumerAt
  <2>3. CASE PopAdvance
    <3>1. tail' \in RingIndices
      BY <2>3, SuccFacts DEF PopAdvance
    <3> QED
      BY <2>3, <3>1 DEF PopAdvance, ConsumerAt
  <2> QED
    BY <1>12, <2>1, <2>2, <2>3
<1>13. CASE ResetCheckQuiet \/ ResetCheckState \/ ResetRecheckQuiet
  BY <1>13 DEF ResetCheckQuiet, ResetCheckState, ResetRecheckQuiet, ConsumerAt
<1>14. CASE ResetTail \/ ResetEpoch \/ ResetOpen
  <2>1. CASE ResetTail
    BY <2>1 DEF ResetTail, ConsumerAt
  <2>2. CASE ResetEpoch
    BY <2>2 DEF ResetEpoch, ConsumerAt
  <2>3. CASE ResetOpen
    BY <2>3 DEF ResetOpen, ConsumerAt, RingStates
  <2> QED
    BY <1>14, <2>1, <2>2, <2>3
<1>15. CASE UNCHANGED rxRingVars
  BY <1>15 DEF rxRingVars
<1> QED
  BY <1>1, <1>2, <1>3, <1>4, <1>5, <1>6, <1>7, <1>8, <1>9, <1>10, <1>11,
     <1>12, <1>13, <1>14, <1>15 DEF RingNext, Producer, Consumer
-----------------------------------------------------------------------------
(***************************************************************************)
(* The control part: which phases of the two tasks can coincide.           *)
(***************************************************************************)
Control == BatchInv /\ SnapshotInv /\ ResetInv /\ RoomInv

\* The positions of batch and reset exclude each other as the checks intend.
LEMMA ControlStep == RingTypeOK /\ Control /\ [RingNext]_rxRingVars => Control'
<1> SUFFICES ASSUME RingTypeOK, Control, [RingNext]_rxRingVars PROVE Control'
  OBVIOUS
<1> USE DEF RingTypeOK, Control, BatchInv, SnapshotInv, ResetInv, Resetting,
        RoomInv, ringVars, metricVars, producerVars, consumerVars
<1>1. CASE BeginBatch
  BY <1>1 DEF BeginBatch
<1>2. CASE LoadRingState
  BY <1>2 DEF LoadRingState, RingStates
<1>3. CASE LoadRingEpoch
  BY <1>3 DEF LoadRingEpoch, RingStates
<1>4. CASE DropBatch
  BY <1>4 DEF DropBatch
<1>5. CASE ClaimSlot
  BY <1>5 DEF ClaimSlot
<1>6. CASE Poison
  BY <1>6 DEF Poison
<1>7. CASE CountRefused
  BY <1>7 DEF CountRefused
<1>8. CASE StoreSlot
  BY <1>8 DEF StoreSlot
<1>9. CASE StoreHead
  BY <1>9, SuccFacts DEF StoreHead
<1>10. CASE NextByte
  BY <1>10 DEF NextByte
<1>11. CASE EndBatch
  BY <1>11 DEF EndBatch
<1>12. CASE PopLoad
  BY <1>12 DEF PopLoad, ConsumerAt
<1>13. CASE PopCopy
  BY <1>13 DEF PopCopy, ConsumerAt
<1>14. CASE PopAdvance
  BY <1>14, SuccFacts DEF PopAdvance, ConsumerAt
<1>15. CASE ResetCheckQuiet
  BY <1>15 DEF ResetCheckQuiet, ConsumerAt
<1>16. CASE ResetCheckState
  BY <1>16 DEF ResetCheckState
<1>17. CASE ResetRecheckQuiet
  BY <1>17 DEF ResetRecheckQuiet
<1>18. CASE ResetTail
  BY <1>18 DEF ResetTail, ConsumerAt
<1>19. CASE ResetEpoch
  BY <1>19 DEF ResetEpoch, ConsumerAt
<1>20. CASE ResetOpen
  BY <1>20 DEF ResetOpen, ConsumerAt
<1>21. CASE UNCHANGED rxRingVars
  BY <1>21 DEF rxRingVars
<1> QED
  BY <1>1, <1>2, <1>3, <1>4, <1>5, <1>6, <1>7, <1>8, <1>9, <1>10, <1>11,
     <1>12, <1>13, <1>14, <1>15, <1>16, <1>17, <1>18, <1>19, <1>20, <1>21
     DEF RingNext, Producer, Consumer

(***************************************************************************)
(* Every byte offered is counted.  NextByte, DropBatch and CountRefused    *)
(* move the counters and the stream position together.                     *)
(***************************************************************************)
LEMMA CountStep ==
  RingTypeOK /\ Control /\ CountInv /\ [RingNext]_rxRingVars => CountInv'
<1> SUFFICES ASSUME RingTypeOK, Control, CountInv, [RingNext]_rxRingVars PROVE CountInv'
  OBVIOUS
<1> USE DEF CountInv, RingTypeOK
<1>1. CASE DropBatch
  BY <1>1 DEF DropBatch
<1>2. CASE CountRefused
  BY <1>2 DEF CountRefused, Control, BatchInv
<1>3. CASE NextByte
  BY <1>3 DEF NextByte, metricVars
<1>4. CASE UNCHANGED <<ringPublished, dropped, nextSeq>>
  BY <1>4
<1>5. BeginBatch \/ LoadRingState \/ LoadRingEpoch \/ ClaimSlot \/ Poison \/ StoreSlot
        \/ StoreHead \/ EndBatch => UNCHANGED <<ringPublished, dropped, nextSeq>>
  BY DEF BeginBatch, LoadRingState, LoadRingEpoch, ClaimSlot, Poison, StoreSlot,
         StoreHead, EndBatch, metricVars
<1>6. Consumer => UNCHANGED <<ringPublished, dropped, nextSeq>>
  BY DEF Consumer, PopLoad, PopCopy, PopAdvance, ResetCheckQuiet,
         ResetCheckState, ResetRecheckQuiet, ResetTail, ResetEpoch, ResetOpen,
         metricVars, producerVars
<1>7. UNCHANGED rxRingVars => UNCHANGED <<ringPublished, dropped, nextSeq>>
  BY DEF rxRingVars, metricVars, producerVars
<1> QED
  BY <1>1, <1>2, <1>3, <1>4, <1>5, <1>6, <1>7 DEF RingNext, Producer
(***************************************************************************)
(* The published history: only StoreHead extends it, and what it appends   *)
(* follows the last byte of the epoch it is tagged with.                   *)
(***************************************************************************)
History == LogInv /\ NoHoleInEpoch

\* A step that leaves the log, the epoch, the ring state and the stream
\* position alone, and starts no drop-only batch, preserves the history.
LEMMA HistoryFrame ==
  ASSUME RingTypeOK, History,
         UNCHANGED <<log, epoch, ringState>>, LastSeq' = LastSeq,
         ringState = "Open" /\ batchState' = "Poisoned"
           /\ callbackPc' \in {"loadEpoch", "drop"} =>
             batchState = "Poisoned" /\ callbackPc \in {"loadEpoch", "drop"},
         loopPc' = "resetOpen" => loopPc = "resetOpen"
  PROVE  History'
  BY DEF History, LogInv, NoHoleInEpoch

\* Publishing a byte extends the current epoch by its next position.
LEMMA StoreHeadHistory ==
  RingTypeOK /\ Control /\ History /\ StoreHead => History'
<1> SUFFICES ASSUME RingTypeOK, Control, History, StoreHead PROVE History'
  OBVIOUS
<1> DEFINE new == [seq |-> nextSeq, epoch |-> epoch]
<1>1. /\ callbackPc = "store" /\ callbackPc' = "store" /\ ringState = "Open" /\ ringState' = ringState
      /\ batchState = "Open" /\ batchState' = batchState
      /\ batchEpoch = epoch /\ epoch' = epoch /\ nextSeq' = nextSeq
      /\ "head" \notin stored /\ stored' = stored \cup {"head"}
      /\ log' = log \cup {new} /\ loopPc' = loopPc /\ loopPc # "resetOpen"
  BY DEF StoreHead, Control, SnapshotInv, ResetInv, Resetting, metricVars,
         consumerVars
<1>2. LastSeq = nextSeq - 1 /\ LastSeq' = nextSeq
  BY <1>1 DEF LastSeq
<1>3. /\ nextSeq \in Nat /\ epoch \in Nat
      /\ \A item \in log : item.seq \in Nat /\ item.epoch \in Nat
  BY DEF RingTypeOK, Items
<1>4. LogInv'
  BY <1>1, <1>2, <1>3 DEF History, LogInv
<1>5. NoHoleInEpoch'
  <2> SUFFICES ASSUME NEW first \in log', NEW last \in log',
                      first.epoch = last.epoch,
                      NEW n \in first.seq .. last.seq
               PROVE  [seq |-> n, epoch |-> first.epoch] \in log'
    BY DEF NoHoleInEpoch
  <2>1. first.seq \in Nat /\ last.seq \in Nat /\ n \in Nat
    BY <1>1, <1>3
  <2>2. CASE first \in log /\ last \in log
    BY <2>2, <1>1 DEF History, NoHoleInEpoch
  <2>3. CASE first = new
    <3>1. last.seq <= nextSeq
      BY <1>1, <1>2, <1>3 DEF History, LogInv
    <3>2. n = nextSeq
      BY <2>1, <2>3, <3>1, <1>3
    <3> QED
      BY <2>3, <3>2, <1>1
  <2>4. CASE first \in log /\ last = new
    <3>1. [seq |-> nextSeq - 1, epoch |-> epoch] \in log
      BY <2>4, <1>1, <1>2 DEF History, LogInv
    <3>2. CASE n = nextSeq
      BY <2>4, <3>2, <1>1
    <3>3. CASE n # nextSeq
      <4> DEFINE prev == [seq |-> nextSeq - 1, epoch |-> epoch]
      <4>1. n \in first.seq .. prev.seq
        BY <2>1, <2>4, <3>3, <1>3
      <4>2. first.epoch = prev.epoch
        BY <2>4
      <4> QED
        BY <3>1, <4>1, <4>2, <2>4, <1>1 DEF History, NoHoleInEpoch
    <3> QED
      BY <3>2, <3>3
  <2> QED
    BY <2>2, <2>3, <2>4, <1>1
<1> QED
  BY <1>4, <1>5 DEF History

\* Every step extends the log at its end or leaves it.
LEMMA HistoryStep == RingTypeOK /\ Control /\ History /\ [RingNext]_rxRingVars => History'
<1> SUFFICES ASSUME RingTypeOK, Control, History, [RingNext]_rxRingVars PROVE History'
  OBVIOUS
<1> USE DEF ringVars, metricVars, producerVars, consumerVars
<1>1. CASE LoadRingState
  <2>1. batchState' = "Poisoned" => ringState # "Open"
    BY <1>1 DEF LoadRingState
  <2>2. LastSeq' = LastSeq /\ UNCHANGED <<log, epoch, ringState, loopPc>>
    BY <1>1 DEF LoadRingState, LastSeq
  <2> QED
    BY <2>1, <2>2 DEF History, LogInv, NoHoleInEpoch, RingTypeOK
<1>2. CASE LoadRingEpoch
  <2>1. LastSeq' = LastSeq /\ UNCHANGED <<log, epoch, ringState, loopPc, batchState>>
    BY <1>2 DEF LoadRingEpoch, LastSeq
  <2>2. callbackPc = "loadEpoch" /\ callbackPc' \in {"check", "drop"}
    BY <1>2 DEF LoadRingEpoch
  <2> QED
    BY <2>1, <2>2, HistoryFrame
<1>3. CASE DropBatch
  <2>1. /\ UNCHANGED <<log, epoch, ringState, loopPc>> /\ callbackPc' = "end"
        /\ callbackPc = "drop" /\ batchState = "Poisoned"
    BY <1>3 DEF DropBatch, Control, SnapshotInv
  <2>2. LastSeq \in Nat /\ LastSeq' \in Nat /\ LastSeq <= LastSeq'
    BY <1>3 DEF DropBatch, LastSeq, RingTypeOK
  <2>3. \A item \in log : item.seq \in Nat
    BY DEF RingTypeOK, Items
  <2> QED
    BY <2>1, <2>2, <2>3 DEF History, LogInv, NoHoleInEpoch
<1>4. CASE CountRefused
  <2>1. /\ UNCHANGED <<log, epoch, ringState, loopPc>> /\ callbackPc' = "end"
        /\ ringState = "Poisoned" /\ loopPc # "resetOpen"
    BY <1>4 DEF CountRefused, Control, SnapshotInv, ResetInv, Resetting
  <2>2. LastSeq \in Nat /\ LastSeq' \in Nat /\ LastSeq <= LastSeq'
    BY <1>4 DEF CountRefused, LastSeq, RingTypeOK
  <2>3. \A item \in log : item.seq \in Nat
    BY DEF RingTypeOK, Items
  <2> QED
    BY <2>1, <2>2, <2>3 DEF History, LogInv, NoHoleInEpoch
<1>5. CASE Poison
  <2>1. LastSeq' = LastSeq
    BY <1>5 DEF Poison, LastSeq
  <2> QED
    BY <1>5, <2>1 DEF Poison, History, LogInv, NoHoleInEpoch
<1>6. CASE StoreHead
  BY <1>6, StoreHeadHistory
<1>7. CASE NextByte
  <2>1. LastSeq' = LastSeq
    BY <1>7 DEF NextByte, LastSeq, RingTypeOK
  <2> QED
    BY <1>7, <2>1, HistoryFrame DEF NextByte
<1>8. CASE BeginBatch
  BY <1>8, HistoryFrame DEF BeginBatch, LastSeq
<1>9. CASE ClaimSlot
  BY <1>9, HistoryFrame DEF ClaimSlot, LastSeq
<1>10. CASE StoreSlot
  BY <1>10, HistoryFrame DEF StoreSlot, LastSeq
<1>11. CASE EndBatch
  BY <1>11, HistoryFrame DEF EndBatch, LastSeq
<1>12. CASE ResetEpoch
  <2>1. /\ UNCHANGED <<log, ringState>> /\ LastSeq' = LastSeq
        /\ ringState = "Poisoned" /\ epoch' = epoch + 1
    BY <1>12 DEF ResetEpoch, ConsumerAt, Control, ResetInv, Resetting, LastSeq
  <2>2. epoch \in Nat /\ \A item \in log : item.epoch \in Nat
    BY DEF RingTypeOK, Items
  <2> QED
    BY <2>1, <2>2 DEF History, LogInv, NoHoleInEpoch
<1>13. CASE ResetOpen
  <2>1. LastSeq' = LastSeq
    BY <1>13 DEF ResetOpen, LastSeq
  <2> QED
    BY <1>13, <2>1 DEF ResetOpen, ConsumerAt, History, LogInv, NoHoleInEpoch
<1>14. CASE PopLoad \/ PopCopy \/ PopAdvance
  BY <1>14, HistoryFrame DEF PopLoad, PopCopy, PopAdvance, ConsumerAt, LastSeq
<1>15. CASE ResetCheckQuiet \/ ResetCheckState \/ ResetRecheckQuiet \/ ResetTail
  BY <1>15, HistoryFrame
     DEF ResetCheckQuiet, ResetCheckState, ResetRecheckQuiet, ResetTail,
         ConsumerAt, LastSeq
<1>16. CASE UNCHANGED rxRingVars
  BY <1>16, HistoryFrame DEF rxRingVars, LastSeq
<1> QED
  BY <1>1, <1>2, <1>3, <1>4, <1>5, <1>6, <1>7, <1>8, <1>9, <1>10, <1>11,
     <1>12, <1>13, <1>14, <1>15, <1>16 DEF RingNext, Producer, Consumer

-----------------------------------------------------------------------------
\* Every reachable state satisfies the invariant.
LEMMA Inductive == RingSpec => []IInv
<1>1. IInv /\ [RingNext]_rxRingVars => IInv'
  BY TypeStep, ControlStep, HistoryStep, CountStep
     DEF IInv, Control, History
<1> QED
  BY InitInv, <1>1, PTL DEF RingSpec

\* The variables keep their types.
THEOREM TypeCorrect == RingSpec => []RingTypeOK
<1>1. IInv => RingTypeOK
  BY DEF IInv
<1> QED
  BY Inductive, <1>1, PTL

\* However the reset of the loop task and the callback of the USB task
\* interleave, no byte is missing between two bytes of one ingress epoch.
THEOREM EpochsHaveNoHoles == RingSpec => []NoHoleInEpoch
<1>1. IInv => NoHoleInEpoch
  BY DEF IInv
<1> QED
  BY Inductive, <1>1, PTL

\* A byte is only ever published into a slot that is free and past a reset
\* that has finished, so unread bytes are never overwritten or forgotten.
THEOREM RoomIsKept == RingSpec => []PublishKeepsRoom
<1>1. IInv => PublishKeepsRoom
  BY DEF IInv, PublishKeepsRoom, RoomInv, ResetInv, Resetting, SnapshotInv
<1> QED
  BY Inductive, <1>1, PTL

\* Once a batch is over, every byte it offered is in exactly one counter.
THEOREM BytesAreCounted == RingSpec => []EveryByteCounted
<1>1. IInv => EveryByteCounted
  BY DEF IInv, CountInv, EveryByteCounted
<1> QED
  BY Inductive, <1>1, PTL

\* All the ring promises, for every capacity and every size of a batch.
THEOREM BytesStayInOrder == RingSpec => []BytesInOrder
<1>1. RingTypeOK /\ NoHoleInEpoch /\ EveryByteCounted /\ PublishKeepsRoom
      => BytesInOrder
  BY DEF BytesInOrder
<1> QED
  BY TypeCorrect, EpochsHaveNoHoles, BytesAreCounted, RoomIsKept, <1>1, PTL

-----------------------------------------------------------------------------
(***************************************************************************)
(* The refinement, for a build that keeps the two stores of publishOne in  *)
(* order.                                                                  *)
(***************************************************************************)

\* A slot is filled before head moves past it.
StoreInv ==
  callbackPc = "store" =>
    /\ "head" \in stored => "slot" \in stored
    /\ "slot" \in stored /\ "head" \notin stored =>
         slots[claim] = [seq |-> nextSeq, epoch |-> batchEpoch]

\* What the ring holds was published under the current epoch.
HeldInv ==
  \A n \in 0 .. (Distance(tail, head) - 1) :
    slots[SlotFrom(tail, n)] \in log /\ slots[SlotFrom(tail, n)].epoch = epoch

\* Until the reset is over nothing is published behind the discard.
DiscardInv == loopPc \in {"resetEpoch", "resetOpen"} => tail = head

QueueInv == StoreInv /\ HeldInv /\ DiscardInv

\* Distances between indices: what moving head or tail by one slot does to
\* the stretch between them.
LEMMA RingArithmetic ==
  ASSUME NEW t \in RingIndices, NEW h \in RingIndices
  PROVE  /\ Distance(t, h) \in 0 .. (RingCapacity - 1)
         /\ Distance(t, h) = 0 <=> t = h
         /\ Succ(h) # t => Distance(t, Succ(h)) = Distance(t, h) + 1
         /\ Succ(h) = t => Distance(t, h) = RingCapacity - 1
         /\ t # h => Distance(Succ(t), h) = Distance(t, h) - 1
         /\ SlotFrom(t, Distance(t, h)) = h /\ SlotFrom(t, 0) = t
         /\ \A n \in 0 .. (Distance(t, h) - 1) :
              SlotFrom(t, n) \in RingIndices /\ SlotFrom(t, n) # h
         /\ \A n \in 0 .. (RingCapacity - 2) : SlotFrom(Succ(t), n) = SlotFrom(t, n + 1)
  BY RingCapacityAssumption DEF RingIndices, Distance, SlotFrom, Succ

\* A step that moves neither index, writes no slot and changes no epoch keeps
\* what the ring holds.
LEMMA HeldFrame ==
  ASSUME HeldInv, UNCHANGED <<slots, head, tail, epoch>>, log \subseteq log'
  PROVE  HeldInv'
  BY DEF HeldInv

\* Every step keeps what the mapping to the queue relies on.
LEMMA QueueInvStep ==
  ASSUME HeadStoreOrdered, RingTypeOK, Control, QueueInv, [RingNext]_rxRingVars
  PROVE  QueueInv'
<1> USE DEF RingTypeOK, ringVars, metricVars, producerVars, consumerVars
<1>1. CASE StoreSlot
  <2>1. /\ callbackPc = "store" /\ "slot" \notin stored /\ "head" \notin stored
        /\ claim = head /\ batchEpoch = epoch
    BY <1>1 DEF StoreSlot, QueueInv, StoreInv, Control, RoomInv, SnapshotInv
  <2>2. /\ slots' = [slots EXCEPT ![head] = [seq |-> nextSeq, epoch |-> batchEpoch]]
        /\ UNCHANGED <<head, tail, epoch, log, loopPc, claim, nextSeq, batchEpoch>>
    BY <1>1, <2>1 DEF StoreSlot
  <2>3. HeldInv'
    <3> SUFFICES ASSUME NEW n \in 0 .. (Distance(tail, head) - 1)
                 PROVE  slots'[SlotFrom(tail, n)] = slots[SlotFrom(tail, n)]
      BY <2>2 DEF QueueInv, HeldInv
    <3>1. SlotFrom(tail, n) \in RingIndices /\ SlotFrom(tail, n) # head
      BY RingArithmetic
    <3> QED
      BY <2>2, <3>1
  <2>4. StoreInv'
    <3>1. slots'[claim'] = [seq |-> nextSeq', epoch |-> batchEpoch']
      BY <2>1, <2>2
    <3> QED
      BY <1>1, <2>1, <3>1 DEF StoreSlot, StoreInv
  <2> QED
    BY <2>2, <2>3, <2>4 DEF QueueInv, DiscardInv
<1>2. CASE StoreHead
  <2> DEFINE item == [seq |-> nextSeq, epoch |-> batchEpoch]
  <2>1. /\ callbackPc = "store" /\ "slot" \in stored /\ "head" \notin stored
        /\ claim = head /\ batchEpoch = epoch /\ slots[head] = item
        /\ Succ(head) # tail /\ loopPc \notin {"resetEpoch", "resetOpen"}
    BY <1>2 DEF StoreHead, QueueInv, StoreInv, Control, RoomInv, SnapshotInv, ResetInv,
                Resetting
  <2>2. /\ head' = Succ(head) /\ log' = log \cup {item} /\ stored' = stored \cup {"head"}
        /\ UNCHANGED <<slots, tail, epoch, loopPc, callbackPc>>
    BY <1>2, <2>1 DEF StoreHead
  <2>3. HeldInv'
    <3> SUFFICES ASSUME NEW n \in 0 .. (Distance(tail, Succ(head)) - 1)
                 PROVE  /\ slots[SlotFrom(tail, n)] \in log \cup {item}
                        /\ slots[SlotFrom(tail, n)].epoch = epoch
      BY <2>2 DEF HeldInv
    <3>1. /\ Distance(tail, Succ(head)) = Distance(tail, head) + 1
          /\ Distance(tail, head) \in Nat /\ SlotFrom(tail, Distance(tail, head)) = head
      BY <2>1, RingArithmetic
    <3>2. CASE n = Distance(tail, head)
      BY <2>1, <3>1, <3>2
    <3>3. CASE n \in 0 .. (Distance(tail, head) - 1)
      BY <3>3 DEF QueueInv, HeldInv
    <3> QED
      BY <3>1, <3>2, <3>3
  <2> QED
    BY <2>1, <2>2, <2>3 DEF QueueInv, StoreInv, DiscardInv
<1>3. CASE PopAdvance
  <2>1. tail # head /\ tail' = Succ(tail) /\ UNCHANGED <<slots, head, epoch, log>>
    BY <1>3 DEF PopAdvance, ConsumerAt, Control, RoomInv
  <2>2. HeldInv'
    <3> SUFFICES ASSUME NEW n \in 0 .. (Distance(Succ(tail), head) - 1)
                 PROVE  /\ slots[SlotFrom(Succ(tail), n)] \in log
                        /\ slots[SlotFrom(Succ(tail), n)].epoch = epoch
      BY <2>1 DEF HeldInv
    <3>1. Distance(Succ(tail), head) = Distance(tail, head) - 1
      BY <2>1, RingArithmetic
    <3>2. Distance(tail, head) \in 0 .. (RingCapacity - 1)
      BY RingArithmetic
    <3>3. n + 1 \in 0 .. (Distance(tail, head) - 1) /\ n \in 0 .. (RingCapacity - 2)
      BY <3>1, <3>2, RingCapacityAssumption
    <3>4. SlotFrom(Succ(tail), n) = SlotFrom(tail, n + 1)
      BY <3>3, RingArithmetic
    <3> QED
      BY <3>3, <3>4 DEF QueueInv, HeldInv
  <2> QED
    BY <1>3, <2>2 DEF PopAdvance, ConsumerAt, QueueInv, StoreInv, DiscardInv
<1>4. CASE ResetTail
  <2>1. Distance(tail, head)' = 0
    BY <1>4, RingCapacityAssumption DEF ResetTail, Distance, RingIndices
  <2> QED
    BY <1>4, <2>1 DEF ResetTail, ConsumerAt, QueueInv, StoreInv, HeldInv, DiscardInv
<1>5. CASE ResetEpoch
  <2>1. Distance(tail, head)' = 0
    BY <1>5, RingCapacityAssumption
       DEF ResetEpoch, ConsumerAt, Distance, QueueInv, DiscardInv, RingIndices
  <2> QED
    BY <1>5, <2>1 DEF ResetEpoch, ConsumerAt, QueueInv, StoreInv, HeldInv, DiscardInv
<1>6. ASSUME UNCHANGED <<slots, head, tail, epoch, log>>, StoreInv', DiscardInv'
      PROVE  QueueInv'
  BY <1>6, HeldFrame DEF QueueInv
<1>7. CASE BeginBatch \/ LoadRingState \/ LoadRingEpoch \/ DropBatch \/ EndBatch
  BY <1>6, <1>7 DEF BeginBatch, LoadRingState, LoadRingEpoch, DropBatch, EndBatch,
                    QueueInv, StoreInv, DiscardInv
<1>8. CASE ClaimSlot \/ Poison \/ CountRefused \/ NextByte
  BY <1>6, <1>8 DEF ClaimSlot, Poison, CountRefused, NextByte, QueueInv, StoreInv,
                    DiscardInv
<1>9. CASE PopLoad \/ PopCopy \/ ResetCheckQuiet \/ ResetCheckState \/ ResetRecheckQuiet
  BY <1>6, <1>9 DEF PopLoad, PopCopy, ResetCheckQuiet, ResetCheckState,
                    ResetRecheckQuiet, ConsumerAt, QueueInv, StoreInv, DiscardInv
<1>10. CASE ResetOpen
  BY <1>6, <1>10 DEF ResetOpen, ConsumerAt, QueueInv, StoreInv, DiscardInv
<1>11. CASE UNCHANGED rxRingVars
  BY <1>6, <1>11 DEF rxRingVars, QueueInv, StoreInv, DiscardInv
<1> QED
  BY <1>1, <1>2, <1>3, <1>4, <1>5, <1>7, <1>8, <1>9, <1>10, <1>11
     DEF RingNext, Producer, Consumer

-----------------------------------------------------------------------------
\* The waiting bytes as a sequence: its length and its items.
LEMMA WaitingFacts ==
  ASSUME RingTypeOK, Control
  PROVE  /\ Distance(tail, head) - Taken \in 0 .. (RingCapacity - 1)
         /\ Len(Waiting) = Distance(tail, head) - Taken
         /\ Waiting \in Seq(Items)
         /\ \A n \in 1 .. Len(Waiting) : Waiting[n] = slots[SlotFrom(tail, n - 1 + Taken)]
<1>1. tail \in RingIndices /\ head \in RingIndices /\ slots \in [RingIndices -> Items]
  BY DEF RingTypeOK
<1>2. Distance(tail, head) \in 0 .. (RingCapacity - 1)
  BY <1>1, RingArithmetic
<1>3. Taken \in {0, 1} /\ (Taken = 1 => Distance(tail, head) # 0)
  BY <1>1, RingArithmetic DEF Taken, Control, RoomInv
<1>4. Distance(tail, head) - Taken \in 0 .. (RingCapacity - 1)
  BY <1>2, <1>3, RingCapacityAssumption
<1>5. ASSUME NEW n \in 1 .. (Distance(tail, head) - Taken)
      PROVE  slots[SlotFrom(tail, n - 1 + Taken)] \in Items
  <2>1. n - 1 + Taken \in 0 .. (Distance(tail, head) - 1)
    BY <1>2, <1>3
  <2> QED
    BY <1>1, <2>1, RingArithmetic
<1> QED
  BY <1>4, <1>5 DEF Waiting

\* The ring starts as an empty queue in its first epoch.
LEMMA QueueStarts == RingInit => QueueInv /\ Ingress!QueueInit
<1> SUFFICES ASSUME RingInit PROVE QueueInv /\ Ingress!QueueInit
  OBVIOUS
<1> USE DEF RingInit
<1>1. Distance(tail, head) = 0 /\ Taken = 0
  BY RingCapacityAssumption DEF Distance, Taken
<1>2. QueueInv
  BY <1>1 DEF QueueInv, StoreInv, HeldInv, DiscardInv
<1>3. Waiting = <<>>
  BY <1>1 DEF Waiting
<1>4. NextOffered = 1 /\ EpochPhase = "fresh"
  BY DEF NextOffered, EpochPhase
<1> QED
  BY <1>2, <1>3, <1>4 DEF Ingress!QueueInit, QueueEpoch

\* Moving head past a filled slot accepts the byte.
LEMMA StoreHeadAccepts ==
  ASSUME HeadStoreOrdered, RingTypeOK, Control, History, QueueInv, StoreHead,
         RingTypeOK', Control'
  PROVE  Ingress!Accept
<1> DEFINE item == [seq |-> nextSeq, epoch |-> epoch]
<1> USE DEF ringVars, metricVars, producerVars, consumerVars
<1>1. /\ callbackPc = "store" /\ "head" \notin stored /\ slots[head] = item
      /\ ringState = "Open" /\ batchEpoch = epoch /\ claim = head /\ Succ(head) # tail
      /\ loopPc \notin {"resetTail", "resetEpoch", "resetOpen"}
  BY DEF StoreHead, QueueInv, StoreInv, Control, RoomInv, SnapshotInv, ResetInv, Resetting
<1>2. /\ head' = Succ(head) /\ log' = log \cup {item} /\ "head" \in stored'
      /\ UNCHANGED <<slots, tail, ringState, epoch, callbackPc, nextSeq, loopPc, got>>
  BY <1>1 DEF StoreHead
<1>3. /\ tail \in RingIndices /\ head \in RingIndices
      /\ item \in Items /\ nextSeq \in Nat
  BY DEF RingTypeOK, Items
<1>4. /\ Distance(tail, Succ(head)) = Distance(tail, head) + 1
      /\ Distance(tail, head) \in 0 .. (RingCapacity - 1)
      /\ SlotFrom(tail, Distance(tail, head)) = head
  BY <1>1, <1>3, RingArithmetic
<1>5. Distance(tail, Succ(head)) \in 0 .. (RingCapacity - 1)
  BY <1>3, RingArithmetic, SuccFacts
<1>6. Taken' = Taken /\ Taken \in {0, 1}
  BY <1>2 DEF Taken
<1>7. /\ Len(Waiting) = Distance(tail, head) - Taken /\ Waiting \in Seq(Items)
      /\ \A n \in 1 .. Len(Waiting) : Waiting[n] = slots[SlotFrom(tail, n - 1 + Taken)]
      /\ Len(Waiting) \in Nat
  BY WaitingFacts
<1>8. Waiting' = [n \in 1 .. (Len(Waiting) + 1) |-> slots[SlotFrom(tail, n - 1 + Taken)]]
  <2>1. Waiting' = [n \in 1 .. (Distance(tail, Succ(head)) - Taken) |->
                      slots[SlotFrom(tail, n - 1 + Taken)]]
    BY <1>2, <1>6 DEF Waiting, Distance, SlotFrom
  <2>2. Distance(tail, Succ(head)) - Taken = Len(Waiting) + 1
    BY <1>4, <1>6, <1>7
  <2> QED
    BY <2>1, <2>2
<1>9. Waiting' = Append(Waiting, item)
  <2>1. slots[SlotFrom(tail, Len(Waiting) + 1 - 1 + Taken)] = item
    BY <1>1, <1>4, <1>6, <1>7
  <2>2. Append(Waiting, item) =
          [n \in 1 .. (Len(Waiting) + 1) |-> IF n <= Len(Waiting) THEN Waiting[n] ELSE item]
    BY <1>3, <1>7, AppendProperties
  <2>3. ASSUME NEW n \in 1 .. (Len(Waiting) + 1)
        PROVE  slots[SlotFrom(tail, n - 1 + Taken)] =
                 IF n <= Len(Waiting) THEN Waiting[n] ELSE item
    <3>1. CASE n <= Len(Waiting)
      BY <1>7, <3>1
    <3>2. CASE n = Len(Waiting) + 1
      BY <1>7, <2>1, <3>2
    <3> QED
      BY <1>7, <3>1, <3>2
  <2> QED
    BY <1>8, <2>2, <2>3
<1>10. Len(Waiting) < RingCapacity - 1
  BY <1>4, <1>5, <1>6, <1>7, RingCapacityAssumption
<1>11. EpochPhase # "broken" /\ EpochPhase' = "running"
  BY <1>1, <1>2 DEF EpochPhase
<1>12. NextOffered = nextSeq /\ NextOffered' = nextSeq + 1
  BY <1>1, <1>2 DEF NextOffered
<1> QED
  BY <1>1, <1>2, <1>9, <1>10, <1>11, <1>12 DEF Ingress!Accept, QueueEpoch

\* A full ring breaks the epoch; the rest of the batch is lost with it.
LEMMA PoisonLoses ==
  ASSUME RingTypeOK, Control, History, QueueInv, Poison
  PROVE  Ingress!Lose
<1>1. /\ callbackPc = "check" /\ callbackPc' = "poisoned" /\ Succ(head) = tail /\ left >= 1
      /\ ringState = "Open" /\ ringState' = "Poisoned"
      /\ loopPc \notin {"resetTail", "resetEpoch", "resetOpen"}
      /\ UNCHANGED <<slots, head, tail, epoch, loopPc, got, left, nextSeq>>
  BY DEF Poison, Control, BatchInv, SnapshotInv, ResetInv, Resetting, consumerVars
<1>2. /\ tail \in RingIndices /\ head \in RingIndices /\ left \in Nat /\ nextSeq \in Nat
  BY DEF RingTypeOK
<1>3. Distance(tail, head) = RingCapacity - 1
  BY <1>1, <1>2, RingArithmetic
<1>4. Taken \in {0, 1} /\ Len(Waiting) = Distance(tail, head) - Taken
  BY WaitingFacts DEF Taken
<1>5. Len(Waiting) + 1 >= RingCapacity - 1
  BY <1>3, <1>4, RingCapacityAssumption
<1>6. Waiting' = Waiting
  BY <1>1 DEF Waiting, Taken, Distance, SlotFrom
<1>7. \E item \in log : item.epoch = epoch
  <2>1. 0 \in 0 .. (Distance(tail, head) - 1)
    BY <1>3, RingCapacityAssumption
  <2> QED
    BY <2>1 DEF QueueInv, HeldInv
<1>8. EpochPhase = "running" /\ EpochPhase' = "broken"
  BY <1>1, <1>7 DEF EpochPhase
<1>9. NextOffered' \in Nat /\ NextOffered' > NextOffered
  BY <1>1, <1>2 DEF NextOffered
<1> QED
  BY <1>1, <1>5, <1>6, <1>8, <1>9 DEF Ingress!Lose, QueueEpoch

\* A batch that began poisoned is lost, in a broken epoch or, when the reset
\* overtook it, before the first byte of the new one.
LEMMA DropBatchLoses ==
  ASSUME RingTypeOK, Control, History, QueueInv, DropBatch
  PROVE  Ingress!Lose
<1>1. /\ callbackPc = "drop" /\ callbackPc' = "end" /\ nextSeq' = nextSeq + left /\ left >= 1
      /\ batchState = "Poisoned"
      /\ UNCHANGED <<slots, head, tail, ringState, epoch, loopPc, got, log>>
  BY DEF DropBatch, Control, BatchInv, SnapshotInv, ringVars, consumerVars
<1>2. left \in Nat /\ nextSeq \in Nat
  BY DEF RingTypeOK
<1>3. EpochPhase # "running" /\ EpochPhase \in {"fresh", "running", "broken"}
  BY <1>1 DEF EpochPhase, History, LogInv, RingTypeOK, RingStates
<1>4. EpochPhase' = EpochPhase
  BY <1>1 DEF EpochPhase
<1>5. Waiting' = Waiting
  BY <1>1 DEF Waiting, Taken, Distance, SlotFrom
<1>6. NextOffered' \in Nat /\ NextOffered' > NextOffered
  BY <1>1, <1>2 DEF NextOffered
<1> QED
  BY <1>1, <1>3, <1>4, <1>5, <1>6 DEF Ingress!Lose, QueueEpoch

\* Copying the slot at tail takes the first waiting byte.
LEMMA PopCopyTakes ==
  ASSUME RingTypeOK, Control, PopCopy, RingTypeOK', Control'
  PROVE  Ingress!Take
<1>1. /\ loopPc = "copy" /\ loopPc' = "advance" /\ got' = Append(got, slots[tail])
      /\ tail # head
      /\ UNCHANGED <<slots, head, tail, ringState, epoch, log, callbackPc, stored, nextSeq, left>>
  BY DEF PopCopy, ConsumerAt, Control, RoomInv, ringVars, producerVars
<1>2. tail \in RingIndices /\ head \in RingIndices
  BY DEF RingTypeOK
<1>3. /\ Distance(tail, head) \in 1 .. (RingCapacity - 1) /\ SlotFrom(tail, 0) = tail
      /\ Taken = 0 /\ Taken' = 1
  BY <1>1, <1>2, RingArithmetic DEF Taken
<1>4. /\ Waiting \in Seq(Items) /\ Len(Waiting) = Distance(tail, head)
      /\ \A n \in 1 .. Len(Waiting) : Waiting[n] = slots[SlotFrom(tail, n - 1)]
  BY <1>3, WaitingFacts
<1>5. Waiting # <<>> /\ Head(Waiting) = slots[tail]
  BY <1>3, <1>4
<1>6. Waiting' = [n \in 1 .. (Len(Waiting) - 1) |-> slots[SlotFrom(tail, n)]]
  <2>1. Waiting' = [n \in 1 .. (Distance(tail, head) - 1) |-> slots[SlotFrom(tail, n - 1 + 1)]]
    BY <1>1, <1>3 DEF Waiting, Distance, SlotFrom
  <2> QED
    BY <1>4, <2>1
<1>7. Waiting' = Tail(Waiting)
  <2>1. Tail(Waiting) = [n \in 1 .. (Len(Waiting) - 1) |-> Waiting[n + 1]]
    <3>1. /\ Tail(Waiting) \in Seq(Items) /\ Len(Tail(Waiting)) = Len(Waiting) - 1
          /\ \A n \in 1 .. Len(Tail(Waiting)) : Tail(Waiting)[n] = Waiting[n + 1]
      BY <1>4, <1>5, HeadTailProperties
    <3>2. Tail(Waiting) = [n \in 1 .. Len(Tail(Waiting)) |-> Tail(Waiting)[n]]
      BY <3>1, LenProperties
    <3> QED
      BY <3>1, <3>2
  <2>2. ASSUME NEW n \in 1 .. (Len(Waiting) - 1)
        PROVE  Waiting[n + 1] = slots[SlotFrom(tail, n)]
    BY <1>3, <1>4
  <2> QED
    BY <1>6, <2>1, <2>2
<1>8. UNCHANGED <<NextOffered, EpochPhase>>
  BY <1>1 DEF NextOffered, EpochPhase
<1> QED
  BY <1>1, <1>5, <1>7, <1>8 DEF Ingress!Take, QueueEpoch

\* The reset discards what waits and begins the next epoch.
LEMMA ResetTailRestarts ==
  ASSUME RingTypeOK, Control, ResetTail
  PROVE  Ingress!Restart
<1>1. /\ loopPc = "resetTail" /\ loopPc' = "resetEpoch" /\ tail' = head
      /\ ringState = "Poisoned"
      /\ UNCHANGED <<slots, head, ringState, epoch, log, callbackPc, stored, nextSeq, left, got>>
  BY DEF ResetTail, ConsumerAt, Control, ResetInv, Resetting, producerVars
<1>2. Waiting' = <<>>
  <2>1. Distance(tail, head)' = 0 /\ Taken' = 0
    BY <1>1, RingCapacityAssumption DEF Distance, Taken, RingTypeOK, RingIndices
  <2> QED
    BY <2>1 DEF Waiting
<1>3. EpochPhase = "broken" /\ EpochPhase' = "fresh"
  BY <1>1 DEF EpochPhase
<1>4. NextOffered' = NextOffered
  BY <1>1 DEF NextOffered
<1> QED
  BY <1>1, <1>2, <1>3, <1>4 DEF Ingress!Restart, QueueEpoch

\* A step that changes none of the mapped variables is a stutter of the queue.
LEMMA QueueStutters ==
  ASSUME UNCHANGED <<NextOffered, Waiting, QueueEpoch, EpochPhase, got>>
  PROVE  UNCHANGED Ingress!queueVars
  BY DEF Ingress!queueVars

\* Filling the slot at head shows nothing yet.
LEMMA StoreSlotStutters ==
  ASSUME RingTypeOK, Control, QueueInv, StoreSlot
  PROVE  UNCHANGED Ingress!queueVars
<1> USE DEF ringVars, metricVars, producerVars, consumerVars
<1>1. /\ callbackPc = "store" /\ "slot" \notin stored /\ stored' = stored \cup {"slot"}
      /\ UNCHANGED <<head, tail, ringState, epoch, loopPc, got, log, callbackPc, nextSeq, left>>
  BY DEF StoreSlot
<1>2. Waiting' = Waiting
  <2>1. "head" \notin stored /\ claim = head
    BY <1>1 DEF QueueInv, StoreInv, Control, RoomInv
  <2>2. /\ tail \in RingIndices /\ head \in RingIndices /\ Taken \in {0, 1}
        /\ slots \in [RingIndices -> Items]
    BY DEF RingTypeOK, Taken
  <2>3. ASSUME NEW n \in 1 .. (Distance(tail, head) - Taken)
        PROVE  slots'[SlotFrom(tail, n - 1 + Taken)] = slots[SlotFrom(tail, n - 1 + Taken)]
    <3>1. n - 1 + Taken \in 0 .. (Distance(tail, head) - 1)
      BY <2>2, RingArithmetic
    <3>2. /\ SlotFrom(tail, n - 1 + Taken) \in RingIndices
          /\ SlotFrom(tail, n - 1 + Taken) # head
      BY <2>2, <3>1, RingArithmetic
    <3> QED
      BY <2>1, <2>2, <3>2 DEF StoreSlot
  <2>4. Waiting' = [n \in 1 .. (Distance(tail, head) - Taken) |->
                      slots'[SlotFrom(tail, n - 1 + Taken)]]
    BY <1>1 DEF Waiting, Distance, SlotFrom, Taken
  <2> QED
    BY <2>3, <2>4 DEF Waiting
<1>3. UNCHANGED <<NextOffered, QueueEpoch, EpochPhase, got>>
  BY <1>1 DEF NextOffered, QueueEpoch, EpochPhase
<1> QED
  BY <1>2, <1>3, QueueStutters

\* The byte was taken when it was copied; moving tail past it adds nothing.
LEMMA PopAdvanceStutters ==
  ASSUME RingTypeOK, Control, PopAdvance
  PROVE  UNCHANGED Ingress!queueVars
<1> USE DEF ringVars, metricVars, producerVars, consumerVars
<1>1. /\ loopPc = "advance" /\ loopPc' = "idle" /\ tail' = Succ(tail) /\ tail # head
      /\ UNCHANGED <<slots, head, ringState, epoch, got, log, callbackPc, nextSeq, left, stored>>
  BY DEF PopAdvance, ConsumerAt, Control, RoomInv
<1>2. tail \in RingIndices /\ head \in RingIndices
  BY DEF RingTypeOK
<1>3. /\ Distance(Succ(tail), head) = Distance(tail, head) - 1
      /\ Distance(tail, head) \in 1 .. (RingCapacity - 1)
      /\ \A n \in 0 .. (RingCapacity - 2) : SlotFrom(Succ(tail), n) = SlotFrom(tail, n + 1)
  BY <1>1, <1>2, RingArithmetic
<1>4. Waiting = [n \in 1 .. (Distance(tail, head) - 1) |-> slots[SlotFrom(tail, n - 1 + 1)]]
  BY <1>1 DEF Waiting, Taken
<1>5. Waiting' = [n \in 1 .. (Distance(Succ(tail), head) - 0) |->
                    slots[SlotFrom(Succ(tail), n - 1 + 0)]]
  BY <1>1 DEF Waiting, Taken, Distance, SlotFrom
<1>6. ASSUME NEW n \in 1 .. (Distance(tail, head) - 1)
      PROVE  SlotFrom(Succ(tail), n - 1 + 0) = SlotFrom(tail, n - 1 + 1)
  <2>1. n - 1 \in 0 .. (RingCapacity - 2) /\ n - 1 + 0 = n - 1
    BY <1>3, RingCapacityAssumption
  <2> QED
    BY <1>3, <2>1
<1>7. Distance(Succ(tail), head) - 0 = Distance(tail, head) - 1
  BY <1>3
<1>8. Waiting' = Waiting
  BY <1>4, <1>5, <1>6, <1>7
<1>9. UNCHANGED <<NextOffered, QueueEpoch, EpochPhase, got>>
  BY <1>1 DEF NextOffered, QueueEpoch, EpochPhase
<1> QED
  BY <1>8, <1>9, QueueStutters

\* A step that touches neither indices, slots nor what Taken reads leaves the
\* waiting bytes alone.
LEMMA WaitingFrame ==
  ASSUME UNCHANGED <<slots, head, tail>>, loopPc' = "advance" <=> loopPc = "advance"
  PROVE  Waiting' = Waiting
  BY DEF Waiting, Taken, Distance, SlotFrom

\* Every step of the ring is a step of the queue, or none.
LEMMA RingStepIsQueueStep ==
  ASSUME HeadStoreOrdered, RingTypeOK, Control, History, QueueInv, [RingNext]_rxRingVars,
         RingTypeOK', Control'
  PROVE  [Ingress!QueueNext]_(Ingress!queueVars)
<1> USE DEF ringVars, metricVars, producerVars, consumerVars
<1>1. CASE StoreHead
  BY <1>1, StoreHeadAccepts DEF Ingress!QueueNext
<1>2. CASE Poison
  BY <1>2, PoisonLoses DEF Ingress!QueueNext
<1>3. CASE DropBatch
  BY <1>3, DropBatchLoses DEF Ingress!QueueNext
<1>4. CASE PopCopy
  BY <1>4, PopCopyTakes DEF Ingress!QueueNext
<1>5. CASE ResetTail
  BY <1>5, ResetTailRestarts DEF Ingress!QueueNext
<1>6. CASE StoreSlot
  BY <1>6, StoreSlotStutters
<1>7. CASE PopAdvance
  BY <1>7, PopAdvanceStutters
<1>8. ASSUME UNCHANGED <<slots, head, tail, ringState, epoch, got, log, loopPc>>,
             NextOffered' = NextOffered
      PROVE  UNCHANGED Ingress!queueVars
  BY <1>8, WaitingFrame, QueueStutters DEF QueueEpoch, EpochPhase
<1>9. CASE BeginBatch \/ LoadRingState \/ LoadRingEpoch \/ EndBatch
  <2>1. NextOffered' = NextOffered
    BY <1>9 DEF BeginBatch, LoadRingState, LoadRingEpoch, EndBatch, NextOffered
  <2> QED
    BY <1>8, <1>9, <2>1 DEF BeginBatch, LoadRingState, LoadRingEpoch, EndBatch
<1>10. CASE ClaimSlot
  <2>1. NextOffered' = NextOffered
    BY <1>10 DEF ClaimSlot, NextOffered
  <2> QED
    BY <1>8, <1>10, <2>1 DEF ClaimSlot
<1>11. CASE CountRefused
  <2>1. NextOffered' = NextOffered
    BY <1>11 DEF CountRefused, NextOffered
  <2> QED
    BY <1>8, <1>11, <2>1 DEF CountRefused
<1>12. CASE NextByte
  <2>1. NextOffered' = NextOffered
    BY <1>12 DEF NextByte, NextOffered
  <2> QED
    BY <1>8, <1>12, <2>1 DEF NextByte
<1>13. CASE PopLoad \/ ResetCheckQuiet \/ ResetCheckState \/ ResetRecheckQuiet
  <2>1. /\ UNCHANGED <<slots, head, tail, ringState, epoch, got, log, callbackPc, nextSeq, left,
                       stored>>
        /\ {loopPc, loopPc'} \cap {"advance", "resetEpoch", "resetOpen"} = {}
    BY <1>13 DEF PopLoad, ResetCheckQuiet, ResetCheckState, ResetRecheckQuiet, ConsumerAt
  <2>2. UNCHANGED <<NextOffered, QueueEpoch, EpochPhase, got>>
    BY <2>1 DEF NextOffered, QueueEpoch, EpochPhase
  <2> QED
    BY <2>1, <2>2, WaitingFrame, QueueStutters
<1>14. CASE ResetEpoch
  <2>1. /\ loopPc = "resetEpoch" /\ loopPc' = "resetOpen" /\ epoch' = epoch + 1
        /\ UNCHANGED <<slots, head, tail, got, callbackPc, nextSeq, left, stored>>
    BY <1>14 DEF ResetEpoch, ConsumerAt
  <2>2. UNCHANGED <<NextOffered, QueueEpoch, EpochPhase, got>>
    BY <2>1 DEF NextOffered, QueueEpoch, EpochPhase
  <2> QED
    BY <2>1, <2>2, WaitingFrame, QueueStutters
<1>15. CASE ResetOpen
  <2>1. /\ loopPc = "resetOpen" /\ loopPc' = "idle" /\ ringState' = "Open"
        /\ UNCHANGED <<slots, head, tail, epoch, log, got, callbackPc, nextSeq, left, stored>>
        /\ \A item \in log : item.epoch # epoch
    BY <1>15 DEF ResetOpen, ConsumerAt, History, LogInv
  <2>2. UNCHANGED <<NextOffered, QueueEpoch, EpochPhase, got>>
    BY <2>1 DEF NextOffered, QueueEpoch, EpochPhase
  <2> QED
    BY <2>1, <2>2, WaitingFrame, QueueStutters
<1>16. CASE UNCHANGED rxRingVars
  <2>1. NextOffered' = NextOffered
    BY <1>16 DEF rxRingVars, NextOffered
  <2> QED
    BY <1>8, <1>16, <2>1 DEF rxRingVars
<1> QED
  BY <1>1, <1>2, <1>3, <1>4, <1>5, <1>6, <1>7, <1>9, <1>10, <1>11, <1>12, <1>13, <1>14,
     <1>15, <1>16 DEF RingNext, Producer, Consumer

\* Callback, tryPop and reset implement the queue of IngressQueue, for every
\* capacity and batch size, when the two stores of publishOne stay in order.
THEOREM RingImplementsQueue ==
  ASSUME HeadStoreOrdered
  PROVE  RingSpec => ImplementsIngressQueue
<1>1. RingInit => QueueInv /\ Ingress!QueueInit
  BY QueueStarts
<1>2. IInv /\ IInv' /\ QueueInv /\ [RingNext]_rxRingVars
        => QueueInv' /\ [Ingress!QueueNext]_(Ingress!queueVars)
  BY QueueInvStep, RingStepIsQueueStep DEF IInv, Control, History
<1> QED
  BY Inductive, <1>1, <1>2, PTL DEF RingSpec, ImplementsIngressQueue, Ingress!QueueSpec
=============================================================================
