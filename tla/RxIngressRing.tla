--------------------------- MODULE RxIngressRing ---------------------------
(***************************************************************************)
(* The receive ring between the USB client task, whose serial callback     *)
(* calls publishBatch, and the Arduino loop task, which calls tryPop and   *)
(* resetAfterQuiescence (rx_ingress_ring.h, kUsableSlots = Capacity - 1).  *)
(*                                                                         *)
(* Every access to a field the other task can see is one action, so all    *)
(* interleavings of the two tasks are explored.  A received byte is        *)
(* identified with its position in the stream offered by the callback      *)
(* (transportEventSequence); its value, timestamp and generation travel    *)
(* with it unread and are left out.                                        *)
(*                                                                         *)
(* slots_ and head_ are plain members: the source orders neither of the    *)
(* two stores that publish a byte against the other.  HeadStoreOrdered is  *)
(* TRUE for a build that keeps program order and FALSE for one that may    *)
(* let the consumer see the new head_ before the slot.                     *)
(***************************************************************************)
EXTENDS Naturals, Sequences, FiniteSets

CONSTANTS
  RingCapacity,          \* number of slots (kCapacity); one is always kept free
  MaxBytes,          \* bound: bytes the callback ever offers
  MaxBatch,          \* bound: bytes in one callback
  HeadStoreOrdered   \* do the plain stores of publishOne stay in order?

ASSUME RingCapacityAssumption == RingCapacity \in Nat /\ RingCapacity >= 2
ASSUME RingBoundsAssumption == MaxBytes \in Nat /\ MaxBatch \in Nat \ {0}
ASSUME OrderAssumption == HeadStoreOrdered \in BOOLEAN

VARIABLES
  slots, head, tail, ringState, epoch, producerActive, overflowSticky,
  dropped, ringPublished,
  batchState, batchEpoch,  \* what beginProducerBatch read
  callbackPc,                     \* where the callback is
  left,                    \* bytes of the batch not yet handled
  nextSeq,                 \* position of the next byte to handle
  claim,                   \* index publishOne is writing to
  stored,                  \* which of publishOne's two stores are visible
  loopPc,                     \* where the loop task is
  got,                     \* history: items returned by tryPop
  log                      \* history: items published

producerVars == <<batchState, batchEpoch, callbackPc, left, nextSeq, claim, stored>>
consumerVars == <<loopPc, got>>
ringVars == <<slots, head, tail, ringState, epoch, producerActive>>
metricVars == <<overflowSticky, dropped, ringPublished>>
rxRingVars == <<ringVars, metricVars, producerVars, consumerVars, log>>

RingIndices == 0 .. (RingCapacity - 1)
Succ(i) == IF i + 1 = RingCapacity THEN 0 ELSE i + 1
Items == [seq : Nat, epoch : Nat]
Unwritten == [seq |-> 0, epoch |-> 0]
RingStates == {"Open", "Poisoned"}

RingInit ==
  /\ slots = [i \in RingIndices |-> Unwritten]
  /\ head = 0 /\ tail = 0
  /\ ringState = "Open" /\ epoch = 1
  /\ producerActive = FALSE /\ overflowSticky = FALSE
  /\ dropped = 0 /\ ringPublished = 0
  /\ batchState = "Open" /\ batchEpoch = 1
  /\ callbackPc = "idle" /\ left = 0 /\ nextSeq = 1
  /\ claim = 0 /\ stored = {}
  /\ loopPc = "idle" /\ got = <<>>
  /\ log = {}

(***************************************************************************)
(* The callback: publishBatch.                                             *)
(***************************************************************************)

\* beginProducerBatch: the exchange that claims the ring for this batch.
BeginBatch ==
  /\ callbackPc = "idle" /\ ~producerActive
  /\ \E n \in 1 .. MaxBatch :
       /\ nextSeq + n <= MaxBytes + 1
       /\ left' = n
  /\ producerActive' = TRUE
  /\ callbackPc' = "loadState"
  /\ UNCHANGED <<slots, head, tail, ringState, epoch, metricVars, batchState,
                 batchEpoch, nextSeq, claim, stored, consumerVars, log>>

LoadRingState ==
  /\ callbackPc = "loadState"
  /\ batchState' = ringState
  /\ callbackPc' = "loadEpoch"
  /\ UNCHANGED <<ringVars, metricVars, batchEpoch, left, nextSeq, claim,
                 stored, consumerVars, log>>

LoadRingEpoch ==
  /\ callbackPc = "loadEpoch"
  /\ batchEpoch' = epoch
  /\ callbackPc' = IF batchState = "Open" THEN "check" ELSE "drop"
  /\ UNCHANGED <<ringVars, metricVars, batchState, left, nextSeq, claim,
                 stored, consumerVars, log>>

\* A batch that began poisoned is drop-only.
DropBatch ==
  /\ callbackPc = "drop"
  /\ dropped' = dropped + left
  /\ nextSeq' = nextSeq + left
  /\ left' = 0
  /\ callbackPc' = "end"
  /\ UNCHANGED <<ringVars, overflowSticky, ringPublished, batchState, batchEpoch,
                 claim, stored, consumerVars, log>>

\* publishOne, room left: the slot at head is the one to fill.
ClaimSlot ==
  /\ callbackPc = "check"
  /\ Succ(head) # tail
  /\ claim' = head
  /\ stored' = {}
  /\ callbackPc' = "store"
  /\ UNCHANGED <<ringVars, metricVars, batchState, batchEpoch, left, nextSeq,
                 consumerVars, log>>

\* publishOne, ring full.
Poison ==
  /\ callbackPc = "check"
  /\ Succ(head) = tail
  /\ ringState' = "Poisoned"
  /\ callbackPc' = "poisoned"
  /\ UNCHANGED <<slots, head, tail, epoch, producerActive, metricVars,
                 batchState, batchEpoch, left, nextSeq, claim, stored,
                 consumerVars, log>>

\* publishOne counts the refused byte, publishBatch the rest of the batch.
CountRefused ==
  /\ callbackPc = "poisoned"
  /\ overflowSticky' = TRUE
  /\ dropped' = dropped + 1 + (left - 1)
  /\ nextSeq' = nextSeq + left
  /\ left' = 0
  /\ callbackPc' = "end"
  /\ UNCHANGED <<ringVars, ringPublished, batchState, batchEpoch, claim, stored,
                 consumerVars, log>>

StoreSlot ==
  /\ callbackPc = "store" /\ "slot" \notin stored
  /\ slots' = [slots EXCEPT ![claim] = [seq |-> nextSeq, epoch |-> batchEpoch]]
  /\ stored' = stored \cup {"slot"}
  /\ UNCHANGED <<head, tail, ringState, epoch, producerActive, metricVars,
                 batchState, batchEpoch, callbackPc, left, nextSeq, claim,
                 consumerVars, log>>

StoreHead ==
  /\ callbackPc = "store" /\ "head" \notin stored
  /\ HeadStoreOrdered => "slot" \in stored
  /\ head' = Succ(claim)
  /\ stored' = stored \cup {"head"}
  /\ log' = log \cup {[seq |-> nextSeq, epoch |-> batchEpoch]}
  /\ UNCHANGED <<slots, tail, ringState, epoch, producerActive, metricVars,
                 batchState, batchEpoch, callbackPc, left, nextSeq, claim,
                 consumerVars>>

\* The published counter, then the next byte of the batch or its end.
NextByte ==
  /\ callbackPc = "store" /\ stored = {"slot", "head"}
  /\ ringPublished' = ringPublished + 1
  /\ nextSeq' = nextSeq + 1
  /\ left' = left - 1
  /\ stored' = {}
  /\ callbackPc' = IF left = 1 THEN "end" ELSE "check"
  /\ UNCHANGED <<ringVars, overflowSticky, dropped, batchState, batchEpoch,
                 claim, consumerVars, log>>

EndBatch ==
  /\ callbackPc = "end"
  /\ producerActive' = FALSE
  /\ callbackPc' = "idle"
  /\ UNCHANGED <<slots, head, tail, ringState, epoch, metricVars, batchState,
                 batchEpoch, left, nextSeq, claim, stored, consumerVars, log>>

Producer ==
  \/ BeginBatch \/ LoadRingState \/ LoadRingEpoch \/ DropBatch \/ ClaimSlot \/ Poison
  \/ CountRefused \/ StoreSlot \/ StoreHead \/ NextByte \/ EndBatch

(***************************************************************************)
(* The loop task: tryPop and resetAfterQuiescence.                         *)
(***************************************************************************)

ConsumerAt(from, to) ==
  /\ loopPc = from
  /\ loopPc' = to

\* tryPop finds an item; with tail = head it returns false, changing nothing.
PopLoad ==
  /\ ConsumerAt("idle", "copy")
  /\ tail # head
  /\ UNCHANGED <<ringVars, metricVars, producerVars, got, log>>

PopCopy ==
  /\ ConsumerAt("copy", "advance")
  /\ got' = Append(got, slots[tail])
  /\ UNCHANGED <<ringVars, metricVars, producerVars, log>>

PopAdvance ==
  /\ ConsumerAt("advance", "idle")
  /\ tail' = Succ(tail)
  /\ UNCHANGED <<slots, head, ringState, epoch, producerActive, metricVars,
                 producerVars, got, log>>

\* The three checks of resetAfterQuiescence; the loop task gives up and will
\* try again on its next pass when the first or the last of them fails.
ResetCheckQuiet ==
  /\ ConsumerAt("idle", "resetState")
  /\ ~producerActive
  /\ UNCHANGED <<ringVars, metricVars, producerVars, got, log>>

ResetCheckState ==
  /\ loopPc = "resetState"
  /\ loopPc' = IF ringState = "Poisoned" THEN "resetRecheck" ELSE "idle"
  /\ UNCHANGED <<ringVars, metricVars, producerVars, got, log>>

ResetRecheckQuiet ==
  /\ loopPc = "resetRecheck"
  /\ loopPc' = IF producerActive THEN "idle" ELSE "resetTail"
  /\ UNCHANGED <<ringVars, metricVars, producerVars, got, log>>

\* Mutated form: the ring starts over at its first slot.
ResetTailToStart ==
  /\ ConsumerAt("resetTail", "resetEpoch")
  /\ tail' = 0
  /\ UNCHANGED <<slots, head, ringState, epoch, producerActive, metricVars,
                 producerVars, got, log>>

ResetTail ==
  /\ ConsumerAt("resetTail", "resetEpoch")
  /\ tail' = head
  /\ UNCHANGED <<slots, head, ringState, epoch, producerActive, metricVars,
                 producerVars, got, log>>

\* Mutated form: bytes after the reset count as a continuation.
ResetKeepsEpoch ==
  /\ ConsumerAt("resetEpoch", "resetOpen")
  /\ UNCHANGED <<ringVars, metricVars, producerVars, got, log>>

ResetEpoch ==
  /\ ConsumerAt("resetEpoch", "resetOpen")
  /\ epoch' = epoch + 1
  /\ UNCHANGED <<slots, head, tail, ringState, producerActive, metricVars,
                 producerVars, got, log>>

ResetOpen ==
  /\ ConsumerAt("resetOpen", "idle")
  /\ ringState' = "Open"
  /\ UNCHANGED <<slots, head, tail, epoch, producerActive, metricVars,
                 producerVars, got, log>>

Consumer ==
  \/ PopLoad \/ PopCopy \/ PopAdvance
  \/ ResetCheckQuiet \/ ResetCheckState \/ ResetRecheckQuiet
  \/ ResetTail \/ ResetEpoch \/ ResetOpen

RingNext == Producer \/ Consumer

RingSpec == RingInit /\ [][RingNext]_rxRingVars

-----------------------------------------------------------------------------
(***************************************************************************)
(* Properties.                                                             *)
(***************************************************************************)

RingTypeOK ==
  /\ slots \in [RingIndices -> Items]
  /\ head \in RingIndices /\ tail \in RingIndices /\ claim \in RingIndices
  /\ ringState \in RingStates /\ batchState \in RingStates
  /\ epoch \in Nat \ {0} /\ batchEpoch \in Nat \ {0}
  /\ producerActive \in BOOLEAN /\ overflowSticky \in BOOLEAN
  /\ dropped \in Nat /\ ringPublished \in Nat
  /\ callbackPc \in {"idle", "loadState", "loadEpoch", "drop", "check", "poisoned",
              "store", "end"}
  /\ left \in Nat /\ nextSeq \in Nat \ {0}
  /\ stored \in SUBSET {"slot", "head"}
  /\ loopPc \in {"idle", "copy", "advance", "resetState", "resetRecheck",
              "resetTail", "resetEpoch", "resetOpen"}
  /\ got \in Seq(Items)
  /\ log \subseteq Items

\* The bytes published under one ingress epoch are consecutive bytes of the
\* stream: nothing is lost between two of them.  KwpMeasurementSession relies
\* on this when it takes an unchanged ingressEpoch as proof that no byte is
\* missing (onRxItem), however the reset and the callback interleave.
NoHoleInEpoch ==
  \A first, last \in log :
    first.epoch = last.epoch =>
      \A n \in first.seq .. last.seq :
        [seq |-> n, epoch |-> first.epoch] \in log

(***************************************************************************)
(* The ring as the queue of IngressQueue.  A byte is accepted when head    *)
(* moves past it, taken when it is copied, the loss of the rest of a batch *)
(* is decided by poisoning, and the next epoch begins with the discard.    *)
(***************************************************************************)
Distance(i, j) == IF i <= j THEN j - i ELSE j + RingCapacity - i
SlotFrom(i, n) == IF i + n < RingCapacity THEN i + n ELSE i + n - RingCapacity

\* A byte that is copied and not yet passed by tail is no longer waiting.
Taken == IF loopPc = "advance" THEN 1 ELSE 0
Waiting == [n \in 1 .. (Distance(tail, head) - Taken) |-> slots[SlotFrom(tail, n - 1 + Taken)]]

NextOffered ==
  IF callbackPc = "poisoned" THEN nextSeq + left
  ELSE IF callbackPc = "store" /\ "head" \in stored THEN nextSeq + 1 ELSE nextSeq

EpochPhase ==
  IF loopPc \in {"resetEpoch", "resetOpen"} THEN "fresh"
  ELSE IF ringState = "Poisoned" THEN "broken"
  ELSE IF \E item \in log : item.epoch = epoch THEN "running" ELSE "fresh"

\* The discard and the increment of epoch_ are one step of the queue.
QueueEpoch == IF loopPc = "resetEpoch" THEN epoch + 1 ELSE epoch

Ingress == INSTANCE IngressQueue WITH
  Room <- RingCapacity - 1, next <- NextOffered, waiting <- Waiting, epoch <- QueueEpoch,
  phase <- EpochPhase, given <- got

\* Callback, tryPop and reset, however their accesses interleave, behave as a
\* queue that hands out the stream in order and loses bytes only between two
\* epochs.  KwpMeasurementSession takes an unchanged ingressEpoch as proof
\* that no byte is missing (onRxItem).
ImplementsIngressQueue == Ingress!QueueSpec

\* Every byte the callback was handed is counted once, as published or as
\* dropped, whichever way its batch ended.
EveryByteCounted ==
  callbackPc = "idle" => ringPublished + dropped = nextSeq - 1

\* While a byte is being published the reset is not moving tail, and advancing
\* head cannot make a full ring look empty, which would lose all it holds.
PublishKeepsRoom ==
  callbackPc = "store" =>
    /\ loopPc \notin {"resetTail", "resetEpoch", "resetOpen"}
    /\ "head" \notin stored => Succ(head) # tail

\* What the ring promises at every moment, whatever callback and reset do.
BytesInOrder == RingTypeOK /\ NoHoleInEpoch /\ EveryByteCounted /\ PublishKeepsRoom
=============================================================================
