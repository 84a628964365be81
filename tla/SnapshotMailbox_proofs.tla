----------------------- MODULE SnapshotMailbox_proofs -----------------------
(***************************************************************************)
(* Proofs about SnapshotMailbox for every number of slots from three on    *)
(* and every number of publications.                                       *)
(***************************************************************************)
EXTENDS SnapshotMailbox, TLAPS

Live(i) == slotState[i] \in {"Published", "Reading"}

\* The slot just written is the newest, and not yet counted.
Uncounted == publisherPc \in {"exchange", "count"}

\* A slot being read is the reader's, and it has at most one.
ReaderInv ==
  /\ \A i \in Slots :
       slotState[i] = "Reading" <=>
         readerPc \in {"value", "publication", "release"} /\ i = readIndex
  /\ readerPc \in {"take", "value", "publication", "release"} => readIndex \in Slots
  /\ readerPc = "index" => attempt < SlotCount
  /\ readerPc = "take" => attempt < SlotCount

\* A slot being written is the publisher's; while it is not in the middle of a
\* publication at most one slot is published.
PublisherInv ==
  /\ \A i \in Slots :
       slotState[i] = "Writing" <=>
         publisherPc \in {"value", "publication", "state"} /\ i = writeIndex
  /\ \A i \in Slots :
       slotState[i] = "Published" =>
         \/ i = publishedIndex
         \/ publisherPc = "exchange" /\ i = writeIndex
         \/ publisherPc \in {"count", "free"} /\ i = oldIndex
  /\ publisherPc \in {"count", "free"} => publishedIndex = writeIndex

\* A free slot lies ahead of the scan: the reader frees slots and takes only
\* published ones.
ScanInv ==
  /\ drops = 0
  /\ publisherPc = "claim" => \E i \in Slots : i >= writeIndex /\ slotState[i] = "Free"

\* What a slot holds belongs together.
PieceInv ==
  /\ snapshot = IF publisherPc \in {"idle", "free"} THEN published ELSE published + 1
  /\ publisherPc \in {"publication", "state", "exchange", "count"} =>
       slotValue[writeIndex] = snapshot
  /\ publisherPc \in {"state", "exchange", "count"} =>
       slotPublication[writeIndex] = snapshot
  /\ \A i \in Slots : Live(i) => slotValue[i] = slotPublication[i]
  /\ readerPc = "publication" => value = slotValue[readIndex]
  /\ readerPc = "release" => value = slotValue[readIndex] /\ publication = value

\* The index names a slot that is as new as the count, if it is published.
FreshInv ==
  /\ atCall <= published
  /\ publishedIndex # NoSlot /\ slotState[publishedIndex] = "Published" =>
       slotPublication[publishedIndex] >= published
  /\ readerPc = "take" /\ slotState[readIndex] = "Published" =>
       slotPublication[readIndex] >= atCall
  /\ readerPc \in {"value", "publication", "release"} =>
       slotPublication[readIndex] >= atCall

\* Different slots hold different snapshots, none of them returned before.
OnceInv ==
  /\ \A v \in delivered : v <= published \/ (Uncounted /\ v = snapshot)
  /\ \A i \in Slots : Live(i) =>
       /\ slotValue[i] \notin delivered
       /\ slotValue[i] <= published \/ (Uncounted /\ i = writeIndex)
  /\ \A i, j \in Slots :
       Live(i) /\ Live(j) /\ slotValue[i] = slotValue[j] => i = j

IInv ==
  /\ MailboxTypeOK /\ ReaderInv /\ PublisherInv /\ ScanInv
  /\ PieceInv /\ FreshInv /\ OnceInv

-----------------------------------------------------------------------------
\* Slots and the index that names none differ; there are at least three slots.
LEMMA SlotFacts ==
  /\ NoSlot \notin Slots /\ {0, 1, 2} \subseteq Slots
  /\ \A i \in Slots :
       i \in Nat /\ i < SlotCount /\ (i + 1 < SlotCount => i + 1 \in Slots)
  BY SlotAssumption DEF Slots, NoSlot

\* The mailbox starts with all slots free and no index (lines 13-15, 89-94).
LEMMA InitInv == MailboxInit => IInv
<1> SUFFICES ASSUME MailboxInit PROVE IInv
  OBVIOUS
<1> USE SlotFacts, SlotAssumption DEF MailboxInit
<1>1. MailboxTypeOK
  BY DEF MailboxTypeOK, SlotStates, MailboxIndices
<1>2. ReaderInv /\ PublisherInv /\ ScanInv
  BY DEF ReaderInv, PublisherInv, ScanInv
<1>3. PieceInv /\ FreshInv /\ OnceInv
  BY DEF PieceInv, FreshInv, OnceInv, Live, Uncounted
<1> QED
  BY <1>1, <1>2, <1>3 DEF IInv

\* No index leaves the slots, and a receive makes no more attempts than slots.
LEMMA TypeStep ==
  MailboxTypeOK /\ ReaderInv /\ [MailboxNext]_mailboxVars => MailboxTypeOK'
<1> SUFFICES ASSUME MailboxTypeOK /\ ReaderInv, [MailboxNext]_mailboxVars
             PROVE  MailboxTypeOK'
  OBVIOUS
<1> USE SlotFacts, SlotAssumption
    DEF MailboxTypeOK, ReaderInv, MailboxIndices, SlotStates,
        slotVars, publisherVars, readerVars
<1>1. CASE Publish
  BY <1>1 DEF Publish
<1>2. CASE Claim
  BY <1>2 DEF Claim
<1>3. CASE ClaimNext
  BY <1>3 DEF ClaimNext
<1>4. CASE WriteValue
  BY <1>4 DEF WriteValue
<1>5. CASE WritePublication
  BY <1>5 DEF WritePublication
<1>6. CASE PublishSlot
  BY <1>6 DEF PublishSlot
<1>7. CASE Exchange
  BY <1>7 DEF Exchange
<1>8. CASE Count
  BY <1>8 DEF Count
<1>9. CASE FreeOld
  BY <1>9 DEF FreeOld
<1>10. CASE Receive
  BY <1>10 DEF Receive
<1>11. CASE LoadIndex
  BY <1>11 DEF LoadIndex
<1>12. CASE Take
  BY <1>12 DEF Take
<1>13. CASE TakeFails
  BY <1>13 DEF TakeFails
<1>14. CASE CopyValue
  BY <1>14 DEF CopyValue
<1>15. CASE CopyPublication
  BY <1>15 DEF CopyPublication
<1>16. CASE Release
  BY <1>16 DEF Release
<1>17. CASE UNCHANGED mailboxVars
  BY <1>17 DEF mailboxVars
<1> QED
  BY <1>1, <1>2, <1>3, <1>4, <1>5, <1>6, <1>7, <1>8, <1>9,
     <1>10, <1>11, <1>12, <1>13, <1>14, <1>15, <1>16, <1>17
     DEF MailboxNext, Publisher, Reader

\* Only the reader's own actions make a slot Reading or end that.
LEMMA ReaderStep ==
  MailboxTypeOK /\ ReaderInv /\ PublisherInv
  /\ [MailboxNext]_mailboxVars => ReaderInv'
<1> SUFFICES ASSUME MailboxTypeOK /\ ReaderInv /\ PublisherInv, [MailboxNext]_mailboxVars
             PROVE  ReaderInv'
  OBVIOUS
<1> USE SlotFacts, SlotAssumption
    DEF MailboxTypeOK, ReaderInv, PublisherInv, MailboxIndices, SlotStates,
        slotVars, publisherVars, readerVars
<1>1. CASE Publish
  BY <1>1 DEF Publish
<1>2. CASE Claim
  BY <1>2 DEF Claim
<1>3. CASE ClaimNext
  BY <1>3 DEF ClaimNext
<1>4. CASE WriteValue
  BY <1>4 DEF WriteValue
<1>5. CASE WritePublication
  BY <1>5 DEF WritePublication
<1>6. CASE PublishSlot
  BY <1>6 DEF PublishSlot
<1>7. CASE Exchange
  BY <1>7 DEF Exchange
<1>8. CASE Count
  BY <1>8 DEF Count
<1>9. CASE FreeOld
  BY <1>9 DEF FreeOld
<1>10. CASE Receive
  BY <1>10 DEF Receive
<1>11. CASE LoadIndex
  BY <1>11 DEF LoadIndex
<1>12. CASE Take
  BY <1>12 DEF Take
<1>13. CASE TakeFails
  BY <1>13 DEF TakeFails
<1>14. CASE CopyValue
  BY <1>14 DEF CopyValue
<1>15. CASE CopyPublication
  BY <1>15 DEF CopyPublication
<1>16. CASE Release
  BY <1>16 DEF Release
<1>17. CASE UNCHANGED mailboxVars
  BY <1>17 DEF mailboxVars
<1> QED
  BY <1>1, <1>2, <1>3, <1>4, <1>5, <1>6, <1>7, <1>8, <1>9,
     <1>10, <1>11, <1>12, <1>13, <1>14, <1>15, <1>16, <1>17
     DEF MailboxNext, Publisher, Reader

\* Only the publisher's own actions make a slot Writing or Published.
LEMMA PublisherStep ==
  MailboxTypeOK /\ ReaderInv /\ PublisherInv
  /\ [MailboxNext]_mailboxVars => PublisherInv'
<1> SUFFICES ASSUME MailboxTypeOK /\ ReaderInv /\ PublisherInv, [MailboxNext]_mailboxVars
             PROVE  PublisherInv'
  OBVIOUS
<1> USE SlotFacts, SlotAssumption
    DEF MailboxTypeOK, ReaderInv, PublisherInv, MailboxIndices, SlotStates,
        slotVars, publisherVars, readerVars
<1>1. CASE Publish
  BY <1>1 DEF Publish
<1>2. CASE Claim
  BY <1>2 DEF Claim
<1>3. CASE ClaimNext
  BY <1>3 DEF ClaimNext
<1>4. CASE WriteValue
  BY <1>4 DEF WriteValue
<1>5. CASE WritePublication
  BY <1>5 DEF WritePublication
<1>6. CASE PublishSlot
  BY <1>6 DEF PublishSlot
<1>7. CASE Exchange
  BY <1>7 DEF Exchange
<1>8. CASE Count
  BY <1>8 DEF Count
<1>9. CASE FreeOld
  BY <1>9 DEF FreeOld
<1>10. CASE Receive
  BY <1>10 DEF Receive
<1>11. CASE LoadIndex
  BY <1>11 DEF LoadIndex
<1>12. CASE Take
  BY <1>12 DEF Take
<1>13. CASE TakeFails
  BY <1>13 DEF TakeFails
<1>14. CASE CopyValue
  BY <1>14 DEF CopyValue
<1>15. CASE CopyPublication
  BY <1>15 DEF CopyPublication
<1>16. CASE Release
  BY <1>16 DEF Release
<1>17. CASE UNCHANGED mailboxVars
  BY <1>17 DEF mailboxVars
<1> QED
  BY <1>1, <1>2, <1>3, <1>4, <1>5, <1>6, <1>7, <1>8, <1>9,
     <1>10, <1>11, <1>12, <1>13, <1>14, <1>15, <1>16, <1>17
     DEF MailboxNext, Publisher, Reader

\* publish always finds a slot: what was free when the scan began stays free.
LEMMA ScanStep ==
  MailboxTypeOK /\ ReaderInv /\ PublisherInv /\ ScanInv
  /\ [MailboxNext]_mailboxVars => ScanInv'
<1> SUFFICES ASSUME MailboxTypeOK /\ ReaderInv /\ PublisherInv /\ ScanInv,
                    [MailboxNext]_mailboxVars
             PROVE  ScanInv'
  OBVIOUS
<1> USE SlotFacts, SlotAssumption
    DEF MailboxTypeOK, ReaderInv, PublisherInv, ScanInv, MailboxIndices, SlotStates,
        slotVars, publisherVars, readerVars
<1>1. CASE Publish
  BY <1>1 DEF Publish
<1>2. CASE Claim
  BY <1>2 DEF Claim
<1>3. CASE ClaimNext
  BY <1>3 DEF ClaimNext
<1>4. CASE WriteValue
  BY <1>4 DEF WriteValue
<1>5. CASE WritePublication
  BY <1>5 DEF WritePublication
<1>6. CASE PublishSlot
  BY <1>6 DEF PublishSlot
<1>7. CASE Exchange
  BY <1>7 DEF Exchange
<1>8. CASE Count
  BY <1>8 DEF Count
<1>9. CASE FreeOld
  BY <1>9 DEF FreeOld
<1>10. CASE Receive
  BY <1>10 DEF Receive
<1>11. CASE LoadIndex
  BY <1>11 DEF LoadIndex
<1>12. CASE Take
  BY <1>12 DEF Take
<1>13. CASE TakeFails
  BY <1>13 DEF TakeFails
<1>14. CASE CopyValue
  BY <1>14 DEF CopyValue
<1>15. CASE CopyPublication
  BY <1>15 DEF CopyPublication
<1>16. CASE Release
  BY <1>16 DEF Release
<1>17. CASE UNCHANGED mailboxVars
  BY <1>17 DEF mailboxVars
<1> QED
  BY <1>1, <1>2, <1>3, <1>4, <1>5, <1>6, <1>7, <1>8, <1>9,
     <1>10, <1>11, <1>12, <1>13, <1>14, <1>15, <1>16, <1>17
     DEF MailboxNext, Publisher, Reader

\* Nobody writes to a slot that is published or being read.
LEMMA PieceStep ==
  MailboxTypeOK /\ ReaderInv /\ PublisherInv /\ ScanInv /\ PieceInv
  /\ [MailboxNext]_mailboxVars => PieceInv'
<1> SUFFICES ASSUME MailboxTypeOK /\ ReaderInv /\ PublisherInv /\ ScanInv /\ PieceInv,
                    [MailboxNext]_mailboxVars
             PROVE  PieceInv'
  OBVIOUS
<1> USE SlotFacts, SlotAssumption
    DEF MailboxTypeOK, ReaderInv, PublisherInv, ScanInv, PieceInv, Live,
        MailboxIndices, SlotStates, slotVars, publisherVars, readerVars
<1>1. CASE Publish
  BY <1>1 DEF Publish
<1>2. CASE Claim
  BY <1>2 DEF Claim
<1>3. CASE ClaimNext
  BY <1>3 DEF ClaimNext
<1>4. CASE WriteValue
  BY <1>4 DEF WriteValue
<1>5. CASE WritePublication
  BY <1>5 DEF WritePublication
<1>6. CASE PublishSlot
  BY <1>6 DEF PublishSlot
<1>7. CASE Exchange
  BY <1>7 DEF Exchange
<1>8. CASE Count
  BY <1>8 DEF Count
<1>9. CASE FreeOld
  BY <1>9 DEF FreeOld
<1>10. CASE Receive
  BY <1>10 DEF Receive
<1>11. CASE LoadIndex
  BY <1>11 DEF LoadIndex
<1>12. CASE Take
  BY <1>12 DEF Take
<1>13. CASE TakeFails
  BY <1>13 DEF TakeFails
<1>14. CASE CopyValue
  BY <1>14 DEF CopyValue
<1>15. CASE CopyPublication
  BY <1>15 DEF CopyPublication
<1>16. CASE Release
  BY <1>16 DEF Release
<1>17. CASE UNCHANGED mailboxVars
  BY <1>17 DEF mailboxVars
<1> QED
  BY <1>1, <1>2, <1>3, <1>4, <1>5, <1>6, <1>7, <1>8, <1>9,
     <1>10, <1>11, <1>12, <1>13, <1>14, <1>15, <1>16, <1>17
     DEF MailboxNext, Publisher, Reader

\* The index never lags behind the count.
LEMMA FreshStep ==
  MailboxTypeOK /\ ReaderInv /\ PublisherInv /\ PieceInv /\ FreshInv
  /\ [MailboxNext]_mailboxVars => FreshInv'
<1> SUFFICES ASSUME MailboxTypeOK /\ ReaderInv /\ PublisherInv /\ PieceInv /\ FreshInv,
                    [MailboxNext]_mailboxVars
             PROVE  FreshInv'
  OBVIOUS
<1> USE SlotFacts, SlotAssumption
    DEF MailboxTypeOK, ReaderInv, PublisherInv, PieceInv, FreshInv, Live,
        MailboxIndices, SlotStates, slotVars, publisherVars, readerVars
<1>1. CASE Publish
  BY <1>1 DEF Publish
<1>2. CASE Claim
  BY <1>2 DEF Claim
<1>3. CASE ClaimNext
  BY <1>3 DEF ClaimNext
<1>4. CASE WriteValue
  BY <1>4 DEF WriteValue
<1>5. CASE WritePublication
  BY <1>5 DEF WritePublication
<1>6. CASE PublishSlot
  BY <1>6 DEF PublishSlot
<1>7. CASE Exchange
  BY <1>7 DEF Exchange
<1>8. CASE Count
  BY <1>8 DEF Count
<1>9. CASE FreeOld
  BY <1>9 DEF FreeOld
<1>10. CASE Receive
  BY <1>10 DEF Receive
<1>11. CASE LoadIndex
  BY <1>11 DEF LoadIndex
<1>12. CASE Take
  BY <1>12 DEF Take
<1>13. CASE TakeFails
  BY <1>13 DEF TakeFails
<1>14. CASE CopyValue
  BY <1>14 DEF CopyValue
<1>15. CASE CopyPublication
  BY <1>15 DEF CopyPublication
<1>16. CASE Release
  BY <1>16 DEF Release
<1>17. CASE UNCHANGED mailboxVars
  BY <1>17 DEF mailboxVars
<1> QED
  BY <1>1, <1>2, <1>3, <1>4, <1>5, <1>6, <1>7, <1>8, <1>9,
     <1>10, <1>11, <1>12, <1>13, <1>14, <1>15, <1>16, <1>17
     DEF MailboxNext, Publisher, Reader

\* A snapshot leaves its slot when it is returned.
LEMMA OnceStep ==
  MailboxTypeOK /\ ReaderInv /\ PublisherInv /\ PieceInv /\ OnceInv
  /\ [MailboxNext]_mailboxVars => OnceInv'
<1> SUFFICES ASSUME MailboxTypeOK /\ ReaderInv /\ PublisherInv /\ PieceInv /\ OnceInv,
                    [MailboxNext]_mailboxVars
             PROVE  OnceInv'
  OBVIOUS
<1> USE SlotFacts, SlotAssumption
    DEF MailboxTypeOK, ReaderInv, PublisherInv, PieceInv, OnceInv, Live,
        Uncounted, MailboxIndices, SlotStates, slotVars, publisherVars, readerVars
<1>1. CASE Publish
  BY <1>1 DEF Publish
<1>2. CASE Claim
  BY <1>2 DEF Claim
<1>3. CASE ClaimNext
  BY <1>3 DEF ClaimNext
<1>4. CASE WriteValue
  BY <1>4 DEF WriteValue
<1>5. CASE WritePublication
  BY <1>5 DEF WritePublication
<1>6. CASE PublishSlot
  BY <1>6 DEF PublishSlot
<1>7. CASE Exchange
  BY <1>7 DEF Exchange
<1>8. CASE Count
  BY <1>8 DEF Count
<1>9. CASE FreeOld
  BY <1>9 DEF FreeOld
<1>10. CASE Receive
  BY <1>10 DEF Receive
<1>11. CASE LoadIndex
  BY <1>11 DEF LoadIndex
<1>12. CASE Take
  BY <1>12 DEF Take
<1>13. CASE TakeFails
  BY <1>13 DEF TakeFails
<1>14. CASE CopyValue
  BY <1>14 DEF CopyValue
<1>15. CASE CopyPublication
  BY <1>15 DEF CopyPublication
<1>16. CASE Release
  BY <1>16 DEF Release
<1>17. CASE UNCHANGED mailboxVars
  BY <1>17 DEF mailboxVars
<1> QED
  BY <1>1, <1>2, <1>3, <1>4, <1>5, <1>6, <1>7, <1>8, <1>9,
     <1>10, <1>11, <1>12, <1>13, <1>14, <1>15, <1>16, <1>17
     DEF MailboxNext, Publisher, Reader

\* Every reachable state satisfies the invariant.
THEOREM Invariant == MailboxSpec => []IInv
<1>1. IInv /\ [MailboxNext]_mailboxVars => IInv'
  BY TypeStep, ReaderStep, PublisherStep, ScanStep, PieceStep, FreshStep,
     OnceStep
     DEF IInv
<1> QED
  BY InitInv, <1>1, PTL DEF MailboxSpec

\* Type correctness of the mailbox (slots_, publishedIndex_, the locals of
\* publish and receive).
THEOREM TypeCorrect == MailboxSpec => []MailboxTypeOK
<1>1. IInv => MailboxTypeOK
  BY DEF IInv
<1> QED
  BY Invariant, <1>1, PTL

\* publish never drops: three slots are sufficient for one reader, as the
\* comment in publish says (lines 18-20).
THEOREM NeverDropped == MailboxSpec => []NothingDropped
<1>1. IInv => NothingDropped
  BY DEF IInv, ScanInv, NothingDropped
<1> QED
  BY Invariant, <1>1, PTL

\* receive copies value and publication of one and the same snapshot.
THEOREM SnapshotsInOnePiece == MailboxSpec => []ReadInOnePiece
<1>1. IInv => ReadInOnePiece
  BY DEF IInv, PieceInv, ReadInOnePiece
<1> QED
  BY Invariant, <1>1, PTL

\* receive returns nothing older than what was counted when it was called.
THEOREM NothingStale == MailboxSpec => []AsFreshAsTheCall
<1>1. IInv => AsFreshAsTheCall
  <2> SUFFICES ASSUME IInv, readerPc = "release" PROVE publication >= atCall
    BY DEF AsFreshAsTheCall
  <2>1. readIndex \in Slots /\ slotState[readIndex] = "Reading"
    BY DEF IInv, ReaderInv
  <2>2. publication = slotValue[readIndex]
        /\ slotValue[readIndex] = slotPublication[readIndex]
    BY <2>1 DEF IInv, PieceInv, Live
  <2> QED
    BY <2>2 DEF IInv, FreshInv
<1> QED
  BY Invariant, <1>1, PTL

\* receive never returns a snapshot a second time.
THEOREM NothingTwice == MailboxSpec => []ReturnedOnce
<1>1. IInv => ReturnedOnce
  <2> SUFFICES ASSUME IInv, readerPc = "release" PROVE value \notin delivered
    BY DEF ReturnedOnce
  <2>1. readIndex \in Slots /\ slotState[readIndex] = "Reading"
    BY DEF IInv, ReaderInv
  <2> QED
    BY <2>1 DEF IInv, PieceInv, OnceInv, Live
<1> QED
  BY Invariant, <1>1, PTL

\* All the mailbox promises, for any number of slots from three on.
THEOREM SnapshotsStayIntact == MailboxSpec => []SnapshotsIntact
<1>1. MailboxTypeOK /\ NothingDropped /\ ReadInOnePiece /\ AsFreshAsTheCall
      /\ ReturnedOnce
      => SnapshotsIntact
  BY DEF SnapshotsIntact
<1> QED
  BY TypeCorrect, NeverDropped, SnapshotsInOnePiece, NothingStale, NothingTwice, <1>1, PTL
=============================================================================
