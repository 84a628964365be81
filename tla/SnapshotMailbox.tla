--------------------------- MODULE SnapshotMailbox ---------------------------
(***************************************************************************)
(* The mailbox between the processing task and one consumer of snapshots   *)
(* (LatestSnapshotMailbox, measurement_snapshot_mailbox.h); the logger's   *)
(* status goes through the same algorithm (LoggerStatusMailbox,            *)
(* logger_channels.h).  publish never waits and overwrites; receive takes  *)
(* the latest.                                                             *)
(*                                                                         *)
(* Every access to a field both tasks use is a step of its own, and so are *)
(* the two plain writes and the two plain reads of a slot.  A snapshot is  *)
(* identified with the number of the call of publish that brought it.  The *)
(* counter of overwrites only records and is left out.                     *)
(***************************************************************************)
EXTENDS Integers

CONSTANTS
  SlotCount,       \* kSlotCount: 3 in the code
  MaxPublications  \* bound: calls of publish

ASSUME SlotAssumption == SlotCount \in Nat /\ SlotCount >= 3
ASSUME PublicationAssumption == MaxPublications \in Nat

VARIABLES
  slotState, slotValue, slotPublication,   \* slots_
  publishedIndex, published, drops,
  publisherPc,        \* where publish is
  snapshot,   \* its argument
  writeIndex, \* write_index, and the loop variable that looks for it
  oldIndex,
  readerPc,        \* where receive is
  attempt, readIndex, consumed,
  value, publication,  \* what receive has copied
  atCall,     \* history: published when receive was called
  delivered   \* history: snapshots receive has returned

slotVars == <<slotState, slotValue, slotPublication>>
publisherVars == <<publisherPc, snapshot, writeIndex, oldIndex>>
readerVars == <<readerPc, attempt, readIndex, consumed, value, publication, atCall>>
mailboxVars == <<slotVars, publishedIndex, published, drops, publisherVars, readerVars,
          delivered>>

Slots == 0 .. SlotCount - 1
NoSlot == -1
SlotStates == {"Free", "Writing", "Published", "Reading"}

MailboxInit ==
  /\ slotState = [i \in Slots |-> "Free"]
  /\ slotValue = [i \in Slots |-> 0]
  /\ slotPublication = [i \in Slots |-> 0]
  /\ publishedIndex = NoSlot /\ published = 0 /\ drops = 0
  /\ publisherPc = "idle" /\ snapshot = 0 /\ writeIndex = 0 /\ oldIndex = NoSlot
  /\ readerPc = "idle" /\ attempt = 0 /\ readIndex = NoSlot /\ consumed = 0
  /\ value = 0 /\ publication = 0 /\ atCall = 0
  /\ delivered = {}

-----------------------------------------------------------------------------
(***************************************************************************)
(* publish                                                                 *)
(***************************************************************************)

Publish ==
  /\ publisherPc = "idle" /\ snapshot < MaxPublications
  /\ publisherPc' = "claim"
  /\ snapshot' = snapshot + 1
  /\ writeIndex' = 0
  /\ UNCHANGED <<slotVars, publishedIndex, published, drops, oldIndex,
                 readerVars, delivered>>

\* The exchange on slot writeIndex succeeds.
Claim ==
  /\ publisherPc = "claim" /\ slotState[writeIndex] = "Free"
  /\ slotState' = [slotState EXCEPT ![writeIndex] = "Writing"]
  /\ publisherPc' = "value"
  /\ UNCHANGED <<slotValue, slotPublication, publishedIndex, published, drops,
                 snapshot, writeIndex, oldIndex, readerVars, delivered>>

\* It fails; after the last slot the snapshot is dropped.
ClaimNext ==
  /\ publisherPc = "claim" /\ slotState[writeIndex] # "Free"
  /\ IF writeIndex + 1 < SlotCount
     THEN writeIndex' = writeIndex + 1 /\ UNCHANGED <<publisherPc, drops>>
     ELSE publisherPc' = "idle" /\ drops' = drops + 1 /\ UNCHANGED writeIndex
  /\ UNCHANGED <<slotVars, publishedIndex, published, snapshot, oldIndex,
                 readerVars, delivered>>

WriteValue ==
  /\ publisherPc = "value"
  /\ slotValue' = [slotValue EXCEPT ![writeIndex] = snapshot]
  /\ publisherPc' = "publication"
  /\ UNCHANGED <<slotState, slotPublication, publishedIndex, published, drops,
                 snapshot, writeIndex, oldIndex, readerVars, delivered>>

WritePublication ==
  /\ publisherPc = "publication"
  /\ slotPublication' = [slotPublication EXCEPT ![writeIndex] = published + 1]
  /\ publisherPc' = "state"
  /\ UNCHANGED <<slotState, slotValue, publishedIndex, published, drops,
                 snapshot, writeIndex, oldIndex, readerVars, delivered>>

PublishSlot ==
  /\ publisherPc = "state"
  /\ slotState' = [slotState EXCEPT ![writeIndex] = "Published"]
  /\ publisherPc' = "exchange"
  /\ UNCHANGED <<slotValue, slotPublication, publishedIndex, published, drops,
                 snapshot, writeIndex, oldIndex, readerVars, delivered>>

Exchange ==
  /\ publisherPc = "exchange"
  /\ oldIndex' = publishedIndex
  /\ publishedIndex' = writeIndex
  /\ publisherPc' = "count"
  /\ UNCHANGED <<slotVars, published, drops, snapshot, writeIndex, readerVars,
                 delivered>>

Count ==
  /\ publisherPc = "count"
  /\ published' = published + 1
  /\ publisherPc' = "free"
  /\ UNCHANGED <<slotVars, publishedIndex, drops, snapshot, writeIndex,
                 oldIndex, readerVars, delivered>>

\* Mutated form: the slot before is freed though it may be being read.
FreeAlways ==
  /\ publisherPc = "free" /\ publisherPc' = "idle"
  /\ slotState' = IF oldIndex \notin {NoSlot, writeIndex}
                  THEN [slotState EXCEPT ![oldIndex] = "Free"] ELSE slotState
  /\ UNCHANGED <<slotValue, slotPublication, publishedIndex, published, drops,
                 snapshot, writeIndex, oldIndex, readerVars, delivered>>

\* The slot published before is freed unless the reader has taken it.
FreeOld ==
  /\ publisherPc = "free" /\ publisherPc' = "idle"
  /\ slotState' = IF oldIndex \notin {NoSlot, writeIndex}
                     /\ slotState[oldIndex] = "Published"
                  THEN [slotState EXCEPT ![oldIndex] = "Free"] ELSE slotState
  /\ UNCHANGED <<slotValue, slotPublication, publishedIndex, published, drops,
                 snapshot, writeIndex, oldIndex, readerVars, delivered>>

Publisher ==
  \/ Publish \/ Claim \/ ClaimNext \/ WriteValue \/ WritePublication
  \/ PublishSlot \/ Exchange \/ Count \/ FreeOld

-----------------------------------------------------------------------------
(***************************************************************************)
(* receive                                                                 *)
(***************************************************************************)

\* With nothing new it returns at once, and nothing changes.
Receive ==
  /\ readerPc = "idle" /\ published # consumed
  /\ readerPc' = "index"
  /\ attempt' = 0
  /\ atCall' = published
  /\ UNCHANGED <<slotVars, publishedIndex, published, drops, publisherVars,
                 readIndex, consumed, value, publication, delivered>>

LoadIndex ==
  /\ readerPc = "index"
  /\ readIndex' = publishedIndex
  /\ readerPc' = IF publishedIndex = NoSlot THEN "idle" ELSE "take"
  /\ UNCHANGED <<slotVars, publishedIndex, published, drops, publisherVars,
                 attempt, consumed, value, publication, atCall, delivered>>

Take ==
  /\ readerPc = "take" /\ slotState[readIndex] = "Published"
  /\ slotState' = [slotState EXCEPT ![readIndex] = "Reading"]
  /\ readerPc' = "value"
  /\ UNCHANGED <<slotValue, slotPublication, publishedIndex, published, drops,
                 publisherVars, attempt, readIndex, consumed, value, publication,
                 atCall, delivered>>

\* After as many attempts as there are slots it returns empty-handed.
TakeFails ==
  /\ readerPc = "take" /\ slotState[readIndex] # "Published"
  /\ attempt' = attempt + 1
  /\ readerPc' = IF attempt + 1 < SlotCount THEN "index" ELSE "idle"
  /\ UNCHANGED <<slotVars, publishedIndex, published, drops, publisherVars,
                 readIndex, consumed, value, publication, atCall, delivered>>

CopyValue ==
  /\ readerPc = "value"
  /\ value' = slotValue[readIndex]
  /\ readerPc' = "publication"
  /\ UNCHANGED <<slotVars, publishedIndex, published, drops, publisherVars,
                 attempt, readIndex, consumed, publication, atCall, delivered>>

\* Mutated form: the count is taken for the number of the slot.
CopyCount ==
  /\ readerPc = "publication"
  /\ publication' = published
  /\ readerPc' = "release"
  /\ UNCHANGED <<slotVars, publishedIndex, published, drops, publisherVars,
                 attempt, readIndex, consumed, value, atCall, delivered>>

CopyPublication ==
  /\ readerPc = "publication"
  /\ publication' = slotPublication[readIndex]
  /\ readerPc' = "release"
  /\ UNCHANGED <<slotVars, publishedIndex, published, drops, publisherVars,
                 attempt, readIndex, consumed, value, atCall, delivered>>

\* The slot is free again; consumed_ is the reader's own.
Release ==
  /\ readerPc = "release"
  /\ slotState' = [slotState EXCEPT ![readIndex] = "Free"]
  /\ consumed' = publication
  /\ delivered' = delivered \union {value}
  /\ readerPc' = "idle"
  /\ UNCHANGED <<slotValue, slotPublication, publishedIndex, published, drops,
                 publisherVars, attempt, readIndex, value, publication, atCall>>

Reader ==
  \/ Receive \/ LoadIndex \/ Take \/ TakeFails \/ CopyValue \/ CopyPublication
  \/ Release

MailboxNext == Publisher \/ Reader

\* Both tasks go on with what they have begun, and the reader polls for ever;
\* nobody has to publish.
MailboxFairness ==
  WF_mailboxVars(Publisher /\ publisherPc # "idle") /\ WF_mailboxVars(Reader)

MailboxSpec == MailboxInit /\ [][MailboxNext]_mailboxVars /\ MailboxFairness

-----------------------------------------------------------------------------
MailboxIndices == Slots \union {NoSlot}

MailboxTypeOK ==
  /\ slotState \in [Slots -> SlotStates]
  /\ slotValue \in [Slots -> Nat] /\ slotPublication \in [Slots -> Nat]
  /\ publishedIndex \in MailboxIndices /\ published \in Nat /\ drops \in Nat
  /\ publisherPc \in {"idle", "claim", "value", "publication", "state", "exchange",
              "count", "free"}
  /\ snapshot \in Nat /\ writeIndex \in Slots /\ oldIndex \in MailboxIndices
  /\ readerPc \in {"idle", "index", "take", "value", "publication", "release"}
  /\ attempt \in 0 .. SlotCount /\ readIndex \in MailboxIndices /\ consumed \in Nat
  /\ value \in Nat /\ publication \in Nat /\ atCall \in Nat
  /\ delivered \subseteq Nat

\* Three slots are enough: publish always finds one to write to, however its
\* scan is interleaved with a reader that frees and takes slots.
NothingDropped == drops = 0

\* receive returns a snapshot in one piece: the value and the number read from
\* the slot belong to the same publication.
ReadInOnePiece == readerPc = "release" => value = publication

\* What receive returns is at least as new as the latest snapshot counted when
\* it was called.
AsFreshAsTheCall == readerPc = "release" => publication >= atCall

\* No snapshot is returned twice.
ReturnedOnce == readerPc = "release" => value \notin delivered

\* What the mailbox promises at every moment, whatever the two tasks do.
SnapshotsIntact ==
  MailboxTypeOK /\ NothingDropped /\ ReadInOnePiece /\ AsFreshAsTheCall /\ ReturnedOnce

\* A reader that keeps polling is given each published snapshot or a newer one.
LatestArrives ==
  \A n \in 1 .. MaxPublications :
    (published >= n) ~> (\E m \in delivered : m >= n)

\* A consumer may skip states but never goes back to an older one.
NeverOlder ==
  [][delivered' # delivered => \A v \in delivered : v < value]_mailboxVars
=============================================================================
