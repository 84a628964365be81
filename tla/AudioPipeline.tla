--------------------------- MODULE AudioPipeline ---------------------------
(***************************************************************************)
(* The microphone task (AudioSampler, audio_sampler.h) and the task that   *)
(* writes its blocks to the card, over the block pool they share           *)
(* (AudioBlockPool, audio_block_pool.h).  The microphone fills up to two   *)
(* blocks at a time and commits them in any order.                         *)
(*                                                                         *)
(* An operation is cut where the other task can see it: between the change *)
(* of a block's owner and the push of its index, and inside the push to    *)
(* the queue of free blocks, which both tasks push to.  The ready queue    *)
(* has one producer and one consumer, and is a sequence.  Bytes, formats   *)
(* and the counters of the status are left out.                            *)
(***************************************************************************)
EXTENDS Integers, Sequences, FiniteSets

CONSTANTS
  Blocks,        \* kAudioBlockCount: 34
  MaxReady,      \* kMaxReadyBlocks: 32
  InFlight,      \* kMaxInFlightBlocks: 2
  FrameCounts,   \* bound: frames of a block
  MaxSessions, MaxSequence   \* bounds of the model

ASSUME AudioAssumption ==
  /\ Cardinality(Blocks) \in Nat \ {0} /\ Blocks = 0 .. Cardinality(Blocks) - 1
  /\ FrameCounts \subseteq Nat \ {0}
  /\ {MaxReady, InFlight, MaxSessions, MaxSequence} \subseteq Nat \ {0}

VARIABLES
  audioFree,     \* AudioIndexQueue free_: slots, head and tail
  audioReady,    \* ready_
  blocks,        \* block -> owner, lease, metadata
  sampler,       \* AudioSampler
  mic, writer,   \* the two tasks: step, handle and the head_ a push has read
  lastWritten    \* history: metadata of the last block the writer took

audioVars == <<audioFree, audioReady, blocks, sampler, mic, writer, lastWritten>>

FreeSlots == Cardinality(Blocks) + 1

NoHandle == [block |-> 0, lease |-> 0]
NoMetadata == [session |-> 0]
TaskIdle == [pc |-> "idle", handle |-> NoHandle, head |-> 0]

\* owns()
Owns(h, owner) ==
  h.lease # 0 /\ blocks[h.block].lease = h.lease /\ blocks[h.block].owner = owner

\* initialize(): every block is free.
AudioInit ==
  /\ audioFree = [slots |-> [i \in 0 .. FreeSlots - 1 |-> i % Cardinality(Blocks)],
                  head |-> Cardinality(Blocks), tail |-> 0]
  /\ audioReady = <<>>
  /\ blocks = [b \in Blocks |-> [owner |-> "Free", lease |-> 0, data |-> NoMetadata]]
  /\ sampler = [session |-> 0, recording |-> FALSE, next |-> 0, gap |-> 0,
                sequence |-> 1, tracked |-> {}]
  /\ mic = TaskIdle /\ writer = TaskIdle /\ lastWritten = NoMetadata

-----------------------------------------------------------------------------
(***************************************************************************)
(* The microphone task                                                     *)
(***************************************************************************)

\* AudioSampler::start
Start ==
  /\ mic.pc = "idle" /\ ~sampler.recording /\ sampler.tracked = {}
  /\ sampler.session < MaxSessions
  /\ sampler' = [session |-> sampler.session + 1, recording |-> TRUE, next |-> 0,
                 gap |-> 0, sequence |-> 1, tracked |-> {}]
  /\ UNCHANGED <<audioFree, audioReady, blocks, mic, writer, lastWritten>>

\* tryBeginBlock with tryAcquireForMic: an index from the queue, a new lease,
\* and the owner if the block is free; else the lease is lost on its holder.
BeginBlock ==
  /\ mic.pc = "idle" /\ sampler.recording
  /\ Cardinality(sampler.tracked) < InFlight /\ audioFree.tail # audioFree.head
  /\ audioFree' = [audioFree EXCEPT !.tail = (@ + 1) % FreeSlots]
  /\ LET b == audioFree.slots[audioFree.tail]
         lease == blocks[b].lease + 1
         isFree == blocks[b].owner = "Free"
     IN  /\ blocks' = [blocks EXCEPT ![b].lease = lease,
                         ![b].owner = IF isFree THEN "MicOwned" ELSE @]
         /\ sampler' = IF isFree
                       THEN [sampler EXCEPT !.tracked = @ \cup
                               {[block |-> b, lease |-> lease]}]
                       ELSE sampler
  /\ UNCHANGED <<audioReady, mic, writer, lastWritten>>

\* Mutant: the frames of a lost block do not move the index.
NoteDroppedKeepsIndex(s, frames) == [s EXCEPT !.gap = @ + frames]

\* noteDroppedBlock
NoteDropped(s, frames) == [s EXCEPT !.next = @ + frames, !.gap = @ + frames]

\* commitBlock, and publishFromMic up to the change of the owner.
Commit ==
  /\ mic.pc = "idle" /\ sampler.recording /\ sampler.sequence < MaxSequence
  /\ \E h \in sampler.tracked, frames \in FrameCounts :
       LET s == [sampler EXCEPT !.sequence = @ + 1, !.tracked = @ \ {h}]
           data == [session |-> s.session, sequence |-> sampler.sequence,
                    first |-> s.next, gap |-> s.gap, frames |-> frames]
       IN  IF Owns(h, "MicOwned") /\ Len(audioReady) < MaxReady
           THEN /\ blocks' = [blocks EXCEPT ![h.block].data = data,
                                            ![h.block].owner = "Ready"]
                /\ sampler' = [s EXCEPT !.gap = 0, !.next = @ + frames]
                /\ mic' = [TaskIdle EXCEPT !.pc = "push", !.handle = h]
           ELSE /\ sampler' = NoteDropped(s, frames)
                /\ mic' = [TaskIdle EXCEPT !.pc = "discard", !.handle = h]
                /\ UNCHANGED blocks
  /\ UNCHANGED <<audioFree, audioReady, writer, lastWritten>>

\* ready_.tryPush: there is room, the writer only makes more.
PushReady ==
  /\ mic.pc = "push" /\ mic' = TaskIdle
  /\ audioReady' = Append(audioReady, mic.handle.block)
  /\ UNCHANGED <<audioFree, blocks, sampler, writer, lastWritten>>

\* discardBlock, with the frames the block would have held.
DiscardBlock ==
  /\ mic.pc = "idle" /\ sampler.recording /\ sampler.sequence < MaxSequence
  /\ \E h \in sampler.tracked, frames \in FrameCounts :
       IF Owns(h, "MicOwned")
       THEN /\ mic' = [TaskIdle EXCEPT !.pc = "discard", !.handle = h]
            /\ sampler' = NoteDropped([sampler EXCEPT !.sequence = @ + 1,
                                                      !.tracked = @ \ {h}], frames)
       ELSE UNCHANGED <<mic, sampler>>
  /\ UNCHANGED <<audioFree, audioReady, blocks, writer, lastWritten>>

\* recordDroppedFrames
RecordDroppedFrames ==
  /\ mic.pc = "idle" /\ sampler.recording /\ sampler.sequence < MaxSequence
  /\ \E frames \in FrameCounts :
       sampler' = NoteDropped([sampler EXCEPT !.sequence = @ + 1], frames)
  /\ UNCHANGED <<audioFree, audioReady, blocks, mic, writer, lastWritten>>

\* stop(), and its loop that discards what is in flight, one block at a time,
\* before the task does anything else.
Stop ==
  /\ mic.pc = "idle"
  /\ \/ /\ sampler.recording
        /\ sampler' = [sampler EXCEPT !.recording = FALSE, !.gap = 0]
        /\ UNCHANGED mic
     \/ /\ ~sampler.recording
        /\ \E h \in sampler.tracked :
             /\ mic' = [TaskIdle EXCEPT !.pc = "discard", !.handle = h]
             /\ sampler' = [sampler EXCEPT !.tracked = @ \ {h}]
  /\ UNCHANGED <<audioFree, audioReady, blocks, writer, lastWritten>>

-----------------------------------------------------------------------------
(***************************************************************************)
(* returnToFree, in three steps: the owner, the read of head_ in tryPush,  *)
(* and the slot with the new head_.  A handle that does not own its block  *)
(* ends it at the first.                                                   *)
(***************************************************************************)

OwnerToFree(task, owner) ==
  IF Owns(task.handle, owner)
  THEN blocks' = [blocks EXCEPT ![task.handle.block].owner = "Free"]
  ELSE UNCHANGED blocks

Freed(task, owner) ==
  IF Owns(task.handle, owner) THEN [task EXCEPT !.pc = "load"] ELSE TaskIdle

Loaded(task) ==
  IF (audioFree.head + 1) % FreeSlots = audioFree.tail THEN TaskIdle
  ELSE [task EXCEPT !.pc = "store", !.head = audioFree.head]

StoreFree(task) ==
  audioFree' = [audioFree EXCEPT !.slots[task.head] = task.handle.block,
                                 !.head = (task.head + 1) % FreeSlots]

DiscardFromMic ==
  \/ /\ mic.pc = "discard" /\ mic' = Freed(mic, "MicOwned")
     /\ OwnerToFree(mic, "MicOwned") /\ UNCHANGED audioFree
  \/ /\ mic.pc = "load" /\ mic' = Loaded(mic) /\ UNCHANGED <<audioFree, blocks>>
  \/ /\ mic.pc = "store" /\ mic' = TaskIdle /\ StoreFree(mic) /\ UNCHANGED blocks

ReleaseFromWriter ==
  \/ /\ writer.pc = "hold" /\ writer' = Freed(writer, "WriterOwned")
     /\ OwnerToFree(writer, "WriterOwned") /\ UNCHANGED audioFree
  \/ /\ writer.pc = "load" /\ writer' = Loaded(writer)
     /\ UNCHANGED <<audioFree, blocks>>
  \/ /\ writer.pc = "store" /\ writer' = TaskIdle /\ StoreFree(writer)
     /\ UNCHANGED blocks

ReturnToFree ==
  \/ DiscardFromMic /\ UNCHANGED <<audioReady, sampler, writer, lastWritten>>
  \/ ReleaseFromWriter /\ UNCHANGED <<audioReady, sampler, mic, lastWritten>>

\* tryAcquireForWriter with metadata(): the block must be Ready.
TakeReady ==
  /\ writer.pc = "idle" /\ audioReady # <<>>
  /\ audioReady' = Tail(audioReady)
  /\ LET b == Head(audioReady)
     IN  IF blocks[b].owner = "Ready"
         THEN /\ blocks' = [blocks EXCEPT ![b].owner = "WriterOwned"]
              /\ writer' = [TaskIdle EXCEPT !.pc = "hold",
                              !.handle = [block |-> b, lease |-> blocks[b].lease]]
              /\ lastWritten' = blocks[b].data
         ELSE UNCHANGED <<blocks, writer, lastWritten>>
  /\ UNCHANGED <<audioFree, sampler, mic>>

AudioNext ==
  \/ Start \/ BeginBlock \/ Commit \/ PushReady \/ DiscardBlock
  \/ RecordDroppedFrames \/ Stop \/ ReturnToFree \/ TakeReady

AudioSpec == AudioInit /\ [][AudioNext]_audioVars
-----------------------------------------------------------------------------
(***************************************************************************)
(* Properties                                                              *)
(***************************************************************************)

\* What the writer takes continues what it took before: a block begins where
\* the last one ended plus the frames it says were lost, though blocks are
\* dropped by a full queue, discarded and committed out of order, and sessions
\* follow each other with blocks of the last one still waiting.
FramesAccountedFor ==
  [][lastWritten' # lastWritten =>
       LET new == lastWritten'
       IN  IF new.session = lastWritten.session
           THEN /\ new.sequence > lastWritten.sequence
                /\ new.first = lastWritten.first + lastWritten.frames + new.gap
           ELSE new.session > lastWritten.session /\ new.first = new.gap]_audioVars

InQueue(b) ==
  \E k \in 0 .. ((audioFree.head - audioFree.tail) % FreeSlots) - 1 :
    audioFree.slots[(audioFree.tail + k) % FreeSlots] = b

\* A block that is free is in the queue of free blocks, or on its way there.
FreeBlocksAreQueued ==
  \A b \in Blocks : blocks[b].owner = "Free" =>
    \/ InQueue(b)
    \/ \E task \in {mic, writer} :
         task.pc \in {"load", "store"} /\ task.handle.block = b
=============================================================================
