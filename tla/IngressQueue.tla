---------------------------- MODULE IngressQueue ----------------------------
(***************************************************************************)
(* What the receive ring promises the measurement session: a queue of      *)
(* bounded room that may lose bytes, and says where.  As long as nothing   *)
(* is lost the bytes of the stream wait under one epoch.  The first loss   *)
(* breaks the epoch: no byte is accepted until the consumer discards what  *)
(* waits and starts the next one.  RxIngressRing implements this queue.    *)
(***************************************************************************)
EXTENDS Naturals, Sequences

CONSTANT Room      \* bytes that can wait

VARIABLES
  next,      \* position in the stream of the next byte offered
  waiting,   \* accepted and not yet taken
  epoch,
  phase,     \* of the epoch: no byte accepted yet, accepting, or broken
  given      \* everything the consumer took

queueVars == <<next, waiting, epoch, phase, given>>

QueueInit ==
  /\ next = 1 /\ waiting = <<>> /\ epoch = 1 /\ phase = "fresh" /\ given = <<>>

Accept ==
  /\ phase # "broken"
  /\ Len(waiting) < Room
  /\ waiting' = Append(waiting, [seq |-> next, epoch |-> epoch])
  /\ next' = next + 1
  /\ phase' = "running"
  /\ UNCHANGED <<epoch, given>>

\* Bytes pass by.  That happens in the middle of an epoch only for want of
\* room, where a byte being taken still counts as waiting.
Lose ==
  /\ phase = "running" => Len(waiting) + 1 >= Room
  /\ next' \in Nat /\ next' > next
  /\ phase' = IF phase = "fresh" THEN "fresh" ELSE "broken"
  /\ UNCHANGED <<waiting, epoch, given>>

Take ==
  /\ waiting # <<>>
  /\ given' = Append(given, Head(waiting))
  /\ waiting' = Tail(waiting)
  /\ UNCHANGED <<next, epoch, phase>>

Restart ==
  /\ phase = "broken"
  /\ waiting' = <<>>
  /\ epoch' = epoch + 1
  /\ phase' = "fresh"
  /\ UNCHANGED <<next, given>>

QueueNext == Accept \/ Lose \/ Take \/ Restart

QueueSpec == QueueInit /\ [][QueueNext]_queueVars

-----------------------------------------------------------------------------
Follows(item, later) ==
  \/ later = [seq |-> item.seq + 1, epoch |-> item.epoch]
  \/ later.seq > item.seq /\ later.epoch > item.epoch

\* What the consumer took is the stream in order, without a gap as long as the
\* epoch stays the same: onRxItem sees every loss as a change of ingressEpoch.
GivenInOrder == \A i \in 1 .. (Len(given) - 1) : Follows(given[i], given[i + 1])
=============================================================================
