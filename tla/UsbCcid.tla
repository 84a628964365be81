-------------------------------- MODULE UsbCcid --------------------------------
(***************************************************************************)
(* CCID smart card readers in the USB host: application tasks that open    *)
(* the reader, send commands under the device's lock and wait for the      *)
(* answers, and the client task that gets the slot change notifications    *)
(* and the event that the reader is gone.  The reader has one slot and is  *)
(* external: it answers the commands it got in their order, may ask for    *)
(* more time first, and may be later than the caller waits.  A message is  *)
(* one transfer.  Cards are numbered, each insertion is another card.      *)
(***************************************************************************)
EXTENDS Integers, Sequences

CONSTANTS
    Callers,            \* application tasks
    SequenceModulus,    \* values of bSeq (256)
    MaxMismatches,      \* CCID_MAX_SEQUENCE_MISMATCHES
    MaxExtensions,      \* CCID_MAX_TIME_EXTENSIONS
    MaxCards, MaxCcidCommands, MaxCcidOpens   \* bounds of the model

ASSUME CcidAssumption == SequenceModulus \in Nat \ {0}

VARIABLES
    ccid,       \* DeviceState: open, sequence, buffer, known, present, atr, lock;
                \* history: the calls of ccidOpen, the commands sent before the last
    callers,    \* where each task is in its command
    reader,     \* external: the commands it got, the card in the slot
    replies,    \* bulk IN: messages on their way to the host
    notes,      \* interrupt IN: slot states on their way to the host
    learned,    \* history since ccidOpen: slot states of events and of answers
    sent,       \* commands sent so far
    plugged

ccidVars == <<ccid, callers, reader, replies, notes, learned, sent, plugged>>

NoCard == 0
Freed == [command |-> -1, card |-> NoCard]
Blank == [command |-> 0, card |-> NoCard]
NoCcidCommand == [pc |-> "idle", kind |-> "none", command |-> 0, seq |-> 0, mismatches |-> 0,
              extensions |-> 0, reply |-> Blank, identified |-> NoCard]
Kinds == {"status", "powerOn", "powerOff", "transfer", "identify", "abort"}

CcidInit ==
    /\ ccid = [open |-> FALSE, sequence |-> 0, buffer |-> Freed, known |-> FALSE,
               present |-> FALSE, atr |-> NoCard, lock |-> FALSE, opens |-> 0, since |-> 0]
    /\ callers = [c \in Callers |-> NoCcidCommand]
    /\ reader = [inbox |-> <<>>, card |-> NoCard, cards |-> 0]
    /\ replies = <<>> /\ notes = <<>> /\ learned = <<>> /\ sent = 0 /\ plugged = TRUE

Ends(c) == callers' = [callers EXCEPT ![c] = NoCcidCommand]

-----------------------------------------------------------------------------
(* What an opened reader starts from: a new buffer and nothing known. *)
OpenedReader(device) ==
    [device EXCEPT !.open = TRUE, !.opens = @ + 1, !.since = sent, !.buffer = Blank,
                   !.sequence = 0, !.atr = NoCard, !.known = FALSE, !.present = FALSE]

(* ccidOpen: an open reader stays as it is; choosing the interface, the    *)
(* memory and the claim can fail, which leaves the reader closed.          *)
CcidOpen(c) ==
    /\ callers[c].pc = "idle" /\ plugged /\ ~ccid.open
    /\ ccid.opens < MaxCcidOpens
    /\ ccid' = OpenedReader(ccid) /\ learned' = <<>>
    /\ UNCHANGED <<callers, reader, replies, notes, sent, plugged>>

ReleasedReader(device) ==
    [device EXCEPT !.open = FALSE, !.buffer = Freed, !.atr = NoCard, !.known = FALSE,
                   !.present = FALSE]

(* ccidClose: a command under way has the lock and finishes first. *)
CcidClose(c) ==
    /\ callers[c].pc = "idle" /\ ccid.open /\ ~ccid.lock
    /\ ccid' = ReleasedReader(ccid)
    /\ UNCHANGED <<callers, reader, replies, notes, learned, sent, plugged>>

(* ccidIdentifyCard goes by the cached ATR, and asks for the UID only when *)
(* it has one.                                                             *)
MayStart(kind) == kind = "identify" => ccid.atr # NoCard

(* ccidMessage and ccidAbort up to the lock. *)
Lock(c) ==
    /\ callers[c].pc = "idle" /\ ccid.open /\ ~ccid.lock /\ sent < MaxCcidCommands
    /\ \E kind \in Kinds :
          /\ MayStart(kind)
          /\ callers' = [callers EXCEPT ![c] =
                [NoCcidCommand EXCEPT !.pc = "locked", !.kind = kind, !.identified = ccid.atr]]
    /\ ccid' = [ccid EXCEPT !.lock = TRUE] /\ sent' = sent + 1
    /\ UNCHANGED <<reader, replies, notes, learned, plugged>>

(* ccidBulkOut fails, or there is no interface any more. *)
NotSent(c) ==
    /\ Ends(c) /\ UNCHANGED reader
    /\ ccid' = [ccid EXCEPT !.lock = FALSE,
                            !.sequence = IF ccid.open THEN (@ + 1) % SequenceModulus ELSE @]

(* ccidExchange, the command: it takes the next bSeq (which ABORT's class  *)
(* request has named before), and goes out or fails.                       *)
Send(c) ==
    /\ callers[c].pc = "locked"
    /\ \/ NotSent(c)
       \/ /\ ccid.open /\ plugged
          /\ callers' = [callers EXCEPT ![c].pc = "waiting", ![c].seq = ccid.sequence,
                                        ![c].command = sent]
          /\ ccid' = [ccid EXCEPT !.sequence = (@ + 1) % SequenceModulus,
                                  !.buffer = [command |-> sent, card |-> NoCard]]
          /\ reader' = [reader EXCEPT !.inbox =
                Append(@, [command |-> sent, seq |-> ccid.sequence, kind |-> callers[c].kind])]
    /\ UNCHANGED <<replies, notes, learned, sent, plugged>>

(* The answer a caller waits for: bSeq is that of its command. *)
IsAnswerAny(call, reply) == TRUE
IsAnswer(call, reply) == reply.seq = call.seq

Learns(from, present) == learned' = Append(learned, [from |-> from, present |-> present])

(* A final answer: what it says of the slot, seen from the caller's task. *)
Seen(device, reply) ==
    [device EXCEPT !.known = TRUE, !.present = reply.card # NoCard, !.lock = FALSE,
                   !.buffer = [command |-> reply.command, card |-> reply.card],
                   !.atr = IF reply.card = NoCard THEN NoCard ELSE @]

(* ccidExchange, a message from the reader.  Messages of another command   *)
(* and requests for time are skipped, each a few times.                    *)
SkippedInTurn(c, counter, limit) ==
    IF callers[c][counter] < limit
      THEN callers' = [callers EXCEPT ![c][counter] = @ + 1] /\ UNCHANGED ccid
      ELSE Ends(c) /\ ccid' = [ccid EXCEPT !.lock = FALSE]
Receive(c) ==
    LET call == callers[c]  reply == Head(replies) IN
    /\ call.pc = "waiting" /\ replies # <<>> /\ plugged
    /\ replies' = Tail(replies)
    /\ \/ /\ ~IsAnswer(call, reply) /\ SkippedInTurn(c, "mismatches", MaxMismatches)
          /\ UNCHANGED learned
       \/ /\ IsAnswer(call, reply) /\ reply.more
          /\ SkippedInTurn(c, "extensions", MaxExtensions) /\ UNCHANGED learned
       \/ /\ IsAnswer(call, reply) /\ ~reply.more
          /\ ccid' = Seen(ccid, reply) /\ Learns("answer", reply.card # NoCard)
          /\ callers' = [callers EXCEPT ![c].pc = "answered", ![c].reply =
                            [command |-> reply.command, card |-> reply.card]]
    /\ UNCHANGED <<reader, notes, sent, plugged>>

(* ccidBulkIn: the budget of the call is used up (the transfer is halted,  *)
(* flushed and waited for), or the transfer failed.                        *)
GiveUp(c) ==
    /\ callers[c].pc = "waiting" /\ Ends(c)
    /\ ccid' = [ccid EXCEPT !.lock = FALSE]
    /\ UNCHANGED <<reader, replies, notes, learned, sent, plugged>>

(* The cached ATR after a call: ccidPowerOn keeps what the card answered,  *)
(* ccidPowerOff forgets it.                                                *)
AtrAfter(call) ==
    CASE call.kind = "powerOn" /\ call.reply.card # NoCard -> ccid.buffer.card
      [] call.kind = "powerOff" -> NoCard
      [] OTHER -> ccid.atr

(* What the call does with the answer, after the lock: it copies the data  *)
(* out of the device's buffer.                                             *)
TakeAnswer(c) ==
    /\ callers[c].pc = "answered"
    /\ ccid' = [ccid EXCEPT !.atr = AtrAfter(callers[c])]
    /\ callers' = [callers EXCEPT ![c].pc = "copied", ![c].reply = ccid.buffer]
    /\ UNCHANGED <<reader, replies, notes, learned, sent, plugged>>

Return(c) ==
    /\ callers[c].pc = "copied" /\ Ends(c)
    /\ UNCHANGED <<ccid, reader, replies, notes, learned, sent, plugged>>

-----------------------------------------------------------------------------
(* handleCcidNotification: the slot as the reader saw it; only a change    *)
(* of what is known is an event.                                           *)
Notified ==
    LET now == Head(notes) IN
    /\ notes # <<>> /\ plugged /\ notes' = Tail(notes)
    /\ IF ~ccid.open THEN UNCHANGED <<ccid, learned>>
       ELSE /\ ccid' = [ccid EXCEPT !.known = TRUE, !.present = now,
                            !.atr = IF now \/ (ccid.known /\ ~ccid.present) THEN @ ELSE NoCard]
            /\ IF ccid.known /\ ccid.present = now THEN UNCHANGED learned
               ELSE Learns("event", now)
    /\ UNCHANGED <<callers, reader, replies, sent, plugged>>

(* clearParsedDescriptorState: the reader is gone, and what the device had *)
(* is freed without the lock.                                              *)
ReaderGone ==
    /\ plugged /\ plugged' = FALSE
    /\ ccid' = [ReleasedReader(ccid) EXCEPT !.sequence = 0]
    /\ replies' = <<>> /\ notes' = <<>> /\ reader' = [reader EXCEPT !.inbox = <<>>]
    /\ UNCHANGED <<callers, learned, sent>>

-----------------------------------------------------------------------------
(* external: the reader answers its commands in their order, and may ask   *)
(* for more time first.                                                    *)
ReaderAnswers ==
    /\ plugged /\ reader.inbox # <<>> /\ Len(replies) < 2
    /\ LET command == Head(reader.inbox) IN
       \E more \in BOOLEAN :
          /\ replies' = Append(replies, [command |-> command.command, seq |-> command.seq,
                                         card |-> reader.card, more |-> more])
          /\ reader' = IF more THEN reader ELSE [reader EXCEPT !.inbox = Tail(@)]
    /\ UNCHANGED <<ccid, callers, notes, learned, sent, plugged>>

(* external: a card is put in or taken out. *)
CardMoves ==
    /\ plugged /\ Len(notes) < 2 /\ (reader.card # NoCard \/ reader.cards < MaxCards)
    /\ reader' = IF reader.card = NoCard
                   THEN [reader EXCEPT !.card = reader.cards + 1, !.cards = @ + 1]
                   ELSE [reader EXCEPT !.card = NoCard]
    /\ notes' = Append(notes, reader'.card # NoCard)
    /\ UNCHANGED <<ccid, callers, replies, learned, sent, plugged>>

CcidNext ==
    \/ Notified \/ ReaderGone \/ ReaderAnswers \/ CardMoves
    \/ \E c \in Callers : \/ CcidOpen(c) \/ CcidClose(c) \/ Lock(c) \/ Send(c) \/ Receive(c)
                          \/ GiveUp(c) \/ TakeAnswer(c) \/ Return(c)

CcidSpec == CcidInit /\ [][CcidNext]_ccidVars

-----------------------------------------------------------------------------
(* However late the reader answered an earlier command whose caller gave   *)
(* up, the answer a call accepts is the answer to its own command, unless  *)
(* that one went out before the reader was opened again, which restarts    *)
(* the sequence numbers, or so many commands ago that they came around.    *)
AnswersItsCommand ==
    \A c \in Callers : callers[c].pc = "answered" =>
        LET call == callers[c]  answered == callers[c].reply.command
        IN  \/ answered = call.command \/ answered <= ccid.since
            \/ call.command - answered >= SequenceModulus

(* EspUsbHost.h: the ATR is cached until power off, card removal or        *)
(* disconnect.  When every notification has been handled, a cached ATR is  *)
(* that of the card in the slot.                                           *)
AtrIsOfTheCard ==
    notes = <<>> /\ plugged /\ ccid.open /\ ccid.atr # NoCard => ccid.atr = reader.card

(* handleCcidNotification: "a change that ends in the state the slot was   *)
(* already known to be in has nothing to report".  An event tells another  *)
(* slot state than the event or the answer before it.                      *)
EventsAreNews ==
    \A i \in 2..Len(learned) :
        learned[i].from = "event" => learned[i].present # learned[i - 1].present

(* What the application learns of the reader: the answers to its own       *)
(* commands, and the changes of the slot that no answer has told.          *)
ReaderFollowed == AnswersItsCommand /\ EventsAreNews
===============================================================================
