----------------------------- MODULE ProtoTester -----------------------------
(***************************************************************************)
(* The first prototype: EcuInitTester on a K-line where every byte written *)
(* comes back as an echo, against a control unit that sends a byte at a    *)
(* time and waits for its complement.                                      *)
(*                                                                         *)
(* A pass of update() reads the clock once and then takes bytes as they    *)
(* arrive, one step each, while the clock runs on.  A block is four bytes: *)
(* length, counter, title, end; a payload adds nothing to the control.     *)
(* sendBlockWithHandshake blocks and swallows whatever arrives meanwhile,  *)
(* and is one step.  The states SWITCH_9600 and DONE are never entered.    *)
(***************************************************************************)
EXTENDS Integers, Sequences

CONSTANTS
    LastGroup,        \* 4
    CounterModulus,   \* 256
    ClockModulus,     \* 2^32: millis() is unsigned
    LineIdle, ResponseTimeout, SessionTimeout, RetryInterval,
    MaxLate,          \* bound: ticks within and between passes
    MaxClock, MaxDisturbances   \* bounds of the model

ASSUME ProtoAssumption ==
    {LastGroup, CounterModulus, ClockModulus, SessionTimeout, MaxLate, MaxClock}
      \subseteq Nat \ {0}

VARIABLES
    clock, now,       \* millis(), and what the pass read of it
    linked,
    step,             \* between passes, or taking bytes
    tester,           \* the members of EcuInitTester
    rx,               \* bytes the link has not handed out
    ecu,              \* external: the control unit
    disturbances,
    decoded           \* history: the last group decoded, and what it came from

protoVars == <<clock, now, linked, step, tester, rx, ecu, disturbances, decoded>>

Elapsed(since) == (now - since) % ClockModulus

Sync == [is |-> "sync", n |-> 0]
Key1 == [is |-> "kb1", n |-> 0]
Key2 == [is |-> "kb2", n |-> 0]
Echo == [is |-> "echo", n |-> 0]
Noise == [is |-> "noise", n |-> 0]
Block(counter, title, group) ==
    <<[is |-> "length", n |-> 0], [is |-> "counter", n |-> counter],
      [is |-> title, n |-> group], [is |-> "end", n |-> 0]>>

Fresh(t) ==
    [t EXCEPT !.identFinished = FALSE, !.expected = -1, !.block = <<>>, !.echo = FALSE,
              !.group = 0, !.awaitingBody = FALSE, !.needsAck = FALSE,
              !.awaitingSwitchAck = FALSE, !.headers = {}]

ProtoInit ==
    /\ clock = 1 /\ now = 1 /\ linked = TRUE /\ step = "between"
    /\ tester = Fresh([state |-> "IDLE", since |-> 1, lastAttempt |-> 0, lastTx |-> 0,
                       keys |-> 0, counter |-> 0, identFinished |-> FALSE,
                       expected |-> -1, block |-> <<>>, echo |-> FALSE, group |-> 0,
                       awaitingBody |-> FALSE, needsAck |-> FALSE,
                       awaitingSwitchAck |-> FALSE, headers |-> {}])
    /\ rx = <<>> /\ disturbances = 0
    /\ ecu = [phase |-> "off", out |-> <<>>, ident |-> 1, header |-> 0]
    /\ decoded = [asked |-> 0, header |-> 0, body |-> 0]

\* enterState: an error forgets the session and what the link holds.
Enter(t, state) ==
    LET s == [t EXCEPT !.state = state, !.since = clock]
    IN  IF state \in {"IDLE", "ERROR"} THEN [Fresh(s) EXCEPT !.keys = 0, !.counter = 0]
        ELSE s

EnterState(t, state) ==
    /\ tester' = Enter(t, state)
    /\ rx' = IF state \in {"IDLE", "ERROR"} THEN <<>> ELSE rx

-----------------------------------------------------------------------------
(* External: the control unit and the line *)

\* It sends its next byte, and listens once the block is complete.
EcuSends ==
    /\ ecu.phase = "send" /\ ecu.out # <<>>
    /\ rx' = Append(rx, Head(ecu.out))
    /\ ecu' = [ecu EXCEPT !.out = Tail(@),
                          !.phase = IF Len(ecu.out) = 1 THEN "listen" ELSE "acked?"]
    /\ UNCHANGED <<clock, now, linked, step, tester, disturbances, decoded>>

EcuGreets ==
    /\ ecu.phase = "woken"
    /\ rx' = rx \o <<Sync, Key1, Key2>>
    /\ ecu' = [ecu EXCEPT !.phase = "key?"]
    /\ UNCHANGED <<clock, now, linked, step, tester, disturbances, decoded>>

\* What it answers to a block: identification first, then groups.
Answers(title, group) ==
    CASE title = "ack" /\ ecu.ident > 0 -> {"ident"}
      [] title = "ack" /\ ecu.ident = 0 -> {"ack"}
      [] title = "group0" -> {"body"}
      [] OTHER -> IF ecu.header = group THEN {"body"} ELSE {"header", "refused"}

Heard(title, group, counter, answer) ==
    [ecu EXCEPT !.phase = "send",
                !.out = Block((counter + 1) % CounterModulus, answer, group),
                !.ident = IF answer = "ident" THEN @ - 1 ELSE @,
                !.header = IF answer = "header" THEN group ELSE 0]

Disturb ==
    /\ disturbances < MaxDisturbances
    /\ disturbances' = disturbances + 1
    /\ \/ rx' = Append(rx, Noise) /\ UNCHANGED <<ecu, linked>>
       \/ rx # <<>> /\ rx' = Tail(rx) /\ UNCHANGED <<ecu, linked>>
       \/ ecu' = [ecu EXCEPT !.phase = "off"] /\ UNCHANGED <<rx, linked>>
       \/ linked' = ~linked /\ rx' = <<>> /\ UNCHANGED ecu
    /\ UNCHANGED <<clock, now, step, tester, decoded>>

Tick ==
    /\ clock < MaxClock /\ clock - now < MaxLate
    /\ clock' = clock + 1
    /\ UNCHANGED <<now, linked, step, tester, rx, ecu, disturbances, decoded>>

\* A byte written: its echo comes back, and the unit may take it for an answer.
Written(e) ==
    CASE e.phase = "acked?" -> [e EXCEPT !.phase = "send"]
      [] e.phase = "key?" -> [e EXCEPT !.phase = "send", !.out = Block(0, "ident", 0),
                                       !.ident = @ - 1]
      [] OTHER -> e

Write(queue) ==
    /\ rx' = IF linked THEN Append(queue, Echo) ELSE queue
    /\ ecu' = IF linked THEN Written(ecu) ELSE ecu

-----------------------------------------------------------------------------
(* A pass of update() *)

BeginPass ==
    /\ step = "between"
    /\ now' = clock /\ step' = "pass"
    /\ UNCHANGED <<clock, linked, tester, rx, ecu, disturbances, decoded>>

Idle ==
    /\ tester.state = "IDLE"
    /\ IF linked /\ (tester.lastAttempt = 0 \/ Elapsed(tester.lastAttempt) >= RetryInterval)
       THEN EnterState([tester EXCEPT !.lastAttempt = now], "LINE_IDLE_WAIT")
       ELSE UNCHANGED <<tester, rx>>
    /\ UNCHANGED ecu

LineIdleWait ==
    /\ tester.state = "LINE_IDLE_WAIT"
    /\ IF Elapsed(tester.since) >= LineIdle THEN EnterState(tester, "SEND_5BAUD")
       ELSE UNCHANGED <<tester, rx>>
    /\ UNCHANGED ecu

\* The address wakes the unit, or does not; the link is emptied before and after.
Send5Baud ==
    /\ tester.state = "SEND_5BAUD"
    /\ tester' = Enter([tester EXCEPT !.keys = 0], "WAIT_SYNC")
    /\ rx' = <<>>
    /\ ecu' \in {ecu, [phase |-> IF linked THEN "woken" ELSE ecu.phase,
                       out |-> <<>>, ident |-> 2, header |-> 0]}

SendInvertedKeyword ==
    /\ tester.state = "SEND_INVERTED"
    /\ Write(rx)
    /\ tester' = Enter([Fresh(tester) EXCEPT !.counter = 0, !.lastTx = clock], "RECEIVE")

Error ==
    /\ tester.state = "ERROR"
    /\ IF Elapsed(tester.since) >= RetryInterval THEN EnterState(tester, "IDLE")
       ELSE UNCHANGED <<tester, rx>>
    /\ UNCHANGED ecu

Pass ==
    /\ step = "pass"
    /\ Idle \/ LineIdleWait \/ Send5Baud \/ SendInvertedKeyword \/ Error
    /\ step' = "between"
    /\ UNCHANGED <<clock, now, linked, disturbances, decoded>>

\* WAIT_SYNC_KEYBYTES, one byte; the third empties the link.
KeyByte ==
    /\ step = "pass" /\ tester.state = "WAIT_SYNC" /\ rx # <<>>
    /\ CASE tester.keys = 0 -> /\ tester' = [tester EXCEPT !.keys = IF Head(rx) = Sync THEN 1 ELSE 0]
                               /\ rx' = Tail(rx) /\ UNCHANGED step
         [] tester.keys = 1 -> /\ tester' = [tester EXCEPT !.keys = 2]
                               /\ rx' = Tail(rx) /\ UNCHANGED step
         [] OTHER -> /\ tester' = Enter([tester EXCEPT !.keys = 3], "SEND_INVERTED")
                     /\ rx' = <<>> /\ step' = "between"
    /\ UNCHANGED <<clock, now, linked, ecu, disturbances, decoded>>

KeyTimeout ==
    /\ step = "pass" /\ tester.state = "WAIT_SYNC" /\ rx = <<>>
    /\ IF Elapsed(tester.since) >= ResponseTimeout THEN EnterState(tester, "ERROR")
       ELSE UNCHANGED <<tester, rx>>
    /\ step' = "between"
    /\ UNCHANGED <<clock, now, linked, ecu, disturbances, decoded>>

-----------------------------------------------------------------------------
(* RECEIVE_BLOCK.  The request it makes before the bytes is never due: a   *)
(* numbered group always has one of the three flags set.                   *)

\* The first byte of a block: repeated key bytes, a length, or a stray byte.
LengthByte ==
    LET b == Head(rx)
        taken == [tester EXCEPT !.block = <<b>>, !.echo = TRUE, !.lastTx = clock]
    IN  CASE b = Key2 -> Write(Tail(rx)) /\ tester' = [tester EXCEPT !.lastTx = clock]
          [] b.is = "length" -> Write(Tail(rx)) /\ tester' = taken
          [] b = Noise -> \/ Write(Tail(rx)) /\ tester' = taken
                          \/ rx' = Tail(rx) /\ UNCHANGED <<tester, ecu>>
          [] OTHER -> rx' = Tail(rx) /\ UNCHANGED <<tester, ecu>>

\* A later byte: exactly one is taken for the echo of what was written last.
DataByte ==
    LET b == Head(rx)
    IN  IF tester.echo
        THEN tester' = [tester EXCEPT !.echo = FALSE] /\ rx' = Tail(rx) /\ UNCHANGED ecu
        ELSE /\ tester' = [tester EXCEPT !.block = Append(@, b), !.echo = TRUE,
                                         !.lastTx = clock]
             /\ Write(Tail(rx))

TakeByte ==
    /\ step = "pass" /\ tester.state = "RECEIVE" /\ rx # <<>>
    /\ \/ tester.block = <<>> /\ LengthByte
       \/ Len(tester.block) \in 1..2 /\ DataByte
       \/ Len(tester.block) = 3 /\ tester.echo /\ DataByte
    /\ UNCHANGED <<clock, now, linked, step, disturbances, decoded>>

\* The next group; a switch is announced with an acknowledgement.
Advance(t) ==
    [t EXCEPT !.group = (t.group + 1) % (LastGroup + 1), !.needsAck = TRUE,
              !.awaitingBody = FALSE]

Numbered(t) == t.group \in 1..LastGroup

\* parseBlock: a header is kept for the group asked for.
Parse(t, title) ==
    IF title.is = "header" /\ Numbered(t)
    THEN [t EXCEPT !.headers = {h \in @ : h.of # t.group} \cup
                                 {[of |-> t.group, from |-> title.n]}]
    ELSE t

\* What follows a block once the identification is over.
Follow(t, title) ==
    CASE title.is = "ack" /\ t.awaitingSwitchAck -> [t EXCEPT !.awaitingSwitchAck = FALSE]
      [] title.is = "header" /\ Numbered(t) -> [t EXCEPT !.awaitingBody = TRUE]
      [] title.is = "body" /\ Numbered(t) /\ t.awaitingBody -> Advance(t)
      [] title.is = "refused" /\ Numbered(t) -> Advance(t)
      [] OTHER -> [t EXCEPT !.group = 1, !.needsAck = TRUE]

\* requestMeasurementGroup: what is sent, and what is noted.
Requested(t) ==
    CASE t.group = 0 -> [title |-> "group0", then |-> [t EXCEPT !.awaitingBody = FALSE]]
      [] t.group # 0 /\ t.needsAck ->
           [title |-> "ack", then |-> [t EXCEPT !.needsAck = FALSE, !.awaitingBody = FALSE,
                                                !.awaitingSwitchAck = TRUE]]
      [] OTHER -> [title |-> "request", then |-> [t EXCEPT !.awaitingBody = TRUE]]

Reply(t, title) ==
    IF t.identFinished THEN Requested(Follow(t, title))
    ELSE IF title.is = "ack" THEN Requested([t EXCEPT !.identFinished = TRUE, !.group = 0])
    ELSE [title |-> "ack", then |-> t]

\* sendBlockWithHandshake: heard if the unit listens; what arrives is swallowed.
SendBlock(t, title) ==
    /\ tester' = [t EXCEPT !.counter = (@ + 1) % CounterModulus, !.lastTx = clock]
    /\ rx' = <<>>
    /\ IF linked /\ ecu.phase = "listen"
       THEN \E answer \in Answers(title, t.group) :
              ecu' = Heard(title, t.group, t.counter, answer)
       ELSE UNCHANGED ecu

DecodeAfterAdvance(t, title) ==    \* mutant: the group is advanced first
    IF title.is = "body" /\ (t.group = 0 \/ t.awaitingBody)
    THEN \E h \in t.headers \cup {[of |-> 0, from |-> 0]} :
           /\ h.of = t.group
           /\ decoded' = [asked |-> Advance(t).group, header |-> h.from, body |-> title.n]
    ELSE UNCHANGED decoded

\* The group the block is decoded as, with the header that is kept for it.
Decode(t, title) ==
    IF title.is = "body" /\ (t.group = 0 \/ t.awaitingBody)
    THEN \E h \in t.headers \cup {[of |-> 0, from |-> 0]} :
           /\ h.of = t.group
           /\ decoded' = [asked |-> t.group, header |-> h.from, body |-> title.n]
    ELSE UNCHANGED decoded

\* The counters of both sides form one sequence; the first one seen is taken.
CounterFits(n) == tester.expected \in {-1, n}

EndByte ==
    /\ step = "pass" /\ tester.state = "RECEIVE" /\ rx # <<>>
    /\ Len(tester.block) = 3 /\ ~tester.echo
    /\ LET counter == tester.block[2].n
           title == tester.block[3]
           done == [tester EXCEPT !.block = <<>>]
           t == Parse([done EXCEPT !.expected = (counter + 2) % CounterModulus,
                                   !.counter = (counter + 1) % CounterModulus], title)
           reply == Reply(t, title)
       IN  IF Head(rx).is # "end"
           THEN tester' = done /\ rx' = Tail(rx) /\ UNCHANGED <<ecu, step, decoded>>
           ELSE /\ step' = "between"
                /\ IF CounterFits(counter)
                   THEN SendBlock(reply.then, reply.title) /\ Decode(t, title)
                   ELSE EnterState(done, "ERROR") /\ UNCHANGED <<ecu, decoded>>
    /\ UNCHANGED <<clock, now, linked, disturbances>>

\* Both times are unsigned, and _lastTxTime may be the later one.
SessionTimeoutCheck ==
    /\ step = "pass" /\ tester.state = "RECEIVE" /\ rx = <<>>
    /\ IF Elapsed(tester.lastTx) >= SessionTimeout THEN EnterState(tester, "ERROR")
       ELSE UNCHANGED <<tester, rx>>
    /\ step' = "between"
    /\ UNCHANGED <<clock, now, linked, ecu, disturbances, decoded>>

ProtoNext ==
    \/ Tick \/ Disturb \/ EcuSends \/ EcuGreets
    \/ BeginPass \/ Pass \/ KeyByte \/ KeyTimeout
    \/ TakeByte \/ EndByte \/ SessionTimeoutCheck

ProtoSpec == ProtoInit /\ [][ProtoNext]_protoVars

-----------------------------------------------------------------------------
\* A body is decoded as the group it answers, with that group's own header,
\* through refusals, swallowed bytes, resynchronisations and new sessions.
DecodedAsAnswered ==
    /\ decoded.body = decoded.asked
    /\ decoded.asked # 0 => decoded.header = decoded.asked

\* The session is given up after a silence ("bewusst robust gegen
\* millis()-Ueberlauf", EcuInitTester.h).
TimeoutMeansSilence ==
    [][tester.state = "RECEIVE" /\ tester'.state = "ERROR" /\ rx = <<>>
         => clock - tester.lastTx >= SessionTimeout]_protoVars
=============================================================================
