---------------------------- MODULE KwpHandshake ----------------------------
(***************************************************************************)
(* The handshake: KwpProtocolCore (kwp1281_core.h) driven by the polling   *)
(* loop of run_handshake.  The core writes the address on the line at five *)
(* baud with break on and off, waits for the sync byte and two key bytes   *)
(* of the control unit, and answers with the complement of the second      *)
(* within a window of time; the echo of that answer makes it active.       *)
(*                                                                         *)
(* Time is counted in ticks and passes between any two steps of the loop,  *)
(* as much as it likes: the loop shares its processor, and an operation    *)
(* takes up to a second.  The rx ring keeps the time a byte arrived at.    *)
(* Tokens, lost devices and the wait itself are in TransportSession.       *)
(***************************************************************************)
EXTENDS Integers, Sequences

CONSTANTS
  BusIdle, Cell, SyncTimeout, KeyAckNotBefore, KeyAckDeadline,  \* the profile
  LoopLimit,   \* the 5000 ms of run_handshake
  MaxTime,     \* bound: the clock stops here
  NoiseBytes,  \* bytes that are no answer: what breaks leave on the line
  MaxNoise     \* bound: how many of them

ASSUME ProfileAssumption ==
  /\ {BusIdle, Cell, SyncTimeout, KeyAckNotBefore, KeyAckDeadline} \subseteq Nat
  /\ KeyAckNotBefore < KeyAckDeadline
ASSUME BoundsAssumption ==
  LoopLimit \in Nat /\ MaxTime \in Nat /\ LoopLimit <= MaxTime /\ MaxNoise \in Nat
ASSUME NoiseAssumption == NoiseBytes \subseteq 0 .. 255

VARIABLES
  core,     \* KwpProtocolCore
  now,      \* the clock
  pc,       \* where the loop of run_handshake is
  action,   \* the action being executed
  rx,       \* the rx ring, each byte with its arrival
  line,     \* level of the line as left by the last SetBreak
  ecu,      \* bytes of its answer the unit has sent
  noise,
  history   \* when the wave began, when the second key byte arrived, when the
            \* host's answer was handed to the adapter and if its echo is to come

vars == <<core, now, pc, action, rx, line, ecu, noise, history>>

Sync == 85
KeyByte1 == 1
KeyByte2 == 138
Answer == <<Sync, KeyByte1, KeyByte2>>
AckByte(b) == 255 - b
Never == -1

CoreStates == {"BusIdle", "FiveBaud", "WaitSync", "WaitKeyBytes", "KeyAck",
               "Active", "Fault"}
LastCell == 9
MaxActions == 16
Actions == [kind : {"SetBaud", "SetBreak", "SendByte"}, value : Nat]
NoAction == [kind |-> "SetBaud", value |-> 0]

-----------------------------------------------------------------------------
(***************************************************************************)
(* KwpProtocolCore.  Its actions are issued one at a time and executed     *)
(* before the next call, so queue holds at most what one advance issues.   *)
(***************************************************************************)

\* connectedWithIds
Connected(at) ==
  [state |-> "BusIdle", idleDeadline |-> at + BusIdle, queue |-> <<>>,
   issued |-> 0, active |-> FALSE, pendingWaveStart |-> FALSE, waveStart |-> 0,
   cell |-> 0, level |-> 1, syncDeadline |-> 0, keyBytesSeen |-> 0,
   keyByte2 |-> 0, notBefore |-> 0, deadline |-> 0, echoSeen |-> FALSE,
   ackIssued |-> FALSE]

Issue(c, kind, value) ==
  IF c.issued >= MaxActions THEN [c EXCEPT !.state = "Fault"]
  ELSE [c EXCEPT !.issued = @ + 1,
                 !.queue = Append(@, [kind |-> kind, value |-> value])]

\* The level of the line in each cell: a start bit, the bits of address 1 from
\* the lowest on, a stop bit.
LevelOf(cell) == IF cell \in {1, LastCell} THEN 1 ELSE 0

\* Mutated form: the level last issued is not remembered.
IssueBreakForgetful(c) ==
  LET level == LevelOf(c.cell)
  IN  IF level # c.level \/ c.cell = LastCell
      THEN Issue(c, "SetBreak", 1 - level)
      ELSE c

IssueBreakForCell(c) ==
  LET level == LevelOf(c.cell)
  IN  IF level # c.level \/ c.cell \in {0, LastCell}
      THEN Issue([c EXCEPT !.level = level], "SetBreak", 1 - level)
      ELSE c

StartWave(c, at) ==
  [Issue(c, "SetBaud", 1200) EXCEPT
     !.state = "FiveBaud", !.cell = 0, !.level = 1, !.waveStart = at,
     !.pendingWaveStart = TRUE]

NextCell(c, at) ==
  IF c.cell + 1 > LastCell
  THEN [c EXCEPT !.cell = @ + 1, !.state = "WaitSync",
                 !.syncDeadline = at + SyncTimeout]
  ELSE IssueBreakForCell([c EXCEPT !.cell = @ + 1])

CellDue(c, at) == at >= c.waveStart + (c.cell + 1) * Cell

\* Mutated form: the window opens with the second key byte.
AckDueAtOnce(c, at) == ~c.active /\ ~c.ackIssued /\ ~c.echoSeen

AckDue(c, at) == ~c.active /\ ~c.ackIssued /\ ~c.echoSeen /\ at >= c.notBefore

\* The chain of advance(), without the deadlines at its end.
Progress(c, at) ==
  CASE c.state = "BusIdle" /\ at >= c.idleDeadline -> StartWave(c, at)
    [] c.state = "FiveBaud" /\ ~c.active /\ c.pendingWaveStart /\ at >= c.waveStart ->
         IssueBreakForCell([c EXCEPT !.pendingWaveStart = FALSE])
    [] c.state = "FiveBaud" /\ ~c.active /\ ~c.pendingWaveStart /\ CellDue(c, at) ->
         NextCell(c, at)
    [] c.state = "KeyAck" /\ AckDue(c, at) ->
         Issue(c, "SendByte", AckByte(c.keyByte2))
    [] OTHER -> c

\* advance()
Advance(c, at) ==
  LET next == Progress(c, at)
  IN  IF \/ next.state = "WaitSync" /\ at >= next.syncDeadline
         \/ next.state = "KeyAck" /\ at >= next.deadline
      THEN [next EXCEPT !.state = "Fault"]
      ELSE next

\* rxByte()
RxByte(c, b, at) ==
  CASE c.state = "WaitSync" ->
         IF b = Sync THEN [c EXCEPT !.state = "WaitKeyBytes"] ELSE c
    [] c.state = "WaitKeyBytes" ->
         IF c.keyBytesSeen = 1
         THEN [c EXCEPT !.state = "KeyAck", !.keyBytesSeen = 2, !.keyByte2 = b,
                        !.notBefore = at + KeyAckNotBefore,
                        !.deadline = at + KeyAckDeadline]
         ELSE [c EXCEPT !.keyBytesSeen = @ + 1]
    [] c.state = "KeyAck" /\ b = AckByte(c.keyByte2) ->
         IF c.active \/ c.ackIssued
         THEN [c EXCEPT !.echoSeen = TRUE, !.active = FALSE, !.state = "Active"]
         ELSE [c EXCEPT !.echoSeen = TRUE]
    [] OTHER -> c

\* popAction()
PopAction(c) ==
  [c EXCEPT !.queue = Tail(@), !.active = TRUE,
            !.ackIssued = @ \/ (c.state = "KeyAck" /\ Head(c.queue).kind = "SendByte")]

\* completion() of the active operation
Completion(c, success) ==
  IF ~c.active THEN c
  ELSE IF ~success THEN [c EXCEPT !.active = FALSE, !.state = "Fault"]
  ELSE [c EXCEPT !.active = FALSE,
                 !.state = IF @ = "KeyAck" /\ c.echoSeen THEN "Active" ELSE @]

-----------------------------------------------------------------------------
(***************************************************************************)
(* The loop.                                                               *)
(***************************************************************************)

Over == pc = "over"

\* Mutated form: the loop has no limit of its own.
TurnUnlimited ==
  /\ pc = "turn"
  /\ pc' = IF core.state \notin {"Active", "Fault"} THEN "poll" ELSE "over"
  /\ UNCHANGED <<core, now, action, rx, line, ecu, noise, history>>

\* The head of the loop.
Turn ==
  /\ pc = "turn"
  /\ pc' = IF now < LoopLimit /\ core.state \notin {"Active", "Fault"}
           THEN "poll" ELSE "over"
  /\ UNCHANGED <<core, now, action, rx, line, ecu, noise, history>>

\* tryPop until the ring is empty; the clock is read after that.
Poll ==
  /\ pc = "poll"
  /\ IF rx = <<>>
     THEN pc' = "advance" /\ UNCHANGED <<core, rx>>
     ELSE /\ core' = RxByte(core, Head(rx).byte, Head(rx).at)
          /\ rx' = Tail(rx)
          /\ UNCHANGED pc
  /\ history' = IF core'.state = "KeyAck" /\ core.state # "KeyAck"
                THEN [history EXCEPT !.keyByte = Head(rx).at] ELSE history
  /\ UNCHANGED <<now, action, line, ecu, noise>>

AdvanceCore ==
  /\ pc = "advance"
  /\ core' = Advance(core, now)
  /\ pc' = "pop"
  /\ history' = IF core.state = "BusIdle" /\ core'.state = "FiveBaud"
                THEN [history EXCEPT !.waveStart = now] ELSE history
  /\ UNCHANGED <<now, action, rx, line, ecu, noise>>

\* Every issued action is popped and executed, in whatever state the core is.
Pop ==
  /\ pc = "pop"
  /\ IF core.queue = <<>>
     THEN pc' = "turn" /\ UNCHANGED <<core, action>>
     ELSE /\ action' = Head(core.queue)
          /\ core' = PopAction(core)
          /\ pc' = "submit"
  /\ UNCHANGED <<now, rx, line, ecu, noise, history>>

\* submit_action; a refused one completes as failed and ends the attempt.
Submit ==
  /\ pc = "submit"
  /\ \/ /\ pc' = "wait"
        /\ line' = IF action.kind = "SetBreak" THEN 1 - action.value ELSE line
        /\ history' = IF action.kind = "SendByte"
                      THEN [history EXCEPT !.answered = now, !.onWire = TRUE]
                      ELSE history
        /\ UNCHANGED core
     \/ /\ core' = Completion(core, FALSE)
        /\ pc' = "over"
        /\ UNCHANGED <<line, history>>
  /\ UNCHANGED <<now, action, rx, ecu, noise>>

\* wait_completion and completion()
Complete ==
  /\ pc = "wait"
  /\ \E success \in BOOLEAN :
       /\ core' = Completion(core, success)
       /\ pc' = IF success THEN "pop" ELSE "over"
  /\ UNCHANGED <<now, action, rx, line, ecu, noise, history>>

-----------------------------------------------------------------------------
(***************************************************************************)
(* The line and the clock.                                                 *)
(***************************************************************************)

Arrive(b) == rx' = Append(rx, [byte |-> b, at |-> now])

\* The unit answers an address it has heard: the stop bit has begun.
EcuByte ==
  /\ ~Over
  /\ core.cell >= LastCell /\ line = 1 /\ ecu < Len(Answer)
  /\ Arrive(Answer[ecu + 1])
  /\ ecu' = ecu + 1
  /\ UNCHANGED <<core, now, pc, action, line, noise, history>>

\* The host's answer comes back as its echo.
Echo ==
  /\ ~Over /\ history.onWire
  /\ Arrive(action.value)
  /\ history' = [history EXCEPT !.onWire = FALSE]
  /\ UNCHANGED <<core, now, pc, action, line, ecu, noise>>

Noise ==
  /\ ~Over /\ noise < MaxNoise
  /\ \E b \in NoiseBytes : Arrive(b)
  /\ noise' = noise + 1
  /\ UNCHANGED <<core, now, pc, action, line, ecu, history>>

Tick ==
  /\ ~Over /\ now < MaxTime
  /\ now' = now + 1
  /\ UNCHANGED <<core, pc, action, rx, line, ecu, noise, history>>

Init ==
  /\ core = Connected(0) /\ now = 0 /\ pc = "turn" /\ action = NoAction
  /\ rx = <<>> /\ line = 1 /\ ecu = 0 /\ noise = 0
  /\ history = [waveStart |-> Never, keyByte |-> Never, answered |-> Never, onWire |-> FALSE]

Loop == Turn \/ Poll \/ AdvanceCore \/ Pop \/ Submit \/ Complete

Next == Loop \/ EcuByte \/ Echo \/ Noise \/ Tick

\* The loop task keeps running and time goes on.
Spec == Init /\ [][Next]_vars /\ WF_vars(Loop) /\ WF_vars(Tick)

-----------------------------------------------------------------------------
Cores ==
  [state : CoreStates, idleDeadline : Nat, queue : Seq(Actions),
   issued : 0 .. MaxActions, active : BOOLEAN, pendingWaveStart : BOOLEAN,
   waveStart : Nat, cell : 0 .. LastCell + 1, level : {0, 1},
   syncDeadline : Nat, keyBytesSeen : 0 .. 2, keyByte2 : 0 .. 255,
   notBefore : Nat, deadline : Nat, echoSeen : BOOLEAN, ackIssued : BOOLEAN]

TypeOK ==
  /\ core \in Cores
  /\ now \in 0 .. MaxTime /\ action \in Actions
  /\ pc \in {"turn", "poll", "advance", "pop", "submit", "wait", "over"}
  /\ rx \in Seq([byte : 0 .. 255, at : 0 .. MaxTime])
  /\ line \in {0, 1} /\ ecu \in 0 .. Len(Answer) /\ noise \in 0 .. MaxNoise

\* Whenever the loop looks at the clock, the level of the line is the one the
\* address has in the cell the core is in, though it is only set on a change.
AddressOnLine ==
  (pc = "advance" /\ core.state = "FiveBaud" /\ ~core.pendingWaveStart) =>
    line = LevelOf(core.cell)

\* No level change comes before its cell: the wave is never faster than five
\* baud, though a late loop may make a cell longer and the next ones shorter.
CellsNotEarly ==
  (core.state = "FiveBaud" /\ ~core.pendingWaveStart) =>
    now >= history.waveStart + core.cell * Cell

\* The core is active only after its answer was accepted by the adapter: no byte
\* on the line, not even one that looks like the echo of an answer never sent,
\* and no failed operation makes it so.
ActiveIsAnswered == core.state = "Active" => history.answered # Never

\* The answer is never sent before the window opens that is counted from the
\* arrival of the second key byte at the ring, not from when the loop read it.
AnswerNotEarly ==
  history.answered # Never =>
    history.keyByte # Never /\ history.answered >= history.keyByte + KeyAckNotBefore

\* The answer is sent once its window has opened, and a core that is active has
\* had it accepted.
AnswerInOrder == ActiveIsAnswered /\ AnswerNotEarly

\* However late the loop runs, an attempt needs no more than a few actions:
\* actions_, which is never emptied within an attempt, does not fill up.
ActionsFit == core.issued <= 6

\* The wave carries the address and is never faster than five baud, and the
\* actions it takes fit, however late the loop runs.
AddressWave == TypeOK /\ AddressOnLine /\ CellsNotEarly /\ ActionsFit

\* Every attempt comes to its end.
AttemptEnds == <>Over

\* The answer is not sent when its window [notBefore, deadline) has closed.
AnswerInWindow ==
  [][history'.answered # history.answered =>
       history'.answered < history.keyByte + KeyAckDeadline]_vars
=============================================================================
