-------------------------- MODULE SprotzLoggerCore --------------------------
(***************************************************************************)
(* What the logger task writes: the event state (sprotz_event_state.h),    *)
(* the core (sprotz_logger_core.h) and the file of SdMmcLogSink, as        *)
(* operators on one record.  A call writes some records one after the      *)
(* other; "ok" is the number of writes the card takes before one fails and *)
(* "why" the state the failure leaves (full, or a write error).            *)
(* status_.sprotzActive follows the event state after every call and is    *)
(* not kept apart; the counters are the numbers of records in the file.    *)
(***************************************************************************)
EXTENDS Integers, Sequences

\* The file header and the orientation record count as one.
RecordKinds == {"Header", "Start", "Stop", "Snapshot",
                "ImuSample", "Marker", "SprotzStart", "SprotzStop"}

LoggerStates == {"Ready", "Recording", "NoStorage", "StorageFull", "WriteError"}

\* LoggerError; Write, Full and Open go with the states of fail().
LoggerErrors == {"None", "Open", "Write", "Full", "SnapshotQueueFull"}

ErrorOf == [NoStorage |-> "Open", StorageFull |-> "Full", WriteError |-> "Write"]

StorageReady(c, ready) ==
  [c EXCEPT !.state = IF ready THEN "Ready" ELSE "NoStorage",
            !.error = IF ready THEN "None" ELSE "Open"]

NewCore == [state |-> "NoStorage", error |-> "Open", active |-> FALSE,
            startedAt |-> 0, file |-> <<>>, open |-> FALSE]

\* Mutant: the state is left as it was.
FailKeepsState(c, state) == [c EXCEPT !.error = ErrorOf[state], !.open = FALSE]

Fail(c, state) ==
  [c EXCEPT !.state = state, !.error = ErrorOf[state], !.open = FALSE]

Rec(kind, at) == [kind |-> kind, at |-> at]

\* writeV2 and writeBytes for one record after another, until one fails.
Write(c, records, ok, why) ==
  IF ok >= Len(records)
  THEN [c EXCEPT !.file = @ \o records]
  ELSE Fail([c EXCEPT !.file = @ \o SubSeq(records, 1, ok)], why)

Logging(c) == c.state = "Recording"

\* Mutant: the event state of the recording before is kept.
StartLogKeepsEvent(c, at, opens, ok, why) ==
  IF opens
  THEN Write([c EXCEPT !.state = "Recording", !.error = "None",
                       !.startedAt = at, !.file = <<>>, !.open = TRUE],
             <<Rec("Header", at), Rec("Start", at)>>, ok, why)
  ELSE Fail(c, "NoStorage")

\* start(): the file is created, or not ("opens").
StartLog(c, at, opens, ok, why) ==
  IF opens
  THEN Write([c EXCEPT !.state = "Recording", !.error = "None",
                       !.active = FALSE, !.startedAt = at, !.file = <<>>,
                       !.open = TRUE],
             <<Rec("Header", at), Rec("Start", at)>>, ok, why)
  ELSE Fail([c EXCEPT !.active = FALSE], "NoStorage")

\* Mutant: the state is left as it was.
StopLogKeepsState(c, at, ok, why) ==
  Write(c, (IF c.active THEN <<Rec("SprotzStop", at)>> ELSE <<>>)
             \o <<Rec("Stop", at)>>, ok, why)

\* LOG_STOP: an event still open is closed first.
StopLog(c, at, ok, why) ==
  LET w == Write(c, (IF c.active THEN <<Rec("SprotzStop", at)>> ELSE <<>>)
                      \o <<Rec("Stop", at)>>, ok, why)
  IN  IF Logging(w)
      THEN [w EXCEPT !.active = FALSE, !.state = "Ready", !.open = FALSE]
      ELSE w

\* A marker of one of the three subtypes, committed once it is written.
WriteMarker(c, kind, at, active, ok, why) ==
  LET w == Write(c, <<Rec(kind, at)>>, ok, why)
  IN  IF Logging(w) THEN [w EXCEPT !.active = active] ELSE w

\* preview() and handle(): the transitions that are not there are ignored.
Handle(c, cmd, opens, ok, why) ==
  CASE cmd.kind = "LogStart" /\ ~Logging(c) ->
         StartLog(c, cmd.at, opens, ok, why)
    [] cmd.kind = "LogStop" /\ Logging(c) -> StopLog(c, cmd.at, ok, why)
    [] cmd.kind = "SprotzStart" /\ Logging(c) /\ ~c.active ->
         WriteMarker(c, "SprotzStart", cmd.at, TRUE, ok, why)
    [] cmd.kind = "SprotzStop" /\ Logging(c) /\ c.active ->
         WriteMarker(c, "SprotzStop", cmd.at, FALSE, ok, why)
    [] cmd.kind = "Marker" /\ Logging(c) ->
         WriteMarker(c, "Marker", cmd.at, c.active, ok, why)
    [] OTHER -> c

\* acceptSnapshot, acceptImu
Accept(c, item, ok, why) ==
  IF Logging(c) THEN Write(c, <<Rec(item.kind, item.at)>>, ok, why) ELSE c

\* noteQueueDrops: the counter of the queue is never reset.
NoteDrops(c, drops) ==
  IF drops /\ Logging(c) THEN [c EXCEPT !.error = "SnapshotQueueFull"] ELSE c
=============================================================================
