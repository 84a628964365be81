--------------------------- MODULE SprotzRecording ---------------------------
(***************************************************************************)
(* The logger task with everything that feeds it: the queues of snapshots, *)
(* IMU samples and commands (logger_channels.h, imu_sample_ring.h), the    *)
(* merge, the core and the card (SprotzLoggerService and SdMmcLogSink,     *)
(* sprotz_logger_target.h).                                                *)
(*                                                                         *)
(* A source takes a timestamp first and delivers it later, at most Late    *)
(* ticks later.  The command queue is guarded by a try-lock that its two   *)
(* producers (Serial and Display) and the logger take; a producer that     *)
(* fails drops its command, the logger tries again in its next poll.       *)
(* poll() is one step per iteration, so the producers run between any two  *)
(* of them.  Publishing the status copies it and is left out, and so is    *)
(* mounted_, which is true whenever the core records.                      *)
(***************************************************************************)
EXTENDS LoggerTimeMerge, SprotzLoggerCore, FiniteSets, SequencesExt

CONSTANTS
  StampModulus,   \* ECU stamps are micros(), 32 bits: 2^32 in the code
  Late,           \* bound: ticks between a stamp and its delivery
  SnapshotSlots, ImuSlots, CommandSlots,  \* capacities: 32, 256 and 8
  Failures,       \* bound: states a failed write may leave
  Kinds,          \* bound: commands the user gives
  MaxTime, MaxSnapshots, MaxImu, MaxCommands  \* bounds of the model

ASSUME RecordingAssumption ==
  /\ {StampModulus, Late, SnapshotSlots, ImuSlots, CommandSlots,
      MaxTime, MaxSnapshots, MaxImu, MaxCommands} \subseteq Nat
  /\ StampModulus > 0 /\ Late < Holdback /\ Late < MaxTime
  /\ Failures \subseteq {"StorageFull", "WriteError"}
  /\ Kinds \subseteq CommandKinds

VARIABLES
  now,         \* esp_timer_get_time
  latest,      \* the last stamp of each source of samples
  operationLock,  \* who holds the try-lock of the command queue
  entering,    \* the command of the producer that holds it
  snapshots, imuSamples, commands,   \* the queues
  drops,       \* drops of the snapshot queue: none yet, or some
  sent,        \* how much of each kind was made
  merge, core,
  pc, nowUs,   \* where poll() is, and its argument
  accepted     \* history: times of the snapshots taken since the file was
               \* begun, and the stamps that waited then

sources == <<latest, entering, sent>>
queues == <<snapshots, imuSamples, commands, drops>>
vars == <<now, sources, operationLock, queues, merge, core, pc, nowUs, accepted>>

Nobody == "nobody"
Producer == "producer"
Logger == "logger"

\* begin() of the sink and of the service, with a card or without one.
Init ==
  /\ now = Late + 1
  /\ latest = [snapshots |-> 1, imu |-> 1]
  /\ operationLock = Nobody /\ entering = None
  /\ snapshots = <<>> /\ imuSamples = <<>> /\ commands = <<>> /\ drops = FALSE
  /\ sent = [snapshots |-> 0, imu |-> 0, commands |-> 0]
  /\ merge = EmptyMerge
  /\ \E ready \in BOOLEAN : core = StorageReady(NewCore, ready)
  /\ pc = "idle" /\ nowUs = 0
  /\ accepted = {}

-----------------------------------------------------------------------------
(***************************************************************************)
(* The sources                                                             *)
(***************************************************************************)

\* The lock is held for a few instructions.
Tick ==
  /\ now < MaxTime /\ operationLock # Producer
  /\ now' = now + 1
  /\ UNCHANGED <<sources, operationLock, queues, merge, core, pc, nowUs, accepted>>

\* What is delivered now was stamped a little earlier.  The clock does not end
\* before the merge may let it through.
Stamps == {t \in now - Late .. now : now + Holdback < MaxTime}

\* FixedSpscQueue::trySend from the processing service; the stamp of a snapshot
\* comes from micros().
SendSnapshot ==
  /\ sent.snapshots < MaxSnapshots
  /\ sent' = [sent EXCEPT !.snapshots = @ + 1]
  /\ \E t \in Stamps :
       /\ t >= latest.snapshots
       /\ latest' = [latest EXCEPT !.snapshots = t]
       /\ LET at == t % StampModulus
          IN  IF Len(snapshots) < SnapshotSlots
              THEN /\ snapshots' = Append(snapshots, [kind |-> "Snapshot", at |-> at])
                   /\ accepted' = accepted \cup
                        (IF Logging(core) /\ merge.recording THEN {t} ELSE {})
                   /\ UNCHANGED drops
              ELSE drops' = TRUE /\ UNCHANGED <<snapshots, accepted>>
  /\ UNCHANGED <<now, entering, operationLock, imuSamples, commands, merge, core,
                 pc, nowUs>>

\* ImuSampleRing::tryPush
PushImu ==
  /\ sent.imu < MaxImu
  /\ sent' = [sent EXCEPT !.imu = @ + 1]
  /\ \E t \in Stamps :
       /\ t >= latest.imu
       /\ latest' = [latest EXCEPT !.imu = t]
       /\ imuSamples' = IF Len(imuSamples) < ImuSlots
                        THEN Append(imuSamples, [kind |-> "ImuSample", at |-> t])
                        ELSE imuSamples
  /\ UNCHANGED <<now, entering, operationLock, snapshots, commands, drops, merge,
                 core, pc, nowUs, accepted>>

\* FixedMpscQueue::trySend: the producer gets the lock, or its command is
\* dropped.  The display stamps with esp_timer_get_time, Serial with micros().
Command ==
  /\ sent.commands < MaxCommands /\ now \in Stamps
  /\ sent' = [sent EXCEPT !.commands = @ + 1]
  /\ IF operationLock = Nobody
     THEN /\ operationLock' = Producer
          /\ \E k \in Kinds, at \in {now, now % StampModulus} :
               entering' = [kind |-> k, at |-> at]
     ELSE UNCHANGED <<operationLock, entering>>
  /\ UNCHANGED <<now, latest, queues, merge, core, pc, nowUs, accepted>>

\* The rest of trySend: the command is stored, or dropped for want of a slot.
Enqueue ==
  /\ operationLock = Producer
  /\ operationLock' = Nobody /\ entering' = None
  /\ commands' = IF Len(commands) < CommandSlots
                 THEN Append(commands, entering) ELSE commands
  /\ UNCHANGED <<now, latest, sent, snapshots, imuSamples, drops, merge, core, pc,
                 nowUs, accepted>>

-----------------------------------------------------------------------------
(***************************************************************************)
(* SprotzLoggerService::poll                                               *)
(***************************************************************************)

\* fillPending for snapshots and samples; m is the merge it fills.  The
\* command follows in ReceiveCommand if the lock is free.
Fill(m) ==
  LET takesS == m.snapshot = None /\ snapshots # <<>>
      takesI == m.imu = None /\ imuSamples # <<>>
      m1 == IF takesS THEN Offer(m, "snapshot", Head(snapshots)) ELSE m
      m2 == IF takesI THEN Offer(m1, "imu", Head(imuSamples)) ELSE m1
      tries == m.command = None /\ operationLock = Nobody
  IN  /\ merge' = m2
      /\ snapshots' = IF takesS THEN Tail(snapshots) ELSE snapshots
      /\ imuSamples' = IF takesI THEN Tail(imuSamples) ELSE imuSamples
      /\ operationLock' = IF tries THEN Logger ELSE operationLock
      /\ pc' = IF tries THEN "receive" ELSE "merge"
      /\ UNCHANGED <<commands, drops>>

\* refreshStorage, when its period is over: SdMmcLogSink::probe remounts the
\* card unless a recording runs.
RefreshStorage ==
  \/ UNCHANGED core
  \/ /\ ~Logging(core)
     /\ \E ready \in BOOLEAN :
          core' = IF ready # (core.state = "Ready") THEN StorageReady(core, ready)
                  ELSE core

BeginPoll ==
  /\ pc = "idle"
  /\ nowUs' = now
  /\ RefreshStorage
  /\ Fill(merge)
  /\ UNCHANGED <<now, sources, accepted>>

ReceiveCommand ==
  /\ pc = "receive"
  /\ IF commands = <<>>
     THEN UNCHANGED <<merge, commands>>
     ELSE merge' = Offer(merge, "command", Head(commands))
          /\ commands' = Tail(commands)
  /\ operationLock' = Nobody /\ pc' = "merge"
  /\ UNCHANGED <<now, sources, snapshots, imuSamples, drops, core, nowUs,
                 accepted>>

\* pop() drops an item from before the start or from after the stop.
DiscardItem ==
  /\ pc = "merge" /\ Pending(merge) # {}
  /\ LET i == Earliest(merge)
     IN  ~MustWait(merge, i, nowUs) /\ MustDiscard(merge, i)
         /\ merge' = Without(merge, i)
  /\ UNCHANGED <<now, sources, operationLock, queues, core, pc, nowUs,
                 accepted>>

\* What the core makes of an item: the file may not open, any write may fail.
Outcomes(i) ==
  {IF i.kind \in CommandKinds THEN Handle(core, i, opens, ok, why)
   ELSE Accept(core, i, ok, why) :
     opens \in BOOLEAN, ok \in 0 .. 2, why \in Failures}

\* The stamps of the snapshots in front of the core.
Waiting ==
  {snapshots[j].at : j \in DOMAIN snapshots}
    \cup (IF merge.snapshot = None THEN {} ELSE {merge.snapshot.at})

\* pop() hands out an item, the core takes it, and the sources are refilled.
MergeItem ==
  /\ pc = "merge" /\ Pending(merge) # {}
  /\ LET i == Earliest(merge)
     IN  /\ ~MustWait(merge, i, nowUs) /\ ~MustDiscard(merge, i)
         /\ core' \in Outcomes(i)
         /\ accepted' = IF i.kind = "LogStart" /\ ~Logging(core) /\ Logging(core')
                        THEN Waiting ELSE accepted
         /\ Fill(Emit(merge, i))
  /\ UNCHANGED <<now, sources, nowUs>>

\* The end of poll(): the drops are noted.  flush() cannot fail while the file
\* is open.
EndPoll ==
  /\ pc = "merge"
  /\ Pending(merge) # {} => MustWait(merge, Earliest(merge), nowUs)
  /\ core' = NoteDrops(core, drops)
  /\ pc' = "idle" /\ nowUs' = 0
  /\ UNCHANGED <<now, sources, operationLock, queues, merge, accepted>>

LoggerStep ==
  BeginPoll \/ ReceiveCommand \/ DiscardItem \/ MergeItem \/ EndPoll

SourceStep ==
  SendSnapshot \/ PushImu \/ Command \/ Enqueue

Next == Tick \/ SourceStep \/ LoggerStep

\* The scheduler runs the logger's loop and lets a producer finish its call.
Fairness ==
  WF_vars(Tick) /\ WF_vars(LoggerStep) /\ WF_vars(Enqueue)

Spec == Init /\ [][Next]_vars /\ Fairness
-----------------------------------------------------------------------------
(***************************************************************************)
(* Properties                                                              *)
(***************************************************************************)

SnapshotItems == [kind : {"Snapshot"}, at : 0 .. MaxTime]
ImuItems == [kind : {"ImuSample"}, at : 0 .. MaxTime]
CommandItems == [kind : CommandKinds, at : 0 .. MaxTime]

Merges ==
  [recording : BOOLEAN, start : 0 .. MaxTime,
   snapshot : SnapshotItems \cup {None}, imu : ImuItems \cup {None},
   command : CommandItems \cup {None}]

Cores ==
  [state : LoggerStates, error : LoggerErrors, active : BOOLEAN,
   startedAt : 0 .. MaxTime, file : Seq([kind : RecordKinds, at : 0 .. MaxTime]),
   open : BOOLEAN]

\* Every variable has its type, and the command queue is entered by the one
\* that holds its lock, with a command.
TypeOK ==
  /\ now \in Late + 1 .. MaxTime /\ nowUs \in 0 .. MaxTime
  /\ latest \in [snapshots : 0 .. MaxTime, imu : 0 .. MaxTime]
  /\ sent \in [snapshots : Nat, imu : Nat, commands : Nat]
  /\ operationLock \in {Producer, Nobody, Logger}
  /\ entering \in IF operationLock = Producer THEN CommandItems ELSE {None}
  /\ snapshots \in Seq(SnapshotItems) /\ Len(snapshots) <= SnapshotSlots
  /\ imuSamples \in Seq(ImuItems) /\ Len(imuSamples) <= ImuSlots
  /\ commands \in Seq(CommandItems) /\ Len(commands) <= CommandSlots
  /\ drops \in BOOLEAN
  /\ merge \in Merges /\ core \in Cores
  /\ pc \in {"idle", "receive", "merge"}

Ended(f) == f # <<>> /\ Last(f).kind = "Stop"

\* The first n records of a file leave an event open.
EventOpen(f, n) ==
  \E j \in 1 .. n : /\ f[j].kind = "SprotzStart"
                    /\ \A k \in j + 1 .. n : f[k].kind # "SprotzStop"

\* The starts and stops of events alternate.
Alternates(f) ==
  \A j \in DOMAIN f : /\ f[j].kind = "SprotzStart" => ~EventOpen(f, j - 1)
                      /\ f[j].kind = "SprotzStop" => EventOpen(f, j - 1)

\* In a file the starts and stops of events alternate, the core knows whether
\* one is open, and an open one is closed before the stop, whatever failed in
\* the recordings before (eventState_ survives a failed write and is reset by
\* the next LOG_START).
EventsBracketed ==
  /\ Alternates(core.file)
  /\ Logging(core) => (core.active <=> EventOpen(core.file, Len(core.file)))
  /\ Ended(core.file) => ~EventOpen(core.file, Len(core.file))

\* While the core records, the merge lets items through and a file is open;
\* the two keep their own idea of a recording (recording_ of the merge,
\* status_.state of the core) and each call may fail between them.
MergeFollowsCore == Logging(core) => merge.recording /\ core.open

\* The file holds the snapshot of time t.
Kept(t) ==
  \E j \in DOMAIN core.file : core.file[j] = Rec("Snapshot", t % StampModulus)

\* What ARCHITECTURE_V2 345-346 says: a file that was stopped holds every
\* snapshot the queue had taken that is not older than its start nor younger
\* than its stop.
StopKeepsAccepted ==
  Ended(core.file) =>
    \A t \in accepted :
      core.startedAt <= t /\ t <= Last(core.file).at => Kept(t)

\* The same of a recording that met no snapshot older than its start: for
\* one that is younger the stop waits, in whatever order the queues deliver
\* them and however late.
StopWaitsForAccepted ==
  Ended(core.file) /\ (\A t \in accepted : core.startedAt <= t) =>
    \A t \in accepted : t <= Last(core.file).at => Kept(t)

\* A stop that got into the queue ends the recording it finds.
StopEnds ==
  (\E j \in DOMAIN commands : commands[j].kind = "LogStop") /\ Logging(core)
    ~> ~Logging(core)
===============================================================================
