------------------------ MODULE SprotzRecording_proofs ------------------------
(***************************************************************************)
(* Proofs about the logger task: its types, that the merge follows the     *)
(* core whatever fails, and that the events of a file are bracketed.  The  *)
(* second is inductive together with the first: a step of poll() hands one *)
(* item to both, and the lemmas say what each makes of it.                 *)
(***************************************************************************)
EXTENDS SprotzRecording, SequenceTheorems, TLAPS

Records == [kind : RecordKinds, at : 0 .. MaxTime]

-----------------------------------------------------------------------------
(***************************************************************************)
(* The core                                                                *)
(***************************************************************************)

\* A failure ends the recording.
LEMMA FailEnds ==
  ASSUME NEW c \in Cores, NEW state \in {"NoStorage", "StorageFull", "WriteError"}
  PROVE  Fail(c, state) \in Cores /\ ~Logging(Fail(c, state))
<1>1. ErrorOf[state] \in LoggerErrors
  BY DEF ErrorOf, LoggerErrors
<1>2. state \in LoggerStates /\ state # "Recording"
  BY DEF LoggerStates
<1> QED  BY <1>1, <1>2 DEF Fail, Cores, Logging

\* Writing keeps all but the file, unless it fails, which ends the recording.
LEMMA WriteKeeps ==
  ASSUME NEW c \in Cores, NEW records \in Seq(Records), NEW ok \in Nat,
         NEW why \in Failures
  PROVE  LET w == Write(c, records, ok, why)
         IN  /\ w \in Cores
             /\ Logging(w) => Logging(c) /\ w.open = c.open
<1>1. why \in {"StorageFull", "WriteError"}
  BY RecordingAssumption
<1>2. CASE ok >= Len(records)
  <2>1. c.file \o records \in Seq(Records)
    BY ConcatProperties DEF Cores, Records
  <2> QED  BY <1>2, <2>1 DEF Write, Cores, Records, Logging
<1>3. CASE ~(ok >= Len(records))
  <2> DEFINE written == c.file \o SubSeq(records, 1, ok)
             d == [c EXCEPT !.file = written]
  <2>1. \A j \in 1 .. ok : records[j] \in Records
    BY <1>3
  <2>2. SubSeq(records, 1, ok) \in Seq(Records)
    BY <2>1, SubSeqProperties
  <2>3. written \in Seq(Records)
    BY <2>2, ConcatProperties DEF Cores, Records
  <2>4. d \in Cores
    BY <2>3 DEF Cores, Records
  <2>5. Write(c, records, ok, why) = Fail(d, why)
    BY <1>3 DEF Write
  <2> QED  BY <1>1, <2>4, <2>5, FailEnds
<1> QED  BY <1>2, <1>3 DEF Cores

\* A command leaves the core recording only if it recorded already, or if the
\* command was a start that opened the file; a stop never does.
LEMMA HandleKeeps ==
  ASSUME NEW c \in Cores, NEW cmd \in CommandItems, NEW opens \in BOOLEAN,
         NEW ok \in Nat, NEW why \in Failures, Logging(c) => c.open
  PROVE  LET h == Handle(c, cmd, opens, ok, why)
         IN  /\ h \in Cores
             /\ Logging(h) => /\ h.open
                              /\ Logging(c) \/ cmd.kind = "LogStart"
                              /\ cmd.kind # "LogStop"
<1> DEFINE h == Handle(c, cmd, opens, ok, why)
<1>0. /\ cmd.kind \in CommandKinds /\ cmd.at \in 0 .. MaxTime
      /\ \A kind \in RecordKinds : Rec(kind, cmd.at) \in Records
  BY DEF CommandItems, Records, Rec
<1>1. CASE cmd.kind = "LogStart" /\ ~Logging(c)
  <2>1. h = StartLog(c, cmd.at, opens, ok, why)
    BY <1>1 DEF Handle
  <2>2. CASE opens
    <3> DEFINE d == [c EXCEPT !.state = "Recording", !.error = "None",
                              !.active = FALSE, !.startedAt = cmd.at,
                              !.file = <<>>, !.open = TRUE]
               records == <<Rec("Header", cmd.at), Rec("Start", cmd.at)>>
    <3>0. /\ "Recording" \in LoggerStates /\ "None" \in LoggerErrors
          /\ <<>> \in Seq([kind : RecordKinds, at : 0 .. MaxTime])
      BY DEF LoggerStates, LoggerErrors
    <3>1. d \in Cores /\ d.open
      BY <1>0, <3>0 DEF Cores
    <3>2. records \in Seq(Records)
      BY <1>0 DEF RecordKinds
    <3>3. h = Write(d, records, ok, why)
      BY <2>1, <2>2 DEF StartLog
    <3> HIDE DEF d, records
    <3>4. LET w == Write(d, records, ok, why)
          IN  w \in Cores /\ (Logging(w) => w.open = d.open)
      BY <3>1, <3>2, WriteKeeps
    <3>5. h \in Cores /\ (Logging(h) => h.open = d.open)
      BY <3>3, <3>4
    <3> QED  BY <1>1, <3>1, <3>5
  <2>3. CASE ~opens
    <3>1. [c EXCEPT !.active = FALSE] \in Cores
      BY DEF Cores
    <3>2. h = Fail([c EXCEPT !.active = FALSE], "NoStorage")
      BY <2>1, <2>3 DEF StartLog
    <3> QED  BY <3>1, <3>2, FailEnds
  <2> QED  BY <2>2, <2>3
<1>2. CASE cmd.kind = "LogStop" /\ Logging(c)
  <2> DEFINE records == (IF c.active THEN <<Rec("SprotzStop", cmd.at)>> ELSE <<>>)
                          \o <<Rec("Stop", cmd.at)>>
             w == Write(c, records, ok, why)
  <2>1. h = StopLog(c, cmd.at, ok, why)
    BY <1>2 DEF Handle
  <2>2. records \in Seq(Records)
    <3>1. <<Rec("SprotzStop", cmd.at)>> \in Seq(Records) /\ <<Rec("Stop", cmd.at)>> \in Seq(Records)
      BY <1>0 DEF RecordKinds
    <3>2. <<>> \in Seq(Records)
      OBVIOUS
    <3> QED  BY <3>1, <3>2, ConcatProperties
  <2>3. w \in Cores
    BY <2>2, WriteKeeps
  <2>4. h = IF Logging(w)
            THEN [w EXCEPT !.active = FALSE, !.state = "Ready", !.open = FALSE]
            ELSE w
    BY <2>1 DEF StopLog
  <2>5. h \in Cores /\ ~Logging(h)
    <3>1. CASE Logging(w)
      <4> HIDE DEF w
      <4>1. "Ready" \in LoggerStates
        BY DEF LoggerStates
      <4>2. [w EXCEPT !.active = FALSE, !.state = "Ready", !.open = FALSE] \in Cores
        BY <2>3, <4>1 DEF Cores
      <4>3. [w EXCEPT !.active = FALSE, !.state = "Ready", !.open = FALSE].state = "Ready"
        BY <2>3 DEF Cores
      <4> QED  BY <2>4, <3>1, <4>2, <4>3 DEF Logging
    <3>2. CASE ~Logging(w)
      BY <2>3, <2>4, <3>2
    <3> QED  BY <3>1, <3>2
  <2> QED  BY <2>5
<1>3. ASSUME NEW kind \in {"SprotzStart", "SprotzStop", "Marker"},
             NEW active \in BOOLEAN, cmd.kind = kind, Logging(c),
             h = WriteMarker(c, kind, cmd.at, active, ok, why)
      PROVE  h \in Cores /\ (Logging(h) => h.open /\ cmd.kind # "LogStop")
  <2> DEFINE w == Write(c, <<Rec(kind, cmd.at)>>, ok, why)
  <2>1. <<Rec(kind, cmd.at)>> \in Seq(Records)
    BY <1>0 DEF RecordKinds
  <2>2. w \in Cores /\ (Logging(w) => w.open = c.open)
    BY <2>1, WriteKeeps
  <2>3. h = IF Logging(w) THEN [w EXCEPT !.active = active] ELSE w
    BY <1>3 DEF WriteMarker
  <2>4. h \in Cores /\ (Logging(h) => h.open)
    BY <1>3, <2>2, <2>3 DEF Cores, Logging
  <2> QED  BY <1>3, <2>4
<1>4. CASE h = c /\ ~(cmd.kind = "LogStop" /\ Logging(c))
  BY <1>4
<1>5. \/ cmd.kind = "LogStart" /\ ~Logging(c)
      \/ cmd.kind = "LogStop" /\ Logging(c)
      \/ /\ Logging(c) /\ cmd.kind = "SprotzStart"
         /\ h = WriteMarker(c, "SprotzStart", cmd.at, TRUE, ok, why)
      \/ /\ Logging(c) /\ cmd.kind = "SprotzStop"
         /\ h = WriteMarker(c, "SprotzStop", cmd.at, FALSE, ok, why)
      \/ /\ Logging(c) /\ cmd.kind = "Marker"
         /\ h = WriteMarker(c, "Marker", cmd.at, c.active, ok, why)
      \/ h = c /\ ~(cmd.kind = "LogStop" /\ Logging(c))
  BY <1>0 DEF Handle, CommandKinds
<1> QED  BY <1>1, <1>2, <1>3, <1>4, <1>5 DEF Cores

\* A snapshot or a sample is written by a core that records.
LEMMA AcceptKeeps ==
  ASSUME NEW c \in Cores, NEW i \in SnapshotItems \cup ImuItems, NEW ok \in Nat,
         NEW why \in Failures
  PROVE  LET a == Accept(c, i, ok, why)
         IN  a \in Cores /\ (Logging(a) => Logging(c) /\ a.open = c.open)
<1>1. Rec(i.kind, i.at) \in Records
  BY DEF SnapshotItems, ImuItems, Records, Rec, RecordKinds
<1>2. <<Rec(i.kind, i.at)>> \in Seq(Records)
  BY <1>1
<1> QED  BY <1>2, WriteKeeps DEF Accept

-----------------------------------------------------------------------------
(***************************************************************************)
(* The merge                                                               *)
(***************************************************************************)

Items == SnapshotItems \cup ImuItems \cup CommandItems

\* What waits is an item of one of the sources.
LEMMA PendingItems ==
  ASSUME NEW m \in Merges
  PROVE  Pending(m) \subseteq Items
BY DEF Pending, Merges, Items

\* Items of different sources never have the same priority.
LEMMA Priorities ==
  /\ \A i \in SnapshotItems : Priority[ItemKind(i)] = 2
  /\ \A i \in ImuItems : Priority[ItemKind(i)] = 3
  /\ \A i \in CommandItems : Priority[ItemKind(i)] \in {0, 1, 4}
<1>1. \A i \in SnapshotItems : ItemKind(i) = "Snapshot"
  BY DEF SnapshotItems, ItemKind
<1>2. \A i \in ImuItems : ItemKind(i) = "ImuSample"
  BY DEF ImuItems, ItemKind
<1>3. \A i \in CommandItems : ItemKind(i) \in {"Start", "Marker", "Stop"}
  BY DEF CommandItems, CommandKinds, ItemKind
<1> QED  BY <1>1, <1>2, <1>3 DEF Priority

\* choose() finds an item whenever one waits: of two different ones, one goes
\* before the other, and the order has no cycle.
LEMMA EarliestWaits ==
  ASSUME NEW m \in Merges, Pending(m) # {}
  PROVE  /\ Earliest(m) \in Pending(m)
         /\ \A j \in Pending(m) \ {Earliest(m)} : Precedes(Earliest(m), j)
<1> DEFINE P == Pending(m)
           Rank(i) == Priority[ItemKind(i)]
<1>1. \A i \in P : i.at \in Int /\ Rank(i) \in Int
  <2>1. \A i \in Items : i.at \in Int
    BY RecordingAssumption DEF Items, SnapshotItems, ImuItems, CommandItems
  <2> QED  BY <2>1, PendingItems, Priorities DEF Items
<1>2. P \subseteq {m.snapshot, m.imu, m.command}
  BY DEF Pending
<1>3. \A i, j \in P : i # j => Rank(i) # Rank(j)
  <2>1. \A i \in P : \/ i = m.snapshot /\ i \in SnapshotItems
                     \/ i = m.imu /\ i \in ImuItems
                     \/ i = m.command /\ i \in CommandItems
    BY DEF Pending, Merges
  <2> QED  BY <2>1, Priorities
<1>4. \A i, j \in P : Precedes(i, j) <=> \/ i.at < j.at
                                         \/ i.at = j.at /\ Rank(i) < Rank(j)
  BY DEF Precedes
<1> HIDE DEF P, Rank
<1>5. \A i, j \in P : i # j => Precedes(i, j) \/ Precedes(j, i)
  BY <1>1, <1>3, <1>4
<1>6. \A i, j, k \in P : Precedes(i, j) /\ Precedes(j, k) => Precedes(i, k)
  BY <1>1, <1>4
<1>7. \E i \in P : \A j \in P \ {i} : Precedes(i, j)
  <2>1. PICK x \in P : TRUE
    BY DEF P
  <2>2. ASSUME NEW s, NEW i, NEW c, P \subseteq {s, i, c}
        PROVE  \E a \in P : \A b \in P \ {a} : Precedes(a, b)
    BY <2>1, <2>2, <1>5, <1>6
  <2> QED  BY <1>2, <2>2
<1> QED  BY <1>7 DEF Earliest, P

\* Handing an item out: a start turns recording on, a stop turns it off.
LEMMA EmitKeeps ==
  ASSUME NEW m \in Merges, NEW i \in Items
  PROVE  /\ Without(m, i) \in Merges /\ Without(m, i).recording = m.recording
         /\ Emit(m, i) \in Merges
         /\ Emit(m, i).recording = CASE i.kind = "LogStart" -> TRUE
                                     [] i.kind = "LogStop" -> FALSE
                                     [] OTHER -> m.recording
<1>1. Without(m, i) \in Merges /\ Without(m, i).recording = m.recording
  BY DEF Without, Merges
<1>2. i.at \in 0 .. MaxTime
  BY DEF Items, SnapshotItems, ImuItems, CommandItems
<1>3. /\ ItemKind(i) = "Start" <=> i.kind = "LogStart"
      /\ ItemKind(i) = "Stop" <=> i.kind = "LogStop"
  BY DEF Items, SnapshotItems, ImuItems, CommandItems, CommandKinds, ItemKind
<1> DEFINE w == Without(m, i)
<1> HIDE DEF w
<1>4. w \in Merges /\ w.recording = m.recording
  BY <1>1 DEF w
<1>5. Emit(m, i) = CASE i.kind = "LogStart" -> [w EXCEPT !.recording = TRUE, !.start = i.at]
                     [] i.kind = "LogStop" -> [w EXCEPT !.recording = FALSE]
                     [] OTHER -> w
  BY <1>3 DEF Emit, w
<1>6. CASE i.kind = "LogStart"
  <2>1. Emit(m, i) = [w EXCEPT !.recording = TRUE, !.start = i.at]
    BY <1>5, <1>6
  <2> QED  BY <1>1, <1>2, <1>4, <1>6, <2>1 DEF Merges
<1>7. CASE i.kind = "LogStop"
  <2>1. Emit(m, i) = [w EXCEPT !.recording = FALSE]
    BY <1>5, <1>7
  <2> QED  BY <1>1, <1>4, <1>7, <2>1 DEF Merges
<1>8. CASE i.kind \notin {"LogStart", "LogStop"}
  BY <1>1, <1>4, <1>5, <1>8
<1> QED  BY <1>6, <1>7, <1>8

\* Refilling the merge moves items and takes the lock of the command queue
\* only when it is free.
LEMMA FillKeeps ==
  ASSUME TypeOK, operationLock # Logger, NEW m \in Merges, Fill(m)
  PROVE  /\ merge' \in Merges /\ merge'.recording = m.recording
         /\ snapshots' \in Seq(SnapshotItems) /\ Len(snapshots') <= SnapshotSlots
         /\ imuSamples' \in Seq(ImuItems) /\ Len(imuSamples') <= ImuSlots
         /\ operationLock' \in {Producer, Nobody, Logger}
         /\ operationLock' = Producer <=> operationLock = Producer
         /\ operationLock' = Logger <=> pc' = "receive"
         /\ pc' \in {"idle", "receive", "merge"}
         /\ UNCHANGED <<commands, drops>>
<1> DEFINE takesS == m.snapshot = None /\ snapshots # <<>>
           takesI == m.imu = None /\ imuSamples # <<>>
           m1 == IF takesS THEN Offer(m, "snapshot", Head(snapshots)) ELSE m
           m2 == IF takesI THEN Offer(m1, "imu", Head(imuSamples)) ELSE m1
<1>0. SnapshotSlots \in Nat /\ ImuSlots \in Nat
  BY RecordingAssumption
<1>1. takesS => /\ Head(snapshots) \in SnapshotItems
                /\ Tail(snapshots) \in Seq(SnapshotItems)
                /\ Len(Tail(snapshots)) <= SnapshotSlots
  <2>1. snapshots \in Seq(SnapshotItems) /\ Len(snapshots) \in Nat /\ Len(snapshots) <= SnapshotSlots
    BY DEF TypeOK
  <2>2. ASSUME snapshots # <<>>
        PROVE  /\ Head(snapshots) \in SnapshotItems /\ Tail(snapshots) \in Seq(SnapshotItems)
               /\ Len(Tail(snapshots)) = Len(snapshots) - 1
    BY <2>1, <2>2, HeadTailProperties
  <2> QED  BY <1>0, <2>1, <2>2
<1>2. takesI => /\ Head(imuSamples) \in ImuItems
                /\ Tail(imuSamples) \in Seq(ImuItems)
                /\ Len(Tail(imuSamples)) <= ImuSlots
  <2>1. imuSamples \in Seq(ImuItems) /\ Len(imuSamples) \in Nat /\ Len(imuSamples) <= ImuSlots
    BY DEF TypeOK
  <2>2. ASSUME imuSamples # <<>>
        PROVE  /\ Head(imuSamples) \in ImuItems /\ Tail(imuSamples) \in Seq(ImuItems)
               /\ Len(Tail(imuSamples)) = Len(imuSamples) - 1
    BY <2>1, <2>2, HeadTailProperties
  <2> QED  BY <1>0, <2>1, <2>2
<1>3. m1 \in Merges /\ m1.recording = m.recording
  BY <1>1 DEF Offer, Merges
<1>4. m2 \in Merges /\ m2.recording = m.recording
  <2> HIDE DEF m1
  <2> QED  BY <1>2, <1>3 DEF Offer, Merges
<1>5. merge' = m2
  BY DEF Fill
<1>6. /\ snapshots' = IF takesS THEN Tail(snapshots) ELSE snapshots
      /\ imuSamples' = IF takesI THEN Tail(imuSamples) ELSE imuSamples
  BY DEF Fill
<1>7. /\ operationLock' \in {Producer, Nobody, Logger}
      /\ operationLock' = Producer <=> operationLock = Producer
      /\ operationLock' = Logger <=> pc' = "receive"
      /\ pc' \in {"idle", "receive", "merge"}
      /\ UNCHANGED <<commands, drops>>
  BY DEF Fill, TypeOK, Producer, Nobody, Logger
<1>8. /\ snapshots' \in Seq(SnapshotItems) /\ Len(snapshots') <= SnapshotSlots
      /\ imuSamples' \in Seq(ImuItems) /\ Len(imuSamples') <= ImuSlots
  BY <1>1, <1>2, <1>6 DEF TypeOK
<1> QED  BY <1>4, <1>5, <1>7, <1>8

-----------------------------------------------------------------------------
(***************************************************************************)
(* The invariant                                                           *)
(***************************************************************************)

\* The logger holds the lock of the command queue just while it receives.
LockOfLogger == operationLock = Logger <=> pc = "receive"

IInv == TypeOK /\ LockOfLogger /\ MergeFollowsCore

LEMMA Bounds ==
  /\ Late \in Nat /\ StampModulus \in Nat \ {0} /\ MaxTime \in Nat
  /\ SnapshotSlots \in Nat /\ ImuSlots \in Nat /\ CommandSlots \in Nat
  /\ Late < MaxTime /\ Failures \subseteq {"StorageFull", "WriteError"}
  /\ Kinds \subseteq CommandKinds
BY RecordingAssumption

LEMMA InitInv == Init => IInv
<1> SUFFICES ASSUME Init PROVE IInv
  OBVIOUS
<1>1. NewCore \in Cores /\ ~Logging(NewCore)
  BY Bounds DEF NewCore, Cores, LoggerStates, LoggerErrors, Logging
<1>2. core \in Cores /\ ~Logging(core)
  <2>1. PICK ready \in BOOLEAN : core = StorageReady(NewCore, ready)
    BY DEF Init
  <2>2. /\ {"Ready", "NoStorage"} \subseteq LoggerStates /\ {"None", "Open"} \subseteq LoggerErrors
    BY DEF LoggerStates, LoggerErrors
  <2> HIDE DEF NewCore
  <2> QED  BY <1>1, <2>1, <2>2 DEF StorageReady, Cores, Logging
<1>3. merge \in Merges
  BY Bounds DEF Init, EmptyMerge, Merges
<1>4. /\ now \in Late + 1 .. MaxTime /\ nowUs \in 0 .. MaxTime
      /\ latest \in [snapshots : 0 .. MaxTime, imu : 0 .. MaxTime]
      /\ sent \in [snapshots : Nat, imu : Nat, commands : Nat]
  BY Bounds DEF Init
<1>5. /\ operationLock \in {Producer, Nobody, Logger}
      /\ entering \in IF operationLock = Producer THEN CommandItems ELSE {None}
      /\ drops \in BOOLEAN /\ pc \in {"idle", "receive", "merge"}
      /\ LockOfLogger
  BY DEF Init, LockOfLogger, Producer, Nobody, Logger
<1>6. /\ snapshots \in Seq(SnapshotItems) /\ Len(snapshots) <= SnapshotSlots
      /\ imuSamples \in Seq(ImuItems) /\ Len(imuSamples) <= ImuSlots
      /\ commands \in Seq(CommandItems) /\ Len(commands) <= CommandSlots
  BY Bounds DEF Init
<1> QED  BY <1>2, <1>3, <1>4, <1>5, <1>6 DEF IInv, TypeOK, MergeFollowsCore

\* A stamp is not in the future.
LEMMA StampRange ==
  ASSUME TypeOK, NEW s \in Stamps
  PROVE  s \in 0 .. MaxTime /\ s % StampModulus \in 0 .. MaxTime
<1>1. s \in Nat /\ s <= MaxTime
  BY Bounds DEF TypeOK, Stamps
<1>2. s % StampModulus \in Nat /\ s % StampModulus <= s
  BY <1>1, Bounds, Z3
<1> QED  BY <1>1, <1>2, Bounds

LEMMA SourceStepInv == IInv /\ (Tick \/ SourceStep) => IInv'
<1> SUFFICES ASSUME IInv, Tick \/ SourceStep PROVE IInv'
  OBVIOUS
<1> USE DEF IInv, sources, queues
<1>1. CASE Tick
  BY <1>1, Bounds DEF Tick, TypeOK, LockOfLogger, MergeFollowsCore
<1>2. CASE SendSnapshot
  <2>1. PICK s \in Stamps : /\ latest' = [latest EXCEPT !.snapshots = s]
          /\ \/ Len(snapshots) < SnapshotSlots
                /\ snapshots' = Append(snapshots, [kind |-> "Snapshot", at |-> s % StampModulus])
                /\ UNCHANGED drops
             \/ drops' = TRUE /\ UNCHANGED snapshots
    BY <1>2 DEF SendSnapshot
  <2>2. s \in 0 .. MaxTime /\ [kind |-> "Snapshot", at |-> s % StampModulus] \in SnapshotItems
    BY StampRange DEF SnapshotItems
  <2>3. /\ snapshots' \in Seq(SnapshotItems) /\ Len(snapshots') <= SnapshotSlots
        /\ drops' \in BOOLEAN
    <3> DEFINE item == [kind |-> "Snapshot", at |-> s % StampModulus]
    <3>1. snapshots \in Seq(SnapshotItems) /\ Len(snapshots) \in Nat
          /\ Len(snapshots) <= SnapshotSlots /\ drops \in BOOLEAN
      BY DEF TypeOK
    <3>2. item \in SnapshotItems
      BY <2>2
    <3> HIDE DEF item
    <3>3. /\ Append(snapshots, item) \in Seq(SnapshotItems)
          /\ Len(Append(snapshots, item)) = Len(snapshots) + 1
      BY <3>1, <3>2, AppendProperties
    <3>4. CASE Len(snapshots) < SnapshotSlots /\ snapshots' = Append(snapshots, item) /\ UNCHANGED drops
      BY <3>1, <3>3, <3>4, Bounds
    <3>5. CASE drops' = TRUE /\ UNCHANGED snapshots
      BY <3>1, <3>5
    <3> QED  BY <2>1, <3>4, <3>5 DEF item
  <2>4. latest' \in [snapshots : 0 .. MaxTime, imu : 0 .. MaxTime]
    BY <2>1, <2>2 DEF TypeOK
  <2>5. sent' \in [snapshots : Nat, imu : Nat, commands : Nat]
    <3>1. sent' = [sent EXCEPT !.snapshots = @ + 1]
      BY <1>2 DEF SendSnapshot
    <3>2. sent \in [snapshots : Nat, imu : Nat, commands : Nat]
      BY DEF TypeOK
    <3> QED  BY <3>1, <3>2
  <2> QED  BY <1>2, <2>3, <2>4, <2>5 DEF SendSnapshot, TypeOK, LockOfLogger, MergeFollowsCore
<1>3. CASE PushImu
  <2>1. PICK s \in Stamps : /\ latest' = [latest EXCEPT !.imu = s]
          /\ imuSamples' = IF Len(imuSamples) < ImuSlots
                           THEN Append(imuSamples, [kind |-> "ImuSample", at |-> s])
                           ELSE imuSamples
    BY <1>3 DEF PushImu
  <2>2. s \in 0 .. MaxTime /\ [kind |-> "ImuSample", at |-> s] \in ImuItems
    BY StampRange DEF ImuItems
  <2>3. imuSamples' \in Seq(ImuItems) /\ Len(imuSamples') <= ImuSlots
    <3> DEFINE item == [kind |-> "ImuSample", at |-> s]
    <3>1. imuSamples \in Seq(ImuItems) /\ Len(imuSamples) \in Nat /\ Len(imuSamples) <= ImuSlots
      BY DEF TypeOK
    <3>2. item \in ImuItems
      BY <2>2
    <3>3. imuSamples' = IF Len(imuSamples) < ImuSlots THEN Append(imuSamples, item) ELSE imuSamples
      BY <2>1
    <3> HIDE DEF item
    <3>4. /\ Append(imuSamples, item) \in Seq(ImuItems)
          /\ Len(Append(imuSamples, item)) = Len(imuSamples) + 1
      BY <3>1, <3>2, AppendProperties
    <3> QED  BY <3>1, <3>3, <3>4, Bounds
  <2>4. latest' \in [snapshots : 0 .. MaxTime, imu : 0 .. MaxTime]
    BY <2>1, <2>2 DEF TypeOK
  <2>5. sent' \in [snapshots : Nat, imu : Nat, commands : Nat]
    <3>1. sent' = [sent EXCEPT !.imu = @ + 1]
      BY <1>3 DEF PushImu
    <3>2. sent \in [snapshots : Nat, imu : Nat, commands : Nat]
      BY DEF TypeOK
    <3> QED  BY <3>1, <3>2
  <2> QED  BY <1>3, <2>3, <2>4, <2>5 DEF PushImu, TypeOK, LockOfLogger, MergeFollowsCore
<1>4. CASE Command
  <2>1. sent' \in [snapshots : Nat, imu : Nat, commands : Nat]
    <3>1. sent' = [sent EXCEPT !.commands = @ + 1]
      BY <1>4 DEF Command
    <3>2. sent \in [snapshots : Nat, imu : Nat, commands : Nat]
      BY DEF TypeOK
    <3> QED  BY <3>1, <3>2
  <2>2. \A k \in Kinds, t \in {now, now % StampModulus} :
          [kind |-> k, at |-> t] \in CommandItems
    <3>1. now \in 0 .. MaxTime /\ now % StampModulus \in 0 .. MaxTime
      BY <1>4, StampRange DEF Command
    <3> QED  BY <3>1, Bounds DEF CommandItems
  <2>3. /\ operationLock' \in {Producer, Nobody, Logger}
        /\ entering' \in IF operationLock' = Producer THEN CommandItems ELSE {None}
        /\ operationLock' = Logger <=> operationLock = Logger
    BY <1>4, <2>2 DEF Command, TypeOK, Producer, Nobody, Logger
  <2> QED  BY <1>4, <2>1, <2>3 DEF Command, TypeOK, LockOfLogger, MergeFollowsCore
<1>5. CASE Enqueue
  <2>1. entering \in CommandItems
    BY <1>5 DEF Enqueue, TypeOK
  <2>2. commands' \in Seq(CommandItems) /\ Len(commands') <= CommandSlots
    BY <1>5, <2>1, Bounds, AppendProperties DEF Enqueue, TypeOK
  <2>3. /\ operationLock' = Nobody /\ entering' = None /\ Nobody # Producer
        /\ operationLock # Logger /\ Nobody # Logger
    BY <1>5 DEF Enqueue, Nobody, Producer, Logger
  <2> QED  BY <1>5, <2>2, <2>3 DEF Enqueue, TypeOK, LockOfLogger, MergeFollowsCore
<1> QED  BY <1>1, <1>2, <1>3, <1>4, <1>5 DEF SourceStep

LEMMA LoggerStepInv == IInv /\ LoggerStep => IInv'
<1> SUFFICES ASSUME IInv, LoggerStep PROVE IInv'
  OBVIOUS
<1> USE DEF IInv, sources, queues
<1>0. core \in Cores /\ merge \in Merges /\ (Logging(core) => merge.recording /\ core.open)
  BY DEF TypeOK, LockOfLogger, MergeFollowsCore
<1>1. CASE BeginPoll
  <2>1. core' \in Cores /\ (Logging(core') => core' = core)
    <3>1. \A ready \in BOOLEAN : /\ StorageReady(core, ready) \in Cores
                                 /\ ~Logging(StorageReady(core, ready))
      <4>1. /\ {"Ready", "NoStorage"} \subseteq LoggerStates
            /\ {"None", "Open"} \subseteq LoggerErrors
        BY DEF LoggerStates, LoggerErrors
      <4> QED  BY <1>0, <4>1 DEF StorageReady, Cores, Logging
    <3> QED  BY <1>0, <1>1, <3>1 DEF BeginPoll, RefreshStorage
  <2>2. /\ Fill(merge) /\ nowUs' = now /\ UNCHANGED <<now, sources, accepted>>
        /\ operationLock # Logger
    BY <1>1 DEF BeginPoll, LockOfLogger
  <2>3. nowUs' \in 0 .. MaxTime
    BY <2>2, Bounds DEF TypeOK
  <2> QED  BY <1>0, <2>1, <2>2, <2>3, FillKeeps DEF TypeOK, LockOfLogger, MergeFollowsCore
<1>2. CASE ReceiveCommand
  <2>1. /\ merge' \in Merges /\ merge'.recording = merge.recording
        /\ commands' \in Seq(CommandItems) /\ Len(commands') <= CommandSlots
    <3>1. commands \in Seq(CommandItems) /\ Len(commands) \in Nat /\ Len(commands) <= CommandSlots
      BY DEF TypeOK
    <3>2. CASE commands = <<>>
      BY <1>0, <1>2, <3>1, <3>2 DEF ReceiveCommand
    <3>3. CASE commands # <<>>
      <4>1. /\ Head(commands) \in CommandItems /\ Tail(commands) \in Seq(CommandItems)
            /\ Len(Tail(commands)) = Len(commands) - 1
        BY <3>1, <3>3, HeadTailProperties
      <4>2. merge' = Offer(merge, "command", Head(commands)) /\ commands' = Tail(commands)
        BY <1>2, <3>3 DEF ReceiveCommand
      <4>3. merge' \in Merges /\ merge'.recording = merge.recording
        BY <1>0, <4>1, <4>2 DEF Offer, Merges
      <4> QED  BY <3>1, <4>1, <4>2, <4>3, Bounds
    <3> QED  BY <3>2, <3>3
  <2>2. /\ operationLock' = Nobody /\ entering' = entering
        /\ operationLock = Logger /\ Nobody # Logger /\ pc' = "merge"
    BY <1>2 DEF ReceiveCommand, LockOfLogger, Nobody, Logger
  <2>3. UNCHANGED <<now, sources, snapshots, imuSamples, drops, core, nowUs, accepted>>
    BY <1>2 DEF ReceiveCommand
  <2>4. entering' \in IF operationLock' = Producer THEN CommandItems ELSE {None}
    BY <2>2 DEF TypeOK, Producer, Nobody, Logger
  <2> QED  BY <1>0, <2>1, <2>2, <2>3, <2>4 DEF TypeOK, LockOfLogger, MergeFollowsCore
<1>3. CASE DiscardItem
  <2>1. Earliest(merge) \in Items /\ merge' = Without(merge, Earliest(merge))
    BY <1>0, <1>3, EarliestWaits, PendingItems DEF DiscardItem
  <2>2. merge' \in Merges /\ merge'.recording = merge.recording
    BY <1>0, <2>1, EmitKeeps
  <2> QED  BY <1>0, <1>3, <2>2 DEF DiscardItem, TypeOK, LockOfLogger, MergeFollowsCore
<1>4. CASE MergeItem
  <2> DEFINE i == Earliest(merge)
  <2>1. i \in Items
    BY <1>0, <1>4, EarliestWaits, PendingItems DEF MergeItem
  <2>2. /\ Fill(Emit(merge, i)) /\ core' \in Outcomes(i) /\ UNCHANGED <<now, sources, nowUs>>
        /\ operationLock # Logger
    BY <1>4 DEF MergeItem, LockOfLogger
  <2> HIDE DEF i
  <2>3. PICK opens \in BOOLEAN, ok \in 0 .. 2, why \in Failures :
          core' = IF i.kind \in CommandKinds THEN Handle(core, i, opens, ok, why)
                  ELSE Accept(core, i, ok, why)
    BY <2>2 DEF Outcomes
  <2>4. i.kind \in CommandKinds => i \in CommandItems
    BY <2>1 DEF Items, SnapshotItems, ImuItems, CommandKinds
  <2>5. i.kind \notin CommandKinds => i \in SnapshotItems \cup ImuItems
    BY <2>1 DEF Items, CommandItems
  <2>6. /\ core' \in Cores
        /\ Logging(core') => /\ core'.open
                             /\ Logging(core) \/ i.kind = "LogStart"
                             /\ i.kind # "LogStop"
    <3>1. CASE i.kind \in CommandKinds
      BY <1>0, <2>3, <2>4, <3>1, HandleKeeps
    <3>2. CASE i.kind \notin CommandKinds
      <4>1. core' \in Cores /\ (Logging(core') => Logging(core) /\ core'.open = core.open)
        BY <1>0, <2>3, <2>5, <3>2, AcceptKeeps
      <4>2. i.kind # "LogStop"
        BY <3>2 DEF CommandKinds
      <4> QED  BY <1>0, <4>1, <4>2
    <3> QED  BY <3>1, <3>2
  <2>7. Emit(merge, i) \in Merges /\ (Logging(core') => Emit(merge, i).recording)
    BY <1>0, <2>1, <2>6, EmitKeeps
  <2>8. /\ merge' \in Merges /\ merge'.recording = Emit(merge, i).recording
        /\ snapshots' \in Seq(SnapshotItems) /\ Len(snapshots') <= SnapshotSlots
        /\ imuSamples' \in Seq(ImuItems) /\ Len(imuSamples') <= ImuSlots
        /\ operationLock' \in {Producer, Nobody, Logger}
        /\ operationLock' = Producer <=> operationLock = Producer
        /\ operationLock' = Logger <=> pc' = "receive"
        /\ pc' \in {"idle", "receive", "merge"}
        /\ UNCHANGED <<commands, drops>>
    BY <2>2, <2>7, FillKeeps
  <2> QED  BY <2>2, <2>6, <2>7, <2>8 DEF TypeOK, LockOfLogger, MergeFollowsCore
<1>5. CASE EndPoll
  <2>1. core' \in Cores /\ (Logging(core') => Logging(core) /\ core'.open = core.open)
    <3>1. "SnapshotQueueFull" \in LoggerErrors
      BY DEF LoggerErrors
    <3> QED  BY <1>0, <1>5, <3>1 DEF EndPoll, NoteDrops, Cores, Logging
  <2> QED  BY <1>0, <1>5, <2>1, Bounds DEF EndPoll, TypeOK, LockOfLogger, MergeFollowsCore
<1> QED  BY <1>1, <1>2, <1>3, <1>4, <1>5 DEF LoggerStep

LEMMA StutterInv == IInv /\ UNCHANGED vars => IInv'
BY DEF IInv, TypeOK, LockOfLogger, MergeFollowsCore, vars, sources, queues

LEMMA Invariance == Spec => []IInv
<1>1. IInv /\ [Next]_vars => IInv'
  BY SourceStepInv, LoggerStepInv, StutterInv DEF Next
<1> QED  BY InitInv, <1>1, PTL DEF Spec

\* Queues, merge and core keep their types and the queues their capacities,
\* and who is entering the command queue holds its lock.
THEOREM RecordingTypeCorrect == Spec => []TypeOK
<1>1. IInv => TypeOK
  BY DEF IInv
<1> QED  BY Invariance, <1>1, PTL

\* Whatever fails and wherever it fails, a core that records has its file open
\* and a merge that lets items through: no recording stays silent because the
\* merge believes it is over.
THEOREM MergeKeepsFollowing == Spec => []MergeFollowsCore
<1>1. IInv => MergeFollowsCore
  BY DEF IInv
<1> QED  BY Invariance, <1>1, PTL

-----------------------------------------------------------------------------
(***************************************************************************)
(* The events of a file.  EventsBracketed alone is not inductive: a core   *)
(* that records must also not have written its stop yet.  Each write       *)
(* appends at most two records, or fails after a part of them.             *)
(***************************************************************************)

\* A recording has not been stopped, and the core knows whether an event is open.
Bracketed(c) ==
  /\ Alternates(c.file)
  /\ Logging(c) => (c.active <=> EventOpen(c.file, Len(c.file))) /\ ~Ended(c.file)
  /\ Ended(c.file) => ~EventOpen(c.file, Len(c.file))

\* One record more.
LEMMA OneMore ==
  ASSUME NEW f \in Seq(Records), NEW r \in Records, NEW g, g = Append(f, r)
  PROVE  /\ g \in Seq(Records)
         /\ EventOpen(g, Len(g)) <=> \/ r.kind = "SprotzStart"
                                     \/ EventOpen(f, Len(f)) /\ r.kind # "SprotzStop"
         /\ /\ Alternates(f)
            /\ r.kind = "SprotzStart" => ~EventOpen(f, Len(f))
            /\ r.kind = "SprotzStop" => EventOpen(f, Len(f))
            => Alternates(g)
         /\ Ended(g) <=> r.kind = "Stop"
<1>1. PICK n \in Nat : n = Len(f)
  OBVIOUS
<1>2. /\ g \in Seq(Records) /\ Len(g) = n + 1 /\ g[n + 1] = r
      /\ \A j \in 1 .. n : g[j] = f[j]
  BY <1>1, AppendProperties
<1>3. \A j \in 0 .. n : EventOpen(g, j) <=> EventOpen(f, j)
  BY <1>2, SMTT(30) DEF EventOpen
<1>4. EventOpen(g, n + 1) <=> \/ r.kind = "SprotzStart"
                              \/ EventOpen(f, n) /\ r.kind # "SprotzStop"
  <2>1. CASE r.kind = "SprotzStart"
    BY <1>2, <2>1 DEF EventOpen
  <2>2. CASE r.kind # "SprotzStart"
    <3>1. EventOpen(g, n + 1) =>  EventOpen(g, n) /\ r.kind # "SprotzStop"
      <4> SUFFICES ASSUME EventOpen(g, n + 1)
                   PROVE  EventOpen(g, n) /\ r.kind # "SprotzStop"
        OBVIOUS
      <4>1. PICK j \in 1 .. n + 1 : /\ g[j].kind = "SprotzStart"
                                    /\ \A k \in j + 1 .. n + 1 : g[k].kind # "SprotzStop"
        BY DEF EventOpen
      <4>2. j \in 1 .. n /\ n + 1 \in j + 1 .. n + 1
        BY <1>2, <2>2, <4>1
      <4> QED
        BY <1>2, <4>1, <4>2 DEF EventOpen
    <3>2. EventOpen(g, n) /\ r.kind # "SprotzStop" => EventOpen(g, n + 1)
      <4> SUFFICES ASSUME EventOpen(g, n), r.kind # "SprotzStop"
                   PROVE  EventOpen(g, n + 1)
        OBVIOUS
      <4>1. PICK j \in 1 .. n : /\ g[j].kind = "SprotzStart"
                                /\ \A k \in j + 1 .. n : g[k].kind # "SprotzStop"
        BY DEF EventOpen
      <4>2. \A k \in j + 1 .. n + 1 : k \in j + 1 .. n \/ k = n + 1
        OBVIOUS
      <4> QED
        BY <1>2, <4>1, <4>2 DEF EventOpen
    <3> QED
      BY <1>3, <2>2, <3>1, <3>2
  <2> QED
    BY <2>1, <2>2
<1>5. ASSUME Alternates(f),
             r.kind = "SprotzStart" => ~EventOpen(f, Len(f)),
             r.kind = "SprotzStop" => EventOpen(f, Len(f))
      PROVE  Alternates(g)
  <2> SUFFICES ASSUME NEW j \in 1 .. n + 1
               PROVE  /\ g[j].kind = "SprotzStart" => ~EventOpen(g, j - 1)
                      /\ g[j].kind = "SprotzStop" => EventOpen(g, j - 1)
    BY <1>2 DEF Alternates
  <2>1. CASE j = n + 1
    BY <1>1, <1>2, <1>3, <1>5, <2>1
  <2>2. CASE j \in 1 .. n
    <3>1. j - 1 \in 0 .. n /\ j \in DOMAIN f
      BY <1>1, <2>2
    <3> QED
      BY <1>1, <1>2, <1>3, <1>5, <2>2, <3>1 DEF Alternates
  <2> QED
    BY <1>1, <2>1, <2>2
<1>6. Ended(g) <=> r.kind = "Stop"
  BY <1>2 DEF Ended, Last
<1> QED
  BY <1>1, <1>2, <1>4, <1>5, <1>6

\* What a call that writes one record can leave.
LEMMA WriteOne ==
  ASSUME NEW c \in Cores, NEW r \in Records, NEW ok \in Nat, NEW why \in Failures,
         NEW w, w = Write(c, <<r>>, ok, why)
  PROVE  \/ w = [c EXCEPT !.file = Append(c.file, r)]
         \/ w.file = c.file /\ ~Logging(w)
<1>1. c.file \in Seq(Records) /\ why \in {"StorageFull", "WriteError"}
  BY RecordingAssumption DEF Cores, Records
<1>2. CASE ok >= 1
  <2>1. c.file \o <<r>> = Append(c.file, r)
    BY <1>1
  <2> QED
    BY <1>2, <2>1 DEF Write
<1>3. CASE ok = 0
  <2>1. SubSeq(<<r>>, 1, 0) = <<>> /\ c.file \o <<>> = c.file
    BY <1>1, ConcatEmptySeq
  <2>2. w = Fail([c EXCEPT !.file = c.file], why)
    <3>1. Len(<<r>>) = 1 /\ w = Fail([c EXCEPT !.file = c.file \o SubSeq(<<r>>, 1, 0)], why)
      BY <1>3 DEF Write
    <3> QED
      BY <2>1, <3>1
  <2> QED
    BY <1>1, <2>2 DEF Fail, Cores, Logging
<1> QED
  BY <1>2, <1>3

LEMMA WriteTwo ==
  ASSUME NEW c \in Cores, NEW r \in Records, NEW s \in Records, NEW ok \in Nat, NEW why \in Failures,
         NEW w, w = Write(c, <<r, s>>, ok, why)
  PROVE  \/ w = [c EXCEPT !.file = Append(Append(c.file, r), s)]
         \/ w.file \in {c.file, Append(c.file, r)} /\ ~Logging(w)
<1>1. c.file \in Seq(Records) /\ why \in {"StorageFull", "WriteError"}
  BY RecordingAssumption DEF Cores, Records
<1>2. CASE ok >= 2
  <2>1. c.file \o <<r, s>> = Append(Append(c.file, r), s)
    BY <1>1
  <2> QED
    BY <1>2, <2>1 DEF Write
<1>3. CASE ok \in {0, 1}
  <2>1. \/ SubSeq(<<r, s>>, 1, ok) = <<>> /\ c.file \o <<>> = c.file
        \/ SubSeq(<<r, s>>, 1, ok) = <<r>> /\ c.file \o <<r>> = Append(c.file, r)
    <3>1. <<r, s>> \in Seq(Records) /\ <<r>> \in Seq(Records) /\ Len(<<r, s>>) = 2
      OBVIOUS
    <3>2. ok = 0 => SubSeq(<<r, s>>, 1, ok) = <<>>
      BY <3>1
    <3>3. ok = 1 => SubSeq(<<r, s>>, 1, ok) = <<r>>
      <4>1. PICK q, t : q = <<r, s>> /\ t = SubSeq(q, 1, 1)
        OBVIOUS
      <4>2. t \in Seq(Records) /\ Len(t) = 1 /\ t[1] = q[1]
        BY <3>1, <4>1, SubSeqProperties
      <4>3. <<r>> \in Seq(Records) /\ Len(<<r>>) = 1 /\ <<r>>[1] = r /\ q[1] = r
        BY <4>1
      <4>4. PICK u : u = <<r>>
        OBVIOUS
      <4>5. \A i \in 1 .. Len(t) : t[i] = u[i]
        BY <4>2, <4>3, <4>4
      <4>6. t = u
        BY <4>2, <4>3, <4>4, <4>5, SeqEqual
      <4> QED
        BY <4>1, <4>4, <4>6
    <3>4. c.file \o <<>> = c.file /\ c.file \o <<r>> = Append(c.file, r)
      BY <1>1, <3>1, ConcatEmptySeq
    <3> QED
      BY <1>3, <3>2, <3>3, <3>4
  <2>2. w = Fail([c EXCEPT !.file = c.file \o SubSeq(<<r, s>>, 1, ok)], why)
    BY <1>3 DEF Write
  <2> QED
    BY <1>1, <2>1, <2>2 DEF Fail, Cores, Logging
<1>4. ok >= 2 \/ ok \in {0, 1}
  OBVIOUS
<1> QED
  BY <1>2, <1>3, <1>4

\* One record that fits is written, or the recording ends with the file as it was.
LEMMA WrittenOne ==
  ASSUME NEW c \in Cores, Bracketed(c), Logging(c), NEW r \in Records, NEW ok \in Nat,
         NEW why \in Failures, NEW w, w = Write(c, <<r>>, ok, why), r.kind # "Stop",
         r.kind = "SprotzStart" => ~c.active, r.kind = "SprotzStop" => c.active,
         NEW active \in BOOLEAN,
         active <=> \/ r.kind = "SprotzStart" \/ (c.active /\ r.kind # "SprotzStop")
  PROVE  /\ ~Logging(w) => Bracketed(w)
         /\ Logging(w) => Bracketed([w EXCEPT !.active = active])
<1>1. c.file \in Seq(Records)
  BY DEF Cores, Records
<1>2. CASE w.file = c.file /\ ~Logging(w)
  BY <1>2 DEF Bracketed
<1>3. CASE w = [c EXCEPT !.file = Append(c.file, r)]
  <2>1. PICK f, g : f \in Seq(Records) /\ f = c.file /\ g = Append(f, r)
    BY <1>1
  <2>2. /\ EventOpen(g, Len(g)) <=> \/ r.kind = "SprotzStart"
                                    \/ EventOpen(f, Len(f)) /\ r.kind # "SprotzStop"
        /\ /\ Alternates(f)
           /\ r.kind = "SprotzStart" => ~EventOpen(f, Len(f))
           /\ r.kind = "SprotzStop" => EventOpen(f, Len(f))
           => Alternates(g)
        /\ Ended(g) <=> r.kind = "Stop"
    BY <2>1, OneMore
  <2>3. PICK d : d = [w EXCEPT !.active = active]
    OBVIOUS
  <2>4. Logging(w) /\ d.file = g /\ d.active = active /\ d.state = c.state
    BY <1>3, <2>1, <2>3 DEF Cores, Logging
  <2>5. Alternates(f) /\ (c.active <=> EventOpen(f, Len(f)))
    BY <2>1 DEF Bracketed
  <2>6. Alternates(g) /\ ~Ended(g) /\ (active <=> EventOpen(g, Len(g)))
    BY <2>2, <2>5
  <2> QED
    BY <2>3, <2>4, <2>6 DEF Bracketed
<1> QED
  BY <1>2, <1>3, WriteOne, SMTT(30)

\* A new file has no events.
LEMMA StartBrackets ==
  ASSUME NEW c \in Cores, Bracketed(c), NEW at \in 0 .. MaxTime, NEW opens \in BOOLEAN,
         NEW ok \in Nat, NEW why \in Failures, NEW h, h = StartLog(c, at, opens, ok, why)
  PROVE  Bracketed(h)
<1>1. CASE opens
  <2>1. PICK d : d = [c EXCEPT !.state = "Recording", !.error = "None", !.active = FALSE,
                               !.startedAt = at, !.file = <<>>, !.open = TRUE]
    OBVIOUS
  <2>2. PICK r \in Records, s \in Records :
          r = Rec("Header", at) /\ s = Rec("Start", at)
    BY DEF Records, Rec, RecordKinds
  <2>3. /\ "Recording" \in LoggerStates /\ "None" \in LoggerErrors
        /\ <<>> \in Seq([kind : RecordKinds, at : 0 .. MaxTime])
    BY DEF LoggerStates, LoggerErrors
  <2>4. d \in Cores
    BY <2>1, <2>3 DEF Cores
  <2>5. d.file = <<>> /\ d.active = FALSE
    BY <2>1 DEF Cores
  <2>6. h = Write(d, <<r, s>>, ok, why)
    BY <1>1, <2>1, <2>2 DEF StartLog
  <2>7. PICK e, f, g : e = <<>> /\ f = Append(e, r) /\ g = Append(f, s)
    OBVIOUS
  <2>8. e \in Seq(Records) /\ Alternates(e) /\ ~EventOpen(e, Len(e)) /\ ~Ended(e)
    BY <2>7 DEF Alternates, EventOpen, Ended
  <2>9. r.kind = "Header" /\ s.kind = "Start"
    BY <2>2 DEF Rec
  <2>10. f \in Seq(Records) /\ Alternates(f) /\ ~EventOpen(f, Len(f)) /\ ~Ended(f)
    BY <2>7, <2>8, <2>9, OneMore
  <2>11. Alternates(g) /\ ~EventOpen(g, Len(g)) /\ ~Ended(g)
    BY <2>7, <2>9, <2>10, OneMore
  <2>12. \/ h = [d EXCEPT !.file = g]
         \/ h.file \in {e, f} /\ ~Logging(h)
    BY <2>4, <2>5, <2>6, <2>7, WriteTwo, SMTT(30)
  <2>13. CASE h = [d EXCEPT !.file = g]
    BY <2>4, <2>5, <2>11, <2>13 DEF Bracketed, Cores
  <2>14. CASE h.file \in {e, f} /\ ~Logging(h)
    BY <2>8, <2>10, <2>14 DEF Bracketed
  <2> QED
    BY <2>12, <2>13, <2>14
<1>2. CASE ~opens
  BY <1>2 DEF StartLog, Fail, Bracketed, Cores, Logging
<1> QED
  BY <1>1, <1>2

\* Two records, one after the other.
LEMMA TwoRecords ==
  ASSUME NEW r \in Records, NEW s \in Records
  PROVE  <<r>> \o <<s>> = <<r, s>> /\ <<>> \o <<s>> = <<s>>
<1>1. PICK q, t, u : q = <<r>> /\ t = q \o <<s>> /\ u = <<r, s>>
  OBVIOUS
<1>2. q \in Seq(Records) /\ <<s>> \in Seq(Records) /\ Len(q) = 1 /\ Len(<<s>>) = 1
  BY <1>1
<1>3. /\ t \in Seq(Records) /\ Len(t) = 2
      /\ \A i \in 1 .. 2 : t[i] = IF i <= 1 THEN q[i] ELSE <<s>>[i - 1]
  BY <1>1, <1>2, ConcatProperties
<1>4. u \in Seq(Records) /\ Len(u) = 2 /\ u[1] = r /\ u[2] = s
  BY <1>1
<1>5. \A i \in 1 .. 2 : t[i] = u[i]
  <2>1. t[1] = q[1] /\ t[2] = <<s>>[1] /\ q[1] = r /\ <<s>>[1] = s
    BY <1>1, <1>3
  <2> QED
    BY <1>4, <2>1
<1>6. t = u
  BY <1>3, <1>4, <1>5, SeqEqual
<1>7. <<>> \o <<s>> = <<s>>
  <2>1. <<s>> \in Seq(Records)
    OBVIOUS
  <2> QED
    BY <2>1, ConcatEmptySeq
<1> QED
  BY <1>1, <1>6, <1>7

\* An event that is open is closed first.
LEMMA StopBrackets ==
  ASSUME NEW c \in Cores, Bracketed(c), Logging(c), NEW at \in 0 .. MaxTime,
         NEW ok \in Nat, NEW why \in Failures, NEW h, h = StopLog(c, at, ok, why)
  PROVE  Bracketed(h)
<1>1. PICK r \in Records, s \in Records :
        r = Rec("SprotzStop", at) /\ s = Rec("Stop", at)
  BY DEF Records, Rec, RecordKinds
<1>2. r.kind = "SprotzStop" /\ s.kind = "Stop"
  BY <1>1 DEF Rec
<1>3. PICK w : w = Write(c, (IF c.active THEN <<r>> ELSE <<>>) \o <<s>>, ok, why)
  OBVIOUS
<1>4. h = IF Logging(w) THEN [w EXCEPT !.active = FALSE, !.state = "Ready", !.open = FALSE] ELSE w
  BY <1>1, <1>3 DEF StopLog
<1>5. PICK f \in Seq(Records) : f = c.file
  BY DEF Cores, Records
<1>6. Alternates(f) /\ (c.active <=> EventOpen(f, Len(f))) /\ ~Ended(f)
  BY <1>5 DEF Bracketed
<1>7. ASSUME NEW g, Alternates(g), Ended(g), ~EventOpen(g, Len(g)), w = [c EXCEPT !.file = g]
      PROVE  Bracketed(h)
  <2>1. Logging(w)
    BY <1>7 DEF Logging, Cores
  <2>2. h = [w EXCEPT !.active = FALSE, !.state = "Ready", !.open = FALSE]
    BY <1>4, <2>1
  <2>3. h.file = g /\ h.state = "Ready"
    BY <1>7, <2>2 DEF Cores
  <2> QED
    BY <1>7, <2>3 DEF Bracketed, Logging
<1>8. ASSUME NEW g, Alternates(g), ~Ended(g), w.file = g, ~Logging(w)
      PROVE  Bracketed(h)
  BY <1>4, <1>8 DEF Bracketed
<1>9. CASE c.active
  <2>1. w = Write(c, <<r, s>>, ok, why)
    <3>1. <<r>> \o <<s>> = <<r, s>>
      BY TwoRecords
    <3> QED
      BY <1>3, <1>9, <3>1
  <2>2. PICK e, g : e = Append(f, r) /\ g = Append(e, s)
    OBVIOUS
  <2>3. e \in Seq(Records) /\ Alternates(e) /\ ~EventOpen(e, Len(e)) /\ ~Ended(e)
    BY <1>2, <1>6, <1>9, <2>2, OneMore
  <2>4. Alternates(g) /\ ~EventOpen(g, Len(g)) /\ Ended(g)
    BY <1>2, <2>2, <2>3, OneMore
  <2>5. \/ w = [c EXCEPT !.file = g]
        \/ w.file \in {f, e} /\ ~Logging(w)
    BY <1>5, <2>1, <2>2, WriteTwo
  <2> QED
    BY <1>6, <1>7, <1>8, <2>3, <2>4, <2>5
<1>10. CASE ~c.active
  <2>1. w = Write(c, <<s>>, ok, why)
    BY <1>3, <1>10, ConcatEmptySeq
  <2>2. PICK g : g = Append(f, s)
    OBVIOUS
  <2>3. Alternates(g) /\ ~EventOpen(g, Len(g)) /\ Ended(g)
    BY <1>2, <1>6, <1>10, <2>2, OneMore
  <2>4. \/ w = [c EXCEPT !.file = g]
        \/ w.file = f /\ ~Logging(w)
    <3>1. \/ w = [c EXCEPT !.file = Append(c.file, s)]
          \/ w.file = c.file /\ ~Logging(w)
      BY <1>1, <2>1, WriteOne, SMTT(30)
    <3> QED
      BY <1>5, <2>2, <3>1
  <2> QED
    BY <1>6, <1>7, <1>8, <2>3, <2>4
<1> QED
  BY <1>9, <1>10

LEMMA MarkerBrackets ==
  ASSUME NEW c \in Cores, Bracketed(c), Logging(c), NEW at \in 0 .. MaxTime,
         NEW kind \in {"SprotzStart", "SprotzStop", "Marker"},
         kind = "SprotzStart" => ~c.active, kind = "SprotzStop" => c.active,
         NEW active \in BOOLEAN,
         active <=> \/ kind = "SprotzStart" \/ (c.active /\ kind # "SprotzStop"),
         NEW ok \in Nat, NEW why \in Failures,
         NEW h, h = WriteMarker(c, kind, at, active, ok, why)
  PROVE  Bracketed(h)
<1>1. PICK r \in Records : r = Rec(kind, at)
  BY DEF Records, Rec, RecordKinds
<1>2. r.kind = kind
  BY <1>1 DEF Rec
<1>3. PICK w : w = Write(c, <<r>>, ok, why)
  OBVIOUS
<1>4. h = IF Logging(w) THEN [w EXCEPT !.active = active] ELSE w
  BY <1>1, <1>3 DEF WriteMarker
<1>5. /\ ~Logging(w) => Bracketed(w)
      /\ Logging(w) => Bracketed([w EXCEPT !.active = active])
  BY <1>2, <1>3, WrittenOne
<1> QED
  BY <1>4, <1>5

LEMMA HandleBrackets ==
  ASSUME NEW c \in Cores, Bracketed(c), NEW cmd \in CommandItems, NEW opens \in BOOLEAN,
         NEW ok \in Nat, NEW why \in Failures, NEW h, h = Handle(c, cmd, opens, ok, why)
  PROVE  Bracketed(h)
<1>1. cmd.at \in 0 .. MaxTime /\ c.active \in BOOLEAN
  BY DEF CommandItems, Cores
<1>2. \/ h = StartLog(c, cmd.at, opens, ok, why)
      \/ Logging(c) /\ h = StopLog(c, cmd.at, ok, why)
      \/ Logging(c) /\ ~c.active /\ h = WriteMarker(c, "SprotzStart", cmd.at, TRUE, ok, why)
      \/ Logging(c) /\ c.active /\ h = WriteMarker(c, "SprotzStop", cmd.at, FALSE, ok, why)
      \/ Logging(c) /\ h = WriteMarker(c, "Marker", cmd.at, c.active, ok, why)
      \/ h = c
  BY DEF Handle
<1>3. CASE h = StartLog(c, cmd.at, opens, ok, why)
  BY <1>1, <1>3, StartBrackets
<1>4. CASE Logging(c) /\ h = StopLog(c, cmd.at, ok, why)
  BY <1>1, <1>4, StopBrackets
<1>5. CASE Logging(c) /\ ~c.active /\ h = WriteMarker(c, "SprotzStart", cmd.at, TRUE, ok, why)
  BY <1>1, <1>5, MarkerBrackets
<1>6. CASE Logging(c) /\ c.active /\ h = WriteMarker(c, "SprotzStop", cmd.at, FALSE, ok, why)
  BY <1>1, <1>6, MarkerBrackets
<1>7. CASE Logging(c) /\ h = WriteMarker(c, "Marker", cmd.at, c.active, ok, why)
  BY <1>1, <1>7, MarkerBrackets
<1> QED
  BY <1>2, <1>3, <1>4, <1>5, <1>6, <1>7

LEMMA AcceptBrackets ==
  ASSUME NEW c \in Cores, Bracketed(c), NEW i \in SnapshotItems \cup ImuItems, NEW ok \in Nat,
         NEW why \in Failures, NEW a, a = Accept(c, i, ok, why)
  PROVE  Bracketed(a)
<1>1. PICK r \in Records : r = Rec(i.kind, i.at)
  BY DEF SnapshotItems, ImuItems, Records, Rec, RecordKinds
<1>2. r.kind \in {"Snapshot", "ImuSample"} /\ c.active \in BOOLEAN
  BY <1>1 DEF SnapshotItems, ImuItems, Rec, Cores
<1>3. CASE Logging(c)
  <2>1. PICK w : w = Write(c, <<r>>, ok, why)
    OBVIOUS
  <2>2. a = w
    BY <1>1, <1>3, <2>1 DEF Accept
  <2>3. /\ ~Logging(w) => Bracketed(w)
        /\ Logging(w) => Bracketed([w EXCEPT !.active = c.active])
    BY <1>2, <1>3, <2>1, WrittenOne
  <2>4. Logging(w) => w = [c EXCEPT !.file = Append(c.file, r)]
    BY <2>1, WriteOne
  <2>5. Logging(w) => [w EXCEPT !.active = c.active] = w
    BY <2>4 DEF Cores
  <2> QED
    BY <2>2, <2>3, <2>5
<1>4. CASE ~Logging(c)
  BY <1>4 DEF Accept
<1> QED
  BY <1>3, <1>4

CoreBracketed == Bracketed(core)

LEMMA CoreStarts == Init => CoreBracketed
<1> SUFFICES ASSUME Init PROVE Bracketed(core)
  BY DEF CoreBracketed
<1>1. PICK ready \in BOOLEAN : core = StorageReady(NewCore, ready)
  BY DEF Init
<1>2. core.file = <<>> /\ ~Logging(core)
  BY <1>1 DEF NewCore, StorageReady, Logging
<1> QED
  BY <1>2 DEF Bracketed, Alternates, EventOpen, Ended

\* Only BeginPoll, MergeItem and EndPoll touch the core, and only MergeItem the file.
LEMMA CoreStep == IInv /\ CoreBracketed /\ [Next]_vars => CoreBracketed'
<1> SUFFICES ASSUME IInv, Bracketed(core), [Next]_vars PROVE Bracketed(core')
  BY DEF CoreBracketed
<1>0. core \in Cores /\ merge \in Merges
  BY DEF IInv, TypeOK
<1>1. CASE BeginPoll
  <2>1. core' = core \/ \E ready \in BOOLEAN : core' = StorageReady(core, ready)
    BY <1>1 DEF BeginPoll, RefreshStorage
  <2>2. core' = core \/ (core'.file = core.file /\ ~Logging(core'))
    BY <1>0, <2>1 DEF StorageReady, Cores, Logging
  <2> QED
    BY <2>2 DEF Bracketed
<1>2. CASE MergeItem
  <2>1. PICK i : i = Earliest(merge)
    OBVIOUS
  <2>2. i \in Items /\ core' \in Outcomes(i)
    BY <1>0, <1>2, <2>1, EarliestWaits, PendingItems DEF MergeItem
  <2>3. PICK opens \in BOOLEAN, ok \in 0 .. 2, why \in Failures :
          core' = IF i.kind \in CommandKinds THEN Handle(core, i, opens, ok, why)
                  ELSE Accept(core, i, ok, why)
    BY <2>2 DEF Outcomes
  <2>4. CASE i.kind \in CommandKinds
    <3>1. i \in CommandItems
      BY <2>2, <2>4 DEF Items, SnapshotItems, ImuItems, CommandKinds
    <3> QED
      BY <1>0, <2>3, <2>4, <3>1, HandleBrackets
  <2>5. CASE i.kind \notin CommandKinds
    <3>1. i \in SnapshotItems \cup ImuItems
      BY <2>2, <2>5 DEF Items, CommandItems
    <3> QED
      BY <1>0, <2>3, <2>5, <3>1, AcceptBrackets
  <2> QED
    BY <2>4, <2>5
<1>3. CASE EndPoll
  <2>1. core' = core \/ core' = [core EXCEPT !.error = "SnapshotQueueFull"]
    BY <1>3 DEF EndPoll, NoteDrops
  <2>2. core'.file = core.file /\ core'.active = core.active /\ core'.state = core.state
    BY <1>0, <2>1 DEF Cores
  <2> QED
    BY <2>2 DEF Bracketed, Logging
<1>4. CASE UNCHANGED core
  BY <1>4
<1>5. \/ BeginPoll \/ MergeItem \/ EndPoll \/ UNCHANGED core
  BY DEF Next, Tick, SourceStep, SendSnapshot, PushImu, Command, Enqueue, LoggerStep,
         ReceiveCommand, DiscardItem, vars
<1> QED
  BY <1>1, <1>2, <1>3, <1>4, <1>5

\* Whatever writes fail and wherever, the starts and stops of events alternate in every file, the core
\* knows whether one is open (eventState_ of SprotzLoggerCore), and none is open at a stop.
THEOREM EventsStayBracketed == Spec => []EventsBracketed
<1>1. CoreBracketed => EventsBracketed
  BY DEF CoreBracketed, Bracketed, EventsBracketed
<1>2. Spec => []CoreBracketed
  BY Invariance, CoreStarts, CoreStep, PTL DEF Spec
<1> QED
  BY <1>1, <1>2, PTL

-----------------------------------------------------------------------------
(***************************************************************************)
(* What a stopped file holds.  Nothing accepted is lost because it is in   *)
(* one of three places: the file, the merge or the queue.  The stop cannot *)
(* overtake it there: a snapshot that is pending is older than all behind  *)
(* it, and one that comes while none is pending is younger than a stop     *)
(* that was held back.  Both hold as long as no snapshot is discarded.     *)
(***************************************************************************)

\* The file holds a record.
Has(f, x) == \E j \in DOMAIN f : f[j] = x

\* One record more, seen from the records before.
LEMMA RecordsStay ==
  ASSUME NEW f \in Seq(Records), NEW r \in Records, NEW g, g = Append(f, r)
  PROVE  /\ \A x : Has(f, x) => Has(g, x)
         /\ Has(g, r) /\ g \in Seq(Records) /\ Last(g) = r
         /\ Ended(g) <=> r.kind = "Stop"
<1>1. /\ g \in Seq(Records) /\ Len(g) = Len(f) + 1 /\ g[Len(f) + 1] = r
      /\ \A j \in 1 .. Len(f) : g[j] = f[j]
  BY AppendProperties
<1>2. Ended(g) <=> r.kind = "Stop"
  BY OneMore
<1>3. DOMAIN f = 1 .. Len(f) /\ DOMAIN g = 1 .. Len(f) + 1
  BY <1>1
<1>4. Has(g, r)
  <2>1. Len(f) + 1 \in DOMAIN g
    BY <1>3
  <2> QED  BY <1>1, <2>1 DEF Has
<1>5. ASSUME NEW x, Has(f, x) PROVE Has(g, x)
  <2>1. PICK j \in DOMAIN f : f[j] = x
    BY <1>5 DEF Has
  <2>2. j \in DOMAIN g /\ g[j] = x
    BY <1>1, <1>3, <2>1
  <2> QED  BY <2>2 DEF Has
<1> QED  BY <1>1, <1>2, <1>4, <1>5 DEF Last

\* Writing leaves the start of the recording as it is.
LEMMA WriteKeepsStart ==
  ASSUME NEW c \in Cores, NEW records, NEW ok, NEW why
  PROVE  Write(c, records, ok, why).startedAt = c.startedAt
BY DEF Write, Fail, Cores

\* A call that writes one record, which is no stop.
LEMMA OneWritten ==
  ASSUME NEW c \in Cores, ~Ended(c.file), NEW r \in Records, r.kind # "Stop",
         NEW ok \in Nat, NEW why \in Failures, NEW w, w = Write(c, <<r>>, ok, why)
  PROVE  /\ w.startedAt = c.startedAt /\ ~Ended(w.file)
         /\ \A x : Has(c.file, x) => Has(w.file, x)
         /\ Logging(w) => Has(w.file, r)
<1>1. w.startedAt = c.startedAt
  BY WriteKeepsStart
<1>6. \/ w = [c EXCEPT !.file = Append(c.file, r)]
      \/ w.file = c.file /\ ~Logging(w)
  <2>1. ASSUME NEW x \in Records
        PROVE  LET v == Write(c, <<x>>, ok, why)
               IN  \/ v = [c EXCEPT !.file = Append(c.file, x)]
                   \/ v.file = c.file /\ ~Logging(v)
    BY WriteOne
  <2> QED  BY <2>1
<1>2. PICK f, g : f = c.file /\ f \in Seq(Records) /\ g = Append(f, r)
  BY DEF Cores, Records
<1>3. /\ \A x : Has(f, x) => Has(g, x)
      /\ Has(g, r) /\ ~Ended(g)
  BY <1>2, RecordsStay
<1>4. CASE w = [c EXCEPT !.file = Append(c.file, r)]
  <2>1. w.file = g
    BY <1>2, <1>4 DEF Cores
  <2> QED  BY <1>1, <1>2, <1>3, <2>1
<1>5. CASE w.file = c.file /\ ~Logging(w)
  BY <1>1, <1>5
<1> QED  BY <1>4, <1>5, <1>6

\* The stop: a file that is ended by it ends at the stamp of the command.
LEMMA StopOutcome ==
  ASSUME NEW c \in Cores, Logging(c), ~Ended(c.file), NEW at \in 0 .. MaxTime,
         NEW ok \in Nat, NEW why \in Failures
  PROVE  /\ StopLog(c, at, ok, why).startedAt = c.startedAt
         /\ ~Logging(StopLog(c, at, ok, why))
         /\ \A x : Has(c.file, x) => Has(StopLog(c, at, ok, why).file, x)
         /\ Ended(StopLog(c, at, ok, why).file) => Last(StopLog(c, at, ok, why).file).at = at
<1>0. PICK d : d = StopLog(c, at, ok, why)
  OBVIOUS
<1>1. PICK close, stop, f, g, h :
        /\ close = Rec("SprotzStop", at) /\ stop = Rec("Stop", at)
        /\ f = c.file /\ g = Append(f, close) /\ h = Append(g, stop)
  OBVIOUS
<1>2. /\ close \in Records /\ stop \in Records /\ close.kind # "Stop"
      /\ stop.kind = "Stop" /\ stop.at = at
  BY <1>1 DEF Rec, Records, RecordKinds
<1>3. PICK records, w :
        /\ records = IF c.active THEN <<close, stop>> ELSE <<stop>>
        /\ w = Write(c, records, ok, why)
  OBVIOUS
<1>4. records \in Seq(Records)
  BY <1>2, <1>3
<1>5. w \in Cores /\ w.startedAt = c.startedAt
  <2>1. \A q \in Seq(Records) : LET v == Write(c, q, ok, why)
                                IN  v \in Cores /\ v.startedAt = c.startedAt
    BY WriteKeeps, WriteKeepsStart
  <2> QED  BY <1>3, <1>4, <2>1
<1>6. d = IF Logging(w)
          THEN [w EXCEPT !.active = FALSE, !.state = "Ready", !.open = FALSE] ELSE w
  <2>1. <<close>> \o <<stop>> = <<close, stop>> /\ <<>> \o <<stop>> = <<stop>>
    BY <1>2, TwoRecords
  <2> QED  BY <1>0, <1>1, <1>3, <2>1 DEF StopLog
<1>7. d.file = w.file /\ d.startedAt = w.startedAt /\ ~Logging(d)
  BY <1>5, <1>6 DEF Cores, Logging
<1>8. f \in Seq(Records) /\ ~Ended(f)
  BY <1>1 DEF Cores, Records
<1>9. /\ \A x : Has(f, x) => Has(g, x)
      /\ g \in Seq(Records) /\ ~Ended(g)
  BY <1>1, <1>2, <1>8, RecordsStay
<1>10. ASSUME c.active PROVE
       /\ d.startedAt = c.startedAt /\ ~Logging(d)
       /\ \A x : Has(c.file, x) => Has(d.file, x)
       /\ Ended(d.file) => Last(d.file).at = at
  <2>1. w.file \in {f, g, h}
    <3>1. w = Write(c, <<close, stop>>, ok, why)
      BY <1>3, <1>10
    <3>2. \/ w = [c EXCEPT !.file = Append(Append(c.file, close), stop)]
          \/ w.file \in {c.file, Append(c.file, close)}
      BY <1>2, <3>1, WriteTwo
    <3> QED  BY <1>1, <3>2 DEF Cores
  <2>2. /\ \A x : Has(g, x) => Has(h, x)
        /\ Last(h) = stop
    <3>1. ASSUME NEW x \in Records
          PROVE  /\ \A y : Has(g, y) => Has(Append(g, x), y)
                 /\ Last(Append(g, x)) = x
      BY <1>9, RecordsStay
    <3> QED  BY <1>1, <1>2, <3>1
  <2> QED  BY <1>1, <1>2, <1>5, <1>7, <1>8, <1>9, <2>1, <2>2
<1>11. ASSUME ~c.active PROVE
       /\ d.startedAt = c.startedAt /\ ~Logging(d)
       /\ \A x : Has(c.file, x) => Has(d.file, x)
       /\ Ended(d.file) => Last(d.file).at = at
  <2>1. PICK k : k = Append(f, stop)
    OBVIOUS
  <2>2. w.file \in {f, k}
    <3>1. w = Write(c, <<stop>>, ok, why)
      BY <1>3, <1>11
    <3>2. w = [c EXCEPT !.file = Append(c.file, stop)] \/ w.file = c.file
      <4>1. ASSUME NEW x \in Records
            PROVE  LET v == Write(c, <<x>>, ok, why)
                   IN  \/ v = [c EXCEPT !.file = Append(c.file, x)]
                       \/ v.file = c.file /\ ~Logging(v)
        BY WriteOne
      <4> QED  BY <1>2, <3>1, <4>1
    <3> QED  BY <1>1, <2>1, <3>2 DEF Cores
  <2>3. /\ \A x : Has(f, x) => Has(k, x)
        /\ Last(k) = stop
    <3>1. ASSUME NEW x \in Records
          PROVE  /\ \A y : Has(f, y) => Has(Append(f, x), y)
                 /\ Last(Append(f, x)) = x
      BY <1>8, RecordsStay
    <3> QED  BY <1>2, <2>1, <3>1
  <2> QED  BY <1>1, <1>2, <1>5, <1>7, <1>8, <2>2, <2>3
<1>12. /\ d.startedAt = c.startedAt /\ ~Logging(d)
       /\ \A x : Has(c.file, x) => Has(d.file, x)
       /\ Ended(d.file) => Last(d.file).at = at
  BY <1>10, <1>11
<1> QED  BY <1>0, <1>12

\* A start: the file that is there stays, or a new one is begun.
LEMMA StartOutcome ==
  ASSUME NEW c \in Cores, NEW at \in 0 .. MaxTime, NEW opens \in BOOLEAN,
         NEW ok \in Nat, NEW why \in Failures, NEW d, d = StartLog(c, at, opens, ok, why)
  PROVE  \/ d.file = c.file /\ d.startedAt = c.startedAt /\ ~Logging(d)
         \/ ~Ended(d.file) /\ d.startedAt = at
<1>1. CASE ~opens
  BY <1>1 DEF StartLog, Fail, Cores, Logging
<1>2. CASE opens
  <2>1. PICK b : b = [c EXCEPT !.state = "Recording", !.error = "None", !.active = FALSE,
                               !.startedAt = at, !.file = <<>>, !.open = TRUE]
    OBVIOUS
  <2>2. b \in Cores
    <3>1. "Recording" \in LoggerStates /\ "None" \in LoggerErrors
      BY DEF LoggerStates, LoggerErrors
    <3>2. <<>> \in Seq([kind : RecordKinds, at : 0 .. MaxTime])
      OBVIOUS
    <3> QED  BY <2>1, <3>1, <3>2 DEF Cores
  <2>3. b.file = <<>> /\ b.startedAt = at
    BY <2>1 DEF Cores
  <2>4. PICK r, s, e, g, h : /\ r = Rec("Header", at) /\ s = Rec("Start", at)
                             /\ e = <<>> /\ g = Append(e, r) /\ h = Append(g, s)
    OBVIOUS
  <2>5. r \in Records /\ s \in Records /\ r.kind # "Stop" /\ s.kind # "Stop"
    BY <2>4 DEF Rec, Records, RecordKinds
  <2>6. d = Write(b, <<r, s>>, ok, why)
    BY <1>2, <2>1, <2>4 DEF StartLog
  <2>7. d.file \in {e, g, h}
    <3>1. \/ d = [b EXCEPT !.file = Append(Append(b.file, r), s)]
          \/ d.file \in {b.file, Append(b.file, r)} /\ ~Logging(d)
      <4>1. ASSUME NEW x \in Records, NEW y \in Records
            PROVE  LET w == Write(b, <<x, y>>, ok, why)
                   IN  \/ w = [b EXCEPT !.file = Append(Append(b.file, x), y)]
                       \/ w.file \in {b.file, Append(b.file, x)} /\ ~Logging(w)
        BY <2>2, WriteTwo
      <4> QED  BY <2>5, <2>6, <4>1
    <3> QED  BY <2>2, <2>3, <2>4, <3>1 DEF Cores
  <2>8. e \in Seq(Records) /\ ~Ended(e)
    BY <2>4 DEF Ended
  <2>9. g \in Seq(Records) /\ ~Ended(g)
    BY <2>4, <2>5, <2>8, RecordsStay
  <2>10. ~Ended(h)
    BY <2>4, <2>5, <2>9, RecordsStay
  <2>11. d.startedAt = at
    BY <2>2, <2>3, <2>6, WriteKeepsStart
  <2> QED  BY <2>7, <2>8, <2>9, <2>10, <2>11
<1> QED  BY <1>1, <1>2

\* A marker or a sample is one record that is no stop.
LEMMA OtherOutcome ==
  ASSUME NEW c \in Cores, Logging(c), ~Ended(c.file), NEW i \in Items,
         i.kind \notin {"LogStart", "LogStop"},
         NEW opens \in BOOLEAN, NEW ok \in Nat, NEW why \in Failures, NEW d,
         d = IF i.kind \in CommandKinds THEN Handle(c, i, opens, ok, why)
             ELSE Accept(c, i, ok, why)
  PROVE  /\ d.startedAt = c.startedAt /\ ~Ended(d.file)
         /\ \A x : Has(c.file, x) => Has(d.file, x)
         /\ Logging(d) /\ i.kind = "Snapshot" => Has(d.file, Rec("Snapshot", i.at))
<1>1. i.at \in 0 .. MaxTime
  BY DEF Items, SnapshotItems, ImuItems, CommandItems
<1>2. \A k \in RecordKinds : Rec(k, i.at) \in Records /\ Rec(k, i.at).kind = k
  BY <1>1 DEF Rec, Records
<1>3. ASSUME NEW k \in RecordKinds, k # "Stop", NEW w, w = Write(c, <<Rec(k, i.at)>>, ok, why)
      PROVE  /\ w \in Cores /\ w.startedAt = c.startedAt /\ ~Ended(w.file)
             /\ \A x : Has(c.file, x) => Has(w.file, x)
             /\ Logging(w) => Has(w.file, Rec(k, i.at))
  <2>1. PICK r \in Records : r = Rec(k, i.at) /\ r.kind # "Stop"
    BY <1>2, <1>3
  <2>2. w = Write(c, <<r>>, ok, why)
    BY <1>3, <2>1
  <2>3. w \in Cores
    <3>1. <<r>> \in Seq(Records)
      OBVIOUS
    <3> QED  BY <2>2, <3>1, WriteKeeps
  <2> QED  BY <2>1, <2>2, <2>3, OneWritten
<1>4. ASSUME NEW k \in RecordKinds, k # "Stop", NEW a, d = WriteMarker(c, k, i.at, a, ok, why)
      PROVE  /\ d.startedAt = c.startedAt /\ ~Ended(d.file)
             /\ \A x : Has(c.file, x) => Has(d.file, x)
  <2>1. PICK w : w = Write(c, <<Rec(k, i.at)>>, ok, why)
    OBVIOUS
  <2>2. /\ w \in Cores /\ w.startedAt = c.startedAt /\ ~Ended(w.file)
        /\ \A x : Has(c.file, x) => Has(w.file, x)
    BY <1>3, <1>4, <2>1
  <2>3. d = IF Logging(w) THEN [w EXCEPT !.active = a] ELSE w
    BY <1>4, <2>1 DEF WriteMarker
  <2>4. d.file = w.file /\ d.startedAt = w.startedAt
    BY <2>2, <2>3 DEF Cores
  <2> QED  BY <2>2, <2>4
<1>5. {"SprotzStart", "SprotzStop", "Marker", "Snapshot", "ImuSample"} \subseteq RecordKinds
  BY DEF RecordKinds
<1>6. CASE i.kind \in CommandKinds
  <2>1. \/ \E k \in {"SprotzStart", "SprotzStop", "Marker"} : \E a :
             d = WriteMarker(c, k, i.at, a, ok, why)
        \/ d = c
    BY <1>6 DEF Handle, CommandKinds
  <2>2. i.kind # "Snapshot"
    BY <1>6 DEF CommandKinds
  <2>3. CASE d = c
    BY <2>2, <2>3
  <2>4. CASE \E k \in {"SprotzStart", "SprotzStop", "Marker"} : \E a :
               d = WriteMarker(c, k, i.at, a, ok, why)
    <3>1. PICK k, a : /\ k \in {"SprotzStart", "SprotzStop", "Marker"}
                      /\ d = WriteMarker(c, k, i.at, a, ok, why)
      BY <2>4
    <3>2. k \in RecordKinds /\ k # "Stop"
      BY <1>5, <3>1
    <3> QED  BY <1>4, <2>2, <3>1, <3>2
  <2> QED  BY <2>1, <2>3, <2>4
<1>7. CASE i.kind \notin CommandKinds
  <2>1. i.kind \in {"Snapshot", "ImuSample"}
    BY <1>7 DEF Items, SnapshotItems, ImuItems, CommandItems
  <2>2. d = Write(c, <<Rec(i.kind, i.at)>>, ok, why)
    BY <1>7 DEF Accept
  <2>3. i.kind \in RecordKinds /\ i.kind # "Stop"
    BY <1>5, <2>1
  <2> QED  BY <1>3, <2>2, <2>3
<1> QED  BY <1>6, <1>7

\* What the core may become by an item: a file is only begun and ended by the commands for it.
Becomes(c, i, d) ==
  /\ ~Logging(c) /\ i.kind = "LogStart" =>
       \/ d.file = c.file /\ d.startedAt = c.startedAt /\ ~Logging(d)
       \/ ~Ended(d.file) /\ d.startedAt = i.at
  /\ ~Logging(c) /\ i.kind # "LogStart" => d = c
  /\ Logging(c) =>
       /\ d.startedAt = c.startedAt
       /\ \A x : Has(c.file, x) => Has(d.file, x)
       /\ Ended(d.file) => /\ i.kind = "LogStop" /\ ~Logging(d)
                           /\ Last(d.file).at = i.at
       /\ Logging(d) /\ i.kind = "Snapshot" => Has(d.file, Rec("Snapshot", i.at))

Outcome(c, i, opens, ok, why) ==
  IF i.kind \in CommandKinds THEN Handle(c, i, opens, ok, why) ELSE Accept(c, i, ok, why)

LEMMA CoreOutcome ==
  ASSUME NEW c \in Cores, Logging(c) => ~Ended(c.file), NEW i \in Items,
         NEW opens \in BOOLEAN, NEW ok \in Nat, NEW why \in Failures
  PROVE  Becomes(c, i, Outcome(c, i, opens, ok, why))
<1>0. PICK d : d = Outcome(c, i, opens, ok, why)
  OBVIOUS
<1>1. i.at \in 0 .. MaxTime
  BY DEF Items, SnapshotItems, ImuItems, CommandItems
<1>2. CASE i.kind = "LogStart"
  <2>1. CASE Logging(c)
    <3>1. d = c
      BY <1>0, <1>2, <2>1 DEF CommandKinds, Handle, Outcome
    <3>2. Becomes(c, i, d)
      BY <1>2, <2>1, <3>1 DEF Becomes
    <3> QED  BY <1>0, <3>2
  <2>2. CASE ~Logging(c)
    <3>1. d = StartLog(c, i.at, opens, ok, why)
      BY <1>0, <1>2, <2>2 DEF CommandKinds, Handle, Outcome
    <3>2. \/ d.file = c.file /\ d.startedAt = c.startedAt /\ ~Logging(d)
          \/ ~Ended(d.file) /\ d.startedAt = i.at
      BY <1>1, <3>1, StartOutcome
    <3>3. Becomes(c, i, d)
      BY <1>2, <2>2, <3>2 DEF Becomes
    <3> QED  BY <1>0, <3>3
  <2> QED  BY <2>1, <2>2
<1>3. CASE i.kind = "LogStop"
  <2>1. CASE Logging(c)
    <3>1. d = StopLog(c, i.at, ok, why)
      BY <1>0, <1>3, <2>1 DEF CommandKinds, Handle, Outcome
    <3>2. ~Ended(c.file)
      BY <2>1
    <3>3. /\ d.startedAt = c.startedAt /\ ~Logging(d)
          /\ \A x : Has(c.file, x) => Has(d.file, x)
          /\ Ended(d.file) => Last(d.file).at = i.at
      BY <1>1, <2>1, <3>1, <3>2, StopOutcome
    <3>4. Becomes(c, i, d)
      BY <1>3, <2>1, <3>3 DEF Becomes
    <3> QED  BY <1>0, <3>4
  <2>2. CASE ~Logging(c)
    <3>1. d = c
      BY <1>0, <1>3, <2>2 DEF CommandKinds, Handle, Outcome
    <3>2. Becomes(c, i, d)
      BY <1>3, <2>2, <3>1 DEF Becomes
    <3> QED  BY <1>0, <3>2
  <2> QED  BY <2>1, <2>2
<1>4. CASE i.kind \notin {"LogStart", "LogStop"}
  <2>1. CASE Logging(c)
    <3>1. d = IF i.kind \in CommandKinds THEN Handle(c, i, opens, ok, why)
              ELSE Accept(c, i, ok, why)
      BY <1>0 DEF Outcome
    <3>2. /\ d.startedAt = c.startedAt /\ ~Ended(d.file)
          /\ \A x : Has(c.file, x) => Has(d.file, x)
          /\ Logging(d) /\ i.kind = "Snapshot" => Has(d.file, Rec("Snapshot", i.at))
      BY <1>4, <2>1, <3>1, OtherOutcome
    <3>3. Becomes(c, i, d)
      BY <1>4, <2>1, <3>2 DEF Becomes
    <3> QED  BY <1>0, <3>3
  <2>2. CASE ~Logging(c)
    <3>1. d = c
      BY <1>0, <1>4, <2>2 DEF CommandKinds, Handle, Accept, Outcome
    <3>2. Becomes(c, i, d)
      BY <1>4, <2>2, <3>1 DEF Becomes
    <3> QED  BY <1>0, <3>2
  <2> QED  BY <2>1, <2>2
<1> QED  BY <1>2, <1>3, <1>4

\* The queue s and the pending snapshot p are in the order of their stamps, none after n.
Queued(s, p, n) ==
  /\ \A j \in 1 .. Len(s) : s[j].at <= n
  /\ \A j, k \in 1 .. Len(s) : j < k => s[j].at <= s[k].at
  /\ p # None => /\ p.at <= n
                 /\ \A j \in 1 .. Len(s) : p.at <= s[j].at

\* Their stamps.
InFront(s, p) ==
  {s[j].at : j \in DOMAIN s} \cup (IF p = None THEN {} ELSE {p.at})

LEMMA NoneIsNoSnapshot == None \notin SnapshotItems
BY DEF None, SnapshotItems

\* Taking the head of the queue when nothing is pending keeps order and stamps.
LEMMA HeadOrder ==
  ASSUME NEW s \in Seq(SnapshotItems), s # <<>>, NEW n, Queued(s, None, n)
  PROVE  /\ Queued(Tail(s), Head(s), n) /\ Head(s) # None
         /\ InFront(Tail(s), Head(s)) = InFront(s, None)
<1>1. PICK s2, p2 : s2 = Tail(s) /\ p2 = Head(s)
  OBVIOUS
<1>2. /\ s2 \in Seq(SnapshotItems) /\ Len(s2) = Len(s) - 1 /\ Len(s) \in Nat
      /\ \A j \in 1 .. Len(s2) : s2[j] = s[j + 1]
      /\ p2 = s[1] /\ p2 \in SnapshotItems /\ 1 \in 1 .. Len(s)
  BY <1>1, HeadTailProperties
<1>3. \A j \in 1 .. Len(s2) : j + 1 \in 1 .. Len(s) /\ s2[j].at = s[j + 1].at
  BY <1>2
<1>4. Queued(s2, p2, n)
  <2>1. \A j \in 1 .. Len(s2) : s2[j].at <= n /\ p2.at <= s2[j].at
    BY <1>2, <1>3 DEF Queued
  <2>2. \A j, k \in 1 .. Len(s2) : j < k => s2[j].at <= s2[k].at
    BY <1>2, <1>3 DEF Queued
  <2>3. p2.at <= n
    BY <1>2 DEF Queued
  <2> QED  BY <2>1, <2>2, <2>3 DEF Queued
<1>5. DOMAIN s = 1 .. Len(s) /\ DOMAIN s2 = 1 .. Len(s2)
  BY <1>2
<1>6. \A j \in DOMAIN s : j = 1 \/ (j - 1 \in DOMAIN s2 /\ s2[j - 1].at = s[j].at)
  <2>1. ASSUME NEW j \in 1 .. Len(s), j # 1
        PROVE  j - 1 \in 1 .. Len(s2) /\ s2[j - 1] = s[j]
    BY <1>2, <2>1
  <2> QED  BY <1>5, <2>1
<1>7. InFront(s, None) = {s[j].at : j \in DOMAIN s}
  BY DEF InFront
<1>8. p2 # None
  BY <1>2, NoneIsNoSnapshot
<1>9. InFront(s2, p2) = {s2[j].at : j \in DOMAIN s2} \cup {s[1].at}
  BY <1>2, <1>8 DEF InFront
<1>10. InFront(s2, p2) = InFront(s, None)
  <2>1. ASSUME NEW t \in InFront(s, None) PROVE t \in InFront(s2, p2)
    <3>1. PICK j \in DOMAIN s : t = s[j].at
      BY <1>7
    <3> QED  BY <1>6, <1>9, <3>1
  <2>2. ASSUME NEW t \in InFront(s2, p2) PROVE t \in InFront(s, None)
    <3>1. CASE t = s[1].at
      BY <1>2, <1>5, <1>7, <3>1
    <3>2. CASE t # s[1].at
      <4>1. PICK j \in DOMAIN s2 : t = s2[j].at
        BY <1>9, <3>2
      <4>2. j + 1 \in DOMAIN s /\ t = s[j + 1].at
        BY <1>3, <1>5, <4>1
      <4> QED  BY <1>7, <4>2
    <3> QED  BY <3>1, <3>2
  <2> QED  BY <2>1, <2>2
<1> QED  BY <1>1, <1>4, <1>8, <1>10

\* The pending snapshot goes: its stamp is the only one that may be missing then.
LEMMA GoneOrder ==
  ASSUME NEW s, NEW p, NEW n, Queued(s, p, n)
  PROVE  /\ Queued(s, None, n) /\ InFront(s, None) \subseteq InFront(s, p)
         /\ \A t \in InFront(s, p) : t \in InFront(s, None) \/ (p # None /\ t = p.at)
BY DEF Queued, InFront

\* One more behind the others.
LEMMA SentOrder ==
  ASSUME NEW s \in Seq(SnapshotItems), NEW p \in SnapshotItems \cup {None},
         NEW n \in Nat, Queued(s, p, n), NEW x \in SnapshotItems, n <= x.at
  PROVE  /\ Queued(Append(s, x), p, x.at)
         /\ InFront(Append(s, x), p) = InFront(s, p) \cup {x.at}
         /\ \A j \in 1 .. Len(Append(s, x)) :
              \/ Append(s, x)[j] = x
              \/ j \in 1 .. Len(s) /\ Append(s, x)[j] = s[j]
<1>0. PICK s2 : s2 = Append(s, x)
  OBVIOUS
<1>1. /\ s2 \in Seq(SnapshotItems) /\ Len(s2) = Len(s) + 1 /\ s2[Len(s) + 1] = x
      /\ \A j \in 1 .. Len(s) : s2[j] = s[j]
      /\ Len(s) \in Nat
  BY <1>0, AppendProperties
<1>2. DOMAIN s = 1 .. Len(s) /\ DOMAIN s2 = 1 .. Len(s) + 1
  BY <1>1
<1>3. \A j \in 1 .. Len(s2) : \/ j = Len(s) + 1 /\ s2[j] = x
                              \/ j \in 1 .. Len(s) /\ s2[j] = s[j]
  <2>1. ASSUME NEW j \in 1 .. Len(s) + 1 PROVE j = Len(s) + 1 \/ j \in 1 .. Len(s)
    BY <1>1
  <2> QED  BY <1>1, <2>1
<1>4. /\ \A j \in 1 .. Len(s) : s[j].at \in Nat
      /\ x.at \in Nat /\ (p # None => p.at \in Nat)
  <2>1. \A y \in SnapshotItems : y.at \in Nat
    BY Bounds DEF SnapshotItems
  <2>2. \A j \in 1 .. Len(s) : s[j] \in SnapshotItems
    BY ElementOfSeq
  <2> QED  BY <2>1, <2>2
<1>5. \A j \in 1 .. Len(s) : s[j].at <= x.at
  BY <1>4 DEF Queued
<1>6. Queued(s2, p, x.at)
  <2>1. \A j \in 1 .. Len(s2) : s2[j].at <= x.at
    BY <1>3, <1>4, <1>5
  <2>2. ASSUME NEW j \in 1 .. Len(s2), NEW k \in 1 .. Len(s2), j < k
        PROVE  s2[j].at <= s2[k].at
    <3>1. j \in 1 .. Len(s) /\ s2[j] = s[j]
      BY <1>1, <1>3, <2>2
    <3> QED  BY <1>3, <1>5, <2>2, <3>1 DEF Queued
  <2>3. ASSUME p # None PROVE p.at <= x.at /\ \A j \in 1 .. Len(s2) : p.at <= s2[j].at
    <3>1. p.at <= x.at
      BY <1>4, <2>3 DEF Queued
    <3> QED  BY <1>3, <2>3, <3>1 DEF Queued
  <2> QED  BY <2>1, <2>2, <2>3 DEF Queued
<1>7. InFront(s2, p) = InFront(s, p) \cup {x.at}
  <2>1. {s2[j].at : j \in DOMAIN s2} = {s[j].at : j \in DOMAIN s} \cup {x.at}
    <3>1. \A j \in DOMAIN s : j \in DOMAIN s2 /\ s2[j].at = s[j].at
      BY <1>1, <1>2
    <3>2. Len(s) + 1 \in DOMAIN s2 /\ s2[Len(s) + 1].at = x.at
      BY <1>1, <1>2
    <3>3. \A j \in DOMAIN s2 : s2[j].at = x.at \/ (j \in DOMAIN s /\ s2[j].at = s[j].at)
      BY <1>1, <1>2, <1>3
    <3> QED  BY <3>1, <3>2, <3>3
  <2> QED  BY <2>1 DEF InFront
<1> QED  BY <1>0, <1>3, <1>6, <1>7


\* What a refill does to the snapshots.
LEMMA FillMoves ==
  ASSUME NEW m \in Merges, Fill(m)
  PROVE  /\ merge'.start = m.start
         /\ merge'.snapshot = IF m.snapshot = None /\ snapshots # <<>>
                              THEN Head(snapshots) ELSE m.snapshot
         /\ snapshots' = IF m.snapshot = None /\ snapshots # <<>>
                         THEN Tail(snapshots) ELSE snapshots
<1>1. PICK q, m1 : /\ q = (m.snapshot = None /\ snapshots # <<>>)
                   /\ m1 = IF q THEN [m EXCEPT !.snapshot = Head(snapshots)] ELSE m
  OBVIOUS
<1>2. /\ m1.start = m.start
      /\ m1.snapshot = IF q THEN Head(snapshots) ELSE m.snapshot
      /\ \A x : /\ [m1 EXCEPT !.imu = x].start = m1.start
                /\ [m1 EXCEPT !.imu = x].snapshot = m1.snapshot
  BY <1>1 DEF Merges
<1>3. merge' = m1 \/ merge' = [m1 EXCEPT !.imu = Head(imuSamples)]
  BY <1>1 DEF Fill, Offer
<1>4. snapshots' = IF q THEN Tail(snapshots) ELSE snapshots
  BY <1>1 DEF Fill
<1> QED  BY <1>1, <1>2, <1>3, <1>4

\* What handing out or discarding an item does to them.
LEMMA EmitMoves ==
  ASSUME NEW m \in Merges, NEW i \in Items
  PROVE  /\ Without(m, i).start = m.start
         /\ Without(m, i).snapshot = IF i.kind = "Snapshot" THEN None ELSE m.snapshot
         /\ Emit(m, i).start = IF i.kind = "LogStart" THEN i.at ELSE m.start
         /\ Emit(m, i).snapshot = IF i.kind = "Snapshot" THEN None ELSE m.snapshot
<1>1. PICK w : w = Without(m, i)
  OBVIOUS
<1>2. w \in Merges
  BY <1>1, EmitKeeps
<1>3. w.start = m.start /\ w.snapshot = IF i.kind = "Snapshot" THEN None ELSE m.snapshot
  BY <1>1 DEF Without, Merges
<1>4. /\ ItemKind(i) = "Start" <=> i.kind = "LogStart"
      /\ ItemKind(i) = "Stop" <=> i.kind = "LogStop"
      /\ i.kind = "LogStart" => i.kind # "LogStop"
  BY DEF Items, SnapshotItems, ImuItems, CommandItems, CommandKinds, ItemKind
<1>5. Emit(m, i) = CASE i.kind = "LogStart" -> [w EXCEPT !.recording = TRUE, !.start = i.at]
                     [] i.kind = "LogStop" -> [w EXCEPT !.recording = FALSE]
                     [] OTHER -> w
  BY <1>1, <1>4 DEF Emit
<1>6. CASE i.kind = "LogStart"
  <2>1. Emit(m, i) = [w EXCEPT !.recording = TRUE, !.start = i.at]
    BY <1>5, <1>6
  <2> QED  BY <1>1, <1>2, <1>3, <1>6, <2>1 DEF Merges
<1>7. CASE i.kind = "LogStop"
  <2>1. Emit(m, i) = [w EXCEPT !.recording = FALSE]
    BY <1>5, <1>7
  <2> QED  BY <1>1, <1>2, <1>3, <1>7, <2>1 DEF Merges
<1>8. CASE i.kind \notin {"LogStart", "LogStop"}
  BY <1>1, <1>3, <1>5, <1>8
<1> QED  BY <1>6, <1>7, <1>8

\* An item that is handed out is not younger than the pending snapshot, a stop is older.
LEMMA EarliestFirst ==
  ASSUME NEW m \in Merges, Pending(m) # {}, NEW i, i = Earliest(m)
  PROVE  /\ i \in Items
         /\ i.kind = "Snapshot" => m.snapshot # None /\ i = m.snapshot
         /\ m.snapshot # None => i.at <= m.snapshot.at
         /\ m.snapshot # None /\ i.kind = "LogStop" => i.at < m.snapshot.at
<1>1. /\ i \in Pending(m)
      /\ \A j \in Pending(m) \ {i} : Precedes(i, j)
  BY EarliestWaits
<1>2. i \in Items
  BY <1>1, PendingItems
<1>3. i.at \in Int
  BY <1>2, RecordingAssumption DEF Items, SnapshotItems, ImuItems, CommandItems
<1>4. \/ i = m.snapshot /\ i \in SnapshotItems /\ i.kind = "Snapshot"
      \/ i \in ImuItems /\ i.kind = "ImuSample"
      \/ i \in CommandItems /\ i.kind \in CommandKinds
  BY <1>1 DEF Pending, Merges, SnapshotItems, ImuItems, CommandItems
<1>5. "Snapshot" \notin CommandKinds /\ "LogStop" # "Snapshot" /\ "ImuSample" # "Snapshot"
  BY DEF CommandKinds
<1>6. i.kind = "Snapshot" => m.snapshot # None /\ i = m.snapshot
  BY <1>4, <1>5, NoneIsNoSnapshot
<1>7. ASSUME m.snapshot # None, i # m.snapshot
      PROVE  /\ i.at <= m.snapshot.at
             /\ i.kind = "LogStop" => i.at < m.snapshot.at
  <2>1. m.snapshot \in SnapshotItems /\ m.snapshot \in Pending(m)
    BY <1>7 DEF Pending, Merges
  <2>2. Precedes(i, m.snapshot) /\ m.snapshot.at \in Int
    BY <1>1, <1>7, <2>1, RecordingAssumption DEF SnapshotItems
  <2>3. Priority[ItemKind(m.snapshot)] = 2
    BY <2>1, Priorities
  <2>4. i.kind = "LogStop" => Priority[ItemKind(i)] = 4
    BY DEF ItemKind, Priority
  <2>5. i.at < m.snapshot.at
          \/ (i.at = m.snapshot.at /\ Priority[ItemKind(i)] < Priority[ItemKind(m.snapshot)])
    BY <2>2 DEF Precedes
  <2> QED  BY <1>3, <2>2, <2>3, <2>4, <2>5
<1>8. m.snapshot # None /\ i = m.snapshot => i.kind # "LogStop" /\ i.at <= m.snapshot.at
  <2>1. m.snapshot # None => m.snapshot \in SnapshotItems
    BY DEF Merges
  <2> QED  BY <1>3, <2>1 DEF SnapshotItems
<1> QED  BY <1>2, <1>6, <1>7, <1>8

\* The stamps are in order and not in the future.
InOrder ==
  /\ latest.snapshots <= now
  /\ Queued(snapshots, merge.snapshot, latest.snapshots)

Clock == pc # "idle" => nowUs \in 1 .. now

\* A recording runs that met no snapshot older than its start.
Clean == Logging(core) /\ \A t \in accepted : core.startedAt <= t

\* While no snapshot is pending, those that are queued came during this poll.
UpToDate ==
  Clean /\ pc # "idle" /\ merge.snapshot = None =>
    \A j \in 1 .. Len(snapshots) : nowUs <= snapshots[j].at + Late

\* A second start was handed out in its turn too.
StartIsPast ==
  Clean /\ merge.start # core.startedAt =>
    /\ merge.start + Late <= now
    /\ \A t \in InFront(snapshots, merge.snapshot) : merge.start <= t

NoneLost ==
  /\ accepted \subseteq 0 .. MaxTime
  /\ Logging(core) => InFront(snapshots, merge.snapshot) \subseteq accepted
  /\ Clean => \A t \in accepted : Kept(t) \/ t \in InFront(snapshots, merge.snapshot)

Orderly ==
  InOrder /\ Clock /\ UpToDate /\ StartIsPast /\ NoneLost /\ StopWaitsForAccepted

LEMMA WaitingIsFront == Waiting = InFront(snapshots, merge.snapshot)
BY DEF Waiting, InFront

LEMMA OrderlyStart == Init => Orderly
<1> SUFFICES ASSUME Init PROVE Orderly
  OBVIOUS
<1>1. /\ snapshots = <<>> /\ merge.snapshot = None /\ latest.snapshots = 1 /\ now = Late + 1
      /\ accepted = {} /\ pc = "idle"
  BY DEF Init, EmptyMerge
<1>2. PICK ready \in BOOLEAN : core = StorageReady(NewCore, ready)
  BY DEF Init
<1>3. core.file = <<>> /\ ~Logging(core)
  BY <1>2 DEF NewCore, StorageReady, Logging
<1>4. InOrder
  BY <1>1, Bounds DEF InOrder, Queued
<1> QED  BY <1>1, <1>3, <1>4
         DEF Orderly, Clock, Clean, UpToDate, StartIsPast, NoneLost, StopWaitsForAccepted, Ended


\* A stamp that does not wrap is the clock's time.
LEMMA NoWrap ==
  ASSUME StampModulus > MaxTime, NEW t \in 0 .. MaxTime
  PROVE  t % StampModulus = t
<1>1. t \in Nat /\ StampModulus \in Nat /\ t < StampModulus
  BY Bounds
<1> QED  BY <1>1, Z3

LEMMA FrontTimes ==
  ASSUME TypeOK
  PROVE  /\ InFront(snapshots, merge.snapshot) \subseteq 0 .. MaxTime
         /\ snapshots \in Seq(SnapshotItems) /\ Len(snapshots) \in Nat
         /\ merge.snapshot \in SnapshotItems \cup {None}
         /\ \A j \in 1 .. Len(snapshots) : snapshots[j].at \in 0 .. MaxTime
<1>1. snapshots \in Seq(SnapshotItems) /\ merge.snapshot \in SnapshotItems \cup {None}
  BY DEF TypeOK, Merges
<1>2. \A j \in DOMAIN snapshots : snapshots[j].at \in 0 .. MaxTime
  <2>1. \A x \in SnapshotItems : x.at \in 0 .. MaxTime
    BY DEF SnapshotItems
  <2>2. \A j \in DOMAIN snapshots : snapshots[j] \in SnapshotItems
    BY <1>1, ElementOfSeq
  <2> QED  BY <2>1, <2>2
<1>3. merge.snapshot # None => merge.snapshot.at \in 0 .. MaxTime
  BY <1>1 DEF SnapshotItems
<1> QED  BY <1>1, <1>2, <1>3 DEF InFront

\* The refill as the invariant sees it.
LEMMA FillFront ==
  ASSUME TypeOK, NEW m \in Merges, Fill(m), NEW n, Queued(snapshots, m.snapshot, n)
  PROVE  /\ Queued(snapshots', merge'.snapshot, n)
         /\ InFront(snapshots', merge'.snapshot) = InFront(snapshots, m.snapshot)
         /\ merge'.snapshot = None => snapshots' = <<>>
         /\ merge'.start = m.start
<1>1. /\ merge'.start = m.start
      /\ merge'.snapshot = IF m.snapshot = None /\ snapshots # <<>>
                           THEN Head(snapshots) ELSE m.snapshot
      /\ snapshots' = IF m.snapshot = None /\ snapshots # <<>>
                      THEN Tail(snapshots) ELSE snapshots
  BY FillMoves
<1>2. CASE m.snapshot = None /\ snapshots # <<>>
  <2>1. snapshots \in Seq(SnapshotItems) /\ Queued(snapshots, None, n)
    BY <1>2 DEF TypeOK
  <2>2. /\ Queued(Tail(snapshots), Head(snapshots), n) /\ Head(snapshots) # None
        /\ InFront(Tail(snapshots), Head(snapshots)) = InFront(snapshots, None)
    BY <1>2, <2>1, HeadOrder
  <2> QED  BY <1>1, <1>2, <2>2
<1>3. CASE ~(m.snapshot = None /\ snapshots # <<>>)
  BY <1>1, <1>3
<1> QED  BY <1>2, <1>3

\* A step that moves no snapshot, writes nothing and begins no recording.
LEMMA QuietOrderly ==
  ASSUME TypeOK, Orderly, now' \in Nat, now <= now',
         UNCHANGED <<latest.snapshots, snapshots, merge.snapshot, merge.start, core.file,
                     core.startedAt, accepted>>,
         Logging(core') => Logging(core),
         pc' # "idle" => pc # "idle" /\ nowUs' = nowUs
  PROVE  Orderly'
<1>1. now \in Nat /\ latest.snapshots \in Nat
  BY Bounds DEF TypeOK
<1>2. InOrder'
  BY <1>1 DEF Orderly, InOrder
<1>3. Clock'
  BY <1>1 DEF Orderly, Clock
<1>4. Clean' => Clean
  BY DEF Clean
<1>5. UpToDate'
  BY <1>4 DEF Orderly, UpToDate
<1>6. StartIsPast'
  <2>1. merge.start \in Nat
    BY Bounds DEF TypeOK, Merges
  <2> QED  BY <1>1, <1>4, <2>1, Bounds DEF Orderly, StartIsPast
<1>7. NoneLost' /\ StopWaitsForAccepted'
  BY <1>4 DEF Orderly, NoneLost, StopWaitsForAccepted, Kept
<1> QED  BY <1>2, <1>3, <1>5, <1>6, <1>7 DEF Orderly

\* The snapshot that is sent is younger than all and not older than the poll.
LEMMA SendOrderly ==
  ASSUME StampModulus > MaxTime, IInv, CoreBracketed, Orderly, SendSnapshot
  PROVE  Orderly'
<1>1. PICK t \in Stamps :
        /\ t >= latest.snapshots
        /\ latest' = [latest EXCEPT !.snapshots = t]
        /\ \/ /\ snapshots' = Append(snapshots, [kind |-> "Snapshot", at |-> t % StampModulus])
              /\ accepted' = accepted \cup (IF Logging(core) /\ merge.recording THEN {t} ELSE {})
           \/ UNCHANGED <<snapshots, accepted>>
  BY DEF SendSnapshot
<1>2. /\ now \in Nat /\ latest.snapshots \in Nat /\ latest'.snapshots = t
      /\ t \in Int /\ now - Late <= t /\ t <= now
  <2>1. now \in Nat /\ latest \in [snapshots : 0 .. MaxTime, imu : 0 .. MaxTime]
    BY Bounds DEF IInv, TypeOK
  <2>2. t \in now - Late .. now
    BY <1>1 DEF Stamps
  <2>3. t \in Int /\ now - Late <= t /\ t <= now
    BY <2>1, <2>2, Bounds
  <2>4. latest.snapshots \in Nat
    BY <2>1, Bounds
  <2>5. latest'.snapshots = t
    BY <1>1, <2>1
  <2> QED  BY <2>1, <2>3, <2>4, <2>5
<1>3. t \in 0 .. MaxTime /\ t % StampModulus = t
  BY <1>1, StampRange, NoWrap DEF IInv
<1>4. UNCHANGED <<now, merge, core, pc, nowUs>>
  BY DEF SendSnapshot, sources
<1>5. Queued(snapshots, merge.snapshot, latest.snapshots)
  BY DEF Orderly, InOrder
<1>6. /\ snapshots \in Seq(SnapshotItems) /\ merge.snapshot \in SnapshotItems \cup {None}
      /\ \A j \in 1 .. Len(snapshots) : snapshots[j].at \in 0 .. MaxTime
  BY FrontTimes DEF IInv
<1>7. accepted \subseteq accepted' /\ (Clean' => Clean)
  <2>1. accepted \subseteq accepted'
    BY <1>1
  <2> QED  BY <1>4, <2>1 DEF Clean
<1>8. Clock'
  BY <1>4 DEF Orderly, Clock
<1>9. CASE UNCHANGED <<snapshots, accepted>>
  <2>1. Queued(snapshots, merge.snapshot, t)
    <3>1. merge.snapshot # None => merge.snapshot.at \in Nat
      BY <1>6, Bounds DEF SnapshotItems
    <3>2. \A j \in 1 .. Len(snapshots) : snapshots[j].at \in Nat
      BY <1>6, Bounds
    <3> QED  BY <1>1, <1>2, <1>5, <3>1, <3>2 DEF Queued
  <2>2. InOrder'
    BY <1>2, <1>4, <1>9, <2>1 DEF InOrder
  <2>3. UpToDate' /\ StartIsPast' /\ NoneLost' /\ StopWaitsForAccepted'
    BY <1>4, <1>9 DEF Orderly, Clean, UpToDate, StartIsPast, NoneLost, StopWaitsForAccepted, Kept
  <2> QED  BY <1>8, <2>2, <2>3 DEF Orderly
<1>10. CASE /\ snapshots' = Append(snapshots, [kind |-> "Snapshot", at |-> t % StampModulus])
            /\ accepted' = accepted \cup (IF Logging(core) /\ merge.recording THEN {t} ELSE {})
  <2>1. PICK x : x = [kind |-> "Snapshot", at |-> t % StampModulus]
    OBVIOUS
  <2>2. x \in SnapshotItems /\ x.at = t /\ snapshots' = Append(snapshots, x)
    BY <1>3, <1>10, <2>1 DEF SnapshotItems
  <2>3. PICK s2 : s2 = snapshots'
    OBVIOUS
  <2>4. /\ Queued(s2, merge.snapshot, x.at)
        /\ InFront(s2, merge.snapshot) = InFront(snapshots, merge.snapshot) \cup {x.at}
        /\ \A j \in 1 .. Len(s2) :
             s2[j] = x \/ (j \in 1 .. Len(snapshots) /\ s2[j] = snapshots[j])
    <3>1. latest.snapshots <= x.at
      BY <1>1, <1>2, <2>2
    <3>2. /\ snapshots \in Seq(SnapshotItems) /\ merge.snapshot \in SnapshotItems \cup {None}
          /\ latest.snapshots \in Nat /\ Queued(snapshots, merge.snapshot, latest.snapshots)
          /\ x \in SnapshotItems
      BY <1>2, <1>5, <1>6, <2>2
    <3>3. s2 = Append(snapshots, x)
      BY <2>2, <2>3
    <3> DEFINE n == latest.snapshots
               p == merge.snapshot
    <3>4. n \in Nat /\ n <= x.at /\ Queued(snapshots, p, n) /\ p \in SnapshotItems \cup {None}
      BY <3>1, <3>2
    <3> HIDE DEF n, p
    <3>5. /\ Queued(Append(snapshots, x), p, x.at)
          /\ InFront(Append(snapshots, x), p) = InFront(snapshots, p) \cup {x.at}
          /\ \A j \in 1 .. Len(Append(snapshots, x)) :
               Append(snapshots, x)[j] = x
                 \/ (j \in 1 .. Len(snapshots) /\ Append(snapshots, x)[j] = snapshots[j])
      BY <3>2, <3>4, SentOrder
    <3> QED  BY <3>3, <3>5 DEF p
  <2>5. InOrder'
    BY <1>2, <1>4, <2>2, <2>3, <2>4 DEF InOrder
  <2>6. UpToDate'
    <3>1. Clock /\ UpToDate
      BY DEF Orderly
    <3>2. pc # "idle" => nowUs <= t + Late
      BY <1>2, <3>1, Bounds DEF Clock
    <3> QED  BY <1>4, <1>7, <2>2, <2>3, <2>4, <3>1, <3>2 DEF UpToDate
  <2>7. StartIsPast'
    <3>1. merge.start \in Nat
      BY Bounds DEF IInv, TypeOK, Merges
    <3>2. merge.start + Late <= now => merge.start <= t
      BY <1>2, <3>1, Bounds
    <3> QED  BY <1>4, <1>7, <2>2, <2>3, <2>4, <3>2 DEF Orderly, StartIsPast
  <2>8. NoneLost'
    <3>1. Logging(core) => accepted' = accepted \cup {t}
      BY <1>10 DEF IInv, MergeFollowsCore
    <3>2. accepted' \subseteq 0 .. MaxTime
      BY <1>3, <1>10 DEF Orderly, NoneLost
    <3>3. Logging(core') => InFront(s2, merge'.snapshot) \subseteq accepted'
      BY <1>4, <2>2, <2>4, <3>1 DEF Orderly, NoneLost
    <3>4. Clean' => \A u \in accepted' : Kept(u) \/ u \in InFront(s2, merge'.snapshot)
      BY <1>4, <1>7, <2>2, <2>4, <3>1 DEF Orderly, NoneLost, Clean
    <3> QED  BY <1>4, <2>3, <3>2, <3>3, <3>4 DEF NoneLost, Kept
  <2>9. StopWaitsForAccepted'
    <3>1. CASE Logging(core)
      <4>1. ~Ended(core'.file)
        BY <1>4, <3>1 DEF CoreBracketed, Bracketed
      <4> QED  BY <4>1 DEF StopWaitsForAccepted
    <3>2. CASE ~Logging(core)
      BY <1>4, <1>10, <3>2 DEF Orderly, StopWaitsForAccepted, Kept
    <3> QED  BY <3>1, <3>2
  <2> QED  BY <1>8, <2>5, <2>6, <2>7, <2>8, <2>9 DEF Orderly
<1> QED  BY <1>1, <1>9, <1>10


\* What the poll hands out while it records is older than now and than all that waits.
LEMMA HandedFirst ==
  ASSUME IInv, Orderly, Clean, pc = "merge", Pending(merge) # {},
         NEW i, i = Earliest(merge), ~MustWait(merge, i, nowUs)
  PROVE  /\ i.at + Late <= now
         /\ \A t \in InFront(snapshots, merge.snapshot) :
              i.at <= t /\ (i.kind = "LogStop" => i.at < t)
<1>1. merge \in Merges /\ merge.recording
  BY DEF IInv, TypeOK, MergeFollowsCore, Clean
<1>2. /\ i \in Items
      /\ merge.snapshot # None => i.at <= merge.snapshot.at
      /\ merge.snapshot # None /\ i.kind = "LogStop" => i.at < merge.snapshot.at
  BY <1>1, EarliestFirst
<1>3. /\ i.at \in Nat /\ now \in Nat /\ nowUs \in Nat
      /\ Late \in Nat /\ Holdback \in Nat /\ Late < Holdback
  <2>1. \A x \in Items : x.at \in Nat
    BY Bounds DEF Items, SnapshotItems, ImuItems, CommandItems
  <2>2. now \in Nat /\ nowUs \in Nat
    BY Bounds DEF IInv, TypeOK
  <2> QED  BY <1>2, <2>1, <2>2, RecordingAssumption, HoldbackAssumption
<1>4. nowUs # 0 /\ nowUs <= now
  BY <1>3 DEF Orderly, Clock
<1>5. i.at + Holdback <= nowUs
  BY <1>1, <1>3, <1>4 DEF MustWait
<1>6. /\ snapshots \in Seq(SnapshotItems) /\ DOMAIN snapshots = 1 .. Len(snapshots)
      /\ merge.snapshot # None => merge.snapshot.at \in Nat
      /\ \A j \in 1 .. Len(snapshots) : snapshots[j].at \in Nat
  <2>1. /\ snapshots \in Seq(SnapshotItems)
        /\ merge.snapshot \in SnapshotItems \cup {None}
        /\ \A j \in 1 .. Len(snapshots) : snapshots[j].at \in 0 .. MaxTime
    BY FrontTimes DEF IInv
  <2> QED  BY <2>1, Bounds DEF SnapshotItems
<1>7. ASSUME NEW t \in InFront(snapshots, merge.snapshot)
      PROVE  i.at <= t /\ (i.kind = "LogStop" => i.at < t)
  <2>1. CASE merge.snapshot # None
    <3>1. t \in Nat /\ merge.snapshot.at <= t
      BY <1>6, <1>7, <2>1 DEF Orderly, InOrder, Queued, InFront
    <3> QED  BY <1>2, <1>3, <1>6, <2>1, <3>1
  <2>2. CASE merge.snapshot = None
    <3>1. PICK j \in 1 .. Len(snapshots) : t = snapshots[j].at
      BY <1>6, <1>7, <2>2 DEF InFront
    <3>2. nowUs <= t + Late
      BY <2>2, <3>1 DEF Orderly, UpToDate
    <3> QED  BY <1>3, <1>5, <1>6, <3>1, <3>2
  <2> QED  BY <2>1, <2>2
<1> QED  BY <1>3, <1>4, <1>5, <1>7

\* A new poll fills the merge; the card is looked at only while nothing is recorded.
LEMMA BeginOrderly ==
  ASSUME IInv, Orderly, BeginPoll
  PROVE  Orderly'
<1>1. core \in Cores /\ merge \in Merges /\ TypeOK
  BY DEF IInv, TypeOK
<1>2. core' = core \/ (core'.file = core.file /\ core'.startedAt = core.startedAt /\ ~Logging(core'))
  <2>1. core' = core \/ \E ready \in BOOLEAN : core' = StorageReady(core, ready)
    BY DEF BeginPoll, RefreshStorage
  <2> QED  BY <1>1, <2>1 DEF StorageReady, Cores, Logging
<1>3. UNCHANGED <<now, latest, accepted>> /\ nowUs' = now /\ Fill(merge)
  BY DEF BeginPoll, sources
<1>4. latest.snapshots <= now /\ Queued(snapshots, merge.snapshot, latest.snapshots)
  BY DEF Orderly, InOrder
<1>5. /\ Queued(snapshots', merge'.snapshot, latest.snapshots)
      /\ InFront(snapshots', merge'.snapshot) = InFront(snapshots, merge.snapshot)
      /\ merge'.snapshot = None => snapshots' = <<>>
      /\ merge'.start = merge.start
  BY <1>1, <1>3, <1>4, FillFront
<1>6. InOrder'
  BY <1>3, <1>4, <1>5 DEF InOrder
<1>7. Clock'
  BY <1>1, <1>3, Bounds DEF Clock, TypeOK
<1>8. UpToDate'
  BY <1>5 DEF UpToDate
<1>9. Logging(core') => core' = core
  BY <1>2
<1>10. StartIsPast'
  BY <1>3, <1>5, <1>9 DEF Orderly, StartIsPast, Clean
<1>11. NoneLost'
  BY <1>3, <1>5, <1>9 DEF Orderly, NoneLost, Clean, Kept
<1>12. StopWaitsForAccepted'
  BY <1>2, <1>3 DEF Orderly, StopWaitsForAccepted, Kept
<1> QED  BY <1>6, <1>7, <1>8, <1>10, <1>11, <1>12 DEF Orderly

\* No snapshot is discarded while Clean: each waits since the start, or came after it.
LEMMA DiscardOrderly ==
  ASSUME IInv, Orderly, DiscardItem
  PROVE  Orderly'
<1>1. PICK i : i = Earliest(merge)
  OBVIOUS
<1>2. /\ Pending(merge) # {} /\ MustDiscard(merge, i) /\ merge' = Without(merge, i)
      /\ UNCHANGED <<now, latest, snapshots, core, pc, nowUs, accepted>>
  BY <1>1 DEF DiscardItem, sources, queues
<1>3. merge \in Merges /\ now \in Nat /\ TypeOK
  BY Bounds DEF IInv, TypeOK
<1>4. /\ i \in Items
      /\ i.kind = "Snapshot" => merge.snapshot # None /\ i = merge.snapshot
  BY <1>1, <1>2, <1>3, EarliestFirst
<1>5. /\ merge'.start = merge.start
      /\ merge'.snapshot = IF i.kind = "Snapshot" THEN None ELSE merge.snapshot
  BY <1>2, <1>3, <1>4, EmitMoves
<1>6. CASE i.kind # "Snapshot"
  <2>1. UNCHANGED <<latest.snapshots, snapshots, merge.snapshot, merge.start, core.file,
                     core.startedAt, accepted>>
    BY <1>2, <1>5, <1>6
  <2> QED  BY <1>2, <1>3, <2>1, QuietOrderly
<1>7. CASE i.kind = "Snapshot"
  <2>1. i = merge.snapshot /\ merge.snapshot # None /\ merge'.snapshot = None
    BY <1>4, <1>5, <1>7
  <2>2. i.at \in InFront(snapshots, merge.snapshot)
    BY <2>1 DEF InFront
  <2>3. ~Clean
    <3>1. SUFFICES ASSUME Clean PROVE FALSE
      OBVIOUS
    <3>2. merge.recording
      BY <3>1 DEF Clean, IInv, MergeFollowsCore
    <3>3. i.at < merge.start
      BY <1>2, <1>7, <3>2 DEF MustDiscard, ItemKind
    <3>4. i.at \in Nat /\ merge.start \in Nat
      BY <1>3, <2>1, Bounds DEF Merges, SnapshotItems
    <3>5. core.startedAt <= i.at
      BY <2>2, <3>1 DEF Clean, Orderly, NoneLost
    <3>6. merge.start # core.startedAt => merge.start <= i.at
      BY <2>2, <3>1 DEF Orderly, StartIsPast
    <3> QED  BY <3>3, <3>4, <3>5, <3>6
  <2>4. ~Clean'
    BY <1>2, <2>3 DEF Clean
  <2>5. /\ Queued(snapshots, None, latest.snapshots)
        /\ InFront(snapshots, None) \subseteq InFront(snapshots, merge.snapshot)
    BY GoneOrder DEF Orderly, InOrder
  <2>6. InOrder' /\ Clock'
    BY <1>2, <2>1, <2>5 DEF Orderly, InOrder, Clock
  <2>7. NoneLost'
    BY <1>2, <2>1, <2>4, <2>5 DEF Orderly, NoneLost
  <2>8. StopWaitsForAccepted'
    BY <1>2 DEF Orderly, StopWaitsForAccepted, Kept
  <2> QED  BY <2>4, <2>6, <2>7, <2>8 DEF Orderly, UpToDate, StartIsPast
<1> QED  BY <1>6, <1>7


\* An item is handed out.  Whatever it is and whatever fails: a snapshot goes into the file or
\* ends the recording, a stop is older than all that waits, a start begins with what waits.
LEMMA MergeOrderly ==
  ASSUME StampModulus > MaxTime, IInv, CoreBracketed, Orderly, MergeItem
  PROVE  Orderly'
<1>1. PICK i : i = Earliest(merge)
  OBVIOUS
<1>2. /\ Pending(merge) # {} /\ pc = "merge" /\ ~MustWait(merge, i, nowUs)
      /\ core' \in Outcomes(i) /\ Fill(Emit(merge, i))
      /\ accepted' = IF i.kind = "LogStart" /\ ~Logging(core) /\ Logging(core')
                     THEN Waiting ELSE accepted
      /\ UNCHANGED <<now, latest, nowUs>>
  BY <1>1 DEF MergeItem, sources
<1>3. /\ merge \in Merges /\ core \in Cores /\ TypeOK
      /\ Logging(core) => ~Ended(core.file)
  BY DEF IInv, TypeOK, CoreBracketed, Bracketed
<1>4. /\ i \in Items
      /\ i.kind = "Snapshot" => merge.snapshot # None /\ i = merge.snapshot
  BY <1>1, <1>2, <1>3, EarliestFirst
<1>5. PICK m : m = Emit(merge, i)
  OBVIOUS
<1>6. /\ m \in Merges
      /\ m.start = IF i.kind = "LogStart" THEN i.at ELSE merge.start
      /\ m.snapshot = IF i.kind = "Snapshot" THEN None ELSE merge.snapshot
  BY <1>3, <1>4, <1>5, EmitKeeps, EmitMoves
<1>7. latest.snapshots <= now /\ Queued(snapshots, merge.snapshot, latest.snapshots)
  BY DEF Orderly, InOrder
<1>8. /\ Queued(snapshots, m.snapshot, latest.snapshots)
      /\ InFront(snapshots, m.snapshot) \subseteq InFront(snapshots, merge.snapshot)
      /\ \A t \in InFront(snapshots, merge.snapshot) :
           \/ t \in InFront(snapshots, m.snapshot)
           \/ i.kind = "Snapshot" /\ t = i.at
  <2>1. CASE i.kind = "Snapshot"
    BY <1>4, <1>6, <1>7, <2>1, GoneOrder
  <2>2. CASE i.kind # "Snapshot"
    BY <1>6, <1>7, <2>2
  <2> QED  BY <2>1, <2>2
<1>9. /\ Queued(snapshots', merge'.snapshot, latest.snapshots)
      /\ InFront(snapshots', merge'.snapshot) = InFront(snapshots, m.snapshot)
      /\ merge'.snapshot = None => snapshots' = <<>>
      /\ merge'.start = m.start
  BY <1>2, <1>3, <1>5, <1>6, <1>8, FillFront
<1>10. PICK opens \in BOOLEAN, ok \in 0 .. 2, why \in Failures :
         core' = IF i.kind \in CommandKinds THEN Handle(core, i, opens, ok, why)
                 ELSE Accept(core, i, ok, why)
  BY <1>2 DEF Outcomes
<1>11. /\ ~Logging(core) /\ i.kind = "LogStart" =>
            \/ core'.file = core.file /\ core'.startedAt = core.startedAt /\ ~Logging(core')
            \/ ~Ended(core'.file) /\ core'.startedAt = i.at
       /\ ~Logging(core) /\ i.kind # "LogStart" => core' = core
       /\ Logging(core) =>
            /\ core'.startedAt = core.startedAt
            /\ \A x : Has(core.file, x) => Has(core'.file, x)
            /\ Ended(core'.file) => /\ i.kind = "LogStop" /\ ~Logging(core')
                                    /\ Last(core'.file).at = i.at
            /\ Logging(core') /\ i.kind = "Snapshot" => Has(core'.file, Rec("Snapshot", i.at))
  <2>1. ok \in Nat /\ core' = Outcome(core, i, opens, ok, why)
    BY <1>10 DEF Outcome
  <2>2. Becomes(core, i, Outcome(core, i, opens, ok, why))
    BY <1>3, <1>4, <2>1, CoreOutcome
  <2> QED  BY <2>1, <2>2 DEF Becomes
<1>12. InOrder' /\ Clock' /\ UpToDate'
  <2>1. InOrder' /\ UpToDate'
    BY <1>2, <1>7, <1>9 DEF InOrder, UpToDate
  <2>2. Clock'
    BY <1>2 DEF Orderly, Clock
  <2> QED  BY <2>1, <2>2
<1>13. CASE ~Logging(core)
  <2>1. CASE /\ core'.file = core.file /\ core'.startedAt = core.startedAt /\ ~Logging(core')
             /\ accepted' = accepted
    <3>1. NoneLost' /\ StartIsPast'
      BY <2>1 DEF Orderly, NoneLost, StartIsPast, Clean
    <3>2. StopWaitsForAccepted'
      BY <2>1 DEF Orderly, StopWaitsForAccepted, Kept
    <3> QED  BY <1>12, <3>1, <3>2 DEF Orderly
  <2>2. CASE i.kind = "LogStart" /\ ~Ended(core'.file) /\ core'.startedAt = i.at
    <3>1. merge'.start = core'.startedAt
      BY <1>6, <1>9, <2>2
    <3>2. StartIsPast' /\ StopWaitsForAccepted'
      BY <2>2, <3>1 DEF StartIsPast, StopWaitsForAccepted
    <3>3. NoneLost'
      <4>1. accepted \subseteq 0 .. MaxTime /\ InFront(snapshots, merge.snapshot) \subseteq 0 .. MaxTime
        BY <1>3, FrontTimes DEF Orderly, NoneLost
      <4>2. Logging(core') => accepted' = InFront(snapshots, merge.snapshot)
        BY <1>2, <1>13, <2>2 DEF Waiting, InFront
      <4>3. InFront(snapshots', merge'.snapshot) = InFront(snapshots, merge.snapshot)
        BY <1>6, <1>9, <2>2
      <4>4. accepted' \subseteq 0 .. MaxTime
        BY <1>2, <1>13, <2>2, <4>1, <4>2
      <4> QED  BY <4>2, <4>3, <4>4 DEF NoneLost, Clean
    <3> QED  BY <1>12, <3>2, <3>3 DEF Orderly
  <2> QED  BY <1>2, <1>11, <1>13, <2>1, <2>2
<1>14. CASE Logging(core)
  <2>2. accepted' = accepted /\ core'.startedAt = core.startedAt /\ (Clean' => Clean)
    BY <1>2, <1>11, <1>14 DEF Clean
  <2>3. Clean => /\ i.at + Late <= now
                 /\ \A t \in InFront(snapshots, merge.snapshot) :
                      i.at <= t /\ (i.kind = "LogStop" => i.at < t)
    BY <1>1, <1>2, HandedFirst
  <2>4. StartIsPast'
    <3>1. CASE i.kind = "LogStart"
      BY <1>2, <1>6, <1>8, <1>9, <2>2, <2>3, <3>1 DEF StartIsPast
    <3>2. CASE i.kind # "LogStart"
      BY <1>2, <1>6, <1>8, <1>9, <2>2, <3>2 DEF Orderly, StartIsPast
    <3> QED  BY <3>1, <3>2
  <2>5. \A t : Kept(t) => Kept(t)'
    BY <1>11, <1>14 DEF Kept, Has
  <2>6. NoneLost'
    <3>1. Logging(core') => InFront(snapshots', merge'.snapshot) \subseteq accepted'
      BY <1>8, <1>9, <1>14, <2>2 DEF Orderly, NoneLost
    <3>2. ASSUME Clean', NEW t \in accepted
          PROVE  Kept(t)' \/ t \in InFront(snapshots', merge'.snapshot)
      <4>1. Kept(t) \/ t \in InFront(snapshots, merge.snapshot)
        BY <2>2, <3>2 DEF Orderly, NoneLost
      <4>2. CASE i.kind = "Snapshot" /\ t = i.at
        <5>1. t % StampModulus = t
          BY NoWrap DEF Orderly, NoneLost
        <5>2. Has(core'.file, Rec("Snapshot", i.at))
          BY <1>11, <1>14, <3>2, <4>2 DEF Clean
        <5> QED  BY <4>2, <5>1, <5>2 DEF Kept, Has
      <4> QED  BY <1>8, <1>9, <2>5, <4>1, <4>2
    <3> QED  BY <2>2, <3>1, <3>2 DEF Orderly, NoneLost
  <2>7. StopWaitsForAccepted'
    <3>1. ASSUME Ended(core'.file), \A t \in accepted' : core'.startedAt <= t,
                 NEW t \in accepted', t <= Last(core'.file).at
          PROVE  Kept(t)'
      <4>1. i.kind = "LogStop" /\ t <= i.at /\ Clean /\ t \in accepted
        BY <1>11, <1>14, <2>2, <3>1 DEF Clean
      <4>2. t \notin InFront(snapshots, merge.snapshot)
        <5>1. t \in Nat /\ i.at \in Nat
          <6>1. \A x \in Items : x.at \in Nat
            BY Bounds DEF Items, SnapshotItems, ImuItems, CommandItems
          <6>2. t \in 0 .. MaxTime
            BY <4>1 DEF Orderly, NoneLost
          <6> QED  BY <1>4, <6>1, <6>2, Bounds
        <5> QED  BY <2>3, <4>1, <5>1
      <4> QED  BY <2>5, <4>1, <4>2 DEF Orderly, NoneLost
    <3> QED  BY <3>1 DEF StopWaitsForAccepted
  <2> QED  BY <1>12, <2>4, <2>6, <2>7 DEF Orderly
<1> QED  BY <1>13, <1>14

LEMMA OrderlyStep ==
  ASSUME StampModulus > MaxTime, IInv, CoreBracketed, Orderly, [Next]_vars
  PROVE  Orderly'
<1>1. TypeOK /\ now \in Nat /\ core \in Cores
  BY Bounds DEF IInv, TypeOK
<1>2. CASE Tick \/ PushImu \/ Command \/ Enqueue \/ UNCHANGED vars
  <2>1. latest'.snapshots = latest.snapshots
    <3>1. latest' = latest \/ \E t : latest' = [latest EXCEPT !.imu = t]
      BY <1>2 DEF Tick, PushImu, Command, Enqueue, vars, sources
    <3> QED  BY <1>1, <3>1 DEF TypeOK
  <2>2. /\ UNCHANGED <<snapshots, merge, core, pc, nowUs, accepted>>
        /\ now' = now \/ now' = now + 1
    BY <1>2 DEF Tick, PushImu, Command, Enqueue, vars, sources, queues
  <2> QED  BY <1>1, <2>1, <2>2, QuietOrderly
<1>3. CASE ReceiveCommand
  <2>1. /\ merge' = merge \/ \E c : merge' = [merge EXCEPT !.command = c]
        /\ pc = "receive" /\ UNCHANGED <<now, latest, snapshots, core, nowUs, accepted>>
    BY <1>3 DEF ReceiveCommand, Offer, sources
  <2>2. UNCHANGED <<merge.snapshot, merge.start>>
    BY <1>1, <2>1 DEF TypeOK, Merges
  <2> QED  BY <1>1, <2>1, <2>2, QuietOrderly
<1>4. CASE EndPoll
  <2>1. core' = core \/ core' = [core EXCEPT !.error = "SnapshotQueueFull"]
    BY <1>4 DEF EndPoll, NoteDrops
  <2>2. UNCHANGED <<core.file, core.startedAt>> /\ (Logging(core') => Logging(core))
    BY <1>1, <2>1 DEF Cores, Logging
  <2>3. UNCHANGED <<now, latest, snapshots, merge, accepted>> /\ pc' = "idle"
    BY <1>4 DEF EndPoll, sources, queues
  <2> QED  BY <1>1, <2>2, <2>3, QuietOrderly
<1>5. CASE SendSnapshot
  BY <1>5, SendOrderly
<1>6. CASE BeginPoll \/ DiscardItem \/ MergeItem
  BY <1>6, BeginOrderly, DiscardOrderly, MergeOrderly
<1> QED  BY <1>2, <1>3, <1>4, <1>5, <1>6 DEF Next, SourceStep, LoggerStep

\* While the clock of the stamps does not wrap, a stopped file holds every
\* snapshot the queue took that is not younger than its stop, if none was older
\* than its start: the holdback of LoggerTimeMerge::pop is longer than any stamp
\* is late, so the stop waits for them, whatever is written, fails or is dropped.
\* The hypothesis is needed: the property fails when micros() wraps.
THEOREM StopsWait ==
  ASSUME StampModulus > MaxTime
  PROVE  Spec => []StopWaitsForAccepted
<1>1. Orderly => StopWaitsForAccepted
  BY DEF Orderly
<1>2. Spec => []CoreBracketed
  BY Invariance, CoreStarts, CoreStep, PTL DEF Spec
<1>3. IInv /\ CoreBracketed /\ Orderly /\ [Next]_vars => Orderly'
  BY OrderlyStep
<1> QED  BY OrderlyStart, Invariance, <1>1, <1>2, <1>3, PTL DEF Spec

=============================================================================
