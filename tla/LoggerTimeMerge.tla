--------------------------- MODULE LoggerTimeMerge ---------------------------
(***************************************************************************)
(* The merge of snapshots, IMU samples and commands by their timestamps    *)
(* (logger_time_merge.h), as operators on the record that stands for the   *)
(* members of LoggerTimeMerge.  At most one item of each source is         *)
(* pending.  pop() is given one iteration of its loop at a time: Earliest, *)
(* then MustWait, MustDiscard or Emit.                                     *)
(***************************************************************************)
EXTENDS Integers

CONSTANT Holdback  \* kReorderHoldbackUs, in ticks of the model's clock

ASSUME HoldbackAssumption == Holdback \in Nat

CommandKinds == {"LogStart", "LogStop", "Marker", "SprotzStart", "SprotzStop"}

\* MergeItemKind in the order of priority().
Priority == [Start |-> 0, Marker |-> 1, Snapshot |-> 2, ImuSample |-> 3,
             Stop |-> 4]

None == [kind |-> "none", at |-> 0]

\* An item as it waits: a command keeps its own kind, and the event commands
\* count as markers.
ItemKind(i) ==
  CASE i.kind = "LogStart" -> "Start"
    [] i.kind = "LogStop" -> "Stop"
    [] i.kind \in {"Marker", "SprotzStart", "SprotzStop"} -> "Marker"
    [] OTHER -> i.kind

EmptyMerge ==
  [recording |-> FALSE, start |-> 0,
   snapshot |-> None, imu |-> None, command |-> None]

\* offerSnapshot, offerImu, offerCommand
Offer(m, source, item) == [m EXCEPT ![source] = item]

Pending(m) == {m.snapshot, m.imu, m.command} \ {None}

Precedes(a, b) ==
  \/ a.at < b.at
  \/ (a.at = b.at /\ Priority[ItemKind(a)] < Priority[ItemKind(b)])

\* choose()
Earliest(m) ==
  CHOOSE a \in Pending(m) : \A b \in Pending(m) \ {a} : Precedes(a, b)

\* Mutant: no holdback.
MustWaitNoHoldback(m, i, now) == now # 0 /\ m.recording /\ i.at > now

MustWait(m, i, now) == now # 0 /\ m.recording /\ i.at + Holdback > now

MustDiscard(m, i) ==
  \/ /\ m.recording /\ m.start # 0
     /\ ItemKind(i) \notin {"Marker", "Stop"} /\ i.at < m.start
  \/ ~m.recording /\ ItemKind(i) # "Start"

\* discard()
Without(m, i) ==
  CASE i.kind = "Snapshot" -> [m EXCEPT !.snapshot = None]
    [] i.kind = "ImuSample" -> [m EXCEPT !.imu = None]
    [] OTHER -> [m EXCEPT !.command = None]

\* The last lines of pop(): the item is handed out.
Emit(m, i) ==
  CASE ItemKind(i) = "Start" ->
         [Without(m, i) EXCEPT !.recording = TRUE, !.start = i.at]
    [] ItemKind(i) = "Stop" -> [Without(m, i) EXCEPT !.recording = FALSE]
    [] OTHER -> Without(m, i)
=============================================================================
