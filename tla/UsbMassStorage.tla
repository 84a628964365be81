--------------------------- MODULE UsbMassStorage ---------------------------
(***************************************************************************)
(* Bulk-only mass storage of the USB host: one application task runs block *)
(* operations as sequences of SCSI commands, each a command wrapper, an   *)
(* optional data phase and a status wrapper, against a device that may    *)
(* stall, be late, or still hold the status of an earlier command.        *)
(***************************************************************************)
EXTENDS Naturals, Sequences, FiniteSets, TLC

CONSTANTS
    Luns,           \* logical units; 0 is one of them
    Paths,          \* base paths a volume may be mounted under
    MaxMounts,      \* the entries of mscFatMounts
    MaxBlockChunks, \* bound on the 4096 byte chunks of a block operation
    MaxTags         \* bound on commands sent

VARIABLES
    mounts,     \* mscFatMounts: path of a mounted volume -> its unit
    lun,        \* mscLun
    maxLunKnown,    \* hasMscMaxLun
    sized,      \* mscBlockSize of the selected unit is known
    syncOff,    \* mscSyncCacheUnsupported
    plan,       \* commands the running operation has still to send
    target,     \* the path and unit the operation works for
    cmd,        \* the command under way
    nextTag,    \* mscTag
    halted,     \* bulk pipes the host controller has halted
    device,     \* external: commands accepted, status wrappers waiting
    served,     \* history: commands the device has carried out
    credited,   \* history: commands mscCommand reported successful
    control     \* a control transfer: none, held, or freed before its callback

mscVars == <<mounts, lun, maxLunKnown, sized, syncOff, plan, target, cmd, nextTag,
             halted, device, served, credited, control>>

Pipes == {"in", "out"}
NoCommand == [kind |-> "none", tag |-> 0, stage |-> "idle"]

MscInit ==
    /\ mounts = <<>>
    /\ lun = 0 /\ maxLunKnown = FALSE /\ sized = FALSE /\ syncOff = FALSE
    /\ plan = <<>> /\ target = [path |-> "", lun |-> 0] /\ cmd = NoCommand /\ nextTag = 1
    /\ halted = {}
    /\ device = [queue |-> <<>>, status |-> <<>>]
    /\ served = {} /\ credited = {} /\ control = "none"

Idle == cmd = NoCommand /\ plan = <<>> /\ control # "held"

-----------------------------------------------------------------------------
(* Operations: the commands each one sends, given that those before it *)
(* succeed.  A unit that was just selected has to be sized first.      *)

CapacityPlan == <<"test", "capacity">>
SizePlan(l) == IF sized /\ l = lun THEN <<>> ELSE CapacityPlan
BlocksPlan(n) == [k \in 1..n |-> "blocks"]

\* mscSelectLun: another unit forgets the size of the last one.
SelectLun(l) ==
    /\ lun' = l
    /\ sized' = (sized /\ l = lun)

Run(p, l, commands) == plan' = commands /\ target' = [path |-> p, lun |-> l]

\* mscFatDiskRead and mscFatDiskWrite through a mounted volume; the selection
\* fails, and is ignored, when the number of units is not known.
Blocks(p, n) ==
    /\ Idle /\ p \in DOMAIN mounts
    /\ IF maxLunKnown THEN SelectLun(mounts[p]) ELSE UNCHANGED <<lun, sized>>
    /\ Run(p, mounts[p], SizePlan(IF maxLunKnown THEN mounts[p] ELSE lun) \o BlocksPlan(n))
    /\ UNCHANGED <<mounts, maxLunKnown, syncOff, cmd, nextTag, halted, device,
                   served, credited, control>>

\* CTRL_SYNC.
Synchronize(p) ==
    /\ Idle /\ p \in DOMAIN mounts /\ ~syncOff
    /\ Run(p, mounts[p], <<"sync">>)
    /\ UNCHANGED <<mounts, lun, maxLunKnown, sized, syncOff, cmd, nextTag, halted,
                   device, served, credited, control>>

\* mscMount: wait for the unit, select it, size it, take a free entry.
Mount(p, l) ==
    /\ Idle /\ maxLunKnown
    /\ p \notin DOMAIN mounts
    /\ Cardinality(DOMAIN mounts) < MaxMounts
    /\ SelectLun(l)
    /\ Run(p, l, <<"test">> \o SizePlan(l) \o <<"mount">>)
    /\ UNCHANGED <<mounts, maxLunKnown, syncOff, cmd, nextTag, halted, device,
                   served, credited, control>>

\* The file system is mounted, or the entry is given back.
FinishMount ==
    /\ cmd = NoCommand /\ plan = <<"mount">>
    /\ plan' = <<>>
    /\ mounts' \in {mounts, mounts @@ (target.path :> target.lun)}
    /\ UNCHANGED <<lun, maxLunKnown, sized, syncOff, target, cmd, nextTag, halted,
                   device, served, credited, control>>

\* The cache is written out unless that is skipped; the volume goes either way.
Unmount(p) ==
    /\ Idle /\ p \in DOMAIN mounts
    /\ \E skip \in BOOLEAN : Run(p, mounts[p], IF skip \/ syncOff
                                                THEN <<"unmount">>
                                                ELSE <<"sync", "unmount">>)
    /\ UNCHANGED <<mounts, lun, maxLunKnown, sized, syncOff, cmd, nextTag, halted,
                   device, served, credited, control>>

FinishUnmount ==
    /\ cmd = NoCommand /\ plan = <<"unmount">>
    /\ plan' = <<>>
    /\ mounts' = [q \in DOMAIN mounts \ {target.path} |-> mounts[q]]
    /\ UNCHANGED <<lun, maxLunKnown, sized, syncOff, target, cmd, nextTag, halted,
                   device, served, credited, control>>

-----------------------------------------------------------------------------
(* mscMaxLun: a control transfer with a time limit. *)

AskMaxLun ==
    /\ Idle /\ ~maxLunKnown /\ control = "none"
    /\ control' = "held"
    /\ UNCHANGED <<mounts, lun, maxLunKnown, sized, syncOff, plan, target, cmd,
                   nextTag, halted, device, served, credited>>

\* The answer, or a failure that is taken for unit 0.
MaxLunAnswered ==
    /\ control = "held"
    /\ maxLunKnown' = TRUE /\ control' = "none"
    /\ UNCHANGED <<mounts, lun, sized, syncOff, plan, target, cmd, nextTag, halted,
                   device, served, credited>>

\* The time limit: the transfer is freed though the driver still holds it.
MaxLunTimesOut ==
    /\ control = "held"
    /\ control' = "freed"
    /\ UNCHANGED <<mounts, lun, maxLunKnown, sized, syncOff, plan, target, cmd,
                   nextTag, halted, device, served, credited>>

LateCallback ==
    /\ control = "freed"
    /\ control' = "none"
    /\ UNCHANGED <<mounts, lun, maxLunKnown, sized, syncOff, plan, target, cmd,
                   nextTag, halted, device, served, credited>>

-----------------------------------------------------------------------------
(* mscCommand *)

settings == <<mounts, lun, maxLunKnown, target, control>>

BeginCommand ==
    /\ cmd = NoCommand /\ plan # <<>> /\ Head(plan) \notin {"mount", "unmount"} /\ nextTag <= MaxTags
    /\ cmd' = [kind |-> Head(plan), tag |-> nextTag, stage |-> "cbw"]
    /\ nextTag' = nextTag + 1
    /\ UNCHANGED <<plan, halted, device, served, credited, sized, syncOff, settings>>

\* submitAndWait on a bulk pipe.  A halted pipe is recovered first, a transfer
\* that is late is flushed and its callback awaited before anything is freed.
Transfer(pipe, outcome) ==
    CASE outcome = "done"    -> halted' = halted \ {pipe}
      [] outcome = "stalled" -> halted' = halted \cup {pipe}
      [] outcome = "late"    -> halted' = halted \ {pipe}
      [] outcome = "refused" -> pipe \in halted /\ UNCHANGED halted

Failures == {"stalled", "late", "refused"}
HasData == cmd.kind \in {"capacity", "blocks", "sense"}
Goto(stage) == cmd' = [cmd EXCEPT !.stage = stage]

SendCbw ==
    /\ cmd.stage = "cbw"
    /\ \E outcome \in Failures \cup {"done"}, taken \in BOOLEAN :
          /\ Transfer("out", outcome)
          /\ outcome = "done" => taken
          /\ outcome \in {"stalled", "refused"} => ~taken
          /\ device' = IF taken THEN [device EXCEPT !.queue = Append(@, cmd.tag)]
                       ELSE device
          /\ Goto(IF outcome # "done" THEN "recover" ELSE IF HasData THEN "data" ELSE "csw")
    /\ UNCHANGED <<plan, nextTag, served, credited, sized, syncOff, settings>>

DataPhase ==
    /\ cmd.stage = "data"
    /\ \E pipe \in (IF cmd.kind = "blocks" THEN Pipes ELSE {"in"}),
          outcome \in Failures \cup {"done"} :
             /\ Transfer(pipe, outcome)
             /\ Goto(IF outcome = "done" THEN "csw" ELSE "recover")
    /\ UNCHANGED <<plan, nextTag, device, served, credited, sized, syncOff,
                   settings>>

\* What a status wrapper says of this command.
AnyStatus(csw) == TRUE      \* mutant: the tag is not compared
OwnStatus(csw) == csw.tag = cmd.tag

Judge(csw) ==
    IF ~OwnStatus(csw) THEN "recover"
    ELSE IF csw.passed THEN "passed"
    ELSE IF cmd.kind \in {"sense", "sync"} THEN "failed"
    ELSE "sense"

\* A status read that fails is repeated once, after clearing the IN pipe.
ReadCsw ==
    /\ cmd.stage \in {"csw", "again"}
    /\ \/ /\ device.status # <<>>
          /\ Transfer("in", "done")
          /\ device' = [device EXCEPT !.status = Tail(@)]
          /\ Goto(Judge(Head(device.status)))
       \/ \E outcome \in Failures, cleared \in BOOLEAN :
             /\ Transfer("in", outcome)
             /\ UNCHANGED device
             /\ Goto(IF cmd.stage = "csw" /\ cleared THEN "again" ELSE "recover")
    /\ UNCHANGED <<plan, nextTag, served, credited, sized, syncOff, settings>>

\* mscResetRecovery, or for the cache command only both halts cleared; either
\* may fail half way.
ResetRecovery ==
    /\ cmd.stage = "recover"
    /\ \E reset \in BOOLEAN, cleared \in SUBSET halted :
          /\ device' = IF reset /\ cmd.kind # "sync"
                       THEN [queue |-> <<>>, status |-> <<>>] ELSE device
          /\ halted' = IF reset \/ cmd.kind = "sync" THEN halted \ cleared ELSE halted
    /\ Goto("failed")
    /\ UNCHANGED <<plan, nextTag, served, credited, sized, syncOff, settings>>

Passed ==
    /\ cmd.stage = "passed"
    /\ credited' = credited \cup {cmd.tag}
    /\ cmd' = NoCommand /\ plan' = Tail(plan)
    /\ sized' = (sized \/ cmd.kind = "capacity")
    /\ UNCHANGED <<nextTag, halted, device, served, syncOff, settings>>

\* A failed command ends its operation; with status "failed" the sense data is
\* asked for first.  A unit that is not ready is asked again or given up.
Failed ==
    /\ cmd.stage \in {"failed", "sense"}
    /\ cmd' = NoCommand
    /\ plan' \in IF cmd.kind = "sync" THEN {Tail(plan)}
                 ELSE IF cmd.kind = "test" THEN {<<"sense">>, <<"sense">> \o plan}
                 ELSE IF cmd.stage = "sense" THEN {<<"sense">>} ELSE {<<>>}
    /\ syncOff' = (syncOff \/ cmd.kind = "sync")
    /\ UNCHANGED <<nextTag, halted, device, served, credited, sized, settings>>

-----------------------------------------------------------------------------
(* External: the device carries out the commands it took, in order. *)

DeviceServes(passed) ==
    /\ device.queue # <<>>
    /\ device' = [queue |-> Tail(device.queue),
                  status |-> Append(device.status,
                                    [tag |-> Head(device.queue), passed |-> passed])]
    /\ served' = IF passed THEN served \cup {Head(device.queue)} ELSE served
    /\ UNCHANGED <<plan, cmd, nextTag, halted, credited, sized, syncOff, settings>>

MscNext ==
    \/ \E p \in Paths : \/ \E n \in 1..MaxBlockChunks : Blocks(p, n)
                        \/ \E l \in Luns : Mount(p, l)
                        \/ Synchronize(p) \/ Unmount(p)
    \/ FinishMount \/ FinishUnmount
    \/ AskMaxLun \/ MaxLunAnswered \/ MaxLunTimesOut \/ LateCallback
    \/ BeginCommand \/ SendCbw \/ DataPhase \/ ReadCsw \/ ResetRecovery
    \/ Passed \/ Failed
    \/ \E passed \in BOOLEAN : DeviceServes(passed)

MscSpec == MscInit /\ [][MscNext]_mscVars

-----------------------------------------------------------------------------
\* mscCommand reports success only for a command the device carried out, even
\* when the status of an earlier one, given up on, is still waiting.
CreditedIsServed == credited \subseteq served

\* "A submitted control transfer cannot be freed until its callback returns"
\* (mscClearEndpointHalt).
FreedOnlyWhenReturned == control # "freed"
=============================================================================
