--------------------------- MODULE UsbHost_proofs ---------------------------
(***************************************************************************)
(* Proofs about the USB host fork: the life of the host object             *)
(* (UsbHostLifecycle), the pool of bulk OUT transfers (UsbOutPool), mass   *)
(* storage (UsbMassStorage), the network function (UsbNetwork), the card   *)
(* reader (UsbCcid) and input (UsbInput).                                  *)
(***************************************************************************)
EXTENDS UsbHostLifecycle, UsbOutPool, UsbMassStorage, UsbNetwork, UsbCcid, UsbInput,
        FiniteSetTheorems, SequenceTheorems, WellFoundedInduction, TLAPS


-----------------------------------------------------------------------------
(* UsbHostLifecycle: which state says that the driver holds a transfer.    *)

SlotRecord ==
    [st : {"free", "open", "closing"}, transfer : BOOLEAN, submitted : BOOLEAN,
     recovery : BOOLEAN, resubmit : BOOLEAN, afterLed : BOOLEAN, dirty : BOOLEAN,
     pending : BOOLEAN, sent : {0, 1}]

SlotTypes ==
    /\ slot \in [Devices -> SlotRecord]
    /\ inflight \in [Devices -> BOOLEAN]
    /\ running \in BOOLEAN /\ tracking \in BOOLEAN /\ want \in {0, 1}

\* Only an open device has a transfer, and only of a device that has one is it
\* submitted, recovered or resubmitted.
Sound(s) ==
    /\ s.transfer => s.st = "open"
    /\ s.submitted \/ s.recovery \/ s.resubmit \/ s.afterLed => s.transfer

SlotsSound ==
    \A d \in Devices :
        /\ Sound(slot[d])
        /\ slot[d].transfer => d \notin Hubs
        /\ inflight[d] => slot[d].submitted

NothingSubmittedAtRelease ==
    clientTask = "release" => \A d \in Devices : ~slot[d].submitted

SlotInv == SlotTypes /\ SlotsSound /\ NothingSubmittedAtRelease

-----------------------------------------------------------------------------
\* The records a slot is set to are slots, and sound.
LEMMA NewSlots ==
  /\ Free \in SlotRecord /\ Sound(Free) /\ ~Free.transfer /\ ~Free.submitted
  /\ Released \in SlotRecord /\ Sound(Released)
  /\ ~Released.transfer /\ ~Released.submitted
  BY DEF Free, Released, SlotRecord, Sound

\* A device is opened with nothing submitted; only a keyboard gets a transfer.
LEMMA OpenedSlot ==
  ASSUME NEW d, NEW claimed \in BOOLEAN, NEW submits \in BOOLEAN, want \in {0, 1}
  PROVE  /\ Opened(d, claimed, submits) \in SlotRecord /\ Sound(Opened(d, claimed, submits))
         /\ ~Opened(d, claimed, submits).submitted
         /\ Opened(d, claimed, submits).transfer => d \in Keyboards
  BY DEF Opened, Free, SlotRecord, Sound

\* A transfer that comes back stays the device's.
LEMMA TransferBack ==
  ASSUME NEW s \in SlotRecord, Sound(s), s.transfer, running \in BOOLEAN,
         NEW status \in Statuses, NEW press \in BOOLEAN
  PROVE  /\ AfterTransfer(s, status, press) \in SlotRecord
         /\ Sound(AfterTransfer(s, status, press))
         /\ AfterTransfer(s, status, press).transfer
         /\ ~AfterTransfer(s, status, press).submitted
<1> DEFINE t == [s EXCEPT !.submitted = FALSE, !.dirty = s.dirty \/ press]
<1>1. t \in SlotRecord /\ Sound(t) /\ t.transfer /\ ~t.submitted
  BY DEF SlotRecord, Sound
<1>2. AfterTransfer(s, status, press) \in {t, [t EXCEPT !.recovery = TRUE], [t EXCEPT !.afterLed = TRUE],
                                           [t EXCEPT !.resubmit = TRUE]}
  BY DEF AfterTransfer
<1> HIDE DEF t
<1>3. CASE AfterTransfer(s, status, press) = t
  BY <1>1, <1>3
<1>4. CASE AfterTransfer(s, status, press) = [t EXCEPT !.recovery = TRUE]
  BY <1>1, <1>4 DEF SlotRecord, Sound
<1>5. CASE AfterTransfer(s, status, press) = [t EXCEPT !.afterLed = TRUE]
  BY <1>1, <1>5 DEF SlotRecord, Sound
<1>6. CASE AfterTransfer(s, status, press) = [t EXCEPT !.resubmit = TRUE]
  BY <1>1, <1>6 DEF SlotRecord, Sound
<1> QED
  BY <1>2, <1>3, <1>4, <1>5, <1>6

\* What follows the events keeps every transfer and forgets no submit.
SameTransfer(s, t) ==
    /\ t \in SlotRecord /\ Sound(t)
    /\ t.transfer = s.transfer
    /\ s.submitted => t.submitted

LEMMA LoopStages ==
  ASSUME NEW s \in SlotRecord, Sound(s), NEW o \in Outcomes,
         running \in BOOLEAN, want \in {0, 1}
  PROVE  /\ SameTransfer(s, Finalize(s, o))
         /\ SameTransfer(s, SendLeds(s, o))
         /\ SameTransfer(s, Recover(s, o))
         /\ SameTransfer(s, Resubmit(s, o))
         /\ SameTransfer(s, ResubmitAfterLed(s, o))
<1>1. SameTransfer(s, Finalize(s, o))
  BY NewSlots DEF Finalize, SameTransfer, SlotRecord, Sound, Outcomes
<1>2. SameTransfer(s, SendLeds(s, o))
  <2>1. CASE SendLeds(s, o) = s
    BY <2>1 DEF SameTransfer
  <2>2. CASE SendLeds(s, o) # s
    <3>1. PICK ledSent \in BOOLEAN, wasSent \in {0, 1} :
               SendLeds(s, o) = [s EXCEPT !.dirty = FALSE, !.pending = ledSent, !.sent = wasSent]
      BY <2>2 DEF SendLeds, SlotRecord, Outcomes
    <3>2. SendLeds(s, o) \in SlotRecord
      BY <3>1 DEF SlotRecord
    <3> QED
      BY <3>1, <3>2 DEF SameTransfer, Sound, SlotRecord
  <2> QED
    BY <2>1, <2>2
<1>3. SameTransfer(s, Recover(s, o))
  BY DEF Recover, SameTransfer, SlotRecord, Sound, Outcomes
<1>4. SameTransfer(s, Resubmit(s, o))
  BY DEF Resubmit, Submit, SameTransfer, SlotRecord, Sound, Outcomes
<1>5. SameTransfer(s, ResubmitAfterLed(s, o))
  BY DEF ResubmitAfterLed, Submit, SameTransfer, SlotRecord, Sound, Outcomes
<1> QED
  BY <1>1, <1>2, <1>3, <1>4, <1>5

LEMMA LoopKeepsTransfer ==
  ASSUME NEW s \in SlotRecord, Sound(s), NEW o \in Outcomes,
         running \in BOOLEAN, want \in {0, 1}
  PROVE  SameTransfer(s, AfterEvents(s, o))
<1> DEFINE a == Finalize(s, o)
           b == SendLeds(a, o)
           c == Recover(b, o)
           e == Resubmit(c, o)
           f == ResubmitAfterLed(e, o)
<1>1. SameTransfer(s, a)
  BY LoopStages
<1> HIDE DEF a
<1>2. SameTransfer(a, b)
  BY <1>1, LoopStages DEF SameTransfer
<1> HIDE DEF b
<1>3. SameTransfer(b, c)
  BY <1>2, LoopStages DEF SameTransfer
<1> HIDE DEF c
<1>4. SameTransfer(c, e)
  BY <1>3, LoopStages DEF SameTransfer
<1> HIDE DEF e
<1>5. SameTransfer(e, f)
  BY <1>4, LoopStages DEF SameTransfer
<1> HIDE DEF f
<1>6. f = AfterEvents(s, o)
  BY DEF AfterEvents, a, b, c, e, f
<1> QED
  BY <1>1, <1>2, <1>3, <1>4, <1>5, <1>6 DEF SameTransfer

\* A step that changes one slot keeps the invariant when the slot stays sound and a
\* transfer in flight stays submitted.
LEMMA OneSlotChanges ==
  ASSUME SlotInv, NEW d \in Devices, NEW s \in SlotRecord, Sound(s),
         slot' = [slot EXCEPT ![d] = s], s.transfer => d \notin Hubs,
         inflight' \in [Devices -> BOOLEAN], inflight'[d] => s.submitted,
         \A e \in Devices \ {d} : inflight'[e] => inflight[e],
         s.submitted => slot[d].submitted,
         UNCHANGED <<running, tracking, clientTask>>, want' \in {0, 1}
  PROVE  SlotInv'
<1>1. slot' \in [Devices -> SlotRecord] /\ slot'[d] = s
      /\ \A e \in Devices \ {d} : slot'[e] = slot[e]
  BY DEF SlotInv, SlotTypes
<1>2. SlotsSound'
  BY <1>1 DEF SlotInv, SlotsSound
<1>3. NothingSubmittedAtRelease'
  BY <1>1 DEF SlotInv, NothingSubmittedAtRelease
<1> QED
  BY <1>1, <1>2, <1>3 DEF SlotInv, SlotTypes

-----------------------------------------------------------------------------
LEMMA SlotInitially == LifecycleInit => SlotInv
  BY NewSlots DEF LifecycleInit, SlotInv, SlotTypes, SlotsSound, NothingSubmittedAtRelease

\* The application: an LED report is submitted and noted, hubs are let go.
LEMMA SlotUser ==
  ASSUME SlotInv, User
  PROVE  SlotInv'
<1> USE DEF SlotInv
<1>1. CASE Begin \/ BeginReturns \/ End \/ EndReturns
  BY <1>1 DEF Begin, BeginReturns, End, EndReturns, SlotTypes, SlotsSound,
              NothingSubmittedAtRelease, world
<1>2. CASE SetHubTracking
  <2>1. /\ UNCHANGED <<inflight, running, want, clientTask>>
        /\ tracking' \in BOOLEAN
    BY <1>2 DEF SetHubTracking, tasks, SlotTypes
  <2>2. slot' \in [Devices -> SlotRecord]
    BY <1>2, NewSlots DEF SetHubTracking, SlotTypes
  <2>3. \A d \in Devices : slot'[d] = slot[d] \/ (d \in Hubs /\ slot'[d] = Free)
    <3>1. slot' = [d \in Devices |-> IF tracking /\ d \in Hubs /\ slot[d].st = "open"
                                    THEN Free ELSE slot[d]]
      BY <1>2 DEF SetHubTracking
    <3> QED
      BY <3>1
  <2>4. SlotsSound'
    BY <2>1, <2>3, NewSlots DEF SlotsSound, Sound
  <2> QED
    BY <2>1, <2>2, <2>3, <2>4, NewSlots DEF SlotTypes, NothingSubmittedAtRelease
<1>3. ASSUME NEW d \in Devices, SubmitLeds(d)
      PROVE  SlotInv'
  BY <1>3 DEF SubmitLeds, SlotTypes, SlotsSound, NothingSubmittedAtRelease
<1>4. ASSUME NEW d \in Devices, MarkLeds(d)
      PROVE  SlotInv'
  <2> DEFINE s == [slot[d] EXCEPT !.pending = TRUE, !.sent = want]
  <2>1. /\ slot' = [slot EXCEPT ![d] = s]
        /\ UNCHANGED <<inflight, running, tracking, want, clientTask>>
    BY <1>4 DEF MarkLeds, SlotTypes, SlotRecord
  <2>2. s \in SlotRecord /\ Sound(s) /\ (s.transfer => d \notin Hubs)
        /\ s.submitted = slot[d].submitted
    <3>1. slot[d] \in SlotRecord /\ Sound(slot[d]) /\ (slot[d].transfer => d \notin Hubs) /\ want \in {0, 1}
      BY DEF SlotTypes, SlotsSound
    <3>2. s \in SlotRecord
      BY <3>1 DEF SlotRecord
    <3> QED
      BY <3>1, <3>2 DEF SlotRecord, Sound
  <2> HIDE DEF s
  <2> QED
    BY <2>1, <2>2, OneSlotChanges DEF SlotTypes, SlotsSound
<1> QED
  BY <1>1, <1>2, <1>3, <1>4 DEF User

LEMMA SlotHostTask ==
  ASSUME SlotInv, HostTask
  PROVE  SlotInv'
<1> SUFFICES UNCHANGED <<slot, inflight, tracking, want>> /\ running' \in BOOLEAN
             /\ clientTask' \in {clientTask, "events"}
  BY DEF SlotInv, SlotTypes, SlotsSound, NothingSubmittedAtRelease
<1> QED
  BY DEF HostTask, Install, Register, CreateClient, Announce, Serve, Await, HostStops,
         world, SlotInv, SlotTypes

\* The callback of an LED report, as it changes the slot.
LedNoted(s, ok) ==
    [s EXCEPT !.pending = FALSE, !.dirty = s.dirty \/ (ok /\ want # s.sent)]

\* Callbacks of the client task.
LEMMA SlotEvents ==
  ASSUME SlotInv, NEW d \in Devices, Events(d) \/ ScanHostDevices(d)
  PROVE  SlotInv'
<1> USE DEF SlotInv
<1>1. CASE NewDevice(d)
  <2>1. CASE UNCHANGED slot
    BY <1>1, <2>1 DEF NewDevice, tasks, SlotTypes, SlotsSound, NothingSubmittedAtRelease
  <2>2. ASSUME NEW claimed \in BOOLEAN, NEW submits \in BOOLEAN, slot[d].st = "free",
               slot' = [slot EXCEPT ![d] = Opened(d, claimed, submits)]
        PROVE  SlotInv'
    <3>1. ~inflight[d] /\ UNCHANGED <<inflight, running, tracking, want, clientTask>>
      BY <1>1, <2>2 DEF NewDevice, tasks, SlotsSound, Sound
    <3>2. Opened(d, claimed, submits) \in SlotRecord /\ Sound(Opened(d, claimed, submits))
          /\ ~Opened(d, claimed, submits).submitted
          /\ (Opened(d, claimed, submits).transfer => d \notin Hubs)
      BY OpenedSlot, HubsAreNoKeyboards DEF SlotTypes
    <3> QED
      BY <2>2, <3>1, <3>2, OneSlotChanges DEF SlotTypes
  <2> QED
    BY <1>1, <2>1, <2>2 DEF NewDevice
<1>2. CASE HandleTransfer(d)
  <2>1. PICK status \in Statuses, press \in BOOLEAN :
             /\ slot' = [slot EXCEPT ![d] = AfterTransfer(slot[d], status, press)]
             /\ want' = IF press THEN 1 - want ELSE want
    BY <1>2 DEF HandleTransfer
  <2>2. /\ inflight[d] /\ inflight' = [inflight EXCEPT ![d] = FALSE]
        /\ UNCHANGED <<running, tracking, clientTask>>
    BY <1>2 DEF HandleTransfer, tasks
  <2>3. slot[d].transfer /\ d \notin Hubs
    BY <2>2 DEF SlotsSound, Sound
  <2>4. AfterTransfer(slot[d], status, press) \in SlotRecord
        /\ Sound(AfterTransfer(slot[d], status, press))
        /\ ~AfterTransfer(slot[d], status, press).submitted
    BY <2>3, TransferBack DEF SlotTypes, SlotsSound
  <2> HIDE DEF SlotInv
  <2>5. want' \in {0, 1}
    BY <2>1 DEF SlotTypes, SlotInv
  <2>6. inflight' \in [Devices -> BOOLEAN] /\ ~inflight'[d]
        /\ \A e \in Devices \ {d} : inflight'[e] => inflight[e]
    BY <2>2 DEF SlotTypes, SlotInv
  <2> QED
    BY <2>1, <2>2, <2>3, <2>4, <2>5, <2>6, OneSlotChanges
<1>3. CASE LedDone(d)
  <2>1. PICK ok \in BOOLEAN :
             slot' = IF ~slot[d].transfer THEN slot
                     ELSE [slot EXCEPT ![d] = LedNoted(slot[d], ok)]
    BY <1>3 DEF LedDone, SlotTypes, SlotRecord, LedNoted
  <2>2. UNCHANGED <<inflight, running, tracking, want, clientTask>>
    BY <1>3 DEF LedDone, tasks
  <2>3. CASE ~slot[d].transfer
    BY <2>1, <2>2, <2>3 DEF SlotTypes, SlotsSound, NothingSubmittedAtRelease
  <2>4. CASE slot[d].transfer
    <3> DEFINE s == LedNoted(slot[d], ok)
    <3>1. s \in SlotRecord /\ Sound(s) /\ (s.transfer => d \notin Hubs)
          /\ s.submitted = slot[d].submitted
      <4>1. slot[d] \in SlotRecord /\ Sound(slot[d]) /\ (slot[d].transfer => d \notin Hubs)
        BY DEF SlotTypes, SlotsSound
      <4>2. PICK dirty \in BOOLEAN : s = [slot[d] EXCEPT !.pending = FALSE, !.dirty = dirty]
        BY <4>1 DEF LedNoted, SlotRecord
      <4>3. s \in SlotRecord
        BY <4>1, <4>2 DEF SlotRecord
      <4> QED
        BY <4>1, <4>2, <4>3 DEF SlotRecord, Sound
    <3>2. slot' = [slot EXCEPT ![d] = s]
      BY <2>1, <2>4
    <3> HIDE DEF s
    <3> QED
      BY <2>2, <3>1, <3>2, OneSlotChanges DEF SlotTypes, SlotsSound
  <2> QED
    BY <2>3, <2>4
<1>4. CASE DeviceGone(d)
  BY <1>4, NewSlots DEF DeviceGone, tasks, SlotTypes, SlotsSound, Sound, NothingSubmittedAtRelease
<1>5. CASE ScanHostDevices(d)
  <2>1. ~inflight[d] /\ UNCHANGED <<inflight, running, tracking, want, clientTask>>
        /\ slot' = [slot EXCEPT ![d] = Opened(d, FALSE, FALSE)]
    BY <1>5 DEF ScanHostDevices, tasks, SlotsSound, Sound
  <2>2. Opened(d, FALSE, FALSE) \in SlotRecord /\ Sound(Opened(d, FALSE, FALSE))
        /\ ~Opened(d, FALSE, FALSE).submitted
        /\ (Opened(d, FALSE, FALSE).transfer => d \notin Hubs)
    BY OpenedSlot, HubsAreNoKeyboards DEF SlotTypes
  <2> QED
    BY <2>1, <2>2, OneSlotChanges DEF SlotTypes
<1> QED
  BY <1>1, <1>2, <1>3, <1>4, <1>5 DEF Events

\* Nothing is submitted without the transfer of an open device.
LEMMA SlotLoop ==
  ASSUME SlotInv, Loop
  PROVE  SlotInv'
<1>1. PICK o \in Outcomes : LoopWith(o)
  BY DEF Loop
<1>2. \A d \in Devices : SameTransfer(slot[d], AfterEvents(slot[d], o))
  BY LoopKeepsTransfer DEF SlotInv, SlotTypes, SlotsSound
<1>3. slot' \in [Devices -> SlotRecord] /\ inflight' \in [Devices -> BOOLEAN]
  BY <1>1, <1>2 DEF LoopWith, SameTransfer, SlotInv, SlotTypes, SlotRecord
<1>4. \A d \in Devices : SameTransfer(slot[d], slot'[d])
  BY <1>1, <1>2 DEF LoopWith
<1>5. \A d \in Devices : inflight'[d] => inflight[d] \/ slot'[d].submitted
  BY <1>1 DEF LoopWith
<1>6. SlotsSound'
  BY <1>4, <1>5 DEF SameTransfer, SlotInv, SlotsSound
<1>7. clientTask' # "release" /\ UNCHANGED <<running, tracking, want>>
  BY <1>1 DEF LoopWith
<1> QED
  BY <1>3, <1>6, <1>7 DEF SlotInv, SlotTypes, NothingSubmittedAtRelease

LEMMA SlotShutdown ==
  ASSUME SlotInv, DrainClientTransfers \/ ReleaseClientResources
  PROVE  SlotInv'
<1> USE DEF SlotInv
<1>1. CASE DrainClientTransfers
  BY <1>1 DEF DrainClientTransfers, ClientEnds, world, SlotTypes, SlotsSound,
              NothingSubmittedAtRelease
<1>2. CASE ReleaseClientResources
  <2>1. \A d \in Devices : ~inflight[d]
    BY <1>2 DEF ReleaseClientResources, NothingSubmittedAtRelease, SlotsSound
  <2>2. /\ slot' \in [Devices -> SlotRecord]
        /\ \A d \in Devices : Sound(slot'[d]) /\ ~slot'[d].transfer /\ ~slot'[d].submitted
    BY <1>2, NewSlots DEF ReleaseClientResources
  <2>3. UNCHANGED <<inflight, running, tracking, want>>
    BY <1>2 DEF ReleaseClientResources
  <2> QED
    BY <2>1, <2>2, <2>3 DEF SlotTypes, SlotsSound, NothingSubmittedAtRelease
<1> QED
  BY <1>1, <1>2

LEMMA SlotStep == SlotInv /\ [LifecycleNext]_lifecycleVars => SlotInv'
<1> SUFFICES ASSUME SlotInv, [LifecycleNext]_lifecycleVars
             PROVE  SlotInv'
  OBVIOUS
<1>1. ASSUME NEW d \in Devices, PlugIn(d) \/ PullOut(d)
      PROVE  SlotInv'
  BY <1>1 DEF PlugIn, PullOut, tasks, SlotInv, SlotTypes, SlotsSound, NothingSubmittedAtRelease
<1>2. CASE UNCHANGED lifecycleVars
  BY <1>2 DEF lifecycleVars, SlotInv, SlotTypes, SlotsSound, NothingSubmittedAtRelease
<1> QED
  BY <1>1, <1>2, SlotUser, SlotHostTask, SlotEvents, SlotLoop, SlotShutdown
  DEF LifecycleNext, ClientTask

(* No transfer is freed while the driver holds it (releaseEndpoints,       *)
(* releaseClientResources): whatever is in flight is submitted, what is    *)
(* submitted belongs to an open device that is no hub, and the client is   *)
(* released only when nothing is submitted any more.                       *)
THEOREM InFlightIsKept == LifecycleSpec => []InFlightNeverFreed
<1>1. SlotInv => InFlightNeverFreed
  BY DEF SlotInv, SlotsSound, Sound, InFlightNeverFreed
<1> QED
  BY <1>1, SlotInitially, SlotStep, PTL DEF LifecycleSpec

-----------------------------------------------------------------------------
(* UsbHostLifecycle: the library and its client.                           *)

\* The host task brings the library and the client up in this order.
BroughtUpInOrder ==
    /\ hostTask \in {"install", "register"} => clientTask = "none" /\ ~registered
    /\ hostTask = "register" => library
    /\ hostTask = "create" => clientTask = "none" /\ registered

(* The library is uninstalled only when no client task runs and no client  *)
(* is registered (hostTaskLoop): the host task creates the client under an *)
(* installed library, and waits for it before it uninstalls.               *)
THEOREM LibraryStays == LifecycleSpec => []LibraryOutlivesClient
<1> DEFINE Inv == BroughtUpInOrder /\ LibraryOutlivesClient
<1> USE DEF BroughtUpInOrder, LibraryOutlivesClient
<1>1. LifecycleInit => Inv
  BY DEF LifecycleInit
<1>2. Inv /\ [LifecycleNext]_lifecycleVars => Inv'
  <2> SUFFICES ASSUME Inv, [LifecycleNext]_lifecycleVars
               PROVE  Inv'
    OBVIOUS
  <2>1. CASE User
    <3>1. UNCHANGED <<clientTask, library, registered>>
      BY <2>1 DEF User, Begin, BeginReturns, End, EndReturns, SetHubTracking, SubmitLeds,
                  MarkLeds, tasks
    <3>2. hostTask' = hostTask \/ (hostTask' = "install" /\ clientTask = "none" /\ ~registered)
      BY <2>1 DEF User, Begin, BeginReturns, End, EndReturns, SetHubTracking, SubmitLeds,
                  MarkLeds, tasks
    <3> QED
      BY <3>1, <3>2
  <2>2. CASE HostTask
    BY <2>2 DEF HostTask, Install, Register, CreateClient, Announce, Serve, Await, HostStops,
                UninstallHostLibrary
  <2>3. CASE ClientTask
    BY <2>3 DEF ClientTask, Loop, LoopWith, DrainClientTransfers, ClientEnds,
                ReleaseClientResources, Events, NewDevice, HandleTransfer, LedDone, DeviceGone,
                ScanHostDevices, Dispatching, tasks
  <2>4. ASSUME NEW d \in Devices, PlugIn(d) \/ PullOut(d)
        PROVE  Inv'
    BY <2>4 DEF PlugIn, PullOut, tasks
  <2>5. CASE UNCHANGED lifecycleVars
    BY <2>5 DEF lifecycleVars
  <2> QED
    BY <2>1, <2>2, <2>3, <2>4, <2>5 DEF LifecycleNext
<1> QED
  BY <1>1, <1>2, PTL DEF LifecycleSpec

-----------------------------------------------------------------------------
(* UsbOutPool: who may touch a transfer, and who frees it. *)

OrNothing(S) == S \cup {Nothing}

Tasks == {"app", "client"}

SlotRecords == [state : {"free", "acquired", "inflight"}, transfer : OrNothing(Transfers),
                token : OrNothing(PoolTokens)]
WriterRecords ==
    [pc : {"idle", "permit", "holding", "submitting", "zlp", "waiting", "mustTake",
           "giving", "draining"},
     slot : OrNothing(Slots), transfer : OrNothing(Transfers),
     token : OrNothing(PoolTokens), full : BOOLEAN]

\* What may become of a transfer: none is freed twice, or while it is in use.
HeapStates == {"unused", "allocated", "freed"}

PoolTypes ==
    /\ pool \in [active : BOOLEAN, halted : BOOLEAN, permits : Int]
    /\ slots \in [Slots -> SlotRecords]
    /\ retired \in SUBSET [transfer : Transfers, token : PoolTokens]
    /\ heap \in [Transfers -> HeapStates]
    /\ driver \in SUBSET Transfers
    /\ writers \in [Tasks -> WriterRecords]
    /\ context \in [Transfers -> {"none", "pending", "abandoned", "callback", "given"}]
    /\ present \in BOOLEAN
    /\ answers \in [PoolTokens -> [accepted : BOOLEAN, count : Nat]]

App == writers["app"]
Client == writers["client"]

\* Who may be where: only the application task waits and drains, only the
\* client task gives an answer, and only the application uses tokens.
WritersPlaced ==
    /\ App.pc # "giving"
    /\ Client.pc \notin {"waiting", "mustTake", "draining"} /\ Client.token = Nothing
    /\ \A t \in Tasks :
          /\ writers[t].pc \in {"holding", "submitting"} =>
                writers[t].slot \in Slots /\ writers[t].transfer \in Transfers
          /\ writers[t].pc \in {"waiting", "mustTake", "giving"} => writers[t].transfer \in Transfers

\* A transfer in a slot is allocated and in no other slot; only that of a slot
\* marked in flight can be the driver's.
SlotsOwn ==
    /\ \A x \in driver : heap[x] = "allocated"
    /\ \A s \in Slots : slots[s].transfer # Nothing =>
          /\ heap[slots[s].transfer] = "allocated"
          /\ context[slots[s].transfer] = "none"
          /\ slots[s].transfer \in driver => slots[s].state = "inflight"
          /\ \A r \in Slots \ {s} : slots[r].transfer # slots[s].transfer

Waits == App.pc \in {"waiting", "mustTake"}

\* A transfer that vendorWrite() made is the waiting task's, the driver's, or
\* both, until one of them has freed it.
ContextsOwn ==
    /\ \A x \in Transfers : heap[x] = "unused" => context[x] = "none"
    /\ \A x \in Transfers : context[x] \in {"pending", "callback"} => Waits /\ App.transfer = x
    /\ Waits => /\ heap[App.transfer] = "allocated"
                /\ context[App.transfer] \in {"pending", "callback", "given"}
                /\ context[App.transfer] = "pending" <=> App.transfer \in driver
                /\ App.pc = "mustTake" => context[App.transfer] # "pending"
    /\ Client.pc = "giving" => context[Client.transfer] = "callback"

\* Between the mark and the submit a transfer is the writer's; the application
\* task may have lost its slot to the event that the device is gone.
Submitting(t) == writers[t].pc = "submitting"
Marked(t) ==
    /\ slots[writers[t].slot].transfer = writers[t].transfer
    /\ slots[writers[t].slot].state = "inflight"

SubmittersOwn ==
    /\ \A t \in Tasks : Submitting(t) =>
          /\ heap[writers[t].transfer] = "allocated" /\ writers[t].transfer \notin driver
          /\ context[writers[t].transfer] = "none"
    /\ Submitting("client") => Marked("client")
    /\ Submitting("app") => Marked("app") \/ \A s \in Slots : slots[s].transfer = Nothing
    /\ ~(Submitting("app") /\ Submitting("client") /\ App.transfer = Client.transfer)

\* A pool that is not active, and not being drained, is empty.
GonePoolEmpty ==
    pool.active \/ App.pc = "draining" \/ \A s \in Slots : slots[s].transfer = Nothing

PoolInv ==
    /\ PoolTypes /\ WritersPlaced /\ SlotsOwn /\ ContextsOwn /\ SubmittersOwn /\ GonePoolEmpty

\* A retired transfer is nobody else's, and there once.
RetiredOwn ==
    \A r \in retired :
        /\ heap[r.transfer] = "allocated" /\ context[r.transfer] = "none"
        /\ Member(r.transfer) = {}
        /\ \A q \in retired : q.transfer = r.transfer => q = r

\* A token on its way to its slot.
TokenOnItsWay ==
    App.token # Nothing =>
        /\ App.pc \in {"permit", "holding", "submitting"} /\ ~App.full
        /\ ~answers[App.token].accepted
        /\ App.pc \in {"permit", "holding"} => \A s \in Slots : slots[s].token = Nothing
        /\ Submitting("app") =>
              \/ Marked("app") /\ slots[App.slot].token = App.token
              \/ answers[App.token].count > 0
              \/ [transfer |-> App.transfer, token |-> App.token] \in retired

TokenInv == PoolInv /\ RetiredOwn /\ TokenOnItsWay /\ TokenNeverForgotten

-----------------------------------------------------------------------------
USE DEF HeapStates

\* The first element of a set is one of its elements.
LEMMA FirstOf ==
  ASSUME NEW S \in SUBSET Nat, S # {}
  PROVE  First(S) \in S /\ \A y \in S : First(S) <= y
<1>1. PICK x \in S : \A y \in S : ~(<<y, x>> \in OpToRel(<, Nat))
  BY NatLessThanWellFounded, WFMin
<1>2. ASSUME NEW y \in S
      PROVE  x <= y
  <2>1. <<y, x>> \in Nat \X Nat
    OBVIOUS
  <2>2. y < x => <<y, x>> \in OpToRel(<, Nat)
    BY <2>1, Zenon DEF OpToRel
  <2>3. ~(y < x)
    BY <1>1, <2>2
  <2> QED
    BY <2>3
<1> QED
  BY <1>2 DEF First

LEMMA RestIsCalm == AtRest \in WriterRecords /\ AtRest.pc = "idle" /\ AtRest.token = Nothing
  BY DEF AtRest, WriterRecords, OrNothing

LEMMA WriterSet ==
  ASSUME PoolTypes, NEW t \in Tasks, NEW w \in WriterRecords,
         writers' = [writers EXCEPT ![t] = w]
  PROVE  /\ writers' \in [Tasks -> WriterRecords]
         /\ writers'[t] = w /\ \A u \in Tasks \ {t} : writers'[u] = writers[u]
  BY DEF PoolTypes

Calm == {"idle", "permit", "holding", "zlp", "draining"}

\* A step after which the task holds no transfer that the pool does not: it
\* leaves every transfer where it was, and a slot of the driver's in flight.
LEMMA CalmStep ==
  ASSUME PoolInv, NEW t \in Tasks, NEW w \in WriterRecords,
         writers' = [writers EXCEPT ![t] = w], w.pc \in Calm,
         writers[t].pc \in Calm \cup {"submitting"},
         w.pc = "holding" => w.slot \in Slots /\ w.transfer \in Transfers,
         t = "client" => w.token = Nothing /\ w.pc # "draining",
         UNCHANGED <<heap, driver, context, retired>>, present' \in BOOLEAN,
         answers' \in [PoolTokens -> [accepted : BOOLEAN, count : Nat]],
         slots' \in [Slots -> SlotRecords],
         \A s \in Slots : slots'[s].transfer = slots[s].transfer,
         \A s \in Slots : slots[s].transfer \in driver => slots'[s].state = "inflight",
         \A u \in Tasks \ {t} : Submitting(u) /\ Marked(u) =>
                slots'[writers[u].slot].state = "inflight",
         pool' \in [active : BOOLEAN, halted : BOOLEAN, permits : Int], GonePoolEmpty'
  PROVE  PoolInv'
<1> USE DEF PoolInv
<1>0. /\ writers' \in [Tasks -> WriterRecords]
      /\ writers'[t] = w /\ \A u \in Tasks \ {t} : writers'[u] = writers[u]
  BY WriterSet
<1>1. PoolTypes'
  BY <1>0 DEF PoolTypes
<1>2. WritersPlaced'
  BY <1>0 DEF WritersPlaced, App, Client, Tasks, Calm
<1>3. SlotsOwn'
  BY DEF SlotsOwn, PoolTypes
<1>4. ContextsOwn'
  BY <1>0 DEF ContextsOwn, WritersPlaced, Waits, App, Client, Tasks, Calm
<1>5. SubmittersOwn'
  <2>1. \A u \in Tasks : Submitting(u)' => u # t /\ Submitting(u) /\ writers'[u] = writers[u]
    BY <1>0 DEF Submitting, Calm
  <2>2. \A u \in Tasks : Submitting(u)' /\ Marked(u) => Marked(u)'
    BY <2>1 DEF Marked, Submitting, WritersPlaced
  <2>3. "app" \in Tasks /\ "client" \in Tasks
    BY DEF Tasks
  <2>4. Submitting("client")' => Marked("client")'
    BY <2>1, <2>2, <2>3 DEF SubmittersOwn
  <2>5. Submitting("app")' => Marked("app")' \/ \A s \in Slots : slots'[s].transfer = Nothing
    BY <2>1, <2>2, <2>3 DEF SubmittersOwn
  <2>6. ~(Submitting("app") /\ Submitting("client") /\ App.transfer = Client.transfer)'
    BY <2>1, <2>3 DEF SubmittersOwn, App, Client
  <2>7. \A u \in Tasks : Submitting(u)' =>
           /\ heap'[writers'[u].transfer] = "allocated" /\ writers'[u].transfer \notin driver'
           /\ context'[writers'[u].transfer] = "none"
    BY <2>1 DEF SubmittersOwn
  <2> QED
    BY <2>4, <2>5, <2>6, <2>7 DEF SubmittersOwn
<1> QED
  BY <1>1, <1>2, <1>3, <1>4, <1>5

LEMMA Permits ==
  ASSUME NEW p \in Int, Depth \in Nat
  PROVE  Give(p) \in Int
  BY DEF Give

\* What a step that leaves the pool's slots alone finds there.
LEMMA SlotsAsTheyAre ==
  ASSUME PoolInv
  PROVE  /\ slots \in [Slots -> SlotRecords]
         /\ \A s \in Slots : slots[s].transfer \in driver => slots[s].state = "inflight"
         /\ \A u \in Tasks : Submitting(u) /\ Marked(u) => slots[writers[u].slot].state = "inflight"
<1>1. \A s \in Slots : slots[s].transfer \in driver => slots[s].transfer # Nothing
  BY PoolAssumption DEF PoolInv, PoolTypes, Transfers, Nothing
<1> QED
  BY <1>1 DEF PoolInv, PoolTypes, SlotsOwn, Marked

LEMMA PoolTakePermit ==
  ASSUME PoolInv, NEW t \in Tasks, TakePermit(t)
  PROVE  PoolInv'
<1>1. PICK w \in WriterRecords :
           /\ writers' = [writers EXCEPT ![t] = w]
           /\ w.pc = "permit" /\ (t = "client" => w.token = Nothing)
  <2>1. [AtRest EXCEPT !.pc = "permit"] \in WriterRecords
        /\ [AtRest EXCEPT !.pc = "permit"].pc = "permit"
        /\ [AtRest EXCEPT !.pc = "permit"].token = Nothing
    BY DEF AtRest, WriterRecords, OrNothing
  <2>2. \A full \in BOOLEAN :
           /\ [AtRest EXCEPT !.pc = "permit", !.full = full] \in WriterRecords
           /\ [AtRest EXCEPT !.pc = "permit", !.full = full].pc = "permit"
           /\ [AtRest EXCEPT !.pc = "permit", !.full = full].token = Nothing
    BY DEF AtRest, WriterRecords, OrNothing
  <2>3. \A k \in PoolTokens :
           /\ [AtRest EXCEPT !.pc = "permit", !.token = k] \in WriterRecords
           /\ [AtRest EXCEPT !.pc = "permit", !.token = k].pc = "permit"
    BY DEF AtRest, WriterRecords, OrNothing
  <2>4. \/ \E full \in BOOLEAN :
                writers' = [writers EXCEPT ![t] = [AtRest EXCEPT !.pc = "permit", !.full = full]]
        \/ /\ t = "app"
           /\ \E k \in PoolTokens :
                writers' = [writers EXCEPT ![t] = [AtRest EXCEPT !.pc = "permit", !.token = k]]
        \/ writers' = [writers EXCEPT ![t] = [AtRest EXCEPT !.pc = "permit"]]
    BY DEF TakePermit
  <2> QED
    BY <2>1, <2>2, <2>3, <2>4
<1>2. /\ writers[t].pc \in Calm
      /\ UNCHANGED <<slots, heap, driver, context, retired, present, answers>>
      /\ pool' \in [active : BOOLEAN, halted : BOOLEAN, permits : Int]
      /\ pool'.active
  <2>1. pool.active /\ pool' = [pool EXCEPT !.permits = @ - 1]
    BY DEF TakePermit
  <2>2. writers[t].pc \in {"idle", "zlp"}
    BY DEF TakePermit
  <2>3. UNCHANGED <<slots, heap, driver, context, retired, present, answers>>
    BY DEF TakePermit
  <2> QED
    BY <2>1, <2>2, <2>3 DEF Calm, PoolInv, PoolTypes
<1>3. GonePoolEmpty'
  BY <1>2 DEF GonePoolEmpty
<1> QED
  BY <1>1, <1>2, <1>3, CalmStep, SlotsAsTheyAre DEF PoolInv, PoolTypes, Calm

LEMMA PoolGiveUpZlp ==
  ASSUME PoolInv, NEW t \in Tasks, GiveUpZlp(t)
  PROVE  PoolInv'
<1>1. /\ writers' = [writers EXCEPT ![t] = AtRest] /\ writers[t].pc = "zlp"
      /\ UNCHANGED <<pool, slots, heap, driver, context, retired, present, answers>>
  BY DEF GiveUpZlp, Rests
<1>2. GonePoolEmpty'
  BY <1>1, WriterSet, RestIsCalm DEF PoolInv, GonePoolEmpty, App, Tasks
<1> QED
  BY <1>1, <1>2, RestIsCalm, CalmStep, SlotsAsTheyAre DEF PoolInv, PoolTypes, Calm

\* The slot found is marked acquired; its transfer is not the driver's.
LEMMA PoolMarkAcquired ==
  ASSUME PoolInv, NEW t \in Tasks, MarkAcquired(t)
  PROVE  PoolInv'
<1>1. /\ writers[t].pc = "permit"
      /\ UNCHANGED <<heap, driver, context, retired, present, answers>>
      /\ pool' \in [active : BOOLEAN, halted : BOOLEAN, permits : Int]
      /\ pool'.active = pool.active
  BY Permits, PoolAssumption DEF MarkAcquired, PoolInv, PoolTypes
<1>2. CASE FreeSlots = {}
  <2>1. writers' = [writers EXCEPT ![t] = AtRest] /\ UNCHANGED slots
    BY <1>2 DEF MarkAcquired, Rests
  <2>2. GonePoolEmpty'
    BY <1>1, <2>1, WriterSet, RestIsCalm DEF PoolInv, GonePoolEmpty, App, Tasks
  <2> QED
    BY <1>1, <2>1, <2>2, RestIsCalm, CalmStep, SlotsAsTheyAre DEF PoolInv, PoolTypes, Calm
<1>3. CASE FreeSlots # {}
  <2> DEFINE s == First(FreeSlots)
             w == [writers[t] EXCEPT !.pc = "holding", !.slot = s, !.transfer = slots[s].transfer]
  <2>1. s \in FreeSlots
    BY <1>3, FirstOf, PoolAssumption DEF FreeSlots, Slots
  <2>2. /\ slots' = [slots EXCEPT ![s] = [slots[s] EXCEPT !.state = "acquired"]]
        /\ writers' = [writers EXCEPT ![t] = w]
    BY <1>3 DEF MarkAcquired, PoolInv, PoolTypes, WriterRecords, Tasks
  <2> HIDE DEF s
  <2>3. s \in Slots /\ slots[s].state = "free" /\ slots[s].transfer \in Transfers
        /\ slots[s].transfer \notin driver
    BY <2>1 DEF FreeSlots, PoolInv, SlotsOwn, PoolTypes, SlotRecords, OrNothing
  <2>4. w \in WriterRecords /\ w.pc = "holding" /\ w.slot = s /\ w.transfer \in Transfers
        /\ w.token = writers[t].token
    <3>1. writers[t] \in WriterRecords
      BY DEF PoolInv, PoolTypes
    <3>2. w \in WriterRecords
      BY <2>3, <3>1 DEF WriterRecords, OrNothing
    <3> QED
      BY <2>3, <3>1, <3>2 DEF WriterRecords
  <2>5. /\ slots' \in [Slots -> SlotRecords] /\ slots'[s].transfer = slots[s].transfer
        /\ \A r \in Slots \ {s} : slots'[r] = slots[r]
    BY <2>2, <2>3 DEF PoolInv, PoolTypes, SlotRecords
  <2> HIDE DEF w
  <2>6. GonePoolEmpty'
    BY <1>1, <2>2, <2>4, <2>5, WriterSet DEF PoolInv, GonePoolEmpty, App, Tasks
  <2>7. \A u \in Tasks \ {t} : Submitting(u) /\ Marked(u) =>
                slots'[writers[u].slot].state = "inflight"
    BY <2>3, <2>5 DEF Submitting, Marked, PoolInv, WritersPlaced
  <2>8. t = "client" => w.token = Nothing
    BY <2>4 DEF PoolInv, WritersPlaced, Client
  <2>9. \A r \in Slots : slots[r].transfer \in driver => slots'[r].state = "inflight"
    BY <2>3, <2>5, SlotsAsTheyAre
  <2>10. \A r \in Slots : slots'[r].transfer = slots[r].transfer
    BY <2>5
  <2>11. w.slot \in Slots /\ present' \in BOOLEAN
         /\ answers' \in [PoolTokens -> [accepted : BOOLEAN, count : Nat]]
    BY <1>1, <2>3, <2>4 DEF PoolInv, PoolTypes
  <2> QED
    BY <1>1, <2>2, <2>4, <2>5, <2>6, <2>7, <2>8, <2>9, <2>10, <2>11, CalmStep DEF Calm
<1> QED
  BY <1>2, <1>3

\* A slot of the task's own goes back to the pool, unless the pool is another one by now.
LEMMA PoolGiveBack ==
  ASSUME PoolInv, NEW t \in Tasks, GiveBack(t)
  PROVE  PoolInv'
<1>1. /\ writers[t].pc = "holding" /\ writers' = [writers EXCEPT ![t] = AtRest]
      /\ UNCHANGED <<heap, driver, context, retired, present, answers>>
      /\ pool' \in [active : BOOLEAN, halted : BOOLEAN, permits : Int]
      /\ pool'.active = pool.active
  BY Permits, PoolAssumption DEF GiveBack, Rests, PoolInv, PoolTypes
<1>2. GonePoolEmpty' \/ ~UNCHANGED slots
  BY <1>1, WriterSet, RestIsCalm DEF PoolInv, GonePoolEmpty, App, Tasks
<1>3. CASE UNCHANGED slots
  BY <1>1, <1>2, <1>3, RestIsCalm, CalmStep, SlotsAsTheyAre DEF PoolInv, PoolTypes, Calm
<1>4. CASE Holds(t)
  <2> DEFINE s == writers[t].slot
  <2>1. /\ s \in Slots /\ slots[s].state = "acquired" /\ slots[s].transfer \in Transfers
        /\ pool.active
    BY <1>1, <1>4 DEF Holds, PoolInv, WritersPlaced
  <2>2. slots' = [slots EXCEPT ![s] = [slots[s] EXCEPT !.state = "free"]]
    BY <1>4 DEF GiveBack, PoolInv, PoolTypes
  <2> HIDE DEF s
  <2>3. /\ slots' \in [Slots -> SlotRecords] /\ slots'[s].transfer = slots[s].transfer
        /\ \A r \in Slots \ {s} : slots'[r] = slots[r]
    BY <2>1, <2>2 DEF PoolInv, PoolTypes, SlotRecords
  <2>4. \A u \in Tasks \ {t} : Submitting(u) /\ Marked(u) =>
                slots'[writers[u].slot].state = "inflight"
    BY <2>1, <2>3 DEF Submitting, Marked, PoolInv, WritersPlaced
  <2>5. \A r \in Slots : slots[r].transfer \in driver => slots'[r].state = "inflight"
    BY <2>1, <2>3, SlotsAsTheyAre
  <2>6. \A r \in Slots : slots'[r].transfer = slots[r].transfer
    BY <2>3
  <2>7. GonePoolEmpty'
    BY <1>1, <2>1 DEF GonePoolEmpty
  <2>8. present' \in BOOLEAN /\ answers' \in [PoolTokens -> [accepted : BOOLEAN, count : Nat]]
    BY <1>1 DEF PoolInv, PoolTypes
  <2> QED
    BY <1>1, <2>3, <2>4, <2>5, <2>6, <2>7, <2>8, RestIsCalm, CalmStep DEF Calm
<1> QED
  BY <1>3, <1>4 DEF GiveBack

\* What nothing but the slots and the writers' states decide.
LEMMA SubmittersApart ==
  ASSUME PoolInv, NEW t \in Tasks, NEW u \in Tasks, t # u, Submitting(u),
         writers[t].slot \in Slots, slots[writers[t].slot].transfer = writers[t].transfer,
         writers[t].transfer \in Transfers,
         slots[writers[t].slot].state = "acquired" \/ Submitting(t)
  PROVE  writers[u].transfer # writers[t].transfer
<1>1. writers[t].transfer # Nothing
  BY PoolAssumption DEF Transfers, Nothing
<1>2. CASE Submitting(t)
  BY <1>2 DEF PoolInv, SubmittersOwn, App, Client, Tasks
<1>3. CASE Marked(u) /\ slots[writers[t].slot].state = "acquired"
  BY <1>1, <1>3 DEF PoolInv, SlotsOwn, WritersPlaced, Marked, Submitting
<1> QED
  BY <1>1, <1>2, <1>3 DEF PoolInv, SubmittersOwn, Tasks

LEMMA PoolMark ==
  ASSUME PoolInv, NEW t \in Tasks, Mark(t)
  PROVE  PoolInv'
<1>1. /\ writers[t].pc = "holding"
      /\ UNCHANGED <<heap, driver, context, retired, present, answers>>
      /\ pool' \in [active : BOOLEAN, halted : BOOLEAN, permits : Int]
      /\ pool'.active = pool.active
  BY DEF Mark, PoolInv, PoolTypes
<1>2. CASE writers' = [writers EXCEPT ![t] = AtRest] /\ UNCHANGED slots
  <2>1. GonePoolEmpty'
    BY <1>1, <1>2, WriterSet, RestIsCalm DEF PoolInv, GonePoolEmpty, App, Tasks
  <2> QED
    BY <1>1, <1>2, <2>1, RestIsCalm, CalmStep, SlotsAsTheyAre DEF PoolInv, PoolTypes, Calm
<1>3. CASE Holds(t) /\ ~(pool.halted /\ t = "client")
  <2> DEFINE s == writers[t].slot
             x == writers[t].transfer
             token == IF writers[t].token = Nothing THEN slots[s].token ELSE writers[t].token
             w == [writers[t] EXCEPT !.pc = "submitting"]
  <2>1. /\ s \in Slots /\ slots[s].state = "acquired" /\ slots[s].transfer = x /\ x \in Transfers
        /\ pool.active
    BY <1>1, <1>3 DEF Holds, PoolInv, WritersPlaced
  <2>2. slots' = [slots EXCEPT ![s] = [slots[s] EXCEPT !.state = "inflight", !.token = token]]
    BY <1>3 DEF Mark, PoolInv, PoolTypes, SlotRecords
  <2>3. /\ writers' = [writers EXCEPT ![t] = w] /\ w \in WriterRecords /\ w.pc = "submitting"
        /\ w.slot = s /\ w.transfer = x /\ w.token = writers[t].token
    BY <1>3 DEF Mark, Goes, PoolInv, PoolTypes, WriterRecords
  <2>4. token \in OrNothing(PoolTokens)
    BY <2>1 DEF PoolInv, PoolTypes, SlotRecords, WriterRecords
  <2> HIDE DEF s, w, token
  <2>5. /\ slots' \in [Slots -> SlotRecords] /\ slots'[s].transfer = slots[s].transfer
        /\ slots'[s].state = "inflight" /\ \A r \in Slots \ {s} : slots'[r] = slots[r]
    BY <2>1, <2>2, <2>4 DEF PoolInv, PoolTypes, SlotRecords
  <2>6. /\ writers' \in [Tasks -> WriterRecords] /\ writers'[t] = w
        /\ \A u \in Tasks \ {t} : writers'[u] = writers[u]
    BY <2>3, WriterSet DEF PoolInv
  <2>7. PoolTypes'
    BY <1>1, <2>5, <2>6 DEF PoolInv, PoolTypes
  <2>8. WritersPlaced'
    BY <2>1, <2>3, <2>6 DEF PoolInv, WritersPlaced, App, Client, Tasks
  <2>9. x # Nothing /\ x \notin driver /\ heap[x] = "allocated" /\ context[x] = "none"
    BY <2>1, PoolAssumption DEF PoolInv, SlotsOwn, Transfers, Nothing
  <2>10. SlotsOwn'
    BY <1>1, <2>5 DEF PoolInv, SlotsOwn
  <2>11. ContextsOwn'
    BY <1>1, <2>3, <2>6 DEF PoolInv, ContextsOwn, WritersPlaced, Waits, App, Client, Tasks
  <2>12. SubmittersOwn'
    <3>1. \A u \in Tasks \ {t} : Submitting(u) => writers[u].transfer # x
      BY <2>1, SubmittersApart DEF s
    <3>2. \A u \in Tasks : Submitting(u)' /\ Marked(u) => Marked(u)'
      BY <2>1, <2>3, <2>5, <2>6 DEF Marked, Submitting, PoolInv, WritersPlaced
    <3>3. Submitting(t)' /\ Marked(t)' /\ \A u \in Tasks \ {t} : Submitting(u)' => Submitting(u)
      BY <2>1, <2>3, <2>5, <2>6 DEF Marked, Submitting
    <3>4. "app" \in Tasks /\ "client" \in Tasks
      BY DEF Tasks
    <3>5. Submitting("client")' => Marked("client")'
      BY <3>2, <3>3, <3>4 DEF PoolInv, SubmittersOwn
    <3>6. Submitting("app")' => Marked("app")' \/ \A r \in Slots : slots'[r].transfer = Nothing
      BY <2>5, <3>2, <3>3, <3>4 DEF PoolInv, SubmittersOwn
    <3>7. ~(Submitting("app") /\ Submitting("client") /\ App.transfer = Client.transfer)'
      BY <2>3, <2>6, <3>1, <3>3, <3>4 DEF PoolInv, SubmittersOwn, App, Client
    <3>8. \A u \in Tasks : Submitting(u)' =>
             /\ heap'[writers'[u].transfer] = "allocated" /\ writers'[u].transfer \notin driver'
             /\ context'[writers'[u].transfer] = "none"
      BY <1>1, <2>3, <2>6, <2>9, <3>3 DEF PoolInv, SubmittersOwn
    <3> QED
      BY <3>5, <3>6, <3>7, <3>8 DEF SubmittersOwn
  <2>13. GonePoolEmpty'
    BY <1>1, <2>1 DEF GonePoolEmpty
  <2> QED
    BY <2>7, <2>8, <2>10, <2>11, <2>12, <2>13 DEF PoolInv
<1> QED
  BY <1>2, <1>3 DEF Mark, Rests

LEMMA PoolSubmitSlot ==
  ASSUME PoolInv, NEW t \in Tasks, SubmitSlot(t)
  PROVE  PoolInv'
<1> DEFINE s == writers[t].slot
           x == writers[t].transfer
<1>1. /\ Submitting(t) /\ s \in Slots /\ x \in Transfers /\ x # Nothing
      /\ heap[x] = "allocated" /\ context[x] = "none" /\ x \notin driver
      /\ UNCHANGED <<heap, context, retired, present>>
  BY PoolAssumption DEF SubmitSlot, Submitting, PoolInv, WritersPlaced, SubmittersOwn, Transfers,
                        Nothing
<1>2. CASE driver' = driver \cup {x} /\ UNCHANGED <<slots, pool>>
           /\ answers' = (IF writers[t].token = Nothing THEN answers
                          ELSE [answers EXCEPT ![writers[t].token].accepted = TRUE])
           /\ (IF writers[t].full THEN Goes(t, "zlp") ELSE Rests(t))
  <2>1. PICK w \in WriterRecords : /\ writers' = [writers EXCEPT ![t] = w]
                                   /\ w.pc \in {"zlp", "idle"}
                                   /\ (t = "client" => w.token = Nothing)
    <3>1. CASE writers[t].full
      <4> DEFINE v == [writers[t] EXCEPT !.pc = "zlp"]
      <4>1. writers' = [writers EXCEPT ![t] = v]
        BY <1>2, <3>1 DEF Goes, PoolInv, PoolTypes, WriterRecords
      <4>2. v \in WriterRecords /\ v.pc = "zlp" /\ v.token = writers[t].token
        BY DEF PoolInv, PoolTypes, WriterRecords
      <4> HIDE DEF v
      <4> QED
        BY <4>1, <4>2 DEF PoolInv, WritersPlaced, Client
    <3>2. CASE ~writers[t].full
      BY <1>2, <3>2, RestIsCalm DEF Rests
    <3> QED
      BY <3>1, <3>2
  <2>2. /\ writers' \in [Tasks -> WriterRecords] /\ writers'[t] = w
        /\ \A u \in Tasks \ {t} : writers'[u] = writers[u]
    BY <2>1, WriterSet DEF PoolInv
  <2>3. answers' \in [PoolTokens -> [accepted : BOOLEAN, count : Nat]]
    <3>1. writers[t].token \in OrNothing(PoolTokens)
      BY DEF PoolInv, PoolTypes, WriterRecords
    <3> QED
      BY <1>2, <3>1 DEF PoolInv, PoolTypes, OrNothing
  <2>4. PoolTypes'
    BY <1>1, <1>2, <2>2, <2>3 DEF PoolInv, PoolTypes
  <2>5. WritersPlaced'
    BY <2>1, <2>2 DEF PoolInv, WritersPlaced, App, Client, Tasks
  <2>6. Marked(t) \/ \A r \in Slots : slots[r].transfer = Nothing
    BY <1>1 DEF PoolInv, SubmittersOwn, Tasks
  <2>7. SlotsOwn'
    <3>1. \A r \in Slots : slots[r].transfer = x => slots[r].state = "inflight"
      BY <1>1, <2>6 DEF PoolInv, SlotsOwn, Marked
    <3> QED
      BY <1>1, <1>2, <3>1 DEF PoolInv, SlotsOwn
  <2>8. ContextsOwn'
    BY <1>1, <1>2, <2>1, <2>2 DEF PoolInv, ContextsOwn, WritersPlaced, Submitting, Waits, App, Client,
                                  Tasks
  <2>9. SubmittersOwn'
    <3>1. \A u \in Tasks : Submitting(u)' =>
             u # t /\ Submitting(u) /\ writers'[u] = writers[u] /\ writers[u].transfer # x
      BY <1>1, <2>1, <2>2 DEF Submitting, PoolInv, SubmittersOwn, App, Client, Tasks
    <3> QED
      BY <1>1, <1>2, <3>1 DEF PoolInv, SubmittersOwn, Marked, App, Client, Tasks
  <2>10. GonePoolEmpty'
    BY <1>1, <1>2, <2>1, <2>2 DEF PoolInv, GonePoolEmpty, Submitting, App, Tasks
  <2> QED
    BY <2>4, <2>5, <2>7, <2>8, <2>9, <2>10 DEF PoolInv
<1>3. CASE slots' = [slots EXCEPT ![s].state = "free",
                          ![s].token = IF writers[t].token = Nothing THEN @ ELSE Nothing]
           /\ pool' = [pool EXCEPT !.permits = Give(@)] /\ Rests(t) /\ UNCHANGED <<driver, answers>>
  <2> DEFINE token == IF writers[t].token = Nothing THEN slots[s].token ELSE Nothing
  <2>1. slots' = [slots EXCEPT ![s] = [slots[s] EXCEPT !.state = "free", !.token = token]]
    BY <1>1, <1>3 DEF PoolInv, PoolTypes, SlotRecords
  <2>2. token \in OrNothing(PoolTokens)
    BY <1>1 DEF PoolInv, PoolTypes, SlotRecords, OrNothing
  <2> HIDE DEF token
  <2>3. /\ slots' \in [Slots -> SlotRecords] /\ slots'[s].transfer = slots[s].transfer
        /\ \A r \in Slots \ {s} : slots'[r] = slots[r]
    <3> DEFINE v == [slots[s] EXCEPT !.state = "free", !.token = token]
    <3>0. slots[s] \in SlotRecords
      BY <1>1 DEF PoolInv, PoolTypes
    <3> HIDE DEF s
    <3>1. v \in SlotRecords /\ v.transfer = slots[s].transfer
      BY <2>2, <3>0 DEF SlotRecords
    <3> HIDE DEF v
    <3> QED
      BY <1>1, <2>1, <3>1 DEF PoolInv, PoolTypes, v
  <2>4. slots[s].transfer \in {x, Nothing}
    BY <1>1 DEF PoolInv, SubmittersOwn, Marked, Tasks
  <2>5. \A r \in Slots : slots[r].transfer \in driver => slots'[r].state = "inflight"
    BY <1>1, <2>3, <2>4, SlotsAsTheyAre, PoolAssumption DEF PoolInv, PoolTypes, Transfers, Nothing
  <2>6. \A u \in Tasks \ {t} : Submitting(u) /\ Marked(u) =>
                slots'[writers[u].slot].state = "inflight"
    <3>1. \A u \in Tasks \ {t} : Submitting(u) => writers[u].transfer # x /\ writers[u].transfer # Nothing
          /\ writers[u].slot \in Slots
      BY <1>1, PoolAssumption
      DEF Submitting, PoolInv, SubmittersOwn, WritersPlaced, App, Client, Tasks, Transfers, Nothing
    <3> QED
      BY <2>3, <2>4, <3>1, SlotsAsTheyAre DEF Marked
  <2>7. \A r \in Slots : slots'[r].transfer = slots[r].transfer
    BY <2>3
  <2>8. pool' \in [active : BOOLEAN, halted : BOOLEAN, permits : Int] /\ pool'.active = pool.active
    BY <1>3, Permits, PoolAssumption DEF PoolInv, PoolTypes
  <2>9. GonePoolEmpty'
    BY <1>1, <1>3, <2>7, <2>8, RestIsCalm, WriterSet
    DEF PoolInv, GonePoolEmpty, Submitting, Rests, App, Tasks
  <2>10. writers' = [writers EXCEPT ![t] = AtRest]
         /\ UNCHANGED <<heap, driver, context, retired>> /\ present' \in BOOLEAN
         /\ answers' \in [PoolTokens -> [accepted : BOOLEAN, count : Nat]]
    BY <1>1, <1>3 DEF Rests, PoolInv, PoolTypes
  <2> QED
    BY <1>1, <2>3, <2>5, <2>6, <2>7, <2>8, <2>9, <2>10, RestIsCalm, CalmStep DEF Calm, Submitting
<1> QED
  BY <1>2, <1>3 DEF SubmitSlot

\* A step that leaves the slots alone keeps what the submitters own when it keeps
\* their transfers.
LEMMA SubmittersKept ==
  ASSUME PoolInv, UNCHANGED slots,
         \A u \in Tasks : Submitting(u)' => /\ Submitting(u) /\ writers'[u] = writers[u]
                                            /\ heap'[writers[u].transfer] = "allocated"
                                            /\ writers[u].transfer \notin driver'
                                            /\ context'[writers[u].transfer] = "none"
  PROVE  SubmittersOwn'
BY DEF PoolInv, SubmittersOwn, Marked, App, Client, Tasks

LEMMA PoolSendOnce ==
  ASSUME PoolInv, NEW t \in Tasks, SendOnce(t)
  PROVE  PoolInv'
<1> DEFINE x == First(UnusedTransfers)
<1>1. x \in Transfers /\ heap[x] = "unused"
  BY FirstOf, PoolAssumption DEF SendOnce, UnusedTransfers, Transfers
<1>2. /\ heap' = [heap EXCEPT ![x] = "allocated"] /\ driver' = driver \cup {x}
      /\ UNCHANGED <<pool, slots, retired, writers, context, present, answers>>
  BY DEF SendOnce
<1> HIDE DEF x
<1>3. PoolTypes' /\ WritersPlaced' /\ GonePoolEmpty'
  BY <1>1, <1>2 DEF PoolInv, PoolTypes, WritersPlaced, GonePoolEmpty, App, Client
<1>4. SlotsOwn'
  BY <1>1, <1>2 DEF PoolInv, SlotsOwn, PoolTypes
<1>5. ContextsOwn'
  BY <1>1, <1>2 DEF PoolInv, PoolTypes, ContextsOwn, Waits, App, Client
<1>6. SubmittersOwn'
  BY <1>1, <1>2, SubmittersKept DEF PoolInv, PoolTypes, SubmittersOwn, Submitting
<1> QED
  BY <1>3, <1>4, <1>5, <1>6 DEF PoolInv

LEMMA PoolWriteAndWait ==
  ASSUME PoolInv, WriteAndWait
  PROVE  PoolInv'
<1> DEFINE x == First(UnusedTransfers)
           w == [AtRest EXCEPT !.pc = "waiting", !.transfer = x]
<1>1. x \in Transfers /\ heap[x] = "unused"
  BY FirstOf, PoolAssumption DEF WriteAndWait, UnusedTransfers, Transfers
<1>2. /\ heap' = [heap EXCEPT ![x] = "allocated"] /\ driver' = driver \cup {x}
      /\ context' = [context EXCEPT ![x] = "pending"] /\ App.pc = "idle"
      /\ writers' = [writers EXCEPT !["app"] = w]
      /\ UNCHANGED <<pool, slots, retired, present, answers>>
  BY DEF WriteAndWait, App
<1> HIDE DEF x
<1>3. w \in WriterRecords /\ w.pc = "waiting" /\ w.transfer = x /\ w.token = Nothing
  BY <1>1 DEF AtRest, WriterRecords, OrNothing
<1> HIDE DEF w
<1>4. /\ writers' \in [Tasks -> WriterRecords] /\ writers'["app"] = w
      /\ writers'["client"] = writers["client"]
  BY <1>2, <1>3, WriterSet DEF PoolInv, Tasks
<1>5. PoolTypes' /\ WritersPlaced' /\ GonePoolEmpty'
  BY <1>1, <1>2, <1>3, <1>4 DEF PoolInv, PoolTypes, WritersPlaced, GonePoolEmpty, App, Client, Tasks
<1>6. SlotsOwn'
  BY <1>1, <1>2 DEF PoolInv, SlotsOwn, PoolTypes
<1>7. ContextsOwn'
  BY <1>1, <1>2, <1>3, <1>4 DEF PoolInv, PoolTypes, ContextsOwn, Waits, App, Client
<1>8. SubmittersOwn'
  BY <1>1, <1>2, <1>3, <1>4, SubmittersKept DEF PoolInv, PoolTypes, SubmittersOwn, Submitting, Tasks
<1> QED
  BY <1>5, <1>6, <1>7, <1>8 DEF PoolInv

\* The wait of vendorWrite() is over: the transfer is left to the callback, or
\* the callback was first and its answer is still to be taken.
LEMMA PoolAbandon ==
  ASSUME PoolInv, Abandon
  PROVE  PoolInv'
<1> DEFINE x == App.transfer
<1>1. /\ App.pc = "waiting" /\ x \in Transfers
      /\ UNCHANGED <<pool, slots, retired, heap, driver, present, answers>>
  BY DEF Abandon, App, PoolInv, WritersPlaced, Tasks
<1>2. PICK w \in WriterRecords :
           /\ writers' = [writers EXCEPT !["app"] = w]
           /\ \/ w.pc = "idle" /\ context[x] = "pending" /\ context' = [context EXCEPT ![x] = "abandoned"]
              \/ /\ w.pc = "mustTake" /\ w.transfer = x /\ context[x] = "callback"
                 /\ UNCHANGED context
  <2> DEFINE w == [writers["app"] EXCEPT !.pc = "mustTake"]
  <2>1. w \in WriterRecords /\ w.pc = "mustTake" /\ w.transfer = x
    BY DEF PoolInv, PoolTypes, WriterRecords, Tasks, App
  <2>2. context[x] = "callback" /\ Goes("app", "mustTake") => writers' = [writers EXCEPT !["app"] = w]
    BY DEF Goes, PoolInv, PoolTypes, WriterRecords, Tasks
  <2> HIDE DEF w
  <2> QED
    BY <2>1, <2>2, RestIsCalm DEF Abandon, Rests, App
<1>3. /\ writers' \in [Tasks -> WriterRecords] /\ writers'["app"] = w
      /\ writers'["client"] = writers["client"]
  BY <1>2, WriterSet DEF PoolInv, Tasks
<1>4. PoolTypes' /\ GonePoolEmpty'
  BY <1>1, <1>2, <1>3 DEF PoolInv, PoolTypes, GonePoolEmpty, App
<1>5. WritersPlaced'
  BY <1>1, <1>2, <1>3 DEF PoolInv, WritersPlaced, App, Client, Tasks
<1>6. SlotsOwn'
  BY <1>1, <1>2 DEF PoolInv, SlotsOwn, PoolTypes, SlotRecords, OrNothing
<1>7. ContextsOwn'
  <2>1. CASE w.pc = "idle" /\ context[x] = "pending" /\ context' = [context EXCEPT ![x] = "abandoned"]
    BY <1>1, <1>3, <2>1 DEF PoolInv, PoolTypes, WritersPlaced, ContextsOwn, Waits, App, Client, Tasks
  <2>2. CASE w.pc = "mustTake" /\ w.transfer = x /\ context[x] = "callback" /\ UNCHANGED context
    BY <1>1, <1>3, <2>2 DEF PoolInv, PoolTypes, ContextsOwn, Waits, App, Client
  <2> QED
    BY <1>2, <2>1, <2>2
<1>8. SubmittersOwn'
  <2>1. \A u \in Tasks : Submitting(u)' => /\ Submitting(u) /\ writers'[u] = writers[u]
                                           /\ context[writers[u].transfer] = "none"
                                           /\ writers[u].transfer \in Transfers
    BY <1>2, <1>3 DEF PoolInv, SubmittersOwn, WritersPlaced, Submitting, Tasks
  <2>2. \A y \in Transfers : context[y] = "none" => context'[y] = "none"
    BY <1>1, <1>2 DEF PoolInv, PoolTypes
  <2> QED
    BY <1>1, <2>1, <2>2, SubmittersKept DEF PoolInv, SubmittersOwn
<1> QED
  BY <1>4, <1>5, <1>6, <1>7, <1>8 DEF PoolInv

\* vendorWrite() frees the transfer that its callback has given back.
LEMMA PoolTakeDone ==
  ASSUME PoolInv, TakeDone
  PROVE  PoolInv'
<1> DEFINE x == App.transfer
<1>1. /\ Waits /\ x \in Transfers /\ context[x] = "given"
      /\ heap[x] = "allocated" /\ x \notin driver
      /\ writers' = [writers EXCEPT !["app"] = AtRest]
      /\ UNCHANGED <<pool, slots, retired, driver, context, present, answers>>
  BY DEF TakeDone, Rests, App, Waits, PoolInv, WritersPlaced, ContextsOwn, Tasks
<1>2. heap' = [y \in Transfers |-> IF y = x THEN "freed" ELSE heap[y]]
  BY <1>1 DEF TakeDone, FreedIn, App
<1>3. /\ writers' \in [Tasks -> WriterRecords] /\ writers'["app"].pc = "idle"
      /\ writers'["client"] = writers["client"] /\ writers'["app"].token = Nothing
  BY <1>1, RestIsCalm, WriterSet DEF PoolInv, Tasks
<1> HIDE DEF x
<1>4. PoolTypes' /\ GonePoolEmpty'
  BY <1>1, <1>2, <1>3 DEF PoolInv, PoolTypes, GonePoolEmpty, App, Waits
<1>5. WritersPlaced'
  BY <1>3 DEF PoolInv, WritersPlaced, App, Client, Tasks
<1>6. SlotsOwn'
  BY <1>1, <1>2 DEF PoolInv, SlotsOwn, PoolTypes, SlotRecords, OrNothing
<1>7. ContextsOwn'
  BY <1>1, <1>2, <1>3 DEF PoolInv, PoolTypes, ContextsOwn, Waits, App, Client, x
<1>8. SubmittersOwn'
  <2>1. \A u \in Tasks : Submitting(u)' => /\ Submitting(u) /\ writers'[u] = writers[u]
                                           /\ writers[u].transfer \in Transfers
                                           /\ writers[u].transfer # x
    BY <1>1, <1>3 DEF PoolInv, SubmittersOwn, WritersPlaced, Submitting, Tasks
  <2> QED
    BY <1>1, <1>2, <2>1, SubmittersKept DEF PoolInv, SubmittersOwn
<1> QED
  BY <1>4, <1>5, <1>6, <1>7, <1>8 DEF PoolInv

\* The callback of vendorWrite(): of an abandoned transfer it frees it, else it
\* says that it has been here.
LEMMA PoolWriteReturns ==
  ASSUME PoolInv, NEW x \in Transfers, WriteReturns(x)
  PROVE  PoolInv'
<1>1. /\ x \in driver /\ heap[x] = "allocated" /\ Client.pc = "idle"
      /\ driver' = driver \ {x}
      /\ UNCHANGED <<pool, slots, retired, present, answers>>
  BY DEF WriteReturns, PoolInv, SlotsOwn, Client
<1>2. \A r \in Slots : slots[r].transfer # x
  BY <1>1, PoolAssumption DEF WriteReturns, PoolInv, SlotsOwn, PoolTypes, Transfers, Nothing
<1>3. \A u \in Tasks : Submitting(u) => /\ writers[u].transfer # x
                                        /\ writers[u].transfer \in Transfers
  BY <1>1 DEF PoolInv, SubmittersOwn, WritersPlaced, Submitting
<1>4. CASE context[x] = "abandoned"
  <2>1. heap' = [heap EXCEPT ![x] = "freed"] /\ UNCHANGED <<context, writers>>
    BY <1>1, <1>4 DEF WriteReturns, PoolInv, PoolTypes
  <2>2. PoolTypes' /\ GonePoolEmpty' /\ WritersPlaced'
    BY <1>1, <2>1 DEF PoolInv, PoolTypes, GonePoolEmpty, WritersPlaced, App, Client
  <2>3. SlotsOwn'
    BY <1>1, <1>2, <2>1 DEF PoolInv, SlotsOwn, PoolTypes, SlotRecords, OrNothing
  <2>4. ContextsOwn'
    BY <1>1, <1>4, <2>1 DEF PoolInv, PoolTypes, ContextsOwn, Waits, App, Client
  <2>5. SubmittersOwn'
    BY <1>1, <1>3, <2>1, SubmittersKept DEF PoolInv, PoolTypes, SubmittersOwn, Submitting
  <2> QED
    BY <2>2, <2>3, <2>4, <2>5 DEF PoolInv
<1>5. CASE context[x] = "pending"
  <2> DEFINE w == [AtRest EXCEPT !.pc = "giving", !.transfer = x]
  <2>1. /\ context' = [context EXCEPT ![x] = "callback"] /\ UNCHANGED heap
        /\ writers' = [writers EXCEPT !["client"] = w]
    BY <1>5 DEF WriteReturns
  <2>2. w \in WriterRecords /\ w.pc = "giving" /\ w.transfer = x /\ w.token = Nothing
    BY DEF AtRest, WriterRecords, OrNothing
  <2> HIDE DEF w
  <2>3. /\ writers' \in [Tasks -> WriterRecords] /\ writers'["client"] = w
        /\ writers'["app"] = writers["app"]
    BY <2>1, <2>2, WriterSet DEF PoolInv, Tasks
  <2>4. PoolTypes' /\ GonePoolEmpty'
    BY <1>1, <2>1, <2>3 DEF PoolInv, PoolTypes, GonePoolEmpty, App
  <2>5. WritersPlaced'
    BY <2>2, <2>3 DEF PoolInv, WritersPlaced, App, Client, Tasks
  <2>6. SlotsOwn'
    BY <1>1, <1>2, <2>1 DEF PoolInv, SlotsOwn, PoolTypes, SlotRecords, OrNothing
  <2>7. ContextsOwn'
    BY <1>1, <1>5, <2>1, <2>2, <2>3 DEF PoolInv, PoolTypes, ContextsOwn, Waits, App, Client
  <2>8. SubmittersOwn'
    BY <1>1, <1>3, <2>1, <2>2, <2>3, SubmittersKept
    DEF PoolInv, PoolTypes, SubmittersOwn, Submitting, Tasks
  <2> QED
    BY <2>4, <2>5, <2>6, <2>7, <2>8 DEF PoolInv
<1> QED
  BY <1>4, <1>5 DEF WriteReturns

LEMMA PoolGiveDone ==
  ASSUME PoolInv, GiveDone
  PROVE  PoolInv'
<1> DEFINE x == Client.transfer
<1>1. /\ Client.pc = "giving" /\ x \in Transfers /\ context[x] = "callback"
      /\ context' = [context EXCEPT ![x] = "given"]
      /\ writers' = [writers EXCEPT !["client"] = AtRest]
      /\ UNCHANGED <<pool, slots, retired, heap, driver, present, answers>>
  BY DEF GiveDone, Rests, Client, PoolInv, WritersPlaced, ContextsOwn, Tasks
<1>2. /\ writers' \in [Tasks -> WriterRecords] /\ writers'["client"].pc = "idle"
      /\ writers'["app"] = writers["app"] /\ writers'["client"].token = Nothing
  BY <1>1, RestIsCalm, WriterSet DEF PoolInv, Tasks
<1> HIDE DEF x
<1>3. PoolTypes' /\ GonePoolEmpty'
  BY <1>1, <1>2 DEF PoolInv, PoolTypes, GonePoolEmpty, App
<1>4. WritersPlaced'
  BY <1>2 DEF PoolInv, WritersPlaced, App, Client, Tasks
<1>5. SlotsOwn'
  BY <1>1 DEF PoolInv, SlotsOwn, PoolTypes, SlotRecords, OrNothing
<1>6. ContextsOwn'
  BY <1>1, <1>2 DEF PoolInv, PoolTypes, ContextsOwn, Waits, App, Client
<1>7. SubmittersOwn'
  BY <1>1, <1>2, SubmittersKept DEF PoolInv, PoolTypes, SubmittersOwn, Submitting, Tasks
<1> QED
  BY <1>3, <1>4, <1>5, <1>6, <1>7 DEF PoolInv

\* The first slot with a transfer is the only one.
LEMMA OneMember ==
  ASSUME PoolInv, NEW x \in Transfers, Member(x) # {}
  PROVE  /\ First(Member(x)) \in Slots /\ slots[First(Member(x))].transfer = x
         /\ \A r \in Slots : slots[r].transfer = x => r = First(Member(x))
<1>1. First(Member(x)) \in Member(x)
  BY FirstOf, PoolAssumption DEF Member, Slots
<1> DEFINE s == First(Member(x))
<1>2. s \in Slots /\ slots[s].transfer = x
  BY <1>1 DEF Member
<1> HIDE DEF s
<1>3. x # Nothing
  BY PoolAssumption DEF Transfers, Nothing
<1>4. \A r \in Slots : slots[r].transfer = x => r = s
  BY <1>2, <1>3 DEF PoolInv, SlotsOwn
<1> QED
  BY <1>2, <1>4 DEF s

LEMMA PoolPooledReturns ==
  ASSUME PoolInv, NEW x \in Transfers, NEW broken \in BOOLEAN, PooledReturns(x, broken)
  PROVE  PoolInv'
<1> DEFINE s == First(Member(x))
<1>1. s \in Slots /\ slots[s].transfer = x /\ \A r \in Slots \ {s} : slots[r].transfer # x
  BY OneMember DEF PooledReturns
<1>2. /\ x \in driver /\ driver' = driver \ {x}
      /\ slots' = [slots EXCEPT ![s] = [slots[s] EXCEPT !.state = "free", !.token = Nothing]]
      /\ UNCHANGED <<retired, heap, writers, context, present>>
  BY <1>1 DEF PooledReturns, PoolInv, PoolTypes, SlotRecords
<1>3. answers' \in [PoolTokens -> [accepted : BOOLEAN, count : Nat]]
  <2>1. slots[s].token \in OrNothing(PoolTokens)
    BY <1>1 DEF PoolInv, PoolTypes, SlotRecords
  <2> QED
    BY <2>1 DEF PooledReturns, Told, PoolInv, PoolTypes, OrNothing
<1>4. pool' \in [active : BOOLEAN, halted : BOOLEAN, permits : Int] /\ pool'.active = pool.active
  BY Permits, PoolAssumption DEF PooledReturns, PoolInv, PoolTypes
<1> HIDE DEF s
<1>5. /\ slots' \in [Slots -> SlotRecords] /\ slots'[s].transfer = slots[s].transfer
      /\ \A r \in Slots \ {s} : slots'[r] = slots[r]
  <2>1. slots[s] \in SlotRecords
    BY <1>1 DEF PoolInv, PoolTypes
  <2>2. /\ [slots[s] EXCEPT !.state = "free", !.token = Nothing] \in SlotRecords
        /\ [slots[s] EXCEPT !.state = "free", !.token = Nothing].transfer = slots[s].transfer
    BY <2>1 DEF SlotRecords, OrNothing
  <2> QED
    BY <1>1, <1>2, <2>2 DEF PoolInv, PoolTypes
<1>6. PoolTypes' /\ WritersPlaced'
  BY <1>2, <1>3, <1>4, <1>5 DEF PoolInv, PoolTypes, WritersPlaced, App, Client
<1>7. SlotsOwn'
  BY <1>1, <1>2, <1>5 DEF PoolInv, SlotsOwn
<1>8. ContextsOwn'
  <2>1. context[x] = "none"
    BY <1>1, PoolAssumption DEF PoolInv, SlotsOwn, Transfers, Nothing
  <2> QED
    BY <1>2, <2>1 DEF PoolInv, ContextsOwn, WritersPlaced, Waits, App, Client, Tasks
<1>9. SubmittersOwn'
  <2>1. \A u \in Tasks : Submitting(u) => writers[u].transfer # x /\ writers[u].slot \in Slots
    BY <1>2 DEF PoolInv, SubmittersOwn, WritersPlaced, Submitting
  <2>2. \A u \in Tasks : Submitting(u) /\ Marked(u) => Marked(u)'
    BY <1>1, <1>2, <1>5, <2>1 DEF Marked
  <2> QED
    BY <1>1, <1>2, <1>5, <2>1, <2>2 DEF PoolInv, SubmittersOwn, Submitting, App, Client, Tasks
<1>10. GonePoolEmpty'
  BY <1>1, <1>2, <1>4, <1>5 DEF PoolInv, GonePoolEmpty, App
<1> QED
  BY <1>6, <1>7, <1>8, <1>9, <1>10 DEF PoolInv

LEMMA PoolOrphanReturns ==
  ASSUME PoolInv, NEW x \in Transfers, OrphanReturns(x)
  PROVE  PoolInv'
<1>1. /\ x \in driver /\ heap[x] = "allocated" /\ context[x] = "none"
      /\ driver' = driver \ {x} /\ heap' = [heap EXCEPT ![x] = "freed"]
      /\ retired' \subseteq retired
      /\ UNCHANGED <<pool, slots, writers, context, present>>
  BY DEF OrphanReturns, PoolInv, SlotsOwn, PoolTypes
<1>2. \A r \in Slots : slots[r].transfer # x
  BY DEF OrphanReturns, Member
<1>3. answers' \in [PoolTokens -> [accepted : BOOLEAN, count : Nat]]
  <2> DEFINE r == CHOOSE r \in RetiredAs(x) : TRUE
  <2>1. CASE RetiredAs(x) = {}
    BY <2>1 DEF OrphanReturns, PoolInv, PoolTypes
  <2>2. CASE RetiredAs(x) # {}
    <3>1. r \in RetiredAs(x)
      BY <2>2
    <3>2. answers' = Told(r.token)
      BY <2>2 DEF OrphanReturns
    <3> HIDE DEF r
    <3>3. r.token \in PoolTokens
      BY <3>1 DEF RetiredAs, PoolInv, PoolTypes
    <3> QED
      BY <3>2, <3>3 DEF Told, PoolInv, PoolTypes
  <2> QED
    BY <2>1, <2>2
<1>4. PoolTypes' /\ WritersPlaced' /\ GonePoolEmpty'
  BY <1>1, <1>3 DEF PoolInv, PoolTypes, WritersPlaced, GonePoolEmpty, App, Client
<1>5. SlotsOwn'
  BY <1>1, <1>2 DEF PoolInv, SlotsOwn, PoolTypes, SlotRecords, OrNothing
<1>6. ContextsOwn'
  BY <1>1 DEF PoolInv, PoolTypes, ContextsOwn, WritersPlaced, Waits, App, Client, Tasks
<1>7. SubmittersOwn'
  <2>1. \A u \in Tasks : Submitting(u) => /\ writers[u].transfer # x
                                          /\ writers[u].transfer \in Transfers
    BY <1>1 DEF PoolInv, SubmittersOwn, WritersPlaced, Submitting
  <2> QED
    BY <1>1, <2>1, SubmittersKept DEF PoolInv, PoolTypes, SubmittersOwn, Submitting
<1> QED
  BY <1>4, <1>5, <1>6, <1>7 DEF PoolInv

\* releaseSerialOutQueue frees what is not in flight, and that the driver does
\* not hold; the slots are empty after it.
LEMMA ReleaseEffect ==
  ASSUME PoolInv, NEW keepTokens \in BOOLEAN, Release(keepTokens)
  PROVE  /\ pool' \in [active : BOOLEAN, halted : BOOLEAN, permits : Int]
         /\ slots' \in [Slots -> SlotRecords] /\ \A s \in Slots : slots'[s].transfer = Nothing
         /\ retired' \in SUBSET [transfer : Transfers, token : PoolTokens]
         /\ answers' \in [PoolTokens -> [accepted : BOOLEAN, count : Nat]]
         /\ heap' \in [Transfers -> HeapStates]
         /\ \A x \in Transfers :
               \/ heap'[x] = heap[x]
               \/ /\ heap'[x] = "freed" /\ x \notin driver
                  /\ \E s \in Slots : slots[s].transfer = x /\ slots[s].state # "inflight"
<1> DEFINE freed == {slots[s].transfer : s \in Slots \ InFlight} \ {Nothing}
<1>1. \A x \in freed : /\ heap[x] = "allocated" /\ x \notin driver
                       /\ \E s \in Slots : slots[s].transfer = x /\ slots[s].state # "inflight"
  <2> SUFFICES ASSUME NEW s \in Slots \ InFlight, slots[s].transfer # Nothing
               PROVE  /\ heap[slots[s].transfer] = "allocated" /\ slots[s].transfer \notin driver
                      /\ slots[s].state # "inflight"
    OBVIOUS
  <2> QED
    BY DEF InFlight, PoolInv, SlotsOwn
<1>2. heap' = FreedIn(freed)
  BY DEF Release
<1> HIDE DEF freed
<1>3. heap' \in [Transfers -> HeapStates]
  BY <1>1, <1>2 DEF FreedIn, PoolInv, PoolTypes
<1>4. \A x \in Transfers : IF x \in freed THEN heap'[x] = "freed" ELSE heap'[x] = heap[x]
  BY <1>1, <1>2 DEF FreedIn
<1>5. pool' \in [active : BOOLEAN, halted : BOOLEAN, permits : Int]
  BY DEF Release
<1>6. slots' \in [Slots -> SlotRecords] /\ \A s \in Slots : slots'[s].transfer = Nothing
  BY DEF Release, EmptySlot, PoolInv, PoolTypes, SlotRecords, OrNothing
<1> DEFINE tokened == {s \in InFlight : slots[s].token # Nothing}
           leaving == {[transfer |-> slots[s].transfer, token |-> slots[s].token] : s \in tokened}
<1>7. leaving \in SUBSET [transfer : Transfers, token : PoolTokens]
  BY DEF InFlight, PoolInv, PoolTypes, SlotRecords, OrNothing
<1> HIDE DEF leaving
<1>8. retired' \in SUBSET [transfer : Transfers, token : PoolTokens]
  <2>1. retired' \in {retired, retired \cup leaving}
    BY DEF Release, leaving
  <2> QED
    BY <1>7, <2>1 DEF PoolInv, PoolTypes
<1>9. answers' \in [PoolTokens -> [accepted : BOOLEAN, count : Nat]]
  <2>1. \/ answers' = answers
        \/ answers' = [k \in PoolTokens |-> IF \E r \in leaving : r.token = k
                                            THEN [answers[k] EXCEPT !.count = @ + 1]
                                            ELSE answers[k]]
    BY DEF Release, leaving
  <2> QED
    BY <2>1 DEF PoolInv, PoolTypes
<1> QED
  BY <1>1, <1>3, <1>4, <1>5, <1>6, <1>8, <1>9

\* A transfer whose wait or submit is not over keeps its place.
LEMMA ReleaseKeeps ==
  ASSUME PoolInv, NEW keepTokens \in BOOLEAN, Release(keepTokens),
         NEW t \in Tasks, Submitting(t) \/ (t = "app" /\ Waits)
  PROVE  heap'[writers[t].transfer] = "allocated"
<1>1. writers[t].transfer \in Transfers /\ heap[writers[t].transfer] = "allocated"
  BY DEF PoolInv, WritersPlaced, SubmittersOwn, ContextsOwn, Submitting, Waits, App
<1>2. \A s \in Slots : slots[s].transfer = writers[t].transfer => slots[s].state = "inflight"
  <2>1. CASE Submitting(t)
    BY <1>1, <2>1, PoolAssumption DEF PoolInv, SubmittersOwn, SlotsOwn, WritersPlaced, Marked, Submitting,
                                      Tasks, Transfers, Nothing
  <2>2. CASE t = "app" /\ Waits
    BY <1>1, <2>2, PoolAssumption DEF PoolInv, ContextsOwn, SlotsOwn, App, Transfers, Nothing
  <2> QED
    BY <2>1, <2>2
<1> QED
  BY <1>1, <1>2, ReleaseEffect

LEMMA PoolRelease ==
  ASSUME PoolInv, NEW keepTokens \in BOOLEAN, Release(keepTokens), ~Submitting("client"),
         NEW w \in WriterRecords,
         \/ w = App
         \/ App.pc = "draining" /\ w.pc = "idle" /\ w.token = Nothing,
         writers' = [writers EXCEPT !["app"] = w],
         UNCHANGED <<driver, context>>, present' \in BOOLEAN
  PROVE  PoolInv'
<1>1. /\ writers' \in [Tasks -> WriterRecords] /\ writers'["app"] = w
      /\ writers'["client"] = writers["client"]
  BY WriterSet DEF PoolInv, Tasks
<1>2. PoolTypes' /\ GonePoolEmpty'
  BY <1>1, ReleaseEffect DEF PoolInv, PoolTypes, GonePoolEmpty
<1>3. WritersPlaced'
  BY <1>1 DEF PoolInv, WritersPlaced, App, Client, Tasks
<1>4. SlotsOwn'
  BY ReleaseEffect DEF PoolInv, SlotsOwn, PoolTypes
<1>5. ContextsOwn'
  <2>1. \A x \in Transfers : heap'[x] = "unused" => heap[x] = "unused"
    BY ReleaseEffect
  <2>2. Waits' => Waits /\ w = App /\ heap'[App.transfer] = "allocated"
    BY <1>1, ReleaseKeeps DEF Waits, App, Tasks
  <2>3. Waits => w = App
    BY DEF Waits
  <2> QED
    BY <1>1, <2>1, <2>2, <2>3 DEF PoolInv, ContextsOwn, Waits, App, Client
<1>6. SubmittersOwn'
  <2>1. Submitting("app")' => Submitting("app") /\ w = App /\ heap'[App.transfer] = "allocated"
    BY <1>1, ReleaseKeeps DEF Submitting, App, Tasks
  <2>2. ~Submitting("client")'
    BY <1>1 DEF Submitting
  <2> QED
    BY <1>1, <2>1, <2>2, ReleaseEffect DEF PoolInv, SubmittersOwn, App, Tasks
<1> QED
  BY <1>2, <1>3, <1>4, <1>5, <1>6 DEF PoolInv

LEMMA PoolGone ==
  ASSUME PoolInv, PoolDeviceGone \/ Drained
  PROVE  PoolInv'
<1>1. CASE PoolDeviceGone
  <2>1. writers' = [writers EXCEPT !["app"] = App] /\ App \in WriterRecords
    BY <1>1 DEF PoolDeviceGone, App, PoolInv, PoolTypes, Tasks
  <2> QED
    BY <1>1, <2>1, PoolRelease DEF PoolDeviceGone, Submitting
<1>2. CASE Drained
  BY <1>2, PoolRelease, RestIsCalm DEF Drained, Rests, Submitting, App, PoolInv, PoolTypes
<1> QED
  BY <1>1, <1>2

LEMMA PoolDeviceBackOrEnd ==
  ASSUME PoolInv, DeviceBack \/ QueueEnd
  PROVE  PoolInv'
<1>1. CASE DeviceBack
  BY <1>1 DEF DeviceBack, PoolInv, PoolTypes, WritersPlaced, SlotsOwn, ContextsOwn, SubmittersOwn,
              GonePoolEmpty, Submitting, Marked, Waits, App, Client
<1>2. CASE QueueEnd
  <2> DEFINE w == [writers["app"] EXCEPT !.pc = "draining"]
  <2>1. /\ writers' = [writers EXCEPT !["app"] = w] /\ writers["app"].pc = "idle"
        /\ UNCHANGED <<slots, retired, heap, driver, context, present, answers>>
    BY <1>2 DEF QueueEnd, Goes, PoolInv, PoolTypes, WriterRecords, Tasks
  <2>2. w \in WriterRecords /\ w.pc = "draining"
    BY DEF PoolInv, PoolTypes, WriterRecords, Tasks
  <2> HIDE DEF w
  <2>3. pool' \in [active : BOOLEAN, halted : BOOLEAN, permits : Int]
    BY <1>2 DEF QueueEnd, PoolInv, PoolTypes
  <2>4. GonePoolEmpty'
    BY <2>1, <2>2, WriterSet DEF PoolInv, GonePoolEmpty, App, Tasks
  <2> QED
    BY <2>1, <2>2, <2>3, <2>4, CalmStep, SlotsAsTheyAre DEF PoolInv, PoolTypes, Calm, Tasks
<1> QED
  BY <1>1, <1>2

\* The transfers that serialWriteQueueBegin() allocates differ: each is the
\* first that is neither in use nor another slot's.
LEMMA FreshDiffer ==
  ASSUME Cardinality(UnusedTransfers) >= Depth, NEW fresh \in [Slots -> UnusedTransfers],
         \A s \in Slots : fresh[s] = First(UnusedTransfers \ {fresh[r] : r \in 1..(s - 1)})
  PROVE  \A r, s \in Slots : r < s => fresh[r] # fresh[s]
<1> SUFFICES ASSUME NEW s \in Slots
             PROVE  \A r \in Slots : r < s => fresh[r] # fresh[s]
  OBVIOUS
<1> DEFINE earlier == {fresh[r] : r \in 1..(s - 1)}
           g == [r \in 1..(s - 1) |-> fresh[r]]
<1>1. s \in 1..Depth /\ Depth \in Nat /\ IsFiniteSet(UnusedTransfers)
  <2>1. UnusedTransfers \in SUBSET (1..LastTransfer)
    BY DEF UnusedTransfers, Transfers
  <2>2. IsFiniteSet(1..LastTransfer)
    BY PoolAssumption, FS_Interval
  <2> QED
    BY <2>1, <2>2, PoolAssumption, FS_Subset DEF Slots
<1>2. UnusedTransfers \ earlier # {}
  <2>1. IsFiniteSet(1..(s - 1)) /\ Cardinality(1..(s - 1)) = s - 1
    BY <1>1, FS_Interval
  <2>2. g \in Surjection(1..(s - 1), earlier)
    BY <1>1 DEF Surjection, Slots
  <2>3. IsFiniteSet(earlier) /\ Cardinality(earlier) <= s - 1
    BY <2>1, <2>2, FS_Surjection
  <2>4. ~(UnusedTransfers \subseteq earlier)
    <3>1. UnusedTransfers \subseteq earlier => Cardinality(UnusedTransfers) <= Cardinality(earlier)
      BY <2>3, FS_Subset
    <3>2. Cardinality(UnusedTransfers) \in Nat /\ Cardinality(earlier) \in Nat
      BY <1>1, <2>3, FS_CardinalityType
    <3> QED
      BY <1>1, <2>3, <3>1, <3>2
  <2> QED
    BY <2>4
<1>3. UnusedTransfers \ earlier \in SUBSET Nat
  BY PoolAssumption DEF UnusedTransfers, Transfers
<1>4. fresh[s] \in UnusedTransfers \ earlier
  BY <1>2, <1>3, FirstOf
<1>5. \A r \in Slots : r < s => fresh[r] \in earlier
  BY <1>1 DEF Slots
<1> QED
  BY <1>4, <1>5

LEMMA PoolQueueBegin ==
  ASSUME PoolInv, QueueBegin
  PROVE  PoolInv'
<1>1. /\ App.pc = "idle" /\ \A s \in Slots : slots[s].transfer = Nothing
      /\ pool' = [active |-> TRUE, halted |-> FALSE, permits |-> Depth]
      /\ UNCHANGED <<retired, driver, writers, context, present, answers>>
  BY DEF QueueBegin, App, PoolInv, GonePoolEmpty
<1>2. PICK fresh \in [Slots -> UnusedTransfers] :
          /\ \A s \in Slots : fresh[s] = First(UnusedTransfers \ {fresh[r] : r \in 1..(s - 1)})
          /\ slots' = [s \in Slots |-> [slots[s] EXCEPT !.state = "free", !.transfer = fresh[s]]]
          /\ heap' = [x \in Transfers |-> IF \E s \in Slots : fresh[s] = x THEN "allocated" ELSE heap[x]]
  BY DEF QueueBegin
<1>3. \A r, s \in Slots : r # s => fresh[r] # fresh[s]
  <2>1. \A r, s \in Slots : r < s => fresh[r] # fresh[s]
    BY <1>2, FreshDiffer DEF QueueBegin
  <2>2. \A r, s \in Slots : r # s => r < s \/ s < r
    BY PoolAssumption DEF Slots
  <2> QED
    BY <2>1, <2>2
<1>4. \A s \in Slots : fresh[s] \in Transfers /\ heap[fresh[s]] = "unused" /\ fresh[s] # Nothing
  BY PoolAssumption DEF UnusedTransfers, Transfers, Nothing
<1>5. slots' \in [Slots -> SlotRecords] /\ \A s \in Slots : slots'[s].transfer = fresh[s]
  <2>1. ASSUME NEW s \in Slots
        PROVE  /\ [slots[s] EXCEPT !.state = "free", !.transfer = fresh[s]] \in SlotRecords
               /\ [slots[s] EXCEPT !.state = "free", !.transfer = fresh[s]].transfer = fresh[s]
    <3>1. slots[s] \in SlotRecords /\ fresh[s] \in OrNothing(Transfers)
      BY <1>4 DEF PoolInv, PoolTypes, OrNothing
    <3> QED
      BY <3>1 DEF SlotRecords
  <2> QED
    BY <1>2, <2>1
<1>6. /\ heap' \in [Transfers -> HeapStates]
      /\ \A s \in Slots : heap'[fresh[s]] = "allocated"
      /\ \A x \in Transfers : heap'[x] = heap[x] \/ (heap[x] = "unused" /\ heap'[x] = "allocated")
  BY <1>2, <1>4 DEF PoolInv, PoolTypes
<1>7. PoolTypes' /\ WritersPlaced' /\ GonePoolEmpty'
  BY <1>1, <1>5, <1>6, PoolAssumption DEF PoolInv, PoolTypes, WritersPlaced, GonePoolEmpty, App, Client
<1>8. SlotsOwn'
  <2>1. \A s \in Slots : context[fresh[s]] = "none" /\ fresh[s] \notin driver
    BY <1>4 DEF PoolInv, ContextsOwn, SlotsOwn
  <2>2. \A x \in driver : heap'[x] = "allocated"
    BY <1>6 DEF PoolInv, SlotsOwn, PoolTypes
  <2> QED
    BY <1>1, <1>3, <1>5, <1>6, <2>1, <2>2 DEF PoolInv, SlotsOwn
<1>9. ContextsOwn'
  BY <1>1, <1>6 DEF PoolInv, PoolTypes, ContextsOwn, WritersPlaced, Waits, App, Client, Tasks
<1>10. SubmittersOwn'
  <2>1. \A u \in Tasks : ~Submitting(u)
    BY <1>1, PoolAssumption DEF PoolInv, SubmittersOwn, WritersPlaced, Submitting, Marked, App, Tasks,
                               Transfers, Nothing
  <2> QED
    BY <1>1, <2>1 DEF SubmittersOwn, Submitting, Tasks
<1> QED
  BY <1>7, <1>8, <1>9, <1>10 DEF PoolInv

LEMMA PoolInitially == PoolInit => PoolInv
<1> SUFFICES ASSUME PoolInit
             PROVE  PoolInv
  OBVIOUS
<1>1. PoolTypes
  <2>1. AtRest \in WriterRecords /\ EmptySlot \in SlotRecords
    BY RestIsCalm DEF EmptySlot, SlotRecords, OrNothing
  <2> QED
    BY <2>1 DEF PoolInit, PoolTypes, Tasks
<1> QED
  BY <1>1, RestIsCalm DEF PoolInit, PoolInv, WritersPlaced, SlotsOwn, ContextsOwn, SubmittersOwn,
                          GonePoolEmpty, EmptySlot, Submitting, Waits, App, Client, Tasks

LEMMA PoolStep == PoolInv /\ [PoolNext]_poolVars => PoolInv'
<1> SUFFICES ASSUME PoolInv, [PoolNext]_poolVars
             PROVE  PoolInv'
  OBVIOUS
<1>1. CASE UNCHANGED poolVars
  BY <1>1 DEF poolVars, PoolInv, PoolTypes, WritersPlaced, SlotsOwn, ContextsOwn, SubmittersOwn,
              GonePoolEmpty, Submitting, Marked, Waits, App, Client
<1> QED
  BY <1>1, PoolTakePermit, PoolGiveUpZlp, PoolMarkAcquired, PoolGiveBack, PoolMark, PoolSubmitSlot,
     PoolSendOnce, PoolWriteAndWait, PoolAbandon, PoolTakeDone, PoolWriteReturns, PoolGiveDone,
     PoolPooledReturns, PoolOrphanReturns, PoolGone, PoolDeviceBackOrEnd, PoolQueueBegin
  DEF PoolNext, Tasks

(* A transfer of the bulk OUT pool is freed once, and never while the      *)
(* driver holds it (serialOutTransferCallback, releaseSerialOutQueue,      *)
(* vendorWrite): between them, slots, driver and waiting tasks own each    *)
(* transfer, and whoever frees it is the only one left.                    *)
THEOREM TransfersFreedOnce == PoolSpec => []FreedOnce
<1>1. PoolInv => FreedOnce
  BY DEF PoolInv, PoolTypes, FreedOnce
<1> QED
  BY <1>1, PoolInitially, PoolStep, PTL DEF PoolSpec

-----------------------------------------------------------------------------
(* UsbOutPool: the tokens.                                                 *)

Backed(k) ==
    \E x \in driver : \/ \E s \in Member(x) : slots[s].token = k
                      \/ \E r \in RetiredAs(x) : r.token = k

\* A transfer that leads to a token belongs to no waiting task.
LEMMA BackedByNobodys ==
  ASSUME TokenInv, NEW x \in driver, NEW k,
         (\E s \in Member(x) : slots[s].token = k) \/ (\E r \in RetiredAs(x) : r.token = k)
  PROVE  context[x] = "none"
<1>1. x # Nothing
  BY PoolAssumption DEF TokenInv, PoolInv, PoolTypes, Transfers, Nothing
<1> QED
  BY <1>1 DEF TokenInv, PoolInv, SlotsOwn, RetiredOwn, Member, RetiredAs

\* A step that leaves to the driver what leads to a token, and leaves its label.
LEMMA TokenFrame ==
  ASSUME TokenInv, PoolInv',
         \A s \in Slots : slots[s].transfer \in driver =>
             slots'[s].transfer = slots[s].transfer /\ slots'[s].token = slots[s].token,
         \A s \in Slots, r \in retired : slots'[s].transfer # r.transfer,
         \A x \in driver : context[x] = "none" => x \in driver',
         UNCHANGED <<retired, answers>>,
         \A r \in retired : heap'[r.transfer] = "allocated" /\ context'[r.transfer] = "none",
         TokenOnItsWay'
  PROVE  TokenInv'
<1>1. RetiredOwn'
  BY DEF TokenInv, RetiredOwn, Member
<1>2. ASSUME NEW k, Backed(k)
      PROVE  Backed(k)'
  <2>1. PICK x \in driver : \/ \E s \in Member(x) : slots[s].token = k
                            \/ \E r \in RetiredAs(x) : r.token = k
    BY <1>2 DEF Backed
  <2>2. x \in driver'
    BY <2>1, BackedByNobodys
  <2> QED
    BY <2>1, <2>2 DEF Backed, Member, RetiredAs
<1>3. TokenNeverForgotten'
  BY <1>2 DEF TokenInv, TokenNeverForgotten, Backed
<1> QED
  BY <1>1, <1>3 DEF TokenInv

\* The labels of the slots are kept: what leads to a token still does.
LEMMA OnItsWayKept ==
  ASSUME TokenInv, PoolInv', App' = App,
         \A s \in Slots : slots'[s].transfer = slots[s].transfer /\ slots'[s].token = slots[s].token,
         UNCHANGED <<retired, answers>>
  PROVE  TokenOnItsWay'
<1>1. Submitting("app") /\ Marked("app") => Marked("app")'
  <2>1. Submitting("app") => App.slot \in Slots /\ App.transfer # Nothing
    BY PoolAssumption DEF TokenInv, PoolInv, WritersPlaced, Submitting, App, Tasks, Transfers, Nothing
  <2> QED
    BY <2>1 DEF PoolInv, SubmittersOwn, Submitting, Marked, App
<1>2. Submitting("app")' = Submitting("app")
  BY DEF Submitting, App
<1> QED
  BY <1>1, <1>2 DEF TokenInv, TokenOnItsWay, PoolInv, WritersPlaced, Submitting, App, Tasks

LEMMA LabelsKept ==
  ASSUME TokenInv, PoolInv',
         \A s \in Slots : slots'[s].transfer = slots[s].transfer /\ slots'[s].token = slots[s].token,
         \A x \in driver : context[x] = "none" => x \in driver',
         UNCHANGED <<retired, answers>>,
         \A r \in retired : heap'[r.transfer] = heap[r.transfer]
                            /\ context'[r.transfer] = context[r.transfer],
         App' = App \/ TokenOnItsWay'
  PROVE  TokenInv'
<1>1. TokenOnItsWay'
  BY OnItsWayKept
<1>2. \A s \in Slots, r \in retired : slots'[s].transfer # r.transfer
  BY DEF TokenInv, RetiredOwn, Member
<1>3. \A r \in retired : heap'[r.transfer] = "allocated" /\ context'[r.transfer] = "none"
  BY DEF TokenInv, RetiredOwn
<1> QED
  BY <1>1, <1>2, <1>3, TokenFrame

\* A writer without a token, and one whose token is still on its way.
LEMMA AppRests ==
  ASSUME TokenInv, App'.token = Nothing
  PROVE  TokenOnItsWay'
BY DEF TokenOnItsWay

LEMMA TokenTakePermit ==
  ASSUME TokenInv, PoolInv', NEW t \in Tasks, TakePermit(t)
  PROVE  TokenInv'
<1>1. UNCHANGED <<slots, retired, heap, driver, context, answers>>
  BY DEF TakePermit
<1>2. App' = App \/ TokenOnItsWay'
  <2>1. CASE t = "client"
    BY <2>1 DEF TakePermit, TokenInv, PoolInv, PoolTypes, App, Tasks
  <2>2. ASSUME t = "app", NEW k \in PoolTokens, \A s \in Slots : slots[s].token = Nothing,
               answers[k] = [accepted |-> FALSE, count |-> 0],
               writers' = [writers EXCEPT ![t] = [AtRest EXCEPT !.pc = "permit", !.token = k]]
        PROVE  TokenOnItsWay'
    <3>1. App' = [AtRest EXCEPT !.pc = "permit", !.token = k]
      BY <2>2 DEF App, TokenInv, PoolInv, PoolTypes, Tasks
    <3>2. App'.pc = "permit" /\ App'.token = k /\ ~App'.full
      BY <3>1 DEF AtRest
    <3> QED
      BY <1>1, <2>2, <3>2 DEF TokenOnItsWay, Submitting, App
  <2>3. ASSUME t = "app", NEW w,
               \/ \E full \in BOOLEAN : w = [AtRest EXCEPT !.pc = "permit", !.full = full]
               \/ w = [AtRest EXCEPT !.pc = "permit"],
               writers' = [writers EXCEPT ![t] = w]
        PROVE  TokenOnItsWay'
    <3>1. App' = w
      BY <2>3 DEF App, TokenInv, PoolInv, PoolTypes, Tasks
    <3>2. w.token = Nothing
      BY <2>3 DEF AtRest
    <3> QED
      BY <3>1, <3>2, AppRests
  <2> QED
    BY <2>1, <2>2, <2>3 DEF TakePermit, Tasks
<1> QED
  BY <1>1, <1>2, LabelsKept

LEMMA TokenMarkAcquired ==
  ASSUME TokenInv, PoolInv', NEW t \in Tasks, MarkAcquired(t)
  PROVE  TokenInv'
<1>1. UNCHANGED <<retired, heap, driver, context, answers>>
  BY DEF MarkAcquired
<1>2. \A s \in Slots : slots'[s].transfer = slots[s].transfer /\ slots'[s].token = slots[s].token
  BY DEF MarkAcquired, TokenInv, PoolInv, PoolTypes, SlotRecords
<1>3. CASE t = "client"
  <2>1. App' = App
    BY <1>3 DEF MarkAcquired, Rests, App, TokenInv, PoolInv, PoolTypes, Tasks
  <2> QED
    BY <1>1, <1>2, <2>1, LabelsKept
<1>4. CASE t = "app"
  <2>1. CASE FreeSlots = {}
    <3>1. App' = AtRest
      BY <1>4, <2>1 DEF MarkAcquired, Rests, App, TokenInv, PoolInv, PoolTypes, Tasks
    <3> QED
      BY <1>1, <1>2, <3>1, AppRests, RestIsCalm, LabelsKept
  <2>2. CASE FreeSlots # {}
    <3>1. /\ App.pc = "permit" /\ App'.pc = "holding" /\ App'.token = App.token
          /\ App'.full = App.full
      BY <1>4, <2>2 DEF MarkAcquired, App, TokenInv, PoolInv, PoolTypes, WriterRecords, Tasks
    <3>2. TokenOnItsWay'
      BY <1>1, <1>2, <3>1 DEF TokenInv, TokenOnItsWay, Submitting, App
    <3> QED
      BY <1>1, <1>2, <3>2, LabelsKept
  <2> QED
    BY <2>1, <2>2
<1> QED
  BY <1>3, <1>4 DEF Tasks

\* Steps that end a write without a token, or touch none of its own.
LEMMA TokenAtRest ==
  ASSUME TokenInv, PoolInv', NEW t \in Tasks, GiveUpZlp(t) \/ GiveBack(t)
  PROVE  TokenInv'
<1>1. UNCHANGED <<retired, heap, driver, context, answers>>
      /\ writers' = [writers EXCEPT ![t] = AtRest]
  BY DEF GiveUpZlp, GiveBack, Rests
<1>2. \A s \in Slots : slots'[s].transfer = slots[s].transfer /\ slots'[s].token = slots[s].token
  BY DEF GiveUpZlp, GiveBack, TokenInv, PoolInv, PoolTypes, SlotRecords
<1>3. App' = App \/ App' = AtRest
  BY <1>1 DEF App, TokenInv, PoolInv, PoolTypes, Tasks
<1> QED
  BY <1>1, <1>2, <1>3, AppRests, RestIsCalm, LabelsKept

\* The token of a write is put into its slot when no slot has one.
LEMMA TokenMark ==
  ASSUME TokenInv, PoolInv', NEW t \in Tasks, Mark(t)
  PROVE  TokenInv'
<1> DEFINE s == writers[t].slot
<1>1. UNCHANGED <<retired, heap, driver, context, answers>> /\ writers[t].pc = "holding"
      /\ s \in Slots /\ writers[t].transfer \in Transfers
  BY DEF Mark, TokenInv, PoolInv, WritersPlaced
<1>2. CASE Rests(t) /\ UNCHANGED slots
  <2>1. App' = App \/ App' = AtRest
    BY <1>2 DEF Rests, App, TokenInv, PoolInv, PoolTypes, Tasks
  <2> QED
    BY <1>1, <1>2, <2>1, AppRests, RestIsCalm, LabelsKept
<1>3. CASE Holds(t) /\ ~(pool.halted /\ t = "client")
  <2> DEFINE token == IF writers[t].token = Nothing THEN slots[s].token ELSE writers[t].token
  <2>1. /\ slots' = [slots EXCEPT ![s] = [slots[s] EXCEPT !.state = "inflight", !.token = token]]
        /\ Goes(t, "submitting")
    BY <1>1, <1>3 DEF Mark, TokenInv, PoolInv, PoolTypes, SlotRecords
  <2>2. slots[s] \in SlotRecords /\ slots[s].transfer = writers[t].transfer
    BY <1>1, <1>3 DEF Holds, TokenInv, PoolInv, PoolTypes
  <2>3. /\ \A r \in Slots \ {s} : slots'[r] = slots[r]
        /\ slots'[s].transfer = slots[s].transfer /\ slots'[s].state = "inflight"
        /\ slots'[s].token = token
    <3> HIDE DEF s, token
    <3> QED
      BY <1>1, <2>1, <2>2 DEF TokenInv, PoolInv, PoolTypes, SlotRecords
  <2>4. CASE writers[t].token = Nothing
    <3>1. \A r \in Slots : slots'[r].transfer = slots[r].transfer /\ slots'[r].token = slots[r].token
      BY <2>3, <2>4
    <3>2. App' = App \/ App'.token = Nothing
      BY <2>1, <2>4 DEF Goes, App, TokenInv, PoolInv, PoolTypes, WriterRecords, Tasks
    <3> QED
      BY <1>1, <3>1, <3>2, AppRests, LabelsKept
  <2>5. CASE writers[t].token # Nothing
    <3>1. t = "app"
      BY <2>5 DEF TokenInv, PoolInv, WritersPlaced, Client, Tasks
    <3>2. /\ App'.pc = "submitting" /\ App'.token = App.token /\ App'.full = App.full
          /\ App'.slot = App.slot /\ App'.transfer = App.transfer
      BY <2>1, <3>1 DEF Goes, App, TokenInv, PoolInv, PoolTypes, WriterRecords, Tasks
    <3>3. \A r \in Slots : slots[r].token = Nothing
      BY <1>1, <2>5, <3>1 DEF TokenInv, TokenOnItsWay, App
    <3>4. TokenOnItsWay'
      BY <1>1, <2>2, <2>3, <2>5, <3>1, <3>2 DEF TokenInv, TokenOnItsWay, Submitting, Marked, App
    <3>5. RetiredOwn'
      BY <1>1, <2>3 DEF TokenInv, RetiredOwn, Member
    <3>6. TokenNeverForgotten'
      <4>1. \A k \in PoolTokens : k # Nothing
        BY PoolAssumption
      <4>2. \A k \in PoolTokens : Backed(k) => Backed(k)'
        BY <1>1, <3>3, <4>1 DEF Backed, Member, RetiredAs
      <4> QED
        BY <1>1, <4>2 DEF TokenInv, TokenNeverForgotten, Backed
    <3> QED
      BY <3>4, <3>5, <3>6 DEF TokenInv
  <2> QED
    BY <2>4, <2>5
<1> QED
  BY <1>2, <1>3 DEF Mark

\* An accepted write leads to its token, unless that has been answered already;
\* a refused one had no transfer with the driver.
LEMMA TokenSubmitSlot ==
  ASSUME TokenInv, PoolInv', NEW t \in Tasks, SubmitSlot(t)
  PROVE  TokenInv'
<1> DEFINE s == writers[t].slot
           x == writers[t].transfer
<1>1. /\ writers[t].pc = "submitting" /\ s \in Slots /\ x \in Transfers /\ x \notin driver
      /\ UNCHANGED <<retired, heap, context>>
  BY DEF SubmitSlot, Submitting, TokenInv, PoolInv, WritersPlaced, SubmittersOwn
<1>2. CASE writers[t].token = Nothing /\ UNCHANGED <<slots, answers>> /\ driver' = driver \cup {x}
           /\ (IF writers[t].full THEN Goes(t, "zlp") ELSE Rests(t))
  <2>1. App' = App \/ App'.token = Nothing
    BY <1>2, RestIsCalm DEF Goes, Rests, App, TokenInv, PoolInv, PoolTypes, WriterRecords, Tasks
  <2> QED
    BY <1>1, <1>2, <2>1, AppRests, LabelsKept
<1>3. CASE writers[t].token # Nothing /\ UNCHANGED slots /\ driver' = driver \cup {x}
           /\ answers' = [answers EXCEPT ![writers[t].token].accepted = TRUE]
           /\ (IF writers[t].full THEN Goes(t, "zlp") ELSE Rests(t))
  <2>0. PICK k, y, r : k = writers[t].token /\ y = x /\ r = s
    OBVIOUS
  <2>1. t = "app" /\ k \in PoolTokens /\ ~App.full
    BY <1>3, <2>0 DEF TokenInv, PoolInv, PoolTypes, WritersPlaced, WriterRecords, TokenOnItsWay,
                      OrNothing, App, Client, Tasks
  <2>2. App' = AtRest
    BY <1>3, <2>1 DEF Rests, App, TokenInv, PoolInv, PoolTypes, Tasks
  <2>3. TokenOnItsWay' /\ RetiredOwn'
    BY <1>1, <1>3, <2>2, AppRests, RestIsCalm DEF TokenInv, RetiredOwn, Member
  <2>4. \A j \in PoolTokens : Backed(j) => Backed(j)'
    BY <1>1, <1>3 DEF Backed, Member, RetiredAs
  <2>5. answers[k].count > 0 \/ Backed(k)'
    <3>1. \/ Marked("app") /\ slots[r].token = k
          \/ answers[k].count > 0
          \/ [transfer |-> y, token |-> k] \in retired
      BY <1>1, <1>3, <2>0, <2>1 DEF TokenInv, TokenOnItsWay, Submitting, App
    <3>2. CASE Marked("app") /\ slots[r].token = k
      <4>1. r \in Member(y)' /\ slots'[r].token = k /\ y \in driver'
        BY <1>1, <1>3, <2>0, <2>1, <3>2 DEF Member, Marked
      <4> QED
        BY <4>1 DEF Backed
    <3>3. CASE [transfer |-> y, token |-> k] \in retired
      <4>1. [transfer |-> y, token |-> k] \in RetiredAs(y)' /\ y \in driver'
        BY <1>1, <1>3, <2>0, <3>3 DEF RetiredAs
      <4> QED
        BY <4>1 DEF Backed
    <3> QED
      BY <3>1, <3>2, <3>3
  <2>6. /\ \A j \in PoolTokens \ {k} : answers'[j] = answers[j]
        /\ answers'[k].count = answers[k].count
    BY <1>3, <2>0, <2>1 DEF TokenInv, PoolInv, PoolTypes
  <2>7. \A j \in PoolTokens : answers[j].count \in Nat
    BY DEF TokenInv, PoolInv, PoolTypes
  <2>8. \A j \in PoolTokens : answers'[j].accepted /\ answers'[j].count = 0 => Backed(j)'
    <3>1. \A j \in PoolTokens : answers[j].accepted /\ answers[j].count = 0 => Backed(j)
      BY DEF TokenInv, TokenNeverForgotten, Backed
    <3> QED
      BY <2>1, <2>4, <2>5, <2>6, <2>7, <3>1
  <2>9. TokenNeverForgotten'
    BY <2>8 DEF TokenNeverForgotten, Backed
  <2> QED
    BY <2>3, <2>9 DEF TokenInv
<1>4. CASE slots' = [slots EXCEPT ![s].state = "free",
                          ![s].token = IF writers[t].token = Nothing THEN @ ELSE Nothing]
           /\ Rests(t) /\ UNCHANGED <<driver, answers>>
  <2> DEFINE token == IF writers[t].token = Nothing THEN slots[s].token ELSE Nothing
  <2>1. slots' = [slots EXCEPT ![s] = [slots[s] EXCEPT !.state = "free", !.token = token]]
    BY <1>1, <1>4 DEF TokenInv, PoolInv, PoolTypes, SlotRecords
  <2>2. /\ slots'[s].transfer = slots[s].transfer /\ slots'[s].token = token
        /\ \A r \in Slots \ {s} : slots'[r] = slots[r]
    <3>1. slots[s] \in SlotRecords
      BY <1>1 DEF TokenInv, PoolInv, PoolTypes
    <3> HIDE DEF s, token
    <3> QED
      BY <1>1, <2>1, <3>1 DEF TokenInv, PoolInv, PoolTypes, SlotRecords
  <2>3. slots[s].transfer \in {x, Nothing} /\ slots[s].transfer \notin driver
    BY <1>1, PoolAssumption
    DEF TokenInv, PoolInv, PoolTypes, SubmittersOwn, Submitting, Marked, Tasks, Transfers, Nothing
  <2>4. \A r \in Slots : slots[r].transfer \in driver =>
             slots'[r].transfer = slots[r].transfer /\ slots'[r].token = slots[r].token
    BY <2>2, <2>3
  <2>5. \A r \in Slots, q \in retired : slots'[r].transfer # q.transfer
    BY <2>2 DEF TokenInv, RetiredOwn, Member
  <2>6. TokenOnItsWay'
    <3>1. CASE t = "app"
      <4>1. App' = AtRest
        BY <1>4, <3>1 DEF Rests, App, TokenInv, PoolInv, PoolTypes, Tasks
      <4> QED
        BY <4>1, AppRests, RestIsCalm
    <3>2. CASE t = "client"
      <4>1. App' = App /\ writers[t].token = Nothing
        BY <1>4, <3>2 DEF Rests, App, Client, TokenInv, PoolInv, PoolTypes, WritersPlaced, Tasks
      <4> QED
        BY <1>1, <1>4, <2>2, <4>1, OnItsWayKept
    <3> QED
      BY <3>1, <3>2 DEF Tasks
  <2>7. \A r \in retired : heap'[r.transfer] = "allocated" /\ context'[r.transfer] = "none"
    BY <1>1 DEF TokenInv, RetiredOwn
  <2> QED
    BY <1>1, <1>4, <2>4, <2>5, <2>6, <2>7, TokenFrame
<1> QED
  BY <1>2, <1>3, <1>4 DEF SubmitSlot

\* Steps outside the pool: a transfer that is retired is none of theirs.
LEMMA TokenOutsidePool ==
  ASSUME TokenInv, PoolInv',
         \/ \E t \in Tasks : SendOnce(t)
         \/ WriteAndWait \/ Abandon \/ TakeDone \/ GiveDone \/ DeviceBack \/ QueueEnd
         \/ \E x \in Transfers : WriteReturns(x)
  PROVE  TokenInv'
<1>1. UNCHANGED <<slots, retired, answers>>
  BY DEF SendOnce, WriteAndWait, Abandon, TakeDone, GiveDone, DeviceBack, QueueEnd, WriteReturns
<1>2. \A x \in driver : context[x] = "none" => x \in driver'
  BY DEF SendOnce, WriteAndWait, Abandon, TakeDone, GiveDone, DeviceBack, QueueEnd, WriteReturns
<1>3. \A r \in retired : heap'[r.transfer] = heap[r.transfer]
                         /\ context'[r.transfer] = context[r.transfer]
  <2> SUFFICES ASSUME NEW r \in retired
               PROVE  heap'[r.transfer] = heap[r.transfer] /\ context'[r.transfer] = context[r.transfer]
    OBVIOUS
  <2>1. r.transfer \in Transfers /\ heap[r.transfer] = "allocated" /\ context[r.transfer] = "none"
    BY DEF TokenInv, PoolInv, PoolTypes, RetiredOwn
  <2>2. First(UnusedTransfers) # r.transfer \/ UnusedTransfers = {}
    BY <2>1, FirstOf, PoolAssumption DEF UnusedTransfers, Transfers
  <2>3. CASE \E t \in Tasks : SendOnce(t)
    BY <2>1, <2>2, <2>3 DEF SendOnce, TokenInv, PoolInv, PoolTypes
  <2>4. CASE WriteAndWait
    BY <2>1, <2>2, <2>4 DEF WriteAndWait, TokenInv, PoolInv, PoolTypes
  <2>5. CASE Abandon
    BY <2>1, <2>5 DEF Abandon, TokenInv, PoolInv, PoolTypes
  <2>6. CASE TakeDone
    BY <2>1, <2>6 DEF TakeDone, FreedIn, TokenInv, PoolInv, PoolTypes
  <2>7. CASE GiveDone
    <3>1. Client.pc = "giving" /\ context[Client.transfer] = "callback"
          /\ context' = [context EXCEPT ![Client.transfer] = "given"] /\ UNCHANGED heap
      BY <2>7 DEF GiveDone, Client, TokenInv, PoolInv, ContextsOwn
    <3> QED
      BY <2>1, <3>1 DEF TokenInv, PoolInv, PoolTypes
  <2>8. CASE DeviceBack \/ QueueEnd
    BY <2>8 DEF DeviceBack, QueueEnd
  <2>9. ASSUME NEW x \in Transfers, WriteReturns(x)
        PROVE  heap'[r.transfer] = heap[r.transfer] /\ context'[r.transfer] = context[r.transfer]
    <3>1. context[x] # "none" /\ r.transfer # x
      BY <2>1, <2>9 DEF WriteReturns
    <3>2. CASE context[x] = "abandoned"
      <4>1. /\ heap' = [heap EXCEPT ![x] = IF @ = "allocated" THEN "freed" ELSE "broken"]
            /\ context' = context
        BY <2>9, <3>2 DEF WriteReturns
      <4> QED
        BY <2>1, <3>1, <4>1 DEF TokenInv, PoolInv, PoolTypes
    <3>3. CASE context[x] # "abandoned"
      <4>1. context' = [context EXCEPT ![x] = "callback"] /\ heap' = heap
        BY <2>9, <3>3 DEF WriteReturns
      <4> QED
        BY <2>1, <3>1, <4>1 DEF TokenInv, PoolInv, PoolTypes
    <3> QED
      BY <3>2, <3>3
  <2> QED
    BY <2>3, <2>4, <2>5, <2>6, <2>7, <2>8, <2>9
<1>4. App' = App \/ App'.token = Nothing
  <2>1. CASE (\E t \in Tasks : SendOnce(t)) \/ DeviceBack \/ \E x \in Transfers : WriteReturns(x)
    BY <2>1 DEF SendOnce, DeviceBack, WriteReturns, App, TokenInv, PoolInv, PoolTypes, Tasks
  <2>2. CASE WriteAndWait
    BY <2>2 DEF WriteAndWait, AtRest, App, TokenInv, PoolInv, PoolTypes, Tasks
  <2>3. CASE Abandon \/ TakeDone \/ QueueEnd
    <3>1. App.token = Nothing
      BY <2>3 DEF Abandon, TakeDone, QueueEnd, App, TokenInv, TokenOnItsWay
    <3> QED
      BY <2>3, <3>1, RestIsCalm
      DEF Abandon, TakeDone, QueueEnd, Goes, Rests, App, TokenInv, PoolInv, PoolTypes, WriterRecords, Tasks
  <2>4. CASE GiveDone
    BY <2>4 DEF GiveDone, Rests, App, TokenInv, PoolInv, PoolTypes, Tasks
  <2> QED
    BY <2>1, <2>2, <2>3, <2>4
<1> QED
  BY <1>1, <1>2, <1>3, <1>4, AppRests, LabelsKept

LEMMA TokenQueueBegin ==
  ASSUME TokenInv, PoolInv', QueueBegin
  PROVE  TokenInv'
<1>1. /\ \A s \in Slots : slots[s].transfer = Nothing
      /\ App.token = Nothing /\ UNCHANGED <<retired, driver, writers, context, answers>>
  BY DEF QueueBegin, App, TokenInv, PoolInv, GonePoolEmpty, TokenOnItsWay
<1>2. PICK fresh \in [Slots -> UnusedTransfers] :
          /\ slots' = [s \in Slots |-> [slots[s] EXCEPT !.state = "free", !.transfer = fresh[s]]]
          /\ heap' = [x \in Transfers |-> IF \E s \in Slots : fresh[s] = x THEN "allocated" ELSE heap[x]]
  BY DEF QueueBegin
<1>3. \A s \in Slots : slots[s].transfer \notin driver
  BY <1>1, PoolAssumption DEF TokenInv, PoolInv, PoolTypes, Transfers, Nothing
<1>4. \A s \in Slots : slots'[s].transfer = fresh[s] /\ heap[fresh[s]] = "unused"
  <2>1. \A s \in Slots : slots[s] \in SlotRecords
    BY DEF TokenInv, PoolInv, PoolTypes
  <2> QED
    BY <1>2, <2>1 DEF SlotRecords, UnusedTransfers
<1>5. \A s \in Slots, r \in retired : slots'[s].transfer # r.transfer
  BY <1>4 DEF TokenInv, RetiredOwn
<1>6. \A r \in retired : heap'[r.transfer] = "allocated" /\ context'[r.transfer] = "none"
  BY <1>1, <1>2 DEF TokenInv, PoolInv, PoolTypes, RetiredOwn
<1>7. TokenOnItsWay'
  BY <1>1, AppRests DEF App
<1> QED
  BY <1>1, <1>3, <1>5, <1>6, <1>7, TokenFrame

\* The completion of a transfer answers the token that it leads to, and no other.
LEMMA TokenPooledReturns ==
  ASSUME TokenInv, PoolInv', NEW x \in Transfers, NEW broken \in BOOLEAN, PooledReturns(x, broken)
  PROVE  TokenInv'
<1>0. PICK s \in Slots : s = First(Member(x)) /\ slots[s].transfer = x
                         /\ \A r \in Slots \ {s} : slots[r].transfer # x
  BY OneMember DEF PooledReturns, TokenInv
<1>1. /\ x \in driver /\ driver' = driver \ {x}
      /\ slots' = [slots EXCEPT ![s] = [slots[s] EXCEPT !.state = "free", !.token = Nothing]]
      /\ answers' = IF slots[s].token = Nothing THEN answers ELSE Told(slots[s].token)
      /\ UNCHANGED <<retired, heap, writers, context>>
  BY <1>0 DEF PooledReturns, TokenInv, PoolInv, PoolTypes, SlotRecords
<1>2. /\ slots'[s].transfer = x /\ slots'[s].token = Nothing
      /\ \A r \in Slots \ {s} : slots'[r] = slots[r]
  <2>1. slots[s] \in SlotRecords
    BY DEF TokenInv, PoolInv, PoolTypes
  <2> QED
    BY <1>0, <1>1, <2>1 DEF TokenInv, PoolInv, PoolTypes, SlotRecords
<1>3. RetiredAs(x) = {}
  BY <1>0 DEF TokenInv, RetiredOwn, Member, RetiredAs
<1>4. RetiredOwn'
  BY <1>0, <1>1, <1>2 DEF TokenInv, RetiredOwn, Member
<1>5. \A k \in PoolTokens : /\ answers'[k].accepted = answers[k].accepted
                            /\ answers[k].count \in Nat /\ answers'[k].count \in Nat
                            /\ answers'[k].count >= answers[k].count
                            /\ slots[s].token = k => answers'[k].count > 0
  <2>1. slots[s].token \in OrNothing(PoolTokens)
    BY DEF TokenInv, PoolInv, PoolTypes, SlotRecords
  <2>2. \A k \in PoolTokens : answers[k] \in [accepted : BOOLEAN, count : Nat]
    BY DEF TokenInv, PoolInv, PoolTypes
  <2>3. CASE slots[s].token = Nothing
    BY <1>1, <2>2, <2>3, PoolAssumption
  <2>4. CASE slots[s].token # Nothing
    BY <1>1, <2>1, <2>2, <2>4 DEF Told, OrNothing, TokenInv, PoolInv, PoolTypes
  <2> QED
    BY <2>3, <2>4
<1>6. ASSUME NEW k \in PoolTokens, slots[s].token # k, Backed(k)
      PROVE  Backed(k)'
  <2>1. PICK y \in driver : \/ \E r \in Member(y) : slots[r].token = k
                            \/ \E r \in RetiredAs(y) : r.token = k
    BY <1>6 DEF Backed
  <2>2. CASE \E r \in RetiredAs(y) : r.token = k
    <3>1. y # x
      BY <1>3, <2>2
    <3> QED
      BY <1>1, <2>2, <3>1 DEF Backed, RetiredAs
  <2>3. ASSUME NEW r \in Member(y), slots[r].token = k
        PROVE  Backed(k)'
    <3>1. r \in Slots \ {s} /\ y # x
      BY <1>0, <1>6, <2>3 DEF Member
    <3> QED
      BY <1>1, <1>2, <2>3, <3>1 DEF Backed, Member
  <2> QED
    BY <2>1, <2>2, <2>3
<1>7. TokenNeverForgotten'
  <2>1. \A k \in PoolTokens : answers[k].accepted /\ answers[k].count = 0 => Backed(k)
    BY DEF TokenInv, TokenNeverForgotten, Backed
  <2>2. \A k \in PoolTokens : answers'[k].accepted /\ answers'[k].count = 0 => Backed(k)'
    BY <1>5, <1>6, <2>1
  <2> QED
    BY <2>2 DEF TokenNeverForgotten, Backed
<1>8. TokenOnItsWay'
  <2>1. App' = App
    BY <1>1 DEF App
  <2>2. Submitting("app") => App.transfer # x
    BY <1>1 DEF TokenInv, PoolInv, SubmittersOwn, App, Tasks
  <2>3. Submitting("app") => App.slot \in Slots
    BY DEF TokenInv, PoolInv, WritersPlaced, Submitting, App, Tasks
  <2>4. Submitting("app") /\ Marked("app") => App.slot # s /\ Marked("app")'
    BY <1>0, <1>1, <1>2, <2>2, <2>3 DEF Marked, App
  <2>5. App.token # Nothing => App.token \in PoolTokens
    BY DEF TokenInv, PoolInv, PoolTypes, WriterRecords, OrNothing, App, Tasks
  <2>6. Submitting("app")' = Submitting("app")
    BY <1>1 DEF Submitting
  <2>7. App.pc \in {"permit", "holding"} /\ (\A r \in Slots : slots[r].token = Nothing)
           => \A r \in Slots : slots'[r].token = Nothing
    BY <1>2
  <2> QED
    BY <1>1, <1>2, <1>5, <2>1, <2>3, <2>4, <2>5, <2>6, <2>7 DEF TokenInv, TokenOnItsWay
<1> QED
  BY <1>4, <1>7, <1>8 DEF TokenInv

\* A retired transfer that comes back answers the token kept with it.
LEMMA TokenOrphanReturns ==
  ASSUME TokenInv, PoolInv', NEW x \in Transfers, OrphanReturns(x)
  PROVE  TokenInv'
<1>1. /\ x \in driver /\ driver' = driver \ {x} /\ retired' = retired \ RetiredAs(x)
      /\ \A y \in Transfers \ {x} : heap'[y] = heap[y]
      /\ answers' = IF RetiredAs(x) = {} THEN answers
                    ELSE Told((CHOOSE r \in RetiredAs(x) : TRUE).token)
      /\ Member(x) = {} /\ UNCHANGED <<pool, slots, writers, context>>
  BY DEF OrphanReturns, TokenInv, PoolInv, PoolTypes
<1>2. \A r \in retired' : r \in retired /\ r.transfer # x
  BY <1>1 DEF RetiredAs
<1>3. RetiredOwn'
  <2>1. \A r \in retired : r.transfer \in Transfers
    BY DEF TokenInv, PoolInv, PoolTypes
  <2> QED
    BY <1>1, <1>2, <2>1 DEF TokenInv, RetiredOwn, Member
<1>4. \A k \in PoolTokens : /\ answers'[k].accepted = answers[k].accepted
                            /\ answers[k].count \in Nat /\ answers'[k].count \in Nat
                            /\ answers'[k].count >= answers[k].count
                            /\ (\E r \in RetiredAs(x) : r.token = k) => answers'[k].count > 0
  <2>1. \A k \in PoolTokens : answers[k] \in [accepted : BOOLEAN, count : Nat]
    BY DEF TokenInv, PoolInv, PoolTypes
  <2>2. CASE RetiredAs(x) = {}
    BY <1>1, <2>1, <2>2
  <2>3. CASE RetiredAs(x) # {}
    <3>1. PICK q \in RetiredAs(x) : q = CHOOSE r \in RetiredAs(x) : TRUE
      BY <2>3
    <3>2. q \in retired /\ q.transfer = x /\ q.token \in PoolTokens
      BY <3>1 DEF RetiredAs, TokenInv, PoolInv, PoolTypes
    <3>3. \A r \in RetiredAs(x) : r = q
      BY <3>2 DEF RetiredAs, TokenInv, RetiredOwn
    <3>4. answers' = Told(q.token)
      BY <1>1, <2>3, <3>1
    <3> QED
      BY <2>1, <3>2, <3>3, <3>4 DEF Told, TokenInv, PoolInv, PoolTypes
  <2> QED
    BY <2>2, <2>3
<1>5. ASSUME NEW k \in PoolTokens, ~\E r \in RetiredAs(x) : r.token = k, Backed(k)
      PROVE  Backed(k)'
  <2>1. PICK y \in driver : \/ \E r \in Member(y) : slots[r].token = k
                            \/ \E r \in RetiredAs(y) : r.token = k
    BY <1>5 DEF Backed
  <2>2. y # x /\ y \in driver'
    BY <1>1, <1>5, <2>1
  <2>3. RetiredAs(y) = RetiredAs(y)'
    BY <1>1, <2>2 DEF RetiredAs
  <2> QED
    BY <1>1, <2>1, <2>2, <2>3 DEF Backed, Member
<1>6. TokenNeverForgotten'
  <2>1. \A k \in PoolTokens : answers[k].accepted /\ answers[k].count = 0 => Backed(k)
    BY DEF TokenInv, TokenNeverForgotten, Backed
  <2>2. \A k \in PoolTokens : answers'[k].accepted /\ answers'[k].count = 0 => Backed(k)'
    BY <1>4, <1>5, <2>1
  <2> QED
    BY <2>2 DEF TokenNeverForgotten, Backed
<1>7. TokenOnItsWay'
  <2>1. App' = App /\ Submitting("app")' = Submitting("app") /\ Marked("app")' = Marked("app")
    BY <1>1 DEF App, Submitting, Marked
  <2>2. Submitting("app") => App.transfer # x
    BY <1>1 DEF TokenInv, PoolInv, SubmittersOwn, App, Tasks
  <2>3. App.token # Nothing => App.token \in PoolTokens
    BY DEF TokenInv, PoolInv, PoolTypes, WriterRecords, OrNothing, App, Tasks
  <2>4. Submitting("app") => \A r \in retired : r.transfer = App.transfer => r \in retired'
    BY <1>1, <2>2 DEF RetiredAs
  <2> QED
    BY <1>1, <1>4, <2>1, <2>3, <2>4 DEF TokenInv, TokenOnItsWay
<1> QED
  BY <1>3, <1>6, <1>7 DEF TokenInv

\* The pool goes: what it had in flight is kept in the table, or answered.
LEMMA TokenRelease ==
  ASSUME TokenInv, PoolInv', NEW keepTokens \in BOOLEAN, Release(keepTokens),
         UNCHANGED <<driver, context>>,
         App' = App \/ App'.token = Nothing
  PROVE  TokenInv'
<1> DEFINE tokened == {s \in InFlight : slots[s].token # Nothing}
           leaving == {[transfer |-> slots[s].transfer, token |-> slots[s].token] : s \in tokened}
<1>1. \/ retired' = retired \cup leaving /\ answers' = answers
      \/ /\ retired' = retired
         /\ answers' = [k \in PoolTokens |-> IF \E r \in leaving : r.token = k
                                             THEN [answers[k] EXCEPT !.count = @ + 1]
                                             ELSE answers[k]]
  BY DEF Release
<1>2. \A r \in leaving : \E s \in Slots : /\ slots[s].transfer = r.transfer /\ slots[s].token = r.token
                                          /\ slots[s].state = "inflight" /\ r.transfer # Nothing
  BY DEF InFlight
<1>3. ASSUME NEW s \in Slots, slots[s].state = "inflight", slots[s].transfer # Nothing,
             slots[s].token # Nothing
      PROVE  \E r \in leaving : r.transfer = slots[s].transfer /\ r.token = slots[s].token
  <2>1. [transfer |-> slots[s].transfer, token |-> slots[s].token] \in leaving
    BY <1>3 DEF InFlight
  <2> QED
    BY <2>1
<1>4. leaving \in SUBSET [transfer : Transfers, token : PoolTokens]
  BY DEF InFlight, TokenInv, PoolInv, PoolTypes, SlotRecords, OrNothing
<1>5. \A r, q \in leaving : r.transfer = q.transfer => r = q
  <2> SUFFICES ASSUME NEW s \in tokened, NEW u \in tokened, slots[s].transfer = slots[u].transfer
               PROVE  s = u
    BY DEF InFlight
  <2> QED
    BY DEF InFlight, TokenInv, PoolInv, SlotsOwn
<1> HIDE DEF tokened, leaving
<1>6. \A s \in Slots : slots'[s].transfer = Nothing
  BY ReleaseEffect DEF TokenInv
<1>7. RetiredOwn'
  <2>1. \A r \in retired \cup leaving : r.transfer \in Transfers
    BY <1>4 DEF TokenInv, PoolInv, PoolTypes
  <2>2. \A r \in retired : heap'[r.transfer] = "allocated" /\ context'[r.transfer] = "none"
    <3>1. \A r \in retired : /\ heap[r.transfer] = "allocated" /\ context[r.transfer] = "none"
                             /\ ~\E s \in Slots : slots[s].transfer = r.transfer
      BY DEF TokenInv, RetiredOwn, Member
    <3> QED
      BY <2>1, <3>1, ReleaseEffect DEF TokenInv
  <2>3. \A r \in leaving : heap'[r.transfer] = "allocated" /\ context'[r.transfer] = "none"
    <3>1. \A r \in leaving : /\ heap[r.transfer] = "allocated" /\ context[r.transfer] = "none"
                             /\ \A s \in Slots : slots[s].transfer = r.transfer => slots[s].state = "inflight"
      BY <1>2 DEF TokenInv, PoolInv, SlotsOwn
    <3> QED
      BY <2>1, <3>1, ReleaseEffect DEF TokenInv
  <2>4. \A r \in retired, q \in leaving : r.transfer # q.transfer
    BY <1>2 DEF TokenInv, RetiredOwn, Member
  <2>5. \A r \in retired' : r \in retired \cup leaving
    BY <1>1
  <2>6. \A r \in retired' : Member(r.transfer)' = {}
    BY <1>6, <2>1, <2>5, PoolAssumption DEF Member, Transfers, Nothing
  <2>7. \A r, q \in retired' : q.transfer = r.transfer => q = r
    BY <1>5, <2>4, <2>5 DEF TokenInv, RetiredOwn
  <2> QED
    BY <2>2, <2>3, <2>5, <2>6, <2>7 DEF RetiredOwn
<1>8. \A k \in PoolTokens : /\ answers'[k].accepted = answers[k].accepted
                            /\ answers[k].count \in Nat /\ answers'[k].count \in Nat
                            /\ answers'[k].count >= answers[k].count
                            /\ \A r \in leaving : r.token = k => r \in retired' \/ answers'[k].count > 0
  <2>1. \A k \in PoolTokens : answers[k] \in [accepted : BOOLEAN, count : Nat]
    BY DEF TokenInv, PoolInv, PoolTypes
  <2> QED
    BY <1>1, <2>1
<1>9. retired \subseteq retired'
  BY <1>1
<1>10. ASSUME NEW k \in PoolTokens, Backed(k), answers'[k].count = 0
       PROVE  Backed(k)'
  <2>1. PICK y \in driver : \/ \E s \in Member(y) : slots[s].token = k
                            \/ \E r \in RetiredAs(y) : r.token = k
    BY <1>10 DEF Backed
  <2>2. y \in driver' /\ y # Nothing /\ k # Nothing
    BY <2>1, PoolAssumption DEF TokenInv, PoolInv, PoolTypes, Transfers, Nothing
  <2>3. \E r \in retired' : r.transfer = y /\ r.token = k
    <3>1. ASSUME NEW s \in Member(y), slots[s].token = k
          PROVE  \E r \in retired' : r.transfer = y /\ r.token = k
      <4>1. s \in Slots /\ slots[s].transfer = y /\ slots[s].state = "inflight"
        BY <2>1, <2>2, <3>1 DEF Member, TokenInv, PoolInv, SlotsOwn
      <4>2. PICK r \in leaving : r.transfer = y /\ r.token = k
        BY <1>3, <2>2, <3>1, <4>1
      <4>3. r \in retired'
        BY <1>8, <1>10, <4>2
      <4> QED
        BY <4>2, <4>3
    <3> QED
      BY <1>9, <2>1, <3>1 DEF RetiredAs
  <2> QED
    BY <2>2, <2>3 DEF Backed, RetiredAs
<1>11. TokenNeverForgotten'
  <2>1. \A k \in PoolTokens : answers[k].accepted /\ answers[k].count = 0 => Backed(k)
    BY DEF TokenInv, TokenNeverForgotten, Backed
  <2>2. \A k \in PoolTokens : answers'[k].accepted /\ answers'[k].count = 0 => Backed(k)'
    BY <1>8, <1>10, <2>1
  <2> QED
    BY <2>2 DEF TokenNeverForgotten, Backed
<1>12. TokenOnItsWay'
  <2>1. CASE App'.token = Nothing
    BY <2>1, AppRests
  <2>2. CASE App' = App /\ App.token # Nothing
    <3>1. App.token \in PoolTokens
      BY <2>2 DEF TokenInv, PoolInv, PoolTypes, WriterRecords, OrNothing, App, Tasks
    <3>2. Submitting("app")' = Submitting("app")
      BY <2>2 DEF App, Submitting
    <3>3. App.pc \in {"permit", "holding"} => \A s \in Slots : slots'[s].token = Nothing
      <4>1. App.pc \in {"permit", "holding"} => \A s \in Slots : slots[s].token = Nothing
        BY <2>2 DEF TokenInv, TokenOnItsWay
      <4> QED
        BY <4>1 DEF Release, EmptySlot
    <3>4. ASSUME Submitting("app"), Marked("app"), slots[App.slot].token = App.token
          PROVE  \/ answers'[App.token].count > 0
                 \/ [transfer |-> App.transfer, token |-> App.token] \in retired'
      <4>1. /\ App.slot \in Slots /\ App.transfer # Nothing
            /\ slots[App.slot].state = "inflight" /\ slots[App.slot].transfer = App.transfer
        BY <3>4, PoolAssumption
        DEF TokenInv, PoolInv, WritersPlaced, Submitting, Marked, App, Tasks, Transfers, Nothing
      <4>2. PICK r \in leaving : r.transfer = App.transfer /\ r.token = App.token
        BY <1>3, <2>2, <3>4, <4>1
      <4>3. r = [transfer |-> App.transfer, token |-> App.token]
        BY <1>4, <4>2
      <4> QED
        BY <1>8, <3>1, <4>2, <4>3
    <3> QED
      BY <1>8, <1>9, <2>2, <3>1, <3>2, <3>3, <3>4 DEF TokenInv, TokenOnItsWay
  <2> QED
    BY <2>1, <2>2 DEF TokenOnItsWay
<1> QED
  BY <1>7, <1>11, <1>12 DEF TokenInv

LEMMA TokenInitially == PoolInit => TokenInv
<1> SUFFICES ASSUME PoolInit
             PROVE  TokenInv
  OBVIOUS
<1> QED
  BY PoolInitially, RestIsCalm DEF PoolInit, TokenInv, RetiredOwn, TokenOnItsWay, TokenNeverForgotten, App

LEMMA TokenStep == TokenInv /\ [PoolNext]_poolVars => TokenInv'
<1> SUFFICES ASSUME TokenInv, [PoolNext]_poolVars
             PROVE  TokenInv'
  OBVIOUS
<1>1. PoolInv'
  BY PoolStep DEF TokenInv
<1>2. CASE UNCHANGED poolVars
  BY <1>1, <1>2, LabelsKept DEF poolVars, App
<1>3. CASE PoolDeviceGone \/ Drained
  <2>1. CASE PoolDeviceGone
    BY <1>1, <2>1, TokenRelease DEF PoolDeviceGone, App
  <2>2. CASE Drained
    <3>1. App' = AtRest
      BY <2>2 DEF Drained, Rests, App, TokenInv, PoolInv, PoolTypes, Tasks
    <3> QED
      BY <1>1, <2>2, <3>1, TokenRelease, RestIsCalm DEF Drained
  <2> QED
    BY <1>3, <2>1, <2>2
<1> QED
  BY <1>1, <1>2, <1>3, TokenTakePermit, TokenAtRest, TokenMarkAcquired, TokenMark, TokenSubmitSlot,
     TokenOutsidePool, TokenQueueBegin, TokenPooledReturns, TokenOrphanReturns
  DEF PoolNext, Tasks

(* The token of an accepted serial write is never forgotten                *)
(* (serialWriteSubmit, releaseSerialOutQueue, serialOutTransferCallback):  *)
(* until it has been answered a transfer that the driver holds leads to    *)
(* it, through its slot or, when the pool is gone, through the table of    *)
(* retired transfers.                                                      *)
THEOREM TokensKept == PoolSpec => []TokenNeverForgotten
<1>1. TokenInv => TokenNeverForgotten
  BY DEF TokenInv
<1> QED
  BY <1>1, TokenInitially, TokenStep, PTL DEF PoolSpec

-----------------------------------------------------------------------------
(* UsbMassStorage: a passed status of a command is one the device gave it. *)

CommandStages ==
    {"idle", "cbw", "data", "csw", "again", "recover", "sense", "passed", "failed"}

StatusWrappers == [tag : Nat, passed : BOOLEAN]

MscTypes ==
    /\ cmd = [kind |-> cmd.kind, tag |-> cmd.tag, stage |-> cmd.stage]
    /\ cmd.tag \in Nat /\ cmd.stage \in CommandStages /\ nextTag \in Nat
    /\ device = [queue |-> device.queue, status |-> device.status]
    /\ device.queue \in Seq(Nat) /\ device.status \in Seq(StatusWrappers)
    /\ served \in SUBSET Nat

\* A status wrapper that waits to be read says "passed" of commands carried out.
StatusIsTrue ==
    \A i \in 1..Len(device.status) : device.status[i].passed => device.status[i].tag \in served

MscInv ==
    /\ MscTypes /\ StatusIsTrue /\ CreditedIsServed
    /\ cmd.stage = "passed" => cmd.tag \in served

LEMMA NothingWaits ==
  /\ <<>> \in Seq(Nat) /\ <<>> \in Seq(StatusWrappers)
  /\ Len(<<>>) = 0 /\ 1..0 = {}
<1>1. <<>> \in Seq(Nat) /\ Len(<<>>) = 0
  BY EmptySeq
<1>2. <<>> \in Seq(StatusWrappers)
  BY EmptySeq
<1> QED
  BY <1>1, <1>2

LEMMA StageGoes ==
  ASSUME MscTypes, NEW stage \in CommandStages, Goto(stage)
  PROVE  /\ cmd' = [kind |-> cmd'.kind, tag |-> cmd'.tag, stage |-> cmd'.stage]
         /\ cmd'.stage = stage /\ cmd'.tag = cmd.tag
BY DEF MscTypes, Goto

\* Steps that plan, mount or ask for the units leave the commands alone.
LEMMA MscPlans ==
  ASSUME MscInv,
         \/ \E p \in Paths : \/ \E n \in 1..MaxBlockChunks : Blocks(p, n)
                             \/ \E l \in Luns : Mount(p, l)
                             \/ Synchronize(p) \/ Unmount(p)
         \/ FinishMount \/ FinishUnmount
         \/ AskMaxLun \/ MaxLunAnswered \/ MaxLunTimesOut \/ LateCallback
         \/ UNCHANGED mscVars
  PROVE  MscInv'
<1>1. UNCHANGED <<cmd, nextTag, device, served, credited>>
  BY DEF Blocks, Mount, Synchronize, Unmount, FinishMount, FinishUnmount, AskMaxLun, MaxLunAnswered,
         MaxLunTimesOut, LateCallback, mscVars
<1> QED
  BY <1>1 DEF MscInv, MscTypes, StatusIsTrue, CreditedIsServed

LEMMA MscSends ==
  ASSUME MscInv, BeginCommand \/ SendCbw \/ DataPhase \/ ResetRecovery \/ Failed
  PROVE  MscInv'
<1>1. UNCHANGED <<served, credited>>
  BY DEF BeginCommand, SendCbw, DataPhase, ResetRecovery, Failed
<1>2. CASE BeginCommand \/ Failed
  <2>1. /\ nextTag' \in Nat /\ UNCHANGED device
        /\ cmd' = NoCommand \/ cmd' = [kind |-> Head(plan), tag |-> nextTag, stage |-> "cbw"]
    BY <1>2 DEF BeginCommand, Failed, MscInv, MscTypes
  <2> QED
    BY <1>1, <2>1 DEF MscInv, MscTypes, StatusIsTrue, CreditedIsServed, CommandStages, NoCommand
<1>3. CASE SendCbw \/ DataPhase \/ ResetRecovery
  <2>1. PICK stage \in CommandStages : Goto(stage) /\ stage # "passed"
    BY <1>3 DEF SendCbw, DataPhase, ResetRecovery, CommandStages
  <2>2. /\ UNCHANGED nextTag
        /\ \/ device' = device
           \/ device' = [device EXCEPT !.queue = Append(@, cmd.tag)]
           \/ device' = [queue |-> <<>>, status |-> <<>>]
    BY <1>3 DEF SendCbw, DataPhase, ResetRecovery
  <2>3. Append(device.queue, cmd.tag) \in Seq(Nat)
    BY AppendProperties DEF MscInv, MscTypes
  <2>4. CASE device' = [queue |-> <<>>, status |-> <<>>]
    BY <1>1, <2>1, <2>2, <2>4, StageGoes, NothingWaits DEF MscInv, MscTypes, StatusIsTrue, CreditedIsServed
  <2>5. CASE device' = device \/ device' = [device EXCEPT !.queue = Append(@, cmd.tag)]
    <3>1. /\ device' = [queue |-> device'.queue, status |-> device.status]
          /\ device'.queue \in Seq(Nat)
      BY <2>3, <2>5 DEF MscInv, MscTypes
    <3> QED
      BY <1>1, <2>1, <2>2, <3>1, StageGoes DEF MscInv, MscTypes, StatusIsTrue, CreditedIsServed
  <2> QED
    BY <2>2, <2>4, <2>5
<1> QED
  BY <1>2, <1>3

LEMMA MscReadCsw ==
  ASSUME MscInv, ReadCsw
  PROVE  MscInv'
<1>1. UNCHANGED <<nextTag, served, credited>>
  BY DEF ReadCsw
<1>2. CASE /\ device.status # <<>>
           /\ device' = [device EXCEPT !.status = Tail(@)]
           /\ Goto(Judge(Head(device.status)))
  <2>1. PICK csw : csw = Head(device.status)
    OBVIOUS
  <2>2. csw = device.status[1] /\ 1 \in 1..Len(device.status)
    BY <1>2, <2>1, EmptySeq DEF MscInv, MscTypes
  <2>3. Judge(csw) \in CommandStages /\ (Judge(csw) = "passed" => csw.tag = cmd.tag /\ csw.passed)
    BY DEF Judge, OwnStatus, CommandStages
  <2>4. Judge(csw) = "passed" => cmd.tag \in served
    BY <2>2, <2>3 DEF MscInv, StatusIsTrue
  <2>5. /\ Tail(device.status) \in Seq(StatusWrappers)
        /\ Len(Tail(device.status)) = Len(device.status) - 1 /\ Len(device.status) \in Nat
        /\ \A i \in 1..Len(Tail(device.status)) : Tail(device.status)[i] = device.status[i + 1]
    BY <1>2, HeadTailProperties, EmptySeq DEF MscInv, MscTypes
  <2>6. /\ device' = [queue |-> device.queue, status |-> Tail(device.status)]
    BY <1>2 DEF MscInv, MscTypes
  <2>7. StatusIsTrue'
    <3>1. \A i \in 1..(Len(device.status) - 1) : i + 1 \in 1..Len(device.status)
      BY <2>5
    <3> QED
      BY <1>1, <2>5, <2>6, <3>1 DEF MscInv, StatusIsTrue
  <2> QED
    BY <1>1, <1>2, <2>1, <2>3, <2>4, <2>5, <2>6, <2>7, StageGoes DEF MscInv, MscTypes, CreditedIsServed
<1>3. CASE UNCHANGED device /\ \E cleared \in BOOLEAN :
               Goto(IF cmd.stage = "csw" /\ cleared THEN "again" ELSE "recover")
  <2>1. PICK stage \in CommandStages : Goto(stage) /\ stage # "passed"
    BY <1>3 DEF CommandStages
  <2> QED
    BY <1>1, <1>3, <2>1, StageGoes DEF MscInv, MscTypes, StatusIsTrue, CreditedIsServed
<1> QED
  BY <1>2, <1>3 DEF ReadCsw

LEMMA MscPassed ==
  ASSUME MscInv, Passed
  PROVE  MscInv'
<1>1. /\ credited' = credited \cup {cmd.tag} /\ cmd.tag \in served
      /\ cmd' = NoCommand /\ UNCHANGED <<nextTag, device, served>>
  BY DEF Passed, MscInv
<1> QED
  BY <1>1 DEF MscInv, MscTypes, StatusIsTrue, CreditedIsServed, NoCommand, CommandStages

LEMMA MscServes ==
  ASSUME MscInv, NEW passed \in BOOLEAN, DeviceServes(passed)
  PROVE  MscInv'
<1>1. Head(device.queue) \in Nat /\ Tail(device.queue) \in Seq(Nat)
  BY HeadTailProperties DEF DeviceServes, MscInv, MscTypes
<1>2. PICK csw \in StatusWrappers : csw = [tag |-> Head(device.queue), passed |-> passed]
  BY <1>1 DEF StatusWrappers
<1>3. /\ device' = [queue |-> Tail(device.queue), status |-> Append(device.status, csw)]
      /\ served' = IF passed THEN served \cup {csw.tag} ELSE served
      /\ UNCHANGED <<cmd, nextTag, credited>>
  BY <1>2 DEF DeviceServes
<1>4. /\ Append(device.status, csw) \in Seq(StatusWrappers) /\ Len(device.status) \in Nat
      /\ Len(Append(device.status, csw)) = Len(device.status) + 1
      /\ \A i \in 1..Len(device.status) : Append(device.status, csw)[i] = device.status[i]
      /\ Append(device.status, csw)[Len(device.status) + 1] = csw
  BY AppendProperties, EmptySeq DEF MscInv, MscTypes
<1>5. served' \in SUBSET Nat /\ served \subseteq served' /\ (csw.passed => csw.tag \in served')
  BY <1>1, <1>2, <1>3 DEF MscInv, MscTypes, StatusWrappers
<1>6. StatusIsTrue'
  <2> SUFFICES ASSUME NEW i \in 1..(Len(device.status) + 1)
               PROVE  Append(device.status, csw)[i].passed => Append(device.status, csw)[i].tag \in served'
    BY <1>3, <1>4 DEF StatusIsTrue
  <2>1. i \in 1..Len(device.status) \/ i = Len(device.status) + 1
    BY <1>4
  <2> QED
    BY <1>4, <1>5, <2>1 DEF MscInv, StatusIsTrue
<1> QED
  BY <1>1, <1>3, <1>4, <1>5, <1>6 DEF MscInv, MscTypes, CreditedIsServed

LEMMA MscInitially == MscInit => MscInv
<1> SUFFICES ASSUME MscInit
             PROVE  MscInv
  OBVIOUS
<1>1. device = [queue |-> <<>>, status |-> <<>>] /\ device.queue = <<>> /\ device.status = <<>>
  BY DEF MscInit
<1>2. cmd.tag = 0 /\ cmd.stage = "idle" /\ cmd = [kind |-> "none", tag |-> 0, stage |-> "idle"]
      /\ nextTag = 1 /\ served = {} /\ credited = {}
  BY DEF MscInit, NoCommand
<1>3. MscTypes
  BY <1>1, <1>2, NothingWaits DEF MscTypes, CommandStages
<1>4. StatusIsTrue
  BY <1>1, NothingWaits DEF StatusIsTrue
<1> QED
  BY <1>2, <1>3, <1>4 DEF MscInv, CreditedIsServed

LEMMA MscStep == MscInv /\ [MscNext]_mscVars => MscInv'
BY MscPlans, MscSends, MscReadCsw, MscPassed, MscServes DEF MscNext

(* mscCommand reports success only of a command that the device has        *)
(* carried out: the status it credits has its own tag, whatever earlier    *)
(* statuses are still waiting and whatever recovery came between.          *)
THEOREM CreditsAreTrue == MscSpec => []CreditedIsServed
<1>1. MscInv => CreditedIsServed
  BY DEF MscInv
<1> QED
  BY <1>1, MscInitially, MscStep, PTL DEF MscSpec

-----------------------------------------------------------------------------
(* UsbNetwork: the blocks that are received. *)

Packets == [ntb : Nat, k : Nat]
NtbBlocks == [ntb : Nat, length : Nat, next : Nat]
Ifaces == [open : BOOLEAN, receiving : BOOLEAN, linkUp : BOOLEAN, ntbIn : Nat, netif : BOOLEAN]
Wires == [block : NtbBlocks, sent : Nat, limit : Nat, kept : BOOLEAN]

NetTypes ==
    /\ iface \in Ifaces
    /\ asm \in [packets : Seq(Packets), expected : Nat]
    /\ wire \in Wires
    /\ received \in [headers : SUBSET Nat, frames : Seq(Seq(Packets)), oversized : BOOLEAN]

Sending == wire.block # NoBlock

BlockSound ==
    Sending => /\ wire.block.ntb = wire.sent
               /\ 1 <= wire.block.next /\ wire.block.next <= wire.block.length
               /\ wire.block.length <= wire.limit

\* The header of block n has been sent, and will not come again.
HeaderPast(n) == n <= wire.sent /\ (Sending /\ wire.block.next = 1 => n < wire.block.ntb)

Whole(frame) ==
    /\ frame # <<>> /\ frame[1].k = 1
    /\ \A j \in 1..Len(frame) :
          /\ HeaderPast(frame[j].ntb)
          /\ frame[j].ntb # frame[1].ntb => frame[j].ntb \notin received.headers

\* A block whose header arrived is the one that is put together, if any is.
AssemblyFollows ==
    /\ asm.packets # <<>> => Whole(asm.packets)
    /\ asm.packets # <<>> /\ Sending /\ wire.block.next > 1 /\ wire.block.ntb \in received.headers
          => asm.packets[1].ntb = wire.block.ntb

FramesAndHeaders ==
    /\ \A i \in 1..Len(received.frames) : Whole(received.frames[i])
    /\ \A n \in received.headers : HeaderPast(n)

BlocksFit == iface.open /\ wire.kept => ~received.oversized /\ wire.limit <= iface.ntbIn

NetInv == NetTypes /\ BlockSound /\ AssemblyFollows /\ FramesAndHeaders /\ BlocksFit

SenderInv ==
    /\ txLock = "sender" <=> sender \in {"locked", "wait", "flush"}
    /\ sender \in {"wait", "flush"} => iface.open \/ app = "drain" \/ client = "drain"

LEMMA NoPackets ==
  /\ NoAsm \in [packets : Seq(Packets), expected : Nat] /\ NoAsm.packets = <<>>
  /\ <<>> \in Seq(Seq(Packets)) /\ Len(<<>>) = 0 /\ 1..0 = {}
  /\ NoBlock \in NtbBlocks
<1>1. <<>> \in Seq(Packets) /\ Len(<<>>) = 0
  BY EmptySeq
<1>2. <<>> \in Seq(Seq(Packets))
  BY EmptySeq
<1>3. NoBlock \in NtbBlocks
  BY DEF NoBlock, NtbBlocks
<1> QED
  BY <1>1, <1>2, <1>3 DEF NoAsm

\* What the invariant says of the numbers it compares.
LEMMA NetNumbers ==
  ASSUME NetTypes
  PROVE  /\ wire.sent \in Nat /\ wire.limit \in Nat /\ wire.block \in NtbBlocks
         /\ wire.block.ntb \in Nat /\ wire.block.length \in Nat /\ wire.block.next \in Nat
         /\ asm.packets \in Seq(Packets) /\ Len(asm.packets) \in Nat
         /\ received.headers \subseteq Nat /\ received.frames \in Seq(Seq(Packets))
         /\ Len(received.frames) \in Nat
         /\ \A i \in 1..Len(received.frames) : received.frames[i] \in Seq(Packets)
<1>1. wire.block \in NtbBlocks
  BY DEF NetTypes, Wires
<1>2. asm.packets \in Seq(Packets) /\ received.frames \in Seq(Seq(Packets))
  BY DEF NetTypes
<1>3. /\ Len(asm.packets) \in Nat /\ Len(received.frames) \in Nat
      /\ \A i \in 1..Len(received.frames) : received.frames[i] \in Seq(Packets)
  BY <1>2, ElementOfSeq, LenProperties
<1> QED
  BY <1>1, <1>2, <1>3 DEF NetTypes, Wires, NtbBlocks

\* What a packet or its loss makes of the block that is being sent.
LEMMA BlockAdvances ==
  ASSUME NetInv, Sending, wire' = Advanced
  PROVE  /\ wire' \in Wires
         /\ wire'.sent = wire.sent /\ wire'.limit = wire.limit /\ wire'.kept = wire.kept
         /\ \/ wire'.block = NoBlock
            \/ /\ wire'.block.ntb = wire.block.ntb /\ wire'.block.length = wire.block.length
               /\ wire'.block.next = wire.block.next + 1
               /\ wire'.block.next <= wire'.block.length
<1>1. PICK b \in NtbBlocks : b = wire.block
  BY DEF NetInv, NetTypes, Wires
<1>2. b.next <= b.length /\ b.next \in Nat /\ b.length \in Nat
  BY <1>1 DEF NetInv, BlockSound, NtbBlocks
<1>3. PICK c : /\ wire' = [wire EXCEPT !.block = c]
               /\ c = IF b.next = b.length THEN NoBlock ELSE [b EXCEPT !.next = b.next + 1]
  BY <1>1 DEF Advanced
<1>4. c \in NtbBlocks
  BY <1>2, <1>3, NoPackets DEF NtbBlocks
<1>5. wire'.block = c /\ wire'.sent = wire.sent /\ wire'.limit = wire.limit /\ wire'.kept = wire.kept
      /\ wire' \in Wires
  BY <1>3, <1>4 DEF NetInv, NetTypes, Wires
<1>6. c = NoBlock \/ (c.ntb = b.ntb /\ c.length = b.length /\ c.next = b.next + 1 /\ c.next <= c.length)
  BY <1>2, <1>3 DEF NtbBlocks
<1> QED
  BY <1>1, <1>5, <1>6

\* A header that is past stays so, and a frame stays whole.
LEMMA WholeKept ==
  ASSUME NEW frame \in Seq(Packets), Whole(frame),
         \A n \in Nat : HeaderPast(n) => HeaderPast(n)',
         \A n \in received'.headers : n \in received.headers \/ ~HeaderPast(n)
  PROVE  Whole(frame)'
<1>1. \A j \in 1..Len(frame) : frame[j] \in Packets
  BY ElementOfSeq
<1>2. \A j \in 1..Len(frame) : frame[j].ntb \in Nat
  BY <1>1 DEF Packets
<1> QED
  BY <1>2 DEF Whole

\* Steps that leave what was received: the block goes on, or another begins.
LEMMA NothingReceived ==
  ASSUME NetInv, NetTypes', BlockSound', BlocksFit',
         received'.headers = received.headers, received'.frames = received.frames,
         asm' \in {asm, NoAsm},
         wire'.sent >= wire.sent,
         Sending' => \/ wire'.block.ntb > wire.sent /\ wire'.block.next = 1
                     \/ Sending /\ wire'.block.ntb = wire.block.ntb /\ wire'.block.next > 1
                     \/ wire' = wire
  PROVE  NetInv'
<1>1. \A n \in Nat : HeaderPast(n) => HeaderPast(n)'
  <2>1. wire.sent \in Nat /\ wire'.sent \in Nat /\ wire'.block.ntb \in Nat /\ wire'.block.next \in Nat
    BY NetNumbers DEF NetInv, NetTypes, Wires, NtbBlocks
  <2>2. wire' = wire => Sending' = Sending
    BY DEF Sending
  <2> QED
    BY <2>1, <2>2 DEF HeaderPast
<1>2. \A frame \in Seq(Packets) : Whole(frame) => Whole(frame)'
  BY <1>1, WholeKept
<1>3. FramesAndHeaders'
  <2>1. \A i \in 1..Len(received.frames) : Whole(received.frames[i])'
    <3> SUFFICES ASSUME NEW i \in 1..Len(received.frames)
                 PROVE  Whole(received.frames[i])'
      OBVIOUS
    <3>1. PICK frame \in Seq(Packets) : frame = received.frames[i]
      BY NetNumbers DEF NetInv
    <3>2. Whole(frame)' /\ frame = received'.frames[i]
      BY <1>2, <3>1 DEF NetInv, FramesAndHeaders
    <3> QED
      BY <3>2 DEF Whole, HeaderPast, Sending
  <2> QED
    BY <1>1, <2>1, NetNumbers DEF NetInv, FramesAndHeaders
<1>4. AssemblyFollows'
  <2>1. CASE asm' = NoAsm
    BY <2>1, NoPackets DEF AssemblyFollows
  <2>2. CASE asm' = asm
    <3>1. PICK frame \in Seq(Packets) : frame = asm.packets /\ frame = asm'.packets
      BY <2>2, NetNumbers DEF NetInv
    <3>2. frame # <<>> => Whole(frame)'
      BY <1>2, <3>1 DEF NetInv, AssemblyFollows
    <3>3. ASSUME frame # <<>>, Sending', wire'.block.next > 1, wire'.block.ntb \in received.headers
          PROVE  frame[1].ntb = wire'.block.ntb
      <4>1. Sending /\ wire'.block.ntb = wire.block.ntb
        BY <3>3 DEF Sending
      <4>2. wire.block.next # 1
        BY <3>3, <4>1, NetNumbers DEF NetInv, FramesAndHeaders, HeaderPast
      <4>3. wire.block.next > 1
        BY <4>1, <4>2, NetNumbers DEF NetInv, BlockSound
      <4> QED
        BY <3>1, <3>3, <4>1, <4>3 DEF NetInv, AssemblyFollows
    <3>4. (asm.packets # <<>> => Whole(asm.packets))'
      BY <3>1, <3>2
    <3> QED
      BY <3>1, <3>3, <3>4 DEF AssemblyFollows
  <2> QED
    BY <2>1, <2>2
<1> QED
  BY <1>3, <1>4 DEF NetInv

LEMMA NetHoldsStill ==
  ASSUME NetInv,
         \/ StartNetif \/ StopNetif \/ NetClose \/ NetGone \/ NetReleased
         \/ NetSend \/ TakeLock \/ SendLocked \/ SendDone \/ SendTimeout \/ SendCallback
         \/ LinkChanges \/ NetRead \/ UNCHANGED netVars
  PROVE  NetInv'
<1>1. UNCHANGED <<wire, received>> /\ asm' \in {asm, NoAsm}
  BY DEF StartNetif, StopNetif, NetClose, NetGone, NetReleased, NetSend, TakeLock, SendLocked, SendDone,
         SendTimeout, SendCallback, LinkChanges, NetRead, netVars, rxVars
<1>2. /\ iface' \in Ifaces
      /\ iface'.open => iface.open /\ iface'.ntbIn = iface.ntbIn
  <2>1. CASE StartNetif \/ StopNetif \/ NetClose \/ NetGone \/ LinkChanges
    BY <2>1 DEF StartNetif, StopNetif, NetClose, NetGone, LinkChanges, NetInv, NetTypes, Ifaces
  <2>2. CASE NetReleased
    BY <2>2 DEF NetReleased, Closed, Ifaces
  <2>3. CASE iface' = iface
    BY <2>3 DEF NetInv, NetTypes
  <2> QED
    BY <2>1, <2>2, <2>3
    DEF NetSend, TakeLock, SendLocked, SendDone, SendTimeout, SendCallback, NetRead, netVars
<1>3. NetTypes'
  BY <1>1, <1>2, NoPackets DEF NetInv, NetTypes, NoAsm
<1>4. BlockSound' /\ BlocksFit'
  BY <1>1, <1>2 DEF NetInv, BlockSound, BlocksFit, Sending
<1> QED
  BY <1>1, <1>3, <1>4, NothingReceived, NetNumbers DEF NetInv

\* Whatever was negotiated, a block fits when the device keeps to it.
LEMMA NetNetOpen ==
  ASSUME NetInv, NetOpen
  PROVE  NetInv'
<1>1. CASE UNCHANGED <<iface, rxVars>>
  <2>1. NetTypes' /\ BlockSound' /\ BlocksFit'
    BY <1>1 DEF rxVars, NetInv, NetTypes, BlockSound, BlocksFit, Sending
  <2> QED
    BY <1>1, <2>1, NothingReceived, NetNumbers DEF rxVars, NetInv
<1>2. ASSUME NEW max \in DeviceMaxima, NEW known \in BOOLEAN, NEW accepted \in BOOLEAN,
             Claim(known, max, accepted)
      PROVE  NetInv'
  <2>1. max \in Nat /\ Preferred \in Nat /\ NtbLimit \in Nat
    BY NetAssumption
  <2> DEFINE size == NtbInput(known, max, accepted)
             lowered == known /\ max > Preferred /\ accepted
  <2>2. /\ size \in Nat
        /\ lowered => size = Preferred
        /\ known /\ ~lowered /\ max <= NtbLimit => size = max
    BY <2>1 DEF NtbInput, Smaller, Larger
  <2>3. PICK started \in BOOLEAN :
            iface' = [Closed EXCEPT !.open = TRUE, !.receiving = started, !.ntbIn = size]
    BY <1>2 DEF Claim, StartEndpoints
  <2> HIDE DEF size
  <2>4. /\ iface' \in Ifaces
        /\ iface'.ntbIn = size
    BY <2>2, <2>3 DEF Closed, Ifaces
  <2>5. /\ wire' = [wire EXCEPT !.block = NoBlock, !.limit = IF lowered THEN Preferred ELSE max,
                                !.kept = known /\ (lowered \/ max <= NtbLimit)]
        /\ asm' = NoAsm /\ received' = [received EXCEPT !.oversized = FALSE]
    BY <1>2 DEF Claim
  <2>6. /\ wire' \in Wires
        /\ wire'.block = NoBlock /\ wire'.sent = wire.sent
        /\ wire'.limit = (IF lowered THEN Preferred ELSE max)
        /\ wire'.kept = (known /\ (lowered \/ max <= NtbLimit))
    BY <2>1, <2>5, NoPackets DEF NetInv, NetTypes, Wires
  <2>7. /\ received' \in [headers : SUBSET Nat, frames : Seq(Seq(Packets)), oversized : BOOLEAN]
        /\ received'.headers = received.headers /\ received'.frames = received.frames
        /\ ~received'.oversized
    BY <2>5 DEF NetInv, NetTypes
  <2>8. NetTypes'
    BY <2>4, <2>5, <2>6, <2>7, NoPackets DEF NetTypes, NoAsm
  <2>9. BlockSound' /\ ~Sending'
    BY <2>6 DEF BlockSound, Sending
  <2>10. BlocksFit'
    BY <2>1, <2>2, <2>4, <2>6, <2>7 DEF BlocksFit
  <2> QED
    BY <2>5, <2>6, <2>7, <2>8, <2>9, <2>10, NothingReceived, NetNumbers DEF NetInv
<1> QED
  BY <1>1, <1>2 DEF NetOpen

LEMMA NetNextBlock ==
  ASSUME NetInv, NextBlock
  PROVE  NetInv'
<1>1. PICK length \in 1..wire.limit :
          wire' = [wire EXCEPT !.sent = wire.sent + 1,
                               !.block = [ntb |-> wire.sent + 1, length |-> length, next |-> 1]]
  BY DEF NextBlock
<1>2. /\ wire.limit \in Nat /\ wire.sent \in Nat /\ length \in Nat /\ 1 <= length /\ length <= wire.limit
      /\ UNCHANGED <<iface, asm, received>>
  BY NetNumbers DEF NextBlock, NetInv
<1>3. /\ wire' \in Wires
      /\ wire'.block.ntb = wire.sent + 1 /\ wire'.block.next = 1 /\ wire'.block.length = length
      /\ wire'.sent = wire.sent + 1 /\ wire'.limit = wire.limit /\ wire'.kept = wire.kept
  <2>0. wire.sent + 1 \in Nat /\ length \in Nat
    BY <1>2
  <2>1. PICK b \in NtbBlocks : b = [ntb |-> wire.sent + 1, length |-> length, next |-> 1]
    BY <2>0 DEF NtbBlocks
  <2>2. wire' = [wire EXCEPT !.sent = wire.sent + 1, !.block = b]
    BY <1>1, <2>1
  <2>3. /\ wire' \in Wires /\ wire'.block = b
        /\ wire'.sent = wire.sent + 1 /\ wire'.limit = wire.limit /\ wire'.kept = wire.kept
    BY <2>0, <2>2 DEF NetInv, NetTypes, Wires
  <2> QED
    BY <2>1, <2>3
<1>4. NetTypes' /\ BlockSound' /\ BlocksFit'
  BY <1>2, <1>3 DEF NetInv, NetTypes, BlockSound, BlocksFit
<1> QED
  BY <1>2, <1>3, <1>4, NothingReceived

LEMMA NetPacketLost ==
  ASSUME NetInv, PacketLost
  PROVE  NetInv'
<1>1. Sending /\ UNCHANGED <<iface, asm, received>>
  BY DEF PacketLost, Sending
<1>2. wire' = Advanced
  BY DEF PacketLost
<1>3. NetTypes' /\ BlockSound' /\ BlocksFit'
  BY <1>1, <1>2, BlockAdvances, NetNumbers DEF NetInv, NetTypes, BlockSound, BlocksFit, Sending
<1>4. wire.sent \in Nat /\ wire.block.next \in Nat /\ 1 <= wire.block.next
  BY <1>1, NetNumbers DEF NetInv, BlockSound
<1> QED
  BY <1>1, <1>2, <1>3, <1>4, BlockAdvances, NothingReceived DEF Sending

\* A packet goes into the frame of its own block: a header begins one, and what
\* follows a header that arrived finds that block, or none.
LEMMA NetPacketArrives ==
  ASSUME NetInv, PacketArrives
  PROVE  NetInv'
<1> DEFINE b == wire.block
           header == b.next = 1
           packet == [ntb |-> b.ntb, k |-> b.next]
           was == Resynced(header)
           starts == was.packets = <<>>
           expected == IF starts THEN b.length ELSE was.expected
           packets == IF Len(was.packets) < iface.ntbIn THEN Append(was.packets, packet)
                      ELSE was.packets
           heard == [received EXCEPT !.headers = IF header THEN @ \cup {b.ntb} ELSE @]
<1>1. /\ Sending /\ iface.open /\ UNCHANGED iface
      /\ wire.sent \in Nat /\ b.ntb = wire.sent /\ b.next \in Nat /\ 1 <= b.next
      /\ b.length \in Nat /\ b.next <= b.length /\ b.length <= wire.limit /\ wire.limit \in Nat
      /\ iface.ntbIn \in Nat
  BY NetNumbers DEF PacketArrives, Sending, NetInv, NetTypes, BlockSound, Ifaces
<1>2. wire' = Advanced
  BY DEF PacketArrives
<1>3. /\ packet \in Packets /\ packet.ntb = wire.sent /\ packet.k = b.next
  BY <1>1 DEF Packets
<1>4. /\ was \in [packets : Seq(Packets), expected : Nat]
      /\ header => starts
      /\ ~starts => ~header /\ was = asm
  BY NoPackets DEF Resynced, NetInv, NetTypes
<1>5. was.packets \in Seq(Packets) /\ expected \in Nat /\ packets \in Seq(Packets)
      /\ Len(was.packets) \in Nat
  <2>1. was.packets \in Seq(Packets) /\ was.expected \in Nat
    BY <1>4
  <2>2. Append(was.packets, packet) \in Seq(Packets)
    BY <1>3, <2>1, AppendProperties
  <2> HIDE DEF was, packet, b
  <2>3. Len(was.packets) \in Nat
    BY <2>1, LenProperties
  <2>4. b.length \in Nat
    BY <1>1
  <2> QED
    BY <2>1, <2>2, <2>3, <2>4
<1>6. /\ heard \in [headers : SUBSET Nat, frames : Seq(Seq(Packets)), oversized : BOOLEAN]
      /\ heard.headers = IF header THEN received.headers \cup {wire.sent} ELSE received.headers
      /\ heard.frames = received.frames /\ heard.oversized = received.oversized
  BY <1>1 DEF NetInv, NetTypes
<1>7. \A n \in Nat : HeaderPast(n) => HeaderPast(n)'
  <2>1. wire'.sent = wire.sent
        /\ (Sending' => wire'.block.next = b.next + 1)
    BY <1>1, <1>2, BlockAdvances DEF Sending
  <2> QED
    BY <1>1, <2>1 DEF HeaderPast
<1>8. HeaderPast(wire.sent)' /\ (header => ~HeaderPast(wire.sent)) /\ wire'.sent = wire.sent
  <2>1. wire'.sent = wire.sent
        /\ (Sending' => wire'.block.next = b.next + 1)
    BY <1>1, <1>2, BlockAdvances DEF Sending
  <2> QED
    BY <1>1, <2>1 DEF HeaderPast
<1>9. received'.headers = heard.headers => \A frame \in Seq(Packets) : Whole(frame) => Whole(frame)'
  <2>1. \A n \in heard.headers : n \in received.headers \/ ~HeaderPast(n)
    BY <1>6, <1>8
  <2> QED
    BY <1>7, <2>1, WholeKept
<1>10. \/ starts /\ ~header /\ asm' = was /\ received' = heard
       \/ /\ starts /\ header /\ b.length > iface.ntbIn
          /\ asm' = was /\ received' = [heard EXCEPT !.oversized = TRUE]
       \/ /\ ~(starts /\ (~header \/ b.length > iface.ntbIn))
          /\ asm' = [packets |-> packets, expected |-> expected] /\ received' = heard
       \/ /\ ~(starts /\ (~header \/ b.length > iface.ntbIn))
          /\ asm' = NoAsm /\ received' = [heard EXCEPT !.frames = Append(@, packets)]
  BY DEF PacketArrives, Deliver
<1>11. packets \in {was.packets, Append(was.packets, packet)}
       /\ (iface.ntbIn > Len(was.packets) => packets = Append(was.packets, packet))
  OBVIOUS
<1>12. header <=> b.next = 1
  OBVIOUS
<1>13. starts <=> was.packets = <<>>
  OBVIOUS
<1>14. ~starts /\ wire.sent \in received.headers => was.packets[1].ntb = wire.sent
  BY <1>1, <1>4 DEF NetInv, AssemblyFollows
<1>15. ~starts => Whole(was.packets)
  BY <1>4 DEF NetInv, AssemblyFollows
<1>16. b.next = wire.block.next /\ b.length = wire.block.length /\ b.ntb = wire.block.ntb
  OBVIOUS
<1> HIDE DEF b, header, packet, was, starts, expected, packets, heard
<1>0. PICK made \in Seq(Packets) : made = packets
  BY <1>5
<1>17. ASSUME ~(starts /\ (~header \/ b.length > iface.ntbIn)), received'.headers = heard.headers
       PROVE  /\ Whole(made)'
              /\ wire.sent \in received'.headers => made[1].ntb = wire.sent
  <2>1. CASE starts
    <3>1. Len(was.packets) = 0 /\ was.packets = <<>> /\ header
      BY <1>13, <1>17, <2>1, NoPackets
    <3>2. made = Append(was.packets, packet)
      BY <1>1, <1>0, <1>11, <1>17, <3>1, <2>1
    <3>3. Len(made) = 1 /\ made[1] = packet /\ made # <<>>
      BY <1>3, <1>5, <3>1, <3>2, AppendProperties
    <3>4. \A j \in 1..Len(made) : j = 1
      BY <3>3
    <3>5. packet.k = 1 /\ packet.ntb = wire.sent
      BY <1>3, <1>12, <3>1
    <3> QED
      BY <1>8, <3>3, <3>4, <3>5 DEF Whole, HeaderPast
  <2>2. CASE ~starts
    <3>1. PICK frame \in Seq(Packets) : frame = was.packets
      BY <1>5
    <3>2. frame # <<>> /\ Whole(frame) /\ Whole(frame)' /\ ~header /\ Len(frame) \in Nat /\ Len(frame) # 0
      BY <1>4, <1>9, <1>15, <1>17, <2>2, <3>1, EmptySeq DEF Whole
    <3>3. received'.headers = received.headers
      BY <1>6, <1>17, <3>2
    <3>4. wire.sent \in received'.headers => frame[1].ntb = wire.sent
      BY <1>14, <2>2, <3>1, <3>3
    <3>5. CASE made = frame
      BY <3>2, <3>4, <3>5
    <3>6. CASE made = Append(frame, packet)
      <4>1. /\ Len(made) = Len(frame) + 1 /\ made # <<>>
            /\ \A j \in 1..Len(frame) : made[j] = frame[j]
            /\ made[Len(frame) + 1] = packet
        BY <1>3, <3>6, AppendProperties
      <4>2. made[1] = frame[1] /\ frame[1].k = 1
        BY <3>2, <4>1 DEF Whole
      <4>3. ASSUME NEW j \in 1..Len(made)
            PROVE  /\ HeaderPast(made[j].ntb)'
                   /\ made[j].ntb # made[1].ntb => made[j].ntb \notin received'.headers
        <5>1. CASE j \in 1..Len(frame)
          BY <3>2, <4>1, <4>2, <5>1 DEF Whole
        <5>2. CASE j = Len(frame) + 1
          <6>1. made[j] = packet
            BY <4>1, <5>2
          <6>2. made[j].ntb = wire.sent
            BY <1>3, <6>1
          <6> QED
            BY <1>8, <3>4, <4>2, <6>2 DEF HeaderPast
        <5> QED
          BY <3>2, <4>1, <5>1, <5>2
      <4> QED
        BY <3>4, <4>1, <4>2, <4>3 DEF Whole
    <3> QED
      BY <1>0, <1>11, <3>1, <3>5, <3>6
  <2> QED
    BY <2>1, <2>2
<1>18. wire' \in Wires /\ BlockSound'
  BY <1>1, <1>2, <1>16, BlockAdvances DEF BlockSound, Sending
<1>19. \A n \in heard.headers : HeaderPast(n)'
  BY <1>6, <1>7, <1>8, NetNumbers DEF NetInv, FramesAndHeaders
<1>20. ASSUME received'.headers = heard.headers, NEW i \in 1..Len(received.frames),
              NEW frame \in Seq(Packets), frame = received.frames[i]
       PROVE  Whole(frame)'
  BY <1>9, <1>20 DEF NetInv, FramesAndHeaders
<1>21. CASE starts /\ asm' = was /\ received'.headers = heard.headers /\ received'.frames = heard.frames
            /\ received' \in [headers : SUBSET Nat, frames : Seq(Seq(Packets)), oversized : BOOLEAN]
            /\ (received'.oversized => heard.oversized \/ b.length > iface.ntbIn)
  <2>1. NetTypes'
    BY <1>1, <1>4, <1>18, <1>21 DEF NetInv, NetTypes
  <2>2. AssemblyFollows'
    BY <1>13, <1>21 DEF AssemblyFollows
  <2>3. \A i \in 1..Len(received.frames) : Whole(received.frames[i])'
    <3> SUFFICES ASSUME NEW i \in 1..Len(received.frames)
                 PROVE  Whole(received.frames[i])'
      OBVIOUS
    <3>1. PICK frame \in Seq(Packets) : frame = received.frames[i]
      BY NetNumbers DEF NetInv
    <3>2. frame = received'.frames[i] /\ Whole(frame)'
      BY <1>6, <1>20, <1>21, <3>1
    <3> QED
      BY <3>2 DEF Whole, HeaderPast, Sending
  <2>4. FramesAndHeaders'
    BY <1>6, <1>19, <1>21, <2>3 DEF FramesAndHeaders
  <2>5. wire'.kept = wire.kept /\ wire'.limit = wire.limit
    BY <1>1, <1>2, BlockAdvances
  <2>6. BlocksFit'
    BY <1>1, <1>6, <1>21, <2>5 DEF NetInv, BlocksFit
  <2> QED
    BY <1>18, <2>1, <2>2, <2>4, <2>6 DEF NetInv
<1>22. CASE ~(starts /\ (~header \/ b.length > iface.ntbIn)) /\ received' = heard
            /\ asm' = [packets |-> packets, expected |-> expected]
  <2>1. asm' \in [packets : Seq(Packets), expected : Nat] /\ asm'.packets = made
    BY <1>0, <1>5, <1>22
  <2>2. NetTypes'
    BY <1>1, <1>6, <1>18, <1>22, <2>1 DEF NetInv, NetTypes
  <2>3. AssemblyFollows'
    <3>1. (asm.packets # <<>> => Whole(asm.packets))'
      BY <1>17, <1>22, <2>1 DEF Whole, HeaderPast, Sending
    <3>2. Sending' => wire'.block.ntb = wire.sent
      BY <1>1, <1>2, <1>16, BlockAdvances DEF Sending
    <3>3. wire.sent \in received'.headers => asm'.packets[1].ntb = wire.sent
      BY <1>17, <1>22, <2>1
    <3> QED
      BY <3>1, <3>2, <3>3 DEF AssemblyFollows
  <2>4. \A i \in 1..Len(received.frames) : Whole(received.frames[i])'
    <3> SUFFICES ASSUME NEW i \in 1..Len(received.frames)
                 PROVE  Whole(received.frames[i])'
      OBVIOUS
    <3>1. PICK frame \in Seq(Packets) : frame = received.frames[i]
      BY NetNumbers DEF NetInv
    <3>2. frame = received'.frames[i] /\ Whole(frame)'
      BY <1>6, <1>20, <1>22, <3>1
    <3> QED
      BY <3>2 DEF Whole, HeaderPast, Sending
  <2>5. FramesAndHeaders'
    BY <1>6, <1>19, <1>22, <2>4 DEF FramesAndHeaders
  <2>6. wire'.kept = wire.kept /\ wire'.limit = wire.limit
    BY <1>1, <1>2, BlockAdvances
  <2>7. BlocksFit'
    BY <1>1, <1>6, <1>22, <2>6 DEF NetInv, BlocksFit
  <2> QED
    BY <1>18, <2>2, <2>3, <2>5, <2>7 DEF NetInv
<1>23. CASE /\ ~(starts /\ (~header \/ b.length > iface.ntbIn))
            /\ asm' = NoAsm /\ received' = [heard EXCEPT !.frames = Append(@, packets)]
  <2>1. received.frames \in Seq(Seq(Packets)) /\ Len(received.frames) \in Nat
    BY NetNumbers DEF NetInv
  <2>2. PICK frames \in Seq(Seq(Packets)) : frames = Append(received.frames, packets)
    BY <1>5, <2>1, AppendProperties
  <2>3. /\ received' \in [headers : SUBSET Nat, frames : Seq(Seq(Packets)), oversized : BOOLEAN]
        /\ received'.headers = heard.headers /\ received'.frames = frames
        /\ received'.oversized = heard.oversized
    BY <1>6, <1>23, <2>2
  <2>4. /\ Len(frames) = Len(received.frames) + 1
        /\ \A i \in 1..Len(received.frames) : frames[i] = received.frames[i]
        /\ frames[Len(received.frames) + 1] = made
    BY <1>0, <1>5, <2>1, <2>2, AppendProperties
  <2>5. NetTypes' /\ AssemblyFollows'
    BY <1>1, <1>18, <1>23, <2>3, NoPackets DEF NetInv, NetTypes, AssemblyFollows
  <2>6. \A i \in 1..Len(frames) : Whole(frames[i])'
    <3> SUFFICES ASSUME NEW i \in 1..Len(frames)
                 PROVE  Whole(frames[i])'
      OBVIOUS
    <3>1. CASE i \in 1..Len(received.frames)
      <4>1. frames[i] \in Seq(Packets) /\ frames[i] = received.frames[i]
        BY <2>4, <3>1, NetNumbers DEF NetInv
      <4> QED
        BY <1>20, <2>3, <3>1, <4>1
    <3>2. CASE i = Len(received.frames) + 1
      <4>1. Whole(made)'
        BY <1>17, <1>23, <2>3
      <4> QED
        BY <2>4, <3>2, <4>1
    <3> QED
      BY <2>1, <2>4, <3>1, <3>2
  <2>7. FramesAndHeaders'
    BY <1>19, <2>3, <2>6 DEF FramesAndHeaders
  <2>8. wire'.kept = wire.kept /\ wire'.limit = wire.limit
    BY <1>1, <1>2, BlockAdvances
  <2>9. BlocksFit'
    BY <1>1, <1>6, <2>3, <2>8 DEF NetInv, BlocksFit
  <2> QED
    BY <1>18, <2>5, <2>7, <2>9 DEF NetInv
<1>24. [heard EXCEPT !.oversized = TRUE] \in
           [headers : SUBSET Nat, frames : Seq(Seq(Packets)), oversized : BOOLEAN]
       /\ [heard EXCEPT !.oversized = TRUE].headers = heard.headers
       /\ [heard EXCEPT !.oversized = TRUE].frames = heard.frames
  BY <1>6
<1> QED
  BY <1>6, <1>10, <1>21, <1>22, <1>23, <1>24

LEMMA NetInitially == NetInit => NetInv
<1> SUFFICES ASSUME NetInit
             PROVE  NetInv
  OBVIOUS
<1>1. iface \in Ifaces /\ ~iface.open /\ asm = NoAsm
  BY DEF NetInit, Closed, Ifaces
<1>2. wire \in Wires /\ ~Sending
  BY NoPackets DEF NetInit, Wires, Sending
<1>3. /\ received \in [headers : SUBSET Nat, frames : Seq(Seq(Packets)), oversized : BOOLEAN]
      /\ received.headers = {} /\ received.frames = <<>>
  BY NoPackets DEF NetInit
<1> QED
  BY <1>1, <1>2, <1>3, NoPackets DEF NetInv, NetTypes, BlockSound, AssemblyFollows, FramesAndHeaders, BlocksFit

LEMMA NetStep == NetInv /\ [NetNext]_netVars => NetInv'
BY NetHoldsStill, NetNetOpen, NetNextBlock, NetPacketLost, NetPacketArrives DEF NetNext

(* handleNetworkInput and negotiateNetworkNtbInput: whatever packets of    *)
(* whatever blocks are lost, a frame begins with a header and takes in a   *)
(* packet of another block only if that one's header was lost, and no      *)
(* block of a device that keeps to what was negotiated is too large.       *)
THEOREM BlocksAreReceived == NetSpec => []BlocksReceived
<1>1. NetInv => BlocksReceived
  <2> SUFFICES ASSUME NetInv
               PROVE  FramesAreWhole /\ NegotiatedIsReceived
    BY DEF BlocksReceived
  <2>1. FramesAreWhole
    <3> SUFFICES ASSUME NEW i \in DOMAIN received.frames
                 PROVE  /\ received.frames[i][1].k = 1
                        /\ \A j \in DOMAIN received.frames[i] :
                              received.frames[i][j].ntb # received.frames[i][1].ntb
                                  => received.frames[i][j].ntb \notin received.headers
      BY DEF FramesAreWhole
    <3>1. i \in 1..Len(received.frames)
      BY NetNumbers, LenProperties DEF NetInv
    <3>2. PICK frame \in Seq(Packets) : frame = received.frames[i] /\ Whole(frame)
      BY <3>1, NetNumbers DEF NetInv, FramesAndHeaders
    <3>3. DOMAIN frame = 1..Len(frame)
      BY LenProperties
    <3> QED
      BY <3>2, <3>3 DEF Whole
  <2>2. NegotiatedIsReceived
    BY DEF NetInv, BlocksFit, NegotiatedIsReceived
  <2> QED
    BY <2>1, <2>2
<1> QED
  BY <1>1, NetInitially, NetStep, PTL DEF NetSpec

\* Who has the lock is sending, and through an interface that is open or being
\* released.
LEMMA SenderStep == NetInv /\ SenderInv /\ [NetNext]_netVars => SenderInv'
<1> SUFFICES ASSUME NetInv, SenderInv, [NetNext]_netVars
             PROVE  SenderInv'
  OBVIOUS
<1>1. CASE NetOpen
  BY <1>1 DEF NetOpen, Claim, Closed, txVars, SenderInv
<1>2. CASE StartNetif \/ StopNetif \/ NetClose \/ NetGone \/ LinkChanges
  <2>1. UNCHANGED <<sender, txLock>>
    BY <1>2 DEF StartNetif, StopNetif, NetClose, NetGone, LinkChanges, txVars
  <2>2. CASE StartNetif \/ StopNetif \/ LinkChanges
    <3>1. iface'.open = iface.open /\ UNCHANGED <<app, client>>
      BY <2>2 DEF StartNetif, StopNetif, LinkChanges, NetInv, NetTypes, Ifaces
    <3> QED
      BY <2>1, <3>1 DEF SenderInv
  <2>3. CASE NetClose \/ NetGone
    BY <2>1, <2>3 DEF NetClose, NetGone, SenderInv
  <2> QED
    BY <1>2, <2>2, <2>3
<1>3. CASE NetReleased
  BY <1>3 DEF NetReleased, DrainTx, SenderInv
<1>4. CASE TakeLock \/ NetSend \/ SendLocked \/ SendDone \/ SendTimeout \/ SendCallback
  BY <1>4 DEF TakeLock, NetSend, SendLocked, StillOpen, SendDone, SendTimeout, SendCallback, SenderInv
<1>5. CASE NextBlock \/ PacketLost \/ PacketArrives \/ NetRead \/ UNCHANGED netVars
  BY <1>5 DEF NextBlock, PacketLost, PacketArrives, NetRead, netVars, txVars, SenderInv
<1> QED
  BY <1>1, <1>2, <1>3, <1>4, <1>5 DEF NetNext

(* networkSendFrameInternal and networkDrainTx: a sender that is waiting   *)
(* for its transfer keeps the release of the interface waiting.            *)
THEOREM ReleaseWaitsForSender == NetSpec => []NobodySendsAfterRelease
<1>1. NetInit => SenderInv
  BY DEF NetInit, SenderInv
<1>2. SenderInv => NobodySendsAfterRelease
  BY DEF SenderInv, NobodySendsAfterRelease
<1> QED
  BY <1>1, <1>2, NetInitially, NetStep, SenderStep, PTL DEF NetSpec

-----------------------------------------------------------------------------
(* Remainders. *)

\* What div and mod are, and that nothing else is.
LEMMA DivMod ==
  ASSUME NEW M \in Nat \ {0}, NEW a \in Nat
  PROVE  /\ a % M \in 0..(M-1)
         /\ a = M * (a \div M) + (a % M)
         /\ (a \div M) \in Nat
OBVIOUS

LEMMA ModDistance ==
  ASSUME NEW M \in Nat \ {0}, NEW a \in Nat, NEW b \in Nat, a < b, a % M = b % M
  PROVE  b - a >= M
<1>1. PICK p \in Nat, q \in Nat : p = a \div M /\ q = b \div M
  BY DivMod
<1>2. b - a = M * (q - p)
  BY <1>1, DivMod
<1>3. q - p >= 1
  BY <1>2
<1> QED
  BY <1>2, <1>3

LEMMA ModIs ==
  ASSUME NEW M \in Nat \ {0}, NEW a \in Nat, NEW q \in Nat, NEW r \in 0..(M-1), a = M * q + r
  PROVE  a % M = r
<1>1. PICK p \in Nat, s \in 0..(M-1) : p = a \div M /\ s = a % M /\ a = M * p + s
  BY DivMod
<1>2. M * (q - p) = s - r
  BY <1>1
<1>3. q - p < 1 /\ p - q < 1
  BY <1>2
<1> QED
  BY <1>1, <1>2, <1>3

LEMMA ModNext ==
  ASSUME NEW M \in Nat \ {0}, NEW a \in Nat
  PROVE  ((a % M) + 1) % M = (a + 1) % M
<1>1. PICK q \in Nat, r \in 0..(M-1) : q = a \div M /\ r = a % M /\ a = M * q + r
  BY DivMod
<1>2. CASE r + 1 < M
  <2>1. (a + 1) % M = r + 1
    <3>1. a + 1 \in Nat /\ r + 1 \in 0..(M-1) /\ a + 1 = M * q + (r + 1)
      BY <1>1, <1>2
    <3> QED
      BY <3>1, ModIs
  <2>2. (r + 1) % M = r + 1
    BY <1>2, ModIs
  <2> QED
    BY <1>1, <2>1, <2>2
<1>3. CASE r + 1 = M
  <2>1. (a + 1) = M * (q + 1) + 0 /\ (r + 1) = M * 1 + 0
    BY <1>1, <1>3
  <2>2. (a + 1) % M = 0 /\ (r + 1) % M = 0
    <3>1. a + 1 \in Nat /\ r + 1 \in Nat /\ q + 1 \in Nat /\ 1 \in Nat /\ 0 \in 0..(M-1)
      OBVIOUS
    <3> QED
      BY <2>1, <3>1, ModIs
  <2> QED
    BY <1>1, <2>2
<1> QED
  BY <1>1, <1>2, <1>3

-----------------------------------------------------------------------------
(* UsbCcid: whose answer a caller takes, and what is told of the slot. *)

Bulks == [command : Int, card : Nat]
CcidCalls == [pc : {"idle", "locked", "waiting", "answered", "copied"},
              kind : Kinds \cup {"none"}, command : Nat, seq : Nat, mismatches : Nat,
              extensions : Nat, reply : Bulks, identified : Nat]
CcidDevices == [open : BOOLEAN, sequence : Nat, buffer : Bulks, known : BOOLEAN,
                present : BOOLEAN, atr : Nat, lock : BOOLEAN, opens : Nat, since : Nat]
CcidCommands == [command : Nat, seq : Nat, kind : Kinds \cup {"none"}]
CcidAnswers == [command : Nat, seq : Nat, card : Nat, more : BOOLEAN]
CcidReaders == [inbox : Seq(CcidCommands), card : Nat, cards : Nat]
SlotNews == [from : {"event", "answer"}, present : BOOLEAN]

CcidTypes ==
    /\ ccid \in CcidDevices /\ callers \in [Callers -> CcidCalls] /\ reader \in CcidReaders
    /\ replies \in Seq(CcidAnswers) /\ notes \in Seq(BOOLEAN) /\ learned \in Seq(SlotNews)
    /\ sent \in Nat /\ plugged \in BOOLEAN

Holding(c) == callers[c].pc \in {"locked", "waiting"}

LockInv ==
    /\ \A c \in Callers : Holding(c) => ccid.lock /\ (ccid.open \/ ~plugged)
    /\ \A c, d \in Callers : Holding(c) /\ Holding(d) => c = d

\* A command since the reader was opened has the bSeq that it counts to.
Numbered(m, since, last) ==
    /\ m.command <= last
    /\ m.command > since => m.seq = (m.command - since - 1) % SequenceModulus

Unsent == \E c \in Callers : callers[c].pc = "locked"

SequenceCounts ==
    /\ ccid.since <= sent
    /\ Unsent => ccid.since < sent
    /\ ccid.open /\ Unsent => ccid.sequence = (sent - ccid.since - 1) % SequenceModulus
    /\ ccid.open /\ ~Unsent => ccid.sequence = (sent - ccid.since) % SequenceModulus

MessagesNumbered ==
    /\ \A i \in 1..Len(reader.inbox) : Numbered(reader.inbox[i], ccid.since, sent)
    /\ \A i \in 1..Len(replies) : Numbered(replies[i], ccid.since, sent)

CallsNumbered ==
    \A c \in Callers :
       /\ callers[c].pc = "waiting" => /\ callers[c].command = sent /\ ccid.since < sent
                                       /\ Numbered(callers[c], ccid.since, sent)
       /\ callers[c].pc = "answered" => callers[c].reply.command <= sent

SequenceInv == SequenceCounts /\ MessagesNumbered /\ CallsNumbered

\* What is known of the slot is what was last told of it.
LearnedInv ==
    ccid.open => /\ ccid.known <=> learned # <<>>
                 /\ learned # <<>> => ccid.present = learned[Len(learned)].present

CcidInv ==
    CcidTypes /\ LockInv /\ SequenceInv /\ AnswersItsCommand /\ LearnedInv /\ EventsAreNews

\* The rest of the invariant under a step that leaves the callers' stages alone.
LEMMA NothingTold ==
  /\ <<>> \in Seq(BOOLEAN) /\ <<>> \in Seq(CcidAnswers) /\ <<>> \in Seq(CcidCommands)
  /\ <<>> \in Seq(SlotNews) /\ Len(<<>>) = 0 /\ 1..0 = {} /\ 2..0 = {}
<1>1. \A S : <<>> \in Seq(S)
  BY EmptySeq
<1> QED
  BY <1>1

LEMMA CcidInitially == CcidInit => CcidInv
<1> SUFFICES ASSUME CcidInit PROVE CcidInv
  OBVIOUS
<1>1. NoCcidCommand \in CcidCalls /\ NoCcidCommand.pc = "idle"
  BY DEF NoCcidCommand, CcidCalls, Bulks, Blank, NoCard
<1>2. \A c \in Callers : callers[c] = NoCcidCommand
  BY DEF CcidInit
<1>3. CcidTypes
  <2>1. ccid \in CcidDevices
    BY DEF CcidInit, CcidDevices, Bulks, Freed, NoCard
  <2>2. reader \in CcidReaders
    BY NothingTold DEF CcidInit, CcidReaders, NoCard
  <2>3. callers \in [Callers -> CcidCalls]
    BY <1>1 DEF CcidInit
  <2> QED
    BY <2>1, <2>2, <2>3, NothingTold DEF CcidInit, CcidTypes
<1>4. LockInv
  BY <1>1, <1>2 DEF LockInv, Holding
<1>5. SequenceInv
  BY <1>1, <1>2, NothingTold DEF CcidInit, SequenceInv, SequenceCounts, MessagesNumbered, CallsNumbered, Unsent
<1>6. LearnedInv /\ EventsAreNews /\ AnswersItsCommand
  BY <1>1, <1>2, NothingTold DEF CcidInit, LearnedInv, EventsAreNews, AnswersItsCommand
<1> QED
  BY <1>3, <1>4, <1>5, <1>6 DEF CcidInv

\* What one caller does is seen in its own record only.
LEMMA CallerMoves ==
  ASSUME CcidTypes, NEW c \in Callers, NEW call \in CcidCalls,
         callers' = [callers EXCEPT ![c] = call]
  PROVE  /\ callers' \in [Callers -> CcidCalls] /\ callers'[c] = call
         /\ \A d \in Callers \ {c} : callers'[d] = callers[d]
BY DEF CcidTypes

LEMMA IdleCall ==
  /\ NoCcidCommand \in CcidCalls /\ NoCcidCommand.pc = "idle"
  /\ Blank \in Bulks /\ Freed \in Bulks
BY DEF NoCcidCommand, CcidCalls, Bulks, Blank, Freed, NoCard


\* Every message carries the number of a command.
LEMMA CommandsCount ==
  ASSUME CcidTypes
  PROVE  /\ \A i \in 1..Len(reader.inbox) : reader.inbox[i].command \in Int
         /\ \A i \in 1..Len(replies) : replies[i].command \in Int
<1>1. PICK inbox \in Seq(CcidCommands) : inbox = reader.inbox
  BY DEF CcidTypes, CcidReaders
<1>2. \A i \in 1..Len(inbox) : inbox[i] \in CcidCommands
  BY ElementOfSeq
<1>3. \A i \in 1..Len(replies) : replies[i] \in CcidAnswers
  BY ElementOfSeq DEF CcidTypes
<1>4. \A m \in CcidCommands : m.command \in Int
  BY DEF CcidCommands
<1>5. \A m \in CcidAnswers : m.command \in Int
  BY DEF CcidAnswers
<1> QED
  BY <1>1, <1>2, <1>3, <1>4, <1>5

\* The device and a call, field by field.
Device(o, s, b, k, p, a, l, n, i) ==
    [open |-> o, sequence |-> s, buffer |-> b, known |-> k, present |-> p, atr |-> a,
     lock |-> l, opens |-> n, since |-> i]

Call(p, k, n, s, m, e, r, i) ==
    [pc |-> p, kind |-> k, command |-> n, seq |-> s, mismatches |-> m, extensions |-> e,
     reply |-> r, identified |-> i]

LEMMA DeviceFields ==
  ASSUME CcidTypes
  PROVE  /\ ccid = Device(ccid.open, ccid.sequence, ccid.buffer, ccid.known, ccid.present,
                          ccid.atr, ccid.lock, ccid.opens, ccid.since)
         /\ ccid.open \in BOOLEAN /\ ccid.sequence \in Nat /\ ccid.buffer \in Bulks
         /\ ccid.known \in BOOLEAN /\ ccid.present \in BOOLEAN /\ ccid.atr \in Nat
         /\ ccid.lock \in BOOLEAN /\ ccid.opens \in Nat /\ ccid.since \in Nat
BY DEF CcidTypes, CcidDevices, Device

LEMMA DeviceMade ==
  ASSUME NEW o \in BOOLEAN, NEW s \in Nat, NEW b \in Bulks, NEW k \in BOOLEAN,
         NEW p \in BOOLEAN, NEW a \in Nat, NEW l \in BOOLEAN, NEW n \in Nat, NEW i \in Nat
  PROVE  Device(o, s, b, k, p, a, l, n, i) \in CcidDevices
BY DEF Device, CcidDevices

LEMMA CallFields ==
  ASSUME CcidTypes, NEW c \in Callers
  PROVE  LET call == callers[c] IN
         /\ call = Call(call.pc, call.kind, call.command, call.seq, call.mismatches,
                        call.extensions, call.reply, call.identified)
         /\ call.pc \in {"idle", "locked", "waiting", "answered", "copied"}
         /\ call.kind \in Kinds \cup {"none"} /\ call.command \in Nat /\ call.seq \in Nat
         /\ call.mismatches \in Nat /\ call.extensions \in Nat
         /\ call.reply \in Bulks /\ call.reply.command \in Int /\ call.identified \in Nat
<1>1. callers[c] \in CcidCalls
  BY DEF CcidTypes
<1>2. PICK call \in CcidCalls : call = callers[c]
  BY <1>1
<1>3. call = Call(call.pc, call.kind, call.command, call.seq, call.mismatches,
                  call.extensions, call.reply, call.identified)
  BY DEF CcidCalls, Call
<1>4. /\ call.pc \in {"idle", "locked", "waiting", "answered", "copied"}
      /\ call.kind \in Kinds \cup {"none"} /\ call.command \in Nat /\ call.seq \in Nat
      /\ call.mismatches \in Nat /\ call.extensions \in Nat
      /\ call.reply \in Bulks /\ call.identified \in Nat
  BY DEF CcidCalls
<1>5. call.reply.command \in Int
  BY <1>4 DEF Bulks
<1> QED
  BY <1>2, <1>3, <1>4, <1>5

LEMMA CallMade ==
  ASSUME NEW p \in {"idle", "locked", "waiting", "answered", "copied"},
         NEW k \in Kinds \cup {"none"}, NEW n \in Nat, NEW s \in Nat, NEW m \in Nat,
         NEW e \in Nat, NEW r \in Bulks, NEW i \in Nat
  PROVE  Call(p, k, n, s, m, e, r, i) \in CcidCalls
BY DEF Call, CcidCalls

LEMMA CcidOpens ==
  ASSUME CcidInv, NEW c \in Callers, CcidOpen(c) PROVE CcidInv'
<1> USE DEF CcidInv
<1>1. ccid' = Device(TRUE, 0, Blank, FALSE, FALSE, NoCard, ccid.lock, ccid.opens + 1, sent)
  BY DeviceFields DEF Device, CcidOpen, OpenedReader
<1>2. CcidTypes'
  <2>1. ccid' \in CcidDevices
    <3>1. /\ NoCard \in Nat /\ 0 \in Nat /\ TRUE \in BOOLEAN /\ FALSE \in BOOLEAN
          /\ ccid.opens + 1 \in Nat /\ ccid.lock \in BOOLEAN /\ sent \in Nat
      BY DeviceFields DEF CcidTypes, NoCard
    <3> QED
      BY <1>1, <3>1, IdleCall, DeviceMade
  <2> QED
    BY <2>1, NothingTold DEF CcidTypes, CcidOpen
<1>3. \A d \in Callers : ~Holding(d)
  BY DEF CcidOpen, LockInv
<1>4. LockInv'
  BY <1>3 DEF LockInv, Holding, CcidOpen
<1>5. SequenceInv'
  <2>1. ~Unsent' /\ \A d \in Callers : callers'[d].pc # "waiting"
    BY <1>3 DEF Unsent, Holding, CcidOpen
  <2>2. (sent - sent) % SequenceModulus = 0 /\ sent \in Nat
    <3>1. sent \in Nat /\ 0 \in Nat /\ 0 \in 0..(SequenceModulus - 1) /\ 0 = SequenceModulus * 0 + 0
      BY CcidAssumption DEF CcidTypes
    <3> QED
      BY <3>1, CcidAssumption, ModIs
  <2>3. ccid'.since = sent /\ ccid'.sequence = 0
    BY <1>1 DEF Device
  <2>4. \A m : m.command \in Int /\ Numbered(m, ccid.since, sent) => Numbered(m, sent, sent)
    BY <2>2 DEF Numbered
  <2>5. \A i \in 1..Len(reader.inbox) : Numbered(reader.inbox[i], sent, sent)
    BY <2>4, CommandsCount DEF SequenceInv, MessagesNumbered
  <2>6. \A i \in 1..Len(replies) : Numbered(replies[i], sent, sent)
    BY <2>4, CommandsCount DEF SequenceInv, MessagesNumbered
  <2>7. UNCHANGED <<reader, replies, sent, callers>>
    BY DEF CcidOpen
  <2> QED
    BY <2>1, <2>2, <2>3, <2>5, <2>6, <2>7 DEF SequenceInv, SequenceCounts, MessagesNumbered, CallsNumbered
<1>6. AnswersItsCommand'
  BY <1>1 DEF AnswersItsCommand, SequenceInv, CallsNumbered, CcidOpen, Device
<1>7. LearnedInv' /\ EventsAreNews'
  BY <1>1, NothingTold DEF LearnedInv, EventsAreNews, CcidOpen, Device
<1> QED
  BY <1>2, <1>4, <1>5, <1>6, <1>7

LEMMA TailMembers ==
  ASSUME NEW S, NEW q \in Seq(S), q # <<>>
  PROVE  /\ Tail(q) \in Seq(S) /\ Head(q) = q[1] /\ 1 \in 1..Len(q) /\ Head(q) \in S
         /\ \A i \in 1..Len(Tail(q)) : i + 1 \in 1..Len(q) /\ Tail(q)[i] = q[i + 1]
<1>1. Len(q) \in Nat /\ Len(q) >= 1
  BY EmptySeq, LenProperties
<1>2. Tail(q) \in Seq(S) /\ Len(Tail(q)) = Len(q) - 1 /\ Head(q) = q[1]
  BY HeadTailProperties
<1> QED
  BY <1>1, <1>2, HeadTailProperties, ElementOfSeq

LEMMA AppendMembers ==
  ASSUME NEW S, NEW q \in Seq(S), NEW x \in S
  PROVE  /\ Append(q, x) \in Seq(S) /\ Append(q, x) # <<>> /\ Len(q) \in Nat
         /\ Len(Append(q, x)) = Len(q) + 1 /\ Append(q, x)[Len(q) + 1] = x
         /\ \A i \in 1..Len(q) : Append(q, x)[i] = q[i]
BY AppendProperties, LenProperties

\* The one command under way is over.
LEMMA HolderLeaves ==
  ASSUME CcidInv, NEW c \in Callers, Holding(c), NEW call \in CcidCalls,
         callers' = [callers EXCEPT ![c] = call], call.pc \notin {"locked", "waiting"}
  PROVE  \A d \in Callers : ~Holding(d)'
BY CallerMoves DEF CcidInv, LockInv, Holding

\* What a caller that takes no answer leaves as it is.
LEMMA OthersKeep ==
  ASSUME CcidInv, NEW c \in Callers, NEW call \in CcidCalls,
         callers' = [callers EXCEPT ![c] = call], call.pc # "answered",
         ccid'.since = ccid.since
  PROVE  /\ AnswersItsCommand'
         /\ \A d \in Callers : callers'[d].pc = "answered" =>
               callers[d].pc = "answered" /\ callers'[d] = callers[d]
BY CallerMoves DEF CcidInv, AnswersItsCommand

LEMMA CcidCloses ==
  ASSUME CcidInv, NEW c \in Callers, CcidClose(c) PROVE CcidInv'
<1>1. ccid' = Device(FALSE, ccid.sequence, Freed, FALSE, FALSE, NoCard, ccid.lock, ccid.opens, ccid.since)
  BY DeviceFields DEF Device, CcidClose, ReleasedReader, CcidInv
<1>2. UNCHANGED <<callers, reader, replies, notes, learned, sent, plugged>>
  BY DEF CcidClose
<1>3. CcidTypes'
  <2>1. NoCard \in Nat /\ FALSE \in BOOLEAN
    BY DEF NoCard
  <2>2. ccid' \in CcidDevices
    BY <1>1, <2>1, DeviceFields, IdleCall, DeviceMade DEF CcidInv
  <2> QED
    BY <1>2, <2>2 DEF CcidTypes, CcidInv
<1>4. ~ccid'.open /\ ccid'.since = ccid.since
  BY <1>1 DEF Device
<1>5. LockInv'
  BY <1>2 DEF LockInv, Holding, CcidClose, CcidInv
<1> QED
  BY <1>2, <1>3, <1>4, <1>5 DEF CcidInv, SequenceInv, SequenceCounts, Unsent, MessagesNumbered, CallsNumbered,
        AnswersItsCommand, LearnedInv, EventsAreNews

LEMMA CcidGone ==
  ASSUME CcidInv, ReaderGone PROVE CcidInv'
<1>1. ccid' = Device(FALSE, 0, Freed, FALSE, FALSE, NoCard, ccid.lock, ccid.opens, ccid.since)
  BY DeviceFields DEF Device, ReaderGone, ReleasedReader, CcidInv
<1>2. UNCHANGED <<callers, learned, sent>>
  BY DEF ReaderGone
<1>3. reader' \in CcidReaders /\ reader'.inbox = <<>>
  BY NothingTold DEF ReaderGone, CcidReaders, CcidInv, CcidTypes
<1>4. CcidTypes'
  <2>1. NoCard \in Nat /\ FALSE \in BOOLEAN /\ 0 \in Nat
    BY DEF NoCard
  <2>2. ccid' \in CcidDevices
    BY <1>1, <2>1, DeviceFields, IdleCall, DeviceMade DEF CcidInv
  <2> QED
    BY <1>2, <1>3, <2>2, NothingTold DEF CcidTypes, CcidInv, ReaderGone
<1>5. ~ccid'.open /\ ccid'.since = ccid.since /\ ccid'.lock = ccid.lock
  BY <1>1 DEF Device
<1>6. LockInv'
  BY <1>2, <1>5 DEF LockInv, Holding, ReaderGone, CcidInv
<1>7. MessagesNumbered'
  BY <1>3, NothingTold DEF MessagesNumbered, ReaderGone
<1> QED
  BY <1>2, <1>4, <1>5, <1>6, <1>7 DEF CcidInv, SequenceInv, SequenceCounts, Unsent, CallsNumbered,
        AnswersItsCommand, LearnedInv, EventsAreNews

LEMMA CcidLocks ==
  ASSUME CcidInv, NEW c \in Callers, Lock(c) PROVE CcidInv'
<1> USE DEF CcidInv
<1>1. PICK kind \in Kinds, call \in CcidCalls :
        /\ callers' = [callers EXCEPT ![c] = call] /\ call.pc = "locked"
  <2>1. PICK kind \in Kinds : callers' = [callers EXCEPT ![c] =
                [NoCcidCommand EXCEPT !.pc = "locked", !.kind = kind, !.identified = ccid.atr]]
    BY DEF Lock
  <2> DEFINE call == Call("locked", kind, 0, 0, 0, 0, Blank, ccid.atr)
  <2>2. callers' = [callers EXCEPT ![c] = call] /\ call.pc = "locked"
    <3>1. PICK locked : locked = [NoCcidCommand EXCEPT !.pc = "locked", !.kind = kind,
                                                       !.identified = ccid.atr]
      OBVIOUS
    <3>2. locked = call
      BY <3>1 DEF NoCcidCommand, Call
    <3> QED
      BY <2>1, <3>1, <3>2 DEF Call
  <2>3. call \in CcidCalls
    BY CallMade, DeviceFields, IdleCall
  <2> HIDE DEF call
  <2> QED
    BY <2>2, <2>3
<1>2. ccid' = Device(ccid.open, ccid.sequence, ccid.buffer, ccid.known, ccid.present,
                     ccid.atr, TRUE, ccid.opens, ccid.since)
  BY DeviceFields DEF Device, Lock
<1>3. /\ ccid'.since = ccid.since /\ ccid'.open /\ ccid.open /\ ccid'.sequence = ccid.sequence
      /\ ccid'.lock /\ ccid'.known = ccid.known /\ ccid'.present = ccid.present
  BY <1>2 DEF Device, Lock
<1>4. UNCHANGED <<reader, replies, notes, learned, plugged>> /\ sent' = sent + 1 /\ sent \in Nat
  BY DEF Lock, CcidTypes
<1>5. \A d \in Callers : ~Holding(d)
  BY DEF Lock, LockInv
<1>6. CcidTypes'
  <2>1. ccid' \in CcidDevices
    BY <1>2, DeviceFields DEF Device, CcidDevices
  <2> QED
    BY <1>1, <1>4, <2>1, CallerMoves DEF CcidTypes
<1>7. /\ callers'[c] \in CcidCalls /\ callers'[c].pc = "locked"
      /\ \A d \in Callers \ {c} : callers'[d] = callers[d]
  BY <1>1, CallerMoves
<1>8. LockInv'
  BY <1>3, <1>5, <1>7 DEF LockInv, Holding
<1>9. SequenceInv'
  <2>1. ccid.since \in Nat /\ ~Unsent /\ Unsent'
    BY <1>5, <1>7, DeviceFields DEF Unsent, Holding
  <2>2. SequenceCounts'
    <3>1. sent' - ccid.since - 1 = sent - ccid.since
      BY <1>4, <2>1
    <3> QED
      BY <1>3, <1>4, <2>1, <3>1 DEF SequenceInv, SequenceCounts
  <2>3. \A m : m.command \in Int /\ Numbered(m, ccid.since, sent) => Numbered(m, ccid.since, sent + 1)
    BY <1>4 DEF Numbered
  <2>4. MessagesNumbered'
    <3>1. \A i \in 1..Len(reader.inbox) : Numbered(reader.inbox[i], ccid.since, sent + 1)
      BY <2>3, CommandsCount DEF SequenceInv, MessagesNumbered
    <3>2. \A i \in 1..Len(replies) : Numbered(replies[i], ccid.since, sent + 1)
      BY <2>3, CommandsCount DEF SequenceInv, MessagesNumbered
    <3> QED
      BY <1>3, <1>4, <3>1, <3>2 DEF MessagesNumbered
  <2>5. CallsNumbered'
    <3>1. \A d \in Callers : callers[d].reply.command \in Int
      BY CallFields
    <3> QED
      BY <1>4, <1>5, <1>7, <3>1 DEF SequenceInv, CallsNumbered, Holding
  <2> QED
    BY <2>2, <2>4, <2>5 DEF SequenceInv
<1>10. AnswersItsCommand'
  BY <1>1, <1>3, OthersKeep
<1>11. LearnedInv' /\ EventsAreNews'
  BY <1>3, <1>4 DEF LearnedInv, EventsAreNews
<1> QED
  BY <1>6, <1>8, <1>9, <1>10, <1>11

\* A caller's end of the exchange: the lock is given back, no command is under way.
LEMMA LockGivenBack ==
  ASSUME CcidInv, NEW c \in Callers, Holding(c), NEW call \in CcidCalls,
         callers' = [callers EXCEPT ![c] = call], call.pc \in {"idle", "answered"},
         call.pc = "answered" => call.reply.command <= sent,
         ccid'.since = ccid.since, sent' = sent,
         ccid'.open => ccid.open /\ ccid'.sequence = (IF callers[c].pc = "locked"
                          THEN (ccid.sequence + 1) % SequenceModulus ELSE ccid.sequence)
  PROVE  LockInv' /\ SequenceCounts' /\ CallsNumbered'
<1> USE DEF CcidInv
<1>1. \A d \in Callers : ~Holding(d)'
  BY HolderLeaves
<1>2. LockInv'
  BY <1>1 DEF LockInv
<1>3. /\ callers'[c] = call /\ \A d \in Callers \ {c} : callers'[d] = callers[d]
  BY CallerMoves
<1>4. SequenceCounts'
  <2>1. ~Unsent'
    BY <1>1 DEF Unsent, Holding
  <2>2. CASE callers[c].pc = "locked"
    <3>1. Unsent
      BY <2>2 DEF Unsent
    <3>2. sent - ccid.since - 1 \in Nat /\ sent - ccid.since = (sent - ccid.since - 1) + 1
      BY <3>1, DeviceFields DEF SequenceInv, SequenceCounts, CcidTypes
    <3>3. (((sent - ccid.since - 1) % SequenceModulus) + 1) % SequenceModulus = (sent - ccid.since) % SequenceModulus
      BY <3>2, CcidAssumption, ModNext
    <3> QED
      BY <2>1, <2>2, <3>1, <3>3 DEF SequenceInv, SequenceCounts
  <2>3. CASE callers[c].pc # "locked"
    <3>1. ~Unsent
      BY <2>3 DEF Unsent, LockInv, Holding
    <3> QED
      BY <2>1, <2>3, <3>1 DEF SequenceInv, SequenceCounts
  <2> QED
    BY <2>2, <2>3
<1>5. CallsNumbered'
  BY <1>1, <1>3 DEF Holding, SequenceInv, CallsNumbered
<1> QED
  BY <1>2, <1>4, <1>5

LEMMA CcidSends ==
  ASSUME CcidInv, NEW c \in Callers, Send(c) PROVE CcidInv'
<1> USE DEF CcidInv
<1>1. callers[c].pc = "locked" /\ Holding(c) /\ UNCHANGED <<replies, notes, learned, sent, plugged>>
  BY DEF Send, Holding
<1>2. CASE NotSent(c)
  <2> DEFINE next == IF ccid.open THEN (ccid.sequence + 1) % SequenceModulus ELSE ccid.sequence
  <2>1. next \in Nat
    BY DeviceFields, CcidAssumption, DivMod
  <2>2. ccid' = Device(ccid.open, next, ccid.buffer, ccid.known, ccid.present, ccid.atr, FALSE,
                       ccid.opens, ccid.since)
    BY <1>2, DeviceFields DEF NotSent, Device
  <2>3. callers' = [callers EXCEPT ![c] = NoCcidCommand] /\ UNCHANGED reader
    BY <1>2 DEF NotSent, Ends
  <2> HIDE DEF next
  <2>4. CcidTypes'
    <3>1. ccid' \in CcidDevices
      BY <2>1, <2>2, DeviceFields DEF Device, CcidDevices
    <3> QED
      BY <1>1, <2>3, <3>1, CallerMoves, IdleCall DEF CcidTypes
  <2>5. /\ ccid'.since = ccid.since /\ ccid'.open = ccid.open /\ ccid'.sequence = next
        /\ ccid'.known = ccid.known /\ ccid'.present = ccid.present
    BY <2>2 DEF Device
  <2>6. LockInv' /\ SequenceCounts' /\ CallsNumbered'
    BY <1>1, <2>3, <2>5, IdleCall, LockGivenBack DEF next
  <2>7. MessagesNumbered'
    BY <1>1, <2>3, <2>5 DEF SequenceInv, MessagesNumbered
  <2>8. AnswersItsCommand'
    BY <2>3, <2>5, IdleCall, OthersKeep
  <2> QED
    BY <1>1, <2>4, <2>5, <2>6, <2>7, <2>8 DEF SequenceInv, LearnedInv, EventsAreNews
<1>3. CASE ~NotSent(c)
  <2> DEFINE command == [command |-> sent, seq |-> ccid.sequence, kind |-> callers[c].kind]
             next == (ccid.sequence + 1) % SequenceModulus
             call == Call("waiting", callers[c].kind, sent, ccid.sequence, callers[c].mismatches,
                          callers[c].extensions, callers[c].reply, callers[c].identified)
             bulk == [command |-> sent, card |-> NoCard]
  <2>1. /\ ccid.open /\ plugged
        /\ callers' = [callers EXCEPT ![c] = call]
        /\ ccid' = [ccid EXCEPT !.sequence = next, !.buffer = bulk]
        /\ reader' = [reader EXCEPT !.inbox = Append(@, command)]
    <3>1. /\ ccid.open /\ plugged
          /\ callers' = [callers EXCEPT ![c] = [callers[c] EXCEPT !.pc = "waiting", !.seq = ccid.sequence,
                                                                  !.command = sent]]
          /\ ccid' = [ccid EXCEPT !.sequence = next, !.buffer = bulk]
          /\ reader' = [reader EXCEPT !.inbox = Append(@, command)]
      BY <1>3, DeviceFields DEF Send, CcidTypes
    <3>2. PICK waiting : waiting = [callers[c] EXCEPT !.pc = "waiting", !.seq = ccid.sequence,
                                                      !.command = sent]
      OBVIOUS
    <3>3. PICK old : old = callers[c]
      OBVIOUS
    <3>4. waiting = Call("waiting", old.kind, sent, ccid.sequence, old.mismatches, old.extensions,
                         old.reply, old.identified)
      <4>1. old = Call(old.pc, old.kind, old.command, old.seq, old.mismatches, old.extensions,
                       old.reply, old.identified)
        BY <3>3, CallFields
      <4> QED
        BY <3>2, <3>3, <4>1 DEF Call
    <3> QED
      BY <3>1, <3>2, <3>3, <3>4
  <2>2. next \in Nat /\ bulk \in Bulks /\ sent \in Nat /\ ccid.sequence \in Nat
    <3>1. ccid.sequence \in Nat /\ sent \in Nat /\ NoCard \in Nat
      BY DeviceFields DEF CcidTypes, NoCard
    <3> QED
      BY <3>1, CcidAssumption, DivMod DEF Bulks
  <2>3. call \in CcidCalls /\ call.pc = "waiting" /\ call.command = sent /\ call.seq = ccid.sequence
    <3>1. call \in CcidCalls
      BY <2>2, CallFields, CallMade
    <3> QED
      BY <3>1 DEF Call
  <2>4. command \in CcidCommands /\ command.command = sent /\ command.seq = ccid.sequence
    BY <2>2, CallFields DEF CcidCommands
  <2> HIDE DEF next, bulk, call, command
  <2>5. ccid' = Device(ccid.open, next, bulk, ccid.known, ccid.present, ccid.atr, ccid.lock,
                       ccid.opens, ccid.since)
    BY <2>1, DeviceFields DEF Device
  <2>6. PICK inbox \in Seq(CcidCommands) : inbox = reader.inbox /\ reader'.inbox = Append(inbox, command)
    BY <2>1 DEF CcidTypes, CcidReaders
  <2>7. reader' \in CcidReaders
    BY <2>1, <2>4, AppendMembers DEF CcidTypes, CcidReaders
  <2>8. CcidTypes'
    <3>1. ccid' \in CcidDevices
      BY <2>2, <2>5, DeviceFields DEF Device, CcidDevices
    <3> QED
      BY <1>1, <2>1, <2>3, <2>7, <3>1, CallerMoves DEF CcidTypes
  <2>9. /\ ccid'.since = ccid.since /\ ccid'.open = ccid.open /\ ccid'.sequence = next
        /\ ccid'.known = ccid.known /\ ccid'.present = ccid.present /\ ccid'.lock = ccid.lock
    BY <2>5 DEF Device
  <2>10. /\ callers'[c] = call
         /\ \A d \in Callers \ {c} : callers'[d] = callers[d] /\ ~Holding(d)
    BY <1>1, <2>1, <2>3, CallerMoves DEF LockInv
  <2>11. LockInv'
    BY <1>1, <2>3, <2>9, <2>10 DEF LockInv, Holding
  <2>12. Unsent /\ ~Unsent'
    BY <1>1, <2>3, <2>10 DEF Unsent, Holding
  <2>13. sent - ccid.since - 1 \in Nat /\ sent - ccid.since = (sent - ccid.since - 1) + 1
    BY <2>12, DeviceFields, <2>2 DEF SequenceInv, SequenceCounts
  <2>14. SequenceCounts'
    <3>1. next = (sent - ccid.since) % SequenceModulus
      BY <2>1, <2>12, <2>13, CcidAssumption, ModNext DEF SequenceInv, SequenceCounts, next
    <3> QED
      BY <1>1, <2>9, <2>12, <3>1 DEF SequenceInv, SequenceCounts
  <2>15. ccid.sequence = (sent - ccid.since - 1) % SequenceModulus /\ ccid.since < sent
    BY <2>1, <2>12 DEF SequenceInv, SequenceCounts
  <2>16. Numbered(command, ccid.since, sent) /\ Numbered(call, ccid.since, sent)
    BY <2>2, <2>3, <2>4, <2>15 DEF Numbered
  <2>17. MessagesNumbered'
    <3>1. \A i \in 1..Len(inbox) : Numbered(inbox[i], ccid.since, sent)
      BY <2>6 DEF SequenceInv, MessagesNumbered
    <3>2. \A i \in 1..Len(Append(inbox, command)) : Numbered(Append(inbox, command)[i], ccid.since, sent)
      BY <2>4, <2>6, <2>16, <3>1, AppendMembers
    <3> QED
      BY <1>1, <2>6, <2>9, <3>2 DEF SequenceInv, MessagesNumbered
  <2>18. CallsNumbered'
    BY <1>1, <2>3, <2>9, <2>10, <2>15, <2>16 DEF SequenceInv, CallsNumbered, Holding
  <2>19. AnswersItsCommand'
    BY <2>1, <2>3, <2>9, OthersKeep
  <2> QED
    BY <1>1, <2>8, <2>9, <2>11, <2>14, <2>17, <2>18, <2>19 DEF SequenceInv, LearnedInv, EventsAreNews
<1> QED
  BY <1>2, <1>3

\* A message leaves the pipe; the others keep their numbers.
LEMMA MessageTaken ==
  ASSUME CcidInv, replies # <<>>, replies' = Tail(replies), UNCHANGED <<reader, sent>>,
         ccid'.since = ccid.since
  PROVE  /\ MessagesNumbered' /\ replies' \in Seq(CcidAnswers)
         /\ Head(replies) \in CcidAnswers /\ Numbered(Head(replies), ccid.since, sent)
<1>1. replies \in Seq(CcidAnswers)
  BY DEF CcidInv, CcidTypes
<1>2. \A i \in 1..Len(Tail(replies)) : Numbered(Tail(replies)[i], ccid.since, sent)
  BY <1>1, TailMembers DEF CcidInv, SequenceInv, MessagesNumbered
<1> QED
  BY <1>1, <1>2, TailMembers DEF CcidInv, SequenceInv, MessagesNumbered

\* A waiting caller gives up.
LEMMA CallerEnds ==
  ASSUME CcidInv, NEW c \in Callers, callers[c].pc = "waiting",
         callers' = [callers EXCEPT ![c] = NoCcidCommand], ccid' = [ccid EXCEPT !.lock = FALSE],
         UNCHANGED <<sent, plugged, learned>>
  PROVE  /\ ccid' \in CcidDevices /\ callers' \in [Callers -> CcidCalls]
         /\ LockInv' /\ SequenceCounts' /\ CallsNumbered' /\ AnswersItsCommand'
         /\ LearnedInv' /\ EventsAreNews' /\ ccid'.since = ccid.since
<1> USE DEF CcidInv
<1>1. ccid' = Device(ccid.open, ccid.sequence, ccid.buffer, ccid.known, ccid.present, ccid.atr, FALSE,
                     ccid.opens, ccid.since)
  BY DeviceFields DEF Device
<1>2. ccid' \in CcidDevices
  <2>1. /\ ccid.open \in BOOLEAN /\ ccid.sequence \in Nat /\ ccid.buffer \in Bulks
        /\ ccid.known \in BOOLEAN /\ ccid.present \in BOOLEAN /\ ccid.atr \in Nat
        /\ FALSE \in BOOLEAN /\ ccid.opens \in Nat /\ ccid.since \in Nat
    BY DeviceFields
  <2>2. Device(ccid.open, ccid.sequence, ccid.buffer, ccid.known, ccid.present, ccid.atr, FALSE,
               ccid.opens, ccid.since) \in CcidDevices
    BY ONLY <2>1 DEF Device, CcidDevices
  <2> QED
    BY <1>1, <2>2
<1>3. /\ ccid'.since = ccid.since /\ ccid'.open = ccid.open /\ ccid'.sequence = ccid.sequence
      /\ ccid'.known = ccid.known /\ ccid'.present = ccid.present
  BY <1>1 DEF Device
<1>4. callers' \in [Callers -> CcidCalls]
  BY IdleCall, CallerMoves
<1>5. LockInv' /\ SequenceCounts' /\ CallsNumbered'
  <2>1. Holding(c)
    BY DEF Holding
  <2> QED
    BY <1>3, <2>1, IdleCall, LockGivenBack
<1>6. AnswersItsCommand'
  BY <1>3, IdleCall, OthersKeep
<1> QED
  BY <1>2, <1>3, <1>4, <1>5, <1>6 DEF LearnedInv, EventsAreNews

\* A message is skipped: the caller waits on, or gives the lock back.
LEMMA MessageSkipped ==
  ASSUME CcidInv, NEW c \in Callers, callers[c].pc = "waiting",
         NEW counter \in {"mismatches", "extensions"}, NEW limit,
         SkippedInTurn(c, counter, limit), UNCHANGED <<sent, plugged, learned>>
  PROVE  /\ ccid' \in CcidDevices /\ callers' \in [Callers -> CcidCalls]
         /\ LockInv' /\ SequenceCounts' /\ CallsNumbered' /\ AnswersItsCommand'
         /\ LearnedInv' /\ EventsAreNews' /\ ccid'.since = ccid.since
<1> USE DEF CcidInv
<1>1. CASE callers[c][counter] < limit
  <2>1. callers' = [callers EXCEPT ![c] = [callers[c] EXCEPT ![counter] = @ + 1]] /\ UNCHANGED ccid
    BY <1>1 DEF SkippedInTurn, CcidTypes
  <2>2. PICK old : /\ old = callers[c]
                   /\ old = Call(old.pc, old.kind, old.command, old.seq, old.mismatches,
                                 old.extensions, old.reply, old.identified)
    BY CallFields
  <2>8. PICK call \in CcidCalls :
           /\ callers' = [callers EXCEPT ![c] = call]
           /\ call.pc = "waiting" /\ call.command = callers[c].command /\ call.seq = callers[c].seq
    <3>1. CASE counter = "mismatches"
      <4>1. PICK call : call = [callers[c] EXCEPT !.mismatches = @ + 1]
        OBVIOUS
      <4>2. call = Call("waiting", callers[c].kind, callers[c].command, callers[c].seq,
                        callers[c].mismatches + 1, callers[c].extensions, callers[c].reply, callers[c].identified)
        BY <2>2, <4>1 DEF Call
      <4>3. callers[c].mismatches + 1 \in Nat
        BY CallFields
      <4>4. call \in CcidCalls
        BY <4>2, <4>3, CallFields, CallMade
      <4> QED
        BY <2>1, <3>1, <4>1, <4>2, <4>4 DEF Call
    <3>2. CASE counter = "extensions"
      <4>1. PICK call : call = [callers[c] EXCEPT !.extensions = @ + 1]
        OBVIOUS
      <4>2. call = Call("waiting", callers[c].kind, callers[c].command, callers[c].seq,
                        callers[c].mismatches, callers[c].extensions + 1, callers[c].reply, callers[c].identified)
        BY <2>2, <4>1 DEF Call
      <4>3. callers[c].extensions + 1 \in Nat
        BY CallFields
      <4>4. call \in CcidCalls
        BY <4>2, <4>3, CallFields, CallMade
      <4> QED
        BY <2>1, <3>2, <4>1, <4>2, <4>4 DEF Call
    <3> QED
      BY <3>1, <3>2
  <2>3. /\ callers'[c] = call /\ \A d \in Callers \ {c} : callers'[d] = callers[d]
        /\ callers' \in [Callers -> CcidCalls]
    BY <2>8, CallerMoves
  <2>4. \A d \in Callers : callers'[d].pc = callers[d].pc
    BY <2>8, <2>3
  <2>5. LockInv' /\ SequenceCounts'
    BY <2>1, <2>4 DEF LockInv, Holding, SequenceInv, SequenceCounts, Unsent
  <2>6. CallsNumbered'
    BY <2>1, <2>8, <2>3 DEF SequenceInv, CallsNumbered, Numbered
  <2>7. AnswersItsCommand'
    BY <2>1, <2>8, OthersKeep
  <2> QED
    BY <2>1, <2>3, <2>5, <2>6, <2>7 DEF CcidTypes, LearnedInv, EventsAreNews
<1>2. CASE ~(callers[c][counter] < limit)
  <2>1. callers' = [callers EXCEPT ![c] = NoCcidCommand] /\ ccid' = [ccid EXCEPT !.lock = FALSE]
    BY <1>2 DEF SkippedInTurn, Ends
  <2> QED
    BY <2>1, CallerEnds
<1> QED
  BY <1>1, <1>2

LEMMA CcidGivesUp ==
  ASSUME CcidInv, NEW c \in Callers, GiveUp(c) PROVE CcidInv'
<1>1. /\ callers[c].pc = "waiting" /\ callers' = [callers EXCEPT ![c] = NoCcidCommand]
      /\ ccid' = [ccid EXCEPT !.lock = FALSE]
      /\ UNCHANGED <<reader, replies, notes, learned, sent, plugged>>
  BY DEF GiveUp, Ends
<1>2. /\ ccid' \in CcidDevices /\ callers' \in [Callers -> CcidCalls]
      /\ LockInv' /\ SequenceCounts' /\ CallsNumbered' /\ AnswersItsCommand'
      /\ LearnedInv' /\ EventsAreNews' /\ ccid'.since = ccid.since
  BY <1>1, CallerEnds
<1> QED
  BY <1>1, <1>2 DEF CcidInv, CcidTypes, SequenceInv, MessagesNumbered

\* Something is learned of the slot: it is what is known then.
LEMMA SlotLearned ==
  ASSUME CcidInv, NEW here \in BOOLEAN, NEW from \in {"event", "answer"}, Learns(from, here),
         ccid'.known, ccid'.present = here,
         from = "event" /\ learned # <<>> => learned[Len(learned)].present # here
  PROVE  learned' \in Seq(SlotNews) /\ LearnedInv' /\ EventsAreNews'
<1> DEFINE news == [from |-> from, present |-> here]
<1>1. news \in SlotNews /\ news.from = from /\ news.present = here
  BY DEF SlotNews
<1>2. learned' = Append(learned, news) /\ learned \in Seq(SlotNews)
  BY DEF Learns, CcidInv, CcidTypes
<1> HIDE DEF news
<1>3. /\ learned' \in Seq(SlotNews) /\ learned' # <<>> /\ Len(learned) \in Nat
      /\ Len(learned') = Len(learned) + 1 /\ learned'[Len(learned) + 1] = news
      /\ \A i \in 1..Len(learned) : learned'[i] = learned[i]
  BY <1>1, <1>2, AppendMembers
<1>4. LearnedInv'
  BY <1>1, <1>3 DEF LearnedInv
<1>5. EventsAreNews'
  <2> SUFFICES ASSUME NEW i \in 2..Len(learned'), learned'[i].from = "event"
               PROVE  learned'[i].present # learned'[i - 1].present
    BY DEF EventsAreNews
  <2>1. i \in Int /\ i - 1 \in 1..Len(learned) /\ learned'[i - 1] = learned[i - 1]
    BY <1>3
  <2>2. CASE i \in 2..Len(learned)
    <3>1. learned'[i] = learned[i]
      BY <1>3, <2>2
    <3> QED
      BY <2>1, <2>2, <3>1 DEF CcidInv, EventsAreNews
  <2>3. CASE i \notin 2..Len(learned)
    <3>1. i = Len(learned) + 1 /\ i - 1 = Len(learned) /\ learned # <<>>
      BY <1>3, <2>1, <2>3, EmptySeq
    <3> QED
      BY <1>1, <1>3, <2>1, <3>1
  <2> QED
    BY <2>2, <2>3
<1> QED
  BY <1>3, <1>4, <1>5

LEMMA CcidNotified ==
  ASSUME CcidInv, Notified PROVE CcidInv'
<1> USE DEF CcidInv
<1>1. /\ notes # <<>> /\ notes' = Tail(notes) /\ plugged
      /\ UNCHANGED <<callers, reader, replies, sent, plugged>>
  BY DEF Notified
<1>2. PICK now \in BOOLEAN : now = Head(notes)
  BY <1>1, TailMembers DEF CcidTypes
<1>3. notes' \in Seq(BOOLEAN)
  BY <1>1, TailMembers DEF CcidTypes
<1>4. CASE ~ccid.open
  <2>1. UNCHANGED <<ccid, learned>>
    BY <1>4 DEF Notified
  <2> QED
    BY <1>1, <1>3, <2>1 DEF CcidTypes, LockInv, Holding, SequenceInv, SequenceCounts, Unsent,
          MessagesNumbered, CallsNumbered, AnswersItsCommand, LearnedInv, EventsAreNews
<1>5. CASE ccid.open
  <2>1. PICK atr : ccid' = [ccid EXCEPT !.known = TRUE, !.present = now, !.atr = atr] /\ atr \in Nat
    <3>1. ccid' = [ccid EXCEPT !.known = TRUE, !.present = now,
                     !.atr = IF now \/ (ccid.known /\ ~ccid.present) THEN ccid.atr ELSE NoCard]
      BY <1>2, <1>5 DEF Notified
    <3>2. ccid.atr \in Nat /\ NoCard \in Nat
      BY DeviceFields DEF NoCard
    <3> QED
      BY <3>1, <3>2
  <2>2. ccid' = Device(ccid.open, ccid.sequence, ccid.buffer, TRUE, now, atr, ccid.lock, ccid.opens, ccid.since)
    BY <2>1, DeviceFields DEF Device
  <2>3. ccid' \in CcidDevices
    <3>1. TRUE \in BOOLEAN /\ now \in BOOLEAN /\ atr \in Nat
      BY <2>1
    <3> QED
      BY <2>2, <3>1, DeviceFields DEF Device, CcidDevices
  <2>4. /\ ccid'.since = ccid.since /\ ccid'.open = ccid.open /\ ccid'.sequence = ccid.sequence
        /\ ccid'.lock = ccid.lock /\ ccid'.known = TRUE /\ ccid'.present = now
    BY <2>2 DEF Device
  <2>5. learned' \in Seq(SlotNews) /\ LearnedInv' /\ EventsAreNews'
    <3>1. CASE ccid.known /\ ccid.present = now
      <4>1. UNCHANGED learned
        BY <1>2, <1>5, <3>1 DEF Notified
      <4> QED
        BY <1>5, <2>4, <3>1, <4>1 DEF CcidTypes, LearnedInv, EventsAreNews
    <3>2. CASE ~(ccid.known /\ ccid.present = now)
      <4>1. Learns("event", now)
        BY <1>2, <1>5, <3>2 DEF Notified
      <4>2. learned # <<>> => learned[Len(learned)].present # now
        BY <1>5, <3>2 DEF LearnedInv
      <4> QED
        BY <2>4, <4>1, <4>2, SlotLearned
    <3> QED
      BY <3>1, <3>2
  <2> QED
    BY <1>1, <1>3, <2>3, <2>4, <2>5 DEF CcidTypes, LockInv, Holding, SequenceInv, SequenceCounts, Unsent,
          MessagesNumbered, CallsNumbered, AnswersItsCommand
<1> QED
  BY <1>4, <1>5

\* Two commands since the reader was opened that have one bSeq are a whole round apart.
LEMMA SameNumber ==
  ASSUME NEW since \in Nat, NEW last \in Nat, NEW reply, reply.command \in Nat, NEW call,
         Numbered(reply, since, last), Numbered(call, since, last), call.command = last,
         since < last, reply.seq = call.seq
  PROVE  \/ reply.command = call.command \/ reply.command <= since
         \/ call.command - reply.command >= SequenceModulus
<1> SUFFICES ASSUME reply.command > since, reply.command < last
             PROVE  last - reply.command >= SequenceModulus
  BY DEF Numbered
<1>1. PICK a \in Nat, b \in Nat : a = reply.command - since - 1 /\ b = last - since - 1
  OBVIOUS
<1>2. a < b /\ a % SequenceModulus = b % SequenceModulus
  BY <1>1 DEF Numbered
<1>3. b - a >= SequenceModulus
  BY <1>2, CcidAssumption, ModDistance
<1> QED
  BY <1>1, <1>3

LEMMA CcidReceives ==
  ASSUME CcidInv, NEW c \in Callers, Receive(c) PROVE CcidInv'
<1> USE DEF CcidInv
<1>1. /\ callers[c].pc = "waiting" /\ replies # <<>> /\ plugged /\ replies' = Tail(replies)
      /\ UNCHANGED <<reader, notes, sent, plugged>> /\ Holding(c)
  BY DEF Receive, Holding
<1>2. CASE \E counter \in {"mismatches", "extensions"} : \E limit :
              SkippedInTurn(c, counter, limit) /\ UNCHANGED learned
  <2>1. /\ ccid' \in CcidDevices /\ callers' \in [Callers -> CcidCalls]
        /\ LockInv' /\ SequenceCounts' /\ CallsNumbered' /\ AnswersItsCommand'
        /\ LearnedInv' /\ EventsAreNews' /\ ccid'.since = ccid.since
    BY <1>1, <1>2, MessageSkipped
  <2> QED
    BY <1>1, <1>2, <2>1, MessageTaken DEF CcidTypes, SequenceInv
<1>3. ASSUME IsAnswer(callers[c], Head(replies)), Learns("answer", Head(replies).card # NoCard),
             ccid' = Seen(ccid, Head(replies)),
             callers' = [callers EXCEPT ![c].pc = "answered", ![c].reply =
                           [command |-> Head(replies).command, card |-> Head(replies).card]]
      PROVE  CcidInv'
  <2>1. ccid.open
    BY <1>1 DEF LockInv
  <2>2. PICK reply \in CcidAnswers : reply = Head(replies)
    BY <1>1, TailMembers DEF CcidTypes
  <2>3. PICK bulk : bulk = [command |-> reply.command, card |-> reply.card]
    OBVIOUS
  <2>4. bulk \in Bulks /\ bulk.command = reply.command /\ reply.command \in Nat
    BY <2>3 DEF Bulks, CcidAnswers
  <2>5. PICK here \in BOOLEAN, atr \in Nat :
           ccid' = Device(ccid.open, ccid.sequence, bulk, TRUE, here, atr, FALSE, ccid.opens, ccid.since)
           /\ here = (reply.card # NoCard)
    <3>1. PICK here \in BOOLEAN, atr \in Nat :
             /\ here = (reply.card # NoCard)
             /\ atr = IF reply.card = NoCard THEN NoCard ELSE ccid.atr
      BY DeviceFields DEF NoCard
    <3>2. ccid' = [ccid EXCEPT !.known = TRUE, !.present = here, !.lock = FALSE, !.buffer = bulk, !.atr = atr]
      BY <1>3, <2>2, <2>3, <3>1 DEF Seen
    <3> QED
      BY <3>1, <3>2, DeviceFields DEF Device
  <2>6. ccid' \in CcidDevices
    <3>1. TRUE \in BOOLEAN /\ FALSE \in BOOLEAN
      OBVIOUS
    <3> QED
      BY <2>4, <2>5, <3>1, DeviceFields DEF Device, CcidDevices
  <2>7. /\ ccid'.since = ccid.since /\ ccid'.open = ccid.open /\ ccid'.sequence = ccid.sequence
        /\ ccid'.known = TRUE /\ ccid'.present = here
    BY <2>5 DEF Device
  <2>8. PICK old : /\ old = callers[c]
                   /\ old = Call(old.pc, old.kind, old.command, old.seq, old.mismatches,
                                 old.extensions, old.reply, old.identified)
    BY CallFields
  <2>9. PICK call : call = [old EXCEPT !.pc = "answered", !.reply = bulk]
    OBVIOUS
  <2>10. call = Call("answered", old.kind, old.command, old.seq, old.mismatches, old.extensions,
                     bulk, old.identified)
    BY <2>8, <2>9 DEF Call
  <2>11. call \in CcidCalls
    BY <2>4, <2>8, <2>10, CallFields, CallMade
  <2>12. callers' = [callers EXCEPT ![c] = call]
    BY <1>3, <2>2, <2>3, <2>8, <2>9 DEF CcidTypes
  <2>13. call.pc = "answered" /\ call.reply = bulk /\ call.command = old.command
    BY <2>10 DEF Call
  <2>14. Numbered(reply, ccid.since, sent) /\ MessagesNumbered' /\ replies' \in Seq(CcidAnswers)
    BY <1>1, <2>2, <2>7, MessageTaken
  <2>15. LockInv' /\ SequenceCounts' /\ CallsNumbered'
    <3>1. call.reply.command <= sent /\ call.pc \in {"idle", "answered"}
      BY <2>4, <2>13, <2>14 DEF Numbered
    <3>2. callers[c].pc # "locked"
      BY <1>1
    <3> QED
      BY <1>1, <2>7, <2>11, <2>12, <3>1, <3>2, LockGivenBack
  <2>16. learned' \in Seq(SlotNews) /\ LearnedInv' /\ EventsAreNews'
    BY <1>3, <2>2, <2>5, <2>7, SlotLearned
  <2>17. AnswersItsCommand'
    <3>1. \/ reply.command = old.command \/ reply.command <= ccid.since
          \/ old.command - reply.command >= SequenceModulus
      <4>1. /\ old.command = sent /\ ccid.since < sent /\ Numbered(old, ccid.since, sent)
            /\ reply.seq = old.seq
        BY <1>1, <1>3, <2>2, <2>8 DEF SequenceInv, CallsNumbered, IsAnswer
      <4>2. ccid.since \in Nat /\ sent \in Nat
        BY DeviceFields DEF CcidTypes
      <4> QED
        BY <2>4, <2>14, <4>1, <4>2, SameNumber
    <3>2. callers'[c] = call /\ \A d \in Callers \ {c} : callers'[d] = callers[d]
      BY <2>11, <2>12, CallerMoves
    <3> QED
      BY <2>4, <2>7, <2>13, <3>1, <3>2 DEF AnswersItsCommand
  <2>18. CcidTypes'
    BY <1>1, <2>6, <2>11, <2>12, <2>14, <2>16, CallerMoves DEF CcidTypes
  <2> QED
    BY <2>14, <2>15, <2>16, <2>17, <2>18 DEF SequenceInv
<1> QED
  BY <1>2, <1>3 DEF Receive

\* What a caller does with its answer changes the cached ATR only.
LEMMA CcidTakes ==
  ASSUME CcidInv, NEW c \in Callers, TakeAnswer(c) \/ Return(c) PROVE CcidInv'
<1> USE DEF CcidInv
<1>1. /\ callers[c].pc \in {"answered", "copied"}
      /\ UNCHANGED <<reader, replies, notes, learned, sent, plugged>>
  BY DEF TakeAnswer, Return
<1>2. PICK call \in CcidCalls :
         callers' = [callers EXCEPT ![c] = call] /\ call.pc \in {"idle", "copied"}
  <2>1. CASE Return(c)
    BY <2>1, IdleCall DEF Return, Ends
  <2>2. CASE TakeAnswer(c)
    <3>1. PICK old : /\ old = callers[c]
                     /\ old = Call(old.pc, old.kind, old.command, old.seq, old.mismatches,
                                   old.extensions, old.reply, old.identified)
      BY CallFields
    <3>2. PICK call : call = [old EXCEPT !.pc = "copied", !.reply = ccid.buffer]
      OBVIOUS
    <3>3. call = Call("copied", old.kind, old.command, old.seq, old.mismatches, old.extensions,
                      ccid.buffer, old.identified)
      BY <3>1, <3>2 DEF Call
    <3>4. call \in CcidCalls
      BY <3>1, <3>3, CallFields, CallMade, DeviceFields
    <3>5. callers' = [callers EXCEPT ![c] = call]
      BY <2>2, <3>1, <3>2 DEF TakeAnswer, CcidTypes
    <3> QED
      BY <3>3, <3>4, <3>5 DEF Call
  <2> QED
    BY <2>1, <2>2
<1>3. PICK atr \in Nat : ccid' = Device(ccid.open, ccid.sequence, ccid.buffer, ccid.known,
                                        ccid.present, atr, ccid.lock, ccid.opens, ccid.since)
  <2>1. CASE Return(c)
    BY <2>1, DeviceFields DEF Return
  <2>2. CASE TakeAnswer(c)
    <3>1. ccid.atr \in Nat /\ NoCard \in Nat /\ ccid.buffer.card \in Nat
      BY DeviceFields DEF NoCard, Bulks
    <3>2. PICK atr : atr = AtrAfter(callers[c])
      OBVIOUS
    <3>3. atr \in Nat
      BY <3>1, <3>2 DEF AtrAfter
    <3>4. ccid' = [ccid EXCEPT !.atr = atr]
      BY <2>2, <3>2 DEF TakeAnswer
    <3> QED
      BY <3>3, <3>4, DeviceFields DEF Device
  <2> QED
    BY <2>1, <2>2
<1>4. ccid' \in CcidDevices
  BY <1>3, DeviceFields DEF Device, CcidDevices
<1>5. /\ ccid'.since = ccid.since /\ ccid'.open = ccid.open /\ ccid'.sequence = ccid.sequence
      /\ ccid'.lock = ccid.lock /\ ccid'.known = ccid.known /\ ccid'.present = ccid.present
  BY <1>3 DEF Device
<1>6. /\ callers'[c] = call /\ callers' \in [Callers -> CcidCalls]
      /\ \A d \in Callers \ {c} : callers'[d] = callers[d]
  BY <1>2, CallerMoves
<1>7. \A d \in Callers : \/ callers'[d] = callers[d]
                         \/ callers'[d].pc \in {"idle", "copied"} /\ callers[d].pc \in {"answered", "copied"}
  BY <1>1, <1>2, <1>6
<1>8. LockInv'
  BY <1>1, <1>5, <1>7 DEF LockInv, Holding
<1>9. SequenceInv'
  <2>1. Unsent' <=> Unsent
    BY <1>7 DEF Unsent
  <2>2. SequenceCounts'
    BY <1>1, <1>5, <2>1 DEF SequenceInv, SequenceCounts
  <2>3. MessagesNumbered'
    BY <1>1, <1>5 DEF SequenceInv, MessagesNumbered
  <2>4. CallsNumbered'
    BY <1>1, <1>5, <1>7 DEF SequenceInv, CallsNumbered
  <2> QED
    BY <2>2, <2>3, <2>4 DEF SequenceInv
<1>10. AnswersItsCommand'
  BY <1>2, <1>5, OthersKeep
<1> QED
  BY <1>1, <1>4, <1>5, <1>6, <1>8, <1>9, <1>10 DEF CcidTypes, LearnedInv, EventsAreNews

\* external: what the reader sends carries the bSeq of its command.
LEMMA CcidAnswered ==
  ASSUME CcidInv, ReaderAnswers PROVE CcidInv'
<1> USE DEF CcidInv
<1>1. reader.inbox # <<>> /\ UNCHANGED <<ccid, callers, notes, learned, sent, plugged>>
  BY DEF ReaderAnswers
<1>2. PICK inbox \in Seq(CcidCommands) : inbox = reader.inbox
  BY DEF CcidTypes, CcidReaders
<1>3. PICK command \in CcidCommands : command = Head(inbox)
  BY <1>1, <1>2, TailMembers
<1>4. PICK more \in BOOLEAN :
         /\ replies' = Append(replies, [command |-> command.command, seq |-> command.seq,
                                        card |-> reader.card, more |-> more])
         /\ reader' = IF more THEN reader ELSE [reader EXCEPT !.inbox = Tail(@)]
  BY <1>2, <1>3 DEF ReaderAnswers
<1>5. PICK reply : reply = [command |-> command.command, seq |-> command.seq,
                            card |-> reader.card, more |-> more]
  OBVIOUS
<1>6. /\ reply \in CcidAnswers /\ reply.command = command.command /\ reply.seq = command.seq
      /\ reader.card \in Nat
  <2>1. reader.card \in Nat /\ command.command \in Nat /\ command.seq \in Nat
    BY DEF CcidTypes, CcidReaders, CcidCommands
  <2> QED
    BY <1>5, <2>1 DEF CcidAnswers
<1>7. \A i \in 1..Len(inbox) : Numbered(inbox[i], ccid.since, sent)
  BY <1>2 DEF SequenceInv, MessagesNumbered
<1>8. Numbered(command, ccid.since, sent) /\ Numbered(reply, ccid.since, sent)
  <2>1. Numbered(command, ccid.since, sent)
    BY <1>1, <1>2, <1>3, <1>7, TailMembers
  <2> QED
    BY <1>6, <2>1 DEF Numbered
<1>9. replies \in Seq(CcidAnswers) /\ replies' \in Seq(CcidAnswers)
  BY <1>4, <1>5, <1>6, AppendMembers DEF CcidTypes
<1>10. \A i \in 1..Len(replies') : Numbered(replies'[i], ccid.since, sent)
  <2>1. \A i \in 1..Len(replies) : Numbered(replies[i], ccid.since, sent)
    BY DEF SequenceInv, MessagesNumbered
  <2>2. \A i \in 1..Len(replies') : i \in 1..Len(replies) \/ i = Len(replies) + 1
    BY <1>4, <1>5, <1>6, <1>9, AppendMembers
  <2> QED
    BY <1>4, <1>5, <1>6, <1>8, <1>9, <2>1, <2>2, AppendMembers
<1>11. /\ reader' \in CcidReaders
       /\ \A i \in 1..Len(reader'.inbox) : Numbered(reader'.inbox[i], ccid.since, sent)
  <2>1. CASE more
    BY <1>2, <1>4, <1>7, <2>1 DEF CcidTypes
  <2>2. CASE ~more
    <3>1. reader' = [reader EXCEPT !.inbox = Tail(inbox)]
      BY <1>2, <1>4, <2>2
    <3>2. Tail(inbox) \in Seq(CcidCommands) /\
          \A i \in 1..Len(Tail(inbox)) : Numbered(Tail(inbox)[i], ccid.since, sent)
      BY <1>1, <1>2, <1>7, TailMembers
    <3>3. reader' \in CcidReaders /\ reader'.inbox = Tail(inbox)
      BY <3>1, <3>2 DEF CcidTypes, CcidReaders
    <3> QED
      BY <3>2, <3>3
  <2> QED
    BY <2>1, <2>2
<1>12. SequenceInv'
  BY <1>1, <1>10, <1>11 DEF SequenceInv, SequenceCounts, Unsent, MessagesNumbered, CallsNumbered
<1> QED
  BY <1>1, <1>9, <1>11, <1>12 DEF CcidTypes, LockInv, Holding, AnswersItsCommand, LearnedInv, EventsAreNews

LEMMA CcidCardMoves ==
  ASSUME CcidInv, CardMoves PROVE CcidInv'
<1> USE DEF CcidInv
<1>1. UNCHANGED <<ccid, callers, replies, learned, sent, plugged>>
  BY DEF CardMoves
<1>2. reader' \in CcidReaders /\ reader'.inbox = reader.inbox
  <2>1. CASE reader.card = NoCard
    <3>1. PICK card \in Nat : reader' = [reader EXCEPT !.card = card, !.cards = card]
      <4>1. reader.cards + 1 \in Nat
        BY DEF CcidTypes, CcidReaders
      <4> QED
        BY <2>1, <4>1 DEF CardMoves
    <3>2. PICK old \in CcidReaders : old = reader
      BY DEF CcidTypes
    <3>3. reader' = [inbox |-> old.inbox, card |-> card, cards |-> card]
      BY <3>1, <3>2 DEF CcidReaders
    <3> QED
      BY <3>2, <3>3 DEF CcidReaders
  <2>2. CASE reader.card # NoCard
    <3>1. reader' = [reader EXCEPT !.card = NoCard]
      BY <2>2 DEF CardMoves
    <3> QED
      BY <3>1 DEF CcidTypes, CcidReaders, NoCard
  <2> QED
    BY <2>1, <2>2
<1>3. notes' \in Seq(BOOLEAN)
  <2>1. notes' = Append(notes, reader'.card # NoCard) /\ (reader'.card # NoCard) \in BOOLEAN
    BY DEF CardMoves
  <2> QED
    BY <2>1, AppendMembers DEF CcidTypes
<1> QED
  BY <1>1, <1>2, <1>3 DEF CcidTypes, LockInv, Holding, SequenceInv, SequenceCounts, Unsent,
        MessagesNumbered, CallsNumbered, AnswersItsCommand, LearnedInv, EventsAreNews

LEMMA CcidStep == CcidInv /\ [CcidNext]_ccidVars => CcidInv'
<1> SUFFICES ASSUME CcidInv, [CcidNext]_ccidVars
             PROVE  CcidInv'
  OBVIOUS
<1>1. CASE UNCHANGED ccidVars
  BY <1>1 DEF ccidVars, CcidInv, CcidTypes, LockInv, Holding, SequenceInv, SequenceCounts, Unsent,
        MessagesNumbered, CallsNumbered, AnswersItsCommand, LearnedInv, EventsAreNews
<1>2. ASSUME NEW c \in Callers, CcidOpen(c) \/ CcidClose(c) \/ Lock(c) \/ Send(c)
      PROVE  CcidInv'
  BY <1>2, CcidOpens, CcidCloses, CcidLocks, CcidSends
<1>3. ASSUME NEW c \in Callers, Receive(c) \/ GiveUp(c) \/ TakeAnswer(c) \/ Return(c)
      PROVE  CcidInv'
  BY <1>3, CcidReceives, CcidGivesUp, CcidTakes
<1> QED
  BY <1>1, <1>2, <1>3, CcidNotified, CcidGone, CcidAnswered, CcidCardMoves DEF CcidNext

(* ccidExchange and handleCcidNotification: however late the reader        *)
(* answers, however often it is opened and wherever bSeq wraps, a caller   *)
(* takes the answer to its own command, or one of before the reader was    *)
(* opened or of a whole round of bSeq ago; and every event is news.        *)
THEOREM AnswersAndEvents == CcidSpec => []ReaderFollowed
<1>1. CcidInv => ReaderFollowed
  BY DEF CcidInv, ReaderFollowed
<1> QED
  BY <1>1, CcidInitially, CcidStep, PTL DEF CcidSpec

-----------------------------------------------------------------------------
(* UsbInput: what the application was told adds up to the reports.         *)

\* InOrder lists every member of the set, each once.
LEMMA ListedOnce ==
  ASSUME NEW S \in SUBSET Nat, IsFiniteSet(S)
  PROVE  /\ Cardinality(S) \in Nat
         /\ InOrder(S) \in Bijection(1 .. Cardinality(S), S)
<1> PICK n : n = Cardinality(S)
  OBVIOUS
<1> DEFINE UpTo(a) == {b \in S : b <= a}
           rank == [a \in S |-> Cardinality(UpTo(a))]
<1>1. n \in Nat
  BY FS_CardinalityType
<1>2. ASSUME NEW a \in S
      PROVE  IsFiniteSet(UpTo(a)) /\ rank[a] \in 1 .. n
  <2>1. UpTo(a) \in SUBSET S /\ UpTo(a) # {}
    OBVIOUS
  <2>2. IsFiniteSet(UpTo(a)) /\ Cardinality(UpTo(a)) <= n
    BY <2>1, FS_Subset
  <2>3. Cardinality(UpTo(a)) \in Nat /\ Cardinality(UpTo(a)) # 0
    BY <2>1, <2>2, FS_CardinalityType, FS_EmptySet
  <2> QED BY <1>1, <2>2, <2>3
<1>3. ASSUME NEW a \in S, NEW b \in S, a < b
      PROVE  rank[a] # rank[b]
  <2>1. UpTo(a) \in SUBSET UpTo(b) /\ b \in UpTo(b) /\ b \notin UpTo(a)
    <3>1. \A c \in S : c <= a => c <= b
      BY <1>3
    <3>2. b <= b /\ ~(b <= a)
      BY <1>3
    <3> QED BY <3>1, <3>2
  <2>2. Cardinality(UpTo(b)) # Cardinality(UpTo(a))
    BY <1>2, <2>1, FS_Subset
  <2> QED BY <2>2
<1>4. rank \in Injection(S, 1 .. n)
  <2>1. rank \in [S -> 1 .. n]
    BY <1>2
  <2>2. ASSUME NEW a \in S, NEW b \in S, rank[a] = rank[b]
        PROVE  a = b
    <3>1. ~(a < b) /\ ~(b < a)
      BY <1>3, <2>2
    <3>2. a \in Nat /\ b \in Nat
      OBVIOUS
    <3> QED BY <3>1, <3>2
  <2> QED BY <2>1, <2>2 DEF Injection, IsInjective
<1>5. rank \in Surjection(S, 1 .. n)
  <2>1. IsFiniteSet(1 .. n) /\ Cardinality(1 .. n) = n
    BY <1>1, FS_Interval
  <2> QED BY <1>4, <2>1, FS_Injection
<1>6. ASSUME NEW i \in 1 .. n
      PROVE  InOrder(S)[i] \in S /\ rank[InOrder(S)[i]] = i
  <2>1. \E a \in S : Cardinality(UpTo(a)) = i
    BY <1>5 DEF Surjection
  <2>2. InOrder(S)[i] = CHOOSE a \in S : Cardinality(UpTo(a)) = i
    BY <1>6 DEF InOrder
  <2> QED BY <2>1, <2>2
<1>7. InOrder(S) \in [1 .. n -> S]
  <2>1. InOrder(S) = [i \in 1 .. n |-> CHOOSE a \in S : Cardinality(UpTo(a)) = i]
    BY DEF InOrder
  <2>2. \A i \in 1 .. n : (CHOOSE a \in S : Cardinality(UpTo(a)) = i) \in S
    BY <1>6, <2>1
  <2> QED BY <2>1, <2>2
<1>8. \A i, j \in 1 .. n : InOrder(S)[i] = InOrder(S)[j] => i = j
  BY <1>6
<1>9. \A a \in S : \E i \in 1 .. n : InOrder(S)[i] = a
  <2> SUFFICES ASSUME NEW a \in S PROVE InOrder(S)[rank[a]] = a
    BY <1>2
  <2>1. rank[a] \in 1 .. n
    BY <1>2
  <2>2. InOrder(S)[rank[a]] \in S /\ rank[InOrder(S)[rank[a]]] = rank[a]
    BY <1>6, <2>1
  <2>3. \A b \in S : rank[b] = rank[a] => b = a
    BY <1>4 DEF Injection, IsInjective
  <2> QED BY <2>2, <2>3
<1> QED
  <2> HIDE DEF rank
  <2> QED BY <1>1, <1>7, <1>8, <1>9 DEF Bijection, Injection, IsInjective, Surjection

\* As many places of the list hold a member of T as T has members.
LEMMA ListedOf ==
  ASSUME NEW S \in SUBSET Nat, IsFiniteSet(S), NEW T \in SUBSET S
  PROVE  LET places == {i \in 1 .. Cardinality(S) : InOrder(S)[i] \in T}
         IN  IsFiniteSet(places) /\ Cardinality(places) = Cardinality(T)
<1> DEFINE places == {i \in 1 .. Cardinality(S) : InOrder(S)[i] \in T}
           listed == [i \in places |-> InOrder(S)[i]]
<1>1. /\ Cardinality(S) \in Nat
      /\ \A i, j \in 1 .. Cardinality(S) : InOrder(S)[i] = InOrder(S)[j] => i = j
      /\ \A a \in S : \E i \in 1 .. Cardinality(S) : InOrder(S)[i] = a
  BY ListedOnce DEF Bijection, Injection, IsInjective, Surjection
<1>2. IsFiniteSet(places)
  <2>1. IsFiniteSet(1 .. Cardinality(S))
    BY <1>1, FS_Interval
  <2> QED BY <2>1, FS_Subset
<1>3. listed \in Bijection(places, T)
  BY <1>1 DEF Bijection, Injection, IsInjective, Surjection
<1>4. Cardinality(T) = Cardinality(places)
  BY <1>2, <1>3, FS_Bijection DEF ExistsBijection
<1> QED BY <1>2, <1>4

-----------------------------------------------------------------------------
\* The places of a list that tell of a press, or of a release, of c.
Presses(events, c) == {i \in 1 .. Len(events) : c \in events[i].down}
Releases(events, c) == {i \in 1 .. Len(events) : c \in events[i].up}
Net(events, c) == Cardinality(Presses(events, c)) - Cardinality(Releases(events, c))

EventKinds == {"keyState", "key", "consumer", "system", "mouse", "gamepad", "midi"}

InputEvents ==
  [kind : EventKinds, down : SUBSET Codes, up : SUBSET Codes,
   changed : SUBSET (KeyCodes \cup Modifiers)]

\* The places of two lists put one after the other.
LEMMA JoinedPlaces ==
  ASSUME NEW m \in Nat, NEW n \in Nat, NEW T \in SUBSET (1 .. m + n),
         NEW U \in SUBSET (1 .. m), NEW V \in SUBSET (1 .. n),
         \A i \in 1 .. m : i \in U <=> i \in T,
         \A i \in 1 .. n : i \in V <=> m + i \in T
  PROVE  /\ Cardinality(T) = Cardinality(U) + Cardinality(V)
         /\ Cardinality(U) \in Nat /\ Cardinality(V) \in Nat
<1> DEFINE moved == {i \in T : i > m}
           shift == [i \in V |-> m + i]
<1>1. /\ IsFiniteSet(T) /\ IsFiniteSet(U) /\ IsFiniteSet(V) /\ IsFiniteSet(moved)
  <2>1. IsFiniteSet(1 .. m + n) /\ IsFiniteSet(1 .. m) /\ IsFiniteSet(1 .. n)
    BY FS_Interval
  <2>2. moved \in SUBSET (1 .. m + n)
    OBVIOUS
  <2> QED BY <2>1, <2>2, FS_Subset
<1>2. shift \in Bijection(V, moved)
  <2>1. shift \in [V -> moved]
    OBVIOUS
  <2>2. \A i, j \in V : shift[i] = shift[j] => i = j
    OBVIOUS
  <2>3. \A i \in moved : \E j \in V : shift[j] = i
    <3> SUFFICES ASSUME NEW i \in moved PROVE i - m \in V /\ shift[i - m] = i
      OBVIOUS
    <3>1. i - m \in 1 .. n /\ m + (i - m) = i
      OBVIOUS
    <3> QED BY <3>1
  <2> HIDE DEF shift, moved
  <2> QED BY <2>1, <2>2, <2>3 DEF Bijection, Injection, IsInjective, Surjection
<1>3. Cardinality(moved) = Cardinality(V)
  BY <1>1, <1>2, FS_Bijection DEF ExistsBijection
<1>4. U \cap moved = {} /\ U \cup moved = T
  <2>1. \A i \in 1 .. m + n : i \in 1 .. m \/ i > m
    OBVIOUS
  <2>2. \A i \in 1 .. m : i \in 1 .. m + n /\ ~(i > m)
    OBVIOUS
  <2> QED BY <2>1, <2>2
<1>5. /\ Cardinality(U) \in Nat /\ Cardinality(V) \in Nat
      /\ Cardinality(U \cap moved) = 0
  BY <1>1, <1>4, FS_CardinalityType, FS_EmptySet
<1>6. Cardinality(T) = Cardinality(U) + Cardinality(moved) - Cardinality(U \cap moved)
  BY <1>1, <1>4, FS_Union
<1> QED BY <1>3, <1>5, <1>6

\* Nothing is told by no event.
LEMMA NoneTold ==
  ASSUME NEW c
  PROVE  Presses(<<>>, c) = {} /\ Cardinality(Presses(<<>>, c)) = 0 /\ Net(<<>>, c) = 0
<1>1. Presses(<<>>, c) = {} /\ Releases(<<>>, c) = {}
  BY DEF Presses, Releases
<1> QED BY <1>1, FS_EmptySet DEF Net

\* What a list tells is what its parts tell.
LEMMA JoinedTold ==
  ASSUME NEW A \in Seq(InputEvents), NEW B \in Seq(InputEvents), NEW c
  PROVE  /\ A \o B \in Seq(InputEvents)
         /\ Net(A \o B, c) = Net(A, c) + Net(B, c)
         /\ Net(A, c) \in Int /\ Net(B, c) \in Int
         /\ Cardinality(Presses(A \o B, c)) =
              Cardinality(Presses(A, c)) + Cardinality(Presses(B, c))
         /\ Cardinality(Presses(A, c)) \in Nat /\ Cardinality(Presses(B, c)) \in Nat
<1>1. /\ A \o B \in Seq(InputEvents) /\ Len(A) \in Nat /\ Len(B) \in Nat
      /\ Len(A \o B) = Len(A) + Len(B)
      /\ \A i \in 1 .. Len(A) : (A \o B)[i] = A[i]
      /\ \A i \in 1 .. Len(B) : (A \o B)[Len(A) + i] = B[i]
  BY ConcatProperties
<1>2. /\ Presses(A, c) \in SUBSET (1 .. Len(A)) /\ Presses(B, c) \in SUBSET (1 .. Len(B))
      /\ Presses(A \o B, c) \in SUBSET (1 .. Len(A) + Len(B))
      /\ \A i \in 1 .. Len(A) : i \in Presses(A, c) <=> i \in Presses(A \o B, c)
      /\ \A i \in 1 .. Len(B) : i \in Presses(B, c) <=> Len(A) + i \in Presses(A \o B, c)
  BY <1>1 DEF Presses
<1>3. /\ Releases(A, c) \in SUBSET (1 .. Len(A)) /\ Releases(B, c) \in SUBSET (1 .. Len(B))
      /\ Releases(A \o B, c) \in SUBSET (1 .. Len(A) + Len(B))
      /\ \A i \in 1 .. Len(A) : i \in Releases(A, c) <=> i \in Releases(A \o B, c)
      /\ \A i \in 1 .. Len(B) : i \in Releases(B, c) <=> Len(A) + i \in Releases(A \o B, c)
  BY <1>1 DEF Releases
<1>4. /\ Cardinality(Presses(A \o B, c)) =
           Cardinality(Presses(A, c)) + Cardinality(Presses(B, c))
      /\ Cardinality(Presses(A, c)) \in Nat /\ Cardinality(Presses(B, c)) \in Nat
  BY <1>1, <1>2, JoinedPlaces
<1>5. /\ Cardinality(Releases(A \o B, c)) =
           Cardinality(Releases(A, c)) + Cardinality(Releases(B, c))
      /\ Cardinality(Releases(A, c)) \in Nat /\ Cardinality(Releases(B, c)) \in Nat
  BY <1>1, <1>3, JoinedPlaces
<1> QED BY <1>1, <1>4, <1>5 DEF Net

\* One event.
LEMMA OneTold ==
  ASSUME NEW e \in InputEvents, NEW c
  PROVE  /\ Cardinality(Presses(<<e>>, c)) = (IF c \in e.down THEN 1 ELSE 0)
         /\ Net(<<e>>, c) = (IF c \in e.down THEN 1 ELSE 0) - (IF c \in e.up THEN 1 ELSE 0)
<1>1. /\ Presses(<<e>>, c) = (IF c \in e.down THEN {1} ELSE {})
      /\ Releases(<<e>>, c) = (IF c \in e.up THEN {1} ELSE {})
  BY DEF Presses, Releases
<1>2. /\ Cardinality(Presses(<<e>>, c)) = (IF c \in e.down THEN 1 ELSE 0)
      /\ Cardinality(Releases(<<e>>, c)) = (IF c \in e.up THEN 1 ELSE 0)
  BY <1>1, FS_EmptySet, FS_Singleton
<1> QED BY <1>2 DEF Net

\* A list tells what its first event and the rest tell.
LEMMA HeadTold ==
  ASSUME NEW E \in Seq(InputEvents), E # <<>>, NEW c
  PROVE  /\ Head(E) \in InputEvents /\ Tail(E) \in Seq(InputEvents)
         /\ Net(Tail(E), c) \in Int
         /\ Net(E, c) = Net(Tail(E), c) + (IF c \in Head(E).down THEN 1 ELSE 0)
                                        - (IF c \in Head(E).up THEN 1 ELSE 0)
         /\ Cardinality(Presses(Tail(E), c)) \in Nat
         /\ Cardinality(Presses(E, c)) =
              Cardinality(Presses(Tail(E), c)) + (IF c \in Head(E).down THEN 1 ELSE 0)
<1>1. Head(E) \in InputEvents /\ Tail(E) \in Seq(InputEvents) /\ E = <<Head(E)>> \o Tail(E)
  BY HeadTailProperties
<1>2. <<Head(E)>> \in Seq(InputEvents)
  BY <1>1
<1>3. /\ Net(E, c) = Net(<<Head(E)>>, c) + Net(Tail(E), c)
      /\ Cardinality(Presses(E, c)) =
           Cardinality(Presses(<<Head(E)>>, c)) + Cardinality(Presses(Tail(E), c))
      /\ Net(Tail(E), c) \in Int /\ Cardinality(Presses(Tail(E), c)) \in Nat
  <2>1. PICK one : one = <<Head(E)>>
    OBVIOUS
  <2>2. PICK rest : rest = Tail(E)
    OBVIOUS
  <2>3. one \in Seq(InputEvents) /\ rest \in Seq(InputEvents)
    BY <1>1, <1>2, <2>1, <2>2
  <2>4. /\ Net(one \o rest, c) = Net(one, c) + Net(rest, c)
        /\ Cardinality(Presses(one \o rest, c)) =
             Cardinality(Presses(one, c)) + Cardinality(Presses(rest, c))
        /\ Net(rest, c) \in Int /\ Cardinality(Presses(rest, c)) \in Nat
    BY <2>3, JoinedTold
  <2>5. E = one \o rest
    BY <1>1, <2>1, <2>2
  <2> QED BY <2>1, <2>2, <2>4, <2>5
<1> QED BY <1>1, <1>3, OneTold

-----------------------------------------------------------------------------
\* How often a report holds key k.
SlotsWith(S, report, k) == {s \in S : report[s] = k}
SlotsOf(report, k) == SlotsWith(1 .. KeySlots, report, k)

\* SlotsOf of a report are numbers, of which there are finitely many.
LEMMA SlotsFinite ==
  ASSUME NEW S \in SUBSET (1 .. KeySlots)
  PROVE  S \in SUBSET Nat /\ IsFiniteSet(S)
<1>1. KeySlots \in Nat
  BY InputAssumption
<1>2. IsFiniteSet(1 .. KeySlots)
  BY <1>1, FS_Interval
<1>3. IsFiniteSet(S)
  BY <1>2, FS_Subset
<1> QED BY <1>1, <1>3

LEMMA BootTypes ==
  ASSUME NEW r \in BootReports
  PROVE  /\ r \in [1 .. KeySlots -> KeyCodes \cup {NoKey}] /\ KeysOf(r) \in SUBSET KeyCodes
         /\ \A s \in 1 .. KeySlots : r[s] \in KeysOf(r) \/ r[s] = NoKey
  BY DEF BootReports, KeysOf, KeyCodes

\* The order that were left or came between two reports make up the difference.
LEMMA SlotsChange ==
  ASSUME NEW old \in BootReports, NEW new \in BootReports, NEW k \in KeyCodes
  PROVE  /\ Cardinality(SlotsOf(old, k)) \in Nat /\ Cardinality(SlotsOf(new, k)) \in Nat
         /\ Cardinality(SlotsWith(Fresh(new, old), new, k))
              - Cardinality(SlotsWith(Fresh(old, new), old, k))
            = Cardinality(SlotsOf(new, k)) - Cardinality(SlotsOf(old, k))
<1> DEFINE came == SlotsWith(Fresh(new, old), new, k)
           went == SlotsWith(Fresh(old, new), old, k)
<1>1. k # NoKey
  BY InputAssumption DEF KeyCodes, NoKey, Rollover
<1>2. Cardinality(SlotsOf(old, k)) \in Nat /\ Cardinality(SlotsOf(new, k)) \in Nat
  <2>1. SlotsOf(old, k) \in SUBSET (1 .. KeySlots) /\ SlotsOf(new, k) \in SUBSET (1 .. KeySlots)
    BY DEF SlotsOf, SlotsWith
  <2> QED BY <2>1, SlotsFinite, FS_CardinalityType
<1>3. came = (IF k \in KeysOf(old) THEN {} ELSE SlotsOf(new, k))
  BY <1>1 DEF Fresh, SlotsOf, SlotsWith
<1>4. went = (IF k \in KeysOf(new) THEN {} ELSE SlotsOf(old, k))
  BY <1>1 DEF Fresh, SlotsOf, SlotsWith
<1>5. /\ k \notin KeysOf(old) => SlotsOf(old, k) = {}
      /\ k \notin KeysOf(new) => SlotsOf(new, k) = {}
  BY <1>1 DEF SlotsOf, SlotsWith, KeysOf
<1>6. Cardinality({}) = 0
  BY FS_EmptySet
<1>7. CASE k \notin KeysOf(old) \/ k \notin KeysOf(new)
  BY <1>2, <1>3, <1>4, <1>5, <1>6, <1>7
<1>8. CASE k \in KeysOf(old) /\ k \in KeysOf(new)
  <2>1. ASSUME NEW r \in BootReports, k \in KeysOf(r)
        PROVE  Cardinality(SlotsOf(r, k)) = IF k = Rollover THEN KeySlots ELSE 1
    <3>1. PICK a \in 1 .. KeySlots : r[a] = k
      BY <2>1 DEF KeysOf
    <3>2. CASE k = Rollover
      <4>1. \A s \in 1 .. KeySlots : r[s] = Rollover
        BY <3>1, <3>2, InputAssumption DEF BootReports, NoKey, Rollover
      <4>2. SlotsOf(r, k) = 1 .. KeySlots
        BY <3>2, <4>1 DEF SlotsOf, SlotsWith
      <4> QED BY <3>2, <4>2, FS_Interval, InputAssumption
    <3>3. CASE k # Rollover
      <4>1. \A s \in 1 .. KeySlots : r[s] = k => s = a
        BY <1>1, <3>1, <3>3 DEF BootReports
      <4>2. SlotsOf(r, k) = {a}
        BY <3>1, <4>1 DEF SlotsOf, SlotsWith
      <4> QED BY <3>3, <4>2, FS_Singleton
    <3> QED BY <3>2, <3>3
  <2>2. Cardinality(SlotsOf(old, k)) = Cardinality(SlotsOf(new, k))
    BY <1>8, <2>1
  <2> QED BY <1>2, <1>3, <1>4, <1>6, <1>8, <2>2
<1> QED BY <1>2, <1>7, <1>8

\* A list of events of single keys, as the handlers build it.
KeysTold(events, n) ==
  /\ events \in Seq(InputEvents) /\ Len(events) = n
  /\ \A i \in 1 .. n : /\ events[i].down \subseteq KeyCodes /\ events[i].up \subseteq KeyCodes
                       /\ events[i].changed = {}

\* The events of the numbers of S in order: each a press or a release of its key.
Singles(S, key, downs) ==
  [i \in 1 .. Cardinality(S) |->
     IF InOrder(S)[i] \in downs THEN Event("key", {key[InOrder(S)[i]]}, {}, {})
                                ELSE Event("key", {}, {key[InOrder(S)[i]]}, {})]

LEMMA SinglesTold ==
  ASSUME NEW S \in SUBSET Nat, IsFiniteSet(S), NEW key, \A s \in S : key[s] \in KeyCodes,
         NEW downs \in SUBSET S, NEW k
  PROVE  /\ KeysTold(Singles(S, key, downs), Cardinality(S))
         /\ Cardinality(Presses(Singles(S, key, downs), k)) =
              Cardinality(SlotsWith(downs, key, k))
         /\ Cardinality(Releases(Singles(S, key, downs), k)) =
              Cardinality(SlotsWith(S \ downs, key, k))
<1> PICK n : n = Cardinality(S)
  OBVIOUS
<1> PICK order : order = InOrder(S)
  OBVIOUS
<1> DEFINE E == Singles(S, key, downs)
           came == SlotsWith(downs, key, k)
           went == SlotsWith(S \ downs, key, k)
<1>1. n \in Nat /\ order \in [1 .. n -> S]
  BY ListedOnce DEF Bijection, Injection
<1>2. E = [i \in 1 .. n |-> IF order[i] \in downs THEN Event("key", {key[order[i]]}, {}, {})
                                                  ELSE Event("key", {}, {key[order[i]]}, {})]
  BY DEF Singles
<1> HIDE DEF E
<1>3. ASSUME NEW c \in KeyCodes
      PROVE  Event("key", {c}, {}, {}) \in InputEvents /\ Event("key", {}, {c}, {}) \in InputEvents
  <2>1. {c} \in SUBSET Codes /\ "key" \in EventKinds
    BY DEF Codes, EventKinds
  <2> QED BY <2>1 DEF Event, InputEvents
<1>4. E \in [1 .. n -> InputEvents]
  BY <1>1, <1>2, <1>3
<1>5. E \in Seq(InputEvents) /\ Len(E) = n
  BY <1>1, <1>4, LenProperties, SeqDef
<1>6. KeysTold(E, n)
  BY <1>1, <1>2, <1>5 DEF KeysTold, Event
<1>7. /\ Presses(E, k) = {i \in 1 .. n : order[i] \in came}
      /\ Releases(E, k) = {i \in 1 .. n : order[i] \in went}
  <2>1. \A i \in 1 .. n : /\ k \in E[i].down <=> order[i] \in came
                          /\ k \in E[i].up <=> order[i] \in went
    BY <1>1, <1>2 DEF Event, SlotsWith
  <2> HIDE DEF came, went
  <2> QED BY <1>5, <2>1 DEF Presses, Releases
<1>8. /\ Cardinality({i \in 1 .. n : order[i] \in came}) = Cardinality(came)
      /\ Cardinality({i \in 1 .. n : order[i] \in went}) = Cardinality(went)
  <2>1. came \in SUBSET S /\ went \in SUBSET S
    BY DEF SlotsWith
  <2> HIDE DEF came, went
  <2> QED BY <2>1, ListedOf
<1> QED BY <1>6, <1>7, <1>8 DEF E

\* The events of a boot report: a press of each fresh key, a release of each that went.
LEMMA BootTold ==
  ASSUME NEW old \in BootReports, NEW new \in BootReports, NEW k \in KeyCodes
  PROVE  /\ \E n \in Nat : KeysTold(KeyEvents(old, new), n)
         /\ Net(KeyEvents(old, new), k) =
              Cardinality(SlotsOf(new, k)) - Cardinality(SlotsOf(old, k))
         /\ Cardinality(Presses(KeyEvents(old, new), k)) =
              Cardinality(SlotsWith(Fresh(new, old), new, k))
<1> DEFINE came == Fresh(new, old)
           went == Fresh(old, new)
           A == Singles(came, new, came)
           B == Singles(went, old, {})
<1>1. /\ came \in SUBSET (1 .. KeySlots) /\ \A s \in came : new[s] \in KeyCodes
      /\ went \in SUBSET (1 .. KeySlots) /\ \A s \in went : old[s] \in KeyCodes
  BY BootTypes DEF Fresh
<1>2. /\ came \in SUBSET Nat /\ IsFiniteSet(came) /\ Cardinality(came) \in Nat
      /\ went \in SUBSET Nat /\ IsFiniteSet(went) /\ Cardinality(went) \in Nat
  BY <1>1, SlotsFinite, FS_CardinalityType
<1>3. /\ DOMAIN InOrder(came) = 1 .. Cardinality(came)
      /\ DOMAIN InOrder(went) = 1 .. Cardinality(went)
      /\ \A i \in 1 .. Cardinality(came) : InOrder(came)[i] \in came
  BY <1>2, ListedOnce DEF Bijection, Injection
<1>4. KeyEvents(old, new) = A \o B
  BY <1>3 DEF KeyEvents, Singles
<1>5. /\ KeysTold(A, Cardinality(came))
      /\ Cardinality(Presses(A, k)) = Cardinality(SlotsWith(came, new, k))
      /\ Cardinality(Releases(A, k)) = Cardinality(SlotsWith(came \ came, new, k))
  BY <1>1, <1>2, SinglesTold
<1>6. /\ KeysTold(B, Cardinality(went))
      /\ Cardinality(Presses(B, k)) = Cardinality(SlotsWith({}, old, k))
      /\ Cardinality(Releases(B, k)) = Cardinality(SlotsWith(went \ {}, old, k))
  BY <1>1, <1>2, SinglesTold
<1> HIDE DEF A, B, came, went
<1>7. /\ Cardinality(Releases(A, k)) = 0 /\ Cardinality(Presses(B, k)) = 0
      /\ Cardinality(Releases(B, k)) = Cardinality(SlotsWith(went, old, k))
  <2>1. SlotsWith(came \ came, new, k) = {} /\ SlotsWith({}, old, k) = {} /\ went \ {} = went
    BY DEF SlotsWith
  <2> QED BY <1>5, <1>6, <2>1, FS_EmptySet
<1>8. /\ A \in Seq(InputEvents) /\ B \in Seq(InputEvents)
      /\ A \o B \in Seq(InputEvents) /\ Net(A \o B, k) = Net(A, k) + Net(B, k)
      /\ Cardinality(Presses(A \o B, k)) = Cardinality(Presses(A, k)) + Cardinality(Presses(B, k))
      /\ Cardinality(Presses(A, k)) \in Nat
  BY <1>5, <1>6, JoinedTold DEF KeysTold
<1>9. KeysTold(A \o B, Cardinality(came) + Cardinality(went))
  <2>1. /\ Len(A) = Cardinality(came) /\ Len(B) = Cardinality(went)
        /\ Len(A \o B) = Len(A) + Len(B)
        /\ \A i \in 1 .. Len(A) : (A \o B)[i] = A[i]
        /\ \A i \in 1 .. Len(B) : (A \o B)[Len(A) + i] = B[i]
    <3>1. Len(A) = Cardinality(came) /\ Len(B) = Cardinality(went)
      BY <1>5, <1>6 DEF KeysTold
    <3>2. A \in Seq(InputEvents) /\ B \in Seq(InputEvents)
      BY <1>8
    <3>3. /\ Len(A \o B) = Len(A) + Len(B)
          /\ \A i \in 1 .. Len(A) + Len(B) :
                (A \o B)[i] = IF i <= Len(A) THEN A[i] ELSE B[i - Len(A)]
      BY <3>2, ConcatProperties
    <3>4. Len(A) \in Nat /\ Len(B) \in Nat
      BY <1>2, <3>1
    <3> HIDE <3>2
    <3> QED BY <3>1, <3>3, <3>4
  <2>2. ASSUME NEW i \in 1 .. Len(A) + Len(B)
        PROVE  \/ \E j \in 1 .. Len(A) : (A \o B)[i] = A[j]
               \/ \E j \in 1 .. Len(B) : (A \o B)[i] = B[j]
    <3>1. CASE i <= Len(A)
      <4>1. i \in 1 .. Len(A)
        BY <1>2, <2>1, <3>1
      <4> QED BY <2>1, <4>1
    <3>2. CASE ~(i <= Len(A))
      <4>1. i - Len(A) \in 1 .. Len(B) /\ Len(A) + (i - Len(A)) = i
        BY <1>2, <2>1, <3>2
      <4> QED BY <2>1, <4>1
    <3> QED BY <3>1, <3>2
  <2> QED BY <1>5, <1>6, <1>8, <2>1, <2>2 DEF KeysTold
<1>10. /\ Cardinality(SlotsOf(old, k)) \in Nat /\ Cardinality(SlotsOf(new, k)) \in Nat
       /\ Cardinality(SlotsWith(came, new, k)) - Cardinality(SlotsWith(went, old, k))
            = Cardinality(SlotsOf(new, k)) - Cardinality(SlotsOf(old, k))
  BY SlotsChange DEF came, went
<1>11. /\ Net(A, k) = Cardinality(SlotsWith(came, new, k))
       /\ Net(B, k) = 0 - Cardinality(SlotsWith(went, old, k))
  BY <1>5, <1>7, <1>8 DEF Net
<1>12. Cardinality(SlotsWith(came, new, k)) \in Nat
  BY <1>5, <1>8
<1>13. Cardinality(SlotsWith(went, old, k)) \in Nat
  <2>1. SlotsWith(went, old, k) \in SUBSET went
    BY DEF SlotsWith
  <2> QED BY <1>2, <2>1, FS_Subset, FS_CardinalityType
<1>14. Net(A \o B, k) = Cardinality(SlotsOf(new, k)) - Cardinality(SlotsOf(old, k))
  BY <1>8, <1>10, <1>11, <1>12, <1>13
<1>15. Cardinality(Presses(A \o B, k)) = Cardinality(SlotsWith(came, new, k))
  BY <1>5, <1>7, <1>8
<1>16. Cardinality(came) + Cardinality(went) \in Nat
  BY <1>2
<1> QED BY <1>4, <1>9, <1>14, <1>15, <1>16 DEF came

\* The events of a bitmap report.
LEMMA BitmapTold ==
  ASSUME NEW old \in SUBSET InputKeys, NEW new \in SUBSET InputKeys, NEW k \in KeyCodes
  PROVE  /\ \E n \in Nat : KeysTold(BitmapEvents(old, new), n)
         /\ Cardinality(new \cap {k}) \in Nat /\ Cardinality(old \cap {k}) \in Nat
         /\ Net(BitmapEvents(old, new), k) =
              Cardinality(new \cap {k}) - Cardinality(old \cap {k})
         /\ Cardinality(Presses(BitmapEvents(old, new), k)) = (IF k \in new \ old THEN 1 ELSE 0)
<1>0. PICK S : S = (new \ old) \cup (old \ new)
  OBVIOUS
<1>a. PICK key : key = [s \in S |-> s]
  OBVIOUS
<1>b. PICK D : D = new \ old
  OBVIOUS
<1> DEFINE E == Singles(S, key, D)
<1>1. S \in SUBSET InputKeys /\ S \in SUBSET Nat
  BY <1>0, InputAssumption
<1>2. IsFiniteSet(S) /\ Cardinality(S) \in Nat
  BY <1>1, InputAssumption, FS_Subset, FS_CardinalityType
<1>3. /\ DOMAIN InOrder(S) = 1 .. Cardinality(S)
      /\ \A i \in 1 .. Cardinality(S) : InOrder(S)[i] \in S
  BY <1>1, <1>2, ListedOnce DEF Bijection, Injection
<1>4. BitmapEvents(old, new) = E
  <2>1. \A i \in 1 .. Cardinality(S) :
          /\ key[InOrder(S)[i]] = InOrder(S)[i]
          /\ InOrder(S)[i] \in new <=> InOrder(S)[i] \in D
    BY <1>0, <1>a, <1>b, <1>3
  <2> QED BY <1>0, <1>b, <1>3, <2>1 DEF BitmapEvents, Singles
<1>5. \A s \in S : key[s] \in KeyCodes
  BY <1>a, <1>1 DEF KeyCodes
<1>6. /\ KeysTold(E, Cardinality(S))
      /\ Cardinality(Presses(E, k)) = Cardinality(SlotsWith(D, key, k))
      /\ Cardinality(Releases(E, k)) = Cardinality(SlotsWith(S \ D, key, k))
  <2>1. D \in SUBSET S
    BY <1>0, <1>b
  <2> QED BY <1>1, <1>2, <1>5, <2>1, SinglesTold
<1>7. /\ SlotsWith(D, key, k) = (IF k \in D THEN {k} ELSE {})
      /\ SlotsWith(S \ D, key, k) = (IF k \in old \ new THEN {k} ELSE {})
  BY <1>0, <1>a, <1>b DEF SlotsWith
<1>8. /\ Cardinality(Presses(E, k)) = (IF k \in D THEN 1 ELSE 0)
      /\ Cardinality(Releases(E, k)) = (IF k \in old \ new THEN 1 ELSE 0)
  <2> HIDE DEF E
  <2> QED BY <1>6, <1>7, FS_EmptySet, FS_Singleton
<1>9. ASSUME NEW T
      PROVE  Cardinality(T \cap {k}) = (IF k \in T THEN 1 ELSE 0)
  <2>1. T \cap {k} = (IF k \in T THEN {k} ELSE {})
    OBVIOUS
  <2> QED BY <2>1, FS_EmptySet, FS_Singleton
<1>10. Net(E, k) = Cardinality(new \cap {k}) - Cardinality(old \cap {k})
  BY <1>b, <1>8, <1>9 DEF Net
<1> QED BY <1>b, <1>2, <1>4, <1>6, <1>8, <1>9, <1>10

-----------------------------------------------------------------------------
(* What has been told and what is still to be told make up the endpoint.   *)

Endpoints ==
  [keys : BootReports, state : SUBSET (KeyCodes \cup Modifiers), bits : SUBSET InputKeys,
   consumer : InputUsages \cup {NoKey}, system : InputUsages \cup {NoKey},
   buttons : SUBSET Buttons, gamepad : {"none", "neutral", "active"}]

\* How often key, usage or button c is held down, as the reports say.
Held(e, c) ==
  IF c \in KeyCodes THEN Cardinality(SlotsOf(e.keys, c)) + Cardinality(e.bits \cap {c})
  ELSE IF c \in InputUsages THEN (IF e.consumer = c THEN 1 ELSE 0) + (IF e.system = c THEN 1 ELSE 0)
  ELSE IF c \in e.buttons THEN 1 ELSE 0

Reported == IF dispatch.events = <<>> THEN endpoint ELSE dispatch.after
Rest == IF dispatch.events = <<>> THEN <<>> ELSE Tail(dispatch.events)
OnlyKeys(events) ==
  \A i \in 1 .. Len(events) :
    events[i].down \subseteq KeyCodes /\ events[i].up \subseteq KeyCodes /\ events[i].changed = {}
Toggled(state, changed) == (state \ changed) \cup (changed \ state)
Odd(n) == n % 2 = 1

InputTypes ==
  /\ endpoint \in Endpoints /\ caps \in BOOLEAN /\ balance \in [Codes -> Int]
  /\ told \in [state : SUBSET (KeyCodes \cup Modifiers), caps : BOOLEAN]
  /\ dispatch = [events |-> dispatch.events, pending |-> dispatch.pending,
                 snapshot |-> dispatch.snapshot, after |-> dispatch.after]
  /\ dispatch.events \in Seq(InputEvents) /\ dispatch.after \in Endpoints

KeysAddUp == \A k \in KeyCodes : balance[k] + Net(Rest, k) = Held(Reported, k)
OthersCovered ==
  \A c \in InputUsages \cup Buttons : balance[c] + Net(Rest, c) >= Held(Reported, c)
LockAddsUp ==
  told.state = Reported.state /\ caps = (told.caps # Odd(Cardinality(Presses(Rest, CapsKey))))

InputInv == InputTypes /\ OnlyKeys(Rest) /\ KeysAddUp /\ OthersCovered /\ LockAddsUp

\* A list of events that takes the endpoint to "after".
Reports(events, after) ==
  /\ events \in Seq(InputEvents) /\ after \in Endpoints
  /\ events # <<>> => OnlyKeys(Tail(events))
  /\ \A k \in KeyCodes : Net(events, k) = Held(after, k) - Held(endpoint, k)
  /\ \A c \in InputUsages \cup Buttons : Net(events, c) >= Held(after, c) - Held(endpoint, c)
  /\ after.state =
       Toggled(endpoint.state, IF events = <<>> THEN {} ELSE Head(events).changed)

\* Counts of what is held are numbers.
LEMMA HeldType ==
  ASSUME NEW e \in Endpoints, NEW c \in Codes
  PROVE  Held(e, c) \in Nat
<1>1. CASE c \in KeyCodes
  <2>1. Cardinality(SlotsOf(e.keys, c)) \in Nat
    BY <1>1, SlotsChange DEF Endpoints
  <2>2. e.bits \in SUBSET InputKeys
    BY DEF Endpoints
  <2>3. Cardinality(e.bits \cap {c}) \in Nat
    BY <1>1, <2>2, BitmapTold
  <2> QED BY <1>1, <2>1, <2>3 DEF Held
<1>2. CASE c \notin KeyCodes
  BY <1>2 DEF Held
<1> QED BY <1>1, <1>2

LEMMA Parity ==
  ASSUME NEW n \in Nat
  PROVE  Odd(n) \in BOOLEAN /\ Odd(n + 1) = ~Odd(n) /\ Odd(0) = FALSE
  BY DEF Odd

\* What the first event of a list tells is taken from what is still to be told.
LEMMA EventTold ==
  ASSUME InputTypes, NEW E \in Seq(InputEvents), E # <<>>, TellEvent(Head(E))
  PROVE  /\ balance' \in [Codes -> Int]
         /\ \A c \in Codes : balance'[c] + Net(Tail(E), c) = balance[c] + Net(E, c)
         /\ told' = [state |-> Toggled(told.state, Head(E).changed),
                     caps |-> told.caps # (CapsKey \in Head(E).down)]
         /\ told' \in [state : SUBSET (KeyCodes \cup Modifiers), caps : BOOLEAN]
         /\ (told'.caps # Odd(Cardinality(Presses(Tail(E), CapsKey))))
              = (told.caps # Odd(Cardinality(Presses(E, CapsKey))))
<1> USE DEF InputTypes
<1>1. Head(E) \in InputEvents /\ Tail(E) \in Seq(InputEvents)
  BY HeadTold
<1>2. balance' \in [Codes -> Int]
  BY DEF TellEvent
<1>3. ASSUME NEW c \in Codes
      PROVE  balance'[c] + Net(Tail(E), c) = balance[c] + Net(E, c)
  <2>1. balance'[c] = balance[c] + (IF c \in Head(E).down THEN 1 ELSE 0)
                                 - (IF c \in Head(E).up THEN 1 ELSE 0)
    BY DEF TellEvent
  <2> QED BY <2>1, HeadTold
<1>4. told' = [state |-> Toggled(told.state, Head(E).changed),
               caps |-> told.caps # (CapsKey \in Head(E).down)]
  BY DEF TellEvent, Toggled
<1>5. told' \in [state : SUBSET (KeyCodes \cup Modifiers), caps : BOOLEAN]
  <2>1. Toggled(told.state, Head(E).changed) \in SUBSET (KeyCodes \cup Modifiers)
    BY <1>1 DEF Toggled, InputEvents
  <2> QED BY <1>4, <2>1
<1>6. (told'.caps # Odd(Cardinality(Presses(Tail(E), CapsKey))))
              = (told.caps # Odd(Cardinality(Presses(E, CapsKey))))
  <2>1. PICK n \in Nat : n = Cardinality(Presses(Tail(E), CapsKey))
    BY HeadTold
  <2>2. Cardinality(Presses(E, CapsKey)) = n + (IF CapsKey \in Head(E).down THEN 1 ELSE 0)
    BY <2>1, HeadTold
  <2>3. told'.caps = (told.caps # (CapsKey \in Head(E).down))
    BY <1>4
  <2>4. Odd(n) \in BOOLEAN /\ Odd(n + 1) = ~Odd(n) /\ told.caps \in BOOLEAN
    BY Parity
  <2>5. CASE CapsKey \in Head(E).down
    <3>1. Cardinality(Presses(E, CapsKey)) = n + 1
      BY <2>2, <2>5
    <3>2. told'.caps = ~told.caps
      BY <2>3, <2>4, <2>5
    <3> QED BY <2>1, <2>4, <3>1, <3>2
  <2>6. CASE CapsKey \notin Head(E).down
    <3>1. Cardinality(Presses(E, CapsKey)) = n
      BY <2>2, <2>6
    <3>2. told'.caps = told.caps
      BY <2>3, <2>4, <2>6
    <3> QED BY <2>1, <3>1, <3>2
  <2> QED BY <2>5, <2>6
<1> QED BY <1>2, <1>3, <1>4, <1>5, <1>6

\* A report whose events take the endpoint where it says keeps the sums.
LEMMA ReportKept ==
  ASSUME InputInv, NEW events, NEW after, Reports(events, after), HandleReport(events, after),
         caps' = (caps # Odd(Cardinality(Presses(events, CapsKey))))
  PROVE  InputInv'
<1> USE DEF InputInv, InputTypes
<1>1. /\ dispatch.events = <<>> /\ Rest = <<>> /\ Reported = endpoint
      /\ events \in Seq(InputEvents) /\ after \in Endpoints
  BY DEF HandleReport, Rest, Reported, Reports
<1>2. /\ \A c \in Codes : Net(<<>>, c) = 0 /\ Net(events, c) \in Int
      /\ Cardinality(Presses(<<>>, CapsKey)) = 0
      /\ Cardinality(Presses(events, CapsKey)) \in Nat
  <2>1. <<>> \in Seq(InputEvents)
    OBVIOUS
  <2>2. \A c : /\ Net(events, c) \in Int /\ Cardinality(Presses(events, c)) \in Nat
    BY <1>1, <2>1, JoinedTold
  <2> QED BY <2>2, NoneTold
<1>3. CapsKey \in Codes /\ KeyCodes \subseteq Codes /\ InputUsages \cup Buttons \subseteq Codes
  BY InputAssumption DEF Codes, KeyCodes
<1>4. told.state = endpoint.state /\ caps = told.caps
  BY <1>1, <1>2, Parity DEF LockAddsUp
<1>5. caps' \in BOOLEAN
  BY <1>2, Parity
<1>6. ASSUME /\ dispatch'.events = <<>> \/ dispatch'.events = events
             /\ Reported' = after /\ Rest' \in Seq(InputEvents) /\ OnlyKeys(Rest)' /\ InputTypes'
             /\ \A c \in Codes : balance'[c] + Net(Rest', c) = balance[c] + Net(events, c)
             /\ told'.state = after.state
             /\ (told'.caps # Odd(Cardinality(Presses(Rest', CapsKey))))
                  = (told.caps # Odd(Cardinality(Presses(events, CapsKey))))
      PROVE  InputInv'
  <2>1. KeysAddUp'
    <3> SUFFICES ASSUME NEW k \in KeyCodes PROVE balance'[k] + Net(Rest', k) = Held(after, k)
      BY <1>6 DEF KeysAddUp
    <3>1. balance[k] + Net(<<>>, k) = Held(endpoint, k)
      BY <1>1 DEF KeysAddUp
    <3>2. Net(events, k) = Held(after, k) - Held(endpoint, k)
      BY DEF Reports
    <3>3. Held(after, k) \in Nat /\ Held(endpoint, k) \in Nat /\ balance[k] \in Int
      BY <1>1, <1>3, HeldType
    <3>4. balance'[k] + Net(Rest', k) = balance[k] + Net(events, k)
      BY <1>3, <1>6
    <3> QED BY <1>2, <1>3, <3>1, <3>2, <3>3, <3>4
  <2>2. OthersCovered'
    <3> SUFFICES ASSUME NEW c \in InputUsages \cup Buttons
                 PROVE  balance'[c] + Net(Rest', c) >= Held(after, c)
      BY <1>6 DEF OthersCovered
    <3>1. balance[c] + Net(<<>>, c) >= Held(endpoint, c)
      BY <1>1 DEF OthersCovered
    <3>2. Net(events, c) >= Held(after, c) - Held(endpoint, c)
      BY DEF Reports
    <3>3. Held(after, c) \in Nat /\ Held(endpoint, c) \in Nat /\ balance[c] \in Int
      BY <1>1, <1>3, HeldType
    <3>4. balance'[c] + Net(Rest', c) = balance[c] + Net(events, c)
      BY <1>3, <1>6
    <3> QED BY <1>2, <1>3, <3>1, <3>2, <3>3, <3>4
  <2>3. LockAddsUp'
    <3>1. caps' = (told'.caps # Odd(Cardinality(Presses(Rest', CapsKey))))
      BY <1>4, <1>6
    <3>2. told'.state = Reported'.state
      BY <1>6
    <3> QED BY <3>1, <3>2 DEF LockAddsUp
  <2> QED BY <1>6, <2>1, <2>2, <2>3
<1>7. CASE events = <<>>
  <2>1. endpoint' = after /\ UNCHANGED <<dispatch, balance, told>>
    BY <1>7 DEF HandleReport
  <2>2. /\ Rest' = <<>> /\ Reported' = after /\ OnlyKeys(Rest)'
    BY <1>1, <2>1 DEF Rest, Reported, OnlyKeys
  <2>3. InputTypes'
    BY <1>1, <1>5, <2>1
  <2>4. after.state = endpoint.state
    <3>1. after.state = Toggled(endpoint.state, {})
      BY <1>7 DEF Reports
    <3> QED BY <3>1 DEF Toggled
  <2> QED BY <1>1, <1>4, <1>6, <1>7, <2>1, <2>2, <2>3, <2>4
<1>8. CASE events # <<>>
  <2>1. /\ dispatch' = [events |-> events, pending |-> Registered(Head(events).kind),
                        snapshot |-> Registered(Head(events).kind), after |-> after]
        /\ TellEvent(Head(events)) /\ UNCHANGED endpoint
    BY <1>8 DEF HandleReport, Quiet
  <2>2. /\ Rest' = Tail(events) /\ Reported' = after /\ OnlyKeys(Rest)'
    BY <1>8, <2>1 DEF Rest, Reported, Reports, OnlyKeys
  <2>3. /\ balance' \in [Codes -> Int]
        /\ \A c \in Codes : balance'[c] + Net(Tail(events), c) = balance[c] + Net(events, c)
        /\ told' = [state |-> Toggled(told.state, Head(events).changed),
                    caps |-> told.caps # (CapsKey \in Head(events).down)]
        /\ told' \in [state : SUBSET (KeyCodes \cup Modifiers), caps : BOOLEAN]
        /\ (told'.caps # Odd(Cardinality(Presses(Tail(events), CapsKey))))
              = (told.caps # Odd(Cardinality(Presses(events, CapsKey))))
    BY <1>1, <1>8, <2>1, EventTold
  <2>4. InputTypes'
    BY <1>1, <1>5, <2>1, <2>3
  <2>5. Tail(events) \in Seq(InputEvents)
    BY <1>1, <1>8, HeadTold
  <2>6. told'.state = after.state
    <3>1. after.state = Toggled(endpoint.state, Head(events).changed)
      BY <1>8 DEF Reports
    <3>2. told'.state = Toggled(told.state, Head(events).changed)
      BY <2>3
    <3> QED BY <1>4, <3>1, <3>2
  <2> QED BY <1>6, <2>1, <2>2, <2>3, <2>4, <2>5, <2>6
<1> QED BY <1>7, <1>8

\* The events of a keyboard: its state, when that changed, and then the keys.
LEMMA KeyboardTold ==
  ASSUME InputTypes, NEW state \in SUBSET (KeyCodes \cup Modifiers), NEW n \in Nat, NEW X,
         KeysTold(X, n)
  PROVE  LET events == StateEvents(state) \o X
         IN  /\ events \in Seq(InputEvents) /\ (events # <<>> => OnlyKeys(Tail(events)))
             /\ \A c : /\ Net(events, c) = Net(X, c)
                       /\ Cardinality(Presses(events, c)) = Cardinality(Presses(X, c))
             /\ state = Toggled(endpoint.state, IF events = <<>> THEN {} ELSE Head(events).changed)
<1> DEFINE changed == (state \ endpoint.state) \cup (endpoint.state \ state)
           event == Event("keyState", {}, {}, changed)
           events == StateEvents(state) \o X
<1>1. X \in Seq(InputEvents) /\ Len(X) = n /\ OnlyKeys(X)
  BY DEF KeysTold, OnlyKeys
<1>2. endpoint.state \in SUBSET (KeyCodes \cup Modifiers)
  BY DEF InputTypes, Endpoints
<1>3. Toggled(endpoint.state, changed) = state
  BY DEF Toggled
<1>4. CASE changed = {}
  <2>1. events = X
    BY <1>1, <1>4, ConcatEmptySeq DEF StateEvents
  <2>2. X # <<>> => OnlyKeys(Tail(X)) /\ Head(X).changed = {}
    <3> SUFFICES ASSUME X # <<>> PROVE OnlyKeys(Tail(X)) /\ Head(X).changed = {}
      OBVIOUS
    <3>1. /\ Len(X) \in Nat /\ Len(X) # 0 /\ Head(X) = X[1]
          /\ Len(Tail(X)) = Len(X) - 1 /\ \A i \in 1 .. Len(Tail(X)) : Tail(X)[i] = X[i + 1]
      BY <1>1, HeadTailProperties, EmptySeq
    <3>2. 1 \in 1 .. Len(X) /\ \A i \in 1 .. Len(Tail(X)) : i + 1 \in 1 .. Len(X)
      BY <3>1
    <3> QED BY <1>1, <3>1, <3>2 DEF OnlyKeys
  <2>3. state = Toggled(endpoint.state, {})
    BY <1>3, <1>4
  <2> HIDE DEF events
  <2>4. state = Toggled(endpoint.state, IF events = <<>> THEN {} ELSE Head(events).changed)
    BY <2>1, <2>2, <2>3
  <2> QED BY <1>1, <2>1, <2>2, <2>4 DEF events
<1>5. CASE changed # {}
  <2>1. event \in InputEvents
    <3>1. changed \in SUBSET (KeyCodes \cup Modifiers) /\ "keyState" \in EventKinds
      BY <1>2 DEF EventKinds
    <3> HIDE DEF changed
    <3> QED BY <3>1 DEF Event, InputEvents
  <2>2. events = <<event>> \o X /\ <<event>> \in Seq(InputEvents)
    BY <1>5, <2>1 DEF StateEvents
  <2> HIDE DEF event, events
  <2>3. events \in Seq(InputEvents) /\ events # <<>> /\ Head(events) = event /\ Tail(events) = X
    BY <1>1, <2>1, <2>2, ConcatProperties, HeadTailProperties
  <2>4. event.down = {} /\ event.up = {} /\ event.changed = changed
    BY DEF event, Event
  <2>5. \A c : /\ Net(events, c) = Net(X, c)
               /\ Cardinality(Presses(events, c)) = Cardinality(Presses(X, c))
    <3> TAKE c
    <3>1. /\ Net(Tail(events), c) \in Int
          /\ Net(events, c) = Net(Tail(events), c) + (IF c \in Head(events).down THEN 1 ELSE 0)
                                                   - (IF c \in Head(events).up THEN 1 ELSE 0)
          /\ Cardinality(Presses(Tail(events), c)) \in Nat
          /\ Cardinality(Presses(events, c)) =
               Cardinality(Presses(Tail(events), c)) + (IF c \in Head(events).down THEN 1 ELSE 0)
      BY <2>3, HeadTold
    <3>2. c \notin Head(events).down /\ c \notin Head(events).up
      BY <2>3, <2>4
    <3>3. /\ Net(events, c) = Net(Tail(events), c)
          /\ Cardinality(Presses(events, c)) = Cardinality(Presses(Tail(events), c))
      BY <3>1, <3>2
    <3> QED BY <2>3, <3>3
  <2>6. state = Toggled(endpoint.state, IF events = <<>> THEN {} ELSE Head(events).changed)
    BY <1>3, <2>3, <2>4
  <2> QED BY <1>1, <2>3, <2>5, <2>6 DEF events
<1> QED BY <1>4, <1>5

\* InputEvents of keys tell nothing of anything else.
LEMMA KeysOnlyTold ==
  ASSUME NEW X, NEW n \in Nat, KeysTold(X, n), NEW c, c \notin KeyCodes
  PROVE  Net(X, c) = 0
<1>1. Presses(X, c) = {} /\ Releases(X, c) = {}
  BY DEF KeysTold, Presses, Releases
<1> QED BY <1>1, FS_EmptySet DEF Net

\* The events each handler finds in a report take the endpoint to the report.
LEMMA BootReported ==
  ASSUME InputTypes, NEW new \in BootReports, NEW mods \in SUBSET Modifiers
  PROVE  LET state == KeysOf(new) \cup mods
             events == StateEvents(state) \o KeyEvents(endpoint.keys, new)
         IN  /\ Reports(events, [endpoint EXCEPT !.keys = new, !.state = state])
             /\ CapsAfter(endpoint.keys, new) = (caps # Odd(Cardinality(Presses(events, CapsKey))))
<1> PICK old : old = endpoint.keys
  OBVIOUS
<1> DEFINE state == KeysOf(new) \cup mods
           X == KeyEvents(old, new)
           events == StateEvents(state) \o X
           after == [endpoint EXCEPT !.keys = new, !.state = state]
<1>1. old \in BootReports /\ endpoint \in Endpoints
  BY DEF InputTypes, Endpoints
<1>2. state \in SUBSET (KeyCodes \cup Modifiers)
  BY BootTypes
<1>3. /\ after \in Endpoints /\ after.keys = new /\ after.state = state
      /\ after.bits = endpoint.bits /\ after.consumer = endpoint.consumer
      /\ after.system = endpoint.system /\ after.buttons = endpoint.buttons
  BY <1>1, <1>2 DEF Endpoints
<1>4. CapsKey \in KeyCodes
  BY InputAssumption DEF KeyCodes
<1>5. PICK n \in Nat : KeysTold(X, n)
  BY <1>1, <1>4, BootTold
<1> HIDE DEF state, X, after
<1>6. /\ events \in Seq(InputEvents) /\ (events # <<>> => OnlyKeys(Tail(events)))
      /\ \A c : /\ Net(events, c) = Net(X, c)
                /\ Cardinality(Presses(events, c)) = Cardinality(Presses(X, c))
      /\ state = Toggled(endpoint.state, IF events = <<>> THEN {} ELSE Head(events).changed)
  BY <1>2, <1>5, KeyboardTold
<1> HIDE DEF events
<1>7. ASSUME NEW k \in KeyCodes
      PROVE  Net(events, k) = Held(after, k) - Held(endpoint, k)
  <2>1. Net(events, k) = Cardinality(SlotsOf(new, k)) - Cardinality(SlotsOf(old, k))
    BY <1>1, <1>6, BootTold DEF X
  <2>2. Cardinality(SlotsOf(new, k)) \in Nat /\ Cardinality(SlotsOf(old, k)) \in Nat
    BY <1>1, SlotsChange
  <2>3. endpoint.bits \in SUBSET InputKeys
    BY <1>1 DEF Endpoints
  <2>4. Cardinality(endpoint.bits \cap {k}) \in Nat
    BY <2>3, BitmapTold
  <2>5. /\ Held(after, k) = Cardinality(SlotsOf(new, k)) + Cardinality(endpoint.bits \cap {k})
        /\ Held(endpoint, k) = Cardinality(SlotsOf(old, k)) + Cardinality(endpoint.bits \cap {k})
    BY <1>3 DEF Held
  <2> QED BY <2>1, <2>2, <2>4, <2>5
<1>8. ASSUME NEW c \in InputUsages \cup Buttons
      PROVE  Net(events, c) >= Held(after, c) - Held(endpoint, c)
  <2>1. c \notin KeyCodes /\ c \in Codes
    BY InputAssumption DEF Codes
  <2>2. Held(after, c) = Held(endpoint, c)
    BY <1>3, <2>1 DEF Held
  <2>3. Held(endpoint, c) \in Nat
    BY <1>1, <2>1, HeldType
  <2>4. Net(X, c) = 0
    BY <1>5, <2>1, KeysOnlyTold
  <2> QED BY <1>6, <2>2, <2>3, <2>4
<1>9. Reports(events, after)
  BY <1>3, <1>6, <1>7, <1>8 DEF Reports
<1>10. CapsAfter(old, new) = (caps # Odd(Cardinality(Presses(events, CapsKey))))
  <2>1. Cardinality(Presses(events, CapsKey)) =
          Cardinality(SlotsWith(Fresh(new, old), new, CapsKey))
    BY <1>1, <1>4, <1>6, BootTold DEF X
  <2>2. Toggles(old, new) = SlotsWith(Fresh(new, old), new, CapsKey)
    BY DEF Toggles, SlotsWith
  <2> QED BY <2>1, <2>2 DEF CapsAfter, Odd
<1> QED BY <1>9, <1>10 DEF events, after, X, state

LEMMA BitmapReported ==
  ASSUME InputTypes, NEW keys \in SUBSET InputKeys, NEW mods \in SUBSET Modifiers
  PROVE  LET state == keys \cup mods
             events == StateEvents(state) \o BitmapEvents(endpoint.bits, keys)
         IN  /\ Reports(events, [endpoint EXCEPT !.bits = keys, !.state = state])
             /\ (caps # (CapsKey \in keys \ endpoint.bits))
                  = (caps # Odd(Cardinality(Presses(events, CapsKey))))
<1> PICK old : old = endpoint.bits
  OBVIOUS
<1> DEFINE state == keys \cup mods
           X == BitmapEvents(old, keys)
           events == StateEvents(state) \o X
           after == [endpoint EXCEPT !.bits = keys, !.state = state]
<1>1. old \in SUBSET InputKeys /\ endpoint \in Endpoints
  BY DEF InputTypes, Endpoints
<1>2. state \in SUBSET (KeyCodes \cup Modifiers)
  BY DEF KeyCodes
<1>3. /\ after \in Endpoints /\ after.bits = keys /\ after.state = state
      /\ after.keys = endpoint.keys /\ after.consumer = endpoint.consumer
      /\ after.system = endpoint.system /\ after.buttons = endpoint.buttons
  BY <1>1, <1>2 DEF Endpoints
<1>4. CapsKey \in KeyCodes
  BY InputAssumption DEF KeyCodes
<1>5. PICK n \in Nat : KeysTold(X, n)
  BY <1>1, <1>4, BitmapTold
<1> HIDE DEF state, X, after
<1>6. /\ events \in Seq(InputEvents) /\ (events # <<>> => OnlyKeys(Tail(events)))
      /\ \A c : /\ Net(events, c) = Net(X, c)
                /\ Cardinality(Presses(events, c)) = Cardinality(Presses(X, c))
      /\ state = Toggled(endpoint.state, IF events = <<>> THEN {} ELSE Head(events).changed)
  BY <1>2, <1>5, KeyboardTold
<1> HIDE DEF events
<1>7. ASSUME NEW k \in KeyCodes
      PROVE  Net(events, k) = Held(after, k) - Held(endpoint, k)
  <2>1. /\ Net(X, k) = Cardinality(keys \cap {k}) - Cardinality(old \cap {k})
        /\ Cardinality(keys \cap {k}) \in Nat /\ Cardinality(old \cap {k}) \in Nat
    BY <1>1, BitmapTold DEF X
  <2>2. Cardinality(SlotsOf(endpoint.keys, k)) \in Nat
    BY <1>1, SlotsChange DEF Endpoints
  <2>3. /\ Held(after, k) = Cardinality(SlotsOf(endpoint.keys, k)) + Cardinality(keys \cap {k})
        /\ Held(endpoint, k) = Cardinality(SlotsOf(endpoint.keys, k)) + Cardinality(old \cap {k})
    BY <1>3 DEF Held
  <2> QED BY <1>6, <2>1, <2>2, <2>3
<1>8. ASSUME NEW c \in InputUsages \cup Buttons
      PROVE  Net(events, c) >= Held(after, c) - Held(endpoint, c)
  <2>1. c \notin KeyCodes /\ c \in Codes
    BY InputAssumption DEF Codes
  <2>2. Held(after, c) = Held(endpoint, c)
    BY <1>3, <2>1 DEF Held
  <2>3. Held(endpoint, c) \in Nat
    BY <1>1, <2>1, HeldType
  <2>4. Net(X, c) = 0
    BY <1>5, <2>1, KeysOnlyTold
  <2> QED BY <1>6, <2>2, <2>3, <2>4
<1>9. Reports(events, after)
  BY <1>3, <1>6, <1>7, <1>8 DEF Reports
<1>10. Odd(Cardinality(Presses(events, CapsKey))) = (CapsKey \in keys \ old)
  <2>1. Cardinality(Presses(events, CapsKey)) = (IF CapsKey \in keys \ old THEN 1 ELSE 0)
    <3>1. Cardinality(Presses(events, CapsKey)) = Cardinality(Presses(X, CapsKey))
      BY <1>6
    <3>2. Cardinality(Presses(X, CapsKey)) = (IF CapsKey \in keys \ old THEN 1 ELSE 0)
      BY <1>1, <1>4, BitmapTold DEF X
    <3> QED BY <3>1, <3>2
  <2>2. Odd(1) = TRUE /\ Odd(0) = FALSE
    BY DEF Odd
  <2>3. CASE CapsKey \in keys \ old
    BY <2>1, <2>2, <2>3
  <2>4. CASE CapsKey \notin keys \ old
    <3>1. Odd(Cardinality(Presses(events, CapsKey))) = FALSE
      BY <2>1, <2>2, <2>4
    <3>2. (CapsKey \in keys \ old) = FALSE
      BY <2>4
    <3> QED BY <3>1, <3>2
  <2> QED BY <2>3, <2>4
<1> QED BY <1>9, <1>10 DEF events, after, X, state

\* A report of another kind tells one event, which does not name the lock key.
LEMMA OtherReported ==
  ASSUME InputTypes, NEW e \in InputEvents, e.changed = {},
         \A k \in KeyCodes : k \notin e.down /\ k \notin e.up,
         NEW after \in Endpoints, after.keys = endpoint.keys, after.bits = endpoint.bits,
         after.state = endpoint.state,
         \A c \in InputUsages \cup Buttons :
           (IF c \in e.down THEN 1 ELSE 0) - (IF c \in e.up THEN 1 ELSE 0)
             >= Held(after, c) - Held(endpoint, c)
  PROVE  /\ Reports(<<e>>, after)
         /\ caps = (caps # Odd(Cardinality(Presses(<<e>>, CapsKey))))
<1>1. <<e>> \in Seq(InputEvents) /\ Head(<<e>>) = e /\ OnlyKeys(Tail(<<e>>)) /\ <<e>> # <<>>
  BY DEF OnlyKeys
<1>2. ASSUME NEW c \in Codes
      PROVE  Net(<<e>>, c) = (IF c \in e.down THEN 1 ELSE 0) - (IF c \in e.up THEN 1 ELSE 0)
  BY OneTold
<1>3. KeyCodes \subseteq Codes /\ InputUsages \cup Buttons \subseteq Codes /\ CapsKey \in KeyCodes
  BY InputAssumption DEF Codes, KeyCodes
<1>4. ASSUME NEW k \in KeyCodes
      PROVE  Net(<<e>>, k) = Held(after, k) - Held(endpoint, k)
  <2>1. Held(after, k) = Held(endpoint, k)
    BY DEF Held
  <2>2. Held(after, k) \in Nat
    BY <1>3, HeldType
  <2>3. Net(<<e>>, k) = 0
    BY <1>2, <1>3
  <2> QED BY <2>1, <2>2, <2>3
<1>5. \A c \in InputUsages \cup Buttons : Net(<<e>>, c) >= Held(after, c) - Held(endpoint, c)
  <2> TAKE c \in InputUsages \cup Buttons
  <2>1. Net(<<e>>, c) = (IF c \in e.down THEN 1 ELSE 0) - (IF c \in e.up THEN 1 ELSE 0)
    BY <1>2, <1>3
  <2> QED BY <2>1
<1>6. after.state = Toggled(endpoint.state, Head(<<e>>).changed)
  BY <1>1 DEF Toggled
<1>7. Cardinality(Presses(<<e>>, CapsKey)) = 0
  BY <1>3, OneTold
<1>8. caps = (caps # Odd(0))
  <2>1. Odd(0) = FALSE /\ caps \in BOOLEAN
    BY DEF Odd, InputTypes
  <2> QED BY <2>1
<1> QED BY <1>1, <1>4, <1>5, <1>6, <1>7, <1>8 DEF Reports

\* A report in which nothing is found.
LEMMA NothingReportedTold ==
  ASSUME InputTypes, NEW after \in Endpoints, after.keys = endpoint.keys,
         after.bits = endpoint.bits, after.state = endpoint.state,
         \A c \in InputUsages \cup Buttons : Held(after, c) = Held(endpoint, c)
  PROVE  /\ Reports(<<>>, after)
         /\ caps = (caps # Odd(Cardinality(Presses(<<>>, CapsKey))))
<1>1. <<>> \in Seq(InputEvents)
  OBVIOUS
<1>2. KeyCodes \subseteq Codes /\ InputUsages \cup Buttons \subseteq Codes
  BY DEF Codes
<1>3. \A k \in KeyCodes : Held(after, k) = Held(endpoint, k)
  BY DEF Held
<1>4. \A c \in KeyCodes \cup InputUsages \cup Buttons : Held(after, c) - Held(endpoint, c) = 0
  <2> TAKE c \in KeyCodes \cup InputUsages \cup Buttons
  <2>1. Held(after, c) \in Nat
    BY <1>2, HeldType
  <2>2. Held(after, c) = Held(endpoint, c)
    BY <1>3
  <2> QED BY <2>1, <2>2
<1>5. after.state = Toggled(endpoint.state, {})
  BY DEF Toggled
<1>6. caps = (caps # Odd(0))
  <2>1. Odd(0) = FALSE /\ caps \in BOOLEAN
    BY DEF Odd, InputTypes
  <2> QED BY <2>1
<1>7. \A c : Net(<<>>, c) = 0 /\ Cardinality(Presses(<<>>, c)) = 0
  BY NoneTold
<1> QED BY <1>1, <1>4, <1>5, <1>6, <1>7 DEF Reports

\* A usage that comes is told, and so is the last of those that went.
LEMMA UsageReported ==
  ASSUME InputTypes, NEW new \in InputUsages \cup {NoKey}, NEW kind \in {"consumer", "system"}
  PROVE  LET events == UsageEvents(kind, endpoint[kind], new)
             after == [endpoint EXCEPT ![kind] = KeptUsage(@, new)]
         IN  /\ Reports(events, after)
             /\ caps = (caps # Odd(Cardinality(Presses(events, CapsKey))))
<1> PICK old : old = endpoint[kind]
  OBVIOUS
<1> PICK after : after = [endpoint EXCEPT ![kind] = new]
  OBVIOUS
<1>1. endpoint \in Endpoints /\ old \in InputUsages \cup {NoKey}
  BY DEF InputTypes, Endpoints
<1>2. /\ after \in Endpoints /\ after.keys = endpoint.keys /\ after.bits = endpoint.bits
      /\ after.state = endpoint.state /\ after.buttons = endpoint.buttons
      /\ kind = "consumer" => /\ after.consumer = new /\ after.system = endpoint.system
                              /\ endpoint.consumer = old
      /\ kind = "system" => /\ after.system = new /\ after.consumer = endpoint.consumer
                            /\ endpoint.system = old
  BY <1>1 DEF Endpoints
<1>3. ASSUME NEW c \in InputUsages \cup Buttons
      PROVE  Held(after, c) - Held(endpoint, c) =
               (IF c = new /\ c \in InputUsages THEN 1 ELSE 0)
                 - (IF c = old /\ c \in InputUsages THEN 1 ELSE 0)
  <2>1. c \notin KeyCodes /\ c \notin InputUsages \cap Buttons
    BY InputAssumption
  <2>2. CASE kind = "consumer"
    BY <1>2, <2>1, <2>2 DEF Held
  <2>3. CASE kind = "system"
    BY <1>2, <2>1, <2>3 DEF Held
  <2> QED BY <2>2, <2>3
<1>4. \A u \in InputUsages : u \in Codes /\ u \notin KeyCodes /\ u # NoKey
  BY InputAssumption DEF Codes
<1>5. \A u \in InputUsages : /\ Event(kind, {u}, {}, {}) \in InputEvents
                             /\ Event(kind, {}, {u}, {}) \in InputEvents
  BY <1>4 DEF Event, InputEvents, EventKinds
<1>6. CASE new = old
  <2>1. UsageEvents(kind, old, new) = <<>>
    BY <1>6 DEF UsageEvents
  <2>2. after = endpoint
    BY <1>1, <1>6 DEF Endpoints
  <2> QED BY <1>1, <2>1, <2>2, NothingReportedTold DEF KeptUsage
<1>7. CASE new # old /\ new # NoKey
  <2>1. UsageEvents(kind, old, new) = <<Event(kind, {new}, {}, {})>> /\ new \in InputUsages
    BY <1>7 DEF UsageEvents
  <2>2. \A c \in InputUsages \cup Buttons :
           (IF c \in {new} THEN 1 ELSE 0) - (IF c \in {} THEN 1 ELSE 0)
             >= Held(after, c) - Held(endpoint, c)
    <3> TAKE c \in InputUsages \cup Buttons
    <3>1. Held(after, c) - Held(endpoint, c) =
            (IF c = new /\ c \in InputUsages THEN 1 ELSE 0)
              - (IF c = old /\ c \in InputUsages THEN 1 ELSE 0)
      BY <1>3
    <3>2. c \in {new} <=> c = new /\ c \in InputUsages
      BY <2>1
    <3> QED BY <3>1, <3>2
  <2> QED BY <1>2, <1>4, <1>5, <2>1, <2>2, OtherReported DEF Event, KeptUsage
<1>8. CASE new # old /\ new = NoKey
  <2>1. UsageEvents(kind, old, new) = <<Event(kind, {}, {old}, {})>> /\ old \in InputUsages
    BY <1>1, <1>8 DEF UsageEvents
  <2>2. \A c \in InputUsages \cup Buttons :
           (IF c \in {} THEN 1 ELSE 0) - (IF c \in {old} THEN 1 ELSE 0)
             >= Held(after, c) - Held(endpoint, c)
    <3> TAKE c \in InputUsages \cup Buttons
    <3>1. Held(after, c) - Held(endpoint, c) =
            (IF c = new /\ c \in InputUsages THEN 1 ELSE 0)
              - (IF c = old /\ c \in InputUsages THEN 1 ELSE 0)
      BY <1>3
    <3>2. (c \in {old} <=> c = old /\ c \in InputUsages) /\ ~(c = new /\ c \in InputUsages)
      BY <1>4, <1>8, <2>1
    <3> QED BY <3>1, <3>2
  <2> QED BY <1>2, <1>4, <1>5, <2>1, <2>2, OtherReported DEF Event, KeptUsage
<1> QED BY <1>6, <1>7, <1>8

LEMMA MouseReported ==
  ASSUME InputTypes, NEW new \in SUBSET Buttons, NEW moved \in BOOLEAN
  PROVE  LET events == MouseEvents(endpoint.buttons, new, moved)
         IN  /\ Reports(events, [endpoint EXCEPT !.buttons = new])
             /\ caps = (caps # Odd(Cardinality(Presses(events, CapsKey))))
<1> PICK old : old = endpoint.buttons
  OBVIOUS
<1> PICK after : after = [endpoint EXCEPT !.buttons = new]
  OBVIOUS
<1> PICK e : e = Event("mouse", new \ old, old \ new, {})
  OBVIOUS
<1>1. endpoint \in Endpoints /\ old \in SUBSET Buttons
  BY DEF InputTypes, Endpoints
<1>2. /\ after \in Endpoints /\ after.keys = endpoint.keys /\ after.bits = endpoint.bits
      /\ after.state = endpoint.state /\ after.buttons = new
      /\ after.consumer = endpoint.consumer /\ after.system = endpoint.system
  BY <1>1 DEF Endpoints
<1>3. /\ e \in InputEvents /\ e.changed = {} /\ e.down = new \ old /\ e.up = old \ new
      /\ \A k \in KeyCodes : k \notin e.down /\ k \notin e.up
  <2>1. new \ old \in SUBSET Codes /\ old \ new \in SUBSET Codes /\ "mouse" \in EventKinds
    BY <1>1 DEF Codes, EventKinds
  <2>2. e \in InputEvents
    BY <2>1 DEF Event, InputEvents
  <2>3. e.changed = {} /\ e.down = new \ old /\ e.up = old \ new
    BY DEF Event
  <2> QED BY <1>1, <2>2, <2>3, InputAssumption
<1>4. ASSUME NEW c \in InputUsages \cup Buttons
      PROVE  Held(after, c) - Held(endpoint, c) =
               (IF c \in new \ old THEN 1 ELSE 0) - (IF c \in old \ new THEN 1 ELSE 0)
  <2>1. c \notin KeyCodes /\ c \in Codes
    BY InputAssumption DEF Codes
  <2>2. CASE c \in InputUsages
    <3>1. c \notin new /\ c \notin old
      BY <1>1, <2>2, InputAssumption
    <3>2. Held(after, c) = Held(endpoint, c)
      BY <1>2, <2>1, <2>2 DEF Held
    <3>3. Held(endpoint, c) \in Nat
      BY <1>1, <2>1, HeldType
    <3> QED BY <3>1, <3>2, <3>3
  <2>3. CASE c \notin InputUsages
    BY <1>2, <2>1, <2>3 DEF Held
  <2> QED BY <2>2, <2>3
<1>5. CASE new = old /\ ~moved
  <2>1. MouseEvents(old, new, moved) = <<>>
    BY <1>5 DEF MouseEvents
  <2>2. after = endpoint
    BY <1>1, <1>5 DEF Endpoints
  <2> QED BY <1>1, <2>1, <2>2, NothingReportedTold
<1>6. CASE ~(new = old /\ ~moved)
  <2>1. MouseEvents(old, new, moved) = <<e>>
    BY <1>6 DEF MouseEvents
  <2>2. \A c \in InputUsages \cup Buttons :
           (IF c \in e.down THEN 1 ELSE 0) - (IF c \in e.up THEN 1 ELSE 0)
             >= Held(after, c) - Held(endpoint, c)
    <3> TAKE c \in InputUsages \cup Buttons
    <3>1. Held(after, c) - Held(endpoint, c) =
            (IF c \in new \ old THEN 1 ELSE 0) - (IF c \in old \ new THEN 1 ELSE 0)
      BY <1>4
    <3>2. (c \in e.down <=> c \in new \ old) /\ (c \in e.up <=> c \in old \ new)
      BY <1>3
    <3>3. Held(after, c) - Held(endpoint, c) =
            (IF c \in e.down THEN 1 ELSE 0) - (IF c \in e.up THEN 1 ELSE 0)
      BY <3>1, <3>2
    <3>4. \A a, b \in {0, 1} : a - b >= a - b
      OBVIOUS
    <3> QED BY <3>3, <3>4
  <2>3. /\ Reports(<<e>>, after)
        /\ caps = (caps # Odd(Cardinality(Presses(<<e>>, CapsKey))))
    BY <1>2, <1>3, <2>2, OtherReported
  <2> QED BY <2>1, <2>3
<1> QED BY <1>5, <1>6

LEMMA GamepadReported ==
  ASSUME InputTypes, NEW new \in {"neutral", "active"}
  PROVE  LET events == GamepadEvents(endpoint.gamepad, new)
         IN  /\ Reports(events, IF events = <<>> THEN endpoint
                                ELSE [endpoint EXCEPT !.gamepad = new])
             /\ caps = (caps # Odd(Cardinality(Presses(events, CapsKey))))
<1> PICK old : old = endpoint.gamepad
  OBVIOUS
<1> PICK after : after = [endpoint EXCEPT !.gamepad = new]
  OBVIOUS
<1> PICK e : e = Event("gamepad", {}, {}, {})
  OBVIOUS
<1>1. endpoint \in Endpoints
  BY DEF InputTypes
<1>2. /\ after \in Endpoints /\ after.keys = endpoint.keys /\ after.bits = endpoint.bits
      /\ after.state = endpoint.state /\ after.buttons = endpoint.buttons
      /\ after.consumer = endpoint.consumer /\ after.system = endpoint.system
  BY <1>1 DEF Endpoints
<1>3. e \in InputEvents /\ e.changed = {} /\ e.down = {} /\ e.up = {}
  BY DEF Event, InputEvents, EventKinds
<1>4. ASSUME NEW c \in InputUsages \cup Buttons
      PROVE  0 >= Held(after, c) - Held(endpoint, c)
  <2>1. Held(after, c) = Held(endpoint, c)
    BY <1>2, InputAssumption DEF Held
  <2>2. Held(endpoint, c) \in Nat
    BY <1>1, HeldType DEF Codes
  <2> QED BY <2>1, <2>2
<1>5. CASE GamepadEvents(old, new) = <<>>
  BY <1>1, <1>5, NothingReportedTold
<1>6. CASE GamepadEvents(old, new) # <<>>
  <2>1. GamepadEvents(old, new) = <<e>>
    BY <1>6 DEF GamepadEvents
  <2>2. /\ Reports(<<e>>, after)
        /\ caps = (caps # Odd(Cardinality(Presses(<<e>>, CapsKey))))
    <3>1. \A c : (IF c \in e.down THEN 1 ELSE 0) - (IF c \in e.up THEN 1 ELSE 0) = 0
      BY <1>3
    <3>2. \A k \in KeyCodes : k \notin e.down /\ k \notin e.up
      BY <1>3
    <3>3. \A c \in InputUsages \cup Buttons :
            (IF c \in e.down THEN 1 ELSE 0) - (IF c \in e.up THEN 1 ELSE 0)
              >= Held(after, c) - Held(endpoint, c)
      BY <1>4, <3>1
    <3> QED BY <1>2, <1>3, <3>2, <3>3, OtherReported
  <2> QED BY <2>1, <2>2, <1>6
<1> QED BY <1>5, <1>6

LEMMA MidiReported ==
  ASSUME InputTypes, NEW messages \in 1 .. 2
  PROVE  LET events == [i \in 1 .. messages |-> Event("midi", {}, {}, {})]
         IN  /\ Reports(events, endpoint)
             /\ caps = (caps # Odd(Cardinality(Presses(events, CapsKey))))
<1> PICK e : e = Event("midi", {}, {}, {})
  OBVIOUS
<1> PICK events : events = [i \in 1 .. messages |-> e]
  OBVIOUS
<1>1. endpoint \in Endpoints /\ caps \in BOOLEAN
  BY DEF InputTypes
<1>2. e \in InputEvents /\ e.changed = {} /\ e.down = {} /\ e.up = {}
  BY DEF Event, InputEvents, EventKinds
<1>3. events = <<e>> \/ events = <<e, e>>
  OBVIOUS
<1>4. /\ events \in Seq(InputEvents) /\ events # <<>> /\ Head(events) = e
      /\ Tail(events) = <<>> \/ Tail(events) = <<e>>
  <2>1. CASE events = <<e>>
    <3>1. <<e>> \in Seq(InputEvents) /\ <<e>> # <<>> /\ Head(<<e>>) = e /\ Tail(<<e>>) = <<>>
      BY <1>2
    <3> QED BY <2>1, <3>1
  <2>2. CASE events = <<e, e>>
    <3>1. <<e, e>> \in Seq(InputEvents) /\ <<e, e>> # <<>>
      BY <1>2
    <3>2. Head(<<e, e>>) = e /\ Tail(<<e, e>>) = <<e>>
      BY <1>2
    <3> QED BY <2>2, <3>1, <3>2
  <2> QED BY <1>3, <2>1, <2>2
<1>5. OnlyKeys(Tail(events))
  BY <1>2, <1>4 DEF OnlyKeys
<1>6. ASSUME NEW c
      PROVE  Net(events, c) = 0 /\ Cardinality(Presses(events, c)) = 0
  <2>1. Presses(events, c) = {} /\ Releases(events, c) = {}
    BY <1>2, <1>3 DEF Presses, Releases
  <2>2. Cardinality(Presses(events, c)) = 0 /\ Cardinality(Releases(events, c)) = 0
    BY <2>1, FS_EmptySet
  <2> QED BY <2>2 DEF Net
<1>7. \A c \in KeyCodes \cup InputUsages \cup Buttons : Held(endpoint, c) - Held(endpoint, c) = 0
  BY <1>1, HeldType DEF Codes
<1>8. endpoint.state = Toggled(endpoint.state, Head(events).changed)
  BY <1>2, <1>4 DEF Toggled
<1>9. caps = (caps # Odd(0))
  <2>1. Odd(0) = FALSE
    BY DEF Odd
  <2> QED BY <1>1, <2>1
<1>10. Reports(events, endpoint)
  BY <1>1, <1>4, <1>5, <1>6, <1>7, <1>8 DEF Reports
<1> QED BY <1>6, <1>9, <1>10

-----------------------------------------------------------------------------
\* Before the first report nothing is held down.
LEMMA NothingHeld ==
  ASSUME NEW c \in Codes
  PROVE  Held(NothingReported, c) = 0
<1>1. CASE c \in KeyCodes
  <2>1. SlotsOf(NothingReported.keys, c) = {} /\ NothingReported.bits \cap {c} = {}
    BY <1>1, InputAssumption DEF NothingReported, SlotsOf, SlotsWith, KeyCodes, NoKey, Rollover
  <2> QED BY <1>1, <2>1, FS_EmptySet DEF Held
<1>2. CASE c \notin KeyCodes
  BY <1>2, InputAssumption DEF NothingReported, Held
<1> QED BY <1>1, <1>2

LEMMA NoReport == NothingReported \in Endpoints /\ NothingReported.state = {}
<1>1. [s \in 1 .. KeySlots |-> NoKey] \in BootReports
  BY InputAssumption DEF BootReports, NoKey
<1> QED BY <1>1 DEF NothingReported, Endpoints

LEMMA InputStarts == InputInit => InputInv
<1> SUFFICES ASSUME InputInit PROVE InputInv
  OBVIOUS
<1>1. NothingReported \in Endpoints /\ NothingReported.state = {}
  BY NoReport
<1>2. \A c \in Codes : Held(NothingReported, c) = 0
  BY NothingHeld
<1>3. /\ endpoint = NothingReported /\ dispatch = Quiet /\ caps = FALSE
      /\ balance = [c \in Codes |-> 0] /\ told = [state |-> {}, caps |-> FALSE]
  BY DEF InputInit
<1>4. InputTypes
  <2>1. balance \in [Codes -> Int]
    BY <1>3
  <2>2. told \in [state : SUBSET (KeyCodes \cup Modifiers), caps : BOOLEAN]
    BY <1>3
  <2>3. /\ dispatch = [events |-> dispatch.events, pending |-> dispatch.pending,
                        snapshot |-> dispatch.snapshot, after |-> dispatch.after]
        /\ dispatch.events \in Seq(InputEvents) /\ dispatch.after \in Endpoints
    BY <1>1, <1>3 DEF Quiet
  <2> QED BY <1>1, <1>3, <2>1, <2>2, <2>3 DEF InputTypes
<1>5. Rest = <<>> /\ Reported = NothingReported /\ OnlyKeys(Rest)
  BY <1>3 DEF Rest, Reported, Quiet, OnlyKeys
<1>6. KeyCodes \cup InputUsages \cup Buttons \subseteq Codes
  BY DEF Codes
<1>7. KeysAddUp /\ OthersCovered
  BY <1>2, <1>3, <1>5, <1>6, NoneTold DEF KeysAddUp, OthersCovered
<1>8. LockAddsUp
  <2>1. Cardinality(Presses(Rest, CapsKey)) = 0 /\ Odd(0) = FALSE
    BY <1>5, NoneTold DEF Odd
  <2> QED BY <1>1, <1>3, <1>5, <2>1 DEF LockAddsUp
<1> QED BY <1>4, <1>5, <1>7, <1>8 DEF InputInv

\* The next event is told, or the report has been and the endpoint keeps it.
LEMMA NextEventKept ==
  ASSUME InputInv, NextInputEvent
  PROVE  InputInv'
<1> USE DEF InputInv, InputTypes
<1> PICK E : E = Tail(dispatch.events)
  OBVIOUS
<1>1. /\ dispatch.events # <<>> /\ dispatch.events \in Seq(InputEvents)
      /\ E \in Seq(InputEvents) /\ Rest = E /\ Reported = dispatch.after
      /\ UNCHANGED caps
  BY HeadTold DEF NextInputEvent, Rest, Reported
<1>2. CASE E = <<>>
  <2>1. endpoint' = dispatch.after /\ dispatch' = Quiet /\ UNCHANGED <<balance, told>>
    BY <1>2 DEF NextInputEvent
  <2>2. Rest' = Rest /\ Reported' = Reported
    BY <1>1, <1>2, <2>1 DEF Rest, Reported, Quiet
  <2>3. NothingReported \in Endpoints
    BY NoReport
  <2>4. InputTypes'
    BY <1>1, <2>1, <2>3 DEF Quiet
  <2>5. OnlyKeys(Rest)' /\ KeysAddUp' /\ OthersCovered' /\ LockAddsUp'
    BY <1>1, <2>1, <2>2 DEF OnlyKeys, KeysAddUp, OthersCovered, LockAddsUp
  <2> QED BY <2>4, <2>5
<1>3. CASE E # <<>>
  <2>1. /\ dispatch' = [dispatch EXCEPT !.events = E, !.pending = SnapshotFor(Head(E))]
        /\ TellEvent(Head(E)) /\ UNCHANGED endpoint
    BY <1>3 DEF NextInputEvent
  <2>2. /\ dispatch' = [events |-> E, pending |-> SnapshotFor(Head(E)),
                        snapshot |-> dispatch.snapshot, after |-> dispatch.after]
    <3>1. dispatch = [events |-> dispatch.events, pending |-> dispatch.pending,
                      snapshot |-> dispatch.snapshot, after |-> dispatch.after]
      OBVIOUS
    <3> QED BY <2>1, <3>1
  <2>3. Rest' = Tail(E) /\ Reported' = Reported
    BY <1>1, <1>3, <2>2 DEF Rest, Reported
  <2>4. /\ balance' \in [Codes -> Int]
        /\ \A c \in Codes : balance'[c] + Net(Tail(E), c) = balance[c] + Net(E, c)
        /\ told' = [state |-> Toggled(told.state, Head(E).changed),
                    caps |-> told.caps # (CapsKey \in Head(E).down)]
        /\ told' \in [state : SUBSET (KeyCodes \cup Modifiers), caps : BOOLEAN]
        /\ (told'.caps # Odd(Cardinality(Presses(Tail(E), CapsKey))))
              = (told.caps # Odd(Cardinality(Presses(E, CapsKey))))
    BY <1>1, <1>3, <2>1, EventTold
  <2>5. InputTypes'
    BY <1>1, <2>1, <2>2, <2>4
  <2>6. /\ Len(E) \in Nat /\ Len(E) # 0 /\ Head(E) = E[1]
        /\ Len(Tail(E)) = Len(E) - 1 /\ \A i \in 1 .. Len(Tail(E)) : Tail(E)[i] = E[i + 1]
    BY <1>1, <1>3, HeadTailProperties, EmptySeq
  <2>7. OnlyKeys(Tail(E)) /\ Head(E).changed = {}
    <3>1. 1 \in 1 .. Len(E) /\ \A i \in 1 .. Len(Tail(E)) : i + 1 \in 1 .. Len(E)
      BY <2>6
    <3>2. OnlyKeys(E)
      BY <1>1
    <3>3. \A i \in 1 .. Len(Tail(E)) :
             /\ E[i + 1].down \subseteq KeyCodes /\ E[i + 1].up \subseteq KeyCodes
             /\ E[i + 1].changed = {}
      BY <3>1, <3>2 DEF OnlyKeys
    <3>4. OnlyKeys(Tail(E))
      BY <2>6, <3>3 DEF OnlyKeys
    <3>5. E[1].changed = {}
      BY <3>1, <3>2 DEF OnlyKeys
    <3> QED BY <2>6, <3>4, <3>5
  <2>8. KeyCodes \subseteq Codes /\ InputUsages \cup Buttons \subseteq Codes
    BY DEF Codes
  <2>9. KeysAddUp' /\ OthersCovered'
    BY <1>1, <2>3, <2>4, <2>8 DEF KeysAddUp, OthersCovered
  <2>10. LockAddsUp'
    <3>1. told'.state = told.state
      BY <2>4, <2>7 DEF Toggled
    <3>2. caps = (told.caps # Odd(Cardinality(Presses(E, CapsKey)))) /\ told.state = Reported.state
      BY <1>1 DEF LockAddsUp
    <3>3. caps' = (told'.caps # Odd(Cardinality(Presses(Rest', CapsKey))))
      BY <1>1, <2>3, <2>4, <3>2
    <3>4. told'.state = Reported'.state
      BY <2>3, <3>1, <3>2
    <3> QED BY <3>3, <3>4 DEF LockAddsUp
  <2>11. OnlyKeys(Rest)'
    BY <2>3, <2>7 DEF OnlyKeys
  <2> QED BY <2>5, <2>9, <2>10, <2>11
<1> QED BY <1>2, <1>3

\* A callback that returns, and a change of the registry, tell nothing.
LEMMA QuietInputStep ==
  ASSUME InputInv, UNCHANGED <<endpoint, caps, balance, told>>,
         \/ UNCHANGED dispatch
         \/ dispatch' = [dispatch EXCEPT !.pending = Tail(@)]
  PROVE  InputInv'
<1>1. /\ dispatch'.events = dispatch.events /\ dispatch'.after = dispatch.after
      /\ dispatch' = [events |-> dispatch'.events, pending |-> dispatch'.pending,
                      snapshot |-> dispatch'.snapshot, after |-> dispatch'.after]
  <2>1. dispatch = [events |-> dispatch.events, pending |-> dispatch.pending,
                    snapshot |-> dispatch.snapshot, after |-> dispatch.after]
    BY DEF InputInv, InputTypes
  <2> QED BY <2>1
<1>2. Rest' = Rest /\ Reported' = Reported
  BY <1>1 DEF Rest, Reported
<1>3. InputTypes'
  BY <1>1 DEF InputInv, InputTypes
<1> QED BY <1>2, <1>3 DEF InputInv, OnlyKeys, KeysAddUp, OthersCovered, LockAddsUp

\* With another device the sums start again.
LEMMA ReplugStarts ==
  ASSUME InputInv, Replugged
  PROVE  InputInv'
<1>1. NothingReported \in Endpoints /\ NothingReported.state = {}
  BY NoReport
<1>2. \A c \in Codes : Held(NothingReported, c) = 0
  BY NothingHeld
<1>3. /\ endpoint' = NothingReported /\ caps' = FALSE /\ UNCHANGED dispatch
      /\ dispatch.events = <<>>
      /\ balance' = [c \in Codes |-> 0] /\ told' = [state |-> {}, caps |-> FALSE]
  BY DEF Replugged
<1>4. InputTypes'
  <2>1. balance' \in [Codes -> Int]
    BY <1>3
  <2>2. told' \in [state : SUBSET (KeyCodes \cup Modifiers), caps : BOOLEAN]
    BY <1>3
  <2> QED BY <1>1, <1>3, <2>1, <2>2 DEF InputInv, InputTypes
<1>5. Rest' = <<>> /\ Reported' = NothingReported /\ OnlyKeys(Rest)'
  BY <1>3 DEF Rest, Reported, OnlyKeys
<1>6. KeyCodes \cup InputUsages \cup Buttons \subseteq Codes
  BY DEF Codes
<1>7. KeysAddUp' /\ OthersCovered'
  BY <1>2, <1>3, <1>5, <1>6, NoneTold DEF KeysAddUp, OthersCovered
<1>8. LockAddsUp'
  <2>1. Cardinality(Presses(<<>>, CapsKey)) = 0 /\ Odd(0) = FALSE
    BY NoneTold DEF Odd
  <2> QED BY <1>1, <1>3, <1>5, <2>1 DEF LockAddsUp
<1> QED BY <1>4, <1>5, <1>7, <1>8 DEF InputInv

LEMMA InputStep == InputInv /\ [InputNext]_inputVars => InputInv'
<1> SUFFICES ASSUME InputInv, [InputNext]_inputVars PROVE InputInv'
  OBVIOUS
<1>1. InputTypes
  BY DEF InputInv
<1>2. CASE HandleKeyboard
  <2>1. PICK new \in BootReports, mods \in SUBSET Modifiers :
          /\ caps' = CapsAfter(endpoint.keys, new)
          /\ HandleReport(StateEvents(KeysOf(new) \cup mods) \o KeyEvents(endpoint.keys, new),
                          [endpoint EXCEPT !.keys = new, !.state = KeysOf(new) \cup mods])
    BY <1>2 DEF HandleKeyboard
  <2> QED BY <1>1, <2>1, BootReported, ReportKept
<1>3. CASE HandleKeyboardBitmap
  <2>1. PICK keys \in SUBSET InputKeys, mods \in SUBSET Modifiers :
          /\ caps' = (caps # (CapsKey \in keys \ endpoint.bits))
          /\ HandleReport(StateEvents(keys \cup mods) \o BitmapEvents(endpoint.bits, keys),
                          [endpoint EXCEPT !.bits = keys, !.state = keys \cup mods])
    BY <1>3 DEF HandleKeyboardBitmap
  <2> QED BY <1>1, <2>1, BitmapReported, ReportKept
<1>4. CASE HandleConsumerControl
  <2>1. PICK new \in InputUsages \cup {NoKey} :
          /\ caps' = caps
          /\ HandleReport(UsageEvents("consumer", endpoint["consumer"], new),
                          [endpoint EXCEPT !["consumer"] = KeptUsage(@, new)])
    BY <1>4 DEF HandleConsumerControl
  <2> QED BY <1>1, <2>1, UsageReported, ReportKept
<1>5. CASE HandleSystemControl
  <2>1. PICK new \in InputUsages \cup {NoKey} :
          /\ caps' = caps
          /\ HandleReport(UsageEvents("system", endpoint["system"], new),
                          [endpoint EXCEPT !["system"] = KeptUsage(@, new)])
    BY <1>5 DEF HandleSystemControl
  <2> QED BY <1>1, <2>1, UsageReported, ReportKept
<1>6. CASE HandleMouse
  <2>1. PICK new \in SUBSET Buttons, moved \in BOOLEAN :
          /\ caps' = caps
          /\ HandleReport(MouseEvents(endpoint.buttons, new, moved),
                          [endpoint EXCEPT !.buttons = new])
    BY <1>6 DEF HandleMouse
  <2> QED BY <1>1, <2>1, MouseReported, ReportKept
<1>7. CASE HandleGamepad
  <2>1. PICK new \in {"neutral", "active"} :
          /\ caps' = caps
          /\ HandleReport(GamepadEvents(endpoint.gamepad, new),
                          IF GamepadEvents(endpoint.gamepad, new) = <<>> THEN endpoint
                          ELSE [endpoint EXCEPT !.gamepad = new])
    BY <1>7 DEF HandleGamepad
  <2> QED BY <1>1, <2>1, GamepadReported, ReportKept
<1>8. CASE HandleMidi
  <2>1. PICK messages \in 1 .. 2 :
          /\ caps' = caps
          /\ HandleReport([i \in 1 .. messages |-> Event("midi", {}, {}, {})], endpoint)
    BY <1>8 DEF HandleMidi
  <2> QED BY <1>1, <2>1, MidiReported, ReportKept
<1>9. CASE NextInputEvent
  BY <1>9, NextEventKept
<1>10. CASE Replugged
  BY <1>10, ReplugStarts
<1>11. CASE CallbackReturns
  BY <1>11, QuietInputStep DEF CallbackReturns
<1>12. ASSUME NEW kind \in InputKinds, AddListener(kind)
       PROVE  InputInv'
  BY <1>12, QuietInputStep DEF AddListener
<1>13. ASSUME NEW id \in 1 .. (IdModulus - 1), RemoveListener(id)
       PROVE  InputInv'
  BY <1>13, QuietInputStep DEF RemoveListener
<1>14. CASE UNCHANGED inputVars
  BY <1>14, QuietInputStep DEF inputVars
<1> QED BY <1>2, <1>3, <1>4, <1>5, <1>6, <1>7, <1>8, <1>9, <1>10, <1>11, <1>12, <1>13, <1>14
        DEF InputNext

LEMMA InputHolds == InputSpec => []InputInv
  BY InputStarts, InputStep, PTL DEF InputSpec

\* An application that adds up the presses, the releases and the changes of the
\* key state it was told has, between reports, what the keyboard reported,
\* whatever listeners came and went and whichever callback of a snapshot was
\* running (handleKeyboard, handleKeyboardBitmap, snapshotHIDCallbacks).
THEOREM KeysAreFollowed == InputSpec => []KeysFollowReports
<1>1. InputInv => KeysFollowReports
  <2> SUFFICES ASSUME InputInv, dispatch.events = <<>>
               PROVE  /\ \A k \in KeyCodes :
                           balance[k] = Cardinality({s \in 1 .. KeySlots : endpoint.keys[s] = k})
                                        + Cardinality(endpoint.bits \cap {k})
                      /\ told.state = endpoint.state
                      /\ told.caps = caps
    BY DEF KeysFollowReports
  <2>1. Rest = <<>> /\ Reported = endpoint
    BY DEF Rest, Reported
  <2>2. ASSUME NEW k \in KeyCodes
        PROVE  balance[k] = Cardinality({s \in 1 .. KeySlots : endpoint.keys[s] = k})
                            + Cardinality(endpoint.bits \cap {k})
    <3>1. balance[k] + 0 = Held(endpoint, k)
      BY <2>1, NoneTold DEF InputInv, KeysAddUp
    <3>2. balance[k] \in Int
      BY DEF InputInv, InputTypes, Codes
    <3>3. Held(endpoint, k) = Cardinality({s \in 1 .. KeySlots : endpoint.keys[s] = k})
                              + Cardinality(endpoint.bits \cap {k})
      BY DEF Held, SlotsOf, SlotsWith
    <3>4. balance[k] = Held(endpoint, k)
      BY <3>1, <3>2
    <3> QED BY <3>3, <3>4
  <2>3. told.state = endpoint.state /\ told.caps = caps
    <3>1. Cardinality(Presses(Rest, CapsKey)) = 0 /\ Odd(0) = FALSE
      BY <2>1, NoneTold DEF Odd
    <3>2. told.caps \in BOOLEAN /\ caps \in BOOLEAN
      BY DEF InputInv, InputTypes
    <3> QED BY <2>1, <3>1, <3>2 DEF InputInv, LockAddsUp
  <2> QED BY <2>2, <2>3
<1> QED BY <1>1, InputHolds, PTL

\* No release of a usage or of a button is told that was not the release of a
\* press that was told, even when usages come one after the other without a
\* release or when nobody listened for a while
\* (espUsbHostParseConsumerControlReport, espUsbHostParseBootMouseReport).
THEOREM ReleasesFollowPresses == InputSpec => []ReleasesArePaired
<1>1. InputInv => ReleasesArePaired
  <2> SUFFICES ASSUME InputInv, NEW c \in InputUsages \cup Buttons PROVE balance[c] >= 0
    BY DEF ReleasesArePaired
  <2>1. c \in Codes /\ c \notin KeyCodes
    BY InputAssumption DEF Codes
  <2>2. balance[c] \in Int /\ Reported \in Endpoints
    BY <2>1 DEF InputInv, InputTypes, Reported
  <2>3. Rest \in Seq(InputEvents)
    BY HeadTold DEF InputInv, InputTypes, Rest
  <2>4. KeysTold(Rest, Len(Rest)) /\ Len(Rest) \in Nat
    BY <2>3 DEF InputInv, OnlyKeys, KeysTold
  <2>5. Net(Rest, c) = 0
    BY <2>1, <2>4, KeysOnlyTold
  <2>6. balance[c] + Net(Rest, c) >= Held(Reported, c)
    BY DEF InputInv, OthersCovered
  <2>7. Held(Reported, c) \in Nat
    BY <2>1, <2>2, HeldType
  <2> QED BY <2>2, <2>5, <2>6, <2>7
<1> QED BY <1>1, InputHolds, PTL
=============================================================================
