-------------------------- MODULE UsbHostLifecycle --------------------------
(***************************************************************************)
(* The USB host object: begin() and end() of the application, the host    *)
(* task that installs the library, the client task that opens and closes  *)
(* devices, and the input endpoint of a keyboard with the LED report that *)
(* holds its transfer back.                                               *)
(*                                                                         *)
(* The client task dispatches callbacks one at a time inside              *)
(* usb_host_client_handle_events; what it does after that (Loop) is one   *)
(* step.  External: a gone device's transfers come back before its        *)
(* DEV_GONE event, as the comment in clientTaskLoop relies on.            *)
(***************************************************************************)
EXTENDS Naturals, FiniteSets

CONSTANTS
    Keyboards, Hubs,     \* the devices that may be plugged in
    MaxDevices,          \* the slots of devices_
    MaxPlugs,            \* bound on how often a device is plugged in
    MaxPresses           \* bound on changes of the lock state

VARIABLES
    running, ready,          \* running_, ready_
    user, hostTask, clientTask,   \* user: idle, beginning, ending, or a keyboard
    library, registered,     \* the library is installed; clientHandle_
    tracking,                \* hubTrackingEnabled_
    slot,                    \* per device, its DeviceState and EndpointState
    bus,                     \* per device: absent, listed, attached, going
    inflight, ledsInflight,  \* transfers the driver holds
    want,                    \* the lock state the LEDs should show
    failed,                  \* a submit or an endpoint clear of the device failed
    plugs, presses

lifecycleVars ==
    <<running, ready, user, hostTask, clientTask, library, registered,
      tracking, slot, bus, inflight, ledsInflight, want, failed, plugs, presses>>
tasks == <<running, ready, user, hostTask, clientTask, library, registered>>
world == <<tracking, slot, bus, inflight, ledsInflight, want, failed, plugs, presses>>

\* External: a hub has no HID interface of its own; a keyboard with a hub built
\* in is two devices on the bus.
ASSUME HubsAreNoKeyboards == Keyboards \cap Hubs = {}

Devices == Keyboards \cup Hubs

Free == [st |-> "free", transfer |-> FALSE, submitted |-> FALSE, recovery |-> FALSE,
         resubmit |-> FALSE, afterLed |-> FALSE, dirty |-> FALSE, pending |-> FALSE,
         sent |-> 0]

LifecycleInit ==
    /\ running = FALSE /\ ready = FALSE
    /\ user = "idle" /\ hostTask = "none" /\ clientTask = "none"
    /\ library = FALSE /\ registered = FALSE
    /\ tracking = TRUE
    /\ slot = [d \in Devices |-> Free]
    /\ bus = [d \in Devices |-> "absent"]
    /\ inflight = [d \in Devices |-> FALSE]
    /\ ledsInflight = [d \in Devices |-> 0]
    /\ want = 0 /\ failed = {} /\ plugs = 0 /\ presses = 0

-----------------------------------------------------------------------------
(* The application. *)

Begin ==
    /\ user = "idle" /\ ~running
    /\ hostTask = "none" /\ clientTask = "none" /\ ~registered
    /\ running' = TRUE /\ ready' = FALSE
    /\ hostTask' = "install" /\ user' = "beginning"
    /\ UNCHANGED <<clientTask, library, registered, world>>

BeginReturns ==      \* ready, not running any more, or after a second
    /\ user = "beginning"
    /\ user' = "idle"
    /\ UNCHANGED <<running, ready, hostTask, clientTask, library, registered, world>>

End ==
    /\ user = "idle" /\ (running \/ hostTask # "none")
    /\ ready' = FALSE /\ running' = FALSE /\ user' = "ending"
    /\ UNCHANGED <<hostTask, clientTask, library, registered, world>>

EndReturns ==        \* the host task has ended, or after three seconds
    /\ user = "ending"
    /\ user' = "idle"
    /\ UNCHANGED <<running, ready, hostTask, clientTask, library, registered, world>>

\* The submit of setKeyboardLeds; its last assignment is a step of its own,
\* since the client task may run the transfer's callback in between.
SubmitLeds(d) ==
    /\ user = "idle" /\ d \in Keyboards /\ presses < MaxPresses
    /\ running /\ registered /\ slot[d].st = "open"
    /\ want' = 1 - want /\ presses' = presses + 1
    /\ IF slot[d].pending THEN UNCHANGED <<user, ledsInflight>>
       ELSE /\ user' = d
            /\ ledsInflight' = [ledsInflight EXCEPT ![d] = @ + 1]
    /\ UNCHANGED <<running, ready, hostTask, clientTask, library, registered,
                   tracking, slot, bus, inflight, failed, plugs>>

MarkLeds(d) ==
    /\ user = d
    /\ user' = "idle"
    /\ slot' = [slot EXCEPT ![d].pending = TRUE, ![d].sent = want]
    /\ UNCHANGED <<running, ready, hostTask, clientTask, library, registered, tracking,
                   bus, inflight, ledsInflight, want, failed, plugs, presses>>

SetHubTracking ==    \* switched off, the tracked hubs are let go
    /\ user = "idle"
    /\ tracking' = ~tracking
    /\ slot' = [d \in Devices |-> IF tracking /\ d \in Hubs /\ slot[d].st = "open"
                                  THEN Free ELSE slot[d]]
    /\ UNCHANGED <<tasks, bus, inflight, ledsInflight, want, failed, plugs, presses>>

-----------------------------------------------------------------------------
(* The host task. *)

UninstallHostLibrary == library' \in BOOLEAN    \* it may fail

HostStops ==
    /\ running' = FALSE /\ hostTask' = "none"
    /\ UNCHANGED <<ready, user, clientTask>>

Install ==
    /\ hostTask = "install"
    /\ \/ /\ ~library
          /\ library' = TRUE /\ hostTask' = "register"
          /\ UNCHANGED <<running, ready, user, clientTask>>
       \/ HostStops /\ UNCHANGED library
    /\ UNCHANGED <<registered, world>>

Register ==
    /\ hostTask = "register"
    /\ \/ /\ registered' = TRUE /\ hostTask' = "create"
          /\ UNCHANGED <<running, ready, user, clientTask, library>>
       \/ HostStops /\ library' = FALSE /\ UNCHANGED registered
    /\ UNCHANGED world

CreateClient ==
    /\ hostTask = "create"
    /\ \/ /\ clientTask' = "events"
          /\ hostTask' = IF running THEN "announce" ELSE "serve"
          /\ UNCHANGED <<running, ready, library, registered>>
       \/ /\ running' = FALSE /\ ready' = FALSE /\ hostTask' = "none"
          /\ registered' = FALSE /\ UninstallHostLibrary
          /\ UNCHANGED clientTask
    /\ UNCHANGED <<user, world>>

Announce ==          \* ready_ takes the value running_ had when it was read
    /\ hostTask = "announce"
    /\ ready' = TRUE /\ hostTask' = "serve"
    /\ UNCHANGED <<running, user, clientTask, library, registered, world>>

Serve ==
    /\ hostTask = "serve" /\ ~running
    /\ hostTask' = "await"
    /\ UNCHANGED <<running, ready, user, clientTask, library, registered, world>>

AwaitForTime ==     \* mutant: uninstalls once the time is over
    /\ hostTask = "await"
    /\ ready' = FALSE /\ hostTask' = "none"
    /\ UninstallHostLibrary
    /\ UNCHANGED <<running, user, clientTask, registered, world>>

\* The wait for the client ends when it is gone or after 2.5 s; only then, and
\* only without a client, is the library uninstalled, which may fail.
Await ==
    /\ hostTask = "await"
    /\ ready' = FALSE /\ hostTask' = "none"
    /\ IF clientTask = "none" /\ ~registered THEN UninstallHostLibrary
       ELSE UNCHANGED library
    /\ UNCHANGED <<running, user, clientTask, registered, world>>

-----------------------------------------------------------------------------
(* The client task: events. *)

Dispatching == clientTask \in {"events", "drain", "release"}
NoRoom == Cardinality({d \in Devices : slot[d].st # "free"}) >= MaxDevices

\* A keyboard whose interface is claimed gets an endpoint and its LED report.
Opened(d, claimed, sent) ==
    IF d \in Keyboards /\ claimed
    THEN [Free EXCEPT !.st = "open", !.transfer = TRUE, !.resubmit = TRUE,
                      !.pending = sent, !.sent = IF sent THEN want ELSE 0]
    ELSE [Free EXCEPT !.st = "open"]

NewDevice(d) ==
    /\ Dispatching /\ bus[d] = "listed"
    /\ bus' = [bus EXCEPT ![d] = "attached"]
    /\ \/ UNCHANGED <<slot, ledsInflight>>      \* not running, no slot, open failed
       \/ /\ running /\ ~NoRoom /\ slot[d].st = "free"
          /\ \E claimed, sent \in BOOLEAN :
                /\ slot' = [slot EXCEPT ![d] = Opened(d, claimed, sent)]
                /\ ledsInflight' = [ledsInflight EXCEPT ![d] =
                       @ + IF d \in Keyboards /\ claimed /\ sent THEN 1 ELSE 0]
    /\ UNCHANGED <<tasks, tracking, inflight, want, failed, plugs, presses>>

Statuses == {"completed", "error", "no_device", "canceled"}

\* handleTransfer: what becomes of the endpoint, and of the lock state when the
\* report carried a lock key.
AfterTransfer(s, status, press) ==
    LET t == [s EXCEPT !.submitted = FALSE, !.dirty = s.dirty \/ press] IN
    IF status \in {"no_device", "canceled"} THEN t
    ELSE IF status = "error" THEN [t EXCEPT !.recovery = TRUE]
    ELSE IF ~running THEN t
    ELSE IF t.dirty THEN [t EXCEPT !.afterLed = TRUE]
    ELSE [t EXCEPT !.resubmit = TRUE]

HandleTransfer(d) ==
    /\ Dispatching /\ inflight[d]
    /\ inflight' = [inflight EXCEPT ![d] = FALSE]
    /\ \E status \in Statuses, press \in BOOLEAN :
          /\ (status = "no_device" => bus[d] = "going") /\ (bus[d] = "going" => status # "completed")
          /\ status = "canceled" => clientTask # "events"
          /\ press => status = "completed" /\ presses < MaxPresses
          /\ want' = IF press THEN 1 - want ELSE want
          /\ presses' = IF press THEN presses + 1 ELSE presses
          /\ slot' = [slot EXCEPT ![d] = AfterTransfer(@, status, press)]
    /\ UNCHANGED <<tasks, tracking, bus, ledsInflight, failed, plugs>>

LedDone(d) ==
    /\ Dispatching /\ ledsInflight[d] > 0
    /\ ledsInflight' = [ledsInflight EXCEPT ![d] = @ - 1]
    /\ \E ok \in BOOLEAN :
          slot' = IF ~slot[d].transfer THEN slot
                  ELSE [slot EXCEPT ![d].pending = FALSE,
                                    ![d].dirty = @ \/ (ok /\ want # slot[d].sent)]
    /\ UNCHANGED <<tasks, tracking, bus, inflight, want, failed, plugs, presses>>

\* releaseEndpoints frees the transfer; the interface may not be released yet.
Released == [Free EXCEPT !.st = "closing"]

DeviceGone(d) ==
    /\ Dispatching /\ bus[d] = "going" /\ ~inflight[d] /\ ledsInflight[d] = 0
    /\ bus' = [bus EXCEPT ![d] = "absent"]
    /\ \/ slot' = [slot EXCEPT ![d] = Free]
       \/ slot[d].transfer /\ slot' = [slot EXCEPT ![d] = Released]
    /\ UNCHANGED <<tasks, tracking, inflight, ledsInflight, want, failed, plugs, presses>>

-----------------------------------------------------------------------------
(* The client task: what follows the events. *)

Outcomes == [closes : BOOLEAN, ledDue : BOOLEAN, ledSent : BOOLEAN,
             cleared : BOOLEAN, accepted : BOOLEAN]
AllWell == [closes |-> TRUE, ledDue |-> TRUE, ledSent |-> TRUE,
            cleared |-> TRUE, accepted |-> TRUE]

Finalize(s, o) == IF s.st = "closing" /\ o.closes THEN Free ELSE s

SendLeds(s, o) ==
    IF s.transfer /\ s.dirty /\ ~s.pending /\ o.ledDue
    THEN [s EXCEPT !.dirty = FALSE, !.pending = o.ledSent,
                   !.sent = IF o.ledSent THEN want ELSE @]
    ELSE s

RecoverForgetful(s, o) ==      \* mutant: nothing waits for the LED report
    IF s.recovery /\ (s.dirty \/ s.pending) THEN [s EXCEPT !.recovery = FALSE]
    ELSE [s EXCEPT !.recovery = FALSE, !.resubmit = s.recovery]

Recover(s, o) ==
    IF ~s.recovery THEN s
    ELSE IF ~o.cleared THEN [s EXCEPT !.recovery = FALSE]
    ELSE IF s.dirty \/ s.pending THEN [s EXCEPT !.recovery = FALSE, !.afterLed = TRUE]
    ELSE [s EXCEPT !.recovery = FALSE, !.resubmit = TRUE]

Submit(s, o) == [s EXCEPT !.submitted = @ \/ (running /\ o.accepted)]

Resubmit(s, o) ==
    IF s.resubmit THEN Submit([s EXCEPT !.resubmit = FALSE], o) ELSE s

ResubmitAfterLed(s, o) ==
    IF s.afterLed /\ ~s.dirty /\ ~s.pending
    THEN Submit([s EXCEPT !.afterLed = FALSE], o)
    ELSE s

AfterEvents(s, o) ==
    ResubmitAfterLed(Resubmit(Recover(SendLeds(Finalize(s, o), o), o), o), o)

LoopWith(o) ==
    /\ clientTask = "events"
    /\ clientTask' = IF running THEN "events" ELSE "drain"
    /\ slot' = [d \in Devices |-> AfterEvents(slot[d], o)]
    /\ inflight' = [d \in Devices |-> inflight[d] \/ slot'[d].submitted]
    /\ ledsInflight' = [d \in Devices |-> ledsInflight[d] +
           IF slot[d].dirty /\ ~slot'[d].dirty /\ slot'[d].pending THEN 1 ELSE 0]
    /\ failed' = {d \in Devices : slot'[d].transfer /\
           (d \in failed \/ (slot[d] # slot'[d] /\ ~o.accepted)
                         \/ (slot[d].recovery /\ ~o.cleared))}
    /\ UNCHANGED <<running, ready, user, hostTask, library, registered,
                   tracking, bus, want, plugs, presses>>

Loop == \E o \in Outcomes : LoopWith(o)

ScanHostDevices(d) ==
    /\ clientTask = "events" /\ running /\ tracking
    /\ d \in Hubs /\ bus[d] = "attached" /\ slot[d].st = "free" /\ ~NoRoom
    /\ slot' = [slot EXCEPT ![d] = Opened(d, FALSE, FALSE)]
    /\ UNCHANGED <<tasks, tracking, bus, inflight, ledsInflight, want, failed,
                   plugs, presses>>

-----------------------------------------------------------------------------
(* The client task: shutdown. *)

ClientEnds == clientTask' = "none"

DrainForTime ==      \* mutant: releases once the time is over
    /\ clientTask = "drain"
    /\ clientTask' = "release"
    /\ UNCHANGED <<running, ready, user, hostTask, library, registered, world>>

\* Halting and flushing makes the driver cancel what it holds; the callbacks
\* come as HandleTransfer.
DrainClientTransfers ==
    /\ clientTask = "drain"
    /\ \/ (\A d \in Devices : ~slot[d].submitted) /\ clientTask' = "release"
       \/ ClientEnds                            \* two seconds have passed
    /\ UNCHANGED <<running, ready, user, hostTask, library, registered, world>>

\* Each pass frees the endpoints of every device; the devices in stuck keep
\* an interface and are tried again until a second has passed.
ReleaseClientResources ==
    /\ clientTask = "release"
    /\ \E stuck \in SUBSET {d \in Devices : slot[d].st # "free"} :
          /\ slot' = [d \in Devices |-> IF d \in stuck THEN Released ELSE Free]
          /\ registered' = (stuck # {})
          /\ clientTask' \in IF stuck = {} THEN {"none"} ELSE {"release", "none"}
    /\ ledsInflight' = [d \in Devices |-> 0]
    /\ UNCHANGED <<running, ready, user, hostTask, library, tracking, bus, inflight,
                   want, failed, plugs, presses>>

-----------------------------------------------------------------------------
(* External: devices are plugged in and pulled out. *)

PlugIn(d) ==
    /\ bus[d] = "absent" /\ library /\ plugs < MaxPlugs
    /\ plugs' = plugs + 1 /\ bus' = [bus EXCEPT ![d] = "listed"]
    /\ UNCHANGED <<tasks, tracking, slot, inflight, ledsInflight, want, failed, presses>>

PullOut(d) ==
    /\ bus[d] = "attached"
    /\ bus' = [bus EXCEPT ![d] = "going"]
    /\ UNCHANGED <<tasks, tracking, slot, inflight, ledsInflight, want, failed,
                   plugs, presses>>

User == Begin \/ BeginReturns \/ End \/ EndReturns \/ SetHubTracking
            \/ \E d \in Devices : SubmitLeds(d) \/ MarkLeds(d)
HostTask == Install \/ Register \/ CreateClient \/ Announce \/ Serve \/ Await
Events(d) == NewDevice(d) \/ HandleTransfer(d) \/ LedDone(d) \/ DeviceGone(d)
ClientTask == \/ Loop \/ DrainClientTransfers \/ ReleaseClientResources
              \/ \E d \in Devices : Events(d) \/ ScanHostDevices(d)

LifecycleNext == \/ User \/ HostTask \/ ClientTask
                 \/ \E d \in Devices : PlugIn(d) \/ PullOut(d)

\* The client task keeps running: events are dispatched, an LED report in
\* flight completes, and a pass in which nothing fails comes again and again.
LifecycleFairness ==
    /\ WF_lifecycleVars(LoopWith(AllWell))
    /\ \A d \in Devices : WF_lifecycleVars(Events(d))

LifecycleSpec ==
    LifecycleInit /\ [][LifecycleNext]_lifecycleVars /\ LifecycleFairness

-----------------------------------------------------------------------------
\* No transfer is freed while the driver holds it, whatever is pulled out, let
\* go or shut down in whichever order ("do not free any transfer or deregister
\* the client yet", drainClientTransfers).
InFlightNeverFreed == \A d \in Devices : inflight[d] => slot[d].transfer

\* The library outlives its client: it is uninstalled only when no client task
\* runs and none is registered, so no client call finds it gone.
LibraryOutlivesClient == clientTask # "none" \/ registered => library

\* A keyboard whose transfer has come back is listened to again: neither the
\* recovery nor the LED report it waits for holds it back for ever, unless an
\* operation on it failed, it is gone, or the host is stopping.  One hold-up is
\* left out: the flag of setKeyboardLeds set after its report was already done.
KeyboardListensAgain ==
    \A d \in Keyboards :
        slot[d].transfer /\ bus[d] = "attached"
            ~> (slot[d].submitted \/ d \in failed \/ bus[d] # "attached"
                   \/ ~running \/ ~slot[d].transfer
                   \/ (slot[d].pending /\ ledsInflight[d] = 0))
=============================================================================
