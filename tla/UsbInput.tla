------------------------------- MODULE UsbInput -------------------------------
(***************************************************************************)
(* Input of the USB host: the client task takes a report of a keyboard     *)
(* (boot protocol or key bitmap), a mouse, a gamepad, consumer or system   *)
(* controls or a MIDI transfer apart into events, by comparing it with the *)
(* one before, and calls the listeners of each event from a snapshot of    *)
(* the registry, which callbacks and other tasks change meanwhile.         *)
(* The single on...() callback is one more listener, the first.            *)
(***************************************************************************)
EXTENDS Integers, FiniteSets, Sequences, SequencesExt

CONSTANTS
    InputKeys, CapsKey,     \* key codes, caps lock among them
    Modifiers,              \* modifier keys
    InputUsages,            \* usages of consumer and system controls
    Buttons,                \* buttons of the mouse
    KeySlots,               \* keys of a boot report (6)
    ListenerLimit,          \* ESP_USB_HOST_MAX_LISTENERS_PER_EVENT
    IdModulus,              \* values of a listener id, 0 is invalid (2^32)
    InputKinds,             \* kinds of listeners the model adds
    MaxReports, MaxListeners   \* bounds of the model

NoKey == 0
Rollover == 1                \* the code a boot keyboard fills its report with
KeyCodes == InputKeys \cup {Rollover}

(* Keys, usages and buttons share the set Codes, so they have different names. *)
ASSUME InputAssumption ==
    /\ CapsKey \in InputKeys /\ KeySlots \in Nat \ {0} /\ IdModulus \in Nat \ {0, 1}
    /\ InputKeys \subseteq Nat \ {NoKey, Rollover} /\ IsFiniteSet(InputKeys)
    /\ NoKey \notin InputUsages
    /\ KeyCodes \cap (InputUsages \cup Buttons) = {} /\ InputUsages \cap Buttons = {}

VARIABLES
    endpoint,   \* EndpointState: what the last report of each kind was
    bitmap,     \* the device's keyboard reports a bitmap
    caps,       \* keyboardCapsLock
    registry,   \* per kind: ids of the listeners, in order of registration
    nextId,     \* nextListenerId_
    dispatch,   \* events of the report being handled, callbacks still to run
    balance,    \* history: presses less releases told of each key or button
    told,       \* history: the key state and the lock as told
    counts      \* bounds: reports handled, listeners added

inputVars == <<endpoint, bitmap, caps, registry, nextId, dispatch, balance, told, counts>>

Codes == KeyCodes \cup InputUsages \cup Buttons
NothingReported == [keys |-> [s \in 1..KeySlots |-> NoKey], state |-> {}, bits |-> {},
           consumer |-> NoKey, system |-> NoKey, buttons |-> {}, gamepad |-> "none"]
Quiet == [events |-> <<>>, pending |-> <<>>, snapshot |-> <<>>, after |-> NothingReported]

InputInit ==
    /\ endpoint = NothingReported /\ bitmap \in BOOLEAN /\ caps = FALSE
    /\ registry = [k \in InputKinds |-> <<>>] /\ nextId = 1
    /\ dispatch = Quiet
    /\ balance = [c \in Codes |-> 0] /\ told = [state |-> {}, caps |-> FALSE]
    /\ counts = [reports |-> 0, listeners |-> 0]

Registered(kind) == IF kind \in InputKinds THEN registry[kind] ELSE <<>>
Event(kind, down, up, changed) == [kind |-> kind, down |-> down, up |-> up, changed |-> changed]

(* The members of a finite set of numbers, the smallest first: how the     *)
(* loops over slots and key codes come to them.                            *)
InOrder(S) ==
    [i \in 1..Cardinality(S) |-> CHOOSE n \in S : Cardinality({m \in S : m <= n}) = i]

-----------------------------------------------------------------------------
(* What the application is told with an event. *)
TellEvent(event) ==
    /\ balance' = [c \in Codes |-> balance[c] + (IF c \in event.down THEN 1 ELSE 0)
                                              - (IF c \in event.up THEN 1 ELSE 0)]
    /\ told' = [state |-> (told.state \ event.changed) \cup (event.changed \ told.state),
                caps |-> told.caps # (CapsKey \in event.down)]

(* A report: its events are told one after the other and the endpoint      *)
(* keeps the report when they have been.                                   *)
HandleReport(events, after) ==
    /\ dispatch.events = <<>> /\ counts.reports < MaxReports
    /\ counts' = [counts EXCEPT !.reports = @ + 1]
    /\ IF events = <<>>
         THEN endpoint' = after /\ UNCHANGED <<dispatch, balance, told>>
         ELSE /\ dispatch' = [Quiet EXCEPT !.events = events, !.after = after,
                                           !.pending = Registered(Head(events).kind),
                                           !.snapshot = Registered(Head(events).kind)]
              /\ TellEvent(Head(events)) /\ UNCHANGED endpoint
    /\ UNCHANGED <<bitmap, registry, nextId>>

(* dispatchKeyboardState: the whole state, when it has changed. *)
StateEvents(state) ==
    LET changed == (state \ endpoint.state) \cup (endpoint.state \ state)
    IN  IF changed = {} THEN <<>> ELSE <<Event("keyState", {}, {}, changed)>>

(* espUsbHostBuildKeyboardEvents: presses in the order of the new report,  *)
(* then releases in the order of the old one.                              *)
KeysOf(report) == {report[s] : s \in 1..KeySlots} \ {NoKey}
Fresh(new, old) == {s \in 1..KeySlots : new[s] \notin KeysOf(old) \cup {NoKey}}
KeyEventsPressesOnly(old, new) ==
    LET pressed == InOrder(Fresh(new, old))
    IN  [i \in DOMAIN pressed |-> Event("key", {new[pressed[i]]}, {}, {})]
KeyEvents(old, new) ==
    LET pressed == InOrder(Fresh(new, old))
        released == InOrder(Fresh(old, new))
    IN  [i \in DOMAIN pressed |-> Event("key", {new[pressed[i]]}, {}, {})]
        \o [i \in DOMAIN released |-> Event("key", {}, {old[released[i]]}, {})]

(* Each fresh press of the lock key toggles the lock. *)
Toggles(old, new) == {s \in Fresh(new, old) : new[s] = CapsKey}
CapsAfter(old, new) == caps # (Cardinality(Toggles(old, new)) % 2 = 1)

(* handleKeyboard: a boot report, of keys each once or all "rollover". *)
BootReports ==
    {r \in [1..KeySlots -> InputKeys \cup {NoKey}] :
        \A s, t \in 1..KeySlots : r[s] = r[t] /\ r[s] # NoKey => s = t}
    \cup {[s \in 1..KeySlots |-> Rollover]}
HandleKeyboard ==
    /\ ~bitmap
    /\ \E new \in BootReports, mods \in SUBSET Modifiers :
          LET state == KeysOf(new) \cup mods IN
          /\ caps' = CapsAfter(endpoint.keys, new)
          /\ HandleReport(StateEvents(state) \o KeyEvents(endpoint.keys, new),
                          [endpoint EXCEPT !.keys = new, !.state = state])

(* handleKeyboardBitmap: the same of a set of keys, in the order of codes. *)
BitmapEvents(old, new) ==
    LET changed == InOrder((new \ old) \cup (old \ new))
    IN  [i \in DOMAIN changed |-> IF changed[i] \in new THEN Event("key", {changed[i]}, {}, {})
                                                        ELSE Event("key", {}, {changed[i]}, {})]
HandleKeyboardBitmap ==
    /\ bitmap
    /\ \E keys \in SUBSET InputKeys, mods \in SUBSET Modifiers :
          /\ caps' = (caps # (CapsKey \in keys \ endpoint.bits))
          /\ HandleReport(StateEvents(keys \cup mods) \o BitmapEvents(endpoint.bits, keys),
                          [endpoint EXCEPT !.bits = keys, !.state = keys \cup mods])

(* Reports of the other kinds are not looked at while nobody listens. *)
Listened(kind) == Registered(kind) # <<>>

(* espUsbHostParseConsumerControlReport, ...SystemControlReport: a usage   *)
(* is pressed, or the one before is released.                              *)
UsageEvents(kind, old, new) ==
    IF new = old THEN <<>>
    ELSE IF new # NoKey THEN <<Event(kind, {new}, {}, {})>> ELSE <<Event(kind, {}, {old}, {})>>
KeptUsageEvent(old, new) == IF new = NoKey THEN old ELSE new
KeptUsage(old, new) == new

HandleConsumerControl ==
    /\ Listened("consumer") /\ UNCHANGED caps
    /\ \E new \in InputUsages \cup {NoKey} :
          HandleReport(UsageEvents("consumer", endpoint.consumer, new),
                       [endpoint EXCEPT !.consumer = KeptUsage(@, new)])
HandleSystemControl ==
    /\ Listened("system") /\ UNCHANGED caps
    /\ \E new \in InputUsages \cup {NoKey} :
          HandleReport(UsageEvents("system", endpoint.system, new),
                       [endpoint EXCEPT !.system = KeptUsage(@, new)])

(* espUsbHostParseBootMouseReport: an event when it moved or a button did. *)
MouseEvents(old, new, moved) ==
    IF new = old /\ ~moved THEN <<>> ELSE <<Event("mouse", new \ old, old \ new, {})>>
HandleMouse ==
    /\ Listened("mouse") /\ UNCHANGED caps
    /\ \E new \in SUBSET Buttons, moved \in BOOLEAN :
          HandleReport(MouseEvents(endpoint.buttons, new, moved), [endpoint EXCEPT !.buttons = new])

(* espUsbHostParseGamepadReport: any change, but not a first neutral one. *)
GamepadEvents(old, new) ==
    IF new = old \/ (old = "none" /\ new = "neutral") THEN <<>> ELSE <<Event("gamepad", {}, {}, {})>>
HandleGamepad ==
    /\ Listened("gamepad") /\ UNCHANGED caps
    /\ \E new \in {"neutral", "active"} :
          LET events == GamepadEvents(endpoint.gamepad, new) IN
          HandleReport(events, IF events = <<>> THEN endpoint ELSE [endpoint EXCEPT !.gamepad = new])

(* handleMidi: the messages of a transfer, told from one snapshot. *)
HandleMidi ==
    /\ Listened("midi") /\ UNCHANGED caps
    /\ \E messages \in 1..2 :
          HandleReport([i \in 1..messages |-> Event("midi", {}, {}, {})], endpoint)

-----------------------------------------------------------------------------
(* invokeHIDCallbacks: the next callback of the snapshot returns. *)
CallbackReturns ==
    /\ dispatch.pending # <<>>
    /\ dispatch' = [dispatch EXCEPT !.pending = Tail(@)]
    /\ UNCHANGED <<endpoint, bitmap, caps, registry, nextId, balance, told, counts>>

(* snapshotHIDCallbacks: the registry as it is now, for each event; a MIDI *)
(* transfer goes on with the one it took.                                  *)
SnapshotFor(event) == IF event.kind = "midi" THEN dispatch.snapshot ELSE Registered(event.kind)

NextInputEvent ==
    /\ dispatch.events # <<>> /\ dispatch.pending = <<>>
    /\ LET rest == Tail(dispatch.events) IN
       IF rest = <<>>
         THEN /\ endpoint' = dispatch.after /\ dispatch' = Quiet /\ UNCHANGED <<balance, told>>
         ELSE /\ dispatch' = [dispatch EXCEPT !.events = rest, !.pending = SnapshotFor(Head(rest))]
              /\ TellEvent(Head(rest)) /\ UNCHANGED endpoint
    /\ UNCHANGED <<bitmap, caps, registry, nextId, counts>>

(* allocateListenerIdLocked *)
InUse == UNION {ToSet(registry[k]) : k \in InputKinds}
After(id) == IF (id + 1) % IdModulus = 0 THEN 1 ELSE id + 1
FreeId == {id \in 1..(IdModulus - 1) : id \notin InUse}
FromNextId(id) == (id - nextId) % IdModulus
NewId == CHOOSE id \in FreeId : \A other \in FreeId : FromNextId(id) <= FromNextId(other)

(* addHIDListener *)
AddListener(kind) ==
    /\ Len(registry[kind]) < ListenerLimit /\ FreeId # {} /\ counts.listeners < MaxListeners
    /\ registry' = [registry EXCEPT ![kind] = Append(@, NewId)]
    /\ nextId' = After(NewId)
    /\ counts' = [counts EXCEPT !.listeners = @ + 1]
    /\ UNCHANGED <<endpoint, bitmap, caps, dispatch, balance, told>>

(* removeListener: the first registry that has the id gives it up. *)
RemoveListener(id) ==
    /\ id \in InUse
    /\ \E kind \in InputKinds :
          /\ id \in ToSet(registry[kind])
          /\ registry' = [registry EXCEPT ![kind] = SelectSeq(@, LAMBDA other : other # id)]
    /\ UNCHANGED <<endpoint, bitmap, caps, nextId, dispatch, balance, told, counts>>

(* resetDeviceState: another device has the slot next. *)
Replugged ==
    /\ dispatch.events = <<>> /\ endpoint # NothingReported
    /\ endpoint' = NothingReported /\ bitmap' \in BOOLEAN /\ caps' = FALSE
    /\ balance' = [c \in Codes |-> 0] /\ told' = [state |-> {}, caps |-> FALSE]
    /\ UNCHANGED <<registry, nextId, dispatch, counts>>

InputNext ==
    \/ HandleKeyboard \/ HandleKeyboardBitmap \/ HandleConsumerControl \/ HandleSystemControl
    \/ HandleMouse \/ HandleGamepad \/ HandleMidi
    \/ CallbackReturns \/ NextInputEvent \/ Replugged
    \/ \E kind \in InputKinds : AddListener(kind)
    \/ \E id \in 1..(IdModulus - 1) : RemoveListener(id)

InputSpec == InputInit /\ [][InputNext]_inputVars

-----------------------------------------------------------------------------
(* Between reports, an application that adds up the key events and the     *)
(* changes of the key state it was told has exactly what the keyboard      *)
(* reported, each key as often, and the lock is where the presses put it.  *)
KeysFollowReports ==
    dispatch.events = <<>> =>
        /\ \A k \in KeyCodes :
              balance[k] = Cardinality({s \in 1..KeySlots : endpoint.keys[s] = k})
                           + Cardinality(endpoint.bits \cap {k})
        /\ told.state = endpoint.state
        /\ told.caps = caps

(* However often there was nobody to listen, a release told of a usage or  *)
(* a button is the release of a press that was told.                       *)
ReleasesArePaired == \A c \in InputUsages \cup Buttons : balance[c] >= 0
===============================================================================
