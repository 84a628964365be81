----------------------- MODULE TransportSession_proofs -----------------------
(***************************************************************************)
(* Proofs about the transport session: every operation is reported once    *)
(* and belongs to one place, the runner goes on only after its own report, *)
(* and over a connection with an unknown outcome nothing is sent any more. *)
(***************************************************************************)
EXTENDS TransportSession, TLAPS

Runners ==
  [pc : {"idle", "generation", "gate", "control", "check", "serial", "wait", "pause", "finish"},
   gen : Generations, step : 0 .. PreinitSteps + CoreSteps + 1, token : Tokens, active : BOOLEAN]
Devices == [present : BOOLEAN, connected : BOOLEAN, gen : Generations, blocked : BOOLEAN]
SlotRecords == [state : {"Free", "Inflight"}, active : BOOLEAN, token : Tokens]
Rings ==
  [slots : [0 .. Capacity - 1 -> Events], head : 0 .. Capacity - 1, tail : 0 .. Capacity - 1,
   sticky : BOOLEAN]
Pushes == [stage : {"none", "begun", "loaded"}, head : 0 .. Capacity - 1, event : Events]
Policies == [gen : Generations, finished : BOOLEAN, due : BOOLEAN]

SessionTypes ==
  /\ device \in Devices /\ slot \in SlotRecords /\ ring \in Rings
  /\ push \in [Producers -> Pushes] /\ runner \in Runners /\ policy \in Policies
  /\ usb \in {"ready", "unblock", "state", "gone", "free"}
  /\ retired \subseteq Tokens /\ ep0 \subseteq Operations
  /\ nextOp \in Operations /\ noticed \in BOOLEAN

\* The runner is in an attempt that it has not given up.
Attempting == runner.pc \in {"control", "check", "serial", "wait", "pause"}

Waiting == runner.pc \in {"wait", "pause"}

HistoryTypes ==
  /\ history.terminal \in [Operations -> Nat] /\ history.unknown \subseteq Generations
  /\ history = [terminal |-> history.terminal, reported |-> history.reported,
                unknown |-> history.unknown]

\* The operations an attempt may still submit have numbers left; that is the
\* model's bound.  A session is active behind the core's steps only.
NumbersLeft ==
  LET steps == PreinitSteps + CoreSteps
  IN  /\ nextOp >= 1
      /\ runner.pc = "control" => runner.step < steps
      /\ runner.pc = "serial" => nextOp <= MaxOperation /\ runner.step >= steps
      /\ runner.active => runner.step >= steps
      /\ runner.pc \in {"idle", "generation", "gate"} => ~runner.active
      /\ runner.pc \in {"control", "check"} /\ runner.step < steps =>
           nextOp + (steps - runner.step) <= MaxOperation
      /\ Waiting /\ runner.step < steps =>
           nextOp + (steps - runner.step) <= MaxOperation + 1

\* A token is that of one operation, which was submitted.
TokensDistinct ==
  /\ \A id \in Operations : id >= nextOp => history.terminal[id] = 0
  /\ slot.active => slot.token.id < nextOp
  /\ \A token \in retired : token.id < nextOp
  /\ \A t, u \in retired : t.id = u.id => t = u
  /\ slot.active => \A token \in retired : token.id # slot.token.id

TokenInv == SessionTypes /\ HistoryTypes /\ NumbersLeft /\ TokensDistinct /\ OneTerminalEvent /\ TokensNotShared

\* Nothing on its way to the runner reports complete what was not.
Truthful(event, reported) ==
  event.kind = "Completion" /\ event.status = "Completed" =>
    event.token.id = 0 \/ event.token.id \in reported

ReportsTruthful ==
  /\ \A i \in 0 .. Capacity - 1 : Truthful(ring.slots[i], history.reported)
  /\ \A p \in Producers : Truthful(push[p].event, history.reported)
  /\ runner.token.id < nextOp
  /\ Waiting => runner.token.id >= 1 /\ runner.token.gen = runner.gen

\* The callbacks publish a new connection behind the generation's back, but the
\* runner has noticed the end of the one before by then.
ConnectionKnown ==
  /\ ~device.present /\ usb # "gone" => ~device.connected
  /\ usb \in {"unblock", "state"} => device.present /\ ~device.connected /\ noticed
  /\ usb = "gone" => ~device.present
  /\ ~device.connected /\ noticed => runner.pc # "generation"
  /\ runner.gen <= device.gen /\ runner.token.gen <= device.gen
  /\ usb \in {"unblock", "state"} => runner.gen < device.gen /\ runner.token.gen < device.gen

UnknownIsBlocked ==
  /\ \A g \in history.unknown : g <= device.gen
  /\ usb \in {"unblock", "state"} => device.gen \notin history.unknown
  /\ device.gen \in history.unknown =>
       device.blocked /\ (Attempting => runner.gen # device.gen)

OrderInv == ReportsTruthful /\ ConnectionKnown /\ UnknownIsBlocked
-----------------------------------------------------------------------------
(***************************************************************************)
(* Types                                                                   *)
(***************************************************************************)

LEMMA SlotsOfTheRing ==
  /\ 0 \in 0 .. Capacity - 1
  /\ \A i \in 0 .. Capacity - 1 : NextSlot(i) \in 0 .. Capacity - 1
BY CapacityAssumption DEF NextSlot

LEMMA FirstTokens ==
  /\ 0 \in Generations /\ 0 \in Operations /\ 1 \in Operations
  /\ NoToken \in Tokens /\ NoEvent \in Events /\ NoPush \in Pushes
  /\ NoToken.id = 0 /\ NoEvent.token = NoToken
<1>1. 0 \in Generations /\ 0 \in Operations /\ 1 \in Operations
  BY BoundsAssumption DEF Generations, Operations
<1>2. NoToken \in Tokens /\ NoToken.id = 0
  BY <1>1 DEF NoToken, Tokens
<1>3. NoEvent \in Events /\ NoEvent.token = NoToken
  BY <1>2 DEF NoEvent, Events, Statuses
<1>4. NoPush \in Pushes
  BY <1>3, SlotsOfTheRing DEF NoPush, Pushes
<1> QED
  BY <1>1, <1>2, <1>3, <1>4

LEMMA Initially == Init => TokenInv /\ OrderInv
<1> SUFFICES ASSUME Init PROVE TokenInv /\ OrderInv
  OBVIOUS
<1>1. SessionTypes
  <2>1. device \in Devices /\ slot \in SlotRecords /\ policy \in Policies
    BY FirstTokens DEF Init, Devices, SlotRecords, Policies
  <2>2. ring \in Rings /\ push \in [Producers -> Pushes]
    BY FirstTokens, SlotsOfTheRing DEF Init, Rings
  <2>3. runner \in Runners
    <3>1. 0 \in 0 .. PreinitSteps + CoreSteps + 1
      BY StepsAssumption
    <3> QED
      BY <3>1, FirstTokens DEF Init, Runners
  <2> QED
    BY <2>1, <2>2, <2>3, FirstTokens DEF Init, SessionTypes
<1>2. HistoryTypes
  BY DEF Init, HistoryTypes
<1>3. NumbersLeft /\ TokensDistinct /\ OneTerminalEvent /\ TokensNotShared
  BY DEF Init, NumbersLeft, Waiting, TokensDistinct, OneTerminalEvent, TokensNotShared
<1>4. ReportsTruthful
  <2>1. \A i \in 0 .. Capacity - 1 : ring.slots[i] = NoEvent
    BY DEF Init
  <2>2. \A p \in Producers : push[p].event = NoEvent
    BY DEF Init, NoPush
  <2>3. runner.token = NoToken /\ ~Waiting /\ nextOp = 1
    BY DEF Init, Waiting
  <2> QED
    BY <2>1, <2>2, <2>3, FirstTokens DEF ReportsTruthful, Truthful
<1>5. ConnectionKnown /\ UnknownIsBlocked
  BY FirstTokens DEF Init, ConnectionKnown, UnknownIsBlocked, NoToken
<1> QED
  BY <1>1, <1>2, <1>3, <1>4, <1>5 DEF TokenInv, OrderInv

-----------------------------------------------------------------------------
(***************************************************************************)
(* The ring and the reports                                                *)
(***************************************************************************)

LEMMA Begins ==
  ASSUME push \in [Producers -> Pushes], NEW p \in Producers, NEW event \in Events, Begin(p, event)
  PROVE  /\ push' \in [Producers -> Pushes] /\ push'[p].event = event
         /\ \A q \in Producers \ {p} : push'[q] = push[q]
<1>1. PICK begun : begun = [NoPush EXCEPT !.stage = "begun", !.event = event]
  OBVIOUS
<1>2. begun \in Pushes /\ begun.event = event
  <2>1. begun = [stage |-> "begun", head |-> 0, event |-> event]
    BY <1>1 DEF NoPush
  <2> QED
    BY <2>1, SlotsOfTheRing DEF Pushes
<1> QED
  BY <1>1, <1>2 DEF Begin

\* A report counts for its operation, and tells the truth.
LEMMA Emits ==
  ASSUME SessionTypes, HistoryTypes, ReportsTruthful, NEW p \in Producers, NEW token \in Tokens,
         NEW status \in Statuses, Emit(p, token, status)
  PROVE  /\ push' \in [Producers -> Pushes] /\ HistoryTypes'
         /\ history'.terminal = [history.terminal EXCEPT ![token.id] = @ + 1]
         /\ history.reported \subseteq history'.reported
         /\ history'.unknown = history.unknown
         /\ \A q \in Producers : Truthful(push'[q].event, history'.reported)
<1> DEFINE event == [kind |-> "Completion", status |-> status, token |-> token]
<1>1. event \in Events /\ event.token = token /\ event.status = status
  BY DEF Events
<1>2. push' \in [Producers -> Pushes] /\ push'[p].event = event
      /\ \A q \in Producers \ {p} : push'[q] = push[q]
  BY <1>1, Begins DEF Emit, SessionTypes
<1>3. history' = [history EXCEPT
          !.terminal[token.id] = @ + 1,
          !.reported = IF status = "Completed" THEN @ \union {token.id} ELSE @]
  BY DEF Emit
<1>4. /\ history'.terminal = [history.terminal EXCEPT ![token.id] = @ + 1]
      /\ history'.reported = IF status = "Completed" THEN history.reported \union {token.id}
                                                     ELSE history.reported
      /\ history'.unknown = history.unknown
      /\ history' = [terminal |-> history'.terminal, reported |-> history'.reported,
                     unknown |-> history'.unknown]
  BY <1>3 DEF HistoryTypes
<1>5. token.id \in Operations
  BY DEF Tokens
<1>6. HistoryTypes'
  BY <1>4, <1>5 DEF HistoryTypes
<1>7. \A q \in Producers : Truthful(push'[q].event, history'.reported)
  <2> HIDE DEF event
  <2> SUFFICES ASSUME NEW q \in Producers PROVE Truthful(push'[q].event, history'.reported)
    OBVIOUS
  <2>1. CASE q = p
    BY <1>1, <1>2, <1>4, <2>1 DEF Truthful
  <2>2. CASE q # p
    BY <1>2, <1>4, <2>2 DEF Truthful, ReportsTruthful
  <2> QED
    BY <2>1, <2>2
<1> QED
  BY <1>2, <1>4, <1>6, <1>7

\* A push moves an event from its producer into the ring.
LEMMA Pushing ==
  ASSUME TokenInv, OrderInv, NEW p \in Producers, Push(p)
  PROVE  TokenInv' /\ OrderInv'
<1> USE DEF TokenInv, OrderInv
<1>1. UNCHANGED <<device, usb, slot, retired, ep0, runner, policy, nextOp, noticed, history>>
  BY DEF Push, PushLoad, PushStore
<1>2. /\ ring' \in Rings /\ push' \in [Producers -> Pushes]
      /\ \A i \in 0 .. Capacity - 1 : Truthful(ring'.slots[i], history.reported)
      /\ \A q \in Producers : Truthful(push'[q].event, history.reported)
  <2>1. NoPush \in Pushes /\ Truthful(NoPush.event, history.reported)
    BY FirstTokens DEF NoPush, Truthful
  <2>2. ring \in Rings /\ push \in [Producers -> Pushes] /\ push[p] \in Pushes
    BY DEF SessionTypes
  <2>3. CASE PushLoad(p) /\ NextSlot(ring.head) = ring.tail
    <3>1. ring' = [ring EXCEPT !.sticky = TRUE] /\ push' = [push EXCEPT ![p] = NoPush]
      BY <2>3 DEF PushLoad
    <3>2. ring' \in Rings /\ ring'.slots = ring.slots
      BY <2>2, <3>1 DEF Rings
    <3> QED
      BY <2>1, <2>2, <3>1, <3>2 DEF ReportsTruthful
  <2>4. CASE PushLoad(p) /\ NextSlot(ring.head) # ring.tail
    <3>1. push' = [push EXCEPT ![p].stage = "loaded", ![p].head = ring.head] /\ UNCHANGED ring
      BY <2>4 DEF PushLoad
    <3>2. PICK loaded : loaded = [push[p] EXCEPT !.stage = "loaded", !.head = ring.head]
      OBVIOUS
    <3>3. push' = [push EXCEPT ![p] = loaded]
      BY <2>2, <3>1, <3>2
    <3>4. loaded \in Pushes /\ loaded.event = push[p].event
      BY <2>2, <3>2 DEF Pushes, Rings
    <3> QED
      BY <2>2, <3>1, <3>3, <3>4 DEF ReportsTruthful
  <2>5. CASE PushStore(p)
    <3>1. PICK h \in 0 .. Capacity - 1, event \in Events : h = push[p].head /\ event = push[p].event
      BY <2>2 DEF Pushes
    <3>2. PICK next \in 0 .. Capacity - 1 : next = NextSlot(h)
      BY SlotsOfTheRing
    <3>3. ring' = [ring EXCEPT !.slots = [ring.slots EXCEPT ![h] = event], !.head = next]
          /\ push' = [push EXCEPT ![p] = NoPush]
      BY <2>2, <2>5, <3>1, <3>2 DEF PushStore
    <3>4. ring' \in Rings /\ ring'.slots = [ring.slots EXCEPT ![h] = event]
      BY <2>2, <3>3 DEF Rings
    <3>5. ring.slots \in [0 .. Capacity - 1 -> Events]
      BY <2>2 DEF Rings
    <3> QED
      BY <2>1, <2>2, <3>1, <3>3, <3>4, <3>5 DEF ReportsTruthful
  <2> QED
    BY <2>3, <2>4, <2>5 DEF Push
<1>3. SessionTypes'
  BY <1>1, <1>2 DEF SessionTypes
<1>4. HistoryTypes' /\ NumbersLeft' /\ TokensDistinct' /\ OneTerminalEvent' /\ TokensNotShared'
  BY <1>1 DEF HistoryTypes, NumbersLeft, TokensDistinct, OneTerminalEvent, TokensNotShared, Waiting
<1>5. ReportsTruthful'
  BY <1>1, <1>2 DEF ReportsTruthful, Waiting
<1>6. ConnectionKnown' /\ UnknownIsBlocked'
  BY <1>1 DEF ConnectionKnown, UnknownIsBlocked, Attempting
<1> QED
  BY <1>3, <1>4, <1>5, <1>6

-----------------------------------------------------------------------------
(***************************************************************************)
(* The client task                                                         *)
(***************************************************************************)

\* What a step that leaves operations and runner alone has to say.
LEMMA OperationsStay ==
  ASSUME TokenInv, SessionTypes', UNCHANGED <<runner, nextOp, slot, retired, history>>
  PROVE  TokenInv'
BY DEF TokenInv, HistoryTypes, NumbersLeft, TokensDistinct, OneTerminalEvent, TokensNotShared, Waiting

LEMMA ReportsStay ==
  ASSUME OrderInv, UNCHANGED <<ring, push, runner, nextOp, history>>
  PROVE  ReportsTruthful'
BY DEF OrderInv, ReportsTruthful, Waiting

LEMMA DeviceFields ==
  ASSUME SessionTypes
  PROVE  /\ device.present \in BOOLEAN /\ device.connected \in BOOLEAN
         /\ device.gen \in Generations /\ device.gen \in Nat /\ device.blocked \in BOOLEAN
         /\ runner.gen \in Nat /\ runner.token.gen \in Nat /\ runner.token.id \in Nat
         /\ nextOp \in Nat
BY BoundsAssumption DEF SessionTypes, Devices, Runners, Tokens, Generations, Operations

LEMMA Connecting ==
  ASSUME TokenInv, OrderInv, Connected
  PROVE  TokenInv' /\ OrderInv'
<1> USE DEF TokenInv, OrderInv
<1>1. /\ ~device.present /\ usb = "ready" /\ usb' = "unblock" /\ noticed
      /\ UNCHANGED <<slot, retired, ep0, ring, push, runner, policy, nextOp, noticed, history>>
      /\ device.gen < MaxGeneration /\ device' = [device EXCEPT !.present = TRUE, !.gen = @ + 1]
  BY DEF Connected, At
<1>2. device' \in Devices /\ device'.present = TRUE /\ device'.gen = device.gen + 1
      /\ device'.connected = device.connected
  <2>1. device.gen + 1 \in Generations
    BY <1>1, DeviceFields, BoundsAssumption DEF Generations
  <2>2. device \in Devices
    BY DEF SessionTypes
  <2> QED
    BY <1>1, <2>1, <2>2 DEF Devices
<1>3. SessionTypes'
  BY <1>1, <1>2 DEF SessionTypes
<1>4. ConnectionKnown'
  BY <1>1, <1>2, DeviceFields DEF ConnectionKnown
<1>5. UnknownIsBlocked'
  <2>1. \A g \in history.unknown : g <= device.gen
    BY DEF UnknownIsBlocked
  <2>2. device.gen + 1 \notin history.unknown
    BY <2>1, DeviceFields
  <2>3. history.unknown \subseteq Nat
    BY DEF HistoryTypes, Generations
  <2> QED
    BY <1>1, <1>2, <2>1, <2>2, <2>3, DeviceFields DEF UnknownIsBlocked
<1> QED
  BY <1>1, <1>3, <1>4, <1>5, OperationsStay, ReportsStay

LEMMA Publishing ==
  ASSUME TokenInv, OrderInv, Unblock \/ PublishConnected
  PROVE  TokenInv' /\ OrderInv'
<1> USE DEF TokenInv, OrderInv
<1>1. /\ usb \in {"unblock", "state"} /\ usb' \in {"ready", "state"}
      /\ UNCHANGED <<slot, retired, ep0, ring, push, runner, policy, nextOp, noticed, history>>
  BY DEF Unblock, PublishConnected, At
<1>2. /\ device' \in Devices /\ device'.present = device.present /\ device'.gen = device.gen
      /\ usb' = "state" => device'.connected = device.connected
      /\ usb' = "ready" => device'.connected = TRUE
  <2>1. device \in Devices
    BY DEF SessionTypes
  <2>2. CASE Unblock
    <3>1. device' = [device EXCEPT !.blocked = FALSE] /\ usb' = "state"
      BY <2>2 DEF Unblock
    <3> QED
      BY <2>1, <3>1 DEF Devices
  <2>3. CASE PublishConnected
    <3>1. device' = [device EXCEPT !.connected = TRUE] /\ usb' = "ready"
      BY <2>3 DEF PublishConnected
    <3> QED
      BY <2>1, <3>1 DEF Devices
  <2> QED
    BY <2>2, <2>3
<1>3. SessionTypes'
  BY <1>1, <1>2 DEF SessionTypes
<1>4. ConnectionKnown'
  BY <1>1, <1>2 DEF ConnectionKnown
<1>5. UnknownIsBlocked'
  BY <1>1, <1>2 DEF UnknownIsBlocked
<1> QED
  BY <1>1, <1>3, <1>4, <1>5, OperationsStay, ReportsStay

LEMMA GoingAway ==
  ASSUME TokenInv, OrderInv, Gone
  PROVE  TokenInv' /\ OrderInv'
<1> USE DEF TokenInv, OrderInv
<1>1. /\ usb = "ready" /\ usb' = "gone"
      /\ UNCHANGED <<ring, push, runner, policy, nextOp, noticed, history>>
      /\ device' = [device EXCEPT !.present = FALSE] /\ ep0' = {}
      /\ retired' = (IF slot.active THEN retired \union {slot.token} ELSE retired)
      /\ slot' = [state |-> "Free", active |-> FALSE, token |-> NoToken]
  BY DEF Gone, At
<1>2. device' \in Devices /\ device'.present = FALSE /\ device'.gen = device.gen
      /\ device'.connected = device.connected /\ device'.blocked = device.blocked
  BY <1>1 DEF SessionTypes, Devices
<1>3. slot' \in SlotRecords /\ slot'.active = FALSE
  BY <1>1, FirstTokens DEF SlotRecords
<1>4. slot.token \in Tokens
  BY DEF SessionTypes, SlotRecords
<1>5. SessionTypes'
  BY <1>1, <1>2, <1>3, <1>4 DEF SessionTypes
<1>6. HistoryTypes' /\ NumbersLeft' /\ OneTerminalEvent'
  BY <1>1 DEF HistoryTypes, NumbersLeft, OneTerminalEvent, Waiting
<1>7. TokensDistinct' /\ TokensNotShared'
  BY <1>1, <1>3 DEF TokensDistinct, TokensNotShared
<1>8. ConnectionKnown' /\ UnknownIsBlocked'
  BY <1>1, <1>2 DEF ConnectionKnown, UnknownIsBlocked, Attempting
<1> QED
  BY <1>1, <1>5, <1>6, <1>7, <1>8, ReportsStay

LEMMA PublishingGone ==
  ASSUME TokenInv, OrderInv, PublishGone
  PROVE  TokenInv' /\ OrderInv'
<1> USE DEF TokenInv, OrderInv
<1> DEFINE event == [kind |-> "Disconnect", status |-> "Completed", token |-> [id |-> 0, gen |-> device.gen]]
<1>1. /\ usb = "gone" /\ usb' = "ready" /\ noticed' = FALSE
      /\ UNCHANGED <<slot, retired, ep0, ring, runner, policy, nextOp, history>>
      /\ device' = [device EXCEPT !.connected = FALSE] /\ Begin("usb", event)
  BY DEF PublishGone, At
<1>2. device' \in Devices /\ device'.present = device.present /\ device'.gen = device.gen
      /\ device'.connected = FALSE /\ device'.blocked = device.blocked
  BY <1>1 DEF SessionTypes, Devices
<1>3. event \in Events /\ Truthful(event, history.reported)
  <2>1. [id |-> 0, gen |-> device.gen] \in Tokens
    BY FirstTokens, DeviceFields DEF Tokens
  <2> QED
    BY <2>1 DEF Events, Statuses, Truthful
<1>4. push' \in [Producers -> Pushes] /\ push'["usb"].event = event
      /\ \A q \in Producers \ {"usb"} : push'[q] = push[q]
  <2>1. "usb" \in Producers /\ push \in [Producers -> Pushes]
    BY DEF SessionTypes, Producers
  <2> QED
    BY <1>1, <1>3, <2>1, Begins
<1> HIDE DEF event
<1>5. SessionTypes'
  BY <1>1, <1>2, <1>4 DEF SessionTypes
<1>6. ReportsTruthful'
  <2>1. \A q \in Producers : Truthful(push'[q].event, history.reported)
    BY <1>3, <1>4 DEF ReportsTruthful
  <2> QED
    BY <1>1, <2>1 DEF ReportsTruthful, Waiting
<1>7. ConnectionKnown' /\ UnknownIsBlocked'
  BY <1>1, <1>2 DEF ConnectionKnown, UnknownIsBlocked, Attempting
<1> QED
  BY <1>1, <1>5, <1>6, <1>7, OperationsStay

LEMMA Freeing ==
  ASSUME TokenInv, OrderInv, FreeSlot \/ ControlDone \/ RetryDue
  PROVE  TokenInv' /\ OrderInv'
<1> USE DEF TokenInv, OrderInv
<1>1. /\ UNCHANGED <<device, retired, ring, push, runner, nextOp, noticed, history>>
      /\ usb' = usb \/ (usb = "free" /\ usb' = "ready")
  BY DEF FreeSlot, ControlDone, RetryDue, At
<1>2. slot' \in SlotRecords /\ slot'.active = slot.active /\ slot'.token = slot.token
  <2>1. slot \in SlotRecords
    BY DEF SessionTypes
  <2>2. slot' = [slot EXCEPT !.state = "Free"] \/ slot' = slot
    BY DEF FreeSlot, ControlDone, RetryDue
  <2> QED
    BY <2>1, <2>2 DEF SlotRecords
<1>3. ep0' \subseteq Operations /\ policy' \in Policies
  BY DEF FreeSlot, ControlDone, RetryDue, SessionTypes, Policies
<1>4. SessionTypes'
  BY <1>1, <1>2, <1>3 DEF SessionTypes
<1>5. HistoryTypes' /\ NumbersLeft' /\ OneTerminalEvent' /\ TokensDistinct' /\ TokensNotShared'
  BY <1>1, <1>2 DEF HistoryTypes, NumbersLeft, OneTerminalEvent, Waiting, TokensDistinct, TokensNotShared
<1>6. ConnectionKnown' /\ UnknownIsBlocked'
  BY <1>1 DEF ConnectionKnown, UnknownIsBlocked, Attempting
<1> QED
  BY <1>1, <1>4, <1>5, <1>6, ReportsStay

\* A transfer ends: its operation is reported, and its token is in no place
\* any more.
LEMMA Ending ==
  ASSUME TokenInv, OrderInv, SerialDone \/ RetiredDone
  PROVE  TokenInv' /\ OrderInv'
<1> USE DEF TokenInv, OrderInv
<1>1. PICK token \in Tokens, status \in Statuses :
         /\ Emit("usb", token, status)
         /\ \/ /\ slot.active /\ token = slot.token /\ slot' = [slot EXCEPT !.active = FALSE]
               /\ retired' = retired /\ usb' = "free"
            \/ /\ token \in retired /\ retired' = retired \ {token}
               /\ UNCHANGED <<slot, usb>>
  <2>1. slot.token \in Tokens /\ retired \subseteq Tokens
    BY DEF SessionTypes, SlotRecords
  <2> QED
    BY <2>1 DEF SerialDone, RetiredDone
<1>2. UNCHANGED <<device, ep0, ring, runner, policy, nextOp, noticed>> /\ usb = "ready"
  BY DEF SerialDone, RetiredDone, At
<1>3. /\ push' \in [Producers -> Pushes] /\ HistoryTypes'
      /\ history'.terminal = [history.terminal EXCEPT ![token.id] = @ + 1]
      /\ history.reported \subseteq history'.reported
      /\ history'.unknown = history.unknown
      /\ \A q \in Producers : Truthful(push'[q].event, history'.reported)
  BY <1>1, Emits DEF Producers
<1>4. /\ slot' \in SlotRecords /\ slot'.token = slot.token
      /\ slot'.active => slot.active /\ slot' = slot /\ token \in retired /\ retired' = retired \ {token}
      /\ retired' \subseteq retired /\ token \notin retired'
      /\ ~slot'.active => retired' = retired \/ retired' = retired \ {token}
  <2>1. slot \in SlotRecords
    BY DEF SessionTypes
  <2>2. slot.active => slot.token \notin retired
    BY DEF TokensNotShared
  <2> QED
    BY <1>1, <2>1, <2>2 DEF SlotRecords
<1>5. SessionTypes'
  <2>1. usb' \in {"ready", "unblock", "state", "gone", "free"}
    BY <1>1, <1>2
  <2> QED
    BY <1>2, <1>3, <1>4, <2>1 DEF SessionTypes
<1>6. /\ token.id \in Operations /\ history.terminal[token.id] = 0 /\ token.id < nextOp
      /\ history.terminal \in [Operations -> Nat]
  <2>1. token.id \in Operations
    BY DEF Tokens
  <2> QED
    BY <1>1, <2>1 DEF TokensDistinct, TokensNotShared, HistoryTypes
<1>7. /\ \A id \in Operations \ {token.id} : history'.terminal[id] = history.terminal[id]
      /\ history'.terminal[token.id] = 1
  BY <1>3, <1>6
<1>8. NumbersLeft' /\ OneTerminalEvent'
  BY <1>2, <1>6, <1>7 DEF NumbersLeft, Waiting, OneTerminalEvent
<1>9. TokensDistinct'
  <2>1. \A id \in Operations : id >= nextOp => history'.terminal[id] = 0
    BY <1>6, <1>7, DeviceFields DEF TokensDistinct, Operations
  <2> QED
    BY <1>2, <1>4, <2>1 DEF TokensDistinct
<1>10. TokensNotShared'
  <2>1. \A t \in retired' : t.id \in Operations /\ t.id # token.id
    BY <1>1, <1>4 DEF SessionTypes, Tokens, TokensDistinct
  <2>2. slot'.active => slot.token.id # token.id /\ slot.token.id \in Operations
    BY <1>4 DEF TokensDistinct, SessionTypes, SlotRecords, Tokens
  <2> QED
    BY <1>4, <1>7, <2>1, <2>2 DEF TokensNotShared
<1>11. ReportsTruthful'
  <2>1. \A i \in 0 .. Capacity - 1 : Truthful(ring.slots[i], history'.reported)
    BY <1>3 DEF ReportsTruthful, Truthful
  <2> QED
    BY <1>2, <1>3, <2>1 DEF ReportsTruthful, Waiting
<1>12. ConnectionKnown' /\ UnknownIsBlocked'
  BY <1>1, <1>2, <1>3 DEF ConnectionKnown, UnknownIsBlocked, Attempting
<1> QED
  BY <1>3, <1>5, <1>8, <1>9, <1>10, <1>11, <1>12

-----------------------------------------------------------------------------
(***************************************************************************)
(* The runner                                                              *)
(***************************************************************************)

\* The record of the runner, field by field.
At5(pc, gen, step, token, active) ==
  [pc |-> pc, gen |-> gen, step |-> step, token |-> token, active |-> active]

PCs == {"idle", "generation", "gate", "control", "check", "serial", "wait", "pause", "finish"}

LEMMA RunnerFields ==
  ASSUME SessionTypes
  PROVE  /\ runner = At5(runner.pc, runner.gen, runner.step, runner.token, runner.active)
         /\ runner.pc \in PCs /\ runner.gen \in Generations
         /\ runner.step \in 0 .. PreinitSteps + CoreSteps + 1 /\ runner.token \in Tokens
         /\ runner.active \in BOOLEAN
BY DEF SessionTypes, Runners, At5, PCs

LEMMA RunnerMade ==
  ASSUME NEW pc \in PCs, NEW gen \in Generations, NEW step \in 0 .. PreinitSteps + CoreSteps + 1,
         NEW token \in Tokens, NEW active \in BOOLEAN
  PROVE  At5(pc, gen, step, token, active) \in Runners
BY DEF Runners, At5, PCs

\* A step of the runner that submits nothing and gives nothing up.
LEMMA RunnerMoves ==
  ASSUME TokenInv, OrderInv,
         runner' \in Runners, runner'.token = runner.token,
         policy' \in Policies, ring' \in Rings, ring'.slots = ring.slots,
         noticed' = TRUE \/ noticed' = noticed,
         UNCHANGED <<device, usb, slot, retired, ep0, push, nextOp, history>>,
         NumbersLeft',
         runner'.pc = "generation" => device.connected,
         \/ runner'.gen = runner.gen
         \/ runner.pc = "generation" /\ runner'.gen = device.gen /\ runner'.pc = "gate",
         Waiting' => Waiting /\ runner'.gen = runner.gen,
         Attempting' => (Attempting /\ runner'.gen = runner.gen) \/ ~device.blocked
  PROVE  TokenInv' /\ OrderInv'
<1> USE DEF TokenInv, OrderInv
<1>1. SessionTypes'
  BY DEF SessionTypes
<1>2. HistoryTypes' /\ TokensDistinct' /\ OneTerminalEvent' /\ TokensNotShared'
  BY DEF HistoryTypes, TokensDistinct, OneTerminalEvent, TokensNotShared
<1>3. ReportsTruthful'
  BY DEF ReportsTruthful
<1>4. ConnectionKnown'
  BY DeviceFields DEF ConnectionKnown
<1>5. UnknownIsBlocked'
  BY DEF UnknownIsBlocked
<1> QED
  BY <1>1, <1>2, <1>3, <1>4, <1>5

LEMMA Reading ==
  ASSUME TokenInv, OrderInv, ReadState \/ ReadGeneration \/ Finish
  PROVE  TokenInv' /\ OrderInv'
<1> USE DEF TokenInv, OrderInv
<1>1. /\ UNCHANGED <<device, usb, slot, retired, ep0, ring, push, nextOp, history>>
      /\ noticed' = TRUE \/ noticed' = noticed
      /\ runner.pc \in {"idle", "generation", "finish"}
  BY DEF ReadState, ReadGeneration, Finish, RunnerAt
<1>2. ring' \in Rings /\ policy' \in Policies
  BY <1>1 DEF SessionTypes, ReadState, ReadGeneration, Finish, Policies
<1>3. PICK pc \in PCs, gen \in Generations, active \in BOOLEAN :
         /\ runner' = At5(pc, gen, runner.step, runner.token, active)
         /\ pc \in {"idle", "generation", "gate"}
         /\ pc = "generation" => device.connected
         /\ gen = runner.gen \/ (runner.pc = "generation" /\ gen = device.gen /\ pc = "gate")
         /\ (active = runner.active /\ runner.pc \in {"idle", "generation"}) \/ active = FALSE
  <2>1. CASE ReadState
    <3>1. CASE device.connected
      <4>1. runner' = At5("generation", runner.gen, runner.step, runner.token, runner.active)
            /\ runner.pc = "idle"
        BY <2>1, <3>1, RunnerFields DEF ReadState, RunnerAt, Goto, At5
      <4> QED
        BY <3>1, <4>1, RunnerFields DEF PCs
    <3>2. CASE ~device.connected
      <4>1. runner' = At5("idle", runner.gen, runner.step, runner.token, runner.active)
            /\ runner.pc = "idle"
        BY <2>1, <3>2, RunnerFields DEF ReadState, RunnerAt, At5
      <4> QED
        BY <3>2, <4>1, RunnerFields DEF PCs
    <3> QED
      BY <3>1, <3>2
  <2>2. CASE ReadGeneration
    <3>1. runner' = At5("gate", device.gen, runner.step, runner.token, runner.active)
          /\ runner.pc = "generation"
      BY <2>2, RunnerFields DEF ReadGeneration, RunnerAt, At5
    <3> QED
      BY <3>1, RunnerFields, DeviceFields DEF PCs
  <2>3. CASE Finish
    <3>1. runner' = At5("idle", runner.gen, runner.step, runner.token, FALSE)
      BY <2>3, RunnerFields DEF Finish, At5
    <3> QED
      BY <3>1, RunnerFields DEF PCs
  <2> QED
    BY <2>1, <2>2, <2>3
<1>4. /\ runner'.pc = pc /\ runner'.gen = gen /\ runner'.token = runner.token /\ runner' \in Runners
      /\ runner'.step = runner.step /\ runner'.active = active
  BY <1>3, RunnerFields, RunnerMade DEF At5
<1>5. ~Waiting' /\ ~Attempting'
  BY <1>3, <1>4 DEF Waiting, Attempting
<1>6. NumbersLeft'
  BY <1>1, <1>3, <1>4, <1>5 DEF NumbersLeft
<1> QED
  BY <1>1, <1>2, <1>3, <1>4, <1>5, <1>6, RunnerMoves

LEMMA Steps ==
  /\ PreinitSteps \in Nat /\ CoreSteps \in Nat /\ MaxOperation \in Nat
  /\ 0 \in 0 .. PreinitSteps + CoreSteps + 1
BY StepsAssumption, BoundsAssumption

LEMMA Gating ==
  ASSUME TokenInv, OrderInv, Gate
  PROVE  TokenInv' /\ OrderInv'
<1> USE DEF TokenInv, OrderInv
<1>1. /\ UNCHANGED <<device, usb, slot, retired, ep0, ring, push, nextOp, noticed, history>>
      /\ runner.pc = "gate"
  BY DEF Gate, RunnerAt
<1>2. ring' \in Rings
  BY <1>1 DEF SessionTypes
<1>3. policy' \in Policies
  <2>1. policy \in Policies /\ runner.gen \in Generations
    BY RunnerFields DEF SessionTypes
  <2>2. Noted(policy, runner.gen) \in Policies
    BY <2>1 DEF Noted, Policies
  <2> QED
    BY <2>1, <2>2 DEF Gate
<1>4. PICK pc \in PCs, step \in 0 .. PreinitSteps + CoreSteps + 1 :
         /\ runner' = At5(pc, runner.gen, step, runner.token, runner.active)
         /\ \/ pc = "idle"
            \/ /\ pc = (IF PreinitSteps > 0 THEN "control" ELSE "check")
               /\ step = 0 /\ Bounded /\ ~device.blocked
  <2>1. CASE Goto("idle")
    <3>1. runner' = At5("idle", runner.gen, runner.step, runner.token, runner.active)
      BY <2>1, RunnerFields DEF Goto, At5
    <3> QED
      BY <3>1, RunnerFields DEF PCs
  <2>2. CASE ~Goto("idle")
    <3>1. PICK pc : pc = (IF PreinitSteps > 0 THEN "control" ELSE "check")
      OBVIOUS
    <3>2. runner' = [runner EXCEPT !.step = 0, !.pc = pc] /\ Bounded /\ ~device.blocked
      BY <2>2, <3>1 DEF Gate
    <3>3. runner' = At5(pc, runner.gen, 0, runner.token, runner.active)
      BY <3>2, RunnerFields DEF At5
    <3>4. pc \in PCs
      BY <3>1 DEF PCs
    <3> QED
      BY <3>1, <3>2, <3>3, <3>4, Steps
  <2> QED
    BY <2>1, <2>2
<1>5. /\ runner'.pc = pc /\ runner'.gen = runner.gen /\ runner'.token = runner.token
      /\ runner'.step = step /\ runner'.active = runner.active /\ runner' \in Runners
  BY <1>4, RunnerFields, RunnerMade DEF At5
<1>6. ~Waiting' /\ (Attempting' => ~device.blocked) /\ runner'.pc # "generation"
  BY <1>4, <1>5 DEF Waiting, Attempting
<1>7. NumbersLeft'
  BY <1>1, <1>4, <1>5, <1>6, Steps, DeviceFields DEF NumbersLeft, Bounded
<1> QED
  BY <1>1, <1>2, <1>3, <1>5, <1>6, <1>7, RunnerMoves

LEMMA Checking ==
  ASSUME TokenInv, OrderInv, Check
  PROVE  TokenInv' /\ OrderInv'
<1> USE DEF TokenInv, OrderInv
<1>1. /\ UNCHANGED <<device, usb, slot, retired, ep0, ring, push, policy, nextOp, history>>
      /\ runner.pc = "check" /\ noticed' = TRUE
  BY DEF Check, RunnerAt
<1>2. ring' \in Rings /\ policy' \in Policies
  BY <1>1 DEF SessionTypes
<1>3. PICK pc \in {"control", "serial", "finish"} :
         /\ runner' = [runner EXCEPT !.pc = pc]
         /\ pc = "control" => runner.step < PreinitSteps + CoreSteps
         /\ pc = "serial" => nextOp <= MaxOperation /\ runner.step >= PreinitSteps + CoreSteps
  <2>1. runner.step \in Nat
    BY RunnerFields, Steps
  <2>2. runner.step < PreinitSteps + CoreSteps \/ runner.step >= PreinitSteps + CoreSteps
    BY <2>1, Steps
  <2> QED
    BY <2>2 DEF Check, Goto
<1>4. runner' = At5(pc, runner.gen, runner.step, runner.token, runner.active)
  BY <1>3, RunnerFields DEF At5
<1>5. /\ runner'.pc = pc /\ runner'.gen = runner.gen /\ runner'.token = runner.token
      /\ runner'.step = runner.step /\ runner'.active = runner.active /\ runner' \in Runners
  BY <1>3, <1>4, RunnerFields, RunnerMade DEF At5, PCs
<1>6. ~Waiting' /\ Attempting /\ runner'.pc # "generation"
  BY <1>1, <1>3, <1>5 DEF Waiting, Attempting
<1>7. NumbersLeft'
  BY <1>1, <1>3, <1>5, <1>6 DEF NumbersLeft
<1> QED
  BY <1>1, <1>2, <1>5, <1>6, <1>7, RunnerMoves

\* The runner takes the next token, with the operation it stands for.
LEMMA Taking ==
  ASSUME TokenInv, OrderInv, NEW accepted \in BOOLEAN, TakeToken(accepted),
         runner.pc \in {"control", "serial"}
  PROVE  /\ runner' \in Runners /\ runner'.token = Token /\ runner'.gen = runner.gen
         /\ runner'.step = runner.step /\ runner'.active = runner.active
         /\ runner'.pc = IF accepted THEN "wait" ELSE "finish"
         /\ Token \in Tokens /\ Token.id = nextOp /\ Token.gen = runner.gen
         /\ nextOp' = nextOp + 1 /\ nextOp' \in Operations /\ nextOp \in Nat /\ nextOp >= 1
         /\ history.terminal[nextOp] = 0 /\ nextOp \in Operations
         /\ NumbersLeft'
<1> USE DEF TokenInv, OrderInv
<1>1. PICK pc : pc = (IF accepted THEN "wait" ELSE "finish")
  OBVIOUS
<1>2. runner' = [runner EXCEPT !.token = Token, !.pc = pc] /\ nextOp' = nextOp + 1
  BY <1>1 DEF TakeToken
<1>3. runner' = At5(pc, runner.gen, runner.step, Token, runner.active)
  BY <1>2, RunnerFields DEF At5
<1>4. /\ nextOp \in Nat /\ nextOp >= 1 /\ nextOp <= MaxOperation
      /\ runner.step \in Nat /\ runner.gen \in Generations
      /\ runner.pc = "control" =>
           nextOp + ((PreinitSteps + CoreSteps) - runner.step) <= MaxOperation
  BY Steps, RunnerFields, DeviceFields DEF NumbersLeft
<1>5. nextOp \in Operations /\ nextOp' \in Operations
  BY <1>2, <1>4, Steps DEF Operations
<1>6. Token \in Tokens /\ Token.id = nextOp /\ Token.gen = runner.gen
  BY <1>4, <1>5 DEF Token, Tokens
<1>7. /\ runner'.pc = pc /\ runner'.gen = runner.gen /\ runner'.token = Token
      /\ runner'.step = runner.step /\ runner'.active = runner.active /\ runner' \in Runners
  BY <1>1, <1>3, <1>6, RunnerFields, RunnerMade DEF At5, PCs
<1>8. history.terminal[nextOp] = 0
  BY <1>4, <1>5 DEF TokensDistinct
<1>9. runner'.active => runner'.step >= PreinitSteps + CoreSteps
  BY <1>7 DEF NumbersLeft
<1>10. runner'.pc = "wait" /\ runner'.step < PreinitSteps + CoreSteps =>
          nextOp' + ((PreinitSteps + CoreSteps) - runner'.step) <= MaxOperation + 1
  BY <1>2, <1>4, <1>7, Steps DEF NumbersLeft
<1>11. NumbersLeft'
  BY <1>1, <1>2, <1>4, <1>7, <1>9, <1>10 DEF NumbersLeft, Waiting
<1> QED
  BY <1>1, <1>2, <1>4, <1>5, <1>6, <1>7, <1>8, <1>11

\* A control operation is reported as it is submitted.
LEMMA SubmittingControl ==
  ASSUME TokenInv, OrderInv, SubmitControl
  PROVE  TokenInv' /\ OrderInv'
<1> USE DEF TokenInv, OrderInv
<1>1. /\ UNCHANGED <<device, usb, slot, retired, ring, policy>> /\ runner.pc = "control"
      /\ noticed' = TRUE \/ noticed' = noticed
      /\ ep0' = ep0 \/ ep0' = ep0 \union {nextOp}
  BY DEF SubmitControl, RunnerAt
<1>2. PICK accepted \in BOOLEAN, status \in Statuses :
        TakeToken(accepted) /\ Emit("runner", Token, status)
  BY DEF SubmitControl, Statuses
<1>3. /\ runner' \in Runners /\ runner'.token = Token /\ runner'.gen = runner.gen
      /\ runner'.pc \in {"wait", "finish"}
      /\ Token \in Tokens /\ Token.id = nextOp /\ Token.gen = runner.gen
      /\ nextOp' = nextOp + 1 /\ nextOp' \in Operations /\ nextOp \in Nat /\ nextOp >= 1
      /\ history.terminal[nextOp] = 0 /\ nextOp \in Operations
      /\ NumbersLeft'
  BY <1>1, <1>2, Taking
<1>4. /\ push' \in [Producers -> Pushes] /\ HistoryTypes'
      /\ history'.terminal = [history.terminal EXCEPT ![Token.id] = @ + 1]
      /\ history.reported \subseteq history'.reported
      /\ history'.unknown = history.unknown
      /\ \A q \in Producers : Truthful(push'[q].event, history'.reported)
  BY <1>2, <1>3, Emits DEF Producers
<1>5. /\ history'.terminal[nextOp] = 1
      /\ \A id \in Operations \ {nextOp} : history'.terminal[id] = history.terminal[id]
  BY <1>3, <1>4 DEF HistoryTypes
<1>6. SessionTypes'
  BY <1>1, <1>3, <1>4 DEF SessionTypes
<1>7. OneTerminalEvent'
  BY <1>5 DEF OneTerminalEvent
<1>8. /\ \A token \in retired : token.id \in Operations /\ token.id \in Nat /\ token.id < nextOp
      /\ slot.active => slot.token.id \in Operations /\ slot.token.id \in Nat /\ slot.token.id < nextOp
  BY DEF SessionTypes, SlotRecords, Tokens, Operations, TokensDistinct
<1>9. TokensDistinct'
  <2>1. \A id \in Operations : id >= nextOp' => history'.terminal[id] = 0
    BY <1>3, <1>5 DEF TokensDistinct, Operations
  <2>2. /\ \A token \in retired : token.id < nextOp'
        /\ slot.active => slot.token.id < nextOp'
    BY <1>3, <1>8
  <2> QED
    BY <1>1, <2>1, <2>2 DEF TokensDistinct
<1>10. TokensNotShared'
  BY <1>1, <1>3, <1>5, <1>8 DEF TokensNotShared
<1>11. ReportsTruthful'
  <2>1. \A i \in 0 .. Capacity - 1 : Truthful(ring.slots[i], history'.reported)
    BY <1>4 DEF ReportsTruthful, Truthful
  <2> QED
    BY <1>1, <1>3, <1>4, <2>1 DEF ReportsTruthful, Waiting
<1>12. ConnectionKnown' /\ UnknownIsBlocked'
  BY <1>1, <1>3, <1>4 DEF ConnectionKnown, UnknownIsBlocked, Attempting
<1> QED
  BY <1>3, <1>4, <1>6, <1>7, <1>9, <1>10, <1>11, <1>12

LEMMA SubmittingSerial ==
  ASSUME TokenInv, OrderInv, SubmitSerial
  PROVE  TokenInv' /\ OrderInv'
<1> USE DEF TokenInv, OrderInv
<1>1. /\ UNCHANGED <<device, usb, retired, ep0, ring, push, policy, history>> /\ runner.pc = "serial"
      /\ noticed' = TRUE \/ noticed' = noticed
  BY DEF SubmitSerial, RunnerAt
<1>2. PICK accepted \in BOOLEAN : TakeToken(accepted)
  BY DEF SubmitSerial
<1>3. /\ runner' \in Runners /\ runner'.token = Token /\ runner'.gen = runner.gen
      /\ runner'.pc \in {"wait", "finish"}
      /\ Token \in Tokens /\ Token.id = nextOp /\ Token.gen = runner.gen
      /\ nextOp' = nextOp + 1 /\ nextOp' \in Operations /\ nextOp \in Nat /\ nextOp >= 1
      /\ history.terminal[nextOp] = 0 /\ nextOp \in Operations
      /\ NumbersLeft'
  BY <1>1, <1>2, Taking
<1>4. \/ slot' = slot
      \/ slot' \in SlotRecords /\ slot'.active /\ slot'.token = Token
  <2>1. CASE slot' = [state |-> "Inflight", active |-> TRUE, token |-> Token]
    BY <1>3, <2>1 DEF SlotRecords
  <2> QED
    BY <2>1 DEF SubmitSerial
<1>5. SessionTypes'
  BY <1>1, <1>3, <1>4 DEF SessionTypes
<1>6. /\ \A token \in retired : token.id \in Operations /\ token.id \in Nat /\ token.id < nextOp
      /\ slot.active => slot.token.id \in Operations /\ slot.token.id \in Nat /\ slot.token.id < nextOp
  BY DEF SessionTypes, SlotRecords, Tokens, Operations, TokensDistinct
<1>7. HistoryTypes' /\ OneTerminalEvent'
  BY <1>1 DEF HistoryTypes, OneTerminalEvent
<1>8. TokensDistinct'
  <2>1. \A id \in Operations : id >= nextOp' => history.terminal[id] = 0
    BY <1>3 DEF TokensDistinct, Operations
  <2>2. /\ \A token \in retired : token.id < nextOp' /\ token.id # nextOp
        /\ slot'.active => slot'.token.id < nextOp'
    BY <1>3, <1>4, <1>6
  <2> QED
    BY <1>1, <1>3, <1>4, <2>1, <2>2 DEF TokensDistinct
<1>9. TokensNotShared'
  BY <1>1, <1>3, <1>4, <1>6 DEF TokensNotShared
<1>10. ReportsTruthful'
  BY <1>1, <1>3 DEF ReportsTruthful, Waiting
<1>11. ConnectionKnown' /\ UnknownIsBlocked'
  BY <1>1, <1>3 DEF ConnectionKnown, UnknownIsBlocked, Attempting
<1> QED
  BY <1>3, <1>5, <1>7, <1>8, <1>9, <1>10, <1>11

\* The slot an answer is taken from.
LEMMA Popping ==
  ASSUME TokenInv, OrderInv, WaitPop
  PROVE  TokenInv' /\ OrderInv'
<1> USE DEF TokenInv, OrderInv
<1> DEFINE steps == PreinitSteps + CoreSteps
<1>1. /\ UNCHANGED <<device, usb, slot, retired, ep0, push, policy, nextOp, noticed, history>>
      /\ runner.pc = "wait" /\ ring' = [ring EXCEPT !.tail = NextSlot(ring.tail)]
  BY DEF WaitPop, RunnerAt
<1>2. ring' \in Rings /\ ring'.slots = ring.slots /\ policy' \in Policies
  <2>1. ring \in Rings /\ policy \in Policies
    BY DEF SessionTypes
  <2>2. NextSlot(ring.tail) \in 0 .. Capacity - 1
    BY <2>1, SlotsOfTheRing DEF Rings
  <2> QED
    BY <1>1, <2>1, <2>2 DEF Rings
<1>3. /\ runner.step \in Nat /\ runner.step <= steps + 1 /\ nextOp \in Nat /\ steps \in Nat
      /\ runner.active => runner.step >= steps
      /\ runner.step < steps => nextOp + (steps - runner.step) <= MaxOperation + 1
  BY <1>1, RunnerFields, DeviceFields, Steps DEF NumbersLeft, Waiting
<1>4. PICK pc \in {"finish", "wait", "control", "check", "serial"}, step \in 0 .. steps + 1,
           active \in BOOLEAN :
         /\ runner' = At5(pc, runner.gen, step, runner.token, active)
         /\ pc \in {"finish", "wait"} => step = runner.step /\ active = runner.active
         /\ pc \notin {"finish", "wait"} =>
              /\ step = IF runner.step <= steps THEN runner.step + 1 ELSE runner.step
              /\ (active = TRUE => runner.step >= steps)
         /\ pc = "control" => runner.step + 1 < PreinitSteps
         /\ pc = "serial" => runner.active /\ nextOp <= MaxOperation
  <2>1. runner.step \in 0 .. steps + 1 /\ runner.active \in BOOLEAN
    BY RunnerFields
  <2>2. CASE Goto("finish")
    <3>1. runner' = At5("finish", runner.gen, runner.step, runner.token, runner.active)
      BY <2>2, RunnerFields DEF Goto, At5
    <3> QED
      BY <2>1, <3>1
  <2>3. CASE UNCHANGED runner
    <3>1. runner' = At5("wait", runner.gen, runner.step, runner.token, runner.active)
      BY <1>1, <2>3, RunnerFields
    <3> QED
      BY <2>1, <3>1
  <2>4. CASE \E pc \in AfterCompleted(runner) :
               runner' = [runner EXCEPT
                    !.pc = pc, !.step = IF @ <= PreinitSteps + CoreSteps
                                        THEN @ + 1 ELSE @,
                    !.active = (runner.step >= PreinitSteps + CoreSteps)]
    <3>1. PICK pc \in AfterCompleted(runner) :
               runner' = [runner EXCEPT
                    !.pc = pc, !.step = IF runner.step <= PreinitSteps + CoreSteps
                                        THEN runner.step + 1 ELSE runner.step,
                    !.active = (runner.step >= PreinitSteps + CoreSteps)]
      BY <2>4
    <3>2. PICK step : step = IF runner.step <= steps THEN runner.step + 1 ELSE runner.step
      OBVIOUS
    <3>3. PICK active \in BOOLEAN :
             active = (runner.step >= steps) /\ (active = TRUE => runner.step >= steps)
      <4>1. CASE runner.step >= steps
        BY <4>1
      <4>2. CASE ~(runner.step >= steps)
        <5>1. (runner.step >= steps) = FALSE
          BY <4>2
        <5>2. FALSE \in BOOLEAN
          OBVIOUS
        <5> QED
          BY <5>1, <5>2
      <4> QED
        BY <4>1, <4>2
    <3>4. runner' = At5(pc, runner.gen, step, runner.token, active)
      BY <3>1, <3>2, <3>3, RunnerFields DEF At5
    <3>5. step \in 0 .. steps + 1
      BY <1>3, <3>2
    <3>6. /\ pc \in {"control", "check", "serial"}
          /\ pc = "control" => runner.step + 1 < PreinitSteps
          /\ pc = "serial" => runner.active /\ nextOp <= MaxOperation
      BY DEF AfterCompleted
    <3> QED
      BY <3>2, <3>3, <3>4, <3>5, <3>6
  <2> QED
    BY <2>2, <2>3, <2>4 DEF WaitPop
<1>5. pc \in PCs
  BY DEF PCs
<1>6. /\ runner'.pc = pc /\ runner'.gen = runner.gen /\ runner'.token = runner.token
      /\ runner'.step = step /\ runner'.active = active /\ runner' \in Runners
  BY <1>4, <1>5, RunnerFields, RunnerMade DEF At5
<1>7. /\ Waiting' => Waiting
      /\ Attempting
      /\ pc # "generation"
  BY <1>1, <1>6 DEF Waiting, Attempting
<1>8. NumbersLeft'
  <2>1. nextOp' = nextOp /\ nextOp >= 1
    BY <1>1 DEF NumbersLeft
  <2>2. pc = "control" => step < steps
    BY <1>3, <1>4, Steps
  <2>3. pc = "serial" => nextOp <= MaxOperation /\ step >= steps
    BY <1>3, <1>4
  <2>4. active => step >= steps
    <3>1. CASE pc \in {"finish", "wait"}
      BY <1>3, <1>4, <3>1
    <3>2. CASE pc \notin {"finish", "wait"} /\ active = TRUE
      BY <1>3, <1>4, <3>2
    <3> QED
      BY <3>1, <3>2
  <2>5. pc \in {"control", "check"} /\ step < steps => nextOp + (steps - step) <= MaxOperation
    BY <1>3, <1>4, Steps
  <2>6. pc = "wait" /\ step < steps => nextOp + (steps - step) <= MaxOperation + 1
    BY <1>3, <1>4
  <2> QED
    BY <1>6, <2>1, <2>2, <2>3, <2>4, <2>5, <2>6 DEF NumbersLeft, Waiting
<1> QED
  BY <1>1, <1>2, <1>6, <1>7, <1>8, RunnerMoves

\* A wait goes on, or is given up and the transport locked.
LEMMA WaitingOn ==
  ASSUME TokenInv, OrderInv, WaitEmpty \/ Pause
  PROVE  TokenInv' /\ OrderInv'
<1> USE DEF TokenInv, OrderInv
<1>1. /\ UNCHANGED <<usb, slot, retired, ep0, ring, push, policy, nextOp>>
      /\ noticed' = TRUE \/ noticed' = noticed
      /\ Waiting
  BY DEF WaitEmpty, Pause, RunnerAt, Waiting
<1>2. CASE UNCHANGED <<device, history>> /\ \E pc \in {"wait", "pause"} : Goto(pc)
  <2>1. PICK pc \in {"wait", "pause"} : runner' = [runner EXCEPT !.pc = pc]
    BY <1>2 DEF Goto
  <2>2. runner' = At5(pc, runner.gen, runner.step, runner.token, runner.active)
    BY <2>1, RunnerFields DEF At5
  <2>3. /\ runner'.pc = pc /\ runner'.gen = runner.gen /\ runner'.token = runner.token
        /\ runner'.step = runner.step /\ runner'.active = runner.active /\ runner' \in Runners
    BY <2>2, RunnerFields, RunnerMade DEF At5, PCs
  <2>4. ring' \in Rings /\ policy' \in Policies
    BY <1>1 DEF SessionTypes
  <2>5. Attempting
    BY <1>1 DEF Waiting, Attempting
  <2>6. NumbersLeft'
    BY <1>1, <2>3 DEF NumbersLeft, Waiting
  <2> QED
    BY <1>1, <1>2, <2>3, <2>4, <2>5, <2>6, RunnerMoves
<1>3. CASE GiveUp
  <2>1. /\ device' = [device EXCEPT !.blocked = TRUE]
        /\ history' = [history EXCEPT !.unknown = @ \union {runner.token.gen}]
        /\ runner' = [runner EXCEPT !.pc = "finish"]
    BY <1>3 DEF GiveUp, Goto
  <2>2. runner' = At5("finish", runner.gen, runner.step, runner.token, runner.active)
    BY <2>1, RunnerFields DEF At5
  <2>3. /\ runner'.pc = "finish" /\ runner'.gen = runner.gen /\ runner'.token = runner.token
        /\ runner'.step = runner.step /\ runner'.active = runner.active /\ runner' \in Runners
    BY <2>2, RunnerFields, RunnerMade DEF At5, PCs
  <2>4. /\ device' \in Devices /\ device'.blocked = TRUE /\ device'.gen = device.gen
        /\ device'.present = device.present /\ device'.connected = device.connected
    BY <2>1 DEF SessionTypes, Devices
  <2>5. /\ history'.terminal = history.terminal /\ history'.reported = history.reported
        /\ history'.unknown = history.unknown \union {runner.token.gen}
        /\ history' = [terminal |-> history'.terminal, reported |-> history'.reported,
                       unknown |-> history'.unknown]
    BY <2>1 DEF HistoryTypes
  <2>6. runner.token.gen \in Generations /\ runner.token.gen = runner.gen
    BY <1>1, RunnerFields DEF Tokens, ReportsTruthful
  <2>7. SessionTypes'
    BY <1>1, <2>3, <2>4 DEF SessionTypes
  <2>8. HistoryTypes'
    BY <2>5, <2>6 DEF HistoryTypes
  <2>9. NumbersLeft'
    BY <1>1, <2>3 DEF NumbersLeft, Waiting
  <2>10. TokensDistinct' /\ OneTerminalEvent' /\ TokensNotShared'
    BY <1>1, <2>5 DEF TokensDistinct, OneTerminalEvent, TokensNotShared
  <2>11. ReportsTruthful'
    BY <1>1, <2>3, <2>5 DEF ReportsTruthful, Waiting
  <2>12. ConnectionKnown'
    BY <1>1, <2>3, <2>4 DEF ConnectionKnown
  <2>13. UnknownIsBlocked'
    <3>1. runner.gen <= device.gen /\ (usb \in {"unblock", "state"} => runner.gen < device.gen)
      BY DEF ConnectionKnown
    <3>2. runner.gen \in Nat /\ device.gen \in Nat
      BY DeviceFields
    <3>3. ~Attempting'
      BY <2>3 DEF Attempting
    <3> QED
      BY <1>1, <2>4, <2>5, <2>6, <3>1, <3>2, <3>3 DEF UnknownIsBlocked
  <2> QED
    BY <2>7, <2>8, <2>9, <2>10, <2>11, <2>12, <2>13
<1> QED
  BY <1>2, <1>3 DEF WaitEmpty, Pause

-----------------------------------------------------------------------------
(***************************************************************************)
(* The theorems                                                            *)
(***************************************************************************)

LEMMA NextStep == TokenInv /\ OrderInv /\ [Next]_vars => TokenInv' /\ OrderInv'
<1> SUFFICES ASSUME TokenInv, OrderInv, [Next]_vars PROVE TokenInv' /\ OrderInv'
  OBVIOUS
<1>1. CASE Callback
  <2>1. "usb" \in Producers
    BY DEF Producers
  <2> QED
    BY <1>1, <2>1, Publishing, PublishingGone, Freeing, Pushing DEF Callback
<1>2. CASE Device
  BY <1>2, Connecting, GoingAway, Ending, Freeing DEF Device
<1>3. CASE Runner
  <2>1. "runner" \in Producers
    BY DEF Producers
  <2> QED
    BY <1>3, <2>1, Reading, Gating, SubmittingControl, Checking, SubmittingSerial, Popping,
       WaitingOn, Pushing DEF Runner
<1>4. CASE RetryDue
  BY <1>4, Freeing
<1>5. CASE UNCHANGED vars
  <2> USE DEF TokenInv, OrderInv
  <2>1. UNCHANGED <<device, usb, slot, retired, ep0, ring, push, runner, policy, nextOp, noticed, history>>
    BY <1>5 DEF vars
  <2>2. SessionTypes'
    BY <2>1 DEF SessionTypes
  <2>3. ReportsTruthful' /\ ConnectionKnown' /\ UnknownIsBlocked'
    BY <2>1 DEF ReportsTruthful, ConnectionKnown, UnknownIsBlocked, Waiting, Attempting
  <2> QED
    BY <2>1, <2>2, <2>3, OperationsStay
<1> QED
  BY <1>1, <1>2, <1>3, <1>4, <1>5 DEF Next

LEMMA Invariants == Spec => [](TokenInv /\ OrderInv)
<1>1. TokenInv /\ OrderInv /\ [Next]_vars => (TokenInv /\ OrderInv)'
  BY NextStep
<1> QED
  BY <1>1, Initially, PTL DEF Spec

\* Every operation is reported once at most, whether its transfer ends in
\* time, ends late or outlives its device, and its token is in one place.
THEOREM TokensHaveOnePlace == Spec => []TokensAccountedFor
<1>1. TokenInv => TokensAccountedFor
  BY DEF TokenInv, TokensAccountedFor, SessionTypes, TypeOK, Devices, SlotRecords, Rings, Pushes,
         Runners, Policies
<1> QED
  BY <1>1, Invariants, PTL

\* wait_completion goes on only after a report of its own operation, which
\* said that it was complete.
THEOREM OwnCompletionCredited == Spec => CreditsOwnCompletion
<1> DEFINE Credited == (runner.pc = "wait" /\ runner'.pc \in {"control", "check", "serial"}) =>
                         runner.token.id \in history.reported
<1>1. TokenInv /\ OrderInv /\ [Next]_vars => [Credited]_vars
  <2> SUFFICES ASSUME TokenInv, OrderInv, Next, runner.pc = "wait",
                      runner'.pc \in {"control", "check", "serial"}
               PROVE  runner.token.id \in history.reported
    OBVIOUS
  <2> USE DEF TokenInv, OrderInv
  <2>1. runner'.pc # runner.pc
    OBVIOUS
  <2>2. WaitPop
    <3>1. ~(Callback \/ Device \/ RetryDue \/ Push("runner"))
      BY <2>1 DEF Callback, Device, RetryDue, Push, PushLoad, PushStore, Unblock, PublishConnected,
           PublishGone, FreeSlot, Connected, Gone, SerialDone, RetiredDone, ControlDone
    <3>2. ~(ReadState \/ ReadGeneration \/ Gate \/ SubmitControl \/ Check \/ SubmitSerial \/ Pause
            \/ Finish)
      BY DEF ReadState, ReadGeneration, Gate, SubmitControl, Check, SubmitSerial, Pause, Finish, RunnerAt
    <3>3. ~WaitEmpty
      BY RunnerFields DEF WaitEmpty, GiveUp, Goto, SessionTypes, Runners
    <3> QED
      BY <3>1, <3>2, <3>3 DEF Next, Runner
  <2>3. PICK event : event = ring.slots[ring.tail]
    OBVIOUS
  <2>4. event \in Events /\ Truthful(event, history.reported)
    <3>1. ring \in Rings
      BY DEF SessionTypes
    <3> QED
      BY <2>3, <3>1 DEF Rings, ReportsTruthful
  <2>5. event.kind = "Completion" /\ event.token = runner.token /\ event.status = "Completed"
    <3>1. ~Goto("finish") /\ ~UNCHANGED runner
      BY <2>1, RunnerFields DEF Goto, SessionTypes, Runners
    <3> QED
      BY <2>2, <2>3, <3>1 DEF WaitPop, Answers
  <2>6. runner.token.id \in Nat /\ runner.token.id >= 1
    BY DeviceFields DEF ReportsTruthful, Waiting
  <2> QED
    BY <2>4, <2>5, <2>6 DEF Truthful
<1> QED
  BY <1>1, Invariants, PTL DEF Spec, CreditsOwnCompletion

\* Nothing is sent over a connection with an unknown outcome, by whatever way
\* the attempt got there, and no operation number is used twice.
THEOREM WireIsInOrder == Spec => OperationsInOrder
<1> DEFINE Silent == (\/ slot'.active /\ slot'.token # slot.token
                      \/ ep0' \ ep0 # {}) => runner.gen \notin history.unknown
<1> DEFINE Fresh == (runner.pc \in {"control", "serial"} /\ runner'.pc # runner.pc) =>
                      runner'.token.id > runner.token.id
<1>1. TokenInv /\ OrderInv /\ [Next]_vars => [Silent]_vars
  <2> SUFFICES ASSUME TokenInv, OrderInv, Next,
                      \/ slot'.active /\ slot'.token # slot.token
                      \/ ep0' \ ep0 # {}
               PROVE  runner.gen \notin history.unknown
    OBVIOUS
  <2> USE DEF TokenInv, OrderInv
  <2>1. SubmitControl \/ SubmitSerial
    <3>1. ~(Connected \/ Unblock \/ PublishConnected \/ PublishGone \/ RetiredDone
            \/ RetryDue \/ Push("usb") \/ Push("runner"))
      BY DEF Connected, Unblock, PublishConnected, PublishGone, RetiredDone, RetryDue, Push,
             PushLoad, PushStore
    <3>2. ~(Gone \/ SerialDone \/ FreeSlot \/ ControlDone)
      BY DEF Gone, SerialDone, FreeSlot, ControlDone, SessionTypes, SlotRecords
    <3>3. ~(ReadState \/ ReadGeneration \/ Gate \/ Check \/ WaitPop \/ WaitEmpty \/ Pause \/ Finish)
      BY DEF ReadState, ReadGeneration, Gate, Check, WaitPop, WaitEmpty, Pause, Finish
    <3> QED
      BY <3>1, <3>2, <3>3 DEF Next, Callback, Device, Runner
  <2>2. Reachable /\ Attempting
    BY <2>1 DEF SubmitControl, SubmitSerial, RunnerAt, Attempting
  <2> QED
    BY <2>2 DEF UnknownIsBlocked, Reachable
<1>2. TokenInv /\ OrderInv /\ [Next]_vars => [Fresh]_vars
  <2> SUFFICES ASSUME TokenInv, OrderInv, Next, runner.pc \in {"control", "serial"},
                      runner'.pc # runner.pc
               PROVE  runner'.token.id > runner.token.id
    OBVIOUS
  <2> USE DEF TokenInv, OrderInv
  <2>1. SubmitControl \/ SubmitSerial
    <3>1. ~(Callback \/ Device \/ RetryDue \/ Push("runner"))
      BY DEF Callback, Device, RetryDue, Push, PushLoad, PushStore, Unblock, PublishConnected,
           PublishGone, FreeSlot, Connected, Gone, SerialDone, RetiredDone, ControlDone
    <3>2. ~(ReadState \/ ReadGeneration \/ Gate \/ Check \/ WaitPop \/ WaitEmpty \/ Pause \/ Finish)
      BY DEF ReadState, ReadGeneration, Gate, Check, WaitPop, WaitEmpty, Pause, Finish, RunnerAt
    <3> QED
      BY <3>1, <3>2 DEF Next, Runner
  <2>2. PICK accepted \in BOOLEAN : TakeToken(accepted)
    BY <2>1 DEF SubmitControl, SubmitSerial
  <2>3. runner'.token = Token /\ Token.id = nextOp
    BY <2>2, Taking
  <2>4. runner.token.id < nextOp /\ runner.token.id \in Nat /\ nextOp \in Nat
    BY DeviceFields DEF ReportsTruthful
  <2> QED
    BY <2>3, <2>4
<1>3. Spec => [][Silent]_vars
  BY <1>1, Invariants, PTL DEF Spec
<1>4. Spec => [][Fresh]_vars
  BY <1>2, Invariants, PTL DEF Spec
<1> QED
  BY <1>3, <1>4 DEF OperationsInOrder, NoWireAfterUnknown, OperationIdsFresh
==============================================================================
