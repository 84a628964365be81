-------------------------- MODULE TransportSession --------------------------
(***************************************************************************)
(* The protocol runner of the sketch (run_session, run_handshake,          *)
(* run_measurement, wait_completion) against the callbacks of the USB      *)
(* client task, with the ring of critical events between them, the patched *)
(* USB host underneath and the reconnect policy above.                     *)
(*                                                                         *)
(* What is asked and answered on the K line is the subject of              *)
(* MeasurementSession; here an attempt is a number of control operations   *)
(* and then bytes, each with its token, and it may end at every check.     *)
(* Every access to a shared variable is a step of its own, so is each half *)
(* of a push into the ring: the client task and the runner both push.      *)
(*                                                                         *)
(* Time: a wait may run out in any pause.  Taking a device away and        *)
(* enumerating the next takes longer than a pause of the runner (noticed). *)
(***************************************************************************)
EXTENDS Naturals

CONSTANTS
  Capacity,       \* slots of the critical event ring: 33 in the code
  PreinitSteps,   \* control operations before the protocol core: 3
  CoreSteps,      \* control operations of the protocol core
  MaxGeneration,  \* bound: connections
  MaxOperation    \* bound: operations

ASSUME CapacityAssumption == Capacity \in Nat \ {0, 1}
ASSUME StepsAssumption == PreinitSteps \in Nat /\ CoreSteps \in Nat
ASSUME BoundsAssumption == MaxGeneration \in Nat /\ MaxOperation \in Nat

VARIABLES
  device,    \* what the callbacks publish, and whether the device is there
  usb,       \* where the client task is in a callback
  slot,      \* the one serial OUT transfer
  retired,   \* tokens of transfers that outlived their device
  ep0,       \* control transfers submitted and not yet carried out
  ring,      \* CriticalTransportEventRing
  push,      \* a push under way, per producer
  runner,    \* the loop task
  policy,    \* KwpReconnectPolicy
  nextOp,    \* next_transport_operation_id
  noticed,   \* has the runner looked since the device went away?
  history

vars == <<device, usb, slot, retired, ep0, ring, push, runner, policy, nextOp,
          noticed, history>>

Producers == {"usb", "runner"}
Statuses == {"Completed", "Failed", "Canceled", "OutcomeUnknown"}
Generations == 0 .. MaxGeneration
Operations == 0 .. MaxOperation + 1
Tokens == [id : Operations, gen : Generations]
NoToken == [id |-> 0, gen |-> 0]
Events == [kind : {"Completion", "Disconnect"}, status : Statuses, token : Tokens]
NoEvent == [kind |-> "Completion", status |-> "Completed", token |-> NoToken]
NoPush == [stage |-> "none", head |-> 0, event |-> NoEvent]

-----------------------------------------------------------------------------
(***************************************************************************)
(* The ring.                                                               *)
(***************************************************************************)

NextSlot(i) == (i + 1) % Capacity

\* Start a push; emitOperationCompletion reports a terminal status.
Begin(p, event) ==
  push' = [push EXCEPT ![p] = [NoPush EXCEPT !.stage = "begun", !.event = event]]

Emit(p, token, status) ==
  /\ Begin(p, [kind |-> "Completion", status |-> status, token |-> token])
  /\ history' =
       [history EXCEPT
          !.terminal[token.id] = @ + 1,
          !.reported = IF status = "Completed" THEN @ \union {token.id} ELSE @]

\* tryPush up to the comparison with tail_.
PushLoad(p) ==
  /\ push[p].stage = "begun"
  /\ IF NextSlot(ring.head) = ring.tail
     THEN /\ ring' = [ring EXCEPT !.sticky = TRUE]
          /\ push' = [push EXCEPT ![p] = NoPush]
     ELSE /\ push' = [push EXCEPT ![p].stage = "loaded", ![p].head = ring.head]
          /\ UNCHANGED ring
  /\ UNCHANGED <<device, usb, slot, retired, ep0, runner, policy, nextOp,
                 noticed, history>>

PushStore(p) ==
  /\ push[p].stage = "loaded"
  /\ ring' = [ring EXCEPT !.slots[push[p].head] = push[p].event,
                          !.head = NextSlot(push[p].head)]
  /\ push' = [push EXCEPT ![p] = NoPush]
  /\ UNCHANGED <<device, usb, slot, retired, ep0, runner, policy, nextOp,
                 noticed, history>>

Push(p) == PushLoad(p) \/ PushStore(p)
Pushed(p) == push[p].stage = "none"

-----------------------------------------------------------------------------
(***************************************************************************)
(* The USB client task: one callback at a time.                            *)
(***************************************************************************)

At(pc) == usb = pc /\ Pushed("usb")

\* on_device_connected: the generation, the lock, then the state.
Connected ==
  /\ At("ready") /\ ~device.present /\ noticed
  /\ device.gen < MaxGeneration
  /\ device' = [device EXCEPT !.present = TRUE, !.gen = @ + 1]
  /\ usb' = "unblock"
  /\ UNCHANGED <<slot, retired, ep0, ring, push, runner, policy, nextOp,
                 noticed, history>>

Unblock ==
  /\ At("unblock")
  /\ device' = [device EXCEPT !.blocked = FALSE]
  /\ usb' = "state"
  /\ UNCHANGED <<slot, retired, ep0, ring, push, runner, policy, nextOp,
                 noticed, history>>

PublishConnected ==
  /\ At("state")
  /\ device' = [device EXCEPT !.connected = TRUE]
  /\ usb' = "ready"
  /\ UNCHANGED <<slot, retired, ep0, ring, push, runner, policy, nextOp,
                 noticed, history>>

\* handleDeviceGone: the transfer in flight is retired with its token before
\* on_device_disconnected runs.
Gone ==
  /\ At("ready") /\ device.present
  /\ device' = [device EXCEPT !.present = FALSE]
  /\ retired' = IF slot.active THEN retired \union {slot.token} ELSE retired
  /\ slot' = [state |-> "Free", active |-> FALSE, token |-> NoToken]
  /\ ep0' = {}
  /\ usb' = "gone"
  /\ UNCHANGED <<ring, push, runner, policy, nextOp, noticed, history>>

PublishGone ==
  /\ At("gone")
  /\ device' = [device EXCEPT !.connected = FALSE]
  /\ Begin("usb", [kind |-> "Disconnect", status |-> "Completed",
                   token |-> [id |-> 0, gen |-> device.gen]])
  /\ noticed' = FALSE
  /\ usb' = "ready"
  /\ UNCHANGED <<slot, retired, ep0, ring, runner, policy, nextOp, history>>

\* Mutated form: the token stays with the slot after its report.
SerialDoneKeepsToken ==
  /\ At("ready") /\ slot.active
  /\ \E status \in Statuses : Emit("usb", slot.token, status)
  /\ usb' = "free"
  /\ UNCHANGED <<device, slot, retired, ep0, ring, runner, policy, nextOp, noticed>>

\* serialOutTransferCallback reports the token first and frees the slot after.
SerialDone ==
  /\ At("ready") /\ slot.active
  /\ \E status \in Statuses : Emit("usb", slot.token, status)
  /\ slot' = [slot EXCEPT !.active = FALSE]
  /\ usb' = "free"
  /\ UNCHANGED <<device, retired, ep0, ring, runner, policy, nextOp, noticed>>

FreeSlot ==
  /\ At("free")
  /\ slot' = [slot EXCEPT !.state = "Free"]
  /\ usb' = "ready"
  /\ UNCHANGED <<device, retired, ep0, ring, push, runner, policy, nextOp,
                 noticed, history>>

\* The terminal callback of a transfer that outlived its device.
RetiredDone ==
  /\ At("ready")
  /\ \E token \in retired :
       /\ retired' = retired \ {token}
       /\ \E status \in Statuses : Emit("usb", token, status)
  /\ UNCHANGED <<device, usb, slot, ep0, ring, runner, policy, nextOp, noticed>>

ControlDone ==
  /\ At("ready")
  /\ \E id \in ep0 : ep0' = ep0 \ {id}
  /\ UNCHANGED <<device, usb, slot, retired, ring, push, runner, policy, nextOp,
                 noticed, history>>

-----------------------------------------------------------------------------
(***************************************************************************)
(* The runner.                                                             *)
(***************************************************************************)

RunnerAt(pc) == runner.pc = pc /\ Pushed("runner")
Goto(pc) == runner' = [runner EXCEPT !.pc = pc]
Bounded == nextOp + PreinitSteps + CoreSteps + 1 <= MaxOperation

\* run_session reads the state, then the generation.
ReadState ==
  /\ RunnerAt("idle")
  /\ IF device.connected THEN Goto("generation") ELSE UNCHANGED runner
  /\ noticed' = TRUE
  /\ UNCHANGED <<device, usb, slot, retired, ep0, ring, push, policy, nextOp,
                 history>>

ReadGeneration ==
  /\ RunnerAt("generation")
  /\ runner' = [runner EXCEPT !.pc = "gate", !.gen = device.gen]
  /\ UNCHANGED <<device, usb, slot, retired, ep0, ring, push, policy, nextOp,
                 noticed, history>>

\* shouldAttempt notes a new generation.
Noted(p, gen) ==
  IF p.gen = gen THEN p ELSE [p EXCEPT !.gen = gen, !.finished = FALSE]

\* Mutated form: only the first attempt of a generation is made.
ShouldAttemptOnce(p) == ~p.finished

ShouldAttempt(p) == ~p.finished \/ p.due

\* The lock, then the policy.  Bounded caps the attempts.
Gate ==
  /\ RunnerAt("gate")
  /\ LET noted == Noted(policy, runner.gen)
     IN  IF device.blocked
         THEN Goto("idle") /\ UNCHANGED policy
         ELSE /\ policy' = noted
              /\ IF ShouldAttempt(noted) /\ Bounded
                 THEN runner' = [runner EXCEPT !.step = 0, !.pc =
                        IF PreinitSteps > 0 THEN "control" ELSE "check"]
                 ELSE Goto("idle")
  /\ UNCHANGED <<device, usb, slot, retired, ep0, ring, push, nextOp, noticed,
                 history>>

\* A fresh token for the operation to submit.
Token == [id |-> nextOp, gen |-> runner.gen]

TakeToken(accepted) ==
  /\ nextOp' = nextOp + 1
  /\ runner' = [runner EXCEPT !.token = Token,
                              !.pc = IF accepted THEN "wait" ELSE "finish"]

\* The device of this attempt is there: the next one has another address.
Reachable == device.present /\ device.gen = runner.gen

\* A control operation is reported as soon as its transfer is submitted: the
\* submission does not wait for the transfer.  A refusal is reported as well.
\* Setting the baud rate, the core's first step, succeeds without a device.
SubmitControl ==
  /\ RunnerAt("control")
  /\ \/ /\ Reachable
        /\ ep0' = ep0 \union {nextOp}
        /\ TakeToken(TRUE)
        /\ Emit("runner", Token, "Completed")
        /\ UNCHANGED noticed
     \/ /\ ~Reachable /\ runner.step = PreinitSteps
        /\ TakeToken(TRUE)
        /\ Emit("runner", Token, "Completed")
        /\ UNCHANGED <<ep0, noticed>>
     \/ /\ Reachable \/ runner.step # PreinitSteps
        /\ TakeToken(FALSE)
        /\ Emit("runner", Token, "OutcomeUnknown")
        /\ noticed' = TRUE
        /\ UNCHANGED ep0
  /\ UNCHANGED <<device, usb, slot, retired, ring, policy>>

\* The loops of run_handshake and run_measurement look at the transport, and
\* an attempt may end here for reasons of the protocol.
Check ==
  /\ RunnerAt("check")
  /\ \/ /\ device.connected /\ device.gen = runner.gen
        /\ IF runner.step < PreinitSteps + CoreSteps THEN Goto("control")
           ELSE Goto("serial") /\ nextOp <= MaxOperation
     \/ Goto("finish")
  /\ noticed' = TRUE
  /\ UNCHANGED <<device, usb, slot, retired, ep0, ring, push, policy, nextOp,
                 history>>

\* serialWriteTokenized: refused while a token is active or the slot is taken.
SubmitSerial ==
  /\ RunnerAt("serial")
  /\ IF Reachable /\ ~slot.active /\ slot.state = "Free"
     THEN /\ slot' = [state |-> "Inflight", active |-> TRUE, token |-> Token]
          /\ TakeToken(TRUE)
          /\ UNCHANGED noticed
     ELSE /\ TakeToken(FALSE)
          /\ noticed' = TRUE
          /\ UNCHANGED slot
  /\ UNCHANGED <<device, usb, retired, ep0, ring, push, policy, history>>

\* Where an attempt goes on after a completed operation.  Within a batch of
\* received bytes run_measurement does not look at the transport again.
AfterCompleted(r) ==
  IF r.step + 1 < PreinitSteps THEN {"control"}
  ELSE IF r.active /\ nextOp <= MaxOperation THEN {"check", "serial"}
  ELSE {"check"}

\* Mutated form: any completion is taken for the answer.
AnswersAny(event, token) == event.kind = "Completion"

Answers(event, token) == event.kind = "Completion" /\ event.token = token

\* wait_completion: one event off the ring.
WaitPop ==
  /\ RunnerAt("wait") /\ ring.tail # ring.head
  /\ ring' = [ring EXCEPT !.tail = NextSlot(@)]
  /\ LET event == ring.slots[ring.tail]
     IN  CASE event.kind = "Disconnect" /\ event.token.gen = runner.token.gen ->
                Goto("finish")
           [] Answers(event, runner.token) /\ event.status = "Completed" ->
                \E pc \in AfterCompleted(runner) :
                  runner' = [runner EXCEPT
                    !.pc = pc, !.step = IF @ <= PreinitSteps + CoreSteps
                                        THEN @ + 1 ELSE @,
                    !.active = (runner.step >= PreinitSteps + CoreSteps)]
           [] Answers(event, runner.token) /\ event.status # "Completed" ->
                Goto("finish")
           [] OTHER -> UNCHANGED runner
  /\ UNCHANGED <<device, usb, slot, retired, ep0, push, policy, nextOp, noticed,
                 history>>

\* Mutated form: a wait that ends without an answer does not lock the transport.
GiveUpUnlocked ==
  /\ history' = [history EXCEPT !.unknown = @ \union {runner.token.gen}]
  /\ Goto("finish")
  /\ UNCHANGED device

\* The outcome is unknown: the transport is locked.
GiveUp ==
  /\ device' = [device EXCEPT !.blocked = TRUE]
  /\ history' = [history EXCEPT !.unknown = @ \union {runner.token.gen}]
  /\ Goto("finish")

WaitEmpty ==
  /\ RunnerAt("wait") /\ ring.tail = ring.head
  /\ IF ring.sticky THEN GiveUp
     ELSE Goto("pause") /\ UNCHANGED <<device, history>>
  /\ noticed' = TRUE
  /\ UNCHANGED <<usb, slot, retired, ep0, ring, push, policy, nextOp>>

Pause ==
  /\ RunnerAt("pause")
  /\ \/ Goto("wait") /\ UNCHANGED <<device, history>>
     \/ GiveUp
  /\ UNCHANGED <<usb, slot, retired, ep0, ring, push, policy, nextOp, noticed>>

\* Mutated form: the session is not ended with its attempt.
FinishKeepsActive ==
  /\ RunnerAt("finish")
  /\ runner' = [runner EXCEPT !.pc = "idle"]
  /\ policy' = [policy EXCEPT !.finished = TRUE, !.due = FALSE]
  /\ UNCHANGED <<device, usb, slot, retired, ep0, ring, push, nextOp, noticed,
                 history>>

\* attemptFinished
Finish ==
  /\ RunnerAt("finish")
  /\ runner' = [runner EXCEPT !.pc = "idle", !.active = FALSE]
  /\ policy' = [policy EXCEPT !.finished = TRUE, !.due = FALSE]
  /\ UNCHANGED <<device, usb, slot, retired, ep0, ring, push, nextOp, noticed,
                 history>>

\* The retry interval passes.
RetryDue ==
  /\ policy.finished /\ ~policy.due
  /\ policy' = [policy EXCEPT !.due = TRUE]
  /\ UNCHANGED <<device, usb, slot, retired, ep0, ring, push, runner, nextOp,
                 noticed, history>>

-----------------------------------------------------------------------------
Init ==
  /\ device = [present |-> FALSE, connected |-> FALSE, gen |-> 0, blocked |-> FALSE]
  /\ usb = "ready"
  /\ slot = [state |-> "Free", active |-> FALSE, token |-> NoToken]
  /\ retired = {} /\ ep0 = {}
  /\ ring = [slots |-> [i \in 0 .. Capacity - 1 |-> NoEvent],
             head |-> 0, tail |-> 0, sticky |-> FALSE]
  /\ push = [p \in Producers |-> NoPush]
  /\ runner = [pc |-> "idle", gen |-> 0, step |-> 0, token |-> NoToken,
               active |-> FALSE]
  /\ policy = [gen |-> 0, finished |-> FALSE, due |-> FALSE]
  /\ nextOp = 1
  /\ noticed = TRUE
  /\ history = [terminal |-> [id \in Operations |-> 0], reported |-> {},
                unknown |-> {}]

Callback == Unblock \/ PublishConnected \/ PublishGone \/ FreeSlot \/ Push("usb")

Device == Connected \/ Gone \/ SerialDone \/ RetiredDone \/ ControlDone

Runner ==
  \/ ReadState \/ ReadGeneration \/ Gate \/ SubmitControl \/ Check
  \/ SubmitSerial \/ WaitPop \/ WaitEmpty \/ Pause \/ Finish \/ Push("runner")

Next == Callback \/ Device \/ Runner \/ RetryDue

\* Both tasks keep running and the clock does; nothing is asked of the device.
\* A wait does not go round for ever: its time runs out.
Fairness ==
  /\ WF_vars(Callback) /\ WF_vars(Runner) /\ WF_vars(RetryDue)
  /\ SF_vars(Pause /\ runner'.pc = "finish")

Spec == Init /\ [][Next]_vars /\ Fairness

-----------------------------------------------------------------------------
TypeOK ==
  /\ device \in [present : BOOLEAN, connected : BOOLEAN, gen : Generations,
                 blocked : BOOLEAN]
  /\ usb \in {"ready", "unblock", "state", "gone", "free"}
  /\ slot \in [state : {"Free", "Inflight"}, active : BOOLEAN, token : Tokens]
  /\ retired \subseteq Tokens /\ ep0 \subseteq Operations
  /\ ring \in [slots : [0 .. Capacity - 1 -> Events], head : 0 .. Capacity - 1,
               tail : 0 .. Capacity - 1, sticky : BOOLEAN]
  /\ push \in [Producers -> [stage : {"none", "begun", "loaded"},
                             head : 0 .. Capacity - 1, event : Events]]
  /\ runner \in [pc : {"idle", "generation", "gate", "control", "check", "serial",
                       "wait", "pause", "finish"},
                 gen : Generations, step : 0 .. PreinitSteps + CoreSteps + 1,
                 token : Tokens, active : BOOLEAN]
  /\ policy \in [gen : Generations, finished : BOOLEAN, due : BOOLEAN]
  /\ nextOp \in Operations /\ noticed \in BOOLEAN

\* Each operation is reported at most once, whether its transfer ends in time,
\* ends late, or outlives its device.
OneTerminalEvent == \A id \in Operations : history.terminal[id] <= 1

\* The slot of a reported token belongs to no other operation: what is in
\* flight, retired or reported are different operations.
TokensNotShared ==
  /\ slot.active => slot.token \notin retired /\ history.terminal[slot.token.id] = 0
  /\ \A token \in retired : history.terminal[token.id] = 0

\* Tokens are accounted for: one report each, none in two places at a time.
TokensAccountedFor == TypeOK /\ OneTerminalEvent /\ TokensNotShared

\* The runner goes on after an operation only when that very operation was
\* reported complete, however many late reports of others are in the ring.
CreditsOwnCompletion ==
  [][(runner.pc = "wait" /\ runner'.pc \in {"control", "check", "serial"}) =>
       runner.token.id \in history.reported]_vars

\* Once the outcome of an operation is unknown, nothing is sent any more over
\* the connection it was sent over.
NoWireAfterUnknown ==
  [][(\/ slot'.active /\ slot'.token # slot.token
      \/ ep0' \ ep0 # {}) => runner.gen \notin history.unknown]_vars

\* An operation id is never used twice, over all attempts and connections.
OperationIdsFresh ==
  [][(runner.pc \in {"control", "serial"} /\ runner'.pc # runner.pc) =>
       runner'.token.id > runner.token.id]_vars

\* What reaches the wire are new operations, over a connection on which the
\* outcome of all before them is known.
OperationsInOrder == NoWireAfterUnknown /\ OperationIdsFresh

\* A session whose device is gone comes to its end.
GoneSessionEnds ==
  (runner.active /\ ~device.present) ~> ~runner.active

\* A connection that stays up and unlocked is tried again and again.
TriedAgain ==
  []<>(\/ runner.pc \in {"control", "check", "serial"}
       \/ ~device.connected \/ device.blocked \/ ~Bounded)

\* A control operation reported complete has been carried out.
ReportedMeansDone == ep0 \intersect history.reported = {}

=============================================================================
