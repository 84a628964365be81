------------------------------ MODULE UsbOutPool ------------------------------
(***************************************************************************)
(* Bulk OUT of the USB host: the pool of preallocated transfers that       *)
(* serialWrite... and vendorWrite... share one shape of (acquire a slot,   *)
(* fill it, submit it), the tokens of tokenised serial writes and the      *)
(* table that keeps them when the device goes, the one-shot transfers of   *)
(* sendSerial() and the waiting vendorWrite().  Two tasks write: an        *)
(* application task and the client task, out of a callback; the client     *)
(* task also runs the completions and the event that the device is gone.   *)
(* Bytes are left out: a write is a full packet or is not.                 *)
(***************************************************************************)
EXTENDS Integers, FiniteSets

CONSTANTS
    Depth,          \* slots of the pool
    LastTransfer,   \* usb_transfer_t the model can allocate: 1..LastTransfer
    PoolTokens,     \* tokens of tokenised writes
    RetiredSlots,   \* entries of retiredSerialTransfers_
    MaxBegins       \* bound: pools that are set up

VARIABLES
    pool,       \* active, halted, permits of the semaphore (-1: deleted)
    slots,      \* per slot: state, transfer, active token
    retired,    \* retiredSerialTransfers_
    heap,       \* what has become of each transfer
    driver,     \* external: transfers the host controller driver holds
    writers,    \* per task: where it is in a write
    context,    \* per transfer of vendorWrite(): who was first
    present,    \* external: the device is there
    answers,    \* history per token: accepted, completions
    begins

poolVars == <<pool, slots, retired, heap, driver, writers, context, present, answers, begins>>

Slots == 1..Depth
Transfers == 1..LastTransfer
Nothing == 0     \* no transfer, no slot, no token

ASSUME PoolAssumption ==
    Depth \in Nat /\ LastTransfer \in Nat /\ RetiredSlots \in Nat /\ Nothing \notin PoolTokens

EmptySlot == [state |-> "free", transfer |-> Nothing, token |-> Nothing]
AtRest == [pc |-> "idle", slot |-> Nothing, transfer |-> Nothing, token |-> Nothing, full |-> FALSE]

PoolInit ==
    /\ pool = [active |-> FALSE, halted |-> FALSE, permits |-> -1]
    /\ slots = [s \in Slots |-> EmptySlot]
    /\ retired = {} /\ driver = {} /\ present = TRUE /\ begins = 0
    /\ heap = [x \in Transfers |-> "unused"]
    /\ writers = [t \in {"app", "client"} |-> AtRest]
    /\ context = [x \in Transfers |-> "none"]
    /\ answers = [k \in PoolTokens |-> [accepted |-> FALSE, count |-> 0]]

UnusedTransfers == {x \in Transfers : heap[x] = "unused"}
First(S) == CHOOSE x \in S : \A y \in S : x <= y

(* usb_host_transfer_free: of a transfer nobody else may hold. *)
FreedIn(freed) ==
    [x \in Transfers |-> IF x \notin freed THEN heap[x]
                         ELSE IF heap[x] = "allocated" /\ x \notin driver THEN "freed"
                         ELSE "broken"]

Give(permits) == IF permits < 0 \/ permits >= Depth THEN permits ELSE permits + 1
Told(k) == [answers EXCEPT ![k].count = @ + 1]
Goes(t, pc) == writers' = [writers EXCEPT ![t].pc = pc]
Rests(t) == writers' = [writers EXCEPT ![t] = AtRest]

-----------------------------------------------------------------------------
(* serialWriteQueueBegin *)
QueueBegin ==
    /\ writers["app"].pc = "idle" /\ present /\ ~pool.active
    /\ begins < MaxBegins /\ Cardinality(UnusedTransfers) >= Depth
    /\ \E fresh \in [Slots -> UnusedTransfers] :
          /\ \A s \in Slots : fresh[s] = First(UnusedTransfers \ {fresh[r] : r \in 1..(s - 1)})
          /\ slots' = [s \in Slots |-> [slots[s] EXCEPT !.state = "free", !.transfer = fresh[s]]]
          /\ heap' = [x \in Transfers |-> IF \E s \in Slots : fresh[s] = x THEN "allocated" ELSE heap[x]]
    /\ pool' = [active |-> TRUE, halted |-> FALSE, permits |-> Depth]
    /\ begins' = begins + 1
    /\ UNCHANGED <<retired, driver, writers, context, present, answers>>

(* serialWriteAcquire, first half: a permit of the semaphore.  Taking it   *)
(* waits or gives up; a tokenised write has looked for an active token.    *)
TakePermit(t) ==
    /\ writers[t].pc \in {"idle", "zlp"} /\ pool.active /\ pool.permits > 0
    /\ \/ /\ writers[t].pc = "idle" /\ \E full \in BOOLEAN :
                writers' = [writers EXCEPT ![t] = [AtRest EXCEPT !.pc = "permit", !.full = full]]
       \/ /\ writers[t].pc = "idle" /\ t = "app" /\ \A s \in Slots : slots[s].token = Nothing
          /\ \E k \in PoolTokens :
                /\ answers[k] = [accepted |-> FALSE, count |-> 0]
                /\ writers' = [writers EXCEPT ![t] = [AtRest EXCEPT !.pc = "permit", !.token = k]]
       \/ /\ writers[t].pc = "zlp"
          /\ writers' = [writers EXCEPT ![t] = [AtRest EXCEPT !.pc = "permit"]]
    /\ pool' = [pool EXCEPT !.permits = @ - 1]
    /\ UNCHANGED <<slots, retired, heap, driver, context, present, answers, begins>>

(* submitVendorOutZlp: no slot for the closing packet in 100 ms. *)
GiveUpZlp(t) ==
    /\ writers[t].pc = "zlp" /\ Rests(t)
    /\ UNCHANGED <<pool, slots, retired, heap, driver, context, present, answers, begins>>

FreeSlots == {s \in Slots : slots[s].state = "free" /\ slots[s].transfer # Nothing}

(* serialWriteAcquire, second half: the slot, under the lock. *)
MarkAcquired(t) ==
    /\ writers[t].pc = "permit"
    /\ IF FreeSlots = {}
         THEN /\ pool' = [pool EXCEPT !.permits = Give(@)] /\ Rests(t) /\ UNCHANGED slots
         ELSE LET s == First(FreeSlots) IN
              /\ slots' = [slots EXCEPT ![s].state = "acquired"]
              /\ writers' = [writers EXCEPT ![t].pc = "holding", ![t].slot = s,
                                        ![t].transfer = slots[s].transfer]
              /\ UNCHANGED pool
    /\ UNCHANGED <<retired, heap, driver, context, present, answers, begins>>

Holds(t) ==
    /\ pool.active /\ slots[writers[t].slot].transfer = writers[t].transfer
    /\ slots[writers[t].slot].state = "acquired"

(* vendorWriteRelease: the buffer back, unsent. *)
GiveBack(t) ==
    /\ writers[t].pc = "holding" /\ writers[t].token = Nothing
    /\ IF Holds(t)
         THEN /\ slots' = [slots EXCEPT ![writers[t].slot].state = "free"]
              /\ pool' = [pool EXCEPT !.permits = Give(@)]
         ELSE UNCHANGED <<slots, pool>>
    /\ Rests(t)
    /\ UNCHANGED <<retired, heap, driver, context, present, answers, begins>>

(* serialWriteSubmit up to the mark: a halted pipe is cleared by the       *)
(* application task and refused to the client task.                        *)
Mark(t) ==
    /\ writers[t].pc = "holding"
    /\ IF Holds(t) /\ ~(pool.halted /\ t = "client")
         THEN /\ slots' = [slots EXCEPT ![writers[t].slot].state = "inflight",
                                        ![writers[t].slot].token =
                                            IF writers[t].token = Nothing THEN @ ELSE writers[t].token]
              /\ pool' = [pool EXCEPT !.halted = FALSE]
              /\ Goes(t, "submitting")
         ELSE Rests(t) /\ UNCHANGED <<slots, pool>>
    /\ UNCHANGED <<retired, heap, driver, context, present, answers, begins>>

(* submitVendorOutSlot: usb_host_transfer_submit and what follows it; a    *)
(* full packet may want a closing one.                                     *)
SubmitSlot(t) ==
    LET write == writers[t] IN
    /\ write.pc = "submitting"
    /\ \/ /\ present /\ driver' = driver \cup {write.transfer}
          /\ answers' = IF write.token = Nothing THEN answers
                        ELSE [answers EXCEPT ![write.token].accepted = TRUE]
          /\ IF write.full THEN Goes(t, "zlp") ELSE Rests(t)
          /\ UNCHANGED <<slots, pool>>
       \/ /\ slots' = [slots EXCEPT ![write.slot].state = "free",
                                    ![write.slot].token = IF write.token = Nothing THEN @ ELSE Nothing]
          /\ pool' = [pool EXCEPT !.permits = Give(@)]
          /\ Rests(t) /\ UNCHANGED <<driver, answers>>
    /\ UNCHANGED <<retired, heap, context, present, begins>>

-----------------------------------------------------------------------------
(* sendSerial without the queue, or with more than a slot takes: a         *)
(* transfer of its own, which the completion frees.                        *)
SendOnce(t) ==
    /\ writers[t].pc = "idle" /\ present /\ UnusedTransfers # {}
    /\ heap' = [heap EXCEPT ![First(UnusedTransfers)] = "allocated"]
    /\ driver' = driver \cup {First(UnusedTransfers)}
    /\ UNCHANGED <<pool, slots, retired, writers, context, present, answers, begins>>

(* vendorWrite: a transfer of its own that the caller waits for. *)
WriteAndWait ==
    /\ writers["app"].pc = "idle" /\ present /\ UnusedTransfers # {}
    /\ LET x == First(UnusedTransfers) IN
       /\ heap' = [heap EXCEPT ![x] = "allocated"] /\ driver' = driver \cup {x}
       /\ context' = [context EXCEPT ![x] = "pending"]
       /\ writers' = [writers EXCEPT !["app"] = [AtRest EXCEPT !.pc = "waiting", !.transfer = x]]
    /\ UNCHANGED <<pool, slots, retired, present, answers, begins>>

(* The second that vendorWrite() waits is over: it leaves the transfer to  *)
(* the callback, unless the callback was first.                            *)
Abandon ==
    /\ writers["app"].pc = "waiting"
    /\ LET x == writers["app"].transfer IN
       \/ /\ context[x] = "pending" /\ context' = [context EXCEPT ![x] = "abandoned"]
          /\ Rests("app")
       \/ /\ context[x] = "callback" /\ Goes("app", "mustTake") /\ UNCHANGED context
    /\ UNCHANGED <<pool, slots, retired, heap, driver, present, answers, begins>>

(* vendorWrite gets its answer and frees the transfer. *)
TakeDone ==
    /\ writers["app"].pc \in {"waiting", "mustTake"}
    /\ context[writers["app"].transfer] = "given"
    /\ heap' = FreedIn({writers["app"].transfer}) /\ Rests("app")
    /\ UNCHANGED <<pool, slots, retired, driver, context, present, answers, begins>>

(* vendorTransferCallback: the exchange, and the give that follows it. *)
WriteReturns(x) ==
    /\ context[x] \in {"pending", "abandoned"} /\ x \in driver /\ writers["client"].pc = "idle"
    /\ driver' = driver \ {x}
    /\ IF context[x] = "abandoned"
         THEN heap' = [heap EXCEPT ![x] = IF @ = "allocated" THEN "freed" ELSE "broken"]
              /\ UNCHANGED <<context, writers>>
         ELSE context' = [context EXCEPT ![x] = "callback"] /\ UNCHANGED heap
              /\ writers' = [writers EXCEPT !["client"] = [AtRest EXCEPT !.pc = "giving", !.transfer = x]]
    /\ UNCHANGED <<pool, slots, retired, present, answers, begins>>

GiveDone ==
    /\ writers["client"].pc = "giving" /\ Rests("client")
    /\ context' = [context EXCEPT ![writers["client"].transfer] = "given"]
    /\ UNCHANGED <<pool, slots, retired, heap, driver, present, answers, begins>>

-----------------------------------------------------------------------------
Member(x) == {s \in Slots : slots[s].transfer = x}
RetiredAs(x) == {r \in retired : r.transfer = x}

(* serialOutTransferCallback: of a transfer of the pool, of a retired one  *)
(* and of one that nobody else knows.                                      *)
PooledReturns(x, failed) ==
    /\ Member(x) # {} /\ x \in driver /\ writers["client"].pc = "idle" /\ (failed \/ present)
    /\ driver' = driver \ {x}
    /\ LET s == First(Member(x)) IN
       /\ slots' = [slots EXCEPT ![s].state = "free", ![s].token = Nothing]
       /\ answers' = IF slots[s].token = Nothing THEN answers ELSE Told(slots[s].token)
    /\ pool' = [pool EXCEPT !.halted = @ \/ (failed /\ present), !.permits = Give(@)]
    /\ UNCHANGED <<retired, heap, writers, context, present, begins>>

OrphanReturns(x) ==
    /\ Member(x) = {} /\ context[x] = "none" /\ x \in driver /\ writers["client"].pc = "idle"
    /\ driver' = driver \ {x}
    /\ heap' = [heap EXCEPT ![x] = IF @ = "allocated" THEN "freed" ELSE "broken"]
    /\ retired' = retired \ RetiredAs(x)
    /\ answers' = IF RetiredAs(x) = {} THEN answers
                  ELSE Told((CHOOSE r \in RetiredAs(x) : TRUE).token)
    /\ UNCHANGED <<pool, slots, writers, context, present, begins>>

(* releaseSerialOutQueue: transfers in flight are left to their callback,  *)
(* with the token in the table of retired ones or, when that is full,      *)
(* answered as unknown.                                                    *)
InFlight == {s \in Slots : slots[s].state = "inflight" /\ slots[s].transfer # Nothing}
ReleaseFreesAll(keepTokens) ==
    /\ heap' = FreedIn({slots[s].transfer : s \in Slots} \ {Nothing})
    /\ pool' = [active |-> FALSE, halted |-> FALSE, permits |-> -1]
    /\ slots' = [s \in Slots |-> EmptySlot] /\ UNCHANGED <<retired, answers>>
ReleaseDropsTokens(keepTokens) ==
    /\ heap' = FreedIn({slots[s].transfer : s \in Slots \ InFlight} \ {Nothing})
    /\ pool' = [active |-> FALSE, halted |-> FALSE, permits |-> -1]
    /\ slots' = [s \in Slots |-> EmptySlot] /\ UNCHANGED <<retired, answers>>
Release(keepTokens) ==
    LET tokened == {s \in InFlight : slots[s].token # Nothing}
        leaving == {[transfer |-> slots[s].transfer, token |-> slots[s].token] : s \in tokened}
        room == Cardinality(retired) + Cardinality(leaving) <= RetiredSlots
    IN  /\ heap' = FreedIn({slots[s].transfer : s \in Slots \ InFlight} \ {Nothing})
        /\ slots' = [s \in Slots |->
                        [EmptySlot EXCEPT !.token = IF keepTokens THEN slots[s].token ELSE Nothing]]
        /\ retired' = IF room THEN retired \cup leaving ELSE retired
        /\ answers' = IF room THEN answers
                      ELSE [k \in PoolTokens |-> IF \E r \in leaving : r.token = k
                                                 THEN [answers[k] EXCEPT !.count = @ + 1]
                                                 ELSE answers[k]]
        /\ pool' = [active |-> FALSE, halted |-> FALSE, permits |-> -1]

(* handleDeviceGone: on the client task the pool is released at once, and  *)
(* the device's state is reset with it.                                    *)
PoolDeviceGone ==
    /\ present /\ present' = FALSE /\ writers["client"].pc = "idle"
    /\ Release(FALSE)
    /\ UNCHANGED <<driver, writers, context, begins>>

(* A device is plugged in again. *)
DeviceBack ==
    /\ ~present /\ present' = TRUE
    /\ UNCHANGED <<pool, slots, retired, heap, driver, writers, context, answers, begins>>

(* serialWriteQueueEnd *)
QueueEnd ==
    /\ writers["app"].pc = "idle" /\ pool.active
    /\ pool' = [pool EXCEPT !.active = FALSE] /\ Goes("app", "draining")
    /\ UNCHANGED <<slots, retired, heap, driver, context, present, answers, begins>>

(* serialDrainOut: nothing is in flight, or the 2 s are over.  No task is  *)
(* held up for 2 s between its mark and its submit.                        *)
Drained ==
    /\ writers["app"].pc = "draining" /\ writers["client"].pc # "submitting" /\ Rests("app")
    /\ Release(TRUE)
    /\ UNCHANGED <<driver, context, present, begins>>

PoolNext ==
    \/ QueueBegin \/ QueueEnd \/ Drained \/ PoolDeviceGone \/ DeviceBack
    \/ WriteAndWait \/ Abandon \/ TakeDone \/ GiveDone
    \/ \E t \in {"app", "client"} :
          TakePermit(t) \/ GiveUpZlp(t) \/ MarkAcquired(t) \/ GiveBack(t) \/ Mark(t)
          \/ SubmitSlot(t) \/ SendOnce(t)
    \/ \E x \in Transfers :
          WriteReturns(x) \/ OrphanReturns(x) \/ \E failed \in BOOLEAN : PooledReturns(x, failed)

PoolSpec == PoolInit /\ [][PoolNext]_poolVars

-----------------------------------------------------------------------------
(* Whatever task releases a pool, abandons a write or gets a completion,   *)
(* and in whatever order: a transfer is freed once, and never while the    *)
(* driver holds it.                                                        *)
FreedOnce == \A x \in Transfers : heap[x] # "broken"

(* The token of a write that was accepted is never forgotten: until its    *)
(* completion has been emitted, a transfer the driver holds leads to it,   *)
(* through its slot or, when the pool is gone, through the retired table.  *)
TokenNeverForgotten ==
    \A k \in PoolTokens : answers[k].accepted /\ answers[k].count = 0 =>
        \E x \in driver :
            \/ \E s \in Member(x) : slots[s].token = k
            \/ \E r \in RetiredAs(x) : r.token = k
===============================================================================
