----------------------------- MODULE UsbNetwork -----------------------------
(***************************************************************************)
(* Ethernet over USB (NCM) in the USB host.  An application task opens and *)
(* closes the interface and reads frames, another one (or lwIP) sends, and *)
(* the client task runs the callbacks of transfers and the event that the  *)
(* device is gone.  Sizes count packets of the IN endpoint; a transfer     *)
(* block (NTB) carries one frame, and a frame is the packets it was put    *)
(* together from.  The drain's limit of 2 s is left out: a sender holds    *)
(* the lock for 750 ms.                                                    *)
(***************************************************************************)
EXTENDS Integers, Sequences

CONSTANTS
    Preferred,        \* ESP_USB_HOST_NETWORK_NTB_IN_MAX in packets
    NtbLimit,         \* ESP_USB_HOST_NETWORK_NTB_IN_LIMIT in packets
    DeviceMaxima,     \* what a device says of the blocks it sends
    RingFrames,       \* frames the ring for networkReadFrame holds
    MaxNtbs, MaxSends, MaxOpens    \* bounds of the model

ASSUME NetAssumption == Preferred \in Nat /\ NtbLimit \in Nat /\ DeviceMaxima \subseteq Nat

VARIABLES
    iface,       \* DeviceState: open, linkUp, size of a block, netif attached
    asm,         \* networkAsm and networkAsmExpected
    ring,        \* networkRxRing
    wire,        \* external: the block the device is sending, and its sizes
    received,    \* history: headers that arrived, frames delivered
    sender,      \* where networkSendFrameInternal is
    txLock,      \* who holds networkTxLock
    out,         \* networkOutTransfer
    outDone,     \* networkOutDone
    app, client, \* where the application and the client task are
    opens, sends

rxVars == <<asm, ring, wire, received>>
txVars == <<sender, txLock, out, outDone, sends>>
netVars == <<iface, rxVars, txVars, app, client, opens>>

Closed ==
    [open |-> FALSE, receiving |-> FALSE, linkUp |-> FALSE, ntbIn |-> 0, netif |-> FALSE]
NoAsm == [packets |-> <<>>, expected |-> 0]
NoBlock == [ntb |-> 0, length |-> 0, next |-> 1]

NetInit ==
    /\ iface = Closed /\ asm = NoAsm /\ ring = <<>>
    /\ wire = [block |-> NoBlock, sent |-> 0, limit |-> 1, kept |-> TRUE]
    /\ received = [headers |-> {}, frames |-> <<>>, oversized |-> FALSE]
    /\ sender = "idle" /\ txLock = "free" /\ out = "none" /\ outDone = FALSE
    /\ app = "idle" /\ client = "loop" /\ opens = 0 /\ sends = 0

Smaller(a, b) == IF a < b THEN a ELSE b
Larger(a, b) == IF a > b THEN a ELSE b

NtbInput(known, max, accepted) ==
    CASE ~known -> Preferred
      [] known /\ max <= Preferred -> max
      [] known /\ max > Preferred /\ accepted -> Preferred
      [] OTHER -> Larger(Smaller(max, NtbLimit), Preferred)

(* startNetworkEndpoints: without a transfer nothing is received, and the  *)
(* interface is open all the same.                                         *)
StartEndpoints == BOOLEAN

(* claimNetworkInterface *)
Claim(known, max, accepted) ==
    LET lowered == known /\ max > Preferred /\ accepted
    IN /\ \E started \in StartEndpoints :
            iface' = [Closed EXCEPT !.open = TRUE, !.receiving = started,
                                    !.ntbIn = NtbInput(known, max, accepted)]
       /\ wire' = [wire EXCEPT !.block = NoBlock,
                               !.limit = IF lowered THEN Preferred ELSE max,
                               !.kept = known /\ (lowered \/ max <= NtbLimit)]
       /\ asm' = NoAsm /\ ring' = <<>>
       /\ received' = [received EXCEPT !.oversized = FALSE]

(* networkOpen: an allocation or a claim may fail, and nothing is kept. *)
NetOpen ==
    /\ app = "idle" /\ client = "loop" /\ ~iface.open
    /\ opens < MaxOpens /\ opens' = opens + 1
    /\ \/ UNCHANGED <<iface, rxVars>>
       \/ \E max \in DeviceMaxima, known, accepted \in BOOLEAN : Claim(known, max, accepted)
    /\ UNCHANGED <<txVars, app, client>>

(* networkStartNetif and networkStopNetif: lwIP gets the frames. *)
StartNetif ==
    /\ app = "idle" /\ iface.open /\ ~iface.netif
    /\ iface' \in {iface, [iface EXCEPT !.netif = TRUE]}
    /\ UNCHANGED <<rxVars, txVars, app, client, opens>>

StopNetif ==
    /\ app = "idle" /\ iface.netif
    /\ iface' = [iface EXCEPT !.netif = FALSE]
    /\ UNCHANGED <<rxVars, txVars, app, client, opens>>

(* releaseNetworkInterface: no new sends, then the sender's lock. *)
NetClose ==
    /\ app = "idle" /\ iface.open
    /\ iface' = [iface EXCEPT !.open = FALSE, !.linkUp = FALSE, !.netif = FALSE]
    /\ app' = "drain"
    /\ UNCHANGED <<rxVars, txVars, client, opens>>

(* handleDeviceGone runs in the client task and drains there. *)
NetGone ==
    /\ client = "loop" /\ iface.open
    /\ iface' = [iface EXCEPT !.open = FALSE, !.linkUp = FALSE, !.netif = FALSE]
    /\ client' = "drain"
    /\ UNCHANGED <<rxVars, txVars, app, opens>>

(* networkDrainTx: with the lock, the OUT transfer is freed; a transfer    *)
(* whose callback has not run is lost to the library.                      *)
DrainTx ==
    /\ txLock = "free"
    /\ out' = IF out = "flight" THEN "freed in flight" ELSE "none"
    /\ UNCHANGED <<sender, txLock, outDone, sends>>

NetReleased ==
    /\ \/ app = "drain" /\ app' = "idle" /\ UNCHANGED client
       \/ client = "drain" /\ client' = "loop" /\ UNCHANGED app
    /\ DrainTx
    /\ iface' = Closed /\ asm' = NoAsm /\ ring' = <<>>
    /\ UNCHANGED <<wire, received, opens>>

-----------------------------------------------------------------------------
(* Sending: the calling task. *)

(* networkSendFrameInternal: the interface, then its lock, up to 1 s. *)
NetSend ==
    /\ sender = "idle" /\ iface.open
    /\ sends < MaxSends /\ sends' = sends + 1
    /\ sender' = "lock"
    /\ UNCHANGED <<iface, rxVars, txLock, out, outDone, app, client, opens>>

TakeLock ==
    /\ sender = "lock"
    /\ \/ txLock = "free" /\ txLock' = "sender" /\ sender' = "locked"
       \/ sender' = "idle" /\ UNCHANGED txLock
    /\ UNCHANGED <<iface, rxVars, out, outDone, sends, app, client, opens>>

StillOpenForgotten == TRUE
StillOpen == iface.open

(* networkSendLocked: nothing is sent on an interface closed meanwhile.    *)
(* The library takes no transfer that is already in flight.                *)
SendLocked ==
    /\ sender = "locked"
    /\ \/ /\ StillOpen /\ out \in {"none", "kept"}
          /\ out' = "flight" /\ outDone' = FALSE /\ sender' = "wait" /\ UNCHANGED txLock
       \/ /\ sender' = "idle" /\ txLock' = "free" /\ UNCHANGED <<out, outDone>>
    /\ UNCHANGED <<iface, rxVars, sends, app, client, opens>>

SendDone ==
    /\ sender \in {"wait", "flush"} /\ outDone
    /\ sender' = "idle" /\ txLock' = "free" /\ outDone' = FALSE
    /\ UNCHANGED <<iface, rxVars, out, sends, app, client, opens>>

(* 250 ms, then the endpoint is cleared and the callback of the cancelled  *)
(* transfer awaited for 500 ms: it comes unless the client task, which     *)
(* runs it, is waiting for this sender.                                    *)
SendTimeout ==
    /\ sender \in {"wait", "flush"} /\ ~outDone
    /\ \/ sender = "wait" /\ sender' = "flush" /\ UNCHANGED txLock
       \/ sender = "flush" /\ client = "drain" /\ sender' = "idle" /\ txLock' = "free"
    /\ UNCHANGED <<iface, rxVars, out, outDone, sends, app, client, opens>>

(* syncTransferCallback, in the client task: it gives the semaphore of the *)
(* context on the sender's stack.                                          *)
SendCallback ==
    /\ client = "loop" /\ out \in {"flight", "freed in flight"}
    /\ out' = IF out = "flight" THEN "kept" ELSE "none"
    /\ outDone' = TRUE
    /\ UNCHANGED <<iface, rxVars, sender, txLock, sends, app, client, opens>>

-----------------------------------------------------------------------------
(* Receiving: callbacks in the client task. *)

(* The device starts a block; the packets of one follow each other. *)
NextBlock ==
    /\ wire.block = NoBlock /\ wire.sent < MaxNtbs /\ iface.open
    /\ \E length \in 1..wire.limit :
         wire' = [wire EXCEPT !.sent = @ + 1,
                              !.block = [ntb |-> wire.sent + 1, length |-> length, next |-> 1]]
    /\ UNCHANGED <<iface, asm, ring, received, txVars, app, client, opens>>

Advanced ==
    LET b == wire.block
    IN  [wire EXCEPT !.block = IF b.next = b.length THEN NoBlock ELSE [b EXCEPT !.next = @ + 1]]

(* A completion that is dropped or in error. *)
PacketLost ==
    /\ wire.block # NoBlock /\ wire' = Advanced
    /\ UNCHANGED <<iface, asm, ring, received, txVars, app, client, opens>>

(* deliverNetworkFrame: to lwIP, or into the ring unless that is full. *)
Deliver(heard, frame) ==
    /\ received' = [heard EXCEPT !.frames = Append(@, frame)]
    /\ ring' = IF iface.netif \/ Len(ring) >= RingFrames THEN ring ELSE Append(ring, frame)

(* A header while a block is under way means that block lost its end. *)
ResyncedNever(header) == asm
Resynced(header) == IF header THEN NoAsm ELSE asm

(* handleNetworkInput, parseNetworkNtb *)
PacketArrives ==
    /\ client = "loop" /\ iface.open /\ iface.receiving
    /\ wire.block # NoBlock /\ wire' = Advanced
    /\ LET b == wire.block
           header == b.next = 1
           packet == [ntb |-> b.ntb, k |-> b.next]
           heard == [received EXCEPT !.headers = IF header THEN @ \cup {b.ntb} ELSE @]
           was == Resynced(header)
           starts == was.packets = <<>>
           expected == IF starts THEN b.length ELSE was.expected
           packets == IF Len(was.packets) < iface.ntbIn THEN Append(was.packets, packet)
                      ELSE was.packets
       IN CASE starts /\ ~header ->
                 asm' = was /\ received' = heard /\ UNCHANGED ring
            [] starts /\ header /\ b.length > iface.ntbIn ->
                 /\ asm' = was /\ UNCHANGED ring
                 /\ received' = [heard EXCEPT !.oversized = TRUE]
            [] ~(starts /\ (~header \/ b.length > iface.ntbIn)) /\ Len(packets) < expected ->
                 /\ asm' = [packets |-> packets, expected |-> expected]
                 /\ received' = heard /\ UNCHANGED ring
            [] OTHER ->
                 /\ asm' = NoAsm
                 /\ Deliver(heard, packets)
    /\ UNCHANGED <<iface, txVars, app, client, opens>>

(* handleNetworkNotification *)
LinkChanges ==
    /\ client = "loop" /\ iface.open
    /\ iface' = [iface EXCEPT !.linkUp = ~@]
    /\ UNCHANGED <<rxVars, txVars, app, client, opens>>

(* networkReadFrame *)
NetRead ==
    /\ app = "idle" /\ iface.open /\ ring # <<>> /\ ring' = Tail(ring)
    /\ UNCHANGED <<iface, asm, wire, received, txVars, app, client, opens>>

NetNext ==
    \/ NetOpen \/ StartNetif \/ StopNetif \/ NetClose \/ NetGone \/ NetReleased
    \/ NetSend \/ TakeLock \/ SendLocked \/ SendDone \/ SendTimeout \/ SendCallback
    \/ NextBlock \/ PacketLost \/ PacketArrives \/ LinkChanges \/ NetRead

NetSpec == NetInit /\ [][NetNext]_netVars

(***************************************************************************)
(* Properties                                                              *)
(***************************************************************************)

(* handleNetworkInput: a frame starts with the header of its block, and a  *)
(* packet of another block is in it only if that block's header was lost.  *)
FramesAreWhole ==
    \A i \in DOMAIN received.frames :
        LET frame == received.frames[i]
        IN /\ frame[1].k = 1
           /\ \A j \in DOMAIN frame :
                frame[j].ntb # frame[1].ntb => frame[j].ntb \notin received.headers

(* negotiateNetworkNtbInput: a device that told its maximum, and either    *)
(* took a smaller one or stays below the limit, sends no block that is too *)
(* large to be received.                                                   *)
NegotiatedIsReceived == iface.open /\ wire.kept => ~received.oversized

(* What handleNetworkInput makes of the blocks of a device that keeps to    *)
(* what was negotiated.                                                    *)
BlocksReceived == FramesAreWhole /\ NegotiatedIsReceived

(* networkSendFrameInternal and networkDrainTx: once an interface has been *)
(* released, nobody is sending through it.                                 *)
NobodySendsAfterRelease ==
    ~iface.open /\ app = "idle" /\ client = "loop" => sender \notin {"wait", "flush"}

(* The comment in networkSendLocked (EspUsbHost.cpp:13063-13066): after a  *)
(* timeout the sender reclaims the transfer "before returning so the       *)
(* transfer is safe to reuse and the stack-allocated context is not        *)
(* referenced after we return".                                            *)
ContextOutlivesTransfer ==
    out \in {"flight", "freed in flight"} => sender \in {"wait", "flush"}
=============================================================================
