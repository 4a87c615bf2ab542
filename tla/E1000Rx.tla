------------------------------- MODULE E1000Rx -------------------------------
(***************************************************************************)
(* The receive side of the Intel e1000 driver,                             *)
(* src/src/drivers/net/e1000/e1000.c: the receive descriptor ring shared   *)
(* with the device, the shadow array rx_skbs, the skb pool the driver      *)
(* allocates replacement buffers from, and the interrupt-context poll      *)
(* e1000_rx that harvests completed descriptors, swaps in a fresh buffer   *)
(* (zero-copy) or re-posts the same one, hands frames to netif_rx and      *)
(* finally returns the consumed span to the device by one store to RDT.    *)
(*                                                                         *)
(* The device side is modelled from the register protocol the driver       *)
(* relies on: it owns the descriptors from RDH up to, not including, RDT;  *)
(* it DMAs an arriving frame into the buffer of descriptor RDH, sets its   *)
(* status and advances RDH; with RDH = RDT it has no descriptor and drops  *)
(* the frame (receive overrun). Both raise an RX interrupt cause.          *)
(*                                                                         *)
(* Frames are numbered 1, 2, ... in the order they arrive on the wire; a   *)
(* buffer's contents are abstracted to the number of the frame last DMA'd  *)
(* into it (0: never written). The history variables delivered, swDropped *)
(* and hwDropped record where each frame went.                             *)
(***************************************************************************)
EXTENDS Naturals, Sequences, FiniteSets, Functions

CONSTANTS
    N,        \* E1000_RXDESC_NR: descriptors in the receive ring
    Buf,      \* the packet buffers of the skb pool
    NoBuf,    \* a null buffer pointer
    MaxRecv   \* how many frames arrive on the wire (bounds the model)

ASSUME RingSizeAssumption == N \in Nat /\ N >= 2
ASSUME BufAssumption == NoBuf \notin Buf
ASSUME MaxRecvAssumption == MaxRecv \in Nat

Slot == 0 .. N - 1

\* Frame numbers; 0 stands for a buffer no frame was ever written into.
FrameNo == 0 .. MaxRecv

VARIABLES
    rdh,          \* E1000_REG_RDH: the device's next descriptor to fill
    rdt,          \* E1000_REG_RDT: the last descriptor software returned
    rxDescAddr,   \* rx_descs[i].buffer_address
    rxDescStatus, \* rx_descs[i].status: set by the device, never cleared
    rxSkbs,       \* rx_skbs[i]: the shadow array, buffer owning slot i
    bufFrame,     \* the frame each buffer currently holds
    free,         \* buffers free in the skb pool
    stackBufs,    \* buffers given to netif_rx and still held by the stack
    icrRx,        \* ICR.RXT0 | ICR.RXO pending
    rx,           \* e1000_rx's locals while it runs: pc, head, tail, cur
    recvd,        \* frames that have arrived on the wire so far
    delivered,    \* history: frames passed to netif_rx, in order
    swDropped,    \* history: frames the driver dropped (filter, no memory)
    hwDropped     \* history: frames the device dropped (no descriptor)

ringVars == <<rdh, rdt, rxDescAddr, rxDescStatus, rxSkbs>>
poolVars == <<bufFrame, free, stackBufs>>
histVars == <<recvd, delivered, swDropped, hwDropped>>
vars == <<ringVars, poolVars, icrRx, rx, histVars>>

(***************************************************************************)
(* Ring arithmetic. Slot i lies in the half-open cyclic interval [a, b).   *)
(***************************************************************************)
InCyc(i, a, b) == (i - a + N) % N < (b - a + N) % N

\* The descriptors the device may fill: from RDH up to RDT.
HwOwned(i) == InCyc(i, rdh, rdt)

\* The last slot software has consumed: RDT, or e1000_rx's local tail
\* while it runs (RDT is only stored at the end of the poll).
SwTail == IF rx.pc = "loop" THEN rx.tail ELSE rdt

\* Completed descriptors software has not consumed yet.
Completed(i) == InCyc(i, (SwTail + 1) % N, rdh)

RxState == [pc : {"idle", "loop"}, head : Slot, tail : Slot, cur : Slot]

(***************************************************************************)
(* Initial state: e1000_open has allocated one buffer per slot             *)
(* (e1000_alloc_dma_rx), written their addresses into the descriptors,     *)
(* set RDH = 0 and RDT = N - 1, so the device owns slots 0 .. N-2. The     *)
(* descriptors were zeroed by the memset in e1000_init.                    *)
(***************************************************************************)
Init ==
    /\ \E f \in Injection(Slot, Buf) :
          /\ rxSkbs = f
          /\ rxDescAddr = f
          /\ free = Buf \ Range(f)
    /\ rdh = 0
    /\ rdt = N - 1
    /\ rxDescStatus = [i \in Slot |-> FALSE]
    /\ bufFrame = [b \in Buf |-> 0]
    /\ stackBufs = {}
    /\ icrRx = FALSE
    /\ rx = [pc |-> "idle", head |-> 0, tail |-> 0, cur |-> 0]
    /\ recvd = 0
    /\ delivered = << >>
    /\ swDropped = {}
    /\ hwDropped = {}

(***************************************************************************)
(* The device.                                                             *)
(***************************************************************************)

\* A frame arrives and the device has a descriptor: DMA into its buffer,
\* write back the status, advance RDH, raise RXT0.
HwReceive ==
    /\ recvd < MaxRecv
    /\ rdh # rdt
    /\ bufFrame' = [bufFrame EXCEPT ![rxDescAddr[rdh]] = recvd + 1]
    /\ rxDescStatus' = [rxDescStatus EXCEPT ![rdh] = TRUE]
    /\ rdh' = (rdh + 1) % N
    /\ recvd' = recvd + 1
    /\ icrRx' = TRUE
    /\ UNCHANGED <<rdt, rxDescAddr, rxSkbs, free, stackBufs, rx,
                   delivered, swDropped, hwDropped>>

\* A frame arrives and the device owns no descriptor: it is lost, RXO.
HwOverrun ==
    /\ recvd < MaxRecv
    /\ rdh = rdt
    /\ hwDropped' = hwDropped \cup {recvd + 1}
    /\ recvd' = recvd + 1
    /\ icrRx' = TRUE
    /\ UNCHANGED <<ringVars, poolVars, rx, delivered, swDropped>>

(***************************************************************************)
(* e1000_rx, run from e1000_interrupt when ICR shows RXT0 or RXO. The      *)
(* whole poll holds irq_lock, so no other driver code runs until it ends;  *)
(* the device keeps running. Reading ICR clears the cause.                 *)
(***************************************************************************)

\* Lines 239-243, 188-192: read ICR, RDH and RDT; cur = tail + 1.
RxPollBegin ==
    /\ icrRx
    /\ rx.pc = "idle"
    /\ icrRx' = FALSE
    /\ rx' = [pc |-> "loop", head |-> rdh, tail |-> rdt,
              cur |-> (rdt + 1) % N]
    /\ UNCHANGED <<ringVars, poolVars, histVars>>

\* Mutant: the loop trusts the status bit alone, without the bound at RDH.
HarvestableNoHeadCheck ==
    /\ rx.pc = "loop"
    /\ rxDescStatus[rx.cur]

\* The loop condition and the status test (lines 194-199).
Harvestable ==
    /\ rx.pc = "loop"
    /\ rx.cur # rx.head
    /\ rxDescStatus[rx.cur]

\* Mutant: cur is advanced without the wrap modulo E1000_RXDESC_NR.
AdvanceNoWrap == rx' = [rx EXCEPT !.tail = rx.cur, !.cur = rx.cur + 1]

\* tail = cur; cur = tail + 1 (lines 227-230).
Advance == rx' = [rx EXCEPT !.tail = rx.cur, !.cur = (rx.cur + 1) % N]

\* Mutant: a dropped frame leaves the poll at once (goto out_unlock instead
\* of drop_pack), without storing RDT.
RxDropLeaves ==
    /\ Harvestable
    /\ swDropped' = swDropped \cup {bufFrame[rxDescAddr[rx.cur]]}
    /\ rx' = [rx EXCEPT !.pc = "idle"]
    /\ UNCHANGED <<ringVars, poolVars, icrRx, recvd, delivered, hwDropped>>

\* The frame is dropped, the same buffer stays posted in the slot: either
\* nf_test_raw rejects it (line 203) or skb_alloc fails (line 211).
RxDrop ==
    /\ Harvestable
    /\ swDropped' = swDropped \cup {bufFrame[rxDescAddr[rx.cur]]}
    /\ Advance
    /\ UNCHANGED <<ringVars, poolVars, icrRx, recvd, delivered, hwDropped>>

\* Mutant: the descriptor keeps the old buffer's address (line 218 missing).
RxDeliverKeepsDescAddr ==
    /\ Harvestable
    /\ \E b \in free :
          LET old == rxSkbs[rx.cur] IN
          /\ free' = free \ {b}
          /\ rxSkbs' = [rxSkbs EXCEPT ![rx.cur] = b]
          /\ stackBufs' = stackBufs \cup {old}
          /\ delivered' = Append(delivered, bufFrame[old])
    /\ Advance
    /\ UNCHANGED <<rdh, rdt, rxDescAddr, rxDescStatus, bufFrame, icrRx, recvd,
                   swDropped, hwDropped>>

\* Mutant: rx_skbs[cur] keeps the old skb (line 216 missing); only the
\* descriptor gets the new buffer.
RxDeliverKeepsSkb ==
    /\ Harvestable
    /\ \E b \in free :
          LET old == rxSkbs[rx.cur] IN
          /\ free' = free \ {b}
          /\ rxDescAddr' = [rxDescAddr EXCEPT ![rx.cur] = b]
          /\ stackBufs' = stackBufs \cup {old}
          /\ delivered' = Append(delivered, bufFrame[old])
    /\ Advance
    /\ UNCHANGED <<rdh, rdt, rxSkbs, rxDescStatus, bufFrame, icrRx, recvd,
                   swDropped, hwDropped>>

\* Mutant: netif_rx is given the fresh buffer instead of the received one.
RxDeliverNewSkb ==
    /\ Harvestable
    /\ \E b \in free :
          LET old == rxSkbs[rx.cur] IN
          /\ free' = free \ {b}
          /\ rxSkbs' = [rxSkbs EXCEPT ![rx.cur] = b]
          /\ rxDescAddr' = [rxDescAddr EXCEPT ![rx.cur] = b]
          /\ stackBufs' = stackBufs \cup {old}
          /\ delivered' = Append(delivered, bufFrame[b])
    /\ Advance
    /\ UNCHANGED <<rdh, rdt, rxDescStatus, bufFrame, icrRx, recvd,
                   swDropped, hwDropped>>

\* Zero-copy swap (lines 211-226): a fresh buffer b goes into the slot and
\* its descriptor, the old one, holding the frame, goes to netif_rx.
RxDeliver ==
    /\ Harvestable
    /\ \E b \in free :
          LET old == rxSkbs[rx.cur] IN
          /\ free' = free \ {b}
          /\ rxSkbs' = [rxSkbs EXCEPT ![rx.cur] = b]
          /\ rxDescAddr' = [rxDescAddr EXCEPT ![rx.cur] = b]
          /\ stackBufs' = stackBufs \cup {old}
          /\ delivered' = Append(delivered, bufFrame[old])
    /\ Advance
    /\ UNCHANGED <<rdh, rdt, rxDescStatus, bufFrame, icrRx, recvd,
                   swDropped, hwDropped>>

\* Loop exit, at RDH or at a descriptor without status: store the last
\* consumed slot in RDT in one step (line 232) and unlock.
RxPollEnd ==
    /\ rx.pc = "loop"
    /\ rx.cur = rx.head \/ ~rxDescStatus[rx.cur]
    /\ rdt' = rx.tail
    /\ rx' = [rx EXCEPT !.pc = "idle"]
    /\ UNCHANGED <<rdh, rxDescAddr, rxDescStatus, rxSkbs, poolVars, icrRx,
                   histVars>>

(***************************************************************************)
(* The network stack releases a buffer netif_rx gave it (skb_free).        *)
(***************************************************************************)
StackFree ==
    \E b \in stackBufs :
        /\ stackBufs' = stackBufs \ {b}
        /\ free' = free \cup {b}
        /\ UNCHANGED <<ringVars, bufFrame, icrRx, rx, histVars>>

Next ==
    \/ HwReceive
    \/ HwOverrun
    \/ RxPollBegin
    \/ RxDrop
    \/ RxDeliver
    \/ RxPollEnd
    \/ StackFree

(***************************************************************************)
(* Fairness: a pending RX cause is eventually serviced (the interrupt is   *)
(* enabled by e1000_open and every irq_lock section is finite), and a poll *)
(* that has begun runs to its end. The device and the stack get none.      *)
(***************************************************************************)
Fairness ==
    /\ WF_vars(RxPollBegin)
    /\ WF_vars(RxDrop \/ RxDeliver)
    /\ WF_vars(RxPollEnd)

Spec == Init /\ [][Next]_vars /\ Fairness

-----------------------------------------------------------------------------
(***************************************************************************)
(* Properties.                                                             *)
(***************************************************************************)

TypeOK ==
    /\ rdh \in Slot
    /\ rdt \in Slot
    /\ rxDescAddr \in [Slot -> Buf]
    /\ rxDescStatus \in [Slot -> BOOLEAN]
    /\ rxSkbs \in [Slot -> Buf]
    /\ bufFrame \in [Buf -> FrameNo]
    /\ free \subseteq Buf
    /\ stackBufs \subseteq Buf
    /\ icrRx \in BOOLEAN
    /\ rx \in RxState
    /\ recvd \in FrameNo
    /\ delivered \in Seq(FrameNo)
    /\ swDropped \subseteq FrameNo
    /\ hwDropped \subseteq FrameNo

(***************************************************************************)
(* Buffer ownership (the zero-copy swap in e1000_rx and the stack's        *)
(* skb_free): every buffer has at most one owner among the ring slots, the *)
(* pool and the stack, and the buffer the device DMAs into, the one in     *)
(* the descriptor, is the one rx_skbs says the slot owns. So the device    *)
(* never writes a buffer the stack or the pool holds.                      *)
(***************************************************************************)
BufferOwnership ==
    /\ IsInjective(rxSkbs)
    /\ Range(rxSkbs) \cap free = {}
    /\ Range(rxSkbs) \cap stackBufs = {}
    /\ free \cap stackBufs = {}
    /\ \A i \in Slot : rxDescAddr[i] = rxSkbs[i]

(***************************************************************************)
(* Frames reach netif_rx in the order they arrived on the wire, each at    *)
(* most once (e1000_rx starting at RDT + 1 and stopping at the RDH it read *)
(* on entry), and never a stale buffer's contents.                         *)
(***************************************************************************)
InOrderDelivery ==
    /\ \A i \in 1 .. Len(delivered) : delivered[i] \in 1 .. recvd
    /\ \A i, j \in 1 .. Len(delivered) : i < j => delivered[i] < delivered[j]

(***************************************************************************)
(* No frame vanishes: every frame that arrived is in exactly one place:    *)
(* dropped by the device, waiting in a completed descriptor, dropped by    *)
(* e1000_rx, or delivered.                                                 *)
(***************************************************************************)
Waiting == {bufFrame[rxSkbs[i]] : i \in {s \in Slot : Completed(s)}}

FrameAccounting ==
    \A k \in 1 .. recvd :
        Cardinality({w \in {"hw", "ring", "sw", "up"} :
                        \/ w = "hw" /\ k \in hwDropped
                        \/ w = "ring" /\ k \in Waiting
                        \/ w = "sw" /\ k \in swDropped
                        \/ w = "up" /\ k \in Range(delivered)}) = 1

(***************************************************************************)
(* Starvation freedom: once frames stop arriving, the driver eventually    *)
(* gives the device back every descriptor but the sentinel, N - 1 of them, *)
(* even if every skb_alloc failed (e1000_rx re-posts the same buffer).     *)
(***************************************************************************)
RingReplenished == <>[](rx.pc = "idle" /\ (rdt + 1) % N = rdh)


(***************************************************************************)
(* Refinement: the receive path is a lossy FIFO channel (RxChannel). The   *)
(* channel's queue is the frames in the completed descriptors e1000_rx    *)
(* has not consumed, read from the slot after SwTail up to RDH. A frame    *)
(* the device writes joins the queue's end; an overrun is a loss; each     *)
(* harvested slot takes the queue's head, dropped or given to netif_rx.    *)
(***************************************************************************)
RxQueue ==
    LET first == (SwTail + 1) % N IN
    [k \in 1 .. (rdh - first + N) % N |-> bufFrame[rxSkbs[(first + k - 1) % N]]]

Channel == INSTANCE RxChannel WITH queue <- RxQueue

ImplementsRxChannel == Channel!Spec

=============================================================================
