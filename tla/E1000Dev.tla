------------------------------ MODULE E1000Dev ------------------------------
(***************************************************************************)
(* The receive side of the e1000 driver across the device's lifecycle      *)
(* (src/src/drivers/net/e1000/e1000.c): e1000_init zeroes the private      *)
(* state, e1000_open allocates one skb per RX slot (e1000_alloc_dma_rx)    *)
(* and, if an allocation fails, frees every rx_skbs entry                  *)
(* (e1000_free_dma_rx) and fails; e1000_stop resets the device and frees   *)
(* every rx_skbs entry. Between open and stop the device receives and      *)
(* e1000_rx polls exactly as in E1000Rx, whose actions are reused here.    *)
(*                                                                         *)
(* The skb pool is shared: other users (the stack, other drivers) take     *)
(* buffers from it and give them back at any time, so an allocation in    *)
(* e1000_open may fail after any number of successes. Neither loop clears *)
(* rx_skbs, so after a failed open or a stop the array still holds         *)
(* pointers to buffers the driver has given back.                          *)
(***************************************************************************)
EXTENDS Naturals, Sequences, FiniteSets, Functions

CONSTANTS N, Buf, NoBuf, MaxRecv,
          MaxOpen   \* how many times the stack calls e1000_open

VARIABLES rdh, rdt, rxDescAddr, rxDescStatus, rxSkbs, bufFrame, free,
          stackBufs, icrRx, rx, recvd, delivered, swDropped, hwDropped,
          devUp,      \* the device is open: RX enabled, interrupts unmasked
          opens,      \* calls of e1000_open so far
          resetLost   \* history: frames a reset discarded from the ring

Rx == INSTANCE E1000Rx

ASSUME MaxOpenAssumption == MaxOpen \in Nat

ringVars == <<rdh, rdt, rxDescAddr, rxDescStatus, rxSkbs>>
histVars == <<recvd, delivered, swDropped, hwDropped>>
devVars == <<devUp, opens, resetLost>>
vars == <<ringVars, bufFrame, free, stackBufs, icrRx, rx, histVars, devVars>>

SlotOrNull == Buf \cup {NoBuf}

(***************************************************************************)
(* e1000_init (lines 426-429): the memset zeroes rx_skbs and the           *)
(* descriptors; the device is not yet open and every buffer is in the pool.*)
(***************************************************************************)
Init ==
    /\ rxSkbs = [i \in Rx!Slot |-> NoBuf]
    /\ rxDescAddr = [i \in Rx!Slot |-> NoBuf]
    /\ rxDescStatus = [i \in Rx!Slot |-> FALSE]
    /\ rdh = 0
    /\ rdt = 0
    /\ bufFrame = [b \in Buf |-> 0]
    /\ free = Buf
    /\ stackBufs = {}
    /\ icrRx = FALSE
    /\ rx = [pc |-> "idle", head |-> 0, tail |-> 0, cur |-> 0]
    /\ recvd = 0
    /\ delivered = << >>
    /\ swDropped = {}
    /\ hwDropped = {}
    /\ devUp = FALSE
    /\ opens = 0
    /\ resetLost = {}

\* skb_free of every rx_skbs entry (lines 287-293); skb_free(NULL) is a
\* no-op. The pool does not know who else holds a buffer it is given.
FreeDmaRx(skbs) == free \cup ({skbs[i] : i \in Rx!Slot} \ {NoBuf})

\* Mutant: RDT is written with E1000_RXDESC_NR instead of E1000_RXDESC_NR - 1.
RingStartRdtN == rdh' = 0 /\ rdt' = N

\* Mutant: RDT is written 0, as for the transmit ring.
RingStartRdtZero == rdh' = 0 /\ rdt' = 0

\* RDH = 0, RDT = N - 1: the device owns all slots but the sentinel
\* (lines 347-348).
RingStart == rdh' = 0 /\ rdt' = N - 1

(***************************************************************************)
(* e1000_open (lines 295-368). The allocation loop (274-285) takes k       *)
(* buffers and then, if k < N, meets a failed skb_alloc: rx_skbs[0..k-1]   *)
(* are the new buffers, rx_skbs[k..N-1] keep whatever they held, and all N *)
(* entries are freed. Otherwise the descriptors get the buffers' addresses *)
(* (338-341), RDH = 0, RDT = N - 1 (347-348), and interrupts are unmasked. *)
(* The status bytes of the descriptors are not cleared.                    *)
(***************************************************************************)
Open ==
    /\ ~devUp
    /\ opens < MaxOpen
    /\ \E k \in 0 .. N :
       \E new \in Injection(0 .. k - 1, free) :
          LET skbs == [i \in Rx!Slot |-> IF i < k THEN new[i] ELSE rxSkbs[i]]
          IN  /\ rxSkbs' = skbs
              /\ IF k = N
                    THEN /\ rxDescAddr' = skbs
                         /\ free' = free \ Range(new)
                         /\ RingStart
                         /\ devUp' = TRUE
                    ELSE /\ free' = FreeDmaRx(skbs)
                         /\ UNCHANGED <<rxDescAddr, rdh, rdt, devUp>>
    /\ opens' = opens + 1
    /\ UNCHANGED <<rxDescStatus, bufFrame, stackBufs, icrRx, rx, histVars,
                   resetLost>>

(***************************************************************************)
(* e1000_stop (lines 370-378), in task context, so never in the middle of  *)
(* an e1000_rx poll: CTRL.RST resets the device, which drops what it was   *)
(* receiving, clears ICR and the ring registers; then every rx_skbs entry  *)
(* is freed. rx_skbs itself is left as it was.                             *)
(***************************************************************************)
Stop ==
    /\ devUp
    /\ rx.pc = "idle"
    /\ resetLost' = resetLost \cup Rx!Waiting
    /\ free' = FreeDmaRx(rxSkbs)
    /\ devUp' = FALSE
    /\ icrRx' = FALSE
    /\ rdh' = 0
    /\ rdt' = 0
    /\ UNCHANGED <<rxDescAddr, rxDescStatus, rxSkbs, bufFrame, stackBufs, rx,
                   histVars, opens>>

\* Another user of the skb pool allocates a buffer (the stack sending, or
\* another driver); StackFree gives such buffers back.
OtherAlloc ==
    \E b \in free :
        /\ free' = free \ {b}
        /\ stackBufs' = stackBufs \cup {b}
        /\ UNCHANGED <<ringVars, bufFrame, icrRx, rx, histVars, devVars>>

\* The device receives only while open (RCTL.EN is set by e1000_open).
DevRx ==
    /\ devUp
    /\ Rx!HwReceive \/ Rx!HwOverrun
    /\ UNCHANGED devVars

\* e1000_rx, run by e1000_interrupt on an RX cause (lines 242-245).
PollBegin == Rx!RxPollBegin /\ UNCHANGED devVars
PollStep == (Rx!RxDrop \/ Rx!RxDeliver) /\ UNCHANGED devVars
PollEnd == Rx!RxPollEnd /\ UNCHANGED devVars

\* The stack or another pool user frees a buffer it holds.
OtherFree == Rx!StackFree /\ UNCHANGED devVars

Next ==
    \/ Open
    \/ Stop
    \/ DevRx
    \/ PollBegin
    \/ PollStep
    \/ PollEnd
    \/ OtherAlloc
    \/ OtherFree

(***************************************************************************)
(* As in E1000Rx: a pending RX cause is serviced and a poll runs to its    *)
(* end. The stack's calls of open and stop, the device and the other pool  *)
(* users get no fairness.                                                  *)
(***************************************************************************)
Fairness ==
    /\ WF_vars(PollBegin)
    /\ WF_vars(PollStep)
    /\ WF_vars(PollEnd)

Spec == Init /\ [][Next]_vars /\ Fairness

-----------------------------------------------------------------------------
TypeOK ==
    /\ rdh \in Rx!Slot
    /\ rdt \in Rx!Slot
    /\ rxSkbs \in [Rx!Slot -> SlotOrNull]
    /\ rxDescAddr \in [Rx!Slot -> SlotOrNull]
    /\ free \subseteq Buf
    /\ stackBufs \subseteq Buf
    /\ rx \in Rx!RxState
    /\ devUp \in BOOLEAN
    /\ opens \in 0 .. MaxOpen
    /\ resetLost \subseteq Rx!FrameNo

(***************************************************************************)
(* One owner per buffer across open, stop and reopen (spec, section 8: a   *)
(* buffer is never reachable from two owners): no buffer is both in the    *)
(* pool and held by another pool user, and while the device is open the   *)
(* ring's buffers are owned by the ring alone. e1000_free_dma_rx frees     *)
(* stale rx_skbs pointers left by e1000_stop or by an earlier failed open. *)
(***************************************************************************)
PoolSingleOwner ==
    /\ free \cap stackBufs = {}
    /\ devUp => Rx!BufferOwnership

(***************************************************************************)
(* Starvation freedom across restarts: whatever sequence of opens, failed  *)
(* opens and stops the stack performs, once it and the wire fall silent an *)
(* open device ends up owning N - 1 descriptors: e1000_open hands it the   *)
(* ring with RDT = N - 1 and every poll gives back what it consumed.       *)
(***************************************************************************)
DevRingReplenished ==
    <>[](devUp => rx.pc = "idle" /\ (rdt + 1) % N = rdh)

=============================================================================
