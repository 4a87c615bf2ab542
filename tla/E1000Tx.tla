------------------------------- MODULE E1000Tx -------------------------------
(***************************************************************************)
(* The transmit side of the Intel e1000 driver,                            *)
(* src/src/drivers/net/e1000/e1000.c: xmit, called by the network stack in *)
(* task context, queues the skb on tx_dev_queue and calls e1000_xmit,      *)
(* which posts at most one queued skb into the descriptor at TDT, moves it *)
(* to txing_queue and advances TDT. On a TXDW or TXQE interrupt            *)
(* e1000_interrupt calls txed_skb_clean, which frees every skb on          *)
(* txing_queue, and then e1000_xmit once more.                             *)
(*                                                                         *)
(* The device transmits the descriptors from TDH up to, not including,     *)
(* TDT, in order, advancing TDH and raising TXDW. Frames are model values  *)
(* that double as the skbs holding them; each is submitted at most once.   *)
(*                                                                         *)
(* Several threads may call xmit. irq_lock makes each locked block atomic; *)
(* an interrupt may come between two blocks of a thread and runs to its    *)
(* end before any thread resumes.                                          *)
(***************************************************************************)
EXTENDS Naturals, Sequences, FiniteSets, Functions

CONSTANTS
    N,      \* E1000_TXDESC_NR: descriptors in the transmit ring
    Pkt,    \* the frames (skbs) the stack submits
    NoPkt,  \* a zeroed descriptor's buffer address
    Tasks   \* threads that call xmit

ASSUME TxRingSizeAssumption == N \in Nat /\ N >= 2
ASSUME PktAssumption == NoPkt \notin Pkt
ASSUME TasksAssumption == Tasks # {}

Slot == 0 .. N - 1

VARIABLES
    tdh,         \* E1000_REG_TDH: the next descriptor the device sends
    tdt,         \* E1000_REG_TDT: the next descriptor software fills
    txDesc,      \* tx_descs[i].buffer_address
    txDevQueue,  \* tx_dev_queue: submitted, not yet posted
    txingQueue,  \* txing_queue: posted, not yet freed
    icrTx,       \* ICR.TXDW | ICR.TXQE pending
    task,        \* per thread: "idle", or "xmit" between lines 157 and 159
    irq,         \* e1000_interrupt: "idle", or "xmit" between 248 and 249
    submitted,   \* history: frames in the order xmit queued them
    freed,       \* frames skb_free has released
    sent,        \* history: frames the device put on the wire, in order
    txUp,        \* the device is open: TX enabled, interrupts unmasked
    resetLost    \* history: frames posted but unsent when the device reopened

vars == <<tdh, tdt, txDesc, txDevQueue, txingQueue, icrTx, task, irq,
          submitted, freed, sent, txUp, resetLost>>

InCyc(i, a, b) == (i - a + N) % N < (b - a + N) % N

\* The descriptors the device still has to send: from TDH up to TDT.
HwOwned(i) == InCyc(i, tdh, tdt)

(***************************************************************************)
(* Initial state: e1000_init zeroed the descriptors and initialised both   *)
(* queues, e1000_open set TDH = TDT = 0.                                   *)
(***************************************************************************)
Init ==
    /\ tdh = 0
    /\ tdt = 0
    /\ txDesc = [i \in Slot |-> NoPkt]
    /\ txDevQueue = << >>
    /\ txingQueue = << >>
    /\ icrTx = FALSE
    /\ task = [t \in Tasks |-> "idle"]
    /\ irq = "idle"
    /\ submitted = << >>
    /\ freed = {}
    /\ sent = << >>
    /\ txUp = TRUE
    /\ resetLost = {}

(***************************************************************************)
(* e1000_xmit (lines 109-148), one irq_lock block. The ring-full test      *)
(* reads (tail + 1 % E1000_TXDESC_NR) == head; % binds tighter than +, so  *)
(* it is tail + 1 == head, which misses the full ring when tail = N - 1    *)
(* and head = 0.                                                           *)
(***************************************************************************)
RingFullCheck == tdt + (1 % N) = tdh

\* Mutant: TDT is advanced before the descriptor is written, so the skb
\* goes into the slot after the one handed to the device.
E1000XmitPostLate ==
    /\ ~RingFullCheck
    /\ txDevQueue # << >>
    /\ txDesc' = [txDesc EXCEPT ![(tdt + 1) % N] = Head(txDevQueue)]
    /\ tdt' = (tdt + 1) % N
    /\ txDevQueue' = Tail(txDevQueue)
    /\ txingQueue' = Append(txingQueue, Head(txDevQueue))

\* Mutant: tail is advanced without tail %= E1000_TXDESC_NR (line 139).
E1000XmitPostNoWrap ==
    /\ ~RingFullCheck
    /\ txDevQueue # << >>
    /\ txDesc' = [txDesc EXCEPT ![tdt] = Head(txDevQueue)]
    /\ tdt' = tdt + 1
    /\ txDevQueue' = Tail(txDevQueue)
    /\ txingQueue' = Append(txingQueue, Head(txDevQueue))

\* The ring is not full and an skb is queued: post it (lines 125-143).
E1000XmitPost ==
    /\ ~RingFullCheck
    /\ txDevQueue # << >>
    /\ txDesc' = [txDesc EXCEPT ![tdt] = Head(txDevQueue)]
    /\ tdt' = (tdt + 1) % N
    /\ txDevQueue' = Tail(txDevQueue)
    /\ txingQueue' = Append(txingQueue, Head(txDevQueue))

\* The ring looks full or nothing is queued: return (lines 121-129).
E1000XmitNone ==
    /\ RingFullCheck \/ txDevQueue = << >>
    /\ UNCHANGED <<txDesc, tdt, txDevQueue, txingQueue>>

E1000Xmit == E1000XmitPost \/ E1000XmitNone

(***************************************************************************)
(* Task context: xmit (lines 150-162).                                     *)
(***************************************************************************)

\* Mutant: xmit puts the skb at the front of tx_dev_queue.
XmitQueueFront(t) ==
    /\ txUp
    /\ irq = "idle"
    /\ task[t] = "idle"
    /\ \E p \in Pkt \ Range(submitted) :
          /\ txDevQueue' = <<p>> \o txDevQueue
          /\ submitted' = Append(submitted, p)
    /\ task' = [task EXCEPT ![t] = "xmit"]
    /\ UNCHANGED <<tdh, tdt, txDesc, txingQueue, icrTx, irq, freed, sent, txUp,
                   resetLost>>

\* Lines 153-157: queue the skb on tx_dev_queue under irq_lock.
Xmit(t) ==
    /\ txUp
    /\ irq = "idle"
    /\ task[t] = "idle"
    /\ \E p \in Pkt \ Range(submitted) :
          /\ txDevQueue' = Append(txDevQueue, p)
          /\ submitted' = Append(submitted, p)
    /\ task' = [task EXCEPT ![t] = "xmit"]
    /\ UNCHANGED <<tdh, tdt, txDesc, txingQueue, icrTx, irq, freed, sent, txUp,
                   resetLost>>

\* Line 159: e1000_xmit from task context.
XmitKick(t) ==
    /\ irq = "idle"
    /\ task[t] = "xmit"
    /\ E1000Xmit
    /\ task' = [task EXCEPT ![t] = "idle"]
    /\ UNCHANGED <<tdh, icrTx, irq, submitted, freed, sent, txUp, resetLost>>

(***************************************************************************)
(* Interrupt context: the TXDW | TXQE branch of e1000_interrupt            *)
(* (lines 247-251). Reading ICR clears the cause.                          *)
(***************************************************************************)

\* txed_skb_clean (lines 164-175): free every skb on txing_queue.
TxClean ==
    /\ irq = "idle"
    /\ icrTx
    /\ icrTx' = FALSE
    /\ freed' = freed \cup Range(txingQueue)
    /\ txingQueue' = << >>
    /\ irq' = "xmit"
    /\ UNCHANGED <<tdh, tdt, txDesc, txDevQueue, task, submitted, sent, txUp,
                   resetLost>>

\* Line 249: e1000_xmit from the interrupt.
TxIrqXmit ==
    /\ irq = "xmit"
    /\ E1000Xmit
    /\ irq' = "idle"
    /\ UNCHANGED <<tdh, icrTx, task, submitted, freed, sent, txUp, resetLost>>

(***************************************************************************)
(* The device sends descriptor TDH and raises TXDW (TXQE when the ring     *)
(* becomes empty; both reach the same branch).                             *)
(***************************************************************************)
HwTransmit ==
    /\ txUp
    /\ tdh # tdt
    /\ sent' = Append(sent, txDesc[tdh])
    /\ tdh' = (tdh + 1) % N
    /\ icrTx' = TRUE
    /\ UNCHANGED <<tdt, txDesc, txDevQueue, txingQueue, task, irq,
                   submitted, freed, txUp, resetLost>>

(***************************************************************************)
(* Lifecycle, in task context. e1000_stop (lines 370-378) sets CTRL.RST:   *)
(* the device drops what it was sending and clears ICR, TDH and TDT; the   *)
(* driver frees the RX buffers only, leaving tx_dev_queue, txing_queue and *)
(* the descriptors as they are. e1000_open (lines 352-357) sets TDH = TDT  *)
(* = 0 again. A thread already inside xmit may still run e1000_xmit.       *)
(***************************************************************************)
\* The frames e1000_xmit has posted so far: all submitted but the queued.
Posted == SubSeq(submitted, 1, Len(submitted) - Len(txDevQueue))

TxStop ==
    /\ txUp
    /\ irq = "idle"
    /\ txUp' = FALSE
    /\ tdh' = 0
    /\ tdt' = 0
    /\ icrTx' = FALSE
    /\ UNCHANGED <<txDesc, txDevQueue, txingQueue, task, irq, submitted,
                   freed, sent, resetLost>>

TxOpen ==
    /\ ~txUp
    /\ txUp' = TRUE
    /\ tdh' = 0
    /\ tdt' = 0
    /\ resetLost' = resetLost \cup (Range(Posted) \ Range(sent))
    /\ UNCHANGED <<txDesc, txDevQueue, txingQueue, icrTx, task, irq,
                   submitted, freed, sent>>

Next ==
    \/ \E t \in Tasks : Xmit(t) \/ XmitKick(t)
    \/ TxClean
    \/ TxIrqXmit
    \/ HwTransmit
    \/ TxStop
    \/ TxOpen

(***************************************************************************)
(* A pending interrupt is eventually taken and runs to its end; a thread   *)
(* inside xmit eventually proceeds. The device and the stack get none.     *)
(***************************************************************************)
Fairness ==
    /\ WF_vars(TxClean)
    /\ WF_vars(TxIrqXmit)
    /\ \A t \in Tasks : WF_vars(XmitKick(t))

Spec == Init /\ [][Next]_vars /\ Fairness

-----------------------------------------------------------------------------
TypeOK ==
    /\ tdh \in Slot
    /\ tdt \in Slot
    /\ txDesc \in [Slot -> Pkt \cup {NoPkt}]
    /\ txDevQueue \in Seq(Pkt)
    /\ txingQueue \in Seq(Pkt)
    /\ icrTx \in BOOLEAN
    /\ task \in [Tasks -> {"idle", "xmit"}]
    /\ irq \in {"idle", "xmit"}
    /\ submitted \in Seq(Pkt)
    /\ freed \subseteq Pkt
    /\ sent \in Seq(Pkt \cup {NoPkt})
    /\ txUp \in BOOLEAN
    /\ resetLost \subseteq Pkt

\* Position of a frame in submission order.
SubmitPos(p) == CHOOSE i \in 1 .. Len(submitted) : submitted[i] = p

(***************************************************************************)
(* The two queues are FIFO across threads and the interrupt: what is on    *)
(* txing_queue followed by what is on tx_dev_queue is the latest part of   *)
(* the submission order, so frames are posted in the order xmit queued     *)
(* them however the threads and the interrupt interleave.                  *)
(***************************************************************************)
QueuesFifo ==
    LET pend == txingQueue \o txDevQueue
        n == Len(submitted)
    IN  /\ Len(pend) <= n
        /\ pend = SubSeq(submitted, n - Len(pend) + 1, n)

(***************************************************************************)
(* The device sends only submitted frames, in submission order, and none   *)
(* twice (e1000_xmit writing descriptor TDT before advancing TDT).         *)
(***************************************************************************)
SentInOrder ==
    /\ \A i \in 1 .. Len(sent) : sent[i] \in Range(submitted)
    /\ \A i, j \in 1 .. Len(sent) :
          i < j => SubmitPos(sent[i]) < SubmitPos(sent[j])

(***************************************************************************)
(* Ownership (spec, sections 3 and 4.4): an skb is freed only once the     *)
(* device has relinquished it, so no descriptor the device has still to    *)
(* send points at a freed skb. txed_skb_clean frees all of txing_queue.    *)
(***************************************************************************)
NoFreeWhileOwned ==
    \A i \in Slot : HwOwned(i) => txDesc[i] \notin freed

(***************************************************************************)
(* A full ring rejects a post without corrupting indices (spec, section    *)
(* 8): every frame e1000_xmit has posted and the device has not sent is in *)
(* a descriptor the device still owns.                                     *)
(***************************************************************************)

PostedFramesOwned ==
    txUp =>
    \A i \in 1 .. Len(Posted) :
        Posted[i] \notin Range(sent) \cup resetLost =>
            \E s \in Slot : HwOwned(s) /\ txDesc[s] = Posted[i]

(***************************************************************************)
(* Spec, section 5: device shutdown reclaims or frees every outstanding    *)
(* buffer, so a stopped device holds no skb on either transmit queue.      *)
(* e1000_stop frees only the receive buffers.                              *)
(***************************************************************************)
StopReleasesTx ==
    ~txUp => txDevQueue = << >> /\ txingQueue = << >>

=============================================================================
