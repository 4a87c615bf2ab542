---------------------------- MODULE E1000RxProofs ----------------------------
(***************************************************************************)
(* Proofs about the receive side of the e1000 driver (E1000Rx), for every  *)
(* ring size N >= 2, every pool Buf and every bound MaxRecv.               *)
(***************************************************************************)
EXTENDS E1000Rx, SequenceTheorems, FiniteSetTheorems, TLAPS

(***************************************************************************)
(* Type correctness: every action of e1000_rx, the device and the stack    *)
(* keeps the ring indices in 0 .. N-1, the shadow array and descriptors    *)
(* pointing at pool buffers, and frame numbers within 0 .. MaxRecv.        *)
(***************************************************************************)
(***************************************************************************)
(* Advancing a ring index modulo N stays in the ring: the step after the   *)
(* last slot is slot 0 and otherwise the next slot.                        *)
(***************************************************************************)
LEMMA NextSlot ==
    ASSUME NEW k \in Slot
    PROVE  /\ (k + 1) % N \in Slot
           /\ k + 1 < N => (k + 1) % N = k + 1
           /\ k + 1 = N => (k + 1) % N = 0
<1>1. CASE k + 1 < N
    BY <1>1, RingSizeAssumption DEF Slot
<1>2. CASE k + 1 = N
    BY <1>2, RingSizeAssumption DEF Slot
<1>3. QED
    BY <1>1, <1>2, RingSizeAssumption DEF Slot

LEMMA TypeInit == Init => TypeOK
<1> SUFFICES ASSUME Init PROVE TypeOK
    OBVIOUS
<1>1. PICK f \in Injection(Slot, Buf) :
          rxSkbs = f /\ rxDescAddr = f /\ free = Buf \ Range(f)
    BY DEF Init
<1>2. f \in [Slot -> Buf]
    BY <1>1 DEF Injection
<1>3. N - 1 \in Slot /\ 0 \in Slot
    BY RingSizeAssumption DEF Slot
<1>4. rx \in RxState
    BY <1>3 DEF Init, RxState
<1>5. QED
    BY <1>1, <1>2, <1>3, <1>4, MaxRecvAssumption DEF Init, TypeOK, FrameNo, Slot

LEMMA TypeStep == TypeOK /\ [Next]_vars => TypeOK'
<1> SUFFICES ASSUME TypeOK, [Next]_vars PROVE TypeOK'
    OBVIOUS
<1> USE RingSizeAssumption, MaxRecvAssumption
    DEF TypeOK, Slot, FrameNo, RxState, ringVars, poolVars, histVars
<1>0. /\ (rdh + 1) % N \in Slot
      /\ (rdt + 1) % N \in Slot
      /\ (rx.cur + 1) % N \in Slot
  <2>1. rx.cur \in Slot
    OBVIOUS
  <2>2. QED
    BY <2>1, NextSlot
<1>1. CASE HwReceive
  <2>1. recvd + 1 \in FrameNo
    BY <1>1 DEF HwReceive
  <2>2. bufFrame' \in [Buf -> FrameNo]
    BY <1>1, <2>1 DEF HwReceive
  <2>3. rxDescStatus' \in [Slot -> BOOLEAN]
    BY <1>1 DEF HwReceive
  <2>4. QED
    BY <1>0, <1>1, <2>1, <2>2, <2>3 DEF HwReceive
<1>2. CASE HwOverrun
  <2>1. recvd + 1 \in FrameNo
    BY <1>2 DEF HwOverrun
  <2>2. hwDropped' \subseteq FrameNo
    BY <1>2, <2>1 DEF HwOverrun
  <2>3. QED
    BY <1>2, <2>1, <2>2 DEF HwOverrun
<1>3. CASE RxPollBegin
  <2>1. rx' \in RxState
    BY <1>0, <1>3 DEF RxPollBegin
  <2>2. QED
    BY <1>3, <2>1 DEF RxPollBegin
<1>4. CASE RxDrop
  <2>1. rx' \in RxState
    BY <1>0, <1>4 DEF RxDrop, Harvestable, Advance
  <2>2. bufFrame[rxDescAddr[rx.cur]] \in FrameNo
    OBVIOUS
  <2>3. swDropped' \subseteq FrameNo
    BY <1>4, <2>2 DEF RxDrop
  <2>4. QED
    BY <1>4, <2>1, <2>3 DEF RxDrop
<1>5. CASE RxDeliver
  <2>1. rx' \in RxState
    BY <1>0, <1>5 DEF RxDeliver, Harvestable, Advance
  <2>2. PICK b \in free :
          LET old == rxSkbs[rx.cur] IN
          /\ free' = free \ {b}
          /\ rxSkbs' = [rxSkbs EXCEPT ![rx.cur] = b]
          /\ rxDescAddr' = [rxDescAddr EXCEPT ![rx.cur] = b]
          /\ stackBufs' = stackBufs \cup {old}
          /\ delivered' = Append(delivered, bufFrame[old])
    BY <1>5 DEF RxDeliver
  <2>3. /\ rxSkbs' \in [Slot -> Buf]
        /\ rxDescAddr' \in [Slot -> Buf]
        /\ free' \subseteq Buf
        /\ stackBufs' \subseteq Buf
    BY <2>2
  <2>4. delivered' \in Seq(FrameNo)
    BY <2>2
  <2>5. QED
    BY <1>5, <2>1, <2>3, <2>4 DEF RxDeliver
<1>6. CASE RxPollEnd
    BY <1>6 DEF RxPollEnd
<1>7. CASE StackFree
    BY <1>7 DEF StackFree
<1>8. CASE UNCHANGED vars
    BY <1>8 DEF vars
<1>9. QED
    BY <1>1, <1>2, <1>3, <1>4, <1>5, <1>6, <1>7, <1>8 DEF Next

THEOREM TypeCorrect == Spec => []TypeOK
BY TypeInit, TypeStep, PTL DEF Spec

(***************************************************************************)
(* Buffer ownership, stated slot by slot rather than through Range and     *)
(* IsInjective.                                                            *)
(***************************************************************************)
OwnBySlot ==
    /\ \A i, j \in Slot : i # j => rxSkbs[i] # rxSkbs[j]
    /\ \A i \in Slot : rxSkbs[i] \notin free /\ rxSkbs[i] \notin stackBufs
    /\ free \cap stackBufs = {}
    /\ \A i \in Slot : rxDescAddr[i] = rxSkbs[i]

LEMMA OwnBySlotEquiv == TypeOK => (BufferOwnership <=> OwnBySlot)
BY DEF TypeOK, BufferOwnership, OwnBySlot, IsInjective, Range

LEMMA OwnInit == Init => OwnBySlot
<1> SUFFICES ASSUME Init PROVE OwnBySlot
    OBVIOUS
<1>1. PICK f \in Injection(Slot, Buf) :
          rxSkbs = f /\ rxDescAddr = f /\ free = Buf \ Range(f)
    BY DEF Init
<1>2. \A i, j \in Slot : i # j => f[i] # f[j]
    BY <1>1 DEF Injection, IsInjective
<1>3. \A i \in Slot : f[i] \in Range(f)
    BY <1>1 DEF Injection, Range
<1>4. QED
    BY <1>1, <1>2, <1>3 DEF Init, OwnBySlot

(***************************************************************************)
(* The zero-copy swap keeps ownership: the fresh buffer comes from the     *)
(* pool, so no other slot and not the stack holds it, and the old buffer   *)
(* leaves the ring for the stack.                                          *)
(***************************************************************************)
LEMMA OwnDeliver == TypeOK /\ OwnBySlot /\ RxDeliver => OwnBySlot'
<1> SUFFICES ASSUME TypeOK, OwnBySlot, RxDeliver PROVE OwnBySlot'
    OBVIOUS
<1>1. rx.cur \in Slot
    BY DEF TypeOK, RxState
<1> DEFINE c == rx.cur
           old == rxSkbs[c]
<1>2. PICK b \in free :
          /\ free' = free \ {b}
          /\ rxSkbs' = [rxSkbs EXCEPT ![c] = b]
          /\ rxDescAddr' = [rxDescAddr EXCEPT ![c] = b]
          /\ stackBufs' = stackBufs \cup {old}
    BY DEF RxDeliver
<1>3. \A i \in Slot : rxSkbs'[i] = IF i = c THEN b ELSE rxSkbs[i]
    BY <1>1, <1>2 DEF TypeOK
<1>4. \A i \in Slot \ {c} : rxSkbs[i] # b /\ rxSkbs[i] # old
    BY <1>1, <1>2 DEF OwnBySlot
<1>5. b \notin stackBufs /\ old \notin free
    BY <1>1, <1>2 DEF OwnBySlot
<1>6. \A i, j \in Slot : i # j => rxSkbs'[i] # rxSkbs'[j]
    BY <1>3, <1>4 DEF OwnBySlot
<1>7. \A i \in Slot : rxSkbs'[i] \notin free' /\ rxSkbs'[i] \notin stackBufs'
    BY <1>2, <1>3, <1>4, <1>5 DEF OwnBySlot
<1>8. free' \cap stackBufs' = {}
    BY <1>2, <1>5 DEF OwnBySlot
<1>9. \A i \in Slot : rxDescAddr'[i] = rxSkbs'[i]
    BY <1>1, <1>2, <1>3 DEF OwnBySlot, TypeOK
<1>10. QED
    BY <1>6, <1>7, <1>8, <1>9 DEF OwnBySlot

LEMMA OwnStep == TypeOK /\ OwnBySlot /\ [Next]_vars => OwnBySlot'
<1> SUFFICES ASSUME TypeOK, OwnBySlot, [Next]_vars PROVE OwnBySlot'
    OBVIOUS
<1>1. CASE HwReceive \/ HwOverrun \/ RxPollBegin \/ RxDrop \/ RxPollEnd
    \* None of these touches the shadow array, the descriptors' addresses,
    \* the pool or the stack's buffers.
    <2>1. UNCHANGED <<rxSkbs, rxDescAddr, free, stackBufs>>
      BY <1>1 DEF HwReceive, HwOverrun, RxPollBegin, RxDrop, RxPollEnd,
                  ringVars, poolVars
    <2>2. QED
      BY <2>1 DEF OwnBySlot
<1>2. CASE RxDeliver
    BY <1>2, OwnDeliver
<1>3. CASE StackFree
    <2>1. PICK b \in stackBufs :
             /\ stackBufs' = stackBufs \ {b}
             /\ free' = free \cup {b}
             /\ UNCHANGED <<rxSkbs, rxDescAddr>>
      BY <1>3 DEF StackFree, ringVars
    <2>2. QED
      BY <2>1 DEF OwnBySlot
<1>4. CASE UNCHANGED vars
    BY <1>4 DEF vars, ringVars, poolVars, OwnBySlot
<1>5. QED
    BY <1>1, <1>2, <1>3, <1>4 DEF Next

(***************************************************************************)
(* Every buffer has one owner among ring slots, pool and stack, and the    *)
(* device only DMAs into buffers the ring owns, for every N, pool and      *)
(* MaxRecv: the inductive invariant is TypeOK /\ OwnBySlot.               *)
(***************************************************************************)
THEOREM OwnershipInvariant == Spec => []BufferOwnership
<1>1. Init => TypeOK /\ OwnBySlot
    BY TypeInit, OwnInit
<1>2. TypeOK /\ OwnBySlot /\ [Next]_vars => (TypeOK /\ OwnBySlot)'
    BY TypeStep, OwnStep
<1>3. TypeOK /\ OwnBySlot => BufferOwnership
    BY OwnBySlotEquiv
<1>4. QED
    BY <1>1, <1>2, <1>3, PTL DEF Spec

-----------------------------------------------------------------------------
(***************************************************************************)
(* In-order delivery. The completed descriptors e1000_rx has not consumed *)
(* yet run from SwTail + 1 up to RDH; counted from there, they hold frames *)
(* in arrival order, all later than every frame already delivered. The    *)
(* device fills them at the far end (RDH), the poll takes them from the    *)
(* near end (cur), and the poll's cur never passes the RDH it read.        *)
(***************************************************************************)

\* Slots counted cyclically from h up to, not including, t.
CntOf(h, t) == (t - h + N) % N

\* The first completed slot e1000_rx has not consumed.
First == (SwTail + 1) % N

\* The frame in the buffer of the k-th completed slot counted from first.
WaitFrame(first, skb, bf, k) == bf[skb[(first + k) % N]]

\* The waiting frames, counted from first to RDH h, are frames that have
\* arrived, in arrival order, and later than every delivered frame.
WaitOK(first, h, skb, bf, rcv, dlv) ==
    LET W == 0 .. CntOf(first, h) - 1 IN
    /\ \A k \in W : WaitFrame(first, skb, bf, k) \in 1 .. rcv
    /\ \A k, l \in W : k < l => WaitFrame(first, skb, bf, k) < WaitFrame(first, skb, bf, l)
    /\ \A k \in W, i \in 1 .. Len(dlv) : dlv[i] < WaitFrame(first, skb, bf, k)

\* Going round the ring from RDH: the device's descriptors up to RDT, the
\* ones e1000_rx consumed but has not returned, the slot at SwTail, and
\* the completed ones. Together they are the whole ring.
Partition ==
    CntOf(rdh, rdt) + CntOf(rdt, SwTail) + 1 + CntOf(First, rdh) = N

\* While the poll runs, cur follows tail, and the head it read on entry
\* lies between cur and the device's current RDH.
LoopOK ==
    rx.pc = "loop" =>
        /\ rx.cur = (rx.tail + 1) % N
        /\ CntOf(rx.cur, rx.head) <= CntOf(rx.cur, rdh)

\* The inductive invariant for InOrderDelivery.
Order ==
    /\ Partition
    /\ LoopOK
    /\ WaitOK(First, rdh, rxSkbs, bufFrame, recvd, delivered)
    /\ InOrderDelivery

DInv == TypeOK /\ OwnBySlot /\ Order

-----------------------------------------------------------------------------
(***************************************************************************)
(* Ring arithmetic, the same facts E1000TxProofs proves for the transmit  *)
(* ring: every index sum lies below 2N, where % N subtracts N at most once.*)
(***************************************************************************)
LEMMA ModRange ==
    ASSUME NEW x \in 0 .. 2 * N - 1
    PROVE  x % N = IF x < N THEN x ELSE x - N
    BY RingSizeAssumption

LEMMA CntFacts ==
    ASSUME NEW h \in Slot, NEW t \in Slot
    PROVE  /\ CntOf(h, t) = IF h <= t THEN t - h ELSE t - h + N
           /\ CntOf(h, t) \in 0 .. N - 1
           /\ (h + CntOf(h, t)) % N = t
           /\ CntOf(h, t) = 0 <=> h = t
<1>1. t - h + N \in 0 .. 2 * N - 1
    BY RingSizeAssumption DEF Slot
<1>2. CntOf(h, t) = IF h <= t THEN t - h ELSE t - h + N
    BY <1>1, ModRange, RingSizeAssumption DEF CntOf, Slot
<1>3. h + CntOf(h, t) \in 0 .. 2 * N - 1
    BY <1>2, RingSizeAssumption DEF Slot
<1>4. (h + CntOf(h, t)) % N = t
    BY <1>2, <1>3, ModRange, RingSizeAssumption DEF Slot
<1>5. QED
    BY <1>2, <1>4, RingSizeAssumption DEF Slot

\* Counting fewer than CntOf(h, t) slots from h stays off slot t.
LEMMA CntIdx ==
    ASSUME NEW h \in Slot, NEW t \in Slot, NEW k \in 0 .. CntOf(h, t) - 1
    PROVE  (h + k) % N \in Slot /\ (h + k) % N # t
<1>1. /\ CntOf(h, t) = IF h <= t THEN t - h ELSE t - h + N
      /\ CntOf(h, t) \in 0 .. N - 1
    BY CntFacts
<1>2. h + k \in 0 .. 2 * N - 1
    BY <1>1, RingSizeAssumption DEF Slot
<1>3. QED
    BY <1>1, <1>2, ModRange, RingSizeAssumption DEF Slot

\* Distinct ends span at least one slot.
LEMMA CntPos ==
    ASSUME NEW h \in Slot, NEW t \in Slot, h # t
    PROVE  CntOf(h, t) \in 1 .. N - 1
    BY CntFacts

\* Moving the far end t one slot on, short of a full ring.
LEMMA CntSucc ==
    ASSUME NEW h \in Slot, NEW t \in Slot, CntOf(h, t) < N - 1
    PROVE  /\ (t + 1) % N \in Slot
           /\ CntOf(h, (t + 1) % N) = CntOf(h, t) + 1
<1>1. (t + 1) % N = IF t + 1 < N THEN t + 1 ELSE 0
    BY ModRange, RingSizeAssumption DEF Slot
<1>2. (t + 1) % N \in Slot
    BY <1>1, RingSizeAssumption DEF Slot
<1>3. \A tt \in Slot : CntOf(h, tt) = IF h <= tt THEN tt - h ELSE tt - h + N
    BY CntFacts
<1>4. QED
    BY <1>1, <1>2, <1>3, RingSizeAssumption DEF Slot

\* Moving the near end h one slot on, towards t; the k-th slot counted
\* from the new end is the (k+1)-th counted from the old one.
LEMMA CntPred ==
    ASSUME NEW h \in Slot, NEW t \in Slot, h # t
    PROVE  /\ (h + 1) % N \in Slot
           /\ CntOf((h + 1) % N, t) = CntOf(h, t) - 1
           /\ \A k \in 0 .. CntOf(h, t) - 2 :
                 (((h + 1) % N) + k) % N = (h + (k + 1)) % N
<1>1. (h + 1) % N = IF h + 1 < N THEN h + 1 ELSE 0
    BY ModRange, RingSizeAssumption DEF Slot
<1>2. (h + 1) % N \in Slot
    BY <1>1, RingSizeAssumption DEF Slot
<1>3. \A hh \in Slot : CntOf(hh, t) = IF hh <= t THEN t - hh ELSE t - hh + N
    BY CntFacts
<1>4. CntOf((h + 1) % N, t) = CntOf(h, t) - 1
    BY <1>1, <1>2, <1>3, RingSizeAssumption DEF Slot
<1>5. ASSUME NEW k \in 0 .. CntOf(h, t) - 2
      PROVE  (((h + 1) % N) + k) % N = (h + (k + 1)) % N
  <2>1. CntOf(h, t) \in 0 .. N - 1 /\ k \in Nat
    BY CntFacts
  <2>2. ((h + 1) % N) + k \in 0 .. 2 * N - 1 /\ h + (k + 1) \in 0 .. 2 * N - 1
    BY <1>2, <2>1, RingSizeAssumption DEF Slot
  <2>3. (((h + 1) % N) + k) % N = IF ((h + 1) % N) + k < N
                                      THEN ((h + 1) % N) + k
                                      ELSE ((h + 1) % N) + k - N
    BY <1>2, <2>1, <2>2, ModRange, RingSizeAssumption DEF Slot
  <2>4. (h + (k + 1)) % N = IF h + (k + 1) < N THEN h + (k + 1)
                                                ELSE h + (k + 1) - N
    BY <2>1, <2>2, RingSizeAssumption DEF Slot
  <2>5. QED
    BY <1>1, <2>3, <2>4, RingSizeAssumption DEF Slot
<1>6. QED
    BY <1>2, <1>4, <1>5

\* Two spans that together stay short of the whole ring add up.
LEMMA CntAdd ==
    ASSUME NEW a \in Slot, NEW b \in Slot, NEW c \in Slot,
           CntOf(a, b) + CntOf(b, c) < N
    PROVE  CntOf(a, c) = CntOf(a, b) + CntOf(b, c)
<1>1. \A x, y \in Slot : CntOf(x, y) = IF x <= y THEN y - x ELSE y - x + N
    BY CntFacts
<1>2. QED
    BY <1>1, RingSizeAssumption DEF Slot

-----------------------------------------------------------------------------
(* How the waiting frames move: the device adds one at RDH, the poll takes *)
(* the one at cur, the slot it then owns no longer counts.                 *)

\* HwReceive: the frame rcv + 1 is DMA'd into the buffer of slot h = RDH,
\* which then becomes the last waiting slot.
LEMMA WaitReceive ==
    ASSUME NEW first \in Slot, NEW h \in Slot, CntOf(first, h) < N - 1,
           NEW skb \in [Slot -> Buf], \A i, j \in Slot : i # j => skb[i] # skb[j],
           NEW bf \in [Buf -> Nat], NEW rcv \in Nat, NEW dlv \in Seq(Nat),
           \A i \in 1 .. Len(dlv) : dlv[i] <= rcv,
           WaitOK(first, h, skb, bf, rcv, dlv)
    PROVE  WaitOK(first, (h + 1) % N, skb, [bf EXCEPT ![skb[h]] = rcv + 1], rcv + 1, dlv)
<1> DEFINE c == CntOf(first, h)
           bf2 == [bf EXCEPT ![skb[h]] = rcv + 1]
           Old(k) == WaitFrame(first, skb, bf, k)
           New(k) == WaitFrame(first, skb, bf2, k)
<1> USE RingSizeAssumption
<1>1. (h + 1) % N \in Slot /\ CntOf(first, (h + 1) % N) = c + 1
    BY CntSucc
<1>2. c \in 0 .. N - 1 /\ (first + c) % N = h
    BY CntFacts
<1> USE <1>2
<1>3. ASSUME NEW k \in 0 .. c - 1 PROVE New(k) = Old(k) /\ Old(k) \in 1 .. rcv
  <2>1. (first + k) % N \in Slot /\ (first + k) % N # h
    BY CntIdx
  <2>2. skb[(first + k) % N] # skb[h]
    BY <2>1
  <2>3. New(k) = Old(k)
    BY <2>2 DEF WaitFrame
  <2>4. QED
    BY <2>3 DEF WaitOK
<1>4. New(c) = rcv + 1
    BY <1>2 DEF WaitFrame
<1>5. \A k, l \in 0 .. c - 1 : k < l => Old(k) < Old(l)
    BY DEF WaitOK
<1>6. \A k \in 0 .. c - 1, i \in 1 .. Len(dlv) : dlv[i] < Old(k)
    BY DEF WaitOK
<1>7. ASSUME NEW k \in 0 .. c PROVE New(k) \in 1 .. rcv + 1
  <2>1. CASE k < c
    <3>1. k \in 0 .. c - 1
      BY <2>1
    <3>2. Old(k) \in 1 .. rcv /\ New(k) = Old(k)
      BY <3>1, <1>3
    <3>3. QED
      BY <3>2
  <2>2. CASE k = c
    BY <2>2, <1>4
  <2>3. QED
    BY <2>1, <2>2, <1>2
<1>8. ASSUME NEW k \in 0 .. c, NEW l \in 0 .. c, k < l PROVE New(k) < New(l)
  <2>1. k \in 0 .. c - 1
    BY <1>8
  <2>2. New(k) = Old(k) /\ Old(k) \in 1 .. rcv
    BY <2>1, <1>3
  <2>3. CASE l < c
    <3>1. l \in 0 .. c - 1
      BY <2>3
    <3>2. New(l) = Old(l)
      BY <3>1, <1>3
    <3>3. Old(k) < Old(l)
      BY <2>1, <3>1, <1>5, <1>8
    <3>4. QED
      BY <2>2, <3>2, <3>3
  <2>4. CASE l = c
    BY <2>2, <2>4, <1>4
  <2>5. QED
    BY <2>3, <2>4
<1>9. ASSUME NEW k \in 0 .. c, NEW i \in 1 .. Len(dlv) PROVE dlv[i] < New(k)
  <2>1. CASE k < c
    <3>1. k \in 0 .. c - 1
      BY <2>1
    <3>2. New(k) = Old(k)
      BY <3>1, <1>3
    <3>3. dlv[i] < Old(k)
      BY <3>1, <1>6
    <3>4. QED
      BY <3>2, <3>3
  <2>2. CASE k = c
    <3>1. dlv[i] \in Nat /\ dlv[i] <= rcv
      OBVIOUS
    <3>2. QED
      BY <2>2, <3>1, <1>4
  <2>3. QED
    BY <2>1, <2>2
<1>10. 0 .. CntOf(first, (h + 1) % N) - 1 = 0 .. c
    BY <1>1
<1>11. QED
    BY <1>10, <1>7, <1>8, <1>9, Zenon DEF WaitOK

\* The step from slot k to slot k + 1 of the ring never lands back on the
\* slot it started from, short of a full turn.
LEMMA OffRing ==
    ASSUME NEW h \in Slot, NEW j \in 1 .. N - 1
    PROVE  (h + j) % N # h
<1>1. h + j \in 0 .. 2 * N - 1
    BY RingSizeAssumption DEF Slot
<1>2. QED
    BY <1>1, ModRange, RingSizeAssumption DEF Slot

\* RxDrop and RxDeliver: the frame of slot first = cur leaves the waiting
\* ones, whatever buffer the slot then holds; delivered, it comes after
\* every frame delivered before.
LEMMA WaitConsume ==
    ASSUME NEW first \in Slot, NEW h \in Slot, first # h,
           NEW skb, NEW skb2, \A i \in Slot \ {first} : skb2[i] = skb[i],
           NEW bf, NEW rcv, NEW dlv \in Seq(Nat),
           WaitOK(first, h, skb, bf, rcv, dlv)
    PROVE  /\ WaitOK((first + 1) % N, h, skb2, bf, rcv, dlv)
           /\ WaitOK((first + 1) % N, h, skb2, bf, rcv,
                     Append(dlv, WaitFrame(first, skb, bf, 0)))
<1> DEFINE c == CntOf(first, h)
           f2 == (first + 1) % N
           Old(k) == WaitFrame(first, skb, bf, k)
           New(k) == WaitFrame(f2, skb2, bf, k)
           dlv2 == Append(dlv, Old(0))
<1> USE RingSizeAssumption
<1>1. /\ f2 \in Slot
      /\ CntOf(f2, h) = c - 1
      /\ \A k \in 0 .. c - 2 : (f2 + k) % N = (first + (k + 1)) % N
    BY CntPred
<1>2. c \in 1 .. N - 1
    BY CntFacts
<1> USE <1>2
<1>3. ASSUME NEW k \in 0 .. c - 2 PROVE New(k) = Old(k + 1)
  <2>1. k + 1 \in 1 .. N - 1
    BY <1>2
  <2>2. (first + (k + 1)) % N # first
    BY <2>1, OffRing
  <2>4. (first + (k + 1)) % N \in Slot
    BY <2>1 DEF Slot
  <2>3. QED
    BY <1>1, <2>2, <2>4 DEF WaitFrame
<1>4. /\ \A k \in 0 .. c - 1 : Old(k) \in 1 .. rcv
      /\ \A k, l \in 0 .. c - 1 : k < l => Old(k) < Old(l)
      /\ \A k \in 0 .. c - 1, i \in 1 .. Len(dlv) : dlv[i] < Old(k)
    BY DEF WaitOK
<1>5. ASSUME NEW k \in 0 .. c - 2
      PROVE  /\ k + 1 \in 0 .. c - 1
             /\ New(k) = Old(k + 1)
             /\ Old(0) < Old(k + 1)
             /\ \A i \in 1 .. Len(dlv) : dlv[i] < Old(k + 1)
  <2>1. k + 1 \in 0 .. c - 1 /\ 0 \in 0 .. c - 1 /\ 0 < k + 1
    OBVIOUS
  <2>2. QED
    BY <2>1, <1>3, <1>4
<1>9. 0 .. CntOf(f2, h) - 1 = 0 .. c - 2
    BY <1>1
<1>6. WaitOK(f2, h, skb2, bf, rcv, dlv)
  <2>1. \A k \in 0 .. c - 2 : New(k) \in 1 .. rcv
    BY <1>4, <1>5
  <2>2. ASSUME NEW k \in 0 .. c - 2, NEW l \in 0 .. c - 2, k < l
        PROVE  New(k) < New(l)
    <3>1. k + 1 \in 0 .. c - 1 /\ l + 1 \in 0 .. c - 1 /\ k + 1 < l + 1
      BY <2>2
    <3>2. Old(k + 1) < Old(l + 1)
      BY <3>1, <1>4
    <3>3. QED
      BY <3>2, <1>5
  <2>3. \A k \in 0 .. c - 2, i \in 1 .. Len(dlv) : dlv[i] < New(k)
    BY <1>5
  <2>4. QED
    BY <1>9, <2>1, <2>2, <2>3, Zenon DEF WaitOK
<1>7. WaitOK(f2, h, skb2, bf, rcv, dlv2)
  <2>1. Len(dlv2) = Len(dlv) + 1 /\ dlv2[Len(dlv) + 1] = Old(0)
        /\ \A i \in 1 .. Len(dlv) : dlv2[i] = dlv[i]
    OBVIOUS
  <2>2. ASSUME NEW k \in 0 .. c - 2, NEW i \in 1 .. Len(dlv2)
        PROVE  dlv2[i] < New(k)
    <3>1. CASE i = Len(dlv) + 1
      BY <3>1, <2>1, <1>5
    <3>2. CASE i \in 1 .. Len(dlv)
      BY <3>2, <2>1, <1>5
    <3>3. QED
      BY <3>1, <3>2, <2>1
  <2>3. QED
    BY <1>9, <1>6, <2>2, Zenon DEF WaitOK
<1>8. QED
    BY <1>6, <1>7

-----------------------------------------------------------------------------
(* The invariant holds initially and each action keeps Order.              *)

LEMMA OrderInit == Init => Order
<1> SUFFICES ASSUME Init PROVE Order
    OBVIOUS
<1> USE RingSizeAssumption
<1>1. SwTail = N - 1 /\ First = 0 /\ rdh = 0 /\ rdt = N - 1
    BY DEF Init, SwTail, First
<1>2. CntOf(0, N - 1) = N - 1 /\ CntOf(N - 1, N - 1) = 0 /\ CntOf(0, 0) = 0
    BY DEF CntOf
<1>3. Partition
    BY <1>1, <1>2 DEF Partition
<1>4. WaitOK(First, rdh, rxSkbs, bufFrame, recvd, delivered)
    BY <1>1, <1>2 DEF WaitOK, Init
<1>5. QED
    BY <1>3, <1>4 DEF Order, LoopOK, Init, InOrderDelivery

\* While the poll runs, cur is the first completed slot.
LEMMA LoopCur ==
    ASSUME TypeOK, LoopOK, rx.pc = "loop"
    PROVE  /\ SwTail = rx.tail
           /\ rx.cur = First
           /\ CntOf(rx.cur, rx.head) <= CntOf(rx.cur, rdh)
    BY DEF LoopOK, SwTail, First

\* The ring indices and the frame numbers are typed.
LEMMA RingTypes ==
    ASSUME TypeOK
    PROVE  /\ SwTail \in Slot /\ First \in Slot
           /\ rx.cur \in Slot /\ rx.head \in Slot /\ rx.tail \in Slot
           /\ bufFrame \in [Buf -> Nat] /\ delivered \in Seq(Nat)
           /\ recvd \in Nat
<1> USE RingSizeAssumption
<1>1. rx.cur \in Slot /\ rx.head \in Slot /\ rx.tail \in Slot
    BY DEF TypeOK, RxState
<1>2. SwTail \in Slot
    BY <1>1 DEF SwTail, TypeOK
<1>3. First \in Slot
    BY <1>2 DEF First, Slot
<1>4. FrameNo \subseteq Nat
    BY MaxRecvAssumption DEF FrameNo
<1>5. bufFrame \in [Buf -> Nat]
    BY <1>4 DEF TypeOK
<1>6. delivered \in Seq(Nat)
    BY <1>4, SeqMonotonic DEF TypeOK
<1>7. recvd \in Nat
    BY <1>4 DEF TypeOK
<1>8. QED
    BY <1>1, <1>2, <1>3, <1>5, <1>6, <1>7

\* HwReceive: the device fills the descriptor at RDH, one of its own, so
\* the waiting span grows at its far end by the newest frame.
LEMMA OrderReceive == DInv /\ HwReceive => Order'
<1> SUFFICES ASSUME DInv, HwReceive PROVE Order'
    OBVIOUS
<1> USE RingSizeAssumption
<1>0. /\ SwTail \in Slot /\ First \in Slot
      /\ bufFrame \in [Buf -> Nat] /\ delivered \in Seq(Nat) /\ recvd \in Nat
      /\ rdh \in Slot /\ rdt \in Slot /\ rxSkbs \in [Slot -> Buf]
    BY RingTypes DEF DInv, TypeOK
<1>1. /\ rdh # rdt
      /\ rdh' = (rdh + 1) % N
      /\ bufFrame' = [bufFrame EXCEPT ![rxSkbs[rdh]] = recvd + 1]
      /\ recvd' = recvd + 1
      /\ UNCHANGED <<rdt, rxSkbs, rx, delivered>>
    BY <1>0 DEF HwReceive, DInv, OwnBySlot
<1>2. SwTail' = SwTail /\ First' = First
    BY <1>1 DEF SwTail, First
<1>3. CntOf(rdh, rdt) \in 1 .. N - 1
    BY <1>0, <1>1, CntPos
<1>4. /\ CntOf(rdt, SwTail) \in 0 .. N - 1
      /\ CntOf(First, rdh) \in 0 .. N - 1
    BY <1>0, CntFacts
<1>11. CntOf(First, rdh) < N - 1
    BY <1>3, <1>4 DEF DInv, Order, Partition
<1>5. /\ CntOf(First, rdh') = CntOf(First, rdh) + 1
      /\ CntOf(rdh', rdt) = CntOf(rdh, rdt) - 1
    BY <1>0, <1>1, <1>11, CntSucc, CntPred
<1>6. Partition'
    BY <1>1, <1>2, <1>3, <1>4, <1>5 DEF DInv, Order, Partition
<1>7. LoopOK'
  <2> SUFFICES ASSUME rx.pc = "loop"
               PROVE  /\ rx.cur = (rx.tail + 1) % N
                      /\ CntOf(rx.cur, rx.head) <= CntOf(rx.cur, rdh')
    BY <1>1 DEF LoopOK
  <2>1. rx.cur = First /\ CntOf(rx.cur, rx.head) <= CntOf(rx.cur, rdh)
    BY LoopCur DEF DInv, Order
  <2>3. CntOf(rx.cur, rx.head) \in 0 .. N - 1
    BY RingTypes, CntFacts DEF DInv
  <2>2. QED
    BY <1>4, <1>5, <2>1, <2>3 DEF DInv, Order, LoopOK
<1>8. WaitOK(First, rdh, rxSkbs, bufFrame, recvd, delivered)'
  <2>1. \A i \in 1 .. Len(delivered) : delivered[i] <= recvd
    BY DEF DInv, Order, InOrderDelivery
  <2>2. \A i, j \in Slot : i # j => rxSkbs[i] # rxSkbs[j]
    BY DEF DInv, OwnBySlot
  <2>3. WaitOK(First, rdh, rxSkbs, bufFrame, recvd, delivered)
    BY DEF DInv, Order
  <2>4. WaitOK(First, (rdh + 1) % N, rxSkbs,
               [bufFrame EXCEPT ![rxSkbs[rdh]] = recvd + 1], recvd + 1, delivered)
    BY <1>0, <1>11, <2>1, <2>2, <2>3, WaitReceive
  <2>5. QED
    BY <1>1, <1>2, <2>4
<1>9. InOrderDelivery'
    BY <1>0, <1>1 DEF DInv, Order, InOrderDelivery
<1>10. QED
    BY <1>6, <1>7, <1>8, <1>9 DEF Order

\* HwOverrun: a frame is lost on the wire side; only recvd moves.
LEMMA OrderOverrun == DInv /\ HwOverrun => Order'
<1> SUFFICES ASSUME DInv, HwOverrun PROVE Order'
    OBVIOUS
<1>1. /\ recvd' = recvd + 1 /\ recvd \in Nat
      /\ UNCHANGED <<rdh, rdt, rxSkbs, bufFrame, rx, delivered>>
    BY RingTypes DEF HwOverrun, DInv, ringVars, poolVars
<1>2. SwTail' = SwTail /\ First' = First
    BY <1>1 DEF SwTail, First
<1>3. WaitOK(First, rdh, rxSkbs, bufFrame, recvd + 1, delivered)
    BY <1>1 DEF DInv, Order, WaitOK
<1>4. QED
    BY <1>1, <1>2, <1>3 DEF DInv, Order, Partition, LoopOK, InOrderDelivery

\* RxPollBegin: e1000_rx reads RDH and RDT; cur = RDT + 1 is the first
\* completed slot and RDH is where the waiting span ends.
LEMMA OrderBegin == DInv /\ RxPollBegin => Order'
<1> SUFFICES ASSUME DInv, RxPollBegin PROVE Order'
    OBVIOUS
<1>1. /\ rx.pc = "idle"
      /\ rx' = [pc |-> "loop", head |-> rdh, tail |-> rdt, cur |-> (rdt + 1) % N]
      /\ UNCHANGED <<rdh, rdt, rxSkbs, bufFrame, recvd, delivered>>
    BY DEF RxPollBegin, ringVars, poolVars, histVars
<1>2. SwTail = rdt /\ SwTail' = rdt /\ First' = First
    BY <1>1 DEF SwTail, First
<1>3. LoopOK'
    BY <1>1, RingSizeAssumption DEF LoopOK, CntOf, DInv, TypeOK, Slot
<1>4. QED
    BY <1>1, <1>2, <1>3 DEF DInv, Order, Partition, InOrderDelivery

\* Inside the loop, a harvestable cur is the first completed slot, short of
\* RDH; consuming it moves every span boundary at cur by one.
LEMMA HarvestRing ==
    ASSUME DInv, Harvestable
    PROVE  /\ rx.cur = First /\ SwTail = rx.tail
           /\ rx.cur \in Slot /\ rx.cur # rdh
           /\ (rx.cur + 1) % N \in Slot
           /\ CntOf(rx.cur, rdh) \in 1 .. N - 1
           /\ CntOf((rx.cur + 1) % N, rdh) = CntOf(rx.cur, rdh) - 1
           /\ CntOf(rx.cur, rx.head) \in 1 .. N - 1
           /\ CntOf((rx.cur + 1) % N, rx.head) = CntOf(rx.cur, rx.head) - 1
           /\ CntOf(rx.cur, rx.head) <= CntOf(rx.cur, rdh)
           /\ CntOf(rdt, rx.cur) = CntOf(rdt, SwTail) + 1
<1> USE RingSizeAssumption
<1>0. /\ SwTail \in Slot /\ First \in Slot /\ rx.cur \in Slot /\ rx.head \in Slot
      /\ rdh \in Slot /\ rdt \in Slot
    BY RingTypes DEF DInv, TypeOK
<1>1. rx.pc = "loop" /\ rx.cur # rx.head
    BY DEF Harvestable
<1>2. /\ SwTail = rx.tail /\ rx.cur = First
      /\ CntOf(rx.cur, rx.head) <= CntOf(rx.cur, rdh)
    BY <1>1, LoopCur DEF DInv, Order
<1>3. CntOf(rx.cur, rx.head) \in 1 .. N - 1
    BY <1>0, <1>1, CntPos
<1>4. CntOf(rx.cur, rdh) \in 1 .. N - 1
    BY <1>0, <1>2, <1>3, CntFacts
<1>5. rx.cur # rdh
    BY <1>0, <1>4, CntFacts
<1>6. /\ (rx.cur + 1) % N \in Slot
      /\ CntOf((rx.cur + 1) % N, rdh) = CntOf(rx.cur, rdh) - 1
      /\ CntOf((rx.cur + 1) % N, rx.head) = CntOf(rx.cur, rx.head) - 1
    BY <1>0, <1>1, <1>5, CntPred
<1>7. CntOf(rdt, SwTail) < N - 1
  <2>1. CntOf(rdh, rdt) \in 0 .. N - 1 /\ CntOf(rdt, SwTail) \in 0 .. N - 1
    BY <1>0, CntFacts
  <2>2. QED
    BY <1>2, <1>4, <2>1 DEF DInv, Order, Partition
<1>8. CntOf(rdt, (SwTail + 1) % N) = CntOf(rdt, SwTail) + 1
    BY <1>0, <1>7, CntSucc
<1>9. QED
    BY <1>0, <1>2, <1>3, <1>4, <1>5, <1>6, <1>8 DEF First

\* RxDrop and RxDeliver: the frame at cur leaves the waiting span, to the
\* drop set or, after every frame delivered so far, to netif_rx.
LEMMA OrderConsume == DInv /\ (RxDrop \/ RxDeliver) => Order'
<1> SUFFICES ASSUME DInv, RxDrop \/ RxDeliver PROVE Order'
    OBVIOUS
<1> USE RingSizeAssumption
<1> DEFINE c == rx.cur
           c2 == (rx.cur + 1) % N
<1>0. Harvestable /\ Advance
    BY DEF RxDrop, RxDeliver
<1>1. /\ c = First /\ SwTail = rx.tail
      /\ c \in Slot /\ c # rdh /\ c2 \in Slot
      /\ CntOf(c, rdh) \in 1 .. N - 1
      /\ CntOf(c2, rdh) = CntOf(c, rdh) - 1
      /\ CntOf(c, rx.head) \in 1 .. N - 1
      /\ CntOf(c2, rx.head) = CntOf(c, rx.head) - 1
      /\ CntOf(c, rx.head) <= CntOf(c, rdh)
      /\ CntOf(rdt, c) = CntOf(rdt, SwTail) + 1
    BY <1>0, HarvestRing
<1>2. /\ rx.pc = "loop"
      /\ rx' = [rx EXCEPT !.tail = c, !.cur = c2]
      /\ UNCHANGED <<rdh, rdt, bufFrame, recvd>>
      /\ \A i \in Slot \ {c} : rxSkbs'[i] = rxSkbs[i]
    BY <1>0, RingTypes DEF Harvestable, Advance, RxDrop, RxDeliver, DInv, TypeOK,
                           ringVars, poolVars
<1>3. SwTail' = c /\ First' = c2
    BY <1>2 DEF SwTail, First
<1>4. Partition'
  <2>1. CntOf(rdh, rdt) \in 0 .. N - 1 /\ CntOf(rdt, SwTail) \in 0 .. N - 1
    BY <1>1, RingTypes, CntFacts DEF DInv, TypeOK
  <2>2. QED
    BY <1>1, <1>2, <1>3, <2>1 DEF DInv, Order, Partition
<1>5. LoopOK'
    BY <1>1, <1>2 DEF LoopOK
<1>6. /\ WaitOK(c, rdh, rxSkbs, bufFrame, recvd, delivered)
      /\ delivered \in Seq(Nat)
      /\ rdh \in Slot
    BY <1>1, RingTypes DEF DInv, Order, TypeOK
<1>7. /\ WaitOK(c2, rdh, rxSkbs', bufFrame, recvd, delivered)
      /\ WaitOK(c2, rdh, rxSkbs', bufFrame, recvd,
                Append(delivered, WaitFrame(c, rxSkbs, bufFrame, 0)))
    BY <1>1, <1>2, <1>6, WaitConsume
<1>8. WaitFrame(c, rxSkbs, bufFrame, 0) = bufFrame[rxSkbs[c]]
  <2>0. c \in 0 .. N - 1
    BY <1>1 DEF Slot
  <2>1. (c + 0) % N = c
    BY <2>0
  <2>2. QED
    BY <2>1 DEF WaitFrame
<1>9. CASE RxDrop
  <2>1. UNCHANGED delivered
    BY <1>9 DEF RxDrop
  <2>2. QED
    BY <1>2, <1>3, <1>4, <1>5, <1>7, <2>1 DEF DInv, Order, InOrderDelivery
<1>10. CASE RxDeliver
  <2>1. delivered' = Append(delivered, WaitFrame(c, rxSkbs, bufFrame, 0))
    BY <1>8, <1>10 DEF RxDeliver
  <2>2. /\ WaitFrame(c, rxSkbs, bufFrame, 0) \in 1 .. recvd
        /\ \A i \in 1 .. Len(delivered) : delivered[i] < WaitFrame(c, rxSkbs, bufFrame, 0)
    <3>1. 0 \in 0 .. CntOf(c, rdh) - 1
      BY <1>1
    <3>2. QED
      BY <1>6, <3>1 DEF WaitOK
  <2>3. InOrderDelivery'
    BY <1>2, <1>6, <2>1, <2>2 DEF DInv, Order, InOrderDelivery
  <2>4. QED
    BY <1>2, <1>3, <1>4, <1>5, <1>7, <2>1, <2>3 DEF Order
<1>11. QED
    BY <1>9, <1>10

\* RxPollEnd: the store to RDT hands the consumed span back to the device
\* in one step; the waiting span is untouched.
LEMMA OrderEnd == DInv /\ RxPollEnd => Order'
<1> SUFFICES ASSUME DInv, RxPollEnd PROVE Order'
    OBVIOUS
<1> USE RingSizeAssumption
<1>1. /\ rx.pc = "loop"
      /\ rdt' = rx.tail
      /\ rx' = [rx EXCEPT !.pc = "idle"]
      /\ UNCHANGED <<rdh, rxSkbs, bufFrame, recvd, delivered>>
    BY DEF RxPollEnd, poolVars, histVars
<1>2. SwTail = rx.tail
    BY <1>1, LoopCur DEF DInv, Order
<1>3. SwTail' = SwTail /\ First' = First
    BY <1>1, <1>2 DEF SwTail, First
<1>4. /\ rdh \in Slot /\ rdt \in Slot /\ SwTail \in Slot /\ First \in Slot
    BY RingTypes DEF DInv, TypeOK
<1>5. /\ CntOf(rdh, rdt) \in 0 .. N - 1
      /\ CntOf(rdt, SwTail) \in 0 .. N - 1
      /\ CntOf(First, rdh) \in 0 .. N - 1
      /\ CntOf(SwTail, SwTail) = 0
    BY <1>4, CntFacts
<1>6. CntOf(rdh, SwTail) = CntOf(rdh, rdt) + CntOf(rdt, SwTail)
    BY <1>4, <1>5, CntAdd DEF DInv, Order, Partition
<1>7. Partition'
    BY <1>1, <1>2, <1>3, <1>5, <1>6 DEF DInv, Order, Partition
<1>8. LoopOK'
    BY <1>1 DEF LoopOK
<1>9. QED
    BY <1>1, <1>3, <1>7, <1>8 DEF DInv, Order, InOrderDelivery

\* StackFree and stuttering steps leave the ring, the frames and the
\* delivery history alone.
LEMMA OrderQuiet == DInv /\ (StackFree \/ UNCHANGED vars) => Order'
<1> SUFFICES ASSUME DInv, StackFree \/ UNCHANGED vars PROVE Order'
    OBVIOUS
<1>1. UNCHANGED <<rdh, rdt, rxSkbs, bufFrame, rx, recvd, delivered>>
    BY DEF StackFree, vars, ringVars, poolVars, histVars
<1>2. SwTail' = SwTail /\ First' = First
    BY <1>1 DEF SwTail, First
<1>3. QED
    BY <1>1, <1>2 DEF DInv, Order, Partition, LoopOK, InOrderDelivery

LEMMA DInvStep == DInv /\ [Next]_vars => DInv'
<1> SUFFICES ASSUME DInv, [Next]_vars PROVE DInv'
    OBVIOUS
<1>1. TypeOK' /\ OwnBySlot'
    BY TypeStep, OwnStep DEF DInv
<1>2. Order'
    BY OrderReceive, OrderOverrun, OrderBegin, OrderConsume, OrderEnd, OrderQuiet
    DEF Next
<1>3. QED
    BY <1>1, <1>2 DEF DInv

(***************************************************************************)
(* For every ring size N >= 2, pool and MaxRecv: e1000_rx hands frames to  *)
(* netif_rx in the order they arrived on the wire, each at most once, and  *)
(* only frames that arrived, however the device's receptions and overruns  *)
(* interleave with the poll and however often the poll drops a frame or    *)
(* finds the pool empty. The inductive invariant DInv adds to buffer       *)
(* ownership that the ring splits into the device's, the consumed, the    *)
(* sentinel and the completed slots, that cur never passes the RDH read on *)
(* entry, and that the completed slots hold increasing frames, all later  *)
(* than every one delivered.                                               *)
(***************************************************************************)
THEOREM InOrderDeliveryHolds == Spec => []InOrderDelivery
<1>1. Init => DInv
    BY TypeInit, OwnInit, OrderInit DEF DInv
<1>2. DInv => InOrderDelivery
    BY DEF DInv, Order
<1>3. QED
    BY <1>1, <1>2, DInvStep, PTL DEF Spec

-----------------------------------------------------------------------------
(***************************************************************************)
(* Frame accounting. The frames waiting in completed descriptors, counted  *)
(* from the first one, and the four places a frame can be: each frame     *)
(* that arrived is in exactly one of them.                                 *)
(***************************************************************************)

\* The frames in the completed descriptors from first up to RDH h.
WaitSet(first, h, skb, bf) ==
    {WaitFrame(first, skb, bf, k) : k \in 0 .. CntOf(first, h) - 1}

\* The device's drops, the waiting frames, e1000_rx's drops and the frames
\* given to netif_rx partition the frames 1 .. rcv that arrived.
AccOK(hw, ws, sw, up, rcv) ==
    /\ hw \cup ws \cup sw \cup up = 1 .. rcv
    /\ hw \cap ws = {} /\ hw \cap sw = {} /\ hw \cap up = {}
    /\ ws \cap sw = {} /\ ws \cap up = {} /\ sw \cap up = {}

\* A frame that arrives lands in one place: the waiting frames or the
\* device's drops; none of the places held it before.
LEMMA AccArrive ==
    ASSUME NEW hw, NEW ws, NEW sw, NEW up, NEW r \in Nat,
           AccOK(hw, ws, sw, up, r)
    PROVE  /\ AccOK(hw, ws \cup {r + 1}, sw, up, r + 1)
           /\ AccOK(hw \cup {r + 1}, ws, sw, up, r + 1)
<1>1. r + 1 \notin hw \cup ws \cup sw \cup up
    BY DEF AccOK
<1>2. 1 .. r + 1 = (1 .. r) \cup {r + 1}
    OBVIOUS
<1>3. QED
    BY <1>1, <1>2 DEF AccOK

\* A waiting frame consumed by the poll moves to e1000_rx's drops or to the
\* delivered frames.
LEMMA AccMove ==
    ASSUME NEW hw, NEW ws, NEW sw, NEW up, NEW r, NEW x \in ws,
           AccOK(hw, ws, sw, up, r)
    PROVE  /\ AccOK(hw, ws \ {x}, sw \cup {x}, up, r)
           /\ AccOK(hw, ws \ {x}, sw, up \cup {x}, r)
    BY DEF AccOK

\* Appending x to a sequence adds x to its range.
LEMMA RangeAppend ==
    ASSUME NEW S, NEW d \in Seq(S), NEW x
    PROVE  Range(Append(d, x)) = Range(d) \cup {x}
<1>1. DOMAIN Append(d, x) = 1 .. Len(d) + 1 /\ DOMAIN d = 1 .. Len(d)
    OBVIOUS
<1>2. \A i \in 1 .. Len(d) : Append(d, x)[i] = d[i]
    OBVIOUS
<1>3. Append(d, x)[Len(d) + 1] = x
    OBVIOUS
<1>4. QED
    BY <1>1, <1>2, <1>3 DEF Range

\* When the places partition 1 .. r, each frame is in exactly one of them.
LEMMA AccCard ==
    ASSUME NEW hw, NEW ws, NEW sw, NEW up, NEW r, AccOK(hw, ws, sw, up, r),
           NEW k \in 1 .. r
    PROVE  Cardinality({w \in {"hw", "ring", "sw", "up"} :
                           \/ w = "hw" /\ k \in hw
                           \/ w = "ring" /\ k \in ws
                           \/ w = "sw" /\ k \in sw
                           \/ w = "up" /\ k \in up}) = 1
<1> DEFINE S == {w \in {"hw", "ring", "sw", "up"} :
                    \/ w = "hw" /\ k \in hw
                    \/ w = "ring" /\ k \in ws
                    \/ w = "sw" /\ k \in sw
                    \/ w = "up" /\ k \in up}
<1>1. \E w0 : S = {w0}
  <2>1. k \in hw \cup ws \cup sw \cup up
    BY DEF AccOK
  <2>2. CASE k \in hw
    <3>1. S = {"hw"}
      BY <2>2 DEF AccOK
    <3>2. QED
      BY <3>1
  <2>3. CASE k \in ws
    <3>1. S = {"ring"}
      BY <2>3 DEF AccOK
    <3>2. QED
      BY <3>1
  <2>4. CASE k \in sw
    <3>1. S = {"sw"}
      BY <2>4 DEF AccOK
    <3>2. QED
      BY <3>1
  <2>5. CASE k \in up
    <3>1. S = {"up"}
      BY <2>5 DEF AccOK
    <3>2. QED
      BY <3>1
  <2>6. QED
    BY <2>1, <2>2, <2>3, <2>4, <2>5, Zenon
<1>2. PICK w0 : S = {w0}
    BY <1>1, Zenon
<1>3. Cardinality({w0}) = 1
    BY FS_Singleton
<1>4. QED
    BY <1>2, <1>3

\* Counting k < N slots on from a lands k slots from a.
LEMMA CntOfs ==
    ASSUME NEW a \in Slot, NEW k \in 0 .. N - 1
    PROVE  (a + k) % N \in Slot /\ CntOf(a, (a + k) % N) = k
<1> USE RingSizeAssumption
<1>1. a + k \in 0 .. 2 * N - 1
    BY DEF Slot
<1>2. (a + k) % N = IF a + k < N THEN a + k ELSE a + k - N
    BY <1>1, ModRange, RingSizeAssumption DEF Slot
<1>3. (a + k) % N \in Slot
    BY <1>2 DEF Slot
<1>4. \A t \in Slot : CntOf(a, t) = IF a <= t THEN t - a ELSE t - a + N
    BY CntFacts
<1>5. QED
    BY <1>2, <1>3, <1>4 DEF Slot

\* The slots in the cyclic interval [a, b) are those counted from a.
LEMMA CycSet ==
    ASSUME NEW a \in Slot, NEW b \in Slot
    PROVE  {s \in Slot : InCyc(s, a, b)} = {(a + k) % N : k \in 0 .. CntOf(a, b) - 1}
<1> USE RingSizeAssumption
<1>1. CntOf(a, b) \in 0 .. N - 1
    BY CntFacts
<1>2. ASSUME NEW s \in Slot, InCyc(s, a, b)
      PROVE  \E k \in 0 .. CntOf(a, b) - 1 : s = (a + k) % N
  <2>1. CntOf(a, s) \in 0 .. N - 1 /\ (a + CntOf(a, s)) % N = s
    BY CntFacts
  <2>2. CntOf(a, s) < CntOf(a, b)
    BY <1>2 DEF InCyc, CntOf
  <2>3. CntOf(a, s) \in 0 .. CntOf(a, b) - 1
    BY <1>1, <2>1, <2>2
  <2>4. QED
    BY <2>1, <2>3
<1>3. ASSUME NEW k \in 0 .. CntOf(a, b) - 1
      PROVE  (a + k) % N \in Slot /\ InCyc((a + k) % N, a, b)
  <2>1. k \in 0 .. N - 1
    BY <1>1
  <2>2. (a + k) % N \in Slot /\ CntOf(a, (a + k) % N) = k
    BY <2>1, CntOfs
  <2>3. k < CntOf(a, b)
    BY <1>1
  <2>4. InCyc((a + k) % N, a, b) <=> CntOf(a, (a + k) % N) < CntOf(a, b)
    BY Zenon DEF InCyc, CntOf
  <2>5. QED
    BY <2>2, <2>3, <2>4
<1>4. QED
    BY <1>2, <1>3

\* Waiting, as the model states it over the completed slots, is the set
\* of frames counted from the first completed slot.
LEMMA WaitingEq ==
    ASSUME TypeOK
    PROVE  Waiting = WaitSet(First, rdh, rxSkbs, bufFrame)
<1> DEFINE C == 0 .. CntOf(First, rdh) - 1
<1>1. First \in Slot /\ rdh \in Slot
    BY RingTypes DEF TypeOK
<1>2. {s \in Slot : Completed(s)} = {(First + k) % N : k \in C}
    BY <1>1, CycSet DEF Completed, First
<1>3. \A x : x \in Waiting <=> \E k \in C : x = bufFrame[rxSkbs[(First + k) % N]]
    BY <1>2, Zenon DEF Waiting
<1>4. \A x : x \in WaitSet(First, rdh, rxSkbs, bufFrame)
               <=> \E k \in C : x = bufFrame[rxSkbs[(First + k) % N]]
    BY Zenon DEF WaitSet, WaitFrame
<1>5. QED
    BY <1>3, <1>4, Zenon

\* HwReceive adds the frame rcv + 1 to the waiting ones.
WaitGrows(first, h, skb, bf, rcv) ==
    WaitSet(first, (h + 1) % N, skb, [bf EXCEPT ![skb[h]] = rcv + 1])
      = WaitSet(first, h, skb, bf) \cup {rcv + 1}

LEMMA WaitSetReceive ==
    ASSUME NEW first \in Slot, NEW h \in Slot, CntOf(first, h) < N - 1,
           NEW skb \in [Slot -> Buf], \A i, j \in Slot : i # j => skb[i] # skb[j],
           NEW bf \in [Buf -> Nat], NEW rcv \in Nat
    PROVE  WaitGrows(first, h, skb, bf, rcv)
<1> DEFINE c == CntOf(first, h)
           bf2 == [bf EXCEPT ![skb[h]] = rcv + 1]
           Old(k) == WaitFrame(first, skb, bf, k)
           New(k) == WaitFrame(first, skb, bf2, k)
<1> USE RingSizeAssumption
<1>1. (h + 1) % N \in Slot /\ CntOf(first, (h + 1) % N) = c + 1
    BY CntSucc
<1>2. c \in 0 .. N - 1 /\ (first + c) % N = h
    BY CntFacts
<1> USE <1>2
<1>3. ASSUME NEW k \in 0 .. c - 1 PROVE New(k) = Old(k)
  <2>1. (first + k) % N \in Slot /\ (first + k) % N # h
    BY CntIdx
  <2>2. skb[(first + k) % N] # skb[h]
    BY <2>1
  <2>3. QED
    BY <2>2 DEF WaitFrame
<1>4. New(c) = rcv + 1
    BY DEF WaitFrame
<1>5. WaitSet(first, (h + 1) % N, skb, bf2) = {New(k) : k \in 0 .. c}
  <2>1. 0 .. CntOf(first, (h + 1) % N) - 1 = 0 .. c
    BY <1>1
  <2>2. QED
    BY <2>1, Zenon DEF WaitSet
<1>6. WaitSet(first, h, skb, bf) = {Old(k) : k \in 0 .. c - 1}
    BY DEF WaitSet
<1>7. ASSUME NEW k \in 0 .. c
      PROVE  New(k) \in {Old(j) : j \in 0 .. c - 1} \cup {rcv + 1}
  <2>1. CASE k = c
    BY <2>1, <1>4
  <2>2. CASE k # c
    <3>1. k \in 0 .. c - 1
      BY <2>2
    <3>2. QED
      BY <3>1, <1>3, Zenon
  <2>3. QED
    BY <2>1, <2>2, Zenon
<1>8. ASSUME NEW k \in 0 .. c - 1 PROVE Old(k) \in {New(j) : j \in 0 .. c}
  <2>1. k \in 0 .. c
    OBVIOUS
  <2>2. QED
    BY <2>1, <1>3, Zenon
<1>9. c \in 0 .. c
    OBVIOUS
<1>10. QED
    BY <1>4, <1>5, <1>6, <1>7, <1>8, <1>9, Zenon DEF WaitGrows

\* RxDrop and RxDeliver take the frame of slot first = cur out of the
\* waiting ones; the frames there are distinct, so no other goes with it.
LEMMA WaitSetConsume ==
    ASSUME NEW first \in Slot, NEW h \in Slot, first # h,
           NEW skb, NEW skb2, \A i \in Slot \ {first} : skb2[i] = skb[i],
           NEW bf, NEW rcv, NEW dlv,
           WaitOK(first, h, skb, bf, rcv, dlv)
    PROVE  /\ WaitFrame(first, skb, bf, 0) \in WaitSet(first, h, skb, bf)
           /\ WaitSet((first + 1) % N, h, skb2, bf)
                = WaitSet(first, h, skb, bf) \ {WaitFrame(first, skb, bf, 0)}
<1> DEFINE c == CntOf(first, h)
           f2 == (first + 1) % N
           Old(k) == WaitFrame(first, skb, bf, k)
           New(k) == WaitFrame(f2, skb2, bf, k)
<1> USE RingSizeAssumption
<1>1. /\ f2 \in Slot
      /\ CntOf(f2, h) = c - 1
      /\ \A k \in 0 .. c - 2 : (f2 + k) % N = (first + (k + 1)) % N
    BY CntPred
<1>2. c \in 1 .. N - 1
    BY CntFacts
<1> USE <1>2
<1>3. ASSUME NEW k \in 0 .. c - 2 PROVE New(k) = Old(k + 1)
  <2>1. k + 1 \in 1 .. N - 1
    OBVIOUS
  <2>2. (first + (k + 1)) % N # first /\ (first + (k + 1)) % N \in Slot
    BY <2>1, OffRing DEF Slot
  <2>3. QED
    BY <1>1, <2>2 DEF WaitFrame
<1>4. ASSUME NEW j \in 1 .. c - 1 PROVE Old(0) < Old(j) /\ Old(j) \in Nat
  <2>1. 0 \in 0 .. c - 1 /\ j \in 0 .. c - 1 /\ 0 < j
    OBVIOUS
  <2>2. QED
    BY <2>1 DEF WaitOK
<1>5. WaitSet(f2, h, skb2, bf) = {New(k) : k \in 0 .. c - 2}
  <2>1. 0 .. CntOf(f2, h) - 1 = 0 .. c - 2
    BY <1>1
  <2>2. QED
    BY <2>1, Zenon DEF WaitSet
<1>6. WaitSet(first, h, skb, bf) = {Old(k) : k \in 0 .. c - 1}
    BY DEF WaitSet
<1>7. 0 \in 0 .. c - 1
    OBVIOUS
<1>8. ASSUME NEW k \in 0 .. c - 2
      PROVE  New(k) \in {Old(j) : j \in 0 .. c - 1} /\ New(k) # Old(0)
  <2>1. k + 1 \in 1 .. c - 1 /\ k + 1 \in 0 .. c - 1
    OBVIOUS
  <2>2. Old(0) < Old(k + 1) /\ Old(k + 1) \in Nat
    BY <2>1, <1>4
  <2>3. New(k) = Old(k + 1)
    BY <1>3
  <2>4. New(k) # Old(0)
    BY <2>2, <2>3
  <2>5. QED
    BY <2>1, <2>3, <2>4, Zenon
<1>9. ASSUME NEW j \in 0 .. c - 1, Old(j) # Old(0)
      PROVE  Old(j) \in {New(k) : k \in 0 .. c - 2}
  <2>1. j # 0
    BY <1>9
  <2>2. j - 1 \in 0 .. c - 2 /\ (j - 1) + 1 = j
    BY <2>1
  <2>3. New(j - 1) = Old(j)
    BY <2>2, <1>3
  <2>4. QED
    BY <2>2, <2>3, Zenon
<1>10. QED
    BY <1>5, <1>6, <1>7, <1>8, <1>9, Zenon

\* The partition of the frames, in the current state.
Acc == AccOK(hwDropped, WaitSet(First, rdh, rxSkbs, bufFrame), swDropped,
             Range(delivered), recvd)

\* HwReceive: the new frame joins the waiting ones at RDH.
LEMMA AccReceive == DInv /\ Acc /\ HwReceive => Acc'
<1> SUFFICES ASSUME DInv, Acc, HwReceive PROVE Acc'
    OBVIOUS
<1> USE RingSizeAssumption
<1>0. /\ SwTail \in Slot /\ First \in Slot
      /\ bufFrame \in [Buf -> Nat] /\ recvd \in Nat
      /\ rdh \in Slot /\ rdt \in Slot /\ rxSkbs \in [Slot -> Buf]
      /\ \A i, j \in Slot : i # j => rxSkbs[i] # rxSkbs[j]
    BY RingTypes DEF DInv, TypeOK, OwnBySlot
<1>1. /\ rdh # rdt
      /\ rdh' = (rdh + 1) % N
      /\ bufFrame' = [bufFrame EXCEPT ![rxSkbs[rdh]] = recvd + 1]
      /\ recvd' = recvd + 1
      /\ UNCHANGED <<rdt, rxSkbs, rx, delivered>>
  <2>1. rxDescAddr[rdh] = rxSkbs[rdh]
    BY <1>0 DEF DInv, OwnBySlot
  <2>2. QED
    BY <2>1 DEF HwReceive
<1>9. UNCHANGED <<swDropped, hwDropped>>
    BY DEF HwReceive
<1>2. First' = First
    BY <1>1 DEF SwTail, First
<1>3. CntOf(First, rdh) < N - 1
  <2>1. CntOf(rdh, rdt) \in 1 .. N - 1
    BY <1>0, <1>1, CntPos
  <2>2. CntOf(rdt, SwTail) \in 0 .. N - 1 /\ CntOf(First, rdh) \in 0 .. N - 1
    BY <1>0, CntFacts
  <2>3. QED
    BY <2>1, <2>2 DEF DInv, Order, Partition
<1>4. WaitSet(First, rdh, rxSkbs, bufFrame)'
        = WaitSet(First, rdh, rxSkbs, bufFrame) \cup {recvd + 1}
  <2>1. WaitSet(First, rdh, rxSkbs, bufFrame)'
          = WaitSet(First, (rdh + 1) % N, rxSkbs,
                    [bufFrame EXCEPT ![rxSkbs[rdh]] = recvd + 1])
    BY <1>1, <1>2, Zenon
  <2>2. WaitSet(First, (rdh + 1) % N, rxSkbs,
                [bufFrame EXCEPT ![rxSkbs[rdh]] = recvd + 1])
          = WaitSet(First, rdh, rxSkbs, bufFrame) \cup {recvd + 1}
    <3>1. First \in Slot
      BY <1>0
    <3>2. rdh \in Slot
      BY <1>0
    <3>3. rxSkbs \in [Slot -> Buf]
      BY <1>0
    <3>4. \A i, j \in Slot : i # j => rxSkbs[i] # rxSkbs[j]
      BY <1>0
    <3>5. bufFrame \in [Buf -> Nat]
      BY <1>0
    <3>6. recvd \in Nat
      BY <1>0
    <3>7. WaitGrows(First, rdh, rxSkbs, bufFrame, recvd)
      BY <3>1, <3>2, <3>3, <3>4, <3>5, <3>6, <1>3, WaitSetReceive
    <3>8. QED
      BY <3>7 DEF WaitGrows
  <2>3. QED
    BY <2>1, <2>2, Zenon
<1>5. Acc' = AccOK(hwDropped, WaitSet(First, rdh, rxSkbs, bufFrame) \cup {recvd + 1},
                   swDropped, Range(delivered), recvd + 1)
    BY <1>1, <1>4, <1>9, Zenon DEF Acc
<1>6. QED
    BY <1>0, <1>5, AccArrive, Zenon DEF Acc

\* HwOverrun: the new frame joins the device's drops.
LEMMA AccOverrun == Acc /\ HwOverrun /\ recvd \in Nat => Acc'
<1> SUFFICES ASSUME Acc, HwOverrun, recvd \in Nat PROVE Acc'
    OBVIOUS
<1>1. /\ hwDropped' = hwDropped \cup {recvd + 1} /\ recvd' = recvd + 1
      /\ UNCHANGED <<rdh, rdt, rxSkbs, bufFrame, rx, delivered, swDropped>>
    BY DEF HwOverrun, ringVars, poolVars
<1>2. First' = First
    BY <1>1 DEF SwTail, First
<1>3. Acc' = AccOK(hwDropped \cup {recvd + 1}, WaitSet(First, rdh, rxSkbs, bufFrame),
                   swDropped, Range(delivered), recvd + 1)
    BY <1>1, <1>2, Zenon DEF Acc
<1>4. QED
    BY <1>3, AccArrive, Zenon DEF Acc

\* Steps that leave RDH, the first completed slot, the buffers and the
\* histories alone keep the partition.
LEMMA AccSame ==
    ASSUME Acc, First' = First,
           UNCHANGED <<rdh, rxSkbs, bufFrame, recvd, delivered, swDropped, hwDropped>>
    PROVE  Acc'
    BY DEF Acc

\* RxDrop and RxDeliver: the frame at cur moves from the waiting ones to
\* e1000_rx's drops or to the delivered frames.
LEMMA AccConsume == DInv /\ Acc /\ (RxDrop \/ RxDeliver) => Acc'
<1> SUFFICES ASSUME DInv, Acc, RxDrop \/ RxDeliver PROVE Acc'
    OBVIOUS
<1> USE RingSizeAssumption
<1> DEFINE c == rx.cur
           x == WaitFrame(c, rxSkbs, bufFrame, 0)
           W == WaitSet(First, rdh, rxSkbs, bufFrame)
<1>0. Harvestable /\ Advance
    BY DEF RxDrop, RxDeliver
<1>1. c = First /\ c \in Slot /\ c # rdh /\ rdh \in Slot
    BY <1>0, HarvestRing DEF DInv, TypeOK
<1>2. /\ rx.pc = "loop"
      /\ rx' = [rx EXCEPT !.tail = c, !.cur = (c + 1) % N]
    BY <1>0 DEF Harvestable, Advance
<1>10. UNCHANGED <<rdh, bufFrame, recvd, hwDropped>>
    BY DEF RxDrop, RxDeliver, ringVars, poolVars
<1>11. \A i \in Slot \ {c} : rxSkbs'[i] = rxSkbs[i]
    BY RingTypes DEF RxDrop, RxDeliver, DInv, TypeOK, ringVars
<1>3. First' = (c + 1) % N
    BY <1>2 DEF SwTail, First
<1>4. WaitOK(c, rdh, rxSkbs, bufFrame, recvd, delivered)
    BY <1>1 DEF DInv, Order
<1>5. x \in W /\ W' = W \ {x}
    BY <1>1, <1>3, <1>4, <1>10, <1>11, WaitSetConsume
<1>6. x = bufFrame[rxDescAddr[c]] /\ x = bufFrame[rxSkbs[c]]
  <2>1. (c + 0) % N = c
    BY <1>1 DEF Slot
  <2>2. rxDescAddr[c] = rxSkbs[c]
    BY <1>1 DEF DInv, OwnBySlot
  <2>3. QED
    BY <2>1, <2>2 DEF WaitFrame
<1>7. CASE RxDrop
  <2>1. swDropped' = swDropped \cup {x} /\ UNCHANGED delivered
    BY <1>6, <1>7 DEF RxDrop
  <2>2. Acc' = AccOK(hwDropped, W \ {x}, swDropped \cup {x}, Range(delivered), recvd)
    BY <1>2, <1>5, <1>10, <2>1, Zenon DEF Acc
  <2>3. QED
    BY <1>5, <2>2, AccMove, Zenon DEF Acc
<1>8. CASE RxDeliver
  <2>1. delivered' = Append(delivered, x) /\ UNCHANGED swDropped
    BY <1>6, <1>8 DEF RxDeliver
  <2>2. Range(delivered') = Range(delivered) \cup {x}
    BY <2>1, RangeAppend DEF DInv, TypeOK
  <2>3. Acc' = AccOK(hwDropped, W \ {x}, swDropped, Range(delivered) \cup {x}, recvd)
    BY <1>2, <1>5, <1>10, <2>1, <2>2, Zenon DEF Acc
  <2>4. QED
    BY <1>5, <2>3, AccMove, Zenon DEF Acc
<1>9. QED
    BY <1>7, <1>8

\* The inductive invariant for FrameAccounting.
AInv == DInv /\ Acc

LEMMA AccInit == Init => Acc
<1> SUFFICES ASSUME Init PROVE Acc
    OBVIOUS
<1> USE RingSizeAssumption
<1>1. First = 0 /\ rdh = 0
    BY DEF Init, SwTail, First
<1>2. WaitSet(First, rdh, rxSkbs, bufFrame) = {}
  <2>1. CntOf(0, 0) = 0
    BY DEF CntOf
  <2>2. QED
    BY <1>1, <2>1 DEF WaitSet
<1>3. Range(delivered) = {} /\ recvd = 0 /\ hwDropped = {} /\ swDropped = {}
    BY DEF Init, Range
<1>4. QED
    BY <1>2, <1>3 DEF Acc, AccOK

LEMMA AccStep == DInv /\ Acc /\ [Next]_vars => Acc'
<1> SUFFICES ASSUME DInv, Acc, [Next]_vars PROVE Acc'
    OBVIOUS
<1>1. CASE HwReceive
    BY <1>1, AccReceive
<1>2. CASE HwOverrun
    BY <1>2, RingTypes, AccOverrun DEF DInv
<1>3. CASE RxPollBegin
  <2>1. rx.pc = "idle" /\ rx'.pc = "loop" /\ rx'.tail = rdt
        /\ UNCHANGED <<rdh, rdt, rxSkbs, bufFrame, recvd, delivered, swDropped, hwDropped>>
    BY <1>3 DEF RxPollBegin, ringVars, poolVars, histVars
  <2>2. First' = First
    BY <2>1 DEF SwTail, First
  <2>3. QED
    BY <2>1, <2>2, AccSame
<1>4. CASE RxDrop \/ RxDeliver
    BY <1>4, AccConsume
<1>5. CASE RxPollEnd
  <2>1. rx.pc = "loop" /\ rx'.pc = "idle" /\ rdt' = rx.tail
        /\ UNCHANGED <<rdh, rxSkbs, bufFrame, recvd, delivered, swDropped, hwDropped>>
    BY <1>5 DEF RxPollEnd, poolVars, histVars
  <2>2. SwTail = rx.tail
    BY <2>1, LoopCur DEF DInv, Order
  <2>3. First' = First
    BY <2>1, <2>2 DEF SwTail, First
  <2>4. QED
    BY <2>1, <2>3, AccSame
<1>6. CASE StackFree \/ UNCHANGED vars
  <2>1. UNCHANGED <<rdh, rdt, rx, rxSkbs, bufFrame, recvd, delivered, swDropped, hwDropped>>
    BY <1>6 DEF StackFree, vars, ringVars, poolVars, histVars
  <2>2. First' = First
    BY <2>1 DEF SwTail, First
  <2>3. QED
    BY <2>1, <2>2, AccSame
<1>7. QED
    BY <1>1, <1>2, <1>3, <1>4, <1>5, <1>6 DEF Next

(***************************************************************************)
(* For every ring size N >= 2, pool and MaxRecv: no frame is lost or      *)
(* duplicated on the receive path. Every frame that arrived is in exactly  *)
(* one place: dropped by the device for want of a descriptor (RXO), still  *)
(* waiting in a completed descriptor, dropped by e1000_rx (filter or no    *)
(* skb), or given to netif_rx. The inductive invariant AInv adds to DInv  *)
(* that these four sets partition the frames that arrived, the waiting    *)
(* ones counted from the first completed slot up to RDH.                   *)
(***************************************************************************)
THEOREM FrameAccountingHolds == Spec => []FrameAccounting
<1>1. Init => AInv
    BY TypeInit, OwnInit, OrderInit, AccInit DEF AInv, DInv
<1>2. AInv /\ [Next]_vars => AInv'
    BY DInvStep, AccStep DEF AInv
<1>3. AInv => FrameAccounting
  <2> SUFFICES ASSUME AInv, NEW k \in 1 .. recvd
               PROVE  Cardinality({w \in {"hw", "ring", "sw", "up"} :
                                      \/ w = "hw" /\ k \in hwDropped
                                      \/ w = "ring" /\ k \in Waiting
                                      \/ w = "sw" /\ k \in swDropped
                                      \/ w = "up" /\ k \in Range(delivered)}) = 1
    BY DEF FrameAccounting
  <2>1. Waiting = WaitSet(First, rdh, rxSkbs, bufFrame)
    BY WaitingEq DEF AInv, DInv
  <2>2. AccOK(hwDropped, Waiting, swDropped, Range(delivered), recvd)
    BY <2>1 DEF AInv, Acc
  <2>3. QED
    BY <2>2, AccCard
<1>4. QED
    BY <1>1, <1>2, <1>3, PTL DEF Spec

-----------------------------------------------------------------------------
(***************************************************************************)
(* Refinement of RxChannel. The channel's queue is the waiting frames as a *)
(* sequence, counted from first up to RDH h; the device appends to it and  *)
(* the poll takes its head.                                                *)
(***************************************************************************)

\* The waiting frames from first up to RDH h, oldest first.
QOf(first, h, skb, bf) == [k \in 1 .. CntOf(first, h) |-> WaitFrame(first, skb, bf, k - 1)]

\* The queue, read from the ring, is a sequence of frame numbers.
LEMMA QOfSeq ==
    ASSUME NEW first \in Slot, NEW h \in Slot,
           NEW skb \in [Slot -> Buf], NEW bf \in [Buf -> Nat]
    PROVE  /\ QOf(first, h, skb, bf) \in Seq(Nat)
           /\ Len(QOf(first, h, skb, bf)) = CntOf(first, h)
<1> USE RingSizeAssumption
<1>1. CntOf(first, h) \in 0 .. N - 1
    BY CntFacts
<1>2. \A k \in 1 .. CntOf(first, h) : WaitFrame(first, skb, bf, k - 1) \in Nat
  <2>1. \A k \in 1 .. CntOf(first, h) : (first + (k - 1)) % N \in Slot
    BY <1>1 DEF Slot
  <2>2. QED
    BY <2>1 DEF WaitFrame
<1>3. QED
    BY <1>1, <1>2 DEF QOf

\* HwReceive: the frame rcv + 1 written at RDH h joins the queue's end.
QGrows(first, h, skb, bf, rcv) ==
    QOf(first, (h + 1) % N, skb, [bf EXCEPT ![skb[h]] = rcv + 1])
      = Append(QOf(first, h, skb, bf), rcv + 1)

LEMMA QueueReceive ==
    ASSUME NEW first \in Slot, NEW h \in Slot, CntOf(first, h) < N - 1,
           NEW skb \in [Slot -> Buf], \A i, j \in Slot : i # j => skb[i] # skb[j],
           NEW bf \in [Buf -> Nat], NEW rcv \in Nat
    PROVE  QGrows(first, h, skb, bf, rcv)
<1> DEFINE c == CntOf(first, h)
           bf2 == [bf EXCEPT ![skb[h]] = rcv + 1]
           Q == QOf(first, h, skb, bf)
           Q2 == QOf(first, (h + 1) % N, skb, bf2)
<1> USE RingSizeAssumption
<1>1. (h + 1) % N \in Slot /\ CntOf(first, (h + 1) % N) = c + 1
    BY CntSucc
<1>2. c \in 0 .. N - 1 /\ (first + c) % N = h
    BY CntFacts
<1> USE <1>2
<1>3. Q \in Seq(Nat) /\ Len(Q) = c
    BY QOfSeq
<1>4. Q2 = [k \in 1 .. c + 1 |-> WaitFrame(first, skb, bf2, k - 1)]
    BY <1>1 DEF QOf
<1>5. ASSUME NEW k \in 1 .. c
      PROVE  WaitFrame(first, skb, bf2, k - 1) = Q[k]
  <2>1. k - 1 \in 0 .. c - 1
    OBVIOUS
  <2>2. (first + (k - 1)) % N \in Slot /\ (first + (k - 1)) % N # h
    BY <2>1, CntIdx
  <2>3. skb[(first + (k - 1)) % N] # skb[h]
    BY <2>2
  <2>4. QED
    BY <2>3 DEF WaitFrame, QOf
<1>6. WaitFrame(first, skb, bf2, c) = rcv + 1
    BY DEF WaitFrame
<1>7. /\ Append(Q, rcv + 1) \in Seq(Nat)
      /\ Len(Append(Q, rcv + 1)) = c + 1
      /\ \A i \in 1 .. c : Append(Q, rcv + 1)[i] = Q[i]
      /\ Append(Q, rcv + 1)[c + 1] = rcv + 1
    BY <1>3, AppendProperties
<1>8. Q2 \in Seq(Nat) /\ Len(Q2) = c + 1
  <2>1. bf2 \in [Buf -> Nat]
    OBVIOUS
  <2>2. (h + 1) % N \in Slot
    BY <1>1
  <2>3. Q2 \in Seq(Nat) /\ Len(Q2) = CntOf(first, (h + 1) % N)
    BY <2>1, <2>2, QOfSeq, Zenon
  <2>4. QED
    BY <1>1, <2>3, Zenon
<1>9. ASSUME NEW i \in 1 .. c + 1 PROVE Q2[i] = Append(Q, rcv + 1)[i]
  <2>1. Q2[i] = WaitFrame(first, skb, bf2, i - 1)
    BY <1>4, Zenon
  <2>2. CASE i = c + 1
    BY <1>6, <1>7, <2>1, <2>2
  <2>3. CASE i \in 1 .. c
    <3>1. WaitFrame(first, skb, bf2, i - 1) = Q[i]
      BY <1>5, <2>3, Zenon
    <3>2. Append(Q, rcv + 1)[i] = Q[i]
      BY <1>7, <2>3, Zenon
    <3>3. QED
      BY <2>1, <3>1, <3>2, Zenon
  <2>5. i = c + 1 \/ i \in 1 .. c
    OBVIOUS
  <2>4. QED
    BY <2>2, <2>3, <2>5, Zenon
<1>11. \A i \in 1 .. Len(Q2) : Q2[i] = Append(Q, rcv + 1)[i]
    BY <1>8, <1>9, Zenon
<1>12. Len(Q2) = Len(Append(Q, rcv + 1))
    BY <1>7, <1>8, Zenon
<1>10. QED
    BY <1>7, <1>8, <1>11, <1>12, SeqEqual, Zenon DEF QGrows

\* RxDrop and RxDeliver: the poll takes the head of the queue, the frame
\* of slot first = cur; the rest of the queue is unchanged, whatever
\* buffer the slot then holds.
QShrinks(first, h, skb, skb2, bf) ==
    /\ QOf(first, h, skb, bf) # << >>
    /\ Head(QOf(first, h, skb, bf)) = WaitFrame(first, skb, bf, 0)
    /\ QOf((first + 1) % N, h, skb2, bf) = Tail(QOf(first, h, skb, bf))

LEMMA QueueConsume ==
    ASSUME NEW first \in Slot, NEW h \in Slot, first # h,
           NEW skb \in [Slot -> Buf], NEW skb2 \in [Slot -> Buf],
           \A i \in Slot \ {first} : skb2[i] = skb[i],
           NEW bf \in [Buf -> Nat]
    PROVE  QShrinks(first, h, skb, skb2, bf)
<1> DEFINE c == CntOf(first, h)
           f2 == (first + 1) % N
           Q == QOf(first, h, skb, bf)
<1> USE RingSizeAssumption
<1>1. /\ f2 \in Slot
      /\ CntOf(f2, h) = c - 1
      /\ \A k \in 0 .. c - 2 : (f2 + k) % N = (first + (k + 1)) % N
    BY CntPred
<1>2. c \in 1 .. N - 1
    BY CntFacts
<1> USE <1>2
<1>3. Q \in Seq(Nat) /\ Len(Q) = c
    BY QOfSeq
<1>4. Q # << >> /\ Head(Q) = WaitFrame(first, skb, bf, 0)
    BY <1>3 DEF QOf
<1>5. ASSUME NEW k \in 1 .. c - 1
      PROVE  WaitFrame(f2, skb2, bf, k - 1) = Q[k + 1]
  <2>1. k - 1 \in 0 .. c - 2 /\ k \in 1 .. N - 1
    OBVIOUS
  <2>2. (f2 + (k - 1)) % N = (first + k) % N
    BY <1>1, <2>1
  <2>3. (first + k) % N # first
    BY <2>1, OffRing
  <2>7. (first + k) % N \in Slot
    <3>1. k \in 0 .. CntOf(first, h) - 1
      OBVIOUS
    <3>2. QED
      BY <3>1, CntIdx
  <2>4. WaitFrame(f2, skb2, bf, k - 1) = WaitFrame(first, skb, bf, k)
    BY <2>2, <2>3, <2>7 DEF WaitFrame
  <2>5. Q[k + 1] = WaitFrame(first, skb, bf, k)
    BY DEF QOf
  <2>6. QED
    BY <2>4, <2>5
<1>6. /\ QOf(f2, h, skb2, bf) \in Seq(Nat)
      /\ Len(QOf(f2, h, skb2, bf)) = c - 1
      /\ \A k \in 1 .. c - 1 : QOf(f2, h, skb2, bf)[k] = WaitFrame(f2, skb2, bf, k - 1)
  <2>1. QOf(f2, h, skb2, bf) \in Seq(Nat) /\ Len(QOf(f2, h, skb2, bf)) = CntOf(f2, h)
    BY <1>1, QOfSeq, Zenon
  <2>2. \A k \in 1 .. CntOf(f2, h) : QOf(f2, h, skb2, bf)[k] = WaitFrame(f2, skb2, bf, k - 1)
    BY Zenon DEF QOf
  <2>3. QED
    BY <1>1, <2>1, <2>2, Zenon
<1>7. /\ Tail(Q) \in Seq(Nat)
      /\ Len(Tail(Q)) = c - 1
      /\ \A k \in 1 .. c - 1 : Tail(Q)[k] = Q[k + 1]
    BY <1>3, <1>4, HeadTailProperties
<1>8. QOf(f2, h, skb2, bf) = Tail(Q)
  <2>1. \A k \in 1 .. Len(QOf(f2, h, skb2, bf)) : QOf(f2, h, skb2, bf)[k] = Tail(Q)[k]
    <3> SUFFICES ASSUME NEW k \in 1 .. c - 1
                 PROVE  QOf(f2, h, skb2, bf)[k] = Tail(Q)[k]
      BY <1>6, Zenon
    <3>1. QOf(f2, h, skb2, bf)[k] = WaitFrame(f2, skb2, bf, k - 1)
      BY <1>6, Zenon
    <3>2. Tail(Q)[k] = Q[k + 1]
      BY <1>7, Zenon
    <3>3. QED
      BY <1>5, <3>1, <3>2, Zenon
  <2>2. Len(QOf(f2, h, skb2, bf)) = Len(Tail(Q))
    BY <1>6, <1>7, Zenon
  <2>3. QED
    BY <1>6, <1>7, <2>1, <2>2, SeqEqual, Zenon
<1>9. QED
    BY <1>4, <1>8 DEF QShrinks


\* RxQueue reads the ring from First to RDH: it is QOf in any state where
\* both are slots.
LEMMA QueueForm ==
    ASSUME NEW f \in Slot, NEW h \in Slot, NEW skb, NEW bf
    PROVE  [k \in 1 .. (h - f + N) % N |-> bf[skb[(f + k - 1) % N]]]
             = QOf(f, h, skb, bf)
<1> USE RingSizeAssumption
<1>1. \A k \in 1 .. CntOf(f, h) : (f + k - 1) % N = (f + (k - 1)) % N
    OBVIOUS
<1>2. QED
    BY <1>1 DEF QOf, CntOf, WaitFrame

LEMMA QueueNow ==
    ASSUME First \in Slot, rdh \in Slot
    PROVE  RxQueue = QOf(First, rdh, rxSkbs, bufFrame)
<1>1. RxQueue = [k \in 1 .. (rdh - First + N) % N |->
                   bufFrame[rxSkbs[(First + k - 1) % N]]]
    BY Zenon DEF RxQueue, First
<1>2. QED
    BY <1>1, QueueForm

LEMMA QueueNext ==
    ASSUME First' \in Slot, rdh' \in Slot
    PROVE  RxQueue' = QOf(First', rdh', rxSkbs', bufFrame')
<1>1. RxQueue' = [k \in 1 .. (rdh' - First' + N) % N |->
                    bufFrame'[rxSkbs'[(First' + k - 1) % N]]]
    BY Zenon DEF RxQueue, First
<1>2. QED
    BY <1>1, QueueForm

\* Steps that leave RDH, the first completed slot and the ring's buffers
\* and frames alone leave the queue alone.
LEMMA QueueSame ==
    ASSUME First' = First, UNCHANGED <<rdh, rxSkbs, bufFrame>>
    PROVE  RxQueue' = RxQueue
    BY Zenon DEF RxQueue, First

\* HwReceive is the channel's Accept.
LEMMA ChanReceive == DInv /\ HwReceive => Channel!Accept
<1> SUFFICES ASSUME DInv, HwReceive PROVE Channel!Accept
    OBVIOUS
<1> USE RingSizeAssumption
<1>0. /\ SwTail \in Slot /\ First \in Slot
      /\ bufFrame \in [Buf -> Nat] /\ recvd \in Nat
      /\ rdh \in Slot /\ rdt \in Slot /\ rxSkbs \in [Slot -> Buf]
      /\ \A i, j \in Slot : i # j => rxSkbs[i] # rxSkbs[j]
    BY RingTypes DEF DInv, TypeOK, OwnBySlot
<1>1. /\ rdh # rdt
      /\ rdh' = (rdh + 1) % N
      /\ bufFrame' = [bufFrame EXCEPT ![rxSkbs[rdh]] = recvd + 1]
      /\ recvd' = recvd + 1
      /\ UNCHANGED <<rdt, rxSkbs, rx, delivered, swDropped, hwDropped>>
  <2>1. rxDescAddr[rdh] = rxSkbs[rdh]
    BY <1>0 DEF DInv, OwnBySlot
  <2>2. QED
    BY <2>1 DEF HwReceive
<1>2. First' = First /\ (rdh + 1) % N \in Slot
    BY <1>0, <1>1 DEF SwTail, First, Slot
<1>3. CntOf(First, rdh) < N - 1
  <2>1. CntOf(rdh, rdt) \in 1 .. N - 1
    BY <1>0, <1>1, CntPos
  <2>2. CntOf(rdt, SwTail) \in 0 .. N - 1 /\ CntOf(First, rdh) \in 0 .. N - 1
    BY <1>0, CntFacts
  <2>3. QED
    BY <2>1, <2>2 DEF DInv, Order, Partition
<1>4. RxQueue = QOf(First, rdh, rxSkbs, bufFrame)
    BY <1>0, QueueNow
<1>5. RxQueue' = QOf(First, (rdh + 1) % N, rxSkbs,
                     [bufFrame EXCEPT ![rxSkbs[rdh]] = recvd + 1])
    BY <1>0, <1>1, <1>2, QueueNext
<1>6. QGrows(First, rdh, rxSkbs, bufFrame, recvd)
  <2>1. First \in Slot
    BY <1>0
  <2>2. rdh \in Slot
    BY <1>0
  <2>3. rxSkbs \in [Slot -> Buf]
    BY <1>0
  <2>4. \A i, j \in Slot : i # j => rxSkbs[i] # rxSkbs[j]
    BY <1>0
  <2>5. bufFrame \in [Buf -> Nat]
    BY <1>0
  <2>6. recvd \in Nat
    BY <1>0
  <2>7. QED
    BY <2>1, <2>2, <2>3, <2>4, <2>5, <2>6, <1>3, QueueReceive
<1>7. RxQueue' = Append(RxQueue, recvd + 1)
    BY <1>4, <1>5, <1>6, Zenon DEF QGrows
<1>8. QED
    BY <1>1, <1>7 DEF Channel!Accept

\* HwOverrun is the channel's Lose.
LEMMA ChanOverrun == HwOverrun => Channel!Lose
<1> SUFFICES ASSUME HwOverrun PROVE Channel!Lose
    OBVIOUS
<1>1. /\ hwDropped' = hwDropped \cup {recvd + 1} /\ recvd' = recvd + 1
      /\ UNCHANGED <<rdh, rxSkbs, bufFrame, rx, rdt, delivered, swDropped>>
    BY DEF HwOverrun, ringVars, poolVars
<1>2. First' = First
    BY <1>1 DEF SwTail, First
<1>3. RxQueue' = RxQueue
    BY <1>1, <1>2, QueueSame
<1>4. QED
    BY <1>1, <1>3 DEF Channel!Lose


\* RxDrop and RxDeliver take the queue's head: the frame of slot cur, the
\* first completed slot.
LEMMA ChanConsume ==
    DInv /\ (RxDrop \/ RxDeliver) =>
        /\ RxQueue # << >>
        /\ bufFrame[rxDescAddr[rx.cur]] = Head(RxQueue)
        /\ RxQueue' = Tail(RxQueue)
<1> SUFFICES ASSUME DInv, RxDrop \/ RxDeliver
             PROVE  /\ RxQueue # << >>
                    /\ bufFrame[rxDescAddr[rx.cur]] = Head(RxQueue)
                    /\ RxQueue' = Tail(RxQueue)
    OBVIOUS
<1> USE RingSizeAssumption
<1> DEFINE c == rx.cur
<1>0. Harvestable /\ Advance
    BY DEF RxDrop, RxDeliver
<1>1. c = First /\ c \in Slot /\ c # rdh /\ rdh \in Slot
    BY <1>0, HarvestRing DEF DInv, TypeOK
<1>2. rx' = [rx EXCEPT !.tail = c, !.cur = (c + 1) % N] /\ rx.pc = "loop"
    BY <1>0 DEF Harvestable, Advance
<1>3. First' = (c + 1) % N /\ (c + 1) % N \in Slot
    BY <1>1, <1>2 DEF SwTail, First, Slot
<1>4. UNCHANGED <<rdh, bufFrame>>
    BY DEF RxDrop, RxDeliver, ringVars, poolVars
<1>5. /\ rxSkbs \in [Slot -> Buf] /\ rxSkbs' \in [Slot -> Buf]
      /\ bufFrame \in [Buf -> Nat]
  <2>1. TypeOK'
    BY TypeStep DEF DInv, Next
  <2>2. QED
    BY <2>1, RingTypes DEF DInv, TypeOK
<1>6. \A i \in Slot \ {c} : rxSkbs'[i] = rxSkbs[i]
    BY RingTypes DEF RxDrop, RxDeliver, DInv, TypeOK, ringVars
<1>7. RxQueue = QOf(c, rdh, rxSkbs, bufFrame)
    BY <1>1, QueueNow
<1>8. RxQueue' = QOf((c + 1) % N, rdh, rxSkbs', bufFrame)
    BY <1>1, <1>3, <1>4, QueueNext
<1>9. QShrinks(c, rdh, rxSkbs, rxSkbs', bufFrame)
  <2>1. c \in Slot /\ rdh \in Slot /\ c # rdh
    BY <1>1
  <2>2. rxSkbs \in [Slot -> Buf] /\ rxSkbs' \in [Slot -> Buf]
    BY <1>5
  <2>3. bufFrame \in [Buf -> Nat]
    BY <1>5
  <2>4. QED
    BY <2>1, <2>2, <2>3, <1>6, QueueConsume
<1>10. bufFrame[rxDescAddr[c]] = WaitFrame(c, rxSkbs, bufFrame, 0)
  <2>1. (c + 0) % N = c
    BY <1>1 DEF Slot
  <2>2. rxDescAddr[c] = rxSkbs[c]
    BY <1>1 DEF DInv, OwnBySlot
  <2>3. QED
    BY <2>1, <2>2 DEF WaitFrame
<1>11. QED
    BY <1>7, <1>8, <1>9, <1>10, Zenon DEF QShrinks

\* Every step of the driver and the device is a step of the channel or
\* leaves the channel's variables alone.
LEMMA ChanStep == DInv /\ [Next]_vars => [Channel!Next]_Channel!cvars
<1> SUFFICES ASSUME DInv, [Next]_vars PROVE [Channel!Next]_Channel!cvars
    OBVIOUS
<1>1. CASE HwReceive
    BY <1>1, ChanReceive DEF Channel!Next
<1>2. CASE HwOverrun
    BY <1>2, ChanOverrun DEF Channel!Next
<1>3. CASE RxDrop
  <2>1. /\ RxQueue # << >>
        /\ bufFrame[rxDescAddr[rx.cur]] = Head(RxQueue)
        /\ RxQueue' = Tail(RxQueue)
    BY <1>3, ChanConsume
  <2>2. Channel!Drop
    BY <1>3, <2>1 DEF RxDrop, Channel!Drop
  <2>3. QED
    BY <2>2 DEF Channel!Next
<1>4. CASE RxDeliver
  <2>1. /\ RxQueue # << >>
        /\ bufFrame[rxDescAddr[rx.cur]] = Head(RxQueue)
        /\ RxQueue' = Tail(RxQueue)
    BY <1>4, ChanConsume
  <2>2. delivered' = Append(delivered, bufFrame[rxDescAddr[rx.cur]])
    <3>1. rxDescAddr[rx.cur] = rxSkbs[rx.cur]
      <4>1. rx.cur \in Slot
        BY RingTypes DEF DInv
      <4>2. QED
        BY <4>1 DEF DInv, OwnBySlot
    <3>2. QED
      BY <1>4, <3>1 DEF RxDeliver
  <2>3. Channel!Deliver
    BY <1>4, <2>1, <2>2 DEF RxDeliver, Channel!Deliver
  <2>4. QED
    BY <2>3 DEF Channel!Next
<1>5. CASE RxPollBegin
  <2>1. rx.pc = "idle" /\ rx'.pc = "loop" /\ rx'.tail = rdt
        /\ UNCHANGED <<rdh, rdt, rxSkbs, bufFrame, recvd, delivered, swDropped, hwDropped>>
    BY <1>5 DEF RxPollBegin, ringVars, poolVars, histVars
  <2>2. First' = First
    BY <2>1 DEF SwTail, First
  <2>3. QED
    BY <2>1, <2>2, QueueSame DEF Channel!cvars
<1>6. CASE RxPollEnd
  <2>1. rx.pc = "loop" /\ rx'.pc = "idle" /\ rdt' = rx.tail
        /\ UNCHANGED <<rdh, rxSkbs, bufFrame, recvd, delivered, swDropped, hwDropped>>
    BY <1>6 DEF RxPollEnd, poolVars, histVars
  <2>2. SwTail = rx.tail
    BY <2>1, LoopCur DEF DInv, Order
  <2>3. First' = First
    BY <2>1, <2>2 DEF SwTail, First
  <2>4. QED
    BY <2>1, <2>3, QueueSame DEF Channel!cvars
<1>7. CASE StackFree \/ UNCHANGED vars
  <2>1. UNCHANGED <<rdh, rdt, rx, rxSkbs, bufFrame, recvd, delivered, swDropped, hwDropped>>
    BY <1>7 DEF StackFree, vars, ringVars, poolVars, histVars
  <2>2. First' = First
    BY <2>1 DEF SwTail, First
  <2>3. QED
    BY <2>1, <2>2, QueueSame DEF Channel!cvars
<1>8. QED
    BY <1>1, <1>2, <1>3, <1>4, <1>5, <1>6, <1>7 DEF Next

(***************************************************************************)
(* For every ring size N >= 2, pool and MaxRecv: the e1000 receive path    *)
(* implements the lossy FIFO channel RxChannel. Under the mapping that     *)
(* reads the channel's queue off the ring, from the slot after SwTail up  *)
(* to RDH, every HwReceive appends the new frame, every HwOverrun loses    *)
(* it, every RxDrop or RxDeliver of e1000_rx takes the queue's head (the  *)
(* frame in the buffer the descriptor at cur points to), and every other  *)
(* step (poll entry, the RDT store, skb_free) leaves the channel alone.   *)
(* It rests on DInv: buffer ownership makes the descriptor's buffer the   *)
(* slot's, the partition bounds the queue below N - 1 and makes cur the   *)
(* first completed slot.                                                   *)
(***************************************************************************)
THEOREM RefinesRxChannel == Spec => ImplementsRxChannel
<1>1. Init => Channel!Init
  <2> SUFFICES ASSUME Init PROVE Channel!Init
    OBVIOUS
  <2> USE RingSizeAssumption
  <2>1. First = 0 /\ rdh = 0
    BY DEF Init, SwTail, First
  <2>2. RxQueue = << >>
    <3>1. RxQueue = QOf(0, 0, rxSkbs, bufFrame)
      BY <2>1, QueueNow DEF Slot
    <3>2. CntOf(0, 0) = 0
      BY DEF CntOf
    <3>3. QED
      BY <3>1, <3>2 DEF QOf
  <2>3. QED
    BY <2>2 DEF Init, Channel!Init
<1>2. Init => DInv
    BY TypeInit, OwnInit, OrderInit DEF DInv
<1>3. QED
    BY <1>1, <1>2, DInvStep, ChanStep, PTL DEF Spec, ImplementsRxChannel, Channel!Spec

=============================================================================
