----------------------------- MODULE E1000TxProofs -----------------------------
(***************************************************************************)
(* Proofs about the transmit side of e1000.c, for every ring size N >= 2,  *)
(* every set of frames and every set of threads: the state stays well     *)
(* typed, the two queues stay FIFO, and the device sends frames in the     *)
(* order xmit queued them and none twice, the ring-full test that misses   *)
(* a full ring (tail + 1 % E1000_TXDESC_NR) notwithstanding.               *)
(***************************************************************************)
EXTENDS E1000Tx, SequenceTheorems, TLAPS

\* How many descriptors the device owns with TDH = h and TDT = t.
CntOf(h, t) == (t - h + N) % N
Cnt == CntOf(tdh, tdt)

\* The k-th descriptor the device will send, counting from TDH.
Own(k) == txDesc[(tdh + k) % N]

\* txing_queue followed by tx_dev_queue: posted or queued, not yet freed.
Pend == txingQueue \o txDevQueue

\* p is the latest part of s.
EndsWith(s, p) ==
    Len(p) <= Len(s) /\ \A i \in 1 .. Len(p) : p[i] = s[Len(s) - Len(p) + i]

\* How many frames e1000_xmit has posted: all submitted but the queued.
NPosted == Len(submitted) - Len(txDevQueue)


-----------------------------------------------------------------------------
(***************************************************************************)
(* Ring arithmetic. Every index sum the driver and the device compute     *)
(* lies below 2N, where % N subtracts N at most once.                      *)
(***************************************************************************)
LEMMA ModRange ==
    ASSUME NEW x \in 0 .. 2 * N - 1
    PROVE  x % N = IF x < N THEN x ELSE x - N
    BY TxRingSizeAssumption

\* The owned count of a ring state, and where counting from TDH ends.
LEMMA CntFacts ==
    ASSUME NEW h \in Slot, NEW t \in Slot
    PROVE  /\ CntOf(h, t) = IF h <= t THEN t - h ELSE t - h + N
           /\ CntOf(h, t) \in 0 .. N - 1
           /\ (h + CntOf(h, t)) % N = t
           /\ CntOf(h, t) = 0 <=> h = t
<1>1. t - h + N \in 0 .. 2 * N - 1
    BY TxRingSizeAssumption DEF Slot
<1>2. CntOf(h, t) = IF h <= t THEN t - h ELSE t - h + N
    BY <1>1, ModRange, TxRingSizeAssumption DEF CntOf, Slot
<1>3. h + CntOf(h, t) \in 0 .. 2 * N - 1
    BY <1>2, TxRingSizeAssumption DEF Slot
<1>4. (h + CntOf(h, t)) % N = t
    BY <1>2, <1>3, ModRange, TxRingSizeAssumption DEF Slot
<1>5. QED
    BY <1>2, <1>4, TxRingSizeAssumption DEF Slot

\* Counting fewer than CntOf(h, t) slots from h stays off slot t.
LEMMA OwnedIdx ==
    ASSUME NEW h \in Slot, NEW t \in Slot, NEW k \in 0 .. CntOf(h, t) - 1
    PROVE  (h + k) % N \in Slot /\ (h + k) % N # t
<1>1. /\ CntOf(h, t) = IF h <= t THEN t - h ELSE t - h + N
      /\ CntOf(h, t) \in 0 .. N - 1
    BY CntFacts
<1>2. h + k \in 0 .. 2 * N - 1
    BY <1>1, TxRingSizeAssumption DEF Slot
<1>3. QED
    BY <1>1, <1>2, ModRange, TxRingSizeAssumption DEF Slot

\* A post that does not wrap TDT onto TDH hands the device one more slot.
LEMMA PostCnt ==
    ASSUME NEW h \in Slot, NEW t \in Slot, (t + 1) % N # h
    PROVE  /\ (t + 1) % N \in Slot
           /\ CntOf(h, (t + 1) % N) = CntOf(h, t) + 1
<1>1. t + 1 \in 0 .. 2 * N - 1
    BY TxRingSizeAssumption DEF Slot
<1>2. (t + 1) % N = IF t + 1 < N THEN t + 1 ELSE 0
    BY <1>1, ModRange, TxRingSizeAssumption DEF Slot
<1>3. (t + 1) % N \in Slot
    BY <1>2, TxRingSizeAssumption DEF Slot
<1>4. CntOf(h, (t + 1) % N) = IF h <= (t + 1) % N THEN ((t + 1) % N) - h
                                                  ELSE ((t + 1) % N) - h + N
  <2>1. \A tt \in Slot : CntOf(h, tt) = IF h <= tt THEN tt - h ELSE tt - h + N
    BY CntFacts
  <2>2. QED
    BY <1>3, <2>1
<1>5. CntOf(h, t) = IF h <= t THEN t - h ELSE t - h + N
    BY CntFacts
<1>6. QED
    BY <1>2, <1>3, <1>4, <1>5, TxRingSizeAssumption DEF Slot

\* Sending descriptor TDH hands one slot back; the k-th owned slot after
\* the send is the (k+1)-th before it.
LEMMA SendCnt ==
    ASSUME NEW h \in Slot, NEW t \in Slot, h # t
    PROVE  /\ (h + 1) % N \in Slot
           /\ CntOf((h + 1) % N, t) = CntOf(h, t) - 1
           /\ \A k \in 0 .. CntOf(h, t) - 2 :
                 (((h + 1) % N) + k) % N = (h + (k + 1)) % N
<1>1. h + 1 \in 0 .. 2 * N - 1
    BY TxRingSizeAssumption DEF Slot
<1>2. (h + 1) % N = IF h + 1 < N THEN h + 1 ELSE 0
    BY <1>1, ModRange, TxRingSizeAssumption DEF Slot
<1>3. (h + 1) % N \in Slot
    BY <1>2, TxRingSizeAssumption DEF Slot
<1>4. CntOf((h + 1) % N, t) = IF (h + 1) % N <= t THEN t - ((h + 1) % N)
                                                  ELSE t - ((h + 1) % N) + N
  <2>1. \A hh \in Slot : CntOf(hh, t) = IF hh <= t THEN t - hh ELSE t - hh + N
    BY CntFacts
  <2>2. QED
    BY <1>3, <2>1
<1>5. CntOf(h, t) = IF h <= t THEN t - h ELSE t - h + N
    BY CntFacts
<1>6. CntOf((h + 1) % N, t) = CntOf(h, t) - 1
    BY <1>2, <1>4, <1>5, TxRingSizeAssumption DEF Slot
<1>7. ASSUME NEW k \in 0 .. CntOf(h, t) - 2
      PROVE  (((h + 1) % N) + k) % N = (h + (k + 1)) % N
  <2>1. CntOf(h, t) \in 0 .. N - 1
    BY CntFacts
  <2>2. ((h + 1) % N) + k \in 0 .. 2 * N - 1 /\ h + (k + 1) \in 0 .. 2 * N - 1
    BY <1>3, <2>1, TxRingSizeAssumption DEF Slot
  <2>6. k \in Nat
    BY <2>1
  <2>3. (((h + 1) % N) + k) % N = IF ((h + 1) % N) + k < N
                                      THEN ((h + 1) % N) + k
                                      ELSE ((h + 1) % N) + k - N
    BY <2>2, <2>6, <1>3, ModRange, TxRingSizeAssumption DEF Slot
  <2>4. (h + (k + 1)) % N = IF h + (k + 1) < N THEN h + (k + 1)
                                                ELSE h + (k + 1) - N
    BY <2>2, <2>6, TxRingSizeAssumption DEF Slot
  <2>5. QED
    BY <1>2, <2>3, <2>4, TxRingSizeAssumption DEF Slot
<1>8. QED
    BY <1>3, <1>6, <1>7

-----------------------------------------------------------------------------
(***************************************************************************)
(* The queues are FIFO. QueuesFifo, stated with SubSeq, is EndsWith of     *)
(* the submission history and the two queues; that form is inductive       *)
(* together with TypeOK.                                                   *)
(***************************************************************************)
LEMMA FifoIff ==
    ASSUME TypeOK
    PROVE  QueuesFifo <=> EndsWith(submitted, Pend)
<1> DEFINE n == Len(submitted)
           L == Len(Pend)
           sub == SubSeq(submitted, n - L + 1, n)
<1>1. Pend \in Seq(Pkt) /\ submitted \in Seq(Pkt)
    BY ConcatProperties DEF TypeOK, Pend
<1>2. ASSUME L <= n
      PROVE  /\ sub \in Seq(Pkt)
             /\ Len(sub) = L
             /\ \A i \in 1 .. L : sub[i] = submitted[n - L + i]
  <2>1. \A i \in (n - L + 1) .. n : submitted[i] \in Pkt
    BY <1>1, <1>2
  <2>2. QED
    BY <1>1, <1>2, <2>1, SubSeqProperties
<1>3. QueuesFifo => EndsWith(submitted, Pend)
    BY <1>2 DEF QueuesFifo, EndsWith, Pend
<1>4. EndsWith(submitted, Pend) => QueuesFifo
  <2>1. SUFFICES ASSUME EndsWith(submitted, Pend) PROVE Pend = sub
    BY DEF QueuesFifo, EndsWith, Pend
  <2>2. L <= n
    BY <2>1 DEF EndsWith
  <2>3. QED
    BY <1>1, <1>2, <2>1, <2>2, SeqEqual DEF EndsWith
<1>5. QED
    BY <1>3, <1>4

\* Queueing x at the end of both the history and a tail of it.
LEMMA EndsWithAppend ==
    ASSUME NEW S, NEW s \in Seq(S), NEW p \in Seq(S), NEW x \in S,
           EndsWith(s, p)
    PROVE  EndsWith(Append(s, x), Append(p, x))
<1>0. Len(s) \in Nat /\ Len(p) \in Nat /\ Len(p) <= Len(s)
    BY DEF EndsWith
<1>1. /\ Len(Append(s, x)) = Len(s) + 1 /\ Len(Append(p, x)) = Len(p) + 1
      /\ \A i \in 1 .. Len(s) : Append(s, x)[i] = s[i]
      /\ \A i \in 1 .. Len(p) : Append(p, x)[i] = p[i]
      /\ Append(s, x)[Len(s) + 1] = x /\ Append(p, x)[Len(p) + 1] = x
    BY AppendProperties
<1>2. ASSUME NEW i \in 1 .. Len(p) + 1
      PROVE  Append(p, x)[i] = Append(s, x)[Len(s) + 1 - (Len(p) + 1) + i]
  <2>1. CASE i <= Len(p)
    <3>1. p[i] = s[Len(s) - Len(p) + i]
      BY <2>1 DEF EndsWith
    <3>2. Len(s) - Len(p) + i \in 1 .. Len(s)
      BY <1>0, <2>1
    <3>3. QED
      BY <1>0, <1>1, <2>1, <3>1, <3>2
  <2>2. CASE i = Len(p) + 1
    BY <1>0, <1>1, <2>2
  <2>3. QED
    BY <1>0, <2>1, <2>2
<1>3. Len(Append(p, x)) <= Len(Append(s, x))
    BY <1>0, <1>1
<1>4. ASSUME NEW i \in 1 .. Len(Append(p, x))
      PROVE  Append(p, x)[i]
               = Append(s, x)[Len(Append(s, x)) - Len(Append(p, x)) + i]
  <2>1. i \in 1 .. Len(p) + 1
    BY <1>1
  <2>2. Len(Append(s, x)) - Len(Append(p, x)) + i = Len(s) + 1 - (Len(p) + 1) + i
    BY <1>0, <1>1
  <2>3. QED
    BY <1>2, <2>1, <2>2
<1>5. QED
    BY <1>3, <1>4 DEF EndsWith

\* Dropping the front of a tail of s leaves a tail of s.
LEMMA EndsWithConcat ==
    ASSUME NEW S, NEW s \in Seq(S), NEW a \in Seq(S), NEW b \in Seq(S),
           EndsWith(s, a \o b)
    PROVE  EndsWith(s, b)
<1>1. Len(a \o b) = Len(a) + Len(b)
      /\ \A i \in 1 .. Len(b) : (a \o b)[Len(a) + i] = b[i]
    BY ConcatProperties
<1>2. ASSUME NEW i \in 1 .. Len(b)
      PROVE  b[i] = s[Len(s) - Len(b) + i]
  <2>1. Len(a) + i \in 1 .. Len(a \o b)
    BY <1>1
  <2>2. (a \o b)[Len(a) + i] = s[Len(s) - Len(a \o b) + (Len(a) + i)]
    BY <2>1 DEF EndsWith
  <2>3. QED
    BY <1>1, <2>2
<1>3. QED
    BY <1>1, <1>2 DEF EndsWith

\* e1000_xmit moving the head of tx_dev_queue to the end of txing_queue
\* leaves their concatenation as it was.
LEMMA MoveHead ==
    ASSUME NEW S, NEW a \in Seq(S), NEW b \in Seq(S), b # << >>
    PROVE  Append(a, Head(b)) \o Tail(b) = a \o b
<1>1. Head(b) \in S /\ Tail(b) \in Seq(S) /\ Len(Tail(b)) = Len(b) - 1
      /\ \A i \in 1 .. Len(Tail(b)) : Tail(b)[i] = b[i + 1]
    BY HeadTailProperties
<1>2. Append(a, Head(b)) \in Seq(S)
    BY <1>1
<1>3. Len(Append(a, Head(b)) \o Tail(b)) = Len(a \o b)
    BY <1>1, <1>2, ConcatProperties
<1>4. \A i \in 1 .. Len(a \o b) :
        (Append(a, Head(b)) \o Tail(b))[i] = (a \o b)[i]
    BY <1>1, <1>2, ConcatProperties
<1>5. QED
    BY <1>1, <1>2, <1>3, <1>4, ConcatProperties, SeqEqual

-----------------------------------------------------------------------------
(***************************************************************************)
(* Type correctness. TypeOK is inductive as it stands.                     *)
(***************************************************************************)
LEMMA TypeInit == Init => TypeOK
<1> SUFFICES ASSUME Init PROVE TypeOK
    OBVIOUS
<1>1. 0 \in Slot
    BY TxRingSizeAssumption DEF Slot
<1>2. QED
    BY <1>1 DEF Init, TypeOK

\* e1000_xmit, from a thread or the interrupt, keeps the ring state typed.
LEMMA XmitType ==
    ASSUME TypeOK, E1000Xmit
    PROVE  /\ tdt' \in Slot
           /\ txDesc' \in [Slot -> Pkt \cup {NoPkt}]
           /\ txDevQueue' \in Seq(Pkt)
           /\ txingQueue' \in Seq(Pkt)
<1>1. CASE E1000XmitPost
  <2>1. (tdt + 1) % N \in Slot
    BY TxRingSizeAssumption DEF TypeOK, Slot
  <2>2. Head(txDevQueue) \in Pkt /\ Tail(txDevQueue) \in Seq(Pkt)
    BY <1>1 DEF E1000XmitPost, TypeOK
  <2>3. QED
    BY <1>1, <2>1, <2>2 DEF E1000XmitPost, TypeOK
<1>2. CASE E1000XmitNone
    BY <1>2 DEF E1000XmitNone, TypeOK
<1>3. QED
    BY <1>1, <1>2 DEF E1000Xmit

LEMMA TypeStep == TypeOK /\ [Next]_vars => TypeOK'
<1> SUFFICES ASSUME TypeOK, [Next]_vars PROVE TypeOK'
    OBVIOUS
<1>1. ASSUME NEW t \in Tasks, Xmit(t) PROVE TypeOK'
  <2>1. PICK p \in Pkt \ Range(submitted) :
             /\ txDevQueue' = Append(txDevQueue, p)
             /\ submitted' = Append(submitted, p)
    BY <1>1 DEF Xmit
  <2>2. txDevQueue' \in Seq(Pkt) /\ submitted' \in Seq(Pkt)
    BY <2>1 DEF TypeOK
  <2>3. QED
    BY <1>1, <2>2 DEF Xmit, TypeOK
<1>2. ASSUME NEW t \in Tasks, XmitKick(t) PROVE TypeOK'
    BY <1>2, XmitType DEF XmitKick, TypeOK
<1>3. CASE TxClean
  <2>1. freed' \subseteq Pkt
    BY <1>3 DEF TxClean, TypeOK, Range
  <2>2. txingQueue' = << >> /\ icrTx' = FALSE /\ irq' = "xmit"
    BY <1>3 DEF TxClean
  <2>3. txingQueue' \in Seq(Pkt)
    BY <2>2
  <2>4. QED
    BY <1>3, <2>1, <2>2, <2>3 DEF TxClean, TypeOK
<1>4. CASE TxIrqXmit
    BY <1>4, XmitType DEF TxIrqXmit, TypeOK
<1>5. CASE HwTransmit
  <2>1. (tdh + 1) % N \in Slot
    BY TxRingSizeAssumption DEF TypeOK, Slot
  <2>2. sent' \in Seq(Pkt \cup {NoPkt})
    BY <1>5 DEF HwTransmit, TypeOK
  <2>3. QED
    BY <1>5, <2>1, <2>2 DEF HwTransmit, TypeOK
<1>0. 0 \in Slot
    BY TxRingSizeAssumption DEF Slot
<1>6. CASE TxStop
  <2>1. tdh' = 0 /\ tdt' = 0 /\ txUp' = FALSE /\ icrTx' = FALSE
    BY <1>6 DEF TxStop
  <2>2. QED
    BY <1>0, <1>6, <2>1 DEF TxStop, TypeOK
<1>7. CASE TxOpen
  <2>1. resetLost' \subseteq Pkt
    BY <1>7 DEF TxOpen, TypeOK, Range, Posted
  <2>2. tdh' = 0 /\ tdt' = 0 /\ txUp' = TRUE
    BY <1>7 DEF TxOpen
  <2>3. QED
    BY <1>0, <1>7, <2>1, <2>2 DEF TxOpen, TypeOK
<1>8. CASE UNCHANGED vars
    BY <1>8 DEF vars, TypeOK
<1>9. QED
    BY <1>1, <1>2, <1>3, <1>4, <1>5, <1>6, <1>7, <1>8 DEF Next

(***************************************************************************)
(* For every ring size, frame set and thread set, the ring indices stay    *)
(* within the ring, the queues hold skbs and the descriptors skbs or 0,    *)
(* however xmit threads, the interrupt, the device and stop/open           *)
(* interleave.                                                             *)
(***************************************************************************)
THEOREM TypeCorrect == Spec => []TypeOK
    BY TypeInit, TypeStep, PTL DEF Spec

\* Queueing onto the second of two sequences appends to their concatenation.
LEMMA ConcatAppend ==
    ASSUME NEW S, NEW a \in Seq(S), NEW b \in Seq(S), NEW x \in S
    PROVE  a \o Append(b, x) = Append(a \o b, x)
<1>1. a \o b \in Seq(S) /\ <<x>> \in Seq(S)
    BY ConcatProperties
<1>2. Append(b, x) = b \o <<x>> /\ Append(a \o b, x) = (a \o b) \o <<x>>
    BY <1>1, AppendIsConcat
<1>3. QED
    BY <1>1, <1>2, ConcatAssociative

\* The FIFO invariant: TypeOK and the queues ending the submission history.
FInv == TypeOK /\ EndsWith(submitted, Pend)

\* e1000_xmit keeps the queues' concatenation, or leaves both queues alone.
LEMMA XmitPend ==
    ASSUME TypeOK, E1000Xmit
    PROVE  txingQueue' \o txDevQueue' = Pend
<1>1. CASE E1000XmitPost
    BY <1>1, MoveHead DEF E1000XmitPost, TypeOK, Pend
<1>2. CASE E1000XmitNone
    BY <1>2 DEF E1000XmitNone, Pend
<1>3. QED
    BY <1>1, <1>2 DEF E1000Xmit

LEMMA FifoStep == FInv /\ [Next]_vars => FInv'
<1> SUFFICES ASSUME FInv, [Next]_vars PROVE FInv'
    OBVIOUS
<1>0. TypeOK'
    BY TypeStep DEF FInv
<1>1. ASSUME NEW t \in Tasks, Xmit(t) PROVE EndsWith(submitted, Pend)'
  <2>1. PICK p \in Pkt \ Range(submitted) :
             /\ txDevQueue' = Append(txDevQueue, p)
             /\ submitted' = Append(submitted, p)
    BY <1>1 DEF Xmit
  <2>2. Pend' = Append(Pend, p)
    BY <1>1, <2>1, ConcatAppend DEF Xmit, Pend, FInv, TypeOK
  <2>3. Pend \in Seq(Pkt)
    BY ConcatProperties DEF FInv, TypeOK, Pend
  <2>4. QED
    BY <2>1, <2>2, <2>3, EndsWithAppend DEF FInv, TypeOK
<1>2. ASSUME NEW t \in Tasks, XmitKick(t) PROVE EndsWith(submitted, Pend)'
  <2>1. Pend' = Pend /\ submitted' = submitted
    BY <1>2, XmitPend DEF XmitKick, FInv, Pend
  <2>2. QED
    BY <1>0, <2>1 DEF FInv, EndsWith
<1>3. CASE TxClean
  <2>1. Pend' = txDevQueue /\ submitted' = submitted
    BY <1>3, ConcatEmptySeq DEF TxClean, FInv, TypeOK, Pend
  <2>2. EndsWith(submitted, txDevQueue)
    BY EndsWithConcat DEF FInv, TypeOK, Pend
  <2>3. QED
    BY <1>0, <2>1, <2>2 DEF FInv, EndsWith
<1>4. CASE TxIrqXmit
  <2>1. Pend' = Pend /\ submitted' = submitted
    BY <1>4, XmitPend DEF TxIrqXmit, FInv, Pend
  <2>2. QED
    BY <1>0, <2>1 DEF FInv, EndsWith
<1>5. CASE HwTransmit \/ TxStop \/ TxOpen \/ UNCHANGED vars
  <2>1. Pend' = Pend /\ submitted' = submitted
    BY <1>5 DEF HwTransmit, TxStop, TxOpen, vars, Pend
  <2>2. QED
    BY <1>0, <2>1 DEF FInv, EndsWith
<1>6. QED
    BY <1>0, <1>1, <1>2, <1>3, <1>4, <1>5 DEF Next, FInv

(***************************************************************************)
(* For every ring size, frame set and thread set, txing_queue followed by  *)
(* tx_dev_queue is always the latest part of the order in which xmit       *)
(* queued the frames: e1000_xmit posts them in that order and              *)
(* txed_skb_clean frees them in that order, however threads and the        *)
(* interrupt interleave.                                                   *)
(***************************************************************************)
THEOREM QueuesFifoHolds == Spec => []QueuesFifo
<1>1. Init => FInv
  <2> SUFFICES ASSUME Init PROVE FInv
    OBVIOUS
  <2>2. Pend = << >>
    BY ConcatEmptySeq DEF Init, Pend
  <2>3. submitted = << >>
    BY DEF Init
  <2>4. QED
    BY <2>2, <2>3, TypeInit DEF FInv, EndsWith
<1>2. FInv => QueuesFifo
    BY FifoIff DEF FInv
<1>3. QED
    BY <1>1, <1>2, FifoStep, PTL DEF Spec

-----------------------------------------------------------------------------
(***************************************************************************)
(* Transmission order. The inductive invariant behind SentInOrder, stated  *)
(* over a ring state (TDH h, TDT t, descriptors d), a submission history   *)
(* s with np frames posted, and the frames sent snt. Positions are         *)
(* positions in s.                                                         *)
(***************************************************************************)
PosIn(s, p) == CHOOSE i \in 1 .. Len(s) : s[i] = p

\* The k-th descriptor from h.
OwnAt(d, h, k) == d[(h + k) % N]

\* Every descriptor the device owns holds a posted frame ...
OwnedPosted(h, t, d, s, np) ==
    \A k \in 0 .. CntOf(h, t) - 1 :
        OwnAt(d, h, k) \in Range(s) /\ PosIn(s, OwnAt(d, h, k)) <= np

\* ... and, counting from TDH, in submission order.
OwnedSorted(h, t, d, s) ==
    \A k1, k2 \in 0 .. CntOf(h, t) - 1 :
        k1 < k2 => PosIn(s, OwnAt(d, h, k1)) < PosIn(s, OwnAt(d, h, k2))

\* Every frame sent was posted ...
SentPosted(s, snt, np) ==
    \A i \in 1 .. Len(snt) : snt[i] \in Range(s) /\ PosIn(s, snt[i]) <= np

\* ... before every frame the device still owns ...
SentBeforeOwned(h, t, d, s, snt) ==
    \A i \in 1 .. Len(snt), k \in 0 .. CntOf(h, t) - 1 :
        PosIn(s, snt[i]) < PosIn(s, OwnAt(d, h, k))

\* ... and the frames went out in submission order.
SentSorted(s, snt) ==
    \A i, j \in 1 .. Len(snt) : i < j => PosIn(s, snt[i]) < PosIn(s, snt[j])

OrderOK(h, t, d, s, np, snt) ==
    /\ OwnedPosted(h, t, d, s, np)
    /\ OwnedSorted(h, t, d, s)
    /\ SentPosted(s, snt, np)
    /\ SentBeforeOwned(h, t, d, s, snt)
    /\ SentSorted(s, snt)

(***************************************************************************)
(* The inductive invariant: each frame is submitted once (xmit takes a     *)
(* fresh skb), the queues are FIFO, and the ring and the wire are in       *)
(* order. A post that misses the full ring leaves TDT = TDH, so the device *)
(* owns nothing and the frames it skipped are never sent at all.           *)
(***************************************************************************)
TInv ==
    /\ FInv
    /\ IsInjective(submitted)
    /\ OrderOK(tdh, tdt, txDesc, submitted, NPosted, sent)

\* In an injective sequence, the position of its j-th element is j.
LEMMA PosOfInjective ==
    ASSUME NEW S, NEW s \in Seq(S), IsInjective(s), NEW j \in 1 .. Len(s)
    PROVE  s[j] \in Range(s) /\ PosIn(s, s[j]) = j
<1>1. s[j] \in Range(s)
    BY DEF Range
<1>2. \E i \in 1 .. Len(s) : s[i] = s[j]
    OBVIOUS
<1>3. PosIn(s, s[j]) \in 1 .. Len(s) /\ s[PosIn(s, s[j])] = s[j]
    BY <1>2 DEF PosIn
<1>4. QED
    BY <1>1, <1>3 DEF IsInjective

\* Every element of a sequence has a position.
LEMMA PosInRange ==
    ASSUME NEW S, NEW s \in Seq(S), NEW p \in Range(s)
    PROVE  PosIn(s, p) \in 1 .. Len(s) /\ s[PosIn(s, p)] = p
<1>1. \E i \in 1 .. Len(s) : s[i] = p
    BY DEF Range
<1>2. QED
    BY <1>1 DEF PosIn

\* Submitting a fresh frame keeps the history injective and every old
\* frame's position; the fresh frame comes last.
LEMMA PosAppend ==
    ASSUME NEW S, NEW s \in Seq(S), IsInjective(s), NEW x \in S \ Range(s)
    PROVE  /\ IsInjective(Append(s, x))
           /\ Range(Append(s, x)) = Range(s) \cup {x}
           /\ \A p \in Range(s) : PosIn(Append(s, x), p) = PosIn(s, p)
           /\ PosIn(Append(s, x), x) = Len(s) + 1
<1> DEFINE u == Append(s, x)
<1>1. /\ u \in Seq(S) /\ Len(u) = Len(s) + 1
      /\ \A i \in 1 .. Len(s) : u[i] = s[i]
      /\ u[Len(s) + 1] = x
    BY AppendProperties
<1>2. \A i \in 1 .. Len(s) : s[i] # x
    BY DEF Range
<1>3. IsInjective(u)
    BY <1>1, <1>2 DEF IsInjective
<1>4. Range(u) = Range(s) \cup {x}
    BY <1>1 DEF Range
<1>5. ASSUME NEW p \in Range(s) PROVE PosIn(u, p) = PosIn(s, p)
  <2>1. PosIn(s, p) \in 1 .. Len(s) /\ s[PosIn(s, p)] = p
    BY PosInRange
  <2>2. u[PosIn(s, p)] = p /\ PosIn(s, p) \in 1 .. Len(u)
    BY <1>1, <2>1
  <2>3. QED
    BY <1>1, <1>3, <2>2, PosOfInjective
<1>6. PosIn(u, x) = Len(s) + 1
  <2>1. Len(s) + 1 \in 1 .. Len(u)
    BY <1>1
  <2>2. PosIn(u, u[Len(s) + 1]) = Len(s) + 1
    BY <1>1, <1>3, <2>1, PosOfInjective
  <2>3. QED
    BY <1>1, <2>2
<1>7. QED
    BY <1>3, <1>4, <1>5, <1>6

\* Submitting a fresh frame moves no position the order speaks of.
LEMMA XmitOrder ==
    ASSUME NEW s \in Seq(Pkt), IsInjective(s), NEW x \in Pkt \ Range(s),
           NEW h \in Slot, NEW t \in Slot, NEW d \in [Slot -> Pkt \cup {NoPkt}],
           NEW np, NEW snt \in Seq(Pkt \cup {NoPkt}),
           OrderOK(h, t, d, s, np, snt)
    PROVE  OrderOK(h, t, d, Append(s, x), np, snt)
<1> DEFINE u == Append(s, x)
<1>1. /\ Range(u) = Range(s) \cup {x}
      /\ \A p \in Range(s) : PosIn(u, p) = PosIn(s, p)
    BY PosAppend
<1>2. \A k \in 0 .. CntOf(h, t) - 1 : OwnAt(d, h, k) \in Range(s)
    BY DEF OrderOK, OwnedPosted
<1>3. \A i \in 1 .. Len(snt) : snt[i] \in Range(s)
    BY DEF OrderOK, SentPosted
<1>4. OwnedPosted(h, t, d, u, np)
    BY <1>1, <1>2 DEF OrderOK, OwnedPosted
<1>5. OwnedSorted(h, t, d, u)
    BY <1>1, <1>2 DEF OrderOK, OwnedSorted
<1>6. SentPosted(u, snt, np)
    BY <1>1, <1>3 DEF OrderOK, SentPosted
<1>7. SentBeforeOwned(h, t, d, u, snt)
    BY <1>1, <1>2, <1>3 DEF OrderOK, SentBeforeOwned
<1>8. SentSorted(u, snt)
    BY <1>1, <1>3 DEF OrderOK, SentSorted
<1>9. QED
    BY <1>4, <1>5, <1>6, <1>7, <1>8 DEF OrderOK

\* With the ring empty only the wire is constrained; more frames posted
\* constrain it less.
LEMMA EmptyRingOrder ==
    ASSUME NEW h, NEW t, NEW d, NEW s, NEW np \in Int, NEW np2 \in Int,
           NEW snt, np <= np2, CntOf(h, t) = 0,
           \A i \in 1 .. Len(snt) : PosIn(s, snt[i]) \in Int,
           SentPosted(s, snt, np), SentSorted(s, snt)
    PROVE  OrderOK(h, t, d, s, np2, snt)
    BY DEF OrderOK, OwnedPosted, OwnedSorted, SentPosted, SentBeforeOwned

\* Positions of frames in a history are numbers.
LEMMA PosNat ==
    ASSUME NEW S, NEW s \in Seq(S), NEW p \in Range(s)
    PROVE  PosIn(s, p) \in Nat
    BY PosInRange

(***************************************************************************)
(* e1000_xmit posting frame np + 1 into descriptor TDT and advancing TDT,  *)
(* when TDT does not wrap onto TDH: the device owns one more descriptor,   *)
(* holding a frame after every frame it owns or has sent.                  *)
(***************************************************************************)
LEMMA PostOrder ==
    ASSUME NEW s \in Seq(Pkt), IsInjective(s),
           NEW h \in Slot, NEW t \in Slot, NEW d \in [Slot -> Pkt \cup {NoPkt}],
           NEW np \in Nat, np + 1 \in 1 .. Len(s),
           NEW snt \in Seq(Pkt \cup {NoPkt}),
           (t + 1) % N # h,
           OrderOK(h, t, d, s, np, snt)
    PROVE  OrderOK(h, (t + 1) % N, [d EXCEPT ![t] = s[np + 1]], s, np + 1, snt)
<1> DEFINE t2 == (t + 1) % N
           d2 == [d EXCEPT ![t] = s[np + 1]]
           c == CntOf(h, t)
           x == s[np + 1]
<1>1. t2 \in Slot /\ CntOf(h, t2) = c + 1
    BY PostCnt
<1>2. c \in 0 .. N - 1 /\ (h + c) % N = t
    BY CntFacts
<1>3. \A k \in 0 .. c - 1 : OwnAt(d2, h, k) = OwnAt(d, h, k)
    BY OwnedIdx DEF OwnAt
<1>4. OwnAt(d2, h, c) = x
    BY <1>2 DEF OwnAt
<1>5. x \in Range(s) /\ PosIn(s, x) = np + 1
    BY PosOfInjective
<1>6. \A k \in 0 .. c - 1 : OwnAt(d, h, k) \in Range(s)
                           /\ PosIn(s, OwnAt(d, h, k)) \in 1 .. np
    <2>1. \A k \in 0 .. c - 1 : OwnAt(d, h, k) \in Range(s)
                               /\ PosIn(s, OwnAt(d, h, k)) <= np
      BY DEF OrderOK, OwnedPosted
    <2>2. QED
      BY <2>1, PosInRange
<1>7. \A i \in 1 .. Len(snt) : snt[i] \in Range(s)
                              /\ PosIn(s, snt[i]) \in 1 .. np
    <2>1. \A i \in 1 .. Len(snt) : snt[i] \in Range(s)
                                  /\ PosIn(s, snt[i]) <= np
      BY DEF OrderOK, SentPosted
    <2>2. QED
      BY <2>1, PosInRange
<1>8. \A k \in 0 .. c : OwnAt(d2, h, k) \in Range(s)
                       /\ PosIn(s, OwnAt(d2, h, k)) <= np + 1
  <2>1. SUFFICES ASSUME NEW k \in 0 .. c
                 PROVE  OwnAt(d2, h, k) \in Range(s)
                        /\ PosIn(s, OwnAt(d2, h, k)) <= np + 1
    OBVIOUS
  <2>2. CASE k < c
    <3>1. k \in 0 .. c - 1
      BY <1>2, <2>1, <2>2
    <3>2. OwnAt(d2, h, k) = OwnAt(d, h, k)
      BY <1>3, <3>1
    <3>3. OwnAt(d, h, k) \in Range(s) /\ PosIn(s, OwnAt(d, h, k)) \in 1 .. np
      BY <1>6, <3>1
    <3>4. QED
      BY <3>2, <3>3
  <2>3. CASE k = c
    BY <1>4, <1>5, <2>3
  <2>4. QED
    BY <1>2, <2>1, <2>2, <2>3
<1>0. 0 .. CntOf(h, t2) - 1 = 0 .. c
    BY <1>1, <1>2
<1>9. OwnedPosted(h, t2, d2, s, np + 1)
    BY <1>0, <1>8, Zenon DEF OwnedPosted
<1>10. OwnedSorted(h, t2, d2, s)
  <2>1. SUFFICES ASSUME NEW k1 \in 0 .. c, NEW k2 \in 0 .. c, k1 < k2
                 PROVE  PosIn(s, OwnAt(d2, h, k1)) < PosIn(s, OwnAt(d2, h, k2))
    BY <1>0 DEF OwnedSorted
  <2>2. CASE k2 < c
    <3>1. k1 \in 0 .. c - 1 /\ k2 \in 0 .. c - 1
      BY <1>2, <2>1, <2>2
    <3>2. OwnAt(d2, h, k1) = OwnAt(d, h, k1) /\ OwnAt(d2, h, k2) = OwnAt(d, h, k2)
      BY <1>3, <3>1
    <3>3. PosIn(s, OwnAt(d, h, k1)) < PosIn(s, OwnAt(d, h, k2))
      BY <2>1, <3>1 DEF OrderOK, OwnedSorted
    <3>4. QED
      BY <3>2, <3>3
  <2>3. CASE k2 = c
    <3>1. k1 \in 0 .. c - 1
      BY <1>2, <2>1, <2>3
    <3>2. OwnAt(d2, h, k1) = OwnAt(d, h, k1)
      BY <1>3, <3>1
    <3>3. PosIn(s, OwnAt(d, h, k1)) \in 1 .. np
      BY <1>6, <3>1
    <3>4. QED
      BY <1>4, <1>5, <2>3, <3>2, <3>3
  <2>4. QED
    BY <1>2, <2>2, <2>3
<1>11. SentPosted(s, snt, np + 1)
    BY <1>7 DEF SentPosted
<1>12. SentBeforeOwned(h, t2, d2, s, snt)
  <2>1. SUFFICES ASSUME NEW i \in 1 .. Len(snt), NEW k \in 0 .. c
                 PROVE  PosIn(s, snt[i]) < PosIn(s, OwnAt(d2, h, k))
    BY <1>0 DEF SentBeforeOwned
  <2>2. CASE k < c
    <3>1. k \in 0 .. c - 1
      BY <1>2, <2>1, <2>2
    <3>2. OwnAt(d2, h, k) = OwnAt(d, h, k)
      BY <1>3, <3>1
    <3>3. PosIn(s, snt[i]) < PosIn(s, OwnAt(d, h, k))
      BY <2>1, <3>1 DEF OrderOK, SentBeforeOwned
    <3>4. QED
      BY <3>2, <3>3
  <2>3. CASE k = c
    BY <1>4, <1>5, <1>7, <2>1, <2>3
  <2>4. QED
    BY <1>2, <2>2, <2>3
<1>13. QED
    BY <1>9, <1>10, <1>11, <1>12 DEF OrderOK, SentSorted

(***************************************************************************)
(* The device sending descriptor TDH and advancing TDH: the frame it puts  *)
(* on the wire is the earliest it owned, after every frame sent before.    *)
(***************************************************************************)
LEMMA SendOrder ==
    ASSUME NEW s \in Seq(Pkt),
           NEW h \in Slot, NEW t \in Slot, h # t,
           NEW d \in [Slot -> Pkt \cup {NoPkt}],
           NEW np \in Nat, NEW snt \in Seq(Pkt \cup {NoPkt}),
           OrderOK(h, t, d, s, np, snt)
    PROVE  OrderOK((h + 1) % N, t, d, s, np, Append(snt, d[h]))
<1> DEFINE h2 == (h + 1) % N
           c == CntOf(h, t)
           x0 == d[h]
           snt2 == Append(snt, x0)
<1>1. /\ h2 \in Slot
      /\ CntOf(h2, t) = c - 1
      /\ \A k \in 0 .. c - 2 : (h2 + k) % N = (h + (k + 1)) % N
    BY SendCnt
<1>2. c \in 1 .. N - 1
    BY CntFacts
<1>3. 0 .. CntOf(h2, t) - 1 = 0 .. c - 2
    BY <1>1, <1>2
<1>4. \A k \in 0 .. c - 2 : OwnAt(d, h2, k) = OwnAt(d, h, k + 1)
    BY <1>1 DEF OwnAt
<1>5. OwnAt(d, h, 0) = x0
  <2>1. h + 0 \in 0 .. 2 * N - 1 /\ h + 0 < N
    BY TxRingSizeAssumption DEF Slot
  <2>2. (h + 0) % N = h + 0
    BY <2>1, ModRange
  <2>3. QED
    BY <2>2, TxRingSizeAssumption DEF OwnAt, Slot
<1>6. \A k \in 0 .. c - 1 : OwnAt(d, h, k) \in Range(s)
                           /\ PosIn(s, OwnAt(d, h, k)) \in 1 .. np
  <2>1. \A k \in 0 .. c - 1 : OwnAt(d, h, k) \in Range(s)
                             /\ PosIn(s, OwnAt(d, h, k)) <= np
    BY DEF OrderOK, OwnedPosted
  <2>2. QED
    BY <2>1, PosInRange
<1>7. \A i \in 1 .. Len(snt) : snt[i] \in Range(s)
                              /\ PosIn(s, snt[i]) \in 1 .. np
  <2>1. \A i \in 1 .. Len(snt) : snt[i] \in Range(s)
                                /\ PosIn(s, snt[i]) <= np
    BY DEF OrderOK, SentPosted
  <2>2. QED
    BY <2>1, PosInRange
<1>8. /\ Len(snt2) = Len(snt) + 1
      /\ \A i \in 1 .. Len(snt) : snt2[i] = snt[i]
      /\ snt2[Len(snt) + 1] = x0
    BY AppendProperties
<1>9. OwnedPosted(h2, t, d, s, np)
  <2>1. SUFFICES ASSUME NEW k \in 0 .. c - 2
                 PROVE  OwnAt(d, h2, k) \in Range(s)
                        /\ PosIn(s, OwnAt(d, h2, k)) <= np
    BY <1>3 DEF OwnedPosted
  <2>2. k + 1 \in 0 .. c - 1
    BY <1>2
  <2>3. QED
    BY <1>4, <1>6, <2>2
<1>10. OwnedSorted(h2, t, d, s)
  <2>1. SUFFICES ASSUME NEW k1 \in 0 .. c - 2, NEW k2 \in 0 .. c - 2, k1 < k2
                 PROVE  PosIn(s, OwnAt(d, h2, k1)) < PosIn(s, OwnAt(d, h2, k2))
    BY <1>3 DEF OwnedSorted
  <2>2. k1 + 1 \in 0 .. c - 1 /\ k2 + 1 \in 0 .. c - 1 /\ k1 + 1 < k2 + 1
    BY <1>2, <2>1
  <2>3. PosIn(s, OwnAt(d, h, k1 + 1)) < PosIn(s, OwnAt(d, h, k2 + 1))
    BY <2>2 DEF OrderOK, OwnedSorted
  <2>4. QED
    BY <1>4, <2>3
<1>11. SentPosted(s, snt2, np)
  <2>1. SUFFICES ASSUME NEW i \in 1 .. Len(snt2)
                 PROVE  snt2[i] \in Range(s) /\ PosIn(s, snt2[i]) <= np
    BY DEF SentPosted
  <2>2. CASE i <= Len(snt)
    BY <1>7, <1>8, <2>1, <2>2
  <2>3. CASE i = Len(snt) + 1
    <3>1. 0 \in 0 .. c - 1
      BY <1>2
    <3>2. QED
      BY <1>5, <1>6, <1>8, <2>3, <3>1
  <2>4. QED
    BY <1>8, <2>2, <2>3
<1>12. SentBeforeOwned(h2, t, d, s, snt2)
  <2>1. SUFFICES ASSUME NEW i \in 1 .. Len(snt2), NEW k \in 0 .. c - 2
                 PROVE  PosIn(s, snt2[i]) < PosIn(s, OwnAt(d, h2, k))
    BY <1>3 DEF SentBeforeOwned
  <2>2. k + 1 \in 0 .. c - 1 /\ 0 \in 0 .. c - 1 /\ 0 < k + 1
    BY <1>2
  <2>3. CASE i <= Len(snt)
    <3>1. PosIn(s, snt[i]) < PosIn(s, OwnAt(d, h, k + 1))
      BY <2>1, <2>2, <2>3 DEF OrderOK, SentBeforeOwned
    <3>2. QED
      BY <1>4, <1>8, <2>1, <2>3, <3>1
  <2>4. CASE i = Len(snt) + 1
    <3>1. PosIn(s, OwnAt(d, h, 0)) < PosIn(s, OwnAt(d, h, k + 1))
      BY <2>2 DEF OrderOK, OwnedSorted
    <3>2. QED
      BY <1>4, <1>5, <1>8, <2>4, <3>1
  <2>5. QED
    BY <1>8, <2>3, <2>4
<1>13. SentSorted(s, snt2)
  <2>1. SUFFICES ASSUME NEW i \in 1 .. Len(snt2), NEW j \in 1 .. Len(snt2), i < j
                 PROVE  PosIn(s, snt2[i]) < PosIn(s, snt2[j])
    BY DEF SentSorted
  <2>2. i \in 1 .. Len(snt) /\ snt2[i] = snt[i]
    BY <1>8, <2>1
  <2>3. CASE j <= Len(snt)
    BY <1>8, <2>1, <2>2, <2>3 DEF OrderOK, SentSorted
  <2>4. CASE j = Len(snt) + 1
    <3>1. 0 \in 0 .. c - 1
      BY <1>2
    <3>2. PosIn(s, snt[i]) < PosIn(s, OwnAt(d, h, 0))
      BY <2>2, <3>1 DEF OrderOK, SentBeforeOwned
    <3>3. QED
      BY <1>5, <1>8, <2>2, <2>4, <3>2
  <2>5. QED
    BY <1>8, <2>3, <2>4
<1>14. QED
    BY <1>9, <1>10, <1>11, <1>12, <1>13 DEF OrderOK

-----------------------------------------------------------------------------
(***************************************************************************)
(* The transmit order holds in every reachable state.                      *)
(***************************************************************************)

\* The next frame e1000_xmit posts, the head of tx_dev_queue, is the frame
\* submitted right after the last one posted.
LEMMA HeadIsNext ==
    ASSUME FInv, txDevQueue # << >>
    PROVE  /\ NPosted \in Nat
           /\ NPosted + 1 \in 1 .. Len(submitted)
           /\ Head(txDevQueue) = submitted[NPosted + 1]
<1> DEFINE a == Len(txingQueue)
           m == Len(txDevQueue)
           n == Len(submitted)
<1>1. /\ Len(Pend) = a + m
      /\ Pend[a + 1] = txDevQueue[1]
      /\ a \in Nat /\ m \in Nat /\ m >= 1 /\ n \in Nat
    BY ConcatProperties DEF FInv, TypeOK, Pend
<1>2. a + m <= n /\ Pend[a + 1] = submitted[n - (a + m) + (a + 1)]
    BY <1>1 DEF FInv, EndsWith
<1>3. Head(txDevQueue) = txDevQueue[1]
    BY <1>1 DEF FInv, TypeOK
<1>4. QED
    BY <1>1, <1>2, <1>3 DEF NPosted

\* Frames already sent have positions.
LEMMA SentPos ==
    ASSUME NEW s \in Seq(Pkt), NEW snt, NEW np, SentPosted(s, snt, np)
    PROVE  \A i \in 1 .. Len(snt) : PosIn(s, snt[i]) \in Int
    BY PosInRange DEF SentPosted

\* e1000_xmit, from a thread or the interrupt, keeps the order.
LEMMA XmitKeepsOrder ==
    ASSUME TInv, E1000Xmit, UNCHANGED <<tdh, submitted, sent>>
    PROVE  OrderOK(tdh', tdt', txDesc', submitted', NPosted', sent')
<1>1. CASE E1000XmitPost
  <2>1. /\ NPosted \in Nat
        /\ NPosted + 1 \in 1 .. Len(submitted)
        /\ Head(txDevQueue) = submitted[NPosted + 1]
    BY <1>1, HeadIsNext DEF E1000XmitPost, TInv
  <2>2. NPosted' = NPosted + 1
    BY <1>1 DEF E1000XmitPost, NPosted, TInv, FInv, TypeOK
  <2>3. txDesc' = [txDesc EXCEPT ![tdt] = submitted[NPosted + 1]]
        /\ tdt' = (tdt + 1) % N
    BY <1>1, <2>1 DEF E1000XmitPost
  <2>4. CASE (tdt + 1) % N # tdh
    BY <2>1, <2>2, <2>3, <2>4, PostOrder DEF TInv, FInv, TypeOK
  \* TDT wraps onto TDH: the device owns nothing any more.
  <2>5. CASE (tdt + 1) % N = tdh
    <3>1. CntOf(tdh', tdt') = 0
      BY <2>3, <2>5, CntFacts DEF TInv, FInv, TypeOK
    <3>2. \A i \in 1 .. Len(sent) : PosIn(submitted, sent[i]) \in Int
      BY SentPos DEF TInv, OrderOK, FInv, TypeOK
    <3>3. SentPosted(submitted, sent, NPosted) /\ SentSorted(submitted, sent)
      BY DEF TInv, OrderOK
    <3>4. OrderOK(tdh', tdt', txDesc', submitted, NPosted + 1, sent)
      BY <2>1, <3>1, <3>2, <3>3, EmptyRingOrder
    <3>5. QED
      BY <2>2, <3>4
  <2>6. QED
    BY <2>4, <2>5
<1>2. CASE E1000XmitNone
  <2>1. NPosted' = NPosted
    BY <1>2 DEF E1000XmitNone, NPosted
  <2>2. QED
    BY <1>2, <2>1 DEF E1000XmitNone, TInv
<1>3. QED
    BY <1>1, <1>2 DEF E1000Xmit

LEMMA TInvInit == Init => TInv
<1> SUFFICES ASSUME Init PROVE TInv
    OBVIOUS
<1>1. FInv
  <2>1. Pend = << >> /\ submitted = << >>
    BY ConcatEmptySeq DEF Init, Pend
  <2>2. QED
    BY <2>1, TypeInit DEF FInv, EndsWith
<1>2. CntOf(tdh, tdt) = 0
    BY TxRingSizeAssumption DEF Init, CntOf
<1>3. IsInjective(submitted) /\ sent = << >>
    BY DEF Init, IsInjective
<1>4. QED
    BY <1>1, <1>2, <1>3 DEF TInv, OrderOK, OwnedPosted, OwnedSorted,
                            SentPosted, SentBeforeOwned, SentSorted

LEMMA TInvStep == TInv /\ [Next]_vars => TInv'
<1> SUFFICES ASSUME TInv, [Next]_vars
             PROVE  IsInjective(submitted')
                    /\ OrderOK(tdh', tdt', txDesc', submitted', NPosted', sent')
    BY FifoStep DEF TInv
<1> USE DEF TInv
<1>1. ASSUME NEW t \in Tasks, Xmit(t)
      PROVE  IsInjective(submitted')
             /\ OrderOK(tdh', tdt', txDesc', submitted', NPosted', sent')
  <2>1. PICK p \in Pkt \ Range(submitted) :
             /\ txDevQueue' = Append(txDevQueue, p)
             /\ submitted' = Append(submitted, p)
    BY <1>1 DEF Xmit
  <2>2. IsInjective(submitted')
    BY <2>1, PosAppend DEF FInv, TypeOK
  <2>3. NPosted' = NPosted
    BY <2>1 DEF NPosted, FInv, TypeOK
  <2>4. OrderOK(tdh, tdt, txDesc, submitted', NPosted, sent)
    BY <2>1, XmitOrder DEF FInv, TypeOK
  <2>5. QED
    BY <1>1, <2>2, <2>3, <2>4 DEF Xmit
<1>2. ASSUME NEW t \in Tasks, XmitKick(t)
      PROVE  IsInjective(submitted')
             /\ OrderOK(tdh', tdt', txDesc', submitted', NPosted', sent')
    BY <1>2, XmitKeepsOrder DEF XmitKick
<1>3. CASE TxIrqXmit
    BY <1>3, XmitKeepsOrder DEF TxIrqXmit
<1>4. CASE TxClean
  <2>1. NPosted' = NPosted
    BY <1>4 DEF TxClean, NPosted
  <2>2. QED
    BY <1>4, <2>1 DEF TxClean
<1>5. CASE HwTransmit
  <2>1. NPosted' = NPosted /\ NPosted \in Nat
    BY <1>5 DEF HwTransmit, NPosted, FInv, EndsWith, Pend, TypeOK
  <2>2. OrderOK((tdh + 1) % N, tdt, txDesc, submitted, NPosted,
                Append(sent, txDesc[tdh]))
    BY <1>5, <2>1, SendOrder DEF HwTransmit, FInv, TypeOK
  <2>3. QED
    BY <1>5, <2>1, <2>2 DEF HwTransmit
\* Stop and open clear TDH and TDT: the device owns nothing.
<1>6. CASE TxStop \/ TxOpen
  <2>1. tdh' = 0 /\ tdt' = 0 /\ NPosted' = NPosted
        /\ UNCHANGED <<submitted, sent>>
    BY <1>6 DEF TxStop, TxOpen, NPosted
  <2>2. CntOf(0, 0) = 0
    BY TxRingSizeAssumption DEF CntOf
  <2>3. NPosted \in Int
    BY DEF NPosted, FInv, TypeOK
  <2>4. \A i \in 1 .. Len(sent) : PosIn(submitted, sent[i]) \in Int
    BY SentPos DEF OrderOK, FInv, TypeOK
  <2>5. SentPosted(submitted, sent, NPosted) /\ SentSorted(submitted, sent)
    BY DEF OrderOK
  <2>6. OrderOK(0, 0, txDesc', submitted, NPosted, sent)
    BY <2>2, <2>3, <2>4, <2>5, EmptyRingOrder
  <2>7. QED
    BY <2>1, <2>6
<1>7. CASE UNCHANGED vars
    BY <1>7 DEF vars, NPosted
<1>8. QED
    BY <1>1, <1>2, <1>3, <1>4, <1>5, <1>6, <1>7 DEF Next

LEMMA TInvSentInOrder == TInv => SentInOrder
<1> SUFFICES ASSUME TInv PROVE SentInOrder
    OBVIOUS
<1>1. \A p : SubmitPos(p) = PosIn(submitted, p)
    BY DEF SubmitPos, PosIn
<1>2. QED
    BY <1>1 DEF TInv, OrderOK, SentPosted, SentSorted, SentInOrder

(***************************************************************************)
(* For every ring size N >= 2, frame set and thread set, the device puts   *)
(* on the wire only frames xmit submitted, in the order it submitted them, *)
(* and none twice: e1000_xmit (lines 109-148) writes descriptor TDT before *)
(* advancing TDT, so every descriptor between TDH and TDT holds a frame    *)
(* posted after those before it. A post that misses the full ring makes    *)
(* the device skip the frames it owned, never send them out of order.      *)
(***************************************************************************)
THEOREM SentInOrderHolds == Spec => []SentInOrder
<1>1. Init => TInv
    BY TInvInit
<1>2. TInv /\ [Next]_vars => TInv'
    BY TInvStep
<1>3. TInv => SentInOrder
    BY TInvSentInOrder
<1>4. QED
    BY <1>1, <1>2, <1>3, PTL DEF Spec

=============================================================================
