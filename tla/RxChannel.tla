----------------------------- MODULE RxChannel -----------------------------
(***************************************************************************)
(* What the e1000 receive path promises the network stack, with no ring,   *)
(* no registers and no buffers: frames arrive numbered 1, 2, ...; each is  *)
(* either lost at once (the device had nowhere to put it) or joins a FIFO  *)
(* queue; the oldest queued frame is either dropped by the driver or       *)
(* handed to the stack.                                                    *)
(***************************************************************************)
EXTENDS Naturals, Sequences

VARIABLES recvd,      \* frames that have arrived so far
          queue,      \* frames accepted and not yet taken, oldest first
          delivered,  \* frames handed to the stack, in order
          swDropped,  \* frames the driver dropped
          hwDropped   \* frames lost on arrival

cvars == <<recvd, queue, delivered, swDropped, hwDropped>>

Init ==
    /\ recvd = 0
    /\ queue = << >>
    /\ delivered = << >>
    /\ swDropped = {}
    /\ hwDropped = {}

\* A frame arrives and is queued.
Accept ==
    /\ recvd' = recvd + 1
    /\ queue' = Append(queue, recvd + 1)
    /\ UNCHANGED <<delivered, swDropped, hwDropped>>

\* A frame arrives and is lost.
Lose ==
    /\ recvd' = recvd + 1
    /\ hwDropped' = hwDropped \cup {recvd + 1}
    /\ UNCHANGED <<queue, delivered, swDropped>>

\* The oldest queued frame is dropped.
Drop ==
    /\ queue # << >>
    /\ swDropped' = swDropped \cup {Head(queue)}
    /\ queue' = Tail(queue)
    /\ UNCHANGED <<recvd, delivered, hwDropped>>

\* The oldest queued frame is handed to the stack.
Deliver ==
    /\ queue # << >>
    /\ delivered' = Append(delivered, Head(queue))
    /\ queue' = Tail(queue)
    /\ UNCHANGED <<recvd, swDropped, hwDropped>>

Next == Accept \/ Lose \/ Drop \/ Deliver

Spec == Init /\ [][Next]_cvars

=============================================================================
