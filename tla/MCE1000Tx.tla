------------------------------ MODULE MCE1000Tx ------------------------------
(***************************************************************************)
(* Model-checking instance of E1000Tx: a four-slot ring, one frame more    *)
(* than the ring holds, and two sending threads.                           *)
(***************************************************************************)
EXTENDS E1000Tx, TLC

CONSTANTS p1, p2, p3, p4, p5, t1, t2

MCPkt == {p1, p2, p3, p4, p5}
MCTasks == {t1, t2}

\* Frames and threads are interchangeable; order lives in the histories.
MCSymmetry == Permutations(MCPkt) \cup Permutations(MCTasks)
=============================================================================
