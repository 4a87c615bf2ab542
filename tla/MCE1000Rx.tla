------------------------------ MODULE MCE1000Rx ------------------------------
(***************************************************************************)
(* Model-checking instance of E1000Rx: a small ring, a pool with a couple  *)
(* of buffers beyond the ring's, and a handful of frames on the wire.      *)
(***************************************************************************)
EXTENDS E1000Rx, TLC

CONSTANTS b1, b2, b3, b4, b5

\* Two spare buffers: enough for two frames to sit in the stack while a
\* third swap still finds a free buffer, and for the pool to run dry.
MCBuf == {b1, b2, b3, b4, b5}

\* Buffers are interchangeable: nothing in the driver compares addresses.
MCSymmetry == Permutations(MCBuf)
=============================================================================
