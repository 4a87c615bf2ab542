------------------------------ MODULE MCE1000Dev ------------------------------
(***************************************************************************)
(* Model-checking instance of E1000Dev: a small ring, a pool with one      *)
(* buffer more than the ring needs, a few frames and a few opens.          *)
(***************************************************************************)
EXTENDS E1000Dev, TLC

CONSTANTS b1, b2, b3, b4

MCBuf == {b1, b2, b3, b4}

\* Buffers are interchangeable: nothing in the driver compares addresses.
MCSymmetry == Permutations(MCBuf)
=============================================================================
