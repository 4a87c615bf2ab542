------------------------------ MODULE MCFloor -------------------------------
(***************************************************************************)
(* Floor with two fraction bits and powers of two up to 2^3 = 8.0: the    *)
(* finite arguments from -1.5 up to 15.75 in steps of 0.25, the negative   *)
(* ones, those at or above 8.0 (the analogue of 2^1023 <= x < DBL_MAX),   *)
(* and +infinity.                                                          *)
(***************************************************************************)
EXTENDS Floor

MCFinite == -6 .. 2 * Top - 1
MCNegative == -6 .. -1
MCHuge == Top .. 2 * Top - 1
MCInfinite == {Inf}
=============================================================================
