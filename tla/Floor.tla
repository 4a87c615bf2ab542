------------------------------- MODULE Floor --------------------------------
(***************************************************************************)
(* floorl, floor and floorf of the simple libm                             *)
(* (src/src/compat/libc/math/libm_simple/floor.c). floorl strips the       *)
(* integer part of x off a copy, tail, one power of two at a time (the     *)
(* largest that is <= tail, found by doubling i from 1), and returns       *)
(* x - tail. floor and floorf only convert to and from long double.        *)
(*                                                                         *)
(* Doubles are modelled as binary fixed-point numbers with K fraction      *)
(* bits: the value v stands for v / 2^K, which every double in the range   *)
(* checked is exactly, so the subtraction and the doubling are exact as in *)
(* the code. A power of two beyond 2^MaxExp overflows to Inf, the          *)
(* positive infinity; subtracting it gives NegInf.                         *)
(***************************************************************************)
EXTENDS Integers

CONSTANTS K,        \* fraction bits of the fixed-point representation
          MaxExp,   \* 2^MaxExp is the largest finite power of two
          Inputs,   \* the arguments x, scaled by 2^K, or Inf
          Inf,      \* +infinity
          NegInf    \* -infinity

One == 2^K                         \* the double 1.0
Top == 2^MaxExp * One              \* the largest finite power of two

ASSUME FloorAssumption ==
    /\ K \in Nat /\ MaxExp \in Nat
    /\ One \in Nat \ {0} /\ Top \in Nat
    /\ Inf \notin Int /\ NegInf \notin Int /\ Inf # NegInf
    /\ Inputs \subseteq Int \cup {Inf}

VARIABLES x, tail, i, pc

vars == <<x, tail, i, pc>>

\* a <= b on the extended numbers.
Le(a, b) == a = NegInf \/ b = Inf \/ (a \in Int /\ b \in Int /\ a <= b)

\* i *= 2, overflowing to infinity.
Twice(a) == IF a = Inf \/ 2 * a > Top THEN Inf ELSE 2 * a

\* tail - i / 2 for a finite tail: minus infinity once i has overflowed.
Strip(t, a) == IF a = Inf THEN NegInf ELSE t - a \div 2

\* The floor of a scaled value: the largest multiple of One below it.
RefFloor(v) == v - (v % One)

Init ==
    /\ x \in Inputs
    /\ tail = x                    \* double tail = x;
    /\ i = One
    /\ pc = "outer"

\* Mutant: i starts at 0.0 instead of 1.0.
OuterIZero ==
    /\ pc = "outer"
    /\ IF Le(One, tail)
          THEN i' = 0 /\ pc' = "inner"
          ELSE pc' = "done" /\ UNCHANGED i
    /\ UNCHANGED <<x, tail>>

\* Mutant: the outer test is tail > 1. instead of tail >= 1.
OuterGt ==
    /\ pc = "outer"
    /\ IF Le(One, tail) /\ tail # One
          THEN i' = One /\ pc' = "inner"
          ELSE pc' = "done" /\ UNCHANGED i
    /\ UNCHANGED <<x, tail>>

\* while (tail >= 1.) { i = 1.0; ... }  (lines 6-7), else return (line 13).
Outer ==
    /\ pc = "outer"
    /\ IF Le(One, tail)
          THEN i' = One /\ pc' = "inner"
          ELSE pc' = "done" /\ UNCHANGED i
    /\ UNCHANGED <<x, tail>>

\* Mutant: the loop body forgets to double i.
InnerNoDouble ==
    /\ pc = "inner"
    /\ IF Le(i, tail)
          THEN UNCHANGED <<tail, pc, i>>
          ELSE tail' = Strip(tail, i) /\ pc' = "outer" /\ UNCHANGED i
    /\ UNCHANGED x

\* while (i <= tail) i *= 2;  then  tail = tail - i / 2  (lines 8-11).
Inner ==
    /\ pc = "inner"
    /\ IF Le(i, tail)
          THEN i' = Twice(i) /\ UNCHANGED <<tail, pc>>
          ELSE tail' = Strip(tail, i) /\ pc' = "outer" /\ UNCHANGED i
    /\ UNCHANGED x

Next == Outer \/ Inner

\* floorl runs on one thread without blocking: each step is taken.
Spec == Init /\ [][Next]_vars /\ WF_vars(Next)

\* The value floorl returns: x - tail (line 13); x - (-inf) is +inf.
Result == IF tail = NegInf THEN Inf ELSE x - tail

-----------------------------------------------------------------------------
TypeOK ==
    /\ x \in Inputs
    /\ tail \in Int \cup {Inf, NegInf}
    /\ i \in {2^e * One : e \in 0 .. MaxExp} \cup {Inf}
    /\ pc \in {"outer", "inner", "done"}

(***************************************************************************)
(* When floorl returns a finite value for a finite non-negative x, it is   *)
(* the floor of x: the loops strip powers of two whose halves are whole    *)
(* numbers, never more than is left, until less than 1.0 remains.          *)
(***************************************************************************)
FloorNonNeg ==
    pc = "done" /\ x \in Nat /\ Result # Inf => Result = RefFloor(x)

(***************************************************************************)
(* floor(x) is the largest integer not greater than x, for every finite x *)
(* (C standard 7.12.9.2), the negative ones included.                      *)
(***************************************************************************)
FloorCorrect ==
    pc = "done" /\ x \in Int => Result = RefFloor(x)

(***************************************************************************)
(* floorl returns for every argument it can be given.                      *)
(***************************************************************************)
Terminates == <>(pc = "done")

=============================================================================
