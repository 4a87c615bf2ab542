----------------------------- MODULE FloorProofs -----------------------------
(***************************************************************************)
(* Proof that floorl is right whenever it returns a finite value for a    *)
(* finite non-negative argument, for every number K of fraction bits and  *)
(* every exponent range MaxExp.                                            *)
(***************************************************************************)
EXTENDS Floor, TLAPS

(***************************************************************************)
(* The inductive invariant. i is 1.0 or a power of two whose half is a     *)
(* whole number, or has overflowed; for x >= 0 the tail stays a            *)
(* non-negative number congruent to x modulo 1.0 (or becomes -inf after    *)
(* an overflow, which ends the loops); in the inner loop it is a number    *)
(* and at least half of i is left to strip,                                *)
(* unless i is still 1.0, which the outer test has found <= tail; and once *)
(* the loops are done less than 1.0 is left.                               *)
(***************************************************************************)
WholeHalf(v) == v = One \/ (v % 2 = 0 /\ (v \div 2) % One = 0)

FInv ==
    /\ x \in Inputs
    /\ pc \in {"outer", "inner", "done"}
    /\ i = Inf \/ (i \in Nat /\ i % One = 0 /\ WholeHalf(i))
    /\ x \in Nat =>
         /\ tail = NegInf \/ (tail \in Nat /\ (x - tail) % One = 0)
         /\ pc = "inner" => tail \in Nat
         /\ pc = "inner" =>
               \/ i = One /\ One <= tail
               \/ i \in Nat /\ i # One /\ i \div 2 <= tail
               \/ i = Inf
         /\ pc = "done" /\ tail \in Nat => tail < One

\* Sums and differences of multiples of m are multiples of m.
LEMMA ModDiff ==
    ASSUME NEW a \in Int, NEW b \in Int, NEW m \in Nat \ {0},
           a % m = 0, b % m = 0
    PROVE  (a + b) % m = 0
<1>1. PICK p \in Int : a = m * p
    OBVIOUS
<1>2. PICK q \in Int : b = m * q
    OBVIOUS
<1>3. a + b = m * (p + q)
    BY <1>1, <1>2
<1>4. QED
    BY <1>3

\* A number in 0 .. m-1 congruent to v modulo m is v % m.
LEMMA ModUnique ==
    ASSUME NEW v \in Int, NEW t \in Nat, NEW m \in Nat \ {0},
           t < m, (v - t) % m = 0
    PROVE  t = v % m
<1>1. PICK q \in Int : v - t = m * q
    OBVIOUS
<1>2. v % m \in 0 .. m - 1
    OBVIOUS
<1>3. v % m = v - m * (v \div m)
    BY Z3T(60)
<1> DEFINE k == q - v \div m
<1>4. m * k = (v % m) - t
    BY <1>1, <1>3, Z3T(30)
<1>5. k = 0
  <2>1. CASE k >= 1
    <3>1. m * k >= m
      BY <2>1
    <3>2. QED
      BY <1>2, <1>4, <3>1
  <2>2. CASE k <= -1
    <3>1. m * k <= -m
      BY <2>2
    <3>2. QED
      BY <1>2, <1>4, <3>1
  <2>3. QED
    BY <2>1, <2>2
<1>6. QED
    BY <1>4, <1>5

LEMMA FInvInit == Init => FInv
<1> SUFFICES ASSUME Init PROVE FInv
    OBVIOUS
<1>1. x \in Nat => (x - x) % One = 0
    BY FloorAssumption
<1>2. One % One = 0 /\ One \in Nat
    BY FloorAssumption
<1>3. QED
    BY <1>1, <1>2, FloorAssumption DEF Init, FInv, WholeHalf
LEMMA FInvStep == FInv /\ [Next]_vars => FInv'
<1> SUFFICES ASSUME FInv, [Next]_vars PROVE FInv'
    OBVIOUS
<1> USE FloorAssumption
<1>1. CASE Outer
  <2>1. CASE Le(One, tail)
    <3>1. i' = One /\ pc' = "inner" /\ tail' = tail /\ x' = x
      BY <1>1, <2>1 DEF Outer
    <3>2. x \in Nat /\ tail \in Nat => One <= tail
      BY <2>1 DEF Le
    <3>3. One % One = 0
      OBVIOUS
    <3>4. x \in Nat => tail \in Nat
      BY <2>1 DEF FInv, Le
    <3>5. QED
      BY <3>1, <3>2, <3>3, <3>4 DEF FInv, WholeHalf
  <2>2. CASE ~Le(One, tail)
    <3>1. pc' = "done" /\ i' = i /\ tail' = tail /\ x' = x
      BY <1>1, <2>2 DEF Outer
    <3>2. tail \in Nat => tail < One
      BY <2>2 DEF Le
    <3>3. QED
      BY <3>1, <3>2 DEF FInv
  <2>3. QED
    BY <2>1, <2>2
<1>2. CASE Inner
  <2>0. pc = "inner" /\ x' = x
    BY <1>2 DEF Inner
  <2>1. CASE Le(i, tail)
    <3>1. i' = Twice(i) /\ tail' = tail /\ pc' = pc
      BY <1>2, <2>1 DEF Inner
    <3>2. CASE i = Inf \/ 2 * i > Top
      BY <2>0, <3>1, <3>2 DEF Twice, FInv
    <3>3. CASE ~(i = Inf \/ 2 * i > Top)
      <4>1. i \in Nat /\ i % One = 0
        BY <3>3 DEF FInv
      <4>2. i' = 2 * i
        BY <3>1, <3>3 DEF Twice
      <4>3. /\ (2 * i) % One = 0
            /\ (2 * i) % 2 = 0 /\ (2 * i) \div 2 = i
        <5>1. i \in Int /\ One \in Nat \ {0} /\ i % One = 0
          BY <4>1
        <5>2. (i + i) % One = 0
          BY <5>1, ModDiff, Zenon
        <5>3. QED
          BY <4>1, <5>2
      <4>4. 2 * i # One
        BY <4>1, <4>3
      <4>5. tail \in Nat => i <= tail
        BY <2>1, <4>1 DEF Le
      <4>6. QED
        BY <2>0, <3>1, <4>1, <4>2, <4>3, <4>4, <4>5 DEF FInv, WholeHalf
    <3>4. QED
      BY <3>2, <3>3
  <2>2. CASE ~Le(i, tail)
    <3>1. tail' = Strip(tail, i) /\ pc' = "outer" /\ i' = i
      BY <1>2, <2>2 DEF Inner
    <3>2. CASE i = Inf
      <4>1. tail' = NegInf
        BY <3>1, <3>2 DEF Strip
      <4>2. QED
        BY <2>0, <3>1, <4>1 DEF FInv
    <3>3. CASE i # Inf /\ x \notin Nat
      BY <2>0, <3>1, <3>3 DEF FInv
    <3>4. CASE i # Inf /\ x \in Nat
      <4>1. i \in Nat /\ i % One = 0 /\ WholeHalf(i)
        BY <3>4 DEF FInv
      <4>2. tail' = tail - i \div 2
        BY <3>1, <3>4 DEF Strip
      <4>3. tail \in Nat /\ (x - tail) % One = 0
        BY <2>0, <3>4 DEF FInv
      <4>4. i # One /\ i \div 2 <= tail
        BY <2>0, <2>2, <3>4, <4>1, <4>3 DEF FInv, Le
      <4>5. (i \div 2) % One = 0 /\ i \div 2 \in Nat
        BY <4>1, <4>4 DEF WholeHalf
      <4>6. tail' \in Nat /\ x - tail' = (x - tail) + i \div 2
        BY <3>4, <4>2, <4>3, <4>4, <4>5
      <4>7. (x - tail') % One = 0
        <5>1. /\ x - tail \in Int /\ i \div 2 \in Int /\ One \in Nat \ {0}
              /\ (x - tail) % One = 0 /\ (i \div 2) % One = 0
          BY <3>4, <4>3, <4>5
        <5>2. ((x - tail) + i \div 2) % One = 0
          BY <5>1, ModDiff, Zenon
        <5>3. QED
          BY <4>6, <5>2
      <4>8. QED
        BY <2>0, <3>1, <4>1, <4>6, <4>7 DEF FInv
    <3>5. QED
      BY <3>2, <3>3, <3>4
  <2>3. QED
    BY <2>1, <2>2
<1>3. CASE UNCHANGED vars
    BY <1>3 DEF FInv, vars
<1>4. QED
    BY <1>1, <1>2, <1>3 DEF Next

LEMMA FInvFloor == FInv => FloorNonNeg
<1> SUFFICES ASSUME FInv, pc = "done", x \in Nat, Result # Inf
             PROVE  Result = RefFloor(x)
    BY DEF FloorNonNeg
<1> USE FloorAssumption
<1>1. tail # NegInf
    BY DEF Result
<1>2. tail \in Nat /\ (x - tail) % One = 0 /\ tail < One
    BY <1>1 DEF FInv
<1>3. tail = x % One
    BY <1>2, ModUnique
<1>4. Result = x - tail
    BY <1>1 DEF Result
<1>5. QED
    BY <1>3, <1>4 DEF RefFloor

(***************************************************************************)
(* floorl (floor.c lines 3-14): whenever it returns a finite value for a  *)
(* finite non-negative argument, that value is the argument's floor, for  *)
(* every number of fraction bits and every exponent range. The two ways    *)
(* it goes wrong, negative arguments and an overflowing i, are outside     *)
(* this statement and are shown by the runs floor_negative and floor_huge. *)
(***************************************************************************)
THEOREM FloorNonNegCorrect == Spec => []FloorNonNeg
<1>1. Init => FInv
    BY FInvInit
<1>2. FInv /\ [Next]_vars => FInv'
    BY FInvStep
<1>3. FInv => FloorNonNeg
    BY FInvFloor
<1>4. QED
    BY <1>1, <1>2, <1>3, PTL DEF Spec

=============================================================================
