---------------------------- MODULE E1000LinkProofs ----------------------------
(***************************************************************************)
(* Proofs about the LSC branch of e1000_interrupt, for every bound on the  *)
(* link changes: the driver's view agrees with the PHY whenever no cause   *)
(* is pending, and the handler implements the abstract link specification. *)
(***************************************************************************)
EXTENDS E1000Link, TLAPS

\* The inductive invariant: the state is well typed and LinkConsistent holds.
LInv == TypeOK /\ LinkConsistent

LEMMA LInvInit == Init => LInv
<1> SUFFICES ASSUME Init PROVE LInv
    OBVIOUS
<1>1. << >> \in Seq({"on", "off"}) /\ 0 \in 0 .. MaxFlaps
    BY MaxFlapsAssumption
<1>2. QED
    BY <1>1 DEF Init, LInv, TypeOK, LinkConsistent

LEMMA LInvStep == LInv /\ [Next]_vars => LInv'
<1> SUFFICES ASSUME LInv, [Next]_vars PROVE LInv'
    OBVIOUS
<1>1. CASE HwLinkChange
  <2>1. TypeOK'
    <3>1. flaps + 1 \in 0 .. MaxFlaps
      BY <1>1, MaxFlapsAssumption DEF HwLinkChange, LInv, TypeOK
    <3>2. QED
      BY <1>1, <3>1 DEF HwLinkChange, LInv, TypeOK
  \* A change raises LSC, so LinkConsistent holds vacuously after it.
  <2>2. LinkConsistent'
    BY <1>1 DEF HwLinkChange, LinkConsistent
  <2>3. QED
    BY <2>1, <2>2 DEF LInv
<1>2. CASE LinkIrq
  <2>1. TypeOK'
    <3>1. Append(notes, IF linkUp THEN "on" ELSE "off") \in Seq({"on", "off"})
      BY DEF LInv, TypeOK
    <3>2. QED
      BY <1>2, <3>1 DEF LinkIrq, LInv, TypeOK
  \* The handler copies the LU bit it reads into all three.
  <2>2. LinkConsistent'
    BY <1>2 DEF LinkIrq, LinkConsistent
  <2>3. QED
    BY <2>1, <2>2 DEF LInv
<1>3. CASE UNCHANGED vars
    BY <1>3 DEF vars, LInv, TypeOK, LinkConsistent
<1>4. QED
    BY <1>1, <1>2, <1>3 DEF Next

(***************************************************************************)
(* For every MaxFlaps: whenever no LSC cause is pending, link_status,      *)
(* IFF_RUNNING and the stack's carrier equal STATUS.LU, however many link  *)
(* changes one interrupt (e1000.c lines 253-269) covered.                  *)
(***************************************************************************)
THEOREM LinkConsistentHolds == Spec => []LinkConsistent
<1>1. LInv => LinkConsistent
    BY DEF LInv
<1>2. QED
    BY <1>1, LInvInit, LInvStep, PTL DEF Spec

(***************************************************************************)
(* Refinement: every behaviour of the PHY and the LSC handler is a         *)
(* behaviour of LinkAbstract under the mapping link <- STATUS.LU, owed <-  *)
(* ICR.LSC: a link change is Change, each interrupt is a Notify telling    *)
(* the stack the current link. No invariant is needed: each step maps     *)
(* directly.                                                               *)
(***************************************************************************)
THEOREM RefinesLinkAbstract == Spec => ImplementsLinkAbstract
<1>1. Init => Abs!Init
    BY DEF Init, Abs!Init
<1>2. [Next]_vars => [Abs!Change \/ Abs!Notify]_Abs!avars
  <2>1. HwLinkChange => Abs!Change
    BY DEF HwLinkChange, Abs!Change
  <2>2. LinkIrq => Abs!Notify
    BY DEF LinkIrq, Abs!Notify
  <2>3. UNCHANGED vars => UNCHANGED Abs!avars
    BY DEF vars, Abs!avars
  <2>4. QED
    BY <2>1, <2>2, <2>3 DEF Next
<1>3. QED
    BY <1>1, <1>2, PTL DEF Spec, ImplementsLinkAbstract, Abs!Spec

=============================================================================
