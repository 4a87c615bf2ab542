------------------------------ MODULE E1000Link ------------------------------
(***************************************************************************)
(* Link state tracking of the Intel e1000 driver: the LSC branch of        *)
(* e1000_interrupt (src/src/drivers/net/e1000/e1000.c, lines 253-269).     *)
(* On a link-status-change cause the handler reads STATUS.LU, stores it in *)
(* nic_priv->link_status and, by its value, sets or clears IFF_RUNNING and *)
(* calls netif_carrier_on or netif_carrier_off.                            *)
(*                                                                         *)
(* The PHY changes the link at any time and sets ICR.LSC; several changes  *)
(* before the handler runs leave one pending cause (ICR is a bit mask).    *)
(***************************************************************************)
EXTENDS Naturals, Sequences

CONSTANT MaxFlaps   \* how many times the cable is plugged or pulled

ASSUME MaxFlapsAssumption == MaxFlaps \in Nat

VARIABLES
    linkUp,      \* STATUS.LU, the PHY's link bit
    icrLsc,      \* ICR.LSC pending
    linkStatus,  \* nic_priv->link_status
    running,     \* IFF_RUNNING on the net_device
    carrier,     \* the carrier state the stack was last told
    notes,       \* history: netif_carrier_on/off calls, in order
    flaps        \* link changes so far

vars == <<linkUp, icrLsc, linkStatus, running, carrier, notes, flaps>>

(***************************************************************************)
(* e1000_init zeroes link_status; the device starts without a link and the *)
(* stack's carrier is off.                                                 *)
(***************************************************************************)
Init ==
    /\ linkUp = FALSE
    /\ icrLsc = FALSE
    /\ linkStatus = FALSE
    /\ running = FALSE
    /\ carrier = FALSE
    /\ notes = << >>
    /\ flaps = 0

\* The cable is plugged in or pulled out: STATUS.LU flips, LSC is raised.
HwLinkChange ==
    /\ flaps < MaxFlaps
    /\ linkUp' = ~linkUp
    /\ icrLsc' = TRUE
    /\ flaps' = flaps + 1
    /\ UNCHANGED <<linkStatus, running, carrier, notes>>

\* Mutant: the handler toggles link_status instead of reading STATUS.LU.
LinkIrqToggle ==
    /\ icrLsc
    /\ icrLsc' = FALSE
    /\ linkStatus' = ~linkStatus
    /\ running' = ~linkStatus
    /\ carrier' = ~linkStatus
    /\ notes' = Append(notes, IF ~linkStatus THEN "on" ELSE "off")
    /\ UNCHANGED <<linkUp, flaps>>

\* Lines 253-269: ICR shows LSC; read STATUS and notify by its LU bit.
LinkIrq ==
    /\ icrLsc
    /\ icrLsc' = FALSE
    /\ linkStatus' = linkUp
    /\ running' = linkUp
    /\ carrier' = linkUp
    /\ notes' = Append(notes, IF linkUp THEN "on" ELSE "off")
    /\ UNCHANGED <<linkUp, flaps>>

Next == HwLinkChange \/ LinkIrq

\* A pending LSC cause is eventually serviced; the PHY gets no fairness.
Spec == Init /\ [][Next]_vars /\ WF_vars(LinkIrq)

-----------------------------------------------------------------------------
TypeOK ==
    /\ linkUp \in BOOLEAN
    /\ icrLsc \in BOOLEAN
    /\ linkStatus \in BOOLEAN
    /\ running \in BOOLEAN
    /\ carrier \in BOOLEAN
    /\ notes \in Seq({"on", "off"})
    /\ flaps \in 0 .. MaxFlaps

(***************************************************************************)
(* The LSC handling implements the abstract link specification: the PHY's *)
(* link bit is the link, a pending ICR.LSC is the owed notification, and  *)
(* netif_carrier_on/off is the notification. Each interrupt tells the      *)
(* stack the link as STATUS.LU shows it when the handler reads it.         *)
(***************************************************************************)
Abs == INSTANCE LinkAbstract WITH link <- linkUp, owed <- icrLsc

ImplementsLinkAbstract == Abs!Spec

(***************************************************************************)
(* Coalesced changes: whenever no LSC cause is pending, link_status,       *)
(* IFF_RUNNING and the stack's carrier all agree with the PHY, however     *)
(* many changes one interrupt covered (the handler reads the current LU    *)
(* bit rather than inferring the change).                                  *)
(***************************************************************************)
LinkConsistent ==
    ~icrLsc => /\ linkStatus = linkUp
               /\ running = linkUp
               /\ carrier = linkUp

(***************************************************************************)
(* Once the cable stops moving, the stack's carrier ends up matching the   *)
(* link and stays so.                                                      *)
(***************************************************************************)
CarrierConverges == <>[](carrier = linkUp)

(***************************************************************************)
(* Spec, sections 4.5 and 8: notifications are idempotent, so two          *)
(* consecutive link-up interrupts give one netif_carrier_on: no two        *)
(* consecutive notifications are the same.                                 *)
(***************************************************************************)
NotifyIdempotent ==
    \A i \in 1 .. Len(notes) - 1 : notes[i] # notes[i + 1]

=============================================================================
