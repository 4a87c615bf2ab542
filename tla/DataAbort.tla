----------------------------- MODULE DataAbort ------------------------------
(***************************************************************************)
(* The ARM data abort handler (src/src/arch/arm/armlib/exceptions/         *)
(* dabt_handler.c): arm_dabt_handler takes the low four bits of DFSR as    *)
(* the fault status, calls the handler registered for it in                *)
(* arm_data_fault_table[0x10] with that status, and without one prints the *)
(* fault and spins forever.                                                *)
(*                                                                         *)
(* The fault status the architecture defines is DFSR[3:0] on ARMv5 and     *)
(* DFSR[10] : DFSR[3:0] (five bits) on ARMv6 and ARMv7 with short          *)
(* descriptors; Fs5 says which of the two the core has.                    *)
(***************************************************************************)
EXTENDS Naturals

CONSTANTS Dfsrs,    \* the DFSR values a data abort may leave (bits 0..10)
          Tables,   \* the possible contents of arm_data_fault_table
          NULL,
          Fs5       \* TRUE on cores whose fault status has bit DFSR[10]

VARIABLES dfsr,    \* DFSR at the abort
          table,   \* arm_data_fault_table
          status,  \* fault_status
          pc,      \* "entry", "read", "handled" or "hang"
          arg      \* history: the status the registered handler was given

vars == <<dfsr, table, status, pc, arg>>

\* The fault status as the architecture defines it.
ArchStatus(v) == IF Fs5 THEN ((v \div 1024) % 2) * 16 + (v % 16) ELSE v % 16

Init ==
    /\ dfsr \in Dfsrs
    /\ table \in Tables
    /\ status = 0
    /\ pc = "entry"
    /\ arg = NULL

\* Mutant: a three-bit mask.
ReadStatusNarrow ==
    /\ pc = "entry"
    /\ status' = dfsr % 8
    /\ pc' = "read"
    /\ UNCHANGED <<dfsr, table, arg>>

\* Mutant: the fifth status bit kept, so the index can pass the table's end.
ReadStatusWide ==
    /\ pc = "entry"
    /\ status' = dfsr % 32
    /\ pc' = "read"
    /\ UNCHANGED <<dfsr, table, arg>>

\* fault_status = ARCH_REG_LOAD(DFSR) & 0xf (line 22).
ReadStatus ==
    /\ pc = "entry"
    /\ status' = dfsr % 16
    /\ pc' = "read"
    /\ UNCHANGED <<dfsr, table, arg>>

\* Lines 24-34: call the registered handler with the status, or report the
\* abort and loop forever.
Dispatch ==
    /\ pc = "read"
    /\ IF table[status] # NULL
          THEN pc' = "handled" /\ arg' = status
          ELSE pc' = "hang" /\ UNCHANGED arg
    /\ UNCHANGED <<dfsr, table, status>>

Next == ReadStatus \/ Dispatch

Spec == Init /\ [][Next]_vars

-----------------------------------------------------------------------------
TypeOK ==
    /\ dfsr \in Dfsrs
    /\ status \in 0 .. 15
    /\ pc \in {"entry", "read", "handled", "hang"}

(***************************************************************************)
(* A fault handler is told the architectural fault status of the abort it *)
(* handles, so that a handler registered for one kind of fault (a         *)
(* translation or permission fault the MMU code resolves) never runs for  *)
(* another (an external abort it cannot resolve).                         *)
(***************************************************************************)
HandlerGetsFaultStatus == pc = "handled" => arg = ArchStatus(dfsr)

=============================================================================
