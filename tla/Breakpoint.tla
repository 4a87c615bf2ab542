----------------------------- MODULE Breakpoint -----------------------------
(***************************************************************************)
(* The RISC-V breakpoint hook (src/src/arch/riscv/lib/breakpoint/          *)
(* breakpoint.c). bpt_handler_set stores the debugger's handler in          *)
(* __bpt_handler and then points riscv_excpt_table[EXC_BREAKPOINT] at       *)
(* riscv_bpt_excpt_handler, or clears it for a NULL handler: two plain      *)
(* stores, with neither interrupts nor other harts excluded. A breakpoint  *)
(* exception (an ebreak on another hart, or in an interrupt handler that   *)
(* runs between the stores) goes through the exception entry, which calls *)
(* the table entry if it is set (the entry is not in the source tree:      *)
(* it is modelled as that lookup); riscv_bpt_excpt_handler asserts that    *)
(* __bpt_handler is set and calls it.                                      *)
(***************************************************************************)
EXTENDS Naturals

CONSTANTS Handlers,  \* the debugger's handlers
          NULL,
          Trappers,  \* contexts that may execute ebreak
          MaxSets    \* bound on bpt_handler_set calls

ASSUME BreakpointAssumption ==
    MaxSets \in Nat /\ NULL \notin Handlers /\ NULL # "bptExcpt"

VARIABLES bpt,     \* __bpt_handler
          entry,   \* riscv_excpt_table[EXC_BREAKPOINT]: "bptExcpt" or NULL
          setter,  \* the bpt_handler_set in progress: [pc, arg]
          sets,    \* history: bpt_handler_set calls begun
          tr       \* per trapper: pc, and what it saw when it trapped

vars == <<bpt, entry, setter, sets, tr>>

\* A trapper before its ebreak. At the trap, epoch records how many set calls
\* had begun, quiet that none was in progress (and, once the handler runs,
\* that none began since), want the handler the last completed call
\* installed; got is the handler that ran.
Running == [pc |-> "run", epoch |-> 0, quiet |-> FALSE, want |-> NULL, got |-> NULL]

\* __bpt_handler is static, so zero; riscv_excpt_table is zeroed likewise.
Init ==
    /\ bpt = NULL
    /\ entry = NULL
    /\ setter = [pc |-> "idle", arg |-> NULL]
    /\ sets = 0
    /\ tr = [t \in Trappers |-> Running]

\* bpt_handler_set(handler), line 26: __bpt_handler = handler.
SetHandler(h) ==
    /\ setter.pc = "idle"
    /\ sets < MaxSets
    /\ bpt' = h
    /\ setter' = [pc |-> "table", arg |-> h]
    /\ sets' = sets + 1
    /\ UNCHANGED <<entry, tr>>

\* Mutant: a NULL handler leaves the table entry as it was.
SetTableKeep ==
    /\ setter.pc = "table"
    /\ IF setter.arg # NULL THEN entry' = "bptExcpt" ELSE UNCHANGED entry
    /\ setter' = [setter EXCEPT !.pc = "idle"]
    /\ UNCHANGED <<bpt, sets, tr>>

\* Mutant: the debugger's handler itself is stored in the exception table.
SetTableRaw ==
    /\ setter.pc = "table"
    /\ entry' = setter.arg
    /\ setter' = [setter EXCEPT !.pc = "idle"]
    /\ UNCHANGED <<bpt, sets, tr>>

\* Lines 28-33: the table entry follows whether handler is NULL.
SetTable ==
    /\ setter.pc = "table"
    /\ entry' = IF setter.arg # NULL THEN "bptExcpt" ELSE NULL
    /\ setter' = [setter EXCEPT !.pc = "idle"]
    /\ UNCHANGED <<bpt, sets, tr>>

\* A breakpoint exception: the exception entry reads the table entry; an
\* unset entry is an unhandled exception.
Trap(t) ==
    /\ tr[t].pc = "run"
    /\ tr' = [tr EXCEPT ![t] = [pc |-> IF entry = NULL THEN "unhandled" ELSE "handler",
                                epoch |-> sets,
                                quiet |-> setter.pc = "idle",
                                want |-> bpt,
                                got |-> NULL]]
    /\ UNCHANGED <<bpt, entry, setter, sets>>

\* riscv_bpt_excpt_handler (lines 17-23): assert(__bpt_handler), then call it.
BptExcpt(t) ==
    /\ tr[t].pc = "handler"
    /\ tr' = [tr EXCEPT ![t] = [pc |-> IF bpt = NULL THEN "assert" ELSE "called",
                                epoch |-> @.epoch,
                                quiet |-> @.quiet /\ sets = @.epoch,
                                want |-> @.want,
                                got |-> bpt]]
    /\ UNCHANGED <<bpt, entry, setter, sets>>

Next ==
    \/ \E h \in Handlers \cup {NULL} : SetHandler(h)
    \/ SetTable
    \/ \E t \in Trappers : Trap(t) \/ BptExcpt(t)

Spec == Init /\ [][Next]_vars

-----------------------------------------------------------------------------
TypeOK ==
    /\ bpt \in Handlers \cup {NULL}
    /\ entry \in {"bptExcpt", NULL}
    /\ setter.pc \in {"idle", "table"}
    /\ sets \in 0 .. MaxSets
    /\ \A t \in Trappers :
         tr[t].pc \in {"run", "handler", "unhandled", "assert", "called"}

(***************************************************************************)
(* bpt_handler_set takes effect as one step for a breakpoint that does not *)
(* overlap a call: if no call was in progress when the ebreak trapped and  *)
(* none began before its handler ran, the ebreak runs the handler the last *)
(* call installed, or is unhandled if that call passed NULL. The two       *)
(* stores of lines 26-33 must leave the hook and the table agreeing.       *)
(***************************************************************************)
SetIsAtomicWhenQuiet ==
    \A t \in Trappers :
        tr[t].pc \in {"unhandled", "assert", "called"} /\ tr[t].quiet =>
            IF tr[t].want = NULL THEN tr[t].pc = "unhandled"
            ELSE tr[t].pc = "called" /\ tr[t].got = tr[t].want

(***************************************************************************)
(* The assertion of riscv_bpt_excpt_handler (line 18) never fails: no     *)
(* breakpoint exception reaches it with __bpt_handler NULL.               *)
(***************************************************************************)
NoBptAssert == \A t \in Trappers : tr[t].pc # "assert"

=============================================================================
