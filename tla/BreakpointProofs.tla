--------------------------- MODULE BreakpointProofs --------------------------
(***************************************************************************)
(* Proofs that bpt_handler_set is well typed and acts as one step for       *)
(* every breakpoint that does not overlap a call, for any handlers, any     *)
(* number of trapping contexts and any bound on the calls.                 *)
(***************************************************************************)
EXTENDS Breakpoint, TLAPS

TrPc == {"run", "handler", "unhandled", "assert", "called"}

\* The type of the whole state, the trappers' records included.
TypeInv ==
    /\ bpt \in Handlers \cup {NULL}
    /\ entry \in {"bptExcpt", NULL}
    /\ setter \in [pc : {"idle", "table"}, arg : Handlers \cup {NULL}]
    /\ sets \in 0 .. MaxSets
    /\ tr \in [Trappers -> [pc : TrPc, epoch : Nat, quiet : BOOLEAN,
                            want : Handlers \cup {NULL},
                            got : Handlers \cup {NULL}]]

(***************************************************************************)
(* The inductive invariant. Between calls the table entry is set exactly   *)
(* when __bpt_handler is; inside a call __bpt_handler already holds the    *)
(* argument. A trapper that trapped between calls and has seen no call     *)
(* begin since saw, and still sees, __bpt_handler: only SetHandler changes *)
(* it, and SetHandler counts itself in sets, so a trapper's epoch then     *)
(* falls behind for good.                                                  *)
(***************************************************************************)
IInv ==
    /\ TypeInv
    /\ setter.pc = "idle" => (entry = NULL <=> bpt = NULL)
    /\ setter.pc = "table" => bpt = setter.arg
    /\ \A t \in Trappers :
         /\ tr[t].epoch <= sets
         /\ tr[t].pc = "handler" /\ tr[t].quiet /\ tr[t].epoch = sets =>
               tr[t].want = bpt /\ bpt # NULL
    /\ SetIsAtomicWhenQuiet

LEMMA IInvInit == Init => IInv
<1> SUFFICES ASSUME Init PROVE IInv
    OBVIOUS
<1>1. TypeInv
    BY BreakpointAssumption DEF Init, TypeInv, Running, TrPc
<1>2. QED
    BY <1>1 DEF Init, IInv, Running, SetIsAtomicWhenQuiet

LEMMA IInvStep == IInv /\ [Next]_vars => IInv'
<1> SUFFICES ASSUME IInv, [Next]_vars PROVE IInv'
    OBVIOUS
<1> USE BreakpointAssumption
<1>1. CASE \E h \in Handlers \cup {NULL} : SetHandler(h)
  <2>1. PICK h \in Handlers \cup {NULL} : SetHandler(h)
    BY <1>1
  <2>2. TypeInv'
    BY <2>1 DEF SetHandler, IInv, TypeInv
  <2>3. setter'.pc = "table" /\ bpt' = setter'.arg
    BY <2>1 DEF SetHandler
  <2>4. \A t \in Trappers : tr'[t].epoch <= sets' /\ tr'[t].epoch # sets'
    BY <2>1 DEF SetHandler, IInv, TypeInv
  <2>5. SetIsAtomicWhenQuiet'
    BY <2>1 DEF SetHandler, IInv, SetIsAtomicWhenQuiet
  <2>6. QED
    BY <2>2, <2>3, <2>4, <2>5 DEF IInv
<1>2. CASE SetTable
  <2>1. TypeInv'
    BY <1>2 DEF SetTable, IInv, TypeInv
  <2>2. setter'.pc = "idle" /\ (entry' = NULL <=> bpt' = NULL)
    BY <1>2 DEF SetTable, IInv, TypeInv
  <2>3. \A t \in Trappers :
          /\ tr'[t].epoch <= sets'
          /\ tr'[t].pc = "handler" /\ tr'[t].quiet /\ tr'[t].epoch = sets' =>
                tr'[t].want = bpt' /\ bpt' # NULL
    BY <1>2 DEF SetTable, IInv
  <2>4. SetIsAtomicWhenQuiet'
    BY <1>2 DEF SetTable, IInv, SetIsAtomicWhenQuiet
  <2>5. QED
    BY <2>1, <2>2, <2>3, <2>4 DEF IInv
<1>3. CASE \E t \in Trappers : Trap(t)
  <2>1. PICK u \in Trappers : Trap(u)
    BY <1>3
  <2>2. TypeInv'
    BY <2>1 DEF Trap, IInv, TypeInv, TrPc
  <2>3. UNCHANGED <<bpt, entry, setter, sets>>
    BY <2>1 DEF Trap
  <2>4. \A t \in Trappers \ {u} : tr'[t] = tr[t]
    BY <2>1 DEF Trap, IInv, TypeInv
  <2>5. tr'[u] = [pc |-> IF entry = NULL THEN "unhandled" ELSE "handler",
                  epoch |-> sets, quiet |-> setter.pc = "idle",
                  want |-> bpt, got |-> NULL]
    BY <2>1 DEF Trap, IInv, TypeInv
  <2>6. tr'[u].quiet => (entry = NULL <=> tr'[u].want = NULL)
    <3>1. tr'[u].quiet = (setter.pc = "idle") /\ tr'[u].want = bpt
      BY <2>5
    <3>2. QED
      BY <3>1 DEF IInv
  <2>7. \A t \in Trappers :
          /\ tr'[t].epoch <= sets'
          /\ tr'[t].pc = "handler" /\ tr'[t].quiet /\ tr'[t].epoch = sets' =>
                tr'[t].want = bpt' /\ bpt' # NULL
    <3>1. tr'[u].epoch <= sets'
      BY <2>3, <2>5 DEF IInv, TypeInv
    <3>2. tr'[u].pc = "handler" => entry # NULL /\ tr'[u].want = bpt
      BY <2>5
    <3>3. tr'[u].pc = "handler" /\ tr'[u].quiet => tr'[u].want = bpt' /\ bpt' # NULL
      BY <2>3, <2>6, <3>2
    <3>4. \A t \in Trappers \ {u} :
            /\ tr'[t].epoch <= sets'
            /\ tr'[t].pc = "handler" /\ tr'[t].quiet /\ tr'[t].epoch = sets' =>
                  tr'[t].want = bpt' /\ bpt' # NULL
      BY <2>3, <2>4 DEF IInv
    <3>5. QED
      BY <3>1, <3>3, <3>4
  <2>8. SetIsAtomicWhenQuiet'
    <3>1. tr'[u].pc \in {"unhandled", "assert", "called"} /\ tr'[u].quiet =>
             tr'[u].pc = "unhandled" /\ tr'[u].want = NULL
      BY <2>5, <2>6
    <3>2. QED
      BY <2>4, <3>1 DEF IInv, SetIsAtomicWhenQuiet
  <2>9. QED
    BY <2>2, <2>3, <2>7, <2>8 DEF IInv
<1>4. CASE \E t \in Trappers : BptExcpt(t)
  <2>1. PICK u \in Trappers : BptExcpt(u)
    BY <1>4
  <2>3. UNCHANGED <<bpt, entry, setter, sets>>
    BY <2>1 DEF BptExcpt
  <2>4. \A t \in Trappers \ {u} : tr'[t] = tr[t]
    BY <2>1 DEF BptExcpt, IInv, TypeInv
  <2>5. /\ tr[u].pc = "handler"
        /\ tr'[u].pc = IF bpt = NULL THEN "assert" ELSE "called"
        /\ tr'[u].got = bpt
        /\ tr'[u].quiet = (tr[u].quiet /\ sets = tr[u].epoch)
        /\ tr'[u].want = tr[u].want /\ tr'[u].epoch = tr[u].epoch
    BY <2>1 DEF BptExcpt, IInv, TypeInv
  <2>2. TypeInv'
    <3>1. tr[u] \in [pc : TrPc, epoch : Nat, quiet : BOOLEAN,
                     want : Handlers \cup {NULL}, got : Handlers \cup {NULL}]
      BY DEF IInv, TypeInv
    <3>2. tr' = [tr EXCEPT ![u] = [pc |-> IF bpt = NULL THEN "assert" ELSE "called",
                                   epoch |-> tr[u].epoch,
                                   quiet |-> tr[u].quiet /\ sets = tr[u].epoch,
                                   want |-> tr[u].want,
                                   got |-> bpt]]
      BY <2>1 DEF BptExcpt
    <3>3. tr'[u] \in [pc : TrPc, epoch : Nat, quiet : BOOLEAN,
                      want : Handlers \cup {NULL}, got : Handlers \cup {NULL}]
      BY <3>1, <3>2 DEF IInv, TypeInv, TrPc
    <3>4. QED
      BY <2>3, <2>4, <3>2, <3>3 DEF IInv, TypeInv
  <2>6. tr'[u].quiet => tr'[u].pc = "called" /\ tr'[u].got = tr'[u].want
                         /\ tr'[u].want # NULL
    BY <2>5 DEF IInv
  <2>7. \A t \in Trappers :
          /\ tr'[t].epoch <= sets'
          /\ tr'[t].pc = "handler" /\ tr'[t].quiet /\ tr'[t].epoch = sets' =>
                tr'[t].want = bpt' /\ bpt' # NULL
    BY <2>3, <2>4, <2>5 DEF IInv
  <2>8. SetIsAtomicWhenQuiet'
    BY <2>4, <2>6 DEF IInv, SetIsAtomicWhenQuiet
  <2>9. QED
    BY <2>2, <2>3, <2>7, <2>8 DEF IInv
<1>5. CASE UNCHANGED vars
    BY <1>5 DEF vars, IInv, TypeInv, SetIsAtomicWhenQuiet
<1>6. QED
    BY <1>1, <1>2, <1>3, <1>4, <1>5 DEF Next

(***************************************************************************)
(* bpt_handler_set and the breakpoint path (breakpoint.c lines 17-33) keep *)
(* __bpt_handler, the exception table entry and every trapper's record     *)
(* well typed.                                                             *)
(***************************************************************************)
THEOREM TypeCorrect == Spec => []TypeOK
<1>1. IInv => TypeOK
    BY DEF IInv, TypeInv, TypeOK, TrPc
<1>2. QED
    BY <1>1, IInvInit, IInvStep, PTL DEF Spec

(***************************************************************************)
(* For any handlers, trapping contexts and bound on the calls, a           *)
(* breakpoint that overlaps no bpt_handler_set call runs the handler the   *)
(* last call installed, or is unhandled after bpt_handler_set(NULL).       *)
(***************************************************************************)
THEOREM QuietBreakpointsSeeLastSet == Spec => []SetIsAtomicWhenQuiet
<1>1. IInv => SetIsAtomicWhenQuiet
    BY DEF IInv
<1>2. QED
    BY <1>1, IInvInit, IInvStep, PTL DEF Spec

=============================================================================
