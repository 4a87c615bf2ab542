---------------------------- MODULE MCDataAbort -----------------------------
EXTENDS DataAbort, TLC

\* A DFSR value with fault status fs (five bits: bit 4 is DFSR[10]) and the
\* domain field DFSR[7:4] all zero or all one.
Dfsr(fs, dom) == (fs \div 16) * 1024 + dom * 16 + (fs % 16)

\* ARMv5: every four-bit fault status; DFSR[10] is zero.
MCDfsrsV5 == {Dfsr(fs, dom) : fs \in 0 .. 15, dom \in {0, 15}}

\* ARMv7 short descriptors: the defined fault status encodings (alignment,
\* cache maintenance, translation walk aborts, translation, access flag,
\* domain and permission faults, external aborts, parity errors, debug
\* event, TLB conflict, lockdown and coprocessor aborts).
MCDfsrsV7 ==
    {Dfsr(fs, dom) : fs \in {1, 4, 12, 14, 28, 30, 5, 7, 3, 6, 9, 11, 13,
                              15, 8, 22, 24, 25, 2, 16, 20, 26},
                     dom \in {0, 15}}

\* Handlers for the translation (5, 7), access flag (3, 6) and permission
\* (13, 15) faults, or none.
MCTables == {[i \in 0 .. 15 |-> IF i \in {3, 5, 6, 7, 13, 15} THEN "mmu" ELSE NULL],
             [i \in 0 .. 15 |-> NULL]}
=============================================================================
