---------------------------- MODULE MCBreakpoint ----------------------------
EXTENDS Breakpoint, TLC

CONSTANTS h1, h2, t1, t2

MCHandlers == {h1, h2}
MCTrappers == {t1, t2}
MCSymmetry == Permutations(MCHandlers) \cup Permutations(MCTrappers)
=============================================================================
