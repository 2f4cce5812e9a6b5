----------------------------- MODULE MCSwapArea -----------------------------
EXTENDS SwapArea, TLC

CONSTANTS t1, t2, m1, m2

MCTasks == {t1, t2}
MCMms == {m1, m2}
MCPrios == {-1, 1}

\* The tasks, and the address spaces, are interchangeable.
MCSymmetry == Permutations(MCTasks) \cup Permutations(MCMms)
==============================================================================
