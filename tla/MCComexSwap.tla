----------------------------- MODULE MCComexSwap -----------------------------
(* Two address spaces, two page frames, a page of a remote node and an entry *)
(* of the disk.                                                             *)
EXTENDS ComexSwap, TLC
CONSTANTS m1, m2, f1, f2, t1, t2, r1, d1
MCMms == {m1, m2}
MCFrames == {f1, f2}
MCTasks == {t1, t2}
MCSymmetry == Permutations(MCFrames) \cup Permutations(MCTasks)
==============================================================================
