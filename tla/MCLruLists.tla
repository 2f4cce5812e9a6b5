----------------------------- MODULE MCLruLists -----------------------------
EXTENDS LruLists, TLC

CONSTANTS p1, p2, p3, k, d1, m1

(* The two pages of the file are alike.                                     *)
Symmetry == Permutations(FilePages)
=============================================================================
