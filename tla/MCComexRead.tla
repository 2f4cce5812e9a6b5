------------------------------ MODULE MCComexRead ------------------------------
(* A supply of blocks.  A chunk has four pages, a request asks for a whole   *)
(* chunk (order 2).                                                         *)
EXTENDS ComexRead

B(p, o) == [page |-> p, order |-> o]

(* Two pages that follow each other, and each of them once more when it is   *)
(* free again.                                                              *)
Again == [d \in Nodes |-> <<B(0, 1), B(0, 0), B(1, 0)>>]

(* What NothingLost assumes of the blocks holds of these.                    *)
ASSUME SupplyIsSeamless == Seamless
=============================================================================
