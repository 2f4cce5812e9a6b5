----------------------------- MODULE MCComexNode -----------------------------
(* Small memories of two blocks of the largest order; the pages before      *)
(* firstBacked lie in a chunk that could not be allocated.                  *)
EXTENDS ComexNode

CONSTANT firstBacked

MCPow2   == [o \in 0 .. MAX_ORDER - 1 |-> 2 ^ o]
MCBacked == firstBacked .. total_pages - 1
=============================================================================
