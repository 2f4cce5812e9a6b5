--------------------------- MODULE PageAllocator ----------------------------
(***************************************************************************)
(* What the buddy allocator of a COMEX node promises its callers, without  *)
(* lists, orders, flags or counters: a page is free, or held by the caller *)
(* that got it, or neither (it has no memory, or it was lost when a caller *)
(* gave a page back twice), and it is handed out only while it is free.    *)
(***************************************************************************)
CONSTANT Runs          \* the sets of pages one call may name

VARIABLES free, held

Init == free = {} /\ held = {}

(* A run of free pages goes to a caller.                                    *)
Grant(S) ==
  /\ S \subseteq free /\ S \cap held = {}
  /\ free' = free \ S
  /\ held' = held \union S

(* A run comes back.  None of its pages was free.                           *)
Return(S) ==
  /\ S \cap free = {}
  /\ free' = free \union S
  /\ held' = held \ S

(* A run that holds a page given back before is not taken.                  *)
Reject(S) == held' = held \ S /\ UNCHANGED free

(* A run that holds a page given back twice is dropped instead of granted.  *)
Lose(S) == S \subseteq free /\ free' = free \ S /\ UNCHANGED held

Next == \E S \in Runs : Grant(S) \/ Return(S) \/ Reject(S) \/ Lose(S)

Spec == Init /\ [][Next]_<<free, held>>

=============================================================================
