------------------------------ MODULE SwapCount ------------------------------
(***************************************************************************)
(* The reference counts of the entries of one page of a swap map           *)
(* (swapfile.c).  A byte of the map holds the number of page table entries *)
(* that name the swap entry, up to SWAP_MAP_MAX, and the flag              *)
(* SWAP_HAS_CACHE.  A count that outgrows its byte is carried into a list  *)
(* of continuation pages that all entries of the page share: the entry's   *)
(* byte in each of them is one more digit, COUNT_CONTINUED says that a     *)
(* further digit follows.  Everything between spin_lock and spin_unlock of *)
(* the area is one step; the lock is dropped between a duplication that    *)
(* finds no room and the allocation of the page that makes it.             *)
(***************************************************************************)
EXTENDS Integers, Sequences, FiniteSets

CONSTANTS Offsets,   \* the entries whose bytes share a page of swap_map
          Threads,   \* tasks that duplicate an entry (fork, try_to_unmap)
          MapMax,    \* SWAP_MAP_MAX (0x3e)
          ContMax,   \* SWAP_CONT_MAX (0x7f)
          MaxRefs    \* bound: references to one entry

ASSUME CountAssumption == /\ MapMax \in Nat \ {0}
                          /\ ContMax \in Nat \ {0}
                          /\ MaxRefs \in Nat

VARIABLES swap_map,  \* per entry: count n, COUNT_CONTINUED cc, SWAP_HAS_CACHE
          cont,      \* the continuation pages, first digit first
          refs,      \* ghost: page table entries that name the entry
          peak,      \* ghost: the largest count any entry has had
          pc,        \* per task: where it is in swap_duplicate
          bug        \* a BUG_ON of the file was met

vars == <<swap_map, cont, refs, peak, pc, bug>>

Shmem == MapMax + 1               \* SWAP_MAP_SHMEM, above SWAP_MAP_MAX
Free == [n |-> 0, cc |-> FALSE, cache |-> FALSE]
Digit == [d : 0..ContMax, cc : BOOLEAN]
Idle == [at |-> "idle"]
------------------------------------------------------------------------------
(* swap_count_continued(): carry into, or borrow from, the digits of o.    *)

\* The first page whose digit for o is not v; Len(cont) + 1 if there is none.
FirstNot(o, v) ==
    CHOOSE i \in 1..(Len(cont) + 1) :
        /\ i > Len(cont) \/ cont[i][o] # v
        /\ \A j \in 1..(i - 1) : cont[j][o] = v

\* "Think of how you add 1 to 999": the page that takes the carry, 0 if a
\* page has to be added first.
CarryPage(o) ==
    IF cont = <<>> THEN 0
    ELSE IF ~swap_map[o].cc THEN 1
    ELSE LET i == FirstNot(o, [d |-> ContMax, cc |-> TRUE])
         IN  IF i <= Len(cont) /\ cont[i][o] = [d |-> ContMax, cc |-> FALSE]
             THEN IF i = Len(cont) THEN 0 ELSE i + 1
             ELSE i

FreshDigitNever(o, i) == FALSE      \* mutant: no page is zeroed

\* A digit that is entered for the first time is zeroed before it is
\* incremented: continuation pages are not cleared when they are allocated.
FreshDigit(o, i) ==
    \/ i = 1 /\ ~swap_map[o].cc
    \/ i > 1 /\ ~cont[i - 1][o].cc

Carry(o, i) ==
    [j \in 1..Len(cont) |->
        [cont[j] EXCEPT ![o] =
            IF j < i THEN [d |-> 0, cc |-> TRUE]
            ELSE IF j > i THEN @
            ELSE IF FreshDigit(o, i) THEN [d |-> 1, cc |-> FALSE]
            ELSE [@ EXCEPT !.d = @ + 1]]]

\* "Think of how you subtract 1 from 1000".
BorrowPage(o) == FirstNot(o, [d |-> 0, cc |-> TRUE])

BorrowLeft(o) ==   \* the digit that lends keeps something
    LET v == cont[BorrowPage(o)][o] IN v.cc \/ v.d > 1

BorrowMore(o) == BorrowPage(o) > 1 \/ BorrowLeft(o)

Borrow(o) ==
    LET i == BorrowPage(o)
    IN  [j \in 1..Len(cont) |->
            [cont[j] EXCEPT ![o] =
                IF j > i THEN @
                ELSE IF j = i THEN [@ EXCEPT !.d = @ - 1]
                ELSE [d |-> ContMax, cc |-> j < i - 1 \/ BorrowLeft(o)]]]

BorrowBug(o) ==    \* the BUG_ONs of the decrement
    \/ BorrowPage(o) > Len(cont)
    \/ cont[BorrowPage(o)][o] = [d |-> 0, cc |-> FALSE]
------------------------------------------------------------------------------
Init ==
    /\ swap_map = [o \in Offsets |-> Free]
    /\ cont = <<>>
    /\ refs = [o \in Offsets |-> 0]
    /\ peak = 0
    /\ pc = [t \in Threads |-> Idle]
    /\ bug = FALSE

\* scan_swap_map gives out a free entry with the usage SWAP_HAS_CACHE.
AllocEntry(o) ==
    /\ swap_map[o] = Free
    /\ swap_map' = [swap_map EXCEPT ![o].cache = TRUE]
    /\ UNCHANGED <<cont, refs, peak, pc, bug>>

Referenced(o) ==   \* the page table entry of the caller now names o
    /\ refs' = [refs EXCEPT ![o] = @ + 1]
    /\ peak' = IF refs[o] + 1 > peak THEN refs[o] + 1 ELSE peak

\* __swap_duplicate(entry, 1) by task t, and what swap_duplicate makes of it:
\* -ENOMEM leads to add_swap_count_continuation, everything else returns.
SwapDuplicate(t, o) ==
    LET e == swap_map[o] IN
    /\ pc[t] = Idle \/ pc[t] = [at |-> "again", o |-> o]
    /\ refs[o] < MaxRefs
    /\ e # Free
    /\ \/ /\ e.n < MapMax
          /\ swap_map' = [swap_map EXCEPT ![o].n = @ + 1]
          /\ pc' = [pc EXCEPT ![t] = Idle]
          /\ Referenced(o)
          /\ UNCHANGED <<cont, bug>>
       \/ /\ e.n = MapMax /\ CarryPage(o) > 0
          /\ bug' = (bug \/ CarryPage(o) > Len(cont))
          /\ cont' = IF CarryPage(o) > Len(cont) THEN cont ELSE Carry(o, CarryPage(o))
          /\ swap_map' = [swap_map EXCEPT ![o].n = 0, ![o].cc = TRUE]
          /\ pc' = [pc EXCEPT ![t] = Idle]
          /\ Referenced(o)
       \/ /\ e.n = MapMax /\ CarryPage(o) = 0
          /\ pc' = [pc EXCEPT ![t] = [at |-> "add", o |-> o]]
          /\ UNCHANGED <<swap_map, cont, refs, peak, bug>>

RoomAlreadyIgnored(o) == FALSE      \* mutant: the page is always added

\* Where add_swap_count_continuation stops looking: an entry that has room
\* again, or a page of the list that the entry can already use.
RoomAlready(o) ==
    \/ swap_map[o].n # MapMax
    \/ /\ cont # <<>>
       /\ \/ ~swap_map[o].cc
          \/ LET i == FirstNot(o, [d |-> ContMax, cc |-> TRUE])
             IN  i <= Len(cont) /\ (cont[i][o].d # ContMax \/ i < Len(cont))

\* add_swap_count_continuation(): the page is allocated before the lock is
\* taken and may not be had; its bytes are whatever they were.
AddSwapCountContinuation(t) ==
    LET o == pc[t].o IN
    /\ pc[t].at = "add"
    /\ \/ /\ swap_map[o] # Free /\ ~RoomAlready(o)
          /\ \E junk \in [Offsets -> Digit] : cont' = Append(cont, junk)
          /\ bug' = (bug \/ (cont = <<>> /\ swap_map[o].cc))
          /\ pc' = [pc EXCEPT ![t] = [at |-> "again", o |-> o]]
       \/ /\ swap_map[o] = Free \/ RoomAlready(o)
          /\ pc' = [pc EXCEPT ![t] = [at |-> "again", o |-> o]]
          /\ UNCHANGED <<cont, bug>>
       \/ /\ swap_map[o] # Free /\ ~RoomAlready(o)  \* no page: -ENOMEM, no reference
          /\ pc' = [pc EXCEPT ![t] = Idle]
          /\ UNCHANGED <<cont, bug>>
    /\ UNCHANGED <<swap_map, refs, peak>>

\* swap_shmem_alloc(): the entry belongs to tmpfs and is never counted.
SwapShmemAlloc(o) ==
    /\ swap_map[o] = [Free EXCEPT !.cache = TRUE] /\ refs[o] = 0
    /\ \A t \in Threads : pc[t] = Idle
    /\ swap_map' = [swap_map EXCEPT ![o].n = Shmem]
    /\ UNCHANGED <<cont, refs, peak, pc, bug>>

\* swapcache_prepare(): __swap_duplicate(entry, SWAP_HAS_CACHE); -EEXIST and
\* -ENOENT change nothing.
SwapcachePrepare(o) ==
    /\ ~swap_map[o].cache /\ swap_map[o] # Free
    /\ swap_map' = [swap_map EXCEPT ![o].cache = TRUE]
    /\ UNCHANGED <<cont, refs, peak, pc, bug>>

\* swap_free(): swap_entry_free(p, entry, 1).  A task that duplicates an
\* entry holds one of its references.
SwapFree(o) ==
    LET e == swap_map[o] IN
    /\ refs[o] > Cardinality({t \in Threads : pc[t] # Idle /\ pc[t].o = o})
    /\ refs' = [refs EXCEPT ![o] = @ - 1]
    /\ \/ /\ e.n > 0
          /\ swap_map' = [swap_map EXCEPT ![o].n = @ - 1]
          /\ UNCHANGED <<cont, bug>>
       \/ /\ e.n = 0 /\ e.cc
          /\ bug' = (bug \/ BorrowBug(o))
          /\ cont' = IF BorrowBug(o) THEN cont ELSE Borrow(o)
          /\ swap_map' = [swap_map EXCEPT
                             ![o].n = MapMax,
                             ![o].cc = BorrowBug(o) \/ BorrowMore(o)]
    /\ UNCHANGED <<peak, pc>>

\* The same for tmpfs: whatever the count was, it becomes zero.
SwapFreeShmem(o) ==
    /\ swap_map[o].n = Shmem
    /\ swap_map' = [swap_map EXCEPT ![o].n = 0]
    /\ UNCHANGED <<cont, refs, peak, pc, bug>>

\* swapcache_free(): swap_entry_free(p, entry, SWAP_HAS_CACHE).
SwapcacheFree(o) ==
    /\ swap_map[o].cache
    /\ \A t \in Threads : pc[t] # Idle /\ pc[t].o = o => refs[o] > 0
    /\ swap_map' = [swap_map EXCEPT ![o].cache = FALSE]
    /\ UNCHANGED <<cont, refs, peak, pc, bug>>

\* free_swap_count_continuations(), once swapoff has emptied the map.
FreeContinuations ==
    /\ \A o \in Offsets : swap_map[o] = Free
    /\ \A t \in Threads : pc[t] = Idle
    /\ cont # <<>>
    /\ cont' = <<>>
    /\ peak' = 0
    /\ UNCHANGED <<swap_map, refs, pc, bug>>

Next ==
    \/ \E o \in Offsets :
          \/ AllocEntry(o) \/ SwapShmemAlloc(o) \/ SwapcachePrepare(o)
          \/ SwapFree(o) \/ SwapFreeShmem(o) \/ SwapcacheFree(o)
          \/ \E t \in Threads : SwapDuplicate(t, o)
    \/ \E t \in Threads : AddSwapCountContinuation(t)
    \/ FreeContinuations

Spec == Init /\ [][Next]_vars
------------------------------------------------------------------------------
\* What the digits of o stand for, from page i on.
DigitsFrom(o) ==
    LET val[i \in 1..(Len(cont) + 1)] ==
            IF i > Len(cont) THEN 0
            ELSE cont[i][o].d + (IF cont[i][o].cc THEN (ContMax + 1) * val[i + 1] ELSE 0)
    IN  val[1]

CountOf(o) ==
    swap_map[o].n + (IF swap_map[o].cc THEN (MapMax + 1) * DigitsFrom(o) ELSE 0)

\* The largest count that k continuation pages can hold.
Capacity(k) == (MapMax + 1) * (ContMax + 1)^k - 1

\* Types of the variables.
TypeOK ==
    /\ swap_map \in [Offsets -> [n : 0..Shmem, cc : BOOLEAN, cache : BOOLEAN]]
    /\ \A i \in 1..Len(cont) : cont[i] \in [Offsets -> Digit]
    /\ refs \in [Offsets -> 0..MaxRefs]
    /\ peak \in 0..MaxRefs
    /\ \A t \in Threads : pc[t].at \in {"idle", "add", "again"}
    /\ bug \in BOOLEAN

\* The map and the continuation pages together hold exactly the number of
\* page table entries that name each entry, through carries, borrows, pages
\* that start with arbitrary bytes and neighbours that share them: an entry
\* nobody names keeps no digit and becomes free, and none of the BUG_ONs of
\* swap_count_continued and add_swap_count_continuation is met.
CountExact ==
    /\ ~bug
    /\ \A o \in Offsets :
          /\ swap_map[o].n # Shmem => CountOf(o) = refs[o]
          /\ refs[o] = 0 => ~swap_map[o].cc

\* "we need to avoid over-provisioning": racing tasks never add a page that
\* no count has needed (add_swap_count_continuation).
NoOverProvision == cont # <<>> => Capacity(Len(cont) - 1) <= peak
==============================================================================
