----------------------------- MODULE ComexBuddy -----------------------------
(***************************************************************************)
(* The buddy allocator of one COMEX node (comex_buddy.h), brought up by    *)
(* COMEX_init_ENV (comex_lib.h).                                           *)
(*                                                                         *)
(* Every entry point runs under COMEX_buddy_spin.  A call is a sequence of *)
(* steps here, one per iteration of its loop, and cur is the call that     *)
(* holds the lock: no other call starts before it has ended.               *)
(*                                                                         *)
(* A free list is the set of the pages at the head of its blocks.  The     *)
(* order of the list (LIFO for split halves, FIFO for freed blocks) is     *)
(* left out: any block of the list may be taken.                           *)
(***************************************************************************)
EXTENDS Integers, FiniteSets

CONSTANTS
  MAX_ORDER,     \* COMEX_MAX_ORDER: orders are 0 .. MAX_ORDER - 1
  total_pages,   \* COMEX_total_pages: descriptors are 0 .. total_pages - 1
  Pow2,          \* Pow2[o] is 1 << o
  Backed,        \* pages whose chunk was really allocated (kmalloc # NULL)
  OverFree       \* bound: how often a page may be freed while it is free

Orders == 0 .. MAX_ORDER - 1
Pages  == 0 .. total_pages - 1
Top    == MAX_ORDER - 1

(* The constants as the code uses them.  COMEX_free_page looks at the buddy *)
(* of every page without a bound check, so the number of pages is a         *)
(* multiple of the largest block.                                           *)
ASSUME BuddyConstants ==
  /\ MAX_ORDER \in Nat \ {0}
  /\ total_pages \in Nat \ {0}
  /\ Pow2 \in [Orders -> Nat \ {0}]
  /\ Pow2[0] = 1
  /\ \A o \in Orders : o < Top => Pow2[o + 1] = 2 * Pow2[o]
  /\ total_pages % Pow2[Top] = 0
  /\ Backed \subseteq Pages
  /\ OverFree \in Nat

VARIABLES
  free_list,   \* COMEX_free_area[o].free_list
  nr_free,     \* COMEX_free_area[o].nr_free
  private,     \* COMEX_page.private: the order of a free block
  mapcount,    \* COMEX_page._mapcount: -128 marks the head of a free block
  cntr,        \* COMEX_page.CMX_cntr: 1 handed out, 0 free
  cur,         \* the call that holds COMEX_buddy_spin
  boot,        \* progress of COMEX_init_ENV
  held         \* pages a caller got and has not given back (history)

vars == <<free_list, nr_free, private, mapcount, cntr, cur, boot, held>>

Block(p, o) == p .. (p + Pow2[o] - 1)

Blocks == {b \in Pages \X Orders : b[1] % Pow2[b[2]] = 0}

Idle == [op |-> "idle", page |-> 0, low |-> 0, order |-> 0]

-----------------------------------------------------------------------------
(* Helpers of the allocator.                                               *)

(* page_idx ^ (1 << order).  The code works on page_idx, the low bits of    *)
(* pageNO; the bits it keeps hold every block, so the distance to the buddy *)
(* is that of the page numbers themselves.                                  *)
UpperHalf(p, o) == (p \div Pow2[o]) % 2 = 1
BuddyOf(p, o)   == IF UpperHalf(p, o) THEN p - Pow2[o] ELSE p + Pow2[o]

(* page_idx & ~(1 << order)                                                 *)
Combined(p, o)  == IF UpperHalf(p, o) THEN p - Pow2[o] ELSE p

(* COMEX_page_is_buddy.  A descriptor past the end of the array is never    *)
(* one; with a multiple of the largest block the code looks at none.        *)
IsBuddy(b, o) == b \in Pages /\ mapcount[b] = -128 /\ private[b] = o

(* COMEX_checkCtr adds val page by page and stops at the first page whose   *)
(* counter is not the expected one; that page keeps the new value.          *)
Expected(val) == IF val = 1 THEN 1 ELSE 0

CtrVisited(p, o, val) ==
  {q \in Block(p, o) : \A r \in p .. (q - 1) : cntr[r] + val = Expected(val)}

(* variant: only the first page is checked *)
CtrOkFirst(p, o, val) == cntr[p] + val = Expected(val)

CtrOk(p, o, val) == \A q \in Block(p, o) : cntr[q] + val = Expected(val)

COMEX_checkCtr(p, o, val) ==
  cntr' = [q \in Pages |->
             IF q \in CtrVisited(p, o, val) THEN cntr[q] + val ELSE cntr[q]]

-----------------------------------------------------------------------------
(* COMEX_rmqueue_smallest(order)                                           *)

NoneFree(order) == \A o \in order .. Top : free_list[o] = {}

(* The first non-empty list from order up gives its block; the lock is now  *)
(* held until RmqueueReturn.                                                *)
RmqueueTake(order) ==
  \E o \in order .. Top :
    /\ \A k \in order .. (o - 1) : free_list[k] = {}
    /\ \E page \in free_list[o] :
         /\ free_list' = [free_list EXCEPT ![o] = @ \ {page}]
         /\ private'   = [private EXCEPT ![page] = 0]
         /\ mapcount'  = [mapcount EXCEPT ![page] = -1]
         /\ nr_free'   = [nr_free EXCEPT ![o] = @ - 1]
         /\ cur' = [op |-> "expand", page |-> page, low |-> order, order |-> o]
    /\ UNCHANGED <<cntr, held>>

(* One turn of the loop of COMEX_expand: the upper half goes back.          *)
Expand ==
  /\ cur.op = "expand" /\ cur.order > cur.low
  /\ LET high == cur.order - 1
         half == cur.page + Pow2[high]
     IN /\ free_list' = [free_list EXCEPT ![high] = @ \union {half}]
        /\ nr_free'   = [nr_free EXCEPT ![high] = @ + 1]
        /\ private'   = [private EXCEPT ![half] = high]
        /\ mapcount'  = [mapcount EXCEPT ![half] = -128]
        /\ cur'       = [cur EXCEPT !.order = high]
  /\ UNCHANGED <<cntr, boot, held>>

(* variant: the result of COMEX_checkCtr is ignored *)
RmqueueReturnUnchecked ==
  /\ cur.op = "expand" /\ cur.order = cur.low
  /\ COMEX_checkCtr(cur.page, cur.low, 1)
  /\ held' = held \union Block(cur.page, cur.low)
  /\ cur' = Idle
  /\ UNCHANGED <<free_list, nr_free, private, mapcount, boot>>

(* The counters of the block are raised.  If one was not 0 the call returns *)
(* -1: the block is off the lists and nobody holds it.  The drain of the    *)
(* start-up stops at the first -1, whatever its cause.                      *)
RmqueueReturn ==
  /\ cur.op = "expand" /\ cur.order = cur.low
  /\ COMEX_checkCtr(cur.page, cur.low, 1)
  /\ held' = IF CtrOk(cur.page, cur.low, 1)
             THEN held \union Block(cur.page, cur.low) ELSE held
  /\ cur' = Idle
  /\ boot' = IF boot.phase = "drain" /\ ~CtrOk(cur.page, cur.low, 1)
             THEN [phase |-> "stock", i |-> 0] ELSE boot
  /\ UNCHANGED <<free_list, nr_free, private, mapcount>>

-----------------------------------------------------------------------------
(* COMEX_free_page(inPageNO, order)                                        *)

(* variant: the result of COMEX_checkCtr is ignored *)
FreeCallUnchecked(p, o) ==
  /\ COMEX_checkCtr(p, o, -1)
  /\ held' = held \ Block(p, o)
  /\ cur' = [op |-> "merge", page |-> p, low |-> 0, order |-> o]
  /\ UNCHANGED <<free_list, nr_free, private, mapcount>>

(* A page that is already free makes the call return at once, the counters  *)
(* lowered up to and including that page.                                   *)
FreeCall(p, o) ==
  /\ COMEX_checkCtr(p, o, -1)
  /\ held' = held \ Block(p, o)
  /\ cur' = IF CtrOk(p, o, -1)
            THEN [op |-> "merge", page |-> p, low |-> 0, order |-> o] ELSE Idle
  /\ UNCHANGED <<free_list, nr_free, private, mapcount>>

(* variant: the loop stops one order early *)
MergeableBelow ==
  cur.order < Top - 1 /\ IsBuddy(BuddyOf(cur.page, cur.order), cur.order)

Mergeable ==
  cur.order < Top /\ IsBuddy(BuddyOf(cur.page, cur.order), cur.order)

(* variant: the flags of the buddy stay *)
CoalesceStaleFlag ==
  /\ cur.op = "merge" /\ Mergeable
  /\ LET o     == cur.order
         buddy == BuddyOf(cur.page, o)
     IN /\ free_list' = [free_list EXCEPT ![o] = @ \ {buddy}]
        /\ nr_free'   = [nr_free EXCEPT ![o] = @ - 1]
        /\ cur' = [cur EXCEPT !.page = Combined(cur.page, o), !.order = o + 1]
  /\ UNCHANGED <<private, mapcount, cntr, boot, held>>

(* One turn of the coalescing loop.                                         *)
Coalesce ==
  /\ cur.op = "merge" /\ Mergeable
  /\ LET o     == cur.order
         buddy == BuddyOf(cur.page, o)
     IN /\ free_list' = [free_list EXCEPT ![o] = @ \ {buddy}]
        /\ nr_free'   = [nr_free EXCEPT ![o] = @ - 1]
        /\ private'   = [private EXCEPT ![buddy] = 0, ![cur.page] = 0]
        /\ mapcount'  = [mapcount EXCEPT ![buddy] = -1, ![cur.page] = -1]
        /\ cur' = [cur EXCEPT !.page = Combined(cur.page, o), !.order = o + 1]
  /\ UNCHANGED <<cntr, boot, held>>

FreeReturn ==
  /\ cur.op = "merge" /\ ~Mergeable
  /\ free_list' = [free_list EXCEPT ![cur.order] = @ \union {cur.page}]
  /\ nr_free'   = [nr_free EXCEPT ![cur.order] = @ + 1]
  /\ private'   = [private EXCEPT ![cur.page] = cur.order]
  /\ mapcount'  = [mapcount EXCEPT ![cur.page] = -128]
  /\ cur' = Idle
  /\ UNCHANGED <<cntr, boot, held>>

-----------------------------------------------------------------------------
(* COMEX_init_ENV: descriptors marked as handed out, every page freed, every *)
(* page taken again one by one, and the pages that have memory freed.        *)

Init ==
  /\ free_list = [o \in Orders |-> {}]
  /\ nr_free   = [o \in Orders |-> 0]
  /\ private   = [p \in Pages |-> 0]
  /\ mapcount  = [p \in Pages |-> -1]
  /\ cntr      = [p \in Pages |-> 1]
  /\ cur       = Idle
  /\ boot      = [phase |-> "fill", i |-> 0]
  /\ held      = {}

BootFill ==
  /\ boot.phase = "fill" /\ cur = Idle
  /\ FreeCall(boot.i, 0)
  /\ boot' = IF boot.i + 1 < total_pages THEN [boot EXCEPT !.i = @ + 1]
             ELSE [phase |-> "drain", i |-> 0]

BootDrain ==
  /\ boot.phase = "drain" /\ cur = Idle
  /\ RmqueueTake(0)
  /\ UNCHANGED boot

BootDrained ==
  /\ boot.phase = "drain" /\ cur = Idle /\ NoneFree(0)
  /\ boot' = [phase |-> "stock", i |-> 0]
  /\ UNCHANGED <<free_list, nr_free, private, mapcount, cntr, cur, held>>

(* COMEX_offset_to_addr is NULL for a page without memory: it is skipped    *)
(* and stays handed out for ever.                                           *)
BootStock ==
  /\ boot.phase = "stock" /\ cur = Idle
  /\ IF boot.i \in Backed THEN FreeCall(boot.i, 0)
     ELSE UNCHANGED <<free_list, nr_free, private, mapcount, cntr, cur, held>>
  /\ boot' = IF boot.i + 1 < total_pages THEN [boot EXCEPT !.i = @ + 1]
             ELSE [phase |-> "ready", i |-> 0]

-----------------------------------------------------------------------------
(* The callers after start-up: COMEX_move_to_COMEX and COMEX_pages_request   *)
(* allocate; swap-in, unmapping and PAGE_FREE messages free.  A caller may   *)
(* free a page twice (an entry read in and then unmapped): the pages it      *)
(* names were handed out at some time, so they have memory.                  *)

Rmqueue(order) ==
  /\ boot.phase = "ready" /\ cur = Idle
  /\ RmqueueTake(order)
  /\ UNCHANGED boot

FreePage(p, o) ==
  /\ boot.phase = "ready" /\ cur = Idle
  /\ Block(p, o) \subseteq Backed
  /\ \A q \in Block(p, o) : cntr[q] > -OverFree
  /\ FreeCall(p, o)
  /\ UNCHANGED boot

BootSteps == BootFill \/ BootDrain \/ BootDrained \/ BootStock

Next ==
  \/ BootSteps
  \/ \E o \in Orders : Rmqueue(o)
  \/ \E b \in Blocks : FreePage(b[1], b[2])
  \/ Expand \/ RmqueueReturn \/ Coalesce \/ FreeReturn

Spec == Init /\ [][Next]_vars

-----------------------------------------------------------------------------
(* Properties.                                                             *)

(* The pages of the blocks on the free lists, and of the block the current  *)
(* call works on.                                                           *)
ListedPages == {q \in Pages : \E o \in Orders : \E p \in free_list[o] : q \in Block(p, o)}
InFlight    == IF cur.op = "idle" THEN {} ELSE Block(cur.page, cur.order)

Apart(p, o, q, r) == p + Pow2[o] <= q \/ q + Pow2[r] <= p

(* The state has the shape of the code's structures.                        *)
TypeOK ==
  /\ free_list \in [Orders -> SUBSET Pages]
  /\ nr_free \in [Orders -> Int]
  /\ private \in [Pages -> Int]
  /\ mapcount \in [Pages -> Int]
  /\ cntr \in [Pages -> Int]
  /\ cur \in [op : {"idle", "expand", "merge"}, page : Pages, low : Orders, order : Orders]
  /\ boot \in [phase : {"fill", "drain", "stock", "ready"}, i : Pages]
  /\ held \subseteq Pages

BlocksFit ==
  /\ \A o \in Orders : \A p \in free_list[o] : p + Pow2[o] <= total_pages
  /\ cur.op # "idle" => cur.page + Pow2[cur.order] <= total_pages

(* Two free blocks never share a page, nor does the block being split,      *)
(* merged or handed out share one with a free block: after any sequence of  *)
(* COMEX_expand and coalescing, double frees included.                      *)
DisjointBlocks ==
  /\ \A o1, o2 \in Orders : \A p1 \in free_list[o1], p2 \in free_list[o2] :
       (p1 = p2 /\ o1 = o2) \/ Apart(p1, o1, p2, o2)
  /\ cur.op # "idle" =>
       \A o \in Orders : \A p \in free_list[o] : Apart(cur.page, cur.order, p, o)

(* The flags COMEX_page_is_buddy trusts say exactly which pages head a      *)
(* block of which list: a stale flag would unlink a page of no list.        *)
FlagsMatchLists ==
  \A o \in Orders : \A p \in Pages :
    p \in free_list[o] <=> mapcount[p] = -128 /\ private[p] = o

(* CMX_cntr keeps a page with its owner: a page on a list, or about to be,  *)
(* has a counter below 1, and a page somebody holds has the counter 1, so   *)
(* no page is given to a second caller before the first one, or a stray     *)
(* free, has given it back.                                                 *)
CountersAgree ==
  /\ \A o \in Orders : \A p \in free_list[o] : \A q \in Block(p, o) : cntr[q] <= 0
  /\ cur.op # "idle" => \A q \in Block(cur.page, cur.order) : cntr[q] <= 0
  /\ \A q \in held : cntr[q] = 1

(* A request fails only for want of memory: while the lock is free, if the  *)
(* pages of an aligned block of some order are all listed then a list of    *)
(* that order or above has a block.  So no history of splits and frees      *)
(* leaves buddies unmerged.                                                 *)
NoFragmentation ==
  cur = Idle =>
    \A b \in Blocks : Block(b[1], b[2]) \subseteq ListedPages => ~NoneFree(b[2])

(* The allocator implements PageAllocator: a page becomes free when         *)
(* COMEX_checkCtr accepts it, and is handed out when rmqueue returns.       *)
Abs == INSTANCE PageAllocator WITH
         Runs <- {Block(b[1], b[2]) : b \in Blocks},
         free <- ListedPages \union InFlight,
         held <- held

AllocatorSpec == Abs!Spec
=============================================================================
