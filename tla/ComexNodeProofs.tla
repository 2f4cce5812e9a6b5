--------------------------- MODULE ComexNodeProofs ---------------------------
(***************************************************************************)
(* Part 1: the buddy allocator, for every number of pages and orders.      *)
(* Part 2: a memory node and its compute node keep every page in one place,*)
(* and use the allocator as ComexBuddy assumes: for every number of pages, *)
(* orders and runs, and every page that is lost with a message.            *)
(***************************************************************************)
EXTENDS ComexNode, FiniteSetTheorems, WellFoundedInduction, TLAPS

-----------------------------------------------------------------------------
(* Part 1: the allocator.                                                  *)

(* The inductive invariant: the blocks of the lists and the block in hand   *)
(* lie in the array and apart from each other, the flags name the listed    *)
(* blocks, and the counters separate free pages from held ones.             *)
BuddyInv == TypeOK /\ BlocksFit /\ DisjointBlocks /\ FlagsMatchLists /\ CountersAgree

BootType == [phase : {"fill", "drain", "stock", "ready"}, i : Pages]

-----------------------------------------------------------------------------
(* The constants.                                                          *)

(* Every block has at least one page, and two blocks of an order make one   *)
(* of the next.                                                             *)
LEMMA Sizes ==
  /\ \A o \in Orders : Pow2[o] \in Nat /\ Pow2[o] >= 1
  /\ \A o \in Orders : o < Top => o + 1 \in Orders /\ Pow2[o + 1] = 2 * Pow2[o]
  /\ \A o \in Orders : o > 0 => o - 1 \in Orders /\ Pow2[o] = 2 * Pow2[o - 1]
  /\ \A o \in Orders : o \in Nat
  /\ Top \in Orders /\ 0 \in Orders /\ Pow2[0] = 1
  /\ \A p \in Pages : p \in Nat /\ p < total_pages
  /\ 0 \in Pages
<1>1. \A o \in Orders : Pow2[o] \in Nat /\ Pow2[o] >= 1
  BY BuddyConstants
<1>2. \A o \in Orders : o < Top => o + 1 \in Orders /\ Pow2[o + 1] = 2 * Pow2[o]
  BY BuddyConstants DEF Orders, Top
<1>3. ASSUME NEW o \in Orders, o > 0
      PROVE  o - 1 \in Orders /\ Pow2[o] = 2 * Pow2[o - 1]
  <2>1. o - 1 \in Orders /\ o - 1 < Top /\ (o - 1) + 1 = o
    BY <1>3, BuddyConstants DEF Orders, Top
  <2> QED BY <2>1, <1>2
<1> QED BY <1>1, <1>2, <1>3, BuddyConstants DEF Orders, Pages, Top

(* The buddy of a block is its neighbour below or above, and the merged     *)
(* block starts at the lower of the two.                                    *)
LEMMA BuddyCases ==
  ASSUME NEW p, NEW o
  PROVE  \/ BuddyOf(p, o) = p - Pow2[o] /\ Combined(p, o) = p - Pow2[o]
         \/ BuddyOf(p, o) = p + Pow2[o] /\ Combined(p, o) = p
BY DEF BuddyOf, Combined

-----------------------------------------------------------------------------
(* One lemma for each kind of step.                                        *)

LEMMA InitInv == Init => BuddyInv
BY Sizes DEF Init, BuddyInv, TypeOK, BlocksFit, DisjointBlocks, FlagsMatchLists,
             CountersAgree, Idle, Block

LEMMA TakeInv ==
  ASSUME BuddyInv, cur = Idle, NEW order \in Orders, RmqueueTake(order), boot' \in BootType
  PROVE  BuddyInv'
<1>0. PICK o \in order .. Top : \E page \in free_list[o] :
        /\ free_list' = [free_list EXCEPT ![o] = @ \ {page}]
        /\ private'   = [private EXCEPT ![page] = 0]
        /\ mapcount'  = [mapcount EXCEPT ![page] = -1]
        /\ nr_free'   = [nr_free EXCEPT ![o] = @ - 1]
        /\ cur' = [op |-> "expand", page |-> page, low |-> order, order |-> o]
  BY Zenon DEF RmqueueTake
<1>o. o \in Orders
  BY BuddyConstants DEF Orders, Top
<1>1. PICK page \in free_list[o] :
        /\ free_list' = [free_list EXCEPT ![o] = @ \ {page}]
        /\ private'   = [private EXCEPT ![page] = 0]
        /\ mapcount'  = [mapcount EXCEPT ![page] = -1]
        /\ nr_free'   = [nr_free EXCEPT ![o] = @ - 1]
        /\ cur' = [op |-> "expand", page |-> page, low |-> order, order |-> o]
  BY <1>0, Zenon
<1>2. page \in Pages /\ cntr' = cntr /\ held' = held
  BY <1>o DEF RmqueueTake, BuddyInv, TypeOK
<1>3. \A k \in Orders : free_list'[k] \subseteq free_list[k]
  BY <1>o, <1>1 DEF BuddyInv, TypeOK
<1>4. TypeOK'
  BY <1>o, <1>1, <1>2, Sizes DEF BuddyInv, TypeOK, BootType
<1>5. BlocksFit'
  BY <1>o, <1>1, <1>3 DEF BuddyInv, BlocksFit
<1>6. \A k \in Orders : \A p \in free_list'[k] : Apart(page, o, p, k)
  <2> SUFFICES ASSUME NEW k \in Orders, NEW p \in free_list'[k]
               PROVE  Apart(page, o, p, k)
    OBVIOUS
  <2>1. p \in free_list[k] /\ ~(p = page /\ k = o)
    BY <1>o, <1>1, <1>3 DEF BuddyInv, TypeOK
  <2> QED BY <1>o, <2>1 DEF BuddyInv, DisjointBlocks
<1>7. DisjointBlocks'
  BY <1>o, <1>1, <1>3, <1>6 DEF BuddyInv, DisjointBlocks, Apart
<1>8. FlagsMatchLists'
  BY <1>o, <1>1, <1>2, Sizes DEF BuddyInv, TypeOK, FlagsMatchLists
<1>9. CountersAgree'
  BY <1>o, <1>1, <1>2, <1>3 DEF BuddyInv, CountersAgree, Block
<1> QED BY <1>4, <1>5, <1>7, <1>8, <1>9 DEF BuddyInv

LEMMA ExpandInv == ASSUME BuddyInv, Expand PROVE BuddyInv'
<1> DEFINE high == cur.order - 1
           half == cur.page + Pow2[high]
<1>1. /\ cur.op = "expand" /\ cur.order > cur.low
      /\ free_list' = [free_list EXCEPT ![high] = @ \union {half}]
      /\ nr_free'   = [nr_free EXCEPT ![high] = @ + 1]
      /\ private'   = [private EXCEPT ![half] = high]
      /\ mapcount'  = [mapcount EXCEPT ![half] = -128]
      /\ cur'       = [cur EXCEPT !.order = high]
      /\ cntr' = cntr /\ boot' = boot /\ held' = held
  BY DEF Expand
<1>2. /\ cur.page \in Pages /\ cur.order \in Orders /\ cur.low \in Orders
      /\ high \in Orders /\ Pow2[cur.order] = 2 * Pow2[high]
      /\ Pow2[high] \in Nat /\ Pow2[high] >= 1
      /\ cur.page \in Nat
  BY <1>1, Sizes DEF BuddyInv, TypeOK
<1>3. half \in Nat /\ half + Pow2[high] <= total_pages /\ half \in Pages
  BY <1>1, <1>2, BuddyConstants DEF BuddyInv, BlocksFit, Pages
<1>4. /\ cur'.op = "expand" /\ cur'.page = cur.page
      /\ cur'.low = cur.low /\ cur'.order = high
      /\ cur' \in [op : {"idle", "expand", "merge"}, page : Pages, low : Orders, order : Orders]
  BY <1>1, <1>2 DEF BuddyInv, TypeOK
<1>5. \A k \in Orders : \A p \in free_list'[k] :
        p \in free_list[k] \/ (p = half /\ k = high)
  BY <1>1 DEF BuddyInv, TypeOK
<1>6. TypeOK'
  <2>1. high \in Int
    BY <1>2, Sizes
  <2>2. free_list' \in [Orders -> SUBSET Pages] /\ nr_free' \in [Orders -> Int]
    BY <1>1, <1>2, <1>3 DEF BuddyInv, TypeOK
  <2>3. private' \in [Pages -> Int] /\ mapcount' \in [Pages -> Int]
    BY <1>1, <1>3, <2>1 DEF BuddyInv, TypeOK
  <2> QED BY <1>1, <1>4, <2>2, <2>3 DEF BuddyInv, TypeOK
<1>7. BlocksFit'
  BY <1>1, <1>2, <1>3, <1>4, <1>5, BuddyConstants DEF BuddyInv, BlocksFit, Pages
<1>8. \A k \in Orders : \A p \in free_list[k] :
        /\ p \in Nat /\ Pow2[k] \in Nat /\ Pow2[k] >= 1
        /\ Apart(cur.page, cur.order, p, k)
  BY <1>1, Sizes DEF BuddyInv, DisjointBlocks, TypeOK
<1>9. \A k \in Orders : \A p \in free_list[k] :
        Apart(half, high, p, k) /\ Apart(p, k, half, high) /\ Apart(cur.page, high, p, k)
  BY <1>2, <1>3, <1>8 DEF Apart
<1>10. Apart(cur.page, high, half, high)
  BY <1>2 DEF Apart
<1>11. DisjointBlocks'
  BY <1>4, <1>5, <1>9, <1>10 DEF BuddyInv, DisjointBlocks, Apart
<1>12. \A k \in Orders : half \notin free_list[k]
  BY <1>2, <1>3, <1>8 DEF Apart
<1>13. FlagsMatchLists'
  BY <1>1, <1>2, <1>3, <1>12 DEF BuddyInv, TypeOK, FlagsMatchLists
<1>14. Block(half, high) \subseteq Block(cur.page, cur.order)
  BY <1>2, <1>3 DEF Block
<1>15. Block(cur.page, high) \subseteq Block(cur.page, cur.order)
  BY <1>2, <1>3 DEF Block
<1>16. CountersAgree'
  <2>1. \A q \in Block(cur.page, cur.order) : cntr[q] <= 0
    BY <1>1 DEF BuddyInv, CountersAgree
  <2>2. (\A k \in Orders : \A p \in free_list[k] : \A q \in Block(p, k) : cntr[q] <= 0)'
    BY <1>1, <1>5, <1>14, <2>1 DEF BuddyInv, CountersAgree, Block
  <2>3. (\A q \in Block(cur.page, cur.order) : cntr[q] <= 0)'
    BY <1>1, <1>4, <1>15, <2>1 DEF Block
  <2> QED BY <1>1, <2>2, <2>3 DEF BuddyInv, CountersAgree
<1> QED BY <1>6, <1>7, <1>11, <1>13, <1>16 DEF BuddyInv

(* What COMEX_checkCtr does to the counters, whatever they were.            *)
LEMMA CheckCtr ==
  ASSUME BuddyInv, NEW p \in Pages, NEW o \in Orders, p + Pow2[o] <= total_pages,
         NEW val \in {1, -1}, COMEX_checkCtr(p, o, val)
  PROVE  /\ cntr' \in [Pages -> Int]
         /\ \A q \in Pages : q \notin Block(p, o) => cntr'[q] = cntr[q]
         /\ \A q \in Pages : cntr'[q] = cntr[q] \/ cntr'[q] = cntr[q] + val
         /\ CtrOk(p, o, val) => \A q \in Block(p, o) : cntr'[q] = Expected(val)
         /\ Block(p, o) \subseteq Pages
<1>1. \A q \in Pages : cntr'[q] = IF q \in CtrVisited(p, o, val) THEN cntr[q] + val ELSE cntr[q]
  BY DEF COMEX_checkCtr
<1>2. cntr' \in [Pages -> Int]
  BY DEF COMEX_checkCtr, BuddyInv, TypeOK
<1>3. CtrVisited(p, o, val) \subseteq Block(p, o)
  BY DEF CtrVisited
<1>4. Block(p, o) \subseteq Pages
  BY Sizes, BuddyConstants DEF Block, Pages
<1>5. ASSUME CtrOk(p, o, val), NEW q \in Block(p, o)
      PROVE  q \in CtrVisited(p, o, val) /\ cntr[q] + val = Expected(val)
  <2>1. \A r \in p .. (q - 1) : r \in Block(p, o)
    BY Sizes DEF Block
  <2> QED BY <1>5, <2>1 DEF CtrVisited, CtrOk
<1> QED BY <1>1, <1>2, <1>3, <1>4, <1>5

LEMMA RmqueueReturnInv == ASSUME BuddyInv, RmqueueReturn PROVE BuddyInv'
<1>1. /\ cur.op = "expand" /\ cur.order = cur.low
      /\ COMEX_checkCtr(cur.page, cur.low, 1)
      /\ held' = IF CtrOk(cur.page, cur.low, 1)
                 THEN held \union Block(cur.page, cur.low) ELSE held
      /\ cur' = Idle
      /\ boot' = boot \/ boot' = [phase |-> "stock", i |-> 0]
      /\ free_list' = free_list /\ nr_free' = nr_free
      /\ private' = private /\ mapcount' = mapcount
  BY DEF RmqueueReturn
<1>2. cur.page \in Pages /\ cur.order \in Orders /\ cur.page + Pow2[cur.low] <= total_pages
  BY <1>1 DEF BuddyInv, TypeOK, BlocksFit
<1>3. /\ cntr' \in [Pages -> Int]
      /\ \A q \in Pages : q \notin Block(cur.page, cur.low) => cntr'[q] = cntr[q]
      /\ CtrOk(cur.page, cur.low, 1) => \A q \in Block(cur.page, cur.low) : cntr'[q] = 1
      /\ Block(cur.page, cur.low) \subseteq Pages
  BY <1>1, <1>2, CheckCtr DEF Expected
<1>4. TypeOK'
  BY <1>1, <1>2, <1>3, Sizes DEF BuddyInv, TypeOK, Idle
<1>5. BlocksFit' /\ DisjointBlocks' /\ FlagsMatchLists'
  BY <1>1 DEF BuddyInv, BlocksFit, DisjointBlocks, FlagsMatchLists, Idle, Apart
<1>6. CountersAgree'
  <2>1. ASSUME NEW k \in Orders, NEW p \in free_list[k], NEW q \in Block(p, k)
        PROVE  cntr'[q] <= 0
    <3>1. q \in Pages /\ cntr[q] <= 0
      <4>1. p \in Nat /\ Pow2[k] \in Nat /\ p + Pow2[k] <= total_pages
        BY <2>1, Sizes DEF BuddyInv, TypeOK, BlocksFit
      <4>2. q \in Pages
        BY <2>1, <4>1, BuddyConstants DEF Block, Pages
      <4> QED BY <2>1, <4>2 DEF BuddyInv, CountersAgree
    <3>2. q \notin Block(cur.page, cur.low)
      BY <1>1, <1>2, <2>1, Sizes DEF BuddyInv, TypeOK, DisjointBlocks, Apart, Block
    <3> QED BY <1>3, <3>1, <3>2
  <2>2. ASSUME NEW q \in held' PROVE cntr'[q] = 1
    <3>1. CASE q \in held
      <4>1. cntr[q] = 1 /\ q \in Pages
        BY <3>1 DEF BuddyInv, CountersAgree, TypeOK
      <4>2. q \notin Block(cur.page, cur.low)
        BY <1>1, <4>1 DEF BuddyInv, CountersAgree
      <4> QED BY <1>3, <4>1, <4>2
    <3>2. CASE q \notin held
      BY <1>1, <1>3, <2>2, <3>2
    <3> QED BY <3>1, <3>2
  <2> QED BY <1>1, <2>1, <2>2 DEF CountersAgree, Idle, Block
<1> QED BY <1>4, <1>5, <1>6 DEF BuddyInv

LEMMA FreeCallInv ==
  ASSUME BuddyInv, cur = Idle, NEW p \in Pages, NEW o \in Orders,
         p + Pow2[o] <= total_pages, FreeCall(p, o), boot' \in BootType
  PROVE  BuddyInv'
<1>1. /\ COMEX_checkCtr(p, o, -1)
      /\ held' = held \ Block(p, o)
      /\ cur' = IF CtrOk(p, o, -1)
                THEN [op |-> "merge", page |-> p, low |-> 0, order |-> o] ELSE Idle
      /\ free_list' = free_list /\ nr_free' = nr_free
      /\ private' = private /\ mapcount' = mapcount
  BY DEF FreeCall
<1>2. /\ cntr' \in [Pages -> Int] /\ cntr \in [Pages -> Int]
      /\ \A q \in Pages : q \notin Block(p, o) => cntr'[q] = cntr[q]
      /\ \A q \in Pages : cntr'[q] <= cntr[q]
      /\ CtrOk(p, o, -1) => \A q \in Block(p, o) : cntr'[q] = 0 /\ cntr[q] = 1
      /\ Block(p, o) \subseteq Pages
  <2>1. cntr \in [Pages -> Int]
    BY DEF BuddyInv, TypeOK
  <2>2. /\ cntr' \in [Pages -> Int]
        /\ \A q \in Pages : q \notin Block(p, o) => cntr'[q] = cntr[q]
        /\ \A q \in Pages : cntr'[q] = cntr[q] \/ cntr'[q] = cntr[q] + (-1)
        /\ CtrOk(p, o, -1) => \A q \in Block(p, o) : cntr'[q] = Expected(-1)
        /\ Block(p, o) \subseteq Pages
    BY <1>1, CheckCtr
  <2>3. CtrOk(p, o, -1) => \A q \in Block(p, o) : cntr[q] = 1
    BY <2>1, <2>2 DEF CtrOk, Expected
  <2> QED BY <2>1, <2>2, <2>3 DEF Expected
<1>3. TypeOK'
  BY <1>1, <1>2, Sizes DEF BuddyInv, TypeOK, Idle, BootType
<1>4. BlocksFit' /\ FlagsMatchLists'
  BY <1>1 DEF BuddyInv, BlocksFit, FlagsMatchLists, Idle
<1>5. ASSUME NEW k \in Orders, NEW r \in free_list[k]
      PROVE  /\ r \in Nat /\ Pow2[k] \in Nat /\ Pow2[k] >= 1
             /\ Block(r, k) \subseteq Pages
             /\ \A q \in Block(r, k) : cntr[q] <= 0
  <2>1. r \in Nat /\ Pow2[k] \in Nat /\ Pow2[k] >= 1 /\ r + Pow2[k] <= total_pages
    BY Sizes DEF BuddyInv, TypeOK, BlocksFit
  <2> QED BY <2>1, BuddyConstants DEF BuddyInv, CountersAgree, Block, Pages
<1>6. DisjointBlocks'
  <2>1. CASE CtrOk(p, o, -1)
    <3>1. ASSUME NEW k \in Orders, NEW r \in free_list[k] PROVE Apart(p, o, r, k)
      <4>1. \A q \in Block(p, o) : q \notin Block(r, k)
        BY <1>2, <1>5, <2>1, <3>1
      <4>2. p \in Nat /\ Pow2[o] \in Nat /\ Pow2[o] >= 1
        BY Sizes
      <4>3. p \notin Block(r, k) /\ r \notin Block(p, o)
        BY <1>5, <3>1, <4>1, <4>2 DEF Block
      <4> QED BY <1>5, <3>1, <4>2, <4>3 DEF Block, Apart
    <3>2. cur' = [op |-> "merge", page |-> p, low |-> 0, order |-> o]
      BY <1>1, <2>1
    <3> QED BY <1>1, <3>1, <3>2 DEF BuddyInv, DisjointBlocks, Apart
  <2>2. CASE ~CtrOk(p, o, -1)
    BY <1>1, <2>2 DEF BuddyInv, DisjointBlocks, Idle, Apart
  <2> QED BY <2>1, <2>2
<1>7. CountersAgree'
  <2>1. \A k \in Orders : \A r \in free_list[k] : \A q \in Block(r, k) : cntr'[q] <= 0
    <3> SUFFICES ASSUME NEW k \in Orders, NEW r \in free_list[k], NEW q \in Block(r, k)
                 PROVE  cntr'[q] <= 0
      OBVIOUS
    <3>1. q \in Pages /\ cntr[q] <= 0
      BY <1>5
    <3> QED BY <1>2, <3>1
  <2>2. cur'.op # "idle" => \A q \in Block(p, o) : cntr'[q] <= 0
    BY <1>1, <1>2 DEF Idle
  <2>3. cur'.op # "idle" => cur'.page = p /\ cur'.order = o
    BY <1>1 DEF Idle
  <2>4. \A q \in held' : cntr'[q] = 1
    BY <1>1, <1>2 DEF BuddyInv, CountersAgree, TypeOK
  <2> QED BY <1>1, <2>1, <2>2, <2>3, <2>4 DEF CountersAgree, Block
<1> QED BY <1>3, <1>4, <1>6, <1>7 DEF BuddyInv

LEMMA CoalesceInv == ASSUME BuddyInv, Coalesce PROVE BuddyInv'
<1> DEFINE o     == cur.order
           S     == Pow2[o]
           page  == cur.page
           buddy == BuddyOf(page, o)
           both  == Combined(page, o)
<1>1. /\ cur.op = "merge" /\ o < Top /\ IsBuddy(buddy, o)
      /\ free_list' = [free_list EXCEPT ![o] = @ \ {buddy}]
      /\ nr_free'   = [nr_free EXCEPT ![o] = @ - 1]
      /\ private'   = [private EXCEPT ![buddy] = 0, ![page] = 0]
      /\ mapcount'  = [mapcount EXCEPT ![buddy] = -1, ![page] = -1]
      /\ cur' = [cur EXCEPT !.page = both, !.order = o + 1]
      /\ cntr' = cntr /\ boot' = boot /\ held' = held
  BY DEF Coalesce, Mergeable
<1>2. /\ page \in Pages /\ page \in Nat /\ o \in Orders /\ o + 1 \in Orders
      /\ S \in Nat /\ S >= 1 /\ Pow2[o + 1] = 2 * S
      /\ page + S <= total_pages
  BY <1>1, Sizes DEF BuddyInv, TypeOK, BlocksFit
<1>3. buddy \in Pages /\ buddy \in free_list[o] /\ buddy \in Nat /\ buddy + S <= total_pages
  <2>1. buddy \in Pages /\ buddy \in free_list[o]
    BY <1>1, <1>2 DEF IsBuddy, BuddyInv, FlagsMatchLists
  <2> QED BY <1>2, <2>1, Sizes DEF BuddyInv, BlocksFit
<1>4. \/ buddy = page - S /\ both = page - S
      \/ buddy = page + S /\ both = page
  BY BuddyCases
<1>5. both \in Pages /\ both \in Nat /\ both + 2 * S <= total_pages
  BY <1>2, <1>3, <1>4
<1>6. /\ cur'.op = "merge" /\ cur'.page = both /\ cur'.order = o + 1
      /\ cur' \in [op : {"idle", "expand", "merge"}, page : Pages, low : Orders, order : Orders]
  BY <1>1, <1>2, <1>5 DEF BuddyInv, TypeOK
<1>7. \A k \in Orders : \A p \in free_list'[k] :
        p \in free_list[k] /\ ~(p = buddy /\ k = o)
  BY <1>1, <1>2 DEF BuddyInv, TypeOK
<1>8. TypeOK'
  BY <1>1, <1>2, <1>3, <1>6 DEF BuddyInv, TypeOK
<1>9. BlocksFit'
  BY <1>2, <1>5, <1>6, <1>7 DEF BuddyInv, BlocksFit
<1>10. DisjointBlocks'
  <2>1. ASSUME NEW k \in Orders, NEW p \in free_list'[k]
        PROVE  Apart(both, o + 1, p, k)
    <3>1. p \in free_list[k] /\ p \in Nat /\ Pow2[k] \in Nat /\ Pow2[k] >= 1
      BY <1>7, <2>1, Sizes DEF BuddyInv, TypeOK
    <3>2. Apart(page, o, p, k)
      BY <1>1, <3>1 DEF BuddyInv, DisjointBlocks
    <3>3. Apart(buddy, o, p, k)
      BY <1>2, <1>3, <1>7, <2>1, <3>1 DEF BuddyInv, DisjointBlocks
    <3> QED BY <1>2, <1>3, <1>4, <3>1, <3>2, <3>3 DEF Apart
  <2>2. \A o1, o2 \in Orders : \A p1 \in free_list'[o1], p2 \in free_list'[o2] :
          (p1 = p2 /\ o1 = o2) \/ Apart(p1, o1, p2, o2)
    BY <1>7 DEF BuddyInv, DisjointBlocks
  <2> QED BY <1>6, <2>1, <2>2 DEF DisjointBlocks, Apart
<1>11. FlagsMatchLists'
  <2>1. \A k \in Orders : page \notin free_list[k]
    <3> SUFFICES ASSUME NEW k \in Orders, page \in free_list[k] PROVE FALSE
      OBVIOUS
    <3>1. Apart(page, o, page, k) /\ Pow2[k] \in Nat /\ Pow2[k] >= 1
      BY <1>1, Sizes DEF BuddyInv, DisjointBlocks
    <3> QED BY <1>2, <3>1 DEF Apart
  <2>2. \A k \in Orders : buddy \in free_list[k] => k = o
    BY <1>2, <1>3, Sizes DEF BuddyInv, FlagsMatchLists
  <2> QED BY <1>1, <1>2, <1>3, <2>1, <2>2 DEF BuddyInv, TypeOK, FlagsMatchLists
<1>12. CountersAgree'
  <2>1. \A q \in Block(page, o) : cntr[q] <= 0
    BY <1>1 DEF BuddyInv, CountersAgree
  <2>2. \A q \in Block(buddy, o) : cntr[q] <= 0
    BY <1>2, <1>3 DEF BuddyInv, CountersAgree
  <2>3. \A q \in Block(both, o + 1) : q \in Block(page, o) \/ q \in Block(buddy, o)
    BY <1>2, <1>3, <1>4, <1>5 DEF Block
  <2>4. \A k \in Orders : \A p \in free_list'[k] : \A q \in Block(p, k) : cntr[q] <= 0
    BY <1>7 DEF BuddyInv, CountersAgree
  <2>5. \A q \in held : cntr[q] = 1
    BY DEF BuddyInv, CountersAgree
  <2> QED BY <1>1, <1>6, <2>1, <2>2, <2>3, <2>4, <2>5 DEF CountersAgree, Block
<1> QED BY <1>8, <1>9, <1>10, <1>11, <1>12 DEF BuddyInv

LEMMA FreeReturnInv == ASSUME BuddyInv, FreeReturn PROVE BuddyInv'
<1> DEFINE o    == cur.order
           page == cur.page
<1>1. /\ cur.op = "merge"
      /\ free_list' = [free_list EXCEPT ![o] = @ \union {page}]
      /\ nr_free'   = [nr_free EXCEPT ![o] = @ + 1]
      /\ private'   = [private EXCEPT ![page] = o]
      /\ mapcount'  = [mapcount EXCEPT ![page] = -128]
      /\ cur' = Idle /\ cntr' = cntr /\ boot' = boot /\ held' = held
  BY DEF FreeReturn
<1>2. /\ page \in Pages /\ page \in Nat /\ o \in Orders /\ o \in Int
      /\ Pow2[o] \in Nat /\ Pow2[o] >= 1 /\ page + Pow2[o] <= total_pages
  BY <1>1, Sizes DEF BuddyInv, TypeOK, BlocksFit
<1>3. \A k \in Orders : \A p \in free_list'[k] :
        p \in free_list[k] \/ (p = page /\ k = o)
  BY <1>1 DEF BuddyInv, TypeOK
<1>4. TypeOK'
  <2>1. free_list' \in [Orders -> SUBSET Pages] /\ nr_free' \in [Orders -> Int]
    BY <1>1, <1>2 DEF BuddyInv, TypeOK
  <2>2. private' \in [Pages -> Int] /\ mapcount' \in [Pages -> Int]
    BY <1>1, <1>2 DEF BuddyInv, TypeOK
  <2> QED BY <1>1, <2>1, <2>2, Sizes DEF BuddyInv, TypeOK, Idle
<1>5. BlocksFit'
  BY <1>1, <1>2, <1>3 DEF BuddyInv, BlocksFit, Idle
<1>6. \A k \in Orders : \A p \in free_list[k] :
        /\ p \in Nat /\ Pow2[k] \in Nat /\ Pow2[k] >= 1
        /\ Apart(page, o, p, k) /\ Apart(p, k, page, o)
  BY <1>1, Sizes DEF BuddyInv, DisjointBlocks, TypeOK, Apart
<1>7. DisjointBlocks'
  BY <1>1, <1>3, <1>6 DEF BuddyInv, DisjointBlocks, Idle, Apart
<1>8. FlagsMatchLists'
  <2>1. \A k \in Orders : page \notin free_list[k]
    BY <1>2, <1>6 DEF Apart
  <2> QED BY <1>1, <1>2, <2>1 DEF BuddyInv, TypeOK, FlagsMatchLists
<1>9. CountersAgree'
  BY <1>1, <1>3 DEF BuddyInv, CountersAgree, Idle, Block
<1> QED BY <1>4, <1>5, <1>7, <1>8, <1>9 DEF BuddyInv

-----------------------------------------------------------------------------
(* Every step keeps the invariant.                                         *)
LEMMA NextInv == BuddyInv /\ [Next]_vars => BuddyInv'
<1> SUFFICES ASSUME BuddyInv, [Next]_vars PROVE BuddyInv'
  OBVIOUS
<1>1. boot \in BootType /\ boot.i \in Pages /\ boot.i \in Nat
  BY Sizes DEF BuddyInv, TypeOK, BootType
<1>2. boot.i + Pow2[0] <= total_pages
  BY <1>1, Sizes, BuddyConstants
<1>3. CASE BootFill
  <2>1. boot' \in BootType
    BY <1>1, <1>3, Sizes, BuddyConstants DEF BootFill, BootType, Pages
  <2> QED BY <1>1, <1>2, <1>3, <2>1, FreeCallInv, Sizes DEF BootFill
<1>4. CASE BootDrain
  BY <1>1, <1>4, TakeInv, Sizes DEF BootDrain
<1>5. CASE BootDrained
  <2>1. TypeOK'
    BY <1>5, Sizes DEF BuddyInv, TypeOK, BootDrained
  <2> QED BY <1>5, <2>1 DEF BuddyInv, BootDrained, BlocksFit, DisjointBlocks, FlagsMatchLists,
                            CountersAgree, Apart, Block
<1>6. CASE BootStock
  <2>1. boot' \in BootType
    BY <1>1, <1>6, Sizes, BuddyConstants DEF BootStock, BootType, Pages
  <2>2. CASE boot.i \in Backed
    BY <1>1, <1>2, <1>6, <2>1, <2>2, FreeCallInv, Sizes DEF BootStock
  <2>3. CASE boot.i \notin Backed
    <3>1. UNCHANGED <<free_list, nr_free, private, mapcount, cntr, cur, held>>
      BY <1>6, <2>3 DEF BootStock
    <3>2. TypeOK'
      BY <2>1, <3>1 DEF BuddyInv, TypeOK, BootType
    <3> QED BY <3>1, <3>2 DEF BuddyInv, BlocksFit, DisjointBlocks, FlagsMatchLists,
                              CountersAgree, Apart, Block
  <2> QED BY <2>2, <2>3
<1>7. ASSUME NEW order \in Orders, Rmqueue(order) PROVE BuddyInv'
  BY <1>1, <1>7, TakeInv DEF Rmqueue
<1>8. ASSUME NEW b \in Blocks, FreePage(b[1], b[2]) PROVE BuddyInv'
  <2>1. b[1] \in Pages /\ b[2] \in Orders
    BY <1>8 DEF Blocks
  <2>2. b[1] \in Nat /\ Pow2[b[2]] \in Nat /\ Pow2[b[2]] >= 1
    BY <2>1, Sizes
  <2>3. b[1] + Pow2[b[2]] - 1 \in Block(b[1], b[2])
    BY <2>2 DEF Block
  <2>4. b[1] + Pow2[b[2]] - 1 \in Pages
    BY <1>8, <2>3, BuddyConstants DEF FreePage
  <2>5. b[1] + Pow2[b[2]] <= total_pages
    BY <2>2, <2>4, Sizes, BuddyConstants
  <2> QED BY <1>1, <1>8, <2>1, <2>5, FreeCallInv DEF FreePage
<1>9. CASE UNCHANGED vars
  BY <1>9 DEF vars, BuddyInv, TypeOK, BlocksFit, DisjointBlocks, FlagsMatchLists,
              CountersAgree, Apart, Block
<1> QED BY <1>3, <1>4, <1>5, <1>6, <1>7, <1>8, <1>9, ExpandInv, RmqueueReturnInv, CoalesceInv,
           FreeReturnInv DEF Next, BootSteps

-----------------------------------------------------------------------------
(* The invariant holds in every reachable state, for any number of pages,   *)
(* any orders, any set of pages with memory and any number of double frees. *)
THEOREM BuddyInvariant == Spec => []BuddyInv
BY InitInv, NextInv, PTL DEF Spec

(* The state of the allocator is always well formed.                        *)
THEOREM TypeCorrect == Spec => []TypeOK
<1>1. BuddyInv => TypeOK
  BY DEF BuddyInv
<1> QED BY <1>1, BuddyInvariant, PTL

(* Splitting and merging never make two free blocks share a page.           *)
THEOREM BlocksDisjoint == Spec => []DisjointBlocks
<1>1. BuddyInv => DisjointBlocks
  BY DEF BuddyInv
<1> QED BY <1>1, BuddyInvariant, PTL

(* The flags that COMEX_page_is_buddy reads are exactly the list members.   *)
THEOREM FlagsCorrect == Spec => []FlagsMatchLists
<1>1. BuddyInv => FlagsMatchLists
  BY DEF BuddyInv
<1> QED BY <1>1, BuddyInvariant, PTL

(* CMX_cntr separates free pages from held ones: a page somebody holds is   *)
(* never on a list, so it is not handed out again.                          *)
THEOREM CountersCorrect == Spec => []CountersAgree
<1>1. BuddyInv => CountersAgree
  BY DEF BuddyInv
<1> QED BY <1>1, BuddyInvariant, PTL

-----------------------------------------------------------------------------
(* Merging.  Every block starts at a multiple of its size, and no list below *)
(* the top holds both halves of a larger block.                            *)
Aligned ==
  /\ \A o \in Orders : \A p \in free_list[o] : p % Pow2[o] = 0
  /\ cur.op # "idle" => cur.page % Pow2[cur.order] = 0

Merged ==
  \A o \in Orders : o < Top => \A p \in free_list[o] : BuddyOf(p, o) \notin free_list[o]

MergeInv == BuddyInv /\ Aligned /\ Merged

(* A multiple of n, and what the division gives back.                       *)
LEMMA Multiple ==
  ASSUME NEW n \in Nat, n >= 1, NEW p \in Nat
  PROVE  p % n = 0 <=> \E k \in Nat : p = k * n
<1>1. p % n \in 0 .. n - 1 /\ p \div n \in Nat /\ p = ((p \div n) * n) + (p % n)
  OBVIOUS
<1>2. ASSUME NEW k \in Nat, p = k * n PROVE p % n = 0
  <2>1. (k - (p \div n)) * n = p % n
    BY <1>1, <1>2
  <2>2. k - (p \div n) = 0
    BY <1>1, <2>1
  <2> QED BY <1>1, <2>1, <2>2
<1>3. ASSUME p % n = 0 PROVE \E k \in Nat : p = k * n
  <2>1. p = (p \div n) * n
    BY <1>1, <1>3
  <2> QED BY <1>1, <2>1
<1> QED BY <1>2, <1>3

LEMMA DivMultiple == ASSUME NEW n \in Nat, n >= 1, NEW k \in Nat PROVE (k * n) \div n = k
OBVIOUS

(* Two aligned blocks of one size that meet are the same block.             *)
LEMMA OneBlock ==
  ASSUME NEW n \in Nat, n >= 1, NEW p \in Nat, NEW r \in Nat, p % n = 0, r % n = 0,
         r < p + n, p < r + n
  PROVE  p = r
<1>1. PICK k \in Nat : p = k * n
  BY Multiple
<1>2. PICK j \in Nat : r = j * n
  BY Multiple
<1>3. j * n < (k + 1) * n /\ k * n < (j + 1) * n
  BY <1>1, <1>2
<1>4. j < k + 1 /\ k < j + 1
  BY <1>3
<1> QED BY <1>1, <1>2, <1>4

(* The two halves of a block are aligned and each other's buddies.          *)
LEMMA Halves ==
  ASSUME NEW o \in Orders, o > 0, NEW p \in Nat, p % Pow2[o] = 0
  PROVE  LET n == Pow2[o - 1] IN
         /\ p % n = 0 /\ (p + n) % n = 0 /\ Pow2[o] = 2 * n
         /\ BuddyOf(p, o - 1) = p + n /\ BuddyOf(p + n, o - 1) = p
<1> DEFINE n == Pow2[o - 1]
<1>1. o - 1 \in Orders /\ Pow2[o] = 2 * n /\ n \in Nat /\ n >= 1
  BY Sizes
<1> HIDE DEF n
<1>2. PICK j \in Nat : p = j * (2 * n)
  <2>1. 2 * n \in Nat /\ 2 * n >= 1 /\ p % (2 * n) = 0
    BY <1>1
  <2> QED BY <2>1, Multiple
<1>3. p = (2 * j) * n /\ p + n = (2 * j + 1) * n /\ p + n \in Nat
  BY <1>1, <1>2
<1>4. p % n = 0 /\ (p + n) % n = 0
  BY <1>1, <1>3, Multiple
<1>5. p \div n = 2 * j /\ (p + n) \div n = 2 * j + 1
  BY <1>1, <1>3, DivMultiple
<1>6. ~UpperHalf(p, o - 1) /\ UpperHalf(p + n, o - 1)
  BY <1>5 DEF UpperHalf, n
<1>7. BuddyOf(p, o - 1) = p + n /\ BuddyOf(p + n, o - 1) = p
  BY <1>1, <1>6 DEF BuddyOf, n
<1> QED BY <1>1, <1>4, <1>7 DEF n

(* What the coalescing loop relies on: the merged block is aligned, and the *)
(* buddy of the buddy is the block itself.                                  *)
LEMMA Whole ==
  ASSUME NEW o \in Orders, o < Top, NEW p \in Nat, p % Pow2[o] = 0
  PROVE  /\ Combined(p, o) \in Nat /\ Combined(p, o) % Pow2[o + 1] = 0
         /\ BuddyOf(p, o) \in Nat /\ BuddyOf(BuddyOf(p, o), o) = p
<1> DEFINE n == Pow2[o]
<1>1. o + 1 \in Orders /\ Pow2[o + 1] = 2 * n /\ n \in Nat /\ n >= 1 /\ o \in Nat
  BY Sizes
<1> HIDE DEF n
<1>2. PICK k \in Nat : p = k * n
  BY <1>1, Multiple DEF n
<1>3. p \div n = k
  BY <1>1, <1>2, DivMultiple
<1>4. (o + 1) - 1 = o /\ o + 1 > 0
  BY <1>1
<1>5. CASE k % 2 = 1
  <2>1. PICK j \in Nat : k = 2 * j + 1
    BY <1>5
  <2>2. UpperHalf(p, o) /\ BuddyOf(p, o) = p - n /\ Combined(p, o) = p - n
    BY <1>3, <1>5 DEF UpperHalf, BuddyOf, Combined, n
  <2>3. p - n = j * (2 * n) /\ p - n \in Nat
    BY <1>1, <1>2, <2>1
  <2>4. (p - n) % Pow2[o + 1] = 0
    BY <1>1, <2>3, Multiple
  <2>5. BuddyOf(p - n, o) = (p - n) + n
    BY <1>1, <1>4, <2>3, <2>4, Halves DEF n
  <2> QED BY <1>1, <2>2, <2>3, <2>4, <2>5
<1>6. CASE k % 2 = 0
  <2>1. PICK j \in Nat : k = 2 * j
    BY <1>6
  <2>2. ~UpperHalf(p, o) /\ BuddyOf(p, o) = p + n /\ Combined(p, o) = p
    BY <1>3, <1>6 DEF UpperHalf, BuddyOf, Combined, n
  <2>3. p = j * (2 * n)
    BY <1>1, <1>2, <2>1
  <2>4. p % Pow2[o + 1] = 0
    BY <1>1, <2>3, Multiple
  <2>5. BuddyOf(p + n, o) = p
    BY <1>1, <1>4, <2>4, Halves DEF n
  <2> QED BY <1>1, <2>2, <2>4, <2>5
<1> QED BY <1>5, <1>6

LEMMA InitMerge == Init => Aligned /\ Merged
BY DEF Init, Aligned, Merged, Idle

LEMMA TakeMerge ==
  ASSUME MergeInv, NEW order \in Orders, RmqueueTake(order)
  PROVE  Aligned' /\ Merged'
<1>1. PICK o \in order .. Top : \E page \in free_list[o] :
        /\ free_list' = [free_list EXCEPT ![o] = @ \ {page}]
        /\ cur' = [op |-> "expand", page |-> page, low |-> order, order |-> o]
  BY Zenon DEF RmqueueTake
<1>2. PICK page \in free_list[o] :
        /\ free_list' = [free_list EXCEPT ![o] = @ \ {page}]
        /\ cur' = [op |-> "expand", page |-> page, low |-> order, order |-> o]
  BY <1>1, Zenon
<1>3. o \in Orders
  BY BuddyConstants DEF Orders, Top
<1>4. \A k \in Orders : free_list'[k] \subseteq free_list[k]
  BY <1>2, <1>3 DEF MergeInv, BuddyInv, TypeOK
<1>5. cur'.page = page /\ cur'.order = o
  BY <1>2
<1> QED BY <1>2, <1>3, <1>4, <1>5 DEF MergeInv, Aligned, Merged, BuddyOf, UpperHalf

LEMMA ExpandMerge == ASSUME MergeInv, Expand PROVE Aligned' /\ Merged'
<1> DEFINE high == cur.order - 1
           half == cur.page + Pow2[high]
<1>1. /\ cur.op = "expand" /\ cur.order > cur.low
      /\ free_list' = [free_list EXCEPT ![high] = @ \union {half}]
      /\ cur'       = [cur EXCEPT !.order = high]
  BY DEF Expand
<1>2. /\ cur.page \in Nat /\ cur.order \in Orders /\ cur.low \in Nat /\ cur.order > 0
      /\ high \in Orders /\ cur.page % Pow2[cur.order] = 0
      /\ Pow2[high] \in Nat /\ Pow2[high] >= 1
  BY <1>1, Sizes DEF MergeInv, BuddyInv, TypeOK, Aligned
<1>3. /\ cur.page % Pow2[high] = 0 /\ half % Pow2[high] = 0
      /\ BuddyOf(half, high) = cur.page /\ BuddyOf(cur.page, high) = half
  BY <1>2, Halves
<1>4. \A k \in Orders : \A p \in free_list'[k] : p \in free_list[k] \/ (p = half /\ k = high)
  BY <1>1 DEF MergeInv, BuddyInv, TypeOK
<1>5. cur'.page = cur.page /\ cur'.order = high
  BY <1>1, <1>2 DEF MergeInv, BuddyInv, TypeOK
<1>6. cur.page \notin free_list'[high]
  <2>1. cur.page \notin free_list[high]
    BY <1>1, <1>2, Sizes DEF MergeInv, BuddyInv, DisjointBlocks, Apart
  <2> QED BY <1>2, <1>4, <2>1
<1>7. Aligned'
  BY <1>3, <1>4, <1>5 DEF MergeInv, Aligned
<1>8. Merged'
  <2> SUFFICES ASSUME NEW k \in Orders, k < Top, NEW p \in free_list'[k],
                      BuddyOf(p, k) \in free_list'[k]
               PROVE  FALSE
    BY DEF Merged, BuddyOf, UpperHalf
  <2>1. CASE p = half /\ k = high
    BY <1>3, <1>6, <2>1
  <2>2. CASE p \in free_list[k]
    <3>1. BuddyOf(p, k) \notin free_list[k]
      BY <2>2 DEF MergeInv, Merged
    <3>2. k = high /\ BuddyOf(p, k) = half
      BY <1>4, <3>1
    <3>3. p \in Nat /\ p % Pow2[k] = 0
      BY <2>2, Sizes DEF MergeInv, BuddyInv, TypeOK, Aligned
    <3>4. BuddyOf(BuddyOf(p, k), k) = p
      BY <3>3, Whole
    <3> QED BY <1>3, <1>6, <3>2, <3>4
  <2> QED BY <1>4, <2>1, <2>2
<1> QED BY <1>7, <1>8

LEMMA FreeCallMerge ==
  ASSUME MergeInv, NEW p \in Pages, NEW o \in Orders, p % Pow2[o] = 0, FreeCall(p, o)
  PROVE  Aligned' /\ Merged'
<1>1. /\ free_list' = free_list
      /\ cur'.op # "idle" => cur'.page = p /\ cur'.order = o
  BY DEF FreeCall, Idle
<1> QED BY <1>1 DEF MergeInv, Aligned, Merged, BuddyOf, UpperHalf

LEMMA CoalesceMerge == ASSUME MergeInv, Coalesce PROVE Aligned' /\ Merged'
<1>1. /\ cur.op = "merge" /\ cur.order < Top
      /\ free_list' = [free_list EXCEPT ![cur.order] = @ \ {BuddyOf(cur.page, cur.order)}]
      /\ cur' = [cur EXCEPT !.page = Combined(cur.page, cur.order), !.order = cur.order + 1]
  BY DEF Coalesce, Mergeable
<1>2. cur.page \in Nat /\ cur.order \in Orders /\ cur.page % Pow2[cur.order] = 0
  BY <1>1, Sizes DEF MergeInv, BuddyInv, TypeOK, Aligned
<1>3. \A k \in Orders : free_list'[k] \subseteq free_list[k]
  BY <1>1 DEF MergeInv, BuddyInv, TypeOK
<1>4. cur'.page = Combined(cur.page, cur.order) /\ cur'.order = cur.order + 1
  BY <1>1 DEF MergeInv, BuddyInv, TypeOK
<1>5. cur'.page % Pow2[cur'.order] = 0
  BY <1>1, <1>2, <1>4, Whole
<1> QED BY <1>3, <1>5 DEF MergeInv, Aligned, Merged, BuddyOf, UpperHalf

LEMMA FreeReturnMerge == ASSUME MergeInv, FreeReturn PROVE Aligned' /\ Merged'
<1> DEFINE o    == cur.order
           page == cur.page
<1>1. /\ cur.op = "merge" /\ ~Mergeable
      /\ free_list' = [free_list EXCEPT ![o] = @ \union {page}]
      /\ cur' = Idle
  BY DEF FreeReturn
<1>2. page \in Nat /\ o \in Orders /\ page % Pow2[o] = 0 /\ Pow2[o] \in Nat /\ Pow2[o] >= 1
  BY <1>1, Sizes DEF MergeInv, BuddyInv, TypeOK, Aligned
<1>3. \A k \in Orders : \A p \in free_list'[k] : p \in free_list[k] \/ (p = page /\ k = o)
  BY <1>1 DEF MergeInv, BuddyInv, TypeOK
<1>4. o < Top => BuddyOf(page, o) \notin free_list[o]
  BY <1>1, <1>2 DEF Mergeable, IsBuddy, MergeInv, BuddyInv, TypeOK, FlagsMatchLists
<1>5. BuddyOf(page, o) # page
  BY <1>2 DEF BuddyOf
<1>6. Aligned'
  BY <1>1, <1>2, <1>3 DEF MergeInv, Aligned, Idle
<1>7. Merged'
  <2> SUFFICES ASSUME NEW k \in Orders, k < Top, NEW p \in free_list'[k],
                      BuddyOf(p, k) \in free_list'[k]
               PROVE  FALSE
    BY DEF Merged, BuddyOf, UpperHalf
  <2>1. CASE p = page /\ k = o
    BY <1>3, <1>4, <1>5, <2>1
  <2>2. CASE p \in free_list[k]
    <3>1. BuddyOf(p, k) \notin free_list[k]
      BY <2>2 DEF MergeInv, Merged
    <3>2. k = o /\ BuddyOf(p, k) = page
      BY <1>3, <3>1
    <3>3. p \in Nat /\ p % Pow2[k] = 0
      BY <2>2, Sizes DEF MergeInv, BuddyInv, TypeOK, Aligned
    <3>4. BuddyOf(BuddyOf(p, k), k) = p
      BY <3>3, Whole
    <3> QED BY <1>4, <2>2, <3>2, <3>4
  <2> QED BY <1>3, <2>1, <2>2
<1> QED BY <1>6, <1>7

LEMMA NextMerge == MergeInv /\ [Next]_vars => Aligned' /\ Merged'
<1> SUFFICES ASSUME MergeInv, [Next]_vars PROVE Aligned' /\ Merged'
  OBVIOUS
<1>1. boot.i \in Pages /\ boot.i \in Nat /\ boot.i % Pow2[0] = 0 /\ 0 \in Orders
  BY Sizes DEF MergeInv, BuddyInv, TypeOK
<1>2. ASSUME free_list' = free_list, cur' = cur \/ cur' = Idle PROVE Aligned' /\ Merged'
  BY <1>2 DEF MergeInv, Aligned, Merged, Idle, BuddyOf, UpperHalf
<1>3. CASE BootFill
  BY <1>1, <1>3, FreeCallMerge DEF BootFill
<1>4. CASE BootDrain
  BY <1>1, <1>4, TakeMerge DEF BootDrain
<1>5. CASE BootDrained
  BY <1>2, <1>5 DEF BootDrained
<1>6. CASE BootStock
  BY <1>1, <1>2, <1>6, FreeCallMerge DEF BootStock
<1>7. ASSUME NEW order \in Orders, Rmqueue(order) PROVE Aligned' /\ Merged'
  BY <1>7, TakeMerge DEF Rmqueue
<1>8. ASSUME NEW b \in Blocks, FreePage(b[1], b[2]) PROVE Aligned' /\ Merged'
  <2>1. b[1] \in Pages /\ b[2] \in Orders /\ b[1] % Pow2[b[2]] = 0
    BY DEF Blocks
  <2> QED BY <1>8, <2>1, FreeCallMerge DEF FreePage
<1>9. CASE RmqueueReturn
  BY <1>2, <1>9 DEF RmqueueReturn
<1>10. CASE UNCHANGED vars
  BY <1>2, <1>10 DEF vars
<1> QED BY <1>3, <1>4, <1>5, <1>6, <1>7, <1>8, <1>9, <1>10, ExpandMerge, CoalesceMerge,
           FreeReturnMerge DEF Next, BootSteps

(* The alignment and the merging of the free lists are inductive.           *)
THEOREM MergeInvariant == Spec => []MergeInv
<1>1. Init => MergeInv
  BY InitInv, InitMerge DEF MergeInv
<1>2. MergeInv /\ [Next]_vars => MergeInv'
  BY NextInv, NextMerge DEF MergeInv
<1> QED BY <1>1, <1>2, PTL DEF Spec

-----------------------------------------------------------------------------
(* No fragmentation.                                                       *)

(* A set of numbers has a least one.                                        *)
LEMMA NatMin ==
  ASSUME NEW T \in SUBSET Nat, T # {}
  PROVE  \E m \in T : \A k \in T : m <= k
<1> DEFINE R == OpToRel(<, Nat)
<1>1. IsWellFoundedOn(R, Nat)
  BY NatLessThanWellFounded
<1>2. \A k, m \in Nat : k < m => <<k, m>> \in R
  BY DEF OpToRel
<1> HIDE DEF R
<1>3. PICK m \in T : \A k \in T : ~(<<k, m>> \in R)
  BY <1>1, WFMin
<1>4. ASSUME NEW k \in T PROVE m <= k
  <2>1. k \in Nat /\ m \in Nat
    OBVIOUS
  <2>2. ~(k < m)
    BY <1>2, <1>3, <2>1
  <2> QED BY <2>1, <2>2
<1> QED BY <1>4

(* The pages of an aligned block of order o are listed, all of them in      *)
(* blocks smaller than it.                                                  *)
InPieces(p, o) ==
  \A q \in Block(p, o) :
    /\ \E k \in Orders : \E r \in free_list[k] : q \in Block(r, k)
    /\ \A k \in Orders : \A r \in free_list[k] : q \in Block(r, k) => k < o

(* A block that is listed in pieces has a half that is: if neither were,    *)
(* each half would hold a page of a listed block of its own size, which is  *)
(* that half, and the two halves would be unmerged buddies.                 *)
LEMMA HalfInPieces ==
  ASSUME MergeInv, NEW o \in Orders, NEW p \in Nat, p % Pow2[o] = 0, InPieces(p, o)
  PROVE  /\ o > 0
         /\ LET n == Pow2[o - 1] IN InPieces(p, o - 1) \/ InPieces(p + n, o - 1)
<1>1. o \in Nat /\ Pow2[o] \in Nat /\ Pow2[o] >= 1
  BY Sizes
<1>2. o > 0
  <2>1. p \in Block(p, o)
    BY <1>1 DEF Block
  <2>2. PICK k \in Orders : k < o
    BY <2>1 DEF InPieces
  <2> QED BY <1>1, <2>2, Sizes
<1> DEFINE n == Pow2[o - 1]
<1>3. /\ p % n = 0 /\ (p + n) % n = 0 /\ Pow2[o] = 2 * n
      /\ BuddyOf(p, o - 1) = p + n
  BY <1>2, Halves
<1>4. o - 1 \in Orders /\ o - 1 \in Nat /\ n \in Nat /\ n >= 1 /\ o - 1 < Top /\ p + n \in Nat
  BY <1>1, <1>2, Sizes DEF Orders, Top
<1>5. ASSUME NEW h \in Nat, h % n = 0, h = p \/ h = p + n, ~InPieces(h, o - 1)
      PROVE  h \in free_list[o - 1]
  <2>0. Block(h, o - 1) = h .. (h + n - 1) /\ Block(p, o) = p .. (p + Pow2[o] - 1)
    BY DEF Block
  <2>1. Block(h, o - 1) \subseteq Block(p, o)
    <3>1. Pow2[o] = 2 * n /\ n \in Nat /\ (h = p \/ h = p + n)
      BY <1>3, <1>4, <1>5
    <3> HIDE DEF n
    <3> QED BY <2>0, <3>1
  <2>2. PICK q \in Block(h, o - 1) :
          ~(/\ \E k \in Orders : \E r \in free_list[k] : q \in Block(r, k)
            /\ \A k \in Orders : \A r \in free_list[k] : q \in Block(r, k) => k < o - 1)
    BY <1>5 DEF InPieces
  <2>3. PICK k \in Orders : \E r \in free_list[k] : q \in Block(r, k) /\ k < o /\ ~(k < o - 1)
    BY <2>1, <2>2 DEF InPieces
  <2>4. PICK r \in free_list[k] : q \in Block(r, k)
    BY <2>3
  <2>5. k = o - 1
    BY <1>1, <2>3, Sizes
  <2>6. r \in Nat /\ r % n = 0
    BY <2>4, <2>5, Sizes DEF MergeInv, BuddyInv, TypeOK, Aligned
  <2>7. q \in r .. (r + n - 1) /\ q \in h .. (h + n - 1)
    BY <2>0, <2>4, <2>5 DEF Block
  <2>8. h = r
    BY <1>4, <1>5, <2>6, <2>7, OneBlock
  <2> QED BY <2>4, <2>5, <2>8
<1>6. ~(p \in free_list[o - 1] /\ p + n \in free_list[o - 1])
  BY <1>3, <1>4 DEF MergeInv, Merged
<1>7. InPieces(p, o - 1) \/ InPieces(p + n, o - 1)
  BY <1>3, <1>4, <1>5, <1>6
<1> QED BY <1>2, <1>7

(* So no block is listed in pieces: the smallest one would have a half that *)
(* is.                                                                      *)
LEMMA NoPieces ==
  ASSUME MergeInv, NEW o \in Orders, NEW p \in Nat, p % Pow2[o] = 0
  PROVE  ~InPieces(p, o)
<1> DEFINE T == {k \in Orders : \E r \in Nat : r % Pow2[k] = 0 /\ InPieces(r, k)}
<1> SUFFICES ASSUME InPieces(p, o) PROVE FALSE
  OBVIOUS
<1>1. T \in SUBSET Nat /\ T # {}
  BY Sizes
<1>2. PICK m \in T : \A k \in T : m <= k
  BY <1>1, NatMin
<1>3. PICK r \in Nat : r % Pow2[m] = 0 /\ InPieces(r, m)
  BY <1>2
<1>4. m \in Orders /\ m \in Nat
  BY Sizes
<1> DEFINE n == Pow2[m - 1]
<1>5. m > 0 /\ (InPieces(r, m - 1) \/ InPieces(r + n, m - 1))
  BY <1>3, <1>4, HalfInPieces
<1>6. m - 1 \in Orders /\ r % n = 0 /\ (r + n) % n = 0 /\ r + n \in Nat
  <2>1. m - 1 \in Orders /\ n \in Nat
    BY <1>4, <1>5, Sizes
  <2>2. r % n = 0 /\ (r + n) % n = 0
    BY <1>3, <1>4, <1>5, Halves
  <2> QED BY <2>1, <2>2
<1>7. m - 1 \in T
  BY <1>5, <1>6
<1> QED BY <1>2, <1>4, <1>7

(* A request fails only for want of memory, whatever the history of splits, *)
(* frees and double frees: COMEX_free_page has merged every pair of buddies.*)
THEOREM RequestsServed == Spec => []NoFragmentation
<1>1. MergeInv => NoFragmentation
  <2> SUFFICES ASSUME MergeInv, NEW b \in Blocks, Block(b[1], b[2]) \subseteq ListedPages,
                      NoneFree(b[2])
               PROVE  FALSE
    BY DEF NoFragmentation
  <2>1. b[1] \in Nat /\ b[2] \in Orders /\ b[2] \in Nat /\ b[1] % Pow2[b[2]] = 0
    BY Sizes DEF Blocks, Pages
  <2>2. ASSUME NEW k \in Orders, NEW r \in free_list[k] PROVE k < b[2]
    BY <2>1, <2>2, Sizes DEF NoneFree, Orders, Top
  <2>3. InPieces(b[1], b[2])
    BY <2>2 DEF InPieces, ListedPages
  <2> QED BY <2>1, <2>3, NoPieces
<1> QED BY <1>1, MergeInvariant, PTL

-----------------------------------------------------------------------------
(* The allocator implements PageAllocator.                                 *)

Free == ListedPages \union InFlight

(* A block in the array holds pages only.                                   *)
LEMMA FitPages ==
  ASSUME NEW p \in Pages, NEW o \in Orders, p + Pow2[o] <= total_pages
  PROVE  Block(p, o) \subseteq Pages
BY Sizes, BuddyConstants DEF Block, Pages

(* A page is free exactly when it is in a listed block or in the one in hand.*)
LEMMA FreeIs ==
  ASSUME BuddyInv
  PROVE  \A q : q \in Free <=>
           \/ \E o \in Orders : \E p \in free_list[o] : q \in Block(p, o)
           \/ cur.op # "idle" /\ q \in Block(cur.page, cur.order)
<1>1. ASSUME NEW o \in Orders, NEW p \in free_list[o] PROVE Block(p, o) \subseteq Pages
  BY FitPages DEF BuddyInv, TypeOK, BlocksFit
<1>2. ASSUME cur.op # "idle" PROVE Block(cur.page, cur.order) \subseteq Pages
  BY <1>2, FitPages DEF BuddyInv, TypeOK, BlocksFit
<1> QED BY <1>1, <1>2 DEF Free, ListedPages, InFlight

LEMMA FreeIsNext ==
  ASSUME BuddyInv'
  PROVE  \A q : q \in Free' <=>
           \/ \E o \in Orders : \E p \in free_list'[o] : q \in Block(p, o)
           \/ cur'.op # "idle" /\ q \in Block(cur'.page, cur'.order)
<1>1. ASSUME NEW o \in Orders, NEW p \in free_list'[o] PROVE Block(p, o) \subseteq Pages
  BY FitPages DEF BuddyInv, TypeOK, BlocksFit
<1>2. ASSUME cur'.op # "idle" PROVE Block(cur'.page, cur'.order) \subseteq Pages
  BY <1>2, FitPages DEF BuddyInv, TypeOK, BlocksFit
<1> QED BY <1>1, <1>2 DEF Free, ListedPages, InFlight

(* Taking a block off its list, splitting, merging and listing leave the    *)
(* set of free pages as it is.                                              *)
LEMMA TakeFree ==
  ASSUME BuddyInv, BuddyInv', cur = Idle, NEW order \in Orders, RmqueueTake(order)
  PROVE  Free' = Free /\ held' = held
<1>1. PICK o \in order .. Top : \E page \in free_list[o] :
        /\ free_list' = [free_list EXCEPT ![o] = @ \ {page}]
        /\ cur' = [op |-> "expand", page |-> page, low |-> order, order |-> o]
  BY Zenon DEF RmqueueTake
<1>2. PICK page \in free_list[o] :
        /\ free_list' = [free_list EXCEPT ![o] = @ \ {page}]
        /\ cur' = [op |-> "expand", page |-> page, low |-> order, order |-> o]
  BY <1>1, Zenon
<1>3. o \in Orders
  BY BuddyConstants DEF Orders, Top
<1>4. \A k \in Orders : free_list'[k] = IF k = o THEN free_list[k] \ {page} ELSE free_list[k]
  BY <1>2, <1>3 DEF BuddyInv, TypeOK
<1>5. cur.op = "idle" /\ cur'.op # "idle" /\ cur'.page = page /\ cur'.order = o
  BY <1>2 DEF Idle
<1>6. \A q : q \in Free' <=> q \in Free
  BY <1>2, <1>3, <1>4, <1>5, FreeIs, FreeIsNext
<1> QED BY <1>6 DEF RmqueueTake

LEMMA ExpandFree ==
  ASSUME BuddyInv, BuddyInv', Expand PROVE Free' = Free /\ held' = held
<1> DEFINE high == cur.order - 1
           half == cur.page + Pow2[high]
<1>1. /\ cur.op = "expand" /\ cur.order > cur.low
      /\ free_list' = [free_list EXCEPT ![high] = @ \union {half}]
      /\ cur'       = [cur EXCEPT !.order = high]
  BY DEF Expand
<1>2. /\ cur.page \in Nat /\ cur.order \in Orders /\ cur.order > 0 /\ high \in Orders
      /\ Pow2[high] \in Nat /\ Pow2[cur.order] = 2 * Pow2[high]
  BY <1>1, Sizes DEF BuddyInv, TypeOK
<1>3. \A k \in Orders : free_list'[k] =
        IF k = high THEN free_list[k] \union {half} ELSE free_list[k]
  BY <1>1, <1>2 DEF BuddyInv, TypeOK
<1>4. cur'.op = cur.op /\ cur.op # "idle" /\ cur'.page = cur.page /\ cur'.order = high
  BY <1>1, <1>2 DEF BuddyInv, TypeOK
<1>5. Block(cur.page, cur.order) = Block(cur.page, high) \union Block(half, high)
  BY <1>2 DEF Block
<1>6. \A q : q \in Free' <=> q \in Free
  <2> HIDE DEF high, half
  <2> QED BY <1>2, <1>3, <1>4, <1>5, FreeIs, FreeIsNext
<1> QED BY <1>6 DEF Expand

LEMMA CoalesceFree ==
  ASSUME BuddyInv, BuddyInv', Coalesce PROVE Free' = Free /\ held' = held
<1> DEFINE o     == cur.order
           buddy == BuddyOf(cur.page, o)
<1>1. /\ cur.op = "merge" /\ o < Top /\ IsBuddy(buddy, o)
      /\ free_list' = [free_list EXCEPT ![o] = @ \ {buddy}]
      /\ cur' = [cur EXCEPT !.page = Combined(cur.page, o), !.order = o + 1]
  BY DEF Coalesce, Mergeable
<1>2. /\ cur.page \in Nat /\ o \in Orders /\ o + 1 \in Orders
      /\ Pow2[o] \in Nat /\ Pow2[o + 1] = 2 * Pow2[o]
  BY <1>1, Sizes DEF BuddyInv, TypeOK
<1>3. buddy \in free_list[o] /\ buddy \in Nat
  BY <1>1, <1>2 DEF IsBuddy, BuddyInv, FlagsMatchLists, Pages
<1>4. \A k \in Orders : free_list'[k] = IF k = o THEN free_list[k] \ {buddy} ELSE free_list[k]
  BY <1>1, <1>2 DEF BuddyInv, TypeOK
<1>5. /\ cur'.op = cur.op /\ cur.op # "idle"
      /\ cur'.page = Combined(cur.page, o) /\ cur'.order = o + 1
  BY <1>1 DEF BuddyInv, TypeOK
<1>6. Block(cur'.page, o + 1) = Block(cur.page, o) \union Block(buddy, o)
  BY <1>2, <1>3, <1>5, BuddyCases DEF Block
<1>7. \A q : q \in Free' <=> q \in Free
  <2> HIDE DEF o, buddy
  <2> QED BY <1>2, <1>3, <1>4, <1>5, <1>6, FreeIs, FreeIsNext DEF o
<1> QED BY <1>7 DEF Coalesce

LEMMA FreeReturnFree ==
  ASSUME BuddyInv, BuddyInv', FreeReturn PROVE Free' = Free /\ held' = held
<1>1. /\ cur.op = "merge" /\ cur' = Idle
      /\ free_list' = [free_list EXCEPT ![cur.order] = @ \union {cur.page}]
  BY DEF FreeReturn
<1>2. cur.order \in Orders /\ cur'.op = "idle" /\ cur.op # "idle"
  BY <1>1 DEF BuddyInv, TypeOK, Idle
<1>3. \A k \in Orders : free_list'[k] =
        IF k = cur.order THEN free_list[k] \union {cur.page} ELSE free_list[k]
  BY <1>1, <1>2 DEF BuddyInv, TypeOK
<1>4. \A q : q \in Free' <=> q \in Free
  BY <1>2, <1>3, FreeIs, FreeIsNext
<1> QED BY <1>4 DEF FreeReturn

(* The end of COMEX_rmqueue_smallest takes the block in hand, which lies     *)
(* apart from the lists, from the free pages.                               *)
LEMMA ReturnFree ==
  ASSUME BuddyInv, BuddyInv', RmqueueReturn
  PROVE  LET S == Block(cur.page, cur.order) IN
           S \subseteq Free /\ Free' = Free \ S /\ S \cap held = {}
<1> DEFINE S == Block(cur.page, cur.order)
<1>1. /\ cur.op = "expand" /\ cur.order = cur.low /\ cur' = Idle /\ free_list' = free_list
      /\ held' = held \union S \/ held' = held
  BY DEF RmqueueReturn
<1>2. cur.page \in Nat /\ cur.order \in Orders
  BY Sizes DEF BuddyInv, TypeOK
<1>3. cur.op # "idle" /\ cur'.op = "idle"
  BY <1>1 DEF Idle
<1>4. ASSUME NEW o \in Orders, NEW p \in free_list[o] PROVE Block(p, o) \cap S = {}
  <2>1. Apart(cur.page, cur.order, p, o)
    BY <1>3 DEF BuddyInv, DisjointBlocks
  <2>2. p \in Nat /\ Pow2[o] \in Nat /\ Pow2[cur.order] \in Nat
    BY <1>2, Sizes DEF BuddyInv, TypeOK, Pages
  <2> QED BY <1>2, <2>1, <2>2 DEF Apart, Block
<1>5. S \subseteq Free
  BY <1>3, FreeIs
<1>6. \A q : q \in Free' <=> q \in Free /\ q \notin S
  <2> HIDE DEF S
  <2>1. \A q : q \in Free <=>
           \/ \E o \in Orders : \E p \in free_list[o] : q \in Block(p, o)
           \/ q \in S
    BY <1>3, FreeIs DEF S
  <2>2. \A q : q \in Free' <=> \E o \in Orders : \E p \in free_list[o] : q \in Block(p, o)
    BY <1>1, <1>3, FreeIsNext
  <2> QED BY <1>4, <2>1, <2>2
<1>7. S \cap held = {}
  BY <1>3 DEF BuddyInv, CountersAgree
<1>8. Free' = Free \ S
  <2> HIDE DEF S
  <2> QED BY <1>6
<1> QED BY <1>5, <1>7, <1>8

(* It grants the block or loses it.                                         *)
LEMMA ReturnAbs ==
  ASSUME MergeInv, BuddyInv', RmqueueReturn
  PROVE  \E b \in Blocks : LET S == Block(b[1], b[2]) IN
           /\ S \subseteq Free /\ Free' = Free \ S
           /\ (S \cap held = {} /\ held' = held \union S) \/ held' = held
<1> DEFINE b == <<cur.page, cur.order>>
<1>1. cur.op # "idle" /\ cur.order = cur.low
  BY DEF RmqueueReturn
<1>2. b \in Blocks
  BY <1>1 DEF MergeInv, BuddyInv, TypeOK, Aligned, Blocks
<1>3. held' = held \union Block(b[1], b[2]) \/ held' = held
  BY <1>1 DEF RmqueueReturn
<1>4. BuddyInv
  BY DEF MergeInv
<1>5. Block(b[1], b[2]) = Block(cur.page, cur.order)
  OBVIOUS
<1> QED BY <1>2, <1>3, <1>4, <1>5, ReturnFree

(* COMEX_free_page frees a block none of whose pages was free, or leaves    *)
(* the free pages as they are.                                              *)
LEMMA FreeCallAbs ==
  ASSUME BuddyInv, BuddyInv', cur = Idle, NEW p \in Pages, NEW o \in Orders, FreeCall(p, o)
  PROVE  LET S == Block(p, o) IN
           /\ held' = held \ S
           /\ (S \cap Free = {} /\ Free' = Free \union S) \/ Free' = Free
<1> DEFINE S == Block(p, o)
<1>1. /\ free_list' = free_list /\ held' = held \ S
      /\ cur.op = "idle"
      /\ cur' = IF CtrOk(p, o, -1)
                THEN [op |-> "merge", page |-> p, low |-> 0, order |-> o] ELSE Idle
  BY DEF FreeCall, Idle
<1>2. CASE CtrOk(p, o, -1)
  <2>1. cur'.op # "idle" /\ cur'.page = p /\ cur'.order = o
    BY <1>1, <1>2
  <2>2. \A q \in S : cntr[q] + (-1) = 0
    BY <1>2 DEF CtrOk, Expected
  <2>3. \A q \in S : q \notin Free
    <3> SUFFICES ASSUME NEW q \in S, q \in Free PROVE FALSE
      OBVIOUS
    <3>1. PICK k \in Orders : \E r \in free_list[k] : q \in Block(r, k)
      BY <1>1, FreeIs
    <3>2. cntr[q] <= 0
      BY <3>1 DEF BuddyInv, CountersAgree
    <3>3. q \in Pages
      BY DEF Free, ListedPages, InFlight, Idle
    <3>4. cntr[q] \in Int
      BY <3>3 DEF BuddyInv, TypeOK
    <3> QED BY <2>2, <3>2, <3>4
  <2>4. \A q : q \in Free' <=> q \in Free \/ q \in S
    <3> HIDE DEF S
    <3> QED BY <1>1, <2>1, FreeIs, FreeIsNext DEF S
  <2>5. S \cap Free = {} /\ Free' = Free \union S
    BY <2>3, <2>4
  <2> QED BY <1>1, <2>5
<1>3. CASE ~CtrOk(p, o, -1)
  <2>1. cur'.op = "idle"
    BY <1>1, <1>3 DEF Idle
  <2>2. \A q : q \in Free' <=> q \in Free
    BY <1>1, <2>1, FreeIs, FreeIsNext
  <2> QED BY <1>1, <2>2
<1> QED BY <1>2, <1>3

(* A step of the allocator is a step of PageAllocator, or changes neither    *)
(* the free pages nor the held ones.                                        *)
LEMMA StepAbs ==
  ASSUME MergeInv, BuddyInv', [Next]_vars
  PROVE  [Abs!Next]_<<ListedPages \union InFlight, held>>
<1>0. BuddyInv
  BY DEF MergeInv
<1>1. boot.i \in Pages /\ boot.i % Pow2[0] = 0 /\ 0 \in Orders
  BY <1>0, Sizes DEF BuddyInv, TypeOK
<1>2. ASSUME Free' = Free, held' = held
      PROVE  [Abs!Next]_<<ListedPages \union InFlight, held>>
  BY <1>2 DEF Free
<1>3. ASSUME free_list' = free_list, cur' = cur PROVE Free' = Free
  BY <1>3 DEF Free, ListedPages, InFlight
<1>4. ASSUME NEW p \in Pages, NEW o \in Orders, p % Pow2[o] = 0, cur = Idle, FreeCall(p, o)
      PROVE  Abs!Next
  <2> DEFINE S == Block(p, o)
             b == <<p, o>>
  <2>1. b \in Blocks /\ S = Block(b[1], b[2])
    BY <1>4 DEF Blocks
  <2>2. S \in {Block(c[1], c[2]) : c \in Blocks}
    BY <2>1
  <2>3. /\ held' = held \ S
        /\ (S \cap Free = {} /\ Free' = Free \union S) \/ Free' = Free
    BY <1>0, <1>4, FreeCallAbs
  <2>4. Abs!Return(S) \/ Abs!Reject(S)
    BY <2>3 DEF Free, Abs!Return, Abs!Reject
  <2> QED BY <2>2, <2>4 DEF Abs!Next
<1>5. CASE BootFill
  BY <1>1, <1>4, <1>5 DEF BootFill
<1>6. CASE BootDrain
  BY <1>0, <1>1, <1>2, <1>6, TakeFree DEF BootDrain
<1>7. CASE BootDrained
  BY <1>2, <1>3, <1>7 DEF BootDrained
<1>8. CASE BootStock
  BY <1>1, <1>2, <1>3, <1>4, <1>8 DEF BootStock
<1>9. ASSUME NEW order \in Orders, Rmqueue(order)
      PROVE  [Abs!Next]_<<ListedPages \union InFlight, held>>
  BY <1>0, <1>2, <1>9, TakeFree DEF Rmqueue
<1>10. ASSUME NEW b \in Blocks, FreePage(b[1], b[2]) PROVE Abs!Next
  <2>1. b[1] \in Pages /\ b[2] \in Orders /\ b[1] % Pow2[b[2]] = 0
    BY DEF Blocks
  <2> QED BY <1>4, <1>10, <2>1 DEF FreePage
<1>11. CASE RmqueueReturn
  <2>1. PICK b \in Blocks : LET S == Block(b[1], b[2]) IN
           /\ S \subseteq Free /\ Free' = Free \ S
           /\ (S \cap held = {} /\ held' = held \union S) \/ held' = held
    BY <1>11, ReturnAbs
  <2> DEFINE S == Block(b[1], b[2])
  <2>2. S \in {Block(c[1], c[2]) : c \in Blocks}
    OBVIOUS
  <2>3. Abs!Grant(S) \/ Abs!Lose(S)
    BY <2>1 DEF Free, Abs!Grant, Abs!Lose
  <2> QED BY <2>2, <2>3 DEF Abs!Next
<1>12. CASE UNCHANGED vars
  BY <1>2, <1>3, <1>12 DEF vars
<1> QED BY <1>0, <1>2, <1>5, <1>6, <1>7, <1>8, <1>9, <1>10, <1>11, <1>12, ExpandFree,
           CoalesceFree, FreeReturnFree DEF Next, BootSteps

(* The lists, flags and counters do what PageAllocator promises: a page is  *)
(* granted only while it is free, to one caller, and becomes free only when *)
(* it was not.                                                              *)
THEOREM Refines == Spec => AllocatorSpec
<1>1. Init => Abs!Init
  BY DEF Init, Abs!Init, ListedPages, InFlight, Idle
<1>2. MergeInv => BuddyInv
  BY DEF MergeInv
<1>3. MergeInv /\ BuddyInv' /\ [Next]_vars => [Abs!Next]_<<ListedPages \union InFlight, held>>
  BY StepAbs
<1> QED BY <1>1, <1>2, <1>3, MergeInvariant, PTL DEF Spec, AllocatorSpec, Abs!Spec

-----------------------------------------------------------------------------
(* Part 2: the node.                                                       *)

(* A run that was never used or is worked off, or one that lies in the array.*)
RunOk(r) ==
  /\ r \in [pageNO : Int, count : Nat]
  /\ \/ r.pageNO = -1 /\ r.count = 0
     \/ r.pageNO >= 0 /\ r.count >= 1 /\ r.pageNO + r.count <= total_pages

Runs     == {r \in [pageNO : Int, count : Nat] : RunOk(r)}
Messages == [cmd : {"RQST", "FREE"}, runs : [Proto!Index -> Runs]]

(* A request names no page, and the one the work queue is in stays first.   *)
QueueType(q) ==
  q \in Seq(Messages) /\ \A k \in DOMAIN q : q[k].cmd = "RQST" => q[k] = Proto!RQST

NodeType ==
  /\ batch \in [Proto!Index -> Runs]
  /\ QueueType(work)
  /\ reply \in Seq(SUBSET Pages)
  /\ request \in [order : LeastOrder .. COMEX_refill, calling : BOOLEAN]
  /\ mine \subseteq Pages /\ theirs \subseteq Pages /\ lost \subseteq Pages
  /\ request.calling => Requested /\ cur.op = "expand" /\ boot.phase = "ready"

(* The pages that the batch, the messages on their way and the grants name. *)
InBatch == {p \in Pages : \E i \in Proto!Index : p \in Proto!RunPages(batch[i])}
InWork  == {p \in Pages : \E k \in DOMAIN work : \E i \in Proto!Index :
              p \in Proto!RunPages(work[k].runs[i])}
InReply == {p \in Pages : \E k \in DOMAIN reply : p \in reply[k]}

Owned == mine \union theirs \union lost \union InBatch \union InWork \union InReply

(* Of the places that are not the free lists, a page is in one at most.     *)
OneOwner ==
  /\ \A p \in mine : p \notin theirs \union lost \union InBatch \union InWork \union InReply
  /\ \A p \in theirs : p \notin lost \union InBatch \union InWork \union InReply
  /\ \A p \in lost : p \notin InBatch \union InWork \union InReply
  /\ \A p \in InBatch : p \notin InWork \union InReply
  /\ \A p \in InWork : p \notin InReply

BatchedOnce == \A p \in Pages : \A i, j \in Proto!Index :
  p \in Proto!RunPages(batch[i]) /\ p \in Proto!RunPages(batch[j]) => i = j

QueuedOnce == \A p \in Pages : \A k, l \in DOMAIN work : \A i, j \in Proto!Index :
  p \in Proto!RunPages(work[k].runs[i]) /\ p \in Proto!RunPages(work[l].runs[j])
    => k = l /\ i = j

GrantedOnce == \A p \in Pages : \A k, l \in DOMAIN reply :
  p \in reply[k] /\ p \in reply[l] => k = l

(* Without double frees the counter of a page is 0 when the page is free and *)
(* 1 when it is not.                                                        *)
CountersExact == \A p \in Pages : cntr[p] \in {0, 1} /\ (cntr[p] = 0 <=> p \in Free)

(* After start-up a page with memory is free or has an owner, and no other   *)
(* page is either; the start-up frees pages in their order.                 *)
BootOwners ==
  /\ cur.op = "expand" => boot.phase \in {"drain", "ready"}
  /\ boot.phase # "ready" => Owned = {}
  /\ boot.phase = "fill" => \A p \in Pages : p >= boot.i => cntr[p] = 1
  /\ boot.phase = "stock" => \A p \in Pages : cntr[p] = 0 <=> p < boot.i /\ p \in Backed
  /\ boot.phase = "ready" => \A p \in Pages :
       /\ p \in Backed => (cntr[p] = 1 <=> p \in Owned)
       /\ p \notin Backed => cntr[p] = 1 /\ p \notin Owned

NodeInv ==
  MergeInv /\ NodeType /\ OneOwner /\ BatchedOnce /\ QueuedOnce /\ GrantedOnce
  /\ CountersExact /\ BootOwners

-----------------------------------------------------------------------------
(* Cutting a run into blocks.                                              *)

(* A set of numbers up to n has a greatest one.                             *)
LEMMA Greatest ==
  ASSUME NEW n \in Nat, NEW T \in SUBSET (0 .. n), T # {}
  PROVE  \E m \in T : \A k \in T : m >= k
<1> DEFINE U == {n - k : k \in T}
<1>1. U \in SUBSET Nat /\ U # {}
  <2>1. \A k \in T : k \in 0 .. n /\ n - k \in Nat
    OBVIOUS
  <2>2. PICK k \in T : TRUE
    OBVIOUS
  <2>3. n - k \in U
    OBVIOUS
  <2> QED BY <2>1, <2>3
<1>2. PICK u \in U : \A k \in U : u <= k
  <2> HIDE DEF U
  <2> QED BY <1>1, NatMin
<1>3. PICK m \in T : u = n - m
  OBVIOUS
<1>4. ASSUME NEW k \in T PROVE m >= k
  <2>1. n - k \in U
    OBVIOUS
  <2>2. u <= n - k
    BY <1>2, <2>1
  <2> QED BY <1>3, <2>2
<1> QED BY <1>4

(* A block of pages is made of whole blocks of any smaller order.           *)
LEMMA Divides ==
  ASSUME NEW o \in Orders, NEW k \in Orders, o <= k
  PROVE  Pow2[k] % Pow2[o] = 0
<1> DEFINE n == Pow2[o]
           T == {j \in Orders : o <= j /\ Pow2[j] % n # 0}
<1>0. n \in Nat /\ n >= 1
  BY Sizes
<1> HIDE DEF n
<1> SUFFICES ASSUME T # {} PROVE FALSE
  BY DEF n
<1>1. T \in SUBSET Nat
  BY Sizes
<1>2. PICK m \in T : \A j \in T : m <= j
  BY <1>1, NatMin
<1>3. m # o
  BY <1>0 DEF n
<1>4. m - 1 \in Orders /\ Pow2[m] = 2 * Pow2[m - 1] /\ Pow2[m - 1] \in Nat
  <2>1. m > 0 /\ m \in Orders
    BY <1>3, Sizes
  <2> QED BY <2>1, Sizes
<1>5. Pow2[m - 1] % n = 0
  BY <1>2, <1>3, <1>4, Sizes
<1>6. PICK j \in Nat : Pow2[m - 1] = j * n
  BY <1>0, <1>4, <1>5, Multiple
<1>7. Pow2[m] = (2 * j) * n /\ 2 * j \in Nat
  BY <1>0, <1>4, <1>6
<1>8. Pow2[m] % n = 0
  <2>1. Pow2[m] \in Nat
    BY <1>4
  <2> QED BY <1>0, <1>7, <2>1, Multiple
<1> QED BY <1>2, <1>8

(* The low bits of a page number tell whether it is aligned.                *)
LEMMA LowBits ==
  ASSUME NEW p \in Nat, NEW o \in Orders, (p % Pow2[Top]) % Pow2[o] = 0
  PROVE  p % Pow2[o] = 0
<1> DEFINE n == Pow2[o]
           t == Pow2[Top]
<1>1. n \in Nat /\ n >= 1 /\ t \in Nat /\ t >= 1 /\ Top \in Orders /\ o <= Top
  BY Sizes DEF Orders, Top
<1>2. t % n = 0
  BY <1>1, Divides
<1> HIDE DEF n, t
<1>3. PICK j \in Nat : t = j * n
  BY <1>1, <1>2, Multiple
<1>4. p % t \in Nat /\ p \div t \in Nat /\ p = ((p \div t) * t) + (p % t)
  BY <1>1
<1>5. PICK i \in Nat : p % t = i * n
  BY <1>1, <1>4, Multiple DEF n, t
<1>6. p = ((p \div t) * j + i) * n /\ (p \div t) * j + i \in Nat
  BY <1>1, <1>3, <1>4, <1>5
<1>7. p % n = 0
  BY <1>1, <1>6, Multiple
<1> QED BY <1>7 DEF n

(* The block the loop of COMEX_do_work frees next starts at a multiple of   *)
(* its size and lies in the first run that has pages left.                  *)
LEMMA NextBlockFacts ==
  ASSUME NEW runs \in [Proto!Index -> Runs], work # <<>>, Head(work).runs = runs,
         Proto!RunsLeft(runs) # {}
  PROVE  LET i == Proto!Min(Proto!RunsLeft(runs))
             p == Proto!NextBlock.page
             o == Proto!NextBlock.order
         IN  /\ i \in Proto!Index /\ runs[i].count >= 1 /\ p = runs[i].pageNO
             /\ p \in Pages /\ o \in Orders /\ p % Pow2[o] = 0
             /\ Pow2[o] = 2 ^ o /\ Pow2[o] <= runs[i].count
<1> DEFINE L == Proto!RunsLeft(runs)
           i == Proto!Min(L)
           r == runs[i]
           p == r.pageNO
           T == {o \in 0 .. MAX_ORDER - 1 :
                   2 ^ o <= r.count /\ (p % 2 ^ (MAX_ORDER - 1)) % 2 ^ o = 0}
           o == Proto!Max(T)
<1>1. L \in SUBSET Nat /\ L # {} /\ L \subseteq Proto!Index
  BY DEF Proto!RunsLeft, Proto!Index
<1>2. i \in L
  <2>1. \E m \in L : \A k \in L : m <= k
    <3> HIDE DEF L
    <3> QED BY <1>1, NatMin
  <2> HIDE DEF L
  <2> QED BY <2>1 DEF Proto!Min
<1>3. i \in Proto!Index /\ runs[i].count > 0 /\ runs[i] \in Runs
  BY <1>1, <1>2 DEF Proto!RunsLeft
<1>4. p \in Pages /\ r.count \in Nat /\ r.count >= 1
  BY <1>3, BuddyConstants DEF Runs, RunOk, Pages
<1>5. \A k \in Orders : Pow2[k] = 2 ^ k
  BY NodeConstants
<1>6. 0 \in T
  <2>1. 2 ^ 0 = 1 /\ 0 \in 0 .. MAX_ORDER - 1
    BY <1>5, Sizes DEF Orders
  <2>2. 2 ^ (MAX_ORDER - 1) = Pow2[Top] /\ Pow2[Top] \in Nat /\ Pow2[Top] >= 1
    BY <1>5, Sizes DEF Top
  <2>3. (p % 2 ^ (MAX_ORDER - 1)) % 2 ^ 0 = 0
    BY <1>4, <2>1, <2>2, Sizes
  <2> QED BY <1>4, <2>1, <2>3
<1>7. o \in T
  <2>1. MAX_ORDER - 1 \in Nat /\ T \in SUBSET (0 .. MAX_ORDER - 1)
    BY BuddyConstants
  <2>2. \E m \in T : \A k \in T : m >= k
    <3> HIDE DEF T
    <3> QED BY <1>6, <2>1, Greatest
  <2> HIDE DEF T
  <2> QED BY <2>2 DEF Proto!Max
<1>8. o \in Orders /\ Pow2[o] = 2 ^ o /\ Pow2[o] <= r.count
  BY <1>5, <1>7 DEF Orders
<1>9. p % Pow2[o] = 0
  <2>1. (p % Pow2[Top]) % Pow2[o] = 0
    BY <1>5, <1>7, <1>8, Sizes DEF Top
  <2>2. p \in Nat
    BY <1>4, Sizes
  <2> HIDE DEF p, o
  <2> QED BY <1>8, <2>1, <2>2, LowBits
<1>10. Proto!NextBlock = [page |-> p, order |-> o]
  BY DEF Proto!NextBlock, Proto!SplitOrder
<1> QED BY <1>3, <1>4, <1>8, <1>9, <1>10

-----------------------------------------------------------------------------
(* The allocator under callers that free what they hold.                   *)

(* Pages that are all handed out become free, and their counters 0.         *)
LEMMA FreeCallOk ==
  ASSUME BuddyInv, BuddyInv', CountersExact, cur = Idle, NEW p \in Pages, NEW o \in Orders,
         FreeCall(p, o), Block(p, o) \subseteq Pages, \A q \in Block(p, o) : cntr[q] = 1
  PROVE  /\ \A q \in Pages : cntr'[q] = IF q \in Block(p, o) THEN 0 ELSE cntr[q]
         /\ CountersExact'
         /\ cur'.op = "merge"
<1> DEFINE S == Block(p, o)
<1>1. \A q \in S : cntr[q] + (-1) = Expected(-1)
  BY DEF Expected
<1>2. CtrOk(p, o, -1)
  BY <1>1 DEF CtrOk
<1>3. cntr \in [Pages -> Int]
  BY DEF BuddyInv, TypeOK
<1>4. CtrVisited(p, o, -1) = S
  <2>1. \A q \in S : \A r \in p .. (q - 1) : r \in S
    BY Sizes DEF Block, Pages
  <2> QED BY <1>1, <2>1 DEF CtrVisited
<1>5. \A q \in Pages : cntr'[q] = IF q \in S THEN 0 ELSE cntr[q]
  BY <1>3, <1>4 DEF FreeCall, COMEX_checkCtr
<1>6. Free' = Free \union S
  <2>1. cur'.op = "merge" /\ cur'.page = p /\ cur'.order = o
    BY <1>2 DEF FreeCall
  <2>2. p \in S
    BY Sizes DEF Block, Pages
  <2>3. p \in Free'
    BY <2>1, <2>2, FreeIsNext
  <2>4. p \notin Free
    BY <2>2 DEF CountersExact
  <2> QED BY <2>3, <2>4, FreeCallAbs
<1>7. CountersExact'
  <2> HIDE DEF S
  <2> QED BY <1>5, <1>6 DEF CountersExact
<1> QED BY <1>2, <1>5, <1>7 DEF FreeCall

(* The block that is handed out was free, and its counters become 1.        *)
LEMMA ReturnOk ==
  ASSUME BuddyInv, BuddyInv', CountersExact, RmqueueReturn
  PROVE  LET S == Block(cur.page, cur.low) IN
         /\ CtrOk(cur.page, cur.low, 1)
         /\ S \subseteq Pages /\ held' \ held = S
         /\ \A q \in S : cntr[q] = 0
         /\ \A q \in Pages : cntr'[q] = IF q \in S THEN 1 ELSE cntr[q]
         /\ CountersExact'
         /\ boot' = boot
<1> DEFINE S == Block(cur.page, cur.low)
<1>1. cur.order = cur.low /\ cur.page \in Pages /\ cur.low \in Orders
  BY DEF RmqueueReturn, BuddyInv, TypeOK
<1>2. S \subseteq Free /\ Free' = Free \ S /\ S \cap held = {}
  BY <1>1, ReturnFree
<1>3. Free \subseteq Pages
  <2>1. cur.op # "idle" => Block(cur.page, cur.order) \subseteq Pages
    BY <1>1, FitPages DEF BuddyInv, TypeOK, BlocksFit
  <2> QED BY <2>1 DEF Free, ListedPages, InFlight
<1>4. \A q \in S : q \in Pages /\ cntr[q] = 0
  BY <1>2, <1>3 DEF CountersExact
<1>5. \A q \in S : cntr[q] + 1 = Expected(1)
  BY <1>4 DEF Expected
<1>6. CtrOk(cur.page, cur.low, 1)
  BY <1>5 DEF CtrOk
<1>7. cntr \in [Pages -> Int]
  BY DEF BuddyInv, TypeOK
<1>8. CtrVisited(cur.page, cur.low, 1) = S
  <2>1. \A q \in S : \A r \in cur.page .. (q - 1) : r \in S
    BY <1>1, Sizes DEF Block, Pages
  <2> QED BY <1>5, <2>1 DEF CtrVisited
<1>9. \A q \in Pages : cntr'[q] = IF q \in S THEN 1 ELSE cntr[q]
  BY <1>4, <1>7, <1>8 DEF RmqueueReturn, COMEX_checkCtr
<1>10. CountersExact'
  <2> HIDE DEF S
  <2> QED BY <1>2, <1>9 DEF CountersExact
<1>11. held' \ held = S /\ boot' = boot
  BY <1>2, <1>6 DEF RmqueueReturn
<1> QED BY <1>4, <1>6, <1>9, <1>10, <1>11

(* The other steps of a call leave free pages and counters alone.           *)
LEMMA CallOk ==
  ASSUME BuddyInv, BuddyInv', CountersExact,
         (\E o \in Orders : cur = Idle /\ RmqueueTake(o)) \/ Expand \/ Coalesce \/ FreeReturn
  PROVE  cntr' = cntr /\ CountersExact'
<1>1. Free' = Free
  BY TakeFree, ExpandFree, CoalesceFree, FreeReturnFree
<1>2. cntr' = cntr
  BY DEF RmqueueTake, Expand, Coalesce, FreeReturn
<1> QED BY <1>1, <1>2 DEF CountersExact

-----------------------------------------------------------------------------
(* Every step of the node is a step of its allocator.                      *)

LEMMA OwnedOut ==
  ASSUME NodeInv, NEW p \in Owned
  PROVE  p \in Backed /\ cntr[p] = 1 /\ boot.phase = "ready"
<1>1. p \in Pages
  BY DEF Owned, InBatch, InWork, InReply, NodeInv, NodeType
<1> QED BY <1>1 DEF NodeInv, BootOwners

(* What the work queue gives to COMEX_free_page.                            *)
LEMMA FreeWorkFacts ==
  ASSUME NodeInv, FreeWork
  PROVE  LET i == Proto!Min(Proto!RunsLeft(Head(work).runs))
             r == Head(work).runs[i]
             p == Proto!NextBlock.page
             o == Proto!NextBlock.order
         IN  /\ work # <<>> /\ Head(work) = work[1] /\ work[1] \in Messages
             /\ i \in Proto!Index /\ RunOk(r) /\ r.count >= 1
             /\ p = r.pageNO /\ p \in Pages /\ o \in Orders /\ p % Pow2[o] = 0
             /\ Pow2[o] = 2 ^ o /\ Pow2[o] <= r.count
             /\ Block(p, o) \subseteq Pages
             /\ \A q \in Block(p, o) : q \in Proto!RunPages(r) /\ q \in InWork
<1> DEFINE runs == Head(work).runs
           i == Proto!Min(Proto!RunsLeft(runs))
           r == runs[i]
           p == Proto!NextBlock.page
           o == Proto!NextBlock.order
<1>1. work # <<>> /\ Proto!RunsLeft(runs) # {}
  BY DEF FreeWork, Proto!FreeBlock
<1>2. Head(work) = work[1] /\ work[1] \in Messages /\ 1 \in DOMAIN work
  BY <1>1 DEF NodeInv, NodeType, QueueType
<1>3. runs \in [Proto!Index -> Runs]
  BY <1>2 DEF Messages
<1>4. /\ i \in Proto!Index /\ r.count >= 1 /\ p = r.pageNO
      /\ p \in Pages /\ o \in Orders /\ p % Pow2[o] = 0
      /\ Pow2[o] = 2 ^ o /\ Pow2[o] <= r.count
  <2> HIDE DEF runs
  <2> QED BY <1>1, <1>3, NextBlockFacts DEF runs
<1>5. RunOk(r) /\ r.count \in Nat
  BY <1>3, <1>4 DEF Runs, RunOk
<1> HIDE DEF o, p, i
<1>6. \A q \in Block(p, o) : q \in Proto!RunPages(r)
  BY <1>4, <1>5, Sizes DEF Block, Proto!RunPages
<1>7. Block(p, o) \subseteq Pages
  <2> SUFFICES ASSUME NEW q \in Block(p, o) PROVE q \in Pages
    OBVIOUS
  <2>1. q \in Int /\ q >= p /\ p >= 0 /\ p \in Int /\ Pow2[o] \in Nat
    BY <1>4, Sizes DEF Block
  <2>2. q < r.pageNO + r.count
    BY <1>4, <1>5, <1>6, <2>1 DEF Proto!RunPages
  <2>3. r.pageNO + r.count <= total_pages
    BY <1>4, <1>5 DEF RunOk
  <2> HIDE DEF r
  <2> QED BY <1>4, <1>5, <2>1, <2>2, <2>3, BuddyConstants DEF Pages
<1>8. \A q \in Block(p, o) : q \in InWork
  BY <1>2, <1>4, <1>6, <1>7 DEF InWork
<1> QED BY <1>1, <1>2, <1>4, <1>5, <1>6, <1>7, <1>8 DEF o, p, i

LEMMA OwnPage ==
  ASSUME NodeInv, NEW p \in Owned
  PROVE  /\ <<p, 0>> \in Blocks /\ Block(p, 0) = {p}
         /\ Block(p, 0) \subseteq Backed /\ \A q \in Block(p, 0) : cntr[q] > -OverFree
<1>1. p \in Pages /\ p % 1 = 0 /\ Pow2[0] = 1 /\ p \in Nat
  <2>1. p \in Pages
    BY OwnedOut, BuddyConstants
  <2> QED BY <2>1, Sizes
<1>2. Block(p, 0) = {p}
  BY <1>1 DEF Block
<1> QED BY <1>1, <1>2, OwnedOut, Sizes, BuddyConstants DEF Blocks

LEMMA StepUses == ASSUME NodeInv, [NodeNext]_allvars PROVE [Next]_vars
<1>1. CASE Boot \/ InCall \/ LocalReturn \/ RequestReturn
  BY <1>1 DEF Boot, InCall, LocalReturn, RequestReturn, Next
<1>2. CASE RequestCall
  <2>1. request.order \in Orders
    BY NodeConstants, BuddyConstants DEF NodeInv, NodeType, Orders
  <2> QED BY <1>2, <2>1 DEF RequestCall, Next
<1>3. CASE RequestFails \/ FreeDone \/ Ask \/ PageReceive \/ ReplyLost
  BY <1>3 DEF RequestFails, FreeDone, Ask, PageReceive, ReplyLost, vars
<1>4. CASE FreeWork
  <2> DEFINE p == Proto!NextBlock.page
             o == Proto!NextBlock.order
  <2>1. p \in Pages /\ o \in Orders /\ p % Pow2[o] = 0
    BY <1>4, FreeWorkFacts
  <2>2. \A q \in Block(p, o) : q \in Backed /\ cntr[q] = 1
    BY <1>4, FreeWorkFacts, OwnedOut DEF Owned
  <2>3. FreeCall(p, o) /\ UNCHANGED boot /\ boot.phase = "ready" /\ cur = Idle
    BY <1>4 DEF FreeWork
  <2> HIDE DEF p, o
  <2> DEFINE b == <<p, o>>
  <2>4. b \in Blocks /\ b[1] = p /\ b[2] = o
    BY <2>1 DEF Blocks
  <2>5. FreePage(b[1], b[2])
    BY <2>2, <2>3, <2>4, BuddyConstants DEF FreePage
  <2> QED BY <2>4, <2>5 DEF Next
<1>5. CASE LocalAlloc
  BY <1>5, Sizes DEF LocalAlloc, Next
<1>6. CASE \E p \in Pages : GiveBack(p)
  BY <1>6 DEF GiveBack, vars
<1>7. ASSUME NEW p \in Pages, LocalFree(p) PROVE Next
  <2>1. <<p, 0>> \in Blocks
    BY <1>7, OwnPage DEF LocalFree, Owned
  <2>2. FreePage(<<p, 0>>[1], <<p, 0>>[2])
    BY <1>7 DEF LocalFree
  <2> QED BY <2>1, <2>2 DEF Next
<1>8. CASE UNCHANGED allvars
  BY <1>8 DEF allvars, vars
<1> QED BY <1>1, <1>2, <1>3, <1>4, <1>5, <1>6, <1>7, <1>8 DEF NodeNext, Worker

-----------------------------------------------------------------------------
(* The queues.                                                             *)

LEMMA NoPages ==
  /\ Proto!EmptyRun \in Runs /\ Proto!RunPages(Proto!EmptyRun) = {}
  /\ Proto!Clean \in [Proto!Index -> Runs] /\ Proto!RQST \in Messages
<1>1. Proto!EmptyRun \in Runs
  BY DEF Proto!EmptyRun, Runs, RunOk
<1>2. Proto!RunPages(Proto!EmptyRun) = {}
  BY DEF Proto!EmptyRun, Proto!RunPages
<1>3. Proto!Clean \in [Proto!Index -> Runs]
  BY <1>1 DEF Proto!Clean
<1>4. Proto!RQST \in Messages
  BY <1>3 DEF Proto!RQST, Messages
<1> QED BY <1>1, <1>2, <1>3, <1>4

(* A message is added: the queue names its pages too.                       *)
LEMMA MessageSent ==
  ASSUME QueueType(work), QueuedOnce, NEW m \in Messages, work' = Append(work, m),
         m.cmd = "RQST" => m = Proto!RQST,
         NEW N \in SUBSET Pages, N \cap InWork = {},
         \A p \in Pages : p \in N <=> \E i \in Proto!Index : p \in Proto!RunPages(m.runs[i]),
         \A p \in Pages : \A i, j \in Proto!Index :
           p \in Proto!RunPages(m.runs[i]) /\ p \in Proto!RunPages(m.runs[j]) => i = j
  PROVE  QueueType(work)' /\ QueuedOnce' /\ InWork' = InWork \union N
         /\ (Requested => Requested')
<1>0. work \in Seq(Messages)
  BY DEF QueueType
<1>1. work' \in Seq(Messages) /\ Len(work') = Len(work) + 1 /\ Len(work) \in Nat
  BY <1>0
<1>2. PICK n \in Nat : n = Len(work)
  BY <1>1
<1>3. DOMAIN work = 1 .. n /\ DOMAIN work' = 1 .. n + 1
  BY <1>0, <1>1, <1>2
<1>4. \A k \in 1 .. n : work'[k] = work[k]
  BY <1>0, <1>2
<1>5. work'[n + 1] = m
  BY <1>0, <1>2
<1>6. \A k \in 1 .. n + 1 : k \in 1 .. n \/ k = n + 1
  BY <1>2
<1>7. 1 .. n \subseteq 1 .. n + 1 /\ n + 1 \in 1 .. n + 1
  BY <1>2
<1>8. QueueType(work)'
  BY <1>1, <1>3, <1>4, <1>5, <1>6 DEF QueueType
<1>9. InWork' = InWork \union N
  BY <1>3, <1>4, <1>5, <1>6, <1>7 DEF InWork
<1>10. QueuedOnce'
  <2> SUFFICES ASSUME NEW p \in Pages, NEW k \in 1 .. n + 1, NEW l \in 1 .. n + 1,
                      NEW i \in Proto!Index, NEW j \in Proto!Index,
                      p \in Proto!RunPages(work'[k].runs[i]),
                      p \in Proto!RunPages(work'[l].runs[j])
               PROVE  k = l /\ i = j
    BY <1>3 DEF QueuedOnce
  <2>1. CASE k \in 1 .. n /\ l \in 1 .. n
    BY <1>3, <1>4, <2>1 DEF QueuedOnce
  <2>2. CASE k \in 1 .. n /\ l = n + 1
    BY <1>3, <1>4, <1>5, <2>2 DEF InWork
  <2>3. CASE k = n + 1 /\ l \in 1 .. n
    BY <1>3, <1>4, <1>5, <2>3 DEF InWork
  <2>4. CASE k = n + 1 /\ l = n + 1
    BY <1>5, <2>4
  <2> QED BY <1>6, <2>1, <2>2, <2>3, <2>4
<1>11. Requested => Requested'
  BY <1>0 DEF Requested
<1> QED BY <1>8, <1>9, <1>10, <1>11

(* The first message names no page any more and leaves.                     *)
LEMMA MessageDone ==
  ASSUME QueueType(work), QueuedOnce, work # <<>>, work' = Tail(work),
         \A i \in Proto!Index : Proto!RunPages(Head(work).runs[i]) = {}
  PROVE  QueueType(work)' /\ QueuedOnce' /\ InWork' = InWork
<1>0. work \in Seq(Messages) /\ Head(work) = work[1]
  BY DEF QueueType
<1>1. work' \in Seq(Messages) /\ Len(work') = Len(work) - 1 /\ Len(work) \in Nat
      /\ Len(work) >= 1
  BY <1>0
<1>2. PICK n \in Nat : Len(work) = n + 1 /\ Len(work') = n
  <2>1. Len(work) - 1 \in Nat /\ Len(work) = (Len(work) - 1) + 1
    BY <1>1
  <2> QED BY <1>1, <2>1
<1>3. DOMAIN work = 1 .. n + 1 /\ DOMAIN work' = 1 .. n
  <2>1. DOMAIN work = 1 .. Len(work)
    BY <1>0
  <2>2. DOMAIN work' = 1 .. Len(work')
    BY <1>1
  <2> QED BY <1>2, <2>1, <2>2
<1>4. \A k \in 1 .. n : work'[k] = work[k + 1] /\ k + 1 \in 1 .. n + 1
  BY <1>0, <1>2
<1>5. \A k \in 1 .. n + 1 : k = 1 \/ \E l \in 1 .. n : k = l + 1
  <2> SUFFICES ASSUME NEW k \in 1 .. n + 1, k # 1 PROVE \E l \in 1 .. n : k = l + 1
    OBVIOUS
  <2>1. k - 1 \in 1 .. n /\ k = (k - 1) + 1
    BY <1>2
  <2> QED BY <2>1
<1>6. QueueType(work)'
  BY <1>1, <1>3, <1>4 DEF QueueType
<1>7. InWork' = InWork
  <2>1. ASSUME NEW p \in InWork PROVE p \in InWork'
    <3>1. PICK k \in 1 .. n + 1 : \E i \in Proto!Index : p \in Proto!RunPages(work[k].runs[i])
      BY <1>3 DEF InWork
    <3>2. k # 1
      BY <1>0, <3>1
    <3>3. PICK l \in 1 .. n : k = l + 1
      BY <1>5, <3>2
    <3>4. work'[l] = work[k] /\ p \in Pages
      BY <1>4, <3>3 DEF InWork
    <3> QED BY <1>3, <3>1, <3>4 DEF InWork
  <2>2. ASSUME NEW p \in InWork' PROVE p \in InWork
    BY <1>3, <1>4 DEF InWork
  <2> QED BY <2>1, <2>2
<1>8. QueuedOnce'
  <2> SUFFICES ASSUME NEW p \in Pages, NEW k \in 1 .. n, NEW l \in 1 .. n,
                      NEW i \in Proto!Index, NEW j \in Proto!Index,
                      p \in Proto!RunPages(work'[k].runs[i]),
                      p \in Proto!RunPages(work'[l].runs[j])
               PROVE  k = l /\ i = j
    BY <1>3 DEF QueuedOnce
  <2>1. k + 1 = l + 1 /\ i = j
    BY <1>3, <1>4 DEF QueuedOnce
  <2> QED BY <2>1
<1> QED BY <1>6, <1>7, <1>8

(* A block is granted.                                                     *)
LEMMA GrantSent ==
  ASSUME reply \in Seq(SUBSET Pages), GrantedOnce, NEW S \in SUBSET Pages,
         S \cap InReply = {}, reply' = Append(reply, S)
  PROVE  reply' \in Seq(SUBSET Pages) /\ GrantedOnce' /\ InReply' = InReply \union S
<1>1. reply' \in Seq(SUBSET Pages) /\ Len(reply') = Len(reply) + 1 /\ Len(reply) \in Nat
  OBVIOUS
<1>2. PICK n \in Nat : n = Len(reply)
  BY <1>1
<1>3. DOMAIN reply = 1 .. n /\ DOMAIN reply' = 1 .. n + 1
  BY <1>1, <1>2
<1>4. (\A k \in 1 .. n : reply'[k] = reply[k]) /\ reply'[n + 1] = S
  BY <1>2
<1>5. \A k \in 1 .. n + 1 : k \in 1 .. n \/ k = n + 1
  BY <1>2
<1>6. 1 .. n \subseteq 1 .. n + 1 /\ n + 1 \in 1 .. n + 1
  BY <1>2
<1>7. InReply' = InReply \union S
  BY <1>3, <1>4, <1>5, <1>6 DEF InReply
<1>8. GrantedOnce'
  <2> SUFFICES ASSUME NEW p \in Pages, NEW k \in 1 .. n + 1, NEW l \in 1 .. n + 1,
                      p \in reply'[k], p \in reply'[l]
               PROVE  k = l
    BY <1>3 DEF GrantedOnce
  <2>1. CASE k \in 1 .. n /\ l \in 1 .. n
    BY <1>3, <1>4, <2>1 DEF GrantedOnce
  <2>2. CASE k \in 1 .. n /\ l = n + 1
    BY <1>3, <1>4, <2>2 DEF InReply
  <2>3. CASE k = n + 1 /\ l \in 1 .. n
    BY <1>3, <1>4, <2>3 DEF InReply
  <2> QED BY <1>5, <2>1, <2>2, <2>3
<1> QED BY <1>1, <1>7, <1>8

(* The first grant arrives.                                                 *)
LEMMA GrantTaken ==
  ASSUME reply \in Seq(SUBSET Pages), GrantedOnce, reply # <<>>, reply' = Tail(reply)
  PROVE  /\ reply' \in Seq(SUBSET Pages) /\ GrantedOnce'
         /\ Head(reply) \subseteq InReply /\ InReply' = InReply \ Head(reply)
<1>0. Head(reply) = reply[1] /\ Head(reply) \subseteq Pages
  OBVIOUS
<1>1. reply' \in Seq(SUBSET Pages) /\ Len(reply') = Len(reply) - 1 /\ Len(reply) \in Nat
      /\ Len(reply) >= 1
  OBVIOUS
<1>2. PICK n \in Nat : Len(reply) = n + 1 /\ Len(reply') = n
  <2>1. Len(reply) - 1 \in Nat /\ Len(reply) = (Len(reply) - 1) + 1
    BY <1>1
  <2> QED BY <1>1, <2>1
<1>3. DOMAIN reply = 1 .. n + 1 /\ DOMAIN reply' = 1 .. n /\ 1 \in 1 .. n + 1
  <2>1. DOMAIN reply = 1 .. Len(reply)
    OBVIOUS
  <2>2. DOMAIN reply' = 1 .. Len(reply')
    BY <1>1
  <2> QED BY <1>2, <2>1, <2>2
<1>4. \A k \in 1 .. n : reply'[k] = reply[k + 1] /\ k + 1 \in 1 .. n + 1 /\ k + 1 # 1
  BY <1>2
<1>5. \A k \in 1 .. n + 1 : k = 1 \/ \E l \in 1 .. n : k = l + 1
  <2> SUFFICES ASSUME NEW k \in 1 .. n + 1, k # 1 PROVE \E l \in 1 .. n : k = l + 1
    OBVIOUS
  <2>1. k - 1 \in 1 .. n /\ k = (k - 1) + 1
    BY <1>2
  <2> QED BY <2>1
<1>6. Head(reply) \subseteq InReply
  BY <1>0, <1>3 DEF InReply
<1>7. InReply' = InReply \ Head(reply)
  <2>1. ASSUME NEW p \in InReply' PROVE p \in InReply \ Head(reply)
    <3>1. p \in Pages /\ \E k \in 1 .. n : p \in reply'[k]
      BY <1>3 DEF InReply
    <3>2. PICK k \in 1 .. n : p \in reply[k + 1]
      BY <1>4, <3>1
    <3> QED BY <1>0, <1>3, <1>4, <3>1, <3>2 DEF InReply, GrantedOnce
  <2>2. ASSUME NEW p \in InReply, p \notin Head(reply) PROVE p \in InReply'
    <3>1. PICK k \in 1 .. n + 1 : p \in reply[k]
      BY <1>3, <2>2 DEF InReply
    <3>2. k # 1
      BY <1>0, <2>2, <3>1
    <3>3. PICK l \in 1 .. n : k = l + 1
      BY <1>5, <3>2
    <3>4. p \in reply'[l] /\ l \in DOMAIN reply'
      BY <1>3, <1>4, <3>1, <3>3
    <3>5. p \in Pages
      BY <2>2 DEF InReply
    <3> QED BY <3>4, <3>5 DEF InReply
  <2> QED BY <2>1, <2>2
<1>8. GrantedOnce'
  <2> SUFFICES ASSUME NEW p \in Pages, NEW k \in 1 .. n, NEW l \in 1 .. n,
                      p \in reply'[k], p \in reply'[l]
               PROVE  k = l
    BY <1>3 DEF GrantedOnce
  <2>1. k + 1 = l + 1
    BY <1>3, <1>4 DEF GrantedOnce
  <2> QED BY <2>1
<1> QED BY <1>1, <1>6, <1>7, <1>8

-----------------------------------------------------------------------------
(* The steps.  Every step keeps what the allocator needs; here is the rest. *)

Rest == NodeType /\ OneOwner /\ BatchedOnce /\ QueuedOnce /\ GrantedOnce
        /\ CountersExact /\ BootOwners

LEMMA MergeNext ==
  ASSUME NodeInv, [NodeNext]_allvars PROVE BuddyInv /\ BuddyInv' /\ MergeInv'
BY StepUses, NextInv, NextMerge DEF NodeInv, MergeInv

(* No message and no owner changes: a step inside the allocator.            *)
LEMMA Unmoved ==
  ASSUME NodeInv, UNCHANGED <<messages, owners>>,
         request' \in [order : LeastOrder .. COMEX_refill, calling : BOOLEAN],
         request'.calling => Requested /\ cur'.op = "expand" /\ boot'.phase = "ready",
         CountersExact', BootOwners'
  PROVE  Rest'
<1>1. /\ batch' = batch /\ work' = work /\ reply' = reply
      /\ mine' = mine /\ theirs' = theirs /\ lost' = lost
  BY DEF messages, owners
<1>2. InBatch' = InBatch /\ InWork' = InWork /\ InReply' = InReply
  BY <1>1 DEF InBatch, InWork, InReply
<1>3. NodeType'
  BY <1>1 DEF NodeInv, NodeType, QueueType, Requested
<1>4. OneOwner'
  BY <1>1, <1>2 DEF NodeInv, OneOwner
<1>5. BatchedOnce' /\ QueuedOnce' /\ GrantedOnce'
  BY <1>1 DEF NodeInv, BatchedOnce, QueuedOnce, GrantedOnce
<1> QED BY <1>3, <1>4, <1>5 DEF Rest

LEMMA UnmovedOwned ==
  ASSUME UNCHANGED <<messages, owners>> PROVE Owned' = Owned
BY DEF messages, owners, Owned, InBatch, InWork, InReply

(* Start-up, page by page.                                                  *)
LEMMA BootRest == ASSUME NodeInv, BuddyInv, BuddyInv', Boot PROVE Rest'
<1>1. UNCHANGED <<messages, owners>> /\ request' = request /\ BootSteps
  BY DEF Boot
<1>2. Owned' = Owned
  BY <1>1, UnmovedOwned
<1>3. boot.phase # "ready" /\ Owned = {} /\ cur = Idle /\ boot.i \in Pages /\ boot.i \in Nat
  BY <1>1, Sizes DEF BootSteps, BootFill, BootDrain, BootDrained, BootStock, NodeInv, BootOwners,
       BuddyInv, TypeOK
<1>4. CountersExact /\ BootOwners /\ cntr \in [Pages -> Int]
  BY DEF NodeInv, BuddyInv, TypeOK
<1>5. Block(boot.i, 0) = {boot.i} /\ Block(boot.i, 0) \subseteq Pages /\ 0 \in Orders
  BY <1>3, Sizes DEF Block
<1>6. \A p \in Pages : p \in Nat /\ p < total_pages
  BY Sizes
<1>7. CASE BootFill
  <2>1. boot.phase = "fill" /\ FreeCall(boot.i, 0)
        /\ boot' = IF boot.i + 1 < total_pages THEN [boot EXCEPT !.i = @ + 1]
                   ELSE [phase |-> "drain", i |-> 0]
    BY <1>7 DEF BootFill
  <2>2. \A q \in Block(boot.i, 0) : cntr[q] = 1
    BY <1>3, <1>4, <1>5, <2>1 DEF BootOwners
  <2>3. /\ \A q \in Pages : cntr'[q] = IF q = boot.i THEN 0 ELSE cntr[q]
        /\ CountersExact' /\ cur'.op = "merge"
    BY <1>3, <1>4, <1>5, <2>1, <2>2, FreeCallOk
  <2>4. boot'.phase \in {"fill", "drain"} /\ (boot'.phase = "fill" => boot'.i = boot.i + 1)
    BY <2>1, <1>3 DEF BuddyInv, TypeOK
  <2>5. BootOwners'
    BY <1>2, <1>3, <1>4, <1>6, <2>1, <2>3, <2>4 DEF BootOwners
  <2> QED BY <1>1, <1>3, <2>3, <2>5, Unmoved DEF NodeInv, NodeType
<1>8. CASE BootDrain
  <2>1. boot.phase = "drain" /\ boot' = boot /\ RmqueueTake(0)
    BY <1>8 DEF BootDrain
  <2>2. cntr' = cntr /\ CountersExact'
    BY <1>3, <1>4, <1>5, <2>1, CallOk
  <2>3. BootOwners'
    BY <1>2, <1>3, <1>4, <2>1, <2>2 DEF BootOwners
  <2> QED BY <1>1, <1>3, <2>1, <2>2, <2>3, Unmoved DEF NodeInv, NodeType
<1>9. CASE BootDrained
  <2>1. /\ boot.phase = "drain" /\ boot' = [phase |-> "stock", i |-> 0] /\ NoneFree(0)
        /\ cntr' = cntr /\ cur' = cur /\ free_list' = free_list
    BY <1>9 DEF BootDrained
  <2>2. \A o \in Orders : free_list[o] = {}
    BY <2>1 DEF NoneFree, Orders, Top
  <2>3. Free = {} /\ Free' = Free
    BY <1>3, <2>1, <2>2 DEF Free, ListedPages, InFlight, Idle
  <2>4. CountersExact' /\ \A p \in Pages : cntr[p] = 1
    BY <1>4, <2>1, <2>3 DEF CountersExact
  <2>5. BootOwners'
    BY <1>2, <1>3, <1>6, <2>1, <2>4 DEF BootOwners, Idle
  <2> QED BY <1>1, <1>3, <2>4, <2>5, Unmoved DEF NodeInv, NodeType
<1>10. CASE BootStock
  <2>1. /\ boot.phase = "stock"
        /\ boot' = IF boot.i + 1 < total_pages THEN [boot EXCEPT !.i = @ + 1]
                   ELSE [phase |-> "ready", i |-> 0]
    BY <1>10 DEF BootStock
  <2>2. /\ \A q \in Pages : cntr'[q] = IF q = boot.i /\ q \in Backed THEN 0 ELSE cntr[q]
        /\ CountersExact' /\ cur'.op # "expand"
    <3>1. CASE boot.i \in Backed
      <4>1. FreeCall(boot.i, 0)
        BY <1>10, <3>1 DEF BootStock
      <4>2. \A q \in Block(boot.i, 0) : cntr[q] = 1
        BY <1>3, <1>4, <1>5, <2>1 DEF BootOwners, CountersExact
      <4> QED BY <1>3, <1>4, <1>5, <3>1, <4>1, <4>2, FreeCallOk
    <3>2. CASE boot.i \notin Backed
      <4>1. UNCHANGED <<free_list, cntr, cur>>
        BY <1>10, <3>2 DEF BootStock
      <4>2. Free' = Free
        BY <4>1 DEF Free, ListedPages, InFlight
      <4> QED BY <1>3, <1>4, <3>2, <4>1, <4>2 DEF CountersExact, Idle
    <3> QED BY <3>1, <3>2
  <2>3. \/ boot'.phase = "stock" /\ boot'.i = boot.i + 1
        \/ boot'.phase = "ready" /\ boot.i + 1 >= total_pages
    BY <2>1, <1>3, BuddyConstants DEF BuddyInv, TypeOK
  <2>4. \A p \in Pages : cntr'[p] = 0 <=> p < boot.i + 1 /\ p \in Backed
    BY <1>3, <1>4, <1>6, <2>1, <2>2 DEF BootOwners
  <2>5. BootOwners'
    <3>1. CASE boot'.phase = "stock" /\ boot'.i = boot.i + 1
      BY <1>2, <1>3, <2>2, <2>4, <3>1 DEF BootOwners
    <3>2. CASE boot'.phase = "ready" /\ boot.i + 1 >= total_pages
      <4>1. \A p \in Pages : p < boot.i + 1
        BY <1>3, <1>6, <3>2, BuddyConstants
      <4>2. \A p \in Pages : cntr'[p] = IF p \in Backed THEN 0 ELSE 1
        BY <2>2, <2>4, <4>1 DEF CountersExact
      <4> QED BY <1>2, <1>3, <2>2, <3>2, <4>2 DEF BootOwners
    <3> QED BY <2>3, <3>1, <3>2
  <2>6. ~request.calling
    BY <1>3 DEF NodeInv, NodeType
  <2> QED BY <1>1, <2>2, <2>5, <2>6, Unmoved DEF NodeInv, NodeType
<1> QED BY <1>1, <1>7, <1>8, <1>9, <1>10 DEF BootSteps

(* The steps that take a block and split or merge it.                       *)
LEMMA CallRest ==
  ASSUME NodeInv, BuddyInv, BuddyInv', InCall \/ LocalAlloc \/ RequestCall PROVE Rest'
<1>1. UNCHANGED <<messages, owners>> /\ boot' = boot
  BY DEF InCall, LocalAlloc, RequestCall, Expand, Coalesce, FreeReturn, Rmqueue
<1>2. Owned' = Owned
  BY <1>1, UnmovedOwned
<1>3. CountersExact /\ BootOwners /\ NodeType
  BY DEF NodeInv
<1>4. request.order \in Orders /\ 0 \in Orders
  BY <1>3, NodeConstants, BuddyConstants, Sizes DEF NodeType, Orders
<1>5. (\E o \in Orders : cur = Idle /\ RmqueueTake(o)) \/ Expand \/ Coalesce \/ FreeReturn
  BY <1>4 DEF InCall, LocalAlloc, RequestCall, Rmqueue
<1>6. cntr' = cntr /\ CountersExact'
  BY <1>3, <1>5, CallOk
<1>7. cur'.op = "expand" => cur.op = "expand" \/ boot.phase = "ready"
  <2>1. CASE LocalAlloc \/ RequestCall
    BY <2>1 DEF LocalAlloc, RequestCall, Rmqueue
  <2>2. CASE InCall
    <3>1. Expand \/ Coalesce \/ FreeReturn
      BY <2>2 DEF InCall
    <3>2. cur'.op = cur.op \/ cur'.op = "idle"
      <4>1. CASE Expand
        BY <4>1 DEF Expand, BuddyInv, TypeOK
      <4>2. CASE Coalesce
        <5>1. PICK a : cur' = [cur EXCEPT !.page = a, !.order = cur.order + 1]
          BY <4>2 DEF Coalesce
        <5> QED BY <5>1 DEF BuddyInv, TypeOK
      <4>3. CASE FreeReturn
        BY <4>3 DEF FreeReturn, Idle
      <4> QED BY <3>1, <4>1, <4>2, <4>3
    <3> QED BY <3>2
  <2> QED BY <2>1, <2>2
<1>8. BootOwners'
  BY <1>1, <1>2, <1>3, <1>6, <1>7 DEF BootOwners
<1>9. cur.op = "expand" /\ InCall => cur'.op = "expand"
  BY DEF InCall, Expand, Coalesce, FreeReturn, BuddyInv, TypeOK
<1>10. RequestCall => Requested /\ cur'.op = "expand" /\ boot.phase = "ready"
                      /\ request' = [request EXCEPT !.calling = TRUE]
  BY DEF RequestCall, Rmqueue, RmqueueTake
<1>11. request' \in [order : LeastOrder .. COMEX_refill, calling : BOOLEAN]
  BY <1>3, <1>10 DEF InCall, LocalAlloc, NodeType
<1>12. request'.calling => Requested /\ cur'.op = "expand" /\ boot'.phase = "ready"
  BY <1>1, <1>3, <1>9, <1>10 DEF InCall, LocalAlloc, Rmqueue, Idle, NodeType
<1> QED BY <1>1, <1>6, <1>8, <1>11, <1>12, Unmoved

(* A block is handed out to a thread of the node, or drained at start-up.   *)
LEMMA LocalReturnRest == ASSUME NodeInv, BuddyInv, BuddyInv', LocalReturn PROVE Rest'
<1> DEFINE S == Block(cur.page, cur.low)
<1>1. /\ ~request.calling /\ RmqueueReturn /\ UNCHANGED <<messages, request, theirs, lost>>
      /\ mine' = IF boot.phase = "ready" THEN mine \union (held' \ held) ELSE mine
  BY DEF LocalReturn
<1>2. /\ S \subseteq Pages /\ held' \ held = S /\ \A q \in S : cntr[q] = 0
      /\ \A q \in Pages : cntr'[q] = IF q \in S THEN 1 ELSE cntr[q]
      /\ CountersExact' /\ boot' = boot
  BY <1>1, ReturnOk DEF NodeInv
<1>3. CountersExact /\ BootOwners /\ NodeType /\ cur.op = "expand" /\ cur' = Idle
  BY <1>1 DEF NodeInv, RmqueueReturn
<1> HIDE DEF S
<1>4. CASE boot.phase # "ready"
  <2>1. UNCHANGED <<messages, owners>> /\ boot.phase = "drain"
    BY <1>1, <1>3, <1>4 DEF messages, owners, BootOwners
  <2>2. Owned' = Owned
    BY <2>1, UnmovedOwned
  <2>3. BootOwners'
    BY <1>2, <1>3, <1>4, <2>1, <2>2 DEF BootOwners, Idle
  <2> QED BY <1>1, <1>2, <1>3, <2>1, <2>3, Unmoved DEF NodeType
<1>5. CASE boot.phase = "ready"
  <2>1. /\ mine' = mine \union S /\ theirs' = theirs /\ lost' = lost
        /\ batch' = batch /\ work' = work /\ reply' = reply /\ request' = request
    BY <1>1, <1>2, <1>5 DEF messages
  <2>2. InBatch' = InBatch /\ InWork' = InWork /\ InReply' = InReply
    BY <2>1 DEF InBatch, InWork, InReply
  <2>3. Owned' = Owned \union S
    BY <2>1, <2>2 DEF Owned
  <2>4. \A q \in S : q \notin Owned /\ q \in Backed
    <3>1. \A q \in S : cntr[q] # 1
      BY <1>2
    <3> QED BY <1>2, <1>3, <1>5, <3>1 DEF BootOwners
  <2>5. BootOwners'
    BY <1>2, <1>3, <1>5, <2>3, <2>4 DEF BootOwners
  <2>6. OneOwner'
    BY <2>1, <2>2, <2>4 DEF NodeInv, OneOwner, Owned
  <2>7. NodeType'
    BY <1>1, <1>2, <1>3, <2>1 DEF NodeType, QueueType
  <2>8. BatchedOnce' /\ QueuedOnce' /\ GrantedOnce'
    BY <2>1 DEF NodeInv, BatchedOnce, QueuedOnce, GrantedOnce
  <2> QED BY <1>2, <2>5, <2>6, <2>7, <2>8 DEF Rest
<1> QED BY <1>4, <1>5

(* A request is answered, with a block that was free or without one.        *)
LEMMA AnswerRest ==
  ASSUME NodeInv, CountersExact', Requested, NEW S \in SUBSET Pages, Proto!Answer(S),
         request' = NoRequest, UNCHANGED owners, boot.phase = "ready", boot' = boot,
         \A q \in S : cntr[q] = 0,
         \A q \in Pages : cntr'[q] = IF q \in S THEN 1 ELSE cntr[q]
  PROVE  Rest'
<1>1. /\ work # <<>> /\ Head(work) = Proto!RQST /\ work' = Tail(work)
      /\ reply' = Append(reply, S) /\ batch' = batch
      /\ mine' = mine /\ theirs' = theirs /\ lost' = lost
  BY DEF Requested, Proto!Answer, owners
<1>2. NodeType /\ BootOwners /\ OneOwner /\ QueuedOnce /\ GrantedOnce /\ BatchedOnce
  BY DEF NodeInv
<1>3. \A i \in Proto!Index : Proto!RunPages(Head(work).runs[i]) = {}
  BY <1>1, NoPages DEF Proto!RQST, Proto!Clean
<1>4. QueueType(work)' /\ QueuedOnce' /\ InWork' = InWork
  BY <1>1, <1>2, <1>3, MessageDone DEF NodeType
<1>5. \A q \in S : q \in Backed /\ q \notin Owned
  <2>1. \A q \in S : cntr[q] # 1
    OBVIOUS
  <2> QED BY <1>2, <2>1 DEF BootOwners
<1>6. S \cap InReply = {}
  BY <1>5 DEF Owned
<1>7. reply' \in Seq(SUBSET Pages) /\ GrantedOnce' /\ InReply' = InReply \union S
  BY <1>1, <1>2, <1>6, GrantSent DEF NodeType
<1>8. InBatch' = InBatch
  BY <1>1 DEF InBatch
<1>9. Owned' = Owned \union S
  BY <1>1, <1>4, <1>7, <1>8 DEF Owned
<1>10. BootOwners'
  BY <1>2, <1>5, <1>9 DEF BootOwners
<1>11. OneOwner'
  BY <1>1, <1>2, <1>4, <1>5, <1>7, <1>8 DEF OneOwner, Owned
<1>12. request' \in [order : LeastOrder .. COMEX_refill, calling : BOOLEAN] /\ ~request'.calling
  BY NodeConstants, BuddyConstants DEF NoRequest, Orders
<1>13. NodeType'
  BY <1>1, <1>2, <1>4, <1>7, <1>12 DEF NodeType
<1>14. BatchedOnce'
  BY <1>1, <1>2 DEF BatchedOnce
<1> QED BY <1>4, <1>7, <1>10, <1>11, <1>13, <1>14 DEF Rest

LEMMA RequestReturnRest == ASSUME NodeInv, BuddyInv, BuddyInv', RequestReturn PROVE Rest'
<1> DEFINE S == Block(cur.page, cur.low)
<1>1. request.calling /\ RmqueueReturn
  BY DEF RequestReturn
<1>2. /\ S \subseteq Pages /\ CtrOk(cur.page, cur.low, 1) /\ \A q \in S : cntr[q] = 0
      /\ \A q \in Pages : cntr'[q] = IF q \in S THEN 1 ELSE cntr[q]
      /\ CountersExact' /\ boot' = boot
  BY <1>1, ReturnOk DEF NodeInv
<1>3. Proto!Answer(S) /\ request' = NoRequest /\ UNCHANGED owners
  BY <1>2 DEF RequestReturn
<1>4. Requested /\ boot.phase = "ready"
  BY <1>1 DEF NodeInv, NodeType
<1> HIDE DEF S
<1> QED BY <1>2, <1>3, <1>4, AnswerRest

LEMMA RequestFailsRest == ASSUME NodeInv, BuddyInv, BuddyInv', RequestFails PROVE Rest'
<1>1. /\ Requested /\ ~request.calling /\ boot.phase = "ready" /\ cur = Idle /\ NoBlock
      /\ UNCHANGED vars
  BY DEF RequestFails
<1>2. boot' = boot /\ cntr' = cntr /\ cur' = cur /\ free_list' = free_list
  BY <1>1 DEF vars
<1>3. CountersExact'
  <2>1. Free' = Free
    BY <1>2 DEF Free, ListedPages, InFlight
  <2> QED BY <1>2, <2>1 DEF NodeInv, CountersExact
<1>4. CASE request.order > LeastOrder
  <2>1. /\ UNCHANGED <<messages, owners>>
        /\ request' = [order |-> request.order - 1, calling |-> FALSE]
    BY <1>1, <1>4 DEF NoBlock
  <2>2. Owned' = Owned
    BY <2>1, UnmovedOwned
  <2>3. BootOwners'
    BY <1>2, <2>2 DEF NodeInv, BootOwners
  <2>4. request' \in [order : LeastOrder .. COMEX_refill, calling : BOOLEAN]
    <3>1. LeastOrder \in Int /\ COMEX_refill \in Int /\ request.order \in LeastOrder .. COMEX_refill
      BY NodeConstants, Sizes DEF NodeInv, NodeType
    <3>2. request.order - 1 \in LeastOrder .. COMEX_refill
      BY <1>4, <3>1
    <3> QED BY <2>1, <3>2
  <2> QED BY <1>3, <2>1, <2>3, <2>4, Unmoved
<1>5. CASE ~(request.order > LeastOrder)
  <2>1. Proto!Answer({}) /\ request' = NoRequest /\ UNCHANGED owners
    BY <1>1, <1>5 DEF NoBlock
  <2> QED BY <1>1, <1>2, <1>3, <2>1, AnswerRest
<1> QED BY <1>4, <1>5

(* The compute node asks, and takes what is granted; the work queue drops a *)
(* message it has worked off.                                              *)
LEMMA OutsideAllocator ==
  ASSUME NodeInv, UNCHANGED vars
  PROVE  CountersExact' /\ (Owned' = Owned => BootOwners')
<1>1. boot' = boot /\ cntr' = cntr /\ cur' = cur /\ free_list' = free_list
  BY DEF vars
<1>2. Free' = Free
  BY <1>1 DEF Free, ListedPages, InFlight
<1> QED BY <1>1, <1>2 DEF NodeInv, CountersExact, BootOwners

LEMMA AskRest == ASSUME NodeInv, Ask PROVE Rest'
<1>1. /\ work' = Append(work, Proto!RQST) /\ batch' = batch /\ reply' = reply
      /\ mine' = mine /\ theirs' = theirs /\ lost' = lost /\ request' = request
      /\ UNCHANGED vars /\ cur' = cur /\ boot' = boot
  BY DEF Ask, Proto!Ask, owners, vars
<1>2. NodeType /\ OneOwner /\ QueuedOnce /\ GrantedOnce /\ BatchedOnce
  BY DEF NodeInv
<1>3. \A i \in Proto!Index : Proto!RunPages(Proto!RQST.runs[i]) = {}
  BY NoPages DEF Proto!RQST, Proto!Clean
<1>4. QueueType(work)' /\ QueuedOnce' /\ InWork' = InWork /\ (Requested => Requested')
  <2>1. {} \in SUBSET Pages /\ {} \cap InWork = {}
    OBVIOUS
  <2>2. QueueType(work)' /\ QueuedOnce' /\ InWork' = InWork \union {} /\ (Requested => Requested')
    BY <1>1, <1>2, <1>3, <2>1, NoPages, MessageSent DEF NodeType
  <2> QED BY <2>2
<1>5. InBatch' = InBatch /\ InReply' = InReply
  BY <1>1 DEF InBatch, InReply
<1>6. Owned' = Owned
  BY <1>1, <1>4, <1>5 DEF Owned
<1>7. CountersExact' /\ BootOwners'
  BY <1>1, <1>6, OutsideAllocator
<1>8. NodeType'
  BY <1>1, <1>2, <1>4 DEF NodeType
<1>9. OneOwner' /\ GrantedOnce' /\ BatchedOnce'
  BY <1>1, <1>2, <1>4, <1>5 DEF OneOwner, GrantedOnce, BatchedOnce
<1> QED BY <1>4, <1>7, <1>8, <1>9 DEF Rest

LEMMA FreeDoneRest == ASSUME NodeInv, FreeDone PROVE Rest'
<1>1. /\ work # <<>> /\ Head(work).cmd = "FREE" /\ Proto!RunsLeft(Head(work).runs) = {}
      /\ work' = Tail(work) /\ batch' = batch /\ reply' = reply
      /\ mine' = mine /\ theirs' = theirs /\ lost' = lost /\ request' = request
      /\ UNCHANGED vars /\ cur' = cur /\ boot' = boot
  BY DEF FreeDone, Proto!FreeDone, owners, vars
<1>2. NodeType /\ OneOwner /\ QueuedOnce /\ GrantedOnce /\ BatchedOnce
  BY DEF NodeInv
<1>3. Head(work) \in Messages
  BY <1>1, <1>2 DEF NodeType, QueueType
<1>4. \A i \in Proto!Index : Proto!RunPages(Head(work).runs[i]) = {}
  <2> SUFFICES ASSUME NEW i \in Proto!Index PROVE Proto!RunPages(Head(work).runs[i]) = {}
    OBVIOUS
  <2>1. Head(work).runs[i] \in Runs /\ ~(Head(work).runs[i].count > 0)
    BY <1>1, <1>3 DEF Messages, Proto!RunsLeft
  <2>2. PICK r \in Runs : r = Head(work).runs[i]
    BY <2>1
  <2>3. r.count \in Nat /\ r.pageNO \in Int /\ r.count = 0
    BY <2>1, <2>2 DEF Runs
  <2>4. Proto!RunPages(r) = {}
    BY <2>3 DEF Proto!RunPages
  <2> QED BY <2>2, <2>4
<1>5. QueueType(work)' /\ QueuedOnce' /\ InWork' = InWork
  BY <1>1, <1>2, <1>4, MessageDone DEF NodeType
<1>6. InBatch' = InBatch /\ InReply' = InReply
  BY <1>1 DEF InBatch, InReply
<1>7. Owned' = Owned
  BY <1>1, <1>5, <1>6 DEF Owned
<1>8. CountersExact' /\ BootOwners'
  BY <1>1, <1>7, OutsideAllocator
<1>9. ~Requested
  BY <1>1 DEF Requested, Proto!RQST
<1>10. NodeType'
  BY <1>1, <1>2, <1>5, <1>9 DEF NodeType
<1>11. OneOwner' /\ GrantedOnce' /\ BatchedOnce'
  BY <1>1, <1>2, <1>5, <1>6 DEF OneOwner, GrantedOnce, BatchedOnce
<1> QED BY <1>5, <1>8, <1>10, <1>11 DEF Rest

LEMMA TakeReplyRest == ASSUME NodeInv, PageReceive \/ ReplyLost PROVE Rest'
<1>1. /\ reply # <<>> /\ reply' = Tail(reply) /\ batch' = batch /\ work' = work
      /\ mine' = mine /\ request' = request /\ UNCHANGED vars /\ cur' = cur /\ boot' = boot
      /\ \/ theirs' = theirs \union Head(reply) /\ lost' = lost
         \/ theirs' = theirs /\ lost' = lost \union Head(reply)
  BY DEF PageReceive, ReplyLost, Proto!TakeReply, vars
<1>2. NodeType /\ OneOwner /\ QueuedOnce /\ GrantedOnce /\ BatchedOnce
  BY DEF NodeInv
<1>3. /\ reply' \in Seq(SUBSET Pages) /\ GrantedOnce'
      /\ Head(reply) \subseteq InReply /\ InReply' = InReply \ Head(reply)
  BY <1>1, <1>2, GrantTaken DEF NodeType
<1>4. InBatch' = InBatch /\ InWork' = InWork
  BY <1>1 DEF InBatch, InWork
<1>5. PICK S : S = Head(reply)
  OBVIOUS
<1>6. Owned' = Owned
  BY <1>1, <1>3, <1>4, <1>5 DEF Owned
<1>7. CountersExact' /\ BootOwners'
  BY <1>1, <1>6, OutsideAllocator
<1>8. S \subseteq Pages
  BY <1>3, <1>5 DEF InReply
<1>9. NodeType'
  BY <1>1, <1>2, <1>3, <1>5, <1>8 DEF NodeType, QueueType, Requested
<1>10. OneOwner'
  BY <1>1, <1>2, <1>3, <1>4, <1>5 DEF OneOwner
<1>11. QueuedOnce' /\ BatchedOnce'
  BY <1>1, <1>2 DEF QueuedOnce, BatchedOnce
<1> QED BY <1>3, <1>7, <1>9, <1>10, <1>11 DEF Rest

(* The pages of a run that takes one more.                                  *)
LEMMA RunTakes ==
  ASSUME NEW r \in Runs, NEW p \in Pages,
         Proto!Follows(r, p) \/ Proto!Precedes(r, p) \/ Proto!Unused(r)
  PROVE  /\ Proto!Extended(r, p) \in Runs
         /\ Proto!RunPages(Proto!Extended(r, p)) = Proto!RunPages(r) \union {p}
<1>1. /\ r \in [pageNO : Int, count : Nat] /\ r.pageNO \in Int /\ r.count \in Nat
      /\ \/ r.pageNO = -1 /\ r.count = 0
         \/ r.pageNO >= 0 /\ r.count >= 1 /\ r.pageNO + r.count <= total_pages
      /\ r = [pageNO |-> r.pageNO, count |-> r.count]
  BY DEF Runs, RunOk
<1>2. p \in Nat /\ p + 1 <= total_pages
  BY Sizes, BuddyConstants DEF Pages
<1>3. PICK a \in Int, n \in Nat : a = r.pageNO /\ n = r.count
  BY <1>1
<1>4. CASE Proto!Follows(r, p)
  <2>1. a + n = p /\ a >= 0 /\ n >= 1
    BY <1>1, <1>2, <1>3, <1>4 DEF Proto!Follows
  <2>2. Proto!Extended(r, p) = [pageNO |-> a, count |-> n + 1]
    BY <1>1, <1>3, <1>4 DEF Proto!Extended
  <2>3. a .. a + (n + 1) - 1 = (a .. a + n - 1) \union {p}
    BY <1>3, <2>1
  <2> QED BY <1>2, <1>3, <2>1, <2>2, <2>3 DEF Runs, RunOk, Proto!RunPages
<1>5. CASE ~Proto!Follows(r, p) /\ Proto!Precedes(r, p)
  <2>1. a - 1 = p /\ a >= 1 /\ n >= 1 /\ a + n <= total_pages
    BY <1>1, <1>2, <1>3, <1>5 DEF Proto!Precedes
  <2>2. Proto!Extended(r, p) = [pageNO |-> p, count |-> n + 1]
    BY <1>3, <1>5 DEF Proto!Extended
  <2>3. p .. p + (n + 1) - 1 = (a .. a + n - 1) \union {p}
    BY <1>2, <1>3, <2>1
  <2>4. p + (n + 1) <= total_pages
    BY <1>2, <1>3, <2>1
  <2> QED BY <1>2, <1>3, <2>1, <2>2, <2>3, <2>4 DEF Runs, RunOk, Proto!RunPages
<1>6. CASE ~Proto!Follows(r, p) /\ ~Proto!Precedes(r, p)
  <2>1. a = -1 /\ n = 0
    BY <1>1, <1>3, <1>6 DEF Proto!Unused
  <2>2. Proto!Extended(r, p) = [pageNO |-> p, count |-> 1]
    BY <1>6 DEF Proto!Extended
  <2>3. p .. p + 1 - 1 = (a .. a + n - 1) \union {p}
    BY <1>2, <2>1
  <2> QED BY <1>2, <1>3, <2>1, <2>2, <2>3 DEF Runs, RunOk, Proto!RunPages
<1> QED BY <1>4, <1>5, <1>6

(* What is left of a run is what the block does not hold.                   *)
LEMMA RunCut ==
  ASSUME NEW r \in Runs, r.count >= 1, NEW o \in Orders, Pow2[o] = 2 ^ o, Pow2[o] <= r.count
  PROVE  /\ Proto!AfterBlock(r, o) \in Runs
         /\ Proto!RunPages(Proto!AfterBlock(r, o)) = Proto!RunPages(r) \ Block(r.pageNO, o)
<1>1. /\ r.pageNO \in Int /\ r.count \in Nat /\ r.pageNO >= 0
      /\ r.pageNO + r.count <= total_pages
  BY DEF Runs, RunOk
<1>2. PICK a \in Int, n \in Nat, w \in Nat : a = r.pageNO /\ n = r.count /\ w = Pow2[o] /\ w >= 1
  BY <1>1, Sizes
<1>3. CASE n = w
  <2>1. Proto!AfterBlock(r, o) = Proto!EmptyRun
    BY <1>2, <1>3 DEF Proto!AfterBlock
  <2> QED BY <1>2, <1>3, <2>1, NoPages DEF Proto!RunPages, Block
<1>4. CASE n # w
  <2>1. Proto!AfterBlock(r, o) = [pageNO |-> a + w, count |-> n - w]
    BY <1>2, <1>4 DEF Proto!AfterBlock
  <2>2. n - w \in Nat /\ n - w >= 1 /\ a >= 0 /\ a + n <= total_pages
    BY <1>1, <1>2, <1>4
  <2>3. (a + w) + (n - w) = a + n /\ a + w >= 0 /\ a + w \in Int
    BY <1>2, <2>2
  <2>4. (a + w) .. (a + w) + (n - w) - 1 = (a .. a + n - 1) \ (a .. a + w - 1)
    BY <1>2, <2>2
  <2>5. Proto!AfterBlock(r, o) \in Runs
    BY <2>1, <2>2, <2>3 DEF Runs, RunOk
  <2> QED BY <1>2, <2>1, <2>4, <2>5 DEF Proto!RunPages, Block
<1> QED BY <1>3, <1>4

(* A page the compute node does not need any more goes into the batch.      *)
LEMMA NewBatch ==
  ASSUME NEW p \in Pages, batch' = Proto!NextBatch(p)
  PROVE  batch' \in [Proto!Index -> Runs] /\ BatchedOnce' /\ InBatch' = {p}
<1> DEFINE r == [pageNO |-> p, count |-> 1]
<1>1. 1 \in Proto!Index
  BY NodeConstants DEF Proto!Index
<1>2. p \in Nat /\ p + 1 <= total_pages
  BY Sizes, BuddyConstants DEF Pages
<1>3. r \in Runs /\ Proto!RunPages(r) = {p}
  BY <1>2 DEF Runs, RunOk, Proto!RunPages
<1>4. batch' \in [Proto!Index -> Runs]
  BY <1>1, <1>3, NoPages DEF Proto!NextBatch
<1>5. \A i \in Proto!Index : Proto!RunPages(batch'[i]) = IF i = 1 THEN {p} ELSE {}
  <2>1. \A i \in Proto!Index : batch'[i] = IF i = 1 THEN r ELSE Proto!EmptyRun
    BY <1>1 DEF Proto!NextBatch, Proto!Clean
  <2> QED BY <1>3, <2>1, NoPages
<1>6. BatchedOnce'
  BY <1>5 DEF BatchedOnce
<1>7. InBatch' = {p}
  BY <1>1, <1>5 DEF InBatch
<1> QED BY <1>4, <1>6, <1>7

LEMMA BatchTakes ==
  ASSUME NodeInv, NEW p \in Pages, p \notin InBatch, Proto!FreeToRun(p)
  PROVE  batch' \in [Proto!Index -> Runs] /\ BatchedOnce' /\ InBatch' = InBatch \union {p}
<1>1. PICK i \in Proto!Index :
        Proto!FitsIn(i, p) /\ batch' = [batch EXCEPT ![i] = Proto!Extended(@, p)]
  BY DEF Proto!FreeToRun
<1>2. batch \in [Proto!Index -> Runs] /\ BatchedOnce
  BY DEF NodeInv, NodeType
<1>3. PICK e : e = Proto!Extended(batch[i], p)
  OBVIOUS
<1>4. e \in Runs /\ Proto!RunPages(e) = Proto!RunPages(batch[i]) \union {p}
  BY <1>1, <1>2, <1>3, RunTakes DEF Proto!FitsIn
<1>5. batch' = [batch EXCEPT ![i] = e]
  BY <1>1, <1>3
<1>6. batch' \in [Proto!Index -> Runs]
  BY <1>2, <1>4, <1>5
<1>7. \A j \in Proto!Index : Proto!RunPages(batch'[j]) =
        IF j = i THEN Proto!RunPages(batch[i]) \union {p} ELSE Proto!RunPages(batch[j])
  <2>1. \A j \in Proto!Index : batch'[j] = IF j = i THEN e ELSE batch[j]
    BY <1>2, <1>5
  <2> QED BY <1>4, <2>1
<1>8. InBatch' = InBatch \union {p}
  BY <1>1, <1>7 DEF InBatch
<1>9. BatchedOnce'
  <2>1. \A j \in Proto!Index : p \notin Proto!RunPages(batch[j])
    BY DEF InBatch
  <2> QED BY <1>1, <1>2, <1>7, <2>1 DEF BatchedOnce
<1> QED BY <1>6, <1>8, <1>9

LEMMA GiveBackRest == ASSUME NodeInv, NEW p \in Pages, GiveBack(p) PROVE Rest'
<1>1. /\ p \in theirs /\ theirs' = theirs \ {p} /\ mine' = mine /\ request' = request
      /\ UNCHANGED vars /\ cur' = cur /\ boot' = boot
  BY DEF GiveBack, vars
<1>2. NodeType /\ OneOwner /\ QueuedOnce /\ GrantedOnce /\ BatchedOnce
  BY DEF NodeInv
<1>3. p \notin InBatch /\ p \notin InWork /\ p \notin lost
  BY <1>1, <1>2 DEF OneOwner
<1>4. CASE Proto!FreeToRun(p) /\ lost' = lost
  <2>1. work' = work /\ reply' = reply
    BY <1>4 DEF Proto!FreeToRun
  <2>2. batch' \in [Proto!Index -> Runs] /\ BatchedOnce' /\ InBatch' = InBatch \union {p}
    BY <1>3, <1>4, BatchTakes
  <2>3. InWork' = InWork /\ InReply' = InReply
    BY <2>1 DEF InWork, InReply
  <2>4. Owned' = Owned
    BY <1>1, <1>4, <2>2, <2>3 DEF Owned
  <2>5. CountersExact' /\ BootOwners'
    BY <1>1, <2>4, OutsideAllocator
  <2>6. NodeType'
    BY <1>1, <1>2, <1>4, <2>1, <2>2 DEF NodeType, QueueType, Requested
  <2>7. OneOwner'
    BY <1>1, <1>2, <1>4, <2>2, <2>3 DEF OneOwner
  <2>8. QueuedOnce' /\ GrantedOnce'
    BY <1>2, <2>1 DEF QueuedOnce, GrantedOnce
  <2> QED BY <2>2, <2>5, <2>6, <2>7, <2>8 DEF Rest
<1>5. CASE Proto!FreeFlush(p, TRUE) /\ lost' = lost
  <2> DEFINE m == Proto!FREE(batch)
  <2>1. work' = Append(work, m) /\ batch' = Proto!NextBatch(p) /\ reply' = reply
    BY <1>5 DEF Proto!FreeFlush
  <2>2. m \in Messages /\ m.cmd # "RQST" /\ m.runs = batch
    BY <1>2 DEF NodeType, Proto!FREE, Messages
  <2>3. batch' \in [Proto!Index -> Runs] /\ BatchedOnce' /\ InBatch' = {p}
    BY <2>1, NewBatch
  <2> HIDE DEF m
  <2>4. InBatch \in SUBSET Pages /\ InBatch \cap InWork = {}
        /\ \A q \in Pages : q \in InBatch <=> \E i \in Proto!Index : q \in Proto!RunPages(m.runs[i])
    BY <1>2, <2>2 DEF OneOwner, InBatch
  <2>5. \A q \in Pages : \A i, j \in Proto!Index :
          q \in Proto!RunPages(m.runs[i]) /\ q \in Proto!RunPages(m.runs[j]) => i = j
    BY <1>2, <2>2 DEF BatchedOnce
  <2>6. QueueType(work)' /\ QueuedOnce' /\ InWork' = InWork \union InBatch
        /\ (Requested => Requested')
    BY <1>2, <2>1, <2>2, <2>4, <2>5, MessageSent DEF NodeType
  <2>7. InReply' = InReply
    BY <2>1 DEF InReply
  <2>8. Owned' = Owned
    BY <1>1, <1>5, <2>3, <2>6, <2>7 DEF Owned
  <2>9. CountersExact' /\ BootOwners'
    BY <1>1, <2>8, OutsideAllocator
  <2>10. NodeType'
    BY <1>1, <1>2, <1>5, <2>1, <2>3, <2>6 DEF NodeType
  <2>11. OneOwner'
    BY <1>1, <1>2, <1>5, <2>3, <2>6, <2>7 DEF OneOwner
  <2>12. GrantedOnce'
    BY <1>2, <2>1 DEF GrantedOnce
  <2> QED BY <2>3, <2>6, <2>9, <2>10, <2>11, <2>12 DEF Rest
<1>6. CASE Proto!FreeFlush(p, FALSE)
           /\ lost' = lost \union {q \in Pages : Proto!Naming(batch, q) # {}}
  <2>1. work' = work /\ batch' = Proto!NextBatch(p) /\ reply' = reply
    BY <1>6 DEF Proto!FreeFlush
  <2>2. lost' = lost \union InBatch
    BY <1>6 DEF InBatch, Proto!Naming
  <2>3. batch' \in [Proto!Index -> Runs] /\ BatchedOnce' /\ InBatch' = {p}
    BY <2>1, NewBatch
  <2>4. InWork' = InWork /\ InReply' = InReply /\ InBatch \subseteq Pages
    BY <2>1 DEF InWork, InReply, InBatch
  <2>5. Owned' = Owned
    BY <1>1, <2>2, <2>3, <2>4 DEF Owned
  <2>6. CountersExact' /\ BootOwners'
    BY <1>1, <2>5, OutsideAllocator
  <2>7. NodeType'
    BY <1>1, <1>2, <2>1, <2>2, <2>3, <2>4 DEF NodeType, QueueType, Requested
  <2>8. OneOwner'
    BY <1>1, <1>2, <2>2, <2>3, <2>4 DEF OneOwner
  <2>9. QueuedOnce' /\ GrantedOnce'
    BY <1>2, <2>1 DEF QueuedOnce, GrantedOnce
  <2> QED BY <2>3, <2>6, <2>7, <2>8, <2>9 DEF Rest
<1> QED BY <1>4, <1>5, <1>6 DEF GiveBack

(* A thread of the node frees its page.                                     *)
LEMMA LocalFreeRest ==
  ASSUME NodeInv, BuddyInv, BuddyInv', NEW p \in Pages, LocalFree(p) PROVE Rest'
<1>1. /\ p \in mine /\ FreeCall(p, 0) /\ mine' = mine \ {p} /\ boot' = boot /\ cur = Idle
      /\ batch' = batch /\ work' = work /\ reply' = reply /\ request' = request
      /\ theirs' = theirs /\ lost' = lost
  BY DEF LocalFree, FreePage, messages
<1>2. NodeType /\ OneOwner /\ QueuedOnce /\ GrantedOnce /\ BatchedOnce /\ CountersExact
      /\ BootOwners
  BY DEF NodeInv
<1>3. p \in Owned
  BY <1>1 DEF Owned
<1>4. Block(p, 0) = {p} /\ p \in Backed /\ cntr[p] = 1 /\ boot.phase = "ready" /\ 0 \in Orders
  BY <1>3, OwnPage, OwnedOut, Sizes
<1>5. /\ \A q \in Pages : cntr'[q] = IF q \in {p} THEN 0 ELSE cntr[q]
      /\ CountersExact' /\ cur'.op = "merge"
  <2>1. Block(p, 0) \subseteq Pages /\ \A q \in Block(p, 0) : cntr[q] = 1
    BY <1>4
  <2>2. /\ \A q \in Pages : cntr'[q] = IF q \in Block(p, 0) THEN 0 ELSE cntr[q]
        /\ CountersExact' /\ cur'.op = "merge"
    BY <1>1, <1>2, <1>4, <2>1, FreeCallOk
  <2> QED BY <1>4, <2>2
<1>6. InBatch' = InBatch /\ InWork' = InWork /\ InReply' = InReply
  BY <1>1 DEF InBatch, InWork, InReply
<1>7. Owned' = Owned \ {p}
  BY <1>1, <1>2, <1>6 DEF Owned, OneOwner
<1>8. BootOwners'
  BY <1>1, <1>2, <1>4, <1>5, <1>7 DEF BootOwners
<1>9. NodeType'
  BY <1>1, <1>2 DEF NodeType, QueueType, Idle
<1>10. OneOwner'
  BY <1>1, <1>2, <1>6 DEF OneOwner
<1>11. BatchedOnce' /\ QueuedOnce' /\ GrantedOnce'
  BY <1>1, <1>2 DEF BatchedOnce, QueuedOnce, GrantedOnce
<1> QED BY <1>5, <1>8, <1>9, <1>10, <1>11 DEF Rest

(* The work queue frees a block of a run.                                   *)
LEMMA FreeWorkRest == ASSUME NodeInv, BuddyInv, BuddyInv', FreeWork PROVE Rest'
<1>1. PICK i, p, o : /\ i = Proto!Min(Proto!RunsLeft(Head(work).runs))
                     /\ p = Proto!NextBlock.page /\ o = Proto!NextBlock.order
  OBVIOUS
<1> DEFINE S == Block(p, o)
<1>2. /\ work # <<>> /\ Head(work) = work[1] /\ work[1] \in Messages
      /\ i \in Proto!Index /\ work[1].runs[i].count >= 1
      /\ p = work[1].runs[i].pageNO /\ p \in Pages /\ o \in Orders /\ p % Pow2[o] = 0
      /\ Pow2[o] = 2 ^ o /\ Pow2[o] <= work[1].runs[i].count
      /\ S \subseteq Pages
      /\ \A q \in S : q \in Proto!RunPages(work[1].runs[i]) /\ q \in InWork
  BY <1>1, FreeWorkFacts
<1>3. /\ FreeCall(p, o) /\ boot' = boot /\ boot.phase = "ready" /\ cur = Idle
      /\ work' = [work EXCEPT ![1].runs[i] = Proto!AfterBlock(@, o)]
      /\ Proto!RunsLeft(Head(work).runs) # {}
      /\ batch' = batch /\ reply' = reply /\ request' = request
      /\ mine' = mine /\ theirs' = theirs /\ lost' = lost
  BY <1>1 DEF FreeWork, Proto!FreeBlock, owners
<1>4. NodeType /\ OneOwner /\ QueuedOnce /\ GrantedOnce /\ BatchedOnce /\ CountersExact
      /\ BootOwners /\ work \in Seq(Messages)
  BY DEF NodeInv, NodeType, QueueType
<1>5. PICK e : e = Proto!AfterBlock(work[1].runs[i], o)
  OBVIOUS
<1>6. /\ work[1].runs \in [Proto!Index -> Runs] /\ work[1].runs[i] \in Runs /\ 1 \in DOMAIN work
      /\ work[1] = [cmd |-> work[1].cmd, runs |-> work[1].runs]
  BY <1>2, <1>4 DEF Messages
<1>7. e \in Runs /\ Proto!RunPages(e) = Proto!RunPages(work[1].runs[i]) \ S
  BY <1>2, <1>5, <1>6, RunCut
<1>8. work' = [work EXCEPT ![1] = [work[1] EXCEPT !.runs = [work[1].runs EXCEPT ![i] = e]]]
  BY <1>3, <1>5, <1>6
<1>9. PICK R : R = [work[1].runs EXCEPT ![i] = e]
  OBVIOUS
<1>10. /\ R \in [Proto!Index -> Runs]
       /\ \A j \in Proto!Index : R[j] = IF j = i THEN e ELSE work[1].runs[j]
  BY <1>2, <1>6, <1>7, <1>9
<1>11. PICK m : m = [cmd |-> work[1].cmd, runs |-> R]
  OBVIOUS
<1>12. m \in Messages /\ m.cmd = work[1].cmd /\ m.runs = R
  BY <1>2, <1>10, <1>11 DEF Messages
<1>13. work' = [work EXCEPT ![1] = m]
  <2>1. [work[1] EXCEPT !.runs = R] = m
    BY <1>6, <1>11
  <2> QED BY <1>8, <1>9, <2>1
<1>14. /\ work' \in Seq(Messages) /\ DOMAIN work' = DOMAIN work
       /\ \A k \in DOMAIN work : work'[k] = IF k = 1 THEN m ELSE work[k]
  BY <1>4, <1>6, <1>12, <1>13
<1> HIDE DEF S
<1>15. \A k \in DOMAIN work : \A j \in Proto!Index :
         Proto!RunPages(work'[k].runs[j]) =
           IF k = 1 /\ j = i THEN Proto!RunPages(work[k].runs[j]) \ S
           ELSE Proto!RunPages(work[k].runs[j])
  BY <1>7, <1>10, <1>12, <1>14
<1>16. work[1].cmd # "RQST"
  <2>1. \A j \in Proto!Index : Proto!RQST.runs[j].count = 0
    BY DEF Proto!RQST, Proto!Clean, Proto!EmptyRun
  <2>2. work[1] # Proto!RQST
    BY <1>2, <2>1
  <2> QED BY <1>4, <1>6, <2>2 DEF NodeType, QueueType
<1>17. QueueType(work)'
  BY <1>4, <1>12, <1>14, <1>16 DEF NodeType, QueueType
<1>18. QueuedOnce'
  <2> SUFFICES ASSUME NEW q \in Pages, NEW k \in DOMAIN work, NEW l \in DOMAIN work,
                      NEW g \in Proto!Index, NEW h \in Proto!Index,
                      q \in Proto!RunPages(work'[k].runs[g]),
                      q \in Proto!RunPages(work'[l].runs[h])
               PROVE  k = l /\ g = h
    BY <1>14 DEF QueuedOnce
  <2>1. q \in Proto!RunPages(work[k].runs[g]) /\ q \in Proto!RunPages(work[l].runs[h])
    BY <1>15
  <2> QED BY <1>4, <2>1 DEF QueuedOnce
<1>19. InWork' = InWork \ S
  <2>1. ASSUME NEW q \in InWork' PROVE q \in InWork /\ q \notin S
    <3>1. PICK k \in DOMAIN work, j \in Proto!Index : q \in Proto!RunPages(work'[k].runs[j])
      BY <1>14 DEF InWork
    <3>2. q \in Pages /\ q \in Proto!RunPages(work[k].runs[j]) /\ (k = 1 /\ j = i => q \notin S)
      BY <1>15, <3>1 DEF InWork
    <3>3. q \notin S
      <4> SUFFICES ASSUME q \in S PROVE FALSE
        OBVIOUS
      <4>1. q \in Proto!RunPages(work[1].runs[i])
        BY <1>2
      <4> QED BY <1>2, <1>4, <1>6, <3>2, <4>1 DEF QueuedOnce
    <3> QED BY <3>2, <3>3 DEF InWork
  <2>2. ASSUME NEW q \in InWork, q \notin S PROVE q \in InWork'
    BY <1>14, <1>15, <2>2 DEF InWork
  <2> QED BY <2>1, <2>2
<1>20. InBatch' = InBatch /\ InReply' = InReply
  BY <1>3 DEF InBatch, InReply
<1>21. \A q \in S : q \in Owned /\ cntr[q] = 1 /\ q \in Backed
  <2>1. \A q \in S : q \in Owned
    BY <1>2 DEF Owned
  <2> QED BY <2>1, OwnedOut
<1>22. /\ \A q \in Pages : cntr'[q] = IF q \in S THEN 0 ELSE cntr[q]
       /\ CountersExact' /\ cur'.op = "merge"
  BY <1>2, <1>3, <1>4, <1>21, FreeCallOk DEF S
<1>23. Owned' = Owned \ S
  BY <1>2, <1>3, <1>4, <1>19, <1>20 DEF Owned, OneOwner
<1>24. BootOwners'
  BY <1>2, <1>3, <1>4, <1>21, <1>22, <1>23 DEF BootOwners
<1>25. NodeType'
  BY <1>3, <1>4, <1>17 DEF NodeType, Idle
<1>26. OneOwner'
  BY <1>3, <1>4, <1>19, <1>20 DEF OneOwner
<1>27. BatchedOnce' /\ GrantedOnce'
  BY <1>3, <1>4 DEF BatchedOnce, GrantedOnce
<1> QED BY <1>18, <1>22, <1>24, <1>25, <1>26, <1>27 DEF Rest

-----------------------------------------------------------------------------
(* The theorems.                                                           *)

LEMMA InitNode == NodeInit => NodeInv
<1> SUFFICES ASSUME NodeInit PROVE NodeInv
  OBVIOUS
<1>1. /\ Init /\ batch = Proto!Clean /\ work = <<>> /\ reply = <<>> /\ request = NoRequest
      /\ mine = {} /\ theirs = {} /\ lost = {}
  BY DEF NodeInit, Proto!Init
<1>2. MergeInv
  BY <1>1, InitInv, InitMerge DEF MergeInv
<1>3. \A i \in Proto!Index : Proto!RunPages(batch[i]) = {}
  BY <1>1, NoPages DEF Proto!Clean
<1>4. InBatch = {} /\ InWork = {} /\ InReply = {}
  BY <1>1, <1>3 DEF InBatch, InWork, InReply
<1>5. NodeType
  BY <1>1, NoPages, NodeConstants, BuddyConstants DEF NodeType, QueueType, NoRequest, Orders
<1>6. OneOwner /\ BatchedOnce /\ QueuedOnce /\ GrantedOnce
  BY <1>1, <1>3, <1>4 DEF OneOwner, BatchedOnce, QueuedOnce, GrantedOnce
<1>7. CountersExact
  <2>1. Free = {} /\ \A p \in Pages : cntr[p] = 1
    BY <1>1 DEF Init, Free, ListedPages, InFlight, Idle
  <2> QED BY <2>1 DEF CountersExact
<1>8. BootOwners
  <2>1. boot.phase = "fill" /\ cur.op = "idle" /\ \A p \in Pages : cntr[p] = 1
    BY <1>1 DEF Init, Idle
  <2> QED BY <1>1, <1>4, <2>1 DEF BootOwners, Owned
<1> QED BY <1>2, <1>5, <1>6, <1>7, <1>8 DEF NodeInv

LEMMA NodeStep == NodeInv /\ [NodeNext]_allvars => NodeInv'
<1> SUFFICES ASSUME NodeInv, [NodeNext]_allvars PROVE NodeInv'
  OBVIOUS
<1>1. BuddyInv /\ BuddyInv' /\ MergeInv'
  BY MergeNext
<1>2. Rest'
  <2>1. CASE Boot
    BY <1>1, <2>1, BootRest
  <2>2. CASE InCall \/ LocalAlloc \/ RequestCall
    BY <1>1, <2>2, CallRest
  <2>3. CASE LocalReturn
    BY <1>1, <2>3, LocalReturnRest
  <2>4. CASE RequestReturn
    BY <1>1, <2>4, RequestReturnRest
  <2>5. CASE RequestFails
    BY <1>1, <2>5, RequestFailsRest
  <2>6. CASE FreeWork
    BY <1>1, <2>6, FreeWorkRest
  <2>7. CASE FreeDone \/ Ask
    BY <2>7, FreeDoneRest, AskRest
  <2>8. CASE PageReceive \/ ReplyLost
    BY <2>8, TakeReplyRest
  <2>9. ASSUME NEW p \in Pages, GiveBack(p) \/ LocalFree(p) PROVE Rest'
    BY <1>1, <2>9, GiveBackRest, LocalFreeRest
  <2>10. CASE UNCHANGED allvars
    <3>1. UNCHANGED vars /\ UNCHANGED <<messages, owners>> /\ request' = request
          /\ cur' = cur /\ boot' = boot
      BY <2>10 DEF allvars, vars
    <3>2. CountersExact' /\ BootOwners'
      BY <3>1, UnmovedOwned, OutsideAllocator
    <3> QED BY <3>1, <3>2, Unmoved DEF NodeInv, NodeType
  <2> QED BY <2>1, <2>2, <2>3, <2>4, <2>5, <2>6, <2>7, <2>8, <2>9, <2>10 DEF NodeNext, Worker
<1> QED BY <1>1, <1>2 DEF Rest, NodeInv

(* The inductive invariant holds.                                           *)
THEOREM NodeInvariant == NodeSpec => []NodeInv
BY InitNode, NodeStep, PTL DEF NodeSpec

(* The node uses the allocator as ComexBuddy assumes: one call at a time,   *)
(* and COMEX_free_page only for aligned blocks of pages that have memory and *)
(* are all handed out, whatever runs the compute node puts together.        *)
THEOREM NodeUsesAllocator == NodeSpec => UsesAllocator
<1>1. NodeInit => Init
  BY DEF NodeInit
<1>2. NodeInv /\ [NodeNext]_allvars => [Next]_vars
  BY StepUses
<1> QED BY <1>1, <1>2, NodeInvariant, PTL DEF NodeSpec, UsesAllocator, Spec

(* So what is proved of the allocator holds of the node's: two free blocks  *)
(* never share a page, and it implements the abstract allocator.            *)
THEOREM NodeAllocator == NodeSpec => []DisjointBlocks /\ []NoFragmentation /\ AllocatorSpec
BY NodeUsesAllocator, BlocksDisjoint, RequestsServed, Refines DEF UsesAllocator

LEMMA AtMostOne ==
  ASSUME NEW S, \A x, y \in S : x = y
  PROVE  Cardinality(S) = IF S = {} THEN 0 ELSE 1
<1>1. CASE S = {}
  BY <1>1, FS_EmptySet
<1>2. CASE S # {}
  <2>1. PICK x \in S : S = {x}
    BY <1>2
  <2>2. Cardinality({x}) = 1
    BY FS_Singleton
  <2> QED BY <1>2, <2>1, <2>2
<1> QED BY <1>1, <1>2

(* No page with memory is dropped or named twice: it is free, with a holder, *)
(* in the batch, in one message, in one grant, or lost with a message, and  *)
(* only one of these.                                                       *)
THEOREM PagesStayPlaced == NodeSpec => []PagesPlaced
<1>1. NodeInv => PagesPlaced
  <2> SUFFICES ASSUME NodeInv, boot.phase = "ready", NEW p \in Backed PROVE Places(p) = 1
    BY DEF PagesPlaced
  <2> DEFINE A == Proto!Naming(batch, p)
             B == Proto!Carrying(work, p)
             C == {i \in 1 .. 4 : p \in <<ListedPages \union InFlight, mine, theirs, lost>>[i]}
             D == {k \in DOMAIN reply : p \in reply[k]}
  <2>1. p \in Pages /\ OneOwner /\ BatchedOnce /\ QueuedOnce /\ GrantedOnce /\ CountersExact
        /\ BootOwners
    BY BuddyConstants DEF NodeInv
  <2>2. p \in Free <=> p \notin Owned
    BY <2>1 DEF BootOwners, CountersExact
  <2>3. Cardinality(A) = IF p \in InBatch THEN 1 ELSE 0
    <3>1. \A x, y \in A : x = y
      BY <2>1 DEF Proto!Naming, BatchedOnce
    <3>2. A # {} <=> p \in InBatch
      BY <2>1 DEF Proto!Naming, InBatch
    <3> HIDE DEF A
    <3> QED BY <3>1, <3>2, AtMostOne
  <2>4. Cardinality(B) = IF p \in InWork THEN 1 ELSE 0
    <3>1. \A x, y \in B : x = y
      <4> SUFFICES ASSUME NEW x \in B, NEW y \in B PROVE x = y
        OBVIOUS
      <4>1. PICK k \in DOMAIN work, i \in Proto!Index :
              x = <<k, i>> /\ p \in Proto!RunPages(work[k].runs[i])
        BY DEF Proto!Carrying
      <4>2. PICK l \in DOMAIN work, j \in Proto!Index :
              y = <<l, j>> /\ p \in Proto!RunPages(work[l].runs[j])
        BY DEF Proto!Carrying
      <4> QED BY <2>1, <4>1, <4>2 DEF QueuedOnce
    <3>2. B # {} <=> p \in InWork
      <4>1. ASSUME NEW x \in B PROVE p \in InWork
        BY <2>1 DEF Proto!Carrying, InWork
      <4>2. ASSUME p \in InWork PROVE B # {}
        <5>1. PICK k \in DOMAIN work, i \in Proto!Index : p \in Proto!RunPages(work[k].runs[i])
          BY <4>2 DEF InWork
        <5>2. <<k, i>> \in B
          BY <5>1 DEF Proto!Carrying
        <5> QED BY <5>2
      <4> QED BY <4>1, <4>2
    <3> HIDE DEF B
    <3> QED BY <3>1, <3>2, AtMostOne
  <2>5. Cardinality(D) = IF p \in InReply THEN 1 ELSE 0
    <3>1. \A x, y \in D : x = y
      BY <2>1 DEF GrantedOnce
    <3>2. D # {} <=> p \in InReply
      BY <2>1 DEF InReply
    <3> HIDE DEF D
    <3> QED BY <3>1, <3>2, AtMostOne
  <2>6. /\ 1 \in C <=> p \in Free
        /\ 2 \in C <=> p \in mine
        /\ 3 \in C <=> p \in theirs
        /\ 4 \in C <=> p \in lost
        /\ \A i \in C : i = 1 \/ i = 2 \/ i = 3 \/ i = 4
    <3>1. PICK t : t = <<ListedPages \union InFlight, mine, theirs, lost>>
      OBVIOUS
    <3>2. t[1] = Free /\ t[2] = mine /\ t[3] = theirs /\ t[4] = lost
      BY <3>1 DEF Free
    <3>3. C = {i \in 1 .. 4 : p \in t[i]}
      BY <3>1
    <3> HIDE DEF C
    <3>4. /\ 1 \in C <=> p \in t[1]
          /\ 2 \in C <=> p \in t[2]
          /\ 3 \in C <=> p \in t[3]
          /\ 4 \in C <=> p \in t[4]
      BY <3>3
    <3>5. \A i \in C : i = 1 \/ i = 2 \/ i = 3 \/ i = 4
      BY <3>3
    <3> QED BY <3>2, <3>4, <3>5
  <2>7. Cardinality(C) = IF C = {} THEN 0 ELSE 1
    <3>1. \A x, y \in C : x = y
      BY <2>1, <2>2, <2>6 DEF OneOwner, Owned
    <3> HIDE DEF C
    <3> QED BY <3>1, AtMostOne
  <2>8. C # {} <=> p \in Free \/ p \in mine \/ p \in theirs \/ p \in lost
    <3> HIDE DEF C
    <3> QED BY <2>6
  <2>9. Places(p) = Cardinality(A) + Cardinality(B) + Cardinality(C) + Cardinality(D)
    BY DEF Places
  <2> HIDE DEF A, B, C, D
  <2> QED BY <2>1, <2>2, <2>3, <2>4, <2>5, <2>7, <2>8, <2>9 DEF OneOwner, Owned
<1> QED BY <1>1, NodeInvariant, PTL
=============================================================================
