--------------------------- MODULE ComexReadProofs ---------------------------
(***************************************************************************)
(* Theorems about the write-out and read path, for any number of threads,   *)
(* memory nodes and slots, any supply of blocks and any of the failures.     *)
(*                                                                         *)
(* The invariants build on each other: the pools of page numbers (PoolInv),  *)
(* who holds which lock and works on which slots (ThreadInv), who has which  *)
(* page number (GivenInv), and the slots in use (RingInv).  Each is kept by  *)
(* a lemma on what a step may do to it: most steps do very little, and the   *)
(* few that do more are named (TakeStep, HandStep, RingClaim, ...).          *)
(*                                                                         *)
(* That no page is lost takes seven more: where the batch that is written     *)
(* begins (BaseInv), which content of a page is the last (StampInv), that    *)
(* slots are passed in the order of their contents (OrderInv), which pages   *)
(* neighbouring slots are for (ClaimInv), that a batch goes to the pages it  *)
(* is for (StraightInv), that remote is a function (RemoteInv), and that a   *)
(* content waits as long as an older one of its page does (WaitInv).         *)
(*                                                                         *)
(* That a reader finds its own page takes five more: that a thread reads a   *)
(* page alone (AloneInv), that the slot that still waits has the newer        *)
(* content (PassedInv), that the entries of a block are of the thread that    *)
(* has its mutex (BlockInv), that the cache is right or known not to be       *)
(* (CacheInv), and that what was found is right (RightInv).                  *)
(***************************************************************************)
EXTENDS ComexRead, FiniteSetTheorems, FunctionTheorems, WellFoundedInduction, TLAPS

(* The groups of a pool, and the page numbers in it.                        *)
Groups     == {g \in [page_start : Nat, page_end : Nat] : g.page_start <= g.page_end}
PagesOf(q) == UNION {GroupPages(g) : g \in ToSet(q)}
Apart(q)   == \A k, l \in DOMAIN q : k # l => GroupPages(q[k]) \cap GroupPages(q[l]) = {}

GoodPool(q, n) ==
  q \in Seq(Groups) /\ Apart(q) /\ IsFiniteSet(PagesOf(q)) /\ n = Cardinality(PagesOf(q))

PoolInv ==
  /\ total_page = [d \in Nodes |-> total_page[d]] /\ free_group = [d \in Nodes |-> free_group[d]]
  /\ \A d \in Nodes : GoodPool(free_group[d], total_page[d])
  /\ granted \in [Nodes -> Nat] /\ \A d \in Nodes : granted[d] <= Len(Supply[d])

-----------------------------------------------------------------------------
LEMMA MemberPages ==
  ASSUME NEW q \in Seq(Groups)
  PROVE  /\ \A p : p \in PagesOf(q) <=> \E k \in DOMAIN q : p \in GroupPages(q[k])
         /\ PagesOf(q) \subseteq Nat
<1>1. \A k \in DOMAIN q : q[k] \in Groups
  OBVIOUS
<1>2. \A p : p \in PagesOf(q) <=> \E k \in DOMAIN q : p \in GroupPages(q[k])
  BY DEF PagesOf, ToSet
<1>3. \A g \in Groups : GroupPages(g) \subseteq Nat
  BY DEF Groups, GroupPages
<1> QED BY <1>1, <1>2, <1>3

(* What COMEX_freelist_getpage leaves in the list.                          *)
LEMMA RestPages ==
  ASSUME NEW q \in Seq(Groups), q # <<>>, Apart(q)
  PROVE  /\ Head(q) \in Groups /\ Head(q).page_start \in PagesOf(q)
         /\ Rest(q) \in Seq(Groups) /\ Apart(Rest(q))
         /\ PagesOf(Rest(q)) = PagesOf(q) \ {Head(q).page_start}
<1> DEFINE h == Head(q)  r == Rest(q)
<1>1. h \in Groups /\ h = q[1] /\ 1 \in DOMAIN q /\ Len(q) \in Nat /\ Len(q) >= 1
  OBVIOUS
<1>2. Tail(q) \in Seq(Groups) /\ Len(Tail(q)) = Len(q) - 1
      /\ \A k \in 1 .. Len(q) - 1 : Tail(q)[k] = q[k + 1]
  OBVIOUS
<1>3. \A k \in DOMAIN q : q[k] \in Groups
  OBVIOUS
<1>4. h.page_start \in GroupPages(h) /\ h.page_start \in Nat /\ h.page_end \in Nat
  BY <1>1 DEF Groups, GroupPages
<1>5. h.page_start \in PagesOf(q)
  BY <1>1, <1>4, MemberPages
<1>6. CASE h.page_start = h.page_end
  <2>1. r = Tail(q)
    BY <1>6 DEF Rest
  <2>2. GroupPages(h) = {h.page_start}
    BY <1>4, <1>6 DEF GroupPages
  <2>3. Apart(r)
    BY <1>1, <1>2, <2>1 DEF Apart
  <2>4. \A p : p \in PagesOf(r) <=> p \in PagesOf(q) /\ p # h.page_start
    <3> TAKE p
    <3>1. ASSUME p \in PagesOf(r) PROVE p \in PagesOf(q) /\ p # h.page_start
      <4>1. PICK k \in DOMAIN r : p \in GroupPages(r[k])
        BY <1>2, <2>1, <3>1, MemberPages
      <4>2. k + 1 \in DOMAIN q /\ k + 1 # 1 /\ r[k] = q[k + 1]
        BY <1>1, <1>2, <2>1
      <4>3. p \notin GroupPages(h)
        BY <1>1, <4>1, <4>2 DEF Apart
      <4> QED BY <2>2, <4>1, <4>2, <4>3, MemberPages
    <3>2. ASSUME p \in PagesOf(q), p # h.page_start PROVE p \in PagesOf(r)
      <4>1. PICK k \in DOMAIN q : p \in GroupPages(q[k])
        BY <3>2, MemberPages
      <4>2. k # 1
        BY <1>1, <2>2, <3>2, <4>1
      <4>3. k - 1 \in DOMAIN r /\ r[k - 1] = q[k]
        BY <1>1, <1>2, <2>1, <4>2
      <4> QED BY <1>2, <2>1, <4>1, <4>3, MemberPages
    <3> QED BY <3>1, <3>2
  <2> QED BY <1>1, <1>2, <1>5, <2>1, <2>3, <2>4
<1>7. CASE h.page_start # h.page_end
  <2> DEFINE g == [h EXCEPT !.page_start = @ + 1]
  <2>1. g \in Groups /\ GroupPages(g) = GroupPages(h) \ {h.page_start}
    BY <1>1, <1>7 DEF Groups, GroupPages
  <2>2. r = <<g>> \o Tail(q)
    BY <1>7 DEF Rest
  <2> HIDE DEF g
  <2>3. r \in Seq(Groups) /\ Len(r) = Len(q) /\ r[1] = g
        /\ \A k \in 2 .. Len(q) : r[k] = q[k]
    BY <1>1, <1>2, <2>1, <2>2
  <2> HIDE DEF r
  <2>4. DOMAIN r = DOMAIN q /\ \A k \in DOMAIN q : GroupPages(r[k]) = GroupPages(q[k]) \ {h.page_start}
    <3>1. DOMAIN r = DOMAIN q
      BY <2>3
    <3>2. ASSUME NEW k \in DOMAIN q, k # 1
          PROVE  GroupPages(r[k]) = GroupPages(q[k]) \ {h.page_start}
      <4>1. k \in 2 .. Len(q)
        BY <1>1, <3>2
      <4>2. GroupPages(q[k]) \cap GroupPages(q[1]) = {}
        BY <1>1, <3>2 DEF Apart
      <4> QED BY <1>1, <1>4, <2>3, <4>1, <4>2
    <3> QED BY <1>1, <2>1, <2>3, <3>1, <3>2
  <2>5. Apart(r)
    BY <2>4 DEF Apart
  <2>6. PagesOf(r) = PagesOf(q) \ {h.page_start}
    <3>1. \A p : p \in PagesOf(r) <=> \E k \in DOMAIN r : p \in GroupPages(r[k])
      BY <2>3, MemberPages
    <3>2. \A p : p \in PagesOf(q) <=> \E k \in DOMAIN q : p \in GroupPages(q[k])
      BY MemberPages
    <3> QED BY <2>4, <3>1, <3>2
  <2> QED BY <1>1, <1>5, <2>3, <2>5, <2>6 DEF r
<1> QED BY <1>6, <1>7

(* What COMEX_page_receive adds to the list.                                *)
LEMMA AppendPages ==
  ASSUME NEW q \in Seq(Groups), Apart(q), NEW g \in Groups, GroupPages(g) \cap PagesOf(q) = {}
  PROVE  /\ Append(q, g) \in Seq(Groups) /\ Apart(Append(q, g))
         /\ PagesOf(Append(q, g)) = PagesOf(q) \union GroupPages(g)
<1> DEFINE r == Append(q, g)
<1>1. r \in Seq(Groups) /\ Len(r) = Len(q) + 1 /\ r[Len(q) + 1] = g /\ Len(q) \in Nat
      /\ \A k \in 1 .. Len(q) : r[k] = q[k]
  OBVIOUS
<1>2. DOMAIN q = 1 .. Len(q) /\ DOMAIN r = 1 .. Len(q) + 1
  BY <1>1
<1> HIDE DEF r
<1>3. \A p : p \in PagesOf(r) <=> \E k \in DOMAIN r : p \in GroupPages(r[k])
  BY <1>1, MemberPages
<1>4. \A p : p \in PagesOf(q) <=> \E k \in DOMAIN q : p \in GroupPages(q[k])
  BY MemberPages
<1>5. \A k \in DOMAIN r : k \in DOMAIN q \/ k = Len(q) + 1
  BY <1>1, <1>2
<1>6. \A k \in DOMAIN q : k \in DOMAIN r /\ r[k] = q[k] /\ k # Len(q) + 1
  BY <1>1, <1>2
<1>7. Len(q) + 1 \in DOMAIN r
  BY <1>1, <1>2
<1>8. Apart(r)
  BY <1>1, <1>4, <1>5, <1>6 DEF Apart
<1>9. PagesOf(r) = PagesOf(q) \union GroupPages(g)
  BY <1>1, <1>3, <1>4, <1>5, <1>6, <1>7
<1> QED BY <1>1, <1>8, <1>9 DEF r

-----------------------------------------------------------------------------
(* The pool of page numbers.                                               *)

PoolKept(d)  == free_group'[d] = free_group[d] /\ total_page'[d] = total_page[d]
PageTaken(d) ==
  /\ total_page[d] > 0 /\ total_page'[d] = total_page[d] - 1
  /\ free_group'[d] = Rest(free_group[d])
BlockGroup(b) == [page_start |-> b.page, page_end |-> b.page + BlockSize(b.order) - 1]
NextBlock(d)  == Supply[d][granted[d] + 1]
BlockAdded(d) ==
  /\ CanGrant(d)
  /\ free_group'[d] = Append(free_group[d], BlockGroup(NextBlock(d)))
  /\ total_page'[d] = total_page[d] + BlockSize(NextBlock(d).order)

GrantsKept(d)  == granted'[d] = granted[d]
GrantsMore(d)  == CanGrant(d) /\ granted'[d] = granted[d] + 1

(* The steps that touch no pool.                                            *)
LEMMA PoolQuiet ==
  ASSUME ReadNext
  PROVE  \/ UNCHANGED <<total_page, free_group, granted>>
         \/ \E t \in Threads : Claim(t)
         \/ \E d \in Nodes : PageReceive(d) \/ PageReceiveOOM(d) \/ DropRequest(d)
<1>1. \A t \in Threads : MoveCall(t) \/ ReadCall(t) \/ VoidPreFetch(t) \/ FillSlot(t)
                           => UNCHANGED <<total_page, free_group, granted>>
  BY DEF MoveCall, ReadCall, VoidPreFetch, FillSlot, Fill, pool, peers
<1>2. \A t \in Threads : ClaimStep(t) => UNCHANGED <<total_page, free_group, granted>> \/ Claim(t)
  BY DEF ClaimStep, TryLock, TryLockFails, CheckFull, NextNode, pool, peers
<1>3. \A t \in Threads : FlushStep(t) \/ RdmaWriteFails(t)
                           => UNCHANGED <<total_page, free_group, granted>>
  BY ZenonT(30) DEF FlushStep, FlushLock, FlushWhile, FlushCompare, FlushCheck, FlushPost, RdmaWrite,
         RdmaWriteFails, FreeBuff, FlushUnlock, pool, peers
<1>4. \A t \in Threads : ReadStep(t) \/ ReadBlockFails(t)
                           => UNCHANGED <<total_page, free_group, granted>>
  BY Zenon DEF ReadStep, LookInBuffer, CopyFromBuffer, LookInPreFetch, CopyFromPreFetch, LockBlock,
         ReadBlock, ReadBlockFails, MarkBlock, FreeToRemote, Found, pool, peers
<1>5. \A d \in Nodes : PageRefused(d) \/ ZapEntry(d)
                         => UNCHANGED <<total_page, free_group, granted>>
  BY DEF PageRefused, ZapEntry, pool, peers
<1> QED BY <1>1, <1>2, <1>3, <1>4, <1>5
       DEF ReadNext, Proceed, MoveStep, Grant, Receive, Fails

LEMMA PoolStep ==
  ASSUME PoolInv, [ReadNext]_readVars
  PROVE  /\ total_page' = [d \in Nodes |-> total_page'[d]]
         /\ free_group' = [d \in Nodes |-> free_group'[d]]
         /\ granted' = [d \in Nodes |-> granted'[d]]
         /\ \A d \in Nodes : \/ PoolKept(d) /\ (GrantsKept(d) \/ GrantsMore(d))
                             \/ PageTaken(d) /\ GrantsKept(d)
                             \/ BlockAdded(d) /\ GrantsMore(d)
<1> USE DEF PoolInv, PoolKept, PageTaken, BlockAdded, GrantsKept, GrantsMore
<1>1. CASE UNCHANGED <<total_page, free_group, granted>>
  BY <1>1
<1>2. CASE UNCHANGED readVars
  BY <1>2 DEF readVars, vars
<1>3. ASSUME NEW t \in Threads, Claim(t)
      PROVE  /\ total_page' = [total_page EXCEPT ![thread[t].dest] = @ - 1]
             /\ free_group' = [free_group EXCEPT ![thread[t].dest] = Rest(@)]
             /\ total_page[thread[t].dest] > 0 /\ granted' = granted
  BY <1>3 DEF Claim, Claimable, peers
<1>4. ASSUME NEW d \in Nodes, PageReceive(d)
      PROVE  /\ total_page' = [total_page EXCEPT ![d] = @ + BlockSize(NextBlock(d).order)]
             /\ free_group' = [free_group EXCEPT ![d] = Append(@, BlockGroup(NextBlock(d)))]
             /\ granted' = [granted EXCEPT ![d] = @ + 1] /\ CanGrant(d)
  BY <1>4 DEF PageReceive, NextBlock, BlockGroup
<1>5. ASSUME NEW d \in Nodes, PageReceiveOOM(d) \/ DropRequest(d)
      PROVE  /\ total_page' = total_page /\ free_group' = free_group
             /\ \/ granted' = granted
                \/ granted' = [granted EXCEPT ![d] = @ + 1] /\ CanGrant(d)
  <2>1. CASE PageReceiveOOM(d)
    BY <2>1 DEF PageReceiveOOM
  <2>2. CASE DropRequest(d)
    BY <2>2 DEF DropRequest, pool
  <2> QED BY <1>5, <2>1, <2>2
<1>6. CASE ReadNext
  <2>1. CASE \E t \in Threads : Claim(t)
    <3>1. PICK t \in Threads : Claim(t)
      BY <2>1
    <3> DEFINE e == thread[t].dest
    <3>2. /\ total_page' = [total_page EXCEPT ![e] = @ - 1] /\ total_page[e] > 0
          /\ free_group' = [free_group EXCEPT ![e] = Rest(@)] /\ granted' = granted
      BY <1>3, <3>1
    <3> HIDE DEF e
    <3>3. \A d \in Nodes : (PoolKept(d) \/ PageTaken(d)) /\ GrantsKept(d)
      BY <3>2
    <3> QED BY <3>2, <3>3
  <2>2. CASE \E d \in Nodes : PageReceive(d)
    BY <1>4, <2>2
  <2>3. CASE \E d \in Nodes : PageReceiveOOM(d) \/ DropRequest(d)
    BY <1>5, <2>3
  <2> QED BY <1>1, <1>6, <2>1, <2>2, <2>3, PoolQuiet
<1> QED BY <1>2, <1>6

(* A block that can be granted.                                             *)
LEMMA BlockGood ==
  ASSUME PoolInv, NEW d \in Nodes, granted[d] < Len(Supply[d])
  PROVE  /\ NextBlock(d) \in [page : Nat, order : Nat]
         /\ BlockSize(NextBlock(d).order) \in Nat \ {0}
         /\ BlockGroup(NextBlock(d)) \in Groups
         /\ GroupPages(BlockGroup(NextBlock(d))) = BlockPages(NextBlock(d))
         /\ IsFiniteSet(BlockPages(NextBlock(d)))
         /\ Cardinality(BlockPages(NextBlock(d))) = BlockSize(NextBlock(d).order)
<1> DEFINE b == NextBlock(d)
<1>1. Supply[d] \in Seq([page : Nat, order : Nat]) /\ granted[d] + 1 \in DOMAIN Supply[d]
  BY WriteOutConstants DEF PoolInv
<1>2. b \in [page : Nat, order : Nat] /\ 2 ^ b.order \in Nat \ {0}
  <2>1. b \in [page : Nat, order : Nat]
    <3> DEFINE S == [page : Nat, order : Nat]  q == Supply[d]
    <3>1. q \in Seq(S)
      BY <1>1
    <3> HIDE DEF S, q
    <3>2. \A k \in DOMAIN q : q[k] \in S
      BY <3>1
    <3>3. \A k \in DOMAIN Supply[d] : Supply[d][k] \in [page : Nat, order : Nat]
      BY <3>2 DEF S, q
    <3> QED BY <1>1, <3>3, Zenon DEF NextBlock
  <2>2. \A k \in DOMAIN Supply[d] : 2 ^ Supply[d][k].order \in Nat \ {0}
    BY WriteOutConstants
  <2> QED BY <1>1, <2>1, <2>2, Zenon DEF NextBlock
<1> HIDE DEF b
<1>3. BlockSize(b.order) = 2 ^ b.order /\ BlockPages(b) = b.page .. b.page + 2 ^ b.order - 1
  BY DEF BlockSize, BlockPages
<1> DEFINE n == 2 ^ b.order
<1>4. n \in Nat \ {0} /\ b.page \in Nat
  BY <1>2
<1> HIDE DEF n
<1>5. BlockGroup(b) = [page_start |-> b.page, page_end |-> b.page + n - 1]
  BY <1>3 DEF BlockGroup, n
<1>6. BlockGroup(b) \in Groups /\ GroupPages(BlockGroup(b)) = b.page .. b.page + n - 1
  BY <1>4, <1>5 DEF Groups, GroupPages
<1>7. IsFiniteSet(b.page .. b.page + n - 1) /\ Cardinality(b.page .. b.page + n - 1) = n
  <2> DEFINE z == b.page + n - 1
  <2>1. b.page \in Int /\ z \in Int /\ ~(b.page > z) /\ z - b.page + 1 = n
    BY <1>4
  <2> HIDE DEF z
  <2>2. IsFiniteSet(b.page .. z) /\ Cardinality(b.page .. z) = n
    BY <2>1, FS_Interval
  <2> QED BY <2>2 DEF z
<1> QED BY <1>2, <1>3, <1>4, <1>6, <1>7 DEF b, n

LEMMA PoolHeld == ReadSpec => []PoolInv
<1>1. ReadInit => PoolInv
  <2>1. GoodPool(<<>>, 0)
    BY FS_EmptySet DEF GoodPool, Apart, PagesOf, ToSet
  <2>2. \A d \in Nodes : Len(Supply[d]) \in Nat
    BY WriteOutConstants
  <2> QED BY <2>1, <2>2 DEF ReadInit, Init, PoolInv
<1>2. ASSUME PoolInv, [ReadNext]_readVars PROVE PoolInv'
  <2> DEFINE T(d) == \/ PoolKept(d) /\ (GrantsKept(d) \/ GrantsMore(d))
                     \/ PageTaken(d) /\ GrantsKept(d)
                     \/ BlockAdded(d) /\ GrantsMore(d)
  <2>1. /\ total_page' = [d \in Nodes |-> total_page'[d]]
        /\ free_group' = [d \in Nodes |-> free_group'[d]]
        /\ granted' = [d \in Nodes |-> granted'[d]]
        /\ \A d \in Nodes : T(d)
    BY <1>2, PoolStep
  <2>2. ASSUME NEW d \in Nodes PROVE GoodPool(free_group'[d], total_page'[d])
    <3> DEFINE q == free_group[d]  n == total_page[d]
    <3>1. q \in Seq(Groups) /\ Apart(q) /\ IsFiniteSet(PagesOf(q)) /\ n = Cardinality(PagesOf(q))
      BY <1>2 DEF PoolInv, GoodPool
    <3>2. CASE PoolKept(d)
      BY <3>1, <3>2 DEF PoolKept, GoodPool
    <3>3. CASE PageTaken(d)
      <4>1. n > 0 /\ total_page'[d] = n - 1 /\ free_group'[d] = Rest(q)
        BY <3>3 DEF PageTaken
      <4>2. q # <<>>
        <5>1. PagesOf(<<>>) = {}
          BY DEF PagesOf, ToSet
        <5> QED BY <3>1, <4>1, <5>1, FS_EmptySet
      <4>3. /\ Head(q).page_start \in PagesOf(q) /\ Rest(q) \in Seq(Groups) /\ Apart(Rest(q))
            /\ PagesOf(Rest(q)) = PagesOf(q) \ {Head(q).page_start}
        BY <3>1, <4>2, RestPages
      <4> HIDE DEF q, n
      <4>4. IsFiniteSet(PagesOf(Rest(q))) /\ Cardinality(PagesOf(Rest(q))) = n - 1
        BY <3>1, <4>3, FS_RemoveElement
      <4> QED BY <4>1, <4>3, <4>4 DEF GoodPool
    <3>4. CASE BlockAdded(d)
      <4> DEFINE g == BlockGroup(NextBlock(d))  m == BlockSize(NextBlock(d).order)
      <4>1. /\ granted[d] < Len(Supply[d]) /\ BlockPages(NextBlock(d)) \cap InUse(d) = {}
            /\ free_group'[d] = Append(q, g) /\ total_page'[d] = n + m
        BY <3>4 DEF BlockAdded, CanGrant, NextBlock
      <4>2. /\ g \in Groups /\ GroupPages(g) = BlockPages(NextBlock(d))
            /\ IsFiniteSet(GroupPages(g)) /\ Cardinality(GroupPages(g)) = m /\ m \in Nat
        BY <1>2, <4>1, BlockGood
      <4>3. GroupPages(g) \cap PagesOf(q) = {}
        BY <4>1, <4>2 DEF InUse, PagesOf
      <4> HIDE DEF g, m, q, n
      <4>4. /\ Append(q, g) \in Seq(Groups) /\ Apart(Append(q, g))
            /\ PagesOf(Append(q, g)) = PagesOf(q) \union GroupPages(g)
        BY <3>1, <4>2, <4>3, AppendPages
      <4>5. PagesOf(q) \cap GroupPages(g) = {}
        BY <4>3
      <4>6. Cardinality({}) = 0 /\ n \in Nat
        BY <3>1, FS_EmptySet, FS_CardinalityType
      <4>7. /\ IsFiniteSet(PagesOf(q) \union GroupPages(g))
            /\ Cardinality(PagesOf(q) \union GroupPages(g)) = n + m
        <5> DEFINE S == PagesOf(q)  U == GroupPages(g)
        <5>1. /\ IsFiniteSet(S) /\ IsFiniteSet(U) /\ S \cap U = {}
              /\ Cardinality(S) = n /\ Cardinality(U) = m
          BY <3>1, <4>2, <4>5
        <5> HIDE DEF S, U
        <5>2. /\ IsFiniteSet(S \union U)
              /\ Cardinality(S \union U) = Cardinality(S) + Cardinality(U) - Cardinality(S \cap U)
          BY <5>1, FS_Union
        <5>3. Cardinality(S \union U) = n + m - 0
          BY <4>6, <5>1, <5>2
        <5> QED BY <4>2, <4>6, <5>2, <5>3 DEF S, U
      <4> QED BY <4>1, <4>4, <4>7 DEF GoodPool
    <3> QED BY <2>1, <3>2, <3>3, <3>4
  <2>3. ASSUME NEW d \in Nodes PROVE granted'[d] \in Nat /\ granted'[d] <= Len(Supply[d])
    <3>1. granted[d] \in Nat /\ Len(Supply[d]) \in Nat /\ granted[d] <= Len(Supply[d])
      BY <1>2, WriteOutConstants DEF PoolInv
    <3>2. GrantsKept(d) \/ GrantsMore(d)
      BY <2>1
    <3> QED BY <3>1, <3>2 DEF GrantsKept, GrantsMore, CanGrant
  <2> HIDE DEF T
  <2>4. granted' \in [Nodes -> Nat]
    BY <2>1, <2>3
  <2> QED BY <2>1, <2>2, <2>3, <2>4 DEF PoolInv
<1> QED BY <1>1, <1>2, PTL DEF ReadSpec

-----------------------------------------------------------------------------
(* The threads, the locks they hold and the slots they work on.            *)

MarkPcs  == {"while", "compare", "check", "post"}
FlushPcs == MarkPcs \union {"rdma", "free", "unlock"}
ReadPcs  == {"rbuf", "rcopy", "rpre", "rprecopy", "rlock", "rread", "rmark", "rdone"}
IdlePcs  == {"idle", "try"} \union ReadPcs
Pcs      == IdlePcs \union {"full", "claim", "void", "fill", "lock"} \union FlushPcs

ThreadType ==
  [pc : Pcs, dest : Nodes, i : Nat, slot : Slots, page : Int, first : Slots, count : Nat,
   gap : BOOLEAN, late : BOOLEAN, back : {"idle", "claim"}]

SlotType == [status : {-1, 1, 2, 3}, pageNO : Int, data : Int \X Int]

TypeInv ==
  /\ mutex_FG \in [Nodes -> Threads \union {None, Worker}]
  /\ pos_mutex \in [Nodes -> Threads \union {None}]
  /\ head \in [Nodes -> Slots] /\ tail \in [Nodes -> Slots]
  /\ buff \in [Nodes -> [Slots -> SlotType]]
  /\ thread \in [Threads -> ThreadType]
  /\ moved \in [Nodes -> SUBSET (Nat \X Nat)]

(* Who holds mutex_FG, and pos_mutex, of a node.                            *)
Pools(r, d) ==
  /\ r.dest = d
  /\ r.pc \in {"full", "claim"} \/ (r.pc \in {"lock"} \union FlushPcs /\ r.back = "claim")
Flushes(r, d) == r.dest = d /\ r.pc \in FlushPcs

Locks ==
  \A t \in Threads : \A d \in Nodes :
    /\ Pools(thread[t], d) <=> mutex_FG[d] = t
    /\ Flushes(thread[t], d) <=> pos_mutex[d] = t

(* A slot has a page number when it is filled.                              *)
SlotForm(b) ==
  /\ b.status \in {-1, 1} => b.pageNO = -1
  /\ b.status \in {2, 3} => b.pageNO \in Nat /\ b.data[1] = b.pageNO
SlotForms == \A d \in Nodes : \A s \in Slots : SlotForm(buff[d][s])

(* The slots of a flush are its own: from head on, or the batch it writes.   *)
FlushForm(r, h, b) ==
  /\ r.pc \in MarkPcs =>
       /\ h + r.count <= total_writeOut
       /\ r.pc # "post" => h + r.count < total_writeOut
       /\ r.pc # "while" => r.count >= 1
       /\ \A s \in Slots : h <= s /\ s < h + r.count => b[s].status = 3
  /\ r.pc \in {"rdma", "free"} =>
       /\ r.first + r.count <= total_writeOut /\ r.count >= 1
       /\ \A s \in Slots : r.first <= s /\ s < r.first + r.count => b[s].status = 3
FlushForms == \A t \in Threads : FlushForm(thread[t], head[thread[t].dest], buff[thread[t].dest])

(* The slots that threads fill are claimed, each by one.                    *)
Fills(r, d) == r.pc \in {"void", "fill"} /\ r.dest = d
FillForms ==
  \A t \in Threads : \A d \in Nodes : Fills(thread[t], d) =>
    /\ thread[t].page \in Nat /\ buff[d][thread[t].slot].status = 1
    /\ \A u \in Threads : Fills(thread[u], d) /\ u # t => thread[u].slot # thread[t].slot

ThreadInv == TypeInv /\ Locks /\ SlotForms /\ FlushForms /\ FillForms

(* What a step of one thread may do to the others.                          *)
OwnLocks(t) ==
  \A d \in Nodes :
    /\ mutex_FG'[d] # mutex_FG[d] => {mutex_FG[d], mutex_FG'[d]} = {t, None}
    /\ pos_mutex'[d] # pos_mutex[d] => {pos_mutex[d], pos_mutex'[d]} = {t, None}
OwnSlots(t) ==
  \A d \in Nodes :
    /\ head'[d] # head[d] => Flushes(thread[t], d)
    /\ \A s \in Slots :
         /\ buff[d][s].status = 3 => buff'[d][s].status = 3 \/ Flushes(thread[t], d)
         /\ buff[d][s].status = 1 =>
              buff'[d][s].status = 1 \/ (Fills(thread[t], d) /\ s = thread[t].slot)

LEMMA ThreadStep ==
  ASSUME ThreadInv, NEW t \in Threads, NEW r \in ThreadType, thread' = [thread EXCEPT ![t] = r],
         TypeInv', SlotForms', OwnLocks(t), OwnSlots(t),
         \A d \in Nodes : (Pools(r, d) <=> mutex_FG'[d] = t) /\ (Flushes(r, d) <=> pos_mutex'[d] = t),
         FlushForm(r, head'[r.dest], buff'[r.dest]),
         \A d \in Nodes : Fills(r, d) =>
           /\ r.page \in Nat /\ buff'[d][r.slot].status = 1
           /\ (Fills(thread[t], d) /\ r.slot = thread[t].slot) \/ buff[d][r.slot].status # 1
  PROVE  ThreadInv'
<1>1. /\ thread \in [Threads -> ThreadType] /\ thread'[t] = r
      /\ \A u \in Threads : u # t => thread'[u] = thread[u]
  BY DEF ThreadInv, TypeInv
<1>2. None \notin Threads /\ Worker \notin Threads
  BY WriteOutConstants
<1>3. Locks'
  <2>1. ASSUME NEW u \in Threads, u # t, NEW d \in Nodes
        PROVE  (mutex_FG'[d] = u <=> mutex_FG[d] = u) /\ (pos_mutex'[d] = u <=> pos_mutex[d] = u)
    BY <1>2, <2>1 DEF OwnLocks
  <2> QED BY <1>1, <2>1 DEF ThreadInv, Locks, Pools, Flushes
<1>4. ASSUME NEW u \in Threads, u # t
      PROVE  FlushForm(thread'[u], head'[thread'[u].dest], buff'[thread'[u].dest])
  <2> DEFINE d == thread[u].dest
  <2>1. d \in Nodes /\ thread[u] \in ThreadType
    BY <1>1 DEF ThreadType
  <2>2. FlushForm(thread[u], head[d], buff[d])
    BY DEF ThreadInv, FlushForms
  <2>3. CASE thread[u].pc \notin FlushPcs
    BY <1>1, <1>4, <2>3 DEF FlushForm, FlushPcs, MarkPcs
  <2>4. CASE thread[u].pc \in FlushPcs
    <3>1. pos_mutex[d] = u
      BY <2>1, <2>4 DEF ThreadInv, Locks, Flushes
    <3>2. ~Flushes(thread[t], d)
      BY <1>4, <2>1, <3>1 DEF ThreadInv, Locks
    <3>3. head'[d] = head[d]
          /\ \A s \in Slots : buff[d][s].status = 3 => buff'[d][s].status = 3
      BY <2>1, <3>2 DEF OwnSlots
    <3> HIDE DEF d
    <3>4. FlushForm(thread[u], head'[d], buff'[d])
      BY <2>2, <3>3 DEF FlushForm
    <3> QED BY <1>1, <1>4, <3>4 DEF d
  <2> QED BY <2>3, <2>4
<1>5. FlushForms'
  BY <1>1, <1>4 DEF FlushForms
<1>6. ASSUME NEW u \in Threads, NEW d \in Nodes, Fills(thread'[u], d)
      PROVE  /\ thread'[u].page \in Nat /\ buff'[d][thread'[u].slot].status = 1
             /\ \A v \in Threads : Fills(thread'[v], d) /\ v # u => thread'[v].slot # thread'[u].slot
  <2>1. \A v \in Threads : Fills(thread[v], d) =>
          /\ thread[v].page \in Nat /\ buff[d][thread[v].slot].status = 1
          /\ \A w \in Threads : Fills(thread[w], d) /\ w # v => thread[w].slot # thread[v].slot
    BY DEF ThreadInv, FillForms
  <2>2. \A v \in Threads : thread[v].slot \in Slots
    BY <1>1 DEF ThreadType
  <2>3. Fills(r, d) =>
          /\ r.page \in Nat /\ buff'[d][r.slot].status = 1
          /\ (Fills(thread[t], d) /\ r.slot = thread[t].slot) \/ buff[d][r.slot].status # 1
    OBVIOUS
  <2>4. \A v \in Threads : v # t /\ Fills(thread[v], d) => buff'[d][thread[v].slot].status = 1
    BY <2>1, <2>2 DEF OwnSlots
  <2> QED BY <1>1, <1>6, <2>1, <2>3, <2>4
<1>7. FillForms'
  BY <1>6 DEF FillForms
<1> QED BY <1>3, <1>5, <1>7 DEF ThreadInv

(* A thread that does nothing with the ring.                                *)
MovedLess ==
  moved' = [d \in Nodes |-> moved'[d]] /\ \A d \in Nodes : moved'[d] \subseteq moved[d]

QuietStep(t) ==
  \E r \in ThreadType :
    /\ thread[t].pc \in IdlePcs /\ r.pc \in IdlePcs
    /\ thread' = [thread EXCEPT ![t] = r]
    /\ UNCHANGED <<pool, ring, peers>> /\ MovedLess

LEMMA QuietKept ==
  ASSUME ThreadInv, NEW t \in Threads, QuietStep(t)
  PROVE  ThreadInv'
<1>1. PICK r \in ThreadType :
        /\ thread[t].pc \in IdlePcs /\ r.pc \in IdlePcs /\ thread' = [thread EXCEPT ![t] = r]
        /\ UNCHANGED <<pool, ring, peers>> /\ MovedLess
  BY DEF QuietStep
<1>2. UNCHANGED <<mutex_FG, head, tail, pos_mutex, buff>>
  BY <1>1 DEF pool, ring
<1>3. TypeInv' /\ SlotForms'
  <2>1. moved' \in [Nodes -> SUBSET (Nat \X Nat)]
    <3>1. \A d \in Nodes : moved'[d] \in SUBSET (Nat \X Nat)
      BY <1>1 DEF ThreadInv, TypeInv, MovedLess
    <3> QED BY <1>1, <3>1, Zenon DEF MovedLess
  <2> QED BY <1>1, <1>2, <2>1 DEF ThreadInv, TypeInv, SlotForms
<1>4. OwnLocks(t) /\ OwnSlots(t)
  BY <1>2 DEF OwnLocks, OwnSlots
<1>5. \A d \in Nodes : /\ ~Pools(r, d) /\ ~Flushes(r, d) /\ ~Fills(r, d)
                       /\ ~Pools(thread[t], d) /\ ~Flushes(thread[t], d)
  BY <1>1 DEF Pools, Flushes, Fills, IdlePcs, ReadPcs, FlushPcs, MarkPcs
<1>6. \A d \in Nodes : mutex_FG'[d] # t /\ pos_mutex'[d] # t
  BY <1>2, <1>5 DEF ThreadInv, Locks
<1>7. FlushForm(r, head'[r.dest], buff'[r.dest])
  BY <1>1 DEF FlushForm, IdlePcs, ReadPcs, FlushPcs, MarkPcs
<1> QED BY <1>1, <1>3, <1>4, <1>5, <1>6, <1>7, ThreadStep

-----------------------------------------------------------------------------
LEMMA HashType == \A a, b \in Nat : COMEX_hash(a, b) \in Nodes
<1> TAKE a, b \in Nat
<1> DEFINE x == a * b + 1
<1>1. x \in Int /\ nMemNodes \in Nat \ {0}
  BY WriteOutConstants
<1> HIDE DEF x
<1>2. x % nMemNodes \in 0 .. nMemNodes - 1
  BY <1>1
<1> QED BY <1>2 DEF COMEX_hash, Nodes, x

LEMMA WrapType == \A x \in Int : x % total_writeOut \in Slots
  BY WriteOutConstants DEF Slots

LEMMA GrantsType ==
  ASSUME PoolInv, NEW d \in Nodes, NEW p
  PROVE  Grants(d, p) \in Nat
<1> DEFINE S == 1 .. granted[d]  U == {k \in 1 .. granted[d] : p \in BlockPages(Supply[d][k])}
<1>1. granted[d] \in Nat
  BY DEF PoolInv
<1>2. IsFiniteSet(S)
  BY <1>1, FS_Interval
<1>3. IsFiniteSet(U)
  <2>1. U \in SUBSET S
    OBVIOUS
  <2> HIDE DEF S, U
  <2> QED BY <1>2, <2>1, FS_Subset
<1> HIDE DEF U
<1>4. Cardinality(U) \in Nat
  BY <1>3, FS_CardinalityType
<1> QED BY <1>4 DEF Grants, U

(* The first of the slots that wait with a page.                            *)
LEMMA MinOfSlots ==
  ASSUME NEW S \in SUBSET Slots, S # {}
  PROVE  Min(S) \in S
<1>1. S \in SUBSET Nat
  BY DEF Slots
<1> DEFINE R == OpToRel(<, Nat)
<1>2. IsWellFoundedOn(R, Nat)
  BY NatLessThanWellFounded
<1>3. \A k, m \in Nat : k < m => <<k, m>> \in R
  BY DEF OpToRel
<1> HIDE DEF R
<1>4. PICK m \in S : \A k \in S : ~(<<k, m>> \in R)
  BY <1>1, <1>2, WFMin
<1>5. ASSUME NEW k \in S PROVE m <= k
  <2>1. k \in Nat /\ m \in Nat /\ ~(k < m)
    BY <1>1, <1>3, <1>4
  <2> QED BY <2>1
<1> QED BY <1>5, Zenon DEF Min

LEMMA IdleType == IdleThread \in ThreadType /\ IdleThread.pc \in IdlePcs
  BY WriteOutConstants DEF IdleThread, ThreadType, Pcs, IdlePcs, Slots, Nodes

LEMMA MovedSame ==
  ASSUME ThreadInv, UNCHANGED moved
  PROVE  MovedLess
BY DEF ThreadInv, TypeInv, MovedLess

LEMMA MoveCallQuiet ==
  ASSUME ThreadInv, NEW t \in Threads, MoveCall(t)
  PROVE  QuietStep(t)
<1>1. COMEX_ID \in Nat /\ Seeds \subseteq Nat
  BY WriteOutConstants
<1>2. PICK seed \in Seeds :
        thread' = [thread EXCEPT ![t] = [IdleThread EXCEPT !.pc = "try", !.dest = COMEX_hash(seed, COMEX_ID)]]
  BY DEF MoveCall
<1> DEFINE n == COMEX_hash(seed, COMEX_ID)
<1>3. n \in Nodes
  BY <1>1, HashType
<1> HIDE DEF n
<1>4. [IdleThread EXCEPT !.pc = "try", !.dest = n] \in ThreadType
  BY <1>3, IdleType DEF ThreadType, Pcs, IdlePcs
<1>5. thread[t].pc \in IdlePcs /\ [IdleThread EXCEPT !.pc = "try", !.dest = n].pc \in IdlePcs
  BY DEF MoveCall, IdlePcs, IdleThread
<1> QED BY <1>2, <1>4, <1>5, MovedSame DEF QuietStep, MoveCall, n

(* The steps of a reader, which only moves on or ends.                      *)
LEMMA GotoQuiet ==
  ASSUME ThreadInv, NEW t \in Threads, NEW where \in IdlePcs, Goto(t, where),
         thread[t].pc \in IdlePcs, UNCHANGED <<pool, ring, peers, moved>>
  PROVE  QuietStep(t)
<1> DEFINE r == [thread[t] EXCEPT !.pc = where]
<1>1. thread \in [Threads -> ThreadType]
  BY DEF ThreadInv, TypeInv
<1>2. r \in ThreadType /\ r.pc = where
  BY <1>1 DEF ThreadType, Pcs
<1>3. thread' = [thread EXCEPT ![t] = r]
  BY DEF Goto
<1> QED BY <1>2, <1>3, MovedSame DEF QuietStep

LEMMA ReadStepQuiet ==
  ASSUME ThreadInv, NEW t \in Threads, ReadStep(t) \/ ReadBlockFails(t) \/ TryLockFails(t)
  PROVE  QuietStep(t)
<1> USE DEF Found
<1>1. CASE TryLockFails(t)
  BY <1>1, GotoQuiet DEF TryLockFails, IdlePcs
<1>2. CASE CopyFromBuffer(t)
  BY <1>2, GotoQuiet DEF CopyFromBuffer, IdlePcs, ReadPcs
<1>3. CASE LookInPreFetch(t)
  BY <1>3, GotoQuiet DEF LookInPreFetch, IdlePcs, ReadPcs
<1>4. CASE CopyFromPreFetch(t)
  BY <1>4, GotoQuiet DEF CopyFromPreFetch, IdlePcs, ReadPcs
<1>5. CASE LockBlock(t)
  BY <1>5, GotoQuiet DEF LockBlock, IdlePcs, ReadPcs
<1>6. CASE ReadBlock(t)
  BY <1>6, GotoQuiet DEF ReadBlock, IdlePcs, ReadPcs
<1>7. CASE ReadBlockFails(t)
  BY <1>7, GotoQuiet DEF ReadBlockFails, IdlePcs, ReadPcs
<1>8. CASE MarkBlock(t)
  BY <1>8, GotoQuiet DEF MarkBlock, IdlePcs, ReadPcs
<1>9. CASE FreeToRemote(t)
  <2>1. moved' = [moved EXCEPT ![thread[t].dest] = {c \in @ : c[1] # thread[t].page}]
    BY <1>9 DEF FreeToRemote
  <2>2. MovedLess
    BY <2>1 DEF ThreadInv, TypeInv, MovedLess
  <2> QED BY <1>9, <2>2, IdleType DEF FreeToRemote, QuietStep, IdlePcs, ReadPcs
<1>10. CASE LookInBuffer(t)
  <2> DEFINE found == Holding(thread[t].dest, thread[t].page)
             at == IF found = {} THEN 0 ELSE Min(found)
             pc == IF found = {} THEN "rpre" ELSE "rcopy"
             r == [thread[t] EXCEPT !.pc = pc, !.slot = at]
  <2>1. found \in SUBSET Slots
    BY DEF Holding
  <2>2. at \in Slots
    BY <2>1, MinOfSlots, WriteOutConstants DEF Slots
  <2>3. thread' = [thread EXCEPT ![t].pc = pc, ![t].slot = at]
    BY <1>10 DEF LookInBuffer
  <2>4. pc \in ReadPcs
    BY DEF ReadPcs
  <2> HIDE DEF at, pc
  <2>5. thread \in [Threads -> ThreadType]
    BY DEF ThreadInv, TypeInv
  <2>6. r \in ThreadType /\ r.pc \in IdlePcs
    BY <2>2, <2>4, <2>5, ZenonT(30) DEF ThreadType, Pcs, IdlePcs
  <2>7. thread' = [thread EXCEPT ![t] = r]
    BY <2>3, <2>5
  <2> QED BY <1>10, <2>6, <2>7, MovedSame DEF QuietStep, LookInBuffer, IdlePcs, ReadPcs
<1> QED BY <1>1, <1>2, <1>3, <1>4, <1>5, <1>6, <1>7, <1>8, <1>9, <1>10 DEF ReadStep

LEMMA ReadCallQuiet ==
  ASSUME ThreadInv, NEW t \in Threads, ReadCall(t)
  PROVE  QuietStep(t)
<1> PICK d \in Nodes : \E c \in moved[d] :
      thread' = [thread EXCEPT ![t] = [IdleThread EXCEPT !.pc = "rbuf", !.dest = d, !.page = c[1]]]
  BY DEF ReadCall
<1>1. PICK c \in moved[d] :
        thread' = [thread EXCEPT ![t] = [IdleThread EXCEPT !.pc = "rbuf", !.dest = d, !.page = c[1]]]
  OBVIOUS
<1>2. c[1] \in Int
  BY DEF ThreadInv, TypeInv
<1> DEFINE r == [IdleThread EXCEPT !.pc = "rbuf", !.dest = d, !.page = c[1]]
<1>3. r \in ThreadType /\ r.pc \in IdlePcs
  BY <1>2, IdleType DEF ThreadType, Pcs, IdlePcs, ReadPcs
<1>4. thread[t].pc \in IdlePcs
  BY DEF ReadCall, IdlePcs
<1> QED BY <1>1, <1>3, <1>4, MovedSame DEF QuietStep, ReadCall

(* What the work queue and the owners of pages do.                          *)
NodeStep ==
  /\ thread' = thread /\ UNCHANGED <<ring, remote>> /\ MovedLess
  /\ \/ mutex_FG' = mutex_FG
     \/ \E d \in Nodes : mutex_FG[d] = None /\ mutex_FG' = [mutex_FG EXCEPT ![d] = Worker]

LEMMA NodeStepKept ==
  ASSUME ThreadInv, NodeStep
  PROVE  ThreadInv'
<1>1. UNCHANGED <<thread, head, tail, pos_mutex, buff>>
  BY DEF NodeStep, ring
<1>2. None \notin Threads /\ Worker \notin Threads
  BY WriteOutConstants
<1>3. mutex_FG' \in [Nodes -> Threads \union {None, Worker}]
  BY DEF NodeStep, ThreadInv, TypeInv
<1>4. \A t \in Threads : \A d \in Nodes : mutex_FG'[d] = t <=> mutex_FG[d] = t
  BY <1>2 DEF NodeStep, ThreadInv, TypeInv
<1>5. moved' \in [Nodes -> SUBSET (Nat \X Nat)]
  <2>1. \A d \in Nodes : moved'[d] \in SUBSET (Nat \X Nat)
    BY DEF NodeStep, ThreadInv, TypeInv, MovedLess
  <2> QED BY <2>1, Zenon DEF NodeStep, MovedLess
<1>6. TypeInv'
  BY <1>1, <1>3, <1>5 DEF ThreadInv, TypeInv
<1>7. Locks'
  BY <1>1, <1>4 DEF ThreadInv, Locks
<1> QED BY <1>1, <1>6, <1>7 DEF ThreadInv, SlotForms, FlushForms, FillForms

LEMMA NodeStepTaken ==
  ASSUME ThreadInv, NEW d \in Nodes, Receive(d) \/ PageReceiveOOM(d) \/ DropRequest(d) \/ ZapEntry(d)
  PROVE  NodeStep
<1>1. CASE Receive(d)
  BY <1>1, MovedSame DEF Receive, PageReceive, PageRefused, NodeStep
<1>2. CASE PageReceiveOOM(d)
  BY <1>2, MovedSame DEF PageReceiveOOM, NodeStep
<1>3. CASE DropRequest(d)
  BY <1>3, MovedSame DEF DropRequest, NodeStep, pool
<1>4. CASE ZapEntry(d)
  <2>1. PICK c : moved' = [moved EXCEPT ![d] = @ \ {c}]
    BY <1>4 DEF ZapEntry
  <2>2. MovedLess
    BY <2>1 DEF ThreadInv, TypeInv, MovedLess
  <2> QED BY <1>4, <2>2 DEF ZapEntry, NodeStep, pool, peers
<1> QED BY <1>1, <1>2, <1>3, <1>4

-----------------------------------------------------------------------------
(* COMEX_move_to_Remote.                                                   *)

LEMMA ClaimedType ==
  ASSUME NEW x \in ThreadType, NEW s \in Slots, NEW p \in Nat
  PROVE  [x EXCEPT !.pc = "void", !.slot = s, !.page = p] \in ThreadType
<1>1. "void" \in Pcs /\ p \in Int
  BY DEF Pcs
<1> HIDE DEF Pcs, Slots, Nodes
<1> QED BY <1>1 DEF ThreadType

LEMMA MarkedType ==
  ASSUME NEW b \in SlotType, NEW k \in {1, 3}
  PROVE  [b EXCEPT !.status = k] \in SlotType
BY DEF SlotType

LEMMA RetryType ==
  ASSUME NEW x \in ThreadType, NEW h \in Nodes
  PROVE  [x EXCEPT !.pc = "try", !.dest = h, !.i = x.i + 1] \in ThreadType
<1> DEFINE j == x.i + 1
<1>1. j \in Nat
  BY DEF ThreadType
<1> HIDE DEF j
<1>2. [x EXCEPT !.pc = "try", !.dest = h, !.i = j] \in ThreadType
  BY <1>1 DEF ThreadType, Pcs, IdlePcs
<1> QED BY <1>2 DEF j

LEMMA TryLockKept ==
  ASSUME ThreadInv, NEW t \in Threads, TryLock(t)
  PROVE  ThreadInv'
<1> DEFINE e == thread[t].dest  r == [thread[t] EXCEPT !.pc = "full"]
<1>1. thread[t] \in ThreadType /\ e \in Nodes /\ None \notin Threads
  BY WriteOutConstants DEF ThreadInv, TypeInv, ThreadType
<1>2. /\ thread[t].pc = "try" /\ mutex_FG[e] = None /\ mutex_FG' = [mutex_FG EXCEPT ![e] = t]
      /\ thread' = [thread EXCEPT ![t] = r] /\ UNCHANGED <<head, tail, pos_mutex, buff, moved>>
  BY DEF TryLock, Goto, ring
<1>3. r \in ThreadType /\ r.pc = "full" /\ r.dest = e /\ r.back = thread[t].back
  BY <1>1 DEF ThreadType, Pcs
<1> HIDE DEF r
<1>4. TypeInv' /\ SlotForms'
  BY <1>2, <1>3 DEF ThreadInv, TypeInv, SlotForms
<1>5. OwnLocks(t) /\ OwnSlots(t)
  BY <1>1, <1>2 DEF OwnLocks, OwnSlots, ThreadInv, TypeInv
<1>6. \A d \in Nodes : ~Pools(thread[t], d) /\ ~Flushes(thread[t], d)
  BY <1>2 DEF Pools, Flushes, FlushPcs, MarkPcs
<1>7. \A d \in Nodes : (Pools(r, d) <=> mutex_FG'[d] = t) /\ (Flushes(r, d) <=> pos_mutex'[d] = t)
  BY <1>1, <1>2, <1>3, <1>6 DEF ThreadInv, TypeInv, Locks, Pools, Flushes, FlushPcs, MarkPcs
<1>8. FlushForm(r, head'[r.dest], buff'[r.dest]) /\ \A d \in Nodes : ~Fills(r, d)
  BY <1>3 DEF FlushForm, Fills, MarkPcs
<1> QED BY <1>2, <1>3, <1>4, <1>5, <1>7, <1>8, ThreadStep

LEMMA CheckFullKept ==
  ASSUME ThreadInv, NEW t \in Threads, CheckFull(t)
  PROVE  ThreadInv'
<1> PICK where \in {"lock", "claim"} :
      thread' = [thread EXCEPT ![t].pc = where, ![t].back = "claim"]
  BY DEF CheckFull
<1> DEFINE e == thread[t].dest  r == [thread[t] EXCEPT !.pc = where, !.back = "claim"]
<1>1. thread[t] \in ThreadType /\ e \in Nodes
  BY DEF ThreadInv, TypeInv, ThreadType
<1>2. /\ thread[t].pc = "full" /\ UNCHANGED <<mutex_FG, head, tail, pos_mutex, buff, moved>>
      /\ thread' = [thread EXCEPT ![t] = r]
  BY DEF CheckFull, ring, pool, ThreadInv, TypeInv
<1>3. r \in ThreadType /\ r.pc = where /\ r.dest = e /\ r.back = "claim"
  BY <1>1 DEF ThreadType, Pcs
<1> HIDE DEF r
<1>4. TypeInv' /\ SlotForms'
  BY <1>2, <1>3, ZenonT(30) DEF ThreadInv, TypeInv, SlotForms
<1>5. OwnLocks(t) /\ OwnSlots(t)
  BY <1>2 DEF OwnLocks, OwnSlots
<1>6. \A d \in Nodes : /\ Pools(r, d) <=> Pools(thread[t], d)
                       /\ ~Flushes(thread[t], d) /\ ~Flushes(r, d)
  BY <1>2, <1>3 DEF Pools, Flushes, FlushPcs, MarkPcs
<1>7. \A d \in Nodes : (Pools(r, d) <=> mutex_FG'[d] = t) /\ (Flushes(r, d) <=> pos_mutex'[d] = t)
  BY <1>2, <1>6 DEF ThreadInv, Locks
<1>8. FlushForm(r, head'[r.dest], buff'[r.dest]) /\ \A d \in Nodes : ~Fills(r, d)
  BY <1>3 DEF FlushForm, Fills, MarkPcs
<1> QED BY <1>2, <1>3, <1>4, <1>5, <1>7, <1>8, ThreadStep

(* What a claim takes.                                                      *)
LEMMA ClaimTakes ==
  ASSUME PoolInv, NEW d \in Nodes, Claimable(d)
  PROVE  /\ free_group[d] # <<>> /\ Head(free_group[d]).page_start \in Nat
         /\ Head(free_group[d]).page_start \in PagesOf(free_group[d])
         /\ PagesOf(Rest(free_group[d])) =
              PagesOf(free_group[d]) \ {Head(free_group[d]).page_start}
<1> DEFINE q == free_group[d]
<1>1. /\ q \in Seq(Groups) /\ Apart(q) /\ IsFiniteSet(PagesOf(q))
      /\ Cardinality(PagesOf(q)) > 0
  BY DEF PoolInv, GoodPool, Claimable
<1>2. q # <<>>
  <2>1. PagesOf(<<>>) = {}
    BY DEF PagesOf, ToSet
  <2> QED BY <1>1, <2>1, FS_EmptySet
<1> QED BY <1>1, <1>2, RestPages, MemberPages

LEMMA ClaimKept ==
  ASSUME PoolInv, ThreadInv, NEW t \in Threads, Claim(t)
  PROVE  ThreadInv'
<1> DEFINE e == thread[t].dest  s == tail[e]  p == Head(free_group[e]).page_start
           r == [thread[t] EXCEPT !.pc = "void", !.slot = s, !.page = p]
<1>1. /\ thread[t] \in ThreadType /\ e \in Nodes /\ s \in Slots /\ None \notin Threads
      /\ tail \in [Nodes -> Slots] /\ buff \in [Nodes -> [Slots -> SlotType]]
  BY WriteOutConstants DEF ThreadInv, TypeInv, ThreadType
<1>2. /\ thread[t].pc = "claim" /\ buff[e][s].status = -1 /\ UNCHANGED <<head, pos_mutex, moved>>
      /\ mutex_FG' = [mutex_FG EXCEPT ![e] = None] /\ tail' = [tail EXCEPT ![e] = NextSlot(@)]
      /\ buff' = [buff EXCEPT ![e][s].status = 1]
      /\ thread' = [thread EXCEPT ![t] = r]
  BY DEF Claim, Claimable, ThreadInv, TypeInv
<1>3. p \in Nat
  BY <1>1, ClaimTakes DEF Claim
<1>5. NextSlot(tail[e]) \in Slots
  <2>1. tail[e] + 1 \in Int
    BY <1>1 DEF Slots
  <2> QED BY <2>1, WrapType DEF NextSlot
<1> HIDE DEF p, s, e
<1>4. r \in ThreadType /\ r.pc = "void" /\ r.dest = e /\ r.slot = s /\ r.page = p
  <2>1. r \in ThreadType
    BY <1>1, <1>3, ClaimedType
  <2> QED BY <1>1, <2>1 DEF ThreadType, e
<1> HIDE DEF r
<1> USE DEF e
<1>6. /\ \A d \in Nodes : d # e => buff'[d] = buff[d]
      /\ \A u \in Slots : u # s => buff'[e][u] = buff[e][u]
      /\ buff'[e][s] = [buff[e][s] EXCEPT !.status = 1]
      /\ buff' \in [Nodes -> [Slots -> SlotType]]
  <2> DEFINE b == [buff[e][s] EXCEPT !.status = 1]
  <2>1. b \in SlotType
    <3>1. buff[e][s] \in SlotType
      BY <1>1
    <3> QED BY <3>1, MarkedType
  <2>2. buff' = [buff EXCEPT ![e] = [@ EXCEPT ![s] = b]]
    BY <1>1, <1>2
  <2> HIDE DEF b
  <2>3. /\ \A d \in Nodes : d # e => buff'[d] = buff[d]
        /\ \A u \in Slots : u # s => buff'[e][u] = buff[e][u]
        /\ buff'[e][s] = b /\ buff' \in [Nodes -> [Slots -> SlotType]]
    BY <1>1, <2>1, <2>2
  <2> QED BY <2>3 DEF b
<1>7. TypeInv'
  BY <1>1, <1>2, <1>4, <1>5, <1>6 DEF ThreadInv, TypeInv
<1>8. SlotForms'
  BY <1>1, <1>2, <1>6, SMTT(30) DEF ThreadInv, SlotForms, SlotForm, SlotType
<1>9. mutex_FG[e] = t
  BY <1>1, <1>2 DEF ThreadInv, Locks, Pools
<1>10. OwnLocks(t)
  BY <1>1, <1>2, <1>9 DEF OwnLocks, ThreadInv, TypeInv
<1>11. OwnSlots(t)
  BY <1>1, <1>2, <1>6, SMTT(30) DEF OwnSlots
<1>12. \A d \in Nodes : /\ ~Pools(r, d) /\ ~Flushes(r, d) /\ ~Flushes(thread[t], d)
                        /\ d # e => ~Pools(thread[t], d)
  BY <1>2, <1>4 DEF Pools, Flushes, FlushPcs, MarkPcs
<1>13. \A d \in Nodes : (Pools(r, d) <=> mutex_FG'[d] = t) /\ (Flushes(r, d) <=> pos_mutex'[d] = t)
  BY <1>1, <1>2, <1>12 DEF ThreadInv, TypeInv, Locks
<1>14. FlushForm(r, head'[r.dest], buff'[r.dest])
  BY <1>4 DEF FlushForm, MarkPcs
<1>15. \A d \in Nodes : Fills(r, d) =>
           /\ r.page \in Nat /\ buff'[d][r.slot].status = 1 /\ buff[d][r.slot].status # 1
  BY <1>1, <1>2, <1>3, <1>4, <1>6 DEF Fills, SlotType
<1> QED BY <1>2, <1>4, <1>7, <1>8, <1>10, <1>11, <1>13, <1>14, <1>15, ThreadStep

LEMMA NextNodeKept ==
  ASSUME ThreadInv, NEW t \in Threads, NextNode(t)
  PROVE  ThreadInv'
<1> DEFINE e == thread[t].dest
           n == [thread[t] EXCEPT !.pc = "try", !.dest = COMEX_hash(e, COMEX_ID),
                                  !.i = thread[t].i + 1]
           r == IF thread[t].i + 1 < nMemNodes THEN n ELSE IdleThread
<1>1. thread[t] \in ThreadType /\ e \in Nodes /\ None \notin Threads
  BY WriteOutConstants DEF ThreadInv, TypeInv, ThreadType
<1>2. /\ thread[t].pc = "claim" /\ mutex_FG' = [mutex_FG EXCEPT ![e] = None]
      /\ thread' = [thread EXCEPT ![t] = r] /\ UNCHANGED <<head, tail, pos_mutex, buff, moved>>
  <2>1. thread' = [thread EXCEPT ![t] = r]
    BY DEF NextNode
  <2> QED BY <2>1 DEF NextNode, ring
<1>3. r \in ThreadType /\ r.pc \in {"try", "idle"}
  <2>1. COMEX_hash(e, COMEX_ID) \in Nodes
    <3>1. e \in Nat /\ COMEX_ID \in Nat
      BY <1>1, WriteOutConstants DEF Nodes
    <3> QED BY <3>1, HashType
  <2> DEFINE h == COMEX_hash(e, COMEX_ID)
  <2> HIDE DEF h
  <2>2. n \in ThreadType /\ n.pc = "try"
    <3>1. n \in ThreadType
      BY <1>1, <2>1, RetryType DEF h
    <3> QED BY <1>1, <3>1 DEF ThreadType
  <2>3. IdleThread.pc = "idle"
    BY DEF IdleThread
  <2> QED BY <2>2, <2>3, IdleType
<1> HIDE DEF r
<1>4. TypeInv' /\ SlotForms'
  BY <1>1, <1>2, <1>3 DEF ThreadInv, TypeInv, SlotForms
<1>5. mutex_FG[e] = t
  BY <1>1, <1>2 DEF ThreadInv, Locks, Pools
<1>6. OwnLocks(t) /\ OwnSlots(t)
  BY <1>1, <1>2, <1>5 DEF OwnLocks, OwnSlots, ThreadInv, TypeInv
<1>7. \A d \in Nodes : /\ ~Pools(r, d) /\ ~Flushes(r, d) /\ ~Flushes(thread[t], d)
                       /\ d # e => ~Pools(thread[t], d)
  BY <1>2, <1>3 DEF Pools, Flushes, FlushPcs, MarkPcs
<1>8. \A d \in Nodes : (Pools(r, d) <=> mutex_FG'[d] = t) /\ (Flushes(r, d) <=> pos_mutex'[d] = t)
  BY <1>1, <1>2, <1>7 DEF ThreadInv, TypeInv, Locks
<1>9. FlushForm(r, head'[r.dest], buff'[r.dest]) /\ \A d \in Nodes : ~Fills(r, d)
  BY <1>3 DEF FlushForm, Fills, MarkPcs
<1> QED BY <1>2, <1>3, <1>4, <1>6, <1>8, <1>9, ThreadStep

LEMMA VoidKept ==
  ASSUME ThreadInv, NEW t \in Threads, VoidPreFetch(t)
  PROVE  ThreadInv'
<1> DEFINE e == thread[t].dest  r == [thread[t] EXCEPT !.pc = "fill"]
<1>1. thread[t] \in ThreadType /\ e \in Nodes
  BY DEF ThreadInv, TypeInv, ThreadType
<1>2. /\ thread[t].pc = "void" /\ UNCHANGED <<mutex_FG, head, tail, pos_mutex, buff, moved>>
      /\ thread' = [thread EXCEPT ![t] = r]
  BY DEF VoidPreFetch, Goto, ring, pool
<1>3. /\ r \in ThreadType /\ r.pc = "fill" /\ r.dest = e
      /\ r.page = thread[t].page /\ r.slot = thread[t].slot
  BY <1>1 DEF ThreadType, Pcs
<1> HIDE DEF r
<1>4. TypeInv' /\ SlotForms'
  BY <1>2, <1>3 DEF ThreadInv, TypeInv, SlotForms
<1>5. OwnLocks(t) /\ OwnSlots(t)
  BY <1>2 DEF OwnLocks, OwnSlots
<1>6. \A d \in Nodes : /\ ~Pools(r, d) /\ ~Pools(thread[t], d)
                       /\ ~Flushes(thread[t], d) /\ ~Flushes(r, d)
                       /\ Fills(r, d) => Fills(thread[t], d)
  BY <1>2, <1>3 DEF Pools, Flushes, Fills, FlushPcs, MarkPcs
<1>7. \A d \in Nodes : (Pools(r, d) <=> mutex_FG'[d] = t) /\ (Flushes(r, d) <=> pos_mutex'[d] = t)
  BY <1>2, <1>6 DEF ThreadInv, Locks
<1>8. FlushForm(r, head'[r.dest], buff'[r.dest])
  BY <1>3 DEF FlushForm, MarkPcs
<1>9. \A d \in Nodes : Fills(r, d) =>
        /\ r.page \in Nat /\ buff'[d][r.slot].status = 1
        /\ Fills(thread[t], d) /\ r.slot = thread[t].slot
  BY <1>2, <1>3, <1>6 DEF ThreadInv, FillForms
<1> QED BY <1>2, <1>3, <1>4, <1>5, <1>7, <1>8, <1>9, ThreadStep

LEMMA FillKept ==
  ASSUME PoolInv, ThreadInv, NEW t \in Threads, Fill(t)
  PROVE  ThreadInv'
<1> DEFINE e == thread[t].dest  s == thread[t].slot  p == thread[t].page  c == <<p, Grants(e, p)>>
           b == [status |-> 2, pageNO |-> p, data |-> c]
           r == IF s % FLUSH = 0 /\ s # 0 THEN [IdleThread EXCEPT !.pc = "lock", !.dest = e]
                ELSE IdleThread
<1>1. /\ thread[t] \in ThreadType /\ e \in Nodes /\ s \in Slots /\ thread[t].pc = "fill"
      /\ buff \in [Nodes -> [Slots -> SlotType]] /\ moved \in [Nodes -> SUBSET (Nat \X Nat)]
  BY DEF ThreadInv, TypeInv, ThreadType, Fill
<1>2. /\ UNCHANGED <<mutex_FG, head, tail, pos_mutex>>
      /\ buff' = [buff EXCEPT ![e][s] = b] /\ thread' = [thread EXCEPT ![t] = r]
      /\ moved' = [moved EXCEPT ![e] = @ \union {c}]
  BY DEF Fill, pool
<1>3. Fills(thread[t], e)
  BY <1>1 DEF Fills
<1>4. p \in Nat /\ c \in Nat \X Nat /\ b \in SlotType
  <2>1. p \in Nat
    BY <1>1, <1>3 DEF ThreadInv, FillForms
  <2>2. Grants(e, p) \in Nat
    BY <1>1, GrantsType
  <2> QED BY <2>1, <2>2 DEF SlotType
<1>5. r \in ThreadType /\ r.pc \in {"lock", "idle"} /\ r.back = "idle"
  BY <1>1, IdleType DEF ThreadType, Pcs, IdleThread
<1>6. b.status = 2 /\ b.pageNO = p /\ b.data[1] = p
  OBVIOUS
<1> HIDE DEF r, b, s, c, p
<1>7. /\ \A d \in Nodes : d # e => buff'[d] = buff[d]
      /\ \A u \in Slots : u # s => buff'[e][u] = buff[e][u]
      /\ buff'[e][s] = b /\ buff' \in [Nodes -> [Slots -> SlotType]]
  BY <1>1, <1>2, <1>4
<1>8. TypeInv'
  <2>1. moved' \in [Nodes -> SUBSET (Nat \X Nat)]
    BY <1>1, <1>2, <1>4
  <2> QED BY <1>2, <1>5, <1>7, <2>1 DEF ThreadInv, TypeInv
<1>9. SlotForms'
  BY <1>4, <1>6, <1>7 DEF ThreadInv, SlotForms, SlotForm
<1>10. OwnLocks(t)
  BY <1>2 DEF OwnLocks
<1>11. buff[e][s].status = 1
  BY <1>1, <1>3 DEF ThreadInv, FillForms, s
<1>12. OwnSlots(t)
  BY <1>1, <1>2, <1>3, <1>7, <1>11 DEF OwnSlots, s
<1>13. \A d \in Nodes : /\ ~Pools(r, d) /\ ~Flushes(r, d) /\ ~Fills(r, d)
                        /\ ~Pools(thread[t], d) /\ ~Flushes(thread[t], d)
  BY <1>1, <1>5 DEF Pools, Flushes, Fills, FlushPcs, MarkPcs
<1>14. \A d \in Nodes : (Pools(r, d) <=> mutex_FG'[d] = t) /\ (Flushes(r, d) <=> pos_mutex'[d] = t)
  BY <1>2, <1>13 DEF ThreadInv, Locks
<1>15. FlushForm(r, head'[r.dest], buff'[r.dest])
  BY <1>5 DEF FlushForm, MarkPcs
<1> QED BY <1>2, <1>5, <1>8, <1>9, <1>10, <1>12, <1>13, <1>14, <1>15, ThreadStep
-----------------------------------------------------------------------------
(* COMEX_flush_buff, with pos_mutex of the node held.                      *)
LEMMA FlushStepKept ==
  ASSUME ThreadInv, NEW t \in Threads, NEW r \in ThreadType, NEW e, e = thread[t].dest,
         thread[t].pc \in FlushPcs, r.pc \in FlushPcs, r.dest = e, r.back = thread[t].back,
         thread' = [thread EXCEPT ![t] = r], UNCHANGED <<mutex_FG, pos_mutex, tail>>,
         head' \in [Nodes -> Slots], \A d \in Nodes : d # e => head'[d] = head[d],
         buff' \in [Nodes -> [Slots -> SlotType]], \A d \in Nodes : d # e => buff'[d] = buff[d],
         \A s \in Slots : /\ SlotForm(buff'[e][s])
                          /\ buff[e][s].status = 1 => buff'[e][s].status = 1,
         moved' \in [Nodes -> SUBSET (Nat \X Nat)],
         FlushForm(r, head'[e], buff'[e])
  PROVE  ThreadInv'
<1>1. thread[t] \in ThreadType /\ e \in Nodes
  BY DEF ThreadInv, TypeInv, ThreadType
<1>2. TypeInv'
  BY DEF ThreadInv, TypeInv
<1>3. SlotForms'
  <2>1. ASSUME NEW d \in Nodes, NEW s \in Slots PROVE SlotForm(buff'[d][s])
    BY DEF ThreadInv, SlotForms
  <2> QED BY <2>1 DEF SlotForms
<1>4. Flushes(thread[t], e)
  BY DEF Flushes
<1>5. OwnLocks(t) /\ OwnSlots(t)
  BY <1>4 DEF OwnLocks, OwnSlots
<1>6. \A d \in Nodes : /\ Pools(r, d) <=> Pools(thread[t], d)
                       /\ Flushes(r, d) <=> Flushes(thread[t], d)
                       /\ ~Fills(r, d)
  BY DEF Pools, Flushes, Fills, FlushPcs, MarkPcs
<1>7. \A d \in Nodes : (Pools(r, d) <=> mutex_FG'[d] = t) /\ (Flushes(r, d) <=> pos_mutex'[d] = t)
  BY <1>4, <1>6 DEF ThreadInv, Locks, Flushes
<1> QED BY <1>2, <1>3, <1>5, <1>6, <1>7, ThreadStep

LEMMA SlotsKept ==
  ASSUME ThreadInv, UNCHANGED <<head, buff>>
  PROVE  /\ head' \in [Nodes -> Slots] /\ buff' \in [Nodes -> [Slots -> SlotType]]
         /\ \A d \in Nodes : head'[d] = head[d] /\ buff'[d] = buff[d]
         /\ \A d \in Nodes : \A s \in Slots :
              SlotForm(buff'[d][s]) /\ buff'[d][s] = buff[d][s]
BY DEF ThreadInv, TypeInv, SlotForms

LEMMA FlushLockKept ==
  ASSUME ThreadInv, NEW t \in Threads, FlushLock(t)
  PROVE  ThreadInv'
<1> DEFINE e == thread[t].dest
           r == [thread[t] EXCEPT !.pc = "while", !.count = 0, !.gap = FALSE, !.late = FALSE]
<1>1. thread[t] \in ThreadType /\ e \in Nodes /\ None \notin Threads
  BY WriteOutConstants DEF ThreadInv, TypeInv, ThreadType
<1>2. /\ thread[t].pc = "lock" /\ UNCHANGED <<mutex_FG, head, tail, buff, moved>>
      /\ pos_mutex[e] = None /\ pos_mutex' = [pos_mutex EXCEPT ![e] = t]
      /\ thread' = [thread EXCEPT ![t] = r]
  BY DEF FlushLock, pool, ThreadInv, TypeInv
<1>3. r \in ThreadType /\ r.pc = "while" /\ r.dest = e /\ r.count = 0 /\ r.back = thread[t].back
  BY <1>1 DEF ThreadType, Pcs, FlushPcs, MarkPcs
<1> HIDE DEF r
<1>4. TypeInv' /\ SlotForms'
  BY <1>1, <1>2, <1>3 DEF ThreadInv, TypeInv, SlotForms
<1>5. OwnLocks(t) /\ OwnSlots(t)
  BY <1>1, <1>2 DEF OwnLocks, OwnSlots, ThreadInv, TypeInv
<1>6. \A d \in Nodes : /\ Pools(r, d) <=> Pools(thread[t], d)
                       /\ Flushes(r, d) <=> d = e
                       /\ ~Flushes(thread[t], d) /\ ~Fills(r, d)
  BY <1>2, <1>3 DEF Pools, Flushes, Fills, FlushPcs, MarkPcs
<1>7. \A d \in Nodes : (Pools(r, d) <=> mutex_FG'[d] = t) /\ (Flushes(r, d) <=> pos_mutex'[d] = t)
  BY <1>1, <1>2, <1>6 DEF ThreadInv, TypeInv, Locks
<1>8. FlushForm(r, head'[r.dest], buff'[r.dest])
  <2>1. head[e] \in 0 .. total_writeOut - 1 /\ total_writeOut \in Nat
    BY <1>1, WriteOutConstants DEF ThreadInv, TypeInv, Slots
  <2> QED BY <1>2, <1>3, <2>1 DEF FlushForm, Slots, MarkPcs
<1> QED BY <1>2, <1>3, <1>4, <1>5, <1>6, <1>7, <1>8, ThreadStep

LEMMA JoinForm ==
  ASSUME NEW b \in SlotType, b.status = 2, SlotForm(b)
  PROVE  LET y == [b EXCEPT !.status = 3]
         IN y \in SlotType /\ y.status = 3 /\ SlotForm(y)
BY DEF SlotType, SlotForm

LEMMA FlushWhileKept ==
  ASSUME ThreadInv, NEW t \in Threads, FlushWhile(t)
  PROVE  ThreadInv'
<1> DEFINE e == thread[t].dest  x == thread[t]  here == head[e] + x.count
<1>1. /\ x \in ThreadType /\ e \in Nodes /\ head \in [Nodes -> Slots] /\ head[e] \in Slots
      /\ buff \in [Nodes -> [Slots -> SlotType]] /\ total_writeOut \in Nat
      /\ x.count \in Nat /\ x.gap \in BOOLEAN /\ x.late \in BOOLEAN
  BY WriteOutConstants DEF ThreadInv, TypeInv, ThreadType
<1>2. /\ x.pc = "while" /\ UNCHANGED <<mutex_FG, pos_mutex, head, tail, moved>>
  BY DEF FlushWhile, pool
<1>3. FlushForm(x, head[e], buff[e])
  BY DEF ThreadInv, FlushForms
<1>4. /\ here < total_writeOut /\ here \in Slots
      /\ \A s \in Slots : head[e] <= s /\ s < here => buff[e][s].status = 3
  BY <1>1, <1>2, <1>3 DEF FlushForm, MarkPcs, Slots
<1>5. \A s \in Slots : SlotForm(buff[e][s])
  BY <1>1 DEF ThreadInv, SlotForms
<1>6. /\ moved' \in [Nodes -> SUBSET (Nat \X Nat)] /\ head' = head
  BY <1>2 DEF ThreadInv, TypeInv
<1>7. CASE buff[e][here].status = 2
  <2> PICK l \in BOOLEAN : l = (x.late \/ x.gap)
    OBVIOUS
  <2> PICK where \in {"post", "compare"} :
        where = IF here + 1 >= total_writeOut THEN "post" ELSE "compare"
    OBVIOUS
  <2> DEFINE b == [buff[e][here] EXCEPT !.status = 3]
             r == [x EXCEPT !.count = x.count + 1, !.late = l, !.pc = where]
  <2>1. buff' = [buff EXCEPT ![e] = [@ EXCEPT ![here] = b]]
    BY <1>1, <1>4, <1>7 DEF FlushWhile
  <2>2. thread' = [thread EXCEPT ![t] = r]
    BY <1>1, <1>7 DEF FlushWhile, ThreadInv, TypeInv
  <2>3. where = "compare" => here + 1 < total_writeOut
    BY <1>1, <1>4 DEF Slots
  <2>4. r \in ThreadType /\ r.pc = where /\ r.dest = e /\ r.count = x.count + 1 /\ r.back = x.back
    <3>1. r = [x EXCEPT !.count = x.count + 1, !.late = l, !.pc = where]
      OBVIOUS
    <3> DEFINE j == x.count + 1
    <3>2. j \in Nat /\ x \in ThreadType
      BY <1>1
    <3>3. r = [x EXCEPT !.count = j, !.late = l, !.pc = where]
      OBVIOUS
    <3> HIDE DEF r, j
    <3>4. /\ r \in ThreadType /\ r.pc = where /\ r.dest = e /\ r.count = j /\ r.back = x.back
      BY <3>2, <3>3, ZenonT(30) DEF ThreadType, Pcs, FlushPcs, MarkPcs
    <3> QED BY <3>4 DEF j
  <2>5. b \in SlotType /\ b.status = 3 /\ SlotForm(b)
    <3>1. buff[e][here] \in SlotType /\ SlotForm(buff[e][here])
      BY <1>1, <1>4, <1>5
    <3> QED BY <1>7, <3>1, JoinForm
  <2> HIDE DEF r, b
  <2>6. /\ \A d \in Nodes : d # e => buff'[d] = buff[d]
        /\ \A s \in Slots : s # here => buff'[e][s] = buff[e][s]
        /\ buff'[e][here] = b /\ buff' \in [Nodes -> [Slots -> SlotType]]
    BY <1>1, <1>4, <2>1, <2>5
  <2>7. \A s \in Slots : /\ SlotForm(buff'[e][s])
                         /\ buff[e][s].status = 1 => buff'[e][s].status = 1
    BY <1>4, <1>5, <1>7, <2>5, <2>6
  <2>8. FlushForm(r, head'[e], buff'[e])
    <3>1. \A s \in Slots : head[e] <= s /\ s < here + 1 => buff'[e][s].status = 3
      <4> TAKE s \in Slots
      <4> HAVE head[e] <= s /\ s < here + 1
      <4>1. CASE s = here
        BY <2>5, <2>6, <4>1
      <4>2. CASE s # here
        <5>1. s \in Int /\ here \in Int
          BY <1>4 DEF Slots
        <5>2. s < here
          BY <4>2, <5>1
        <5> QED BY <1>4, <2>6, <4>2, <5>2
      <4> QED BY <4>1, <4>2
    <3>2. /\ head[e] + r.count = here + 1 /\ here + 1 <= total_writeOut /\ r.count >= 1
      <4>1. /\ head[e] \in Int /\ total_writeOut \in Nat /\ x.count \in Nat
            /\ r.count = x.count + 1 /\ here < total_writeOut
        BY <1>1, <1>4, <2>4 DEF Slots
      <4> QED BY <4>1
    <3>3. r.pc \in {"post", "compare"} /\ (r.pc = "compare" => here + 1 < total_writeOut)
      BY <2>3, <2>4
    <3> QED BY <1>6, <3>1, <3>2, <3>3 DEF FlushForm, MarkPcs
  <2>9. x.pc \in FlushPcs /\ r.pc \in FlushPcs
    BY <1>2, <2>3, <2>4 DEF FlushPcs, MarkPcs
  <2>10. head' \in [Nodes -> Slots] /\ \A d \in Nodes : d # e => head'[d] = head[d]
    BY <1>1, <1>6
  <2>11. \A d \in Nodes : d # e => buff'[d] = buff[d]
    BY <2>6
  <2> HIDE DEF here
  <2> QED BY <1>2, <1>6, <2>2, <2>4, <2>6, <2>7, <2>8, <2>9, <2>10, <2>11, FlushStepKept, ZenonT(30)
<1>8. CASE buff[e][here].status # 2
  <2> DEFINE where == IF x.count = 0 THEN "unlock" ELSE "post"
             r == [x EXCEPT !.pc = where]
  <2>1. thread' = [thread EXCEPT ![t] = r] /\ buff' = buff
    BY <1>8 DEF FlushWhile
  <2>2. where \in {"unlock", "post"} /\ (where = "post" => x.count >= 1)
    BY <1>1
  <2> HIDE DEF where
  <2>3. /\ r \in ThreadType /\ r.pc = where /\ r.dest = e /\ r.count = x.count
        /\ r.back = x.back /\ x.pc \in FlushPcs /\ r.pc \in FlushPcs
    BY <1>1, <1>2, <2>2 DEF ThreadType, Pcs, FlushPcs, MarkPcs
  <2> HIDE DEF r
  <2>4. FlushForm(r, head[e], buff[e])
    BY <1>1, <1>4, <2>2, <2>3 DEF FlushForm, MarkPcs, Slots
  <2> HIDE DEF here
  <2> QED BY <1>1, <1>2, <1>6, <2>1, <2>3, <2>4, SlotsKept, FlushStepKept
<1> QED BY <1>7, <1>8

(* The steps of a flush that write no slot and do not move the head.         *)
LEMMA FlushOnKept ==
  ASSUME ThreadInv, NEW t \in Threads, NEW r \in ThreadType, thread[t].pc \in FlushPcs,
         r.pc \in FlushPcs, r.dest = thread[t].dest, r.back = thread[t].back,
         thread' = [thread EXCEPT ![t] = r], UNCHANGED <<mutex_FG, pos_mutex, head, tail, buff>>,
         moved' \in [Nodes -> SUBSET (Nat \X Nat)],
         FlushForm(r, head[r.dest], buff[r.dest])
  PROVE  ThreadInv'
BY SlotsKept, FlushStepKept DEF ThreadInv, TypeInv, ThreadType

LEMMA FlushCompareKept ==
  ASSUME ThreadInv, NEW t \in Threads, FlushCompare(t)
  PROVE  ThreadInv'
<1> PICK g \in BOOLEAN : thread' = [thread EXCEPT ![t].pc = "check", ![t].gap = g]
  BY DEF FlushCompare
<1> DEFINE x == thread[t]  r == [x EXCEPT !.pc = "check", !.gap = g]
<1>1. x \in ThreadType /\ thread' = [thread EXCEPT ![t] = r]
  BY DEF ThreadInv, TypeInv
<1>2. /\ x.pc = "compare" /\ UNCHANGED <<mutex_FG, pos_mutex, head, tail, buff, moved>>
  BY DEF FlushCompare, pool, ring
<1>3. /\ r \in ThreadType /\ r.pc = "check" /\ r.dest = x.dest /\ r.count = x.count
      /\ r.back = x.back /\ x.pc \in FlushPcs /\ r.pc \in FlushPcs
  BY <1>1, <1>2 DEF ThreadType, Pcs, FlushPcs, MarkPcs
<1>4. FlushForm(x, head[x.dest], buff[x.dest])
  BY DEF ThreadInv, FlushForms
<1> HIDE DEF r
<1>5. FlushForm(r, head[x.dest], buff[x.dest])
  BY <1>2, <1>3, <1>4 DEF FlushForm, MarkPcs
<1>6. moved' \in [Nodes -> SUBSET (Nat \X Nat)]
  BY <1>2 DEF ThreadInv, TypeInv
<1> QED BY <1>1, <1>2, <1>3, <1>5, <1>6, FlushOnKept

LEMMA FlushGotoKept ==
  ASSUME ThreadInv, NEW t \in Threads, NEW where, Goto(t, where),
         moved' \in [Nodes -> SUBSET (Nat \X Nat)],
         \/ thread[t].pc = "check" /\ where \in {"post", "while"}
         \/ thread[t].pc = "rdma" /\ where \in {"free", "unlock"},
         UNCHANGED <<mutex_FG, pos_mutex, head, tail, buff>>
  PROVE  ThreadInv'
<1> DEFINE x == thread[t]  r == [x EXCEPT !.pc = where]
<1>1. x \in ThreadType /\ thread' = [thread EXCEPT ![t] = r]
  BY DEF ThreadInv, TypeInv, Goto
<1>2. /\ r \in ThreadType /\ r.pc = where /\ r.dest = x.dest /\ r.count = x.count
      /\ r.first = x.first
      /\ r.back = x.back /\ x.pc \in FlushPcs /\ r.pc \in FlushPcs
  BY <1>1 DEF ThreadType, Pcs, FlushPcs, MarkPcs
<1>3. FlushForm(x, head[x.dest], buff[x.dest])
  BY DEF ThreadInv, FlushForms
<1> HIDE DEF r
<1>4. FlushForm(r, head[x.dest], buff[x.dest])
  BY <1>2, <1>3 DEF FlushForm, MarkPcs
<1> QED BY <1>1, <1>2, <1>4, FlushOnKept

LEMMA RdmaMoved ==
  ASSUME ThreadInv, NEW t \in Threads, RdmaWrite(t)
  PROVE  MovedLess
<1>1. CASE thread[t].late
  <2>1. PICK S : moved' = [moved EXCEPT ![thread[t].dest] = {c \in @ : c \notin S}]
    <3> DEFINE d == thread[t].dest
               f == thread[t].first
               from == buff[d][f].pageNO
               to   == from + thread[t].count - 1
               landed(q) == buff[d][f + q - from].data
               batch == {landed(q) : q \in from .. to}
               spoilt(c) == \/ (c[1] \in from .. to /\ landed(c[1]) # c)
                            \/ (c \in batch /\ c[1] \notin from .. to)
    <3>1. moved' = [moved EXCEPT ![d] = {c \in @ : ~spoilt(c)}]
      BY <1>1, Zenon DEF RdmaWrite
    <3>2. {c \in moved[d] : ~spoilt(c)} = {c \in moved[d] : c \notin {a \in moved[d] : spoilt(a)}}
      OBVIOUS
    <3> HIDE DEF spoilt
    <3> QED BY <3>1, <3>2
  <2> QED BY <2>1 DEF ThreadInv, TypeInv, MovedLess
<1>2. CASE ~thread[t].late
  <2>1. moved' = [moved EXCEPT ![thread[t].dest] = moved[thread[t].dest]]
    BY <1>2 DEF RdmaWrite
  <2> QED BY <2>1 DEF ThreadInv, TypeInv, MovedLess
<1> QED BY <1>1, <1>2

LEMMA FlushPostKept ==
  ASSUME ThreadInv, NEW t \in Threads, FlushPost(t)
  PROVE  ThreadInv'
<1> DEFINE x == thread[t]  e == x.dest  n == x.count
<1>1. /\ x \in ThreadType /\ e \in Nodes /\ head \in [Nodes -> Slots] /\ head[e] \in Slots
      /\ n \in Nat /\ total_writeOut \in Nat /\ buff \in [Nodes -> [Slots -> SlotType]]
  BY WriteOutConstants DEF ThreadInv, TypeInv, ThreadType
<1>2. PICK where \in {"unlock", "rdma"} :
        thread' = [thread EXCEPT ![t].first = head[e], ![t].pc = where]
  BY DEF FlushPost
<1> DEFINE r == [x EXCEPT !.first = head[e], !.pc = where]
<1>3. /\ x.pc = "post" /\ UNCHANGED <<mutex_FG, pos_mutex, tail, buff, moved>>
      /\ head' = [head EXCEPT ![e] = (head[e] + n) % total_writeOut]
      /\ thread' = [thread EXCEPT ![t] = r]
  BY <1>2 DEF FlushPost, pool, ThreadInv, TypeInv
<1>4. /\ r \in ThreadType /\ r.pc = where /\ r.dest = e /\ r.count = n
      /\ r.first = head[e] /\ r.back = x.back /\ x.pc \in FlushPcs /\ r.pc \in FlushPcs
  BY <1>1, <1>3 DEF ThreadType, Pcs, FlushPcs, MarkPcs
<1>5. FlushForm(x, head[e], buff[e])
  BY DEF ThreadInv, FlushForms
<1> HIDE DEF r
<1>6. FlushForm(r, head'[e], buff'[e])
  BY <1>3, <1>4, <1>5 DEF FlushForm, MarkPcs
<1>7. (head[e] + n) % total_writeOut \in Slots
  <2>1. head[e] + n \in Int
    BY <1>1 DEF Slots
  <2> QED BY <2>1, WrapType
<1>8. head' \in [Nodes -> Slots] /\ \A d \in Nodes : d # e => head'[d] = head[d]
  BY <1>1, <1>3, <1>7
<1>9. /\ buff' \in [Nodes -> [Slots -> SlotType]] /\ buff' = buff
      /\ moved' \in [Nodes -> SUBSET (Nat \X Nat)]
      /\ \A s \in Slots : SlotForm(buff'[e][s])
  BY <1>1, <1>3 DEF ThreadInv, TypeInv, SlotForms
<1> HIDE DEF n
<1> QED BY <1>1, <1>3, <1>4, <1>6, <1>8, <1>9, FlushStepKept

LEMMA FreeBuffKept ==
  ASSUME ThreadInv, NEW t \in Threads, FreeBuff(t)
  PROVE  ThreadInv'
<1> DEFINE x == thread[t]  e == x.dest  r == [x EXCEPT !.pc = "unlock"]
<1>1. /\ x \in ThreadType /\ e \in Nodes /\ buff \in [Nodes -> [Slots -> SlotType]]
      /\ x.first \in Slots /\ x.count \in Nat
  BY DEF ThreadInv, TypeInv, ThreadType
<1>2. /\ x.pc = "free" /\ UNCHANGED <<mutex_FG, pos_mutex, head, tail, moved>>
      /\ buff' = [buff EXCEPT ![e] = [s \in Slots |-> IF s \in Batch(t) THEN EmptySlot ELSE @[s]]]
      /\ thread' = [thread EXCEPT ![t] = r]
  BY DEF FreeBuff, pool, Goto
<1>3. EmptySlot \in SlotType /\ SlotForm(EmptySlot)
  BY DEF EmptySlot, SlotType, SlotForm, Nothing
<1>4. /\ \A d \in Nodes : d # e => buff'[d] = buff[d]
      /\ \A s \in Slots : buff'[e][s] = IF s \in Batch(t) THEN EmptySlot ELSE buff[e][s]
      /\ buff' \in [Nodes -> [Slots -> SlotType]]
  BY <1>1, <1>2, <1>3
<1>5. FlushForm(x, head[e], buff[e])
  BY DEF ThreadInv, FlushForms
<1>6. \A s \in Slots : s \in Batch(t) => buff[e][s].status = 3
  BY <1>1, <1>2, <1>5 DEF FlushForm, Batch, Slots
<1>7. \A s \in Slots : /\ SlotForm(buff'[e][s])
                       /\ buff[e][s].status = 1 => buff'[e][s].status = 1
  BY <1>1, <1>3, <1>4, <1>6 DEF ThreadInv, SlotForms
<1>8. /\ r \in ThreadType /\ r.pc = "unlock" /\ r.dest = e /\ r.back = x.back
      /\ x.pc \in FlushPcs /\ r.pc \in FlushPcs
  BY <1>1, <1>2 DEF ThreadType, Pcs, FlushPcs, MarkPcs
<1> HIDE DEF r
<1>9. FlushForm(r, head'[e], buff'[e])
  BY <1>8 DEF FlushForm, MarkPcs
<1>10. head' \in [Nodes -> Slots] /\ moved' \in [Nodes -> SUBSET (Nat \X Nat)] /\ head' = head
  BY <1>2 DEF ThreadInv, TypeInv
<1> QED BY <1>1, <1>2, <1>4, <1>7, <1>8, <1>9, <1>10, FlushStepKept

LEMMA BackType ==
  ASSUME NEW e \in Nodes, NEW k \in Nat
  PROVE  LET y == [IdleThread EXCEPT !.pc = "claim", !.dest = e, !.i = k]
         IN y \in ThreadType /\ y.pc = "claim" /\ y.dest = e
<1> DEFINE x == IdleThread
<1>1. x \in ThreadType
  BY IdleType
<1> HIDE DEF x
<1>2. LET y == [x EXCEPT !.pc = "claim", !.dest = e, !.i = k]
      IN y \in ThreadType /\ y.pc = "claim" /\ y.dest = e
  BY <1>1 DEF ThreadType, Pcs
<1> QED BY <1>2 DEF x

LEMMA FlushUnlockKept ==
  ASSUME ThreadInv, NEW t \in Threads, FlushUnlock(t)
  PROVE  ThreadInv'
<1> DEFINE x == thread[t]  e == x.dest
           y == [IdleThread EXCEPT !.pc = "claim", !.dest = e, !.i = x.i]
           r == IF x.back = "claim" THEN y ELSE IdleThread
<1>1. x \in ThreadType /\ e \in Nodes /\ x.i \in Nat /\ None \notin Threads
  BY WriteOutConstants DEF ThreadInv, TypeInv, ThreadType
<1>2. /\ x.pc = "unlock" /\ UNCHANGED <<mutex_FG, head, tail, buff, moved>>
      /\ pos_mutex' = [pos_mutex EXCEPT ![e] = None] /\ thread' = [thread EXCEPT ![t] = r]
  BY DEF FlushUnlock, pool
<1>3. /\ r \in ThreadType
      /\ \/ x.back = "claim" /\ r.pc = "claim" /\ r.dest = e
         \/ x.back # "claim" /\ r.pc = "idle"
  <2>1. y \in ThreadType /\ y.pc = "claim" /\ y.dest = e
    BY <1>1, BackType
  <2>2. IdleThread.pc = "idle"
    BY DEF IdleThread
  <2> HIDE DEF y
  <2> QED BY <2>1, <2>2, IdleType
<1> HIDE DEF r
<1>4. TypeInv' /\ SlotForms'
  BY <1>1, <1>2, <1>3 DEF ThreadInv, TypeInv, SlotForms
<1>5. pos_mutex[e] = t
  BY <1>1, <1>2 DEF ThreadInv, Locks, Flushes, FlushPcs
<1>6. OwnLocks(t) /\ OwnSlots(t)
  BY <1>1, <1>2, <1>5 DEF OwnLocks, OwnSlots, ThreadInv, TypeInv
<1>7. \A d \in Nodes : /\ Pools(r, d) <=> Pools(thread[t], d)
                       /\ Flushes(thread[t], d) <=> d = e
                       /\ ~Flushes(r, d) /\ ~Fills(r, d)
  BY <1>2, <1>3 DEF Pools, Flushes, Fills, FlushPcs, MarkPcs
<1>8. \A d \in Nodes : (Pools(r, d) <=> mutex_FG'[d] = t) /\ (Flushes(r, d) <=> pos_mutex'[d] = t)
  BY <1>1, <1>2, <1>7 DEF ThreadInv, TypeInv, Locks
<1>9. FlushForm(r, head'[r.dest], buff'[r.dest])
  BY <1>3 DEF FlushForm, MarkPcs
<1> QED BY <1>2, <1>3, <1>4, <1>6, <1>7, <1>8, <1>9, ThreadStep
-----------------------------------------------------------------------------
(* Every step, by what it is.                                              *)
StepKinds ==
  \/ \E t \in Threads : QuietStep(t)
  \/ NodeStep
  \/ \E t \in Threads : \/ TryLock(t) \/ CheckFull(t) \/ Claim(t) \/ NextNode(t)
                        \/ VoidPreFetch(t) \/ Fill(t)
                        \/ FlushStep(t) \/ RdmaWriteFails(t)
  \/ UNCHANGED vars

LEMMA StepsSorted ==
  ASSUME ThreadInv, [ReadNext]_readVars
  PROVE  StepKinds
<1>1. CASE UNCHANGED readVars
  BY <1>1 DEF readVars, StepKinds
<1>2. ASSUME NEW t \in Threads, MoveCall(t) \/ ReadCall(t) \/ Proceed(t) \/ ReadBlockFails(t)
                                \/ RdmaWriteFails(t)
      PROVE  StepKinds
  <2>1. CASE MoveCall(t) \/ ReadCall(t) \/ ReadStep(t) \/ ReadBlockFails(t) \/ TryLockFails(t)
    BY <2>1, MoveCallQuiet, ReadCallQuiet, ReadStepQuiet DEF StepKinds
  <2>2. CASE ~(MoveCall(t) \/ ReadCall(t) \/ ReadStep(t) \/ ReadBlockFails(t) \/ TryLockFails(t))
    BY <1>2, <2>2 DEF Proceed, MoveStep, ClaimStep, FillSlot, StepKinds
  <2> QED BY <2>1, <2>2
<1>3. ASSUME NEW d \in Nodes, Grant(d) \/ ZapEntry(d) \/ PageReceiveOOM(d) \/ DropRequest(d)
      PROVE  StepKinds
  BY <1>3, NodeStepTaken DEF Grant, StepKinds
<1>4. CASE ReadNext
  BY <1>2, <1>3, <1>4 DEF ReadNext, Fails
<1> QED BY <1>1, <1>4

LEMMA FlushKept ==
  ASSUME ThreadInv, NEW t \in Threads, FlushStep(t) \/ RdmaWriteFails(t)
  PROVE  ThreadInv'
<1>1. moved \in [Nodes -> SUBSET (Nat \X Nat)]
  BY DEF ThreadInv, TypeInv
<1>2. CASE FlushCheck(t)
  <2>1. PICK where \in {"post", "while"} : Goto(t, where)
    BY <1>2 DEF FlushCheck
  <2> QED BY <1>1, <1>2, <2>1, FlushGotoKept DEF FlushCheck, ring, pool
<1>3. CASE RdmaWrite(t)
  <2>1. moved' \in [Nodes -> SUBSET (Nat \X Nat)]
    <3>1. MovedLess
      BY <1>3, RdmaMoved
    <3>2. \A d \in Nodes : moved'[d] \in SUBSET (Nat \X Nat)
      BY <1>1, <3>1 DEF MovedLess
    <3> QED BY <3>1, <3>2, Zenon DEF MovedLess
  <2> QED BY <1>3, <2>1, FlushGotoKept DEF RdmaWrite, ring, pool
<1>4. CASE RdmaWriteFails(t)
  BY <1>1, <1>4, FlushGotoKept DEF RdmaWriteFails, ring, pool
<1> QED BY <1>2, <1>3, <1>4, FlushLockKept, FlushWhileKept, FlushCompareKept, FlushPostKept,
           FreeBuffKept, FlushUnlockKept DEF FlushStep

LEMMA ThreadHeld == ReadSpec => []ThreadInv
<1>1. ReadInit => ThreadInv
  <2> SUFFICES ASSUME ReadInit PROVE ThreadInv
    OBVIOUS
  <2>1. nMemNodes \in Nat /\ total_writeOut \in Nat \ {0} /\ None \notin Threads
    BY WriteOutConstants
  <2>2. 0 \in Slots
    BY <2>1 DEF Slots
  <2>3. EmptySlot \in SlotType /\ SlotForm(EmptySlot)
    BY DEF EmptySlot, SlotType, SlotForm, Nothing
  <2>4. /\ \A t \in Threads : thread[t] = IdleThread
        /\ \A d \in Nodes : mutex_FG[d] = None /\ pos_mutex[d] = None
        /\ \A d \in Nodes : \A s \in Slots : buff[d][s] = EmptySlot
    BY DEF ReadInit, Init
  <2>5. IdleThread.pc = "idle"
    BY DEF IdleThread
  <2>6. TypeInv
    BY <2>2, <2>3, IdleType DEF ReadInit, Init, TypeInv
  <2>7. SlotForms
    BY <2>3, <2>4 DEF SlotForms
  <2>8. Locks /\ FlushForms /\ FillForms
    BY <2>1, <2>4, <2>5
       DEF Locks, FlushForms, FillForms, Pools, Flushes, FlushForm, Fills, FlushPcs, MarkPcs
  <2> QED BY <2>6, <2>7, <2>8 DEF ThreadInv
<1>2. ASSUME PoolInv, ThreadInv, [ReadNext]_readVars PROVE ThreadInv'
  <2>1. StepKinds
    BY <1>2, StepsSorted
  <2>2. CASE UNCHANGED vars
    BY <1>2, <2>2 DEF vars, ThreadInv, TypeInv, Locks, SlotForms, FlushForms, FillForms
  <2> QED BY <1>2, <2>1, <2>2, QuietKept, NodeStepKept, TryLockKept, CheckFullKept, ClaimKept,
             NextNodeKept, VoidKept, FillKept, FlushKept DEF StepKinds
<1> QED BY <1>1, <1>2, PoolHeld, PTL DEF ReadSpec
-----------------------------------------------------------------------------
(* Who has a page number.                                                  *)
TakenOf(d) == {c[1] : c \in moved[d]}

Given(d) ==
  /\ PagesOf(free_group[d]) \cap TakenOf(d) = {}
  /\ IsFiniteSet(moved[d]) /\ \A c, b \in moved[d] : c[1] = b[1] => c = b
  /\ \A t \in Threads : Fills(thread[t], d) =>
       thread[t].page \notin PagesOf(free_group[d]) \union TakenOf(d)
  /\ \A t, u \in Threads :
       Fills(thread[t], d) /\ Fills(thread[u], d) /\ t # u => thread[t].page # thread[u].page
GivenInv == \A d \in Nodes : Given(d)

(* What a step does to the page numbers of a node: it may drop some, it gives *)
(* one of the pool to a thread, or a thread hands its own over.             *)
FillerKept(t, d) ==
  Fills(thread'[t], d) =>
    Fills(thread[t], d) /\ thread'[t].page = thread[t].page /\ thread'[t].slot = thread[t].slot
DropStep(d) == moved'[d] \subseteq moved[d] /\ \A t \in Threads : FillerKept(t, d)
TakeStep(d) ==
  /\ PageTaken(d) /\ free_group[d] # <<>> /\ moved'[d] \subseteq moved[d]
  /\ \E t \in Threads : /\ thread'[t].page = Head(free_group[d]).page_start
                        /\ \A u \in Threads : u # t => FillerKept(u, d)
HandStep(d) ==
  /\ PoolKept(d)
  /\ \E t \in Threads : \E n :
       /\ Fills(thread[t], d) /\ ~Fills(thread'[t], d)
       /\ moved'[d] = moved[d] \union {<<thread[t].page, n>>}
       /\ \A u \in Threads : u # t => FillerKept(u, d)

LEMMA ClaimGives ==
  ASSUME PoolInv, ThreadInv, NEW t \in Threads, Claim(t), NEW d \in Nodes
  PROVE  DropStep(d) \/ TakeStep(d)
<1> DEFINE e == thread[t].dest
<1>1. /\ e \in Nodes /\ thread \in [Threads -> ThreadType]
  BY DEF ThreadInv, TypeInv, ThreadType
<1>2. /\ \A u \in Threads : u # t => thread'[u] = thread[u]
      /\ thread'[t] = [thread[t] EXCEPT !.pc = "void", !.slot = tail[e],
                                        !.page = Head(free_group[e]).page_start]
      /\ moved' = moved
  BY <1>1 DEF Claim
<1>3. thread'[t].dest = e /\ thread'[t].page = Head(free_group[e]).page_start
  BY <1>1, <1>2 DEF ThreadType
<1>4. CASE d = e
  <2>1. free_group[d] # <<>>
    BY <1>4, ClaimTakes DEF Claim
  <2>2. PageTaken(d)
    <3>1. total_page[e] > 0
      BY DEF Claim, Claimable
    <3> QED BY <1>1, <1>4, <3>1 DEF PageTaken, Claim, PoolInv
  <2> QED BY <1>2, <1>3, <1>4, <2>1, <2>2 DEF TakeStep, FillerKept
<1>5. CASE d # e
  BY <1>2, <1>3, <1>5 DEF DropStep, FillerKept, Fills
<1> QED BY <1>4, <1>5

LEMMA FillGives ==
  ASSUME PoolInv, ThreadInv, NEW t \in Threads, Fill(t), NEW d \in Nodes
  PROVE  DropStep(d) \/ HandStep(d)
<1> DEFINE e == thread[t].dest
<1>1. e \in Nodes /\ thread \in [Threads -> ThreadType]
  BY DEF ThreadInv, TypeInv, ThreadType
<1>2. /\ \A u \in Threads : u # t => thread'[u] = thread[u]
      /\ thread'[t].pc \in {"lock", "idle"}
  BY <1>1 DEF Fill, IdleThread
<1>3. PICK n : moved' = [moved EXCEPT ![e] = @ \union {<<thread[t].page, n>>}]
  BY DEF Fill
<1>4. PoolKept(d)
  BY DEF Fill, pool, PoolKept
<1>5. thread[t].pc = "fill"
  BY DEF Fill
<1>6. CASE d = e
  <2>1. moved'[d] = moved[d] \union {<<thread[t].page, n>>}
    BY <1>1, <1>3, <1>6 DEF ThreadInv, TypeInv
  <2>2. Fills(thread[t], d) /\ ~Fills(thread'[t], d)
    BY <1>2, <1>5, <1>6 DEF Fills
  <2> QED BY <1>2, <1>4, <2>1, <2>2 DEF HandStep, FillerKept
<1>7. CASE d # e
  <2>1. moved'[d] = moved[d]
    BY <1>1, <1>3, <1>7 DEF ThreadInv, TypeInv
  <2> QED BY <1>2, <2>1 DEF DropStep, FillerKept, Fills
<1> QED BY <1>6, <1>7

LEMMA OthersDrop ==
  ASSUME ThreadInv, NEW t \in Threads, NEW d \in Nodes,
         \/ TryLock(t) \/ CheckFull(t) \/ NextNode(t) \/ VoidPreFetch(t)
         \/ FlushStep(t) \/ RdmaWriteFails(t)
  PROVE  DropStep(d)
<1>1. thread \in [Threads -> ThreadType]
  BY DEF ThreadInv, TypeInv
<1>2. ASSUME NEW r, thread' = [thread EXCEPT ![t] = r], MovedLess,
             Fills(r, d) => Fills(thread[t], d) /\ r.page = thread[t].page /\ r.slot = thread[t].slot
      PROVE  DropStep(d)
  BY <1>1, <1>2 DEF DropStep, FillerKept, MovedLess
<1>3. ASSUME NEW r, thread' = [thread EXCEPT ![t] = r], MovedLess, r.pc \notin {"void", "fill"}
      PROVE  DropStep(d)
  BY <1>2, <1>3 DEF Fills
<1>4. thread[t] \in ThreadType
  BY <1>1
<1>5. ASSUME NEW where, Goto(t, where), MovedLess, where \notin {"void", "fill"}
      PROVE  DropStep(d)
  <2>1. [thread[t] EXCEPT !.pc = where].pc = where
    BY <1>4 DEF ThreadType
  <2> QED BY <1>3, <1>5, <2>1 DEF Goto
<1>6. CASE TryLock(t)
  BY <1>5, <1>6, MovedSame DEF TryLock
<1>7. CASE CheckFull(t)
  <2>1. PICK w \in {"lock", "claim"} :
          thread' = [thread EXCEPT ![t].pc = w, ![t].back = "claim"]
    BY <1>7 DEF CheckFull
  <2>2. /\ thread' = [thread EXCEPT ![t] = [thread[t] EXCEPT !.pc = w, !.back = "claim"]]
        /\ [thread[t] EXCEPT !.pc = w, !.back = "claim"].pc = w
    BY <1>1, <1>4, <2>1 DEF ThreadType
  <2> QED BY <1>3, <1>7, <2>2, MovedSame DEF CheckFull
<1>8. CASE NextNode(t)
  <2> DEFINE e == thread[t].dest
             n == [thread[t] EXCEPT !.pc = "try", !.dest = COMEX_hash(e, COMEX_ID),
                                    !.i = thread[t].i + 1]
             r == IF thread[t].i + 1 < nMemNodes THEN n ELSE IdleThread
  <2>1. thread' = [thread EXCEPT ![t] = r]
    BY <1>8 DEF NextNode
  <2>2. n.pc = "try" /\ IdleThread.pc = "idle"
    BY <1>4 DEF ThreadType, IdleThread
  <2> HIDE DEF n
  <2>3. r.pc \in {"try", "idle"}
    BY <2>2
  <2> HIDE DEF r
  <2> QED BY <1>3, <1>8, <2>1, <2>3, MovedSame DEF NextNode
<1>9. CASE VoidPreFetch(t)
  <2> DEFINE r == [thread[t] EXCEPT !.pc = "fill"]
  <2>1. thread' = [thread EXCEPT ![t] = r] /\ thread[t].pc = "void"
    BY <1>9 DEF VoidPreFetch, Goto
  <2>2. r.page = thread[t].page /\ r.slot = thread[t].slot /\ r.dest = thread[t].dest
    BY <1>4 DEF ThreadType
  <2> HIDE DEF r
  <2> QED BY <1>2, <1>9, <2>1, <2>2, MovedSame DEF VoidPreFetch, Fills
<1>10. CASE FlushLock(t)
  <2> DEFINE r == [thread[t] EXCEPT !.pc = "while", !.count = 0, !.gap = FALSE, !.late = FALSE]
  <2>1. thread' = [thread EXCEPT ![t] = r] /\ r.pc = "while"
    BY <1>1, <1>4, <1>10 DEF FlushLock, ThreadType
  <2> HIDE DEF r
  <2> QED BY <1>3, <1>10, <2>1, MovedSame DEF FlushLock
<1>11. CASE FlushWhile(t)
  <2>1. MovedLess
    BY <1>11, MovedSame DEF FlushWhile
  <2>2. \A u \in Threads : u # t => thread'[u] = thread[u]
    BY <1>1, <1>11 DEF FlushWhile
  <2>3. thread'[t].pc \in {"post", "compare", "unlock"}
    BY <1>1, <1>4, <1>11 DEF FlushWhile, ThreadType
  <2> QED BY <2>1, <2>2, <2>3 DEF DropStep, FillerKept, Fills, MovedLess
<1>12. CASE FlushCompare(t)
  <2>1. MovedLess
    BY <1>12, MovedSame DEF FlushCompare
  <2>2. \A u \in Threads : u # t => thread'[u] = thread[u]
    BY <1>1, <1>12 DEF FlushCompare
  <2>3. thread'[t].pc = "check"
    BY <1>1, <1>4, <1>12 DEF FlushCompare, ThreadType
  <2> QED BY <2>1, <2>2, <2>3 DEF DropStep, FillerKept, Fills, MovedLess
<1>13. CASE FlushPost(t)
  <2>1. MovedLess
    BY <1>13, MovedSame DEF FlushPost
  <2>2. \A u \in Threads : u # t => thread'[u] = thread[u]
    BY <1>1, <1>13 DEF FlushPost
  <2>3. thread'[t].pc \in {"unlock", "rdma"}
    BY <1>1, <1>4, <1>13 DEF FlushPost, ThreadType
  <2> QED BY <2>1, <2>2, <2>3 DEF DropStep, FillerKept, Fills, MovedLess
<1>14. CASE FlushCheck(t)
  BY <1>5, <1>14, MovedSame DEF FlushCheck
<1>15. CASE RdmaWrite(t)
  BY <1>5, <1>15, RdmaMoved DEF RdmaWrite
<1>16. CASE RdmaWriteFails(t)
  BY <1>5, <1>16, MovedSame DEF RdmaWriteFails
<1>17. CASE FreeBuff(t)
  BY <1>5, <1>17, MovedSame DEF FreeBuff
<1>18. CASE FlushUnlock(t)
  <2>1. MovedLess
    BY <1>18, MovedSame DEF FlushUnlock
  <2>2. \A u \in Threads : u # t => thread'[u] = thread[u]
    BY <1>1, <1>18 DEF FlushUnlock
  <2>3. thread'[t].pc \in {"claim", "idle"}
    BY <1>1, <1>18 DEF FlushUnlock, IdleThread
  <2> QED BY <2>1, <2>2, <2>3 DEF DropStep, FillerKept, Fills, MovedLess
<1> QED BY <1>6, <1>7, <1>8, <1>9, <1>10, <1>11, <1>12, <1>13, <1>14, <1>15, <1>16, <1>17, <1>18
       DEF FlushStep

LEMMA GivenSteps ==
  ASSUME PoolInv, ThreadInv, [ReadNext]_readVars, NEW d \in Nodes
  PROVE  DropStep(d) \/ TakeStep(d) \/ HandStep(d)
<1>1. StepKinds
  BY StepsSorted
<1>2. ASSUME NEW t \in Threads, QuietStep(t) PROVE DropStep(d)
  <2>1. PICK r \in ThreadType : r.pc \in IdlePcs /\ thread' = [thread EXCEPT ![t] = r] /\ MovedLess
    BY <1>2 DEF QuietStep
  <2>2. ~Fills(r, d)
    BY <2>1 DEF Fills, IdlePcs, ReadPcs
  <2>3. thread \in [Threads -> ThreadType]
    BY DEF ThreadInv, TypeInv
  <2> QED BY <2>1, <2>2, <2>3 DEF DropStep, FillerKept, MovedLess
<1>3. CASE NodeStep
  BY <1>3 DEF NodeStep, DropStep, FillerKept, MovedLess
<1>4. CASE UNCHANGED vars
  BY <1>4 DEF vars, DropStep, FillerKept
<1> QED BY <1>1, <1>2, <1>3, <1>4, ClaimGives, FillGives, OthersDrop DEF StepKinds

(* The pool of a node grows by nothing that is in use.                      *)
LEMMA PoolGrows ==
  ASSUME PoolInv, [ReadNext]_readVars, NEW d \in Nodes
  PROVE  /\ \A p \in PagesOf(free_group'[d]) \ PagesOf(free_group[d]) : p \notin InUse(d)
         /\ PageTaken(d) /\ free_group[d] # <<>> =>
              /\ Head(free_group[d]).page_start \in PagesOf(free_group[d])
              /\ PagesOf(free_group'[d]) = PagesOf(free_group[d]) \ {Head(free_group[d]).page_start}
<1> DEFINE q == free_group[d]
<1>1. q \in Seq(Groups) /\ Apart(q)
  BY DEF PoolInv, GoodPool
<1>2. ASSUME PageTaken(d), q # <<>>
      PROVE  /\ Head(q).page_start \in PagesOf(q)
             /\ PagesOf(free_group'[d]) = PagesOf(q) \ {Head(q).page_start}
  BY <1>1, <1>2, RestPages DEF PageTaken
<1>3. CASE PoolKept(d)
  BY <1>2, <1>3 DEF PoolKept
<1>4. CASE PageTaken(d)
  <2>1. q # <<>>
    <3>1. PagesOf(<<>>) = {}
      BY DEF PagesOf, ToSet
    <3>2. Cardinality(PagesOf(q)) > 0
      <4>1. total_page[d] > 0
        BY <1>4 DEF PageTaken
      <4>2. total_page[d] = Cardinality(PagesOf(q))
        BY DEF PoolInv, GoodPool
      <4> QED BY <4>1, <4>2
    <3>3. q = <<>> => Cardinality(PagesOf(q)) = 0
      BY <3>1, FS_EmptySet
    <3> QED BY <3>2, <3>3
  <2> QED BY <1>2, <1>4, <2>1
<1>5. CASE BlockAdded(d)
  <2> DEFINE g == BlockGroup(NextBlock(d))
  <2>1. /\ granted[d] < Len(Supply[d]) /\ BlockPages(NextBlock(d)) \cap InUse(d) = {}
        /\ free_group'[d] = Append(q, g)
    BY <1>5 DEF BlockAdded, CanGrant, NextBlock
  <2>2. g \in Groups /\ GroupPages(g) = BlockPages(NextBlock(d))
    BY <2>1, BlockGood
  <2>3. PagesOf(q) \subseteq InUse(d)
    BY DEF InUse, PagesOf
  <2> HIDE DEF g, q
  <2>4. PagesOf(free_group'[d]) = PagesOf(q) \union GroupPages(g)
    BY <1>1, <2>1, <2>2, <2>3, AppendPages
  <2> QED BY <1>2, <2>1, <2>2, <2>4 DEF q
<1> QED BY <1>3, <1>4, <1>5, PoolStep

LEMMA GivenHeld == ReadSpec => []GivenInv
<1>1. ReadInit => GivenInv
  <2> SUFFICES ASSUME ReadInit, NEW d \in Nodes PROVE Given(d)
    BY DEF GivenInv
  <2>1. moved[d] = {} /\ \A t \in Threads : thread[t].pc = "idle"
    BY DEF ReadInit, Init, IdleThread
  <2> QED BY <2>1, FS_EmptySet DEF Given, TakenOf, Fills
<1>2. ASSUME PoolInv, ThreadInv, GivenInv, [ReadNext]_readVars PROVE GivenInv'
  <2> SUFFICES ASSUME NEW d \in Nodes PROVE Given(d)'
    BY DEF GivenInv
  <2> DEFINE P == PagesOf(free_group[d])  Q == PagesOf(free_group'[d])
             T == TakenOf(d)  U == TakenOf(d)'
  <2>1. /\ P \cap T = {} /\ IsFiniteSet(moved[d])
        /\ \A c, b \in moved[d] : c[1] = b[1] => c = b
        /\ \A t \in Threads : Fills(thread[t], d) => thread[t].page \notin P \union T
        /\ \A t, u \in Threads :
             Fills(thread[t], d) /\ Fills(thread[u], d) /\ t # u => thread[t].page # thread[u].page
    BY <1>2 DEF GivenInv, Given
  <2>2. \A p \in Q \ P : p \notin InUse(d)
    BY <1>2, PoolGrows
  <2>3. T \subseteq InUse(d) /\ \A t \in Threads : Fills(thread[t], d) => thread[t].page \in InUse(d)
    <3>1. T \subseteq InUse(d)
      BY DEF TakenOf, InUse, T
    <3>2. ASSUME NEW t \in Threads, Fills(thread[t], d) PROVE thread[t].page \in InUse(d)
      <4>1. t \in {u \in Threads : thread[u].dest = d}
        BY <3>2 DEF Fills
      <4>2. thread[t].page \in {thread[v].page : v \in {u \in Threads : thread[u].dest = d}}
        BY <4>1
      <4> QED BY <4>2 DEF InUse
    <3> QED BY <3>1, <3>2
  <2>4. T = {c[1] : c \in moved[d]} /\ U = {c[1] : c \in moved'[d]}
    BY DEF TakenOf
  <2> HIDE DEF P, Q, T, U
  <2>5. SUFFICES /\ Q \cap U = {} /\ IsFiniteSet(moved'[d])
                 /\ \A c, b \in moved'[d] : c[1] = b[1] => c = b
                 /\ \A t \in Threads : Fills(thread'[t], d) => thread'[t].page \notin Q \union U
                 /\ \A t, u \in Threads : Fills(thread'[t], d) /\ Fills(thread'[u], d) /\ t # u
                                            => thread'[t].page # thread'[u].page
    BY DEF Given, Q, U
  <2>6. CASE DropStep(d)
    <3>1. moved'[d] \subseteq moved[d] /\ \A t \in Threads : FillerKept(t, d)
      BY <2>6 DEF DropStep
    <3>2. IsFiniteSet(moved'[d])
      BY <2>1, <3>1, FS_Subset
    <3>3. U \subseteq T
      BY <2>4, <3>1
    <3> QED BY <2>1, <2>2, <2>3, <3>1, <3>2, <3>3 DEF FillerKept
  <2>7. CASE TakeStep(d)
    <3> DEFINE p == Head(free_group[d]).page_start
    <3>1. PICK t \in Threads : /\ thread'[t].page = p
                               /\ \A u \in Threads : u # t => FillerKept(u, d)
      BY <2>7 DEF TakeStep
    <3>2. moved'[d] \subseteq moved[d] /\ PageTaken(d) /\ free_group[d] # <<>>
      BY <2>7 DEF TakeStep
    <3>3. p \in P /\ Q = P \ {p}
      BY <1>2, <3>2, PoolGrows DEF P, Q
    <3>4. IsFiniteSet(moved'[d])
      BY <2>1, <3>2, FS_Subset
    <3>5. U \subseteq T
      BY <2>4, <3>2
    <3> HIDE DEF p
    <3> QED BY <2>1, <3>1, <3>2, <3>3, <3>4, <3>5 DEF FillerKept
  <2>8. CASE HandStep(d)
    <3>1. Q = P
      BY <2>8 DEF HandStep, PoolKept, P, Q
    <3>2. PICK t \in Threads : \E n :
            /\ Fills(thread[t], d) /\ ~Fills(thread'[t], d)
            /\ moved'[d] = moved[d] \union {<<thread[t].page, n>>}
            /\ \A u \in Threads : u # t => FillerKept(u, d)
      BY <2>8 DEF HandStep
    <3>3. PICK n :
            /\ Fills(thread[t], d) /\ ~Fills(thread'[t], d)
            /\ moved'[d] = moved[d] \union {<<thread[t].page, n>>}
            /\ \A u \in Threads : u # t => FillerKept(u, d)
      BY <3>2
    <3> DEFINE c == <<thread[t].page, n>>
    <3>4. c[1] = thread[t].page
      OBVIOUS
    <3>5. c[1] \notin T /\ c[1] \notin P
      BY <2>1, <3>3, <3>4
    <3> HIDE DEF c
    <3>6. moved'[d] = moved[d] \union {c}
      BY <3>3 DEF c
    <3>7. IsFiniteSet(moved'[d])
      BY <2>1, <3>6, FS_AddElement
    <3>8. U = T \union {c[1]}
      BY <2>4, <3>6
    <3>9. \A a, b \in moved'[d] : a[1] = b[1] => a = b
      BY <2>1, <2>4, <3>5, <3>6
    <3> QED BY <2>1, <3>1, <3>3, <3>4, <3>5, <3>7, <3>8, <3>9 DEF FillerKept
  <2> QED BY <1>2, <2>6, <2>7, <2>8, GivenSteps
<1> QED BY <1>1, <1>2, PoolHeld, ThreadHeld, PTL DEF ReadSpec

(* A page number is given to one writer only: COMEX_freelist_getpage under    *)
(* mutex_FG takes it out of the pool before another thread looks, and the     *)
(* node grants none that is in use.                                         *)
THEOREM GivenOnce == ReadSpec => []PageGivenOnce
<1>1. ASSUME GivenInv PROVE PageGivenOnce
  <2>1. ASSUME NEW d \in Nodes PROVE Cardinality(TakenOf(d)) = Cardinality(moved[d])
    <3> DEFINE S == moved[d]  T == {c[1] : c \in moved[d]}  f == [c \in S |-> c[1]]
    <3>1. IsFiniteSet(S) /\ \A c, b \in S : c[1] = b[1] => c = b
      BY <1>1 DEF GivenInv, Given
    <3>2. f \in [S -> T] /\ \A a, b \in S : f[a] = f[b] => a = b
      BY <3>1
    <3>3. \A p \in T : \E c \in S : f[c] = p
      OBVIOUS
    <3> HIDE DEF S, T, f
    <3>4. f \in Bijection(S, T)
      BY <3>2, <3>3, Fun_IsBij
    <3>5. Cardinality(T) = Cardinality(S)
      BY <3>1, <3>4, FS_Bijection DEF ExistsBijection
    <3> QED BY <3>5 DEF S, T, TakenOf
  <2>2. \A t \in Threads : \A d \in Nodes : Filling(t, d) <=> Fills(thread[t], d)
    BY DEF Filling, Fills
  <2> QED BY <1>1, <2>1, <2>2 DEF GivenInv, Given, PageGivenOnce, PagesOf, TakenOf
<1> QED BY <1>1, GivenHeld, PTL

-----------------------------------------------------------------------------
(* The ring.                                                               *)

Turn(h, k) == IF h + k < total_writeOut THEN h + k ELSE h + k - total_writeOut
Dist(h, s) == IF s >= h THEN s - h ELSE s - h + total_writeOut

LEMMA WrapTurn ==
  ASSUME NEW h \in Slots, NEW k \in 0 .. total_writeOut
  PROVE  /\ (h + k) % total_writeOut = Turn(h, k) /\ Turn(h, k) \in Slots
         /\ k < total_writeOut => Dist(h, Turn(h, k)) = k
<1>1. total_writeOut \in Nat \ {0} /\ h \in 0 .. total_writeOut - 1
  BY WriteOutConstants DEF Slots
<1>2. CASE h + k < total_writeOut
  <2>1. (h + k) % total_writeOut = h + k
    BY <1>1, <1>2
  <2> QED BY <1>1, <1>2, <2>1 DEF Turn, Dist, Slots
<1>3. CASE ~(h + k < total_writeOut)
  <2>1. h + k \in total_writeOut .. total_writeOut + total_writeOut - 1
    BY <1>1, <1>3
  <2> DEFINE x == h + k
  <2>2. x \in total_writeOut .. total_writeOut + total_writeOut - 1
    BY <2>1
  <2> HIDE DEF x
  <2>3. x % total_writeOut = x - total_writeOut
    BY <1>1, <2>2
  <2> QED BY <1>1, <1>3, <2>3 DEF Turn, Dist, Slots, x
<1> QED BY <1>2, <1>3

LEMMA DistTurn ==
  ASSUME NEW h \in Slots, NEW s \in Slots
  PROVE  Dist(h, s) \in 0 .. total_writeOut - 1 /\ Turn(h, Dist(h, s)) = s
BY WriteOutConstants DEF Slots, Dist, Turn

(* A slot in use: claimed, filled, or marked by the flush that runs.         *)
InUsed(d, s) ==
  buff[d][s].status \in {1, 2} \/ (head[d] <= s /\ s < head[d] + Marked(d))

Ring(d) ==
  /\ Marked(d) \in Nat /\ head[d] + Marked(d) <= total_writeOut
  /\ \E n \in 0 .. total_writeOut :
       /\ tail[d] = Turn(head[d], n)
       /\ \A s \in Slots : InUsed(d, s) <=> Dist(head[d], s) < n
RingInv == \A d \in Nodes : Ring(d)

(* What a step does to the ring of a node.                                 *)
SameUse(d, s) == buff'[d][s].status \in {1, 2} <=> buff[d][s].status \in {1, 2}
RingKept(d) ==
  /\ head'[d] = head[d] /\ tail'[d] = tail[d] /\ Marked(d)' = Marked(d)
  /\ \A s \in Slots : SameUse(d, s)
RingClaim(d) ==
  /\ head'[d] = head[d] /\ tail'[d] = Turn(tail[d], 1) /\ Marked(d)' = Marked(d)
  /\ buff[d][tail[d]].status = -1 /\ buff'[d][tail[d]].status = 1
  /\ \A s \in Slots : s # tail[d] => SameUse(d, s)
RingJoin(d) ==
  LET here == head[d] + Marked(d) IN
  /\ head'[d] = head[d] /\ tail'[d] = tail[d] /\ Marked(d)' = Marked(d) + 1
  /\ here \in Slots /\ buff[d][here].status = 2 /\ buff'[d][here].status = 3
  /\ \A s \in Slots : s # here => SameUse(d, s)
RingPass(d) ==
  /\ head'[d] = Turn(head[d], Marked(d)) /\ tail'[d] = tail[d] /\ Marked(d)' = 0
  /\ \A s \in Slots : head[d] <= s /\ s < head[d] + Marked(d) => buff[d][s].status = 3
  /\ \A s \in Slots : SameUse(d, s)

LEMMA RingOn ==
  ASSUME ThreadInv, NEW d \in Nodes, Ring(d), head'[d] \in Slots,
         RingKept(d) \/ RingClaim(d) \/ RingJoin(d) \/ RingPass(d)
  PROVE  Ring(d)'
<1> DEFINE h == head[d]  m == Marked(d)  T == total_writeOut
<1>1. T \in Nat \ {0} /\ h \in Slots /\ tail[d] \in Slots /\ Slots = 0 .. T - 1
  BY WriteOutConstants DEF ThreadInv, TypeInv, Slots
<1>2. PICK n \in 0 .. T : /\ tail[d] = Turn(h, n)
                          /\ \A s \in Slots : InUsed(d, s) <=> Dist(h, s) < n
  BY DEF Ring
<1>3. m \in Nat /\ h + m <= T
  BY DEF Ring
<1>4. \A s \in Slots : InUsed(d, s) <=> \/ buff[d][s].status \in {1, 2}
                                        \/ h <= s /\ s < h + m
  BY DEF InUsed
<1> DEFINE h2 == head'[d]  m2 == Marked(d)'  Used2(s) == InUsed(d, s)'
<1>5. \A s \in Slots : Used2(s) <=> \/ buff'[d][s].status \in {1, 2}
                                    \/ h2 <= s /\ s < h2 + m2
  BY DEF InUsed
<1> HIDE DEF h, m, h2, m2, Used2
<1>6. SUFFICES /\ m2 \in Nat /\ h2 + m2 <= T
               /\ \E k \in 0 .. T : /\ tail'[d] = Turn(h2, k)
                                    /\ \A s \in Slots : Used2(s) <=> Dist(h2, s) < k
  BY DEF Ring, h2, m2, Used2
<1>7. CASE RingKept(d)
  <2>1. /\ h2 = h /\ tail'[d] = tail[d] /\ m2 = m
        /\ \A s \in Slots : buff'[d][s].status \in {1, 2} <=> buff[d][s].status \in {1, 2}
    BY <1>7 DEF RingKept, SameUse, h, m, h2, m2
  <2>2. \A s \in Slots : Used2(s) <=> InUsed(d, s)
    BY <1>4, <1>5, <2>1
  <2> QED BY <1>2, <1>3, <2>1, <2>2
<1>8. CASE RingClaim(d)
  <2> DEFINE a == tail[d]
  <2>1. /\ h2 = h /\ tail'[d] = Turn(a, 1) /\ m2 = m
        /\ buff[d][a].status = -1 /\ buff'[d][a].status = 1
        /\ \A s \in Slots : s # a =>
             (buff'[d][s].status \in {1, 2} <=> buff[d][s].status \in {1, 2})
    BY <1>8 DEF RingClaim, SameUse, h, m, h2, m2
  <2>2. ASSUME h <= a /\ a < h + m PROVE FALSE
    <3>1. Marked(d) # 0 /\ pos_mutex[d] \in Threads
      BY <1>1, <2>2 DEF Marked, m, Slots
    <3> DEFINE u == pos_mutex[d]
    <3>2. thread[u].pc \in MarkPcs /\ m = thread[u].count
      BY <3>1 DEF Marked, m, MarkPcs
    <3>3. thread[u].dest = d
      BY <3>1 DEF ThreadInv, Locks, Flushes
    <3>4. FlushForm(thread[u], h, buff[d])
      BY <3>1, <3>3 DEF ThreadInv, FlushForms, h
    <3>5. buff[d][a].status = 3
      BY <1>1, <2>2, <3>2, <3>4 DEF FlushForm
    <3> QED BY <2>1, <3>5
  <2>3. ~InUsed(d, a)
    BY <1>1, <1>4, <2>1, <2>2
  <2>4. n < T
    <3>1. Dist(h, a) < T /\ ~(Dist(h, a) < n)
      BY <1>1, <1>2, <2>3, DistTurn
    <3> QED BY <1>1, <1>2, <3>1 DEF Dist, Slots
  <2>5. Dist(h, a) = n
    BY <1>1, <1>2, <2>4, WrapTurn
  <2>6. tail'[d] = Turn(h, n + 1)
    BY <1>1, <1>2, <2>1, <2>4 DEF Turn, Slots
  <2>7. \A s \in Slots : s # a => Dist(h, s) # n
    BY <1>1, <1>2, <2>5, DistTurn
  <2>8. ASSUME NEW s \in Slots PROVE Used2(s) <=> Dist(h, s) < n + 1
    <3>1. Used2(s) <=> InUsed(d, s) \/ s = a
      BY <1>4, <1>5, <2>1
    <3>2. Dist(h, s) \in Int
      BY <1>1, DistTurn
    <3>3. s = a \/ Dist(h, s) < n <=> Dist(h, s) < n + 1
      BY <1>2, <2>5, <2>7, <3>2
    <3> QED BY <1>2, <3>1, <3>3
  <2>9. n + 1 \in 0 .. T
    BY <1>1, <1>2, <2>4
  <2> QED BY <1>3, <2>1, <2>6, <2>8, <2>9
<1>9. CASE RingJoin(d)
  <2> DEFINE a == h + m
  <2>1. /\ h2 = h /\ tail'[d] = tail[d] /\ m2 = m + 1 /\ a \in Slots
        /\ buff[d][a].status = 2 /\ buff'[d][a].status = 3
        /\ \A s \in Slots : s # a =>
             (buff'[d][s].status \in {1, 2} <=> buff[d][s].status \in {1, 2})
    BY <1>9 DEF RingJoin, SameUse, h, m, h2, m2
  <2>2. \A s \in Slots : Used2(s) <=> InUsed(d, s)
    <3> TAKE s \in Slots
    <3>1. CASE s = a
      BY <1>1, <1>3, <1>4, <1>5, <2>1, <3>1
    <3>2. CASE s # a
      <4>1. h <= s /\ s < h + (m + 1) <=> h <= s /\ s < h + m
        BY <1>1, <1>3, <3>2
      <4> QED BY <1>4, <1>5, <2>1, <3>2, <4>1
    <3> QED BY <3>1, <3>2
  <2>3. h2 + m2 <= T
    BY <1>1, <1>3, <2>1
  <2> QED BY <1>2, <1>3, <2>1, <2>2, <2>3
<1>10. CASE RingPass(d)
  <2>1. /\ h2 = Turn(h, m) /\ tail'[d] = tail[d] /\ m2 = 0
        /\ \A s \in Slots : h <= s /\ s < h + m => buff[d][s].status = 3
        /\ \A s \in Slots : buff'[d][s].status \in {1, 2} <=> buff[d][s].status \in {1, 2}
    BY <1>10 DEF RingPass, SameUse, h, m, h2, m2
  <2>2. m <= n
    <3>1. CASE m = 0
      BY <1>2, <3>1
    <3>2. CASE m > 0
      <4>1. h + m - 1 \in Slots /\ h <= h + m - 1 /\ h + m - 1 < h + m
        BY <1>1, <1>3, <3>2
      <4>2. Dist(h, h + m - 1) = m - 1
        BY <1>1, <1>3, <3>2 DEF Dist
      <4>3. Dist(h, h + m - 1) < n
        BY <1>2, <1>4, <4>1
      <4> QED BY <1>2, <1>3, <4>2, <4>3
    <3> QED BY <1>3, <3>1, <3>2
  <2>3. h2 \in Slots
    BY DEF h2
  <2>4. tail'[d] = Turn(h2, n - m)
    BY <1>1, <1>2, <1>3, <2>1, <2>2 DEF Turn
  <2>5. ASSUME NEW s \in Slots PROVE Used2(s) <=> Dist(h2, s) < n - m
    <3>1. Used2(s) <=> InUsed(d, s) /\ ~(h <= s /\ s < h + m)
      <4>1. ~(h2 <= s /\ s < h2 + 0)
        BY <1>1, <2>3
      <4> QED BY <1>4, <1>5, <2>1, <4>1
    <3>2. Dist(h, s) < n /\ ~(h <= s /\ s < h + m) <=> Dist(h2, s) < n - m
      BY <1>1, <1>2, <1>3, <2>1, <2>2 DEF Turn, Dist
    <3> QED BY <1>2, <3>1, <3>2
  <2>6. n - m \in 0 .. T /\ h2 + 0 <= T
    BY <1>1, <1>2, <1>3, <2>2, <2>3
  <2> QED BY <2>1, <2>4, <2>5, <2>6
<1> QED BY <1>7, <1>8, <1>9, <1>10

(* A step of a thread that does not flush this node.                        *)
LEMMA MarkedKept ==
  ASSUME ThreadInv, NEW t \in Threads, NEW d \in Nodes, ~Flushes(thread[t], d),
         \A u \in Threads : u # t => thread'[u] = thread[u], pos_mutex'[d] = pos_mutex[d]
  PROVE  Marked(d)' = Marked(d)
<1>1. pos_mutex[d] # t
  BY DEF ThreadInv, Locks
<1> QED BY <1>1 DEF Marked

LEMMA RingStays ==
  ASSUME NEW d \in Nodes, Marked(d)' = Marked(d), UNCHANGED <<head, tail, buff>>
  PROVE  RingKept(d)
BY DEF RingKept, SameUse

LEMMA RingClaims ==
  ASSUME ThreadInv, NEW t \in Threads, NEW d \in Nodes, Claim(t)
  PROVE  RingKept(d) \/ RingClaim(d)
<1> DEFINE e == thread[t].dest  s == tail[e]
<1>1. /\ thread[t] \in ThreadType /\ e \in Nodes /\ s \in Slots
      /\ tail \in [Nodes -> Slots] /\ buff \in [Nodes -> [Slots -> SlotType]]
      /\ thread \in [Threads -> ThreadType]
  BY DEF ThreadInv, TypeInv, ThreadType
<1>2. /\ thread[t].pc = "claim" /\ buff[e][s].status = -1 /\ UNCHANGED <<head, pos_mutex>>
      /\ tail' = [tail EXCEPT ![e] = NextSlot(@)] /\ buff' = [buff EXCEPT ![e][s].status = 1]
      /\ \A u \in Threads : u # t => thread'[u] = thread[u]
  BY <1>1 DEF Claim, Claimable
<1>3. Marked(d)' = Marked(d)
  BY <1>2, MarkedKept DEF Flushes, FlushPcs, MarkPcs
<1>4. NextSlot(s) = Turn(s, 1)
  <2>1. 1 \in 0 .. total_writeOut
    BY WriteOutConstants
  <2> QED BY <1>1, <2>1, WrapTurn DEF NextSlot
<1>5. CASE d # e
  BY <1>1, <1>2, <1>3, <1>5 DEF RingKept, SameUse
<1>6. CASE d = e
  <2> DEFINE b == [buff[e][s] EXCEPT !.status = 1]
  <2>1. b.status = 1
    BY <1>1 DEF SlotType
  <2>2. buff' = [buff EXCEPT ![e] = [@ EXCEPT ![s] = b]]
    BY <1>1, <1>2
  <2> HIDE DEF b, s
  <2>3. buff'[e][s].status = 1 /\ \A u \in Slots : u # s => buff'[e][u] = buff[e][u]
    BY <1>1, <2>1, <2>2
  <2>4. tail'[e] = Turn(s, 1)
    BY <1>1, <1>2, <1>4 DEF s
  <2> QED BY <1>2, <1>3, <1>6, <2>3, <2>4 DEF RingClaim, SameUse, s
<1> QED BY <1>5, <1>6

LEMMA RingFills ==
  ASSUME ThreadInv, NEW t \in Threads, NEW d \in Nodes, Fill(t)
  PROVE  RingKept(d)
<1> DEFINE e == thread[t].dest  s == thread[t].slot
<1>1. /\ thread[t] \in ThreadType /\ e \in Nodes /\ s \in Slots /\ thread[t].pc = "fill"
      /\ buff \in [Nodes -> [Slots -> SlotType]] /\ thread \in [Threads -> ThreadType]
  BY DEF ThreadInv, TypeInv, ThreadType, Fill
<1>2. PICK p, c : buff' = [buff EXCEPT ![e][s] = [status |-> 2, pageNO |-> p, data |-> c]]
  BY DEF Fill
<1>3. /\ UNCHANGED <<head, tail, pos_mutex>> /\ \A u \in Threads : u # t => thread'[u] = thread[u]
  BY <1>1 DEF Fill
<1>4. Marked(d)' = Marked(d)
  BY <1>1, <1>3, MarkedKept DEF Flushes, FlushPcs, MarkPcs
<1>5. buff[e][s].status = 1
  BY <1>1 DEF ThreadInv, FillForms, Fills
<1>6. \A u \in Slots : SameUse(d, u)
  BY <1>1, <1>2, <1>5 DEF SameUse
<1> QED BY <1>3, <1>4, <1>6 DEF RingKept

(* The steps of a flush.                                                   *)
LEMMA RingElsewhere ==
  ASSUME ThreadInv, NEW t \in Threads, NEW d \in Nodes, d # thread[t].dest,
         FlushStep(t) \/ RdmaWriteFails(t)
  PROVE  RingKept(d)
<1>1. /\ thread \in [Threads -> ThreadType] /\ thread[t].dest \in Nodes
      /\ head \in [Nodes -> Slots] /\ buff \in [Nodes -> [Slots -> SlotType]]
      /\ pos_mutex \in [Nodes -> Threads \union {None}]
  BY DEF ThreadInv, TypeInv, ThreadType
<1>2. /\ \A u \in Threads : u # t => thread'[u] = thread[u]
      /\ head'[d] = head[d] /\ tail' = tail /\ buff'[d] = buff[d] /\ pos_mutex'[d] = pos_mutex[d]
  <2>1. CASE FlushLock(t)
    BY <1>1, <2>1 DEF FlushLock
  <2>2. CASE FlushWhile(t)
    BY <1>1, <2>2 DEF FlushWhile
  <2>3. CASE FlushCompare(t)
    BY <1>1, <2>3 DEF FlushCompare, ring
  <2>4. CASE FlushCheck(t)
    BY <1>1, <2>4 DEF FlushCheck, ring, Goto
  <2>5. CASE FlushPost(t)
    BY <1>1, <2>5 DEF FlushPost
  <2>6. CASE RdmaWrite(t)
    BY <1>1, <2>6 DEF RdmaWrite, ring, Goto
  <2>7. CASE FreeBuff(t)
    BY <1>1, <2>7 DEF FreeBuff, Goto
  <2>8. CASE FlushUnlock(t)
    BY <1>1, <2>8 DEF FlushUnlock
  <2>9. CASE RdmaWriteFails(t)
    BY <1>1, <2>9 DEF RdmaWriteFails, ring, Goto
  <2> QED BY <2>1, <2>2, <2>3, <2>4, <2>5, <2>6, <2>7, <2>8, <2>9 DEF FlushStep
<1>3. Marked(d)' = Marked(d)
  BY <1>2, MarkedKept DEF Flushes
<1> QED BY <1>2, <1>3 DEF RingKept, SameUse

(* The node that a thread flushes.                                         *)
LEMMA MarkedMine ==
  ASSUME ThreadInv, NEW t \in Threads, Flushes(thread[t], thread[t].dest)
  PROVE  /\ pos_mutex[thread[t].dest] = t
         /\ thread[t].pc \in MarkPcs => Marked(thread[t].dest) = thread[t].count
         /\ thread[t].pc \notin MarkPcs => Marked(thread[t].dest) = 0
<1>1. pos_mutex[thread[t].dest] = t
  BY DEF ThreadInv, TypeInv, ThreadType, Locks
<1> QED BY <1>1 DEF Marked, MarkPcs

LEMMA RingFlushes ==
  ASSUME ThreadInv, NEW t \in Threads, NEW d \in Nodes, d = thread[t].dest,
         FlushStep(t) \/ RdmaWriteFails(t)
  PROVE  RingKept(d) \/ RingJoin(d) \/ RingPass(d)
<1> DEFINE x == thread[t]
<1>1. /\ thread \in [Threads -> ThreadType] /\ x \in ThreadType /\ x.count \in Nat
      /\ head \in [Nodes -> Slots] /\ buff \in [Nodes -> [Slots -> SlotType]]
      /\ pos_mutex \in [Nodes -> Threads \union {None}] /\ None \notin Threads
  BY WriteOutConstants DEF ThreadInv, TypeInv, ThreadType
<1>2. ASSUME x.pc \in FlushPcs
      PROVE  /\ pos_mutex[d] = t
             /\ x.pc \in MarkPcs => Marked(d) = x.count
             /\ x.pc \notin MarkPcs => Marked(d) = 0
  BY <1>2, MarkedMine DEF Flushes
<1>3. Marked(d)' = IF pos_mutex'[d] \in Threads /\ thread'[pos_mutex'[d]].pc \in MarkPcs
                   THEN thread'[pos_mutex'[d]].count ELSE 0
  BY DEF Marked, MarkPcs
<1>4. FlushForm(x, head[d], buff[d])
  BY DEF ThreadInv, FlushForms
<1>5. CASE FlushLock(t)
  <2>1. /\ pos_mutex[d] = None /\ pos_mutex'[d] = t /\ UNCHANGED <<head, tail, buff>>
        /\ thread'[t].count = 0
    BY <1>1, <1>5 DEF FlushLock, ThreadType
  <2>2. Marked(d) = 0 /\ Marked(d)' = 0
    BY <1>1, <1>3, <2>1 DEF Marked
  <2> QED BY <2>1, <2>2, RingStays
<1>6. CASE FlushWhile(t)
  <2> DEFINE here == head[d] + x.count
  <2>1. x.pc = "while" /\ UNCHANGED <<head, tail, pos_mutex>>
    BY <1>6 DEF FlushWhile
  <2>2. x.pc \in MarkPcs /\ x.pc \in FlushPcs
    BY <2>1 DEF MarkPcs, FlushPcs
  <2>3. Marked(d) = x.count /\ pos_mutex[d] = t
    BY <1>2, <2>2
  <2>4. here \in Slots
    <3>1. head[d] \in Slots /\ here < total_writeOut
      BY <1>1, <1>4, <2>1 DEF FlushForm, MarkPcs
    <3> QED BY <1>1, <3>1, WriteOutConstants DEF Slots
  <2>5. CASE buff[d][here].status = 2
    <3>1. /\ buff' = [buff EXCEPT ![d][here].status = 3]
          /\ thread'[t].count = x.count + 1 /\ thread'[t].pc \in {"post", "compare"}
      BY <1>1, <1>6, <2>5 DEF FlushWhile, ThreadType
    <3>2. Marked(d)' = x.count + 1
      BY <1>3, <2>1, <2>3, <3>1 DEF MarkPcs
    <3> DEFINE b == [buff[d][here] EXCEPT !.status = 3]
    <3>3. b.status = 3
      BY <1>1, <2>4 DEF SlotType
    <3>4. buff' = [buff EXCEPT ![d] = [@ EXCEPT ![here] = b]]
      BY <1>1, <2>4, <3>1
    <3> HIDE DEF b, here
    <3>5. buff'[d][here].status = 3 /\ \A u \in Slots : u # here => buff'[d][u] = buff[d][u]
      BY <1>1, <2>4, <3>3, <3>4
    <3>6. RingJoin(d)
      BY <2>1, <2>3, <2>4, <2>5, <3>2, <3>5 DEF RingJoin, SameUse, here
    <3> QED BY <3>6
  <2>6. CASE buff[d][here].status # 2
    <3>1. /\ buff' = buff /\ thread'[t].count = x.count
          /\ thread'[t].pc = IF x.count = 0 THEN "unlock" ELSE "post"
      BY <1>1, <1>6, <2>6 DEF FlushWhile, ThreadType
    <3>2. Marked(d)' = Marked(d)
      BY <1>3, <2>1, <2>3, <3>1 DEF MarkPcs
    <3> QED BY <2>1, <3>1, <3>2, RingStays
  <2> QED BY <2>5, <2>6
<1>7. CASE FlushCompare(t)
  <2>1. /\ x.pc = "compare" /\ UNCHANGED <<head, tail, buff, pos_mutex>>
        /\ thread'[t].pc = "check" /\ thread'[t].count = x.count
    BY <1>1, <1>7 DEF FlushCompare, ring, ThreadType
  <2>2. Marked(d)' = Marked(d)
    BY <1>2, <1>3, <2>1 DEF MarkPcs, FlushPcs
  <2> QED BY <2>1, <2>2, RingStays
<1>8. CASE FlushCheck(t)
  <2>1. /\ x.pc = "check" /\ UNCHANGED <<head, tail, buff, pos_mutex>>
        /\ thread'[t].pc \in {"post", "while"} /\ thread'[t].count = x.count
    BY <1>1, <1>8 DEF FlushCheck, Goto, ring, ThreadType
  <2>2. Marked(d)' = Marked(d)
    BY <1>2, <1>3, <2>1 DEF MarkPcs, FlushPcs
  <2> QED BY <2>1, <2>2, RingStays
<1>9. CASE FlushPost(t)
  <2>1. /\ x.pc = "post" /\ UNCHANGED <<tail, buff, pos_mutex>>
        /\ thread'[t].pc \in {"unlock", "rdma"}
    BY <1>1, <1>9 DEF FlushPost, ThreadType
  <2>2. head'[d] = (head[d] + x.count) % total_writeOut
    BY <1>1, <1>9 DEF FlushPost
  <2>3. /\ head[d] + x.count <= total_writeOut /\ head[d] \in Slots
        /\ \A s \in Slots : head[d] <= s /\ s < head[d] + x.count => buff[d][s].status = 3
    BY <1>1, <1>4, <2>1 DEF FlushForm, MarkPcs
  <2>4. head'[d] = Turn(head[d], x.count)
    <3>1. x.count \in 0 .. total_writeOut
      BY <1>1, <2>3, WriteOutConstants DEF Slots
    <3> QED BY <2>2, <2>3, <3>1, WrapTurn
  <2>5. Marked(d) = x.count /\ Marked(d)' = 0
    BY <1>2, <1>3, <2>1 DEF MarkPcs, FlushPcs
  <2>6. RingPass(d)
    BY <2>1, <2>3, <2>4, <2>5 DEF RingPass, SameUse
  <2> QED BY <2>6
<1>10. CASE RdmaWrite(t) \/ RdmaWriteFails(t)
  <2>1. /\ x.pc = "rdma" /\ UNCHANGED <<head, tail, buff, pos_mutex>>
        /\ thread'[t].pc \in {"free", "unlock"}
    BY <1>1, <1>10, ZenonT(30) DEF RdmaWrite, RdmaWriteFails, Goto, ring, ThreadType
  <2>2. Marked(d)' = Marked(d)
    BY <1>2, <1>3, <2>1 DEF MarkPcs, FlushPcs
  <2> QED BY <2>1, <2>2, RingStays
<1>11. CASE FreeBuff(t)
  <2>1. /\ x.pc = "free" /\ UNCHANGED <<head, tail, pos_mutex>>
        /\ thread'[t].pc = "unlock"
    BY <1>1, <1>11 DEF FreeBuff, Goto, ThreadType
  <2>2. Marked(d)' = Marked(d)
    BY <1>2, <1>3, <2>1 DEF MarkPcs, FlushPcs
  <2>3. ASSUME NEW s \in Slots PROVE SameUse(d, s)
    <3>1. buff'[d][s] = IF s \in Batch(t) THEN EmptySlot ELSE buff[d][s]
      BY <1>1, <1>11 DEF FreeBuff
    <3>2. s \in Batch(t) => buff[d][s].status = 3
      BY <1>1, <1>4, <2>1 DEF FlushForm, Batch, Slots, ThreadType
    <3> QED BY <3>1, <3>2 DEF SameUse, EmptySlot
  <2>4. RingKept(d)
    BY <2>1, <2>2, <2>3 DEF RingKept
  <2> QED BY <2>4
<1>12. CASE FlushUnlock(t)
  <2>1. /\ x.pc = "unlock" /\ UNCHANGED <<head, tail, buff>> /\ pos_mutex'[d] = None
    BY <1>1, <1>12 DEF FlushUnlock
  <2>2. Marked(d)' = Marked(d)
    BY <1>1, <1>2, <1>3, <2>1 DEF MarkPcs, FlushPcs
  <2> QED BY <2>1, <2>2, RingStays
<1> QED BY <1>5, <1>6, <1>7, <1>8, <1>9, <1>10, <1>11, <1>12 DEF FlushStep

LEMMA RingSteps ==
  ASSUME ThreadInv, [ReadNext]_readVars, NEW d \in Nodes
  PROVE  RingKept(d) \/ RingClaim(d) \/ RingJoin(d) \/ RingPass(d)
<1>1. StepKinds
  BY StepsSorted
<1>2. thread \in [Threads -> ThreadType]
  BY DEF ThreadInv, TypeInv
<1>3. ASSUME NEW t \in Threads, QuietStep(t) PROVE RingKept(d)
  <2>1. /\ thread[t].pc \in IdlePcs /\ UNCHANGED <<head, tail, buff, pos_mutex>>
        /\ \A u \in Threads : u # t => thread'[u] = thread[u]
    BY <1>2, <1>3 DEF QuietStep, ring
  <2>2. ~Flushes(thread[t], d)
    BY <2>1 DEF Flushes, FlushPcs, MarkPcs, IdlePcs, ReadPcs
  <2> QED BY <2>1, <2>2, MarkedKept, RingStays
<1>4. CASE NodeStep \/ UNCHANGED vars
  <2>1. UNCHANGED <<head, tail, buff, pos_mutex, thread>>
    BY <1>4 DEF NodeStep, vars, ring
  <2>2. Marked(d)' = Marked(d)
    BY <2>1 DEF Marked
  <2> QED BY <2>1, <2>2, RingStays
<1>5. ASSUME NEW t \in Threads, TryLock(t) \/ CheckFull(t) \/ NextNode(t) \/ VoidPreFetch(t)
      PROVE  RingKept(d)
  <2>1. /\ thread[t].pc \in {"try", "full", "claim", "void"}
        /\ UNCHANGED <<head, tail, buff, pos_mutex>>
        /\ \A u \in Threads : u # t => thread'[u] = thread[u]
    BY <1>2, <1>5 DEF TryLock, CheckFull, NextNode, VoidPreFetch, Goto, ring
  <2>2. ~Flushes(thread[t], d)
    BY <2>1 DEF Flushes, FlushPcs, MarkPcs
  <2> QED BY <2>1, <2>2, MarkedKept, RingStays
<1>6. ASSUME NEW t \in Threads, FlushStep(t) \/ RdmaWriteFails(t)
      PROVE  RingKept(d) \/ RingJoin(d) \/ RingPass(d)
  BY <1>6, RingElsewhere, RingFlushes
<1> QED BY <1>1, <1>3, <1>4, <1>5, <1>6, RingClaims, RingFills DEF StepKinds

LEMMA RingHeld == ReadSpec => []RingInv
<1>1. ReadInit => RingInv
  <2> SUFFICES ASSUME ReadInit, NEW d \in Nodes PROVE Ring(d)
    BY DEF RingInv
  <2>1. total_writeOut \in Nat \ {0} /\ None \notin Threads
    BY WriteOutConstants
  <2>2. /\ head[d] = 0 /\ tail[d] = 0 /\ pos_mutex[d] = None
        /\ \A s \in Slots : buff[d][s].status = -1
    BY DEF ReadInit, Init, EmptySlot
  <2>3. Marked(d) = 0
    BY <2>1, <2>2 DEF Marked
  <2>4. Turn(0, 0) = 0
    BY <2>1 DEF Turn
  <2>5. \A s \in Slots : ~InUsed(d, s) /\ ~(Dist(0, s) < 0)
    BY <2>1, <2>2, <2>3 DEF InUsed, Dist, Slots
  <2> QED BY <2>1, <2>2, <2>3, <2>4, <2>5 DEF Ring
<1>2. ASSUME ThreadInv, RingInv, [ReadNext]_readVars, ThreadInv' PROVE RingInv'
  <2> SUFFICES ASSUME NEW d \in Nodes PROVE Ring(d)'
    BY DEF RingInv
  <2>1. Ring(d) /\ head'[d] \in Slots
    BY <1>2 DEF RingInv, ThreadInv, TypeInv
  <2> QED BY <1>2, <2>1, RingSteps, RingOn
<1> QED BY <1>1, <1>2, ThreadHeld, PTL DEF ReadSpec

(* The slots in use are the ones from head up to tail: a claim under mutex_FG *)
(* and a flush under pos_mutex never pass each other.                        *)
THEOREM RingHolds == ReadSpec => []RingShape
<1>1. ASSUME ThreadInv, RingInv, NEW d \in Nodes
      PROVE  LET used == {s \in Slots : buff[d][s].status \in {1, 2}}
                           \union {head[d] + k : k \in 0 .. Marked(d) - 1}
                 n    == Cardinality(used)
             IN /\ used = {(head[d] + k) % total_writeOut : k \in 0 .. n - 1}
                /\ tail[d] = (head[d] + n) % total_writeOut
  <2> DEFINE h == head[d]  m == Marked(d)  T == total_writeOut
             used == {s \in Slots : buff[d][s].status \in {1, 2}} \union {h + k : k \in 0 .. m - 1}
  <2>1. h \in Slots /\ T \in Nat \ {0} /\ Slots = 0 .. T - 1 /\ m \in Nat /\ h + m <= T
    BY <1>1, WriteOutConstants DEF ThreadInv, TypeInv, RingInv, Ring, Slots
  <2>2. PICK n \in 0 .. T : /\ tail[d] = Turn(h, n)
                            /\ \A s \in Slots : InUsed(d, s) <=> Dist(h, s) < n
    BY <1>1 DEF RingInv, Ring
  <2>3. \A s : s \in used <=> s \in Slots /\ InUsed(d, s)
    <3>1. \A s : s \in {h + k : k \in 0 .. m - 1} <=> s \in Slots /\ h <= s /\ s < h + m
      <4>1. ASSUME NEW s \in Slots, h <= s, s < h + m PROVE s \in {h + k : k \in 0 .. m - 1}
        <5>1. s - h \in 0 .. m - 1 /\ s = h + (s - h)
          BY <2>1, <4>1
        <5> QED BY <5>1
      <4>2. ASSUME NEW k \in 0 .. m - 1 PROVE h + k \in Slots /\ h <= h + k /\ h + k < h + m
        BY <2>1
      <4> QED BY <4>1, <4>2
    <3> QED BY <3>1 DEF InUsed
  <2> DEFINE K == 0 .. n - 1  f == [k \in K |-> Turn(h, k)]
  <2> HIDE DEF used
  <2>4. \A k \in K : Turn(h, k) \in Slots /\ Dist(h, Turn(h, k)) = k /\ k \in 0 .. T
                     /\ (h + k) % T = Turn(h, k)
    <3> TAKE k \in K
    <3>1. k \in 0 .. T /\ k < T
      BY <2>1, <2>2
    <3> QED BY <2>1, <3>1, WrapTurn
  <2>5. \A k \in K : f[k] \in used
    BY <2>2, <2>3, <2>4
  <2>6. \A s \in used : Dist(h, s) \in K /\ f[Dist(h, s)] = s
    <3> TAKE s \in used
    <3>1. s \in Slots /\ Dist(h, s) < n /\ Dist(h, s) \in 0 .. T - 1 /\ Turn(h, Dist(h, s)) = s
      BY <2>1, <2>2, <2>3, DistTurn
    <3>2. Dist(h, s) \in K
      BY <2>1, <2>2, <3>1
    <3> QED BY <3>1, <3>2
  <2>7. \A i, j \in K : f[i] = f[j] => i = j
    <3> TAKE i, j \in K
    <3>1. f[i] = Turn(h, i) /\ f[j] = Turn(h, j)
      OBVIOUS
    <3> QED BY <2>4, <3>1
  <2>8. used = {(h + k) % T : k \in K}
    <3>1. \A k \in K : f[k] = (h + k) % T
      BY <2>4
    <3> HIDE DEF f, K
    <3> QED BY <2>5, <2>6, <3>1
  <2>9. Cardinality(used) = n
    <3>1. f \in [K -> used]
      BY <2>5
    <3>2. IsFiniteSet(K) /\ Cardinality(K) = n
      <4>1. 0 \in Int /\ n - 1 \in Int
        BY <2>2
      <4> QED BY <2>2, <4>1, FS_Interval
    <3> HIDE DEF f, K
    <3>3. f \in Bijection(K, used)
      BY <2>6, <2>7, <3>1, Fun_IsBij
    <3> QED BY <3>2, <3>3, FS_Bijection DEF ExistsBijection
  <2>10. (h + n) % T = Turn(h, n)
    BY <2>1, <2>2, WrapTurn
  <2> QED BY <2>2, <2>8, <2>9, <2>10 DEF used
<1>2. ASSUME ThreadInv, RingInv PROVE RingShape
  BY <1>1, <1>2 DEF RingShape
<1> QED BY <1>2, ThreadHeld, RingHeld, PTL

-----------------------------------------------------------------------------
(* The slots that a page may still be written from: those in use, and those  *)
(* of the batch that is being written.                                     *)
Writes(d)  == pos_mutex[d] \in Threads /\ thread[pos_mutex[d]].pc \in {"rdma", "free"}
Freeing(d) == Writes(d) /\ thread[pos_mutex[d]].pc = "free"
Base(d)    == IF Writes(d) THEN thread[pos_mutex[d]].first ELSE head[d]
Out(d)     == IF Writes(d) THEN thread[pos_mutex[d]].count ELSE 0
Live(d, s)      == InUsed(d, s) \/ Dist(Base(d), s) < Out(d)
Filled(d, s)    == buff[d][s].status \in {2, 3}
Before(d, x, y) == Dist(Base(d), x) < Dist(Base(d), y)
BaseInv == \A d \in Nodes : head[d] = Turn(Base(d), Out(d))

(* How often a page number was granted tells its contents apart.             *)
Fresh(d, p, n) ==
  /\ n <= Grants(d, p)
  /\ p \in PagesOf(free_group[d]) => n < Grants(d, p)
  /\ \A t \in Threads : Fills(thread[t], d) /\ thread[t].page = p => n < Grants(d, p)
Holds(d, s, p, n) == Filled(d, s) /\ buff[d][s].pageNO = p /\ buff[d][s].data[2] = n
Stamped(d) ==
  /\ \A c \in moved[d] : c[2] = Grants(d, c[1])
  /\ \A s \in Slots : \A p, n \in Int : Holds(d, s, p, n) => Fresh(d, p, n)
StampInv == \A d \in Nodes : Stamped(d)

(* Of two slots with one page, the older content is written first.           *)
Ordered(d) ==
  /\ \A x, y \in Slots :
       /\ Live(d, x) /\ Filled(d, x) /\ Live(d, y) /\ Filled(d, y)
       /\ buff[d][x].pageNO = buff[d][y].pageNO /\ Before(d, x, y)
       => buff[d][x].data[2] < buff[d][y].data[2]
  /\ \A t \in Threads : \A x, y \in Slots :
       /\ Fills(thread[t], d) /\ thread[t].slot = y
       /\ Live(d, x) /\ Filled(d, x) /\ buff[d][x].pageNO = thread[t].page
       => Before(d, x, y)
OrderInv == \A d \in Nodes : Ordered(d)

(* As long as an older content of a page waits, the last one does; and what  *)
(* was written is there.                                                   *)
InSlot(d, c) == \E s \in Slots : Filled(d, s) /\ buff[d][s].data = c
There(d, c)  == c[1] \in DOMAIN remote[d] /\ remote[d][c[1]] = c
Waits(d) ==
  /\ \A c \in moved[d] : \A x \in Slots :
       Live(d, x) /\ Filled(d, x) /\ buff[d][x].pageNO = c[1] => InSlot(d, c)
  /\ Freeing(d) => \A s \in Slots :
       Dist(Base(d), s) < Out(d) /\ buff[d][s].data \in moved[d] => There(d, buff[d][s].data)
WaitInv == \A d \in Nodes : Waits(d)

(* Pages that are claimed one after the other follow each other, but where a *)
(* block ends and another begins.                                          *)
Starts(d) == {Supply[d][k].page : k \in DOMAIN Supply[d]}
Ends(d)   == {Supply[d][k].page + 2 ^ Supply[d][k].order - 1 : k \in DOMAIN Supply[d]}
Follows(d, p, q) == q = p + 1 \/ (p \in Ends(d) /\ q \in Starts(d))
PageAt(d, s, p) ==
  \/ Filled(d, s) /\ buff[d][s].pageNO = p
  \/ \E t \in Threads : Fills(thread[t], d) /\ thread[t].slot = s /\ thread[t].page = p
PoolForm(d, q) ==
  \A k \in DOMAIN q : /\ q[k].page_end \in Ends(d)
                      /\ k # 1 => q[k].page_start \in Starts(d)
Ahead(d, p, q) == IF q = <<>> THEN p \in Ends(d) ELSE Follows(d, p, Head(q).page_start)
Claimed(d) ==
  /\ PoolForm(d, free_group[d])
  /\ \A x \in Slots : \A p \in Nat : InUsed(d, x) /\ PageAt(d, x, p) =>
       IF Turn(x, 1) = tail[d] THEN Ahead(d, p, free_group[d])
       ELSE \A q \in Nat : PageAt(d, Turn(x, 1), q) => Follows(d, p, q)
ClaimInv == \A d \in Nodes : Claimed(d)

(* The batch of a thread goes to the pages it is for, unless a slot joined it *)
(* late.                                                                   *)
Adjoins(a, b) == b >= 0 /\ (b % CHUNK) = (a % CHUNK) + 1
Straight(r, h, b) ==
  /\ r.pc \in MarkPcs /\ ~r.late =>
       \A k \in 0 .. r.count - 1 : b[h + k].pageNO = b[h].pageNO + k
  /\ r.pc \in {"check", "while"} /\ r.count >= 1 /\ ~r.gap =>
       Adjoins(b[h + r.count - 1].pageNO, b[h + r.count].pageNO)
  /\ r.pc = "rdma" /\ ~r.late =>
       \A k \in 0 .. r.count - 1 : b[r.first + k].pageNO = b[r.first].pageNO + k
StraightInv ==
  \A t \in Threads : Straight(thread[t], head[thread[t].dest], buff[thread[t].dest])

-----------------------------------------------------------------------------
(* A step leaves the ring of a node alone, or is one of seven.              *)
View(d) ==
  /\ Marked(d)' = Marked(d) /\ Base(d)' = Base(d) /\ Out(d)' = Out(d)
  /\ Writes(d)' <=> Writes(d)
  /\ Freeing(d)' <=> Freeing(d)
Still(d) ==
  /\ head'[d] = head[d] /\ tail'[d] = tail[d] /\ buff'[d] = buff[d] /\ remote'[d] = remote[d]
  /\ View(d) /\ DropStep(d)
Here(t) == head[thread[t].dest] + thread[t].count
Join(t) == FlushWhile(t) /\ buff[thread[t].dest][Here(t)].status = 2
AtNode(t, d) ==
  /\ thread[t].dest = d
  /\ \/ Claim(t) \/ Fill(t) \/ Join(t) \/ FlushPost(t) \/ RdmaWrite(t) \/ RdmaWriteFails(t)
     \/ FreeBuff(t)

LEMMA ViewKept ==
  ASSUME ThreadInv, NEW t \in Threads, NEW d \in Nodes, ~Flushes(thread[t], d),
         \A u \in Threads : u # t => thread'[u] = thread[u],
         pos_mutex'[d] = pos_mutex[d], head'[d] = head[d]
  PROVE  View(d)
<1>1. pos_mutex[d] # t
  BY DEF ThreadInv, Locks
<1>2. Marked(d)' = Marked(d) /\ (Writes(d)' <=> Writes(d))
  BY <1>1 DEF Marked, Writes
<1>3. (Freeing(d)' <=> Freeing(d)) /\ Base(d)' = Base(d) /\ Out(d)' = Out(d)
  BY <1>1, <1>2 DEF Freeing, Base, Out, Writes
<1> QED BY <1>2, <1>3 DEF View

(* The flushing thread, before and after.                                   *)
LEMMA MyView ==
  ASSUME ThreadInv, NEW t \in Threads, NEW d \in Nodes, d = thread[t].dest, Flushes(thread[t], d)
  PROVE  /\ Marked(d)  = IF thread[t].pc \in MarkPcs THEN thread[t].count ELSE 0
         /\ Writes(d)  <=> thread[t].pc \in {"rdma", "free"}
         /\ Freeing(d) <=> thread[t].pc = "free"
         /\ Base(d) = IF thread[t].pc \in {"rdma", "free"} THEN thread[t].first ELSE head[d]
         /\ Out(d)  = IF thread[t].pc \in {"rdma", "free"} THEN thread[t].count ELSE 0
<1>1. pos_mutex[d] = t
  BY DEF ThreadInv, Locks
<1> QED BY <1>1 DEF Marked, Writes, Freeing, Base, Out, MarkPcs

LEMMA NextView ==
  ASSUME NEW t \in Threads, NEW d \in Nodes, pos_mutex'[d] = t
  PROVE  /\ Marked(d)'  = IF thread'[t].pc \in MarkPcs THEN thread'[t].count ELSE 0
         /\ Writes(d)'  <=> thread'[t].pc \in {"rdma", "free"}
         /\ Freeing(d)' <=> thread'[t].pc = "free"
         /\ Base(d)' = IF thread'[t].pc \in {"rdma", "free"} THEN thread'[t].first ELSE head'[d]
         /\ Out(d)'  = IF thread'[t].pc \in {"rdma", "free"} THEN thread'[t].count ELSE 0
BY DEF Marked, Writes, Freeing, Base, Out, MarkPcs

LEMMA FreeView ==
  ASSUME NEW d \in Nodes, pos_mutex[d] = None
  PROVE  Marked(d) = 0 /\ ~Writes(d) /\ ~Freeing(d) /\ Base(d) = head[d] /\ Out(d) = 0
BY WriteOutConstants DEF Marked, Writes, Freeing, Base, Out

LEMMA NextFreeView ==
  ASSUME NEW d \in Nodes, pos_mutex'[d] = None
  PROVE  Marked(d)' = 0 /\ ~Writes(d)' /\ ~Freeing(d)' /\ Base(d)' = head'[d] /\ Out(d)' = 0
BY WriteOutConstants DEF Marked, Writes, Freeing, Base, Out

(* What the flush steps do to the locks and the thread.                     *)
LEMMA StillFlush ==
  ASSUME ThreadInv, NEW t \in Threads, NEW d \in Nodes,
         FlushStep(t) \/ RdmaWriteFails(t)
  PROVE  Still(d) \/ AtNode(t, d)
<1> DEFINE x == thread[t]
<1>1. /\ thread \in [Threads -> ThreadType] /\ x \in ThreadType /\ x.dest \in Nodes
      /\ head \in [Nodes -> Slots] /\ buff \in [Nodes -> [Slots -> SlotType]]
      /\ pos_mutex \in [Nodes -> Threads \union {None}]
  BY DEF ThreadInv, TypeInv, ThreadType
<1>2. DropStep(d)
  BY OthersDrop
<1>3. CASE d # x.dest
  <2>1. /\ \A u \in Threads : u # t => thread'[u] = thread[u]
        /\ head'[d] = head[d] /\ tail' = tail /\ buff'[d] = buff[d] /\ pos_mutex'[d] = pos_mutex[d]
        /\ remote'[d] = remote[d]
    <3>1. CASE FlushLock(t)
      BY <1>1, <1>3, <3>1 DEF FlushLock, peers
    <3>2. CASE FlushWhile(t)
      BY <1>1, <1>3, <3>2 DEF FlushWhile, peers
    <3>3. CASE FlushCompare(t)
      BY <1>1, <1>3, <3>3 DEF FlushCompare, ring, peers
    <3>4. CASE FlushCheck(t)
      BY <1>1, <1>3, <3>4 DEF FlushCheck, ring, Goto, peers
    <3>5. CASE FlushPost(t)
      BY <1>1, <1>3, <3>5 DEF FlushPost, peers
    <3>6. CASE RdmaWrite(t)
      <4>1. PICK y : remote' = [remote EXCEPT ![x.dest] = y]
        BY <3>6 DEF RdmaWrite
      <4>2. remote'[d] = remote[d]
        BY <1>3, <4>1
      <4> QED BY <1>1, <1>3, <3>6, <4>2, Zenon DEF RdmaWrite, ring, Goto
    <3>7. CASE FreeBuff(t)
      BY <1>1, <1>3, <3>7 DEF FreeBuff, Goto, peers
    <3>8. CASE FlushUnlock(t)
      BY <1>1, <1>3, <3>8 DEF FlushUnlock, peers
    <3>9. CASE RdmaWriteFails(t)
      BY <1>1, <1>3, <3>9 DEF RdmaWriteFails, ring, Goto, peers
    <3> QED BY <3>1, <3>2, <3>3, <3>4, <3>5, <3>6, <3>7, <3>8, <3>9 DEF FlushStep
  <2>2. View(d)
    BY <1>3, <2>1, ViewKept DEF Flushes
  <2> QED BY <1>2, <2>1, <2>2 DEF Still
<1>4. CASE d = x.dest
  <2> SUFFICES ASSUME FlushLock(t) \/ (FlushWhile(t) /\ ~Join(t)) \/ FlushCompare(t) \/ FlushCheck(t)
                        \/ FlushUnlock(t)
               PROVE  Still(d)
    BY <1>4 DEF FlushStep, AtNode
  <2>1. CASE FlushLock(t)
    <3>1. /\ pos_mutex[d] = None /\ pos_mutex'[d] = t /\ UNCHANGED <<head, tail, buff, remote>>
          /\ thread'[t].count = 0 /\ thread'[t].pc = "while"
      BY <1>1, <1>4, <2>1 DEF FlushLock, ThreadType, peers
    <3>2. View(d)
      BY <3>1, FreeView, NextView DEF View
    <3> QED BY <1>2, <3>1, <3>2 DEF Still
  <2>2. CASE FlushWhile(t) /\ ~Join(t)
    <3>1. /\ x.pc = "while" /\ UNCHANGED <<head, tail, buff, remote, pos_mutex>>
          /\ thread'[t].count = x.count
          /\ thread'[t].pc = IF x.count = 0 THEN "unlock" ELSE "post"
      <4>1. ~(buff[d][head[d] + x.count].status = 2)
        BY <1>4, <2>2 DEF Join, Here
      <4>2. /\ x.pc = "while" /\ UNCHANGED <<head, tail, buff, remote, pos_mutex>>
            /\ thread' = [thread EXCEPT ![t].pc = IF x.count = 0 THEN "unlock" ELSE "post"]
        BY <1>4, <2>2, <4>1 DEF FlushWhile, peers
      <4> QED BY <1>1, <4>2 DEF ThreadType
    <3>2. Flushes(x, d)
      BY <1>4, <3>1 DEF Flushes, FlushPcs, MarkPcs
    <3>3. pos_mutex'[d] = t
      BY <3>1, <3>2 DEF ThreadInv, Locks
    <3>4. View(d)
      BY <1>4, <3>1, <3>2, <3>3, MyView, NextView DEF View, MarkPcs
    <3> QED BY <1>2, <3>1, <3>4 DEF Still
  <2>3. CASE FlushCompare(t) \/ FlushCheck(t)
    <3>1. /\ x.pc \in {"compare", "check"} /\ UNCHANGED <<head, tail, buff, remote, pos_mutex>>
          /\ thread'[t].count = x.count
          /\ thread'[t].pc \in {"check", "post", "while"}
      <4>1. /\ x.pc \in {"compare", "check"} /\ UNCHANGED <<head, tail, buff, remote, pos_mutex>>
            /\ \E where \in {"check", "post", "while"} : \E g :
                 \/ thread' = [thread EXCEPT ![t].pc = where, ![t].gap = g]
                 \/ thread' = [thread EXCEPT ![t].pc = where]
        <5>1. CASE FlushCompare(t)
          BY <5>1, Zenon DEF FlushCompare, peers, ring
        <5>2. CASE FlushCheck(t)
          <6> DEFINE where == IF x.gap /\ buff[d][head[d] + x.count].status = 2 THEN "post" ELSE "while"
          <6>1. x.pc = "check" /\ UNCHANGED <<head, tail, buff, remote, pos_mutex>>
                /\ thread' = [thread EXCEPT ![t].pc = where]
            BY <1>4, <5>2 DEF FlushCheck, Goto, peers, ring
          <6>2. where \in {"check", "post", "while"}
            OBVIOUS
          <6> HIDE DEF where
          <6> QED BY <6>1, <6>2
        <5> QED BY <2>3, <5>1, <5>2
      <4> QED BY <1>1, <4>1 DEF ThreadType
    <3>2. Flushes(x, d)
      BY <1>4, <3>1 DEF Flushes, FlushPcs, MarkPcs
    <3>3. pos_mutex'[d] = t
      BY <3>1, <3>2 DEF ThreadInv, Locks
    <3>4. View(d)
      BY <1>4, <3>1, <3>2, <3>3, MyView, NextView DEF View, MarkPcs
    <3> QED BY <1>2, <3>1, <3>4 DEF Still
  <2>4. CASE FlushUnlock(t)
    <3>1. /\ x.pc = "unlock" /\ UNCHANGED <<head, tail, buff, remote>> /\ pos_mutex'[d] = None
      BY <1>1, <1>4, <2>4 DEF FlushUnlock, peers
    <3>2. Flushes(x, d)
      BY <1>4, <3>1 DEF Flushes, FlushPcs
    <3>3. View(d)
      BY <1>4, <3>1, <3>2, MyView, NextFreeView DEF View, MarkPcs
    <3> QED BY <1>2, <3>1, <3>3 DEF Still
  <2> QED BY <2>1, <2>2, <2>3, <2>4
<1> QED BY <1>3, <1>4

LEMMA StepsAt ==
  ASSUME ThreadInv, [ReadNext]_readVars, NEW d \in Nodes
  PROVE  Still(d) \/ \E t \in Threads : AtNode(t, d)
<1>1. StepKinds
  BY StepsSorted
<1>2. thread \in [Threads -> ThreadType]
  BY DEF ThreadInv, TypeInv
<1>3. ASSUME NEW t \in Threads, QuietStep(t) PROVE Still(d)
  <2>1. PICK r \in ThreadType :
          /\ thread[t].pc \in IdlePcs /\ r.pc \in IdlePcs /\ thread' = [thread EXCEPT ![t] = r]
          /\ UNCHANGED <<pool, ring, peers>> /\ MovedLess
    BY <1>3 DEF QuietStep
  <2>2. UNCHANGED <<head, tail, buff, pos_mutex, remote>>
    BY <2>1 DEF ring, peers
  <2>3. ~Flushes(thread[t], d) /\ ~Fills(r, d)
    BY <2>1 DEF Flushes, FlushPcs, MarkPcs, IdlePcs, ReadPcs, Fills
  <2>4. View(d)
    BY <1>2, <2>1, <2>2, <2>3, ViewKept
  <2>5. DropStep(d)
    BY <1>2, <2>1, <2>3 DEF DropStep, FillerKept, MovedLess
  <2> QED BY <2>2, <2>4, <2>5 DEF Still
<1>4. CASE NodeStep \/ UNCHANGED vars
  <2>1. UNCHANGED <<head, tail, buff, pos_mutex, thread, remote>> /\ moved'[d] \subseteq moved[d]
    BY <1>4 DEF NodeStep, vars, ring, MovedLess
  <2>2. View(d)
    BY <2>1 DEF View, Marked, Writes, Freeing, Base, Out
  <2> QED BY <2>1, <2>2 DEF Still, DropStep, FillerKept
<1>5. ASSUME NEW t \in Threads, TryLock(t) \/ CheckFull(t) \/ NextNode(t) \/ VoidPreFetch(t)
      PROVE  Still(d)
  <2>1. /\ thread[t].pc \in {"try", "full", "claim", "void"}
        /\ UNCHANGED <<head, tail, buff, pos_mutex, remote>>
        /\ \A u \in Threads : u # t => thread'[u] = thread[u]
    BY <1>2, <1>5 DEF TryLock, CheckFull, NextNode, VoidPreFetch, Goto, ring, peers
  <2>2. ~Flushes(thread[t], d)
    BY <2>1 DEF Flushes, FlushPcs, MarkPcs
  <2>3. View(d)
    BY <2>1, <2>2, ViewKept
  <2> QED BY <1>5, <2>1, <2>3, OthersDrop DEF Still
<1>6. ASSUME NEW t \in Threads, Claim(t) \/ Fill(t), d # thread[t].dest PROVE Still(d)
  <2> DEFINE e == thread[t].dest
  <2>1. e \in Nodes /\ thread[t].pc \in {"claim", "fill"} /\ thread[t] \in ThreadType
    BY <1>2, <1>6 DEF Claim, Fill, ThreadType
  <2>2. \A u \in Threads : u # t => thread'[u] = thread[u]
    BY <1>2, <1>6 DEF Claim, Fill
  <2>3. /\ head' = head /\ pos_mutex' = pos_mutex /\ remote' = remote
        /\ tail'[d] = tail[d] /\ buff'[d] = buff[d] /\ moved'[d] = moved[d]
    <3>1. CASE Claim(t)
      BY <1>6, <2>1, <3>1 DEF Claim, peers, ThreadInv, TypeInv
    <3>2. CASE Fill(t)
      BY <1>6, <2>1, <3>2 DEF Fill, peers, ThreadInv, TypeInv
    <3> QED BY <1>6, <3>1, <3>2
  <2>4. ~Flushes(thread[t], d)
    BY <1>6 DEF Flushes
  <2>5. View(d)
    BY <2>2, <2>3, <2>4, ViewKept
  <2>6. ~Fills(thread'[t], d)
    <3>1. CASE Claim(t)
      BY <1>2, <1>6, <2>1, <3>1 DEF Claim, Fills, ThreadType
    <3>2. CASE Fill(t)
      BY <1>2, <1>6, <2>1, <3>2 DEF Fill, Fills, IdleThread
    <3> QED BY <1>6, <3>1, <3>2
  <2> QED BY <2>2, <2>3, <2>5, <2>6 DEF Still, DropStep, FillerKept
<1>7. ASSUME NEW t \in Threads, Claim(t) \/ Fill(t) PROVE Still(d) \/ AtNode(t, d)
  BY <1>6, <1>7 DEF AtNode
<1> QED BY <1>1, <1>3, <1>4, <1>5, <1>7, StillFlush DEF StepKinds

-----------------------------------------------------------------------------
(* What those steps do to the slots of their node.                          *)
Same(d, s) == buff'[d][s].pageNO = buff[d][s].pageNO /\ buff'[d][s].data = buff[d][s].data
Pass(d, m) ==
  /\ m \in 0 .. total_writeOut /\ Base(d)' = Turn(Base(d), m)
  /\ \A s \in Slots : Live(d, s)' => Live(d, s) /\ m <= Dist(Base(d), s)
  /\ \A s \in Slots : Filled(d, s)' => Filled(d, s) /\ Same(d, s)
  /\ \A s \in Slots : InUsed(d, s)' => InUsed(d, s)
  /\ tail'[d] = tail[d] /\ DropStep(d)
Enter(t, d) ==
  /\ View(d) /\ head'[d] = head[d] /\ tail'[d] = Turn(tail[d], 1)
  /\ buff[d][tail[d]].status = -1 /\ buff'[d][tail[d]].status = 1
  /\ \A s \in Slots : s # tail[d] => buff'[d][s] = buff[d][s]
  /\ remote'[d] = remote[d] /\ moved'[d] = moved[d] /\ PageTaken(d) /\ free_group[d] # <<>>
  /\ Fills(thread'[t], d) /\ thread'[t].slot = tail[d]
  /\ thread'[t].page = Head(free_group[d]).page_start
  /\ \A u \in Threads : u # t => thread'[u] = thread[u]
Content(d, p) == <<p, Grants(d, p)>>
Hand(t, d) ==
  /\ View(d) /\ head'[d] = head[d] /\ tail'[d] = tail[d]
  /\ Fills(thread[t], d) /\ ~Fills(thread'[t], d)
  /\ buff'[d][thread[t].slot] =
       [status |-> 2, pageNO |-> thread[t].page, data |-> Content(d, thread[t].page)]
  /\ \A s \in Slots : s # thread[t].slot => buff'[d][s] = buff[d][s]
  /\ moved'[d] = moved[d] \union {Content(d, thread[t].page)}
  /\ remote'[d] = remote[d] /\ PoolKept(d) /\ GrantsKept(d)
  /\ \A u \in Threads : u # t => thread'[u] = thread[u]

LEMMA EnterAt ==
  ASSUME PoolInv, ThreadInv, NEW t \in Threads, NEW d \in Nodes, d = thread[t].dest, Claim(t)
  PROVE  Enter(t, d)
<1> DEFINE p == Head(free_group[d]).page_start  s == tail[d]
<1>1. /\ thread \in [Threads -> ThreadType] /\ thread[t] \in ThreadType
      /\ tail \in [Nodes -> Slots] /\ buff \in [Nodes -> [Slots -> SlotType]] /\ s \in Slots
      /\ total_page = [e \in Nodes |-> total_page[e]]
      /\ free_group = [e \in Nodes |-> free_group[e]]
  BY DEF ThreadInv, TypeInv, PoolInv
<1>2. /\ thread[t].pc = "claim" /\ Claimable(d)
      /\ free_group' = [free_group EXCEPT ![d] = Rest(@)]
      /\ total_page' = [total_page EXCEPT ![d] = @ - 1]
      /\ tail' = [tail EXCEPT ![d] = NextSlot(@)]
      /\ thread' = [thread EXCEPT ![t].pc = "void", ![t].slot = s, ![t].page = p]
      /\ UNCHANGED <<head, pos_mutex, remote, moved>>
  BY DEF Claim, peers
<1>3. buff' = [buff EXCEPT ![d][s].status = 1]
  BY DEF Claim
<1>4. \A u \in Threads : u # t => thread'[u] = thread[u]
  BY <1>1, <1>2
<1>5. View(d)
  BY <1>2, <1>4, ViewKept DEF Flushes, FlushPcs, MarkPcs
<1>6. tail'[d] = Turn(s, 1)
  <2>1. tail'[d] = (s + 1) % total_writeOut
    BY <1>1, <1>2 DEF NextSlot
  <2>2. 1 \in 0 .. total_writeOut
    BY WriteOutConstants
  <2> HIDE DEF s
  <2> QED BY <1>1, <2>1, <2>2, WrapTurn
<1>7. buff[d][s].status = -1 /\ total_page[d] > 0
  BY <1>2 DEF Claimable
<1>8. buff'[d][s].status = 1 /\ \A x \in Slots : x # s => buff'[d][x] = buff[d][x]
  BY <1>1, <1>3 DEF SlotType
<1>9. PageTaken(d) /\ free_group[d] # <<>>
  BY <1>1, <1>2, <1>7, ClaimTakes DEF PageTaken
<1>10. Fills(thread'[t], d) /\ thread'[t].slot = s /\ thread'[t].page = p
  BY <1>1, <1>2 DEF Fills, ThreadType
<1> HIDE DEF p, s
<1> QED BY <1>2, <1>4, <1>5, <1>6, <1>7, <1>8, <1>9, <1>10 DEF Enter, p, s

LEMMA HandAt ==
  ASSUME PoolInv, ThreadInv, NEW t \in Threads, NEW d \in Nodes, d = thread[t].dest, Fill(t)
  PROVE  Hand(t, d)
<1> DEFINE p == thread[t].page  s == thread[t].slot  c == Content(d, p)
<1>1. /\ thread \in [Threads -> ThreadType] /\ s \in Slots /\ moved \in [Nodes -> SUBSET (Nat \X Nat)]
      /\ buff \in [Nodes -> [Slots -> SlotType]]
  BY DEF ThreadInv, TypeInv, ThreadType
<1>2. PICK r : thread' = [thread EXCEPT ![t] = r] /\ r.pc \in {"lock", "idle"}
  <2> DEFINE r == IF s % FLUSH = 0 /\ s # 0 THEN [IdleThread EXCEPT !.pc = "lock", !.dest = d]
                  ELSE IdleThread
  <2>1. thread' = [thread EXCEPT ![t] = r]
    BY DEF Fill
  <2>2. r.pc \in {"lock", "idle"}
    BY DEF IdleThread
  <2> QED BY <2>1, <2>2
<1>3. /\ thread[t].pc = "fill" /\ UNCHANGED <<head, tail, pos_mutex, remote, granted, free_group, total_page>>
      /\ buff' = [buff EXCEPT ![d][s] = [status |-> 2, pageNO |-> p, data |-> c]]
      /\ moved' = [moved EXCEPT ![d] = @ \union {c}]
  BY DEF Fill, peers, pool, Content
<1>4. \A u \in Threads : u # t => thread'[u] = thread[u]
  BY <1>1, <1>2
<1>5. View(d)
  BY <1>3, <1>4, ViewKept DEF Flushes, FlushPcs, MarkPcs
<1>6. Fills(thread[t], d) /\ ~Fills(thread'[t], d)
  BY <1>1, <1>2, <1>3 DEF Fills
<1> HIDE DEF c
<1>7. /\ buff'[d][s] = [status |-> 2, pageNO |-> p, data |-> c]
      /\ \A x \in Slots : x # s => buff'[d][x] = buff[d][x]
      /\ moved'[d] = moved[d] \union {c}
  BY <1>1, <1>3
<1> QED BY <1>3, <1>4, <1>5, <1>6, <1>7 DEF Hand, PoolKept, GrantsKept, c
(* The steps of the flushing thread.                                        *)
PostAt(t, d) ==
  /\ thread[t].pc = "post" /\ thread'[t].pc \in {"rdma", "unlock"}
  /\ thread'[t].first = head[d] /\ thread'[t].count = thread[t].count
  /\ head'[d] = Turn(head[d], thread[t].count) /\ buff'[d] = buff[d] /\ remote'[d] = remote[d]
JoinAt(t, d) ==
  /\ thread[t].pc = "while" /\ thread'[t].pc \in {"post", "compare"}
  /\ thread'[t].count = thread[t].count + 1 /\ head'[d] = head[d] /\ remote'[d] = remote[d]
  /\ Here(t) \in Slots /\ buff[d][Here(t)].status = 2
  /\ buff'[d][Here(t)] = [buff[d][Here(t)] EXCEPT !.status = 3]
  /\ \A s \in Slots : s # Here(t) => buff'[d][s] = buff[d][s]
BatchAt(t, d) ==
  /\ thread[t].pc \in {"rdma", "free"} /\ thread'[t].pc \in {"free", "unlock"}
  /\ thread[t].pc = "free" => thread'[t].pc = "unlock"
  /\ thread'[t].first = thread[t].first /\ thread'[t].count = thread[t].count
  /\ head'[d] = head[d]
  /\ \A s \in Slots : \/ buff'[d][s] = buff[d][s]
                      \/ thread[t].pc = "free" /\ s \in Batch(t) /\ buff'[d][s] = EmptySlot

LEMMA FlushAt ==
  ASSUME ThreadInv, NEW t \in Threads, NEW d \in Nodes, d = thread[t].dest,
         Join(t) \/ FlushPost(t) \/ RdmaWrite(t) \/ RdmaWriteFails(t) \/ FreeBuff(t)
  PROVE  /\ PostAt(t, d) \/ JoinAt(t, d) \/ BatchAt(t, d)
         /\ tail'[d] = tail[d] /\ pos_mutex'[d] = t /\ Flushes(thread[t], d)
<1> DEFINE x == thread[t]
<1>1. /\ thread \in [Threads -> ThreadType] /\ x \in ThreadType /\ x.count \in Nat
      /\ head \in [Nodes -> Slots] /\ buff \in [Nodes -> [Slots -> SlotType]]
      /\ pos_mutex \in [Nodes -> Threads \union {None}]
      /\ FlushForm(x, head[d], buff[d])
  BY DEF ThreadInv, TypeInv, ThreadType, FlushForms
<1>2. x.pc \in FlushPcs /\ UNCHANGED <<tail, pos_mutex>>
  BY DEF Join, FlushWhile, FlushPost, RdmaWrite, RdmaWriteFails, FreeBuff, FlushPcs, MarkPcs, ring
<1>3. pos_mutex'[d] = t /\ Flushes(x, d)
  BY <1>2 DEF ThreadInv, Locks, Flushes
<1>4. CASE Join(t)
  <2> DEFINE where == IF Here(t) + 1 >= total_writeOut THEN "post" ELSE "compare"
  <2>1. /\ x.pc = "while" /\ buff[d][Here(t)].status = 2 /\ UNCHANGED <<head, remote>>
        /\ buff' = [buff EXCEPT ![d][Here(t)].status = 3]
        /\ thread' = [thread EXCEPT ![t].count = @ + 1, ![t].late = @ \/ thread[t].gap,
                                    ![t].pc = where]
    BY <1>4 DEF Join, FlushWhile, Here, peers
  <2>2. thread'[t].pc = where /\ thread'[t].count = x.count + 1
    BY <1>1, <2>1 DEF ThreadType
  <2>3. Here(t) \in Slots
    <3>1. head[d] + x.count < total_writeOut
      BY <1>1, <2>1 DEF FlushForm, MarkPcs
    <3>2. head[d] \in Slots /\ x.count \in Nat /\ Here(t) = head[d] + x.count
      BY <1>1 DEF Here
    <3> QED BY <3>1, <3>2, WriteOutConstants, SMTT(30) DEF Slots
  <2>4. buff'[d][Here(t)] = [buff[d][Here(t)] EXCEPT !.status = 3]
        /\ \A s \in Slots : s # Here(t) => buff'[d][s] = buff[d][s]
    BY <1>1, <2>1, <2>3
  <2> QED BY <1>2, <1>3, <2>1, <2>2, <2>3, <2>4 DEF JoinAt
<1>5. CASE FlushPost(t)
  <2>1. /\ x.pc = "post" /\ UNCHANGED <<buff, remote>>
        /\ head' = [head EXCEPT ![d] = (@ + x.count) % total_writeOut]
        /\ thread'[t].first = head[d] /\ thread'[t].count = x.count
        /\ thread'[t].pc \in {"rdma", "unlock"}
    BY <1>1, <1>5 DEF FlushPost, ThreadType, peers
  <2>2. x.count \in 0 .. total_writeOut
    BY <1>1, <2>1, WriteOutConstants DEF FlushForm, MarkPcs, Slots
  <2>3. head'[d] = Turn(head[d], x.count)
    <3>1. head'[d] = (head[d] + x.count) % total_writeOut
      BY <1>1, <2>1
    <3> QED BY <1>1, <2>2, <3>1, WrapTurn
  <2> QED BY <1>2, <1>3, <2>1, <2>3 DEF PostAt
<1>6. CASE RdmaWrite(t) \/ RdmaWriteFails(t)
  <2>1. /\ x.pc = "rdma" /\ UNCHANGED <<buff, head>>
        /\ \E where \in {"free", "unlock"} : Goto(t, where)
    BY <1>6 DEF RdmaWrite, RdmaWriteFails, ring
  <2>2. /\ thread'[t].first = x.first /\ thread'[t].count = x.count
        /\ thread'[t].pc \in {"free", "unlock"}
    BY <1>1, <2>1 DEF Goto, ThreadType
  <2> QED BY <1>2, <1>3, <2>1, <2>2 DEF BatchAt
<1>7. CASE FreeBuff(t)
  <2>1. /\ x.pc = "free" /\ UNCHANGED head /\ Goto(t, "unlock")
        /\ buff' = [buff EXCEPT ![d] = [s \in Slots |-> IF s \in Batch(t) THEN EmptySlot ELSE @[s]]]
    BY <1>7 DEF FreeBuff
  <2>2. /\ thread'[t].first = x.first /\ thread'[t].count = x.count /\ thread'[t].pc = "unlock"
    BY <1>1, <2>1 DEF Goto, ThreadType
  <2>3. \A s \in Slots : buff'[d][s] = IF s \in Batch(t) THEN EmptySlot ELSE buff[d][s]
    BY <1>1, <2>1
  <2> QED BY <1>2, <1>3, <2>1, <2>2, <2>3 DEF BatchAt
<1> QED BY <1>4, <1>5, <1>6, <1>7

(* A slot's distance from a later base.                                     *)
LEMMA FurtherOn ==
  ASSUME NEW h \in Slots, NEW m \in 0 .. total_writeOut, NEW s \in Slots, m <= Dist(h, s)
  PROVE  Dist(Turn(h, m), s) = Dist(h, s) - m
BY WriteOutConstants DEF Slots, Turn, Dist

(* From a slot, as far as the end of the ring.                              *)
LEMMA UpFrom ==
  ASSUME NEW h \in Slots, NEW n \in Nat, h + n <= total_writeOut, NEW s \in Slots
  PROVE  /\ Dist(h, s) < n <=> (h <= s /\ s < h + n)
         /\ n <= total_writeOut
         /\ Dist(h, s) < n => Dist(h, s) = s - h
BY WriteOutConstants DEF Slots, Dist
LEMMA BaseType ==
  ASSUME ThreadInv, NEW d \in Nodes
  PROVE  /\ Base(d) \in Slots /\ Out(d) \in 0 .. total_writeOut /\ head[d] \in Slots
         /\ \A s \in Slots : Dist(Base(d), s) < Out(d) =>
              /\ buff[d][s].status = 3 /\ s - Base(d) \in 0 .. Out(d) - 1
<1>1. head[d] \in Slots /\ total_writeOut \in Nat \ {0}
  BY WriteOutConstants DEF ThreadInv, TypeInv
<1>2. CASE ~Writes(d)
  <2>1. Base(d) = head[d] /\ Out(d) = 0
    BY <1>2 DEF Base, Out
  <2> QED BY <1>1, <2>1, DistTurn
<1>3. CASE Writes(d)
  <2> DEFINE x == thread[pos_mutex[d]]
  <2>1. /\ pos_mutex[d] \in Threads /\ x.pc \in {"rdma", "free"} /\ x.dest = d
        /\ Base(d) = x.first /\ Out(d) = x.count
    BY <1>3 DEF Writes, Base, Out, ThreadInv, Locks, Flushes
  <2>2. x.first \in Slots /\ x.count \in Nat
    BY <2>1 DEF ThreadInv, TypeInv, ThreadType
  <2>3. /\ x.first + x.count <= total_writeOut
        /\ \A s \in Slots : x.first <= s /\ s < x.first + x.count => buff[d][s].status = 3
    BY <2>1 DEF ThreadInv, FlushForms, FlushForm
  <2> HIDE DEF x
  <2>4. \A s \in Slots : Dist(x.first, s) < x.count =>
          /\ x.first <= s /\ s < x.first + x.count /\ s - x.first \in 0 .. x.count - 1
    BY <1>1, <2>2, <2>3 DEF Slots, Dist
  <2>5. x.count \in 0 .. total_writeOut
    BY <1>1, <2>2, <2>3 DEF Slots
  <2> QED BY <1>1, <2>1, <2>2, <2>3, <2>4, <2>5
<1> QED BY <1>2, <1>3

BaseOn(d) == head'[d] = Turn(Base(d)', Out(d)')

LEMMA PassStill ==
  ASSUME ThreadInv, NEW d \in Nodes, head[d] = Turn(Base(d), Out(d)), Still(d)
  PROVE  BaseOn(d) /\ Pass(d, 0)
<1>1. /\ head'[d] = head[d] /\ tail'[d] = tail[d] /\ buff'[d] = buff[d]
      /\ Marked(d)' = Marked(d) /\ Base(d)' = Base(d) /\ Out(d)' = Out(d) /\ DropStep(d)
  BY DEF Still, View
<1>2. \A s \in Slots : /\ InUsed(d, s)' <=> InUsed(d, s)
                       /\ Live(d, s)' <=> Live(d, s)
                       /\ (Filled(d, s)' => Filled(d, s)) /\ Same(d, s)
  BY <1>1 DEF InUsed, Live, Filled, Same
<1>3. Base(d) \in Slots
  BY BaseType
<1>4. 0 \in 0 .. total_writeOut /\ Turn(Base(d), 0) = Base(d)
  BY <1>3, WriteOutConstants DEF Turn, Slots
<1>5. \A s \in Slots : 0 <= Dist(Base(d), s)
  BY <1>3, DistTurn
<1> QED BY <1>1, <1>2, <1>4, <1>5 DEF Pass, BaseOn

LEMMA PassFlush ==
  ASSUME ThreadInv, NEW d \in Nodes, head[d] = Turn(Base(d), Out(d)), NEW t \in Threads,
         PostAt(t, d) \/ JoinAt(t, d) \/ BatchAt(t, d), d = thread[t].dest,
         tail'[d] = tail[d], pos_mutex'[d] = t, Flushes(thread[t], d), DropStep(d)
  PROVE  BaseOn(d) /\ \E m \in 0 .. total_writeOut : Pass(d, m)
<1> DEFINE x == thread[t]  n == thread[t].count  h == head[d]
<1>1. /\ Base(d) \in Slots /\ h \in Slots /\ x.first \in Slots /\ n \in Nat
      /\ total_writeOut \in Nat \ {0} /\ buff \in [Nodes -> [Slots -> SlotType]]
  BY BaseType, WriteOutConstants DEF ThreadInv, TypeInv, ThreadType
<1>2. FlushForm(x, h, buff[d])
  BY DEF ThreadInv, FlushForms
<1>3. /\ Marked(d) = IF x.pc \in MarkPcs THEN n ELSE 0
      /\ Base(d) = IF x.pc \in {"rdma", "free"} THEN x.first ELSE h
      /\ Out(d)  = IF x.pc \in {"rdma", "free"} THEN n ELSE 0
  BY MyView
<1>4. /\ Marked(d)' = IF thread'[t].pc \in MarkPcs THEN thread'[t].count ELSE 0
      /\ Base(d)' = IF thread'[t].pc \in {"rdma", "free"} THEN thread'[t].first ELSE head'[d]
      /\ Out(d)' = IF thread'[t].pc \in {"rdma", "free"} THEN thread'[t].count ELSE 0
  BY NextView
<1>5. \A s \in Slots : 0 <= Dist(Base(d), s)
  BY <1>1, DistTurn
<1>6. 0 \in 0 .. total_writeOut /\ \A b \in Slots : Turn(b, 0) = b
  BY <1>1 DEF Turn, Slots
<1>7. CASE JoinAt(t, d)
  <2>1. /\ x.pc = "while" /\ thread'[t].pc \in {"post", "compare"} /\ thread'[t].count = n + 1
        /\ head'[d] = h /\ h + n \in Slots /\ buff[d][h + n].status = 2
        /\ buff'[d][h + n] = [buff[d][h + n] EXCEPT !.status = 3]
        /\ \A s \in Slots : s # h + n => buff'[d][s] = buff[d][s]
    BY <1>7 DEF JoinAt, Here
  <2>2. Marked(d) = n /\ Base(d) = h /\ Out(d) = 0 /\ Marked(d)' = n + 1 /\ Base(d)' = h /\ Out(d)' = 0
    BY <1>3, <1>4, <2>1 DEF MarkPcs
  <2> HIDE DEF n, h
  <2>3. \A s \in Slots : buff'[d][s].status = IF s = h + n THEN 3 ELSE buff[d][s].status
    BY <1>1, <2>1 DEF SlotType
  <2>4. \A s \in Slots : Filled(d, s)' => Filled(d, s) /\ Same(d, s)
    BY <1>1, <2>1, <2>3, SMTT(30) DEF Filled, Same, SlotType
  <2>5. ASSUME NEW s \in Slots PROVE InUsed(d, s)' => InUsed(d, s)
    <3>1. CASE s = h + n
      BY <2>1, <3>1 DEF InUsed, h
    <3>2. CASE s # h + n
      <4> s \in Int /\ h \in Int /\ n \in Int
        BY <1>1 DEF Slots
      <4>1. s < h + (n + 1) => s < h + n
        BY <3>2
      <4>2. head[d] = h
        BY DEF h
      <4> QED BY <2>1, <2>2, <2>3, <3>2, <4>1, <4>2 DEF InUsed
    <3> QED BY <3>1, <3>2
  <2>6. \A s \in Slots : Live(d, s)' => Live(d, s)
    <3>1. \A s \in Slots : Dist(Base(d)', s) < Out(d)' <=> Dist(Base(d), s) < Out(d)
      BY <2>2
    <3> QED BY <2>5, <3>1 DEF Live
  <2>7. BaseOn(d)
    BY <1>1, <1>6, <2>1, <2>2 DEF BaseOn
  <2> QED BY <1>5, <1>6, <2>2, <2>4, <2>5, <2>6, <2>7, <1>1 DEF Pass
<1>8. CASE PostAt(t, d)
  <2>1. /\ x.pc = "post" /\ thread'[t].pc \in {"rdma", "unlock"}
        /\ thread'[t].first = h /\ thread'[t].count = n
        /\ head'[d] = Turn(h, n) /\ buff'[d] = buff[d]
    BY <1>8 DEF PostAt
  <2>2. h + n <= total_writeOut /\ \A s \in Slots : h <= s /\ s < h + n => buff[d][s].status = 3
    BY <1>2, <2>1 DEF FlushForm, MarkPcs
  <2>3. Marked(d) = n /\ Base(d) = h /\ Out(d) = 0 /\ Marked(d)' = 0
    BY <1>3, <1>4, <2>1 DEF MarkPcs
  <2>4. head[d] = h
    OBVIOUS
  <2> HIDE DEF n, h
  <2>5. \A s \in Slots : /\ Dist(h, s) < n <=> (h <= s /\ s < h + n)
                         /\ n <= total_writeOut
    BY <1>1, <2>2, UpFrom
  <2>6. n \in 0 .. total_writeOut
    BY <1>1, <2>2 DEF Slots
  <2>7. \A s \in Slots : Filled(d, s)' => Filled(d, s) /\ Same(d, s)
    BY <2>1 DEF Filled, Same
  <2>8. \A s \in Slots : InUsed(d, s)' => buff[d][s].status \in {1, 2}
    BY <1>1, <2>1, <2>3, <2>6, WrapTurn DEF InUsed, Slots
  <2>9. \A s \in Slots : InUsed(d, s)' => InUsed(d, s)
    BY <2>8 DEF InUsed
  <2>10. CASE thread'[t].pc = "rdma"
    <3>1. Base(d)' = h /\ Out(d)' = n
      BY <1>4, <2>1, <2>10
    <3>2. \A s \in Slots : Live(d, s)' => Live(d, s)
      BY <2>3, <2>4, <2>5, <2>9, <3>1 DEF Live, InUsed
    <3>3. BaseOn(d)
      BY <2>1, <3>1 DEF BaseOn
    <3>4. Base(d)' = Turn(Base(d), 0)
      BY <1>1, <1>6, <2>3, <3>1
    <3> QED BY <1>5, <1>6, <2>7, <2>9, <3>2, <3>3, <3>4 DEF Pass
  <2>11. CASE thread'[t].pc = "unlock"
    <3>1. Base(d)' = Turn(h, n) /\ Out(d)' = 0
      BY <1>4, <2>1, <2>11
    <3>2. \A s \in Slots : ~(Dist(Base(d)', s) < Out(d)')
      BY <1>1, <2>6, <3>1, WrapTurn, DistTurn
    <3>3. \A s \in Slots : Live(d, s)' => InUsed(d, s)'
      BY <3>2 DEF Live
    <3>4. \A s \in Slots : Live(d, s)' => Live(d, s)
      BY <2>9, <3>3 DEF Live
    <3>5. ASSUME NEW s \in Slots, Live(d, s)' PROVE n <= Dist(h, s)
      <4>1. ~(Dist(h, s) < n)
        BY <2>2, <2>5, <2>8, <3>3, <3>5
      <4> QED BY <1>1, <4>1, DistTurn
    <3>6. BaseOn(d)
      BY <1>1, <1>6, <2>1, <2>6, <3>1, WrapTurn DEF BaseOn
    <3>7. Pass(d, n)
      BY <2>3, <2>6, <2>7, <2>9, <3>1, <3>4, <3>5 DEF Pass
    <3> QED BY <2>6, <3>6, <3>7
  <2> QED BY <2>1, <2>10, <2>11
<1>9. CASE BatchAt(t, d)
  <2>1. /\ x.pc \in {"rdma", "free"} /\ thread'[t].pc \in {"free", "unlock"}
        /\ x.pc = "free" => thread'[t].pc = "unlock"
        /\ thread'[t].first = x.first /\ thread'[t].count = n /\ head'[d] = h
        /\ \A s \in Slots : \/ buff'[d][s] = buff[d][s]
                            \/ x.pc = "free" /\ buff'[d][s] = EmptySlot
    BY <1>9 DEF BatchAt
  <2>2. /\ x.first + n <= total_writeOut
        /\ \A s \in Slots : x.first <= s /\ s < x.first + n => buff[d][s].status = 3
    BY <1>2, <2>1 DEF FlushForm
  <2>3. Marked(d) = 0 /\ Base(d) = x.first /\ Out(d) = n /\ Marked(d)' = 0
    BY <1>3, <1>4, <2>1 DEF MarkPcs
  <2>4. head[d] = h
    OBVIOUS
  <2>5. \A s \in Slots : Filled(d, s)' => Filled(d, s) /\ Same(d, s)
    BY <2>1 DEF Filled, Same, EmptySlot
  <2>6. \A s \in Slots : InUsed(d, s) <=> buff[d][s].status \in {1, 2}
    BY <1>1, <2>3 DEF InUsed, Slots
  <2>7. \A s \in Slots : InUsed(d, s)' <=> buff'[d][s].status \in {1, 2}
    BY <1>1, <2>1, <2>3 DEF InUsed, Slots
  <2>8. \A s \in Slots : InUsed(d, s)' => InUsed(d, s)
    BY <2>1, <2>6, <2>7 DEF EmptySlot
  <2> DEFINE f == x.first
  <2>9. f \in Slots /\ f + n <= total_writeOut
    BY <1>1, <2>2
  <2>10. head[d] = Turn(f, n)
    BY <2>3
  <2> HIDE DEF n, h, f
  <2>11. \A s \in Slots : /\ Dist(f, s) < n <=> (f <= s /\ s < f + n)
                          /\ n <= total_writeOut
    BY <1>1, <2>9, UpFrom
  <2>12. n \in 0 .. total_writeOut
    BY <1>1, <2>9 DEF Slots
  <2>13. CASE thread'[t].pc = "free"
    <3>1. Base(d)' = f /\ Out(d)' = n
      BY <1>4, <2>1, <2>13 DEF f
    <3>2. Base(d) = f
      BY <2>3 DEF f
    <3>3. \A s \in Slots : Live(d, s)' => Live(d, s)
      BY <2>3, <2>8, <3>1, <3>2 DEF Live
    <3>4. BaseOn(d)
      BY <2>1, <2>4, <2>10, <3>1 DEF BaseOn
    <3>5. Base(d)' = Turn(Base(d), 0)
      BY <1>1, <1>6, <3>1, <3>2
    <3> QED BY <1>5, <1>6, <2>5, <2>8, <3>3, <3>4, <3>5 DEF Pass
  <2>14. CASE thread'[t].pc = "unlock"
    <3>1. Base(d)' = Turn(f, n) /\ Out(d)' = 0 /\ Base(d) = f
      BY <1>4, <2>1, <2>3, <2>4, <2>10, <2>14 DEF f
    <3>2. \A s \in Slots : ~(Dist(Base(d)', s) < Out(d)')
      BY <2>9, <2>12, <3>1, WrapTurn, DistTurn
    <3>3. \A s \in Slots : Live(d, s)' => InUsed(d, s)'
      BY <3>2 DEF Live
    <3>4. \A s \in Slots : Live(d, s)' => Live(d, s)
      BY <2>8, <3>3 DEF Live
    <3>5. ASSUME NEW s \in Slots, Live(d, s)' PROVE n <= Dist(f, s)
      <4>1. buff[d][s].status \in {1, 2}
        BY <2>6, <2>8, <3>3, <3>5
      <4>2. ~(f <= s /\ s < f + n)
        BY <2>2, <4>1 DEF f
      <4>3. ~(Dist(f, s) < n) /\ Dist(f, s) \in Int
        BY <2>9, <2>11, <4>2, DistTurn
      <4> QED BY <1>1, <4>3
    <3>6. BaseOn(d)
      BY <1>1, <1>6, <2>1, <2>4, <2>10, <3>1 DEF BaseOn
    <3>7. Pass(d, n)
      BY <2>5, <2>8, <2>12, <3>1, <3>4, <3>5 DEF Pass
    <3> QED BY <2>12, <3>6, <3>7
  <2> QED BY <2>1, <2>13, <2>14
<1> QED BY <1>7, <1>8, <1>9
(* Every step, by what it does to the slots of a node.                      *)
LEMMA StepsOn ==
  ASSUME PoolInv, ThreadInv, [ReadNext]_readVars, NEW d \in Nodes, head[d] = Turn(Base(d), Out(d))
  PROVE  /\ BaseOn(d)
         /\ \/ \E m \in 0 .. total_writeOut : Pass(d, m)
            \/ \E t \in Threads : Enter(t, d) \/ Hand(t, d)
<1>1. CASE Still(d)
  <2>1. 0 \in 0 .. total_writeOut
    BY WriteOutConstants
  <2> QED BY <1>1, <2>1, PassStill
<1>2. ASSUME NEW t \in Threads, AtNode(t, d)
      PROVE  /\ BaseOn(d)
             /\ (\E m \in 0 .. total_writeOut : Pass(d, m)) \/ Enter(t, d) \/ Hand(t, d)
  <2>1. d = thread[t].dest
    BY <1>2 DEF AtNode
  <2>2. CASE Claim(t) \/ Fill(t)
    <3>1. Enter(t, d) \/ Hand(t, d)
      BY <2>1, <2>2, EnterAt, HandAt
    <3>2. BaseOn(d)
      BY <3>1 DEF Enter, Hand, View, BaseOn
    <3> QED BY <3>1, <3>2
  <2>3. CASE Join(t) \/ FlushPost(t) \/ RdmaWrite(t) \/ RdmaWriteFails(t) \/ FreeBuff(t)
    <3>1. /\ PostAt(t, d) \/ JoinAt(t, d) \/ BatchAt(t, d)
          /\ tail'[d] = tail[d] /\ pos_mutex'[d] = t /\ Flushes(thread[t], d)
      BY <2>1, <2>3, FlushAt
    <3>2. DropStep(d)
      BY <2>3, OthersDrop DEF Join, FlushStep
    <3> QED BY <2>1, <3>1, <3>2, PassFlush
  <2> QED BY <1>2, <2>2, <2>3 DEF AtNode
<1>3. CASE \E t \in Threads : AtNode(t, d)
  BY <1>2, <1>3
<1> QED BY <1>1, <1>3, StepsAt

LEMMA BaseHeld == ReadSpec => []BaseInv
<1>1. ReadInit => BaseInv
  <2> SUFFICES ASSUME ReadInit, NEW d \in Nodes PROVE head[d] = Turn(Base(d), Out(d))
    BY DEF BaseInv
  <2>1. pos_mutex[d] = None /\ head[d] = 0
    BY DEF ReadInit, Init
  <2>2. Base(d) = 0 /\ Out(d) = 0
    BY <2>1, FreeView
  <2> QED BY <2>1, <2>2, WriteOutConstants DEF Turn
<1>2. ASSUME PoolInv, ThreadInv, BaseInv, [ReadNext]_readVars PROVE BaseInv'
  BY <1>2, StepsOn DEF BaseInv, BaseOn
<1> QED BY <1>1, <1>2, PoolHeld, ThreadHeld, PTL DEF ReadSpec

(* The live slots are the ones from the base up to the tail.                *)
LEMMA LiveSpan ==
  ASSUME ThreadInv, BaseInv, RingInv, NEW d \in Nodes
  PROVE  \E n \in 0 .. total_writeOut :
           /\ tail[d] = Turn(Base(d), n)
           /\ \A s \in Slots : Live(d, s) <=> Dist(Base(d), s) < n
<1> DEFINE b == Base(d)  m == Out(d)  h == head[d]
<1>1. b \in Slots /\ m \in 0 .. total_writeOut /\ h = Turn(b, m) /\ h \in Slots
  BY BaseType DEF BaseInv
<1>2. PICK n \in 0 .. total_writeOut :
        /\ tail[d] = Turn(h, n) /\ \A s \in Slots : InUsed(d, s) <=> Dist(h, s) < n
  BY DEF RingInv, Ring
<1>3. CASE ~Writes(d)
  <2>1. b = h /\ m = 0
    BY <1>3 DEF Base, Out
  <2>2. \A s \in Slots : Live(d, s) <=> InUsed(d, s)
    BY <1>1, <2>1, DistTurn DEF Live
  <2> QED BY <1>2, <2>1, <2>2
<1>4. CASE Writes(d)
  <2> DEFINE x == thread[pos_mutex[d]]
  <2>1. /\ pos_mutex[d] \in Threads /\ x.pc \in {"rdma", "free"} /\ x.dest = d
        /\ b = x.first /\ m = x.count
    BY <1>4 DEF Writes, Base, Out, ThreadInv, Locks, Flushes
  <2>2. b + m <= total_writeOut /\ m >= 1
    BY <2>1 DEF ThreadInv, FlushForms, FlushForm
  <2>3. Marked(d) = 0
    BY <2>1 DEF Marked
  <2>4. \A s \in Slots : Dist(b, s) < m => ~InUsed(d, s)
    BY <1>1, <2>3, BaseType DEF InUsed, Slots
  <2> HIDE DEF x, b, m, h
  <2>5. m + n <= total_writeOut
    <3>1. Dist(b, b) < m
      BY <1>1, <2>2 DEF Dist, Slots
    <3>2. ~(Dist(h, b) < n)
      BY <1>1, <1>2, <2>4, <3>1
    <3> QED BY <1>1, <1>2, <2>2, <3>2, WriteOutConstants DEF Dist, Turn, Slots
  <2>6. tail[d] = Turn(b, m + n)
    BY <1>1, <1>2, <2>2, <2>5, WriteOutConstants DEF Turn, Slots
  <2>7. \A s \in Slots : Dist(b, s) < m + n <=> (Dist(b, s) < m \/ Dist(h, s) < n)
    BY <1>1, <1>2, <2>2, <2>5, WriteOutConstants DEF Turn, Dist, Slots
  <2>8. m + n \in 0 .. total_writeOut
    BY <1>1, <1>2, <2>5
  <2>9. \A s \in Slots : Live(d, s) <=> Dist(b, s) < m + n
    BY <1>2, <2>7 DEF Live, b, m
  <2> QED BY <2>6, <2>8, <2>9 DEF b
<1> QED BY <1>3, <1>4
-----------------------------------------------------------------------------
(* How often a page was granted: once more when it joins the pool.           *)
LEMMA GrantsCount ==
  ASSUME PoolInv, NEW d \in Nodes, NEW p, GrantsMore(d), granted'[d] \in Nat
  PROVE  Grants(d, p)' = IF p \in BlockPages(NextBlock(d)) THEN Grants(d, p) + 1 ELSE Grants(d, p)
<1> DEFINE n == granted[d]  H(k) == p \in BlockPages(Supply[d][k])
           A == {k \in 1 .. n : H(k)}  B == {k \in 1 .. n + 1 : H(k)}
<1>1. n \in Nat /\ granted'[d] = n + 1
  BY DEF PoolInv, GrantsMore
<1>2. Grants(d, p) = Cardinality(A) /\ Grants(d, p)' = Cardinality(B)
  BY <1>1 DEF Grants
<1>3. IsFiniteSet(A)
  <2>1. IsFiniteSet(1 .. n)
    BY <1>1, FS_Interval
  <2> QED BY <2>1, FS_Subset
<1>4. p \in BlockPages(NextBlock(d)) <=> H(n + 1)
  BY DEF NextBlock
<1> HIDE DEF H
<1>5. CASE H(n + 1)
  <2>1. B = A \union {n + 1} /\ n + 1 \notin A
    BY <1>1, <1>5
  <2> HIDE DEF A, B
  <2>2. Cardinality(B) = Cardinality(A) + 1
    BY <1>3, <2>1, FS_AddElement
  <2> QED BY <1>2, <1>4, <1>5, <2>2
<1>6. CASE ~H(n + 1)
  <2>1. B = A
    BY <1>1, <1>6
  <2> QED BY <1>2, <1>4, <1>6, <2>1
<1> QED BY <1>5, <1>6

LEMMA PoolMoves ==
  ASSUME PoolInv, PoolInv', [ReadNext]_readVars, NEW d \in Nodes
  PROVE  /\ \A p : /\ Grants(d, p) \in Nat /\ Grants(d, p)' \in Nat
                   /\ Grants(d, p) <= Grants(d, p)'
                   /\ p \in InUse(d) => Grants(d, p)' = Grants(d, p)
         /\ GrantsKept(d) => \A p : Grants(d, p)' = Grants(d, p)
         /\ \A p \in PagesOf(free_group'[d]) :
              p \in PagesOf(free_group[d]) \/ Grants(d, p)' = Grants(d, p) + 1
<1>1. \A p : Grants(d, p) \in Nat
  BY GrantsType
<1>2. GrantsKept(d) => \A p : Grants(d, p)' = Grants(d, p)
  BY DEF GrantsKept, Grants
<1>3. granted'[d] \in Nat
  BY DEF PoolInv
<1>4. ASSUME GrantsMore(d), NEW p
      PROVE  Grants(d, p)' = IF p \in BlockPages(NextBlock(d)) THEN Grants(d, p) + 1 ELSE Grants(d, p)
  BY <1>3, <1>4, GrantsCount
<1>5. GrantsMore(d) => BlockPages(NextBlock(d)) \cap InUse(d) = {} /\ granted[d] < Len(Supply[d])
  BY DEF GrantsMore, CanGrant, NextBlock
<1>6. GrantsKept(d) \/ GrantsMore(d)
  BY PoolStep
<1>7. ASSUME NEW p
      PROVE  /\ Grants(d, p)' \in Nat /\ Grants(d, p) <= Grants(d, p)'
             /\ p \in InUse(d) => Grants(d, p)' = Grants(d, p)
  <2>1. CASE GrantsKept(d)
    BY <1>1, <1>2, <2>1
  <2>2. CASE GrantsMore(d)
    <3>1. Grants(d, p) \in Nat
      BY <1>1
    <3>2. Grants(d, p)' = IF p \in BlockPages(NextBlock(d)) THEN Grants(d, p) + 1 ELSE Grants(d, p)
      BY <1>4, <2>2
    <3>3. p \in InUse(d) => p \notin BlockPages(NextBlock(d))
      BY <1>5, <2>2
    <3> QED BY <3>1, <3>2, <3>3
  <2> QED BY <1>6, <2>1, <2>2
<1>8. ASSUME NEW p \in PagesOf(free_group'[d]), p \notin PagesOf(free_group[d])
      PROVE  Grants(d, p)' = Grants(d, p) + 1
  <2> DEFINE q == free_group[d]  g == BlockGroup(NextBlock(d))
  <2>1. q \in Seq(Groups) /\ Apart(q)
    BY DEF PoolInv, GoodPool
  <2>2. ~PoolKept(d)
    BY <1>8 DEF PoolKept
  <2>3. ~PageTaken(d)
    <3>1. ASSUME PageTaken(d) PROVE FALSE
      <4>1. free_group'[d] = Rest(q)
        BY <3>1 DEF PageTaken
      <4>2. q # <<>>
        <5>1. total_page[d] > 0 /\ total_page[d] = Cardinality(PagesOf(q))
          BY <3>1 DEF PageTaken, PoolInv, GoodPool
        <5>2. PagesOf(<<>>) = {}
          BY DEF PagesOf, ToSet
        <5>3. q = <<>> => Cardinality(PagesOf(q)) = 0
          BY <5>2, FS_EmptySet
        <5> QED BY <5>1, <5>3
      <4>3. PagesOf(Rest(q)) \subseteq PagesOf(q)
        BY <2>1, <4>2, RestPages
      <4> QED BY <1>8, <4>1, <4>3
    <3> QED BY <3>1
  <2>4. BlockAdded(d) /\ GrantsMore(d)
    BY <2>2, <2>3, PoolStep
  <2>5. g \in Groups /\ GroupPages(g) = BlockPages(NextBlock(d)) /\ free_group'[d] = Append(q, g)
    BY <1>5, <2>4, BlockGood DEF BlockAdded
  <2>6. PagesOf(q) \subseteq InUse(d)
    BY DEF InUse, PagesOf
  <2> HIDE DEF g, q
  <2>7. PagesOf(free_group'[d]) = PagesOf(q) \union GroupPages(g)
    BY <1>5, <2>1, <2>4, <2>5, <2>6, AppendPages
  <2>8. p \in BlockPages(NextBlock(d))
    BY <1>8, <2>5, <2>7 DEF q
  <2> QED BY <1>4, <2>4, <2>8
<1> QED BY <1>1, <1>2, <1>7, <1>8

LEMMA FreshKept ==
  ASSUME PoolInv, PoolInv', [ReadNext]_readVars, NEW d \in Nodes, NEW p, NEW n \in Int,
         Fresh(d, p, n),
         \A t \in Threads : FillerKept(t, d) \/ thread'[t].page \in PagesOf(free_group[d])
  PROVE  Fresh(d, p, n)'
<1> DEFINE G == Grants(d, p)  H == Grants(d, p)'
<1>1. /\ G \in Nat /\ H \in Nat /\ G <= H
      /\ p \in PagesOf(free_group'[d]) => p \in PagesOf(free_group[d]) \/ H = G + 1
  BY PoolMoves
<1>2. /\ n <= G /\ (p \in PagesOf(free_group[d]) => n < G)
      /\ \A t \in Threads : Fills(thread[t], d) /\ thread[t].page = p => n < G
  BY DEF Fresh
<1>3. ASSUME NEW t \in Threads, Fills(thread'[t], d), thread'[t].page = p PROVE n < G
  <2>1. CASE FillerKept(t, d)
    BY <1>2, <1>3, <2>1 DEF FillerKept
  <2>2. CASE thread'[t].page \in PagesOf(free_group[d])
    BY <1>2, <1>3, <2>2
  <2> QED BY <2>1, <2>2
<1> HIDE DEF G, H
<1>4. n <= H /\ (p \in PagesOf(free_group'[d]) => n < H) /\ (n < G => n < H)
  BY <1>1, <1>2
<1>5. \A t \in Threads : Fills(thread'[t], d) /\ thread'[t].page = p => n < H
  BY <1>3, <1>4
<1> QED BY <1>4, <1>5 DEF Fresh, H

(* A slot's content is older than the next grant of its page.                *)
LEMMA StampHeld == ReadSpec => []StampInv
<1>1. ReadInit => StampInv
  <2> SUFFICES ASSUME ReadInit, NEW d \in Nodes PROVE Stamped(d)
    BY DEF StampInv
  <2>1. moved[d] = {} /\ \A s \in Slots : buff[d][s].status = -1
    BY DEF ReadInit, Init, EmptySlot
  <2> QED BY <2>1 DEF Stamped, Holds, Filled
<1>2. ASSUME PoolInv, PoolInv', ThreadInv, GivenInv, BaseInv, StampInv, [ReadNext]_readVars
      PROVE  StampInv'
  <2> SUFFICES ASSUME NEW d \in Nodes PROVE Stamped(d)'
    BY DEF StampInv
  <2>1. /\ \A c \in moved[d] : c[2] = Grants(d, c[1])
        /\ \A s \in Slots : \A p, n \in Int : Holds(d, s, p, n) => Fresh(d, p, n)
    BY <1>2 DEF StampInv, Stamped
  <2>2. ASSUME NEW c \in moved[d] PROVE c[2] = Grants(d, c[1])'
    <3>1. c[1] \in InUse(d)
      BY DEF InUse
    <3> QED BY <1>2, <2>1, <3>1, PoolMoves
  <2>3. (\E m \in 0 .. total_writeOut : Pass(d, m)) \/ \E t \in Threads : Enter(t, d) \/ Hand(t, d)
    BY <1>2, StepsOn DEF BaseInv
  <2> DEFINE Taking == \A t \in Threads : FillerKept(t, d) \/ thread'[t].page \in PagesOf(free_group[d])
  <2>4. ASSUME Taking, NEW s \in Slots, NEW p \in Int, NEW n \in Int, Holds(d, s, p, n)
        PROVE  Fresh(d, p, n)'
    BY <1>2, <2>1, <2>4, FreshKept
  <2>5. CASE \E m \in 0 .. total_writeOut : Pass(d, m)
    <3>1. /\ \A s \in Slots : Filled(d, s)' => Filled(d, s) /\ Same(d, s)
          /\ moved'[d] \subseteq moved[d] /\ Taking
      BY <2>5 DEF Pass, DropStep
    <3>2. \A s \in Slots : \A p, n \in Int : Holds(d, s, p, n)' => Holds(d, s, p, n)
      BY <3>1 DEF Holds, Same
    <3> HIDE DEF Taking
    <3>3. \A c \in moved'[d] : c[2] = Grants(d, c[1])'
      BY <2>2, <3>1
    <3>4. \A s \in Slots : \A p, n \in Int : Holds(d, s, p, n)' => Fresh(d, p, n)'
      BY <2>4, <3>1, <3>2
    <3> QED BY <3>3, <3>4 DEF Stamped
  <2>6. ASSUME NEW t \in Threads, Enter(t, d) PROVE Stamped(d)'
    <3>1. /\ buff'[d][tail[d]].status = 1 /\ moved'[d] = moved[d]
          /\ \A s \in Slots : s # tail[d] => buff'[d][s] = buff[d][s]
          /\ \A u \in Threads : u # t => thread'[u] = thread[u]
          /\ PageTaken(d) /\ free_group[d] # <<>> /\ thread'[t].page = Head(free_group[d]).page_start
      BY <2>6 DEF Enter
    <3>2. thread'[t].page \in PagesOf(free_group[d])
      BY <1>2, <3>1, PoolGrows
    <3>3. Taking
      BY <3>1, <3>2 DEF FillerKept
    <3>4. \A s \in Slots : \A p, n \in Int : Holds(d, s, p, n)' => Holds(d, s, p, n)
      BY <3>1 DEF Holds, Filled
    <3> HIDE DEF Taking
    <3>5. \A c \in moved'[d] : c[2] = Grants(d, c[1])'
      BY <2>2, <3>1
    <3>6. \A s \in Slots : \A p, n \in Int : Holds(d, s, p, n)' => Fresh(d, p, n)'
      BY <2>4, <3>3, <3>4
    <3> QED BY <3>5, <3>6 DEF Stamped
  <2>7. ASSUME NEW t \in Threads, Hand(t, d) PROVE Stamped(d)'
    <3> DEFINE s0 == thread[t].slot  p0 == thread[t].page  n0 == Grants(d, p0)
    <3>1. /\ Fills(thread[t], d) /\ ~Fills(thread'[t], d)
          /\ buff'[d][s0] = [status |-> 2, pageNO |-> p0, data |-> <<p0, n0>>]
          /\ \A s \in Slots : s # s0 => buff'[d][s] = buff[d][s]
          /\ moved'[d] = moved[d] \union {<<p0, n0>>} /\ PoolKept(d) /\ GrantsKept(d)
          /\ \A u \in Threads : u # t => thread'[u] = thread[u]
      BY <2>7 DEF Hand, Content
    <3>2. /\ p0 \notin PagesOf(free_group[d])
          /\ \A u \in Threads : u # t /\ Fills(thread[u], d) => thread[u].page # p0
      BY <1>2, <3>1 DEF GivenInv, Given
    <3> PICK p1, n1 : p1 = p0 /\ n1 = n0
      OBVIOUS
    <3>3. Grants(d, p1)' = n1 /\ Grants(d, p1) = n1 /\ n1 \in Nat
      BY <1>2, <3>1, PoolMoves
    <3>4. Fresh(d, p1, n1)'
      BY <3>1, <3>2, <3>3 DEF Fresh, PoolKept
    <3>5. Taking
      BY <3>1 DEF FillerKept
    <3> HIDE DEF Taking
    <3>6. \A c \in moved'[d] : c[2] = Grants(d, c[1])'
      BY <2>2, <3>1, <3>3
    <3>7. ASSUME NEW s \in Slots, NEW p \in Int, NEW n \in Int, Holds(d, s, p, n)'
          PROVE  Fresh(d, p, n)'
      <4>1. CASE s = s0
        <5>1. p = p1 /\ n = n1
          BY <3>1, <3>7, <4>1 DEF Holds
        <5> QED BY <3>4, <5>1
      <4>2. CASE s # s0
        <5>1. Holds(d, s, p, n)
          BY <3>1, <3>7, <4>2 DEF Holds, Filled
        <5> QED BY <2>4, <3>5, <5>1
      <4> QED BY <4>1, <4>2
    <3> QED BY <3>6, <3>7 DEF Stamped
  <2> QED BY <2>3, <2>5, <2>6, <2>7
<1> QED BY <1>1, <1>2, PoolHeld, ThreadHeld, GivenHeld, BaseHeld, PTL DEF ReadSpec
-----------------------------------------------------------------------------
(* What the three kinds of steps leave of the live slots.                    *)
LEMMA PassOrder ==
  ASSUME ThreadInv, NEW d \in Nodes, NEW m \in 0 .. total_writeOut, Pass(d, m),
         NEW x \in Slots, NEW y \in Slots, Live(d, x)', Live(d, y)'
  PROVE  Before(d, x, y)' <=> Before(d, x, y)
<1> DEFINE b == Base(d)
<1>1. b \in Slots
  BY BaseType
<1>2. /\ m <= Dist(b, x) /\ m <= Dist(b, y) /\ Base(d)' = Turn(b, m)
  BY DEF Pass
<1> HIDE DEF b
<1>3. Dist(Turn(b, m), x) = Dist(b, x) - m /\ Dist(Turn(b, m), y) = Dist(b, y) - m
  BY <1>1, <1>2, FurtherOn
<1>4. Dist(b, x) \in Int /\ Dist(b, y) \in Int
  BY <1>1, DistTurn
<1>5. Dist(b, x) - m < Dist(b, y) - m <=> Dist(b, x) < Dist(b, y)
  BY <1>4
<1>6. Before(d, x, y) <=> Dist(b, x) < Dist(b, y)
  BY DEF Before, b
<1>7. Before(d, x, y)' <=> Dist(Turn(b, m), x) < Dist(Turn(b, m), y)
  BY <1>2 DEF Before
<1> QED BY <1>3, <1>5, <1>6, <1>7

LEMMA EnterOrder ==
  ASSUME ThreadInv, BaseInv, RingInv, NEW d \in Nodes, NEW t \in Threads, Enter(t, d)
  PROVE  /\ \A x, y \in Slots : Before(d, x, y)' <=> Before(d, x, y)
         /\ \A x \in Slots : Live(d, x)' /\ Filled(d, x)' =>
              Live(d, x) /\ Filled(d, x) /\ buff'[d][x] = buff[d][x] /\ Before(d, x, tail[d])
<1> DEFINE b == Base(d)  s == tail[d]
<1>1. /\ Base(d)' = b /\ Out(d)' = Out(d) /\ Marked(d)' = Marked(d) /\ head'[d] = head[d]
      /\ buff[d][s].status = -1 /\ buff'[d][s].status = 1
      /\ \A x \in Slots : x # s => buff'[d][x] = buff[d][x]
  BY DEF Enter, View
<1>2. \A x, y \in Slots : Before(d, x, y)' <=> Before(d, x, y)
  BY <1>1 DEF Before
<1>3. s \in Slots /\ b \in Slots
  BY BaseType DEF ThreadInv, TypeInv
<1>4. PICK n \in 0 .. total_writeOut : s = Turn(b, n) /\ \A x \in Slots : Live(d, x) <=> Dist(b, x) < n
  BY LiveSpan
<1>5. ~(Dist(b, s) < n)
  <2>1. ~InUsed(d, s)
    <3>1. CASE Marked(d) = 0
      BY <1>1, <1>3, <3>1 DEF InUsed, ThreadInv, TypeInv, Slots
    <3>2. CASE Marked(d) # 0
      <4>1. PICK u \in Threads : u = pos_mutex[d] /\ thread[u].pc \in MarkPcs /\ Marked(d) = thread[u].count
        BY <3>2 DEF Marked, MarkPcs
      <4>2. thread[u].dest = d
        BY <4>1 DEF ThreadInv, Locks, Flushes
      <4>3. \A x \in Slots : head[d] <= x /\ x < head[d] + Marked(d) => buff[d][x].status = 3
        BY <4>1, <4>2 DEF ThreadInv, FlushForms, FlushForm
      <4> QED BY <1>1, <1>3, <4>3 DEF InUsed
    <3> QED BY <3>1, <3>2
  <2>2. ~(Dist(b, s) < Out(d))
    BY <1>1, <1>3, BaseType
  <2> QED BY <1>3, <1>4, <2>1, <2>2 DEF Live
<1>6. ASSUME NEW x \in Slots, Live(d, x)', Filled(d, x)'
      PROVE  Live(d, x) /\ Filled(d, x) /\ buff'[d][x] = buff[d][x] /\ Before(d, x, tail[d])
  <2>1. x # s
    BY <1>1, <1>6 DEF Filled
  <2>2. Live(d, x) /\ Filled(d, x)
    BY <1>1, <1>6, <2>1 DEF Live, InUsed, Filled
  <2>3. Dist(b, x) < n /\ Dist(b, x) \in Int /\ Dist(b, s) \in Int
    BY <1>3, <1>4, <2>2, DistTurn
  <2>4. Dist(b, x) < Dist(b, s)
    BY <1>5, <2>3
  <2> QED BY <1>1, <2>1, <2>2, <2>4 DEF Before
<1> QED BY <1>2, <1>6

LEMMA HandOrder ==
  ASSUME ThreadInv, NEW d \in Nodes, NEW t \in Threads, Hand(t, d)
  PROVE  /\ \A x, y \in Slots : Before(d, x, y)' <=> Before(d, x, y)
         /\ \A x \in Slots : Live(d, x)' <=> Live(d, x)
         /\ buff[d][thread[t].slot].status = 1 /\ thread[t].slot \in Slots
<1> DEFINE s == thread[t].slot
<1>1. /\ Base(d)' = Base(d) /\ Out(d)' = Out(d) /\ Marked(d)' = Marked(d) /\ head'[d] = head[d]
      /\ Fills(thread[t], d) /\ buff'[d][s].status = 2
      /\ \A x \in Slots : x # s => buff'[d][x] = buff[d][x]
  BY DEF Hand, View
<1>2. \A x, y \in Slots : Before(d, x, y)' <=> Before(d, x, y)
  BY <1>1 DEF Before
<1>3. buff[d][s].status = 1 /\ s \in Slots
  BY <1>1 DEF ThreadInv, FillForms, TypeInv, ThreadType
<1>4. \A x \in Slots : Live(d, x)' <=> Live(d, x)
  BY <1>1, <1>3 DEF Live, InUsed
<1> QED BY <1>2, <1>3, <1>4
(* Slots are passed in the order in which they were claimed.                 *)
LEMMA OrderHeld == ReadSpec => []OrderInv
<1>1. ReadInit => OrderInv
  <2>1. ASSUME ReadInit, NEW d \in Nodes, NEW s \in Slots PROVE ~Filled(d, s)
    <3>1. buff[d][s].status = -1
      BY <2>1 DEF ReadInit, Init, EmptySlot
    <3> QED BY <3>1 DEF Filled
  <2> QED BY <2>1 DEF OrderInv, Ordered
<1>2. ASSUME PoolInv, ThreadInv, ThreadInv', RingInv, GivenInv, BaseInv, StampInv, OrderInv,
             [ReadNext]_readVars
      PROVE  OrderInv'
  <2> SUFFICES ASSUME NEW d \in Nodes PROVE Ordered(d)'
    BY DEF OrderInv
  <2>1. /\ \A x, y \in Slots :
             /\ Live(d, x) /\ Filled(d, x) /\ Live(d, y) /\ Filled(d, y)
             /\ buff[d][x].pageNO = buff[d][y].pageNO /\ Before(d, x, y)
             => buff[d][x].data[2] < buff[d][y].data[2]
        /\ \A t \in Threads : \A x, y \in Slots :
             /\ Fills(thread[t], d) /\ thread[t].slot = y
             /\ Live(d, x) /\ Filled(d, x) /\ buff[d][x].pageNO = thread[t].page
             => Before(d, x, y)
    BY <1>2 DEF OrderInv, Ordered
  <2>2. (\E m \in 0 .. total_writeOut : Pass(d, m)) \/ \E t \in Threads : Enter(t, d) \/ Hand(t, d)
    BY <1>2, StepsOn DEF BaseInv
  <2>3. ASSUME NEW m \in 0 .. total_writeOut, Pass(d, m) PROVE Ordered(d)'
    <3>1. /\ \A s \in Slots : Live(d, s)' => Live(d, s)
          /\ \A s \in Slots : Filled(d, s)' => Filled(d, s) /\ Same(d, s)
          /\ \A t \in Threads : FillerKept(t, d)
      BY <2>3 DEF Pass, DropStep
    <3>2. ASSUME NEW x \in Slots, NEW y \in Slots, Live(d, x)', Filled(d, x)', Live(d, y)', Filled(d, y)',
                 buff'[d][x].pageNO = buff'[d][y].pageNO, Before(d, x, y)'
          PROVE  buff'[d][x].data[2] < buff'[d][y].data[2]
      <4>1. Before(d, x, y)
        BY <1>2, <2>3, <3>2, PassOrder
      <4>2. /\ buff'[d][x].pageNO = buff[d][x].pageNO /\ buff'[d][x].data = buff[d][x].data
            /\ buff'[d][y].pageNO = buff[d][y].pageNO /\ buff'[d][y].data = buff[d][y].data
            /\ Live(d, x) /\ Filled(d, x) /\ Live(d, y) /\ Filled(d, y)
        BY <3>1, <3>2 DEF Same
      <4> QED BY <2>1, <3>2, <4>1, <4>2
    <3>3. ASSUME NEW t \in Threads, NEW x \in Slots, NEW y \in Slots, Fills(thread'[t], d),
                 thread'[t].slot = y, Live(d, x)', Filled(d, x)', buff'[d][x].pageNO = thread'[t].page
          PROVE  Before(d, x, y)'
      <4>1. Fills(thread[t], d) /\ thread[t].slot = y /\ thread[t].page = thread'[t].page
        BY <3>1, <3>3 DEF FillerKept
      <4>2. Live(d, x) /\ Filled(d, x) /\ buff[d][x].pageNO = thread[t].page
        BY <3>1, <3>3, <4>1 DEF Same
      <4>3. Live(d, y)'
        <5>1. InUsed(d, y)'
          <6>1. buff'[d][y].status = 1
            BY <1>2, <3>3 DEF ThreadInv, FillForms
          <6> QED BY <6>1 DEF InUsed
        <5> QED BY <5>1 DEF Live
      <4> QED BY <1>2, <2>1, <2>3, <3>3, <4>1, <4>2, <4>3, PassOrder
    <3> QED BY <3>2, <3>3 DEF Ordered
  <2>4. ASSUME NEW t \in Threads, Enter(t, d) PROVE Ordered(d)'
    <3>1. /\ \A x, y \in Slots : Before(d, x, y)' <=> Before(d, x, y)
          /\ \A x \in Slots : Live(d, x)' /\ Filled(d, x)' =>
               Live(d, x) /\ Filled(d, x) /\ buff'[d][x] = buff[d][x] /\ Before(d, x, tail[d])
      BY <1>2, <2>4, EnterOrder
    <3>2. thread'[t].slot = tail[d] /\ \A u \in Threads : u # t => thread'[u] = thread[u]
      BY <2>4 DEF Enter
    <3>3. \A x, y \in Slots :
             /\ Live(d, x)' /\ Filled(d, x)' /\ Live(d, y)' /\ Filled(d, y)'
             /\ buff'[d][x].pageNO = buff'[d][y].pageNO /\ Before(d, x, y)'
             => buff'[d][x].data[2] < buff'[d][y].data[2]
      BY <2>1, <3>1
    <3>4. \A u \in Threads : \A x, y \in Slots :
             /\ Fills(thread'[u], d) /\ thread'[u].slot = y
             /\ Live(d, x)' /\ Filled(d, x)' /\ buff'[d][x].pageNO = thread'[u].page
             => Before(d, x, y)'
      BY <2>1, <3>1, <3>2
    <3> QED BY <3>3, <3>4 DEF Ordered
  <2>5. ASSUME NEW t \in Threads, Hand(t, d) PROVE Ordered(d)'
    <3> DEFINE s == thread[t].slot  p == thread[t].page  n == Grants(d, p)
    <3>1. /\ Fills(thread[t], d) /\ ~Fills(thread'[t], d)
          /\ buff'[d][s] = [status |-> 2, pageNO |-> p, data |-> <<p, n>>]
          /\ \A x \in Slots : x # s => buff'[d][x] = buff[d][x]
          /\ \A u \in Threads : u # t => thread'[u] = thread[u]
      BY <2>5 DEF Hand, Content
    <3>2. /\ \A x, y \in Slots : Before(d, x, y)' <=> Before(d, x, y)
          /\ \A x \in Slots : Live(d, x)' <=> Live(d, x)
          /\ s \in Slots
      BY <1>2, <2>5, HandOrder
    <3>3. \A u \in Threads : u # t /\ Fills(thread[u], d) => thread[u].page # p
      BY <1>2, <3>1 DEF GivenInv, Given
    <3>4. /\ \A x \in Slots : x # s => (Filled(d, x)' <=> Filled(d, x))
          /\ buff'[d][s].pageNO = p /\ buff'[d][s].data[2] = n
      BY <3>1 DEF Filled
    <3>5. ASSUME NEW x \in Slots, Filled(d, x), buff[d][x].pageNO = p
          PROVE  buff[d][x].data[2] < n
      <4> DEFINE k == buff[d][x].data[2]
      <4>1. p \in Int /\ k \in Int
        BY <1>2, <3>5, SMTT(30) DEF ThreadInv, TypeInv, ThreadType, SlotType
      <4>2. Holds(d, x, p, k)
        BY <3>5 DEF Holds
      <4>3. Fresh(d, p, k)
        BY <1>2, <4>1, <4>2 DEF StampInv, Stamped
      <4> QED BY <3>1, <4>3 DEF Fresh
    <3> HIDE DEF s, p, n
    <3>6. ASSUME NEW x \in Slots, NEW y \in Slots, Live(d, x)', Filled(d, x)', Live(d, y)', Filled(d, y)',
                 buff'[d][x].pageNO = buff'[d][y].pageNO, Before(d, x, y)'
          PROVE  buff'[d][x].data[2] < buff'[d][y].data[2]
      <4>1. CASE x # s /\ y # s
        BY <2>1, <3>1, <3>2, <3>4, <3>6, <4>1
      <4>2. CASE x # s /\ y = s
        BY <3>1, <3>4, <3>5, <3>6, <4>2
      <4>3. CASE x = s /\ y # s
        <5>1. Before(d, y, x)
          BY <2>1, <3>1, <3>2, <3>4, <3>6, <4>3 DEF s, p
        <5>2. Before(d, x, y)
          BY <3>2, <3>6
        <5>3. Base(d) \in Slots
          BY <1>2, BaseType
        <5>4. Dist(Base(d), x) \in Int /\ Dist(Base(d), y) \in Int
          BY <5>3, DistTurn
        <5> QED BY <5>1, <5>2, <5>4 DEF Before
      <4>4. CASE x = s /\ y = s
        <5>1. Before(d, s, s)
          BY <3>2, <3>6, <4>4
        <5>2. Base(d) \in Slots
          BY <1>2, BaseType
        <5>3. Dist(Base(d), s) \in Int
          BY <3>2, <5>2, DistTurn
        <5> QED BY <5>1, <5>3 DEF Before
      <4> QED BY <4>1, <4>2, <4>3, <4>4
    <3>7. ASSUME NEW u \in Threads, NEW x \in Slots, NEW y \in Slots, Fills(thread'[u], d),
                 thread'[u].slot = y, Live(d, x)', Filled(d, x)', buff'[d][x].pageNO = thread'[u].page
          PROVE  Before(d, x, y)'
      <4>1. u # t /\ thread'[u] = thread[u]
        BY <3>1, <3>7
      <4>2. x # s
        BY <3>3, <3>4, <3>7, <4>1
      <4> QED BY <2>1, <3>1, <3>2, <3>4, <3>7, <4>1, <4>2
    <3> QED BY <3>6, <3>7 DEF Ordered
  <2> QED BY <2>2, <2>3, <2>4, <2>5
<1> QED BY <1>1, <1>2, PoolHeld, ThreadHeld, RingHeld, GivenHeld, BaseHeld, StampHeld, PTL DEF ReadSpec
-----------------------------------------------------------------------------
(* The order of the pages in the pool.                                      *)
LEMMA RestForm ==
  ASSUME NEW d \in Nodes, NEW q \in Seq(Groups), q # <<>>, PoolForm(d, q)
  PROVE  PoolForm(d, Rest(q)) /\ Ahead(d, Head(q).page_start, Rest(q))
<1> DEFINE h == Head(q)  r == Rest(q)
<1>1. h \in Groups /\ h = q[1] /\ 1 \in DOMAIN q /\ Len(q) \in Nat /\ Len(q) >= 1
      /\ DOMAIN q = 1 .. Len(q)
  OBVIOUS
<1>2. Tail(q) \in Seq(Groups) /\ Len(Tail(q)) = Len(q) - 1
      /\ \A k \in 1 .. Len(q) - 1 : Tail(q)[k] = q[k + 1]
  OBVIOUS
<1>3. h.page_end \in Ends(d) /\ h.page_start \in Nat /\ h.page_end \in Nat
  BY <1>1 DEF PoolForm, Groups
<1>4. CASE h.page_start = h.page_end
  <2>1. r = Tail(q)
    BY <1>4 DEF Rest
  <2>2. \A k \in DOMAIN r : k + 1 \in DOMAIN q /\ k + 1 # 1 /\ r[k] = q[k + 1]
    BY <1>1, <1>2, <2>1
  <2>3. PoolForm(d, r)
    BY <2>2 DEF PoolForm
  <2>4. ASSUME r # <<>> PROVE Head(r).page_start \in Starts(d)
    <3>1. Head(r) = r[1] /\ 1 \in DOMAIN r
      BY <1>2, <2>1, <2>4
    <3> QED BY <2>2, <3>1 DEF PoolForm
  <2> QED BY <1>3, <1>4, <2>3, <2>4 DEF Ahead, Follows
<1>5. CASE h.page_start # h.page_end
  <2> DEFINE g == [h EXCEPT !.page_start = @ + 1]
  <2>1. g \in [page_start : Nat, page_end : Nat] /\ g.page_start = h.page_start + 1 /\ g.page_end = h.page_end
    BY <1>1 DEF Groups
  <2>2. r = <<g>> \o Tail(q)
    BY <1>5 DEF Rest
  <2>3. g \in Groups
    BY <1>1, <1>5, <2>1 DEF Groups
  <2> HIDE DEF g
  <2>4. r # <<>> /\ Head(r) = g /\ Len(r) = Len(q) /\ r[1] = g
        /\ \A k \in 2 .. Len(q) : r[k] = q[k]
    BY <1>1, <1>2, <2>2, <2>3
  <2>5. DOMAIN r = DOMAIN q
    BY <1>1, <1>2, <2>2, <2>3
  <2>6. \A k \in DOMAIN q : k = 1 \/ k \in 2 .. Len(q)
    BY <1>1
  <2> HIDE DEF r
  <2>7. PoolForm(d, r)
    BY <1>1, <1>3, <2>1, <2>4, <2>5, <2>6 DEF PoolForm
  <2>8. Ahead(d, h.page_start, r)
    BY <2>1, <2>4 DEF Ahead, Follows
  <2> QED BY <2>7, <2>8 DEF r
<1> QED BY <1>4, <1>5

LEMMA AppendForm ==
  ASSUME PoolInv, NEW d \in Nodes, PoolForm(d, free_group[d]), BlockAdded(d)
  PROVE  /\ PoolForm(d, free_group'[d])
         /\ \A p : Ahead(d, p, free_group[d]) => Ahead(d, p, free_group'[d])
<1> DEFINE q == free_group[d]  g == BlockGroup(NextBlock(d))  r == free_group'[d]
<1>1. q \in Seq(Groups) /\ granted[d] \in Nat
  BY DEF PoolInv, GoodPool
<1>2. granted[d] < Len(Supply[d]) /\ r = Append(q, g)
  BY DEF BlockAdded, CanGrant
<1>3. g \in Groups
  BY <1>2, BlockGood
<1>4. granted[d] + 1 \in DOMAIN Supply[d]
  BY <1>1, <1>2, WriteOutConstants
<1>5. g.page_start \in Starts(d) /\ g.page_end \in Ends(d)
  BY <1>4 DEF BlockGroup, NextBlock, BlockSize, Starts, Ends
<1> HIDE DEF g
<1>6. /\ Len(r) = Len(q) + 1 /\ r[Len(q) + 1] = g /\ Len(q) \in Nat /\ r # <<>>
      /\ \A k \in 1 .. Len(q) : r[k] = q[k]
      /\ DOMAIN q = 1 .. Len(q) /\ DOMAIN r = 1 .. Len(q) + 1
      /\ Head(r) = r[1] /\ (q # <<>> => Head(r) = Head(q)) /\ (q = <<>> => Head(r) = g)
  BY <1>1, <1>2, <1>3
<1> HIDE DEF r
<1>7. \A k \in DOMAIN r : (k \in DOMAIN q /\ r[k] = q[k]) \/ r[k] = g
  BY <1>6
<1>8. PoolForm(d, r)
  BY <1>5, <1>7 DEF PoolForm
<1>9. ASSUME NEW p, Ahead(d, p, q) PROVE Ahead(d, p, r)
  BY <1>5, <1>6, <1>9 DEF Ahead, Follows
<1> QED BY <1>8, <1>9 DEF r

LEMMA TurnOne ==
  /\ \A x \in Slots : Turn(x, 1) \in Slots
  /\ \A x, y \in Slots : Turn(x, 1) = Turn(y, 1) => x = y
BY WriteOutConstants DEF Turn, Slots

(* A page leaves the pool only as it is claimed.                             *)
LEMMA TakenEnters ==
  ASSUME PoolInv, ThreadInv, [ReadNext]_readVars, NEW d \in Nodes, PageTaken(d)
  PROVE  \E t \in Threads : Enter(t, d)
<1>1. /\ total_page[d] \in Nat /\ total_page'[d] = total_page[d] - 1
      /\ total_page = [e \in Nodes |-> total_page[e]]
  BY FS_CardinalityType DEF PageTaken, PoolInv, GoodPool
<1>2. total_page'[d] # total_page[d]
  BY <1>1
<1>3. ~UNCHANGED total_page
  BY <1>2
<1>4. ReadNext
  BY <1>3 DEF readVars, vars
<1>5. ASSUME NEW t \in Threads, Claim(t) PROVE Enter(t, d)
  <2>1. total_page' = [total_page EXCEPT ![thread[t].dest] = @ - 1]
    BY <1>5 DEF Claim
  <2>2. d = thread[t].dest
    BY <1>1, <1>2, <2>1
  <2> QED BY <1>5, <2>2, EnterAt
<1>6. ASSUME NEW e \in Nodes PROVE ~PageReceive(e) /\ ~PageReceiveOOM(e) /\ ~DropRequest(e)
  <2>1. ~PageReceiveOOM(e) /\ ~DropRequest(e)
    BY <1>3 DEF PageReceiveOOM, DropRequest, pool
  <2>2. ASSUME PageReceive(e) PROVE FALSE
    <3>1. total_page' = [total_page EXCEPT ![e] = @ + BlockSize(NextBlock(e).order)] /\ CanGrant(e)
      BY <2>2 DEF PageReceive, NextBlock
    <3>2. e = d
      BY <1>1, <1>2, <3>1
    <3> DEFINE z == BlockSize(NextBlock(e).order)
    <3>3. z \in Nat
      BY <3>1, BlockGood DEF CanGrant
    <3> HIDE DEF z
    <3>4. total_page'[d] = total_page[d] + z
      BY <1>1, <3>1, <3>2 DEF z
    <3> QED BY <1>1, <3>3, <3>4
  <2> QED BY <2>1, <2>2
<1> QED BY <1>3, <1>4, <1>5, <1>6, PoolQuiet

(* Pages are claimed in the order of the pool.                              *)
LEMMA ClaimedHeld == ReadSpec => []ClaimInv
<1>1. ReadInit => ClaimInv
  <2> SUFFICES ASSUME ReadInit, NEW d \in Nodes PROVE Claimed(d)
    BY DEF ClaimInv
  <2>1. /\ free_group[d] = <<>> /\ \A s \in Slots : buff[d][s].status = -1
        /\ \A t \in Threads : thread[t].pc = "idle"
    BY DEF ReadInit, Init, EmptySlot, IdleThread
  <2>2. \A x \in Slots : \A p \in Nat : ~PageAt(d, x, p)
    BY <2>1 DEF PageAt, Filled, Fills
  <2> QED BY <2>1, <2>2 DEF Claimed, PoolForm
<1>2. ASSUME PoolInv, ThreadInv, BaseInv, ClaimInv, [ReadNext]_readVars
      PROVE  ClaimInv'
  <2> SUFFICES ASSUME NEW d \in Nodes PROVE Claimed(d)'
    BY DEF ClaimInv
  <2>1. /\ PoolForm(d, free_group[d])
        /\ \A x \in Slots : \A p \in Nat : InUsed(d, x) /\ PageAt(d, x, p) =>
             IF Turn(x, 1) = tail[d] THEN Ahead(d, p, free_group[d])
             ELSE \A q \in Nat : PageAt(d, Turn(x, 1), q) => Follows(d, p, q)
    BY <1>2 DEF ClaimInv, Claimed
  <2>2. free_group[d] \in Seq(Groups)
    BY <1>2 DEF PoolInv, GoodPool
  <2>3. CASE PageTaken(d)
    <3>1. PICK t \in Threads : Enter(t, d)
      BY <1>2, <2>3, TakenEnters
    <3> PICK s, p0 : s = tail[d] /\ p0 = Head(free_group[d]).page_start
      OBVIOUS
    <3>2. /\ Marked(d)' = Marked(d) /\ head'[d] = head[d] /\ tail'[d] = Turn(s, 1)
          /\ buff[d][s].status = -1 /\ buff'[d][s].status = 1
          /\ \A x \in Slots : x # s => buff'[d][x] = buff[d][x]
          /\ free_group[d] # <<>> /\ free_group'[d] = Rest(free_group[d])
          /\ Fills(thread'[t], d) /\ thread'[t].slot = s
          /\ thread'[t].page = p0
          /\ \A u \in Threads : u # t => thread'[u] = thread[u]
      BY <2>3, <3>1 DEF Enter, View, PageTaken
    <3>3. s \in Slots
      BY <1>2 DEF ThreadInv, TypeInv
    <3>4. PoolForm(d, free_group'[d]) /\ Ahead(d, p0, free_group'[d])
      BY <2>1, <2>2, <3>2, RestForm
    <3>5. \A u \in Threads : u # t => ~(Fills(thread'[u], d) /\ thread'[u].slot = s)
      BY <1>2, <3>2 DEF ThreadInv, FillForms
    <3>6. \A p \in Nat : PageAt(d, s, p)' => p = p0
      BY <3>2, <3>5 DEF PageAt, Filled
    <3>7. \A x \in Slots : x # s => /\ InUsed(d, x)' => InUsed(d, x)
                                    /\ \A p \in Nat : PageAt(d, x, p)' => PageAt(d, x, p)
      BY <3>2 DEF PageAt, Filled, InUsed
    <3>8. ASSUME NEW x \in Slots, NEW p \in Nat, InUsed(d, x)', PageAt(d, x, p)'
          PROVE  IF Turn(x, 1) = tail'[d] THEN Ahead(d, p, free_group'[d])
                 ELSE \A q \in Nat : PageAt(d, Turn(x, 1), q)' => Follows(d, p, q)
      <4>1. CASE x = s
        BY <3>2, <3>4, <3>6, <3>8, <4>1
      <4>2. CASE x # s
        <5>1. InUsed(d, x) /\ PageAt(d, x, p) /\ Turn(x, 1) # tail'[d] /\ Turn(x, 1) \in Slots
          BY <3>2, <3>3, <3>7, <3>8, <4>2, TurnOne
        <5>2. ASSUME NEW q \in Nat, PageAt(d, Turn(x, 1), q)' PROVE Follows(d, p, q)
          <6>1. CASE Turn(x, 1) = s
            <7>1. q = p0
              BY <3>6, <5>2, <6>1
            <7>2. Ahead(d, p, free_group[d])
              BY <2>1, <5>1, <6>1
            <7> QED BY <3>2, <7>1, <7>2 DEF Ahead
          <6>2. CASE Turn(x, 1) # s
            BY <2>1, <3>7, <5>1, <5>2, <6>2
          <6> QED BY <6>1, <6>2
        <5> QED BY <5>1, <5>2
      <4> QED BY <4>1, <4>2
    <3> QED BY <3>4, <3>8 DEF Claimed
  <2>4. CASE ~PageTaken(d)
    <3>1. PoolKept(d) \/ BlockAdded(d)
      BY <1>2, <2>4, PoolStep
    <3>2. /\ PoolForm(d, free_group'[d])
          /\ \A p : Ahead(d, p, free_group[d]) => Ahead(d, p, free_group'[d])
      BY <1>2, <2>1, <3>1, AppendForm DEF PoolKept
    <3>3. (\E m \in 0 .. total_writeOut : Pass(d, m)) \/ \E t \in Threads : Hand(t, d)
      BY <1>2, <2>4, StepsOn DEF BaseInv, Enter
    <3>4. /\ tail'[d] = tail[d]
          /\ \A x \in Slots : /\ InUsed(d, x)' => InUsed(d, x)
                              /\ \A p \in Nat : PageAt(d, x, p)' => PageAt(d, x, p)
      <4>1. CASE \E m \in 0 .. total_writeOut : Pass(d, m)
        <5>1. /\ tail'[d] = tail[d] /\ \A t \in Threads : FillerKept(t, d)
              /\ \A x \in Slots : /\ InUsed(d, x)' => InUsed(d, x)
                                  /\ Filled(d, x)' => Filled(d, x) /\ Same(d, x)
          BY <4>1 DEF Pass, DropStep
        <5> QED BY <5>1 DEF PageAt, FillerKept, Same
      <4>2. ASSUME NEW t \in Threads, Hand(t, d)
            PROVE  /\ tail'[d] = tail[d]
                   /\ \A x \in Slots : /\ InUsed(d, x)' => InUsed(d, x)
                                       /\ \A p \in Nat : PageAt(d, x, p)' => PageAt(d, x, p)
        <5> DEFINE s == thread[t].slot
        <5>1. /\ Marked(d)' = Marked(d) /\ head'[d] = head[d] /\ tail'[d] = tail[d]
              /\ Fills(thread[t], d) /\ ~Fills(thread'[t], d)
              /\ buff'[d][s].status = 2 /\ buff'[d][s].pageNO = thread[t].page
              /\ \A x \in Slots : x # s => buff'[d][x] = buff[d][x]
              /\ \A u \in Threads : u # t => thread'[u] = thread[u]
          BY <4>2 DEF Hand, View
        <5>2. buff[d][s].status = 1
          BY <1>2, <4>2, HandOrder
        <5>3. \A x \in Slots : InUsed(d, x)' => InUsed(d, x)
          BY <5>1, <5>2 DEF InUsed
        <5>4. ASSUME NEW x \in Slots, NEW p \in Nat, PageAt(d, x, p)' PROVE PageAt(d, x, p)
          <6>1. CASE x = s
            <7>1. CASE buff'[d][x].pageNO = p
              BY <5>1, <6>1, <7>1 DEF PageAt
            <7>2. CASE buff'[d][x].pageNO # p
              BY <5>1, <5>4, <7>2 DEF PageAt
            <7> QED BY <7>1, <7>2
          <6>2. CASE x # s
            BY <5>1, <5>4, <6>2 DEF PageAt, Filled
          <6> QED BY <6>1, <6>2
        <5> QED BY <5>1, <5>3, <5>4
      <4> QED BY <3>3, <4>1, <4>2
    <3>5. \A x \in Slots : \A p \in Nat : InUsed(d, x)' /\ PageAt(d, x, p)' =>
             IF Turn(x, 1) = tail'[d] THEN Ahead(d, p, free_group'[d])
             ELSE \A q \in Nat : PageAt(d, Turn(x, 1), q)' => Follows(d, p, q)
      BY <2>1, <3>2, <3>4, TurnOne
    <3> QED BY <3>2, <3>5 DEF Claimed
  <2> QED BY <2>3, <2>4
<1> QED BY <1>1, <1>2, PoolHeld, ThreadHeld, BaseHeld, PTL DEF ReadSpec
-----------------------------------------------------------------------------
(* The batch of a flush.                                                    *)
SendPcs == MarkPcs \union {"rdma"}

LEMMA StepBy ==
  ASSUME ThreadInv, [ReadNext]_readVars, NEW u \in Threads, thread'[u] # thread[u],
         thread'[u].pc \in SendPcs
  PROVE  FlushStep(u) \/ RdmaWriteFails(u)
<1>1. thread \in [Threads -> ThreadType]
  BY DEF ThreadInv, TypeInv
<1>2. ASSUME NEW t \in Threads, QuietStep(t) PROVE FALSE
  <2>1. PICK r \in ThreadType : r.pc \in IdlePcs /\ thread' = [thread EXCEPT ![t] = r]
    BY <1>2 DEF QuietStep
  <2>2. thread'[u] = r
    BY <1>1, <2>1
  <2> QED BY <2>1, <2>2 DEF SendPcs, MarkPcs, IdlePcs, ReadPcs
<1>3. ~NodeStep /\ ~UNCHANGED vars
  BY DEF NodeStep, vars
<1>4. ASSUME NEW t \in Threads,
             TryLock(t) \/ CheckFull(t) \/ Claim(t) \/ NextNode(t) \/ VoidPreFetch(t) \/ Fill(t)
      PROVE  FALSE
  <2> DEFINE L == {"full", "lock", "claim", "void", "fill", "idle", "try"}
  <2>1. CASE TryLock(t) \/ VoidPreFetch(t)
    <3>1. \E where \in L : thread' = [thread EXCEPT ![t].pc = where]
      BY <2>1 DEF TryLock, VoidPreFetch, Goto
    <3>2. thread'[u].pc \in L
      BY <1>1, <3>1 DEF ThreadType
    <3> QED BY <3>2 DEF SendPcs, MarkPcs
  <2>2. CASE CheckFull(t)
    <3>1. PICK where \in L : thread' = [thread EXCEPT ![t].pc = where, ![t].back = "claim"]
      BY <2>2 DEF CheckFull
    <3>2. thread'[u].pc = where
      BY <1>1, <3>1 DEF ThreadType
    <3> QED BY <3>1, <3>2 DEF SendPcs, MarkPcs
  <2>3. CASE Claim(t)
    <3>1. thread'[u].pc = "void"
      BY <1>1, <2>3 DEF Claim, ThreadType
    <3> QED BY <3>1 DEF SendPcs, MarkPcs
  <2>4. CASE NextNode(t)
    <3> DEFINE r == IF thread[t].i + 1 < nMemNodes
                    THEN [thread[t] EXCEPT !.pc = "try", !.dest = COMEX_hash(thread[t].dest, COMEX_ID),
                                           !.i = thread[t].i + 1]
                    ELSE IdleThread
    <3>1. thread' = [thread EXCEPT ![t] = r]
      BY <1>1, <2>4 DEF NextNode
    <3>2. r.pc \in L
      BY <1>1 DEF IdleThread, ThreadType
    <3> HIDE DEF r
    <3>3. thread'[u].pc \in L
      BY <1>1, <3>1, <3>2
    <3> QED BY <3>3 DEF SendPcs, MarkPcs
  <2>5. CASE Fill(t)
    <3>1. thread'[u] # thread[u] /\ u = t
      BY <1>1, <2>5 DEF Fill
    <3> DEFINE s == thread[t].slot
               r == IF s % FLUSH = 0 /\ s # 0 THEN [IdleThread EXCEPT !.pc = "lock", !.dest = thread[t].dest]
                    ELSE IdleThread
    <3>2. thread' = [thread EXCEPT ![t] = r]
      BY <2>5 DEF Fill
    <3>3. r.pc \in L
      BY DEF IdleThread
    <3> HIDE DEF r
    <3>4. thread'[u].pc \in L
      BY <1>1, <3>1, <3>2, <3>3
    <3> QED BY <3>4 DEF SendPcs, MarkPcs
  <2> QED BY <1>4, <2>1, <2>2, <2>3, <2>4, <2>5
<1>5. \A t \in Threads : t # u => ~FlushStep(t) /\ ~RdmaWriteFails(t)
  <2>1. ASSUME NEW t \in Threads, t # u, FlushStep(t) \/ RdmaWriteFails(t) PROVE FALSE
    BY <1>1, <2>1 DEF FlushStep, FlushLock, FlushWhile, FlushCompare, FlushCheck, FlushPost, RdmaWrite,
       RdmaWriteFails, FreeBuff, FlushUnlock, Goto
  <2> QED BY <2>1
<1> QED BY <1>2, <1>3, <1>4, <1>5, StepsSorted DEF StepKinds

(* A flush sees the pages of its batch as they are.                          *)
LEMMA PagesStay ==
  ASSUME PoolInv, ThreadInv, [ReadNext]_readVars, NEW u \in Threads, thread'[u] = thread[u],
         thread[u].pc \in SendPcs, NEW d \in Nodes, d = thread[u].dest
  PROVE  /\ head'[d] = head[d]
         /\ \A s \in Slots : buff[d][s].pageNO >= 0 => buff'[d][s].pageNO = buff[d][s].pageNO
<1>1. CASE Still(d)
  BY <1>1 DEF Still
<1>2. ASSUME NEW t \in Threads, AtNode(t, d)
      PROVE  /\ head'[d] = head[d]
             /\ \A s \in Slots : buff[d][s].pageNO >= 0 => buff'[d][s].pageNO = buff[d][s].pageNO
  <2>1. thread[t].dest = d
    BY <1>2 DEF AtNode
  <2>2. pos_mutex[d] = u
    BY DEF ThreadInv, Locks, Flushes, FlushPcs, SendPcs
  <2>3. CASE Join(t) \/ FlushPost(t) \/ RdmaWrite(t) \/ RdmaWriteFails(t) \/ FreeBuff(t)
    <3>1. (PostAt(t, d) \/ JoinAt(t, d) \/ BatchAt(t, d)) /\ Flushes(thread[t], d)
      BY <2>1, <2>3, FlushAt
    <3>2. t = u
      BY <2>2, <3>1 DEF ThreadInv, Locks
    <3> QED BY <3>1, <3>2 DEF PostAt, JoinAt, BatchAt, SendPcs, MarkPcs
  <2>4. CASE Claim(t)
    <3>1. Enter(t, d) /\ tail[d] \in Slots
      BY <2>1, <2>4, EnterAt DEF ThreadInv, TypeInv
    <3>2. buff[d][tail[d]].pageNO = -1
      BY <3>1 DEF Enter, ThreadInv, SlotForms, SlotForm
    <3> QED BY <3>1, <3>2 DEF Enter
  <2>5. CASE Fill(t)
    <3>1. Hand(t, d)
      BY <2>1, <2>5, HandAt
    <3>2. thread[t].slot \in Slots /\ buff[d][thread[t].slot].status = 1
      BY <3>1, HandOrder
    <3>3. buff[d][thread[t].slot].pageNO = -1
      BY <3>2 DEF ThreadInv, SlotForms, SlotForm
    <3> PICK y : y = thread[t].slot
      OBVIOUS
    <3>4. buff[d][y].pageNO = -1 /\ \A s \in Slots : s # y => buff'[d][s] = buff[d][s]
      BY <3>1, <3>3 DEF Hand
    <3>5. head'[d] = head[d]
      BY <3>1 DEF Hand
    <3> QED BY <3>4, <3>5
  <2> QED BY <1>2, <2>3, <2>4, <2>5 DEF AtNode
<1> QED BY <1>1, <1>2, StepsAt
LEMMA SeamlessFollows ==
  ASSUME Seamless, NEW d \in Nodes, NEW p, NEW q, Follows(d, p, q), Adjoins(p, q)
  PROVE  q = p + 1
BY DEF Seamless, Follows, Adjoins, Starts, Ends

(* The slot that joins a batch holds the page after the last one's.          *)
LEMMA JoinFollows ==
  ASSUME Seamless, ThreadInv, RingInv, ClaimInv, NEW u \in Threads, NEW d \in Nodes,
         d = thread[u].dest, thread[u].pc = "while", thread[u].count >= 1,
         buff[d][Here(u)].status = 2,
         Adjoins(buff[d][Here(u) - 1].pageNO, buff[d][Here(u)].pageNO)
  PROVE  buff[d][Here(u)].pageNO = buff[d][Here(u) - 1].pageNO + 1
<1> DEFINE c == thread[u].count  h == head[d]  y == Here(u) - 1  z == Here(u)
<1>1. /\ h \in Slots /\ c \in Nat /\ z = h + c /\ tail[d] \in Slots
      /\ total_writeOut \in Nat \ {0}
  BY WriteOutConstants DEF ThreadInv, TypeInv, ThreadType, Here
<1>2. /\ h + c < total_writeOut
      /\ \A s \in Slots : h <= s /\ s < h + c => buff[d][s].status = 3
  BY DEF ThreadInv, FlushForms, FlushForm, MarkPcs
<1>3. Marked(d) = c
  BY MyView DEF Flushes, FlushPcs, MarkPcs
<1>0. z = h + c /\ y = z - 1
  BY <1>1
<1> HIDE DEF c, h, y, z
<1>4. y \in Slots /\ z \in Slots /\ y + 1 = z /\ h <= y /\ y < h + c
  <2>1. c >= 1
    BY DEF c
  <2>2. c \in Int /\ h \in Int /\ h >= 0 /\ h + c < total_writeOut /\ total_writeOut \in Int
    BY <1>1, <1>2 DEF Slots
  <2>3. z \in Int /\ z - 1 \in 0 .. total_writeOut - 1 /\ z \in 0 .. total_writeOut - 1
        /\ (z - 1) + 1 = z /\ h <= z - 1 /\ z - 1 < h + c
    BY <1>0, <2>1, <2>2
  <2> QED BY <1>0, <2>3 DEF Slots
<1>5. InUsed(d, y) /\ InUsed(d, z) /\ buff[d][y].status = 3 /\ buff[d][z].status = 2
  BY <1>2, <1>3, <1>4 DEF InUsed, z, h
<1>6. Turn(y, 1) = z
  BY <1>1, <1>4 DEF Turn, Slots
<1>7. z # tail[d]
  <2>1. PICK n \in 0 .. total_writeOut :
          tail[d] = Turn(h, n) /\ \A s \in Slots : InUsed(d, s) <=> Dist(h, s) < n
    BY DEF RingInv, Ring, h
  <2>2. Dist(h, z) < n /\ Dist(h, z) = c
    BY <1>1, <1>4, <1>5, <2>1 DEF Dist, Slots
  <2>3. c >= 1
    BY DEF c
  <2> QED BY <1>1, <1>2, <2>1, <2>2, <2>3 DEF Turn, Slots
<1>8. /\ PageAt(d, y, buff[d][y].pageNO) /\ buff[d][y].pageNO \in Nat
      /\ PageAt(d, z, buff[d][z].pageNO) /\ buff[d][z].pageNO \in Nat
  BY <1>4, <1>5 DEF PageAt, Filled, ThreadInv, SlotForms, SlotForm
<1>9. Follows(d, buff[d][y].pageNO, buff[d][z].pageNO)
  BY <1>4, <1>5, <1>6, <1>7, <1>8 DEF ClaimInv, Claimed
<1> QED BY <1>9, SeamlessFollows DEF y, z

LEMMA StraightFlush ==
  ASSUME Seamless, ThreadInv, RingInv, ClaimInv, NEW u \in Threads, NEW d \in Nodes,
         d = thread[u].dest, Straight(thread[u], head[d], buff[d]),
         FlushStep(u) \/ RdmaWriteFails(u), thread'[u].pc \in SendPcs
  PROVE  thread'[u].dest = d /\ Straight(thread'[u], head'[d], buff'[d])
<1> PICK h, c : h = head[d] /\ c = thread[u].count
  OBVIOUS
<1> DEFINE x == thread[u]  y == thread'[u]  P(s) == buff[d][s].pageNO
<1>1. /\ thread \in [Threads -> ThreadType] /\ x \in ThreadType /\ h \in Slots /\ c \in Nat
      /\ head \in [Nodes -> Slots] /\ buff \in [Nodes -> [Slots -> SlotType]]
      /\ x.gap \in BOOLEAN /\ x.late \in BOOLEAN /\ total_writeOut \in Nat \ {0}
  BY WriteOutConstants DEF ThreadInv, TypeInv, ThreadType
<1>0. h \in Int /\ c \in Int /\ c >= 0
  BY <1>1 DEF Slots
<1>2. FlushForm(x, h, buff[d])
  BY DEF ThreadInv, FlushForms
<1>3. /\ x.pc \in MarkPcs /\ ~x.late => \A k \in 0 .. c - 1 : P(h + k) = P(h) + k
      /\ x.pc \in {"check", "while"} /\ c >= 1 /\ ~x.gap => Adjoins(P(h + c - 1), P(h + c))
  BY DEF Straight
<1>4. CASE FlushLock(u)
  <2>1. y.pc = "while" /\ y.count = 0 /\ y.dest = d
    BY <1>1, <1>4 DEF FlushLock, ThreadType
  <2> QED BY <2>1 DEF Straight
<1>5. CASE Join(u)
  <2> DEFINE z == Here(u)  where == IF z + 1 >= total_writeOut THEN "post" ELSE "compare"
  <2>1. /\ x.pc = "while" /\ buff[d][z].status = 2 /\ UNCHANGED head
        /\ buff' = [buff EXCEPT ![d][z].status = 3]
        /\ thread' = [thread EXCEPT ![u].count = @ + 1, ![u].late = @ \/ thread[u].gap,
                                    ![u].pc = where]
    BY <1>5 DEF Join, FlushWhile, Here
  <2>2. /\ y.pc = where /\ y.count = c + 1 /\ y.dest = d
        /\ ~y.late => ~x.late /\ ~x.gap
    BY <1>1, <2>1 DEF ThreadType
  <2>3. z = h + c /\ h + c < total_writeOut
    BY <1>2, <2>1 DEF Here, FlushForm, MarkPcs
  <2>4. \A s \in Slots : buff'[d][s].pageNO = P(s)
    BY <1>1, <2>1 DEF SlotType
  <2>5. ASSUME ~x.late, ~x.gap, c >= 1 PROVE P(h + c) = P(h) + c
    <3>1. Adjoins(P(z - 1), P(z))
      <4>1. h + c - 1 = z - 1 /\ h + c = z
        BY <1>0, <2>3
      <4>2. x.pc \in {"check", "while"}
        BY <2>1
      <4> HIDE DEF z
      <4> QED BY <1>3, <2>5, <4>1, <4>2
    <3>2. P(z) = P(z - 1) + 1
      BY <2>1, <2>5, <3>1, JoinFollows
    <3>3. P(h + (c - 1)) = P(h) + (c - 1)
      <4>1. c - 1 \in 0 .. c - 1
        BY <1>0, <2>5
      <4>2. \A k \in 0 .. c - 1 : P(h + k) = P(h) + k
        BY <1>3, <2>1, <2>5 DEF MarkPcs
      <4> QED BY <4>1, <4>2
    <3>4. h + (c - 1) = z - 1 /\ P(h) \in Int
      <4>1. P(h) \in Int
        BY <1>1 DEF SlotType
      <4> QED BY <1>1, <2>3, <4>1 DEF Slots
    <3> QED BY <1>1, <2>3, <3>2, <3>3, <3>4
  <2>6. ASSUME ~y.late, NEW k \in 0 .. c PROVE P(h + k) = P(h) + k
    <3>1. CASE k = c /\ c >= 1
      BY <2>2, <2>5, <2>6, <3>1
    <3>2. CASE k = 0
      <4>1. P(h) \in Int /\ h + 0 = h
        BY <1>1, SMTT(30) DEF SlotType, Slots
      <4> QED BY <3>2, <4>1
    <3>3. CASE k \in 0 .. c - 1
      BY <1>3, <2>1, <2>2, <2>6, <3>3 DEF MarkPcs
    <3>4. (k = c /\ c >= 1) \/ k = 0 \/ k \in 0 .. c - 1
      BY <1>0
    <3> QED BY <3>1, <3>2, <3>3, <3>4
  <2>7. ASSUME ~y.late, NEW k \in 0 .. y.count - 1
        PROVE  buff'[d][h + k].pageNO = buff'[d][h].pageNO + k
    <3>1. k \in 0 .. c
      BY <1>1, <2>2
    <3>2. h + k \in Slots
      BY <1>1, <2>3, <3>1 DEF Slots
    <3> QED BY <1>1, <2>4, <2>6, <2>7, <3>1, <3>2
  <2>8. y.pc \in {"post", "compare"} /\ head'[d] = h
    BY <2>1, <2>2
  <2> QED BY <2>2, <2>7, <2>8 DEF Straight
<1>6. CASE FlushWhile(u) /\ ~Join(u)
  <2>1. /\ x.pc = "while" /\ UNCHANGED <<head, buff>>
        /\ thread' = [thread EXCEPT ![u].pc = IF thread[u].count = 0 THEN "unlock" ELSE "post"]
    BY <1>6 DEF FlushWhile, Join, Here
  <2>2. y = [x EXCEPT !.pc = IF c = 0 THEN "unlock" ELSE "post"]
    BY <1>1, <2>1
  <2>3. y.pc \in {"unlock", "post"} /\ y.count = c /\ y.late = x.late /\ y.dest = d
    BY <1>1, <2>2 DEF ThreadType
  <2> QED BY <1>3, <2>1, <2>3 DEF Straight, MarkPcs
<1>7. CASE FlushCompare(u)
  <2> DEFINE e == thread[u].dest  at == head[e] + thread[u].count
  <2>1. PICK g \in BOOLEAN :
          /\ thread' = [thread EXCEPT ![u].pc = "check", ![u].gap = g]
          /\ g <=> CMod(buff[e][at].pageNO) - 1 # CMod(buff[e][at - 1].pageNO)
    BY <1>7 DEF FlushCompare
  <2>2. x.pc = "compare" /\ UNCHANGED <<head, buff>> /\ e = d /\ at = h + c
    BY <1>7 DEF FlushCompare, ring
  <2>3. y.pc = "check" /\ y.count = c /\ y.late = x.late /\ y.gap = g /\ y.dest = d
    BY <1>1, <2>1 DEF ThreadType
  <2>4. ASSUME ~g PROVE Adjoins(P(h + c - 1), P(h + c))
    <3>1. /\ c >= 1 /\ h + c < total_writeOut
          /\ \A s \in Slots : h <= s /\ s < h + c => buff[d][s].status = 3
      BY <1>2, <2>2 DEF FlushForm, MarkPcs
    <3> DEFINE v == h + c - 1  z == h + c
    <3>2. v \in Slots /\ z \in Slots /\ h <= v /\ v < h + c
      BY <1>1, <3>1, SMTT(30) DEF Slots
    <3> HIDE DEF v, z
    <3>3. P(v) \in Nat /\ P(z) \in Int
      BY <1>1, <3>1, <3>2 DEF ThreadInv, SlotForms, SlotForm, SlotType
    <3> PICK a, b : a = P(v) /\ b = P(z)
      OBVIOUS
    <3>4. CMod(b) - 1 = CMod(a)
      <4>1. CMod(buff[e][at].pageNO) - 1 = CMod(buff[e][at - 1].pageNO)
        BY <2>1, <2>4
      <4>2. b = P(z) /\ a = P(v) /\ e = d /\ at = z
        BY <2>2 DEF z
      <4> HIDE DEF at, e
      <4>3. at - 1 = v
        BY <1>0, <4>2 DEF v, z
      <4> QED BY <4>1, <4>2, <4>3
    <3>5. a \in Nat /\ b \in Int
      BY <3>3
    <3>6. a % CHUNK \in Nat /\ b % CHUNK \in Nat
      BY <3>5, WriteOutConstants
    <3>7. CMod(a) = a % CHUNK /\ CMod(b) = IF b < 0 THEN -1 ELSE b % CHUNK
      BY <3>5 DEF CMod
    <3>8. b >= 0 /\ (b % CHUNK) = (a % CHUNK) + 1
      BY <3>4, <3>5, <3>6, <3>7
    <3>9. Adjoins(a, b)
      BY <3>8 DEF Adjoins
    <3> QED BY <3>9 DEF v, z
  <2> QED BY <1>3, <2>2, <2>3, <2>4 DEF Straight, MarkPcs
<1>8. CASE FlushCheck(u)
  <2>1. x.pc = "check" /\ UNCHANGED <<head, buff>>
        /\ \E where \in {"post", "while"} : Goto(u, where)
    BY <1>8 DEF FlushCheck, ring
  <2>2. /\ y.pc \in {"post", "while"} /\ y.count = c /\ y.late = x.late /\ y.gap = x.gap /\ y.dest = d
    BY <1>1, <2>1 DEF ThreadType, Goto
  <2> QED BY <1>3, <2>1, <2>2 DEF Straight, MarkPcs
<1>9. CASE FlushPost(u)
  <2>1. /\ x.pc = "post" /\ UNCHANGED buff /\ y.first = h /\ y.count = c /\ y.late = x.late
        /\ y.pc \in {"rdma", "unlock"} /\ y.dest = d
    BY <1>1, <1>9 DEF FlushPost, ThreadType
  <2> QED BY <1>3, <2>1 DEF Straight, MarkPcs
<1>10. CASE RdmaWrite(u) \/ RdmaWriteFails(u) \/ FreeBuff(u) \/ FlushUnlock(u)
  <2>1. CASE RdmaWrite(u) \/ RdmaWriteFails(u) \/ FreeBuff(u)
    <3>1. \E where \in {"free", "unlock"} : Goto(u, where)
      BY <2>1 DEF RdmaWrite, RdmaWriteFails, FreeBuff
    <3>2. y.pc \in {"free", "unlock"}
      BY <1>1, <3>1 DEF Goto, ThreadType
    <3> QED BY <3>2 DEF SendPcs, MarkPcs
  <2>2. CASE FlushUnlock(u)
    <3> DEFINE r == IF x.back = "claim" THEN [IdleThread EXCEPT !.pc = "claim", !.dest = d, !.i = x.i]
                    ELSE IdleThread
    <3>1. thread' = [thread EXCEPT ![u] = r]
      BY <1>1, <2>2 DEF FlushUnlock
    <3>2. r.pc \in {"claim", "idle"}
      BY DEF IdleThread
    <3> HIDE DEF r
    <3>3. y.pc \in {"claim", "idle"}
      BY <1>1, <3>1, <3>2
    <3> QED BY <3>3 DEF SendPcs, MarkPcs
  <2> QED BY <1>10, <2>1, <2>2
<1> QED BY <1>4, <1>5, <1>6, <1>7, <1>8, <1>9, <1>10 DEF FlushStep

LEMMA StraightHeld == ASSUME Seamless PROVE ReadSpec => []StraightInv
<1>1. ReadInit => StraightInv
  BY DEF ReadInit, Init, IdleThread, StraightInv, Straight, MarkPcs
<1>2. ASSUME PoolInv, ThreadInv, ThreadInv', RingInv, ClaimInv, StraightInv, [ReadNext]_readVars
      PROVE  StraightInv'
  <2> SUFFICES ASSUME NEW u \in Threads
               PROVE  Straight(thread'[u], head'[thread'[u].dest], buff'[thread'[u].dest])
    BY DEF StraightInv
  <2> DEFINE d == thread[u].dest
  <2>1. Straight(thread[u], head[d], buff[d])
    BY <1>2 DEF StraightInv
  <2>2. d \in Nodes /\ head[d] \in Slots /\ buff \in [Nodes -> [Slots -> SlotType]]
        /\ thread[u] \in ThreadType
    BY <1>2 DEF ThreadInv, TypeInv, ThreadType
  <2>3. CASE thread'[u].pc \notin SendPcs
    BY <2>3 DEF Straight, SendPcs, MarkPcs
  <2>4. CASE thread'[u].pc \in SendPcs /\ thread'[u] # thread[u]
    BY <1>2, <2>1, <2>2, <2>4, StepBy, StraightFlush
  <2>5. CASE thread'[u].pc \in SendPcs /\ thread'[u] = thread[u]
    <3> DEFINE r == thread[u]  h == head[d]
    <3>1. /\ head'[d] = h
          /\ \A s \in Slots : buff[d][s].pageNO >= 0 => buff'[d][s].pageNO = buff[d][s].pageNO
      BY <1>2, <2>2, <2>5, PagesStay
    <3>2. FlushForm(r, h, buff[d]) /\ r.count \in Nat /\ r.first \in Slots
      BY <1>2, <2>2 DEF ThreadInv, FlushForms, ThreadType
    <3>3. \A s \in Slots : buff[d][s].status = 3 => buff[d][s].pageNO \in Nat
      BY <1>2, <2>2 DEF ThreadInv, SlotForms, SlotForm
    <3> HIDE DEF r, h, d
    <3>4. ASSUME NEW f \in Slots, NEW k \in 0 .. r.count - 1, f + r.count <= total_writeOut,
                 \A s \in Slots : f <= s /\ s < f + r.count => buff[d][s].status = 3,
                 buff[d][f + k].pageNO = buff[d][f].pageNO + k
          PROVE  buff'[d][f + k].pageNO = buff'[d][f].pageNO + k
      <4>1. f + k \in Slots /\ f <= f + k /\ f + k < f + r.count /\ f < f + r.count
        BY <3>2, <3>4, WriteOutConstants DEF Slots
      <4>2. f <= f
        BY DEF Slots
      <4>3. buff[d][f + k].status = 3 /\ buff[d][f].status = 3
        BY <3>4, <4>1, <4>2
      <4>4. buff[d][f + k].pageNO \in Nat /\ buff[d][f].pageNO \in Nat
        BY <3>3, <4>1, <4>3
      <4> QED BY <3>1, <3>4, <4>1, <4>4
    <3>5. /\ r.pc \in MarkPcs => h + r.count <= total_writeOut
          /\ r.pc \in MarkPcs => \A s \in Slots : h <= s /\ s < h + r.count => buff[d][s].status = 3
          /\ r.pc \in {"check", "while"} => h + r.count < total_writeOut
          /\ r.pc = "rdma" => r.first + r.count <= total_writeOut
          /\ r.pc = "rdma" => \A s \in Slots : r.first <= s /\ s < r.first + r.count => buff[d][s].status = 3
      BY <3>2 DEF FlushForm, MarkPcs
    <3>6. h \in Slots
      BY <2>2 DEF h
    <3>7. r.pc \in MarkPcs /\ ~r.late =>
            \A k \in 0 .. r.count - 1 : buff'[d][h + k].pageNO = buff'[d][h].pageNO + k
      BY <2>1, <3>4, <3>5, <3>6 DEF Straight, r, h
    <3>8. r.pc = "rdma" /\ ~r.late =>
            \A k \in 0 .. r.count - 1 : buff'[d][r.first + k].pageNO = buff'[d][r.first].pageNO + k
      BY <2>1, <3>2, <3>4, <3>5 DEF Straight, r
    <3>9. ASSUME r.pc \in {"check", "while"}, r.count >= 1, ~r.gap
          PROVE  Adjoins(buff'[d][h + r.count - 1].pageNO, buff'[d][h + r.count].pageNO)
      <4>1. Adjoins(buff[d][h + r.count - 1].pageNO, buff[d][h + r.count].pageNO)
        BY <2>1, <3>9 DEF Straight, r, h
      <4> DEFINE v == h + r.count - 1  z == h + r.count
      <4>2. v \in Slots /\ z \in Slots /\ h <= v /\ v < h + r.count
        BY <3>2, <3>5, <3>6, <3>9, WriteOutConstants DEF Slots
      <4>3. buff[d][v].pageNO \in Nat
        BY <3>3, <3>5, <3>9, <4>2 DEF MarkPcs
      <4>4. buff'[d][v].pageNO = buff[d][v].pageNO
        BY <3>1, <4>2, <4>3
      <4>5. buff'[d][z].pageNO = buff[d][z].pageNO
        BY <3>1, <4>1, <4>2 DEF Adjoins
      <4> QED BY <4>1, <4>4, <4>5
    <3>10. thread'[u] = r /\ thread'[u].dest = d /\ head'[d] = h
      BY <2>5, <3>1 DEF r, d
    <3> QED BY <3>7, <3>8, <3>9, <3>10 DEF Straight
  <2> QED BY <2>3, <2>4, <2>5
<1> QED BY <1>1, <1>2, PoolHeld, ThreadHeld, RingHeld, ClaimedHeld, PTL DEF ReadSpec
-----------------------------------------------------------------------------
(* What the nodes hold.                                                     *)
RemoteInv == remote = [d \in Nodes |-> remote[d]]

LEMMA RemoteHeld == ReadSpec => []RemoteInv
<1>1. ReadInit => RemoteInv
  BY DEF ReadInit, Init, RemoteInv
<1>2. ASSUME ThreadInv, RemoteInv, [ReadNext]_readVars PROVE RemoteInv'
  <2>1. CASE UNCHANGED remote
    BY <1>2, <2>1 DEF RemoteInv
  <2>2. ASSUME NEW t \in Threads, RdmaWrite(t) PROVE RemoteInv'
    <3>1. PICK y : remote' = [remote EXCEPT ![thread[t].dest] = y]
      BY <2>2 DEF RdmaWrite
    <3> QED BY <1>2, <3>1 DEF RemoteInv
  <2>3. CASE (\E t \in Threads : QuietStep(t)) \/ NodeStep \/ UNCHANGED vars
    <3>1. UNCHANGED remote
      BY <2>3 DEF QuietStep, NodeStep, vars, peers
    <3> QED BY <2>1, <3>1
  <2>4. ASSUME NEW t \in Threads,
               \/ TryLock(t) \/ CheckFull(t) \/ Claim(t) \/ NextNode(t) \/ VoidPreFetch(t) \/ Fill(t)
               \/ FlushStep(t) \/ RdmaWriteFails(t), ~RdmaWrite(t)
        PROVE  UNCHANGED remote
    <3>1. CASE TryLock(t) \/ CheckFull(t) \/ Claim(t) \/ NextNode(t) \/ VoidPreFetch(t) \/ Fill(t)
      BY <3>1, Zenon DEF TryLock, CheckFull, Claim, NextNode, VoidPreFetch, Fill, peers
    <3>2. CASE FlushStep(t) \/ RdmaWriteFails(t)
      BY <2>4, <3>2, Zenon DEF FlushStep, FlushLock, FlushWhile, FlushCompare, FlushCheck, FlushPost,
         RdmaWriteFails, FreeBuff, FlushUnlock, peers
    <3> QED BY <2>4, <3>1, <3>2
  <2> QED BY <1>2, <2>1, <2>2, <2>3, <2>4, StepsSorted DEF StepKinds
<1> QED BY <1>1, <1>2, ThreadHeld, PTL DEF ReadSpec

(* A batch arrives at the pages it is for; what it covers was older, or was  *)
(* spoilt by a late slot.                                                   *)
LEMMA RdmaLands ==
  ASSUME ThreadInv, StraightInv, RemoteInv, NEW t \in Threads, RdmaWrite(t),
         NEW d \in Nodes, d = thread[t].dest
  PROVE  /\ Flushes(thread[t], d) /\ Base(d) = thread[t].first /\ Out(d) = thread[t].count
         /\ buff' = buff /\ moved'[d] \subseteq moved[d]
         /\ \A s \in Slots : Dist(Base(d), s) < Out(d) /\ buff[d][s].data \in moved'[d]
              => There(d, buff[d][s].data)'
         /\ \A c \in moved'[d] : There(d, c) =>
              \/ There(d, c)'
              \/ \E s \in Slots : Dist(Base(d), s) < Out(d) /\ buff[d][s].pageNO = c[1]
<1>1. /\ thread[t].pc = "rdma" /\ buff' = buff /\ thread[t].dest = d
      /\ moved \in [Nodes -> SUBSET (Nat \X Nat)] /\ buff \in [Nodes -> [Slots -> SlotType]]
      /\ thread[t].first \in Slots /\ thread[t].count \in Nat /\ total_writeOut \in Nat \ {0}
  BY WriteOutConstants DEF RdmaWrite, ring, ThreadInv, TypeInv, ThreadType
<1> PICK f, n, from, lt : f = thread[t].first /\ n = thread[t].count /\ from = buff[d][f].pageNO
                          /\ lt = thread[t].late
  OBVIOUS
<1> DEFINE to == from + n - 1
           landed(q) == buff[d][f + q - from].data
<1>3. /\ \A q \in from .. to : q \in DOMAIN remote'[d] /\ remote'[d][q] = landed(q)
      /\ \A q \in DOMAIN remote[d] :
           q \notin from .. to => q \in DOMAIN remote'[d] /\ remote'[d][q] = remote[d][q]
      /\ moved'[d] \subseteq moved[d]
      /\ lt => \A c \in moved'[d] :
           /\ c[1] \in from .. to => landed(c[1]) = c
           /\ \A q \in from .. to : c = landed(q) => c[1] \in from .. to
  <2> DEFINE e == thread[t].dest
             from0 == buff[e][thread[t].first].pageNO
             to0   == from0 + thread[t].count - 1
             landed0(q) == buff[e][thread[t].first + q - from0].data
             batch == {landed0(q) : q \in from0 .. to0}
             spoilt(c) == (c[1] \in from0 .. to0 /\ landed0(c[1]) # c) \/ (c \in batch /\ c[1] \notin from0 .. to0)
  <2>1. remote' = [remote EXCEPT ![e] =
           [q \in DOMAIN @ \union (from0 .. to0) |-> IF q \in from0 .. to0 THEN landed0(q) ELSE @[q]]]
    BY Zenon DEF RdmaWrite
  <2>2. moved' = [moved EXCEPT ![e] = IF thread[t].late THEN {c \in @ : ~spoilt(c)} ELSE @]
    BY Zenon DEF RdmaWrite
  <2>3. remote'[e] = [q \in DOMAIN remote[e] \union (from0 .. to0) |->
                        IF q \in from0 .. to0 THEN landed0(q) ELSE remote[e][q]]
    BY <1>1, <2>1, Zenon DEF RemoteInv
  <2>4. moved'[e] = IF thread[t].late THEN {c \in moved[e] : ~spoilt(c)} ELSE moved[e]
    BY <1>1, <2>2, Zenon
  <2>5. \A c : spoilt(c) <=> \/ c[1] \in from0 .. to0 /\ landed0(c[1]) # c
                             \/ (\E q \in from0 .. to0 : c = landed0(q)) /\ c[1] \notin from0 .. to0
    BY Zenon
  <2> HIDE DEF to0, landed0, batch, spoilt
  <2>6. /\ \A q \in from0 .. to0 : q \in DOMAIN remote'[e] /\ remote'[e][q] = landed0(q)
        /\ \A q \in DOMAIN remote[e] :
             q \notin from0 .. to0 => q \in DOMAIN remote'[e] /\ remote'[e][q] = remote[e][q]
    BY <2>3, Zenon
  <2>7. /\ moved'[e] \subseteq moved[e]
        /\ thread[t].late => \A c \in moved'[e] :
             /\ c[1] \in from0 .. to0 => landed0(c[1]) = c
             /\ \A q \in from0 .. to0 : c = landed0(q) => c[1] \in from0 .. to0
    BY <2>4, <2>5
  <2>8. e = d
    BY <1>1
  <2>9. thread[t].first = f /\ thread[t].count = n /\ from0 = from /\ thread[t].late = lt
    BY <2>8
  <2>10. moved'[d] \subseteq moved[d]
    BY <2>7, <2>8
  <2>11. from0 .. to0 = from .. to /\ \A q : landed0(q) = landed(q)
    BY <2>8, <2>9 DEF to0, landed0
  <2> HIDE DEF e, from0, to, landed
  <2>12. /\ \A q \in from .. to : q \in DOMAIN remote'[d] /\ remote'[d][q] = landed(q)
         /\ \A q \in DOMAIN remote[d] :
              q \notin from .. to => q \in DOMAIN remote'[d] /\ remote'[d][q] = remote[d][q]
    BY <2>6, <2>8, <2>11
  <2>13. lt => \A c \in moved'[d] :
             /\ c[1] \in from .. to => landed(c[1]) = c
             /\ \A q \in from .. to : c = landed(q) => c[1] \in from .. to
    BY <2>7, <2>8, <2>9, <2>11
  <2> QED BY <2>10, <2>12, <2>13
<1>4. /\ f + n <= total_writeOut /\ n >= 1
      /\ \A s \in Slots : f <= s /\ s < f + n => buff[d][s].status = 3
  BY <1>1 DEF ThreadInv, FlushForms, FlushForm
<1>5. Flushes(thread[t], d)
  BY <1>1 DEF Flushes, FlushPcs
<1>6. Base(d) = f /\ Out(d) = n
  BY <1>1, <1>5, MyView
<1>7. \A s \in Slots : Dist(f, s) < n <=> (f <= s /\ s < f + n)
  BY <1>1, <1>4, UpFrom
<1>8. \A s \in Slots : f <= s /\ s < f + n =>
        buff[d][s].pageNO \in Nat /\ buff[d][s].data[1] = buff[d][s].pageNO
  BY <1>4 DEF ThreadInv, SlotForms, SlotForm
<1>9. f \in Nat /\ f \in Int /\ n \in Int /\ total_writeOut \in Int /\ Slots \subseteq Int
  BY <1>1 DEF Slots
<1>10. f >= 0 /\ from \in Int
  <2>1. f <= f /\ f < f + n /\ f >= 0
    BY <1>1, <1>4, <1>9
  <2> QED BY <1>1, <1>8, <2>1
<1>11. ~lt => \A k \in 0 .. n - 1 : buff[d][f + k].pageNO = from + k
  BY <1>1 DEF StraightInv, Straight
<1> HIDE DEF to
<1>13. ASSUME NEW s \in Slots, f <= s, s < f + n, buff[d][s].data \in moved'[d]
       PROVE  There(d, buff[d][s].data)'
  <2> PICK k, q, c : k = s - f /\ q = from + k /\ c = buff[d][s].data
    OBVIOUS
  <2>1. k \in 0 .. n - 1 /\ q \in from .. to /\ f + q - from = s /\ f + k = s
    <3>1. f \in Int /\ n \in Int /\ from \in Int /\ s \in Int /\ f <= s /\ s < f + n
      BY <1>9, <1>10, <1>13
    <3>2. /\ s - f \in 0 .. n - 1 /\ from + (s - f) \in from .. from + n - 1
          /\ f + (from + (s - f)) - from = s /\ f + (s - f) = s
      BY <3>1
    <3> QED BY <3>2 DEF to
  <2>2. landed(q) = c
    BY <2>1, Zenon
  <2>3. c[1] \in from .. to /\ landed(c[1]) = c
    <3>1. CASE ~lt
      <4>1. c[1] = buff[d][s].pageNO
        BY <1>8, <1>13
      <4>2. buff[d][f + k].pageNO = from + k
        BY <1>11, <2>1, <3>1
      <4>3. c[1] = q
        BY <2>1, <4>1, <4>2
      <4> QED BY <2>1, <2>2, <4>3, Zenon
    <3>2. CASE lt
      <4> HIDE DEF landed
      <4>1. c \in moved'[d]
        BY <1>13
      <4>2. \A r \in from .. to : c = landed(r) => c[1] \in from .. to
        BY <1>3, <3>2, <4>1
      <4>3. c[1] \in from .. to
        BY <2>1, <2>2, <4>2, Zenon
      <4>4. landed(c[1]) = c
        BY <1>3, <3>2, <4>1, <4>3, Zenon
      <4> QED BY <4>3, <4>4
    <3> QED BY <3>1, <3>2, Zenon
  <2>4. c[1] \in DOMAIN remote'[d] /\ remote'[d][c[1]] = c
    BY <1>3, <2>3
  <2> QED BY <1>1, <2>4 DEF There
<1>14. ASSUME NEW c \in moved'[d], There(d, c)
       PROVE  \/ There(d, c)'
              \/ \E s \in Slots : Dist(f, s) < n /\ buff[d][s].pageNO = c[1]
  <2>1. CASE c[1] \notin from .. to
    BY <1>3, <1>14, <2>1, Zenon DEF There
  <2>2. CASE c[1] \in from .. to /\ lt
    <3> HIDE DEF landed
    <3>1. landed(c[1]) = c
      BY <1>3, <1>14, <2>2
    <3> QED BY <1>3, <2>2, <3>1 DEF There
  <2>3. CASE c[1] \in from .. to /\ ~lt
    <3> PICK k, s : k = c[1] - from /\ s = f + k
      OBVIOUS
    <3>1. f \in Nat /\ f + n <= total_writeOut /\ c[1] \in from .. from + n - 1
      BY <1>4, <1>9, <1>10, <2>3 DEF to
    <3>2. /\ k \in 0 .. n - 1 /\ from + k = c[1]
          /\ s \in 0 .. total_writeOut - 1 /\ f <= s /\ s < f + n
      <4> PICK y, T : y = c[1] /\ T = total_writeOut
        OBVIOUS
      <4>1. n \in Int /\ from \in Int /\ T \in Int /\ f \in Nat /\ f + n <= T /\ y \in from .. from + n - 1
        BY <1>9, <1>10, <3>1
      <4>2. /\ y - from \in 0 .. n - 1 /\ from + (y - from) = y
            /\ f + (y - from) \in 0 .. T - 1 /\ f <= f + (y - from) /\ f + (y - from) < f + n
        BY ONLY <4>1
      <4> QED BY <4>2, Zenon
    <3>3. s \in Slots
      BY <3>2 DEF Slots
    <3>4. buff[d][s].pageNO = c[1]
      BY <1>11, <2>3, <3>2
    <3> QED BY <1>7, <3>2, <3>3, <3>4
  <2> QED BY <2>1, <2>2, <2>3
<1>15. Base(d) = thread[t].first /\ Out(d) = thread[t].count
  BY <1>6
<1>16. \A s \in Slots : Dist(Base(d), s) < Out(d) /\ buff[d][s].data \in moved'[d]
          => There(d, buff[d][s].data)'
  BY <1>6, <1>7, <1>13
<1>17. \A c \in moved'[d] : There(d, c) =>
          \/ There(d, c)'
          \/ \E s \in Slots : Dist(Base(d), s) < Out(d) /\ buff[d][s].pageNO = c[1]
  BY <1>6, <1>14
<1> QED BY <1>1, <1>3, <1>5, <1>15, <1>16, <1>17, Zenon
-----------------------------------------------------------------------------
(* Every step but the last of a flush leaves the filled slots filled.        *)
Keeps(d) == \A s \in Slots : Filled(d, s) => Filled(d, s)' /\ Same(d, s)
Calm(d) ==
  /\ \A s \in Slots : Live(d, s)' => Live(d, s)
  /\ \A s \in Slots : Filled(d, s)' => Filled(d, s) /\ Same(d, s)
  /\ moved'[d] \subseteq moved[d]
Rests(d) == Keeps(d) /\ remote'[d] = remote[d] /\ (Still(d) \/ ~Freeing(d)')

LEMMA StepsFor ==
  ASSUME PoolInv, ThreadInv, BaseInv, [ReadNext]_readVars, NEW d \in Nodes
  PROVE  \/ Calm(d) /\ Rests(d)
         \/ \E t \in Threads : Enter(t, d) \/ Hand(t, d)
         \/ \E t \in Threads : Calm(d) /\ Keeps(d) /\ d = thread[t].dest /\ RdmaWrite(t)
         \/ \E t \in Threads : Calm(d) /\ d = thread[t].dest /\ FreeBuff(t)
<1>1. head[d] = Turn(Base(d), Out(d))
  BY DEF BaseInv
<1>2. ASSUME NEW m \in 0 .. total_writeOut, Pass(d, m) PROVE Calm(d)
  BY <1>2 DEF Calm, Pass, DropStep
<1>3. CASE Still(d)
  <2>1. 0 \in 0 .. total_writeOut
    BY WriteOutConstants
  <2>2. Calm(d)
    BY <1>1, <1>2, <1>3, <2>1, PassStill
  <2>3. Keeps(d) /\ remote'[d] = remote[d]
    BY <1>3 DEF Still, Keeps, Filled, Same
  <2> QED BY <1>3, <2>2, <2>3 DEF Rests
<1>4. ASSUME NEW t \in Threads, d = thread[t].dest, Claim(t) \/ Fill(t)
      PROVE  Enter(t, d) \/ Hand(t, d)
  BY <1>4, EnterAt, HandAt
<1>5. ASSUME NEW t \in Threads, d = thread[t].dest,
             Join(t) \/ FlushPost(t) \/ RdmaWrite(t) \/ RdmaWriteFails(t) \/ FreeBuff(t)
      PROVE  /\ Calm(d)
             /\ ~FreeBuff(t) => Keeps(d)
             /\ RdmaWrite(t) \/ FreeBuff(t) \/ (remote'[d] = remote[d] /\ ~Freeing(d)')
  <2>1. /\ PostAt(t, d) \/ JoinAt(t, d) \/ BatchAt(t, d)
        /\ tail'[d] = tail[d] /\ pos_mutex'[d] = t /\ Flushes(thread[t], d)
    BY <1>5, FlushAt
  <2>2. DropStep(d)
    BY <1>5, OthersDrop DEF Join, FlushStep
  <2>3. Calm(d)
    BY <1>1, <1>2, <1>5, <2>1, <2>2, PassFlush
  <2>4. Freeing(d)' <=> thread'[t].pc = "free"
    BY <2>1, NextView
  <2>5. thread[t] \in ThreadType /\ buff \in [Nodes -> [Slots -> SlotType]] /\ thread \in [Threads -> ThreadType]
    BY DEF ThreadInv, TypeInv
  <2>6. ASSUME ~FreeBuff(t) PROVE Keeps(d)
    <3>1. CASE JoinAt(t, d)
      <4>1. \A s \in Slots : \/ buff'[d][s] = buff[d][s]
                             \/ s = Here(t) /\ buff'[d][s] = [buff[d][s] EXCEPT !.status = 3]
        BY <3>1 DEF JoinAt
      <4>2. \A s \in Slots : buff[d][s] \in SlotType
        BY <2>5
      <4>3. ASSUME NEW s \in Slots, Filled(d, s) PROVE Filled(d, s)' /\ Same(d, s)
        <5>1. CASE buff'[d][s] = buff[d][s]
          BY <4>3, <5>1 DEF Filled, Same
        <5>2. CASE buff'[d][s] = [buff[d][s] EXCEPT !.status = 3]
          BY <4>2, <5>2 DEF Filled, Same, SlotType
        <5> QED BY <4>1, <5>1, <5>2
      <4> QED BY <4>3 DEF Keeps
    <3>2. CASE PostAt(t, d)
      BY <3>2 DEF PostAt, Keeps, Filled, Same
    <3>3. CASE BatchAt(t, d)
      <4>1. thread[t].pc # "free"
        BY <1>5, <2>6, <3>3 DEF Join, FlushWhile, FlushPost, RdmaWrite, RdmaWriteFails
      <4> QED BY <3>3, <4>1 DEF BatchAt, Keeps, Filled, Same
    <3> QED BY <2>1, <3>1, <3>2, <3>3
  <2>7. ASSUME Join(t) \/ FlushPost(t) \/ RdmaWriteFails(t) PROVE remote'[d] = remote[d] /\ ~Freeing(d)'
    <3>1. remote' = remote
      BY <2>7 DEF Join, FlushWhile, FlushPost, RdmaWriteFails, peers
    <3>2. CASE PostAt(t, d) \/ JoinAt(t, d)
      BY <2>4, <3>1, <3>2 DEF PostAt, JoinAt
    <3>3. CASE BatchAt(t, d)
      <4>1. RdmaWriteFails(t)
        BY <2>7, <3>3 DEF BatchAt, Join, FlushWhile, FlushPost
      <4>2. thread'[t].pc = "unlock"
        BY <2>5, <4>1 DEF RdmaWriteFails, Goto, ThreadType
      <4> QED BY <2>4, <3>1, <4>2
    <3> QED BY <2>1, <3>2, <3>3
  <2> QED BY <1>5, <2>3, <2>6, <2>7
<1>6. CASE \E t \in Threads : AtNode(t, d)
  <2>1. PICK t \in Threads : AtNode(t, d)
    BY <1>6
  <2>2. CASE Claim(t) \/ Fill(t)
    BY <1>4, <2>1, <2>2 DEF AtNode
  <2>3. CASE Join(t) \/ FlushPost(t) \/ RdmaWrite(t) \/ RdmaWriteFails(t) \/ FreeBuff(t)
    <3>1. d = thread[t].dest
      BY <2>1 DEF AtNode
    <3>2. /\ Calm(d)
          /\ ~FreeBuff(t) => Keeps(d)
          /\ RdmaWrite(t) \/ FreeBuff(t) \/ (remote'[d] = remote[d] /\ ~Freeing(d)')
      BY <1>5, <2>3, <3>1
    <3> QED BY <3>1, <3>2 DEF Rests
  <2> QED BY <2>1, <2>2, <2>3 DEF AtNode
<1> QED BY <1>3, <1>6, StepsAt

(* The slots of a freed batch are the older ones.                           *)
LEMMA FreedFirst ==
  ASSUME ThreadInv, StampInv, OrderInv, NEW d \in Nodes, NEW c \in moved[d],
         NEW x \in Slots, Live(d, x), Filled(d, x), buff[d][x].pageNO = c[1], ~(Dist(Base(d), x) < Out(d)),
         NEW s \in Slots, Filled(d, s), buff[d][s].data = c
  PROVE  ~(Dist(Base(d), s) < Out(d))
<1> SUFFICES ASSUME Dist(Base(d), s) < Out(d) PROVE FALSE
  OBVIOUS
<1>1. /\ buff[d][x] \in SlotType /\ c \in Nat \X Nat /\ Base(d) \in Slots /\ Out(d) \in Nat
      /\ buff[d][s].pageNO = c[1]
  BY BaseType DEF ThreadInv, TypeInv, SlotForms, SlotForm, Filled
<1>2. Dist(Base(d), x) \in Int /\ Dist(Base(d), s) \in Int /\ Out(d) \in Int
  BY <1>1, DistTurn
<1>3. Before(d, s, x) /\ Live(d, s)
  BY <1>2 DEF Before, Live
<1>4. buff[d][s].data[2] < buff[d][x].data[2]
  BY <1>1, <1>3 DEF OrderInv, Ordered
<1> PICK n, p : n = buff[d][x].data[2] /\ p = c[1]
  OBVIOUS
<1>5. n \in Int /\ p \in Int /\ Holds(d, x, p, n)
  BY <1>1 DEF SlotType, Holds
<1>6. Fresh(d, p, n) /\ c[2] = Grants(d, p)
  BY <1>5 DEF StampInv, Stamped
<1>7. n <= c[2] /\ c[2] < n /\ c[2] \in Int
  BY <1>1, <1>4, <1>6 DEF Fresh
<1> QED BY <1>5, <1>7
(* What the three kinds of steps leave of what waits.                        *)
LEMMA KeepsWaiting ==
  ASSUME NEW d \in Nodes, Waits(d), Calm(d), Keeps(d),
         NEW c \in moved'[d], NEW x \in Slots, Live(d, x)', Filled(d, x)', buff'[d][x].pageNO = c[1]
  PROVE  InSlot(d, c)'
<1>1. c \in moved[d] /\ Live(d, x) /\ Filled(d, x) /\ buff[d][x].pageNO = c[1]
  BY DEF Calm, Same
<1>2. PICK s \in Slots : Filled(d, s) /\ buff[d][s].data = c
  BY <1>1 DEF Waits, InSlot
<1>3. Filled(d, s)' /\ buff'[d][s].data = c
  BY <1>2 DEF Keeps, Same
<1> QED BY <1>3 DEF InSlot

LEMMA EnterWaiting ==
  ASSUME ThreadInv, BaseInv, RingInv, NEW d \in Nodes, Waits(d), NEW t \in Threads, Enter(t, d)
  PROVE  Waits(d)'
<1>1. /\ View(d) /\ remote'[d] = remote[d] /\ moved'[d] = moved[d]
      /\ buff[d][tail[d]].status = -1
      /\ \A s \in Slots : s # tail[d] => buff'[d][s] = buff[d][s]
  BY DEF Enter
<1>2. \A x \in Slots : Live(d, x)' /\ Filled(d, x)' =>
        Live(d, x) /\ Filled(d, x) /\ buff'[d][x] = buff[d][x]
  BY EnterOrder
<1>3. \A s \in Slots : Filled(d, s) => Filled(d, s)' /\ buff'[d][s] = buff[d][s]
  BY <1>1 DEF Filled
<1>4. \A c \in moved'[d] : \A x \in Slots :
         Live(d, x)' /\ Filled(d, x)' /\ buff'[d][x].pageNO = c[1] => InSlot(d, c)'
  BY <1>1, <1>2, <1>3 DEF Waits, InSlot
<1>5. ASSUME Freeing(d)', NEW s \in Slots, Dist(Base(d)', s) < Out(d)', buff'[d][s].data \in moved'[d]
      PROVE  There(d, buff[d][s].data)' /\ buff'[d][s] = buff[d][s]
  <2>1. Freeing(d) /\ Dist(Base(d), s) < Out(d)
    BY <1>1, <1>5 DEF View
  <2>2. buff[d][s].status = 3
    BY <2>1, BaseType
  <2>3. buff'[d][s] = buff[d][s]
    BY <1>1, <2>2
  <2>4. There(d, buff[d][s].data)
    BY <1>1, <1>5, <2>1, <2>3 DEF Waits
  <2> QED BY <1>1, <2>3, <2>4 DEF There
<1>6. Freeing(d)' => \A s \in Slots :
        Dist(Base(d)', s) < Out(d)' /\ buff'[d][s].data \in moved'[d] => There(d, buff[d][s].data)'
  BY <1>5
<1> QED BY <1>4, <1>6 DEF Waits

LEMMA HandWaiting ==
  ASSUME PoolInv, ThreadInv, GivenInv, StampInv, NEW d \in Nodes, Waits(d), NEW t \in Threads, Hand(t, d)
  PROVE  Waits(d)'
<1> PICK y, p, c0 : y = thread[t].slot /\ p = thread[t].page /\ c0 = <<p, Grants(d, p)>>
  OBVIOUS
<1>1. /\ View(d) /\ remote'[d] = remote[d] /\ moved'[d] = moved[d] \union {c0}
      /\ Fills(thread[t], d) /\ buff'[d][y] = [status |-> 2, pageNO |-> p, data |-> c0]
      /\ \A s \in Slots : s # y => buff'[d][s] = buff[d][s]
  BY DEF Hand, Content
<1>2. /\ \A x \in Slots : Live(d, x)' <=> Live(d, x)
      /\ buff[d][y].status = 1 /\ y \in Slots
  BY HandOrder
<1>3. p \notin TakenOf(d) /\ p \in Int
  BY <1>1 DEF GivenInv, Given, ThreadInv, TypeInv, ThreadType
<1>4. \A s \in Slots : Filled(d, s) => Filled(d, s)' /\ buff'[d][s] = buff[d][s]
  BY <1>1, <1>2 DEF Filled
<1>5. ASSUME NEW c \in moved'[d], NEW x \in Slots, Live(d, x)', Filled(d, x)', buff'[d][x].pageNO = c[1]
      PROVE  InSlot(d, c)'
  <2>1. CASE c = c0
    <3>1. Filled(d, y)' /\ buff'[d][y].data = c
      BY <1>1, <2>1 DEF Filled
    <3> QED BY <1>2, <3>1 DEF InSlot
  <2>2. CASE c # c0
    <3>1. c \in moved[d] /\ c[1] # p
      BY <1>1, <1>3, <2>2 DEF TakenOf
    <3>2. x # y
      BY <1>1, <1>5, <3>1
    <3>3. Live(d, x) /\ Filled(d, x) /\ buff[d][x].pageNO = c[1]
      BY <1>1, <1>2, <1>5, <3>2 DEF Filled
    <3>4. PICK s \in Slots : Filled(d, s) /\ buff[d][s].data = c
      BY <3>1, <3>3 DEF Waits, InSlot
    <3>5. Filled(d, s)' /\ buff'[d][s].data = c
      BY <1>4, <3>4
    <3> QED BY <3>5 DEF InSlot
  <2> QED BY <2>1, <2>2
<1>6. ASSUME Freeing(d)', NEW s \in Slots, Dist(Base(d)', s) < Out(d)', buff'[d][s].data \in moved'[d]
      PROVE  There(d, buff[d][s].data)' /\ buff'[d][s] = buff[d][s]
  <2>1. Freeing(d) /\ Dist(Base(d), s) < Out(d)
    BY <1>1, <1>6 DEF View
  <2>2. buff[d][s].status = 3
    BY <2>1, BaseType
  <2>3. buff'[d][s] = buff[d][s]
    BY <1>1, <1>2, <2>2
  <2>4. buff[d][s].data # c0
    <3> SUFFICES ASSUME buff[d][s].data = c0 PROVE FALSE
      OBVIOUS
    <3>1. buff[d][s].pageNO = p
      BY <2>2 DEF ThreadInv, SlotForms, SlotForm
    <3>2. Grants(d, p) \in Int
      <4>1. buff[d][s] \in SlotType
        BY DEF ThreadInv, TypeInv
      <4> QED BY <4>1 DEF SlotType
    <3> PICK n : n = Grants(d, p)
      OBVIOUS
    <3>3. Holds(d, s, p, n)
      BY <2>2, <3>1 DEF Holds, Filled
    <3>4. Fresh(d, p, n)
      BY <1>3, <3>2, <3>3 DEF StampInv, Stamped
    <3>5. n < Grants(d, p)
      BY <1>1, <3>4 DEF Fresh
    <3> QED BY <3>2, <3>5
  <2>5. There(d, buff[d][s].data)
    BY <1>1, <1>6, <2>1, <2>3, <2>4 DEF Waits
  <2> QED BY <1>1, <2>3, <2>5 DEF There
<1>7. Freeing(d)' => \A s \in Slots :
        Dist(Base(d)', s) < Out(d)' /\ buff'[d][s].data \in moved'[d] => There(d, buff[d][s].data)'
  BY <1>6
<1> QED BY <1>5, <1>7 DEF Waits

LEMMA FreeWaiting ==
  ASSUME ThreadInv, StampInv, OrderInv, NEW d \in Nodes, Waits(d), Calm(d), NEW t \in Threads,
         d = thread[t].dest, FreeBuff(t)
  PROVE  /\ Flushes(thread[t], d) /\ Freeing(d) /\ ~Freeing(d)' /\ remote'[d] = remote[d]
         /\ \A s \in Slots : Filled(d, s) /\ ~(Dist(Base(d), s) < Out(d)) =>
              Filled(d, s)' /\ buff'[d][s] = buff[d][s]
         /\ \A s \in Slots : Filled(d, s)' => ~(Dist(Base(d), s) < Out(d))
<1> PICK f, n : f = thread[t].first /\ n = thread[t].count
  OBVIOUS
<1>1. /\ thread[t].pc = "free" /\ remote' = remote /\ pos_mutex' = pos_mutex
      /\ buff' = [buff EXCEPT ![d] = [s \in Slots |-> IF s \in Batch(t) THEN EmptySlot ELSE @[s]]]
      /\ Goto(t, "unlock")
  BY DEF FreeBuff, peers
<1>2. /\ buff \in [Nodes -> [Slots -> SlotType]] /\ thread \in [Threads -> ThreadType]
      /\ thread[t] \in ThreadType /\ f \in Slots /\ n \in Nat
  BY DEF ThreadInv, TypeInv, ThreadType
<1>3. Flushes(thread[t], d) /\ pos_mutex[d] = t
  BY <1>1 DEF Flushes, FlushPcs, ThreadInv, Locks
<1>4. Freeing(d) /\ Base(d) = f /\ Out(d) = n
  BY <1>1, <1>3, MyView
<1>5. thread'[t].pc = "unlock"
  BY <1>1, <1>2 DEF Goto, ThreadType
<1>6. ~Freeing(d)'
  BY <1>1, <1>3, <1>5, NextView
<1>7. f + n <= total_writeOut
  BY <1>1 DEF ThreadInv, FlushForms, FlushForm
<1>8. \A s \in Slots : Dist(f, s) < n <=> (f <= s /\ s < f + n)
  BY <1>2, <1>7, UpFrom
<1>9. Batch(t) = f .. f + n - 1
  BY DEF Batch
<1>10. \A s \in Slots : s \in Batch(t) <=> Dist(f, s) < n
  <2>1. f \in Int /\ n \in Int /\ \A s \in Slots : s \in Int
    BY <1>2 DEF Slots
  <2>2. \A s \in Slots : s \in f .. f + n - 1 <=> (f <= s /\ s < f + n)
    BY <2>1
  <2> QED BY <1>8, <1>9, <2>2
<1>11. \A s \in Slots : buff'[d][s] = IF s \in Batch(t) THEN EmptySlot ELSE buff[d][s]
  BY <1>1, <1>2
<1>12. \A s \in Slots : Filled(d, s)' => s \notin Batch(t)
  BY <1>11 DEF Filled, EmptySlot
<1> QED BY <1>1, <1>3, <1>4, <1>6, <1>10, <1>11, <1>12 DEF Filled
LEMMA WaitHeld == ASSUME Seamless PROVE ReadSpec => []WaitInv
<1>1. ReadInit => WaitInv
  <2> SUFFICES ASSUME ReadInit, NEW d \in Nodes PROVE Waits(d)
    BY DEF WaitInv
  <2>1. pos_mutex[d] = None /\ moved[d] = {}
    BY DEF ReadInit, Init
  <2>2. ~Freeing(d)
    BY <2>1, FreeView
  <2> QED BY <2>1, <2>2 DEF Waits
<1>2. ASSUME PoolInv, ThreadInv, RingInv, GivenInv, BaseInv, StampInv, OrderInv, StraightInv, RemoteInv,
             WaitInv, [ReadNext]_readVars
      PROVE  WaitInv'
  <2> SUFFICES ASSUME NEW d \in Nodes PROVE Waits(d)'
    BY DEF WaitInv
  <2>1. Waits(d)
    BY <1>2 DEF WaitInv
  <2>2. ASSUME Calm(d), Keeps(d) PROVE
          \A c \in moved'[d] : \A x \in Slots :
            Live(d, x)' /\ Filled(d, x)' /\ buff'[d][x].pageNO = c[1] => InSlot(d, c)'
    BY <2>1, <2>2, KeepsWaiting
  <2>3. CASE Calm(d) /\ Rests(d)
    <3>1. ASSUME Still(d), Freeing(d)', NEW s \in Slots, Dist(Base(d)', s) < Out(d)',
                 buff'[d][s].data \in moved'[d]
          PROVE  There(d, buff[d][s].data)' /\ buff'[d][s] = buff[d][s]
      <4>1. /\ Freeing(d) /\ Dist(Base(d), s) < Out(d) /\ buff'[d][s] = buff[d][s]
            /\ remote'[d] = remote[d] /\ moved'[d] \subseteq moved[d]
        BY <3>1 DEF Still, View, DropStep
      <4>2. There(d, buff[d][s].data)
        BY <2>1, <3>1, <4>1 DEF Waits
      <4> QED BY <4>1, <4>2 DEF There
    <3>2. Freeing(d)' => \A s \in Slots :
            Dist(Base(d)', s) < Out(d)' /\ buff'[d][s].data \in moved'[d]
              => There(d, buff[d][s].data)' /\ buff'[d][s] = buff[d][s]
      BY <2>3, <3>1 DEF Rests
    <3> QED BY <2>2, <2>3, <3>2 DEF Waits, Rests
  <2>4. CASE \E t \in Threads : Enter(t, d) \/ Hand(t, d)
    BY <1>2, <2>1, <2>4, EnterWaiting, HandWaiting
  <2>5. ASSUME NEW t \in Threads, Calm(d), Keeps(d), d = thread[t].dest, RdmaWrite(t) PROVE Waits(d)'
    <3>1. /\ Flushes(thread[t], d) /\ Base(d) = thread[t].first /\ Out(d) = thread[t].count /\ buff' = buff
          /\ \A s \in Slots : Dist(Base(d), s) < Out(d) /\ buff[d][s].data \in moved'[d]
               => There(d, buff[d][s].data)'
      BY <1>2, <2>5, RdmaLands
    <3>2. Base(d)' = Base(d) /\ Out(d)' = Out(d)
      <4>3. UNCHANGED pos_mutex
        BY <2>5 DEF RdmaWrite, ring
      <4>4. pos_mutex[d] = t
        BY <1>2, <3>1 DEF ThreadInv, Locks
      <4>1. pos_mutex'[d] = t
        BY <4>3, <4>4
      <4>2. thread'[t].pc = "free" /\ thread'[t].first = thread[t].first /\ thread'[t].count = thread[t].count
        BY <1>2, <2>5, Zenon DEF ThreadInv, TypeInv, ThreadType, RdmaWrite, Goto
      <4> QED BY <3>1, <4>1, <4>2, NextView
    <3>3. \A s \in Slots : Dist(Base(d)', s) < Out(d)' /\ buff'[d][s].data \in moved'[d]
               => There(d, buff[d][s].data)' /\ buff'[d][s] = buff[d][s]
      BY <3>1, <3>2
    <3> QED BY <2>2, <2>5, <3>3 DEF Waits
  <2>6. ASSUME NEW t \in Threads, Calm(d), d = thread[t].dest, FreeBuff(t) PROVE Waits(d)'
    <3>1. /\ ~Freeing(d)'
          /\ \A s \in Slots : Filled(d, s) /\ ~(Dist(Base(d), s) < Out(d)) =>
               Filled(d, s)' /\ buff'[d][s] = buff[d][s]
          /\ \A s \in Slots : Filled(d, s)' => ~(Dist(Base(d), s) < Out(d))
      BY <1>2, <2>1, <2>6, FreeWaiting DEF WaitInv
    <3>2. ASSUME NEW c \in moved'[d], NEW x \in Slots, Live(d, x)', Filled(d, x)', buff'[d][x].pageNO = c[1]
          PROVE  InSlot(d, c)'
      <4>1. /\ c \in moved[d] /\ Live(d, x) /\ Filled(d, x) /\ buff[d][x].pageNO = c[1]
            /\ ~(Dist(Base(d), x) < Out(d))
        BY <2>6, <3>1, <3>2 DEF Calm, Same
      <4>2. PICK s \in Slots : Filled(d, s) /\ buff[d][s].data = c
        BY <2>1, <4>1 DEF Waits, InSlot
      <4>3. ~(Dist(Base(d), s) < Out(d))
        BY <1>2, <4>1, <4>2, FreedFirst
      <4>4. Filled(d, s)' /\ buff'[d][s].data = c
        BY <3>1, <4>2, <4>3
      <4> QED BY <4>4 DEF InSlot
    <3> QED BY <3>1, <3>2 DEF Waits
  <2> QED BY <1>2, <2>3, <2>4, <2>5, <2>6, StepsFor
<1> QED BY <1>1, <1>2, PoolHeld, ThreadHeld, RingHeld, GivenHeld, BaseHeld, StampHeld, OrderHeld,
           StraightHeld, RemoteHeld, PTL DEF ReadSpec

(* No page is lost between COMEX_move_to_Remote and the memory node: what was *)
(* handed over waits in a slot, or is at its page of the node.  Assumed of    *)
(* the memory nodes is only that blocks which do not follow one another do    *)
(* not look as if they did to the comparison of COMEX_flush_buff.            *)
THEOREM NothingLost == ASSUME Seamless PROVE ReadSpec => []NoPageLost
<1>1. ReadInit => NoPageLost
  BY DEF ReadInit, Init, NoPageLost
<1>2. ASSUME PoolInv, ThreadInv, RingInv, GivenInv, BaseInv, StampInv, OrderInv, StraightInv, RemoteInv,
             WaitInv, NoPageLost, [ReadNext]_readVars
      PROVE  NoPageLost'
  <2> SUFFICES ASSUME NEW d \in Nodes, NEW c \in moved'[d] PROVE There(d, c)' \/ InSlot(d, c)'
    BY DEF NoPageLost, There, InSlot, Filled
  <2>1. c \in moved[d] => There(d, c) \/ InSlot(d, c)
    BY <1>2 DEF NoPageLost, There, InSlot, Filled
  <2>2. CASE Calm(d) /\ Rests(d)
    <3>1. c \in moved[d] /\ remote'[d] = remote[d]
      BY <2>2 DEF Calm, Rests
    <3>2. InSlot(d, c) => InSlot(d, c)'
      BY <2>2 DEF Rests, Keeps, InSlot, Same
    <3> QED BY <2>1, <3>1, <3>2 DEF There
  <2>3. ASSUME NEW t \in Threads, Enter(t, d) PROVE There(d, c)' \/ InSlot(d, c)'
    <3>1. /\ c \in moved[d] /\ remote'[d] = remote[d] /\ buff[d][tail[d]].status = -1
          /\ \A s \in Slots : s # tail[d] => buff'[d][s] = buff[d][s]
      BY <2>3 DEF Enter
    <3>2. InSlot(d, c) => InSlot(d, c)'
      BY <3>1 DEF InSlot, Filled
    <3> QED BY <2>1, <3>1, <3>2 DEF There
  <2>4. ASSUME NEW t \in Threads, Hand(t, d) PROVE There(d, c)' \/ InSlot(d, c)'
    <3>1. /\ c \in moved[d] \/ c = Content(d, thread[t].page)
          /\ buff'[d][thread[t].slot] =
               [status |-> 2, pageNO |-> thread[t].page, data |-> Content(d, thread[t].page)]
          /\ remote'[d] = remote[d]
          /\ \A s \in Slots : s # thread[t].slot => buff'[d][s] = buff[d][s]
      BY <2>4 DEF Hand
    <3>2. buff[d][thread[t].slot].status = 1 /\ thread[t].slot \in Slots
      BY <1>2, <2>4, HandOrder
    <3>3. InSlot(d, c) => InSlot(d, c)'
      BY <3>1, <3>2 DEF InSlot, Filled
    <3>4. CASE c = Content(d, thread[t].page)
      BY <3>1, <3>2, <3>4 DEF InSlot, Filled
    <3> QED BY <2>1, <3>1, <3>3, <3>4 DEF There
  <2>5. ASSUME NEW t \in Threads, Calm(d), Keeps(d), d = thread[t].dest, RdmaWrite(t)
        PROVE  There(d, c)' \/ InSlot(d, c)'
    <3>1. /\ c \in moved[d]
          /\ There(d, c) =>
               \/ There(d, c)'
               \/ \E s \in Slots : Dist(Base(d), s) < Out(d) /\ buff[d][s].pageNO = c[1]
      BY <1>2, <2>5, RdmaLands DEF Calm
    <3>2. InSlot(d, c) => InSlot(d, c)'
      BY <2>5 DEF Keeps, InSlot, Same
    <3>3. \A s \in Slots : Dist(Base(d), s) < Out(d) => Live(d, s) /\ Filled(d, s)
      BY <1>2, BaseType DEF Live, Filled
    <3>4. ASSUME NEW s \in Slots, Dist(Base(d), s) < Out(d), buff[d][s].pageNO = c[1] PROVE InSlot(d, c)
      BY <1>2, <3>1, <3>3, <3>4 DEF WaitInv, Waits
    <3> QED BY <2>1, <3>1, <3>2, <3>4
  <2>6. ASSUME NEW t \in Threads, Calm(d), d = thread[t].dest, FreeBuff(t)
        PROVE  There(d, c)' \/ InSlot(d, c)'
    <3>1. /\ Freeing(d) /\ remote'[d] = remote[d]
          /\ \A s \in Slots : Filled(d, s) /\ ~(Dist(Base(d), s) < Out(d)) =>
               Filled(d, s)' /\ buff'[d][s] = buff[d][s]
      BY <1>2, <2>6, FreeWaiting DEF WaitInv
    <3>2. c \in moved[d]
      BY <2>6 DEF Calm
    <3>3. ASSUME NEW s \in Slots, Filled(d, s), buff[d][s].data = c
          PROVE  There(d, c)' \/ InSlot(d, c)'
      <4>1. CASE Dist(Base(d), s) < Out(d)
        <5>1. There(d, c)
          BY <1>2, <3>1, <3>2, <3>3, <4>1 DEF WaitInv, Waits
        <5> QED BY <3>1, <5>1 DEF There
      <4>2. CASE ~(Dist(Base(d), s) < Out(d))
        BY <3>1, <3>3, <4>2 DEF InSlot
      <4> QED BY <4>1, <4>2
    <3>4. There(d, c) => There(d, c)'
      BY <3>1 DEF There
    <3> QED BY <2>1, <3>2, <3>3, <3>4 DEF InSlot
  <2> QED BY <1>2, <2>2, <2>3, <2>4, <2>5, <2>6, StepsFor
<1> QED BY <1>1, <1>2, PoolHeld, ThreadHeld, RingHeld, GivenHeld, BaseHeld, StampHeld, OrderHeld,
           StraightHeld, RemoteHeld, WaitHeld, PTL DEF ReadSpec
(* A node that grants blocks up to the end of a chunk only is seamless.      *)
LEMMA WholeChunks ==
  ASSUME \A d \in Nodes : \A k \in DOMAIN Supply[d] :
           (Supply[d][k].page + 2 ^ Supply[d][k].order - 1) % CHUNK = CHUNK - 1
  PROVE  Seamless
<1> SUFFICES ASSUME NEW d \in Nodes, NEW k \in DOMAIN Supply[d], NEW l \in DOMAIN Supply[d]
             PROVE  (Supply[d][l].page % CHUNK)
                      # ((Supply[d][k].page + 2 ^ Supply[d][k].order - 1) % CHUNK) + 1
  BY DEF Seamless
<1>1. CHUNK \in Nat \ {0} /\ Supply[d][l].page \in Nat
  <2> DEFINE S == [page : Nat, order : Nat]  q == Supply[d]
  <2>1. q \in Seq(S)
    BY WriteOutConstants
  <2> HIDE DEF S, q
  <2>2. \A i \in DOMAIN q : q[i] \in S
    BY <2>1
  <2>3. Supply[d][l] \in [page : Nat, order : Nat]
    BY <2>2 DEF q, S
  <2> QED BY <2>3, WriteOutConstants
<1> PICK q : q = Supply[d][l].page
  OBVIOUS
<1>2. q % CHUNK \in 0 .. CHUNK - 1
  BY <1>1
<1>3. (Supply[d][k].page + 2 ^ Supply[d][k].order - 1) % CHUNK = CHUNK - 1
  OBVIOUS
<1> QED BY <1>1, <1>2, <1>3

-----------------------------------------------------------------------------
(* The blocks of the prefetch cache.                                       *)

LEMMA TimesMore ==
  ASSUME NEW m \in Nat, NEW a \in Int, NEW b \in Int, a < b
  PROVE  m * a + m <= m * b
<1>1. b - a - 1 \in Nat
  OBVIOUS
<1> PICK k \in Nat : b = a + 1 + k
  BY <1>1
<1>2. m * k \in Nat
  OBVIOUS
<1>3. m * (a + 1 + k) = m * a + m + m * k
  OBVIOUS
<1>4. m * a \in Int
  OBVIOUS
<1> QED BY <1>2, <1>3, <1>4

LEMMA OneRemainder ==
  ASSUME NEW m \in Nat \ {0}, NEW x \in Nat, NEW k \in Int, NEW r \in 0 .. m - 1, x = m * k + r
  PROVE  x % m = r
<1> PICK j, q : j = x \div m /\ q = x % m
  OBVIOUS
<1>1. j \in Int /\ q \in 0 .. m - 1 /\ x = m * j + q
  OBVIOUS
<1>2. m * j \in Int /\ m * k \in Int
  BY <1>1
<1>3. ~(j < k)
  <2> SUFFICES ASSUME j < k PROVE FALSE
    OBVIOUS
  <2>1. m * j + m <= m * k
    BY <1>1, TimesMore
  <2> QED BY <1>1, <1>2, <2>1
<1>4. ~(k < j)
  <2> SUFFICES ASSUME k < j PROVE FALSE
    OBVIOUS
  <2>1. m * k + m <= m * j
    BY <1>1, TimesMore
  <2> QED BY <1>1, <1>2, <2>1
<1>5. j = k
  BY <1>1, <1>3, <1>4
<1> QED BY <1>1, <1>2, <1>5

LEMMA Divided ==
  ASSUME NEW m \in Nat \ {0}, NEW x \in Nat
  PROVE  \E k \in Int : x % m \in 0 .. m - 1 /\ x = m * k + (x % m)
<1>1. x \div m \in Int /\ x % m \in 0 .. m - 1 /\ x = m * (x \div m) + (x % m)
  OBVIOUS
<1> QED BY <1>1

(* Where a page and its block are in the cache.                             *)
LEMMA BlockPlace ==
  ASSUME NEW p \in Nat
  PROVE  /\ Entry(p) \in Entries /\ BlockHead(p) \in Nat
         /\ p % PreF_SIZE \in 0 .. PreF_SIZE - 1 /\ BlockHead(p) = p - (p % PreF_SIZE)
         /\ Entry(BlockHead(p)) \in Nat /\ Entry(BlockHead(p)) + PreF_SIZE <= total_readIn
         /\ Entry(p) = Entry(BlockHead(p)) + (p % PreF_SIZE)
         /\ \A i \in 0 .. PreF_SIZE - 1 : (Entry(BlockHead(p)) + i) % PreF_SIZE = i
<1> PICK m, n : m = PreF_SIZE /\ n = total_readIn
  OBVIOUS
<1>1. m \in Nat \ {0} /\ n \in Nat \ {0} /\ n % m = 0
  BY ReadConstants
<1> PICK K : K = n \div m
  OBVIOUS
<1>2. K \in Int /\ n = m * K
  BY <1>1
<1>3. \E x \in Int : p % n \in 0 .. n - 1 /\ p = n * x + (p % n)
  BY <1>1, Divided
<1> PICK e : e = p % n
  OBVIOUS
<1> PICK a \in Int : e \in 0 .. n - 1 /\ p = n * a + e
  BY <1>3
<1>20. a \in Int /\ e \in 0 .. n - 1 /\ p = n * a + e /\ e \in Nat
  BY <1>1
<1>21. \E x \in Int : e % m \in 0 .. m - 1 /\ e = m * x + (e % m)
  BY <1>1, <1>20, Divided, Zenon
<1> PICK r : r = e % m
  OBVIOUS
<1> PICK b \in Int : r \in 0 .. m - 1 /\ e = m * b + r
  BY <1>21
<1>4. b \in Int /\ r \in 0 .. m - 1 /\ e = m * b + r
  OBVIOUS
<1>5. m * b \in Int /\ m * K \in Int /\ n * a \in Int /\ m * (K * a) \in Int
  BY <1>1, <1>2, <1>20, <1>4
<1>6. b < K
  <2> SUFFICES ASSUME ~(b < K) PROVE FALSE
    OBVIOUS
  <2>1. b = K \/ m * K + m <= m * b
    BY <1>1, <1>2, <1>4, TimesMore
  <2> QED BY <1>1, <1>2, <1>20, <1>4, <1>5, <2>1
<1>7. m * b + m <= n
  BY <1>1, <1>2, <1>4, <1>6, TimesMore
<1>8. m * b \in Nat
  <2> SUFFICES ASSUME b < 0 PROVE FALSE
    BY <1>1, <1>4
  <2>1. m * b + m <= m * 0
    BY <1>1, <1>4, TimesMore
  <2> QED BY <1>1, <1>20, <1>4, <1>5, <2>1
<1>9. p % m = r
  <2>1. p = m * (K * a + b) + r
    <3>1. n * a = m * (K * a)
      <4>1. (m * K) * a = m * (K * a)
        BY <1>1, <1>2, <1>20
      <4> QED BY <1>2, <4>1
    <3>2. m * (K * a + b) = m * (K * a) + m * b
      BY <1>1, <1>2, <1>20, <1>4
    <3> QED BY <1>20, <1>4, <1>5, <3>1, <3>2
  <2> PICK k : k = K * a + b
    OBVIOUS
  <2>3. K * a \in Int
    BY <1>2, <1>20
  <2>4. k \in Int
    BY <1>4, <2>3
  <2>2. k \in Int /\ p = m * k + r
    BY <2>1, <2>4
  <2>5. m \in Nat \ {0} /\ p \in Nat /\ k \in Int /\ r \in 0 .. m - 1 /\ p = m * k + r
    BY <1>1, <1>4, <2>2
  <2> QED BY ONLY <2>5, OneRemainder
<1> PICK h : h = p - r
  OBVIOUS
<1>10. h \in Nat /\ h = n * a + m * b
  <2>1. n * a \in Nat
    <3> SUFFICES ASSUME a < 0 PROVE FALSE
      BY <1>1, <1>20
    <3>1. n * a + n <= n * 0
      BY <1>1, <1>20, TimesMore
    <3> QED BY <1>1, <1>20, <1>5, <3>1
  <2>2. p - r = n * a + m * b
    BY <1>4, <1>5, <1>20
  <2> QED BY <1>8, <2>1, <2>2
<1>11. h % n = m * b
  <2> PICK x : x = m * b
    OBVIOUS
  <2>1. x \in 0 .. n - 1 /\ h = n * a + x
    BY <1>1, <1>7, <1>8, <1>10
  <2>2. n \in Nat \ {0} /\ h \in Nat /\ a \in Int /\ x \in 0 .. n - 1 /\ h = n * a + x
    BY <1>1, <1>20, <1>10, <2>1
  <2>3. h % n = x
    BY ONLY <2>2, OneRemainder
  <2> QED BY <2>3
<1>12. \A i \in 0 .. m - 1 : (m * b + i) % m = i
  <2> TAKE i \in 0 .. m - 1
  <2>1. m * b + i \in Nat
    BY <1>1, <1>8
  <2> PICK x : x = m * b + i
    OBVIOUS
  <2>2. m \in Nat \ {0} /\ x \in Nat /\ b \in Int /\ i \in 0 .. m - 1 /\ x = m * b + i
    BY <1>1, <1>4, <2>1
  <2>3. x % m = i
    BY ONLY <2>2, OneRemainder
  <2> QED BY <2>3
<1>13. BlockHead(p) = h /\ Entry(p) = e /\ Entry(h) = m * b
  BY <1>9, <1>11 DEF BlockHead, Entry
<1>14. Entry(p) \in Entries /\ Entry(h) + m <= n /\ Entry(p) = Entry(h) + r
  BY <1>4, <1>7, <1>13, <1>20 DEF Entries
<1> QED BY <1>4, <1>8, <1>9, <1>10, <1>12, <1>13, <1>14

(* The entries of a block, and the pages they are for.                      *)
LEMMA BlockForm ==
  ASSUME NEW t \in Threads, thread[t].page \in Nat
  PROVE  /\ BlockEntries(t) \subseteq Entries
         /\ \A e \in BlockEntries(t) :
              /\ PageOf(t, e) \in Nat /\ Entry(PageOf(t, e)) = e
              /\ Entry(BlockHead(thread[t].page)) = e - (e % PreF_SIZE)
         /\ \A p \in Nat : Entry(p) \in BlockEntries(t) /\ PageOf(t, Entry(p)) = p
                             <=> BlockHead(p) = BlockHead(thread[t].page)
<1> PICK h, b, m, n : h = BlockHead(thread[t].page) /\ b = Entry(h) /\ m = PreF_SIZE /\ n = total_readIn
  OBVIOUS
<1>1. /\ m \in Nat \ {0} /\ n \in Nat \ {0} /\ h \in Nat /\ b \in Nat /\ b + m <= n
      /\ \A i \in 0 .. m - 1 : (b + i) % m = i
  BY BlockPlace, ReadConstants
<1>2. BlockEntries(t) = {b + i : i \in 0 .. m - 1} /\ \A e : PageOf(t, e) = h + (e % m)
  BY DEF BlockEntries, PageOf
<1>3. ASSUME NEW i \in 0 .. m - 1
      PROVE  /\ b + i \in Entries /\ h + i \in Nat /\ Entry(h + i) = b + i
             /\ PageOf(t, b + i) = h + i /\ b = (b + i) - ((b + i) % m)
  <2>8. m \in Nat /\ n \in Nat /\ h \in Nat /\ b \in Nat /\ b + m <= n /\ i \in 0 .. m - 1
    BY <1>1
  <2>9. b + i \in 0 .. n - 1 /\ h + i \in Nat
    BY ONLY <2>8
  <2>10. (b + i) % m = i
    BY <1>1, Zenon
  <2>1. b + i \in 0 .. n - 1 /\ h + i \in Nat /\ (b + i) % m = i
    BY <2>9, <2>10
  <2>2. b = h % n
    BY DEF Entry
  <2>3. \E a \in Int : h = n * a + b
    <3>1. n \in Nat \ {0} /\ h \in Nat
      BY <1>1
    <3>2. \E a \in Int : h % n \in 0 .. n - 1 /\ h = n * a + (h % n)
      BY ONLY <3>1, Divided
    <3> QED BY <2>2, <3>2
  <2> PICK a \in Int : h = n * a + b
    BY <2>3
  <2> PICK q, r : q = h + i /\ r = b + i
    OBVIOUS
  <2>4. n \in Nat \ {0} /\ q \in Nat /\ a \in Int /\ r \in 0 .. n - 1 /\ q = n * a + r
    <3>1. n * a \in Int
      BY <1>1
    <3>2. n \in Nat \ {0} /\ h \in Nat /\ b \in Nat /\ i \in Int
      BY <1>1
    <3>3. q \in Nat /\ r \in 0 .. n - 1
      BY <2>1
    <3>4. n * a + b + i = n * a + (b + i)
      BY ONLY <3>1, <3>2
    <3> QED BY <3>2, <3>3, <3>4
  <2>5. q % n = r
    BY ONLY <2>4, OneRemainder
  <2>6. Entry(h + i) = b + i
    BY <2>5 DEF Entry
  <2>7. b = (b + i) - ((b + i) % m)
    BY <1>1, <2>1
  <2> QED BY <1>2, <2>1, <2>6, <2>7 DEF Entries
<1>4. ASSUME NEW e \in BlockEntries(t)
      PROVE  /\ e \in Entries /\ PageOf(t, e) \in Nat /\ Entry(PageOf(t, e)) = e
             /\ b = e - (e % m)
  <2> PICK i \in 0 .. m - 1 : e = b + i
    BY <1>2
  <2> QED BY <1>3
<1>5. ASSUME NEW p \in Nat
      PROVE  Entry(p) \in BlockEntries(t) /\ PageOf(t, Entry(p)) = p <=> BlockHead(p) = h
  <2> PICK r : r = p % m
    OBVIOUS
  <2>1. /\ r \in 0 .. m - 1 /\ BlockHead(p) = p - r /\ Entry(p) = Entry(BlockHead(p)) + r
        /\ (Entry(BlockHead(p)) + r) % m = r
    BY BlockPlace
  <2>2. Entry(p) % m = r /\ PageOf(t, Entry(p)) = h + r
    BY <1>2, <2>1
  <2>3. h + r = p <=> BlockHead(p) = h
    BY <1>1, <2>1
  <2>4. BlockHead(p) = h => Entry(p) \in BlockEntries(t)
    BY <1>2, <2>1
  <2> QED BY <2>2, <2>3, <2>4
<1> QED BY <1>4, <1>5

-----------------------------------------------------------------------------
(* The steps, by what they mean for a reader.                               *)

OutStep(t)  == MoveCall(t) \/ ClaimStep(t) \/ FlushStep(t) \/ Fill(t) \/ RdmaWriteFails(t)
LookStep(t) ==
  \/ LookInBuffer(t) \/ CopyFromBuffer(t) \/ LookInPreFetch(t) \/ CopyFromPreFetch(t)
  \/ LockBlock(t) \/ ReadBlock(t) \/ ReadBlockFails(t) \/ MarkBlock(t)

LEMMA ReadSorts ==
  ASSUME ThreadInv, [ReadNext]_readVars
  PROVE  \/ UNCHANGED <<thread, readIn, mutex_buff, got>>
         \/ \E t \in Threads : OutStep(t) /\ UNCHANGED <<readIn, mutex_buff, got>>
         \/ \E t \in Threads : VoidPreFetch(t) \/ ReadCall(t) \/ LookStep(t) \/ FreeToRemote(t)
<1>1. CASE UNCHANGED readVars
  BY <1>1 DEF readVars, vars, cache
<1>2. ASSUME NEW t \in Threads,
             (MoveCall(t) /\ UNCHANGED <<cache, got>>) \/ ReadCall(t) \/ Proceed(t) \/ ReadBlockFails(t)
               \/ (RdmaWriteFails(t) /\ UNCHANGED <<cache, got>>)
      PROVE  \/ OutStep(t) /\ UNCHANGED <<readIn, mutex_buff, got>>
             \/ VoidPreFetch(t) \/ ReadCall(t) \/ LookStep(t) \/ FreeToRemote(t)
  <2>1. UNCHANGED <<cache, got>> => UNCHANGED <<readIn, mutex_buff, got>>
    BY DEF cache
  <2>2. CASE MoveStep(t) \/ FillSlot(t)
    BY <2>1, <2>2 DEF MoveStep, FillSlot, OutStep
  <2>3. CASE ReadStep(t)
    BY <2>3 DEF ReadStep, LookStep
  <2> QED BY <1>2, <2>1, <2>2, <2>3 DEF Proceed, OutStep, LookStep
<1>3. ASSUME NEW d \in Nodes,
             Grant(d) \/ ZapEntry(d) \/ ((PageReceiveOOM(d) \/ DropRequest(d)) /\ UNCHANGED <<cache, got>>)
      PROVE  UNCHANGED <<thread, readIn, mutex_buff, got>>
  <2>1. NodeStep
    BY <1>3, NodeStepTaken DEF Grant
  <2> QED BY <1>3, <2>1 DEF NodeStep, Grant, ZapEntry, cache
<1>4. CASE ReadNext
  BY <1>2, <1>3, <1>4 DEF ReadNext, Fails
<1> QED BY <1>1, <1>4

(* A thread that reads a page keeps its number from everyone else; a thread   *)
(* that neither reads nor fills has none.                                   *)
OutPcs       == Pcs \ (ReadPcs \union {"fill"})
Reads(r, d)  == r.pc \in ReadPcs /\ r.dest = d
PageLess(r)  == r.pc \notin ReadPcs \union {"void", "fill"} => r.page = -1
Alone(t, d)  ==
  Reads(thread[t], d) =>
    /\ thread[t].page \in Nat /\ thread[t].page \notin PagesOf(free_group[d])
    /\ \A u \in Threads : u # t => thread[u].dest # d \/ thread[u].page # thread[t].page
AloneInv ==
  /\ \A t \in Threads : PageLess(thread[t])
  /\ \A t \in Threads : \A d \in Nodes : Alone(t, d)

(* What a step does to the page of its thread.                              *)
OnlyOf(t)   == \A u \in Threads : u # t => thread'[u] = thread[u]
ClaimOf(t)  ==
  LET d == thread[t].dest IN
  /\ thread'[t].dest = d /\ thread'[t].pc = "void"
  /\ thread'[t].page = Head(free_group[d]).page_start
  /\ PageTaken(d) /\ free_group[d] # <<>>
OutForm(t) ==
  /\ thread[t].pc \notin ReadPcs \union {"void"} /\ thread'[t].pc \in OutPcs
  /\ (thread'[t].page = -1 /\ thread'[t].pc # "void") \/ ClaimOf(t)

LEMMA OutStepForm ==
  ASSUME PoolInv, ThreadInv, NEW t \in Threads, PageLess(thread[t]), OutStep(t)
  PROVE  OnlyOf(t) /\ OutForm(t)
<1>1. thread \in [Threads -> ThreadType] /\ thread[t] \in ThreadType
  BY DEF ThreadInv, TypeInv
<1>2. ASSUME NEW r, thread' = [thread EXCEPT ![t] = r] PROVE OnlyOf(t) /\ thread'[t] = r
  BY <1>1, <1>2 DEF OnlyOf
<1> DEFINE Rest_ == OutPcs \ {"void"}
<1>3. /\ {"idle", "try", "full", "claim", "lock"} \union FlushPcs \subseteq Rest_
      /\ Rest_ \subseteq OutPcs /\ "void" \notin Rest_
  BY DEF OutPcs, Pcs, IdlePcs, ReadPcs, FlushPcs, MarkPcs
<1>4. IdleThread.page = -1 /\ IdleThread.pc = "idle"
  BY DEF IdleThread
<1> HIDE DEF Rest_
<1>5. ASSUME thread[t].pc \in {"idle", "try", "full", "claim", "lock"} \union FlushPcs
      PROVE  thread[t].page = -1 /\ thread[t].pc \notin ReadPcs \union {"void"}
  BY <1>5 DEF PageLess, ReadPcs, FlushPcs, MarkPcs
<1>6. ASSUME NEW where \in Rest_, Goto(t, where),
             thread[t].pc \in {"idle", "try", "full", "claim", "lock"} \union FlushPcs
      PROVE  OnlyOf(t) /\ OutForm(t)
  <2>1. /\ thread' = [thread EXCEPT ![t] = [thread[t] EXCEPT !.pc = where]]
        /\ [thread[t] EXCEPT !.pc = where].pc = where
        /\ [thread[t] EXCEPT !.pc = where].page = thread[t].page
    BY <1>1, <1>6 DEF Goto, ThreadType
  <2> QED BY <1>2, <1>3, <1>5, <1>6, <2>1 DEF OutForm
<1>7. ASSUME OnlyOf(t), thread'[t].page \in {-1, thread[t].page}, thread'[t].pc \in Rest_,
             thread[t].pc \in {"idle", "try", "full", "claim", "lock"} \union FlushPcs
      PROVE  OnlyOf(t) /\ OutForm(t)
  BY <1>3, <1>5, <1>7 DEF OutForm
<1>8. CASE MoveCall(t)
  <2>1. PICK seed \in Seeds :
          thread' = [thread EXCEPT ![t] =
                       [IdleThread EXCEPT !.pc = "try", !.dest = COMEX_hash(seed, COMEX_ID)]]
    BY <1>8 DEF MoveCall
  <2>2. thread'[t].page = -1 /\ thread'[t].pc = "try" /\ OnlyOf(t)
    BY <1>2, <2>1 DEF IdleThread
  <2> QED BY <1>3, <1>7, <1>8, <2>2 DEF MoveCall
<1>9. CASE TryLock(t) \/ TryLockFails(t)
  BY <1>3, <1>6, <1>9 DEF TryLock, TryLockFails
<1>10. CASE CheckFull(t)
  <2>1. PICK w \in {"lock", "claim"} : thread' = [thread EXCEPT ![t].pc = w, ![t].back = "claim"]
    BY <1>10 DEF CheckFull
  <2>2. OnlyOf(t) /\ thread'[t].page = thread[t].page /\ thread'[t].pc = w
    BY <1>1, <2>1 DEF OnlyOf, ThreadType
  <2> QED BY <1>3, <1>7, <1>10, <2>2 DEF CheckFull
<1>11. CASE Claim(t)
  <2> PICK d : d = thread[t].dest
    OBVIOUS
  <2>1. d \in Nodes /\ thread[t].pc = "claim"
    BY <1>1, <1>11 DEF ThreadType, Claim
  <2>2. Enter(t, d)
    BY <1>11, <2>1, EnterAt
  <2>3. thread'[t].pc = "void" /\ thread'[t].dest = d
    BY <1>1, <1>11 DEF Claim, ThreadType
  <2>4. "void" \in OutPcs
    BY DEF OutPcs, Pcs, ReadPcs
  <2> QED BY <1>5, <2>1, <2>2, <2>3, <2>4 DEF Enter, OnlyOf, OutForm, ClaimOf
<1>12. CASE NextNode(t)
  <2> DEFINE n == [thread[t] EXCEPT !.pc = "try", !.dest = COMEX_hash(thread[t].dest, COMEX_ID),
                                    !.i = thread[t].i + 1]
             r == IF thread[t].i + 1 < nMemNodes THEN n ELSE IdleThread
  <2>1. thread' = [thread EXCEPT ![t] = r]
    BY <1>12 DEF NextNode
  <2>2. n.pc = "try" /\ n.page = thread[t].page
    BY <1>1 DEF ThreadType
  <2> HIDE DEF n
  <2>3. r.pc \in {"try", "idle"} /\ r.page \in {-1, thread[t].page}
    BY <1>4, <2>2
  <2> HIDE DEF r
  <2> QED BY <1>2, <1>3, <1>7, <1>12, <2>1, <2>3 DEF NextNode
<1>13. CASE Fill(t)
  <2> DEFINE s == thread[t].slot  n == [IdleThread EXCEPT !.pc = "lock", !.dest = thread[t].dest]
             r == IF s % FLUSH = 0 /\ s # 0 THEN n ELSE IdleThread
  <2>1. thread' = [thread EXCEPT ![t] = r] /\ thread[t].pc = "fill"
    BY <1>13 DEF Fill
  <2>2. n.pc = "lock" /\ n.page = -1
    BY DEF IdleThread
  <2> HIDE DEF n
  <2>3. r.pc \in {"lock", "idle"} /\ r.page = -1
    BY <1>4, <2>2
  <2> HIDE DEF r
  <2>4. thread[t].pc \notin ReadPcs \union {"void"}
    BY <2>1 DEF ReadPcs
  <2> QED BY <1>2, <1>3, <2>1, <2>3, <2>4 DEF OutForm
<1>14. CASE FlushLock(t)
  <2>1. OnlyOf(t) /\ thread'[t].page = thread[t].page /\ thread'[t].pc = "while"
    BY <1>1, <1>14 DEF FlushLock, OnlyOf, ThreadType
  <2> QED BY <1>3, <1>7, <1>14, <2>1 DEF FlushLock, FlushPcs, MarkPcs
<1>15. CASE FlushWhile(t)
  <2>1. OnlyOf(t) /\ thread'[t].page = thread[t].page /\ thread'[t].pc \in {"post", "compare", "unlock"}
    BY <1>1, <1>15 DEF FlushWhile, OnlyOf, ThreadType
  <2> QED BY <1>3, <1>7, <1>15, <2>1 DEF FlushWhile, FlushPcs, MarkPcs
<1>16. CASE FlushCompare(t)
  <2>1. OnlyOf(t) /\ thread'[t].page = thread[t].page /\ thread'[t].pc = "check"
    BY <1>1, <1>16 DEF FlushCompare, OnlyOf, ThreadType
  <2> QED BY <1>3, <1>7, <1>16, <2>1 DEF FlushCompare, FlushPcs, MarkPcs
<1>17. CASE FlushPost(t)
  <2>1. OnlyOf(t) /\ thread'[t].page = thread[t].page /\ thread'[t].pc \in {"unlock", "rdma"}
    BY <1>1, <1>17 DEF FlushPost, OnlyOf, ThreadType
  <2> QED BY <1>3, <1>7, <1>17, <2>1 DEF FlushPost, FlushPcs, MarkPcs
<1>18. CASE FlushCheck(t)
  <2>1. PICK where \in {"post", "while"} : Goto(t, where)
    BY <1>18 DEF FlushCheck
  <2> QED BY <1>3, <1>6, <1>18, <2>1 DEF FlushCheck, FlushPcs, MarkPcs
<1>19. CASE RdmaWrite(t) \/ RdmaWriteFails(t) \/ FreeBuff(t)
  <2>1. PICK where \in {"free", "unlock"} : Goto(t, where)
    BY <1>19, Zenon DEF RdmaWrite, RdmaWriteFails, FreeBuff
  <2>2. thread[t].pc \in FlushPcs
    BY <1>19 DEF RdmaWrite, RdmaWriteFails, FreeBuff, FlushPcs
  <2> QED BY <1>3, <1>6, <2>1, <2>2 DEF FlushPcs
<1>20. CASE FlushUnlock(t)
  <2> DEFINE n == [IdleThread EXCEPT !.pc = "claim", !.dest = thread[t].dest, !.i = thread[t].i]
             r == IF thread[t].back = "claim" THEN n ELSE IdleThread
  <2>1. thread' = [thread EXCEPT ![t] = r]
    BY <1>20 DEF FlushUnlock
  <2>2. n.pc = "claim" /\ n.page = -1
    BY DEF IdleThread
  <2> HIDE DEF n
  <2>3. r.pc \in {"claim", "idle"} /\ r.page = -1
    BY <1>4, <2>2
  <2> HIDE DEF r
  <2> QED BY <1>2, <1>3, <1>7, <1>20, <2>1, <2>3 DEF FlushUnlock, FlushPcs
<1> QED BY <1>8, <1>9, <1>10, <1>11, <1>12, <1>13, <1>14, <1>15, <1>16, <1>17, <1>18, <1>19, <1>20
       DEF OutStep, ClaimStep, FlushStep

(* What each kind of step does to its thread.                               *)
LEMMA LookForm ==
  ASSUME ThreadInv, NEW t \in Threads, LookStep(t)
  PROVE  /\ OnlyOf(t) /\ thread[t].pc \in ReadPcs /\ thread'[t].pc \in ReadPcs
         /\ thread'[t].page = thread[t].page /\ thread'[t].dest = thread[t].dest
         /\ UNCHANGED <<pool, ring, peers, moved>>
<1>1. thread \in [Threads -> ThreadType] /\ thread[t] \in ThreadType
  BY DEF ThreadInv, TypeInv
<1>2. ASSUME NEW where \in ReadPcs, Goto(t, where)
      PROVE  /\ OnlyOf(t) /\ thread'[t].pc \in ReadPcs
             /\ thread'[t].page = thread[t].page /\ thread'[t].dest = thread[t].dest
  BY <1>1, <1>2 DEF Goto, OnlyOf, ThreadType
<1>3. {"rcopy", "rpre", "rprecopy", "rlock", "rread", "rmark", "rdone"} \subseteq ReadPcs
  BY DEF ReadPcs
<1>4. CASE LookInBuffer(t)
  <2>1. PICK pc \in {"rpre", "rcopy"} : \E slot : thread' = [thread EXCEPT ![t].pc = pc, ![t].slot = slot]
    BY <1>4 DEF LookInBuffer
  <2> QED BY <1>1, <1>3, <1>4, <2>1 DEF LookInBuffer, OnlyOf, ThreadType, ReadPcs
<1>5. CASE LookInPreFetch(t)
  <2>1. PICK where \in {"rprecopy", "rlock"} : Goto(t, where)
    BY <1>5 DEF LookInPreFetch
  <2> QED BY <1>2, <1>3, <1>5, <2>1 DEF LookInPreFetch, ReadPcs
<1>6. CASE CopyFromBuffer(t) \/ CopyFromPreFetch(t) \/ MarkBlock(t)
  BY <1>2, <1>3, <1>6, Zenon DEF CopyFromBuffer, CopyFromPreFetch, MarkBlock, Found, ReadPcs
<1>7. CASE LockBlock(t) \/ ReadBlock(t) \/ ReadBlockFails(t)
  BY <1>2, <1>3, <1>7 DEF LockBlock, ReadBlock, ReadBlockFails, ReadPcs
<1> QED BY <1>4, <1>5, <1>6, <1>7 DEF LookStep

LEMMA VoidForm ==
  ASSUME ThreadInv, NEW t \in Threads, VoidPreFetch(t)
  PROVE  /\ OnlyOf(t) /\ thread[t].pc = "void" /\ thread'[t].pc = "fill"
         /\ thread'[t].page = thread[t].page /\ thread'[t].dest = thread[t].dest
         /\ UNCHANGED <<pool, ring, peers, moved>>
BY DEF ThreadInv, TypeInv, VoidPreFetch, Goto, OnlyOf, ThreadType

ReadCallOf(t) ==
  /\ thread'[t].pc = "rbuf" /\ thread'[t].dest \in Nodes
  /\ thread'[t].page \in TakenOf(thread'[t].dest)
  /\ \A u \in Threads : thread[u].dest # thread'[t].dest \/ thread[u].page # thread'[t].page

LEMMA ReadCallForm ==
  ASSUME ThreadInv, NEW t \in Threads, ReadCall(t)
  PROVE  /\ OnlyOf(t) /\ thread[t].pc = "idle" /\ ReadCallOf(t) /\ thread'[t].page \in Nat
         /\ UNCHANGED <<pool, ring, peers, moved, readIn, mutex_buff, got>>
<1>1. thread \in [Threads -> ThreadType] /\ moved \in [Nodes -> SUBSET (Nat \X Nat)]
  BY DEF ThreadInv, TypeInv
<1>2. PICK d \in Nodes : \E c \in moved[d] :
        /\ \A u \in Threads : thread[u].dest # d \/ thread[u].page # c[1]
        /\ thread' = [thread EXCEPT ![t] = [IdleThread EXCEPT !.pc = "rbuf", !.dest = d, !.page = c[1]]]
  BY DEF ReadCall
<1>3. PICK c \in moved[d] :
        /\ \A u \in Threads : thread[u].dest # d \/ thread[u].page # c[1]
        /\ thread' = [thread EXCEPT ![t] = [IdleThread EXCEPT !.pc = "rbuf", !.dest = d, !.page = c[1]]]
  BY <1>2
<1>4. /\ OnlyOf(t) /\ thread'[t].pc = "rbuf" /\ thread'[t].dest = d /\ thread'[t].page = c[1]
  BY <1>1, <1>3 DEF OnlyOf, IdleThread
<1>5. c[1] \in Nat /\ c[1] \in TakenOf(d)
  BY <1>1 DEF TakenOf
<1> QED BY <1>3, <1>4, <1>5 DEF ReadCall, ReadCallOf, cache

LEMMA FreeForm ==
  ASSUME ThreadInv, NEW t \in Threads, FreeToRemote(t)
  PROVE  /\ OnlyOf(t) /\ thread[t].pc = "rdone" /\ thread'[t] = IdleThread
         /\ got' = [got EXCEPT ![t] = Nothing]
         /\ UNCHANGED <<pool, ring, peers, readIn, mutex_buff>>
BY DEF ThreadInv, TypeInv, FreeToRemote, OnlyOf, cache

(* The page of a thread after a step.                                       *)
NewPage(t) ==
  \/ thread'[t].page = -1 /\ thread'[t].pc \notin ReadPcs
  \/ /\ thread'[t].page = thread[t].page /\ thread'[t].dest = thread[t].dest
     /\ thread'[t].pc \in ReadPcs <=> thread[t].pc \in ReadPcs
  \/ ClaimOf(t)
  \/ ReadCallOf(t)

LEMMA PageSteps ==
  ASSUME PoolInv, ThreadInv, AloneInv, [ReadNext]_readVars
  PROVE  /\ thread' = thread \/ \E t \in Threads : OnlyOf(t) /\ NewPage(t)
         /\ \A t \in Threads : PageLess(thread'[t])
<1>1. \A t \in Threads : PageLess(thread[t])
  BY DEF AloneInv
<1>2. ASSUME NEW t \in Threads, OnlyOf(t), NewPage(t), PageLess(thread'[t])
      PROVE  (\E u \in Threads : OnlyOf(u) /\ NewPage(u)) /\ \A u \in Threads : PageLess(thread'[u])
  <2>1. ASSUME NEW u \in Threads PROVE PageLess(thread'[u])
    BY <1>1, <1>2 DEF OnlyOf
  <2> QED BY <1>2, <2>1
<1>3. ASSUME NEW t \in Threads, OutStep(t) PROVE OnlyOf(t) /\ NewPage(t) /\ PageLess(thread'[t])
  <2>1. OnlyOf(t) /\ OutForm(t)
    BY <1>1, <1>3, OutStepForm
  <2> QED BY <2>1 DEF OutForm, NewPage, PageLess, ClaimOf, OutPcs
<1>4. ASSUME NEW t \in Threads, VoidPreFetch(t) PROVE OnlyOf(t) /\ NewPage(t) /\ PageLess(thread'[t])
  BY <1>4, VoidForm DEF NewPage, PageLess, ReadPcs
<1>5. ASSUME NEW t \in Threads, ReadCall(t) PROVE OnlyOf(t) /\ NewPage(t) /\ PageLess(thread'[t])
  BY <1>5, ReadCallForm DEF NewPage, PageLess, ReadPcs, ReadCallOf
<1>6. ASSUME NEW t \in Threads, LookStep(t) PROVE OnlyOf(t) /\ NewPage(t) /\ PageLess(thread'[t])
  BY <1>6, LookForm DEF NewPage, PageLess
<1>7. ASSUME NEW t \in Threads, FreeToRemote(t) PROVE OnlyOf(t) /\ NewPage(t) /\ PageLess(thread'[t])
  BY <1>7, FreeForm DEF NewPage, PageLess, IdleThread, ReadPcs
<1> QED BY <1>1, <1>2, <1>3, <1>4, <1>5, <1>6, <1>7, ReadSorts

LEMMA AloneHeld == ReadSpec => []AloneInv
<1>1. ReadInit => AloneInv
  <2> SUFFICES ASSUME ReadInit PROVE AloneInv
    OBVIOUS
  <2>1. \A t \in Threads : thread[t] = IdleThread
    BY DEF ReadInit, Init
  <2>2. IdleThread.pc = "idle" /\ IdleThread.page = -1
    BY DEF IdleThread
  <2> QED BY <2>1, <2>2 DEF AloneInv, PageLess, Alone, Reads, ReadPcs
<1>2. ASSUME PoolInv, ThreadInv, GivenInv, AloneInv, [ReadNext]_readVars PROVE AloneInv'
  <2> SUFFICES ASSUME NEW t \in Threads, NEW d \in Nodes, Reads(thread'[t], d)
               PROVE  /\ thread'[t].page \in Nat /\ thread'[t].page \notin PagesOf(free_group'[d])
                      /\ \A u \in Threads : u # t => thread'[u].dest # d \/ thread'[u].page # thread'[t].page
    BY <1>2, PageSteps DEF AloneInv, Alone, PageLess
  <2> PICK p : p = thread'[t].page
    OBVIOUS
  <2>1. \A q \in PagesOf(free_group'[d]) \ PagesOf(free_group[d]) : q \notin InUse(d)
    BY <1>2, PoolGrows
  <2>2. ASSUME Reads(thread[t], d), thread[t].page = p
        PROVE  /\ p \in Nat /\ p \notin PagesOf(free_group[d]) /\ p \notin PagesOf(free_group'[d])
               /\ \A u \in Threads : u # t => thread[u].dest # d \/ thread[u].page # p
    <3>1. /\ p \in Nat /\ p \notin PagesOf(free_group[d])
          /\ \A u \in Threads : u # t => thread[u].dest # d \/ thread[u].page # p
      BY <1>2, <2>2 DEF AloneInv, Alone
    <3>2. p \in InUse(d)
      BY <2>2 DEF InUse, Reads
    <3> QED BY <2>1, <3>1, <3>2
  <2>3. CASE thread' = thread
    BY <2>2, <2>3
  <2>4. ASSUME NEW s \in Threads, OnlyOf(s), NewPage(s), s # t
        PROVE  /\ p \in Nat /\ p \notin PagesOf(free_group'[d])
               /\ \A u \in Threads : u # t => thread'[u].dest # d \/ thread'[u].page # p
    <3>1. thread'[t] = thread[t]
      BY <2>4 DEF OnlyOf
    <3>2. /\ p \in Nat /\ p \notin PagesOf(free_group[d]) /\ p \notin PagesOf(free_group'[d])
          /\ \A u \in Threads : u # t => thread[u].dest # d \/ thread[u].page # p
      BY <2>2, <3>1
    <3>3. thread'[s].dest # d \/ thread'[s].page # p
      <4>1. CASE ClaimOf(s)
        <5>1. thread'[s].dest = d => thread'[s].page \in PagesOf(free_group[d])
          BY <1>2, <4>1, PoolGrows DEF ClaimOf
        <5> QED BY <3>2, <5>1
      <4>2. CASE ReadCallOf(s)
        BY <2>4, <3>1, <4>2 DEF ReadCallOf, Reads
      <4> QED BY <2>4, <3>2, <4>1, <4>2 DEF NewPage
    <3> QED BY <2>4, <3>2, <3>3 DEF OnlyOf
  <2>5. ASSUME OnlyOf(t), NewPage(t)
        PROVE  /\ p \in Nat /\ p \notin PagesOf(free_group'[d])
               /\ \A u \in Threads : u # t => thread'[u].dest # d \/ thread'[u].page # p
    <3>1. CASE Reads(thread[t], d) /\ thread[t].page = p
      BY <2>2, <2>5, <3>1 DEF OnlyOf
    <3>2. CASE ReadCallOf(t)
      <4>1. thread'[t].dest = d /\ p \in TakenOf(d)
        BY <3>2 DEF ReadCallOf, Reads
      <4>2. p \notin PagesOf(free_group[d])
        BY <1>2, <4>1 DEF GivenInv, Given
      <4>3. p \in InUse(d)
        BY <4>1 DEF TakenOf, InUse
      <4>4. p \in Nat
        BY <1>2, <4>1 DEF ThreadInv, TypeInv, TakenOf
      <4> QED BY <2>1, <2>5, <3>2, <4>1, <4>2, <4>3, <4>4 DEF ReadCallOf, OnlyOf
    <3>3. ~ClaimOf(t)
      BY DEF ClaimOf, Reads, ReadPcs
    <3> QED BY <2>5, <3>1, <3>2, <3>3 DEF NewPage, Reads
  <2> QED BY <1>2, <2>3, <2>4, <2>5, PageSteps
<1> QED BY <1>1, <1>2, PoolHeld, ThreadHeld, GivenHeld, PTL DEF ReadSpec

-----------------------------------------------------------------------------
(* The cache.  An entry is of the thread that has the mutex of its block      *)
(* until it is marked.                                                      *)

EntryForm(x) == x \in [status : {-1, 2}, nodeID : Int, pageNO : Int, data : {x.data}]
Fetches(r)   == r.pc \in {"rread", "rmark"}
BlockOf(t)   == Entry(BlockHead(thread[t].page))
BlockInv ==
  /\ readIn = [e \in Entries |-> readIn[e]] /\ \A e \in Entries : EntryForm(readIn[e])
  /\ mutex_buff \in [Entries -> Threads \union {None}] /\ got = [t \in Threads |-> got[t]]
  /\ \A t \in Threads : Fetches(thread[t]) =>
       /\ mutex_buff[BlockOf(t)] = t
       /\ \A e \in BlockEntries(t) : readIn[e].status = -1

Relabelled(x, s, d, p) == [x EXCEPT !.status = s, !.nodeID = d, !.pageNO = p]
Reread(x, z)           == [x EXCEPT !.data = z]

LEMMA EntryNew ==
  ASSUME NEW x, EntryForm(x), NEW s \in {-1, 2}, NEW d \in Int, NEW p \in Int
  PROVE  LET y == Relabelled(x, s, d, p) IN
         EntryForm(y) /\ y.status = s /\ y.nodeID = d /\ y.pageNO = p /\ y.data = x.data
<1> PICK w, y : w = x.data /\ y = Relabelled(x, s, d, p)
  OBVIOUS
<1>1. x \in [status : {-1, 2}, nodeID : Int, pageNO : Int, data : {w}]
  BY DEF EntryForm
<1>2. /\ y \in [status : {-1, 2}, nodeID : Int, pageNO : Int, data : {w}]
      /\ y.status = s /\ y.nodeID = d /\ y.pageNO = p /\ y.data = w
  BY <1>1 DEF Relabelled
<1> QED BY <1>2 DEF EntryForm

LEMMA EntryRead ==
  ASSUME NEW x, EntryForm(x), NEW z
  PROVE  LET y == Reread(x, z) IN
         /\ EntryForm(y) /\ y.data = z
         /\ y.status = x.status /\ y.nodeID = x.nodeID /\ y.pageNO = x.pageNO
<1> PICK w, y : w = x.data /\ y = Reread(x, z)
  OBVIOUS
<1>1. x \in [status : {-1, 2}, nodeID : Int, pageNO : Int, data : {w}]
  BY DEF EntryForm
<1>2. /\ y \in [status : {-1, 2}, nodeID : Int, pageNO : Int, data : {z}]
      /\ y.status = x.status /\ y.nodeID = x.nodeID /\ y.pageNO = x.pageNO /\ y.data = z
  BY <1>1 DEF Reread
<1> QED BY <1>2 DEF EntryForm

(* An entry may lose its page, and its data may become unsure.               *)
Fades(e) ==
  /\ readIn'[e].data \in {readIn[e].data, Unsure}
  /\ \/ readIn'[e].status = -1
     \/ /\ readIn'[e].status = readIn[e].status
        /\ readIn'[e].nodeID = readIn[e].nodeID /\ readIn'[e].pageNO = readIn[e].pageNO

LEMMA VoidCache ==
  ASSUME ThreadInv, BlockInv, NEW t \in Threads, VoidPreFetch(t)
  PROVE  LET d == thread[t].dest  p == thread[t].page  k == Entry(p) IN
         /\ readIn' = [e \in Entries |-> readIn'[e]]
         /\ \A e \in Entries : EntryForm(readIn'[e]) /\ Fades(e)
         /\ BeingRead(d, p) => readIn'[k].data = Unsure
         /\ ~(readIn'[k].nodeID = d /\ readIn'[k].pageNO = p)
         /\ UNCHANGED <<mutex_buff, got>>
<1> PICK d, p, k : d = thread[t].dest /\ p = thread[t].page /\ k = Entry(p)
  OBVIOUS
<1>1. p \in Nat /\ d \in Nodes
  BY DEF ThreadInv, TypeInv, ThreadType, FillForms, Fills, VoidPreFetch
<1>2. k \in Entries /\ d \in Nat
  <2>1. Entry(p) \in Entries
    BY <1>1, BlockPlace
  <2>2. nMemNodes \in Nat
    BY WriteOutConstants
  <2> QED BY <1>1, <2>1, <2>2 DEF Nodes
<1> PICK a : a = AfterVoid(d, p)
  OBVIOUS
<1>3. readIn' = [a EXCEPT ![k].data = IF BeingRead(d, p) THEN Unsure ELSE @]
  BY DEF VoidPreFetch
<1>4. /\ a = [e \in Entries |-> a[e]]
      /\ \A e \in Entries : e # k => a[e] = readIn[e]
      /\ EntryForm(a[k]) /\ a[k].data = readIn[k].data
      /\ ~(a[k].nodeID = d /\ a[k].pageNO = p)
      /\ \/ a[k].status = -1
         \/ a[k] = readIn[k]
  <2>1. EntryForm(readIn[k]) /\ readIn = [e \in Entries |-> readIn[e]]
    BY <1>2 DEF BlockInv
  <2>2. CASE Caches(k, d, p)
    <3>1. a = [readIn EXCEPT ![k].status = -1, ![k].nodeID = -1, ![k].pageNO = -1]
      BY <2>2 DEF AfterVoid
    <3>2. /\ a[k] = [readIn[k] EXCEPT !.status = -1, !.nodeID = -1, !.pageNO = -1]
          /\ a = [e \in Entries |-> a[e]] /\ \A e \in Entries : e # k => a[e] = readIn[e]
      BY <1>2, <2>1, <3>1
    <3>3. EntryForm(a[k]) /\ a[k].data = readIn[k].data /\ a[k].status = -1 /\ a[k].nodeID = -1
      <4> PICK x, y : x = readIn[k] /\ y = a[k]
        OBVIOUS
      <4>1. y = Relabelled(x, -1, -1, -1)
        BY <3>2 DEF Relabelled
      <4>2. EntryForm(x)
        BY <2>1
      <4>3. -1 \in {-1, 2} /\ -1 \in Int
        OBVIOUS
      <4>4. EntryForm(y) /\ y.data = x.data /\ y.status = -1 /\ y.nodeID = -1
        BY ONLY <4>1, <4>2, <4>3, EntryNew
      <4> QED BY <4>4
    <3> QED BY <1>2, <3>2, <3>3
  <2>3. CASE ~Caches(k, d, p)
    BY <2>1, <2>3, Zenon DEF AfterVoid, Caches
  <2> QED BY <2>2, <2>3
<1>5. /\ readIn' = [e \in Entries |-> readIn'[e]]
      /\ \A e \in Entries : e # k => readIn'[e] = readIn[e]
      /\ \E x \in {a[k].data, Unsure} : /\ readIn'[k] = [a[k] EXCEPT !.data = x]
                                        /\ BeingRead(d, p) => x = Unsure
  <2> PICK x : x = IF BeingRead(d, p) THEN Unsure ELSE a[k].data
    OBVIOUS
  <2>1. readIn' = [a EXCEPT ![k].data = x]
    BY <1>3
  <2> HIDE DEF BeingRead
  <2> QED BY <1>2, <1>4, <2>1
<1> PICK x \in {a[k].data, Unsure} : readIn'[k] = [a[k] EXCEPT !.data = x] /\ (BeingRead(d, p) => x = Unsure)
  BY <1>5
<1>6. /\ readIn'[k].data = x /\ readIn'[k].status = a[k].status /\ readIn'[k].nodeID = a[k].nodeID
      /\ readIn'[k].pageNO = a[k].pageNO /\ EntryForm(readIn'[k])
  <2>1. readIn'[k] = Reread(a[k], x)
    BY DEF Reread
  <2>2. EntryForm(a[k])
    BY <1>4, Zenon
  <2> QED BY ONLY <2>1, <2>2, EntryRead
<1>7. Fades(k)
  BY <1>4, <1>6, Zenon DEF Fades
<1>8. \A e \in Entries : EntryForm(readIn'[e]) /\ Fades(e)
  BY <1>5, <1>6, <1>7, Zenon DEF BlockInv, Fades
<1>9. ~(readIn'[k].nodeID = d /\ readIn'[k].pageNO = p)
  BY <1>4, <1>6
<1>10. UNCHANGED <<mutex_buff, got>>
  BY DEF VoidPreFetch
<1>11. BeingRead(d, p) => readIn'[k].data = Unsure
  BY <1>5, <1>6
<1> QED BY <1>5, <1>8, <1>9, <1>10, <1>11

(* What the steps of a reader do to the entries of its block.                *)
LEMMA LockCache ==
  ASSUME BlockInv, NEW t \in Threads, thread[t].page \in Nat, LockBlock(t)
  PROVE  /\ readIn' = [e \in Entries |-> readIn'[e]]
         /\ \A e \in Entries : /\ EntryForm(readIn'[e]) /\ Fades(e)
                               /\ e \in BlockEntries(t) => readIn'[e].status = -1
         /\ mutex_buff[BlockOf(t)] = None /\ mutex_buff' = [mutex_buff EXCEPT ![BlockOf(t)] = t]
         /\ thread[t].pc = "rlock" /\ Goto(t, "rread") /\ UNCHANGED got
<1>1. readIn' = [e \in Entries |->
                  IF e \in BlockEntries(t)
                  THEN [readIn[e] EXCEPT !.status = -1, !.nodeID = -1, !.pageNO = -1] ELSE readIn[e]]
  BY DEF LockBlock
<1>2. ASSUME NEW e \in Entries
      PROVE  EntryForm(readIn'[e]) /\ Fades(e) /\ (e \in BlockEntries(t) => readIn'[e].status = -1)
  <2>1. EntryForm(readIn[e])
    BY DEF BlockInv
  <2>2. CASE e \in BlockEntries(t)
    <3>1. readIn'[e] = [readIn[e] EXCEPT !.status = -1, !.nodeID = -1, !.pageNO = -1]
      BY <1>1, <2>2
    <3>2. EntryForm(readIn'[e]) /\ readIn'[e].data = readIn[e].data /\ readIn'[e].status = -1
      <4> PICK x, y : x = readIn[e] /\ y = readIn'[e]
        OBVIOUS
      <4>1. y = Relabelled(x, -1, -1, -1)
        BY <3>1 DEF Relabelled
      <4>2. EntryForm(x)
        BY <2>1
      <4>3. -1 \in {-1, 2} /\ -1 \in Int
        OBVIOUS
      <4>4. EntryForm(y) /\ y.data = x.data /\ y.status = -1
        BY ONLY <4>1, <4>2, <4>3, EntryNew
      <4> QED BY <4>4
    <3> QED BY <3>2 DEF Fades
  <2>3. CASE e \notin BlockEntries(t)
    BY <1>1, <2>1, <2>3 DEF Fades
  <2> QED BY <2>2, <2>3
<1>3. readIn' = [e \in Entries |-> readIn'[e]]
  BY <1>1
<1> QED BY <1>2, <1>3 DEF LockBlock, BlockOf

FarPage(d, p) == IF p \in DOMAIN remote[d] THEN remote[d][p] ELSE Nothing
LEMMA ReadCache ==
  ASSUME BlockInv, NEW t \in Threads, ReadBlock(t) \/ ReadBlockFails(t)
  PROVE  /\ readIn' = [e \in Entries |-> readIn'[e]]
         /\ \A e \in Entries :
              /\ EntryForm(readIn'[e]) /\ readIn'[e].status = readIn[e].status
              /\ e \notin BlockEntries(t) => readIn'[e] = readIn[e]
              /\ e \in BlockEntries(t) =>
                   \/ readIn'[e].data = Unsure
                   \/ /\ ~OnItsWay(thread[t].dest, PageOf(t, e))
                      /\ readIn'[e].data = FarPage(thread[t].dest, PageOf(t, e))
         /\ thread[t].pc = "rread" /\ Goto(t, "rmark") /\ UNCHANGED <<mutex_buff, got>>
<1>1. \E f : /\ readIn' = [e \in Entries |->
                  IF e \in BlockEntries(t) THEN [readIn[e] EXCEPT !.data = f[e]] ELSE readIn[e]]
             /\ \A e \in BlockEntries(t) :
                  \/ f[e] = Unsure
                  \/ /\ ~OnItsWay(thread[t].dest, PageOf(t, e))
                     /\ f[e] = FarPage(thread[t].dest, PageOf(t, e))
  <2>1. CASE ReadBlockFails(t)
    <3> DEFINE f == [e \in BlockEntries(t) |-> Unsure]
    <3>1. \A e \in BlockEntries(t) : f[e] = Unsure
      OBVIOUS
    <3>2. readIn' = [e \in Entries |->
                  IF e \in BlockEntries(t) THEN [readIn[e] EXCEPT !.data = Unsure] ELSE readIn[e]]
      BY <2>1 DEF ReadBlockFails
    <3> HIDE DEF f
    <3>3. readIn' = [e \in Entries |->
                  IF e \in BlockEntries(t) THEN [readIn[e] EXCEPT !.data = f[e]] ELSE readIn[e]]
      BY <3>1, <3>2, Zenon
    <3> QED BY <3>1, <3>3
  <2>2. CASE ReadBlock(t)
    <3> DEFINE d == thread[t].dest
               far(p) == IF OnItsWay(d, p) THEN Unsure
                         ELSE IF p \in DOMAIN remote[d] THEN remote[d][p] ELSE Nothing
               f == [e \in BlockEntries(t) |-> far(PageOf(t, e))]
    <3>1. \A e \in BlockEntries(t) : f[e] = far(PageOf(t, e))
      OBVIOUS
    <3>2. readIn' = [e \in Entries |->
                  IF e \in BlockEntries(t) THEN [readIn[e] EXCEPT !.data = far(PageOf(t, e))] ELSE readIn[e]]
      BY <2>2 DEF ReadBlock
    <3>4. \A p : far(p) = Unsure \/ (~OnItsWay(d, p) /\ far(p) = FarPage(d, p))
      BY DEF FarPage
    <3> HIDE DEF f, far, d
    <3>3. readIn' = [e \in Entries |->
                  IF e \in BlockEntries(t) THEN [readIn[e] EXCEPT !.data = f[e]] ELSE readIn[e]]
      BY <3>1, <3>2, Zenon
    <3> QED BY <3>1, <3>3, <3>4 DEF d
  <2> QED BY <2>1, <2>2
<1> PICK f : /\ readIn' = [e \in Entries |->
                  IF e \in BlockEntries(t) THEN [readIn[e] EXCEPT !.data = f[e]] ELSE readIn[e]]
             /\ \A e \in BlockEntries(t) :
                  \/ f[e] = Unsure
                  \/ /\ ~OnItsWay(thread[t].dest, PageOf(t, e))
                     /\ f[e] = FarPage(thread[t].dest, PageOf(t, e))
  BY <1>1
<1> HIDE DEF BlockEntries
<1>2. ASSUME NEW e \in Entries, e \in BlockEntries(t)
      PROVE  EntryForm(readIn'[e]) /\ readIn'[e].status = readIn[e].status /\ readIn'[e].data = f[e]
  <2>1. readIn'[e] = Reread(readIn[e], f[e]) /\ EntryForm(readIn[e])
    BY <1>2 DEF BlockInv, Reread
  <2> QED BY <2>1, EntryRead
<1>3. ASSUME NEW e \in Entries, e \notin BlockEntries(t) PROVE readIn'[e] = readIn[e] /\ EntryForm(readIn'[e])
  BY <1>3 DEF BlockInv
<1>4. readIn' = [e \in Entries |-> readIn'[e]]
  OBVIOUS
<1>5. thread[t].pc = "rread" /\ Goto(t, "rmark") /\ UNCHANGED <<mutex_buff, got>>
  BY DEF ReadBlock, ReadBlockFails
<1> QED BY <1>2, <1>3, <1>4, <1>5

LEMMA MarkCache ==
  ASSUME ThreadInv, BlockInv, NEW t \in Threads, thread[t].page \in Nat, MarkBlock(t)
  PROVE  /\ readIn' = [e \in Entries |-> readIn'[e]]
         /\ \A e \in Entries :
              /\ EntryForm(readIn'[e]) /\ readIn'[e].data = readIn[e].data
              /\ e \notin BlockEntries(t) => readIn'[e] = readIn[e]
              /\ e \in BlockEntries(t) =>
                   readIn'[e].nodeID = thread[t].dest /\ readIn'[e].pageNO = PageOf(t, e)
         /\ mutex_buff' = [mutex_buff EXCEPT ![BlockOf(t)] = None]
         /\ thread[t].pc = "rmark" /\ Goto(t, "rdone")
         /\ got' = [got EXCEPT ![t] = readIn[Entry(thread[t].page)].data]
<1>1. readIn' = [e \in Entries |->
                  IF e \in BlockEntries(t)
                  THEN [readIn[e] EXCEPT !.status = 2, !.nodeID = thread[t].dest, !.pageNO = PageOf(t, e)]
                  ELSE readIn[e]]
  BY DEF MarkBlock
<1>2. thread[t].dest \in Int /\ \A e \in BlockEntries(t) : PageOf(t, e) \in Int
  <2>1. \A e \in BlockEntries(t) : PageOf(t, e) \in Nat
    BY BlockForm
  <2>2. thread[t].dest \in Nodes /\ nMemNodes \in Nat
    BY WriteOutConstants DEF ThreadInv, TypeInv, ThreadType
  <2> QED BY <2>1, <2>2 DEF Nodes
<1>3. ASSUME NEW e \in Entries, e \in BlockEntries(t)
      PROVE  /\ EntryForm(readIn'[e]) /\ readIn'[e].data = readIn[e].data
             /\ readIn'[e].nodeID = thread[t].dest /\ readIn'[e].pageNO = PageOf(t, e)
  <2> PICK d, p : d = thread[t].dest /\ p = PageOf(t, e)
    OBVIOUS
  <2>1. readIn'[e] = Relabelled(readIn[e], 2, d, p) /\ EntryForm(readIn[e]) /\ d \in Int /\ p \in Int
    BY <1>1, <1>2, <1>3 DEF BlockInv, Relabelled
  <2> QED BY <2>1, EntryNew
<1>4. ASSUME NEW e \in Entries, e \notin BlockEntries(t) PROVE readIn'[e] = readIn[e] /\ EntryForm(readIn'[e])
  BY <1>1, <1>4 DEF BlockInv
<1>5. readIn' = [e \in Entries |-> readIn'[e]]
  BY <1>1
<1> QED BY <1>3, <1>4, <1>5 DEF MarkBlock, Found, BlockOf

(* A reader has a page.                                                     *)
LEMMA ReaderPage ==
  ASSUME ThreadInv, AloneInv, NEW t \in Threads, thread[t].pc \in ReadPcs
  PROVE  thread[t].page \in Nat /\ thread[t].dest \in Nodes
<1>1. thread[t].dest \in Nodes
  BY DEF ThreadInv, TypeInv, ThreadType
<1> QED BY <1>1 DEF AloneInv, Alone, Reads

LEMMA BlocksApart ==
  ASSUME ThreadInv, AloneInv, BlockInv, NEW t \in Threads, NEW u \in Threads, t # u,
         Fetches(thread[t]), Fetches(thread[u])
  PROVE  BlockEntries(t) \cap BlockEntries(u) = {} /\ BlockOf(t) # BlockOf(u)
<1>1. thread[t].page \in Nat /\ thread[u].page \in Nat
  BY ReaderPage DEF Fetches, ReadPcs
<1>2. BlockOf(t) # BlockOf(u)
  BY DEF BlockInv
<1>3. /\ \A e \in BlockEntries(t) : BlockOf(t) = e - (e % PreF_SIZE)
      /\ \A e \in BlockEntries(u) : BlockOf(u) = e - (e % PreF_SIZE)
  BY <1>1, BlockForm DEF BlockOf
<1> QED BY <1>2, <1>3

LEMMA SameBlock ==
  ASSUME NEW t \in Threads, thread'[t].page = thread[t].page, thread'[t].dest = thread[t].dest
  PROVE  /\ BlockOf(t)' = BlockOf(t) /\ BlockEntries(t)' = BlockEntries(t)
         /\ \A e : PageOf(t, e)' = PageOf(t, e)
BY DEF BlockOf, BlockEntries, PageOf

BlockHas(t) ==
  Fetches(thread[t]) =>
    /\ mutex_buff[BlockOf(t)] = t
    /\ \A e \in BlockEntries(t) : readIn[e].status = -1
CacheForm ==
  /\ readIn = [e \in Entries |-> readIn[e]] /\ \A e \in Entries : EntryForm(readIn[e])
  /\ mutex_buff \in [Entries -> Threads \union {None}] /\ got = [t \in Threads |-> got[t]]

LEMMA BlockHeld == ReadSpec => []BlockInv
<1>0. BlockInv <=> CacheForm /\ \A t \in Threads : BlockHas(t)
  BY DEF BlockInv, BlockHas, CacheForm
<1>10. BlockInv' <=> CacheForm' /\ \A t \in Threads : BlockHas(t)'
  BY DEF BlockInv, BlockHas, CacheForm
<1>1. ReadInit => BlockInv
  <2> SUFFICES ASSUME ReadInit PROVE BlockInv
    OBVIOUS
  <2>1. \A t \in Threads : thread[t].pc = "idle"
    BY DEF ReadInit, Init, IdleThread
  <2>2. \A t \in Threads : BlockHas(t)
    BY <2>1 DEF BlockHas, Fetches
  <2>3. EntryForm(EmptyEntry)
    BY DEF EntryForm, EmptyEntry
  <2>4. CacheForm
    BY <2>3 DEF ReadInit, CacheForm
  <2> QED BY <1>0, <2>2, <2>4
<1>2. ASSUME PoolInv, ThreadInv, AloneInv, BlockInv, [ReadNext]_readVars PROVE BlockInv'
  <2>1. CacheForm /\ \A t \in Threads : BlockHas(t)
    BY <1>0, <1>2
  <2>2. ASSUME NEW u \in Threads, thread'[u] = thread[u], UNCHANGED <<readIn, mutex_buff>> PROVE BlockHas(u)'
    <3>1. BlockOf(u)' = BlockOf(u) /\ BlockEntries(u)' = BlockEntries(u)
      BY <2>2, SameBlock
    <3> QED BY <2>1, <2>2, <3>1 DEF BlockHas
  <2>3. ASSUME NEW t \in Threads, OnlyOf(t), UNCHANGED <<readIn, mutex_buff>>, ~Fetches(thread'[t]),
               got' = got \/ \E x : got' = [got EXCEPT ![t] = x]
        PROVE  BlockInv'
    <3>1. CacheForm'
      BY <2>1, <2>3 DEF CacheForm
    <3>2. ASSUME NEW u \in Threads PROVE BlockHas(u)'
      BY <2>2, <2>3 DEF OnlyOf, BlockHas
    <3> QED BY <1>10, <3>1, <3>2
  <2>4. ASSUME NEW t \in Threads, OnlyOf(t), UNCHANGED got, readIn' = [e \in Entries |-> readIn'[e]],
               \A e \in Entries : EntryForm(readIn'[e]) /\ (readIn'[e].status = -1 \/ readIn'[e].status = readIn[e].status),
               mutex_buff' \in [Entries -> Threads \union {None}],
               \A u \in Threads : u # t /\ mutex_buff[BlockOf(u)] = u => mutex_buff'[BlockOf(u)] = u,
               BlockHas(t)'
        PROVE  BlockInv'
    <3>1. CacheForm'
      BY <2>1, <2>4 DEF CacheForm
    <3>2. ASSUME NEW u \in Threads, u # t PROVE BlockHas(u)'
      <4> SUFFICES ASSUME Fetches(thread'[u]) PROVE BlockHas(u)'
        BY DEF BlockHas
      <4>1. thread'[u] = thread[u] /\ Fetches(thread[u])
        BY <2>4, <3>2 DEF OnlyOf
      <4>2. BlockOf(u)' = BlockOf(u) /\ BlockEntries(u)' = BlockEntries(u)
        BY <4>1, SameBlock
      <4>3. BlockEntries(u) \subseteq Entries
        BY <1>2, <4>1, ReaderPage, BlockForm DEF Fetches, ReadPcs
      <4>4. mutex_buff[BlockOf(u)] = u /\ \A e \in BlockEntries(u) : readIn[e].status = -1
        BY <2>1, <4>1 DEF BlockHas
      <4>5. \A e \in BlockEntries(u) : readIn'[e].status = -1
        BY <2>4, <4>3, <4>4
      <4>6. mutex_buff'[BlockOf(u)] = u
        BY <2>4, <3>2, <4>4
      <4> QED BY <4>2, <4>5, <4>6 DEF BlockHas
    <3> QED BY <1>10, <2>4, <3>1, <3>2
  <2>5. CASE UNCHANGED <<thread, readIn, mutex_buff, got>>
    <3>1. CacheForm'
      BY <2>1, <2>5 DEF CacheForm
    <3> QED BY <1>10, <2>2, <2>5, <3>1
  <2>6. ASSUME NEW t \in Threads, OutStep(t), UNCHANGED <<readIn, mutex_buff, got>> PROVE BlockInv'
    <3>1. OnlyOf(t) /\ OutForm(t)
      BY <1>2, <2>6, OutStepForm DEF AloneInv
    <3>2. ~Fetches(thread'[t])
      BY <3>1 DEF OutForm, OutPcs, Fetches, ReadPcs
    <3> QED BY <2>3, <2>6, <3>1, <3>2
  <2>7. ASSUME NEW t \in Threads, VoidPreFetch(t) PROVE BlockInv'
    <3>1. OnlyOf(t) /\ thread'[t].pc = "fill"
      BY <1>2, <2>7, VoidForm
    <3>2. /\ readIn' = [e \in Entries |-> readIn'[e]]
          /\ \A e \in Entries : EntryForm(readIn'[e]) /\ Fades(e)
          /\ UNCHANGED <<mutex_buff, got>>
      BY <1>2, <2>7, VoidCache
    <3>3. BlockHas(t)'
      BY <3>1 DEF BlockHas, Fetches
    <3>4. mutex_buff' \in [Entries -> Threads \union {None}]
      BY <2>1, <3>2 DEF CacheForm
    <3> QED BY <2>4, <3>1, <3>2, <3>3, <3>4 DEF Fades
  <2>8. ASSUME NEW t \in Threads, ReadCall(t) PROVE BlockInv'
    <3>1. OnlyOf(t) /\ thread'[t].pc = "rbuf" /\ UNCHANGED <<readIn, mutex_buff, got>>
      BY <1>2, <2>8, ReadCallForm DEF ReadCallOf
    <3> QED BY <2>3, <3>1 DEF Fetches
  <2>9. ASSUME NEW t \in Threads, FreeToRemote(t) PROVE BlockInv'
    <3>1. OnlyOf(t) /\ thread'[t] = IdleThread /\ UNCHANGED <<readIn, mutex_buff>>
          /\ got' = [got EXCEPT ![t] = Nothing]
      BY <1>2, <2>9, FreeForm
    <3>2. thread'[t].pc = "idle"
      BY <3>1 DEF IdleThread
    <3> QED BY <2>3, <3>1, <3>2 DEF Fetches
  <2>10. ASSUME NEW t \in Threads,
                LookInBuffer(t) \/ CopyFromBuffer(t) \/ LookInPreFetch(t) \/ CopyFromPreFetch(t)
         PROVE  BlockInv'
    <3>1. OnlyOf(t)
      BY <1>2, <2>10, LookForm DEF LookStep
    <3>2. thread[t] \in ThreadType /\ thread \in [Threads -> ThreadType]
      BY <1>2 DEF ThreadInv, TypeInv
    <3>3. UNCHANGED <<readIn, mutex_buff>>
      BY <2>10 DEF LookInBuffer, CopyFromBuffer, LookInPreFetch, CopyFromPreFetch, cache
    <3>4. got' = got \/ \E x : got' = [got EXCEPT ![t] = x]
      BY <2>10 DEF LookInBuffer, CopyFromBuffer, LookInPreFetch, CopyFromPreFetch, Found
    <3>5. ~Fetches(thread'[t])
      <4>1. CASE LookInBuffer(t)
        <5>1. PICK pc \in {"rpre", "rcopy"} : \E slot : thread' = [thread EXCEPT ![t].pc = pc, ![t].slot = slot]
          BY <4>1 DEF LookInBuffer
        <5> QED BY <3>2, <5>1 DEF Fetches, ThreadType
      <4>2. CASE LookInPreFetch(t)
        <5>1. PICK where \in {"rprecopy", "rlock"} : Goto(t, where)
          BY <4>2 DEF LookInPreFetch
        <5> QED BY <3>2, <5>1 DEF Goto, Fetches, ThreadType
      <4>3. CASE CopyFromBuffer(t) \/ CopyFromPreFetch(t)
        <5>1. Goto(t, "rdone")
          BY <4>3 DEF CopyFromBuffer, CopyFromPreFetch, Found
        <5> QED BY <3>2, <5>1 DEF Goto, Fetches, ThreadType
      <4> QED BY <2>10, <4>1, <4>2, <4>3
    <3> QED BY <2>3, <3>1, <3>3, <3>4, <3>5
  <2>11. ASSUME NEW t \in Threads, LockBlock(t) \/ ReadBlock(t) \/ ReadBlockFails(t) \/ MarkBlock(t)
         PROVE  BlockInv'
    <3>1. /\ OnlyOf(t) /\ thread[t].pc \in ReadPcs
          /\ thread'[t].page = thread[t].page /\ thread'[t].dest = thread[t].dest
      BY <1>2, <2>11, LookForm DEF LookStep
    <3>2. thread[t].page \in Nat
      BY <1>2, <3>1, ReaderPage
    <3>3. BlockOf(t)' = BlockOf(t) /\ BlockEntries(t)' = BlockEntries(t) /\ BlockEntries(t) \subseteq Entries
      BY <3>1, <3>2, SameBlock, BlockForm
    <3>4. BlockOf(t) \in Entries
      BY <3>2, BlockPlace DEF BlockOf
    <3>5. thread \in [Threads -> ThreadType] /\ thread[t] \in ThreadType /\ None \notin Threads
      BY <1>2, WriteOutConstants DEF ThreadInv, TypeInv
    <3>6. CASE LockBlock(t)
      <4>1. /\ readIn' = [e \in Entries |-> readIn'[e]]
            /\ \A e \in Entries : /\ EntryForm(readIn'[e]) /\ Fades(e)
                                  /\ e \in BlockEntries(t) => readIn'[e].status = -1
            /\ mutex_buff[BlockOf(t)] = None /\ mutex_buff' = [mutex_buff EXCEPT ![BlockOf(t)] = t]
            /\ UNCHANGED got
        BY <1>2, <3>2, <3>6, LockCache
      <4>2. /\ mutex_buff' \in [Entries -> Threads \union {None}] /\ mutex_buff'[BlockOf(t)] = t
            /\ \A k : k # BlockOf(t) => mutex_buff'[k] = mutex_buff[k]
        BY <2>1, <3>4, <4>1 DEF CacheForm
      <4>3. \A u \in Threads : u # t /\ mutex_buff[BlockOf(u)] = u => mutex_buff'[BlockOf(u)] = u
        BY <3>5, <4>1, <4>2
      <4>4. BlockHas(t)'
        BY <3>3, <4>1, <4>2 DEF BlockHas
      <4> QED BY <2>4, <3>1, <4>1, <4>2, <4>3, <4>4 DEF Fades
    <3>7. CASE ReadBlock(t) \/ ReadBlockFails(t)
      <4>1. /\ readIn' = [e \in Entries |-> readIn'[e]]
            /\ \A e \in Entries : EntryForm(readIn'[e]) /\ readIn'[e].status = readIn[e].status
            /\ thread[t].pc = "rread" /\ UNCHANGED <<mutex_buff, got>>
        BY <1>2, <3>7, ReadCache
      <4>2. mutex_buff[BlockOf(t)] = t /\ \A e \in BlockEntries(t) : readIn[e].status = -1
        BY <2>1, <4>1 DEF BlockHas, Fetches
      <4>3. BlockHas(t)'
        BY <3>3, <4>1, <4>2 DEF BlockHas
      <4>4. mutex_buff' \in [Entries -> Threads \union {None}]
        BY <2>1, <4>1 DEF CacheForm
      <4> QED BY <2>4, <3>1, <4>1, <4>3, <4>4
    <3>8. CASE MarkBlock(t)
      <4>1. /\ readIn' = [e \in Entries |-> readIn'[e]]
            /\ \A e \in Entries : /\ EntryForm(readIn'[e])
                                  /\ e \notin BlockEntries(t) => readIn'[e] = readIn[e]
            /\ mutex_buff' = [mutex_buff EXCEPT ![BlockOf(t)] = None]
            /\ thread[t].pc = "rmark" /\ Goto(t, "rdone") /\ \E x : got' = [got EXCEPT ![t] = x]
        BY <1>2, <3>2, <3>8, MarkCache
      <4>2. /\ mutex_buff' \in [Entries -> Threads \union {None}]
            /\ \A k : k # BlockOf(t) => mutex_buff'[k] = mutex_buff[k]
        BY <2>1, <3>4, <4>1 DEF CacheForm
      <4>3. CacheForm'
        BY <2>1, <4>1, <4>2 DEF CacheForm
      <4>4. thread'[t].pc = "rdone"
        BY <3>5, <4>1 DEF Goto, ThreadType
      <4>5. ASSUME NEW u \in Threads, u # t, Fetches(thread'[u]) PROVE BlockHas(u)'
        <5>1. thread'[u] = thread[u] /\ Fetches(thread[u])
          BY <3>1, <4>5 DEF OnlyOf
        <5>2. BlockEntries(t) \cap BlockEntries(u) = {} /\ BlockOf(t) # BlockOf(u)
          BY <1>2, <4>1, <4>5, <5>1, BlocksApart DEF Fetches
        <5>3. BlockOf(u)' = BlockOf(u) /\ BlockEntries(u)' = BlockEntries(u)
          BY <5>1, SameBlock
        <5>4. BlockEntries(u) \subseteq Entries
          BY <1>2, <5>1, ReaderPage, BlockForm DEF Fetches, ReadPcs
        <5>5. mutex_buff[BlockOf(u)] = u /\ \A e \in BlockEntries(u) : readIn[e].status = -1
          BY <2>1, <5>1 DEF BlockHas
        <5>6. mutex_buff'[BlockOf(u)] = u /\ \A e \in BlockEntries(u) : readIn'[e].status = -1
          BY <4>1, <4>2, <5>2, <5>4, <5>5
        <5> QED BY <5>3, <5>6 DEF BlockHas
      <4>6. \A u \in Threads : BlockHas(u)'
        BY <4>4, <4>5 DEF BlockHas, Fetches
      <4> QED BY <1>10, <4>3, <4>6
    <3> QED BY <2>11, <3>6, <3>7, <3>8
  <2> QED BY <1>2, <2>5, <2>6, <2>7, <2>8, <2>9, <2>10, <2>11, ReadSorts DEF LookStep
<1> QED BY <1>1, <1>2, PoolHeld, ThreadHeld, AloneHeld, PTL DEF ReadSpec

(* What is in the cache, or about to be marked, is the last content of its    *)
(* page, and known to be old from the moment on that the page is about to be  *)
(* handed over again.                                                       *)
Newest(d, p, x) == \A c \in moved[d] : c[1] = p => x = c
Cached(e, d, p) == readIn[e].status = 2 /\ Caches(e, d, p) /\ readIn[e].data # Unsure
At(t, pc, d)    == thread[t].pc = pc /\ thread[t].dest = d
CacheRight(d) ==
  \A c \in moved[d] : Cached(Entry(c[1]), d, c[1]) => readIn[Entry(c[1])].data = c
MarkRight(t, d) ==
  At(t, "rmark", d) =>
    \A e \in BlockEntries(t) : readIn[e].data # Unsure => Newest(d, PageOf(t, e), readIn[e].data)
Forgotten(u, d) == At(u, "fill", d) => ~Cached(Entry(thread[u].page), d, thread[u].page)
Warned(u, t, d) ==
  At(u, "fill", d) /\ At(t, "rmark", d) /\ BlockHead(thread[u].page) = BlockHead(thread[t].page) =>
    readIn[Entry(thread[u].page)].data = Unsure
CacheInv ==
  \A d \in Nodes :
    /\ CacheRight(d)
    /\ \A t \in Threads : MarkRight(t, d) /\ Forgotten(t, d)
    /\ \A t, u \in Threads : Warned(u, t, d)

(* What is handed over is what a thread has filled a slot with.              *)
LEMMA NewContent ==
  ASSUME PoolInv, ThreadInv, [ReadNext]_readVars, NEW d \in Nodes, NEW c \in moved'[d], c \notin moved[d]
  PROVE  c[1] \in Nat /\ \E t \in Threads : Fill(t) /\ At(t, "fill", d) /\ thread[t].page = c[1]
<1>1. PICK t \in Threads : AtNode(t, d)
  BY StepsAt DEF Still, DropStep
<1>2. thread[t].dest = d
  BY <1>1 DEF AtNode
<1>3. ~Claim(t)
  <2>1. Claim(t) => moved' = moved
    BY DEF Claim
  <2> QED BY <2>1
<1>4. ~(Join(t) \/ FlushPost(t) \/ RdmaWrite(t) \/ RdmaWriteFails(t) \/ FreeBuff(t))
  <2> SUFFICES ASSUME Join(t) \/ FlushPost(t) \/ RdmaWrite(t) \/ RdmaWriteFails(t) \/ FreeBuff(t)
               PROVE  FALSE
    OBVIOUS
  <2>1. DropStep(d)
    BY OthersDrop DEF Join, FlushStep
  <2> QED BY <2>1 DEF DropStep
<1>5. Fill(t)
  BY <1>1, <1>3, <1>4 DEF AtNode
<1>6. Hand(t, d)
  BY <1>2, <1>5, HandAt
<1>7. c = Content(d, thread[t].page)
  BY <1>6 DEF Hand
<1>8. thread[t].pc = "fill"
  BY <1>5 DEF Fill
<1>9. thread[t].page \in Nat
  BY <1>2, <1>8 DEF ThreadInv, FillForms, Fills
<1> QED BY <1>2, <1>5, <1>7, <1>8, <1>9 DEF Content, At

MovedAs(d) ==
  \A c \in moved'[d] : c \in moved[d] \/ \E t \in Threads : At(t, "fill", d) /\ thread[t].page = c[1]

(* How each part of the invariant lasts.                                    *)
Weakens(e) == Fades(e) \/ readIn'[e].status = -1
LEMMA RightKept ==
  ASSUME ThreadInv, CacheInv, NEW d \in Nodes, MovedAs(d), moved' \in [Nodes -> SUBSET (Nat \X Nat)],
         \A e \in Entries : Weakens(e)
  PROVE  CacheRight(d)'
<1> SUFFICES ASSUME NEW c \in moved'[d], Cached(Entry(c[1]), d, c[1])'
             PROVE  readIn'[Entry(c[1])].data = c
  BY DEF CacheRight, Entry
<1> PICK p, k : p = c[1] /\ k = Entry(c[1])
  OBVIOUS
<1>1. k \in Entries
  BY BlockPlace
<1>2. readIn'[k].status = 2 /\ readIn'[k].nodeID = d /\ readIn'[k].pageNO = p /\ readIn'[k].data # Unsure
  BY DEF Cached, Caches, Entry
<1>3. Cached(k, d, p) /\ readIn'[k].data = readIn[k].data
  BY <1>1, <1>2 DEF Weakens, Fades, Cached, Caches
<1>4. ~\E t \in Threads : At(t, "fill", d) /\ thread[t].page = p
  BY <1>3 DEF CacheInv, Forgotten
<1>5. c \in moved[d]
  BY <1>4 DEF MovedAs
<1> QED BY <1>3, <1>5 DEF CacheInv, CacheRight

LEMMA MarkKept ==
  ASSUME ThreadInv, AloneInv, CacheInv, NEW d \in Nodes, MovedAs(d), NEW t \in Threads,
         thread'[t] = thread[t], moved' \in [Nodes -> SUBSET (Nat \X Nat)],
         \A e \in BlockEntries(t) : readIn'[e].data \in {readIn[e].data, Unsure}
  PROVE  MarkRight(t, d)'
<1> SUFFICES ASSUME At(t, "rmark", d), NEW e \in BlockEntries(t), readIn'[e].data # Unsure,
                    NEW c \in moved'[d], c[1] = PageOf(t, e)
             PROVE  readIn'[e].data = c
  <2>1. BlockEntries(t)' = BlockEntries(t) /\ \A e : PageOf(t, e)' = PageOf(t, e)
    BY SameBlock
  <2>2. At(t, "rmark", d)' <=> At(t, "rmark", d)
    BY DEF At
  <2> QED BY <2>1, <2>2 DEF MarkRight, Newest
<1>1. readIn'[e].data = readIn[e].data
  OBVIOUS
<1>2. c \in moved[d] => readIn[e].data = c
  BY <1>1 DEF CacheInv, MarkRight, Newest
<1>3. ASSUME NEW u \in Threads, At(u, "fill", d), thread[u].page = c[1] PROVE FALSE
  <2>1. thread[t].page \in Nat
    BY ReaderPage DEF At, ReadPcs
  <2> PICK p : p = c[1]
    OBVIOUS
  <2>2. p \in Nat /\ Entry(p) = e
    BY <2>1, BlockForm
  <2>3. BlockHead(p) = BlockHead(thread[t].page)
    BY <2>1, <2>2, BlockForm
  <2>4. readIn[Entry(thread[u].page)].data = Unsure
    BY <1>3, <2>3 DEF CacheInv, Warned
  <2> QED BY <1>1, <1>3, <2>2, <2>4
<1> QED BY <1>1, <1>2, <1>3 DEF MovedAs

LEMMA ForgottenKept ==
  ASSUME ThreadInv, CacheInv, NEW d \in Nodes, NEW u \in Threads, thread'[u] = thread[u],
         \A e \in Entries : Weakens(e)
  PROVE  Forgotten(u, d)'
<1> SUFFICES ASSUME At(u, "fill", d), Cached(Entry(thread[u].page), d, thread[u].page)' PROVE FALSE
  BY DEF Forgotten, At
<1> PICK p, k : p = thread[u].page /\ k = Entry(p)
  OBVIOUS
<1>1. p \in Nat
  BY DEF ThreadInv, FillForms, Fills, At
<1>2. k \in Entries
  BY <1>1, BlockPlace
<1>3. readIn'[k].status = 2 /\ readIn'[k].nodeID = d /\ readIn'[k].pageNO = p /\ readIn'[k].data # Unsure
  BY DEF Cached, Caches, Entry
<1>4. Cached(k, d, p)
  BY <1>2, <1>3 DEF Weakens, Fades, Cached, Caches
<1> QED BY <1>4 DEF CacheInv, Forgotten

LEMMA WarnedKept ==
  ASSUME ThreadInv, AloneInv, CacheInv, NEW d \in Nodes, NEW u \in Threads, NEW t \in Threads,
         thread'[u] = thread[u], thread'[t] = thread[t],
         \A e \in BlockEntries(t) : readIn'[e].data \in {readIn[e].data, Unsure}
  PROVE  Warned(u, t, d)'
<1> SUFFICES ASSUME At(u, "fill", d), At(t, "rmark", d),
                    BlockHead(thread[u].page) = BlockHead(thread[t].page)
             PROVE  readIn'[Entry(thread[u].page)].data = Unsure
  BY DEF Warned, At, BlockHead, Entry
<1>1. thread[u].page \in Nat /\ thread[t].page \in Nat
  BY ReaderPage DEF ThreadInv, FillForms, Fills, At, ReadPcs
<1>2. Entry(thread[u].page) \in BlockEntries(t)
  BY <1>1, BlockForm
<1>3. readIn[Entry(thread[u].page)].data = Unsure
  BY DEF CacheInv, Warned
<1> QED BY <1>2, <1>3

(* A page that is not on its way is on the memory node, if it was moved.     *)
LEMMA FarIsLast ==
  ASSUME ThreadInv, NoPageLost, NEW d \in Nodes, NEW c \in moved[d], ~OnItsWay(d, c[1])
  PROVE  FarPage(d, c[1]) = c
<1>1. ASSUME NEW s \in Slots, buff[d][s].status \in {2, 3}, buff[d][s].data = c PROVE FALSE
  <2>1. buff[d][s].pageNO = c[1]
    BY <1>1 DEF ThreadInv, SlotForms, SlotForm
  <2> QED BY <1>1, <2>1 DEF OnItsWay
<1>2. c[1] \in DOMAIN remote[d] /\ remote[d][c[1]] = c
  BY <1>1 DEF NoPageLost
<1> QED BY <1>2 DEF FarPage

CacheAll(d) ==
  /\ CacheRight(d)
  /\ \A t \in Threads : MarkRight(t, d) /\ Forgotten(t, d)
  /\ \A t, u \in Threads : Warned(u, t, d)

LEMMA CacheCalm ==
  ASSUME ThreadInv, AloneInv, CacheInv, NEW d \in Nodes, MovedAs(d),
         moved' \in [Nodes -> SUBSET (Nat \X Nat)], NEW t \in Threads, OnlyOf(t),
         thread'[t] = thread[t] \/ thread'[t].pc \notin {"fill", "rmark"},
         \A e \in Entries : Fades(e)
  PROVE  CacheAll(d)'
<1>1. \A e \in Entries : Weakens(e)
  BY DEF Weakens
<1>2. CacheRight(d)'
  BY <1>1, RightKept
<1>3. ASSUME NEW u \in Threads, thread'[u] = thread[u], u = u PROVE MarkRight(u, d)' /\ Forgotten(u, d)'
  <2>1. Forgotten(u, d)'
    BY <1>1, <1>3, ForgottenKept
  <2>2. MarkRight(u, d)'
    <3>1. CASE thread[u].pc = "rmark"
      <4>1. BlockEntries(u) \subseteq Entries
        BY <3>1, ReaderPage, BlockForm DEF ReadPcs
      <4>2. \A e \in BlockEntries(u) : readIn'[e].data \in {readIn[e].data, Unsure}
        BY <4>1 DEF Fades
      <4> QED BY <1>3, <4>2, MarkKept
    <3>2. CASE thread[u].pc # "rmark"
      BY <1>3, <3>2 DEF MarkRight, At
    <3> QED BY <3>1, <3>2
  <2> QED BY <2>1, <2>2
<1>4. ASSUME NEW u \in Threads, NEW v \in Threads, thread'[u] = thread[u], thread'[v] = thread[v]
      PROVE  Warned(u, v, d)'
  <2>1. CASE thread[v].pc = "rmark"
    <3>1. BlockEntries(v) \subseteq Entries
      BY <2>1, ReaderPage, BlockForm DEF ReadPcs
    <3>2. \A e \in BlockEntries(v) : readIn'[e].data \in {readIn[e].data, Unsure}
      BY <3>1 DEF Fades
    <3> QED BY <1>4, <3>2, WarnedKept
  <2>2. CASE thread[v].pc # "rmark"
    BY <1>4, <2>2 DEF Warned, At
  <2> QED BY <2>1, <2>2
<1>5. ASSUME NEW u \in Threads, thread'[u].pc \notin {"fill", "rmark"}
      PROVE  /\ MarkRight(u, d)' /\ Forgotten(u, d)'
             /\ \A v \in Threads : Warned(u, v, d)' /\ Warned(v, u, d)'
  BY <1>5 DEF MarkRight, Forgotten, Warned, At
<1>6. \A u \in Threads : thread'[u] = thread[u] \/ thread'[u].pc \notin {"fill", "rmark"}
  BY DEF OnlyOf
<1>7. \A u \in Threads : MarkRight(u, d)' /\ Forgotten(u, d)'
  BY <1>3, <1>5, <1>6
<1>8. \A v, u \in Threads : Warned(u, v, d)'
  BY <1>4, <1>5, <1>6
<1> QED BY <1>2, <1>7, <1>8 DEF CacheAll

LEMMA CacheVoid ==
  ASSUME ThreadInv, AloneInv, BlockInv, CacheInv, NEW d \in Nodes, MovedAs(d),
         moved' \in [Nodes -> SUBSET (Nat \X Nat)], NEW t \in Threads, VoidPreFetch(t)
  PROVE  CacheAll(d)'
<1> DEFINE f == thread[t].dest  p == thread[t].page  k == Entry(p)
<1>1. /\ OnlyOf(t) /\ thread[t].pc = "void" /\ thread'[t].pc = "fill"
      /\ thread'[t].page = p /\ thread'[t].dest = f
  BY VoidForm
<1>2. /\ \A e \in Entries : Fades(e)
      /\ BeingRead(f, p) => readIn'[k].data = Unsure
      /\ ~(readIn'[k].nodeID = f /\ readIn'[k].pageNO = p)
  BY VoidCache
<1>3. \A e \in Entries : Weakens(e)
  BY <1>2 DEF Weakens
<1>4. CacheRight(d)'
  BY <1>3, RightKept
<1>5. \A u \in Threads : u # t => thread'[u] = thread[u]
  BY <1>1 DEF OnlyOf
<1>6. ASSUME NEW v \in Threads, v # t, thread[v].pc = "rmark"
      PROVE  \A e \in BlockEntries(v) : readIn'[e].data \in {readIn[e].data, Unsure}
  <2>1. BlockEntries(v) \subseteq Entries
    BY <1>6, ReaderPage, BlockForm DEF ReadPcs
  <2> QED BY <1>2, <2>1 DEF Fades
<1>7. ASSUME NEW v \in Threads PROVE MarkRight(v, d)'
  <2>1. CASE v # t /\ thread[v].pc = "rmark"
    BY <1>5, <1>6, <2>1, MarkKept
  <2>2. CASE ~(v # t /\ thread[v].pc = "rmark")
    BY <1>1, <1>5, <2>2 DEF MarkRight, At
  <2> QED BY <2>1, <2>2
<1>8. ASSUME NEW u \in Threads PROVE Forgotten(u, d)'
  <2>1. CASE u # t
    BY <1>3, <1>5, <2>1, ForgottenKept
  <2>2. CASE u = t
    <3>1. thread'[u].dest = d => ~(readIn'[k].nodeID = d /\ readIn'[k].pageNO = p)
      BY <1>1, <1>2, <2>2
    <3>2. Entry(thread'[u].page) = k /\ thread'[u].page = p
      BY <1>1, <2>2
    <3> QED BY <3>1, <3>2 DEF Forgotten, At, Cached, Caches, Entry
  <2> QED BY <2>1, <2>2
<1>9. ASSUME NEW u \in Threads, NEW v \in Threads PROVE Warned(u, v, d)'
  <2>1. CASE v = t \/ thread[v].pc # "rmark"
    BY <1>1, <1>5, <2>1 DEF Warned, At
  <2>2. CASE v # t /\ thread[v].pc = "rmark" /\ u # t
    BY <1>5, <1>6, <2>2, WarnedKept
  <2>3. CASE v # t /\ thread[v].pc = "rmark" /\ u = t
    <3> SUFFICES ASSUME f = d, thread[v].dest = d, BlockHead(p) = BlockHead(thread[v].page)
                 PROVE  readIn'[k].data = Unsure
      BY <1>1, <1>5, <2>3 DEF Warned, At, BlockHead, Entry
    <3>1. BeingRead(f, p)
      BY <2>3 DEF BeingRead
    <3> QED BY <1>2, <3>1
  <2> QED BY <2>1, <2>2, <2>3
<1> QED BY <1>4, <1>7, <1>8, <1>9 DEF CacheAll

LEMMA CacheFilled ==
  ASSUME ThreadInv, AloneInv, BlockInv, CacheInv, NoPageLost, NEW d \in Nodes, MovedAs(d),
         moved' \in [Nodes -> SUBSET (Nat \X Nat)],
         NEW t \in Threads, ReadBlock(t) \/ ReadBlockFails(t)
  PROVE  CacheAll(d)'
<1> DEFINE f == thread[t].dest  p == thread[t].page
<1>1. /\ OnlyOf(t) /\ thread'[t].page = p /\ thread'[t].dest = f /\ moved' = moved
  BY LookForm DEF LookStep
<1>2. /\ \A e \in Entries :
           /\ readIn'[e].status = readIn[e].status
           /\ e \notin BlockEntries(t) => readIn'[e] = readIn[e]
           /\ e \in BlockEntries(t) =>
                \/ readIn'[e].data = Unsure
                \/ ~OnItsWay(f, PageOf(t, e)) /\ readIn'[e].data = FarPage(f, PageOf(t, e))
      /\ thread[t].pc = "rread" /\ Goto(t, "rmark")
  BY ReadCache
<1>3. p \in Nat /\ thread'[t].pc = "rmark"
  BY <1>2, ReaderPage DEF ReadPcs, ThreadInv, TypeInv, ThreadType, Goto
<1>4. BlockEntries(t) \subseteq Entries /\ \A e \in BlockEntries(t) : readIn[e].status = -1
  BY <1>2, <1>3, BlockForm DEF BlockInv, Fetches
<1>5. \A e \in Entries : Weakens(e)
  BY <1>2, <1>4 DEF Weakens, Fades
<1>6. CacheRight(d)'
  BY <1>5, RightKept
<1>7. \A u \in Threads : u # t => thread'[u] = thread[u]
  BY <1>1 DEF OnlyOf
<1>8. ASSUME NEW v \in Threads, v # t, thread[v].pc = "rmark"
      PROVE  \A e \in BlockEntries(v) : readIn'[e].data \in {readIn[e].data, Unsure}
  <2>1. BlockEntries(v) \subseteq Entries
    BY <1>8, ReaderPage, BlockForm DEF ReadPcs
  <2>2. BlockEntries(t) \cap BlockEntries(v) = {}
    BY <1>2, <1>8, BlocksApart DEF Fetches
  <2> QED BY <1>2, <2>1, <2>2
<1>9. ASSUME NEW v \in Threads PROVE MarkRight(v, d)'
  <2>1. CASE v # t /\ thread[v].pc = "rmark"
    BY <1>7, <1>8, <2>1, MarkKept
  <2>2. CASE v # t /\ thread[v].pc # "rmark"
    BY <1>7, <2>2 DEF MarkRight, At
  <2>3. CASE v = t
    <3> SUFFICES ASSUME f = d, NEW e \in BlockEntries(t), readIn'[e].data # Unsure,
                        NEW c \in moved[d], c[1] = PageOf(t, e)
                 PROVE  readIn'[e].data = c
      <4>1. BlockEntries(t)' = BlockEntries(t) /\ \A e : PageOf(t, e)' = PageOf(t, e)
        BY <1>1, SameBlock
      <4>2. moved' = moved /\ thread'[t].dest = f
        BY <1>1
      <4> QED BY <2>3, <4>1, <4>2 DEF MarkRight, Newest, At
    <3>1. ~OnItsWay(d, c[1]) /\ readIn'[e].data = FarPage(d, c[1])
      BY <1>2, <1>4
    <3> QED BY <3>1, FarIsLast
  <2> QED BY <2>1, <2>2, <2>3
<1>10. ASSUME NEW u \in Threads PROVE Forgotten(u, d)'
  <2>1. CASE u # t
    BY <1>5, <1>7, <2>1, ForgottenKept
  <2>2. CASE u = t
    BY <1>3, <2>2 DEF Forgotten, At
  <2> QED BY <2>1, <2>2
<1>11. ASSUME NEW u \in Threads, NEW v \in Threads PROVE Warned(u, v, d)'
  <2>1. CASE u = t \/ (v # t /\ thread[v].pc # "rmark")
    BY <1>3, <1>7, <2>1 DEF Warned, At
  <2>2. CASE u # t /\ v # t /\ thread[v].pc = "rmark"
    BY <1>7, <1>8, <2>2, WarnedKept
  <2>3. CASE u # t /\ v = t
    <3> DEFINE q == thread[u].page
    <3> SUFFICES ASSUME At(u, "fill", d), f = d, BlockHead(q) = BlockHead(p)
                 PROVE  readIn'[Entry(q)].data = Unsure
      BY <1>1, <1>7, <2>3 DEF Warned, At, BlockHead, Entry
    <3>1. q \in Nat
      BY DEF ThreadInv, FillForms, Fills, At
    <3>2. Entry(q) \in BlockEntries(t) /\ PageOf(t, Entry(q)) = q
      BY <1>3, <3>1, BlockForm
    <3>3. OnItsWay(d, q)
      BY DEF OnItsWay, At
    <3> QED BY <1>2, <1>4, <3>2, <3>3
  <2> QED BY <2>1, <2>2, <2>3
<1> QED BY <1>6, <1>9, <1>10, <1>11 DEF CacheAll

LEMMA CacheMarked ==
  ASSUME ThreadInv, AloneInv, BlockInv, CacheInv, NEW d \in Nodes, MovedAs(d),
         moved' \in [Nodes -> SUBSET (Nat \X Nat)], NEW t \in Threads, MarkBlock(t)
  PROVE  CacheAll(d)'
<1> DEFINE f == thread[t].dest  p == thread[t].page
<1>1. OnlyOf(t) /\ moved' = moved /\ thread[t].pc = "rmark"
  BY LookForm DEF LookStep, MarkBlock
<1>2. p \in Nat
  BY <1>1, ReaderPage DEF ReadPcs
<1>3. /\ \A e \in Entries :
           /\ readIn'[e].data = readIn[e].data
           /\ e \notin BlockEntries(t) => readIn'[e] = readIn[e]
           /\ e \in BlockEntries(t) => readIn'[e].nodeID = f /\ readIn'[e].pageNO = PageOf(t, e)
      /\ Goto(t, "rdone")
  BY <1>2, MarkCache
<1>4. thread'[t].pc = "rdone"
  BY <1>3 DEF ThreadInv, TypeInv, ThreadType, Goto
<1>5. \A u \in Threads : u # t => thread'[u] = thread[u]
  BY <1>1 DEF OnlyOf
<1>6. MarkRight(t, d)
  BY DEF CacheInv
<1>7. CacheRight(d)'
  <2> SUFFICES ASSUME NEW c \in moved[d], Cached(Entry(c[1]), d, c[1])' PROVE readIn'[Entry(c[1])].data = c
    BY <1>1 DEF CacheRight, Entry
  <2> DEFINE k == Entry(c[1])
  <2>1. c[1] \in Nat /\ k \in Entries
    BY BlockPlace DEF ThreadInv, TypeInv
  <2>2. readIn'[k].nodeID = d /\ readIn'[k].pageNO = c[1] /\ readIn'[k].data # Unsure
    BY DEF Cached, Caches, Entry
  <2>3. CASE k \in BlockEntries(t)
    <3>1. f = d /\ PageOf(t, k) = c[1] /\ readIn[k].data # Unsure
      BY <1>3, <2>1, <2>2, <2>3
    <3> QED BY <1>1, <1>3, <1>6, <2>1, <2>3, <3>1 DEF MarkRight, At, Newest
  <2>4. CASE k \notin BlockEntries(t)
    <3>1. readIn'[k] = readIn[k]
      BY <1>3, <2>1, <2>4
    <3>2. Cached(k, d, c[1])
      BY <3>1 DEF Cached, Caches, Entry
    <3> QED BY <3>1, <3>2 DEF CacheInv, CacheRight
  <2> QED BY <2>3, <2>4
<1>8. ASSUME NEW v \in Threads, v # t, thread[v].pc = "rmark"
      PROVE  \A e \in BlockEntries(v) : readIn'[e].data \in {readIn[e].data, Unsure}
  <2>1. BlockEntries(v) \subseteq Entries
    BY <1>8, ReaderPage, BlockForm DEF ReadPcs
  <2> QED BY <1>3, <2>1
<1>9. ASSUME NEW v \in Threads PROVE MarkRight(v, d)'
  <2>1. CASE v # t /\ thread[v].pc = "rmark"
    BY <1>5, <1>8, <2>1, MarkKept
  <2>2. CASE ~(v # t /\ thread[v].pc = "rmark")
    BY <1>4, <1>5, <2>2 DEF MarkRight, At
  <2> QED BY <2>1, <2>2
<1>10. ASSUME NEW u \in Threads PROVE Forgotten(u, d)'
  <2>1. CASE u = t
    BY <1>4, <2>1 DEF Forgotten, At
  <2>2. CASE u # t
    <3> DEFINE q == thread[u].page  k == Entry(q)
    <3> SUFFICES ASSUME At(u, "fill", d), Cached(k, d, q)' PROVE FALSE
      BY <1>5, <2>2 DEF Forgotten, At, Cached, Caches, Entry
    <3>1. thread'[u] = thread[u]
      BY <1>5, <2>2
    <3>2. q \in Nat /\ k \in Entries
      <4>1. q \in Nat
        BY DEF ThreadInv, FillForms, Fills, At
      <4> QED BY <4>1, BlockPlace
    <3>3. readIn'[k].nodeID = d /\ readIn'[k].pageNO = q /\ readIn'[k].data # Unsure
          /\ readIn'[k].status = 2
      BY <3>1 DEF Cached, Caches, Entry
    <3>4. CASE k \in BlockEntries(t)
      <4>1. f = d /\ PageOf(t, k) = q /\ readIn[k].data # Unsure
        BY <1>3, <3>2, <3>3, <3>4
      <4>2. BlockHead(q) = BlockHead(p)
        BY <1>2, <3>2, <3>4, <4>1, BlockForm
      <4>3. Warned(u, t, d)
        BY DEF CacheInv
      <4> QED BY <1>1, <4>1, <4>2, <4>3 DEF Warned, At
    <3>5. CASE k \notin BlockEntries(t)
      <4>1. Cached(k, d, q)
        BY <1>3, <3>2, <3>3, <3>5 DEF Cached, Caches
      <4>2. Forgotten(u, d)
        BY DEF CacheInv
      <4> QED BY <4>1, <4>2 DEF Forgotten
    <3> QED BY <3>4, <3>5
  <2> QED BY <2>1, <2>2
<1>11. ASSUME NEW u \in Threads, NEW v \in Threads PROVE Warned(u, v, d)'
  <2>1. CASE u = t \/ v = t \/ thread[v].pc # "rmark"
    BY <1>4, <1>5, <2>1 DEF Warned, At
  <2>2. CASE u # t /\ v # t /\ thread[v].pc = "rmark"
    BY <1>5, <1>8, <2>2, WarnedKept
  <2> QED BY <2>1, <2>2
<1> QED BY <1>7, <1>9, <1>10, <1>11 DEF CacheAll

LEMMA CacheHeld == ASSUME Seamless PROVE ReadSpec => []CacheInv
<1>0. /\ CacheInv <=> \A d \in Nodes : CacheAll(d)
      /\ CacheInv' <=> \A d \in Nodes : CacheAll(d)'
  BY DEF CacheInv, CacheAll
<1>1. ReadInit => CacheInv
  <2> SUFFICES ASSUME ReadInit PROVE CacheInv
    OBVIOUS
  <2>1. \A t \in Threads : thread[t].pc = "idle"
    BY DEF ReadInit, Init, IdleThread
  <2>2. \A d \in Nodes : moved[d] = {}
    BY DEF ReadInit, Init
  <2> QED BY <2>1, <2>2 DEF CacheInv, CacheRight, MarkRight, Forgotten, Warned, At
<1>2. ASSUME PoolInv, ThreadInv, ThreadInv', AloneInv, BlockInv, NoPageLost, CacheInv, [ReadNext]_readVars
      PROVE  CacheInv'
  <2> SUFFICES ASSUME NEW d \in Nodes PROVE CacheAll(d)'
    BY <1>0
  <2>1. moved' \in [Nodes -> SUBSET (Nat \X Nat)]
    BY <1>2 DEF ThreadInv, TypeInv
  <2>2. MovedAs(d)
    BY <1>2, NewContent DEF MovedAs
  <2>3. readIn' = readIn => \A e \in Entries : Fades(e)
    BY DEF Fades
  <2>4. CASE UNCHANGED <<thread, readIn, mutex_buff, got>>
    <3>1. CASE Threads = {}
      <4>1. \A e \in Entries : Weakens(e)
        BY <2>3, <2>4 DEF Weakens
      <4> QED BY <1>2, <2>1, <2>2, <3>1, <4>1, RightKept DEF CacheAll
    <3>2. ASSUME NEW t \in Threads PROVE CacheAll(d)'
      <4>1. OnlyOf(t) /\ thread'[t] = thread[t]
        BY <2>4 DEF OnlyOf
      <4> QED BY <1>2, <2>1, <2>2, <2>3, <2>4, <4>1, CacheCalm
    <3> QED BY <3>1, <3>2
  <2>5. ASSUME NEW t \in Threads, OutStep(t), UNCHANGED <<readIn, mutex_buff, got>> PROVE CacheAll(d)'
    <3>1. OnlyOf(t) /\ OutForm(t)
      BY <1>2, <2>5, OutStepForm DEF AloneInv
    <3>2. thread'[t].pc \notin {"fill", "rmark"}
      BY <3>1 DEF OutForm, OutPcs, ReadPcs
    <3> QED BY <1>2, <2>1, <2>2, <2>3, <2>5, <3>1, <3>2, CacheCalm
  <2>6. ASSUME NEW t \in Threads, VoidPreFetch(t) PROVE CacheAll(d)'
    BY <1>2, <2>1, <2>2, <2>6, CacheVoid
  <2>7. ASSUME NEW t \in Threads, ReadCall(t) PROVE CacheAll(d)'
    <3>1. OnlyOf(t) /\ thread'[t].pc = "rbuf" /\ UNCHANGED <<readIn, mutex_buff, got>>
      BY <1>2, <2>7, ReadCallForm DEF ReadCallOf
    <3> QED BY <1>2, <2>1, <2>2, <2>3, <3>1, CacheCalm
  <2>8. ASSUME NEW t \in Threads, FreeToRemote(t) PROVE CacheAll(d)'
    <3>1. OnlyOf(t) /\ thread'[t] = IdleThread /\ UNCHANGED <<readIn, mutex_buff>>
      BY <1>2, <2>8, FreeForm
    <3>2. thread'[t].pc = "idle"
      BY <3>1 DEF IdleThread
    <3> QED BY <1>2, <2>1, <2>2, <2>3, <3>1, <3>2, CacheCalm
  <2>9. ASSUME NEW t \in Threads,
               LookInBuffer(t) \/ CopyFromBuffer(t) \/ LookInPreFetch(t) \/ CopyFromPreFetch(t)
        PROVE  CacheAll(d)'
    <3>1. OnlyOf(t) /\ thread'[t].pc \in ReadPcs
      BY <1>2, <2>9, LookForm DEF LookStep
    <3>2. thread[t] \in ThreadType /\ thread \in [Threads -> ThreadType]
      BY <1>2 DEF ThreadInv, TypeInv
    <3>3. readIn' = readIn
      BY <2>9 DEF LookInBuffer, CopyFromBuffer, LookInPreFetch, CopyFromPreFetch, cache
    <3>4. thread'[t].pc # "rmark"
      <4>1. CASE LookInBuffer(t)
        <5>1. PICK pc \in {"rpre", "rcopy"} : \E slot : thread' = [thread EXCEPT ![t].pc = pc, ![t].slot = slot]
          BY <4>1 DEF LookInBuffer
        <5> QED BY <3>2, <5>1 DEF ThreadType
      <4>2. CASE LookInPreFetch(t)
        <5>1. PICK where \in {"rprecopy", "rlock"} : Goto(t, where)
          BY <4>2 DEF LookInPreFetch
        <5> QED BY <3>2, <5>1 DEF Goto, ThreadType
      <4>3. CASE CopyFromBuffer(t) \/ CopyFromPreFetch(t)
        <5>1. Goto(t, "rdone")
          BY <4>3 DEF CopyFromBuffer, CopyFromPreFetch, Found
        <5> QED BY <3>2, <5>1 DEF Goto, ThreadType
      <4> QED BY <2>9, <4>1, <4>2, <4>3
    <3>5. thread'[t].pc # "fill"
      BY <3>1 DEF ReadPcs
    <3> QED BY <1>2, <2>1, <2>2, <2>3, <3>1, <3>3, <3>4, <3>5, CacheCalm
  <2>10. ASSUME NEW t \in Threads, LockBlock(t) PROVE CacheAll(d)'
    <3>1. OnlyOf(t) /\ thread[t].pc \in ReadPcs
      BY <1>2, <2>10, LookForm DEF LookStep
    <3>2. thread[t].page \in Nat
      BY <1>2, <3>1, ReaderPage
    <3>3. (\A e \in Entries : Fades(e)) /\ Goto(t, "rread")
      BY <1>2, <2>10, <3>2, LockCache
    <3>4. thread'[t].pc = "rread"
      BY <1>2, <3>3 DEF ThreadInv, TypeInv, ThreadType, Goto
    <3> QED BY <1>2, <2>1, <2>2, <3>1, <3>3, <3>4, CacheCalm
  <2>11. ASSUME NEW t \in Threads, ReadBlock(t) \/ ReadBlockFails(t) PROVE CacheAll(d)'
    BY <1>2, <2>1, <2>2, <2>11, CacheFilled
  <2>12. ASSUME NEW t \in Threads, MarkBlock(t) PROVE CacheAll(d)'
    BY <1>2, <2>1, <2>2, <2>12, CacheMarked
  <2> QED BY <1>2, <2>4, <2>5, <2>6, <2>7, <2>8, <2>9, <2>10, <2>11, <2>12, ReadSorts DEF LookStep
<1> QED BY <1>1, <1>2, PoolHeld, ThreadHeld, AloneHeld, BlockHeld, NothingLost, PTL DEF ReadSpec

-----------------------------------------------------------------------------
(* Of two slots with one page, the one that still waits has the newer content. *)
Passed(d) ==
  \A x, y \in Slots :
    buff[d][x].status = 2 /\ buff[d][y].status = 3 /\ buff[d][x].pageNO = buff[d][y].pageNO
      => buff[d][y].data[2] < buff[d][x].data[2]
PassedInv == \A d \in Nodes : Passed(d)

(* A slot that joins a batch comes before those that still wait.              *)
LEMMA JoinsFirst ==
  ASSUME ThreadInv, OrderInv, NEW t \in Threads, NEW d \in Nodes, d = thread[t].dest,
         Flushes(thread[t], d), JoinAt(t, d), NEW x \in Slots, x # Here(t), buff[d][x].status = 2,
         buff[d][x].pageNO = buff[d][Here(t)].pageNO
  PROVE  buff[d][Here(t)].data[2] < buff[d][x].data[2]
<1> PICK h, n, y : h = head[d] /\ n = thread[t].count /\ y = Here(t)
  OBVIOUS
<1>1. /\ h \in Slots /\ n \in Nat /\ y = h + n /\ y \in Slots /\ buff[d][y].status = 2
      /\ thread[t].pc = "while"
  BY DEF ThreadInv, TypeInv, ThreadType, JoinAt, Here
<1>2. Base(d) = h
  BY <1>1, MyView
<1>3. h + (n + 1) <= total_writeOut /\ n + 1 \in Nat
  BY <1>1, WriteOutConstants DEF Slots
<1>4. /\ Dist(h, x) < n + 1 => h <= x /\ x < h + (n + 1)
      /\ Dist(h, y) < n + 1 <=> (h <= y /\ y < h + (n + 1))
      /\ Dist(h, y) < n + 1 => Dist(h, y) = y - h
  BY <1>1, <1>3, UpFrom
<1>5. \A s \in Slots : h <= s /\ s < h + n => buff[d][s].status = 3
  BY <1>1 DEF ThreadInv, FlushForms, FlushForm, MarkPcs
<1>6. ~(Dist(h, x) < n + 1)
  <2>1. x \in Int /\ x # h + n
    BY <1>1 DEF Slots
  <2> QED BY <1>1, <1>4, <1>5, <2>1 DEF Slots
<1>7. Dist(h, y) = n
  <2>1. h \in Int /\ n \in Nat /\ y = h + n
    BY <1>1 DEF Slots
  <2> QED BY <1>4, <2>1
<1>8. Dist(h, x) \in Int
  BY <1>1, DistTurn
<1>9. Before(d, y, x)
  BY <1>1, <1>2, <1>6, <1>7, <1>8 DEF Before
<1>10. Live(d, x) /\ Filled(d, x) /\ Live(d, y) /\ Filled(d, y)
  BY <1>1 DEF Live, InUsed, Filled
<1> QED BY <1>1, <1>9, <1>10 DEF OrderInv, Ordered

LEMMA PassedHeld == ReadSpec => []PassedInv
<1>1. ReadInit => PassedInv
  <2>1. ASSUME ReadInit, NEW d \in Nodes, NEW s \in Slots PROVE buff[d][s].status = -1
    BY <2>1 DEF ReadInit, Init, EmptySlot
  <2> QED BY <2>1 DEF PassedInv, Passed
<1>2. ASSUME PoolInv, ThreadInv, StampInv, OrderInv, PassedInv, [ReadNext]_readVars PROVE PassedInv'
  <2> SUFFICES ASSUME NEW d \in Nodes, NEW x \in Slots, NEW y \in Slots,
                      buff'[d][x].status = 2, buff'[d][y].status = 3,
                      buff'[d][x].pageNO = buff'[d][y].pageNO
               PROVE  buff'[d][y].data[2] < buff'[d][x].data[2]
    BY DEF PassedInv, Passed
  <2>1. buff'[d][x] = buff[d][x] /\ buff'[d][y] = buff[d][y]
          => buff'[d][y].data[2] < buff'[d][x].data[2]
    BY <1>2 DEF PassedInv, Passed
  <2>2. CASE Still(d)
    BY <2>1, <2>2 DEF Still
  <2>3. ASSUME NEW t \in Threads, AtNode(t, d) PROVE buff'[d][y].data[2] < buff'[d][x].data[2]
    <3>1. d = thread[t].dest
      BY <2>3 DEF AtNode
    <3>2. CASE Claim(t)
      <4>1. Enter(t, d)
        BY <1>2, <3>1, <3>2, EnterAt
      <4> QED BY <2>1, <4>1 DEF Enter
    <3>3. CASE Fill(t)
      <4> DEFINE s == thread[t].slot  p == thread[t].page
      <4>1. Hand(t, d)
        BY <1>2, <3>1, <3>3, HandAt
      <4>2. /\ buff'[d][s].status = 2 /\ buff'[d][s].pageNO = p
            /\ buff'[d][s].data = <<p, Grants(d, p)>>
            /\ \A z \in Slots : z # s => buff'[d][z] = buff[d][z]
            /\ Fills(thread[t], d)
        BY <4>1 DEF Hand, Content
      <4> HIDE DEF s
      <4>3. y # s
        BY <4>2
      <4>4. CASE x = s
        <5> PICK n : n = buff[d][y].data[2]
          OBVIOUS
        <5>1. buff[d][y].data \in Int \X Int
          BY <1>2 DEF ThreadInv, TypeInv, SlotType
        <5>2. n \in Int /\ p \in Int
          BY <1>2, <4>2, <5>1 DEF ThreadInv, FillForms
        <5>3. Holds(d, y, p, n)
          BY <4>2, <4>3, <4>4 DEF Holds, Filled
        <5>4. Fresh(d, p, n)
          BY <1>2, <5>2, <5>3 DEF StampInv, Stamped
        <5>5. n < Grants(d, p)
          BY <4>2, <5>4 DEF Fresh
        <5> QED BY <4>2, <4>3, <4>4, <5>5
      <4> QED BY <2>1, <4>2, <4>3, <4>4
    <3>4. CASE Join(t) \/ FlushPost(t) \/ RdmaWrite(t) \/ RdmaWriteFails(t) \/ FreeBuff(t)
      <4>1. /\ PostAt(t, d) \/ JoinAt(t, d) \/ BatchAt(t, d)
            /\ Flushes(thread[t], d)
        BY <1>2, <3>1, <3>4, FlushAt
      <4>2. CASE PostAt(t, d)
        BY <2>1, <4>2 DEF PostAt
      <4>3. CASE BatchAt(t, d)
        BY <2>1, <4>3 DEF BatchAt, EmptySlot
      <4>4. CASE JoinAt(t, d)
        <5> DEFINE s == Here(t)
        <5>1. /\ s \in Slots /\ buff'[d][s] = [buff[d][s] EXCEPT !.status = 3]
              /\ \A z \in Slots : z # s => buff'[d][z] = buff[d][z]
          BY <4>4 DEF JoinAt
        <5>2. /\ buff'[d][s].status = 3 /\ buff'[d][s].pageNO = buff[d][s].pageNO
              /\ buff'[d][s].data = buff[d][s].data
          BY <1>2, <5>1 DEF ThreadInv, TypeInv, SlotType
        <5>3. x # s
          BY <5>2
        <5>4. CASE y = s
          <6>1. buff'[d][x] = buff[d][x] /\ x # Here(t)
            BY <5>1, <5>3
          <6>2. buff[d][x].status = 2 /\ buff[d][x].pageNO = buff[d][Here(t)].pageNO
            BY <5>2, <5>4, <6>1
          <6>3. buff[d][Here(t)].data[2] < buff[d][x].data[2]
            BY <1>2, <3>1, <4>1, <4>4, <6>1, <6>2, JoinsFirst
          <6> QED BY <5>2, <5>4, <6>1, <6>3
        <5> QED BY <2>1, <5>1, <5>3, <5>4
      <4> QED BY <4>1, <4>2, <4>3, <4>4
    <3> QED BY <2>3, <3>2, <3>3, <3>4 DEF AtNode
  <2> QED BY <1>2, <2>2, <2>3, StepsAt
<1> QED BY <1>1, <1>2, PoolHeld, ThreadHeld, StampHeld, OrderHeld, PTL DEF ReadSpec

-----------------------------------------------------------------------------
(* What a reader has found is the last content of its page.                  *)
Right(t) ==
  LET d == thread[t].dest  p == thread[t].page  b == buff[d][thread[t].slot] IN
  /\ thread[t].pc = "rcopy" /\ got[t] # Unsure /\ b.pageNO = p => Newest(d, p, b.data)
  /\ thread[t].pc = "rdone" /\ got[t] # Unsure => Newest(d, p, got[t])
RightInv == \A t \in Threads : Right(t)

(* A page that no thread fills keeps its slots.                             *)
LEMMA SlotsStill ==
  ASSUME PoolInv, ThreadInv, ThreadInv', BaseInv, [ReadNext]_readVars, NEW d \in Nodes, NEW p \in Nat,
         \A u \in Threads : ~(Fills(thread[u], d) /\ thread[u].page = p)
  PROVE  /\ \A s \in Slots : buff'[d][s].pageNO = p =>
              buff[d][s].pageNO = p /\ buff'[d][s].data = buff[d][s].data
         /\ \A c \in moved'[d] : c[1] = p => c \in moved[d]
<1>1. ASSUME NEW s \in Slots, buff'[d][s].pageNO = p
      PROVE  buff[d][s].pageNO = p /\ buff'[d][s].data = buff[d][s].data
  <2>1. buff'[d][s].status \in {2, 3}
    <3>1. buff'[d][s].status \in {-1, 1, 2, 3} /\ SlotForm(buff'[d][s])
      BY DEF ThreadInv, TypeInv, SlotType, SlotForms
    <3> QED BY <1>1, <3>1 DEF SlotForm
  <2>2. CASE \E m \in 0 .. total_writeOut : Pass(d, m)
    BY <1>1, <2>1, <2>2 DEF Pass, Filled, Same
  <2>3. ASSUME NEW t \in Threads, Enter(t, d)
        PROVE  buff[d][s].pageNO = p /\ buff'[d][s].data = buff[d][s].data
    BY <1>1, <2>1, <2>3 DEF Enter
  <2>4. ASSUME NEW t \in Threads, Hand(t, d)
        PROVE  buff[d][s].pageNO = p /\ buff'[d][s].data = buff[d][s].data
    <3>1. s # thread[t].slot
      BY <1>1, <2>4 DEF Hand
    <3> QED BY <1>1, <2>4, <3>1 DEF Hand
  <2> QED BY <2>2, <2>3, <2>4, StepsOn DEF BaseInv
<1>2. ASSUME NEW c \in moved'[d], c[1] = p PROVE c \in moved[d]
  <2> SUFFICES ASSUME c \notin moved[d] PROVE FALSE
    OBVIOUS
  <2>1. PICK t \in Threads : At(t, "fill", d) /\ thread[t].page = p
    BY <1>2, NewContent
  <2> QED BY <2>1 DEF At, Fills
<1> QED BY <1>1, <1>2

LEMMA ReaderKept ==
  ASSUME PoolInv, ThreadInv, ThreadInv', BaseInv, AloneInv, [ReadNext]_readVars,
         NEW t \in Threads, Right(t), thread'[t] = thread[t], got'[t] = got[t]
  PROVE  Right(t)'
<1> DEFINE d == thread[t].dest  p == thread[t].page  s == thread[t].slot
<1> SUFFICES ASSUME thread[t].pc \in {"rcopy", "rdone"} PROVE Right(t)'
  BY DEF Right
<1>1. d \in Nodes /\ p \in Nat /\ s \in Slots
  BY ReaderPage DEF ReadPcs, ThreadInv, TypeInv, ThreadType
<1>2. ASSUME NEW u \in Threads PROVE ~(Fills(thread[u], d) /\ thread[u].page = p)
  <2>1. CASE u = t
    BY <2>1 DEF Fills
  <2>2. CASE u # t
    BY <1>1, <2>2 DEF AloneInv, Alone, Reads, ReadPcs, Fills
  <2> QED BY <2>1, <2>2
<1>3. /\ buff'[d][s].pageNO = p => buff[d][s].pageNO = p /\ buff'[d][s].data = buff[d][s].data
      /\ \A c \in moved'[d] : c[1] = p => c \in moved[d]
  BY <1>1, <1>2, SlotsStill
<1> QED BY <1>3 DEF Right, Newest

(* The slot that a reader finds, if it is the only one.                      *)
LEMMA OnlyWaiting ==
  ASSUME ThreadInv, StampInv, WaitInv, PassedInv, NEW d \in Nodes, NEW p \in Nat,
         NEW s \in Slots, Holding(d, p) = {s}
  PROVE  Newest(d, p, buff[d][s].data)
<1> SUFFICES ASSUME NEW c \in moved[d], c[1] = p PROVE buff[d][s].data = c
  BY DEF Newest
<1>1. buff[d][s].status = 2 /\ buff[d][s].pageNO = p
  BY DEF Holding
<1>2. Live(d, s) /\ Filled(d, s)
  BY <1>1 DEF Live, InUsed, Filled
<1>3. PICK z \in Slots : Filled(d, z) /\ buff[d][z].data = c
  BY <1>1, <1>2 DEF WaitInv, Waits, InSlot
<1>4. buff[d][z].pageNO = p
  BY <1>3 DEF ThreadInv, SlotForms, SlotForm, Filled
<1>5. CASE buff[d][z].status = 2
  <2>1. z \in Holding(d, p)
    BY <1>4, <1>5 DEF Holding
  <2> QED BY <1>3, <2>1
<1>6. CASE buff[d][z].status = 3
  <2> PICK n : n = buff[d][s].data[2]
    OBVIOUS
  <2>1. n \in Int
    BY DEF ThreadInv, TypeInv, SlotType
  <2>2. c[2] < n
    BY <1>1, <1>3, <1>4, <1>6 DEF PassedInv, Passed
  <2>3. Holds(d, s, p, n)
    BY <1>1, <1>2 DEF Holds
  <2>4. n <= Grants(d, p)
    BY <2>1, <2>3 DEF StampInv, Stamped, Fresh
  <2>5. c[2] = Grants(d, p)
    BY DEF StampInv, Stamped
  <2>6. c[2] \in Int
    BY DEF ThreadInv, TypeInv
  <2> QED BY <2>1, <2>2, <2>4, <2>5, <2>6
<1> QED BY <1>3, <1>5, <1>6 DEF Filled

LEMMA LooksRight ==
  ASSUME ThreadInv, AloneInv, BlockInv, StampInv, WaitInv, PassedInv, NEW t \in Threads, LookInBuffer(t)
  PROVE  Right(t)'
<1> DEFINE d == thread[t].dest  p == thread[t].page  found == Holding(d, p)
<1>1. thread[t].pc = "rbuf" /\ UNCHANGED <<buff, moved>>
  BY DEF LookInBuffer, ring
<1>2. d \in Nodes /\ p \in Nat /\ thread[t] \in ThreadType /\ thread \in [Threads -> ThreadType]
  BY <1>1, ReaderPage DEF ReadPcs, ThreadInv, TypeInv
<1> HIDE DEF found
<1>3. /\ thread'[t].pc = (IF found = {} THEN "rpre" ELSE "rcopy")
      /\ thread'[t].slot = (IF found = {} THEN 0 ELSE Min(found))
      /\ thread'[t].dest = d /\ thread'[t].page = p
  BY <1>2 DEF LookInBuffer, ThreadType, found
<1>4. got'[t] = IF Cardinality(found) > 1 THEN Unsure ELSE Nothing
  BY DEF LookInBuffer, BlockInv, found
<1> SUFFICES ASSUME found # {}, ~(Cardinality(found) > 1) PROVE Newest(d, p, buff[d][Min(found)].data)
  BY <1>1, <1>3, <1>4 DEF Right, Newest
<1>5. IsFiniteSet(found) /\ found \subseteq Slots
  <2>1. found \subseteq Slots
    BY DEF found, Holding
  <2>2. IsFiniteSet(Slots)
    BY WriteOutConstants, FS_Interval DEF Slots
  <2> QED BY <2>1, <2>2, FS_Subset
<1>6. Cardinality(found) = 1
  <2>1. Cardinality(found) \in Nat /\ Cardinality(found) # 0
    BY <1>5, FS_CardinalityType, FS_EmptySet
  <2> QED BY <2>1
<1>7. PICK s : found = {s}
  BY <1>5, <1>6, FS_Singleton
<1>8. s \in Slots /\ Min(found) = s
  BY <1>5, <1>7, MinOfSlots
<1> QED BY <1>2, <1>7, <1>8, OnlyWaiting DEF found

LEMMA CopiesRight ==
  ASSUME ThreadInv, AloneInv, BlockInv, CacheInv, NEW t \in Threads, Right(t),
         CopyFromBuffer(t) \/ CopyFromPreFetch(t) \/ MarkBlock(t)
  PROVE  Right(t)'
<1> DEFINE d == thread[t].dest  p == thread[t].page  k == Entry(p)
<1>1. /\ thread[t].pc \in ReadPcs /\ moved' = moved
      /\ thread'[t].page = p /\ thread'[t].dest = d
  BY LookForm DEF LookStep
<1>2. d \in Nodes /\ p \in Nat /\ k \in Entries
  BY <1>1, ReaderPage, BlockPlace
<1>3. ASSUME NEW x, Found(t, x), x # Unsure => Newest(d, p, x) PROVE Right(t)'
  <2>1. got'[t] = x /\ thread'[t].pc = "rdone"
    BY <1>3 DEF Found, Goto, BlockInv, ThreadInv, TypeInv, ThreadType
  <2> QED BY <1>1, <1>3, <2>1 DEF Right, Newest
<1>4. CASE CopyFromBuffer(t)
  <2> DEFINE b == buff[d][thread[t].slot]
  <2>1. /\ thread[t].pc = "rcopy"
        /\ Found(t, IF b.pageNO = p /\ got[t] # Unsure THEN b.data ELSE Unsure)
    BY <1>4 DEF CopyFromBuffer
  <2> QED BY <1>3, <2>1 DEF Right
<1>5. CASE CopyFromPreFetch(t)
  <2>1. Found(t, IF PreFetched(t) THEN readIn[k].data ELSE Unsure)
    BY <1>5 DEF CopyFromPreFetch
  <2>2. PreFetched(t) /\ readIn[k].data # Unsure => Newest(d, p, readIn[k].data)
    BY <1>2 DEF CacheInv, CacheRight, PreFetched, Cached, Newest
  <2> QED BY <1>3, <2>1, <2>2
<1>6. CASE MarkBlock(t)
  <2>1. thread[t].pc = "rmark" /\ Found(t, readIn[k].data)
    BY <1>6 DEF MarkBlock
  <2>2. k \in BlockEntries(t) /\ PageOf(t, k) = p
    BY <1>2, BlockForm
  <2>3. readIn[k].data # Unsure => Newest(d, p, readIn[k].data)
    BY <1>2, <2>1, <2>2 DEF CacheInv, MarkRight, At
  <2> QED BY <1>3, <2>1, <2>3
<1> QED BY <1>4, <1>5, <1>6

LEMMA RightHeld == ASSUME Seamless PROVE ReadSpec => []RightInv
<1>1. ReadInit => RightInv
  BY DEF ReadInit, Init, IdleThread, RightInv, Right
<1>2. ASSUME PoolInv, ThreadInv, ThreadInv', BaseInv, StampInv, WaitInv, AloneInv, BlockInv, CacheInv,
             PassedInv, RightInv, [ReadNext]_readVars
      PROVE  RightInv'
  <2>1. got = [u \in Threads |-> got[u]]
    BY <1>2 DEF BlockInv
  <2>2. ASSUME NEW u \in Threads, thread'[u] = thread[u], got'[u] = got[u] PROVE Right(u)'
    BY <1>2, <2>2, ReaderKept DEF RightInv
  <2>3. CASE UNCHANGED <<thread, readIn, mutex_buff, got>>
    BY <2>2, <2>3 DEF RightInv
  <2>4. ASSUME NEW t \in Threads, OnlyOf(t), got' = got \/ \E x : got' = [got EXCEPT ![t] = x], Right(t)'
        PROVE  RightInv'
    BY <2>1, <2>2, <2>4 DEF RightInv, OnlyOf
  <2>5. \A t \in Threads : thread'[t].pc \notin {"rcopy", "rdone"} => Right(t)'
    BY DEF Right
  <2>6. ASSUME NEW t \in Threads, OutStep(t), UNCHANGED <<readIn, mutex_buff, got>> PROVE RightInv'
    <3>1. OnlyOf(t) /\ OutForm(t)
      BY <1>2, <2>6, OutStepForm DEF AloneInv
    <3>2. thread'[t].pc \notin {"rcopy", "rdone"}
      BY <3>1 DEF OutForm, OutPcs, ReadPcs
    <3> QED BY <2>4, <2>5, <2>6, <3>1, <3>2
  <2>7. ASSUME NEW t \in Threads, VoidPreFetch(t) PROVE RightInv'
    <3>1. OnlyOf(t) /\ thread'[t].pc = "fill" /\ got' = got
      BY <1>2, <2>7, VoidForm DEF VoidPreFetch
    <3> QED BY <2>4, <2>5, <3>1
  <2>8. ASSUME NEW t \in Threads, ReadCall(t) PROVE RightInv'
    <3>1. OnlyOf(t) /\ thread'[t].pc = "rbuf" /\ got' = got
      BY <1>2, <2>8, ReadCallForm DEF ReadCallOf
    <3> QED BY <2>4, <2>5, <3>1
  <2>9. ASSUME NEW t \in Threads, FreeToRemote(t) PROVE RightInv'
    <3>1. OnlyOf(t) /\ thread'[t] = IdleThread /\ got' = [got EXCEPT ![t] = Nothing]
      BY <1>2, <2>9, FreeForm
    <3>2. thread'[t].pc = "idle"
      BY <3>1 DEF IdleThread
    <3> QED BY <2>4, <2>5, <3>1, <3>2
  <2>10. ASSUME NEW t \in Threads, LookStep(t) PROVE RightInv'
    <3>1. OnlyOf(t) /\ thread[t] \in ThreadType /\ thread \in [Threads -> ThreadType]
      BY <1>2, <2>10, LookForm DEF ThreadInv, TypeInv
    <3>2. got' = got \/ \E x : got' = [got EXCEPT ![t] = x]
      BY <2>10 DEF LookStep, LookInBuffer, CopyFromBuffer, LookInPreFetch, CopyFromPreFetch,
                   LockBlock, ReadBlock, ReadBlockFails, MarkBlock, Found
    <3>3. CASE LookInBuffer(t)
      BY <1>2, <2>4, <3>1, <3>2, <3>3, LooksRight
    <3>4. CASE CopyFromBuffer(t) \/ CopyFromPreFetch(t) \/ MarkBlock(t)
      BY <1>2, <2>4, <3>1, <3>2, <3>4, CopiesRight DEF RightInv
    <3>5. CASE LookInPreFetch(t) \/ LockBlock(t) \/ ReadBlock(t) \/ ReadBlockFails(t)
      <4>1. PICK where \in {"rprecopy", "rlock", "rread", "rmark"} : Goto(t, where)
        BY <3>5 DEF LookInPreFetch, LockBlock, ReadBlock, ReadBlockFails
      <4>2. thread'[t].pc \notin {"rcopy", "rdone"}
        BY <3>1, <4>1 DEF Goto, ThreadType
      <4> QED BY <2>4, <2>5, <3>1, <3>2, <4>2
    <3> QED BY <2>10, <3>3, <3>4, <3>5 DEF LookStep
  <2> QED BY <1>2, <2>3, <2>6, <2>7, <2>8, <2>9, <2>10, ReadSorts
<1> QED BY <1>1, <1>2, PoolHeld, ThreadHeld, BaseHeld, StampHeld, WaitHeld, AloneHeld, BlockHeld, CacheHeld,
           PassedHeld, PTL DEF ReadSpec

(* A read that met none of the windows finds what was last moved to its page *)
(* number (read_swap_cache_async): in the slot, whose content is the newest   *)
(* of its page when no other slot waits with the page; in the cache, which    *)
(* COMEX_void_preFetch made forget every page that was handed over again; or   *)
(* in the block it read from the memory node, where the page is when it is    *)
(* not on its way.                                                         *)
THEOREM ReadsRight == ASSUME Seamless PROVE ReadSpec => []ReadsOwnPage
<1>1. RightInv => ReadsOwnPage
  BY DEF RightInv, Right, Newest, ReadsOwnPage
<1> QED BY <1>1, RightHeld, PTL
=============================================================================
