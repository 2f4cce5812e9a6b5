------------------------------ MODULE ComexSwap ------------------------------
(***************************************************************************)
(* An anonymous page between its page tables, the swap cache, the COMEX    *)
(* page numbers (swap types 8 and 9) and the disk.  The faults are those   *)
(* of memory.c, the swap cache is that of swap_state.c and one reclaimer   *)
(* goes through shrink_page_list of vmscan.c.  Every address space has one *)
(* virtual page.  What holds the page lock or the page table lock without  *)
(* a break is one step; a page that is locked at the end of a step has a   *)
(* holder.  Types 8 and 9 have no swap_info: their entries are not counted *)
(* (swap_duplicate, swap_free and swapcache_free do nothing, page_swapcount*)
(* is 0) and what keeps them apart is only the set of free page numbers.   *)
(***************************************************************************)
EXTENDS Integers, FiniteSets, Sequences, SequencesExt

CONSTANTS Mms,      \* address spaces; the first is alive at the start
          First,
          Frames,   \* page frames
          Local,    \* page numbers of the node's own pool (type 9)
          Remote,   \* page numbers got from another node (type 8)
          Disk,     \* entries of a swap area (type 0)
          Tasks,    \* threads that fault
          MaxOps,   \* bound: calls of add_to_swap and zap_pte_range
          None

ASSUME SwapAssumption ==
    /\ First \in Mms /\ IsFiniteSet(Mms) /\ IsFiniteSet(Tasks)
    /\ None \notin Frames \cup Tasks \cup Local \cup Remote \cup Disk
    /\ "kswapd" \notin Tasks \cup {None}
    /\ MaxOps \in Nat
    /\ Local \cap Remote = {} /\ Disk \cap (Local \cup Remote) = {}

VARIABLES pte,      \* per address space
          frame,    \* struct page
          disk,     \* swap_map of the area: count and SWAP_HAS_CACHE
          store,    \* what the backing page of an entry holds
          free,     \* COMEX page numbers that may be given out
          task,     \* faults in progress
          rec,      \* the reclaimer and its page
          line,     \* per address space: those it descends from, oldest first
          ops,      \* for the bound
          want,     \* ghost: what was last written at the address
          tainted,  \* ghost: page numbers that two owners have had at a time
          spoilt    \* ghost: address spaces whose page was lost with them

mem == <<pte, frame>>
swap == <<disk, store, free>>
ghosts == <<want, tainted, spoilt>>
vars == <<mem, swap, task, rec, line, ghosts, ops>>

Comex == Local \cup Remote
Entries == Comex \cup Disk
Zero == None
Kswapd == "kswapd"
Actors == Tasks \cup {Kswapd}

NoPte == [k |-> "none"]
ZeroPte == [k |-> "zero"]
SwapPte(e) == [k |-> "swap", e |-> e]
MapPte(f, w) == [k |-> "map", f |-> f, w |-> w, d |-> w]

FreeFrame == [used |-> FALSE, val |-> Zero, dirty |-> FALSE, wb |-> FALSE,
              entry |-> None, lock |-> None, pins |-> {}, root |-> None]
Idle == [at |-> "idle"]
Alive == {m \in Mms : line[m] # <<>>}

MappedBy(f) == {m \in Mms : pte[m].k = "map" /\ pte[m].f = f}
MapCount(f) == Cardinality(MappedBy(f))
\* page_count: the page tables, the swap cache and who holds the page.
PageCount(f) == MapCount(f) + Cardinality(frame[f].pins)
                + (IF frame[f].entry = None THEN 0 ELSE 1)
Cached(e) == {f \in Frames : frame[f].entry = e}
\* page_swapcount: swap_info_get has nothing for types 8 and 9.
SwapCount(e) == IF e \in Disk THEN disk[e].count ELSE 0
\* The areas of an anon_vma tree that cover the page (Rmap_counter).
RmapCounter(f) == Cardinality({m \in Alive : Contains(line[m], frame[f].root)})

\* Frames nobody refers to go back to the page allocator.
Released(fr, pt) ==
    [f \in Frames |->
        IF /\ fr[f].used /\ fr[f].pins = {} /\ fr[f].entry = None
           /\ \A m \in Mms : pt[m].k # "map" \/ pt[m].f # f
        THEN FreeFrame ELSE fr[f]]

Unpin(fr, f, a) == [fr EXCEPT ![f].pins = @ \ {a}]
NewFrame(a, m, v) ==
    [FreeFrame EXCEPT !.used = TRUE, !.val = v, !.pins = {a}, !.root = m]
FreshFrame(f) == ~frame[f].used

\* swap_free() and swapcache_free(): the count, or the flag, of a disk entry.
SwapFree(dk, e) == IF e \in Disk THEN [dk EXCEPT ![e].count = @ - 1] ELSE dk
SwapcacheFreeNot(dk, e) == dk                   \* mutant: the flag stays
SwapcacheFree(dk, e) == IF e \in Disk THEN [dk EXCEPT ![e].has = FALSE] ELSE dk
SwapDuplicate(dk, e) == IF e \in Disk THEN [dk EXCEPT ![e].count = @ + 1] ELSE dk

\* delete_from_swap_cache() by callers that set PageDirty afterwards.
DeleteFromSwapCache(fr, f) == [fr EXCEPT ![f].entry = None, ![f].dirty = TRUE]

\* try_to_free_swap(): only when no page table names the entry any more.
MayFreeSwap(fr, dk, f) ==
    /\ fr[f].entry # None /\ ~fr[f].wb
    /\ fr[f].entry \in Disk => dk[fr[f].entry].count = 0
TryToFreeSwap(fr, dk, f) ==
    IF MayFreeSwap(fr, dk, f)
    THEN [fr |-> DeleteFromSwapCache(fr, f), dk |-> SwapcacheFree(dk, fr[f].entry)]
    ELSE [fr |-> fr, dk |-> dk]

ReuseCountMapped(f) == MapCount(f)              \* mutant: swap is forgotten

\* reuse_swap_page(): the page is all the caller's.
ReuseCount(f) ==
    IF MapCount(f) <= 1 /\ frame[f].entry # None
    THEN MapCount(f) + SwapCount(frame[f].entry) ELSE MapCount(f)
ReuseSwapPage(f) == ReuseCount(f) <= 1
AfterReuse(f) ==
    IF ReuseCount(f) = 1 /\ frame[f].entry # None /\ ~frame[f].wb
    THEN [fr |-> DeleteFromSwapCache(frame, f), dk |-> SwapcacheFree(disk, frame[f].entry)]
    ELSE [fr |-> frame, dk |-> disk]

\* A page number is given back; giving it back twice makes it two pages.
GiveBack(e) ==
    /\ free' = free \cup {e}
    /\ tainted' = tainted \cup ({e} \cap free)
------------------------------------------------------------------------------
Init ==
    /\ pte = [m \in Mms |-> NoPte]
    /\ frame = [f \in Frames |-> FreeFrame]
    /\ disk = [e \in Disk |-> [count |-> 0, has |-> FALSE]]
    /\ store = [e \in Entries |-> Zero]
    /\ free = Comex
    /\ task = [t \in Tasks |-> Idle] /\ rec = Idle
    /\ line = [m \in Mms |-> IF m = First THEN <<m>> ELSE <<>>]
    /\ want = [m \in Mms |-> Zero]
    /\ tainted = {} /\ spoilt = {}
    /\ ops = 0

(* Faults                                                                  *)

\* do_anonymous_page(): the zero page for a read, a page of its own for a
\* write.
DoAnonymousPage(m) ==
    /\ m \in Alive /\ pte[m] = NoPte
    /\ \/ pte' = [pte EXCEPT ![m] = ZeroPte] /\ UNCHANGED frame
       \/ \E f \in Frames :
             /\ FreshFrame(f)
             /\ pte' = [pte EXCEPT ![m] = MapPte(f, TRUE)]
             /\ frame' = [frame EXCEPT ![f] =
                             [NewFrame(None, m, Zero) EXCEPT !.pins = {}]]
    /\ UNCHANGED <<swap, task, rec, line, ghosts, ops>>

\* do_wp_page() on a page that only this page table, and nothing in swap,
\* refers to.  It waits for the page lock.
WpReuse(m) ==
    /\ m \in Alive /\ pte[m].k = "map" /\ ~pte[m].w
    /\ LET f == pte[m].f IN
       /\ frame[f].lock = None /\ ReuseSwapPage(f)
       /\ pte' = [pte EXCEPT ![m] = MapPte(f, TRUE)]
       /\ frame' = [AfterReuse(f).fr EXCEPT ![f].root = m]
       /\ disk' = AfterReuse(f).dk
    /\ UNCHANGED <<store, free, task, rec, line, ghosts, ops>>

\* do_wp_page() has to copy: the page table lock is dropped meanwhile.
WpCopy(t, m, new) ==
    /\ task[t] = Idle /\ m \in Alive /\ FreshFrame(new)
    /\ \/ /\ pte[m] = ZeroPte
          /\ frame' = [frame EXCEPT ![new] = NewFrame(t, m, Zero)]
       \/ /\ pte[m].k = "map" /\ ~pte[m].w
          /\ LET f == pte[m].f IN
             /\ frame[f].lock = None /\ ~ReuseSwapPage(f)
             /\ frame' = [frame EXCEPT ![new] = NewFrame(t, m, frame[f].val),
                                       ![f].pins = @ \cup {t}]
    /\ task' = [task EXCEPT ![t] = [at |-> "copied", m |-> m, orig |-> pte[m], new |-> new]]
    /\ UNCHANGED <<pte, swap, rec, line, ghosts, ops>>

PteSameAlways(t) == TRUE                        \* mutant: no second look
PteSame(t) == pte[task[t].m] = task[t].orig

\* The page table is looked at again: the copy is mapped, or thrown away.
WpCopied(t) ==
    /\ task[t].at = "copied"
    /\ LET m == task[t].m
           new == task[t].new
           same == PteSame(t)
           unpinned == [f \in Frames |-> [frame[f] EXCEPT !.pins = @ \ {t}]]
       IN  /\ pte' = IF same THEN [pte EXCEPT ![m] = MapPte(new, TRUE)] ELSE pte
           /\ frame' = Released(unpinned, pte')
           /\ spoilt' = IF same /\ pte[m].k = "map" /\ frame[pte[m].f].val # frame[new].val
                        THEN spoilt \cup {m} ELSE spoilt
    /\ task' = [task EXCEPT ![t] = Idle]
    /\ UNCHANGED <<swap, rec, line, want, tainted, ops>>

\* swapin_readahead(): the entries read ahead, before the entry itself.
Ahead(e) == IF e \in Comex THEN {e} ELSE Disk

\* do_swap_page() up to lookup_swap_cache().
DoSwapPage(t, m) ==
    /\ task[t] = Idle /\ m \in Alive /\ pte[m].k = "swap"
    /\ LET e == pte[m].e IN
       \/ \E f \in Cached(e) :
             /\ frame' = [frame EXCEPT ![f].pins = @ \cup {t}]
             /\ task' = [task EXCEPT ![t] =
                            [at |-> "lock", m |-> m, e |-> e, f |-> f]]
       \/ /\ Cached(e) = {} /\ UNCHANGED frame
          /\ task' = [task EXCEPT ![t] =
                         [at |-> "next", m |-> m, e |-> e, todo |-> Ahead(e)]]
    /\ UNCHANGED <<pte, swap, rec, line, ghosts, ops>>

\* The next call of read_swap_cache_async(); the last one is for the entry
\* that faulted.  A page that is found ends the call at once.
Going(t, at, x, todo, last) ==
    [at |-> at, m |-> task[t].m, e |-> task[t].e,
     x |-> x, todo |-> todo, last |-> last]
FindInCache(t) ==
    /\ task[t].at = "next"
    /\ \E x \in Entries :
          /\ IF task[t].todo = {} THEN x = task[t].e ELSE x \in task[t].todo
          /\ LET last == task[t].todo = {}
                 todo == task[t].todo \ {x}
             IN  \/ /\ Cached(x) # {} /\ ~last
                    /\ task' = [task EXCEPT ![t].todo = todo] /\ UNCHANGED frame
                 \/ /\ Cached(x) # {} /\ last
                    /\ \E f \in Cached(x) :
                          /\ frame' = [frame EXCEPT ![f].pins = @ \cup {t}]
                          /\ task' = [task EXCEPT ![t] =
                                 [at |-> "lock", m |-> @.m, e |-> x, f |-> f]]
                 \/ /\ Cached(x) = {} /\ UNCHANGED frame
                    /\ task' = [task EXCEPT ![t] = Going(t, "alloc", x, todo, last)]
    /\ UNCHANGED <<pte, swap, rec, line, ghosts, ops>>

\* The call ends without a page: no memory for a page or for the radix tree, or
\* swapcache_prepare() finds that the entry is obsolete.
ReadFails(t) ==
    /\ task[t].at = "alloc"
    /\ task' = [task EXCEPT ![t] =
                   IF task[t].last THEN Idle
                   ELSE [at |-> "next", m |-> @.m, e |-> @.e, todo |-> @.todo]]
    /\ UNCHANGED <<mem, swap, rec, line, ghosts, ops>>

\* swapcache_prepare() or the radix tree says -EEXIST: the search starts
\* again.
ReadAgain(t) ==
    /\ task[t].at = "alloc"
    /\ Cached(task[t].x) # {}
    /\ task' = [task EXCEPT ![t] =
                   [at |-> "next", m |-> @.m, e |-> @.e,
                    todo |-> IF @.last THEN {} ELSE @.todo \cup {@.x}]]
    /\ UNCHANGED <<mem, swap, rec, line, ghosts, ops>>

\* swapcache_prepare() and __add_to_swap_cache() of a new page that is
\* locked; then the read is started.  For types 8 and 9 prepare always
\* succeeds.
AddForRead(t, f) ==
    LET x == task[t].x IN
    /\ task[t].at = "alloc" /\ FreshFrame(f) /\ Cached(x) = {}
    /\ x \in Disk => (disk[x].count > 0 /\ ~disk[x].has)
    /\ frame' = [frame EXCEPT ![f] =
                    [NewFrame(t, None, Zero) EXCEPT !.entry = x, !.lock = t]]
    /\ disk' = IF x \in Disk THEN [disk EXCEPT ![x].has = TRUE] ELSE disk
    /\ tainted' = tainted \cup ({x} \cap free)
    /\ task' = [task EXCEPT ![t].at = "fill"]
    /\ UNCHANGED <<pte, store, free, rec, line, want, spoilt, ops>>

\* read_swap_cache_async() is done with x: swapin_readahead() drops the page
\* it read ahead.
AfterRead(t, f) ==
    IF task[t].last
    THEN [at |-> "lock", m |-> task[t].m, e |-> task[t].e, f |-> f]
    ELSE [at |-> "next", m |-> task[t].m, e |-> task[t].e,
          todo |-> task[t].todo]

\* The contents arrive and the page is unlocked.  A page of types 8 and 9 is
\* made dirty, and COMEX_free_to_remote() or COMEX_free_page() gives its page
\* number back: after the unlock, but nobody can tell a number that is free
\* from one that is about to be, so it is the same step.
Fill(t) ==
    LET x == task[t].x IN
    /\ task[t].at = "fill"
    /\ \E f \in Cached(x) :
          /\ frame[f].lock = t
          /\ LET filled == [frame EXCEPT ![f].val = store[x], ![f].lock = None,
                                         ![f].dirty = x \in Comex]
             IN frame' = IF task[t].last THEN filled ELSE Unpin(filled, f, t)
          /\ task' = [task EXCEPT ![t] = AfterRead(t, f)]
    /\ IF x \in Comex THEN GiveBack(x) ELSE UNCHANGED <<free, tainted>>
    /\ UNCHANGED <<pte, disk, store, rec, line, want, spoilt, ops>>

\* do_swap_page() with the page lock: the swap cache and the page table are
\* looked at again, then the page is mapped and try_to_free_swap() called.
LockPage(t, wr) ==
    /\ task[t].at = "lock"
    /\ LET m == task[t].m
           e == task[t].e
           f == task[t].f
           reuse == wr /\ ReuseSwapPage(f)
           now == IF wr THEN AfterReuse(f) ELSE [fr |-> frame, dk |-> disk]
           owned == [now.fr EXCEPT ![f].pins = @ \ {t},
                                   ![f].root = IF reuse THEN m
                                               ELSE IF @ = None THEN Head(line[m]) ELSE @]
           done == TryToFreeSwap(owned, SwapFree(now.dk, e), f)
       IN  /\ frame[f].lock = None
           /\ IF frame[f].entry # e \/ pte[m] # SwapPte(e)
              THEN /\ frame' = Released(Unpin(frame, f, t), pte)
                   /\ UNCHANGED <<pte, disk, spoilt>>
              ELSE /\ pte' = [pte EXCEPT ![m] = MapPte(f, reuse)]
                   /\ frame' = done.fr /\ disk' = done.dk
                   /\ spoilt' = IF e \in tainted
                               THEN spoilt \cup {m} \cup MappedBy(f) ELSE spoilt
    /\ task' = [task EXCEPT ![t] = Idle]
    /\ UNCHANGED <<store, free, rec, line, want, tainted, ops>>

\* lock_page_or_retry() gives up: the fault is taken again.
LockRetry(t) ==
    /\ task[t].at = "lock" /\ frame[task[t].f].lock # None
    /\ frame' = Released(Unpin(frame, task[t].f, t), pte)
    /\ task' = [task EXCEPT ![t] = Idle]
    /\ UNCHANGED <<pte, swap, rec, line, ghosts, ops>>

(* What a process does to its memory                                       *)

\* The process writes.  The page may be in the swap cache already: its
\* contents were copied to COMEX and it is not unmapped yet.
Write(m) ==
    /\ pte[m].k = "map" /\ pte[m].w
    /\ LET f == pte[m].f IN
           /\ frame' = [frame EXCEPT ![f].val = m]
           /\ want' = [want EXCEPT ![m] = m]
           /\ spoilt' = CASE frame[f].entry \in Comex -> spoilt \cup {m}
                       [] MappedBy(f) = {m} /\ frame[f].entry = None -> spoilt \ {m}
                       [] OTHER -> spoilt
    /\ UNCHANGED <<pte, swap, task, rec, line, tainted, ops>>

\* free_swap_cache(): the page's last user frees its swap, too.
FreeSwapCache(fr, dk, f, pt) ==
    IF fr[f].lock = None /\ \A m \in Mms : pt[m].k # "map" \/ pt[m].f # f
    THEN TryToFreeSwap(fr, dk, f) ELSE [fr |-> fr, dk |-> dk]

\* free_swap_and_cache(): the last reference takes the cached page along.
FreeSwapAndCache(e) ==
    LET dk == SwapFree(disk, e)
        gone == {f \in Cached(e) : frame[f].lock = None /\ ~frame[f].wb
                                   /\ dk[e].count = 0 /\ MapCount(f) = 0}
    IN  IF gone = {} THEN [fr |-> frame, dk |-> dk]
        ELSE [fr |-> DeleteFromSwapCache(frame, CHOOSE f \in gone : TRUE),
              dk |-> SwapcacheFree(dk, e)]

\* zap_pte_range(): for munmap and madvise.  The page number of a
\* type 8 or 9 entry is given back without a look at the swap cache.
ZapPteRange(m) ==
    /\ pte[m] # NoPte
    /\ pte' = [pte EXCEPT ![m] = NoPte]
    /\ CASE pte[m].k = "zero" -> UNCHANGED <<frame, disk, free, tainted>>
         [] pte[m].k = "map" ->
              LET freed == FreeSwapCache(frame, disk, pte[m].f, pte') IN
              /\ frame' = Released(freed.fr, pte') /\ disk' = freed.dk
              /\ UNCHANGED <<free, tainted>>
         [] pte[m].k = "swap" /\ pte[m].e \in Comex ->
              GiveBack(pte[m].e) /\ UNCHANGED <<frame, disk>>
         [] OTHER ->
              LET freed == FreeSwapAndCache(pte[m].e) IN
              /\ frame' = Released(freed.fr, pte') /\ disk' = freed.dk
              /\ UNCHANGED <<free, tainted>>
    /\ want' = [want EXCEPT ![m] = Zero]
    /\ spoilt' = spoilt \ {m}

Zap(m) ==
    /\ ops < MaxOps /\ ops' = ops + 1
    /\ ZapPteRange(m)
    /\ UNCHANGED <<store, task, rec, line>>

\* mmap_sem is held for writing: no fault of m is in progress.
NoFault(m) == \A t \in Tasks : task[t] # Idle => task[t].m # m

\* copy_one_pte(): a present page is write protected in both, a swap entry
\* is duplicated.  Nothing counts an entry of type 8 or 9.
Fork(m, c) ==
    /\ m \in Alive /\ NoFault(m) /\ c # First /\ line[c] = <<>> /\ pte[c] = NoPte
    /\ \A n \in Mms : ~Contains(line[n], c)
    /\ \A f \in Frames : frame[f].root # c
    /\ line' = [line EXCEPT ![c] = Append(line[m], c)]
    /\ want' = [want EXCEPT ![c] = want[m]]
    /\ spoilt' = IF m \in spoilt THEN spoilt \cup {c} ELSE spoilt
    /\ LET p == IF pte[m].k = "map" THEN [pte[m] EXCEPT !.w = FALSE] ELSE pte[m] IN
       /\ pte' = [pte EXCEPT ![m] = p, ![c] = p]
       /\ disk' = IF p.k = "swap" THEN SwapDuplicate(disk, p.e) ELSE disk
       /\ tainted' = tainted \cup
             (Comex \cap CASE p.k = "swap" -> {p.e}
                           [] p.k = "map" -> {frame[p.f].entry}
                           [] OTHER -> {})
    /\ UNCHANGED <<frame, store, free, task, rec, ops>>

(* The reclaimer: shrink_page_list() for one page                          *)

\* keep and keep_locked: the page goes back to its list.
PutBack(fr) ==
    /\ frame' = Released([fr EXCEPT ![rec.f].pins = @ \ {Kswapd},
                                    ![rec.f].lock = IF @ = Kswapd THEN None ELSE @], pte)
    /\ rec' = Idle

\* A page on a list, isolated and locked, that is not under writeback.  One
\* that is referenced, or locked, goes back to its list as it was.
Isolate(f) ==
    /\ rec = Idle /\ frame[f].lock = None /\ ~frame[f].wb
    /\ (MapCount(f) > 0 /\ ops < MaxOps) \/ frame[f].entry # None
    /\ frame' = [frame EXCEPT ![f].lock = Kswapd, ![f].pins = @ \cup {Kswapd}]
    /\ rec' = [at |-> IF frame[f].entry = None THEN "add" ELSE "unmap", f |-> f]
    /\ UNCHANGED <<pte, swap, task, line, ghosts, ops>>

\* activate_locked with vm_swap_full(), or an mlocked page: its swap is freed.
Activate ==
    /\ rec.at = "unmap"
    /\ LET freed == TryToFreeSwap(frame, disk, rec.f) IN
       PutBack(freed.fr) /\ disk' = freed.dk
    /\ UNCHANGED <<pte, store, free, task, line, ghosts, ops>>

\* The pages add_to_swap() moves to COMEX: one user, one area.
MayMove(f) == MapCount(f) = 1 /\ PageCount(f) = 2 /\ RmapCounter(f) = 1

\* Where add_to_swap() puts the page: the node's own pool first, then another
\* node (whose buffer may be full), then the disk.
Places(f) ==
    IF MayMove(f) /\ free \cap Local # {} THEN free \cap Local
    ELSE (IF MayMove(f) THEN free \cap Remote ELSE {})
         \cup {e \in Disk : disk[e].count = 0 /\ ~disk[e].has}

\* The page number is still named by a page table, by a fault or by the cache.
StillNamed(e) ==
    \/ Cached(e) # {}
    \/ \E m \in Mms : pte[m] = SwapPte(e)
    \/ \E t \in Tasks : task[t].at # "idle" /\ task[t].at # "copied" /\ task[t].e = e

\* add_to_swap(): the contents of a page that goes to COMEX are copied here,
\* before it is unmapped.
AddToSwap(e) ==
    LET f == rec.f IN
    /\ rec.at = "add" /\ e \in Places(f) /\ Cached(e) = {}
    /\ store' = IF e \in Comex THEN [store EXCEPT ![e] = frame[f].val] ELSE store
    /\ free' = free \ {e}
    /\ disk' = IF e \in Disk THEN [disk EXCEPT ![e].has = TRUE] ELSE disk
    /\ tainted' = IF e \in Comex /\ StillNamed(e) THEN tainted \cup {e} ELSE tainted
    /\ frame' = [frame EXCEPT ![f].entry = e, ![f].dirty = TRUE]
    /\ rec' = [rec EXCEPT !.at = "unmap"]
    /\ UNCHANGED <<pte, task, line, want, spoilt>>
    /\ ops < MaxOps /\ ops' = ops + 1

\* No entry, or add_to_swap_cache() fails: swapcache_free() gives a disk entry
\* back; a COMEX page number stays taken.
AddToSwapFails ==
    /\ rec.at = "add"
    /\ \/ Places(rec.f) \cap Disk = Places(rec.f) /\ UNCHANGED <<store, free, tainted>>
       \/ \E e \in Places(rec.f) \cap Comex :
             /\ store' = [store EXCEPT ![e] = frame[rec.f].val]
             /\ free' = free \ {e}
             /\ tainted' = IF StillNamed(e) THEN tainted \cup {e} ELSE tainted
    /\ PutBack(frame)
    /\ UNCHANGED <<pte, disk, task, line, want, spoilt>>
    /\ ops < MaxOps /\ ops' = ops + 1

\* try_to_unmap(): one page table after the other.
TryToUnmap(m) ==
    LET f == rec.f IN
    /\ rec.at = "unmap" /\ m \in MappedBy(f)
    /\ pte' = [pte EXCEPT ![m] = SwapPte(frame[f].entry)]
    /\ frame' = [frame EXCEPT ![f].dirty = @ \/ pte[m].d]
    /\ disk' = SwapDuplicate(disk, frame[f].entry)
    /\ UNCHANGED <<store, free, task, rec, line, ghosts, ops>>

\* SWAP_AGAIN, PAGE_KEEP and the reclaimers that may not write: the page stays
\* mapped, or dirty.
UnmapFails ==
    /\ rec.at = "unmap"
    /\ MapCount(rec.f) > 0 \/ frame[rec.f].dirty
    /\ PutBack(frame)
    /\ UNCHANGED <<pte, swap, task, line, ghosts, ops>>

\* pageout() for types 8 and 9: nothing is written, the page is clean and
\* unlocked.
PageoutComex ==
    LET f == rec.f IN
    /\ rec.at = "unmap" /\ MapCount(f) = 0 /\ PageCount(f) = 2
    /\ frame[f].dirty /\ frame[f].entry \in Comex
    /\ frame' = [frame EXCEPT ![f].dirty = FALSE, ![f].lock = None]
    /\ rec' = [rec EXCEPT !.at = "sent"]
    /\ UNCHANGED <<pte, swap, task, line, ghosts, ops>>

\* pageout() for the disk: swap_writepage() starts the write, unless the entry
\* is not used any more.
PageoutDisk ==
    LET f == rec.f
        freed == TryToFreeSwap(frame, disk, f)
    IN
    /\ rec.at = "unmap" /\ MapCount(f) = 0 /\ PageCount(f) = 2
    /\ frame[f].dirty /\ frame[f].entry \in Disk
    /\ IF MayFreeSwap(frame, disk, f)
       THEN PutBack(freed.fr) /\ disk' = freed.dk /\ UNCHANGED store
       ELSE /\ PutBack([frame EXCEPT ![f].dirty = FALSE, ![f].wb = TRUE])
            /\ store' = [store EXCEPT ![frame[f].entry] = frame[f].val]
            /\ UNCHANGED disk
    /\ UNCHANGED <<pte, free, task, line, ghosts, ops>>

\* The write ends.  It may have sent what was written to the page meanwhile.
EndWriteback(f) ==
    /\ frame[f].wb
    /\ frame' = Released([frame EXCEPT ![f].wb = FALSE], pte)
    /\ \/ store' = [store EXCEPT ![frame[f].entry] = frame[f].val]
       \/ UNCHANGED store
    /\ UNCHANGED <<pte, disk, free, task, rec, line, ghosts, ops>>

\* __remove_mapping() of a clean page: nobody but the cache and the reclaimer
\* has it.  After PAGE_SUCCESS it is locked again first, if it is still clean.
RemoveMapping ==
    LET f == rec.f IN
    /\ \/ rec.at = "unmap" /\ MapCount(f) = 0 /\ ~frame[f].dirty
       \/ rec.at = "sent"
    /\ IF /\ frame[f].lock \in {None, Kswapd} /\ ~frame[f].dirty
          /\ frame[f].entry # None /\ PageCount(f) = 2
       THEN /\ frame' = [frame EXCEPT ![f] = FreeFrame]
            /\ disk' = SwapcacheFree(disk, frame[f].entry)
            /\ rec' = Idle
       ELSE PutBack(frame) /\ UNCHANGED disk
    /\ UNCHANGED <<pte, store, free, task, line, ghosts, ops>>
------------------------------------------------------------------------------
Fault(t) ==
    \/ \E m \in Mms, f \in Frames : WpCopy(t, m, f)
    \/ WpCopied(t)
    \/ \E m \in Mms : DoSwapPage(t, m)
    \/ FindInCache(t) \/ ReadFails(t) \/ ReadAgain(t)
    \/ \E f \in Frames : AddForRead(t, f)
    \/ Fill(t) \/ (\E wr \in BOOLEAN : LockPage(t, wr)) \/ LockRetry(t)

Process(m) ==
    \/ DoAnonymousPage(m) \/ WpReuse(m) \/ Write(m) \/ Zap(m)
    \/ \E c \in Mms : Fork(m, c)

Reclaim ==
    \/ \E f \in Frames : Isolate(f)
    \/ Activate
    \/ \E e \in Entries : AddToSwap(e)
    \/ AddToSwapFails
    \/ \E m \in Mms : TryToUnmap(m)
    \/ UnmapFails \/ PageoutComex \/ PageoutDisk \/ RemoveMapping

Next ==
    \/ \E t \in Tasks : Fault(t)
    \/ \E m \in Mms : Process(m)
    \/ Reclaim
    \/ \E f \in Frames : EndWriteback(f)

Spec == Init /\ [][Next]_vars
------------------------------------------------------------------------------
\* A page is what its address space last wrote to it, through swap-out, fork,
\* copy on write and every interleaving of faults with reclaim - except for a
\* page of types 8 and 9 whose page number had two owners (a fork of the
\* entry, a number given back while it is still named, a read of a number
\* given back) or that was written between add_to_swap and try_to_unmap.
PageIntact ==
    \A m \in Mms :
        /\ pte[m].k = "zero" => want[m] = Zero
        /\ pte[m].k = "map" => (frame[pte[m].f].val = want[m] \/ m \in spoilt)

\* Copy on write: a page that one process may write is no other's, in the page
\* tables or by way of a swap entry of the disk that it still backs.
WriterAlone ==
    \A m \in Mms :
        (pte[m].k = "map" /\ pte[m].w /\ m \notin spoilt) =>
            /\ MappedBy(pte[m].f) = {m}
            /\ frame[pte[m].f].entry \in Disk => disk[frame[pte[m].f].entry].count = 0

\* The swap map of the disk counts the page tables that name an entry, and its
\* cache flag is set for exactly the entries with a page in the swap cache.
SwapMapExact ==
    \A e \in Disk :
        /\ disk[e].count = Cardinality({m \in Mms : pte[m] = SwapPte(e)})
        /\ disk[e].has = (Cached(e) # {})
==============================================================================
