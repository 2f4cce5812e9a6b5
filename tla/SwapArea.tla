------------------------------- MODULE SwapArea -------------------------------
(***************************************************************************)
(* The swap areas of the kernel COMEX is built into (swapfile.c): swapon   *)
(* and swapoff, the list of areas in the order of their priorities, the    *)
(* search for a free entry and the life of an entry until it is free       *)
(* again.  swap_lock is held by one task at a time; an area's own lock is  *)
(* held by a task that is at "checks".  The search reads the map without   *)
(* a lock, one byte at a time.  The references to an entry are the set of  *)
(* address spaces whose page table names it (module SwapCount is about the *)
(* byte that counts them).  Which of them map a cached page is not kept: a  *)
(* cached page may be mapped by any of them, or by none.                   *)
(***************************************************************************)
EXTENDS Integers, Sequences, FiniteSets, Functions

CONSTANTS NTypes,     \* MAX_SWAPFILES
          NPages,     \* p->max: the header page 0 and the pages 1 .. NPages-1
          Bad,        \* bad pages named by the swap header
          Cluster,    \* SWAPFILE_CLUSTER
          Prios,      \* priorities given to swapon; -1 lets the kernel choose
          Discardable,\* the areas have SWP_DISCARDABLE
          Tasks,      \* tasks that swap out
          None,       \* nobody holds swap_lock
          Mms,        \* address spaces
          MaxCalls,   \* bound: calls of swapon and swapoff
          MaxAllocs   \* bound: calls of get_swap_page

ASSUME AreaAssumption == /\ NTypes \in Nat \ {0} /\ NPages \in Nat \ {0, 1}
                         /\ Bad \subseteq 1..(NPages - 1) /\ Cluster \in Nat \ {0}
                         /\ Prios \subseteq -1..100
                         /\ Discardable \in BOOLEAN /\ None \notin Tasks
                         /\ MaxCalls \in Nat /\ MaxAllocs \in Nat

VARIABLES info,            \* swap_info[]
          map,             \* the swap maps: address spaces, cache flag, bad
          swap_list,       \* head and next
          least_priority,
          nr_swap_pages,
          hp_index,        \* highest_priority_index
          swap_lock,       \* the task that holds it, or None
          cached,          \* entries whose page is in the swap cache
          pc,              \* per task: get_swap_page and scan_swap_map
          adm,             \* the task in swapon or swapoff
          lost,            \* ghost: entries in use that were discarded
          calls, allocs      \* for the bounds

lists == <<swap_list, least_priority>>
counts == <<nr_swap_pages, hp_index>>
bounds == <<calls, allocs>>
vars == <<info, map, lists, counts, swap_lock, cached, pc, adm, lost, bounds>>

Types == 0..(NTypes - 1)
Slots == 0..(NPages - 1)
Entries == Types \X Slots
UIntMax == -1     \* cluster_nr once it was decremented at zero
Free == [users |-> {}, cache |-> FALSE, bad |-> FALSE]
CacheOnly == [Free EXCEPT !.cache = TRUE]
Idle == [at |-> "idle"]
NoAdm == [at |-> "none"]

MinOf(a, b) == IF a < b THEN a ELSE b
MaxOf(a, b) == IF a < b THEN b ELSE a

Unused ==
    [used |-> FALSE, writeok |-> FALSE, scanning |-> 0, discarding |-> FALSE,
     prio |-> 0, next |-> -1, lowest |-> 0, highest |-> 0, pages |-> 0,
     inuse |-> 0, cluster_next |-> 0, cluster_nr |-> 0,
     lowest_alloc |-> 0, highest_alloc |-> 0]

\* The areas in the order of swap_list.
Areas ==
    LET walk[n \in 0..NTypes, ty \in Types \cup {-1}] ==
            IF n = 0 \/ ty = -1 THEN <<>> ELSE <<ty>> \o walk[n - 1, info[ty].next]
    IN  walk[NTypes, swap_list.head]

\* total_swap_pages: the pages of the areas that may be written.
TotalSwapPages ==
    SumFunction([ty \in Types |-> IF info[ty].writeok THEN info[ty].pages ELSE 0])

vm_swap_full == nr_swap_pages * 2 < TotalSwapPages

\* Nobody is between spin_lock and spin_unlock of the area.
Unlocked(ty) == \A t \in Tasks : ~(pc[t].at = "checks" /\ pc[t].ty = ty)

\* swapoff holds a reference to the page of e, or its lock.
Pinned(e) == adm.at \in {"mms", "wait"} /\ e = <<adm.ty, adm.i>>
PageLocked(e) == adm.at = "mms" /\ e = <<adm.ty, adm.i>>
------------------------------------------------------------------------------
Init ==
    /\ info = [ty \in Types |-> Unused]
    /\ map = [ty \in Types |-> [o \in Slots |-> Free]]
    /\ swap_list = [head |-> -1, next |-> -1]
    /\ least_priority = 0
    /\ nr_swap_pages = 0 /\ hp_index = -1
    /\ swap_lock = None
    /\ cached = {}
    /\ pc = [t \in Tasks |-> Idle] /\ adm = NoAdm
    /\ lost = {}
    /\ calls = 0 /\ allocs = 0

(* swapon                                                                  *)

\* _enable_swap_info(): the area is listed before the first that has no
\* higher priority.
Enable(ty, inf, prio) ==
    LET pr == IF prio >= 0 THEN prio ELSE least_priority - 1
        at == CHOOSE k \in 1..(Len(Areas) + 1) :
                  /\ k > Len(Areas) \/ pr >= info[Areas[k]].prio
                  /\ \A j \in 1..(k - 1) : pr < info[Areas[j]].prio
        i == IF at > Len(Areas) THEN -1 ELSE Areas[at]
        new == [inf EXCEPT ![ty].prio = pr, ![ty].writeok = TRUE, ![ty].next = i]
    IN  /\ least_priority' = IF prio >= 0 THEN least_priority ELSE least_priority - 1
        /\ nr_swap_pages' = nr_swap_pages + inf[ty].pages
        /\ IF at = 1
           THEN swap_list' = [head |-> ty, next |-> ty] /\ info' = new
           ELSE /\ info' = [new EXCEPT ![Areas[at - 1]].next = ty]
                /\ UNCHANGED swap_list

\* alloc_swap_info(): the first type that is not in use.
AllocSwapInfo(ty) ==
    /\ adm = NoAdm /\ swap_lock = None /\ calls < MaxCalls
    /\ ~info[ty].used /\ \A u \in 0..(ty - 1) : info[u].used
    /\ info' = [info EXCEPT ![ty].used = TRUE, ![ty].next = -1]
    /\ adm' = [at |-> "on", ty |-> ty]
    /\ calls' = calls + 1
    /\ UNCHANGED <<map, lists, counts, swap_lock, cached, pc, lost, allocs>>

\* The rest of swapon: read_swap_header, setup_swap_map_and_extents and
\* enable_swap_info.  lowest_alloc and inuse_pages are left as they are.
SwapOn(prio) ==
    LET ty == adm.ty IN
    /\ adm.at = "on" /\ swap_lock = None
    /\ map' = [map EXCEPT ![ty] =
                  [o \in Slots |-> [Free EXCEPT !.bad = o = 0 \/ o \in Bad]]]
    /\ Enable(ty, [info EXCEPT ![ty].lowest = 1, ![ty].highest = NPages - 1,
                               ![ty].cluster_next = 1, ![ty].cluster_nr = 0,
                               ![ty].pages = NPages - 1 - Cardinality(Bad)], prio)
    /\ adm' = NoAdm
    /\ UNCHANGED <<hp_index, swap_lock, cached, pc, lost, bounds>>

\* bad_swap: the file cannot be opened, claimed or read.
SwapOnFails ==
    /\ adm.at = "on" /\ swap_lock = None
    /\ info' = [info EXCEPT ![adm.ty].used = FALSE]
    /\ adm' = NoAdm
    /\ UNCHANGED <<map, lists, counts, swap_lock, cached, pc, lost, bounds>>

(* get_swap_page and scan_swap_map                                         *)

\* get_swap_page() takes swap_lock and reserves a page.
GetSwapPage(t) ==
    /\ pc[t] = Idle /\ swap_lock = None /\ allocs < MaxAllocs
    /\ nr_swap_pages > 0
    /\ nr_swap_pages' = nr_swap_pages - 1
    /\ swap_lock' = t
    /\ allocs' = allocs + 1
    /\ pc' = [pc EXCEPT ![t] = [at |-> "pick", ty |-> swap_list.next, wrapped |-> 0]]
    /\ UNCHANGED <<info, map, lists, hp_index, cached, adm, lost, calls>>

\* Mutant: the reserved page is not returned
GetSwapPageFailsKeeps(t) ==
    /\ pc[t].at = "pick"
    /\ pc[t].ty < 0 \/ pc[t].wrapped = 2
    /\ swap_lock' = None
    /\ pc' = [pc EXCEPT ![t] = Idle]
    /\ UNCHANGED <<info, map, lists, counts, cached, adm, lost, bounds>>

GetSwapPageFails(t) ==
    /\ pc[t].at = "pick"
    /\ pc[t].ty < 0 \/ pc[t].wrapped = 2
    /\ nr_swap_pages' = nr_swap_pages + 1
    /\ swap_lock' = None
    /\ pc' = [pc EXCEPT ![t] = Idle]
    /\ UNCHANGED <<info, map, lists, hp_index, cached, adm, lost, bounds>>

\* The area of one turn of the loop: one that has just freed an entry and
\* has a higher priority goes first.
PickedType(ty) ==
    IF /\ hp_index # -1 /\ hp_index # ty
       /\ info[ty].prio < info[hp_index].prio /\ info[hp_index].writeok
    THEN hp_index ELSE ty

WrapsAt(ty, wrapped) ==
    info[ty].next < 0 \/ (wrapped = 0 /\ info[ty].prio # info[info[ty].next].prio)

NextType(ty, wrapped) ==
    IF WrapsAt(ty, wrapped) THEN swap_list.head ELSE info[ty].next

\* An area that is full or going away is skipped, swap_lock stays held.
SkipArea(t) ==
    LET ty == PickedType(pc[t].ty)
        w == pc[t].wrapped IN
    /\ pc[t].at = "pick" /\ pc[t].ty >= 0 /\ w < 2
    /\ Unlocked(ty)
    /\ info[ty].highest = 0 \/ ~info[ty].writeok
    /\ hp_index' = -1
    /\ swap_list' = IF ty # pc[t].ty THEN [swap_list EXCEPT !.next = ty] ELSE swap_list
    /\ pc' = [pc EXCEPT ![t].ty = NextType(ty, w),
                        ![t].wrapped = IF WrapsAt(ty, w) THEN w + 1 ELSE w]
    /\ UNCHANGED <<info, map, least_priority, nr_swap_pages, swap_lock, cached, adm, lost, bounds>>

\* The start of scan_swap_map(): go on in the cluster, or look for a free
\* cluster with the lock dropped.
ScanSwapMap(t) ==
    LET ty == PickedType(pc[t].ty)
        si == info[ty]
        w == pc[t].wrapped
        scan == [at |-> "checks", ty |-> ty, off |-> si.cluster_next,
                 base |-> si.cluster_next, last |-> 0, found |-> FALSE, pass |-> 1,
                 wrapped |-> IF WrapsAt(ty, w) THEN w + 1 ELSE w]
        search == [scan EXCEPT !.at = "cluster", !.off = si.lowest, !.base = si.lowest,
                               !.last = si.lowest + Cluster - 1] IN
    /\ pc[t].at = "pick" /\ pc[t].ty >= 0 /\ w < 2
    /\ Unlocked(ty)
    /\ si.highest > 0 /\ si.writeok
    /\ hp_index' = -1
    /\ swap_list' = [swap_list EXCEPT !.next = NextType(ty, w)]
    /\ swap_lock' = None
    /\ \/ /\ si.cluster_nr # 0
          /\ info' = [info EXCEPT ![ty].scanning = @ + 1,
                                  ![ty].cluster_nr = IF @ = UIntMax THEN @ ELSE @ - 1]
          /\ pc' = [pc EXCEPT ![t] = scan]
       \/ /\ si.cluster_nr = 0 /\ si.pages - si.inuse < Cluster
          /\ info' = [info EXCEPT ![ty].scanning = @ + 1, ![ty].cluster_nr = Cluster - 1]
          /\ pc' = [pc EXCEPT ![t] = scan]
       \/ /\ si.cluster_nr = 0 /\ si.pages - si.inuse >= Cluster
          /\ Discardable /\ si.lowest_alloc # 0
          /\ info' = [info EXCEPT ![ty].scanning = @ + 1, ![ty].cluster_nr = UIntMax]
          /\ pc' = [pc EXCEPT ![t] = scan]
       \/ /\ si.cluster_nr = 0 /\ si.pages - si.inuse >= Cluster
          /\ ~(Discardable /\ si.lowest_alloc # 0)
          /\ info' = [info EXCEPT
                ![ty].scanning = @ + 1, ![ty].cluster_nr = UIntMax,
                ![ty].lowest_alloc = IF Discardable THEN NPages ELSE @,
                ![ty].highest_alloc = IF Discardable THEN 0 ELSE @]
          /\ pc' = [pc EXCEPT ![t] = search]
    /\ UNCHANGED <<map, least_priority, nr_swap_pages, cached, adm, lost, bounds>>

\* One byte of the two loops that look for an empty cluster.
ClusterSearch(t) ==
    LET p == pc[t]
        si == info[p.ty]
        more == IF p.pass = 1 THEN p.last <= si.highest ELSE p.last < p.base
        empty == map[p.ty][p.off] = Free IN
    /\ p.at = "cluster"
    /\ \/ /\ more /\ empty /\ p.off = p.last
          /\ pc' = [pc EXCEPT ![t].at = "found"]
          /\ UNCHANGED info
       \/ /\ more /\ ~(empty /\ p.off = p.last)
          /\ pc' = [pc EXCEPT ![t].off = @ + 1,
                              ![t].last = IF empty THEN @ ELSE p.off + Cluster]
          /\ UNCHANGED info
       \/ /\ ~more /\ p.pass = 1
          /\ pc' = [pc EXCEPT ![t].pass = 2, ![t].off = si.lowest,
                              ![t].last = si.lowest + Cluster - 1]
          /\ UNCHANGED info
       \/ /\ ~more /\ p.pass = 2                      \* no empty cluster
          /\ Unlocked(p.ty)
          /\ info' = [info EXCEPT ![p.ty].cluster_nr = Cluster - 1, ![p.ty].lowest_alloc = 0]
          /\ pc' = [pc EXCEPT ![t].at = "checks", ![t].off = p.base]
    /\ UNCHANGED <<map, lists, counts, swap_lock, cached, adm, lost, bounds>>

\* The lock is taken again for the cluster that was seen empty.
ClusterFound(t) ==
    LET p == pc[t] IN
    /\ p.at = "found" /\ Unlocked(p.ty)
    /\ info' = [info EXCEPT ![p.ty].cluster_next = p.off - (Cluster - 1),
                            ![p.ty].cluster_nr = Cluster - 1]
    /\ pc' = [pc EXCEPT ![t].at = "checks", ![t].found = TRUE,
                        ![t].off = p.off - (Cluster - 1)]
    /\ UNCHANGED <<map, lists, counts, swap_lock, cached, adm, lost, bounds>>

\* no_page: the area had nothing; the loop of get_swap_page goes on.
NoPage(t) ==
    /\ info' = [info EXCEPT ![pc[t].ty].scanning = @ - 1]
    /\ pc' = [pc EXCEPT ![t] = [at |-> "retry", ty |-> -1, wrapped |-> pc[t].wrapped]]
    /\ UNCHANGED <<map, lists, counts, swap_lock, cached, adm, lost, bounds>>

DiscardLastWhole(si, o, last) == last     \* mutant: the whole cluster is discarded

\* The last page that may be discarded: what racing tasks took is excluded.
DiscardLast(si, o, last) ==
    IF o < si.highest_alloc /\ si.lowest_alloc <= last THEN si.lowest_alloc - 1 ELSE last

\* Take entry o: under the lock, up to the return of scan_swap_map or to the
\* discard of the cluster.
TakeEntry(t, o) ==
    LET p == pc[t]
        si == info[p.ty]
        full == si.inuse + 1 = si.pages
        taken == [si EXCEPT
            !.lowest = IF full THEN NPages ELSE IF o = @ THEN o + 1 ELSE @,
            !.highest = IF full THEN 0 ELSE IF o = @ THEN o - 1 ELSE @,
            !.inuse = @ + 1, !.cluster_next = o + 1, !.scanning = @ - 1]
        got == [at |-> "insert", ty |-> p.ty, off |-> o] IN
    /\ map[p.ty][o] = Free
    /\ map' = [map EXCEPT ![p.ty][o] = CacheOnly]
    /\ \/ /\ si.lowest_alloc = 0
          /\ info' = [info EXCEPT ![p.ty] = taken]
          /\ pc' = [pc EXCEPT ![t] = got]
       \/ /\ si.lowest_alloc # 0 /\ p.found
          /\ info' = [info EXCEPT ![p.ty] = [taken EXCEPT !.discarding = TRUE]]
          /\ pc' = [pc EXCEPT ![t] =
                [at |-> "discard", ty |-> p.ty, off |-> o,
                 last |-> DiscardLast(si, o, p.last)]]
       \/ /\ si.lowest_alloc # 0 /\ ~p.found /\ si.discarding
          /\ info' = [info EXCEPT ![p.ty] = taken]
          /\ pc' = [pc EXCEPT ![t] = [got EXCEPT !.at = "dwait"]]
       \/ /\ si.lowest_alloc # 0 /\ ~p.found /\ ~si.discarding
          /\ info' = [info EXCEPT ![p.ty] =
                [taken EXCEPT !.lowest_alloc = MinOf(@, o), !.highest_alloc = MaxOf(@, o)]]
          /\ pc' = [pc EXCEPT ![t] = got]
    /\ UNCHANGED <<lists, counts, swap_lock, cached, adm, lost, bounds>>

\* checks: what is decided about an offset with the area's lock held.
Checks(t) ==
    LET p == pc[t]
        si == info[p.ty]
        o == IF p.off > si.highest THEN si.lowest ELSE p.off
        base == IF p.off > si.highest THEN si.lowest ELSE p.base
        reuse == vm_swap_full /\ map[p.ty][o] = CacheOnly IN
    /\ p.at = "checks"
    /\ \/ (~si.writeok \/ si.highest = 0) /\ NoPage(t)
       \/ /\ si.writeok /\ si.highest > 0
          /\ \/ /\ map[p.ty][o] # Free
                /\ pc' = [pc EXCEPT ![t].at = IF reuse THEN "reclaim" ELSE "scan",
                                    ![t].off = o, ![t].base = base, ![t].pass = 1]
                /\ UNCHANGED <<info, map, lists, counts, swap_lock, cached, adm, lost, bounds>>
             \/ TakeEntry(t, o)

\* scan: the next byte, without the lock.  The second loop starts behind
\* lowest_bit.
ScanNext(t) ==
    LET p == pc[t]
        si == info[p.ty]
        o == p.off + 1
        more == IF p.pass = 1 THEN o <= si.highest ELSE o < p.base
        hit == map[p.ty][o] = Free \/ (vm_swap_full /\ map[p.ty][o] = CacheOnly) IN
    /\ p.at = "scan"
    /\ \/ /\ more /\ hit /\ Unlocked(p.ty)
          /\ pc' = [pc EXCEPT ![t].at = "checks", ![t].off = o]
       \/ /\ more /\ ~hit
          /\ pc' = [pc EXCEPT ![t].off = o]
       \/ /\ ~more /\ p.pass = 1
          /\ pc' = [pc EXCEPT ![t].pass = 2, ![t].off = si.lowest]
    /\ UNCHANGED <<info, map, lists, counts, swap_lock, cached, adm, lost, bounds>>

ScanEnds(t) ==
    /\ pc[t].at = "scan" /\ pc[t].pass = 2 /\ pc[t].off + 1 >= pc[t].base
    /\ Unlocked(pc[t].ty)
    /\ NoPage(t)

\* swap_lock is taken again and the loop goes on at swap_list.next.
NextArea(t) ==
    /\ pc[t].at = "retry" /\ swap_lock = None
    /\ swap_lock' = t
    /\ pc' = [pc EXCEPT ![t].at = "pick", ![t].ty = swap_list.next]
    /\ UNCHANGED <<info, map, lists, counts, cached, adm, lost, bounds>>

\* discard_swap_cluster(), lock dropped, then everyone who waits is woken.
DiscardSwapCluster(t) ==
    LET p == pc[t]
        range == IF p.off < p.last THEN p.off..p.last ELSE {}
        waiting == {o \in Slots : \E u \in Tasks : /\ pc[u].at \in {"dwait", "discard"}
                                                  /\ pc[u].ty = p.ty /\ pc[u].off = o} IN
    /\ p.at = "discard" /\ Unlocked(p.ty)
    /\ lost' = lost \cup {<<p.ty, o>> : o \in {s \in range \ waiting : map[p.ty][s] # Free}}
    /\ info' = [info EXCEPT ![p.ty].lowest_alloc = 0, ![p.ty].discarding = FALSE]
    /\ pc' = [pc EXCEPT ![t] = [at |-> "insert", ty |-> p.ty, off |-> p.off]]
    /\ UNCHANGED <<map, lists, counts, swap_lock, cached, adm, bounds>>

WaitForDiscard(t) ==
    /\ pc[t].at = "dwait" /\ ~info[pc[t].ty].discarding
    /\ pc' = [pc EXCEPT ![t].at = "insert"]
    /\ UNCHANGED <<info, map, lists, counts, swap_lock, cached, adm, lost, bounds>>

(* The life of an entry                                                    *)

\* Mutant: only lowest_bit follows
FreedOneLow(inf, o) == [inf EXCEPT !.lowest = MinOf(@, o), !.inuse = @ - 1]

FreedOne(inf, o) ==
    [inf EXCEPT !.lowest = MinOf(@, o), !.highest = MaxOf(@, o), !.inuse = @ - 1]

\* swap_entry_free(): entry o of area ty becomes e; a free entry widens the
\* search, is counted and makes its area the next to be tried.
PutEntry(ty, o, e) ==
    /\ map' = [map EXCEPT ![ty][o] = e]
    /\ IF e = Free
       THEN /\ info' = [info EXCEPT ![ty] = FreedOne(@, o)]
            /\ nr_swap_pages' = nr_swap_pages + 1
            /\ hp_index' = IF hp_index # -1 /\ info[hp_index].prio >= info[ty].prio
                           THEN hp_index ELSE ty
       ELSE UNCHANGED <<info, counts>>

\* delete_from_swap_cache(): the page leaves the cache, swapcache_free().
LeaveCache(ty, o, users) ==
    /\ PutEntry(ty, o, [Free EXCEPT !.users = users])
    /\ cached' = cached \ {<<ty, o>>}

\* add_to_swap(): the page of m enters the cache, or the radix tree has no
\* memory and the entry is given back.
AddToSwapCache(t) ==
    LET ty == pc[t].ty
        o == pc[t].off IN
    /\ pc[t].at = "insert"
    /\ pc' = [pc EXCEPT ![t] = Idle]
    /\ \/ /\ cached' = cached \cup {<<ty, o>>}
          /\ UNCHANGED <<info, map, counts>>
       \/ /\ Unlocked(ty)
          /\ PutEntry(ty, o, Free)
          /\ UNCHANGED cached
    /\ UNCHANGED <<lists, swap_lock, adm, lost, bounds>>

\* try_to_unmap(): a page table names the entry instead of the page.
Unmap(m, ty, o) ==
    LET e == <<ty, o>> IN
    /\ e \in cached /\ ~PageLocked(e) /\ m \notin map[ty][o].users /\ Unlocked(ty)
    /\ map' = [map EXCEPT ![ty][o].users = @ \cup {m}]
    /\ UNCHANGED <<info, lists, counts, swap_lock, cached, pc, adm, lost, bounds>>

\* do_swap_page(): the page is in the cache or is brought there
\* (swapcache_prepare), m maps it and drops its reference (swap_free).
SwapIn(m, ty, o) ==
    LET e == <<ty, o>> IN
    /\ m \in map[ty][o].users /\ ~PageLocked(e) /\ Unlocked(ty)
    /\ map' = [map EXCEPT ![ty][o].users = @ \ {m}, ![ty][o].cache = TRUE]
    /\ cached' = cached \cup {e}
    /\ UNCHANGED <<info, lists, counts, swap_lock, pc, adm, lost, bounds>>

\* fork: swap_duplicate() under the page table lock, no page lock.
Fork(m, n, ty, o) ==
    /\ m \in map[ty][o].users /\ n \notin map[ty][o].users
    /\ Unlocked(ty)
    /\ map' = [map EXCEPT ![ty][o].users = @ \cup {n}]
    /\ UNCHANGED <<info, lists, counts, swap_lock, cached, pc, adm, lost, bounds>>

\* free_swap_and_cache(): exit or munmap of an address space that names the
\* entry; the cached page goes with the last reference.
FreeSwapAndCache(m, ty, o) ==
    LET e == <<ty, o>>
        left == map[ty][o].users \ {m} IN
    /\ m \in map[ty][o].users /\ Unlocked(ty)
    /\ \/ /\ left = {} /\ e \in cached /\ ~PageLocked(e)
          /\ LeaveCache(ty, o, {})
       \/ /\ ~(left = {} /\ e \in cached /\ ~PageLocked(e) /\ vm_swap_full)
          /\ PutEntry(ty, o, [map[ty][o] EXCEPT !.users = left])
          /\ UNCHANGED cached
    /\ UNCHANGED <<lists, swap_lock, pc, adm, lost, bounds>>

\* try_to_free_swap() and reuse_swap_page(): nobody names the entry any more.
TryToFreeSwap(ty, o) ==
    /\ <<ty, o>> \in cached /\ ~PageLocked(<<ty, o>>) /\ map[ty][o].users = {}
    /\ Unlocked(ty)
    /\ LeaveCache(ty, o, {})
    /\ UNCHANGED <<lists, swap_lock, pc, adm, lost, bounds>>

\* Page reclaim drops a cached page that is written and not mapped.
DropCached(ty, o) ==
    LET e == <<ty, o>> IN
    /\ e \in cached /\ ~Pinned(e) /\ map[ty][o].users # {}
    /\ Unlocked(ty)
    /\ LeaveCache(ty, o, map[ty][o].users)
    /\ UNCHANGED <<lists, swap_lock, pc, adm, lost, bounds>>

\* __try_to_reclaim_swap(): from the search of task t, lock dropped.
TryToReclaimSwap(t) ==
    LET ty == pc[t].ty
        o == pc[t].off
        frees == <<ty, o>> \in cached /\ ~PageLocked(<<ty, o>>) /\ map[ty][o].users = {} IN
    /\ pc[t].at = "reclaim" /\ Unlocked(ty)
    /\ IF frees
       THEN LeaveCache(ty, o, {}) /\ pc' = [pc EXCEPT ![t].at = "checks"]
       ELSE /\ pc' = [pc EXCEPT ![t].at = "scan"]
            /\ UNCHANGED <<info, map, counts, cached>>
    /\ UNCHANGED <<lists, swap_lock, adm, lost, bounds>>

(* swapoff                                                                 *)

\* The area leaves the list; the areas behind it move up if the kernel chose
\* its priority.
SwapOff(k) ==
    LET ty == Areas[k]
        rank == {j \in (k + 1)..Len(Areas) : TRUE} IN
    /\ adm = NoAdm /\ swap_lock = None /\ calls < MaxCalls
    /\ k \in 1..Len(Areas) /\ info[ty].writeok /\ Unlocked(ty)
    /\ swap_list' =
          LET h == IF k = 1 THEN info[ty].next ELSE swap_list.head
          IN  [head |-> h, next |-> IF swap_list.next = ty THEN h ELSE swap_list.next]
    /\ info' = [u \in Types |->
          LET i == IF k > 1 /\ u = Areas[k - 1]
                   THEN [info[u] EXCEPT !.next = info[ty].next] ELSE info[u]
          IN  IF u = ty
              THEN [i EXCEPT !.writeok = FALSE,
                             !.prio = IF @ < 0 THEN @ - Cardinality(rank) ELSE @]
              ELSE IF info[ty].prio < 0 /\ \E j \in rank : Areas[j] = u
              THEN [i EXCEPT !.prio =
                       info[ty].prio - ((CHOOSE j \in rank : Areas[j] = u) - k - 1)]
              ELSE i]
    /\ least_priority' = IF info[ty].prio < 0 THEN least_priority + 1 ELSE least_priority
    /\ nr_swap_pages' = nr_swap_pages - info[ty].pages
    /\ adm' = [at |-> "unuse", ty |-> ty, i |-> 0]
    /\ calls' = calls + 1
    /\ UNCHANGED <<map, hp_index, swap_lock, cached, pc, lost, allocs>>

\* find_next_to_unuse(): behind i first, then from the start up to i.
InUse(ty) == {o \in Slots : ~map[ty][o].bad /\ map[ty][o] # Free}

\* Mutant: the entries before i are not looked at again
NextToUnuseOnce(ty, i) ==
    LET behind == {o \in InUse(ty) : o > i}
    IN  IF behind = {} THEN 0 ELSE CHOOSE o \in behind : \A p \in behind : o <= p

NextToUnuse(ty, i) ==
    LET behind == {o \in InUse(ty) : o > i}
        from == IF behind # {} THEN behind ELSE InUse(ty)
    IN  IF from = {} THEN 0 ELSE CHOOSE o \in from : \A p \in from : o <= p

\* The head of the loop of try_to_unuse(): the next entry, its page found in
\* or read into the swap cache.  An entry whose owner has not inserted its
\* page yet is waited for.
UnuseNext ==
    LET o == NextToUnuse(adm.ty, adm.i)
        e == <<adm.ty, o>> IN
    /\ adm.at = "unuse" /\ o > 0
    /\ Unlocked(adm.ty)
    /\ e \in cached \/ ~map[adm.ty][o].cache
    /\ cached' = cached \cup {e}
    /\ map' = [map EXCEPT ![adm.ty][o].cache = TRUE]
    /\ adm' = [at |-> "wait", ty |-> adm.ty, i |-> o, left |-> Mms]
    /\ UNCHANGED <<info, lists, counts, swap_lock, pc, lost, bounds>>

\* unuse_mm() down to unuse_pte(): a reference to the entry becomes a mapping
\* of the page.
UnuseMm(m) ==
    LET users == map[adm.ty][adm.i].users IN
    /\ adm.at = "mms" /\ m \in adm.left /\ users # {} /\ Unlocked(adm.ty)
    /\ adm' = [adm EXCEPT !.left = @ \ {m}]
    /\ IF m \in users
       THEN PutEntry(adm.ty, adm.i, [map[adm.ty][adm.i] EXCEPT !.users = @ \ {m}])
       ELSE UNCHANGED <<map, info, counts>>
    /\ UNCHANGED <<lists, swap_lock, cached, pc, lost, bounds>>

\* mmap_sem is taken: the page lock is dropped while the task waits for it.
UnuseMmWaits ==
    /\ adm.at = "mms" /\ adm.left # {} /\ map[adm.ty][adm.i].users # {}
    /\ adm' = [adm EXCEPT !.at = "wait"]
    /\ UNCHANGED <<info, map, lists, counts, swap_lock, cached, pc, lost, bounds>>

\* The page is locked, for the first time or again.
LockForUnuse ==
    /\ adm.at = "wait"
    /\ adm' = [adm EXCEPT !.at = "mms"]
    /\ UNCHANGED <<info, map, lists, counts, swap_lock, cached, pc, lost, bounds>>

\* The page leaves the swap cache even if a reference was missed: it has been
\* written, the reference will read it again.
UnuseDone ==
    LET ty == adm.ty
        o == adm.i
        users == map[ty][o].users IN
    /\ adm.at = "mms" /\ (adm.left = {} \/ users = {})
    /\ Unlocked(ty)
    /\ adm' = [at |-> "unuse", ty |-> ty, i |-> o]
    /\ IF <<ty, o>> \in cached
       THEN LeaveCache(ty, o, users)
       ELSE UNCHANGED <<map, info, counts, cached>>
    /\ UNCHANGED <<lists, swap_lock, pc, lost, bounds>>

\* A signal, or no memory for a page: reinsert_swap_info().
SwapOffFails ==
    /\ adm.at \in {"unuse", "mms"} /\ swap_lock = None
    /\ adm.at = "unuse" => NextToUnuse(adm.ty, adm.i) > 0
    /\ Unlocked(adm.ty)
    /\ Enable(adm.ty, info, info[adm.ty].prio)
    /\ adm' = NoAdm
    /\ UNCHANGED <<map, hp_index, swap_lock, cached, pc, lost, bounds>>

\* try_to_unuse() has seen nothing in use and returns; the extents are freed.
UnuseEnds ==
    /\ adm.at = "unuse" /\ NextToUnuse(adm.ty, adm.i) = 0
    /\ adm' = [at |-> "unused", ty |-> adm.ty]
    /\ UNCHANGED <<info, map, lists, counts, swap_lock, cached, pc, lost, bounds>>

\* Searches are cut short, then waited for.
CutScansShort ==
    /\ adm.at = "unused"
    /\ swap_lock = None /\ Unlocked(adm.ty)
    /\ info' = [info EXCEPT ![adm.ty].highest = 0]
    /\ adm' = [at |-> "drain", ty |-> adm.ty]
    /\ UNCHANGED <<map, lists, counts, swap_lock, cached, pc, lost, bounds>>

SwapOffEnds ==
    LET ty == adm.ty IN
    /\ adm.at = "drain" /\ info[ty].scanning = 0
    /\ swap_lock = None /\ Unlocked(ty)
    /\ info' = [info EXCEPT ![ty].used = FALSE, ![ty].discarding = FALSE]
    /\ map' = [map EXCEPT ![ty] = [o \in Slots |-> Free]]
    /\ adm' = NoAdm
    /\ UNCHANGED <<lists, counts, swap_lock, cached, pc, lost, bounds>>
------------------------------------------------------------------------------
Search(t) ==
    \/ GetSwapPageFails(t) \/ SkipArea(t) \/ ScanSwapMap(t) \/ ClusterSearch(t) \/ ClusterFound(t)
    \/ Checks(t) \/ ScanNext(t) \/ ScanEnds(t) \/ NextArea(t)
    \/ DiscardSwapCluster(t) \/ WaitForDiscard(t) \/ TryToReclaimSwap(t)
    \/ AddToSwapCache(t)

Unuse ==
    \/ UnuseNext \/ (\E m \in Mms : UnuseMm(m))
    \/ LockForUnuse \/ UnuseDone \/ UnuseEnds \/ CutScansShort \/ SwapOffEnds

Next ==
    \/ \E ty \in Types : AllocSwapInfo(ty)
    \/ \E prio \in Prios : SwapOn(prio)
    \/ SwapOnFails
    \/ \E t \in Tasks : GetSwapPage(t) \/ Search(t)
    \/ \E ty \in Types, o \in Slots :
          \/ TryToFreeSwap(ty, o) \/ DropCached(ty, o)
          \/ \E m \in Mms :
                \/ Unmap(m, ty, o) \/ SwapIn(m, ty, o) \/ FreeSwapAndCache(m, ty, o)
                \/ \E n \in Mms : Fork(m, n, ty, o)
    \/ \E k \in 1..NTypes : SwapOff(k)
    \/ Unuse \/ UnuseMmWaits \/ SwapOffFails

Spec == Init /\ [][Next]_vars
------------------------------------------------------------------------------
\* Types of the variables.
TypeOK ==
    /\ \A ty \in Types : /\ info[ty].lowest \in 0..NPages /\ info[ty].highest \in 0..NPages
                         /\ info[ty].inuse \in 0..NPages /\ info[ty].scanning \in Nat
                         /\ info[ty].cluster_nr \in -1..Cluster
                         /\ info[ty].next \in Types \cup {-1}
    /\ map \in [Types -> [Slots -> [users : SUBSET Mms, cache : BOOLEAN, bad : BOOLEAN]]]
    /\ swap_list \in [head : Types \cup {-1}, next : Types \cup {-1}]
    /\ nr_swap_pages \in Int /\ hp_index \in Types \cup {-1}
    /\ swap_lock \in Tasks \cup {None}
    /\ cached \subseteq Entries

\* Tasks that have reserved a page and not taken an entry.
Reserved == {t \in Tasks : pc[t].at \in {"pick", "retry", "cluster", "found", "checks", "scan", "reclaim"}}

\* nr_swap_pages and inuse_pages stay exact while areas come and go under
\* tasks that search and entries that are freed (get_swap_page,
\* swap_entry_free, swapoff, reinsert_swap_info).
PagesCounted ==
    /\ \A ty \in Types : info[ty].used /\ adm # [at |-> "on", ty |-> ty]
          => info[ty].inuse = Cardinality(InUse(ty))
    /\ nr_swap_pages + Cardinality(Reserved) =
          TotalSwapPages - SumFunction([ty \in Types |-> info[ty].inuse])

\* A free page of an area that may be written lies between lowest_bit and
\* highest_bit, where the search looks for it.
FreePagesInReach ==
    \A ty \in Types, o \in Slots :
        info[ty].writeok /\ map[ty][o] = Free => info[ty].lowest <= o /\ o <= info[ty].highest

\* When swapoff returns nothing is left of the area: no page table names one
\* of its entries, no page of it is cached and nobody searches it
\* (try_to_unuse, "there are races when an instance of an entry might be
\* missed").
SwapOffComplete ==
    \A ty \in Types : ~info[ty].used =>
        /\ \A o \in Slots : map[ty][o] = Free /\ <<ty, o>> \notin cached
        /\ \A t \in Tasks : pc[t].at \notin {"idle", "pick", "retry"} => pc[t].ty # ty

\* "taking care not to discard any of its pages that have already been
\* allocated by racing tasks" (scan_swap_map).
DiscardSpares == lost = {}
==============================================================================
