----------------------------- MODULE Writeback -----------------------------
(***************************************************************************)
(* The dirty pages of one file: tasks that write to it or store through a  *)
(* shared mapping, the flusher that cleans its pages, a task that syncs it *)
(* (both are write_cache_pages), and truncation.  How tasks that dirty too *)
(* much are slowed down is DirtyThrottle's subject.                        *)
(*                                                                         *)
(* A page is dirty in three places that are changed apart: the flag        *)
(* PG_dirty, the tag in the radix tree, and the entries of the page tables *)
(* that map it.  set_page_dirty changes the first and the second in two    *)
(* steps, clear_page_dirty_for_io the third and the first; a step here is  *)
(* what the code does under one hold of tree_lock, of the page table lock, *)
(* or in one atomic operation on the flags.                                *)
(*                                                                         *)
(* Contents are abstracted to what the properties ask: whether a page has  *)
(* stores that are not on the disk (unsaved), whether some of them came    *)
(* after the write in flight was begun (missed), and the same for the      *)
(* stores that came before the running sync was called (need, needMissed). *)
(*                                                                         *)
(* External: the file system's writepage, page_mkwrite and write_begin,    *)
(* truncation, end of I/O, the thread that runs background writeback and   *)
(* the wait that follows the walk of a sync.                               *)
(***************************************************************************)
EXTENDS Integers, Sequences, FiniteSets, FiniteSetsExt, SequencesExt

CONSTANTS
    NrPages,        \* the file has the pages 0 .. NrPages - 1
    Tasks,          \* tasks that write() and map the file, each in its own address space
    Flusher, Syncer,
    NoOne,          \* the holder of a free page lock
    VecSize,        \* PAGEVEC_SIZE
    NrToWrite,      \* wbc->nr_to_write of the flusher
    MaxStores, MaxSyncs,    \* bounds: writes and write faults begun, syncs called
    MaxRare         \* bound: unmappings, truncations and failures together

Pages   == 0 .. NrPages - 1
Walkers == {Flusher, Syncer}
Actors  == Tasks \cup Walkers

ASSUME LimitsAssumption ==
    /\ NrPages \in Nat \ {0} /\ VecSize \in Nat \ {0} /\ NrToWrite \in Nat \ {0}
ASSUME ActorsAssumption ==
    /\ Flusher # Syncer /\ Tasks \cap Walkers = {} /\ NoOne \notin Actors

VARIABLES
    present,    \* pages that are in the mapping
    dirty,      \* pages with PG_dirty
    wb,         \* pages with PG_writeback
    lock,       \* holder of PG_locked
    tag,        \* the radix tree's tags: DIRTY, TOWRITE, WRITEBACK
    nr,         \* NR_FILE_DIRTY and NR_WRITEBACK, the bdi's counters with them
    pte,        \* the entry of a mapper for a page: "none", "clean", "dirty"
    mkwrite,    \* the file system has page_mkwrite
    unsaved, missed, need, needMissed,
    failed,     \* pages whose write failed, which is recorded in the mapping
    reg,        \* registers every actor has
    walk,       \* registers of write_cache_pages
    windex,     \* mapping->writeback_index
    stores, syncs, rare

content == <<unsaved, missed, need, needMissed, failed>>
flags   == <<present, dirty, wb, lock, tag, nr>>
control == <<walk, windex>>
counts  == <<stores, syncs, rare>>
vars    == <<flags, pte, mkwrite, content, reg, control, counts>>

\* pc, the page at hand, and where set_page_dirty returns to
Rest == [pc |-> "idle", p |-> 0, back |-> "idle"]

NoWalk == [index |-> 0, end |-> 0, cycled |-> TRUE, done |-> FALSE, doneIndex |-> 0,
           from |-> 0, vec |-> <<>>, left |-> 0]

Init ==
    /\ present = Pages /\ dirty = {} /\ wb = {}
    /\ lock = [p \in Pages |-> NoOne]
    /\ tag = [d |-> {}, t |-> {}, w |-> {}]
    /\ nr = [dirty |-> 0, wb |-> 0]
    /\ pte = [m \in Tasks |-> [p \in Pages |-> "none"]]
    /\ mkwrite \in BOOLEAN
    /\ unsaved = {} /\ missed = {} /\ need = {} /\ needMissed = {} /\ failed = {}
    /\ reg = [a \in Actors |-> Rest]
    /\ walk = [w \in Walkers |-> NoWalk]
    /\ windex = 0
    /\ stores = 0 /\ syncs = 0 /\ rare = 0

----------------------------------------------------------------------------
(* Helpers.                                                                *)

At(a, pc) == reg[a].pc = pc

Goto(a, pc) == reg' = [reg EXCEPT ![a].pc = pc]

\* Go on with no page at hand
Afresh(a, pc) == reg' = [reg EXCEPT ![a] = [Rest EXCEPT !.pc = pc]]

Free(p) == lock[p] = NoOne

Locked(p, a) == lock' = [lock EXCEPT ![p] = a]

Unlock(p) == lock' = [lock EXCEPT ![p] = NoOne]

\* A store to p: not on the disk, and not in a write that is already in flight
Stored(p) ==
    /\ unsaved' = unsaved \cup {p}
    /\ missed' = IF p \in wb THEN missed \cup {p} ELSE missed
    /\ UNCHANGED <<need, needMissed, failed>>

----------------------------------------------------------------------------
(* set_page_dirty and __set_page_dirty_nobuffers.  Whoever calls them has   *)
(* pc = "test" and back = where to go on.                                  *)

Return(a) == IF reg[a].back \in {"zapped", "mapped"} THEN Afresh(a, "idle") ELSE Goto(a, reg[a].back)

\* TestSetPageDirty, and page_mapping before tree_lock is taken
SetPageDirty(a) ==
    LET p == reg[a].p IN
    /\ At(a, "test")
    /\ dirty' = dirty \cup {p}
    /\ IF p \in dirty \/ p \notin present THEN Return(a) ELSE Goto(a, "tag")
    /\ UNCHANGED <<present, wb, lock, tag, nr, pte, mkwrite, content, control, counts>>

\* account_page_dirtied and the DIRTY tag, if the page still has its mapping
AccountPageDirtied(a) ==
    LET p == reg[a].p IN
    /\ At(a, "tag")
    /\ IF p \in present
         THEN nr' = [nr EXCEPT !.dirty = @ + 1] /\ tag' = [tag EXCEPT !.d = @ \cup {p}]
         ELSE UNCHANGED <<nr, tag>>
    /\ Return(a)
    /\ UNCHANGED <<present, dirty, wb, lock, pte, mkwrite, content, control, counts>>

----------------------------------------------------------------------------
(* write(): the page is locked from before the copy until it is dirty.     *)

Write(t, p) ==
    /\ At(t, "idle") /\ stores < MaxStores
    /\ p \in present /\ Free(p)
    /\ Locked(p, t)
    /\ Stored(p)
    /\ reg' = [reg EXCEPT ![t] = [Rest EXCEPT !.pc = "test", !.p = p, !.back = "written"]]
    /\ stores' = stores + 1
    /\ UNCHANGED <<present, dirty, wb, tag, nr, pte, mkwrite, control, syncs, rare>>

WriteEnd(t) ==
    /\ At(t, "written")
    /\ Unlock(reg[t].p)
    /\ Afresh(t, "idle")
    /\ UNCHANGED <<present, dirty, wb, tag, nr, pte, mkwrite, content, control, counts>>

----------------------------------------------------------------------------
(* Shared mappings: __do_fault, do_wp_page, stores and unmapping.          *)

SetPtes(m, p, v) == pte' = [pte EXCEPT ![m][p] = v]

\* A read fault maps the page read-only, so that the first store is noticed
ReadFault(m, p) ==
    /\ At(m, "idle") /\ pte[m][p] = "none"
    /\ p \in present /\ Free(p)
    /\ SetPtes(m, p, "clean")
    /\ UNCHANGED <<flags, mkwrite, content, reg, control, counts>>

\* A write fault on an empty entry.  The page comes back locked from ->fault;
\* with page_mkwrite it is unlocked for the call and locked again afterwards.
WriteFault(m, p) ==
    /\ At(m, "idle") /\ pte[m][p] = "none" /\ stores < MaxStores
    /\ p \in present /\ Free(p)
    /\ reg' = [reg EXCEPT ![m] = [Rest EXCEPT !.pc = IF mkwrite THEN "mkwrite" ELSE "setpte",
                                              !.p = p, !.back = "none"]]
    /\ stores' = stores + 1
    /\ IF mkwrite THEN UNCHANGED lock ELSE Locked(p, m)
    /\ UNCHANGED <<present, dirty, wb, tag, nr, pte, mkwrite, content, control, syncs, rare>>

\* do_wp_page on a read-only entry.  Without page_mkwrite the entry is made
\* writable at once, and only then does the task wait for the page lock.
WpFault(m, p) ==
    /\ At(m, "idle") /\ pte[m][p] = "clean" /\ stores < MaxStores
    /\ reg' = [reg EXCEPT ![m] = [Rest EXCEPT !.pc = IF mkwrite THEN "mkwrite" ELSE "waitlock",
                                              !.p = p, !.back = "clean"]]
    /\ stores' = stores + 1
    /\ IF mkwrite THEN UNCHANGED pte ELSE SetPtes(m, p, "dirty")
    /\ UNCHANGED <<flags, mkwrite, content, control, syncs, rare>>

\* page_mkwrite returned; the page is locked and must still be the file's
PageMkwrite(m) ==
    LET p == reg[m].p IN
    /\ At(m, "mkwrite") /\ Free(p)
    /\ IF p \in present
         THEN Locked(p, m) /\ Goto(m, "setpte")
         ELSE UNCHANGED lock /\ Afresh(m, "idle")
    /\ UNCHANGED <<present, dirty, wb, tag, nr, pte, mkwrite, content, control, counts>>

\* pte_same: back holds the entry the fault began with
SetPte(m) ==
    LET p == reg[m].p IN
    /\ At(m, "setpte")
    /\ IF pte[m][p] = reg[m].back
         THEN /\ SetPtes(m, p, "dirty")
              /\ reg' = [reg EXCEPT ![m].pc = "test", ![m].back = "faulted"]
              /\ UNCHANGED lock
         ELSE /\ Unlock(p)
              /\ Afresh(m, "idle")
              /\ UNCHANGED pte
    /\ UNCHANGED <<present, dirty, wb, tag, nr, mkwrite, content, control, counts>>

FaultEnd(m) ==
    /\ At(m, "faulted")
    /\ Unlock(reg[m].p)
    /\ Afresh(m, "idle")
    /\ UNCHANGED <<present, dirty, wb, tag, nr, pte, mkwrite, content, control, counts>>

\* Mutant: the page is made dirty without waiting for the holder of its lock
WaitOnPageLockedNot(m) ==
    /\ At(m, "waitlock")
    /\ reg' = [reg EXCEPT ![m].pc = "test", ![m].back = "mapped"]
    /\ UNCHANGED <<flags, pte, mkwrite, content, control, counts>>

\* wait_on_page_locked, which takes no lock, and set_page_dirty_balance
WaitOnPageLocked(m) ==
    /\ At(m, "waitlock") /\ Free(reg[m].p)
    /\ reg' = [reg EXCEPT ![m].pc = "test", ![m].back = "mapped"]
    /\ UNCHANGED <<flags, pte, mkwrite, content, control, counts>>

\* A store through a writable entry is seen by nobody
Store(m, p) ==
    /\ At(m, "idle") /\ pte[m][p] = "dirty"
    /\ Stored(p)
    /\ UNCHANGED <<flags, pte, mkwrite, reg, control, counts>>

\* zap_pte_range hands the entry's dirty bit to the page, without the page lock
Unmap(m, p) ==
    /\ At(m, "idle") /\ pte[m][p] # "none" /\ rare < MaxRare
    /\ SetPtes(m, p, "none")
    /\ rare' = rare + 1
    /\ IF pte[m][p] = "dirty"
         THEN reg' = [reg EXCEPT ![m] = [Rest EXCEPT !.pc = "test", !.p = p, !.back = "zapped"]]
         ELSE UNCHANGED reg
    /\ UNCHANGED <<flags, mkwrite, content, control, stores, syncs>>

\* Reclaim takes a read-only entry away, even in the middle of a fault on it
ReclaimUnmaps(m, p) ==
    /\ pte[m][p] = "clean" /\ Free(p) /\ rare < MaxRare
    /\ SetPtes(m, p, "none")
    /\ rare' = rare + 1
    /\ UNCHANGED <<flags, mkwrite, content, reg, control, stores, syncs>>

\* A zap of p that holds the page table lock and has still to dirty the page
Zapping(p) == \E m \in Tasks : reg[m].pc \in {"test", "tag"} /\ reg[m].back = "zapped" /\ reg[m].p = p

\* Truncation: the entries go (under the page table lock), the page is locked,
\* its writeback waited for, its dirty state cancelled, and it leaves the tree
Truncate(p) ==
    /\ p \in present /\ Free(p) /\ p \notin wb /\ ~Zapping(p) /\ rare < MaxRare
    /\ rare' = rare + 1
    /\ present' = present \ {p}
    /\ dirty' = dirty \ {p}
    /\ nr' = IF p \in dirty THEN [nr EXCEPT !.dirty = @ - 1] ELSE nr
    /\ tag' = [d |-> tag.d \ {p}, t |-> tag.t \ {p}, w |-> tag.w \ {p}]
    /\ pte' = [m \in Tasks |-> [pte[m] EXCEPT ![p] = "none"]]
    /\ unsaved' = unsaved \ {p} /\ need' = need \ {p}
    /\ UNCHANGED <<wb, lock, mkwrite, missed, needMissed, failed, reg, control, stores, syncs>>

----------------------------------------------------------------------------
(* write_cache_pages, for the flusher (WB_SYNC_NONE, range_cyclic) and for *)
(* a sync of the whole file (WB_SYNC_ALL).                                 *)

Integrity(w) == w = Syncer

WithWalk(w, r) == walk' = [walk EXCEPT ![w] = r]

\* tag_pages_for_writeback
TagPages(first) == tag' = [tag EXCEPT !.t = @ \cup {p \in tag.d : p >= first}]

\* Background or periodic writeback: whenever something is dirty
FlusherStarts ==
    /\ At(Flusher, "idle") /\ tag.d # {}
    /\ Goto(Flusher, "lookup")
    /\ WithWalk(Flusher, [NoWalk EXCEPT !.index = windex, !.doneIndex = windex, !.from = windex,
                                        !.cycled = (windex = 0), !.end = NrPages, !.left = NrToWrite])
    /\ UNCHANGED <<flags, pte, mkwrite, content, windex, counts>>

\* A store is not over while a write() has copied and not yet made its page
\* dirty, nor while somebody has set PG_dirty and not yet the tag: until then
\* whoever finds the flag set returns with a page that no walk can find
Writing(p) ==
    \/ \E t \in Tasks : reg[t].p = p /\ At(t, "test") /\ reg[t].back = "written"
    \/ \E a \in Actors : reg[a].p = p /\ At(a, "tag")

\* The stores that a sync has to bring to the disk are those that were over when
\* it was called; a write in flight covers them unless it missed some
SyncStarts ==
    /\ At(Syncer, "idle") /\ syncs < MaxSyncs
    /\ syncs' = syncs + 1
    /\ need' = {p \in unsaved : ~Writing(p)} /\ needMissed' = missed \cap wb
    /\ Goto(Syncer, "lookup")
    /\ WithWalk(Syncer, [NoWalk EXCEPT !.end = NrPages, !.left = 1])
    /\ TagPages(0)
    /\ UNCHANGED <<present, dirty, wb, lock, nr, pte, mkwrite, unsaved, missed, failed,
                   windex, stores, rare>>

\* pagevec_lookup_tag: the next pages with the tag, some perhaps past the end
Found(w) ==
    LET r == walk[w]
        tagged == {p \in (IF Integrity(w) THEN tag.t ELSE tag.d) : p >= r.index}
        most == Min({r.end - r.index + 1, VecSize})
    IN SubSeq(SetToSortSeq(tagged, <), 1, Min({most, Cardinality(tagged)}))

Lookup(w) ==
    LET r == walk[w] IN
    /\ At(w, "lookup")
    /\ IF r.done \/ r.index > r.end \/ Found(w) = <<>>
         THEN Goto(w, "endpass") /\ UNCHANGED walk
         ELSE /\ WithWalk(w, [r EXCEPT !.vec = Found(w), !.index = Last(Found(w)) + 1])
              /\ Goto(w, "page")
    /\ UNCHANGED <<flags, pte, mkwrite, content, windex, counts>>

\* The registers once the page at the head of the vector is done with
NextPage(w, r) ==
    /\ WithWalk(w, [r EXCEPT !.vec = IF r.done THEN <<>> ELSE Tail(r.vec)])
    /\ Afresh(w, IF r.done \/ Len(r.vec) = 1 THEN "lookup" ELSE "page")

\* Mutant: an integrity sync skips the pages under writeback, too
SkipUnderWriteback(w, p) == p \notin present \/ p \notin dirty \/ p \in wb

\* The page was truncated, was written by someone else, or is being written
\* and the caller does not insist
Skip(w, p) == p \notin present \/ p \notin dirty \/ (p \in wb /\ ~Integrity(w))

LockNext(w) ==
    LET r == walk[w]  p == Head(r.vec) IN
    /\ At(w, "page")
    /\ \/ /\ p > r.end
          /\ NextPage(w, [r EXCEPT !.done = TRUE])
          /\ UNCHANGED lock
       \/ /\ p <= r.end /\ Free(p) /\ Skip(w, p)
          /\ NextPage(w, [r EXCEPT !.doneIndex = p])
          /\ UNCHANGED lock
       \/ /\ p <= r.end /\ Free(p) /\ ~Skip(w, p)
          /\ Locked(p, w)
          /\ WithWalk(w, [r EXCEPT !.doneIndex = p])
          /\ reg' = [reg EXCEPT ![w].pc = "check", ![w].p = p]
    /\ UNCHANGED <<present, dirty, wb, tag, nr, pte, mkwrite, content,
                   windex, counts>>

\* clear_page_dirty_for_io begins with page_mkclean (a sync waits for the write
\* in flight first); an entry that was dirty makes the page dirty once more
PageMkclean(w) ==
    LET p == reg[w].p IN
    /\ At(w, "check") /\ p \notin wb
    /\ pte' = [m \in Tasks |-> [pte[m] EXCEPT ![p] = IF @ = "dirty" THEN "clean" ELSE @]]
    /\ reg' = [reg EXCEPT ![w].back = "clear",
                          ![w].pc = IF \E m \in Tasks : pte[m][p] = "dirty"
                                      THEN "test" ELSE "clear"]
    /\ UNCHANGED <<flags, mkwrite, content, control, counts>>

\* and ends with TestClearPageDirty, which finds the page dirty because only the
\* holder of its lock makes it clean.  The tag stays until set_page_writeback.
ClearPageDirty(w) ==
    LET p == reg[w].p IN
    /\ At(w, "clear") /\ p \in dirty
    /\ dirty' = dirty \ {p}
    /\ nr' = [nr EXCEPT !.dirty = @ - 1]
    /\ Goto(w, "writepage")
    /\ UNCHANGED <<present, wb, lock, tag, pte, mkwrite, content, control, counts>>

\* --wbc->nr_to_write stops all but an integrity sync, whose number is too
\* large to run out
Written(w) ==
    LET r == walk[w] IN
    NextPage(w, IF Integrity(w) THEN r ELSE [r EXCEPT !.left = @ - 1, !.done = (r.left - 1 <= 0)])

\* Mutant: the DIRTY tag goes whether or not the page became dirty again
TagsUnderWritebackAll(p) == [d |-> tag.d \ {p}, t |-> tag.t \ {p}, w |-> tag.w \cup {p}]

\* test_set_page_writeback: the DIRTY tag goes only if the page is still clean
TagsUnderWriteback(p) ==
    [d |-> IF p \in dirty THEN tag.d ELSE tag.d \ {p}, t |-> tag.t \ {p}, w |-> tag.w \cup {p}]

\* The file system takes the page and unlocks it
WritepageSubmits(w) ==
    LET p == reg[w].p IN
    /\ At(w, "writepage")
    /\ wb' = wb \cup {p}
    /\ tag' = TagsUnderWriteback(p)
    /\ nr' = [nr EXCEPT !.wb = @ + 1]
    /\ missed' = missed \ {p} /\ needMissed' = needMissed \ {p}
    /\ Unlock(p)
    /\ Written(w)
    /\ UNCHANGED <<present, dirty, pte, mkwrite, unsaved, need, failed,
                   windex, counts>>

\* redirty_page_for_writepage: memory cleaning may be refused.  The file system
\* unlocks the page, or leaves it to the walk with AOP_WRITEPAGE_ACTIVATE.
WritepageRedirties(w) ==
    /\ At(w, "writepage") /\ ~Integrity(w) /\ rare < MaxRare
    /\ rare' = rare + 1
    /\ reg' = [reg EXCEPT ![w].pc = "test", ![w].back = "redirtied"]
    /\ UNCHANGED <<flags, pte, mkwrite, content, control, stores, syncs>>

Redirtied(w) ==
    /\ At(w, "redirtied")
    /\ Unlock(reg[w].p)
    /\ Written(w)
    /\ UNCHANGED <<present, dirty, wb, tag, nr, pte, mkwrite, content,
                   windex, counts>>

\* __writepage records the error, and the walk ends past the page
WritepageFails(w) ==
    LET p == reg[w].p  r == walk[w] IN
    /\ At(w, "writepage") /\ rare < MaxRare
    /\ rare' = rare + 1
    /\ failed' = failed \cup {p}
    /\ Unlock(p)
    /\ NextPage(w, [r EXCEPT !.done = TRUE, !.doneIndex = p + 1])
    /\ UNCHANGED <<present, dirty, wb, tag, nr, pte, mkwrite, unsaved, missed, need, needMissed,
                   windex, stores, syncs>>

\* The end of a pass over the file.  A cyclic walk that began in the middle goes
\* on from the start.
EndPass(w) ==
    LET r == walk[w] IN
    /\ At(w, "endpass")
    /\ IF ~r.cycled /\ ~r.done
         THEN /\ WithWalk(w, [r EXCEPT !.cycled = TRUE, !.index = 0, !.end = r.from - 1,
                                       !.doneIndex = 0, !.vec = <<>>])
              /\ Goto(w, "lookup")
              /\ UNCHANGED windex
         ELSE /\ windex' = IF ~Integrity(w) \/ r.left > 0 THEN r.doneIndex ELSE windex
              /\ WithWalk(w, NoWalk)
              /\ Afresh(w, IF Integrity(w) THEN "wait" ELSE "idle")
    /\ UNCHANGED <<flags, pte, mkwrite, content, counts>>

\* The sync waits for the pages tagged WRITEBACK, in their order, and returns
SyncWaits ==
    LET p == reg[Syncer].p IN
    /\ At(Syncer, "wait") /\ (p \in tag.w => p \notin wb)
    /\ reg' = [reg EXCEPT ![Syncer] = IF p < NrPages - 1 THEN [@ EXCEPT !.p = p + 1]
                                                         ELSE [Rest EXCEPT !.pc = "return"]]
    /\ UNCHANGED <<flags, pte, mkwrite, content, control, counts>>

SyncReturns ==
    /\ At(Syncer, "return")
    /\ Goto(Syncer, "idle")
    /\ need' = {} /\ needMissed' = {}
    /\ UNCHANGED <<flags, pte, mkwrite, unsaved, missed, failed, control, counts>>

\* test_clear_page_writeback at the end of the I/O, which may have failed
EndPageWriteback(p) ==
    /\ p \in wb
    /\ wb' = wb \ {p}
    /\ tag' = [tag EXCEPT !.w = @ \ {p}]
    /\ nr' = [nr EXCEPT !.wb = @ - 1]
    /\ missed' = missed \ {p} /\ needMissed' = needMissed \ {p}
    /\ \/ /\ unsaved' = unsaved \ ({p} \ missed)
          /\ need' = need \ ({p} \ needMissed)
          /\ UNCHANGED <<failed, rare>>
       \/ /\ rare < MaxRare /\ rare' = rare + 1
          /\ failed' = failed \cup {p}
          /\ UNCHANGED <<unsaved, need>>
    /\ UNCHANGED <<present, dirty, lock, pte, mkwrite, reg, control, stores, syncs>>

----------------------------------------------------------------------------

Next ==
    \/ \E a \in Actors : SetPageDirty(a) \/ AccountPageDirtied(a)
    \/ \E t \in Tasks : WriteEnd(t) \/ PageMkwrite(t) \/ SetPte(t) \/ FaultEnd(t) \/ WaitOnPageLocked(t)
    \/ \E t \in Tasks, p \in Pages :
          Write(t, p) \/ ReadFault(t, p) \/ WriteFault(t, p) \/ WpFault(t, p) \/ Store(t, p)
          \/ Unmap(t, p) \/ ReclaimUnmaps(t, p)
    \/ \E w \in Walkers :
          \/ Lookup(w) \/ LockNext(w) \/ PageMkclean(w) \/ ClearPageDirty(w)
          \/ WritepageSubmits(w) \/ WritepageRedirties(w) \/ Redirtied(w) \/ WritepageFails(w)
          \/ EndPass(w)
    \/ FlusherStarts \/ SyncStarts \/ SyncWaits \/ SyncReturns
    \/ \E p \in Pages : Truncate(p) \/ EndPageWriteback(p)

Spec == Init /\ [][Next]_vars

----------------------------------------------------------------------------

\* Every page and tag is of the file: a page that was truncated while someone was
\* in set_page_dirty leaves no tag behind in the tree.
TypeOK ==
    /\ present \subseteq Pages /\ dirty \subseteq Pages /\ wb \subseteq present
    /\ lock \in [Pages -> Actors \cup {NoOne}]
    /\ \A k \in {"d", "t", "w"} : tag[k] \subseteq present
    /\ nr.wb = Cardinality(wb)
    /\ \A w \in Walkers : walk[w].doneIndex \in 0 .. NrPages

\* Somebody who holds p's lock is about to make it dirty or to write it
InHand(p) == \E a \in Actors : lock[p] = a /\ reg[a].p = p /\ reg[a].pc \in {"test", "writepage"}

\* A store that is not on the disk is never forgotten: the page has PG_dirty, or
\* a write that was begun after the store is in flight, or somebody holds the
\* page locked on the way to one or the other.  A writable page table entry is
\* no excuse: no walk would find the page.  This is what the order of
\* clear_page_dirty_for_io and the wait in do_wp_page are for.
NoLostWrite ==
    \A p \in (unsaved \cap present) \ failed :
        p \in dirty \/ (p \in wb /\ p \notin missed) \/ InHand(p)

\* A dirty page of the file is found by a walk for the DIRTY tag, except while
\* someone is between setting the flag and setting the tag in
\* __set_page_dirty_nobuffers.
DirtyTagged ==
    \A p \in dirty \cap present :
        p \in tag.d \/ \E a \in Actors : At(a, "tag") /\ reg[a].p = p

\* When a sync returns and no error was recorded, all stores that were over when
\* it was called are on the disk, although flushers cleared its TOWRITE tags and
\* tasks made the pages dirty again in the meantime (write_cache_pages).
SyncComplete == At(Syncer, "return") /\ failed = {} => need \cap present = {}
=============================================================================
