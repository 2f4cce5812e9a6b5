--------------------------- MODULE WritebackProofs ---------------------------
(***************************************************************************)
(* No store is forgotten: for any number of pages and tasks, a page with   *)
(* stores that are not on the disk is dirty, in flight or locked by        *)
(* somebody on the way to one or the other, and dirty pages are tagged.    *)
(***************************************************************************)
EXTENDS Writeback, TLAPS

Pcs == {"idle", "test", "tag", "written", "mkwrite", "setpte", "faulted", "waitlock",
        "lookup", "endpass", "page", "check", "clear", "writepage", "redirtied",
        "wait", "return"}

(* Where set_page_dirty returns to, for callers with and without the page    *)
(* lock; a fault keeps the entry it began with there.                       *)
LockedCallers == {"written", "faulted", "clear", "redirtied"}
Callers       == LockedCallers \cup {"zapped", "mapped"}
Backs         == Callers \cup {"idle", "none", "clean"}

Dirtying(r) == r.pc \in {"test", "tag"}

Regs == {r \in [pc : Pcs, p : Pages, back : Backs] : Dirtying(r) => r.back \in Callers}

WbType ==
    /\ present \subseteq Pages
    /\ lock \in [Pages -> Actors \cup {NoOne}]
    /\ reg \in [Actors -> Regs]
    /\ tag \in [d : SUBSET Pages, t : SUBSET Pages, w : SUBSET Pages]
    /\ pte \in [Tasks -> [Pages -> {"none", "clean", "dirty"}]]

(* Who is at these places of the code holds the lock of the page at hand.    *)
Keeps(r) ==
    \/ r.pc \in {"written", "setpte", "faulted", "check", "clear", "writepage", "redirtied"}
    \/ Dirtying(r) /\ r.back \in LockedCallers

Holds == \A a \in Actors : Keeps(reg[a]) => lock[reg[a].p] = a

(* After page_mkclean and until PG_dirty is cleared, an entry can only have *)
(* become writable by a fault that now waits for the page lock.             *)
Clearing(r) == r.pc = "clear" \/ (Dirtying(r) /\ r.back = "clear")

Cleaned ==
    \A a \in Actors : Clearing(reg[a]) =>
        \A m \in Tasks : pte[m][reg[a].p] = "dirty" =>
            reg[m].pc = "waitlock" /\ reg[m].p = reg[a].p

(* The holder of p's lock, or m after its fault, is about to set PG_dirty.  *)
Dirtied(p) == \E a \in Actors : lock[p] = a /\ reg[a].p = p /\ reg[a].pc = "test"

Marking(r, p) == r.p = p /\ (r.pc = "waitlock" \/ (r.pc = "test" /\ r.back = "mapped"))

(* A task that can store to a page unseen stores to a dirty one.            *)
MappedDirty ==
    \A m \in Tasks, p \in Pages :
        pte[m][p] = "dirty" => p \in dirty \/ Dirtied(p) \/ Marking(reg[m], p)

WbInv == WbType /\ Holds /\ Cleaned /\ MappedDirty /\ DirtyTagged /\ NoLostWrite

-----------------------------------------------------------------------------
(* What a step of one actor may do to the rest: it goes on with registers r. *)

Moves(a, r) == r \in Regs /\ reg' = [reg EXCEPT ![a] = r] /\ present' = present

(* It takes a lock that is free and gives up its own.                       *)
LocksOwn(a, r) ==
    /\ lock' \in [Pages -> Actors \cup {NoOne}]
    /\ \A p \in Pages : lock'[p] = lock[p] \/ lock[p] \in {a, NoOne}
    /\ Keeps(r) => lock'[r.p] = a

(* It makes an entry writable with the page locked until set_page_dirty, or *)
(* on its way to wait for the lock; it goes on to clear PG_dirty only with  *)
(* the entries cleaned.                                                     *)
MapsOwn(a, r) ==
    /\ pte' \in [Tasks -> [Pages -> {"none", "clean", "dirty"}]]
    /\ \A m \in Tasks, p \in Pages : pte'[m][p] = "dirty" =>
          \/ pte[m][p] = "dirty"
          \/ lock[p] = a /\ ~Clearing(r) /\ lock'[p] = a /\ r.p = p /\ r.pc = "test"
          \/ m = a /\ r.p = p /\ r.pc = "waitlock"
    /\ reg[a].pc = "waitlock" => Free(reg[a].p)
    /\ Clearing(r) =>
          \/ Clearing(reg[a]) /\ r.p = reg[a].p
          \/ \A m \in Tasks : pte'[m][r.p] # "dirty"

(* PG_dirty is set before it leaves set_page_dirty, and cleared only on the *)
(* way to ->writepage.                                                      *)
DirtiesOwn(a, r) ==
    /\ \A p \in dirty : p \in dirty' \/
          (Clearing(reg[a]) /\ reg[a].p = p /\ lock'[p] = a /\ r.p = p /\ r.pc = "writepage")
    /\ reg[a].pc = "test" => reg[a].p \in dirty'
    /\ \A p \in Pages : Marking(reg[a], p) => p \in dirty' \/ Marking(r, p)

(* A page that becomes dirty gets its tag with the next step.               *)
TagsOwn(a, r) ==
    /\ tag' \in [d : SUBSET Pages, t : SUBSET Pages, w : SUBSET Pages]
    /\ \A p \in dirty' : p \in dirty \/ p \notin present \/ (r.pc = "tag" /\ r.p = p)
    /\ \A p \in tag.d : p \in tag'.d \/ p \notin dirty'
    /\ reg[a].pc = "tag" => reg[a].p \in tag'.d \/ reg[a].p \notin present

(* A store is recorded where the page will be made dirty; ->writepage takes *)
(* all stores, fails, or makes the page dirty again.                        *)
SavesOwn(a, r) ==
    /\ failed \subseteq failed' /\ wb \subseteq wb'
    /\ \A p \in unsaved' \cap present : p \in unsaved \/ p \in dirty'
          \/ (lock'[p] = a /\ r.p = p /\ r.pc = "test")
    /\ \A p \in missed' \cap present : p \in missed \/ p \in dirty'
          \/ (lock'[p] = a /\ r.p = p /\ r.pc = "test")
    /\ reg[a].pc = "writepage" =>
          \/ reg[a].p \in failed' \/ (reg[a].p \in wb' /\ reg[a].p \notin missed')
          \/ lock'[reg[a].p] = a /\ r.p = reg[a].p /\ r.pc = "test"

Conduct(a, r) ==
    Moves(a, r) /\ LocksOwn(a, r) /\ MapsOwn(a, r) /\ DirtiesOwn(a, r) /\ TagsOwn(a, r)
    /\ SavesOwn(a, r)

LEMMA Numbers ==
  0 \in Pages /\ NoOne \notin Actors /\ Tasks \subseteq Actors /\ Walkers \subseteq Actors
BY LimitsAssumption, ActorsAssumption DEF Pages, Actors

LEMMA InitWb == Init => WbInv
BY Numbers DEF Init, WbInv, WbType, Holds, Cleaned, MappedDirty, DirtyTagged, NoLostWrite, Rest,
     Regs, Keeps, Dirtying, Clearing, Pcs, Callers, LockedCallers, Backs, Dirtied, Marking

(* Who behaves like that keeps the invariant.                               *)
LEMMA ConductInv ==
  ASSUME WbInv, NEW a \in Actors, NEW r, Conduct(a, r)
  PROVE  WbInv'
<1> USE DEF Conduct, WbInv
<1>1. \A b \in Actors : reg'[b] = IF b = a THEN r ELSE reg[b]
  BY DEF Moves, WbType
<1>2. WbType'
  BY DEF Moves, LocksOwn, MapsOwn, TagsOwn, WbType
<1>3. Holds'
  BY <1>1, <1>2, Numbers DEF LocksOwn, Holds, WbType, Regs
<1>4. Cleaned'
  <2> SUFFICES ASSUME NEW b \in Actors, Clearing(reg'[b]), NEW m \in Tasks,
                      pte'[m][reg'[b].p] = "dirty"
               PROVE  reg'[m].pc = "waitlock" /\ reg'[m].p = reg'[b].p
    BY Zenon DEF Cleaned
  <2> DEFINE p == reg'[b].p
  <2>1. p \in Pages /\ m \in Actors
    BY <1>2, Numbers DEF WbType, Regs
  <2>2. CASE b = a
    BY <2>1, <2>2, <1>1, Numbers DEF MapsOwn, Cleaned, Holds, WbType, Free, Clearing, Keeps,
         Regs, LockedCallers
  <2>3. CASE b # a
    <3>1. lock[p] = b /\ Clearing(reg[b]) /\ p = reg[b].p
      BY <2>3, <1>1 DEF Holds, Clearing, Keeps, LockedCallers
    <3> QED BY <3>1, <2>1, <2>3, <1>1, Numbers DEF MapsOwn, Cleaned, Free
  <2> QED BY <2>2, <2>3
<1>5. MappedDirty'
  <2> SUFFICES ASSUME NEW m \in Tasks, NEW p \in Pages, pte'[m][p] = "dirty"
               PROVE  p \in dirty' \/ Dirtied(p)' \/ Marking(reg'[m], p)
    BY Zenon DEF MappedDirty
  <2>1. CASE pte[m][p] # "dirty"
    BY <2>1, <1>1, Numbers DEF MapsOwn, Dirtied, Marking
  <2>2. CASE pte[m][p] = "dirty" /\ p \in dirty
    BY <2>2, <1>1, Numbers DEF DirtiesOwn, MapsOwn, Cleaned, Marking
  <2>3. CASE Dirtied(p)
    BY <2>3, <1>1, Numbers DEF DirtiesOwn, LocksOwn, Dirtied
  <2>4. CASE Marking(reg[m], p)
    BY <2>4, <1>1, Numbers DEF DirtiesOwn
  <2> QED BY <2>1, <2>2, <2>3, <2>4 DEF MappedDirty
<1>6. DirtyTagged'
  BY <1>1 DEF Moves, TagsOwn, DirtyTagged, At
<1>7. NoLostWrite'
  <2> SUFFICES ASSUME NEW p \in (unsaved' \cap present') \ failed'
               PROVE  p \in dirty' \/ (p \in wb' /\ p \notin missed') \/ InHand(p)'
    BY Zenon DEF NoLostWrite
  <2>0. p \in present /\ p \in Pages /\ p \notin failed
    BY DEF Moves, SavesOwn, WbType
  <2>1. ASSUME lock'[p] = a, r.p = p, r.pc \in {"test", "writepage"} PROVE InHand(p)'
    BY <2>1, <1>1 DEF InHand
  <2>2. CASE p \notin unsaved
    BY <2>2, <2>0, <2>1 DEF SavesOwn
  <2>3. CASE p \in dirty
    BY <2>3, <2>1 DEF DirtiesOwn
  <2>4. CASE p \in wb /\ p \notin missed
    BY <2>4, <2>0, <2>1 DEF SavesOwn
  <2>5. CASE InHand(p)
    <3>1. PICK b \in Actors : lock[p] = b /\ reg[b].p = p /\ reg[b].pc \in {"test", "writepage"}
      BY <2>5 DEF InHand
    <3>2. CASE b # a
      BY <3>1, <3>2, <2>0, <1>1, Numbers DEF LocksOwn, InHand
    <3>3. CASE b = a
      BY <3>1, <3>3, <2>1 DEF SavesOwn, DirtiesOwn
    <3> QED BY <3>2, <3>3
  <2> QED BY <2>0, <2>2, <2>3, <2>4, <2>5 DEF NoLostWrite
<1> QED BY <1>2, <1>3, <1>4, <1>5, <1>6, <1>7

LEMMA SetPageDirtyInv ==
  ASSUME WbInv, NEW a \in Actors, SetPageDirty(a)
  PROVE  WbInv'
<1> DEFINE q == reg[a].p
<1> DEFINE r == IF q \in dirty \/ q \notin present THEN IF reg[a].back \in {"zapped", "mapped"}
                     THEN [Rest EXCEPT !.pc = "idle"] ELSE [reg[a] EXCEPT !.pc = reg[a].back]
                ELSE [reg[a] EXCEPT !.pc = "tag"]
<1> USE Numbers DEF SetPageDirty, Return, At, Goto, Afresh, content, WbInv, WbType
<1>0. a \in Actors /\ reg[a] \in Regs
  OBVIOUS
<1>1. Moves(a, r)
  BY <1>0 DEF Moves, Regs, Pcs, Backs, Callers, LockedCallers, Dirtying, Rest
<1>2. LocksOwn(a, r)
  BY <1>0 DEF LocksOwn, Holds, Keeps, Regs, Dirtying, Callers, LockedCallers, Free, Rest
<1>3. MapsOwn(a, r)
  BY <1>0 DEF MapsOwn, Clearing, Holds, Keeps, Dirtying, LockedCallers, Free, Regs, Rest
<1>4. DirtiesOwn(a, r)
  BY <1>0 DEF DirtiesOwn, Clearing, Dirtying, Marking, Holds, Keeps, Regs, Rest
<1>5. TagsOwn(a, r)
  BY <1>0 DEF TagsOwn, Regs, Rest
<1>6. SavesOwn(a, r)
  BY <1>0 DEF SavesOwn, Holds, Keeps, Rest
<1> QED BY ONLY <1>0, <1>1, <1>2, <1>3, <1>4, <1>5, <1>6, WbInv, ConductInv DEF Conduct

LEMMA AccountPageDirtiedInv ==
  ASSUME WbInv, NEW a \in Actors, AccountPageDirtied(a)
  PROVE  WbInv'
<1> DEFINE q == reg[a].p
<1> DEFINE r == IF reg[a].back \in {"zapped", "mapped"} THEN [Rest EXCEPT !.pc = "idle"]
                ELSE [reg[a] EXCEPT !.pc = reg[a].back]
<1> USE Numbers DEF AccountPageDirtied, Return, At, Goto, Afresh, content, WbInv, WbType
<1>0. a \in Actors /\ reg[a] \in Regs
  OBVIOUS
<1>1. Moves(a, r)
  BY <1>0 DEF Moves, Regs, Pcs, Backs, Callers, LockedCallers, Dirtying, Rest
<1>2. LocksOwn(a, r)
  BY <1>0 DEF LocksOwn, Holds, Keeps, Regs, Dirtying, Callers, LockedCallers, Free, Rest
<1>3. MapsOwn(a, r)
  BY <1>0 DEF MapsOwn, Clearing, Holds, Keeps, Dirtying, LockedCallers, Free, Regs, Rest
<1>4. DirtiesOwn(a, r)
  BY <1>0 DEF DirtiesOwn, Clearing, Dirtying, Marking, Holds, Keeps, Regs, Rest
<1>5. TagsOwn(a, r)
  BY <1>0 DEF TagsOwn, Regs, Rest
<1>6. SavesOwn(a, r)
  BY <1>0 DEF SavesOwn, Holds, Keeps, Rest
<1> QED BY ONLY <1>0, <1>1, <1>2, <1>3, <1>4, <1>5, <1>6, WbInv, ConductInv DEF Conduct

LEMMA WriteEndInv ==
  ASSUME WbInv, NEW a \in Tasks, WriteEnd(a)
  PROVE  WbInv'
<1> DEFINE q == reg[a].p
<1> DEFINE r == [Rest EXCEPT !.pc = "idle"]
<1> USE Numbers DEF WriteEnd, At, Afresh, Unlock, content, WbInv, WbType
<1>0. a \in Actors /\ reg[a] \in Regs
  OBVIOUS
<1>1. Moves(a, r)
  BY <1>0 DEF Moves, Regs, Pcs, Backs, Callers, LockedCallers, Dirtying, Rest
<1>2. LocksOwn(a, r)
  BY <1>0 DEF LocksOwn, Holds, Keeps, Regs, Dirtying, Callers, LockedCallers, Free, Rest
<1>3. MapsOwn(a, r)
  BY <1>0 DEF MapsOwn, Clearing, Holds, Keeps, Dirtying, LockedCallers, Free, Regs, Rest
<1>4. DirtiesOwn(a, r)
  BY <1>0 DEF DirtiesOwn, Clearing, Dirtying, Marking, Holds, Keeps, Regs, Rest
<1>5. TagsOwn(a, r)
  BY <1>0 DEF TagsOwn, Regs, Rest
<1>6. SavesOwn(a, r)
  BY <1>0 DEF SavesOwn, Holds, Keeps, Rest
<1> QED BY ONLY <1>0, <1>1, <1>2, <1>3, <1>4, <1>5, <1>6, WbInv, ConductInv DEF Conduct

LEMMA FaultEndInv ==
  ASSUME WbInv, NEW a \in Tasks, FaultEnd(a)
  PROVE  WbInv'
<1> DEFINE q == reg[a].p
<1> DEFINE r == [Rest EXCEPT !.pc = "idle"]
<1> USE Numbers DEF FaultEnd, At, Afresh, Unlock, content, WbInv, WbType
<1>0. a \in Actors /\ reg[a] \in Regs
  OBVIOUS
<1>1. Moves(a, r)
  BY <1>0 DEF Moves, Regs, Pcs, Backs, Callers, LockedCallers, Dirtying, Rest
<1>2. LocksOwn(a, r)
  BY <1>0 DEF LocksOwn, Holds, Keeps, Regs, Dirtying, Callers, LockedCallers, Free, Rest
<1>3. MapsOwn(a, r)
  BY <1>0 DEF MapsOwn, Clearing, Holds, Keeps, Dirtying, LockedCallers, Free, Regs, Rest
<1>4. DirtiesOwn(a, r)
  BY <1>0 DEF DirtiesOwn, Clearing, Dirtying, Marking, Holds, Keeps, Regs, Rest
<1>5. TagsOwn(a, r)
  BY <1>0 DEF TagsOwn, Regs, Rest
<1>6. SavesOwn(a, r)
  BY <1>0 DEF SavesOwn, Holds, Keeps, Rest
<1> QED BY ONLY <1>0, <1>1, <1>2, <1>3, <1>4, <1>5, <1>6, WbInv, ConductInv DEF Conduct

LEMMA PageMkwriteInv ==
  ASSUME WbInv, NEW a \in Tasks, PageMkwrite(a)
  PROVE  WbInv'
<1> DEFINE q == reg[a].p
<1> DEFINE r == IF q \in present THEN [reg[a] EXCEPT !.pc = "setpte"]
                ELSE [Rest EXCEPT !.pc = "idle"]
<1> USE Numbers DEF PageMkwrite, At, Afresh, Goto, Locked, content, WbInv, WbType
<1>0. a \in Actors /\ reg[a] \in Regs
  OBVIOUS
<1>1. Moves(a, r)
  BY <1>0 DEF Moves, Regs, Pcs, Backs, Callers, LockedCallers, Dirtying, Rest
<1>2. LocksOwn(a, r)
  BY <1>0 DEF LocksOwn, Holds, Keeps, Regs, Dirtying, Callers, LockedCallers, Free, Rest
<1>3. MapsOwn(a, r)
  BY <1>0 DEF MapsOwn, Clearing, Holds, Keeps, Dirtying, LockedCallers, Free, Regs, Rest
<1>4. DirtiesOwn(a, r)
  BY <1>0 DEF DirtiesOwn, Clearing, Dirtying, Marking, Holds, Keeps, Regs, Rest
<1>5. TagsOwn(a, r)
  BY <1>0 DEF TagsOwn, Regs, Rest
<1>6. SavesOwn(a, r)
  BY <1>0 DEF SavesOwn, Holds, Keeps, Rest
<1> QED BY ONLY <1>0, <1>1, <1>2, <1>3, <1>4, <1>5, <1>6, WbInv, ConductInv DEF Conduct

LEMMA SetPteInv ==
  ASSUME WbInv, NEW a \in Tasks, SetPte(a)
  PROVE  WbInv'
<1> DEFINE q == reg[a].p
<1> DEFINE r == IF pte[a][q] = reg[a].back THEN [reg[a] EXCEPT !.pc = "test", !.back = "faulted"]
                ELSE [Rest EXCEPT !.pc = "idle"]
<1> USE Numbers DEF SetPte, At, Afresh, SetPtes, Unlock, content, WbInv, WbType
<1>0. a \in Actors /\ reg[a] \in Regs
  OBVIOUS
<1>1. Moves(a, r)
  BY <1>0 DEF Moves, Regs, Pcs, Backs, Callers, LockedCallers, Dirtying, Rest
<1>2. LocksOwn(a, r)
  BY <1>0 DEF LocksOwn, Holds, Keeps, Regs, Dirtying, Callers, LockedCallers, Free, Rest
<1>3. MapsOwn(a, r)
  BY <1>0 DEF MapsOwn, Clearing, Holds, Keeps, Dirtying, LockedCallers, Free, Regs, Rest
<1>4. DirtiesOwn(a, r)
  BY <1>0 DEF DirtiesOwn, Clearing, Dirtying, Marking, Holds, Keeps, Regs, Rest
<1>5. TagsOwn(a, r)
  BY <1>0 DEF TagsOwn, Regs, Rest
<1>6. SavesOwn(a, r)
  BY <1>0 DEF SavesOwn, Holds, Keeps, Rest
<1> QED BY ONLY <1>0, <1>1, <1>2, <1>3, <1>4, <1>5, <1>6, WbInv, ConductInv DEF Conduct

LEMMA WaitOnPageLockedInv ==
  ASSUME WbInv, NEW a \in Tasks, WaitOnPageLocked(a)
  PROVE  WbInv'
<1> DEFINE q == reg[a].p
<1> DEFINE r == [reg[a] EXCEPT !.pc = "test", !.back = "mapped"]
<1> USE Numbers DEF WaitOnPageLocked, At, flags, content, WbInv, WbType
<1>0. a \in Actors /\ reg[a] \in Regs
  OBVIOUS
<1>1. Moves(a, r)
  BY <1>0 DEF Moves, Regs, Pcs, Backs, Callers, LockedCallers, Dirtying, Rest
<1>2. LocksOwn(a, r)
  BY <1>0 DEF LocksOwn, Holds, Keeps, Regs, Dirtying, Callers, LockedCallers, Free, Rest
<1>3. MapsOwn(a, r)
  BY <1>0 DEF MapsOwn, Clearing, Holds, Keeps, Dirtying, LockedCallers, Free, Regs, Rest
<1>4. DirtiesOwn(a, r)
  BY <1>0 DEF DirtiesOwn, Clearing, Dirtying, Marking, Holds, Keeps, Regs, Rest
<1>5. TagsOwn(a, r)
  BY <1>0 DEF TagsOwn, Regs, Rest
<1>6. SavesOwn(a, r)
  BY <1>0 DEF SavesOwn, Holds, Keeps, Rest
<1> QED BY ONLY <1>0, <1>1, <1>2, <1>3, <1>4, <1>5, <1>6, WbInv, ConductInv DEF Conduct

LEMMA WriteInv ==
  ASSUME WbInv, NEW a \in Tasks, NEW q \in Pages, Write(a, q)
  PROVE  WbInv'
<1> DEFINE r == [Rest EXCEPT !.pc = "test", !.p = q, !.back = "written"]
<1> USE Numbers DEF Write, At, Locked, Stored, WbInv, WbType
<1>0. a \in Actors /\ reg[a] \in Regs
  OBVIOUS
<1>1. Moves(a, r)
  BY <1>0 DEF Moves, Regs, Pcs, Backs, Callers, LockedCallers, Dirtying, Rest
<1>2. LocksOwn(a, r)
  BY <1>0 DEF LocksOwn, Holds, Keeps, Regs, Dirtying, Callers, LockedCallers, Free, Rest
<1>3. MapsOwn(a, r)
  BY <1>0 DEF MapsOwn, Clearing, Holds, Keeps, Dirtying, LockedCallers, Free, Regs, Rest
<1>4. DirtiesOwn(a, r)
  BY <1>0 DEF DirtiesOwn, Clearing, Dirtying, Marking, Holds, Keeps, Regs, Rest
<1>5. TagsOwn(a, r)
  BY <1>0 DEF TagsOwn, Regs, Rest
<1>6. SavesOwn(a, r)
  BY <1>0 DEF SavesOwn, Holds, Keeps, Rest
<1> QED BY ONLY <1>0, <1>1, <1>2, <1>3, <1>4, <1>5, <1>6, WbInv, ConductInv DEF Conduct

LEMMA WriteFaultInv ==
  ASSUME WbInv, NEW a \in Tasks, NEW q \in Pages, WriteFault(a, q)
  PROVE  WbInv'
<1> DEFINE r == [Rest EXCEPT !.pc = IF mkwrite THEN "mkwrite" ELSE "setpte",
                               !.p = q, !.back = "none"]
<1> USE Numbers DEF WriteFault, At, Locked, content, WbInv, WbType
<1>0. a \in Actors /\ reg[a] \in Regs
  OBVIOUS
<1>1. Moves(a, r)
  BY <1>0 DEF Moves, Regs, Pcs, Backs, Callers, LockedCallers, Dirtying, Rest
<1>2. LocksOwn(a, r)
  BY <1>0 DEF LocksOwn, Holds, Keeps, Regs, Dirtying, Callers, LockedCallers, Free, Rest
<1>3. MapsOwn(a, r)
  BY <1>0 DEF MapsOwn, Clearing, Holds, Keeps, Dirtying, LockedCallers, Free, Regs, Rest
<1>4. DirtiesOwn(a, r)
  BY <1>0 DEF DirtiesOwn, Clearing, Dirtying, Marking, Holds, Keeps, Regs, Rest
<1>5. TagsOwn(a, r)
  BY <1>0 DEF TagsOwn, Regs, Rest
<1>6. SavesOwn(a, r)
  BY <1>0 DEF SavesOwn, Holds, Keeps, Rest
<1> QED BY ONLY <1>0, <1>1, <1>2, <1>3, <1>4, <1>5, <1>6, WbInv, ConductInv DEF Conduct

LEMMA WpFaultInv ==
  ASSUME WbInv, NEW a \in Tasks, NEW q \in Pages, WpFault(a, q)
  PROVE  WbInv'
<1> DEFINE r == [Rest EXCEPT !.pc = IF mkwrite THEN "mkwrite" ELSE "waitlock",
                               !.p = q, !.back = "clean"]
<1> USE Numbers DEF WpFault, At, SetPtes, flags, content, WbInv, WbType
<1>0. a \in Actors /\ reg[a] \in Regs
  OBVIOUS
<1>1. Moves(a, r)
  BY <1>0 DEF Moves, Regs, Pcs, Backs, Callers, LockedCallers, Dirtying, Rest
<1>2. LocksOwn(a, r)
  BY <1>0 DEF LocksOwn, Holds, Keeps, Regs, Dirtying, Callers, LockedCallers, Free, Rest
<1>3. MapsOwn(a, r)
  BY <1>0 DEF MapsOwn, Clearing, Holds, Keeps, Dirtying, LockedCallers, Free, Regs, Rest
<1>4. DirtiesOwn(a, r)
  BY <1>0 DEF DirtiesOwn, Clearing, Dirtying, Marking, Holds, Keeps, Regs, Rest
<1>5. TagsOwn(a, r)
  BY <1>0 DEF TagsOwn, Regs, Rest
<1>6. SavesOwn(a, r)
  BY <1>0 DEF SavesOwn, Holds, Keeps, Rest
<1> QED BY ONLY <1>0, <1>1, <1>2, <1>3, <1>4, <1>5, <1>6, WbInv, ConductInv DEF Conduct

LEMMA UnmapInv ==
  ASSUME WbInv, NEW a \in Tasks, NEW q \in Pages, Unmap(a, q)
  PROVE  WbInv'
<1> DEFINE r == IF pte[a][q] = "dirty"
                THEN [Rest EXCEPT !.pc = "test", !.p = q, !.back = "zapped"] ELSE reg[a]
<1> USE Numbers DEF Unmap, At, SetPtes, flags, content, WbInv, WbType
<1>0. a \in Actors /\ reg[a] \in Regs
  OBVIOUS
<1>1. Moves(a, r)
  BY <1>0 DEF Moves, Regs, Pcs, Backs, Callers, LockedCallers, Dirtying, Rest
<1>2. LocksOwn(a, r)
  BY <1>0 DEF LocksOwn, Holds, Keeps, Regs, Dirtying, Callers, LockedCallers, Free, Rest
<1>3. MapsOwn(a, r)
  BY <1>0 DEF MapsOwn, Clearing, Holds, Keeps, Dirtying, LockedCallers, Free, Regs, Rest
<1>4. DirtiesOwn(a, r)
  BY <1>0 DEF DirtiesOwn, Clearing, Dirtying, Marking, Holds, Keeps, Regs, Rest
<1>5. TagsOwn(a, r)
  BY <1>0 DEF TagsOwn, Regs, Rest
<1>6. SavesOwn(a, r)
  BY <1>0 DEF SavesOwn, Holds, Keeps, Rest
<1> QED BY ONLY <1>0, <1>1, <1>2, <1>3, <1>4, <1>5, <1>6, WbInv, ConductInv DEF Conduct

LEMMA PageMkcleanInv ==
  ASSUME WbInv, NEW a \in Walkers, PageMkclean(a)
  PROVE  WbInv'
<1> DEFINE q == reg[a].p
<1> DEFINE r == [reg[a] EXCEPT !.back = "clear",
                       !.pc = IF \E m \in Tasks : pte[m][q] = "dirty" THEN "test" ELSE "clear"]
<1> USE Numbers DEF PageMkclean, At, flags, content, WbInv, WbType
<1>0. a \in Actors /\ reg[a] \in Regs
  OBVIOUS
<1>1. Moves(a, r)
  BY <1>0 DEF Moves, Regs, Pcs, Backs, Callers, LockedCallers, Dirtying, Rest
<1>2. LocksOwn(a, r)
  BY <1>0 DEF LocksOwn, Holds, Keeps, Regs, Dirtying, Callers, LockedCallers, Free, Rest
<1>3. MapsOwn(a, r)
  BY <1>0 DEF MapsOwn, Clearing, Holds, Keeps, Dirtying, LockedCallers, Free, Regs, Rest
<1>4. DirtiesOwn(a, r)
  BY <1>0 DEF DirtiesOwn, Clearing, Dirtying, Marking, Holds, Keeps, Regs, Rest
<1>5. TagsOwn(a, r)
  BY <1>0 DEF TagsOwn, Regs, Rest
<1>6. SavesOwn(a, r)
  BY <1>0 DEF SavesOwn, Holds, Keeps, Rest
<1> QED BY ONLY <1>0, <1>1, <1>2, <1>3, <1>4, <1>5, <1>6, WbInv, ConductInv DEF Conduct

LEMMA ClearPageDirtyInv ==
  ASSUME WbInv, NEW a \in Walkers, ClearPageDirty(a)
  PROVE  WbInv'
<1> DEFINE q == reg[a].p
<1> DEFINE r == [reg[a] EXCEPT !.pc = "writepage"]
<1> USE Numbers DEF ClearPageDirty, At, Goto, content, WbInv, WbType
<1>0. a \in Actors /\ reg[a] \in Regs
  OBVIOUS
<1>1. Moves(a, r)
  BY <1>0 DEF Moves, Regs, Pcs, Backs, Callers, LockedCallers, Dirtying, Rest
<1>2. LocksOwn(a, r)
  BY <1>0 DEF LocksOwn, Holds, Keeps, Regs, Dirtying, Callers, LockedCallers, Free, Rest
<1>3. MapsOwn(a, r)
  BY <1>0 DEF MapsOwn, Clearing, Holds, Keeps, Dirtying, LockedCallers, Free, Regs, Rest
<1>4. DirtiesOwn(a, r)
  BY <1>0 DEF DirtiesOwn, Clearing, Dirtying, Marking, Holds, Keeps, Regs, Rest
<1>5. TagsOwn(a, r)
  BY <1>0 DEF TagsOwn, Regs, Rest
<1>6. SavesOwn(a, r)
  BY <1>0 DEF SavesOwn, Holds, Keeps, Rest
<1> QED BY ONLY <1>0, <1>1, <1>2, <1>3, <1>4, <1>5, <1>6, WbInv, ConductInv DEF Conduct

LEMMA WritepageRedirtiesInv ==
  ASSUME WbInv, NEW a \in Walkers, WritepageRedirties(a)
  PROVE  WbInv'
<1> DEFINE q == reg[a].p
<1> DEFINE r == [reg[a] EXCEPT !.pc = "test", !.back = "redirtied"]
<1> USE Numbers DEF WritepageRedirties, At, flags, content, WbInv, WbType
<1>0. a \in Actors /\ reg[a] \in Regs
  OBVIOUS
<1>1. Moves(a, r)
  BY <1>0 DEF Moves, Regs, Pcs, Backs, Callers, LockedCallers, Dirtying, Rest
<1>2. LocksOwn(a, r)
  BY <1>0 DEF LocksOwn, Holds, Keeps, Regs, Dirtying, Callers, LockedCallers, Free, Rest
<1>3. MapsOwn(a, r)
  BY <1>0 DEF MapsOwn, Clearing, Holds, Keeps, Dirtying, LockedCallers, Free, Regs, Rest
<1>4. DirtiesOwn(a, r)
  BY <1>0 DEF DirtiesOwn, Clearing, Dirtying, Marking, Holds, Keeps, Regs, Rest
<1>5. TagsOwn(a, r)
  BY <1>0 DEF TagsOwn, Regs, Rest
<1>6. SavesOwn(a, r)
  BY <1>0 DEF SavesOwn, Holds, Keeps, Rest
<1> QED BY ONLY <1>0, <1>1, <1>2, <1>3, <1>4, <1>5, <1>6, WbInv, ConductInv DEF Conduct

-----------------------------------------------------------------------------
(* Steps between the pages of a walk, and of a sync that waits.             *)

Quiet == {"idle", "lookup", "endpass", "page", "wait", "return"}

LEMMA QuietInv ==
  ASSUME WbInv, NEW a \in Actors, NEW r \in [pc : Quiet, p : Pages, back : Backs],
         reg[a].pc \in Quiet, reg' = [reg EXCEPT ![a] = r],
         tag' \in [d : SUBSET Pages, t : SUBSET Pages, w : SUBSET Pages], tag'.d = tag.d,
         UNCHANGED <<present, dirty, wb, lock, pte, unsaved, missed, failed>>
  PROVE  WbInv'
<1> USE DEF WbInv, WbType
<1>1. Moves(a, r)
  BY DEF Moves, Regs, Quiet, Pcs, Dirtying
<1>2. LocksOwn(a, r)
  BY DEF LocksOwn, Keeps, Dirtying, Quiet
<1>3. MapsOwn(a, r)
  BY DEF MapsOwn, Clearing, Dirtying, Quiet
<1>4. DirtiesOwn(a, r)
  BY DEF DirtiesOwn, Marking, Quiet
<1>5. TagsOwn(a, r)
  BY DEF TagsOwn, Quiet
<1>6. SavesOwn(a, r)
  BY DEF SavesOwn, Quiet
<1> QED BY <1>1, <1>2, <1>3, <1>4, <1>5, <1>6, ConductInv DEF Conduct

(* Past a page the walk goes on with none at hand.                          *)
LEMMA NextPageReg ==
  ASSUME NEW w, NEW s, NextPage(w, s)
  PROVE  \E x \in {"lookup", "page"} : reg' = [reg EXCEPT ![w] = [Rest EXCEPT !.pc = x]]
<1> DEFINE x == IF s.done \/ Len(s.vec) = 1 THEN "lookup" ELSE "page"
<1>1. x \in {"lookup", "page"}
  OBVIOUS
<1>2. reg' = [reg EXCEPT ![w] = [Rest EXCEPT !.pc = x]]
  BY DEF NextPage, Afresh
<1> HIDE DEF x
<1> QED BY <1>1, <1>2

LEMMA WrittenReg ==
  ASSUME NEW w, Written(w)
  PROVE  \E x \in {"lookup", "page"} : reg' = [reg EXCEPT ![w] = [Rest EXCEPT !.pc = x]]
<1>1. \E s : NextPage(w, s)
  BY DEF Written
<1> QED BY <1>1, NextPageReg

LEMMA LookupInv == ASSUME WbInv, NEW a \in Walkers, Lookup(a) PROVE WbInv'
<1>1. PICK x \in {"endpass", "page"} : reg' = [reg EXCEPT ![a] = [reg[a] EXCEPT !.pc = x]]
  BY DEF Lookup, Goto
<1>2. a \in Actors /\ reg[a] \in Regs
  BY Numbers DEF WbInv, WbType
<1>3. [reg[a] EXCEPT !.pc = x] \in [pc : Quiet, p : Pages, back : Backs]
  BY <1>2 DEF Regs, Quiet
<1> QED BY <1>1, <1>2, <1>3, QuietInv DEF Lookup, At, Quiet, flags, content, WbInv, WbType

LEMMA EndPassInv == ASSUME WbInv, NEW a \in Walkers, EndPass(a) PROVE WbInv'
<1>1. a \in Actors /\ reg[a] \in Regs
  BY Numbers DEF WbInv, WbType
<1>2. \E r \in [pc : Quiet, p : Pages, back : Backs] : reg' = [reg EXCEPT ![a] = r]
  <2>1. [reg[a] EXCEPT !.pc = "lookup"] \in [pc : Quiet, p : Pages, back : Backs]
    BY <1>1 DEF Regs, Quiet
  <2>2. \A x \in {"wait", "idle"} : [Rest EXCEPT !.pc = x] \in [pc : Quiet, p : Pages, back : Backs]
    BY Numbers DEF Rest, Quiet, Backs
  <2> QED BY <2>1, <2>2 DEF EndPass, Goto, Afresh
<1> QED BY <1>1, <1>2, QuietInv DEF EndPass, At, Quiet, flags, content, WbInv, WbType

(* A walk begins, or a sync goes on to wait for the next page and returns.  *)
LEMMA WalksInv ==
  ASSUME WbInv, FlusherStarts \/ SyncStarts \/ SyncWaits \/ SyncReturns
  PROVE  WbInv'
<1>1. Flusher \in Actors /\ Syncer \in Actors /\ reg[Flusher] \in Regs /\ reg[Syncer] \in Regs
  BY DEF WbInv, WbType, Actors, Walkers
<1>3. CASE FlusherStarts
  <2>1. reg' = [reg EXCEPT ![Flusher] = [reg[Flusher] EXCEPT !.pc = "lookup"]]
    BY <1>3 DEF FlusherStarts, Goto
  <2>2. [reg[Flusher] EXCEPT !.pc = "lookup"] \in [pc : Quiet, p : Pages, back : Backs]
    BY <1>1 DEF Regs, Quiet
  <2> QED BY <1>1, <1>3, <2>1, <2>2, QuietInv DEF FlusherStarts, At, Quiet, flags, content,
       WbInv, WbType
<1>4. CASE SyncStarts
  <2>1. reg' = [reg EXCEPT ![Syncer] = [reg[Syncer] EXCEPT !.pc = "lookup"]]
    BY <1>4 DEF SyncStarts, Goto
  <2>2. tag' \in [d : SUBSET Pages, t : SUBSET Pages, w : SUBSET Pages] /\ tag'.d = tag.d
    BY <1>4 DEF SyncStarts, TagPages, WbInv, WbType
  <2>3. [reg[Syncer] EXCEPT !.pc = "lookup"] \in [pc : Quiet, p : Pages, back : Backs]
    BY <1>1 DEF Regs, Quiet
  <2>4. /\ reg[Syncer].pc \in Quiet
        /\ UNCHANGED <<present, dirty, wb, lock, pte, unsaved, missed, failed>>
    BY <1>4 DEF SyncStarts, At, Quiet
  <2> QED BY <1>1, <2>1, <2>2, <2>3, <2>4, QuietInv
<1>5. CASE SyncWaits
  <2>1. PICK r \in [pc : Quiet, p : Pages, back : Backs] : reg' = [reg EXCEPT ![Syncer] = r]
    <3>1. CASE reg[Syncer].p < NrPages - 1
      <4>1. reg[Syncer].p + 1 \in Pages
        BY <1>1, <3>1, LimitsAssumption DEF Regs, Pages
      <4>2. [reg[Syncer] EXCEPT !.p = reg[Syncer].p + 1] \in [pc : Quiet, p : Pages, back : Backs]
        BY <1>1, <1>5, <4>1 DEF SyncWaits, At, Regs, Quiet
      <4>3. reg' = [reg EXCEPT ![Syncer] = [reg[Syncer] EXCEPT !.p = reg[Syncer].p + 1]]
        BY <1>1, <1>5, <3>1 DEF SyncWaits
      <4> QED BY <4>2, <4>3
    <3>2. CASE ~(reg[Syncer].p < NrPages - 1)
      <4>1. [Rest EXCEPT !.pc = "return"] \in [pc : Quiet, p : Pages, back : Backs]
        BY Numbers DEF Rest, Quiet, Backs
      <4>2. reg' = [reg EXCEPT ![Syncer] = [Rest EXCEPT !.pc = "return"]]
        BY <1>5, <3>2 DEF SyncWaits
      <4> QED BY <4>1, <4>2
    <3> QED BY <3>1, <3>2
  <2> QED BY <1>1, <1>5, <2>1, QuietInv DEF SyncWaits, At, Quiet, flags, content, WbInv, WbType
<1>6. CASE SyncReturns
  <2>1. reg' = [reg EXCEPT ![Syncer] = [reg[Syncer] EXCEPT !.pc = "idle"]]
    BY <1>6 DEF SyncReturns, Goto
  <2>2. [reg[Syncer] EXCEPT !.pc = "idle"] \in [pc : Quiet, p : Pages, back : Backs]
    BY <1>1 DEF Regs, Quiet
  <2> QED BY <1>1, <1>6, <2>1, <2>2, QuietInv DEF SyncReturns, At, Quiet, flags, WbInv, WbType
<1> QED BY <1>3, <1>4, <1>5, <1>6

LEMMA WritepageSubmitsInv ==
  ASSUME WbInv, NEW a \in Walkers, WritepageSubmits(a)
  PROVE  WbInv'
<1>x. PICK x \in {"lookup", "page"} : reg' = [reg EXCEPT ![a] = [Rest EXCEPT !.pc = x]]
  BY WrittenReg DEF WritepageSubmits
<1> DEFINE q == reg[a].p
<1> DEFINE r == [Rest EXCEPT !.pc = x]
<1> USE Numbers DEF WritepageSubmits, At, Unlock, TagsUnderWriteback, WbInv, WbType
<1>0. a \in Actors /\ reg[a] \in Regs
  OBVIOUS
<1>1. Moves(a, r)
  BY <1>0, <1>x DEF Moves, Regs, Pcs, Backs, Callers, LockedCallers, Dirtying, Rest
<1>2. LocksOwn(a, r)
  BY <1>0 DEF LocksOwn, Holds, Keeps, Regs, Dirtying, Callers, LockedCallers, Free, Rest
<1>3. MapsOwn(a, r)
  BY <1>0 DEF MapsOwn, Clearing, Holds, Keeps, Dirtying, LockedCallers, Free, Regs, Rest
<1>4. DirtiesOwn(a, r)
  BY <1>0 DEF DirtiesOwn, Clearing, Dirtying, Marking, Holds, Keeps, Regs, Rest
<1>5. TagsOwn(a, r)
  BY <1>0 DEF TagsOwn, Regs, Rest
<1>6. SavesOwn(a, r)
  BY <1>0 DEF SavesOwn, Holds, Keeps, Rest
<1> QED BY ONLY <1>0, <1>1, <1>2, <1>3, <1>4, <1>5, <1>6, WbInv, ConductInv DEF Conduct

LEMMA RedirtiedInv ==
  ASSUME WbInv, NEW a \in Walkers, Redirtied(a)
  PROVE  WbInv'
<1>x. PICK x \in {"lookup", "page"} : reg' = [reg EXCEPT ![a] = [Rest EXCEPT !.pc = x]]
  BY WrittenReg DEF Redirtied
<1> DEFINE q == reg[a].p
<1> DEFINE r == [Rest EXCEPT !.pc = x]
<1> USE Numbers DEF Redirtied, At, Unlock, content, WbInv, WbType
<1>0. a \in Actors /\ reg[a] \in Regs
  OBVIOUS
<1>1. Moves(a, r)
  BY <1>0, <1>x DEF Moves, Regs, Pcs, Backs, Callers, LockedCallers, Dirtying, Rest
<1>2. LocksOwn(a, r)
  BY <1>0 DEF LocksOwn, Holds, Keeps, Regs, Dirtying, Callers, LockedCallers, Free, Rest
<1>3. MapsOwn(a, r)
  BY <1>0 DEF MapsOwn, Clearing, Holds, Keeps, Dirtying, LockedCallers, Free, Regs, Rest
<1>4. DirtiesOwn(a, r)
  BY <1>0 DEF DirtiesOwn, Clearing, Dirtying, Marking, Holds, Keeps, Regs, Rest
<1>5. TagsOwn(a, r)
  BY <1>0 DEF TagsOwn, Regs, Rest
<1>6. SavesOwn(a, r)
  BY <1>0 DEF SavesOwn, Holds, Keeps, Rest
<1> QED BY ONLY <1>0, <1>1, <1>2, <1>3, <1>4, <1>5, <1>6, WbInv, ConductInv DEF Conduct

LEMMA WritepageFailsInv ==
  ASSUME WbInv, NEW a \in Walkers, WritepageFails(a)
  PROVE  WbInv'
<1>x. PICK x \in {"lookup", "page"} : reg' = [reg EXCEPT ![a] = [Rest EXCEPT !.pc = x]]
  BY NextPageReg DEF WritepageFails
<1> DEFINE q == reg[a].p
<1> DEFINE r == [Rest EXCEPT !.pc = x]
<1> USE Numbers DEF WritepageFails, At, Unlock, WbInv, WbType
<1>0. a \in Actors /\ reg[a] \in Regs
  OBVIOUS
<1>1. Moves(a, r)
  BY <1>0, <1>x DEF Moves, Regs, Pcs, Backs, Callers, LockedCallers, Dirtying, Rest
<1>2. LocksOwn(a, r)
  BY <1>0 DEF LocksOwn, Holds, Keeps, Regs, Dirtying, Callers, LockedCallers, Free, Rest
<1>3. MapsOwn(a, r)
  BY <1>0 DEF MapsOwn, Clearing, Holds, Keeps, Dirtying, LockedCallers, Free, Regs, Rest
<1>4. DirtiesOwn(a, r)
  BY <1>0 DEF DirtiesOwn, Clearing, Dirtying, Marking, Holds, Keeps, Regs, Rest
<1>5. TagsOwn(a, r)
  BY <1>0 DEF TagsOwn, Regs, Rest
<1>6. SavesOwn(a, r)
  BY <1>0 DEF SavesOwn, Holds, Keeps, Rest
<1> QED BY ONLY <1>0, <1>1, <1>2, <1>3, <1>4, <1>5, <1>6, WbInv, ConductInv DEF Conduct

(* The walk locks a page it has found.                                      *)
LEMMA TakeNextInv ==
  ASSUME WbInv, NEW a \in Walkers, LockNext(a), NEW p \in present, Free(p), Locked(p, a),
         reg' = [reg EXCEPT ![a].pc = "check", ![a].p = p]
  PROVE  WbInv'
<1> DEFINE r == [reg[a] EXCEPT !.pc = "check", !.p = p]
<1> USE Numbers DEF LockNext, At, Locked, content, WbInv, WbType
<1>0. a \in Actors /\ reg[a] \in Regs
  OBVIOUS
<1>1. Moves(a, r)
  BY <1>0 DEF Moves, Regs, Pcs, Backs, Callers, LockedCallers, Dirtying, Rest
<1>2. LocksOwn(a, r)
  BY <1>0 DEF LocksOwn, Holds, Keeps, Regs, Dirtying, Callers, LockedCallers, Free, Rest
<1>3. MapsOwn(a, r)
  BY <1>0 DEF MapsOwn, Clearing, Holds, Keeps, Dirtying, LockedCallers, Free, Regs, Rest
<1>4. DirtiesOwn(a, r)
  BY <1>0 DEF DirtiesOwn, Clearing, Dirtying, Marking, Holds, Keeps, Regs, Rest
<1>5. TagsOwn(a, r)
  BY <1>0 DEF TagsOwn, Regs, Rest
<1>6. SavesOwn(a, r)
  BY <1>0 DEF SavesOwn, Holds, Keeps, Rest
<1> QED BY ONLY <1>0, <1>1, <1>2, <1>3, <1>4, <1>5, <1>6, WbInv, ConductInv DEF Conduct

LEMMA LockNextInv == ASSUME WbInv, NEW a \in Walkers, LockNext(a) PROVE WbInv'
<1> DEFINE s == walk[a]
<1>1. CASE \E z : NextPage(a, z) /\ UNCHANGED lock
  <2>1. PICK x \in {"lookup", "page"} : reg' = [reg EXCEPT ![a] = [Rest EXCEPT !.pc = x]]
    BY <1>1, NextPageReg
  <2>2. a \in Actors /\ [Rest EXCEPT !.pc = x] \in [pc : Quiet, p : Pages, back : Backs]
    BY Numbers DEF Rest, Quiet, Backs
  <2> QED BY <1>1, <2>1, <2>2, QuietInv DEF LockNext, At, Quiet, content, WbInv, WbType
<1>2. CASE \E p \in present :
              Free(p) /\ Locked(p, a) /\ reg' = [reg EXCEPT ![a].pc = "check", ![a].p = p]
  BY <1>2, TakeNextInv
<1> QED BY <1>1, <1>2 DEF LockNext, Skip

-----------------------------------------------------------------------------
(* Steps that leave the registers alone.                                    *)

LEMMA ReadFaultInv == ASSUME WbInv, NEW m \in Tasks, NEW q \in Pages, ReadFault(m, q) PROVE WbInv'
<1> USE Numbers DEF ReadFault, WbInv, WbType, SetPtes, flags, content
<1>1. WbType'
  OBVIOUS
<1>2. Holds'
  BY DEF Holds
<1>3. Cleaned'
  BY DEF Cleaned, Clearing, Regs, At
<1>4. MappedDirty'
  BY DEF MappedDirty, Dirtied
<1>5. DirtyTagged'
  BY DEF DirtyTagged, At
<1>6. NoLostWrite'
  BY DEF NoLostWrite, InHand, MappedDirty, Dirtied, Marking
<1> QED BY <1>1, <1>2, <1>3, <1>4, <1>5, <1>6

LEMMA StoreInv == ASSUME WbInv, NEW m \in Tasks, NEW q \in Pages, Store(m, q) PROVE WbInv'
<1> USE Numbers DEF Store, WbInv, WbType, Stored, At, flags
<1>1. WbType'
  OBVIOUS
<1>2. Holds'
  BY DEF Holds
<1>3. Cleaned'
  BY DEF Cleaned, Clearing, Regs, At
<1>4. MappedDirty'
  BY DEF MappedDirty, Dirtied
<1>5. DirtyTagged'
  BY DEF DirtyTagged, At
<1>6. NoLostWrite'
  BY DEF NoLostWrite, InHand, MappedDirty, Dirtied, Marking
<1> QED BY <1>1, <1>2, <1>3, <1>4, <1>5, <1>6

LEMMA ReclaimUnmapsInv ==
  ASSUME WbInv, NEW m \in Tasks, NEW q \in Pages, ReclaimUnmaps(m, q)
  PROVE  WbInv'
<1> USE Numbers DEF ReclaimUnmaps, WbInv, WbType, SetPtes, flags, content
<1>1. WbType'
  OBVIOUS
<1>2. Holds'
  BY DEF Holds
<1>3. Cleaned'
  BY DEF Cleaned, Clearing, Regs, At
<1>4. MappedDirty'
  BY DEF MappedDirty, Dirtied
<1>5. DirtyTagged'
  BY DEF DirtyTagged, At
<1>6. NoLostWrite'
  BY DEF NoLostWrite, InHand, MappedDirty, Dirtied, Marking
<1> QED BY <1>1, <1>2, <1>3, <1>4, <1>5, <1>6

LEMMA TruncateInv == ASSUME WbInv, NEW q \in Pages, Truncate(q) PROVE WbInv'
<1> USE Numbers DEF Truncate, WbInv, WbType
<1>1. WbType'
  OBVIOUS
<1>2. Holds'
  BY DEF Holds
<1>3. Cleaned'
  BY DEF Cleaned, Clearing, Regs, At
<1>4. MappedDirty'
  BY DEF MappedDirty, Dirtied
<1>5. DirtyTagged'
  BY DEF DirtyTagged, At
<1>6. NoLostWrite'
  BY DEF NoLostWrite, InHand, MappedDirty, Dirtied, Marking
<1> QED BY <1>1, <1>2, <1>3, <1>4, <1>5, <1>6

LEMMA EndPageWritebackInv == ASSUME WbInv, NEW q \in Pages, EndPageWriteback(q) PROVE WbInv'
<1> USE Numbers DEF EndPageWriteback, WbInv, WbType
<1>1. WbType'
  OBVIOUS
<1>2. Holds'
  BY DEF Holds
<1>3. Cleaned'
  BY DEF Cleaned, Clearing, Regs, At
<1>4. MappedDirty'
  BY DEF MappedDirty, Dirtied
<1>5. DirtyTagged'
  BY DEF DirtyTagged, At
<1>6. NoLostWrite'
  BY DEF NoLostWrite, InHand, MappedDirty, Dirtied, Marking
<1> QED BY <1>1, <1>2, <1>3, <1>4, <1>5, <1>6

-----------------------------------------------------------------------------
LEMMA NextWb == WbInv /\ [Next]_vars => WbInv'
<1> SUFFICES ASSUME WbInv, [Next]_vars PROVE WbInv'
  OBVIOUS
<1>1. CASE UNCHANGED vars
  BY <1>1 DEF vars, flags, content, control, counts, WbInv, WbType, Holds, Cleaned,
       MappedDirty, Dirtied,
              DirtyTagged, At, NoLostWrite, InHand
<1>2. CASE \E a \in Actors : SetPageDirty(a) \/ AccountPageDirtied(a)
  BY <1>2, SetPageDirtyInv, AccountPageDirtiedInv
<1>3. CASE \E t \in Tasks :
              WriteEnd(t) \/ PageMkwrite(t) \/ SetPte(t) \/ FaultEnd(t) \/ WaitOnPageLocked(t)
  BY <1>3, WriteEndInv, PageMkwriteInv, SetPteInv, FaultEndInv, WaitOnPageLockedInv
<1>4. CASE \E t \in Tasks, p \in Pages :
              Write(t, p) \/ ReadFault(t, p) \/ WriteFault(t, p) \/ WpFault(t, p) \/ Store(t, p)
              \/ Unmap(t, p) \/ ReclaimUnmaps(t, p)
  BY <1>4, WriteInv, ReadFaultInv, WriteFaultInv, WpFaultInv, StoreInv, UnmapInv, ReclaimUnmapsInv
<1>5. CASE \E w \in Walkers : Lookup(w) \/ LockNext(w) \/ EndPass(w)
  BY <1>5, LookupInv, LockNextInv, EndPassInv
<1>6. CASE \E w \in Walkers :
              \/ PageMkclean(w) \/ ClearPageDirty(w) \/ WritepageSubmits(w) \/ WritepageRedirties(w)
              \/ Redirtied(w) \/ WritepageFails(w)
  BY <1>6, PageMkcleanInv, ClearPageDirtyInv, WritepageSubmitsInv, WritepageRedirtiesInv,
       RedirtiedInv,
     WritepageFailsInv
<1>7. CASE FlusherStarts \/ SyncStarts \/ SyncWaits \/ SyncReturns
  BY <1>7, WalksInv
<1>8. CASE \E p \in Pages : Truncate(p) \/ EndPageWriteback(p)
  BY <1>8, TruncateInv, EndPageWritebackInv
<1> QED BY <1>1, <1>2, <1>3, <1>4, <1>5, <1>6, <1>7, <1>8 DEF Next

(* The inductive invariant: lock holders, clean entries and dirty flags      *)
(* agree at every point of set_page_dirty and clear_page_dirty_for_io.      *)
THEOREM WbInvariant == Spec => []WbInv
<1>1. Init => WbInv
  BY InitWb
<1> QED BY <1>1, NextWb, PTL DEF Spec

(* A page with stores that are not on the disk is dirty, or covered by a     *)
(* write in flight, or about to be (clear_page_dirty_for_io, do_wp_page).   *)
THEOREM StoresKept == Spec => []NoLostWrite
<1>1. WbInv => NoLostWrite
  BY DEF WbInv
<1> QED BY <1>1, WbInvariant, PTL

(* A walk finds every dirty page by its tag (__set_page_dirty_nobuffers,     *)
(* test_set_page_writeback).                                                *)
THEOREM DirtyPagesTagged == Spec => []DirtyTagged
<1>1. WbInv => DirtyTagged
  BY DEF WbInv
<1> QED BY <1>1, WbInvariant, PTL

==============================================================================
