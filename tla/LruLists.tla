------------------------------ MODULE LruLists ------------------------------
(***************************************************************************)
(* The page lists of one zone and everybody who moves pages between them:  *)
(* reclaimers (kswapd and direct reclaim) that isolate pages, look at them *)
(* without the lock and put them back, tasks that lock and unlock memory   *)
(* (mlock, munlock), and the owner of a shared segment (SHM_LOCK,          *)
(* SHM_UNLOCK).                                                            *)
(*                                                                         *)
(* A page is on the active or the inactive list of its kind, on the        *)
(* unevictable list, on a per-CPU vector on its way to a list, or off all  *)
(* lists, in the hands of whoever isolated it.  The lists are sets: their  *)
(* order decides which page is reclaimed first, not whether one is lost.   *)
(* zone->lru_lock makes an action that changes a list one step; what the   *)
(* code does between two critical sections is a step of its own.           *)
(*                                                                         *)
(* mlock.c, shmem.c and swap.c are external and modelled by what vmscan.c  *)
(* says of them and calls in them.                                         *)
(***************************************************************************)
EXTENDS Integers, FiniteSets, FiniteSetsExt

CONSTANTS
    Pages,          \* the pages of the zone
    FilePages,      \* those of a file or segment; the others are anonymous
    Kswapd,         \* the reclaimer that is never held back
    Direct,         \* tasks in direct reclaim
    Lockers,        \* tasks that mlock and munlock
    NrToScan,       \* most pages one scan takes off a list
    MaxScans,       \* bound: scans begun
    MaxLocks        \* bound: mlock, munlock and SHM_LOCK calls begun

Reclaimers == {Kswapd} \cup Direct
Actors     == Reclaimers \cup Lockers
Kinds      == {"anon", "file"}
Lists      == {"active", "inactive", "unevictable"}

ASSUME PagesAssumption == IsFiniteSet(Pages) /\ FilePages \subseteq Pages
ASSUME ActorsAssumption == Kswapd \notin Direct /\ Reclaimers \cap Lockers = {}

VARIABLES
    on,         \* the list a page is on (PG_lru is set), "vec", or "none"
    active,     \* pages with PG_active
    unev,       \* pages with PG_unevictable
    mlocked,    \* pages with PG_mlocked
    shmLocked,  \* AS_UNEVICTABLE of the file's mapping
    user,       \* pages still mapped or in the page cache
    nr,         \* the zone's counters of its lists, per kind
    isolated,   \* NR_ISOLATED_ANON and NR_ISOLATED_FILE
    act,        \* the actors' registers
    shm,        \* SHM_UNLOCK: "idle", or "move" when the pages are to be visited
    scans, locks

vars == <<on, active, unev, mlocked, shmLocked, user, nr, isolated, act, shm, scans, locks>>

Rest == [pc |-> "idle", kind |-> "anon", from |-> "inactive", held |-> {}, keep |-> {},
         taken |-> 0, page |-> {}, was |-> FALSE, back |-> "idle"]

Kind(p) == IF p \in FilePages THEN "file" ELSE "anon"

\* page_evictable
Evictable(p) == ~(p \in FilePages /\ shmLocked) /\ p \notin mlocked

OnList(l, kind) == {p \in Pages : on[p] = l /\ Kind(p) = kind}

Init ==
    /\ on \in [Pages -> {"active", "inactive"}]
    /\ active = {p \in Pages : on[p] = "active"}
    /\ unev = {} /\ mlocked = {} /\ shmLocked = FALSE
    /\ user = Pages
    /\ nr = [l \in Lists |-> [kd \in Kinds |-> Cardinality(OnList(l, kd))]]
    /\ isolated = [kd \in Kinds |-> 0]
    /\ act = [a \in Actors |-> Rest]
    /\ shm = "idle" /\ scans = 0 /\ locks = 0

----------------------------------------------------------------------------
(* References and counters.  A page is freed when its last reference goes: *)
(* the users' one, one of each actor that isolated it, one of the vector.  *)

InHand(a) == act[a].held \cup act[a].keep \cup act[a].page

\* The pages of S are in nobody's hands once a has let go of them
Unused(S, a) ==
    {p \in S : p \notin user /\ \A b \in Actors \ {a} : p \notin InHand(b)}

\* The lists after the pages of S were put where dest says; a page that turns
\* out to be unused comes off again.  The counters follow each single move.
Moved(S, dest) == [p \in Pages |-> IF p \in S THEN dest[p] ELSE on[p]]

Recount(on2) ==
    [l \in Lists |-> [kd \in Kinds |-> nr[l][kd]
        + Cardinality({p \in Pages : Kind(p) = kd /\ on2[p] = l /\ on[p] # l})
        - Cardinality({p \in Pages : Kind(p) = kd /\ on[p] = l /\ on2[p] # l})]]

PutOn(S, dest) == on' = Moved(S, dest) /\ nr' = Recount(Moved(S, dest))

Become(a, r) == act' = [act EXCEPT ![a] = r]

----------------------------------------------------------------------------
(* putback_lru_page, in the steps other actors can come between.           *)

\* What starts it: PG_active is remembered and cleared
BeginPutback(r, p, back) ==
    [r EXCEPT !.pc = "putback", !.page = {p}, !.was = (p \in active), !.back = back,
              !.held = @ \ {p}, !.keep = @ \ {p}]

\* Mutant: PG_active stays set
ClearActiveNot(p) == active

\* ClearPageActive
ClearActive(p) == active \ {p}

Putback(a) ==
    LET r == act[a]  p == CHOOSE q \in r.page : TRUE IN
    /\ r.pc = "putback"
    /\ unev' = unev \ {p}
    /\ IF Evictable(p)
         THEN \* lru_cache_add_lru: onto the vector, and the reference goes
              /\ on' = [on EXCEPT ![p] = "vec"]
              /\ active' = IF r.was THEN active \cup {p} ELSE ClearActive(p)
              /\ Become(a, [r EXCEPT !.pc = r.back, !.page = {}, !.was = FALSE, !.back = "idle"])
         ELSE /\ active' = ClearActive(p)
              /\ Become(a, [r EXCEPT !.pc = "add"])
              /\ UNCHANGED on
    /\ UNCHANGED <<mlocked, shmLocked, user, nr, isolated, shm, scans, locks>>

\* add_page_to_unevictable_list
AddUnevictable(a) ==
    LET p == CHOOSE q \in act[a].page : TRUE IN
    /\ act[a].pc = "add"
    /\ PutOn({p}, [q \in {p} |-> "unevictable"])
    /\ unev' = unev \cup {p}
    /\ Become(a, [act[a] EXCEPT !.pc = "recheck"])
    /\ UNCHANGED <<active, mlocked, shmLocked, user, isolated, shm, scans, locks>>

\* Mutant: only an munlock during the move is noticed, no SHM_UNLOCK
StrandedUnlocked(p) == Evictable(p) /\ p \notin FilePages /\ on[p] \in Lists

Stranded(p) == Evictable(p) /\ on[p] \in Lists

\* The page is looked at once more, now that others can find it on the list
Recheck(a) ==
    LET r == act[a]  p == CHOOSE q \in r.page : TRUE IN
    /\ r.pc = "recheck"
    /\ IF Stranded(p)
         THEN /\ PutOn({p}, [q \in {p} |-> "none"])
              /\ Become(a, [r EXCEPT !.pc = "putback"])
              /\ UNCHANGED <<active, unev>>
         ELSE /\ LET gone == Unused({p}, a) IN
                 /\ PutOn(gone, [q \in gone |-> "none"])
                 /\ unev' = unev \ gone
                 /\ active' = active \ gone
              /\ Become(a, [r EXCEPT !.pc = r.back, !.page = {}, !.was = FALSE, !.back = "idle"])
    /\ UNCHANGED <<mlocked, shmLocked, user, isolated, shm, scans, locks>>

\* lru_add_drain: the vectors are emptied onto the lists; a page that lost its
\* last user meanwhile is freed instead
DrainTarget(p) ==
    IF p \notin user /\ \A a \in Actors : p \notin InHand(a) THEN "none"
    ELSE IF p \in active THEN "active" ELSE "inactive"

Drain ==
    LET S == {p \in Pages : on[p] = "vec"} IN
    /\ S # {}
    /\ PutOn(S, [p \in S |-> DrainTarget(p)])
    /\ active' = active \ {p \in S : DrainTarget(p) = "none"}
    /\ UNCHANGED <<unev, mlocked, shmLocked, user, isolated, act, shm, scans, locks>>

----------------------------------------------------------------------------
(* shrink_lruvec: which list is scanned.                                   *)

InactiveFileIsLow == nr["active"]["file"] > nr["inactive"]["file"]
InactiveAnonIsLow(swap) == swap /\ nr["inactive"]["anon"] < nr["active"]["anon"]

\* get_scan_count: the kinds with a share of the scan.  Whether there is swap
\* space, whether the priority is the last and whether the file pages would not
\* even fill the zone to its high mark is decided elsewhere.
ScanKinds(swap, last, fewFiles) ==
    IF ~swap THEN {"file"}
    ELSE IF last THEN Kinds
    ELSE IF fewFiles THEN {"anon"}
    ELSE IF ~InactiveFileIsLow THEN {"file"}
    ELSE Kinds

\* shrink_list; the anonymous active list is aged even when only files are scanned
ShrinkList(a) ==
    /\ act[a].pc = "idle" /\ a \in Reclaimers
    /\ scans < MaxScans /\ scans' = scans + 1
    /\ \E swap, last, fewFiles \in BOOLEAN, kd \in Kinds :
         \/ /\ kd \in ScanKinds(swap, last, fewFiles)
            /\ Become(a, [Rest EXCEPT !.pc = "wait", !.kind = kd])
         \/ /\ IF kd = "file" THEN InactiveFileIsLow /\ kd \in ScanKinds(swap, last, fewFiles)
                              ELSE InactiveAnonIsLow(swap)
            /\ Become(a, [Rest EXCEPT !.pc = "isolate", !.kind = kd, !.from = "active"])
    /\ UNCHANGED <<on, active, unev, mlocked, shmLocked, user, nr, isolated, shm, locks>>

\* A caller that may do I/O compares with an eighth of the inactive list
TooManyIsolated(a, kd, iofs) ==
    a # Kswapd /\ isolated[kd] > (IF iofs THEN nr["inactive"][kd] \div 8
                                          ELSE nr["inactive"][kd])

\* shrink_inactive_list comes out of its first loop
EnoughLeft(a) ==
    /\ act[a].pc = "wait"
    /\ ~TooManyIsolated(a, act[a].kind, TRUE)
    /\ Become(a, [act[a] EXCEPT !.pc = "isolate"])
    /\ UNCHANGED <<on, active, unev, mlocked, shmLocked, user, nr, isolated, shm, scans, locks>>

\* A fatal signal ends the wait
WaitKilled(a) ==
    /\ act[a].pc = "wait" /\ TooManyIsolated(a, act[a].kind, TRUE)
    /\ Become(a, Rest)
    /\ UNCHANGED <<on, active, unev, mlocked, shmLocked, user, nr, isolated, shm, scans, locks>>

\* isolate_lru_pages; a page whose last reference is gone is passed over
Takeable(r) == {p \in OnList(r.from, r.kind) : p \in user \/ \E b \in Actors : p \in InHand(b)}

IsolateLruPages(a) ==
    LET r == act[a] IN
    /\ r.pc = "isolate"
    /\ \E S \in SUBSET Takeable(r) :
         /\ Cardinality(S) <= NrToScan
         /\ S = {} => Takeable(r) = {}
         /\ PutOn(S, [p \in S |-> "none"])
         /\ isolated' = [isolated EXCEPT ![r.kind] = @ + Cardinality(S)]
         /\ Become(a, IF S = {} /\ r.from = "inactive" THEN Rest
                      ELSE [r EXCEPT !.pc = "work", !.held = S, !.taken = Cardinality(S)])
    /\ UNCHANGED <<active, unev, mlocked, shmLocked, user, shm, scans, locks>>

----------------------------------------------------------------------------
(* One page off the lists: shrink_page_list and shrink_active_list.        *)

\* cull_mlocked, and the same test of shrink_active_list
Cull(a, p) ==
    /\ act[a].pc = "work" /\ p \in act[a].held
    /\ ~Evictable(p)
    /\ Become(a, BeginPutback(act[a], p, "work"))
    /\ UNCHANGED <<on, active, unev, mlocked, shmLocked, user, nr, isolated, shm, scans, locks>>

\* The page is unmapped, written if need be and freed: nobody else has it
Reclaim(a, p) ==
    LET r == act[a] IN
    /\ r.pc = "work" /\ r.from = "inactive" /\ p \in r.held
    /\ Evictable(p)
    /\ \A b \in Actors \ {a} : p \notin InHand(b)
    /\ user' = user \ {p}
    /\ active' = active \ {p}
    /\ Become(a, [r EXCEPT !.held = @ \ {p}])
    /\ UNCHANGED <<on, unev, mlocked, shmLocked, nr, isolated, shm, scans, locks>>

\* keep_locked and activate_locked; what the active list rotates or deactivates
KeepPage(a, p, isActive) ==
    LET r == act[a] IN
    /\ r.pc = "work" /\ p \in r.held
    /\ Evictable(p)
    /\ r.from = "active" /\ isActive => p \in FilePages
    /\ active' = IF isActive THEN active \cup {p} ELSE active \ {p}
    /\ Become(a, [r EXCEPT !.held = @ \ {p}, !.keep = @ \cup {p}])
    /\ UNCHANGED <<on, unev, mlocked, shmLocked, user, nr, isolated, shm, scans, locks>>

\* Mutant: a page whose last user went away goes back to its list all the same
BackToAlways(p, a) == IF p \in active THEN "active" ELSE "inactive"

\* Where a page goes that is put back: off again when it is unused
BackTo(p, a) ==
    IF p \in Unused({p}, a) THEN "none" ELSE IF p \in active THEN "active" ELSE "inactive"

\* putback_inactive_pages sends a page that became unevictable the long way
PutbackCull(a, p) ==
    LET r == act[a] IN
    /\ r.pc = "work" /\ r.held = {} /\ r.from = "inactive" /\ p \in r.keep
    /\ ~Evictable(p)
    /\ Become(a, BeginPutback(r, p, "work"))
    /\ UNCHANGED <<on, active, unev, mlocked, shmLocked, user, nr, isolated, shm, scans, locks>>

\* Mutant: only the pages put back are taken off NR_ISOLATED
ReturnedKept(r) == Cardinality(r.keep)

Returned(r) == r.taken

\* putback_inactive_pages and move_active_pages_to_lru, to the end of the scan
PutbackPages(a) ==
    LET r == act[a] IN
    /\ r.pc = "work" /\ r.held = {}
    /\ r.from = "inactive" => \A p \in r.keep : Evictable(p)
    /\ PutOn(r.keep, [p \in r.keep |-> BackTo(p, a)])
    /\ active' = active \ Unused(r.keep, a)
    /\ isolated' = [isolated EXCEPT ![r.kind] = @ - Returned(r)]
    /\ Become(a, Rest)
    /\ UNCHANGED <<unev, mlocked, shmLocked, user, shm, scans, locks>>

----------------------------------------------------------------------------
(* mlock and munlock, external: the flag first, then isolate_lru_page and  *)
(* putback_lru_page, unless somebody else has isolated the page.           *)

Mlock(a, p) ==
    /\ a \in Lockers /\ act[a].pc = "idle" /\ locks < MaxLocks
    /\ p \in user /\ p \notin mlocked
    /\ mlocked' = mlocked \cup {p}
    /\ locks' = locks + 1
    /\ Become(a, [Rest EXCEPT !.pc = "take", !.page = {p}])
    /\ UNCHANGED <<on, active, unev, shmLocked, user, nr, isolated, shm, scans>>

Munlock(a, p) ==
    /\ a \in Lockers /\ act[a].pc = "idle" /\ locks < MaxLocks
    /\ p \in mlocked
    /\ mlocked' = mlocked \ {p}
    /\ locks' = locks + 1
    /\ Become(a, [Rest EXCEPT !.pc = "take", !.page = {p}])
    /\ UNCHANGED <<on, active, unev, shmLocked, user, nr, isolated, shm, scans>>

\* isolate_lru_page
IsolateLruPage(a) ==
    LET p == CHOOSE q \in act[a].page : TRUE IN
    /\ act[a].pc = "take"
    /\ IF on[p] \in Lists
         THEN /\ PutOn({p}, [q \in {p} |-> "none"])
              /\ Become(a, BeginPutback(act[a], p, "idle"))
         ELSE /\ UNCHANGED <<on, nr>>
              /\ Become(a, Rest)
    /\ UNCHANGED <<active, unev, mlocked, shmLocked, user, isolated, shm, scans, locks>>

----------------------------------------------------------------------------
(* SHM_LOCK and SHM_UNLOCK, and a page that loses its users.               *)

ShmLock ==
    /\ shm = "idle" /\ ~shmLocked /\ locks < MaxLocks
    /\ shmLocked' = TRUE /\ locks' = locks + 1
    /\ UNCHANGED <<on, active, unev, mlocked, user, nr, isolated, act, shm, scans>>

ShmUnlock ==
    /\ shm = "idle" /\ shmLocked
    /\ shmLocked' = FALSE /\ shm' = "move"
    /\ UNCHANGED <<on, active, unev, mlocked, user, nr, isolated, act, scans, locks>>

CheckMoveUnevictablePages ==
    LET S == {p \in FilePages : on[p] = "unevictable" /\ p \in unev /\ Evictable(p)} IN
    /\ shm = "move" /\ shm' = "idle"
    /\ PutOn(S, [p \in S |-> "inactive"])
    /\ unev' = unev \ S
    /\ UNCHANGED <<active, mlocked, shmLocked, user, isolated, act, scans, locks>>

\* unmap or truncation; the last reference takes the page off its list
DropPage(p) ==
    /\ p \in user /\ p \notin mlocked
    /\ \A a \in Lockers : p \notin act[a].page
    /\ user' = user \ {p}
    /\ IF (\A a \in Actors : p \notin InHand(a)) /\ on[p] \in Lists
         THEN PutOn({p}, [q \in {p} |-> "none"]) /\ unev' = unev \ {p} /\ active' = active \ {p}
         ELSE UNCHANGED <<on, nr, unev, active>>
    /\ UNCHANGED <<mlocked, shmLocked, isolated, act, shm, scans, locks>>

----------------------------------------------------------------------------

\* What an actor that has begun goes on to do by itself
Step(a) ==
    \/ Putback(a) \/ AddUnevictable(a) \/ Recheck(a) \/ EnoughLeft(a)
    \/ IsolateLruPages(a) \/ PutbackPages(a) \/ IsolateLruPage(a)
    \/ \E p \in Pages : \/ Cull(a, p) \/ Reclaim(a, p) \/ PutbackCull(a, p)
                        \/ \E b \in BOOLEAN : KeepPage(a, p, b)

Next ==
    \/ \E a \in Actors : Step(a) \/ ShrinkList(a) \/ WaitKilled(a)
    \/ \E a \in Actors, p \in Pages : Mlock(a, p) \/ Munlock(a, p)
    \/ \E p \in Pages : DropPage(p)
    \/ Drain \/ ShmLock \/ ShmUnlock \/ CheckMoveUnevictablePages

Spec == Init /\ [][Next]_vars

----------------------------------------------------------------------------
(* Properties.                                                             *)

\* The two halves of CountersExact
ListsCounted == \A l \in Lists, kd \in Kinds : nr[l][kd] = Cardinality(OnList(l, kd))

IsolatedCounted ==
    \A kd \in Kinds : isolated[kd] =
        FoldSet(LAMBDA a, n : n + (IF act[a].kind = kd THEN act[a].taken ELSE 0), 0, Reclaimers)

\* The counters shrink_lruvec, get_scan_count and too_many_isolated decide by say
\* how many pages there are, whatever the scans did with the pages they took: a
\* scan ends on its way out of shrink_page_list having freed, culled or kept
\* each of them, and NR_ISOLATED_* must come down by all it was raised by, or
\* direct reclaim waits for ever in shrink_inactive_list.
CountersExact == ListsCounted /\ IsolatedCounted

\* The pages that a has isolated: it alone may put them back
Isolated(a) == act[a].held \cup act[a].keep
               \cup (IF act[a].pc \in {"putback", "add"} THEN act[a].page ELSE {})

\* Every page is in one place: off the lists only while somebody who isolated it
\* holds it, in the hands of one of them, on no list once its last user and the
\* last of them are gone.  A page in no place would never be reclaimed again,
\* one in two places would be freed under somebody's hands.
OnePlace ==
    \A p \in Pages :
        LET holders == {a \in Actors : p \in Isolated(a)} IN
        /\ Cardinality(holders) <= 1
        /\ holders # {} => on[p] = "none"
        /\ on[p] = "none" => holders # {} \/ p \notin user
        /\ on[p] \in Lists => p \in user \/ \E a \in Actors : p \in InHand(a)

\* What BUG() of isolate_lru_pages and the VM_BUG_ONs of
\* check_move_unevictable_pages assert: a page on the active or inactive list is
\* not PG_unevictable, one on the unevictable list is, and is not PG_active, so
\* that page_lru() names the list the page is taken off, whoever put it there.
FlagsFitList ==
    \A p \in Pages : /\ on[p] \in {"active", "inactive"} => p \notin unev
                     /\ on[p] = "unevictable" => p \in unev /\ p \notin active

\* An evictable page on the unevictable list is about to be looked at: by the
\* task that put it there, by the one that unlocked it, or by SHM_UNLOCK.
\* putback_lru_page tests the page, moves it and tests again; munlock and
\* SHM_UNLOCK clear the flag first and look for the page then: whichever order
\* they come in, one of them finds it ("page's status can change while we move it").
NeverStranded ==
    \A p \in Pages : on[p] = "unevictable" /\ Evictable(p) =>
        \/ \E a \in Actors : p \in act[a].page /\ act[a].pc \in {"recheck", "take"}
        \/ p \in FilePages /\ shm = "move"
=============================================================================
