------------------------------- MODULE Kswapd -------------------------------
(***************************************************************************)
(* Page reclaim of one memory node: the daemon kswapd, the allocators that *)
(* reclaim for themselves, and the two wait queues on which they wait for  *)
(* each other:                                                             *)
(*                                                                         *)
(*   kswapd_wait      kswapd sleeps here until wakeup_kswapd or            *)
(*                    pfmemalloc_watermark_ok wakes it;                    *)
(*   pfmemalloc_wait  allocators sleep here while fewer than half of the   *)
(*                    reserve is free, until kswapd wakes them.            *)
(*                                                                         *)
(* A zone is three numbers: pages free, pages on the lists reclaim scans,  *)
(* and the rest (in use and not reclaimable).  Which page a scan takes is  *)
(* the subject of LruLists; here a scan frees any number of the pages it   *)
(* looks at.  A high-order request also needs a zone with an unbroken      *)
(* block of free pages; the page allocator and compaction, which decide    *)
(* about those, are external.                                              *)
(***************************************************************************)
EXTENDS Integers, FiniteSets, FiniteSetsExt

CONSTANTS
    Tasks,          \* allocating tasks
    NrZones,        \* zones of the node are 0 .. NrZones - 1
    ZoneNormal,     \* the highest zone that counts for the reserve
    Managed,        \* pages of a zone
    MinMark, LowMark, HighMark,     \* its three watermarks
    Pinned,         \* zones all of whose used pages are pinned, never on a list
    DefPriority,    \* DEF_PRIORITY: the priority a scan starts with
    ScanRatio,      \* the 6 of zone_reclaimable
    Cluster,        \* SWAP_CLUSTER_MAX
    CompactPages,   \* 2UL << order, for the one high order there is
    Requests,       \* <<order, zone index>> of the allocations tasks make
    MaxOps          \* bound: allocations begun and pages freed

Zones  == 0 .. NrZones - 1
Top    == NrZones - 1
Orders == {0, 1}    \* 1 stands for an order above PAGE_ALLOC_COSTLY_ORDER

ASSUME ZonesAssumption == NrZones \in Nat \ {0} /\ ZoneNormal \in Zones
ASSUME RequestsAssumption == Requests \subseteq Orders \X Zones
ASSUME MarksAssumption ==
    \A z \in Zones : /\ {Managed[z], MinMark[z], LowMark[z], HighMark[z]} \subseteq Nat
                     /\ MinMark[z] <= LowMark[z] /\ LowMark[z] <= HighMark[z]
ASSUME ScanAssumption ==
    /\ {DefPriority, ScanRatio, CompactPages} \subseteq Nat
    /\ Cluster \in Nat \ {0}

VARIABLES
    free,           \* NR_FREE_PAGES of a zone
    lru,            \* zone_reclaimable_pages
    scanned,        \* zone->pages_scanned
    dead,           \* zones with all_unreclaimable set
    frag,           \* zones whose free pages are too scattered for the high order
    max_order,      \* pgdat->kswapd_max_order
    classzone,      \* pgdat->classzone_idx
    kwait,          \* kswapd is on kswapd_wait, not woken since
    k,              \* kswapd's registers
    waiting,        \* tasks on pfmemalloc_wait, not woken since
    task,           \* a task's registers
    ops             \* operations begun, up to MaxOps

zoneVars == <<free, lru, scanned, dead, frag>>
reqVars  == <<max_order, classzone>>
vars     == <<zoneVars, reqVars, kwait, k, waiting, task, ops>>

ScanCap(z) == ScanRatio * Managed[z]    \* bound on pages_scanned

Idle == [pc |-> "run", cz |-> Top, order |-> 0, fs |-> TRUE,
         prio |-> DefPriority]

\* kswapd_run starts kswapd on a node whose pages were handed out in any way
Init ==
    /\ free \in [Zones -> 0 .. Max({Managed[z] : z \in Zones})]
    /\ lru \in [Zones -> 0 .. Max({Managed[z] : z \in Zones})]
    /\ \A z \in Zones : free[z] + lru[z] <= Managed[z] /\ (z \in Pinned => lru[z] = 0)
    /\ scanned = [z \in Zones |-> 0]
    /\ dead = {}
    /\ frag \in {{}, Zones}
    /\ max_order = 0
    /\ classzone = Top
    /\ kwait = FALSE
    /\ k = [pc |-> "top", order |-> 0, cz |-> Top, newOrder |-> 0, newCz |-> Top,
            balOrder |-> 0, balCz |-> Top, ord |-> 0, end |-> 0, i |-> 0,
            prio |-> DefPriority, got |-> 0, remaining |-> FALSE]
    /\ waiting = {}
    /\ task = [t \in Tasks |-> Idle]
    /\ ops = 0

----------------------------------------------------------------------------
(* Watermarks.                                                             *)

ZoneWatermarkOk(z, o, mark) == free[z] > mark /\ (o > 0 => z \notin frag)

\* COMPACT_SKIPPED: n free pages are too few for compaction to work with
CompactionSkipped(z, n) == n <= LowMark[z] + CompactPages

BalanceGap(z) == Min({LowMark[z], (Managed[z] + 99) \div 100})

ZoneBalanced(z, o, gap) ==
    /\ ZoneWatermarkOk(z, o, HighMark[z] + gap)
    /\ o > 0 => ~CompactionSkipped(z, free[z])

ManagedPages(S) == FoldSet(LAMBDA z, n : n + Managed[z], 0, S)

PgdatBalanced(o, cz) ==
    LET balanced == {z \in 0 .. cz : z \in dead \/ ZoneBalanced(z, o, 0)}
    IN  IF o > 0 THEN ManagedPages(balanced) >= ManagedPages(0 .. cz) \div 4
                 ELSE balanced = 0 .. cz

\* Mutant: no zone is ever given up
ZoneReclaimableAlways(seen, onLists) == TRUE

ZoneReclaimable(seen, onLists) == seen < onLists * ScanRatio

Reserve == FoldSet(LAMBDA z, n : n + MinMark[z], 0, 0 .. ZoneNormal)
FreeNormal == FoldSet(LAMBDA z, n : n + free[z], 0, 0 .. ZoneNormal)

PfOk == Reserve = 0 \/ FreeNormal > Reserve \div 2

\* Mutant: a throttled task does not wake kswapd
PfmemallocWatermarkOkQuiet == UNCHANGED <<reqVars, kwait>>

\* What pfmemalloc_watermark_ok does besides returning PfOk
PfmemallocWatermarkOk ==
    IF ~PfOk /\ kwait
      THEN /\ classzone' = Min({classzone, ZoneNormal})
           /\ kwait' = FALSE
           /\ UNCHANGED max_order
      ELSE UNCHANGED <<reqVars, kwait>>

----------------------------------------------------------------------------
(* The page allocator and its users, external.  A page that becomes free   *)
(* clears the zone's all_unreclaimable and pages_scanned.  Which zones are *)
(* fragmented is given at the start; only compaction mends it.             *)

TakePage(z, toLru) ==
    /\ free' = [free EXCEPT ![z] = @ - 1]
    /\ lru' = [lru EXCEPT ![z] = IF toLru THEN @ + 1 ELSE @]
    /\ UNCHANGED <<scanned, dead, frag>>

\* n pages of z become free, fromLru of them from the lists
GainPages(z, n, fromLru) ==
    /\ free' = [free EXCEPT ![z] = @ + n]
    /\ lru' = [lru EXCEPT ![z] = @ - fromLru]
    /\ scanned' = [scanned EXCEPT ![z] = 0]
    /\ dead' = dead \ {z}
    /\ UNCHANGED frag

InUse(z) == Managed[z] - free[z] - lru[z]

Begin == ops < MaxOps /\ ops' = ops + 1

\* Somebody gives back a page: unmap, exit, truncation
FreePage(z) ==
    /\ \/ InUse(z) > 0 /\ GainPages(z, 1, 0)
       \/ lru[z] > 0 /\ GainPages(z, 1, 1)
    /\ Begin
    /\ UNCHANGED <<reqVars, kwait, k, waiting, task>>

\* An allocation that may use the reserves: interrupts, the network, PF_MEMALLOC
AllocAtomic(z) ==
    /\ free[z] > 0
    /\ TakePage(z, FALSE)
    /\ Begin
    /\ UNCHANGED <<reqVars, kwait, k, waiting, task>>

\* get_page_from_freelist: the first zone of the zonelist that is above its mark
Usable(cz, o, mark) == {z \in 0 .. cz : ZoneWatermarkOk(z, o, mark[z])}

----------------------------------------------------------------------------
(* Scanning a zone: shrink_zone, with shrink_lruvec's share of the list.   *)

ScanTarget(z, prio, isKswapd) ==
    LET n == lru[z] \div (2 ^ prio)
    IN  IF n = 0 /\ isKswapd /\ z \in dead THEN Min({lru[z], Cluster}) ELSE n

\* The most pages shrink_zone can free: for a high-order request it goes on
\* for as long as rounds free something (should_continue_reclaim)
MostFreed(z, prio, isKswapd, o) ==
    LET n == ScanTarget(z, prio, isKswapd)
    IN  IF n > 0 /\ o > 0 THEN lru[z] ELSE n

\* The zones of S are scanned, r[z] pages of each freed
ShrinkZone(S, r, prio, isKswapd) ==
    LET gain == {z \in S : r[z] > 0} IN
    /\ free' = [z \in Zones |-> IF z \in S THEN free[z] + r[z] ELSE free[z]]
    /\ lru' = [z \in Zones |-> IF z \in S THEN lru[z] - r[z] ELSE lru[z]]
    /\ scanned' = [z \in Zones |->
                     IF z \in gain THEN 0
                     ELSE IF z \in S THEN Min({scanned[z] + ScanTarget(z, prio, isKswapd), ScanCap(z)})
                     ELSE scanned[z]]
    /\ dead' = dead \ gain
    /\ UNCHANGED frag

----------------------------------------------------------------------------
(* wakeup_kswapd and direct reclaim.                                       *)

Set(t, f) == task' = [task EXCEPT ![t] = f]

\* No zone is above its low mark: wakeup_kswapd for every zone of the zonelist
AllocSlow(t) ==
    /\ task[t].pc = "run"
    /\ \E req \in Requests : LET o == req[1]  cz == req[2] IN
         /\ Usable(cz, o, LowMark) = {}
         /\ max_order' = Max({max_order, o})
         /\ classzone' = IF max_order < o THEN Min({classzone, cz}) ELSE classzone
         /\ Set(t, [Idle EXCEPT !.pc = "retry", !.cz = cz, !.order = o])
    /\ kwait' = FALSE
    /\ Begin
    /\ UNCHANGED <<zoneVars, k, waiting>>

\* The allocator tries again, down to the lowest mark
Retry(t) ==
    LET ok == Usable(task[t].cz, task[t].order, MinMark) IN
    /\ task[t].pc = "retry"
    /\ IF ok # {}
         THEN /\ TakePage(Max(ok), Max(ok) \notin Pinned)
              /\ Set(t, Idle)
         ELSE /\ Set(t, [task[t] EXCEPT !.pc = "throttle"])
              /\ UNCHANGED zoneVars
    /\ UNCHANGED <<reqVars, kwait, k, waiting, ops>>

StartReclaim(t) == [task[t] EXCEPT !.pc = "pass", !.fs = TRUE]

\* throttle_direct_reclaim, up to the wait
ThrottleDirectReclaim(t) ==
    /\ task[t].pc = "throttle"
    /\ PfmemallocWatermarkOk
    /\ \E fs \in BOOLEAN :
         Set(t, IF PfOk THEN StartReclaim(t) ELSE [task[t] EXCEPT !.pc = "queue", !.fs = fs])
    /\ UNCHANGED <<zoneVars, k, waiting, ops>>

\* wait_event: prepare_to_wait ...
Enqueue(t) ==
    /\ task[t].pc = "queue"
    /\ waiting' = waiting \cup {t}
    /\ Set(t, [task[t] EXCEPT !.pc = "cond"])
    /\ UNCHANGED <<zoneVars, reqVars, kwait, k, ops>>

\* ... the condition, with its own wake-up of kswapd ...
Condition(t) ==
    /\ task[t].pc = "cond"
    /\ PfmemallocWatermarkOk
    /\ waiting' = IF PfOk THEN waiting \ {t} ELSE waiting
    /\ Set(t, IF PfOk THEN StartReclaim(t) ELSE [task[t] EXCEPT !.pc = "asleep"])
    /\ UNCHANGED <<zoneVars, k, ops>>

\* ... and schedule(), which returns when the task was woken
Woken(t) ==
    /\ task[t].pc = "asleep" /\ t \notin waiting
    /\ Set(t, [task[t] EXCEPT !.pc = "queue"])
    /\ UNCHANGED <<zoneVars, reqVars, kwait, k, waiting, ops>>

\* A caller without __GFP_FS waits for at most a second
ThrottleTimeout(t) ==
    /\ task[t].pc = "asleep" /\ ~task[t].fs
    /\ waiting' = waiting \ {t}
    /\ Set(t, StartReclaim(t))
    /\ UNCHANGED <<zoneVars, reqVars, kwait, k, ops>>

\* A fatal signal: try_to_free_pages returns 1 and the task exits
ThrottleKilled(t) ==
    /\ task[t].pc = "asleep"
    /\ waiting' = waiting \ {t}
    /\ Set(t, Idle)
    /\ UNCHANGED <<zoneVars, reqVars, kwait, k, ops>>

\* compaction_deferred is external: either answer
CompactionReady(z, o, deferred) ==
    /\ o > 0
    /\ ZoneWatermarkOk(z, 0, HighMark[z] + BalanceGap(z) + CompactPages)
    /\ deferred \/ ~CompactionSkipped(z, free[z])

\* shrink_zones: the zones it scans, and those it leaves to compaction
Candidates(f) == {z \in 0 .. f.cz : z \notin dead \/ f.prio = DefPriority}

\* 0 sends the allocator to the OOM killer, anything else makes it try again
MayRetry(got, aborted, f) == got > 0 \/ aborted \/ ~(0 .. f.cz \subseteq dead')

\* One pass of do_try_to_free_pages: shrink_zones and shrink_slab
Pass(t) ==
    LET f == task[t] IN
    /\ f.pc = "pass"
    /\ \E deferred \in BOOLEAN :
         LET ready == {z \in Candidates(f) : CompactionReady(z, f.order, deferred)}
             S == Candidates(f) \ ready
         IN  \E r \in [S -> 0 .. Max({0} \cup {lru[z] : z \in S})] :
               LET got == FoldSet(LAMBDA z, n : n + r[z], 0, S) IN
               /\ \A z \in S : r[z] <= MostFreed(z, f.prio, FALSE, f.order)
               /\ ShrinkZone(S, r, f.prio, FALSE)
               /\ Set(t, IF got >= Cluster \/ f.prio = 0
                           THEN IF MayRetry(got, ready # {}, f)
                                  THEN [f EXCEPT !.pc = "retry", !.prio = DefPriority]
                                  ELSE Idle
                           ELSE [f EXCEPT !.prio = @ - 1])
    /\ UNCHANGED <<reqVars, kwait, k, waiting, ops>>

----------------------------------------------------------------------------
(* kswapd.                                                                 *)

\* Work on what was asked for, or try to sleep.  A register that is written
\* before it is read again goes back to its first value.
Decide(r) ==
    IF r.order < r.newOrder \/ r.cz > r.newCz
      THEN [r EXCEPT !.pc = "start", !.order = r.newOrder, !.cz = r.newCz, !.balOrder = 0]
      ELSE [r EXCEPT !.pc = "presleep", !.order = 0, !.cz = Top, !.newOrder = 0, !.newCz = Top]

KswapdTop ==
    /\ k.pc = "top"
    /\ k' = IF k.balCz >= k.newCz /\ k.balOrder = k.newOrder
              THEN [k EXCEPT !.pc = "reset", !.newOrder = max_order, !.newCz = classzone]
              ELSE Decide(k)
    /\ UNCHANGED <<zoneVars, reqVars, kwait, waiting, task, ops>>

\* The request is cleared after it was read: one made in between is lost
KswapdReset ==
    /\ k.pc = "reset"
    /\ max_order' = 0 /\ classzone' = Top
    /\ k' = Decide(k)
    /\ UNCHANGED <<zoneVars, kwait, waiting, task, ops>>

PrepareToWait ==
    /\ k.pc \in {"presleep", "again"}
    /\ kwait' = TRUE
    /\ k' = IF k.pc = "presleep" THEN [k EXCEPT !.pc = "check1", !.remaining = FALSE]
                                 ELSE [k EXCEPT !.pc = "check2"]
    /\ UNCHANGED <<zoneVars, reqVars, waiting, task, ops>>

\* Mutant: they are left to the checks of balance_pgdat
StillAsleepAll == waiting

\* prepare_kswapd_sleep wakes the throttled tasks, unless kswapd was woken
\* before the time of its short sleep was over
StillAsleep == IF k.remaining THEN waiting ELSE {}

\* prepare_kswapd_sleep before the short sleep
FirstCheck ==
    /\ k.pc = "check1"
    /\ waiting' = StillAsleep
    /\ k' = [k EXCEPT !.pc = IF PgdatBalanced(k.balOrder, k.balCz) THEN "short" ELSE "check2"]
    /\ UNCHANGED <<zoneVars, reqVars, kwait, task, ops>>

\* schedule_timeout returns, woken or not, and kswapd leaves the queue
ShortSleepEnds ==
    /\ k.pc = "short"
    /\ k' = [k EXCEPT !.pc = "again", !.remaining = ~kwait]
    /\ kwait' = FALSE
    /\ UNCHANGED <<zoneVars, reqVars, waiting, task, ops>>

\* prepare_kswapd_sleep once more
SecondCheck ==
    /\ k.pc = "check2"
    /\ waiting' = StillAsleep
    /\ IF ~k.remaining /\ PgdatBalanced(k.balOrder, k.balCz)
         THEN k' = [k EXCEPT !.pc = "sleep"] /\ UNCHANGED kwait
         ELSE k' = [k EXCEPT !.pc = "read"] /\ kwait' = FALSE
    /\ UNCHANGED <<zoneVars, reqVars, task, ops>>

KswapdWoken ==
    /\ k.pc = "sleep" /\ ~kwait
    /\ k' = [k EXCEPT !.pc = "read"]
    /\ UNCHANGED <<zoneVars, reqVars, kwait, waiting, task, ops>>

\* After the sleep: read the request, then clear it
ReadRequest ==
    /\ k.pc = "read"
    /\ k' = [k EXCEPT !.pc = "clear", !.order = max_order, !.newOrder = max_order,
                      !.cz = classzone, !.newCz = classzone, !.balOrder = 0,
                      !.balCz = Top, !.remaining = FALSE]
    /\ UNCHANGED <<zoneVars, reqVars, kwait, waiting, task, ops>>

ClearRequest ==
    /\ k.pc = "clear"
    /\ max_order' = 0 /\ classzone' = Top
    /\ k' = [k EXCEPT !.pc = "start"]
    /\ UNCHANGED <<zoneVars, kwait, waiting, task, ops>>

LoopAgain(r) == [r EXCEPT !.pc = "find", !.prio = DefPriority, !.got = 0]

StartBalance ==
    /\ k.pc = "start"
    /\ k' = LoopAgain([k EXCEPT !.balCz = k.cz, !.ord = k.order, !.end = 0])
    /\ UNCHANGED <<zoneVars, reqVars, kwait, waiting, task, ops>>

Skipped(z) == z \in dead /\ k.prio # DefPriority

\* The highest zone that needs scanning
FindEndZone ==
    LET low == {z \in Zones : ~Skipped(z) /\ ~ZoneBalanced(z, k.ord, 0)} IN
    /\ k.pc = "find"
    /\ k' = IF low = {} THEN [k EXCEPT !.pc = "balanced"]
                        ELSE [k EXCEPT !.pc = "zone", !.end = Max(low), !.i = 0]
    /\ UNCHANGED <<zoneVars, reqVars, kwait, waiting, task, ops>>

TestOrder(z) == IF k.ord > 0 /\ ~CompactionSkipped(z, free[z]) THEN 0 ELSE k.ord

\* What follows a zone: the next one up to end, then the checks of the pass
ZoneDone(r) ==
    IF r.i < r.end THEN [r EXCEPT !.pc = "zone", !.i = @ + 1] ELSE [r EXCEPT !.pc = "check"]

\* A zone given up for dead lowers the end when it is the last one
AfterZone(r, isDead) ==
    ZoneDone(IF isDead /\ r.end > 0 /\ r.end = r.i THEN [r EXCEPT !.end = @ - 1] ELSE r)

\* shrink_zone and shrink_slab for one zone; busy: shrink_slab found the
\* shrinkers locked, or freed objects, and returned more than 0
BalanceZone(busy) ==
    LET z == k.i IN
    /\ k.pc = "zone"
    /\ ~Skipped(z)
    /\ ~ZoneBalanced(z, TestOrder(z), BalanceGap(z))
    /\ \E r \in 0 .. MostFreed(z, k.prio, TRUE, k.ord) :
         LET n == ScanTarget(z, k.prio, TRUE)
             seen == IF r > 0 THEN 0 ELSE Min({scanned[z] + n, ScanCap(z)})
             dies == ~busy /\ ~ZoneReclaimable(seen, lru[z] - r)
         IN  /\ free' = [free EXCEPT ![z] = @ + r]
             /\ lru' = [lru EXCEPT ![z] = @ - r]
             /\ scanned' = [scanned EXCEPT ![z] = seen]
             /\ dead' = IF dies THEN dead \cup {z} ELSE IF r > 0 THEN dead \ {z} ELSE dead
             /\ k' = AfterZone([k EXCEPT !.got = Min({@ + r, Cluster})], z \in dead')
    /\ UNCHANGED <<frag, reqVars, kwait, waiting, task, ops>>

PassZone ==
    LET z == k.i IN
    /\ k.pc = "zone"
    /\ \/ Skipped(z) /\ k' = ZoneDone(k)
       \/ /\ ~Skipped(z) /\ ZoneBalanced(z, TestOrder(z), BalanceGap(z))
          /\ k' = AfterZone(k, z \in dead)
    /\ UNCHANGED <<zoneVars, reqVars, kwait, waiting, task, ops>>

\* The end of a pass: wake the throttled, stop when balanced or when enough was freed
PassCheck ==
    /\ k.pc = "check"
    /\ waiting' = IF PfOk THEN {} ELSE waiting
    /\ k' = IF PgdatBalanced(k.ord, k.balCz) THEN [k EXCEPT !.pc = "balanced"]
            ELSE IF k.got >= Cluster THEN LoopAgain(k)
            ELSE IF k.prio = 0 THEN LoopAgain([k EXCEPT !.ord = 0])
            ELSE [k EXCEPT !.pc = "find", !.prio = @ - 1]
    /\ UNCHANGED <<zoneVars, reqVars, kwait, task, ops>>

\* compact_pgdat when no zone meets the order, and back to the main loop
Balanced ==
    LET meets == {z \in 0 .. k.end : ZoneWatermarkOk(z, k.ord, LowMark[z])} IN
    /\ k.pc = "balanced"
    /\ frag' \in IF k.ord > 0 /\ meets = {} THEN {frag, {}} ELSE {frag}
    /\ k' = [k EXCEPT !.pc = "top", !.balOrder = k.ord, !.balCz = k.end, !.ord = 0,
                      !.end = 0, !.i = 0, !.prio = DefPriority, !.got = 0,
                      !.remaining = FALSE]
    /\ UNCHANGED <<free, lru, scanned, dead, reqVars, kwait, waiting, task, ops>>

----------------------------------------------------------------------------

KswapdQuiet ==
    \/ KswapdTop \/ KswapdReset \/ PrepareToWait \/ FirstCheck \/ ShortSleepEnds
    \/ SecondCheck \/ KswapdWoken \/ ReadRequest \/ ClearRequest \/ StartBalance
    \/ FindEndZone \/ PassZone \/ BalanceZone(FALSE) \/ PassCheck \/ Balanced

KswapdNext == KswapdQuiet \/ BalanceZone(TRUE)

\* What a task that has begun to reclaim goes on to do by itself
TaskNext(t) ==
    \/ Retry(t) \/ ThrottleDirectReclaim(t) \/ Enqueue(t)
    \/ Condition(t) \/ Woken(t) \/ Pass(t)

Next ==
    \/ KswapdNext
    \/ \E t \in Tasks : \/ TaskNext(t) \/ AllocSlow(t)
                        \/ ThrottleTimeout(t) \/ ThrottleKilled(t)
    \/ \E z \in Zones : FreePage(z) \/ AllocAtomic(z)

Spec == Init /\ [][Next]_vars

\* The scheduler runs whoever is runnable; nothing makes anyone allocate or free
FairSpec == Spec /\ WF_vars(KswapdNext) /\ \A t \in Tasks : WF_vars(TaskNext(t))

----------------------------------------------------------------------------
(* Properties.                                                             *)

Throttled(t) == task[t].pc \in {"queue", "cond", "asleep"}

TypeOK ==
    /\ \A z \in Zones : free[z] >= 0 /\ lru[z] >= 0 /\ InUse(z) >= 0
    /\ dead \subseteq Zones /\ frag \subseteq Zones
    /\ max_order \in Orders /\ classzone \in Zones
    /\ waiting \subseteq Tasks

\* kswapd never sleeps for good while a task sleeps that only it can wake:
\* prepare_kswapd_sleep wakes pfmemalloc_wait after it has put kswapd on its own
\* queue, and a task that goes to sleep there looks at kswapd_wait after it has
\* put itself on pfmemalloc_wait.  Neither queue's lock covers the other.
NoSleepingPair ==
    k.pc = "sleep" /\ kwait => \A t \in waiting : task[t].pc # "asleep"

\* throttle_direct_reclaim holds a task back for only as long as the reserve is
\* low: with the reserve restored, and whoever restored it, kswapd comes round
\* to waking it, unless the reserve has run low again by then.
Released == \A t \in Tasks : Throttled(t) ~> (~Throttled(t) \/ ~PfOk)

\* When nothing allocates or frees any more, kswapd goes to sleep, even on a
\* node it cannot balance: the zones it cannot reclaim from are given up
\* (all_unreclaimable), and a high order it cannot meet is dropped.  It may spin
\* only while shrink_slab keeps claiming progress.
KswapdRests == <>[][KswapdQuiet]_vars => <>[](k.pc = "sleep")
=============================================================================
