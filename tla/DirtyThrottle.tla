--------------------------- MODULE DirtyThrottle ---------------------------
(***************************************************************************)
(* How tasks that dirty pages of one backing device are slowed down:       *)
(* balance_dirty_pages_ratelimited decides when a task takes stock,        *)
(* balance_dirty_pages makes it sleep, the control functions compute how   *)
(* long from the position of the dirty pages between the thresholds and    *)
(* from the measured speed of the device; throttle_vm_writeout holds page  *)
(* reclaim back in the same way.                                           *)
(*                                                                         *)
(* Pages are counted, not named: those of the device that are dirty or     *)
(* under writeback, and those of all other devices.  The rates are         *)
(* computed as the code does; what they are computed from (pages dirtied   *)
(* and written in an interval, the device's share of the completions, the  *)
(* time a task has been away) is any of a few values.                      *)
(*                                                                         *)
(* External: the flusher, I/O, the exit of a task and the memory that the  *)
(* thresholds are a percentage of.  One CPU.                               *)
(***************************************************************************)
EXTENDS Integers, FiniteSets, FiniteSetsExt

CONSTANTS
    Tasks,          \* tasks that dirty pages of the device
    Reclaimers,     \* tasks in page reclaim
    DirtyRatio, BackgroundRatio,    \* vm_dirty_ratio, dirty_background_ratio
    MinRatio, MaxRatio,             \* of the device
    Avails,         \* what global_dirtyable_memory may return
    HZ,
    FollowShift,    \* 5, in update_dirty_limit
    PollThresh,     \* DIRTY_POLL_THRESH
    RatelimitPages, \* ratelimit_pages
    ExceededPages,  \* 32 >> (PAGE_SHIFT - 10)
    InitPause,      \* nr_dirtied_pause of a new task
    InitRate,       \* INIT_BW
    StatError,      \* bdi_stat_error
    Fractions,      \* <<numerator, denominator>> of the writeout completions
    Periods,        \* <<elapsed, dirtied, written>> since the rates were updated
    Thinks,         \* jiffies since the task was paused last
    LaptopMode,
    MostPages,      \* the largest nr_dirtied_pause these rates lead to
    MaxUpdates, MaxKills    \* bounds

ASSUME RatiosAssumption ==
    /\ {DirtyRatio, BackgroundRatio, MinRatio, MaxRatio} \subseteq 0 .. 100
    /\ MinRatio <= MaxRatio
ASSUME RatesAssumption == HZ \in Nat \ {0} /\ InitRate \in Nat \ {0}

VARIABLES
    avail,      \* the memory the thresholds are a percentage of
    dirty, wb,  \* BDI_RECLAIMABLE and BDI_WRITEBACK of the device
    other,      \* dirty pages of the other devices
    limit,      \* global_dirty_limit
    rate,       \* the device's write_bandwidth, its average, the two ratelimits
    exceeded,   \* bdi->dirty_exceeded
    flusher,    \* writeback_in_progress
    cpu,        \* bdp_ratelimits and dirty_throttle_leaks
    task, vm,   \* registers
    updates, kills

pages == <<avail, dirty, wb, other>>
vars  == <<pages, limit, rate, exceeded, flusher, cpu, task, vm, updates, kills>>

\* A task's nr_dirtied and nr_dirtied_pause; pages_dirtied and what it found in
\* its last look, as far as it is used after the sleep
NewTask == [pc |-> "run", nr |-> 0, np |-> InitPause, pages |-> 0, next |-> 0,
            slow |-> FALSE, idle |-> FALSE, over |-> FALSE, much |-> FALSE]

Init ==
    /\ avail \in Avails
    /\ dirty = 0 /\ wb = 0
    /\ limit = (DirtyRatio * avail) \div 100
    /\ other \in {0, limit}     \* another device may be stuck with all it could get
    /\ rate = [bw |-> InitRate, avg |-> InitRate, rl |-> InitRate, brl |-> InitRate]
    /\ exceeded = FALSE /\ flusher = FALSE
    /\ cpu = [rate |-> 0, leaks |-> 0]
    /\ task = [t \in Tasks |-> NewTask]
    /\ vm = [r \in Reclaimers |-> "run"]
    /\ updates = 0 /\ kills = 0

----------------------------------------------------------------------------
(* Thresholds.                                                             *)

Unit == 1024    \* 1 << RATELIMIT_CALC_SHIFT

AtLeast(a, b) == IF a < b THEN b ELSE a
AtMost(a, b)  == IF a > b THEN b ELSE a
Ilog2(n) == IF n = 0 THEN -1 ELSE CHOOSE k \in 0 .. 30 : 2 ^ k <= n /\ n \div 2 < 2 ^ k
RoundupPow2(n) == IF 2 ^ Ilog2(n) = n THEN n ELSE 2 ^ (Ilog2(n) + 1)

\* global_dirty_limits; boosted: PF_LESS_THROTTLE and real-time tasks
Thresh == (DirtyRatio * avail) \div 100
Background ==
    LET bg == (BackgroundRatio * avail) \div 100
    IN  IF bg >= Thresh THEN Thresh \div 2 ELSE bg

Freerun == (Thresh + Background) \div 2
HardLimit == AtLeast(Thresh, limit)

Reclaimable == dirty + other
NrDirty == Reclaimable + wb
BdiDirty == dirty + wb

BdiDirtyLimit(frac) ==
    LET share == ((((Thresh * (100 - MinRatio)) \div 100) * frac[1]) \div frac[2])
                 + (Thresh * MinRatio) \div 100
    IN  AtMost(share, (Thresh * MaxRatio) \div 100)

----------------------------------------------------------------------------
(* The control functions.  lim stands for global_dirty_limit, r for the    *)
(* device's rates.                                                         *)

\* Division of a negative number truncates
DivS(a, b) == IF a < 0 THEN -((-a) \div b) ELSE a \div b

\* Mutant: the error with the wrong sign
GlobalRatioPositive(nr, hard, setpoint) ==
    LET x == DivS((nr - setpoint) * Unit, hard - setpoint + 1)
    IN  (((x * x) \div Unit) * x) \div Unit + Unit

\* The third order polynomial of the global control line
GlobalRatio(nr, hard, setpoint) ==
    LET x == DivS((setpoint - nr) * Unit, hard - setpoint + 1)
    IN  (((x * x) \div Unit) * x) \div Unit + Unit

\* The device's control line.  thresh - bdi_thresh + 8 * write_bw is unsigned:
\* below 0 it wraps to a span so large that the line is almost flat.
BdiRatio(pos, setpoint, bt, bdiDirty, bw) ==
    LET x == (bt * 65536) \div (Thresh + 1)
        bdiSetpoint == (setpoint * x) \div 65536
        base == Thresh - bt + 8 * bw
        span == (base * x) \div 65536
    IN  IF base < 0 THEN (IF bdiDirty + 1 > bdiSetpoint THEN AtLeast(pos - 1, 0) ELSE pos)
        ELSE IF bdiDirty < bdiSetpoint + span - span \div 4
          THEN (pos * (bdiSetpoint + span - bdiDirty)) \div (span + 1)
          ELSE pos \div 4

\* bdi reserve area: a device with few dirty pages is not starved
ReserveRatio(pos, bt, bdiDirty) ==
    LET half == bt \div 2
    IN  IF bdiDirty >= half THEN pos
        ELSE IF bdiDirty > half \div 8 THEN (pos * half) \div bdiDirty
        ELSE pos * 8

PositionRatio(nr, bdiThresh, bdiDirty, bw, lim) ==
    LET hard == AtLeast(Thresh, lim)
        setpoint == (Freerun + hard) \div 2
        bt == AtLeast(AtMost(bdiThresh, Thresh), (hard - nr) \div 8)
    IN  IF nr >= hard THEN 0
        ELSE ReserveRatio(BdiRatio(GlobalRatio(nr, hard, setpoint), setpoint, bt, bdiDirty, bw),
                          bt, bdiDirty)

\* update_dirty_limit: up in one step, down slowly and never below the dirty pages
UpdateDirtyLimit(nr) ==
    LET target == AtLeast(Thresh, nr)
    IN  IF limit < Thresh THEN Thresh
        ELSE IF limit > target THEN limit - (limit - target) \div 2 ^ FollowShift
        ELSE limit

\* bdi_update_write_bandwidth
WriteBandwidth(r, elapsed, written) ==
    LET period == RoundupPow2(3 * HZ)
        bw == (written * HZ + r.bw * (period - elapsed)) \div period
    IN  IF elapsed > period
          THEN [r EXCEPT !.bw = (written * HZ) \div elapsed, !.avg = (written * HZ) \div elapsed]
          ELSE [r EXCEPT !.bw = bw,
                         !.avg = IF r.avg > r.bw /\ r.bw >= bw THEN @ - (@ - r.bw) \div 8
                                 ELSE IF r.avg < r.bw /\ r.bw <= bw THEN @ + (r.bw - @) \div 8
                                 ELSE @]

\* bdi_update_dirty_ratelimit.  A shift by 64 or more takes its count modulo 64.
DirtyRatelimit(r, nr, pos, lim, elapsed, dirtied) ==
    LET setpoint == (Freerun + AtLeast(Thresh, lim)) \div 2
        dirtyRate == (dirtied * HZ) \div elapsed
        taskRate == (r.rl * pos) \div Unit + 1
        balanced == AtMost((taskRate * r.avg) \div (dirtyRate + 1 - (dirtyRate % 2)), r.avg)
        low == AtMost(r.brl, AtMost(balanced, taskRate))
        high == AtLeast(r.brl, AtLeast(balanced, taskRate))
        gap == IF nr < setpoint THEN AtLeast(low - r.rl, 0) ELSE AtLeast(r.rl - high, 0)
        shift == (r.rl \div (2 * gap + 1)) % 64
        step == (gap \div 2 ^ AtMost(shift, 30) + 7) \div 8
    IN  [r EXCEPT !.rl = AtLeast(IF @ < balanced THEN @ + step ELSE @ - step, 1),
                  !.brl = balanced]

\* bdi_max_pause
MaxPauseOf(r, bdiDirty) ==
    AtMost(bdiDirty \div (1 + r.avg \div RoundupPow2(1 + HZ \div 8)) + 1, AtLeast(HZ \div 5, 1))

\* bdi_min_pause: the shortest pause that is slept, and the next nr_dirtied_pause
MinPause(r, maxPause, taskRate) ==
    LET more == AtLeast(Ilog2(r.avg) - Ilog2(r.rl), 0)
        t1 == AtMost(AtLeast(1, HZ \div 100) + (more * (10 * HZ)) \div 1024, 1 + maxPause \div 2)
        p1 == (r.rl * t1) \div RoundupPow2(HZ)
        p2 == (r.rl * maxPause) \div RoundupPow2(HZ)
        first == IF p1 >= PollThresh THEN [t |-> t1, n |-> p1]
                 ELSE IF p2 > PollThresh
                   THEN [t |-> (HZ * PollThresh) \div r.rl, n |-> PollThresh]
                   ELSE [t |-> maxPause, n |-> p2]
        last == IF (HZ * first.n) \div (taskRate + 1) > maxPause
                  THEN [t |-> maxPause, n |-> (taskRate * maxPause) \div RoundupPow2(HZ)]
                  ELSE first
    IN  [n |-> last.n, pause |-> IF last.n >= PollThresh THEN 1 + last.t \div 2 ELSE last.t]

\* dirty_poll_interval
PollInterval(nr) == IF Thresh > nr THEN 2 ^ (Ilog2(Thresh - nr) \div 2) ELSE 1

----------------------------------------------------------------------------
(* A task dirties a page and takes stock now and then.                     *)

Become(t, r) == task' = [task EXCEPT ![t] = r]

\* account_page_dirtied
Dirty(t) ==
    /\ task[t].pc = "run"
    /\ dirty' = dirty + 1
    /\ cpu' = [cpu EXCEPT !.rate = @ + 1]
    /\ Become(t, [task[t] EXCEPT !.pc = "limit", !.nr = @ + 1])
    /\ UNCHANGED <<avail, wb, other, limit, rate, exceeded, flusher, vm, updates, kills>>

\* What a task picks up of what exited tasks left behind
PickedUp(nr, ratelimit) == IF nr < ratelimit THEN AtMost(cpu.leaks, ratelimit - nr) ELSE 0

\* balance_dirty_pages_ratelimited
Ratelimited(t) ==
    LET r == task[t]
        asked == IF exceeded THEN AtMost(r.np, ExceededPages) ELSE r.np
        enough == r.nr >= asked
        forced == ~enough /\ cpu.rate >= RatelimitPages
        ratelimit == IF forced THEN 0 ELSE asked
        picked == PickedUp(r.nr, ratelimit)
        nr == r.nr + picked
    IN
    /\ r.pc = "limit"
    /\ cpu' = [rate |-> IF enough \/ forced THEN 0 ELSE cpu.rate, leaks |-> cpu.leaks - picked]
    /\ Become(t, IF nr >= ratelimit THEN [r EXCEPT !.pc = "balance", !.nr = nr, !.pages = nr,
                                                   !.over = FALSE]
                                    ELSE [r EXCEPT !.pc = "run", !.nr = nr])
    /\ UNCHANGED <<pages, limit, rate, exceeded, flusher, vm, updates, kills>>

\* The first test of the loop: nothing to do below the middle of the thresholds
Freeruns(t) ==
    /\ task[t].pc = "balance" /\ NrDirty <= Freerun
    /\ Become(t, [task[t] EXCEPT !.pc = "end", !.nr = 0, !.np = PollInterval(NrDirty),
                                 !.much = (Reclaimable > Background)])
    /\ UNCHANGED <<pages, limit, rate, exceeded, flusher, cpu, vm, updates, kills>>

\* bdi_update_bandwidth: the rates from the old limit and share, then the speed
Updated(u, bdiThresh, lim) ==
    LET pos == PositionRatio(NrDirty, bdiThresh, BdiDirty, rate.avg, lim)
    IN  WriteBandwidth(DirtyRatelimit(rate, NrDirty, pos, lim, u[1], u[2]), u[1], u[3])

\* What a task does with its pause: r is its registers, rt the device's rates
AfterLook(r, rt, pos, think) ==
    LET taskRate == (rt.rl * pos) \div Unit
        most == MaxPauseOf(rt, BdiDirty)
        min == MinPause(rt, most, taskRate)
        period == (HZ * r.pages) \div taskRate
        sleep == [r EXCEPT !.pc = "sleep", !.next = min.n, !.slow = (taskRate = 0)]
    IN  IF taskRate = 0 THEN sleep
        ELSE IF period - think >= min.pause THEN sleep
        ELSE IF period > 0 \/ period - think < -HZ THEN [r EXCEPT !.pc = "end", !.nr = 0]
        ELSE [r EXCEPT !.pc = "end", !.np = IF @ <= r.pages THEN @ + r.pages ELSE @]

\* One look at the counters, up to the sleep
Balance(t) ==
    /\ task[t].pc = "balance" /\ NrDirty > Freerun
    /\ flusher' = TRUE
    /\ \E frac \in Fractions, think \in Thinks :
       LET bdiThresh == BdiDirtyLimit(frac)
           over == BdiDirty > bdiThresh /\ NrDirty > Thresh
           r == [task[t] EXCEPT !.over = over, !.much = (Reclaimable > Background),
                                !.idle = (BdiDirty <= StatError)]
       IN
       /\ exceeded' = (exceeded \/ over)
       /\ \/ UNCHANGED <<limit, rate, updates>>
          \/ /\ updates < MaxUpdates /\ updates' = updates + 1
             /\ \E u \in Periods, g \in BOOLEAN :
                   /\ limit' = IF g /\ Thresh > 0 THEN UpdateDirtyLimit(NrDirty) ELSE limit
                   /\ rate' = IF Thresh > 0 THEN Updated(u, bdiThresh, limit')
                                            ELSE WriteBandwidth(rate, u[1], u[3])
       /\ Become(t, AfterLook(r, rate',
                              PositionRatio(NrDirty, bdiThresh, BdiDirty, rate'.avg, limit'), think))
    /\ UNCHANGED <<pages, cpu, vm, kills>>

\* Mutant: who could not be given a rate looks again whatever the device has
WakeStubborn(t) ==
    LET r == [task[t] EXCEPT !.nr = 0, !.np = task[t].next, !.next = 0] IN
    /\ task[t].pc = "sleep"
    /\ IF r.slow THEN Become(t, [r EXCEPT !.pc = "balance", !.slow = FALSE])
                 ELSE Become(t, [r EXCEPT !.pc = "end", !.idle = FALSE])
    /\ UNCHANGED <<pages, limit, rate, exceeded, flusher, cpu, vm, updates, kills>>

\* Mutant: one pause is enough for everybody
WakeOnce(t) ==
    /\ task[t].pc = "sleep"
    /\ Become(t, [task[t] EXCEPT !.pc = "end", !.nr = 0, !.np = task[t].next, !.next = 0,
                                 !.slow = FALSE, !.idle = FALSE])
    /\ UNCHANGED <<pages, limit, rate, exceeded, flusher, cpu, vm, updates, kills>>

\* io_schedule_timeout returns, because of a signal perhaps.  Who could not be
\* given a rate looks again, unless the device has next to no dirty pages.
Wake(t) ==
    LET r == [task[t] EXCEPT !.nr = 0, !.np = task[t].next, !.next = 0] IN
    /\ task[t].pc = "sleep"
    /\ \/ ~(r.slow /\ ~r.idle) /\ Become(t, [r EXCEPT !.pc = "end", !.slow = FALSE, !.idle = FALSE])
       \/ r.slow /\ ~r.idle /\ Become(t, [r EXCEPT !.pc = "balance", !.slow = FALSE])
    /\ UNCHANGED <<pages, limit, rate, exceeded, flusher, cpu, vm, updates, kills>>

\* After the loop: dirty_exceeded is cleared, background writeback started, on
\* what the task saw before it slept
BalanceEnds(t) ==
    LET r == task[t] IN
    /\ r.pc = "end"
    /\ exceeded' = (exceeded /\ r.over)
    /\ flusher' = (flusher \/ (~LaptopMode /\ r.much))
    /\ Become(t, [r EXCEPT !.pc = "run", !.pages = 0, !.slow = FALSE, !.idle = FALSE,
                           !.over = FALSE, !.much = FALSE])
    /\ UNCHANGED <<pages, limit, rate, cpu, vm, updates, kills>>

\* A task exits: what it dirtied since its last look is charged to others.  A
\* new task takes its place.
Exit(t) ==
    /\ task[t].pc = "run"
    /\ cpu' = [cpu EXCEPT !.leaks = @ + task[t].nr]
    /\ Become(t, NewTask)
    /\ UNCHANGED <<pages, limit, rate, exceeded, flusher, vm, updates, kills>>

\* A fatal signal ends the sleep and the loop
Killed(t) ==
    /\ task[t].pc = "sleep" /\ kills < MaxKills
    /\ kills' = kills + 1
    /\ exceeded' = (exceeded /\ task[t].over)
    /\ flusher' = (flusher \/ (~LaptopMode /\ task[t].much))
    /\ Become(t, NewTask)
    /\ UNCHANGED <<pages, limit, rate, cpu, vm, updates>>

----------------------------------------------------------------------------
(* throttle_vm_writeout.                                                   *)

TooMuchWriteback == wb > HardLimit + HardLimit \div 10

ThrottleVmWriteout(r) ==
    /\ vm[r] = "run" /\ TooMuchWriteback
    /\ vm' = [vm EXCEPT ![r] = "wait"]
    /\ UNCHANGED <<pages, limit, rate, exceeded, flusher, cpu, task, updates, kills>>

\* congestion_wait is over; a caller that may not do I/O does not look again
VmContinues(r) ==
    /\ vm[r] = "wait" /\ ~TooMuchWriteback
    /\ vm' = [vm EXCEPT ![r] = "run"]
    /\ UNCHANGED <<pages, limit, rate, exceeded, flusher, cpu, task, updates, kills>>

VmGivesUp(r) ==
    /\ vm[r] = "wait"
    /\ vm' = [vm EXCEPT ![r] = "run"]
    /\ UNCHANGED <<pages, limit, rate, exceeded, flusher, cpu, task, updates, kills>>

----------------------------------------------------------------------------
(* External: the flusher of the device, I/O, and everybody else.           *)

FlushPage ==
    /\ flusher /\ dirty > 0
    /\ dirty' = dirty - 1 /\ wb' = wb + 1
    /\ UNCHANGED <<avail, other, limit, rate, exceeded, flusher, cpu, task, vm, updates, kills>>

\* Background writeback stops when it is below the threshold or out of pages
FlusherStops ==
    /\ flusher /\ (dirty = 0 \/ Reclaimable <= Background)
    /\ flusher' = FALSE
    /\ UNCHANGED <<pages, limit, rate, exceeded, cpu, task, vm, updates, kills>>

WriteDone ==
    /\ wb > 0 /\ wb' = wb - 1
    /\ UNCHANGED <<avail, dirty, other, limit, rate, exceeded, flusher, cpu, task, vm, updates, kills>>

OtherCleaned ==
    /\ other > 0 /\ other' = 0
    /\ UNCHANGED <<avail, dirty, wb, limit, rate, exceeded, flusher, cpu, task, vm, updates, kills>>

\* Memory is taken by somebody: the thresholds fall
MemoryTaken ==
    /\ \E a \in Avails : a < avail /\ avail' = a
    /\ UNCHANGED <<dirty, wb, other, limit, rate, exceeded, flusher, cpu, task, vm, updates, kills>>

----------------------------------------------------------------------------

TaskNext(t) == Ratelimited(t) \/ Freeruns(t) \/ Balance(t) \/ Wake(t) \/ BalanceEnds(t)

Device == FlushPage \/ FlusherStops \/ WriteDone

Next ==
    \/ \E t \in Tasks : Dirty(t) \/ TaskNext(t) \/ Exit(t) \/ Killed(t)
    \/ \E r \in Reclaimers : ThrottleVmWriteout(r) \/ VmContinues(r) \/ VmGivesUp(r)
    \/ Device \/ OtherCleaned \/ MemoryTaken

Spec == Init /\ [][Next]_vars

\* The scheduler runs the tasks whose sleep is over, and the device works
FairSpec ==
    /\ Spec
    /\ \A t \in Tasks : WF_vars(TaskNext(t))
    /\ \A r \in Reclaimers : WF_vars(VmContinues(r))
    /\ WF_vars(FlushPage \/ FlusherStops) /\ WF_vars(WriteDone)

----------------------------------------------------------------------------
(* Properties.                                                             *)

\* The counters stay in range: neither the pages exited tasks left behind nor
\* those charged to a task are counted below 0, and no rate is 0 that another
\* one is divided by.
TypeOK ==
    /\ \A t \in Tasks : task[t].nr >= 0 /\ task[t].np \in 0 .. MostPages
    /\ cpu.rate >= 0 /\ cpu.leaks >= 0
    /\ rate.rl >= 1 /\ rate.bw >= 0 /\ rate.avg >= 0

\* However tasks come, go and are killed, the pages that are dirty or under
\* writeback never exceed the hard limit by more than what one task may dirty
\* between two looks, once for every task and every task killed in its sleep:
\* the promise of balance_dirty_pages, with dirty_throttle_leaks charging what
\* short-lived tasks dirtied to the others and global_dirty_limit following
\* the dirty pages when the threshold falls below them.
Overshoot == NrDirty <= HardLimit + (Cardinality(Tasks) + kills) * MostPages

\* The points (1) to (4) of the comment on bdi_position_ratio, in integers and
\* for whatever limit the history led to: the ratio is 1 at the setpoint, stays
\* between 0 and 2, and falls as the dirty pages grow.
FeedbackNegative ==
    LET hard == HardLimit
        setpoint == (Freerun + hard) \div 2
        f(n) == GlobalRatio(n, hard, setpoint)
    IN  /\ f(setpoint) = Unit
        /\ \A n \in Freerun .. hard - 1 : f(n) \in 0 .. 2 * Unit
        /\ \A n \in Freerun .. hard - 2 : f(n + 1) <= f(n)

Throttled(t) == task[t].pc \in {"balance", "sleep"}

\* When nobody dirties more pages, every task balance_dirty_pages holds comes out
\* of its loop, and every reclaimer out of throttle_vm_writeout, even though the
\* pages of another, stuck device may never be cleaned.
Released ==
    <>[][~ \E u \in Tasks : Dirty(u)]_vars =>
        /\ \A t \in Tasks : Throttled(t) ~> ~Throttled(t)
        /\ \A r \in Reclaimers : vm[r] = "wait" ~> vm[r] = "run"
=============================================================================
