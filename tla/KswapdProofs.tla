---------------------------- MODULE KswapdProofs ----------------------------
(***************************************************************************)
(* kswapd and the allocators it throttles never sleep on each other's      *)
(* queues: for any number of zones, tasks and pages.                       *)
(***************************************************************************)
EXTENDS Kswapd, TLAPS

TaskPcs == {"run", "retry", "throttle", "queue", "cond", "asleep", "pass"}

(* The tasks' registers, and the request kswapd reads.                      *)
Registers ==
    /\ task \in [Tasks -> [pc : TaskPcs, cz : Zones, order : Orders, fs : BOOLEAN, prio : Int]]
    /\ waiting \subseteq Tasks
    /\ kwait \in BOOLEAN
    /\ "pc" \in DOMAIN k

(* While kswapd works its way to schedule(), its place on kswapd_wait is all *)
(* that a task going to sleep looks at; the last check empties the other    *)
(* queue.                                                                   *)
SleepInv == Registers /\ NoSleepingPair

LEMMA ZoneFacts == Top \in Zones /\ ZoneNormal \in Zones /\ 0 \in Orders /\ 1 \in Orders
BY ZonesAssumption DEF Zones, Top, Orders

LEMMA InitSleep == Init => SleepInv
<1> SUFFICES ASSUME Init PROVE SleepInv
  OBVIOUS
<1>1. Idle \in [pc : TaskPcs, cz : Zones, order : Orders, fs : BOOLEAN, prio : Int]
  BY ZoneFacts, ScanAssumption DEF Idle, TaskPcs
<1> HIDE DEF Idle
<1>2. Registers
  BY <1>1 DEF Init, Registers
<1> QED BY <1>2 DEF Init, SleepInv, NoSleepingPair

(* Behind a zone comes the next zone or the end of the pass.                *)
LEMMA ZoneDonePc ==
  ASSUME NEW r, "pc" \in DOMAIN r
  PROVE  "pc" \in DOMAIN ZoneDone(r) /\ ZoneDone(r).pc \in {"zone", "check"}
BY DEF ZoneDone

LEMMA AfterZonePc ==
  ASSUME NEW r, NEW isDead, "pc" \in DOMAIN r
  PROVE  "pc" \in DOMAIN AfterZone(r, isDead) /\ AfterZone(r, isDead).pc \in {"zone", "check"}
<1>1. "pc" \in DOMAIN [r EXCEPT !.end = @ - 1]
  OBVIOUS
<1> QED BY <1>1, ZoneDonePc DEF AfterZone

(* A step of kswapd changes no task.  It lies down only at the second check, *)
(* which has just woken every throttled task.                               *)
LEMMA KswapdSleep == ASSUME SleepInv, KswapdNext PROVE SleepInv'
<1> USE DEF SleepInv, Registers, NoSleepingPair, reqVars, zoneVars
<1>1. CASE KswapdTop \/ KswapdReset
  BY <1>1 DEF KswapdTop, KswapdReset, Decide
<1>2. CASE PrepareToWait
  BY <1>2 DEF PrepareToWait
<1>3. CASE FirstCheck
  BY <1>3 DEF FirstCheck, StillAsleep
<1>4. CASE ShortSleepEnds
  BY <1>4 DEF ShortSleepEnds
<1>5. CASE SecondCheck
  BY <1>5 DEF SecondCheck, StillAsleep
<1>6. CASE KswapdWoken \/ ReadRequest \/ ClearRequest
  BY <1>6 DEF KswapdWoken, ReadRequest, ClearRequest
<1>7. CASE StartBalance
  BY <1>7 DEF StartBalance, LoopAgain
<1>8. CASE FindEndZone
  BY <1>8 DEF FindEndZone
<1>8a. ASSUME "pc" \in DOMAIN k', k'.pc # "sleep", UNCHANGED <<kwait, waiting, task>>
       PROVE  SleepInv'
  BY <1>8a
<1>9. ASSUME NEW busy \in BOOLEAN, BalanceZone(busy) PROVE SleepInv'
  <2>1. \E r : k' = AfterZone([k EXCEPT !.got = Min({@ + r, Cluster})], k.i \in dead')
    BY <1>9 DEF BalanceZone
  <2>2. PICK r : k' = AfterZone([k EXCEPT !.got = Min({@ + r, Cluster})], k.i \in dead')
    BY <2>1
  <2>3. "pc" \in DOMAIN [k EXCEPT !.got = Min({@ + r, Cluster})]
    OBVIOUS
  <2>4. "pc" \in DOMAIN k' /\ k'.pc # "sleep"
    BY <2>2, <2>3, AfterZonePc
  <2> QED BY <1>8a, <1>9, <2>4 DEF BalanceZone
<1>10. CASE PassZone
  BY <1>8a, <1>10, ZoneDonePc, AfterZonePc DEF PassZone
<1>11. CASE PassCheck
  <2>1. "pc" \in DOMAIN k' /\ k'.pc # "sleep"
    BY <1>11 DEF PassCheck, LoopAgain
  <2> QED BY <1>11, <2>1 DEF PassCheck
<1>12. CASE Balanced
  BY <1>12 DEF Balanced
<1> QED BY <1>1, <1>2, <1>3, <1>4, <1>5, <1>6, <1>7, <1>8, <1>9, <1>10, <1>11, <1>12
        DEF KswapdNext, KswapdQuiet

(* A task that goes to sleep has found the reserve low with itself on       *)
(* pfmemalloc_wait, and has taken kswapd off kswapd_wait.                   *)
LEMMA TaskSleep ==
  ASSUME SleepInv, NEW t \in Tasks,
         TaskNext(t) \/ AllocSlow(t) \/ ThrottleTimeout(t) \/ ThrottleKilled(t)
  PROVE  SleepInv'
<1> DEFINE R == [pc : TaskPcs, cz : Zones, order : Orders, fs : BOOLEAN, prio : Int]
<1>1. Idle \in R /\ Idle.pc = "run"
  BY ZoneFacts, ScanAssumption DEF Idle, TaskPcs
<1>2. task[t] \in R /\ task \in [Tasks -> R]
  BY DEF SleepInv, Registers
<1>3. StartReclaim(t) \in R /\ StartReclaim(t).pc = "pass"
  BY <1>2 DEF StartReclaim, TaskPcs
<1>4. ASSUME NEW f \in R, Set(t, f), f.pc # "asleep", waiting' \subseteq waiting \union {t},
             kwait' = kwait \/ kwait' = FALSE, k' = k
      PROVE  SleepInv'
  <2>1. \A u \in Tasks : task'[u] = IF u = t THEN f ELSE task[u]
    BY <1>2, <1>4 DEF Set
  <2>2. task' \in [Tasks -> R]
    BY <1>2, <1>4 DEF Set
  <2>3. Registers'
    BY <1>4, <2>2 DEF SleepInv, Registers
  <2> HIDE DEF R
  <2> QED BY <1>4, <2>1, <2>3 DEF SleepInv, Registers, NoSleepingPair
<1>5. PfmemallocWatermarkOk => kwait' = kwait \/ kwait' = FALSE
  BY DEF PfmemallocWatermarkOk, reqVars
<1>6. CASE Retry(t)
  <2>1. [task[t] EXCEPT !.pc = "throttle"] \in R /\ [task[t] EXCEPT !.pc = "throttle"].pc = "throttle"
    BY <1>2 DEF TaskPcs
  <2> HIDE DEF R
  <2> QED BY <1>1, <1>4, <1>6, <2>1 DEF Retry
<1>7. CASE ThrottleDirectReclaim(t)
  <2>1. PICK fs \in BOOLEAN :
          Set(t, IF PfOk THEN StartReclaim(t) ELSE [task[t] EXCEPT !.pc = "queue", !.fs = fs])
    BY <1>7 DEF ThrottleDirectReclaim
  <2> DEFINE f == [task[t] EXCEPT !.pc = "queue", !.fs = fs]
  <2>2. f \in R /\ f.pc = "queue"
    BY <1>2 DEF TaskPcs
  <2> HIDE DEF R, f
  <2>3. waiting' = waiting /\ k' = k
    BY <1>7 DEF ThrottleDirectReclaim
  <2> QED BY <1>3, <1>4, <1>5, <1>7, <2>1, <2>2, <2>3 DEF ThrottleDirectReclaim, f
<1>8. CASE Enqueue(t)
  <2>1. [task[t] EXCEPT !.pc = "cond"] \in R /\ [task[t] EXCEPT !.pc = "cond"].pc = "cond"
    BY <1>2 DEF TaskPcs
  <2> HIDE DEF R
  <2> QED BY <1>4, <1>8, <2>1 DEF Enqueue
<1>9. CASE Condition(t)
  <2>1. CASE PfOk
    <3> HIDE DEF R
    <3> QED BY <1>3, <1>4, <1>5, <1>9, <2>1 DEF Condition
  <2>2. CASE ~PfOk
    <3>1. kwait' = FALSE
      BY <1>9, <2>2 DEF Condition, PfmemallocWatermarkOk, SleepInv, Registers, reqVars
    <3>2. task' \in [Tasks -> R]
      BY <1>2, <1>9, <2>2 DEF Condition, Set, TaskPcs
    <3> QED BY <1>9, <2>2, <3>1, <3>2 DEF Condition, SleepInv, Registers, NoSleepingPair
  <2> QED BY <2>1, <2>2
<1>10. CASE Woken(t)
  <2>1. [task[t] EXCEPT !.pc = "queue"] \in R /\ [task[t] EXCEPT !.pc = "queue"].pc = "queue"
    BY <1>2 DEF TaskPcs
  <2> HIDE DEF R
  <2> QED BY <1>4, <1>10, <2>1 DEF Woken
<1>11. CASE Pass(t)
  <2>1. /\ [task[t] EXCEPT !.pc = "retry", !.prio = DefPriority] \in R
        /\ [task[t] EXCEPT !.pc = "retry", !.prio = DefPriority].pc = "retry"
    <3>1. DefPriority \in Int
      BY ScanAssumption
    <3> QED BY <1>2, <3>1 DEF TaskPcs
  <2>2. [task[t] EXCEPT !.prio = @ - 1] \in R
    BY <1>2 DEF TaskPcs
  <2>3. task[t].pc = "pass" => [task[t] EXCEPT !.prio = @ - 1].pc = "pass"
    BY <1>2
  <2>4. /\ task[t].pc = "pass"
        /\ \/ Set(t, [task[t] EXCEPT !.pc = "retry", !.prio = DefPriority])
           \/ Set(t, Idle)
           \/ Set(t, [task[t] EXCEPT !.prio = @ - 1])
        /\ UNCHANGED <<kwait, waiting, k>>
    BY <1>11 DEF Pass
  <2> HIDE DEF R
  <2> QED BY <1>1, <1>4, <2>1, <2>2, <2>3, <2>4
<1>12. CASE AllocSlow(t)
  <2>1. PICK req \in Requests : Set(t, [Idle EXCEPT !.pc = "retry", !.cz = req[2], !.order = req[1]])
    BY <1>12 DEF AllocSlow
  <2> DEFINE f == [Idle EXCEPT !.pc = "retry", !.cz = req[2], !.order = req[1]]
  <2>2. req[1] \in Orders /\ req[2] \in Zones
    BY RequestsAssumption
  <2>3. f \in R /\ f.pc = "retry"
    BY <1>1, <2>2 DEF TaskPcs
  <2> HIDE DEF R, f
  <2> QED BY <1>4, <1>12, <2>1, <2>3 DEF AllocSlow, f
<1>13. CASE ThrottleTimeout(t)
  <2> HIDE DEF R
  <2> QED BY <1>3, <1>4, <1>13 DEF ThrottleTimeout
<1>14. CASE ThrottleKilled(t)
  <2> HIDE DEF R
  <2> QED BY <1>1, <1>4, <1>14 DEF ThrottleKilled
<1> QED BY <1>6, <1>7, <1>8, <1>9, <1>10, <1>11, <1>12, <1>13, <1>14 DEF TaskNext

LEMMA NextSleep == SleepInv /\ [Next]_vars => SleepInv'
<1> SUFFICES ASSUME SleepInv, [Next]_vars PROVE SleepInv'
  OBVIOUS
<1>1. ASSUME NEW z \in Zones, FreePage(z) \/ AllocAtomic(z) PROVE SleepInv'
  <2>1. UNCHANGED <<kwait, k, waiting, task>>
    BY <1>1 DEF FreePage, AllocAtomic
  <2> QED BY <2>1 DEF SleepInv, Registers, NoSleepingPair
<1>2. CASE UNCHANGED vars
  BY <1>2 DEF vars, SleepInv, Registers, NoSleepingPair
<1> QED BY <1>1, <1>2, KswapdSleep, TaskSleep DEF Next

(* kswapd never sleeps for good while a task sleeps that only it can wake:   *)
(* each looks at the other's queue after it has joined its own.             *)
THEOREM NobodyWaitsForSleeper == Spec => []NoSleepingPair
<1>1. SleepInv => NoSleepingPair
  BY DEF SleepInv
<1> QED BY <1>1, InitSleep, NextSleep, PTL DEF Spec
=============================================================================
