---------------------------- MODULE ComexWriteOut ----------------------------
(***************************************************************************)
(* The swap-out path of a compute node (comex_remote.h): for every memory  *)
(* node a pool of page numbers granted by that node and a ring of          *)
(* write-out slots.  Reclaiming threads run COMEX_move_to_Remote and       *)
(* COMEX_flush_buff; the work queue runs COMEX_page_receive.               *)
(*                                                                         *)
(* mutex_FG guards the pool and the tail of the ring, pos_mutex its head.  *)
(* The status of a slot is read and written under either, or none, and is  *)
(* what the two sides share:                                               *)
(*     -1 empty   1 claimed by a thread   2 filled   3 being written       *)
(*                                                                         *)
(* The content of a page is named by the page number its owner was given    *)
(* and how often it was granted, so that the memory of a node shows which   *)
(* page was written where, and when.                                       *)
(***************************************************************************)
EXTENDS Integers, Sequences, FiniteSets, SequencesExt, FiniteSetsExt

CONSTANTS
  Threads,        \* threads that reclaim memory
  nMemNodes,      \* COMEX_nMemNodes
  COMEX_ID,       \* this node
  Seeds,          \* the process ids that COMEX_hash may start from
  total_writeOut, \* COMEX_total_writeOut: slots of a ring
  FLUSH,          \* a ring is flushed when a slot that divides FLUSH is filled
  CHUNK,          \* pages of one registered buffer (1024)
  threshold,      \* COMEX_threshold
  refill,         \* COMEX_refill: the order of the block a node asks for
  RetryAfter,     \* back_off after a request (10000)
  EmptyBackOff,   \* back_off after a poor answer (100000)
  Supply,         \* Supply[d]: the blocks that node d will grant, in order
  Faults,         \* the failures that may happen: "oom", "rdma", "drop"
  MaxAsked,       \* bound: no call starts while this many requests are open
  None, Worker    \* no owner, the work queue

Nodes    == 0 .. nMemNodes - 1
Slots    == 0 .. total_writeOut - 1
GroupPages(g) == g.page_start .. g.page_end

ASSUME WriteOutConstants ==
  /\ nMemNodes \in Nat \ {0} /\ COMEX_ID \in Nat /\ Seeds \subseteq Nat
  /\ total_writeOut \in Nat \ {0} /\ FLUSH \in Nat \ {0} /\ CHUNK \in Nat \ {0}
  /\ threshold \in Nat /\ refill \in Nat
  /\ MaxAsked \in Nat
  /\ RetryAfter \in Nat \ {0} /\ EmptyBackOff \in Nat \ {0}
  /\ Supply \in [Nodes -> Seq([page : Nat, order : Nat])]
  /\ \A d \in Nodes : \A k \in DOMAIN Supply[d] : 2 ^ Supply[d][k].order \in Nat \ {0}
  /\ Faults \subseteq {"oom", "rdma", "drop"}
  /\ None \notin Threads /\ Worker \notin Threads /\ None # Worker

VARIABLES
  total_page,   \* COMEX_free_group[d].total_page
  free_group,   \* COMEX_free_group[d].free_group
  back_off,     \* COMEX_free_group[d].back_off
  mutex_FG,     \* its owner
  head, tail,   \* buff_pos[d]
  pos_mutex,    \* its owner
  buff,         \* COMEX_writeOut_buff[d][s] and the slot's memory
  thread,       \* the threads
  asked,        \* PAGE_RQST messages that node d has not answered (external)
  granted,      \* how many blocks of Supply[d] node d has granted (external)
  remote,       \* (external) remote[d][q]: what page q of node d holds
  moved         \* moved[d]: the contents that were handed over (history)

ring  == <<head, tail, pos_mutex, buff>>
pool  == <<total_page, free_group, back_off, mutex_FG>>
peers == <<asked, granted, remote>>
vars  == <<total_page, free_group, back_off, mutex_FG, head, tail, pos_mutex, buff, thread,
           asked, granted, remote, moved>>

Nothing   == <<-1, 0>>
EmptySlot == [status |-> -1, pageNO |-> -1, data |-> Nothing]

(* A thread: dest and i are the loop of COMEX_move_to_Remote, slot and page  *)
(* what it claimed; first, count and gap are the loop of COMEX_flush_buff,   *)
(* back says where that call returns to.  late (history): a slot joined the  *)
(* batch that was not yet filled when it was compared.                      *)
IdleThread ==
  [pc |-> "idle", dest |-> 0, i |-> 0, slot |-> 0, page |-> -1,
   first |-> 0, count |-> 0, gap |-> FALSE, late |-> FALSE, back |-> "idle"]

Goto(t, where) == thread' = [thread EXCEPT ![t].pc = where]

(* Small functions of the state.  The variants after them are used to test   *)
(* the properties: a bug of that kind must be noticed.                      *)
NextSlot(s) == (s + 1) % total_writeOut

BlockSizeDouble(order) == 2 ^ (order + 1)       \* variant: one bit too far
BlockSize(order) == 2 ^ order

BlockPages(b) == b.page .. b.page + 2 ^ b.order - 1       \* as the memory node means it
Grants(d, p)  == Cardinality({k \in 1 .. granted[d] : p \in BlockPages(Supply[d][k])})

BackOffNext(b) == IF b <= 0 THEN RetryAfter ELSE b - 1

(* The list after COMEX_freelist_getpage took a page: an empty group goes.   *)
Rest(groups) ==
  IF Head(groups).page_start = Head(groups).page_end THEN Tail(groups)
  ELSE <<[Head(groups) EXCEPT !.page_start = @ + 1]>> \o Tail(groups)

COMEX_hash(seed, nodeID) == (seed * nodeID + 1) % nMemNodes

-----------------------------------------------------------------------------
(* COMEX_init_Remote                                                       *)
Init ==
  /\ total_page = [d \in Nodes |-> 0]
  /\ free_group = [d \in Nodes |-> <<>>]
  /\ back_off   = [d \in Nodes |-> 0]
  /\ mutex_FG   = [d \in Nodes |-> None]
  /\ head = [d \in Nodes |-> 0] /\ tail = [d \in Nodes |-> 0]
  /\ pos_mutex = [d \in Nodes |-> None]
  /\ buff   = [d \in Nodes |-> [s \in Slots |-> EmptySlot]]
  /\ thread = [t \in Threads |-> IdleThread]
  /\ asked   = [d \in Nodes |-> 0]
  /\ granted = [d \in Nodes |-> 0]
  /\ remote  = [d \in Nodes |-> <<>>]
  /\ moved   = [d \in Nodes |-> {}]

-----------------------------------------------------------------------------
(* COMEX_move_to_Remote                                                    *)

MoveCall(t) ==
  /\ thread[t].pc = "idle" /\ \A d \in Nodes : asked[d] < MaxAsked
  /\ \E seed \in Seeds :
       thread' = [thread EXCEPT ![t] =
                    [IdleThread EXCEPT !.pc = "try", !.dest = COMEX_hash(seed, COMEX_ID)]]
  /\ UNCHANGED <<pool, ring, peers, moved>>

(* The pool is busy: the page goes somewhere else.                          *)
TryLockFails(t) ==
  /\ thread[t].pc = "try" /\ mutex_FG[thread[t].dest] # None
  /\ Goto(t, "idle")
  /\ UNCHANGED <<pool, ring, peers, moved>>

(* With the lock held, a pool that runs low asks for a block, unless it did  *)
(* so less than back_off attempts ago.                                      *)
TryLock(t) ==
  LET d == thread[t].dest IN
  /\ thread[t].pc = "try" /\ mutex_FG[d] = None
  /\ mutex_FG' = [mutex_FG EXCEPT ![d] = t]
  /\ IF total_page[d] > threshold THEN UNCHANGED <<back_off, asked>>
     ELSE /\ back_off' = [back_off EXCEPT ![d] = BackOffNext(@)]
          /\ asked'    = [asked EXCEPT ![d] = IF back_off[d] <= 0 THEN @ + 1 ELSE @]
  /\ Goto(t, "full")
  /\ UNCHANGED <<total_page, free_group, ring, granted, remote, moved>>

(* A ring whose tail is still filled is full: it is flushed first.          *)
CheckFull(t) ==
  LET d == thread[t].dest IN
  /\ thread[t].pc = "full"
  /\ thread' = [thread EXCEPT ![t].pc = IF buff[d][tail[d]].status = 2 THEN "lock" ELSE "claim",
                              ![t].back = "claim"]
  /\ UNCHANGED <<pool, ring, peers, moved>>

Claimable(d) == total_page[d] > 0 /\ buff[d][tail[d]].status = -1

(* COMEX_freelist_getpage and the claim of the slot at the tail.            *)
Claim(t) ==
  LET d == thread[t].dest
      s == tail[d]
  IN
  /\ thread[t].pc = "claim" /\ Claimable(d)
  /\ free_group' = [free_group EXCEPT ![d] = Rest(@)]
  /\ total_page' = [total_page EXCEPT ![d] = @ - 1]
  /\ tail'       = [tail EXCEPT ![d] = NextSlot(@)]
  /\ buff'       = [buff EXCEPT ![d][s].status = 1]
  /\ mutex_FG'   = [mutex_FG EXCEPT ![d] = None]
  /\ thread'     = [thread EXCEPT ![t].pc = "void", ![t].slot = s, ![t].page = Head(free_group[d]).page_start]
  /\ UNCHANGED <<back_off, head, pos_mutex, peers, moved>>

(* Nothing to claim: on to the next node, nMemNodes times at most.          *)
NextNode(t) ==
  LET d == thread[t].dest IN
  /\ thread[t].pc = "claim" /\ ~Claimable(d)
  /\ mutex_FG' = [mutex_FG EXCEPT ![d] = None]
  /\ thread' = [thread EXCEPT ![t] =
                  IF @.i + 1 < nMemNodes
                  THEN [@ EXCEPT !.pc = "try", !.dest = COMEX_hash(d, COMEX_ID), !.i = thread[t].i + 1]
                  ELSE IdleThread]
  /\ UNCHANGED <<total_page, free_group, back_off, ring, peers, moved>>

(* The page is copied without a lock; a slot that divides FLUSH starts a     *)
(* flush.                                                                   *)
Fill(t) ==
  LET d == thread[t].dest
      s == thread[t].slot
      p == thread[t].page
      c == <<p, Grants(d, p)>>
  IN
  /\ thread[t].pc = "fill"
  /\ buff' = [buff EXCEPT ![d][s] = [status |-> 2, pageNO |-> p, data |-> c]]
  /\ thread' = [thread EXCEPT ![t] =
                  IF s % FLUSH = 0 /\ s # 0
                  THEN [IdleThread EXCEPT !.pc = "lock", !.dest = d] ELSE IdleThread]
  /\ moved' = [moved EXCEPT ![d] = @ \union {c}]
  /\ UNCHANGED <<pool, head, tail, pos_mutex, peers>>

-----------------------------------------------------------------------------
(* COMEX_flush_buff                                                        *)

(* variant: pos_mutex is not waited for *)
FlushLockFree(t) ==
  LET d == thread[t].dest IN
  /\ thread[t].pc = "lock"
  /\ pos_mutex' = [pos_mutex EXCEPT ![d] = t]
  /\ thread' = [thread EXCEPT ![t].pc = "while", ![t].count = 0, ![t].gap = FALSE, ![t].late = FALSE]
  /\ UNCHANGED <<pool, head, tail, buff, peers, moved>>

FlushLock(t) ==
  LET d == thread[t].dest IN
  /\ thread[t].pc = "lock" /\ pos_mutex[d] = None
  /\ pos_mutex' = [pos_mutex EXCEPT ![d] = t]
  /\ thread' = [thread EXCEPT ![t].pc = "while", ![t].count = 0, ![t].gap = FALSE, ![t].late = FALSE]
  /\ UNCHANGED <<pool, head, tail, buff, peers, moved>>

(* The loop condition.  A filled slot joins the batch; the batch ends at the *)
(* end of the ring.                                                         *)
FlushWhile(t) ==
  LET d    == thread[t].dest
      here == head[d] + thread[t].count
  IN
  /\ thread[t].pc = "while"
  /\ IF buff[d][here].status = 2
     THEN /\ buff' = [buff EXCEPT ![d][here].status = 3]
          /\ thread' = [thread EXCEPT ![t].count = @ + 1, ![t].late = @ \/ thread[t].gap,
                          ![t].pc = IF here + 1 >= total_writeOut THEN "post" ELSE "compare"]
     ELSE /\ thread' = [thread EXCEPT
                          ![t].pc = IF thread[t].count = 0 THEN "unlock" ELSE "post"]
          /\ UNCHANGED buff
  /\ UNCHANGED <<pool, head, tail, pos_mutex, peers, moved>>

(* x % CHUNK of C: -1 stays -1.                                             *)
CMod(x) == IF x < 0 THEN -1 ELSE x % CHUNK

(* variant: every slot follows *)
FlushCompareNever(t) ==
  /\ thread[t].pc = "compare"
  /\ thread' = [thread EXCEPT ![t].pc = "check", ![t].gap = FALSE]
  /\ UNCHANGED <<pool, ring, peers, moved>>

(* The next slot is compared with the last one of the batch ...             *)
FlushCompare(t) ==
  LET d    == thread[t].dest
      here == head[d] + thread[t].count
  IN
  /\ thread[t].pc = "compare"
  /\ thread' = [thread EXCEPT ![t].pc = "check",
                  ![t].gap = CMod(buff[d][here].pageNO) - 1 # CMod(buff[d][here - 1].pageNO)]
  /\ UNCHANGED <<pool, ring, peers, moved>>

(* variant: the break is missing and the test is repeated *)
FlushCheckSpins(t) ==
  /\ thread[t].pc = "check"
  /\ Goto(t, IF thread[t].gap THEN "compare" ELSE "while")
  /\ UNCHANGED <<pool, ring, peers, moved>>

(* ... and, if it is filled and does not follow, left for another batch.    *)
FlushCheck(t) ==
  LET d    == thread[t].dest
      here == head[d] + thread[t].count
  IN
  /\ thread[t].pc = "check"
  /\ Goto(t, IF thread[t].gap /\ buff[d][here].status = 2 THEN "post" ELSE "while")
  /\ UNCHANGED <<pool, ring, peers, moved>>

(* do_write refuses a batch that crosses a registered buffer on either side. *)
Misaligned(d, first, count) ==
  \/ ((d * total_writeOut + first) % CHUNK) + count > CHUNK
  \/ (buff[d][first].pageNO % CHUNK) + count > CHUNK

(* The head moves on and the write is posted.                               *)
FlushPost(t) ==
  LET d == thread[t].dest
      n == thread[t].count
  IN
  /\ thread[t].pc = "post"
  /\ head' = [head EXCEPT ![d] = (@ + n) % total_writeOut]
  /\ thread' = [thread EXCEPT ![t].first = head[d],
                  ![t].pc = IF Misaligned(d, head[d], n) THEN "unlock" ELSE "rdma"]
  /\ UNCHANGED <<pool, tail, pos_mutex, buff, peers, moved>>

(* The write is done and do_write returns: the slots went to consecutive    *)
(* pages, from the page of the first slot on.  What a late slot displaced,   *)
(* or was itself, is not asked for any more (history).                      *)
RdmaWrite(t) ==
  LET d == thread[t].dest
      f == thread[t].first
      from == buff[d][f].pageNO
      to   == from + thread[t].count - 1
      landed(q) == buff[d][f + q - from].data
      batch == {landed(q) : q \in from .. to}
      spoilt(c) == (c[1] \in from .. to /\ landed(c[1]) # c) \/ (c \in batch /\ c[1] \notin from .. to)
  IN
  /\ thread[t].pc = "rdma"
  /\ remote' = [remote EXCEPT ![d] =
                  [q \in DOMAIN @ \union (from .. to) |-> IF q \in from .. to THEN landed(q) ELSE @[q]]]
  /\ moved' = [moved EXCEPT ![d] = IF thread[t].late THEN {c \in @ : ~spoilt(c)} ELSE @]
  /\ Goto(t, "free")
  /\ UNCHANGED <<pool, ring, asked, granted>>

(* The write could not be posted: COMEX_RDMA_fn returns before              *)
(* COMEX_free_buff, and the slots keep the status 3.                        *)
RdmaWriteFails(t) ==
  /\ "rdma" \in Faults /\ thread[t].pc = "rdma"
  /\ Goto(t, "unlock")
  /\ UNCHANGED <<pool, ring, peers, moved>>

BatchAndNext(t) == thread[t].first .. thread[t].first + thread[t].count   \* variant: <=
Batch(t)        == thread[t].first .. thread[t].first + thread[t].count - 1

(* COMEX_free_buff (what the slot's memory holds is not read any more).     *)
FreeBuff(t) ==
  LET d == thread[t].dest IN
  /\ thread[t].pc = "free"
  /\ buff' = [buff EXCEPT ![d] = [s \in Slots |->
                IF s \in Batch(t) THEN EmptySlot ELSE @[s]]]
  /\ Goto(t, "unlock")
  /\ UNCHANGED <<pool, head, tail, pos_mutex, peers, moved>>

FlushUnlock(t) ==
  LET d == thread[t].dest IN
  /\ thread[t].pc = "unlock"
  /\ pos_mutex' = [pos_mutex EXCEPT ![d] = None]
  /\ thread' = [thread EXCEPT ![t] =
                  IF @.back = "claim"
                  THEN [IdleThread EXCEPT !.pc = "claim", !.dest = d, !.i = thread[t].i] ELSE IdleThread]
  /\ UNCHANGED <<pool, head, tail, buff, peers, moved>>

-----------------------------------------------------------------------------
(* COMEX_page_receive, on the work queue, and the node that answers: it      *)
(* grants the next block of its supply when the pages of it are free.        *)

InUse(d) ==
  (UNION {GroupPages(g) : g \in ToSet(free_group[d])}) \union {c[1] : c \in moved[d]}
    \union {thread[t].page : t \in {u \in Threads : thread[u].dest = d}}

CanGrant(d) ==
  /\ granted[d] < Len(Supply[d])
  /\ BlockPages(Supply[d][granted[d] + 1]) \cap InUse(d) = {}

(* A block is granted.                                                      *)
PageReceive(d) ==
  /\ asked[d] > 0 /\ CanGrant(d)
  /\ mutex_FG[d] = None
  /\ LET b == Supply[d][granted[d] + 1] IN
       /\ free_group' = [free_group EXCEPT ![d] =
            Append(@, [page_start |-> b.page, page_end |-> b.page + BlockSize(b.order) - 1])]
       /\ total_page' = [total_page EXCEPT ![d] = @ + BlockSize(b.order)]
       /\ back_off'   = [back_off EXCEPT ![d] = IF b.order <= refill - 2 THEN EmptyBackOff ELSE 0]
  /\ granted' = [granted EXCEPT ![d] = @ + 1]
  /\ asked'   = [asked EXCEPT ![d] = @ - 1]
  /\ UNCHANGED <<mutex_FG, ring, thread, remote, moved>>

(* The node has nothing: page_no is -1.                                     *)
PageRefused(d) ==
  /\ asked[d] > 0 /\ ~CanGrant(d)
  /\ mutex_FG[d] = None
  /\ back_off' = [back_off EXCEPT ![d] = EmptyBackOff]
  /\ asked'    = [asked EXCEPT ![d] = @ - 1]
  /\ UNCHANGED <<total_page, free_group, mutex_FG, ring, thread, granted, remote, moved>>

(* kzalloc fails: the function returns with mutex_FG locked, and the block   *)
(* is lost.                                                                 *)
PageReceiveOOM(d) ==
  /\ "oom" \in Faults
  /\ asked[d] > 0 /\ CanGrant(d)
  /\ mutex_FG[d] = None
  /\ mutex_FG' = [mutex_FG EXCEPT ![d] = Worker]
  /\ granted'  = [granted EXCEPT ![d] = @ + 1]
  /\ asked'    = [asked EXCEPT ![d] = @ - 1]
  /\ UNCHANGED <<total_page, free_group, back_off, ring, thread, remote, moved>>

(* COMEX_do_verb drops a message when kzalloc fails: the request, or the    *)
(* answer and its block.                                                    *)
DropRequest(d) ==
  /\ "drop" \in Faults /\ asked[d] > 0
  /\ asked' = [asked EXCEPT ![d] = @ - 1]
  /\ granted' \in {granted, [granted EXCEPT ![d] = IF CanGrant(d) THEN @ + 1 ELSE @]}
  /\ UNCHANGED <<pool, ring, thread, remote, moved>>

-----------------------------------------------------------------------------
(* What a thread does between its call and its return, but for the steps     *)
(* that touch the prefetch cache too, which ComexRead adds.                  *)
FlushStep(t) ==
  \/ FlushLock(t) \/ FlushWhile(t) \/ FlushCompare(t) \/ FlushCheck(t) \/ FlushPost(t)
  \/ RdmaWrite(t) \/ FreeBuff(t) \/ FlushUnlock(t)

ClaimStep(t) == TryLock(t) \/ TryLockFails(t) \/ CheckFull(t) \/ Claim(t) \/ NextNode(t)

Receive(d) == PageReceive(d) \/ PageRefused(d)

-----------------------------------------------------------------------------
(* Properties.                                                             *)

Filling(t, d) == thread[t].pc \in {"void", "fill"} /\ thread[t].dest = d

(* Slots at the head that the flushing thread has marked and not yet passed. *)
Marked(d) ==
  IF pos_mutex[d] \in Threads /\ thread[pos_mutex[d]].pc \in {"while", "compare", "check", "post"}
  THEN thread[pos_mutex[d]].count ELSE 0

(* The slots in use are the ones from head up to tail: head and tail, moved  *)
(* under different locks, never pass each other, and every filled slot is   *)
(* one that the next flush reaches.                                         *)
RingShape ==
  \A d \in Nodes :
    LET used == {s \in Slots : buff[d][s].status \in {1, 2}}
                  \union {head[d] + k : k \in 0 .. Marked(d) - 1}
        n    == Cardinality(used)
    IN /\ used = {(head[d] + k) % total_writeOut : k \in 0 .. n - 1}
       /\ tail[d] = (head[d] + n) % total_writeOut

(* A page number is given to one writer only: it is in the pool, or with a  *)
(* thread that fills its slot, or its content was handed over.              *)
PageGivenOnce ==
  \A d \in Nodes :
    LET pooled == UNION {GroupPages(g) : g \in ToSet(free_group[d])}
        taken  == {c[1] : c \in moved[d]}
    IN /\ pooled \cap taken = {}
       /\ Cardinality(taken) = Cardinality(moved[d])
       /\ \A t \in Threads : Filling(t, d) => thread[t].page \notin pooled \union taken
       /\ \A t, u \in Threads :
            Filling(t, d) /\ Filling(u, d) /\ t # u => thread[t].page # thread[u].page

(* No two blocks of a node look as if one followed the other: where the      *)
(* first page of a block comes next modulo CHUNK, it comes next.  (A node     *)
(* that grants whole chunks only is seamless: no page follows their last.)    *)
Seamless ==
  \A d \in Nodes : \A k, l \in DOMAIN Supply[d] :
    LET last  == Supply[d][k].page + 2 ^ Supply[d][k].order - 1
        first == Supply[d][l].page
    IN (first % CHUNK) = (last % CHUNK) + 1 => first = last + 1

(* No page is lost: what COMEX_move_to_Remote took over waits in a slot or    *)
(* is on the memory node at the page number its owner will read it from,     *)
(* though slots are claimed, filled, compared, written and freed under       *)
(* different locks or none.  (A slot filled between the comparison and the   *)
(* loop condition joins a batch unchecked, late: what that displaces is      *)
(* excepted, in RdmaWrite.)                                                 *)
NoPageLost ==
  \A d \in Nodes : \A c \in moved[d] :
    \/ c[1] \in DOMAIN remote[d] /\ remote[d][c[1]] = c
    \/ \E s \in Slots : buff[d][s].status \in {2, 3} /\ buff[d][s].data = c
=============================================================================
