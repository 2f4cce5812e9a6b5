---------------------------- MODULE ComexProtocol ----------------------------
(***************************************************************************)
(* The messages between a compute node and a memory node: PAGE_RQST,        *)
(* PAGE_RPLY and PAGE_FREE.                                                 *)
(*                                                                         *)
(* COMEX_free_to_remote collects the page numbers of one node in MAX_FREE   *)
(* runs and sends the runs as one PAGE_FREE message when a page fits in     *)
(* none of them.  The memory node queues what arrives (COMEX_do_verb), and  *)
(* its single-threaded work queue grants blocks and cuts runs into aligned  *)
(* blocks for COMEX_free_page (COMEX_do_work).  The allocator it works on,  *)
(* and who holds which page, are in ComexNode.                             *)
(*                                                                         *)
(* freePage_spin makes a call of COMEX_free_to_remote one step.  A          *)
(* connection and the work queue keep messages in order, and nobody looks    *)
(* at one before the work queue does: together they are one queue.  A        *)
(* message that COMEX_do_verb has no memory for is never put there.          *)
(***************************************************************************)
EXTENDS Integers, Sequences, FiniteSets, FiniteSetsExt

CONSTANTS
  MAX_FREE,     \* runs of a message
  MAX_COUNT,    \* pages of a run (16383)
  MAX_ORDER,    \* COMEX_MAX_ORDER
  MaxAsked      \* bound: requests without an answer

VARIABLES
  batch,     \* COMEX_free_struct[nodeID]: MAX_FREE runs
  work,      \* messages sent to the memory node and not worked off, in order
  reply      \* blocks granted by PAGE_RPLY messages on their way, in order

Index    == 1 .. MAX_FREE
EmptyRun == [pageNO |-> -1, count |-> 0]
Clean    == [i \in Index |-> EmptyRun]

RQST    == [cmd |-> "RQST", runs |-> Clean]
FREE(b) == [cmd |-> "FREE", runs |-> b]

RunPages(r) == r.pageNO .. r.pageNO + r.count - 1

(* The runs of b, and those of the messages of a queue, that name page p.   *)
Naming(b, p)   == {i \in Index : p \in RunPages(b[i])}
Carrying(q, p) == {x \in (DOMAIN q) \X Index : p \in RunPages(q[x[1]].runs[x[2]])}

-----------------------------------------------------------------------------
(* The compute node: COMEX_free_to_remote, and a pool that asks for a block *)

(* The tests of the loop, in the order in which they are made for a run.    *)
Follows(r, p)  == r.pageNO + r.count = p /\ r.count < MAX_COUNT
Precedes(r, p) == r.pageNO - 1 = p /\ r.count < MAX_COUNT
Unused(r)      == r.pageNO = -1

FitsIn(i, p) == Follows(batch[i], p) \/ Precedes(batch[i], p) \/ Unused(batch[i])

Extended(r, p) ==
  IF Follows(r, p) THEN [r EXCEPT !.count = @ + 1]
  ELSE IF Precedes(r, p) THEN [pageNO |-> p, count |-> r.count + 1]
  ELSE [pageNO |-> p, count |-> 1]

(* The first run that takes the page.                                       *)
FreeToRun(p) ==
  /\ \E i \in Index :
       /\ FitsIn(i, p) /\ \A k \in 1 .. i - 1 : ~FitsIn(k, p)
       /\ batch' = [batch EXCEPT ![i] = Extended(@, p)]
  /\ UNCHANGED <<work, reply>>

(* variant: the page that made the batch leave is forgotten *)
NextBatchEmpty(p) == Clean

NextBatch(p) == [Clean EXCEPT ![1] = [pageNO |-> p, count |-> 1]]

(* No run takes it: the batch is sent and a new one begins with the page.   *)
FreeFlush(p, arrives) ==
  /\ \A i \in Index : ~FitsIn(i, p)
  /\ work'  = IF arrives THEN Append(work, FREE(batch)) ELSE work
  /\ batch' = NextBatch(p)
  /\ UNCHANGED reply

Ask ==
  /\ Cardinality({k \in DOMAIN work : work[k] = RQST}) + Len(reply) < MaxAsked
  /\ work' = Append(work, RQST)
  /\ UNCHANGED <<batch, reply>>

(* COMEX_page_receive, or a message that COMEX_do_verb had no memory for.   *)
TakeReply ==
  /\ reply # <<>>
  /\ reply' = Tail(reply)
  /\ UNCHANGED <<batch, work>>

-----------------------------------------------------------------------------
(* The memory node: COMEX_do_verb and COMEX_do_work                        *)

(* The largest order that starts at the run's first page and fits in it.    *)
(* page_idx keeps the low MAX_ORDER - 1 bits of the page number.            *)
SplitOrderUnaligned(r) == Max({o \in 0 .. MAX_ORDER - 1 : 2 ^ o <= r.count})   \* variant
SplitOrder(r) ==
  LET page_idx == r.pageNO % 2 ^ (MAX_ORDER - 1)
  IN  Max({o \in 0 .. MAX_ORDER - 1 : 2 ^ o <= r.count /\ page_idx % 2 ^ o = 0})

(* What is left of the run.  A run without pages is not looked at again.    *)
AfterBlock(r, o) ==
  IF r.count = 2 ^ o THEN EmptyRun ELSE [pageNO |-> r.pageNO + 2 ^ o, count |-> r.count - 2 ^ o]

(* The block the loop comes to next: of the first run that has pages left.  *)
RunsLeft(b) == {i \in Index : b[i].count > 0}
NextBlock ==
  LET r == Head(work).runs[Min(RunsLeft(Head(work).runs))]
  IN  [page |-> r.pageNO, order |-> SplitOrder(r)]

FreeBlock ==
  /\ work # <<>> /\ RunsLeft(Head(work).runs) # {}
  /\ LET i == Min(RunsLeft(Head(work).runs)) IN
     work' = [work EXCEPT ![1].runs[i] = AfterBlock(@, NextBlock.order)]
  /\ UNCHANGED <<batch, reply>>

FreeDone ==
  /\ work # <<>> /\ Head(work).cmd = "FREE" /\ RunsLeft(Head(work).runs) = {}
  /\ work' = Tail(work)
  /\ UNCHANGED <<batch, reply>>

(* PAGE_RPLY with block b, or with no block.                                *)
Answer(b) ==
  /\ reply' = Append(reply, b)
  /\ work'  = Tail(work)
  /\ UNCHANGED batch

-----------------------------------------------------------------------------
Init == batch = Clean /\ work = <<>> /\ reply = <<>>

=============================================================================
