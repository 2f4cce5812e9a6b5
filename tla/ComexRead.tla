------------------------------- MODULE ComexRead -------------------------------
(***************************************************************************)
(* The way back (comex_remote.h, read_swap_cache_async): the compute node   *)
(* reads a page it moved out, from a write-out slot that still holds it,    *)
(* from the prefetch cache, or with the whole block of PreF_SIZE pages from  *)
(* the memory node into the cache, and then frees its page number, which    *)
(* the memory node may grant again.  Threads that reclaim (ComexWriteOut)   *)
(* and threads that fault share the slots and the cache; the cache is        *)
(* looked up without a lock, and filled under the mutex of a block.         *)
(*                                                                         *)
(* The code leaves windows in which a read can go wrong.  What is read or    *)
(* cached in one is not followed any further (Unsure):                       *)
(*   - a slot or cache entry was taken away between the look and the copy;  *)
(*   - a block was read, or entered in the cache, while one of its pages was *)
(*     on its way out: that entry is old;                                    *)
(*   - a page number was used again while a slot waited with its last        *)
(*     content, so that two slots hold it;                                  *)
(*   - the read of a block could not be posted.                             *)
(* Batching of freed page numbers is in ComexProtocol: here a number is      *)
(* free when its thread is done.  One thread at a time reads a page.        *)
(***************************************************************************)
EXTENDS ComexWriteOut

CONSTANTS
  total_readIn,   \* COMEX_total_readIn: entries of the prefetch cache
  PreF_SIZE       \* pages of a block (16)

Entries   == 0 .. total_readIn - 1
BlockHead(x) == x - (x % PreF_SIZE)            \* x & PreF_MASK

ASSUME ReadConstants ==
  /\ PreF_SIZE \in Nat \ {0} /\ total_readIn \in Nat \ {0}
  /\ total_readIn % PreF_SIZE = 0

VARIABLES
  readIn,      \* COMEX_readIn_buff and its memory
  mutex_buff,  \* the owner of each block's mutex
  got          \* what a thread that has read a page found

cache    == <<readIn, mutex_buff>>
readVars == <<vars, cache, got>>

EmptyEntry == [status |-> -1, nodeID |-> -1, pageNO |-> -1, data |-> Nothing]
Unsure     == <<-2, 0>>

ReadInit ==
  /\ Init
  /\ readIn = [e \in Entries |-> EmptyEntry]
  /\ mutex_buff = [e \in Entries |-> None]
  /\ got = [t \in Threads |-> Nothing]

-----------------------------------------------------------------------------
(* The write-out, with what it does to the cache.                          *)

Entry(p) == p % total_readIn
Caches(e, d, p) == readIn[e].nodeID = d /\ readIn[e].pageNO = p

(* variant: the cache is forgotten *)
AfterVoidKept(d, p) == readIn

(* COMEX_void_preFetch                                                      *)
AfterVoid(d, p) ==
  IF Caches(Entry(p), d, p)
  THEN [readIn EXCEPT ![Entry(p)].status = -1, ![Entry(p)].nodeID = -1, ![Entry(p)].pageNO = -1]
  ELSE readIn

(* A block with the page was read and is not marked yet: it will be marked,  *)
(* with the page as it was, after the cache has forgotten it.               *)
BeingRead(d, p) ==
  \E u \in Threads : /\ thread[u].pc = "rmark" /\ thread[u].dest = d
                     /\ BlockHead(p) = BlockHead(thread[u].page)

VoidPreFetch(t) ==
  LET d == thread[t].dest  p == thread[t].page IN
  /\ thread[t].pc = "void"
  /\ readIn' = [AfterVoid(d, p) EXCEPT ![Entry(p)].data = IF BeingRead(d, p) THEN Unsure ELSE @]
  /\ Goto(t, "fill")
  /\ UNCHANGED <<pool, ring, peers, moved, mutex_buff, got>>

FillSlot(t) == Fill(t) /\ UNCHANGED <<cache, got>>

MoveStep(t) ==
  /\ ClaimStep(t) \/ FlushStep(t)
  /\ UNCHANGED <<cache, got>>

-----------------------------------------------------------------------------
(* read_swap_cache_async for an entry of type 8                             *)

ReadCall(t) ==
  /\ thread[t].pc = "idle"
  /\ \E d \in Nodes : \E c \in moved[d] :
       /\ \A u \in Threads : thread[u].dest # d \/ thread[u].page # c[1]
       /\ thread' = [thread EXCEPT ![t] =
                       [IdleThread EXCEPT !.pc = "rbuf", !.dest = d, !.page = c[1]]]
  /\ UNCHANGED <<pool, ring, peers, moved, cache, got>>

Holding(d, p) == {s \in Slots : buff[d][s].pageNO = p /\ buff[d][s].status = 2}

(* COMEX_read_from_buffer: the first slot that waits with the page.         *)
LookInBuffer(t) ==
  LET d == thread[t].dest
      found == Holding(d, thread[t].page)
  IN
  /\ thread[t].pc = "rbuf"
  /\ thread' = [thread EXCEPT ![t].pc = IF found = {} THEN "rpre" ELSE "rcopy",
                              ![t].slot = IF found = {} THEN 0 ELSE Min(found)]
  /\ got' = [got EXCEPT ![t] = IF Cardinality(found) > 1 THEN Unsure ELSE Nothing]
  /\ UNCHANGED <<pool, ring, peers, moved, cache>>

(* The end of a read: t has data.                                           *)
Found(t, data) ==
  /\ got' = [got EXCEPT ![t] = data]
  /\ Goto(t, "rdone")
  /\ UNCHANGED <<pool, ring, peers, moved>>

CopyFromBuffer(t) ==
  LET slot == buff[thread[t].dest][thread[t].slot] IN
  /\ thread[t].pc = "rcopy"
  /\ Found(t, IF slot.pageNO = thread[t].page /\ got[t] # Unsure THEN slot.data ELSE Unsure)
  /\ UNCHANGED cache

PreFetched(t) ==
  LET e == Entry(thread[t].page) IN
  readIn[e].status = 2 /\ Caches(e, thread[t].dest, thread[t].page)

(* COMEX_read_from_preFetch                                                 *)
LookInPreFetch(t) ==
  /\ thread[t].pc = "rpre"
  /\ Goto(t, IF PreFetched(t) THEN "rprecopy" ELSE "rlock")
  /\ UNCHANGED <<pool, ring, peers, moved, cache, got>>

CopyFromPreFetch(t) ==
  /\ thread[t].pc = "rprecopy"
  /\ Found(t, IF PreFetched(t) THEN readIn[Entry(thread[t].page)].data ELSE Unsure)
  /\ UNCHANGED cache

(* The entries of the block that t reads into, in the order of its pages.    *)
BlockEntries(t) == {Entry(BlockHead(thread[t].page)) + i : i \in 0 .. PreF_SIZE - 1}
PageOf(t, e)    == BlockHead(thread[t].page) + (e % PreF_SIZE)

(* COMEX_read_from_remote                                                   *)
LockBlock(t) ==
  LET b == Entry(BlockHead(thread[t].page)) IN
  /\ thread[t].pc = "rlock" /\ mutex_buff[b] = None
  /\ mutex_buff' = [mutex_buff EXCEPT ![b] = t]
  /\ readIn' = [e \in Entries |->
                  IF e \in BlockEntries(t)
                  THEN [readIn[e] EXCEPT !.status = -1, !.nodeID = -1, !.pageNO = -1] ELSE readIn[e]]
  /\ Goto(t, "rread")
  /\ UNCHANGED <<pool, ring, peers, moved, got>>

(* The page waits in a slot, or a slot is about to be filled with it.        *)
OnItsWay(d, p) ==
  \/ \E s \in Slots : buff[d][s].pageNO = p /\ buff[d][s].status \in {2, 3}
  \/ \E u \in Threads : thread[u].pc = "fill" /\ thread[u].dest = d /\ thread[u].page = p

ReadBlock(t) ==
  LET d == thread[t].dest
      far(p) == IF OnItsWay(d, p) THEN Unsure
                ELSE IF p \in DOMAIN remote[d] THEN remote[d][p] ELSE Nothing
  IN
  /\ thread[t].pc = "rread"
  /\ readIn' = [e \in Entries |->
                  IF e \in BlockEntries(t)
                  THEN [readIn[e] EXCEPT !.data = far(PageOf(t, e))] ELSE readIn[e]]
  /\ Goto(t, "rmark")
  /\ UNCHANGED <<pool, ring, peers, moved, mutex_buff, got>>

(* The error is printed, and what the buffer holds is taken for the block.   *)
ReadBlockFails(t) ==
  /\ "rdma" \in Faults /\ thread[t].pc = "rread"
  /\ readIn' = [e \in Entries |->
                  IF e \in BlockEntries(t) THEN [readIn[e] EXCEPT !.data = Unsure] ELSE readIn[e]]
  /\ Goto(t, "rmark")
  /\ UNCHANGED <<pool, ring, peers, moved, mutex_buff, got>>

MarkBlock(t) ==
  /\ thread[t].pc = "rmark"
  /\ readIn' = [e \in Entries |->
                  IF e \in BlockEntries(t)
                  THEN [readIn[e] EXCEPT !.status = 2, !.nodeID = thread[t].dest, !.pageNO = PageOf(t, e)]
                  ELSE readIn[e]]
  /\ mutex_buff' = [mutex_buff EXCEPT ![Entry(BlockHead(thread[t].page))] = None]
  /\ Found(t, readIn[Entry(thread[t].page)].data)

(* COMEX_free_to_remote                                                     *)
FreeToRemote(t) ==
  LET d == thread[t].dest IN
  /\ thread[t].pc = "rdone"
  /\ moved'  = [moved EXCEPT ![d] = {c \in @ : c[1] # thread[t].page}]
  /\ thread' = [thread EXCEPT ![t] = IdleThread]
  /\ got'    = [got EXCEPT ![t] = Nothing]
  /\ UNCHANGED <<pool, ring, peers, cache>>

(* zap_pte_range: the owner of a page ends, and frees its number unread.      *)
ZapEntry(d) ==
  /\ \E c \in moved[d] :
       /\ \A u \in Threads : thread[u].dest # d \/ thread[u].page # c[1]
       /\ moved' = [moved EXCEPT ![d] = @ \ {c}]
  /\ UNCHANGED <<pool, ring, peers, thread, cache, got>>

-----------------------------------------------------------------------------
ReadStep(t) ==
  \/ LookInBuffer(t) \/ CopyFromBuffer(t) \/ LookInPreFetch(t) \/ CopyFromPreFetch(t)
  \/ LockBlock(t) \/ ReadBlock(t) \/ MarkBlock(t) \/ FreeToRemote(t)

Proceed(t) == MoveStep(t) \/ VoidPreFetch(t) \/ FillSlot(t) \/ ReadStep(t)

Grant(d) == Receive(d) /\ UNCHANGED <<cache, got>>

Fails ==
  \/ \E t \in Threads : ReadBlockFails(t) \/ (RdmaWriteFails(t) /\ UNCHANGED <<cache, got>>)
  \/ \E d \in Nodes : (PageReceiveOOM(d) \/ DropRequest(d)) /\ UNCHANGED <<cache, got>>

ReadNext ==
  \/ \E t \in Threads : (MoveCall(t) /\ UNCHANGED <<cache, got>>) \/ ReadCall(t) \/ Proceed(t)
  \/ \E d \in Nodes : Grant(d) \/ ZapEntry(d)
  \/ Fails

ReadSpec == ReadInit /\ [][ReadNext]_readVars

(* Threads that run and a work queue that runs.                             *)
ReadFairSpec ==
  /\ ReadSpec
  /\ \A t \in Threads : WF_readVars(Proceed(t))
  /\ \A d \in Nodes : WF_readVars(Grant(d))

-----------------------------------------------------------------------------
(* Properties.                                                             *)

(* A read that met none of the windows finds what was last moved to its page *)
(* number, in the slot, the cache or the memory node, whatever the number    *)
(* held before and whichever block was read for another page: the cache has  *)
(* forgotten a page that is moved out again (COMEX_void_preFetch), and the    *)
(* page of an entry is the one its block was read for.                      *)
ReadsOwnPage ==
  \A t \in Threads : thread[t].pc = "rdone" /\ got[t] # Unsure =>
    \A c \in moved[thread[t].dest] : c[1] = thread[t].page => got[t] = c

(* Every call returns: mutex_FG and pos_mutex, taken one inside the other by *)
(* one thread and alone by another, and the mutex of a block never block for *)
(* ever, and no loop spins.                                                 *)
CallsEnd == \A t \in Threads : thread[t].pc # "idle" ~> thread[t].pc = "idle"
=============================================================================
