------------------------------ MODULE ComexNode ------------------------------
(***************************************************************************)
(* A memory node at work: its buddy allocator (ComexBuddy), the page        *)
(* protocol with a compute node (ComexProtocol), and the threads of the     *)
(* node itself, which take and give back single pages.                     *)
(*                                                                         *)
(* A page with memory goes from the free lists to the node itself, or in a  *)
(* PAGE_RPLY to the compute node, and from there through a batch, a         *)
(* PAGE_FREE message and the work queue back to the free lists.  Here all    *)
(* free only what they hold; what the allocator does with a page that is     *)
(* freed twice is checked in ComexBuddy by itself.                          *)
(***************************************************************************)
EXTENDS ComexBuddy, Sequences

CONSTANTS
  MAX_FREE, MAX_COUNT,  \* runs of a PAGE_FREE message, pages of a run
  COMEX_refill,         \* the order of the block a request asks for
  LeastOrder,           \* the least order it is answered with (5)
  MaxAsked,             \* bound: requests without an answer
  CanDrop               \* a message may be lost for want of memory (bound: one)

ASSUME NodeConstants ==
  /\ MAX_FREE \in Nat \ {0} /\ MAX_COUNT \in Nat \ {0}
  /\ COMEX_refill \in Orders /\ LeastOrder \in 0 .. COMEX_refill
  /\ \A o \in Orders : Pow2[o] = 2 ^ o
  /\ MaxAsked \in Nat /\ CanDrop \in BOOLEAN

VARIABLES
  batch, work, reply,   \* see ComexProtocol
  request,    \* the order COMEX_pages_request tries next, and whether it is in a call
  mine,       \* pages the threads of this node hold
  theirs,     \* pages the compute node holds and has not given back
  lost        \* pages named by a message that was lost (history)

Proto == INSTANCE ComexProtocol

messages == <<batch, work, reply>>
owners   == <<mine, theirs, lost>>
allvars  == <<vars, messages, request, owners>>

NoRequest == [order |-> COMEX_refill, calling |-> FALSE]

NodeInit ==
  /\ Init /\ Proto!Init
  /\ request = NoRequest
  /\ mine = {} /\ theirs = {} /\ lost = {}

-----------------------------------------------------------------------------
(* The allocator at work.  When an allocation ends its pages have an owner. *)

Boot == BootSteps /\ UNCHANGED <<messages, request, owners>>

InCall == (Expand \/ Coalesce \/ FreeReturn) /\ UNCHANGED <<messages, request, owners>>

(* COMEX_move_to_COMEX got its page, or the start-up drained one.           *)
LocalReturn ==
  /\ ~request.calling
  /\ RmqueueReturn
  /\ mine' = IF boot.phase = "ready" THEN mine \union (held' \ held) ELSE mine
  /\ UNCHANGED <<messages, request, theirs, lost>>

-----------------------------------------------------------------------------
(* COMEX_pages_request, which the work queue runs for a PAGE_RQST           *)

Requested == work # <<>> /\ Head(work) = Proto!RQST

(* COMEX_rmqueue_smallest finds a block; what follows holds the lock.       *)
RequestCall ==
  /\ Requested /\ ~request.calling
  /\ Rmqueue(request.order)
  /\ request' = [request EXCEPT !.calling = TRUE]
  /\ UNCHANGED <<messages, owners>>

(* variant: the loop goes on with the least order *)
NoBlockRetries ==
  /\ request' = [request EXCEPT !.order = IF @ > LeastOrder THEN @ - 1 ELSE @, !.calling = FALSE]
  /\ UNCHANGED <<messages, owners>>

(* -1: a smaller block is tried, or the answer says there is none.          *)
NoBlock ==
  /\ IF request.order > LeastOrder
       THEN /\ request' = [order |-> request.order - 1, calling |-> FALSE]
            /\ UNCHANGED messages
       ELSE /\ request' = NoRequest
            /\ Proto!Answer({})
  /\ UNCHANGED owners

RequestFails ==
  /\ Requested /\ ~request.calling
  /\ boot.phase = "ready" /\ cur = Idle /\ NoneFree(request.order)
  /\ NoBlock
  /\ UNCHANGED vars

RequestReturn ==
  /\ request.calling
  /\ RmqueueReturn
  /\ IF CtrOk(cur.page, cur.low, 1)
       THEN /\ Proto!Answer(Block(cur.page, cur.low))
            /\ request' = NoRequest
            /\ UNCHANGED owners
       ELSE NoBlock

-----------------------------------------------------------------------------
(* The compute node                                                        *)

Ask == Proto!Ask /\ UNCHANGED <<vars, request, owners>>

PageReceive ==
  /\ Proto!TakeReply
  /\ theirs' = theirs \union Head(reply)
  /\ UNCHANGED <<vars, request, mine, lost>>

ReplyLost ==
  /\ CanDrop /\ lost = {} /\ Proto!TakeReply
  /\ lost' = lost \union Head(reply)
  /\ UNCHANGED <<vars, request, mine, theirs>>

GiveBack(p) ==
  /\ p \in theirs
  /\ theirs' = theirs \ {p}
  /\ \/ Proto!FreeToRun(p) /\ UNCHANGED lost
     \/ Proto!FreeFlush(p, TRUE) /\ UNCHANGED lost
     \/ /\ CanDrop /\ lost = {} /\ Proto!FreeFlush(p, FALSE)
        /\ lost' = lost \union {q \in Pages : Proto!Naming(batch, q) # {}}
  /\ UNCHANGED <<vars, request, mine>>

-----------------------------------------------------------------------------
(* The work queue of the memory node and its own threads                   *)

(* One turn of the PAGE_FREE loop.                                          *)
FreeWork ==
  /\ boot.phase = "ready" /\ cur = Idle
  /\ Proto!FreeBlock
  /\ FreeCall(Proto!NextBlock.page, Proto!NextBlock.order)
  /\ UNCHANGED <<boot, request, owners>>

FreeDone == Proto!FreeDone /\ UNCHANGED <<vars, request, owners>>

(* COMEX_move_to_COMEX allocates one page of the node's own memory.         *)
LocalAlloc == Rmqueue(0) /\ UNCHANGED <<messages, request, owners>>

(* The swap layer frees a page of the node's own memory: swap-in, unmapping *)
LocalFree(p) ==
  /\ p \in mine
  /\ FreePage(p, 0)
  /\ mine' = mine \ {p}
  /\ UNCHANGED <<messages, request, theirs, lost>>

-----------------------------------------------------------------------------

Worker == RequestCall \/ RequestFails \/ FreeWork \/ FreeDone

NodeNext ==
  \/ Boot \/ InCall \/ LocalReturn \/ RequestReturn \/ Worker
  \/ Ask \/ PageReceive \/ ReplyLost \/ LocalAlloc
  \/ \E p \in Pages : GiveBack(p) \/ LocalFree(p)

NodeSpec == NodeInit /\ [][NodeNext]_allvars

(* A call that holds the spinlock runs on, the thread that loads the module  *)
(* too.  The spinlock is a ticket lock, so the work queue gets it in the     *)
(* end, however often others take it.                                       *)
NodeFairSpec ==
  /\ NodeSpec
  /\ WF_allvars(Boot) /\ WF_allvars(InCall \/ LocalReturn \/ RequestReturn)
  /\ SF_allvars(Worker)

-----------------------------------------------------------------------------
(* Properties.                                                             *)

Places(p) ==
  Cardinality(Proto!Naming(batch, p)) + Cardinality(Proto!Carrying(work, p))
    + Cardinality({i \in 1 .. 4 : p \in <<ListedPages \union InFlight, mine, theirs, lost>>[i]})
    + Cardinality({k \in DOMAIN reply : p \in reply[k]})

(* While everybody frees only what he holds, every page with memory is in    *)
(* exactly one place: free, with a holder, in the batch, named by one        *)
(* message, or lost with a message.  A batch that is sent because no run     *)
(* takes a page, runs cut into blocks while others allocate, smaller blocks  *)
(* granted than were asked for, splits and merges: none may drop a page or   *)
(* name one twice, which the memory node would refuse as a second free, or   *)
(* would grant to two nodes.                                                *)
PagesPlaced ==
  boot.phase = "ready" => \A p \in Backed : Places(p) = 1

(* The node uses the allocator as ComexBuddy, and what is proved about it,   *)
(* assumes: one call at a time, and COMEX_free_page only with blocks that    *)
(* start at a multiple of their size, as the search for buddies needs, whose *)
(* pages all have memory and (OverFree = 0) all are handed out, however      *)
(* runs were put together, sent and cut.                                    *)
UsesAllocator == Spec

(* A page that the compute node gave back and that left in a message is      *)
(* free again in the end, unless the message is lost: the loops that cut    *)
(* runs into blocks end, and so does every call they make.                  *)
FreedInTheEnd ==
  \A p \in Backed : Proto!Carrying(work, p) # {} ~> Proto!Carrying(work, p) = {}

=============================================================================
