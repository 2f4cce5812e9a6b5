----------------------------- MODULE KrpingVerbs -----------------------------
(***************************************************************************)
(* The verbs of one connection after set-up (krping.c): universal_send,     *)
(* do_write and do_read, the send queue of the queue pair and the           *)
(* completion handler krping_cq_event_handler_send.                         *)
(*                                                                         *)
(* A send takes the next of VERB_SEND_SLOT slots under sem_verb_mutex, and   *)
(* fills and posts it without the mutex.  Every AckEvery-th slot is          *)
(* signaled; who used it waits on sem_verb_ack.  A write waits on a          *)
(* semaphore of its own, a read on sem_read, which all reads of the         *)
(* connection share.                                                        *)
(*                                                                         *)
(* A message is named by the thread that sends it.  Requests are completed   *)
(* in the order in which they were posted (reliable connection); a send is   *)
(* inline, so that posting it copies its slot.                              *)
(***************************************************************************)
EXTENDS Integers, Sequences, SequencesExt, FiniteSets

CONSTANTS
  Threads,          \* threads that call the verbs
  Ops,              \* Ops[t]: the verbs thread t calls
  VERB_SEND_SLOT,   \* slots of messages (24)
  AckEvery,         \* distance of signaled slots (4)
  Faults            \* subset of {"post", "cq"}

None == "none"

(* A thread is none of the connection's semaphores.                         *)
ASSUME VerbsConstants ==
  /\ Threads \intersect {"ack", "read", None} = {}
  /\ Ops \in [Threads -> SUBSET {"send", "write", "read"}]
  /\ AckEvery \in Nat \ {0} /\ VERB_SEND_SLOT \in Nat \ {0}
  /\ VERB_SEND_SLOT % AckEvery = 0
  /\ Faults \subseteq {"post", "cq"}

VARIABLES
  vslotusing,   \* the slot of the next send
  send_buf,     \* the message in each slot
  sq,           \* posted requests that are not completed
  sem,          \* semaphores: count and sleeping threads
  th,           \* the call of each thread
  state,        \* RDMA_READY or ERROR
  lost,         \* a signaled send was never posted (history)
  early         \* verbs that returned before their request was completed (history)

vars == <<vslotusing, send_buf, sq, sem, th, state, lost, early>>

Slots   == 0 .. VERB_SEND_SLOT - 1
NoCall  == [pc |-> "idle", op |-> "none", slot |-> 0]
Closed  == [count |-> 0, queue |-> <<>>]

(* sem_verb_ack, sem_read and the semaphore on the stack of each do_write.   *)
SemNames == {"ack", "read"} \union Threads
(* variant: a write waits on the semaphore of the reads *)
SemOfShared(t) == IF th[t].op = "send" THEN "ack" ELSE "read"
SemOf(t) == CASE th[t].op = "send"  -> "ack"
              [] th[t].op = "read"  -> "read"
              [] th[t].op = "write" -> t

Signaled(slot) == slot % AckEvery = 0

-----------------------------------------------------------------------------
(* Semaphores of the kernel: up() hands over to the first sleeper.          *)

Outstanding(t, op, queue) == \E k \in DOMAIN queue : queue[k].by = t /\ queue[k].op = op

(* Thread t returns from its call while queue is still posted.              *)
Return(t, queue) ==
  /\ th' = [th EXCEPT ![t] = NoCall]
  /\ early' = IF th[t].op \in {"write", "read"} /\ Outstanding(t, th[t].op, queue)
              THEN early \union {th[t].op} ELSE early

Down(t) ==
  /\ th[t].pc = "down"
  /\ LET s == SemOf(t) IN
     \/ /\ sem[s].count > 0
        /\ sem' = [sem EXCEPT ![s].count = @ - 1]
        /\ Return(t, sq)
     \/ /\ sem[s].count = 0
        /\ sem' = [sem EXCEPT ![s].queue = Append(@, t)]
        /\ th' = [th EXCEPT ![t].pc = "sleep"]
        /\ UNCHANGED early
  /\ UNCHANGED <<vslotusing, send_buf, sq, state, lost>>

Up(s, queue) ==
  IF sem[s].queue = <<>>
  THEN /\ sem' = [sem EXCEPT ![s].count = @ + 1]
       /\ UNCHANGED <<th, early>>
  ELSE /\ sem' = [sem EXCEPT ![s].queue = Tail(@)]
       /\ Return(Head(sem[s].queue), queue)

-----------------------------------------------------------------------------
(* universal_send                                                          *)

NextSlot(s) == (s + 1) % VERB_SEND_SLOT

TakeSlot(t) ==
  /\ th[t].pc = "idle" /\ "send" \in Ops[t]
  /\ th' = [th EXCEPT ![t] = [pc |-> "fill", op |-> "send", slot |-> vslotusing]]
  /\ vslotusing' = NextSlot(vslotusing)
  /\ UNCHANGED <<send_buf, sq, sem, state, lost, early>>

FillSlot(t) ==
  /\ th[t].pc = "fill"
  /\ send_buf' = [send_buf EXCEPT ![th[t].slot] = t]
  /\ th' = [th EXCEPT ![t].pc = "post"]
  /\ UNCHANGED <<vslotusing, sq, sem, state, lost, early>>

(* Only a signaled slot waits.                                              *)
AfterPostNoWait(t) == NoCall                          \* variant: no back-pressure
AfterPostAlways(t) == [th[t] EXCEPT !.pc = "down"]    \* variant: waits without a signal
AfterPost(t) == IF Signaled(th[t].slot) THEN [th[t] EXCEPT !.pc = "down"] ELSE NoCall

PostSend(t) ==
  /\ th[t].pc = "post"
  /\ sq' = Append(sq, [op |-> "send", by |-> t, msg |-> send_buf[th[t].slot],
                       wr_id |-> IF Signaled(th[t].slot) THEN "ack" ELSE None])
  /\ th' = [th EXCEPT ![t] = AfterPost(t)]
  /\ UNCHANGED <<vslotusing, send_buf, sem, state, lost, early>>

(* ib_post_send fails: the error is printed and the wait happens all the same. *)
PostSendFails(t) ==
  /\ "post" \in Faults /\ th[t].pc = "post"
  /\ th' = [th EXCEPT ![t] = AfterPost(t)]
  /\ lost' = (lost \/ Signaled(th[t].slot))
  /\ UNCHANGED <<vslotusing, send_buf, sq, sem, state, early>>

-----------------------------------------------------------------------------
(* do_write and do_read.  A call that cannot post returns and changes       *)
(* nothing.                                                                *)

PostWrite(t) ==
  /\ th[t].pc = "idle" /\ "write" \in Ops[t]
  /\ sem' = [sem EXCEPT ![t] = Closed]
  /\ sq'  = Append(sq, [op |-> "write", by |-> t, msg |-> None, wr_id |-> t])
  /\ th'  = [th EXCEPT ![t] = [pc |-> "down", op |-> "write", slot |-> 0]]
  /\ UNCHANGED <<vslotusing, send_buf, state, lost, early>>

PostRead(t) ==
  /\ th[t].pc = "idle" /\ "read" \in Ops[t]
  /\ sq' = Append(sq, [op |-> "read", by |-> t, msg |-> None, wr_id |-> "read"])
  /\ th' = [th EXCEPT ![t] = [pc |-> "down", op |-> "read", slot |-> 0]]
  /\ UNCHANGED <<vslotusing, send_buf, sem, state, lost, early>>

-----------------------------------------------------------------------------
(* The completion handler                                                  *)

(* A request without a completion leaves the queue unnoticed.               *)
Complete ==
  /\ sq # <<>> /\ state # "ERROR"
  /\ sq' = Tail(sq)
  /\ \/ /\ Head(sq).wr_id # None
        /\ Up(Head(sq).wr_id, Tail(sq))
     \/ /\ Head(sq).wr_id = None
        /\ UNCHANGED <<sem, th, early>>
  /\ UNCHANGED <<vslotusing, send_buf, state, lost>>

(* A completion with an error shuts the connection down; nobody is woken.   *)
CompleteFails ==
  /\ "cq" \in Faults /\ sq # <<>> /\ state # "ERROR"
  /\ sq' = Tail(sq)
  /\ state' = "ERROR"
  /\ UNCHANGED <<vslotusing, send_buf, sem, th, lost, early>>

(* In the state ERROR the handler returns at once.                          *)
Ignored ==
  /\ sq # <<>> /\ state = "ERROR"
  /\ sq' = Tail(sq)
  /\ UNCHANGED <<vslotusing, send_buf, sem, th, state, lost, early>>

-----------------------------------------------------------------------------
(* send_buffer_info used slot 0, which is signaled, and did not wait for its *)
(* acknowledgement; the read of the table after it has completed.           *)
Init ==
  /\ vslotusing = 1 % VERB_SEND_SLOT
  /\ send_buf = [s \in Slots |-> None]
  /\ sq = <<>>
  /\ sem = [s \in SemNames |-> IF s = "ack" THEN [Closed EXCEPT !.count = 1] ELSE Closed]
  /\ th = [t \in Threads |-> NoCall]
  /\ state = "RDMA_READY"
  /\ lost = FALSE /\ early = {}

Proceed(t) == Down(t) \/ FillSlot(t) \/ PostSend(t)

Next ==
  \/ \E t \in Threads :
       Proceed(t) \/ TakeSlot(t) \/ PostSendFails(t) \/ PostWrite(t) \/ PostRead(t)
  \/ Complete \/ CompleteFails \/ Ignored

Spec == Init /\ [][Next]_vars

(* Threads run and the adapter completes what was posted.                   *)
FairSpec == Spec /\ WF_vars(Complete) /\ \A t \in Threads : WF_vars(Proceed(t))

-----------------------------------------------------------------------------
(* Properties.                                                             *)

Calls == [pc : {"idle", "fill", "post", "down", "sleep"},
          op : {"none", "send", "write", "read"}, slot : Slots]

TypeOK ==
  /\ vslotusing \in Slots
  /\ send_buf \in [Slots -> Threads \union {None}]
  /\ \A k \in DOMAIN sq : sq[k].by \in Threads /\ sq[k].wr_id \in SemNames \union {None}
  /\ \A s \in SemNames : sem[s].count \in Nat /\ ToSet(sem[s].queue) \subseteq Threads
  /\ th \in [Threads -> Calls]
  /\ state \in {"RDMA_READY", "ERROR"} /\ lost \in BOOLEAN /\ early \subseteq {"write", "read"}

Waiting(s) == {t \in Threads : th[t].pc \in {"down", "sleep"} /\ SemOf(t) = s}
Posted(s)  == {k \in DOMAIN sq : sq[k].wr_id = s}

Sound == ~lost /\ state # "ERROR"

(* do_write returns only after its own write was completed, whatever other   *)
(* threads post on the connection: its caller frees the slots it wrote.     *)
WriteReturnsDone == "write" \notin early

(* sem_verb_ack has one acknowledgement more than it has waiters, the one    *)
(* send_buffer_info left; faults only take acknowledgements away.           *)
AckBalance ==
  LET acks == sem["ack"].count + Cardinality(Posted("ack"))
  IN  /\ acks <= Cardinality(Waiting("ack")) + 1
      /\ Sound => acks = Cardinality(Waiting("ack")) + 1

(* Every verb returns, unless a signaled send could not be posted or a       *)
(* completion failed.                                                       *)
VerbsEnd == \A t \in Threads : th[t].pc # "idle" ~> th[t].pc = "idle" \/ ~Sound
=============================================================================
