-------------------------- MODULE KrpingVerbsProofs --------------------------
(***************************************************************************)
(* The waits of one connection: for any number of threads and slots, a       *)
(* write returns after its own completion, and sem_verb_ack stays one       *)
(* acknowledgement ahead of the threads that wait for one.                  *)
(***************************************************************************)
EXTENDS KrpingVerbs, FiniteSetTheorems, SequenceTheorems, TLAPS

Requests == [op : {"send", "write", "read"}, by : Threads,
             msg : Threads \union {None}, wr_id : SemNames \union {None}]

VerbsType ==
  /\ vslotusing \in Slots
  /\ send_buf \in [Slots -> Threads \union {None}]
  /\ sq \in Seq(Requests)
  /\ sem \in [SemNames -> [count : Nat, queue : Seq(Threads)]]
  /\ th \in [Threads -> Calls]
  /\ state \in {"RDMA_READY", "ERROR"} /\ lost \in BOOLEAN /\ early \subseteq {"write", "read"}

(* A thread in universal_send, do_write or do_read.                         *)
CallShape == \A t \in Threads :
  /\ th[t].pc = "idle" <=> th[t].op = "none"
  /\ th[t].pc \in {"fill", "post"} => th[t].op = "send"

(* Thread t waits in a call of operation op.                                *)
Waits(t, op) == th[t].pc \in {"down", "sleep"} /\ th[t].op = op

(* A request carries its semaphore as wr_id; a write in the queue belongs    *)
(* to a thread that still waits for it.                                     *)
RequestShape == \A j \in DOMAIN sq :
  /\ sq[j].op = "write" => sq[j].wr_id = sq[j].by /\ Waits(sq[j].by, "write")
  /\ sq[j].op = "read"  => sq[j].wr_id = "read"
  /\ sq[j].op = "send"  => sq[j].wr_id \in {"ack", None}

OneWrite == \A i, j \in DOMAIN sq :
  sq[i].op = "write" /\ sq[j].op = "write" /\ sq[i].by = sq[j].by => i = j

(* The sleepers of a semaphore called down() on it, and each sleeps once.   *)
Sleepers == \A s \in SemNames :
  /\ \A i \in DOMAIN sem[s].queue :
       th[sem[s].queue[i]].pc = "sleep" /\ SemOf(sem[s].queue[i]) = s
  /\ \A i, j \in DOMAIN sem[s].queue : sem[s].queue[i] = sem[s].queue[j] => i = j

(* The semaphore of a write is raised by nothing but its completion.        *)
RaisedByOwn == \A t \in Threads : sem[t].count > 0 => ~Outstanding(t, "write", sq)

VerbsInv ==
  /\ VerbsType /\ CallShape /\ RequestShape /\ OneWrite /\ Sleepers /\ RaisedByOwn
  /\ WriteReturnsDone

(* The waiters for an acknowledgement are counted.                          *)
BalanceInv == IsFiniteSet(Waiting("ack")) /\ AckBalance

-----------------------------------------------------------------------------
LEMMA SemFacts ==
  /\ "ack" \in SemNames /\ "read" \in SemNames /\ Threads \subseteq SemNames
  /\ \A t \in Threads : t # "ack" /\ t # "read" /\ t # None
  /\ None \notin SemNames
BY VerbsConstants DEF SemNames, None

(* Slots are numbered modulo VERB_SEND_SLOT.                                *)
LEMMA SlotFacts == 0 \in Slots /\ \A s \in Slots : NextSlot(s) \in Slots
BY VerbsConstants DEF Slots, NextSlot

(* The semaphore a call waits on tells its operation.                       *)
LEMMA SemOfFacts ==
  ASSUME NEW t \in Threads, th[t].op \in {"send", "write", "read"}
  PROVE  /\ SemOf(t) \in SemNames
         /\ SemOf(t) = "ack" <=> th[t].op = "send"
         /\ SemOf(t) = "read" <=> th[t].op = "read"
         /\ \A u \in Threads : SemOf(t) = u <=> th[t].op = "write" /\ u = t
BY SemFacts DEF SemOf

LEMMA RequestType ==
  ASSUME VerbsType, NEW j \in DOMAIN sq
  PROVE  sq[j] \in Requests /\ sq[j].by \in Threads
<1>1. sq[j] \in Requests
  BY DEF VerbsType
<1> QED BY <1>1 DEF Requests

-----------------------------------------------------------------------------
LEMMA InitVerbs == Init => VerbsInv
<1> SUFFICES ASSUME Init PROVE VerbsInv
  OBVIOUS
<1>1. NoCall \in Calls
  BY SlotFacts DEF NoCall, Calls
<1>2. VerbsType
  <2>1. 1 % VERB_SEND_SLOT \in Slots
    BY VerbsConstants DEF Slots
  <2>2. sem \in [SemNames -> [count : Nat, queue : Seq(Threads)]]
    <3>1. Closed \in [count : Nat, queue : Seq(Threads)]
      BY DEF Closed
    <3>2. [Closed EXCEPT !.count = 1] \in [count : Nat, queue : Seq(Threads)]
      BY <3>1
    <3> HIDE DEF Closed
    <3> QED BY <3>1, <3>2 DEF Init
  <2>3. sq \in Seq(Requests)
    BY DEF Init
  <2> QED BY <1>1, <2>1, <2>2, <2>3 DEF Init, VerbsType
<1>3. \A t \in Threads : sem[t].count = 0
  BY SemFacts DEF Init, Closed
<1>4. \A s \in SemNames : sem[s].queue = <<>>
  BY DEF Init, Closed
<1>5. CallShape /\ RequestShape /\ OneWrite /\ WriteReturnsDone
  BY DEF Init, CallShape, RequestShape, OneWrite, WriteReturnsDone, NoCall
<1>6. Sleepers
  BY <1>4 DEF Sleepers
<1>7. RaisedByOwn
  BY <1>3 DEF RaisedByOwn
<1> QED BY <1>2, <1>5, <1>6, <1>7 DEF VerbsInv

(* A call that moves on without a wait of its own: no semaphore and no      *)
(* request of the queue is about it.                                        *)
LEMMA MoveOn ==
  ASSUME VerbsInv, NEW t \in Threads, NEW c \in Calls,
         th[t].pc \in {"idle", "fill", "post"},
         th' = [th EXCEPT ![t] = c],
         c.pc = "idle" <=> c.op = "none",
         c.pc \in {"fill", "post"} => c.op = "send",
         sq' = sq, sem' = sem, early' = early, state' = state,
         vslotusing' \in Slots, send_buf' \in [Slots -> Threads \union {None}],
         lost' \in BOOLEAN
  PROVE  VerbsInv'
<1>1. VerbsType'
  BY DEF VerbsInv, VerbsType
<1>2. \A u \in Threads : th'[u] = IF u = t THEN c ELSE th[u]
  BY DEF VerbsInv, VerbsType
<1>3. CallShape'
  BY <1>2 DEF VerbsInv, CallShape
<1>4. RequestShape'
  <2> SUFFICES ASSUME NEW j \in DOMAIN sq, sq[j].op = "write"
               PROVE  Waits(sq[j].by, "write")'
    BY DEF VerbsInv, RequestShape
  <2>1. sq[j].by \in Threads
    BY RequestType DEF VerbsInv
  <2>2. Waits(sq[j].by, "write")
    BY DEF VerbsInv, RequestShape
  <2> QED BY <1>2, <2>1, <2>2 DEF Waits
<1>5. Sleepers'
  <2> SUFFICES ASSUME NEW s \in SemNames, NEW i \in DOMAIN sem[s].queue
               PROVE  /\ th'[sem[s].queue[i]].pc = "sleep"
                      /\ SemOf(sem[s].queue[i])' = s
    BY DEF VerbsInv, Sleepers
  <2>1. sem[s].queue[i] \in Threads
    BY DEF VerbsInv, VerbsType
  <2>2. th[sem[s].queue[i]].pc = "sleep" /\ SemOf(sem[s].queue[i]) = s
    BY DEF VerbsInv, Sleepers
  <2>3. sem[s].queue[i] # t
    BY <2>2
  <2> QED BY <1>2, <2>1, <2>2, <2>3 DEF SemOf
<1>6. OneWrite' /\ RaisedByOwn' /\ WriteReturnsDone'
  BY DEF VerbsInv, OneWrite, RaisedByOwn, WriteReturnsDone, Outstanding
<1> QED BY <1>1, <1>3, <1>4, <1>5, <1>6 DEF VerbsInv

(* A semaphore with as many sleepers as before.                             *)
LEMMA SameSleepers ==
  ASSUME Sleepers, VerbsType, th' = th, \A x \in SemNames : sem'[x].queue = sem[x].queue
  PROVE  Sleepers'
<1>1. ASSUME NEW u PROVE SemOf(u)' = SemOf(u)
  BY DEF SemOf
<1> QED BY <1>1 DEF Sleepers

(* A thread joins the sleepers of a semaphore; the first of them leaves.    *)
LEMMA JoinQueue ==
  ASSUME NEW q \in Seq(Threads), NEW t \in Threads
  PROVE  LET r == Append(q, t) IN
         /\ DOMAIN r = DOMAIN q \union {Len(q) + 1} /\ Len(q) + 1 \notin DOMAIN q
         /\ r[Len(q) + 1] = t
         /\ \A i \in DOMAIN q : r[i] = q[i]
OBVIOUS

(* A request at the end of the queue.                                       *)
LEMMA Posting ==
  ASSUME VerbsType, NEW r \in Requests
  PROVE  LET q == Append(sq, r) IN
         /\ q \in Seq(Requests)
         /\ DOMAIN q = DOMAIN sq \union {Len(sq) + 1} /\ DOMAIN sq = 1 .. Len(sq)
         /\ q[Len(sq) + 1] = r
         /\ \A j \in DOMAIN sq : q[j] = sq[j]
<1>1. sq \in Seq(Requests)
  BY DEF VerbsType
<1> QED BY <1>1

(* The queue without its first request.                                     *)
LEMMA Completing ==
  ASSUME VerbsType, sq # <<>>
  PROVE  /\ Tail(sq) \in Seq(Requests) /\ Head(sq) = sq[1] /\ 1 \in DOMAIN sq
         /\ DOMAIN Tail(sq) = 1 .. Len(sq) - 1 /\ DOMAIN sq = 1 .. Len(sq)
         /\ Len(sq) \in Nat \ {0}
         /\ \A j \in DOMAIN Tail(sq) : j + 1 \in DOMAIN sq /\ Tail(sq)[j] = sq[j + 1]
<1>1. sq \in Seq(Requests)
  BY DEF VerbsType
<1> QED BY <1>1

LEMMA TakeSlotInv == ASSUME VerbsInv, NEW t \in Threads, TakeSlot(t) PROVE VerbsInv'
<1> DEFINE c == [pc |-> "fill", op |-> "send", slot |-> vslotusing]
<1>1. c \in Calls
  BY DEF VerbsInv, VerbsType, Calls
<1>2. /\ c.pc = "idle" <=> c.op = "none"
      /\ c.pc \in {"fill", "post"} => c.op = "send"
  OBVIOUS
<1>3. /\ th[t].pc = "idle" /\ th' = [th EXCEPT ![t] = c]
      /\ UNCHANGED <<sq, sem, early, state, send_buf, lost>>
      /\ vslotusing' \in Slots
  BY SlotFacts DEF TakeSlot, VerbsInv, VerbsType
<1> HIDE DEF c
<1> QED BY MoveOn, <1>1, <1>2, <1>3 DEF VerbsInv, VerbsType

LEMMA FillSlotInv == ASSUME VerbsInv, NEW t \in Threads, FillSlot(t) PROVE VerbsInv'
<1> DEFINE c == [th[t] EXCEPT !.pc = "post"]
<1>1. th[t] \in Calls /\ th[t].slot \in Slots
  BY DEF VerbsInv, VerbsType, Calls
<1>2. c \in Calls /\ c.pc = "post" /\ c.op = "send"
  BY <1>1 DEF Calls, FillSlot, VerbsInv, CallShape
<1>3. /\ th[t].pc = "fill" /\ th' = [th EXCEPT ![t] = c]
      /\ UNCHANGED <<sq, sem, early, state, vslotusing, lost>>
  BY <1>1 DEF FillSlot, VerbsInv, VerbsType
<1>4. send_buf' \in [Slots -> Threads \union {None}]
  BY <1>1 DEF FillSlot, VerbsInv, VerbsType
<1> HIDE DEF c
<1> QED BY MoveOn, <1>2, <1>3, <1>4 DEF VerbsInv, VerbsType

(* Behind a post the thread waits or is done.                               *)
LEMMA AfterPostFacts ==
  ASSUME VerbsInv, NEW t \in Threads, th[t].pc = "post"
  PROVE  /\ AfterPost(t) \in Calls
         /\ Signaled(th[t].slot) => AfterPost(t).pc = "down" /\ AfterPost(t).op = "send"
         /\ ~Signaled(th[t].slot) => AfterPost(t) = NoCall
         /\ AfterPost(t).pc = "idle" <=> AfterPost(t).op = "none"
         /\ AfterPost(t).pc \notin {"fill", "post"}
<1>1. th[t] \in Calls /\ th[t].op = "send"
  BY DEF VerbsInv, VerbsType, CallShape
<1>2. NoCall \in Calls /\ NoCall.pc = "idle" /\ NoCall.op = "none"
  BY SlotFacts DEF NoCall, Calls
<1>3. LET d == [th[t] EXCEPT !.pc = "down"] IN
      d \in Calls /\ d.pc = "down" /\ d.op = "send"
  BY <1>1 DEF Calls
<1> HIDE DEF NoCall
<1> QED BY <1>2, <1>3 DEF AfterPost

LEMMA PostSendFailsInv == ASSUME VerbsInv, NEW t \in Threads, PostSendFails(t) PROVE VerbsInv'
<1>1. /\ th[t].pc = "post" /\ th' = [th EXCEPT ![t] = AfterPost(t)]
      /\ UNCHANGED <<sq, sem, early, state, vslotusing, send_buf>>
      /\ lost' \in BOOLEAN
  BY DEF PostSendFails, VerbsInv, VerbsType
<1>2. AfterPost(t) \in Calls
  BY <1>1, AfterPostFacts
<1> QED BY MoveOn, AfterPostFacts, <1>1, <1>2 DEF VerbsInv, VerbsType

(* A new request of a thread that posts nothing else and is in no wait.     *)
LEMMA PostInv ==
  ASSUME VerbsInv, NEW t \in Threads, NEW c \in Calls, NEW r \in Requests,
         th[t].pc \in {"idle", "post"},
         th' = [th EXCEPT ![t] = c],
         c.pc = "idle" <=> c.op = "none", c.pc \notin {"fill", "post"},
         sq' = Append(sq, r), r.by = t,
         r.op = "write" => c.pc = "down" /\ c.op = "write" /\ r.wr_id = t
                           /\ sem' = [sem EXCEPT ![t] = Closed],
         r.op = "read" => r.wr_id = "read",
         r.op = "send" => r.wr_id \in {"ack", None},
         r.op # "write" => sem' = sem,
         UNCHANGED <<vslotusing, send_buf, early, state, lost>>
  PROVE  VerbsInv'
<1>1. \A u \in Threads : th'[u] = IF u = t THEN c ELSE th[u]
  BY DEF VerbsInv, VerbsType
<1>2. \A s \in SemNames : sem'[s] = sem[s] \/ (s = t /\ r.op = "write" /\ sem'[s] = Closed)
  BY DEF VerbsInv, VerbsType, Requests
<1>3. VerbsType'
  <2>1. sem' \in [SemNames -> [count : Nat, queue : Seq(Threads)]]
    <3>1. Closed \in [count : Nat, queue : Seq(Threads)]
      BY DEF Closed
    <3> HIDE DEF Closed
    <3> QED BY <3>1 DEF VerbsInv, VerbsType, Requests
  <2> QED BY <2>1, Posting DEF VerbsInv, VerbsType
<1>4. CallShape'
  BY <1>1 DEF VerbsInv, CallShape
<1>5. \A j \in DOMAIN sq : sq[j].by \in Threads /\ (sq[j].op = "write" => sq[j].by # t)
  BY RequestType DEF VerbsInv, RequestShape, Waits
<1>6. /\ DOMAIN sq' = DOMAIN sq \union {Len(sq) + 1} /\ Len(sq) + 1 \notin DOMAIN sq
      /\ sq'[Len(sq) + 1] = r
      /\ \A j \in DOMAIN sq : sq'[j] = sq[j]
  BY Posting DEF VerbsInv, VerbsType
<1>7. RequestShape'
  <2> SUFFICES ASSUME NEW j \in DOMAIN sq'
               PROVE  /\ sq'[j].op = "write" =>
                           /\ sq'[j].wr_id = sq'[j].by
                           /\ th'[sq'[j].by].pc \in {"down", "sleep"} /\ th'[sq'[j].by].op = "write"
                      /\ sq'[j].op = "read"  => sq'[j].wr_id = "read"
                      /\ sq'[j].op = "send"  => sq'[j].wr_id \in {"ack", None}
    BY DEF RequestShape, Waits
  <2>1. CASE j = Len(sq) + 1
    BY <1>1, <1>6, <2>1 DEF Waits
  <2>2. CASE j \in DOMAIN sq
    BY <1>1, <1>5, <1>6, <2>2 DEF Waits, VerbsInv, RequestShape
  <2> QED BY <2>1, <2>2, <1>6
<1>8. OneWrite'
  BY <1>5, <1>6 DEF VerbsInv, OneWrite
<1>9. Sleepers'
  <2>1. \A s \in SemNames : sem'[s].queue = sem[s].queue \/ sem'[s].queue = <<>>
    BY <1>2 DEF Closed
  <2>2. ASSUME NEW u \in Threads, th[u].pc = "sleep"
        PROVE  th'[u].pc = "sleep" /\ SemOf(u)' = SemOf(u)
    BY <1>1, <2>2 DEF SemOf
  <2>3. \A s \in SemNames : \A i \in DOMAIN sem[s].queue :
          /\ sem[s].queue[i] \in Threads
          /\ th[sem[s].queue[i]].pc = "sleep" /\ SemOf(sem[s].queue[i]) = s
    BY DEF VerbsInv, Sleepers, VerbsType
  <2>4. ASSUME NEW s \in SemNames
        PROVE  /\ \A i \in DOMAIN sem'[s].queue :
                    th'[sem'[s].queue[i]].pc = "sleep" /\ SemOf(sem[s].queue[i])' = s
               /\ \A i, j \in DOMAIN sem'[s].queue : sem'[s].queue[i] = sem'[s].queue[j] => i = j
    BY <2>1, <2>2, <2>3 DEF VerbsInv, Sleepers
  <2> QED BY <2>4 DEF Sleepers
<1>10. RaisedByOwn'
  <2> SUFFICES ASSUME NEW u \in Threads, sem'[u].count > 0, NEW j \in DOMAIN sq',
                      sq'[j].by = u, sq'[j].op = "write"
               PROVE  FALSE
    BY DEF RaisedByOwn, Outstanding
  <2>1. CASE j = Len(sq) + 1
    BY <1>6, <2>1, SemFacts DEF Closed, VerbsInv, VerbsType
  <2>2. CASE j \in DOMAIN sq
    BY <1>2, <1>5, <1>6, <2>2, SemFacts DEF VerbsInv, RaisedByOwn, Outstanding
  <2> QED BY <2>1, <2>2, <1>6
<1> QED BY <1>3, <1>4, <1>7, <1>8, <1>9, <1>10 DEF VerbsInv, WriteReturnsDone

LEMMA PostSendInv == ASSUME VerbsInv, NEW t \in Threads, PostSend(t) PROVE VerbsInv'
<1> DEFINE r == [op |-> "send", by |-> t, msg |-> send_buf[th[t].slot],
                 wr_id |-> IF Signaled(th[t].slot) THEN "ack" ELSE None]
<1>1. th[t].slot \in Slots
  BY DEF VerbsInv, VerbsType, Calls
<1>2. r \in Requests
  BY <1>1, SemFacts DEF VerbsInv, VerbsType, Requests
<1>3. /\ th[t].pc = "post" /\ th' = [th EXCEPT ![t] = AfterPost(t)] /\ sq' = Append(sq, r)
      /\ UNCHANGED <<sem, early, state, vslotusing, send_buf, lost>>
  BY DEF PostSend
<1>4. r.by = t /\ r.op = "send" /\ r.wr_id \in {"ack", None}
  OBVIOUS
<1> HIDE DEF r
<1>5. AfterPost(t) \in Calls
  BY <1>3, AfterPostFacts
<1> QED BY PostInv, AfterPostFacts, <1>2, <1>3, <1>4, <1>5

LEMMA PostWriteInv == ASSUME VerbsInv, NEW t \in Threads, PostWrite(t) PROVE VerbsInv'
<1> DEFINE r == [op |-> "write", by |-> t, msg |-> None, wr_id |-> t]
           c == [pc |-> "down", op |-> "write", slot |-> 0]
<1>1. r \in Requests /\ c \in Calls
  BY SlotFacts, SemFacts DEF Requests, Calls
<1>2. /\ th[t].pc = "idle" /\ th' = [th EXCEPT ![t] = c] /\ sq' = Append(sq, r)
      /\ sem' = [sem EXCEPT ![t] = Closed]
      /\ UNCHANGED <<early, state, vslotusing, send_buf, lost>>
  BY DEF PostWrite
<1>3. r.by = t /\ r.op = "write" /\ r.wr_id = t /\ c.pc = "down" /\ c.op = "write"
  OBVIOUS
<1> HIDE DEF r, c
<1> QED BY PostInv, <1>1, <1>2, <1>3

LEMMA PostReadInv == ASSUME VerbsInv, NEW t \in Threads, PostRead(t) PROVE VerbsInv'
<1> DEFINE r == [op |-> "read", by |-> t, msg |-> None, wr_id |-> "read"]
           c == [pc |-> "down", op |-> "read", slot |-> 0]
<1>1. r \in Requests /\ c \in Calls
  BY SlotFacts, SemFacts DEF Requests, Calls
<1>2. /\ th[t].pc = "idle" /\ th' = [th EXCEPT ![t] = c] /\ sq' = Append(sq, r)
      /\ UNCHANGED <<sem, early, state, vslotusing, send_buf, lost>>
  BY DEF PostRead
<1>3. r.by = t /\ r.op = "read" /\ r.wr_id = "read" /\ c.pc = "down" /\ c.op = "read"
  OBVIOUS
<1> HIDE DEF r, c
<1> QED BY PostInv, <1>1, <1>2, <1>3

(* A thread that no request of the remaining queue belongs to comes back     *)
(* from its wait, by itself or woken, and its semaphore stays as it is for  *)
(* the others.                                                              *)
LEMMA DownInv == ASSUME VerbsInv, NEW t \in Threads, Down(t) PROVE VerbsInv'
<1>1. th[t].pc = "down" /\ th[t].op \in {"send", "write", "read"} /\ th[t] \in Calls
  BY DEF Down, VerbsInv, CallShape, VerbsType, Calls
<1>2. PICK s \in SemNames : s = SemOf(t)
  BY <1>1, SemOfFacts
<1>3. UNCHANGED <<vslotusing, send_buf, sq, state, lost>>
  BY DEF Down
<1>4. CASE /\ sem[s].count > 0
           /\ sem' = [sem EXCEPT ![s].count = @ - 1]
           /\ Return(t, sq)
  <2>1. \A u \in Threads : th'[u] = IF u = t THEN NoCall ELSE th[u]
    BY <1>4 DEF Return, VerbsInv, VerbsType
  <2>2. \A x \in SemNames : /\ sem'[x].queue = sem[x].queue
                            /\ sem'[x].count = IF x = s THEN sem[x].count - 1 ELSE sem[x].count
    BY <1>2, <1>4 DEF VerbsInv, VerbsType
  <2>3. th[t].op = "write" => ~Outstanding(t, "write", sq)
    BY <1>1, <1>2, <1>4, SemOfFacts DEF VerbsInv, RaisedByOwn
  <2>4. VerbsType'
    <3>1. sem[s].count - 1 \in Nat
      BY <1>2, <1>4 DEF VerbsInv, VerbsType
    <3>2. sem' \in [SemNames -> [count : Nat, queue : Seq(Threads)]]
      BY <1>2, <1>4, <3>1 DEF VerbsInv, VerbsType
    <3>3. NoCall \in Calls
      BY SlotFacts DEF NoCall, Calls
    <3>4. th' \in [Threads -> Calls]
      BY <1>4, <3>3 DEF Return, VerbsInv, VerbsType
    <3>5. early' \subseteq {"write", "read"}
      BY <1>4 DEF Return, VerbsInv, VerbsType
    <3> QED BY <1>3, <3>2, <3>4, <3>5 DEF VerbsInv, VerbsType
  <2>5. CallShape'
    BY <2>1 DEF VerbsInv, CallShape, NoCall
  <2>6. RequestShape'
    <3>1. \A j \in DOMAIN sq : sq[j].op = "write" => sq[j].by # t /\ sq[j].by \in Threads
      BY <2>3, <1>1, RequestType DEF VerbsInv, RequestShape, Waits, Outstanding
    <3> QED BY <1>3, <2>1, <3>1 DEF VerbsInv, RequestShape, Waits
  <2>7. OneWrite' /\ WriteReturnsDone'
    BY <1>3, <1>4, <2>3 DEF VerbsInv, OneWrite, WriteReturnsDone, Return
  <2>8. Sleepers'
    <3>1. ASSUME NEW u \in Threads, th[u].pc = "sleep"
          PROVE  th'[u].pc = "sleep" /\ SemOf(u)' = SemOf(u)
      BY <1>1, <2>1, <3>1 DEF SemOf
    <3>2. \A x \in SemNames : \A i \in DOMAIN sem[x].queue : sem[x].queue[i] \in Threads
      BY DEF VerbsInv, VerbsType
    <3> QED BY <2>2, <3>1, <3>2 DEF VerbsInv, Sleepers
  <2>9. RaisedByOwn'
    <3>1. \A u \in Threads : sem'[u].count > 0 => sem[u].count > 0
      <4>1. \A u \in Threads : u \in SemNames /\ sem[u].count \in Nat
        BY SemFacts DEF VerbsInv, VerbsType
      <4> QED BY <2>2, <4>1
    <3> QED BY <1>3, <3>1 DEF VerbsInv, RaisedByOwn, Outstanding
  <2> QED BY <2>4, <2>5, <2>6, <2>7, <2>8, <2>9 DEF VerbsInv
<1>5. CASE /\ sem' = [sem EXCEPT ![s].queue = Append(@, t)]
           /\ th' = [th EXCEPT ![t].pc = "sleep"]
           /\ UNCHANGED early
  <2>1. \A u \in Threads : /\ th'[u].op = th[u].op
                           /\ th'[u].pc = IF u = t THEN "sleep" ELSE th[u].pc
                           /\ th'[u] \in Calls
    BY <1>1, <1>5 DEF VerbsInv, VerbsType, Calls
  <2>2. \A x \in SemNames : /\ sem'[x].count = sem[x].count
                            /\ sem'[x].queue = IF x = s THEN Append(sem[x].queue, t)
                                                       ELSE sem[x].queue
    BY <1>2, <1>5 DEF VerbsInv, VerbsType
  <2>3. \A x \in SemNames : sem[x].queue \in Seq(Threads)
    BY DEF VerbsInv, VerbsType
  <2>4. VerbsType'
    <3>1. Append(sem[s].queue, t) \in Seq(Threads)
      BY <1>2, <2>3
    <3>2. sem' \in [SemNames -> [count : Nat, queue : Seq(Threads)]]
      BY <1>2, <1>5, <3>1 DEF VerbsInv, VerbsType
    <3>3. th' \in [Threads -> Calls]
      BY <1>5, <2>1 DEF VerbsInv, VerbsType
    <3> QED BY <1>3, <1>5, <3>2, <3>3 DEF VerbsInv, VerbsType
  <2>5. CallShape'
    BY <1>1, <2>1 DEF VerbsInv, CallShape
  <2>6. RequestShape'
    BY <1>3, <2>1, RequestType DEF VerbsInv, RequestShape, Waits
  <2>7. OneWrite' /\ WriteReturnsDone'
    BY <1>3, <1>5 DEF VerbsInv, OneWrite, WriteReturnsDone
  <2>8. Sleepers'
    <3>1. \A u \in Threads : SemOf(u)' = SemOf(u)
      BY <2>1 DEF SemOf
    <3>2. \A x \in SemNames : \A i \in DOMAIN sem[x].queue :
            sem[x].queue[i] \in Threads /\ sem[x].queue[i] # t
      BY <1>1 DEF VerbsInv, VerbsType, Sleepers
    <3>3. ASSUME NEW x \in SemNames, x # s
          PROVE  /\ \A i \in DOMAIN sem'[x].queue :
                      th'[sem'[x].queue[i]].pc = "sleep" /\ SemOf(sem[x].queue[i])' = x
                 /\ \A i, j \in DOMAIN sem'[x].queue : sem'[x].queue[i] = sem'[x].queue[j] => i = j
      BY <2>1, <2>2, <3>1, <3>2, <3>3 DEF VerbsInv, Sleepers
    <3>4. /\ DOMAIN sem'[s].queue = DOMAIN sem[s].queue \union {Len(sem[s].queue) + 1}
          /\ sem'[s].queue[Len(sem[s].queue) + 1] = t
          /\ \A i \in DOMAIN sem[s].queue : sem'[s].queue[i] = sem[s].queue[i]
      <4>1. sem'[s].queue = Append(sem[s].queue, t) /\ sem[s].queue \in Seq(Threads)
        BY <1>2, <2>2, <2>3
      <4> QED BY <4>1, JoinQueue
    <3>5. ASSUME NEW x \in SemNames, x = s
          PROVE  /\ \A i \in DOMAIN sem'[x].queue :
                      th'[sem'[x].queue[i]].pc = "sleep" /\ SemOf(sem[x].queue[i])' = x
                 /\ \A i, j \in DOMAIN sem'[x].queue : sem'[x].queue[i] = sem'[x].queue[j] => i = j
      <4>1. \A i \in DOMAIN sem'[s].queue :
              /\ sem'[s].queue[i] \in Threads
              /\ th'[sem'[s].queue[i]].pc = "sleep" /\ SemOf(sem[s].queue[i])' = s
        BY <1>2, <2>1, <3>1, <3>2, <3>4 DEF VerbsInv, Sleepers
      <4>2. \A i, j \in DOMAIN sem'[s].queue : sem'[s].queue[i] = sem'[s].queue[j] => i = j
        BY <1>2, <3>2, <3>4 DEF VerbsInv, Sleepers
      <4> QED BY <3>5, <4>1, <4>2
    <3> QED BY <3>3, <3>5 DEF Sleepers
  <2>9. RaisedByOwn'
    BY <1>3, <2>2, SemFacts DEF VerbsInv, RaisedByOwn, Outstanding
  <2> QED BY <2>4, <2>5, <2>6, <2>7, <2>8, <2>9 DEF VerbsInv
<1> QED BY <1>2, <1>4, <1>5 DEF Down

(* The queue loses its first request: what was said of the others stays.    *)
LEMMA ShorterQueue ==
  ASSUME VerbsInv, sq # <<>>, sq' = Tail(sq), sem' = sem, th' = th, early' = early,
         UNCHANGED <<vslotusing, send_buf, lost>>, state' \in {"RDMA_READY", "ERROR"}
  PROVE  VerbsInv'
<1>1. VerbsType' /\ CallShape' /\ WriteReturnsDone'
  BY Completing DEF VerbsInv, VerbsType, CallShape, WriteReturnsDone
<1>6. Sleepers'
  BY SameSleepers DEF VerbsInv
<1>2. \A j \in DOMAIN sq' : j + 1 \in DOMAIN sq /\ sq'[j] = sq[j + 1] /\ j \in Int
  BY Completing DEF VerbsInv
<1>3. RequestShape'
  BY <1>2 DEF VerbsInv, RequestShape, Waits
<1>4. OneWrite'
  BY <1>2 DEF VerbsInv, OneWrite
<1>5. RaisedByOwn'
  BY <1>2 DEF VerbsInv, RaisedByOwn, Outstanding
<1> QED BY <1>1, <1>3, <1>4, <1>5, <1>6 DEF VerbsInv

LEMMA CompleteFailsInv == ASSUME VerbsInv, CompleteFails PROVE VerbsInv'
BY ShorterQueue DEF CompleteFails

LEMMA IgnoredInv == ASSUME VerbsInv, Ignored PROVE VerbsInv'
BY ShorterQueue DEF Ignored, VerbsInv, VerbsType

(* The completion of a request raises its semaphore; a write's own waiter    *)
(* has no other write behind it.                                            *)
LEMMA CompleteInv == ASSUME VerbsInv, Complete PROVE VerbsInv'
<1> DEFINE s == Head(sq).wr_id
<1>1. /\ sq # <<>> /\ sq' = Tail(sq) /\ UNCHANGED <<vslotusing, send_buf, state, lost>>
  BY DEF Complete
<1>2. CASE UNCHANGED <<sem, th, early>>
  BY <1>1, <1>2, ShorterQueue DEF VerbsInv, VerbsType
<1>3. CASE s # None /\ Up(s, Tail(sq))
  <2>1. Head(sq) = sq[1] /\ sq[1] \in Requests /\ sq[1].by \in Threads /\ s \in SemNames
    BY <1>1, <1>3, Completing, RequestType DEF VerbsInv, Requests
  <2>2. \A j \in DOMAIN sq' : /\ j + 1 \in DOMAIN sq /\ sq'[j] = sq[j + 1] /\ j \in Int
                              /\ j + 1 # 1
    BY <1>1, Completing DEF VerbsInv
  <2>3. \A t \in Threads : s = t => ~Outstanding(t, "write", sq')
    <3> SUFFICES ASSUME s \in Threads, NEW j \in DOMAIN sq', sq'[j].op = "write", sq'[j].by = s
                 PROVE  FALSE
      BY DEF Outstanding
    <3>1. sq[1].op = "write" /\ sq[1].by = s /\ 1 \in DOMAIN sq
      BY <1>1, <2>1, SemFacts, Completing DEF VerbsInv, RequestShape, Requests
    <3> QED BY <2>2, <3>1 DEF VerbsInv, OneWrite
  <2>4. \A t \in Threads : Outstanding(t, "write", sq') => Outstanding(t, "write", sq)
    BY <2>2 DEF Outstanding
  <2>5. OneWrite'
    BY <2>2 DEF VerbsInv, OneWrite
  <2>6. CASE /\ sem[s].queue = <<>>
             /\ sem' = [sem EXCEPT ![s].count = @ + 1]
             /\ UNCHANGED <<th, early>>
    <3>1. \A x \in SemNames : sem'[x].queue = sem[x].queue /\ (x # s => sem'[x] = sem[x])
      BY <2>1, <2>6 DEF VerbsInv, VerbsType
    <3>2. VerbsType'
      <4>1. sem[s].count + 1 \in Nat
        BY <2>1 DEF VerbsInv, VerbsType
      <4>2. sem' \in [SemNames -> [count : Nat, queue : Seq(Threads)]]
        BY <2>1, <2>6, <4>1 DEF VerbsInv, VerbsType
      <4> QED BY <1>1, <2>6, <4>2, Completing DEF VerbsInv, VerbsType
    <3>3. CallShape' /\ WriteReturnsDone'
      BY <2>6 DEF VerbsInv, CallShape, WriteReturnsDone
    <3>4. RequestShape'
      BY <2>2, <2>6 DEF VerbsInv, RequestShape, Waits
    <3>5. Sleepers'
      BY <3>1, <2>6, SameSleepers DEF VerbsInv
    <3>6. RaisedByOwn'
      BY <2>3, <2>4, <3>1, SemFacts DEF VerbsInv, RaisedByOwn
    <3> QED BY <2>5, <3>2, <3>3, <3>4, <3>5, <3>6 DEF VerbsInv
  <2>7. CASE /\ sem[s].queue # <<>>
             /\ sem' = [sem EXCEPT ![s].queue = Tail(@)]
             /\ Return(Head(sem[s].queue), Tail(sq))
    <3> DEFINE w == Head(sem[s].queue)
    <3>1. /\ sem[s].queue \in Seq(Threads) /\ w = sem[s].queue[1] /\ w \in Threads
          /\ 1 \in DOMAIN sem[s].queue /\ Tail(sem[s].queue) \in Seq(Threads)
          /\ \A i \in DOMAIN Tail(sem[s].queue) :
                /\ i + 1 \in DOMAIN sem[s].queue /\ i \in Int /\ i + 1 # 1
                /\ Tail(sem[s].queue)[i] = sem[s].queue[i + 1]
      BY <2>1, <2>7 DEF VerbsInv, VerbsType
    <3>2. th[w].pc = "sleep" /\ SemOf(w) = s /\ th[w].op \in {"send", "write", "read"}
      BY <2>1, <3>1 DEF VerbsInv, Sleepers, CallShape, VerbsType, Calls
    <3>3. th[w].op = "write" => s = w
      BY <3>1, <3>2, SemOfFacts
    <3>4. \A u \in Threads : th'[u] = IF u = w THEN NoCall ELSE th[u]
      BY <2>7, <3>1 DEF Return, VerbsInv, VerbsType
    <3>5. \A x \in SemNames : /\ sem'[x].count = sem[x].count
                              /\ sem'[x].queue = IF x = s THEN Tail(sem[s].queue) ELSE sem[x].queue
      BY <2>1, <2>7 DEF VerbsInv, VerbsType
    <3>6. VerbsType'
      <4>1. sem' \in [SemNames -> [count : Nat, queue : Seq(Threads)]]
        BY <2>1, <2>7, <3>1 DEF VerbsInv, VerbsType
      <4>2. NoCall \in Calls
        BY SlotFacts DEF NoCall, Calls
      <4>3. th' \in [Threads -> Calls]
        BY <2>7, <4>2 DEF Return, VerbsInv, VerbsType
      <4>4. early' \subseteq {"write", "read"}
        BY <2>7 DEF Return, VerbsInv, VerbsType
      <4> QED BY <1>1, <4>1, <4>3, <4>4, Completing DEF VerbsInv, VerbsType
    <3>7. CallShape'
      BY <3>4 DEF VerbsInv, CallShape, NoCall
    <3>8. \A j \in DOMAIN sq' : sq'[j].op = "write" => sq'[j].by # w /\ sq'[j].by \in Threads
      BY <2>2, <2>3, <3>1, <3>2, <3>3, RequestType
      DEF VerbsInv, RequestShape, Waits, Outstanding
    <3>9. RequestShape'
      BY <2>2, <3>4, <3>8 DEF VerbsInv, RequestShape, Waits
    <3>10. WriteReturnsDone'
      BY <1>1, <2>3, <2>7, <3>1, <3>3 DEF VerbsInv, WriteReturnsDone, Return
    <3>11. Sleepers'
      <4>1. \A x \in SemNames : \A i \in DOMAIN sem'[x].queue :
              /\ sem'[x].queue[i] \in Threads /\ sem'[x].queue[i] # w
              /\ th[sem'[x].queue[i]].pc = "sleep" /\ SemOf(sem'[x].queue[i]) = x
        <5> SUFFICES ASSUME NEW x \in SemNames, NEW i \in DOMAIN sem'[x].queue
                     PROVE  /\ sem'[x].queue[i] \in Threads /\ sem'[x].queue[i] # w
                            /\ th[sem'[x].queue[i]].pc = "sleep" /\ SemOf(sem'[x].queue[i]) = x
          OBVIOUS
        <5>1. CASE x = s
          <6>1. /\ i \in DOMAIN Tail(sem[s].queue) /\ sem'[x].queue[i] = sem[s].queue[i + 1]
                /\ i + 1 \in DOMAIN sem[s].queue /\ i + 1 # 1
            BY <2>1, <3>1, <3>5, <5>1
          <6>2. sem[s].queue[i + 1] # w
            BY <2>1, <3>1, <6>1 DEF VerbsInv, Sleepers
          <6>3. sem[s].queue[i + 1] \in Threads
            BY <3>1, <6>1
          <6> QED BY <2>1, <5>1, <6>1, <6>2, <6>3 DEF VerbsInv, Sleepers
        <5>2. CASE x # s
          BY <3>2, <3>5, <5>2 DEF VerbsInv, VerbsType, Sleepers
        <5> QED BY <5>1, <5>2
      <4>2. ASSUME NEW u \in Threads, u # w
            PROVE  th'[u] = th[u] /\ SemOf(u)' = SemOf(u)
        BY <3>4, <4>2 DEF SemOf
      <4>3. \A x \in SemNames : \A i, j \in DOMAIN sem'[x].queue :
              sem'[x].queue[i] = sem'[x].queue[j] => i = j
        <5> SUFFICES ASSUME NEW x \in SemNames, NEW i \in DOMAIN sem'[x].queue,
                            NEW j \in DOMAIN sem'[x].queue, sem'[x].queue[i] = sem'[x].queue[j]
                     PROVE  i = j
          OBVIOUS
        <5>1. CASE x = s
          <6>1. /\ i \in Int /\ sem'[x].queue[i] = sem[s].queue[i + 1] /\ i + 1 \in DOMAIN sem[s].queue
                /\ j \in Int /\ sem'[x].queue[j] = sem[s].queue[j + 1] /\ j + 1 \in DOMAIN sem[s].queue
            BY <2>1, <3>1, <3>5, <5>1
          <6>2. sem[s].queue[i + 1] = sem[s].queue[j + 1]
            BY <6>1
          <6>3. \A a, b \in DOMAIN sem[s].queue : sem[s].queue[a] = sem[s].queue[b] => a = b
            BY <2>1 DEF VerbsInv, Sleepers
          <6>4. i + 1 = j + 1
            BY <6>1, <6>2, <6>3
          <6> QED BY <6>1, <6>4
        <5>2. CASE x # s
          BY <3>5, <5>2 DEF VerbsInv, Sleepers
        <5> QED BY <5>1, <5>2
      <4> QED BY <4>1, <4>2, <4>3 DEF Sleepers
    <3>12. RaisedByOwn'
      BY <2>4, <3>5, SemFacts DEF VerbsInv, RaisedByOwn
    <3> QED BY <2>5, <3>6, <3>7, <3>9, <3>10, <3>11, <3>12 DEF VerbsInv
  <2> QED BY <1>3, <2>6, <2>7 DEF Up
<1> QED BY <1>2, <1>3 DEF Complete

LEMMA NextVerbs == VerbsInv /\ [Next]_vars => VerbsInv'
<1> SUFFICES ASSUME VerbsInv, [Next]_vars PROVE VerbsInv'
  OBVIOUS
<1>1. CASE UNCHANGED vars
  <2>1. VerbsType' /\ CallShape' /\ RequestShape' /\ OneWrite' /\ RaisedByOwn' /\ WriteReturnsDone'
    BY <1>1 DEF vars, VerbsInv, VerbsType, CallShape, RequestShape, Waits, OneWrite,
                RaisedByOwn, Outstanding, WriteReturnsDone
  <2>2. Sleepers'
    BY <1>1, SameSleepers DEF vars, VerbsInv
  <2> QED BY <2>1, <2>2 DEF VerbsInv
<1> QED BY <1>1, DownInv, FillSlotInv, PostSendInv, TakeSlotInv, PostSendFailsInv, PostWriteInv,
           PostReadInv, CompleteInv, CompleteFailsInv, IgnoredInv DEF Next, Proceed

(* The state of a connection keeps its shape: every request names its own    *)
(* semaphore, and every sleeper sleeps where it called down().              *)
THEOREM VerbsInvariant == Spec => []VerbsInv
BY InitVerbs, NextVerbs, PTL DEF Spec

(* The state of send slots, queue, semaphores and calls keeps its type.     *)
THEOREM TypeCorrect == Spec => []TypeOK
<1>1. VerbsInv => TypeOK
  <2> SUFFICES ASSUME VerbsInv PROVE TypeOK
    OBVIOUS
  <2>1. \A j \in DOMAIN sq : sq[j].by \in Threads /\ sq[j].wr_id \in SemNames \union {None}
    BY RequestType DEF VerbsInv, Requests
  <2>2. \A s \in SemNames : sem[s].count \in Nat /\ ToSet(sem[s].queue) \subseteq Threads
    BY DEF VerbsInv, VerbsType, ToSet
  <2> QED BY <2>1, <2>2 DEF VerbsInv, VerbsType, TypeOK
<1> QED BY VerbsInvariant, <1>1, PTL

(* do_write returns only after its write was completed, for any number of    *)
(* threads that write, read and send: it waits on a semaphore of its own,   *)
(* which only the completion of its one write raises.                       *)
THEOREM WritesComplete == Spec => []WriteReturnsDone
<1>1. VerbsInv => WriteReturnsDone
  BY DEF VerbsInv
<1> QED BY VerbsInvariant, <1>1, PTL

-----------------------------------------------------------------------------
(* The threads in universal_send that wait, and the requests whose           *)
(* completion raises sem_verb_ack, are counted.                             *)

AckWaiters == {t \in Threads : Waits(t, "send")}
AckPosted  == {j \in DOMAIN sq : sq[j].wr_id = "ack"}

LEMMA AckSets == VerbsInv => Waiting("ack") = AckWaiters /\ Posted("ack") = AckPosted
<1> SUFFICES ASSUME VerbsInv, NEW t \in Threads, th[t].pc \in {"down", "sleep"}
             PROVE  SemOf(t) = "ack" <=> th[t].op = "send"
  BY DEF Waiting, AckWaiters, Waits, Posted, AckPosted
<1>1. th[t].op \in {"send", "write", "read"}
  BY DEF VerbsInv, CallShape, VerbsType, Calls
<1> QED BY <1>1, SemOfFacts

LEMMA PostedFinite == VerbsType => IsFiniteSet(AckPosted) /\ Cardinality(AckPosted) \in Nat
<1> SUFFICES ASSUME VerbsType PROVE IsFiniteSet(AckPosted)
  BY FS_CardinalityType
<1>1. DOMAIN sq = 1 .. Len(sq) /\ Len(sq) \in Nat
  BY DEF VerbsType
<1>2. IsFiniteSet(1 .. Len(sq))
  BY <1>1, FS_Interval
<1> QED BY <1>1, <1>2, FS_Subset DEF AckPosted

(* One request more, or the first one less.                                 *)
LEMMA PostedAppend ==
  ASSUME VerbsType, NEW r \in Requests, sq' = Append(sq, r)
  PROVE  Cardinality(AckPosted') = Cardinality(AckPosted) + (IF r.wr_id = "ack" THEN 1 ELSE 0)
<1>1. Len(sq) + 1 \notin AckPosted
  BY Posting DEF AckPosted
<1>2. AckPosted' = IF r.wr_id = "ack" THEN AckPosted \union {Len(sq) + 1} ELSE AckPosted
  <2>1. /\ DOMAIN sq' = DOMAIN sq \union {Len(sq) + 1} /\ sq'[Len(sq) + 1] = r
        /\ \A j \in DOMAIN sq : sq'[j] = sq[j]
    BY Posting
  <2> QED BY <2>1 DEF AckPosted
<1>3. CASE r.wr_id = "ack"
  <2>1. AckPosted' = AckPosted \union {Len(sq) + 1}
    BY <1>2, <1>3
  <2>2. Cardinality(AckPosted \union {Len(sq) + 1}) = Cardinality(AckPosted) + 1
    BY <1>1, PostedFinite, FS_AddElement
  <2> QED BY <1>3, <2>1, <2>2
<1>4. CASE r.wr_id # "ack"
  <2>1. AckPosted' = AckPosted
    BY <1>2, <1>4
  <2> QED BY <1>4, <2>1, PostedFinite
<1> QED BY <1>3, <1>4

LEMMA PostedTail ==
  ASSUME VerbsType, sq # <<>>, sq' = Tail(sq)
  PROVE  Cardinality(AckPosted') = Cardinality(AckPosted) - (IF Head(sq).wr_id = "ack" THEN 1 ELSE 0)
<1> DEFINE rest == AckPosted \ {1}
           f    == [j \in rest |-> j - 1]
<1>1. /\ Head(sq) = sq[1] /\ 1 \in DOMAIN sq /\ DOMAIN sq = 1 .. Len(sq) /\ Len(sq) \in Nat
      /\ DOMAIN sq' = 1 .. Len(sq) - 1
      /\ \A j \in DOMAIN sq' : j + 1 \in DOMAIN sq /\ sq'[j] = sq[j + 1]
  BY Completing
<1>2. \A j \in rest : j \in Int /\ j - 1 \in AckPosted' /\ j - 1 \in DOMAIN sq'
  <2> SUFFICES ASSUME NEW j \in rest
               PROVE  j \in Int /\ j - 1 \in DOMAIN sq' /\ sq'[j - 1].wr_id = "ack"
    BY DEF AckPosted
  <2>1. j \in 2 .. Len(sq) /\ sq[j].wr_id = "ack"
    BY <1>1 DEF AckPosted
  <2>2. j - 1 \in DOMAIN sq' /\ (j - 1) + 1 = j
    BY <1>1, <2>1
  <2> QED BY <1>1, <2>1, <2>2
<1>3. \A i \in AckPosted' : i \in Int /\ i + 1 \in rest /\ (i + 1) - 1 = i
  <2> SUFFICES ASSUME NEW i \in AckPosted'
               PROVE  i \in Int /\ i + 1 \in DOMAIN sq /\ sq[i + 1].wr_id = "ack" /\ i + 1 # 1
    BY DEF AckPosted
  <2>1. i \in 1 .. Len(sq) - 1 /\ sq'[i].wr_id = "ack"
    BY <1>1 DEF AckPosted
  <2> QED BY <1>1, <2>1
<1>4. f \in Bijection(rest, AckPosted')
  <2>1. f \in [rest -> AckPosted']
    BY <1>2
  <2>2. \A a, b \in rest : f[a] = f[b] => a = b
    BY <1>2
  <2>3. \A i \in AckPosted' : \E a \in rest : f[a] = i
    BY <1>3
  <2> QED BY <2>1, <2>2, <2>3 DEF Bijection, Injection, Surjection, IsInjective
<1> HIDE DEF f
<1>5. IsFiniteSet(rest) /\ Cardinality(AckPosted') = Cardinality(rest)
  <2>1. IsFiniteSet(rest)
    BY PostedFinite, FS_Subset
  <2>2. ExistsBijection(rest, AckPosted')
    BY <1>4 DEF ExistsBijection
  <2> QED BY <2>1, <2>2, FS_Bijection
<1>6. 1 \in AckPosted <=> Head(sq).wr_id = "ack"
  BY <1>1 DEF AckPosted
<1>8. rest = AckPosted \/ 1 \in AckPosted
  OBVIOUS
<1>7. Cardinality(rest) = Cardinality(AckPosted) - (IF 1 \in AckPosted THEN 1 ELSE 0)
  <2>1. CASE 1 \in AckPosted
    BY <2>1, PostedFinite, FS_RemoveElement
  <2>2. CASE 1 \notin AckPosted
    <3> HIDE DEF rest
    <3> QED BY <1>8, <2>2, PostedFinite
  <2> QED BY <2>1, <2>2
<1> QED BY <1>5, <1>6, <1>7

LEMMA InitBalance == Init => BalanceInv
<1> SUFFICES ASSUME Init PROVE BalanceInv
  OBVIOUS
<1>1. Waiting("ack") = {} /\ Posted("ack") = {} /\ sem["ack"].count = 1
  BY SemFacts DEF Init, Waiting, Posted, NoCall, Closed
<1> QED BY <1>1, FS_EmptySet DEF BalanceInv, AckBalance

(* A step adds as many acknowledgements as waiters, or the connection is     *)
(* not sound any more and it adds fewer.                                    *)
LEMMA Balanced ==
  ASSUME VerbsInv, VerbsInv', BalanceInv, NEW dw \in Int, NEW da \in Int,
         IsFiniteSet(AckWaiters'), Cardinality(AckWaiters') = Cardinality(AckWaiters) + dw,
         sem'["ack"].count + Cardinality(AckPosted')
           = sem["ack"].count + Cardinality(AckPosted) + da,
         da = dw \/ (da < dw /\ ~Sound'), Sound' => Sound
  PROVE  BalanceInv'
<1>1. Waiting("ack")' = AckWaiters' /\ Posted("ack")' = AckPosted'
  <2>1. ASSUME NEW t \in Threads, th'[t].pc \in {"down", "sleep"}
        PROVE  SemOf(t)' = "ack" <=> th'[t].op = "send"
    <3>1. th'[t].op \in {"send", "write", "read"}
      BY <2>1 DEF VerbsInv, CallShape, VerbsType, Calls
    <3> QED BY <3>1, SemFacts DEF SemOf
  <2> QED BY <2>1 DEF Waiting, AckWaiters, Waits, Posted, AckPosted
<1>2. Waiting("ack") = AckWaiters /\ Posted("ack") = AckPosted
  BY AckSets
<1>3. /\ Cardinality(AckWaiters) \in Nat /\ Cardinality(AckPosted) \in Nat
      /\ Cardinality(AckPosted') \in Nat /\ sem["ack"].count \in Nat /\ sem'["ack"].count \in Nat
  <2>1. Cardinality(AckWaiters) \in Nat
    BY <1>2, FS_CardinalityType DEF BalanceInv
  <2>2. Cardinality(AckPosted) \in Nat /\ sem["ack"].count \in Nat
    BY PostedFinite, SemFacts DEF VerbsInv, VerbsType
  <2>3. sem'["ack"].count \in Nat
    BY SemFacts DEF VerbsInv, VerbsType
  <2>4. IsFiniteSet(AckPosted')
    <3>1. DOMAIN sq' = 1 .. Len(sq') /\ Len(sq') \in Nat
      BY DEF VerbsInv, VerbsType
    <3>2. IsFiniteSet(1 .. Len(sq'))
      BY <3>1, FS_Interval
    <3> QED BY <3>1, <3>2, FS_Subset DEF AckPosted
  <2>5. Cardinality(AckPosted') \in Nat
    BY <2>4, FS_CardinalityType
  <2> QED BY <2>1, <2>2, <2>3, <2>5
<1>4. LET acks == sem["ack"].count + Cardinality(AckPosted)
      IN  acks <= Cardinality(AckWaiters) + 1 /\ (Sound => acks = Cardinality(AckWaiters) + 1)
  BY <1>2 DEF BalanceInv, AckBalance
<1>5. LET acks == sem'["ack"].count + Cardinality(AckPosted')
      IN  acks <= Cardinality(AckWaiters') + 1 /\ (Sound' => acks = Cardinality(AckWaiters') + 1)
  <2> HIDE DEF AckWaiters, AckPosted, Sound
  <2> QED BY <1>3, <1>4
<1> QED BY <1>1, <1>5 DEF BalanceInv, AckBalance

(* The waiters before and after the call of one thread changes.             *)
LEMMA WaitersChange ==
  ASSUME VerbsType, BalanceInv, VerbsInv, NEW t \in Threads,
         \A u \in Threads : u # t => th'[u] = th[u]
  PROVE  /\ IsFiniteSet(AckWaiters')
         /\ Cardinality(AckWaiters') =
              Cardinality(AckWaiters) + (IF t \in AckWaiters' THEN 1 ELSE 0)
                                      - (IF t \in AckWaiters THEN 1 ELSE 0)
<1> DEFINE W == AckWaiters
           V == AckWaiters'
<1>1. IsFiniteSet(W)
  BY AckSets DEF BalanceInv
<1>2. V = (W \ {t}) \union (IF t \in V THEN {t} ELSE {})
  BY DEF AckWaiters, Waits
<1> HIDE DEF W, V
<1>3. /\ IsFiniteSet(W \ {t}) /\ Cardinality(W) \in Nat
      /\ Cardinality(W \ {t}) = Cardinality(W) - (IF t \in W THEN 1 ELSE 0)
  <2>1. CASE t \in W
    BY <1>1, <2>1, FS_RemoveElement, FS_CardinalityType
  <2>2. CASE t \notin W
    <3>1. W \ {t} = W
      BY <2>2
    <3>2. IsFiniteSet(W \ {t}) /\ Cardinality(W \ {t}) = Cardinality(W)
      BY <1>1, <3>1, Zenon
    <3>3. Cardinality(W) \in Nat
      BY <1>1, FS_CardinalityType
    <3> QED BY <2>2, <3>2, <3>3
  <2> QED BY <2>1, <2>2
<1>4. CASE t \in V
  <2>1. V = (W \ {t}) \union {t}
    BY <1>2, <1>4
  <2>2. IsFiniteSet((W \ {t}) \union {t}) /\
        Cardinality((W \ {t}) \union {t}) = Cardinality(W \ {t}) + 1
    BY <1>3, FS_AddElement
  <2> QED BY <1>3, <1>4, <2>1, <2>2 DEF W, V
<1>5. CASE t \notin V
  <2>1. V = W \ {t}
    BY <1>2, <1>5
  <2> QED BY <1>3, <1>5, <2>1 DEF W, V
<1> QED BY <1>4, <1>5

(* A call goes on and posts r, if it posts.                                 *)
LEMMA MoveBalance ==
  ASSUME VerbsInv, VerbsInv', BalanceInv, NEW t \in Threads,
         \A u \in Threads : u # t => th'[u] = th[u],
         t \notin AckWaiters, sem'["ack"] = sem["ack"], NEW r \in Requests,
         sq' = sq \/ sq' = Append(sq, r), state' = state,
         lost => lost', t \in AckWaiters' /\ sq' = sq => lost',
         sq' # sq => (t \in AckWaiters' <=> r.wr_id = "ack")
  PROVE  BalanceInv'
<1> DEFINE dw == IF t \in AckWaiters' THEN 1 ELSE 0
           da == IF sq' = sq THEN 0 ELSE IF r.wr_id = "ack" THEN 1 ELSE 0
<1>1. dw \in Int /\ da \in Int
  OBVIOUS
<1>2. IsFiniteSet(AckWaiters') /\ Cardinality(AckWaiters') = Cardinality(AckWaiters) + dw
  <2>1. Cardinality(AckWaiters) \in Nat
    BY AckSets, FS_CardinalityType DEF BalanceInv
  <2>2. /\ IsFiniteSet(AckWaiters')
        /\ Cardinality(AckWaiters') =
              Cardinality(AckWaiters) + (IF t \in AckWaiters' THEN 1 ELSE 0)
                                      - (IF t \in AckWaiters THEN 1 ELSE 0)
    BY WaitersChange DEF VerbsInv
  <2> HIDE DEF AckWaiters
  <2> QED BY <2>1, <2>2
<1>3. Cardinality(AckPosted') = Cardinality(AckPosted) + da
  <2>1. Cardinality(AckPosted) \in Nat
    BY PostedFinite DEF VerbsInv
  <2>2. CASE sq' = sq
    <3>1. AckPosted' = AckPosted
      BY <2>2 DEF AckPosted
    <3> QED BY <2>1, <2>2, <3>1
  <2>3. CASE sq' # sq
    BY <2>3, PostedAppend DEF VerbsInv
  <2> QED BY <2>2, <2>3
<1>4. sem["ack"].count \in Nat /\ Cardinality(AckPosted) \in Nat
  BY PostedFinite, SemFacts DEF VerbsInv, VerbsType
<1>5. da = dw \/ (da < dw /\ ~Sound')
  <2>1. t \in AckWaiters' /\ sq' = sq => ~Sound'
    BY DEF Sound
  <2> HIDE DEF Sound, AckWaiters
  <2> QED BY <2>1
<1>6. Sound' => Sound
  BY DEF Sound
<1> HIDE DEF dw, da
<1>7. sem'["ack"].count + Cardinality(AckPosted')
        = sem["ack"].count + Cardinality(AckPosted) + da
  BY <1>1, <1>3, <1>4
<1> QED BY Balanced, <1>1, <1>2, <1>5, <1>6, <1>7

LEMMA NotPosting == ASSUME NEW t \in Threads
                    PROVE  [op |-> "read", by |-> t, msg |-> None, wr_id |-> "read"] \in Requests
BY SemFacts DEF Requests

(* The steps of a call before its wait.                                     *)
LEMMA CallBalance ==
  ASSUME VerbsInv, VerbsInv', BalanceInv, NEW t \in Threads,
         TakeSlot(t) \/ FillSlot(t) \/ PostSend(t) \/ PostSendFails(t) \/ PostWrite(t) \/ PostRead(t)
  PROVE  BalanceInv'
<1>1. t \notin AckWaiters
  BY DEF AckWaiters, Waits, TakeSlot, FillSlot, PostSend, PostSendFails, PostWrite, PostRead
<1>2. \A u \in Threads : u # t => th'[u] = th[u]
  BY DEF TakeSlot, FillSlot, PostSend, PostSendFails, PostWrite, PostRead, VerbsInv, VerbsType
<1>3. sem'["ack"] = sem["ack"] /\ state' = state
  BY SemFacts DEF TakeSlot, FillSlot, PostSend, PostSendFails, PostWrite, PostRead, VerbsInv, VerbsType
<1>4. CASE TakeSlot(t) \/ FillSlot(t)
  <2>1. t \notin AckWaiters' /\ sq' = sq /\ lost' = lost
    BY <1>4 DEF TakeSlot, FillSlot, AckWaiters, Waits, VerbsInv, VerbsType, Calls
  <2> QED BY <1>1, <1>2, <1>3, <2>1, MoveBalance, NotPosting
<1>5. CASE PostSend(t)
  <2> DEFINE r == [op |-> "send", by |-> t, msg |-> send_buf[th[t].slot],
                   wr_id |-> IF Signaled(th[t].slot) THEN "ack" ELSE None]
  <2>1. r \in Requests
    <3>1. th[t].slot \in Slots
      BY DEF VerbsInv, VerbsType, Calls
    <3> QED BY <3>1, SemFacts DEF VerbsInv, VerbsType, Requests
  <2>2. sq' = Append(sq, r) /\ lost' = lost /\ th'[t] = AfterPost(t)
    BY <1>5 DEF PostSend, VerbsInv, VerbsType
  <2>3. t \in AckWaiters' <=> r.wr_id = "ack"
    BY <1>5, <2>2, AfterPostFacts DEF AckWaiters, Waits, NoCall, PostSend, None
  <2>4. sq' # sq
    BY <2>1, <2>2, Posting DEF VerbsInv
  <2> HIDE DEF r
  <2> QED BY <1>1, <1>2, <1>3, <2>1, <2>2, <2>3, <2>4, MoveBalance
<1>6. CASE PostSendFails(t)
  <2>1. sq' = sq /\ lost' = (lost \/ Signaled(th[t].slot)) /\ th'[t] = AfterPost(t)
    BY <1>6 DEF PostSendFails, VerbsInv, VerbsType
  <2>2. t \in AckWaiters' <=> Signaled(th[t].slot)
    BY <1>6, <2>1, AfterPostFacts DEF AckWaiters, Waits, NoCall, PostSendFails
  <2> QED BY <1>1, <1>2, <1>3, <2>1, <2>2, MoveBalance, NotPosting
<1>7. CASE PostWrite(t) \/ PostRead(t)
  <2>1. PICK r \in Requests : sq' = Append(sq, r) /\ r.wr_id # "ack"
    <3>1. CASE PostWrite(t)
      <4>1. [op |-> "write", by |-> t, msg |-> None, wr_id |-> t] \in Requests
        BY SemFacts DEF Requests
      <4> QED BY <3>1, <4>1, SemFacts DEF PostWrite
    <3>2. CASE PostRead(t)
      BY <3>2, NotPosting DEF PostRead
    <3> QED BY <1>7, <3>1, <3>2
  <2>2. t \notin AckWaiters' /\ lost' = lost
    BY <1>7 DEF PostWrite, PostRead, AckWaiters, Waits, VerbsInv, VerbsType
  <2>3. sq' # sq
    BY <2>1, Posting DEF VerbsInv
  <2> QED BY <1>1, <1>2, <1>3, <2>1, <2>2, <2>3, MoveBalance
<1> QED BY <1>4, <1>5, <1>6, <1>7

(* A waiter takes an acknowledgement, or goes to sleep without one.         *)
LEMMA DownBalance ==
  ASSUME VerbsInv, VerbsInv', BalanceInv, NEW t \in Threads, Down(t)
  PROVE  BalanceInv'
<1>1. th[t].pc = "down" /\ th[t].op \in {"send", "write", "read"}
  BY DEF Down, VerbsInv, CallShape, VerbsType, Calls
<1>2. PICK s \in SemNames : s = SemOf(t)
  BY <1>1, SemOfFacts
<1>3. UNCHANGED <<sq, state, lost>> /\ Sound' = Sound
  BY DEF Down, Sound
<1>4. AckPosted' = AckPosted /\ Cardinality(AckPosted) \in Nat /\ sem["ack"].count \in Nat
  BY <1>3, PostedFinite, SemFacts DEF AckPosted, VerbsInv, VerbsType
<1>5. \A u \in Threads : u # t => th'[u] = th[u]
  BY DEF Down, Return, VerbsInv, VerbsType
<1>6. /\ IsFiniteSet(AckWaiters') /\ Cardinality(AckWaiters) \in Nat
      /\ Cardinality(AckWaiters') =
              Cardinality(AckWaiters) + (IF t \in AckWaiters' THEN 1 ELSE 0)
                                      - (IF t \in AckWaiters THEN 1 ELSE 0)
  BY <1>5, WaitersChange, AckSets, FS_CardinalityType DEF VerbsInv, BalanceInv
<1>7. t \in AckWaiters <=> s = "ack"
  BY <1>1, <1>2, SemOfFacts DEF AckWaiters, Waits
<1>8. CASE sem' = [sem EXCEPT ![s].count = @ - 1] /\ Return(t, sq)
  <2> DEFINE d == IF s = "ack" THEN 0 - 1 ELSE 0
  <2>1. t \notin AckWaiters'
    BY <1>8 DEF Return, AckWaiters, Waits, NoCall, VerbsInv, VerbsType
  <2>2. sem'["ack"].count = sem["ack"].count + d
    BY <1>2, <1>4, <1>8, SemFacts DEF VerbsInv, VerbsType
  <2>3. d \in Int /\ Cardinality(AckWaiters') = Cardinality(AckWaiters) + d
    BY <1>6, <1>7, <2>1
  <2>4. sem'["ack"].count + Cardinality(AckPosted')
          = sem["ack"].count + Cardinality(AckPosted) + d
    BY <1>4, <2>2, <2>3
  <2> HIDE DEF d
  <2> QED BY <1>3, <1>6, <2>3, <2>4, Balanced
<1>9. CASE sem' = [sem EXCEPT ![s].queue = Append(@, t)] /\ th' = [th EXCEPT ![t].pc = "sleep"]
  <2>1. t \in AckWaiters' <=> t \in AckWaiters
    BY <1>1, <1>9 DEF AckWaiters, Waits, VerbsInv, VerbsType, Calls
  <2>2. sem'["ack"].count = sem["ack"].count
    BY <1>2, <1>9, SemFacts DEF VerbsInv, VerbsType
  <2>3. Cardinality(AckWaiters') = Cardinality(AckWaiters) + 0
    BY <1>6, <2>1
  <2>4. sem'["ack"].count + Cardinality(AckPosted')
          = sem["ack"].count + Cardinality(AckPosted) + 0
    BY <1>4, <2>2
  <2> QED BY <1>3, <1>6, <2>3, <2>4, Balanced
<1> QED BY <1>2, <1>8, <1>9 DEF Down

(* A completed acknowledgement is counted or hands a waiter on; one that     *)
(* comes with an error, or after one, is gone.                              *)
LEMMA CompleteBalance ==
  ASSUME VerbsInv, VerbsInv', BalanceInv, Complete \/ CompleteFails \/ Ignored
  PROVE  BalanceInv'
<1> DEFINE s == Head(sq).wr_id
           d == IF s = "ack" THEN 0 - 1 ELSE 0
<1>1. sq # <<>> /\ sq' = Tail(sq) /\ lost' = lost /\ d \in Int
  BY DEF Complete, CompleteFails, Ignored
<1>2. /\ Cardinality(AckPosted') = Cardinality(AckPosted) + d
      /\ Cardinality(AckPosted) \in Nat /\ sem["ack"].count \in Nat
      /\ IsFiniteSet(AckWaiters) /\ Cardinality(AckWaiters) \in Nat
  <2>1. Cardinality(AckPosted) \in Nat /\ sem["ack"].count \in Nat
    BY PostedFinite, SemFacts DEF VerbsInv, VerbsType
  <2>2. IsFiniteSet(AckWaiters) /\ Cardinality(AckWaiters) \in Nat
    BY AckSets, FS_CardinalityType DEF BalanceInv
  <2> QED BY <1>1, <2>1, <2>2, PostedTail DEF VerbsInv
<1>3. CASE th' = th /\ sem' = sem /\ (s = "ack" => ~Sound') /\ (Sound' => Sound)
  <2>1. AckWaiters' = AckWaiters
    BY <1>3 DEF AckWaiters, Waits
  <2>2. IsFiniteSet(AckWaiters') /\ Cardinality(AckWaiters') = Cardinality(AckWaiters) + 0
    BY <1>2, <2>1
  <2>3. d = 0 \/ (d < 0 /\ ~Sound')
    BY <1>3
  <2>4. sem'["ack"].count + Cardinality(AckPosted')
          = sem["ack"].count + Cardinality(AckPosted) + d
    BY <1>1, <1>2, <1>3
  <2> HIDE DEF d
  <2> QED BY <1>1, <1>3, <2>2, <2>3, <2>4, Balanced
<1>4. CASE CompleteFails \/ Ignored
  BY <1>3, <1>4 DEF CompleteFails, Ignored, Sound
<1>5. CASE Complete /\ UNCHANGED <<sem, th>> /\ s = None
  BY <1>3, <1>5 DEF Complete, Sound, None
<1>6. CASE Complete /\ s # None /\ Up(s, Tail(sq))
  <2>1. s \in SemNames
    <3>1. sq[1] \in Requests /\ Head(sq) = sq[1]
      BY <1>1, Completing, RequestType DEF VerbsInv
    <3> QED BY <1>6, <3>1 DEF Requests
  <2>2. Sound' = Sound
    BY <1>6 DEF Complete, Sound
  <2>3. CASE /\ sem[s].queue = <<>>
             /\ sem' = [sem EXCEPT ![s].count = @ + 1]
             /\ th' = th
    <3>1. AckWaiters' = AckWaiters
      BY <2>3 DEF AckWaiters, Waits
    <3>2. sem'["ack"].count = sem["ack"].count + (IF s = "ack" THEN 1 ELSE 0)
      BY <1>2, <2>1, <2>3, SemFacts DEF VerbsInv, VerbsType
    <3>3. IsFiniteSet(AckWaiters') /\ Cardinality(AckWaiters') = Cardinality(AckWaiters) + 0
      BY <1>2, <3>1
    <3>4. sem'["ack"].count + Cardinality(AckPosted')
            = sem["ack"].count + Cardinality(AckPosted) + 0
      BY <1>2, <3>2
    <3> QED BY <2>2, <3>3, <3>4, Balanced
  <2>4. CASE /\ sem[s].queue # <<>>
             /\ sem' = [sem EXCEPT ![s].queue = Tail(@)]
             /\ Return(Head(sem[s].queue), Tail(sq))
    <3>1. PICK w \in Threads : /\ w = Head(sem[s].queue) /\ 1 \in DOMAIN sem[s].queue
                               /\ w = sem[s].queue[1]
      <4>1. sem[s].queue \in Seq(Threads)
        BY <2>1 DEF VerbsInv, VerbsType
      <4> QED BY <2>4, <4>1
    <3>2. th[w].pc = "sleep" /\ SemOf(w) = s /\ th[w].op \in {"send", "write", "read"}
      BY <2>1, <3>1 DEF VerbsInv, Sleepers, CallShape, VerbsType, Calls
    <3>3. w \in AckWaiters <=> s = "ack"
      BY <3>2, SemOfFacts DEF AckWaiters, Waits
    <3>4. \A u \in Threads : th'[u] = IF u = w THEN NoCall ELSE th[u]
      BY <2>4, <3>1 DEF Return, VerbsInv, VerbsType
    <3>5. w \notin AckWaiters'
      BY <3>4 DEF AckWaiters, Waits, NoCall
    <3>6. /\ IsFiniteSet(AckWaiters')
          /\ Cardinality(AckWaiters') =
                  Cardinality(AckWaiters) + (IF w \in AckWaiters' THEN 1 ELSE 0)
                                          - (IF w \in AckWaiters THEN 1 ELSE 0)
      BY <3>4, WaitersChange DEF VerbsInv
    <3>7. Cardinality(AckWaiters') = Cardinality(AckWaiters) + d
      BY <1>2, <3>3, <3>5, <3>6
    <3>8. sem'["ack"].count = sem["ack"].count
      BY <2>1, <2>4, SemFacts DEF VerbsInv, VerbsType
    <3>9. sem'["ack"].count + Cardinality(AckPosted')
            = sem["ack"].count + Cardinality(AckPosted) + d
      BY <1>1, <1>2, <3>8
    <3> HIDE DEF d
    <3> QED BY <1>1, <2>2, <3>6, <3>7, <3>9, Balanced
  <2> QED BY <1>6, <2>3, <2>4 DEF Up
<1> QED BY <1>4, <1>5, <1>6 DEF Complete

LEMMA NextBalance == VerbsInv /\ VerbsInv' /\ BalanceInv /\ [Next]_vars => BalanceInv'
<1> SUFFICES ASSUME VerbsInv, VerbsInv', BalanceInv, [Next]_vars PROVE BalanceInv'
  OBVIOUS
<1>1. CASE UNCHANGED vars
  BY <1>1 DEF vars, BalanceInv, AckBalance, Waiting, Posted, SemOf, Sound
<1> QED BY <1>1, CallBalance, DownBalance, CompleteBalance DEF Next, Proceed

(* Whoever sends, however posts and completions fail: sem_verb_ack holds or  *)
(* is about to get one acknowledgement more than there are threads that     *)
(* wait for one, and never more than that.                                  *)
THEOREM AcksBalanced == Spec => []AckBalance
<1>1. BalanceInv => AckBalance
  BY DEF BalanceInv
<1> QED BY VerbsInvariant, InitBalance, NextBalance, <1>1, PTL DEF Spec
=============================================================================
