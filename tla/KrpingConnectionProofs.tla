------------------------ MODULE KrpingConnectionProofs -----------------------
(***************************************************************************)
(* A thread that is ready has the table of its peer: for any number of       *)
(* nodes, any assignment of the listening ends and any faults.              *)
(***************************************************************************)
EXTENDS KrpingConnection, TLAPS

Pcs == {"none", "start", "bound", "setup", "connect", "connecting", "info",
        "await", "reading", "ready", "ended"}

ConnType ==
  /\ doit \in [Nodes -> {"servers", "clients", "wait", "operating"}]
  /\ pc \in [End -> Pcs]
  /\ state \in [End -> 1 .. 8]
  /\ cm \in [End -> Seq(Events)]
  /\ link \in [End -> BOOLEAN] /\ posted \in [End -> BOOLEAN] /\ wire \in [End -> BOOLEAN]
  /\ info \in [End -> BOOLEAN] /\ table \in [End -> BOOLEAN]
  /\ read \in [End -> {"no", "posted", "done", "failed"}]

(* Before its request or its answer to one an end has no link.              *)
Early == {"none", "start", "bound", "setup", "connect"}
Late  == {"info", "await", "reading", "ready"}

Errors == {"ADDR_ERROR", "ROUTE_ERROR", "REJECTED", "UNREACHABLE", "DISCONNECTED"}

Has(q, event) == \E j \in DOMAIN q : q[j] = event

(* krping_doit starts each thread once.                                     *)
NotStarted == \A e \in End :
  /\ doit[e[1]] = "servers" => pc[e] = "none"
  /\ doit[e[1]] = "clients" /\ ~CONF_isServer[e] => pc[e] = "none"

(* Until it has called, an end has at most one event to handle, of its own   *)
(* doing: the resolution of a client, the request to a server.              *)
EarlyEnd(e) ==
  /\ pc[e] \in {"none", "start"} => cm[e] = <<>> /\ state[e] = IDLE
  /\ pc[e] = "bound" /\ ~CONF_isServer[e] =>
       \/ cm[e] = <<>> /\ state[e] \in {ADDR_RESOLVED, ROUTE_RESOLVED, ERROR}
       \/ \E v \in {"ADDR_RESOLVED", "ROUTE_RESOLVED", "ADDR_ERROR", "ROUTE_ERROR"} :
            cm[e] = <<v>> /\ state[e] \in {IDLE, ADDR_RESOLVED}
  /\ pc[e] = "bound" /\ CONF_isServer[e] =>
       \/ cm[e] = <<>> /\ state[e] \in {IDLE, CONNECT_REQUEST}
       \/ cm[e] = <<"CONNECT_REQUEST">> /\ state[e] = IDLE
  /\ pc[e] \in {"setup", "connect"} => cm[e] = <<>> /\ state[e] = BindState(e)

(* From then on it only hears of the link.                                  *)
LateEvents(e) == pc[e] \notin Early =>
  \A event \in Events : Has(cm[e], event) =>
    event \in {"ESTABLISHED", "DISCONNECTED", "REJECTED", "UNREACHABLE"}

(* A server that has got the request has a client that waits for the answer. *)
Requested(e) ==
  CONF_isServer[e] /\ pc[e] \in Early /\ (cm[e] # <<>> \/ state[e] # IDLE) =>
    pc[Peer(e)] = "connecting" /\ cm[Peer(e)] = <<>> /\ state[Peer(e)] = ROUTE_RESOLVED

(* A link, and whatever comes over it, is there only after both ends have   *)
(* called, and so is never made again.                                      *)
BothCalled(e) ==
  link[e] \/ wire[e] \/ Has(cm[e], "ESTABLISHED") \/ state[e] \in CONNECTED .. RDMA_READY
          \/ pc[e] \in Late
    => pc[e] \notin Early /\ pc[Peer(e)] \notin Early

(* An error is known to an end, or on its way, only when the link is gone.  *)
ErrorUnlinked(e) ==
  link[e] => state[e] # ERROR /\ \A event \in Errors : ~Has(cm[e], event)

(* The read of the table, and what it finds.                                *)
ReadProgress(e) ==
  /\ pc[e] \notin {"reading", "ready"} => read[e] = "no"
  /\ pc[e] = "reading" => read[e] \in {"posted", "done"}
  /\ pc[e] = "ready" => read[e] \in {"done", "failed"}
  /\ state[e] \in RECV_INFO .. RDMA_READY => info[e]
  /\ read[e] = "posted" => info[e] \/ ~link[e]
  /\ read[e] = "done" => info[e] /\ table[e]

EndInv(e) ==
  /\ EarlyEnd(e) /\ LateEvents(e) /\ Requested(e) /\ BothCalled(e)
  /\ ErrorUnlinked(e) /\ ReadProgress(e)

ConnInv == ConnType /\ NotStarted /\ \A e \in End : EndInv(e)

-----------------------------------------------------------------------------
LEMMA EndFacts ==
  ASSUME NEW e \in End
  PROVE  /\ Peer(e) \in End /\ Peer(Peer(e)) = e /\ Peer(e) # e
         /\ e[1] \in Nodes
         /\ CONF_isServer[e] \in BOOLEAN
         /\ CONF_isServer[Peer(e)] = ~CONF_isServer[e]
<1>1. Peer(e) \in End /\ Peer(Peer(e)) = e /\ Peer(e) # e /\ e[1] \in Nodes
  BY DEF End, Peer
<1> QED BY <1>1, ConnectionConstants

(* What a queue of events has after a step.                                 *)
LEMMA QueueFacts ==
  ASSUME NEW q \in Seq(Events), NEW v \in Events
  PROVE  /\ <<>> \in Seq(Events) /\ <<v>> \in Seq(Events) /\ <<v>> # <<>>
         /\ \A w : ~Has(<<>>, w)
         /\ \A w : Has(<<v>>, w) <=> w = v
         /\ Append(q, v) \in Seq(Events) /\ Append(q, v) # <<>>
         /\ \A w : Has(Append(q, v), w) <=> Has(q, w) \/ w = v
         /\ q = <<>> => Append(q, v) = <<v>>
<1>1. /\ Append(q, v) \in Seq(Events) /\ Append(q, v) # <<>>
      /\ q = <<>> => Append(q, v) = <<v>>
  <2>1. Append(q, v) \in Seq(Events) /\ Len(Append(q, v)) = Len(q) + 1 /\ Len(q) \in Nat
    OBVIOUS
  <2>2. Append(q, v) # <<>>
    BY <2>1
  <2>3. Append(<<>>, v) = <<v>>
    OBVIOUS
  <2> QED BY <2>1, <2>2, <2>3
<1>2. \A w : ~Has(<<>>, w)
  BY DEF Has
<1>3. \A w : Has(<<v>>, w) <=> w = v
  BY DEF Has
<1>4. ASSUME NEW w PROVE Has(Append(q, v), w) <=> Has(q, w) \/ w = v
  <2>1. /\ DOMAIN Append(q, v) = DOMAIN q \union {Len(q) + 1}
        /\ Append(q, v)[Len(q) + 1] = v
        /\ \A j \in DOMAIN q : Append(q, v)[j] = q[j]
    OBVIOUS
  <2> QED BY <2>1 DEF Has
<1> QED BY <1>1, <1>2, <1>3, <1>4

LEMMA TailFacts ==
  ASSUME NEW q \in Seq(Events), q # <<>>
  PROVE  /\ Tail(q) \in Seq(Events) /\ Tail(q) \o <<>> = Tail(q)
         /\ Head(q) \in Events /\ Has(q, Head(q))
         /\ \A w : Has(Tail(q), w) => Has(q, w)
         /\ \A w : q = <<w>> => Head(q) = w /\ Tail(q) = <<>>
<1>1. Tail(q) \in Seq(Events) /\ Head(q) = q[1] /\ 1 \in DOMAIN q /\ Head(q) \in Events
      /\ Tail(q) \o <<>> = Tail(q)
  OBVIOUS
<1>2. Has(q, Head(q))
  BY <1>1 DEF Has
<1>3. ASSUME NEW w, Has(Tail(q), w) PROVE Has(q, w)
  <2>1. \A j \in DOMAIN Tail(q) : j + 1 \in DOMAIN q /\ Tail(q)[j] = q[j + 1]
    BY <1>1
  <2> QED BY <1>3, <2>1 DEF Has
<1>4. ASSUME NEW w, q = <<w>> PROVE Head(q) = w /\ Tail(q) = <<>>
  BY <1>4
<1> QED BY <1>1, <1>2, <1>3, <1>4

LEMMA EventTypes == {"ADDR_RESOLVED", "ROUTE_RESOLVED", "CONNECT_REQUEST", "ESTABLISHED", "ADDR_ERROR",
                     "ROUTE_ERROR", "REJECTED", "UNREACHABLE", "DISCONNECTED"} \subseteq Events
BY DEF Events

(* The states of a control block and the progress of its thread.           *)
USE DEF IDLE, CONNECT_REQUEST, ADDR_RESOLVED, ROUTE_RESOLVED, CONNECTED, RECV_INFO, RDMA_READY, ERROR,
        BindState, Early, Late, Errors, Pcs

LEMMA OneEvent == \A v, event : Has(<<v>>, event) <=> event = v
BY DEF Has

LEMMA NoEvent == \A event : ~Has(<<>>, event)
BY DEF Has

LEMMA InitConn == Init => ConnInv
<1> SUFFICES ASSUME Init PROVE ConnInv
  OBVIOUS
<1>1. ConnType /\ NotStarted
  BY EndFacts DEF Init, ConnType, Pcs, IDLE, NotStarted
<1>2. ASSUME NEW e \in End PROVE EndInv(e)
  <2>1. /\ pc[e] = "none" /\ state[e] = IDLE /\ cm[e] = <<>> /\ ~link[e] /\ ~wire[e]
        /\ read[e] = "no"
    BY DEF Init
  <2>2. \A event : ~Has(cm[e], event)
    BY <2>1 DEF Has
  <2> QED BY <2>1, <2>2 DEF EndInv, EarlyEnd, LateEvents, Requested, BothCalled, ErrorUnlinked,
                            ReadProgress, Early, Late, IDLE, CONNECTED, RDMA_READY, ERROR, RECV_INFO
<1> QED BY <1>1, <1>2 DEF ConnInv

(* A step of one connection: the other ends, and their peers, are as before. *)
Others(e) == \A x \in End : x \notin {e, Peer(e)} =>
  /\ pc'[x] = pc[x] /\ state'[x] = state[x] /\ cm'[x] = cm[x] /\ link'[x] = link[x]
  /\ wire'[x] = wire[x] /\ info'[x] = info[x] /\ read'[x] = read[x] /\ table'[x] = table[x]

LEMMA OthersKeep ==
  ASSUME ConnInv, NEW e \in End, Others(e),
         ConnType', NotStarted', EndInv(e)', EndInv(Peer(e))'
  PROVE  ConnInv'
<1> SUFFICES ASSUME NEW x \in End, x \notin {e, Peer(e)} PROVE EndInv(x)'
  BY DEF ConnInv
<1>1. Peer(x) \in End /\ Peer(x) \notin {e, Peer(e)}
  BY EndFacts
<1>2. EndInv(x)
  BY DEF ConnInv
<1> QED BY <1>1, <1>2 DEF Others, EndInv, EarlyEnd, BindState, LateEvents, Requested,
      BothCalled,
                          ErrorUnlinked, ReadProgress

LEMMA StartedKeep ==
  ASSUME ConnInv, NEW e \in End, Others(e), doit' = doit,
         \A x \in {e, Peer(e)} : pc'[x] = pc[x] \/ pc[x] # "none"
  PROVE  NotStarted'
<1>1. ASSUME NEW x \in End, pc[x] = "none" PROVE pc'[x] = "none"
  BY <1>1 DEF Others
<1> QED BY <1>1 DEF ConnInv, NotStarted

(* What is known of an end.                                                 *)
LEMMA EndType ==
  ASSUME ConnInv, NEW e \in End
  PROVE  /\ pc[e] \in Pcs /\ state[e] \in 1 .. 8 /\ cm[e] \in Seq(Events)
         /\ link[e] \in BOOLEAN /\ wire[e] \in BOOLEAN /\ info[e] \in BOOLEAN /\ table[e] \in BOOLEAN
         /\ read[e] \in {"no", "posted", "done", "failed"}
         /\ EndInv(e)
BY DEF ConnInv, ConnType

LEMMA BoundInv == ASSUME ConnInv, NEW e \in End, Bound(e) PROVE ConnInv'
<1>1. PICK p \in End : /\ p = Peer(e) /\ e = Peer(p) /\ p # e
                        /\ CONF_isServer[p] = ~CONF_isServer[e] /\ CONF_isServer[e] \in BOOLEAN
  BY EndFacts
<1>2. /\ EndInv(e) /\ EndInv(p) /\ pc[e] \in Pcs /\ pc[p] \in Pcs
      /\ state[e] \in 1 .. 8 /\ state[p] \in 1 .. 8
  BY EndType
<1>3. /\ pc[e] = "bound" /\ state[e] >= BindState(e)
      /\ pc'[e] = IF state[e] = BindState(e) THEN "setup" ELSE "ended"
      /\ state'[e] = state[e] /\ cm'[e] = cm[e] /\ link'[e] = link[e] /\ wire'[e] = wire[e]
      /\ info'[e] = info[e] /\ read'[e] = read[e] /\ table'[e] = table[e]
      /\ pc'[p] = pc[p] /\ state'[p] = state[p] /\ cm'[p] = cm[p] /\ link'[p] = link[p]
      /\ wire'[p] = wire[p] /\ info'[p] = info[p] /\ read'[p] = read[p] /\ table'[p] = table[p]
      /\ doit' = doit
  BY <1>1 DEF Bound, Goto, Break, Notify, data, ConnInv, ConnType
<1>4. Others(e)
  BY <1>1 DEF Bound, Others, Goto, Break, Notify, data, ConnInv, ConnType
<1>5. ConnType'
  BY EventTypes DEF Bound, Goto, Break, Notify, data, ConnInv, ConnType, Pcs
<1>6. NotStarted'
  BY <1>1, <1>3, <1>4, StartedKeep
<1>7. EndInv(e)'
  BY <1>1, <1>2, <1>3, NoEvent
  DEF EndInv, EarlyEnd, LateEvents, Requested, BothCalled, ErrorUnlinked, ReadProgress
<1>8. EndInv(p)'
  BY <1>1, <1>2, <1>3, NoEvent
  DEF EndInv, EarlyEnd, LateEvents, Requested, BothCalled, ErrorUnlinked, ReadProgress
<1> QED BY <1>1, <1>4, <1>5, <1>6, <1>7, <1>8, OthersKeep

LEMMA SetupInv == ASSUME ConnInv, NEW e \in End, Setup(e) PROVE ConnInv'
<1>1. PICK p \in End : /\ p = Peer(e) /\ e = Peer(p) /\ p # e
                        /\ CONF_isServer[p] = ~CONF_isServer[e] /\ CONF_isServer[e] \in BOOLEAN
  BY EndFacts
<1>2. /\ EndInv(e) /\ EndInv(p) /\ pc[e] \in Pcs /\ pc[p] \in Pcs
      /\ state[e] \in 1 .. 8 /\ state[p] \in 1 .. 8
  BY EndType
<1>3. /\ pc[e] = "setup"
      /\ pc'[e] = "connect"
      /\ state'[e] = state[e] /\ cm'[e] = cm[e] /\ link'[e] = link[e] /\ wire'[e] = wire[e]
      /\ info'[e] = info[e] /\ read'[e] = read[e] /\ table'[e] = table[e]
      /\ pc'[p] = pc[p] /\ state'[p] = state[p] /\ cm'[p] = cm[p] /\ link'[p] = link[p]
      /\ wire'[p] = wire[p] /\ info'[p] = info[p] /\ read'[p] = read[p] /\ table'[p] = table[p]
      /\ doit' = doit
  BY <1>1 DEF Setup, Goto, Break, Notify, data, ConnInv, ConnType
<1>4. Others(e)
  BY <1>1 DEF Setup, Others, Goto, Break, Notify, data, ConnInv, ConnType
<1>5. ConnType'
  BY EventTypes DEF Setup, Goto, Break, Notify, data, ConnInv, ConnType, Pcs
<1>6. NotStarted'
  BY <1>1, <1>3, <1>4, StartedKeep
<1>7. EndInv(e)'
  BY <1>1, <1>2, <1>3, NoEvent
  DEF EndInv, EarlyEnd, LateEvents, Requested, BothCalled, ErrorUnlinked, ReadProgress
<1>8. EndInv(p)'
  BY <1>1, <1>2, <1>3, NoEvent
  DEF EndInv, EarlyEnd, LateEvents, Requested, BothCalled, ErrorUnlinked, ReadProgress
<1> QED BY <1>1, <1>4, <1>5, <1>6, <1>7, <1>8, OthersKeep

LEMMA SetupFailsInv == ASSUME ConnInv, NEW e \in End, SetupFails(e) PROVE ConnInv'
<1>1. PICK p \in End : /\ p = Peer(e) /\ e = Peer(p) /\ p # e
                        /\ CONF_isServer[p] = ~CONF_isServer[e] /\ CONF_isServer[e] \in BOOLEAN
  BY EndFacts
<1>2. /\ EndInv(e) /\ EndInv(p) /\ pc[e] \in Pcs /\ pc[p] \in Pcs
      /\ state[e] \in 1 .. 8 /\ state[p] \in 1 .. 8
  BY EndType
<1>3. /\ pc[e] = "setup"
      /\ pc'[e] = "ended"
      /\ state'[e] = state[e] /\ cm'[e] = cm[e] /\ link'[e] = link[e] /\ wire'[e] = wire[e]
      /\ info'[e] = info[e] /\ read'[e] = read[e] /\ table'[e] = table[e]
      /\ pc'[p] = pc[p] /\ state'[p] = state[p] /\ cm'[p] = cm[p] /\ link'[p] = link[p]
      /\ wire'[p] = wire[p] /\ info'[p] = info[p] /\ read'[p] = read[p] /\ table'[p] = table[p]
      /\ doit' = doit
  BY <1>1 DEF SetupFails, Goto, Break, Notify, data, ConnInv, ConnType
<1>4. Others(e)
  BY <1>1 DEF SetupFails, Others, Goto, Break, Notify, data, ConnInv, ConnType
<1>5. ConnType'
  BY EventTypes DEF SetupFails, Goto, Break, Notify, data, ConnInv, ConnType, Pcs
<1>6. NotStarted'
  BY <1>1, <1>3, <1>4, StartedKeep
<1>7. EndInv(e)'
  BY <1>1, <1>2, <1>3, NoEvent
  DEF EndInv, EarlyEnd, LateEvents, Requested, BothCalled, ErrorUnlinked, ReadProgress
<1>8. EndInv(p)'
  BY <1>1, <1>2, <1>3, NoEvent
  DEF EndInv, EarlyEnd, LateEvents, Requested, BothCalled, ErrorUnlinked, ReadProgress
<1> QED BY <1>1, <1>4, <1>5, <1>6, <1>7, <1>8, OthersKeep

LEMMA ConnectedInv == ASSUME ConnInv, NEW e \in End, Connected(e) PROVE ConnInv'
<1>1. PICK p \in End : /\ p = Peer(e) /\ e = Peer(p) /\ p # e
                        /\ CONF_isServer[p] = ~CONF_isServer[e] /\ CONF_isServer[e] \in BOOLEAN
  BY EndFacts
<1>2. /\ EndInv(e) /\ EndInv(p) /\ pc[e] \in Pcs /\ pc[p] \in Pcs
      /\ state[e] \in 1 .. 8 /\ state[p] \in 1 .. 8
  BY EndType
<1>3. /\ pc[e] = "connecting" /\ state[e] \in CONNECTED .. ERROR - 1
      /\ pc'[e] = "info"
      /\ state'[e] = state[e] /\ cm'[e] = cm[e] /\ link'[e] = link[e] /\ wire'[e] = wire[e]
      /\ info'[e] = info[e] /\ read'[e] = read[e] /\ table'[e] = table[e]
      /\ pc'[p] = pc[p] /\ state'[p] = state[p] /\ cm'[p] = cm[p] /\ link'[p] = link[p]
      /\ wire'[p] = wire[p] /\ info'[p] = info[p] /\ read'[p] = read[p] /\ table'[p] = table[p]
      /\ doit' = doit
  BY <1>1 DEF Connected, Goto, Break, Notify, data, ConnInv, ConnType
<1>4. Others(e)
  BY <1>1 DEF Connected, Others, Goto, Break, Notify, data, ConnInv, ConnType
<1>5. ConnType'
  BY EventTypes DEF Connected, Goto, Break, Notify, data, ConnInv, ConnType, Pcs
<1>6. NotStarted'
  BY <1>1, <1>3, <1>4, StartedKeep
<1>7. EndInv(e)'
  BY <1>1, <1>2, <1>3, NoEvent
  DEF EndInv, EarlyEnd, LateEvents, Requested, BothCalled, ErrorUnlinked, ReadProgress
<1>8. EndInv(p)'
  BY <1>1, <1>2, <1>3, NoEvent
  DEF EndInv, EarlyEnd, LateEvents, Requested, BothCalled, ErrorUnlinked, ReadProgress
<1> QED BY <1>1, <1>4, <1>5, <1>6, <1>7, <1>8, OthersKeep

LEMMA SendInfoFailsInv == ASSUME ConnInv, NEW e \in End, SendInfoFails(e) PROVE ConnInv'
<1>1. PICK p \in End : /\ p = Peer(e) /\ e = Peer(p) /\ p # e
                        /\ CONF_isServer[p] = ~CONF_isServer[e] /\ CONF_isServer[e] \in BOOLEAN
  BY EndFacts
<1>2. /\ EndInv(e) /\ EndInv(p) /\ pc[e] \in Pcs /\ pc[p] \in Pcs
      /\ state[e] \in 1 .. 8 /\ state[p] \in 1 .. 8
  BY EndType
<1>3. /\ pc[e] = "info"
      /\ pc'[e] = "await"
      /\ state'[e] = state[e] /\ cm'[e] = cm[e] /\ link'[e] = link[e] /\ wire'[e] = wire[e]
      /\ info'[e] = info[e] /\ read'[e] = read[e] /\ table'[e] = table[e]
      /\ pc'[p] = pc[p] /\ state'[p] = state[p] /\ cm'[p] = cm[p] /\ link'[p] = link[p]
      /\ wire'[p] = wire[p] /\ info'[p] = info[p] /\ read'[p] = read[p] /\ table'[p] = table[p]
      /\ doit' = doit
  BY <1>1 DEF SendInfoFails, Goto, Break, Notify, data, ConnInv, ConnType
<1>4. Others(e)
  BY <1>1 DEF SendInfoFails, Others, Goto, Break, Notify, data, ConnInv, ConnType
<1>5. ConnType'
  BY EventTypes DEF SendInfoFails, Goto, Break, Notify, data, ConnInv, ConnType, Pcs
<1>6. NotStarted'
  BY <1>1, <1>3, <1>4, StartedKeep
<1>7. EndInv(e)'
  BY <1>1, <1>2, <1>3, NoEvent
  DEF EndInv, EarlyEnd, LateEvents, Requested, BothCalled, ErrorUnlinked, ReadProgress
<1>8. EndInv(p)'
  BY <1>1, <1>2, <1>3, NoEvent
  DEF EndInv, EarlyEnd, LateEvents, Requested, BothCalled, ErrorUnlinked, ReadProgress
<1> QED BY <1>1, <1>4, <1>5, <1>6, <1>7, <1>8, OthersKeep

LEMMA SendInfoInv == ASSUME ConnInv, NEW e \in End, SendInfo(e) PROVE ConnInv'
<1>1. PICK p \in End : /\ p = Peer(e) /\ e = Peer(p) /\ p # e
                        /\ CONF_isServer[p] = ~CONF_isServer[e] /\ CONF_isServer[e] \in BOOLEAN
  BY EndFacts
<1>2. /\ EndInv(e) /\ EndInv(p) /\ pc[e] \in Pcs /\ pc[p] \in Pcs
      /\ state[e] \in 1 .. 8 /\ state[p] \in 1 .. 8
  BY EndType
<1>3. /\ pc[e] = "info"
      /\ pc'[e] = "await"
      /\ state'[e] = state[e] /\ cm'[e] = cm[e] /\ link'[e] = link[e] /\ wire'[e] = wire[e]
      /\ info'[e] = info[e] /\ read'[e] = read[e] /\ table'[e] = table[e]
      /\ wire'[p] = (wire[p] \/ link[e])
      /\ pc'[p] = pc[p] /\ state'[p] = state[p] /\ cm'[p] = cm[p] /\ link'[p] = link[p]
      /\ info'[p] = info[p] /\ read'[p] = read[p] /\ table'[p] = table[p]
      /\ doit' = doit
  BY <1>1 DEF SendInfo, Goto, Break, Notify, data, ConnInv, ConnType
<1>4. Others(e)
  BY <1>1 DEF SendInfo, Others, Goto, Break, Notify, data, ConnInv, ConnType
<1>5. ConnType'
  BY EventTypes DEF SendInfo, Goto, Break, Notify, data, ConnInv, ConnType, Pcs
<1>6. NotStarted'
  BY <1>1, <1>3, <1>4, StartedKeep
<1>7. EndInv(e)'
  BY <1>1, <1>2, <1>3, NoEvent
  DEF EndInv, EarlyEnd, LateEvents, Requested, BothCalled, ErrorUnlinked, ReadProgress
<1>8. EndInv(p)'
  BY <1>1, <1>2, <1>3, NoEvent
  DEF EndInv, EarlyEnd, LateEvents, Requested, BothCalled, ErrorUnlinked, ReadProgress
<1> QED BY <1>1, <1>4, <1>5, <1>6, <1>7, <1>8, OthersKeep

LEMMA PostTableReadInv == ASSUME ConnInv, NEW e \in End, PostTableRead(e) PROVE ConnInv'
<1>1. PICK p \in End : /\ p = Peer(e) /\ e = Peer(p) /\ p # e
                        /\ CONF_isServer[p] = ~CONF_isServer[e] /\ CONF_isServer[e] \in BOOLEAN
  BY EndFacts
<1>2. /\ EndInv(e) /\ EndInv(p) /\ pc[e] \in Pcs /\ pc[p] \in Pcs
      /\ state[e] \in 1 .. 8 /\ state[p] \in 1 .. 8
  BY EndType
<1>3. /\ pc[e] = "await" /\ state[e] >= RECV_INFO
      /\ pc'[e] = "reading"
      /\ read'[e] = "posted"
      /\ state'[e] = state[e] /\ cm'[e] = cm[e] /\ link'[e] = link[e] /\ wire'[e] = wire[e]
      /\ info'[e] = info[e] /\ table'[e] = table[e]
      /\ pc'[p] = pc[p] /\ state'[p] = state[p] /\ cm'[p] = cm[p] /\ link'[p] = link[p]
      /\ wire'[p] = wire[p] /\ info'[p] = info[p] /\ read'[p] = read[p] /\ table'[p] = table[p]
      /\ doit' = doit
  BY <1>1 DEF PostTableRead, Goto, Break, Notify, data, ConnInv, ConnType
<1>10. info[e] \/ ~link[e]
  <2>1. state[e] \in RECV_INFO .. RDMA_READY \/ state[e] = ERROR
    BY <1>2, <1>3 DEF RECV_INFO, RDMA_READY, ERROR
  <2> QED BY <1>2, <2>1 DEF EndInv, ReadProgress, ErrorUnlinked
<1>4. Others(e)
  BY <1>1 DEF PostTableRead, Others, Goto, Break, Notify, data, ConnInv, ConnType
<1>5. ConnType'
  BY EventTypes DEF PostTableRead, Goto, Break, Notify, data, ConnInv, ConnType, Pcs
<1>6. NotStarted'
  BY <1>1, <1>3, <1>4, StartedKeep
<1>7. EndInv(e)'
  BY <1>1, <1>2, <1>3, NoEvent, <1>10
  DEF EndInv, EarlyEnd, LateEvents, Requested, BothCalled, ErrorUnlinked, ReadProgress
<1>8. EndInv(p)'
  BY <1>1, <1>2, <1>3, NoEvent, <1>10
  DEF EndInv, EarlyEnd, LateEvents, Requested, BothCalled, ErrorUnlinked, ReadProgress
<1> QED BY <1>1, <1>4, <1>5, <1>6, <1>7, <1>8, OthersKeep

LEMMA PostTableReadFailsInv == ASSUME ConnInv, NEW e \in End, PostTableReadFails(e) PROVE ConnInv'
<1>1. PICK p \in End : /\ p = Peer(e) /\ e = Peer(p) /\ p # e
                        /\ CONF_isServer[p] = ~CONF_isServer[e] /\ CONF_isServer[e] \in BOOLEAN
  BY EndFacts
<1>2. /\ EndInv(e) /\ EndInv(p) /\ pc[e] \in Pcs /\ pc[p] \in Pcs
      /\ state[e] \in 1 .. 8 /\ state[p] \in 1 .. 8
  BY EndType
<1>3. /\ pc[e] = "await" /\ state[e] >= RECV_INFO
      /\ pc'[e] = "ready"
      /\ read'[e] = "failed"
      /\ state'[e] = state[e] /\ cm'[e] = cm[e] /\ link'[e] = link[e] /\ wire'[e] = wire[e]
      /\ info'[e] = info[e] /\ table'[e] = table[e]
      /\ pc'[p] = pc[p] /\ state'[p] = state[p] /\ cm'[p] = cm[p] /\ link'[p] = link[p]
      /\ wire'[p] = wire[p] /\ info'[p] = info[p] /\ read'[p] = read[p] /\ table'[p] = table[p]
      /\ doit' = doit
  BY <1>1 DEF PostTableReadFails, Goto, Break, Notify, data, ConnInv, ConnType
<1>4. Others(e)
  BY <1>1 DEF PostTableReadFails, Others, Goto, Break, Notify, data, ConnInv, ConnType
<1>5. ConnType'
  BY EventTypes DEF PostTableReadFails, Goto, Break, Notify, data, ConnInv, ConnType, Pcs
<1>6. NotStarted'
  BY <1>1, <1>3, <1>4, StartedKeep
<1>7. EndInv(e)'
  BY <1>1, <1>2, <1>3, NoEvent
  DEF EndInv, EarlyEnd, LateEvents, Requested, BothCalled, ErrorUnlinked, ReadProgress
<1>8. EndInv(p)'
  BY <1>1, <1>2, <1>3, NoEvent
  DEF EndInv, EarlyEnd, LateEvents, Requested, BothCalled, ErrorUnlinked, ReadProgress
<1> QED BY <1>1, <1>4, <1>5, <1>6, <1>7, <1>8, OthersKeep

LEMMA TableReadInv == ASSUME ConnInv, NEW e \in End, TableRead(e) PROVE ConnInv'
<1>1. PICK p \in End : /\ p = Peer(e) /\ e = Peer(p) /\ p # e
                        /\ CONF_isServer[p] = ~CONF_isServer[e] /\ CONF_isServer[e] \in BOOLEAN
  BY EndFacts
<1>2. /\ EndInv(e) /\ EndInv(p) /\ pc[e] \in Pcs /\ pc[p] \in Pcs
      /\ state[e] \in 1 .. 8 /\ state[p] \in 1 .. 8
  BY EndType
<1>3. /\ pc[e] = "reading" /\ read[e] = "done"
      /\ pc'[e] = "ready"
      /\ state'[e] = RDMA_READY
      /\ cm'[e] = cm[e] /\ link'[e] = link[e] /\ wire'[e] = wire[e] /\ info'[e] = info[e]
      /\ read'[e] = read[e] /\ table'[e] = table[e]
      /\ pc'[p] = pc[p] /\ state'[p] = state[p] /\ cm'[p] = cm[p] /\ link'[p] = link[p]
      /\ wire'[p] = wire[p] /\ info'[p] = info[p] /\ read'[p] = read[p] /\ table'[p] = table[p]
      /\ doit' = doit
  BY <1>1 DEF TableRead, Goto, Break, Notify, data, ConnInv, ConnType
<1>4. Others(e)
  BY <1>1 DEF TableRead, Others, Goto, Break, Notify, data, ConnInv, ConnType
<1>5. ConnType'
  BY EventTypes DEF TableRead, Goto, Break, Notify, data, ConnInv, ConnType, Pcs
<1>6. NotStarted'
  BY <1>1, <1>3, <1>4, StartedKeep
<1>7. EndInv(e)'
  BY <1>1, <1>2, <1>3, NoEvent
  DEF EndInv, EarlyEnd, LateEvents, Requested, BothCalled, ErrorUnlinked, ReadProgress
<1>8. EndInv(p)'
  BY <1>1, <1>2, <1>3, NoEvent
  DEF EndInv, EarlyEnd, LateEvents, Requested, BothCalled, ErrorUnlinked, ReadProgress
<1> QED BY <1>1, <1>4, <1>5, <1>6, <1>7, <1>8, OthersKeep

LEMMA ReadCompleteInv == ASSUME ConnInv, NEW e \in End, ReadComplete(e) PROVE ConnInv'
<1>1. PICK p \in End : /\ p = Peer(e) /\ e = Peer(p) /\ p # e
                        /\ CONF_isServer[p] = ~CONF_isServer[e] /\ CONF_isServer[e] \in BOOLEAN
  BY EndFacts
<1>2. /\ EndInv(e) /\ EndInv(p) /\ pc[e] \in Pcs /\ pc[p] \in Pcs
      /\ state[e] \in 1 .. 8 /\ state[p] \in 1 .. 8
  BY EndType
<1>3. /\ read[e] = "posted" /\ link[e]
      /\ read'[e] = "done"
      /\ table'[e] = info[e]
      /\ pc'[e] = pc[e] /\ state'[e] = state[e] /\ cm'[e] = cm[e] /\ link'[e] = link[e]
      /\ wire'[e] = wire[e] /\ info'[e] = info[e]
      /\ pc'[p] = pc[p] /\ state'[p] = state[p] /\ cm'[p] = cm[p] /\ link'[p] = link[p]
      /\ wire'[p] = wire[p] /\ info'[p] = info[p] /\ read'[p] = read[p] /\ table'[p] = table[p]
      /\ doit' = doit
  BY <1>1 DEF ReadComplete, Goto, Break, Notify, data, ConnInv, ConnType
<1>4. Others(e)
  BY <1>1 DEF ReadComplete, Others, Goto, Break, Notify, data, ConnInv, ConnType
<1>5. ConnType'
  BY EventTypes DEF ReadComplete, Goto, Break, Notify, data, ConnInv, ConnType, Pcs
<1>6. NotStarted'
  BY <1>1, <1>3, <1>4, StartedKeep
<1>7. EndInv(e)'
  BY <1>1, <1>2, <1>3, NoEvent
  DEF EndInv, EarlyEnd, LateEvents, Requested, BothCalled, ErrorUnlinked, ReadProgress
<1>8. EndInv(p)'
  BY <1>1, <1>2, <1>3, NoEvent
  DEF EndInv, EarlyEnd, LateEvents, Requested, BothCalled, ErrorUnlinked, ReadProgress
<1> QED BY <1>1, <1>4, <1>5, <1>6, <1>7, <1>8, OthersKeep

LEMMA TakeInfoInv == ASSUME ConnInv, NEW e \in End, TakeInfo(e) PROVE ConnInv'
<1>1. PICK p \in End : /\ p = Peer(e) /\ e = Peer(p) /\ p # e
                        /\ CONF_isServer[p] = ~CONF_isServer[e] /\ CONF_isServer[e] \in BOOLEAN
  BY EndFacts
<1>2. /\ EndInv(e) /\ EndInv(p) /\ pc[e] \in Pcs /\ pc[p] \in Pcs
      /\ state[e] \in 1 .. 8 /\ state[p] \in 1 .. 8
  BY EndType
<1>3. /\ wire[e]
      /\ state'[e] = IF state[e] # ERROR THEN RECV_INFO ELSE ERROR
      /\ wire'[e] = FALSE
      /\ info'[e] = IF state[e] # ERROR THEN TRUE ELSE info[e]
      /\ pc'[e] = pc[e] /\ cm'[e] = cm[e] /\ link'[e] = link[e] /\ read'[e] = read[e]
      /\ table'[e] = table[e]
      /\ pc'[p] = pc[p] /\ state'[p] = state[p] /\ cm'[p] = cm[p] /\ link'[p] = link[p]
      /\ wire'[p] = wire[p] /\ info'[p] = info[p] /\ read'[p] = read[p] /\ table'[p] = table[p]
      /\ doit' = doit
  BY <1>1 DEF TakeInfo, InfoArrives, Goto, Break, Notify, data, ConnInv, ConnType
<1>4. Others(e)
  BY <1>1 DEF TakeInfo, InfoArrives, Others, Goto, Break, Notify, data, ConnInv, ConnType
<1>5. ConnType'
  <2>1. \A x \in End, v \in Events : Append(cm[x], v) \in Seq(Events)
    BY DEF ConnInv, ConnType
  <2>2. cm' \in [End -> Seq(Events)]
    BY <2>1, EventTypes DEF TakeInfo, Goto, Notify, data, ConnInv, ConnType
  <2>3. state' \in [End -> 1 .. 8]
    <3>1. state' = state \/ state' = [state EXCEPT ![e] = 6]
      BY DEF TakeInfo
    <3>2. state \in [End -> 1 .. 8] /\ 6 \in 1 .. 8
      BY DEF ConnInv, ConnType
    <3>3. CASE state' = state
      BY <3>2, <3>3
    <3>4. CASE state' = [state EXCEPT ![e] = 6]
      BY <3>2, <3>4
    <3> QED BY <3>1, <3>3, <3>4
  <2>4. /\ pc' \in [End -> Pcs] /\ info' \in [End -> BOOLEAN] /\ wire' \in [End -> BOOLEAN]
        /\ posted' \in [End -> BOOLEAN] /\ link' \in [End -> BOOLEAN]
    BY DEF TakeInfo, Goto, data, ConnInv, ConnType, Pcs
  <2> QED BY <2>2, <2>3, <2>4 DEF TakeInfo, Goto, data, ConnInv, ConnType
<1>6. NotStarted'
  BY <1>1, <1>3, <1>4, StartedKeep
<1>7. EndInv(e)'
  BY <1>1, <1>2, <1>3, NoEvent
  DEF EndInv, EarlyEnd, LateEvents, Requested, BothCalled, ErrorUnlinked, ReadProgress
<1>8. EndInv(p)'
  BY <1>1, <1>2, <1>3, NoEvent
  DEF EndInv, EarlyEnd, LateEvents, Requested, BothCalled, ErrorUnlinked, ReadProgress
<1> QED BY <1>1, <1>4, <1>5, <1>6, <1>7, <1>8, OthersKeep

LEMMA BindInv == ASSUME ConnInv, NEW e \in End, Bind(e) PROVE ConnInv'
<1>1. PICK p \in End : /\ p = Peer(e) /\ e = Peer(p) /\ p # e
                        /\ CONF_isServer[p] = ~CONF_isServer[e] /\ CONF_isServer[e] \in BOOLEAN
  BY EndFacts
<1>2. /\ EndInv(e) /\ EndInv(p) /\ pc[e] \in Pcs /\ pc[p] \in Pcs
      /\ state[e] \in 1 .. 8 /\ state[p] \in 1 .. 8
  BY EndType
<1>3. /\ pc[e] = "start" /\ cm[e] = <<>>
      /\ pc'[e] = "bound"
      /\ cm'[e] = IF CONF_isServer[e] THEN cm[e] ELSE <<"ADDR_RESOLVED">>
      /\ state'[e] = state[e] /\ link'[e] = link[e] /\ wire'[e] = wire[e] /\ info'[e] = info[e]
      /\ read'[e] = read[e] /\ table'[e] = table[e]
      /\ pc'[p] = pc[p] /\ state'[p] = state[p] /\ cm'[p] = cm[p] /\ link'[p] = link[p]
      /\ wire'[p] = wire[p] /\ info'[p] = info[p] /\ read'[p] = read[p] /\ table'[p] = table[p]
      /\ doit' = doit
  <2>1. pc[e] = "start" /\ cm[e] = <<>> /\ Append(<<>>, "ADDR_RESOLVED") = <<"ADDR_RESOLVED">>
    BY <1>2 DEF Bind, EndInv, EarlyEnd
  <2> QED BY <1>1, <2>1 DEF Bind, Goto, data, ConnInv, ConnType
<1>4. Others(e)
  BY <1>1 DEF Bind, Others, Goto, Break, Notify, data, ConnInv, ConnType
<1>5. ConnType'
  BY EventTypes DEF Bind, Goto, Break, Notify, data, ConnInv, ConnType, Pcs
<1>6. NotStarted'
  BY <1>1, <1>3, <1>4, StartedKeep
<1>7. EndInv(e)'
  BY <1>1, <1>2, <1>3, NoEvent, OneEvent
  DEF EndInv, EarlyEnd, LateEvents, Requested, BothCalled, ErrorUnlinked, ReadProgress
<1>8. EndInv(p)'
  BY <1>1, <1>2, <1>3, NoEvent, OneEvent
  DEF EndInv, EarlyEnd, LateEvents, Requested, BothCalled, ErrorUnlinked, ReadProgress
<1> QED BY <1>1, <1>4, <1>5, <1>6, <1>7, <1>8, OthersKeep

LEMMA BindFailsInv == ASSUME ConnInv, NEW e \in End, BindFails(e) PROVE ConnInv'
<1>1. PICK p \in End : /\ p = Peer(e) /\ e = Peer(p) /\ p # e
                        /\ CONF_isServer[p] = ~CONF_isServer[e] /\ CONF_isServer[e] \in BOOLEAN
  BY EndFacts
<1>2. /\ EndInv(e) /\ EndInv(p) /\ pc[e] \in Pcs /\ pc[p] \in Pcs
      /\ state[e] \in 1 .. 8 /\ state[p] \in 1 .. 8
  BY EndType
<1>3. /\ pc[e] = "start" /\ cm[e] = <<>>
      /\ \/ pc'[e] = "ended" /\ cm'[e] = cm[e]
         \/ pc'[e] = "bound" /\ ~CONF_isServer[e] /\ cm'[e] = <<"ADDR_ERROR">>
      /\ state'[e] = state[e] /\ link'[e] = link[e] /\ wire'[e] = wire[e] /\ info'[e] = info[e]
      /\ read'[e] = read[e] /\ table'[e] = table[e]
      /\ pc'[p] = pc[p] /\ state'[p] = state[p] /\ cm'[p] = cm[p] /\ link'[p] = link[p]
      /\ wire'[p] = wire[p] /\ info'[p] = info[p] /\ read'[p] = read[p] /\ table'[p] = table[p]
      /\ doit' = doit
  <2>1. pc[e] = "start" /\ cm[e] = <<>> /\ Append(<<>>, "ADDR_ERROR") = <<"ADDR_ERROR">>
    BY <1>2 DEF BindFails, EndInv, EarlyEnd
  <2> QED BY <1>1, <2>1 DEF BindFails, Goto, data, ConnInv, ConnType
<1>10. /\ ~Has(cm'[e], "ESTABLISHED") /\ state[e] = IDLE /\ ~link[e] /\ ~wire[e]
       /\ pc'[e] \notin Late
  <2>1. ~Has(cm'[e], "ESTABLISHED")
    <3>1. cm'[e] = <<>> \/ cm'[e] = <<"ADDR_ERROR">>
      BY <1>3
    <3>2. ~Has(<<>>, "ESTABLISHED") /\ ~Has(<<"ADDR_ERROR">>, "ESTABLISHED")
      BY NoEvent, OneEvent
    <3> QED BY <3>1, <3>2
  <2> QED BY <1>2, <1>3, <2>1 DEF EndInv, EarlyEnd, BothCalled, Early, Late
<1>4. Others(e)
  BY <1>1 DEF BindFails, Others, Goto, Break, Notify, data, ConnInv, ConnType
<1>5. ConnType'
  <2>1. \A x \in End, v \in Events : Append(cm[x], v) \in Seq(Events)
    BY DEF ConnInv, ConnType
  <2>2. cm' \in [End -> Seq(Events)]
    <3>1. cm' = cm \/ cm' = [cm EXCEPT ![e] = Append(@, "ADDR_ERROR")]
      BY DEF BindFails
    <3>2. Append(cm[e], "ADDR_ERROR") \in Seq(Events)
      BY <2>1, EventTypes
    <3> QED BY <3>1, <3>2 DEF ConnInv, ConnType
  <2>3. state' \in [End -> 1 .. 8]
    BY DEF BindFails, data, ConnInv, ConnType
  <2>4. /\ pc' \in [End -> Pcs] /\ info' \in [End -> BOOLEAN] /\ wire' \in [End -> BOOLEAN]
        /\ posted' \in [End -> BOOLEAN] /\ link' \in [End -> BOOLEAN]
    BY DEF BindFails, Goto, data, ConnInv, ConnType, Pcs
  <2> QED BY <2>2, <2>3, <2>4 DEF BindFails, Goto, data, ConnInv, ConnType
<1>6. NotStarted'
  BY <1>1, <1>3, <1>4, StartedKeep
<1>7. EndInv(e)'
  BY <1>1, <1>2, <1>3, NoEvent, <1>10, OneEvent
  DEF EndInv, EarlyEnd, LateEvents, Requested, BothCalled, ErrorUnlinked, ReadProgress
<1>8. EndInv(p)'
  BY <1>1, <1>2, <1>3, NoEvent, <1>10, OneEvent
  DEF EndInv, EarlyEnd, LateEvents, Requested, BothCalled, ErrorUnlinked, ReadProgress
<1> QED BY <1>1, <1>4, <1>5, <1>6, <1>7, <1>8, OthersKeep

LEMMA ConnectInv == ASSUME ConnInv, NEW e \in End, Connect(e) PROVE ConnInv'
<1>1. PICK p \in End : /\ p = Peer(e) /\ e = Peer(p) /\ p # e
                        /\ CONF_isServer[p] = ~CONF_isServer[e] /\ CONF_isServer[e] \in BOOLEAN
  BY EndFacts
<1>2. /\ EndInv(e) /\ EndInv(p) /\ pc[e] \in Pcs /\ pc[p] \in Pcs
      /\ state[e] \in 1 .. 8 /\ state[p] \in 1 .. 8
  BY EndType
<1>3. /\ pc[e] = "connect" /\ ~CONF_isServer[e] /\ cm[e] = <<>>
      /\ pc'[e] = "connecting"
      /\ cm'[e] = IF pc[p] = "bound" THEN cm[e] ELSE <<"REJECTED">>
      /\ state'[e] = state[e] /\ link'[e] = link[e] /\ wire'[e] = wire[e] /\ info'[e] = info[e]
      /\ read'[e] = read[e] /\ table'[e] = table[e]
      /\ cm'[p] = IF pc[p] = "bound" THEN <<"CONNECT_REQUEST">> ELSE cm[p]
      /\ pc'[p] = pc[p] /\ state'[p] = state[p] /\ link'[p] = link[p] /\ wire'[p] = wire[p]
      /\ info'[p] = info[p] /\ read'[p] = read[p] /\ table'[p] = table[p]
      /\ doit' = doit
  <2>1. pc[e] = "connect" /\ ~CONF_isServer[e] /\ cm[e] = <<>> /\ (pc[p] = "bound" => cm[p] = <<>>)
    BY <1>1, <1>2 DEF Connect, EndInv, EarlyEnd, Requested, Early
  <2>2. \A v \in Events : Append(<<>>, v) = <<v>>
    OBVIOUS
  <2> QED BY <1>1, <2>1, <2>2, EventTypes DEF Connect, Goto, data, ConnInv, ConnType
<1>4. Others(e)
  BY <1>1 DEF Connect, Others, Goto, Break, Notify, data, ConnInv, ConnType
<1>5. ConnType'
  <2>1. \A x \in End, v \in Events : Append(cm[x], v) \in Seq(Events)
    BY DEF ConnInv, ConnType
  <2>2. cm' \in [End -> Seq(Events)]
    BY <2>1, EventTypes DEF Connect, Goto, Notify, data, ConnInv, ConnType
  <2>3. state' \in [End -> 1 .. 8]
    BY DEF Connect, data, ConnInv, ConnType
  <2>4. /\ pc' \in [End -> Pcs] /\ info' \in [End -> BOOLEAN] /\ wire' \in [End -> BOOLEAN]
        /\ posted' \in [End -> BOOLEAN] /\ link' \in [End -> BOOLEAN]
    BY DEF Connect, Goto, data, ConnInv, ConnType, Pcs
  <2> QED BY <2>2, <2>3, <2>4 DEF Connect, Goto, data, ConnInv, ConnType
<1>6. NotStarted'
  BY <1>1, <1>3, <1>4, StartedKeep
<1>7. EndInv(e)'
  BY <1>1, <1>2, <1>3, NoEvent, OneEvent
  DEF EndInv, EarlyEnd, LateEvents, Requested, BothCalled, ErrorUnlinked, ReadProgress
<1>8. EndInv(p)'
  <2>1. EarlyEnd(p)'
    BY <1>1, <1>2, <1>3, NoEvent, OneEvent DEF EndInv, EarlyEnd, Requested, BothCalled
  <2>2. LateEvents(p)'
    BY <1>1, <1>2, <1>3, NoEvent, OneEvent DEF EndInv, LateEvents, EarlyEnd, BothCalled
  <2>3. Requested(p)'
    BY <1>1, <1>2, <1>3, NoEvent, OneEvent DEF EndInv, Requested, EarlyEnd, BothCalled
  <2>4. BothCalled(p)'
    BY <1>1, <1>2, <1>3, NoEvent, OneEvent DEF EndInv, BothCalled, EarlyEnd, Requested
  <2>5. ErrorUnlinked(p)'
    BY <1>1, <1>2, <1>3, NoEvent, OneEvent DEF EndInv, ErrorUnlinked, BothCalled, EarlyEnd
  <2>6. ReadProgress(p)'
    BY <1>1, <1>2, <1>3, NoEvent, OneEvent DEF EndInv, ReadProgress, BothCalled,
          ErrorUnlinked, EarlyEnd
  <2> QED BY <2>1, <2>2, <2>3, <2>4, <2>5, <2>6 DEF EndInv
<1> QED BY <1>1, <1>4, <1>5, <1>6, <1>7, <1>8, OthersKeep

LEMMA AcceptInv == ASSUME ConnInv, NEW e \in End, Accept(e) PROVE ConnInv'
<1>1. PICK p \in End : /\ p = Peer(e) /\ e = Peer(p) /\ p # e
                        /\ CONF_isServer[p] = ~CONF_isServer[e] /\ CONF_isServer[e] \in BOOLEAN
  BY EndFacts
<1>2. /\ EndInv(e) /\ EndInv(p) /\ pc[e] \in Pcs /\ pc[p] \in Pcs
      /\ state[e] \in 1 .. 8 /\ state[p] \in 1 .. 8
  BY EndType
<1>3. /\ pc[e] = "connect" /\ CONF_isServer[e] /\ cm[e] = <<>> /\ state[e] = CONNECT_REQUEST
      /\ pc'[e] = "connecting"
      /\ cm'[e] = <<"ESTABLISHED">>
      /\ link'[e] = TRUE
      /\ state'[e] = state[e] /\ wire'[e] = wire[e] /\ info'[e] = info[e] /\ read'[e] = read[e]
      /\ table'[e] = table[e]
      /\ cm'[p] = <<"ESTABLISHED">>
      /\ link'[p] = TRUE
      /\ pc'[p] = pc[p] /\ state'[p] = state[p] /\ wire'[p] = wire[p] /\ info'[p] = info[p]
      /\ read'[p] = read[p] /\ table'[p] = table[p]
      /\ doit' = doit
  <2>1. pc[e] = "connect" /\ CONF_isServer[e] /\ cm[e] = <<>> /\ state[e] = CONNECT_REQUEST
    BY <1>1, <1>2 DEF Accept, EndInv, EarlyEnd, BindState
  <2>2. cm[p] = <<>>
    BY <1>1, <1>2, <2>1 DEF EndInv, Requested, Early, IDLE, CONNECT_REQUEST
  <2>3. \A v \in Events : Append(<<>>, v) = <<v>>
    OBVIOUS
  <2> QED BY <1>1, <2>1, <2>2, <2>3, EventTypes
  DEF Accept, Notify, Goto, data, ConnInv, ConnType
<1>10. /\ pc[p] = "connecting" /\ state[p] = ROUTE_RESOLVED
       /\ \A v : Has(cm'[e], v) \/ Has(cm'[p], v) => v = "ESTABLISHED"
  BY <1>1, <1>2, <1>3, OneEvent DEF EndInv, Requested, Early, IDLE, CONNECT_REQUEST
<1>4. Others(e)
  BY <1>1 DEF Accept, Others, Goto, Break, Notify, data, ConnInv, ConnType
<1>5. ConnType'
  <2>1. \A x \in End, v \in Events : Append(cm[x], v) \in Seq(Events)
    BY DEF ConnInv, ConnType
  <2>2. cm' \in [End -> Seq(Events)]
    BY <2>1, EventTypes DEF Accept, Goto, Notify, data, ConnInv, ConnType
  <2>3. state' \in [End -> 1 .. 8]
    BY DEF Accept, data, ConnInv, ConnType
  <2>4. /\ pc' \in [End -> Pcs] /\ info' \in [End -> BOOLEAN] /\ wire' \in [End -> BOOLEAN]
        /\ posted' \in [End -> BOOLEAN] /\ link' \in [End -> BOOLEAN]
    BY DEF Accept, Goto, data, ConnInv, ConnType, Pcs
  <2> QED BY <2>2, <2>3, <2>4 DEF Accept, Goto, data, ConnInv, ConnType
<1>6. NotStarted'
  BY <1>1, <1>3, <1>4, StartedKeep
<1>7. EndInv(e)'
  BY <1>1, <1>2, <1>3, NoEvent, <1>10, OneEvent
  DEF EndInv, EarlyEnd, LateEvents, Requested, BothCalled, ErrorUnlinked, ReadProgress
<1>8. EndInv(p)'
  BY <1>1, <1>2, <1>3, NoEvent, <1>10, OneEvent
  DEF EndInv, EarlyEnd, LateEvents, Requested, BothCalled, ErrorUnlinked, ReadProgress
<1> QED BY <1>1, <1>4, <1>5, <1>6, <1>7, <1>8, OthersKeep

LEMMA ConnectFailsInv == ASSUME ConnInv, NEW e \in End, ConnectFails(e) PROVE ConnInv'
<1>1. PICK p \in End : /\ p = Peer(e) /\ e = Peer(p) /\ p # e
                        /\ CONF_isServer[p] = ~CONF_isServer[e] /\ CONF_isServer[e] \in BOOLEAN
  BY EndFacts
<1>2. /\ EndInv(e) /\ EndInv(p) /\ pc[e] \in Pcs /\ pc[p] \in Pcs
      /\ state[e] \in 1 .. 8 /\ state[p] \in 1 .. 8
  BY EndType
<1>3. /\ pc[e] = "connect" /\ cm[e] = <<>>
      /\ pc'[e] = "ended"
      /\ state'[e] = state[e] /\ cm'[e] = cm[e] /\ link'[e] = link[e] /\ wire'[e] = wire[e]
      /\ info'[e] = info[e] /\ read'[e] = read[e] /\ table'[e] = table[e]
      /\ cm'[p] = IF CONF_isServer[e] THEN <<"REJECTED">> ELSE cm[p]
      /\ pc'[p] = pc[p] /\ state'[p] = state[p] /\ link'[p] = link[p] /\ wire'[p] = wire[p]
      /\ info'[p] = info[p] /\ read'[p] = read[p] /\ table'[p] = table[p]
      /\ doit' = doit
  <2>1. pc[e] = "connect" /\ cm[e] = <<>>
    BY <1>1, <1>2 DEF ConnectFails, EndInv, EarlyEnd
  <2>2. CONF_isServer[e] => cm[p] = <<>>
    BY <1>1, <1>2, <2>1 DEF EndInv, EarlyEnd, Requested, BindState, Early, IDLE, CONNECT_REQUEST
  <2>3. \A v \in Events : Append(<<>>, v) = <<v>>
    OBVIOUS
  <2> QED BY <1>1, <2>1, <2>2, <2>3, EventTypes DEF ConnectFails, Goto, data, ConnInv, ConnType
<1>10. CONF_isServer[e] => pc[p] = "connecting" /\ cm[p] = <<>>
  BY <1>1, <1>2, <1>3 DEF EndInv, EarlyEnd, Requested, BindState, Early, IDLE, CONNECT_REQUEST
<1>4. Others(e)
  BY <1>1 DEF ConnectFails, Others, Goto, Break, Notify, data, ConnInv, ConnType
<1>5. ConnType'
  <2>1. \A x \in End, v \in Events : Append(cm[x], v) \in Seq(Events)
    BY DEF ConnInv, ConnType
  <2>2. cm' \in [End -> Seq(Events)]
    BY <2>1, EventTypes DEF ConnectFails, Goto, Notify, data, ConnInv, ConnType
  <2>3. state' \in [End -> 1 .. 8]
    BY DEF ConnectFails, data, ConnInv, ConnType
  <2>4. /\ pc' \in [End -> Pcs] /\ info' \in [End -> BOOLEAN] /\ wire' \in [End -> BOOLEAN]
        /\ posted' \in [End -> BOOLEAN] /\ link' \in [End -> BOOLEAN]
    BY DEF ConnectFails, Goto, data, ConnInv, ConnType, Pcs
  <2> QED BY <2>2, <2>3, <2>4 DEF ConnectFails, Goto, data, ConnInv, ConnType
<1>6. NotStarted'
  BY <1>1, <1>3, <1>4, StartedKeep
<1>7. EndInv(e)'
  BY <1>1, <1>2, <1>3, NoEvent, <1>10, OneEvent
  DEF EndInv, EarlyEnd, LateEvents, Requested, BothCalled, ErrorUnlinked, ReadProgress
<1>8. EndInv(p)'
  BY <1>1, <1>2, <1>3, NoEvent, <1>10, OneEvent
  DEF EndInv, EarlyEnd, LateEvents, Requested, BothCalled, ErrorUnlinked, ReadProgress
<1> QED BY <1>1, <1>4, <1>5, <1>6, <1>7, <1>8, OthersKeep

LEMMA ConnectTimeoutInv == ASSUME ConnInv, NEW e \in End, ConnectTimeout(e) PROVE ConnInv'
<1>1. PICK p \in End : /\ p = Peer(e) /\ e = Peer(p) /\ p # e
                        /\ CONF_isServer[p] = ~CONF_isServer[e] /\ CONF_isServer[e] \in BOOLEAN
  BY EndFacts
<1>2. /\ EndInv(e) /\ EndInv(p) /\ pc[e] \in Pcs /\ pc[p] \in Pcs
      /\ state[e] \in 1 .. 8 /\ state[p] \in 1 .. 8
  BY EndType
<1>3. /\ pc[e] = "connecting" /\ ~link[e] /\ pc[p] = "ended" /\ cm[e] = <<>>
      /\ cm'[e] = <<"UNREACHABLE">>
      /\ pc'[e] = pc[e] /\ state'[e] = state[e] /\ link'[e] = link[e] /\ wire'[e] = wire[e]
      /\ info'[e] = info[e] /\ read'[e] = read[e] /\ table'[e] = table[e]
      /\ pc'[p] = pc[p] /\ state'[p] = state[p] /\ cm'[p] = cm[p] /\ link'[p] = link[p]
      /\ wire'[p] = wire[p] /\ info'[p] = info[p] /\ read'[p] = read[p] /\ table'[p] = table[p]
      /\ doit' = doit
  <2>1. \A v \in Events : Append(<<>>, v) = <<v>>
    OBVIOUS
  <2> QED BY <1>1, <2>1, EventTypes DEF ConnectTimeout, data, ConnInv, ConnType
<1>4. Others(e)
  BY <1>1 DEF ConnectTimeout, Others, Goto, Break, Notify, data, ConnInv, ConnType
<1>5. ConnType'
  BY EventTypes DEF ConnectTimeout, Goto, Break, Notify, data, ConnInv, ConnType, Pcs
<1>6. NotStarted'
  BY <1>1, <1>3, <1>4, StartedKeep
<1>7. EndInv(e)'
  BY <1>1, <1>2, <1>3, NoEvent, OneEvent
  DEF EndInv, EarlyEnd, LateEvents, Requested, BothCalled, ErrorUnlinked, ReadProgress
<1>8. EndInv(p)'
  BY <1>1, <1>2, <1>3, NoEvent, OneEvent
  DEF EndInv, EarlyEnd, LateEvents, Requested, BothCalled, ErrorUnlinked, ReadProgress
<1> QED BY <1>1, <1>4, <1>5, <1>6, <1>7, <1>8, OthersKeep

LEMMA NotConnectedInv == ASSUME ConnInv, NEW e \in End, NotConnected(e) PROVE ConnInv'
<1>1. PICK p \in End : /\ p = Peer(e) /\ e = Peer(p) /\ p # e
                        /\ CONF_isServer[p] = ~CONF_isServer[e] /\ CONF_isServer[e] \in BOOLEAN
  BY EndFacts
<1>2. /\ EndInv(e) /\ EndInv(p) /\ pc[e] \in Pcs /\ pc[p] \in Pcs
      /\ state[e] \in 1 .. 8 /\ state[p] \in 1 .. 8
  BY EndType
<1>3. /\ pc[e] = "connecting" /\ state[e] = ERROR
      /\ pc'[e] = "ended"
      /\ link'[e] = FALSE
      /\ state'[e] = state[e] /\ cm'[e] = cm[e] /\ wire'[e] = wire[e] /\ info'[e] = info[e]
      /\ read'[e] = read[e] /\ table'[e] = table[e]
      /\ link'[p] = FALSE
      /\ pc'[p] = pc[p] /\ state'[p] = state[p] /\ cm'[p] = cm[p] /\ wire'[p] = wire[p]
      /\ info'[p] = info[p] /\ read'[p] = read[p] /\ table'[p] = table[p]
      /\ doit' = doit
  <2>1. ~link[e]
    BY <1>2 DEF NotConnected, EndInv, ErrorUnlinked
  <2> QED BY <1>1, <2>1 DEF NotConnected, Break, Goto, data, ConnInv, ConnType
<1>4. Others(e)
  BY <1>1 DEF NotConnected, Break, Others, Goto, Break, Notify, data, ConnInv, ConnType
<1>5. ConnType'
  <2>1. \A x \in End, v \in Events : Append(cm[x], v) \in Seq(Events)
    BY DEF ConnInv, ConnType
  <2>2. cm' \in [End -> Seq(Events)]
    BY <2>1, EventTypes DEF NotConnected, Break, Goto, Notify, data, ConnInv, ConnType
  <2>3. state' \in [End -> 1 .. 8]
    BY DEF NotConnected, Break, data, ConnInv, ConnType
  <2>4. /\ pc' \in [End -> Pcs] /\ info' \in [End -> BOOLEAN] /\ wire' \in [End -> BOOLEAN]
        /\ posted' \in [End -> BOOLEAN] /\ link' \in [End -> BOOLEAN]
    BY DEF NotConnected, Break, Goto, data, ConnInv, ConnType, Pcs
  <2> QED BY <2>2, <2>3, <2>4 DEF NotConnected, Break, Goto, data, ConnInv, ConnType
<1>6. NotStarted'
  BY <1>1, <1>3, <1>4, StartedKeep
<1>7. EndInv(e)'
  BY <1>1, <1>2, <1>3, NoEvent
  DEF EndInv, EarlyEnd, LateEvents, Requested, BothCalled, ErrorUnlinked, ReadProgress
<1>8. EndInv(p)'
  BY <1>1, <1>2, <1>3, NoEvent
  DEF EndInv, EarlyEnd, LateEvents, Requested, BothCalled, ErrorUnlinked, ReadProgress
<1> QED BY <1>1, <1>4, <1>5, <1>6, <1>7, <1>8, OthersKeep

LEMMA LinkDownInv == ASSUME ConnInv, NEW e \in End, LinkDown(e) PROVE ConnInv'
<1>1. PICK p \in End : /\ p = Peer(e) /\ e = Peer(p) /\ p # e
                        /\ CONF_isServer[p] = ~CONF_isServer[e] /\ CONF_isServer[e] \in BOOLEAN
  BY EndFacts
<1>2. /\ EndInv(e) /\ EndInv(p) /\ pc[e] \in Pcs /\ pc[p] \in Pcs
      /\ state[e] \in 1 .. 8 /\ state[p] \in 1 .. 8
  BY EndType
<1>3. /\ link[e]
      /\ cm'[e] = Append(cm[e], "DISCONNECTED")
      /\ link'[e] = FALSE
      /\ pc'[e] = pc[e] /\ state'[e] = state[e] /\ wire'[e] = wire[e] /\ info'[e] = info[e]
      /\ read'[e] = read[e] /\ table'[e] = table[e]
      /\ cm'[p] = Append(cm[p], "DISCONNECTED")
      /\ link'[p] = FALSE
      /\ pc'[p] = pc[p] /\ state'[p] = state[p] /\ wire'[p] = wire[p] /\ info'[p] = info[p]
      /\ read'[p] = read[p] /\ table'[p] = table[p]
      /\ doit' = doit
  BY <1>1 DEF LinkDown, Break, Goto, Break, Notify, data, ConnInv, ConnType
<1>10. \A x \in {e, p} :
         /\ Append(cm[x], "DISCONNECTED") # <<>>
         /\ \A v : Has(Append(cm[x], "DISCONNECTED"), v) <=> Has(cm[x], v) \/ v = "DISCONNECTED"
  <2> SUFFICES ASSUME NEW x \in {e, p}
               PROVE  /\ Append(cm[x], "DISCONNECTED") # <<>>
                      /\ \A v : Has(Append(cm[x], "DISCONNECTED"), v) <=>
                                   Has(cm[x], v) \/ v = "DISCONNECTED"
    OBVIOUS
  <2>1. cm[x] \in Seq(Events) /\ "DISCONNECTED" \in Events
    BY EndType, EventTypes
  <2> QED BY <2>1, QueueFacts
<1>4. Others(e)
  BY <1>1 DEF LinkDown, Break, Others, Goto, Break, Notify, data, ConnInv, ConnType
<1>5. ConnType'
  <2>1. \A x \in End, v \in Events : Append(cm[x], v) \in Seq(Events)
    BY DEF ConnInv, ConnType
  <2>2. cm' \in [End -> Seq(Events)]
    BY <2>1, EventTypes DEF LinkDown, Break, Goto, Notify, data, ConnInv, ConnType
  <2>3. state' \in [End -> 1 .. 8]
    BY DEF LinkDown, Break, data, ConnInv, ConnType
  <2>4. /\ pc' \in [End -> Pcs] /\ info' \in [End -> BOOLEAN] /\ wire' \in [End -> BOOLEAN]
        /\ posted' \in [End -> BOOLEAN] /\ link' \in [End -> BOOLEAN]
    BY DEF LinkDown, Break, Goto, data, ConnInv, ConnType, Pcs
  <2> QED BY <2>2, <2>3, <2>4 DEF LinkDown, Break, Goto, data, ConnInv, ConnType
<1>6. NotStarted'
  BY <1>1, <1>3, <1>4, StartedKeep
<1>7. EndInv(e)'
  BY <1>1, <1>2, <1>3, NoEvent, <1>10
  DEF EndInv, EarlyEnd, LateEvents, Requested, BothCalled, ErrorUnlinked, ReadProgress
<1>8. EndInv(p)'
  <2>1. EarlyEnd(p)'
    BY <1>1, <1>2, <1>3, NoEvent, <1>10 DEF EndInv, EarlyEnd, Requested, BothCalled
  <2>2. LateEvents(p)'
    BY <1>1, <1>2, <1>3, NoEvent, <1>10 DEF EndInv, LateEvents, EarlyEnd, BothCalled
  <2>3. Requested(p)'
    BY <1>1, <1>2, <1>3, NoEvent, <1>10 DEF EndInv, Requested, EarlyEnd, BothCalled
  <2>4. BothCalled(p)'
    BY <1>1, <1>2, <1>3, NoEvent, <1>10 DEF EndInv, BothCalled, EarlyEnd, Requested
  <2>5. ErrorUnlinked(p)'
    BY <1>1, <1>2, <1>3, NoEvent, <1>10 DEF EndInv, ErrorUnlinked, BothCalled, EarlyEnd
  <2>6. ReadProgress(p)'
    BY <1>1, <1>2, <1>3, NoEvent, <1>10 DEF EndInv, ReadProgress, BothCalled,
          ErrorUnlinked, EarlyEnd
  <2> QED BY <2>1, <2>2, <2>3, <2>4, <2>5, <2>6 DEF EndInv
<1> QED BY <1>1, <1>4, <1>5, <1>6, <1>7, <1>8, OthersKeep

LEMMA CmEventInv == ASSUME ConnInv, NEW e \in End, CmEvent(e) PROVE ConnInv'
<1>1. PICK p \in End : /\ p = Peer(e) /\ e = Peer(p) /\ p # e
                        /\ CONF_isServer[p] = ~CONF_isServer[e] /\ CONF_isServer[e] \in BOOLEAN
  BY EndFacts
<1>2. /\ EndInv(e) /\ EndInv(p) /\ pc[e] \in Pcs /\ pc[p] \in Pcs
      /\ state[e] \in 1 .. 8 /\ state[p] \in 1 .. 8
  BY EndType
<1>3. /\ cm[e] # <<>> /\ state'[e] = StateAfter(Head(cm[e]))
      /\ pc'[e] = pc[e] /\ link'[e] = link[e] /\ wire'[e] = wire[e] /\ info'[e] = info[e]
      /\ read'[e] = read[e] /\ table'[e] = table[e]
      /\ pc'[p] = pc[p] /\ state'[p] = state[p] /\ cm'[p] = cm[p] /\ link'[p] = link[p]
      /\ wire'[p] = wire[p] /\ info'[p] = info[p] /\ read'[p] = read[p] /\ table'[p] = table[p]
      /\ doit' = doit
  BY <1>1 DEF CmEvent, data, ConnInv, ConnType
<1>10. \/ /\ ~CONF_isServer[e] /\ pc[e] = "bound"
          /\ \/ cm'[e] = <<"ROUTE_RESOLVED">> /\ state'[e] = ADDR_RESOLVED
             \/ cm'[e] = <<>> /\ state'[e] \in {ROUTE_RESOLVED, ERROR}
       \/ /\ CONF_isServer[e] /\ pc[e] = "bound"
          /\ cm'[e] = <<>> /\ state'[e] = CONNECT_REQUEST
       \/ /\ pc[e] \notin Early /\ \A v : Has(cm'[e], v) => Has(cm[e], v)
          /\ \/ Has(cm[e], "ESTABLISHED") /\ state'[e] = CONNECTED
             \/ state'[e] = ERROR /\ \E v \in Errors : Has(cm[e], v)
  <2>1. cm[e] \in Seq(Events) /\ cm'[e] = Tail(cm[e]) \o CmFollows(e, Head(cm[e]))
    BY <1>1, EndType DEF CmEvent, ConnInv, ConnType
  <2>2. CASE pc[e] \in Early
    <3>1. /\ pc[e] = "bound"
          /\ \E v \in {"ADDR_RESOLVED", "ROUTE_RESOLVED", "ADDR_ERROR", "ROUTE_ERROR", "CONNECT_REQUEST"} :
               cm[e] = <<v>> /\ (CONF_isServer[e] <=> v = "CONNECT_REQUEST")
      BY <1>1, <1>2, <1>3, <2>2 DEF EndInv, EarlyEnd, Early
    <3>2. PICK v \in {"ADDR_RESOLVED", "ROUTE_RESOLVED", "ADDR_ERROR", "ROUTE_ERROR", "CONNECT_REQUEST"} :
            cm[e] = <<v>> /\ (CONF_isServer[e] <=> v = "CONNECT_REQUEST")
      BY <3>1
    <3>3. Head(cm[e]) = v /\ Tail(cm[e]) = <<>>
      BY <2>1, <1>3, <3>2, TailFacts
    <3>4. <<>> \o <<"ROUTE_RESOLVED">> = <<"ROUTE_RESOLVED">> /\ <<>> \o <<>> = <<>>
      OBVIOUS
    <3>5. cm'[e] = IF v = "ADDR_RESOLVED" THEN <<"ROUTE_RESOLVED">> ELSE <<>>
      BY <2>1, <3>3, <3>4 DEF CmFollows
    <3>6. state'[e] = CASE v = "ADDR_RESOLVED" -> ADDR_RESOLVED [] v = "ROUTE_RESOLVED" -> ROUTE_RESOLVED
                        [] v = "CONNECT_REQUEST" -> CONNECT_REQUEST [] v \in {"ADDR_ERROR", "ROUTE_ERROR"} -> ERROR
      BY <1>3, <3>2, <3>3 DEF StateAfter
    <3> QED BY <1>1, <3>1, <3>2, <3>5, <3>6
  <2>3. CASE pc[e] \notin Early
    <3>1. Head(cm[e]) \in Events /\ Has(cm[e], Head(cm[e]))
      BY <1>3, <2>1, TailFacts
    <3>2. Head(cm[e]) \in {"ESTABLISHED", "DISCONNECTED", "REJECTED", "UNREACHABLE"}
      BY <1>2, <2>3, <3>1 DEF EndInv, LateEvents
    <3>3. cm'[e] = Tail(cm[e])
      BY <1>3, <2>1, <3>2, TailFacts DEF CmFollows
    <3>4. state'[e] = IF Head(cm[e]) = "ESTABLISHED" THEN CONNECTED ELSE ERROR
      BY <1>3, <3>2 DEF StateAfter
    <3> QED BY <1>3, <2>1, <2>3, <3>1, <3>2, <3>3, <3>4, TailFacts DEF Errors
  <2> QED BY <2>2, <2>3
<1>11. /\ Has(cm'[e], "ESTABLISHED") => Has(cm[e], "ESTABLISHED")
       /\ state'[e] \in CONNECTED .. RDMA_READY => Has(cm[e], "ESTABLISHED")
  <2>1. ~Has(<<>>, "ESTABLISHED") /\ ~Has(<<"ROUTE_RESOLVED">>, "ESTABLISHED")
    BY NoEvent, OneEvent
  <2>2. CASE pc[e] = "bound"
    <3>1. cm'[e] = <<>> \/ cm'[e] = <<"ROUTE_RESOLVED">>
      BY <1>10, <2>2 DEF Early
    <3>2. state'[e] \in {ADDR_RESOLVED, ROUTE_RESOLVED, CONNECT_REQUEST, ERROR}
      BY <1>10, <2>2 DEF Early
    <3>3. state'[e] \notin CONNECTED .. RDMA_READY
      BY <3>2 DEF IDLE, CONNECT_REQUEST, ADDR_RESOLVED, ROUTE_RESOLVED, CONNECTED,
            RECV_INFO, RDMA_READY, ERROR
    <3> QED BY <2>1, <3>1, <3>3
  <2>3. CASE pc[e] # "bound"
    <3>1. \/ Has(cm[e], "ESTABLISHED")
          \/ state'[e] = ERROR
      BY <1>10, <2>3
    <3>2. ERROR \notin CONNECTED .. RDMA_READY
      BY DEF ERROR, RDMA_READY
    <3> QED BY <1>10, <2>3, <3>1, <3>2
  <2> QED BY <2>2, <2>3
<1>4. Others(e)
  BY <1>1 DEF CmEvent, Others, Goto, Break, Notify, data, ConnInv, ConnType
<1>5. ConnType'
  <2>1. \A x \in End, v \in Events : Append(cm[x], v) \in Seq(Events)
    BY DEF ConnInv, ConnType
  <2>2. cm' \in [End -> Seq(Events)]
    <3>1. cm[e] \in Seq(Events) /\ Tail(cm[e]) \in Seq(Events)
      BY <1>3, EndType, TailFacts
    <3>2. CmFollows(e, Head(cm[e])) \in Seq(Events)
      BY EventTypes DEF CmFollows
    <3>3. Tail(cm[e]) \o CmFollows(e, Head(cm[e])) \in Seq(Events)
      BY <3>1, <3>2
    <3> QED BY <3>3 DEF CmEvent, ConnInv, ConnType
  <2>3. state' \in [End -> 1 .. 8]
    <3>1. Head(cm[e]) \in Events
      BY <1>3, EndType, TailFacts
    <3>2. StateAfter(Head(cm[e])) \in 1 .. 8
      BY <3>1 DEF Events, StateAfter, ADDR_RESOLVED, ROUTE_RESOLVED,
            CONNECT_REQUEST, CONNECTED, ERROR
    <3> QED BY <3>2 DEF CmEvent, ConnInv, ConnType
  <2>4. /\ pc' \in [End -> Pcs] /\ info' \in [End -> BOOLEAN] /\ wire' \in [End -> BOOLEAN]
        /\ posted' \in [End -> BOOLEAN] /\ link' \in [End -> BOOLEAN]
    BY DEF CmEvent, Goto, data, ConnInv, ConnType, Pcs
  <2> QED BY <2>2, <2>3, <2>4 DEF CmEvent, Goto, data, ConnInv, ConnType
<1>6. NotStarted'
  BY <1>1, <1>3, <1>4, StartedKeep
<1>7. EndInv(e)'
  BY <1>1, <1>2, <1>3, NoEvent, <1>10, OneEvent, <1>11
  DEF EndInv, EarlyEnd, LateEvents, Requested, BothCalled, ErrorUnlinked, ReadProgress
<1>8. EndInv(p)'
  BY <1>1, <1>2, <1>3, NoEvent, <1>10, OneEvent, <1>11
  DEF EndInv, EarlyEnd, LateEvents, Requested, BothCalled, ErrorUnlinked, ReadProgress
<1> QED BY <1>1, <1>4, <1>5, <1>6, <1>7, <1>8, OthersKeep

LEMMA RouteFailsInv == ASSUME ConnInv, NEW e \in End, RouteFails(e) PROVE ConnInv'
<1>1. PICK p \in End : /\ p = Peer(e) /\ e = Peer(p) /\ p # e
                        /\ CONF_isServer[p] = ~CONF_isServer[e] /\ CONF_isServer[e] \in BOOLEAN
  BY EndFacts
<1>2. /\ EndInv(e) /\ EndInv(p) /\ pc[e] \in Pcs /\ pc[p] \in Pcs
      /\ state[e] \in 1 .. 8 /\ state[p] \in 1 .. 8
  BY EndType
<1>3. /\ cm[e] = <<"ADDR_RESOLVED">> /\ pc[e] = "bound" /\ state'[e] = ADDR_RESOLVED
      /\ cm'[e] \in {<<>>, <<"ROUTE_ERROR">>}
      /\ pc'[e] = pc[e] /\ link'[e] = link[e] /\ wire'[e] = wire[e] /\ info'[e] = info[e]
      /\ read'[e] = read[e] /\ table'[e] = table[e]
      /\ pc'[p] = pc[p] /\ state'[p] = state[p] /\ cm'[p] = cm[p] /\ link'[p] = link[p]
      /\ wire'[p] = wire[p] /\ info'[p] = info[p] /\ read'[p] = read[p] /\ table'[p] = table[p]
      /\ doit' = doit
  <2>1. cm[e] \in Seq(Events) /\ cm[e] # <<>> /\ Head(cm[e]) = "ADDR_RESOLVED"
    BY EndType DEF RouteFails
  <2>2. pc[e] \in Early
    BY <1>2, <2>1, TailFacts, EventTypes DEF EndInv, LateEvents
  <2>3. pc[e] = "bound" /\ \E v \in Events : cm[e] = <<v>>
    BY <1>2, <2>1, <2>2, EventTypes DEF EndInv, EarlyEnd, Early
  <2>4. cm[e] = <<"ADDR_RESOLVED">> /\ Tail(cm[e]) = <<>>
    BY <2>1, <2>3, TailFacts
  <2>5. <<>> \o <<"ROUTE_ERROR">> = <<"ROUTE_ERROR">> /\ <<>> \o <<>> = <<>>
    OBVIOUS
  <2> QED BY <1>1, <2>3, <2>4, <2>5 DEF RouteFails, data, ConnInv, ConnType
<1>4. Others(e)
  BY <1>1 DEF RouteFails, Others, Goto, Break, Notify, data, ConnInv, ConnType
<1>5. ConnType'
  <2>1. \A x \in End, v \in Events : Append(cm[x], v) \in Seq(Events)
    BY DEF ConnInv, ConnType
  <2>2. cm' \in [End -> Seq(Events)]
    <3>1. cm'[e] \in Seq(Events)
      <4>1. <<>> \in Seq(Events) /\ \A v \in Events : <<v>> \in Seq(Events)
        OBVIOUS
      <4> QED BY <1>3, <4>1, EventTypes
    <3> QED BY <3>1 DEF RouteFails, ConnInv, ConnType
  <2>3. state' \in [End -> 1 .. 8]
    BY DEF RouteFails, ConnInv, ConnType, ADDR_RESOLVED
  <2>4. /\ pc' \in [End -> Pcs] /\ info' \in [End -> BOOLEAN] /\ wire' \in [End -> BOOLEAN]
        /\ posted' \in [End -> BOOLEAN] /\ link' \in [End -> BOOLEAN]
    BY DEF RouteFails, Goto, data, ConnInv, ConnType, Pcs
  <2> QED BY <2>2, <2>3, <2>4 DEF RouteFails, Goto, data, ConnInv, ConnType
<1>6. NotStarted'
  BY <1>1, <1>3, <1>4, StartedKeep
<1>7. EndInv(e)'
  BY <1>1, <1>2, <1>3, NoEvent, OneEvent
  DEF EndInv, EarlyEnd, LateEvents, Requested, BothCalled, ErrorUnlinked, ReadProgress
<1>8. EndInv(p)'
  BY <1>1, <1>2, <1>3, NoEvent, OneEvent
  DEF EndInv, EarlyEnd, LateEvents, Requested, BothCalled, ErrorUnlinked, ReadProgress
<1> QED BY <1>1, <1>4, <1>5, <1>6, <1>7, <1>8, OthersKeep

(* krping_doit starts threads that were not started.                        *)
LEMMA StartInv ==
  ASSUME ConnInv, NEW n \in Nodes, NEW servers \in BOOLEAN, Start(n, servers),
         doit[n] = (IF servers THEN "servers" ELSE "clients"),
         doit' = [doit EXCEPT ![n] = IF servers THEN "clients" ELSE "wait"],
         UNCHANGED <<state, cm, data>>
  PROVE  ConnInv'
<1>1. \A x \in End : \/ pc'[x] = pc[x]
                     \/ pc[x] = "none" /\ pc'[x] = "start" /\ x[1] = n /\ CONF_isServer[x] = servers
  BY EndFacts DEF Start, ConnInv, NotStarted
<1>2. ConnType'
  <2>1. pc' \in [End -> Pcs]
    BY DEF Start, ConnInv, ConnType, Pcs
  <2>2. doit' \in [Nodes -> {"servers", "clients", "wait", "operating"}]
    BY DEF ConnInv, ConnType
  <2> QED BY <2>1, <2>2 DEF data, ConnInv, ConnType
<1>3. NotStarted'
  <2> SUFFICES ASSUME NEW x \in End
               PROVE  /\ doit'[x[1]] = "servers" => pc'[x] = "none"
                      /\ doit'[x[1]] = "clients" /\ ~CONF_isServer[x] => pc'[x] = "none"
    BY DEF NotStarted
  <2>1. x[1] \in Nodes /\ CONF_isServer[x] \in BOOLEAN
    BY EndFacts
  <2>2. doit'[x[1]] = IF x[1] = n THEN IF servers THEN "clients" ELSE "wait" ELSE doit[x[1]]
    BY <2>1 DEF ConnInv, ConnType
  <2>3. /\ doit[x[1]] = "servers" => pc[x] = "none"
        /\ doit[x[1]] = "clients" /\ ~CONF_isServer[x] => pc[x] = "none"
    BY DEF ConnInv, NotStarted
  <2>4. CASE x[1] = n
    BY <1>1, <2>1, <2>2, <2>3, <2>4
  <2>5. CASE x[1] # n
    BY <1>1, <2>2, <2>3, <2>5
  <2> QED BY <2>4, <2>5
<1>4. ASSUME NEW x \in End PROVE EndInv(x)'
  <2>1. /\ pc'[x] = pc[x] \/ (pc[x] = "none" /\ pc'[x] = "start")
        /\ pc'[Peer(x)] = pc[Peer(x)] \/ (pc[Peer(x)] = "none" /\ pc'[Peer(x)] = "start")
    BY <1>1, EndFacts
  <2>2. EndInv(x) /\ UNCHANGED <<state, cm, link, wire, info, read, table>>
    BY DEF ConnInv, data
  <2>3. EarlyEnd(x)' /\ LateEvents(x)' /\ Requested(x)'
    BY <2>1, <2>2 DEF EndInv, EarlyEnd, LateEvents, Requested, BindState, Early
  <2>4. BothCalled(x)' /\ ErrorUnlinked(x)' /\ ReadProgress(x)'
    BY <2>1, <2>2 DEF EndInv, BothCalled, ErrorUnlinked, ReadProgress, Early, Late
  <2> QED BY <2>3, <2>4 DEF EndInv
<1> QED BY <1>2, <1>3, <1>4 DEF ConnInv

LEMMA DoitInv ==
  ASSUME ConnInv, NEW n \in Nodes,
         DoitServers(n) \/ DoitClients(n) \/ DoitClientsLate(n) \/ DoitReady(n)
  PROVE  ConnInv'
<1>1. CASE DoitServers(n)
  BY <1>1, StartInv DEF DoitServers
<1>2. CASE DoitClients(n) \/ DoitClientsLate(n)
  BY <1>2, StartInv DEF DoitClients, DoitClientsLate, StartClients
<1>3. CASE DoitReady(n)
  <2>1. doit' = [doit EXCEPT ![n] = "operating"] /\ UNCHANGED <<pc, state, cm, data>>
    BY <1>3 DEF DoitReady
  <2>2. ConnType' /\ NotStarted'
    BY <2>1, EndFacts DEF data, ConnInv, ConnType, NotStarted
  <2>3. \A x \in End : EndInv(x)'
    BY <2>1 DEF data, ConnInv, EndInv, EarlyEnd, BindState, LateEvents, Requested, BothCalled,
                ErrorUnlinked, ReadProgress
  <2> QED BY <2>2, <2>3 DEF ConnInv
<1> QED BY <1>1, <1>2, <1>3

LEMMA NextConn == ConnInv /\ [Next]_vars => ConnInv'
<1> SUFFICES ASSUME ConnInv, [Next]_vars PROVE ConnInv'
  OBVIOUS
<1>1. CASE UNCHANGED vars
  BY <1>1 DEF vars, ConnInv, ConnType, NotStarted, EndInv, EarlyEnd, BindState, LateEvents,
              Requested, BothCalled, ErrorUnlinked, ReadProgress
<1>2. ASSUME NEW n \in Nodes, Doit(n) PROVE ConnInv'
  BY <1>2, DoitInv DEF Doit
<1>3. ASSUME NEW e \in End, RunAll(e) PROVE ConnInv'
  BY <1>3, BindInv, BoundInv, SetupInv, ConnectInv, AcceptInv, ConnectedInv, NotConnectedInv,
     SendInfoInv, PostTableReadInv, TableReadInv DEF RunAll
<1>4. ASSUME NEW e \in End, Handlers(e) PROVE ConnInv'
  BY <1>4, CmEventInv, TakeInfoInv, ReadCompleteInv DEF Handlers, RecvInfo
<1>5. CASE Fails
  BY <1>5, DoitInv, BindFailsInv, SetupFailsInv, ConnectFailsInv, ConnectTimeoutInv,
        SendInfoFailsInv,
     PostTableReadFailsInv, RouteFailsInv, LinkDownInv, TakeInfoInv DEF Fails, RecvInfoLate
<1> QED BY <1>1, <1>2, <1>3, <1>4, <1>5 DEF Next

(* The progress of both ends of a connection, their events and the link      *)
(* agree, under every fault.                                                *)
THEOREM ConnInvariant == Spec => []ConnInv
BY InitConn, NextConn, PTL DEF Spec

(* A thread that raises sem_ready after its read of the peer's table was     *)
(* posted knows the peer's buffers and its addresses: the state ERROR, which *)
(* ends the wait for the buffer info too, is only assigned to an end that    *)
(* has lost its link for good, so that such a read never completes.         *)
THEOREM ReadyKnowsPeer == Spec => []ReadyHasTable
<1>1. ConnInv => ReadyHasTable
  BY DEF ConnInv, EndInv, ReadProgress, ReadyHasTable
<1> QED BY ConnInvariant, <1>1, PTL
=============================================================================
