--------------------------- MODULE KrpingConnection --------------------------
(***************************************************************************)
(* How the nodes connect (krping.c).  Node n has a control block <<n, m>>    *)
(* for every other node m; krping_doit starts a thread krping_run_all for    *)
(* each, first the servers, then the clients, and waits until all are        *)
(* ready.  A thread resolves or listens, sets its queue pair up, connects,   *)
(* tells the peer where its table of buffers is (send_buffer_info) and       *)
(* reads the peer's table (do_read_bufferptr).  It waits on cb->state, which *)
(* the handlers of connection events and completions assign.                *)
(*                                                                         *)
(* The connection manager is external: it queues events for a control block  *)
(* (cm), and it loses the link or fails where Faults says so.  The code      *)
(* orders the nodes by sleeping: 10 seconds before the clients start, 5      *)
(* before the buffer info is sent.  The fault "late" is that this was not    *)
(* enough for the servers to listen or for ESTABLISHED to be handled.       *)
(***************************************************************************)
EXTENDS Integers, Sequences, FiniteSets

CONSTANTS
  Nodes,            \* the machines
  CONF_isServer,    \* which end of a connection listens
  Faults            \* subset of {"cm", "setup", "post", "down", "late"}

End     == {e \in Nodes \X Nodes : e[1] # e[2]}
Peer(e) == <<e[2], e[1]>>

ASSUME ConnectionConstants ==
  /\ CONF_isServer \in [End -> BOOLEAN]
  /\ \A e \in End : CONF_isServer[e] = ~CONF_isServer[Peer(e)]
  /\ Faults \subseteq {"cm", "setup", "post", "down", "late"}

(* enum test_state                                                         *)
IDLE            == 1
CONNECT_REQUEST == 2
ADDR_RESOLVED   == 3
ROUTE_RESOLVED  == 4
CONNECTED       == 5
RECV_INFO       == 6
RDMA_READY      == 7
ERROR           == 8

VARIABLES
  doit,      \* progress of krping_doit on each node
  pc,        \* progress of krping_run_all of each control block
  state,     \* cb->state
  cm,        \* events of the connection manager not yet handled
  link,      \* the queue pairs of both ends are connected
  posted,    \* receives were posted
  wire,      \* the peer's buffer info is on its way to this end
  info,      \* remote_pcount, remote_rkey and remote_dmabuf_ptr are known
  read,      \* the read of the peer's table: "no", "posted", "done", "failed"
  table,     \* remote_addr holds the peer's table
  failed     \* a fault has happened (history)

vars == <<doit, pc, state, cm, link, posted, wire, info, read, table, failed>>
data == <<link, posted, wire, info, read, table>>

Goto(e, l) == pc' = [pc EXCEPT ![e] = l]

(* An event for both ends of a connection.                                  *)
Notify(e, f, event) == [x \in End |-> IF x \in {e, f} THEN Append(cm[x], event) ELSE cm[x]]

-----------------------------------------------------------------------------
(* krping_doit                                                             *)

Start(n, servers) ==
  pc' = [e \in End |-> IF e[1] = n /\ CONF_isServer[e] = servers THEN "start" ELSE pc[e]]

DoitServers(n) ==
  /\ doit[n] = "servers" /\ Start(n, TRUE)
  /\ doit' = [doit EXCEPT ![n] = "clients"]
  /\ UNCHANGED <<state, cm, data>>

ServersListen == \A e \in End : CONF_isServer[e] => pc[e] \notin {"none", "start"}

StartClients(n) ==
  /\ doit[n] = "clients" /\ Start(n, FALSE)
  /\ doit' = [doit EXCEPT ![n] = "wait"]
  /\ UNCHANGED <<state, cm, data>>

DoitClients(n)     == ServersListen /\ StartClients(n)
DoitClientsLate(n) == "late" \in Faults /\ ~ServersListen /\ StartClients(n)

(* sem_ready of every control block, then COMEX_init.                       *)
DoitReady(n) ==
  /\ doit[n] = "wait" /\ \A e \in End : e[1] = n => pc[e] = "ready"
  /\ doit' = [doit EXCEPT ![n] = "operating"]
  /\ UNCHANGED <<pc, state, cm, data>>

-----------------------------------------------------------------------------
(* krping_run_all                                                          *)

(* krping_bind_server listens; krping_bind_client asks for the address.     *)
Bind(e) ==
  /\ pc[e] = "start" /\ Goto(e, "bound")
  /\ cm' = IF CONF_isServer[e] THEN cm ELSE [cm EXCEPT ![e] = Append(@, "ADDR_RESOLVED")]
  /\ UNCHANGED <<doit, state, data>>

BindFails(e) ==
  /\ "cm" \in Faults /\ pc[e] = "start"
  /\ \/ Goto(e, "ended") /\ UNCHANGED cm
     \/ Goto(e, "bound") /\ ~CONF_isServer[e] /\ cm' = [cm EXCEPT ![e] = Append(@, "ADDR_ERROR")]
  /\ UNCHANGED <<doit, state, data>>

BindState(e) == IF CONF_isServer[e] THEN CONNECT_REQUEST ELSE ROUTE_RESOLVED

Bound(e) ==
  /\ pc[e] = "bound" /\ state[e] >= BindState(e)
  /\ Goto(e, IF state[e] = BindState(e) THEN "setup" ELSE "ended")
  /\ UNCHANGED <<doit, state, cm, data>>

(* krping_setup_qp, krping_setup_buffers, ib_post_recv                       *)
Setup(e) ==
  /\ pc[e] = "setup" /\ Goto(e, "connect")
  /\ posted' = [posted EXCEPT ![e] = TRUE]
  /\ UNCHANGED <<doit, state, cm, link, wire, info, read, table>>

SetupFails(e) ==
  /\ "setup" \in Faults /\ pc[e] = "setup" /\ Goto(e, "ended")
  /\ UNCHANGED <<doit, state, cm, data>>

(* krping_connect_client; nobody listens: the request is rejected.          *)
Connect(e) ==
  /\ pc[e] = "connect" /\ ~CONF_isServer[e] /\ Goto(e, "connecting")
  /\ cm' = IF pc[Peer(e)] = "bound"
           THEN [cm EXCEPT ![Peer(e)] = Append(@, "CONNECT_REQUEST")]
           ELSE [cm EXCEPT ![e] = Append(@, "REJECTED")]
  /\ UNCHANGED <<doit, state, data>>

(* krping_accept: both ends become connected.                               *)
Accept(e) ==
  /\ pc[e] = "connect" /\ CONF_isServer[e] /\ Goto(e, "connecting")
  /\ cm' = Notify(e, Peer(e), "ESTABLISHED")
  /\ link' = [link EXCEPT ![e] = TRUE, ![Peer(e)] = TRUE]
  /\ UNCHANGED <<doit, state, posted, wire, info, read, table>>

(* rdma_connect or rdma_accept fails: disconnect_cb.                        *)
ConnectFails(e) ==
  /\ "cm" \in Faults /\ pc[e] = "connect" /\ Goto(e, "ended")
  /\ cm' = IF CONF_isServer[e] THEN [cm EXCEPT ![Peer(e)] = Append(@, "REJECTED")] ELSE cm
  /\ UNCHANGED <<doit, state, data>>

(* Nobody answers the request.                                              *)
ConnectTimeout(e) ==
  /\ "setup" \in Faults /\ pc[e] = "connecting" /\ pc[Peer(e)] = "ended"
  /\ state[e] < CONNECTED /\ ~link[e] /\ cm[e] = <<>>
  /\ cm' = [cm EXCEPT ![e] = Append(@, "UNREACHABLE")]
  /\ UNCHANGED <<doit, pc, state, data>>

Connected(e) ==
  /\ pc[e] = "connecting" /\ state[e] \in CONNECTED .. ERROR - 1
  /\ Goto(e, "info")
  /\ UNCHANGED <<doit, state, cm, data>>

Break(e) ==
  /\ cm' = IF link[e] THEN Notify(e, Peer(e), "DISCONNECTED") ELSE cm
  /\ link' = [link EXCEPT ![e] = FALSE, ![Peer(e)] = FALSE]

(* The wait ends with an error: disconnect_cb.                              *)
NotConnected(e) ==
  /\ pc[e] = "connecting" /\ state[e] = ERROR
  /\ Goto(e, "ended") /\ Break(e)
  /\ UNCHANGED <<doit, state, posted, wire, info, read, table>>

-----------------------------------------------------------------------------
(* send_buffer_info and do_read_bufferptr                                  *)

SendInfo(e) ==
  /\ pc[e] = "info" /\ Goto(e, "await")
  /\ wire' = [wire EXCEPT ![Peer(e)] = @ \/ link[e]]
  /\ UNCHANGED <<doit, state, cm, link, posted, info, read, table>>

SendInfoFails(e) ==
  /\ "post" \in Faults /\ pc[e] = "info" /\ Goto(e, "await")
  /\ UNCHANGED <<doit, state, cm, data>>

(* variant: does not wait for the peer's info *)
PostTableReadAtOnce(e) ==
  /\ pc[e] = "await"
  /\ Goto(e, "reading") /\ read' = [read EXCEPT ![e] = "posted"]
  /\ UNCHANGED <<doit, state, cm, link, posted, wire, info, table>>

(* The state ERROR ends the wait too.                                       *)
PostTableRead(e) ==
  /\ pc[e] = "await" /\ state[e] >= RECV_INFO
  /\ Goto(e, "reading") /\ read' = [read EXCEPT ![e] = "posted"]
  /\ UNCHANGED <<doit, state, cm, link, posted, wire, info, table>>

(* The error is printed, and the thread is ready all the same.              *)
PostTableReadFails(e) ==
  /\ "post" \in Faults /\ pc[e] = "await" /\ state[e] >= RECV_INFO
  /\ Goto(e, "ready") /\ read' = [read EXCEPT ![e] = "failed"]
  /\ UNCHANGED <<doit, state, cm, link, posted, wire, info, table>>

TableRead(e) ==
  /\ pc[e] = "reading" /\ read[e] = "done"
  /\ Goto(e, "ready") /\ state' = [state EXCEPT ![e] = RDMA_READY]
  /\ UNCHANGED <<doit, cm, data>>

-----------------------------------------------------------------------------
(* Handlers                                                                *)

(* krping_cma_event_handler                                                *)
StateAfter(event) ==
  CASE event = "ADDR_RESOLVED"   -> ADDR_RESOLVED
    [] event = "ROUTE_RESOLVED"  -> ROUTE_RESOLVED
    [] event = "CONNECT_REQUEST" -> CONNECT_REQUEST
    [] event = "ESTABLISHED"     -> CONNECTED
    [] event \in {"ADDR_ERROR", "ROUTE_ERROR", "REJECTED", "UNREACHABLE",
                   "DISCONNECTED"} -> ERROR

(* variant: the event is not acted upon *)
CmFollowsNone(e, event) == <<>>
(* rdma_resolve_route is called from the handler.                           *)
CmFollows(e, event) == IF event = "ADDR_RESOLVED" THEN <<"ROUTE_RESOLVED">> ELSE <<>>

CmEvent(e) ==
  /\ cm[e] # <<>>
  /\ state' = [state EXCEPT ![e] = StateAfter(Head(cm[e]))]
  /\ cm' = [cm EXCEPT ![e] = Tail(@) \o CmFollows(e, Head(@))]
  /\ UNCHANGED <<doit, pc, data>>

(* The route cannot be resolved, at once or later.                          *)
RouteFails(e) ==
  /\ "cm" \in Faults /\ cm[e] # <<>> /\ Head(cm[e]) = "ADDR_RESOLVED"
  /\ state' = [state EXCEPT ![e] = ADDR_RESOLVED]
  /\ \E later \in {<<>>, <<"ROUTE_ERROR">>} : cm' = [cm EXCEPT ![e] = Tail(@) \o later]
  /\ UNCHANGED <<doit, pc, data>>

(* A message waits for a posted receive (rnr_retry_count is 7: without end),  *)
(* and its completion may be handled when the link has gone.                *)
InfoArrives(e) == wire[e] /\ posted[e]
Overtakes(e)   == \E k \in DOMAIN cm[e] : cm[e][k] = "ESTABLISHED"

(* universal_recv_handler, message 2; ignored in the state ERROR.           *)
TakeInfo(e) ==
  /\ InfoArrives(e)
  /\ wire' = [wire EXCEPT ![e] = FALSE]
  /\ \/ /\ state[e] # ERROR
        /\ state' = [state EXCEPT ![e] = RECV_INFO]
        /\ info'  = [info EXCEPT ![e] = TRUE]
     \/ /\ state[e] = ERROR
        /\ UNCHANGED <<state, info>>
  /\ UNCHANGED <<doit, pc, cm, link, posted, read, table>>

RecvInfo(e)     == ~Overtakes(e) /\ TakeInfo(e)
RecvInfoLate(e) == "late" \in Faults /\ Overtakes(e) /\ TakeInfo(e)

(* krping_cq_event_handler_send; a flushed request wakes nobody.            *)
ReadComplete(e) ==
  /\ read[e] = "posted" /\ link[e] /\ state[e] # ERROR
  /\ read'  = [read EXCEPT ![e] = "done"]
  /\ table' = [table EXCEPT ![e] = info[e]]
  /\ UNCHANGED <<doit, pc, state, cm, link, posted, wire, info>>

LinkDown(e) ==
  /\ "down" \in Faults /\ link[e] /\ Break(e)
  /\ UNCHANGED <<doit, pc, state, posted, wire, info, read, table>>

-----------------------------------------------------------------------------
Init ==
  /\ doit = [n \in Nodes |-> "servers"]
  /\ pc = [e \in End |-> "none"] /\ state = [e \in End |-> IDLE]
  /\ cm = [e \in End |-> <<>>]
  /\ link = [e \in End |-> FALSE] /\ posted = [e \in End |-> FALSE]
  /\ wire = [e \in End |-> FALSE] /\ info = [e \in End |-> FALSE]
  /\ read = [e \in End |-> "no"] /\ table = [e \in End |-> FALSE]
  /\ failed = FALSE

Doit(n) ==
  /\ DoitServers(n) \/ DoitClients(n) \/ DoitReady(n)
  /\ UNCHANGED failed

RunAll(e) ==
  /\ \/ Bind(e) \/ Bound(e) \/ Setup(e) \/ Connect(e) \/ Accept(e) \/ Connected(e)
     \/ NotConnected(e) \/ SendInfo(e) \/ PostTableRead(e) \/ TableRead(e)
  /\ UNCHANGED failed

Handlers(e) ==
  /\ CmEvent(e) \/ RecvInfo(e) \/ ReadComplete(e)
  /\ UNCHANGED failed

Fails ==
  /\ \/ \E n \in Nodes : DoitClientsLate(n)
     \/ \E e \in End :
          \/ BindFails(e) \/ SetupFails(e) \/ ConnectFails(e) \/ ConnectTimeout(e)
          \/ SendInfoFails(e) \/ PostTableReadFails(e) \/ RouteFails(e)
          \/ LinkDown(e) \/ RecvInfoLate(e)
  /\ failed' = TRUE

Next ==
  \/ \E n \in Nodes : Doit(n)
  \/ \E e \in End : RunAll(e) \/ Handlers(e)
  \/ Fails

Spec == Init /\ [][Next]_vars

FairSpec ==
  /\ Spec
  /\ \A n \in Nodes : WF_vars(Doit(n))
  /\ \A e \in End : WF_vars(RunAll(e)) /\ WF_vars(Handlers(e))

-----------------------------------------------------------------------------
(* Properties.                                                             *)

Events == {"ADDR_RESOLVED", "ROUTE_RESOLVED", "CONNECT_REQUEST", "ESTABLISHED",
           "ADDR_ERROR", "ROUTE_ERROR", "REJECTED", "UNREACHABLE", "DISCONNECTED"}

TypeOK ==
  /\ doit \in [Nodes -> {"servers", "clients", "wait", "operating"}]
  /\ pc \in [End -> {"none", "start", "bound", "setup", "connect", "connecting", "info",
                     "await", "reading", "ready", "ended"}]
  /\ state \in [End -> IDLE .. ERROR]
  /\ \A e \in End : \A k \in DOMAIN cm[e] : cm[e][k] \in Events
  /\ {link, posted, wire, info, table} \subseteq [End -> BOOLEAN]
  /\ read \in [End -> {"no", "posted", "done", "failed"}]
  /\ failed \in BOOLEAN

(* A thread whose read of the peer's table was posted raises sem_ready only  *)
(* when it knows the peer's buffers and the addresses in the table, which    *)
(* every write and read uses, however the connection fails meanwhile.       *)
ReadyHasTable ==
  \A e \in End : pc[e] = "ready" /\ read[e] # "failed" => info[e] /\ table[e]

(* Unless something fails, every node gets to operate: no thread waits for a *)
(* state that was overwritten.                                              *)
AllOperate == <>(failed \/ \A n \in Nodes : doit[n] = "operating")
=============================================================================
