---------------------------- MODULE RtmqBroker ----------------------------
(***************************************************************************)
(* The RTMQ broker (lib/rtmq/server) and the forwarder (exec/frwder) that  *)
(* runs two of its contexts: the listen servers connect to "forward", the  *)
(* business servers to "backend".  A message that arrives in forward is    *)
(* published in backend, to one subscriber of every group; one that        *)
(* arrives in backend is sent to one node of forward.                      *)
(*                                                                         *)
(* Threads of a context: the listener, the receivers (rtmq_rsvr), the      *)
(* workers and the distributor.  Between them: connq, recvq, distq and     *)
(* sendq (atomic here, see Queue), the receivers' command pipes, the map    *)
(* from nodes to receivers and the subscription table.                     *)
(* Time passes in units of 31 seconds: idle for one unit is "more than 30  *)
(* s", for two "60 s or more".                                             *)
(***************************************************************************)
EXTENDS Integers, Sequences, FiniteSets

CONSTANTS
    Ctxs,               \* the broker contexts of the process
    Conns,              \* TCP connections; each is used once
    CtxOf, NidOf, GidOf,\* of a connection: the context, its node, its group
    Types,              \* message types
    RecvThdNum,         \* context -> number of receiver threads
    Recvqs,             \* the receive queues of a context
    ConnqMax, RecvqMax, DistqMax, SendqMax, PipeMax, IovMax,
    NodeToSvrMax,       \* RTRD_NODE_TO_SVR_MAX_LEN
    BufMesgs,           \* messages that fit into a receive buffer
    Bufs,               \* receive buffers the allocator can hand out
    Scripts,            \* what the clients send: connection -> messages, in order
    Closing,            \* the connections whose client may close
    Up,                 \* connections of receiver 0, authenticated before the start
    MaxTick             \* bound: units of time that pass

VARIABLES
    script,     \* the one of Scripts that the clients follow
    conn,       \* connection -> its rtmq_sck_t
    got,        \* connection -> what its client received
    lsid,       \* context -> lsn->sid
    connq, cmd, sendq,  \* context -> receiver -> queue
    recvq,      \* context -> receive queue -> items
    distq,      \* context -> messages
    map,        \* context -> node -> receivers (node_to_svr_map)
    sub,        \* context -> type -> group -> connections
    pend,       \* context -> receiver -> the step of rtmq_sub_add it is in
    ref,        \* receive buffer -> reference count (mref)
    lost,       \* context -> receiver -> commands a full pipe has dropped
    aborted,    \* a buffer was released once too often: mref_dec asserts
    ticks       \* units of time passed

vars == <<script, conn, got, lsid, connq, cmd, sendq, recvq, distq, map, sub,
          pend, ref, lost, aborted, ticks>>

Nids == {NidOf[c] : c \in Conns}
Gids == {GidOf[c] : c \in Conns}
Rsvrs(x) == 0 .. RecvThdNum[x] - 1
NoNid == "none"
NoBuf == 0
NoPend == <<>>
Ack(kind) == [kind |-> kind, id |-> 0, type |-> kind, dest |-> NoNid, good |-> TRUE]

Requests == [kind : {"AUTH_REQ", "SUB_REQ", "KPALIVE_REQ", "EXP"}, id : Nat,
             type : Types \cup {"sys"}, dest : Nids \cup {NoNid}, good : BOOLEAN]

(* The forwarder's two contexts; a node and a group are never "none".  A     *)
(* connection of Up is the only one of its context, and has a buffer.  What  *)
(* a proxy sends: AUTH_REQ only as the first message of a connection (and    *)
(* not on those of Up, which have sent it), subscriptions to types.          *)
ASSUME BrokerAssumption ==
    /\ Ctxs = {"forward", "backend"} /\ IsFiniteSet(Conns) /\ IsFiniteSet(Recvqs)
    /\ CtxOf \in [Conns -> Ctxs] /\ NidOf \in [Conns -> Nids] /\ GidOf \in [Conns -> Gids]
    /\ NoNid \notin Nids
    /\ RecvThdNum \in [Ctxs -> Nat \ {0}]
    /\ {ConnqMax, RecvqMax, DistqMax, SendqMax, PipeMax, IovMax, MaxTick} \subseteq Nat
    /\ NodeToSvrMax \in Nat \ {0} /\ BufMesgs \in Nat \ {0}
    /\ Bufs \subseteq Nat \ {NoBuf}
    /\ Up \subseteq Conns /\ \A c, d \in Up : CtxOf[c] = CtxOf[d] => c = d
    /\ \E f \in [Up -> Bufs] : \A c, d \in Up : f[c] = f[d] => c = d
    /\ Scripts \subseteq [Conns -> Seq(Requests)]
    /\ \A sc \in Scripts, c \in Conns : \A i \in DOMAIN sc[c] :
          /\ sc[c][i].kind = "AUTH_REQ" => i = 1 /\ c \notin Up
          /\ sc[c][i].kind = "SUB_REQ" => sc[c][i].type \in Types

(* An id other than 0 marks one message: no client sends it twice.  The       *)
(* connections of a node in backend are of one group: node and group are     *)
(* those of the one configuration of its process.                            *)
ASSUME MesgAssumption ==
    /\ \A sc \in Scripts : \A c, d \in Conns : \A i \in DOMAIN sc[c], j \in DOMAIN sc[d] :
          /\ sc[c][i].kind = "EXP" /\ sc[d][j].kind = "EXP"
          /\ sc[c][i].id = sc[d][j].id /\ sc[c][i].id # 0
          => c = d /\ i = j
    /\ \A c, d \in Conns :
          CtxOf[c] = "backend" /\ CtxOf[d] = "backend" /\ NidOf[c] = NidOf[d] => GidOf[c] = GidOf[d]

FreshSck == [st |-> "new", rsvr |-> 0, nid |-> NoNid, gid |-> 0, auth |-> FALSE,
             subs |-> {}, base |-> NoBuf, used |-> 0, rd |-> 0, wr |-> 0,
             peer |-> TRUE, n |-> 0, mesg |-> <<>>, iov |-> <<>>, idx |-> 0]

(* A receiver has a queue of each kind. *)
EmptyQueues == [x \in Ctxs |-> [r \in Rsvrs(x) |-> <<>>]]

(* rtmq_init and rtmq_launch leave empty tables and queues and running       *)
(* threads; the connections of Up, one a context, have then been accepted   *)
(* and have authenticated.                                                  *)
Init ==
    /\ script \in Scripts
    /\ LET f == CHOOSE f \in [Up -> Bufs] : \A c, d \in Up : f[c] = f[d] => c = d IN
         /\ conn = [c \in Conns |-> IF c \notin Up THEN FreshSck ELSE
                      [FreshSck EXCEPT !.st = "live", !.nid = NidOf[c], !.gid = GidOf[c],
                                       !.auth = TRUE, !.base = f[c]]]
         /\ ref = [b \in Bufs |-> IF \E c \in Up : f[c] = b THEN 1 ELSE 0]
    /\ got = [c \in Conns |-> <<>>]
    /\ lsid = [x \in Ctxs |-> Cardinality({c \in Up : CtxOf[c] = x})]
    /\ connq = EmptyQueues /\ cmd = EmptyQueues /\ sendq = EmptyQueues
    /\ recvq = [x \in Ctxs |-> [q \in Recvqs |-> <<>>]]
    /\ distq = [x \in Ctxs |-> <<>>]
    /\ map = [x \in Ctxs |-> [n \in Nids |->
                 IF \E c \in Up : CtxOf[c] = x /\ NidOf[c] = n THEN <<0>> ELSE <<>>]]
    /\ sub = [x \in Ctxs |-> <<>>]
    /\ pend = [x \in Ctxs |-> [r \in Rsvrs(x) |-> NoPend]]
    /\ lost = [x \in Ctxs |-> [r \in Rsvrs(x) |-> {}]]
    /\ aborted = FALSE
    /\ ticks = 0

-----------------------------------------------------------------------------
(* The tables. *)

(* node -> receivers: a list with one entry per connection of the node. *)
MapAdd(m, n, r) == [m EXCEPT ![n] = Append(@, r)]
MapFullNever(m, n) == FALSE \* mutant: no limit
MapFull(m, n) == Len(m[n]) >= NodeToSvrMax

MapDelNever(m, n, r) == m \* mutant: the entry stays

(* The first entry for r is overwritten with the last one. *)
MapDel(m, n, r) ==
    IF n \notin Nids \/ ~\E i \in DOMAIN m[n] : m[n][i] = r THEN m
    ELSE LET l == m[n]
             i == CHOOSE j \in DOMAIN l : l[j] = r /\ \A k \in 1 .. j - 1 : l[k] # r
         IN [m EXCEPT ![n] = SubSeq([l EXCEPT ![i] = l[Len(l)]], 1, Len(l) - 1)]

(* type -> group -> subscribers.  A type or a group that is not there is    *)
(* not in the domain.                                                       *)
Assign(f, k, v) == [j \in DOMAIN f \cup {k} |-> IF j = k THEN v ELSE f[j]]
Without(f, k) == [j \in DOMAIN f \ {k} |-> f[j]]

(* rtmq_sub_add: a type starts without groups. *)
rtmq_sub_list_alloc(tab, t) == Assign(tab, t, <<>>)
rtmq_sub_list_dealloc(tab, t) == Without(tab, t)

SubInsert(tab, t, g, c) ==
    LET groups == tab[t]
        nodes == IF g \in DOMAIN groups THEN groups[g] ELSE {}
    IN [tab EXCEPT ![t] = Assign(groups, g, nodes \cup {c})]

SubRemoveKeepsGroup(tab, t, g, c) == \* mutant: an empty group stays
    IF t \notin DOMAIN tab \/ g \notin DOMAIN tab[t] THEN tab
    ELSE [tab EXCEPT ![t][g] = @ \ {c}]
SubRemove(tab, t, g, c) ==
    IF t \notin DOMAIN tab \/ g \notin DOMAIN tab[t] \/ c \notin tab[t][g] THEN tab
    ELSE IF tab[t][g] # {c} THEN [tab EXCEPT ![t][g] = @ \ {c}]
    ELSE IF DOMAIN tab[t] # {g} THEN [tab EXCEPT ![t] = Without(@, g)]
    ELSE rtmq_sub_list_dealloc(tab, t)

SubFreeNever(tab, c) == tab \* mutant: the subscriptions outlive the connection

(* rtmq_rsvr_sck_sub_free: every subscription of the connection goes. *)
SubFree(tab, c) ==
    LET after(t) == IF t \in conn[c].subs THEN SubRemove(tab, t, conn[c].gid, c) ELSE tab
    IN [t \in {u \in DOMAIN tab : u \in DOMAIN after(u)} |-> after(t)[t]]

(* pipe_write to a non-blocking pipe: a full pipe drops the command. *)
PipeWrite(x, r, k) ==
    IF Len(cmd[x][r]) < PipeMax
    THEN cmd' = [cmd EXCEPT ![x][r] = Append(@, k)] /\ UNCHANGED lost
    ELSE lost' = [lost EXCEPT ![x][r] = @ \cup {k}] /\ UNCHANGED cmd

-----------------------------------------------------------------------------
(* Reference counts of the receive buffers. *)

FreeBufs == {b \in Bufs : ref[b] = 0}

(* rtmq_rsvr_del_conn_hdl and rtmq_rsvr_sck_free.  decs is the number of   *)
(* mref_dec calls on the receive buffer: the time out handler makes one of  *)
(* its own first.  Then either the second one asserts that the buffer is   *)
(* still known, or items of recvq point into a freed buffer: nothing that   *)
(* comes after is defined.                                                  *)
DelConn(x, r, c, decs) ==
    /\ conn' = [conn EXCEPT ![c] = [FreshSck EXCEPT !.st = "closed"]]
    /\ map' = [map EXCEPT ![x] = MapDel(@, conn[c].nid, r)]
    /\ sub' = [sub EXCEPT ![x] = SubFree(@, c)]
    /\ ref' = [ref EXCEPT ![conn[c].base] = @ - decs]
    /\ aborted' = (decs > 1)

-----------------------------------------------------------------------------
(* The clients: RTMQ proxies, which authenticate first and then subscribe,  *)
(* send messages and keep-alives, close, or fall silent.                    *)

Live(c) == conn[c].st = "live"
Open(c) == conn[c].st \in {"queued", "live"} /\ conn[c].peer

ClientClose(c) ==
    /\ Open(c) /\ c \in Closing
    /\ conn' = [conn EXCEPT ![c].peer = FALSE]
    /\ UNCHANGED <<got, lsid, connq, cmd, sendq, recvq, distq, map, sub, pend,
                   ref, lost, aborted, ticks>>

(* select returns every second: rtmq_rsvr_set_rdset runs many times in a     *)
(* unit of time, and has closed what it closes.                             *)
Tick ==
    /\ ticks < MaxTick
    /\ ~\E c \in Conns : Live(c) /\ conn[c].rd >= 1 /\ conn[c].wr >= 1
    /\ ticks' = ticks + 1
    /\ conn' = [c \in Conns |-> IF Live(c)
                 THEN [conn[c] EXCEPT !.rd = IF @ < 2 THEN @ + 1 ELSE 2,
                                      !.wr = IF @ < 2 THEN @ + 1 ELSE 2]
                 ELSE conn[c]]
    /\ UNCHANGED <<got, lsid, connq, cmd, sendq, recvq, distq, map, sub, pend,
                   ref, lost, aborted>>

-----------------------------------------------------------------------------
(* The listener and the receivers. *)

(* rtmq_lsn_accept: round robin over the receivers by lsn->sid; with no room *)
(* in connq the connection is closed and the receiver woken all the same.    *)
rtmq_lsn_accept(c) ==
    LET x == CtxOf[c]
        r == lsid[x] % RecvThdNum[x]
    IN /\ conn[c].st = "new" /\ script[c] # <<>>
       /\ PipeWrite(x, r, "ADD_SCK")
       /\ IF Len(connq[x][r]) < ConnqMax
          THEN /\ connq' = [connq EXCEPT ![x][r] = Append(@, c)]
               /\ lsid' = [lsid EXCEPT ![x] = @ + 1]
               /\ conn' = [conn EXCEPT ![c].st = "queued"]
          ELSE /\ conn' = [conn EXCEPT ![c].st = "closed"]
               /\ UNCHANGED <<connq, lsid>>
       /\ UNCHANGED <<got, sendq, recvq, distq, map, sub, pend, ref, aborted, ticks>>

Idle(x, r) == pend[x][r] = NoPend       \* the thread is not inside rtmq_sub_add
Command(x, r, k) == Idle(x, r) /\ cmd[x][r] # <<>> /\ Head(cmd[x][r]) = k

(* rtmq_rsvr_add_conn_hdl: a socket for the first of connq, and on until it  *)
(* is empty.  The command is consumed with the last one.                     *)
rtmq_rsvr_add_conn_hdl(x, r) ==
    /\ Command(x, r, "ADD_SCK")
    /\ IF connq[x][r] = <<>>
       THEN /\ cmd' = [cmd EXCEPT ![x][r] = Tail(@)]
            /\ lost' = [lost EXCEPT ![x][r] = @ \ {"ADD_SCK"}]
            /\ UNCHANGED <<conn, connq, ref>>
       ELSE \E b \in FreeBufs :
            /\ \A a \in FreeBufs : b <= a
            /\ connq' = [connq EXCEPT ![x][r] = Tail(@)]
            /\ conn' = [conn EXCEPT ![Head(connq[x][r])] =
                          [@ EXCEPT !.st = "live", !.rsvr = r, !.base = b]]
            /\ ref' = [ref EXCEPT ![b] = 1]
            /\ UNCHANGED <<cmd, lost>>
    /\ UNCHANGED <<got, lsid, sendq, recvq, distq, map, sub, pend, aborted, ticks>>

(* rtmq_rsvr_dist_data: each message of sendq goes to one connection of its  *)
(* node; without one it is dropped.                                          *)
rtmq_rsvr_dist_data(x, r) ==
    /\ Command(x, r, "DIST_REQ")
    /\ IF sendq[x][r] = <<>>
       THEN /\ cmd' = [cmd EXCEPT ![x][r] = Tail(@)]
            /\ lost' = [lost EXCEPT ![x][r] = @ \ {"DIST_REQ"}]
            /\ UNCHANGED <<conn, sendq>>
       ELSE LET m == Head(sendq[x][r])
                dests == {c \in Conns : /\ Live(c) /\ CtxOf[c] = x /\ conn[c].rsvr = r
                                        /\ conn[c].nid = m.dest}
            IN /\ sendq' = [sendq EXCEPT ![x][r] = Tail(@)]
               /\ \/ dests = {} /\ UNCHANGED conn
                  \/ \E c \in dests : conn' = [conn EXCEPT ![c].mesg = Append(@, m)]
               /\ UNCHANGED <<cmd, lost>>
    /\ UNCHANGED <<got, lsid, connq, recvq, distq, map, sub, pend, ref, aborted, ticks>>

(* rtmq_rsvr_set_rdset, before every select: a connection that was neither   *)
(* read nor written for more than 30 seconds is closed.                      *)
rtmq_rsvr_set_rdset(c) ==
    LET x == CtxOf[c] r == conn[c].rsvr
    IN /\ Live(c) /\ Idle(x, r)
       /\ conn[c].rd >= 1 /\ conn[c].wr >= 1
       /\ DelConn(x, r, c, 1)
       /\ UNCHANGED <<got, lsid, connq, cmd, sendq, recvq, distq, pend, lost, ticks>>

Writable(c) == conn[c].mesg # <<>> \/ conn[c].iov # <<>>

(* rtmq_rsvr_event_timeout_hdl, when select times out: a connection that has *)
(* not been read for 60 seconds goes.  Its buffer is released twice.         *)
rtmq_rsvr_event_timeout_hdl(c) ==
    LET x == CtxOf[c] r == conn[c].rsvr
    IN /\ Live(c) /\ Idle(x, r)
       /\ cmd[x][r] = <<>>
       /\ \A d \in Conns : Live(d) /\ CtxOf[d] = x /\ conn[d].rsvr = r
                           => conn[d].peer /\ ~Writable(d)
       /\ conn[c].rd >= 2
       /\ DelConn(x, r, c, 2)
       /\ UNCHANGED <<got, lsid, connq, cmd, sendq, recvq, distq, pend, lost, ticks>>

(* rtmq_rsvr_recv_proc: the peer has closed. *)
rtmq_rsvr_recv_eof(c) ==
    LET x == CtxOf[c] r == conn[c].rsvr
    IN /\ Live(c) /\ Idle(x, r) /\ ~conn[c].peer
       /\ DelConn(x, r, c, 1)
       /\ UNCHANGED <<got, lsid, connq, cmd, sendq, recvq, distq, pend, lost, ticks>>

(* A message arrives and is read at once: when it arrives is the client's    *)
(* choice, so a delay between the two shows nothing more.                    *)
Arriving(c) == script[c][conn[c].n + 1]

(* The next message of a connection is taken from the buffer; a full buffer  *)
(* is given up for a new one (rtmq_rsvr_switch_recv_buff).                   *)
Reading(c, kind) ==
    /\ Live(c) /\ Idle(CtxOf[c], conn[c].rsvr)
    /\ conn[c].peer /\ conn[c].n < Len(script[c]) /\ Arriving(c).kind = kind
TookLeak(c, sck, rf) == \* mutant: the old buffer is not released
    /\ conn' = [conn EXCEPT ![c] = [sck EXCEPT !.rd = 0, !.n = @ + 1, !.used = 0,
                                               !.base = CHOOSE b \in Bufs : rf[b] = 0]]
    /\ ref' = [rf EXCEPT ![CHOOSE b \in Bufs : rf[b] = 0] = 1]
Took(c, sck, rf) ==
    /\ IF sck.used + 1 < BufMesgs
       THEN /\ conn' = [conn EXCEPT ![c] = [sck EXCEPT !.rd = 0, !.n = @ + 1, !.used = @ + 1]]
            /\ ref' = rf
       ELSE \E b \in {a \in Bufs : rf[a] = 0} :
            /\ \A a \in Bufs : rf[a] = 0 => b <= a
            /\ conn' = [conn EXCEPT ![c] = [sck EXCEPT !.rd = 0, !.n = @ + 1, !.used = 0, !.base = b]]
            /\ ref' = [rf EXCEPT ![b] = 1, ![sck.base] = @ - 1]

(* The name and the password are those of an account of the configuration.   *)
rtmq_auth_check(m) == m.good

(* rtmq_rsvr_link_auth_req_hdl.  The connection gets its node before the map *)
(* is asked for room.                                                        *)
rtmq_rsvr_link_auth_req_hdl(c) ==
    LET x == CtxOf[c]
        r == conn[c].rsvr
        n == NidOf[c]
        ok == rtmq_auth_check(Arriving(c))
    IN /\ Reading(c, "AUTH_REQ")
       /\ IF ok /\ MapFull(map[x], n)
          THEN /\ conn' = [conn EXCEPT ![c] = [FreshSck EXCEPT !.st = "closed"]]
               /\ map' = [map EXCEPT ![x] = MapDel(@, n, r)]
               /\ ref' = [ref EXCEPT ![conn[c].base] = @ - 1]
          ELSE /\ Took(c, [conn[c] EXCEPT !.gid = GidOf[c], !.auth = ok,
                                          !.nid = IF ok THEN n ELSE @,
                                          !.mesg = Append(@, Ack("AUTH_ACK"))], ref)
               /\ map' = IF ok THEN [map EXCEPT ![x] = MapAdd(@, n, r)] ELSE map
       /\ UNCHANGED <<got, lsid, connq, cmd, sendq, recvq, distq, sub, pend, lost,
                      aborted, ticks>>

(* rtmq_rsvr_keepalive_req_hdl *)
rtmq_rsvr_keepalive_req_hdl(c) ==
    /\ Reading(c, "KPALIVE_REQ")
    /\ IF conn[c].auth
       THEN /\ Took(c, [conn[c] EXCEPT !.mesg = Append(@, Ack("KPALIVE_ACK"))], ref)
            /\ UNCHANGED <<map, sub, aborted>>
       ELSE DelConn(CtxOf[c], conn[c].rsvr, c, 1)
    /\ UNCHANGED <<got, lsid, connq, cmd, sendq, recvq, distq, pend, lost, ticks>>

(* rtmq_rsvr_exp_mesg_proc: its result is ignored, the connection stays.     *)
(* The item in recvq points into the receive buffer.                         *)
rtmq_rsvr_exp_mesg_proc(c) ==
    LET x == CtxOf[c]
        m == Arriving(c)
    IN /\ Reading(c, "EXP")
       /\ \E q \in Recvqs :
            IF conn[c].auth /\ Len(recvq[x][q]) < RecvqMax
            THEN /\ recvq' = [recvq EXCEPT ![x][q] = Append(@, [mesg |-> m, base |-> conn[c].base])]
                 /\ Took(c, conn[c], [ref EXCEPT ![conn[c].base] = @ + 1])
            ELSE Took(c, conn[c], ref) /\ UNCHANGED recvq
       /\ UNCHANGED <<got, lsid, connq, cmd, sendq, distq, map, sub, pend, lost, aborted, ticks>>

(* rtmq_rsvr_sub_req_hdl and rtmq_sub_add: query the type under its lock, in *)
(* a table where it may be missing; then insert it under the lock again.     *)
(* Between the two another receiver can do the same: its connection then     *)
(* gets an error, and is closed.                                             *)
rtmq_sub_add_query(c) ==
    LET x == CtxOf[c]
        r == conn[c].rsvr
        t == Arriving(c).type
    IN /\ Reading(c, "SUB_REQ") \/ (Live(c) /\ pend[x][r] = <<"query", c>>)
       /\ IF ~conn[c].auth
          THEN DelConn(x, r, c, 1) /\ UNCHANGED pend
          ELSE IF t \in DOMAIN sub[x]
          THEN /\ sub' = [sub EXCEPT ![x] = SubInsert(@, t, conn[c].gid, c)]
               /\ Took(c, [conn[c] EXCEPT !.subs = @ \cup {t}], ref)
               /\ pend' = [pend EXCEPT ![x][r] = NoPend]
               /\ UNCHANGED <<map, aborted>>
          ELSE /\ pend' = [pend EXCEPT ![x][r] = <<"insert", c>>]
               /\ UNCHANGED <<conn, map, sub, ref, aborted>>
       /\ UNCHANGED <<got, lsid, connq, cmd, sendq, recvq, distq, lost, ticks>>

rtmq_sub_add_insert(c) ==
    LET x == CtxOf[c]
        r == conn[c].rsvr
        t == Arriving(c).type
    IN /\ Live(c) /\ pend[x][r] = <<"insert", c>>
       /\ IF t \in DOMAIN sub[x]
          THEN DelConn(x, r, c, 1) /\ pend' = [pend EXCEPT ![x][r] = NoPend]
          ELSE /\ sub' = [sub EXCEPT ![x] = rtmq_sub_list_alloc(@, t)]
               /\ pend' = [pend EXCEPT ![x][r] = <<"query", c>>]
               /\ UNCHANGED <<conn, map, ref, aborted>>
       /\ UNCHANGED <<got, lsid, connq, cmd, sendq, recvq, distq, lost, ticks>>

(* rtmq_rsvr_trav_send: messages move to the iovec until it is full, the     *)
(* kernel takes the first n; the slots they leave are used again only when   *)
(* all are sent (wiov_item_adjust).                                          *)
MIN(a, b) == IF a < b THEN a ELSE b
rtmq_rsvr_trav_send(c) ==
    LET x == CtxOf[c]
        r == conn[c].rsvr
        sck == conn[c]
        room == MIN(IovMax - (sck.idx + Len(sck.iov)), Len(sck.mesg))
        iov == sck.iov \o SubSeq(sck.mesg, 1, room)
    IN /\ Live(c) /\ Idle(x, r) /\ Writable(c)
       /\ IF ~sck.peer
          THEN DelConn(x, r, c, 1) /\ UNCHANGED got
          ELSE \E n \in {0, Len(iov)} :
               /\ got' = [got EXCEPT ![c] = @ \o SubSeq(iov, 1, n)]
               /\ conn' = [conn EXCEPT ![c] =
                             [sck EXCEPT !.wr = 0,
                                         !.mesg = SubSeq(sck.mesg, room + 1, Len(sck.mesg)),
                                         !.iov = SubSeq(iov, n + 1, Len(iov)),
                                         !.idx = IF n = Len(iov) THEN 0 ELSE sck.idx + n]]
               /\ UNCHANGED <<map, sub, ref, aborted>>
       /\ UNCHANGED <<lsid, connq, cmd, sendq, recvq, distq, pend, lost, ticks>>

-----------------------------------------------------------------------------
(* The workers, the forwarder's handlers and the distributor. *)

(* rtmq_async_send: the copies are put into distq as long as it has room. *)
rtmq_async_send(q, ms) == q \o SubSeq(ms, 1, MIN(DistqMax - Len(q), Len(ms)))

(* rtmq_publish in backend: for every group of the type one copy, to the     *)
(* node of a random subscriber.  pick chooses it.                            *)
rtmq_publish_twice(m, pick, order) == \* mutant: a group gets it again
    [i \in 1 .. 2 * Len(order) |-> [m EXCEPT !.dest = NidOf[pick[order[(i + 1) \div 2]]]]]
rtmq_publish(m, pick, order) ==
    [i \in DOMAIN order |-> [m EXCEPT !.dest = NidOf[pick[order[i]]]]]

Orders(S) == {o \in [1 .. Cardinality(S) -> S] : \A i, j \in DOMAIN o : o[i] = o[j] => i = j}

(* The handlers of the forwarder.  What comes from the backend goes on to    *)
(* the node it names; what comes from the front is published to the backend. *)
frwd_mesg_from_bc_def_hdl(m) == distq' = [distq EXCEPT !["forward"] = rtmq_async_send(@, <<m>>)]

frwd_mesg_from_fw_def_hdl(m) ==
    IF m.type \notin DOMAIN sub["backend"] THEN UNCHANGED distq
    ELSE LET groups == sub["backend"][m.type]
         IN \E pick \in [DOMAIN groups -> Conns] :
            /\ \A g \in DOMAIN groups : pick[g] \in groups[g]
            /\ \E o \in Orders(DOMAIN groups) :
                 distq' = [distq EXCEPT !["backend"] = rtmq_async_send(@, rtmq_publish(m, pick, o))]

(* rtmq_worker_cmd_proc_req_hdl: one item is handled, its buffer released.   *)
rtmq_worker_proc(x, q) ==
    /\ recvq[x][q] # <<>>
    /\ LET it == Head(recvq[x][q])
       IN /\ recvq' = [recvq EXCEPT ![x][q] = Tail(@)]
          /\ ref' = [ref EXCEPT ![it.base] = @ - 1]
          /\ IF x = "backend" THEN frwd_mesg_from_bc_def_hdl(it.mesg) ELSE frwd_mesg_from_fw_def_hdl(it.mesg)
    /\ UNCHANGED <<conn, got, lsid, connq, cmd, sendq, map, sub, pend, lost, aborted, ticks>>

(* One of the receivers that the map has for a node. *)
rtmq_node_to_svr_map_rand(x, n) == IF n \in Nids THEN {map[x][n][i] : i \in DOMAIN map[x][n]} ELSE {}

rtmq_dsvr_dist_silent(x) == \* mutant: the receiver is not told
    /\ distq[x] # <<>>
    /\ distq' = [distq EXCEPT ![x] = Tail(@)]
    /\ \E r \in rtmq_node_to_svr_map_rand(x, Head(distq[x]).dest) :
          Len(sendq[x][r]) < SendqMax /\ sendq' = [sendq EXCEPT ![x][r] = Append(@, Head(distq[x]))]
    /\ UNCHANGED <<conn, got, lsid, connq, cmd, recvq, map, sub, pend, ref, lost, aborted, ticks>>

(* rtmq_dsvr_dist_data_hdl: the message goes to a receiver that has the      *)
(* node, which is then told; nobody has it, or sendq is full: it is dropped. *)
rtmq_dsvr_dist_data_hdl(x) ==
    /\ distq[x] # <<>>
    /\ distq' = [distq EXCEPT ![x] = Tail(@)]
    /\ LET m == Head(distq[x])
           rsvrs == rtmq_node_to_svr_map_rand(x, m.dest)
       IN \/ /\ rsvrs = {}
             /\ UNCHANGED <<sendq, cmd, lost>>
          \/ \E r \in rsvrs :
               IF Len(sendq[x][r]) < SendqMax
               THEN /\ sendq' = [sendq EXCEPT ![x][r] = Append(@, m)]
                    /\ PipeWrite(x, r, "DIST_REQ")
               ELSE UNCHANGED <<sendq, cmd, lost>>
    /\ UNCHANGED <<conn, got, lsid, connq, recvq, map, sub, pend, ref, aborted, ticks>>

-----------------------------------------------------------------------------
ConnStep(c) ==
    \/ rtmq_lsn_accept(c)
    \/ rtmq_rsvr_set_rdset(c)
    \/ rtmq_rsvr_event_timeout_hdl(c)
    \/ rtmq_rsvr_recv_eof(c)
    \/ rtmq_rsvr_link_auth_req_hdl(c)
    \/ rtmq_rsvr_keepalive_req_hdl(c)
    \/ rtmq_rsvr_exp_mesg_proc(c)
    \/ rtmq_sub_add_query(c)
    \/ rtmq_sub_add_insert(c)
    \/ rtmq_rsvr_trav_send(c)

(* The loops of the workers and of the distributor: a command or the time    *)
(* out of select leads to the same handler, so a lost command delays only.   *)
rtmq_worker_routine(x) == \E q \in Recvqs : rtmq_worker_proc(x, q)
rtmq_dsvr_routine(x) == rtmq_dsvr_dist_data_hdl(x)

Next ==
    /\ ~aborted
    /\ UNCHANGED script
    /\ \/ \E c \in Conns : ClientClose(c) \/ ConnStep(c)
       \/ \E x \in Ctxs : \/ \E r \in Rsvrs(x) : rtmq_rsvr_add_conn_hdl(x, r)
                                                \/ rtmq_rsvr_dist_data(x, r)
                          \/ rtmq_worker_routine(x)
                          \/ rtmq_dsvr_routine(x)
       \/ Tick

Spec == Init /\ [][Next]_vars

-----------------------------------------------------------------------------
(* Properties. *)

Ids == UNION {UNION {{sc[c][i].id : i \in DOMAIN sc[c]} : c \in Conns} : sc \in Scripts}
Mesgs == [kind : {"AUTH_REQ", "SUB_REQ", "KPALIVE_REQ", "EXP", "AUTH_ACK", "KPALIVE_ACK"},
          id : Ids \cup {0}, type : Types \cup {"sys", "AUTH_ACK", "KPALIVE_ACK"},
          dest : Nids \cup {NoNid}, good : BOOLEAN]

(* The type of the state: every queue within its limit, every table over    *)
(* the right keys.                                                          *)
TypeOK ==
    /\ \A c \in Conns :
         /\ conn[c].st \in {"new", "queued", "live", "closed"}
         /\ conn[c].nid \in Nids \cup {NoNid} /\ conn[c].gid \in Gids \cup {0}
         /\ conn[c].subs \subseteq Types
         /\ conn[c].base \in Bufs \cup {NoBuf}
         /\ conn[c].idx + Len(conn[c].iov) <= IovMax
         /\ conn[c].mesg \in Seq(Mesgs) /\ got[c] \in Seq(Mesgs)
    /\ \A x \in Ctxs :
         /\ Len(distq[x]) <= DistqMax
         /\ \A q \in Recvqs : Len(recvq[x][q]) <= RecvqMax
         /\ \A r \in Rsvrs(x) : /\ Len(connq[x][r]) <= ConnqMax
                               /\ Len(sendq[x][r]) <= SendqMax
                               /\ Len(cmd[x][r]) <= PipeMax
         /\ \A n \in Nids : Len(map[x][n]) <= NodeToSvrMax
         /\ DOMAIN sub[x] \subseteq Types
         /\ \A t \in DOMAIN sub[x] : DOMAIN sub[x][t] \subseteq Gids
    /\ ref \in [Bufs -> Int] /\ aborted \in BOOLEAN

(* node_to_svr_map never routes to a receiver that has no connection of the *)
(* node: for each receiver it has at most as many entries as connections.   *)
(* (At most, because a connection turned away by a full list takes the entry *)
(* of another one with it.)                                                 *)
NoStaleRoute ==
    \A x \in Ctxs, n \in Nids : \A r \in Rsvrs(x) :
        Cardinality({i \in DOMAIN map[x][n] : map[x][n][i] = r})
            <= Cardinality({c \in Conns : /\ Live(c) /\ CtxOf[c] = x /\ conn[c].nid = n
                                          /\ conn[c].rsvr = r})

(* The subscription table and the connections agree, whatever receivers add *)
(* and remove at the same time: a subscriber is a live, authenticated        *)
(* connection of the group, and each subscription of a connection is there. *)
SubsAgree ==
    \A x \in Ctxs, t \in Types, g \in Gids :
        {c \in Conns : /\ Live(c) /\ CtxOf[c] = x /\ conn[c].auth
                        /\ conn[c].gid = g /\ t \in conn[c].subs}
            = IF t \in DOMAIN sub[x] /\ g \in DOMAIN sub[x][t] THEN sub[x][t][g] ELSE {}

(* A group in the table has a subscriber: rtmq_pub_group_trav_cb takes a     *)
(* random number modulo their number.  A type without groups is there only   *)
(* while a receiver is inside rtmq_sub_add.                                 *)
NoEmptyGroup ==
    \A x \in Ctxs : \A t \in DOMAIN sub[x] :
        /\ \A g \in DOMAIN sub[x][t] : sub[x][t][g] # {}
        /\ DOMAIN sub[x][t] = {} => \E r \in Rsvrs(x) : pend[x][r] # NoPend

(* A published message reaches a group at most once, and a client only gets  *)
(* what is addressed to its node.                                           *)
OncePerGroup ==
    /\ \A c \in Conns : \A i \in DOMAIN got[c] : got[c][i].id # 0 => got[c][i].dest = NidOf[c]
    /\ \A g \in Gids, m \in Ids \ {0} :
        Cardinality({p \in UNION {{c} \X DOMAIN got[c] : c \in Conns} :
            /\ CtxOf[p[1]] = "backend" /\ GidOf[p[1]] = g
            /\ got[p[1]][p[2]].id = m}) <= 1

(* A receive buffer is not freed while its connection or an item of recvq    *)
(* points into it, and is freed when the last one is gone: until the    *)
(* time out handler releases a buffer twice.                                *)
Holders(b) ==
    Cardinality({c \in Conns : Live(c) /\ conn[c].base = b})
      + Cardinality({p \in Ctxs \X Recvqs \X (1 .. RecvqMax) :
                       /\ p[3] \in DOMAIN recvq[p[1]][p[2]]
                       /\ recvq[p[1]][p[2]][p[3]].base = b})
BuffersHeld == aborted \/ \A b \in Bufs : ref[b] = Holders(b)

(* No wake-up is lost: messages in sendq have a DIST_REQ behind them, and    *)
(* connections in connq an ADD_SCK, unless the pipe was full at the time.    *)
NoLostWakeup ==
    \A x \in Ctxs : \A r \in Rsvrs(x) :
        /\ sendq[x][r] # <<>> => \/ \E i \in DOMAIN cmd[x][r] : cmd[x][r][i] = "DIST_REQ"
                                 \/ "DIST_REQ" \in lost[x][r]
        /\ connq[x][r] # <<>> => \/ \E i \in DOMAIN cmd[x][r] : cmd[x][r][i] = "ADD_SCK"
                                 \/ "ADD_SCK" \in lost[x][r]

(* What messages are routed by is true at every step of every receiver: the  *)
(* map and the subscriptions name connections that are there, and no table   *)
(* outgrows its bound.                                                       *)
RoutesRight == TypeOK /\ NoStaleRoute /\ SubsAgree /\ NoEmptyGroup
=============================================================================
