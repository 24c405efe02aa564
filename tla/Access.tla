------------------------------- MODULE Access -------------------------------
(***************************************************************************)
(* The access library (lib/access): the TCP front of listend.  Listener     *)
(* threads accept clients and hand them to receiver threads; a receiver     *)
(* reads packets from its clients and writes to them what other threads     *)
(* queued, adds and kicks connections, and drops idle ones.                 *)
(*                                                                         *)
(* A receiver handles the events of one epoll_wait as a batch of pointers   *)
(* to sockets, so a socket must not be freed while the batch names it.      *)
(* epoll is edge triggered: rdy and cmdrdy are its ready list (as in        *)
(* RtmqProxy), mask is what a socket was armed for.                         *)
(*                                                                         *)
(* A packet is a head and, for some, a body; it may arrive in two parts.    *)
(* What is sent to a client also consists of two parts: the kernel may      *)
(* take one of them only.                                                   *)
(***************************************************************************)
EXTENDS Integers, Sequences, FiniteSets, SequencesExt

CONSTANTS
    Lsvrs,                      \* listener threads
    MaxCid, MaxRsvrs,           \* bounds: clients that connect, receivers
    ConnqMax, SendqMax, KickqMax, PipeMax,  \* conf->connq.max, sendq.max; the pipe
    MaxTick,                    \* bound: units of 181 seconds that pass
    Scenes                      \* what happens in a run, records of: the
                                \* listeners, rsvrs (conf->rsvr_num), clients,
                                \* the calls of the application in order, the
                                \* packets every client sends, whether clients
                                \* may close, may be slow, and time passes

VARIABLES
    scene,              \* the one of Scenes that happens
    cid, backlog,       \* listen.cid; clients that wait to be accepted
    lsvr,               \* listener -> what it is doing
    connq, sendq, kickq,\* receiver -> queue
    kickfree,           \* receiver -> free elements of kickq
    cmd, cmdrdy,        \* receiver -> command pipe; it is on the ready list
    batch, clean,       \* receiver -> events to handle; kick_clean is to run
    kick,               \* receiver -> kick_list
    conn,               \* cid -> the connection
    got, recd,          \* cid -> parts written to the client; packets handed up
    app,                \* the application thread: calls made, command to write
    ticks

vars == <<scene, cid, backlog, lsvr, connq, sendq, kickq, kickfree, cmd, cmdrdy, batch,
          clean, kick, conn, got, recd, app, ticks>>

Cids == 1 .. MaxCid
Rsvrs == 0 .. scene.rsvrs - 1
ACC_GET_RID_BY_CID(c) == c % scene.rsvrs
None == "none"

(* The limits are numbers; there is a receiver, the listeners exist, and the *)
(* application names connections by their CIDs.                              *)
ASSUME AccessAssumption ==
    /\ {MaxCid, MaxRsvrs, ConnqMax, SendqMax, KickqMax, PipeMax, MaxTick} \subseteq Nat
    /\ \A s \in Scenes :
         /\ s.rsvrs \in 1 .. MaxRsvrs /\ s.clients \in 0 .. MaxCid /\ s.lsvrs \subseteq Lsvrs
         /\ s.calls \in Seq(ToSet(s.calls))
         /\ \A i \in DOMAIN s.calls : s.calls[i].c \in Cids

(* A packet of a client: HasBody is get_packet_body_size # 0; the handler   *)
(* of the application refuses a bad one.                                    *)
Mesgs == {"ping", "mesg", "bad"}
HasBody(m) == m # "ping"
Units(ms) == FlattenSeq([i \in DOMAIN ms |->
    IF HasBody(ms[i]) THEN <<<<ms[i], "head">>, <<ms[i], "body">>>> ELSE <<<<ms[i], "head">>>>])

Fresh == [st |-> "none", peer |-> TRUE, n |-> 0, in |-> <<>>,
          phase |-> "INIT", addr |-> FALSE, ref |-> 0, head |-> None,
          mask |-> {}, rdy |-> FALSE, full |-> FALSE,
          list |-> <<>>, cur |-> None, off |-> 0, rd |-> 0, wr |-> 0]

(* acc_init, acc_creat_queue, acc_creat_rsvr, acc_creat_lsvr, acc_launch. *)
Init ==
    /\ scene \in Scenes
    /\ cid = 0 /\ backlog = scene.clients
    /\ lsvr = [l \in Lsvrs |-> [pc |-> "wait", c |-> 0]]
    /\ connq = [r \in Rsvrs |-> <<>>] /\ sendq = [r \in Rsvrs |-> <<>>]
    /\ kickq = [r \in Rsvrs |-> <<>>] /\ kickfree = [r \in Rsvrs |-> KickqMax]
    /\ cmd = [r \in Rsvrs |-> <<>>] /\ cmdrdy = [r \in Rsvrs |-> FALSE]
    /\ batch = [r \in Rsvrs |-> <<>>] /\ clean = [r \in Rsvrs |-> FALSE]
    /\ kick = [r \in Rsvrs |-> {}]
    /\ conn = [c \in Cids |-> Fresh]
    /\ got = [c \in Cids |-> <<>>] /\ recd = [c \in Cids |-> <<>>]
    /\ app = [n |-> 0, note |-> <<>>]
    /\ ticks = 0

lsnVars == <<cid, backlog, lsvr>>
queueVars == <<connq, sendq, kickq, kickfree>>
pipeVars == <<cmd, cmdrdy>>
loopVars == <<batch, clean, kick>>

Live(c) == conn[c].st = "live"

(* pipe_write of a command: a full pipe takes nothing. *)
PipeWrites(ws) ==   \* ws: receiver -> the command to write
    /\ cmd' = [r \in Rsvrs |-> IF r \in DOMAIN ws /\ Len(cmd[r]) < PipeMax
                               THEN Append(cmd[r], ws[r]) ELSE cmd[r]]
    /\ cmdrdy' = [r \in Rsvrs |-> cmdrdy[r] \/ (r \in DOMAIN ws /\ Len(cmd[r]) < PipeMax)]
Only(r, k) == [x \in {r} |-> k]

-----------------------------------------------------------------------------
(* The listeners. *)

(* acc_lsvr_accept: under accept_lock a client gets the next CID.  A listener *)
(* that finds the lock taken, or nobody to accept, returns.                  *)
acc_lsvr_accept(l) ==
    /\ lsvr[l].pc = "wait" /\ backlog > 0
    /\ cid' = cid + 1 /\ backlog' = backlog - 1
    /\ lsvr' = [lsvr EXCEPT ![l] = [pc |-> "queue", c |-> cid + 1]]
    /\ UNCHANGED <<scene, queueVars, pipeVars, loopVars, conn, got, recd, app, ticks>>

(* Its second part: into connq, or closed when there is no room. *)
acc_lsvr_push(l) ==
    LET c == lsvr[l].c
        r == ACC_GET_RID_BY_CID(c)
    IN /\ lsvr[l].pc = "queue"
       /\ IF Len(connq[r]) < ConnqMax
          THEN /\ connq' = [connq EXCEPT ![r] = Append(@, c)]
               /\ conn' = [conn EXCEPT ![c].st = "queued"]
               /\ lsvr' = [lsvr EXCEPT ![l].pc = "note"]
          ELSE /\ conn' = [conn EXCEPT ![c].st = "gone"]
               /\ lsvr' = [lsvr EXCEPT ![l].pc = "wait"]
               /\ UNCHANGED connq
       /\ UNCHANGED <<scene, cid, backlog, sendq, kickq, kickfree, pipeVars, loopVars,
                      got, recd, app, ticks>>

acc_lsvr_send_add_sck_req(l) ==
    /\ lsvr[l].pc = "note"
    /\ lsvr' = [lsvr EXCEPT ![l].pc = "wait"]
    /\ PipeWrites(Only(ACC_GET_RID_BY_CID(lsvr[l].c), "ADD_SCK"))
    /\ UNCHANGED <<scene, cid, backlog, queueVars, loopVars, conn, got, recd, app, ticks>>

acc_lsvr_no_retry(l) == FALSE \* mutant: nothing is done on a time out

(* acc_lsvr_timeout_hdl: nobody connects for a second. *)
acc_lsvr_timeout_hdl(l) ==
    /\ lsvr[l].pc = "wait" /\ backlog = 0
    /\ \E r \in Rsvrs : connq[r] # <<>>
    /\ PipeWrites([r \in {x \in Rsvrs : connq[x] # <<>>} |-> "ADD_SCK"])
    /\ UNCHANGED <<scene, lsnVars, queueVars, loopVars, conn, got, recd, app, ticks>>

-----------------------------------------------------------------------------
(* The application's calls, of other threads than the receivers. *)

Call == scene.calls[app.n + 1]
Calling(k) == app.note = <<>> /\ app.n < Len(scene.calls) /\ Call.op = k /\ Call.c <= cid

acc_async_send_always == \* mutant: a full ring is not noticed
    /\ Calling("send")
    /\ sendq' = [sendq EXCEPT ![ACC_GET_RID_BY_CID(Call.c)] = Append(@, Call)]
    /\ app' = [n |-> app.n + 1, note |-> <<>>]
    /\ UNCHANGED <<scene, lsnVars, connq, kickq, kickfree, pipeVars, loopVars, conn, got, recd, ticks>>

acc_async_send ==
    LET r == ACC_GET_RID_BY_CID(Call.c)
    IN /\ Calling("send")
       /\ IF Len(sendq[r]) < SendqMax
          THEN /\ sendq' = [sendq EXCEPT ![r] = Append(@, Call)]
               /\ app' = [n |-> app.n + 1, note |-> <<r, "DIST_DATA">>]
          ELSE /\ app' = [app EXCEPT !.n = @ + 1]
               /\ UNCHANGED sendq
       /\ UNCHANGED <<scene, lsnVars, connq, kickq, kickfree, pipeVars, loopVars, conn, got, recd, ticks>>

(* acc_async_kick takes an element of kickq; acc_rsvr_kick_conn never gives  *)
(* one back.                                                                 *)
acc_async_kick ==
    LET r == ACC_GET_RID_BY_CID(Call.c)
    IN /\ Calling("kick")
       /\ IF kickfree[r] > 0
          THEN /\ kickq' = [kickq EXCEPT ![r] = Append(@, Call.c)]
               /\ kickfree' = [kickfree EXCEPT ![r] = @ - 1]
               /\ app' = [n |-> app.n + 1, note |-> <<r, "KICK_CONN">>]
          ELSE /\ app' = [app EXCEPT !.n = @ + 1]
               /\ UNCHANGED <<kickq, kickfree>>
       /\ UNCHANGED <<scene, lsnVars, connq, sendq, pipeVars, loopVars, conn, got, recd, ticks>>

acc_send_cmd_to_rsvr ==
    /\ app.note # <<>>
    /\ PipeWrites(Only(app.note[1], app.note[2]))
    /\ app' = [app EXCEPT !.note = <<>>]
    /\ UNCHANGED <<scene, lsnVars, queueVars, loopVars, conn, got, recd, ticks>>

-----------------------------------------------------------------------------
(* A receiver. *)

Readable(s) == s.in # <<>> \/ ~s.peer
EpollArm(s, m) == [s EXCEPT !.mask = m,
                            !.rdy = @ \/ ("IN" \in m /\ Readable(s)) \/ ("OUT" \in m /\ ~s.full)]

(* acc_rsvr_del_conn: out of the table, the callbacks, closed and freed. *)
acc_rsvr_del_conn(s) ==
    [Fresh EXCEPT !.st = "gone", !.ref = IF s.addr THEN s.ref - 1 ELSE s.ref]

(* acc_rsvr_routine: epoll_wait. *)
CmdEvent == [c |-> 0, in |-> TRUE, out |-> FALSE]
ConnEvent(c) == [c |-> c, in |-> "IN" \in conn[c].mask /\ Readable(conn[c]),
                          out |-> "OUT" \in conn[c].mask /\ ~conn[c].full]
Ready(r) ==
    {e \in {ConnEvent(c) : c \in {d \in Cids : Live(d) /\ ACC_GET_RID_BY_CID(d) = r /\ conn[d].rdy}} :
        e.in \/ e.out}
    \cup (IF cmdrdy[r] /\ cmd[r] # <<>> THEN {CmdEvent} ELSE {})

acc_rsvr_routine(r) ==
    /\ batch[r] = <<>> /\ ~clean[r] /\ Ready(r) # {}
    /\ \E o \in SetToSeqs(Ready(r)) : batch' = [batch EXCEPT ![r] = o]
    /\ clean' = [clean EXCEPT ![r] = TRUE]
    /\ conn' = [c \in Cids |-> IF ACC_GET_RID_BY_CID(c) = r THEN [conn[c] EXCEPT !.rdy = FALSE] ELSE conn[c]]
    /\ cmdrdy' = [cmdrdy EXCEPT ![r] = FALSE]
    /\ UNCHANGED <<scene, lsnVars, queueVars, cmd, kick, got, recd, app, ticks>>

Handled(r) == batch' = [batch EXCEPT ![r] = Tail(@)]
InDone(r) == batch' = [batch EXCEPT ![r] = <<[Head(@) EXCEPT !.in = FALSE]>> \o Tail(@)]
Event(r) == Head(batch[r])
Sck(r) == conn[Event(r).c]
OnConn(r) == batch[r] # <<>> /\ Event(r).c # 0
OnCmd(r, k) == batch[r] # <<>> /\ Event(r).c = 0 /\ cmd[r] # <<>> /\ Head(cmd[r]) = k
TakeCmd(r) == cmd' = [cmd EXCEPT ![r] = Tail(@)]

(* kick_list, a tree of the CIDs that were kicked. *)
acc_rsvr_kick_add(r, cids) == [kick EXCEPT ![r] = @ \cup cids]
acc_rsvr_kick_del(r, cids) == [kick EXCEPT ![r] = @ \ cids]
IsKicked(r) == OnConn(r) /\ Event(r).c \in kick[r]

acc_rsvr_event_keeps(r) == \* mutant: kick_list keeps the CID
    /\ IsKicked(r) /\ Handled(r)
    /\ conn' = [conn EXCEPT ![Event(r).c] = acc_rsvr_del_conn(@)]
    /\ UNCHANGED <<scene, lsnVars, queueVars, pipeVars, kick, clean, got, recd, app, ticks>>

(* acc_rsvr_event_hdl of a socket that was kicked earlier in the batch. *)
acc_rsvr_event_kicked(r) ==
    /\ IsKicked(r) /\ Handled(r)
    /\ kick' = acc_rsvr_kick_del(r, {Event(r).c})
    /\ conn' = [conn EXCEPT ![Event(r).c] = acc_rsvr_del_conn(@)]
    /\ UNCHANGED <<scene, lsnVars, queueVars, pipeVars, clean, got, recd, app, ticks>>

(* agt_rsvr_recv_cmd_hdl: commands until the pipe is empty. *)
acc_rsvr_cmd_done(r) ==
    /\ batch[r] # <<>> /\ Event(r).c = 0 /\ cmd[r] = <<>>
    /\ Handled(r)
    /\ UNCHANGED <<scene, lsnVars, queueVars, pipeVars, clean, kick, conn, got, recd, app, ticks>>

(* acc_rsvr_add_conn: until connq is empty. *)
acc_rsvr_add_conn(r) ==
    /\ OnCmd(r, "ADD_SCK") /\ TakeCmd(r)
    /\ connq' = [connq EXCEPT ![r] = <<>>]
    /\ conn' = [c \in Cids |-> IF Contains(connq[r], c)
                               THEN EpollArm([conn[c] EXCEPT !.st = "live"], {"IN"}) ELSE conn[c]]
    /\ UNCHANGED <<scene, lsnVars, sendq, kickq, kickfree, cmdrdy, loopVars, got, recd, app, ticks>>

acc_rsvr_dist_unarmed(r) == \* mutant: the socket is not armed for writing
    /\ OnCmd(r, "DIST_DATA") /\ TakeCmd(r)
    /\ sendq' = [sendq EXCEPT ![r] = <<>>]
    /\ conn' = [c \in Cids |->
         IF ~Live(c) THEN conn[c]
         ELSE [conn[c] EXCEPT !.list = @ \o SelectSeq(sendq[r], LAMBDA it : it.c = c)]]
    /\ UNCHANGED <<scene, lsnVars, connq, kickq, kickfree, cmdrdy, loopVars, got, recd, app, ticks>>

(* acc_rsvr_dist_send_data and acc_push_into_send_list: sendq is emptied into *)
(* the lists of the connections that are still in the table, which are armed *)
(* for writing and nothing else.                                             *)
acc_rsvr_dist_send_data(r) ==
    /\ OnCmd(r, "DIST_DATA") /\ TakeCmd(r)
    /\ sendq' = [sendq EXCEPT ![r] = <<>>]
    /\ conn' = [c \in Cids |->
         LET mine == SelectSeq(sendq[r], LAMBDA it : it.c = c)
         IN IF ~Live(c) \/ mine = <<>> THEN conn[c]
            ELSE EpollArm([conn[c] EXCEPT !.list = @ \o mine], {"OUT"})]
    /\ UNCHANGED <<scene, lsnVars, connq, kickq, kickfree, cmdrdy, loopVars, got, recd, app, ticks>>

acc_rsvr_kick_now(r) == \* mutant: the connection is deleted at once
    /\ OnCmd(r, "KICK_CONN") /\ TakeCmd(r)
    /\ kickq' = [kickq EXCEPT ![r] = <<>>]
    /\ conn' = [c \in Cids |-> IF Live(c) /\ Contains(kickq[r], c) THEN acc_rsvr_del_conn(conn[c]) ELSE conn[c]]
    /\ UNCHANGED <<scene, lsnVars, connq, sendq, kickfree, cmdrdy, batch, clean, kick, got, recd, app, ticks>>

acc_rsvr_kick_lost(r) == \* mutant: a CID that is found is not remembered
    /\ OnCmd(r, "KICK_CONN") /\ TakeCmd(r)
    /\ kickq' = [kickq EXCEPT ![r] = <<>>]
    /\ UNCHANGED <<scene, lsnVars, connq, sendq, kickfree, cmdrdy, loopVars, conn, got, recd, app, ticks>>

(* acc_rsvr_kick_conn and acc_rsvr_kick_add: only into kick_list, because the *)
(* batch may name the socket.                                                *)
acc_rsvr_kick_conn(r) ==
    /\ OnCmd(r, "KICK_CONN") /\ TakeCmd(r)
    /\ kickq' = [kickq EXCEPT ![r] = <<>>]
    /\ kick' = acc_rsvr_kick_add(r, {c \in ToSet(kickq[r]) : Live(c)})
    /\ UNCHANGED <<scene, lsnVars, connq, sendq, kickfree, cmdrdy, batch, clean, conn, got, recd, app, ticks>>

Reading(r) == OnConn(r) /\ ~IsKicked(r) /\ Event(r).in

(* acc_recv_data in phase INIT allocates the buffer. *)
Allocated(s) == IF s.phase = "INIT" THEN [s EXCEPT !.phase = "HEAD", !.addr = TRUE, !.ref = @ + 1] ELSE s
Released(s) == [s EXCEPT !.addr = FALSE, !.ref = @ - 1]

RecvFailedTwice(s) == acc_rsvr_del_conn([s EXCEPT !.ref = @ - 1]) \* mutant: recv->addr keeps the pointer

(* The error paths of acc_recv_data. *)
RecvFailed(s) == acc_rsvr_del_conn(Released(s))

(* acc_recv_data when there is nothing more to read: again, or closed. *)
acc_recv_end(r) ==
    LET s == Allocated(Sck(r))
    IN /\ Reading(r) /\ s.in = <<>>
       /\ IF s.peer
          THEN InDone(r) /\ conn' = [conn EXCEPT ![Event(r).c] = s]
          ELSE Handled(r) /\ conn' = [conn EXCEPT ![Event(r).c] = RecvFailed(s)]
       /\ UNCHANGED <<scene, lsnVars, queueVars, pipeVars, kick, clean, got, recd, app, ticks>>

(* acc_recv_post_hdl: the packet is handed up; one that is refused closes    *)
(* the connection.                                                           *)
acc_recv_post_hdl(r, s, packet) ==
    /\ recd' = [recd EXCEPT ![Event(r).c] = Append(@, packet)]
    /\ IF packet[1][1] # "bad"
       THEN /\ conn' = [conn EXCEPT ![Event(r).c] = [Released(s) EXCEPT !.phase = "INIT"]]
            /\ UNCHANGED batch
       ELSE /\ conn' = [conn EXCEPT ![Event(r).c] = acc_rsvr_del_conn(Released(s))]
            /\ Handled(r)

BodyAlways(m) == TRUE \* mutant: a packet without a body waits for one
get_packet_body_size(m) == HasBody(m)

(* acc_recv_head and acc_recv_body: the next part is whatever comes next. *)
acc_recv_data(r) ==
    LET s == Allocated(Sck(r))
        u == Head(s.in)
        rest == [s EXCEPT !.in = Tail(@)]
    IN /\ Reading(r) /\ s.in # <<>>
       /\ IF s.phase = "BODY" THEN acc_recv_post_hdl(r, rest, <<s.head, u>>)
          ELSE IF ~get_packet_body_size(u[1]) THEN acc_recv_post_hdl(r, rest, <<u>>)
          ELSE /\ conn' = [conn EXCEPT ![Event(r).c] = [rest EXCEPT !.phase = "BODY", !.head = u]]
               /\ UNCHANGED <<batch, recd>>
       /\ UNCHANGED <<scene, lsnVars, queueVars, pipeVars, kick, clean, got, app, ticks>>

Writing(r) == OnConn(r) /\ ~IsKicked(r) /\ ~Event(r).in

(* acc_send_data takes the next item once the last one is written. *)
NextItem(s) == IF s.cur # None THEN s
               ELSE [s EXCEPT !.cur = Head(s.list).item, !.off = 0, !.list = Tail(@)]

(* After an item the socket is armed for reading, and for writing as long as *)
(* there is more.                                                            *)
SentDeaf(s) == [s EXCEPT !.cur = None] \* mutant: it stays armed as it is
Sent(s) == EpollArm([s EXCEPT !.cur = None], IF s.list = <<>> THEN {"IN"} ELSE {"IN", "OUT"})
PartlyAgain(s) == [s EXCEPT !.full = TRUE] \* mutant: send->off stays
Partly(s) == [s EXCEPT !.off = @ + 1, !.full = TRUE]

(* acc_send_data: Writen writes what the kernel takes.  Nothing at all, also  *)
(* when the kernel was just filled up by the item before, is an error.       *)
acc_send_data(r) ==
    LET c == Event(r).c
        s == NextItem([Sck(r) EXCEPT !.wr = 0])
        part(i) == <<s.cur, i>>
    IN /\ Writing(r)
       /\ IF ~Event(r).out \/ (Sck(r).cur = None /\ Sck(r).list = <<>>)
          THEN /\ Handled(r)
               /\ conn' = IF Event(r).out THEN [conn EXCEPT ![c].wr = 0] ELSE conn
               /\ UNCHANGED got
          ELSE \/ /\ s.full \/ ~s.peer
                  /\ conn' = [conn EXCEPT ![c] = acc_rsvr_del_conn(s)]
                  /\ Handled(r) /\ UNCHANGED got
               \/ /\ ~s.full /\ s.peer /\ scene.slow /\ s.off = 0
                  /\ got' = [got EXCEPT ![c] = Append(@, part(0))]
                  /\ conn' = [conn EXCEPT ![c] = Partly(s)]
                  /\ Handled(r)
               \/ /\ ~s.full /\ s.peer
                  /\ got' = [got EXCEPT ![c] = @ \o [i \in 1 .. 2 - s.off |-> part(s.off + i - 1)]]
                  /\ \E f \in {FALSE, scene.slow} :
                       conn' = [conn EXCEPT ![c] = Sent([s EXCEPT !.full = f])]
                  /\ UNCHANGED batch
       /\ UNCHANGED <<scene, lsnVars, queueVars, pipeVars, kick, clean, recd, app, ticks>>

(* acc_rsvr_kick_clean, after the batch. *)
acc_rsvr_kick_clean(r) ==
    /\ batch[r] = <<>> /\ clean[r]
    /\ clean' = [clean EXCEPT ![r] = FALSE]
    /\ conn' = [c \in Cids |-> IF c \in kick[r] /\ Live(c) THEN acc_rsvr_del_conn(conn[c]) ELSE conn[c]]
    /\ kick' = [kick EXCEPT ![r] = {c \in @ : ~Live(c)}]
    /\ UNCHANGED <<scene, lsnVars, queueVars, pipeVars, batch, got, recd, app, ticks>>

(* acc_rsvr_timeout_hdl, acc_rsvr_conn_timeout: idle for more than 180 s.    *)
(* rdtm is never set again after the start.                                  *)
Idle(c) == Live(c) /\ conn[c].rd = 1 /\ conn[c].wr = 1
acc_rsvr_timeout_hdl(r) ==
    LET old == {c \in Cids : Idle(c) /\ ACC_GET_RID_BY_CID(c) = r}
    IN /\ batch[r] = <<>> /\ ~clean[r] /\ old # {}
       /\ conn' = [c \in Cids |-> IF c \in old THEN acc_rsvr_del_conn(conn[c]) ELSE conn[c]]
       /\ kick' = acc_rsvr_kick_del(r, old)
       /\ UNCHANGED <<scene, lsnVars, queueVars, pipeVars, batch, clean, got, recd, app, ticks>>

-----------------------------------------------------------------------------
(* The clients and the time. *)

Open(c) == conn[c].st \in {"queued", "live"} /\ conn[c].peer
Wakes(s, k) == [s EXCEPT !.rdy = @ \/ k \in s.mask]

ClientSends(c) ==
    /\ Open(c) /\ conn[c].n < Len(Units(scene.packets))
    /\ conn' = [conn EXCEPT ![c] = Wakes([@ EXCEPT !.n = @ + 1,
                   !.in = Append(@, Units(scene.packets)[conn[c].n + 1])], "IN")]
    /\ UNCHANGED <<scene, lsnVars, queueVars, pipeVars, loopVars, got, recd, app, ticks>>

ClientCloses(c) ==
    /\ Open(c) /\ scene.close
    /\ conn' = [conn EXCEPT ![c] = Wakes([@ EXCEPT !.peer = FALSE], "IN")]
    /\ UNCHANGED <<scene, lsnVars, queueVars, pipeVars, loopVars, got, recd, app, ticks>>

ClientReads(c) ==
    /\ Live(c) /\ conn[c].full
    /\ conn' = [conn EXCEPT ![c] = Wakes([@ EXCEPT !.full = FALSE], "OUT")]
    /\ UNCHANGED <<scene, lsnVars, queueVars, pipeVars, loopVars, got, recd, app, ticks>>

Tick ==
    /\ scene.time /\ ticks < MaxTick
    /\ ticks' = ticks + 1
    /\ conn' = [c \in Cids |-> IF Live(c) THEN [conn[c] EXCEPT !.rd = 1, !.wr = 1] ELSE conn[c]]
    /\ UNCHANGED <<scene, lsnVars, queueVars, pipeVars, loopVars, got, recd, app>>

-----------------------------------------------------------------------------
Lsvr(l) == \/ acc_lsvr_accept(l) \/ acc_lsvr_push(l) \/ acc_lsvr_send_add_sck_req(l)
           \/ acc_lsvr_timeout_hdl(l)
App == acc_async_send \/ acc_async_kick \/ acc_send_cmd_to_rsvr
Rsvr(r) ==
    \/ acc_rsvr_routine(r) \/ acc_rsvr_event_kicked(r) \/ acc_rsvr_cmd_done(r)
    \/ acc_rsvr_add_conn(r) \/ acc_rsvr_dist_send_data(r) \/ acc_rsvr_kick_conn(r)
    \/ acc_recv_end(r) \/ acc_recv_data(r) \/ acc_send_data(r)
    \/ acc_rsvr_kick_clean(r) \/ acc_rsvr_timeout_hdl(r)
Client(c) == ClientSends(c) \/ ClientCloses(c) \/ ClientReads(c)

Next ==
    \/ \E l \in scene.lsvrs : Lsvr(l)
    \/ App
    \/ \E r \in Rsvrs : Rsvr(r)
    \/ \E c \in Cids : Client(c)
    \/ Tick

(* Threads are scheduled, and a client that is connected reads. *)
Fairness ==
    /\ \A l \in Lsvrs : WF_vars(l \in scene.lsvrs /\ Lsvr(l))
    /\ \A r \in 0 .. MaxRsvrs - 1 : WF_vars(r \in Rsvrs /\ Rsvr(r))
    /\ WF_vars(App)
    /\ \A c \in Cids : WF_vars(ClientReads(c))

Spec == Init /\ [][Next]_vars /\ Fairness

-----------------------------------------------------------------------------
(* Properties. *)

(* The type of the state; queues and pipe within their limits. *)
TypeOK ==
    /\ cid \in 0 .. MaxCid /\ backlog \in 0 .. MaxCid
    /\ \A r \in Rsvrs :
         /\ Len(connq[r]) <= ConnqMax /\ Len(sendq[r]) <= SendqMax
         /\ Len(kickq[r]) <= KickqMax /\ kickfree[r] \in 0 .. KickqMax
         /\ Len(cmd[r]) <= PipeMax /\ kick[r] \subseteq Cids
    /\ \A c \in Cids :
         /\ conn[c].st \in {"none", "queued", "live", "gone"}
         /\ conn[c].phase \in {"INIT", "HEAD", "BODY"}
         /\ conn[c].mask \subseteq {"IN", "OUT"} /\ conn[c].off \in 0 .. 1

(* The rest of a batch names live sockets only: whatever closes, is kicked   *)
(* or fails while it is handled, no pointer of it dangles ("此操作必须放在事 *)
(* 件检测之后, 否则将导致epoll访问被释放的空间", acc_rsvr_kick_clean).       *)
BatchAlive == \A r \in Rsvrs : \A i \in DOMAIN batch[r] : batch[r][i].c # 0 => Live(batch[r][i].c)

(* kick_list names live connections of its receiver, and none once a batch   *)
(* is over: a CID left in it would stay there for good.                      *)
KickListClean ==
    \A r \in Rsvrs :
        /\ \A c \in kick[r] : Live(c) /\ ACC_GET_RID_BY_CID(c) = r
        /\ batch[r] = <<>> /\ ~clean[r] => kick[r] = {}

(* A receive buffer is released exactly once: it is counted while a packet   *)
(* is being read into it, and not when the packet was handed up or the       *)
(* connection is gone, on whichever path.                                    *)
BufferOnce == \A c \in Cids : conn[c].ref = IF conn[c].phase # "INIT" /\ Live(c) THEN 1 ELSE 0

(* Packets are handed up as the client sent them, in order, however they are *)
(* split and whatever writes come between.                                   *)
FramesIntact ==
    \A c \in Cids :
        LET sent == [i \in DOMAIN scene.packets |-> Units(<<scene.packets[i]>>)]
        IN IsPrefix(recd[c], sent)

(* What a client reads is a sequence of whole items addressed to it, in the  *)
(* order of the calls; only the last one can be incomplete.                  *)
StreamIntact ==
    \A c \in Cids :
        /\ \A i \in DOMAIN got[c] : got[c][i][2] = (i - 1) % 2
        /\ \A i \in DOMAIN got[c] : i % 2 = 0 => got[c][i][1] = got[c][i - 1][1]
        /\ \E f \in [1 .. (Len(got[c]) + 1) \div 2 -> DOMAIN scene.calls] :
             /\ \A i, j \in DOMAIN f : i < j => f[i] < f[j]
             /\ \A i \in DOMAIN f : scene.calls[f[i]] = [op |-> "send", c |-> c, item |-> got[c][2 * i - 1][1]]

(* A connection that is not armed for reading has something to write, so it  *)
(* will be armed again.                                                      *)
NeverDeaf ==
    \A c \in Cids : Live(c) /\ "IN" \notin conn[c].mask => conn[c].list # <<>> \/ conn[c].cur # None

(* A connection in connq is added although its ADD_SCK was lost in a full    *)
(* pipe: acc_lsvr_timeout_hdl asks again.                                    *)
QueuedIsAdded == \A c \in Cids : (conn[c].st = "queued") ~> (conn[c].st # "queued")

(* What is in the list of a connection is written, or the connection ends.   *)
ListDrains == \A c \in Cids : (conn[c].list # <<>>) ~> (conn[c].list = <<>>)

(* A kick whose command got into the pipe closes the connection. *)
KickCloses ==
    \A c \in Cids :
        (Live(c) /\ \E r \in Rsvrs : Contains(kickq[r], c) /\ Contains(cmd[r], "KICK_CONN")) ~> ~Live(c)

(* A socket or a buffer that is freed is in no batch, no kick list and no    *)
(* half read packet, and is freed once.                                      *)
NothingDangles == TypeOK /\ BatchAlive /\ KickListClean /\ BufferOnce

(* Both directions of a connection carry whole packets in their order.       *)
StreamsWhole == FramesIntact /\ StreamIntact

(* No connection is forgotten: it is added, read from, written to and, when  *)
(* kicked, closed, although commands are dropped when the pipe is full.      *)
NoneForgotten == []NeverDeaf /\ QueuedIsAdded /\ ListDrains /\ KickCloses
=============================================================================
