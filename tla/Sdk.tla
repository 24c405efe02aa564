-------------------------------- MODULE Sdk --------------------------------
(***************************************************************************)
(* The client SDK (lib/sdk).  Application threads call sdk_async_send; one *)
(* thread (ssvr) owns the connection: it sends what is queued, reports the *)
(* fate of every message through its callback, receives, keeps alive and   *)
(* connects again.  Worker threads run the handlers of what was received.  *)
(*                                                                         *)
(* A message has two units, so that a write may end inside it; what the    *)
(* SDK sends of itself has one.  select() is level triggered; its time out *)
(* happens when something is due.                                          *)
(***************************************************************************)
EXTENDS Integers, Sequences, FiniteSets, SequencesExt

CONSTANTS
    Apps,           \* application threads
    Mesgs,          \* messages the application sends
    IovMax,         \* slots of the write buffer (2 * sendq_len)
    CmdMax,         \* commands the socket of ssvr holds
    MaxConn,        \* bound: connections made, in any scene
    Scenes          \* what happens in a run, records of: the messages of each
                    \* thread; the answers to ONLINE, a sequence number or -1
                    \* for refused; whether the server acknowledges; what it
                    \* sends of itself; whether it may close; whether reads
                    \* and writes may end inside a message and the socket
                    \* be full; network_switch
                    \* calls; whether keepalives fall due; how
                    \* connecting may fail; how many connections are made

(* What the server sends. *)
Kinds == {"ONLINE_ACK", "ACK", "BADACK", "PUSH", "PING", "PONG"}

(* What the SDK sends of itself is no message of the application, each       *)
(* message is sent once, and the server numbers its answers.                 *)
ASSUME SdkAssumption ==
    /\ IovMax \in Nat \ {0} /\ CmdMax \in Nat /\ MaxConn \in Nat
    /\ Mesgs \cap {"ONLINE", "SYNC", "PING"} = {}
    /\ \A s \in Scenes :
         /\ s.send \in [Apps -> Seq(Mesgs)]
         /\ \A a, b \in Apps : \A i \in DOMAIN s.send[a], j \in DOMAIN s.send[b] :
              s.send[a][i] = s.send[b][j] => a = b /\ i = j
         /\ s.conns \in 0 .. MaxConn
         /\ s.answer \in Seq(Int) /\ s.conns <= Len(s.answer)
         /\ s.ack \in Kinds \cup {"none"} /\ s.dn \in Seq([k : Kinds, v : Int])

VARIABLES
    scene,          \* the one of Scenes that happens
    app,            \* thread -> where it is in sdk_async_send
    lck,            \* cmd_sck_lck
    item,           \* message -> sdk_send_item_t and what its callback was told
    tab,            \* mgr->tab: the messages in it
    seq,            \* mgr->seq; what the SDK's own messages draw is left out
    sendq, recvq,   \* ctx->sendq, ctx->recvq
    cmds,           \* commands in the socket of ssvr
    ssvr,           \* where the thread is, the events of select()
    fd, online,     \* the connection (0: none), is_online_succ
    ml,             \* sck->mesg_list
    iov, cnt,       \* what the write buffer holds, and its iov_cnt
    snap,           \* the part of a message in the receive buffer
    kp, kpdue,      \* kpalive_times; next_kpalive_tm has passed
    conndue,        \* next_conn_tm has passed
    info,           \* conn_info
    conns,          \* connections made so far
    stale,          \* history: connections begun with something in the write buffer
    wire,           \* connection -> units written to it
    dn, peer,       \* what the server sent on fd; connections it has open
    ans,            \* what the server has answered
    calls,          \* calls of sdk_network_switch; server messages so far
    wild            \* freed memory used, or the input of two connections mixed

appVars == <<app, lck>>
mgrVars == <<item, tab, seq, sendq>>
sckVars == <<fd, online, ml, iov, cnt, snap, kp, kpdue, conndue, info, conns, stale>>
srvVars == <<wire, dn, peer, ans>>
sdkVars == <<scene, appVars, mgrVars, recvq, cmds, ssvr, sckVars, srvVars, calls, wild>>

NoInfo == [exp |-> FALSE, ips |-> FALSE, sid |-> FALSE]
Clean == [c |-> 0, x |-> [k |-> "none", v |-> 0]]
(* sdk_is_sys_mesg: what the SDK sends of itself. *)
Sys == {"ONLINE", "SYNC", "PING"}
Units(m) == IF m \in Sys THEN 1 ELSE 2

(* sdk_init, sdk_ssvr_init: no connection, next_conn_tm is 0. *)
SdkInit ==
    /\ scene \in Scenes
    /\ app = [a \in Apps |-> [pc |-> "idle", n |-> 0, seq |-> 0]] /\ lck = FALSE
    /\ item = [m \in Mesgs |-> [stat |-> "NEW", seq |-> 0, due |-> FALSE, res |-> <<>>]]
    /\ tab = {} /\ seq = 0 /\ sendq = <<>> /\ recvq = <<>> /\ cmds = <<>>
    /\ ssvr = [pc |-> "wait", armed |-> FALSE, ev |-> {}]
    /\ fd = 0 /\ online = FALSE /\ ml = <<>> /\ iov = <<>> /\ cnt = 0 /\ snap = Clean
    /\ kp = 0 /\ kpdue = FALSE /\ conndue = TRUE /\ info = NoInfo
    /\ conns = 0 /\ stale = {}
    /\ wire = [c \in 1 .. MaxConn |-> <<>>] /\ dn = <<>> /\ peer = {} /\ ans = {}
    /\ calls = [net |-> 0, dn |-> 0] /\ wild = FALSE

-----------------------------------------------------------------------------
(* The application. *)

Told(m, r) == [item EXCEPT ![m].res = Append(@, r)]
Mesg(a) == scene.send[a][app[a].n]

(* sdk_async_send: refused without a connection; else the message gets a     *)
(* sequence number.                                                          *)
sdk_async_send(a) ==
    /\ app[a].pc = "idle" /\ app[a].n < Len(scene.send[a])
    /\ LET m == scene.send[a][app[a].n + 1]
       IN IF ~online
          THEN /\ app' = [app EXCEPT ![a].n = @ + 1]
               /\ item' = Told(m, "SEND_FAIL")
               /\ UNCHANGED seq
          ELSE /\ seq' = seq + 1
               /\ app' = [app EXCEPT ![a] = [pc |-> "put", n |-> @.n + 1, seq |-> seq + 1]]
               /\ UNCHANGED item
    /\ UNCHANGED <<scene, lck, tab, sendq, recvq, cmds, ssvr, sckVars, srvVars, calls, wild>>

(* The elements of q that are not in S, in their order. *)
Without(q, S) ==
    LET keep == {i \in DOMAIN q : q[i] \notin S}
        Rank(i) == Cardinality({j \in keep : j <= i})
    IN [k \in 1 .. Cardinality(keep) |-> q[CHOOSE i \in keep : Rank(i) = k]]

(* sdk_queue_rpush puts an element at the end it is taken from. *)
sdk_queue_rpush(q, x) == <<x>> \o q

(* sdk_send_mgr_insert and sdk_queue_rpush, under the lock of the table.  A  *)
(* sequence number that is in use makes the call fail.                       *)
sdk_send_mgr_insert(a) ==
    LET m == Mesg(a)
    IN /\ app[a].pc = "put"
       /\ IF \E x \in tab : item[x].seq = app[a].seq
          THEN /\ item' = Told(m, "SEND_FAIL")
               /\ app' = [app EXCEPT ![a].pc = "idle"]
               /\ UNCHANGED <<tab, sendq>>
          ELSE /\ item' = [item EXCEPT ![m] = [@ EXCEPT !.stat = "IN_SENDQ", !.seq = app[a].seq]]
               /\ tab' = tab \cup {m}
               /\ sendq' = sdk_queue_rpush(sendq, m)
               /\ app' = [app EXCEPT ![a].pc = "notify"]
       /\ UNCHANGED <<scene, lck, seq, recvq, cmds, ssvr, sckVars, srvVars, calls, wild>>

(* The socket of ssvr does not block: a full one drops the command. *)
unix_udp_send(cmd) == cmds' = IF Len(cmds) < CmdMax THEN Append(cmds, cmd) ELSE cmds

(* sdk_cli_cmd_send_req: nothing is sent while another thread sends. *)
sdk_cli_cmd_send_req(a) ==
    /\ app[a].pc = "notify"
    /\ IF lck THEN app' = [app EXCEPT ![a].pc = "idle"] /\ UNCHANGED <<cmds, lck>>
       ELSE app' = [app EXCEPT ![a].pc = "unlock"] /\ lck' = TRUE /\ unix_udp_send("SEND_ALL")
    /\ UNCHANGED <<scene, mgrVars, recvq, ssvr, sckVars, srvVars, calls, wild>>

spin_unlock(a) ==
    /\ app[a].pc = "unlock"
    /\ app' = [app EXCEPT ![a].pc = "idle"] /\ lck' = FALSE
    /\ UNCHANGED <<scene, mgrVars, recvq, cmds, ssvr, sckVars, srvVars, calls, wild>>

(* sdk_network_switch: CONN and DISCONN make ssvr do the same. *)
sdk_network_switch ==
    /\ calls.net < scene.switch /\ ~lck
    /\ calls' = [calls EXCEPT !.net = @ + 1]
    /\ unix_udp_send("NETWORK")
    /\ UNCHANGED <<scene, appVars, mgrVars, recvq, ssvr, sckVars, srvVars, wild>>

-----------------------------------------------------------------------------
(* ssvr: the loop of sdk_ssvr_routine. *)

Ready ==
    (IF ssvr.armed THEN {"w"} ELSE {}) \cup (IF cmds # <<>> THEN {"c"} ELSE {})
    \cup (IF fd # 0 /\ (dn # <<>> \/ fd \notin peer) THEN {"r"} ELSE {})
Expired == {m \in tab : item[m].due /\ item[m].stat # "SENDING"}

(* sdk_ssvr_get_timeout: the time out comes when an item, a connect or a     *)
(* keepalive is due, and after a second while sendq has something.           *)
sdk_ssvr_get_timeout == Expired # {} \/ (fd = 0 /\ conndue) \/ (fd # 0 /\ kpdue) \/ (sendq # <<>> /\ fd # 0 /\ ~ssvr.armed)

sdk_ssvr_routine ==
    /\ ssvr.pc = "wait"
    /\ IF Ready # {} THEN ssvr' = [ssvr EXCEPT !.pc = "run", !.ev = Ready]
       ELSE sdk_ssvr_get_timeout /\ ssvr' = [ssvr EXCEPT !.pc = "run"]
    /\ UNCHANGED <<scene, appVars, mgrVars, recvq, cmds, sckVars, srvVars, calls, wild>>

(* The events of a round in their order: write, command, read. *)
Turn(e) == /\ ssvr.pc = "run" /\ e \in ssvr.ev
           /\ e = "c" => "w" \notin ssvr.ev
           /\ e = "r" => ssvr.ev = {"r"}
Handled(e) == [ssvr EXCEPT !.ev = @ \ {e}]

(* sdk_send_mgr_delete: messages whose callback is told r leave the table. *)
sdk_send_mgr_delete(S, r) ==
    /\ item' = [m \in Mesgs |-> IF m \in S
                  THEN [item[m] EXCEPT !.stat = "GONE", !.res = Append(@, r)] ELSE item[m]]
    /\ tab' = tab \ S

InIov == {iov[k].m : k \in 1 .. Len(iov)} \ Sys

CleanKeeps == \* mutant: sdk_send_mgr_delete is forgotten
    /\ item' = [m \in Mesgs |-> IF m \in InIov
                  THEN [item[m] EXCEPT !.stat = "SEND_FAIL", !.res = Append(@, "SEND_FAIL")] ELSE item[m]]
    /\ iov' = <<>> /\ cnt' = 0 /\ UNCHANGED tab

sdk_send_fail_hdl == sdk_send_mgr_delete(InIov, "SEND_FAIL")
wiov_clean == sdk_send_fail_hdl /\ iov' = <<>> /\ cnt' = 0

(* CLOSE: what the server sent and was not read is lost. *)
Closed == fd' = 0 /\ dn' = <<>> /\ peer' = peer \ {fd}

Adding == [ssvr EXCEPT !.pc = "add"]

SendAll == \* mutant: the slots are not counted
    iov' = iov \o [i \in 1 .. Len(ml) |-> [m |-> ml[i], left |-> 1]] /\ cnt' = cnt + Len(ml) /\ ml' = <<>>

(* sdk_ssvr_send_data, sdk_ssvr_wiov_add: first the list of the SDK's own    *)
(* messages, while there are slots; ...                                      *)
sdk_ssvr_send_data ==
    LET k == IF Len(ml) < IovMax - cnt THEN Len(ml) ELSE IovMax - cnt
    IN /\ iov' = iov \o [i \in 1 .. k |-> [m |-> ml[i], left |-> 1]]
       /\ cnt' = cnt + k
       /\ ml' = SubSeq(ml, k + 1, Len(ml))

sdk_ssvr_writable ==
    /\ Turn("w")
    /\ ssvr' = [Handled("w") EXCEPT !.pc = "add"]
    /\ sdk_ssvr_send_data
    /\ UNCHANGED <<scene, appVars, mgrVars, recvq, cmds, fd, online, snap, kp, kpdue, conndue,
                   info, conns, stale, srvVars, calls, wild>>

(* ... then sendq, until the slots are used; what is too late is dropped. *)
sdk_send_data_is_timeout_and_hdl(q) == {m \in ToSet(q) : item[m].due}
InTime(k) == Cardinality({i \in 1 .. k : ~item[sendq[i]].due})
Full(k) == k = Len(sendq) \/ InTime(k) = IovMax - cnt
Taken == CHOOSE k \in 0 .. Len(sendq) : Full(k) /\ \A j \in 0 .. k - 1 : ~Full(j)

sdk_ssvr_wiov_add ==
    LET late == sdk_send_data_is_timeout_and_hdl(SubSeq(sendq, 1, Taken))
        go == Without(SubSeq(sendq, 1, Taken), late)
    IN /\ ssvr.pc = "add" /\ ssvr' = [ssvr EXCEPT !.pc = "writev"]
       /\ sendq' = SubSeq(sendq, Taken + 1, Len(sendq))
       /\ iov' = iov \o [i \in 1 .. Len(go) |-> [m |-> go[i], left |-> 2]]
       /\ cnt' = cnt + Len(go)
       /\ item' = [m \in Mesgs |->
             IF m \in late THEN [item[m] EXCEPT !.stat = "GONE", !.res = Append(@, "SEND_TIMEOUT")]
             ELSE IF m \in ToSet(go) THEN [item[m] EXCEPT !.stat = "SENDING"] ELSE item[m]]
       /\ tab' = tab \ late
       /\ UNCHANGED <<scene, appVars, seq, recvq, cmds, fd, online, ml, snap, kp, kpdue,
                      conndue, info, conns, stale, srvVars, calls, wild>>

(* The units of the buffer, in order: <<message, unit>>. *)
UnitsOf(e) == [j \in 1 .. e.left |-> <<e.m, Units(e.m) - e.left + j>>]
Buffered == FlattenSeq([k \in 1 .. Len(iov) |-> UnitsOf(iov[k])])
(* How many of the first n units belong to the first k entries. *)
Upto(k) == Len(FlattenSeq([j \in 1 .. k |-> UnitsOf(iov[j])]))

sdk_send_succ_hdl(S) ==
    [m \in Mesgs |-> IF m \notin S THEN item[m]
                     ELSE [item[m] EXCEPT !.stat = "SEND_SUCC", !.res = Append(@, "SEND_SUCC")]]

AdjustAgain(n) == \* mutant: the rest of a message starts at its beginning
    LET k == Cardinality({j \in 1 .. Len(iov) : Upto(j) <= n})
        wrote == {iov[j].m : j \in 1 .. k} \ Sys
    IN /\ iov' = SubSeq(iov, k + 1, Len(iov))
       /\ cnt' = IF k = Len(iov) THEN 0 ELSE cnt
       /\ item' = sdk_send_succ_hdl(wrote)

AdjustEarly(n) == \* mutant: a message that is begun counts as sent
    LET k == Cardinality({j \in 1 .. Len(iov) : Upto(j - 1) < n})
        wrote == {iov[j].m : j \in 1 .. k} \ Sys
    IN /\ iov' = SubSeq(iov, k + 1, Len(iov))
       /\ cnt' = IF k = Len(iov) THEN 0 ELSE cnt
       /\ item' = sdk_send_succ_hdl(wrote)

(* wiov_item_adjust after n units were written: sdk_send_succ_hdl for each   *)
(* message that is through; the slots are free again when all are.           *)
wiov_item_adjust(n) ==
    LET k == Cardinality({j \in 1 .. Len(iov) : Upto(j) <= n})
        rest == SubSeq(iov, k + 1, Len(iov))
        wrote == {iov[j].m : j \in 1 .. k} \ Sys
    IN /\ iov' = IF rest = <<>> THEN <<>> ELSE [rest EXCEPT ![1].left = Upto(k + 1) - n]
       /\ cnt' = IF rest = <<>> THEN 0 ELSE cnt
       /\ item' = sdk_send_succ_hdl(wrote)

FillDone == ssvr.pc = "writev"
NextEvent == [ssvr EXCEPT !.pc = "run"]

sdk_ssvr_writev ==
    /\ FillDone /\ ssvr' = NextEvent
    /\ IF cnt = 0 THEN UNCHANGED <<item, iov, cnt, wire>>
       ELSE \E n \in IF scene.part THEN 1 .. Len(Buffered) ELSE {Len(Buffered)} :
              /\ wiov_item_adjust(n)
              /\ wire' = [wire EXCEPT ![fd] = @ \o SelectSeq(SubSeq(Buffered, 1, n), LAMBDA u : u[1] \in Mesgs \cup {"ONLINE"})]
    /\ UNCHANGED <<scene, appVars, tab, seq, sendq, recvq, cmds, fd, online, ml, snap, kp,
                   kpdue, conndue, info, conns, stale, dn, peer, ans, calls, wild>>

(* The write fails once the server has closed. *)
sdk_ssvr_writev_fail ==
    /\ FillDone /\ cnt # 0 /\ fd \notin peer /\ ssvr' = NextEvent
    /\ Closed /\ wiov_clean /\ online' = FALSE
    /\ UNCHANGED <<scene, appVars, seq, sendq, recvq, cmds, ml, snap, kp, kpdue, conndue, info,
                   conns, stale, wire, ans, calls, wild>>

(* sdk_ssvr_recv_cmd, sdk_ssvr_proc_cmd.  fd_is_writable: there is no        *)
(* connection, or no room in its socket, and the command is done with.       *)
sdk_ssvr_proc_send ==
    /\ Turn("c") /\ Head(cmds) = "SEND_ALL" /\ cmds' = Tail(cmds)
    /\ \/ fd # 0 /\ ssvr' = [Handled("c") EXCEPT !.pc = "add"] /\ sdk_ssvr_send_data
       \/ (fd = 0 \/ scene.part) /\ ssvr' = Handled("c") /\ UNCHANGED <<iov, cnt, ml>>
    /\ UNCHANGED <<scene, appVars, mgrVars, recvq, fd, online, snap, kp, kpdue, conndue,
                   info, conns, stale, srvVars, calls, wild>>

sdk_ssvr_proc_network ==
    /\ Turn("c") /\ Head(cmds) = "NETWORK" /\ cmds' = Tail(cmds)
    /\ ssvr' = Handled("c")
    /\ Closed /\ wiov_clean /\ online' = FALSE /\ conndue' = TRUE
    /\ UNCHANGED <<scene, appVars, seq, sendq, recvq, ml, snap, kp, kpdue, info, conns, stale, wire,
                   ans, calls, wild>>

-----------------------------------------------------------------------------
(* Receiving: sdk_ssvr_recv_proc reads until nothing is left. *)

Reading == Turn("r") /\ fd # 0 /\ dn # <<>>
X == Head(dn).x
Whole == Reading /\ snap.c \in {0, fd}
Read == dn' = Tail(dn) /\ snap' = Clean /\ UNCHANGED <<wire, peer, ans>>
recvUnch == <<scene, appVars, cmds, ssvr, fd, iov, cnt, conndue, info, conns, stale, calls>>

(* The fd was closed by an earlier event of this round, or all is read. *)
sdk_ssvr_recv_end ==
    /\ Turn("r") /\ (fd = 0 \/ (dn = <<>> /\ fd \in peer)) /\ ssvr' = Handled("r")
    /\ UNCHANGED <<scene, appVars, mgrVars, recvq, cmds, sckVars, srvVars, calls, wild>>

(* End of file: what is in the write buffer stays there. *)
sdk_ssvr_recv_eof ==
    /\ Turn("r") /\ fd # 0 /\ dn = <<>> /\ fd \notin peer /\ ssvr' = Handled("r")
    /\ Closed /\ online' = FALSE /\ snap' = Clean
    /\ UNCHANGED <<scene, appVars, mgrVars, recvq, cmds, ml, iov, cnt, kp, kpdue, conndue, info,
                   conns, stale, wire, ans, calls, wild>>

(* sdk_ssvr_data_proc: less than a message waits in the buffer, ... *)
sdk_ssvr_half ==
    /\ Whole /\ scene.half /\ snap = Clean /\ ~Head(dn).rest
    /\ dn' = [dn EXCEPT ![1].rest = TRUE] /\ snap' = [c |-> fd, x |-> X]
    /\ ssvr' = Handled("r")     \* EAGAIN
    /\ UNCHANGED <<scene, appVars, mgrVars, recvq, cmds, fd, online, ml, iov, cnt, kp, kpdue,
                   conndue, info, conns, stale, wire, peer, ans, calls, wild>>

(* ... also when the connection it came from is closed.                      *)
sdk_ssvr_mixed ==
    /\ Reading /\ snap.c \notin {0, fd} /\ wild' = TRUE
    /\ UNCHANGED <<scene, appVars, mgrVars, recvq, cmds, ssvr, sckVars, srvVars, calls>>

sdk_send_mgr_query(s) == {m \in tab : item[m].seq = s}

(* sdk_ack_succ_hdl: the message with this sequence number leaves the table  *)
(* and is freed.  One that is still queued, or that is of another type, is   *)
(* freed where it is.                                                        *)
sdk_ack_succ_hdl ==
    /\ Whole /\ X.k \in {"ACK", "BADACK"} /\ sdk_send_mgr_query(X.v) # {}
    /\ sdk_send_mgr_delete(sdk_send_mgr_query(X.v), "ACK_SUCC") /\ Read
    /\ wild' = (X.k = "BADACK" \/ \E m \in sdk_send_mgr_query(X.v) : item[m].stat # "SEND_SUCC")
    /\ UNCHANGED <<recvUnch, seq, sendq, recvq, online, ml, kp, kpdue>>

(* sdk_exp_mesg_proc: into recvq, at the end it is taken from; a worker is   *)
(* told.  So is an acknowledgement nobody waits for.                         *)
sdk_exp_mesg_proc ==
    /\ Whole /\ Read
    /\ X.k = "PUSH" \/ (X.k \in {"ACK", "BADACK"} /\ sdk_send_mgr_query(X.v) = {})
    /\ recvq' = sdk_queue_rpush(recvq, X)
    /\ UNCHANGED <<recvUnch, mgrVars, online, ml, kp, kpdue, wild>>

(* sdk_mesg_pong_handler *)
sdk_mesg_pong_handler ==
    /\ Whole /\ X.k = "PONG" /\ Read
    /\ kp' = 0 /\ kpdue' = FALSE
    /\ UNCHANGED <<recvUnch, mgrVars, recvq, online, ml, wild>>

(* sdk_mesg_ping_handler, sdk_mesg_send_ping_req *)
sdk_mesg_ping_handler ==
    /\ Whole /\ X.k = "PING" /\ Read
    /\ kp' = 1 /\ kpdue' = FALSE /\ ml' = Append(ml, "PING")
    /\ UNCHANGED <<recvUnch, mgrVars, recvq, online, wild>>

sdk_mesg_send_sync_req == ml' = Append(ml, "SYNC")

(* sdk_mesg_online_ack_handler: the server's sequence number is taken over.  *)
sdk_mesg_online_ack_handler ==
    /\ Whole /\ X.k = "ONLINE_ACK" /\ X.v >= 0 /\ Read
    /\ online' = TRUE /\ sdk_mesg_send_sync_req /\ seq' = X.v
    /\ UNCHANGED <<recvUnch, item, tab, sendq, recvq, kp, kpdue, wild>>

sdk_mesg_online_refused ==
    /\ Whole /\ X.k = "ONLINE_ACK" /\ X.v < 0 /\ ssvr' = Handled("r")
    /\ Closed /\ snap' = Clean /\ online' = FALSE /\ seq' = 0
    /\ UNCHANGED <<scene, appVars, item, tab, sendq, recvq, cmds, ml, iov, cnt, kp, kpdue,
                   conndue, info, conns, stale, wire, ans, calls, wild>>

-----------------------------------------------------------------------------
(* sdk_ssvr_timeout_hdl, at the end of each round. *)

TravNone == {} \* mutant: nothing is ever too late
TravSending == {m \in tab : item[m].due} \* mutant: what is being sent is freed too

(* sdk_send_mgr_trav: what is being sent cannot be called back. *)
sdk_send_mgr_trav == {m \in tab : item[m].due /\ item[m].stat # "SENDING"}

sdk_queue_remove(S) == Without(sendq, S)
sdk_send_item_clean_timeout_hdl(m) ==
    [item[m] EXCEPT !.stat = "GONE",
        !.res = Append(@, IF item[m].stat = "IN_SENDQ" THEN "SEND_TIMEOUT" ELSE "ACK_TIMEOUT")]

Cleaned ==
    /\ item' = [m \in Mesgs |-> IF m \notin sdk_send_mgr_trav THEN item[m]
          ELSE sdk_send_item_clean_timeout_hdl(m)]
    /\ tab' = tab \ sdk_send_mgr_trav
    /\ sendq' = sdk_queue_remove(sdk_send_mgr_trav)

Turned == ssvr.pc = "run" /\ ssvr.ev = {}
(* The end of a round, and sdk_ssvr_set_rwset for the next. *)
sdk_ssvr_set_rwset ==
    ssvr' = [pc |-> "wait", ev |-> {},
             armed |-> fd' # 0 /\ (ml' # <<>> \/ sendq' # <<>> \/ cnt' # 0)]

trav_only == \* mutant: no keepalive is sent and nothing is closed
    /\ Turned /\ fd # 0 /\ kpdue /\ Cleaned /\ kpdue' = FALSE
    /\ UNCHANGED <<scene, appVars, seq, recvq, cmds, fd, online, ml, iov, cnt, snap, kp, conndue,
                   info, conns, stale, srvVars, calls, wild>>
    /\ sdk_ssvr_set_rwset

sdk_ssvr_timeout_hdl ==
    /\ Turned /\ Cleaned
    /\ IF fd = 0 THEN ~conndue ELSE ~kpdue
    /\ UNCHANGED <<scene, appVars, seq, recvq, cmds, sckVars, srvVars, calls, wild>>
    /\ sdk_ssvr_set_rwset

(* sdk_mesg_send_ping_req: after four without an answer the connection ends. *)
sdk_mesg_send_ping_req ==
    /\ Turned /\ fd # 0 /\ kpdue
    /\ kpdue' = FALSE
    /\ IF kp > 3
       THEN /\ Closed /\ iov' = <<>> /\ cnt' = 0
            /\ tab' = tab \ (sdk_send_mgr_trav \cup InIov)
            /\ item' = [m \in Mesgs |->
                 IF m \in sdk_send_mgr_trav THEN sdk_send_item_clean_timeout_hdl(m)
                 ELSE IF m \in InIov THEN [item[m] EXCEPT !.stat = "GONE", !.res = Append(@, "SEND_FAIL")]
                 ELSE item[m]]
            /\ sendq' = sdk_queue_remove(sdk_send_mgr_trav)
            /\ UNCHANGED <<ml, kp>>
       ELSE /\ Cleaned /\ ml' = Append(ml, "PING") /\ kp' = kp + 1
            /\ UNCHANGED <<fd, dn, peer, iov, cnt>>
    /\ UNCHANGED <<scene, appVars, seq, recvq, cmds, online, snap, conndue, info, conns, stale, wire, ans,
                   calls, wild>>
    /\ sdk_ssvr_set_rwset

(* sdk_ssvr_parse_conn_info: the fields of an answer are stored as           *)
(* they are found, and stay when a later one is missing.                     *)
sdk_ssvr_parse_conn_info(answer) ==
    [exp |-> answer \in {"token", "sid", "ok"}, ips |-> answer \in {"sid", "ok"}, sid |-> answer = "ok"]

sdk_ssvr_update_conn_info == IF info.exp THEN info ELSE sdk_ssvr_parse_conn_info("ok")
sdk_ssvr_clear_mesg == <<>>

(* sdk_ssvr_reconn: without valid information the HTTP server is asked; it   *)
(* does not answer completely, or no address can be connected to.            *)
sdk_ssvr_reconn_fail ==
    /\ Turned /\ fd = 0 /\ conndue /\ Cleaned
    /\ online' = FALSE /\ conndue' = FALSE /\ kp' = 0 /\ kpdue' = FALSE
    /\ \/ \E answer \in scene.fails \ {"connect"} :
            ~info.exp /\ info' = sdk_ssvr_parse_conn_info(answer) /\ UNCHANGED ml
       \/ /\ info.exp => (~info.ips \/ "connect" \in scene.fails \/ conns = scene.conns)
          /\ ~info.exp => ("connect" \in scene.fails \/ conns = scene.conns)
          /\ info' = sdk_ssvr_update_conn_info
          /\ ml' = sdk_ssvr_clear_mesg
    /\ UNCHANGED <<scene, appVars, seq, recvq, cmds, fd, iov, cnt, snap, conns, stale, srvVars, calls, wild>>
    /\ sdk_ssvr_set_rwset

(* sdk_ssvr_conn_after_hdl: ONLINE is the first message of a connection; the *)
(* state is "online" before the answer comes.                                *)
sdk_mesg_send_online_req == Append(sdk_ssvr_clear_mesg, "ONLINE")
sdk_ssvr_conn_after_hdl == ml' = sdk_mesg_send_online_req /\ online' = TRUE

sdk_ssvr_reconn ==
    /\ Turned /\ fd = 0 /\ conndue /\ Cleaned /\ conns < scene.conns
    /\ info.exp => info.ips
    /\ info' = sdk_ssvr_update_conn_info
    /\ kp' = 0 /\ kpdue' = FALSE /\ conndue' = FALSE
    /\ conns' = conns + 1 /\ fd' = conns + 1 /\ peer' = peer \cup {conns + 1}
    /\ stale' = IF cnt # 0 THEN stale \cup {conns + 1} ELSE stale
    /\ sdk_ssvr_conn_after_hdl
    /\ UNCHANGED <<scene, appVars, seq, recvq, cmds, iov, cnt, snap, wire, dn, ans, calls, wild>>
    /\ sdk_ssvr_set_rwset

-----------------------------------------------------------------------------
never_handled == FALSE \* mutant: the worker ignores what it is told

(* sdk_worker_cmd_proc_req_hdl: any worker takes from recvq what came last;  *)
(* a command, or the time out of its select, makes it look.                  *)
sdk_worker_cmd_proc_req_hdl ==
    /\ recvq # <<>> /\ recvq' = Tail(recvq)     \* its handler runs, or it is dropped
    /\ UNCHANGED <<scene, appVars, mgrVars, cmds, ssvr, sckVars, srvVars, calls, wild>>

-----------------------------------------------------------------------------
(* The server, and the time.  ssvr sees what they do after its select(), so  *)
(* they move while it waits.                                                 *)

Waiting == ssvr.pc = "wait"
Passing == Waiting /\ Ready = {}     \* time passes in select()
Down(x) == Append(dn, [x |-> x, rest |-> FALSE])
OnWire(m) == Len(SelectSeq(wire[fd], LAMBDA u : u[1] = m)) = Units(m)
Seqs(m) == item[m].seq

ServerAnswers ==
    /\ Waiting /\ fd \in peer
    /\ \/ /\ OnWire("ONLINE") /\ <<"ONLINE", fd>> \notin ans
          /\ ans' = ans \cup {<<"ONLINE", fd>>}
          /\ dn' = Down([k |-> "ONLINE_ACK", v |-> scene.answer[fd]])
       \/ \E m \in Mesgs : /\ scene.ack # "none" /\ OnWire(m) /\ <<m, fd>> \notin ans
                           /\ ans' = ans \cup {<<m, fd>>}
                           /\ dn' = Down([k |-> scene.ack, v |-> Seqs(m)])
    /\ UNCHANGED <<scene, appVars, mgrVars, recvq, cmds, ssvr, sckVars, wire, peer, calls, wild>>

ServerSends ==
    /\ Waiting /\ fd \in peer /\ calls.dn < Len(scene.dn)
    /\ calls' = [calls EXCEPT !.dn = @ + 1]
    /\ dn' = Down(scene.dn[calls.dn + 1])
    /\ UNCHANGED <<scene, appVars, mgrVars, recvq, cmds, ssvr, sckVars, wire, peer, ans, wild>>

ServerCloses ==
    /\ Waiting /\ scene.close /\ fd \in peer /\ peer' = peer \ {fd}
    /\ UNCHANGED <<scene, appVars, mgrVars, recvq, cmds, ssvr, sckVars, wire, dn, ans, calls, wild>>

TickTtl(m) ==
    /\ Passing /\ m \in tab /\ ~item[m].due /\ item' = [item EXCEPT ![m].due = TRUE]
    /\ UNCHANGED <<scene, appVars, tab, seq, sendq, recvq, cmds, ssvr, sckVars, srvVars, calls, wild>>
TickPing ==
    /\ Passing /\ fd # 0 /\ ~kpdue /\ scene.silent /\ kpdue' = TRUE
    /\ UNCHANGED <<scene, appVars, mgrVars, recvq, cmds, ssvr, fd, online, ml, iov, cnt, snap, kp,
                   conndue, info, conns, stale, srvVars, calls, wild>>
TickConn ==
    /\ Passing /\ fd = 0 /\ ~conndue /\ conns < scene.conns /\ conndue' = TRUE
    /\ info' \in {info} \cup {[info EXCEPT !.exp = FALSE] : f \in scene.fails}
    /\ UNCHANGED <<scene, appVars, mgrVars, recvq, cmds, ssvr, fd, online, ml, iov, cnt, snap, kp,
                   kpdue, conns, stale, srvVars, calls, wild>>
Tick == TickPing \/ TickConn \/ \E m \in Mesgs : TickTtl(m)

-----------------------------------------------------------------------------
App(a) == sdk_async_send(a) \/ sdk_send_mgr_insert(a) \/ sdk_cli_cmd_send_req(a) \/ spin_unlock(a)
Ssvr ==
    \/ sdk_ssvr_routine \/ sdk_ssvr_writable \/ sdk_ssvr_wiov_add
    \/ sdk_ssvr_writev \/ sdk_ssvr_writev_fail \/ sdk_ssvr_proc_send \/ sdk_ssvr_proc_network
    \/ sdk_ssvr_recv_end \/ sdk_ssvr_recv_eof \/ sdk_ssvr_half \/ sdk_ssvr_mixed
    \/ sdk_ack_succ_hdl \/ sdk_exp_mesg_proc \/ sdk_mesg_pong_handler \/ sdk_mesg_ping_handler
    \/ sdk_mesg_online_ack_handler \/ sdk_mesg_online_refused
    \/ sdk_ssvr_timeout_hdl \/ sdk_mesg_send_ping_req \/ sdk_ssvr_reconn_fail \/ sdk_ssvr_reconn
(* A command or the time out of select leads to the same handler. *)
sdk_worker_routine == sdk_worker_cmd_proc_req_hdl
Server == ServerAnswers \/ ServerSends \/ ServerCloses

SdkNext ==
    /\ ~wild
    /\ \/ \E a \in Apps : App(a)
       \/ sdk_network_switch \/ Ssvr \/ sdk_worker_routine \/ Server \/ Tick

(* Threads are scheduled and time passes; the server need do nothing.        *)
SdkFairness ==
    /\ \A a \in Apps : WF_sdkVars(~wild /\ app[a].pc # "idle" /\ App(a))
    /\ WF_sdkVars(~wild /\ Ssvr) /\ WF_sdkVars(~wild /\ sdk_worker_routine)
    /\ WF_sdkVars(~wild /\ TickPing) /\ WF_sdkVars(~wild /\ TickConn)
    /\ \A m \in Mesgs : WF_sdkVars(~wild /\ TickTtl(m))

SdkSpec == SdkInit /\ [][SdkNext]_sdkVars /\ SdkFairness

-----------------------------------------------------------------------------
(* Properties. *)

(* The type of the state; the write buffer and the keepalive counter stay    *)
(* within their limits.                                                      *)
SdkTypeOK ==
    /\ \A m \in Mesgs : item[m].stat \in {"NEW", "IN_SENDQ", "SENDING", "SEND_SUCC", "SEND_FAIL", "GONE"}
                         /\ item[m].seq \in Nat
    /\ tab \subseteq Mesgs /\ seq \in Nat /\ sendq \in Seq(Mesgs) /\ Len(cmds) <= CmdMax
    /\ fd \in 0 .. MaxConn /\ online \in BOOLEAN /\ ml \in Seq(Sys) /\ kp \in 0 .. 4
    /\ cnt \in 0 .. IovMax /\ Len(iov) <= cnt

(* What is IN_SENDQ is in the queue and what is SENDING is in the write      *)
(* buffer, once, and the reverse: the time out of a message never frees what *)
(* a queue still holds, and the assertions of sdk_send_succ_hdl and          *)
(* sdk_send_fail_hdl hold.                                                   *)
Tracked ==
    wild \/ /\ \A m \in Mesgs : /\ m \in tab /\ item[m].stat = "IN_SENDQ" <=> m \in ToSet(sendq)
                                /\ m \in tab /\ item[m].stat = "SENDING" <=> m \in InIov
            /\ Len(sendq) = Cardinality(ToSet(sendq))

(* The callback of a message is told at most one end, after at most one      *)
(* SEND_SUCC: FAIL and TIMEOUT come instead of it, acknowledgement or its    *)
(* time out after it.                                                        *)
OneResult ==
    wild \/ \A m \in Mesgs : item[m].res \in
        {<<>>, <<"SEND_FAIL">>, <<"SEND_TIMEOUT">>, <<"SEND_SUCC">>,
         <<"SEND_SUCC", "ACK_SUCC">>, <<"SEND_SUCC", "ACK_TIMEOUT">>}

(* How many units of m connection c carried. *)
Carried(m, c) == Len(SelectSeq(wire[c], LAMBDA u : u[1] = m))
Written(m) == \E c \in 1 .. conns : Carried(m, c) = Units(m)
ReportedSent(m) == "SEND_SUCC" \in ToSet(item[m].res)

(* m was in the write buffer when its connection ended, and what was left of *)
(* it is what a later connection began with.                                 *)
Torn(m) == \E c \in stale : wire[c] # <<>> /\ wire[c][1] = <<m, 2>>

(* "发送成功": SEND_SUCC is told of a message only when one connection       *)
(* carried the whole of it.                                                  *)
SuccMeansSent == wild \/ \A m \in Mesgs : ReportedSent(m) => Written(m)

(* No message is carried whole by two connections, or twice by one; one that *)
(* is carried whole is reported so, and one that is reported so was carried  *)
(* whole, unless it was torn by the end of a connection.                     *)
DeliveredAsReported ==
    wild \/ \A m \in Mesgs :
        /\ FoldFunction(LAMBDA a, b : a + b, 0, [c \in 1 .. conns |-> Carried(m, c)]) <= Units(m)
        /\ Written(m) => ReportedSent(m)
        /\ ReportedSent(m) /\ ~Torn(m) => Written(m)

(* A connection starts with ONLINE and carries whole messages, one after the *)
(* other.  What the end of the connection before left in the write buffer    *)
(* comes before ONLINE, and may begin inside a message; nothing else does.   *)
WholeOnWire ==
    \A c \in 1 .. conns :
        /\ wire[c] # <<>> /\ c \notin stale => wire[c][1] = <<"ONLINE", 1>>
        /\ \A k \in 1 .. Len(wire[c]) : wire[c][k][1] \in Mesgs =>
             IF wire[c][k][2] = 2 THEN \/ k > 1 /\ wire[c][k - 1] = <<wire[c][k][1], 1>>
                                       \/ k = 1 /\ c \in stale
             ELSE k = Len(wire[c]) \/ wire[c][k + 1] = <<wire[c][k][1], 2>>

Final(m) == item[m].res # <<>> /\ Last(item[m].res) # "SEND_SUCC"

(* Every message that was accepted comes to an end, even when the command    *)
(* that wakes ssvr is lost and the server is silent; one in the write buffer *)
(* of a lost connection waits for the next.                                  *)
EverySettled ==
    \A m \in Mesgs : (m \in tab) ~> (Final(m) \/ wild \/ (fd = 0 /\ m \in InIov))

(* A connection whose server says nothing is given up. *)
SilentDropped ==
    \A c \in 1 .. MaxConn : (fd = c /\ scene.silent) ~> (fd # c \/ wild)

(* What was received for the application is handled or dropped. *)
PushHandled == (recvq # <<>>) ~> (recvq = <<>> \/ wild)

(* The application is told what happened on the wire, once. *)
ReportedTruly == OneResult /\ DeliveredAsReported /\ WholeOnWire

(* Every item is where its state says, and all bounds hold. *)
ItemsTracked == SdkTypeOK /\ Tracked

(* Nothing waits for ever: no message sent or received, no silent server. *)
NoneForgotten == EverySettled /\ SilentDropped /\ PushHandled
=============================================================================
