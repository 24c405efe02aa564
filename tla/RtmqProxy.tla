----------------------------- MODULE RtmqProxy -----------------------------
(***************************************************************************)
(* The RTMQ proxy (lib/rtmq/proxy): the client side of the broker, which   *)
(* every C server of the system uses.  One sender thread (tsvr) a broker   *)
(* address keeps one connection; the threads of all addresses share a send *)
(* queue and its command pipe.  Received messages go to the queues of the  *)
(* worker threads.                                                         *)
(*                                                                         *)
(* epoll is edge triggered: rdy and cmdrdy say which items are on the ready *)
(* list.  An item gets there when its descriptor is added or modified while *)
(* it is ready, when data, a close or room for writing arrives; epoll_wait  *)
(* takes all of them off.                                                  *)
(***************************************************************************)
EXTENDS Integers, Sequences, FiniteSets, SequencesExt

CONSTANTS
    Tsvrs,          \* sender threads: one a broker address, on one sendq
    SendThdNum, WorkThdNum,     \* conf->send_thd_num, conf->work_thd_num
    Types,          \* message types a handler may be registered for
    Out,            \* messages the application sends
    In,             \* messages a broker sends
    TypeOf,         \* of a message of In: its type
    SendqMax, PipeMax, IovMax, RecvqMax, WorkPipeMax,
    InboxMax,       \* bound: messages of a broker that wait to be read
    Scenes          \* what happens in a run, records of: the threads that
                    \* exist (iplist), how many messages of Out are sent,
                    \* whether brokers send, which are slow to read, and how
                    \* often each of them fails or closes (a bound)

ASSUME ConfIsValid ==   \* rtmq_proxy_conf_isvalid
    /\ SendThdNum \in Nat \ {0} /\ WorkThdNum \in Nat \ {0}
    /\ SendqMax \in Nat \ {0} /\ RecvqMax \in Nat \ {0}

ASSUME ProxyAssumption ==
    /\ IsFiniteSet(Types)
    /\ PipeMax \in Nat /\ IovMax \in Nat /\ InboxMax \in Nat /\ WorkPipeMax \in Nat \ {0}
    /\ SendThdNum <= WorkThdNum    \* or a worker would go past the last queue
    /\ In \cap {"KPALIVE_ACK", "AUTH_ACK", "BAD"} = {}
    /\ Out \in Seq({Out[i] : i \in DOMAIN Out})
    /\ \A i, j \in DOMAIN Out : Out[i] = Out[j] => i = j
    /\ \A sc \in Scenes : sc.tsvrs \subseteq Tsvrs /\ sc.out \in 0 .. Len(Out)

VARIABLES
    scene,              \* the one of Scenes that happens
    reg, launched,      \* the registered types; the threads run
    sck,                \* thread -> rtmq_proxy_sck_t
    net,                \* thread -> the connection as the broker has it
    batch,              \* thread -> events of epoll_wait not yet handled
    cmdrdy,             \* thread -> the command pipe is on its ready list
    pipe,               \* commands in the shared pipe
    sendq,              \* the shared send queue
    app,                \* the application: messages asked for, and notify pending
    note,               \* thread -> receive queue it is about to report
    recvq, wpipe, todo, \* worker -> its queue, its pipe, the queues it drains
    sent, lost,         \* messages of Out written to a broker, freed unsent
    done, drop,         \* messages of In handled, dropped
    downs               \* closes so far

proxyVars == <<scene, reg, launched, sck, net, batch, cmdrdy, pipe, sendq, app, note, recvq,
          wpipe, todo, sent, lost, done, drop, downs>>

Workers == 0 .. WorkThdNum - 1
NoNote == -1
Sys(kind) == [kind |-> kind, what |-> "sys"]
SubReq(t) == [kind |-> "SUB_REQ", what |-> t]
Data(m) == [kind |-> "EXP", what |-> m]

(* rtmq_proxy_tsvr_init: no connection, nothing to send. *)
InitSck == [fd |-> FALSE, mesg |-> <<>>, iov |-> <<>>, idx |-> 0, kp |-> "UNKNOWN",
            wr |-> 0, rdy |-> FALSE, full |-> FALSE]
NoNet == [open |-> FALSE, in |-> <<>>, pre |-> <<>>, asked |-> FALSE]

(* rtmq_proxy_init *)
ProxyInit ==
    /\ scene \in Scenes
    /\ reg = {} /\ launched = FALSE
    /\ sck = [t \in Tsvrs |-> InitSck]
    /\ net = [t \in Tsvrs |-> NoNet]
    /\ batch = [t \in Tsvrs |-> <<>>]
    /\ cmdrdy = [t \in Tsvrs |-> FALSE]
    /\ pipe = 0 /\ sendq = <<>> /\ app = [n |-> 0, notify |-> FALSE]
    /\ note = [t \in Tsvrs |-> NoNote]
    /\ recvq = [w \in Workers |-> <<>>]
    /\ wpipe = [w \in Workers |-> 0]
    /\ todo = [w \in Workers |-> <<>>]
    /\ sent = {} /\ lost = {} /\ done = {} /\ drop = {} /\ downs = 0

sendVars == <<sendq, pipe, cmdrdy, app, sent>>
recvVars == <<recvq, wpipe, todo, note, done, drop>>
confVars == <<scene, reg, launched>>

-----------------------------------------------------------------------------
(* The application's calls. *)

(* rtmq_proxy_reg_add, for a type that is not registered. *)
rtmq_proxy_reg_add(t) ==
    /\ ~launched /\ t \notin reg
    /\ reg' = reg \cup {t}
    /\ UNCHANGED <<scene, launched, sck, net, batch, sendVars, recvVars, lost, downs>>

rtmq_proxy_launch ==
    /\ ~launched /\ reg = Types /\ launched' = TRUE
    /\ UNCHANGED <<scene, reg, sck, net, batch, sendVars, recvVars, lost, downs>>

(* rtmq_proxy_async_send: into sendq; then rtmq_proxy_cmd_send_req.  A full  *)
(* queue makes the call fail.                                               *)
rtmq_proxy_async_send ==
    /\ launched /\ ~app.notify /\ app.n < scene.out
    /\ IF Len(sendq) < SendqMax
       THEN /\ sendq' = Append(sendq, Data(Out[app.n + 1]))
            /\ app' = [n |-> app.n + 1, notify |-> TRUE]
            /\ UNCHANGED lost
       ELSE /\ app' = [app EXCEPT !.n = @ + 1]
            /\ lost' = lost \cup {Out[app.n + 1]}
            /\ UNCHANGED sendq
    /\ UNCHANGED <<confVars, sck, net, batch, pipe, cmdrdy, sent, recvVars, downs>>

(* A write wakes every thread that has the pipe in its epoll; a full pipe    *)
(* takes nothing.                                                           *)
rtmq_proxy_cmd_send_req ==
    /\ app.notify
    /\ app' = [app EXCEPT !.notify = FALSE]
    /\ IF pipe < PipeMax
       THEN pipe' = pipe + 1 /\ cmdrdy' = [t \in Tsvrs |-> TRUE]
       ELSE UNCHANGED <<pipe, cmdrdy>>
    /\ UNCHANGED <<confVars, sck, net, batch, sendq, sent, recvVars, lost, downs>>

-----------------------------------------------------------------------------
(* A sender thread. *)

Readable(t) == net[t].in # <<>> \/ ~net[t].open
EpollMod(t, s) == [s EXCEPT !.rdy = @ \/ Readable(t) \/ ~s.full]   \* on an open descriptor

DataOf(q) == {q[i].what : i \in {j \in DOMAIN q : q[j].kind = "EXP"}}

(* rtmq_proxy_tsvr_del_conn: what is in the iovec is freed, mesg_list stays. *)
rtmq_proxy_tsvr_del_conn(t) ==
    /\ sck' = [sck EXCEPT ![t] = [@ EXCEPT !.fd = FALSE, !.rdy = FALSE, !.full = FALSE,
                                           !.iov = <<>>, !.idx = 0]]
    /\ lost' = lost \cup DataOf(sck[t].iov)
    /\ net' = [net EXCEPT ![t] = NoNet]

(* rtmq_link_auth_req and rtmq_sub_req fill the list. *)
Greetings == {<<Sys("AUTH_REQ")>> \o o : o \in SetToSeqs({SubReq(u) : u \in reg})}

ReconnLate(t) == \* mutant: mesg_list is not emptied first
    /\ launched /\ ~sck[t].fd /\ batch[t] = <<>>
    /\ \E hello \in Greetings :
         /\ sck' = [sck EXCEPT ![t] = [@ EXCEPT !.fd = TRUE, !.kp = "UNKNOWN",
                                                !.mesg = @ \o hello, !.rdy = TRUE]]
         /\ net' = [net EXCEPT ![t] = [NoNet EXCEPT !.open = TRUE]]
    /\ UNCHANGED <<confVars, batch, sendVars, recvVars, lost, downs>>

KpKept(t) == \* mutant: the keep-alive state of the old connection stays
    /\ launched /\ ~sck[t].fd /\ batch[t] = <<>>
    /\ \E hello \in Greetings :
         /\ sck' = [sck EXCEPT ![t] = [@ EXCEPT !.fd = TRUE, !.mesg = hello, !.rdy = TRUE]]
         /\ net' = [net EXCEPT ![t] = [NoNet EXCEPT !.open = TRUE]]
    /\ UNCHANGED <<confVars, batch, sendVars, recvVars, lost, downs>>

(* rtmq_proxy_tsvr_routine without a connection: rtmq_proxy_tsvr_clear_mesg, *)
(* a pause, rtmq_proxy_tsvr_reconn.  A failed attempt is made again and      *)
(* changes nothing but mesg_list.                                           *)
rtmq_proxy_tsvr_reconn(t) ==
    /\ launched /\ ~sck[t].fd /\ batch[t] = <<>>
    /\ \E hello \in Greetings :
         /\ sck' = [sck EXCEPT ![t] = [@ EXCEPT !.fd = TRUE, !.kp = "UNKNOWN",
                                                !.mesg = hello, !.rdy = TRUE]]
         /\ net' = [net EXCEPT ![t] = [NoNet EXCEPT !.open = TRUE]]
    /\ UNCHANGED <<confVars, batch, sendVars, recvVars, lost, downs>>

(* rtmq_proxy_tsvr_routine: epoll_wait returns what is ready.  Events that   *)
(* have become stale are taken off the list and not reported.               *)
SckEvent(t) == [ev |-> "sck", in |-> Readable(t), out |-> ~sck[t].full]
CmdEvent == [ev |-> "cmd", in |-> TRUE, out |-> FALSE]
Ready(t) == (IF sck[t].rdy /\ (Readable(t) \/ ~sck[t].full) THEN {SckEvent(t)} ELSE {})
              \cup (IF cmdrdy[t] /\ pipe > 0 THEN {CmdEvent} ELSE {})

rtmq_proxy_tsvr_routine(t) ==
    /\ launched /\ sck[t].fd /\ batch[t] = <<>>
    /\ Ready(t) # {}
    /\ \E o \in SetToSeqs(Ready(t)) : batch' = [batch EXCEPT ![t] = o]
    /\ sck' = [sck EXCEPT ![t].rdy = FALSE]
    /\ cmdrdy' = [cmdrdy EXCEPT ![t] = FALSE]
    /\ UNCHANGED <<confVars, net, sendq, pipe, app, sent, recvVars, lost, downs>>

TimeoutNever(t) == FALSE \* mutant: the comparison is the wrong way round

(* rtmq_proxy_tsvr_timeout_hdl and rtmq_proxy_tsvr_kpalive_req: nothing was  *)
(* written for 30 seconds.  A keep-alive that is still not answered: the     *)
(* connection is given up.                                                   *)
rtmq_proxy_tsvr_timeout_hdl(t) ==
    /\ launched /\ sck[t].fd /\ batch[t] = <<>> /\ Ready(t) = {}
    /\ sck[t].wr = 1
    /\ IF sck[t].kp = "SENT"
       THEN rtmq_proxy_tsvr_del_conn(t)
       ELSE /\ sck' = [sck EXCEPT ![t] = EpollMod(t, [@ EXCEPT
                         !.mesg = Append(sck[t].mesg, Sys("KPALIVE_REQ")), !.kp = "SENT", !.wr = 0])]
            /\ UNCHANGED <<net, lost>>
    /\ UNCHANGED <<confVars, batch, sendVars, recvVars, downs>>

Event(t, ev) == batch[t] # <<>> /\ Head(batch[t]).ev = ev
Handled(t) == batch' = [batch EXCEPT ![t] = Tail(@)]
TsvrReads(t) == Event(t, "sck") /\ Head(batch[t]).in /\ sck[t].fd /\ note[t] = NoNote

(* rtmq_proxy_tsvr_recv_proc: after the last message read says "again", and  *)
(* the event's other half is next; an error or the end closes the socket.    *)
rtmq_proxy_tsvr_recv_proc(t) ==
    /\ TsvrReads(t)
    /\ \/ /\ net[t].in = <<>> /\ net[t].open
          /\ batch' = [batch EXCEPT ![t] = <<[Head(@) EXCEPT !.in = FALSE]>> \o Tail(@)]
          /\ UNCHANGED <<sck, net, lost>>
       \/ /\ IF net[t].in = <<>> THEN ~net[t].open ELSE Head(net[t].in) = "BAD"
          /\ Handled(t) /\ rtmq_proxy_tsvr_del_conn(t)
    /\ UNCHANGED <<confVars, sendVars, recvVars, downs>>

(* rtmq_proxy_tsvr_sys_mesg_proc.  An AUTH_ACK that says no is ignored.      *)
rtmq_proxy_tsvr_sys_mesg_proc(t) ==
    /\ TsvrReads(t) /\ net[t].in # <<>>
    /\ Head(net[t].in) \in {"KPALIVE_ACK", "AUTH_ACK"}
    /\ net' = [net EXCEPT ![t].in = Tail(@)]
    /\ sck' = IF Head(net[t].in) = "KPALIVE_ACK" THEN [sck EXCEPT ![t].kp = "SUCC"] ELSE sck
    /\ UNCHANGED <<confVars, batch, sendVars, recvVars, lost, downs>>

(* rtmq_proxy_tsvr_exp_mesg_proc: to the queue of some worker, dropped when  *)
(* that is full.                                                             *)
rtmq_proxy_tsvr_exp_mesg_proc(t) ==
    /\ TsvrReads(t) /\ net[t].in # <<>> /\ Head(net[t].in) \in In
    /\ net' = [net EXCEPT ![t].in = Tail(@)]
    /\ \E w \in Workers :
         IF Len(recvq[w]) < RecvqMax
         THEN /\ recvq' = [recvq EXCEPT ![w] = Append(@, Head(net[t].in))]
              /\ note' = [note EXCEPT ![t] = w]
              /\ UNCHANGED drop
         ELSE /\ drop' = drop \cup {Head(net[t].in)}
              /\ UNCHANGED <<recvq, note>>
    /\ UNCHANGED <<confVars, sck, batch, sendVars, wpipe, todo, done, lost, downs>>

ProcReqSilent(t) == \* mutant: the worker is not told
    /\ note[t] # NoNote /\ note' = [note EXCEPT ![t] = NoNote]
    /\ UNCHANGED <<confVars, sck, net, batch, sendVars, recvq, wpipe, todo, done, drop, lost, downs>>
rtmq_proxy_tsvr_cmd_proc_req(t) ==
    /\ note[t] # NoNote
    /\ wpipe' = [wpipe EXCEPT ![note[t]] = IF @ < WorkPipeMax THEN @ + 1 ELSE @]
    /\ note' = [note EXCEPT ![t] = NoNote]
    /\ UNCHANGED <<confVars, sck, net, batch, sendVars, recvq, todo, done, drop, lost, downs>>

Lesser(a, b) == IF a < b THEN a ELSE b
IovFilled(t, sys, dat) ==
    [iov |-> sck[t].iov \o SubSeq(sck[t].mesg, 1, sys) \o SubSeq(sendq, 1, dat),
     mesg |-> SubSeq(sck[t].mesg, sys + 1, Len(sck[t].mesg)),
     sendq |-> SubSeq(sendq, dat + 1, Len(sendq))]

AddPastEnd(t) == \* mutant: the slots already written are counted as free
    LET room == IovMax - Len(sck[t].iov)
        sys == Lesser(room, Len(sck[t].mesg))
    IN IovFilled(t, sys, Lesser(room - sys, Len(sendq)))
AddKeeps(t) == \* mutant: the messages stay in sendq
    LET room == IovMax - (sck[t].idx + Len(sck[t].iov))
        sys == Lesser(room, Len(sck[t].mesg))
    IN [IovFilled(t, sys, Lesser(room - sys, Len(sendq))) EXCEPT !.sendq = sendq]

(* rtmq_proxy_tsvr_wiov_add: first mesg_list, then sendq, as far as there    *)
(* are free slots; sendq is shared.                                          *)
rtmq_proxy_tsvr_wiov_add(t) ==
    LET room == IovMax - (sck[t].idx + Len(sck[t].iov))
        sys == Lesser(room, Len(sck[t].mesg))
    IN IovFilled(t, sys, Lesser(room - sys, Len(sendq)))

(* Only the first messages of a connection are kept: the hand shake. *)
Keep(q) == SubSeq(q, 1, Lesser(Len(q), 1 + Cardinality(Types)))

(* rtmq_proxy_tsvr_send_data: one writev; the kernel takes n messages and is *)
(* full unless it took all.  A closed peer resets the connection.            *)
rtmq_proxy_tsvr_send_data(t) ==
    /\ Event(t, "sck") /\ ~Head(batch[t]).in /\ sck[t].fd
    /\ Handled(t)
    /\ LET f == rtmq_proxy_tsvr_wiov_add(t)
       IN IF ~Head(batch[t]).out THEN UNCHANGED <<sck, net, sendq, sent, lost>> ELSE
          /\ sendq' = f.sendq
          /\ \/ /\ ~net[t].open
                /\ lost' = lost \cup DataOf(f.iov)
                /\ sck' = [sck EXCEPT ![t] = [@ EXCEPT !.fd = FALSE, !.rdy = FALSE, !.full = FALSE,
                             !.iov = <<>>, !.idx = 0, !.mesg = f.mesg, !.wr = 0]]
                /\ net' = [net EXCEPT ![t] = NoNet]
                /\ UNCHANGED sent
             \/ \E n \in {Lesser(1, Len(f.iov)), Len(f.iov)} :
                /\ net[t].open /\ (n = Len(f.iov) \/ t \in scene.slow)
                /\ sck' = [sck EXCEPT ![t] = [@ EXCEPT !.wr = 0, !.mesg = f.mesg,
                             !.iov = SubSeq(f.iov, n + 1, Len(f.iov)),
                             !.idx = IF n = Len(f.iov) THEN 0 ELSE sck[t].idx + n,
                             !.full = n < Len(f.iov)]]
                /\ net' = [net EXCEPT ![t].pre = Keep(@ \o SubSeq(f.iov, 1, n)),
                             ![t].asked = @ \/ \E i \in 1 .. n : f.iov[i].kind = "KPALIVE_REQ"]
                /\ sent' = sent \cup DataOf(SubSeq(f.iov, 1, n))
                /\ UNCHANGED lost
    /\ UNCHANGED <<confVars, pipe, cmdrdy, app, recvVars, downs>>

(* rtmq_proxy_tsvr_recv_cmd and rtmq_proxy_tsvr_proc_cmd: for every command  *)
(* the socket is armed; after a close in the same batch there is none.       *)
RecvCmdArms(t, s) == IF s.fd THEN EpollMod(t, s) ELSE s
rtmq_proxy_tsvr_recv_cmd(t) ==
    /\ Event(t, "cmd")
    /\ IF pipe > 0
       THEN /\ pipe' = pipe - 1
            /\ sck' = [sck EXCEPT ![t] = RecvCmdArms(t, @)]
            /\ UNCHANGED batch
       ELSE Handled(t) /\ UNCHANGED <<pipe, sck>>
    /\ UNCHANGED <<confVars, net, cmdrdy, sendq, app, sent, recvVars, lost, downs>>

-----------------------------------------------------------------------------
(* A worker: rtmq_proxy_worker_event_core_hdl takes a command for its queue; *)
(* when select times out rtmq_proxy_worker_routine goes through the queues   *)
(* below send_thd_num (where work_thd_num is meant).                         *)
rtmq_proxy_worker_routine(w) ==
    /\ launched /\ todo[w] = <<>>
    /\ IF wpipe[w] > 0
       THEN wpipe' = [wpipe EXCEPT ![w] = @ - 1] /\ todo' = [todo EXCEPT ![w] = <<w>>]
       ELSE /\ \E q \in 0 .. SendThdNum - 1 : recvq[q] # <<>>   \* else nothing happens
            /\ todo' = [todo EXCEPT ![w] = [i \in 1 .. SendThdNum |-> i - 1]]
            /\ UNCHANGED wpipe
    /\ UNCHANGED <<confVars, sck, net, batch, sendVars, recvq, note, done, drop, lost, downs>>

(* rtmq_proxy_worker_cmd_proc_req_hdl: until the queue is empty.  A type     *)
(* nobody registered is dropped.                                             *)
rtmq_proxy_worker_cmd_proc_req_hdl(w) ==
    /\ todo[w] # <<>>
    /\ LET q == Head(todo[w])
       IN IF recvq[q] = <<>>
          THEN todo' = [todo EXCEPT ![w] = Tail(@)] /\ UNCHANGED <<recvq, done, drop>>
          ELSE /\ recvq' = [recvq EXCEPT ![q] = Tail(@)]
               /\ IF TypeOf[Head(recvq[q])] \in reg
                  THEN done' = done \cup {Head(recvq[q])} /\ UNCHANGED drop
                  ELSE drop' = drop \cup {Head(recvq[q])} /\ UNCHANGED done
               /\ UNCHANGED todo
    /\ UNCHANGED <<confVars, sck, net, batch, sendVars, wpipe, note, lost, downs>>

-----------------------------------------------------------------------------
(* The brokers and the time. *)

Arrives(t, m) ==
    /\ net[t].open /\ Len(net[t].in) < InboxMax
    /\ net' = [net EXCEPT ![t].in = Append(@, m), ![t].asked = @ /\ m # "KPALIVE_ACK"]
    /\ sck' = [sck EXCEPT ![t].rdy = TRUE]
    /\ UNCHANGED <<confVars, batch, sendVars, recvVars, lost>>

BrokerAnswers(t) == net[t].asked /\ Arrives(t, "KPALIVE_ACK") /\ UNCHANGED downs
BrokerSends(t) ==
    /\ scene.in /\ net[t].pre # <<>> /\ UNCHANGED downs
    /\ \E m \in In : /\ m \notin done \cup drop
                     /\ \A w \in Workers : ~\E i \in DOMAIN recvq[w] : recvq[w][i] = m
                     /\ \A u \in Tsvrs : ~\E i \in DOMAIN net[u].in : net[u].in[i] = m
                     /\ Arrives(t, m)
BrokerFails(t) == downs < scene.down[t] /\ downs' = downs + 1 /\ Arrives(t, "BAD")
BrokerCloses(t) ==
    /\ net[t].open /\ downs < scene.down[t]
    /\ downs' = downs + 1
    /\ net' = [net EXCEPT ![t].open = FALSE]
    /\ sck' = [sck EXCEPT ![t].rdy = TRUE]
    /\ UNCHANGED <<confVars, batch, sendVars, recvVars, lost>>
RoomAgain(t) ==
    /\ sck[t].full
    /\ sck' = [sck EXCEPT ![t].full = FALSE, ![t].rdy = TRUE]
    /\ UNCHANGED <<confVars, net, batch, sendVars, recvVars, lost, downs>>

(* 30 seconds without a write. *)
Tick(t) ==
    /\ sck[t].fd /\ sck[t].wr = 0
    /\ sck' = [sck EXCEPT ![t].wr = 1]
    /\ UNCHANGED <<confVars, net, batch, sendVars, recvVars, lost, downs>>

-----------------------------------------------------------------------------
Thread(t) ==
    \/ rtmq_proxy_tsvr_reconn(t)
    \/ rtmq_proxy_tsvr_routine(t)
    \/ rtmq_proxy_tsvr_timeout_hdl(t)
    \/ rtmq_proxy_tsvr_recv_proc(t)
    \/ rtmq_proxy_tsvr_sys_mesg_proc(t)
    \/ rtmq_proxy_tsvr_exp_mesg_proc(t)
    \/ rtmq_proxy_tsvr_cmd_proc_req(t)
    \/ rtmq_proxy_tsvr_send_data(t)
    \/ rtmq_proxy_tsvr_recv_cmd(t)
Worker(w) == rtmq_proxy_worker_routine(w) \/ rtmq_proxy_worker_cmd_proc_req_hdl(w)
App == rtmq_proxy_async_send \/ rtmq_proxy_cmd_send_req
Broker(t) == BrokerAnswers(t) \/ BrokerSends(t) \/ BrokerFails(t) \/ BrokerCloses(t)

ProxyNext ==
    \/ \E u \in Types : rtmq_proxy_reg_add(u)
    \/ rtmq_proxy_launch
    \/ App
    \/ \E t \in scene.tsvrs : Thread(t) \/ Broker(t) \/ RoomAgain(t) \/ Tick(t)
    \/ \E w \in Workers : Worker(w)

(* Threads are scheduled, time passes, a peer that is up reads what is sent, *)
(* the application launches the proxy and notifies what it has queued.       *)
ProxyFairness ==
    /\ WF_proxyVars(rtmq_proxy_launch) /\ WF_proxyVars(rtmq_proxy_cmd_send_req)
    /\ \A t \in Tsvrs : /\ WF_proxyVars(t \in scene.tsvrs /\ Thread(t)) /\ WF_proxyVars(Tick(t)) /\ SF_proxyVars(RoomAgain(t))
    /\ \A w \in Workers : WF_proxyVars(Worker(w))

ProxySpec == ProxyInit /\ [][ProxyNext]_proxyVars /\ ProxyFairness

-----------------------------------------------------------------------------
(* Properties. *)

OutMesgs == [kind : {"AUTH_REQ", "KPALIVE_REQ", "SUB_REQ", "EXP"},
          what : {"sys"} \cup Types \cup {Out[i] : i \in 1 .. scene.out}]

(* The type of the state, with every queue and the iovec within its limit.  *)
ProxyTypeOK ==
    /\ reg \subseteq Types /\ launched \in BOOLEAN
    /\ \A t \in Tsvrs :
         /\ sck[t].mesg \in Seq(OutMesgs) /\ sck[t].iov \in Seq(OutMesgs)
         /\ sck[t].idx + Len(sck[t].iov) <= IovMax
         /\ sck[t].kp \in {"UNKNOWN", "SENT", "SUCC"} /\ sck[t].wr \in 0 .. 1
         /\ Len(net[t].in) <= InboxMax
         /\ Len(batch[t]) <= 2 /\ note[t] \in Workers \cup {NoNote}
    /\ sendq \in Seq(OutMesgs) /\ Len(sendq) <= SendqMax /\ pipe \in 0 .. PipeMax
    /\ \A w \in Workers : /\ recvq[w] \in Seq(In) /\ Len(recvq[w]) <= RecvqMax
                           /\ wpipe[w] \in 0 .. WorkPipeMax

(* A broker always gets AUTH_REQ first, then one SUB_REQ for each registered *)
(* type, and only then anything else: nothing queued for an earlier          *)
(* connection, and no data, overtakes the hand shake, whenever a connection  *)
(* breaks (rtmq_proxy_tsvr_clear_mesg, wiov_clean, rtmq_proxy_tsvr_reconn).  *)
HandshakeFirst ==
    \A t \in Tsvrs :
        LET pre == SubSeq(net[t].pre, 1, Lesser(Len(net[t].pre), 1 + Cardinality(reg)))
        IN /\ pre # <<>> => pre[1] = Sys("AUTH_REQ")
           /\ \A i \in 2 .. Len(pre) : pre[i].kind = "SUB_REQ"
           /\ \A i, j \in DOMAIN pre : pre[i] = pre[j] => i = j

(* A message the application sent is in exactly one place: the shared sendq, *)
(* the iovec of one thread, written to one broker, or given up with a       *)
(* connection.  Threads that share the queue never send it twice.            *)
Conserved ==
    LET places(m) ==
          Cardinality({i \in DOMAIN sendq : sendq[i] = Data(m)})
            + Cardinality({p \in Tsvrs \X (1 .. IovMax) :
                             p[2] \in DOMAIN sck[p[1]].iov /\ sck[p[1]].iov[p[2]] = Data(m)})
            + (IF m \in sent THEN 1 ELSE 0) + (IF m \in lost THEN 1 ELSE 0)
    IN \A i \in 1 .. scene.out : places(Out[i]) = IF i <= app.n THEN 1 ELSE 0

(* A connection is given up for want of an answer only if it was asked: the  *)
(* state SENT belongs to a request of this connection, still to be written   *)
(* or written and unanswered by a message the thread has read.               *)
KpaliveOfThisConn ==
    \A t \in Tsvrs : sck[t].fd /\ sck[t].kp = "SENT" =>
        \/ \E i \in DOMAIN sck[t].mesg : sck[t].mesg[i].kind = "KPALIVE_REQ"
        \/ \E i \in DOMAIN sck[t].iov : sck[t].iov[i].kind = "KPALIVE_REQ"
        \/ net[t].asked
        \/ \E i \in DOMAIN net[t].in : net[t].in[i] = "KPALIVE_ACK"

(* A received message never waits unnoticed: its worker drains the queue,    *)
(* has a command to do so, or is about to get one - a full pipe included.    *)
NoLostWork ==
    \A w \in Workers : recvq[w] # <<>> =>
        \/ wpipe[w] > 0
        \/ \E v \in Workers : \E i \in DOMAIN todo[v] : todo[v][i] = w
        \/ \E t \in Tsvrs : note[t] = w

(* What was queued is written or given up in the end, also when the command  *)
(* was lost in a full pipe or taken by a thread whose connection broke, and  *)
(* when there was more than an iovec holds: the keep-alive finds it.         *)
EverySent ==
    \A i \in DOMAIN Out : (app.n >= i) ~> (Out[i] \in sent \cup lost)

(* Nothing of a connection that broke reaches the next one: neither what it  *)
(* had queued before the hand shake, nor the answer it was waiting for.      *)
ConnFresh == ProxyTypeOK /\ HandshakeFirst /\ KpaliveOfThisConn

(* No message is forgotten or doubled on its way out or in, whichever of the *)
(* threads that share the queues takes it.                                   *)
NothingLost == Conserved /\ NoLostWork
=============================================================================
