----------------------------- MODULE UsrSession -----------------------------
(***************************************************************************)
(* The session of one SID in Redis: what the user server's handlers of     *)
(* ONLINE, OFFLINE and PING (src/golang/exec/usrsvr) and the timer of the  *)
(* tasker (src/golang/exec/tasker) do to it through lib/im, while the      *)
(* listen nodes the SID connects to exchange messages with them.           *)
(*                                                                         *)
(* A Redis command is one action: handlers share nothing but Redis, and a  *)
(* pipeline is no transaction.  The bus loses and reorders messages (the   *)
(* proxy picks a server at random and drops what a full queue refuses).    *)
(*                                                                         *)
(* A connection stands for a CID with its NID.  The listen nodes are the   *)
(* ones of WsListend, reduced to what they send and to the SID->CID map.   *)
(* Abstracted: the UID (one user), its zset, the token; the clock (a TTL   *)
(* runs out at any time).                                                  *)
(***************************************************************************)
EXTENDS FiniteSets

CONSTANTS
    Conns,      \* connections that present the SID
    Nodes,      \* listen nodes
    NodeOf,     \* NodeOf[c]: the listen node of connection c
    Workers,    \* goroutines that run the user server's handlers
    RedisMayFail,   \* do calls of Redis fail?
    None        \* no connection

ASSUME UsrSessionAssumption ==
    NodeOf \in [Conns -> Nodes] /\ None \notin Conns /\ RedisMayFail \in BOOLEAN

VARIABLES
    conn,       \* connections, as their listen nodes see them
    sid2cid,    \* SID->CID of every listen node
    kicked,     \* connections in a kick list
    bus,        \* messages on their way
    attr,       \* im:sid:{sid}:attr: the CID and NID of the session
    zset,       \* the SID in im:sid:zset: none, live or expired
    lapsed,     \* has the TTL ever run out, or Redis failed? (history)
    sidset,     \* is the SID in im:uid:{uid}:to:sid:set?
    wk,         \* the handler each worker is in
    raced,      \* workers in whose clean-up an HMSET followed the comparison (history)
    tasker      \* where clean_sid_zset is

lsndVars == <<conn, sid2cid, kicked>>
redisVars == <<attr, zset, sidset, lapsed>>
vars == <<lsndVars, bus, redisVars, wk, raced, tasker>>

Msg(m, c) == [cmd |-> m, conn |-> c]
Cmds == {"ONLINE", "OFFLINE", "PING", "ONLINE-ACK", "ONLINE-FAIL", "KICK"}
Messages == [cmd : Cmds, conn : Conns]

(* A handler: the request it serves, its place, the connection whose data  *)
(* it is to clean.                                                         *)
Idle == [at |-> "idle"]
Task(m, a, t) == [msg |-> m, at |-> a, target |-> t]
Tasks == {Idle} \cup [msg : Messages, target : Conns \cup {None},
                      at : {"get", "clean_get", "clean_del", "clean_zrem", "kick", "seq",
                            "zadd", "hmset", "sadd", "ack"}]

Init ==
    /\ conn = [c \in Conns |-> "new"]
    /\ sid2cid = [n \in Nodes |-> None]
    /\ kicked = {}
    /\ bus = {}
    /\ attr = None /\ zset = "none" /\ sidset = FALSE /\ lapsed = FALSE
    /\ wk = [w \in Workers |-> Idle] /\ raced = {}
    /\ tasker = "idle"

----------------------------------------------------------------------------
(* The listen nodes                                                        *)

Online(c) ==
    /\ conn[c] = "new"
    /\ conn' = [conn EXCEPT ![c] = "wait"]
    /\ bus' = bus \cup {Msg("ONLINE", c)}
    /\ UNCHANGED <<sid2cid, kicked, redisVars, wk, tasker, raced>>

Ping(c) ==
    /\ conn[c] = "login"
    /\ bus' = bus \cup {Msg("PING", c)}
    /\ UNCHANGED <<lsndVars, redisVars, wk, tasker, raced>>

(* A connection ends, kicked or by itself, and OFFLINE is sent.            *)
Close(c) ==
    /\ conn[c] \in {"wait", "login"}
    /\ conn' = [conn EXCEPT ![c] = "closed"]
    /\ sid2cid' = [n \in Nodes |-> IF sid2cid[n] = c THEN None ELSE sid2cid[n]]
    /\ bus' = bus \cup {Msg("OFFLINE", c)}
    /\ UNCHANGED <<kicked, redisVars, wk, tasker, raced>>

(* LsndUpMesgOnlineAckHandler: the connection the node had for the SID is  *)
(* kicked.                                                                 *)
RecvAck(c) ==
    /\ Msg("ONLINE-ACK", c) \in bus
    /\ bus' = bus \ {Msg("ONLINE-ACK", c)}
    /\ IF conn[c] = "wait"
       THEN /\ conn' = [conn EXCEPT ![c] = "login"]
            /\ kicked' = kicked \cup ({sid2cid[NodeOf[c]]} \ {None})
            /\ sid2cid' = [sid2cid EXCEPT ![NodeOf[c]] = c]
       ELSE UNCHANGED lsndVars
    /\ UNCHANGED <<redisVars, wk, tasker, raced>>

RecvFail(c) ==
    /\ Msg("ONLINE-FAIL", c) \in bus
    /\ bus' = bus \ {Msg("ONLINE-FAIL", c)}
    /\ kicked' = kicked \cup {c}
    /\ UNCHANGED <<conn, sid2cid, redisVars, wk, tasker, raced>>

(* LsndUpMesgKickHandler: the connection is the one the node has for the   *)
(* SID, whatever the CID of the message.                                   *)
RecvKick(c) ==
    /\ Msg("KICK", c) \in bus
    /\ bus' = bus \ {Msg("KICK", c)}
    /\ kicked' = kicked \cup ({sid2cid[NodeOf[c]]} \ {None})
    /\ UNCHANGED <<conn, sid2cid, redisVars, wk, tasker, raced>>

Lose(m) ==
    /\ m \in bus
    /\ bus' = bus \ {m}
    /\ UNCHANGED <<lsndVars, redisVars, wk, tasker, raced>>

----------------------------------------------------------------------------
(* The handlers of the user server                                         *)

At(w, a) == wk[w].at = a
Req(w) == wk[w].msg
Me(w) == wk[w].msg.conn
Goto(w, a) == wk' = [wk EXCEPT ![w] = Task(wk[w].msg, a, wk[w].target)]
Done(w) == wk' = [wk EXCEPT ![w] = Idle]
Send(m, c) == bus' = bus \cup {Msg(m, c)}

(* UsrSvrOnlineHandler, UsrSvrPingHandler, UsrSvrOfflineHandler.           *)
Handle(w, m) ==
    /\ wk[w] = Idle
    /\ m \in bus
    /\ m.cmd \in {"ONLINE", "PING", "OFFLINE"}
    /\ bus' = bus \ {m}
    /\ wk' = [wk EXCEPT ![w] = Task(m, IF m.cmd = "OFFLINE" THEN "clean_get" ELSE "get", m.conn)]
    /\ UNCHANGED <<lsndVars, redisVars, tasker, raced>>

(* A request that online_parse refuses, for its token or its fields.       *)
online_failed(w, m) ==
    /\ wk[w] = Idle
    /\ m \in bus
    /\ m.cmd = "ONLINE"
    /\ bus' = (bus \ {m}) \cup {Msg("ONLINE-FAIL", m.conn)}
    /\ UNCHANGED <<lsndVars, redisVars, wk, tasker, raced>>

(* Faulty variant: a session that nobody holds is taken for another's.     *)
OnlineGet_zero(w) ==
    /\ At(w, "get") /\ Req(w).cmd = "ONLINE"
    /\ wk' = [wk EXCEPT ![w] = IF attr = Me(w)
                               THEN Task(Req(w), "seq", Me(w))
                               ELSE Task(Req(w), "clean_get", attr)]
    /\ UNCHANGED <<lsndVars, bus, redisVars, tasker, raced>>

(* online_handler's GetSidAttr: another connection's session is cleaned.   *)
OnlineGet(w) ==
    /\ At(w, "get") /\ Req(w).cmd = "ONLINE"
    /\ wk' = [wk EXCEPT ![w] = IF attr \in {None, Me(w)}
                               THEN Task(Req(w), "seq", Me(w))
                               ELSE Task(Req(w), "clean_get", attr)]
    /\ UNCHANGED <<lsndVars, bus, redisVars, tasker, raced>>

(* UpdateSessionData: a session of this connection is renewed, any other   *)
(* answer means it is cleaned and the connection kicked.                   *)
PingGet(w) ==
    /\ At(w, "get") /\ Req(w).cmd = "PING"
    /\ Goto(w, IF attr = Me(w) THEN "zadd" ELSE "clean_get")
    /\ UNCHANGED <<lsndVars, bus, redisVars, tasker, raced>>

(* CleanSessionData: compare, DEL, ZREM; then what its caller goes on with. *)
AfterClean(w) == IF Req(w).cmd = "OFFLINE" THEN Done(w) ELSE Goto(w, "kick")

(* Faulty variant: the owner is not compared.                              *)
CleanGet_any(w) ==
    /\ At(w, "clean_get")
    /\ Goto(w, "clean_del")
    /\ UNCHANGED <<lsndVars, bus, redisVars, tasker, raced>>

CleanGet(w) ==
    /\ At(w, "clean_get")
    /\ IF attr = wk[w].target THEN Goto(w, "clean_del") ELSE AfterClean(w)
    /\ UNCHANGED <<lsndVars, bus, redisVars, raced, tasker>>

CleanDel(w) ==
    /\ At(w, "clean_del")
    /\ attr' = None
    /\ Goto(w, "clean_zrem")
    /\ raced' = raced \ {w}
    /\ UNCHANGED <<lsndVars, bus, zset, sidset, lapsed, tasker>>

CleanZrem(w) ==
    /\ At(w, "clean_zrem")
    /\ zset' = "none"
    /\ AfterClean(w)
    /\ UNCHANGED <<lsndVars, bus, attr, sidset, lapsed, tasker, raced>>

(* Faulty variant: PING cleans, but tells nobody.                          *)
SendKick_never(w) ==
    /\ At(w, "kick")
    /\ IF Req(w).cmd = "ONLINE" THEN Goto(w, "seq") ELSE Done(w)
    /\ UNCHANGED <<lsndVars, bus, redisVars, tasker, raced>>

SendKick(w) ==
    /\ At(w, "kick")
    /\ Send("KICK", wk[w].target)
    /\ IF Req(w).cmd = "ONLINE" THEN Goto(w, "seq") ELSE Done(w)
    /\ UNCHANGED <<lsndVars, redisVars, tasker, raced>>

(* Faulty variant: the error of query_seq_by_sid is swallowed.             *)
QuerySeq_swallow(w) ==
    /\ At(w, "seq")
    /\ Goto(w, "zadd") \/ Goto(w, "ack")
    /\ UNCHANGED <<lsndVars, bus, redisVars, tasker, raced>>

(* query_seq_by_sid, which may fail; the pipeline follows.                 *)
QuerySeq(w) ==
    /\ At(w, "seq")
    /\ \/ Goto(w, "zadd") /\ UNCHANGED bus
       \/ Done(w) /\ Send("ONLINE-FAIL", Me(w))
    /\ UNCHANGED <<lsndVars, redisVars, tasker, raced>>

Zadd(w) ==
    /\ At(w, "zadd")
    /\ zset' = "live"
    /\ IF Req(w).cmd = "ONLINE" THEN Goto(w, "hmset") ELSE Done(w)
    /\ UNCHANGED <<lsndVars, bus, attr, sidset, lapsed, tasker, raced>>

Hmset(w) ==
    /\ At(w, "hmset")
    /\ attr' = Me(w)
    /\ Goto(w, "sadd")
    /\ raced' = raced \cup {v \in Workers : At(v, "clean_del")}
    /\ UNCHANGED <<lsndVars, bus, zset, sidset, lapsed, tasker>>

Sadd(w) ==
    /\ At(w, "sadd")
    /\ sidset' = TRUE
    /\ Goto(w, "ack")
    /\ UNCHANGED <<lsndVars, bus, attr, zset, lapsed, tasker, raced>>

OnlineAck(w) ==
    /\ At(w, "ack")
    /\ Send("ONLINE-ACK", Me(w))
    /\ Done(w)
    /\ UNCHANGED <<lsndVars, redisVars, tasker, raced>>

(* A Redis call fails.  ONLINE ends when it cannot read the session, and   *)
(* PING takes it for another's; CleanSessionData gives up, and its callers *)
(* go on; what is left of a pipeline is lost, and nobody looks.            *)
OnlineGetFails(w) ==
    /\ At(w, "get") /\ Req(w).cmd = "ONLINE"
    /\ bus' = bus \cup {Msg("KICK", Me(w)), Msg("ONLINE-FAIL", Me(w))}
    /\ Done(w)
    /\ lapsed' = TRUE
    /\ UNCHANGED <<lsndVars, attr, zset, sidset, tasker, raced>>

PingGetFails(w) ==
    /\ At(w, "get") /\ Req(w).cmd = "PING"
    /\ Goto(w, "clean_get")
    /\ lapsed' = TRUE
    /\ UNCHANGED <<lsndVars, bus, attr, zset, sidset, tasker, raced>>

CleanFails(w) ==
    /\ wk[w].at \in {"clean_get", "clean_del", "clean_zrem"}
    /\ AfterClean(w)
    /\ raced' = raced \ {w}
    /\ lapsed' = TRUE
    /\ UNCHANGED <<lsndVars, bus, attr, zset, sidset, tasker>>

PipelineFails(w) ==
    /\ wk[w].at \in {"zadd", "hmset", "sadd"}
    /\ IF Req(w).cmd = "ONLINE" THEN Goto(w, "ack") ELSE Done(w)
    /\ lapsed' = TRUE
    /\ UNCHANGED <<lsndVars, bus, attr, zset, sidset, tasker, raced>>

RedisFails(w) ==
    /\ RedisMayFail
    /\ OnlineGetFails(w) \/ PingGetFails(w) \/ CleanFails(w) \/ PipelineFails(w)

----------------------------------------------------------------------------
(* The TTL runs out; clean_sid_zset finds the SID and cleans it            *)
(* (CleanSessionDataBySid) without looking again.                          *)
Expire ==
    /\ zset = "live"
    /\ zset' = "expired"
    /\ lapsed' = TRUE
    /\ UNCHANGED <<lsndVars, bus, attr, sidset, wk, tasker, raced>>

clean_sid_zset ==
    /\ tasker = "idle"
    /\ zset = "expired"
    /\ tasker' = "del"
    /\ UNCHANGED <<lsndVars, bus, redisVars, wk, raced>>

TaskerDel ==
    /\ tasker = "del"
    /\ attr' = None
    /\ tasker' = "zrem"
    /\ UNCHANGED <<lsndVars, bus, zset, sidset, lapsed, wk, raced>>

TaskerZrem ==
    /\ tasker = "zrem"
    /\ zset' = "none"
    /\ tasker' = "idle"
    /\ UNCHANGED <<lsndVars, bus, attr, sidset, lapsed, wk, raced>>

----------------------------------------------------------------------------
Lsnd(c) == Online(c) \/ Ping(c) \/ Close(c) \/ RecvAck(c) \/ RecvFail(c) \/ RecvKick(c)

Run(w) ==
    \/ OnlineGet(w) \/ PingGet(w) \/ CleanGet(w) \/ CleanDel(w) \/ CleanZrem(w)
    \/ SendKick(w) \/ QuerySeq(w) \/ Zadd(w) \/ Hmset(w) \/ Sadd(w) \/ OnlineAck(w)

Next ==
    \/ \E c \in Conns : Lsnd(c)
    \/ \E w \in Workers : \/ Run(w) \/ RedisFails(w)
                          \/ \E m \in Messages : Handle(w, m) \/ online_failed(w, m)
    \/ \E m \in Messages : Lose(m)
    \/ Expire \/ clean_sid_zset \/ TaskerDel \/ TaskerZrem

(* A client that is logged in goes on sending PING, some of them while a   *)
(* worker is free; a message that is sent again and again is handled in    *)
(* the end; handlers run; a connection in a kick list is closed            *)
(* (KickCompletes of WsListend).                                           *)
Fairness ==
    /\ \A w \in Workers : WF_vars(Run(w))
    /\ \A c \in Conns : /\ SF_vars((\E w \in Workers : wk[w] = Idle) /\ Ping(c))
                        /\ WF_vars(c \in kicked /\ Close(c))
                        /\ SF_vars(RecvKick(c))
                        /\ SF_vars(\E w \in Workers : Handle(w, Msg("PING", c)))
    /\ WF_vars(clean_sid_zset \/ TaskerDel \/ TaskerZrem)

Spec == Init /\ [][Next]_vars
FairSpec == Spec /\ Fairness

----------------------------------------------------------------------------
TypeOK ==
    /\ conn \in [Conns -> {"new", "wait", "login", "closed"}]
    /\ sid2cid \in [Nodes -> Conns \cup {None}]
    /\ kicked \subseteq Conns
    /\ bus \subseteq Messages
    /\ attr \in Conns \cup {None}
    /\ zset \in {"none", "live", "expired"}
    /\ sidset \in BOOLEAN /\ lapsed \in BOOLEAN
    /\ wk \in [Workers -> Tasks] /\ raced \subseteq Workers
    /\ tasker \in {"idle", "del", "zrem"}

(* "当会话属性中的cid和nid与参数不一致时, 不进行清理操作": CleanSessionData   *)
(* deletes the session of the connection it was called for, or none.       *)
CleanRespectsOwner ==
    \A w \in Workers : At(w, "clean_del") => attr \in {wk[w].target, None}

(* What holds of it with any number of handlers: the session a clean-up is *)
(* about to delete is the one it compared, or nobody's, unless the HMSET   *)
(* of an ONLINE came between its comparison and its DEL.                   *)
CleanUnlessRaced ==
    \A w \in Workers : At(w, "clean_del") /\ w \notin raced => attr \in {wk[w].target, None}

(* A client that is the only one to present the SID, and whose TTL never   *)
(* ran out nor Redis failed, is not told to leave: PING finds the session  *)
(* that ONLINE wrote before it was answered.                               *)
AloneIsNotKicked ==
    \A c \in Conns :
        conn[c] = "login" /\ ~lapsed /\ (\A d \in Conns \ {c} : conn[d] = "new")
            => Msg("KICK", c) \notin bus

(* Two clients of the SID do not both stay: a connection that is logged in *)
(* and is not the one in Redis leaves, or becomes it.                      *)
LoserLeaves == \A c \in Conns : conn[c] = "login" /\ attr # c ~> (conn[c] = "closed" \/ attr = c)

(* What Redis, the bus and the handlers hold is well formed, and a         *)
(* clean-up is of the connection it was asked for unless it is overtaken.  *)
CleanRight == TypeOK /\ CleanUnlessRaced
=============================================================================
