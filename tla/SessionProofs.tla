-------------------------- MODULE SessionProofs ---------------------------
(***************************************************************************)
(* The two ends of a client's session.                                     *)
(*                                                                         *)
(* In Redis (UsrSession), for any number of connections, nodes and         *)
(* workers: a client that is the only one of its SID is not told to leave; *)
(* and a clean-up is of the session it was asked for, unless the HMSET of  *)
(* an ONLINE came between its comparison and its DEL.                      *)
(*                                                                         *)
(* In the client (Sdk), for any number of threads, messages and            *)
(* connections and any size of the write buffer: until freed memory is     *)
(* used, an item is where its state says and nowhere else, and the         *)
(* callback of a message is told one end.                                  *)
(***************************************************************************)
EXTENDS UsrSession, Sdk, FiniteSetTheorems, SequenceTheorems, WellFoundedInduction, TLAPS


Working(w) == wk[w] # Idle
Places == {"get", "clean_get", "clean_del", "clean_zrem", "kick", "seq", "zadd", "hmset", "sadd", "ack"}

\* Whoever Redis, the bus and the handlers speak of has sent something.
Known == {c \in Conns : conn[c] # "new"}
KnownRight ==
    /\ attr \in Known \cup {None}
    /\ \A m \in bus : m.conn \in Known
    /\ \A w \in Workers : Working(w) => wk[w].msg.conn \in Known /\ wk[w].target \in Known

\* c is the only one to present the SID, and the session never lapsed.
Alone(c) == ~lapsed /\ (\A d \in Conns \ {c} : conn[d] = "new")

\* What a handler may be doing while c is alone and has not left: it cleans nothing, and what
\* follows the HMSET of ONLINE finds the session c's.
HandlesAlone(w, c) ==
    /\ wk[w].msg.cmd \in {"ONLINE", "PING"}
    /\ wk[w].at \in {"get", "seq", "zadd", "hmset", "sadd", "ack"}
    /\ wk[w].msg.cmd = "PING" => wk[w].at \in {"get", "zadd"}
    /\ wk[w].msg.cmd = "PING" \/ wk[w].at \in {"sadd", "ack"} => attr = c

Undisturbed(c) ==
    /\ conn[c] = "login" => attr = c
    /\ \A m \in bus : /\ m.cmd \in {"ONLINE", "PING", "ONLINE-ACK", "ONLINE-FAIL"}
                      /\ m.cmd \in {"PING", "ONLINE-ACK"} => attr = c
    /\ \A w \in Workers : Working(w) => HandlesAlone(w, c)

UnlapsedRight == ~lapsed => zset # "expired" /\ tasker = "idle"
AloneRight == \A c \in Conns : Alone(c) /\ conn[c] \in {"wait", "login"} => Undisturbed(c)

UInv == TypeOK /\ KnownRight /\ UnlapsedRight /\ AloneRight
-----------------------------------------------------------------------------
LEMMA TaskIs ==
    ASSUME NEW m \in Messages, NEW a \in Places, NEW t \in Conns \cup {None}
    PROVE  /\ Task(m, a, t) \in Tasks /\ Task(m, a, t) # Idle
           /\ Task(m, a, t).msg = m /\ Task(m, a, t).at = a /\ Task(m, a, t).target = t
<1>1. a # "idle" BY DEF Places
<1>2. Task(m, a, t).at = a /\ Idle.at = "idle" BY DEF Task, Idle
<1> QED BY <1>1, <1>2 DEF Task, Tasks, Places

LEMMA MsgIs ==
    ASSUME NEW k \in Cmds, NEW c \in Conns
    PROVE  Msg(k, c) \in Messages /\ Msg(k, c).cmd = k /\ Msg(k, c).conn = c
BY DEF Msg, Messages

\* What a worker that is not idle is doing.
LEMMA Works ==
    ASSUME TypeOK, NEW w \in Workers, Working(w)
    PROVE  /\ wk[w].msg \in Messages /\ wk[w].msg.cmd \in Cmds /\ wk[w].msg.conn \in Conns
           /\ wk[w].at \in Places /\ wk[w].target \in Conns \cup {None}
<1>1. wk[w] \in Tasks BY DEF TypeOK
<1> QED BY <1>1 DEF Working, Tasks, Messages, Places

LEMMA Busy ==
    ASSUME TypeOK, NEW w \in Workers, NEW a \in Places, wk[w].at = a
    PROVE  Working(w)
<1>1. Idle.at = "idle" BY DEF Idle
<1> QED BY <1>1 DEF Working, Places

\* A step of the handler of w: it returns, or goes to another place of the same request, for a
\* connection that is known.
Moves(w) ==
    /\ Working(w)
    /\ \/ wk' = [wk EXCEPT ![w] = Idle]
       \/ \E a \in Places, t \in Known : wk' = [wk EXCEPT ![w] = Task(wk[w].msg, a, t)]
    /\ UNCHANGED lsndVars
    /\ attr' \in {attr, None, Me(w)}
    /\ \A m \in bus' : m \in bus \/ (m \in Messages /\ m.conn \in {Me(w), wk[w].target})

LEMMA GotoMoves ==
    ASSUME TypeOK, KnownRight, NEW w \in Workers, Working(w), NEW a \in Places, Goto(w, a) \/ Done(w)
    PROVE  \/ wk' = [wk EXCEPT ![w] = Idle]
           \/ \E b \in Places, t \in Known : wk' = [wk EXCEPT ![w] = Task(wk[w].msg, b, t)]
<1>1. wk[w].target \in Known BY DEF KnownRight
<1> QED BY <1>1 DEF Goto, Done

LEMMA SameBus == ASSUME NEW w, bus' = bus PROVE \A m \in bus' : m \in bus \/ (m \in Messages /\ m.conn \in {Me(w), wk[w].target})
OBVIOUS

LEMMA RunMoves ==
    ASSUME UInv, NEW w \in Workers, Run(w) \/ RedisFails(w)
    PROVE  Moves(w)
<1> USE DEF UInv
<1>0. ASSUME NEW a \in Places, wk[w].at = a
      PROVE  /\ Working(w) /\ Req(w) \in Messages /\ Me(w) \in Conns /\ Me(w) \in Known /\ wk[w].target \in Known
             /\ wk[w].target \in Conns
  <2>1. Working(w) BY <1>0, Busy
  <2> QED BY <2>1, Works DEF KnownRight, Req, Me, Known
<1>1. ASSUME NEW k \in Cmds, NEW c \in Conns, Send(k, c), c \in {Me(w), wk[w].target}
      PROVE  \A m \in bus' : m \in bus \/ (m \in Messages /\ m.conn \in {Me(w), wk[w].target})
      BY <1>1, MsgIs DEF Send
<1>2. CASE OnlineGet(w)
  <2>1. Working(w) /\ Req(w) \in Messages /\ Me(w) \in Known BY <1>0, <1>2 DEF OnlineGet, At, Places
  <2>2. attr \in Known \cup {None} BY DEF KnownRight
  <2>3. \/ wk' = [wk EXCEPT ![w] = Task(Req(w), "seq", Me(w))]
        \/ wk' = [wk EXCEPT ![w] = Task(Req(w), "clean_get", attr)] /\ attr # None
        BY <1>2 DEF OnlineGet
  <2> QED BY <1>2, <2>1, <2>2, <2>3 DEF Moves, OnlineGet, redisVars, Req, Places
<1>3. CASE PingGet(w)
  <2>1. Working(w) BY <1>0, <1>3 DEF PingGet, At, Places
  <2>2. Goto(w, "zadd") \/ Goto(w, "clean_get") BY <1>3 DEF PingGet
  <2> QED BY <1>3, <2>1, <2>2, GotoMoves DEF Moves, PingGet, redisVars, Places
<1>4. CASE CleanGet(w)
  <2>1. Working(w) BY <1>0, <1>4 DEF CleanGet, At, Places
  <2>2. Goto(w, "clean_del") \/ Goto(w, "kick") \/ Done(w) BY <1>4 DEF CleanGet, AfterClean
  <2> QED BY <1>4, <2>1, <2>2, GotoMoves DEF Moves, CleanGet, redisVars, Places
<1>5. CASE CleanDel(w)
  <2>1. Working(w) BY <1>0, <1>5 DEF CleanDel, At, Places
  <2>2. Goto(w, "clean_zrem") BY <1>5 DEF CleanDel
  <2> QED BY <1>5, <2>1, <2>2, GotoMoves DEF Moves, CleanDel, Places
<1>6. CASE CleanZrem(w)
  <2>1. Working(w) BY <1>0, <1>6 DEF CleanZrem, At, Places
  <2>2. Goto(w, "kick") \/ Done(w) BY <1>6 DEF CleanZrem, AfterClean
  <2> QED BY <1>6, <2>1, <2>2, GotoMoves DEF Moves, CleanZrem, Places
<1>7. CASE SendKick(w)
  <2>1. Working(w) /\ wk[w].target \in Conns BY <1>0, <1>7 DEF SendKick, At, Places
  <2>2. Goto(w, "seq") \/ Done(w) BY <1>7 DEF SendKick
  <2>3. Send("KICK", wk[w].target) /\ "KICK" \in Cmds BY <1>7 DEF SendKick, Cmds
  <2>4. \A m \in bus' : m \in bus \/ (m \in Messages /\ m.conn \in {Me(w), wk[w].target}) BY <1>1, <2>1, <2>3
  <2> QED BY <1>7, <2>1, <2>2, <2>4, GotoMoves DEF Moves, SendKick, redisVars, Places
<1>8. CASE QuerySeq(w)
  <2>1. Working(w) /\ Me(w) \in Conns BY <1>0, <1>8 DEF QuerySeq, At, Places
  <2>2. Goto(w, "zadd") \/ Done(w) BY <1>8 DEF QuerySeq
  <2>3. bus' = bus \/ Send("ONLINE-FAIL", Me(w)) BY <1>8 DEF QuerySeq
  <2>4. \A m \in bus' : m \in bus \/ (m \in Messages /\ m.conn \in {Me(w), wk[w].target})
        BY <1>1, <2>1, <2>3 DEF Cmds
  <2> QED BY <1>8, <2>1, <2>2, <2>4, GotoMoves DEF Moves, QuerySeq, redisVars, Places
<1>9. CASE Zadd(w)
  <2>1. Working(w) BY <1>0, <1>9 DEF Zadd, At, Places
  <2>2. Goto(w, "hmset") \/ Done(w) BY <1>9 DEF Zadd
  <2> QED BY <1>9, <2>1, <2>2, GotoMoves DEF Moves, Zadd, Places
<1>10. CASE Hmset(w)
  <2>1. Working(w) BY <1>0, <1>10 DEF Hmset, At, Places
  <2>2. Goto(w, "sadd") BY <1>10 DEF Hmset
  <2> QED BY <1>10, <2>1, <2>2, GotoMoves DEF Moves, Hmset, Places
<1>11. CASE Sadd(w)
  <2>1. Working(w) BY <1>0, <1>11 DEF Sadd, At, Places
  <2>2. Goto(w, "ack") BY <1>11 DEF Sadd
  <2> QED BY <1>11, <2>1, <2>2, GotoMoves DEF Moves, Sadd, Places
<1>12. CASE OnlineAck(w)
  <2>1. Working(w) /\ Me(w) \in Conns BY <1>0, <1>12 DEF OnlineAck, At, Places
  <2>2. Done(w) /\ Send("ONLINE-ACK", Me(w)) BY <1>12 DEF OnlineAck
  <2>4. \A m \in bus' : m \in bus \/ (m \in Messages /\ m.conn \in {Me(w), wk[w].target})
        BY <1>1, <2>1, <2>2 DEF Cmds
  <2> QED BY <1>12, <2>1, <2>2, <2>4, GotoMoves DEF Moves, OnlineAck, redisVars, Places
<1>13. CASE OnlineGetFails(w)
  <2>1. Working(w) /\ Me(w) \in Conns BY <1>0, <1>13 DEF OnlineGetFails, At, Places
  <2>2. Done(w) /\ bus' = bus \cup {Msg("KICK", Me(w)), Msg("ONLINE-FAIL", Me(w))} BY <1>13 DEF OnlineGetFails
  <2>4. \A m \in bus' : m \in bus \/ (m \in Messages /\ m.conn \in {Me(w), wk[w].target})
        BY <2>1, <2>2, MsgIs DEF Cmds
  <2> QED BY <1>13, <2>1, <2>2, <2>4, GotoMoves DEF Moves, OnlineGetFails, Places
<1>14. CASE PingGetFails(w)
  <2>1. Working(w) BY <1>0, <1>14 DEF PingGetFails, At, Places
  <2>2. Goto(w, "clean_get") BY <1>14 DEF PingGetFails
  <2> QED BY <1>14, <2>1, <2>2, GotoMoves DEF Moves, PingGetFails, Places
<1>15. CASE CleanFails(w)
  <2>1. Working(w) BY <1>0, <1>15 DEF CleanFails, Places
  <2>2. Goto(w, "kick") \/ Done(w) BY <1>15 DEF CleanFails, AfterClean
  <2> QED BY <1>15, <2>1, <2>2, GotoMoves DEF Moves, CleanFails, Places
<1>16. CASE PipelineFails(w)
  <2>1. Working(w) BY <1>0, <1>16 DEF PipelineFails, Places
  <2>2. Goto(w, "ack") \/ Done(w) BY <1>16 DEF PipelineFails
  <2> QED BY <1>16, <2>1, <2>2, GotoMoves DEF Moves, PipelineFails, Places
<1> QED BY <1>2, <1>3, <1>4, <1>5, <1>6, <1>7, <1>8, <1>9, <1>10, <1>11, <1>12, <1>13, <1>14, <1>15, <1>16
        DEF Run, RedisFails

LEMMA RunRest ==
    ASSUME NEW w, Run(w) \/ RedisFails(w)
    PROVE  /\ zset' \in {zset, "none", "live"} /\ sidset' \in {sidset, TRUE} /\ lapsed' \in {lapsed, TRUE}
           /\ tasker' = tasker /\ raced' \subseteq raced \cup Workers /\ (RedisFails(w) => lapsed')
BY DEF Run, RedisFails, OnlineGet, PingGet, CleanGet, CleanDel, CleanZrem, SendKick, QuerySeq, Zadd, Hmset, Sadd,
       OnlineAck, OnlineGetFails, PingGetFails, CleanFails, PipelineFails, redisVars

\* What the workers are doing after a step of one of them.
LEMMA MovesTo ==
    ASSUME UInv, NEW w \in Workers, Moves(w)
    PROVE  /\ wk' \in [Workers -> Tasks] /\ wk'[w] \in Tasks
           /\ \A v \in Workers \ {w} : wk'[v] = wk[v]
           /\ wk'[w] = Idle \/ (wk'[w].msg = wk[w].msg /\ wk'[w].target \in Known)
<1>1. wk \in [Workers -> Tasks] BY DEF UInv, TypeOK
<1>2. CASE wk' = [wk EXCEPT ![w] = Idle] BY <1>1, <1>2 DEF Tasks
<1>3. CASE \E a \in Places, t \in Known : wk' = [wk EXCEPT ![w] = Task(wk[w].msg, a, t)]
  <2>1. PICK a \in Places, t \in Known : wk' = [wk EXCEPT ![w] = Task(wk[w].msg, a, t)] BY <1>3
  <2>2. wk[w].msg \in Messages BY Works DEF Moves, UInv
  <2>3. Task(wk[w].msg, a, t) \in Tasks /\ Task(wk[w].msg, a, t).msg = wk[w].msg /\ Task(wk[w].msg, a, t).target = t
        BY <2>2, TaskIs DEF Known
  <2> HIDE DEF Tasks
  <2> QED BY <1>1, <2>1, <2>3
<1> QED BY <1>2, <1>3 DEF Moves

LEMMA RunTyped ==
    ASSUME UInv, NEW w \in Workers, Run(w) \/ RedisFails(w)
    PROVE  TypeOK' /\ KnownRight'
<1>1. Moves(w) BY RunMoves
<1>2. /\ wk' \in [Workers -> Tasks] /\ wk'[w] \in Tasks
      /\ \A v \in Workers \ {w} : wk'[v] = wk[v]
      /\ wk'[w] = Idle \/ (wk'[w].msg = wk[w].msg /\ wk'[w].target \in Known)
      BY <1>1, MovesTo
<1>3. Working(w) /\ Me(w) \in Known /\ Me(w) \in Conns /\ wk[w].target \in Known
      BY <1>1 DEF Moves, UInv, KnownRight, Me, Known
<1>4. /\ zset' \in {zset, "none", "live"} /\ sidset' \in {sidset, TRUE} /\ lapsed' \in {lapsed, TRUE}
      /\ tasker' = tasker /\ raced' \subseteq raced \cup Workers
      BY RunRest
<1>5. TypeOK' BY <1>1, <1>2, <1>3, <1>4 DEF UInv, TypeOK, Moves, lsndVars
<1>6. Known' = Known BY <1>1 DEF Moves, lsndVars, Known
<1>7. attr' \in Known \cup {None} BY <1>1, <1>3 DEF Moves, UInv, KnownRight
<1>8. \A m \in bus' : m.conn \in Known BY <1>1, <1>3 DEF Moves, UInv, KnownRight
<1>9. ASSUME NEW v \in Workers, wk'[v] # Idle PROVE wk'[v].msg.conn \in Known /\ wk'[v].target \in Known
  <2>1. CASE v = w BY <1>2, <1>3, <1>9, <2>1 DEF Me
  <2>2. CASE v # w
    <3>1. wk'[v] = wk[v] BY <1>2, <2>2
    <3> QED BY <1>9, <3>1 DEF UInv, KnownRight, Working
  <2> QED BY <2>1, <2>2
<1> QED BY <1>5, <1>6, <1>7, <1>8, <1>9 DEF KnownRight, Working

\* The steps of the listen nodes, the bus and the tasker, and the start of a handler.
LEMMA OtherTyped ==
    ASSUME UInv, \/ \E c \in Conns : Lsnd(c)
                 \/ \E m \in Messages : Lose(m)
                 \/ Expire \/ clean_sid_zset \/ TaskerDel \/ TaskerZrem
    PROVE  TypeOK' /\ KnownRight'
<1> USE DEF UInv
<1>0. \A c \in Conns, k \in Cmds : Msg(k, c) \in Messages /\ Msg(k, c).conn = c BY MsgIs
<1>1. ASSUME Known \subseteq Known', attr' \in Known \cup {None}, \A m \in bus' : m.conn \in Known', wk' = wk
      PROVE  KnownRight'
      BY <1>1 DEF KnownRight, Working
<1>2. \A m \in bus : m.conn \in Known BY DEF KnownRight
<1>3. attr \in Known \cup {None} BY DEF KnownRight
<1>4. ASSUME NEW c \in Conns, Online(c) PROVE TypeOK' /\ KnownRight'
  <2>1. TypeOK' BY <1>0, <1>4 DEF Online, TypeOK, redisVars, Cmds
  <2>2. Known \subseteq Known' /\ c \in Known' BY <1>4 DEF Online, Known, TypeOK
  <2>3. \A m \in bus' : m.conn \in Known' BY <1>0, <1>2, <1>4, <2>2 DEF Online, Cmds
  <2> QED BY <1>1, <1>3, <1>4, <2>1, <2>2, <2>3 DEF Online, redisVars
<1>5. ASSUME NEW c \in Conns, Ping(c) PROVE TypeOK' /\ KnownRight'
  <2>1. TypeOK' BY <1>0, <1>5 DEF Ping, TypeOK, redisVars, lsndVars, Cmds
  <2>2. Known = Known' /\ c \in Known BY <1>5 DEF Ping, Known, lsndVars
  <2>3. \A m \in bus' : m.conn \in Known' BY <1>0, <1>2, <1>5, <2>2 DEF Ping, Cmds
  <2> QED BY <1>1, <1>3, <1>5, <2>1, <2>2, <2>3 DEF Ping, redisVars
<1>6. ASSUME NEW c \in Conns, Close(c) PROVE TypeOK' /\ KnownRight'
  <2>1. TypeOK' BY <1>0, <1>6 DEF Close, TypeOK, redisVars, Cmds
  <2>2. Known \subseteq Known' /\ c \in Known' BY <1>6 DEF Close, Known, TypeOK
  <2>3. \A m \in bus' : m.conn \in Known' BY <1>0, <1>2, <1>6, <2>2 DEF Close, Cmds
  <2> QED BY <1>1, <1>3, <1>6, <2>1, <2>2, <2>3 DEF Close, redisVars
<1>7. ASSUME NEW c \in Conns, RecvAck(c) PROVE TypeOK' /\ KnownRight'
  <2>0. NodeOf[c] \in Nodes BY UsrSessionAssumption
  <2>1. TypeOK' BY <1>7, <2>0 DEF RecvAck, TypeOK, redisVars, lsndVars
  <2>2. Known \subseteq Known' BY <1>7 DEF RecvAck, Known, TypeOK, lsndVars
  <2>3. \A m \in bus' : m.conn \in Known' BY <1>2, <1>7, <2>2 DEF RecvAck
  <2> QED BY <1>1, <1>3, <1>7, <2>1, <2>2, <2>3 DEF RecvAck, redisVars
<1>8. ASSUME NEW c \in Conns, RecvFail(c) \/ RecvKick(c) PROVE TypeOK' /\ KnownRight'
  <2>0. NodeOf[c] \in Nodes BY UsrSessionAssumption
  <2>1. TypeOK' BY <1>8, <2>0 DEF RecvFail, RecvKick, TypeOK, redisVars
  <2>2. Known = Known' BY <1>8 DEF RecvFail, RecvKick, Known
  <2>3. \A m \in bus' : m.conn \in Known' BY <1>2, <1>8, <2>2 DEF RecvFail, RecvKick
  <2> QED BY <1>1, <1>3, <1>8, <2>1, <2>2, <2>3 DEF RecvFail, RecvKick, redisVars
<1>9. ASSUME NEW m \in Messages, Lose(m) PROVE TypeOK' /\ KnownRight'
  <2>1. TypeOK' BY <1>9 DEF Lose, TypeOK, redisVars, lsndVars
  <2>2. Known = Known' BY <1>9 DEF Lose, Known, lsndVars
  <2>3. \A x \in bus' : x.conn \in Known' BY <1>2, <1>9, <2>2 DEF Lose
  <2> QED BY <1>1, <1>3, <1>9, <2>1, <2>2, <2>3 DEF Lose, redisVars
<1>10. CASE Expire \/ clean_sid_zset \/ TaskerDel \/ TaskerZrem
  <2>1. TypeOK' BY <1>10 DEF Expire, clean_sid_zset, TaskerDel, TaskerZrem, TypeOK, redisVars, lsndVars
  <2>2. Known = Known' /\ bus' = bus /\ wk' = wk /\ attr' \in {attr, None}
        BY <1>10 DEF Expire, clean_sid_zset, TaskerDel, TaskerZrem, Known, redisVars, lsndVars
  <2> QED BY <1>1, <1>2, <1>3, <2>1, <2>2
<1> QED BY <1>4, <1>5, <1>6, <1>7, <1>8, <1>9, <1>10 DEF Lsnd

LEMMA HandleTo ==
    ASSUME UInv, NEW w \in Workers, NEW m \in Messages, Handle(w, m)
    PROVE  /\ wk' \in [Workers -> Tasks] /\ \A v \in Workers \ {w} : wk'[v] = wk[v]
           /\ wk'[w].msg = m /\ wk'[w].target = m.conn
           /\ wk'[w].at = IF m.cmd = "OFFLINE" THEN "clean_get" ELSE "get"
<1>1. wk \in [Workers -> Tasks] BY DEF UInv, TypeOK
<1>2. m.conn \in Conns BY DEF Messages
<1> DEFINE a == IF m.cmd = "OFFLINE" THEN "clean_get" ELSE "get"
<1>3. a \in Places BY DEF Places
<1>4. wk' = [wk EXCEPT ![w] = Task(m, a, m.conn)] BY DEF Handle
<1> HIDE DEF a
<1>5. /\ Task(m, a, m.conn) \in Tasks /\ Task(m, a, m.conn).msg = m
      /\ Task(m, a, m.conn).at = a /\ Task(m, a, m.conn).target = m.conn
      BY <1>2, <1>3, TaskIs
<1>6. wk' \in [Workers -> Tasks] /\ wk'[w] = Task(m, a, m.conn) /\ \A v \in Workers \ {w} : wk'[v] = wk[v]
      BY <1>1, <1>4, <1>5
<1> QED BY <1>5, <1>6 DEF a

LEMMA HandleTyped ==
    ASSUME UInv, NEW w \in Workers, NEW m \in Messages, Handle(w, m) \/ online_failed(w, m)
    PROVE  TypeOK' /\ KnownRight'
<1> USE DEF UInv
<1>1. \A x \in bus : x.conn \in Known BY DEF KnownRight
<1>2. attr \in Known \cup {None} BY DEF KnownRight
<1>3. CASE Handle(w, m)
  <2>1. wk' \in [Workers -> Tasks] /\ (\A v \in Workers \ {w} : wk'[v] = wk[v])
        /\ wk'[w].msg = m /\ wk'[w].target = m.conn
        BY <1>3, HandleTo
  <2>2. m.conn \in Known BY <1>1, <1>3 DEF Handle
  <2>3. TypeOK' BY <1>3, <2>1 DEF Handle, TypeOK, redisVars, lsndVars
  <2>4. Known' = Known /\ attr' = attr /\ bus' \subseteq bus BY <1>3 DEF Handle, Known, redisVars, lsndVars
  <2>5. ASSUME NEW v \in Workers, wk'[v] # Idle PROVE wk'[v].msg.conn \in Known /\ wk'[v].target \in Known
    <3>1. CASE v = w BY <2>1, <2>2, <3>1
    <3>2. CASE v # w
      <4>1. wk'[v] = wk[v] BY <2>1, <3>2
      <4> QED BY <2>5, <4>1 DEF KnownRight, Working
    <3> QED BY <3>1, <3>2
  <2> QED BY <1>1, <1>2, <2>3, <2>4, <2>5 DEF KnownRight, Working
<1>4. CASE online_failed(w, m)
  <2>1. m.conn \in Conns /\ m.conn \in Known BY <1>1, <1>4 DEF online_failed, Known
  <2>2. Msg("ONLINE-FAIL", m.conn) \in Messages /\ Msg("ONLINE-FAIL", m.conn).conn = m.conn BY <2>1, MsgIs DEF Cmds
  <2>3. TypeOK' BY <1>4, <2>2 DEF online_failed, TypeOK, redisVars, lsndVars
  <2>4. Known' = Known /\ attr' = attr /\ wk' = wk BY <1>4 DEF online_failed, Known, redisVars, lsndVars
  <2>5. \A x \in bus' : x.conn \in Known BY <1>1, <1>4, <2>1, <2>2 DEF online_failed
  <2> QED BY <2>3, <2>4, <2>5 DEF KnownRight, Working
<1> QED BY <1>3, <1>4

LEMMA UnlapsedKept ==
    ASSUME UInv, Next
    PROVE  UnlapsedRight' /\ (lapsed => lapsed')
<1> USE DEF UInv, UnlapsedRight
<1>1. CASE \E c \in Conns : Lsnd(c)
      BY <1>1 DEF Lsnd, Online, Ping, Close, RecvAck, RecvFail, RecvKick, redisVars
<1>2. CASE \E w \in Workers : Run(w) \/ RedisFails(w)
  <2>1. PICK w \in Workers : Run(w) \/ RedisFails(w) BY <1>2
  <2> QED BY <2>1, RunRest DEF TypeOK
<1>3. CASE \E w \in Workers : \E m \in Messages : Handle(w, m) \/ online_failed(w, m)
      BY <1>3 DEF Handle, online_failed, redisVars
<1>4. CASE \E m \in Messages : Lose(m) BY <1>4 DEF Lose, redisVars
<1>5. CASE Expire \/ clean_sid_zset \/ TaskerDel \/ TaskerZrem
      BY <1>5 DEF Expire, clean_sid_zset, TaskerDel, TaskerZrem, redisVars
<1> QED BY <1>1, <1>2, <1>3, <1>4, <1>5 DEF Next

\* Nobody becomes new, or comes back.
LEMMA ConnKept ==
    ASSUME UInv, Next, NEW d \in Conns
    PROVE  /\ conn'[d] = "new" => conn[d] = "new"
           /\ conn'[d] # "closed" => conn[d] # "closed"
<1> USE DEF UInv, TypeOK
<1>1. CASE \E c \in Conns : Lsnd(c)
      BY <1>1 DEF Lsnd, Online, Ping, Close, RecvAck, RecvFail, RecvKick, lsndVars
<1>2. CASE \E w \in Workers : Run(w) \/ RedisFails(w) BY <1>2, RunMoves DEF Moves, lsndVars
<1>3. CASE \E w \in Workers : \E m \in Messages : Handle(w, m) \/ online_failed(w, m)
      BY <1>3 DEF Handle, online_failed, lsndVars
<1>4. CASE \E m \in Messages : Lose(m) BY <1>4 DEF Lose, lsndVars
<1>5. CASE Expire \/ clean_sid_zset \/ TaskerDel \/ TaskerZrem
      BY <1>5 DEF Expire, clean_sid_zset, TaskerDel, TaskerZrem, lsndVars
<1> QED BY <1>1, <1>2, <1>3, <1>4, <1>5 DEF Next

\* While c is alone, everything is c's.
LEMMA AllMine ==
    ASSUME UInv, NEW c \in Conns, Alone(c), conn[c] # "closed"
    PROVE  /\ Undisturbed(c) /\ attr \in {c, None} /\ c # None
           /\ \A m \in bus : m.conn = c /\ m \in Messages
           /\ \A w \in Workers : Working(w) => wk[w].msg.conn = c /\ wk[w].target = c /\ wk[w].msg \in Messages
<1> USE DEF UInv
<1>1. Known \subseteq {c} BY DEF Alone, Known
<1>2. /\ attr \in {c, None} /\ c # None
      /\ \A m \in bus : m.conn = c /\ m \in Messages
      /\ \A w \in Workers : Working(w) => wk[w].msg.conn = c /\ wk[w].target = c /\ wk[w].msg \in Messages
      BY <1>1, Works, UsrSessionAssumption DEF KnownRight, TypeOK
<1>3. CASE conn[c] = "new"
  <2>1. Known = {} BY <1>1, <1>3 DEF Known
  <2>2. bus = {} /\ \A w \in Workers : ~Working(w) BY <2>1 DEF KnownRight
  <2> QED BY <1>2, <1>3, <2>2 DEF Undisturbed
<1>4. CASE conn[c] # "new"
  <2>1. conn[c] \in {"wait", "login"} BY <1>4 DEF TypeOK
  <2> QED BY <1>2, <2>1 DEF AloneRight
<1> QED BY <1>3, <1>4

\* A step of a handler that leaves what it should: used for each of them.
LEMMA AloneMoves ==
    ASSUME UInv, NEW c \in Conns, Undisturbed(c), NEW w \in Workers,
           NEW a \in Places \cup {"idle"}, NEW k,
           \/ a = "idle" /\ wk' = [wk EXCEPT ![w] = Idle]
           \/ \E t \in Conns : a \in Places /\ wk' = [wk EXCEPT ![w] = Task(wk[w].msg, a, t)],
           Working(w), k = wk[w].msg.cmd,
           a # "idle" => /\ k \in {"ONLINE", "PING"} /\ a \in {"get", "seq", "zadd", "hmset", "sadd", "ack"}
                         /\ k = "PING" => a \in {"get", "zadd"}
                         /\ k = "PING" \/ a \in {"sadd", "ack"} => attr' = c,
           conn' = conn, attr = c => attr' = c,
           \A m \in bus' : m \in bus \/ m.cmd = "ONLINE-FAIL" \/ (m.cmd = "ONLINE-ACK" /\ attr' = c)
    PROVE  Undisturbed(c)'
<1>1. wk \in [Workers -> Tasks] BY DEF UInv, TypeOK
<1>2. \A v \in Workers \ {w} : wk'[v] = wk[v] BY <1>1
<1>3. \A v \in Workers \ {w} : (wk'[v] # Idle) => HandlesAlone(v, c)' BY <1>2 DEF Undisturbed, HandlesAlone, Working
<1>4. (wk'[w] # Idle) => HandlesAlone(w, c)'
  <2>1. CASE wk' = [wk EXCEPT ![w] = Idle] BY <1>1, <2>1
  <2>2. CASE \E t \in Conns : a \in Places /\ wk' = [wk EXCEPT ![w] = Task(wk[w].msg, a, t)]
    <3>1. PICK t \in Conns : a \in Places /\ wk' = [wk EXCEPT ![w] = Task(wk[w].msg, a, t)] BY <2>2
    <3>2. wk[w].msg \in Messages BY Works DEF UInv
    <3>3. Task(wk[w].msg, a, t).msg = wk[w].msg /\ Task(wk[w].msg, a, t).at = a BY <3>1, <3>2, TaskIs
    <3>4. wk'[w] = Task(wk[w].msg, a, t) BY <1>1, <3>1
    <3>5. wk'[w].msg = wk[w].msg /\ wk'[w].at = a /\ a # "idle" BY <3>1, <3>3, <3>4 DEF Places
    <3> QED BY <3>5 DEF HandlesAlone
  <2> QED BY <2>1, <2>2
<1>5. \A v \in Workers : (wk'[v] # Idle) => HandlesAlone(v, c)' BY <1>3, <1>4
<1>6. conn'[c] = "login" => attr' = c BY DEF Undisturbed
<1>7. \A m \in bus' : /\ m.cmd \in {"ONLINE", "PING", "ONLINE-ACK", "ONLINE-FAIL"}
                      /\ m.cmd \in {"PING", "ONLINE-ACK"} => attr' = c
      BY DEF Undisturbed
<1> QED BY <1>5, <1>6, <1>7 DEF Undisturbed, Working

LEMMA RunAlone ==
    ASSUME UInv, NEW w \in Workers, Run(w), NEW c \in Conns, Alone(c), conn[c] # "closed"
    PROVE  Undisturbed(c)'
<1>1. /\ Undisturbed(c) /\ attr \in {c, None} /\ c # None
      /\ \A m \in bus : m.conn = c /\ m \in Messages
      BY AllMine
<1>2. Moves(w) BY RunMoves
<1>3. Working(w) /\ conn' = conn BY <1>2 DEF Moves, lsndVars
<1>4. wk[w].msg.conn = c /\ wk[w].target = c /\ Me(w) = c /\ Req(w) = wk[w].msg BY <1>3, AllMine DEF Me, Req
<1>5. HandlesAlone(w, c) BY <1>1, <1>3 DEF Undisturbed
<1> USE DEF Places
<1>6. ASSUME NEW a \in Places, Goto(w, a) PROVE wk' = [wk EXCEPT ![w] = Task(wk[w].msg, a, c)] BY <1>4, <1>6 DEF Goto
<1>7. ASSUME NEW k \in Cmds, Send(k, c) PROVE \A m \in bus' : m \in bus \/ m.cmd = k BY <1>7, MsgIs DEF Send
<1>8. CASE OnlineGet(w)
  <2>1. wk' = [wk EXCEPT ![w] = Task(wk[w].msg, "seq", c)] /\ bus' = bus /\ attr' = attr /\ wk[w].msg.cmd = "ONLINE"
        BY <1>1, <1>4, <1>8 DEF OnlineGet, redisVars
  <2> QED BY <1>1, <1>3, <2>1, AloneMoves
<1>9. CASE PingGet(w)
  <2>1. wk[w].msg.cmd = "PING" /\ attr = c /\ bus' = bus /\ attr' = attr /\ Goto(w, "zadd")
        BY <1>4, <1>5, <1>9 DEF PingGet, HandlesAlone, redisVars
  <2>2. wk' = [wk EXCEPT ![w] = Task(wk[w].msg, "zadd", c)] BY <1>6, <2>1
  <2> QED BY <1>1, <1>3, <2>1, <2>2, AloneMoves
<1>10. CASE CleanGet(w) \/ CleanDel(w) \/ CleanZrem(w) \/ SendKick(w)
       BY <1>5, <1>10 DEF CleanGet, CleanDel, CleanZrem, SendKick, At, HandlesAlone
<1>11. CASE QuerySeq(w)
  <2>1. wk[w].at = "seq" /\ attr' = attr BY <1>11 DEF QuerySeq, At, redisVars
  <2>2. wk[w].msg.cmd = "ONLINE" BY <1>5, <2>1 DEF HandlesAlone
  <2>3. CASE Goto(w, "zadd") /\ bus' = bus
    <3>1. wk' = [wk EXCEPT ![w] = Task(wk[w].msg, "zadd", c)] BY <1>6, <2>3
    <3> QED BY <1>1, <1>3, <2>1, <2>2, <2>3, <3>1, AloneMoves
  <2>4. CASE Done(w) /\ Send("ONLINE-FAIL", Me(w))
    <3>1. wk' = [wk EXCEPT ![w] = Idle] /\ \A m \in bus' : m \in bus \/ m.cmd = "ONLINE-FAIL"
          BY <1>4, <1>7, <2>4 DEF Done, Cmds
    <3> QED BY <1>1, <1>3, <2>1, <3>1, AloneMoves
  <2> QED BY <1>11, <2>3, <2>4 DEF QuerySeq
<1>12. CASE Zadd(w)
  <2>1. bus' = bus /\ attr' = attr BY <1>12 DEF Zadd
  <2>2. CASE wk[w].msg.cmd = "ONLINE"
    <3>1. Goto(w, "hmset") BY <1>4, <1>12, <2>2 DEF Zadd
    <3>2. wk' = [wk EXCEPT ![w] = Task(wk[w].msg, "hmset", c)] BY <1>6, <3>1
    <3> QED BY <1>1, <1>3, <2>1, <2>2, <3>2, AloneMoves
  <2>3. CASE wk[w].msg.cmd # "ONLINE"
    <3>1. wk' = [wk EXCEPT ![w] = Idle] BY <1>4, <1>12, <2>3 DEF Zadd, Done
    <3> QED BY <1>1, <1>3, <2>1, <3>1, AloneMoves
  <2> QED BY <2>2, <2>3
<1>13. CASE Hmset(w)
  <2>1. wk[w].at = "hmset" /\ bus' = bus /\ attr' = c /\ Goto(w, "sadd") BY <1>4, <1>13 DEF Hmset, At
  <2>2. wk' = [wk EXCEPT ![w] = Task(wk[w].msg, "sadd", c)] BY <1>6, <2>1
  <2>3. wk[w].msg.cmd = "ONLINE" BY <1>5, <2>1 DEF HandlesAlone
  <2> QED BY <1>1, <1>3, <2>1, <2>2, <2>3, AloneMoves
<1>14. CASE Sadd(w)
  <2>1. wk[w].at = "sadd" /\ bus' = bus /\ attr' = attr /\ Goto(w, "ack") BY <1>14 DEF Sadd, At
  <2>2. wk' = [wk EXCEPT ![w] = Task(wk[w].msg, "ack", c)] BY <1>6, <2>1
  <2>3. wk[w].msg.cmd = "ONLINE" /\ attr = c BY <1>5, <2>1 DEF HandlesAlone
  <2> QED BY <1>1, <1>3, <2>1, <2>2, <2>3, AloneMoves
<1>15. CASE OnlineAck(w)
  <2>1. wk[w].at = "ack" /\ attr' = attr /\ wk' = [wk EXCEPT ![w] = Idle] /\ Send("ONLINE-ACK", c)
        BY <1>4, <1>15 DEF OnlineAck, At, Done, redisVars
  <2>2. attr = c BY <1>5, <2>1 DEF HandlesAlone
  <2>3. \A m \in bus' : m \in bus \/ m.cmd = "ONLINE-ACK" BY <1>7, <2>1 DEF Cmds
  <2> QED BY <1>1, <1>3, <2>1, <2>2, <2>3, AloneMoves
<1> QED BY <1>8, <1>9, <1>10, <1>11, <1>12, <1>13, <1>14, <1>15 DEF Run

LEMMA AloneKept ==
    ASSUME UInv, Next, UnlapsedRight'
    PROVE  AloneRight'
<1> SUFFICES ASSUME NEW c \in Conns, Alone(c)', conn'[c] \in {"wait", "login"} PROVE Undisturbed(c)'
    BY DEF AloneRight
<1>1. Alone(c)
  <2>1. ~lapsed' /\ \A d \in Conns \ {c} : conn'[d] = "new" BY DEF Alone
  <2> QED BY <2>1, ConnKept, UnlapsedKept DEF Alone
<1>2. conn[c] # "closed" BY ConnKept
<1>3. /\ Undisturbed(c) /\ attr \in {c, None} /\ c # None
      /\ \A m \in bus : m.conn = c /\ m \in Messages
      /\ \A w \in Workers : Working(w) => wk[w].msg.conn = c /\ wk[w].target = c /\ wk[w].msg \in Messages
      BY <1>1, <1>2, AllMine
<1>4. ~lapsed /\ zset # "expired" /\ tasker = "idle" BY <1>1 DEF Alone, UInv, UnlapsedRight
<1>5. ~lapsed' BY DEF Alone
<1>6. ASSUME wk' = wk, attr' = attr, conn'[c] = "login" => attr = c,
             \A m \in bus' : m \in bus \/ m.cmd \in {"ONLINE", "ONLINE-FAIL"} \/ (m.cmd = "PING" /\ attr = c)
      PROVE  Undisturbed(c)'
      BY <1>3, <1>6 DEF Undisturbed, Working, HandlesAlone
<1>7. ASSUME NEW d \in Conns, conn'[d] # "new" PROVE d = c BY <1>7 DEF Alone
<1>8. \A k \in Cmds : \A d \in Conns : Msg(k, d).cmd = k /\ Msg(k, d).conn = d BY MsgIs
<1>9. ASSUME NEW d \in Conns, Lsnd(d) PROVE Undisturbed(c)'
  <2>0. conn \in [Conns -> {"new", "wait", "login", "closed"}] BY DEF UInv, TypeOK
  <2>1. CASE Online(d)
    <3>1. conn'[d] = "wait" BY <2>0, <2>1 DEF Online
    <3>2. d = c /\ conn'[c] # "login" BY <1>7, <3>1
    <3> QED BY <1>6, <1>8, <2>1, <3>2 DEF Online, Cmds, redisVars
  <2>2. CASE Ping(d)
    <3>1. conn[d] = "login" /\ conn' = conn BY <2>2 DEF Ping, lsndVars
    <3>2. d = c /\ attr = c BY <1>3, <1>7, <3>1 DEF Undisturbed
    <3> QED BY <1>6, <1>8, <2>2, <3>2 DEF Ping, Cmds, redisVars
  <2>3. CASE Close(d)
    <3>1. conn'[d] = "closed" BY <2>0, <2>3 DEF Close
    <3>2. d = c BY <1>7, <3>1
    <3> QED BY <3>1, <3>2
  <2>4. CASE RecvAck(d)
    <3>1. Msg("ONLINE-ACK", d) \in bus /\ bus' \subseteq bus BY <2>4 DEF RecvAck
    <3>2. attr = c BY <1>3, <1>8, <3>1 DEF Undisturbed, Cmds
    <3> QED BY <1>6, <2>4, <3>1, <3>2 DEF RecvAck, redisVars
  <2>5. CASE RecvFail(d) \/ RecvKick(d)
    <3>1. bus' \subseteq bus /\ conn' = conn /\ attr' = attr /\ wk' = wk
          BY <2>5 DEF RecvFail, RecvKick, redisVars
    <3>2. conn[c] = "login" => attr = c BY <1>3 DEF Undisturbed
    <3> QED BY <1>6, <3>1, <3>2
  <2> QED BY <1>9, <2>1, <2>2, <2>3, <2>4, <2>5 DEF Lsnd
<1>10. conn[c] = "login" => attr = c BY <1>3 DEF Undisturbed
<1>11. CASE \E m \in Messages : Lose(m)
  <2>1. bus' \subseteq bus /\ conn' = conn /\ attr' = attr /\ wk' = wk BY <1>11 DEF Lose, redisVars, lsndVars
  <2> QED BY <1>6, <1>10, <2>1
<1>12. CASE \E w \in Workers : Run(w) BY <1>1, <1>2, <1>12, RunAlone
<1>13. CASE \E w \in Workers : RedisFails(w) BY <1>5, <1>13, RunRest
<1>14. ASSUME NEW w \in Workers, NEW m \in Messages, Handle(w, m) PROVE Undisturbed(c)'
  <2>1. /\ \A v \in Workers \ {w} : wk'[v] = wk[v]
        /\ wk'[w].msg = m /\ wk'[w].at = IF m.cmd = "OFFLINE" THEN "clean_get" ELSE "get"
        BY <1>14, HandleTo
  <2>2. m \in bus /\ bus' \subseteq bus /\ conn' = conn /\ attr' = attr BY <1>14 DEF Handle, lsndVars, redisVars
  <2>3. m.cmd \in {"ONLINE", "PING"} /\ (m.cmd = "PING" => attr = c) BY <1>3, <1>14, <2>2 DEF Undisturbed, Handle
  <2>4. HandlesAlone(w, c)' BY <2>1, <2>2, <2>3 DEF HandlesAlone
  <2>5. \A v \in Workers \ {w} : wk'[v] # Idle => HandlesAlone(v, c)'
        BY <1>3, <2>1, <2>2 DEF Undisturbed, HandlesAlone, Working
  <2>6. \A v \in Workers : wk'[v] # Idle => HandlesAlone(v, c)' BY <2>4, <2>5
  <2> QED BY <1>3, <2>2, <2>6 DEF Undisturbed, Working
<1>15. ASSUME NEW w \in Workers, NEW m \in Messages, online_failed(w, m) PROVE Undisturbed(c)'
  <2>1. m.conn \in Conns BY DEF Messages
  <2>2. conn' = conn /\ attr' = attr /\ wk' = wk /\ \A x \in bus' : x \in bus \/ x.cmd = "ONLINE-FAIL"
        BY <1>8, <1>15, <2>1 DEF online_failed, lsndVars, redisVars, Cmds
  <2> QED BY <1>6, <1>10, <2>2
<1>16. CASE Expire \/ clean_sid_zset \/ TaskerDel \/ TaskerZrem
       BY <1>4, <1>5, <1>16 DEF Expire, clean_sid_zset, TaskerDel, TaskerZrem
<1> QED BY <1>9, <1>11, <1>12, <1>13, <1>14, <1>15, <1>16 DEF Next
-----------------------------------------------------------------------------
LEMMA UInit == Init => UInv
<1> SUFFICES ASSUME Init PROVE UInv OBVIOUS
<1>1. TypeOK BY DEF Init, TypeOK, Tasks
<1>2. \A w \in Workers : ~Working(w) BY DEF Init, Working
<1>3. KnownRight BY <1>2 DEF Init, KnownRight
<1> QED BY <1>1, <1>3 DEF Init, UInv, UnlapsedRight, AloneRight

LEMMA UStep == UInv /\ [Next]_vars => UInv'
<1> SUFFICES ASSUME UInv, [Next]_vars PROVE UInv' OBVIOUS
<1>1. CASE UNCHANGED vars
      BY <1>1 DEF vars, lsndVars, redisVars, UInv, TypeOK, KnownRight, Known, Working, UnlapsedRight, AloneRight, Alone,
                  Undisturbed, HandlesAlone
<1>2. CASE Next
  <2>1. TypeOK' /\ KnownRight' BY <1>2, RunTyped, OtherTyped, HandleTyped DEF Next
  <2>2. UnlapsedRight' BY <1>2, UnlapsedKept
  <2>3. AloneRight' BY <1>2, <2>2, AloneKept
  <2> QED BY <2>1, <2>2, <2>3 DEF UInv
<1> QED BY <1>1, <1>2

\* For any number of connections, nodes and workers: whoever the session, the bus and the handlers
\* speak of has presented the SID, and what a lone client's handlers do is as UInv says.
THEOREM SessionInvariant == Spec => []UInv
<1> QED BY UInit, UStep, PTL DEF Spec

\* A client that is the only one to present the SID is not told to leave, however many workers
\* there are and whatever is lost or reordered, as long as the TTL has not run out and Redis has
\* not failed (UsrSvrPingHandler, UpdateSessionData).
THEOREM AloneStays == Spec => []AloneIsNotKicked
<1>1. UInv => AloneIsNotKicked
  <2> SUFFICES ASSUME UInv, NEW c \in Conns, conn[c] = "login", ~lapsed, \A d \in Conns \ {c} : conn[d] = "new"
               PROVE  Msg("KICK", c) \notin bus
      BY DEF AloneIsNotKicked
  <2>1. Undisturbed(c) BY DEF UInv, AloneRight, Alone
  <2>2. Msg("KICK", c).cmd = "KICK" BY MsgIs DEF Cmds
  <2> QED BY <2>1, <2>2 DEF Undisturbed
<1> QED BY <1>1, SessionInvariant, PTL

\* A step of another handler: it leaves the session or takes it away, or its HMSET is noted.
LEMMA OthersRace ==
    ASSUME NEW v \in Workers, NEW w \in Workers, v # w, Run(v) \/ RedisFails(v)
    PROVE  /\ w \in raced => w \in raced'
           /\ At(w, "clean_del") => attr' \in {attr, None} \/ w \in raced'
<1> USE DEF redisVars
<1>1. CASE OnlineGet(v) \/ PingGet(v) \/ PingGetFails(v) \/ OnlineGetFails(v) \/ PipelineFails(v)
  BY <1>1 DEF OnlineGet, PingGet, PingGetFails, OnlineGetFails, PipelineFails
<1>2. CASE CleanGet(v) \/ CleanDel(v) \/ CleanZrem(v) \/ CleanFails(v)
  BY <1>2 DEF CleanGet, CleanDel, CleanZrem, CleanFails
<1>3. CASE SendKick(v) \/ QuerySeq(v) \/ Zadd(v) \/ Sadd(v) \/ OnlineAck(v)
  BY <1>3 DEF SendKick, QuerySeq, Zadd, Sadd, OnlineAck
<1>4. CASE Hmset(v) BY <1>4 DEF Hmset
<1> QED BY <1>1, <1>2, <1>3, <1>4 DEF Run, RedisFails

\* The owner of the session between the comparison and the DEL.
LEMMA OwnerKept == UInv /\ CleanUnlessRaced /\ [Next]_vars => CleanUnlessRaced'
<1> SUFFICES ASSUME UInv, CleanUnlessRaced, [Next]_vars,
                    NEW w \in Workers, wk'[w].at = "clean_del", w \notin raced'
             PROVE  attr' \in {wk'[w].target, None}
    BY DEF CleanUnlessRaced, At
<1>0. wk \in [Workers -> Tasks] BY DEF UInv, TypeOK
<1>1. CASE wk'[w] = wk[w] /\ attr' \in {attr, None} /\ w \notin raced BY <1>1 DEF CleanUnlessRaced, At
<1>9. ASSUME NEW v \in Workers, v # w, Run(v) \/ RedisFails(v) PROVE attr' \in {wk'[w].target, None}
  <2>1. wk'[w] = wk[w]
    <3>1. Moves(v) BY <1>9, RunMoves
    <3> QED BY <3>1, <1>0, <1>9 DEF Moves
  <2>2. w \notin raced /\ attr' \in {attr, None} BY <2>1, <1>9, OthersRace DEF At
  <2> QED BY <2>1, <2>2, <1>1
<1>2. ASSUME Run(w) \/ RedisFails(w) PROVE attr' \in {wk'[w].target, None}
  <2>2. Moves(w) /\ Working(w) /\ Req(w) \in Messages /\ wk[w].target \in Conns \cup {None}
    <3>1. Moves(w) /\ Working(w) BY <1>2, RunMoves DEF Moves
    <3> QED BY <3>1, Works DEF UInv, Req
  <2>3. ASSUME NEW a \in Places, NEW t \in Conns \cup {None}, wk' = [wk EXCEPT ![w] = Task(wk[w].msg, a, t)]
        PROVE  a = "clean_del" /\ wk'[w].target = t
    <3>1. Task(wk[w].msg, a, t).at = a /\ Task(wk[w].msg, a, t).target = t BY <2>2, TaskIs DEF Req
    <3> QED BY <1>0, <2>3, <3>1
  <2>4. ASSUME NEW a \in Places, Goto(w, a) PROVE a = "clean_del" /\ wk'[w].target = wk[w].target
        BY <2>2, <2>3, <2>4 DEF Goto
  <2>5. ~Done(w) BY <1>0 DEF Done, Idle
  <2>6. CleanGet(w)
    <3> USE DEF Places
    <3>1. ~OnlineGet(w)
      <4> SUFFICES ASSUME OnlineGet(w) PROVE FALSE OBVIOUS
      <4>1. \/ wk' = [wk EXCEPT ![w] = Task(wk[w].msg, "seq", Me(w))]
            \/ wk' = [wk EXCEPT ![w] = Task(wk[w].msg, "clean_get", attr)]
            BY DEF OnlineGet, Req
      <4>2. Me(w) \in Conns \cup {None} /\ attr \in Conns \cup {None} BY <2>2, Works DEF UInv, TypeOK, Me
      <4> QED BY <2>3, <4>1, <4>2
    <3>2. ~PingGet(w) /\ ~PingGetFails(w) BY <2>4 DEF PingGet, PingGetFails
    <3>3. ~CleanDel(w) /\ ~CleanZrem(w) /\ ~CleanFails(w) BY <2>4, <2>5 DEF CleanDel, CleanZrem, CleanFails, AfterClean
    <3>4. ~SendKick(w) /\ ~QuerySeq(w) /\ ~Zadd(w) BY <2>4, <2>5 DEF SendKick, QuerySeq, Zadd
    <3>5. ~Hmset(w) /\ ~Sadd(w) /\ ~OnlineAck(w) BY <2>4, <2>5 DEF Hmset, Sadd, OnlineAck
    <3>6. ~OnlineGetFails(w) /\ ~PipelineFails(w) BY <2>4, <2>5 DEF OnlineGetFails, PipelineFails
    <3> QED BY <1>2, <3>1, <3>2, <3>3, <3>4, <3>5, <3>6 DEF Run, RedisFails
  <2>7. attr = wk[w].target /\ Goto(w, "clean_del") /\ attr' = attr
        BY <2>4, <2>5, <2>6 DEF CleanGet, AfterClean, redisVars, Places
  <2> QED BY <2>4, <2>7 DEF Places
<1>3. ASSUME NEW v \in Workers, NEW m \in Messages, Handle(v, m) PROVE attr' \in {wk'[w].target, None}
  <2>1. CASE v = w
    <3>1. wk'[w].at = IF m.cmd = "OFFLINE" THEN "clean_get" ELSE "get" BY <1>3, <2>1, HandleTo
    <3> QED BY <3>1
  <2>2. CASE v # w BY <1>0, <1>1, <1>3, <2>2 DEF Handle, redisVars
  <2> QED BY <2>1, <2>2
<1>4. ASSUME NEW v \in Workers, NEW m \in Messages, online_failed(v, m) PROVE attr' \in {wk'[w].target, None}
      BY <1>1, <1>4 DEF online_failed, redisVars
<1>5. CASE \E c \in Conns : Lsnd(c)
      BY <1>1, <1>5 DEF Lsnd, Online, Ping, Close, RecvAck, RecvFail, RecvKick, redisVars
<1>6. CASE \E m \in Messages : Lose(m) BY <1>1, <1>6 DEF Lose, redisVars
<1>7. CASE Expire \/ clean_sid_zset \/ TaskerDel \/ TaskerZrem
      BY <1>1, <1>7 DEF Expire, clean_sid_zset, TaskerDel, TaskerZrem, redisVars
<1>8. CASE UNCHANGED vars BY <1>1, <1>8 DEF vars, redisVars
<1> QED BY <1>2, <1>3, <1>4, <1>5, <1>6, <1>7, <1>8, <1>9 DEF Next

\* For any number of handlers, connections and nodes, whatever the bus, the tasker and Redis do:
\* CleanSessionData deletes the session it was called for, or none, unless an ONLINE wrote the
\* session between its comparison and its DEL.
THEOREM CleansTheRightOne == Spec => []CleanRight
<1>1. Init => UInv /\ CleanUnlessRaced
  <2>1. Init => CleanUnlessRaced BY DEF Init, CleanUnlessRaced, At, Idle
  <2> QED BY <2>1, UInit
<1>2. UInv /\ CleanUnlessRaced /\ [Next]_vars => UInv' /\ CleanUnlessRaced' BY UStep, OwnerKept
<1>3. UInv /\ CleanUnlessRaced => CleanRight BY DEF UInv, CleanRight
<1> QED BY <1>1, <1>2, <1>3, PTL DEF Spec
-----------------------------------------------------------------------------
(***************************************************************************)
(* Sdk.  Where a message is, what its item says and what its callback was   *)
(* told go together, until freed memory is used (wild): the application has *)
(* not sent it yet, or it is in sendq, in the write buffer or waits for its *)
(* acknowledgement and is in the table, or it is at its end.                *)
(***************************************************************************)
Entries == Mesgs \cup Sys
Answers == [x : [k : Kinds, v : Int], rest : BOOLEAN]
Results == {"SEND_FAIL", "SEND_TIMEOUT", "SEND_SUCC", "ACK_SUCC", "ACK_TIMEOUT"}
Commands == {"SEND_ALL", "NETWORK"}
Items == [stat : {"NEW", "IN_SENDQ", "SENDING", "SEND_SUCC", "SEND_FAIL", "GONE"},
          seq : Nat, due : BOOLEAN, res : Seq(Results)]

AppsTyped ==
    /\ scene \in Scenes
    /\ app \in [Apps -> [pc : {"idle", "put", "notify", "unlock"}, n : Nat, seq : Nat]]
    /\ \A a \in Apps : app[a].n <= Len(scene.send[a]) /\ (app[a].pc = "put" => app[a].n > 0)
ItemsTyped == item \in [Mesgs -> Items] /\ tab \in SUBSET Mesgs /\ seq \in Nat /\ sendq \in Seq(Mesgs)
LoopTyped ==
    /\ cmds \in Seq(Commands) /\ Len(cmds) <= CmdMax
    /\ ssvr \in [pc : {"wait", "run", "add", "writev"}, armed : BOOLEAN, ev : SUBSET {"w", "c", "r"}]
    /\ "c" \in ssvr.ev => cmds # <<>>
ConnTyped ==
    /\ conns \in 0 .. scene.conns /\ fd \in 0 .. conns /\ online \in BOOLEAN /\ kp \in 0 .. 4
    /\ dn \in Seq(Answers) /\ peer \subseteq 1 .. conns /\ calls \in [net : Nat, dn : Nat]
IovTyped ==
    /\ ml \in Seq(Sys) /\ cnt \in 0 .. IovMax
    /\ iov \in Seq(ToSet(iov)) /\ Len(iov) <= cnt
    /\ \A k \in 1 .. Len(iov) : iov[k].m \in Entries /\ iov[k] = [m |-> iov[k].m, left |-> iov[k].left]
SdkTyped == AppsTyped /\ ItemsTyped /\ LoopTyped /\ ConnTyped /\ IovTyped

\* The positions of what a has not sent, or is about to put into the table.
Unsent(a) == {i \in DOMAIN scene.send[a] : i > app[a].n \/ (i = app[a].n /\ app[a].pc = "put")}
Ends == {<<>>, <<"SEND_FAIL">>, <<"SEND_TIMEOUT">>, <<"SEND_SUCC">>,
         <<"SEND_SUCC", "ACK_SUCC">>, <<"SEND_SUCC", "ACK_TIMEOUT">>}

ItemRight(m) ==
    /\ m \in tab <=> item[m].stat \in {"IN_SENDQ", "SENDING", "SEND_SUCC"}
    /\ item[m].stat = "IN_SENDQ" <=> m \in ToSet(sendq)
    /\ item[m].stat = "SENDING" <=> m \in InIov
    /\ item[m].stat \in {"IN_SENDQ", "SENDING"} => item[m].res = <<>>
    /\ item[m].stat = "SEND_SUCC" => item[m].res = <<"SEND_SUCC">>
    /\ item[m].res \in Ends
ItemsRight == \A m \in Mesgs : ItemRight(m)
QueuedOnce == \A i, j \in DOMAIN sendq : sendq[i] = sendq[j] => i = j
BufferedOnce == \A i, j \in 1 .. Len(iov) : iov[i].m = iov[j].m /\ iov[i].m \in Mesgs => i = j
UnsentNew == \A a \in Apps : \A i \in Unsent(a) :
                item[scene.send[a][i]].stat = "NEW" /\ item[scene.send[a][i]].res = <<>>
SdkRight == ItemsRight /\ QueuedOnce /\ BufferedOnce /\ UnsentNew

SdkInv == SdkTyped /\ (wild \/ SdkRight)
-----------------------------------------------------------------------------
(* Numbers and sequences. *)

\* As many numbers as the last of them says.
LEMMA CountTo == \A n \in Nat : IsFiniteSet(1 .. n) /\ Cardinality(1 .. n) = n
<1> TAKE n \in Nat
<1>1. 1 \in Int /\ n \in Int OBVIOUS
<1>2. IsFiniteSet(1 .. n) /\ Cardinality(1 .. n) = IF 1 > n THEN 0 ELSE n - 1 + 1 BY ONLY <1>1, FS_Interval
<1>3. (IF 1 > n THEN 0 ELSE n - 1 + 1) = n OBVIOUS
<1> QED BY <1>2, <1>3

\* A set of natural numbers has a least element.
LEMMA Least ==
    ASSUME NEW T \in SUBSET Nat, T # {}
    PROVE  \E x \in T : \A y \in T : x <= y
<1>1. \E x \in T : \A y \in T : ~ (<<y, x>> \in OpToRel(<, Nat))
  BY NatLessThanWellFounded, WFMin
<1>2. PICK x \in T : \A y \in T : ~ (<<y, x>> \in OpToRel(<, Nat)) BY <1>1
<1>3. ASSUME NEW y \in T PROVE x <= y
  <2>1. x \in Nat /\ y \in Nat OBVIOUS
  <2>2. ~ (y < x) BY <1>2, <2>1 DEF OpToRel
  <2> QED BY <2>1, <2>2
<1> QED BY <1>3

\* The k-th position of those in keep is one of them, and only one.
LEMMA Ranked ==
    ASSUME NEW n \in Nat, NEW keep \in SUBSET (1 .. n)
    PROVE  LET Rank(i) == Cardinality({j \in keep : j <= i})
           IN  /\ Cardinality(keep) \in Nat
               /\ \A k \in 1 .. Cardinality(keep) : \E i \in keep : Rank(i) = k
               /\ \A i \in keep : Rank(i) \in 1 .. Cardinality(keep)
               /\ \A i, j \in keep : Rank(i) = Rank(j) => i = j
<1> DEFINE Below(i) == {j \in keep : j <= i}
           Rank(i) == Cardinality(Below(i))
           c == Cardinality(keep)
           r == [i \in keep |-> Rank(i)]
<1>1. IsFiniteSet(keep) /\ c \in Nat
  <2>1. IsFiniteSet(1 .. n) BY FS_Interval
  <2> QED BY <2>1, FS_Subset, FS_CardinalityType
<1>2. \A i \in keep : IsFiniteSet(Below(i)) /\ Rank(i) \in Nat /\ Rank(i) <= c /\ Rank(i) # 0
  <2> TAKE i \in keep
  <2>1. Below(i) \in SUBSET keep OBVIOUS
  <2>2. IsFiniteSet(Below(i)) /\ Rank(i) <= c BY <1>1, <2>1, FS_Subset
  <2>3. Rank(i) \in Nat BY <2>2, FS_CardinalityType
  <2>4. i \in Below(i) OBVIOUS
  <2>5. Rank(i) # 0 BY <2>2, <2>4, FS_EmptySet
  <2> QED BY <2>2, <2>3, <2>5
<1>3. ASSUME NEW i \in keep, NEW j \in keep, i < j PROVE Rank(i) # Rank(j)
  <2>0. \A x \in keep : x \in Int OBVIOUS
  <2>1. \A x \in Below(i) : x \in Below(j) BY <1>3, <2>0
  <2>2. j \in Below(j) /\ j \notin Below(i) BY <1>3, <2>0
  <2>3. Below(i) \in SUBSET Below(j) BY <2>1
  <2> QED BY <1>2, <2>2, <2>3, FS_Subset
<1>4. \A i, j \in keep : Rank(i) = Rank(j) => i = j
  <2> TAKE i, j \in keep
  <2>1. i \in Int /\ j \in Int OBVIOUS
  <2>2. i < j \/ i = j \/ j < i BY <2>1
  <2> QED BY <1>3, <2>2
<1>5. \A i \in keep : Rank(i) \in 1 .. c BY <1>1, <1>2
<1>6. r \in [keep -> 1 .. c] BY <1>5
<1>7. r \in Injection(keep, 1 .. c)
  <2>1. \A i, j \in keep : r[i] = r[j] => i = j BY <1>4
  <2> HIDE DEF r
  <2> QED BY <1>6, <2>1 DEF Injection, IsInjective
<1>8. IsFiniteSet(1 .. c) /\ Cardinality(1 .. c) = c
  <2> HIDE DEF c
  <2> QED BY <1>1, CountTo
<1>9. r \in Surjection(keep, 1 .. c) BY <1>7, <1>8, FS_Injection
<1>10. \A k \in 1 .. c : \E i \in keep : r[i] = k BY <1>9 DEF Surjection
<1>11. \A k \in 1 .. c : \E i \in keep : Rank(i) = k BY <1>10
<1> QED BY <1>1, <1>4, <1>5, <1>11

\* Without takes out what is in S and nothing else, and brings nothing in twice.
LEMMA WithoutIs ==
    ASSUME NEW D, NEW q \in Seq(D), NEW S
    PROVE  /\ Without(q, S) \in Seq(D)
           /\ Len(Without(q, S)) = Cardinality({i \in 1 .. Len(q) : q[i] \notin S})
           /\ ToSet(Without(q, S)) = ToSet(q) \ S
           /\ (\A i, j \in DOMAIN q : q[i] = q[j] => i = j) =>
              \A i, j \in DOMAIN Without(q, S) : Without(q, S)[i] = Without(q, S)[j] => i = j
<1> DEFINE keep == {i \in DOMAIN q : q[i] \notin S}
           Rank(i) == Cardinality({j \in keep : j <= i})
           PosOf(k) == CHOOSE i \in keep : Rank(i) = k
           c == Cardinality(keep)
           w == [k \in 1 .. c |-> q[PosOf(k)]]
<1>1. Without(q, S) = w BY DEF Without
<1>2. Len(q) \in Nat /\ DOMAIN q = 1 .. Len(q) /\ \A i \in 1 .. Len(q) : q[i] \in D BY LenProperties
<1>3. keep \in SUBSET (1 .. Len(q)) BY <1>2
<1>4. /\ c \in Nat /\ \A k \in 1 .. c : \E i \in keep : Rank(i) = k
      /\ \A i \in keep : Rank(i) \in 1 .. c
      /\ \A i, j \in keep : Rank(i) = Rank(j) => i = j
  <2> HIDE DEF keep
  <2> QED BY <1>2, <1>3, Ranked
<1>5. \A k \in 1 .. c : PosOf(k) \in keep /\ Rank(PosOf(k)) = k
  <2> HIDE DEF c, keep, Rank
  <2> QED BY <1>4
<1>6. \A i \in keep : PosOf(Rank(i)) = i BY <1>4, <1>5
<1>7. \A k \in 1 .. c : w[k] = q[PosOf(k)] OBVIOUS
<1>8. \A k \in 1 .. c : w[k] \in D
  <2> TAKE k \in 1 .. c
  <2>1. PosOf(k) \in keep BY <1>5
  <2>2. PosOf(k) \in 1 .. Len(q) BY <1>3, <2>1
  <2>3. q[PosOf(k)] \in D BY <1>2, <2>2
  <2> QED BY <1>7, <2>3
<1>9. w \in Seq(D) /\ Len(w) = c /\ DOMAIN w = 1 .. c
  <2>1. w \in [1 .. c -> D]
    <3>1. w = [k \in 1 .. c |-> w[k]] OBVIOUS
    <3> HIDE DEF w, c
    <3> QED BY <1>8, <3>1
  <2> HIDE DEF w, c
  <2>2. w \in Seq(D) BY <1>4, <2>1, SeqDef
  <2> QED BY <1>4, <2>1, <2>2, LenProperties
<1>10. ToSet(w) = ToSet(q) \ S
  <2>1. ASSUME NEW k \in 1 .. c PROVE w[k] \in ToSet(q) \ S
    <3>1. PosOf(k) \in DOMAIN q /\ q[PosOf(k)] \notin S BY <1>5
    <3>2. q[PosOf(k)] \in ToSet(q) BY <3>1 DEF ToSet
    <3> QED BY <1>7, <3>1, <3>2
  <2>2. ASSUME NEW x \in ToSet(q) \ S PROVE \E k \in 1 .. c : w[k] = x
    <3>1. PICK i \in DOMAIN q : q[i] = x BY DEF ToSet
    <3>2. i \in keep BY <3>1
    <3>3. Rank(i) \in 1 .. c BY <1>4, <3>2
    <3>4. w[Rank(i)] = x BY <1>6, <1>7, <3>1, <3>2, <3>3
    <3> QED BY <3>3, <3>4
  <2>3. ToSet(w) = {w[k] : k \in 1 .. c} BY <1>9 DEF ToSet
  <2> HIDE DEF w, c
  <2> QED BY <2>1, <2>2, <2>3
<1>11. ASSUME \A i, j \in DOMAIN q : q[i] = q[j] => i = j,
              NEW k \in 1 .. c, NEW l \in 1 .. c, w[k] = w[l]
       PROVE  k = l
  <2>1. PosOf(k) \in keep /\ Rank(PosOf(k)) = k /\ PosOf(l) \in keep /\ Rank(PosOf(l)) = l BY <1>5
  <2>2. q[PosOf(k)] = q[PosOf(l)] BY <1>7, <1>11
  <2>3. PosOf(k) = PosOf(l) BY <1>11, <2>1, <2>2
  <2> QED BY <2>1, <2>3
<1>12. keep = {i \in 1 .. Len(q) : q[i] \notin S} BY <1>2
<1> HIDE DEF w
<1> QED BY <1>1, <1>9, <1>10, <1>11, <1>12

-----------------------------------------------------------------------------
(* What a step leaves alone. *)

LEMMA AppsSame == ASSUME AppsTyped, UNCHANGED <<scene, app>> PROVE AppsTyped'
BY DEF AppsTyped
LEMMA ItemsSame == ASSUME ItemsTyped, UNCHANGED <<item, tab, seq, sendq>> PROVE ItemsTyped'
BY DEF ItemsTyped
LEMMA IovSame == ASSUME IovTyped, UNCHANGED <<ml, cnt, iov>> PROVE IovTyped'
BY DEF IovTyped
LEMMA ConnSame ==
    ASSUME ConnTyped, UNCHANGED <<scene, conns, fd, online, kp, dn, peer, calls>> PROVE ConnTyped'
BY DEF ConnTyped

\* Nothing changes of where a message is.
LEMMA RightSame ==
    ASSUME SdkRight, UNCHANGED <<scene, app, item, tab, sendq, iov>> PROVE SdkRight'
<1>1. InIov' = InIov BY DEF InIov
<1>2. \A a : Unsent(a)' = Unsent(a) BY DEF Unsent
<1> QED BY <1>1, <1>2 DEF SdkRight, ItemsRight, ItemRight, QueuedOnce, BufferedOnce, UnsentNew

\* The same messages are in sendq and in the buffer, and threads only go on.
LEMMA SentMore ==
    ASSUME SdkRight, UNCHANGED <<item, tab, sendq>>, InIov' = InIov, BufferedOnce',
           scene' = scene, \A a \in Apps : Unsent(a)' \subseteq Unsent(a)
    PROVE  SdkRight'
BY DEF SdkRight, ItemsRight, ItemRight, QueuedOnce, UnsentNew

\* One event of a round is handled.
LEMMA HandledTyped ==
    ASSUME LoopTyped, NEW e \in {"w", "c", "r"}, Turn(e), ssvr' = Handled(e),
           cmds' = cmds \/ (e = "c" /\ cmds' = Tail(cmds))
    PROVE  LoopTyped'
<1>1. ssvr' \in [pc : {"wait", "run", "add", "writev"}, armed : BOOLEAN, ev : SUBSET {"w", "c", "r"}]
      /\ ssvr'.ev = ssvr.ev \ {e}
  BY DEF LoopTyped, Handled
<1>2. CASE cmds' = cmds BY <1>1, <1>2 DEF LoopTyped
<1>3. CASE e = "c" /\ cmds' = Tail(cmds)
  <2>1. cmds # <<>> BY <1>3 DEF LoopTyped, Turn
  <2>2. cmds' \in Seq(Commands) /\ Len(cmds') = Len(cmds) - 1 BY <1>3, <2>1, HeadTailProperties DEF LoopTyped
  <2>3. Len(cmds') <= CmdMax BY <2>2, LenProperties, SdkAssumption DEF LoopTyped
  <2> QED BY <1>1, <1>3, <2>2, <2>3 DEF LoopTyped
<1> QED BY <1>2, <1>3

\* A command is sent, or dropped.
LEMMA CmdTyped ==
    ASSUME LoopTyped, ssvr' = ssvr, NEW c \in Commands, unix_udp_send(c)
    PROVE  LoopTyped'
<1>1. CASE Len(cmds) < CmdMax
  <2>1. cmds' = Append(cmds, c) BY <1>1 DEF unix_udp_send
  <2>2. cmds' \in Seq(Commands) /\ cmds' # <<>> /\ Len(cmds') = Len(cmds) + 1
    BY <2>1, AppendProperties DEF LoopTyped
  <2>3. Len(cmds') <= CmdMax BY <1>1, <2>2, LenProperties, SdkAssumption DEF LoopTyped
  <2> QED BY <2>2, <2>3 DEF LoopTyped
<1>2. CASE ~ (Len(cmds) < CmdMax) BY <1>2 DEF LoopTyped, unix_udp_send
<1> QED BY <1>1, <1>2

\* The end of a round.
LEMMA RoundTyped ==
    ASSUME LoopTyped, cmds' = cmds, sdk_ssvr_set_rwset
    PROVE  LoopTyped'
BY DEF LoopTyped, sdk_ssvr_set_rwset

\* The first of what the server sent is read.
LEMMA ReadTyped ==
    ASSUME ConnTyped, Whole \/ Reading
    PROVE  /\ X.k \in Kinds /\ X.v \in Int /\ dn # <<>> /\ Head(dn) \in Answers
           /\ Tail(dn) \in Seq(Answers)
<1>1. dn # <<>> BY DEF Whole, Reading
<1>2. Head(dn) \in Answers /\ Tail(dn) \in Seq(Answers) BY <1>1, HeadTailProperties DEF ConnTyped
<1> QED BY <1>1, <1>2 DEF X, Answers

\* A connection is closed.
LEMMA ClosedTyped ==
    ASSUME ConnTyped, Closed, UNCHANGED <<scene, conns, kp, calls>>, online' \in BOOLEAN
    PROVE  ConnTyped'
<1>1. dn' \in Seq(Answers) BY EmptySeq DEF Closed
<1> QED BY <1>1 DEF ConnTyped, Closed
-----------------------------------------------------------------------------
(* The actions that move no message. *)

LEMMA RoutineHolds == ASSUME SdkTyped, SdkRight, sdk_ssvr_routine PROVE SdkTyped' /\ SdkRight'
<1> USE DEF sdk_ssvr_routine, appVars, mgrVars, sckVars, srvVars, SdkTyped
<1>1. Ready \in SUBSET {"w", "c", "r"} /\ ("c" \in Ready => cmds # <<>>) BY DEF Ready
<1>2. LoopTyped'
  <2>1. CASE ssvr' = [ssvr EXCEPT !.pc = "run", !.ev = Ready] BY <1>1, <2>1 DEF LoopTyped
  <2>2. CASE ssvr' = [ssvr EXCEPT !.pc = "run"] BY <2>2 DEF LoopTyped
  <2> QED BY <2>1, <2>2
<1> QED BY <1>2, AppsSame, ItemsSame, ConnSame, IovSame, RightSame

LEMMA SwitchHolds == ASSUME SdkTyped, SdkRight, sdk_network_switch PROVE SdkTyped' /\ SdkRight'
<1> USE DEF sdk_network_switch, appVars, mgrVars, sckVars, srvVars, SdkTyped
<1>1. LoopTyped'
  <2>1. unix_udp_send("NETWORK") OBVIOUS
  <2>2. "NETWORK" \in Commands /\ ssvr' = ssvr BY DEF Commands
  <2> HIDE DEF sdk_network_switch
  <2> QED BY <2>1, <2>2, CmdTyped
<1>2. ConnTyped' BY DEF ConnTyped
<1> QED BY <1>1, <1>2, AppsSame, ItemsSame, IovSame, RightSame

LEMMA RecvEndHolds ==
    ASSUME SdkTyped, SdkRight, sdk_ssvr_recv_end \/ sdk_ssvr_recv_eof
    PROVE  SdkTyped' /\ SdkRight'
<1> USE DEF sdk_ssvr_recv_end, sdk_ssvr_recv_eof, appVars, mgrVars, sckVars, srvVars, SdkTyped
<1>1. LoopTyped' BY HandledTyped
<1>2. ConnTyped' BY ConnSame, ClosedTyped
<1> QED BY <1>1, <1>2, AppsSame, ItemsSame, IovSame, RightSame

LEMMA HalfHolds == ASSUME SdkTyped, SdkRight, sdk_ssvr_half PROVE SdkTyped' /\ SdkRight'
<1> USE DEF sdk_ssvr_half, Whole, Reading, appVars, mgrVars, sckVars, srvVars, SdkTyped
<1>1. LoopTyped' BY HandledTyped
<1>2. ConnTyped'
  <2>1. dn \in Seq(Answers) /\ dn # <<>> BY DEF ConnTyped
  <2>2. 1 \in 1 .. Len(dn) /\ dn[1] \in Answers BY <2>1, LenProperties, EmptySeq
  <2>3. [dn[1] EXCEPT !.rest = TRUE] \in Answers BY <2>2 DEF Answers
  <2>4. dn' \in Seq(Answers) BY <2>1, <2>2, <2>3, ExceptSeq
  <2> QED BY <2>4 DEF ConnTyped
<1> QED BY <1>1, <1>2, AppsSame, ItemsSame, IovSame, RightSame

LEMMA MixedHolds == ASSUME SdkTyped, SdkRight, sdk_ssvr_mixed PROVE SdkTyped' /\ SdkRight'
<1> USE DEF sdk_ssvr_mixed, appVars, mgrVars, sckVars, srvVars, SdkTyped
<1>1. LoopTyped' BY DEF LoopTyped
<1> QED BY <1>1, AppsSame, ItemsSame, ConnSame, IovSame, RightSame

LEMMA ReadHolds ==
    ASSUME SdkTyped, SdkRight, sdk_exp_mesg_proc \/ sdk_mesg_pong_handler
    PROVE  SdkTyped' /\ SdkRight'
<1> USE DEF sdk_exp_mesg_proc, sdk_mesg_pong_handler, recvUnch, Read, appVars, mgrVars, SdkTyped
<1>1. LoopTyped' BY DEF LoopTyped
<1>2. ConnTyped'
  <2>1. Tail(dn) \in Seq(Answers) BY ReadTyped
  <2>2. dn' = Tail(dn) /\ kp' \in {kp, 0} /\ UNCHANGED <<scene, conns, fd, online, peer, calls>> OBVIOUS
  <2> QED BY <2>1, <2>2 DEF ConnTyped
<1> QED BY <1>1, <1>2, AppsSame, ItemsSame, IovSame, RightSame

LEMMA PingHolds == ASSUME SdkTyped, SdkRight, sdk_mesg_ping_handler PROVE SdkTyped' /\ SdkRight'
<1> USE DEF sdk_mesg_ping_handler, recvUnch, Read, appVars, mgrVars, SdkTyped
<1>1. LoopTyped' BY DEF LoopTyped
<1>2. ConnTyped'
  <2>1. Tail(dn) \in Seq(Answers) BY ReadTyped
  <2> QED BY <2>1 DEF ConnTyped
<1>3. IovTyped' BY AppendProperties DEF IovTyped, Sys
<1> QED BY <1>1, <1>2, <1>3, AppsSame, ItemsSame, RightSame

LEMMA OnlineAckHolds ==
    ASSUME SdkTyped, SdkRight, sdk_mesg_online_ack_handler PROVE SdkTyped' /\ SdkRight'
<1> USE DEF sdk_mesg_online_ack_handler, sdk_mesg_send_sync_req, recvUnch, Read, appVars, SdkTyped
<1>1. LoopTyped' BY DEF LoopTyped
<1>2. ConnTyped'
  <2>1. Tail(dn) \in Seq(Answers) BY ReadTyped
  <2> QED BY <2>1 DEF ConnTyped
<1>3. IovTyped' BY AppendProperties DEF IovTyped, Sys
<1>4. ItemsTyped' BY ReadTyped DEF ItemsTyped
<1> QED BY <1>1, <1>2, <1>3, <1>4, AppsSame, RightSame

LEMMA RefusedHolds ==
    ASSUME SdkTyped, SdkRight, sdk_mesg_online_refused PROVE SdkTyped' /\ SdkRight'
<1> USE DEF sdk_mesg_online_refused, Whole, Reading, appVars, SdkTyped
<1>1. LoopTyped' BY HandledTyped
<1>2. ConnTyped' BY ClosedTyped
<1>3. ItemsTyped' BY DEF ItemsTyped
<1> QED BY <1>1, <1>2, <1>3, AppsSame, IovSame, RightSame

LEMMA WorkerHolds == ASSUME SdkTyped, SdkRight, sdk_worker_routine PROVE SdkTyped' /\ SdkRight'
<1> USE DEF sdk_worker_routine, sdk_worker_cmd_proc_req_hdl, appVars, mgrVars, sckVars, srvVars, SdkTyped
<1>1. LoopTyped' BY DEF LoopTyped
<1> QED BY <1>1, AppsSame, ItemsSame, ConnSame, IovSame, RightSame

LEMMA ServerHolds == ASSUME SdkTyped, SdkRight, Server PROVE SdkTyped' /\ SdkRight'
<1> USE DEF Server, ServerAnswers, ServerSends, ServerCloses, appVars, mgrVars, sckVars, SdkTyped
<1>1. LoopTyped' BY DEF LoopTyped
<1>2. ASSUME NEW k \in Kinds, NEW v \in Int, dn' = Down([k |-> k, v |-> v]) PROVE dn' \in Seq(Answers)
  BY <1>2, AppendProperties DEF Down, Answers, ConnTyped
<1>3. ASSUME ServerAnswers PROVE ConnTyped'
  <2>1. fd \in 1 .. Len(scene.answer) /\ scene.answer[fd] \in Int
    <3>1. scene.answer \in Seq(Int) /\ scene.conns <= Len(scene.answer) /\ scene.conns \in Nat
      BY SdkAssumption DEF AppsTyped
    <3>2. fd \in 0 .. conns /\ conns \in 0 .. scene.conns /\ fd # 0 BY <1>3 DEF ConnTyped
    <3>3. Len(scene.answer) \in Nat BY <3>1, LenProperties
    <3>4. fd \in 1 .. Len(scene.answer) BY ONLY <3>1, <3>2, <3>3
    <3> QED BY <3>1, <3>4, ElementOfSeq
  <2>2. \A m \in Mesgs : Seqs(m) \in Int BY DEF ItemsTyped, Items, Seqs
  <2>3. scene.ack \in Kinds \cup {"none"} BY SdkAssumption DEF AppsTyped
  <2>4. \E k \in Kinds, v \in Int : dn' = Down([k |-> k, v |-> v])
    <3>1. CASE dn' = Down([k |-> "ONLINE_ACK", v |-> scene.answer[fd]])
      <4>1. "ONLINE_ACK" \in Kinds BY DEF Kinds
      <4> QED BY <2>1, <3>1, <4>1
    <3>2. ASSUME NEW m \in Mesgs, scene.ack # "none", dn' = Down([k |-> scene.ack, v |-> Seqs(m)])
          PROVE  \E k \in Kinds, v \in Int : dn' = Down([k |-> k, v |-> v])
      BY <1>3, <2>2, <2>3, <3>2
    <3> QED BY <1>3, <3>1, <3>2
  <2>5. dn' \in Seq(Answers) BY <1>2, <2>4
  <2>6. UNCHANGED <<scene, conns, fd, online, kp, peer, calls>> BY <1>3
  <2> QED BY <2>5, <2>6 DEF ConnTyped
<1>4. ASSUME ServerSends PROVE ConnTyped'
  <2>1. scene.dn \in Seq([k : Kinds, v : Int]) BY SdkAssumption DEF AppsTyped
  <2>2. calls.dn + 1 \in 1 .. Len(scene.dn) BY <1>4, <2>1, LenProperties DEF ConnTyped
  <2>3. scene.dn[calls.dn + 1] \in [k : Kinds, v : Int] BY <2>1, <2>2, ElementOfSeq
  <2>4. [x |-> scene.dn[calls.dn + 1], rest |-> FALSE] \in Answers BY <2>3 DEF Answers
  <2>5. dn' \in Seq(Answers) BY <1>4, <2>4, AppendProperties DEF ConnTyped, Down
  <2>6. UNCHANGED <<scene, conns, fd, online, kp, peer>> /\ calls' = [calls EXCEPT !.dn = @ + 1] BY <1>4
  <2>7. calls' \in [net : Nat, dn : Nat] BY <2>6 DEF ConnTyped
  <2> QED BY <2>5, <2>6, <2>7 DEF ConnTyped
<1>5. ASSUME ServerCloses PROVE ConnTyped' BY <1>5 DEF ConnTyped
<1>6. ConnTyped' BY <1>3, <1>4, <1>5
<1> QED BY <1>1, <1>6, AppsSame, ItemsSame, IovSame, RightSame

LEMMA TicksHold == ASSUME SdkTyped, SdkRight, TickPing \/ TickConn PROVE SdkTyped' /\ SdkRight'
<1> USE DEF TickPing, TickConn, appVars, mgrVars, srvVars, SdkTyped
<1>1. LoopTyped' BY DEF LoopTyped
<1> QED BY <1>1, AppsSame, ItemsSame, ConnSame, IovSame, RightSame

-----------------------------------------------------------------------------
(* Messages that are sent and messages that leave. *)

LEMMA AppendOnce ==
    ASSUME NEW r \in Results
    PROVE  Append(<<>>, r) = <<r>> /\ Append(<<"SEND_SUCC">>, r) = <<"SEND_SUCC", r>>
<1>1. <<>> \in Seq(Results) /\ <<r>> \in Seq(Results) OBVIOUS
<1>2. <<"SEND_SUCC">> \in Seq(Results) /\ <<"SEND_SUCC", r>> \in Seq(Results) BY DEF Results
<1>3. Append(<<>>, r) = <<r>> BY <1>1, AppendIsConcat, ConcatEmptySeq
<1>4. Append(<<"SEND_SUCC">>, r) = <<"SEND_SUCC", r>>
  <2>1. PICK s \in Seq(Results) : s = <<"SEND_SUCC">> BY <1>2
  <2>2. PICK t \in Seq(Results) : t = <<"SEND_SUCC", r>> BY <1>2
  <2>3. Len(s) = 1 /\ s[1] = "SEND_SUCC" /\ Len(t) = 2 /\ t[1] = "SEND_SUCC" /\ t[2] = r BY <2>1, <2>2
  <2>4. /\ Append(s, r) \in Seq(Results) /\ Len(Append(s, r)) = 2
        /\ Append(s, r)[1] = "SEND_SUCC" /\ Append(s, r)[2] = r
    <3>1. 1 \in 1 .. Len(s) /\ Len(s) + 1 = 2 BY <2>3
    <3>2. /\ Append(s, r) \in Seq(Results) /\ Len(Append(s, r)) = Len(s) + 1
          /\ \A i \in 1 .. Len(s) : Append(s, r)[i] = s[i]
          /\ Append(s, r)[Len(s) + 1] = r
      BY AppendProperties
    <3> QED BY <2>3, <3>1, <3>2
  <2>5. \A i \in 1 .. 2 : Append(s, r)[i] = t[i] BY <2>3, <2>4
  <2>6. Append(s, r) = t BY <2>3, <2>4, <2>5, SeqEqual
  <2> QED BY <2>1, <2>2, <2>6
<1> QED BY <1>3, <1>4

\* An item comes to its end.
LEMMA ItemGone ==
    ASSUME NEW i \in Items, NEW r \in Results, Append(i.res, r) \in Ends, NEW g,
           g = [i EXCEPT !.stat = "GONE", !.res = Append(@, r)]
    PROVE  g \in Items /\ g.stat = "GONE" /\ g.res \in Ends
<1>1. Append(i.res, r) \in Seq(Results) BY AppendProperties DEF Items
<1> QED BY <1>1 DEF Items

\* An item gets another state, and its callback is told something.
LEMMA ItemSet ==
    ASSUME NEW i \in Items, NEW r \in Results,
           NEW st \in {"NEW", "IN_SENDQ", "SENDING", "SEND_SUCC", "SEND_FAIL", "GONE"}
    PROVE  /\ [i EXCEPT !.stat = st, !.res = Append(@, r)] \in Items
           /\ [i EXCEPT !.stat = st, !.res = Append(@, r)].stat = st
           /\ [i EXCEPT !.stat = st, !.res = Append(@, r)].res = Append(i.res, r)
           /\ [i EXCEPT !.stat = st] \in Items
           /\ [i EXCEPT !.stat = st].stat = st /\ [i EXCEPT !.stat = st].res = i.res
           /\ [i EXCEPT !.res = Append(@, r)] \in Items
           /\ [i EXCEPT !.res = Append(@, r)].stat = i.stat
           /\ [i EXCEPT !.res = Append(@, r)].res = Append(i.res, r)
<1>1. Append(i.res, r) \in Seq(Results) BY AppendProperties DEF Items
<1> QED BY <1>1 DEF Items

LEMMA InBuffer == ASSUME IovTyped PROVE InIov \subseteq Mesgs
BY DEF IovTyped, InIov, Entries, Sys

\* What a thread sends are messages, and no two the same.
LEMMA ToSend ==
    ASSUME AppsTyped, NEW a \in Apps, NEW i \in DOMAIN scene.send[a]
    PROVE  /\ scene.send[a] \in Seq(Mesgs) /\ scene.send[a][i] \in Mesgs
           /\ DOMAIN scene.send[a] = 1 .. Len(scene.send[a]) /\ Len(scene.send[a]) \in Nat
           /\ \A b \in Apps : \A j \in DOMAIN scene.send[b] :
                scene.send[a][i] = scene.send[b][j] => a = b /\ i = j
<1>1. scene.send[a] \in Seq(Mesgs) BY SdkAssumption DEF AppsTyped
<1>2. DOMAIN scene.send[a] = 1 .. Len(scene.send[a]) /\ Len(scene.send[a]) \in Nat BY <1>1, LenProperties
<1>3. scene.send[a][i] \in Mesgs BY <1>1, <1>2, ElementOfSeq
<1>4. \A b \in Apps : \A j \in DOMAIN scene.send[b] :
        scene.send[a][i] = scene.send[b][j] => a = b /\ i = j
  BY SdkAssumption DEF AppsTyped
<1> QED BY <1>1, <1>2, <1>3, <1>4

\* The messages of S come to their end and leave the table, the queue and the buffer.
LEMMA Leave ==
    ASSUME SdkTyped, SdkRight, NEW S, S \subseteq tab,
           \A m \in Mesgs \ S : item'[m] = item[m],
           \A m \in S : item'[m].stat = "GONE" /\ item'[m].res \in Ends,
           tab' = tab \ S, ToSet(sendq') = ToSet(sendq) \ S, QueuedOnce',
           InIov' = InIov \ S, BufferedOnce', UNCHANGED <<scene, app>>
    PROVE  SdkRight'
<1>1. ItemsRight'
  <2> SUFFICES ASSUME NEW m \in Mesgs PROVE ItemRight(m)' BY DEF ItemsRight
  <2>1. ItemRight(m) BY DEF SdkRight, ItemsRight
  <2>2. CASE m \in S BY <2>2 DEF ItemRight
  <2>3. CASE m \notin S
    <3>1. item'[m] = item[m] BY <2>3
    <3> QED BY <2>1, <2>3, <3>1 DEF ItemRight
  <2> QED BY <2>2, <2>3
<1>2. UnsentNew'
  <2> SUFFICES ASSUME NEW a \in Apps, NEW i \in Unsent(a)
               PROVE  item'[scene.send[a][i]].stat = "NEW" /\ item'[scene.send[a][i]].res = <<>>
    BY DEF UnsentNew, Unsent
  <2>1. scene.send[a][i] \in Mesgs BY ToSend DEF Unsent, SdkTyped
  <2>2. item[scene.send[a][i]].stat = "NEW" /\ item[scene.send[a][i]].res = <<>> BY DEF SdkRight, UnsentNew
  <2>3. scene.send[a][i] \notin tab BY <2>1, <2>2 DEF SdkRight, ItemsRight, ItemRight
  <2> QED BY <2>1, <2>2, <2>3
<1> QED BY <1>1, <1>2 DEF SdkRight

\* What is too late and is not being sent.
LEMMA TimedOut ==
    ASSUME ItemsTyped, SdkRight, NEW m \in sdk_send_mgr_trav
    PROVE  /\ m \in tab /\ m \in Mesgs /\ m \notin InIov
           /\ sdk_send_item_clean_timeout_hdl(m) \in Items
           /\ sdk_send_item_clean_timeout_hdl(m).stat = "GONE"
           /\ sdk_send_item_clean_timeout_hdl(m).res \in Ends
<1> DEFINE r == IF item[m].stat = "IN_SENDQ" THEN "SEND_TIMEOUT" ELSE "ACK_TIMEOUT"
<1>1. m \in tab /\ m \in Mesgs /\ item[m].stat # "SENDING" /\ item[m] \in Items
  BY DEF sdk_send_mgr_trav, ItemsTyped
<1>2. ItemRight(m) BY <1>1 DEF SdkRight, ItemsRight
<1>3. r \in Results BY DEF Results
<1>4. sdk_send_item_clean_timeout_hdl(m) = [item[m] EXCEPT !.stat = "GONE", !.res = Append(@, r)]
  BY DEF sdk_send_item_clean_timeout_hdl
<1>5. Append(item[m].res, r) \in Ends
  <2>1. CASE item[m].stat = "IN_SENDQ"
    <3>1. r = "SEND_TIMEOUT" /\ item[m].res = <<>> BY <1>2, <2>1 DEF ItemRight
    <3> QED BY <1>3, <3>1, AppendOnce DEF Ends
  <2>2. CASE item[m].stat = "SEND_SUCC"
    <3>1. r = "ACK_TIMEOUT" /\ item[m].res = <<"SEND_SUCC">> BY <1>2, <2>2 DEF ItemRight
    <3> QED BY <1>3, <3>1, AppendOnce DEF Ends
  <2> QED BY <1>1, <1>2, <2>1, <2>2 DEF ItemRight
<1>6. m \notin InIov BY <1>1, <1>2 DEF ItemRight
<1> HIDE DEF r
<1> QED BY <1>1, <1>3, <1>4, <1>5, <1>6, ItemGone

\* What is in the write buffer when it is emptied.
LEMMA FailedThere ==
    ASSUME ItemsTyped, IovTyped, SdkRight, NEW m \in InIov
    PROVE  /\ m \in tab /\ m \in Mesgs /\ m \notin ToSet(sendq)
           /\ [item[m] EXCEPT !.stat = "GONE", !.res = Append(@, "SEND_FAIL")] \in Items
           /\ [item[m] EXCEPT !.stat = "GONE", !.res = Append(@, "SEND_FAIL")].stat = "GONE"
           /\ [item[m] EXCEPT !.stat = "GONE", !.res = Append(@, "SEND_FAIL")].res \in Ends
<1>1. m \in Mesgs /\ item[m] \in Items BY InBuffer DEF ItemsTyped
<1>2. ItemRight(m) BY <1>1 DEF SdkRight, ItemsRight
<1>3. "SEND_FAIL" \in Results BY DEF Results
<1>4. Append(item[m].res, "SEND_FAIL") \in Ends BY <1>2, <1>3, AppendOnce DEF ItemRight, Ends
<1>5. m \in tab /\ m \notin ToSet(sendq) BY <1>2 DEF ItemRight
<1> QED BY <1>1, <1>3, <1>4, <1>5, ItemGone

LEMMA QueueCleaned ==
    ASSUME ItemsTyped, SdkRight, NEW S, sendq' = sdk_queue_remove(S)
    PROVE  sendq' \in Seq(Mesgs) /\ ToSet(sendq') = ToSet(sendq) \ S /\ QueuedOnce'
<1>1. sendq \in Seq(Mesgs) /\ QueuedOnce BY DEF ItemsTyped, SdkRight
<1>2. sendq' = Without(sendq, S) BY DEF sdk_queue_remove
<1>3. /\ Without(sendq, S) \in Seq(Mesgs) /\ ToSet(Without(sendq, S)) = ToSet(sendq) \ S
      /\ (\A i, j \in DOMAIN sendq : sendq[i] = sendq[j] => i = j) =>
         \A i, j \in DOMAIN Without(sendq, S) : Without(sendq, S)[i] = Without(sendq, S)[j] => i = j
  BY <1>1, WithoutIs
<1> QED BY <1>1, <1>2, <1>3 DEF QueuedOnce

LEMMA BufferEmptied ==
    ASSUME iov' = <<>>, cnt' = 0, ml' \in Seq(Sys)
    PROVE  IovTyped' /\ InIov' = {} /\ BufferedOnce'
<1>1. Len(iov') = 0 /\ 1 .. Len(iov') = {} BY EmptySeq
<1>2. iov' \in Seq(ToSet(iov')) BY EmptySeq
<1>3. cnt' \in 0 .. IovMax /\ Len(iov') <= cnt' BY <1>1, SdkAssumption
<1> QED BY <1>1, <1>2, <1>3 DEF IovTyped, InIov, BufferedOnce

\* The time outs at the end of a round.
LEMMA CleanedHolds ==
    ASSUME SdkTyped, SdkRight, Cleaned, UNCHANGED <<scene, app, seq, iov>>
    PROVE  ItemsTyped' /\ SdkRight'
<1> DEFINE S == sdk_send_mgr_trav
<1>1. \A m \in S : /\ m \in tab /\ m \in Mesgs /\ m \notin InIov
                   /\ sdk_send_item_clean_timeout_hdl(m) \in Items
                   /\ sdk_send_item_clean_timeout_hdl(m).stat = "GONE"
                   /\ sdk_send_item_clean_timeout_hdl(m).res \in Ends
  BY TimedOut DEF SdkTyped
<1>2. sendq' \in Seq(Mesgs) /\ ToSet(sendq') = ToSet(sendq) \ S /\ QueuedOnce'
  BY QueueCleaned DEF Cleaned, SdkTyped
<1>3. \A m \in Mesgs : item'[m] = IF m \notin S THEN item[m] ELSE sdk_send_item_clean_timeout_hdl(m)
  BY DEF Cleaned
<1>4. tab' = tab \ S BY DEF Cleaned
<1>5. ItemsTyped'
  <2>1. \A m \in Mesgs : item'[m] \in Items BY <1>1, <1>3 DEF SdkTyped, ItemsTyped
  <2>2. item' \in [Mesgs -> Items] BY <2>1 DEF Cleaned
  <2> QED BY <1>2, <1>4, <2>2 DEF SdkTyped, ItemsTyped
<1>6. InIov' = InIov \ S
  <2>1. InIov' = InIov BY DEF InIov
  <2> HIDE DEF S
  <2> QED BY <1>1, <2>1
<1>7. BufferedOnce' BY DEF SdkRight, BufferedOnce
<1>8. S \subseteq tab BY <1>1
<1>9. \A m \in Mesgs \ S : item'[m] = item[m] BY <1>3
<1>10. \A m \in S : item'[m].stat = "GONE" /\ item'[m].res \in Ends BY <1>1, <1>3
<1> HIDE DEF S
<1>11. SdkRight' BY <1>2, <1>4, <1>6, <1>7, <1>8, <1>9, <1>10, Leave
<1> QED BY <1>5, <1>11

-----------------------------------------------------------------------------
(* The application threads. *)

LEMMA AsyncHolds ==
    ASSUME SdkTyped, SdkRight, NEW a \in Apps, sdk_async_send(a)
    PROVE  SdkTyped' /\ SdkRight'
<1> USE DEF SdkTyped, appVars, mgrVars, sckVars, srvVars
<1> DEFINE i == app[a].n + 1
           m == scene.send[a][i]
<1>1. app[a].pc = "idle" /\ app[a].n \in Nat /\ app[a].n < Len(scene.send[a])
  BY DEF sdk_async_send, AppsTyped
<1>2. scene.send[a] \in Seq(Mesgs) BY SdkAssumption DEF AppsTyped
<1>3. i \in 1 .. Len(scene.send[a]) /\ i \in DOMAIN scene.send[a] /\ DOMAIN scene.send[a] = 1 .. Len(scene.send[a])
  BY <1>1, <1>2, LenProperties
<1>4. m \in Mesgs BY <1>3, ToSend
<1>5. i \in Unsent(a) BY <1>1, <1>3 DEF Unsent
<1>6. item[m] \in Items /\ item[m].stat = "NEW" /\ item[m].res = <<>>
  BY <1>4, <1>5 DEF ItemsTyped, SdkRight, UnsentNew
<1>7. UNCHANGED <<scene, tab, sendq, cmds, ssvr, conns, fd, online, kp, dn, peer, calls, ml, cnt, iov>>
  BY DEF sdk_async_send
<1>8. LoopTyped' /\ ConnTyped' /\ IovTyped' BY <1>7, ConnSame, IovSame DEF LoopTyped
<1>9. InIov' = InIov /\ BufferedOnce' BY <1>7 DEF InIov, SdkRight, BufferedOnce
<1> HIDE DEF m
<1>10. CASE ~online
  <2>1. app' = [app EXCEPT ![a].n = @ + 1] /\ item' = Told(m, "SEND_FAIL") /\ seq' = seq
    BY <1>10 DEF sdk_async_send, m
  <2>2. AppsTyped' BY <1>1, <1>3, <1>7, <2>1 DEF AppsTyped
  <2>3. "SEND_FAIL" \in Results BY DEF Results
  <2>4. [item[m] EXCEPT !.res = Append(@, "SEND_FAIL")] \in Items
    BY <1>6, <2>3, AppendProperties DEF Items
  <2>5. ItemsTyped' BY <1>4, <1>7, <2>1, <2>4 DEF ItemsTyped, Told
  <2>6. item'[m].stat = "NEW" /\ item'[m].res = <<"SEND_FAIL">>
    BY <1>4, <1>6, <2>1, <2>3, AppendOnce DEF Told, ItemsTyped, Items
  <2>7. \A x \in Mesgs \ {m} : item'[x] = item[x] BY <2>1 DEF Told, ItemsTyped
  <2>8. ItemsRight'
    <3> SUFFICES ASSUME NEW x \in Mesgs PROVE ItemRight(x)' BY DEF ItemsRight
    <3>1. ItemRight(x) BY DEF SdkRight, ItemsRight
    <3>2. CASE x = m BY <1>6, <1>7, <1>9, <2>6, <3>1, <3>2 DEF ItemRight, Ends
    <3>3. CASE x # m
      <4>1. item'[x] = item[x] BY <2>7, <3>3
      <4> QED BY <1>7, <1>9, <3>1, <4>1 DEF ItemRight
    <3> QED BY <3>2, <3>3
  <2>9. UnsentNew'
    <3> SUFFICES ASSUME NEW b \in Apps, NEW j \in Unsent(b)'
                 PROVE  item'[scene.send[b][j]].stat = "NEW" /\ item'[scene.send[b][j]].res = <<>>
      BY <1>7 DEF UnsentNew
    <3>1. j \in DOMAIN scene.send[b] /\ j \in Unsent(b) /\ (b = a => j > i)
      BY <1>1, <1>3, <1>7, <2>1 DEF Unsent, AppsTyped
    <3>2. scene.send[b][j] \in Mesgs /\ (scene.send[b][j] = m => b = a /\ j = i)
      BY <1>3, <3>1, ToSend DEF m
    <3>3. scene.send[b][j] # m BY <1>3, <3>1, <3>2
    <3> QED BY <2>7, <3>1, <3>2, <3>3 DEF SdkRight, UnsentNew
  <2> QED BY <1>7, <1>8, <1>9, <2>2, <2>5, <2>8, <2>9 DEF SdkRight, QueuedOnce
<1>11. CASE online
  <2>1. /\ seq' = seq + 1 /\ item' = item
        /\ app' = [app EXCEPT ![a] = [pc |-> "put", n |-> @.n + 1, seq |-> seq + 1]]
    BY <1>11 DEF sdk_async_send
  <2>2. AppsTyped' BY <1>1, <1>3, <1>7, <2>1 DEF AppsTyped, ItemsTyped
  <2>3. ItemsTyped' BY <1>7, <2>1 DEF ItemsTyped
  <2>4. \A b \in Apps : Unsent(b)' \subseteq Unsent(b) BY <1>1, <1>3, <1>7, <2>1 DEF Unsent, AppsTyped
  <2>5. SdkRight' BY <1>7, <1>9, <2>1, <2>4, SentMore
  <2> QED BY <1>8, <2>2, <2>3, <2>5
<1> QED BY <1>10, <1>11

LEMMA InsertHolds ==
    ASSUME SdkTyped, SdkRight, NEW a \in Apps, sdk_send_mgr_insert(a)
    PROVE  SdkTyped' /\ SdkRight'
<1> USE DEF SdkTyped, appVars, mgrVars, sckVars, srvVars
<1> DEFINE i == app[a].n
           m == scene.send[a][i]
<1>1. app[a].pc = "put" /\ app[a].n \in Nat /\ app[a].n > 0 /\ app[a].n <= Len(scene.send[a]) /\ app[a].seq \in Nat
  BY DEF sdk_send_mgr_insert, AppsTyped
<1>2. scene.send[a] \in Seq(Mesgs) BY SdkAssumption DEF AppsTyped
<1>3. i \in DOMAIN scene.send[a] BY <1>1, <1>2, LenProperties
<1>4. m \in Mesgs /\ m = Mesg(a) BY <1>3, ToSend DEF Mesg
<1>5. i \in Unsent(a) BY <1>1, <1>3 DEF Unsent
<1>6. item[m] \in Items /\ item[m].stat = "NEW" /\ item[m].res = <<>>
  BY <1>4, <1>5 DEF ItemsTyped, SdkRight, UnsentNew
<1>7. UNCHANGED <<scene, seq, cmds, ssvr, conns, fd, online, kp, dn, peer, calls, ml, cnt, iov>>
  BY DEF sdk_send_mgr_insert
<1>8. LoopTyped' /\ ConnTyped' /\ IovTyped' BY <1>7, ConnSame, IovSame DEF LoopTyped
<1>9. InIov' = InIov /\ BufferedOnce' BY <1>7 DEF InIov, SdkRight, BufferedOnce
<1>10. m \notin tab /\ m \notin ToSet(sendq) /\ m \notin InIov
  BY <1>4, <1>6 DEF SdkRight, ItemsRight, ItemRight
<1> HIDE DEF m
<1>11. ASSUME NEW p \in {"idle", "notify"}, app' = [app EXCEPT ![a].pc = p],
              \A x \in Mesgs \ {m} : item'[x] = item[x]
       PROVE  AppsTyped' /\ UnsentNew'
  <2>1. AppsTyped' BY <1>7, <1>11 DEF AppsTyped
  <2> SUFFICES ASSUME NEW b \in Apps, NEW j \in Unsent(b)'
               PROVE  item'[scene.send[b][j]].stat = "NEW" /\ item'[scene.send[b][j]].res = <<>>
    BY <1>7, <2>1 DEF UnsentNew
  <2>2. j \in DOMAIN scene.send[b] /\ j \in Unsent(b) /\ (b = a => j # i)
    BY <1>1, <1>7, <1>11 DEF Unsent, AppsTyped
  <2>3. scene.send[b][j] \in Mesgs /\ (scene.send[b][j] = m => b = a /\ j = i)
    BY <1>3, <2>2, ToSend DEF m
  <2> QED BY <1>11, <2>2, <2>3 DEF SdkRight, UnsentNew
<1>12. CASE \E x \in tab : item[x].seq = app[a].seq
  <2>1. app' = [app EXCEPT ![a].pc = "idle"] /\ item' = Told(m, "SEND_FAIL") /\ UNCHANGED <<tab, sendq>>
    BY <1>4, <1>12 DEF sdk_send_mgr_insert
  <2>2. "SEND_FAIL" \in Results BY DEF Results
  <2>3. [item[m] EXCEPT !.res = Append(@, "SEND_FAIL")] \in Items
    BY <1>6, <2>2, AppendProperties DEF Items
  <2>4. ItemsTyped' BY <1>4, <1>7, <2>1, <2>3 DEF ItemsTyped, Told
  <2>5. item'[m].stat = "NEW" /\ item'[m].res = <<"SEND_FAIL">>
    BY <1>4, <1>6, <2>1, <2>2, AppendOnce DEF Told, ItemsTyped, Items
  <2>6. \A x \in Mesgs \ {m} : item'[x] = item[x] BY <2>1 DEF Told, ItemsTyped
  <2>7. ItemsRight'
    <3> SUFFICES ASSUME NEW x \in Mesgs PROVE ItemRight(x)' BY DEF ItemsRight
    <3>1. ItemRight(x) BY DEF SdkRight, ItemsRight
    <3>2. CASE x = m BY <1>6, <1>9, <2>1, <2>5, <3>1, <3>2 DEF ItemRight, Ends
    <3>3. CASE x # m
      <4>1. item'[x] = item[x] BY <2>6, <3>3
      <4> QED BY <1>9, <2>1, <3>1, <4>1 DEF ItemRight
    <3> QED BY <3>2, <3>3
  <2> QED BY <1>8, <1>9, <1>11, <2>1, <2>4, <2>6, <2>7 DEF SdkRight, QueuedOnce
<1>13. CASE ~ \E x \in tab : item[x].seq = app[a].seq
  <2>1. /\ item' = [item EXCEPT ![m] = [@ EXCEPT !.stat = "IN_SENDQ", !.seq = app[a].seq]]
        /\ tab' = tab \cup {m} /\ sendq' = <<m>> \o sendq
        /\ app' = [app EXCEPT ![a].pc = "notify"]
    BY <1>4, <1>13 DEF sdk_send_mgr_insert, sdk_queue_rpush
  <2>2. <<m>> \in Seq(Mesgs) /\ Len(<<m>>) = 1 /\ <<m>>[1] = m /\ sendq \in Seq(Mesgs)
    BY <1>4 DEF ItemsTyped
  <2>3. /\ sendq' \in Seq(Mesgs) /\ Len(sendq') = Len(sendq) + 1
        /\ \A k \in 1 .. Len(sendq) + 1 : sendq'[k] = IF k <= 1 THEN m ELSE sendq[k - 1]
    <3>1. PICK o \in Seq(Mesgs) : o = <<m>> BY <2>2
    <3>2. /\ o \o sendq \in Seq(Mesgs) /\ Len(o \o sendq) = Len(o) + Len(sendq)
          /\ \A k \in 1 .. Len(o) + Len(sendq) : (o \o sendq)[k] = IF k <= Len(o) THEN o[k] ELSE sendq[k - Len(o)]
      BY <2>2, ConcatProperties
    <3>3. Len(o) = 1 /\ o[1] = m /\ sendq' = o \o sendq /\ Len(sendq) \in Nat BY <2>1, <2>2, <3>1, LenProperties
    <3> QED BY <3>2, <3>3
  <2>4. DOMAIN sendq' = 1 .. Len(sendq) + 1 /\ DOMAIN sendq = 1 .. Len(sendq) /\ Len(sendq) \in Nat
    BY <2>2, <2>3, LenProperties
  <2>5. ToSet(sendq') = ToSet(sendq) \cup {m}
    <3>1. ASSUME NEW x \in ToSet(sendq') PROVE x \in ToSet(sendq) \cup {m}
      <4>1. PICK k \in 1 .. Len(sendq) + 1 : sendq'[k] = x BY <2>4 DEF ToSet
      <4>2. CASE k <= 1 BY <2>3, <4>1, <4>2
      <4>3. CASE ~ (k <= 1)
        <5>1. k - 1 \in DOMAIN sendq /\ sendq[k - 1] = x BY <2>3, <2>4, <4>1, <4>3
        <5> QED BY <5>1 DEF ToSet
      <4> QED BY <4>2, <4>3
    <3>2. ASSUME NEW x \in ToSet(sendq) PROVE x \in ToSet(sendq')
      <4>1. PICK k \in 1 .. Len(sendq) : sendq[k] = x BY <2>4 DEF ToSet
      <4>2. k + 1 \in DOMAIN sendq' /\ sendq'[k + 1] = x BY <2>3, <2>4, <4>1
      <4> QED BY <4>2 DEF ToSet
    <3>3. m \in ToSet(sendq')
      <4>1. 1 \in DOMAIN sendq' /\ sendq'[1] = m BY <2>3, <2>4
      <4> QED BY <4>1 DEF ToSet
    <3> QED BY <3>1, <3>2, <3>3
  <2>6. QueuedOnce'
    <3> SUFFICES ASSUME NEW k \in DOMAIN sendq', NEW l \in DOMAIN sendq', sendq'[k] = sendq'[l] PROVE k = l
      BY DEF QueuedOnce
    <3>1. k \in 1 .. Len(sendq) + 1 /\ l \in 1 .. Len(sendq) + 1 BY <2>4
    <3>2. \A j \in 1 .. Len(sendq) : sendq[j] # m BY <1>10, <2>4 DEF ToSet
    <3>3. CASE k <= 1 /\ l <= 1 BY <3>1, <3>3
    <3>4. CASE k > 1 /\ l > 1
      <4>1. k - 1 \in DOMAIN sendq /\ l - 1 \in DOMAIN sendq /\ sendq[k - 1] = sendq[l - 1]
        BY <2>3, <2>4, <3>1, <3>4
      <4>2. k - 1 = l - 1 BY <4>1 DEF SdkRight, QueuedOnce
      <4> QED BY <3>1, <4>2
    <3>5. CASE k <= 1 /\ l > 1
      <4>1. sendq'[k] = m /\ l - 1 \in 1 .. Len(sendq) /\ sendq'[l] = sendq[l - 1] BY <2>3, <2>4, <3>1, <3>5
      <4> QED BY <3>2, <4>1
    <3>6. CASE k > 1 /\ l <= 1
      <4>1. sendq'[l] = m /\ k - 1 \in 1 .. Len(sendq) /\ sendq'[k] = sendq[k - 1] BY <2>3, <2>4, <3>1, <3>6
      <4> QED BY <3>2, <4>1
    <3> QED BY <3>1, <3>3, <3>4, <3>5, <3>6
  <2>7. [item[m] EXCEPT !.stat = "IN_SENDQ", !.seq = app[a].seq] \in Items BY <1>1, <1>6 DEF Items
  <2>8. ItemsTyped' BY <1>4, <1>7, <2>1, <2>3, <2>7 DEF ItemsTyped
  <2>9. item'[m].stat = "IN_SENDQ" /\ item'[m].res = <<>> BY <1>4, <1>6, <2>1 DEF ItemsTyped, Items
  <2>10. \A x \in Mesgs \ {m} : item'[x] = item[x] BY <2>1 DEF ItemsTyped
  <2>11. ItemsRight'
    <3> SUFFICES ASSUME NEW x \in Mesgs PROVE ItemRight(x)' BY DEF ItemsRight
    <3>1. ItemRight(x) BY DEF SdkRight, ItemsRight
    <3>2. CASE x = m BY <1>9, <1>10, <2>1, <2>5, <2>9, <3>2 DEF ItemRight, Ends
    <3>3. CASE x # m
      <4>1. item'[x] = item[x] BY <2>10, <3>3
      <4> QED BY <1>9, <2>1, <2>5, <3>1, <3>3, <4>1 DEF ItemRight
    <3> QED BY <3>2, <3>3
  <2> QED BY <1>8, <1>9, <1>11, <2>1, <2>6, <2>8, <2>10, <2>11 DEF SdkRight
<1> QED BY <1>12, <1>13

LEMMA NotifyHolds ==
    ASSUME SdkTyped, SdkRight, NEW a \in Apps, sdk_cli_cmd_send_req(a) \/ spin_unlock(a)
    PROVE  SdkTyped' /\ SdkRight'
<1> USE DEF SdkTyped, mgrVars, sckVars, srvVars
<1>1. /\ UNCHANGED <<scene, item, tab, seq, sendq, ssvr, conns, fd, online, kp, dn, peer, calls, ml, cnt, iov>>
      /\ cmds' = cmds \/ unix_udp_send("SEND_ALL")
      /\ \E p \in {"idle", "unlock"} : app' = [app EXCEPT ![a].pc = p]
      /\ app[a].pc # "put"
  BY DEF sdk_cli_cmd_send_req, spin_unlock
<1>2. "SEND_ALL" \in Commands BY DEF Commands
<1>3. LoopTyped'
  <2>1. CASE cmds' = cmds BY <1>1, <2>1 DEF LoopTyped
  <2>2. CASE unix_udp_send("SEND_ALL") BY <1>1, <1>2, <2>2, CmdTyped
  <2> QED BY <1>1, <2>1, <2>2
<1>4. ItemsTyped' /\ ConnTyped' /\ IovTyped' BY <1>1, ItemsSame, ConnSame, IovSame
<1>5. AppsTyped' BY <1>1 DEF AppsTyped
<1>6. \A b \in Apps : Unsent(b)' \subseteq Unsent(b) BY <1>1 DEF Unsent, AppsTyped
<1>7. InIov' = InIov /\ BufferedOnce' BY <1>1 DEF InIov, SdkRight, BufferedOnce
<1>8. SdkRight' BY <1>1, <1>6, <1>7, SentMore
<1> QED BY <1>3, <1>4, <1>5, <1>8

LEMMA TtlHolds == ASSUME SdkTyped, SdkRight, NEW m \in Mesgs, TickTtl(m) PROVE SdkTyped' /\ SdkRight'
<1> USE DEF SdkTyped, appVars, sckVars, srvVars
<1>1. /\ item' = [item EXCEPT ![m].due = TRUE]
      /\ UNCHANGED <<scene, app, tab, seq, sendq, cmds, ssvr, conns, fd, online, kp, dn, peer, calls, ml, cnt, iov>>
  BY DEF TickTtl
<1>2. ItemsTyped' BY <1>1 DEF ItemsTyped, Items
<1>3. LoopTyped' BY <1>1 DEF LoopTyped
<1>4. \A x \in Mesgs : item'[x].stat = item[x].stat /\ item'[x].res = item[x].res
  BY <1>1 DEF ItemsTyped, Items
<1>5. InIov' = InIov /\ BufferedOnce' BY <1>1 DEF InIov, SdkRight, BufferedOnce
<1>6. ItemsRight'
  <2> SUFFICES ASSUME NEW x \in Mesgs PROVE ItemRight(x)' BY DEF ItemsRight
  <2>1. ItemRight(x) BY DEF SdkRight, ItemsRight
  <2> QED BY <1>1, <1>4, <1>5, <2>1 DEF ItemRight
<1>7. UnsentNew'
  <2> SUFFICES ASSUME NEW b \in Apps, NEW j \in Unsent(b)
               PROVE  item'[scene.send[b][j]].stat = "NEW" /\ item'[scene.send[b][j]].res = <<>>
    BY <1>1 DEF UnsentNew, Unsent
  <2>1. scene.send[b][j] \in Mesgs BY ToSend DEF Unsent
  <2> QED BY <1>4, <2>1 DEF SdkRight, UnsentNew
<1> QED BY <1>1, <1>2, <1>3, <1>5, <1>6, <1>7, AppsSame, ConnSame, IovSame DEF SdkRight, QueuedOnce

-----------------------------------------------------------------------------
(* The end of a round, and what closes a connection. *)

LEMMA TimeoutHolds == ASSUME SdkTyped, SdkRight, sdk_ssvr_timeout_hdl PROVE SdkTyped' /\ SdkRight'
<1>1. UNCHANGED <<scene, app, seq, cmds, conns, fd, online, kp, dn, peer, calls, ml, cnt, iov>>
  BY DEF sdk_ssvr_timeout_hdl, appVars, sckVars, srvVars
<1>2. ItemsTyped' /\ SdkRight' BY <1>1, CleanedHolds DEF sdk_ssvr_timeout_hdl
<1>3. LoopTyped' BY <1>1, RoundTyped DEF sdk_ssvr_timeout_hdl, SdkTyped
<1> QED BY <1>1, <1>2, <1>3, AppsSame, ConnSame, IovSame DEF SdkTyped

LEMMA PingReqHolds == ASSUME SdkTyped, SdkRight, sdk_mesg_send_ping_req PROVE SdkTyped' /\ SdkRight'
<1>1. UNCHANGED <<scene, app, seq, cmds, conns, online, calls>>
  BY DEF sdk_mesg_send_ping_req, appVars
<1>2. LoopTyped' BY <1>1, RoundTyped DEF sdk_mesg_send_ping_req, SdkTyped
<1>3. AppsTyped' BY <1>1, AppsSame DEF SdkTyped
<1>4. CASE ~ (kp > 3)
  <2>1. Cleaned /\ ml' = Append(ml, "PING") /\ kp' = kp + 1 /\ UNCHANGED <<fd, dn, peer, iov, cnt>>
    BY <1>4 DEF sdk_mesg_send_ping_req
  <2>2. ItemsTyped' /\ SdkRight' BY <1>1, <2>1, CleanedHolds
  <2>3. ml' \in Seq(Sys)
    <3>1. "PING" \in Sys /\ ml \in Seq(Sys) BY DEF Sys, SdkTyped, IovTyped
    <3> QED BY <2>1, <3>1, AppendProperties
  <2>4. IovTyped' BY <2>1, <2>3 DEF SdkTyped, IovTyped
  <2>5. ConnTyped' BY <1>1, <1>4, <2>1 DEF SdkTyped, ConnTyped
  <2> QED BY <1>2, <1>3, <2>2, <2>4, <2>5 DEF SdkTyped
<1>5. CASE kp > 3
  <2> DEFINE S == sdk_send_mgr_trav \cup InIov
  <2>1. /\ Closed /\ iov' = <<>> /\ cnt' = 0 /\ tab' = tab \ S /\ UNCHANGED <<ml, kp>>
        /\ sendq' = sdk_queue_remove(sdk_send_mgr_trav)
        /\ item' = [m \in Mesgs |->
             IF m \in sdk_send_mgr_trav THEN sdk_send_item_clean_timeout_hdl(m)
             ELSE IF m \in InIov THEN [item[m] EXCEPT !.stat = "GONE", !.res = Append(@, "SEND_FAIL")]
             ELSE item[m]]
    BY <1>5 DEF sdk_mesg_send_ping_req
  <2>2. \A m \in sdk_send_mgr_trav :
          /\ m \in tab /\ m \in Mesgs /\ sdk_send_item_clean_timeout_hdl(m) \in Items
          /\ sdk_send_item_clean_timeout_hdl(m).stat = "GONE"
          /\ sdk_send_item_clean_timeout_hdl(m).res \in Ends
    BY TimedOut DEF SdkTyped
  <2>3. \A m \in InIov :
          /\ m \in tab /\ m \in Mesgs /\ m \notin ToSet(sendq)
          /\ [item[m] EXCEPT !.stat = "GONE", !.res = Append(@, "SEND_FAIL")] \in Items
          /\ [item[m] EXCEPT !.stat = "GONE", !.res = Append(@, "SEND_FAIL")].stat = "GONE"
          /\ [item[m] EXCEPT !.stat = "GONE", !.res = Append(@, "SEND_FAIL")].res \in Ends
    BY FailedThere DEF SdkTyped
  <2>4. sendq' \in Seq(Mesgs) /\ ToSet(sendq') = ToSet(sendq) \ sdk_send_mgr_trav /\ QueuedOnce'
    BY <2>1, QueueCleaned DEF SdkTyped
  <2>5. ToSet(sendq') = ToSet(sendq) \ S BY <2>3, <2>4
  <2>6. IovTyped' /\ InIov' = {} /\ BufferedOnce'
    BY <2>1, BufferEmptied DEF SdkTyped, IovTyped
  <2>7. \A m \in Mesgs : item'[m] =
             IF m \in sdk_send_mgr_trav THEN sdk_send_item_clean_timeout_hdl(m)
             ELSE IF m \in InIov THEN [item[m] EXCEPT !.stat = "GONE", !.res = Append(@, "SEND_FAIL")]
             ELSE item[m]
    BY <2>1
  <2>8. \A m \in Mesgs : item'[m] \in Items BY <2>2, <2>3, <2>7 DEF SdkTyped, ItemsTyped
  <2>9. item' \in [Mesgs -> Items]
    <3>1. DOMAIN item' = Mesgs /\ item' = [m \in Mesgs |-> item'[m]] BY <2>1
    <3> QED BY <2>8, <3>1
  <2>10. ItemsTyped' BY <1>1, <2>1, <2>4, <2>9 DEF SdkTyped, ItemsTyped
  <2>11. \A m \in Mesgs \ S : item'[m] = item[m] BY <2>7
  <2>12. \A m \in S : item'[m].stat = "GONE" /\ item'[m].res \in Ends BY <2>2, <2>3, <2>7
  <2>13. S \subseteq tab /\ InIov' = InIov \ S BY <2>2, <2>3, <2>6
  <2>14. ConnTyped' BY <1>1, <2>1, ClosedTyped DEF SdkTyped, ConnTyped
  <2> HIDE DEF S
  <2>15. SdkRight' BY <1>1, <2>1, <2>4, <2>5, <2>6, <2>11, <2>12, <2>13, Leave
  <2> QED BY <1>2, <1>3, <2>6, <2>10, <2>14, <2>15 DEF SdkTyped
<1> QED BY <1>4, <1>5

LEMMA ReconnFailHolds == ASSUME SdkTyped, SdkRight, sdk_ssvr_reconn_fail PROVE SdkTyped' /\ SdkRight'
<1>1. /\ UNCHANGED <<scene, app, seq, cmds, conns, fd, dn, peer, calls, cnt, iov>>
      /\ online' = FALSE /\ kp' = 0 /\ (ml' = ml \/ ml' = <<>>)
  BY DEF sdk_ssvr_reconn_fail, appVars, srvVars, sdk_ssvr_clear_mesg
<1>2. ItemsTyped' /\ SdkRight' BY <1>1, CleanedHolds DEF sdk_ssvr_reconn_fail
<1>3. LoopTyped' BY <1>1, RoundTyped DEF sdk_ssvr_reconn_fail, SdkTyped
<1>4. ml' \in Seq(Sys) BY <1>1, EmptySeq DEF SdkTyped, IovTyped
<1>5. IovTyped' BY <1>1, <1>4 DEF SdkTyped, IovTyped
<1>6. ConnTyped'
  <2>1. online' = FALSE /\ kp' = 0 BY <1>1
  <2>2. UNCHANGED <<scene, conns, fd, dn, peer, calls>> BY <1>1
  <2>3. kp' \in 0 .. 4 BY <2>1
  <2>4. online' \in BOOLEAN BY <2>1
  <2> QED BY <2>2, <2>3, <2>4 DEF SdkTyped, ConnTyped
<1> QED BY <1>1, <1>2, <1>3, <1>5, <1>6, AppsSame DEF SdkTyped

LEMMA ReconnHolds == ASSUME SdkTyped, SdkRight, sdk_ssvr_reconn PROVE SdkTyped' /\ SdkRight'
<1>1. /\ UNCHANGED <<scene, app, seq, cmds, dn, calls, cnt, iov>>
      /\ online' = TRUE /\ kp' = 0 /\ ml' = Append(<<>>, "ONLINE") /\ conns < scene.conns
      /\ conns' = conns + 1 /\ fd' = conns + 1 /\ peer' = peer \cup {conns + 1}
  BY DEF sdk_ssvr_reconn, appVars, sdk_ssvr_conn_after_hdl, sdk_mesg_send_online_req, sdk_ssvr_clear_mesg
<1>2. ItemsTyped' /\ SdkRight' BY <1>1, CleanedHolds DEF sdk_ssvr_reconn
<1>3. LoopTyped' BY <1>1, RoundTyped DEF sdk_ssvr_reconn, SdkTyped
<1>4. ml' \in Seq(Sys)
  <2>1. "ONLINE" \in Sys /\ <<>> \in Seq(Sys) BY EmptySeq DEF Sys
  <2> QED BY <1>1, <2>1, AppendProperties
<1>5. IovTyped' BY <1>1, <1>4 DEF SdkTyped, IovTyped
<1>6. ConnTyped'
  <2>1. scene.conns \in Nat BY SdkAssumption DEF SdkTyped, AppsTyped
  <2> QED BY <1>1, <2>1 DEF SdkTyped, ConnTyped
<1> QED BY <1>1, <1>2, <1>3, <1>5, <1>6, AppsSame DEF SdkTyped

\* What the write buffer held is reported as failed.
LEMMA FlushedHolds ==
    ASSUME SdkTyped, SdkRight, wiov_clean, UNCHANGED <<scene, app, seq, sendq, ml>>
    PROVE  ItemsTyped' /\ IovTyped' /\ SdkRight'
<1>1. \A m \in InIov :
        /\ m \in tab /\ m \in Mesgs /\ m \notin ToSet(sendq)
        /\ [item[m] EXCEPT !.stat = "GONE", !.res = Append(@, "SEND_FAIL")] \in Items
        /\ [item[m] EXCEPT !.stat = "GONE", !.res = Append(@, "SEND_FAIL")].stat = "GONE"
        /\ [item[m] EXCEPT !.stat = "GONE", !.res = Append(@, "SEND_FAIL")].res \in Ends
  BY FailedThere DEF SdkTyped
<1>2. /\ item' = [m \in Mesgs |-> IF m \in InIov
            THEN [item[m] EXCEPT !.stat = "GONE", !.res = Append(@, "SEND_FAIL")] ELSE item[m]]
      /\ tab' = tab \ InIov /\ iov' = <<>> /\ cnt' = 0
  BY DEF wiov_clean, sdk_send_fail_hdl, sdk_send_mgr_delete
<1>3. IovTyped' /\ InIov' = {} /\ BufferedOnce' BY <1>2, BufferEmptied DEF SdkTyped, IovTyped
<1>4. \A m \in Mesgs : item'[m] = IF m \in InIov
            THEN [item[m] EXCEPT !.stat = "GONE", !.res = Append(@, "SEND_FAIL")] ELSE item[m]
  BY <1>2
<1>5. \A m \in Mesgs : item'[m] \in Items BY <1>1, <1>4 DEF SdkTyped, ItemsTyped
<1>6. item' \in [Mesgs -> Items]
  <2>1. DOMAIN item' = Mesgs /\ item' = [m \in Mesgs |-> item'[m]] BY <1>2
  <2> QED BY <1>5, <2>1
<1>7. ItemsTyped' BY <1>2, <1>6 DEF SdkTyped, ItemsTyped
<1>8. \A m \in Mesgs \ InIov : item'[m] = item[m] BY <1>4
<1>9. \A m \in InIov : item'[m].stat = "GONE" /\ item'[m].res \in Ends BY <1>1, <1>4
<1>10. QueuedOnce' /\ ToSet(sendq') = ToSet(sendq) \ InIov BY <1>1 DEF SdkRight, QueuedOnce
<1>11. InIov \subseteq tab /\ InIov' = InIov \ InIov BY <1>1, <1>3
<1>12. SdkRight'
  <2>1. PICK S : S = InIov OBVIOUS
  <2>2. /\ S \subseteq tab /\ InIov' = InIov \ S /\ tab' = tab \ S /\ ToSet(sendq') = ToSet(sendq) \ S
        /\ \A m \in Mesgs \ S : item'[m] = item[m]
        /\ \A m \in S : item'[m].stat = "GONE" /\ item'[m].res \in Ends
    BY <1>2, <1>8, <1>9, <1>10, <1>11, <2>1
  <2> QED BY <1>3, <1>10, <2>2, Leave
<1> QED BY <1>3, <1>7, <1>12

LEMMA LostHolds ==
    ASSUME SdkTyped, SdkRight, sdk_ssvr_writev_fail \/ sdk_ssvr_proc_network
    PROVE  SdkTyped' /\ SdkRight'
<1>1. /\ UNCHANGED <<scene, app, seq, sendq, conns, kp, calls, ml>>
      /\ Closed /\ wiov_clean /\ online' = FALSE
  BY DEF sdk_ssvr_writev_fail, sdk_ssvr_proc_network, appVars
<1>2. ItemsTyped' /\ IovTyped' /\ SdkRight' BY <1>1, FlushedHolds
<1>3. ConnTyped' BY <1>1, ClosedTyped DEF SdkTyped
<1>4. LoopTyped'
  <2>1. CASE sdk_ssvr_writev_fail BY <2>1 DEF sdk_ssvr_writev_fail, NextEvent, SdkTyped, LoopTyped
  <2>2. CASE sdk_ssvr_proc_network BY <2>2, HandledTyped DEF sdk_ssvr_proc_network, SdkTyped
  <2> QED BY <2>1, <2>2
<1> QED BY <1>1, <1>2, <1>3, <1>4, AppsSame DEF SdkTyped

\* An acknowledgement: the message it is for was sent, unless freed memory is used.
LEMMA AckHolds ==
    ASSUME SdkTyped, SdkRight, sdk_ack_succ_hdl
    PROVE  SdkTyped' /\ (wild' \/ SdkRight')
<1> DEFINE S == sdk_send_mgr_query(X.v)
<1>1. /\ UNCHANGED <<scene, app, seq, sendq, cmds, ssvr, conns, fd, online, kp, peer, calls, ml, cnt, iov>>
      /\ dn' = Tail(dn) /\ Whole /\ tab' = tab \ S
      /\ item' = [m \in Mesgs |-> IF m \in S
            THEN [item[m] EXCEPT !.stat = "GONE", !.res = Append(@, "ACK_SUCC")] ELSE item[m]]
  BY DEF sdk_ack_succ_hdl, recvUnch, Read, appVars, sdk_send_mgr_delete
<1>2. S \subseteq tab /\ S \subseteq Mesgs BY DEF sdk_send_mgr_query, SdkTyped, ItemsTyped
<1>3. "ACK_SUCC" \in Results BY DEF Results
<1>4. \A m \in Mesgs : item'[m] = IF m \in S
            THEN [item[m] EXCEPT !.stat = "GONE", !.res = Append(@, "ACK_SUCC")] ELSE item[m]
  BY <1>1
<1>5. \A m \in Mesgs : /\ item[m] \in Items
                       /\ [item[m] EXCEPT !.stat = "GONE", !.res = Append(@, "ACK_SUCC")] \in Items
  <2> TAKE m \in Mesgs
  <2>1. item[m] \in Items BY DEF SdkTyped, ItemsTyped
  <2> QED BY <1>3, <2>1, AppendProperties DEF Items
<1>6. item' \in [Mesgs -> Items]
  <2>1. DOMAIN item' = Mesgs /\ item' = [m \in Mesgs |-> item'[m]] BY <1>1
  <2>2. \A m \in Mesgs : item'[m] \in Items BY <1>4, <1>5
  <2> QED BY <2>1, <2>2
<1>7. ItemsTyped' BY <1>1, <1>6 DEF SdkTyped, ItemsTyped
<1>8. ConnTyped'
  <2>1. Tail(dn) \in Seq(Answers) BY <1>1, ReadTyped DEF SdkTyped
  <2> QED BY <1>1, <2>1 DEF SdkTyped, ConnTyped
<1>9. LoopTyped' BY <1>1 DEF SdkTyped, LoopTyped
<1>10. ASSUME ~ wild' PROVE SdkRight'
  <2>1. \A m \in S : item[m].stat = "SEND_SUCC" BY <1>10 DEF sdk_ack_succ_hdl
  <2>2. \A m \in S : m \notin ToSet(sendq) /\ m \notin InIov /\ item[m].res = <<"SEND_SUCC">>
    BY <1>2, <2>1 DEF SdkRight, ItemsRight, ItemRight
  <2>3. \A m \in S : item'[m].stat = "GONE" /\ item'[m].res \in Ends
    <3> TAKE m \in S
    <3>1. Append(item[m].res, "ACK_SUCC") \in Ends BY <1>3, <2>2, AppendOnce DEF Ends
    <3>2. item'[m] = [item[m] EXCEPT !.stat = "GONE", !.res = Append(@, "ACK_SUCC")] BY <1>2, <1>4
    <3>3. item[m] \in Items BY <1>2, <1>5
    <3> HIDE DEF S
    <3> QED BY <1>3, <3>1, <3>2, <3>3, ItemGone
  <2>4. \A m \in Mesgs \ S : item'[m] = item[m] BY <1>4
  <2> HIDE DEF S
  <2>5. ToSet(sendq') = ToSet(sendq) \ S BY <1>1, <2>2
  <2>6. InIov' = InIov /\ InIov' = InIov \ S BY <1>1, <2>2 DEF InIov
  <2>7. QueuedOnce' /\ BufferedOnce' BY <1>1 DEF SdkRight, QueuedOnce, BufferedOnce
  <2> QED BY <1>1, <1>2, <2>3, <2>4, <2>5, <2>6, <2>7, Leave
<1> QED BY <1>1, <1>7, <1>8, <1>9, <1>10, AppsSame, IovSame DEF SdkTyped

-----------------------------------------------------------------------------
(* The write buffer. *)

LEMMA OwnSeq == ASSUME NEW D, NEW q \in Seq(D) PROVE q \in Seq(ToSet(q))
<1>1. Len(q) \in Nat /\ DOMAIN q = 1 .. Len(q) /\ q \in [1 .. Len(q) -> D] BY LenProperties
<1>2. \A i \in 1 .. Len(q) : q[i] \in ToSet(q) BY <1>1 DEF ToSet
<1>3. q \in [1 .. Len(q) -> ToSet(q)] BY <1>1, <1>2
<1> QED BY <1>1, <1>3, SeqDef

\* Entries for the elements of q go behind what the buffer holds.
LEMMA BufferGrows ==
    ASSUME IovTyped, BufferedOnce, NEW q \in Seq(Entries), NEW L,
           iov' = iov \o [i \in 1 .. Len(q) |-> [m |-> q[i], left |-> L]],
           cnt' = cnt + Len(q), cnt + Len(q) <= IovMax, ml' \in Seq(Sys),
           \A i, j \in 1 .. Len(q) : q[i] = q[j] /\ q[i] \in Mesgs => i = j,
           \A i \in 1 .. Len(q) : q[i] \notin InIov
    PROVE  IovTyped' /\ InIov' = InIov \cup (ToSet(q) \ Sys) /\ BufferedOnce'
<1> DEFINE t == [i \in 1 .. Len(q) |-> [m |-> q[i], left |-> L]]
           D == ToSet(iov) \cup ToSet(t)
           n == Len(iov)
           l == Len(q)
<1>1. /\ l \in Nat /\ DOMAIN q = 1 .. l /\ \A i \in 1 .. l : q[i] \in Entries
      /\ n \in Nat /\ DOMAIN iov = 1 .. n
  BY LenProperties DEF IovTyped
<1>2. iov \in Seq(D)
  <2>1. ToSet(iov) \subseteq D OBVIOUS
  <2> HIDE DEF D
  <2> QED BY <2>1, SeqMonotonic DEF IovTyped
<1>3. t \in Seq(D) /\ Len(t) = l /\ \A i \in 1 .. l : t[i] = [m |-> q[i], left |-> L]
  <2>1. DOMAIN t = 1 .. l /\ \A i \in 1 .. l : t[i] = [m |-> q[i], left |-> L] BY <1>1
  <2>2. \A i \in 1 .. l : t[i] \in D BY <2>1 DEF ToSet
  <2>3. t = [i \in 1 .. l |-> t[i]] BY <2>1
  <2> HIDE DEF t, D
  <2>4. t \in [1 .. l -> D] BY <2>2, <2>3
  <2>5. t \in Seq(D) BY <1>1, <2>4, SeqDef
  <2>6. Len(t) = l BY <1>1, <2>1, <2>5, LenProperties
  <2> QED BY <2>1, <2>5, <2>6
<1>4. /\ iov' \in Seq(D) /\ Len(iov') = n + l
      /\ \A k \in 1 .. n + l : iov'[k] = IF k <= n THEN iov[k] ELSE t[k - n]
  <2>1. iov' = iov \o t OBVIOUS
  <2> HIDE DEF t, D
  <2> QED BY <1>2, <1>3, <2>1, ConcatProperties
<1> HIDE DEF t, D
<1>5. iov' \in Seq(ToSet(iov')) BY <1>4, OwnSeq
<1>6. \A k \in 1 .. n : iov'[k] = iov[k] BY <1>1, <1>4
<1>7. \A k \in n + 1 .. n + l :
         k - n \in 1 .. l /\ iov'[k].m = q[k - n] /\ iov'[k] = [m |-> q[k - n], left |-> L]
  <2> TAKE k \in n + 1 .. n + l
  <2>1. k - n \in 1 .. l /\ ~ (k <= n) /\ k \in 1 .. n + l BY <1>1
  <2>2. iov'[k] = t[k - n] BY <1>4, <2>1
  <2> QED BY <1>3, <2>1, <2>2
<1>8. \A k \in 1 .. n + l : k \in 1 .. n \/ k \in n + 1 .. n + l BY <1>1
<1>9. ASSUME NEW k \in 1 .. Len(iov')
      PROVE  iov'[k].m \in Entries /\ iov'[k] = [m |-> iov'[k].m, left |-> iov'[k].left]
  <2>1. CASE k \in 1 .. n BY <1>6, <2>1 DEF IovTyped
  <2>2. CASE k \in n + 1 .. n + l BY <1>1, <1>7, <2>2
  <2> QED BY <1>4, <1>8, <2>1, <2>2
<1>10. IovTyped'
  <2>1. cnt' \in 0 .. IovMax /\ Len(iov') <= cnt' BY <1>1, <1>4, SdkAssumption DEF IovTyped
  <2> QED BY <1>5, <1>9, <2>1 DEF IovTyped
<1>11. InIov' = InIov \cup (ToSet(q) \ Sys)
  <2>1. ASSUME NEW x \in InIov' PROVE x \in InIov \cup (ToSet(q) \ Sys)
    <3>1. PICK k \in 1 .. n + l : iov'[k].m = x /\ x \notin Sys BY <1>4 DEF InIov
    <3>2. CASE k \in 1 .. n BY <1>6, <3>1, <3>2 DEF InIov
    <3>3. CASE k \in n + 1 .. n + l BY <1>1, <1>7, <3>1, <3>3 DEF ToSet
    <3> QED BY <1>8, <3>2, <3>3
  <2>2. ASSUME NEW x \in InIov PROVE x \in InIov'
    <3>1. PICK k \in 1 .. n : iov[k].m = x /\ x \notin Sys BY DEF InIov
    <3>2. k \in 1 .. Len(iov') /\ iov'[k].m = x BY <1>1, <1>4, <1>6, <3>1
    <3> QED BY <3>1, <3>2 DEF InIov
  <2>3. ASSUME NEW x \in ToSet(q) \ Sys PROVE x \in InIov'
    <3>1. PICK i \in 1 .. l : q[i] = x BY <1>1 DEF ToSet
    <3>2. n + i \in n + 1 .. n + l /\ n + i \in 1 .. Len(iov') /\ (n + i) - n = i BY <1>1, <1>4, <3>1
    <3>3. iov'[n + i].m = x BY <1>7, <3>1, <3>2
    <3> QED BY <3>2, <3>3 DEF InIov
  <2> QED BY <2>1, <2>2, <2>3
<1>12. BufferedOnce'
  <2> SUFFICES ASSUME NEW i \in 1 .. n + l, NEW j \in 1 .. n + l,
                      iov'[i].m = iov'[j].m, iov'[i].m \in Mesgs
               PROVE  i = j
    BY <1>4 DEF BufferedOnce
  <2>0. Mesgs \cap Sys = {} BY SdkAssumption DEF Sys
  <2>1. ASSUME NEW a \in 1 .. n, NEW b \in n + 1 .. n + l, iov'[a].m = iov'[b].m, iov'[a].m \in Mesgs
        PROVE  FALSE
    <3>1. iov[a].m \in InIov BY <1>6, <2>0, <2>1 DEF InIov
    <3>2. iov'[b].m = q[b - n] /\ b - n \in 1 .. l BY <1>7
    <3> QED BY <1>6, <2>1, <3>1, <3>2
  <2>2. CASE i \in 1 .. n /\ j \in 1 .. n BY <1>6, <2>2 DEF BufferedOnce
  <2>3. CASE i \in n + 1 .. n + l /\ j \in n + 1 .. n + l
    <3>1. /\ i - n \in 1 .. l /\ j - n \in 1 .. l /\ q[i - n] = q[j - n] /\ q[i - n] \in Mesgs
      BY <1>7, <2>3
    <3>2. i - n = j - n BY <3>1
    <3> QED BY <1>1, <2>3, <3>2
  <2> QED BY <1>8, <2>1, <2>2, <2>3
<1> QED BY <1>10, <1>11, <1>12

\* The SDK's own messages, as many as there are slots.
LEMMA OwnMessages ==
    ASSUME SdkTyped, SdkRight, sdk_ssvr_send_data, UNCHANGED <<scene, app, item, tab, seq, sendq>>
    PROVE  IovTyped' /\ SdkRight'
<1> DEFINE k == IF Len(ml) < IovMax - cnt THEN Len(ml) ELSE IovMax - cnt
           q == SubSeq(ml, 1, k)
<1>1. /\ ml \in Seq(Sys) /\ Len(ml) \in Nat /\ cnt \in Nat /\ cnt <= IovMax /\ IovMax \in Nat
      /\ \A i \in 1 .. Len(ml) : ml[i] \in Sys
  BY LenProperties, ElementOfSeq, SdkAssumption DEF SdkTyped, IovTyped
<1>2. k \in 0 .. Len(ml) /\ cnt + k <= IovMax BY <1>1
<1>3. /\ iov' = iov \o [i \in 1 .. k |-> [m |-> ml[i], left |-> 1]]
      /\ cnt' = cnt + k /\ ml' = SubSeq(ml, k + 1, Len(ml))
  BY DEF sdk_ssvr_send_data
<1> HIDE DEF k
<1>4. q \in Seq(Sys) /\ Len(q) = k /\ \A i \in 1 .. k : q[i] = ml[i]
  <2>1. k \in Int /\ 1 \in Int /\ \A i \in 1 .. k : ml[i] \in Sys BY <1>1, <1>2
  <2>2. /\ q \in Seq(Sys) /\ Len(q) = IF 1 <= k THEN k - 1 + 1 ELSE 0
        /\ \A i \in 1 .. k - 1 + 1 : q[i] = ml[1 + i - 1]
    BY <2>1, SubSeqProperties
  <2>3. k - 1 + 1 = k /\ \A i \in 1 .. k : 1 + i - 1 = i BY <1>2
  <2> QED BY <1>2, <2>2, <2>3
<1>5. ml' \in Seq(Sys)
  <2>1. k + 1 \in Int /\ Len(ml) \in Int /\ \A i \in k + 1 .. Len(ml) : ml[i] \in Sys BY <1>1, <1>2
  <2> QED BY <1>3, <2>1, SubSeqProperties
<1>6. PICK s \in Seq(Sys) : s = q BY <1>4
<1>7. s \in Seq(Entries)
  <2>1. Sys \subseteq Entries BY DEF Entries
  <2> QED BY <2>1, SeqMonotonic
<1>8. Len(s) = k /\ \A i \in 1 .. Len(s) : s[i] = ml[i] /\ s[i] \in Sys BY <1>1, <1>2, <1>4, <1>6
<1>9. iov' = iov \o [i \in 1 .. Len(s) |-> [m |-> s[i], left |-> 1]]
  <2>1. [i \in 1 .. k |-> [m |-> ml[i], left |-> 1]] = [i \in 1 .. Len(s) |-> [m |-> s[i], left |-> 1]]
    BY <1>8
  <2> QED BY <1>3, <2>1
<1>10. Mesgs \cap Sys = {} /\ InIov \cap Sys = {} BY SdkAssumption DEF Sys, InIov
<1>11. \A i \in 1 .. Len(s) : s[i] \notin Mesgs /\ s[i] \notin InIov BY <1>8, <1>10
<1>12. cnt' = cnt + Len(s) /\ cnt + Len(s) <= IovMax BY <1>2, <1>3, <1>8
<1>13. IovTyped' /\ InIov' = InIov \cup (ToSet(s) \ Sys) /\ BufferedOnce'
  BY <1>5, <1>7, <1>9, <1>11, <1>12, BufferGrows DEF SdkTyped, SdkRight
<1>14. ToSet(s) \subseteq Sys
  <2>1. DOMAIN s = 1 .. Len(s) BY LenProperties
  <2> QED BY <1>8, <2>1 DEF ToSet
<1>15. \A a \in Apps : Unsent(a)' \subseteq Unsent(a) BY DEF Unsent
<1>16. InIov' = InIov BY <1>13, <1>14
<1> QED BY <1>13, <1>15, <1>16, SentMore

LEMMA WritableHolds ==
    ASSUME SdkTyped, SdkRight, sdk_ssvr_writable \/ sdk_ssvr_proc_send
    PROVE  SdkTyped' /\ SdkRight'
<1>1. UNCHANGED <<scene, app, item, tab, seq, sendq, conns, fd, online, kp, dn, peer, calls>>
  BY DEF sdk_ssvr_writable, sdk_ssvr_proc_send, appVars, mgrVars, srvVars
<1>2. IovTyped' /\ SdkRight'
  <2>1. CASE sdk_ssvr_send_data BY <1>1, <2>1, OwnMessages
  <2>2. CASE UNCHANGED <<iov, cnt, ml>> BY <1>1, <2>2, IovSame, RightSame DEF SdkTyped
  <2> QED BY <2>1, <2>2 DEF sdk_ssvr_writable, sdk_ssvr_proc_send
<1>3. LoopTyped'
  <2>1. ASSUME NEW e \in {"w", "c"}, Turn(e), cmds' = cmds \/ (e = "c" /\ cmds' = Tail(cmds)),
               ssvr' = Handled(e) \/ ssvr' = [Handled(e) EXCEPT !.pc = "add"]
        PROVE  LoopTyped'
    <3>1. CASE ssvr' = Handled(e) BY <2>1, <3>1, HandledTyped DEF SdkTyped
    <3>2. CASE ssvr' = [Handled(e) EXCEPT !.pc = "add"]
      <4>1. ssvr' \in [pc : {"wait", "run", "add", "writev"}, armed : BOOLEAN, ev : SUBSET {"w", "c", "r"}]
            /\ ssvr'.ev = ssvr.ev \ {e}
        BY <3>2 DEF SdkTyped, LoopTyped, Handled
      <4>2. CASE cmds' = cmds BY <4>1, <4>2 DEF SdkTyped, LoopTyped
      <4>3. CASE e = "c" /\ cmds' = Tail(cmds)
        <5>1. cmds # <<>> /\ cmds \in Seq(Commands) BY <2>1, <4>3 DEF SdkTyped, LoopTyped, Turn
        <5>2. cmds' \in Seq(Commands) /\ Len(cmds') = Len(cmds) - 1 BY <4>3, <5>1, HeadTailProperties
        <5>3. Len(cmds') <= CmdMax BY <5>1, <5>2, LenProperties, SdkAssumption DEF SdkTyped, LoopTyped
        <5> QED BY <4>1, <4>3, <5>2, <5>3 DEF LoopTyped
      <4> QED BY <2>1, <4>2, <4>3
    <3> QED BY <2>1, <3>1, <3>2
  <2>2. CASE sdk_ssvr_writable
    <3>1. Turn("w") /\ ssvr' = [Handled("w") EXCEPT !.pc = "add"] /\ cmds' = cmds
      BY <2>2 DEF sdk_ssvr_writable
    <3> QED BY <2>1, <3>1
  <2>3. CASE sdk_ssvr_proc_send
    <3>1. /\ Turn("c") /\ cmds' = Tail(cmds)
          /\ ssvr' = Handled("c") \/ ssvr' = [Handled("c") EXCEPT !.pc = "add"]
      BY <2>3 DEF sdk_ssvr_proc_send
    <3> QED BY <2>1, <3>1
  <2> QED BY <2>2, <2>3
<1> QED BY <1>1, <1>2, <1>3, AppsSame, ItemsSame, ConnSame DEF SdkTyped

-----------------------------------------------------------------------------
(* What is taken from sendq, and what is written. *)

\* As much is taken as the buffer has slots for.
LEMMA TakenFits ==
    ASSUME SdkTyped
    PROVE  Taken \in 0 .. Len(sendq) /\ InTime(Taken) \in Nat /\ InTime(Taken) <= IovMax - cnt
<1> DEFINE n == Len(sendq)
           F == IovMax - cnt
           On(k) == {i \in 1 .. k : ~item[sendq[i]].due}
<1>1. n \in Nat BY LenProperties DEF SdkTyped, ItemsTyped
<1>2. F \in Nat BY SdkAssumption DEF SdkTyped, IovTyped
<1>3. \A k \in Nat : IsFiniteSet(On(k)) /\ InTime(k) = Cardinality(On(k)) /\ InTime(k) \in Nat
  <2> TAKE k \in Nat
  <2>1. On(k) \in SUBSET (1 .. k) OBVIOUS
  <2>2. IsFiniteSet(1 .. k) BY CountTo
  <2>3. IsFiniteSet(On(k)) BY <2>1, <2>2, FS_Subset
  <2>4. Cardinality(On(k)) \in Nat BY <2>3, FS_CardinalityType
  <2> QED BY <2>3, <2>4 DEF InTime
<1>4. InTime(0) = 0
  <2>1. On(0) = {} OBVIOUS
  <2> QED BY <1>3, <2>1, FS_EmptySet
<1>5. ASSUME NEW k \in Nat, k # 0 PROVE InTime(k) <= InTime(k - 1) + 1
  <2>1. k - 1 \in Nat BY <1>5
  <2>2. On(k) \subseteq On(k - 1) \cup {k} BY <1>5
  <2>3. IsFiniteSet(On(k - 1) \cup {k}) /\ Cardinality(On(k - 1) \cup {k}) <= Cardinality(On(k - 1)) + 1
    <3>1. IsFiniteSet(On(k - 1)) /\ Cardinality(On(k - 1)) \in Nat BY <1>3, <2>1
    <3> HIDE DEF On
    <3> QED BY <3>1, FS_AddElement
  <2>4. Cardinality(On(k)) <= Cardinality(On(k - 1) \cup {k}) BY <2>2, <2>3, FS_Subset
  <2>5. Cardinality(On(k - 1) \cup {k}) \in Nat BY <2>3, FS_CardinalityType
  <2>6. InTime(k) = Cardinality(On(k)) /\ InTime(k - 1) = Cardinality(On(k - 1)) BY <1>3, <2>1
  <2>7. InTime(k) \in Nat /\ InTime(k - 1) \in Nat BY <1>3, <2>1
  <2> HIDE DEF On
  <2> QED BY <2>3, <2>4, <2>5, <2>6, <2>7
<1>6. \E k \in 0 .. n : Full(k) /\ \A j \in 0 .. k - 1 : ~Full(j)
  <2> DEFINE T == {k \in 0 .. n : Full(k)}
  <2>1. T \in SUBSET Nat /\ n \in T BY <1>1 DEF Full
  <2>2. PICK k \in T : \A j \in T : k <= j BY <2>1, Least
  <2>3. \A j \in 0 .. k - 1 : j \in 0 .. n /\ ~ (k <= j) BY <1>1
  <2>4. \A j \in 0 .. k - 1 : ~Full(j) BY <2>2, <2>3
  <2> QED BY <2>2, <2>4
<1>7. Taken \in 0 .. n /\ Full(Taken) /\ \A j \in 0 .. Taken - 1 : ~Full(j)
  <2>1. Taken = CHOOSE k \in 0 .. n : Full(k) /\ \A j \in 0 .. k - 1 : ~Full(j) BY DEF Taken
  <2> HIDE DEF n
  <2> QED BY <1>6, <2>1
<1>8. Taken \in Nat BY <1>1, <1>7
<1>a. InTime(Taken) \in Nat BY <1>3, <1>8
<1>9. SUFFICES ASSUME InTime(Taken) > F PROVE FALSE
  <2>1. InTime(Taken) > F \/ InTime(Taken) <= F
    <3> HIDE DEF F
    <3> QED BY <1>2, <1>a
  <2> QED BY <1>7, <1>a, <2>1
<1> DEFINE T == {i \in 0 .. Taken : InTime(i) > F}
<1>10. T \in SUBSET Nat /\ Taken \in T BY <1>8, <1>9
<1>11. PICK i \in T : \A j \in T : i <= j BY <1>10, Least
<1>12. i \in 0 .. Taken /\ InTime(i) > F /\ i \in Nat BY <1>8, <1>11
<1>13. i # 0 BY <1>2, <1>4, <1>12
<1>14. i - 1 \in 0 .. Taken - 1 /\ i - 1 \in Nat /\ i - 1 \in 0 .. Taken /\ ~ (i <= i - 1)
  BY <1>8, <1>12, <1>13
<1>15. InTime(i - 1) # F BY <1>7, <1>14 DEF Full
<1>16. ~ (InTime(i - 1) > F) BY <1>11, <1>14
<1>17. InTime(i) <= InTime(i - 1) + 1 BY <1>5, <1>12, <1>13
<1>18. InTime(i) \in Nat /\ InTime(i - 1) \in Nat BY <1>3, <1>12, <1>14
<1> HIDE DEF F
<1> QED BY <1>2, <1>12, <1>15, <1>16, <1>17, <1>18

\* A queue that holds nothing twice is cut in two.
LEMMA Cut ==
    ASSUME NEW D, NEW s \in Seq(D), NEW k \in 0 .. Len(s), \A i, j \in DOMAIN s : s[i] = s[j] => i = j
    PROVE  /\ SubSeq(s, 1, k) \in Seq(D) /\ Len(SubSeq(s, 1, k)) = k
           /\ \A i \in 1 .. k : SubSeq(s, 1, k)[i] = s[i]
           /\ SubSeq(s, k + 1, Len(s)) \in Seq(D) /\ Len(SubSeq(s, k + 1, Len(s))) = Len(s) - k
           /\ \A i \in 1 .. Len(s) - k : SubSeq(s, k + 1, Len(s))[i] = s[k + i]
           /\ ToSet(SubSeq(s, 1, k)) \subseteq ToSet(s)
           /\ ToSet(SubSeq(s, k + 1, Len(s))) = ToSet(s) \ ToSet(SubSeq(s, 1, k))
<1> DEFINE n == Len(s)
           p == SubSeq(s, 1, k)
           r == SubSeq(s, k + 1, n)
<1>1. n \in Nat /\ DOMAIN s = 1 .. n /\ \A i \in 1 .. n : s[i] \in D BY LenProperties
<1>2. k \in Nat /\ k <= n BY <1>1
<1> HIDE DEF n
<1>3. p \in Seq(D) /\ Len(p) = k /\ \A i \in 1 .. k : p[i] = s[i]
  <2>1. 1 \in Int /\ k \in Int /\ \A i \in 1 .. k : s[i] \in D BY <1>1, <1>2
  <2>2. /\ p \in Seq(D) /\ Len(p) = IF 1 <= k THEN k - 1 + 1 ELSE 0
        /\ \A i \in 1 .. k - 1 + 1 : p[i] = s[1 + i - 1]
    BY <2>1, SubSeqProperties
  <2> HIDE DEF p
  <2>3. k - 1 + 1 = k /\ \A i \in 1 .. k : 1 + i - 1 = i BY ONLY <1>2
  <2> QED BY ONLY <1>2, <2>2, <2>3
<1>4. r \in Seq(D) /\ Len(r) = n - k /\ \A i \in 1 .. n - k : r[i] = s[k + i]
  <2>1. k + 1 \in Int /\ n \in Int /\ \A i \in k + 1 .. n : s[i] \in D BY <1>1, <1>2
  <2>2. /\ r \in Seq(D) /\ Len(r) = IF k + 1 <= n THEN n - (k + 1) + 1 ELSE 0
        /\ \A i \in 1 .. n - (k + 1) + 1 : r[i] = s[(k + 1) + i - 1]
    BY <2>1, SubSeqProperties
  <2> HIDE DEF r
  <2>3. n - (k + 1) + 1 = n - k /\ (~ (k + 1 <= n) => n - k = 0) BY ONLY <1>1, <1>2
  <2>4. \A i \in 1 .. n - k : (k + 1) + i - 1 = k + i BY ONLY <1>1, <1>2
  <2> QED BY ONLY <2>2, <2>3, <2>4
<1>5. ToSet(p) = {s[i] : i \in 1 .. k}
  <2>1. DOMAIN p = 1 .. k BY <1>3, LenProperties
  <2> HIDE DEF p
  <2> QED BY <1>3, <2>1 DEF ToSet
<1>6. ToSet(r) = {s[i] : i \in k + 1 .. n}
  <2>1. DOMAIN r = 1 .. n - k BY <1>4, LenProperties
  <2> HIDE DEF r
  <2>2. ASSUME NEW x \in ToSet(r) PROVE x \in {s[i] : i \in k + 1 .. n}
    <3>1. PICK i \in 1 .. n - k : r[i] = x BY <2>1 DEF ToSet
    <3>2. k + i \in k + 1 .. n BY <1>1, <1>2, <3>1
    <3> QED BY <1>4, <3>1, <3>2
  <2>3. ASSUME NEW i \in k + 1 .. n PROVE s[i] \in ToSet(r)
    <3>1. i - k \in 1 .. n - k /\ k + (i - k) = i BY <1>1, <1>2
    <3>2. r[i - k] = s[i] BY <1>4, <3>1
    <3> QED BY <2>1, <3>1, <3>2 DEF ToSet
  <2> QED BY <2>2, <2>3
<1>7. ToSet(s) = {s[i] : i \in 1 .. n} BY <1>1 DEF ToSet
<1> HIDE DEF p, r
<1>8. \A i \in 1 .. n : i \in 1 .. k \/ i \in k + 1 .. n BY <1>1, <1>2
<1>9. 1 .. k \subseteq 1 .. n /\ k + 1 .. n \subseteq 1 .. n /\ (1 .. k) \cap (k + 1 .. n) = {} BY <1>1, <1>2
<1>10. ToSet(p) \subseteq ToSet(s) BY <1>5, <1>7, <1>9
<1>11. ToSet(r) = ToSet(s) \ ToSet(p)
  <2>1. ASSUME NEW x \in ToSet(r) PROVE x \in ToSet(s) \ ToSet(p)
    <3>1. PICK i \in k + 1 .. n : s[i] = x BY <1>6
    <3>2. \A j \in 1 .. k : s[j] # x BY <1>1, <1>9, <3>1
    <3> QED BY <1>5, <1>7, <1>9, <3>1, <3>2
  <2>2. ASSUME NEW x \in ToSet(s) \ ToSet(p) PROVE x \in ToSet(r) BY <1>5, <1>6, <1>7, <1>8
  <2> QED BY <2>1, <2>2
<1> QED BY <1>3, <1>4, <1>10, <1>11 DEF n, p, r

LEMMA WiovAddHolds == ASSUME SdkTyped, SdkRight, sdk_ssvr_wiov_add PROVE SdkTyped' /\ SdkRight'
<1> DEFINE pre == SubSeq(sendq, 1, Taken)
           late == sdk_send_data_is_timeout_and_hdl(pre)
           go == Without(pre, late)
<1>1. /\ UNCHANGED <<scene, app, seq, cmds, conns, fd, online, kp, dn, peer, calls, ml>>
      /\ ssvr' = [ssvr EXCEPT !.pc = "writev"]
      /\ sendq' = SubSeq(sendq, Taken + 1, Len(sendq))
      /\ iov' = iov \o [i \in 1 .. Len(go) |-> [m |-> go[i], left |-> 2]]
      /\ cnt' = cnt + Len(go) /\ tab' = tab \ late
      /\ item' = [m \in Mesgs |->
            IF m \in late THEN [item[m] EXCEPT !.stat = "GONE", !.res = Append(@, "SEND_TIMEOUT")]
            ELSE IF m \in ToSet(go) THEN [item[m] EXCEPT !.stat = "SENDING"] ELSE item[m]]
  BY DEF sdk_ssvr_wiov_add, appVars, srvVars
<1>2. Taken \in 0 .. Len(sendq) /\ InTime(Taken) \in Nat /\ InTime(Taken) <= IovMax - cnt BY TakenFits
<1>3. sendq \in Seq(Mesgs) /\ \A i, j \in DOMAIN sendq : sendq[i] = sendq[j] => i = j
  BY DEF SdkTyped, ItemsTyped, SdkRight, QueuedOnce
<1>4. /\ pre \in Seq(Mesgs) /\ Len(pre) = Taken /\ \A i \in 1 .. Taken : pre[i] = sendq[i]
      /\ sendq' \in Seq(Mesgs) /\ Len(sendq') = Len(sendq) - Taken
      /\ \A i \in 1 .. Len(sendq) - Taken : sendq'[i] = sendq[Taken + i]
      /\ ToSet(pre) \subseteq ToSet(sendq) /\ ToSet(sendq') = ToSet(sendq) \ ToSet(pre)
  <2>1. /\ SubSeq(sendq, 1, Taken) \in Seq(Mesgs) /\ Len(SubSeq(sendq, 1, Taken)) = Taken
        /\ \A i \in 1 .. Taken : SubSeq(sendq, 1, Taken)[i] = sendq[i]
        /\ SubSeq(sendq, Taken + 1, Len(sendq)) \in Seq(Mesgs)
        /\ Len(SubSeq(sendq, Taken + 1, Len(sendq))) = Len(sendq) - Taken
        /\ \A i \in 1 .. Len(sendq) - Taken : SubSeq(sendq, Taken + 1, Len(sendq))[i] = sendq[Taken + i]
        /\ ToSet(SubSeq(sendq, 1, Taken)) \subseteq ToSet(sendq)
        /\ ToSet(SubSeq(sendq, Taken + 1, Len(sendq))) = ToSet(sendq) \ ToSet(SubSeq(sendq, 1, Taken))
    BY ONLY <1>2, <1>3, Cut
  <2>2. sendq' = SubSeq(sendq, Taken + 1, Len(sendq)) BY <1>1
  <2> HIDE DEF late, go
  <2> QED BY <2>1, <2>2
<1>5. PICK t \in Nat, n \in Nat : t = Taken /\ n = Len(sendq) /\ t <= n
  <2>1. Len(sendq) \in Nat BY <1>3, LenProperties
  <2>2. Taken \in Nat /\ Taken <= Len(sendq) BY <1>2, <2>1
  <2> QED BY <2>1, <2>2
<1>6. DOMAIN sendq = 1 .. n /\ DOMAIN pre = 1 .. t /\ DOMAIN sendq' = 1 .. n - t
  BY <1>3, <1>4, <1>5, LenProperties
<1>7. late = {m \in ToSet(pre) : item[m].due} BY DEF sdk_send_data_is_timeout_and_hdl
<1>8. ToSet(pre) \subseteq Mesgs BY <1>4, <1>6, ElementOfSeq DEF ToSet
<1> HIDE DEF pre, late
<1>9. /\ go \in Seq(Mesgs) /\ Len(go) = Cardinality({i \in 1 .. Len(pre) : pre[i] \notin late})
      /\ ToSet(go) = ToSet(pre) \ late
      /\ (\A i, j \in DOMAIN pre : pre[i] = pre[j] => i = j) =>
         \A i, j \in DOMAIN go : go[i] = go[j] => i = j
  <2>1. pre \in Seq(Mesgs) BY <1>4
  <2>2. /\ Without(pre, late) \in Seq(Mesgs)
        /\ Len(Without(pre, late)) = Cardinality({i \in 1 .. Len(pre) : pre[i] \notin late})
        /\ ToSet(Without(pre, late)) = ToSet(pre) \ late
        /\ (\A i, j \in DOMAIN pre : pre[i] = pre[j] => i = j) =>
           \A i, j \in DOMAIN Without(pre, late) : Without(pre, late)[i] = Without(pre, late)[j] => i = j
    BY <2>1, WithoutIs
  <2> QED BY <2>2
<1> HIDE DEF go
<1>10. \A i, j \in DOMAIN go : go[i] = go[j] => i = j
  <2>1. \A i, j \in DOMAIN pre : pre[i] = pre[j] => i = j
    <3> SUFFICES ASSUME NEW i \in 1 .. t, NEW j \in 1 .. t, pre[i] = pre[j] PROVE i = j BY <1>6
    <3>1. i \in DOMAIN sendq /\ j \in DOMAIN sendq /\ sendq[i] = sendq[j] BY <1>4, <1>5, <1>6
    <3> QED BY <1>3, <3>1
  <2> QED BY <1>9, <2>1
<1>11. Len(go) = InTime(Taken)
  <2>1. \A i \in 1 .. t : pre[i] \in ToSet(pre) BY <1>6 DEF ToSet
  <2>2. {i \in 1 .. Len(pre) : pre[i] \notin late} = {i \in 1 .. Taken : ~item[sendq[i]].due}
    BY <1>4, <1>5, <1>7, <2>1
  <2> QED BY <1>9, <2>2 DEF InTime
<1>12. QueuedOnce'
  <2> SUFFICES ASSUME NEW i \in 1 .. n - t, NEW j \in 1 .. n - t, sendq'[i] = sendq'[j] PROVE i = j
    BY <1>6 DEF QueuedOnce
  <2>1. t + i \in 1 .. n /\ t + j \in 1 .. n /\ sendq[t + i] = sendq[t + j] BY <1>4, <1>5
  <2>2. t + i = t + j BY <1>3, <1>6, <2>1
  <2> QED BY <2>2
<1>13. \A m \in ToSet(pre) : m \in tab /\ m \notin InIov /\ item[m].res = <<>> /\ item[m] \in Items
  <2> TAKE m \in ToSet(pre)
  <2>1. m \in ToSet(sendq) /\ m \in Mesgs BY <1>4, <1>8
  <2>2. ItemRight(m) /\ item[m] \in Items BY <2>1 DEF SdkRight, ItemsRight, SdkTyped, ItemsTyped
  <2> QED BY <2>1, <2>2 DEF ItemRight
<1>14. Mesgs \cap Sys = {} BY SdkAssumption DEF Sys
<1>15. IovTyped' /\ InIov' = InIov \cup (ToSet(go) \ Sys) /\ BufferedOnce'
  <2>1. go \in Seq(Entries)
    <3>1. Mesgs \subseteq Entries BY DEF Entries
    <3> QED BY <1>9, <3>1, SeqMonotonic
  <2>2. DOMAIN go = 1 .. Len(go) BY <1>9, LenProperties
  <2>3. \A i \in 1 .. Len(go) : go[i] \notin InIov
    <3> TAKE i \in 1 .. Len(go)
    <3>1. go[i] \in ToSet(go) BY <2>2 DEF ToSet
    <3> QED BY <1>9, <1>13, <3>1
  <2>4. cnt + Len(go) <= IovMax /\ ml' \in Seq(Sys)
    <3>1. IovMax \in Nat /\ cnt \in Nat BY SdkAssumption DEF SdkTyped, IovTyped
    <3>2. Len(go) \in Nat /\ Len(go) <= IovMax - cnt BY <1>2, <1>11
    <3>3. ml' = ml /\ ml \in Seq(Sys) BY <1>1 DEF SdkTyped, IovTyped
    <3> QED BY <3>1, <3>2, <3>3
  <2>5. \A i, j \in 1 .. Len(go) : go[i] = go[j] /\ go[i] \in Mesgs => i = j BY <1>10, <2>2
  <2> QED BY <1>1, <2>1, <2>3, <2>4, <2>5, BufferGrows DEF SdkTyped, SdkRight
<1>16. InIov' = InIov \cup (ToSet(pre) \ late) /\ ToSet(go) = ToSet(pre) \ late /\ late \subseteq ToSet(pre)
  BY <1>7, <1>8, <1>9, <1>14, <1>15
<1>17. "SEND_TIMEOUT" \in Results BY DEF Results
<1>18. ASSUME NEW m \in late
       PROVE  item'[m] \in Items /\ item'[m].stat = "GONE" /\ item'[m].res \in Ends
  <2>1. m \in ToSet(pre) /\ m \in Mesgs BY <1>8, <1>16
  <2>2. item[m] \in Items /\ item[m].res = <<>> BY <1>13, <2>1
  <2>3. Append(item[m].res, "SEND_TIMEOUT") \in Ends BY <1>17, <2>2, AppendOnce DEF Ends
  <2>4. item'[m] = [item[m] EXCEPT !.stat = "GONE", !.res = Append(@, "SEND_TIMEOUT")] BY <1>1, <2>1
  <2> QED BY <1>17, <2>2, <2>3, <2>4, ItemGone
<1>19. ASSUME NEW m \in ToSet(pre) \ late
       PROVE  item'[m] \in Items /\ item'[m].stat = "SENDING" /\ item'[m].res = <<>>
  <2>1. m \in ToSet(go) /\ m \in Mesgs /\ m \notin late BY <1>8, <1>16
  <2>2. item[m] \in Items /\ item[m].res = <<>> BY <1>13
  <2>3. item'[m] = [item[m] EXCEPT !.stat = "SENDING"] BY <1>1, <2>1
  <2> QED BY <2>2, <2>3 DEF Items
<1>20. ASSUME NEW m \in Mesgs \ ToSet(pre) PROVE item'[m] = item[m]
  BY <1>1, <1>16
<1>21. ItemsTyped'
  <2>1. \A m \in Mesgs : item'[m] \in Items
    <3> TAKE m \in Mesgs
    <3>1. item[m] \in Items BY DEF SdkTyped, ItemsTyped
    <3> QED BY <1>18, <1>19, <1>20, <3>1
  <2>2. item' = [m \in Mesgs |-> item'[m]] BY <1>1
  <2>3. item' \in [Mesgs -> Items] BY <2>1, <2>2
  <2> QED BY <1>1, <1>4, <2>3 DEF SdkTyped, ItemsTyped
<1>22. ItemsRight'
  <2> SUFFICES ASSUME NEW m \in Mesgs PROVE ItemRight(m)' BY DEF ItemsRight
  <2>1. ItemRight(m) BY DEF SdkRight, ItemsRight
  <2>2. CASE m \in late
    <3>1. m \in ToSet(pre) /\ m \notin tab' /\ m \notin ToSet(sendq') /\ m \notin InIov'
      BY <1>1, <1>4, <1>13, <1>16, <2>2
    <3> QED BY <1>18, <2>2, <3>1 DEF ItemRight
  <2>3. CASE m \in ToSet(pre) \ late
    <3>1. m \in tab' /\ m \notin ToSet(sendq') /\ m \in InIov' BY <1>1, <1>4, <1>13, <1>16, <2>3
    <3> QED BY <1>19, <2>3, <3>1 DEF ItemRight, Ends
  <2>4. CASE m \notin ToSet(pre)
    <3>1. item'[m] = item[m] BY <1>20, <2>4
    <3>2. (m \in tab' <=> m \in tab) /\ (m \in ToSet(sendq') <=> m \in ToSet(sendq)) /\ (m \in InIov' <=> m \in InIov)
      BY <1>1, <1>4, <1>16, <2>4
    <3> QED BY <2>1, <3>1, <3>2 DEF ItemRight
  <2> QED BY <2>2, <2>3, <2>4
<1>23. UnsentNew'
  <2> SUFFICES ASSUME NEW a \in Apps, NEW i \in Unsent(a)
               PROVE  item'[scene.send[a][i]].stat = "NEW" /\ item'[scene.send[a][i]].res = <<>>
    <3>1. scene' = scene /\ app' = app BY <1>1
    <3> QED BY <3>1 DEF UnsentNew, Unsent
  <2>1. scene.send[a][i] \in Mesgs BY ToSend DEF Unsent, SdkTyped
  <2>2. item[scene.send[a][i]].stat = "NEW" /\ item[scene.send[a][i]].res = <<>> BY DEF SdkRight, UnsentNew
  <2>3. scene.send[a][i] \notin tab BY <2>1, <2>2 DEF SdkRight, ItemsRight, ItemRight
  <2>4. item'[scene.send[a][i]] = item[scene.send[a][i]] BY <1>13, <1>20, <2>1, <2>3
  <2> QED BY <2>2, <2>4
<1>24. LoopTyped' BY <1>1 DEF SdkTyped, LoopTyped
<1> QED BY <1>1, <1>12, <1>15, <1>21, <1>22, <1>23, <1>24, AppsSame, ConnSame DEF SdkTyped, SdkRight

\* The first k entries leave the buffer; what is left of the next one changes.
LEMMA FirstReplaced ==
    ASSUME NEW U, NEW s \in Seq(U), NEW e \in U, 1 \in 1 .. Len(s)
    PROVE  /\ [s EXCEPT ![1] = e] \in Seq(U) /\ Len([s EXCEPT ![1] = e]) = Len(s)
           /\ \A j \in 1 .. Len(s) : [s EXCEPT ![1] = e][j] = IF j = 1 THEN e ELSE s[j]
<1>1. PICK one : one = 1 OBVIOUS
<1>2. one \in 1 .. Len(s) BY <1>1
<1>3. /\ [s EXCEPT ![one] = e] \in Seq(U) /\ Len([s EXCEPT ![one] = e]) = Len(s)
      /\ \A j \in 1 .. Len(s) : [s EXCEPT ![one] = e][j] = IF j = one THEN e ELSE s[j]
  BY ONLY s \in Seq(U), e \in U, <1>2, ExceptSeq
<1> QED BY <1>1, <1>3

LEMMA BufferShrinks ==
    ASSUME IovTyped, BufferedOnce, NEW k \in 0 .. Len(iov), NEW v, NEW rest,
           rest = SubSeq(iov, k + 1, Len(iov)),
           iov' = IF rest = <<>> THEN <<>> ELSE [rest EXCEPT ![1].left = v],
           cnt' = IF rest = <<>> THEN 0 ELSE cnt, ml' = ml
    PROVE  /\ IovTyped' /\ BufferedOnce'
           /\ InIov' = InIov \ ({iov[j].m : j \in 1 .. k} \ Sys)
<1> DEFINE n == Len(iov)
           D == ToSet(iov)
           w == {iov[j].m : j \in 1 .. k} \ Sys
<1>1. n \in Nat /\ DOMAIN iov = 1 .. n /\ k \in Nat /\ k <= n /\ \A i \in 1 .. n : iov[i] \in D
  <2>1. iov \in Seq(D) BY DEF IovTyped
  <2> HIDE DEF D
  <2>2. n \in Nat /\ DOMAIN iov = 1 .. n /\ \A i \in 1 .. n : iov[i] \in D BY <2>1, LenProperties
  <2>3. k \in Nat /\ k <= n BY <2>2
  <2> QED BY <2>2, <2>3
<1> HIDE DEF n, D
<1>2. rest \in Seq(D) /\ Len(rest) = n - k /\ \A i \in 1 .. n - k : rest[i] = iov[k + i]
  <2>1. k + 1 \in Int /\ n \in Int /\ \A i \in k + 1 .. n : iov[i] \in D BY <1>1
  <2>2. rest = SubSeq(iov, k + 1, n) BY DEF n
  <2>3. /\ rest \in Seq(D) /\ Len(rest) = IF k + 1 <= n THEN n - (k + 1) + 1 ELSE 0
        /\ \A i \in 1 .. n - (k + 1) + 1 : rest[i] = iov[(k + 1) + i - 1]
    BY <2>1, <2>2, SubSeqProperties
  <2>4. n - (k + 1) + 1 = n - k /\ (~ (k + 1 <= n) => n - k = 0) BY <1>1
  <2>5. \A i \in 1 .. n - k : (k + 1) + i - 1 = k + i BY <1>1
  <2> QED BY <2>3, <2>4, <2>5
<1>3. \A i \in 1 .. n : iov[i].m \in Entries /\ iov[i] = [m |-> iov[i].m, left |-> iov[i].left]
  BY DEF IovTyped, n
<1>4. \A i \in 1 .. n - k : k + i \in 1 .. n BY <1>1
<1>5. /\ iov' \in Seq(ToSet(iov')) /\ Len(iov') = n - k
      /\ \A i \in 1 .. n - k : /\ iov'[i].m = iov[k + i].m
                               /\ iov'[i] = [m |-> iov'[i].m, left |-> iov'[i].left]
  <2>1. CASE rest = <<>>
    <3>1. iov' = <<>> /\ n - k = 0 BY <1>2, <2>1
    <3> QED BY <3>1, EmptySeq
  <2>2. CASE rest # <<>>
    <3>1. Len(rest) # 0 /\ Len(rest) \in Nat /\ DOMAIN rest = 1 .. n - k BY <1>2, <2>2, LenProperties, EmptySeq
    <3>2. 1 \in 1 .. n - k /\ 1 \in 1 .. Len(rest) BY <1>1, <1>2, <3>1
    <3>3. PICK e : e = [rest[1] EXCEPT !.left = v] OBVIOUS
    <3>4. iov' = [rest EXCEPT ![1] = e] BY <2>2, <3>3
    <3>5. rest[1] = [m |-> rest[1].m, left |-> rest[1].left]
      <4>1. rest[1] = iov[k + 1] /\ k + 1 \in 1 .. n BY <1>2, <1>4, <3>2
      <4> QED BY <1>3, <4>1
    <3>6. e.m = rest[1].m /\ e = [m |-> e.m, left |-> e.left] BY <3>3, <3>5
    <3>7. PICK U : U = D \cup {e} OBVIOUS
    <3>8. rest \in Seq(U) /\ e \in U
      <4>1. D \subseteq U BY <3>7
      <4> QED BY <1>2, <3>7, <4>1, SeqMonotonic
    <3>9. /\ [rest EXCEPT ![1] = e] \in Seq(U) /\ Len([rest EXCEPT ![1] = e]) = Len(rest)
          /\ \A j \in 1 .. Len(rest) : [rest EXCEPT ![1] = e][j] = IF j = 1 THEN e ELSE rest[j]
      BY ONLY <3>2, <3>8, FirstReplaced
    <3>10. /\ iov' \in Seq(U) /\ Len(iov') = n - k
           /\ \A j \in 1 .. n - k : iov'[j] = IF j = 1 THEN e ELSE rest[j]
      BY <1>2, <3>4, <3>9
    <3>11. iov' \in Seq(ToSet(iov')) BY <3>10, OwnSeq
    <3>12. ASSUME NEW i \in 1 .. n - k
           PROVE  iov'[i].m = iov[k + i].m /\ iov'[i] = [m |-> iov'[i].m, left |-> iov'[i].left]
      <4>1. rest[i] = iov[k + i] BY <1>2
      <4>2. CASE i = 1 BY <3>6, <3>10, <4>1, <4>2
      <4>3. CASE i # 1
        <5>1. iov'[i] = iov[k + i] BY <3>10, <4>1, <4>3
        <5> QED BY <1>3, <1>4, <5>1
      <4> QED BY <4>2, <4>3
    <3> QED BY <3>10, <3>11, <3>12
  <2> QED BY <2>1, <2>2
<1>6. IovTyped'
  <2>1. \A i \in 1 .. Len(iov') : iov'[i].m \in Entries /\ iov'[i] = [m |-> iov'[i].m, left |-> iov'[i].left]
    BY <1>3, <1>4, <1>5
  <2>2. cnt' \in 0 .. IovMax /\ Len(iov') <= cnt'
    <3>1. cnt \in 0 .. IovMax /\ n <= cnt BY DEF IovTyped, n
    <3>2. CASE rest = <<>>
      <4>1. Len(iov') = 0 /\ cnt' = 0 BY <3>2, EmptySeq
      <4> QED BY <4>1, SdkAssumption
    <3>3. CASE rest # <<>>
      <4>1. cnt' = cnt BY <3>3
      <4>2. Len(iov') = n - k BY <1>5
      <4>3. n \in Nat /\ k \in Nat /\ k <= n BY <1>1
      <4>4. IovMax \in Nat BY SdkAssumption
      <4>5. n - k <= cnt BY ONLY <3>1, <4>3, <4>4
      <4> QED BY ONLY <3>1, <4>1, <4>2, <4>5
    <3> QED BY <3>2, <3>3
  <2>3. ml' \in Seq(Sys) BY DEF IovTyped
  <2> QED BY <1>5, <2>1, <2>2, <2>3 DEF IovTyped
<1>7. \A i, j \in 1 .. n : iov[i].m = iov[j].m /\ iov[i].m \in Mesgs => i = j BY DEF BufferedOnce, n
<1>8. BufferedOnce'
  <2> SUFFICES ASSUME NEW i \in 1 .. n - k, NEW j \in 1 .. n - k,
                      iov'[i].m = iov'[j].m, iov'[i].m \in Mesgs
               PROVE  i = j
    BY <1>5 DEF BufferedOnce
  <2>1. k + i \in 1 .. n /\ k + j \in 1 .. n BY <1>4
  <2>2. iov[k + i].m = iov[k + j].m /\ iov[k + i].m \in Mesgs BY <1>5
  <2>3. k + i = k + j BY ONLY <1>7, <2>1, <2>2
  <2> QED BY <1>1, <2>3
<1>9. InIov' = InIov \ w
  <2>0. InIov = {iov[j].m : j \in 1 .. n} \ Sys /\ InIov' = {iov'[j].m : j \in 1 .. n - k} \ Sys
    BY <1>5 DEF InIov, n
  <2>1. ASSUME NEW x \in InIov' PROVE x \in InIov \ w
    <3>1. PICK i \in 1 .. n - k : iov'[i].m = x /\ x \notin Sys BY <2>0
    <3>2. k + i \in 1 .. n /\ iov[k + i].m = x BY <1>4, <1>5, <3>1
    <3>3. x \in Mesgs BY <1>3, <3>1, <3>2 DEF Entries
    <3>4. \A j \in 1 .. k : iov[j].m # x
      <4> TAKE j \in 1 .. k
      <4>1. j \in 1 .. n /\ j # k + i BY <1>1
      <4> QED BY <1>7, <3>2, <3>3, <4>1
    <3> QED BY <2>0, <3>1, <3>2, <3>4
  <2>2. ASSUME NEW x \in InIov \ w PROVE x \in InIov'
    <3>1. PICK j \in 1 .. n : iov[j].m = x /\ x \notin Sys BY <2>0
    <3>2. j \notin 1 .. k BY <2>2, <3>1
    <3>3. j - k \in 1 .. n - k /\ k + (j - k) = j BY <1>1, <3>2
    <3>4. iov'[j - k].m = x BY <1>5, <3>1, <3>3
    <3> QED BY <2>0, <3>1, <3>3, <3>4
  <2> QED BY <2>1, <2>2
<1> QED BY <1>6, <1>8, <1>9

LEMMA WritevHolds == ASSUME SdkTyped, SdkRight, sdk_ssvr_writev PROVE SdkTyped' /\ SdkRight'
<1>1. /\ UNCHANGED <<scene, app, tab, seq, sendq, cmds, conns, fd, online, kp, dn, peer, calls, ml>>
      /\ ssvr' = [ssvr EXCEPT !.pc = "run"]
  BY DEF sdk_ssvr_writev, NextEvent, appVars
<1>2. LoopTyped' BY <1>1 DEF SdkTyped, LoopTyped
<1>3. CASE UNCHANGED <<item, iov, cnt>>
  <2>1. SdkRight' BY <1>1, <1>3, RightSame
  <2> QED BY <1>1, <1>2, <1>3, <2>1, AppsSame, ItemsSame, ConnSame, IovSame DEF SdkTyped
<1>4. ASSUME NEW n, wiov_item_adjust(n) PROVE SdkTyped' /\ SdkRight'
  <2> DEFINE k == Cardinality({j \in 1 .. Len(iov) : Upto(j) <= n})
             rest == SubSeq(iov, k + 1, Len(iov))
             w == {iov[j].m : j \in 1 .. k} \ Sys
  <2>1. /\ iov' = IF rest = <<>> THEN <<>> ELSE [rest EXCEPT ![1].left = Upto(k + 1) - n]
        /\ cnt' = IF rest = <<>> THEN 0 ELSE cnt
        /\ item' = sdk_send_succ_hdl(w)
    BY <1>4 DEF wiov_item_adjust
  <2>2. k \in 0 .. Len(iov)
    <3>1. Len(iov) \in Nat BY LenProperties DEF SdkTyped, IovTyped
    <3>2. IsFiniteSet(1 .. Len(iov)) /\ Cardinality(1 .. Len(iov)) = Len(iov) BY <3>1, CountTo
    <3>3. {j \in 1 .. Len(iov) : Upto(j) <= n} \in SUBSET (1 .. Len(iov)) OBVIOUS
    <3>4. /\ IsFiniteSet({j \in 1 .. Len(iov) : Upto(j) <= n})
          /\ Cardinality({j \in 1 .. Len(iov) : Upto(j) <= n}) <= Len(iov)
      BY <3>2, <3>3, FS_Subset
    <3>5. k \in Nat BY <3>4, FS_CardinalityType
    <3> QED BY <3>1, <3>4, <3>5
  <2> HIDE DEF k
  <2>3. IovTyped' /\ BufferedOnce' /\ InIov' = InIov \ w
    <3>1. PICK r : r = rest OBVIOUS
    <3>2. PICK v : v = Upto(k + 1) - n OBVIOUS
    <3>3. /\ r = SubSeq(iov, k + 1, Len(iov)) /\ ml' = ml
          /\ iov' = IF r = <<>> THEN <<>> ELSE [r EXCEPT ![1].left = v]
          /\ cnt' = IF r = <<>> THEN 0 ELSE cnt
      BY <1>1, <2>1, <3>1, <3>2
    <3> QED BY <2>2, <3>3, BufferShrinks DEF SdkTyped, SdkRight
  <2>4. w \subseteq InIov
    <3>1. Len(iov) \in Nat BY LenProperties DEF SdkTyped, IovTyped
    <3>2. 1 .. k \subseteq 1 .. Len(iov) BY <2>2, <3>1
    <3> QED BY <3>2 DEF InIov
  <2>5. w \subseteq Mesgs BY <2>4, InBuffer DEF SdkTyped
  <2> HIDE DEF w, rest
  <2>6. \A m \in Mesgs : item'[m] = IF m \notin w THEN item[m]
                     ELSE [item[m] EXCEPT !.stat = "SEND_SUCC", !.res = Append(@, "SEND_SUCC")]
    BY <2>1 DEF sdk_send_succ_hdl
  <2>7. "SEND_SUCC" \in Results BY DEF Results
  <2>8. ASSUME NEW m \in w
        PROVE  /\ m \in tab /\ m \in Mesgs /\ m \in InIov /\ m \notin ToSet(sendq)
               /\ item'[m] \in Items /\ item'[m].stat = "SEND_SUCC" /\ item'[m].res = <<"SEND_SUCC">>
    <3>1. m \in Mesgs /\ m \in InIov BY <2>4, <2>5
    <3>2. ItemRight(m) /\ item[m] \in Items BY <3>1 DEF SdkRight, ItemsRight, SdkTyped, ItemsTyped
    <3>3. item[m].stat = "SENDING" /\ item[m].res = <<>> /\ m \in tab /\ m \notin ToSet(sendq)
      BY <3>1, <3>2 DEF ItemRight
    <3>4. item'[m] = [item[m] EXCEPT !.stat = "SEND_SUCC", !.res = Append(@, "SEND_SUCC")] BY <2>6, <3>1
    <3>5. Append(item[m].res, "SEND_SUCC") = <<"SEND_SUCC">> BY <2>7, <3>3, AppendOnce
    <3>6. Append(item[m].res, "SEND_SUCC") \in Seq(Results) BY <2>7, <3>2, AppendProperties DEF Items
    <3>7. item'[m] \in Items /\ item'[m].stat = "SEND_SUCC" /\ item'[m].res = Append(item[m].res, "SEND_SUCC")
      BY <3>2, <3>4, <3>6 DEF Items
    <3> QED BY <3>1, <3>3, <3>5, <3>7
  <2>9. ItemsTyped'
    <3>1. item' = [m \in Mesgs |-> item'[m]] BY <2>1 DEF sdk_send_succ_hdl
    <3>2. \A m \in Mesgs : item'[m] \in Items BY <2>6, <2>8 DEF SdkTyped, ItemsTyped
    <3>3. item' \in [Mesgs -> Items] BY <3>1, <3>2
    <3> QED BY <1>1, <3>3 DEF SdkTyped, ItemsTyped
  <2>10. ItemsRight'
    <3> SUFFICES ASSUME NEW m \in Mesgs PROVE ItemRight(m)' BY DEF ItemsRight
    <3>1. ItemRight(m) BY DEF SdkRight, ItemsRight
    <3>2. tab' = tab /\ sendq' = sendq BY <1>1
    <3>3. CASE m \in w
      <4>1. m \in tab' /\ m \notin ToSet(sendq') /\ m \notin InIov' BY <2>3, <2>8, <3>2, <3>3
      <4> QED BY <2>8, <3>3, <4>1 DEF ItemRight, Ends
    <3>4. CASE m \notin w
      <4>1. item'[m] = item[m] /\ (m \in InIov' <=> m \in InIov) BY <2>3, <2>6, <3>4
      <4> QED BY <3>1, <3>2, <4>1 DEF ItemRight
    <3> QED BY <3>3, <3>4
  <2>11. UnsentNew'
    <3>1. scene' = scene /\ app' = app BY <1>1
    <3> SUFFICES ASSUME NEW a \in Apps, NEW i \in Unsent(a)
                 PROVE  item'[scene.send[a][i]].stat = "NEW" /\ item'[scene.send[a][i]].res = <<>>
      BY <3>1 DEF UnsentNew, Unsent
    <3>2. scene.send[a][i] \in Mesgs BY ToSend DEF Unsent, SdkTyped
    <3>3. item[scene.send[a][i]].stat = "NEW" /\ item[scene.send[a][i]].res = <<>> BY DEF SdkRight, UnsentNew
    <3>4. scene.send[a][i] \notin tab BY <3>2, <3>3 DEF SdkRight, ItemsRight, ItemRight
    <3> QED BY <2>6, <2>8, <3>2, <3>3, <3>4
  <2>12. QueuedOnce' BY <1>1 DEF SdkRight, QueuedOnce
  <2> QED BY <1>1, <1>2, <2>3, <2>9, <2>10, <2>11, <2>12, AppsSame, ConnSame DEF SdkTyped, SdkRight
<1> QED BY <1>3, <1>4 DEF sdk_ssvr_writev
-----------------------------------------------------------------------------
LEMMA SdkStart == SdkInit => SdkInv
<1> SUFFICES ASSUME SdkInit PROVE SdkInv OBVIOUS
<1> USE DEF SdkInit
<1>1. AppsTyped
  <2>1. \A a \in Apps : Len(scene.send[a]) \in Nat
    <3> TAKE a \in Apps
    <3>1. scene.send[a] \in Seq(Mesgs) BY SdkAssumption
    <3> QED BY <3>1, LenProperties
  <2> QED BY <2>1 DEF AppsTyped
<1>2. ItemsTyped
  <2>1. [stat |-> "NEW", seq |-> 0, due |-> FALSE, res |-> <<>>] \in Items BY EmptySeq DEF Items
  <2> QED BY <2>1, EmptySeq DEF ItemsTyped
<1>3. LoopTyped
  <2>1. Len(cmds) = 0 /\ cmds \in Seq(Commands) BY EmptySeq
  <2>2. CmdMax \in Nat BY SdkAssumption
  <2> QED BY <2>1, <2>2 DEF LoopTyped
<1>4. ConnTyped
  <2>1. scene.conns \in Nat BY SdkAssumption
  <2>2. dn \in Seq(Answers) BY EmptySeq
  <2>3. conns \in 0 .. scene.conns /\ fd \in 0 .. conns BY <2>1
  <2>4. online \in BOOLEAN BY online = FALSE
  <2>5. kp \in 0 .. 4 BY kp = 0
  <2>6. peer \subseteq 1 .. conns OBVIOUS
  <2>7. calls \in [net : Nat, dn : Nat] OBVIOUS
  <2> QED BY <2>2, <2>3, <2>4, <2>5, <2>6, <2>7 DEF ConnTyped
<1>5. ToSet(sendq) = {} /\ DOMAIN sendq = {} BY DEF ToSet
<1>6. Len(iov) = 0 /\ 1 .. Len(iov) = {} /\ iov \in Seq(ToSet(iov)) /\ ml \in Seq(Sys) BY EmptySeq
<1>7. IovTyped
  <2>1. cnt \in 0 .. IovMax BY SdkAssumption
  <2> QED BY <1>6, <2>1 DEF IovTyped
<1>8. InIov = {} BY <1>6 DEF InIov
<1>9. ItemsRight
  <2> SUFFICES ASSUME NEW m \in Mesgs PROVE ItemRight(m) BY DEF ItemsRight
  <2>1. item[m].stat = "NEW" /\ item[m].res = <<>> BY <1>1
  <2> QED BY <1>5, <1>8, <2>1 DEF ItemRight, Ends
<1>10. UnsentNew
  <2> SUFFICES ASSUME NEW a \in Apps, NEW i \in Unsent(a)
               PROVE  item[scene.send[a][i]].stat = "NEW" /\ item[scene.send[a][i]].res = <<>>
    BY DEF UnsentNew
  <2>1. scene.send[a][i] \in Mesgs BY <1>1, ToSend DEF Unsent
  <2> QED BY <2>1
<1> QED BY <1>1, <1>2, <1>3, <1>4, <1>5, <1>6, <1>7, <1>9, <1>10
        DEF SdkInv, SdkTyped, SdkRight, QueuedOnce, BufferedOnce

LEMMA SdkStep == SdkInv /\ [SdkNext]_sdkVars => SdkInv'
<1> SUFFICES ASSUME SdkInv, [SdkNext]_sdkVars PROVE SdkInv' OBVIOUS
<1>1. CASE UNCHANGED sdkVars
  <2>1. /\ UNCHANGED <<scene, app, item, tab, seq, sendq, cmds, ssvr, conns, fd, online, kp, dn, peer, calls>>
        /\ UNCHANGED <<ml, cnt, iov, wild>>
    BY <1>1 DEF sdkVars, appVars, mgrVars, sckVars, srvVars
  <2>2. LoopTyped' BY <2>1 DEF SdkInv, SdkTyped, LoopTyped
  <2>3. SdkTyped' BY <2>1, <2>2, AppsSame, ItemsSame, ConnSame, IovSame DEF SdkInv, SdkTyped
  <2>4. wild' \/ SdkRight' BY <2>1, RightSame DEF SdkInv
  <2> QED BY <2>3, <2>4 DEF SdkInv
<1>2. CASE SdkNext
  <2>1. SdkTyped /\ SdkRight BY <1>2 DEF SdkNext, SdkInv
  <2>2. SdkTyped' /\ (wild' \/ SdkRight')
    <3>1. ASSUME NEW a \in Apps, App(a) PROVE SdkTyped' /\ SdkRight'
      BY <2>1, <3>1, AsyncHolds, InsertHolds, NotifyHolds DEF App
    <3>2. CASE sdk_network_switch BY <2>1, <3>2, SwitchHolds
    <3>3. ASSUME Ssvr PROVE SdkTyped' /\ (wild' \/ SdkRight')
      BY <2>1, <3>3, RoutineHolds, WritableHolds, WiovAddHolds, WritevHolds, LostHolds, RecvEndHolds,
         HalfHolds, MixedHolds, AckHolds, ReadHolds, PingHolds, OnlineAckHolds, RefusedHolds,
         TimeoutHolds, PingReqHolds, ReconnFailHolds, ReconnHolds
         DEF Ssvr
    <3>4. CASE sdk_worker_routine BY <2>1, <3>4, WorkerHolds
    <3>5. CASE Server BY <2>1, <3>5, ServerHolds
    <3>6. CASE Tick BY <2>1, <3>6, TicksHold, TtlHolds DEF Tick
    <3> QED BY <1>2, <3>1, <3>2, <3>3, <3>4, <3>5, <3>6 DEF SdkNext
  <2> QED BY <2>2 DEF SdkInv
<1> QED BY <1>1, <1>2

\* What the invariant says of the run's properties.
LEMMA SdkInvIsRight == SdkInv => ItemsTracked /\ OneResult
<1> SUFFICES ASSUME SdkInv PROVE ItemsTracked /\ OneResult OBVIOUS
<1>1. SdkTypeOK
  <2>1. scene.conns \in 0 .. MaxConn BY SdkAssumption DEF SdkInv, SdkTyped, AppsTyped
  <2>2. fd \in 0 .. MaxConn BY <2>1, SdkAssumption DEF SdkInv, SdkTyped, ConnTyped
  <2>3. \A m \in Mesgs : /\ item[m].stat \in {"NEW", "IN_SENDQ", "SENDING", "SEND_SUCC", "SEND_FAIL", "GONE"}
                         /\ item[m].seq \in Nat
    BY DEF SdkInv, SdkTyped, ItemsTyped, Items
  <2> QED BY <2>2, <2>3 DEF SdkTypeOK, SdkInv, SdkTyped, ItemsTyped, LoopTyped, ConnTyped, IovTyped
<1>2. ASSUME ~ wild, NEW m \in Mesgs
      PROVE  /\ m \in tab /\ item[m].stat = "IN_SENDQ" <=> m \in ToSet(sendq)
             /\ m \in tab /\ item[m].stat = "SENDING" <=> m \in InIov
             /\ item[m].res \in Ends
  BY <1>2 DEF SdkInv, SdkRight, ItemsRight, ItemRight
<1>3. ASSUME ~ wild PROVE Len(sendq) = Cardinality(ToSet(sendq))
  <2>1. QueuedOnce /\ sendq \in Seq(Mesgs) BY <1>3 DEF SdkInv, SdkRight, SdkTyped, ItemsTyped
  <2>2. Len(sendq) \in Nat /\ DOMAIN sendq = 1 .. Len(sendq) BY <2>1, LenProperties
  <2>3. IsFiniteSet(1 .. Len(sendq)) /\ Cardinality(1 .. Len(sendq)) = Len(sendq) BY <2>2, CountTo
  <2>4. ToSet(sendq) = {sendq[i] : i \in 1 .. Len(sendq)} BY <2>2 DEF ToSet
  <2>5. PICK s : s = [i \in 1 .. Len(sendq) |-> sendq[i]] OBVIOUS
  <2>6. s \in [1 .. Len(sendq) -> ToSet(sendq)] BY <2>4, <2>5
  <2>7. s \in Bijection(1 .. Len(sendq), ToSet(sendq))
    <3>1. \A x \in ToSet(sendq) : \E i \in 1 .. Len(sendq) : s[i] = x BY <2>4, <2>5
    <3>2. \A i, j \in 1 .. Len(sendq) : s[i] = s[j] => i = j BY <2>1, <2>2, <2>5 DEF QueuedOnce
    <3> QED BY <2>6, <3>1, <3>2 DEF Bijection, Injection, Surjection, IsInjective
  <2>8. ExistsBijection(1 .. Len(sendq), ToSet(sendq)) BY <2>7 DEF ExistsBijection
  <2> QED BY <2>3, <2>8, FS_Bijection
<1>4. Tracked BY <1>2, <1>3 DEF Tracked
<1>5. OneResult BY <1>2 DEF OneResult, Ends
<1> QED BY <1>1, <1>4, <1>5 DEF ItemsTracked

(* Where a message is, what its item says and what its callback was told go *)
(* together in every step of the SDK.                                       *)
THEOREM SdkInvariant == SdkSpec => []SdkInv
<1> QED BY SdkStart, SdkStep, PTL DEF SdkSpec

(* An item is in the queue, in the write buffer or nowhere as its state     *)
(* says, once: the time out of a message frees nothing that is still held,  *)
(* and the assertions of sdk_send_succ_hdl and sdk_send_fail_hdl hold.      *)
THEOREM EachItemTracked == SdkSpec => []ItemsTracked
<1> QED BY SdkInvariant, SdkInvIsRight, PTL

(* The callback of a message is told at most one end, after at most one     *)
(* SEND_SUCC.                                                               *)
THEOREM ToldOnce == SdkSpec => []OneResult
<1> QED BY SdkInvariant, SdkInvIsRight, PTL
=============================================================================
