-------------------------- MODULE WsListendProofs --------------------------
(***************************************************************************)
(* What holds of the websocket access layer (WsListend) for any number of  *)
(* connections, SIDs and workers.  The tables of chat_tab keep their shape *)
(* and nothing of a destroyed connection that no handler ran across.  And  *)
(* a logged in connection that no SID leads to any more is on its way out, *)
(* unless two answers for one SID crossed.                                 *)
(***************************************************************************)
EXTENDS WsListend, TLAPS

Working(w) == wk[w] # Idle
Doing == {"login", "query", "map", "join_session", "join_room", "quit"}

\* Where a connection serves its client, and where its session has been deleted.
Serving == {"recv", "online", "quit"}
Deleted == {"room_del", "notify", "gone"}

\* A connection that a login can reach has said which SID it is of.
SidKnown ==
    /\ \A c \in Cids : status[c] = "LOGIN" => csid[c] # 0
    /\ \A k \in online : csid[k[2]] # 0
    /\ \A k \in param : csid[k[2]] # 0
    /\ \A w \in Workers : Working(w) /\ wk[w].at = "login" => csid[wk[w].cid] # 0

\* lsnd_conn_destroy has taken the session of the connection, and no ONLINE comes any more.
SessionTaken == \A c \in Cids : rt[c] \in Deleted => <<csid[c], c>> \notin param

WInv == TypeOK /\ SidKnown /\ SessionTaken

\* The worker is in the handler of a good ONLINE-ACK.
Acking(w) == Working(w) /\ wk[w].at \in {"login", "query", "map"}

\* A connection that a key or an ONLINE-ACK handler names has presented a SID.
SidPresented ==
    /\ \A k \in online \cup param : csid[k[2]] # 0
    /\ \A w \in Workers : Acking(w) => csid[wk[w].cid] # 0

\* A connection has been accepted before it presents a SID.
Accepted == \A c \in Cids : csid[c] # 0 => rt[c] # "none"

\* The connection is on its way out.
Leaving(c) == rt[c] # "none" /\ (rt[c] \in Serving => c \in kick_list \cup kicked)

\* The entry that a worker is about to overwrite names a connection that is leaving, or one that
\* was entered behind the worker's back.
Overwritten ==
    \A w \in Workers : Working(w) /\ wk[w].at = "map" =>
        LET old == sid2cid[wk[w].sid]
        IN  old = 0 \/ old = wk[w].cid \/ Leaving(old) \/ old \in overtaken

\* A connection that the map names, or is about to, has its session unless it is destroyed;
\* what the scan has listed is destroyed.
Destroyed(c) == rt[c] \in Deleted
MapBacked ==
    /\ \A s \in Sids : sid2cid[s] # 0 => <<s, sid2cid[s]>> \in param \/ Destroyed(sid2cid[s])
    /\ \A w \in Workers : Acking(w) => <<wk[w].sid, wk[w].cid>> \in param \/ Destroyed(wk[w].cid)
    /\ \A s \in Sids : dirty[s] # 0 => Destroyed(dirty[s])

\* What no step takes back.
LeavingNext(c) == rt'[c] # "none" /\ (rt'[c] \in Serving => c \in kick_list' \cup kicked')
Persist ==
    /\ \A c \in Cids : /\ Leaving(c) => LeavingNext(c)
                       /\ Destroyed(c) => rt'[c] \in Deleted
                       /\ rt'[c] \in Serving => rt[c] \in Serving \cup {"none"}
                       /\ rt[c] # "none" => rt'[c] # "none"
    /\ overtaken \subseteq overtaken'

MInv == WInv /\ SidPresented /\ Accepted /\ Overwritten /\ MapBacked /\ SupersededIsKicked
-----------------------------------------------------------------------------
LEMMA HandlerIs ==
    ASSUME NEW a \in Doing, NEW s \in Sids, NEW c \in Cids
    PROVE  /\ Handler(a, s, c) \in Handlers /\ Handler(a, s, c) # Idle
           /\ Handler(a, s, c).at = a /\ Handler(a, s, c).sid = s /\ Handler(a, s, c).cid = c
<1>1. a # "idle" BY DEF Doing
<1>2. Handler(a, s, c).at = a /\ Idle.at = "idle" BY DEF Handler, Idle
<1> QED BY <1>1, <1>2 DEF Handler, Handlers, Doing

\* What a worker that is in a handler has in hand.
LEMMA Works ==
    ASSUME TypeOK, NEW w \in Workers
    PROVE  /\ Working(w) => wk[w].sid \in Sids /\ wk[w].cid \in Cids
           /\ wk[w].at \in Doing => Working(w)
<1>1. wk[w] \in Handlers BY DEF TypeOK
<1>2. Idle.at \notin Doing BY DEF Idle, Doing
<1> QED BY <1>1, <1>2 DEF Handlers, Working

LEMMA KeyIs ==
    ASSUME NEW k \in Keys
    PROVE  k = <<k[1], k[2]>> /\ k[1] \in Sids /\ k[2] \in Cids
BY DEF Keys

LEMMA IdleIs == Idle \in Handlers
BY DEF Handlers

LEMMA InitW == Init => WInv
BY WsListendAssumption, IdleIs DEF Init, WInv, TypeOK, SidKnown, SessionTaken, Status, Places, Keys,
   NoDirty, Working, Deleted

LEMMA W_conn_handler ==
    ASSUME WInv, NEW c \in Cids, conn_handler(c)
    PROVE  WInv'
<1> USE DEF conn_handler, At, GoTo, Kick, kick_add, connVars, tabVars, upVars, histVars
<1>1. TypeOK' BY WsListendAssumption, Works, HandlerIs, KeyIs DEF WInv, TypeOK, SidKnown, Status, Places, Keys
<1>2. SidKnown' BY Works, HandlerIs, KeyIs DEF WInv, SidKnown, TypeOK, Working, Keys
<1>3. SessionTaken' BY DEF WInv, SessionTaken, TypeOK, Deleted
<1> QED BY <1>1, <1>2, <1>3 DEF WInv

LEMMA W_OnlineCheck ==
    ASSUME WInv, NEW c \in Cids, OnlineCheck(c)
    PROVE  WInv'
<1> USE DEF OnlineCheck, At, GoTo, Kick, kick_add, connVars, tabVars, upVars, histVars
<1>1. TypeOK' BY WsListendAssumption, Works, HandlerIs, KeyIs DEF WInv, TypeOK, SidKnown, Status, Places, Keys
<1>2. SidKnown' BY Works, HandlerIs, KeyIs DEF WInv, SidKnown, TypeOK, Working, Keys
<1>3. SessionTaken' BY DEF WInv, SessionTaken, TypeOK, Deleted
<1> QED BY <1>1, <1>2, <1>3 DEF WInv

LEMMA W_LsndMesgCommHandler ==
    ASSUME WInv, NEW c \in Cids, LsndMesgCommHandler(c)
    PROVE  WInv'
<1> USE DEF LsndMesgCommHandler, At, GoTo, Kick, kick_add, connVars, tabVars, upVars, histVars
<1>0. csid[c] \in Sids BY DEF WInv, TypeOK, SidKnown
<1>1. TypeOK' BY <1>0 DEF WInv, TypeOK, Status, Places, Keys
<1>2. SidKnown' BY Works, HandlerIs, KeyIs DEF WInv, SidKnown, TypeOK, Working, Keys
<1>3. SessionTaken' BY DEF WInv, SessionTaken, TypeOK, Deleted
<1> QED BY <1>1, <1>2, <1>3 DEF WInv

LEMMA W_NotOnline ==
    ASSUME WInv, NEW c \in Cids, NotOnline(c)
    PROVE  WInv'
<1> USE DEF NotOnline, At, GoTo, Kick, kick_add, connVars, tabVars, upVars, histVars
<1>1. TypeOK' BY WsListendAssumption, Works, HandlerIs, KeyIs DEF WInv, TypeOK, SidKnown, Status, Places, Keys
<1>2. SidKnown' BY Works, HandlerIs, KeyIs DEF WInv, SidKnown, TypeOK, Working, Keys
<1>3. SessionTaken' BY DEF WInv, SessionTaken, TypeOK, Deleted
<1> QED BY <1>1, <1>2, <1>3 DEF WInv

LEMMA W_LsndMesgOfflineHandler ==
    ASSUME WInv, NEW c \in Cids, LsndMesgOfflineHandler(c)
    PROVE  WInv'
<1> USE DEF LsndMesgOfflineHandler, At, GoTo, Kick, kick_add, connVars, tabVars, upVars, histVars
<1>1. TypeOK' BY WsListendAssumption, Works, HandlerIs, KeyIs DEF WInv, TypeOK, SidKnown, Status, Places, Keys
<1>2. SidKnown' BY Works, HandlerIs, KeyIs DEF WInv, SidKnown, TypeOK, Working, Keys
<1>3. SessionTaken' BY DEF WInv, SessionTaken, TypeOK, Deleted
<1> QED BY <1>1, <1>2, <1>3 DEF WInv

LEMMA W_LsndMesgRoomQuitHandler ==
    ASSUME WInv, NEW c \in Cids, LsndMesgRoomQuitHandler(c)
    PROVE  WInv'
<1> USE DEF LsndMesgRoomQuitHandler, Crosses, At, GoTo, Kick, kick_add, connVars, tabVars, upVars, histVars
<1>1. TypeOK' BY WsListendAssumption, Works, HandlerIs, KeyIs DEF WInv, TypeOK, SidKnown, Status, Places, Keys
<1>2. SidKnown' BY Works, HandlerIs, KeyIs DEF WInv, SidKnown, TypeOK, Working, Keys
<1>3. SessionTaken' BY DEF WInv, SessionTaken, TypeOK, Deleted
<1> QED BY <1>1, <1>2, <1>3 DEF WInv

LEMMA W_RoomQuitDel ==
    ASSUME WInv, NEW c \in Cids, RoomQuitDel(c)
    PROVE  WInv'
<1> USE DEF RoomQuitDel, At, GoTo, Kick, kick_add, connVars, tabVars, upVars, histVars
<1>1. TypeOK' BY WsListendAssumption, Works, HandlerIs, KeyIs DEF WInv, TypeOK, SidKnown, Status, Places, Keys
<1>2. SidKnown' BY Works, HandlerIs, KeyIs DEF WInv, SidKnown, TypeOK, Working, Keys
<1>3. SessionTaken' BY DEF WInv, SessionTaken, TypeOK, Deleted
<1> QED BY <1>1, <1>2, <1>3 DEF WInv

LEMMA W_RecvEnd ==
    ASSUME WInv, NEW c \in Cids, RecvEnd(c)
    PROVE  WInv'
<1> USE DEF RecvEnd, At, GoTo, Kick, kick_add, connVars, tabVars, upVars, histVars
<1>1. TypeOK' BY WsListendAssumption, Works, HandlerIs, KeyIs DEF WInv, TypeOK, SidKnown, Status, Places, Keys
<1>2. SidKnown' BY Works, HandlerIs, KeyIs DEF WInv, SidKnown, TypeOK, Working, Keys
<1>3. SessionTaken' BY DEF WInv, SessionTaken, TypeOK, Deleted
<1> QED BY <1>1, <1>2, <1>3 DEF WInv

LEMMA W_KickedEnd ==
    ASSUME WInv, NEW c \in Cids, KickedEnd(c)
    PROVE  WInv'
<1> USE DEF KickedEnd, At, GoTo, Kick, kick_add, connVars, tabVars, upVars, histVars
<1>1. TypeOK' BY WsListendAssumption, Works, HandlerIs, KeyIs DEF WInv, TypeOK, SidKnown, Status, Places, Keys
<1>2. SidKnown' BY Works, HandlerIs, KeyIs DEF WInv, SidKnown, TypeOK, Working, Keys
<1>3. SessionTaken' BY DEF WInv, SessionTaken, TypeOK, Deleted
<1> QED BY <1>1, <1>2, <1>3 DEF WInv

LEMMA W_DestroyMap ==
    ASSUME WInv, NEW c \in Cids, DestroyMap(c)
    PROVE  WInv'
<1> USE DEF DestroyMap, Crosses, At, GoTo, Kick, kick_add, connVars, tabVars, upVars, histVars
<1>1. TypeOK' BY WsListendAssumption, Works, HandlerIs, KeyIs DEF WInv, TypeOK, SidKnown, Status, Places, Keys
<1>2. SidKnown' BY Works, HandlerIs, KeyIs DEF WInv, SidKnown, TypeOK, Working, Keys
<1>3. SessionTaken' BY DEF WInv, SessionTaken, TypeOK, Deleted
<1> QED BY <1>1, <1>2, <1>3 DEF WInv

LEMMA W_DestroySession ==
    ASSUME WInv, NEW c \in Cids, DestroySession(c)
    PROVE  WInv'
<1> USE DEF DestroySession, At, GoTo, Kick, kick_add, connVars, tabVars, upVars, histVars
<1>1. TypeOK' BY WsListendAssumption, Works, HandlerIs, KeyIs DEF WInv, TypeOK, SidKnown, Status, Places, Keys
<1>2. SidKnown' BY Works, HandlerIs, KeyIs DEF WInv, SidKnown, TypeOK, Working, Keys
<1>3. SessionTaken' BY DEF WInv, SessionTaken, TypeOK, Deleted
<1> QED BY <1>1, <1>2, <1>3 DEF WInv

LEMMA W_DestroyRoom ==
    ASSUME WInv, NEW c \in Cids, DestroyRoom(c)
    PROVE  WInv'
<1> USE DEF DestroyRoom, At, GoTo, Kick, kick_add, connVars, tabVars, upVars, histVars
<1>1. TypeOK' BY WsListendAssumption, Works, HandlerIs, KeyIs DEF WInv, TypeOK, SidKnown, Status, Places, Keys
<1>2. SidKnown' BY Works, HandlerIs, KeyIs DEF WInv, SidKnown, TypeOK, Working, Keys
<1>3. SessionTaken' BY DEF WInv, SessionTaken, TypeOK, Deleted
<1> QED BY <1>1, <1>2, <1>3 DEF WInv

LEMMA W_DestroyEnd ==
    ASSUME WInv, NEW c \in Cids, DestroyEnd(c)
    PROVE  WInv'
<1> USE DEF DestroyEnd, At, GoTo, Kick, kick_add, connVars, tabVars, upVars, histVars
<1>1. TypeOK' BY WsListendAssumption, Works, HandlerIs, KeyIs DEF WInv, TypeOK, SidKnown, Status, Places, Keys
<1>2. SidKnown' BY Works, HandlerIs, KeyIs DEF WInv, SidKnown, TypeOK, Working, Keys
<1>3. SessionTaken' BY DEF WInv, SessionTaken, TypeOK, Deleted
<1> QED BY <1>1, <1>2, <1>3 DEF WInv

LEMMA W_task_timer_kick ==
    ASSUME WInv, NEW c \in Cids, task_timer_kick(c)
    PROVE  WInv'
<1> USE DEF task_timer_kick, At, GoTo, Kick, kick_add, connVars, tabVars, upVars, histVars
<1>1. TypeOK' BY WsListendAssumption, Works, HandlerIs, KeyIs DEF WInv, TypeOK, SidKnown, Status, Places, Keys
<1>2. SidKnown' BY Works, HandlerIs, KeyIs DEF WInv, SidKnown, TypeOK, Working, Keys
<1>3. SessionTaken' BY DEF WInv, SessionTaken, TypeOK, Deleted
<1> QED BY <1>1, <1>2, <1>3 DEF WInv

LEMMA W_TimeoutLogin ==
    ASSUME WInv, NEW c \in Cids, TimeoutLogin(c)
    PROVE  WInv'
<1> USE DEF TimeoutLogin, At, GoTo, Kick, kick_add, connVars, tabVars, upVars, histVars
<1>1. TypeOK' BY WsListendAssumption, Works, HandlerIs, KeyIs DEF WInv, TypeOK, SidKnown, Status, Places, Keys
<1>2. SidKnown' BY Works, HandlerIs, KeyIs DEF WInv, SidKnown, TypeOK, Working, Keys
<1>3. SessionTaken' BY DEF WInv, SessionTaken, TypeOK, Deleted
<1> QED BY <1>1, <1>2, <1>3 DEF WInv

LEMMA W_TimeoutIdle ==
    ASSUME WInv, NEW c \in Cids, TimeoutIdle(c)
    PROVE  WInv'
<1> USE DEF TimeoutIdle, At, GoTo, Kick, kick_add, connVars, tabVars, upVars, histVars
<1>1. TypeOK' BY WsListendAssumption, Works, HandlerIs, KeyIs DEF WInv, TypeOK, SidKnown, Status, Places, Keys
<1>2. SidKnown' BY Works, HandlerIs, KeyIs DEF WInv, SidKnown, TypeOK, Working, Keys
<1>3. SessionTaken' BY DEF WInv, SessionTaken, TypeOK, Deleted
<1> QED BY <1>1, <1>2, <1>3 DEF WInv

LEMMA W_lsnd_error_online_ack_handler ==
    ASSUME WInv, NEW w \in Workers, NEW k \in Keys, lsnd_error_online_ack_handler(w, k)
    PROVE  WInv'
<1> USE DEF lsnd_error_online_ack_handler, At, GoTo, Kick, kick_add, connVars, tabVars, upVars, histVars, Become
<1>1. TypeOK' BY WsListendAssumption, Works, HandlerIs, KeyIs DEF WInv, TypeOK, SidKnown, Status, Places, Keys
<1>2. SidKnown' BY Works, HandlerIs, KeyIs DEF WInv, SidKnown, TypeOK, Working, Keys
<1>3. SessionTaken' BY DEF WInv, SessionTaken, TypeOK, Deleted
<1> QED BY <1>1, <1>2, <1>3 DEF WInv

LEMMA W_LsndUpMesgKickHandler ==
    ASSUME WInv, NEW w \in Workers, NEW s \in Sids, LsndUpMesgKickHandler(w, s)
    PROVE  WInv'
<1> USE DEF LsndUpMesgKickHandler, At, GoTo, Kick, kick_add, connVars, tabVars, upVars, histVars, Become
<1>1. TypeOK' BY WsListendAssumption, Works, HandlerIs, KeyIs DEF WInv, TypeOK, SidKnown, Status, Places, Keys
<1>2. SidKnown' BY Works, HandlerIs, KeyIs DEF WInv, SidKnown, TypeOK, Working, Keys
<1>3. SessionTaken' BY DEF WInv, SessionTaken, TypeOK, Deleted
<1> QED BY <1>1, <1>2, <1>3 DEF WInv

LEMMA W_Lose ==
    ASSUME WInv, Lose
    PROVE  WInv'
<1> USE DEF Lose, At, GoTo, Kick, kick_add, connVars, tabVars, upVars, histVars, NoDirty
<1>1. TypeOK' BY WsListendAssumption, Works, HandlerIs, KeyIs DEF WInv, TypeOK, SidKnown, Status, Places, Keys
<1>2. SidKnown' BY Works, HandlerIs, KeyIs DEF WInv, SidKnown, TypeOK, Working, Keys
<1>3. SessionTaken' BY DEF WInv, SessionTaken, TypeOK, Deleted
<1> QED BY <1>1, <1>2, <1>3 DEF WInv

LEMMA W_query_dirty ==
    ASSUME WInv, query_dirty
    PROVE  WInv'
<1> USE DEF query_dirty, At, GoTo, Kick, kick_add, connVars, tabVars, upVars, histVars, NoDirty
<1>1. TypeOK' BY WsListendAssumption, Works, HandlerIs, KeyIs DEF WInv, TypeOK, SidKnown, Status, Places, Keys
<1>2. SidKnown' BY Works, HandlerIs, KeyIs DEF WInv, SidKnown, TypeOK, Working, Keys
<1>3. SessionTaken' BY DEF WInv, SessionTaken, TypeOK, Deleted
<1> QED BY <1>1, <1>2, <1>3 DEF WInv

LEMMA W_CleanSid2cid ==
    ASSUME WInv, CleanSid2cid
    PROVE  WInv'
<1> USE DEF CleanSid2cid, At, GoTo, Kick, kick_add, connVars, tabVars, upVars, histVars, NoDirty
<1>1. TypeOK' BY WsListendAssumption, Works, HandlerIs, KeyIs DEF WInv, TypeOK, SidKnown, Status, Places, Keys
<1>2. SidKnown' BY Works, HandlerIs, KeyIs DEF WInv, SidKnown, TypeOK, Working, Keys
<1>3. SessionTaken' BY DEF WInv, SessionTaken, TypeOK, Deleted
<1> QED BY <1>1, <1>2, <1>3 DEF WInv

LEMMA W_LsndMesgOnlineHandler ==
    ASSUME WInv, NEW c \in Cids, NEW s \in ClientSids[c], LsndMesgOnlineHandler(c, s)
    PROVE  WInv'
<1> USE DEF LsndMesgOnlineHandler, At, GoTo, connVars, tabVars, upVars, histVars
<1>1. s \in Sids /\ s # 0 BY WsListendAssumption
<1>2. <<s, c>> \in Keys /\ <<s, c>>[1] = s /\ <<s, c>>[2] = c BY <1>1 DEF Keys
<1>3. param' \subseteq param \cup {<<s, c>>} OBVIOUS
<1>4. \A d \in Cids : csid[d] # 0 => csid'[d] # 0 BY <1>1 DEF WInv, TypeOK
<1>5. csid'[c] # 0 BY <1>1 DEF WInv, TypeOK
<1>6. TypeOK' BY <1>1, <1>2 DEF WInv, TypeOK, Status, Places
<1>7. SidKnown'
  <2>1. \A d \in Cids : status'[d] = "LOGIN" => csid'[d] # 0 BY <1>4 DEF WInv, SidKnown
  <2>2. \A k \in online' : csid'[k[2]] # 0 BY <1>2, <1>4, <1>5, KeyIs DEF WInv, SidKnown, TypeOK
  <2>3. \A k \in param' : csid'[k[2]] # 0 BY <1>2, <1>3, <1>4, <1>5, KeyIs DEF WInv, SidKnown, TypeOK
  <2>4. \A w \in Workers : Working(w)' /\ wk'[w].at = "login" => csid'[wk'[w].cid] # 0
    BY <1>4, Works DEF WInv, SidKnown, Working
  <2> QED BY <2>1, <2>2, <2>3, <2>4 DEF SidKnown
<1>8. SessionTaken' BY <1>3 DEF WInv, SessionTaken, TypeOK, Deleted
<1> QED BY <1>6, <1>7, <1>8 DEF WInv

\* A worker that takes up h leaves the others as they are.
LEMMA Becomes ==
    ASSUME TypeOK, NEW w \in Workers, NEW h \in Handlers, Become(w, h)
    PROVE  /\ wk' \in [Workers -> Handlers] /\ wk'[w] = h
           /\ \A v \in Workers : v # w => wk'[v] = wk[v]
BY DEF TypeOK, Become

LEMMA W_LsndUpMesgOnlineAckHandler ==
    ASSUME WInv, NEW w \in Workers, NEW k \in Keys, LsndUpMesgOnlineAckHandler(w, k)
    PROVE  WInv'
<1> USE DEF LsndUpMesgOnlineAckHandler, connVars, tabVars, upVars, histVars, StartsFor
<1>1. k[1] \in Sids /\ k[2] \in Cids BY KeyIs
<1>2. Handler("login", k[1], k[2]) \in Handlers /\ Handler("login", k[1], k[2]).at = "login" /\ Handler("login", k[1], k[2]).cid = k[2] BY <1>1, HandlerIs DEF Doing
<1>3. /\ wk' \in [Workers -> Handlers] /\ wk'[w] = Handler("login", k[1], k[2])
      /\ \A v \in Workers : v # w => wk'[v] = wk[v]
  BY <1>2, Becomes DEF WInv
<1>4. TypeOK' BY <1>1, <1>3 DEF WInv, TypeOK, Status, Keys, kick_add
<1>5. SidKnown' BY <1>1, <1>2, <1>3, Works DEF WInv, SidKnown, TypeOK, Working, Keys, kick_add
<1>6. SessionTaken' BY DEF WInv, SessionTaken
<1> QED BY <1>4, <1>5, <1>6 DEF WInv

LEMMA W_AckLogin ==
    ASSUME WInv, NEW w \in Workers, AckLogin(w)
    PROVE  WInv'
<1> USE DEF AckLogin, connVars, tabVars, upVars, histVars
<1>1. wk[w].sid \in Sids /\ wk[w].cid \in Cids BY Works DEF WInv, Doing
<1>2. Handler("query", wk[w].sid, wk[w].cid) \in Handlers /\ Handler("query", wk[w].sid, wk[w].cid).at = "query" /\ Handler("query", wk[w].sid, wk[w].cid).cid = wk[w].cid BY <1>1, HandlerIs DEF Doing
<1>3. /\ wk' \in [Workers -> Handlers] /\ wk'[w] = Handler("query", wk[w].sid, wk[w].cid)
      /\ \A v \in Workers : v # w => wk'[v] = wk[v]
  BY <1>2, Becomes DEF WInv
<1>4. TypeOK' BY <1>1, <1>3 DEF WInv, TypeOK, Status, Keys, kick_add
<1>0. csid[wk[w].cid] # 0 BY Works DEF WInv, SidKnown, Doing
<1>5. SidKnown' BY <1>0, <1>1, <1>2, <1>3, Works DEF WInv, SidKnown, TypeOK, Working, Keys, kick_add
<1>6. SessionTaken' BY DEF WInv, SessionTaken
<1> QED BY <1>4, <1>5, <1>6 DEF WInv

LEMMA W_AckQuery ==
    ASSUME WInv, NEW w \in Workers, AckQuery(w)
    PROVE  WInv'
<1> USE DEF AckQuery, connVars, tabVars, upVars, histVars
<1>1. wk[w].sid \in Sids /\ wk[w].cid \in Cids BY Works DEF WInv, Doing
<1>2. Handler("map", wk[w].sid, wk[w].cid) \in Handlers /\ Handler("map", wk[w].sid, wk[w].cid).at = "map" /\ Handler("map", wk[w].sid, wk[w].cid).cid = wk[w].cid BY <1>1, HandlerIs DEF Doing
<1>3. /\ wk' \in [Workers -> Handlers] /\ wk'[w] = Handler("map", wk[w].sid, wk[w].cid)
      /\ \A v \in Workers : v # w => wk'[v] = wk[v]
  BY <1>2, Becomes DEF WInv
<1>4. TypeOK' BY <1>1, <1>3 DEF WInv, TypeOK, Status, Keys, kick_add
<1>5. SidKnown' BY <1>1, <1>2, <1>3, Works DEF WInv, SidKnown, TypeOK, Working, Keys, kick_add
<1>6. SessionTaken' BY DEF WInv, SessionTaken
<1> QED BY <1>4, <1>5, <1>6 DEF WInv

LEMMA W_AckMap ==
    ASSUME WInv, NEW w \in Workers, AckMap(w)
    PROVE  WInv'
<1> USE DEF AckMap, connVars, tabVars, upVars, histVars
<1>1. wk[w].sid \in Sids /\ wk[w].cid \in Cids BY Works DEF WInv, Doing
<1>2. Idle \in Handlers /\ Idle.at = "idle" BY IdleIs DEF Idle
<1>3. /\ wk' \in [Workers -> Handlers] /\ wk'[w] = Idle
      /\ \A v \in Workers : v # w => wk'[v] = wk[v]
  BY <1>2, Becomes DEF WInv
<1>4. TypeOK' BY <1>1, <1>3 DEF WInv, TypeOK, Status, Keys, kick_add
<1>5. SidKnown' BY <1>1, <1>2, <1>3, Works DEF WInv, SidKnown, TypeOK, Working, Keys, kick_add
<1>6. SessionTaken' BY DEF WInv, SessionTaken
<1> QED BY <1>4, <1>5, <1>6 DEF WInv

LEMMA W_JoinSession ==
    ASSUME WInv, NEW w \in Workers, JoinSession(w)
    PROVE  WInv'
<1> USE DEF JoinSession, connVars, tabVars, upVars, histVars
<1>1. wk[w].sid \in Sids /\ wk[w].cid \in Cids BY Works DEF WInv, Doing
<1>2. Handler("join_room", wk[w].sid, wk[w].cid) \in Handlers /\ Handler("join_room", wk[w].sid, wk[w].cid).at = "join_room" /\ Handler("join_room", wk[w].sid, wk[w].cid).cid = wk[w].cid BY <1>1, HandlerIs DEF Doing
<1>3. /\ wk' \in [Workers -> Handlers] /\ wk'[w] = Handler("join_room", wk[w].sid, wk[w].cid)
      /\ \A v \in Workers : v # w => wk'[v] = wk[v]
  BY <1>2, Becomes DEF WInv
<1>4. TypeOK' BY <1>1, <1>3 DEF WInv, TypeOK, Status, Keys, kick_add
<1>5. SidKnown' BY <1>1, <1>2, <1>3, Works DEF WInv, SidKnown, TypeOK, Working, Keys, kick_add
<1>6. SessionTaken' BY DEF WInv, SessionTaken
<1> QED BY <1>4, <1>5, <1>6 DEF WInv

LEMMA W_JoinRoom ==
    ASSUME WInv, NEW w \in Workers, JoinRoom(w)
    PROVE  WInv'
<1> USE DEF JoinRoom, connVars, tabVars, upVars, histVars
<1>1. wk[w].sid \in Sids /\ wk[w].cid \in Cids BY Works DEF WInv, Doing
<1>2. Idle \in Handlers /\ Idle.at = "idle" BY IdleIs DEF Idle
<1>3. /\ wk' \in [Workers -> Handlers] /\ wk'[w] = Idle
      /\ \A v \in Workers : v # w => wk'[v] = wk[v]
  BY <1>2, Becomes DEF WInv
<1>4. TypeOK' BY <1>1, <1>3 DEF WInv, TypeOK, Status, Keys, kick_add
<1>5. SidKnown' BY <1>1, <1>2, <1>3, Works DEF WInv, SidKnown, TypeOK, Working, Keys, kick_add
<1>6. SessionTaken' BY DEF WInv, SessionTaken
<1> QED BY <1>4, <1>5, <1>6 DEF WInv

LEMMA W_RoomKickDel ==
    ASSUME WInv, NEW w \in Workers, RoomKickDel(w)
    PROVE  WInv'
<1> USE DEF RoomKickDel, connVars, tabVars, upVars, histVars
<1>1. wk[w].sid \in Sids /\ wk[w].cid \in Cids BY Works DEF WInv, Doing
<1>2. Idle \in Handlers /\ Idle.at = "idle" BY IdleIs DEF Idle
<1>3. /\ wk' \in [Workers -> Handlers] /\ wk'[w] = Idle
      /\ \A v \in Workers : v # w => wk'[v] = wk[v]
  BY <1>2, Becomes DEF WInv
<1>4. TypeOK' BY <1>1, <1>3 DEF WInv, TypeOK, Status, Keys, kick_add
<1>5. SidKnown' BY <1>1, <1>2, <1>3, Works DEF WInv, SidKnown, TypeOK, Working, Keys, kick_add
<1>6. SessionTaken' BY DEF WInv, SessionTaken
<1> QED BY <1>4, <1>5, <1>6 DEF WInv

LEMMA W_LsndUpMesgRoomKickHandler ==
    ASSUME WInv, NEW w \in Workers, NEW s \in Sids, LsndUpMesgRoomKickHandler(w, s)
    PROVE  WInv'
<1> USE DEF LsndUpMesgRoomKickHandler, connVars, tabVars, upVars, histVars
<1>1. csid[sid2cid[s]] \in Sids /\ sid2cid[s] \in Cids BY DEF WInv, TypeOK, Keys
<1>2. Handler("quit", csid[sid2cid[s]], sid2cid[s]) \in Handlers /\ Handler("quit", csid[sid2cid[s]], sid2cid[s]).at = "quit" /\ Handler("quit", csid[sid2cid[s]], sid2cid[s]).cid = sid2cid[s] BY <1>1, HandlerIs DEF Doing
<1>3. /\ wk' \in [Workers -> Handlers] /\ wk'[w] = Handler("quit", csid[sid2cid[s]], sid2cid[s])
      /\ \A v \in Workers : v # w => wk'[v] = wk[v]
  BY <1>2, Becomes DEF WInv
<1>4. TypeOK' BY <1>1, <1>3 DEF WInv, TypeOK, Status, Keys, kick_add
<1>5. SidKnown' BY <1>1, <1>2, <1>3, Works DEF WInv, SidKnown, TypeOK, Working, Keys, kick_add
<1>6. SessionTaken' BY DEF WInv, SessionTaken
<1> QED BY <1>4, <1>5, <1>6 DEF WInv

LEMMA W_LsndUpMesgRoomJoinAckHandler ==
    ASSUME WInv, NEW w \in Workers, NEW s \in Sids, LsndUpMesgRoomJoinAckHandler(w, s)
    PROVE  WInv'
<1> USE DEF LsndUpMesgRoomJoinAckHandler, connVars, tabVars, StartsFor
<1>1. CASE sid2cid[s] = 0
  <2>1. TypeOK' BY <1>1 DEF WInv, TypeOK
  <2>2. SidKnown' /\ SessionTaken' BY <1>1 DEF WInv, SidKnown, SessionTaken, Working
  <2> QED BY <2>1, <2>2 DEF WInv
<1>2. CASE sid2cid[s] # 0
  <2>1. sid2cid[s] \in Cids BY <1>2 DEF WInv, TypeOK
  <2>2. LET h == Handler("join_session", s, sid2cid[s]) IN h \in Handlers /\ h.at = "join_session"
    BY <2>1, HandlerIs DEF Doing
  <2>3. /\ wk' \in [Workers -> Handlers] /\ wk'[w].at = "join_session"
        /\ \A v \in Workers : v # w => wk'[v] = wk[v]
    BY <1>2, <2>2, Becomes DEF WInv
  <2>4. TypeOK' BY <2>3 DEF WInv, TypeOK
  <2>5. SidKnown' BY <2>3 DEF WInv, SidKnown, Working
  <2>6. SessionTaken' BY DEF WInv, SessionTaken
  <2> QED BY <2>4, <2>5, <2>6 DEF WInv
<1> QED BY <1>1, <1>2

LEMMA NextW ==
    ASSUME WInv, [Next]_vars
    PROVE  WInv'
<1>1. ASSUME NEW c \in Cids, conn_handler(c) PROVE WInv' BY <1>1, W_conn_handler
<1>2. ASSUME NEW c \in Cids, OnlineCheck(c) PROVE WInv' BY <1>2, W_OnlineCheck
<1>3. ASSUME NEW c \in Cids, LsndMesgCommHandler(c) PROVE WInv' BY <1>3, W_LsndMesgCommHandler
<1>4. ASSUME NEW c \in Cids, NotOnline(c) PROVE WInv' BY <1>4, W_NotOnline
<1>5. ASSUME NEW c \in Cids, LsndMesgOfflineHandler(c) PROVE WInv' BY <1>5, W_LsndMesgOfflineHandler
<1>6. ASSUME NEW c \in Cids, LsndMesgRoomQuitHandler(c) PROVE WInv' BY <1>6, W_LsndMesgRoomQuitHandler
<1>7. ASSUME NEW c \in Cids, RoomQuitDel(c) PROVE WInv' BY <1>7, W_RoomQuitDel
<1>8. ASSUME NEW c \in Cids, RecvEnd(c) PROVE WInv' BY <1>8, W_RecvEnd
<1>9. ASSUME NEW c \in Cids, KickedEnd(c) PROVE WInv' BY <1>9, W_KickedEnd
<1>10. ASSUME NEW c \in Cids, DestroyMap(c) PROVE WInv' BY <1>10, W_DestroyMap
<1>11. ASSUME NEW c \in Cids, DestroySession(c) PROVE WInv' BY <1>11, W_DestroySession
<1>12. ASSUME NEW c \in Cids, DestroyRoom(c) PROVE WInv' BY <1>12, W_DestroyRoom
<1>13. ASSUME NEW c \in Cids, DestroyEnd(c) PROVE WInv' BY <1>13, W_DestroyEnd
<1>14. ASSUME NEW c \in Cids, task_timer_kick(c) PROVE WInv' BY <1>14, W_task_timer_kick
<1>15. ASSUME NEW c \in Cids, TimeoutLogin(c) PROVE WInv' BY <1>15, W_TimeoutLogin
<1>16. ASSUME NEW c \in Cids, TimeoutIdle(c) PROVE WInv' BY <1>16, W_TimeoutIdle
<1>17. ASSUME NEW c \in Cids, NEW s \in ClientSids[c], LsndMesgOnlineHandler(c, s) PROVE WInv' BY <1>17, W_LsndMesgOnlineHandler
<1>18. ASSUME NEW w \in Workers, NEW k \in Keys, lsnd_error_online_ack_handler(w, k) PROVE WInv' BY <1>18, W_lsnd_error_online_ack_handler
<1>19. ASSUME NEW w \in Workers, NEW k \in Keys, LsndUpMesgOnlineAckHandler(w, k) PROVE WInv' BY <1>19, W_LsndUpMesgOnlineAckHandler
<1>20. ASSUME NEW w \in Workers, NEW s \in Sids, LsndUpMesgKickHandler(w, s) PROVE WInv' BY <1>20, W_LsndUpMesgKickHandler
<1>21. ASSUME NEW w \in Workers, NEW s \in Sids, LsndUpMesgRoomJoinAckHandler(w, s) PROVE WInv' BY <1>21, W_LsndUpMesgRoomJoinAckHandler
<1>22. ASSUME NEW w \in Workers, NEW s \in Sids, LsndUpMesgRoomKickHandler(w, s) PROVE WInv' BY <1>22, W_LsndUpMesgRoomKickHandler
<1>23. ASSUME NEW w \in Workers, AckLogin(w) PROVE WInv' BY <1>23, W_AckLogin
<1>24. ASSUME NEW w \in Workers, AckQuery(w) PROVE WInv' BY <1>24, W_AckQuery
<1>25. ASSUME NEW w \in Workers, AckMap(w) PROVE WInv' BY <1>25, W_AckMap
<1>26. ASSUME NEW w \in Workers, JoinSession(w) PROVE WInv' BY <1>26, W_JoinSession
<1>27. ASSUME NEW w \in Workers, JoinRoom(w) PROVE WInv' BY <1>27, W_JoinRoom
<1>28. ASSUME NEW w \in Workers, RoomKickDel(w) PROVE WInv' BY <1>28, W_RoomKickDel
<1>29. CASE Lose BY <1>29, W_Lose
<1>30. CASE query_dirty BY <1>30, W_query_dirty
<1>31. CASE CleanSid2cid BY <1>31, W_CleanSid2cid
<1>32. CASE UNCHANGED vars BY <1>32 DEF WInv, TypeOK, SidKnown, SessionTaken, Working, vars, connVars, tabVars, upVars, histVars
<1> QED BY <1>1, <1>2, <1>3, <1>4, <1>5, <1>6, <1>7, <1>8, <1>9, <1>10, <1>11, <1>12, <1>13,
   <1>14, <1>15, <1>16, <1>17, <1>18, <1>19, <1>20, <1>21, <1>22, <1>23, <1>24, <1>25, <1>26,
   <1>27, <1>28, <1>29, <1>30, <1>31, <1>32
   DEF Next, Recv, Destroy, Worker, Finish

\* The invariant behind TablesCleaned: what the tables, the bus and the workers name is of the
\* right kind, and lsnd_conn_destroy takes the session for good.
THEOREM ListendInvariant == Spec => []WInv
<1>1. WInv /\ [Next]_vars => WInv' BY NextW
<1> QED BY <1>1, InitW, PTL DEF Spec

-----------------------------------------------------------------------------
LEMMA Persists ==
    ASSUME WInv, [Next]_vars
    PROVE  Persist
<1> USE DEF Persist, Leaving, LeavingNext, Destroyed, Serving, Deleted, At, GoTo, Kick, InPool, kick_add,
            connVars, tabVars, upVars, histVars
<1>0. rt \in [Cids -> Places] BY DEF WInv, TypeOK
<1>1. ASSUME NEW c \in Cids, conn_handler(c) PROVE Persist BY <1>0, <1>1 DEF conn_handler
<1>2. ASSUME NEW c \in Cids, OnlineCheck(c) PROVE Persist BY <1>0, <1>2 DEF OnlineCheck
<1>3. ASSUME NEW c \in Cids, LsndMesgCommHandler(c) PROVE Persist BY <1>0, <1>3 DEF LsndMesgCommHandler
<1>4. ASSUME NEW c \in Cids, NotOnline(c) PROVE Persist BY <1>0, <1>4 DEF NotOnline
<1>5. ASSUME NEW c \in Cids, LsndMesgOfflineHandler(c) PROVE Persist BY <1>0, <1>5 DEF LsndMesgOfflineHandler
<1>6. ASSUME NEW c \in Cids, LsndMesgRoomQuitHandler(c) PROVE Persist BY <1>0, <1>6 DEF LsndMesgRoomQuitHandler
<1>7. ASSUME NEW c \in Cids, RoomQuitDel(c) PROVE Persist BY <1>0, <1>7 DEF RoomQuitDel
<1>8. ASSUME NEW c \in Cids, RecvEnd(c) PROVE Persist BY <1>0, <1>8 DEF RecvEnd
<1>9. ASSUME NEW c \in Cids, KickedEnd(c) PROVE Persist BY <1>0, <1>9 DEF KickedEnd
<1>10. ASSUME NEW c \in Cids, DestroyMap(c) PROVE Persist BY <1>0, <1>10 DEF DestroyMap
<1>11. ASSUME NEW c \in Cids, DestroySession(c) PROVE Persist BY <1>0, <1>11 DEF DestroySession
<1>12. ASSUME NEW c \in Cids, DestroyRoom(c) PROVE Persist BY <1>0, <1>12 DEF DestroyRoom
<1>13. ASSUME NEW c \in Cids, DestroyEnd(c) PROVE Persist BY <1>0, <1>13 DEF DestroyEnd
<1>14. ASSUME NEW c \in Cids, task_timer_kick(c) PROVE Persist BY <1>0, <1>14 DEF task_timer_kick
<1>15. ASSUME NEW c \in Cids, TimeoutLogin(c) PROVE Persist BY <1>0, <1>15 DEF TimeoutLogin
<1>16. ASSUME NEW c \in Cids, TimeoutIdle(c) PROVE Persist BY <1>0, <1>16 DEF TimeoutIdle
<1>17. ASSUME NEW c \in Cids, NEW s \in ClientSids[c], LsndMesgOnlineHandler(c, s) PROVE Persist BY <1>0, <1>17 DEF LsndMesgOnlineHandler
<1>18. ASSUME NEW w \in Workers, NEW k \in Keys, lsnd_error_online_ack_handler(w, k) PROVE Persist BY <1>0, <1>18 DEF lsnd_error_online_ack_handler
<1>19. ASSUME NEW w \in Workers, NEW k \in Keys, LsndUpMesgOnlineAckHandler(w, k) PROVE Persist BY <1>0, <1>19 DEF LsndUpMesgOnlineAckHandler
<1>20. ASSUME NEW w \in Workers, NEW s \in Sids, LsndUpMesgKickHandler(w, s) PROVE Persist BY <1>0, <1>20 DEF LsndUpMesgKickHandler
<1>21. ASSUME NEW w \in Workers, NEW s \in Sids, LsndUpMesgRoomJoinAckHandler(w, s) PROVE Persist BY <1>0, <1>21 DEF LsndUpMesgRoomJoinAckHandler
<1>22. ASSUME NEW w \in Workers, NEW s \in Sids, LsndUpMesgRoomKickHandler(w, s) PROVE Persist BY <1>0, <1>22 DEF LsndUpMesgRoomKickHandler
<1>23. ASSUME NEW w \in Workers, AckLogin(w) PROVE Persist BY <1>0, <1>23 DEF AckLogin
<1>24. ASSUME NEW w \in Workers, AckQuery(w) PROVE Persist BY <1>0, <1>24 DEF AckQuery
<1>25. ASSUME NEW w \in Workers, AckMap(w) PROVE Persist BY <1>0, <1>25 DEF AckMap
<1>26. ASSUME NEW w \in Workers, JoinSession(w) PROVE Persist BY <1>0, <1>26 DEF JoinSession
<1>27. ASSUME NEW w \in Workers, JoinRoom(w) PROVE Persist BY <1>0, <1>27 DEF JoinRoom
<1>28. ASSUME NEW w \in Workers, RoomKickDel(w) PROVE Persist BY <1>0, <1>28 DEF RoomKickDel
<1>29. CASE Lose BY <1>0, <1>29 DEF Lose
<1>30. CASE query_dirty BY <1>0, <1>30 DEF query_dirty
<1>31. CASE CleanSid2cid BY <1>0, <1>31 DEF CleanSid2cid
<1>32. CASE UNCHANGED vars BY <1>32 DEF vars
<1> QED BY <1>1, <1>2, <1>3, <1>4, <1>5, <1>6, <1>7, <1>8, <1>9, <1>10, <1>11, <1>12, <1>13,
   <1>14, <1>15, <1>16, <1>17, <1>18, <1>19, <1>20, <1>21, <1>22, <1>23, <1>24, <1>25, <1>26,
   <1>27, <1>28, <1>29, <1>30, <1>31, <1>32
   DEF Next, Recv, Destroy, Worker, Finish

\* Steps that leave the SIDs, the map and the ONLINE-ACK handlers alone.
Quiet ==
    /\ UNCHANGED <<csid, param, sid2cid, dirty>>
    /\ online' \subseteq online
    /\ \A c \in Cids : status'[c] = "LOGIN" => status[c] = "LOGIN"
    /\ \A w \in Workers : Acking(w) \/ Acking(w)' => wk'[w] = wk[w]

LEMMA AckingIs ==
    ASSUME TypeOK, NEW w \in Workers
    PROVE  /\ Acking(w) <=> wk[w].at \in {"login", "query", "map"}
           /\ Acking(w) => Working(w) /\ wk[w].sid \in Sids /\ wk[w].cid \in Cids
BY Works DEF Acking, Doing

\* What the map names is a connection that has been accepted.
LEMMA Named ==
    ASSUME MInv, NEW s \in Sids, sid2cid[s] # 0
    PROVE  sid2cid[s] \in Cids
BY DEF MInv, WInv, TypeOK

LEMMA QuietKeeps ==
    ASSUME MInv, WInv', Persist, Quiet
    PROVE  MInv'
<1>1. TypeOK /\ TypeOK' BY DEF MInv, WInv
<1>2. \A w \in Workers : Acking(w)' => /\ Acking(w) /\ wk'[w] = wk[w]
                                        /\ wk[w].sid \in Sids /\ wk[w].cid \in Cids
  BY <1>1, AckingIs DEF Quiet, Acking, Working
<1>3. SidPresented' BY <1>2 DEF MInv, SidPresented, Quiet
<1>4. Accepted' BY DEF MInv, Accepted, Quiet, Persist
<1>5. Overwritten'
  <2> SUFFICES ASSUME NEW w \in Workers, Working(w)', wk'[w].at = "map"
               PROVE  LET old == sid2cid[wk'[w].sid]
                      IN  old = 0 \/ old = wk'[w].cid \/ LeavingNext(old) \/ old \in overtaken'
    BY DEF Overwritten, Quiet, Leaving, LeavingNext
  <2>1. Acking(w)' BY DEF Acking
  <2>2. wk'[w] = wk[w] /\ Working(w) /\ wk[w].sid \in Sids BY <2>1, <1>2 DEF Acking
  <2>3. sid2cid[wk[w].sid] = 0 \/ sid2cid[wk[w].sid] \in Cids BY <1>1, <2>2 DEF TypeOK
  <2> QED BY <2>2, <2>3 DEF MInv, Overwritten, Persist, Leaving, LeavingNext
<1>6. MapBacked'
  <2>1. \A s \in Sids : sid2cid'[s] # 0 => <<s, sid2cid'[s]>> \in param' \/ rt'[sid2cid'[s]] \in Deleted
    BY <1>1 DEF MInv, MapBacked, Quiet, Persist, TypeOK, Destroyed
  <2>2. \A w \in Workers : Acking(w)' => \/ <<wk'[w].sid, wk'[w].cid>> \in param'
                                          \/ rt'[wk'[w].cid] \in Deleted
    BY <1>2 DEF MInv, MapBacked, Quiet, Persist, Destroyed
  <2>3. \A s \in Sids : dirty'[s] # 0 => rt'[dirty'[s]] \in Deleted
    BY <1>1 DEF MInv, MapBacked, Quiet, Persist, TypeOK, Destroyed
  <2> QED BY <2>1, <2>2, <2>3 DEF MapBacked, Destroyed
<1>7. SupersededIsKicked'
  <2> SUFFICES ASSUME NEW c \in Cids, c \notin overtaken', rt'[c] \in Serving, status'[c] = "LOGIN"
               PROVE  Reached(c)' \/ c \in kick_list' \cup kicked'
    BY DEF SupersededIsKicked, Stays, Serving
  <2>0. c \notin overtaken BY DEF Persist
  <2>1. status[c] = "LOGIN" /\ csid[c] # 0 BY DEF Quiet, MInv, WInv, SidKnown
  <2>2. rt[c] \in Serving BY <2>1 DEF Persist, MInv, Accepted
  <2>3. CASE \E s \in Sids : sid2cid[s] = c BY <2>3 DEF Quiet, Reached
  <2>4. CASE Mapping(c)
    <3>1. PICK w \in Workers : wk[w].at \in {"query", "map"} /\ wk[w].cid = c BY <2>4 DEF Mapping
    <3>2. wk'[w] = wk[w] BY <1>1, <3>1, AckingIs DEF Quiet
    <3> QED BY <3>1, <3>2 DEF Mapping, Reached
  <2>5. CASE c \in kick_list \cup kicked BY <2>2, <2>5 DEF Serving, Persist, Leaving, LeavingNext
  <2> QED BY <2>0, <2>1, <2>2, <2>3, <2>4, <2>5 DEF MInv, SupersededIsKicked, Stays, Reached, Serving
<1> QED BY <1>3, <1>4, <1>5, <1>6, <1>7 DEF MInv

\* The steps of a connection, of a timer and of the bus that are quiet.
QuietSteps ==
    \/ \E c \in Cids : \/ conn_handler(c) \/ OnlineCheck(c) \/ LsndMesgCommHandler(c)
                     \/ NotOnline(c) \/ LsndMesgOfflineHandler(c) \/ LsndMesgRoomQuitHandler(c)
                     \/ RoomQuitDel(c) \/ RecvEnd(c) \/ KickedEnd(c)
                     \/ DestroyRoom(c) \/ DestroyEnd(c) \/ task_timer_kick(c)
                     \/ TimeoutLogin(c) \/ TimeoutIdle(c)
    \/ \E w \in Workers, k \in Keys : lsnd_error_online_ack_handler(w, k)
    \/ \E w \in Workers, s \in Sids : LsndUpMesgKickHandler(w, s)
    \/ Lose \/ UNCHANGED vars

LEMMA QuietStep ==
    ASSUME MInv, QuietSteps
    PROVE  Quiet
<1> USE DEF Quiet, Acking, Working, connVars, tabVars, upVars, histVars
<1>0. status \in [Cids -> Status] BY DEF MInv, WInv, TypeOK
<1>1. ASSUME NEW c \in Cids, conn_handler(c) PROVE Quiet BY <1>0, <1>1 DEF conn_handler
<1>2. ASSUME NEW c \in Cids, OnlineCheck(c) PROVE Quiet BY <1>0, <1>2 DEF OnlineCheck
<1>3. ASSUME NEW c \in Cids, LsndMesgCommHandler(c) PROVE Quiet BY <1>0, <1>3 DEF LsndMesgCommHandler
<1>4. ASSUME NEW c \in Cids, NotOnline(c) PROVE Quiet BY <1>0, <1>4 DEF NotOnline
<1>5. ASSUME NEW c \in Cids, LsndMesgOfflineHandler(c) PROVE Quiet BY <1>0, <1>5 DEF LsndMesgOfflineHandler
<1>6. ASSUME NEW c \in Cids, LsndMesgRoomQuitHandler(c) PROVE Quiet BY <1>0, <1>6 DEF LsndMesgRoomQuitHandler
<1>7. ASSUME NEW c \in Cids, RoomQuitDel(c) PROVE Quiet BY <1>0, <1>7 DEF RoomQuitDel
<1>8. ASSUME NEW c \in Cids, RecvEnd(c) PROVE Quiet BY <1>0, <1>8 DEF RecvEnd
<1>9. ASSUME NEW c \in Cids, KickedEnd(c) PROVE Quiet BY <1>0, <1>9 DEF KickedEnd
<1>10. ASSUME NEW c \in Cids, DestroyRoom(c) PROVE Quiet BY <1>0, <1>10 DEF DestroyRoom
<1>11. ASSUME NEW c \in Cids, DestroyEnd(c) PROVE Quiet BY <1>0, <1>11 DEF DestroyEnd
<1>12. ASSUME NEW c \in Cids, task_timer_kick(c) PROVE Quiet BY <1>0, <1>12 DEF task_timer_kick
<1>13. ASSUME NEW c \in Cids, TimeoutLogin(c) PROVE Quiet BY <1>0, <1>13 DEF TimeoutLogin
<1>14. ASSUME NEW c \in Cids, TimeoutIdle(c) PROVE Quiet BY <1>0, <1>14 DEF TimeoutIdle
<1>15. ASSUME NEW w \in Workers, NEW k \in Keys, lsnd_error_online_ack_handler(w, k) PROVE Quiet BY <1>0, <1>15 DEF lsnd_error_online_ack_handler
<1>16. ASSUME NEW w \in Workers, NEW s \in Sids, LsndUpMesgKickHandler(w, s) PROVE Quiet BY <1>0, <1>16 DEF LsndUpMesgKickHandler
<1>17. CASE Lose BY <1>0, <1>17 DEF Lose
<1>18. CASE UNCHANGED vars BY <1>18 DEF vars
<1> QED BY <1>1, <1>2, <1>3, <1>4, <1>5, <1>6, <1>7, <1>8, <1>9,
           <1>10, <1>11, <1>12, <1>13, <1>14, <1>15, <1>16, <1>17, <1>18 DEF QuietSteps

\* The room handlers of a worker are quiet: none of their steps is one of an ONLINE-ACK.
LEMMA QuietRooms ==
    ASSUME MInv, WInv', NEW w \in Workers,
           \/ JoinSession(w) \/ JoinRoom(w) \/ RoomKickDel(w)
           \/ \E s \in Sids : LsndUpMesgRoomJoinAckHandler(w, s) \/ LsndUpMesgRoomKickHandler(w, s)
    PROVE  Quiet
<1>1. TypeOK /\ TypeOK' BY DEF MInv, WInv
<1>2. UNCHANGED <<csid, status, param, sid2cid, dirty, online>>
  BY DEF JoinSession, JoinRoom, RoomKickDel, LsndUpMesgRoomJoinAckHandler, LsndUpMesgRoomKickHandler,
         connVars, tabVars, upVars, histVars
<1>3. Idle.at = "idle" BY DEF Idle
<1>4. \A a, s, c : Handler(a, s, c).at = a BY DEF Handler
<1>5. \A v \in Workers : v # w => wk'[v] = wk[v]
  BY <1>1 DEF JoinSession, JoinRoom, RoomKickDel, LsndUpMesgRoomJoinAckHandler,
              LsndUpMesgRoomKickHandler, Become, TypeOK
<1>6. wk[w].at \notin {"login", "query", "map"}
  BY <1>3 DEF JoinSession, JoinRoom, RoomKickDel, LsndUpMesgRoomJoinAckHandler,
              LsndUpMesgRoomKickHandler
<1>7. wk'[w].at \notin {"login", "query", "map"}
  <2>1. CASE UNCHANGED wk BY <1>6, <2>1
  <2>2. ASSUME NEW h, Become(w, h) PROVE wk'[w] = h BY <1>1, <2>2 DEF Become, TypeOK
  <2>3. CASE JoinSession(w)
    <3>1. Become(w, Handler("join_room", wk[w].sid, wk[w].cid)) BY <2>3 DEF JoinSession
    <3> QED BY <3>1, <2>2, <1>4
  <2>4. CASE JoinRoom(w) \/ RoomKickDel(w)
    <3>1. Become(w, Idle) BY <2>4 DEF JoinRoom, RoomKickDel
    <3> QED BY <3>1, <2>2, <1>3
  <2>5. ASSUME NEW s \in Sids, LsndUpMesgRoomJoinAckHandler(w, s), ~UNCHANGED wk
        PROVE  wk'[w].at = "join_session"
    <3>1. Become(w, Handler("join_session", s, sid2cid[s])) BY <2>5 DEF LsndUpMesgRoomJoinAckHandler
    <3> QED BY <3>1, <2>2, <1>4
  <2>6. ASSUME NEW s \in Sids, LsndUpMesgRoomKickHandler(w, s)
        PROVE  wk'[w].at = "quit"
    <3> DEFINE k == <<csid[sid2cid[s]], sid2cid[s]>>
    <3>1. Become(w, Handler("quit", k[1], k[2])) BY <2>6 DEF LsndUpMesgRoomKickHandler
    <3> QED BY <3>1, <2>2, <1>4
  <2> QED BY <2>1, <2>3, <2>4, <2>5, <2>6
<1> QED BY <1>2, <1>5, <1>6, <1>7 DEF Quiet, Acking

\* A step that neither the map nor the ONLINE-ACK handlers see keeps what they rely on.
LEMMA MapKept ==
    ASSUME MInv, Persist, UNCHANGED <<sid2cid, wk>>
    PROVE  Overwritten'
<1> SUFFICES ASSUME NEW w \in Workers, Working(w), wk[w].at = "map"
             PROVE  LET old == sid2cid[wk[w].sid] IN old = 0 \/ old = wk[w].cid \/ LeavingNext(old) \/ old \in overtaken'
  BY DEF Overwritten, Leaving, LeavingNext, Working
<1>1. wk[w].sid \in Sids BY Works DEF MInv, WInv
<1>2. sid2cid[wk[w].sid] = 0 \/ sid2cid[wk[w].sid] \in Cids BY <1>1, Named
<1> QED BY <1>2 DEF MInv, Overwritten, Persist

LEMMA M_LsndMesgOnlineHandler ==
    ASSUME MInv, WInv', Persist,
           NEW c \in Cids, NEW s \in ClientSids[c], LsndMesgOnlineHandler(c, s)
    PROVE  MInv'
<1> USE DEF LsndMesgOnlineHandler, tabVars, upVars, histVars
<1>1. s \in Sids /\ s # 0 BY WsListendAssumption
<1>2. TypeOK /\ TypeOK' BY DEF MInv, WInv
<1>3. csid'[c] = s /\ \A d \in Cids : d # c => csid'[d] = csid[d] BY <1>2 DEF TypeOK
<1>4. /\ param \subseteq param' /\ param' \subseteq param \cup {<<s, c>>}
      /\ online' = online \cup {<<s, c>>}
  OBVIOUS
<1>5. \A w \in Workers : Acking(w)' <=> Acking(w) BY DEF Acking, Working
<1>6. \A k \in online \cup param : k[2] \in Cids BY <1>2, KeyIs DEF TypeOK
<1>7. \A w \in Workers : Acking(w) => wk[w].cid \in Cids BY <1>2, AckingIs
<1>8. SidPresented'
  <2>2. ASSUME NEW k \in online' \cup param' PROVE csid'[k[2]] # 0
    <3>1. CASE k = <<s, c>> BY <3>1, <1>1, <1>3
    <3>2. CASE k \in online \cup param BY <3>2, <1>1, <1>3, <1>6 DEF MInv, SidPresented
    <3> QED BY <3>1, <3>2, <1>4
  <2>3. \A w \in Workers : Acking(w)' => csid'[wk'[w].cid] # 0
    BY <1>1, <1>3, <1>5, <1>7 DEF MInv, SidPresented
  <2> QED BY <2>2, <2>3 DEF SidPresented
<1>9. Accepted'
  <2>1. rt[c] # "none" BY DEF At
  <2> QED BY <2>1, <1>3 DEF MInv, Accepted, Persist
<1>10. Overwritten' BY MapKept
<1>11. MapBacked'
  <2>1. \A e \in Sids : sid2cid[e] # 0 => <<e, sid2cid[e]>> \in param' \/ rt'[sid2cid[e]] \in Deleted
    BY <1>4, Named DEF MInv, MapBacked, Destroyed, Persist
  <2>2. \A w \in Workers : Acking(w) => <<wk[w].sid, wk[w].cid>> \in param' \/ rt'[wk[w].cid] \in Deleted
    BY <1>4, <1>7 DEF MInv, MapBacked, Destroyed, Persist
  <2>3. \A e \in Sids : dirty[e] # 0 => rt'[dirty[e]] \in Deleted
    BY <1>2 DEF MInv, MapBacked, Destroyed, Persist, TypeOK
  <2> QED BY <2>1, <2>2, <2>3, <1>5 DEF MapBacked, Destroyed
<1>12. SupersededIsKicked'
  <2> SUFFICES ASSUME NEW d \in Cids, d \notin overtaken, rt'[d] \in Serving, status[d] = "LOGIN"
               PROVE  Reached(d) \/ d \in kick_list \cup kicked
    BY DEF SupersededIsKicked, Stays, Serving, Reached, Mapping
  <2>1. rt[d] \in Serving BY DEF Persist, MInv, Accepted, WInv, SidKnown
  <2> QED BY <2>1 DEF MInv, SupersededIsKicked, Stays, Serving
<1> QED BY <1>8, <1>9, <1>10, <1>11, <1>12 DEF MInv

\* DestroyMap, DestroySession and the clean-up of the map: entries go, and only those of connections
\* that no longer serve; sessions go, and only those of connections that are destroyed.
LEMMA Removes ==
    ASSUME MInv, WInv', Persist, UNCHANGED <<status, csid, online, wk>>, param' \subseteq param,
           \A k \in param : k \in param' \/ rt'[k[2]] \in Deleted,
           \A s \in Sids : sid2cid'[s] = sid2cid[s] \/ sid2cid'[s] = 0,
           \A s \in Sids : sid2cid'[s] # sid2cid[s] => rt'[sid2cid[s]] \notin Serving,
           \A s \in Sids : dirty'[s] = 0 \/ rt'[dirty'[s]] \in Deleted
    PROVE  MInv'
<1>1. TypeOK /\ TypeOK' BY DEF MInv, WInv
<1>2. \A w \in Workers : Acking(w)' <=> Acking(w) BY DEF Acking, Working
<1>3. \A w \in Workers : Acking(w) => wk[w].sid \in Sids /\ wk[w].cid \in Cids BY <1>1, AckingIs
<1>4. SidPresented' BY <1>2 DEF MInv, SidPresented
<1>5. Accepted' BY DEF MInv, Accepted, Persist
<1>6. Overwritten'
  <2> SUFFICES ASSUME NEW w \in Workers, Working(w), wk[w].at = "map"
               PROVE  LET old == sid2cid'[wk[w].sid] IN old = 0 \/ old = wk[w].cid \/ LeavingNext(old) \/ old \in overtaken'
    BY DEF Overwritten, Leaving, LeavingNext, Working
  <2>1. wk[w].sid \in Sids BY <1>1, Works
  <2>2. sid2cid[wk[w].sid] = 0 \/ sid2cid[wk[w].sid] \in Cids BY <2>1, Named
  <2> QED BY <2>1, <2>2 DEF MInv, Overwritten, Persist
<1>7. MapBacked'
  <2>1. \A e \in Sids : sid2cid'[e] # 0 => <<e, sid2cid'[e]>> \in param' \/ rt'[sid2cid'[e]] \in Deleted
    <3> SUFFICES ASSUME NEW e \in Sids, sid2cid[e] # 0
                 PROVE  <<e, sid2cid[e]>> \in param' \/ rt'[sid2cid[e]] \in Deleted
      OBVIOUS
    <3>1. sid2cid[e] \in Cids BY Named
    <3> QED BY <3>1 DEF MInv, MapBacked, Destroyed, Persist
  <2>2. \A w \in Workers : Acking(w) => <<wk[w].sid, wk[w].cid>> \in param' \/ rt'[wk[w].cid] \in Deleted
    BY <1>3 DEF MInv, MapBacked, Destroyed, Persist
  <2> QED BY <2>1, <2>2, <1>2 DEF MapBacked, Destroyed
<1>8. SupersededIsKicked'
  <2> SUFFICES ASSUME NEW d \in Cids, d \notin overtaken', rt'[d] \in Serving, status[d] = "LOGIN"
               PROVE  \/ \E e \in Sids : sid2cid'[e] = d
                      \/ Mapping(d) \/ d \in kick_list' \cup kicked'
    BY DEF SupersededIsKicked, Stays, Serving, Reached, Mapping
  <2>0. d \notin overtaken BY DEF Persist
  <2>1. csid[d] # 0 /\ csid[d] \in Sids BY <1>1 DEF MInv, WInv, SidKnown, TypeOK
  <2>2. rt[d] \in Serving /\ rt[d] # "none" BY <2>1 DEF Persist, MInv, Accepted
  <2>3. CASE \E e \in Sids : sid2cid[e] = d BY <2>3
  <2>4. CASE d \in kick_list \cup kicked BY <2>2, <2>4 DEF Persist, Leaving, LeavingNext
  <2> QED BY <2>0, <2>2, <2>3, <2>4 DEF MInv, SupersededIsKicked, Stays, Reached, Serving
<1> QED BY <1>4, <1>5, <1>6, <1>7, <1>8 DEF MInv

LEMMA M_DestroyMap ==
    ASSUME MInv, WInv', Persist, NEW c \in Cids, DestroyMap(c)
    PROVE  MInv'
<1> USE DEF DestroyMap, tabVars, upVars, histVars, At, GoTo
<1>1. rt'[c] \notin Serving BY DEF MInv, WInv, TypeOK, Serving
<1>2. \A s \in Sids : sid2cid'[s] = sid2cid[s] \/ sid2cid'[s] = 0 OBVIOUS
<1>3. \A s \in Sids : sid2cid'[s] # sid2cid[s] => rt'[sid2cid[s]] \notin Serving BY <1>1
<1>4. \A s \in Sids : dirty'[s] = 0 \/ rt'[dirty'[s]] \in Deleted
  BY DEF MInv, WInv, TypeOK, MapBacked, Destroyed, Persist
<1> QED BY <1>2, <1>3, <1>4, Removes

LEMMA M_DestroySession ==
    ASSUME MInv, WInv', Persist, NEW c \in Cids, DestroySession(c)
    PROVE  MInv'
<1> USE DEF DestroySession, upVars, histVars, At, GoTo
<1>1. rt'[c] \in Deleted BY DEF MInv, WInv, TypeOK, Deleted
<1>2. \A k \in param : k \in param' \/ rt'[k[2]] \in Deleted BY <1>1
<1>3. \A s \in Sids : dirty'[s] = 0 \/ rt'[dirty'[s]] \in Deleted
  BY DEF MInv, WInv, TypeOK, MapBacked, Destroyed, Persist
<1> QED BY <1>2, <1>3, Removes

LEMMA M_query_dirty ==
    ASSUME MInv, WInv', Persist, query_dirty
    PROVE  MInv'
<1> USE DEF query_dirty, connVars, tabVars, upVars, histVars
<1>1. \A s \in Sids : dirty'[s] = 0 \/ rt'[dirty'[s]] \in Deleted
  BY DEF MInv, MapBacked, Destroyed
<1> QED BY <1>1, Removes

LEMMA M_CleanSid2cid ==
    ASSUME MInv, WInv', Persist, CleanSid2cid
    PROVE  MInv'
<1> USE DEF connVars, tabVars, upVars, histVars
<1>1. \A s \in Sids : sid2cid'[s] = sid2cid[s] \/ (sid2cid'[s] = 0 /\ dirty[s] = sid2cid[s])
  BY DEF CleanSid2cid
<1>2. \A s \in Sids : sid2cid'[s] # sid2cid[s] => rt'[sid2cid[s]] \notin Serving
  <2> SUFFICES ASSUME NEW s \in Sids, sid2cid'[s] # sid2cid[s] PROVE rt'[sid2cid[s]] \notin Serving
    OBVIOUS
  <2>1. dirty[s] = sid2cid[s] /\ dirty[s] # 0 BY <1>1
  <2>2. Destroyed(dirty[s]) BY <2>1 DEF MInv, MapBacked
  <2> QED BY <2>1, <2>2 DEF CleanSid2cid, Destroyed, Deleted, Serving
<1>3. \A s \in Sids : dirty'[s] = 0 BY DEF CleanSid2cid, NoDirty
<1>4. UNCHANGED <<status, csid, online, wk, param>> BY DEF CleanSid2cid
<1> QED BY <1>1, <1>2, <1>3, <1>4, Removes


\* A step of an ONLINE-ACK handler: h is what the worker does next.  What is left to show of it is
\* the SID, the entry to be overwritten and the map.
LEMMA AckSteps ==
    ASSUME MInv, WInv', Persist, NEW w \in Workers, NEW h \in Handlers, Become(w, h),
           UNCHANGED <<csid, rt, param, dirty>>, online' \subseteq online,
           h # Idle /\ h.at \in {"login", "query", "map"} =>
               /\ csid[h.cid] # 0
               /\ <<h.sid, h.cid>> \in param \/ Destroyed(h.cid)
    PROVE  /\ SidPresented' /\ Accepted'
           /\ \A v \in Workers : /\ Acking(v)' => \/ <<wk'[v].sid, wk'[v].cid>> \in param
                                                  \/ Destroyed(wk'[v].cid)
                                 /\ v # w => wk'[v] = wk[v]
           /\ wk'[w] = h
<1>1. TypeOK BY DEF MInv, WInv
<1>2. wk'[w] = h /\ \A v \in Workers : v # w => wk'[v] = wk[v] BY <1>1, Becomes
<1>3. ASSUME NEW v \in Workers, Acking(v)'
      PROVE  /\ csid[wk'[v].cid] # 0
             /\ <<wk'[v].sid, wk'[v].cid>> \in param \/ Destroyed(wk'[v].cid)
  <2>1. CASE v = w BY <2>1, <1>2, <1>3 DEF Acking, Working
  <2>2. CASE v # w
    <3>1. wk'[v] = wk[v] /\ Acking(v) BY <2>2, <1>2, <1>3 DEF Acking, Working
    <3> QED BY <3>1 DEF MInv, SidPresented, MapBacked
  <2> QED BY <2>1, <2>2
<1>4. SidPresented' BY <1>3 DEF MInv, SidPresented
<1>5. Accepted' BY DEF MInv, Accepted
<1> QED BY <1>2, <1>3, <1>4, <1>5

LEMMA M_LsndUpMesgOnlineAckHandler ==
    ASSUME MInv, WInv', Persist, NEW w \in Workers, NEW k \in Keys, LsndUpMesgOnlineAckHandler(w, k)
    PROVE  MInv'
<1> USE DEF LsndUpMesgOnlineAckHandler, connVars, tabVars
<1> DEFINE h == Handler("login", k[1], k[2])
<1>1. k = <<k[1], k[2]>> /\ k[1] \in Sids /\ k[2] \in Cids BY KeyIs
<1>2. h \in Handlers /\ h.at = "login" /\ h.sid = k[1] /\ h.cid = k[2] BY <1>1, HandlerIs DEF Doing
<1>3. csid[h.cid] # 0 /\ <<h.sid, h.cid>> \in param
  BY <1>1, <1>2 DEF MInv, SidPresented
<1>4. Become(w, h) OBVIOUS
<1> HIDE DEF h
<1>5. /\ SidPresented' /\ Accepted'
      /\ \A v \in Workers : /\ Acking(v)' => \/ <<wk'[v].sid, wk'[v].cid>> \in param
                                             \/ Destroyed(wk'[v].cid)
                            /\ v # w => wk'[v] = wk[v]
      /\ wk'[w] = h
  BY <1>2, <1>3, <1>4, AckSteps
<1>6. Overwritten'
  <2>1. \A v \in Workers : wk'[v].at = "map" => wk'[v] = wk[v] BY <1>2, <1>5
  <2> QED BY <2>1 DEF MInv, Overwritten, Working, Leaving, Persist
<1>7. MapBacked' BY <1>5 DEF MInv, MapBacked, Destroyed
<1>8. SupersededIsKicked'
  <2>1. \A d \in Cids : Mapping(d) => Mapping(d)'
    <3> SUFFICES ASSUME NEW d \in Cids, Mapping(d) PROVE Mapping(d)' OBVIOUS
    <3>1. PICK v \in Workers : wk[v].at \in {"query", "map"} /\ wk[v].cid = d BY DEF Mapping
    <3>2. v # w BY <3>1 DEF Idle
    <3> QED BY <3>1, <3>2, <1>5 DEF Mapping
  <2> QED BY <2>1 DEF MInv, SupersededIsKicked, Stays, Reached
<1> QED BY <1>5, <1>6, <1>7, <1>8 DEF MInv

LEMMA M_AckLogin ==
    ASSUME MInv, WInv', Persist, NEW w \in Workers, AckLogin(w)
    PROVE  MInv'
<1> USE DEF AckLogin, tabVars, upVars, histVars
<1> DEFINE c == wk[w].cid
           h == Handler("query", wk[w].sid, wk[w].cid)
<1>1. TypeOK BY DEF MInv, WInv
<1>2. Acking(w) /\ wk[w].sid \in Sids /\ c \in Cids BY <1>1, AckingIs
<1>3. h \in Handlers /\ h.at = "query" /\ h.sid = wk[w].sid /\ h.cid = c BY <1>2, HandlerIs DEF Doing
<1>4. csid[h.cid] # 0 /\ (<<h.sid, h.cid>> \in param \/ Destroyed(h.cid))
  BY <1>2, <1>3 DEF MInv, SidPresented, MapBacked
<1>5. Become(w, h) /\ status' = [status EXCEPT ![c] = "LOGIN"] OBVIOUS
<1> HIDE DEF h
<1>6. /\ SidPresented' /\ Accepted'
      /\ \A v \in Workers : /\ Acking(v)' => \/ <<wk'[v].sid, wk'[v].cid>> \in param
                                             \/ Destroyed(wk'[v].cid)
                            /\ v # w => wk'[v] = wk[v]
      /\ wk'[w] = h
  BY <1>3, <1>4, <1>5, AckSteps
<1>7. Overwritten'
  <2>1. \A v \in Workers : wk'[v].at = "map" => wk'[v] = wk[v] BY <1>3, <1>6
  <2> QED BY <2>1 DEF MInv, Overwritten, Working, Leaving, Persist
<1>8. MapBacked' BY <1>6 DEF MInv, MapBacked, Destroyed
<1>9. SupersededIsKicked'
  <2>1. \A d \in Cids : Mapping(d) => Mapping(d)'
    <3> SUFFICES ASSUME NEW d \in Cids, Mapping(d) PROVE Mapping(d)' OBVIOUS
    <3>1. PICK v \in Workers : wk[v].at \in {"query", "map"} /\ wk[v].cid = d BY DEF Mapping
    <3>2. v # w BY <3>1
    <3> QED BY <3>1, <3>2, <1>6 DEF Mapping
  <2>2. \A d \in Cids : d = c => Mapping(d)' BY <1>3, <1>6 DEF Mapping
  <2>3. \A d \in Cids : d # c => status'[d] = status[d] BY <1>1, <1>5 DEF TypeOK
  <2> SUFFICES ASSUME NEW d \in Cids, d \notin overtaken, rt[d] \in Serving, status'[d] = "LOGIN"
               PROVE  \/ \E e \in Sids : sid2cid[e] = d
                      \/ Mapping(d)' \/ d \in kick_list \cup kicked
    BY DEF SupersededIsKicked, Stays, Reached, Serving
  <2>4. CASE d = c BY <2>2, <2>4
  <2>5. CASE d # c BY <2>1, <2>3, <2>5 DEF MInv, SupersededIsKicked, Stays, Reached, Serving
  <2> QED BY <2>4, <2>5
<1> QED BY <1>6, <1>7, <1>8, <1>9 DEF MInv

LEMMA M_AckQuery ==
    ASSUME MInv, WInv', Persist, NEW w \in Workers, AckQuery(w)
    PROVE  MInv'
<1> USE DEF AckQuery, connVars, tabVars, upVars, histVars
<1> DEFINE c == wk[w].cid
           s == wk[w].sid
           h == Handler("map", s, c)
<1>1. TypeOK BY DEF MInv, WInv
<1>2. Acking(w) /\ s \in Sids /\ c \in Cids BY <1>1, AckingIs
<1>3. h \in Handlers /\ h.at = "map" /\ h.sid = s /\ h.cid = c BY <1>2, HandlerIs DEF Doing
<1>4. csid[h.cid] # 0 /\ (<<h.sid, h.cid>> \in param \/ Destroyed(h.cid))
  BY <1>2, <1>3 DEF MInv, SidPresented, MapBacked
<1>5. Become(w, h) OBVIOUS
<1>6. kick_list \subseteq kick_list' BY DEF kick_add
<1>7. sid2cid[s] # 0 /\ sid2cid[s] # c => sid2cid[s] \in kick_list' BY <1>2, Named DEF kick_add
<1> HIDE DEF h
<1>8. /\ SidPresented' /\ Accepted'
      /\ \A v \in Workers : /\ Acking(v)' => \/ <<wk'[v].sid, wk'[v].cid>> \in param
                                             \/ Destroyed(wk'[v].cid)
                            /\ v # w => wk'[v] = wk[v]
      /\ wk'[w] = h
  BY <1>3, <1>4, <1>5, AckSteps
<1>9. Overwritten'
  <2> SUFFICES ASSUME NEW v \in Workers, wk'[v] # Idle, wk'[v].at = "map"
               PROVE  LET old == sid2cid[wk'[v].sid] IN old = 0 \/ old = wk'[v].cid \/ LeavingNext(old) \/ old \in overtaken'
    BY DEF Overwritten, Leaving, LeavingNext, Working
  <2>1. CASE v = w
    <3> SUFFICES ASSUME sid2cid[s] # 0, sid2cid[s] # c PROVE LeavingNext(sid2cid[s])
      BY <2>1, <1>3, <1>8
    <3>1. sid2cid[s] \in Cids BY <1>2, Named
    <3>2. CASE <<s, sid2cid[s]>> \in param
      <4>1. csid[sid2cid[s]] # 0 BY <3>2 DEF MInv, SidPresented
      <4> QED BY <4>1, <3>1, <1>7 DEF LeavingNext, MInv, Accepted
    <3>3. CASE Destroyed(sid2cid[s]) BY <3>3 DEF Destroyed, Deleted, LeavingNext, Serving
    <3> QED BY <3>2, <3>3, <1>2 DEF MInv, MapBacked
  <2>2. CASE v # w
    <3>1. wk'[v] = wk[v] /\ Working(v) BY <2>2, <1>8 DEF Working
    <3>2. wk[v].sid \in Sids BY <3>1, <1>1, Works
    <3>3. sid2cid[wk[v].sid] = 0 \/ sid2cid[wk[v].sid] \in Cids BY <3>2, Named
    <3> QED BY <3>1, <3>3 DEF MInv, Overwritten, Persist
  <2> QED BY <2>1, <2>2
<1>10. MapBacked' BY <1>8 DEF MInv, MapBacked, Destroyed
<1>11. SupersededIsKicked'
  <2>1. \A d \in Cids : Mapping(d) => Mapping(d)'
    <3> SUFFICES ASSUME NEW d \in Cids, Mapping(d) PROVE Mapping(d)' OBVIOUS
    <3>1. PICK v \in Workers : wk[v].at \in {"query", "map"} /\ wk[v].cid = d BY DEF Mapping
    <3>2. CASE v = w BY <3>1, <3>2, <1>3, <1>8 DEF Mapping
    <3>3. CASE v # w BY <3>1, <3>3, <1>8 DEF Mapping
    <3> QED BY <3>2, <3>3
  <2> QED BY <2>1, <1>6 DEF MInv, SupersededIsKicked, Stays, Reached
<1> QED BY <1>8, <1>9, <1>10, <1>11 DEF MInv

\* The entry is overwritten: its connection is leaving, or was entered unseen; and a worker that
\* has looked the SID up and not yet written finds a connection that overtook it.
LEMMA M_AckMap ==
    ASSUME MInv, WInv', Persist, NEW w \in Workers, AckMap(w)
    PROVE  MInv'
<1> USE DEF AckMap, connVars, tabVars, upVars
<1> DEFINE c == wk[w].cid
           s == wk[w].sid
<1>1. TypeOK BY DEF MInv, WInv
<1>2. Acking(w) /\ Working(w) /\ s \in Sids /\ c \in Cids BY <1>1, AckingIs
<1>3. Idle \in Handlers BY IdleIs
<1>4. /\ SidPresented' /\ Accepted'
      /\ \A v \in Workers : /\ Acking(v)' => \/ <<wk'[v].sid, wk'[v].cid>> \in param
                                             \/ Destroyed(wk'[v].cid)
                            /\ v # w => wk'[v] = wk[v]
      /\ wk'[w] = Idle
  BY <1>3, AckSteps
<1>5. sid2cid'[s] = c /\ \A e \in Sids : e # s => sid2cid'[e] = sid2cid[e] BY <1>1, <1>2 DEF TypeOK
<1>6. Overwritten'
  <2> SUFFICES ASSUME NEW v \in Workers, wk'[v] # Idle, wk'[v].at = "map"
               PROVE  LET old == sid2cid'[wk'[v].sid]
                      IN  old = 0 \/ old = wk'[v].cid \/ LeavingNext(old) \/ old \in overtaken'
    BY DEF Overwritten, Leaving, LeavingNext, Working
  <2>1. v # w /\ wk'[v] = wk[v] /\ Working(v) BY <1>4 DEF Working
  <2>2. wk[v].sid \in Sids BY <2>1, <1>1, Works
  <2>3. CASE wk[v].sid = s BY <2>1, <2>3, <1>5
  <2>4. CASE wk[v].sid # s
    <3>1. LET old == sid2cid[wk[v].sid]
          IN  old = 0 \/ old = wk[v].cid \/ Leaving(old) \/ old \in overtaken
      BY <2>1 DEF MInv, Overwritten
    <3>2. sid2cid'[wk[v].sid] = sid2cid[wk[v].sid] BY <2>2, <2>4, <1>5
    <3>3. sid2cid[wk[v].sid] = 0 \/ sid2cid[wk[v].sid] \in Cids BY <2>2, Named
    <3> QED BY <2>1, <3>1, <3>2, <3>3 DEF Persist
  <2> QED BY <2>3, <2>4
<1>7. <<s, c>> \in param \/ Destroyed(c) BY <1>2 DEF MInv, MapBacked
<1>8. MapBacked'
  <2>1. \A e \in Sids : sid2cid'[e] # 0 => <<e, sid2cid'[e]>> \in param \/ rt[sid2cid'[e]] \in Deleted
    BY <1>5, <1>7 DEF MInv, MapBacked, Destroyed
  <2>2. \A e \in Sids : dirty[e] # 0 => rt[dirty[e]] \in Deleted BY DEF MInv, MapBacked, Destroyed
  <2> QED BY <2>1, <2>2, <1>4 DEF MapBacked, Destroyed
<1>9. SupersededIsKicked'
  <2> SUFFICES ASSUME NEW d \in Cids, d \notin overtaken', rt[d] \in Serving, status[d] = "LOGIN",
                      d \notin kick_list \cup kicked
               PROVE  Reached(d)'
    BY DEF SupersededIsKicked, Stays, Serving
  <2>1. d \notin overtaken BY DEF Persist
  <2>2. Mapping(d) \/ \E e \in Sids : sid2cid[e] = d
    BY <2>1 DEF MInv, SupersededIsKicked, Stays, Reached, Serving
  <2>3. CASE d = c BY <2>3, <1>2, <1>5 DEF Reached
  <2>4. CASE d # c /\ Mapping(d)
    <3>1. PICK v \in Workers : wk[v].at \in {"query", "map"} /\ wk[v].cid = d BY <2>4 DEF Mapping
    <3>2. wk'[v] = wk[v] BY <3>1, <2>4, <1>4
    <3> QED BY <3>1, <3>2 DEF Reached, Mapping
  <2>5. ASSUME d # c, NEW e \in Sids, sid2cid[e] = d PROVE Reached(d)'
    <3>1. CASE e # s BY <2>5, <3>1, <1>5 DEF Reached
    <3>2. CASE e = s
      <4>1. d # 0 BY WsListendAssumption
      <4>2. Leaving(d) BY <2>1, <2>5, <3>2, <4>1, <1>2 DEF MInv, Overwritten
      <4> QED BY <4>2 DEF Leaving
    <3> QED BY <3>1, <3>2
  <2> QED BY <2>2, <2>3, <2>4, <2>5
<1> QED BY <1>4, <1>6, <1>8, <1>9 DEF MInv

LEMMA InitM == Init => MInv
<1> SUFFICES ASSUME Init PROVE MInv OBVIOUS
<1>1. WInv BY InitW
<1>2. \A w \in Workers : ~Working(w) /\ ~Acking(w) BY DEF Init, Working, Acking
<1>3. SidPresented /\ Accepted BY <1>2 DEF Init, SidPresented, Accepted
<1>4. Overwritten /\ MapBacked BY <1>2 DEF Init, Overwritten, MapBacked, NoDirty
<1>5. SupersededIsKicked BY DEF Init, SupersededIsKicked, Stays
<1> QED BY <1>1, <1>3, <1>4, <1>5 DEF MInv

LEMMA NextM ==
    ASSUME MInv, [Next]_vars
    PROVE  MInv'
<1>1. WInv' BY NextW DEF MInv
<1>2. Persist BY Persists DEF MInv
<1>3. CASE QuietSteps BY <1>1, <1>2, <1>3, QuietStep, QuietKeeps
<1>4. ASSUME NEW c \in Cids, NEW s \in ClientSids[c], LsndMesgOnlineHandler(c, s) PROVE MInv'
  BY <1>1, <1>2, <1>4, M_LsndMesgOnlineHandler
<1>5. ASSUME NEW c \in Cids, DestroyMap(c) PROVE MInv' BY <1>1, <1>2, <1>5, M_DestroyMap
<1>6. ASSUME NEW c \in Cids, DestroySession(c) PROVE MInv' BY <1>1, <1>2, <1>6, M_DestroySession
<1>7. ASSUME NEW w \in Workers, NEW k \in Keys, LsndUpMesgOnlineAckHandler(w, k) PROVE MInv'
  BY <1>1, <1>2, <1>7, M_LsndUpMesgOnlineAckHandler
<1>8. ASSUME NEW w \in Workers, AckLogin(w) PROVE MInv' BY <1>1, <1>2, <1>8, M_AckLogin
<1>9. ASSUME NEW w \in Workers, AckQuery(w) PROVE MInv' BY <1>1, <1>2, <1>9, M_AckQuery
<1>10. ASSUME NEW w \in Workers, AckMap(w) PROVE MInv' BY <1>1, <1>2, <1>10, M_AckMap
<1>11. ASSUME NEW w \in Workers,
              \/ JoinSession(w) \/ JoinRoom(w) \/ RoomKickDel(w)
              \/ \E s \in Sids : LsndUpMesgRoomJoinAckHandler(w, s) \/ LsndUpMesgRoomKickHandler(w, s)
       PROVE  MInv'
  BY <1>1, <1>2, <1>11, QuietRooms, QuietKeeps
<1>12. CASE query_dirty BY <1>1, <1>2, <1>12, M_query_dirty
<1>13. CASE CleanSid2cid BY <1>1, <1>2, <1>13, M_CleanSid2cid
<1> QED BY <1>3, <1>4, <1>5, <1>6, <1>7, <1>8, <1>9, <1>10, <1>11, <1>12, <1>13
   DEF Next, QuietSteps, Recv, Destroy, Worker, Finish

\* For any number of connections, SIDs and workers: a logged in connection that no SID of the
\* SID->CID map leads to, nor an ONLINE-ACK handler is about to enter, is in the kick list, kicked or
\* closing, whatever the handlers, the destruction of connections and the clean-up of the map do
\* between each other; but for the connections that an answer for the same SID, looked up before
\* they were entered, writes over.
THEOREM SupersededLeaves == Spec => []SupersededIsKicked
<1>1. MInv /\ [Next]_vars => MInv' BY NextM
<1>2. MInv => SupersededIsKicked BY DEF MInv
<1> QED BY <1>1, <1>2, InitM, PTL DEF Spec

-----------------------------------------------------------------------------
\* What holds of a connection that no handler ran across (crossed): once it is being destroyed it is
\* in no handler's hands and its SID does not lead to it, so that what lsnd_conn_destroy has deleted
\* stays away; and the room's list has no key that the sessions have forgotten, but one whose
\* deletion from the list is the next thing to happen.
Handling(w, c) == Working(w) /\ wk[w].cid = c
Left(c) == /\ \A w \in Workers : ~Handling(w, c)
           /\ \A s \in Sids : s = csid[c] => sid2cid[s] # c
InList(c) ==
    \A s \in Sids : <<s, c>> \in member =>
        \/ <<s, c>> \in joined
        \/ rt[c] \in {"quit", "room_del"} /\ s = csid[c]
        \/ \E w \in Workers : Handling(w, c) /\ wk[w].at = "quit" /\ wk[w].sid = s
Joining(c) ==
    \A w \in Workers : Handling(w, c) /\ wk[w].at = "join_room" => <<wk[w].sid, c>> \in joined
CleanOf(c) ==
    /\ rt[c] \in Ending => Left(c)
    /\ rt[c] \in Deleted => <<csid[c], c>> \notin sessions
    /\ rt[c] \in {"notify", "gone"} => <<csid[c], c>> \notin member
    /\ InList(c) /\ Joining(c)
CInv == WInv /\ \A c \in Cids \ crossed : CleanOf(c)

LEMMA InitC == Init => CInv
<1>1. \A w \in Workers : Init => ~Working(w) BY DEF Init, Working
<1> QED BY <1>1, InitW DEF Init, CInv, CleanOf, InList, Joining, Handling, Ending, Deleted

\* A step that leaves the tables, the map and the handlers alone, and the connection where it was
\* or short of its destruction.
Apart(c) ==
    /\ UNCHANGED <<sessions, joined, member, sid2cid, wk>>
    /\ csid'[c] = csid[c]
    /\ \/ rt'[c] = rt[c]
       \/ rt[c] # "quit" /\ rt'[c] \notin Ending /\ rt[c] \notin Ending
       \/ rt[c] = "notify" /\ rt'[c] = "gone"

LEMMA ApartKeeps ==
    ASSUME NEW c \in Cids, CleanOf(c), Apart(c)
    PROVE  CleanOf(c)'
BY DEF CleanOf, Apart, Left, InList, Joining, Handling, Working, Ending, Deleted

\* The steps of the connections, of the timers and of the bus that leave every connection apart.
ApartSteps ==
    \/ \E c \in Cids : \/ conn_handler(c) \/ OnlineCheck(c) \/ LsndMesgCommHandler(c)
                      \/ NotOnline(c) \/ LsndMesgOfflineHandler(c) \/ RecvEnd(c) \/ KickedEnd(c)
                      \/ DestroyEnd(c) \/ task_timer_kick(c) \/ TimeoutLogin(c) \/ TimeoutIdle(c)
    \/ \E w \in Workers, k \in Keys : lsnd_error_online_ack_handler(w, k)
    \/ \E w \in Workers, s \in Sids : LsndUpMesgKickHandler(w, s)
    \/ Lose \/ query_dirty \/ UNCHANGED vars

LEMMA ApartStep ==
    ASSUME TypeOK, ApartSteps, NEW d \in Cids
    PROVE  Apart(d)
<1> USE DEF Apart, Ending, At, GoTo, connVars, tabVars, upVars
<1>0. rt \in [Cids -> Places] BY DEF TypeOK
<1>1. ASSUME NEW c \in Cids, conn_handler(c) PROVE Apart(d) BY <1>0, <1>1 DEF conn_handler
<1>2. ASSUME NEW c \in Cids, OnlineCheck(c) PROVE Apart(d) BY <1>0, <1>2 DEF OnlineCheck
<1>3. ASSUME NEW c \in Cids, LsndMesgCommHandler(c) PROVE Apart(d) BY <1>0, <1>3 DEF LsndMesgCommHandler
<1>4. ASSUME NEW c \in Cids, NotOnline(c) PROVE Apart(d) BY <1>0, <1>4 DEF NotOnline
<1>5. ASSUME NEW c \in Cids, LsndMesgOfflineHandler(c) PROVE Apart(d) BY <1>0, <1>5 DEF LsndMesgOfflineHandler
<1>6. ASSUME NEW c \in Cids, RecvEnd(c) PROVE Apart(d) BY <1>0, <1>6 DEF RecvEnd
<1>7. ASSUME NEW c \in Cids, KickedEnd(c) PROVE Apart(d) BY <1>0, <1>7 DEF KickedEnd
<1>8. ASSUME NEW c \in Cids, DestroyEnd(c) PROVE Apart(d) BY <1>0, <1>8 DEF DestroyEnd
<1>9. ASSUME NEW c \in Cids, task_timer_kick(c) PROVE Apart(d) BY <1>9 DEF task_timer_kick
<1>10. ASSUME NEW c \in Cids, TimeoutLogin(c) PROVE Apart(d) BY <1>10 DEF TimeoutLogin
<1>11. ASSUME NEW c \in Cids, TimeoutIdle(c) PROVE Apart(d) BY <1>11 DEF TimeoutIdle
<1>12. ASSUME NEW w \in Workers, NEW k \in Keys, lsnd_error_online_ack_handler(w, k) PROVE Apart(d)
  BY <1>12 DEF lsnd_error_online_ack_handler
<1>13. ASSUME NEW w \in Workers, NEW s \in Sids, LsndUpMesgKickHandler(w, s) PROVE Apart(d)
  BY <1>13 DEF LsndUpMesgKickHandler
<1>14. CASE Lose BY <1>14 DEF Lose
<1>15. CASE query_dirty BY <1>15 DEF query_dirty
<1>16. CASE UNCHANGED vars BY <1>16 DEF vars
<1> QED BY <1>1, <1>2, <1>3, <1>4, <1>5, <1>6, <1>7, <1>8, <1>9,
           <1>10, <1>11, <1>12, <1>13, <1>14, <1>15, <1>16 DEF ApartSteps

\* The steps of a connection that are not, and the clean-up of the map.
LEMMA C_LsndMesgOnlineHandler ==
    ASSUME TypeOK, NEW d \in Cids, CleanOf(d),
           NEW c \in Cids, NEW s \in ClientSids[c], LsndMesgOnlineHandler(c, s)
    PROVE  CleanOf(d)'
<1>1. rt[c] = "recv" /\ rt' = [rt EXCEPT ![c] = "online"] /\ csid' = [csid EXCEPT ![c] = s]
  BY DEF LsndMesgOnlineHandler, At, GoTo
<1>2. UNCHANGED <<joined, member, sid2cid, wk>> /\ sessions' = sessions \cup {<<s, c>>}
  BY DEF LsndMesgOnlineHandler
<1>3. CASE d = c
  <2>1. rt[d] = "recv" /\ rt'[d] = "online" BY <1>1, <1>3 DEF TypeOK
  <2> QED BY <2>1, <1>2 DEF CleanOf, InList, Joining, Handling, Working, Ending, Deleted
<1>4. CASE d # c
  <2>1. rt'[d] = rt[d] /\ csid'[d] = csid[d] /\ \A t : <<t, d>> \in sessions' <=> <<t, d>> \in sessions
    BY <1>1, <1>2, <1>4 DEF TypeOK
  <2> QED BY <2>1, <1>2 DEF CleanOf, Left, InList, Joining, Handling, Working
<1> QED BY <1>3, <1>4

LEMMA C_LsndMesgRoomQuitHandler ==
    ASSUME TypeOK, NEW d \in Cids, CleanOf(d), d \notin crossed',
           NEW c \in Cids, LsndMesgRoomQuitHandler(c)
    PROVE  CleanOf(d)'
<1>1. /\ rt[c] = "recv" /\ rt' = [rt EXCEPT ![c] = "quit"]
      /\ UNCHANGED <<csid, sessions, member, sid2cid, wk>> /\ joined' = joined \ {<<csid[c], c>>}
  BY DEF LsndMesgRoomQuitHandler, At, GoTo
<1>2. CASE d = c
  <2>1. rt[d] = "recv" /\ rt'[d] = "quit" BY <1>1, <1>2 DEF TypeOK
  <2>2. \A w \in Workers : ~(Handling(w, d) /\ wk[w].at = "join_room")
    BY <1>2 DEF LsndMesgRoomQuitHandler, Crosses, Handling
  <2> QED BY <2>1, <2>2, <1>1, <1>2 DEF CleanOf, InList, Joining, Handling, Working, Ending, Deleted
<1>3. CASE d # c
  <2>1. rt'[d] = rt[d] /\ \A t : <<t, d>> \in joined' <=> <<t, d>> \in joined
    BY <1>1, <1>3 DEF TypeOK
  <2> QED BY <2>1, <1>1 DEF CleanOf, Left, InList, Joining, Handling, Working
<1> QED BY <1>2, <1>3

LEMMA C_RoomDel ==
    ASSUME TypeOK, NEW d \in Cids, CleanOf(d), NEW c \in Cids, RoomQuitDel(c) \/ DestroyRoom(c)
    PROVE  CleanOf(d)'
<1>1. /\ rt[c] \in {"quit", "room_del"}
      /\ \/ rt[c] = "quit" /\ rt' = [rt EXCEPT ![c] = "recv"]
         \/ rt[c] = "room_del" /\ rt' = [rt EXCEPT ![c] = "notify"]
      /\ UNCHANGED <<csid, sessions, joined, sid2cid, wk>> /\ member' = member \ {<<csid[c], c>>}
  BY DEF RoomQuitDel, DestroyRoom, At, GoTo
<1>2. CASE d = c
  <2>1. \/ rt[d] = "quit" /\ rt'[d] = "recv"
        \/ rt[d] = "room_del" /\ rt'[d] = "notify"
    BY <1>1, <1>2 DEF TypeOK
  <2> QED BY <2>1, <1>1, <1>2 DEF CleanOf, Left, InList, Joining, Handling, Working, Ending, Deleted
<1>3. CASE d # c
  <2>1. rt'[d] = rt[d] /\ \A t : <<t, d>> \in member' <=> <<t, d>> \in member
    BY <1>1, <1>3 DEF TypeOK
  <2> QED BY <2>1, <1>1 DEF CleanOf, Left, InList, Joining, Handling, Working
<1> QED BY <1>2, <1>3

LEMMA C_DestroyMap ==
    ASSUME TypeOK, NEW d \in Cids, CleanOf(d), d \notin crossed', NEW c \in Cids, DestroyMap(c)
    PROVE  CleanOf(d)'
<1>1. /\ rt[c] = "close" /\ rt' = [rt EXCEPT ![c] = "session_del"]
      /\ UNCHANGED <<csid, sessions, joined, member, wk>>
      /\ \A s \in Sids : sid2cid'[s] = IF s = csid[c] /\ sid2cid[s] = c THEN 0 ELSE sid2cid[s]
  BY DEF DestroyMap, At, GoTo, tabVars
<1>2. d # 0 BY WsListendAssumption
<1>3. CASE d = c
  <2>1. rt[d] = "close" /\ rt'[d] = "session_del" BY <1>1, <1>3 DEF TypeOK
  <2>2. \A w \in Workers : Working(w) => wk[w].at \in Doing BY DEF TypeOK, Handlers, Working, Doing
  <2>3. \A w \in Workers : ~Handling(w, d) BY <2>2, <1>3 DEF DestroyMap, Crosses, Handling, Doing
  <2>4. \A s \in Sids : s = csid[d] => sid2cid'[s] # d BY <1>1, <1>2, <1>3
  <2> QED BY <2>1, <2>3, <2>4, <1>1 DEF CleanOf, Left, InList, Joining, Handling, Working, Deleted
<1>4. CASE d # c
  <2>1. rt'[d] = rt[d] /\ \A s \in Sids : sid2cid'[s] = d => sid2cid[s] = d
    BY <1>1, <1>2, <1>4 DEF TypeOK
  <2> QED BY <2>1, <1>1 DEF CleanOf, Left, InList, Joining, Handling, Working
<1> QED BY <1>3, <1>4

LEMMA C_DestroySession ==
    ASSUME TypeOK, NEW d \in Cids, CleanOf(d), NEW c \in Cids, DestroySession(c)
    PROVE  CleanOf(d)'
<1> DEFINE k == <<csid[c], c>>
<1>1. /\ rt[c] = "session_del" /\ rt' = [rt EXCEPT ![c] = IF k \in joined THEN "room_del" ELSE "notify"]
      /\ UNCHANGED <<csid, member, sid2cid, wk>> /\ joined' = joined \ {k} /\ sessions' = sessions \ {k}
  BY DEF DestroySession, At, GoTo
<1>2. CASE d = c
  <2>1. rt[d] = "session_del" /\ rt'[d] = IF k \in joined THEN "room_del" ELSE "notify"
    BY <1>1, <1>2 DEF TypeOK
  <2>2. Left(d) /\ \A s \in Sids : <<s, d>> \in member => <<s, d>> \in joined
    BY <2>1 DEF CleanOf, Left, InList, Ending
  <2>3. <<csid[d], d>> \in member => csid[d] \in Sids BY DEF TypeOK, Keys
  <2> QED BY <2>1, <2>2, <2>3, <1>1, <1>2
          DEF CleanOf, Left, InList, Joining, Handling, Working, Ending, Deleted
<1>3. CASE d # c
  <2>1. /\ rt'[d] = rt[d]
        /\ \A t : <<t, d>> \in joined' <=> <<t, d>> \in joined
        /\ \A t : <<t, d>> \in sessions' <=> <<t, d>> \in sessions
    BY <1>1, <1>3 DEF TypeOK
  <2>2. UNCHANGED <<csid, member, sid2cid, wk>> BY <1>1
  <2> HIDE DEF k
  <2>3. InList(d)' /\ Joining(d)' BY <2>1, <2>2 DEF CleanOf, InList, Joining, Handling, Working
  <2>4. Left(d) => Left(d)' BY <2>2 DEF Left, Handling, Working
  <2> QED BY <2>1, <2>2, <2>3, <2>4 DEF CleanOf
<1> QED BY <1>2, <1>3

LEMMA C_CleanSid2cid ==
    ASSUME TypeOK, NEW d \in Cids, CleanOf(d), CleanSid2cid
    PROVE  CleanOf(d)'
<1>1. d # 0 BY WsListendAssumption
<1>2. UNCHANGED <<rt, csid, sessions, joined, member, wk>> BY DEF CleanSid2cid, connVars, tabVars
<1>3. \A s \in Sids : sid2cid'[s] = d => sid2cid[s] = d BY <1>1 DEF CleanSid2cid
<1> QED BY <1>2, <1>3 DEF CleanOf, Left, InList, Joining, Handling, Working

\* A worker's step that leaves the tables alone: it takes up no destroyed connection, and enters
\* none in the map.
LEMMA TablesKept ==
    ASSUME TypeOK, NEW d \in Cids, CleanOf(d), NEW w \in Workers, NEW h \in Handlers, Become(w, h),
           UNCHANGED <<rt, csid, sessions, joined, member>>,
           wk[w].at # "quit", h.at # "join_room",
           rt[d] \in Ending /\ h # Idle => h.cid # d,
           rt[d] \in Ending => \A s \in Sids : sid2cid'[s] = d => sid2cid[s] = d
    PROVE  CleanOf(d)'
<1>1. wk'[w] = h /\ \A v \in Workers : v # w => wk'[v] = wk[v] BY Becomes
<1>2. rt[d] \in Ending => Left(d)' BY <1>1 DEF CleanOf, Left, Handling, Working
<1>3. InList(d)'
  <2>1. \A v \in Workers : Handling(v, d) /\ wk[v].at = "quit" => Handling(v, d)' /\ wk'[v] = wk[v]
    BY <1>1 DEF Handling, Working
  <2> QED BY <2>1 DEF CleanOf, InList
<1>4. Joining(d)' BY <1>1 DEF CleanOf, Joining, Handling, Working
<1> QED BY <1>2, <1>3, <1>4 DEF CleanOf

LEMMA C_LsndUpMesgOnlineAckHandler ==
    ASSUME TypeOK, NEW d \in Cids, CleanOf(d), d \notin crossed',
           NEW w \in Workers, NEW k \in Keys, LsndUpMesgOnlineAckHandler(w, k)
    PROVE  CleanOf(d)'
<1> USE DEF LsndUpMesgOnlineAckHandler, connVars, tabVars
<1> DEFINE h == Handler("login", k[1], k[2])
<1>1. k[1] \in Sids /\ k[2] \in Cids BY KeyIs
<1>2. h \in Handlers /\ h.at = "login" /\ h.cid = k[2] BY <1>1, HandlerIs DEF Doing
<1>3. Become(w, h) OBVIOUS
<1>4. rt[d] \in Ending => d # k[2] BY DEF StartsFor
<1>5. wk[w].at = "idle" BY DEF Idle
<1> HIDE DEF h
<1> QED BY <1>2, <1>3, <1>4, <1>5, TablesKept

LEMMA C_Ack ==
    ASSUME TypeOK, NEW d \in Cids, CleanOf(d), NEW w \in Workers,
           AckLogin(w) \/ AckQuery(w) \/ AckMap(w)
    PROVE  CleanOf(d)'
<1> DEFINE c == wk[w].cid
           h1 == Handler("query", wk[w].sid, c)
           h2 == Handler("map", wk[w].sid, c)
<1>1. wk[w].at \in {"login", "query", "map"} /\ UNCHANGED <<rt, csid, sessions, joined, member>>
  BY DEF AckLogin, AckQuery, AckMap, connVars, tabVars
<1>2. Working(w) /\ wk[w].sid \in Sids /\ c \in Cids BY <1>1, Works DEF Doing
<1>3. rt[d] \in Ending => c # d BY <1>2 DEF CleanOf, Left, Handling
<1>4. /\ h1 \in Handlers /\ h1.at = "query" /\ h1.cid = c
      /\ h2 \in Handlers /\ h2.at = "map" /\ h2.cid = c
      /\ Idle \in Handlers /\ Idle.at = "idle"
  BY <1>2, HandlerIs, IdleIs DEF Doing, Idle
<1>5. PICK h \in {h1, h2, Idle} : Become(w, h) BY DEF AckLogin, AckQuery, AckMap
<1>6. rt[d] \in Ending => \A s \in Sids : sid2cid'[s] = d => sid2cid[s] = d
  BY <1>2, <1>3 DEF AckLogin, AckQuery, AckMap, TypeOK
<1> HIDE DEF c, h1, h2
<1>7. h \in Handlers /\ h.at # "join_room" /\ (h # Idle => h.cid = c) BY <1>4, <1>5
<1> QED BY <1>1, <1>3, <1>5, <1>6, <1>7, TablesKept

LEMMA C_LsndUpMesgRoomJoinAckHandler ==
    ASSUME TypeOK, NEW d \in Cids, CleanOf(d), d \notin crossed',
           NEW w \in Workers, NEW s \in Sids, LsndUpMesgRoomJoinAckHandler(w, s)
    PROVE  CleanOf(d)'
<1> USE DEF LsndUpMesgRoomJoinAckHandler, connVars, tabVars
<1>1. CASE sid2cid[s] = 0
  <2>1. Apart(d) BY <1>1 DEF Apart
  <2> QED BY <2>1, ApartKeeps
<1>2. CASE sid2cid[s] # 0
  <2> DEFINE h == Handler("join_session", s, sid2cid[s])
  <2>1. sid2cid[s] \in Cids BY <1>2 DEF TypeOK
  <2>2. h \in Handlers /\ h.at = "join_session" /\ h.cid = sid2cid[s] BY <2>1, HandlerIs DEF Doing
  <2>3. Become(w, h) BY <1>2
  <2>4. rt[d] \in Ending => d # sid2cid[s] BY DEF StartsFor
  <2>5. wk[w].at = "idle" BY DEF Idle
  <2> HIDE DEF h
  <2> QED BY <2>2, <2>3, <2>4, <2>5, TablesKept
<1> QED BY <1>1, <1>2

LEMMA C_JoinSession ==
    ASSUME TypeOK, NEW d \in Cids, CleanOf(d), NEW w \in Workers, JoinSession(w)
    PROVE  CleanOf(d)'
<1> DEFINE c == wk[w].cid
           t == wk[w].sid
           h == Handler("join_room", t, c)
<1>1. wk[w].at = "join_session" /\ Working(w) /\ t \in Sids /\ c \in Cids
  BY Works DEF JoinSession, Doing
<1>2. h \in Handlers /\ h.at = "join_room" /\ h.sid = t /\ h.cid = c BY <1>1, HandlerIs DEF Doing
<1>3. Become(w, h) BY DEF JoinSession
<1>4. /\ UNCHANGED <<rt, csid, member, sid2cid>>
      /\ sessions' = sessions \cup {<<t, c>>} /\ joined' = joined \cup {<<t, c>>}
  BY DEF JoinSession, connVars
<1>5. rt[d] \in Ending => c # d BY <1>1 DEF CleanOf, Left, Handling
<1> HIDE DEF h
<1>6. wk'[w] = h /\ \A v \in Workers : v # w => wk'[v] = wk[v] BY <1>2, <1>3, Becomes
<1>7. rt[d] \in Ending => Left(d)' BY <1>2, <1>4, <1>5, <1>6 DEF CleanOf, Left, Handling, Working
<1>8. rt[d] \in Deleted => <<csid[d], d>> \notin sessions'
  BY <1>4, <1>5 DEF CleanOf, Deleted, Ending
<1>9. InList(d)'
  <2>1. \A v \in Workers : Handling(v, d) /\ wk[v].at = "quit" => Handling(v, d)' /\ wk'[v] = wk[v]
    BY <1>1, <1>6 DEF Handling, Working
  <2> QED BY <2>1, <1>4 DEF CleanOf, InList
<1>10. Joining(d)' BY <1>2, <1>4, <1>6 DEF CleanOf, Joining, Handling, Working
<1> QED BY <1>4, <1>7, <1>8, <1>9, <1>10 DEF CleanOf

LEMMA C_JoinRoom ==
    ASSUME TypeOK, NEW d \in Cids, CleanOf(d), NEW w \in Workers, JoinRoom(w)
    PROVE  CleanOf(d)'
<1> DEFINE c == wk[w].cid
           t == wk[w].sid
<1>1. wk[w].at = "join_room" /\ Working(w) /\ t \in Sids /\ c \in Cids
  BY Works DEF JoinRoom, Doing
<1>2. wk'[w] = Idle /\ \A v \in Workers : v # w => wk'[v] = wk[v] BY IdleIs, Becomes DEF JoinRoom
<1>3. UNCHANGED <<rt, csid, sessions, joined, sid2cid>> /\ member' = member \cup {<<t, c>>}
  BY DEF JoinRoom, connVars
<1>4. rt[d] \in Ending => c # d BY <1>1 DEF CleanOf, Left, Handling
<1>5. c = d => <<t, d>> \in joined BY <1>1 DEF CleanOf, Joining, Handling
<1>6. rt[d] \in Ending => Left(d)' BY <1>2, <1>3 DEF CleanOf, Left, Handling, Working
<1>7. rt[d] \in {"notify", "gone"} => <<csid[d], d>> \notin member'
  BY <1>3, <1>4 DEF CleanOf, Ending
<1>8. InList(d)'
  <2>1. \A v \in Workers : Handling(v, d) /\ wk[v].at = "quit" => Handling(v, d)' /\ wk'[v] = wk[v]
    BY <1>1, <1>2 DEF Handling, Working
  <2> QED BY <2>1, <1>3, <1>5 DEF CleanOf, InList
<1>9. Joining(d)' BY <1>2, <1>3 DEF CleanOf, Joining, Handling, Working
<1> QED BY <1>3, <1>6, <1>7, <1>8, <1>9 DEF CleanOf

LEMMA C_LsndUpMesgRoomKickHandler ==
    ASSUME TypeOK, NEW d \in Cids, CleanOf(d), d \notin crossed',
           NEW w \in Workers, NEW s \in Sids, LsndUpMesgRoomKickHandler(w, s)
    PROVE  CleanOf(d)'
<1> DEFINE c == sid2cid[s]
           t == csid[c]
           h == Handler("quit", t, c)
<1>1. wk[w] = Idle /\ <<t, c>> \in joined /\ t \in Sids /\ c \in Cids
  BY DEF LsndUpMesgRoomKickHandler, TypeOK, Keys
<1>2. h \in Handlers /\ h # Idle /\ h.at = "quit" /\ h.sid = t /\ h.cid = c
  BY <1>1, HandlerIs DEF Doing
<1>3. Become(w, h) BY DEF LsndUpMesgRoomKickHandler
<1>4. UNCHANGED <<rt, csid, sessions, member, sid2cid>> /\ joined' = joined \ {<<t, c>>}
  BY DEF LsndUpMesgRoomKickHandler, connVars
<1>5. d = c => rt[d] \notin Ending /\ \A v \in Workers : ~(wk[v].at = "join_room" /\ wk[v].cid = d)
  BY DEF LsndUpMesgRoomKickHandler
<1> HIDE DEF h
<1>6. wk'[w] = h /\ \A v \in Workers : v # w => wk'[v] = wk[v] BY <1>2, <1>3, Becomes
<1>7. rt[d] \in Ending => Left(d)' BY <1>2, <1>4, <1>5, <1>6 DEF CleanOf, Left, Handling, Working
<1>8. InList(d)'
  <2>1. \A v \in Workers : Handling(v, d) /\ wk[v].at = "quit" => Handling(v, d)' /\ wk'[v] = wk[v]
    BY <1>1, <1>6 DEF Handling, Working
  <2>2. c = d => Handling(w, d)' /\ wk'[w].at = "quit" /\ wk'[w].sid = t
    BY <1>2, <1>6 DEF Handling, Working
  <2> QED BY <2>1, <2>2, <1>4 DEF CleanOf, InList
<1>9. Joining(d)' BY <1>2, <1>4, <1>5, <1>6 DEF CleanOf, Joining, Handling, Working
<1> QED BY <1>4, <1>7, <1>8, <1>9 DEF CleanOf

LEMMA C_RoomKickDel ==
    ASSUME TypeOK, NEW d \in Cids, CleanOf(d), NEW w \in Workers, RoomKickDel(w)
    PROVE  CleanOf(d)'
<1> DEFINE c == wk[w].cid
           t == wk[w].sid
<1>1. wk'[w] = Idle /\ \A v \in Workers : v # w => wk'[v] = wk[v] BY IdleIs, Becomes DEF RoomKickDel
<1>2. UNCHANGED <<rt, csid, sessions, joined, sid2cid>> /\ member' = member \ {<<t, c>>}
  BY DEF RoomKickDel, connVars
<1>3. rt[d] \in Ending => Left(d)' BY <1>1, <1>2 DEF CleanOf, Left, Handling, Working
<1>4. InList(d)'
  <2> SUFFICES ASSUME NEW s \in Sids, <<s, d>> \in member', <<s, d>> \notin joined,
                      ~(rt[d] \in {"quit", "room_del"} /\ s = csid[d])
               PROVE  \E v \in Workers : Handling(v, d)' /\ wk'[v].at = "quit" /\ wk'[v].sid = s
    BY <1>2 DEF InList
  <2>1. PICK v \in Workers : Handling(v, d) /\ wk[v].at = "quit" /\ wk[v].sid = s
    BY <1>2 DEF CleanOf, InList
  <2>2. v # w BY <2>1, <1>2 DEF Handling
  <2> QED BY <2>1, <2>2, <1>1 DEF Handling, Working
<1>5. Joining(d)' BY <1>1, <1>2 DEF CleanOf, Joining, Handling, Working
<1> QED BY <1>2, <1>3, <1>4, <1>5 DEF CleanOf

LEMMA NextC ==
    ASSUME CInv, [Next]_vars
    PROVE  CInv'
<1>1. WInv' BY NextW DEF CInv
<1>2. crossed \subseteq crossed'
  <2> USE DEF histVars, Crosses, StartsFor
  <2>1. CASE ApartSteps
    BY <2>1 DEF ApartSteps, conn_handler, OnlineCheck, LsndMesgCommHandler, NotOnline,
       LsndMesgOfflineHandler, RecvEnd, KickedEnd, DestroyEnd, task_timer_kick, TimeoutLogin,
       TimeoutIdle, lsnd_error_online_ack_handler, LsndUpMesgKickHandler, Lose, query_dirty, vars
  <2>2. ASSUME NEW c \in Cids,
               \/ \E s \in ClientSids[c] : LsndMesgOnlineHandler(c, s)
               \/ LsndMesgRoomQuitHandler(c) \/ RoomQuitDel(c) \/ Destroy(c)
        PROVE  crossed \subseteq crossed'
    BY <2>2 DEF LsndMesgOnlineHandler, LsndMesgRoomQuitHandler, RoomQuitDel, Destroy, DestroyMap,
       DestroySession, DestroyRoom, DestroyEnd
  <2>3. ASSUME NEW w \in Workers,
               \/ \E k \in Keys : LsndUpMesgOnlineAckHandler(w, k)
               \/ \E s \in Sids : LsndUpMesgRoomJoinAckHandler(w, s) \/ LsndUpMesgRoomKickHandler(w, s)
               \/ Finish(w)
        PROVE  crossed \subseteq crossed'
    BY <2>3 DEF LsndUpMesgOnlineAckHandler, LsndUpMesgRoomJoinAckHandler, LsndUpMesgRoomKickHandler,
       Finish, AckLogin, AckQuery, AckMap, JoinSession, JoinRoom, RoomKickDel
  <2>4. CASE CleanSid2cid BY <2>4 DEF CleanSid2cid
  <2> QED BY <2>1, <2>2, <2>3, <2>4 DEF Next, ApartSteps, Recv, Destroy, Worker
<1> SUFFICES ASSUME NEW d \in Cids, d \notin crossed' PROVE CleanOf(d)' BY <1>1 DEF CInv
<1>3. TypeOK /\ CleanOf(d) BY <1>2 DEF CInv, WInv
<1>4. CASE ApartSteps BY <1>3, <1>4, ApartStep, ApartKeeps
<1>5. ASSUME NEW c \in Cids, NEW s \in ClientSids[c], LsndMesgOnlineHandler(c, s) PROVE CleanOf(d)'
  BY <1>3, <1>5, C_LsndMesgOnlineHandler
<1>6. ASSUME NEW c \in Cids, LsndMesgRoomQuitHandler(c) PROVE CleanOf(d)'
  BY <1>3, <1>6, C_LsndMesgRoomQuitHandler
<1>7. ASSUME NEW c \in Cids, RoomQuitDel(c) \/ DestroyRoom(c) PROVE CleanOf(d)' BY <1>3, <1>7, C_RoomDel
<1>8. ASSUME NEW c \in Cids, DestroyMap(c) PROVE CleanOf(d)' BY <1>3, <1>8, C_DestroyMap
<1>9. ASSUME NEW c \in Cids, DestroySession(c) PROVE CleanOf(d)' BY <1>3, <1>9, C_DestroySession
<1>10. ASSUME NEW w \in Workers, NEW k \in Keys, LsndUpMesgOnlineAckHandler(w, k) PROVE CleanOf(d)'
  BY <1>3, <1>10, C_LsndUpMesgOnlineAckHandler
<1>11. ASSUME NEW w \in Workers, AckLogin(w) \/ AckQuery(w) \/ AckMap(w) PROVE CleanOf(d)'
  BY <1>3, <1>11, C_Ack
<1>12. ASSUME NEW w \in Workers, NEW s \in Sids, LsndUpMesgRoomJoinAckHandler(w, s) PROVE CleanOf(d)'
  BY <1>3, <1>12, C_LsndUpMesgRoomJoinAckHandler
<1>13. ASSUME NEW w \in Workers, NEW s \in Sids, LsndUpMesgRoomKickHandler(w, s) PROVE CleanOf(d)'
  BY <1>3, <1>13, C_LsndUpMesgRoomKickHandler
<1>14. ASSUME NEW w \in Workers, JoinSession(w) PROVE CleanOf(d)' BY <1>3, <1>14, C_JoinSession
<1>15. ASSUME NEW w \in Workers, JoinRoom(w) PROVE CleanOf(d)' BY <1>3, <1>15, C_JoinRoom
<1>16. ASSUME NEW w \in Workers, RoomKickDel(w) PROVE CleanOf(d)' BY <1>3, <1>16, C_RoomKickDel
<1>17. CASE CleanSid2cid BY <1>3, <1>17, C_CleanSid2cid
<1> QED BY <1>4, <1>5, <1>6, <1>7, <1>8, <1>9, <1>10, <1>11, <1>12, <1>13, <1>14, <1>15, <1>16, <1>17
   DEF Next, ApartSteps, Recv, Destroy, Worker, Finish

\* For any number of connections, SIDs and workers: the tables of chat_tab keep their shape; after
\* lsnd_conn_destroy no session holds the connection, whatever ONLINE, ONLINE-ACK, room join or kick
\* was under way; and no session, room entry or map entry of it is there, unless a handler that had
\* looked it up ran on across a quit of the room or the destruction.
THEOREM TablesCleaned == Spec => []TablesClean
<1>1. CInv /\ [Next]_vars => CInv' BY NextC
<1>2. CInv => TablesClean
  BY DEF CInv, WInv, SessionTaken, Deleted, Ending, CleanOf, Left, TablesClean, NoneAfterDestroy, At
<1> QED BY <1>1, <1>2, InitC, PTL DEF Spec
=============================================================================
