----------------------------- MODULE WsListend -----------------------------
(***************************************************************************)
(* The websocket access layer (src/golang/exec/websocket) over lib/lws and *)
(* lib/chat_tab: the life of a connection from its handshake through       *)
(* ONLINE, ONLINE-ACK, rooms and kicks to its destruction.                 *)
(*                                                                         *)
(* Goroutines: one recv_routine per connection (rt), the RTMQ workers that *)
(* run the handlers of upstream messages (wk), the timers that kick, drop  *)
(* timed out connections and clean the SID->CID map.  They share the       *)
(* tables of chat_tab; an action is a stretch between two shared accesses  *)
(* that another goroutine could separate.                                  *)
(*                                                                         *)
(* Abstracted: message bodies, the sequence number (its check may fail at  *)
(* any message), the clock (a time out may strike whenever its condition   *)
(* holds), all rooms but one, the order and the duplicates of kick_list    *)
(* (every item is taken, and lws.Kick is idempotent at this grain).        *)
(***************************************************************************)
EXTENDS Integers, FiniteSets

CONSTANTS
    Sids,       \* session identifiers, numbers as in the code
    Cids,       \* connection identifiers, given out in increasing order
    Workers,    \* goroutines that run the upstream handlers
    ClientSids  \* ClientSids[c]: the SIDs the client of connection c presents

ASSUME WsListendAssumption ==
    /\ Sids \subseteq Nat \ {0}
    /\ Cids \subseteq Nat \ {0}
    /\ ClientSids \in [Cids -> SUBSET Sids]

Keys == Sids \X Cids

VARIABLES
    status,     \* LsndConnExtra.status
    csid,       \* LsndConnExtra.sid, 0 before ONLINE
    rt,         \* where the recv_routine of the connection is
    kicked,     \* connections whose send queue lws.Kick has closed
    sessions,   \* keys of the session table
    param,      \* keys whose session holds the connection
    joined,     \* keys whose session names the room
    member,     \* keys in the room's list
    sid2cid,    \* SID->CID map, 0: no entry
    kick_list,  \* connections waiting for task_timer_kick
    online,     \* ONLINE requests forwarded and not answered yet
    joins,      \* SIDs with a ROOM-JOIN forwarded and not answered yet
    wk,         \* the handler each worker is in
    dirty,      \* task_clean_sid2cid: the list of its scan, 0: not listed
    overtaken,  \* history: entered in the map between another handler's look-up
                \* of the SID and its update
    crossed     \* history: a handler ran on for the connection across a quit of
                \* the room or its destruction

connVars == <<status, csid, rt>>
tabVars == <<sessions, param, joined, member>>
upVars == <<online, joins>>
histVars == <<overtaken, crossed>>
vars == <<connVars, kicked, tabVars, sid2cid, kick_list, upVars, wk, dirty, histVars>>

Idle == [at |-> "idle"]
Handler(a, s, c) == [at |-> a, sid |-> s, cid |-> c]
Handlers == {Idle} \cup [at : {"login", "query", "map", "join_session", "join_room", "quit"},
                         sid : Sids, cid : Cids]
NoDirty == [s \in Sids |-> 0]

Init ==
    /\ status = [c \in Cids |-> "READY"]
    /\ csid = [c \in Cids |-> 0]
    /\ rt = [c \in Cids |-> "none"]
    /\ kicked = {}
    /\ sessions = {} /\ param = {} /\ joined = {} /\ member = {}
    /\ sid2cid = [s \in Sids |-> 0]
    /\ kick_list = {}
    /\ online = {} /\ joins = {}
    /\ wk = [w \in Workers |-> Idle]
    /\ dirty = NoDirty
    /\ overtaken = {} /\ crossed = {}

InPool(c) == rt[c] \notin {"none", "gone"}

(* lws.Kick: a connection in the pool has its send queue closed.           *)
Kick(c) == kicked' = IF InPool(c) THEN kicked \cup {c} ELSE kicked

(* kick_add: also called with 0, which names no connection.                *)
kick_add(c) == kick_list' = kick_list \cup ({c} \cap Cids)

(* A handler of an upstream message is at work on connection c, in one of  *)
(* the places P; such a handler starts although c is being destroyed.      *)
Ending == {"session_del", "room_del", "notify", "gone"}
Crosses(c, P) ==
    crossed' = IF \E w \in Workers : wk[w].at \in P /\ wk[w].cid = c THEN crossed \cup {c} ELSE crossed
StartsFor(c) == crossed' = IF c \in Cids /\ rt[c] \in Ending THEN crossed \cup {c} ELSE crossed

At(c, here) == rt[c] = here
GoTo(c, there) == rt' = [rt EXCEPT ![c] = there]

----------------------------------------------------------------------------
(* The recv_routine of a connection                                        *)

(* conn_handler and lsnd_conn_init.                                        *)
conn_handler(c) ==
    /\ At(c, "none")
    /\ \A d \in Cids : d < c => ~At(d, "none")
    /\ GoTo(c, "recv")
    /\ UNCHANGED <<status, csid, kicked, tabVars, sid2cid, kick_list, upVars, wk, dirty, histVars>>

(* ONLINE: the session is entered, the request forwarded; only then        *)
(* (OnlineCheck) does the connection move to CHECK.  SessionSetParam keeps *)
(* a session that is there, one made by a room join has no connection.     *)
LsndMesgOnlineHandler(c, s) ==
    /\ At(c, "recv")
    /\ status[c] \in {"READY", "CHECK"}
    /\ <<s, c>> \notin param
    /\ csid' = [csid EXCEPT ![c] = s]
    /\ param' = IF <<s, c>> \in sessions THEN param ELSE param \cup {<<s, c>>}
    /\ sessions' = sessions \cup {<<s, c>>}
    /\ online' = online \cup {<<s, c>>}
    /\ GoTo(c, "online")
    /\ UNCHANGED <<status, kicked, joined, member, sid2cid, kick_list, joins, wk, dirty, histVars>>

OnlineCheck(c) ==
    /\ At(c, "online")
    /\ status' = [status EXCEPT ![c] = "CHECK"]
    /\ GoTo(c, "recv")
    /\ UNCHANGED <<csid, kicked, tabVars, sid2cid, kick_list, upVars, wk, dirty, histVars>>

(* A request of a logged in client; ROOM-JOIN stands for those upstream    *)
(* answers, the others change nothing here.                                *)
LsndMesgCommHandler(c) ==
    /\ At(c, "recv")
    /\ status[c] = "LOGIN"
    /\ joins' = joins \cup {csid[c]}
    /\ UNCHANGED <<connVars, kicked, tabVars, sid2cid, kick_list, online, wk, dirty, histVars>>

(* Any request but ONLINE before the login: kicked, and the handler's -1   *)
(* ends the recv_routine.                                                  *)
NotOnline(c) ==
    /\ At(c, "recv")
    /\ status[c] # "LOGIN"
    /\ Kick(c)
    /\ GoTo(c, "close")
    /\ UNCHANGED <<status, csid, tabVars, sid2cid, kick_list, upVars, wk, dirty, histVars>>

LsndMesgOfflineHandler(c) ==
    /\ At(c, "recv")
    /\ status[c] = "LOGIN"
    /\ status' = [status EXCEPT ![c] = "LOGOUT"]
    /\ Kick(c)
    /\ UNCHANGED <<csid, rt, tabVars, sid2cid, kick_list, upVars, wk, dirty, histVars>>

(* RoomQuit: first the session forgets the room, then (RoomQuitDel) the    *)
(* room's list the session.                                                *)
LsndMesgRoomQuitHandler(c) ==
    /\ At(c, "recv")
    /\ status[c] = "LOGIN"
    /\ <<csid[c], c>> \in joined
    /\ joined' = joined \ {<<csid[c], c>>}
    /\ Crosses(c, {"join_room"})
    /\ GoTo(c, "quit")
    /\ UNCHANGED <<status, csid, kicked, sessions, param, member, sid2cid, kick_list,
                   upVars, wk, dirty, overtaken>>

RoomQuitDel(c) ==
    /\ At(c, "quit")
    /\ member' = member \ {<<csid[c], c>>}
    /\ GoTo(c, "recv")
    /\ UNCHANGED <<status, csid, kicked, sessions, param, joined, sid2cid, kick_list,
                   upVars, wk, dirty, histVars>>

(* The peer closes, or a message fails the header or the sequence check.   *)
RecvEnd(c) ==
    /\ At(c, "recv")
    /\ GoTo(c, "close")
    /\ UNCHANGED <<status, csid, kicked, tabVars, sid2cid, kick_list, upVars, wk, dirty, histVars>>

(* The send_routine of a kicked connection closes the socket.              *)
KickedEnd(c) ==
    /\ At(c, "recv")
    /\ c \in kicked
    /\ GoTo(c, "close")
    /\ UNCHANGED <<status, csid, kicked, tabVars, sid2cid, kick_list, upVars, wk, dirty, histVars>>

(* lsnd_conn_destroy: sid2cid_del, session_del, room_del_session; then the *)
(* OFFLINE notice and ConnPoolDel.                                         *)
DestroyMap(c) ==
    /\ At(c, "close")
    /\ sid2cid' = [s \in Sids |-> IF s = csid[c] /\ sid2cid[s] = c THEN 0 ELSE sid2cid[s]]
    /\ Crosses(c, {"login", "query", "map", "join_session", "join_room", "quit"})
    /\ GoTo(c, "session_del")
    /\ UNCHANGED <<status, csid, kicked, tabVars, kick_list, upVars, wk, dirty, overtaken>>

(* Faulty variant: a connection that is not logged in keeps its session.   *)
DestroySession_login(c) ==
    /\ At(c, "session_del")
    /\ LET k == <<csid[c], c>>
       IN /\ sessions' = IF status[c] = "LOGIN" THEN sessions \ {k} ELSE sessions
          /\ param' = IF status[c] = "LOGIN" THEN param \ {k} ELSE param
          /\ joined' = joined \ {k}
          /\ GoTo(c, IF k \in joined THEN "room_del" ELSE "notify")
    /\ UNCHANGED <<status, csid, kicked, member, sid2cid, kick_list, upVars, wk, dirty, histVars>>

DestroySession(c) ==
    /\ At(c, "session_del")
    /\ LET k == <<csid[c], c>>
       IN /\ sessions' = sessions \ {k}
          /\ param' = param \ {k}
          /\ joined' = joined \ {k}
          /\ GoTo(c, IF k \in joined THEN "room_del" ELSE "notify")
    /\ UNCHANGED <<status, csid, kicked, member, sid2cid, kick_list, upVars, wk, dirty, histVars>>

(* Faulty variant: the room's list keeps the session.                      *)
DestroyRoom_keep(c) ==
    /\ At(c, "room_del")
    /\ GoTo(c, "notify")
    /\ UNCHANGED <<status, csid, kicked, tabVars, sid2cid, kick_list, upVars, wk, dirty, histVars>>

DestroyRoom(c) ==
    /\ At(c, "room_del")
    /\ member' = member \ {<<csid[c], c>>}
    /\ GoTo(c, "notify")
    /\ UNCHANGED <<status, csid, kicked, sessions, param, joined, sid2cid, kick_list,
                   upVars, wk, dirty, histVars>>

DestroyEnd(c) ==
    /\ At(c, "notify")
    /\ GoTo(c, "gone")
    /\ kicked' = kicked \cup {c}
    /\ UNCHANGED <<status, csid, tabVars, sid2cid, kick_list, upVars, wk, dirty, histVars>>

----------------------------------------------------------------------------
(* The handlers of upstream messages                                       *)

Become(w, h) == wk' = [wk EXCEPT ![w] = h]

(* ONLINE-ACK with an error code, for a session that is gone, or whose     *)
(* sequence number is refused: the connection will be kicked.              *)
lsnd_error_online_ack_handler(w, k) ==
    /\ wk[w] = Idle
    /\ k \in online
    /\ online' = online \ {k}
    /\ kick_add(k[2])
    /\ UNCHANGED <<connVars, kicked, tabVars, sid2cid, joins, wk, dirty, histVars>>

(* A good ONLINE-ACK: the session's connection is taken from the table.    *)
LsndUpMesgOnlineAckHandler(w, k) ==
    /\ wk[w] = Idle
    /\ k \in online
    /\ k \in param
    /\ online' = online \ {k}
    /\ Become(w, Handler("login", k[1], k[2]))
    /\ StartsFor(k[2])
    /\ UNCHANGED <<connVars, kicked, tabVars, sid2cid, kick_list, joins, dirty, overtaken>>

AckLogin(w) ==
    /\ wk[w].at = "login"
    /\ status' = [status EXCEPT ![wk[w].cid] = "LOGIN"]
    /\ Become(w, Handler("query", wk[w].sid, wk[w].cid))
    /\ UNCHANGED <<csid, rt, kicked, tabVars, sid2cid, kick_list, upVars, dirty, histVars>>

(* Faulty variant: the connection that had the SID is left alone.          *)
AckQuery_nokick(w) ==
    /\ wk[w].at = "query"
    /\ Become(w, Handler("map", wk[w].sid, wk[w].cid))
    /\ UNCHANGED <<connVars, kicked, tabVars, sid2cid, kick_list, upVars, dirty, histVars>>

(* GetCidBySid; another connection that holds the SID is to be kicked.     *)
AckQuery(w) ==
    /\ wk[w].at = "query"
    /\ LET old == sid2cid[wk[w].sid]
       IN IF old = wk[w].cid THEN UNCHANGED kick_list ELSE kick_add(old)
    /\ Become(w, Handler("map", wk[w].sid, wk[w].cid))
    /\ UNCHANGED <<connVars, kicked, tabVars, sid2cid, upVars, dirty, histVars>>

(* SessionSetCid.                                                          *)
AckMap(w) ==
    /\ wk[w].at = "map"
    /\ sid2cid' = [sid2cid EXCEPT ![wk[w].sid] = wk[w].cid]
    /\ overtaken' = IF \E v \in Workers \ {w} : wk[v].at = "map" /\ wk[v].sid = wk[w].sid
                    THEN overtaken \cup {wk[w].cid} ELSE overtaken
    /\ Become(w, Idle)
    /\ UNCHANGED <<connVars, kicked, tabVars, kick_list, upVars, dirty, crossed>>

(* KICK names a SID; the connection is the one the map gives.              *)
LsndUpMesgKickHandler(w, s) ==
    /\ wk[w] = Idle
    /\ <<s, sid2cid[s]>> \in param
    /\ kick_add(sid2cid[s])
    /\ UNCHANGED <<connVars, kicked, tabVars, sid2cid, upVars, wk, dirty, histVars>>

(* ROOM-JOIN-ACK: GetCidBySid, then RoomJoin in two steps, which makes a   *)
(* session without connection when there is none.                          *)
LsndUpMesgRoomJoinAckHandler(w, s) ==
    /\ wk[w] = Idle
    /\ s \in joins
    /\ joins' = joins \ {s}
    /\ IF sid2cid[s] = 0
       THEN UNCHANGED wk
       ELSE Become(w, Handler("join_session", s, sid2cid[s]))
    /\ StartsFor(sid2cid[s])
    /\ UNCHANGED <<connVars, kicked, tabVars, sid2cid, kick_list, online, dirty, overtaken>>

JoinSession(w) ==
    /\ wk[w].at = "join_session"
    /\ LET k == <<wk[w].sid, wk[w].cid>>
       IN sessions' = sessions \cup {k} /\ joined' = joined \cup {k}
    /\ Become(w, Handler("join_room", wk[w].sid, wk[w].cid))
    /\ UNCHANGED <<connVars, kicked, param, member, sid2cid, kick_list, upVars, dirty, histVars>>

JoinRoom(w) ==
    /\ wk[w].at = "join_room"
    /\ member' = member \cup {<<wk[w].sid, wk[w].cid>>}
    /\ Become(w, Idle)
    /\ UNCHANGED <<connVars, kicked, sessions, param, joined, sid2cid, kick_list, upVars, dirty, histVars>>

(* ROOM-KICK: RoomQuit for the connection of the SID.                      *)
LsndUpMesgRoomKickHandler(w, s) ==
    /\ wk[w] = Idle
    /\ <<s, sid2cid[s]>> \in param
    /\ LET k == <<csid[sid2cid[s]], sid2cid[s]>>
       IN /\ k \in joined
          /\ joined' = joined \ {k}
          /\ Become(w, Handler("quit", k[1], k[2]))
          /\ crossed' = IF rt[k[2]] \in Ending \/ \E v \in Workers : wk[v].at = "join_room" /\ wk[v].cid = k[2]
                        THEN crossed \cup {k[2]} ELSE crossed
    /\ UNCHANGED <<connVars, kicked, sessions, param, member, sid2cid, kick_list, upVars, dirty, overtaken>>

RoomKickDel(w) ==
    /\ wk[w].at = "quit"
    /\ member' = member \ {<<wk[w].sid, wk[w].cid>>}
    /\ Become(w, Idle)
    /\ UNCHANGED <<connVars, kicked, sessions, param, joined, sid2cid, kick_list, upVars, dirty, histVars>>

(* The bus delivers at most once: a request or its answer can be lost.     *)
Lose ==
    /\ \/ \E k \in online : online' = online \ {k} /\ UNCHANGED joins
       \/ \E s \in joins : joins' = joins \ {s} /\ UNCHANGED online
    /\ UNCHANGED <<connVars, kicked, tabVars, sid2cid, kick_list, wk, dirty, histVars>>

----------------------------------------------------------------------------
(* The timers                                                              *)

(* Faulty variant: an item is taken from the list and forgotten.           *)
task_timer_kick_drop(c) ==
    /\ c \in kick_list
    /\ kick_list' = kick_list \ {c}
    /\ UNCHANGED <<connVars, kicked, tabVars, sid2cid, upVars, wk, dirty, histVars>>

task_timer_kick(c) ==
    /\ c \in kick_list
    /\ kick_list' = kick_list \ {c}
    /\ Kick(c)
    /\ UNCHANGED <<connVars, tabVars, sid2cid, upVars, wk, dirty, histVars>>

(* Faulty variant: only a connection that is still READY times out.        *)
TimeoutLogin_ready(c) ==
    /\ \E s \in Sids : <<s, c>> \in param
    /\ status[c] = "READY"
    /\ Kick(c)
    /\ UNCHANGED <<connVars, tabVars, sid2cid, kick_list, upVars, wk, dirty, histVars>>

(* A session whose connection is not logged in in time.                    *)
TimeoutLogin(c) ==
    /\ \E s \in Sids : <<s, c>> \in param
    /\ status[c] # "LOGIN"
    /\ Kick(c)
    /\ UNCHANGED <<connVars, tabVars, sid2cid, kick_list, upVars, wk, dirty, histVars>>

(* A session whose client has been silent.                                 *)
TimeoutIdle(c) ==
    /\ \E s \in Sids : <<s, c>> \in param
    /\ Kick(c)
    /\ UNCHANGED <<connVars, tabVars, sid2cid, kick_list, upVars, wk, dirty, histVars>>

(* task_clean_sid2cid: list the entries without a session ...              *)
query_dirty ==
    /\ dirty = NoDirty
    /\ dirty' = [s \in Sids |-> IF <<s, sid2cid[s]>> \in param THEN 0 ELSE sid2cid[s]]
    /\ UNCHANGED <<connVars, kicked, tabVars, sid2cid, kick_list, upVars, wk, histVars>>

(* ... then remove them.  The loop takes the VALUES of the list for SIDs:  *)
(* for a listed cid v it removes the entry of SID v if that is list[v].    *)
CleanSid2cid ==
    /\ dirty # NoDirty
    /\ LET listed == {dirty[s] : s \in Sids} \ {0}
           hit(v) == v \in listed /\ dirty[v] = sid2cid[v]
       IN sid2cid' = [s \in Sids |-> IF hit(s) THEN 0 ELSE sid2cid[s]]
    /\ dirty' = NoDirty
    /\ UNCHANGED <<connVars, kicked, tabVars, kick_list, upVars, wk, histVars>>

----------------------------------------------------------------------------
Destroy(c) == DestroyMap(c) \/ DestroySession(c) \/ DestroyRoom(c) \/ DestroyEnd(c)

Recv(c) ==
    \/ \E s \in ClientSids[c] : LsndMesgOnlineHandler(c, s)
    \/ LsndMesgCommHandler(c) \/ NotOnline(c) \/ LsndMesgOfflineHandler(c)
    \/ LsndMesgRoomQuitHandler(c) \/ RecvEnd(c)

Finish(w) == AckLogin(w) \/ AckQuery(w) \/ AckMap(w) \/ JoinSession(w) \/ JoinRoom(w)
             \/ RoomKickDel(w)

Worker(w) ==
    \/ \E k \in Keys : lsnd_error_online_ack_handler(w, k) \/ LsndUpMesgOnlineAckHandler(w, k)
    \/ \E s \in Sids : LsndUpMesgKickHandler(w, s) \/ LsndUpMesgRoomJoinAckHandler(w, s)
                       \/ LsndUpMesgRoomKickHandler(w, s)

Next ==
    \/ \E c \in Cids : \/ conn_handler(c) \/ Recv(c) \/ OnlineCheck(c) \/ RoomQuitDel(c)
                       \/ KickedEnd(c) \/ Destroy(c)
                       \/ task_timer_kick(c) \/ TimeoutLogin(c) \/ TimeoutIdle(c)
    \/ \E w \in Workers : Worker(w) \/ Finish(w)
    \/ Lose \/ query_dirty \/ CleanSid2cid

(* Goroutines that can run do run, the timers fire; nothing obliges a      *)
(* client to send or to close, nor upstream to answer.  KickedEnd is       *)
(* strong: the handler of a message already read comes first, but once the *)
(* socket is closed no read succeeds.                                      *)
Fairness ==
    /\ \A c \in Cids : /\ WF_vars(OnlineCheck(c)) /\ WF_vars(RoomQuitDel(c))
                       /\ SF_vars(KickedEnd(c)) /\ WF_vars(Destroy(c))
                       /\ WF_vars(task_timer_kick(c)) /\ WF_vars(TimeoutLogin(c))
    /\ \A w \in Workers : WF_vars(Finish(w))
    /\ WF_vars(query_dirty) /\ WF_vars(CleanSid2cid)

Spec == Init /\ [][Next]_vars
FairSpec == Spec /\ Fairness

----------------------------------------------------------------------------
Status == {"READY", "CHECK", "LOGIN", "LOGOUT"}
Places == {"none", "recv", "online", "quit", "close", "session_del", "room_del", "notify", "gone"}

TypeOK ==
    /\ status \in [Cids -> Status]
    /\ csid \in [Cids -> Sids \cup {0}]
    /\ rt \in [Cids -> Places]
    /\ kicked \subseteq Cids
    /\ sessions \subseteq Keys /\ param \subseteq sessions
    /\ joined \subseteq sessions /\ member \subseteq Keys
    /\ sid2cid \in [Sids -> Cids \cup {0}]
    /\ kick_list \subseteq Cids
    /\ online \subseteq Keys /\ joins \subseteq Sids
    /\ wk \in [Workers -> Handlers]
    /\ dirty \in [Sids -> Cids \cup {0}]
    /\ overtaken \subseteq Cids /\ crossed \subseteq Cids

(* A worker is between the login and the map update for connection c.      *)
Mapping(c) == \E w \in Workers : wk[w].at \in {"query", "map"} /\ wk[w].cid = c

(* Connection c serves a logged in client, and is not to be kicked.        *)
Stays(c) == /\ rt[c] \in {"recv", "online", "quit"} /\ status[c] = "LOGIN"
            /\ c \notin kick_list \cup kicked
Reached(c) == Mapping(c) \/ \E s \in Sids : sid2cid[s] = c

(* "如果已经存在SID->CID的映射, 则更新SID->CID映射, 并将之前的连接异步踢下线": *)
(* a logged in connection that no SID leads to any more is on its way out. *)
OldIsKicked == \A c \in Cids : Stays(c) => Reached(c)

(* The same for every connection but the ones that two answers for one SID *)
(* leave behind: a handler that had looked the SID up before the           *)
(* connection was entered writes over it unseen.                           *)
SupersededIsKicked == \A c \in Cids \ overtaken : Stays(c) => Reached(c)

(* "清理上下文资源": when a destroyed connection is in no handler's hands,  *)
(* its session and its place in the room are gone.                         *)
DestroyedIsClean ==
    \A c \in Cids : At(c, "gone") /\ (\A w \in Workers : wk[w] # Idle => wk[w].cid # c)
        => <<csid[c], c>> \notin sessions \cup member

(* A destroyed connection is never found as a session's again; and nothing *)
(* of it is left in the sessions, the room or the map, unless a handler    *)
(* that had looked it up ran on across a quit or its destruction.          *)
NoneAfterDestroy ==
    \A c \in Cids : At(c, "gone") =>
        /\ <<csid[c], c>> \notin param
        /\ c \notin crossed => /\ <<csid[c], c>> \notin sessions \cup member
                              /\ \A s \in Sids : s = csid[c] => sid2cid[s] # c

(* A connection in the kick list is destroyed.                             *)
KickCompletes == \A c \in Cids : c \in kick_list ~> (rt[c] \in {"none", "gone"})

(* A client that asked for ONLINE is logged in or its connection ends.     *)
OnlineResolves ==
    \A c \in Cids : status[c] = "CHECK" ~> (status[c] = "LOGIN" \/ At(c, "gone"))

(* The session tables keep their shape, and nothing of a connection that   *)
(* is gone.                                                                *)
TablesClean == TypeOK /\ NoneAfterDestroy

(* No connection stays half way: neither a kicked one, nor one that asked  *)
(* for ONLINE and hears nothing.                                           *)
ConnectionsSettle == KickCompletes /\ OnlineResolves
============================================================================
