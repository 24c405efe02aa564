----------------------------- MODULE TcpListend -----------------------------
(***************************************************************************)
(* listend, the TCP listen server (exec/listend), with its chat tables      *)
(* (lib/chat).  Three kinds of threads meet in the tables: the receiver of   *)
(* the access library, which calls lsnd_callback for one connection at a     *)
(* time; the workers of the RTMQ proxy, which run the handlers of upstream   *)
(* messages; and the timer.                                                 *)
(*                                                                         *)
(* Tables: conn_list (SID and CID -> connection), sid2cids, sessions (SID   *)
(* and CID -> rooms), rooms and kick_list, each a hash table with one lock   *)
(* a slot.  A step here is what happens under one of these locks; where a    *)
(* handler keeps a lock over several steps, the others wait for it.  Every   *)
(* SID has a slot of its own.                                               *)
(***************************************************************************)
EXTENDS Integers, Sequences, FiniteSets

CONSTANTS
    Cids, Sids, Rids, Gids,
    Workers,        \* threads of the RTMQ proxy
    Scenes          \* what happens in a run, records of: the SID of each
                    \* connection; the connections that are ONLINE at the
                    \* start; the requests of each client, in order; the
                    \* messages upstream sends of itself, in order; whether
                    \* clients may close, rooms are cleaned, and how many
                    \* kicks the access library takes (its kickq)

(* What upstream may send of itself; the acknowledgements are answers. *)
UpTypes == {"KICK", "ROOM_CHAT", "ROOM_BC", "ROOM_NTF", "DEF"}
UpMesgs == {m \in [type : UpTypes, sid : Sids \cup {0}, c : Cids \cup {0},
                   rid : Rids \cup {0}, gid : Gids \cup {0}] :
              IF m.type \in {"KICK", "DEF"} THEN m.c # 0 \/ m.sid # 0 ELSE m.rid # 0}

(* No SID and no CID is 0; the connections that are ONLINE at the start have  *)
(* different SIDs.                                                            *)
ASSUME TcpAssumption ==
    /\ 0 \notin Cids /\ 0 \notin Sids /\ 0 \notin Rids
    /\ \A sc \in Scenes :
         /\ sc.up \subseteq Cids
         /\ sc.sid \in [Cids -> Sids] /\ sc.join \in [Cids -> SUBSET (Rids \X Gids)]
         /\ sc.ups \in Seq(UpMesgs)
         /\ \A c, d \in sc.up : sc.sid[c] = sc.sid[d] => c = d

VARIABLES
    scene,          \* the one of Scenes that happens
    conn,           \* CID -> lsnd_conn_extra_t
    list,           \* conn_list: pairs <<SID, CID>>
    cids,           \* sid2cids: SID -> CID, 0 for none
    sess,           \* sessions: <<SID, CID>> -> room -> group
    rooms,          \* room -> chat_room_t
    kick,           \* kick_list: CID -> "wait" or "due"
    asked,          \* kicks the access library has still to carry out
    kickfree,       \* free elements of its kickq
    leaked,         \* SIDs whose slot of sessions is read-locked for good
    rv, w, t,       \* the receiver, the workers, the timer
    net,            \* upstream messages on their way
    sent,           \* what was sent upstream: pairs <<request, CID>>
    down,           \* what was sent to clients: <<CID, message, <<room, group>>>>
    joined,         \* history: <<room, group, SID, CID>> put into a group
    n,              \* CID -> requests made; 0 -> messages of scene.ups sent
    crossed,        \* history: connections whose ONLINE-ACK was handled while
                    \* that of another one with the same SID was, by two workers
    wild            \* freed memory was used, or conn_list is out of order:
                    \* nothing is defined from here on

vars == <<scene, conn, list, cids, sess, rooms, kick, asked, kickfree, leaked, rv, w, t,
          net, sent, down, joined, n, crossed, wild>>
tabVars == <<cids, sess, rooms, joined, leaked>>

NoConn == [st |-> "none", stat |-> "CLOSED", sid |-> 0]
NoRooms == [r \in {} |-> 0]
Idle == [pc |-> "idle", sid |-> 0, c |-> 0, rid |-> 0, gid |-> 0]
Mesg(type, s, c, r, g) == [type |-> type, sid |-> s, c |-> c, rid |-> r, gid |-> g]
Live(c) == conn[c].st = "open"
Sessions == DOMAIN sess

(* lsnd_init, chat_tab_init, lsnd_launch; the connections of scene.up have   *)
(* sent ONLINE and got its acknowledgement.                                  *)
Init ==
    /\ scene \in Scenes
    /\ conn = [c \in Cids |-> IF c \in scene.up
                 THEN [st |-> "open", stat |-> "ONLINE", sid |-> scene.sid[c]] ELSE NoConn]
    /\ list = {<<scene.sid[c], c>> : c \in scene.up}
    /\ cids = [s \in Sids |-> IF \E c \in scene.up : scene.sid[c] = s
                              THEN CHOOSE c \in scene.up : scene.sid[c] = s ELSE 0]
    /\ sess = [k \in {} |-> NoRooms]
    /\ rooms = [r \in Rids |-> [on |-> FALSE, num |-> 0, mem |-> {}]]
    /\ kick = [c \in {} |-> "wait"] /\ asked = {} /\ kickfree = scene.kickmax
    /\ leaked = {}
    /\ rv = Idle /\ w = [k \in Workers |-> Idle] /\ t = Idle
    /\ net = {} /\ sent = {} /\ down = {} /\ joined = {}
    /\ n = [c \in Cids \cup {0} |-> 0]
    /\ crossed = {} /\ wild = FALSE

LockedNever(s) == FALSE \* mutant: the JOIN-ACK handler reads without the lock

(* A worker that has a write lock on a slot of conn_list: the others wait. *)
Locked(s) == \E k \in Workers : w[k].pc \in {"join3", "join4", "join5"} /\ w[k].sid = s
(* A worker that has a read lock on a room. *)
Reading(r) == \E k \in Workers : w[k].pc = "join4" /\ w[k].rid = r

(* lsnd_kick_add: under the lock of the connection; a CID that is in         *)
(* kick_list keeps its time.                                                 *)
KickStat(c) == [conn EXCEPT ![c].stat = "KICK"]
KickAdd(c) == [d \in DOMAIN kick \cup {c} |-> IF d \in DOMAIN kick THEN kick[d] ELSE "wait"]

-----------------------------------------------------------------------------
(* The receiver: lsnd_callback. *)

(* lsnd_callback_creat_handler *)
lsnd_callback_creat_handler(c) ==
    /\ rv = Idle /\ conn[c].st = "none" /\ scene.reqs[c] # <<>>
    /\ conn' = [conn EXCEPT ![c] = [st |-> "open", stat |-> "ESTABLISH", sid |-> 0]]
    /\ UNCHANGED <<scene, crossed, list, tabVars, kick, asked, kickfree, rv, w, t, net, sent, down, n, wild>>

Destroying(c) == [pc |-> "destroy", c |-> c, left |-> NoRooms]

(* acc_rsvr_del_conn of the access library: the client closed, or a kick.    *)
acc_rsvr_del_conn(c) ==
    /\ rv = Idle /\ Live(c)
    /\ scene.close \/ c \in asked
    /\ asked' = asked \ {c}
    /\ rv' = Destroying(c)
    /\ UNCHANGED <<scene, crossed, conn, list, tabVars, kick, kickfree, w, t, net, sent, down, n, wild>>

Req(c) == scene.reqs[c][n[c] + 1]
(* lsnd_callback_recv_handler: a packet of a connection that is being kicked *)
(* is dropped; one with an old sequence number ends the connection.          *)
Receiving(c, req) ==
    /\ rv = Idle /\ Live(c) /\ n[c] < Len(scene.reqs[c]) /\ Req(c) = req
    /\ n' = [n EXCEPT ![c] = @ + 1]
Accepted(c) == conn[c].stat # "KICK"

(* What the application ignores: packets of a kicked connection, and types   *)
(* nobody registered of one that is not ONLINE.                              *)
lsnd_callback_recv_ignored(c) ==
    /\ \/ \E req \in {"ONLINE", "OFFLINE", "JOIN", "QUIT", "CHAT", "OTHER", "PING", "OLD"} :
            Receiving(c, req) /\ ~Accepted(c)
       \/ Receiving(c, "OTHER") /\ Accepted(c) /\ conn[c].stat # "ONLINE"
       \/ Receiving(c, "PING") /\ Accepted(c)    \* lsnd_mesg_ping_handler: PONG
    /\ UNCHANGED <<scene, crossed, conn, list, tabVars, kick, asked, kickfree, rv, w, t, net, sent, down, wild>>

lsnd_callback_recv_old(c) ==
    /\ Receiving(c, "OLD") /\ Accepted(c)
    /\ rv' = Destroying(c)
    /\ UNCHANGED <<scene, crossed, conn, list, tabVars, kick, asked, kickfree, w, t, net, sent, down, wild>>

(* lsnd_mesg_online_handler: a second ONLINE finds the connection in         *)
(* conn_list and ends it.  The answer comes from upstream.                   *)
lsnd_mesg_online_handler(c) ==
    LET s == scene.sid[c]
    IN /\ Receiving(c, "ONLINE") /\ Accepted(c) /\ ~Locked(s)
       /\ conn' = [conn EXCEPT ![c].sid = s]
       /\ IF <<s, c>> \in list
          THEN rv' = Destroying(c) /\ UNCHANGED <<list, net, sent>>
          ELSE /\ list' = list \cup {<<s, c>>}
               /\ sent' = sent \cup {<<"ONLINE", c>>}
               /\ net' = net \cup {Mesg("ONLINE_ACK", s, c, 0, 0)}
               /\ UNCHANGED rv
       /\ UNCHANGED <<scene, crossed, tabVars, kick, asked, kickfree, w, t, down, wild>>

(* The SID is the one in the header, and conn->sid, the key of the entry      *)
(* that is in conn_list, is overwritten: with another SID the entry is left   *)
(* in a slot it does not belong to, where it will be found or not, and        *)
(* stays when the connection is freed.                                       *)
lsnd_mesg_online_rekey(c) ==
    /\ Receiving(c, "REKEY") /\ Accepted(c) /\ <<scene.sid[c], c>> \in list
    /\ wild' = TRUE
    /\ UNCHANGED <<scene, crossed, conn, list, tabVars, kick, asked, kickfree, rv, w, t, net, sent, down>>

(* lsnd_mesg_offline_handler always ends the connection. *)
lsnd_mesg_offline_handler(c) ==
    /\ Receiving(c, "OFFLINE") /\ Accepted(c) /\ ~Locked(scene.sid[c])
    /\ IF <<scene.sid[c], c>> \in list
       THEN /\ conn' = [conn EXCEPT ![c].stat = "OFFLINE"]
            /\ sent' = sent \cup {<<"OFFLINE", c>>}
       ELSE UNCHANGED <<conn, sent>>
    /\ rv' = Destroying(c)
    /\ UNCHANGED <<scene, crossed, list, tabVars, kick, asked, kickfree, w, t, net, down, wild>>

(* lsnd_mesg_room_join_handler: upstream answers with the group of each room. *)
lsnd_mesg_room_join_handler(c) ==
    /\ Receiving(c, "JOIN") /\ Accepted(c)
    /\ sent' = sent \cup {<<"JOIN", c>>}
    /\ net' = net \cup {Mesg("ROOM_JOIN_ACK", scene.sid[c], 0, p[1], p[2]) : p \in scene.join[c]}
    /\ UNCHANGED <<scene, crossed, conn, list, tabVars, kick, asked, kickfree, rv, w, t, down, wild>>

(* lsnd_mesg_def_handler: on to upstream. *)
lsnd_mesg_def_handler(c) ==
    /\ \E req \in {"CHAT", "OTHER"} :
         /\ Receiving(c, req) /\ Accepted(c)
         /\ req = "OTHER" => conn[c].stat = "ONLINE"
         /\ sent' = sent \cup {<<req, c>>}
    /\ UNCHANGED <<scene, crossed, conn, list, tabVars, kick, asked, kickfree, rv, w, t, net, down, wild>>

Without(f, k) == [j \in DOMAIN f \ {k} |-> f[j]]
Assign(f, k, v) == [j \in DOMAIN f \cup {k} |-> IF j = k THEN v ELSE f[j]]

RoomDelAlways(rs, r, g, s, c) == \* mutant: counts a session that is not there
    [rs EXCEPT ![r].mem = @ \ {<<g, s, c>>}, ![r].num = @ - 1]

(* _chat_room_del_session: under a read lock on the room. *)
RoomDel(rs, r, g, s, c) ==
    IF ~rs[r].on \/ <<g, s, c>> \notin rs[r].mem THEN rs
    ELSE [rs EXCEPT ![r].mem = @ \ {<<g, s, c>>}, ![r].num = @ - 1]

(* chat_room_del_session: the slot of a session that is there is read-locked *)
(* and not unlocked again.                                                   *)
chat_room_del_session(r, s, c) ==
    LET k == <<s, c>>
    IN IF k \notin Sessions THEN UNCHANGED <<sess, rooms, joined, leaked>>
       ELSE /\ leaked' = leaked \cup {s}
            /\ IF r \notin DOMAIN sess[k] THEN UNCHANGED <<sess, rooms, joined>>
               ELSE /\ sess' = [sess EXCEPT ![k] = Without(@, r)]
                    /\ rooms' = RoomDel(rooms, r, sess[k][r], s, c)
                    /\ joined' = joined \ {<<r, sess[k][r], s, c>>}

(* lsnd_mesg_room_quit_handler: the client quits a room of scene.join. *)
lsnd_mesg_room_quit_handler(c) ==
    /\ Receiving(c, "QUIT") /\ Accepted(c)
    /\ sent' = sent \cup {<<"QUIT", c>>}
    /\ \E p \in scene.join[c] : chat_room_del_session(p[1], conn[c].sid, c)
    /\ UNCHANGED <<scene, crossed, conn, list, cids, kick, asked, kickfree, rv, w, t, net, down, wild>>

(* lsnd_callback_destroy_handler: conn_list; then chat_del_session: sid2cids *)
(* if it names this connection, sessions, the rooms; then OFFLINE is sent    *)
(* and the memory freed.                                                     *)
lsnd_callback_destroy_handler ==
    /\ rv.pc = "destroy" /\ ~Locked(conn[rv.c].sid)
    /\ list' = list \ {<<conn[rv.c].sid, rv.c>>}
    /\ conn' = [conn EXCEPT ![rv.c].stat = "CLOSED"]
    /\ rv' = [rv EXCEPT !.pc = "del_cid"]
    /\ UNCHANGED <<scene, crossed, tabVars, kick, asked, kickfree, w, t, net, sent, down, n, wild>>

chat_del_sid_always == \* mutant: the mapping of the newer connection goes too
    /\ rv.pc = "del_cid"
    /\ cids' = IF conn[rv.c].sid = 0 THEN cids ELSE [cids EXCEPT ![conn[rv.c].sid] = 0]
    /\ rv' = [rv EXCEPT !.pc = "del_sess"]
    /\ UNCHANGED <<scene, crossed, conn, list, sess, rooms, joined, leaked, kick, asked, kickfree, w, t, net, sent, down, n, wild>>

chat_del_sid_to_cid ==
    /\ rv.pc = "del_cid"
    /\ cids' = [s \in Sids |-> IF s = conn[rv.c].sid /\ cids[s] = rv.c THEN 0 ELSE cids[s]]
    /\ rv' = [rv EXCEPT !.pc = "del_sess"]
    /\ UNCHANGED <<scene, crossed, conn, list, sess, rooms, joined, leaked, kick, asked, kickfree, w, t, net, sent, down, n, wild>>

(* A slot that is read-locked for good stops the receiver here. *)
chat_del_session ==
    LET k == <<conn[rv.c].sid, rv.c>>
    IN /\ rv.pc = "del_sess" /\ conn[rv.c].sid \notin leaked
       /\ sess' = Without(sess, k)
       /\ rv' = [pc |-> "del_rooms", c |-> rv.c, left |-> IF k \in Sessions THEN sess[k] ELSE NoRooms]
       /\ UNCHANGED <<scene, crossed, conn, list, cids, rooms, joined, leaked, kick, asked, kickfree, w, t, net, sent, down, n, wild>>

chat_room_trav_del_session ==
    /\ rv.pc = "del_rooms"
    /\ \E r \in DOMAIN rv.left :
         /\ rooms' = RoomDel(rooms, r, rv.left[r], conn[rv.c].sid, rv.c)
         /\ joined' = joined \ {<<r, rv.left[r], conn[rv.c].sid, rv.c>>}
         /\ rv' = [rv EXCEPT !.left = Without(@, r)]
    /\ UNCHANGED <<scene, crossed, conn, list, cids, sess, leaked, kick, asked, kickfree, w, t, net, sent, down, n, wild>>

lsnd_offline_notify ==
    /\ rv.pc = "del_rooms" /\ rv.left = NoRooms
    /\ sent' = sent \cup {<<"OFFLINE", rv.c>>}
    /\ conn' = [conn EXCEPT ![rv.c].st = "gone"]
    /\ rv' = Idle
    /\ UNCHANGED <<scene, crossed, list, tabVars, kick, asked, kickfree, w, t, net, down, n, wild>>

-----------------------------------------------------------------------------
(* The workers: handlers of upstream messages.  Messages may overtake each   *)
(* other.                                                                    *)

Take(k, m) == w[k] = Idle /\ m \in net /\ net' = net \ {m}
Done(k) == w' = [w EXCEPT ![k] = Idle]
Go(k, pc) == w' = [w EXCEPT ![k].pc = pc]
Started(k, m, pc) == w' = [w EXCEPT ![k] = [pc |-> pc, sid |-> m.sid, c |-> m.c, rid |-> m.rid, gid |-> m.gid]]

(* Workers that are between making a connection of the SID ONLINE and        *)
(* entering it in sid2cids; the history that one more begins with m.         *)
Entering(s) == {k \in Workers : w[k].pc \in {"ack2", "ack3", "ack4"} /\ w[k].sid = s}
Crossing(m) == IF Entering(m.sid) = {} THEN {} ELSE {m.c} \cup {w[k].c : k \in Entering(m.sid)}

(* lsnd_mesg_online_ack_logic, under a read lock on conn_list. *)
lsnd_mesg_online_ack_logic(k, m) ==
    /\ m.type = "ONLINE_ACK" /\ Take(k, m) /\ ~Locked(m.sid)
    /\ IF <<m.sid, m.c>> \notin list
       THEN UNCHANGED <<conn, kick, w, crossed>>
       ELSE IF conn[m.c].stat # "ESTABLISH"
       THEN conn' = KickStat(m.c) /\ kick' = KickAdd(m.c) /\ UNCHANGED <<w, crossed>>
       ELSE /\ conn' = [conn EXCEPT ![m.c].stat = "ONLINE"]
            /\ Started(k, m, "ack2")
            /\ crossed' = crossed \cup Crossing(m)
            /\ UNCHANGED kick
    /\ UNCHANGED <<scene, list, tabVars, asked, kickfree, rv, t, sent, down, n, wild>>

(* chat_get_cid_by_sid: the connection that had the SID before (old). *)
chat_get_cid_by_sid(k) ==
    /\ w[k].pc = "ack2"
    /\ w' = [w EXCEPT ![k].pc = "ack3", ![k].rid = cids[w[k].sid]]
    /\ UNCHANGED <<scene, crossed, conn, list, tabVars, kick, asked, kickfree, rv, t, net, sent, down, n, wild>>

ack_kick_none(k) == \* mutant: the old connection stays
    /\ w[k].pc = "ack3" /\ Go(k, "ack4")
    /\ UNCHANGED <<scene, crossed, conn, list, tabVars, kick, asked, kickfree, rv, t, net, sent, down, n, wild>>

(* The old connection is kicked, if it is still in conn_list. *)
ack_kick_old(k) ==
    LET s == w[k].sid
        old == w[k].rid
    IN /\ w[k].pc = "ack3" /\ Go(k, "ack4") /\ ~Locked(s)
       /\ IF old \notin {0, w[k].c} /\ <<s, old>> \in list
          THEN conn' = KickStat(old) /\ kick' = KickAdd(old)
          ELSE UNCHANGED <<conn, kick>>
       /\ UNCHANGED <<scene, crossed, list, tabVars, asked, kickfree, rv, t, net, sent, down, n, wild>>

(* lsnd_upmesg_online_ack_handler passes the acknowledgement on if           *)
(* lsnd_mesg_online_ack_logic took it.                                       *)
lsnd_upmesg_online_ack_handler(k) == down' = down \cup {<<w[k].c, "ONLINE_ACK", <<0, 0>>>>}

chat_set_sid_to_cid(k) ==
    /\ w[k].pc = "ack4" /\ Done(k)
    /\ cids' = [cids EXCEPT ![w[k].sid] = w[k].c]
    /\ lsnd_upmesg_online_ack_handler(k)
    /\ UNCHANGED <<scene, crossed, conn, list, sess, rooms, joined, leaked, kick, asked, kickfree, rv, t, net, sent, n, wild>>

(* lsnd_upmesg_room_join_ack_handler: the connection of the SID. *)
lsnd_upmesg_room_join_ack_handler(k, m) ==
    /\ m.type = "ROOM_JOIN_ACK" /\ Take(k, m)
    /\ Started(k, [m EXCEPT !.c = cids[m.sid]], "join2")
    /\ UNCHANGED <<scene, crossed, conn, list, tabVars, kick, asked, kickfree, rv, t, sent, down, n, wild>>

join_ack_unchecked(k) == \* mutant: the state of the connection is not looked at
    /\ w[k].pc = "join2" /\ ~Locked(w[k].sid)
    /\ IF <<w[k].sid, w[k].c>> \notin list THEN Done(k) /\ UNCHANGED conn
       ELSE conn' = [conn EXCEPT ![w[k].c].stat = "ONLINE"] /\ Go(k, "join3")
    /\ UNCHANGED <<scene, crossed, list, tabVars, kick, asked, kickfree, rv, t, net, sent, down, n, wild>>

(* Under a write lock on conn_list it must be ONLINE; chat_room_add_session  *)
(* then looks for the session.  One that exists gets the room, but the room  *)
(* does not get the session.                                                 *)
chat_room_add_session(k) ==
    LET key == <<w[k].sid, w[k].c>>
    IN /\ w[k].pc = "join2" /\ ~Locked(w[k].sid)
       /\ IF key \notin list \/ conn[w[k].c].stat # "ONLINE"
          THEN Done(k) /\ UNCHANGED <<conn, sess, down>>
          ELSE /\ conn' = [conn EXCEPT ![w[k].c].stat = "ONLINE"]
               /\ IF key \in Sessions
                  THEN /\ Done(k)
                       /\ sess' = IF w[k].rid \in DOMAIN sess[key] THEN sess
                                  ELSE [sess EXCEPT ![key] = Assign(@, w[k].rid, w[k].gid)]
                       /\ down' = down \cup {<<w[k].c, "ROOM_JOIN_ACK", <<0, 0>>>>}
                  ELSE Go(k, "join3") /\ UNCHANGED <<sess, down>>
       /\ UNCHANGED <<scene, crossed, list, cids, rooms, joined, leaked, kick, asked, kickfree, rv, t, net, sent, n, wild>>

(* _chat_room_add_session and chat_group_add_session: the room is made if it *)
(* is not there and read-locked; the session goes into the group, then the   *)
(* number of members is increased.                                           *)
chat_group_add_session(k) ==
    LET r == w[k].rid
    IN /\ w[k].pc = "join3" /\ Go(k, "join4")
       /\ rooms' = [rooms EXCEPT ![r].on = TRUE, ![r].mem = @ \cup {<<w[k].gid, w[k].sid, w[k].c>>}]
       /\ joined' = joined \cup {<<r, w[k].gid, w[k].sid, w[k].c>>}
       /\ UNCHANGED <<scene, crossed, conn, list, cids, sess, leaked, kick, asked, kickfree, rv, t, net, sent, down, n, wild>>

chat_group_sid_num(k) ==
    /\ w[k].pc = "join4" /\ Go(k, "join5")
    /\ rooms' = [rooms EXCEPT ![w[k].rid].num = @ + 1]
    /\ UNCHANGED <<scene, crossed, conn, list, cids, sess, joined, leaked, kick, asked, kickfree, rv, t, net, sent, down, n, wild>>

chat_session_tab_add(k) ==
    LET key == <<w[k].sid, w[k].c>>
    IN /\ w[k].pc = "join5" /\ w[k].sid \notin leaked /\ Done(k)
       /\ sess' = Assign(sess, key, [r \in {w[k].rid} |-> w[k].gid])
       /\ down' = down \cup {<<w[k].c, "ROOM_JOIN_ACK", <<0, 0>>>>}
       /\ UNCHANGED <<scene, crossed, conn, list, cids, rooms, joined, leaked, kick, asked, kickfree, rv, t, net, sent, n, wild>>

(* lsnd_upmesg_kick_handler: without a CID, the one the SID has now. *)
lsnd_upmesg_kick_handler(k, m) ==
    /\ m.type = "KICK" /\ Take(k, m)
    /\ Started(k, [m EXCEPT !.c = IF @ = 0 THEN cids[m.sid] ELSE @], "kick2")
    /\ UNCHANGED <<scene, crossed, conn, list, tabVars, kick, asked, kickfree, rv, t, sent, down, n, wild>>

kick_conn_delete(k) ==
    /\ w[k].pc = "kick2" /\ ~Locked(w[k].sid)
    /\ IF <<w[k].sid, w[k].c>> \in list THEN Go(k, "kick3") ELSE Done(k)
    /\ list' = list \ {<<w[k].sid, w[k].c>>}
    /\ UNCHANGED <<scene, crossed, conn, tabVars, kick, asked, kickfree, rv, t, net, sent, down, n, wild>>

(* lsnd_kick_add with no lock held: the receiver may have freed it. *)
lsnd_kick_add(k) ==
    /\ w[k].pc = "kick3" /\ Done(k)
    /\ IF conn[w[k].c].st = "gone"
       THEN wild' = TRUE /\ UNCHANGED <<conn, kick, down>>
       ELSE /\ conn' = KickStat(w[k].c) /\ kick' = KickAdd(w[k].c)
            /\ down' = down \cup {<<w[k].c, "KICK", <<0, 0>>>>}
            /\ UNCHANGED wild
    /\ UNCHANGED <<scene, crossed, list, tabVars, asked, kickfree, rv, t, net, sent, n>>

chat_group_trav_all(r, g) == rooms[r].mem \* mutant: the group is not looked at

(* Group 0 is every group. *)
chat_group_trav(r, g) == {x \in rooms[r].mem : g \in {0, x[1]}}
chat_room_trav_session(r, g) == IF rooms[r].on THEN chat_group_trav(r, g) ELSE {}

(* lsnd_room_mesg_trav_send_handler, for every session that is visited. *)
lsnd_room_mesg_trav_send_handler(r, g) ==
    down' = down \cup {<<x[3], "ROOM", <<r, g>>>> : x \in chat_room_trav_session(r, g)}

(* A message to a group of a room, or to all of them. *)
lsnd_upmesg_room_chat_handler(k, m) ==
    /\ m.type = "ROOM_CHAT" /\ Take(k, m) /\ UNCHANGED w
    /\ lsnd_room_mesg_trav_send_handler(m.rid, m.gid)
    /\ UNCHANGED <<scene, crossed, conn, list, tabVars, kick, asked, kickfree, rv, t, sent, n, wild>>

(* A broadcast (bc, usr_num) goes to all groups of a room, ... *)
lsnd_upmesg_room_bc_handler(k, m) ==
    /\ m.type = "ROOM_BC" /\ Take(k, m) /\ UNCHANGED w
    /\ lsnd_room_mesg_trav_send_handler(m.rid, 0)
    /\ UNCHANGED <<scene, crossed, conn, list, tabVars, kick, asked, kickfree, rv, t, sent, n, wild>>

(* ... and so do the notifications (quit_ntf, kick_ntf, join_ntf). *)
lsnd_upmesg_room_ntf_handler(k, m) ==
    /\ m.type = "ROOM_NTF" /\ Take(k, m) /\ UNCHANGED w
    /\ lsnd_room_mesg_trav_send_handler(m.rid, 0)
    /\ UNCHANGED <<scene, crossed, conn, list, tabVars, kick, asked, kickfree, rv, t, sent, n, wild>>

(* lsnd_upmesg_def_handler *)
lsnd_upmesg_def_handler(k, m) ==
    /\ m.type = "DEF" /\ Take(k, m) /\ UNCHANGED w
    /\ down' = down \cup {<<IF m.c = 0 THEN cids[m.sid] ELSE m.c, "DEF", <<0, 0>>>>}
    /\ UNCHANGED <<scene, crossed, conn, list, tabVars, kick, asked, kickfree, rv, t, sent, n, wild>>

-----------------------------------------------------------------------------
(* The timer thread, upstream, and the time. *)

Todo(pc, S) == [pc |-> pc, todo |-> S]

timer_kick_never == FALSE \* mutant: nobody is ever due

(* lsnd_timer_kick_handler, every 5 seconds: collects who is due, ... *)
lsnd_timer_kick_handler ==
    LET due == {c \in DOMAIN kick : kick[c] = "due"}
    IN /\ t.pc = "idle" /\ due # {}
       /\ t' = Todo("kick", due)
       /\ UNCHANGED <<scene, crossed, conn, list, tabVars, kick, asked, kickfree, rv, w, net, sent, down, n, wild>>

(* ... takes them off kick_list one by one and asks the access library to    *)
(* close them; whether it took the kick is not looked at.                    *)
timer_kick_one ==
    /\ t.pc = "kick"
    /\ \E c \in t.todo :
         /\ kick' = Without(kick, c)
         /\ t' = IF t.todo = {c} THEN Idle ELSE Todo("kick", t.todo \ {c})
         /\ kickfree' = IF kickfree > 0 THEN kickfree - 1 ELSE 0
         /\ asked' = IF kickfree > 0 /\ Live(c) THEN asked \cup {c} ELSE asked
    /\ UNCHANGED <<scene, crossed, conn, list, tabVars, rv, w, net, sent, down, n, wild>>

(* chat_room_clean_hdl: lists rooms without members, ... *)
chat_room_clean_hdl ==
    LET empty == {r \in Rids : rooms[r].on /\ rooms[r].num = 0}
    IN /\ t.pc = "idle" /\ empty # {}
       /\ t' = Todo("clean", empty)
       /\ UNCHANGED <<scene, crossed, conn, list, tabVars, kick, asked, kickfree, rv, w, net, sent, down, n, wild>>

lsnd_timer_room_clean_handler == scene.clean /\ chat_room_clean_hdl

CleanOne(r) == t' = IF t.todo = {r} THEN Idle ELSE Todo("clean", t.todo \ {r})
Destroyed(r) == rooms' = [rooms EXCEPT ![r] = [on |-> FALSE, num |-> 0, mem |-> {}]]

chat_del_room_listed == \* mutant: the number is not looked at again
    /\ t.pc = "clean"
    /\ \E r \in t.todo : CleanOne(r) /\ ~Reading(r) /\ Destroyed(r)
    /\ UNCHANGED <<scene, crossed, conn, list, cids, sess, joined, leaked, kick, asked, kickfree, rv, w, net, sent, down, n, wild>>

(* ... and destroys each that has still none, under a write lock. *)
chat_del_room ==
    /\ t.pc = "clean"
    /\ \E r \in t.todo :
         /\ CleanOne(r) /\ ~Reading(r)
         /\ IF rooms[r].on /\ rooms[r].num = 0 THEN Destroyed(r) ELSE UNCHANGED rooms
    /\ UNCHANGED <<scene, crossed, conn, list, cids, sess, joined, leaked, kick, asked, kickfree, rv, w, net, sent, down, n, wild>>

(* LSND_KICK_TTL passes. *)
Tick ==
    /\ \E c \in DOMAIN kick : kick[c] = "wait"
    /\ kick' = [c \in DOMAIN kick |-> "due"]
    /\ UNCHANGED <<scene, crossed, conn, list, tabVars, asked, kickfree, rv, w, t, net, sent, down, n, wild>>

Upstream ==
    /\ n[0] < Len(scene.ups)
    /\ n' = [n EXCEPT ![0] = @ + 1]
    /\ net' = net \cup {scene.ups[n[0] + 1]}
    /\ UNCHANGED <<scene, crossed, conn, list, tabVars, kick, asked, kickfree, rv, w, t, sent, down, wild>>

-----------------------------------------------------------------------------
Destroy ==
    \/ lsnd_callback_destroy_handler \/ chat_del_sid_to_cid \/ chat_del_session
    \/ chat_room_trav_del_session \/ lsnd_offline_notify
Receiver ==
    \/ \E c \in Cids :
         \/ lsnd_callback_creat_handler(c) \/ acc_rsvr_del_conn(c)
         \/ lsnd_callback_recv_ignored(c) \/ lsnd_callback_recv_old(c)
         \/ lsnd_mesg_online_handler(c) \/ lsnd_mesg_online_rekey(c) \/ lsnd_mesg_offline_handler(c)
         \/ lsnd_mesg_def_handler(c) \/ lsnd_mesg_room_join_handler(c) \/ lsnd_mesg_room_quit_handler(c)
    \/ Destroy
Worker(k) ==
    \/ \E m \in net :
         \/ lsnd_mesg_online_ack_logic(k, m) \/ lsnd_upmesg_room_join_ack_handler(k, m)
         \/ lsnd_upmesg_kick_handler(k, m) \/ lsnd_upmesg_room_chat_handler(k, m)
         \/ lsnd_upmesg_room_bc_handler(k, m) \/ lsnd_upmesg_room_ntf_handler(k, m)
         \/ lsnd_upmesg_def_handler(k, m)
    \/ chat_get_cid_by_sid(k) \/ ack_kick_old(k) \/ chat_set_sid_to_cid(k)
    \/ chat_room_add_session(k) \/ chat_group_add_session(k)
    \/ chat_group_sid_num(k) \/ chat_session_tab_add(k)
    \/ kick_conn_delete(k) \/ lsnd_kick_add(k)
Timer == lsnd_timer_kick_handler \/ timer_kick_one \/ lsnd_timer_room_clean_handler \/ chat_del_room

Next == ~wild /\ (Receiver \/ (\E k \in Workers : Worker(k)) \/ Timer \/ Tick \/ Upstream)

(* Threads are scheduled; the access library carries out a kick it took.     *)
(* Clients need neither ask nor close.                                       *)
Fairness ==
    /\ WF_vars(~wild /\ Destroy) /\ WF_vars(~wild /\ Timer) /\ WF_vars(~wild /\ Tick)
    /\ \A k \in Workers : WF_vars(~wild /\ Worker(k))
    /\ \A c \in Cids : SF_vars(~wild /\ c \in asked /\ acc_rsvr_del_conn(c))

Spec == Init /\ [][Next]_vars /\ Fairness

-----------------------------------------------------------------------------
(* Properties. *)

(* The type of the state. *)
TypeOK ==
    /\ \A c \in Cids : /\ conn[c].st \in {"none", "open", "gone"} /\ conn[c].sid \in Sids \cup {0}
                       /\ conn[c].stat \in {"ESTABLISH", "ONLINE", "KICK", "OFFLINE", "CLOSED"}
    /\ list \subseteq Sids \X Cids /\ cids \in [Sids -> Cids \cup {0}]
    /\ Sessions \subseteq Sids \X Cids
    /\ \A r \in Rids : rooms[r].num \in 0 .. Cardinality(rooms[r].mem)
                       /\ rooms[r].mem \subseteq Gids \X Sids \X Cids
    /\ DOMAIN kick \subseteq Cids /\ asked \subseteq Cids /\ leaked \subseteq Sids
    /\ crossed \subseteq Cids

(* The connections a SID is ONLINE on; not one that the handler of a KICK has  *)
(* taken out of conn_list and will mark next.                                *)
Kicking(c) == \E k \in Workers : w[k].pc = "kick3" /\ w[k].c = c
OnlineAs(s) == {c \in Cids : conn[c].sid = s /\ conn[c].stat = "ONLINE" /\ ~Kicking(c)}

(* doc/design/listend.md:18: on an ONLINE-ACK the SID is led to the new       *)
(* connection, and the one it led to is kicked.  So once the handlers are     *)
(* done a SID has one connection.  Two that handle acknowledgements of one    *)
(* SID at a time may both read sid2cids before either has written it         *)
(* (lsnd_mesg.c:174, :185).                                                  *)
OldIsKicked == \A s \in Sids : Entering(s) = {} => Cardinality(OnlineAs(s)) <= 1

(* Whatever the workers do at a time: of connections whose acknowledgements   *)
(* were not handled at a time, a SID is ONLINE on one only.  The old one is   *)
(* kicked also if two that are handled at a time supersede it.                *)
OneOnline == \A s \in Sids : Entering(s) = {} => Cardinality(OnlineAs(s) \ crossed) <= 1

(* Such a connection is the one its SID leads to: the end of the old          *)
(* connection does not take the mapping of the new one away.                 *)
SidFindsConn ==
    \A s \in Sids : Entering(s) = {} => \A c \in OnlineAs(s) \ crossed : cids[s] = c

(* Nothing of a connection is left in conn_list, sessions or a room once it  *)
(* is gone, also when a JOIN-ACK arrives while it is being destroyed.        *)
GoneLeavesNothing ==
    \A c \in Cids : conn[c].st = "gone" =>
        /\ \A s \in Sids : <<s, c>> \notin list /\ <<s, c>> \notin Sessions
        /\ \A r \in Rids : \A x \in rooms[r].mem : x[3] # c

(* A session that was put into a room stays there until it leaves: a room     *)
(* found empty is not destroyed when somebody has joined since; and the       *)
(* number of members is exact when nobody is adding one.                     *)
MembersKept ==
    \A r \in Rids :
        /\ rooms[r].mem = {<<j[2], j[3], j[4]>> : j \in {x \in joined : x[1] = r}}
        /\ ~Reading(r) => rooms[r].num = Cardinality(rooms[r].mem)

(* A message to a group reaches only connections whose SID asked to join it. *)
RoomTarget ==
    \A d \in down : d[2] = "ROOM" =>
        \E c \in Cids : /\ scene.sid[c] = scene.sid[d[1]]
                        /\ \E p \in scene.join[c] : p[1] = d[3][1] /\ d[3][2] \in {0, p[2]}

(* A connection that is being kicked never gets back to ONLINE. *)
KickSticks ==
    [][\A c \in Cids : conn[c].stat = "KICK" => conn'[c].stat \in {"KICK", "CLOSED"}]_vars

(* A connection in kick_list is closed in the end, unless the kickq of the    *)
(* access library is used up or the receiver waits for a slot of sessions     *)
(* that chat_room_del_session left locked.                                   *)
Stuck == rv.pc = "del_sess" /\ conn[rv.c].sid \in leaked
KickCompletes ==
    \A c \in Cids : (c \in DOMAIN kick) ~> (conn[c].st = "gone" \/ kickfree = 0 \/ Stuck \/ wild)

(* A SID is ONLINE on one connection, the one that the tables lead to, unless *)
(* two workers handled its acknowledgements at a time.                       *)
SidLeadsToOne == TypeOK /\ OneOnline /\ SidFindsConn

(* Rooms hold exactly who joined them, and a message goes to those only,     *)
(* while rooms are made, cleaned and left.                                   *)
RoomsRight == MembersKept /\ RoomTarget

(* A kick is final: it is never undone, and ends the connection. *)
KicksEnd == KickSticks /\ KickCompletes
=============================================================================
