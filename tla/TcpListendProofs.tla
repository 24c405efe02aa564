-------------------------- MODULE TcpListendProofs --------------------------
(***************************************************************************)
(* Proofs about listend, for any number of connections, SIDs, rooms,       *)
(* groups and workers, and any order of what clients, upstream, the        *)
(* receiver, the workers and the timer do.                                 *)
(***************************************************************************)
EXTENDS TcpListend, TLAPS, FiniteSetTheorems

(* The state. *)
Stats == {"ESTABLISH", "ONLINE", "KICK", "OFFLINE", "CLOSED"}
ConnSet == [st : {"none", "open", "gone"}, stat : Stats, sid : Sids \cup {0}]
Mesgs == [type : UpTypes \cup {"ONLINE_ACK", "ROOM_JOIN_ACK"}, sid : Sids \cup {0}, c : Cids \cup {0},
          rid : Rids \cup {0}, gid : Gids \cup {0}]
Acks == {"ack2", "ack3", "ack4"}
Locks == {"join3", "join4", "join5"}
WorkSet == [pc : {"idle", "join2", "kick2", "kick3"} \cup Acks \cup Locks,
            sid : Sids \cup {0}, c : Cids \cup {0}, rid : Rids \cup Cids \cup {0}, gid : Gids \cup {0}]
Ends == {"del_cid", "del_sess", "del_rooms"}

\* A table of rooms, with the group in each.
IsRooms(f) == f = [r \in DOMAIN f |-> f[r]] /\ \A r \in DOMAIN f : r \in Rids /\ f[r] \in Gids

Typed ==
    /\ scene \in Scenes /\ conn \in [Cids -> ConnSet] /\ list \subseteq Sids \X Cids
    /\ cids \in [Sids -> Cids \cup {0}] /\ DOMAIN kick \subseteq Cids /\ asked \subseteq Cids
    /\ leaked \subseteq Sids /\ w \in [Workers -> WorkSet] /\ net \subseteq Mesgs
    /\ n \in [Cids \cup {0} -> Nat] /\ joined \subseteq Rids \X Gids \X Sids \X Cids
TimerTyped == (t.pc = "kick" => t.todo \subseteq Cids) /\ (t.pc = "clean" => t.todo \subseteq Rids)
SessTyped ==
    /\ sess = [k \in DOMAIN sess |-> sess[k]]
    /\ \A k \in DOMAIN sess : k \in Sids \X Cids /\ IsRooms(sess[k])
RoomSet == [on : BOOLEAN, num : Int, mem : SUBSET (Gids \X Sids \X Cids)]
RoomsTyped ==
    /\ rooms \in [Rids -> RoomSet]
    /\ \A r \in Rids : IsFiniteSet(rooms[r].mem)
RvRight ==
    /\ rv.pc \in {"idle", "destroy"} \cup Ends
    /\ rv.pc = "idle" => rv = Idle
    /\ rv.pc # "idle" => /\ rv = [pc |-> rv.pc, c |-> rv.c, left |-> rv.left]
                         /\ rv.c \in Cids /\ conn[rv.c].st = "open" /\ IsRooms(rv.left)
    /\ rv.pc \in Ends => conn[rv.c].stat \in {"CLOSED", "KICK"}

\* Some connection of the SID asked for the room and the group.
Wanted(s, r, g) == \E c \in Cids : scene.sid[c] = s /\ <<r, g>> \in scene.join[c]

NetRight ==
    \A m \in net :
        /\ m.type = "ONLINE_ACK" => m.c \in Cids /\ m.sid = scene.sid[m.c]
        /\ m.type = "ROOM_JOIN_ACK" => /\ m.sid \in Sids /\ m.rid \in Rids /\ m.gid \in Gids
                                       /\ Wanted(m.sid, m.rid, m.gid)
        /\ m.type \in UpTypes => m \in UpMesgs

\* conn_list names open connections under their SID, and none that lsnd_callback_destroy_handler
\* has taken out of it; so does sessions, until chat_del_session.
ListRight == \A s \in Sids, c \in Cids : <<s, c>> \in list =>
                conn[c].st = "open" /\ conn[c].sid = s /\ ~(rv.pc \in Ends /\ rv.c = c)
SessRight == \A s \in Sids, c \in Cids : <<s, c>> \in Sessions =>
                conn[c].st = "open" /\ conn[c].sid = s /\ ~(rv.pc = "del_rooms" /\ rv.c = c)

\* A connection has the SID it sent, and one that is ONLINE is in conn_list, until a KICK from
\* upstream takes it out, with the worker that will set its state.
ConnRight ==
    \A c \in Cids :
        /\ conn[c].sid \in {0, scene.sid[c]}
        /\ conn[c].st = "none" => conn[c].stat = "CLOSED"
        /\ conn[c].st = "gone" => conn[c].stat \in {"CLOSED", "KICK"}
        /\ conn[c].stat = "ONLINE" => conn[c].sid \in Sids /\ (<<conn[c].sid, c>> \in list \/ Kicking(c))

\* What a worker is about: the lock of the JOIN-ACK handler keeps its connection in conn_list and
\* out of sessions, and what it has added in the room.
WorkOk(k) ==
    /\ w[k].pc = "idle" => w[k] = Idle
    /\ w[k].pc \in Acks => w[k].c \in Cids /\ w[k].sid = scene.sid[w[k].c]
    /\ w[k].pc \in Locks \cup {"join2"} =>
         w[k].sid \in Sids /\ w[k].rid \in Rids /\ w[k].gid \in Gids /\ Wanted(w[k].sid, w[k].rid, w[k].gid)
    /\ w[k].pc \in Locks => <<w[k].sid, w[k].c>> \in list /\ <<w[k].sid, w[k].c>> \notin Sessions
    /\ w[k].pc = "join4" => <<w[k].gid, w[k].sid, w[k].c>> \in rooms[w[k].rid].mem
    /\ w[k].pc = "kick3" => w[k].c \in Cids /\ conn[w[k].c].st # "none"
WorkRight == \A k \in Workers : WorkOk(k)
LocksApart == \A j, k \in Workers : w[j].pc \in Locks /\ w[k].pc \in Locks /\ w[j].sid = w[k].sid => j = k

\* Why a session is in a room: its table says so, or what is left of it, or it has just been added.
InSess(r, g, s, c) == <<s, c>> \in Sessions /\ r \in DOMAIN sess[<<s, c>>] /\ sess[<<s, c>>][r] = g
InLeft(r, g, s, c) == rv.pc = "del_rooms" /\ rv.c = c /\ conn[c].sid = s /\ r \in DOMAIN rv.left /\ rv.left[r] = g
InWork(r, g, s, c) == \E k \in Workers : /\ w[k].pc \in {"join4", "join5"} /\ w[k].rid = r /\ w[k].gid = g
                                          /\ w[k].sid = s /\ w[k].c = c
MemRight ==
    \A r \in Rids, g \in Gids, s \in Sids, c \in Cids : <<g, s, c>> \in rooms[r].mem =>
        /\ rooms[r].on /\ scene.sid[c] = s /\ Wanted(s, r, g)
        /\ InSess(r, g, s, c) \/ InLeft(r, g, s, c) \/ InWork(r, g, s, c)
JoinedRight == \A r \in Rids, g \in Gids, s \in Sids, c \in Cids : <<g, s, c>> \in rooms[r].mem <=> <<r, g, s, c>> \in joined

\* The members that chat_group_sid_num has still to count.
Uncounted(r) == {<<w[k].gid, w[k].sid, w[k].c>> : k \in {j \in Workers : w[j].pc = "join4" /\ w[j].rid = r}}
CountRight == \A r \in Rids : rooms[r].num = Cardinality(rooms[r].mem \ Uncounted(r))

DownRight == \A d \in down : d[2] = "ROOM" =>
                \E c \in Cids : /\ scene.sid[c] = scene.sid[d[1]]
                                /\ \E p \in scene.join[c] : p[1] = d[3][1] /\ d[3][2] \in {0, p[2]}

\* Two workers at acknowledgements of one SID have crossed.  The SID leads to a connection that is
\* ONLINE and has not crossed, but for its own acknowledgement; whoever handles that of another one
\* has still to read, or has read, that this is the one to kick.
Apart == \A j, k \in Workers :
            w[j].pc \in Acks /\ w[k].pc \in Acks /\ w[j].sid = w[k].sid /\ j # k => w[j].c \in crossed
OneOk(c) ==
    /\ (\A k \in Workers : w[k].pc \in Acks => w[k].c # c) => cids[conn[c].sid] = c
    /\ \A k \in Workers : w[k].pc \in Acks /\ w[k].sid = conn[c].sid /\ w[k].c # c =>
         w[k].pc # "ack4" /\ (w[k].pc = "ack3" => w[k].rid = c)
OneRight ==
    /\ crossed \subseteq Cids /\ Apart
    /\ \A c \in Cids \ crossed : conn[c].stat = "ONLINE" /\ ~Kicking(c) => OneOk(c)

TInv == /\ Typed /\ TimerTyped /\ SessTyped /\ RoomsTyped /\ RvRight /\ NetRight /\ ListRight /\ SessRight
        /\ ConnRight /\ WorkRight /\ LocksApart /\ MemRight /\ JoinedRight /\ CountRight /\ DownRight /\ OneRight
-----------------------------------------------------------------------------
(* Facts the steps share. *)
LEMMA SceneIs ==
    ASSUME Typed
    PROVE  /\ scene.up \subseteq Cids /\ scene.sid \in [Cids -> Sids]
           /\ scene.join \in [Cids -> SUBSET (Rids \X Gids)] /\ scene.ups \in Seq(UpMesgs)
  BY TcpAssumption DEF Typed

\* Setting a field of a connection.
LEMMA SetStat ==
    ASSUME NEW f \in [Cids -> ConnSet], NEW c \in Cids, NEW v \in Stats, NEW h, h = [f EXCEPT ![c].stat = v]
    PROVE  /\ h \in [Cids -> ConnSet]
           /\ \A d \in Cids : h[d].st = f[d].st /\ h[d].sid = f[d].sid /\ h[d].stat = IF d = c THEN v ELSE f[d].stat
  BY DEF ConnSet
LEMMA SetSid ==
    ASSUME NEW f \in [Cids -> ConnSet], NEW c \in Cids, NEW v \in Sids \cup {0}, NEW h, h = [f EXCEPT ![c].sid = v]
    PROVE  /\ h \in [Cids -> ConnSet]
           /\ \A d \in Cids : h[d].st = f[d].st /\ h[d].stat = f[d].stat /\ h[d].sid = IF d = c THEN v ELSE f[d].sid
  BY DEF ConnSet
LEMMA SetSt ==
    ASSUME NEW f \in [Cids -> ConnSet], NEW c \in Cids, NEW v \in {"none", "open", "gone"}, NEW h, h = [f EXCEPT ![c].st = v]
    PROVE  /\ h \in [Cids -> ConnSet]
           /\ \A d \in Cids : h[d].sid = f[d].sid /\ h[d].stat = f[d].stat /\ h[d].st = IF d = c THEN v ELSE f[d].st
  BY DEF ConnSet

LEMMA OnlineSid ==
    ASSUME TInv, NEW c \in Cids, conn[c].stat = "ONLINE"
    PROVE  conn[c].sid \in Sids /\ conn[c].sid = scene.sid[c]
<1>1. conn[c].sid \in Sids BY DEF TInv, ConnRight
<1>2. conn[c].sid \in {0, scene.sid[c]} BY DEF TInv, ConnRight
<1>3. 0 \notin Sids BY TcpAssumption
<1> QED BY <1>1, <1>2, <1>3

\* Steps that leave what a part speaks of alone, or change it harmlessly.
SameIds == \A c \in Cids : conn'[c].st = conn[c].st /\ conn'[c].sid = conn[c].sid
RvKeeps == UNCHANGED rv \/ (rv.pc # "del_rooms" /\ rv'.pc \notin Ends)

StatIs(c, v) == /\ conn' \in [Cids -> ConnSet] /\ SameIds
                /\ \A d \in Cids : conn'[d].stat = IF d = c THEN v ELSE conn[d].stat
LEMMA StatStep ==
    ASSUME TInv, NEW c \in Cids, NEW v \in Stats, conn' = [conn EXCEPT ![c].stat = v]
    PROVE  StatIs(c, v)
<1>1. conn \in [Cids -> ConnSet] BY DEF TInv, Typed
<1>2. PICK h : h = [conn EXCEPT ![c].stat = v] OBVIOUS
<1>3. /\ h \in [Cids -> ConnSet]
      /\ \A d \in Cids : h[d].st = conn[d].st /\ h[d].sid = conn[d].sid /\ h[d].stat = IF d = c THEN v ELSE conn[d].stat
  BY <1>1, <1>2, SetStat
<1>4. conn' = h BY <1>2, Zenon
<1> HIDE <1>2
<1> QED BY <1>3, <1>4 DEF SameIds, StatIs

LEMMA StStep ==
    ASSUME TInv, NEW c \in Cids, NEW v \in {"none", "open", "gone"}, conn' = [conn EXCEPT ![c].st = v]
    PROVE  /\ conn' \in [Cids -> ConnSet]
           /\ \A d \in Cids : conn'[d].sid = conn[d].sid /\ conn'[d].stat = conn[d].stat /\ conn'[d].st = IF d = c THEN v ELSE conn[d].st
<1>1. conn \in [Cids -> ConnSet] BY DEF TInv, Typed
<1>2. PICK h : h = [conn EXCEPT ![c].st = v] OBVIOUS
<1>3. /\ h \in [Cids -> ConnSet]
      /\ \A d \in Cids : h[d].sid = conn[d].sid /\ h[d].stat = conn[d].stat /\ h[d].st = IF d = c THEN v ELSE conn[d].st
  BY <1>1, <1>2, SetSt
<1>4. conn' = h BY <1>2, Zenon
<1> HIDE <1>2
<1> QED BY <1>3, <1>4

LEMMA FrameTimer == ASSUME TInv, UNCHANGED t PROVE TimerTyped'
  BY DEF TimerTyped, TInv
LEMMA FrameSess == ASSUME TInv, UNCHANGED sess PROVE SessTyped'
  BY DEF SessTyped, TInv
LEMMA FrameRooms == ASSUME TInv, UNCHANGED rooms PROVE RoomsTyped'
  BY DEF RoomsTyped, TInv
LEMMA FrameRv == ASSUME TInv, UNCHANGED rv, SameIds, rv.pc \in Ends => conn'[rv.c].stat \in {"CLOSED", "KICK"} PROVE RvRight'
  BY DEF RvRight, TInv, SameIds
LEMMA FrameNet == ASSUME TInv, UNCHANGED scene, net' \subseteq net PROVE NetRight'
  BY DEF NetRight, TInv, Wanted
LEMMA FrameList == ASSUME TInv, SameIds, RvKeeps, list' \subseteq list PROVE ListRight'
  BY DEF ListRight, TInv, SameIds, RvKeeps
LEMMA FrameSessions == ASSUME TInv, SameIds, RvKeeps, DOMAIN sess' \subseteq DOMAIN sess PROVE SessRight'
  BY DEF SessRight, TInv, SameIds, RvKeeps, Sessions, Ends
LEMMA FrameConn ==
    ASSUME TInv, UNCHANGED <<scene, conn, w>>, list \subseteq list'
    PROVE  ConnRight'
  BY DEF ConnRight, TInv, Kicking
LEMMA FrameWork ==
    ASSUME TInv, UNCHANGED <<scene, w, rooms>>, SameIds, list \subseteq list', DOMAIN sess' \subseteq DOMAIN sess
    PROVE  WorkRight'
  BY DEF WorkRight, WorkOk, TInv, SameIds, Sessions, Wanted
LEMMA FrameLocks == ASSUME TInv, UNCHANGED w PROVE LocksApart'
  BY DEF LocksApart, TInv
LEMMA FrameMemRv ==
    ASSUME TInv, UNCHANGED <<scene, rooms, sess, w>>, 
           rv.pc = "del_rooms" => SameIds, UNCHANGED rv \/ rv.pc # "del_rooms"
    PROVE  MemRight'
<1> SUFFICES ASSUME NEW r \in Rids, NEW g \in Gids, NEW s \in Sids, NEW c \in Cids, <<g, s, c>> \in rooms'[r].mem
            PROVE  /\ rooms'[r].on /\ scene'.sid[c] = s /\ Wanted(s, r, g)'
                   /\ InSess(r, g, s, c)' \/ InLeft(r, g, s, c)' \/ InWork(r, g, s, c)'
  BY DEF MemRight
<1>1. /\ rooms[r].on /\ scene.sid[c] = s /\ Wanted(s, r, g)
      /\ InSess(r, g, s, c) \/ InLeft(r, g, s, c) \/ InWork(r, g, s, c)
  BY DEF MemRight, TInv
<1>2. InSess(r, g, s, c)' = InSess(r, g, s, c) BY DEF InSess, Sessions
<1>3. InLeft(r, g, s, c) => InLeft(r, g, s, c)' BY DEF InLeft, SameIds
<1>4. InWork(r, g, s, c)' = InWork(r, g, s, c) BY DEF InWork
<1>5. Wanted(s, r, g)' = Wanted(s, r, g) BY DEF Wanted
<1> QED BY <1>1, <1>2, <1>3, <1>4, <1>5
LEMMA FrameMem ==
    ASSUME TInv, UNCHANGED <<scene, rooms, sess, w>>, rv.pc = "del_rooms" => SameIds, RvKeeps
    PROVE  MemRight'
  BY FrameMemRv DEF RvKeeps
LEMMA FrameJoined == ASSUME TInv, UNCHANGED <<rooms, joined>> PROVE JoinedRight'
  BY DEF JoinedRight, TInv
LEMMA FrameCount == ASSUME TInv, UNCHANGED <<rooms, w>> PROVE CountRight'
  BY DEF CountRight, Uncounted, TInv
LEMMA FrameDown == ASSUME TInv, UNCHANGED <<scene, down>> PROVE DownRight'
  BY DEF DownRight, TInv
LEMMA FrameOne ==
    ASSUME TInv, UNCHANGED <<cids, w, crossed>>,
           \A c \in Cids : conn'[c].stat = "ONLINE" => conn[c].stat = "ONLINE" /\ conn'[c].sid = conn[c].sid
    PROVE  OneRight'
  BY DEF OneRight, OneOk, Apart, Kicking, TInv
LEMMA FrameIds == ASSUME UNCHANGED conn PROVE SameIds
  BY DEF SameIds
-----------------------------------------------------------------------------
(* A session leaves a room: _chat_room_del_session. *)
RoomLess(f, h, r, x) ==
    /\ h \in [Rids -> RoomSet]
    /\ \A q \in Rids : h[q].on = f[q].on /\ (q # r => h[q] = f[q])
    /\ h[r].mem = f[r].mem \ {x} /\ h[r].num = f[r].num - 1
LEMMA SetRoom ==
    ASSUME NEW f \in [Rids -> RoomSet], NEW r \in Rids, NEW x, NEW h,
           h = [f EXCEPT ![r].mem = @ \ {x}, ![r].num = @ - 1]
    PROVE  RoomLess(f, h, r, x)
  BY DEF RoomSet, RoomLess

MemIs(r, x) == \A q \in Rids : /\ rooms'[q].on = rooms[q].on
                               /\ rooms'[q].mem = IF q = r THEN rooms[r].mem \ {x} ELSE rooms[q].mem
LEMMA RoomDelIs ==
    ASSUME TInv, NEW r \in Rids, NEW g \in Gids, NEW s \in Sids, NEW c \in Cids, rooms' = RoomDel(rooms, r, g, s, c),
           joined' = joined \ {<<r, g, s, c>>}, UNCHANGED w, <<g, s, c>> \notin Uncounted(r)
    PROVE  /\ RoomsTyped' /\ JoinedRight' /\ CountRight' /\ MemIs(r, <<g, s, c>>)
<1> DEFINE x == <<g, s, c>>
<1>0. rooms \in [Rids -> RoomSet] /\ \A q \in Rids : IsFiniteSet(rooms[q].mem) BY DEF TInv, RoomsTyped
<1>u. \A q \in Rids : Uncounted(q)' = Uncounted(q) BY DEF Uncounted
<1>1. CASE x \notin rooms[r].mem
  <2>1. rooms' = rooms BY <1>1 DEF RoomDel
  <2>2. RoomsTyped' /\ CountRight' BY <2>1, FrameRooms, FrameCount
  <2>3. JoinedRight' BY <2>1, <1>1 DEF TInv, JoinedRight
  <2>4. MemIs(r, x) BY <2>1, <1>1, <1>0 DEF MemIs
  <2> QED BY <2>2, <2>3, <2>4
<1>2. CASE x \in rooms[r].mem
  <2>1. rooms[r].on BY <1>2 DEF TInv, MemRight
  <2>2. PICK h : h = [rooms EXCEPT ![r].mem = @ \ {x}, ![r].num = @ - 1] OBVIOUS
  <2>3. rooms' = h BY <2>1, <2>2, <1>2, Zenon DEF RoomDel
  <2>a. RoomLess(rooms, h, r, x) BY <1>0, <2>2, SetRoom, Zenon
  <2> HIDE <2>2
  <2>4. /\ h \in [Rids -> RoomSet]
        /\ \A q \in Rids : h[q].on = rooms[q].on /\ (q # r => h[q] = rooms[q])
        /\ h[r].mem = rooms[r].mem \ {x} /\ h[r].num = rooms[r].num - 1
    BY <2>a DEF RoomLess
  <2>5. MemIs(r, x) BY <2>3, <2>4 DEF MemIs
  <2>6. IsFiniteSet(rooms[r].mem \ {x}) BY <1>0, FS_RemoveElement
  <2>7. RoomsTyped' BY <2>3, <2>4, <2>6, <1>0 DEF RoomsTyped
  <2>8. JoinedRight' BY <2>5, <1>2 DEF TInv, JoinedRight, MemIs
  <2>9. CountRight'
    <3>1. (rooms[r].mem \ {x}) \ Uncounted(r) = (rooms[r].mem \ Uncounted(r)) \ {x} OBVIOUS
    <3>2. IsFiniteSet(rooms[r].mem \ Uncounted(r)) BY <1>0, FS_Difference
    <3>3. x \in rooms[r].mem \ Uncounted(r) BY <1>2
    <3>4. Cardinality((rooms[r].mem \ Uncounted(r)) \ {x}) = Cardinality(rooms[r].mem \ Uncounted(r)) - 1
      BY <3>2, <3>3, FS_RemoveElement
    <3>5. \A q \in Rids : rooms[q].num = Cardinality(rooms[q].mem \ Uncounted(q)) BY DEF TInv, CountRight
    <3>6. ASSUME NEW q \in Rids PROVE rooms'[q].num = Cardinality(rooms'[q].mem \ Uncounted(q))
      BY <2>3, <2>4, <3>1, <3>4, <3>5
    <3> QED BY <3>6, <1>u DEF CountRight
  <2> QED BY <2>5, <2>7, <2>8, <2>9
<1> QED BY <1>1, <1>2

\* A worker that has the lock is not disturbed.
LEMMA RoomDelWork ==
    ASSUME TInv, NEW r \in Rids, NEW x, MemIs(r, x), x \notin Uncounted(r), UNCHANGED <<scene, w, list>>, SameIds,
           DOMAIN sess' \subseteq DOMAIN sess
    PROVE  WorkRight'
<1> SUFFICES ASSUME NEW k \in Workers PROVE WorkOk(k)' BY DEF WorkRight
<1>1. WorkOk(k) BY DEF TInv, WorkRight
<1>2. w[k].pc = "join4" => <<w[k].gid, w[k].sid, w[k].c>> \in rooms'[w[k].rid].mem
  <2>1. w[k].pc = "join4" /\ w[k].rid = r => <<w[k].gid, w[k].sid, w[k].c>> # x BY DEF Uncounted
  <2> QED BY <1>1, <2>1 DEF WorkOk, MemIs, Locks
<1>3. \A s, q, g : Wanted(s, q, g)' = Wanted(s, q, g) BY DEF Wanted
<1> QED BY <1>1, <1>2, <1>3 DEF WorkOk, SameIds, Sessions
-----------------------------------------------------------------------------
(* The receiver. *)
LEMMA StepCreat == ASSUME TInv, NEW c \in Cids, lsnd_callback_creat_handler(c) PROVE TInv'
<1> USE DEF lsnd_callback_creat_handler, tabVars
<1>1. Typed' BY DEF Typed, TInv, ConnSet, Stats
<1>a. rv' = Idle BY DEF Idle
<1>2. RvRight' BY <1>a DEF RvRight, Idle, Ends
<1>3. ListRight' BY DEF TInv, ListRight, Typed
<1>4. SessRight' BY DEF TInv, SessRight, Typed, Sessions
<1>5. ConnRight' BY DEF TInv, ConnRight, Typed, Kicking
<1>6. WorkRight' BY DEF TInv, WorkRight, WorkOk, Typed, Wanted, Sessions
<1>7. MemRight' BY FrameMem DEF Idle, RvKeeps
<1>8. OneRight' BY FrameOne DEF TInv, Typed
<1> QED BY <1>1, <1>2, <1>3, <1>4, <1>5, <1>6, <1>7, <1>8, FrameTimer, FrameSess, FrameRooms, FrameNet, FrameLocks,
       FrameJoined, FrameCount, FrameDown DEF TInv
LEMMA StepDelConn == ASSUME TInv, NEW c \in Cids, acc_rsvr_del_conn(c) PROVE TInv'
<1> USE DEF acc_rsvr_del_conn, tabVars
<1>0. SameIds /\ RvKeeps BY FrameIds DEF Idle, Destroying, RvKeeps, Ends
<1>1. Typed' BY DEF Typed, TInv
<1>2. RvRight' BY DEF TInv, RvRight, Destroying, IsRooms, NoRooms, Live, Ends
<1>3. OneRight' BY FrameOne
<1> QED BY <1>0, <1>1, <1>2, <1>3, FrameTimer, FrameSess, FrameRooms, FrameNet, FrameList, FrameSessions, FrameConn,
       FrameWork, FrameLocks, FrameMem, FrameJoined, FrameCount, FrameDown DEF TInv
LEMMA StepIgnored == ASSUME TInv, NEW c \in Cids, lsnd_callback_recv_ignored(c) PROVE TInv'
<1> USE DEF lsnd_callback_recv_ignored, tabVars
<1>0. SameIds /\ RvKeeps BY FrameIds DEF RvKeeps
<1>1. Typed' BY DEF Typed, TInv, Receiving
<1>2. RvRight' BY FrameRv, <1>0 DEF TInv, RvRight
<1>3. OneRight' BY FrameOne
<1> QED BY <1>0, <1>1, <1>2, <1>3, FrameTimer, FrameSess, FrameRooms, FrameNet, FrameList, FrameSessions, FrameConn,
       FrameWork, FrameLocks, FrameMem, FrameJoined, FrameCount, FrameDown DEF TInv
LEMMA StepOld == ASSUME TInv, NEW c \in Cids, lsnd_callback_recv_old(c) PROVE TInv'
<1> USE DEF lsnd_callback_recv_old, tabVars, Receiving
<1>0. SameIds /\ RvKeeps BY FrameIds DEF Idle, Destroying, RvKeeps, Ends
<1>1. Typed' BY DEF Typed, TInv
<1>2. RvRight' BY DEF TInv, RvRight, Destroying, IsRooms, NoRooms, Live, Ends
<1>3. OneRight' BY FrameOne
<1> QED BY <1>0, <1>1, <1>2, <1>3, FrameTimer, FrameSess, FrameRooms, FrameNet, FrameList, FrameSessions, FrameConn,
       FrameWork, FrameLocks, FrameMem, FrameJoined, FrameCount, FrameDown DEF TInv
LEMMA StepDef == ASSUME TInv, NEW c \in Cids, lsnd_mesg_def_handler(c) PROVE TInv'
<1> USE DEF lsnd_mesg_def_handler, tabVars
<1>0. SameIds /\ RvKeeps BY FrameIds DEF RvKeeps
<1>1. Typed' BY DEF Typed, TInv, Receiving
<1>2. RvRight' BY FrameRv, <1>0 DEF TInv, RvRight
<1>3. OneRight' BY FrameOne
<1> QED BY <1>0, <1>1, <1>2, <1>3, FrameTimer, FrameSess, FrameRooms, FrameNet, FrameList, FrameSessions, FrameConn,
       FrameWork, FrameLocks, FrameMem, FrameJoined, FrameCount, FrameDown DEF TInv
LEMMA StepJoin == ASSUME TInv, NEW c \in Cids, lsnd_mesg_room_join_handler(c) PROVE TInv'
<1> USE DEF lsnd_mesg_room_join_handler, tabVars
<1>0. SameIds /\ RvKeeps BY FrameIds DEF RvKeeps
<1>a. scene.sid[c] \in Sids /\ scene.join[c] \subseteq Rids \X Gids BY SceneIs DEF TInv
<1> DEFINE new == {Mesg("ROOM_JOIN_ACK", scene.sid[c], 0, p[1], p[2]) : p \in scene.join[c]}
<1>b. ASSUME NEW m \in new
      PROVE  /\ m \in Mesgs /\ m.type = "ROOM_JOIN_ACK" /\ m.sid \in Sids /\ m.rid \in Rids /\ m.gid \in Gids
             /\ Wanted(m.sid, m.rid, m.gid)
  <2>1. PICK p \in scene.join[c] : m = Mesg("ROOM_JOIN_ACK", scene.sid[c], 0, p[1], p[2]) BY <1>b
  <2>2. m.type = "ROOM_JOIN_ACK" /\ m.sid = scene.sid[c] /\ m.rid = p[1] /\ m.gid = p[2] /\ m.c = 0
    BY <2>1 DEF Mesg
  <2>3. p \in Rids \X Gids /\ p = <<p[1], p[2]>> BY <1>a
  <2>4. m \in Mesgs BY <2>1, <2>3, <1>a DEF Mesgs, Mesg
  <2>5. Wanted(m.sid, m.rid, m.gid) BY <2>2, <2>3 DEF Wanted
  <2> QED BY <2>2, <2>3, <2>4, <2>5, <1>a
<1>c. net' = net \cup new OBVIOUS
<1> HIDE DEF new
<1>1. Typed' BY <1>b, <1>c DEF Typed, TInv, Receiving
<1>2. RvRight' BY FrameRv, <1>0 DEF TInv, RvRight
<1>3. OneRight' BY FrameOne
<1>4. NetRight'
  <2>1. ASSUME NEW r, NEW s, NEW g PROVE Wanted(s, r, g)' = Wanted(s, r, g) BY DEF Wanted
  <2> QED BY <1>b, <1>c, <2>1 DEF TInv, NetRight, UpTypes
<1> QED BY <1>0, <1>1, <1>2, <1>3, <1>4, FrameTimer, FrameSess, FrameRooms, FrameList, FrameSessions, FrameConn,
       FrameWork, FrameLocks, FrameMem, FrameJoined, FrameCount, FrameDown DEF TInv
LEMMA StepOnline == ASSUME TInv, NEW c \in Cids, lsnd_mesg_online_handler(c) PROVE TInv'
<1> DEFINE s == scene.sid[c]
<1>a. s \in Sids BY SceneIs DEF TInv
<1>s. s # 0 /\ conn[c].sid \in {0, s} BY <1>a, TcpAssumption DEF TInv, ConnRight
<1>z. 0 \notin Sids BY TcpAssumption
<1>b. /\ conn[c].st = "open" /\ rv = Idle /\ n' = [n EXCEPT ![c] = @ + 1]
      /\ UNCHANGED <<scene, crossed, tabVars, kick, asked, kickfree, w, t, down, wild>>
      /\ list' = list \/ list' = list \cup {<<s, c>>}
      /\ net' = net \/ net' = net \cup {Mesg("ONLINE_ACK", s, c, 0, 0)}
      /\ rv' = rv \/ rv' = Destroying(c)
  BY DEF lsnd_mesg_online_handler, Receiving, Live
<1>d. /\ conn' \in [Cids -> ConnSet]
      /\ \A d \in Cids : conn'[d].st = conn[d].st /\ conn'[d].stat = conn[d].stat /\ conn'[d].sid = IF d = c THEN s ELSE conn[d].sid
  <2>1. conn' = [conn EXCEPT ![c].sid = s] BY DEF lsnd_mesg_online_handler
  <2> QED BY <2>1, <1>a, SetSid DEF TInv, Typed
<1>m. Mesg("ONLINE_ACK", s, c, 0, 0) \in Mesgs BY <1>a DEF Mesg, Mesgs
<1>e. \A d \in Cids : conn[d].stat = "ONLINE" => conn'[d].sid = conn[d].sid BY OnlineSid, <1>d
<1> HIDE DEF s
<1>c. RvKeeps BY <1>b DEF Idle, Destroying, RvKeeps, Ends
<1> USE DEF tabVars
<1>1. Typed' BY <1>a, <1>b, <1>d, <1>m DEF Typed, TInv
<1>2. RvRight' BY <1>b, <1>d DEF TInv, RvRight, Destroying, IsRooms, NoRooms, Idle, Ends
<1>3. NetRight'
  <2>1. ASSUME NEW rr, NEW ss, NEW g PROVE Wanted(ss, rr, g)' = Wanted(ss, rr, g) BY <1>b DEF Wanted
  <2> QED BY <2>1, <1>b DEF TInv, NetRight, UpTypes, Mesg, s
<1>4. ListRight' BY <1>a, <1>s, <1>z, <1>b, <1>d DEF TInv, ListRight, Destroying, Idle, Ends
<1>5. SessRight' BY <1>a, <1>s, <1>z, <1>b, <1>d DEF TInv, SessRight, Sessions, Destroying, Idle, Ends
<1>6. ConnRight'
  <2>1. ConnRight /\ list \subseteq list' BY <1>b DEF TInv
  <2>2. \A d \in Cids : conn'[d].sid \in {0, scene'.sid[d]} BY <1>d, <1>b, <2>1 DEF ConnRight, s
  <2>3. \A d \in Cids : conn[d].stat = "ONLINE" => conn'[d].sid \in Sids /\ (<<conn'[d].sid, d>> \in list' \/ Kicking(d))
    BY <1>e, <2>1 DEF ConnRight
  <2>4. \A d \in Cids : Kicking(d)' = Kicking(d) BY <1>b DEF Kicking
  <2> QED BY <2>1, <2>2, <2>3, <2>4, <1>d DEF ConnRight
<1>7. WorkRight' BY <1>b, <1>d DEF TInv, WorkRight, WorkOk, Wanted, Sessions
<1>8. MemRight' BY FrameMem, <1>b, <1>c DEF Idle
<1>9. OneRight'
  BY FrameOne, <1>b, <1>d, <1>e
<1> QED BY <1>b, <1>1, <1>2, <1>3, <1>4, <1>5, <1>6, <1>7, <1>8, <1>9, FrameTimer, FrameSess, FrameRooms,
       FrameLocks, FrameJoined, FrameCount, FrameDown DEF TInv
LEMMA StepRekey == ASSUME TInv, NEW c \in Cids, lsnd_mesg_online_rekey(c) PROVE TInv'
<1> USE DEF lsnd_mesg_online_rekey, tabVars
<1>0. SameIds /\ RvKeeps BY FrameIds DEF RvKeeps
<1>1. Typed' BY DEF Typed, TInv, Receiving
<1>2. RvRight' BY FrameRv, <1>0 DEF TInv, RvRight
<1>3. OneRight' BY FrameOne
<1> QED BY <1>0, <1>1, <1>2, <1>3, FrameTimer, FrameSess, FrameRooms, FrameNet, FrameList, FrameSessions, FrameConn,
       FrameWork, FrameLocks, FrameMem, FrameJoined, FrameCount, FrameDown DEF TInv
LEMMA StepOffline == ASSUME TInv, NEW c \in Cids, lsnd_mesg_offline_handler(c) PROVE TInv'
<1> USE DEF lsnd_mesg_offline_handler, tabVars, Receiving
<1>d. /\ conn' \in [Cids -> ConnSet] /\ SameIds
      /\ \A d \in Cids : conn'[d].stat # conn[d].stat => conn'[d].stat = "OFFLINE" /\ d = c
  <2>1. CASE UNCHANGED conn BY <2>1 DEF TInv, Typed, SameIds
  <2>2. CASE conn' = [conn EXCEPT ![c].stat = "OFFLINE"]
    <3>1. "OFFLINE" \in Stats BY DEF Stats
    <3>2. StatIs(c, "OFFLINE") BY <2>2, <3>1, StatStep, Zenon
    <3> QED BY <3>2 DEF StatIs
  <2> QED BY <2>1, <2>2
<1>b. conn[c].st = "open" /\ rv = Idle BY DEF Live
<1>c. RvKeeps BY DEF Idle, Destroying, RvKeeps, Ends
<1>1. Typed' BY <1>d DEF Typed, TInv
<1>2. RvRight' BY <1>d, <1>b DEF TInv, RvRight, Destroying, IsRooms, NoRooms, Idle, Ends, SameIds
<1>3. ConnRight' BY <1>d, <1>b DEF TInv, ConnRight, Kicking, SameIds
<1>4. OneRight' BY FrameOne, <1>d DEF SameIds
<1> QED BY <1>c, <1>d, <1>1, <1>2, <1>3, <1>4, FrameTimer, FrameSess, FrameRooms, FrameNet, FrameList, FrameSessions,
       FrameWork, FrameLocks, FrameMem, FrameJoined, FrameCount, FrameDown DEF TInv
LEMMA LockApart ==
    ASSUME TInv, NEW r \in Rids, NEW g \in Gids, NEW s \in Sids, NEW c \in Cids,
           <<s, c>> \in Sessions \/ <<s, c>> \notin list
    PROVE  <<g, s, c>> \notin Uncounted(r)
<1> SUFFICES ASSUME <<g, s, c>> \in Uncounted(r) PROVE FALSE OBVIOUS
<1>1. PICK k \in Workers : w[k].pc = "join4" /\ w[k].sid = s /\ w[k].c = c BY DEF Uncounted
<1> QED BY <1>1 DEF TInv, WorkRight, WorkOk, Locks
LEMMA StepQuit == ASSUME TInv, NEW c \in Cids, lsnd_mesg_room_quit_handler(c) PROVE TInv'
<1> DEFINE s == conn[c].sid
           key == <<s, c>>
<1>1. PICK p \in scene.join[c] : chat_room_del_session(p[1], s, c)
  BY DEF lsnd_mesg_room_quit_handler
<1>2. /\ rv = Idle /\ n' = [n EXCEPT ![c] = @ + 1]
      /\ UNCHANGED <<scene, crossed, conn, list, cids, kick, asked, kickfree, rv, w, t, net, down, wild>>
  BY DEF lsnd_mesg_room_quit_handler, Receiving
<1>3. SameIds /\ RvKeeps BY <1>2, FrameIds DEF RvKeeps
<1>4. RvRight' BY <1>2, <1>3, FrameRv DEF Idle, Ends
<1>5. OneRight' BY <1>2, FrameOne
<1>6. TimerTyped' /\ NetRight' /\ ListRight' /\ ConnRight' /\ LocksApart' /\ DownRight'
  BY <1>2, <1>3, FrameTimer, FrameNet, FrameList, FrameConn, FrameLocks, FrameDown
<1>7. CASE UNCHANGED <<sess, rooms, joined>> /\ leaked' \subseteq Sids
  <2>1. Typed' BY <1>2, <1>7 DEF TInv, Typed
  <2>2. SessTyped' /\ RoomsTyped' /\ JoinedRight' /\ CountRight' BY <1>2, <1>7, FrameSess, FrameRooms, FrameJoined, FrameCount
  <2>3. SessRight' /\ WorkRight' /\ MemRight' BY <1>2, <1>3, <1>7, FrameSessions, FrameWork, FrameMem
  <2> QED BY <1>4, <1>5, <1>6, <2>1, <2>2, <2>3 DEF TInv
<1>8. CASE key \notin Sessions
  <2>1. UNCHANGED <<sess, rooms, joined>> /\ leaked' = leaked BY <1>1, <1>8 DEF chat_room_del_session
  <2>2. leaked \subseteq Sids BY DEF TInv, Typed
  <2> QED BY <2>1, <2>2, <1>7
<1>9. CASE key \in Sessions
  <2>1. s \in Sids /\ leaked' = leaked \cup {s}
    <3>1. key \in Sids \X Cids BY <1>9 DEF TInv, SessTyped, Sessions
    <3> QED BY <1>1, <1>9, <3>1 DEF chat_room_del_session
  <2>2. leaked' \subseteq Sids BY <2>1 DEF TInv, Typed
  <2>3. CASE p[1] \notin DOMAIN sess[key] BY <1>1, <1>7, <1>9, <2>2, <2>3 DEF chat_room_del_session
  <2>4. CASE p[1] \in DOMAIN sess[key]
    <3>1. PICK r : r = p[1] OBVIOUS
    <3>2. PICK g : g = sess[key][r] OBVIOUS
    <3>3. r \in Rids /\ g \in Gids /\ r \in DOMAIN sess[key] BY <2>4, <3>1, <3>2, <1>9 DEF TInv, SessTyped, IsRooms, Sessions
    <3>4. /\ sess' = [sess EXCEPT ![key] = Without(@, r)]
          /\ rooms' = RoomDel(rooms, r, g, s, c) /\ joined' = joined \ {<<r, g, s, c>>}
      BY <1>1, <1>9, <2>4, <3>1, <3>2 DEF chat_room_del_session
    <3>5. <<g, s, c>> \notin Uncounted(r) BY <1>9, <2>1, <3>3, LockApart
    <3>6. RoomsTyped' /\ JoinedRight' /\ CountRight' /\ MemIs(r, <<g, s, c>>)
      BY <1>2, <2>1, <3>3, <3>4, <3>5, RoomDelIs
    <3>7. /\ sess' = [k \in DOMAIN sess |-> IF k = key THEN Without(sess[key], r) ELSE sess[k]]
          /\ DOMAIN sess' = DOMAIN sess
      BY <3>4 DEF TInv, SessTyped
    <3>8. Typed' BY <1>2, <2>2, <3>4 DEF TInv, Typed
    <3>9. SessTyped'
      <4>1. IsRooms(Without(sess[key], r)) BY <1>9 DEF TInv, SessTyped, IsRooms, Without, Sessions
      <4>2. ASSUME NEW k \in DOMAIN sess' PROVE k \in Sids \X Cids /\ IsRooms(sess'[k])
        BY <3>7, <4>1 DEF TInv, SessTyped
      <4> QED BY <3>7, <4>2 DEF SessTyped
    <3>10. SessRight' BY <1>3, <3>7, FrameSessions
    <3>11. WorkRight' BY <1>2, <1>3, <3>3, <3>5, <3>6, <3>7, RoomDelWork
    <3>12. MemRight'
      <4> SUFFICES ASSUME NEW q \in Rids, NEW h \in Gids, NEW z \in Sids, NEW d \in Cids, <<h, z, d>> \in rooms'[q].mem
                   PROVE  /\ rooms'[q].on /\ scene'.sid[d] = z /\ Wanted(z, q, h)'
                          /\ InSess(q, h, z, d)' \/ InLeft(q, h, z, d)' \/ InWork(q, h, z, d)'
        BY DEF MemRight
      <4>1. <<h, z, d>> \in rooms[q].mem /\ rooms'[q].on = rooms[q].on /\ (q = r => <<h, z, d>> # <<g, s, c>>)
        BY <3>6 DEF MemIs
      <4>2. /\ rooms[q].on /\ scene.sid[d] = z /\ Wanted(z, q, h)
            /\ InSess(q, h, z, d) \/ InLeft(q, h, z, d) \/ InWork(q, h, z, d)
        BY <4>1 DEF TInv, MemRight
      <4>3. InLeft(q, h, z, d)' = InLeft(q, h, z, d) BY <1>2 DEF InLeft
      <4>4. InWork(q, h, z, d)' = InWork(q, h, z, d) BY <1>2 DEF InWork
      <4>5. Wanted(z, q, h)' = Wanted(z, q, h) BY <1>2 DEF Wanted
      <4>6. InSess(q, h, z, d) => InSess(q, h, z, d)'
        <5>1. CASE <<z, d>> = key
          <6>1. z = s /\ d = c BY <5>1
          <6>2. InSess(q, h, z, d) => q # r BY <4>1, <5>1, <6>1, <3>2 DEF InSess
          <6> QED BY <3>7, <5>1, <6>2 DEF InSess, Sessions, Without
        <5>2. CASE <<z, d>> # key BY <3>7, <5>2 DEF InSess, Sessions
        <5> QED BY <5>1, <5>2
      <4> QED BY <1>2, <4>1, <4>2, <4>3, <4>4, <4>5, <4>6
    <3> QED BY <1>4, <1>5, <1>6, <3>6, <3>8, <3>9, <3>10, <3>11, <3>12 DEF TInv
  <2> QED BY <2>3, <2>4
<1> QED BY <1>8, <1>9
LEMMA RvIs ==
    ASSUME TInv, rv.pc # "idle"
    PROVE  /\ rv.c \in Cids /\ conn[rv.c].st = "open" /\ IsRooms(rv.left) /\ rv = [pc |-> rv.pc, c |-> rv.c, left |-> rv.left]
           /\ rv.pc \in Ends => conn[rv.c].stat \in {"CLOSED", "KICK"}
           /\ \A p : [rv EXCEPT !.pc = p] = [pc |-> p, c |-> rv.c, left |-> rv.left]
           /\ \A f : [rv EXCEPT !.left = f] = [pc |-> rv.pc, c |-> rv.c, left |-> f]
<1>1. rv = [pc |-> rv.pc, c |-> rv.c, left |-> rv.left] BY DEF TInv, RvRight
<1>2. /\ rv.c \in Cids /\ conn[rv.c].st = "open" /\ IsRooms(rv.left)
      /\ rv.pc \in Ends => conn[rv.c].stat \in {"CLOSED", "KICK"}
  BY DEF TInv, RvRight
<1>3. PICK p0, c0, f0 : rv = [pc |-> p0, c |-> c0, left |-> f0] BY <1>1
<1>4. \A p : [rv EXCEPT !.pc = p] = [pc |-> p, c |-> rv.c, left |-> rv.left] BY <1>3
<1>6. \A f : [rv EXCEPT !.left = f] = [pc |-> rv.pc, c |-> rv.c, left |-> f] BY <1>3
<1> QED BY <1>1, <1>2, <1>4, <1>6
LEMMA RvEnds == ASSUME TInv, rv.pc \in Ends PROVE rv.c \in Cids /\ conn[rv.c].stat \in {"CLOSED", "KICK"}
  BY RvIs DEF Ends
LEMMA StepDestroy == ASSUME TInv, lsnd_callback_destroy_handler PROVE TInv'
<1>1. rv.pc = "destroy" /\ ~Locked(conn[rv.c].sid) /\ list' = list \ {<<conn[rv.c].sid, rv.c>>}
  BY DEF lsnd_callback_destroy_handler
<1>2. UNCHANGED <<scene, crossed, cids, sess, rooms, joined, leaked, kick, asked, kickfree, w, t, net, sent, down, n, wild>>
  BY DEF lsnd_callback_destroy_handler, tabVars
<1>3. PICK c : c = rv.c OBVIOUS
<1>4. c \in Cids /\ conn[c].st = "open" /\ IsRooms(rv.left) BY <1>1, <1>3, RvIs
<1>5. rv' = [pc |-> "del_cid", c |-> c, left |-> rv.left] BY <1>1, <1>3, RvIs DEF lsnd_callback_destroy_handler
<1>6. StatIs(c, "CLOSED")
  <2>1. conn' = [conn EXCEPT ![c].stat = "CLOSED"] BY <1>3, Zenon DEF lsnd_callback_destroy_handler
  <2>2. "CLOSED" \in Stats BY DEF Stats
  <2> QED BY <1>4, <2>1, <2>2, StatStep, Zenon
<1>7. \A s \in Sids, d \in Cids : <<s, d>> \in list /\ d # c => <<s, d>> \in list' BY <1>1, <1>3
<1>8. Typed' BY <1>1, <1>2, <1>6 DEF TInv, Typed, StatIs
<1>9. RvRight' BY <1>4, <1>5, <1>6 DEF RvRight, StatIs, SameIds, Ends
<1>10. ListRight' BY <1>1, <1>3, <1>5, <1>6 DEF TInv, ListRight, StatIs, SameIds, Ends
<1>11. SessRight' BY <1>1, <1>2, <1>5, <1>6 DEF TInv, SessRight, StatIs, SameIds, Sessions
<1>12. ConnRight'
  <2>1. ASSUME NEW d \in Cids, conn'[d].stat = "ONLINE" PROVE conn'[d].sid \in Sids /\ (<<conn'[d].sid, d>> \in list' \/ Kicking(d)')
    <3>1. conn[d].stat = "ONLINE" /\ d # c /\ conn'[d].sid = conn[d].sid BY <2>1, <1>6 DEF StatIs, SameIds
    <3>2. conn[d].sid \in Sids /\ (<<conn[d].sid, d>> \in list \/ Kicking(d)) BY <3>1 DEF TInv, ConnRight
    <3>3. Kicking(d)' = Kicking(d) BY <1>2 DEF Kicking
    <3> QED BY <3>1, <3>2, <3>3, <1>7
  <2>2. \A d \in Cids : /\ conn'[d].sid \in {0, scene'.sid[d]}
                        /\ conn'[d].st = "none" => conn'[d].stat = "CLOSED"
                        /\ conn'[d].st = "gone" => conn'[d].stat \in {"CLOSED", "KICK"}
    BY <1>2, <1>6 DEF TInv, ConnRight, StatIs, SameIds
  <2> QED BY <2>1, <2>2 DEF ConnRight
<1>13. WorkRight'
  <2> SUFFICES ASSUME NEW k \in Workers PROVE WorkOk(k)' BY DEF WorkRight
  <2>1. WorkOk(k) BY DEF TInv, WorkRight
  <2>2. w[k].pc \in Locks => w[k].sid # conn[c].sid BY <1>1, <1>3 DEF Locked, Locks
  <2>3. \A s, q, g : Wanted(s, q, g)' = Wanted(s, q, g) BY <1>2 DEF Wanted
  <2> QED BY <1>1, <1>2, <1>3, <1>6, <2>1, <2>2, <2>3 DEF WorkOk, StatIs, SameIds, Sessions
<1>14. MemRight' BY <1>1, <1>2, FrameMemRv
<1>15. OneRight' BY <1>2, <1>6, FrameOne DEF StatIs, SameIds
<1> QED BY <1>2, <1>8, <1>9, <1>10, <1>11, <1>12, <1>13, <1>14, <1>15, FrameTimer, FrameSess, FrameRooms, FrameNet,
       FrameLocks, FrameJoined, FrameCount, FrameDown DEF TInv
LEMMA StepDelSid == ASSUME TInv, chat_del_sid_to_cid PROVE TInv'
<1>1. rv.pc = "del_cid" /\ cids' = [s \in Sids |-> IF s = conn[rv.c].sid /\ cids[s] = rv.c THEN 0 ELSE cids[s]]
  BY DEF chat_del_sid_to_cid
<1>2. UNCHANGED <<scene, crossed, conn, list, sess, rooms, joined, leaked, kick, asked, kickfree, w, t, net, sent, down, n, wild>>
  BY DEF chat_del_sid_to_cid
<1>3. rv' = [pc |-> "del_sess", c |-> rv.c, left |-> rv.left] BY <1>1, RvIs DEF chat_del_sid_to_cid
<1>4. SameIds BY <1>2, FrameIds
<1>5. Typed' BY <1>1, <1>2 DEF TInv, Typed
<1>6. RvRight' BY <1>1, <1>2, <1>3, RvIs DEF RvRight, Ends
<1>7. ListRight' /\ SessRight' BY <1>1, <1>2, <1>3 DEF TInv, ListRight, SessRight, Ends, Sessions
<1>8. MemRight' BY <1>1, <1>2, FrameMemRv
<1>9. OneRight'
  <2>1. \A c \in Cids : conn[c].stat = "ONLINE" => c # rv.c BY <1>1, RvIs DEF Ends
  <2>2. \A c \in Cids : conn[c].stat = "ONLINE" => conn[c].sid \in Sids BY OnlineSid
  <2>3. \A c \in Cids : conn[c].stat = "ONLINE" /\ cids[conn[c].sid] = c => cids'[conn[c].sid] = c BY <1>1, <2>1, <2>2
  <2>4. \A c \in Cids : Kicking(c)' = Kicking(c) BY <1>2 DEF Kicking
  <2> QED BY <1>2, <2>3, <2>4 DEF TInv, OneRight, OneOk, Apart
<1> QED BY <1>2, <1>4, <1>5, <1>6, <1>7, <1>8, <1>9, FrameTimer, FrameSess, FrameRooms, FrameNet, FrameConn, FrameWork,
       FrameLocks, FrameJoined, FrameCount, FrameDown DEF TInv
LEMMA StepDelSession == ASSUME TInv, chat_del_session PROVE TInv'
<1> DEFINE s == conn[rv.c].sid
           key == <<s, rv.c>>
           left == IF key \in Sessions THEN sess[key] ELSE NoRooms
<1>1. rv.pc = "del_sess" /\ sess' = Without(sess, key) BY DEF chat_del_session
<1>2. UNCHANGED <<scene, crossed, conn, list, cids, rooms, joined, leaked, kick, asked, kickfree, w, t, net, sent, down, n, wild>>
  BY DEF chat_del_session
<1>3. rv' = [pc |-> "del_rooms", c |-> rv.c, left |-> left] BY DEF chat_del_session
<1>4. SameIds BY <1>2, FrameIds
<1>5. DOMAIN sess' = DOMAIN sess \ {key} /\ \A k \in DOMAIN sess \ {key} : sess'[k] = sess[k] BY <1>1 DEF Without
<1>6. Typed' BY <1>1, <1>2 DEF TInv, Typed
<1>7. IsRooms(left) BY DEF TInv, SessTyped, IsRooms, NoRooms, Sessions
<1>8. RvRight' BY <1>1, <1>2, <1>3, <1>7, RvIs DEF RvRight, Ends
<1>9. ListRight' BY <1>1, <1>2, <1>3 DEF TInv, ListRight, Ends
<1>10. SessTyped' BY <1>1, <1>5 DEF TInv, SessTyped, Without
<1>11. SessRight' BY <1>2, <1>3, <1>5 DEF TInv, SessRight, Sessions
<1>12. WorkRight' BY <1>2, <1>4, <1>5, FrameWork
<1>13. MemRight'
  <2> SUFFICES ASSUME NEW q \in Rids, NEW h \in Gids, NEW z \in Sids, NEW d \in Cids, <<h, z, d>> \in rooms'[q].mem
               PROVE  /\ rooms'[q].on /\ scene'.sid[d] = z /\ Wanted(z, q, h)'
                      /\ InSess(q, h, z, d)' \/ InLeft(q, h, z, d)' \/ InWork(q, h, z, d)'
    BY DEF MemRight
  <2>1. /\ rooms[q].on /\ scene.sid[d] = z /\ Wanted(z, q, h)
        /\ InSess(q, h, z, d) \/ InLeft(q, h, z, d) \/ InWork(q, h, z, d)
    BY <1>2 DEF TInv, MemRight
  <2>2. ~InLeft(q, h, z, d) BY <1>1 DEF InLeft
  <2>3. InWork(q, h, z, d)' = InWork(q, h, z, d) BY <1>2 DEF InWork
  <2>4. Wanted(z, q, h)' = Wanted(z, q, h) BY <1>2 DEF Wanted
  <2>5. InSess(q, h, z, d) => InSess(q, h, z, d)' \/ InLeft(q, h, z, d)'
    <3>1. CASE <<z, d>> = key BY <3>1, <1>2, <1>3 DEF InSess, InLeft
    <3>2. CASE <<z, d>> # key BY <3>2, <1>5 DEF InSess, Sessions
    <3> QED BY <3>1, <3>2
  <2> QED BY <1>2, <2>1, <2>2, <2>3, <2>4, <2>5
<1> QED BY <1>2, <1>4, <1>6, <1>8, <1>9, <1>10, <1>11, <1>12, <1>13, FrameTimer, FrameRooms, FrameNet, FrameConn,
       FrameLocks, FrameJoined, FrameCount, FrameDown, FrameOne DEF TInv
LEMMA StepTravDel == ASSUME TInv, chat_room_trav_del_session PROVE TInv'
<1>1. PICK r \in DOMAIN rv.left :
         /\ rooms' = RoomDel(rooms, r, rv.left[r], conn[rv.c].sid, rv.c)
         /\ joined' = joined \ {<<r, rv.left[r], conn[rv.c].sid, rv.c>>}
         /\ rv' = [rv EXCEPT !.left = Without(@, r)]
  BY DEF chat_room_trav_del_session
<1>2. /\ rv.pc = "del_rooms"
      /\ UNCHANGED <<scene, crossed, conn, list, cids, sess, leaked, kick, asked, kickfree, w, t, net, sent, down, n, wild>>
  BY DEF chat_room_trav_del_session
<1>3. PICK c, s, g : c = rv.c /\ s = conn[rv.c].sid /\ g = rv.left[r] OBVIOUS
<1>4. c \in Cids /\ conn[c].st = "open" /\ IsRooms(rv.left) /\ r \in Rids /\ g \in Gids /\ s \in Sids \cup {0}
  BY <1>1, <1>2, <1>3, RvIs DEF IsRooms, TInv, Typed, ConnSet
<1>5. rooms' = RoomDel(rooms, r, g, s, c) /\ joined' = joined \ {<<r, g, s, c>>} BY <1>1, <1>3
<1>6. rv' = [pc |-> "del_rooms", c |-> c, left |-> Without(rv.left, r)] BY <1>1, <1>2, <1>3, RvIs
<1>7. SameIds BY <1>2, FrameIds
<1>8. Typed' BY <1>2, <1>5 DEF TInv, Typed
<1>9. RvRight'
  <2>1. IsRooms(Without(rv.left, r)) BY <1>4 DEF IsRooms, Without
  <2> QED BY <1>2, <1>3, <1>4, <1>6, <2>1, RvIs DEF RvRight, Ends
<1>10. ListRight' /\ SessRight' BY <1>2, <1>3, <1>6 DEF TInv, ListRight, SessRight, Ends, Sessions
<1>11. <<g, s, c>> \notin Uncounted(r) /\ RoomsTyped' /\ JoinedRight' /\ CountRight' /\ MemIs(r, <<g, s, c>>)
  <2>1. CASE s \in Sids
    <3>1. <<s, c>> \notin list BY <1>2, <1>3, <1>4, <2>1 DEF TInv, ListRight, Ends
    <3>2. <<g, s, c>> \notin Uncounted(r) BY <1>4, <2>1, <3>1, LockApart
    <3> QED BY <1>2, <1>4, <1>5, <2>1, <3>2, RoomDelIs
  <2>2. CASE s \notin Sids
    <3>1. <<g, s, c>> \notin rooms[r].mem BY <1>4, <2>2 DEF TInv, RoomsTyped, RoomSet
    <3>2. rooms' = rooms BY <1>5, <3>1 DEF RoomDel
    <3>3. joined' = joined BY <1>5, <2>2 DEF TInv, Typed
    <3>4. <<g, s, c>> \notin Uncounted(r)
      <4> SUFFICES ASSUME <<g, s, c>> \in Uncounted(r) PROVE FALSE OBVIOUS
      <4>1. PICK k \in Workers : w[k].pc = "join4" /\ w[k].sid = s BY DEF Uncounted
      <4> QED BY <4>1, <2>2 DEF TInv, WorkRight, WorkOk, Locks
    <3>5. MemIs(r, <<g, s, c>>) BY <3>1, <3>2, <1>4 DEF MemIs
    <3> QED BY <1>2, <3>2, <3>3, <3>4, <3>5, FrameRooms, FrameJoined, FrameCount
  <2> QED BY <2>1, <2>2
<1>12. WorkRight' BY <1>2, <1>4, <1>7, <1>11, RoomDelWork
<1>13. MemRight'
  <2> SUFFICES ASSUME NEW q \in Rids, NEW h \in Gids, NEW z \in Sids, NEW d \in Cids, <<h, z, d>> \in rooms'[q].mem
               PROVE  /\ rooms'[q].on /\ scene'.sid[d] = z /\ Wanted(z, q, h)'
                      /\ InSess(q, h, z, d)' \/ InLeft(q, h, z, d)' \/ InWork(q, h, z, d)'
    BY DEF MemRight
  <2>0. <<h, z, d>> \in rooms[q].mem /\ rooms'[q].on = rooms[q].on /\ (q = r => <<h, z, d>> # <<g, s, c>>)
    BY <1>11 DEF MemIs
  <2>1. /\ rooms[q].on /\ scene.sid[d] = z /\ Wanted(z, q, h)
        /\ InSess(q, h, z, d) \/ InLeft(q, h, z, d) \/ InWork(q, h, z, d)
    BY <2>0 DEF TInv, MemRight
  <2>2. InLeft(q, h, z, d) => InLeft(q, h, z, d)'
    <3>1. InLeft(q, h, z, d) => q # r BY <2>0, <1>3 DEF InLeft
    <3> QED BY <3>1, <1>2, <1>3, <1>6 DEF InLeft, Without
  <2>3. InWork(q, h, z, d)' = InWork(q, h, z, d) BY <1>2 DEF InWork
  <2>4. Wanted(z, q, h)' = Wanted(z, q, h) BY <1>2 DEF Wanted
  <2>5. InSess(q, h, z, d)' = InSess(q, h, z, d) BY <1>2 DEF InSess, Sessions
  <2> QED BY <1>2, <2>0, <2>1, <2>2, <2>3, <2>4, <2>5
<1> QED BY <1>2, <1>7, <1>8, <1>9, <1>10, <1>11, <1>12, <1>13, FrameTimer, FrameSess, FrameNet, FrameConn,
       FrameLocks, FrameDown, FrameOne DEF TInv
LEMMA StepNotify == ASSUME TInv, lsnd_offline_notify PROVE TInv'
<1>1. rv.pc = "del_rooms" /\ rv.left = NoRooms /\ rv' = Idle BY DEF lsnd_offline_notify
<1>2. UNCHANGED <<scene, crossed, list, cids, sess, rooms, joined, leaked, kick, asked, kickfree, w, t, net, down, n, wild>>
  BY DEF lsnd_offline_notify, tabVars
<1>3. PICK c : c = rv.c OBVIOUS
<1>4. c \in Cids /\ conn[c].stat \in {"CLOSED", "KICK"} BY <1>1, <1>3, RvIs DEF Ends
<1>5. /\ conn' \in [Cids -> ConnSet]
      /\ \A d \in Cids : conn'[d].sid = conn[d].sid /\ conn'[d].stat = conn[d].stat /\ conn'[d].st = IF d = c THEN "gone" ELSE conn[d].st
  <2>1. conn' = [conn EXCEPT ![c].st = "gone"] BY <1>3, Zenon DEF lsnd_offline_notify
  <2> QED BY <1>4, <2>1, StStep
<1>6. Typed' BY <1>2, <1>5 DEF TInv, Typed
<1>7. RvRight' BY <1>1 DEF RvRight, Idle, Ends
<1>8. ListRight' /\ SessRight'
  <2>1. \A s \in Sids : <<s, c>> \notin list /\ <<s, c>> \notin Sessions BY <1>1, <1>3, <1>4 DEF TInv, ListRight, SessRight, Ends
  <2> QED BY <2>1, <1>1, <1>2, <1>5 DEF TInv, ListRight, SessRight, Idle, Ends, Sessions
<1>9. ConnRight' BY <1>2, <1>4, <1>5 DEF TInv, ConnRight, Kicking
<1>10. WorkRight'
  <2> SUFFICES ASSUME NEW k \in Workers PROVE WorkOk(k)' BY DEF WorkRight
  <2>1. WorkOk(k) BY DEF TInv, WorkRight
  <2>3. \A s, q, g : Wanted(s, q, g)' = Wanted(s, q, g) BY <1>2 DEF Wanted
  <2> QED BY <1>2, <1>5, <2>1, <2>3 DEF WorkOk, Sessions
<1>11. MemRight'
  <2> SUFFICES ASSUME NEW q \in Rids, NEW h \in Gids, NEW z \in Sids, NEW d \in Cids, <<h, z, d>> \in rooms'[q].mem
               PROVE  /\ rooms'[q].on /\ scene'.sid[d] = z /\ Wanted(z, q, h)'
                      /\ InSess(q, h, z, d)' \/ InLeft(q, h, z, d)' \/ InWork(q, h, z, d)'
    BY DEF MemRight
  <2>1. /\ rooms[q].on /\ scene.sid[d] = z /\ Wanted(z, q, h)
        /\ InSess(q, h, z, d) \/ InLeft(q, h, z, d) \/ InWork(q, h, z, d)
    BY <1>2 DEF TInv, MemRight
  <2>2. ~InLeft(q, h, z, d) BY <1>1 DEF InLeft, NoRooms
  <2>3. InWork(q, h, z, d)' = InWork(q, h, z, d) BY <1>2 DEF InWork
  <2>4. Wanted(z, q, h)' = Wanted(z, q, h) BY <1>2 DEF Wanted
  <2>5. InSess(q, h, z, d)' = InSess(q, h, z, d) BY <1>2 DEF InSess, Sessions
  <2> QED BY <1>2, <2>1, <2>2, <2>3, <2>4, <2>5
<1>12. OneRight' BY <1>2, <1>5, FrameOne
<1> QED BY <1>2, <1>6, <1>7, <1>8, <1>9, <1>10, <1>11, <1>12, FrameTimer, FrameSess, FrameRooms, FrameNet,
       FrameLocks, FrameJoined, FrameCount, FrameDown DEF TInv
-----------------------------------------------------------------------------
(* The workers. *)

\* Only worker k moves; what becomes of it.
Moves(k) == w' \in [Workers -> WorkSet] /\ \A j \in Workers : j # k => w'[j] = w[j]
Goes(k, pc) == /\ Moves(k) /\ w'[k].pc = pc /\ w'[k].sid = w[k].sid /\ w'[k].c = w[k].c
               /\ w'[k].rid = w[k].rid /\ w'[k].gid = w[k].gid
LEMMA SetPc ==
    ASSUME NEW f \in [Workers -> WorkSet], NEW k \in Workers, NEW h, NEW v, h = [f EXCEPT ![k].pc = v],
           v \in {"idle", "join2", "kick2", "kick3"} \cup Acks \cup Locks
    PROVE  /\ h \in [Workers -> WorkSet] /\ \A j \in Workers : j # k => h[j] = f[j]
           /\ h[k].pc = v /\ h[k].sid = f[k].sid /\ h[k].c = f[k].c /\ h[k].rid = f[k].rid /\ h[k].gid = f[k].gid
  BY DEF WorkSet
LEMMA GoStep ==
    ASSUME TInv, NEW k \in Workers, NEW v, Go(k, v), v \in {"idle", "join2", "kick2", "kick3"} \cup Acks \cup Locks
    PROVE  Goes(k, v)
<1>1. w \in [Workers -> WorkSet] BY DEF TInv, Typed
<1>2. PICK h : h = [w EXCEPT ![k].pc = v] OBVIOUS
<1>3. /\ h \in [Workers -> WorkSet] /\ \A j \in Workers : j # k => h[j] = w[j]
      /\ h[k].pc = v /\ h[k].sid = w[k].sid /\ h[k].c = w[k].c /\ h[k].rid = w[k].rid /\ h[k].gid = w[k].gid
  BY <1>1, <1>2, SetPc
<1>4. w' = h BY <1>2, Zenon DEF Go
<1> HIDE <1>2
<1> QED BY <1>3, <1>4 DEF Goes, Moves
LEMMA DoneStep == ASSUME TInv, NEW k \in Workers, Done(k) PROVE Moves(k) /\ w'[k] = Idle
<1>1. Idle \in WorkSet BY DEF Idle, WorkSet
<1> QED BY <1>1 DEF TInv, Typed, Done, Moves
Starts(k, m, v) == /\ Moves(k) /\ w'[k].pc = v /\ w'[k].sid = m.sid /\ w'[k].c = m.c
                   /\ w'[k].rid = m.rid /\ w'[k].gid = m.gid
LEMMA StartStep ==
    ASSUME TInv, NEW k \in Workers, NEW m, NEW v, Started(k, m, v), v \in {"join2", "kick2", "ack2"},
           m.sid \in Sids \cup {0}, m.c \in Cids \cup {0}, m.rid \in Rids \cup {0}, m.gid \in Gids \cup {0}
    PROVE  Starts(k, m, v)
<1>1. [pc |-> v, sid |-> m.sid, c |-> m.c, rid |-> m.rid, gid |-> m.gid] \in WorkSet BY DEF WorkSet, Acks
<1> QED BY <1>1 DEF TInv, Typed, Started, Moves, Starts

\* What the move of a worker leaves alone.
LEMMA MoveLocks ==
    ASSUME TInv, NEW k \in Workers, Moves(k),
           w'[k].pc \in Locks => \/ w[k].pc \in Locks /\ w'[k].sid = w[k].sid
                                 \/ ~Locked(w'[k].sid)
    PROVE  LocksApart'
<1> SUFFICES ASSUME NEW i \in Workers, NEW j \in Workers, w'[i].pc \in Locks, w'[j].pc \in Locks, w'[i].sid = w'[j].sid, i # j
             PROVE  FALSE
  BY DEF LocksApart
<1>1. ASSUME NEW x \in Workers, x # k, w'[x].pc \in Locks, w'[k].pc \in Locks, w'[x].sid = w'[k].sid PROVE FALSE
  <2>1. w[x].pc \in Locks /\ w[x].sid = w'[k].sid BY <1>1 DEF Moves
  <2>2. Locked(w'[k].sid) BY <2>1 DEF Locked, Locks
  <2>3. w[k].pc \in Locks /\ w'[k].sid = w[k].sid BY <1>1, <2>2
  <2> QED BY <1>1, <2>1, <2>3 DEF TInv, LocksApart
<1>2. CASE i = k BY <1>1, <1>2
<1>3. CASE j = k BY <1>1, <1>3
<1>4. CASE i # k /\ j # k BY <1>4 DEF TInv, LocksApart, Moves
<1> QED BY <1>2, <1>3, <1>4
Spared(j) == /\ <<w[j].sid, w[j].c>> \in list'
             /\ <<w[j].sid, w[j].c>> \notin DOMAIN sess'
             /\ rooms[w[j].rid].mem \subseteq rooms'[w[j].rid].mem
LEMMA MoveWork ==
    ASSUME TInv, NEW k \in Workers, Moves(k), UNCHANGED scene, SameIds, WorkOk(k)',
           \A j \in Workers : j # k /\ w[j].pc \in Locks => Spared(j)
    PROVE  WorkRight'
<1> SUFFICES ASSUME NEW j \in Workers, j # k PROVE WorkOk(j)' BY DEF WorkRight
<1>1. WorkOk(j) /\ w'[j] = w[j] BY DEF TInv, WorkRight, Moves
<1>2. \A s, q, g : Wanted(s, q, g)' = Wanted(s, q, g) BY DEF Wanted
<1> QED BY <1>1, <1>2 DEF WorkOk, SameIds, Sessions, Locks, Spared
LEMMA MoveWorkSame ==
    ASSUME TInv, NEW k \in Workers, Moves(k), UNCHANGED <<scene, list, sess, rooms>>, SameIds, WorkOk(k)'
    PROVE  WorkRight'
<1>1. \A j \in Workers : WorkOk(j) BY DEF TInv, WorkRight
<1>2. \A j \in Workers : j # k /\ w[j].pc \in Locks => Spared(j) BY <1>1 DEF WorkOk, Sessions, Spared
<1> QED BY <1>2, MoveWork
LEMMA MoveCount ==
    ASSUME TInv, NEW k \in Workers, Moves(k), UNCHANGED rooms, w[k].pc # "join4", w'[k].pc # "join4"
    PROVE  CountRight'
<1>1. \A j \in Workers : w'[j].pc = "join4" <=> w[j].pc = "join4" BY DEF Moves
<1>2. \A j \in Workers : w[j].pc = "join4" => w'[j] = w[j] BY DEF Moves
<1>3. \A r \in Rids : Uncounted(r)' = Uncounted(r) BY <1>1, <1>2 DEF Uncounted
<1> QED BY <1>3 DEF TInv, CountRight
LEMMA MoveIn ==
    ASSUME NEW k \in Workers, Moves(k), NEW r, NEW g, NEW s, NEW c, InWork(r, g, s, c),
           w[k].pc \in {"join4", "join5"} => ~(w[k].rid = r /\ w[k].gid = g /\ w[k].sid = s /\ w[k].c = c)
    PROVE  InWork(r, g, s, c)'
<1>1. PICK j \in Workers : /\ w[j].pc \in {"join4", "join5"} /\ w[j].rid = r /\ w[j].gid = g
                           /\ w[j].sid = s /\ w[j].c = c
  BY DEF InWork
<1>2. j # k BY <1>1
<1>3. w'[j] = w[j] BY <1>2 DEF Moves
<1> QED BY <1>1, <1>3 DEF InWork
LEMMA MoveMem ==
    ASSUME TInv, NEW k \in Workers, Moves(k), UNCHANGED <<scene, rooms, sess, rv>>, SameIds, w[k].pc \notin {"join4", "join5"}
    PROVE  MemRight'
<1> SUFFICES ASSUME NEW r \in Rids, NEW g \in Gids, NEW s \in Sids, NEW c \in Cids, <<g, s, c>> \in rooms'[r].mem
            PROVE  /\ rooms'[r].on /\ scene'.sid[c] = s /\ Wanted(s, r, g)'
                   /\ InSess(r, g, s, c)' \/ InLeft(r, g, s, c)' \/ InWork(r, g, s, c)'
  BY DEF MemRight
<1>1. /\ rooms[r].on /\ scene.sid[c] = s /\ Wanted(s, r, g)
      /\ InSess(r, g, s, c) \/ InLeft(r, g, s, c) \/ InWork(r, g, s, c)
  BY DEF MemRight, TInv
<1>2. InSess(r, g, s, c)' = InSess(r, g, s, c) BY DEF InSess, Sessions
<1>3. InLeft(r, g, s, c) => InLeft(r, g, s, c)' BY DEF InLeft, SameIds
<1>4. InWork(r, g, s, c) => InWork(r, g, s, c)' BY MoveIn
<1>5. Wanted(s, r, g)' = Wanted(s, r, g) BY DEF Wanted
<1> QED BY <1>1, <1>2, <1>3, <1>4, <1>5
LEMMA MoveConn ==
    ASSUME TInv, NEW k \in Workers, Moves(k), UNCHANGED <<scene, conn, list>>, w[k].pc # "kick3"
    PROVE  ConnRight'
<1>1. \A c \in Cids : Kicking(c) => Kicking(c)' BY DEF Kicking, Moves
<1> QED BY <1>1 DEF TInv, ConnRight
LEMMA MoveOne ==
    ASSUME TInv, NEW k \in Workers, Moves(k), UNCHANGED <<cids, crossed>>,
           \A c \in Cids : conn'[c].stat = "ONLINE" => conn[c].stat = "ONLINE" /\ conn'[c].sid = conn[c].sid,
           w[k].pc \notin Acks, w'[k].pc \notin Acks, w[k].pc = "kick3" => conn'[w[k].c].stat # "ONLINE"
    PROVE  OneRight'
<1>1. \A j \in Workers : w'[j].pc \in Acks <=> w[j].pc \in Acks BY DEF Moves
<1>2. \A j \in Workers : w[j].pc \in Acks => w'[j] = w[j] BY DEF Moves
<1>3. crossed' \subseteq Cids /\ Apart' BY <1>1, <1>2 DEF TInv, OneRight, Apart
<1> SUFFICES ASSUME NEW c \in Cids \ crossed', conn'[c].stat = "ONLINE", ~Kicking(c)' PROVE OneOk(c)'
  BY <1>3 DEF OneRight
<1>4. ~Kicking(c)
  <2>1. ASSUME NEW j \in Workers, w[j].pc = "kick3", w[j].c = c PROVE FALSE
    <3>1. j # k BY <2>1
    <3>2. w'[j] = w[j] BY <3>1 DEF Moves
    <3> QED BY <2>1, <3>2 DEF Kicking
  <2> QED BY <2>1 DEF Kicking
<1>5. OneOk(c) /\ conn'[c].sid = conn[c].sid BY <1>4 DEF TInv, OneRight
<1> QED BY <1>1, <1>2, <1>5 DEF OneOk

StepSame == UNCHANGED <<scene, list, cids, sess, rooms, joined, leaked, asked, kickfree, rv, t, n>>
LEMMA AckIgnored ==
    ASSUME TInv, StepSame, UNCHANGED <<crossed, conn, w, kick, down>>, net' \subseteq net PROVE TInv'
<1> USE DEF StepSame
<1>0. SameIds /\ RvKeeps BY FrameIds DEF RvKeeps
<1>1. Typed' BY DEF Typed, TInv
<1>2. RvRight' BY FrameRv, <1>0 DEF TInv, RvRight
<1>3. OneRight' BY FrameOne
<1> QED BY <1>0, <1>1, <1>2, <1>3, FrameTimer, FrameSess, FrameRooms, FrameNet, FrameList, FrameSessions, FrameConn,
       FrameWork, FrameLocks, FrameMem, FrameJoined, FrameCount, FrameDown DEF TInv
LEMMA KickDomain == ASSUME TInv, NEW c \in Cids, kick' = KickAdd(c) PROVE DOMAIN kick' \subseteq Cids
  BY DEF TInv, Typed, KickAdd
LEMMA StepAck == ASSUME TInv, NEW k \in Workers, NEW m \in net, lsnd_mesg_online_ack_logic(k, m) PROVE TInv'
<1>1. /\ m.type = "ONLINE_ACK" /\ w[k] = Idle /\ net' = net \ {m} /\ StepSame /\ UNCHANGED <<sent, down, wild>>
  BY DEF lsnd_mesg_online_ack_logic, Take, StepSame, tabVars
<1>2. PICK c, s : c = m.c /\ s = m.sid OBVIOUS
<1>3. c \in Cids /\ s = scene.sid[c] /\ s \in Sids /\ m \in Mesgs
  <2>1. m.c \in Cids /\ m.sid = scene.sid[m.c] /\ m \in Mesgs BY <1>1 DEF TInv, NetRight, Typed
  <2> QED BY <2>1, <1>2, SceneIs DEF TInv
<1>4. CASE <<s, c>> \notin list
  <2>1. UNCHANGED <<conn, kick, w, crossed>> BY <1>2, <1>4 DEF lsnd_mesg_online_ack_logic
  <2> QED BY <1>1, <2>1, AckIgnored
<1>5. CASE <<s, c>> \in list
  <2>1. conn[c].st = "open" /\ conn[c].sid = s /\ ~(rv.pc \in Ends /\ rv.c = c) BY <1>3, <1>5 DEF TInv, ListRight
  <2>2. CASE conn[c].stat # "ESTABLISH"
    <3>1. conn' = KickStat(c) /\ kick' = KickAdd(c) /\ UNCHANGED <<w, crossed>> BY <1>2, <1>5, <2>2 DEF lsnd_mesg_online_ack_logic
    <3>2. StatIs(c, "KICK")
      <4>1. "KICK" \in Stats BY DEF Stats
      <4>2. conn' = [conn EXCEPT ![c].stat = "KICK"] BY <3>1, Zenon DEF KickStat
      <4> QED BY <1>3, <4>1, <4>2, StatStep, Zenon
    <3>3. SameIds /\ RvKeeps BY <1>1, <3>2 DEF RvKeeps, StatIs, StepSame
    <3>4. Typed' BY <1>1, <1>3, <3>1, <3>2, KickDomain DEF Typed, TInv, StepSame, StatIs
    <3>5. RvRight' BY <1>1, <3>2, FrameRv, RvEnds DEF StatIs, StepSame
    <3>6. ConnRight' BY <1>1, <2>1, <3>1, <3>2 DEF TInv, ConnRight, StatIs, SameIds, Kicking, StepSame
    <3>7. OneRight' BY <1>1, <3>1, <3>2, FrameOne DEF StatIs, SameIds, StepSame
    <3> QED BY <1>1, <3>1, <3>3, <3>4, <3>5, <3>6, <3>7, FrameTimer, FrameSess, FrameRooms, FrameNet, FrameList, FrameSessions,
            FrameWork, FrameLocks, FrameMem, FrameJoined, FrameCount, FrameDown DEF TInv, StepSame
  <2>3. CASE conn[c].stat = "ESTABLISH"
    <3>1. Started(k, m, "ack2") /\ crossed' = crossed \cup Crossing(m) /\ UNCHANGED kick BY <1>2, <1>5, <2>3 DEF lsnd_mesg_online_ack_logic
    <3>2. StatIs(c, "ONLINE")
      <4>1. "ONLINE" \in Stats BY DEF Stats
      <4>2. conn' = [conn EXCEPT ![c].stat = "ONLINE"] BY <1>2, <1>5, <2>3, Zenon DEF lsnd_mesg_online_ack_logic
      <4> QED BY <1>3, <4>1, <4>2, StatStep, Zenon
    <3>3. Moves(k) /\ w'[k].pc = "ack2" /\ w'[k].sid = s /\ w'[k].c = c
      <4>1. m.sid \in Sids \cup {0} /\ m.c \in Cids \cup {0} /\ m.rid \in Rids \cup {0} /\ m.gid \in Gids \cup {0}
        BY <1>3 DEF Mesgs
      <4>2. Starts(k, m, "ack2") BY <3>1, <4>1, StartStep
      <4> QED BY <1>2, <4>2 DEF Starts
    <3>4. SameIds /\ RvKeeps BY <1>1, <3>2 DEF RvKeeps, StatIs, StepSame
    <3>5. Typed' BY <1>1, <3>1, <3>2, <3>3 DEF Typed, TInv, StepSame, StatIs, Moves
    <3>6. RvRight' BY <1>1, <2>1, <3>2, <3>4, FrameRv, RvEnds DEF StatIs, StepSame
    <3>7. ConnRight'
      <4>1. \A d \in Cids : Kicking(d) => Kicking(d)' BY <1>1, <3>3 DEF Kicking, Moves, Idle
      <4> QED BY <4>1, <1>1, <1>3, <1>5, <2>1, <3>2 DEF TInv, ConnRight, StatIs, SameIds, StepSame
    <3>8. WorkOk(k)' BY <1>1, <1>3, <3>3 DEF WorkOk, StepSame, Acks, Locks
    <3>9. OneRight'
      <4>1. \A j \in Workers : j # k => w'[j] = w[j] BY <3>3 DEF Moves
      <4>2. \A j \in Workers : w[j].pc \in Acks => j # k BY <1>1 DEF Idle, Acks
      <4>3. \A j \in Workers : w[j].pc \in Acks => w[j].c \in Cids BY DEF TInv, WorkRight, WorkOk
      <4>4. ASSUME NEW j \in Workers, w[j].pc \in Acks, w[j].sid = s PROVE c \in crossed' /\ w[j].c \in crossed'
        <5>1. j \in Entering(m.sid) BY <4>4, <1>2 DEF Entering, Acks
        <5>2. Crossing(m) = {m.c} \cup {w[i].c : i \in Entering(m.sid)} BY <5>1 DEF Crossing
        <5> QED BY <5>1, <5>2, <3>1, <1>2
      <4>5. crossed' \subseteq Cids /\ crossed \subseteq crossed'
        <5>1. Crossing(m) \subseteq Cids BY <4>3, <1>2, <1>3 DEF Crossing, Entering, Acks
        <5> QED BY <5>1, <3>1 DEF TInv, OneRight
      <4>6. Apart'
        <5> SUFFICES ASSUME NEW i \in Workers, NEW j \in Workers, w'[i].pc \in Acks, w'[j].pc \in Acks,
                            w'[i].sid = w'[j].sid, i # j
                     PROVE  w'[i].c \in crossed'
          BY DEF Apart
        <5>1. CASE i = k BY <5>1, <4>1, <4>4, <3>3
        <5>2. CASE j = k BY <5>2, <4>1, <4>4, <3>3
        <5>3. CASE i # k /\ j # k BY <5>3, <4>1, <4>5 DEF TInv, OneRight, Apart
        <5> QED BY <5>1, <5>2, <5>3
      <4> SUFFICES ASSUME NEW d \in Cids \ crossed', conn'[d].stat = "ONLINE", ~Kicking(d)' PROVE OneOk(d)'
        BY <4>5, <4>6 DEF OneRight
      <4>7. CASE d = c
        <5>1. conn'[d].sid = s /\ w'[k].c = d /\ w'[k].pc \in Acks BY <4>7, <2>1, <3>2, <3>3 DEF StatIs, SameIds, Acks
        <5>2. ASSUME NEW j \in Workers, w'[j].pc \in Acks, w'[j].sid = s, w'[j].c # d PROVE FALSE
          BY <5>1, <5>2, <4>1, <4>4, <4>7
        <5> QED BY <5>1, <5>2 DEF OneOk
      <4>8. CASE d # c
        <5>1. conn[d].stat = "ONLINE" /\ conn'[d].sid = conn[d].sid BY <4>8, <3>2 DEF StatIs, SameIds
        <5>2. ~Kicking(d) BY <4>1, <1>1 DEF Kicking, Idle
        <5>3. OneOk(d) BY <5>1, <5>2, <4>5 DEF TInv, OneRight
        <5>4. \A j \in Workers : w[j].pc \in Acks => w'[j] = w[j] BY <4>1, <4>2
        <5>5. \A j \in Workers : w'[j].pc \in Acks => j = k \/ w[j] = w'[j] BY <4>1
        <5>6. w'[k].pc = "ack2" /\ UNCHANGED cids BY <1>1, <3>3 DEF StepSame
        <5> QED BY <5>1, <5>3, <5>4, <5>5, <5>6 DEF OneOk
      <4> QED BY <4>7, <4>8
    <3>10. LocksApart' BY <3>3, MoveLocks DEF Locks
    <3>11. WorkRight' BY <1>1, <3>3, <3>4, <3>8, MoveWorkSame DEF StepSame
    <3>12. MemRight' BY <1>1, <3>3, <3>4, MoveMem DEF StepSame, Idle
    <3>13. CountRight' BY <1>1, <3>3, MoveCount DEF StepSame, Idle
    <3> QED BY <1>1, <3>4, <3>5, <3>6, <3>7, <3>9, <3>10, <3>11, <3>12, <3>13, FrameTimer, FrameSess, FrameRooms, FrameNet,
            FrameList, FrameSessions, FrameJoined, FrameDown DEF TInv, StepSame
  <2> QED BY <2>2, <2>3
<1> QED BY <1>4, <1>5
LEMMA StepGetCid == ASSUME TInv, NEW k \in Workers, chat_get_cid_by_sid(k) PROVE TInv'
<1>1. w[k].pc = "ack2" /\ StepSame /\ UNCHANGED <<crossed, conn, kick, net, sent, down, wild>>
  BY DEF chat_get_cid_by_sid, StepSame, tabVars
<1>2. w[k].c \in Cids /\ w[k].sid = scene.sid[w[k].c] /\ w[k].sid \in Sids
  <2>1. w[k].c \in Cids /\ w[k].sid = scene.sid[w[k].c] BY <1>1 DEF TInv, WorkRight, WorkOk, Acks
  <2> QED BY <2>1, SceneIs DEF TInv
<1>3. PICK o : o = cids[w[k].sid] OBVIOUS
<1>4. o \in Cids \cup {0} BY <1>2, <1>3 DEF TInv, Typed
<1>5. Moves(k) /\ w'[k].pc = "ack3" /\ w'[k].sid = w[k].sid /\ w'[k].c = w[k].c /\ w'[k].rid = o
  BY <1>3, <1>4 DEF chat_get_cid_by_sid, Moves, TInv, Typed, WorkSet, Acks
<1>6. SameIds /\ RvKeeps BY <1>1, FrameIds DEF RvKeeps, StepSame
<1>7. Typed' BY <1>1, <1>5 DEF Typed, TInv, StepSame, Moves
<1>8. RvRight' BY <1>1, <1>6, FrameRv DEF TInv, RvRight, StepSame
<1>9. WorkOk(k)' BY <1>1, <1>2, <1>5 DEF WorkOk, StepSame, Acks, Locks
<1>10. OneRight'
  <2>1. \A j \in Workers : j # k => w'[j] = w[j] BY <1>5 DEF Moves
  <2>2. \A j \in Workers : /\ w'[j].pc \in Acks <=> w[j].pc \in Acks
                           /\ w'[j].sid = w[j].sid /\ w'[j].c = w[j].c
    BY <2>1, <1>1, <1>5 DEF Acks
  <2>3. crossed' \subseteq Cids /\ Apart' BY <2>2, <1>1 DEF TInv, OneRight, Apart
  <2> SUFFICES ASSUME NEW d \in Cids \ crossed', conn'[d].stat = "ONLINE", ~Kicking(d)' PROVE OneOk(d)'
    BY <2>3 DEF OneRight
  <2>4. conn' = conn /\ cids' = cids /\ crossed' = crossed BY <1>1 DEF StepSame
  <2>5. ~Kicking(d) BY <2>1, <1>1 DEF Kicking
  <2>6. OneOk(d) BY <2>4, <2>5 DEF TInv, OneRight
  <2>7. w[k].sid = conn[d].sid /\ w[k].c # d => o = d
    <3> SUFFICES ASSUME w[k].sid = conn[d].sid, w[k].c # d, NEW j \in Workers, w[j].pc \in Acks, w[j].c = d PROVE FALSE
      BY <2>6, <1>3 DEF OneOk
    <3>1. w[j].sid = scene.sid[d] BY DEF TInv, WorkRight, WorkOk
    <3>2. conn[d].sid = scene.sid[d] BY <2>4, OnlineSid
    <3>3. j # k /\ w[k].pc \in Acks BY <1>1 DEF Acks
    <3> QED BY <3>1, <3>2, <3>3, <2>4 DEF TInv, OneRight, Apart
  <2>8. (\A j \in Workers : w'[j].pc \in Acks => w'[j].c # d) => cids'[conn'[d].sid] = d BY <2>2, <2>4, <2>6 DEF OneOk
  <2>9. ASSUME NEW j \in Workers, w'[j].pc \in Acks, w'[j].sid = conn'[d].sid, w'[j].c # d
        PROVE  w'[j].pc # "ack4" /\ (w'[j].pc = "ack3" => w'[j].rid = d)
    <3>1. CASE j = k BY <3>1, <2>4, <2>7, <2>9, <1>5
    <3>2. CASE j # k BY <3>2, <2>1, <2>4, <2>6, <2>9 DEF OneOk
    <3> QED BY <3>1, <3>2
  <2> QED BY <2>8, <2>9 DEF OneOk
<1>11. LocksApart' BY <1>5, MoveLocks DEF Locks
<1>12. WorkRight' BY <1>1, <1>5, <1>6, <1>9, MoveWorkSame DEF StepSame
<1>13. MemRight' BY <1>1, <1>5, <1>6, MoveMem DEF StepSame
<1>14. CountRight' BY <1>1, <1>5, MoveCount DEF StepSame
<1>15. ConnRight' BY <1>1, <1>5, MoveConn DEF StepSame
<1> QED BY <1>1, <1>6, <1>7, <1>8, <1>10, <1>11, <1>12, <1>13, <1>14, <1>15, FrameTimer, FrameSess, FrameRooms, FrameNet,
       FrameList, FrameSessions, FrameJoined, FrameDown DEF TInv, StepSame
LEMMA StepKickOld == ASSUME TInv, NEW k \in Workers, ack_kick_old(k) PROVE TInv'
<1>1. w[k].pc = "ack3" /\ Go(k, "ack4") /\ StepSame /\ UNCHANGED <<crossed, net, sent, down, wild>>
  BY DEF ack_kick_old, StepSame, tabVars
<1>2. PICK s, c, old : s = w[k].sid /\ c = w[k].c /\ old = w[k].rid OBVIOUS
<1>3. c \in Cids /\ s = scene.sid[c] /\ s \in Sids
  <2>1. c \in Cids /\ s = scene.sid[c] BY <1>1, <1>2 DEF TInv, WorkRight, WorkOk, Acks
  <2> QED BY <2>1, SceneIs DEF TInv
<1>4. Goes(k, "ack4") BY <1>1, GoStep DEF Acks
<1>5. Moves(k) /\ w'[k].pc = "ack4" /\ w'[k].sid = s /\ w'[k].c = c BY <1>2, <1>4 DEF Goes
<1>6. \/ UNCHANGED <<conn, kick>>
      \/ old \in Cids /\ <<s, old>> \in list /\ StatIs(old, "KICK") /\ kick' = KickAdd(old)
  <2>1. CASE old \notin {0, c} /\ <<s, old>> \in list
    <3>1. conn' = KickStat(old) /\ kick' = KickAdd(old) BY <2>1, <1>2 DEF ack_kick_old
    <3>2. old \in Cids BY <2>1 DEF TInv, Typed
    <3>3. "KICK" \in Stats BY DEF Stats
    <3>4. conn' = [conn EXCEPT ![old].stat = "KICK"] BY <3>1, Zenon DEF KickStat
    <3>5. StatIs(old, "KICK") BY <3>2, <3>3, <3>4, StatStep, Zenon
    <3> QED BY <2>1, <3>1, <3>2, <3>5
  <2>2. CASE ~(old \notin {0, c} /\ <<s, old>> \in list) BY <2>2, <1>2 DEF ack_kick_old
  <2> QED BY <2>1, <2>2
<1>7. SameIds /\ RvKeeps BY <1>1, <1>6, FrameIds DEF RvKeeps, StepSame, StatIs
<1>a. /\ conn' \in [Cids -> ConnSet] /\ DOMAIN kick' \subseteq Cids
      /\ \A d \in Cids : conn'[d].stat = conn[d].stat \/ (conn'[d].stat = "KICK" /\ conn[d].st = "open")
  <2>1. conn \in [Cids -> ConnSet] /\ DOMAIN kick \subseteq Cids BY DEF TInv, Typed
  <2>2. CASE UNCHANGED <<conn, kick>> BY <2>1, <2>2
  <2>3. CASE old \in Cids /\ <<s, old>> \in list /\ StatIs(old, "KICK") /\ kick' = KickAdd(old)
    <3>1. conn[old].st = "open" BY <1>3, <2>3 DEF TInv, ListRight
    <3> QED BY <2>3, <3>1, KickDomain DEF StatIs
  <2> QED BY <1>6, <2>2, <2>3
<1>8. Typed' BY <1>1, <1>5, <1>a DEF Typed, TInv, StepSame, Moves
<1>9. RvRight' BY <1>1, <1>7, <1>a, FrameRv, RvEnds DEF StepSame
<1>10. ConnRight'
  <2>1. \A d \in Cids : Kicking(d) => Kicking(d)' BY <1>1, <1>5 DEF Kicking, Moves
  <2> QED BY <2>1, <1>1, <1>7, <1>a DEF TInv, ConnRight, SameIds, StepSame
<1>11. WorkOk(k)' BY <1>1, <1>3, <1>5 DEF WorkOk, StepSame, Acks, Locks
<1>12. OneRight'
  <2>1. \A j \in Workers : j # k => w'[j] = w[j] BY <1>5 DEF Moves
  <2>2. \A j \in Workers : /\ w'[j].pc \in Acks <=> w[j].pc \in Acks
                           /\ w'[j].sid = w[j].sid /\ w'[j].c = w[j].c
    BY <2>1, <1>1, <1>2, <1>5 DEF Acks
  <2>3. crossed' \subseteq Cids /\ Apart' BY <2>2, <1>1 DEF TInv, OneRight, Apart
  <2> SUFFICES ASSUME NEW d \in Cids \ crossed', conn'[d].stat = "ONLINE", ~Kicking(d)' PROVE OneOk(d)'
    BY <2>3 DEF OneRight
  <2>4. conn[d].stat = "ONLINE" /\ conn'[d].sid = conn[d].sid BY <1>7, <1>a DEF SameIds
  <2>5. ~Kicking(d) BY <2>1, <1>1 DEF Kicking
  <2>6. OneOk(d) /\ cids' = cids BY <2>4, <2>5, <1>1 DEF TInv, OneRight, StepSame
  <2>7. ~(conn[d].sid = s /\ c # d)
    <3> SUFFICES ASSUME conn[d].sid = s, c # d PROVE FALSE OBVIOUS
    <3>1. old = d BY <2>6, <1>1, <1>2 DEF OneOk, Acks
    <3>2. <<s, d>> \in list BY <2>4, <2>5 DEF TInv, ConnRight
    <3>3. old \notin {0, c} BY <3>1, TcpAssumption
    <3>4. conn' = KickStat(old) BY <3>1, <3>2, <3>3, <1>2 DEF ack_kick_old
    <3>5. conn'[d].stat = "KICK" BY <3>1, <3>4 DEF KickStat, TInv, Typed, ConnSet
    <3> QED BY <3>5
  <2>8. (\A j \in Workers : w'[j].pc \in Acks => w'[j].c # d) => cids'[conn'[d].sid] = d BY <2>2, <2>4, <2>6 DEF OneOk
  <2>9. ASSUME NEW j \in Workers, w'[j].pc \in Acks, w'[j].sid = conn'[d].sid, w'[j].c # d
        PROVE  w'[j].pc # "ack4" /\ (w'[j].pc = "ack3" => w'[j].rid = d)
    <3>1. j # k BY <2>4, <2>7, <2>9, <1>5
    <3> QED BY <3>1, <2>1, <2>4, <2>6, <2>9 DEF OneOk
  <2> QED BY <2>8, <2>9 DEF OneOk
<1>13. LocksApart' BY <1>5, MoveLocks DEF Locks
<1>14. WorkRight' BY <1>1, <1>5, <1>7, <1>11, MoveWorkSame DEF StepSame
<1>15. MemRight' BY <1>1, <1>5, <1>7, MoveMem DEF StepSame
<1>16. CountRight' BY <1>1, <1>5, MoveCount DEF StepSame
<1> QED BY <1>1, <1>7, <1>8, <1>9, <1>10, <1>12, <1>13, <1>14, <1>15, <1>16, FrameTimer, FrameSess, FrameRooms, FrameNet,
       FrameList, FrameSessions, FrameJoined, FrameDown DEF TInv, StepSame
LEMMA StepSetSid == ASSUME TInv, NEW k \in Workers, chat_set_sid_to_cid(k) PROVE TInv'
<1>1. /\ w[k].pc = "ack4" /\ Done(k)
      /\ UNCHANGED <<scene, crossed, conn, list, sess, rooms, joined, leaked, kick, asked, kickfree, rv, t, net, sent, n, wild>>
      /\ down' = down \cup {<<w[k].c, "ONLINE_ACK", <<0, 0>>>>}
  BY DEF chat_set_sid_to_cid, lsnd_upmesg_online_ack_handler
<1>2. PICK s, c : s = w[k].sid /\ c = w[k].c OBVIOUS
<1>3. c \in Cids /\ s = scene.sid[c] /\ s \in Sids
  <2>1. c \in Cids /\ s = scene.sid[c] BY <1>1, <1>2 DEF TInv, WorkRight, WorkOk, Acks
  <2> QED BY <2>1, SceneIs DEF TInv
<1>4. cids' = [cids EXCEPT ![s] = c] BY <1>2 DEF chat_set_sid_to_cid
<1>5. Moves(k) /\ w'[k] = Idle BY <1>1, DoneStep
<1>6. SameIds /\ RvKeeps BY <1>1, FrameIds DEF RvKeeps
<1>7. Typed' BY <1>1, <1>3, <1>4, <1>5 DEF Typed, TInv, Moves
<1>8. RvRight' BY <1>1, <1>6, FrameRv, RvEnds
<1>9. WorkOk(k)' BY <1>5 DEF WorkOk, Idle, Acks, Locks
<1>10. DownRight' BY <1>1 DEF TInv, DownRight
<1>11. OneRight'
  <2>1. \A j \in Workers : w'[j].pc \in Acks => j # k /\ w'[j] = w[j] BY <1>5 DEF Moves, Idle, Acks
  <2>2. crossed' \subseteq Cids /\ Apart' BY <2>1, <1>1 DEF TInv, OneRight, Apart
  <2> SUFFICES ASSUME NEW d \in Cids \ crossed', conn'[d].stat = "ONLINE", ~Kicking(d)' PROVE OneOk(d)'
    BY <2>2 DEF OneRight
  <2>3. ~Kicking(d)
    <3>1. \A j \in Workers : w[j].pc = "kick3" => w'[j] = w[j] BY <1>1, <1>5 DEF Moves
    <3> QED BY <3>1 DEF Kicking
  <2>4. OneOk(d) /\ conn' = conn /\ crossed' = crossed BY <2>3, <1>1 DEF TInv, OneRight
  <2>5. conn[d].sid \in Sids /\ conn[d].sid = scene.sid[d] BY <2>4, OnlineSid
  <2>6. conn[d].sid = s => c = d BY <2>4, <1>1, <1>2 DEF OneOk, Acks
  <2>7. (\A j \in Workers : w'[j].pc \in Acks => w'[j].c # d) => cids'[conn'[d].sid] = d
    <3>1. CASE conn[d].sid = s BY <2>4, <2>6, <3>1, <1>3, <1>4 DEF TInv, Typed
    <3>2. CASE conn[d].sid # s
      <4> SUFFICES ASSUME \A j \in Workers : w'[j].pc \in Acks => w'[j].c # d PROVE cids[conn[d].sid] = d
        BY <2>4, <2>5, <3>2, <1>4 DEF TInv, Typed
      <4>1. w[k].c # d BY <2>5, <3>2, <1>2, <1>3
      <4>2. \A j \in Workers : w[j].pc \in Acks => w[j].c # d
        <5>1. \A j \in Workers : j # k => w'[j] = w[j] BY <1>5 DEF Moves
        <5> QED BY <4>1, <5>1
      <4> QED BY <2>4, <4>2 DEF OneOk
    <3> QED BY <3>1, <3>2
  <2> QED BY <2>1, <2>4, <2>7 DEF OneOk
<1>12. LocksApart' BY <1>5, MoveLocks DEF Locks, Idle
<1>13. WorkRight' BY <1>1, <1>5, <1>6, <1>9, MoveWorkSame
<1>14. MemRight' BY <1>1, <1>5, <1>6, MoveMem
<1>15. CountRight' BY <1>1, <1>5, MoveCount DEF Idle
<1>16. ConnRight' BY <1>1, <1>5, MoveConn
<1> QED BY <1>1, <1>6, <1>7, <1>8, <1>10, <1>11, <1>12, <1>13, <1>14, <1>15, <1>16, FrameTimer, FrameSess, FrameRooms, FrameNet,
       FrameList, FrameSessions, FrameJoined DEF TInv

\* A worker that goes from one step outside the locks and the acknowledgement to another.
LEMMA MoveQuiet ==
    ASSUME TInv, NEW k \in Workers, Moves(k), StepSame, UNCHANGED <<crossed, conn, kick>>, net' \subseteq net, DownRight', WorkOk(k)',
           w[k].pc \notin Acks \cup Locks \cup {"kick3"}, w'[k].pc \notin Acks \cup Locks
    PROVE  TInv'
<1> USE DEF StepSame
<1>6. SameIds /\ RvKeeps BY FrameIds DEF RvKeeps
<1>7. Typed' BY DEF Typed, TInv, Moves
<1>8. RvRight' BY <1>6, FrameRv, RvEnds
<1>11. OneRight' BY MoveOne
<1>12. LocksApart' BY MoveLocks
<1>13. WorkRight' BY <1>6, MoveWorkSame
<1>14. MemRight' BY <1>6, MoveMem DEF Locks
<1>15. CountRight' BY MoveCount DEF Locks
<1>16. ConnRight' BY MoveConn
<1> QED BY <1>6, <1>7, <1>8, <1>11, <1>12, <1>13, <1>14, <1>15, <1>16, FrameTimer, FrameSess, FrameRooms, FrameNet,
       FrameList, FrameSessions, FrameJoined DEF TInv
LEMMA StepJoinAck == ASSUME TInv, NEW k \in Workers, NEW m \in net, lsnd_upmesg_room_join_ack_handler(k, m) PROVE TInv'
<1>1. /\ m.type = "ROOM_JOIN_ACK" /\ w[k] = Idle /\ net' = net \ {m} /\ StepSame
      /\ UNCHANGED <<crossed, conn, kick, sent, down, wild>>
  BY DEF lsnd_upmesg_room_join_ack_handler, Take, StepSame, tabVars
<1>2. m \in Mesgs /\ m.sid \in Sids /\ m.rid \in Rids /\ m.gid \in Gids /\ Wanted(m.sid, m.rid, m.gid)
  BY <1>1 DEF TInv, Typed, NetRight
<1>3. PICK x : x = [m EXCEPT !.c = cids[m.sid]] OBVIOUS
<1>4. x.sid = m.sid /\ x.rid = m.rid /\ x.gid = m.gid /\ x.c \in Cids \cup {0}
  BY <1>2, <1>3 DEF Mesgs, TInv, Typed
<1>5. Started(k, x, "join2") BY <1>3, Zenon DEF lsnd_upmesg_room_join_ack_handler
<1>6. Starts(k, x, "join2") BY <1>2, <1>4, <1>5, StartStep
<1>7. Moves(k) /\ w'[k].pc = "join2" /\ w'[k].sid = m.sid /\ w'[k].rid = m.rid /\ w'[k].gid = m.gid BY <1>4, <1>6 DEF Starts
<1>8. Wanted(m.sid, m.rid, m.gid)' BY <1>1, <1>2 DEF Wanted, StepSame
<1>9. WorkOk(k)'
  <2>1. Wanted(w[k].sid, w[k].rid, w[k].gid)' BY <1>7, <1>8 DEF Wanted
  <2> QED BY <1>1, <1>2, <1>7, <2>1 DEF WorkOk, Acks, Locks, StepSame
<1>10. DownRight' BY <1>1, FrameDown DEF StepSame
<1> QED BY <1>1, <1>7, <1>9, <1>10, MoveQuiet DEF Idle, Acks, Locks
LEMMA StepKick == ASSUME TInv, NEW k \in Workers, NEW m \in net, lsnd_upmesg_kick_handler(k, m) PROVE TInv'
<1>1. /\ m.type = "KICK" /\ w[k] = Idle /\ net' = net \ {m} /\ StepSame
      /\ UNCHANGED <<crossed, conn, kick, sent, down, wild>>
  BY DEF lsnd_upmesg_kick_handler, Take, StepSame, tabVars
<1>2. m \in Mesgs /\ (m.c = 0 => m.sid \in Sids)
  <2>1. m \in Mesgs /\ m \in UpMesgs BY <1>1 DEF TInv, Typed, NetRight, UpTypes
  <2>2. m.c # 0 \/ m.sid # 0 BY <2>1, <1>1 DEF UpMesgs
  <2> QED BY <2>1, <2>2 DEF Mesgs
<1>3. PICK x : x = [m EXCEPT !.c = IF @ = 0 THEN cids[m.sid] ELSE @] OBVIOUS
<1>4. x.sid = m.sid /\ x.rid = m.rid /\ x.gid = m.gid /\ x.c \in Cids \cup {0}
  BY <1>2, <1>3 DEF Mesgs, TInv, Typed
<1>5. Started(k, x, "kick2") BY <1>3, Zenon DEF lsnd_upmesg_kick_handler
<1>a. m.sid \in Sids \cup {0} /\ m.rid \in Rids \cup {0} /\ m.gid \in Gids \cup {0} BY <1>2 DEF Mesgs
<1>6. Starts(k, x, "kick2") BY <1>a, <1>4, <1>5, StartStep
<1>7. Moves(k) /\ w'[k].pc = "kick2" BY <1>6 DEF Starts
<1>9. WorkOk(k)' BY <1>1, <1>7 DEF WorkOk, Acks, Locks, StepSame
<1>10. DownRight' BY <1>1, FrameDown DEF StepSame
<1> QED BY <1>1, <1>7, <1>9, <1>10, MoveQuiet DEF Idle, Acks, Locks
LEMMA StepKickDelete == ASSUME TInv, NEW k \in Workers, kick_conn_delete(k) PROVE TInv'
<1>1. /\ w[k].pc = "kick2" /\ ~Locked(w[k].sid) /\ list' = list \ {<<w[k].sid, w[k].c>>}
      /\ UNCHANGED <<scene, crossed, conn, cids, sess, rooms, joined, leaked, kick, asked, kickfree, rv, t, net, sent, down, n, wild>>
  BY DEF kick_conn_delete, tabVars
<1>2. CASE <<w[k].sid, w[k].c>> \notin list
  <2>1. list' = list /\ Done(k) BY <1>1, <1>2 DEF kick_conn_delete
  <2>2. Moves(k) /\ w'[k] = Idle BY <2>1, DoneStep
  <2>3. WorkOk(k)' BY <2>2 DEF WorkOk, Idle, Acks, Locks
  <2>4. DownRight' BY <1>1, FrameDown
  <2> QED BY <1>1, <2>1, <2>2, <2>3, <2>4, MoveQuiet DEF Idle, Acks, Locks, StepSame
<1>3. CASE <<w[k].sid, w[k].c>> \in list
  <2>1. PICK s, c : s = w[k].sid /\ c = w[k].c OBVIOUS
  <2>2. s \in Sids /\ c \in Cids /\ conn[c].st = "open" BY <1>3, <2>1 DEF TInv, Typed, ListRight
  <2>3. Goes(k, "kick3")
    <3>1. Go(k, "kick3") BY <1>3 DEF kick_conn_delete
    <3> QED BY <3>1, GoStep
  <2>4. Moves(k) /\ w'[k].pc = "kick3" /\ w'[k].c = c BY <2>1, <2>3 DEF Goes
  <2>5. SameIds /\ RvKeeps BY <1>1, FrameIds DEF RvKeeps
  <2>6. Typed' BY <1>1, <2>4 DEF Typed, TInv, Moves
  <2>7. RvRight' BY <1>1, <2>5, FrameRv, RvEnds
  <2>8. WorkOk(k)'
    <3> QED BY <1>1, <2>2, <2>4 DEF WorkOk, Acks, Locks
  <2>9. WorkRight'
    <3>1. ASSUME NEW j \in Workers, j # k, w[j].pc \in Locks PROVE Spared(j)
      <4>1. WorkOk(j) BY DEF TInv, WorkRight
      <4>2. w[j].sid # w[k].sid BY <1>1, <3>1 DEF Locked, Locks
      <4> QED BY <1>1, <3>1, <4>1, <4>2 DEF WorkOk, Spared, Sessions
    <3> QED BY <1>1, <2>4, <2>5, <2>8, <3>1, MoveWork
  <2>10. ConnRight'
    <3>1. \A d \in Cids : Kicking(d) => Kicking(d)' BY <1>1, <2>4 DEF Kicking, Moves
    <3>2. Kicking(c)' BY <2>4 DEF Kicking
    <3>3. \A d \in Cids, z \in Sids : <<z, d>> \in list => d = c \/ <<z, d>> \in list' BY <1>1, <2>1
    <3> QED BY <1>1, <3>1, <3>2, <3>3 DEF TInv, ConnRight
  <2>11. OneRight' BY <1>1, <2>4, MoveOne DEF Acks
  <2>12. LocksApart' BY <2>4, MoveLocks DEF Locks
  <2>13. MemRight' BY <1>1, <2>4, <2>5, MoveMem
  <2>14. CountRight' BY <1>1, <2>4, MoveCount
  <2> QED BY <1>1, <2>5, <2>6, <2>7, <2>9, <2>10, <2>11, <2>12, <2>13, <2>14, FrameTimer, FrameSess, FrameRooms, FrameNet,
          FrameList, FrameSessions, FrameJoined, FrameDown DEF TInv
<1> QED BY <1>2, <1>3
LEMMA StepKickAdd == ASSUME TInv, NEW k \in Workers, lsnd_kick_add(k) PROVE TInv'
<1>1. /\ w[k].pc = "kick3" /\ Done(k) /\ UNCHANGED <<scene, crossed, list, tabVars, asked, kickfree, rv, t, net, sent, n>>
      /\ \/ down' = down /\ conn[w[k].c].st = "gone"
         \/ down' = down \cup {<<w[k].c, "KICK", <<0, 0>>>>}
  BY DEF lsnd_kick_add
<1>2. PICK c : c = w[k].c OBVIOUS
<1>3. c \in Cids /\ conn[c].st # "none" BY <1>1, <1>2 DEF TInv, WorkRight, WorkOk
<1>4. \/ conn[c].st = "gone" /\ UNCHANGED <<conn, kick>>
      \/ StatIs(c, "KICK") /\ kick' = KickAdd(c)
  <2>1. CASE conn[c].st = "gone" BY <2>1, <1>2 DEF lsnd_kick_add
  <2>2. CASE conn[c].st # "gone"
    <3>1. conn' = KickStat(c) /\ kick' = KickAdd(c) BY <2>2, <1>2 DEF lsnd_kick_add
    <3>2. conn' = [conn EXCEPT ![c].stat = "KICK"] BY <3>1, Zenon DEF KickStat
    <3>3. "KICK" \in Stats BY DEF Stats
    <3>4. StatIs(c, "KICK") BY <1>3, <3>2, <3>3, StatStep, Zenon
    <3> QED BY <3>1, <3>4
  <2> QED BY <2>1, <2>2
<1>5. Moves(k) /\ w'[k] = Idle BY <1>1, DoneStep
<1>6. SameIds /\ RvKeeps BY <1>1, <1>4, FrameIds DEF RvKeeps, StatIs
<1>a. /\ conn' \in [Cids -> ConnSet] /\ DOMAIN kick' \subseteq Cids /\ conn'[c].stat \in {"CLOSED", "KICK"}
      /\ \A d \in Cids : conn'[d].stat = conn[d].stat \/ (conn'[d].stat = "KICK" /\ d = c)
  <2>1. conn \in [Cids -> ConnSet] /\ DOMAIN kick \subseteq Cids BY DEF TInv, Typed
  <2>2. CASE conn[c].st = "gone" /\ UNCHANGED <<conn, kick>> BY <1>3, <2>1, <2>2 DEF TInv, ConnRight
  <2>3. CASE StatIs(c, "KICK") /\ kick' = KickAdd(c) BY <1>3, <2>3, KickDomain DEF StatIs
  <2> QED BY <1>4, <2>2, <2>3
<1>7. Typed' BY <1>1, <1>5, <1>a DEF Typed, TInv, Moves, tabVars
<1>8. RvRight' BY <1>1, <1>6, <1>a, FrameRv, RvEnds
<1>9. WorkOk(k)' BY <1>5 DEF WorkOk, Idle, Acks, Locks
<1>10. DownRight' BY <1>1 DEF TInv, DownRight
<1>11. OneRight' BY <1>1, <1>2, <1>5, <1>6, <1>a, MoveOne DEF Acks, Idle, SameIds, tabVars
<1>12. ConnRight'
  <2>1. \A d \in Cids : d # c /\ Kicking(d) => Kicking(d)' BY <1>2, <1>5 DEF Kicking, Moves
  <2> QED BY <2>1, <1>1, <1>3, <1>6, <1>a DEF TInv, ConnRight, SameIds
<1>13. LocksApart' BY <1>5, MoveLocks DEF Locks, Idle
<1>14. WorkRight' BY <1>1, <1>5, <1>6, <1>9, MoveWorkSame DEF tabVars
<1>15. MemRight' BY <1>1, <1>5, <1>6, MoveMem DEF tabVars
<1>16. CountRight' BY <1>1, <1>5, MoveCount DEF Idle, tabVars
<1> QED BY <1>1, <1>6, <1>7, <1>8, <1>10, <1>11, <1>12, <1>13, <1>14, <1>15, <1>16, FrameTimer, FrameSess, FrameRooms, FrameNet,
       FrameList, FrameSessions, FrameJoined DEF TInv, tabVars
LEMMA ConnSame == ASSUME TInv, NEW c \in Cids, StatIs(c, conn[c].stat) PROVE conn' = conn
<1>1. conn \in [Cids -> ConnSet] /\ conn' \in [Cids -> ConnSet] BY DEF TInv, Typed, StatIs
<1>2. ASSUME NEW d \in Cids PROVE conn'[d] = conn[d]
  <2>1. conn'[d].st = conn[d].st /\ conn'[d].sid = conn[d].sid /\ conn'[d].stat = conn[d].stat BY DEF StatIs, SameIds
  <2> QED BY <1>1, <2>1 DEF ConnSet
<1> QED BY <1>1, <1>2
LEMMA StepAddSession == ASSUME TInv, NEW k \in Workers, chat_room_add_session(k) PROVE TInv'
<1> DEFINE key == <<w[k].sid, w[k].c>>
<1>1. /\ w[k].pc = "join2" /\ ~Locked(w[k].sid)
      /\ UNCHANGED <<scene, crossed, list, cids, rooms, joined, leaked, kick, asked, kickfree, rv, t, net, sent, n, wild>>
  BY DEF chat_room_add_session
<1>2. /\ w[k].sid \in Sids /\ w[k].rid \in Rids /\ w[k].gid \in Gids /\ Wanted(w[k].sid, w[k].rid, w[k].gid)
     
  BY <1>1 DEF TInv, WorkRight, WorkOk
<1>3. CASE key \notin list \/ conn[w[k].c].stat # "ONLINE"
  <2>1. Done(k) /\ UNCHANGED <<conn, sess, down>> BY <1>3 DEF chat_room_add_session
  <2>2. Moves(k) /\ w'[k] = Idle BY <2>1, DoneStep
  <2>3. WorkOk(k)' BY <2>2 DEF WorkOk, Idle, Acks, Locks
  <2>4. DownRight' BY <1>1, <2>1, FrameDown
  <2> QED BY <1>1, <2>1, <2>2, <2>3, <2>4, MoveQuiet DEF Idle, Acks, Locks, StepSame
<1>4. CASE key \in list /\ conn[w[k].c].stat = "ONLINE"
  <2>0. w[k].c \in Cids BY <1>4 DEF TInv, Typed
  <2>1. conn' = conn
    <3>1. PICK c : c = w[k].c OBVIOUS
    <3>2. conn' = [conn EXCEPT ![c].stat = "ONLINE"] BY <1>4, <3>1, Zenon DEF chat_room_add_session
    <3>3. "ONLINE" \in Stats BY DEF Stats
    <3>4. StatIs(c, "ONLINE") BY <2>0, <3>1, <3>2, <3>3, StatStep, Zenon
    <3> QED BY <1>4, <2>0, <3>1, <3>4, ConnSame
  <2>2. SameIds /\ RvKeeps BY <1>1, <2>1, FrameIds DEF RvKeeps
  <2>3. RvRight' BY <1>1, <2>1, <2>2, FrameRv, RvEnds
  <2>4. CASE key \in Sessions
    <3>1. /\ Done(k) /\ down' = down \cup {<<w[k].c, "ROOM_JOIN_ACK", <<0, 0>>>>}
          /\ sess' = IF w[k].rid \in DOMAIN sess[key] THEN sess ELSE [sess EXCEPT ![key] = Assign(@, w[k].rid, w[k].gid)]
      BY <1>4, <2>4 DEF chat_room_add_session
    <3>2. Moves(k) /\ w'[k] = Idle BY <3>1, DoneStep
    <3>3. WorkOk(k)' BY <3>2 DEF WorkOk, Idle, Acks, Locks
    <3>4. DownRight' BY <1>1, <3>1 DEF TInv, DownRight
    <3>5. /\ DOMAIN sess' = DOMAIN sess /\ sess' = [x \in DOMAIN sess |-> sess'[x]]
          /\ \A x \in DOMAIN sess : x # key => sess'[x] = sess[x]
          /\ sess'[key] = sess[key] \/ (w[k].rid \notin DOMAIN sess[key] /\ sess'[key] = Assign(sess[key], w[k].rid, w[k].gid))
      BY <3>1, <2>4 DEF TInv, SessTyped, Sessions
    <3>6. SessTyped'
      <4>1. IsRooms(sess[key]) BY <2>4 DEF TInv, SessTyped, Sessions
      <4>2. IsRooms(Assign(sess[key], w[k].rid, w[k].gid)) BY <4>1, <1>2 DEF IsRooms, Assign
      <4>3. ASSUME NEW x \in DOMAIN sess' PROVE x \in Sids \X Cids /\ IsRooms(sess'[x])
        BY <3>5, <4>1, <4>2 DEF TInv, SessTyped
      <4> QED BY <3>5, <4>3 DEF SessTyped
    <3>7. Typed' BY <1>1, <2>1, <3>2 DEF Typed, TInv, Moves
    <3>8. SessRight' BY <2>2, <3>5, FrameSessions
    <3>9. WorkRight'
      <4>1. \A j \in Workers : WorkOk(j) BY DEF TInv, WorkRight
      <4>2. \A j \in Workers : j # k /\ w[j].pc \in Locks => Spared(j) BY <1>1, <3>5, <4>1 DEF WorkOk, Sessions, Spared
      <4> QED BY <1>1, <2>2, <3>2, <3>3, <4>2, MoveWork
    <3>10. MemRight'
      <4> SUFFICES ASSUME NEW r \in Rids, NEW g \in Gids, NEW s \in Sids, NEW c \in Cids, <<g, s, c>> \in rooms'[r].mem
                  PROVE  /\ rooms'[r].on /\ scene'.sid[c] = s /\ Wanted(s, r, g)'
                         /\ InSess(r, g, s, c)' \/ InLeft(r, g, s, c)' \/ InWork(r, g, s, c)'
        BY DEF MemRight
      <4>1. /\ rooms[r].on /\ scene.sid[c] = s /\ Wanted(s, r, g)
            /\ InSess(r, g, s, c) \/ InLeft(r, g, s, c) \/ InWork(r, g, s, c)
        BY <1>1 DEF MemRight, TInv
      <4>2. InSess(r, g, s, c) => InSess(r, g, s, c)'
        <5>1. CASE <<s, c>> = key
          <6>1. sess'[key] = sess[key] => (InSess(r, g, s, c) => InSess(r, g, s, c)') BY <5>1, <3>5 DEF InSess, Sessions
          <6>2. w[k].rid \notin DOMAIN sess[key] /\ sess'[key] = Assign(sess[key], w[k].rid, w[k].gid)
                => (InSess(r, g, s, c) => InSess(r, g, s, c)')
            BY <5>1, <3>5 DEF InSess, Sessions, Assign
          <6> QED BY <6>1, <6>2, <3>5
        <5>2. CASE <<s, c>> # key BY <5>2, <3>5 DEF InSess, Sessions
        <5> QED BY <5>1, <5>2
      <4>3. InLeft(r, g, s, c) => InLeft(r, g, s, c)' BY <1>1, <2>1 DEF InLeft
      <4>4. InWork(r, g, s, c) => InWork(r, g, s, c)' BY <1>1, <3>2, MoveIn
      <4>5. Wanted(s, r, g)' = Wanted(s, r, g) BY <1>1 DEF Wanted
      <4> QED BY <1>1, <4>1, <4>2, <4>3, <4>4, <4>5
    <3>11. OneRight' BY <1>1, <2>1, <3>2, MoveOne DEF Acks, Idle
    <3>12. LocksApart' BY <3>2, MoveLocks DEF Locks, Idle
    <3>13. CountRight' BY <1>1, <3>2, MoveCount DEF Idle
    <3>14. ConnRight' BY <1>1, <2>1, <3>2, MoveConn
    <3> QED BY <1>1, <2>2, <2>3, <3>4, <3>6, <3>7, <3>8, <3>9, <3>10, <3>11, <3>12, <3>13, <3>14, FrameTimer, FrameRooms,
            FrameNet, FrameList, FrameJoined DEF TInv
  <2>5. CASE key \notin Sessions
    <3>1. Go(k, "join3") /\ UNCHANGED <<sess, down>> BY <1>4, <2>5 DEF chat_room_add_session
    <3>2. Goes(k, "join3") BY <3>1, GoStep DEF Locks
    <3>3. Moves(k) /\ w'[k].pc = "join3" /\ w'[k].sid = w[k].sid /\ w'[k].c = w[k].c /\ w'[k].rid = w[k].rid /\ w'[k].gid = w[k].gid
      BY <3>2 DEF Goes
    <3>4. WorkOk(k)'
      <4>1. Wanted(w[k].sid, w[k].rid, w[k].gid)' BY <1>1, <1>2, <3>3 DEF Wanted
      <4> QED BY <1>1, <1>2, <1>4, <2>5, <3>1, <3>3, <4>1 DEF WorkOk, Acks, Locks, Sessions
    <3>5. Typed' BY <1>1, <2>1, <3>3 DEF Typed, TInv, Moves
    <3>6. OneRight' BY <1>1, <2>1, <3>3, MoveOne DEF Acks
    <3>7. LocksApart' BY <1>1, <3>3, MoveLocks
    <3>8. WorkRight' BY <1>1, <2>2, <3>1, <3>3, <3>4, MoveWorkSame
    <3>9. MemRight' BY <1>1, <2>2, <3>1, <3>3, MoveMem
    <3>10. CountRight' BY <1>1, <3>3, MoveCount
    <3>11. ConnRight' BY <1>1, <2>1, <3>3, MoveConn
    <3> QED BY <1>1, <2>2, <2>3, <3>1, <3>5, <3>6, <3>7, <3>8, <3>9, <3>10, <3>11, FrameTimer, FrameSess, FrameRooms,
            FrameNet, FrameList, FrameSessions, FrameJoined, FrameDown DEF TInv
  <2> QED BY <2>4, <2>5
<1> QED BY <1>3, <1>4
\* The connection of a worker that has the lock.
LEMMA LockIs ==
    ASSUME TInv, NEW k \in Workers, w[k].pc \in Locks
    PROVE  /\ w[k].sid \in Sids /\ w[k].c \in Cids /\ w[k].rid \in Rids /\ w[k].gid \in Gids
           /\ Wanted(w[k].sid, w[k].rid, w[k].gid) /\ <<w[k].sid, w[k].c>> \in list /\ <<w[k].sid, w[k].c>> \notin Sessions
           /\ conn[w[k].c].st = "open" /\ conn[w[k].c].sid = w[k].sid /\ scene.sid[w[k].c] = w[k].sid
           /\ ~(rv.pc \in Ends /\ rv.c = w[k].c)
           /\ \A j \in Workers : w[j].pc \in Locks /\ w[j].sid = w[k].sid => j = k
<1>1. /\ w[k].sid \in Sids /\ w[k].rid \in Rids /\ w[k].gid \in Gids
      /\ Wanted(w[k].sid, w[k].rid, w[k].gid) /\ <<w[k].sid, w[k].c>> \in list /\ <<w[k].sid, w[k].c>> \notin Sessions
  BY DEF TInv, WorkRight, WorkOk, Locks
<1>2. w[k].c \in Cids BY <1>1 DEF TInv, Typed
<1>3. conn[w[k].c].st = "open" /\ conn[w[k].c].sid = w[k].sid /\ ~(rv.pc \in Ends /\ rv.c = w[k].c)
  BY <1>1, <1>2 DEF TInv, ListRight
<1>4. scene.sid[w[k].c] = w[k].sid BY <1>1, <1>2, <1>3, TcpAssumption DEF TInv, ConnRight
<1>5. \A j \in Workers : w[j].pc \in Locks /\ w[j].sid = w[k].sid => j = k BY DEF TInv, LocksApart
<1> QED BY <1>1, <1>2, <1>3, <1>4, <1>5
RoomMore(f, h, r, x) ==
    /\ h \in [Rids -> RoomSet] /\ \A q \in Rids : q # r => h[q] = f[q]
    /\ h[r].on /\ h[r].mem = f[r].mem \cup {x} /\ h[r].num = f[r].num
LEMMA SetRoomAdd ==
    ASSUME NEW f \in [Rids -> RoomSet], NEW r \in Rids, NEW x \in Gids \X Sids \X Cids, NEW h,
           h = [f EXCEPT ![r].on = TRUE, ![r].mem = @ \cup {x}]
    PROVE  RoomMore(f, h, r, x)
  BY DEF RoomSet, RoomMore
LEMMA StepGroupAdd == ASSUME TInv, NEW k \in Workers, chat_group_add_session(k) PROVE TInv'
<1>1. /\ w[k].pc = "join3" /\ Go(k, "join4")
      /\ UNCHANGED <<scene, crossed, conn, list, cids, sess, leaked, kick, asked, kickfree, rv, t, net, sent, down, n, wild>>
  BY DEF chat_group_add_session
<1>2. PICK s, c, r, g : s = w[k].sid /\ c = w[k].c /\ r = w[k].rid /\ g = w[k].gid OBVIOUS
<1>3. /\ s \in Sids /\ c \in Cids /\ r \in Rids /\ g \in Gids /\ Wanted(s, r, g)
      /\ <<s, c>> \in list /\ <<s, c>> \notin Sessions /\ scene.sid[c] = s /\ conn[c].sid = s /\ ~(rv.pc \in Ends /\ rv.c = c)
      /\ \A j \in Workers : w[j].pc \in Locks /\ w[j].sid = s => j = k
  BY <1>1, <1>2, LockIs DEF Locks
<1> DEFINE x == <<g, s, c>>
<1>4. x \in Gids \X Sids \X Cids BY <1>3
<1>5. rooms \in [Rids -> RoomSet] /\ \A q \in Rids : IsFiniteSet(rooms[q].mem) BY DEF TInv, RoomsTyped
<1>6. RoomMore(rooms, rooms', r, x)
  <2>1. PICK h : h = [rooms EXCEPT ![r].on = TRUE, ![r].mem = @ \cup {x}] OBVIOUS
  <2>2. rooms' = h BY <2>1, <1>2, Zenon DEF chat_group_add_session
  <2>3. RoomMore(rooms, h, r, x) BY <1>3, <1>4, <1>5, <2>1, SetRoomAdd, Zenon
  <2> QED BY <2>2, <2>3
<1>7. /\ rooms' \in [Rids -> RoomSet] /\ \A q \in Rids : q # r => rooms'[q] = rooms[q]
      /\ rooms'[r].on /\ rooms'[r].mem = rooms[r].mem \cup {x} /\ rooms'[r].num = rooms[r].num
  BY <1>6 DEF RoomMore
<1>8. joined' = joined \cup {<<r, g, s, c>>} BY <1>2 DEF chat_group_add_session
<1>9. Goes(k, "join4") BY <1>1, GoStep DEF Locks
<1>10. Moves(k) /\ w'[k].pc = "join4" /\ w'[k].sid = s /\ w'[k].c = c /\ w'[k].rid = r /\ w'[k].gid = g
  BY <1>2, <1>9 DEF Goes
<1>11. x \notin rooms[r].mem
  <2> SUFFICES ASSUME x \in rooms[r].mem PROVE FALSE OBVIOUS
  <2>1. InSess(r, g, s, c) \/ InLeft(r, g, s, c) \/ InWork(r, g, s, c) BY <1>3 DEF TInv, MemRight
  <2>2. ~InSess(r, g, s, c) BY <1>3 DEF InSess
  <2>3. ~InLeft(r, g, s, c) BY <1>3 DEF InLeft, Ends
  <2>4. ~InWork(r, g, s, c) BY <1>1, <1>3 DEF InWork, Locks
  <2> QED BY <2>1, <2>2, <2>3, <2>4
<1>12. SameIds /\ RvKeeps BY <1>1, FrameIds DEF RvKeeps
<1>13. Typed'
  <2>1. joined' \subseteq Rids \X Gids \X Sids \X Cids BY <1>3, <1>8 DEF TInv, Typed
  <2> QED BY <1>1, <1>10, <2>1 DEF Typed, TInv, Moves
<1>14. RvRight' BY <1>1, <1>12, FrameRv, RvEnds
<1>15. RoomsTyped'
  <2>1. IsFiniteSet(rooms[r].mem \cup {x}) BY <1>3, <1>5, FS_AddElement
  <2> QED BY <1>5, <1>7, <2>1 DEF RoomsTyped
<1>16. JoinedRight'
  <2> SUFFICES ASSUME NEW q \in Rids, NEW h \in Gids, NEW z \in Sids, NEW d \in Cids
               PROVE  <<h, z, d>> \in rooms'[q].mem <=> <<q, h, z, d>> \in joined'
    BY DEF JoinedRight
  <2>1. <<h, z, d>> \in rooms[q].mem <=> <<q, h, z, d>> \in joined BY DEF TInv, JoinedRight
  <2>2. <<q, h, z, d>> = <<r, g, s, c>> <=> q = r /\ <<h, z, d>> = x OBVIOUS
  <2> HIDE DEF x
  <2> QED BY <1>7, <1>8, <2>1, <2>2
<1>17. WorkOk(k)'
  <2>1. Wanted(w[k].sid, w[k].rid, w[k].gid)' BY <1>1, <1>3, <1>10 DEF Wanted
  <2> QED BY <1>1, <1>3, <1>7, <1>10, <2>1 DEF WorkOk, Acks, Locks, Sessions
<1>18. WorkRight'
  <2>1. \A j \in Workers : w[j].pc \in Locks => <<w[j].sid, w[j].c>> \in list /\ <<w[j].sid, w[j].c>> \notin Sessions /\ w[j].rid \in Rids
    BY LockIs
  <2>2. \A q \in Rids : rooms[q].mem \subseteq rooms'[q].mem BY <1>7
  <2>3. \A j \in Workers : j # k /\ w[j].pc \in Locks => Spared(j) BY <1>1, <2>1, <2>2 DEF Spared, Sessions
  <2> QED BY <1>1, <1>10, <1>12, <1>17, <2>3, MoveWork
<1>19. LocksApart' BY <1>1, <1>2, <1>10, MoveLocks DEF Locks
<1>20. CountRight'
  <2> SUFFICES ASSUME NEW q \in Rids PROVE rooms'[q].num = Cardinality(rooms'[q].mem \ Uncounted(q)') BY DEF CountRight
  <2>0. rooms[q].num = Cardinality(rooms[q].mem \ Uncounted(q)) BY DEF TInv, CountRight
  <2>1. CASE q = r
    <3>1. ASSUME NEW y PROVE y \in Uncounted(r)' <=> y \in Uncounted(r) \cup {x}
      <4>1. ASSUME y \in Uncounted(r)' PROVE y \in Uncounted(r) \cup {x}
        <5>1. PICK j \in Workers : w'[j].pc = "join4" /\ w'[j].rid = r /\ y = <<w'[j].gid, w'[j].sid, w'[j].c>> BY <4>1 DEF Uncounted
        <5>2. CASE j = k BY <5>1, <5>2, <1>10
        <5>3. CASE j # k
          <6>1. w'[j] = w[j] BY <5>3, <1>10 DEF Moves
          <6> QED BY <5>1, <6>1 DEF Uncounted
        <5> QED BY <5>2, <5>3
      <4>2. ASSUME y \in Uncounted(r) PROVE y \in Uncounted(r)'
        <5>1. PICK j \in Workers : w[j].pc = "join4" /\ w[j].rid = r /\ y = <<w[j].gid, w[j].sid, w[j].c>> BY <4>2 DEF Uncounted
        <5>2. w'[j] = w[j] BY <5>1, <1>1, <1>10 DEF Moves
        <5> QED BY <5>1, <5>2 DEF Uncounted
      <4>3. x \in Uncounted(r)' BY <1>10 DEF Uncounted
      <4> QED BY <4>1, <4>2, <4>3
    <3>2. (rooms[r].mem \cup {x}) \ Uncounted(r)' = rooms[r].mem \ Uncounted(r) BY <3>1, <1>11
    <3> QED BY <2>0, <2>1, <3>2, <1>7
  <2>2. CASE q # r
    <3>1. \A j \in Workers : w'[j].pc = "join4" /\ w'[j].rid = q <=> w[j].pc = "join4" /\ w[j].rid = q
      BY <1>1, <1>10, <2>2 DEF Moves
    <3>2. \A j \in Workers : w[j].pc = "join4" /\ w[j].rid = q => w'[j] = w[j] BY <1>1, <1>10 DEF Moves
    <3>3. Uncounted(q)' = Uncounted(q) BY <3>1, <3>2 DEF Uncounted
    <3> QED BY <2>0, <2>2, <3>3, <1>7
  <2> QED BY <2>1, <2>2
<1>21. MemRight'
  <2> SUFFICES ASSUME NEW q \in Rids, NEW h \in Gids, NEW z \in Sids, NEW d \in Cids, <<h, z, d>> \in rooms'[q].mem
               PROVE  /\ rooms'[q].on /\ scene'.sid[d] = z /\ Wanted(z, q, h)'
                      /\ InSess(q, h, z, d)' \/ InLeft(q, h, z, d)' \/ InWork(q, h, z, d)'
    BY DEF MemRight
  <2>1. Wanted(z, q, h)' = Wanted(z, q, h) BY <1>1 DEF Wanted
  <2>2. CASE <<h, z, d>> \in rooms[q].mem
    <3>1. /\ rooms[q].on /\ scene.sid[d] = z /\ Wanted(z, q, h)
          /\ InSess(q, h, z, d) \/ InLeft(q, h, z, d) \/ InWork(q, h, z, d)
      BY <2>2 DEF MemRight, TInv
    <3>2. InSess(q, h, z, d) => InSess(q, h, z, d)' BY <1>1 DEF InSess, Sessions
    <3>3. InLeft(q, h, z, d) => InLeft(q, h, z, d)' BY <1>1 DEF InLeft
    <3>4. InWork(q, h, z, d) => InWork(q, h, z, d)' BY <1>1, <1>10, MoveIn
    <3>5. rooms'[q].on BY <3>1, <1>7
    <3> QED BY <1>1, <2>1, <3>1, <3>2, <3>3, <3>4, <3>5
  <2>3. CASE <<h, z, d>> \notin rooms[q].mem
    <3>1. q = r /\ h = g /\ z = s /\ d = c BY <2>3, <1>7
    <3>2. InWork(r, g, s, c)' BY <1>10 DEF InWork
    <3>3. InWork(q, h, z, d)' BY <3>1, <3>2
    <3> QED BY <1>1, <1>3, <1>7, <2>1, <3>1, <3>3
  <2> QED BY <2>2, <2>3
<1>22. OneRight' BY <1>1, <1>10, MoveOne DEF Acks
<1>23. ConnRight' BY <1>1, <1>10, MoveConn
<1> QED BY <1>1, <1>12, <1>13, <1>14, <1>15, <1>16, <1>18, <1>19, <1>20, <1>21, <1>22, <1>23, FrameTimer, FrameSess,
       FrameNet, FrameList, FrameSessions, FrameDown DEF TInv
RoomCounts(f, h, r) ==
    /\ h \in [Rids -> RoomSet] /\ \A q \in Rids : h[q].on = f[q].on /\ h[q].mem = f[q].mem /\ (q # r => h[q] = f[q])
    /\ h[r].num = f[r].num + 1
LEMMA SetRoomNum ==
    ASSUME NEW f \in [Rids -> RoomSet], NEW r \in Rids, NEW h, h = [f EXCEPT ![r].num = @ + 1]
    PROVE  RoomCounts(f, h, r)
  BY DEF RoomSet, RoomCounts
LEMMA StepSidNum == ASSUME TInv, NEW k \in Workers, chat_group_sid_num(k) PROVE TInv'
<1>1. /\ w[k].pc = "join4" /\ Go(k, "join5")
      /\ UNCHANGED <<scene, crossed, conn, list, cids, sess, joined, leaked, kick, asked, kickfree, rv, t, net, sent, down, n, wild>>
  BY DEF chat_group_sid_num
<1>2. PICK s, c, r, g : s = w[k].sid /\ c = w[k].c /\ r = w[k].rid /\ g = w[k].gid OBVIOUS
<1>3. /\ s \in Sids /\ c \in Cids /\ r \in Rids /\ g \in Gids /\ Wanted(s, r, g)
      /\ <<s, c>> \in list /\ <<s, c>> \notin Sessions
      /\ \A j \in Workers : w[j].pc \in Locks /\ w[j].sid = s => j = k
  BY <1>1, <1>2, LockIs DEF Locks
<1> DEFINE x == <<g, s, c>>
<1>4. x \in rooms[r].mem BY <1>1, <1>2 DEF TInv, WorkRight, WorkOk
<1>5. rooms \in [Rids -> RoomSet] /\ \A q \in Rids : IsFiniteSet(rooms[q].mem) BY DEF TInv, RoomsTyped
<1>6. RoomCounts(rooms, rooms', r)
  <2>1. PICK h : h = [rooms EXCEPT ![r].num = @ + 1] OBVIOUS
  <2>2. rooms' = h BY <2>1, <1>2, Zenon DEF chat_group_sid_num
  <2>3. RoomCounts(rooms, h, r) BY <1>3, <1>5, <2>1, SetRoomNum, Zenon
  <2> QED BY <2>2, <2>3
<1>7. /\ rooms' \in [Rids -> RoomSet] /\ rooms'[r].num = rooms[r].num + 1
      /\ \A q \in Rids : rooms'[q].on = rooms[q].on /\ rooms'[q].mem = rooms[q].mem /\ (q # r => rooms'[q] = rooms[q])
  BY <1>6 DEF RoomCounts
<1>9. Goes(k, "join5") BY <1>1, GoStep DEF Locks
<1>10. Moves(k) /\ w'[k].pc = "join5" /\ w'[k].sid = s /\ w'[k].c = c /\ w'[k].rid = r /\ w'[k].gid = g
  BY <1>2, <1>9 DEF Goes
<1>12. SameIds /\ RvKeeps BY <1>1, FrameIds DEF RvKeeps
<1>13. Typed' BY <1>1, <1>10 DEF Typed, TInv, Moves
<1>14. RvRight' BY <1>1, <1>12, FrameRv, RvEnds
<1>15. RoomsTyped' BY <1>5, <1>7 DEF RoomsTyped
<1>16. JoinedRight' BY <1>1, <1>7 DEF TInv, JoinedRight
<1>17. WorkOk(k)'
  <2>1. Wanted(w[k].sid, w[k].rid, w[k].gid)' BY <1>1, <1>3, <1>10 DEF Wanted
  <2> QED BY <1>1, <1>3, <1>10, <2>1 DEF WorkOk, Acks, Locks, Sessions
<1>18. WorkRight'
  <2>1. \A j \in Workers : w[j].pc \in Locks => <<w[j].sid, w[j].c>> \in list /\ <<w[j].sid, w[j].c>> \notin Sessions /\ w[j].rid \in Rids
    BY LockIs
  <2>3. \A j \in Workers : j # k /\ w[j].pc \in Locks => Spared(j) BY <1>1, <1>7, <2>1 DEF Spared, Sessions
  <2> QED BY <1>1, <1>10, <1>12, <1>17, <2>3, MoveWork
<1>19. LocksApart' BY <1>1, <1>2, <1>10, MoveLocks DEF Locks
<1>20. CountRight'
  <2> SUFFICES ASSUME NEW q \in Rids PROVE rooms'[q].num = Cardinality(rooms'[q].mem \ Uncounted(q)') BY DEF CountRight
  <2>0. rooms[q].num = Cardinality(rooms[q].mem \ Uncounted(q)) BY DEF TInv, CountRight
  <2>1. CASE q = r
    <3>1. ASSUME NEW y PROVE y \in Uncounted(r)' <=> y \in Uncounted(r) \ {x}
      <4>1. ASSUME y \in Uncounted(r)' PROVE y \in Uncounted(r) \ {x}
        <5>1. PICK j \in Workers : w'[j].pc = "join4" /\ w'[j].rid = r /\ y = <<w'[j].gid, w'[j].sid, w'[j].c>> BY <4>1 DEF Uncounted
        <5>2. j # k BY <5>1, <1>10
        <5>3. w'[j] = w[j] BY <5>2, <1>10 DEF Moves
        <5>4. w[j].sid # s BY <5>1, <5>2, <5>3, <1>3 DEF Locks
        <5>5. y # x BY <5>1, <5>3, <5>4
        <5> QED BY <5>1, <5>3, <5>5 DEF Uncounted
      <4>2. ASSUME y \in Uncounted(r) \ {x} PROVE y \in Uncounted(r)'
        <5>1. PICK j \in Workers : w[j].pc = "join4" /\ w[j].rid = r /\ y = <<w[j].gid, w[j].sid, w[j].c>> BY <4>2 DEF Uncounted
        <5>2. j # k BY <5>1, <4>2, <1>2
        <5>3. w'[j] = w[j] BY <5>2, <1>10 DEF Moves
        <5> QED BY <5>1, <5>3 DEF Uncounted
      <4> QED BY <4>1, <4>2
    <3>2. x \in Uncounted(r) BY <1>1, <1>2 DEF Uncounted
    <3>3. rooms[r].mem \ Uncounted(r)' = (rooms[r].mem \ Uncounted(r)) \cup {x} BY <3>1, <3>2, <1>4
    <3>4. IsFiniteSet(rooms[r].mem \ Uncounted(r)) BY <1>3, <1>5, FS_Difference
    <3>5. Cardinality((rooms[r].mem \ Uncounted(r)) \cup {x}) = Cardinality(rooms[r].mem \ Uncounted(r)) + 1
      BY <3>2, <3>4, FS_AddElement
    <3> QED BY <2>0, <2>1, <3>3, <3>5, <1>7
  <2>2. CASE q # r
    <3>1. \A j \in Workers : w'[j].pc = "join4" /\ w'[j].rid = q <=> w[j].pc = "join4" /\ w[j].rid = q
      BY <1>2, <1>10, <2>2 DEF Moves
    <3>2. \A j \in Workers : w[j].pc = "join4" /\ w[j].rid = q => w'[j] = w[j] BY <1>2, <1>10, <2>2 DEF Moves
    <3>3. Uncounted(q)' = Uncounted(q) BY <3>1, <3>2 DEF Uncounted
    <3> QED BY <2>0, <2>2, <3>3, <1>7
  <2> QED BY <2>1, <2>2
<1>21. MemRight'
  <2> SUFFICES ASSUME NEW q \in Rids, NEW h \in Gids, NEW z \in Sids, NEW d \in Cids, <<h, z, d>> \in rooms'[q].mem
               PROVE  /\ rooms'[q].on /\ scene'.sid[d] = z /\ Wanted(z, q, h)'
                      /\ InSess(q, h, z, d)' \/ InLeft(q, h, z, d)' \/ InWork(q, h, z, d)'
    BY DEF MemRight
  <2>1. Wanted(z, q, h)' = Wanted(z, q, h) BY <1>1 DEF Wanted
  <2>2. <<h, z, d>> \in rooms[q].mem /\ rooms'[q].on = rooms[q].on BY <1>7
  <2>3. /\ rooms[q].on /\ scene.sid[d] = z /\ Wanted(z, q, h)
        /\ InSess(q, h, z, d) \/ InLeft(q, h, z, d) \/ InWork(q, h, z, d)
    BY <2>2 DEF MemRight, TInv
  <2>4. InSess(q, h, z, d) => InSess(q, h, z, d)' BY <1>1 DEF InSess, Sessions
  <2>5. InLeft(q, h, z, d) => InLeft(q, h, z, d)' BY <1>1 DEF InLeft
  <2>6. InWork(q, h, z, d) => InWork(q, h, z, d)'
    <3> SUFFICES ASSUME InWork(q, h, z, d) PROVE InWork(q, h, z, d)' OBVIOUS
    <3>1. PICK j \in Workers : /\ w[j].pc \in {"join4", "join5"} /\ w[j].rid = q /\ w[j].gid = h
                               /\ w[j].sid = z /\ w[j].c = d
      BY DEF InWork
    <3>2. /\ w'[j].pc \in {"join4", "join5"} /\ w'[j].rid = q /\ w'[j].gid = h /\ w'[j].sid = z /\ w'[j].c = d
      BY <3>1, <1>2, <1>10 DEF Moves
    <3> QED BY <3>2 DEF InWork
  <2> QED BY <1>1, <2>1, <2>2, <2>3, <2>4, <2>5, <2>6
<1>22. OneRight' BY <1>1, <1>10, MoveOne DEF Acks
<1>23. ConnRight' BY <1>1, <1>10, MoveConn
<1> QED BY <1>1, <1>12, <1>13, <1>14, <1>15, <1>16, <1>18, <1>19, <1>20, <1>21, <1>22, <1>23, FrameTimer, FrameSess,
       FrameNet, FrameList, FrameSessions, FrameDown DEF TInv
LEMMA StepTabAdd == ASSUME TInv, NEW k \in Workers, chat_session_tab_add(k) PROVE TInv'
<1>1. /\ w[k].pc = "join5" /\ Done(k) /\ down' = down \cup {<<w[k].c, "ROOM_JOIN_ACK", <<0, 0>>>>}
      /\ UNCHANGED <<scene, crossed, conn, list, cids, rooms, joined, leaked, kick, asked, kickfree, rv, t, net, sent, n, wild>>
  BY DEF chat_session_tab_add
<1>2. PICK s, c, r, g : s = w[k].sid /\ c = w[k].c /\ r = w[k].rid /\ g = w[k].gid OBVIOUS
<1>3. /\ s \in Sids /\ c \in Cids /\ r \in Rids /\ g \in Gids
      /\ <<s, c>> \in list /\ <<s, c>> \notin Sessions /\ conn[c].st = "open" /\ conn[c].sid = s /\ ~(rv.pc \in Ends /\ rv.c = c)
      /\ \A j \in Workers : w[j].pc \in Locks /\ w[j].sid = s => j = k
  BY <1>1, <1>2, LockIs DEF Locks
<1> DEFINE key == <<s, c>>
           new == [q \in {r} |-> g]
<1>4. sess' = Assign(sess, key, new) BY <1>2 DEF chat_session_tab_add
<1>5. /\ DOMAIN sess' = DOMAIN sess \cup {key} /\ sess'[key] = new /\ \A x \in DOMAIN sess : sess'[x] = sess[x]
      /\ sess' = [x \in DOMAIN sess' |-> sess'[x]]
  BY <1>4, <1>3 DEF Assign, Sessions
<1>6. IsRooms(new) /\ DOMAIN new = {r} /\ new[r] = g BY <1>3 DEF IsRooms
<1> HIDE DEF new
<1>7. Moves(k) /\ w'[k] = Idle BY <1>1, DoneStep
<1>8. WorkOk(k)' BY <1>7 DEF WorkOk, Idle, Acks, Locks
<1>9. SameIds /\ RvKeeps BY <1>1, FrameIds DEF RvKeeps
<1>10. Typed' BY <1>1, <1>7 DEF Typed, TInv, Moves
<1>11. RvRight' BY <1>1, <1>9, FrameRv, RvEnds
<1>12. SessTyped'
  <2>1. ASSUME NEW x \in DOMAIN sess' PROVE x \in Sids \X Cids /\ IsRooms(sess'[x])
    BY <1>3, <1>5, <1>6 DEF TInv, SessTyped
  <2> QED BY <1>5, <2>1 DEF SessTyped
<1>13. SessRight' BY <1>1, <1>3, <1>5 DEF TInv, SessRight, Sessions, Ends
<1>14. WorkRight'
  <2>1. ASSUME NEW j \in Workers, j # k, w[j].pc \in Locks PROVE Spared(j)
    <3>1. <<w[j].sid, w[j].c>> \in list /\ <<w[j].sid, w[j].c>> \notin Sessions /\ w[j].rid \in Rids BY <2>1, LockIs
    <3>2. w[j].sid # s BY <2>1, <1>3
    <3> QED BY <1>1, <1>5, <3>1, <3>2 DEF Spared, Sessions
  <2> QED BY <1>1, <1>7, <1>8, <1>9, <2>1, MoveWork
<1>15. LocksApart' BY <1>7, MoveLocks DEF Locks, Idle
<1>16. CountRight' BY <1>1, <1>7, MoveCount DEF Idle
<1>17. MemRight'
  <2> SUFFICES ASSUME NEW q \in Rids, NEW h \in Gids, NEW z \in Sids, NEW d \in Cids, <<h, z, d>> \in rooms'[q].mem
               PROVE  /\ rooms'[q].on /\ scene'.sid[d] = z /\ Wanted(z, q, h)'
                      /\ InSess(q, h, z, d)' \/ InLeft(q, h, z, d)' \/ InWork(q, h, z, d)'
    BY DEF MemRight
  <2>1. Wanted(z, q, h)' = Wanted(z, q, h) BY <1>1 DEF Wanted
  <2>3. /\ rooms[q].on /\ scene.sid[d] = z /\ Wanted(z, q, h)
        /\ InSess(q, h, z, d) \/ InLeft(q, h, z, d) \/ InWork(q, h, z, d)
    BY <1>1 DEF MemRight, TInv
  <2>4. InSess(q, h, z, d) => InSess(q, h, z, d)' BY <1>5 DEF InSess, Sessions
  <2>5. InLeft(q, h, z, d) => InLeft(q, h, z, d)' BY <1>1 DEF InLeft
  <2>6. CASE r = q /\ g = h /\ s = z /\ c = d
    <3>1. InSess(q, h, z, d)' BY <2>6, <1>5, <1>6 DEF InSess, Sessions
    <3> QED BY <1>1, <2>1, <2>3, <3>1
  <2>7. CASE ~(r = q /\ g = h /\ s = z /\ c = d)
    <3>1. InWork(q, h, z, d) => InWork(q, h, z, d)' BY <1>2, <1>7, <2>7, MoveIn
    <3> QED BY <1>1, <2>1, <2>3, <2>4, <2>5, <3>1
  <2> QED BY <2>6, <2>7
<1>18. OneRight' BY <1>1, <1>7, MoveOne DEF Acks, Idle
<1>19. ConnRight' BY <1>1, <1>7, MoveConn
<1>20. DownRight' BY <1>1 DEF TInv, DownRight
<1> QED BY <1>1, <1>9, <1>10, <1>11, <1>12, <1>13, <1>14, <1>15, <1>16, <1>17, <1>18, <1>19, <1>20, FrameTimer, FrameRooms,
       FrameNet, FrameList, FrameJoined DEF TInv
\* A message to a room goes to its members only, and each of them asked for the group.
LEMMA RoomSent ==
    ASSUME TInv, NEW r \in Rids, NEW g, lsnd_room_mesg_trav_send_handler(r, g), UNCHANGED scene
    PROVE  DownRight'
<1> SUFFICES ASSUME NEW d \in down', d[2] = "ROOM"
             PROVE  \E c \in Cids : /\ scene.sid[c] = scene.sid[d[1]]
                                    /\ \E p \in scene.join[c] : p[1] = d[3][1] /\ d[3][2] \in {0, p[2]}
  BY DEF DownRight
<1>1. CASE d \in down BY <1>1 DEF TInv, DownRight
<1>2. CASE d \notin down
  <2>1. PICK x \in chat_room_trav_session(r, g) : d = <<x[3], "ROOM", <<r, g>>>>
    BY <1>2 DEF lsnd_room_mesg_trav_send_handler
  <2>2. x \in rooms[r].mem /\ g \in {0, x[1]} BY <2>1 DEF chat_room_trav_session, chat_group_trav
  <2>3. x \in Gids \X Sids \X Cids BY <2>2 DEF TInv, RoomsTyped, RoomSet
  <2>4. x = <<x[1], x[2], x[3]>> /\ x[1] \in Gids /\ x[2] \in Sids /\ x[3] \in Cids BY <2>3
  <2>5. scene.sid[x[3]] = x[2] /\ Wanted(x[2], r, x[1]) BY <2>2, <2>4 DEF TInv, MemRight
  <2>6. PICK c \in Cids : scene.sid[c] = x[2] /\ <<r, x[1]>> \in scene.join[c] BY <2>5 DEF Wanted
  <2>7. d[1] = x[3] /\ d[3][1] = r /\ d[3][2] = g BY <2>1
  <2> QED BY <2>2, <2>5, <2>6, <2>7
<1> QED BY <1>1, <1>2
LEMMA StepSend ==
    ASSUME TInv, StepSame, UNCHANGED <<crossed, conn, w, kick>>, net' \subseteq net, DownRight' PROVE TInv'
<1> USE DEF StepSame
<1>0. SameIds /\ RvKeeps BY FrameIds DEF RvKeeps
<1>1. Typed' BY DEF Typed, TInv
<1>2. RvRight' BY FrameRv, <1>0, RvEnds
<1>3. OneRight' BY FrameOne
<1> QED BY <1>0, <1>1, <1>2, <1>3, FrameTimer, FrameSess, FrameRooms, FrameNet, FrameList, FrameSessions, FrameConn,
       FrameWork, FrameLocks, FrameMem, FrameJoined, FrameCount DEF TInv
LEMMA RoomMesg == ASSUME TInv, NEW m \in net, m.type \in {"ROOM_CHAT", "ROOM_BC", "ROOM_NTF"} PROVE m.rid \in Rids
<1>1. m \in UpMesgs BY DEF TInv, NetRight, UpTypes
<1> QED BY <1>1 DEF UpMesgs
LEMMA StepChat == ASSUME TInv, NEW k \in Workers, NEW m \in net, lsnd_upmesg_room_chat_handler(k, m) PROVE TInv'
<1>1. /\ StepSame /\ UNCHANGED <<crossed, conn, w, kick>> /\ net' \subseteq net /\ m.type = "ROOM_CHAT"
      /\ lsnd_room_mesg_trav_send_handler(m.rid, m.gid)
  BY DEF lsnd_upmesg_room_chat_handler, StepSame, tabVars, Take
<1>2. DownRight' BY <1>1, RoomMesg, RoomSent DEF StepSame
<1> QED BY <1>1, <1>2, StepSend
LEMMA StepBc == ASSUME TInv, NEW k \in Workers, NEW m \in net, lsnd_upmesg_room_bc_handler(k, m) PROVE TInv'
<1>1. /\ StepSame /\ UNCHANGED <<crossed, conn, w, kick>> /\ net' \subseteq net /\ m.type = "ROOM_BC"
      /\ lsnd_room_mesg_trav_send_handler(m.rid, 0)
  BY DEF lsnd_upmesg_room_bc_handler, StepSame, tabVars, Take
<1>2. DownRight' BY <1>1, RoomMesg, RoomSent DEF StepSame
<1> QED BY <1>1, <1>2, StepSend
LEMMA StepNtf == ASSUME TInv, NEW k \in Workers, NEW m \in net, lsnd_upmesg_room_ntf_handler(k, m) PROVE TInv'
<1>1. /\ StepSame /\ UNCHANGED <<crossed, conn, w, kick>> /\ net' \subseteq net /\ m.type = "ROOM_NTF"
      /\ lsnd_room_mesg_trav_send_handler(m.rid, 0)
  BY DEF lsnd_upmesg_room_ntf_handler, StepSame, tabVars, Take
<1>2. DownRight' BY <1>1, RoomMesg, RoomSent DEF StepSame
<1> QED BY <1>1, <1>2, StepSend
LEMMA StepUpDef == ASSUME TInv, NEW k \in Workers, NEW m \in net, lsnd_upmesg_def_handler(k, m) PROVE TInv'
<1>1. /\ StepSame /\ UNCHANGED <<crossed, conn, w, kick>> /\ net' \subseteq net
      /\ down' = down \cup {<<IF m.c = 0 THEN cids[m.sid] ELSE m.c, "DEF", <<0, 0>>>>}
  BY DEF lsnd_upmesg_def_handler, StepSame, tabVars, Take
<1>2. DownRight' BY <1>1 DEF TInv, DownRight, StepSame
<1> QED BY <1>1, <1>2, StepSend
-----------------------------------------------------------------------------
(* The timer, the time and upstream. *)
LEMMA StepTimer ==
    ASSUME TInv, UNCHANGED <<scene, crossed, conn, list, tabVars, rv, w, net, down, n>>,
           DOMAIN kick' \subseteq Cids, asked' \subseteq Cids, TimerTyped'
    PROVE  TInv'
<1> USE DEF tabVars
<1>0. SameIds /\ RvKeeps BY FrameIds DEF RvKeeps
<1>1. Typed' BY DEF Typed, TInv
<1>2. RvRight' BY FrameRv, <1>0, RvEnds
<1>3. OneRight' BY FrameOne
<1> QED BY <1>0, <1>1, <1>2, <1>3, FrameSess, FrameRooms, FrameNet, FrameList, FrameSessions, FrameConn,
       FrameWork, FrameLocks, FrameMem, FrameJoined, FrameCount, FrameDown DEF TInv
LEMMA StepTimerKick == ASSUME TInv, lsnd_timer_kick_handler PROVE TInv'
<1>1. DOMAIN kick \subseteq Cids /\ asked \subseteq Cids BY DEF TInv, Typed
<1>2. TimerTyped' BY <1>1 DEF lsnd_timer_kick_handler, TimerTyped, Todo
<1> QED BY <1>1, <1>2, StepTimer DEF lsnd_timer_kick_handler
LEMMA StepKickOne == ASSUME TInv, timer_kick_one PROVE TInv'
<1>1. DOMAIN kick \subseteq Cids /\ asked \subseteq Cids /\ t.todo \subseteq Cids BY DEF TInv, Typed, TimerTyped, timer_kick_one
<1>2. PICK c \in t.todo : /\ kick' = Without(kick, c)
                          /\ t' = IF t.todo = {c} THEN Idle ELSE Todo("kick", t.todo \ {c})
                          /\ asked' = IF kickfree > 0 /\ Live(c) THEN asked \cup {c} ELSE asked
  BY DEF timer_kick_one
<1>3. DOMAIN kick' \subseteq Cids /\ asked' \subseteq Cids BY <1>1, <1>2 DEF Without
<1>4. TimerTyped' BY <1>1, <1>2 DEF TimerTyped, Todo, Idle
<1> QED BY <1>3, <1>4, StepTimer DEF timer_kick_one
LEMMA StepClean == ASSUME TInv, lsnd_timer_room_clean_handler PROVE TInv'
<1>1. DOMAIN kick \subseteq Cids /\ asked \subseteq Cids BY DEF TInv, Typed
<1>2. TimerTyped' BY DEF lsnd_timer_room_clean_handler, chat_room_clean_hdl, TimerTyped, Todo
<1> QED BY <1>1, <1>2, StepTimer DEF lsnd_timer_room_clean_handler, chat_room_clean_hdl
LEMMA StepTick == ASSUME TInv, Tick PROVE TInv'
<1>1. DOMAIN kick' \subseteq Cids /\ asked \subseteq Cids BY DEF TInv, Typed, Tick
<1>2. TimerTyped' BY FrameTimer DEF Tick
<1> QED BY <1>1, <1>2, StepTimer DEF Tick
LEMMA StepDelRoom == ASSUME TInv, chat_del_room PROVE TInv'
<1>1. PICK r \in t.todo : /\ CleanOne(r) /\ ~Reading(r)
                          /\ IF rooms[r].on /\ rooms[r].num = 0 THEN Destroyed(r) ELSE UNCHANGED rooms
  BY DEF chat_del_room
<1>2. /\ t.pc = "clean"
      /\ UNCHANGED <<scene, crossed, conn, list, cids, sess, joined, leaked, kick, asked, kickfree, rv, w, net, sent, down, n, wild>>
  BY DEF chat_del_room
<1>3. t.todo \subseteq Rids /\ r \in Rids BY <1>2 DEF TInv, TimerTyped
<1>4. TimerTyped' BY <1>1, <1>3 DEF CleanOne, TimerTyped, Todo, Idle
<1>5. DOMAIN kick \subseteq Cids /\ asked \subseteq Cids BY DEF TInv, Typed
<1>6. CASE UNCHANGED rooms BY <1>2, <1>4, <1>5, <1>6, StepTimer DEF tabVars
<1>7. CASE Destroyed(r) /\ rooms[r].num = 0
  <2>1. rooms \in [Rids -> RoomSet] /\ \A q \in Rids : IsFiniteSet(rooms[q].mem) BY DEF TInv, RoomsTyped
  <2>2. Uncounted(r) = {} BY <1>1 DEF Uncounted, Reading
  <2>3. rooms[r].mem = {}
    <3>1. Cardinality(rooms[r].mem \ Uncounted(r)) = 0 BY <1>3, <1>7 DEF TInv, CountRight
    <3>2. rooms[r].mem \ Uncounted(r) = rooms[r].mem BY <2>2
    <3> QED BY <3>1, <3>2, <1>3, <2>1, FS_EmptySet
  <2>4. [on |-> FALSE, num |-> 0, mem |-> {}] \in RoomSet BY DEF RoomSet
  <2>5. /\ rooms' \in [Rids -> RoomSet] /\ \A q \in Rids : rooms'[q].mem = rooms[q].mem /\ (q # r => rooms'[q] = rooms[q])
        /\ rooms'[r].num = 0
    BY <1>3, <1>7, <2>1, <2>3, <2>4 DEF Destroyed
  <2>6. RoomsTyped' BY <2>1, <2>5 DEF RoomsTyped
  <2>7. SameIds /\ RvKeeps BY <1>2, FrameIds DEF RvKeeps
  <2>8. Typed' BY <1>2 DEF Typed, TInv
  <2>9. RvRight' BY <1>2, <2>7, FrameRv, RvEnds
  <2>10. JoinedRight' BY <1>2, <2>5 DEF TInv, JoinedRight
  <2>11. CountRight'
    <3>1. \A q \in Rids : Uncounted(q)' = Uncounted(q) BY <1>2 DEF Uncounted
    <3> QED BY <1>3, <1>7, <2>5, <3>1 DEF TInv, CountRight
  <2>12. WorkRight'
    <3> SUFFICES ASSUME NEW k \in Workers PROVE WorkOk(k)' BY DEF WorkRight
    <3>1. WorkOk(k) BY DEF TInv, WorkRight
    <3>2. \A s, q, g : Wanted(s, q, g)' = Wanted(s, q, g) BY <1>2 DEF Wanted
    <3>3. w[k].pc = "join4" => w[k].rid \in Rids BY LockIs DEF Locks
    <3> QED BY <1>2, <2>5, <3>1, <3>2, <3>3 DEF WorkOk, Sessions
  <2>13. MemRight'
    <3> SUFFICES ASSUME NEW q \in Rids, NEW h \in Gids, NEW z \in Sids, NEW d \in Cids, <<h, z, d>> \in rooms'[q].mem
                 PROVE  /\ rooms'[q].on /\ scene'.sid[d] = z /\ Wanted(z, q, h)'
                        /\ InSess(q, h, z, d)' \/ InLeft(q, h, z, d)' \/ InWork(q, h, z, d)'
      BY DEF MemRight
    <3>1. <<h, z, d>> \in rooms[q].mem /\ q # r BY <2>3, <2>5
    <3>2. /\ rooms[q].on /\ scene.sid[d] = z /\ Wanted(z, q, h)
          /\ InSess(q, h, z, d) \/ InLeft(q, h, z, d) \/ InWork(q, h, z, d)
      BY <3>1 DEF TInv, MemRight
    <3>3. InLeft(q, h, z, d)' = InLeft(q, h, z, d) BY <1>2 DEF InLeft
    <3>4. InWork(q, h, z, d)' = InWork(q, h, z, d) BY <1>2 DEF InWork
    <3>5. Wanted(z, q, h)' = Wanted(z, q, h) BY <1>2 DEF Wanted
    <3>6. InSess(q, h, z, d)' = InSess(q, h, z, d) BY <1>2 DEF InSess, Sessions
    <3> QED BY <1>2, <2>5, <3>1, <3>2, <3>3, <3>4, <3>5, <3>6
  <2>14. OneRight' BY <1>2, FrameOne
  <2> QED BY <1>2, <1>4, <2>6, <2>7, <2>8, <2>9, <2>10, <2>11, <2>12, <2>13, <2>14, FrameSess, FrameNet, FrameList,
          FrameSessions, FrameConn, FrameLocks, FrameDown DEF TInv
<1> QED BY <1>1, <1>6, <1>7
LEMMA StepUpstream == ASSUME TInv, Upstream PROVE TInv'
<1> USE DEF tabVars
<1>1. PICK m : m = scene.ups[n[0] + 1] OBVIOUS
<1>2. m \in UpMesgs
  <2>1. scene.ups \in Seq(UpMesgs) /\ n[0] \in Nat BY SceneIs DEF TInv, Typed
  <2>2. n[0] + 1 \in 1 .. Len(scene.ups) BY <2>1 DEF Upstream
  <2> QED BY <1>1, <2>1, <2>2
<1>3. /\ net' = net \cup {m} /\ n' = [n EXCEPT ![0] = @ + 1]
      /\ UNCHANGED <<scene, crossed, conn, list, tabVars, kick, asked, kickfree, rv, w, t, sent, down, wild>>
  BY <1>1 DEF Upstream
<1>4. m \in Mesgs /\ m.type \in UpTypes BY <1>2 DEF UpMesgs, Mesgs
<1>5. Typed' BY <1>3, <1>4 DEF Typed, TInv
<1>6. NetRight'
  <2>1. ASSUME NEW rr, NEW ss, NEW g PROVE Wanted(ss, rr, g)' = Wanted(ss, rr, g) BY <1>3 DEF Wanted
  <2> QED BY <1>2, <1>3, <1>4, <2>1 DEF TInv, NetRight, UpTypes
<1>7. SameIds /\ RvKeeps BY <1>3, FrameIds DEF RvKeeps
<1>8. RvRight' BY <1>3, FrameRv, <1>7, RvEnds
<1>9. OneRight' BY <1>3, FrameOne
<1> QED BY <1>3, <1>5, <1>6, <1>7, <1>8, <1>9, FrameTimer, FrameSess, FrameRooms, FrameList, FrameSessions, FrameConn,
       FrameWork, FrameLocks, FrameMem, FrameJoined, FrameCount, FrameDown DEF TInv
-----------------------------------------------------------------------------
(* The invariant. *)
LEMMA InitInv == ASSUME Init PROVE TInv
<1>1. scene \in Scenes BY DEF Init
<1>2. /\ scene.up \subseteq Cids /\ scene.sid \in [Cids -> Sids]
      /\ \A c, d \in scene.up : scene.sid[c] = scene.sid[d] => c = d
  BY <1>1, TcpAssumption
<1>3. Idle \in WorkSet /\ NoConn \in ConnSet BY DEF Idle, WorkSet, NoConn, ConnSet, Stats
<1>4. conn \in [Cids -> ConnSet] BY <1>2, <1>3 DEF Init, ConnSet, Stats
<1>5. ASSUME NEW c \in Cids
      PROVE  IF c \in scene.up THEN conn[c].st = "open" /\ conn[c].stat = "ONLINE" /\ conn[c].sid = scene.sid[c]
             ELSE conn[c].st = "none" /\ conn[c].stat = "CLOSED" /\ conn[c].sid = 0
  BY <1>2 DEF Init, NoConn
<1>6. \A s, c : <<s, c>> \in list <=> c \in scene.up /\ s = scene.sid[c] BY DEF Init
<1>7. list \subseteq Sids \X Cids BY <1>2 DEF Init
<1>8. \A k \in Workers : w[k] = Idle BY DEF Init
<1>9. \A s \in Sids : IF \E c \in scene.up : scene.sid[c] = s THEN cids[s] \in scene.up /\ scene.sid[cids[s]] = s ELSE cids[s] = 0
  BY DEF Init
<1>10. cids \in [Sids -> Cids \cup {0}]
  <2>1. \A s \in Sids : cids[s] \in Cids \cup {0} BY <1>2, <1>9
  <2>2. cids = [s \in Sids |-> cids[s]] BY DEF Init
  <2> QED BY <2>1, <2>2
<1>11. Typed BY <1>1, <1>3, <1>4, <1>7, <1>10 DEF Init, Typed
<1>12. TimerTyped BY DEF Init, TimerTyped, Idle
<1>13. SessTyped BY DEF Init, SessTyped
<1>14. \A r \in Rids : rooms[r].mem = {} /\ rooms[r].num = 0 BY DEF Init
<1>15. RoomsTyped
  <2>1. rooms \in [Rids -> RoomSet] BY DEF Init, RoomSet
  <2> QED BY <2>1, <1>14, FS_EmptySet DEF RoomsTyped
<1>16. RvRight BY DEF Init, RvRight, Idle, Ends
<1>17. NetRight BY DEF Init, NetRight
<1>18. ListRight BY <1>5, <1>6 DEF Init, ListRight, Idle, Ends
<1>19. SessRight BY DEF Init, SessRight, Sessions
<1>20. ConnRight BY <1>2, <1>5, <1>6 DEF ConnRight
<1>21. WorkRight BY <1>8 DEF WorkRight, WorkOk, Idle, Acks, Locks
<1>22. LocksApart BY <1>8 DEF LocksApart, Idle, Locks
<1>23. MemRight BY <1>14 DEF MemRight
<1>24. JoinedRight BY <1>14 DEF JoinedRight, Init
<1>25. CountRight
  <2>1. \A r \in Rids : rooms[r].mem \ Uncounted(r) = {} BY <1>14
  <2> QED BY <1>14, <2>1, FS_EmptySet DEF CountRight
<1>26. DownRight BY DEF Init, DownRight
<1>27. OneRight
  <2>0. crossed = {} /\ Apart BY <1>8 DEF Init, Apart, Acks, Idle
  <2> SUFFICES ASSUME NEW c \in Cids, conn[c].stat = "ONLINE" PROVE OneOk(c) BY <2>0 DEF OneRight
  <2>1. c \in scene.up /\ conn[c].sid = scene.sid[c] /\ scene.sid[c] \in Sids BY <1>2, <1>5
  <2>2. cids[conn[c].sid] = c BY <2>1, <1>2, <1>9
  <2> QED BY <2>2, <1>8 DEF OneOk, Idle, Acks
<1> QED BY <1>11, <1>12, <1>13, <1>15, <1>16, <1>17, <1>18, <1>19, <1>20, <1>21, <1>22, <1>23, <1>24, <1>25, <1>26, <1>27 DEF TInv
LEMMA NextInv == ASSUME TInv, [Next]_vars PROVE TInv'
<1>1. CASE UNCHANGED vars
  <2>1. StepSame /\ UNCHANGED <<crossed, conn, w, kick, down, net>> BY <1>1 DEF vars, StepSame
  <2>2. DownRight' BY <2>1, FrameDown DEF StepSame
  <2> QED BY <2>1, <2>2, StepSend
<1>2. ASSUME NEW c \in Cids,
             \/ lsnd_callback_creat_handler(c) \/ acc_rsvr_del_conn(c)
             \/ lsnd_callback_recv_ignored(c) \/ lsnd_callback_recv_old(c)
             \/ lsnd_mesg_online_handler(c) \/ lsnd_mesg_online_rekey(c) \/ lsnd_mesg_offline_handler(c)
             \/ lsnd_mesg_def_handler(c) \/ lsnd_mesg_room_join_handler(c) \/ lsnd_mesg_room_quit_handler(c)
      PROVE  TInv'
  BY <1>2, StepCreat, StepDelConn, StepIgnored, StepOld, StepOnline, StepRekey, StepOffline, StepDef, StepJoin, StepQuit
<1>3. CASE Destroy BY <1>3, StepDestroy, StepDelSid, StepDelSession, StepTravDel, StepNotify DEF Destroy
<1>4. ASSUME NEW k \in Workers, Worker(k) PROVE TInv'
  <2>1. ASSUME NEW m \in net,
               \/ lsnd_mesg_online_ack_logic(k, m) \/ lsnd_upmesg_room_join_ack_handler(k, m)
               \/ lsnd_upmesg_kick_handler(k, m) \/ lsnd_upmesg_room_chat_handler(k, m)
               \/ lsnd_upmesg_room_bc_handler(k, m) \/ lsnd_upmesg_room_ntf_handler(k, m)
               \/ lsnd_upmesg_def_handler(k, m)
        PROVE  TInv'
    BY <2>1, StepAck, StepJoinAck, StepKick, StepChat, StepBc, StepNtf, StepUpDef
  <2>2. CASE \/ chat_get_cid_by_sid(k) \/ ack_kick_old(k) \/ chat_set_sid_to_cid(k)
             \/ chat_room_add_session(k) \/ chat_group_add_session(k)
             \/ chat_group_sid_num(k) \/ chat_session_tab_add(k)
             \/ kick_conn_delete(k) \/ lsnd_kick_add(k)
    BY <2>2, StepGetCid, StepKickOld, StepSetSid, StepAddSession, StepGroupAdd, StepSidNum, StepTabAdd, StepKickDelete, StepKickAdd
  <2> QED BY <1>4, <2>1, <2>2 DEF Worker
<1>5. CASE Timer \/ Tick \/ Upstream
  BY <1>5, StepTimerKick, StepKickOne, StepClean, StepDelRoom, StepTick, StepUpstream DEF Timer
<1> QED BY <1>1, <1>2, <1>3, <1>4, <1>5 DEF Next, Receiver
LEMMA Invariant == Spec => []TInv
  BY InitInv, NextInv, PTL DEF Spec
-----------------------------------------------------------------------------
(* What it gives. *)
LEMMA InvType == ASSUME TInv PROVE TypeOK
<1>1. \A c \in Cids : /\ conn[c].st \in {"none", "open", "gone"} /\ conn[c].sid \in Sids \cup {0}
                      /\ conn[c].stat \in {"ESTABLISH", "ONLINE", "KICK", "OFFLINE", "CLOSED"}
  BY DEF TInv, Typed, ConnSet, Stats
<1>2. list \subseteq Sids \X Cids /\ cids \in [Sids -> Cids \cup {0}] /\ Sessions \subseteq Sids \X Cids
      /\ DOMAIN kick \subseteq Cids /\ asked \subseteq Cids /\ leaked \subseteq Sids /\ crossed \subseteq Cids
  BY DEF TInv, Typed, SessTyped, Sessions, OneRight
<1>3. ASSUME NEW r \in Rids
      PROVE  rooms[r].num \in 0 .. Cardinality(rooms[r].mem) /\ rooms[r].mem \subseteq Gids \X Sids \X Cids
  <2>1. IsFiniteSet(rooms[r].mem) /\ rooms[r].mem \subseteq Gids \X Sids \X Cids BY DEF TInv, RoomsTyped, RoomSet
  <2>2. rooms[r].num = Cardinality(rooms[r].mem \ Uncounted(r)) BY DEF TInv, CountRight
  <2>3. rooms[r].mem \ Uncounted(r) \subseteq rooms[r].mem OBVIOUS
  <2>4. /\ IsFiniteSet(rooms[r].mem \ Uncounted(r))
        /\ Cardinality(rooms[r].mem \ Uncounted(r)) <= Cardinality(rooms[r].mem)
    BY <2>1, <2>3, FS_Subset
  <2>5. Cardinality(rooms[r].mem \ Uncounted(r)) \in Nat /\ Cardinality(rooms[r].mem) \in Nat
    BY <2>1, <2>4, FS_CardinalityType
  <2> QED BY <2>1, <2>2, <2>4, <2>5
<1> QED BY <1>1, <1>2, <1>3 DEF TypeOK
LEMMA InvOne == ASSUME TInv PROVE OneOnline /\ SidFindsConn
<1>1. ASSUME NEW s \in Sids, Entering(s) = {}, NEW c \in OnlineAs(s) \ crossed PROVE cids[s] = c
  <2>1. c \in Cids /\ conn[c].sid = s /\ conn[c].stat = "ONLINE" /\ ~Kicking(c) BY DEF OnlineAs
  <2>2. OneOk(c) /\ s = scene.sid[c] BY <2>1, OnlineSid DEF TInv, OneRight
  <2>3. ASSUME NEW k \in Workers, w[k].pc \in Acks, w[k].c = c PROVE FALSE
    <3>1. w[k].sid = s BY <2>2, <2>3 DEF TInv, WorkRight, WorkOk
    <3> QED BY <2>3, <3>1, <1>1 DEF Entering, Acks
  <2> QED BY <2>1, <2>2, <2>3 DEF OneOk
<1>2. ASSUME NEW s \in Sids, Entering(s) = {} PROVE Cardinality(OnlineAs(s) \ crossed) <= 1
  <2>1. OnlineAs(s) \ crossed \subseteq {cids[s]} BY <1>1, <1>2
  <2>2. IsFiniteSet({cids[s]}) /\ Cardinality({cids[s]}) = 1 BY FS_Singleton
  <2>3. Cardinality(OnlineAs(s) \ crossed) <= Cardinality({cids[s]}) BY <2>1, <2>2, FS_Subset
  <2> QED BY <2>2, <2>3
<1> QED BY <1>1, <1>2 DEF OneOnline, SidFindsConn
LEMMA InvGone == ASSUME TInv PROVE GoneLeavesNothing
<1> SUFFICES ASSUME NEW c \in Cids, conn[c].st = "gone"
             PROVE  /\ \A s \in Sids : <<s, c>> \notin list /\ <<s, c>> \notin Sessions
                    /\ \A r \in Rids : \A x \in rooms[r].mem : x[3] # c
  BY DEF GoneLeavesNothing
<1>1. \A s \in Sids : <<s, c>> \notin list /\ <<s, c>> \notin Sessions BY DEF TInv, ListRight, SessRight
<1>2. ASSUME NEW r \in Rids, NEW x \in rooms[r].mem, x[3] = c PROVE FALSE
  <2>1. x \in Gids \X Sids \X Cids BY DEF TInv, RoomsTyped, RoomSet
  <2>2. PICK g \in Gids, s \in Sids : x = <<g, s, c>> BY <1>2, <2>1
  <2>3. InSess(r, g, s, c) \/ InLeft(r, g, s, c) \/ InWork(r, g, s, c) BY <2>2 DEF TInv, MemRight
  <2>4. ~InSess(r, g, s, c) BY <1>1 DEF InSess
  <2>5. ~InLeft(r, g, s, c) BY RvIs DEF InLeft
  <2>6. ~InWork(r, g, s, c) BY LockIs DEF InWork, Locks
  <2> QED BY <2>3, <2>4, <2>5, <2>6
<1> QED BY <1>1, <1>2
LEMMA InvRooms == ASSUME TInv PROVE RoomsRight
<1>1. ASSUME NEW r \in Rids PROVE rooms[r].mem = {<<j[2], j[3], j[4]>> : j \in {x \in joined : x[1] = r}}
  <2>1. ASSUME NEW y \in rooms[r].mem PROVE \E j \in {x \in joined : x[1] = r} : y = <<j[2], j[3], j[4]>>
    <3>1. y \in Gids \X Sids \X Cids BY DEF TInv, RoomsTyped, RoomSet
    <3>2. PICK g \in Gids, s \in Sids, c \in Cids : y = <<g, s, c>> BY <3>1
    <3>3. <<r, g, s, c>> \in joined BY <3>2 DEF TInv, JoinedRight
    <3>4. PICK j : j = <<r, g, s, c>> OBVIOUS
    <3>5. j[1] = r /\ y = <<j[2], j[3], j[4]>> BY <3>2, <3>4
    <3> QED BY <3>3, <3>4, <3>5
  <2>2. ASSUME NEW j \in joined, j[1] = r PROVE <<j[2], j[3], j[4]>> \in rooms[r].mem
    <3>1. j \in Rids \X Gids \X Sids \X Cids BY DEF TInv, Typed
    <3>2. j = <<r, j[2], j[3], j[4]>> /\ j[2] \in Gids /\ j[3] \in Sids /\ j[4] \in Cids BY <2>2, <3>1
    <3> QED BY <3>2 DEF TInv, JoinedRight
  <2> QED BY <2>1, <2>2
<1>2. ASSUME NEW r \in Rids, ~Reading(r) PROVE rooms[r].num = Cardinality(rooms[r].mem)
  <2>1. Uncounted(r) = {} BY <1>2 DEF Uncounted, Reading
  <2>2. rooms[r].mem \ Uncounted(r) = rooms[r].mem BY <2>1
  <2> QED BY <2>2 DEF TInv, CountRight
<1>3. MembersKept BY <1>1, <1>2 DEF MembersKept
<1>4. RoomTarget BY DEF TInv, DownRight, RoomTarget
<1> QED BY <1>3, <1>4 DEF RoomsRight

(* Of connections whose acknowledgements no two workers handled at a time, a *)
(* SID is ONLINE on one, the one that sid2cids leads to, for any number of   *)
(* workers and however the acknowledgements, the kicks and the end of the    *)
(* old connection are ordered (lsnd_mesg_online_ack_logic, chat_del_session). *)
THEOREM SidLeadsToOneAlways == Spec => []SidLeadsToOne
<1>1. TInv => SidLeadsToOne BY InvType, InvOne DEF SidLeadsToOne
<1> QED BY Invariant, <1>1, PTL

(* Nothing of a connection is left in conn_list, in sessions or in a room    *)
(* once lsnd_callback_destroy_handler is done with it, also when a JOIN-ACK  *)
(* is handled while it is destroyed.                                         *)
THEOREM NothingLeft == Spec => []GoneLeavesNothing
  BY Invariant, InvGone, PTL

(* Rooms hold exactly who joined and has not left, their number of members   *)
(* is exact, and a message to a group reaches only who asked for the group,  *)
(* while rooms are made, cleaned and left (chat_room_add_session,            *)
(* chat_room_del_session, chat_del_room).                                    *)
THEOREM RoomsStayRight == Spec => []RoomsRight
  BY Invariant, InvRooms, PTL

\* A connection that is kicked stays so until it is destroyed, step by step.
KickKept == \A c \in Cids : conn[c].stat = "KICK" => conn'[c].stat \in {"KICK", "CLOSED"}
LEMMA StatKept == ASSUME TInv, NEW c \in Cids, NEW v, StatIs(c, v), v \in {"KICK", "CLOSED"} \/ conn[c].stat # "KICK" PROVE KickKept
  BY DEF StatIs, KickKept
LEMMA KickKeptSame == ASSUME UNCHANGED conn PROVE KickKept
  BY DEF KickKept
LEMMA KickNext == ASSUME TInv, [Next]_vars PROVE KickKept
<1>1. ASSUME NEW c \in Cids, lsnd_callback_creat_handler(c) PROVE KickKept
  <2>1. conn[c].stat = "CLOSED" BY <1>1 DEF lsnd_callback_creat_handler, TInv, ConnRight
  <2>2. \A d \in Cids : d # c => conn'[d] = conn[d] BY <1>1 DEF lsnd_callback_creat_handler, TInv, Typed
  <2> QED BY <2>1, <2>2 DEF KickKept
<1>2. ASSUME NEW c \in Cids, lsnd_mesg_online_handler(c) PROVE KickKept
  <2>1. PICK h : h = [conn EXCEPT ![c].sid = scene.sid[c]] OBVIOUS
  <2>2. conn' = h BY <1>2, <2>1, Zenon DEF lsnd_mesg_online_handler
  <2>3. scene.sid[c] \in Sids \cup {0} /\ conn \in [Cids -> ConnSet] BY SceneIs DEF TInv, Typed
  <2>4. \A d \in Cids : h[d].stat = conn[d].stat BY <2>1, <2>3, SetSid
  <2> HIDE <2>1
  <2> QED BY <2>2, <2>4 DEF KickKept
<1>3. ASSUME NEW c \in Cids, lsnd_mesg_offline_handler(c) PROVE KickKept
  <2>1. CASE UNCHANGED conn BY <2>1, KickKeptSame
  <2>2. CASE conn' = [conn EXCEPT ![c].stat = "OFFLINE"]
    <3>1. "OFFLINE" \in Stats BY DEF Stats
    <3>2. StatIs(c, "OFFLINE") BY <2>2, <3>1, StatStep, Zenon
    <3>3. conn[c].stat # "KICK" BY <1>3 DEF lsnd_mesg_offline_handler, Accepted
    <3> QED BY <3>2, <3>3, StatKept
  <2> QED BY <1>3, <2>1, <2>2 DEF lsnd_mesg_offline_handler
<1>4. CASE lsnd_callback_destroy_handler
  <2>1. PICK c : c = rv.c OBVIOUS
  <2>2. conn' = [conn EXCEPT ![c].stat = "CLOSED"] BY <1>4, <2>1, Zenon DEF lsnd_callback_destroy_handler
  <2>3. c \in Cids BY <1>4, <2>1, RvIs DEF lsnd_callback_destroy_handler
  <2>4. "CLOSED" \in Stats BY DEF Stats
  <2>5. StatIs(c, "CLOSED") BY <2>2, <2>3, <2>4, StatStep, Zenon
  <2> QED BY <2>3, <2>5, StatKept
<1>5. CASE lsnd_offline_notify
  <2>1. PICK c : c = rv.c OBVIOUS
  <2>2. conn' = [conn EXCEPT ![c].st = "gone"] BY <1>5, <2>1, Zenon DEF lsnd_offline_notify
  <2>3. c \in Cids BY <1>5, <2>1, RvIs DEF lsnd_offline_notify
  <2>4. \A d \in Cids : conn'[d].stat = conn[d].stat BY <2>2, <2>3, StStep
  <2> QED BY <2>4 DEF KickKept
<1>6. ASSUME NEW k \in Workers, NEW m \in net, lsnd_mesg_online_ack_logic(k, m) PROVE KickKept
  <2>1. PICK c : c = m.c OBVIOUS
  <2>2. c \in Cids BY <1>6, <2>1 DEF lsnd_mesg_online_ack_logic, TInv, NetRight
  <2>3. "KICK" \in Stats /\ "ONLINE" \in Stats BY DEF Stats
  <2>4. CASE UNCHANGED conn BY <2>4, KickKeptSame
  <2>5. CASE conn' = KickStat(c)
    <3>1. conn' = [conn EXCEPT ![c].stat = "KICK"] BY <2>5, Zenon DEF KickStat
    <3>2. StatIs(c, "KICK") BY <2>2, <2>3, <3>1, StatStep, Zenon
    <3> QED BY <2>2, <3>2, StatKept
  <2>6. CASE conn[c].stat = "ESTABLISH" /\ conn' = [conn EXCEPT ![c].stat = "ONLINE"]
    <3>1. StatIs(c, "ONLINE") BY <2>2, <2>3, <2>6, StatStep, Zenon
    <3>2. conn[c].stat # "KICK" BY <2>6
    <3> QED BY <2>2, <3>1, <3>2, StatKept
  <2> QED BY <1>6, <2>1, <2>4, <2>5, <2>6, Zenon DEF lsnd_mesg_online_ack_logic
<1>7. ASSUME NEW k \in Workers, ack_kick_old(k) PROVE KickKept
  <2>1. PICK c : c = w[k].rid OBVIOUS
  <2>2. CASE UNCHANGED conn BY <2>2, KickKeptSame
  <2>3. CASE conn' = KickStat(c) /\ <<w[k].sid, c>> \in list
    <3>1. conn' = [conn EXCEPT ![c].stat = "KICK"] BY <2>3, Zenon DEF KickStat
    <3>2. "KICK" \in Stats BY DEF Stats
    <3>3. c \in Cids BY <2>3 DEF TInv, Typed
    <3>4. StatIs(c, "KICK") BY <3>1, <3>2, <3>3, StatStep, Zenon
    <3> QED BY <3>3, <3>4, StatKept
  <2> QED BY <1>7, <2>1, <2>2, <2>3 DEF ack_kick_old
<1>8. ASSUME NEW k \in Workers, chat_room_add_session(k) PROVE KickKept
  <2>1. CASE UNCHANGED conn BY <2>1, KickKeptSame
  <2>2. CASE <<w[k].sid, w[k].c>> \in list /\ conn[w[k].c].stat = "ONLINE" /\ conn' = [conn EXCEPT ![w[k].c].stat = "ONLINE"]
    <3>1. PICK c : c = w[k].c OBVIOUS
    <3>2. "ONLINE" \in Stats BY DEF Stats
    <3>3. c \in Cids BY <2>2, <3>1 DEF TInv, Typed
    <3>4. conn' = [conn EXCEPT ![c].stat = "ONLINE"] BY <2>2, <3>1, Zenon
    <3>5. StatIs(c, "ONLINE") BY <3>2, <3>3, <3>4, StatStep, Zenon
    <3>6. conn[c].stat # "KICK" BY <2>2, <3>1
    <3> QED BY <3>3, <3>5, <3>6, StatKept
  <2> QED BY <1>8, <2>1, <2>2, Zenon DEF chat_room_add_session
<1>9. ASSUME NEW k \in Workers, lsnd_kick_add(k) PROVE KickKept
  <2>1. PICK c : c = w[k].c OBVIOUS
  <2>2. c \in Cids BY <1>9, <2>1 DEF lsnd_kick_add, TInv, WorkRight, WorkOk
  <2>3. CASE UNCHANGED conn BY <2>3, KickKeptSame
  <2>4. CASE conn' = KickStat(c)
    <3>1. conn' = [conn EXCEPT ![c].stat = "KICK"] BY <2>4, Zenon DEF KickStat
    <3>2. "KICK" \in Stats BY DEF Stats
    <3>3. StatIs(c, "KICK") BY <2>2, <3>1, <3>2, StatStep, Zenon
    <3> QED BY <2>2, <3>3, StatKept
  <2> QED BY <1>9, <2>1, <2>3, <2>4 DEF lsnd_kick_add
<1>10. ASSUME NEW c \in Cids,
              \/ acc_rsvr_del_conn(c) \/ lsnd_callback_recv_ignored(c) \/ lsnd_callback_recv_old(c) \/ lsnd_mesg_online_rekey(c)
              \/ lsnd_mesg_def_handler(c) \/ lsnd_mesg_room_join_handler(c) \/ lsnd_mesg_room_quit_handler(c)
       PROVE  UNCHANGED conn
  BY <1>10 DEF acc_rsvr_del_conn, lsnd_callback_recv_ignored, lsnd_callback_recv_old, lsnd_mesg_online_rekey, lsnd_mesg_def_handler,
     lsnd_mesg_room_join_handler, lsnd_mesg_room_quit_handler
<1>11. chat_del_sid_to_cid \/ chat_del_session \/ chat_room_trav_del_session => UNCHANGED conn
  BY DEF chat_del_sid_to_cid, chat_del_session, chat_room_trav_del_session
<1>12. ASSUME NEW k \in Workers, NEW m \in net,
              \/ lsnd_upmesg_room_join_ack_handler(k, m) \/ lsnd_upmesg_kick_handler(k, m) \/ lsnd_upmesg_room_chat_handler(k, m)
              \/ lsnd_upmesg_room_bc_handler(k, m) \/ lsnd_upmesg_room_ntf_handler(k, m) \/ lsnd_upmesg_def_handler(k, m)
       PROVE  UNCHANGED conn
  BY <1>12 DEF lsnd_upmesg_room_join_ack_handler, lsnd_upmesg_kick_handler, lsnd_upmesg_room_chat_handler,
     lsnd_upmesg_room_bc_handler, lsnd_upmesg_room_ntf_handler, lsnd_upmesg_def_handler
<1>13. ASSUME NEW k \in Workers,
              \/ chat_get_cid_by_sid(k) \/ chat_set_sid_to_cid(k) \/ chat_group_add_session(k)
              \/ chat_group_sid_num(k) \/ chat_session_tab_add(k) \/ kick_conn_delete(k)
       PROVE  UNCHANGED conn
  BY <1>13 DEF chat_get_cid_by_sid, chat_set_sid_to_cid, chat_group_add_session, chat_group_sid_num, chat_session_tab_add,
     kick_conn_delete
<1>14. Timer \/ Tick \/ Upstream => UNCHANGED conn
  BY DEF Timer, lsnd_timer_kick_handler, timer_kick_one, lsnd_timer_room_clean_handler, chat_room_clean_hdl, chat_del_room,
     Tick, Upstream
<1>15. UNCHANGED vars => UNCHANGED conn BY DEF vars
<1>16. Destroy => KickKept BY <1>4, <1>5, <1>11, KickKeptSame DEF Destroy
<1>17. Receiver => KickKept BY <1>1, <1>2, <1>3, <1>10, <1>16, KickKeptSame DEF Receiver
<1>18. ASSUME NEW k \in Workers, Worker(k) PROVE KickKept
  BY <1>6, <1>7, <1>8, <1>9, <1>12, <1>13, <1>18, KickKeptSame DEF Worker
<1> QED BY <1>14, <1>15, <1>17, <1>18, KickKeptSame DEF Next

(* A connection that is being kicked never gets back to ONLINE: no late      *)
(* acknowledgement, JOIN-ACK or OFFLINE undoes lsnd_kick_add.                *)
THEOREM KickIsFinal == Spec => KickSticks
<1>1. TInv /\ [Next]_vars => [\A c \in Cids : conn[c].stat = "KICK" => conn'[c].stat \in {"KICK", "CLOSED"}]_vars
  BY KickNext DEF KickKept
<1> QED BY Invariant, <1>1, PTL DEF Spec, KickSticks
=============================================================================
