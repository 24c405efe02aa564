------------------------------ MODULE ChatTab ------------------------------
(***************************************************************************)
(* The in-memory tables of a listen node (src/golang/lib/chat_tab): the    *)
(* session table, keyed by (sid,cid), the SID->CID map and, per chat room, *)
(* the groups with their member lists and counters.                        *)
(*                                                                         *)
(* Every table has locks of its own and an exported operation takes them   *)
(* one after the other, so an operation is a sequence of locked steps and  *)
(* the steps of several goroutines interleave.  Each action below is one   *)
(* locked section.  RoomJoin keeps the read lock of the room list from     *)
(* room_query to its return: the room cannot be removed in between, groups *)
(* are never removed, so query, group_add and the insertion are one step.  *)
(***************************************************************************)
EXTENDS Integers, FiniteSets

CONSTANTS
    Sids,   \* session identifiers
    Cids,   \* connection identifiers
    Rids,   \* chat rooms
    Groups, \* groups of a room
    Procs,  \* goroutines that call the exported operations
    NoGid   \* "no entry" in a map[rid]gid

ASSUME ChatTabAssumption == NoGid \notin Groups

Keys == Sids \X Cids          \* ChatSessionKey

NoRooms == [r \in Rids |-> NoGid]

VARIABLES
    sessions,   \* keys of session[]: the items that exist
    room,       \* room[k][r]: ssn.room of the item of key k
    rooms,      \* the rooms that exist
    sid_list,   \* <<rid, gid, key>>: the members of every group
    room_num,   \* ChatRoomItem.sid_num
    group_num,  \* ChatGroupItem.sid_num
    op,         \* the operation each goroutine is in
    scan,       \* Clean: rooms whose list the first pass has still to visit
    rlist,      \* Clean: rooms found empty by the first pass
    raced       \* history: keys on which two operations have overlapped

tabs == <<sessions, room, rooms, sid_list, room_num, group_num>>
chatVars == <<tabs, op, scan, rlist, raced>>

NoOp == [at |-> "idle"]
Joining(a, k, r, g) == [at |-> a, key |-> k, rid |-> r, gid |-> g]
Removing(k, t) == [at |-> "room_del", key |-> k, todo |-> t]

(* What an operation in progress knows: the key it works on, the room and  *)
(* the group of a join, the (rid,gid) pairs a removal has still to visit.  *)
Ops == {NoOp}
       \cup [at : {"room_add", "group_join"}, key : Keys, rid : Rids, gid : Groups]
       \cup [at : {"session_del"}, key : Keys]
       \cup [at : {"room_del"}, key : Keys, todo : SUBSET (Rids \X Groups)]

ChatInit ==
    /\ sessions = {}
    /\ room = [k \in Keys |-> NoRooms]
    /\ rooms = {}
    /\ sid_list = {}
    /\ room_num = [r \in Rids |-> 0]
    /\ group_num = [rg \in Rids \X Groups |-> 0]
    /\ op = [p \in Procs |-> NoOp]
    /\ scan = {}
    /\ rlist = {}
    /\ raced = {}

Busy(k) == \E p \in Procs : op[p] # NoOp /\ op[p].key = k

(* An operation on k begins; it overlaps with another one if k is busy.    *)
Begin(p, k) ==
    /\ op[p] = NoOp
    /\ raced' = IF Busy(k) THEN raced \cup {k} ELSE raced

Goto(p, o) == op' = [op EXCEPT ![p] = o]

----------------------------------------------------------------------------
(* RoomJoin                                                                *)

(* session_join_room: enter the room in the session, creating the session  *)
(* when there is none; another group of the same room is refused.          *)
session_join_room(p, r, g, k) ==
    /\ Begin(p, k)
    /\ IF room[k][r] \in {NoGid, g}
       THEN /\ sessions' = sessions \cup {k}
            /\ room' = [room EXCEPT ![k][r] = g]
            /\ Goto(p, Joining("room_add", k, r, g))
       ELSE UNCHANGED <<sessions, room, op>>
    /\ UNCHANGED <<rooms, sid_list, room_num, group_num, scan, rlist>>

(* room_add: a new room starts with no groups and a count of zero.         *)
room_add(p) ==
    /\ op[p].at = "room_add"
    /\ LET r == op[p].rid
       IN IF r \in rooms
          THEN UNCHANGED <<rooms, room_num, group_num>>
          ELSE /\ rooms' = rooms \cup {r}
               /\ room_num' = [room_num EXCEPT ![r] = 0]
               /\ group_num' = [rg \in Rids \X Groups |->
                                  IF rg[1] = r THEN 0 ELSE group_num[rg]]
    /\ Goto(p, Joining("group_join", op[p].key, op[p].rid, op[p].gid))
    /\ UNCHANGED <<sessions, room, sid_list, scan, rlist, raced>>

(* room_query fails when Clean removed the room meanwhile: goto ROOM.      *)
room_query_nil(p) ==
    /\ op[p].at = "group_join"
    /\ op[p].rid \notin rooms
    /\ Goto(p, Joining("room_add", op[p].key, op[p].rid, op[p].gid))
    /\ UNCHANGED <<tabs, scan, rlist, raced>>

(* Faulty variant: a key that is already in the group is counted again.    *)
group_join_recount(p) ==
    /\ op[p].at = "group_join"
    /\ op[p].rid \in rooms
    /\ sid_list' = sid_list \cup {<<op[p].rid, op[p].gid, op[p].key>>}
    /\ room_num' = [room_num EXCEPT ![op[p].rid] = @ + 1]
    /\ group_num' = [group_num EXCEPT ![<<op[p].rid, op[p].gid>>] = @ + 1]
    /\ Goto(p, NoOp)
    /\ UNCHANGED <<sessions, room, rooms, scan, rlist, raced>>

(* Insert the key in the group, counting it if it was not there.           *)
group_join(p) ==
    /\ op[p].at = "group_join"
    /\ op[p].rid \in rooms
    /\ LET r == op[p].rid
           g == op[p].gid
           m == <<r, g, op[p].key>>
       IN IF m \in sid_list
          THEN UNCHANGED <<sid_list, room_num, group_num>>
          ELSE /\ sid_list' = sid_list \cup {m}
               /\ room_num' = [room_num EXCEPT ![r] = @ + 1]
               /\ group_num' = [group_num EXCEPT ![<<r, g>>] = @ + 1]
    /\ Goto(p, NoOp)
    /\ UNCHANGED <<sessions, room, rooms, scan, rlist, raced>>

----------------------------------------------------------------------------
(* RoomQuit and SessionDel                                                 *)

(* session_quit_room: forget the room in the session, if it is there.      *)
session_quit_room(p, r, k) ==
    /\ Begin(p, k)
    /\ IF k \in sessions /\ room[k][r] # NoGid
       THEN /\ room' = [room EXCEPT ![k][r] = NoGid]
            /\ Goto(p, Removing(k, {<<r, room[k][r]>>}))
       ELSE UNCHANGED <<room, op>>
    /\ UNCHANGED <<sessions, rooms, sid_list, room_num, group_num, scan, rlist>>

(* SessionDel begins; its sid2cid_del belongs to the caller's module.      *)
SessionDel(p, k) ==
    /\ Begin(p, k)
    /\ Goto(p, [at |-> "session_del", key |-> k])
    /\ UNCHANGED <<tabs, scan, rlist>>

(* Faulty variant: the session goes, its entries in the rooms stay.        *)
session_del_only(p) ==
    /\ op[p].at = "session_del"
    /\ sessions' = sessions \ {op[p].key}
    /\ room' = [room EXCEPT ![op[p].key] = NoRooms]
    /\ Goto(p, NoOp)
    /\ UNCHANGED <<rooms, sid_list, room_num, group_num, scan, rlist, raced>>

(* session_del: unlink the item; its rooms are visited afterwards.         *)
session_del(p) ==
    /\ op[p].at = "session_del"
    /\ LET k == op[p].key
           joined == {r \in Rids : room[k][r] # NoGid}
       IN IF k \in sessions
          THEN /\ sessions' = sessions \ {k}
               /\ room' = [room EXCEPT ![k] = NoRooms]
               /\ Goto(p, Removing(k, {<<r, room[k][r]>> : r \in joined}))
          ELSE /\ Goto(p, NoOp)
               /\ UNCHANGED <<sessions, room>>
    /\ UNCHANGED <<rooms, sid_list, room_num, group_num, scan, rlist, raced>>

(* room_del_session for one (rid,gid) of the list.                         *)
room_del_session(p) ==
    /\ op[p].at = "room_del"
    /\ \E rg \in op[p].todo :
         /\ LET r == rg[1]
                m == <<r, rg[2], op[p].key>>
            IN IF r \in rooms /\ m \in sid_list
               THEN /\ sid_list' = sid_list \ {m}
                    /\ room_num' = [room_num EXCEPT ![r] = @ - 1]
                    /\ group_num' = [group_num EXCEPT ![rg] = @ - 1]
               ELSE UNCHANGED <<sid_list, room_num, group_num>>
         /\ Goto(p, Removing(op[p].key, op[p].todo \ {rg}))
    /\ UNCHANGED <<sessions, room, rooms, scan, rlist, raced>>

room_del_return(p) ==
    /\ op[p].at = "room_del"
    /\ op[p].todo = {}
    /\ Goto(p, NoOp)
    /\ UNCHANGED <<tabs, scan, rlist, raced>>

----------------------------------------------------------------------------
(* SessionSetParam: the item ONLINE creates; an existing one is kept.      *)
SessionSetParam(p, k) ==
    /\ Begin(p, k)
    /\ sessions' = sessions \cup {k}
    /\ UNCHANGED <<room, rooms, sid_list, room_num, group_num, op, scan, rlist>>

(* Clean, run by one timer goroutine: a first pass over the room lists,    *)
(* then every room found empty is removed unless it has members by now.    *)
Clean ==
    /\ scan = {} /\ rlist = {}
    /\ scan' = Rids
    /\ UNCHANGED <<tabs, op, rlist, raced>>

(* The first pass locks copies of the lists' locks (range copies them), so *)
(* it excludes nobody: it reads one room at a time, between the steps of   *)
(* the others, and passes over a room that is entered while it iterates.   *)
(* A copy made of a lock that a writer held is never free again, and the   *)
(* runtime may stop the process when it sees the map written meanwhile:    *)
(* no more steps are then taken, which ChatSpec allows at any time.            *)
clean_scan(r) ==
    /\ r \in scan
    /\ scan' = scan \ {r}
    /\ \/ r \in rooms /\ room_num[r] = 0 /\ rlist' = rlist \cup {r}
       \/ UNCHANGED rlist
    /\ UNCHANGED <<tabs, op, raced>>

(* Faulty variant: the second pass trusts what the first one saw.          *)
clean_del_unchecked(r) ==
    /\ scan = {}
    /\ r \in rlist
    /\ rlist' = rlist \ {r}
    /\ rooms' = rooms \ {r}
    /\ sid_list' = {m \in sid_list : m[1] # r}
    /\ UNCHANGED <<sessions, room, room_num, group_num, op, scan, raced>>

(* The removal drops the room with the groups it holds.                    *)
clean_del(r) ==
    /\ scan = {}
    /\ r \in rlist
    /\ rlist' = rlist \ {r}
    /\ IF r \in rooms /\ room_num[r] = 0
       THEN /\ rooms' = rooms \ {r}
            /\ sid_list' = {m \in sid_list : m[1] # r}
       ELSE UNCHANGED <<rooms, sid_list>>
    /\ UNCHANGED <<sessions, room, room_num, group_num, op, scan, raced>>

----------------------------------------------------------------------------
JoinStep(p) == room_add(p) \/ room_query_nil(p) \/ group_join(p)
DelStep(p) == session_del(p) \/ room_del_session(p) \/ room_del_return(p)
Step(p) == JoinStep(p) \/ DelStep(p)

Call(p) ==
    \E k \in Keys :
        \/ \E r \in Rids, g \in Groups : session_join_room(p, r, g, k)
        \/ \E r \in Rids : session_quit_room(p, r, k)
        \/ SessionDel(p, k)
        \/ SessionSetParam(p, k)

CleanStep == Clean \/ \E r \in Rids : clean_scan(r) \/ clean_del(r)

ChatNext == CleanStep \/ \E p \in Procs : Call(p) \/ Step(p)

ChatSpec == ChatInit /\ [][ChatNext]_chatVars

----------------------------------------------------------------------------
ChatTypeOK ==
    /\ sessions \subseteq Keys
    /\ room \in [Keys -> [Rids -> Groups \cup {NoGid}]]
    /\ rooms \subseteq Rids
    /\ sid_list \subseteq Rids \X Groups \X Keys
    /\ room_num \in [Rids -> Int]
    /\ group_num \in [Rids \X Groups -> Int]
    /\ op \in [Procs -> Ops]
    /\ scan \subseteq Rids
    /\ rlist \subseteq Rids
    /\ raced \subseteq Keys

MembersOf(r) == {m \in sid_list : m[1] = r}
MembersOfGroup(r, g) == {m \in sid_list : m[1] = r /\ m[2] = g}

(* The counters a node reports upstream are the sizes of the lists they    *)
(* count, whatever interleaves: sid_num of an existing room and of each of *)
(* its groups; and a room that does not exist has no members.              *)
CountersExact ==
    /\ \A r \in rooms : room_num[r] = Cardinality(MembersOf(r))
    /\ \A r \in rooms, g \in Groups :
          group_num[<<r, g>>] = Cardinality(MembersOfGroup(r, g))
    /\ \A r \in Rids \ rooms : MembersOf(r) = {}

(* Clean never takes a room away from its members: a join that completes   *)
(* between its two passes keeps the room alive.                            *)
CleanKeepsMembers ==
    [][\A r \in rooms \ rooms' : MembersOf(r) = {}]_chatVars

Pending(k) == {p \in Procs : op[p] # NoOp /\ op[p].key = k}

(* The operation p is still to list, or to unlist, key k in group g of r.  *)
Entering(p, k, r, g) ==
    /\ op[p].at \in {"room_add", "group_join"}
    /\ op[p].key = k /\ op[p].rid = r /\ op[p].gid = g
Leaving(p, k, r, g) ==
    /\ op[p].at = "room_del"
    /\ op[p].key = k /\ <<r, g>> \in op[p].todo

Agree(k, r, g) ==
    /\ <<r, g, k>> \in sid_list =>
          room[k][r] = g \/ \E p \in Procs : Leaving(p, k, r, g)
    /\ room[k][r] = g =>
          <<r, g, k>> \in sid_list \/ \E p \in Procs : Entering(p, k, r, g)

(* For a key on which no two operations ever overlapped, the member lists  *)
(* and the session's room map agree: a listed member is in its session's   *)
(* map, or its removal is still on the list of the operation in progress;  *)
(* a room in the map lists the member, or its join is still in progress.   *)
MembershipAgrees ==
    \A k \in Keys \ raced, r \in Rids, g \in Groups : Agree(k, r, g)

----------------------------------------------------------------------------
(* What makes MembershipAgrees inductive: an absent session is in no room, *)
(* an unraced key has at most one operation in progress, a join finds the  *)
(* entry it made in the session, a removal finds its entries gone.         *)
AbsentIsEmpty == \A k \in Keys \ sessions : room[k] = NoRooms

OneAtATime ==
    \A k \in Keys \ raced : \A p, q \in Pending(k) : p = q

JoinEntered ==
    \A p \in Procs :
        op[p].at \in {"room_add", "group_join"} /\ op[p].key \notin raced
            => room[op[p].key][op[p].rid] = op[p].gid

DelLeft ==
    \A p \in Procs :
        op[p].at = "room_del" /\ op[p].key \notin raced
            => \A rg \in op[p].todo : room[op[p].key][rg[1]] = NoGid

MembershipInv ==
    /\ AbsentIsEmpty
    /\ OneAtATime
    /\ JoinEntered
    /\ DelLeft
    /\ MembershipAgrees

============================================================================
