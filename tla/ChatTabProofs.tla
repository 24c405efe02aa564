--------------------------- MODULE ChatTabProofs ---------------------------
(***************************************************************************)
(* Proofs about the tables of a listen node, for every number of sessions, *)
(* connections, rooms, groups and goroutines.                              *)
(***************************************************************************)
EXTENDS ChatTab, TLAPS, FiniteSetTheorems

(* The fields of an operation in progress, by the step it is at.           *)
LEMMA OpFields ==
    ASSUME ChatTypeOK, NEW p \in Procs
    PROVE  /\ op[p].at \in {"room_add", "group_join"} =>
                 op[p].key \in Keys /\ op[p].rid \in Rids /\ op[p].gid \in Groups
           /\ op[p].at = "session_del" => op[p].key \in Keys
           /\ op[p].at = "room_del" =>
                 op[p].key \in Keys /\ op[p].todo \subseteq Rids \X Groups
           /\ op[p] # NoOp => op[p].key \in Keys
           /\ op[p].at = "idle" <=> op[p] = NoOp
  BY DEF ChatTypeOK, Ops, NoOp

(* The operations a goroutine can be sent to are well formed.              *)
LEMMA OpTyped ==
    /\ NoOp \in Ops
    /\ \A k \in Keys : [at |-> "session_del", key |-> k] \in Ops
    /\ \A k \in Keys, r \in Rids, g \in Groups :
          Joining("room_add", k, r, g) \in Ops /\ Joining("group_join", k, r, g) \in Ops
    /\ \A k \in Keys, t \in SUBSET (Rids \X Groups) : Removing(k, t) \in Ops
  BY DEF Ops, Joining, Removing

(* Every variable keeps its type.                                          *)
LEMMA TypeStep == ChatTypeOK /\ [ChatNext]_chatVars => ChatTypeOK'
  <1> SUFFICES ASSUME ChatTypeOK, [ChatNext]_chatVars PROVE ChatTypeOK'
    OBVIOUS
  <1> USE DEF ChatTypeOK, tabs, Goto, Begin
  <1>1. ASSUME NEW p \in Procs, NEW k \in Keys, NEW r \in Rids, NEW g \in Groups,
               session_join_room(p, r, g, k)
        PROVE  ChatTypeOK'
    <2>1. Joining("room_add", k, r, g) \in Ops
      BY OpTyped
    <2>2. room' \in [Keys -> [Rids -> Groups \cup {NoGid}]]
      BY <1>1 DEF session_join_room
    <2> QED BY <1>1, <2>1, <2>2 DEF session_join_room
  <1>2. ASSUME NEW p \in Procs, room_add(p) PROVE ChatTypeOK'
    <2>1. /\ op[p].rid \in Rids
          /\ Joining("group_join", op[p].key, op[p].rid, op[p].gid) \in Ops
      BY <1>2, OpFields, OpTyped DEF room_add
    <2>2. group_num' \in [Rids \X Groups -> Int]
      BY <1>2, <2>1 DEF room_add
    <2> QED BY <1>2, <2>1, <2>2 DEF room_add
  <1>3. ASSUME NEW p \in Procs, room_query_nil(p) PROVE ChatTypeOK'
    BY <1>3, OpFields, OpTyped DEF room_query_nil
  <1>4. ASSUME NEW p \in Procs, group_join(p) PROVE ChatTypeOK'
    <2>1. /\ op[p].rid \in Rids /\ op[p].gid \in Groups /\ op[p].key \in Keys
          /\ NoOp \in Ops
      BY <1>4, OpFields DEF group_join, Ops
    <2>2. op' \in [Procs -> Ops]
      BY <1>4, <2>1 DEF group_join, Goto
    <2>3. sid_list' \subseteq Rids \X Groups \X Keys
      BY <1>4, <2>1 DEF group_join
    <2>4. room_num' \in [Rids -> Int] /\ group_num' \in [Rids \X Groups -> Int]
      BY <1>4, <2>1 DEF group_join
    <2> QED BY <1>4, <2>2, <2>3, <2>4 DEF group_join
  <1>5. ASSUME NEW p \in Procs, NEW k \in Keys, NEW r \in Rids, session_quit_room(p, r, k)
        PROVE  ChatTypeOK'
    <2>1. room[k][r] # NoGid => {<<r, room[k][r]>>} \in SUBSET (Rids \X Groups)
      OBVIOUS
    <2>2. room[k][r] # NoGid => Removing(k, {<<r, room[k][r]>>}) \in Ops
      BY <2>1, OpTyped
    <2> QED BY <1>5, <2>2 DEF session_quit_room
  <1>6. ASSUME NEW p \in Procs, NEW k \in Keys, SessionDel(p, k) PROVE ChatTypeOK'
    BY <1>6, OpTyped DEF SessionDel
  <1>7. ASSUME NEW p \in Procs, session_del(p) PROVE ChatTypeOK'
    <2> DEFINE k == op[p].key
               t == {<<r, room[k][r]>> : r \in {r \in Rids : room[k][r] # NoGid}}
    <2>1. k \in Keys
      BY <1>7, OpFields DEF session_del
    <2>2. t \in SUBSET (Rids \X Groups)
      BY <2>1
    <2>3. Removing(k, t) \in Ops /\ NoOp \in Ops
      BY <2>1, <2>2 DEF Removing, Ops
    <2>4. NoRooms \in [Rids -> Groups \cup {NoGid}]
      BY DEF NoRooms
    <2> QED BY <1>7, <2>1, <2>3, <2>4 DEF session_del
  <1>8. ASSUME NEW p \in Procs, room_del_session(p) PROVE ChatTypeOK'
    <2> PICK rg \in op[p].todo : room_del_session(p)!2!(rg)
      BY <1>8 DEF room_del_session
    <2>1. rg \in Rids \X Groups /\ op[p].key \in Keys
      BY <1>8, OpFields DEF room_del_session
    <2>2. Removing(op[p].key, op[p].todo \ {rg}) \in Ops
      BY <1>8, <2>1, OpFields, OpTyped DEF room_del_session
    <2> QED BY <1>8, <2>1, <2>2 DEF room_del_session
  <1>9. ASSUME NEW p \in Procs, room_del_return(p) PROVE ChatTypeOK'
    BY <1>9 DEF room_del_return, Ops
  <1>10. ASSUME NEW p \in Procs, NEW k \in Keys, SessionSetParam(p, k) PROVE ChatTypeOK'
    BY <1>10 DEF SessionSetParam
  <1>11. CASE Clean
    BY <1>11 DEF Clean
  <1>12. ASSUME NEW r \in Rids, clean_scan(r) PROVE ChatTypeOK'
    BY <1>12 DEF clean_scan
  <1>13. ASSUME NEW r \in Rids, clean_del(r) PROVE ChatTypeOK'
    BY <1>13 DEF clean_del
  <1>14. CASE UNCHANGED chatVars
    BY <1>14 DEF chatVars
  <1> QED
    BY <1>1, <1>2, <1>3, <1>4, <1>5, <1>6, <1>7, <1>8, <1>9, <1>10, <1>11, <1>12, <1>13, <1>14
       DEF ChatNext, CleanStep, Call, Step, JoinStep, DelStep

(* Type correctness of the tables and of the operations in progress.       *)
THEOREM ChatTabTyped == ChatSpec => []ChatTypeOK
  <1>1. ChatInit => ChatTypeOK
    BY DEF ChatInit, ChatTypeOK, Ops, NoRooms
  <1> QED BY <1>1, TypeStep, PTL DEF ChatSpec

----------------------------------------------------------------------------
(* The member lists are finite, which makes their sizes numbers.           *)
CountersInv == IsFiniteSet(sid_list) /\ CountersExact

(* One more member in, one more counted, in its room and in its group.     *)
LEMMA CountInsert ==
    ASSUME ChatTypeOK, CountersInv,
           NEW r \in Rids, NEW g \in Groups, NEW k \in Keys,
           r \in rooms, rooms' = rooms,
           <<r, g, k>> \notin sid_list,
           sid_list' = sid_list \cup {<<r, g, k>>},
           room_num' = [room_num EXCEPT ![r] = @ + 1],
           group_num' = [group_num EXCEPT ![<<r, g>>] = @ + 1]
    PROVE  CountersInv'
  <1> DEFINE m == <<r, g, k>>
  <1> USE DEF ChatTypeOK
  <1>1. IsFiniteSet(sid_list')
    BY FS_AddElement DEF CountersInv
  <1>2. ASSUME NEW q \in rooms
        PROVE  room_num'[q] = Cardinality(MembersOf(q)')
    <2>1. CASE q = r
      <3>1. MembersOf(q)' = MembersOf(q) \cup {m} /\ m \notin MembersOf(q)
        BY <2>1 DEF MembersOf
      <3>2. IsFiniteSet(MembersOf(q))
        BY FS_Subset DEF CountersInv, MembersOf
      <3>3. Cardinality(MembersOf(q)') = Cardinality(MembersOf(q)) + 1
        BY <3>1, <3>2, FS_AddElement
      <3> QED BY <2>1, <3>3 DEF CountersInv, CountersExact
    <2>2. CASE q # r
      <3>1. MembersOf(q)' = MembersOf(q)
        BY <2>2 DEF MembersOf
      <3> QED BY <2>2, <3>1 DEF CountersInv, CountersExact
    <2> QED BY <2>1, <2>2
  <1>3. ASSUME NEW q \in rooms, NEW h \in Groups
        PROVE  group_num'[<<q, h>>] = Cardinality(MembersOfGroup(q, h)')
    <2>1. CASE q = r /\ h = g
      <3>1. MembersOfGroup(q, h)' = MembersOfGroup(q, h) \cup {m} /\ m \notin MembersOfGroup(q, h)
        BY <2>1 DEF MembersOfGroup
      <3>2. IsFiniteSet(MembersOfGroup(q, h))
        BY FS_Subset DEF CountersInv, MembersOfGroup
      <3>3. Cardinality(MembersOfGroup(q, h)') = Cardinality(MembersOfGroup(q, h)) + 1
        BY <3>1, <3>2, FS_AddElement
      <3> QED BY <2>1, <3>3 DEF CountersInv, CountersExact
    <2>2. CASE ~(q = r /\ h = g)
      <3>1. MembersOfGroup(q, h)' = MembersOfGroup(q, h)
        BY <2>2 DEF MembersOfGroup
      <3>2. group_num'[<<q, h>>] = group_num[<<q, h>>]
        BY <2>2
      <3> QED BY <3>1, <3>2 DEF CountersInv, CountersExact
    <2> QED BY <2>1, <2>2
  <1>4. ASSUME NEW q \in Rids \ rooms PROVE MembersOf(q)' = {}
    <2>1. MembersOf(q)' = MembersOf(q)
      BY <1>4 DEF MembersOf
    <2> QED BY <2>1 DEF CountersInv, CountersExact
  <1> QED BY <1>1, <1>2, <1>3, <1>4 DEF CountersInv, CountersExact

(* One member out, one less counted.                                       *)
LEMMA CountRemove ==
    ASSUME ChatTypeOK, CountersInv,
           NEW r \in Rids, NEW g \in Groups, NEW k \in Keys,
           rooms' = rooms,
           <<r, g, k>> \in sid_list,
           sid_list' = sid_list \ {<<r, g, k>>},
           room_num' = [room_num EXCEPT ![r] = @ - 1],
           group_num' = [group_num EXCEPT ![<<r, g>>] = @ - 1]
    PROVE  CountersInv'
  <1> DEFINE m == <<r, g, k>>
  <1> USE DEF ChatTypeOK
  <1>1. IsFiniteSet(sid_list')
    BY FS_RemoveElement DEF CountersInv
  <1>2. ASSUME NEW q \in rooms
        PROVE  room_num'[q] = Cardinality(MembersOf(q)')
    <2>1. CASE q = r
      <3>1. MembersOf(q)' = MembersOf(q) \ {m} /\ m \in MembersOf(q)
        BY <2>1 DEF MembersOf
      <3>2. IsFiniteSet(MembersOf(q))
        BY FS_Subset DEF CountersInv, MembersOf
      <3>3. Cardinality(MembersOf(q)') = Cardinality(MembersOf(q)) - 1
        BY <3>1, <3>2, FS_RemoveElement
      <3> QED BY <2>1, <3>3 DEF CountersInv, CountersExact
    <2>2. CASE q # r
      <3>1. MembersOf(q)' = MembersOf(q)
        BY <2>2 DEF MembersOf
      <3> QED BY <2>2, <3>1 DEF CountersInv, CountersExact
    <2> QED BY <2>1, <2>2
  <1>3. ASSUME NEW q \in rooms, NEW h \in Groups
        PROVE  group_num'[<<q, h>>] = Cardinality(MembersOfGroup(q, h)')
    <2>1. CASE q = r /\ h = g
      <3>1. MembersOfGroup(q, h)' = MembersOfGroup(q, h) \ {m} /\ m \in MembersOfGroup(q, h)
        BY <2>1 DEF MembersOfGroup
      <3>2. IsFiniteSet(MembersOfGroup(q, h))
        BY FS_Subset DEF CountersInv, MembersOfGroup
      <3>3. Cardinality(MembersOfGroup(q, h) \ {m}) = Cardinality(MembersOfGroup(q, h)) - 1
        BY <3>1, <3>2, FS_RemoveElement
      <3> QED BY <2>1, <3>1, <3>3 DEF CountersInv, CountersExact
    <2>2. CASE ~(q = r /\ h = g)
      <3>1. MembersOfGroup(q, h)' = MembersOfGroup(q, h)
        BY <2>2 DEF MembersOfGroup
      <3>2. group_num'[<<q, h>>] = group_num[<<q, h>>]
        BY <2>2
      <3> QED BY <3>1, <3>2 DEF CountersInv, CountersExact
    <2> QED BY <2>1, <2>2
  <1>4. ASSUME NEW q \in Rids \ rooms PROVE MembersOf(q)' = {}
    BY <1>4 DEF MembersOf, CountersInv, CountersExact
  <1> QED BY <1>1, <1>2, <1>3, <1>4 DEF CountersInv, CountersExact

(* Nothing that is counted, no list and no counter changes.                *)
LEMMA CountSame ==
    ASSUME CountersInv, rooms' = rooms, sid_list' = sid_list,
           room_num' = room_num, group_num' = group_num
    PROVE  CountersInv'
  <1>1. /\ \A q : MembersOf(q)' = MembersOf(q)
        /\ \A q, h : MembersOfGroup(q, h)' = MembersOfGroup(q, h)
    BY DEF MembersOf, MembersOfGroup
  <1> QED BY <1>1 DEF CountersInv, CountersExact

(* A room Clean may remove has no members.                                 *)
LEMMA EmptyRoom ==
    ASSUME CountersInv, NEW r \in rooms, room_num[r] = 0
    PROVE  MembersOf(r) = {}
  <1>1. IsFiniteSet(MembersOf(r))
    BY FS_Subset DEF CountersInv, MembersOf
  <1> QED BY <1>1, FS_EmptySet DEF CountersInv, CountersExact

LEMMA CountersStep == ChatTypeOK /\ CountersInv /\ [ChatNext]_chatVars => CountersInv'
  <1> SUFFICES ASSUME ChatTypeOK, CountersInv, [ChatNext]_chatVars PROVE CountersInv'
    OBVIOUS
  <1>1. ASSUME NEW p \in Procs, room_add(p) PROVE CountersInv'
    <2> DEFINE r == op[p].rid
    <2>1. r \in Rids
      BY <1>1, OpFields DEF room_add
    <2>2. CASE r \in rooms
      BY <1>1, <2>2, CountSame DEF room_add
    <2>3. CASE r \notin rooms
      <3>1. /\ \A q : MembersOf(q)' = MembersOf(q)
            /\ \A q, h : MembersOfGroup(q, h)' = MembersOfGroup(q, h)
        BY <1>1 DEF room_add, MembersOf, MembersOfGroup
      <3>2. MembersOf(r) = {} /\ \A h : MembersOfGroup(r, h) = {}
        BY <2>1, <2>3 DEF CountersInv, CountersExact, MembersOf, MembersOfGroup
      <3>3. /\ rooms' = rooms \cup {r}
            /\ room_num' = [room_num EXCEPT ![r] = 0]
            /\ \A q \in Rids, h \in Groups :
                  group_num'[<<q, h>>] = IF q = r THEN 0 ELSE group_num[<<q, h>>]
            /\ sid_list' = sid_list
        BY <1>1, <2>3 DEF room_add
      <3>4. ASSUME NEW q \in rooms' PROVE room_num'[q] = Cardinality(MembersOf(q)')
        BY <2>1, <3>1, <3>2, <3>3, FS_EmptySet DEF CountersInv, CountersExact, ChatTypeOK
      <3>5. ASSUME NEW q \in rooms', NEW h \in Groups
            PROVE  group_num'[<<q, h>>] = Cardinality(MembersOfGroup(q, h)')
        BY <2>1, <3>1, <3>2, <3>3, FS_EmptySet DEF CountersInv, CountersExact, ChatTypeOK
      <3>6. ASSUME NEW q \in Rids \ rooms' PROVE MembersOf(q)' = {}
        BY <3>1, <3>3 DEF CountersInv, CountersExact
      <3> QED BY <3>3, <3>4, <3>5, <3>6 DEF CountersInv, CountersExact
    <2> QED BY <2>2, <2>3
  <1>2. ASSUME NEW p \in Procs, group_join(p) PROVE CountersInv'
    <2>1. op[p].rid \in Rids /\ op[p].gid \in Groups /\ op[p].key \in Keys
      BY <1>2, OpFields DEF group_join
    <2>2. CASE <<op[p].rid, op[p].gid, op[p].key>> \in sid_list
      BY <1>2, <2>2, CountSame DEF group_join
    <2>3. CASE <<op[p].rid, op[p].gid, op[p].key>> \notin sid_list
      BY <1>2, <2>1, <2>3, CountInsert DEF group_join
    <2> QED BY <2>2, <2>3
  <1>3. ASSUME NEW p \in Procs, room_del_session(p) PROVE CountersInv'
    <2> PICK rg \in op[p].todo : room_del_session(p)!2!(rg)
      BY <1>3 DEF room_del_session
    <2>1. rg \in Rids \X Groups /\ op[p].key \in Keys /\ rooms' = rooms
      BY <1>3, OpFields DEF room_del_session
    <2>2. rg[1] \in Rids /\ rg[2] \in Groups /\ rg = <<rg[1], rg[2]>>
      BY <2>1
    <2>3. CASE rg[1] \in rooms /\ <<rg[1], rg[2], op[p].key>> \in sid_list
      BY <2>1, <2>2, <2>3, CountRemove
    <2>4. CASE ~(rg[1] \in rooms /\ <<rg[1], rg[2], op[p].key>> \in sid_list)
      BY <2>1, <2>4, CountSame
    <2> QED BY <2>3, <2>4
  <1>4. ASSUME NEW r \in Rids, clean_del(r) PROVE CountersInv'
    <2>1. CASE r \in rooms /\ room_num[r] = 0
      <3>1. MembersOf(r) = {}
        BY <2>1, EmptyRoom
      <3>2. sid_list' = sid_list
        BY <1>4, <2>1, <3>1 DEF clean_del, MembersOf
      <3>3. /\ \A q : MembersOf(q)' = MembersOf(q)
            /\ \A q, h : MembersOfGroup(q, h)' = MembersOfGroup(q, h)
        BY <3>2 DEF MembersOf, MembersOfGroup
      <3>4. rooms' = rooms \ {r} /\ room_num' = room_num /\ group_num' = group_num
        BY <1>4, <2>1 DEF clean_del
      <3> QED BY <3>1, <3>2, <3>3, <3>4 DEF CountersInv, CountersExact
    <2>2. CASE ~(r \in rooms /\ room_num[r] = 0)
      BY <1>4, <2>2, CountSame DEF clean_del
    <2> QED BY <2>1, <2>2
  <1>5. ASSUME UNCHANGED <<rooms, sid_list, room_num, group_num>> PROVE CountersInv'
    BY <1>5, CountSame
  <1> QED
    BY <1>1, <1>2, <1>3, <1>4, <1>5
       DEF ChatNext, CleanStep, Call, Step, JoinStep, DelStep, chatVars, tabs, session_join_room,
           room_query_nil, session_quit_room, SessionDel, session_del, room_del_return,
           SessionSetParam, Clean, clean_scan

(* The counters a node reports are exact, whatever interleaves.            *)
THEOREM Counters == ChatSpec => []CountersExact
  <1>1. ChatInit => CountersInv
    BY FS_EmptySet DEF ChatInit, CountersInv, CountersExact, MembersOf, MembersOfGroup
  <1>2. CountersInv => CountersExact
    BY DEF CountersInv
  <1> QED BY <1>1, <1>2, CountersStep, ChatTabTyped, PTL DEF ChatSpec

(* Clean never removes a room that has members.                            *)
THEOREM CleanSafe == ChatSpec => CleanKeepsMembers
  <1>1. ChatInit => CountersInv
    BY FS_EmptySet DEF ChatInit, CountersInv, CountersExact, MembersOf, MembersOfGroup
  <1>2. ASSUME CountersInv, ChatNext
        PROVE  \A r \in rooms \ rooms' : MembersOf(r) = {}
    <2>1. ASSUME NEW r \in Rids, clean_del(r)
          PROVE  \A q \in rooms \ rooms' : MembersOf(q) = {}
      BY <1>2, <2>1, EmptyRoom DEF clean_del
    <2>2. ASSUME NEW p \in Procs, room_add(p) PROVE rooms \subseteq rooms'
      BY <2>2 DEF room_add
    <2>3. (\E r \in Rids : clean_del(r)) \/ (\E p \in Procs : room_add(p)) \/ rooms' = rooms
      BY <1>2 DEF ChatNext, CleanStep, Call, Step, JoinStep, DelStep, tabs, session_join_room,
           room_query_nil, group_join, session_quit_room, SessionDel, session_del,
           room_del_session, room_del_return, SessionSetParam, Clean, clean_scan
    <2> QED BY <2>1, <2>2, <2>3
  <1>3. CountersInv /\ [ChatNext]_chatVars => [\A r \in rooms \ rooms' : MembersOf(r) = {}]_chatVars
    BY <1>2
  <1> QED BY <1>1, <1>3, CountersStep, ChatTabTyped, PTL DEF ChatSpec, CleanKeepsMembers

----------------------------------------------------------------------------
(* A key an operation begins on and that stays unraced was not busy.       *)
LEMMA BeginQuiet ==
    ASSUME ChatTypeOK, NEW p \in Procs, NEW k \in Keys, Begin(p, k)
    PROVE  /\ op[p] = NoOp
           /\ raced \subseteq raced'
           /\ k \notin raced' => Pending(k) = {}
  BY DEF Begin, Busy, Pending

(* A step of p on another key does not disturb the agreement about k.      *)
LEMMA AgreeOther ==
    ASSUME ChatTypeOK, MembershipAgrees, NEW p \in Procs,
           NEW k \in Keys \ raced, NEW r \in Rids, NEW g \in Groups,
           op[p] = NoOp \/ op[p].key # k,
           \A q \in Procs \ {p} : op'[q] = op[q],
           room'[k] = room[k],
           <<r, g, k>> \in sid_list' <=> <<r, g, k>> \in sid_list
    PROVE  Agree(k, r, g)'
  <1>1. Agree(k, r, g)
    BY DEF MembershipAgrees
  <1>2. ~ Leaving(p, k, r, g) /\ ~ Entering(p, k, r, g)
    BY DEF Leaving, Entering, NoOp
  <1>3. \A q \in Procs \ {p} : /\ Leaving(q, k, r, g)' <=> Leaving(q, k, r, g)
                              /\ Entering(q, k, r, g)' <=> Entering(q, k, r, g)
    BY DEF Leaving, Entering
  <1> QED BY <1>1, <1>2, <1>3 DEF Agree, Leaving, Entering

(* A step that leaves operations, room maps and member lists alone.        *)
LEMMA MembershipSame ==
    ASSUME MembershipInv, UNCHANGED <<room, sid_list, op>>,
           sessions \subseteq sessions', raced \subseteq raced'
    PROVE  MembershipInv'
  BY DEF MembershipInv, AbsentIsEmpty, OneAtATime, JoinEntered, DelLeft, MembershipAgrees,
         Pending, Agree, Leaving, Entering

LEMMA MembershipStep == ChatTypeOK /\ CountersInv /\ MembershipInv /\ [ChatNext]_chatVars => MembershipInv'
  <1> SUFFICES ASSUME ChatTypeOK, CountersInv, MembershipInv, [ChatNext]_chatVars PROVE MembershipInv'
    OBVIOUS
  <1> USE DEF MembershipInv, AbsentIsEmpty, OneAtATime, JoinEntered, DelLeft,
              MembershipAgrees, Pending, tabs, Goto
  <1>1. ASSUME NEW p \in Procs, NEW k \in Keys, NEW r \in Rids, NEW g \in Groups,
               session_join_room(p, r, g, k)
        PROVE  MembershipInv'
    <2>1. op[p] = NoOp /\ raced \subseteq raced' /\ (k \notin raced' => Pending(k) = {})
      BY <1>1, BeginQuiet DEF session_join_room
    <2>2. CASE room[k][r] \in {NoGid, g}
      <3>1. /\ sessions' = sessions \cup {k}
            /\ room' = [room EXCEPT ![k][r] = g]
            /\ op' = [op EXCEPT ![p] = Joining("room_add", k, r, g)]
            /\ sid_list' = sid_list
        BY <1>1, <2>2 DEF session_join_room
      <3>2. AbsentIsEmpty'
        BY <3>1 DEF ChatTypeOK
      <3>3. OneAtATime'
        BY <2>1, <3>1 DEF ChatTypeOK, Joining
      <3>4. JoinEntered'
        BY <2>1, <3>1, OpFields DEF ChatTypeOK, Joining
      <3>5. DelLeft'
        BY <2>1, <3>1, OpFields DEF ChatTypeOK, Joining
      <3>6. ASSUME NEW j \in Keys \ raced', NEW q \in Rids, NEW h \in Groups
            PROVE  Agree(j, q, h)'
        <4>1. CASE j # k
          BY <2>1, <3>1, <4>1, AgreeOther DEF ChatTypeOK
        <4>2. CASE j = k
          <5>1. Agree(k, q, h) /\ \A o \in Procs : ~Leaving(o, k, q, h) /\ ~Entering(o, k, q, h)
            BY <2>1, <4>2 DEF Leaving, Entering, NoOp
          <5>2. q = r /\ h = g => Entering(p, k, q, h)'
            BY <3>1 DEF ChatTypeOK, Entering, Joining
          <5> QED BY <2>2, <3>1, <4>2, <5>1, <5>2, ChatTabAssumption DEF ChatTypeOK, Agree
        <4> QED BY <4>1, <4>2
      <3> QED BY <3>2, <3>3, <3>4, <3>5, <3>6
    <2>3. CASE room[k][r] \notin {NoGid, g}
      BY <1>1, <2>1, <2>3, MembershipSame DEF session_join_room
    <2> QED BY <2>2, <2>3
  <1>2. ASSUME NEW p \in Procs, NEW a \in {"room_add", "group_join"},
               op[p].at \in {"room_add", "group_join"},
               op' = [op EXCEPT ![p] = Joining(a, op[p].key, op[p].rid, op[p].gid)],
               UNCHANGED <<sessions, room, sid_list, raced>>
        PROVE  MembershipInv'
    <2>1. /\ op'[p].key = op[p].key /\ op'[p].rid = op[p].rid /\ op'[p].gid = op[p].gid
          /\ op'[p].at \in {"room_add", "group_join"}
          /\ op[p] # NoOp /\ op'[p] # NoOp
          /\ \A q \in Procs \ {p} : op'[q] = op[q]
      BY <1>2 DEF ChatTypeOK, Joining, NoOp
    <2>2. AbsentIsEmpty' /\ OneAtATime'
      BY <1>2, <2>1
    <2>3. JoinEntered'
      BY <1>2, <2>1
    <2>4. DelLeft'
      BY <1>2, <2>1
    <2>5. ASSUME NEW j \in Keys \ raced', NEW q \in Rids, NEW h \in Groups
          PROVE  Agree(j, q, h)'
      <3>1. Agree(j, q, h)
        BY <1>2
      <3> QED BY <1>2, <2>1, <3>1 DEF Agree, Leaving, Entering
    <2> QED BY <2>2, <2>3, <2>4, <2>5
  <1>3. ASSUME NEW p \in Procs, group_join(p) PROVE MembershipInv'
    <2>1. /\ sid_list' = sid_list \cup {<<op[p].rid, op[p].gid, op[p].key>>}
          /\ op' = [op EXCEPT ![p] = NoOp]
          /\ UNCHANGED <<sessions, room, raced>>
      BY <1>3 DEF group_join
    <2>2. op[p].at = "group_join" /\ op[p] # NoOp
      BY <1>3 DEF group_join, NoOp
    <2>3. AbsentIsEmpty' /\ OneAtATime' /\ JoinEntered' /\ DelLeft'
      BY <2>1 DEF ChatTypeOK, NoOp
    <2>4. ASSUME NEW j \in Keys \ raced', NEW q \in Rids, NEW h \in Groups
          PROVE  Agree(j, q, h)'
      <3>1. CASE j # op[p].key
        BY <2>1, <3>1, AgreeOther DEF ChatTypeOK
      <3>2. CASE j = op[p].key
        <4>1. Agree(j, q, h) /\ room[j][op[p].rid] = op[p].gid
          BY <2>1, <2>2, <3>2
        <4>2. \A o \in Procs : ~Leaving(o, j, q, h)
          BY <2>1, <2>2, <3>2 DEF Leaving, NoOp
        <4>3. \A o \in Procs : Entering(o, j, q, h) => q = op[p].rid /\ h = op[p].gid
          BY <2>1, <2>2, <3>2 DEF Entering, NoOp
        <4> QED BY <2>1, <3>2, <4>1, <4>2, <4>3 DEF Agree
      <3> QED BY <3>1, <3>2
    <2> QED BY <2>3, <2>4
  <1>4. ASSUME NEW p \in Procs, NEW k \in Keys, NEW r \in Rids, session_quit_room(p, r, k)
        PROVE  MembershipInv'
    <2>1. op[p] = NoOp /\ raced \subseteq raced' /\ (k \notin raced' => Pending(k) = {})
      BY <1>4, BeginQuiet DEF session_quit_room
    <2>2. CASE k \in sessions /\ room[k][r] # NoGid
      <3>1. /\ room' = [room EXCEPT ![k][r] = NoGid]
            /\ op' = [op EXCEPT ![p] = Removing(k, {<<r, room[k][r]>>})]
            /\ sid_list' = sid_list /\ sessions' = sessions
        BY <1>4, <2>2 DEF session_quit_room
      <3>2. AbsentIsEmpty'
        BY <2>2, <3>1 DEF ChatTypeOK
      <3>3. OneAtATime'
        BY <2>1, <3>1 DEF ChatTypeOK, Removing
      <3>4. JoinEntered'
        BY <2>1, <3>1, OpFields DEF ChatTypeOK, Removing
      <3>5. DelLeft'
        BY <2>1, <3>1, OpFields DEF ChatTypeOK, Removing
      <3>6. ASSUME NEW j \in Keys \ raced', NEW q \in Rids, NEW h \in Groups
            PROVE  Agree(j, q, h)'
        <4>1. CASE j # k
          BY <2>1, <3>1, <4>1, AgreeOther DEF ChatTypeOK
        <4>2. CASE j = k
          <5>1. Agree(k, q, h) /\ \A o \in Procs : ~Leaving(o, k, q, h) /\ ~Entering(o, k, q, h)
            BY <2>1, <4>2 DEF Leaving, Entering, NoOp
          <5>2. q = r /\ h = room[k][r] => Leaving(p, k, q, h)'
            BY <3>1 DEF ChatTypeOK, Leaving, Removing
          <5> QED BY <2>2, <3>1, <4>2, <5>1, <5>2, ChatTabAssumption DEF ChatTypeOK, Agree
        <4> QED BY <4>1, <4>2
      <3> QED BY <3>2, <3>3, <3>4, <3>5, <3>6
    <2>3. CASE ~(k \in sessions /\ room[k][r] # NoGid)
      BY <1>4, <2>1, <2>3, MembershipSame DEF session_quit_room
    <2> QED BY <2>2, <2>3
  <1>5. ASSUME NEW p \in Procs, NEW k \in Keys, SessionDel(p, k) PROVE MembershipInv'
    <2>1. op[p] = NoOp /\ raced \subseteq raced' /\ (k \notin raced' => Pending(k) = {})
      BY <1>5, BeginQuiet DEF SessionDel
    <2>2. /\ op' = [op EXCEPT ![p] = [at |-> "session_del", key |-> k]]
          /\ UNCHANGED <<sessions, room, sid_list>>
      BY <1>5 DEF SessionDel
    <2>3. AbsentIsEmpty' /\ OneAtATime' /\ JoinEntered' /\ DelLeft'
      BY <2>1, <2>2 DEF ChatTypeOK
    <2>4. ASSUME NEW j \in Keys \ raced', NEW q \in Rids, NEW h \in Groups
          PROVE  Agree(j, q, h)'
      BY <2>1, <2>2, AgreeOther DEF ChatTypeOK
    <2> QED BY <2>3, <2>4
  <1>6. ASSUME NEW p \in Procs, session_del(p) PROVE MembershipInv'
    <2> PICK k \in Keys : k = op[p].key
      BY <1>6, OpFields DEF session_del
    <2> DEFINE t == {<<r, room[k][r]>> : r \in {r \in Rids : room[k][r] # NoGid}}
    <2>1. k \in Keys /\ op[p].at = "session_del" /\ op[p] # NoOp
      BY <1>6, OpFields DEF session_del, NoOp
    <2>2. CASE k \in sessions
      <3>1. /\ sessions' = sessions \ {k}
            /\ room' = [room EXCEPT ![k] = NoRooms]
            /\ op' = [op EXCEPT ![p] = Removing(k, t)]
            /\ sid_list' = sid_list /\ raced' = raced
        BY <1>6, <2>2 DEF session_del
      <3>2. \A r \in Rids : room'[k][r] = NoGid
        BY <2>1, <3>1 DEF ChatTypeOK, NoRooms
      <3>3. /\ \A rg \in t : rg[1] \in Rids
            /\ \A r \in Rids, g \in Groups : room[k][r] = g => <<r, g>> \in t
        BY ChatTabAssumption
      <3>4. AbsentIsEmpty'
        BY <2>1, <3>1 DEF ChatTypeOK
      <3>5. OneAtATime'
        BY <2>1, <3>1 DEF ChatTypeOK, Removing
      <3>6. k \notin raced => \A q \in Procs : q # p /\ op[q] # NoOp => op[q].key # k
        BY <2>1
      <3>7. JoinEntered'
        BY <2>1, <3>1, <3>6, OpFields DEF ChatTypeOK, Removing, NoOp
      <3>8. DelLeft'
        BY <2>1, <3>1, <3>2, <3>3, <3>6, OpFields DEF ChatTypeOK, Removing, NoOp
      <3>9. ASSUME NEW j \in Keys \ raced', NEW q \in Rids, NEW h \in Groups
            PROVE  Agree(j, q, h)'
        <4>1. CASE j # k
          BY <2>1, <3>1, <4>1, AgreeOther DEF ChatTypeOK
        <4>2. CASE j = k
          <5>1. Agree(k, q, h) /\ \A o \in Procs : ~Leaving(o, k, q, h) /\ ~Entering(o, k, q, h)
            BY <2>1, <3>1, <3>6, <4>2 DEF Leaving, Entering, NoOp
          <5>2. <<q, h>> \in t => Leaving(p, k, q, h)'
            BY <3>1 DEF ChatTypeOK, Leaving, Removing
          <5>3. <<q, h, k>> \in sid_list => <<q, h>> \in t
            BY <3>3, <5>1 DEF Agree
          <5>4. room'[k][q] # h
            BY <3>2, ChatTabAssumption
          <5>5. <<q, h, k>> \in sid_list' => \E o \in Procs : Leaving(o, k, q, h)'
            BY <3>1, <5>2, <5>3
          <5> QED BY <4>2, <5>4, <5>5 DEF Agree, Leaving
        <4> QED BY <4>1, <4>2
      <3> QED BY <3>4, <3>5, <3>7, <3>8, <3>9
    <2>3. CASE k \notin sessions
      <3>1. op' = [op EXCEPT ![p] = NoOp] /\ UNCHANGED <<sessions, room, sid_list, raced>>
        BY <1>6, <2>3 DEF session_del
      <3>2. AbsentIsEmpty' /\ OneAtATime' /\ JoinEntered' /\ DelLeft'
        BY <3>1 DEF ChatTypeOK, NoOp
      <3>3. ASSUME NEW j \in Keys \ raced', NEW q \in Rids, NEW h \in Groups
            PROVE  Agree(j, q, h)'
        <4>1. Agree(j, q, h) /\ ~Leaving(p, j, q, h) /\ ~Entering(p, j, q, h)
          BY <2>1, <3>1 DEF Leaving, Entering
        <4>2. \A o \in Procs \ {p} : op'[o] = op[o]
          BY <3>1 DEF ChatTypeOK
        <4> QED BY <3>1, <4>1, <4>2 DEF Agree, Leaving, Entering
      <3> QED BY <3>2, <3>3
    <2> QED BY <2>2, <2>3
  <1>7. ASSUME NEW p \in Procs, room_del_session(p) PROVE MembershipInv'
    <2> PICK rg \in op[p].todo : room_del_session(p)!2!(rg)
      BY <1>7 DEF room_del_session
    <2> PICK k \in Keys : k = op[p].key
      BY <1>7, OpFields DEF room_del_session
    <2>1. rg \in Rids \X Groups /\ k \in Keys /\ op[p].at = "room_del" /\ op[p] # NoOp
      BY <1>7, OpFields DEF room_del_session, NoOp
    <2>2. /\ UNCHANGED <<sessions, room, raced>>
          /\ op' = [op EXCEPT ![p] = Removing(k, op[p].todo \ {rg})]
      BY <1>7 DEF room_del_session
    <2>3. sid_list' = sid_list \ {<<rg[1], rg[2], k>>}
      BY <2>1 DEF CountersInv, CountersExact, MembersOf
    <2>4. AbsentIsEmpty' /\ OneAtATime'
      BY <2>1, <2>2 DEF ChatTypeOK, Removing
    <2>5. JoinEntered'
      BY <2>1, <2>2 DEF ChatTypeOK, Removing
    <2>6. DelLeft'
      BY <2>1, <2>2 DEF ChatTypeOK, Removing
    <2>7. ASSUME NEW j \in Keys \ raced', NEW q \in Rids, NEW h \in Groups
          PROVE  Agree(j, q, h)'
      <3>1. CASE j # k
        BY <2>1, <2>2, <2>3, <3>1, AgreeOther DEF ChatTypeOK
      <3>2. CASE j = k
        <4>1. Agree(k, q, h) /\ room[k][rg[1]] = NoGid
          BY <2>1, <2>2, <3>2
        <4>2. \A o \in Procs : ~Entering(o, k, q, h)
          BY <2>1, <2>2, <3>2 DEF Entering, NoOp
        <4>3. \A o \in Procs : Leaving(o, k, q, h) => o = p /\ <<q, h>> \in op[p].todo
          BY <2>1, <2>2, <3>2 DEF Leaving, NoOp
        <4>4. <<q, h>> \in op[p].todo /\ <<q, h>> # rg => Leaving(p, k, q, h)'
          BY <2>1, <2>2 DEF ChatTypeOK, Leaving, Removing
        <4>5. rg = <<rg[1], rg[2]>> /\ rg[2] \in Groups
          BY <2>1
        <4>6. room[k][q] = h => <<q, h, k>> \in sid_list'
          BY <2>3, <4>1, <4>2, <4>5, ChatTabAssumption DEF Agree
        <4>7. <<q, h, k>> \in sid_list' => room[k][q] = h \/ Leaving(p, k, q, h)'
          BY <2>3, <4>1, <4>3, <4>4, <4>5 DEF Agree
        <4> QED BY <2>2, <3>2, <4>6, <4>7 DEF Agree, Leaving
      <3> QED BY <3>1, <3>2
    <2> QED BY <2>4, <2>5, <2>6, <2>7
  <1>8. ASSUME NEW p \in Procs, room_del_return(p) PROVE MembershipInv'
    <2>1. /\ op[p].at = "room_del" /\ op[p].todo = {} /\ op' = [op EXCEPT ![p] = NoOp]
          /\ UNCHANGED <<sessions, room, sid_list, raced>>
      BY <1>8 DEF room_del_return
    <2>2. AbsentIsEmpty' /\ OneAtATime' /\ JoinEntered' /\ DelLeft'
      BY <2>1 DEF ChatTypeOK, NoOp
    <2>3. ASSUME NEW j \in Keys \ raced', NEW q \in Rids, NEW h \in Groups
          PROVE  Agree(j, q, h)'
      <3>1. /\ Agree(j, q, h)
            /\ \A o \in Procs : Leaving(o, j, q, h) => o # p
            /\ \A o \in Procs : Entering(o, j, q, h) => o # p
        BY <2>1 DEF Leaving, Entering
      <3>2. \A o \in Procs \ {p} : /\ Leaving(o, j, q, h) => Leaving(o, j, q, h)'
                                  /\ Entering(o, j, q, h) => Entering(o, j, q, h)'
        BY <2>1 DEF ChatTypeOK, Leaving, Entering
      <3> QED BY <2>1, <3>1, <3>2 DEF Agree, Leaving, Entering
    <2> QED BY <2>2, <2>3
  <1>9. ASSUME NEW p \in Procs, NEW k \in Keys, SessionSetParam(p, k) PROVE MembershipInv'
    <2>1. raced \subseteq raced'
      BY <1>9, BeginQuiet DEF SessionSetParam
    <2> QED BY <1>9, <2>1, MembershipSame DEF SessionSetParam
  <1>10. ASSUME NEW r \in Rids, clean_del(r) PROVE MembershipInv'
    <2>1. sid_list' = sid_list
      <3>1. r \in rooms /\ room_num[r] = 0 => MembersOf(r) = {}
        BY EmptyRoom
      <3>2. CASE r \in rooms /\ room_num[r] = 0
        BY <1>10, <3>1, <3>2 DEF clean_del, MembersOf
      <3>3. CASE ~(r \in rooms /\ room_num[r] = 0)
        BY <1>10, <3>3 DEF clean_del
      <3> QED BY <3>2, <3>3
    <2> QED BY <1>10, <2>1, MembershipSame DEF clean_del
  <1>11. ASSUME UNCHANGED <<sessions, room, sid_list, op, raced>> PROVE MembershipInv'
    BY <1>11, MembershipSame
  <1>12. ASSUME NEW p \in Procs, room_add(p) \/ room_query_nil(p) PROVE MembershipInv'
    BY <1>2, <1>12 DEF room_add, room_query_nil
  <1> QED
    BY <1>1, <1>3, <1>4, <1>5, <1>6, <1>7, <1>8, <1>9, <1>10, <1>11, <1>12
       DEF ChatNext, CleanStep, Call, Step, JoinStep, DelStep, chatVars, Clean, clean_scan

(* A key no two operations overlapped on is listed in exactly the groups   *)
(* its session names, up to the operation in progress.                     *)
THEOREM Membership == ChatSpec => []MembershipAgrees
  <1>1. ChatInit => MembershipInv
    <2> SUFFICES ASSUME ChatInit PROVE MembershipInv
      OBVIOUS
    <2>1. AbsentIsEmpty /\ OneAtATime /\ JoinEntered /\ DelLeft
      BY DEF ChatInit, AbsentIsEmpty, OneAtATime, JoinEntered, DelLeft, Pending, NoOp
    <2>2. MembershipAgrees
      BY ChatTabAssumption DEF ChatInit, MembershipAgrees, Agree, NoRooms
    <2> QED BY <2>1, <2>2 DEF MembershipInv
  <1>2. ChatInit => CountersInv
    BY FS_EmptySet DEF ChatInit, CountersInv, CountersExact, MembersOf, MembersOfGroup
  <1>3. MembershipInv => MembershipAgrees
    BY DEF MembershipInv
  <1> QED BY <1>1, <1>2, <1>3, CountersStep, MembershipStep, ChatTabTyped, PTL DEF ChatSpec

============================================================================
