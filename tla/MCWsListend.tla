---------------------------- MODULE MCWsListend ----------------------------
EXTENDS WsListend, TLC

VARIABLE scene      \* who takes part in a behaviour

(* Two clients with one SID, the first of which may change to another.     *)
TwoSids == [c \in Cids |-> IF c = 1 THEN {1, 2} ELSE {1}]
KeepsSid == \A c \in Cids : csid'[c] # 2
NoRooms == joins' = {} /\ member' = {}

(* Two connections of a SID and no rooms; one connection that changes its   *)
(* SID; one connection and its room.                                        *)
Within ==
    /\ scene = "pair" \/ Cardinality({c \in Cids : rt'[c] # "none"}) <= 1
    /\ scene = "sids" \/ KeepsSid
    /\ scene = "room" \/ NoRooms

MCInit == Init /\ scene \in {"pair", "sids", "room"}
MCNext == Next /\ Within /\ UNCHANGED scene
MCSpec == MCInit /\ [][MCNext]_<<vars, scene>> /\ Fairness
============================================================================
