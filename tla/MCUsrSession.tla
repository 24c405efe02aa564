---- MODULE MCUsrSession ----
EXTENDS UsrSession, TLC

CONSTANTS c1, c2, n1, n2

(* Both connections on one node; each on a node of its own.                *)
SameNode == [c \in Conns |-> n1]
OwnNode == [c \in Conns |-> IF c = c1 THEN n1 ELSE n2]

(* Connections of one node are alike, and so are workers.                  *)
Alike == Permutations(Conns) \cup Permutations(Workers)
====
