----------------------------- MODULE MCTables -----------------------------
(* The tables of the servers, one of them (part) in each behaviour: the      *)
(* routes of the broker, the rooms of a listen node, the sections of the     *)
(* sequence servers.                                                         *)
EXTENDS RtmqBroker, ChatTab, SeqSvr

VARIABLE part

(* A forwarder with one listen server (node L) and a business server (node  *)
(* U, two connections on two receivers) beside another one of a second node.*)
MCCtxs == {"forward", "backend"}
MCConns == {"f1", "b1", "b2", "b3"}
MCCtxOf == [c \in MCConns |-> IF c = "f1" THEN "forward" ELSE "backend"]
MCNidOf == [c \in MCConns |-> CASE c = "f1" -> "L" [] c = "b3" -> "V" [] OTHER -> "U"]
MCGidOf == [c \in MCConns |-> IF c = "b3" THEN 2 ELSE 1]
MCRecvThdNum == [x \in MCCtxs |-> IF x = "forward" THEN 1 ELSE 2]
Mesg(kind, i, t, n, good) == [kind |-> kind, id |-> i, type |-> t, dest |-> n, good |-> good]
Auth(good) == Mesg("AUTH_REQ", 0, "sys", NoNid, good)
Sub(t) == Mesg("SUB_REQ", 0, t, NoNid, TRUE)
KpAlive == Mesg("KPALIVE_REQ", 0, "sys", NoNid, TRUE)
Exp(i, t, n) == Mesg("EXP", i, t, n, TRUE)

(* Who does what:                                                            *)
(* - a listen server's message is published to two groups whose servers     *)
(*   subscribe at the same time;                                            *)
(* - a second connection of a node that has already as many as the map holds;*)
(* - a message to the listen server, and a client with a wrong password     *)
(*   and one that subscribes before it authenticates.                       *)
MCScripts == {
    [f1 |-> <<Exp(1, "t", NoNid)>>, b1 |-> <<Sub("t")>>, b2 |-> <<>>,
     b3 |-> <<Auth(TRUE), Sub("t")>>],
    [f1 |-> <<Exp(1, "t", NoNid)>>, b1 |-> <<Sub("t")>>, b2 |-> <<Auth(TRUE), Sub("t")>>,
     b3 |-> <<>>],
    [f1 |-> <<KpAlive>>, b1 |-> <<Exp(1, "t", "L"), Exp(2, "t", "L")>>, b2 |-> <<>>,
     b3 |-> <<Auth(FALSE), KpAlive>>],
    [f1 |-> <<>>, b1 |-> <<Sub("t")>>, b2 |-> <<Sub("t")>>, b3 |-> <<>>]}

(* Two goroutines on one sequence server and one on the other.               *)
HomeSpread == [p \in Callers |-> IF p = "p3" THEN "v2" ELSE "v1"]
OneSection == [s \in SeqSids |-> CHOOSE c \in Secs : TRUE]

MCInit ==
    /\ part \in {"broker", "chat", "seq"} /\ Init /\ ChatInit /\ SeqInit
    /\ part = "broker" \/ script["f1"] = <<>>

MCNext ==
    \/ part = "broker" /\ Next /\ UNCHANGED <<part, chatVars, seqVars>>
    \/ part = "broker" /\ UNCHANGED <<part, vars, chatVars, seqVars>>     \* the clients come to an end
    \/ part = "chat" /\ ChatNext /\ UNCHANGED <<part, vars, seqVars>>
    \/ part = "seq" /\ SeqNext /\ UNCHANGED <<part, vars, chatVars>>
MCSpec == MCInit /\ [][MCNext]_<<part, vars, chatVars, seqVars>>
=============================================================================
