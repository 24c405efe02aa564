------------------------------- MODULE MCSdk -------------------------------
(* Two threads that send while the server closes; a refused ONLINE and       *)
(* sequence numbers used again; a silent server; input that arrives in       *)
(* parts, with network_switch; wrong answers.                                *)
EXTENDS Sdk

Msg(k, v) == [k |-> k, v |-> v]
None == [a \in Apps |-> <<>>]
MCScenes == {
    [send |-> [a \in Apps |-> IF a = "a1" THEN <<"m1">> ELSE <<"m2">>], answer |-> <<9, 9>>, ack |-> "none", dn |-> <<>>, conns |-> 1,
     close |-> FALSE, half |-> FALSE, part |-> FALSE, switch |-> 0, silent |-> FALSE, fails |-> {}],
    [send |-> [None EXCEPT !["a1"] = <<"m1", "m2">>], answer |-> <<-1, 1>>, ack |-> "ACK", dn |-> <<>>, conns |-> 2,
     close |-> FALSE, half |-> FALSE, part |-> FALSE, switch |-> 0, silent |-> FALSE, fails |-> {}],
    [send |-> [None EXCEPT !["a1"] = <<"m1">>], answer |-> <<9, 9>>, ack |-> "none", dn |-> <<Msg("PONG", 0)>>, conns |-> 1,
     close |-> FALSE, half |-> FALSE, part |-> FALSE, switch |-> 0, silent |-> TRUE, fails |-> {}],
    [send |-> None, answer |-> <<9, 9>>, ack |-> "ACK", dn |-> <<Msg("PUSH", 0), Msg("PING", 0)>>, conns |-> 2,
     close |-> FALSE, half |-> TRUE, part |-> FALSE, switch |-> 1, silent |-> FALSE, fails |-> {}],
    [send |-> [None EXCEPT !["a1"] = <<"m1">>], answer |-> <<9, 9>>, ack |-> "none", dn |-> <<>>, conns |-> 2,
     close |-> TRUE, half |-> FALSE, part |-> TRUE, switch |-> 0, silent |-> FALSE, fails |-> {}],
    [send |-> [None EXCEPT !["a2"] = <<"m1">>], answer |-> <<9, 9>>, ack |-> "BADACK", dn |-> <<>>, conns |-> 1,
     close |-> FALSE, half |-> FALSE, part |-> FALSE, switch |-> 1, silent |-> FALSE, fails |-> {"http", "token", "sid", "connect"}]}
=============================================================================
