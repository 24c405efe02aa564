---------------------------- MODULE MCTcpListend ----------------------------
(* A client that comes back on a second connection, and on two at a time; a  *)
(* room that is joined, written to, cleaned and left while connections end;  *)
(* a kick; a client that quits its room; one that sends ONLINE with another   *)
(* SID.                                                                      *)
EXTENDS TcpListend

NoJoin == <<{}, {}, {}>>
MCScenes == {
    [sid |-> <<1, 1, 1>>, up |-> {}, reqs |-> <<<<"ONLINE">>, <<"ONLINE", "OFFLINE">>, <<>>>>,
     join |-> NoJoin, ups |-> <<Mesg("KICK", 1, 0, 0, 0)>>, close |-> TRUE, clean |-> FALSE, kickmax |-> 2],
    [sid |-> <<1, 1, 1>>, up |-> {1}, reqs |-> <<<<"PING", "REKEY">>, <<"ONLINE">>, <<"ONLINE">>>>,
     join |-> NoJoin, ups |-> <<>>, close |-> FALSE, clean |-> FALSE, kickmax |-> 2],
    [sid |-> <<1, 2, 2>>, up |-> {1, 2}, reqs |-> <<<<"JOIN">>, <<"JOIN", "OTHER">>, <<>>>>, join |-> <<{<<1, 1>>}, {<<1, 2>>}, {}>>,
     ups |-> <<Mesg("ROOM_CHAT", 0, 0, 1, 1)>>, close |-> TRUE, clean |-> TRUE, kickmax |-> 1],
    [sid |-> <<1, 1, 1>>, up |-> {1}, reqs |-> <<<<"JOIN", "OLD">>, <<>>, <<>>>>, join |-> <<{<<1, 1>>, <<2, 1>>}, {}, {}>>,
     ups |-> <<Mesg("KICK", 1, 1, 0, 0), Mesg("ROOM_BC", 0, 0, 1, 0), Mesg("DEF", 1, 0, 0, 0)>>,
     close |-> TRUE, clean |-> TRUE, kickmax |-> 1],
    [sid |-> <<1, 1, 1>>, up |-> {1}, reqs |-> <<<<"JOIN", "QUIT", "CHAT">>, <<"ONLINE", "ONLINE">>, <<>>>>,
     join |-> <<{<<1, 1>>}, {}, {}>>, ups |-> <<Mesg("ROOM_NTF", 0, 0, 1, 0)>>, close |-> TRUE, clean |-> TRUE, kickmax |-> 2]}
=============================================================================
