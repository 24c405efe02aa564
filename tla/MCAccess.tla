------------------------------ MODULE MCAccess ------------------------------
(* Clients on one receiver that write, close and are kicked, a slow client   *)
(* that is written to, two clients on two receivers with a short pipe.       *)
EXTENDS Access

Send(c, item) == [op |-> "send", c |-> c, item |-> item]
Kick(c) == [op |-> "kick", c |-> c, item |-> None]

MCScenes == {
    [lsvrs |-> {"l1"}, rsvrs |-> 1, clients |-> 2, calls |-> <<Kick(1), Kick(2)>>, packets |-> <<"ping">>,
     close |-> TRUE, slow |-> FALSE, time |-> FALSE],
    [lsvrs |-> {"l1"}, rsvrs |-> 1, clients |-> 1, calls |-> <<Send(1, "a"), Send(1, "b"), Kick(1)>>,
     packets |-> <<"mesg">>, close |-> TRUE, slow |-> TRUE, time |-> FALSE],
    [lsvrs |-> Lsvrs, rsvrs |-> 2, clients |-> 2, calls |-> <<Send(1, "a"), Send(2, "b")>>,
     packets |-> <<>>, close |-> FALSE, slow |-> FALSE, time |-> FALSE],
    [lsvrs |-> {"l1"}, rsvrs |-> 1, clients |-> 1, calls |-> <<Send(1, "a")>>,
     packets |-> <<"mesg", "ping", "bad">>, close |-> FALSE, slow |-> FALSE, time |-> TRUE],
    [lsvrs |-> Lsvrs, rsvrs |-> 1, clients |-> 2, calls |-> <<Kick(1), Kick(1), Kick(2)>>,
     packets |-> <<>>, close |-> FALSE, slow |-> FALSE, time |-> FALSE]}
=============================================================================
