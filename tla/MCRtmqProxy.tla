---------------------------- MODULE MCRtmqProxy ----------------------------
(* Two brokers, so two threads on one send queue, one of them failing; then  *)
(* one thread with a slow broker that also sends.                            *)
EXTENDS RtmqProxy

MCOut == <<"a", "b">>
MCTypeOf == [m \in In |-> IF m = "x" THEN "u" ELSE "other"]
MCScenes == {
    [tsvrs |-> Tsvrs, out |-> 1, in |-> FALSE, slow |-> {}, down |-> [t \in Tsvrs |-> IF t = "t1" THEN 1 ELSE 0]],
    [tsvrs |-> {"t1"}, out |-> 2, in |-> FALSE, slow |-> {"t1"}, down |-> [t \in Tsvrs |-> 1]],
    [tsvrs |-> {"t1"}, out |-> 0, in |-> TRUE, slow |-> {}, down |-> [t \in Tsvrs |-> 1]]}
=============================================================================
