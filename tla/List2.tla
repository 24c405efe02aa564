-------------------------------- MODULE List2 --------------------------------
(***************************************************************************)
(* The doubly linked ring of lib/core/list2.c, pointer by pointer: the     *)
(* RTMQ server keeps the connections of a receiving thread, and what each  *)
(* connection has to send, in such lists, and deletes nodes while it goes  *)
(* round them.  A node is named by the data it holds, of which the callers *)
(* put none in twice.                                                      *)
(***************************************************************************)
EXTENDS Integers, Sequences, SequencesExt

CONSTANT Data2

VARIABLES
    list2,      \* the list
    held2       \* what it should hold, from its head on

None2 == "none"

list2_creat == [head |-> None2, num |-> 0, next |-> [d \in Data2 |-> None2], prev |-> [d \in Data2 |-> None2]]

List2Init == list2 = list2_creat /\ held2 = <<>>

Holds2(d) == \E i \in DOMAIN held2 : held2[i] = d
Tail2 == list2.prev[list2.head]
Alone(d) == [list2 EXCEPT !.head = d, !.num = 1, !.next[d] = d, !.prev[d] = d]

\* Between the tail and the head, which is where both pushes put a node.
Closing(d) ==
    [list2 EXCEPT !.num = @ + 1,
        !.next = [@ EXCEPT ![Tail2] = d, ![d] = list2.head],
        !.prev = [@ EXCEPT ![list2.head] = d, ![d] = Tail2]]

list2_lpush(d) ==
    /\ ~Holds2(d)
    /\ list2' = IF list2.head = None2 THEN Alone(d) ELSE [Closing(d) EXCEPT !.head = d]
    /\ held2' = <<d>> \o held2

list2_rpush(d) ==
    /\ ~Holds2(d)
    /\ list2' = IF list2.head = None2 THEN Alone(d) ELSE Closing(d)
    /\ held2' = Append(held2, d)

\* A node that is freed keeps nothing.
Freed2(l, d) == [l EXCEPT !.next[d] = None2, !.prev[d] = None2]
Last2(d) == Freed2([list2 EXCEPT !.head = None2, !.num = 0], d)

list2_lpop ==
    /\ list2.head # None2
    /\ LET d == list2.head
           h == list2.next[d]
       IN  list2' = IF d = Tail2 THEN Last2(d)
                    ELSE Freed2([list2 EXCEPT !.head = h, !.num = @ - 1, !.next[Tail2] = h, !.prev[h] = Tail2], d)
    /\ held2' = Tail(held2)

list2_rpop ==
    /\ list2.head # None2
    /\ LET d == Tail2
           p == list2.prev[d]
       IN  list2' = IF list2.head = d THEN Last2(d)
                    ELSE Freed2([list2 EXCEPT !.num = @ - 1, !.next[p] = list2.head, !.prev[list2.head] = p], d)
    /\ held2' = Front(held2)

Bridged(d) ==
    [list2 EXCEPT !.num = @ - 1,
        !.next[list2.prev[d]] = list2.next[d],
        !.prev[list2.next[d]] = list2.prev[d]]

\* Mutant: a head that is deleted stays the head.
list2_delete_head(d) ==
    /\ Holds2(d)
    /\ list2' = IF d = list2.prev[d] THEN Last2(d) ELSE Freed2(Bridged(d), d)
    /\ held2' = SelectSeq(held2, LAMBDA x : x # d)

list2_delete(d) ==
    /\ Holds2(d)
    /\ list2' = IF d = list2.prev[d] THEN Last2(d)
                ELSE Freed2([Bridged(d) EXCEPT !.head = IF @ = d THEN list2.next[d] ELSE @], d)
    /\ held2' = SelectSeq(held2, LAMBDA x : x # d)

list2_roll ==
    /\ list2.head # None2
    /\ list2' = [list2 EXCEPT !.head = list2.next[@]]
    /\ held2' = Append(Tail(held2), Head(held2))

List2Next ==
    \/ list2_lpop \/ list2_rpop \/ list2_roll
    \/ \E d \in Data2 : list2_lpush(d) \/ list2_rpush(d) \/ list2_delete(d)

\* The i-th node that list2_trav comes to, and the i-th node back from the tail.
list2_trav(i) == LET at[j \in 0..i] == IF j = 0 THEN list2.head ELSE list2.next[at[j - 1]] IN at[i]
Back2(i) == LET at[j \in 0..i] == IF j = 0 THEN Tail2 ELSE list2.prev[at[j - 1]] IN at[i]

\* Going round from the head one meets what was put in and not taken, in its order, and comes
\* back to the head after num nodes; going round the other way meets the same (the links that
\* list2_assert walks, and list2_delete and both pops rely on, agree).
List2Holds ==
    /\ list2.num = Len(held2)
    /\ held2 = <<>> <=> list2.head = None2
    /\ \A i \in 1..Len(held2) : list2_trav(i - 1) = held2[i] /\ Back2(i - 1) = held2[Len(held2) + 1 - i]
    /\ held2 # <<>> => list2_trav(Len(held2)) = list2.head
=============================================================================
