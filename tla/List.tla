-------------------------------- MODULE List --------------------------------
(***************************************************************************)
(* The linked list of lib/core/list.c, pointer by pointer: the servers and *)
(* the SDK keep what waits to be sent in such lists.  A node is named by   *)
(* the data it holds, of which the callers put none in twice.              *)
(***************************************************************************)
EXTENDS Integers, Sequences, FiniteSets, SequencesExt

CONSTANT Data

VARIABLES
    list,       \* the list
    held        \* what it should hold, first to last

Nil == "nil"

list_creat == [head |-> Nil, tail |-> Nil, num |-> 0, next |-> [d \in Data |-> Nil]]

ListInit == list = list_creat /\ held = <<>>

Only(d) == [list EXCEPT !.head = d, !.tail = d, !.next[d] = Nil, !.num = 1]
Absent(d) == \A i \in DOMAIN held : held[i] # d

list_lpush(d) ==
    /\ Absent(d)
    /\ list' = IF list.head = Nil THEN Only(d) ELSE [list EXCEPT !.next[d] = list.head, !.head = d, !.num = @ + 1]
    /\ held' = <<d>> \o held

list_rpush(d) ==
    /\ Absent(d)
    /\ list' = IF list.tail = Nil THEN Only(d)
               ELSE [list EXCEPT !.next = [@ EXCEPT ![list.tail] = d, ![d] = Nil], !.tail = d, !.num = @ + 1]
    /\ held' = Append(held, d)

\* A node that is freed keeps nothing.
Gone(l, d) == [l EXCEPT !.next[d] = Nil]
Emptied == [list EXCEPT !.head = Nil, !.tail = Nil, !.num = 0]

list_lpop ==
    /\ list.head # Nil
    /\ list' = IF list.head = list.tail THEN Gone(Emptied, list.head)
               ELSE Gone([list EXCEPT !.head = list.next[@], !.num = @ - 1], list.head)
    /\ held' = Tail(held)

\* The walk of list_rpop to the node before the last, and of list_remove to the node before d.
Before(d) == CHOOSE p \in Data : list.next[p] = d

list_rpop ==
    /\ list.head # Nil
    /\ list' = IF list.head = list.tail THEN Gone(Emptied, list.tail)
               ELSE Gone([list EXCEPT !.next[Before(list.tail)] = Nil, !.tail = Before(@), !.num = @ - 1], list.tail)
    /\ held' = Front(held)

\* Mutant: the tail is left as it was, as in list_find_and_del.
list_remove_only(d) ==
    LET cut == [list EXCEPT !.next[Before(d)] = list.next[d], !.num = @ - 1]
    IN  /\ ~Absent(d)
        /\ list' = CASE list.head = d /\ list.tail = d -> Gone(Emptied, d)
                     [] list.head = d /\ list.tail # d -> Gone([list EXCEPT !.head = list.next[d], !.num = @ - 1], d)
                     [] OTHER -> Gone(cut, d)
        /\ held' = SelectSeq(held, LAMBDA x : x # d)

list_remove(d) ==
    LET cut == [list EXCEPT !.next[Before(d)] = list.next[d], !.num = @ - 1]
    IN  /\ ~Absent(d)
        /\ list' = CASE list.head = d /\ list.tail = d -> Gone(Emptied, d)
                     [] list.head = d /\ list.tail # d -> Gone([list EXCEPT !.head = list.next[d], !.num = @ - 1], d)
                     [] list.head # d /\ list.tail = d -> Gone([cut EXCEPT !.tail = Before(d)], d)
                     [] list.head # d /\ list.tail # d -> Gone(cut, d)
        /\ held' = SelectSeq(held, LAMBDA x : x # d)

ListNext == list_lpop \/ list_rpop \/ \E d \in Data : list_lpush(d) \/ list_rpush(d) \/ list_remove(d)

\* list_fetch and list_trav follow the nodes from the head.
list_fetch(i) == LET at[j \in 0..i] == IF j = 0 THEN list.head ELSE list.next[at[j - 1]] IN at[i]

\* From the head one reaches what was put in and not taken, in its order, and num counts it; the
\* tail is the last, so that the next push at the end is not lost.
ListHolds ==
    /\ list.num = Len(held)
    /\ \A i \in 1..Len(held) : list_fetch(i - 1) = held[i]
    /\ IF held = <<>> THEN list.head = Nil /\ list.tail = Nil
       ELSE list.tail = Last(held) /\ list.next[list.tail] = Nil
=============================================================================
