----------------------------- MODULE BoundedQueue -----------------------------
(***************************************************************************)
(* What the callers of a ring (lib/core/ring.c) rely on, with no counters  *)
(* and no races: a first-in first-out queue of at most RingMax items.  A push  *)
(* enters the queue whole, in one step, or is refused; a pop takes the     *)
(* oldest items in one step.                                               *)
(***************************************************************************)
EXTENDS Integers, Sequences

CONSTANTS Threads, Items, RingMax

VARIABLES
    items,      \* the queue, oldest first
    entering,   \* what each thread is pushing
    leaving     \* what each thread has taken and not used yet

vars == <<items, entering, leaving>>

Init ==
    /\ items \in Seq(Items) /\ Len(items) <= RingMax
    /\ entering = [t \in Threads |-> <<>>]
    /\ leaving = [t \in Threads |-> <<>>]

Begin(t) ==
    /\ entering[t] = <<>>
    /\ entering'[t] \in Seq(Items)
    /\ entering' = [entering EXCEPT ![t] = entering'[t]]
    /\ UNCHANGED <<items, leaving>>

Enter(t) ==
    /\ entering[t] # <<>>
    /\ Len(items) + Len(entering[t]) <= RingMax
    /\ items' = items \o entering[t]
    /\ entering' = [entering EXCEPT ![t] = <<>>]
    /\ UNCHANGED leaving

Refuse(t) ==
    /\ entering' = [entering EXCEPT ![t] = <<>>]
    /\ UNCHANGED <<items, leaving>>

Take(t) ==
    /\ leaving[t] = <<>>
    /\ \E n \in 1..Len(items) :
          /\ leaving' = [leaving EXCEPT ![t] = SubSeq(items, 1, n)]
          /\ items' = SubSeq(items, n + 1, Len(items))
    /\ UNCHANGED entering

Use(t) ==
    /\ leaving' = [leaving EXCEPT ![t] = <<>>]
    /\ UNCHANGED <<items, entering>>

Next == \E t \in Threads : Begin(t) \/ Enter(t) \/ Refuse(t) \/ Take(t) \/ Use(t)

Spec == Init /\ [][Next]_vars
=============================================================================
