-------------------------------- MODULE Queue --------------------------------
(***************************************************************************)
(* The queue every server of the C code passes its work through (queue.c): *)
(* a lock free ring of addresses (ring.c) and a pool of blocks (slot.c),   *)
(* which is a ring of the free blocks.  A thread takes a block out of the  *)
(* pool, pushes it; another pops it, uses it, and gives it back.           *)
(*                                                                         *)
(* The indices of a ring are unsigned and only grow: they are counted      *)
(* modulo Width (2^32 in the code), and the run starts Ahead of zero so    *)
(* that they wrap.  One step is one access to a field of the ring that     *)
(* other threads change.                                                   *)
(***************************************************************************)
EXTENDS Integers, Sequences, FiniteSets

CONSTANTS
    Producers,  \* threads that take a block and push it
    Consumers,  \* threads that pop blocks and give them back
    Slots,      \* the blocks of the pool, 1..num
    Width,      \* the indices are counted modulo Width
    Ahead,      \* the value of the indices at first
    BatchMax,   \* the most a thread holds, and pops at once
    MaxTurns    \* bound: how far the index of a ring moves

Threads == Producers \cup Consumers
power2(v) == CHOOSE m \in {2^k : k \in 0..v} : m >= v /\ \A k \in 0..v : 2^k >= v => m <= 2^k
RingMax == power2(Cardinality(Slots))

ASSUME QueueAssumption ==
    /\ IsFiniteSet(Slots) /\ Slots = 1..Cardinality(Slots) /\ Slots # {}
    /\ Width \in Nat \ {0} /\ Ahead \in 0..Width - 1
    /\ Width % RingMax = 0
    /\ BatchMax \in Nat \ {0} /\ IsFiniteSet(Threads)
    /\ MaxTurns \in Nat /\ Cardinality(Slots) <= MaxTurns
    /\ MaxTurns + BatchMax * Cardinality(Threads) + RingMax < Width

\* What power2 returns is a number, and no less than what it is given.
ASSUME MaxAssumption == RingMax \in Nat \ {0} /\ RingMax >= Cardinality(Slots)

VARIABLES
    rq,         \* the ring of the queue and the ring of the pool
    th          \* the threads: the call each is in, and the blocks it holds

queueVars == <<rq, th>>

NoSlot == 0
Rings == {"ring", "slot"}
Idle == [op |-> "none", at |-> "none", r |-> "ring", n |-> 0, head |-> 0]

Add(a, b) == (a + b) % Width
Sub(a, b) == (a - b) % Width
Mask(i) == i % RingMax

ring_creat ==
    [num |-> 0, data |-> [i \in 0..RingMax - 1 |-> NoSlot], phead |-> Ahead, ptail |-> Ahead, chead |-> Ahead, ctail |-> Ahead]

\* slot_creat pushes every block on the ring of the pool.
slot_creat ==
    LET n == Cardinality(Slots)
    IN  [ring_creat EXCEPT !.num = n, !.phead = Add(Ahead, n), !.ptail = Add(Ahead, n),
            !.data = [i \in 0..RingMax - 1 |-> LET k == Sub(Mask(i - Ahead), 0) IN IF k < n THEN k + 1 ELSE NoSlot]]

queue_creat ==
    /\ rq = [r \in Rings |-> IF r = "ring" THEN ring_creat ELSE slot_creat]
    /\ th = [t \in Threads |-> [call |-> Idle, hand |-> <<>>, refused |-> FALSE]]

QueueInit == queue_creat
-----------------------------------------------------------------------------
Turns(r) == Sub(rq[r].phead, Ahead)
At(t, op, at) == th[t].call.op = op /\ th[t].call.at = at
Goto(t, at) == [th EXCEPT ![t].call.at = at]
Return(t) == [th EXCEPT ![t].call = Idle]
MIN(a, b) == IF a < b THEN a ELSE b

Call(t, op, r, n) ==
    /\ th[t].call = Idle
    /\ n > 0
    /\ th' = [th EXCEPT ![t].call = [op |-> op, at |-> "head", r |-> r, n |-> n, head |-> 0]]
    /\ UNCHANGED rq

\* slot_alloc (whose caller asks for no more than the size of a block) is ring_pop.
queue_malloc(t) == t \in Producers /\ Len(th[t].hand) < BatchMax /\ Call(t, "pop", "slot", 1)

queue_push(t) == t \in Producers /\ Turns("ring") < MaxTurns /\ Call(t, "push", "ring", Len(th[t].hand))

queue_dealloc(t) == t \in Consumers /\ Turns("slot") < MaxTurns /\ Call(t, "push", "slot", MIN(1, Len(th[t].hand)))

\* The receivers ask for as much as queue_used says there is, and no more than a batch.
queue_mpop(t) == t \in Consumers /\ th[t].hand = <<>> /\ Call(t, "pop", "ring", MIN(rq["ring"].num, BatchMax))
-----------------------------------------------------------------------------
Batch(t) == SubSeq(th[t].hand, 1, th[t].call.n)

ring_mpush_head(t) ==
    /\ At(t, "push", "head")
    /\ th' = [th EXCEPT ![t].call.head = rq[th[t].call.r].phead, ![t].call.at = "check"]
    /\ UNCHANGED rq

\* Mutant: one place of the ring is never used.
SpaceLess(t) == Sub(RingMax - 1 + rq[th[t].call.r].ctail, th[t].call.head)

ring_space(t) == Sub(RingMax + rq[th[t].call.r].ctail, th[t].call.head)

\* A push that a batch does not fit returns -1 and leaves its blocks with the caller.
ring_mpush_check(t) ==
    /\ At(t, "push", "check")
    /\ th' = IF th[t].call.n > ring_space(t) THEN [Return(t) EXCEPT ![t].refused = TRUE] ELSE Goto(t, "cas")
    /\ UNCHANGED rq

\* Mutant: the index is set without being compared.
CasBlind(t, f) ==
    LET c == th[t].call
    IN  rq' = [rq EXCEPT ![c.r] = [@ EXCEPT ![f] = Add(c.head, c.n)]] /\ th' = Goto(t, "copy")

atomic32_cmp_and_set(t, f) ==
    LET c == th[t].call
    IN  IF rq[c.r][f] = c.head
        THEN rq' = [rq EXCEPT ![c.r] = [@ EXCEPT ![f] = Add(c.head, c.n)]] /\ th' = Goto(t, "copy")
        ELSE th' = Goto(t, "head") /\ UNCHANGED rq

ring_mpush_cas(t) == At(t, "push", "cas") /\ atomic32_cmp_and_set(t, "phead")

Written(data, head, b) == [i \in DOMAIN data |-> LET k == Mask(i - head) IN IF k < Len(b) THEN b[k + 1] ELSE data[i]]

ring_mpush_copy(t) ==
    LET c == th[t].call
    IN  /\ At(t, "push", "copy")
        /\ rq' = [rq EXCEPT ![c.r].data = Written(@, c.head, Batch(t))]
        /\ th' = Goto(t, "tail")

\* Mutant: whoever has copied publishes.
WaitNone(t) == TRUE

\* while (rq->prod.tail != prod_head): those who reserved earlier come first.
ring_mpush_wait(t) == rq[th[t].call.r].ptail = th[t].call.head

ring_mpush_tail(t) ==
    LET c == th[t].call
    IN  /\ At(t, "push", "tail")
        /\ ring_mpush_wait(t)
        /\ rq' = [rq EXCEPT ![c.r].ptail = Add(c.head, c.n)]
        /\ th' = [Goto(t, "num") EXCEPT ![t].hand = SubSeq(@, c.n + 1, Len(@))]

ring_mpush_num(t) ==
    /\ At(t, "push", "num")
    /\ rq' = [rq EXCEPT ![th[t].call.r].num = Add(@, th[t].call.n)]
    /\ th' = Return(t)

ring_mpop_head(t) ==
    /\ At(t, "pop", "head")
    /\ th' = [th EXCEPT ![t].call.head = rq[th[t].call.r].chead, ![t].call.at = "check"]
    /\ UNCHANGED rq

ring_used(t) == Sub(rq[th[t].call.r].ptail, th[t].call.head)

ring_mpop_check(t) ==
    /\ At(t, "pop", "check")
    /\ th' = IF th[t].call.n > ring_used(t) THEN Return(t) ELSE Goto(t, "cas")
    /\ UNCHANGED rq

ring_mpop_cas(t) == At(t, "pop", "cas") /\ atomic32_cmp_and_set(t, "chead")

Read(t) == LET c == th[t].call IN [i \in 1..c.n |-> rq[c.r].data[Mask(c.head + i - 1)]]

ring_mpop_copy(t) ==
    /\ At(t, "pop", "copy")
    /\ th' = [Goto(t, "tail") EXCEPT ![t].hand = @ \o Read(t)]
    /\ UNCHANGED rq

\* Mutant: a pop waits for those behind it.
WaitNext(t) == rq[th[t].call.r].ctail = Add(th[t].call.head, th[t].call.n)

ring_mpop_wait(t) == rq[th[t].call.r].ctail = th[t].call.head

ring_mpop_tail(t) ==
    LET c == th[t].call
    IN  /\ At(t, "pop", "tail")
        /\ ring_mpop_wait(t)
        /\ rq' = [rq EXCEPT ![c.r].ctail = Add(c.head, c.n)]
        /\ th' = Goto(t, "num")

\* Mutant: a batch counts for one.
NumOne(t) ==
    /\ At(t, "pop", "num")
    /\ rq' = [rq EXCEPT ![th[t].call.r].num = Sub(@, 1)]
    /\ th' = Return(t)

\* Mutant: the count is an ordinary number.
NumSigned(t) ==
    /\ At(t, "pop", "num")
    /\ rq' = [rq EXCEPT ![th[t].call.r].num = @ - th[t].call.n]
    /\ th' = Return(t)

ring_mpop_num(t) ==
    /\ At(t, "pop", "num")
    /\ rq' = [rq EXCEPT ![th[t].call.r].num = Sub(@, th[t].call.n)]
    /\ th' = Return(t)
-----------------------------------------------------------------------------
ring_mpush(t) ==
    \/ ring_mpush_head(t) \/ ring_mpush_check(t) \/ ring_mpush_cas(t)
    \/ ring_mpush_copy(t) \/ ring_mpush_tail(t) \/ ring_mpush_num(t)

ring_mpop(t) ==
    \/ ring_mpop_head(t) \/ ring_mpop_check(t) \/ ring_mpop_cas(t)
    \/ ring_mpop_copy(t) \/ ring_mpop_tail(t) \/ ring_mpop_num(t)

Caller(t) == queue_malloc(t) \/ queue_push(t) \/ queue_dealloc(t) \/ queue_mpop(t)

QueueNext == \E t \in Threads : Caller(t) \/ ring_mpush(t) \/ ring_mpop(t)

QueueSpec == QueueInit /\ [][QueueNext]_queueVars /\ \A t \in Threads : WF_queueVars(ring_mpush(t)) /\ WF_queueVars(ring_mpop(t))
-----------------------------------------------------------------------------
Index == 0..Width - 1
Blocks == [0..RingMax - 1 -> Slots \cup {NoSlot}]
RingType == [num : Index, data : Blocks, phead : Index, ptail : Index, chead : Index, ctail : Index]
CallType == [op : {"none", "push", "pop"}, at : {"none", "head", "check", "cas", "copy", "tail", "num"},
             r : Rings, n : 0..BatchMax, head : Index]

\* No index leaves its width, and no thread is handed more blocks than it has room for.
TypeOK ==
    /\ rq \in [Rings -> RingType]
    /\ \A t \in Threads :
          /\ th[t].call \in CallType
          /\ th[t].hand \in Seq(Slots) /\ Len(th[t].hand) <= BatchMax

Contents(r) == [i \in 1..Sub(rq[r].ptail, rq[r].chead) |-> rq[r].data[Mask(rq[r].chead + i - 1)]]
Reserved(t, op, r) == th[t].call.op = op /\ th[t].call.r = r
Taken(t) == At(t, "pop", "copy")
Held(t) == IF Taken(t) THEN th[t].hand \o Read(t) ELSE th[t].hand
Times(s, seq) == Cardinality({i \in DOMAIN seq : seq[i] = s})

\* Whatever the order in which the threads run, every block is in one place: waiting in the
\* ring, free in the pool, or with one thread (no block is handed out twice, or lost).
EachBlockOnce ==
    \A s \in Slots :
        Times(s, Contents("ring")) + Times(s, Contents("slot"))
            + Cardinality({p \in Threads \X (1..BatchMax) : p[2] <= Len(Held(p[1])) /\ Held(p[1])[p[2]] = s}) = 1

\* queue.c says a push may fail unless the pool has as many blocks as the queue has places;
\* with the pool queue_creat makes, none does, not even while another thread is inside a pop.
NeverRefused == \A t \in Threads : ~th[t].refused

\* The count of a ring that nobody is inside of is the number of blocks in it.
CountSettles ==
    \A r \in Rings :
        (\A t \in Threads : th[t].call = Idle \/ th[t].call.r # r) => rq[r].num = Len(Contents(r))

Pushing(r) == [t \in Threads |-> IF Reserved(t, "push", r) /\ th[t].call.at # "num" THEN Batch(t) ELSE <<>>]
Popped(r) ==
    [t \in Threads |->
        CASE Reserved(t, "pop", r) /\ th[t].call.at = "copy" -> Read(t)
          [] Reserved(t, "pop", r) /\ th[t].call.at \in {"tail", "num"} ->
                SubSeq(th[t].hand, Len(th[t].hand) - th[t].call.n + 1, Len(th[t].hand))
          [] OTHER -> <<>>]

RingQueue == INSTANCE BoundedQueue WITH
    Items <- Slots, items <- Contents("ring"), entering <- Pushing("ring"), leaving <- Popped("ring")
PoolQueue == INSTANCE BoundedQueue WITH
    Items <- Slots, items <- Contents("slot"), entering <- Pushing("slot"), leaving <- Popped("slot")

\* The lock free ring is a first-in first-out queue, and so is the pool of free blocks: a push
\* takes effect when prod.tail moves past it, a pop when cons.head does.
QueuesAreFifo == RingQueue!Spec /\ PoolQueue!Spec

\* Every push and every pop returns: a thread waits for those who reserved before it, and none
\* of them waits for it.
CallsReturn == \A t \in Threads : th[t].call # Idle ~> th[t].call = Idle

\* The pool and the ring together keep account of every block: none lost, none doubled, none
\* refused, and the counts right whenever nobody is in the middle of a call.
BlocksAccounted == TypeOK /\ EachBlockOnce /\ NeverRefused /\ CountSettles
=============================================================================
