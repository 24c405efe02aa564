------------------------------ MODULE TimerTask ------------------------------
(***************************************************************************)
(* The timer of lib/core/timer.c: a heap of tasks, earliest first, that    *)
(* one thread watches, runs and puts back while others start new tasks.    *)
(* The heap is an array: the place 0 is above 1, and i above 2i and 2i+1.  *)
(* due is how far off the time of a task is, negative when it is late.     *)
(***************************************************************************)
EXTENDS Integers, Sequences, FiniteSets

CONSTANTS
    Tasks,
    Start,      \* when a task is first due, after it is started
    Interval,   \* and then again, every so often
    MaxLate     \* bound: how late the timer thread gets

VARIABLES
    e,          \* the heap: place -> task, 0..len-1
    due,        \* for each task, ttl - time(NULL)
    timer       \* the timer thread: "look", "pop", or the task in its hands

timerVars == <<e, due, timer>>

None == "none"
TimerInit == e = <<>> /\ due = [k \in Tasks |-> 0] /\ timer = [at |-> "look", task |-> None]

Size == Len(e)
E(i) == e[i + 1]
timer_item_cmp_cb(a, b) == due[a] - due[b]
InHeap == {e[i] : i \in DOMAIN e}

\* The places the tasks move through from the end of the heap up, until none above is later.
Parent(i) == i \div 2
RiseTo(k, d) ==
    LET Later(i) == i = 0 \/ d[E(Parent(i))] - d[k] <= 0
        up[i \in 0..Size] == IF Later(i) THEN {i} ELSE {i} \cup up[Parent(i)]
    IN  up[Size]

Risen(k, d) ==
    LET way == RiseTo(k, d)
        last == CHOOSE i \in way : \A j \in way : i <= j
    IN  [p \in 1..Size + 1 |->
            CASE p - 1 = last -> k
              [] p - 1 \in way \ {last} -> E(Parent(p - 1))
              [] OTHER -> e[p]]

\* realloc doubles the array when it is full.
timer_task_start(k, d) == e' = Risen(k, d) /\ due' = d

\* Another thread creates a task and starts it.
Launch(k) ==
    /\ k \notin InHeap /\ timer.task # k
    /\ timer_task_start(k, [due EXCEPT ![k] = Start[k]])
    /\ UNCHANGED timer

\* Mutants: a task counts as due a second early; a task alone in the heap is overlooked.
TimeoutSoon == Size > 0 /\ due[E(0)] <= 1
TimeoutLone == Size > 1 /\ due[E(0)] <= 0

timer_task_is_timeout == Size > 0 /\ due[E(0)] <= 0

\* Mutant: the left task comes up, whichever is earlier.
SinkLeft(len, k) ==
    LET Left(i) == IF i = 0 THEN 1 ELSE 2 * i
        Stop(i) == Left(i) >= len \/ due[E(Left(i))] - due[k] >= 0
        down[i \in 0..len] == IF Stop(i) THEN <<i>> ELSE <<i>> \o down[Left(i)]
    IN  down[0]

\* The last task sinks from the top: of the tasks below, the earlier comes up while it is earlier.
SinkFrom(len, k) ==
    LET Left(i) == IF i = 0 THEN 1 ELSE 2 * i
        Right(i) == Left(i) + 1
        Low(i) == IF Right(i) < len /\ due[E(Left(i))] - due[E(Right(i))] > 0 THEN Right(i) ELSE Left(i)
        Stop(i) == Left(i) >= len \/ due[E(Low(i))] - due[k] >= 0
        down[i \in 0..len] == IF Stop(i) THEN <<i>> ELSE <<i>> \o down[Low(i)]
    IN  down[0]

timer_task_pop ==
    LET len == Size - 1
        k == E(len)
        way == SinkFrom(len, k)
        On(i) == {j \in DOMAIN way : way[j] = i}
        Put(i) == LET j == CHOOSE j \in On(i) : TRUE IN IF j = Len(way) THEN k ELSE E(way[j + 1])
    IN  [p \in 1..len |-> IF On(p - 1) = {} THEN e[p] ELSE Put(p - 1)]

\* timer_task_routine: look (under the lock), pop (under the lock), run, put back.
TimerLook ==
    /\ timer.at = "look"
    /\ timer_task_is_timeout
    /\ timer' = [timer EXCEPT !.at = "pop"]
    /\ UNCHANGED <<e, due>>

TimerPop ==
    /\ timer.at = "pop"
    /\ Size > 0
    /\ e' = timer_task_pop
    /\ timer' = [at |-> "run", task |-> E(0)]
    /\ UNCHANGED due

TimerRun ==
    /\ timer.at = "run"
    /\ timer_task_start(timer.task, [due EXCEPT ![timer.task] = Interval[timer.task]])
    /\ timer' = [at |-> "look", task |-> None]

timer_task_routine == TimerLook \/ TimerPop \/ TimerRun

Tick ==
    /\ \A k \in Tasks : due[k] > -MaxLate
    /\ due' = [k \in Tasks |-> IF k \in InHeap \cup {timer.task} THEN due[k] - 1 ELSE 0]
    /\ UNCHANGED <<e, timer>>

TimerNext == (\E k \in Tasks : Launch(k)) \/ timer_task_routine \/ Tick

\* No task above another is due after it, and no task is in the heap twice or lost: after
\* every start and every pop, in whatever order they come.
HeapOrdered ==
    /\ \A i \in 1..Size - 1 : due[E(Parent(i))] <= due[E(i)]
    /\ Cardinality(InHeap \cup ({timer.task} \ {None})) = Size + (IF timer.task = None THEN 0 ELSE 1)

\* A task never runs before its time, though the heap may change between the look and the pop.
NeverEarly == timer.task # None => due[timer.task] <= 0

\* A task that was started runs, again and again, however many others are due.
KeepsRunning == \A k \in Tasks : k \in InHeap ~> timer.task = k

\* The first task of the heap is the next one due, and none runs before its time.
TimerRight == HeapOrdered /\ NeverEarly
=============================================================================
