------------------------------- MODULE MCCore -------------------------------
(* The containers and helpers of lib/core, the queue whose indices wrap during  *)
(* the run among them, one of them (dut) in each behaviour.                     *)
EXTENDS AvlTree, RbTree, List, List2, TimerTask, Mref, ThreadPool, Queue

VARIABLE dut

MCStart == "a" :> 1 @@ "b" :> 2 @@ "c" :> 0 @@ "d" :> 1 @@ "e" :> 2
MCInterval == "a" :> 1 @@ "b" :> 3 @@ "c" :> 2 @@ "d" :> 2 @@ "e" :> 1
MCHash == [a \in Addrs |-> 1]

avlVars == <<avl, avlKeys>>
rbtVars == <<rbt, rbtKeys>>
listVars == <<list, held, list2, held2>>
sharedVars == <<mrefVars, poolVars>>
vars == <<dut, avlVars, rbtVars, listVars, timerVars, sharedVars, queueVars>>

Init ==
    /\ dut \in {"avl", "rbt", "list", "list2", "timer", "mref", "pool", "queue"}
    /\ AvlInit /\ RbInit /\ ListInit /\ List2Init /\ TimerInit /\ mref_init /\ PoolInit /\ QueueInit

OnTimer(A) == dut = "timer" /\ A /\ UNCHANGED <<dut, avlVars, rbtVars, listVars, sharedVars, queueVars>>
OnPool(A) == dut = "pool" /\ A /\ UNCHANGED <<dut, avlVars, rbtVars, listVars, timerVars, mrefVars, queueVars>>

OnQueue(A) == dut = "queue" /\ A /\ UNCHANGED <<dut, avlVars, rbtVars, listVars, timerVars, sharedVars>>

Next ==
    \/ dut = "avl" /\ AvlNext /\ UNCHANGED <<dut, rbtVars, listVars, timerVars, sharedVars, queueVars>>
    \/ dut = "rbt" /\ RbNext /\ UNCHANGED <<dut, avlVars, listVars, timerVars, sharedVars, queueVars>>
    \/ dut = "list" /\ ListNext /\ UNCHANGED <<dut, avlVars, rbtVars, list2, held2, timerVars, sharedVars, queueVars>>
    \/ dut = "list2" /\ List2Next /\ UNCHANGED <<dut, avlVars, rbtVars, list, held, timerVars, sharedVars, queueVars>>
    \/ OnTimer(TimerNext)
    \/ dut = "mref" /\ MrefNext /\ UNCHANGED <<dut, avlVars, rbtVars, listVars, timerVars, poolVars, queueVars>>
    \/ OnPool(PoolNext)
    \/ OnQueue(QueueNext)

Spec ==
    /\ Init /\ [][Next]_vars
    /\ WF_vars(OnTimer(timer_task_routine)) /\ WF_vars(OnTimer(Tick))
    /\ \A t \in Pthreads : WF_vars(OnPool(thread_routine(t)))
    /\ WF_vars(OnPool(pthread_cond_signal))
    /\ \A t \in Threads : WF_vars(OnQueue(ring_mpush(t))) /\ WF_vars(OnQueue(ring_mpop(t)))

\* Both trees stay linked and balanced, and hold what was put in and not taken out (avl_tree.c,
\* rb_tree.c).
TreesHold == AvlHolds /\ RbHolds

\* Both lists keep what was put in and not taken out, in its order (list.c, list2.c).
ListsHold == ListHolds /\ List2Holds

\* What was started goes on: a task of the timer runs again and again, a job of the pool is taken.
StartedRuns == KeepsRunning /\ JobsTaken
=============================================================================
