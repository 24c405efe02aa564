----------------------------- MODULE ThreadPool -----------------------------
(***************************************************************************)
(* The threads that run the routines of every server (lib/core/            *)
(* thread_pool.c).  thread_pool_init starts them; thread_pool_add_worker   *)
(* hands a routine to whichever is free, over a list that a mutex guards   *)
(* and a condition variable announces.  A routine asks for the index of    *)
(* its thread, and takes the queue, the pipe or the connections with that  *)
(* index as its own.                                                       *)
(*                                                                         *)
(* The callers add no more routines than there are threads, after          *)
(* thread_pool_init.  A routine may return or run for ever.  A wait on the *)
(* condition may end without a signal.  thread_pool_destroy, which runs    *)
(* when a server cannot start, is left out.                                *)
(***************************************************************************)
EXTENDS Integers, Sequences, FiniteSets

CONSTANTS
    Pthreads,   \* threads of the pool
    Jobs        \* routines that are added

VARIABLES
    tp,         \* the pool: the list of jobs, its size, the mutex, the table of thread ids
    pth,        \* of a thread: where it is, and the job it has
    starter     \* the caller: what it is at, and the jobs it has yet to add

poolVars == <<tp, pth, starter>>

Nobody == "nobody"
NoJob == "none"

ASSUME PoolAssumption ==
    /\ Cardinality(Jobs) <= Cardinality(Pthreads)
    /\ Nobody \notin Pthreads /\ NoJob \notin Jobs

PoolInit ==
    /\ tp = [head |-> <<>>, size |-> 0, owner |-> Nobody, waiting |-> {}, tid |-> <<>>, num |-> 0]
    /\ pth = [t \in Pthreads |-> [at |-> "unborn", job |-> NoJob]]
    /\ starter = [at |-> "init", todo |-> Jobs]

Stage(t, at) == pth' = [pth EXCEPT ![t].at = at]
-----------------------------------------------------------------------------
\* The thread runs as soon as it is made, its id is stored, and num counts it after that.
thread_creat(t) ==
    /\ starter.at = "init"
    /\ pth[t].at = "unborn"
    /\ tp' = [tp EXCEPT !.tid = Append(@, t)]
    /\ Stage(t, "lock")
    /\ starter' = [starter EXCEPT !.at = "count"]

thread_pool_init ==
    /\ starter.at = "count"
    /\ tp' = [tp EXCEPT !.num = @ + 1]
    /\ starter' = [starter EXCEPT !.at = IF tp.num + 1 = Cardinality(Pthreads) THEN "add" ELSE "init"]
    /\ UNCHANGED pth

\* The list is appended to under the mutex.
thread_pool_add_worker(j) ==
    /\ starter.at = "add"
    /\ j \in starter.todo
    /\ tp.owner = Nobody
    /\ tp' = [tp EXCEPT !.head = Append(@, j), !.size = @ + 1]
    /\ starter' = [at |-> "signal", todo |-> starter.todo \ {j}]
    /\ UNCHANGED pth

Woken(t) == tp' = [tp EXCEPT !.waiting = @ \ {t}]

\* Mutant: nobody is told.
signal_none ==
    /\ starter.at = "signal"
    /\ starter' = [starter EXCEPT !.at = "add"]
    /\ UNCHANGED <<tp, pth>>

\* Wakes one of those that wait, if any does.
pthread_cond_signal ==
    /\ starter.at = "signal"
    /\ IF tp.waiting = {} THEN UNCHANGED tp ELSE \E t \in tp.waiting : Woken(t)
    /\ starter' = [starter EXCEPT !.at = "add"]
    /\ UNCHANGED pth

Spurious(t) == t \in tp.waiting /\ Woken(t) /\ UNCHANGED <<pth, starter>>
-----------------------------------------------------------------------------
pthread_mutex_lock(t) == tp.owner = Nobody /\ tp' = [tp EXCEPT !.owner = t]

routine_lock(t) ==
    /\ pth[t].at = "lock"
    /\ pthread_mutex_lock(t)
    /\ Stage(t, "check")
    /\ UNCHANGED starter

\* Waits, which gives the mutex back, or goes on.
routine_check(t) ==
    /\ pth[t].at = "check"
    /\ IF tp.size = 0
       THEN tp' = [tp EXCEPT !.owner = Nobody, !.waiting = @ \cup {t}] /\ Stage(t, "wait")
       ELSE Stage(t, "take") /\ UNCHANGED tp
    /\ UNCHANGED starter

\* Mutant: who is woken takes a job without looking again.
routine_wake_once(t) ==
    /\ pth[t].at = "wait" /\ t \notin tp.waiting
    /\ pthread_mutex_lock(t)
    /\ Stage(t, "take")
    /\ UNCHANGED starter

\* pthread_cond_wait returns with the mutex, and the loop looks again.
routine_wake(t) ==
    /\ pth[t].at = "wait" /\ t \notin tp.waiting
    /\ pthread_mutex_lock(t)
    /\ Stage(t, "check")
    /\ UNCHANGED starter

\* Takes the first of the list; with an empty list head is NULL.
routine_take(t) ==
    /\ pth[t].at = "take"
    /\ IF tp.head = <<>> THEN Stage(t, "crash") /\ UNCHANGED tp
       ELSE /\ tp' = [tp EXCEPT !.size = @ - 1, !.head = Tail(@), !.owner = Nobody]
            /\ pth' = [pth EXCEPT ![t] = [at |-> "run", job |-> Head(tp.head)]]
    /\ UNCHANGED starter

\* The routine returns: the job is freed under the mutex.
routine_return(t) ==
    /\ pth[t].at = "run"
    /\ tp.owner = Nobody
    /\ pth' = [pth EXCEPT ![t] = [at |-> "lock", job |-> NoJob]]
    /\ UNCHANGED <<tp, starter>>

thread_routine(t) == routine_lock(t) \/ routine_check(t) \/ routine_wake(t) \/ routine_take(t)

PoolNext ==
    \/ thread_pool_init \/ pthread_cond_signal
    \/ \E j \in Jobs : thread_pool_add_worker(j)
    \/ \E t \in Pthreads : thread_creat(t) \/ Spurious(t) \/ thread_routine(t) \/ routine_return(t)

PoolSpec == PoolInit /\ [][PoolNext]_poolVars

\* What the routine that t runs is told its index is.
thread_pool_get_tidx(t) == IF \E i \in 1..tp.num : tp.tid[i] = t THEN CHOOSE i \in 1..tp.num : tp.tid[i] = t ELSE -1
-----------------------------------------------------------------------------
RunBy(j) == {t \in Pthreads : pth[t].job = j}

\* A job is on the list or with one thread, no thread takes from an empty list, and the size is
\* the length of the list for whoever has the mutex; two threads that run routines have different
\* indices, so that no two of them take the same queue.
JobsApart ==
    /\ \A j \in Jobs : Cardinality(RunBy(j)) + Cardinality({i \in DOMAIN tp.head : tp.head[i] = j}) <= 1
    /\ \A t \in Pthreads : pth[t].at # "crash"
    /\ tp.size = Len(tp.head)
    /\ \A t \in Pthreads : pth[t].at = "run" =>
          /\ thread_pool_get_tidx(t) # -1
          /\ \A u \in Pthreads \ {t} : pth[u].at = "run" => thread_pool_get_tidx(u) # thread_pool_get_tidx(t)

\* Every routine that is added is taken up by a thread, although the signal is sent after the
\* mutex is returned, and is lost if nobody waits yet.
JobsTaken == \A j \in Jobs : (\E i \in DOMAIN tp.head : tp.head[i] = j) ~> RunBy(j) # {}
=============================================================================
