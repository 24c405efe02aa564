-------------------------------- MODULE Mref --------------------------------
(***************************************************************************)
(* Reference counts of memory blocks (lib/core/mref.c), kept in a table of *)
(* items by address (lib/core/hash_tab.c), each slot of which has a        *)
(* read/write lock.  The receive buffers and the messages of the servers   *)
(* are shared between threads that way: a message is in the lists of       *)
(* several connections, and whoever is last frees it.                      *)
(*                                                                         *)
(* A reference is what entitles a thread to use a block.  The threads pass *)
(* references on through queues, so a reference belongs to none of them:   *)
(* any thread may take up one that no call is busy with.  The allocator    *)
(* gives an address out again once it is freed.  One step is one access to *)
(* a lock, to the table or to a count.  The number of items of the table   *)
(* (total) is a statistic and is left out.                                 *)
(***************************************************************************)
EXTENDS Integers, FiniteSets

CONSTANTS
    Addrs,      \* addresses the allocator gives out
    Users,      \* threads
    Refs,       \* references there may be at a time
    Heads,      \* slots of the table
    Hash,       \* the slot of an address
    NoAddr, NoRef

ASSUME MrefAssumption ==
    /\ IsFiniteSet(Refs)
    /\ Hash \in [Addrs -> Heads]
    /\ NoAddr \notin Addrs /\ NoRef \notin Refs

VARIABLES
    count,      \* the items of the table: the count of an address, or NoItem
    lock,       \* of a slot: who reads and who writes
    mem,        \* blocks that are allocated
    ref,        \* the block a reference is to
    call        \* of a thread: the step it is at, the block, the reference it makes or
                \* gives up, and the one by which it knows the block

mrefVars == <<count, lock, mem, ref, call>>

NoItem == -1
NoCall == [at |-> "none", addr |-> NoAddr, ref |-> NoRef, via |-> NoRef]

hash_tab_creat ==
    /\ count = [a \in Addrs |-> NoItem]
    /\ lock = [s \in Heads |-> [rd |-> {}, wr |-> {}]]

mref_init ==
    /\ hash_tab_creat
    /\ mem = {}
    /\ ref = [r \in Refs |-> NoAddr]
    /\ call = [u \in Users |-> NoCall]

Step(u, at) == call' = [call EXCEPT ![u].at = at]
Busy(r) == \E u \in Users : r \in {call[u].ref, call[u].via}
Unused(r) == ref[r] = NoAddr /\ ~Busy(r)
-----------------------------------------------------------------------------
\* The table.  A query that finds the item keeps the lock until hash_tab_unlock.
Locked(u, s, mode) ==
    IF mode = "WRLOCK" THEN [lock EXCEPT ![s].wr = {u}] ELSE [lock EXCEPT ![s].rd = @ \cup {u}]

hash_tab_lock(s, mode) == lock[s].wr = {} /\ (mode = "WRLOCK" => lock[s].rd = {})

\* Mutant: a read lock is not returned.
unlock_write_only(u, s) == lock' = [lock EXCEPT ![s].wr = @ \ {u}]

hash_tab_unlock(u, s) == lock' = [lock EXCEPT ![s] = [rd |-> @.rd \ {u}, wr |-> @.wr \ {u}]]

hash_tab_query(u, mode) ==
    LET s == Hash[call[u].addr]
    IN  /\ hash_tab_lock(s, mode)
        /\ lock' = IF count[call[u].addr] = NoItem THEN lock ELSE Locked(u, s, mode)

\* Takes the lock, enters the item unless there is one, and returns the lock.
hash_tab_insert(u) ==
    LET a == call[u].addr
    IN  /\ hash_tab_lock(Hash[a], "WRLOCK")
        /\ IF count[a] = NoItem
           THEN /\ count' = [count EXCEPT ![a] = 1]
                /\ ref' = [ref EXCEPT ![call[u].ref] = a]
                /\ call' = [call EXCEPT ![u] = NoCall]
           ELSE Step(u, "add_query") /\ UNCHANGED <<count, ref>>
        /\ UNCHANGED lock

hash_tab_delete(a) == count' = [count EXCEPT ![a] = NoItem]
-----------------------------------------------------------------------------
mref_alloc(u, a, r) ==
    /\ call[u] = NoCall
    /\ a \notin mem
    /\ Unused(r)
    /\ mem' = mem \cup {a}
    /\ call' = [call EXCEPT ![u] = [at |-> "add_query", addr |-> a, ref |-> r, via |-> NoRef]]
    /\ UNCHANGED <<count, lock, ref>>

mref_add_query(u) ==
    /\ call[u].at = "add_query"
    /\ hash_tab_query(u, "RDLOCK")
    /\ Step(u, IF count[call[u].addr] # NoItem THEN "inc" ELSE "add_insert")
    /\ UNCHANGED <<count, mem, ref>>

mref_add_insert(u) ==
    /\ call[u].at = "add_insert"
    /\ hash_tab_insert(u)
    /\ UNCHANGED mem

\* mref_inc by one who has a reference to the block.
mref_inc(u, r, s) ==
    /\ call[u] = NoCall
    /\ ref[s] # NoAddr /\ ~Busy(s)
    /\ Unused(r) /\ r # s
    /\ call' = [call EXCEPT ![u] = [at |-> "inc_query", addr |-> ref[s], ref |-> r, via |-> s]]
    /\ UNCHANGED <<count, lock, mem, ref>>

\* A query that finds nothing is an assert(0).
mref_inc_query(u) ==
    /\ call[u].at = "inc_query"
    /\ hash_tab_query(u, "RDLOCK")
    /\ Step(u, IF count[call[u].addr] # NoItem THEN "inc" ELSE "assert")
    /\ UNCHANGED <<count, mem, ref>>

atomic32_inc(u) ==
    /\ call[u].at = "inc"
    /\ count' = [count EXCEPT ![call[u].addr] = @ + 1]
    /\ ref' = [ref EXCEPT ![call[u].ref] = call[u].addr]
    /\ Step(u, "unlock")
    /\ UNCHANGED <<lock, mem>>

\* mref_dec gives up a reference.
mref_dec(u, r) ==
    /\ call[u] = NoCall
    /\ ref[r] # NoAddr /\ ~Busy(r)
    /\ call' = [call EXCEPT ![u] = [at |-> "dec_query", addr |-> ref[r], ref |-> r, via |-> NoRef]]
    /\ UNCHANGED <<count, lock, mem, ref>>

mref_dec_query(u) ==
    /\ call[u].at = "dec_query"
    /\ hash_tab_query(u, "RDLOCK")
    /\ Step(u, IF count[call[u].addr] # NoItem THEN "dec" ELSE "assert")
    /\ UNCHANGED <<count, mem, ref>>

\* Mutant: the value returned is the one before the decrement.
atomic_dec_old(u) ==
    /\ call[u].at = "dec"
    /\ count' = [count EXCEPT ![call[u].addr] = @ - 1]
    /\ ref' = [ref EXCEPT ![call[u].ref] = NoAddr]
    /\ call' = [call EXCEPT ![u] = [@ EXCEPT !.at = IF count[call[u].addr] = 0 THEN "last_unlock" ELSE "unlock",
                                             !.ref = NoRef]]
    /\ UNCHANGED <<lock, mem>>

atomic32_dec(u) ==
    /\ call[u].at = "dec"
    /\ count' = [count EXCEPT ![call[u].addr] = @ - 1]
    /\ ref' = [ref EXCEPT ![call[u].ref] = NoAddr]
    /\ call' = [call EXCEPT ![u] = [@ EXCEPT !.at = IF count[call[u].addr] - 1 = 0 THEN "last_unlock" ELSE "unlock",
                                             !.ref = NoRef]]
    /\ UNCHANGED <<lock, mem>>

\* Mutant: who takes the count to zero frees the block at once, and again when the item is gone.
unlock_frees(u) ==
    /\ call[u].at \in {"unlock", "last_unlock"}
    /\ hash_tab_unlock(u, Hash[call[u].addr])
    /\ mem' = IF call[u].at = "unlock" THEN mem ELSE mem \ {call[u].addr}
    /\ IF call[u].at = "unlock" THEN call' = [call EXCEPT ![u] = NoCall] ELSE Step(u, "zero_query")
    /\ UNCHANGED <<count, ref>>

\* The read lock is returned; the call ends unless the count fell to zero.
mref_unlock(u) ==
    /\ call[u].at \in {"unlock", "last_unlock"}
    /\ hash_tab_unlock(u, Hash[call[u].addr])
    /\ IF call[u].at = "unlock" THEN call' = [call EXCEPT ![u] = NoCall] ELSE Step(u, "zero_query")
    /\ UNCHANGED <<count, mem, ref>>

mref_zero_query(u) ==
    /\ call[u].at = "zero_query"
    /\ hash_tab_query(u, "WRLOCK")
    /\ IF count[call[u].addr] # NoItem THEN Step(u, "zero") ELSE call' = [call EXCEPT ![u] = NoCall]
    /\ UNCHANGED <<count, mem, ref>>

\* The count is looked at again under the write lock.
mref_zero(u) ==
    /\ call[u].at = "zero"
    /\ IF count[call[u].addr] = 0
       THEN hash_tab_delete(call[u].addr) /\ Step(u, "gone_unlock")
       ELSE Step(u, "kept_unlock") /\ UNCHANGED count
    /\ UNCHANGED <<lock, mem, ref>>

mref_zero_unlock(u) ==
    /\ call[u].at \in {"gone_unlock", "kept_unlock"}
    /\ hash_tab_unlock(u, Hash[call[u].addr])
    /\ IF call[u].at = "gone_unlock" THEN Step(u, "dealloc") ELSE call' = [call EXCEPT ![u] = NoCall]
    /\ UNCHANGED <<count, mem, ref>>

item_dealloc(u) ==
    /\ call[u].at = "dealloc"
    /\ mem' = mem \ {call[u].addr}
    /\ call' = [call EXCEPT ![u] = NoCall]
    /\ UNCHANGED <<count, lock, ref>>

MrefNext ==
    \E u \in Users :
        \/ \E r \in Refs, a \in Addrs : mref_alloc(u, a, r)
        \/ \E r, s \in Refs : mref_inc(u, r, s)
        \/ \E r \in Refs : mref_dec(u, r)
        \/ mref_add_query(u) \/ mref_add_insert(u)
        \/ mref_inc_query(u) \/ atomic32_inc(u)
        \/ mref_dec_query(u) \/ atomic32_dec(u) \/ mref_unlock(u)
        \/ mref_zero_query(u) \/ mref_zero(u) \/ mref_zero_unlock(u) \/ item_dealloc(u)

MrefSpec == mref_init /\ [][MrefNext]_mrefVars
-----------------------------------------------------------------------------
RefsTo(a) == {r \in Refs : ref[r] = a}

\* A block that anyone has a reference to is allocated and counted, whatever the other threads
\* give up; one that is being freed is nobody's, and is freed by one thread; no assert fails.
RefsKept ==
    /\ \A r \in Refs : ref[r] # NoAddr => ref[r] \in mem /\ count[ref[r]] > 0
    /\ \A u \in Users : call[u].at = "dealloc" =>
          /\ call[u].addr \in mem
          /\ RefsTo(call[u].addr) = {}
          /\ \A v \in Users \ {u} : call[v].at = "dealloc" => call[v].addr # call[u].addr
    /\ \A u \in Users : call[u].at # "assert"

\* When no call is under way, what is allocated is what somebody refers to, and the table has
\* an item for each such block and no other, with the number of its references.
NoLeak ==
    (\A u \in Users : call[u] = NoCall) =>
        \A a \in Addrs :
            /\ a \in mem <=> RefsTo(a) # {}
            /\ count[a] = IF a \in mem THEN Cardinality(RefsTo(a)) ELSE NoItem

\* A thread that is in no call has no lock, and nobody reads a slot that is being written.
LocksReturned ==
    \A s \in Heads :
        /\ lock[s].wr # {} => lock[s].rd = {}
        /\ \A u \in lock[s].rd \cup lock[s].wr : call[u] # NoCall /\ Hash[call[u].addr] = s
=============================================================================
