----------------------------- MODULE CoreProofs -----------------------------
(***************************************************************************)
(* Proofs about lib/core: that reference counts are right (Mref), for any  *)
(* number of blocks, references and threads; that the jobs of a thread     *)
(* pool and the indices of its threads are kept apart (ThreadPool), for    *)
(* any number of threads and jobs; and that the lock free ring is a        *)
(* first-in first-out queue (Queue), for any number of threads, any size   *)
(* and any width of the indices.  And about lib/rtmq/proxy, which is built *)
(* on such queues: that a connection begins with its own hand shake, and   *)
(* that no message on its way out or in is doubled or forgotten            *)
(* (RtmqProxy), for any number of threads, types and messages.             *)
(***************************************************************************)
EXTENDS Queue, Mref, ThreadPool, RtmqProxy, FiniteSetTheorems, SequenceTheorems, TLAPS

-----------------------------------------------------------------------------
(* Reference counts. *)

\* A thread that has a block to itself: it has allocated it and not yet entered it in the
\* table, or it took the count to zero and has not yet freed it.
Entering == {"add_query", "add_insert"}
Emptying == {"last_unlock", "zero_query", "zero"}
Freeing == {"gone_unlock", "dealloc"}
Claims(u) == call[u].at \in Entering \cup Emptying \cup Freeing
Making == {"add_query", "add_insert", "inc_query", "inc"}
GivingUp == {"dec_query", "dec"}
Steps == Entering \cup Emptying \cup Freeing \cup Making \cup GivingUp \cup {"none", "unlock"}
Calls == [at : Steps, addr : Addrs \cup {NoAddr}, ref : Refs \cup {NoRef}, via : Refs \cup {NoRef}]

Typed ==
    /\ count \in [Addrs -> Int]
    /\ mem \subseteq Addrs
    /\ ref \in [Refs -> Addrs \cup {NoAddr}]
    /\ call \in [Users -> Calls]

\* What a call is about: its block, and references no other call is about.
CallsRight ==
    \A u \in Users :
        /\ call[u] # NoCall => call[u].at # "none" /\ call[u].addr \in Addrs
        /\ call[u].at \in Making => call[u].ref \in Refs /\ ref[call[u].ref] = NoAddr
        /\ call[u].at \in {"inc_query", "inc"} => call[u].via \in Refs /\ ref[call[u].via] = call[u].addr
        /\ call[u].at \in GivingUp => call[u].ref \in Refs /\ ref[call[u].ref] = call[u].addr /\ call[u].via = NoRef
        /\ call[u].at \in Emptying \cup Freeing => call[u].ref = NoRef /\ call[u].via = NoRef

BlocksApart ==
    \A u, v \in Users :
        u # v => {call[u].ref, call[u].via} \cap {call[v].ref, call[v].via} \subseteq {NoRef}

RefsCounted == \A a \in Addrs : IF count[a] = NoItem THEN RefsTo(a) = {} ELSE count[a] = Cardinality(RefsTo(a))

Claimed ==
    \A u \in Users : Claims(u) =>
        /\ call[u].addr \in mem
        /\ RefsTo(call[u].addr) = {}
        /\ count[call[u].addr] = NoItem <=> call[u].at \notin Emptying

ClaimsApart == \A u, v \in Users : u # v /\ Claims(u) /\ Claims(v) => call[u].addr # call[v].addr

Accounted ==
    \A a \in Addrs :
        /\ a \in mem => RefsTo(a) # {} \/ \E u \in Users : Claims(u) /\ call[u].addr = a
        /\ count[a] # NoItem => a \in mem

IInv == Typed /\ CallsRight /\ BlocksApart /\ RefsCounted /\ Claimed /\ ClaimsApart /\ Accounted
-----------------------------------------------------------------------------
\* The number of references to a block, of which there are finitely many.
LEMMA RefsFinite ==
    ASSUME NEW a
    PROVE  IsFiniteSet(RefsTo(a)) /\ Cardinality(RefsTo(a)) \in Nat
<1>1. IsFiniteSet(Refs) BY MrefAssumption
<1>2. RefsTo(a) \subseteq Refs BY DEF RefsTo
<1>3. IsFiniteSet(RefsTo(a)) BY <1>1, <1>2, FS_Subset
<1> QED BY <1>3, FS_CardinalityType

\* There are no references to a block exactly if their number is zero.
LEMMA NoneIsZero ==
    ASSUME NEW a
    PROVE  Cardinality(RefsTo(a)) = 0 <=> RefsTo(a) = {}
<1>1. IsFiniteSet(RefsTo(a)) BY RefsFinite
<1> QED BY <1>1, FS_EmptySet

\* A reference that is made counts for its block alone.
LEMMA RefMade ==
    ASSUME NEW r \in Refs, NEW a \in Addrs, Typed, ref[r] = NoAddr,
           ref' = [ref EXCEPT ![r] = a]
    PROVE  /\ RefsTo(a)' = RefsTo(a) \cup {r}
           /\ Cardinality(RefsTo(a)') = Cardinality(RefsTo(a)) + 1
           /\ \A b \in Addrs \ {a} : RefsTo(b)' = RefsTo(b)
<1>1. RefsTo(a)' = RefsTo(a) \cup {r} BY DEF RefsTo, Typed
<1>2. r \notin RefsTo(a) BY MrefAssumption DEF RefsTo
<1>3. Cardinality(RefsTo(a) \cup {r}) = Cardinality(RefsTo(a)) + 1
      BY <1>2, RefsFinite, FS_AddElement
<1>4. \A b \in Addrs \ {a} : RefsTo(b)' = RefsTo(b) BY MrefAssumption DEF RefsTo, Typed
<1> QED BY <1>1, <1>3, <1>4

\* And so does one that is given up.
LEMMA RefGivenUp ==
    ASSUME NEW r \in Refs, NEW a \in Addrs, Typed, ref[r] = a,
           ref' = [ref EXCEPT ![r] = NoAddr]
    PROVE  /\ RefsTo(a)' = RefsTo(a) \ {r}
           /\ Cardinality(RefsTo(a)') = Cardinality(RefsTo(a)) - 1
           /\ \A b \in Addrs \ {a} : RefsTo(b)' = RefsTo(b)
<1>1. RefsTo(a)' = RefsTo(a) \ {r} BY MrefAssumption DEF RefsTo, Typed
<1>2. r \in RefsTo(a) BY DEF RefsTo
<1>3. Cardinality(RefsTo(a) \ {r}) = Cardinality(RefsTo(a)) - 1
      BY <1>2, RefsFinite, FS_RemoveElement
<1>4. \A b \in Addrs \ {a} : RefsTo(b)' = RefsTo(b) BY MrefAssumption DEF RefsTo, Typed
<1> QED BY <1>1, <1>3, <1>4

\* The table starts empty (mref_init).
LEMMA MrefInitHolds == mref_init => IInv
<1> SUFFICES ASSUME mref_init PROVE IInv OBVIOUS
<1>1. Typed BY DEF mref_init, hash_tab_creat, Typed, Calls, Steps, NoCall, NoItem
<1>2. CallsRight BY <1>1 DEF mref_init, CallsRight, NoCall, Making, GivingUp, Emptying, Freeing
<1>3. BlocksApart BY DEF mref_init, BlocksApart, NoCall
<1>4. \A a \in Addrs : RefsTo(a) = {} BY MrefAssumption DEF mref_init, RefsTo
<1>5. \A u \in Users : ~Claims(u) BY DEF mref_init, NoCall, Claims, Entering, Emptying, Freeing
<1> QED BY <1>1, <1>2, <1>3, <1>4, <1>5 DEF mref_init, hash_tab_creat, IInv, RefsCounted, Claimed, ClaimsApart, Accounted, NoItem
-----------------------------------------------------------------------------
\* The facts about one call that CallsRight asks for.
Right(c) ==
    /\ c # NoCall => c.at # "none" /\ c.addr \in Addrs
    /\ c.at \in Making => c.ref \in Refs /\ ref[c.ref] = NoAddr
    /\ c.at \in {"inc_query", "inc"} => c.via \in Refs /\ ref[c.via] = c.addr
    /\ c.at \in GivingUp => c.ref \in Refs /\ ref[c.ref] = c.addr /\ c.via = NoRef
    /\ c.at \in Emptying \cup Freeing => c.ref = NoRef /\ c.via = NoRef

\* A step of a call that changes no count, block or reference, and neither begins nor ends
\* the time for which the thread has the block to itself.
LEMMA Moved ==
    ASSUME IInv, NEW u \in Users, NEW c \in Calls,
           call' = [call EXCEPT ![u] = c], UNCHANGED <<count, mem, ref>>,
           {c.ref, c.via} \subseteq {call[u].ref, call[u].via, NoRef},
           Right(c),
           Claims(u) <=> c.at \in Entering \cup Emptying \cup Freeing,
           Claims(u) => c.addr = call[u].addr /\ (c.at \in Emptying <=> call[u].at \in Emptying)
    PROVE  IInv'
<1>1. Typed' BY DEF IInv, Typed
<1>2. CallsRight' BY DEF IInv, Typed, CallsRight, Right
<1>3. BlocksApart' BY DEF IInv, Typed, BlocksApart
<1>4. \A a : RefsTo(a)' = RefsTo(a) BY DEF RefsTo
<1>5. RefsCounted' BY <1>4 DEF IInv, RefsCounted
<1>6. \A v \in Users : Claims(v)' <=> Claims(v) BY DEF IInv, Typed, Claims
<1>7. \A v \in Users : Claims(v) => call'[v].addr = call[v].addr BY DEF IInv, Typed
<1>8. Claimed' BY <1>4, <1>6, <1>7 DEF IInv, Typed, Claimed
<1>9. ClaimsApart' BY <1>6, <1>7 DEF IInv, ClaimsApart
<1>10. Accounted' BY <1>4, <1>6, <1>7 DEF IInv, Accounted
<1> QED BY <1>1, <1>2, <1>3, <1>5, <1>8, <1>9, <1>10 DEF IInv

\* A block that a call knows by a reference is in the table.
LEMMA Known ==
    ASSUME IInv, NEW u \in Users, call[u].at \in {"inc_query", "inc"} \cup GivingUp
    PROVE  call[u].addr \in Addrs /\ count[call[u].addr] # NoItem /\ RefsTo(call[u].addr) # {}
<1>1. call[u].addr \in Addrs BY DEF IInv, CallsRight, NoCall, GivingUp
<1>2. \E r \in Refs : ref[r] = call[u].addr BY DEF IInv, CallsRight
<1>3. RefsTo(call[u].addr) # {} BY <1>2 DEF RefsTo
<1> QED BY <1>1, <1>3 DEF IInv, RefsCounted

\* mref_alloc takes a free block, which is then its own.
LEMMA AllocHolds ==
    ASSUME IInv, NEW u \in Users, NEW a \in Addrs, NEW r \in Refs, mref_alloc(u, a, r)
    PROVE  IInv'
<1> DEFINE c == [at |-> "add_query", addr |-> a, ref |-> r, via |-> NoRef]
<1>0. call' = [call EXCEPT ![u] = c] /\ c \in Calls /\ mem' = mem \cup {a} /\ UNCHANGED <<count, ref>>
      BY DEF mref_alloc, Calls, Steps, Entering
<1>1. Typed' BY <1>0 DEF IInv, Typed
<1>2. CallsRight' BY <1>0 DEF IInv, Typed, CallsRight, mref_alloc, Unused, Making, GivingUp, Emptying, Freeing
<1>3. BlocksApart' BY <1>0 DEF IInv, Typed, BlocksApart, mref_alloc, Unused, Busy
<1>4. \A b : RefsTo(b)' = RefsTo(b) BY <1>0 DEF RefsTo
<1>5. RefsCounted' BY <1>0, <1>4 DEF IInv, RefsCounted
<1>6. a \notin mem /\ ~Claims(u) BY DEF mref_alloc, NoCall, Claims, Entering, Emptying, Freeing
<1>7. count[a] = NoItem BY <1>6 DEF IInv, Accounted
<1>8. RefsTo(a) = {} BY <1>7 DEF IInv, RefsCounted
<1>9. \A v \in Users : Claims(v)' <=> v = u \/ Claims(v) BY <1>0 DEF IInv, Typed, Claims, Entering
<1>10. \A v \in Users \ {u} : call'[v] = call[v] BY <1>0 DEF IInv, Typed
<1>11. call'[u] = c BY <1>0 DEF IInv, Typed
<1>12. \A v \in Users : Claims(v) => call[v].addr # a BY <1>6 DEF IInv, Claimed
<1>13. Claimed' BY <1>0, <1>4, <1>7, <1>8, <1>9, <1>10, <1>11 DEF IInv, Claimed, Emptying
<1>14. ClaimsApart' BY <1>9, <1>10, <1>11, <1>12 DEF IInv, ClaimsApart
<1>15. Accounted' BY <1>0, <1>4, <1>6, <1>9, <1>10, <1>11 DEF IInv, Accounted
<1> QED BY <1>1, <1>2, <1>3, <1>5, <1>13, <1>14, <1>15 DEF IInv

\* The query of mref_add finds no item for a block that was just allocated.
LEMMA AddQueryHolds ==
    ASSUME IInv, NEW u \in Users, mref_add_query(u)
    PROVE  IInv'
<1> DEFINE c == [call[u] EXCEPT !.at = "add_insert"]
<1>1. count[call[u].addr] = NoItem
      BY DEF mref_add_query, IInv, Claimed, Claims, Entering, Emptying
<1>2. call[u] \in Calls BY DEF IInv, Typed
<1>3. c \in Calls /\ c.at = "add_insert" /\ c.addr = call[u].addr /\ c.ref = call[u].ref /\ c.via = call[u].via
      BY <1>2 DEF Calls, Steps, Entering
<1>4. call' = [call EXCEPT ![u] = c] /\ UNCHANGED <<count, mem, ref>>
      BY <1>1, <1>2 DEF mref_add_query, Step, Calls
<1>5. Right(c) BY <1>3 DEF Right, mref_add_query, IInv, CallsRight, NoCall, Making, GivingUp, Emptying, Freeing
<1>6. Claims(u) BY DEF mref_add_query, Claims, Entering
<1> QED BY <1>3, <1>4, <1>5, <1>6, Moved DEF mref_add_query, Entering, Emptying

\* mref_add enters the block with one reference, which is the one it returns.
LEMMA AddInsertHolds ==
    ASSUME IInv, NEW u \in Users, mref_add_insert(u)
    PROVE  IInv'
<1>1. Claims(u) BY DEF mref_add_insert, Claims, Entering
<1>2. PICK a \in Addrs, r \in Refs : a = call[u].addr /\ r = call[u].ref /\ ref[r] = NoAddr
      BY DEF mref_add_insert, IInv, CallsRight, NoCall, Making
<1>3. count[a] = NoItem /\ a \in mem /\ RefsTo(a) = {}
      BY <1>1, <1>2 DEF mref_add_insert, IInv, Claimed, Emptying
<1>4. /\ count' = [count EXCEPT ![a] = 1]
      /\ ref' = [ref EXCEPT ![r] = a]
      /\ call' = [call EXCEPT ![u] = NoCall]
      /\ mem' = mem
      BY <1>2, <1>3 DEF mref_add_insert, hash_tab_insert
<1>5. NoCall \in Calls BY DEF NoCall, Calls, Steps
<1>6. Typed' BY <1>2, <1>4, <1>5 DEF IInv, Typed
<1>7. /\ RefsTo(a)' = {r} /\ Cardinality(RefsTo(a)') = 1
      /\ \A b \in Addrs \ {a} : RefsTo(b)' = RefsTo(b)
  <2>1. Cardinality(RefsTo(a)) = 0 BY <1>3, NoneIsZero
  <2>2. /\ RefsTo(a)' = RefsTo(a) \cup {r}
        /\ Cardinality(RefsTo(a)') = Cardinality(RefsTo(a)) + 1
        /\ \A b \in Addrs \ {a} : RefsTo(b)' = RefsTo(b)
        BY <1>2, <1>4, RefMade DEF IInv
  <2> QED BY <1>3, <2>1, <2>2
<1>8. \A v \in Users \ {u} : call'[v] = call[v] /\ r \notin {call[v].ref, call[v].via}
      BY <1>2, <1>4, MrefAssumption DEF IInv, Typed, BlocksApart
<1>9. call'[u] = NoCall BY <1>4 DEF IInv, Typed
<1>10. \A s \in Refs : s # r => ref'[s] = ref[s] BY <1>4 DEF IInv, Typed
<1>11. CallsRight'
  <2> SUFFICES ASSUME NEW v \in Users PROVE Right(call[v])' BY DEF CallsRight, Right
  <2>1. CASE v = u BY <2>1, <1>9 DEF Right, NoCall, Making, GivingUp, Emptying, Freeing
  <2>2. CASE v # u
    <3>1. Right(call[v]) BY DEF IInv, CallsRight, Right
    <3> QED BY <2>2, <3>1, <1>8, <1>10 DEF Right
  <2> QED BY <2>1, <2>2
<1>12. BlocksApart' BY <1>8, <1>9, MrefAssumption DEF IInv, BlocksApart, NoCall
<1>13. RefsCounted'
  <2> SUFFICES ASSUME NEW b \in Addrs
               PROVE  IF count'[b] = NoItem THEN RefsTo(b)' = {} ELSE count'[b] = Cardinality(RefsTo(b)')
      BY DEF RefsCounted
  <2>1. CASE b = a BY <2>1, <1>4, <1>7 DEF IInv, Typed, NoItem
  <2>2. CASE b # a
    <3>1. count'[b] = count[b] BY <2>2, <1>2, <1>4 DEF IInv, Typed
    <3> QED BY <2>2, <3>1, <1>7 DEF IInv, RefsCounted
  <2> QED BY <2>1, <2>2
<1>14. \A v \in Users : Claims(v)' <=> v # u /\ Claims(v)
      BY <1>8, <1>9 DEF Claims, NoCall, Entering, Emptying, Freeing
<1>15. \A v \in Users : Claims(v)' => call[v].addr # a BY <1>1, <1>2, <1>14 DEF IInv, ClaimsApart
<1>16. Claimed'
  <2> SUFFICES ASSUME NEW v \in Users, Claims(v)'
               PROVE  /\ call'[v].addr \in mem'
                      /\ RefsTo(call[v].addr)' = {}
                      /\ count'[call'[v].addr] = NoItem <=> call'[v].at \notin Emptying
      BY DEF Claimed
  <2>1. v # u /\ Claims(v) /\ call'[v] = call[v] /\ call[v].addr # a BY <1>8, <1>14, <1>15
  <2>2. call[v].addr \in Addrs BY <2>1 DEF IInv, Claimed, Typed
  <2>3. count'[call[v].addr] = count[call[v].addr] BY <2>1, <2>2, <1>4 DEF IInv, Typed
  <2>4. RefsTo(call[v].addr)' = RefsTo(call[v].addr) BY <2>1, <2>2, <1>7 DEF RefsTo
  <2> QED BY <2>1, <2>3, <2>4, <1>4 DEF IInv, Claimed
<1>17. ClaimsApart' BY <1>8, <1>14 DEF IInv, ClaimsApart
<1>18. Accounted'
  <2> SUFFICES ASSUME NEW b \in Addrs
               PROVE  /\ b \in mem' => RefsTo(b)' # {} \/ \E v \in Users : Claims(v)' /\ call'[v].addr = b
                      /\ count'[b] # NoItem => b \in mem'
      BY DEF Accounted
  <2>1. CASE b = a BY <2>1, <1>3, <1>4, <1>7
  <2>2. CASE b # a
    <3>1. count'[b] = count[b] /\ RefsTo(b)' = RefsTo(b) BY <2>2, <1>2, <1>4, <1>7 DEF IInv, Typed
    <3>2. \A v \in Users : Claims(v) /\ call[v].addr = b => Claims(v)' /\ call'[v].addr = b
          BY <2>2, <1>2, <1>8, <1>14
    <3> QED BY <3>1, <3>2, <1>4 DEF IInv, Accounted
  <2> QED BY <2>1, <2>2
<1> QED BY <1>6, <1>11, <1>12, <1>13, <1>16, <1>17, <1>18 DEF IInv

\* mref_inc starts with a reference that nobody gives up meanwhile.
LEMMA IncHolds ==
    ASSUME IInv, NEW u \in Users, NEW r \in Refs, NEW s \in Refs, mref_inc(u, r, s)
    PROVE  IInv'
<1> DEFINE c == [at |-> "inc_query", addr |-> ref[s], ref |-> r, via |-> s]
<1>1. ref[s] \in Addrs BY DEF mref_inc, IInv, Typed
<1>2. c \in Calls BY <1>1 DEF Calls, Steps, Making
<1>3. call' = [call EXCEPT ![u] = c] /\ UNCHANGED <<count, mem, ref>> BY DEF mref_inc
<1>4. ~Claims(u) BY DEF mref_inc, NoCall, Claims, Entering, Emptying, Freeing
<1>5. Typed' BY <1>2, <1>3 DEF IInv, Typed
<1>6. CallsRight' BY <1>1, <1>3 DEF IInv, Typed, CallsRight, mref_inc, Unused, Making, GivingUp, Emptying, Freeing
<1>7. BlocksApart' BY <1>3 DEF IInv, Typed, BlocksApart, mref_inc, Unused, Busy
<1>8. \A a : RefsTo(a)' = RefsTo(a) BY <1>3 DEF RefsTo
<1>9. \A v \in Users : (Claims(v)' <=> Claims(v)) /\ (Claims(v) => call'[v] = call[v])
      BY <1>3, <1>4 DEF IInv, Typed, Claims, Entering, Emptying, Freeing
<1>10. RefsCounted' BY <1>3, <1>8 DEF IInv, RefsCounted
<1>11. Claimed' BY <1>3, <1>8, <1>9 DEF IInv, Claimed
<1>12. ClaimsApart' BY <1>9 DEF IInv, ClaimsApart
<1>13. Accounted' BY <1>3, <1>8, <1>9 DEF IInv, Accounted
<1> QED BY <1>5, <1>6, <1>7, <1>10, <1>11, <1>12, <1>13 DEF IInv

\* mref_dec starts with a reference that nobody else uses.
LEMMA DecHolds ==
    ASSUME IInv, NEW u \in Users, NEW r \in Refs, mref_dec(u, r)
    PROVE  IInv'
<1> DEFINE c == [at |-> "dec_query", addr |-> ref[r], ref |-> r, via |-> NoRef]
<1>1. ref[r] \in Addrs BY DEF mref_dec, IInv, Typed
<1>2. c \in Calls BY <1>1 DEF Calls, Steps, GivingUp
<1>3. call' = [call EXCEPT ![u] = c] /\ UNCHANGED <<count, mem, ref>> BY DEF mref_dec
<1>4. ~Claims(u) BY DEF mref_dec, NoCall, Claims, Entering, Emptying, Freeing
<1>5. Typed' BY <1>2, <1>3 DEF IInv, Typed
<1>6. CallsRight' BY <1>1, <1>3 DEF IInv, Typed, CallsRight, Making, GivingUp, Emptying, Freeing
<1>7. BlocksApart' BY <1>3 DEF IInv, Typed, BlocksApart, mref_dec, Busy
<1>8. \A a : RefsTo(a)' = RefsTo(a) BY <1>3 DEF RefsTo
<1>9. \A v \in Users : (Claims(v)' <=> Claims(v)) /\ (Claims(v) => call'[v] = call[v])
      BY <1>3, <1>4 DEF IInv, Typed, Claims, Entering, Emptying, Freeing
<1>10. RefsCounted' BY <1>3, <1>8 DEF IInv, RefsCounted
<1>11. Claimed' BY <1>3, <1>8, <1>9 DEF IInv, Claimed
<1>12. ClaimsApart' BY <1>9 DEF IInv, ClaimsApart
<1>13. Accounted' BY <1>3, <1>8, <1>9 DEF IInv, Accounted
<1> QED BY <1>5, <1>6, <1>7, <1>10, <1>11, <1>12, <1>13 DEF IInv

\* The look-ups of mref_inc and mref_dec find the item.
LEMMA QueryHolds ==
    ASSUME IInv, NEW u \in Users, mref_inc_query(u) \/ mref_dec_query(u)
    PROVE  IInv'
<1> DEFINE c == [call[u] EXCEPT !.at = IF @ = "inc_query" THEN "inc" ELSE "dec"]
<1>1. call[u].at \in {"inc_query", "dec_query"} BY DEF mref_inc_query, mref_dec_query
<1>2. count[call[u].addr] # NoItem BY <1>1, Known DEF GivingUp
<1>3. call[u] \in Calls BY DEF IInv, Typed
<1>4. /\ c \in Calls /\ c.addr = call[u].addr /\ c.ref = call[u].ref /\ c.via = call[u].via
      /\ c.at = IF call[u].at = "inc_query" THEN "inc" ELSE "dec"
      BY <1>3 DEF Calls, Steps, Making, GivingUp
<1>5. call' = [call EXCEPT ![u] = c] /\ UNCHANGED <<count, mem, ref>>
      BY <1>2, <1>3 DEF mref_inc_query, mref_dec_query, Step, Calls
<1>6. Right(c) BY <1>1, <1>4 DEF Right, IInv, CallsRight, NoCall, Making, GivingUp, Emptying, Freeing
<1>7. ~Claims(u) /\ c.at \notin Entering \cup Emptying \cup Freeing
      BY <1>1, <1>4 DEF Claims, Entering, Emptying, Freeing
<1> QED BY <1>4, <1>5, <1>6, <1>7, Moved

\* The increment of mref_inc makes one reference.
LEMMA AtomicIncHolds ==
    ASSUME IInv, NEW u \in Users, atomic32_inc(u)
    PROVE  IInv'
<1>1. PICK a \in Addrs, r \in Refs, s \in Refs :
          a = call[u].addr /\ r = call[u].ref /\ s = call[u].via /\ ref[r] = NoAddr /\ ref[s] = a
      BY DEF atomic32_inc, IInv, CallsRight, NoCall, Making
<1>2. count[a] = Cardinality(RefsTo(a)) /\ RefsTo(a) # {} /\ a \in mem /\ count[a] \in Nat
      BY <1>1, Known, RefsFinite DEF atomic32_inc, IInv, RefsCounted, Accounted
<1>3. /\ count' = [count EXCEPT ![a] = @ + 1]
      /\ ref' = [ref EXCEPT ![r] = a]
      /\ call' = [call EXCEPT ![u].at = "unlock"]
      /\ mem' = mem
      BY <1>1 DEF atomic32_inc, Step
<1>4. call[u] \in Calls BY DEF IInv, Typed
<1>5. call' \in [Users -> Calls] /\ call'[u].at = "unlock" /\ call'[u].addr = a
      /\ call'[u].ref = r /\ call'[u].via = s
      BY <1>1, <1>3, <1>4 DEF IInv, Typed, Calls, Steps
<1>6. Typed' BY <1>1, <1>2, <1>3, <1>5 DEF IInv, Typed
<1>7. /\ RefsTo(a)' = RefsTo(a) \cup {r}
      /\ Cardinality(RefsTo(a)') = Cardinality(RefsTo(a)) + 1
      /\ \A b \in Addrs \ {a} : RefsTo(b)' = RefsTo(b)
      BY <1>1, <1>3, RefMade DEF IInv
<1>8. \A v \in Users \ {u} : call'[v] = call[v] /\ r \notin {call[v].ref, call[v].via}
      BY <1>1, <1>3, MrefAssumption DEF IInv, Typed, BlocksApart
<1>9. \A q \in Refs : q # r => ref'[q] = ref[q] BY <1>3 DEF IInv, Typed
<1>10. CallsRight'
  <2> SUFFICES ASSUME NEW v \in Users PROVE Right(call[v])' BY DEF CallsRight, Right
  <2>1. CASE v = u BY <2>1, <1>5 DEF Right, NoCall, Making, GivingUp, Emptying, Freeing
  <2>2. CASE v # u
    <3>1. Right(call[v]) BY DEF IInv, CallsRight, Right
    <3> QED BY <2>2, <3>1, <1>8, <1>9 DEF Right
  <2> QED BY <2>1, <2>2
<1>11. BlocksApart' BY <1>1, <1>5, <1>8 DEF IInv, BlocksApart
<1>12. RefsCounted'
  <2> SUFFICES ASSUME NEW b \in Addrs
               PROVE  IF count'[b] = NoItem THEN RefsTo(b)' = {} ELSE count'[b] = Cardinality(RefsTo(b)')
      BY DEF RefsCounted
  <2>1. CASE b = a BY <2>1, <1>2, <1>3, <1>7 DEF IInv, Typed, NoItem
  <2>2. CASE b # a
    <3>1. count'[b] = count[b] BY <2>2, <1>3 DEF IInv, Typed
    <3> QED BY <2>2, <3>1, <1>7 DEF IInv, RefsCounted
  <2> QED BY <2>1, <2>2
<1>13. ~Claims(u) BY DEF atomic32_inc, Claims, Entering, Emptying, Freeing
<1>14. \A v \in Users : Claims(v)' <=> v # u /\ Claims(v)
      BY <1>5, <1>8 DEF Claims, Entering, Emptying, Freeing
<1>15. \A v \in Users : Claims(v) => call[v].addr \in Addrs \ {a}
      BY <1>2 DEF IInv, Claimed, Typed
<1>16. Claimed'
  <2> SUFFICES ASSUME NEW v \in Users, Claims(v)'
               PROVE  /\ call'[v].addr \in mem'
                      /\ RefsTo(call[v].addr)' = {}
                      /\ count'[call'[v].addr] = NoItem <=> call'[v].at \notin Emptying
      BY DEF Claimed
  <2>1. v # u /\ Claims(v) /\ call'[v] = call[v] /\ call[v].addr \in Addrs \ {a} BY <1>8, <1>14, <1>15
  <2>2. count'[call[v].addr] = count[call[v].addr] BY <2>1, <1>3 DEF IInv, Typed
  <2>3. RefsTo(call[v].addr)' = RefsTo(call[v].addr) BY <2>1, <1>7 DEF RefsTo
  <2> QED BY <2>1, <2>2, <2>3, <1>3 DEF IInv, Claimed
<1>17. ClaimsApart' BY <1>8, <1>14 DEF IInv, ClaimsApart
<1>18. Accounted'
  <2> SUFFICES ASSUME NEW b \in Addrs
               PROVE  /\ b \in mem' => RefsTo(b)' # {} \/ \E v \in Users : Claims(v)' /\ call'[v].addr = b
                      /\ count'[b] # NoItem => b \in mem'
      BY DEF Accounted
  <2>1. CASE b = a BY <2>1, <1>2, <1>3, <1>7
  <2>2. CASE b # a
    <3>1. count'[b] = count[b] /\ RefsTo(b)' = RefsTo(b) BY <2>2, <1>3, <1>7 DEF IInv, Typed
    <3>2. \A v \in Users : Claims(v) => Claims(v)' /\ call'[v].addr = call[v].addr BY <1>8, <1>13, <1>14
    <3> QED BY <3>1, <3>2, <1>3 DEF IInv, Accounted
  <2> QED BY <2>1, <2>2
<1> QED BY <1>6, <1>10, <1>11, <1>12, <1>16, <1>17, <1>18 DEF IInv

\* The decrement of mref_dec gives up one reference; who gives up the last has the block.
LEMMA AtomicDecHolds ==
    ASSUME IInv, NEW u \in Users, atomic32_dec(u)
    PROVE  IInv'
<1>0. call[u].at = "dec" /\ call[u] \in Calls BY DEF atomic32_dec, IInv, Typed
<1>1. PICK a \in Addrs, r \in Refs : a = call[u].addr /\ r = call[u].ref /\ ref[r] = a /\ call[u].via = NoRef
      BY <1>0 DEF IInv, CallsRight, NoCall, GivingUp
<1>2. count[a] # NoItem /\ RefsTo(a) # {} BY <1>0, <1>1, Known DEF GivingUp
<1>3. count[a] = Cardinality(RefsTo(a)) /\ a \in mem BY <1>2 DEF IInv, RefsCounted, Accounted
<1>4. count[a] \in Nat /\ count[a] # 0 BY <1>2, <1>3, RefsFinite, NoneIsZero
<1> DEFINE c == [call[u] EXCEPT !.at = IF count[a] - 1 = 0 THEN "last_unlock" ELSE "unlock", !.ref = NoRef]
<1>5. /\ count' = [count EXCEPT ![a] = @ - 1]
      /\ ref' = [ref EXCEPT ![r] = NoAddr]
      /\ call' = [call EXCEPT ![u] = c]
      /\ mem' = mem
      BY <1>1 DEF atomic32_dec
<1>6. /\ c \in Calls /\ c.addr = a /\ c.ref = NoRef /\ c.via = NoRef
      /\ c.at = IF count[a] = 1 THEN "last_unlock" ELSE "unlock"
  <2>1. count[a] - 1 = 0 <=> count[a] = 1 BY <1>4
  <2>2. "last_unlock" \in Steps /\ "unlock" \in Steps BY DEF Steps, Emptying
  <2> QED BY <1>0, <1>1, <2>1, <2>2 DEF Calls
<1> HIDE DEF c
<1>7. call'[u] = c BY <1>5 DEF IInv, Typed
<1>8. Typed' BY <1>4, <1>5, <1>6 DEF IInv, Typed
<1>9. /\ RefsTo(a)' = RefsTo(a) \ {r}
      /\ Cardinality(RefsTo(a)') = Cardinality(RefsTo(a)) - 1
      /\ \A b \in Addrs \ {a} : RefsTo(b)' = RefsTo(b)
      BY <1>1, <1>5, RefGivenUp DEF IInv
<1>10. count'[a] = count[a] - 1 /\ \A b \in Addrs \ {a} : count'[b] = count[b]
      BY <1>5 DEF IInv, Typed
<1>11. RefsTo(a)' = {} <=> count[a] = 1
  <2>1. Cardinality(RefsTo(a)') = count[a] - 1 BY <1>3, <1>9
  <2>2. Cardinality(RefsTo(a)') = 0 <=> RefsTo(a)' = {}
    <3>1. IsFiniteSet(RefsTo(a)') BY <1>9, RefsFinite, FS_Subset
    <3> QED BY <3>1, FS_EmptySet
  <2> QED BY <1>4, <2>1, <2>2
<1>12. \A v \in Users \ {u} : call'[v] = call[v] /\ r \notin {call[v].ref, call[v].via}
      BY <1>1, <1>5, MrefAssumption DEF IInv, Typed, BlocksApart
<1>13. \A q \in Refs : q # r => ref'[q] = ref[q] BY <1>5 DEF IInv, Typed
<1>14. CallsRight'
  <2> SUFFICES ASSUME NEW v \in Users PROVE Right(call[v])' BY DEF CallsRight, Right
  <2>1. CASE v = u BY <2>1, <1>6, <1>7 DEF Right, NoCall, Making, GivingUp, Emptying, Freeing
  <2>2. CASE v # u
    <3>1. Right(call[v]) BY DEF IInv, CallsRight, Right
    <3> QED BY <2>2, <3>1, <1>12, <1>13 DEF Right
  <2> QED BY <2>1, <2>2
<1>15. BlocksApart' BY <1>6, <1>7, <1>12 DEF IInv, BlocksApart
<1>16. RefsCounted'
  <2> SUFFICES ASSUME NEW b \in Addrs
               PROVE  IF count'[b] = NoItem THEN RefsTo(b)' = {} ELSE count'[b] = Cardinality(RefsTo(b)')
      BY DEF RefsCounted
  <2>1. CASE b = a BY <2>1, <1>3, <1>4, <1>9, <1>10 DEF NoItem
  <2>2. CASE b # a BY <2>2, <1>9, <1>10 DEF IInv, RefsCounted
  <2> QED BY <2>1, <2>2
<1>17. ~Claims(u) BY <1>0 DEF Claims, Entering, Emptying, Freeing
<1>18. \A v \in Users : Claims(v)' <=> (v = u /\ count[a] = 1) \/ (v # u /\ Claims(v))
  <2> TAKE v \in Users
  <2>1. CASE v = u
    <3>1. call'[u].at \in Entering \cup Emptying \cup Freeing <=> count[a] = 1
          BY <1>6, <1>7 DEF Entering, Emptying, Freeing
    <3> QED BY <2>1, <3>1 DEF Claims
  <2>2. CASE v # u BY <2>2, <1>12 DEF Claims
  <2> QED BY <2>1, <2>2
<1>19. \A v \in Users : Claims(v) => call[v].addr \in Addrs \ {a}
      BY <1>2 DEF IInv, Claimed, Typed
<1>20. Claimed'
  <2> SUFFICES ASSUME NEW v \in Users, Claims(v)'
               PROVE  /\ call'[v].addr \in mem'
                      /\ RefsTo(call[v].addr)' = {}
                      /\ count'[call'[v].addr] = NoItem <=> call'[v].at \notin Emptying
      BY DEF Claimed
  <2>1. CASE v = u
    <3>1. count[a] = 1 /\ call'[v].addr = a /\ call'[v].at = "last_unlock" BY <2>1, <1>6, <1>7, <1>18
    <3>2. RefsTo(call[v].addr)' = {} BY <3>1, <1>11 DEF RefsTo
    <3> QED BY <3>1, <3>2, <1>3, <1>5, <1>10 DEF NoItem, Emptying
  <2>2. CASE v # u
    <3>1. Claims(v) /\ call'[v] = call[v] /\ call[v].addr \in Addrs \ {a} BY <2>2, <1>12, <1>18, <1>19
    <3>2. count'[call[v].addr] = count[call[v].addr] BY <3>1, <1>10
    <3>3. RefsTo(call[v].addr)' = RefsTo(call[v].addr) BY <3>1, <1>9 DEF RefsTo
    <3> QED BY <3>1, <3>2, <3>3, <1>5 DEF IInv, Claimed
  <2> QED BY <2>1, <2>2
<1>21. ClaimsApart'
  <2> SUFFICES ASSUME NEW v \in Users, NEW w \in Users, v # w, Claims(v)', Claims(w)'
               PROVE  call'[v].addr # call'[w].addr
      BY DEF ClaimsApart
  <2>1. call'[u].addr = a BY <1>6, <1>7
  <2>2. \A x \in Users \ {u} : Claims(x)' => Claims(x) /\ call'[x].addr = call[x].addr BY <1>12, <1>18
  <2> QED BY <2>1, <2>2, <1>19 DEF IInv, ClaimsApart
<1>22. Accounted'
  <2> SUFFICES ASSUME NEW b \in Addrs
               PROVE  /\ b \in mem' => RefsTo(b)' # {} \/ \E v \in Users : Claims(v)' /\ call'[v].addr = b
                      /\ count'[b] # NoItem => b \in mem'
      BY DEF Accounted
  <2>1. CASE b = a BY <2>1, <1>3, <1>5, <1>6, <1>7, <1>11, <1>18
  <2>2. CASE b # a
    <3>1. count'[b] = count[b] /\ RefsTo(b)' = RefsTo(b) BY <2>2, <1>9, <1>10
    <3>2. \A v \in Users : Claims(v) => Claims(v)' /\ call'[v].addr = call[v].addr BY <1>12, <1>17, <1>18
    <3> QED BY <3>1, <3>2, <1>5 DEF IInv, Accounted
  <2> QED BY <2>1, <2>2
<1> QED BY <1>8, <1>14, <1>15, <1>16, <1>20, <1>21, <1>22 DEF IInv

\* Returning the read lock changes nothing else.
LEMMA UnlockHolds ==
    ASSUME IInv, NEW u \in Users, mref_unlock(u)
    PROVE  IInv'
<1>1. call[u] \in Calls /\ UNCHANGED <<count, mem, ref>> BY DEF mref_unlock, IInv, Typed
<1>2. CASE call[u].at = "unlock"
  <2>1. call' = [call EXCEPT ![u] = NoCall] BY <1>2 DEF mref_unlock
  <2>2. NoCall \in Calls BY DEF NoCall, Calls, Steps
  <2>3. Right(NoCall) BY DEF Right, NoCall, Making, GivingUp, Emptying, Freeing
  <2>4. ~Claims(u) /\ NoCall.at \notin Entering \cup Emptying \cup Freeing
        BY <1>2 DEF NoCall, Claims, Entering, Emptying, Freeing
  <2>5. NoCall.ref = NoRef /\ NoCall.via = NoRef BY DEF NoCall
  <2> QED BY <1>1, <2>1, <2>2, <2>3, <2>4, <2>5, Moved
<1>3. CASE call[u].at = "last_unlock"
  <2> DEFINE c == [call[u] EXCEPT !.at = "zero_query"]
  <2>1. call' = [call EXCEPT ![u] = c] BY <1>1, <1>3 DEF mref_unlock, Step
  <2>2. c \in Calls /\ c.at = "zero_query" /\ c.addr = call[u].addr /\ c.ref = call[u].ref /\ c.via = call[u].via
        BY <1>1 DEF Calls, Steps, Emptying
  <2>3. Right(c) BY <1>3, <2>2 DEF Right, IInv, CallsRight, NoCall, Making, GivingUp, Emptying, Freeing
  <2>4. Claims(u) BY <1>3 DEF Claims, Emptying
  <2> QED BY <1>1, <1>3, <2>1, <2>2, <2>3, <2>4, Moved DEF Emptying
<1> QED BY <1>2, <1>3 DEF mref_unlock

\* The second query of mref_dec still finds the item.
LEMMA ZeroQueryHolds ==
    ASSUME IInv, NEW u \in Users, mref_zero_query(u)
    PROVE  IInv'
<1> DEFINE c == [call[u] EXCEPT !.at = "zero"]
<1>1. call[u] \in Calls /\ call[u].at = "zero_query" /\ UNCHANGED <<count, mem, ref>>
      BY DEF mref_zero_query, IInv, Typed
<1>2. Claims(u) BY <1>1 DEF Claims, Emptying
<1>3. count[call[u].addr] # NoItem BY <1>1, <1>2 DEF IInv, Claimed, Emptying
<1>4. call' = [call EXCEPT ![u] = c] BY <1>3 DEF mref_zero_query, Step
<1>5. c \in Calls /\ c.at = "zero" /\ c.addr = call[u].addr /\ c.ref = call[u].ref /\ c.via = call[u].via
      BY <1>1 DEF Calls, Steps, Emptying
<1>6. Right(c) BY <1>1, <1>5 DEF Right, IInv, CallsRight, NoCall, Making, GivingUp, Emptying, Freeing
<1> QED BY <1>1, <1>2, <1>4, <1>5, <1>6, Moved DEF Emptying

\* Returning the write lock changes nothing else.
LEMMA ZeroUnlockHolds ==
    ASSUME IInv, NEW u \in Users, mref_zero_unlock(u)
    PROVE  IInv'
<1> DEFINE c == [call[u] EXCEPT !.at = "dealloc"]
<1>1. call[u] \in Calls /\ call[u].at = "gone_unlock" /\ UNCHANGED <<count, mem, ref>>
      BY DEF mref_zero_unlock, IInv, Typed, Calls, Steps, Entering, Emptying, Freeing, Making, GivingUp
<1>2. Claims(u) BY <1>1 DEF Claims, Freeing
<1>4. call' = [call EXCEPT ![u] = c] BY <1>1 DEF mref_zero_unlock, Step
<1>5. c \in Calls /\ c.at = "dealloc" /\ c.addr = call[u].addr /\ c.ref = call[u].ref /\ c.via = call[u].via
      BY <1>1 DEF Calls, Steps, Freeing
<1>6. Right(c) BY <1>1, <1>5 DEF Right, IInv, CallsRight, NoCall, Making, GivingUp, Emptying, Freeing
<1> QED BY <1>1, <1>2, <1>4, <1>5, <1>6, Moved DEF Emptying, Freeing

\* mref_dec deletes the item of a block that has no references.
LEMMA ZeroHolds ==
    ASSUME IInv, NEW u \in Users, mref_zero(u)
    PROVE  IInv'
<1>1. call[u].at = "zero" /\ call[u] \in Calls /\ UNCHANGED <<mem, ref>> BY DEF mref_zero, IInv, Typed
<1>2. Claims(u) BY <1>1 DEF Claims, Emptying
<1>3. PICK a \in Addrs : a = call[u].addr BY <1>1 DEF IInv, CallsRight, NoCall
<1>4. RefsTo(a) = {} /\ count[a] # NoItem /\ a \in mem BY <1>1, <1>2, <1>3 DEF IInv, Claimed, Emptying
<1>5. count[a] = 0 BY <1>4, NoneIsZero DEF IInv, RefsCounted
<1> DEFINE c == [call[u] EXCEPT !.at = "gone_unlock"]
<1>6. count' = [count EXCEPT ![a] = NoItem] /\ call' = [call EXCEPT ![u] = c]
      BY <1>1, <1>3, <1>5 DEF mref_zero, hash_tab_delete, Step
<1>7. c \in Calls /\ c.at = "gone_unlock" /\ c.addr = a /\ c.ref = call[u].ref /\ c.via = call[u].via
      BY <1>1, <1>3 DEF Calls, Steps, Freeing
<1> HIDE DEF c
<1>8. call'[u] = c /\ \A v \in Users \ {u} : call'[v] = call[v] BY <1>6 DEF IInv, Typed
<1>9. Typed' BY <1>1, <1>6, <1>7 DEF IInv, Typed, NoItem
<1>10. CallsRight'
  <2> SUFFICES ASSUME NEW v \in Users PROVE Right(call[v])' BY DEF CallsRight, Right
  <2>1. Right(call[v]) BY DEF IInv, CallsRight, Right
  <2>2. CASE v = u BY <2>1, <2>2, <1>1, <1>7, <1>8 DEF Right, NoCall, Making, GivingUp, Emptying, Freeing
  <2>3. CASE v # u BY <2>1, <2>3, <1>1, <1>8 DEF Right
  <2> QED BY <2>2, <2>3
<1>11. BlocksApart' BY <1>7, <1>8 DEF IInv, BlocksApart
<1>12. \A b : RefsTo(b)' = RefsTo(b) BY <1>1 DEF RefsTo
<1>13. count'[a] = NoItem /\ \A b \in Addrs \ {a} : count'[b] = count[b] BY <1>6 DEF IInv, Typed
<1>14. RefsCounted' BY <1>4, <1>12, <1>13 DEF IInv, RefsCounted
<1>15. \A v \in Users : (Claims(v)' <=> Claims(v)) /\ call'[v].addr = call[v].addr
      BY <1>2, <1>3, <1>7, <1>8 DEF Claims, Freeing
<1>16. \A v \in Users \ {u} : Claims(v) => call[v].addr \in Addrs \ {a}
      BY <1>2, <1>3 DEF IInv, ClaimsApart, Claimed, Typed
<1>17. Claimed'
  <2> SUFFICES ASSUME NEW v \in Users, Claims(v)'
               PROVE  /\ call'[v].addr \in mem'
                      /\ RefsTo(call[v].addr)' = {}
                      /\ count'[call'[v].addr] = NoItem <=> call'[v].at \notin Emptying
      BY DEF Claimed
  <2>1. call'[v].addr \in mem' /\ RefsTo(call[v].addr)' = {} BY <1>1, <1>12, <1>15 DEF IInv, Claimed, RefsTo
  <2>2. CASE v = u BY <2>1, <2>2, <1>7, <1>8, <1>13 DEF Emptying
  <2>3. CASE v # u
    <3>1. Claims(v) /\ call[v].addr \in Addrs \ {a} BY <2>3, <1>15, <1>16
    <3> QED BY <2>1, <2>3, <3>1, <1>8, <1>13 DEF IInv, Claimed
  <2> QED BY <2>2, <2>3
<1>18. ClaimsApart' BY <1>15 DEF IInv, ClaimsApart
<1>19. Accounted' BY <1>1, <1>12, <1>13, <1>15 DEF IInv, Accounted
<1> QED BY <1>9, <1>10, <1>11, <1>14, <1>17, <1>18, <1>19 DEF IInv

\* The block is freed by the one thread that has it.
LEMMA DeallocHolds ==
    ASSUME IInv, NEW u \in Users, item_dealloc(u)
    PROVE  IInv'
<1>1. call[u].at = "dealloc" /\ UNCHANGED <<count, ref>> BY DEF item_dealloc
<1>2. Claims(u) BY <1>1 DEF Claims, Freeing
<1>3. PICK a \in Addrs : a = call[u].addr BY <1>1 DEF IInv, CallsRight, NoCall
<1>4. RefsTo(a) = {} /\ count[a] = NoItem BY <1>1, <1>2, <1>3 DEF IInv, Claimed, Emptying
<1>5. mem' = mem \ {a} /\ call' = [call EXCEPT ![u] = NoCall] BY <1>3 DEF item_dealloc
<1>6. call'[u] = NoCall /\ \A v \in Users \ {u} : call'[v] = call[v] BY <1>5 DEF IInv, Typed
<1>7. NoCall \in Calls BY DEF NoCall, Calls, Steps
<1>8. Typed' BY <1>1, <1>5, <1>7 DEF IInv, Typed
<1>9. CallsRight'
  <2> SUFFICES ASSUME NEW v \in Users PROVE Right(call[v])' BY DEF CallsRight, Right
  <2>1. CASE v = u BY <2>1, <1>6 DEF Right, NoCall, Making, GivingUp, Emptying, Freeing
  <2>2. CASE v # u
    <3>1. Right(call[v]) BY DEF IInv, CallsRight, Right
    <3> QED BY <2>2, <3>1, <1>1, <1>6 DEF Right
  <2> QED BY <2>1, <2>2
<1>10. BlocksApart' BY <1>6 DEF IInv, BlocksApart, NoCall
<1>11. \A b : RefsTo(b)' = RefsTo(b) BY <1>1 DEF RefsTo
<1>12. RefsCounted' BY <1>1, <1>11 DEF IInv, RefsCounted
<1>13. \A v \in Users : Claims(v)' <=> v # u /\ Claims(v)
      BY <1>6 DEF Claims, NoCall, Entering, Emptying, Freeing
<1>14. \A v \in Users \ {u} : Claims(v) => call[v].addr # a BY <1>2, <1>3 DEF IInv, ClaimsApart
<1>15. Claimed' BY <1>1, <1>5, <1>6, <1>11, <1>13, <1>14 DEF IInv, Claimed
<1>16. ClaimsApart' BY <1>6, <1>13 DEF IInv, ClaimsApart
<1>17. Accounted'
  <2> SUFFICES ASSUME NEW b \in Addrs
               PROVE  /\ b \in mem' => RefsTo(b)' # {} \/ \E v \in Users : Claims(v)' /\ call'[v].addr = b
                      /\ count'[b] # NoItem => b \in mem'
      BY DEF Accounted
  <2>1. CASE b = a BY <2>1, <1>1, <1>4, <1>5
  <2>2. CASE b # a
    <3>1. \A v \in Users : Claims(v) /\ call[v].addr = b => Claims(v)' /\ call'[v].addr = b
          BY <2>2, <1>3, <1>6, <1>13
    <3> QED BY <2>2, <3>1, <1>1, <1>5, <1>11 DEF IInv, Accounted
  <2> QED BY <2>1, <2>2
<1> QED BY <1>8, <1>9, <1>10, <1>12, <1>15, <1>16, <1>17 DEF IInv
-----------------------------------------------------------------------------
\* Every step keeps the invariant.
LEMMA MrefStepHolds == IInv /\ [MrefNext]_mrefVars => IInv'
<1> SUFFICES ASSUME IInv, [MrefNext]_mrefVars PROVE IInv' OBVIOUS
<1>1. CASE UNCHANGED mrefVars
      BY <1>1, SMTT(30) DEF mrefVars, IInv, Typed, CallsRight, BlocksApart, RefsCounted, Claimed, ClaimsApart, Accounted, Claims, RefsTo
<1>2. CASE MrefNext
      BY <1>2, AllocHolds, IncHolds, DecHolds, AddQueryHolds, AddInsertHolds, QueryHolds, AtomicIncHolds,
         AtomicDecHolds, UnlockHolds, ZeroQueryHolds, ZeroHolds, ZeroUnlockHolds, DeallocHolds DEF MrefNext
<1> QED BY <1>1, <1>2

\* The invariant of the reference counts (mref.c): a block is referred to, or one thread has it
\* to itself, or it is free.
THEOREM MrefInvariant == MrefSpec => []IInv
<1> QED BY MrefInitHolds, MrefStepHolds, PTL DEF MrefSpec

\* No thread frees a block, or takes it out of the table, that another refers to (mref_dec).
THEOREM RefsAreKept == MrefSpec => []RefsKept
<1>1. IInv => RefsKept
  <2> SUFFICES ASSUME IInv PROVE RefsKept OBVIOUS
  <2>1. ASSUME NEW r \in Refs, ref[r] # NoAddr PROVE ref[r] \in mem /\ count[ref[r]] > 0
    <3>1. PICK a \in Addrs : a = ref[r] BY <2>1 DEF IInv, Typed
    <3>2. RefsTo(a) # {} BY <3>1 DEF RefsTo
    <3>3. count[a] # NoItem /\ count[a] = Cardinality(RefsTo(a)) BY <3>2 DEF IInv, RefsCounted
    <3>4. count[a] \in Nat /\ count[a] # 0 BY <3>2, <3>3, RefsFinite, NoneIsZero
    <3> QED BY <3>1, <3>3, <3>4 DEF IInv, Accounted
  <2>2. ASSUME NEW u \in Users, call[u].at = "dealloc"
        PROVE  /\ call[u].addr \in mem
               /\ RefsTo(call[u].addr) = {}
               /\ \A v \in Users \ {u} : call[v].at = "dealloc" => call[v].addr # call[u].addr
        BY <2>2 DEF IInv, Claimed, ClaimsApart, Claims, Freeing
  <2>3. \A u \in Users : call[u].at # "assert"
        BY DEF IInv, Typed, Calls, Steps, Entering, Emptying, Freeing, Making, GivingUp
  <2> QED BY <2>1, <2>2, <2>3 DEF RefsKept
<1> QED BY <1>1, MrefInvariant, PTL

\* What nobody refers to is freed, and its item is gone, once no call of mref.c is under way.
THEOREM NothingLeaks == MrefSpec => []NoLeak
<1>1. IInv => NoLeak
  <2> SUFFICES ASSUME IInv, \A u \in Users : call[u] = NoCall, NEW a \in Addrs
               PROVE  /\ a \in mem <=> RefsTo(a) # {}
                      /\ count[a] = IF a \in mem THEN Cardinality(RefsTo(a)) ELSE NoItem
      BY DEF NoLeak
  <2>1. \A u \in Users : ~Claims(u) BY DEF Claims, NoCall, Entering, Emptying, Freeing
  <2>2. a \in mem => RefsTo(a) # {} BY <2>1 DEF IInv, Accounted
  <2>3. RefsTo(a) # {} => count[a] # NoItem BY DEF IInv, RefsCounted
  <2>4. count[a] # NoItem => a \in mem BY DEF IInv, Accounted
  <2> QED BY <2>2, <2>3, <2>4 DEF IInv, RefsCounted
<1> QED BY <1>1, MrefInvariant, PTL
-----------------------------------------------------------------------------
\* The steps at which a thread has the read lock of the slot of its block, and the write lock.
Reading == {"inc", "dec", "unlock", "last_unlock"}
Writing == {"zero", "gone_unlock"}

Reads(s) == \A u \in lock[s].rd : call[u].at \in Reading /\ Hash[call[u].addr] = s
Writes(s) == \A u \in lock[s].wr : call[u].at \in Writing /\ Hash[call[u].addr] = s

\* The locks follow the calls; a slot has one writer or any number of readers.
LocksInv ==
    /\ lock \in [Heads -> [rd : SUBSET Users, wr : SUBSET Users]]
    /\ \A s \in Heads :
          /\ lock[s].wr # {} => lock[s].rd = {}
          /\ \A u, v \in lock[s].wr : u = v
          /\ Reads(s) /\ Writes(s)

\* A step that leaves the locks alone, of a thread that has none or keeps the one it has.
LEMMA LocksLeft ==
    ASSUME IInv, LocksInv, NEW u \in Users, NEW c, lock' = lock, call' = [call EXCEPT ![u] = c],
           call[u].at \in Reading => c.at \in Reading /\ c.addr = call[u].addr,
           call[u].at \in Writing => c.at \in Writing /\ c.addr = call[u].addr
    PROVE  LocksInv'
<1>1. call'[u] = c /\ \A v \in Users \ {u} : call'[v] = call[v] BY DEF IInv, Typed
<1>2. lock' \in [Heads -> [rd : SUBSET Users, wr : SUBSET Users]] BY DEF LocksInv
<1> SUFFICES ASSUME NEW s \in Heads PROVE Reads(s)' /\ Writes(s)' BY <1>2 DEF LocksInv
<1>3. lock[s].rd \subseteq Users /\ lock[s].wr \subseteq Users BY DEF LocksInv
<1>4. Reads(s) /\ Writes(s) BY DEF LocksInv
<1>5. Reads(s)' BY <1>1, <1>3, <1>4 DEF Reads
<1>6. Writes(s)' BY <1>1, <1>3, <1>4 DEF Writes
<1> QED BY <1>5, <1>6

\* hash_tab_query finds the item and keeps the lock, or finds none and returns it.
LEMMA LocksQueried ==
    ASSUME IInv, LocksInv, NEW u \in Users, NEW c, NEW mode \in {"RDLOCK", "WRLOCK"},
           call[u] # NoCall, call[u].at \notin Reading \cup Writing,
           hash_tab_query(u, mode), call' = [call EXCEPT ![u] = c],
           count[call[u].addr] # NoItem =>
               /\ c.addr = call[u].addr
               /\ c.at \in IF mode = "WRLOCK" THEN Writing ELSE Reading
    PROVE  LocksInv'
<1> DEFINE t == Hash[call[u].addr]
<1>1. t \in Heads BY MrefAssumption DEF IInv, CallsRight
<1>2. CASE count[call[u].addr] = NoItem BY <1>2, LocksLeft DEF hash_tab_query
<1>3. CASE count[call[u].addr] # NoItem
  <2>1. call'[u] = c /\ \A v \in Users \ {u} : call'[v] = call[v] BY DEF IInv, Typed
  <2>2. lock' = Locked(u, t, mode) /\ lock[t].wr = {} /\ (mode = "WRLOCK" => lock[t].rd = {})
        BY <1>3 DEF hash_tab_query, hash_tab_lock
  <2>3. \A s \in Heads : lock[s] \in [rd : SUBSET Users, wr : SUBSET Users] BY DEF LocksInv
  <2>4. \A s \in Heads : u \notin lock[s].rd \cup lock[s].wr BY DEF LocksInv, Reads, Writes
  <2>5. \A s \in Heads \ {t} : lock'[s] = lock[s] BY <2>2 DEF Locked, LocksInv
  <2>6. lock'[t].wr = IF mode = "WRLOCK" THEN {u} ELSE {}
        BY <1>1, <2>2, <2>3 DEF Locked, LocksInv
  <2>7. lock'[t].rd = IF mode = "WRLOCK" THEN {} ELSE lock[t].rd \cup {u}
        BY <1>1, <2>2, <2>3 DEF Locked, LocksInv
  <2>8. lock' \in [Heads -> [rd : SUBSET Users, wr : SUBSET Users]]
        BY <1>1, <2>2, <2>3 DEF Locked, LocksInv
  <2> HIDE DEF t
  <2> SUFFICES ASSUME NEW s \in Heads
               PROVE  /\ lock'[s].wr # {} => lock'[s].rd = {}
                      /\ \A v, w \in lock'[s].wr : v = w
                      /\ Reads(s)' /\ Writes(s)'
      BY <2>8 DEF LocksInv
  <2>9. /\ lock[s].wr # {} => lock[s].rd = {}
        /\ \A v, w \in lock[s].wr : v = w
        /\ Reads(s) /\ Writes(s)
        BY DEF LocksInv
  <2>10. CASE s # t BY <2>1, <2>3, <2>4, <2>5, <2>9, <2>10 DEF Reads, Writes
  <2>11. CASE s = t
    <3>1. (c.addr = call[u].addr) /\ Hash[c.addr] = t BY <1>3 DEF t
    <3>2. c.at \in IF mode = "WRLOCK" THEN Writing ELSE Reading BY <1>3
    <3>3. lock[t].rd \subseteq Users /\ u \notin lock[t].rd BY <1>1, <2>3, <2>4
    <3>4. Reads(s)' BY <2>1, <2>7, <2>9, <2>11, <3>1, <3>2, <3>3 DEF Reads
    <3>5. Writes(s)' BY <2>1, <2>6, <2>11, <3>1, <3>2 DEF Writes
    <3> QED BY <2>6, <2>7, <2>11, <3>4, <3>5
  <2> QED BY <2>10, <2>11
<1> QED BY <1>2, <1>3

\* hash_tab_unlock returns the lock of the slot, the only one the thread has.
LEMMA LocksGivenBack ==
    ASSUME IInv, LocksInv, NEW u \in Users, NEW c,
           call[u] # NoCall, hash_tab_unlock(u, Hash[call[u].addr]), call' = [call EXCEPT ![u] = c]
    PROVE  LocksInv'
<1> DEFINE t == Hash[call[u].addr]
<1>1. t \in Heads BY MrefAssumption DEF IInv, CallsRight
<1>2. \A v \in Users \ {u} : call'[v] = call[v] BY DEF IInv, Typed
<1>3. \A s \in Heads : lock[s] \in [rd : SUBSET Users, wr : SUBSET Users] BY DEF LocksInv
<1>4. \A s \in Heads \ {t} : u \notin lock[s].rd \cup lock[s].wr BY DEF LocksInv, Reads, Writes
<1>5. lock' = [lock EXCEPT ![t] = [rd |-> lock[t].rd \ {u}, wr |-> lock[t].wr \ {u}]]
      BY <1>1 DEF hash_tab_unlock, LocksInv
<1> HIDE DEF t
<1>6. lock' \in [Heads -> [rd : SUBSET Users, wr : SUBSET Users]] BY <1>1, <1>3, <1>5 DEF LocksInv
<1>7. \A s \in Heads : lock'[s].rd = lock[s].rd \ {u} /\ lock'[s].wr = lock[s].wr \ {u}
      BY <1>1, <1>3, <1>4, <1>5 DEF LocksInv
<1> SUFFICES ASSUME NEW s \in Heads
             PROVE  /\ lock'[s].wr # {} => lock'[s].rd = {}
                    /\ \A v, w \in lock'[s].wr : v = w
                    /\ Reads(s)' /\ Writes(s)'
    BY <1>6 DEF LocksInv
<1>8. /\ lock[s].wr # {} => lock[s].rd = {}
      /\ \A v, w \in lock[s].wr : v = w
      /\ Reads(s) /\ Writes(s)
      BY DEF LocksInv
<1> QED BY <1>2, <1>3, <1>7, <1>8 DEF Reads, Writes

\* A call that ends, or begins, holds no lock.
LEMMA NoneIsUnlocked == NoCall.at \notin Reading \cup Writing
BY DEF NoCall, Reading, Writing

\* Every step keeps the locks with the calls.
LEMMA LocksStep ==
    ASSUME IInv, LocksInv, [MrefNext]_mrefVars
    PROVE  LocksInv'
<1>1. CASE UNCHANGED mrefVars BY <1>1 DEF mrefVars, LocksInv, Reads, Writes
<1> SUFFICES ASSUME NEW u \in Users,
                    \/ \E r \in Refs, a \in Addrs : mref_alloc(u, a, r)
                    \/ \E r, s \in Refs : mref_inc(u, r, s)
                    \/ \E r \in Refs : mref_dec(u, r)
                    \/ mref_add_query(u) \/ mref_add_insert(u)
                    \/ mref_inc_query(u) \/ atomic32_inc(u)
                    \/ mref_dec_query(u) \/ atomic32_dec(u) \/ mref_unlock(u)
                    \/ mref_zero_query(u) \/ mref_zero(u) \/ mref_zero_unlock(u) \/ item_dealloc(u)
             PROVE  LocksInv'
    BY <1>1 DEF MrefNext
<1> DEFINE CallAt(w) == [call[u] EXCEPT !.at = w]
<1>2. call[u] \in Calls BY DEF IInv, Typed
<1>3. \A w : CallAt(w).at = w /\ CallAt(w).addr = call[u].addr BY <1>2 DEF Calls
<1>4. \A w : Step(u, w) => call' = [call EXCEPT ![u] = CallAt(w)] BY <1>2 DEF Step, IInv, Typed
<1> HIDE DEF CallAt
<1>5. CASE \E r \in Refs, a \in Addrs : mref_alloc(u, a, r)
      BY <1>5, LocksLeft, NoneIsUnlocked DEF mref_alloc
<1>6. CASE \E r, s \in Refs : mref_inc(u, r, s) BY <1>6, LocksLeft, NoneIsUnlocked DEF mref_inc
<1>7. CASE \E r \in Refs : mref_dec(u, r) BY <1>7, LocksLeft, NoneIsUnlocked DEF mref_dec
<1>8. CASE mref_add_query(u) \/ mref_inc_query(u) \/ mref_dec_query(u)
  <2>1. call[u].at \notin Reading \cup Writing /\ call[u] # NoCall
        BY <1>8 DEF mref_add_query, mref_inc_query, mref_dec_query, Reading, Writing, NoCall
  <2>2. hash_tab_query(u, "RDLOCK") BY <1>8 DEF mref_add_query, mref_inc_query, mref_dec_query
  <2>3. PICK w : Step(u, w) /\ (count[call[u].addr] # NoItem => w \in Reading)
        BY <1>8 DEF mref_add_query, mref_inc_query, mref_dec_query, Reading
  <2> QED BY <1>3, <1>4, <2>1, <2>2, <2>3, LocksQueried
<1>9. CASE mref_add_insert(u)
  <2>1. call[u].at \notin Reading \cup Writing BY <1>9 DEF mref_add_insert, Reading, Writing
  <2>2. lock' = lock /\ \E c : call' = [call EXCEPT ![u] = c]
        BY <1>4, <1>9 DEF mref_add_insert, hash_tab_insert
  <2> QED BY <2>1, <2>2, LocksLeft
<1>10. CASE atomic32_inc(u)
      BY <1>3, <1>4, <1>10, LocksLeft DEF atomic32_inc, Reading, Writing
<1>11. CASE atomic32_dec(u)
  <2> DEFINE c == [call[u] EXCEPT !.at = IF count[call[u].addr] - 1 = 0 THEN "last_unlock" ELSE "unlock",
                                  !.ref = NoRef]
  <2>1. c.at \in {"last_unlock", "unlock"} /\ c.addr = call[u].addr BY <1>2 DEF Calls
  <2>2. call' = [call EXCEPT ![u] = c] BY <1>11 DEF atomic32_dec, IInv, Typed
  <2>3. lock' = lock /\ call[u].at = "dec" BY <1>11 DEF atomic32_dec
  <2> HIDE DEF c
  <2> QED BY <2>1, <2>2, <2>3, LocksLeft DEF Reading, Writing
<1>12. CASE mref_unlock(u) \/ mref_zero_unlock(u)
  <2>1. call[u] # NoCall /\ hash_tab_unlock(u, Hash[call[u].addr])
        BY <1>12 DEF mref_unlock, mref_zero_unlock, NoCall
  <2>2. \E c : call' = [call EXCEPT ![u] = c] BY <1>4, <1>12 DEF mref_unlock, mref_zero_unlock
  <2> QED BY <2>1, <2>2, LocksGivenBack
<1>13. CASE mref_zero_query(u)
  <2>1. call[u].at \notin Reading \cup Writing /\ call[u] # NoCall /\ hash_tab_query(u, "WRLOCK")
        BY <1>13 DEF mref_zero_query, Reading, Writing, NoCall
  <2>2. CASE count[call[u].addr] # NoItem
    <3>1. call' = [call EXCEPT ![u] = CallAt("zero")] BY <1>4, <1>13, <2>2 DEF mref_zero_query
    <3> QED BY <1>3, <2>1, <3>1, LocksQueried DEF Writing
  <2>3. CASE count[call[u].addr] = NoItem
    <3>1. call' = [call EXCEPT ![u] = NoCall] BY <1>13, <2>3 DEF mref_zero_query
    <3> QED BY <2>1, <2>3, <3>1, LocksQueried
  <2> QED BY <2>2, <2>3
<1>14. CASE mref_zero(u)
  <2>1. call[u].at = "zero" /\ lock' = lock BY <1>14 DEF mref_zero
  <2>2. Claims(u) BY <2>1 DEF Claims, Emptying
  <2>3. PICK a \in Addrs : a = call[u].addr BY <2>1 DEF IInv, CallsRight, NoCall
  <2>4. RefsTo(a) = {} /\ count[a] # NoItem BY <2>1, <2>2, <2>3 DEF IInv, Claimed, Emptying
  <2>5. count[a] = 0 BY <2>4, NoneIsZero DEF IInv, RefsCounted
  <2>6. call' = [call EXCEPT ![u] = CallAt("gone_unlock")] BY <1>4, <1>14, <2>3, <2>5 DEF mref_zero
  <2> QED BY <1>3, <2>1, <2>6, LocksLeft DEF Reading, Writing
<1>15. CASE item_dealloc(u) BY <1>15, LocksLeft DEF item_dealloc, Reading, Writing
<1> QED BY <1>5, <1>6, <1>7, <1>8, <1>9, <1>10, <1>11, <1>12, <1>13, <1>14, <1>15

\* Whoever is in no call of mref.c has returned every lock of the table (hash_tab_unlock), and
\* a slot that is written has one writer and no readers.
THEOREM LocksAreReturned == MrefSpec => []LocksReturned
<1>1. mref_init => LocksInv
      BY DEF mref_init, hash_tab_creat, LocksInv, Reads, Writes
<1>2. IInv /\ LocksInv /\ [MrefNext]_mrefVars => LocksInv' BY LocksStep
<1>3. LocksInv => LocksReturned
      BY NoneIsUnlocked DEF LocksInv, LocksReturned, Reads, Writes
<1>4. MrefSpec => []LocksInv BY <1>1, <1>2, MrefInvariant, PTL DEF MrefSpec
<1> QED BY <1>3, <1>4, PTL
-----------------------------------------------------------------------------
(* The thread pool. *)

Stages == {"unborn", "lock", "check", "wait", "take", "run"}

PoolTyped ==
    /\ tp \in [head : Seq(Jobs), size : Nat, owner : Pthreads \cup {Nobody}, waiting : SUBSET Pthreads,
               tid : Seq(Pthreads), num : Nat]
    /\ pth \in [Pthreads -> [at : Stages, job : Jobs \cup {NoJob}]]
    /\ starter \in [at : {"init", "count", "add", "signal"}, todo : SUBSET Jobs]

\* The mutex: who has it, and what it guards.  A thread that is about to take a job has it, and
\* has seen one on the list since it got it.
Guarded ==
    /\ \A t \in Pthreads : pth[t].at \in {"check", "take"} <=> tp.owner = t
    /\ \A t \in Pthreads : pth[t].at = "take" => tp.head # <<>>
    /\ tp.size = Len(tp.head)

\* A job is yet to be added, on the list, or with the thread that runs it.
Placed ==
    /\ \A t \in Pthreads : pth[t].at = "run" <=> pth[t].job # NoJob
    /\ \A t, u \in Pthreads : pth[t].job = pth[u].job /\ pth[t].job # NoJob => t = u
    /\ \A t \in Pthreads : pth[t].job \notin starter.todo
    /\ \A i, k \in 1..Len(tp.head) : tp.head[i] = tp.head[k] => i = k
    /\ \A i \in 1..Len(tp.head) : tp.head[i] \notin starter.todo /\ \A t \in Pthreads : pth[t].job # tp.head[i]

\* Every thread that was made is in the table once, and counted but for the last; there are no
\* jobs while threads are made.
Indexed ==
    /\ \A t \in Pthreads : pth[t].at # "unborn" => \E i \in 1..Len(tp.tid) : tp.tid[i] = t
    /\ \A i \in 1..Len(tp.tid) : pth[tp.tid[i]].at # "unborn"
    /\ \A i, k \in 1..Len(tp.tid) : tp.tid[i] = tp.tid[k] => i = k
    /\ tp.num = IF starter.at = "count" THEN Len(tp.tid) - 1 ELSE Len(tp.tid)
    /\ starter.at \in {"init", "count"} => tp.head = <<>> /\ \A t \in Pthreads : pth[t].at # "run"

PoolInv == PoolTyped /\ Guarded /\ Placed /\ Indexed
-----------------------------------------------------------------------------
LEMMA PoolStart == PoolInit => PoolInv
<1> SUFFICES ASSUME PoolInit PROVE PoolInv OBVIOUS
<1> USE DEF PoolInit
<1>1. PoolTyped BY DEF PoolTyped, Stages
<1>2. Guarded BY PoolAssumption DEF Guarded
<1>3. Placed BY PoolAssumption DEF Placed
<1>4. Indexed BY DEF Indexed
<1> QED BY <1>1, <1>2, <1>3, <1>4 DEF PoolInv

\* A thread is made, and its id stored, before num counts it.
LEMMA CreatHolds ==
    ASSUME PoolInv, NEW t \in Pthreads, thread_creat(t)
    PROVE  PoolInv'
<1> USE DEF PoolInv
<1>1. /\ tp'.head = tp.head /\ tp'.size = tp.size /\ tp'.owner = tp.owner /\ tp'.num = tp.num
      /\ tp'.tid = Append(tp.tid, t)
      /\ starter.at = "init" /\ starter'.at = "count" /\ starter'.todo = starter.todo
      BY DEF thread_creat, PoolTyped
<1>2. /\ pth[t].at = "unborn" /\ pth'[t].at = "lock" /\ pth'[t].job = pth[t].job
      /\ \A u \in Pthreads \ {t} : pth'[u] = pth[u]
      BY DEF thread_creat, Stage, PoolTyped
<1>3. PoolTyped'
  <2>1. Append(tp.tid, t) \in Seq(Pthreads) /\ tp' = [tp EXCEPT !.tid = Append(tp.tid, t)]
        BY DEF thread_creat, PoolTyped
  <2>2. pth' = [pth EXCEPT ![t] = [pth[t] EXCEPT !.at = "lock"]] BY DEF thread_creat, Stage, PoolTyped
  <2>3. [pth[t] EXCEPT !.at = "lock"] \in [at : Stages, job : Jobs \cup {NoJob}] BY DEF PoolTyped, Stages
  <2>4. starter' = [starter EXCEPT !.at = "count"] BY DEF thread_creat
  <2> QED BY <2>1, <2>2, <2>3, <2>4 DEF PoolTyped
<1>4. Guarded' BY <1>1, <1>2, PoolAssumption DEF Guarded
<1>5. Placed' BY <1>1, <1>2 DEF Placed
<1>6. /\ Len(tp'.tid) = Len(tp.tid) + 1 /\ Len(tp.tid) \in Nat
      /\ tp'.tid[Len(tp.tid) + 1] = t
      /\ \A i \in 1..Len(tp.tid) : tp'.tid[i] = tp.tid[i] /\ tp.tid[i] \in Pthreads
      BY <1>1 DEF PoolTyped
<1>7. \A i \in 1..Len(tp.tid) : tp.tid[i] # t BY <1>2 DEF Indexed
<1>8. Indexed'
  <2>1. \A u \in Pthreads : pth'[u].at # "unborn" => \E i \in 1..Len(tp'.tid) : tp'.tid[i] = u
    <3>1. Len(tp'.tid) \in 1..Len(tp'.tid) /\ tp'.tid[Len(tp'.tid)] = t BY <1>6
    <3>2. ASSUME NEW u \in Pthreads, u # t, pth'[u].at # "unborn" PROVE \E i \in 1..Len(tp'.tid) : tp'.tid[i] = u
      <4>1. pth[u].at # "unborn" BY <1>2, <3>2
      <4>2. PICK i \in 1..Len(tp.tid) : tp.tid[i] = u BY <4>1 DEF Indexed
      <4>3. i \in 1..Len(tp'.tid) /\ tp'.tid[i] = u BY <1>6, <4>2
      <4> QED BY <4>3
    <3> QED BY <3>1, <3>2
  <2>2. ASSUME NEW i \in 1..Len(tp'.tid) PROVE pth'[tp'.tid[i]].at # "unborn"
    <3>1. CASE i = Len(tp.tid) + 1 BY <1>2, <1>6, <3>1
    <3>2. CASE i \in 1..Len(tp.tid) BY <1>2, <1>6, <1>7, <3>2 DEF Indexed
    <3> QED BY <1>6, <3>1, <3>2
  <2>3. ASSUME NEW i \in 1..Len(tp'.tid), NEW k \in 1..Len(tp'.tid), tp'.tid[i] = tp'.tid[k] PROVE i = k
    <3>1. \A m \in 1..Len(tp'.tid) : m = Len(tp.tid) + 1 \/ m \in 1..Len(tp.tid) BY <1>6
    <3>2. CASE i \in 1..Len(tp.tid) /\ k \in 1..Len(tp.tid) BY <1>6, <2>3, <3>2 DEF Indexed
    <3> QED BY <1>6, <1>7, <2>3, <3>1, <3>2
  <2>4. tp'.num = Len(tp'.tid) - 1 BY <1>1, <1>6 DEF Indexed
  <2> QED BY <1>1, <1>2, <2>1, <2>2, <2>3, <2>4 DEF Indexed
<1> QED BY <1>3, <1>4, <1>5, <1>8

\* thread_pool_init counts the thread it made.
LEMMA CountHolds ==
    ASSUME PoolInv, thread_pool_init
    PROVE  PoolInv'
<1> USE DEF PoolInv
<1>1. /\ tp'.head = tp.head /\ tp'.size = tp.size /\ tp'.owner = tp.owner /\ tp'.tid = tp.tid
      /\ tp'.num = tp.num + 1 /\ pth' = pth
      /\ starter.at = "count" /\ starter'.at \in {"init", "add"} /\ starter'.todo = starter.todo
      BY DEF thread_pool_init, PoolTyped
<1>2. PoolTyped'
  <2>1. tp.num + 1 \in Nat /\ tp' = [tp EXCEPT !.num = tp.num + 1] BY DEF thread_pool_init, PoolTyped
  <2>2. \E w \in {"init", "add"} : starter' = [starter EXCEPT !.at = w] BY DEF thread_pool_init
  <2> QED BY <1>1, <2>1, <2>2 DEF PoolTyped
<1>3. Guarded' /\ Placed' BY <1>1 DEF Guarded, Placed
<1>4. Len(tp.tid) \in Nat BY DEF PoolTyped
<1>5. Indexed' BY <1>1, <1>4 DEF Indexed
<1> QED BY <1>2, <1>3, <1>5

\* thread_pool_add_worker puts a job at the end of the list, while nobody has the mutex.
LEMMA AddHolds ==
    ASSUME PoolInv, NEW j \in Jobs, thread_pool_add_worker(j)
    PROVE  PoolInv'
<1> USE DEF PoolInv
<1>1. /\ tp'.head = Append(tp.head, j) /\ tp'.size = tp.size + 1 /\ tp'.owner = tp.owner
      /\ tp'.tid = tp.tid /\ tp'.num = tp.num /\ pth' = pth
      /\ starter.at = "add" /\ j \in starter.todo
      /\ starter'.at = "signal" /\ starter'.todo = starter.todo \ {j}
      BY DEF thread_pool_add_worker, PoolTyped
<1>2. PoolTyped'
  <2>1. tp.size + 1 \in Nat /\ Append(tp.head, j) \in Seq(Jobs) BY DEF PoolTyped
  <2>2. tp' = [tp EXCEPT !.head = Append(tp.head, j), !.size = tp.size + 1]
        BY DEF thread_pool_add_worker
  <2>3. starter' = [at |-> "signal", todo |-> starter.todo \ {j}] BY DEF thread_pool_add_worker
  <2>4. tp' \in [head : Seq(Jobs), size : Nat, owner : Pthreads \cup {Nobody}, waiting : SUBSET Pthreads,
                 tid : Seq(Pthreads), num : Nat]
        BY <2>1, <2>2 DEF PoolTyped
  <2> QED BY <1>1, <2>3, <2>4 DEF PoolTyped
<1>3. /\ Len(tp'.head) = Len(tp.head) + 1 /\ Len(tp.head) \in Nat
      /\ tp'.head[Len(tp.head) + 1] = j
      /\ \A i \in 1..Len(tp.head) : tp'.head[i] = tp.head[i]
      /\ tp'.head # <<>>
  <2>1. tp.head \in Seq(Jobs) BY DEF PoolTyped
  <2> QED BY <1>1, <2>1
<1>4. Guarded' BY <1>1, <1>3 DEF Guarded
<1>5. Placed'
  <2>1. \A i \in 1..Len(tp.head) : tp.head[i] # j BY <1>1 DEF Placed
  <2>2. \A u \in Pthreads : pth[u].job # j BY <1>1 DEF Placed
  <2>3. ASSUME NEW i \in 1..Len(tp'.head), NEW k \in 1..Len(tp'.head), tp'.head[i] = tp'.head[k]
        PROVE  i = k
    <3>1. (i \in 1..Len(tp.head) \/ i = Len(tp.head) + 1) /\ (k \in 1..Len(tp.head) \/ k = Len(tp.head) + 1)
          BY <1>3
    <3>2. CASE i \in 1..Len(tp.head) /\ k \in 1..Len(tp.head)
      <4>1. tp.head[i] = tp.head[k] BY <1>3, <2>3, <3>2
      <4>2. \A a, b \in 1..Len(tp.head) : tp.head[a] = tp.head[b] => a = b BY DEF Placed
      <4> QED BY <3>2, <4>1, <4>2
    <3>3. CASE i = Len(tp.head) + 1 \/ k = Len(tp.head) + 1
      BY <1>3, <2>1, <2>3, <3>1, <3>3
    <3> QED BY <3>1, <3>2, <3>3
  <2>4. \A i \in 1..Len(tp'.head) : tp'.head[i] \notin starter'.todo /\ \A u \in Pthreads : pth'[u].job # tp'.head[i]
        BY <1>1, <1>3, <2>2 DEF Placed
  <2> QED BY <1>1, <2>3, <2>4 DEF Placed
<1>6. Indexed' BY <1>1 DEF Indexed
<1> QED BY <1>2, <1>4, <1>5, <1>6

\* Waking a thread moves nothing.
LEMMA WokenHolds ==
    ASSUME PoolInv, pthread_cond_signal \/ \E t \in Pthreads : Spurious(t)
    PROVE  PoolInv'
<1> USE DEF PoolInv
<1>1. /\ tp'.head = tp.head /\ tp'.size = tp.size /\ tp'.owner = tp.owner /\ tp'.tid = tp.tid
      /\ tp'.num = tp.num /\ pth' = pth /\ starter'.todo = starter.todo
      BY DEF pthread_cond_signal, Spurious, Woken, PoolTyped
<1>2. \/ starter'.at = starter.at
      \/ starter.at = "signal" /\ starter'.at = "add"
      BY DEF pthread_cond_signal, Spurious, PoolTyped
<1>3. PoolTyped' BY SMTT(30) DEF pthread_cond_signal, Spurious, Woken, PoolTyped
<1>4. Guarded' /\ Placed' BY <1>1 DEF Guarded, Placed
<1>5. Indexed' BY <1>1, <1>2 DEF Indexed
<1> QED BY <1>3, <1>4, <1>5

\* A thread that gets the mutex, to look at the list.
LEMMA LockHolds ==
    ASSUME PoolInv, NEW t \in Pthreads, routine_lock(t) \/ routine_wake(t)
    PROVE  PoolInv'
<1> USE DEF PoolInv
<1>1. /\ tp'.head = tp.head /\ tp'.size = tp.size /\ tp'.tid = tp.tid /\ tp'.num = tp.num
      /\ tp.owner = Nobody /\ tp'.owner = t /\ starter' = starter
      BY DEF routine_lock, routine_wake, pthread_mutex_lock, PoolTyped
<1>2. /\ pth[t].at \in {"lock", "wait"} /\ pth'[t].at = "check" /\ pth'[t].job = pth[t].job
      /\ \A u \in Pthreads \ {t} : pth'[u] = pth[u]
      BY DEF routine_lock, routine_wake, Stage, PoolTyped
<1>3. PoolTyped'
  <2>1. tp' = [tp EXCEPT !.owner = t] BY DEF routine_lock, routine_wake, pthread_mutex_lock
  <2>2. pth' = [pth EXCEPT ![t] = [pth[t] EXCEPT !.at = "check"]]
        BY DEF routine_lock, routine_wake, Stage, PoolTyped
  <2>3. [pth[t] EXCEPT !.at = "check"] \in [at : Stages, job : Jobs \cup {NoJob}] BY DEF PoolTyped, Stages
  <2> QED BY <1>1, <2>1, <2>2, <2>3 DEF PoolTyped
<1>4. Guarded' BY <1>1, <1>2, PoolAssumption DEF Guarded
<1>5. Placed' BY <1>1, <1>2 DEF Placed
<1>6. \A i \in 1..Len(tp.tid) : tp.tid[i] \in Pthreads BY DEF PoolTyped
<1>7. Indexed' BY <1>1, <1>2, <1>6 DEF Indexed
<1> QED BY <1>3, <1>4, <1>5, <1>7

\* With the mutex, size says whether there is a job.
LEMMA CheckHolds ==
    ASSUME PoolInv, NEW t \in Pthreads, routine_check(t)
    PROVE  PoolInv'
<1> USE DEF PoolInv
<1>1. /\ tp'.head = tp.head /\ tp'.size = tp.size /\ tp'.tid = tp.tid /\ tp'.num = tp.num
      /\ tp'.owner = IF tp.size = 0 THEN Nobody ELSE tp.owner
      /\ starter' = starter
      BY DEF routine_check, PoolTyped
<1>2. /\ pth[t].at = "check" /\ pth'[t].job = pth[t].job
      /\ pth'[t].at = IF tp.size = 0 THEN "wait" ELSE "take"
      /\ \A u \in Pthreads \ {t} : pth'[u] = pth[u]
      BY DEF routine_check, Stage, PoolTyped
<1>3. PoolTyped'
  <2>1. tp' \in [head : Seq(Jobs), size : Nat, owner : Pthreads \cup {Nobody}, waiting : SUBSET Pthreads,
                 tid : Seq(Pthreads), num : Nat]
    <3>1. \/ tp' = [tp EXCEPT !.owner = Nobody, !.waiting = tp.waiting \cup {t}]
          \/ tp' = tp
          BY DEF routine_check
    <3>2. tp.waiting \cup {t} \in SUBSET Pthreads BY DEF PoolTyped
    <3>3. CASE tp' = [tp EXCEPT !.owner = Nobody, !.waiting = tp.waiting \cup {t}] BY <3>2, <3>3 DEF PoolTyped
    <3>4. CASE tp' = tp BY <3>4 DEF PoolTyped
    <3> QED BY <3>1, <3>3, <3>4
  <2>2. PICK w \in {"wait", "take"} : pth' = [pth EXCEPT ![t] = [pth[t] EXCEPT !.at = w]]
        BY DEF routine_check, Stage, PoolTyped
  <2>3. [pth[t] EXCEPT !.at = w] \in [at : Stages, job : Jobs \cup {NoJob}] BY DEF PoolTyped, Stages
  <2> QED BY <1>1, <2>1, <2>2, <2>3 DEF PoolTyped
<1>4. tp.owner = t BY <1>2 DEF Guarded
<1>5. tp.size # 0 => tp.head # <<>> BY DEF Guarded, PoolTyped
<1>6. Guarded' BY <1>1, <1>2, <1>4, <1>5, PoolAssumption DEF Guarded
<1>7. Placed' BY <1>1, <1>2 DEF Placed
<1>8. \A i \in 1..Len(tp.tid) : tp.tid[i] \in Pthreads BY DEF PoolTyped
<1>9. Indexed' BY <1>1, <1>2, <1>8 DEF Indexed
<1> QED BY <1>3, <1>6, <1>7, <1>9

\* The thread that has the mutex takes the first job of the list, and returns the mutex.
LEMMA TakeHolds ==
    ASSUME PoolInv, NEW t \in Pthreads, routine_take(t)
    PROVE  PoolInv'
<1> USE DEF PoolInv
<1>1. pth[t].at = "take" /\ tp.owner = t /\ tp.head # <<>> /\ tp.head \in Seq(Jobs) /\ starter' = starter
      BY DEF routine_take, Guarded, PoolTyped
<1> DEFINE j == Head(tp.head)
<1>2. /\ j \in Jobs /\ j = tp.head[1] /\ Tail(tp.head) \in Seq(Jobs)
      /\ Len(tp.head) \in Nat \ {0} /\ Len(Tail(tp.head)) = Len(tp.head) - 1
      /\ \A i \in 1..Len(tp.head) - 1 : Tail(tp.head)[i] = tp.head[i + 1]
      BY <1>1
<1>3. /\ tp'.head = Tail(tp.head) /\ tp'.size = tp.size - 1 /\ tp'.owner = Nobody
      /\ tp'.tid = tp.tid /\ tp'.num = tp.num
      BY <1>1 DEF routine_take, PoolTyped
<1>4. pth' = [pth EXCEPT ![t] = [at |-> "run", job |-> j]] BY <1>1 DEF routine_take
<1> HIDE DEF j
<1>5. pth'[t].at = "run" /\ pth'[t].job = j /\ \A u \in Pthreads \ {t} : pth'[u] = pth[u]
      BY <1>4 DEF PoolTyped
<1>6. PoolTyped'
  <2>1. tp.size - 1 \in Nat BY <1>2 DEF Guarded
  <2>2. tp' = [tp EXCEPT !.size = tp.size - 1, !.head = Tail(tp.head), !.owner = Nobody]
        BY <1>1 DEF routine_take, PoolTyped
  <2>3. pth' \in [Pthreads -> [at : Stages, job : Jobs \cup {NoJob}]] BY <1>2, <1>4 DEF PoolTyped, Stages
  <2> QED BY <1>1, <1>2, <2>1, <2>2, <2>3 DEF PoolTyped
<1>7. Guarded' BY <1>1, <1>2, <1>3, <1>5, PoolAssumption DEF Guarded
<1>8. Placed'
  <2>1. \A i \in 1..Len(tp'.head) : tp'.head[i] = tp.head[i + 1] /\ i + 1 \in 1..Len(tp.head) BY <1>2, <1>3
  <2>2. j \notin starter.todo /\ \A u \in Pthreads : pth[u].job # j BY <1>2 DEF Placed
  <2>3. j # NoJob BY <1>2, PoolAssumption
  <2>4. \A i \in 1..Len(tp'.head) : tp'.head[i] # j BY <1>2, <2>1 DEF Placed
  <2>5. \A i, k \in 1..Len(tp'.head) : tp'.head[i] = tp'.head[k] => i = k
    <3> SUFFICES ASSUME NEW i \in 1..Len(tp'.head), NEW k \in 1..Len(tp'.head), tp'.head[i] = tp'.head[k]
                 PROVE  i = k
        OBVIOUS
    <3>1. tp.head[i + 1] = tp.head[k + 1] BY <2>1
    <3>2. i + 1 = k + 1 BY <2>1, <3>1 DEF Placed
    <3> QED BY <3>2
  <2>6. \A i \in 1..Len(tp'.head) : tp'.head[i] \notin starter'.todo /\ \A u \in Pthreads : pth'[u].job # tp'.head[i]
    <3> TAKE i \in 1..Len(tp'.head)
    <3>1. tp.head[i + 1] \notin starter.todo /\ \A u \in Pthreads : pth[u].job # tp.head[i + 1]
          BY <2>1 DEF Placed
    <3> QED BY <1>1, <1>5, <2>1, <2>4, <3>1
  <2>7. \A u \in Pthreads : pth'[u].at = "run" <=> pth'[u].job # NoJob BY <1>5, <2>3 DEF Placed
  <2>8. \A u, v \in Pthreads : pth'[u].job = pth'[v].job /\ pth'[u].job # NoJob => u = v
        BY <1>5, <2>2 DEF Placed
  <2>9. \A u \in Pthreads : pth'[u].job \notin starter'.todo BY <1>1, <1>5, <2>2 DEF Placed
  <2> QED BY <2>5, <2>6, <2>7, <2>8, <2>9 DEF Placed
<1>9. \A i \in 1..Len(tp.tid) : tp.tid[i] \in Pthreads BY DEF PoolTyped
<1>10. Indexed' BY <1>1, <1>3, <1>5, <1>9 DEF Indexed
<1> QED BY <1>6, <1>7, <1>8, <1>10

\* A routine that returns has its job freed.
LEMMA ReturnHolds ==
    ASSUME PoolInv, NEW t \in Pthreads, routine_return(t)
    PROVE  PoolInv'
<1> USE DEF PoolInv
<1>1. tp' = tp /\ starter' = starter /\ pth[t].at = "run" BY DEF routine_return
<1>2. pth'[t].at = "lock" /\ pth'[t].job = NoJob /\ \A u \in Pthreads \ {t} : pth'[u] = pth[u]
      BY DEF routine_return, PoolTyped
<1>3. PoolTyped' BY DEF routine_return, PoolTyped, Stages
<1>4. Guarded' BY <1>1, <1>2 DEF Guarded
<1>5. NoJob \notin starter.todo /\ \A i \in 1..Len(tp.head) : tp.head[i] # NoJob BY PoolAssumption DEF PoolTyped
<1>6. Placed' BY <1>1, <1>2, <1>5 DEF Placed
<1>7. \A i \in 1..Len(tp.tid) : tp.tid[i] \in Pthreads BY DEF PoolTyped
<1>8. Indexed' BY <1>1, <1>2, <1>7 DEF Indexed
<1> QED BY <1>3, <1>4, <1>6, <1>8
-----------------------------------------------------------------------------
\* Where every job of a thread pool is (thread_pool.c): the mutex guards the list and its size.
THEOREM PoolInvariant == PoolSpec => []PoolInv
<1>1. PoolInv /\ [PoolNext]_poolVars => PoolInv'
  <2> SUFFICES ASSUME PoolInv, [PoolNext]_poolVars PROVE PoolInv' OBVIOUS
  <2>1. CASE UNCHANGED poolVars BY <2>1 DEF poolVars, PoolInv, PoolTyped, Guarded, Placed, Indexed
  <2>2. CASE PoolNext
        BY <2>2, CountHolds, WokenHolds, AddHolds, CreatHolds, LockHolds, CheckHolds, TakeHolds, ReturnHolds
        DEF PoolNext, thread_routine
  <2> QED BY <2>1, <2>2
<1> QED BY <1>1, PoolStart, PTL DEF PoolSpec

\* A set without two different members.
LEMMA IndexOnce ==
    ASSUME NEW S, \A x, y \in S : x = y
    PROVE  Cardinality(S) = IF S = {} THEN 0 ELSE 1
<1>1. CASE S = {} BY <1>1, FS_EmptySet
<1>2. CASE S # {}
  <2>1. PICK x : S = {x} BY <1>2
  <2> QED BY <1>2, <2>1, FS_Singleton
<1> QED BY <1>1, <1>2

\* A job is run once at a time and by a thread that found it on the list, and no two threads that
\* run routines are given the same index (thread_pool_get_tidx), whenever num is read.
THEOREM JobsStayApart == PoolSpec => []JobsApart
<1>1. PoolInv => JobsApart
  <2> SUFFICES ASSUME PoolInv PROVE JobsApart OBVIOUS
  <2> USE DEF PoolInv
  <2>1. ASSUME NEW j \in Jobs
        PROVE  Cardinality(RunBy(j)) + Cardinality({i \in DOMAIN tp.head : tp.head[i] = j}) <= 1
    <3> DEFINE L == {i \in DOMAIN tp.head : tp.head[i] = j}
    <3>1. DOMAIN tp.head = 1..Len(tp.head) BY DEF PoolTyped
    <3>2. \A t, u \in RunBy(j) : t = u BY PoolAssumption DEF RunBy, Placed
    <3>3. \A i, k \in L : i = k BY <3>1 DEF Placed
    <3>4. RunBy(j) = {} \/ L = {} BY <3>1 DEF RunBy, Placed
    <3>5. Cardinality(RunBy(j)) = IF RunBy(j) = {} THEN 0 ELSE 1 BY <3>2, IndexOnce
    <3>6. Cardinality(L) = IF L = {} THEN 0 ELSE 1 BY <3>3, IndexOnce
    <3> QED BY <3>4, <3>5, <3>6
  <2>2. \A t \in Pthreads : pth[t].at # "crash" BY DEF PoolTyped, Stages
  <2>3. ASSUME NEW t \in Pthreads, pth[t].at = "run"
        PROVE  thread_pool_get_tidx(t) \in 1..tp.num /\ tp.tid[thread_pool_get_tidx(t)] = t
    <3>1. \E i \in 1..tp.num : tp.tid[i] = t BY <2>3 DEF Indexed
    <3> QED BY <3>1 DEF thread_pool_get_tidx
  <2>4. -1 \notin 1..tp.num BY DEF PoolTyped
  <2> QED BY <2>1, <2>2, <2>3, <2>4 DEF JobsApart, Guarded
<1> QED BY <1>1, PoolInvariant, PTL
-----------------------------------------------------------------------------
(* The ring.  The proofs speak of offsets: how far an index has moved since  *)
(* it had the value Ahead.  Offsets do not wrap as long as no index goes     *)
(* round whole (MaxTurns); the first section turns the arithmetic of the     *)
(* code, modulo Width and modulo RingMax, into arithmetic of offsets.            *)

Off(x) == Sub(x, Ahead)
Cell(d) == (Ahead + d) % RingMax

ph(r) == Off(rq[r].phead)
pt(r) == Off(rq[r].ptail)
ch(r) == Off(rq[r].chead)
ct(r) == Off(rq[r].ctail)
Item(r, d) == rq[r].data[Cell(d)]

ThreadType == [call : CallType, hand : Seq(Slots), refused : BOOLEAN]

QTyped ==
    /\ rq \in [Rings -> RingType]
    /\ th \in [Threads -> ThreadType]
    /\ \A t \in Threads : Len(th[t].hand) <= BatchMax

\* The four indices of a ring, in their order, at most a ring apart.
Order(r) == ct(r) <= ch(r) /\ ch(r) <= pt(r) /\ pt(r) <= ph(r) /\ ph(r) <= ct(r) + RingMax

\* Who is inside a push of the ring and has not reserved yet: each may still move prod.head.
InFlight(r) == {t \in Threads : Reserved(t, "push", r) /\ th[t].call.at \in {"head", "check", "cas"}}
Bounded(r) == ph(r) <= MaxTurns + BatchMax * Cardinality(Threads \ InFlight(r))

\* What is published, and what is being popped, are blocks.
Stored(r) == \A d \in ct(r)..pt(r) - 1 : Item(r, d) \in Slots

\* The places a thread has reserved, as offsets from start to end.
Has(t, op, r) == Reserved(t, op, r) /\ th[t].call.at \in {"copy", "tail"}
start(t) == Off(th[t].call.head)
end(t) == Off(th[t].call.head) + th[t].call.n

PushRight(t, r) ==
    LET at == th[t].call.at
    IN  /\ at # "num" => th[t].call.n <= Len(th[t].hand)
        /\ at \in {"check", "cas"} => start(t) <= ph(r)
        /\ at = "cas" => end(t) <= ct(r) + RingMax
        /\ at \in {"copy", "tail"} => pt(r) <= start(t) /\ end(t) <= ph(r)
        /\ at = "tail" => \A i \in 1..th[t].call.n : Item(r, start(t) + i - 1) = th[t].hand[i]

PopRight(t, r) ==
    LET at == th[t].call.at
    IN  /\ at \in {"head", "check", "cas", "copy"} => Len(th[t].hand) + th[t].call.n <= BatchMax
        /\ at \in {"tail", "num"} => th[t].call.n <= Len(th[t].hand)
        /\ at \in {"check", "cas"} => start(t) <= ch(r)
        /\ at = "cas" => end(t) <= pt(r)
        /\ at \in {"copy", "tail"} => ct(r) <= start(t) /\ end(t) <= ch(r)

CallRight(t) ==
    LET c == th[t].call
    IN  /\ c.op = "none" => c = Idle
        /\ c.op # "none" => c.at # "none" /\ c.n >= 1
        /\ c.op = "push" => PushRight(t, c.r)
        /\ c.op = "pop" => PopRight(t, c.r)

\* No place is reserved twice.
ReservedApart ==
    \A t, u \in Threads, op \in {"push", "pop"}, r \in Rings :
        t # u /\ Has(t, op, r) /\ Has(u, op, r) => end(t) <= start(u) \/ end(u) <= start(t)

QInv ==
    /\ QTyped
    /\ \A r \in Rings : Order(r) /\ Bounded(r) /\ Stored(r)
    /\ \A t \in Threads : CallRight(t)
    /\ ReservedApart
-----------------------------------------------------------------------------
\* Division with remainder.
LEMMA ModDef ==
    ASSUME NEW m \in Nat \ {0}, NEW a \in Int
    PROVE  a % m \in 0..m - 1 /\ a \div m \in Int /\ a = (a \div m) * m + (a % m)
OBVIOUS

LEMMA ModSmall ==
    ASSUME NEW m \in Nat \ {0}, NEW a \in 0..m - 1
    PROVE  a % m = a
OBVIOUS

LEMMA ModUnique ==
    ASSUME NEW m \in Nat \ {0}, NEW q \in Int, NEW p \in Int, NEW r \in 0..m - 1, NEW s \in 0..m - 1,
           q * m + r = p * m + s
    PROVE  r = s /\ q = p
<1>1. CASE q < p
  <2>1. p - q - 1 \in Nat BY <1>1
  <2>2. p * m = q * m + m + (p - q - 1) * m BY <2>1
  <2>3. (p - q - 1) * m >= 0 BY <2>1
  <2> QED BY <2>2, <2>3
<1>2. CASE p < q
  <2>1. q - p - 1 \in Nat BY <1>2
  <2>2. q * m = p * m + m + (q - p - 1) * m BY <2>1
  <2>3. (q - p - 1) * m >= 0 BY <2>1
  <2> QED BY <2>2, <2>3
<1>3. CASE p = q BY <1>3
<1> QED BY <1>1, <1>2, <1>3

LEMMA ModOf ==
    ASSUME NEW m \in Nat \ {0}, NEW q \in Int, NEW r \in 0..m - 1
    PROVE  (q * m + r) % m = r
<1> DEFINE a == q * m + r
<1>1. a \in Int OBVIOUS
<1>2. a % m \in 0..m - 1 /\ a \div m \in Int /\ a = (a \div m) * m + (a % m) BY <1>1, ModDef
<1>3. (a \div m) * m + (a % m) = q * m + r BY <1>2
<1> HIDE DEF a
<1>4. a % m = r BY <1>2, <1>3, ModUnique
<1> QED BY <1>4 DEF a

\* Adding the modulus, any number of times, changes nothing.
LEMMA ModPlus ==
    ASSUME NEW m \in Nat \ {0}, NEW a \in Int, NEW k \in Int
    PROVE  (a + k * m) % m = a % m
<1> DEFINE q == a \div m
           r == a % m
<1>1. q \in Int /\ r \in 0..m - 1 /\ a = q * m + r BY ModDef
<1> HIDE DEF q, r
<1>2. a + k * m = (q + k) * m + r /\ q + k \in Int BY <1>1
<1>3. ((q + k) * m + r) % m = r BY <1>1, <1>2, ModOf
<1> QED BY <1>2, <1>3 DEF r

\* Two numbers less than the modulus apart, with the same remainder, are the same.
LEMMA ModSame ==
    ASSUME NEW m \in Nat \ {0}, NEW a \in Int, NEW b \in Int, a % m = b % m, a - b < m, b - a < m
    PROVE  a = b
<1> DEFINE q == a \div m
           p == b \div m
           r == a % m
<1>1. q \in Int /\ p \in Int /\ r \in 0..m - 1 /\ a = q * m + r /\ b = p * m + r BY ModDef
<1> HIDE DEF q, p, r
<1>2. a - b = (q - p) * m BY <1>1
<1>3. CASE q - p >= 1
  <2>1. (q - p) * m = m + (q - p - 1) * m BY <1>1
  <2>2. (q - p - 1) * m >= 0 BY <1>1, <1>3
  <2> QED BY <1>1, <1>2, <2>1, <2>2
<1>4. CASE p - q >= 1
  <2>1. (p - q) * m = m + (p - q - 1) * m BY <1>1
  <2>2. (p - q - 1) * m >= 0 BY <1>1, <1>4
  <2>3. b - a = (p - q) * m BY <1>1
  <2> QED BY <1>1, <2>1, <2>2, <2>3
<1>5. CASE p = q BY <1>1, <1>5
<1> QED BY <1>1, <1>3, <1>4, <1>5
-----------------------------------------------------------------------------
\* An index is Ahead and its offset, less a whole round if it has wrapped.
LEMMA OffDef ==
    ASSUME NEW x \in Index
    PROVE  Off(x) \in Index /\ \E k \in {0, 1} : x = Ahead + Off(x) - k * Width
<1>1. Width \in Nat \ {0} /\ Ahead \in 0..Width - 1 /\ x \in 0..Width - 1 BY QueueAssumption DEF Index
<1>2. CASE x >= Ahead
  <2>1. x - Ahead \in 0..Width - 1 BY <1>1, <1>2
  <2>2. (x - Ahead) % Width = x - Ahead BY <1>1, <2>1
  <2> QED BY <1>1, <2>1, <2>2 DEF Off, Sub, Index
<1>3. CASE x < Ahead
  <2>1. x - Ahead + Width \in 0..Width - 1 /\ x - Ahead = (-1) * Width + (x - Ahead + Width) BY <1>1, <1>3
  <2>2. ((-1) * Width + (x - Ahead + Width)) % Width = x - Ahead + Width BY <1>1, <2>1, ModOf
  <2>3. Off(x) = x - Ahead + Width BY <2>1, <2>2 DEF Off, Sub
  <2>4. x = Ahead + Off(x) - 1 * Width BY <1>1, <2>3
  <2> QED BY <1>1, <2>1, <2>3, <2>4 DEF Index
<1> QED BY <1>1, <1>2, <1>3

\* The subtraction of two indices is that of their offsets, unless the difference is negative
\* or as large as a round.
LEMMA OffSpace ==
    ASSUME NEW x \in Index, NEW y \in Index, NEW k \in Nat, k + Off(x) - Off(y) \in Index
    PROVE  Sub(k + x, y) = k + Off(x) - Off(y)
<1>1. Width \in Nat \ {0} /\ Ahead \in Int BY QueueAssumption
<1>2. PICK i \in {0, 1} : x = Ahead + Off(x) - i * Width BY OffDef
<1>3. PICK j \in {0, 1} : y = Ahead + Off(y) - j * Width BY OffDef
<1> DEFINE d == k + Off(x) - Off(y)
<1>4. Off(x) \in Int /\ Off(y) \in Int /\ d \in 0..Width - 1 BY OffDef, <1>1 DEF Index
<1>5. k + x - y = (j - i) * Width + d /\ j - i \in Int BY <1>1, <1>2, <1>3, <1>4
<1> HIDE DEF d
<1>6. ((j - i) * Width + d) % Width = d BY <1>1, <1>4, <1>5, ModOf
<1>7. Sub(k + x, y) = d
  <2>1. (k + x) - y = (j - i) * Width + d BY <1>1, <1>4, <1>5, QueueAssumption DEF Index
  <2> QED BY <1>6, <2>1, Zenon DEF Sub
<1> QED BY <1>7 DEF d

LEMMA OffSub ==
    ASSUME NEW x \in Index, NEW y \in Index, Off(y) <= Off(x)
    PROVE  Sub(x, y) = Off(x) - Off(y)
<1>1. Off(x) \in Index /\ Off(y) \in Index /\ Width \in Nat BY OffDef, QueueAssumption
<1>2. 0 + Off(x) - Off(y) \in Index BY <1>1 DEF Index
<1>3. Sub(0 + x, y) = 0 + Off(x) - Off(y) BY <1>2, OffSpace
<1>4. 0 + x = x /\ 0 + Off(x) - Off(y) = Off(x) - Off(y) BY <1>1, QueueAssumption DEF Index
<1> QED BY <1>3, <1>4 DEF Sub

LEMMA OffAdd ==
    ASSUME NEW h \in Index, NEW n \in Nat, Off(h) + n < Width
    PROVE  Add(h, n) \in Index /\ Off(Add(h, n)) = Off(h) + n
<1>1. Width \in Nat \ {0} /\ Ahead \in 0..Width - 1 BY QueueAssumption
<1>2. PICK i \in {0, 1} : h = Ahead + Off(h) - i * Width BY OffDef
<1>3. Off(h) \in 0..Width - 1 BY OffDef DEF Index
<1>10. h \in Int BY <1>1 DEF Index
<1>4. h + n \in Int /\ Add(h, n) \in 0..Width - 1
  <2>1. h + n \in Int BY <1>10
  <2> QED BY <1>1, <2>1, ModDef DEF Add
<1> DEFINE q == (h + n) \div Width
<1>5. q \in Int /\ h + n = q * Width + Add(h, n) BY <1>1, <1>4, ModDef DEF Add
<1> HIDE DEF q
<1>6. Add(h, n) - Ahead = (-i - q) * Width + (Off(h) + n) BY <1>1, <1>2, <1>3, <1>4, <1>5
<1>7. -i - q \in Int /\ Off(h) + n \in 0..Width - 1 BY <1>1, <1>3, <1>5
<1>8. ((-i - q) * Width + (Off(h) + n)) % Width = Off(h) + n BY <1>1, <1>7, ModOf
<1> QED BY <1>4, <1>6, <1>8 DEF Off, Sub, Index

LEMMA OffInj ==
    ASSUME NEW x \in Index, NEW y \in Index, Off(x) = Off(y)
    PROVE  x = y
<1>1. Width \in Nat \ {0} /\ Ahead \in 0..Width - 1 /\ Off(y) \in Int BY QueueAssumption, OffDef DEF Index
<1>2. PICK i \in {0, 1} : x = Ahead + Off(x) - i * Width BY OffDef
<1>3. PICK j \in {0, 1} : y = Ahead + Off(y) - j * Width BY OffDef
<1> QED BY <1>1, <1>2, <1>3 DEF Index

\* The size of the ring divides the width of the indices.
LEMMA Rounds == \E q \in Int : Width = q * RingMax
<1>1. RingMax \in Nat \ {0} /\ Width \in Int /\ Width % RingMax = 0 BY QueueAssumption, MaxAssumption
<1>2. Width = (Width \div RingMax) * RingMax + (Width % RingMax) /\ Width \div RingMax \in Int BY <1>1, ModDef
<1>3. Width = (Width \div RingMax) * RingMax BY <1>1, <1>2
<1> QED BY <1>2, <1>3

\* Where an index points to, whether or not it has wrapped.
LEMMA MaskOff ==
    ASSUME NEW x \in Index, NEW k \in Int
    PROVE  Mask(x + k) = Cell(Off(x) + k)
<1>1. RingMax \in Nat \ {0} /\ Width \in Nat /\ Ahead \in Int /\ Off(x) \in Int
      BY QueueAssumption, MaxAssumption, OffDef DEF Index
<1>2. PICK i \in {0, 1} : x = Ahead + Off(x) - i * Width BY OffDef
<1>3. PICK q \in Int : Width = q * RingMax BY Rounds
<1>4. x + k = (Ahead + (Off(x) + k)) + (-i * q) * RingMax /\ -i * q \in Int BY <1>1, <1>2, <1>3
<1>5. Ahead + (Off(x) + k) \in Int BY <1>1
<1> QED BY <1>1, <1>4, <1>5, ModPlus, ZenonT(60) DEF Mask, Cell

LEMMA CellRange ==
    ASSUME NEW d \in Int
    PROVE  Cell(d) \in 0..RingMax - 1
<1>1. RingMax \in Nat \ {0} /\ Ahead + d \in Int BY QueueAssumption, MaxAssumption
<1> QED BY <1>1, ModDef DEF Cell

\* Where a place of the ring is, seen from an index.
LEMMA MaskBack ==
    ASSUME NEW h \in Index, NEW d \in Int
    PROVE  Mask(Cell(d) - h) = (d - Off(h)) % RingMax
<1>1. RingMax \in Nat \ {0} /\ Width \in Nat /\ Ahead \in Int /\ Off(h) \in Int
      BY QueueAssumption, MaxAssumption, OffDef DEF Index
<1>2. PICK i \in {0, 1} : h = Ahead + Off(h) - i * Width BY OffDef
<1>3. PICK q \in Int : Width = q * RingMax BY Rounds
<1> DEFINE p == (Ahead + d) \div RingMax
<1>4. p \in Int /\ Cell(d) \in Int /\ Ahead + d = p * RingMax + Cell(d) BY <1>1, ModDef DEF Cell
<1> HIDE DEF p
<1>5. Cell(d) - h = (d - Off(h)) + (i * q - p) * RingMax /\ i * q - p \in Int
  <2>1. PICK m \in Int, c \in Int, a \in Int, o \in Int : m = RingMax /\ c = Cell(d) /\ a = Ahead /\ o = Off(h)
    BY <1>1, <1>4
  <2>2. PICK u \in Int, v \in Int : u = p * m /\ v = q * m BY <1>4
  <2>3. a + d = u + c /\ h = a + o - i * v BY <1>2, <1>3, <1>4, <2>1, <2>2
  <2>4. CASE i = 0
    <3>1. (i * q - p) * m = -u /\ i * q - p \in Int BY <1>4, <2>2, <2>4, SMTT(30)
    <3>2. c - h = (d - o) + (-u) BY <2>2, <2>3, <2>4
    <3> QED BY <2>1, <3>1, <3>2
  <2>5. CASE i = 1
    <3>1. (i * q - p) * m = v - u /\ i * q - p \in Int BY <1>4, <2>2, <2>5, SMTT(30)
    <3>2. c - h = (d - o) + (v - u) BY <2>2, <2>3, <2>5, SMTT(30)
    <3> QED BY <2>1, <3>1, <3>2
  <2> QED BY <2>4, <2>5
<1>6. d - Off(h) \in Int BY <1>1
<1> QED BY <1>1, <1>5, <1>6, ModPlus, ZenonT(60) DEF Mask

\* Every place of the ring is at some offset from an index.
LEMMA CellOf ==
    ASSUME NEW h \in Index, NEW i \in 0..RingMax - 1
    PROVE  Cell(Off(h) + Mask(i - h)) = i
<1>1. RingMax \in Nat \ {0} /\ h \in Int /\ i \in Int BY QueueAssumption, MaxAssumption DEF Index
<1> DEFINE q == (i - h) \div RingMax
<1>2. q \in Int /\ Mask(i - h) \in Int /\ i - h = q * RingMax + Mask(i - h) BY <1>1, ModDef DEF Mask
<1> HIDE DEF q
<1>3. Cell(Off(h) + Mask(i - h)) = Mask(h + Mask(i - h)) BY <1>2, MaskOff
<1>4. h + Mask(i - h) = i + (-q) * RingMax /\ -q \in Int BY <1>1, <1>2
<1>5. i % RingMax = i BY <1>1
<1> QED BY <1>1, <1>3, <1>4, <1>5, ModPlus DEF Mask

\* Offsets less than a ring apart have different places.
LEMMA CellApart ==
    ASSUME NEW d \in Int, NEW e \in Int, d - e < RingMax, e - d < RingMax, Cell(d) = Cell(e)
    PROVE  d = e
<1>1. RingMax \in Nat \ {0} /\ Ahead \in Int BY QueueAssumption, MaxAssumption
<1>2. Ahead + d \in Int /\ Ahead + e \in Int /\ (Ahead + d) - (Ahead + e) < RingMax /\ (Ahead + e) - (Ahead + d) < RingMax
      BY <1>1
<1>3. (Ahead + d) % RingMax = (Ahead + e) % RingMax BY DEF Cell
<1>4. Ahead + d = Ahead + e BY ONLY <1>1, <1>2, <1>3, ModSame
<1> QED BY <1>1, <1>4

\* What a batch copied into the ring at an index is found at, and what it leaves alone.
LEMMA WrittenAt ==
    ASSUME NEW data, DOMAIN data = 0..RingMax - 1, NEW h \in Index, NEW n \in Nat, n <= RingMax,
           NEW b, Len(b) = n
    PROVE  /\ \A i \in 1..n : Written(data, h, b)[Cell(Off(h) + i - 1)] = b[i]
           /\ \A d \in Off(h) + n - RingMax..Off(h) + RingMax - 1 :
                 d \notin Off(h)..Off(h) + n - 1 => Written(data, h, b)[Cell(d)] = data[Cell(d)]
<1>1. RingMax \in Nat \ {0} /\ Off(h) \in Int BY MaxAssumption, OffDef, QueueAssumption DEF Index
<1>2. ASSUME NEW d \in Int
      PROVE  Written(data, h, b)[Cell(d)] =
                LET k == (d - Off(h)) % RingMax IN IF k < n THEN b[k + 1] ELSE data[Cell(d)]
  <2>1. Cell(d) \in DOMAIN data BY CellRange
  <2>2. Mask(Cell(d) - h) = (d - Off(h)) % RingMax BY MaskBack
  <2> QED BY <2>1, <2>2 DEF Written
<1>3. ASSUME NEW i \in 1..n PROVE Written(data, h, b)[Cell(Off(h) + i - 1)] = b[i]
  <2>1. Off(h) + i - 1 \in Int /\ (Off(h) + i - 1) - Off(h) = i - 1 /\ i - 1 \in 0..RingMax - 1 BY <1>1
  <2>2. (i - 1) % RingMax = i - 1 BY <1>1, <2>1, ModSmall
  <2>3. i - 1 < n /\ (i - 1) + 1 = i OBVIOUS
  <2> DEFINE e == Off(h) + i - 1
  <2>4. e \in Int /\ (e - Off(h)) % RingMax = i - 1 BY <2>1, <2>2, Zenon
  <2> HIDE DEF e
  <2>5. Written(data, h, b)[Cell(e)] = b[(i - 1) + 1] BY <1>2, <2>3, <2>4
  <2> QED BY <2>3, <2>5 DEF e
<1>4. ASSUME NEW d \in Off(h) + n - RingMax..Off(h) + RingMax - 1, d \notin Off(h)..Off(h) + n - 1
      PROVE  Written(data, h, b)[Cell(d)] = data[Cell(d)]
  <2>1. d \in Int /\ d - Off(h) \in Int BY <1>1
  <2>2. CASE d - Off(h) >= 0
    <3>0. d - Off(h) \in 0..RingMax - 1 BY <1>1, <2>1, <2>2
    <3>1. (d - Off(h)) % RingMax = d - Off(h) BY <1>1, <3>0, ModSmall
    <3>2. ~(d - Off(h) < n) BY <1>1, <1>4, <2>1, <2>2
    <3> QED BY <1>2, <2>1, <3>1, <3>2
  <2>3. CASE d - Off(h) < 0
    <3>1. d - Off(h) + RingMax \in 0..RingMax - 1 /\ ~(d - Off(h) + RingMax < n) BY <1>1, <1>4, <2>1, <2>3, SMTT(30)
    <3>2. ((d - Off(h)) + 1 * RingMax) % RingMax = (d - Off(h)) % RingMax
          BY ONLY <1>1, <2>1, ModPlus, 1 \in Int
    <3>3. (d - Off(h)) + 1 * RingMax = d - Off(h) + RingMax BY <1>1, <2>1
    <3>4. (d - Off(h)) % RingMax = d - Off(h) + RingMax BY <1>1, <3>1, <3>2, <3>3, ModSmall
    <3> QED BY <1>2, <2>1, <3>1, <3>4
  <2> QED BY <2>1, <2>2, <2>3
<1> QED BY <1>3, <1>4
-----------------------------------------------------------------------------
\* The indices of a ring as offsets, and how far they may go.
LEMMA RingFacts ==
    ASSUME QInv, NEW r \in Rings
    PROVE  /\ rq[r] \in RingType
           /\ rq[r].phead \in Index /\ rq[r].ptail \in Index /\ rq[r].chead \in Index /\ rq[r].ctail \in Index
           /\ ph(r) \in Nat /\ pt(r) \in Nat /\ ch(r) \in Nat /\ ct(r) \in Nat
           /\ ct(r) <= ch(r) /\ ch(r) <= pt(r) /\ pt(r) <= ph(r) /\ ph(r) <= ct(r) + RingMax
           /\ RingMax \in Nat \ {0} /\ Width \in Nat \ {0} /\ ph(r) + RingMax < Width
<1>1. rq[r] \in RingType BY DEF QInv, QTyped
<1>2. rq[r].phead \in Index /\ rq[r].ptail \in Index /\ rq[r].chead \in Index /\ rq[r].ctail \in Index
      BY <1>1 DEF RingType
<1>3. RingMax \in Nat \ {0} /\ Width \in Nat \ {0} /\ BatchMax \in Nat BY QueueAssumption, MaxAssumption
<1>4. Index \subseteq Nat BY <1>3 DEF Index
<1>5. ph(r) \in Nat /\ pt(r) \in Nat /\ ch(r) \in Nat /\ ct(r) \in Nat
      BY <1>2, <1>4, OffDef DEF ph, pt, ch, ct
<1>6. ph(r) + RingMax < Width
  <2> DEFINE k == Cardinality(Threads \ InFlight(r))
             m == Cardinality(Threads)
  <2>1. IsFiniteSet(Threads) BY QueueAssumption
  <2>2. k \in Nat /\ m \in Nat /\ k <= m BY <2>1, FS_Subset, FS_CardinalityType
  <2>3. ph(r) <= MaxTurns + BatchMax * k BY DEF QInv, Bounded
  <2>4. MaxTurns \in Nat /\ MaxTurns + BatchMax * m + RingMax < Width BY QueueAssumption
  <2> HIDE DEF k, m
  <2>5. PICK j \in Nat : m = k + j BY <2>2
  <2>6. BatchMax * m = BatchMax * k + BatchMax * j /\ BatchMax * j >= 0 BY <1>3, <2>2, <2>5
  <2>7. BatchMax * k \in Nat /\ BatchMax * m \in Nat BY <1>3, <2>2
  <2> QED BY <1>3, <1>5, <2>3, <2>4, <2>6, <2>7
<1> QED BY <1>1, <1>2, <1>3, <1>5, <1>6 DEF QInv, Order

\* What a thread is in, and what it holds.
LEMMA ThreadFacts ==
    ASSUME QInv, NEW t \in Threads
    PROVE  /\ th[t] \in ThreadType /\ th[t].call \in CallType
           /\ th[t].hand \in Seq(Slots) /\ Len(th[t].hand) \in Nat /\ Len(th[t].hand) <= BatchMax
           /\ th[t].refused \in BOOLEAN
           /\ th[t].call.r \in Rings /\ th[t].call.n \in Nat /\ th[t].call.n <= BatchMax
           /\ th[t].call.head \in Index /\ start(t) \in Nat /\ end(t) = start(t) + th[t].call.n
<1>1. th[t] \in ThreadType BY DEF QInv, QTyped
<1>2. th[t].call \in CallType /\ th[t].hand \in Seq(Slots) /\ th[t].refused \in BOOLEAN BY <1>1 DEF ThreadType
<1>3. th[t].call.r \in Rings /\ th[t].call.n \in 0..BatchMax /\ th[t].call.head \in Index BY <1>2 DEF CallType
<1>4. BatchMax \in Nat /\ Width \in Nat BY QueueAssumption
<1>5. start(t) \in Nat BY <1>3, <1>4, OffDef DEF start, Index
<1> QED BY <1>1, <1>2, <1>3, <1>4, <1>5 DEF QInv, QTyped, start, end

\* What a step of t must show, for the rest to stay as it is.
LEMMA StepKeeps ==
    ASSUME QInv, QTyped', NEW t \in Threads,
           \A u \in Threads \ {t} : th'[u] = th[u],
           \A r \in Rings : Order(r)' /\ Bounded(r)' /\ Stored(r)',
           \A r \in Rings : ph(r) <= ph(r)' /\ pt(r) <= pt(r)' /\ ch(r) <= ch(r)' /\ ct(r) <= ct(r)',
           \A u \in Threads \ {t}, r \in Rings : Has(u, "push", r) =>
               pt(r)' <= start(u) /\ \A d \in start(u)..end(u) - 1 : Item(r, d)' = Item(r, d),
           \A u \in Threads \ {t}, r \in Rings : Has(u, "pop", r) => ct(r)' <= start(u),
           CallRight(t)',
           \A u \in Threads \ {t}, op \in {"push", "pop"}, r \in Rings :
               Has(t, op, r)' /\ Has(u, op, r) => end(t)' <= start(u) \/ end(u) <= start(t)'
    PROVE  QInv'
<1>1. ASSUME NEW u \in Threads \ {t}
      PROVE  /\ start(u)' = start(u) /\ end(u)' = end(u)
             /\ \A op, r : Has(u, op, r)' <=> Has(u, op, r)
      BY <1>1 DEF start, end, Has, Reserved
<1>2. ASSUME NEW u \in Threads \ {t} PROVE CallRight(u)'
  <2>0. PICK c \in CallType, r \in Rings : c = th[u].call /\ r = c.r BY ThreadFacts
  <2>1. th[u].call = c /\ th'[u].call = c /\ th'[u].hand = th[u].hand BY <1>2, <2>0
  <2>2. start(u) \in Nat /\ c.n \in Nat /\ end(u) = start(u) + c.n BY <2>0, ThreadFacts
  <2>3. Width \in Nat /\ rq'[r].phead \in Index /\ rq'[r].ctail \in Index /\ rq'[r].chead \in Index /\ rq'[r].ptail \in Index
        BY <2>2, QueueAssumption DEF QTyped, RingType
  <2>4. ph(r)' \in Nat /\ ct(r)' \in Nat /\ ch(r)' \in Nat /\ pt(r)' \in Nat
        BY <2>3, OffDef DEF ph, ct, ch, pt, Index
  <2>5. ph(r) \in Nat /\ ct(r) \in Nat /\ ch(r) \in Nat /\ pt(r) \in Nat /\ RingMax \in Nat BY <2>2, RingFacts
  <2>6. ph(r) <= ph(r)' /\ pt(r) <= pt(r)' /\ ch(r) <= ch(r)' /\ ct(r) <= ct(r)' BY <2>2
  <2>7. CallRight(u) BY DEF QInv
  <2>8. c.op = "push" => PushRight(u, r)'
    <3> SUFFICES ASSUME c.op = "push" PROVE PushRight(u, r)' OBVIOUS
    <3>1. PushRight(u, r) BY <2>0, <2>7 DEF CallRight
    <3>2. Has(u, "push", r) <=> c.at \in {"copy", "tail"} BY <2>0 DEF Has, Reserved
    <3>4. start(u)' = start(u) /\ end(u)' = end(u) BY <1>1
    <3>3. c.at = "tail" => \A i \in 1..c.n : Item(r, start(u) + i - 1)' = Item(r, start(u) + i - 1)
      <4> SUFFICES ASSUME c.at = "tail", NEW i \in 1..c.n PROVE Item(r, start(u) + i - 1)' = Item(r, start(u) + i - 1)
          OBVIOUS
      <4>1. PICK d \in start(u)..end(u) - 1 : d = start(u) + i - 1 BY <2>2
      <4>2. Item(r, d)' = Item(r, d) BY <3>2
      <4>3. Item(r, start(u) + i - 1)' = Item(r, d)' BY <3>4, <4>1 DEF Item
      <4> QED BY <4>1, <4>2, <4>3
    <3>5. th'[u].call.at = c.at /\ th'[u].call.n = c.n /\ th[u].call.at = c.at /\ th[u].call.n = c.n BY <2>1
    <3>6. c.at \in {"copy", "tail"} => pt(r)' <= start(u) BY <2>2, <3>2
    <3> QED BY <2>1, <2>2, <2>4, <2>5, <2>6, <3>1, <3>3, <3>4, <3>5, <3>6 DEF PushRight
  <2>9. c.op = "pop" => PopRight(u, r)'
    <3> SUFFICES ASSUME c.op = "pop" PROVE PopRight(u, r)' OBVIOUS
    <3>1. PopRight(u, r) BY <2>0, <2>7 DEF CallRight
    <3>2. Has(u, "pop", r) <=> c.at \in {"copy", "tail"} BY <2>0 DEF Has, Reserved
    <3>4. start(u)' = start(u) /\ end(u)' = end(u) BY <1>1
    <3>5. th'[u].call.at = c.at /\ th'[u].call.n = c.n /\ th[u].call.at = c.at /\ th[u].call.n = c.n BY <2>1
    <3>6. c.at \in {"copy", "tail"} => ct(r)' <= start(u) BY <2>2, <3>2
    <3> QED BY <2>1, <2>2, <2>4, <2>5, <2>6, <3>1, <3>4, <3>5, <3>6 DEF PopRight
  <2> QED BY <2>0, <2>1, <2>7, <2>8, <2>9 DEF CallRight
<1>3. ReservedApart'
  <2> SUFFICES ASSUME NEW v \in Threads, NEW u \in Threads, NEW op \in {"push", "pop"}, NEW r \in Rings,
                      v # u, Has(v, op, r)', Has(u, op, r)'
               PROVE  end(v)' <= start(u)' \/ end(u)' <= start(v)'
      BY DEF ReservedApart
  <2>1. CASE v = t BY <2>1, <1>1
  <2>2. CASE u = t BY <2>2, <1>1
  <2>3. CASE v # t /\ u # t BY <2>3, <1>1 DEF QInv, ReservedApart
  <2> QED BY <2>1, <2>2, <2>3
<1> QED BY <1>2, <1>3 DEF QInv

\* A ring whose prod.head does not move, and that nobody else is about to push on, stays bounded.
LEMMA BoundedKept ==
    ASSUME NEW r \in Rings, Bounded(r), ph(r)' = ph(r), ph(r) \in Nat, InFlight(r)' \subseteq InFlight(r)
    PROVE  Bounded(r)'
<1> DEFINE k == Cardinality(Threads \ InFlight(r))
           m == Cardinality(Threads \ InFlight(r)')
<1>1. IsFiniteSet(Threads) /\ BatchMax \in Nat /\ MaxTurns \in Nat BY QueueAssumption
<1>2. IsFiniteSet(Threads \ InFlight(r)') /\ IsFiniteSet(Threads \ InFlight(r)) BY <1>1, FS_Subset
<1>3. Threads \ InFlight(r) \subseteq Threads \ InFlight(r)' OBVIOUS
<1>4. k \in Nat /\ m \in Nat /\ k <= m BY <1>2, <1>3, FS_Subset, FS_CardinalityType
<1>5. ph(r) <= MaxTurns + BatchMax * k BY DEF Bounded
<1> HIDE DEF k, m
<1>6. PICK j \in Nat : m = k + j BY <1>4
<1>7. BatchMax * m = BatchMax * k + BatchMax * j /\ BatchMax * j >= 0 BY <1>1, <1>4, <1>6
<1>8. BatchMax * k \in Nat /\ BatchMax * m \in Nat BY <1>1, <1>4
<1>9. ph(r)' <= MaxTurns + BatchMax * m BY <1>1, <1>5, <1>7, <1>8
<1> QED BY <1>9 DEF Bounded, m

\* A thread that has reserved is no longer about to.
LEMMA BoundedMoves ==
    ASSUME NEW r \in Rings, Bounded(r), ph(r) \in Nat, ph(r)' \in Nat, ph(r)' <= ph(r) + BatchMax,
           NEW t \in InFlight(r), InFlight(r)' = InFlight(r) \ {t}
    PROVE  Bounded(r)'
<1> DEFINE S == Threads \ InFlight(r)
           k == Cardinality(S)
           m == Cardinality(Threads \ InFlight(r)')
<1>1. IsFiniteSet(Threads) /\ BatchMax \in Nat /\ MaxTurns \in Nat BY QueueAssumption
<1>2. Threads \ InFlight(r)' = S \cup {t} /\ t \notin S BY DEF InFlight
<1>3. IsFiniteSet(S) BY <1>1, FS_Subset
<1>4. m = k + 1 /\ k \in Nat BY <1>2, <1>3, FS_AddElement, FS_CardinalityType
<1>5. ph(r) <= MaxTurns + BatchMax * k BY DEF Bounded
<1> HIDE DEF k, m, S
<1>6. BatchMax * m = BatchMax * k + BatchMax /\ BatchMax * k \in Nat BY <1>1, <1>4
<1>7. ph(r)' <= MaxTurns + BatchMax * m BY <1>1, <1>5, <1>6
<1> QED BY <1>7 DEF Bounded, m

LEMMA BoundedFirst ==
    ASSUME NEW r \in Rings, ph(r) \in Nat, ph(r) <= MaxTurns
    PROVE  Bounded(r)
<1>1. IsFiniteSet(Threads) /\ BatchMax \in Nat /\ MaxTurns \in Nat BY QueueAssumption
<1>2. Cardinality(Threads \ InFlight(r)) \in Nat BY <1>1, FS_Subset, FS_CardinalityType
<1>3. BatchMax * Cardinality(Threads \ InFlight(r)) \in Nat BY <1>1, <1>2
<1> QED BY <1>1, <1>3 DEF Bounded

\* Nothing in a ring changes that another thread depends on: only its count may.
SameRings ==
    \A r \in Rings :
        /\ rq'[r].phead = rq[r].phead /\ rq'[r].ptail = rq[r].ptail
        /\ rq'[r].chead = rq[r].chead /\ rq'[r].ctail = rq[r].ctail
        /\ rq'[r].data = rq[r].data

LEMMA SameView ==
    ASSUME SameRings, NEW r \in Rings
    PROVE  /\ ph(r)' = ph(r) /\ pt(r)' = pt(r) /\ ch(r)' = ch(r) /\ ct(r)' = ct(r)
           /\ \A d : Item(r, d)' = Item(r, d)
BY DEF SameRings, ph, pt, ch, ct, Item

\* A step of t that moves no index and writes no place.
LEMMA Unmoved ==
    ASSUME QInv, QTyped', NEW t \in Threads, \A u \in Threads \ {t} : th'[u] = th[u],
           SameRings, CallRight(t)',
           \A op \in {"push", "pop"}, r \in Rings : Has(t, op, r)' =>
               Has(t, op, r) /\ start(t)' = start(t) /\ end(t)' = end(t),
           \A r \in Rings : InFlight(r)' \subseteq InFlight(r) \/ ph(r) < MaxTurns
    PROVE  QInv'
<1>1. ASSUME NEW r \in Rings PROVE Order(r)' /\ Bounded(r)' /\ Stored(r)'
  <2>1. /\ ph(r)' = ph(r) /\ pt(r)' = pt(r) /\ ch(r)' = ch(r) /\ ct(r)' = ct(r)
        /\ \A d : Item(r, d)' = Item(r, d)
        BY SameView
  <2>2. Order(r) /\ Bounded(r) /\ Stored(r) /\ ph(r) \in Nat BY RingFacts DEF QInv
  <2>3. Order(r)' /\ Stored(r)' BY <2>1, <2>2 DEF Order, Stored
  <2>4. Bounded(r)'
    <3>1. CASE InFlight(r)' \subseteq InFlight(r) BY <2>1, <2>2, <3>1, BoundedKept
    <3>2. CASE ph(r) < MaxTurns
      <4>1. IsFiniteSet(Threads) /\ BatchMax \in Nat /\ MaxTurns \in Nat BY QueueAssumption
      <4>2. Cardinality(Threads \ InFlight(r)') \in Nat BY <4>1, FS_Subset, FS_CardinalityType
      <4>3. BatchMax * Cardinality(Threads \ InFlight(r)') \in Nat BY <4>1, <4>2
      <4>4. ph(r)' <= MaxTurns + BatchMax * Cardinality(Threads \ InFlight(r)') BY <2>1, <2>2, <3>2, <4>1, <4>3
      <4> QED BY <4>4 DEF Bounded
    <3> QED BY <3>1, <3>2
  <2> QED BY <2>3, <2>4
<1>2. \A r \in Rings : ph(r) <= ph(r)' /\ pt(r) <= pt(r)' /\ ch(r) <= ch(r)' /\ ct(r) <= ct(r)'
      BY RingFacts, SameView
<1>3. ASSUME NEW u \in Threads \ {t}, NEW r \in Rings
      PROVE  /\ Has(u, "push", r) => pt(r)' <= start(u) /\ \A d \in start(u)..end(u) - 1 : Item(r, d)' = Item(r, d)
             /\ Has(u, "pop", r) => ct(r)' <= start(u)
  <2>1. CallRight(u) BY DEF QInv
  <2> QED BY <2>1, SameView DEF CallRight, PushRight, PopRight, Has, Reserved
<1>4. ASSUME NEW u \in Threads \ {t}, NEW op \in {"push", "pop"}, NEW r \in Rings, Has(t, op, r)', Has(u, op, r)
      PROVE  end(t)' <= start(u) \/ end(u) <= start(t)'
      BY <1>4 DEF QInv, ReservedApart
<1> QED BY <1>1, <1>2, <1>3, <1>4, StepKeeps
-----------------------------------------------------------------------------
\* The forms in which a step changes its thread.
Same(t, x) == th'[t].call.op = x.op /\ th'[t].call.r = x.r /\ th'[t].call.n = x.n
Ats == {"none", "head", "check", "cas", "copy", "tail", "num"}

LEMMA Gone ==
    ASSUME QInv, NEW t \in Threads, NEW at \in Ats, th' = Goto(t, at)
    PROVE  /\ th' \in [Threads -> ThreadType]
           /\ Same(t, th[t].call) /\ th'[t].call.at = at /\ th'[t].call.head = th[t].call.head
           /\ th'[t].hand = th[t].hand /\ th'[t].refused = th[t].refused
           /\ \A u \in Threads \ {t} : th'[u] = th[u]
<1>1. th \in [Threads -> ThreadType] BY DEF QInv, QTyped
<1> DEFINE c == [th[t].call EXCEPT !.at = at]
           x == [th[t] EXCEPT !.call = c]
<1>2. th' = [th EXCEPT ![t] = x] BY <1>1 DEF Goto
<1>3. th[t] \in ThreadType /\ th[t].call \in CallType BY ThreadFacts
<1>4. c \in CallType /\ c.op = th[t].call.op /\ c.r = th[t].call.r /\ c.n = th[t].call.n /\ c.at = at
      /\ c.head = th[t].call.head
      BY <1>3 DEF CallType, Ats
<1> HIDE DEF c
<1>5. x \in ThreadType /\ x.call = c /\ x.hand = th[t].hand /\ x.refused = th[t].refused
      BY <1>3, <1>4 DEF ThreadType
<1> HIDE DEF x
<1> QED BY <1>1, <1>2, <1>4, <1>5 DEF Same

LEMMA Ended ==
    ASSUME QInv, NEW t \in Threads, NEW b \in BOOLEAN, th' = [Return(t) EXCEPT ![t].refused = b] \/ th' = Return(t)
    PROVE  /\ th' \in [Threads -> ThreadType]
           /\ th'[t].call = Idle /\ th'[t].hand = th[t].hand
           /\ \A u \in Threads \ {t} : th'[u] = th[u]
<1>1. th \in [Threads -> ThreadType] /\ th[t] \in ThreadType BY DEF QInv, QTyped
<1>2. Idle \in CallType BY QueueAssumption DEF Idle, CallType, Rings, Index
<1> DEFINE x == [th[t] EXCEPT !.call = Idle]
           y == [x EXCEPT !.refused = b]
<1>3. Return(t) = [th EXCEPT ![t] = x] BY <1>1 DEF Return
<1>4. x \in ThreadType /\ x.call = Idle /\ x.hand = th[t].hand BY <1>1, <1>2 DEF ThreadType
<1>5. y \in ThreadType /\ y.call = Idle /\ y.hand = th[t].hand BY <1>4 DEF ThreadType
<1> HIDE DEF x
<1>6. Return(t) \in [Threads -> ThreadType] /\ Return(t)[t] = x BY <1>1, <1>3, <1>4
<1>7. [Return(t) EXCEPT ![t].refused = b] = [th EXCEPT ![t] = y] BY <1>1, <1>3, <1>6
<1> HIDE DEF y
<1> QED BY <1>1, <1>3, <1>4, <1>5, <1>7

\* The head of a call is read again.
HeadAt(t, h) == [th EXCEPT ![t].call.head = h, ![t].call.at = "check"]

LEMMA HeadRead ==
    ASSUME QInv, NEW t \in Threads, NEW h \in Index,
           th' = HeadAt(t, h)
    PROVE  /\ th' \in [Threads -> ThreadType]
           /\ Same(t, th[t].call) /\ th'[t].call.at = "check" /\ th'[t].call.head = h
           /\ th'[t].hand = th[t].hand
           /\ \A u \in Threads \ {t} : th'[u] = th[u]
<1>1. th \in [Threads -> ThreadType] BY DEF QInv, QTyped
<1> DEFINE c == [th[t].call EXCEPT !.head = h, !.at = "check"]
           x == [th[t] EXCEPT !.call = c]
<1>2. th' = [th EXCEPT ![t] = x] BY <1>1 DEF HeadAt, ThreadType, CallType
<1>3. th[t] \in ThreadType /\ th[t].call \in CallType BY ThreadFacts
<1>4. c \in CallType /\ c.op = th[t].call.op /\ c.r = th[t].call.r /\ c.n = th[t].call.n /\ c.at = "check"
      /\ c.head = h
      BY <1>3 DEF CallType
<1> HIDE DEF c
<1>5. x \in ThreadType /\ x.call = c /\ x.hand = th[t].hand BY <1>3, <1>4 DEF ThreadType
<1> HIDE DEF x
<1> QED BY <1>1, <1>2, <1>4, <1>5 DEF Same

\* A call begins.
LEMMA Begun ==
    ASSUME QInv, NEW t \in Threads, NEW op \in {"push", "pop"}, NEW r \in Rings, NEW n \in 0..BatchMax,
           Call(t, op, r, n)
    PROVE  /\ th' \in [Threads -> ThreadType] /\ rq' = rq
           /\ th[t].call = Idle /\ n > 0
           /\ th'[t].call = [op |-> op, at |-> "head", r |-> r, n |-> n, head |-> 0]
           /\ th'[t].hand = th[t].hand
           /\ \A u \in Threads \ {t} : th'[u] = th[u]
<1>1. th \in [Threads -> ThreadType] /\ th[t] \in ThreadType BY DEF QInv, QTyped
<1> DEFINE c == [op |-> op, at |-> "head", r |-> r, n |-> n, head |-> 0]
           x == [th[t] EXCEPT !.call = c]
<1>2. th' = [th EXCEPT ![t] = x] BY <1>1 DEF Call
<1>3. c \in CallType BY QueueAssumption DEF CallType, Index
<1>4. x \in ThreadType /\ x.call = c /\ x.hand = th[t].hand BY <1>1, <1>3 DEF ThreadType
<1> HIDE DEF x
<1> QED BY <1>1, <1>2, <1>4 DEF Call

LEMMA SameRq == rq' = rq => SameRings
BY DEF SameRings
-----------------------------------------------------------------------------
\* Whoever is at an earlier step than the copy has no places, and whoever is past cas is not about to.
LEMMA Places ==
    ASSUME NEW t, NEW op, NEW r
    PROVE  /\ th[t].call.at \notin {"copy", "tail"} => ~Has(t, op, r)
           /\ (th[t].call.at \notin {"copy", "tail"})' => ~Has(t, op, r)'
BY DEF Has

LEMMA FlightKept ==
    ASSUME NEW t \in Threads, \A u \in Threads \ {t} : th'[u] = th[u], NEW r \in Rings,
           (Reserved(t, "push", r) /\ th[t].call.at \in {"head", "check", "cas"})' =>
              Reserved(t, "push", r) /\ th[t].call.at \in {"head", "check", "cas"}
    PROVE  InFlight(r)' \subseteq InFlight(r)
<1> SUFFICES ASSUME NEW u \in InFlight(r)' PROVE u \in InFlight(r) OBVIOUS
<1>1. u \in Threads /\ (Reserved(u, "push", r) /\ th[u].call.at \in {"head", "check", "cas"})' BY DEF InFlight
<1>2. CASE u = t BY <1>1, <1>2 DEF InFlight
<1>3. CASE u # t BY <1>1, <1>3 DEF InFlight, Reserved
<1> QED BY <1>2, <1>3

LEMMA BeginHolds ==
    ASSUME QInv, NEW t \in Threads, NEW op \in {"push", "pop"}, NEW r \in Rings, NEW n \in 0..BatchMax,
           Call(t, op, r, n),
           op = "push" => n <= Len(th[t].hand) /\ ph(r) < MaxTurns,
           op = "pop" => Len(th[t].hand) + n <= BatchMax
    PROVE  QInv'
<1>1. /\ th' \in [Threads -> ThreadType] /\ rq' = rq
      /\ th[t].call = Idle /\ n > 0
      /\ th'[t].call = [op |-> op, at |-> "head", r |-> r, n |-> n, head |-> 0]
      /\ th'[t].hand = th[t].hand
      /\ \A u \in Threads \ {t} : th'[u] = th[u]
      BY Begun
<1>2. QTyped' BY <1>1 DEF QInv, QTyped
<1>3. /\ th'[t].call.op = op /\ th'[t].call.at = "head" /\ th'[t].call.r = r /\ th'[t].call.n = n BY <1>1
<1>4. n \in Nat BY QueueAssumption
<1>5. CallRight(t)' BY <1>1, <1>3, <1>4 DEF CallRight, PushRight, PopRight
<1>6. \A o \in {"push", "pop"}, q \in Rings : ~Has(t, o, q)' BY <1>3, Places
<1>7. ASSUME NEW q \in Rings PROVE InFlight(q)' \subseteq InFlight(q) \/ ph(q) < MaxTurns
  <2>1. CASE op = "push" /\ q = r BY <2>1
  <2>2. CASE ~(op = "push" /\ q = r)
    <3>1. ~Reserved(t, "push", q)' BY <1>3, <2>2 DEF Reserved
    <3> QED BY <1>1, <3>1, FlightKept
  <2> QED BY <2>1, <2>2
<1>8. SameRings BY <1>1, SameRq
<1> QED BY <1>1, <1>2, <1>5, <1>6, <1>7, <1>8, Unmoved

\* The callers of the queue (queue_malloc, queue_push, queue_dealloc, queue_mpop).
LEMMA CallerIs ==
    ASSUME QInv, NEW t \in Threads, Caller(t)
    PROVE  \E op \in {"push", "pop"}, r \in Rings, n \in 0..BatchMax :
              /\ Call(t, op, r, n)
              /\ op = "push" => n <= Len(th[t].hand) /\ ph(r) < MaxTurns
              /\ op = "pop" => Len(th[t].hand) + n <= BatchMax
<1>1. Len(th[t].hand) \in Nat /\ Len(th[t].hand) <= BatchMax /\ BatchMax \in Nat \ {0}
      BY ThreadFacts, QueueAssumption
<1>2. "ring" \in Rings /\ "slot" \in Rings BY DEF Rings
<1>3. CASE queue_malloc(t)
  <2>1. Call(t, "pop", "slot", 1) /\ Len(th[t].hand) < BatchMax BY <1>3 DEF queue_malloc
  <2>2. 1 \in 0..BatchMax /\ Len(th[t].hand) + 1 <= BatchMax BY <1>1, <2>1
  <2> QED BY <1>2, <2>1, <2>2
<1>4. CASE queue_push(t)
  <2>1. Call(t, "push", "ring", Len(th[t].hand)) /\ ph("ring") < MaxTurns BY <1>4 DEF queue_push, Turns, ph, Off
  <2>2. Len(th[t].hand) \in 0..BatchMax BY <1>1
  <2> QED BY <1>1, <1>2, <2>1, <2>2
<1>5. CASE queue_dealloc(t)
  <2>1. Call(t, "push", "slot", MIN(1, Len(th[t].hand))) /\ ph("slot") < MaxTurns
        BY <1>5 DEF queue_dealloc, Turns, ph, Off
  <2>2. MIN(1, Len(th[t].hand)) \in 0..BatchMax /\ MIN(1, Len(th[t].hand)) <= Len(th[t].hand) BY <1>1 DEF MIN
  <2> QED BY <1>2, <2>1, <2>2
<1>6. CASE queue_mpop(t)
  <2>1. Call(t, "pop", "ring", MIN(rq["ring"].num, BatchMax)) /\ th[t].hand = <<>> BY <1>6 DEF queue_mpop
  <2>2. rq["ring"].num \in Nat BY <1>2, RingFacts, QueueAssumption, SMTT(30) DEF RingType, Index
  <2>3. MIN(rq["ring"].num, BatchMax) \in 0..BatchMax /\ Len(th[t].hand) = 0 BY <1>1, <2>1, <2>2 DEF MIN
  <2>4. Len(th[t].hand) + MIN(rq["ring"].num, BatchMax) <= BatchMax BY <1>1, <2>3
  <2> QED BY <1>2, <2>1, <2>3, <2>4
<1> QED BY <1>3, <1>4, <1>5, <1>6 DEF Caller

LEMMA CallerHolds ==
    ASSUME QInv, NEW t \in Threads, Caller(t)
    PROVE  QInv'
BY CallerIs, BeginHolds

\* Reading an index: what was read is no further than the index is.
LEMMA HeadHolds ==
    ASSUME QInv, NEW t \in Threads, ring_mpush_head(t) \/ ring_mpop_head(t)
    PROVE  QInv'
<1>1. PICK r \in Rings : r = th[t].call.r BY ThreadFacts
<1>2. th[t].call.op \in {"push", "pop"} /\ th[t].call.at = "head" /\ rq' = rq
      BY SMTT(30) DEF ring_mpush_head, ring_mpop_head, At
<1>3. PICK h \in Index : /\ h = IF th[t].call.op = "push" THEN rq[r].phead ELSE rq[r].chead
                         /\ th' = HeadAt(t, h)
      BY <1>1, RingFacts DEF ring_mpush_head, ring_mpop_head, At, HeadAt
<1>4. /\ th' \in [Threads -> ThreadType]
      /\ Same(t, th[t].call) /\ th'[t].call.at = "check" /\ th'[t].call.head = h
      /\ th'[t].hand = th[t].hand
      /\ \A u \in Threads \ {t} : th'[u] = th[u]
      BY <1>3, HeadRead
<1>5. QTyped' BY <1>2, <1>4 DEF QInv, QTyped
<1>6. start(t)' = IF th[t].call.op = "push" THEN ph(r) ELSE ch(r) BY <1>3, <1>4 DEF start, ph, ch
<1>7. SameRings BY <1>2, SameRq
<1>8. ph(r)' = ph(r) /\ ch(r)' = ch(r) /\ ph(r) \in Nat /\ ch(r) \in Nat BY <1>7, SameView, RingFacts
<1>9. CallRight(t)'
  <2>1. CallRight(t) BY DEF QInv
  <2>2. th'[t].call.r = r /\ th'[t].call.op = th[t].call.op /\ th'[t].call.n = th[t].call.n BY <1>1, <1>4 DEF Same
  <2>3. th[t].call.op = "push" => PushRight(t, r)'
        BY <1>1, <1>2, <1>4, <1>6, <1>8, <2>1, <2>2 DEF CallRight, PushRight
  <2>4. th[t].call.op = "pop" => PopRight(t, r)'
        BY <1>1, <1>2, <1>4, <1>6, <1>8, <2>1, <2>2 DEF CallRight, PopRight
  <2> QED BY <1>2, <1>4, <2>1, <2>2, <2>3, <2>4 DEF CallRight
<1>10. \A o \in {"push", "pop"}, q \in Rings : ~Has(t, o, q)' BY <1>4, Places
<1>11. ASSUME NEW q \in Rings PROVE InFlight(q)' \subseteq InFlight(q)
      BY <1>2, <1>4, FlightKept DEF Reserved, Same
<1> QED BY <1>4, <1>5, <1>7, <1>9, <1>10, <1>11, Unmoved

\* A call that ends leaves nothing behind.
LEMMA EndHolds ==
    ASSUME QInv, NEW t \in Threads, rq' \in [Rings -> RingType], SameRings, NEW b \in BOOLEAN,
           th' = [Return(t) EXCEPT ![t].refused = b] \/ th' = Return(t)
    PROVE  QInv'
<1>1. /\ th' \in [Threads -> ThreadType]
      /\ th'[t].call = Idle /\ th'[t].hand = th[t].hand
      /\ \A u \in Threads \ {t} : th'[u] = th[u]
      BY Ended
<1>2. QTyped' BY <1>1 DEF QInv, QTyped
<1>3. CallRight(t)' BY <1>1 DEF CallRight, Idle
<1>4. \A o \in {"push", "pop"}, q \in Rings : ~Has(t, o, q)' BY <1>1, Places DEF Idle
<1>5. ASSUME NEW q \in Rings PROVE InFlight(q)' \subseteq InFlight(q)
      BY <1>1, FlightKept DEF Reserved, Idle
<1> QED BY <1>1, <1>2, <1>3, <1>4, <1>5, Unmoved

\* A step to another place of the same call, before it has reserved or after it has published.
LEMMA GotoHolds ==
    ASSUME QInv, NEW t \in Threads, rq' = rq, NEW at \in {"head", "cas"}, th' = Goto(t, at),
           th[t].call.op \in {"push", "pop"}, th[t].call.at \in {"check", "cas"},
           at = "cas" => /\ th[t].call.at = "check"
                         /\ th[t].call.op = "push" => end(t) <= ct(th[t].call.r) + RingMax
                         /\ th[t].call.op = "pop" => end(t) <= pt(th[t].call.r)
    PROVE  QInv'
<1>1. PICK r \in Rings : r = th[t].call.r BY ThreadFacts
<1>2. at \in Ats BY DEF Ats
<1>3. /\ th' \in [Threads -> ThreadType]
      /\ Same(t, th[t].call) /\ th'[t].call.at = at /\ th'[t].call.head = th[t].call.head
      /\ th'[t].hand = th[t].hand /\ th'[t].refused = th[t].refused
      /\ \A u \in Threads \ {t} : th'[u] = th[u]
      BY <1>2, Gone
<1>4. QTyped' BY <1>3 DEF QInv, QTyped
<1>5. SameRings BY SameRq
<1>6. ph(r)' = ph(r) /\ ch(r)' = ch(r) /\ ct(r)' = ct(r) /\ pt(r)' = pt(r) BY <1>5, SameView
<1>7. start(t)' = start(t) /\ end(t)' = end(t) BY <1>3 DEF start, end, Same
<1>8. CallRight(t)'
  <2>1. CallRight(t) BY DEF QInv
  <2>2. th'[t].call.r = r /\ th'[t].call.op = th[t].call.op /\ th'[t].call.n = th[t].call.n BY <1>1, <1>3 DEF Same
  <2>3. th[t].call.op = "push" => PushRight(t, r)'
        BY <1>1, <1>3, <1>6, <1>7, <2>1, <2>2 DEF CallRight, PushRight
  <2>4. th[t].call.op = "pop" => PopRight(t, r)'
        BY <1>1, <1>3, <1>6, <1>7, <2>1, <2>2 DEF CallRight, PopRight
  <2> QED BY <1>3, <2>1, <2>2, <2>3, <2>4 DEF CallRight
<1>9. \A o \in {"push", "pop"}, q \in Rings : ~Has(t, o, q)' BY <1>3, Places
<1>10. ASSUME NEW q \in Rings PROVE InFlight(q)' \subseteq InFlight(q)
      BY <1>3, FlightKept DEF Reserved, Same
<1> QED BY <1>3, <1>4, <1>5, <1>8, <1>9, <1>10, Unmoved

\* ring_mpush goes on only if its batch fits between cons.tail and what it read of prod.head.
LEMMA PushCheckHolds ==
    ASSUME QInv, NEW t \in Threads, ring_mpush_check(t)
    PROVE  QInv'
<1>1. PICK r \in Rings : r = th[t].call.r BY ThreadFacts
<1>2. th[t].call.op = "push" /\ th[t].call.at = "check" /\ rq' = rq BY DEF ring_mpush_check, At
<1>3. CASE th[t].call.n > ring_space(t)
  <2>1. th' = [Return(t) EXCEPT ![t].refused = TRUE] BY <1>3 DEF ring_mpush_check
  <2> QED BY <1>2, <2>1, EndHolds, SameRq DEF QInv, QTyped
<1>4. CASE ~(th[t].call.n > ring_space(t))
  <2>1. th' = Goto(t, "cas") BY <1>4 DEF ring_mpush_check
  <2>2. start(t) <= ph(r) BY <1>1, <1>2 DEF QInv, CallRight, PushRight
  <2>3. /\ rq[r].ctail \in Index /\ ph(r) \in Nat /\ ct(r) \in Nat /\ RingMax \in Nat /\ Width \in Nat
        /\ ct(r) <= ph(r) /\ ph(r) <= ct(r) + RingMax /\ ph(r) + RingMax < Width
        BY RingFacts
  <2>4. start(t) \in Nat /\ th[t].call.head \in Index /\ th[t].call.n \in Nat /\ end(t) = start(t) + th[t].call.n
        BY ThreadFacts
  <2>5. RingMax + ct(r) - start(t) \in Index BY <2>2, <2>3, <2>4 DEF Index
  <2>6. ring_space(t) = RingMax + ct(r) - start(t) BY <1>1, <2>3, <2>4, <2>5, OffSpace DEF ring_space, ct, start
  <2>7. end(t) <= ct(r) + RingMax BY <1>4, <2>3, <2>4, <2>6
  <2> QED BY <1>1, <1>2, <2>1, <2>7, GotoHolds
<1> QED BY <1>3, <1>4

\* ring_mpop goes on only if there is as much between what it read of cons.head and prod.tail.
LEMMA PopCheckHolds ==
    ASSUME QInv, NEW t \in Threads, ring_mpop_check(t)
    PROVE  QInv'
<1>1. PICK r \in Rings : r = th[t].call.r BY ThreadFacts
<1>2. th[t].call.op = "pop" /\ th[t].call.at = "check" /\ rq' = rq BY DEF ring_mpop_check, At
<1>3. CASE th[t].call.n > ring_used(t)
  <2>1. th' = Return(t) BY <1>3 DEF ring_mpop_check
  <2> QED BY <1>2, <2>1, EndHolds, SameRq DEF QInv, QTyped
<1>4. CASE ~(th[t].call.n > ring_used(t))
  <2>1. th' = Goto(t, "cas") BY <1>4 DEF ring_mpop_check
  <2>2. start(t) <= ch(r) BY <1>1, <1>2 DEF QInv, CallRight, PopRight
  <2>3. rq[r].ptail \in Index /\ ch(r) \in Nat /\ pt(r) \in Nat /\ ch(r) <= pt(r) BY RingFacts
  <2>4. start(t) \in Nat /\ th[t].call.head \in Index /\ th[t].call.n \in Nat /\ end(t) = start(t) + th[t].call.n
        BY ThreadFacts
  <2>5. start(t) <= pt(r) BY <2>2, <2>3, <2>4
  <2>6. ring_used(t) = pt(r) - start(t) BY <1>1, <2>3, <2>4, <2>5, OffSub DEF ring_used, pt, start
  <2>7. end(t) <= pt(r) BY <1>4, <2>3, <2>4, <2>6
  <2> QED BY <1>1, <1>2, <2>1, <2>7, GotoHolds
<1> QED BY <1>3, <1>4

\* A ring whose count changes is otherwise the same.
LEMMA NumHolds ==
    ASSUME QInv, NEW t \in Threads, ring_mpush_num(t) \/ ring_mpop_num(t)
    PROVE  QInv'
<1>1. PICK r \in Rings : r = th[t].call.r BY ThreadFacts
<1>2. th' = Return(t) BY DEF ring_mpush_num, ring_mpop_num
<1>3. PICK k \in Index : rq' = [rq EXCEPT ![r].num = k]
  <2>1. rq[r].num \in Int /\ th[t].call.n \in Int /\ Width \in Nat \ {0}
        BY RingFacts, ThreadFacts, QueueAssumption DEF RingType, Index
  <2>2. Add(rq[r].num, th[t].call.n) \in Index BY <2>1 DEF Add, Index
  <2>3. Sub(rq[r].num, th[t].call.n) \in Index BY <2>1 DEF Sub, Index
  <2> QED BY <1>1, <2>2, <2>3 DEF ring_mpush_num, ring_mpop_num
<1>4. rq \in [Rings -> RingType] BY DEF QInv, QTyped
<1>5. rq' \in [Rings -> RingType] /\ SameRings BY <1>3, <1>4 DEF RingType, SameRings
<1> QED BY <1>2, <1>5, EndHolds
-----------------------------------------------------------------------------
\* The compare and set: it fails and the call starts again, or it moves the index.
LEMMA CasMoves ==
    ASSUME QInv, NEW t \in Threads, NEW r \in Rings, r = th[t].call.r, NEW f \in {"phead", "chead"},
           atomic32_cmp_and_set(t, f)
    PROVE  \/ th' = Goto(t, "head") /\ rq' = rq
           \/ /\ th' = Goto(t, "copy")
              /\ rq[r][f] = th[t].call.head
              /\ rq' = [rq EXCEPT ![r] = [rq[r] EXCEPT ![f] = Add(th[t].call.head, th[t].call.n)]]
<1>1. rq \in [Rings -> RingType] BY DEF QInv, QTyped
<1> QED BY <1>1 DEF atomic32_cmp_and_set

LEMMA PheadSet ==
    ASSUME QInv, NEW r \in Rings, NEW v \in Index, rq' = [rq EXCEPT ![r] = [rq[r] EXCEPT !["phead"] = v]]
    PROVE  /\ rq' \in [Rings -> RingType]
           /\ rq'[r].phead = v
           /\ rq'[r].ptail = rq[r].ptail /\ rq'[r].chead = rq[r].chead /\ rq'[r].ctail = rq[r].ctail
           /\ rq'[r].data = rq[r].data
           /\ \A q \in Rings \ {r} : rq'[q] = rq[q]
<1>1. rq \in [Rings -> RingType] /\ rq[r] \in RingType BY DEF QInv, QTyped
<1> DEFINE x == [rq[r] EXCEPT !["phead"] = v]
<1>2. x \in RingType /\ x.phead = v /\ x.ptail = rq[r].ptail /\ x.chead = rq[r].chead /\ x.ctail = rq[r].ctail
      /\ x.data = rq[r].data
      BY <1>1 DEF RingType
<1> HIDE DEF x
<1>3. rq' = [rq EXCEPT ![r] = x] BY DEF x
<1> QED BY <1>1, <1>2, <1>3

LEMMA CheadSet ==
    ASSUME QInv, NEW r \in Rings, NEW v \in Index, rq' = [rq EXCEPT ![r] = [rq[r] EXCEPT !["chead"] = v]]
    PROVE  /\ rq' \in [Rings -> RingType]
           /\ rq'[r].chead = v
           /\ rq'[r].phead = rq[r].phead /\ rq'[r].ptail = rq[r].ptail /\ rq'[r].ctail = rq[r].ctail
           /\ rq'[r].data = rq[r].data
           /\ \A q \in Rings \ {r} : rq'[q] = rq[q]
<1>1. rq \in [Rings -> RingType] /\ rq[r] \in RingType BY DEF QInv, QTyped
<1> DEFINE x == [rq[r] EXCEPT !["chead"] = v]
<1>2. x \in RingType /\ x.chead = v /\ x.phead = rq[r].phead /\ x.ptail = rq[r].ptail /\ x.ctail = rq[r].ctail
      /\ x.data = rq[r].data
      BY <1>1 DEF RingType
<1> HIDE DEF x
<1>3. rq' = [rq EXCEPT ![r] = x] BY DEF x
<1> QED BY <1>1, <1>2, <1>3

LEMMA OtherRings ==
    ASSUME NEW q, rq'[q] = rq[q]
    PROVE  /\ ph(q)' = ph(q) /\ pt(q)' = pt(q) /\ ch(q)' = ch(q) /\ ct(q)' = ct(q)
           /\ \A d : Item(q, d)' = Item(q, d)
BY DEF ph, pt, ch, ct, Item

\* A thread reserves places for its batch behind all that are reserved.
LEMMA PushCasHolds ==
    ASSUME QInv, NEW t \in Threads, ring_mpush_cas(t)
    PROVE  QInv'
<1>1. PICK r \in Rings : r = th[t].call.r BY ThreadFacts
<1>2. th[t].call.op = "push" /\ th[t].call.at = "cas" /\ atomic32_cmp_and_set(t, "phead") BY DEF ring_mpush_cas, At
<1>3. CASE th' = Goto(t, "head") /\ rq' = rq BY <1>2, <1>3, GotoHolds
<1>4. CASE /\ th' = Goto(t, "copy")
           /\ rq[r]["phead"] = th[t].call.head
           /\ rq' = [rq EXCEPT ![r] = [rq[r] EXCEPT !["phead"] = Add(th[t].call.head, th[t].call.n)]]
  <2> DEFINE v == Add(th[t].call.head, th[t].call.n)
  <2>1. /\ start(t) \in Nat /\ th[t].call.head \in Index /\ th[t].call.n \in Nat /\ th[t].call.n <= BatchMax
        /\ end(t) = start(t) + th[t].call.n
        BY ThreadFacts
  <2>2. /\ ph(r) \in Nat /\ pt(r) \in Nat /\ ch(r) \in Nat /\ ct(r) \in Nat
        /\ ct(r) <= ch(r) /\ ch(r) <= pt(r) /\ pt(r) <= ph(r) /\ ph(r) <= ct(r) + RingMax
        /\ RingMax \in Nat /\ Width \in Nat /\ ph(r) + RingMax < Width
        BY RingFacts
  <2>3. CallRight(t) /\ PushRight(t, r) BY <1>1, <1>2 DEF QInv, CallRight
  <2>4. end(t) <= ct(r) + RingMax /\ th[t].call.n <= Len(th[t].hand) /\ th[t].call.n >= 1
        BY <1>2, <2>3 DEF PushRight, CallRight
  <2>5. start(t) = ph(r) BY <1>4 DEF start, ph
  <2>6. v \in Index /\ Off(v) = end(t) BY <2>1, <2>2, <2>4, OffAdd DEF start
  <2> HIDE DEF v
  <2>7. /\ rq' \in [Rings -> RingType]
        /\ rq'[r].phead = v
        /\ rq'[r].ptail = rq[r].ptail /\ rq'[r].chead = rq[r].chead /\ rq'[r].ctail = rq[r].ctail
        /\ rq'[r].data = rq[r].data
        /\ \A q \in Rings \ {r} : rq'[q] = rq[q]
        BY <1>4, <2>6, PheadSet DEF v
  <2>8. /\ ph(r)' = end(t) /\ pt(r)' = pt(r) /\ ch(r)' = ch(r) /\ ct(r)' = ct(r)
        /\ \A d : Item(r, d)' = Item(r, d)
        BY <2>6, <2>7 DEF ph, pt, ch, ct, Item
  <2>9. /\ th' \in [Threads -> ThreadType]
        /\ Same(t, th[t].call) /\ th'[t].call.at = "copy" /\ th'[t].call.head = th[t].call.head
        /\ th'[t].hand = th[t].hand
        /\ \A u \in Threads \ {t} : th'[u] = th[u]
        BY <1>4, Gone DEF Ats
  <2>10. start(t)' = start(t) /\ end(t)' = end(t) BY <2>9 DEF start, end, Same
  <2>11. QTyped' BY <2>7, <2>9 DEF QInv, QTyped
  <2>12. ASSUME NEW q \in Rings PROVE Order(q)' /\ Bounded(q)' /\ Stored(q)'
    <3>1. CASE q = r
      <4>1. Order(r)' BY <2>1, <2>2, <2>4, <2>5, <2>8 DEF Order
      <4>2. Stored(r)' BY <2>8 DEF QInv, Stored
      <4>3. t \in InFlight(r) BY <1>1, <1>2 DEF InFlight, Reserved
      <4>4. InFlight(r)' = InFlight(r) \ {t} BY <2>9 DEF InFlight, Reserved
      <4>7. BatchMax \in Nat BY QueueAssumption
      <4>5. ph(r)' \in Nat /\ ph(r)' <= ph(r) + BatchMax BY <2>1, <2>2, <2>5, <2>8, <4>7
      <4>6. Bounded(r)' BY <2>2, <4>3, <4>4, <4>5, BoundedMoves DEF QInv
      <4> QED BY <3>1, <4>1, <4>2, <4>6
    <3>2. CASE q # r
      <4>1. /\ ph(q)' = ph(q) /\ pt(q)' = pt(q) /\ ch(q)' = ch(q) /\ ct(q)' = ct(q)
            /\ \A d : Item(q, d)' = Item(q, d)
            BY <2>7, <3>2, OtherRings
      <4>2. Order(q) /\ Bounded(q) /\ Stored(q) /\ ph(q) \in Nat BY RingFacts DEF QInv
      <4>3. InFlight(q)' \subseteq InFlight(q) BY <2>9, FlightKept
      <4>4. Bounded(q)' BY <4>1, <4>2, <4>3, BoundedKept
      <4> QED BY <4>1, <4>2, <4>4 DEF Order, Stored
    <3> QED BY <3>1, <3>2
  <2>13. ASSUME NEW q \in Rings
         PROVE  /\ ph(q) <= ph(q)' /\ pt(q) = pt(q)' /\ ch(q) = ch(q)' /\ ct(q) = ct(q)'
                /\ pt(q) \in Nat /\ ch(q) \in Nat /\ ct(q) \in Nat
                /\ \A d : Item(q, d)' = Item(q, d)
    <3>1. CASE q = r BY <2>1, <2>2, <2>5, <2>8, <3>1
    <3>2. CASE q # r BY <2>7, <3>2, OtherRings, RingFacts
    <3> QED BY <3>1, <3>2
  <2>14. ASSUME NEW u \in Threads \ {t}, NEW q \in Rings
         PROVE  /\ Has(u, "push", q) => pt(q)' <= start(u) /\ \A d \in start(u)..end(u) - 1 : Item(q, d)' = Item(q, d)
                /\ Has(u, "pop", q) => ct(q)' <= start(u)
    <3>1. CallRight(u) BY DEF QInv
    <3> QED BY <2>13, <3>1 DEF CallRight, PushRight, PopRight, Has, Reserved
  <2>15. CallRight(t)'
    <3>1. th'[t].call.r = r /\ th'[t].call.op = "push" /\ th'[t].call.n = th[t].call.n BY <1>1, <1>2, <2>9 DEF Same
    <3>2. PushRight(t, r)' BY <2>1, <2>2, <2>4, <2>5, <2>8, <2>9, <2>10, <3>1 DEF PushRight
    <3> QED BY <2>4, <2>9, <3>1, <3>2 DEF CallRight
  <2>16. ASSUME NEW u \in Threads \ {t}, NEW op \in {"push", "pop"}, NEW q \in Rings, Has(t, op, q)', Has(u, op, q)
         PROVE  end(t)' <= start(u) \/ end(u) <= start(t)'
    <3>1. op = "push" /\ q = r BY <1>1, <1>2, <2>9, <2>16 DEF Has, Reserved, Same
    <3>2. CallRight(u) BY DEF QInv
    <3>3. end(u) <= ph(r) BY <2>16, <3>1, <3>2 DEF CallRight, PushRight, Has, Reserved
    <3> QED BY <2>5, <2>10, <3>3
  <2> QED BY <2>9, <2>11, <2>12, <2>13, <2>14, <2>15, <2>16, StepKeeps
<1> QED BY <1>1, <1>2, <1>3, <1>4, CasMoves

\* A thread takes for itself the oldest places nobody has taken.
LEMMA PopCasHolds ==
    ASSUME QInv, NEW t \in Threads, ring_mpop_cas(t)
    PROVE  QInv'
<1>1. PICK r \in Rings : r = th[t].call.r BY ThreadFacts
<1>2. th[t].call.op = "pop" /\ th[t].call.at = "cas" /\ atomic32_cmp_and_set(t, "chead") BY DEF ring_mpop_cas, At
<1>3. CASE th' = Goto(t, "head") /\ rq' = rq BY <1>2, <1>3, GotoHolds
<1>4. CASE /\ th' = Goto(t, "copy")
           /\ rq[r]["chead"] = th[t].call.head
           /\ rq' = [rq EXCEPT ![r] = [rq[r] EXCEPT !["chead"] = Add(th[t].call.head, th[t].call.n)]]
  <2> DEFINE v == Add(th[t].call.head, th[t].call.n)
  <2>1. /\ start(t) \in Nat /\ th[t].call.head \in Index /\ th[t].call.n \in Nat
        /\ end(t) = start(t) + th[t].call.n
        BY ThreadFacts
  <2>2. /\ ph(r) \in Nat /\ pt(r) \in Nat /\ ch(r) \in Nat /\ ct(r) \in Nat
        /\ ct(r) <= ch(r) /\ ch(r) <= pt(r) /\ pt(r) <= ph(r) /\ ph(r) <= ct(r) + RingMax
        /\ RingMax \in Nat /\ Width \in Nat /\ ph(r) + RingMax < Width
        BY RingFacts
  <2>3. CallRight(t) /\ PopRight(t, r) BY <1>1, <1>2 DEF QInv, CallRight
  <2>4. end(t) <= pt(r) /\ Len(th[t].hand) + th[t].call.n <= BatchMax /\ th[t].call.n >= 1
        BY <1>2, <2>3 DEF PopRight, CallRight
  <2>5. start(t) = ch(r) BY <1>4 DEF start, ch
  <2>6. v \in Index /\ Off(v) = end(t) BY <2>1, <2>2, <2>4, OffAdd DEF start
  <2> HIDE DEF v
  <2>7. /\ rq' \in [Rings -> RingType]
        /\ rq'[r].chead = v
        /\ rq'[r].phead = rq[r].phead /\ rq'[r].ptail = rq[r].ptail /\ rq'[r].ctail = rq[r].ctail
        /\ rq'[r].data = rq[r].data
        /\ \A q \in Rings \ {r} : rq'[q] = rq[q]
        BY <1>4, <2>6, CheadSet DEF v
  <2>8. /\ ph(r)' = ph(r) /\ pt(r)' = pt(r) /\ ch(r)' = end(t) /\ ct(r)' = ct(r)
        /\ \A d : Item(r, d)' = Item(r, d)
        BY <2>6, <2>7 DEF ph, pt, ch, ct, Item
  <2>9. /\ th' \in [Threads -> ThreadType]
        /\ Same(t, th[t].call) /\ th'[t].call.at = "copy" /\ th'[t].call.head = th[t].call.head
        /\ th'[t].hand = th[t].hand
        /\ \A u \in Threads \ {t} : th'[u] = th[u]
        BY <1>4, Gone DEF Ats
  <2>10. start(t)' = start(t) /\ end(t)' = end(t) BY <2>9 DEF start, end, Same
  <2>11. QTyped' BY <2>7, <2>9 DEF QInv, QTyped
  <2>13. ASSUME NEW q \in Rings
         PROVE  /\ ph(q) = ph(q)' /\ pt(q) = pt(q)' /\ ch(q) <= ch(q)' /\ ct(q) = ct(q)'
                /\ ph(q) \in Nat /\ pt(q) \in Nat /\ ct(q) \in Nat
                /\ \A d : Item(q, d)' = Item(q, d)
    <3>1. CASE q = r BY <2>1, <2>2, <2>5, <2>8, <3>1
    <3>2. CASE q # r BY <2>7, <3>2, OtherRings, RingFacts
    <3> QED BY <3>1, <3>2
  <2>12. ASSUME NEW q \in Rings PROVE Order(q)' /\ Bounded(q)' /\ Stored(q)'
    <3>1. Order(q) /\ Bounded(q) /\ Stored(q) BY DEF QInv
    <3>2. InFlight(q)' \subseteq InFlight(q) BY <2>9, FlightKept
    <3>3. Bounded(q)' BY <2>13, <3>1, <3>2, BoundedKept
    <3>4. Stored(q)' BY <2>13, <3>1 DEF Stored
    <3>5. Order(q)'
      <4>1. CASE q = r BY <2>1, <2>2, <2>4, <2>5, <2>8, <4>1 DEF Order
      <4>2. CASE q # r BY <2>7, <4>2, <3>1, OtherRings DEF Order
      <4> QED BY <4>1, <4>2
    <3> QED BY <3>3, <3>4, <3>5
  <2>14. ASSUME NEW u \in Threads \ {t}, NEW q \in Rings
         PROVE  /\ Has(u, "push", q) => pt(q)' <= start(u) /\ \A d \in start(u)..end(u) - 1 : Item(q, d)' = Item(q, d)
                /\ Has(u, "pop", q) => ct(q)' <= start(u)
    <3>1. CallRight(u) BY DEF QInv
    <3> QED BY <2>13, <3>1 DEF CallRight, PushRight, PopRight, Has, Reserved
  <2>15. CallRight(t)'
    <3>1. th'[t].call.r = r /\ th'[t].call.op = "pop" /\ th'[t].call.n = th[t].call.n BY <1>1, <1>2, <2>9 DEF Same
    <3>2. PopRight(t, r)' BY <2>1, <2>2, <2>4, <2>5, <2>8, <2>9, <2>10, <3>1 DEF PopRight
    <3> QED BY <2>4, <2>9, <3>1, <3>2 DEF CallRight
  <2>16. ASSUME NEW u \in Threads \ {t}, NEW op \in {"push", "pop"}, NEW q \in Rings, Has(t, op, q)', Has(u, op, q)
         PROVE  end(t)' <= start(u) \/ end(u) <= start(t)'
    <3>1. op = "pop" /\ q = r BY <1>1, <1>2, <2>9, <2>16 DEF Has, Reserved, Same
    <3>2. CallRight(u) BY DEF QInv
    <3>3. end(u) <= ch(r) BY <2>16, <3>1, <3>2 DEF CallRight, PopRight, Has, Reserved
    <3> QED BY <2>5, <2>10, <3>3
  <2>17. \A q \in Rings : ph(q) <= ph(q)' /\ pt(q) <= pt(q)' /\ ch(q) <= ch(q)' /\ ct(q) <= ct(q)' BY <2>13
  <2> QED BY <2>9, <2>11, <2>12, <2>14, <2>15, <2>16, <2>17, StepKeeps
<1> QED BY <1>1, <1>2, <1>3, <1>4, CasMoves

\* What a pop reads, place by place.
LEMMA ReadIs ==
    ASSUME QInv, NEW t \in Threads, NEW r \in Rings, r = th[t].call.r
    PROVE  Read(t) = [i \in 1..th[t].call.n |-> Item(r, start(t) + i - 1)]
<1>1. th[t].call.head \in Index /\ th[t].call.n \in Nat BY ThreadFacts
<1>2. ASSUME NEW i \in 1..th[t].call.n PROVE Mask(th[t].call.head + i - 1) = Cell(start(t) + i - 1)
  <2>1. i - 1 \in Int BY <1>1
  <2> QED BY <1>1, <2>1, MaskOff DEF start
<1> QED BY <1>2 DEF Read, Item

\* The batch of a push.
LEMMA BatchIs ==
    ASSUME QInv, NEW t \in Threads, th[t].call.n <= Len(th[t].hand)
    PROVE  /\ Batch(t) \in Seq(Slots) /\ Len(Batch(t)) = th[t].call.n
           /\ \A i \in 1..th[t].call.n : Batch(t)[i] = th[t].hand[i] /\ th[t].hand[i] \in Slots
<1>1. th[t].hand \in Seq(Slots) /\ th[t].call.n \in Nat /\ Len(th[t].hand) \in Nat BY ThreadFacts
<1> QED BY <1>1 DEF Batch

\* A thread copies its batch to the places it has reserved: nobody else sees them change.
LEMMA PushCopyHolds ==
    ASSUME QInv, NEW t \in Threads, ring_mpush_copy(t)
    PROVE  /\ QInv'
           /\ \A r \in Rings :
                 /\ ph(r)' = ph(r) /\ pt(r)' = pt(r) /\ ch(r)' = ch(r) /\ ct(r)' = ct(r)
                 /\ \A d \in ct(r)..pt(r) - 1 : Item(r, d)' = Item(r, d)
<1>1. PICK r \in Rings : r = th[t].call.r BY ThreadFacts
<1>2. th[t].call.op = "push" /\ th[t].call.at = "copy" /\ th' = Goto(t, "tail") BY DEF ring_mpush_copy, At
<1>3. PICK h \in Index, n \in Nat : h = th[t].call.head /\ n = th[t].call.n BY ThreadFacts
<1>4. CallRight(t) /\ PushRight(t, r) BY <1>1, <1>2 DEF QInv, CallRight
<1>5. n <= Len(th[t].hand) /\ n >= 1 /\ pt(r) <= start(t) /\ end(t) <= ph(r)
      BY <1>2, <1>3, <1>4 DEF PushRight, CallRight
<1>6. start(t) \in Nat /\ end(t) = start(t) + n /\ start(t) = Off(h) BY <1>3, ThreadFacts DEF start
<1>7. /\ ph(r) \in Nat /\ pt(r) \in Nat /\ ch(r) \in Nat /\ ct(r) \in Nat
      /\ ct(r) <= ch(r) /\ ch(r) <= pt(r) /\ pt(r) <= ph(r) /\ ph(r) <= ct(r) + RingMax /\ RingMax \in Nat
      BY RingFacts
<1>8. n <= RingMax BY <1>5, <1>6, <1>7
<1> DEFINE b == Batch(t)
           w == Written(rq[r].data, h, b)
<1>9. b \in Seq(Slots) /\ Len(b) = n /\ \A i \in 1..n : b[i] = th[t].hand[i] /\ th[t].hand[i] \in Slots
      BY <1>3, <1>5, BatchIs
<1>10. rq[r] \in RingType /\ rq[r].data \in Blocks BY RingFacts DEF RingType
<1>11. DOMAIN rq[r].data = 0..RingMax - 1 BY <1>10 DEF Blocks
<1>12. /\ \A i \in 1..n : w[Cell(Off(h) + i - 1)] = b[i]
       /\ \A d \in Off(h) + n - RingMax..Off(h) + RingMax - 1 :
             d \notin Off(h)..Off(h) + n - 1 => w[Cell(d)] = rq[r].data[Cell(d)]
  <2>1. PICK y, e : y = rq[r].data /\ e = b OBVIOUS
  <2>2. DOMAIN y = 0..RingMax - 1 /\ Len(e) = n BY <1>9, <1>11, <2>1
  <2>3. /\ \A i \in 1..n : Written(y, h, e)[Cell(Off(h) + i - 1)] = e[i]
        /\ \A d \in Off(h) + n - RingMax..Off(h) + RingMax - 1 :
              d \notin Off(h)..Off(h) + n - 1 => Written(y, h, e)[Cell(d)] = y[Cell(d)]
        BY <1>3, <1>8, <2>1, <2>2, WrittenAt
  <2> QED BY <2>1, <2>3
<1>13. w \in Blocks
  <2>1. \A i \in 0..RingMax - 1 : Mask(i - h) \in Nat
    <3>1. h \in Int /\ RingMax \in Nat \ {0} BY MaxAssumption, QueueAssumption DEF Index
    <3> TAKE i \in 0..RingMax - 1
    <3>2. i - h \in Int BY <3>1
    <3> QED BY <3>1, <3>2, ModDef DEF Mask
  <2>2. ASSUME NEW i \in 0..RingMax - 1 PROVE w[i] \in Slots \cup {NoSlot}
    <3>1. CASE Mask(i - h) < n
      <4>1. Mask(i - h) + 1 \in 1..n BY <2>1, <3>1
      <4>2. w[i] = b[Mask(i - h) + 1] BY <1>9, <1>11, <3>1 DEF Written
      <4> QED BY <1>9, <4>1, <4>2
    <3>2. CASE ~(Mask(i - h) < n)
      <4>1. w[i] = rq[r].data[i] BY <1>9, <1>11, <3>2 DEF Written
      <4> QED BY <1>10, <4>1 DEF Blocks
    <3> QED BY <3>1, <3>2
  <2>3. w = [i \in 0..RingMax - 1 |-> w[i]] BY <1>11 DEF Written
  <2> QED BY <2>2, <2>3 DEF Blocks
<1>14. rq' = [rq EXCEPT ![r] = [rq[r] EXCEPT !.data = w]]
  <2>1. rq \in [Rings -> RingType] BY DEF QInv, QTyped
  <2> QED BY <1>1, <1>3, <2>1 DEF ring_mpush_copy
<1> HIDE DEF b, w
<1>15. /\ rq' \in [Rings -> RingType] /\ rq'[r].data = w
       /\ rq'[r].phead = rq[r].phead /\ rq'[r].ptail = rq[r].ptail
       /\ rq'[r].chead = rq[r].chead /\ rq'[r].ctail = rq[r].ctail
       /\ \A q \in Rings \ {r} : rq'[q] = rq[q]
  <2> DEFINE x == [rq[r] EXCEPT !.data = w]
  <2>1. x \in RingType /\ x.data = w /\ x.phead = rq[r].phead /\ x.ptail = rq[r].ptail
        /\ x.chead = rq[r].chead /\ x.ctail = rq[r].ctail
        BY <1>10, <1>13 DEF RingType
  <2> HIDE DEF x
  <2>2. rq' = [rq EXCEPT ![r] = x] /\ rq \in [Rings -> RingType] BY <1>14 DEF x, QInv, QTyped
  <2> QED BY <2>1, <2>2
<1>16. \A q \in Rings : ph(q)' = ph(q) /\ pt(q)' = pt(q) /\ ch(q)' = ch(q) /\ ct(q)' = ct(q)
      BY <1>15 DEF ph, pt, ch, ct
<1>17. /\ \A i \in 1..n : rq'[r].data[Cell(start(t) + i - 1)] = th[t].hand[i]
       /\ \A d \in ct(r)..ct(r) + RingMax - 1 : d \notin start(t)..end(t) - 1 => Item(r, d)' = Item(r, d)
  <2>1. \A i \in 1..n : rq'[r].data[Cell(start(t) + i - 1)] = th[t].hand[i] BY <1>6, <1>9, <1>12, <1>15
  <2>2. ASSUME NEW d \in ct(r)..ct(r) + RingMax - 1, d \notin start(t)..end(t) - 1 PROVE Item(r, d)' = Item(r, d)
    <3>1. d \in Off(h) + n - RingMax..Off(h) + RingMax - 1 /\ d \notin Off(h)..Off(h) + n - 1
          BY <1>5, <1>6, <1>7, <2>2, SMTT(30)
    <3> QED BY <1>12, <1>15, <3>1 DEF Item
  <2> QED BY <2>1, <2>2
<1>18. /\ th' \in [Threads -> ThreadType]
       /\ Same(t, th[t].call) /\ th'[t].call.at = "tail" /\ th'[t].call.head = th[t].call.head
       /\ th'[t].hand = th[t].hand
       /\ \A u \in Threads \ {t} : th'[u] = th[u]
       BY <1>2, Gone DEF Ats
<1>19. start(t)' = start(t) /\ end(t)' = end(t) BY <1>18 DEF start, end, Same
<1>20. QTyped' BY <1>15, <1>18 DEF QInv, QTyped
<1>21. ASSUME NEW q \in Rings PROVE \A d \in ct(q)..pt(q) - 1 : Item(q, d)' = Item(q, d)
  <2>1. CASE q = r
    <3> SUFFICES ASSUME NEW d \in ct(r)..pt(r) - 1 PROVE Item(r, d)' = Item(r, d) BY <2>1
    <3>1. d \in ct(r)..ct(r) + RingMax - 1 /\ d \notin start(t)..end(t) - 1 BY <1>5, <1>6, <1>7
    <3> QED BY <1>17, <3>1
  <2>2. CASE q # r BY <1>15, <2>2, OtherRings
  <2> QED BY <2>1, <2>2
<1>22. ASSUME NEW q \in Rings PROVE Order(q)' /\ Bounded(q)' /\ Stored(q)'
  <2>1. Order(q) /\ Bounded(q) /\ Stored(q) /\ ph(q) \in Nat BY RingFacts DEF QInv
  <2>2. InFlight(q)' \subseteq InFlight(q) BY <1>18, FlightKept
  <2>3. Bounded(q)' BY <1>16, <2>1, <2>2, BoundedKept
  <2> QED BY <1>16, <1>21, <2>1, <2>3 DEF Order, Stored
<1>23. ASSUME NEW u \in Threads \ {t}, NEW q \in Rings
       PROVE  /\ Has(u, "push", q) => pt(q)' <= start(u) /\ \A d \in start(u)..end(u) - 1 : Item(q, d)' = Item(q, d)
              /\ Has(u, "pop", q) => ct(q)' <= start(u)
  <2>1. CallRight(u) BY DEF QInv
  <2>2. Has(u, "pop", q) => ct(q)' <= start(u) BY <1>16, <2>1 DEF CallRight, PopRight, Has, Reserved
  <2>3. ASSUME Has(u, "push", q)
        PROVE  pt(q)' <= start(u) /\ \A d \in start(u)..end(u) - 1 : Item(q, d)' = Item(q, d)
    <3>1. pt(q) <= start(u) /\ end(u) <= ph(q) BY <2>1, <2>3 DEF CallRight, PushRight, Has, Reserved
    <3>2. CASE q = r
      <4>1. Has(t, "push", r) BY <1>1, <1>2 DEF Has, Reserved
      <4>2. end(t) <= start(u) \/ end(u) <= start(t) BY <2>3, <3>2, <4>1 DEF QInv, ReservedApart
      <4>3. start(u) \in Nat /\ end(u) \in Nat BY ThreadFacts
      <4>4. ASSUME NEW d \in start(u)..end(u) - 1 PROVE Item(r, d)' = Item(r, d)
        <5>1. d \in ct(r)..ct(r) + RingMax - 1 /\ d \notin start(t)..end(t) - 1
              BY <1>6, <1>7, <3>1, <3>2, <4>2, <4>3
        <5> QED BY <1>17, <5>1
      <4> QED BY <1>16, <3>1, <3>2, <4>4
    <3>3. CASE q # r BY <1>15, <1>16, <3>1, <3>3, OtherRings
    <3> QED BY <3>2, <3>3
  <2> QED BY <2>2, <2>3
<1>24. CallRight(t)'
  <2>1. th'[t].call.r = r /\ th'[t].call.op = "push" /\ th'[t].call.n = n BY <1>1, <1>2, <1>3, <1>18 DEF Same
  <2>2. \A i \in 1..n : Item(r, start(t) + i - 1)' = th[t].hand[i] BY <1>17, <1>19 DEF Item
  <2>3. PushRight(t, r)' BY <1>5, <1>16, <1>18, <1>19, <2>1, <2>2 DEF PushRight
  <2> QED BY <1>5, <1>18, <2>1, <2>3 DEF CallRight
<1>25. ASSUME NEW u \in Threads \ {t}, NEW op \in {"push", "pop"}, NEW q \in Rings, Has(t, op, q)', Has(u, op, q)
       PROVE  end(t)' <= start(u) \/ end(u) <= start(t)'
  <2>1. Has(t, op, q) BY <1>2, <1>18, <1>25 DEF Has, Reserved, Same
  <2> QED BY <1>19, <1>25, <2>1 DEF QInv, ReservedApart
<1>26. \A q \in Rings : ph(q) <= ph(q)' /\ pt(q) <= pt(q)' /\ ch(q) <= ch(q)' /\ ct(q) <= ct(q)'
      BY <1>16, RingFacts
<1>27. QInv' BY <1>18, <1>20, <1>22, <1>23, <1>24, <1>25, <1>26, StepKeeps
<1> QED BY <1>16, <1>21, <1>27

\* A thread copies what it has taken: blocks, since they were published.
LEMMA PopCopyHolds ==
    ASSUME QInv, NEW t \in Threads, ring_mpop_copy(t)
    PROVE  /\ QInv'
           /\ th'[t].hand = th[t].hand \o Read(t) /\ Read(t) \in Seq(Slots) /\ Len(Read(t)) = th[t].call.n
<1>1. PICK r \in Rings : r = th[t].call.r BY ThreadFacts
<1>2. th[t].call.op = "pop" /\ th[t].call.at = "copy" /\ rq' = rq BY DEF ring_mpop_copy, At
<1>3. PICK n \in Nat : n = th[t].call.n BY ThreadFacts
<1>4. CallRight(t) /\ PopRight(t, r) BY <1>1, <1>2 DEF QInv, CallRight
<1>5. Len(th[t].hand) + n <= BatchMax /\ n >= 1 /\ ct(r) <= start(t) /\ end(t) <= ch(r)
      BY <1>2, <1>3, <1>4 DEF PopRight, CallRight
<1>6. start(t) \in Nat /\ end(t) = start(t) + n BY <1>3, ThreadFacts
<1>7. ct(r) \in Nat /\ ch(r) \in Nat /\ pt(r) \in Nat /\ ch(r) <= pt(r) BY RingFacts
<1>8. Read(t) \in Seq(Slots) /\ Len(Read(t)) = n
  <2>1. Read(t) = [i \in 1..n |-> Item(r, start(t) + i - 1)] BY <1>1, <1>3, ReadIs
  <2>2. ASSUME NEW i \in 1..n PROVE Item(r, start(t) + i - 1) \in Slots
    <3>1. start(t) + i - 1 \in ct(r)..pt(r) - 1 BY <1>5, <1>6, <1>7
    <3> QED BY <3>1 DEF QInv, Stored
  <2>3. Read(t) \in [1..n -> Slots] BY <2>1, <2>2
  <2> QED BY <1>3, <2>3
<1>9. /\ th' \in [Threads -> ThreadType]
      /\ Same(t, th[t].call) /\ th'[t].call.at = "tail" /\ th'[t].call.head = th[t].call.head
      /\ th'[t].hand = th[t].hand \o Read(t)
      /\ \A u \in Threads \ {t} : th'[u] = th[u]
  <2>1. th \in [Threads -> ThreadType] /\ th[t] \in ThreadType BY DEF QInv, QTyped
  <2> DEFINE c == [th[t].call EXCEPT !.at = "tail"]
             x == [th[t] EXCEPT !.call = c]
             y == [x EXCEPT !.hand = x.hand \o Read(t)]
  <2>2. Goto(t, "tail") = [th EXCEPT ![t] = x] BY <2>1 DEF Goto
  <2>3. c \in CallType /\ c.op = th[t].call.op /\ c.r = th[t].call.r /\ c.n = th[t].call.n /\ c.at = "tail"
        /\ c.head = th[t].call.head
        BY ThreadFacts DEF CallType
  <2> HIDE DEF c
  <2>4. x \in ThreadType /\ x.call = c /\ x.hand = th[t].hand BY <2>1, <2>3 DEF ThreadType
  <2> HIDE DEF x
  <2>5. x.hand \o Read(t) \in Seq(Slots) BY <1>8, <2>4, ThreadFacts
  <2>6. y \in ThreadType /\ y.call = c /\ y.hand = th[t].hand \o Read(t) BY <2>4, <2>5 DEF ThreadType
  <2>7. th' = [th EXCEPT ![t] = y] BY <2>1, <2>2, <2>4 DEF ring_mpop_copy
  <2> HIDE DEF y
  <2> QED BY <2>1, <2>3, <2>6, <2>7 DEF Same
<1>10. Len(th'[t].hand) = Len(th[t].hand) + n
  <2>1. th[t].hand \in Seq(Slots) BY ThreadFacts
  <2>2. Len(th[t].hand \o Read(t)) = Len(th[t].hand) + Len(Read(t)) BY <1>8, <2>1
  <2> QED BY <1>8, <1>9, <2>2
<1>11. QTyped' BY <1>2, <1>5, <1>9, <1>10 DEF QInv, QTyped
<1>12. SameRings BY <1>2, SameRq
<1>13. start(t)' = start(t) /\ end(t)' = end(t) BY <1>9 DEF start, end, Same
<1>14. CallRight(t)'
  <2>1. th'[t].call.r = r /\ th'[t].call.op = "pop" /\ th'[t].call.n = n BY <1>1, <1>2, <1>3, <1>9 DEF Same
  <2>2. ct(r)' = ct(r) /\ ch(r)' = ch(r) BY <1>12, SameView
  <2>3. n <= Len(th'[t].hand) BY <1>3, <1>10, ThreadFacts
  <2>4. PopRight(t, r)' BY <1>5, <1>9, <1>13, <2>1, <2>2, <2>3 DEF PopRight
  <2> QED BY <1>5, <1>9, <2>1, <2>4 DEF CallRight
<1>15. \A op \in {"push", "pop"}, q \in Rings : Has(t, op, q)' =>
           Has(t, op, q) /\ start(t)' = start(t) /\ end(t)' = end(t)
      BY <1>2, <1>9, <1>13 DEF Has, Reserved, Same
<1>16. ASSUME NEW q \in Rings PROVE InFlight(q)' \subseteq InFlight(q)
      BY <1>9, FlightKept
<1>17. QInv' BY <1>9, <1>11, <1>12, <1>14, <1>15, <1>16, Unmoved
<1> QED BY <1>3, <1>8, <1>9, <1>17

LEMMA PtailSet ==
    ASSUME QInv, NEW r \in Rings, NEW v \in Index, rq' = [rq EXCEPT ![r].ptail = v]
    PROVE  /\ rq' \in [Rings -> RingType]
           /\ rq'[r].ptail = v
           /\ rq'[r].phead = rq[r].phead /\ rq'[r].chead = rq[r].chead /\ rq'[r].ctail = rq[r].ctail
           /\ rq'[r].data = rq[r].data
           /\ \A q \in Rings \ {r} : rq'[q] = rq[q]
<1>1. rq \in [Rings -> RingType] /\ rq[r] \in RingType BY DEF QInv, QTyped
<1> DEFINE x == [rq[r] EXCEPT !.ptail = v]
<1>2. x \in RingType /\ x.ptail = v /\ x.phead = rq[r].phead /\ x.chead = rq[r].chead /\ x.ctail = rq[r].ctail
      /\ x.data = rq[r].data
      BY <1>1 DEF RingType
<1>3. rq' = [rq EXCEPT ![r] = x] BY <1>1
<1> HIDE DEF x
<1> QED BY <1>1, <1>2, <1>3

LEMMA CtailSet ==
    ASSUME QInv, NEW r \in Rings, NEW v \in Index, rq' = [rq EXCEPT ![r].ctail = v]
    PROVE  /\ rq' \in [Rings -> RingType]
           /\ rq'[r].ctail = v
           /\ rq'[r].phead = rq[r].phead /\ rq'[r].ptail = rq[r].ptail /\ rq'[r].chead = rq[r].chead
           /\ rq'[r].data = rq[r].data
           /\ \A q \in Rings \ {r} : rq'[q] = rq[q]
<1>1. rq \in [Rings -> RingType] /\ rq[r] \in RingType BY DEF QInv, QTyped
<1> DEFINE x == [rq[r] EXCEPT !.ctail = v]
<1>2. x \in RingType /\ x.ctail = v /\ x.phead = rq[r].phead /\ x.ptail = rq[r].ptail /\ x.chead = rq[r].chead
      /\ x.data = rq[r].data
      BY <1>1 DEF RingType
<1>3. rq' = [rq EXCEPT ![r] = x] BY <1>1
<1> HIDE DEF x
<1> QED BY <1>1, <1>2, <1>3

\* A thread that waits for its turn finds nobody between the tail and its places.
LEMMA InTurn ==
    ASSUME QInv, NEW t \in Threads, NEW u \in Threads \ {t}, NEW op \in {"push", "pop"}, NEW r \in Rings,
           Has(t, op, r), Has(u, op, r),
           op = "push" => start(t) = pt(r), op = "pop" => start(t) = ct(r)
    PROVE  end(t) <= start(u)
<1>1. CallRight(u) /\ CallRight(t) BY DEF QInv
<1>2. start(t) <= start(u) BY <1>1 DEF CallRight, PushRight, PopRight, Has, Reserved
<1>3. start(u) \in Nat /\ start(t) \in Nat /\ th[u].call.n \in Nat /\ end(u) = start(u) + th[u].call.n BY ThreadFacts
<1>4. th[u].call.n >= 1 BY <1>1 DEF CallRight, Has, Reserved
<1>5. end(t) <= start(u) \/ end(u) <= start(t) BY SMTT(30) DEF QInv, ReservedApart
<1> QED BY <1>2, <1>3, <1>4, <1>5

\* A push publishes its batch: prod.tail moves over its places, which are next.
LEMMA PushTailHolds ==
    ASSUME QInv, NEW t \in Threads, ring_mpush_tail(t), NEW r \in Rings, r = th[t].call.r
    PROVE  /\ QInv'
           /\ start(t) = pt(r) /\ pt(r)' = end(t) /\ end(t) <= ph(r) /\ ch(r)' = ch(r)
           /\ rq'[r].chead = rq[r].chead /\ rq'[r].ptail \in Index
           /\ \A d : Item(r, d)' = Item(r, d)
           /\ \A i \in 1..th[t].call.n : Item(r, start(t) + i - 1) = th[t].hand[i]
           /\ \A q \in Rings \ {r} : rq'[q] = rq[q]
           /\ th'[t].call.at = "num" /\ Same(t, th[t].call) /\ \A u \in Threads \ {t} : th'[u] = th[u]
           /\ th[t].call.n <= Len(th[t].hand)
<1>2. th[t].call.op = "push" /\ th[t].call.at = "tail" /\ rq[r].ptail = th[t].call.head
      BY DEF ring_mpush_tail, ring_mpush_wait, At
<1>3. PICK h \in Index, n \in Nat : h = th[t].call.head /\ n = th[t].call.n BY ThreadFacts
<1>4. CallRight(t) /\ PushRight(t, r) BY <1>2 DEF QInv, CallRight
<1>5. /\ n <= Len(th[t].hand) /\ n >= 1 /\ pt(r) <= start(t) /\ end(t) <= ph(r)
      /\ \A i \in 1..n : Item(r, start(t) + i - 1) = th[t].hand[i]
      BY <1>2, <1>3, <1>4 DEF PushRight, CallRight
<1>6. start(t) \in Nat /\ end(t) = start(t) + n /\ start(t) = Off(h) /\ start(t) = pt(r)
      BY <1>2, <1>3, ThreadFacts DEF start, pt
<1>7. /\ ph(r) \in Nat /\ pt(r) \in Nat /\ ch(r) \in Nat /\ ct(r) \in Nat
      /\ ct(r) <= ch(r) /\ ch(r) <= pt(r) /\ pt(r) <= ph(r) /\ ph(r) <= ct(r) + RingMax /\ RingMax \in Nat
      /\ Width \in Nat /\ ph(r) + RingMax < Width
      BY RingFacts
<1>8. Add(h, n) \in Index /\ Off(Add(h, n)) = end(t)
  <2>1. Off(h) + n < Width BY <1>5, <1>6, <1>7
  <2>2. Add(h, n) \in Index /\ Off(Add(h, n)) = Off(h) + n BY <2>1, OffAdd
  <2> QED BY <1>6, <2>2
<1>9. rq' = [rq EXCEPT ![r].ptail = Add(h, n)] BY <1>3, SMTT(30) DEF ring_mpush_tail
<1>10. /\ rq' \in [Rings -> RingType]
       /\ rq'[r].ptail = Add(h, n)
       /\ rq'[r].phead = rq[r].phead /\ rq'[r].chead = rq[r].chead /\ rq'[r].ctail = rq[r].ctail
       /\ rq'[r].data = rq[r].data
       /\ \A q \in Rings \ {r} : rq'[q] = rq[q]
       BY <1>8, <1>9, PtailSet
<1>11. /\ ph(r)' = ph(r) /\ pt(r)' = end(t) /\ ch(r)' = ch(r) /\ ct(r)' = ct(r)
       /\ \A d : Item(r, d)' = Item(r, d)
       BY <1>8, <1>10 DEF ph, pt, ch, ct, Item
<1>12. /\ th' \in [Threads -> ThreadType]
       /\ Same(t, th[t].call) /\ th'[t].call.at = "num" /\ th'[t].call.head = th[t].call.head
       /\ th'[t].hand = SubSeq(th[t].hand, n + 1, Len(th[t].hand))
       /\ \A u \in Threads \ {t} : th'[u] = th[u]
  <2>1. th \in [Threads -> ThreadType] /\ th[t] \in ThreadType BY DEF QInv, QTyped
  <2> DEFINE c == [th[t].call EXCEPT !.at = "num"]
             x == [th[t] EXCEPT !.call = c]
             y == [x EXCEPT !.hand = SubSeq(x.hand, n + 1, Len(x.hand))]
  <2>2. Goto(t, "num") = [th EXCEPT ![t] = x] BY <2>1 DEF Goto
  <2>3. c \in CallType /\ c.op = th[t].call.op /\ c.r = th[t].call.r /\ c.n = th[t].call.n /\ c.at = "num"
        /\ c.head = th[t].call.head
        BY ThreadFacts DEF CallType
  <2> HIDE DEF c
  <2>4. x \in ThreadType /\ x.call = c /\ x.hand = th[t].hand BY <2>1, <2>3 DEF ThreadType
  <2> HIDE DEF x
  <2>5. SubSeq(th[t].hand, n + 1, Len(th[t].hand)) \in Seq(Slots)
    <3>1. th[t].hand \in Seq(Slots) /\ Len(th[t].hand) \in Nat BY ThreadFacts
    <3> QED BY <3>1
  <2>6. y \in ThreadType /\ y.call = c /\ y.hand = SubSeq(th[t].hand, n + 1, Len(th[t].hand))
        BY <2>4, <2>5 DEF ThreadType
  <2>7. th' = [th EXCEPT ![t] = y] BY <1>3, <2>1, <2>2, <2>4 DEF ring_mpush_tail
  <2> HIDE DEF y
  <2> QED BY <2>1, <2>3, <2>6, <2>7 DEF Same
<1>13. Len(th'[t].hand) <= BatchMax
  <2>1. th[t].hand \in Seq(Slots) /\ Len(th[t].hand) \in Nat /\ Len(th[t].hand) <= BatchMax /\ BatchMax \in Nat
        BY ThreadFacts, QueueAssumption
  <2>2. Len(SubSeq(th[t].hand, n + 1, Len(th[t].hand))) = Len(th[t].hand) - n BY <1>5, <2>1
  <2> QED BY <1>5, <1>12, <2>1, <2>2
<1>14. QTyped' BY <1>10, <1>12, <1>13 DEF QInv, QTyped
<1>15. ASSUME NEW q \in Rings PROVE Order(q)' /\ Bounded(q)' /\ Stored(q)'
  <2>1. Order(q) /\ Bounded(q) /\ Stored(q) /\ ph(q) \in Nat BY RingFacts DEF QInv
  <2>2. InFlight(q)' \subseteq InFlight(q) BY <1>12, FlightKept
  <2>3. ph(q)' = ph(q) BY <1>10, <1>11, OtherRings
  <2>4. Bounded(q)' BY <2>1, <2>2, <2>3, BoundedKept
  <2>5. CASE q = r
    <3>1. Order(r)' BY <1>5, <1>6, <1>7, <1>11 DEF Order
    <3>2. ASSUME NEW d \in ct(r)..end(t) - 1 PROVE Item(r, d) \in Slots
      <4>1. CASE d < pt(r)
        <5>1. d \in ct(r)..pt(r) - 1 BY <1>7, <4>1
        <5> QED BY <2>1, <2>5, <5>1 DEF Stored
      <4>2. CASE d >= pt(r)
        <5>1. PICK i \in 1..n : d = start(t) + i - 1
          <6>1. d - start(t) + 1 \in 1..n /\ d = start(t) + (d - start(t) + 1) - 1 BY <1>6, <1>7, <4>2
          <6> QED BY <6>1
        <5>2. th[t].hand \in Seq(Slots) /\ i \in 1..Len(th[t].hand) BY <1>5, ThreadFacts
        <5>3. th[t].hand[i] \in Slots BY ONLY <5>2
        <5>4. Item(r, start(t) + i - 1) = th[t].hand[i] BY <1>5
        <5> QED BY <5>1, <5>3, <5>4
      <4> QED BY <1>7, <4>1, <4>2
    <3>3. Stored(r)' BY <1>11, <3>2 DEF Stored
    <3> QED BY <2>4, <2>5, <3>1, <3>3
  <2>6. CASE q # r BY <1>10, <2>1, <2>4, <2>6, OtherRings DEF Order, Stored
  <2> QED BY <2>5, <2>6
<1>16. \A q \in Rings : ph(q) <= ph(q)' /\ pt(q) <= pt(q)' /\ ch(q) <= ch(q)' /\ ct(q) <= ct(q)'
  <2> TAKE q \in Rings
  <2>1. CASE q = r BY <1>5, <1>6, <1>7, <1>11, <2>1
  <2>2. CASE q # r BY <1>10, <2>2, OtherRings, RingFacts
  <2> QED BY <2>1, <2>2
<1>17. ASSUME NEW u \in Threads \ {t}, NEW q \in Rings
       PROVE  /\ Has(u, "push", q) => pt(q)' <= start(u) /\ \A d \in start(u)..end(u) - 1 : Item(q, d)' = Item(q, d)
              /\ Has(u, "pop", q) => ct(q)' <= start(u)
  <2>1. CallRight(u) BY DEF QInv
  <2>2. CASE q # r
    <3>1. pt(q)' = pt(q) /\ ct(q)' = ct(q) /\ \A d : Item(q, d)' = Item(q, d) BY <1>10, <2>2, OtherRings
    <3> QED BY <2>1, <3>1 DEF CallRight, PushRight, PopRight, Has, Reserved
  <2>3. CASE q = r
    <3>1. Has(t, "push", r) BY <1>2 DEF Has, Reserved
    <3>2. Has(u, "push", r) => end(t) <= start(u) BY <1>6, <3>1, InTurn
    <3>3. Has(u, "pop", r) => ct(r) <= start(u) BY <2>1 DEF CallRight, PopRight, Has, Reserved
    <3> QED BY <1>11, <2>3, <3>2, <3>3
  <2> QED BY <2>2, <2>3
<1>18. CallRight(t)'
  <2>1. th'[t].call.r = r /\ th'[t].call.op = "push" /\ th'[t].call.n = n BY <1>2, <1>3, <1>12 DEF Same
  <2> QED BY <1>5, <1>12, <2>1 DEF CallRight, PushRight
<1>19. \A op, q : ~Has(t, op, q)' BY <1>12, Places
<1>20. QInv' BY <1>12, <1>14, <1>15, <1>16, <1>17, <1>18, <1>19, StepKeeps
<1> QED BY <1>3, <1>5, <1>6, <1>8, <1>10, <1>11, <1>12, <1>20

\* A pop gives its places back: cons.tail moves over them, which are next.
LEMMA PopTailHolds ==
    ASSUME QInv, NEW t \in Threads, ring_mpop_tail(t)
    PROVE  QInv'
<1>1. PICK r \in Rings : r = th[t].call.r BY ThreadFacts
<1>2. th[t].call.op = "pop" /\ th[t].call.at = "tail" /\ rq[r].ctail = th[t].call.head /\ th' = Goto(t, "num")
      BY <1>1 DEF ring_mpop_tail, ring_mpop_wait, At
<1>3. PICK h \in Index, n \in Nat : h = th[t].call.head /\ n = th[t].call.n BY ThreadFacts
<1>4. CallRight(t) /\ PopRight(t, r) BY <1>1, <1>2 DEF QInv, CallRight
<1>5. n <= Len(th[t].hand) /\ n >= 1 /\ ct(r) <= start(t) /\ end(t) <= ch(r)
      BY <1>2, <1>3, <1>4 DEF PopRight, CallRight
<1>6. start(t) \in Nat /\ end(t) = start(t) + n /\ start(t) = Off(h) /\ start(t) = ct(r)
      BY <1>2, <1>3, ThreadFacts DEF start, ct
<1>7. /\ ph(r) \in Nat /\ pt(r) \in Nat /\ ch(r) \in Nat /\ ct(r) \in Nat
      /\ ct(r) <= ch(r) /\ ch(r) <= pt(r) /\ pt(r) <= ph(r) /\ ph(r) <= ct(r) + RingMax /\ RingMax \in Nat
      /\ Width \in Nat /\ ph(r) + RingMax < Width
      BY RingFacts
<1>8. Add(h, n) \in Index /\ Off(Add(h, n)) = end(t)
  <2>1. Off(h) + n < Width BY <1>5, <1>6, <1>7
  <2>2. Add(h, n) \in Index /\ Off(Add(h, n)) = Off(h) + n BY <2>1, OffAdd
  <2> QED BY <1>6, <2>2
<1>9. rq' = [rq EXCEPT ![r].ctail = Add(h, n)] BY <1>1, <1>3 DEF ring_mpop_tail
<1>10. /\ rq' \in [Rings -> RingType]
       /\ rq'[r].ctail = Add(h, n)
       /\ rq'[r].phead = rq[r].phead /\ rq'[r].ptail = rq[r].ptail /\ rq'[r].chead = rq[r].chead
       /\ rq'[r].data = rq[r].data
       /\ \A q \in Rings \ {r} : rq'[q] = rq[q]
       BY <1>8, <1>9, CtailSet
<1>11. /\ ph(r)' = ph(r) /\ pt(r)' = pt(r) /\ ch(r)' = ch(r) /\ ct(r)' = end(t)
       /\ \A d : Item(r, d)' = Item(r, d)
       BY <1>8, <1>10 DEF ph, pt, ch, ct, Item
<1>12. /\ th' \in [Threads -> ThreadType]
       /\ Same(t, th[t].call) /\ th'[t].call.at = "num" /\ th'[t].hand = th[t].hand
       /\ \A u \in Threads \ {t} : th'[u] = th[u]
       BY <1>2, Gone DEF Ats
<1>14. QTyped' BY <1>10, <1>12 DEF QInv, QTyped
<1>15. ASSUME NEW q \in Rings PROVE Order(q)' /\ Bounded(q)' /\ Stored(q)'
  <2>1. Order(q) /\ Bounded(q) /\ Stored(q) /\ ph(q) \in Nat BY RingFacts DEF QInv
  <2>2. InFlight(q)' \subseteq InFlight(q) BY <1>12, FlightKept
  <2>3. ph(q)' = ph(q) BY <1>10, <1>11, OtherRings
  <2>4. Bounded(q)' BY <2>1, <2>2, <2>3, BoundedKept
  <2>5. CASE q = r
    <3>1. Order(r)' BY <1>5, <1>6, <1>7, <1>11 DEF Order
    <3>2. end(t)..pt(r) - 1 \subseteq ct(r)..pt(r) - 1 BY <1>6, <1>7
    <3>3. Stored(r)' BY <1>11, <2>1, <2>5, <3>2 DEF Stored
    <3> QED BY <2>4, <2>5, <3>1, <3>3
  <2>6. CASE q # r BY <1>10, <2>1, <2>4, <2>6, OtherRings DEF Order, Stored
  <2> QED BY <2>5, <2>6
<1>16. \A q \in Rings : ph(q) <= ph(q)' /\ pt(q) <= pt(q)' /\ ch(q) <= ch(q)' /\ ct(q) <= ct(q)'
  <2> TAKE q \in Rings
  <2>1. CASE q = r BY <1>5, <1>6, <1>7, <1>11, <2>1
  <2>2. CASE q # r BY <1>10, <2>2, OtherRings, RingFacts
  <2> QED BY <2>1, <2>2
<1>17. ASSUME NEW u \in Threads \ {t}, NEW q \in Rings
       PROVE  /\ Has(u, "push", q) => pt(q)' <= start(u) /\ \A d \in start(u)..end(u) - 1 : Item(q, d)' = Item(q, d)
              /\ Has(u, "pop", q) => ct(q)' <= start(u)
  <2>1. CallRight(u) BY DEF QInv
  <2>2. CASE q # r
    <3>1. pt(q)' = pt(q) /\ ct(q)' = ct(q) /\ \A d : Item(q, d)' = Item(q, d) BY <1>10, <2>2, OtherRings
    <3> QED BY <2>1, <3>1 DEF CallRight, PushRight, PopRight, Has, Reserved
  <2>3. CASE q = r
    <3>1. Has(t, "pop", r) BY <1>1, <1>2 DEF Has, Reserved
    <3>2. Has(u, "pop", r) => end(t) <= start(u) BY <1>6, <3>1, InTurn
    <3>3. Has(u, "push", r) => pt(r) <= start(u) BY <2>1 DEF CallRight, PushRight, Has, Reserved
    <3> QED BY <1>11, <2>3, <3>2, <3>3
  <2> QED BY <2>2, <2>3
<1>18. CallRight(t)'
  <2>1. th'[t].call.r = r /\ th'[t].call.op = "pop" /\ th'[t].call.n = n BY <1>1, <1>2, <1>3, <1>12 DEF Same
  <2> QED BY <1>5, <1>12, <2>1 DEF CallRight, PopRight
<1>19. \A op, q : ~Has(t, op, q)' BY <1>12, Places
<1> QED BY <1>12, <1>14, <1>15, <1>16, <1>17, <1>18, <1>19, StepKeeps
-----------------------------------------------------------------------------
\* The index a ring starts with, and the place of an offset seen from it.
LEMMA AtFirst == Ahead \in Index /\ Off(Ahead) = 0
<1>1. Width \in Nat \ {0} /\ Ahead \in 0..Width - 1 BY QueueAssumption
<1>2. Ahead - Ahead = 0 BY <1>1
<1>3. 0 % Width = 0 BY <1>1
<1> QED BY <1>1, <1>2, <1>3 DEF Off, Sub, Index

\* ring_creat and slot_creat: one ring is empty, the other holds every block once.
LEMMA RingsCreated ==
    ASSUME QueueInit
    PROVE  /\ rq \in [Rings -> RingType]
           /\ \A r \in Rings : ct(r) = 0 /\ ch(r) = 0 /\ pt(r) = ph(r)
           /\ ph("ring") = 0 /\ ph("slot") = Cardinality(Slots)
           /\ \A d \in 0..Cardinality(Slots) - 1 : Item("slot", d) = d + 1
<1> DEFINE n == Cardinality(Slots)
<1>1. n \in Nat /\ Slots = 1..n /\ n <= MaxTurns /\ MaxTurns \in Nat
      BY QueueAssumption, FS_CardinalityType
<1>2. RingMax \in Nat \ {0} /\ n <= RingMax /\ Width \in Nat \ {0} BY MaxAssumption, QueueAssumption
<1>3. n < Width
  <2> DEFINE m == BatchMax * Cardinality(Threads)
  <2>1. m \in Nat
    <3>1. Cardinality(Threads) \in Nat /\ BatchMax \in Nat BY QueueAssumption, FS_CardinalityType
    <3> QED BY <3>1
  <2>2. MaxTurns + m + RingMax < Width BY QueueAssumption
  <2> HIDE DEF n, m
  <2> QED BY <1>1, <1>2, <2>1, <2>2
<1>4. Width % RingMax = 0 BY QueueAssumption
<1> HIDE DEF n
<1>5. RingMax <= Width
  <2>1. CASE Width < RingMax
    <3>1. Width \in 0..RingMax - 1 BY <1>2, <2>1
    <3>2. Width % RingMax = Width BY <1>2, <3>1, ModSmall
    <3> QED BY <1>2, <1>4, <3>2
  <2> QED BY <1>2, <2>1
<1>6. Add(Ahead, n) \in Index /\ Off(Add(Ahead, n)) = n
  <2>1. Off(Ahead) + n < Width BY <1>1, <1>3, AtFirst
  <2>2. Add(Ahead, n) \in Index /\ Off(Add(Ahead, n)) = Off(Ahead) + n BY <1>1, <2>1, AtFirst, OffAdd
  <2> QED BY <1>1, <2>2, AtFirst
<1> DEFINE place(i) == Sub(Mask(i - Ahead), 0)
<1>7. ASSUME NEW i \in 0..RingMax - 1 PROVE place(i) \in 0..RingMax - 1 /\ place(i) = Mask(i - Ahead)
  <2>1. i - Ahead \in Int BY <1>2, QueueAssumption
  <2>2. Mask(i - Ahead) \in 0..RingMax - 1 BY <1>2, <2>1, ModDef DEF Mask
  <2>3. PICK k \in 0..RingMax - 1 : k = Mask(i - Ahead) BY <2>2
  <2>4. k - 0 = k /\ k \in 0..Width - 1 BY <1>2, <1>5
  <2>5. k % Width = k BY <1>2, <2>4, ModSmall
  <2> QED BY <2>3, <2>4, <2>5 DEF Sub
<1> HIDE DEF place
<1> DEFINE pool == [i \in 0..RingMax - 1 |-> IF place(i) < n THEN place(i) + 1 ELSE NoSlot]
<1>8. pool \in Blocks
  <2>1. ASSUME NEW i \in 0..RingMax - 1 PROVE (IF place(i) < n THEN place(i) + 1 ELSE NoSlot) \in Slots \cup {NoSlot}
    <3>1. place(i) \in Nat BY <1>2, <1>7
    <3> QED BY <1>1, <3>1
  <2> QED BY <2>1 DEF Blocks
<1>9. ASSUME NEW d \in 0..n - 1 PROVE pool[Cell(d)] = d + 1
  <2>1. d \in Int /\ d - 0 = d /\ d \in 0..RingMax - 1 BY <1>1, <1>2
  <2>2. Cell(d) \in 0..RingMax - 1 BY <2>1, CellRange
  <2>3. Mask(Cell(d) - Ahead) = (d - Off(Ahead)) % RingMax BY <2>1, AtFirst, MaskBack
  <2>4. d % RingMax = d BY <1>2, <2>1, ModSmall
  <2>5. place(Cell(d)) = d BY <1>7, <2>1, <2>2, <2>3, <2>4, AtFirst
  <2>6. d < n BY <1>1
  <2> QED BY <2>2, <2>5, <2>6
<1>10. 0 \in Index /\ n \in Index BY <1>1, <1>2, <1>3 DEF Index
<1>11. [i \in 0..RingMax - 1 |-> NoSlot] \in Blocks BY DEF Blocks
<1>12. /\ ring_creat \in RingType
       /\ ring_creat.phead = Ahead /\ ring_creat.ptail = Ahead /\ ring_creat.chead = Ahead /\ ring_creat.ctail = Ahead
       BY <1>10, <1>11, AtFirst DEF ring_creat, RingType
<1>13. slot_creat = [ring_creat EXCEPT !.num = n, !.phead = Add(Ahead, n), !.ptail = Add(Ahead, n), !.data = pool]
       BY DEF slot_creat, n, place
<1> HIDE DEF pool
<1>14. /\ slot_creat \in RingType
       /\ slot_creat.phead = Add(Ahead, n) /\ slot_creat.ptail = Add(Ahead, n)
       /\ slot_creat.chead = Ahead /\ slot_creat.ctail = Ahead /\ slot_creat.data = pool
       BY <1>6, <1>8, <1>10, <1>12, <1>13 DEF RingType
<1>15. rq \in [Rings -> RingType] /\ rq["ring"] = ring_creat /\ rq["slot"] = slot_creat
       BY <1>12, <1>14 DEF QueueInit, queue_creat, Rings
<1>16. /\ ct("ring") = 0 /\ ch("ring") = 0 /\ pt("ring") = 0 /\ ph("ring") = 0
       /\ ct("slot") = 0 /\ ch("slot") = 0 /\ pt("slot") = n /\ ph("slot") = n
       BY <1>6, <1>12, <1>14, <1>15, AtFirst DEF ph, pt, ch, ct
<1>17. \A d \in 0..n - 1 : Item("slot", d) = d + 1 BY <1>9, <1>14, <1>15 DEF Item
<1> QED BY <1>15, <1>16, <1>17 DEF Rings, n

LEMMA InitHolds == QueueInit => QInv
<1> SUFFICES ASSUME QueueInit PROVE QInv OBVIOUS
<1> DEFINE n == Cardinality(Slots)
<1>1. n \in Nat /\ Slots = 1..n /\ n <= MaxTurns /\ MaxTurns \in Nat
      BY QueueAssumption, FS_CardinalityType
<1>2. RingMax \in Nat \ {0} /\ n <= RingMax /\ Width \in Nat \ {0} /\ BatchMax \in Nat BY MaxAssumption, QueueAssumption
<1>3. /\ rq \in [Rings -> RingType]
      /\ \A r \in Rings : ct(r) = 0 /\ ch(r) = 0 /\ pt(r) = ph(r)
      /\ ph("ring") = 0 /\ ph("slot") = n
      /\ \A d \in 0..n - 1 : Item("slot", d) = d + 1
      BY RingsCreated
<1> HIDE DEF n
<1>4. th = [t \in Threads |-> [call |-> Idle, hand |-> <<>>, refused |-> FALSE]] BY DEF QueueInit, queue_creat
<1>5. Idle \in CallType BY <1>2 DEF Idle, CallType, Rings, Index
<1>6. [call |-> Idle, hand |-> <<>>, refused |-> FALSE] \in ThreadType BY <1>5 DEF ThreadType
<1>7. th \in [Threads -> ThreadType] BY <1>4, <1>6
<1>8. \A t \in Threads : th[t].call = Idle /\ th[t].hand = <<>> /\ Len(th[t].hand) <= BatchMax BY <1>2, <1>4
<1>9. QTyped BY <1>3, <1>7, <1>8 DEF QTyped
<1>10. ASSUME NEW r \in Rings PROVE Order(r) /\ Bounded(r) /\ Stored(r)
  <2>1. ph(r) \in Nat /\ ph(r) <= MaxTurns /\ ph(r) <= RingMax BY <1>1, <1>2, <1>3 DEF Rings
  <2>2. Order(r) BY <1>2, <1>3, <2>1 DEF Order
  <2>3. Bounded(r) BY <2>1, BoundedFirst
  <2>4. Stored(r)
    <3>1. CASE r = "ring" BY <1>3, <3>1 DEF Stored
    <3>2. CASE r = "slot"
      <4>1. ASSUME NEW d \in 0..n - 1 PROVE Item("slot", d) \in Slots BY <1>1, <1>3
      <4> QED BY <1>3, <3>2, <4>1 DEF Stored
    <3> QED BY <3>1, <3>2 DEF Rings
  <2> QED BY <2>2, <2>3, <2>4
<1>11. \A t \in Threads : CallRight(t) BY <1>8 DEF CallRight, Idle
<1>12. ReservedApart BY <1>8 DEF ReservedApart, Has, Reserved, Idle
<1> QED BY <1>9, <1>10, <1>11, <1>12 DEF QInv

LEMMA StepHolds == QInv /\ [QueueNext]_queueVars => QInv'
<1> SUFFICES ASSUME QInv, [QueueNext]_queueVars PROVE QInv' OBVIOUS
<1>1. CASE UNCHANGED queueVars
  <2>1. rq' = rq /\ th' = th BY <1>1 DEF queueVars
  <2> QED BY <2>1, ZenonT(60) DEF QInv, QTyped, Order, Bounded, Stored, InFlight, CallRight, PushRight, PopRight, ReservedApart,
                      Has, Reserved, start, end, ph, pt, ch, ct, Item
<1>2. CASE QueueNext
  <2>1. PICK t \in Threads : Caller(t) \/ ring_mpush(t) \/ ring_mpop(t) BY <1>2 DEF QueueNext
  <2>2. CASE Caller(t) BY <2>2, CallerHolds
  <2>3. CASE ring_mpush(t)
    <3>1. PICK r \in Rings : r = th[t].call.r BY ThreadFacts
    <3>2. CASE ring_mpush_head(t) BY <3>2, HeadHolds
    <3>3. CASE ring_mpush_check(t) BY <3>3, PushCheckHolds
    <3>4. CASE ring_mpush_cas(t) BY <3>4, PushCasHolds
    <3>5. CASE ring_mpush_copy(t) BY <3>5, PushCopyHolds
    <3>6. CASE ring_mpush_tail(t) BY <3>1, <3>6, PushTailHolds
    <3>7. CASE ring_mpush_num(t) BY <3>7, NumHolds
    <3> QED BY <2>3, <3>2, <3>3, <3>4, <3>5, <3>6, <3>7 DEF ring_mpush
  <2>4. CASE ring_mpop(t)
    <3>1. CASE ring_mpop_head(t) BY <3>1, HeadHolds
    <3>2. CASE ring_mpop_check(t) BY <3>2, PopCheckHolds
    <3>3. CASE ring_mpop_cas(t) BY <3>3, PopCasHolds
    <3>4. CASE ring_mpop_copy(t) BY <3>4, PopCopyHolds
    <3>5. CASE ring_mpop_tail(t) BY <3>5, PopTailHolds
    <3>6. CASE ring_mpop_num(t) BY <3>6, NumHolds
    <3> QED BY <2>4, <3>1, <3>2, <3>3, <3>4, <3>5, <3>6 DEF ring_mpop
  <2> QED BY <2>1, <2>2, <2>3, <2>4
<1> QED BY <1>1, <1>2

\* Whatever the threads do, in whatever order: the four indices of a ring stay in their order
\* and at most a ring apart, no place is reserved by two threads, and what a push has copied is
\* in its places when it publishes them (ring_mpush, ring_mpop).
THEOREM QueueInvariant == QueueSpec => []QInv
<1>1. QueueInit => QInv BY InitHolds
<1>2. QInv /\ [QueueNext]_queueVars => QInv' BY StepHolds
<1> QED BY <1>1, <1>2, PTL DEF QueueSpec

\* No index leaves its width, what a pop hands out is a block and never an empty place of the
\* ring, and no thread holds more than it has room for.
THEOREM QueueTyped == QueueSpec => []TypeOK
<1>1. QInv => TypeOK
  <2> SUFFICES ASSUME QInv PROVE TypeOK OBVIOUS
  <2>1. rq \in [Rings -> RingType] BY DEF QInv, QTyped
  <2> QED BY <2>1, ThreadFacts DEF TypeOK
<1> QED BY <1>1, QueueInvariant, PTL
-----------------------------------------------------------------------------
(***************************************************************************)
(* The refinement: what BoundedQueue says a step may do, in the terms of   *)
(* one ring, and which of these each step of the code is.                  *)
(***************************************************************************)
FifoBegin(r, t) ==
    /\ Pushing(r)[t] = <<>> /\ Pushing(r)'[t] \in Seq(Slots)
    /\ Pushing(r)' = [Pushing(r) EXCEPT ![t] = Pushing(r)'[t]]
    /\ Contents(r)' = Contents(r) /\ Popped(r)' = Popped(r)

FifoEnter(r, t) ==
    /\ Pushing(r)[t] # <<>> /\ Len(Contents(r)) + Len(Pushing(r)[t]) <= RingMax
    /\ Contents(r)' = Contents(r) \o Pushing(r)[t]
    /\ Pushing(r)' = [Pushing(r) EXCEPT ![t] = <<>>]
    /\ Popped(r)' = Popped(r)

FifoRefuse(r, t) ==
    /\ Pushing(r)' = [Pushing(r) EXCEPT ![t] = <<>>]
    /\ Contents(r)' = Contents(r) /\ Popped(r)' = Popped(r)

FifoTake(r, t) ==
    /\ Popped(r)[t] = <<>>
    /\ \E n \in 1..Len(Contents(r)) :
          /\ Popped(r)' = [Popped(r) EXCEPT ![t] = SubSeq(Contents(r), 1, n)]
          /\ Contents(r)' = SubSeq(Contents(r), n + 1, Len(Contents(r)))
    /\ Pushing(r)' = Pushing(r)

FifoUse(r, t) ==
    /\ Popped(r)' = [Popped(r) EXCEPT ![t] = <<>>]
    /\ Contents(r)' = Contents(r) /\ Pushing(r)' = Pushing(r)

FifoStutter(r) == Contents(r)' = Contents(r) /\ Pushing(r)' = Pushing(r) /\ Popped(r)' = Popped(r)

FifoStep(r) ==
    \/ \E t \in Threads :
          FifoBegin(r, t) \/ FifoEnter(r, t) \/ FifoRefuse(r, t) \/ FifoTake(r, t) \/ FifoUse(r, t)
    \/ FifoStutter(r)

\* What a ring holds is what lies between cons.head and prod.tail.
LEMMA ContentsIs ==
    QInv => \A r \in Rings :
        /\ Contents(r) = [i \in 1..pt(r) - ch(r) |-> Item(r, ch(r) + i - 1)]
        /\ Contents(r) \in Seq(Slots) /\ Len(Contents(r)) = pt(r) - ch(r)
<1> SUFFICES ASSUME QInv, NEW r \in Rings
             PROVE  /\ Contents(r) = [i \in 1..pt(r) - ch(r) |-> Item(r, ch(r) + i - 1)]
                    /\ Contents(r) \in Seq(Slots) /\ Len(Contents(r)) = pt(r) - ch(r)
    OBVIOUS
<1>1. PICK h \in Index, p \in Index : h = rq[r].chead /\ p = rq[r].ptail BY RingFacts
<1>2. ch(r) = Off(h) /\ pt(r) = Off(p) BY <1>1 DEF ch, pt
<1>3. ch(r) \in Nat /\ pt(r) \in Nat /\ ct(r) \in Nat /\ ct(r) <= ch(r) /\ ch(r) <= pt(r) BY RingFacts
<1>4. Sub(p, h) = pt(r) - ch(r) BY <1>2, <1>3, OffSub
<1>5. ASSUME NEW i \in 1..pt(r) - ch(r) PROVE rq[r].data[Mask(h + i - 1)] = Item(r, ch(r) + i - 1)
  <2>1. h \in Int /\ i - 1 \in Int BY QueueAssumption DEF Index
  <2>2. Mask(h + (i - 1)) = Cell(Off(h) + (i - 1)) BY <2>1, MaskOff
  <2>3. h + (i - 1) = h + i - 1 /\ Off(h) + (i - 1) = ch(r) + i - 1 BY <1>2, <1>3, <2>1
  <2> QED BY <2>2, <2>3 DEF Item
<1>6. Contents(r) = [i \in 1..pt(r) - ch(r) |-> Item(r, ch(r) + i - 1)] BY <1>1, <1>4, <1>5 DEF Contents
<1>7. ASSUME NEW i \in 1..pt(r) - ch(r) PROVE Item(r, ch(r) + i - 1) \in Slots
  <2>1. ch(r) + i - 1 \in ct(r)..pt(r) - 1 BY <1>3
  <2> QED BY <2>1 DEF QInv, Stored
<1>8. pt(r) - ch(r) \in Nat BY <1>3
<1>9. [i \in 1..pt(r) - ch(r) |-> Item(r, ch(r) + i - 1)] \in [1..pt(r) - ch(r) -> Slots] BY <1>7
<1>10. PICK k \in Nat : k = pt(r) - ch(r) BY <1>8
<1>11. Contents(r) \in [1..k -> Slots] BY <1>6, <1>9, <1>10
<1>12. Contents(r) \in Seq(Slots) /\ Len(Contents(r)) = k BY ONLY <1>11, k \in Nat
<1> QED BY <1>6, <1>10, <1>12

LEMMA ContentsNext ==
    QInv' => \A r \in Rings :
        /\ Contents(r)' = [i \in 1..pt(r)' - ch(r)' |-> Item(r, ch(r) + i - 1)']
        /\ Contents(r)' \in Seq(Slots) /\ Len(Contents(r)') = pt(r)' - ch(r)'
<1>1. QInv' => (\A r \in Rings :
        /\ Contents(r) = [i \in 1..pt(r) - ch(r) |-> Item(r, ch(r) + i - 1)]
        /\ Contents(r) \in Seq(Slots) /\ Len(Contents(r)) = pt(r) - ch(r))'
      BY ContentsIs, PTL
<1> QED BY <1>1

LEMMA ContentsKept ==
    ASSUME QInv, QInv', NEW r \in Rings, pt(r)' = pt(r), ch(r)' = ch(r),
           \A d \in ch(r)..pt(r) - 1 : Item(r, d)' = Item(r, d)
    PROVE  Contents(r)' = Contents(r)
<1>1. ch(r) \in Nat /\ pt(r) \in Nat BY RingFacts
<1>2. ASSUME NEW i \in 1..pt(r) - ch(r) PROVE Item(r, ch(r) + i - 1)' = Item(r, ch(r) + i - 1)
  <2>1. PICK d \in ch(r)..pt(r) - 1 : d = ch(r) + i - 1 BY <1>1
  <2>2. Item(r, ch(r) + i - 1)' = Item(r, d)' BY <2>1 DEF Item
  <2> QED BY <2>1, <2>2
<1>3. Contents(r)' = [i \in 1..pt(r)' - ch(r)' |-> Item(r, ch(r) + i - 1)'] BY ContentsNext
<1>4. Contents(r) = [i \in 1..pt(r) - ch(r) |-> Item(r, ch(r) + i - 1)] BY ContentsIs
<1> QED BY <1>2, <1>3, <1>4

\* A step of one thread leaves alone what the others are pushing and have taken.
LEMMA OthersKept ==
    ASSUME QInv, NEW t \in Threads, \A u \in Threads \ {t} : th'[u] = th[u], NEW r \in Rings,
           \A d \in ct(r)..ch(r) - 1 : Item(r, d)' = Item(r, d)
    PROVE  /\ Pushing(r)' = [Pushing(r) EXCEPT ![t] = Pushing(r)'[t]]
           /\ Popped(r)' = [Popped(r) EXCEPT ![t] = Popped(r)'[t]]
<1>1. ASSUME NEW u \in Threads \ {t} PROVE Pushing(r)'[u] = Pushing(r)[u]
  <2>1. th'[u] = th[u] OBVIOUS
  <2> QED BY <2>1 DEF Pushing, Reserved, Batch
<1>2. ASSUME NEW u \in Threads \ {t} PROVE Popped(r)'[u] = Popped(r)[u]
  <2>1. th'[u] = th[u] OBVIOUS
  <2>2. CASE Reserved(u, "pop", r) /\ th[u].call.at = "copy"
    <3>1. PICK c \in CallType : c = th[u].call BY ThreadFacts
    <3>2. c.n \in Nat /\ c.head \in Index /\ c.r = r /\ start(u) = Off(c.head) /\ start(u) \in Nat /\ end(u) = start(u) + c.n
          BY <2>2, <3>1, ThreadFacts DEF start, Reserved
    <3>3. CallRight(u) BY DEF QInv
    <3>4. ct(r) <= start(u) /\ end(u) <= ch(r)
          BY <2>2, <3>1, <3>2, <3>3 DEF CallRight, PopRight, Reserved
    <3>5. ct(r) \in Nat /\ ch(r) \in Nat BY RingFacts
    <3>6. ASSUME NEW i \in 1..c.n PROVE rq'[r].data[Mask(c.head + i - 1)] = rq[r].data[Mask(c.head + i - 1)]
      <4>1. c.head \in Int /\ i - 1 \in Int BY <3>2, QueueAssumption DEF Index
      <4>2. Mask(c.head + (i - 1)) = Cell(Off(c.head) + (i - 1)) BY <3>2, <4>1, MaskOff
      <4>3. c.head + (i - 1) = c.head + i - 1 BY <4>1
      <4>4. PICK d \in ct(r)..ch(r) - 1 : d = Off(c.head) + (i - 1) BY <3>2, <3>4, <3>5
      <4>5. Item(r, d)' = Item(r, d) OBVIOUS
      <4>6. rq'[r].data[Cell(d)] = rq[r].data[Cell(d)] BY <4>5 DEF Item
      <4> QED BY <4>2, <4>3, <4>4, <4>6
    <3>7. Read(u) = [i \in 1..c.n |-> rq[r].data[Mask(c.head + i - 1)]] BY <3>1, <3>2 DEF Read
    <3>8. Read(u)' = [i \in 1..c.n |-> rq'[r].data[Mask(c.head + i - 1)]] BY <2>1, <3>1, <3>2 DEF Read
    <3>9. Read(u)' = Read(u) BY <3>6, <3>7, <3>8
    <3> QED BY <2>1, <2>2, <3>9 DEF Popped, Reserved
  <2>3. CASE ~(Reserved(u, "pop", r) /\ th[u].call.at = "copy")
    BY <2>1, <2>3 DEF Popped, Reserved
  <2> QED BY <2>2, <2>3
<1>3. Pushing(r) = [u \in Threads |-> Pushing(r)[u]] /\ Pushing(r)' = [u \in Threads |-> Pushing(r)'[u]]
      BY DEF Pushing
<1>4. Popped(r) = [u \in Threads |-> Popped(r)[u]] /\ Popped(r)' = [u \in Threads |-> Popped(r)'[u]]
      BY DEF Popped
<1>5. Pushing(r)' = [Pushing(r) EXCEPT ![t] = Pushing(r)'[t]] BY <1>1, <1>3
<1>6. Popped(r)' = [Popped(r) EXCEPT ![t] = Popped(r)'[t]] BY <1>2, <1>4
<1> QED BY <1>5, <1>6

\* What a thread is pushing on a ring, and what it has taken from it, by where it is.
LEMMA PushingAt ==
    ASSUME NEW t \in Threads, NEW r
    PROVE  /\ Reserved(t, "push", r) /\ th[t].call.at # "num" => Pushing(r)[t] = Batch(t)
           /\ ~(Reserved(t, "push", r) /\ th[t].call.at # "num") => Pushing(r)[t] = <<>>
BY DEF Pushing

LEMMA PoppedAt ==
    ASSUME NEW t \in Threads, NEW r
    PROVE  /\ Reserved(t, "pop", r) /\ th[t].call.at = "copy" => Popped(r)[t] = Read(t)
           /\ Reserved(t, "pop", r) /\ th[t].call.at \in {"tail", "num"} =>
                 Popped(r)[t] = SubSeq(th[t].hand, Len(th[t].hand) - th[t].call.n + 1, Len(th[t].hand))
           /\ ~(Reserved(t, "pop", r) /\ th[t].call.at \in {"copy", "tail", "num"}) => Popped(r)[t] = <<>>
BY DEF Popped
\* A step of t that moves neither cons.head nor prod.tail, nor writes what lies between them,
\* changes at most what t itself is pushing or has taken.
LEMMA ViewsKept ==
    ASSUME QInv, QInv', NEW t \in Threads, \A u \in Threads \ {t} : th'[u] = th[u], NEW r \in Rings,
           pt(r)' = pt(r), ch(r)' = ch(r), \A d \in ct(r)..pt(r) - 1 : Item(r, d)' = Item(r, d)
    PROVE  /\ Contents(r)' = Contents(r)
           /\ Pushing(r)' = [Pushing(r) EXCEPT ![t] = Pushing(r)'[t]]
           /\ Popped(r)' = [Popped(r) EXCEPT ![t] = Popped(r)'[t]]
<1>1. ct(r) \in Nat /\ ch(r) \in Nat /\ pt(r) \in Nat /\ ct(r) <= ch(r) /\ ch(r) <= pt(r) BY RingFacts
<1>2. \A d \in ct(r)..ch(r) - 1 : Item(r, d)' = Item(r, d) BY <1>1
<1>3. \A d \in ch(r)..pt(r) - 1 : Item(r, d)' = Item(r, d) BY <1>1
<1>4. Contents(r)' = Contents(r) BY <1>3, ContentsKept
<1> QED BY <1>2, <1>4, OthersKept

LEMMA NoChange ==
    ASSUME NEW r, NEW t \in Threads
    PROVE  /\ Pushing(r)' = [Pushing(r) EXCEPT ![t] = Pushing(r)'[t]] /\ Pushing(r)'[t] = Pushing(r)[t] =>
                 Pushing(r)' = Pushing(r)
           /\ Popped(r)' = [Popped(r) EXCEPT ![t] = Popped(r)'[t]] /\ Popped(r)'[t] = Popped(r)[t] =>
                 Popped(r)' = Popped(r)
<1>1. DOMAIN Pushing(r) = Threads /\ Pushing(r) = [u \in Threads |-> Pushing(r)[u]] BY DEF Pushing
<1>2. DOMAIN Popped(r) = Threads /\ Popped(r) = [u \in Threads |-> Popped(r)[u]] BY DEF Popped
<1> QED BY <1>1, <1>2

LEMMA SameFifo ==
    ASSUME QInv, QInv', NEW t \in Threads, \A u \in Threads \ {t} : th'[u] = th[u], SameRings, NEW r \in Rings
    PROVE  /\ Contents(r)' = Contents(r)
           /\ Pushing(r)' = [Pushing(r) EXCEPT ![t] = Pushing(r)'[t]]
           /\ Popped(r)' = [Popped(r) EXCEPT ![t] = Popped(r)'[t]]
BY SameView, ViewsKept

\* The same in the next state.
LEMMA PushingNext ==
    ASSUME NEW t \in Threads, NEW r
    PROVE  /\ Reserved(t, "push", r)' /\ th'[t].call.at # "num" => Pushing(r)'[t] = Batch(t)'
           /\ ~(Reserved(t, "push", r)' /\ th'[t].call.at # "num") => Pushing(r)'[t] = <<>>
BY DEF Pushing

LEMMA PoppedNext ==
    ASSUME NEW t \in Threads, NEW r
    PROVE  /\ Reserved(t, "pop", r)' /\ th'[t].call.at = "copy" => Popped(r)'[t] = Read(t)'
           /\ Reserved(t, "pop", r)' /\ th'[t].call.at \in {"tail", "num"} =>
                 Popped(r)'[t] = SubSeq(th'[t].hand, Len(th'[t].hand) - th'[t].call.n + 1, Len(th'[t].hand))
           /\ ~(Reserved(t, "pop", r)' /\ th'[t].call.at \in {"copy", "tail", "num"}) => Popped(r)'[t] = <<>>
BY DEF Popped

\* A call begins.
LEMMA CallerFifo ==
    ASSUME QInv, QInv', NEW t \in Threads, Caller(t), NEW q \in Rings
    PROVE  FifoStep(q)
<1>1. PICK op \in {"push", "pop"}, r \in Rings, n \in 0..BatchMax :
         Call(t, op, r, n) /\ (op = "push" => n <= Len(th[t].hand))
      BY CallerIs
<1>2. /\ rq' = rq /\ th[t].call = Idle /\ th'[t].hand = th[t].hand
      /\ th'[t].call = [op |-> op, at |-> "head", r |-> r, n |-> n, head |-> 0]
      /\ \A u \in Threads \ {t} : th'[u] = th[u]
      BY <1>1, Begun
<1>3. /\ Contents(q)' = Contents(q)
      /\ Pushing(q)' = [Pushing(q) EXCEPT ![t] = Pushing(q)'[t]]
      /\ Popped(q)' = [Popped(q) EXCEPT ![t] = Popped(q)'[t]]
      BY <1>2, SameRq, SameFifo
<1>4. Pushing(q)[t] = <<>> /\ Popped(q)[t] = <<>> BY <1>2, PushingAt, PoppedAt DEF Idle, Reserved
<1>5. Popped(q)'[t] = <<>> BY <1>2, PoppedNext DEF Reserved
<1>6. Popped(q)' = Popped(q) BY <1>3, <1>4, <1>5, NoChange
<1>7. Pushing(q)'[t] \in Seq(Slots)
  <2>1. CASE op = "push" /\ q = r
    <3>1. Pushing(q)'[t] = Batch(t)' BY <1>2, <2>1, PushingNext DEF Reserved
    <3>2. Batch(t)' = SubSeq(th[t].hand, 1, n) BY <1>2 DEF Batch
    <3>3. th[t].hand \in Seq(Slots) /\ Len(th[t].hand) \in Nat /\ n \in Nat BY <1>1, ThreadFacts, QueueAssumption
    <3>4. SubSeq(th[t].hand, 1, n) \in Seq(Slots) BY <1>1, <2>1, <3>3
    <3> QED BY <3>1, <3>2, <3>4
  <2>2. CASE ~(op = "push" /\ q = r)
    <3>1. Pushing(q)'[t] = <<>> BY <1>2, <2>2, PushingNext DEF Reserved
    <3> QED BY <3>1
  <2> QED BY <2>1, <2>2
<1> QED BY <1>3, <1>4, <1>6, <1>7 DEF FifoStep, FifoBegin

\* A step inside a call that leaves alone what the ring holds and what the thread holds.
LEMMA InsideFifo ==
    ASSUME QInv, QInv', NEW t \in Threads, NEW q \in Rings,
           pt(q)' = pt(q), ch(q)' = ch(q), \A d \in ct(q)..pt(q) - 1 : Item(q, d)' = Item(q, d),
           Same(t, th[t].call), th'[t].hand = th[t].hand, \A u \in Threads \ {t} : th'[u] = th[u],
           \/ th[t].call.at # "num" /\ th'[t].call.at # "num"
           \/ th[t].call.op = "pop",
           \/ th[t].call.at \notin {"copy", "tail", "num"} /\ th'[t].call.at \notin {"copy", "tail", "num"}
           \/ th[t].call.at = "tail" /\ th'[t].call.at = "num"
           \/ th[t].call.op = "push"
    PROVE  FifoStutter(q)
<1>1. /\ Contents(q)' = Contents(q)
      /\ Pushing(q)' = [Pushing(q) EXCEPT ![t] = Pushing(q)'[t]]
      /\ Popped(q)' = [Popped(q) EXCEPT ![t] = Popped(q)'[t]]
      BY ViewsKept
<1>2. \A op : Reserved(t, op, q)' <=> Reserved(t, op, q) BY DEF Reserved, Same
<1>3. Batch(t)' = Batch(t) BY DEF Batch, Same
<1>4. Pushing(q)'[t] = Pushing(q)[t]
  <2>1. CASE th[t].call.op = "pop"
    <3>1. ~Reserved(t, "push", q) BY <2>1 DEF Reserved
    <3>2. ~Reserved(t, "push", q)' BY <1>2, <3>1
    <3> QED BY <3>1, <3>2, PushingAt, PushingNext
  <2>2. CASE th[t].call.op # "pop" BY <1>2, <1>3, <2>2, PushingAt, PushingNext
  <2> QED BY <2>1, <2>2
<1>5. Popped(q)'[t] = Popped(q)[t]
  <2>1. CASE ~Reserved(t, "pop", q)
    <3>1. ~Reserved(t, "pop", q)' BY <1>2, <2>1
    <3> QED BY <2>1, <3>1, PoppedAt, PoppedNext
  <2>2. CASE th[t].call.at \notin {"copy", "tail", "num"} /\ th'[t].call.at \notin {"copy", "tail", "num"}
    <3>1. Popped(q)[t] = <<>> BY <2>2, PoppedAt
    <3>2. Popped(q)'[t] = <<>> BY <2>2, PoppedNext
    <3> QED BY <3>1, <3>2
  <2>3. CASE Reserved(t, "pop", q) /\ th[t].call.at = "tail" /\ th'[t].call.at = "num"
    <3>1. Reserved(t, "pop", q)' BY <1>2, <2>3
    <3>2. Popped(q)[t] = SubSeq(th[t].hand, Len(th[t].hand) - th[t].call.n + 1, Len(th[t].hand)) BY <2>3, PoppedAt
    <3>3. Popped(q)'[t] = SubSeq(th'[t].hand, Len(th'[t].hand) - th'[t].call.n + 1, Len(th'[t].hand))
          BY <2>3, <3>1, PoppedNext
    <3> QED BY <3>2, <3>3 DEF Same
  <2> QED BY <2>1, <2>2, <2>3 DEF Reserved
<1> QED BY <1>1, <1>4, <1>5, NoChange DEF FifoStutter

\* A call that ends: a push that was refused, or that has entered; a pop that found too little,
\* or whose caller has its blocks.
LEMMA EndFifo ==
    ASSUME QInv, QInv', NEW t \in Threads, SameRings, NEW q \in Rings, NEW b \in BOOLEAN,
           th' = [Return(t) EXCEPT ![t].refused = b] \/ th' = Return(t),
           th[t].call.op \in {"push", "pop"}
    PROVE  FifoStep(q)
<1>1. th'[t].call = Idle /\ \A u \in Threads \ {t} : th'[u] = th[u] BY Ended
<1>2. /\ Contents(q)' = Contents(q)
      /\ Pushing(q)' = [Pushing(q) EXCEPT ![t] = Pushing(q)'[t]]
      /\ Popped(q)' = [Popped(q) EXCEPT ![t] = Popped(q)'[t]]
      BY <1>1, SameFifo
<1>3. Pushing(q)'[t] = <<>> /\ Popped(q)'[t] = <<>> BY <1>1, PushingNext, PoppedNext DEF Idle, Reserved
<1>4. CASE th[t].call.op = "push"
  <2>1. Popped(q)[t] = <<>> BY <1>4, PoppedAt DEF Reserved
  <2>2. FifoRefuse(q, t) BY <1>2, <1>3, <2>1, NoChange DEF FifoRefuse
  <2> QED BY <2>2 DEF FifoStep
<1>5. CASE th[t].call.op = "pop"
  <2>1. Pushing(q)[t] = <<>> BY <1>5, PushingAt DEF Reserved
  <2>2. FifoUse(q, t) BY <1>2, <1>3, <2>1, NoChange DEF FifoUse
  <2> QED BY <2>2 DEF FifoStep
<1> QED BY <1>4, <1>5

\* Reading an index, and finding that there is room or that there is enough, is a step nobody
\* sees; so is a compare and set that fails.
LEMMA HeadFifo ==
    ASSUME QInv, QInv', NEW t \in Threads, ring_mpush_head(t) \/ ring_mpop_head(t), NEW q \in Rings
    PROVE  FifoStep(q)
<1>1. PICK r \in Rings : r = th[t].call.r BY ThreadFacts
<1>2. rq' = rq /\ th[t].call.at = "head" BY DEF ring_mpush_head, ring_mpop_head, At
<1>3. PICK h \in Index : th' = HeadAt(t, h)
  <2>1. rq[r].phead \in Index /\ rq[r].chead \in Index BY RingFacts
  <2> QED BY <1>1, <2>1 DEF ring_mpush_head, ring_mpop_head, HeadAt
<1>4. /\ Same(t, th[t].call) /\ th'[t].call.at = "check" /\ th'[t].hand = th[t].hand
      /\ \A u \in Threads \ {t} : th'[u] = th[u]
      BY <1>3, HeadRead
<1>5. pt(q)' = pt(q) /\ ch(q)' = ch(q) /\ \A d : Item(q, d)' = Item(q, d) BY <1>2, OtherRings
<1>6. FifoStutter(q) BY <1>2, <1>4, <1>5, InsideFifo
<1> QED BY <1>6 DEF FifoStep

LEMMA GotoFifo ==
    ASSUME QInv, QInv', NEW t \in Threads, rq' = rq, NEW at \in {"head", "cas"}, th' = Goto(t, at),
           th[t].call.at \in {"check", "cas"}, NEW q \in Rings
    PROVE  FifoStep(q)
<1>1. /\ Same(t, th[t].call) /\ th'[t].call.at = at /\ th'[t].hand = th[t].hand
      /\ \A u \in Threads \ {t} : th'[u] = th[u]
      BY Gone DEF Ats
<1>2. pt(q)' = pt(q) /\ ch(q)' = ch(q) /\ \A d : Item(q, d)' = Item(q, d) BY OtherRings
<1>3. FifoStutter(q) BY <1>1, <1>2, InsideFifo
<1> QED BY <1>3 DEF FifoStep

LEMMA CheckFifo ==
    ASSUME QInv, QInv', NEW t \in Threads, ring_mpush_check(t) \/ ring_mpop_check(t), NEW q \in Rings
    PROVE  FifoStep(q)
<1>1. th[t].call.op \in {"push", "pop"} /\ th[t].call.at = "check" /\ rq' = rq
      BY DEF ring_mpush_check, ring_mpop_check, At
<1>2. \/ th' = Goto(t, "cas")
      \/ th' = [Return(t) EXCEPT ![t].refused = TRUE] \/ th' = Return(t)
      BY DEF ring_mpush_check, ring_mpop_check
<1>3. CASE th' = Goto(t, "cas") BY <1>1, <1>3, GotoFifo
<1>4. CASE th' = [Return(t) EXCEPT ![t].refused = TRUE] \/ th' = Return(t) BY <1>1, <1>4, SameRq, EndFifo
<1> QED BY <1>2, <1>3, <1>4

LEMMA NumFifo ==
    ASSUME QInv, QInv', NEW t \in Threads, ring_mpush_num(t) \/ ring_mpop_num(t), NEW q \in Rings
    PROVE  FifoStep(q)
<1>1. th' = Return(t) /\ th[t].call.op \in {"push", "pop"} BY DEF ring_mpush_num, ring_mpop_num, At
<1>2. SameRings
  <2>1. PICK r \in Rings : r = th[t].call.r BY ThreadFacts
  <2>2. \E k : rq' = [rq EXCEPT ![r].num = k] BY <2>1 DEF ring_mpush_num, ring_mpop_num
  <2>3. rq \in [Rings -> RingType] BY DEF QInv, QTyped
  <2> QED BY <2>2, <2>3 DEF RingType, SameRings
<1> QED BY <1>1, <1>2, EndFifo

\* A push reserves its places: nothing is in the queue yet.
LEMMA PushCasFifo ==
    ASSUME QInv, QInv', NEW t \in Threads, ring_mpush_cas(t), NEW q \in Rings
    PROVE  FifoStep(q)
<1>1. PICK r \in Rings : r = th[t].call.r BY ThreadFacts
<1>2. th[t].call.op = "push" /\ th[t].call.at = "cas" /\ atomic32_cmp_and_set(t, "phead") BY DEF ring_mpush_cas, At
<1>3. CASE th' = Goto(t, "head") /\ rq' = rq BY <1>2, <1>3, GotoFifo
<1>4. CASE /\ th' = Goto(t, "copy")
           /\ rq' = [rq EXCEPT ![r] = [rq[r] EXCEPT !["phead"] = Add(th[t].call.head, th[t].call.n)]]
  <2>1. /\ Same(t, th[t].call) /\ th'[t].call.at = "copy" /\ th'[t].hand = th[t].hand
        /\ \A u \in Threads \ {t} : th'[u] = th[u]
        BY <1>4, Gone DEF Ats
  <2>2. rq \in [Rings -> RingType] BY DEF QInv, QTyped
  <2>3. rq'[q].ptail = rq[q].ptail /\ rq'[q].chead = rq[q].chead /\ rq'[q].data = rq[q].data
        BY <1>4, <2>2 DEF RingType
  <2>4. pt(q)' = pt(q) /\ ch(q)' = ch(q) /\ \A d : Item(q, d)' = Item(q, d) BY <2>3 DEF pt, ch, Item
  <2>5. FifoStutter(q) BY <1>2, <2>1, <2>4, InsideFifo
  <2> QED BY <2>5 DEF FifoStep
<1> QED BY <1>1, <1>2, <1>3, <1>4, CasMoves

\* A push copies its batch to places nobody reads yet.
LEMMA PushCopyFifo ==
    ASSUME QInv, QInv', NEW t \in Threads, ring_mpush_copy(t), NEW q \in Rings
    PROVE  FifoStep(q)
<1>1. th[t].call.op = "push" /\ th[t].call.at = "copy" /\ th' = Goto(t, "tail") BY DEF ring_mpush_copy, At
<1>2. /\ Same(t, th[t].call) /\ th'[t].call.at = "tail" /\ th'[t].hand = th[t].hand
      /\ \A u \in Threads \ {t} : th'[u] = th[u]
      BY <1>1, Gone DEF Ats
<1>3. pt(q)' = pt(q) /\ ch(q)' = ch(q) /\ \A d \in ct(q)..pt(q) - 1 : Item(q, d)' = Item(q, d) BY PushCopyHolds
<1>4. FifoStutter(q) BY <1>1, <1>2, <1>3, InsideFifo
<1> QED BY <1>4 DEF FifoStep

\* A pop gives its places back: they left the queue when it took them.
LEMMA PopTailFifo ==
    ASSUME QInv, QInv', NEW t \in Threads, ring_mpop_tail(t), NEW q \in Rings
    PROVE  FifoStep(q)
<1>1. PICK r \in Rings : r = th[t].call.r BY ThreadFacts
<1>2. th[t].call.op = "pop" /\ th[t].call.at = "tail" /\ th' = Goto(t, "num") BY DEF ring_mpop_tail, At
<1>3. /\ Same(t, th[t].call) /\ th'[t].call.at = "num" /\ th'[t].hand = th[t].hand
      /\ \A u \in Threads \ {t} : th'[u] = th[u]
      BY <1>2, Gone DEF Ats
<1>4. \E k : rq' = [rq EXCEPT ![r].ctail = k] BY <1>1 DEF ring_mpop_tail
<1>5. rq \in [Rings -> RingType] BY DEF QInv, QTyped
<1>6. rq'[q].ptail = rq[q].ptail /\ rq'[q].chead = rq[q].chead /\ rq'[q].data = rq[q].data
      BY <1>4, <1>5 DEF RingType
<1>7. pt(q)' = pt(q) /\ ch(q)' = ch(q) /\ \A d : Item(q, d)' = Item(q, d) BY <1>6 DEF pt, ch, Item
<1>8. FifoStutter(q) BY <1>2, <1>3, <1>7, InsideFifo
<1> QED BY <1>8 DEF FifoStep

LEMMA JoinAt ==
    ASSUME NEW S, NEW s \in Seq(S), NEW u \in Seq(S)
    PROVE  /\ s \o u \in Seq(S) /\ Len(s \o u) = Len(s) + Len(u)
           /\ \A i \in 1..Len(s) : (s \o u)[i] = s[i]
           /\ \A j \in 1..Len(u) : (s \o u)[Len(s) + j] = u[j]
OBVIOUS

LEMMA RestOf ==
    ASSUME NEW S, NEW s \in Seq(S), NEW n \in Nat, n <= Len(s)
    PROVE  /\ SubSeq(s, n + 1, Len(s)) \in Seq(S) /\ Len(SubSeq(s, n + 1, Len(s))) = Len(s) - n
           /\ \A i \in 1..Len(s) - n : SubSeq(s, n + 1, Len(s))[i] = s[n + i]
<1>1. Len(s) \in Nat OBVIOUS
<1>2. SubSeq(s, n + 1, Len(s)) = [i \in 1..(Len(s) - (n + 1) + 1) |-> s[n + 1 + i - 1]] BY <1>1
<1>3. Len(s) - (n + 1) + 1 = Len(s) - n BY <1>1
<1>4. \A i \in 1..Len(s) - n : n + 1 + i - 1 = n + i BY <1>1
<1>5. SubSeq(s, n + 1, Len(s)) = [i \in 1..Len(s) - n |-> s[n + i]] BY <1>2, <1>3, <1>4
<1>6. \A i \in 1..Len(s) - n : s[n + i] \in S BY <1>1
<1>7. PICK k \in Nat : k = Len(s) - n BY <1>1
<1>8. [i \in 1..k |-> s[n + i]] \in Seq(S) /\ Len([i \in 1..k |-> s[n + i]]) = k BY <1>6, <1>7
<1> QED BY <1>5, <1>7, <1>8

LEMMA SplitAt ==
    ASSUME NEW S, NEW s \in Seq(S), NEW n \in Nat, n <= Len(s)
    PROVE  /\ SubSeq(s, 1, n) \in Seq(S) /\ Len(SubSeq(s, 1, n)) = n
           /\ s = SubSeq(s, 1, n) \o SubSeq(s, n + 1, Len(s))
<1> DEFINE a == SubSeq(s, 1, n)
           b == SubSeq(s, n + 1, Len(s))
<1>1. Len(s) \in Nat OBVIOUS
<1>2. a \in Seq(S) /\ Len(a) = n /\ \A i \in 1..n : a[i] = s[i] BY <1>1
<1>3. b \in Seq(S) /\ Len(b) = Len(s) - n /\ \A i \in 1..Len(s) - n : b[i] = s[n + i] BY <1>1, RestOf
<1> HIDE DEF a, b
<1>4. /\ a \o b \in Seq(S) /\ Len(a \o b) = Len(a) + Len(b)
      /\ \A i \in 1..Len(a) : (a \o b)[i] = a[i]
      /\ \A j \in 1..Len(b) : (a \o b)[Len(a) + j] = b[j]
      BY <1>2, <1>3, JoinAt
<1>5. Len(a \o b) = Len(s) BY <1>1, <1>2, <1>3, <1>4
<1>6. ASSUME NEW i \in 1..Len(s) PROVE (a \o b)[i] = s[i]
  <2>1. CASE i <= n BY <1>2, <1>4, <2>1
  <2>2. CASE i > n
    <3>1. i - n \in 1..Len(s) - n /\ n + (i - n) = i BY <1>1, <2>2
    <3>2. (a \o b)[n + (i - n)] = b[i - n] BY <1>2, <1>3, <1>4, <3>1
    <3>3. b[i - n] = s[n + (i - n)] BY <1>3, <3>1
    <3> QED BY <3>1, <3>2, <3>3
  <2>3. i <= n \/ i > n BY <1>1
  <2> QED BY <2>1, <2>2, <2>3
<1> DEFINE w == a \o b
<1>8. w \in Seq(S) /\ Len(w) = Len(s) /\ \A i \in 1..Len(s) : w[i] = s[i] BY <1>4, <1>5, <1>6
<1> HIDE DEF w
<1>9. w = s BY <1>8
<1>7. s = a \o b BY <1>9 DEF w
<1> QED BY <1>2, <1>7 DEF a, b

LEMMA LastPart ==
    ASSUME NEW S, NEW s \in Seq(S), NEW u \in Seq(S)
    PROVE  SubSeq(s \o u, Len(s) + 1, Len(s) + Len(u)) = u
<1> DEFINE w == SubSeq(s \o u, Len(s) + 1, Len(s \o u))
<1>1. Len(s) \in Nat /\ Len(u) \in Nat /\ s \o u \in Seq(S) /\ Len(s \o u) = Len(s) + Len(u) OBVIOUS
<1>2. w \in Seq(S) /\ Len(w) = Len(s \o u) - Len(s) /\ \A i \in 1..Len(s \o u) - Len(s) : w[i] = (s \o u)[Len(s) + i]
      BY <1>1, RestOf
<1>3. Len(w) = Len(u) /\ \A i \in 1..Len(u) : w[i] = u[i] BY <1>1, <1>2, JoinAt
<1> HIDE DEF w
<1>4. w = u BY <1>2, <1>3
<1> QED BY <1>1, <1>4 DEF w

\* A pop copies what it has taken: it is the same whether it is still in the ring or in hand.
LEMMA PopCopyFifo ==
    ASSUME QInv, QInv', NEW t \in Threads, ring_mpop_copy(t), NEW q \in Rings
    PROVE  FifoStep(q)
<1>1. th[t].call.op = "pop" /\ th[t].call.at = "copy" /\ rq' = rq BY DEF ring_mpop_copy, At
<1>2. th'[t].hand = th[t].hand \o Read(t) /\ Read(t) \in Seq(Slots) /\ Len(Read(t)) = th[t].call.n BY PopCopyHolds
<1>3. th \in [Threads -> ThreadType] /\ th[t] \in ThreadType BY DEF QInv, QTyped
<1>4. Same(t, th[t].call) /\ th'[t].call.at = "tail" /\ \A u \in Threads \ {t} : th'[u] = th[u]
      BY <1>3 DEF ring_mpop_copy, Goto, Same, ThreadType, CallType
<1>5. /\ Contents(q)' = Contents(q)
      /\ Pushing(q)' = [Pushing(q) EXCEPT ![t] = Pushing(q)'[t]]
      /\ Popped(q)' = [Popped(q) EXCEPT ![t] = Popped(q)'[t]]
      BY <1>1, <1>4, SameRq, SameFifo
<1>6. \A op : Reserved(t, op, q)' <=> Reserved(t, op, q) BY <1>4 DEF Reserved, Same
<1>7. ~Reserved(t, "push", q) BY <1>1 DEF Reserved
<1>8. Pushing(q)'[t] = Pushing(q)[t] BY <1>6, <1>7, PushingAt, PushingNext
<1>9. Popped(q)'[t] = Popped(q)[t]
  <2>1. CASE Reserved(t, "pop", q)
    <3>1. Popped(q)[t] = Read(t) BY <1>1, <2>1, PoppedAt
    <3>2. Popped(q)'[t] = SubSeq(th'[t].hand, Len(th'[t].hand) - th'[t].call.n + 1, Len(th'[t].hand))
          BY <1>4, <1>6, <2>1, PoppedNext
    <3>3. th[t].hand \in Seq(Slots) BY ThreadFacts
    <3>4. PICK k \in Nat, m \in Nat : k = Len(th[t].hand) /\ m = Len(Read(t)) BY <1>2, <3>3
    <3>9. Len(th[t].hand \o Read(t)) = Len(th[t].hand) + Len(Read(t)) BY <1>2, <3>3, JoinAt
    <3>5. Len(th'[t].hand) = k + m BY <1>2, <3>4, <3>9
    <3>8. th'[t].call.n = m BY <1>2, <1>4, <3>4 DEF Same
    <3>6. (k + m) - m + 1 = k + 1 OBVIOUS
    <3>7. Popped(q)'[t] = SubSeq(th[t].hand \o Read(t), k + 1, k + m) BY <1>2, <3>2, <3>5, <3>6, <3>8
    <3> QED BY <1>2, <3>1, <3>3, <3>4, <3>7, LastPart
  <2>2. CASE ~Reserved(t, "pop", q) BY <1>6, <2>2, PoppedAt, PoppedNext
  <2> QED BY <2>1, <2>2
<1>10. FifoStutter(q) BY <1>5, <1>8, <1>9, NoChange DEF FifoStutter
<1> QED BY <1>10 DEF FifoStep

\* A push enters the queue when prod.tail moves over its places: behind all that is in it, whole
\* and in its order.
LEMMA PushTailFifo ==
    ASSUME QInv, QInv', NEW t \in Threads, ring_mpush_tail(t), NEW q \in Rings
    PROVE  FifoStep(q) /\ (q = th[t].call.r => Contents(q)' = Contents(q) \o Batch(t))
<1>1. PICK r \in Rings : r = th[t].call.r BY ThreadFacts
<1>2. /\ start(t) = pt(r) /\ pt(r)' = end(t) /\ end(t) <= ph(r) /\ ch(r)' = ch(r)
      /\ \A d : Item(r, d)' = Item(r, d)
      /\ \A i \in 1..th[t].call.n : Item(r, start(t) + i - 1) = th[t].hand[i]
      /\ \A p \in Rings \ {r} : rq'[p] = rq[p]
      /\ th'[t].call.at = "num" /\ Same(t, th[t].call) /\ \A u \in Threads \ {t} : th'[u] = th[u]
      /\ th[t].call.n <= Len(th[t].hand)
      BY <1>1, PushTailHolds
<1>3. th[t].call.op = "push" /\ th[t].call.at = "tail" BY DEF ring_mpush_tail, At
<1>4. \A d : Item(q, d)' = Item(q, d)
  <2>1. CASE q = r BY <1>2, <2>1
  <2>2. CASE q # r BY <1>2, <2>2, OtherRings
  <2> QED BY <2>1, <2>2
<1>5. /\ Pushing(q)' = [Pushing(q) EXCEPT ![t] = Pushing(q)'[t]]
      /\ Popped(q)' = [Popped(q) EXCEPT ![t] = Popped(q)'[t]]
      BY <1>2, <1>4, OthersKept
<1>6. Pushing(q)'[t] = <<>> BY <1>2, PushingNext
<1>7. Popped(q)'[t] = <<>> /\ Popped(q)[t] = <<>>
  <2>1. ~Reserved(t, "pop", q) /\ ~Reserved(t, "pop", q)' BY <1>2, <1>3 DEF Reserved, Same
  <2> QED BY <2>1, PoppedAt, PoppedNext
<1>8. Popped(q)' = Popped(q) BY <1>5, <1>7, NoChange
<1>9. CASE q # r
  <2>1. pt(q)' = pt(q) /\ ch(q)' = ch(q) BY <1>2, <1>9, OtherRings
  <2>2. Contents(q)' = Contents(q) BY <1>4, <2>1, ContentsKept
  <2>3. FifoRefuse(q, t) BY <1>5, <1>6, <1>8, <2>2 DEF FifoRefuse
  <2> QED BY <1>1, <1>9, <2>3 DEF FifoStep
<1>10. CASE q = r
  <2>1. PICK n \in Nat : n = th[t].call.n BY ThreadFacts
  <2>2. Batch(t) \in Seq(Slots) /\ Len(Batch(t)) = n /\ \A i \in 1..n : Batch(t)[i] = th[t].hand[i]
        BY <1>2, <2>1, BatchIs
  <2>3. Pushing(r)[t] = Batch(t) BY <1>1, <1>3, PushingAt DEF Reserved
  <2>4. CallRight(t) BY DEF QInv
  <2>5. n >= 1 BY <1>3, <2>1, <2>4 DEF CallRight
  <2>6. Batch(t) # <<>> BY <2>2, <2>5
  <2>7. PICK c \in Nat, p \in Nat : c = ch(r) /\ p = pt(r) BY RingFacts
  <2>8. c <= p /\ pt(r)' = p + n BY <1>2, <2>1, <2>7, RingFacts, ThreadFacts
  <2>9. p + n - c <= RingMax
    <3>1. /\ ph(r) \in Nat /\ ct(r) \in Nat /\ RingMax \in Nat /\ ct(r) <= c /\ ph(r) <= ct(r) + RingMax /\ p + n <= ph(r)
          BY <1>2, <2>7, <2>8, RingFacts
    <3> QED BY <2>8, <3>1
  <2>10. Contents(r) = [i \in 1..p - c |-> Item(r, c + i - 1)] /\ Contents(r) \in Seq(Slots) /\ Len(Contents(r)) = p - c
         BY <2>7, ContentsIs
  <2>11. /\ Contents(r)' \in Seq(Slots) /\ Len(Contents(r)') = p + n - c
         /\ Contents(r)' = [i \in 1..p + n - c |-> Item(r, c + i - 1)']
    <3>1. /\ Contents(r)' \in Seq(Slots) /\ Len(Contents(r)') = pt(r)' - ch(r)'
          /\ Contents(r)' = [i \in 1..pt(r)' - ch(r)' |-> Item(r, ch(r) + i - 1)']
          BY ContentsNext
    <3>2. pt(r)' = p + n /\ ch(r)' = c /\ ch(r) = c BY <1>2, <2>7, <2>8
    <3>3. ASSUME NEW i PROVE Item(r, ch(r) + i - 1)' = Item(r, c + i - 1)' BY <3>2 DEF Item
    <3> QED BY <3>1, <3>2, <3>3
  <2>12. ASSUME NEW i \in 1..p + n - c PROVE Contents(r)'[i] = (Contents(r) \o Batch(t))[i]
    <3>1. Contents(r)'[i] = Item(r, c + i - 1) BY <1>2, <2>11
    <3>2. CASE i <= p - c
      <4>1. i \in 1..p - c BY <2>8, <3>2
      <4>2. (Contents(r) \o Batch(t))[i] = Contents(r)[i] BY <2>2, <2>10, <4>1
      <4>3. Contents(r)[i] = Item(r, c + i - 1) BY <2>10, <4>1
      <4> QED BY <3>1, <4>2, <4>3
    <3>3. CASE i > p - c
      <4>1. PICK j \in 1..n : i = (p - c) + j
        <5>1. i - (p - c) \in 1..n /\ i = (p - c) + (i - (p - c)) BY <2>8, <3>3
        <5> QED BY <5>1
      <4>2. (Contents(r) \o Batch(t))[(p - c) + j] = Batch(t)[j]
        <5>1. j \in 1..Len(Batch(t)) BY <2>2
        <5>2. PICK s \in Seq(Slots), u \in Seq(Slots) : s = Contents(r) /\ u = Batch(t) BY <2>2, <2>10
        <5>3. (s \o u)[Len(s) + j] = u[j] BY <5>1, <5>2, JoinAt
        <5> QED BY <2>10, <5>2, <5>3
      <4>3. c + i - 1 = p + j - 1 BY <4>1
      <4>4. Item(r, p + j - 1) = th[t].hand[j] BY <1>2, <2>1, <2>7
      <4>5. Batch(t)[j] = th[t].hand[j] BY <2>2
      <4> QED BY <3>1, <4>1, <4>2, <4>3, <4>4, <4>5
    <3>4. i <= p - c \/ i > p - c OBVIOUS
    <3> QED BY <3>2, <3>3, <3>4
  <2>13. Contents(r) \o Batch(t) \in Seq(Slots) /\ Len(Contents(r) \o Batch(t)) = p + n - c BY <2>2, <2>8, <2>10
  <2>14. Contents(r)' = Contents(r) \o Batch(t)
    <3> DEFINE u == Contents(r)'
               w == Contents(r) \o Batch(t)
    <3>1. u \in Seq(Slots) /\ w \in Seq(Slots) /\ Len(u) = Len(w) /\ \A i \in 1..Len(u) : u[i] = w[i]
          BY <2>11, <2>12, <2>13
    <3> HIDE DEF u, w
    <3>2. u = w BY <3>1
    <3> QED BY <3>2 DEF u, w
  <2>15. Len(Contents(r)) + Len(Batch(t)) <= RingMax BY <2>2, <2>8, <2>9, <2>10, MaxAssumption
  <2>16. FifoEnter(q, t) BY <1>5, <1>6, <1>8, <1>10, <2>3, <2>6, <2>14, <2>15 DEF FifoEnter
  <2> QED BY <1>10, <2>14, <2>16 DEF FifoStep
<1> QED BY <1>9, <1>10

\* A pop leaves the queue when cons.head moves over its places: it takes the oldest.
LEMMA PopCasFifo ==
    ASSUME QInv, QInv', NEW t \in Threads, ring_mpop_cas(t), NEW q \in Rings
    PROVE  /\ FifoStep(q)
           /\ th' = Goto(t, "copy") /\ q = th[t].call.r => Contents(q) = Read(t)' \o Contents(q)'
<1>1. PICK r \in Rings : r = th[t].call.r BY ThreadFacts
<1>2. th[t].call.op = "pop" /\ th[t].call.at = "cas" /\ atomic32_cmp_and_set(t, "chead") BY DEF ring_mpop_cas, At
<1>3. CASE th' = Goto(t, "head") /\ rq' = rq
  <2>1. th' # Goto(t, "copy")
    <3>1. th'[t].call.at = "head" BY <1>3, Gone DEF Ats
    <3>2. th' = Goto(t, "copy") => th'[t].call.at = "copy" BY Gone DEF Ats
    <3> QED BY <3>1, <3>2
  <2> QED BY <1>2, <1>3, <2>1, GotoFifo
<1>4. CASE /\ th' = Goto(t, "copy")
           /\ rq[r]["chead"] = th[t].call.head
           /\ rq' = [rq EXCEPT ![r] = [rq[r] EXCEPT !["chead"] = Add(th[t].call.head, th[t].call.n)]]
  <2>1. PICK h \in Index, n \in Nat, c \in Nat, p \in Nat :
           h = th[t].call.head /\ n = th[t].call.n /\ c = ch(r) /\ p = pt(r)
        BY ThreadFacts, RingFacts
  <2>2. start(t) = Off(h) /\ start(t) = c /\ end(t) = c + n BY <1>4, <2>1, ThreadFacts DEF start, ch
  <2>3. CallRight(t) /\ PopRight(t, r) BY <1>1, <1>2 DEF QInv, CallRight
  <2>4. c + n <= p /\ n >= 1 BY <1>2, <2>1, <2>2, <2>3 DEF PopRight, CallRight
  <2>5. Add(h, n) \in Index /\ Off(Add(h, n)) = c + n
    <3>1. ph(r) \in Nat /\ p <= ph(r) /\ RingMax \in Nat /\ Width \in Nat /\ ph(r) + RingMax < Width BY <2>1, RingFacts
    <3>2. Off(h) + n < Width BY <2>2, <2>4, <3>1
    <3> QED BY <2>2, <3>2, OffAdd
  <2>6. /\ rq'[r].chead = Add(h, n) /\ rq'[r].ptail = rq[r].ptail /\ rq'[r].data = rq[r].data
        /\ \A s \in Rings \ {r} : rq'[s] = rq[s]
        BY <1>4, <2>1, <2>5, CheadSet
  <2>7. pt(r)' = p /\ ch(r)' = c + n /\ \A d : Item(r, d)' = Item(r, d) BY <2>1, <2>5, <2>6 DEF pt, ch, Item
  <2>8. \A d : Item(q, d)' = Item(q, d)
    <3>1. CASE q = r BY <2>7, <3>1
    <3>2. CASE q # r BY <2>6, <3>2, OtherRings
    <3> QED BY <3>1, <3>2
  <2>9. /\ Same(t, th[t].call) /\ th'[t].call.at = "copy" /\ th'[t].call.head = h
        /\ \A u \in Threads \ {t} : th'[u] = th[u]
        BY <1>4, <2>1, Gone DEF Ats
  <2>10. /\ Pushing(q)' = [Pushing(q) EXCEPT ![t] = Pushing(q)'[t]]
         /\ Popped(q)' = [Popped(q) EXCEPT ![t] = Popped(q)'[t]]
         BY <2>8, <2>9, OthersKept
  <2>11. Pushing(q)'[t] = Pushing(q)[t]
    <3>1. ~Reserved(t, "push", q) /\ ~Reserved(t, "push", q)' BY <1>2, <2>9 DEF Reserved, Same
    <3> QED BY <3>1, PushingAt, PushingNext
  <2>12. Pushing(q)' = Pushing(q) BY <2>10, <2>11, NoChange
  <2>13. Popped(q)[t] = <<>> BY <1>2, PoppedAt
  <2>14. CASE q # r
    <3>1. pt(q)' = pt(q) /\ ch(q)' = ch(q) BY <2>6, <2>14, OtherRings
    <3>2. Contents(q)' = Contents(q) BY <2>8, <3>1, ContentsKept
    <3>3. ~Reserved(t, "pop", q)' BY <1>1, <2>9, <2>14 DEF Reserved, Same
    <3>4. Popped(q)'[t] = <<>> BY <3>3, PoppedNext
    <3>5. FifoUse(q, t) BY <2>10, <2>12, <3>2, <3>4 DEF FifoUse
    <3> QED BY <1>1, <2>14, <3>5 DEF FifoStep
  <2>15. CASE q = r
    <3>1. /\ Contents(r) = [i \in 1..p - c |-> Item(r, c + i - 1)]
          /\ Contents(r) \in Seq(Slots) /\ Len(Contents(r)) = p - c
          BY <2>1, ContentsIs
    <3>2. /\ Contents(r)' \in Seq(Slots) /\ Len(Contents(r)') = p - (c + n)
          /\ \A i \in 1..p - (c + n) : Contents(r)'[i] = Item(r, c + n + i - 1)
      <4>1. /\ Contents(r)' \in Seq(Slots) /\ Len(Contents(r)') = pt(r)' - ch(r)'
            /\ Contents(r)' = [i \in 1..pt(r)' - ch(r)' |-> Item(r, ch(r) + i - 1)']
            BY ContentsNext
      <4>2. ASSUME NEW i \in 1..p - (c + n) PROVE Item(r, ch(r) + i - 1)' = Item(r, c + n + i - 1)
        <5>1. Item(r, ch(r) + i - 1)' = Item(r, c + n + i - 1)' BY <2>7 DEF Item
        <5> QED BY <2>7, <5>1
      <4> QED BY <2>7, <4>1, <4>2
    <3>3. Contents(r)' = SubSeq(Contents(r), n + 1, Len(Contents(r)))
      <4> DEFINE u == Contents(r)'
                 w == SubSeq(Contents(r), n + 1, Len(Contents(r)))
      <4>0. n <= Len(Contents(r)) /\ Len(Contents(r)) - n = p - (c + n) BY <2>4, <3>1
      <4>1. w \in Seq(Slots) /\ Len(w) = p - (c + n) BY <3>1, <4>0, RestOf
      <4>2. ASSUME NEW i \in 1..p - (c + n) PROVE w[i] = u[i]
        <5>0. PICK s \in Seq(Slots) : s = Contents(r) BY <3>1
        <5>4. n <= Len(s) /\ i \in 1..Len(s) - n BY <4>0, <5>0
        <5>5. SubSeq(s, n + 1, Len(s))[i] = s[n + i] BY <5>4, RestOf
        <5>1. w[i] = Contents(r)[n + i] BY <5>0, <5>5
        <5>2. n + i \in 1..p - c /\ c + (n + i) - 1 = c + n + i - 1 BY <2>4
        <5>3. Contents(r)[n + i] = Item(r, c + (n + i) - 1) BY <3>1, <5>2
        <5> QED BY <3>2, <5>1, <5>2, <5>3
      <4>3. u \in Seq(Slots) /\ Len(u) = p - (c + n) BY <3>2
      <4> HIDE DEF u, w
      <4>4. u = w BY <4>1, <4>2, <4>3
      <4> QED BY <4>4 DEF u, w
    <3>4. Popped(r)'[t] = Read(t) /\ Read(t)' = Read(t)
      <4>1. Reserved(t, "pop", r)' BY <1>1, <1>2, <2>9 DEF Reserved, Same
      <4>2. Popped(r)'[t] = Read(t)' BY <2>9, <4>1, PoppedNext
      <4>3. th'[t].call.r = r /\ th'[t].call.n = n /\ th'[t].call.head = h BY <1>1, <2>1, <2>9 DEF Same
      <4>4. Read(t)' = [i \in 1..n |-> rq'[r].data[Mask(h + i - 1)]] BY <4>3 DEF Read
      <4>5. Read(t) = [i \in 1..n |-> rq[r].data[Mask(h + i - 1)]] BY <1>1, <2>1 DEF Read
      <4> QED BY <2>6, <4>2, <4>4, <4>5
    <3>5. Read(t) = SubSeq(Contents(r), 1, n)
      <4>1. Read(t) = [i \in 1..n |-> Item(r, c + i - 1)] BY <1>1, <2>1, <2>2, ReadIs
      <4>2. SubSeq(Contents(r), 1, n) = [i \in 1..n |-> Contents(r)[i]] BY <2>4, <3>1
      <4>3. ASSUME NEW i \in 1..n PROVE Contents(r)[i] = Item(r, c + i - 1)
        <5>1. i \in 1..p - c BY <2>4
        <5> QED BY <3>1, <5>1
      <4> QED BY <4>1, <4>2, <4>3
    <3>6. n \in 1..Len(Contents(r)) BY <2>4, <3>1
    <3>7. Popped(r)' = [Popped(r) EXCEPT ![t] = SubSeq(Contents(r), 1, n)] BY <2>10, <2>15, <3>4, <3>5
    <3>8. FifoTake(q, t) BY <2>12, <2>13, <2>15, <3>3, <3>6, <3>7 DEF FifoTake
    <3>9. Contents(r) = Read(t)' \o Contents(r)'
      <4>0. n <= Len(Contents(r)) BY <2>4, <3>1
      <4>1. PICK s \in Seq(Slots) : s = Contents(r) /\ n <= Len(s) BY <3>1, <4>0
      <4>2. s = SubSeq(s, 1, n) \o SubSeq(s, n + 1, Len(s)) BY <4>1, SplitAt
      <4> QED BY <3>3, <3>4, <3>5, <4>1, <4>2
    <3> QED BY <2>15, <3>8, <3>9 DEF FifoStep
  <2> QED BY <2>14, <2>15
<1> QED BY <1>1, <1>2, <1>3, <1>4, CasMoves

LEMMA StepFifo == QInv /\ QInv' /\ [QueueNext]_queueVars => \A q \in Rings : FifoStep(q)
<1> SUFFICES ASSUME QInv, QInv', [QueueNext]_queueVars, NEW q \in Rings PROVE FifoStep(q) OBVIOUS
<1>1. CASE UNCHANGED queueVars
  <2>1. rq' = rq /\ th' = th BY <1>1 DEF queueVars
  <2>2. FifoStutter(q) BY <2>1 DEF FifoStutter, Contents, Pushing, Popped, Reserved, Batch, Read
  <2> QED BY <2>2 DEF FifoStep
<1>2. CASE QueueNext
  <2>1. PICK t \in Threads : Caller(t) \/ ring_mpush(t) \/ ring_mpop(t) BY <1>2 DEF QueueNext
  <2>2. CASE Caller(t) BY <2>2, CallerFifo
  <2>3. CASE ring_mpush(t)
    <3>1. CASE ring_mpush_head(t) BY <3>1, HeadFifo
    <3>2. CASE ring_mpush_check(t) BY <3>2, CheckFifo
    <3>3. CASE ring_mpush_cas(t) BY <3>3, PushCasFifo
    <3>4. CASE ring_mpush_copy(t) BY <3>4, PushCopyFifo
    <3>5. CASE ring_mpush_tail(t) BY <3>5, PushTailFifo
    <3>6. CASE ring_mpush_num(t) BY <3>6, NumFifo
    <3> QED BY <2>3, <3>1, <3>2, <3>3, <3>4, <3>5, <3>6 DEF ring_mpush
  <2>4. CASE ring_mpop(t)
    <3>1. CASE ring_mpop_head(t) BY <3>1, HeadFifo
    <3>2. CASE ring_mpop_check(t) BY <3>2, CheckFifo
    <3>3. CASE ring_mpop_cas(t) BY <3>3, PopCasFifo
    <3>4. CASE ring_mpop_copy(t) BY <3>4, PopCopyFifo
    <3>5. CASE ring_mpop_tail(t) BY <3>5, PopTailFifo
    <3>6. CASE ring_mpop_num(t) BY <3>6, NumFifo
    <3> QED BY <2>4, <3>1, <3>2, <3>3, <3>4, <3>5, <3>6 DEF ring_mpop
  <2> QED BY <2>1, <2>2, <2>3, <2>4
<1> QED BY <1>1, <1>2

LEMMA FifoAtFirst ==
    ASSUME QueueInit, NEW r \in Rings
    PROVE  /\ Contents(r) \in Seq(Slots) /\ Len(Contents(r)) <= RingMax
           /\ Pushing(r) = [t \in Threads |-> <<>>] /\ Popped(r) = [t \in Threads |-> <<>>]
<1>1. QInv BY InitHolds
<1>2. Contents(r) \in Seq(Slots) /\ Len(Contents(r)) = pt(r) - ch(r) BY <1>1, ContentsIs
<1>3. /\ ph(r) \in Nat /\ pt(r) \in Nat /\ ch(r) \in Nat /\ ct(r) \in Nat /\ RingMax \in Nat
      /\ ct(r) <= ch(r) /\ pt(r) <= ph(r) /\ ph(r) <= ct(r) + RingMax
      BY <1>1, RingFacts
<1>4. Len(Contents(r)) <= RingMax BY <1>2, <1>3
<1>5. \A t \in Threads : th[t].call = Idle BY DEF QueueInit, queue_creat
<1>6. Pushing(r) = [t \in Threads |-> <<>>] /\ Popped(r) = [t \in Threads |-> <<>>]
      BY <1>5 DEF Pushing, Popped, Reserved, Idle
<1> QED BY <1>2, <1>4, <1>6

\* The lock free ring, run by any number of threads, does what a queue that is pushed and popped
\* in one step does, and so does the pool: a push takes effect when prod.tail moves over its
\* places, a pop when cons.head does (ring_mpush, ring_mpop).
THEOREM QueueRefines == QueueSpec => QueuesAreFifo
<1>1. QueueInit => RingQueue!Init /\ PoolQueue!Init
  <2> SUFFICES ASSUME QueueInit PROVE RingQueue!Init /\ PoolQueue!Init OBVIOUS
  <2>1. "ring" \in Rings /\ "slot" \in Rings BY DEF Rings
  <2>2. RingQueue!Init BY <2>1, FifoAtFirst DEF RingQueue!Init
  <2>3. PoolQueue!Init BY <2>1, FifoAtFirst DEF PoolQueue!Init
  <2> QED BY <2>2, <2>3
<1>2. QInv /\ QInv' /\ [QueueNext]_queueVars => [RingQueue!Next]_(RingQueue!vars) /\ [PoolQueue!Next]_(PoolQueue!vars)
  <2> SUFFICES ASSUME QInv, QInv', [QueueNext]_queueVars
               PROVE  [RingQueue!Next]_(RingQueue!vars) /\ [PoolQueue!Next]_(PoolQueue!vars)
      OBVIOUS
  <2>1. FifoStep("ring") /\ FifoStep("slot") BY StepFifo DEF Rings
  <2>2. [RingQueue!Next]_(RingQueue!vars)
    BY <2>1 DEF FifoStep, FifoBegin, FifoEnter, FifoRefuse, FifoTake, FifoUse, FifoStutter, RingQueue!Next,
                RingQueue!vars, RingQueue!Begin, RingQueue!Enter, RingQueue!Refuse, RingQueue!Take, RingQueue!Use
  <2>3. [PoolQueue!Next]_(PoolQueue!vars)
    BY <2>1 DEF FifoStep, FifoBegin, FifoEnter, FifoRefuse, FifoTake, FifoUse, FifoStutter, PoolQueue!Next,
                PoolQueue!vars, PoolQueue!Begin, PoolQueue!Enter, PoolQueue!Refuse, PoolQueue!Take, PoolQueue!Use
  <2> QED BY <2>2, <2>3
<1>3. QueueSpec => []QInv BY QueueInvariant
<1> QED BY <1>1, <1>2, <1>3, PTL DEF QueueSpec, QueuesAreFifo, RingQueue!Spec, PoolQueue!Spec
-----------------------------------------------------------------------------
(***************************************************************************)
(* That no block is lost, doubled or refused, and that the counts settle.  *)
(* Beside QInv it takes that every place between two indices is reserved   *)
(* by somebody (Covered), so that a ring is never thought fuller than it   *)
(* is, and what a count lags behind by (Counted).                          *)
(***************************************************************************)
\* Every place between the indices is reserved by somebody.
Covered(r) ==
    /\ \A d \in pt(r)..ph(r) - 1 : \E u \in Threads : Has(u, "push", r) /\ d \in start(u)..end(u) - 1
    /\ \A d \in ct(r)..ch(r) - 1 : \E u \in Threads : Has(u, "pop", r) /\ d \in start(u)..end(u) - 1

\* The blocks that are in a ring, or out of it, and not counted yet.
Entered(r) == {p \in Threads \X (1..BatchMax) :
                  Reserved(p[1], "push", r) /\ th[p[1]].call.at = "num" /\ p[2] <= th[p[1]].call.n}
Left(r) == {p \in Threads \X (1..BatchMax) :
               Reserved(p[1], "pop", r) /\ th[p[1]].call.at \in {"copy", "tail", "num"} /\ p[2] <= th[p[1]].call.n}
Counted(r) == rq[r].num = ((pt(r) - ch(r)) + (Cardinality(Left(r)) - Cardinality(Entered(r)))) % Width

AInv == (\A r \in Rings : Covered(r) /\ Counted(r)) /\ EachBlockOnce /\ NeverRefused
-----------------------------------------------------------------------------
LEMMA Matched ==
    ASSUME NEW A, IsFiniteSet(A), NEW B, NEW f \in [A -> B],
           \A x, y \in A : f[x] = f[y] => x = y, \A b \in B : \E x \in A : f[x] = b
    PROVE  IsFiniteSet(B) /\ Cardinality(B) = Cardinality(A)
<1>1. f \in Bijection(A, B) BY DEF Bijection, Injection, Surjection, IsInjective
<1>2. ExistsBijection(A, B) BY <1>1 DEF ExistsBijection
<1> QED BY <1>2, FS_Bijection

LEMMA Apart ==
    ASSUME NEW A, NEW B, IsFiniteSet(A), IsFiniteSet(B), A \cap B = {}
    PROVE  IsFiniteSet(A \cup B) /\ Cardinality(A \cup B) = Cardinality(A) + Cardinality(B)
<1>1. Cardinality(A \cup B) = Cardinality(A) + Cardinality(B) - Cardinality(A \cap B) /\ IsFiniteSet(A \cup B)
      BY FS_Union
<1>2. Cardinality(A \cap B) = 0 /\ Cardinality(A) \in Nat /\ Cardinality(B) \in Nat BY FS_EmptySet, FS_CardinalityType
<1> QED BY <1>1, <1>2

LEMMA TimesType ==
    ASSUME NEW S, NEW a \in Seq(S), NEW s
    PROVE  IsFiniteSet({i \in DOMAIN a : a[i] = s}) /\ Times(s, a) \in Nat
<1>1. Len(a) \in Nat /\ DOMAIN a = 1..Len(a) OBVIOUS
<1>2. IsFiniteSet(1..Len(a)) BY <1>1, FS_Interval
<1>3. {i \in DOMAIN a : a[i] = s} \in SUBSET (1..Len(a)) BY <1>1
<1>4. IsFiniteSet({i \in DOMAIN a : a[i] = s}) BY <1>2, <1>3, FS_Subset
<1> QED BY <1>4, FS_CardinalityType DEF Times

\* How often a block is in two sequences, one after the other.
LEMMA TimesJoin ==
    ASSUME NEW S, NEW a \in Seq(S), NEW b \in Seq(S), NEW s
    PROVE  Times(s, a \o b) = Times(s, a) + Times(s, b)
<1> DEFINE A == {i \in DOMAIN a : a[i] = s}
           B == {i \in DOMAIN b : b[i] = s}
           C == {i \in DOMAIN (a \o b) : (a \o b)[i] = s}
           D == {i \in C : i > Len(a)}
<1>1. /\ Len(a) \in Nat /\ Len(b) \in Nat /\ DOMAIN a = 1..Len(a) /\ DOMAIN b = 1..Len(b)
      /\ DOMAIN (a \o b) = 1..Len(a) + Len(b)
      OBVIOUS
<1>2. /\ \A i \in 1..Len(a) : (a \o b)[i] = a[i]
      /\ \A j \in 1..Len(b) : (a \o b)[Len(a) + j] = b[j]
      BY JoinAt
<1>3. IsFiniteSet(A) /\ IsFiniteSet(B) BY TimesType
<1>4. C = A \cup D BY <1>1, <1>2
<1>5. A \cap D = {} BY <1>1
<1>6. IsFiniteSet(D) /\ Cardinality(D) = Cardinality(B)
  <2> DEFINE f == [j \in B |-> Len(a) + j]
  <2>1. f \in [B -> D] BY <1>1, <1>2
  <2>2. \A x, y \in B : f[x] = f[y] => x = y BY <1>1
  <2>3. ASSUME NEW d \in D PROVE \E x \in B : f[x] = d
    <3>1. d \in 1..Len(a) + Len(b) /\ d > Len(a) BY <1>1
    <3>2. PICK x \in 1..Len(b) : d = Len(a) + x
      <4>1. d - Len(a) \in 1..Len(b) /\ d = Len(a) + (d - Len(a)) BY <1>1, <3>1
      <4> QED BY <4>1
    <3>3. x \in B BY <1>1, <1>2, <3>2
    <3> QED BY <3>2, <3>3
  <2> HIDE DEF f, B, D
  <2> QED BY <1>3, <2>1, <2>2, <2>3, Matched
<1> HIDE DEF A, B, C, D
<1>7. Cardinality(C) = Cardinality(A) + Cardinality(D) BY <1>3, <1>4, <1>5, <1>6, Apart
<1> QED BY <1>6, <1>7 DEF Times, A, B, C

\* One thread's part of the pairs that EachBlockOnce counts.
LEMMA PairsOf ==
    ASSUME NEW t \in Threads, NEW S, NEW a \in Seq(S), Len(a) <= BatchMax, NEW s,
           NEW A, A = {p \in Threads \X (1..BatchMax) : p[1] = t /\ p[2] <= Len(a) /\ a[p[2]] = s}
    PROVE  IsFiniteSet(A) /\ Cardinality(A) = Times(s, a)
<1> DEFINE B == {i \in DOMAIN a : a[i] = s}
           f == [i \in B |-> <<t, i>>]
<1>1. Len(a) \in Nat /\ DOMAIN a = 1..Len(a) /\ BatchMax \in Nat BY QueueAssumption
<1>2. IsFiniteSet(B) BY TimesType
<1>3. ASSUME NEW i \in B PROVE <<t, i>> \in A
  <2>1. i \in 1..BatchMax /\ i <= Len(a) /\ a[i] = s BY <1>1
  <2>2. <<t, i>> \in Threads \X (1..BatchMax) /\ <<t, i>>[1] = t /\ <<t, i>>[2] = i BY <2>1
  <2> QED BY <2>1, <2>2
<1>4. f \in [B -> A] BY <1>3
<1>5. \A x, y \in B : f[x] = f[y] => x = y OBVIOUS
<1>6. ASSUME NEW p \in A PROVE \E x \in B : f[x] = p
  <2>1. p \in Threads \X (1..BatchMax) /\ p[1] = t /\ p[2] <= Len(a) /\ a[p[2]] = s OBVIOUS
  <2>2. p = <<p[1], p[2]>> /\ p[2] \in 1..BatchMax BY <2>1
  <2>3. p[2] \in B BY <1>1, <2>1, <2>2
  <2>4. f[p[2]] = p BY <2>1, <2>2, <2>3
  <2> QED BY <2>3, <2>4
<1> HIDE DEF f, B
<1>7. IsFiniteSet(A) /\ Cardinality(A) = Cardinality(B) BY <1>2, <1>4, <1>5, <1>6, Matched
<1> QED BY <1>7 DEF Times, B

\* The pairs of one thread and a number up to n.
LEMMA PairsUpTo ==
    ASSUME NEW t \in Threads, NEW n \in Nat, n <= BatchMax,
           NEW A, A = {p \in Threads \X (1..BatchMax) : p[1] = t /\ p[2] <= n}
    PROVE  IsFiniteSet(A) /\ Cardinality(A) = n
<1> DEFINE f == [i \in 1..n |-> <<t, i>>]
<1>1. BatchMax \in Nat BY QueueAssumption
<1>2. IsFiniteSet(1..n) /\ Cardinality(1..n) = n BY FS_Interval
<1>3. ASSUME NEW i \in 1..n PROVE <<t, i>> \in A
  <2>1. i \in 1..BatchMax /\ i <= n BY <1>1
  <2>2. <<t, i>> \in Threads \X (1..BatchMax) /\ <<t, i>>[1] = t /\ <<t, i>>[2] = i BY <2>1
  <2> QED BY <2>1, <2>2
<1>4. f \in [1..n -> A] BY <1>3
<1>5. \A x, y \in 1..n : f[x] = f[y] => x = y OBVIOUS
<1>6. ASSUME NEW p \in A PROVE \E x \in 1..n : f[x] = p
  <2>1. p \in Threads \X (1..BatchMax) /\ p[1] = t /\ p[2] <= n OBVIOUS
  <2>2. p = <<p[1], p[2]>> /\ p[2] \in 1..BatchMax BY <2>1
  <2>3. p[2] \in 1..n BY <1>1, <2>1, <2>2
  <2>4. f[p[2]] = p BY <2>1, <2>2, <2>3
  <2> QED BY <2>3, <2>4
<1> DEFINE I == 1..n
<1>8. IsFiniteSet(I) /\ f \in [I -> A] /\ (\A x, y \in I : f[x] = f[y] => x = y) /\ (\A p \in A : \E x \in I : f[x] = p)
      BY <1>2, <1>4, <1>5, <1>6
<1> HIDE DEF f, I
<1>9. IsFiniteSet(A) /\ Cardinality(A) = Cardinality(I) BY <1>8, Matched
<1>7. IsFiniteSet(A) /\ Cardinality(A) = Cardinality(1..n) BY <1>9 DEF I
<1> QED BY <1>2, <1>7

LEMMA PairsFinite == IsFiniteSet(Threads \X (1..BatchMax))
<1>1. IsFiniteSet(Threads) /\ BatchMax \in Nat BY QueueAssumption
<1>2. IsFiniteSet(1..BatchMax) BY <1>1, FS_Interval
<1> QED BY <1>1, <1>2, FS_Product
-----------------------------------------------------------------------------
\* What each step does to the indices of the rings, as offsets.
Indices(r, h, p, c, l) == ph(r)' = h /\ pt(r)' = p /\ ch(r)' = c /\ ct(r)' = l
Still(r) == Indices(r, ph(r), pt(r), ch(r), ct(r))

\* The step of t takes its call on r from one place to another.
Goes(t, r, op, from, to) ==
    /\ Reserved(t, op, r) /\ th[t].call.at = from /\ th'[t].call.at = to
    /\ Same(t, th[t].call) /\ start(t)' = start(t) /\ end(t)' = end(t)
    /\ \A q \in Rings \ {r} : Still(q)

Reserves(t, r) == Goes(t, r, "push", "cas", "copy") /\ start(t) = ph(r) /\ Indices(r, end(t), pt(r), ch(r), ct(r))
Copies(t, r) == Goes(t, r, "push", "copy", "tail") /\ Still(r)
Publishes(t, r) == Goes(t, r, "push", "tail", "num") /\ start(t) = pt(r) /\ Indices(r, ph(r), end(t), ch(r), ct(r))
Takes(t, r) == Goes(t, r, "pop", "cas", "copy") /\ start(t) = ch(r) /\ Indices(r, ph(r), pt(r), end(t), ct(r))
Fetches(t, r) == Goes(t, r, "pop", "copy", "tail") /\ Still(r)
Releases(t, r) == Goes(t, r, "pop", "tail", "num") /\ start(t) = ct(r) /\ Indices(r, ph(r), pt(r), ch(r), end(t))

\* The other steps move no index, and t has no places before or after.
Quiet(t) ==
    /\ \A r \in Rings : Still(r)
    /\ th'[t].hand = th[t].hand
    /\ th[t].call.at \notin {"copy", "tail"} /\ th'[t].call.at \notin {"copy", "tail"}
    /\ th[t].call.op = "none" \/ th[t].call.at \in {"head", "check", "cas", "num"}

LEMMA StillSame ==
    ASSUME SameRings
    PROVE  \A r \in Rings : Still(r)
BY SameView DEF Still, Indices

LEMMA NumSame ==
    ASSUME QInv, NEW t \in Threads, ring_mpush_num(t) \/ ring_mpop_num(t)
    PROVE  SameRings /\ th' = Return(t) /\ th[t].call.at = "num"
<1>1. PICK r \in Rings : r = th[t].call.r BY ThreadFacts
<1>2. \E k : rq' = [rq EXCEPT ![r].num = k] BY <1>1 DEF ring_mpush_num, ring_mpop_num
<1>3. rq \in [Rings -> RingType] BY DEF QInv, QTyped
<1> QED BY <1>2, <1>3 DEF RingType, SameRings, ring_mpush_num, ring_mpop_num, At

LEMMA PushCasKind ==
    ASSUME QInv, NEW t \in Threads, ring_mpush_cas(t), NEW r \in Rings, r = th[t].call.r
    PROVE  (th' = Goto(t, "head") /\ rq' = rq) \/ (th' = Goto(t, "copy") /\ Reserves(t, r))
<1>2. th[t].call.op = "push" /\ th[t].call.at = "cas" /\ atomic32_cmp_and_set(t, "phead") BY DEF ring_mpush_cas, At
<1>3. CASE /\ th' = Goto(t, "copy")
           /\ rq[r]["phead"] = th[t].call.head
           /\ rq' = [rq EXCEPT ![r] = [rq[r] EXCEPT !["phead"] = Add(th[t].call.head, th[t].call.n)]]
  <2>1. PICK h \in Index, n \in Nat : h = th[t].call.head /\ n = th[t].call.n BY ThreadFacts
  <2>2. start(t) = Off(h) /\ start(t) = ph(r) /\ end(t) = Off(h) + n /\ start(t) \in Nat /\ Off(h) \in Nat
        BY <1>3, <2>1, ThreadFacts DEF start, ph
  <2>3. PushRight(t, r) BY <1>2 DEF QInv, CallRight
  <2>4. end(t) <= ct(r) + RingMax BY <1>2, <2>3 DEF PushRight
  <2>5. ct(r) \in Nat /\ ph(r) \in Nat /\ ct(r) <= ph(r) /\ RingMax \in Nat /\ Width \in Nat /\ ph(r) + RingMax < Width BY RingFacts
  <2>20. ph(r) + n <= ct(r) + RingMax BY ONLY <2>2, <2>4
  <2>21. ph(r) + n < Width BY ONLY <2>5, <2>20, n \in Nat
  <2>6. Off(h) + n < Width BY ONLY <2>2, <2>21
  <2>7. Add(h, n) \in Index /\ Off(Add(h, n)) = end(t) BY <2>2, <2>6, OffAdd
  <2>8. /\ rq'[r].phead = Add(h, n) /\ rq'[r].ptail = rq[r].ptail /\ rq'[r].chead = rq[r].chead
        /\ rq'[r].ctail = rq[r].ctail /\ \A q \in Rings \ {r} : rq'[q] = rq[q]
        BY <1>3, <2>1, <2>7, PheadSet, ZenonT(60)
  <2>9. Indices(r, end(t), pt(r), ch(r), ct(r)) BY <2>7, <2>8 DEF Indices, ph, pt, ch, ct
  <2>10. \A q \in Rings \ {r} : Still(q) BY <2>8, OtherRings DEF Still, Indices
  <2>11. Same(t, th[t].call) /\ th'[t].call.at = "copy" /\ th'[t].call.head = th[t].call.head BY <1>3, Gone DEF Ats
  <2>12. start(t)' = start(t) /\ end(t)' = end(t) BY <2>11 DEF start, end, Same
  <2> QED BY <1>2, <1>3, <2>2, <2>9, <2>10, <2>11, <2>12 DEF Reserves, Goes, Reserved
<1> QED BY <1>2, <1>3, CasMoves

LEMMA PopCasKind ==
    ASSUME QInv, NEW t \in Threads, ring_mpop_cas(t), NEW r \in Rings, r = th[t].call.r
    PROVE  (th' = Goto(t, "head") /\ rq' = rq) \/ (th' = Goto(t, "copy") /\ Takes(t, r))
<1>2. th[t].call.op = "pop" /\ th[t].call.at = "cas" /\ atomic32_cmp_and_set(t, "chead") BY DEF ring_mpop_cas, At
<1>3. CASE /\ th' = Goto(t, "copy")
           /\ rq[r]["chead"] = th[t].call.head
           /\ rq' = [rq EXCEPT ![r] = [rq[r] EXCEPT !["chead"] = Add(th[t].call.head, th[t].call.n)]]
  <2>1. PICK h \in Index, n \in Nat : h = th[t].call.head /\ n = th[t].call.n BY ThreadFacts
  <2>2. start(t) = Off(h) /\ start(t) = ch(r) /\ end(t) = Off(h) + n /\ start(t) \in Nat /\ Off(h) \in Nat
        BY <1>3, <2>1, ThreadFacts DEF start, ch
  <2>3. PopRight(t, r) BY <1>2 DEF QInv, CallRight
  <2>4. end(t) <= pt(r) BY <1>2, <2>3 DEF PopRight
  <2>5. pt(r) \in Nat /\ ph(r) \in Nat /\ pt(r) <= ph(r) /\ RingMax \in Nat /\ Width \in Nat /\ ph(r) + RingMax < Width BY RingFacts
  <2>20. ch(r) + n <= pt(r) BY ONLY <2>2, <2>4
  <2>22. ch(r) \in Nat BY RingFacts
  <2>21. ch(r) + n < Width BY ONLY <2>5, <2>20, <2>22, n \in Nat
  <2>6. Off(h) + n < Width BY ONLY <2>2, <2>21
  <2>7. Add(h, n) \in Index /\ Off(Add(h, n)) = end(t) BY <2>2, <2>6, OffAdd
  <2>8. /\ rq'[r].chead = Add(h, n) /\ rq'[r].ptail = rq[r].ptail /\ rq'[r].phead = rq[r].phead
        /\ rq'[r].ctail = rq[r].ctail /\ \A q \in Rings \ {r} : rq'[q] = rq[q]
        BY <1>3, <2>1, <2>7, CheadSet, ZenonT(60)
  <2>9. Indices(r, ph(r), pt(r), end(t), ct(r)) BY <2>7, <2>8 DEF Indices, ph, pt, ch, ct
  <2>10. \A q \in Rings \ {r} : Still(q) BY <2>8, OtherRings DEF Still, Indices
  <2>11. Same(t, th[t].call) /\ th'[t].call.at = "copy" /\ th'[t].call.head = th[t].call.head BY <1>3, Gone DEF Ats
  <2>12. start(t)' = start(t) /\ end(t)' = end(t) BY <2>11 DEF start, end, Same
  <2> QED BY <1>2, <1>3, <2>2, <2>9, <2>10, <2>11, <2>12 DEF Takes, Goes, Reserved
<1> QED BY <1>2, <1>3, CasMoves

LEMMA PushCopyKind ==
    ASSUME QInv, NEW t \in Threads, ring_mpush_copy(t), NEW r \in Rings, r = th[t].call.r
    PROVE  Copies(t, r) /\ th'[t].hand = th[t].hand
<1>1. th[t].call.op = "push" /\ th[t].call.at = "copy" /\ th' = Goto(t, "tail") BY DEF ring_mpush_copy, At
<1>2. Same(t, th[t].call) /\ th'[t].call.at = "tail" /\ th'[t].call.head = th[t].call.head /\ th'[t].hand = th[t].hand
      BY <1>1, Gone DEF Ats
<1>3. start(t)' = start(t) /\ end(t)' = end(t) BY <1>2 DEF start, end, Same
<1>4. \A q \in Rings : Still(q) BY PushCopyHolds DEF Still, Indices
<1> QED BY <1>1, <1>2, <1>3, <1>4 DEF Copies, Goes, Reserved

LEMMA PopCopyKind ==
    ASSUME QInv, NEW t \in Threads, ring_mpop_copy(t), NEW r \in Rings, r = th[t].call.r
    PROVE  Fetches(t, r)
<1>1. th[t].call.op = "pop" /\ th[t].call.at = "copy" /\ rq' = rq BY DEF ring_mpop_copy, At
<1>2. th \in [Threads -> ThreadType] /\ th[t] \in ThreadType BY DEF QInv, QTyped
<1>3. Same(t, th[t].call) /\ th'[t].call.at = "tail" /\ th'[t].call.head = th[t].call.head
      BY <1>2 DEF ring_mpop_copy, Goto, Same, ThreadType, CallType
<1>4. start(t)' = start(t) /\ end(t)' = end(t) BY <1>3 DEF start, end, Same
<1>5. \A q \in Rings : Still(q) BY <1>1, SameRq, StillSame
<1> QED BY <1>1, <1>3, <1>4, <1>5 DEF Fetches, Goes, Reserved

LEMMA PushTailKind ==
    ASSUME QInv, NEW t \in Threads, ring_mpush_tail(t), NEW r \in Rings, r = th[t].call.r
    PROVE  Publishes(t, r) /\ th'[t].hand = SubSeq(th[t].hand, th[t].call.n + 1, Len(th[t].hand))
<1>1. /\ start(t) = pt(r) /\ pt(r)' = end(t) /\ ch(r)' = ch(r) /\ \A q \in Rings \ {r} : rq'[q] = rq[q]
      /\ th'[t].call.at = "num" /\ Same(t, th[t].call)
      BY PushTailHolds
<1>2. th[t].call.op = "push" /\ th[t].call.at = "tail" BY DEF ring_mpush_tail, At
<1>3. rq \in [Rings -> RingType] /\ rq[r] \in RingType /\ \E k : rq' = [rq EXCEPT ![r].ptail = k]
      BY DEF QInv, QTyped, ring_mpush_tail
<1>4. rq'[r].phead = rq[r].phead /\ rq'[r].ctail = rq[r].ctail BY <1>3 DEF RingType
<1>5. Indices(r, ph(r), end(t), ch(r), ct(r)) BY <1>1, <1>4 DEF Indices, ph, ct
<1>6. \A q \in Rings \ {r} : Still(q) BY <1>1, OtherRings DEF Still, Indices
<1>7. th \in [Threads -> ThreadType] /\ th[t] \in ThreadType BY DEF QInv, QTyped
<1>8. /\ th'[t].call.head = th[t].call.head
      /\ th'[t].hand = SubSeq(th[t].hand, th[t].call.n + 1, Len(th[t].hand))
      BY <1>7 DEF ring_mpush_tail, Goto, ThreadType, CallType
<1>9. start(t)' = start(t) /\ end(t)' = end(t) BY <1>1, <1>8 DEF start, end, Same
<1> QED BY <1>1, <1>2, <1>5, <1>6, <1>8, <1>9 DEF Publishes, Goes, Reserved

LEMMA PopTailKind ==
    ASSUME QInv, NEW t \in Threads, ring_mpop_tail(t), NEW r \in Rings, r = th[t].call.r
    PROVE  Releases(t, r) /\ th'[t].hand = th[t].hand
<1>1. th[t].call.op = "pop" /\ th[t].call.at = "tail" /\ th' = Goto(t, "num") /\ rq[r].ctail = th[t].call.head
      BY DEF ring_mpop_tail, ring_mpop_wait, At
<1>2. Same(t, th[t].call) /\ th'[t].call.at = "num" /\ th'[t].call.head = th[t].call.head /\ th'[t].hand = th[t].hand
      BY <1>1, Gone DEF Ats
<1>3. PICK h \in Index, n \in Nat : h = th[t].call.head /\ n = th[t].call.n BY ThreadFacts
<1>4. start(t) = Off(h) /\ start(t) = ct(r) /\ end(t) = Off(h) + n /\ start(t) \in Nat /\ Off(h) \in Nat
      BY <1>1, <1>3, ThreadFacts DEF start, ct
<1>5. PopRight(t, r) BY <1>1 DEF QInv, CallRight
<1>6. end(t) <= ch(r) BY <1>1, <1>5 DEF PopRight
<1>7. /\ ch(r) \in Nat /\ pt(r) \in Nat /\ ph(r) \in Nat /\ ch(r) <= pt(r) /\ pt(r) <= ph(r)
      /\ RingMax \in Nat /\ Width \in Nat /\ ph(r) + RingMax < Width
      BY RingFacts
<1>20. ct(r) + n <= ch(r) BY ONLY <1>4, <1>6
<1>21. ct(r) \in Nat BY RingFacts
<1>22. ct(r) + n < Width BY ONLY <1>7, <1>20, <1>21, n \in Nat
<1>8. Off(h) + n < Width BY ONLY <1>4, <1>22
<1>9. Add(h, n) \in Index /\ Off(Add(h, n)) = end(t) BY <1>4, <1>8, OffAdd
<1>10. rq' = [rq EXCEPT ![r].ctail = Add(h, n)] BY <1>3 DEF ring_mpop_tail
<1>11. /\ rq'[r].ctail = Add(h, n) /\ rq'[r].ptail = rq[r].ptail /\ rq'[r].phead = rq[r].phead
       /\ rq'[r].chead = rq[r].chead /\ \A q \in Rings \ {r} : rq'[q] = rq[q]
       BY <1>9, <1>10, CtailSet
<1>12. Indices(r, ph(r), pt(r), ch(r), end(t)) BY <1>9, <1>11 DEF Indices, ph, pt, ch, ct
<1>13. \A q \in Rings \ {r} : Still(q) BY <1>11, OtherRings DEF Still, Indices
<1>14. start(t)' = start(t) /\ end(t)' = end(t) BY <1>2 DEF start, end, Same
<1> QED BY <1>1, <1>2, <1>4, <1>12, <1>13, <1>14 DEF Releases, Goes, Reserved
-----------------------------------------------------------------------------
ItemsKept == \A r \in Rings : \A d \in ct(r)..pt(r) - 1 : Item(r, d)' = Item(r, d)

SameHand(t) == th'[t].hand = th[t].hand

Kind(t) ==
    \/ Quiet(t)
    \/ \E r \in Rings :
          \/ Reserves(t, r) /\ SameHand(t)
          \/ Copies(t, r) /\ SameHand(t)
          \/ /\ Publishes(t, r) /\ th'[t].hand = SubSeq(th[t].hand, th[t].call.n + 1, Len(th[t].hand))
             /\ Contents(r)' = Contents(r) \o Batch(t)
          \/ Takes(t, r) /\ SameHand(t) /\ Contents(r) = Read(t)' \o Contents(r)'
          \/ Fetches(t, r) /\ th'[t].hand = th[t].hand \o Read(t)
          \/ Releases(t, r) /\ SameHand(t)

LEMMA QuietBy ==
    ASSUME QInv, NEW t \in Threads, SameRings, SameHand(t), \A u \in Threads \ {t} : th'[u] = th[u],
           th[t].call = Idle \/ th[t].call.at \in {"head", "check", "cas", "num"},
           th'[t].call = Idle \/ th'[t].call.at \in {"head", "check", "cas"}
    PROVE  Quiet(t) /\ ItemsKept
<1>1. \A r \in Rings : Still(r) BY StillSame
<1>2. ItemsKept BY SameView DEF ItemsKept
<1> QED BY <1>1, <1>2 DEF Quiet, Idle, SameHand

\* Every step is of one of these kinds.
LEMMA Kinds ==
    ASSUME QInv, QInv', NEW t \in Threads, Caller(t) \/ ring_mpush(t) \/ ring_mpop(t)
    PROVE  (\A u \in Threads \ {t} : th'[u] = th[u]) /\ ItemsKept /\ Kind(t)
<1>1. PICK r \in Rings : r = th[t].call.r BY ThreadFacts
<1>2. CASE Caller(t)
  <2>1. PICK op \in {"push", "pop"}, q \in Rings, n \in 0..BatchMax : Call(t, op, q, n) BY <1>2, CallerIs
  <2>2. /\ rq' = rq /\ th[t].call = Idle /\ th'[t].hand = th[t].hand
        /\ th'[t].call = [op |-> op, at |-> "head", r |-> q, n |-> n, head |-> 0]
        /\ \A u \in Threads \ {t} : th'[u] = th[u]
        BY <2>1, Begun
  <2>3. th'[t].call.at = "head" BY <2>2
  <2>4. Quiet(t) /\ ItemsKept BY <2>2, <2>3, SameRq, QuietBy DEF SameHand
  <2> QED BY <2>2, <2>4 DEF Kind
<1>3. CASE ring_mpush_head(t) \/ ring_mpop_head(t)
  <2>1. rq' = rq /\ th[t].call.at = "head" BY <1>3 DEF ring_mpush_head, ring_mpop_head, At
  <2>2. PICK h \in Index : th' = HeadAt(t, h)
    <3>1. rq[r].phead \in Index /\ rq[r].chead \in Index BY RingFacts
    <3> QED BY <1>1, <1>3, <3>1 DEF ring_mpush_head, ring_mpop_head, HeadAt
  <2>3. th'[t].call.at = "check" /\ th'[t].hand = th[t].hand /\ \A u \in Threads \ {t} : th'[u] = th[u]
        BY <2>2, HeadRead
  <2>4. Quiet(t) /\ ItemsKept BY <2>1, <2>3, SameRq, QuietBy DEF SameHand
  <2> QED BY <2>3, <2>4 DEF Kind
<1>4. ASSUME th' = Goto(t, "head") \/ th' = Goto(t, "cas"), rq' = rq, th[t].call.at \in {"check", "cas"}
      PROVE  (\A u \in Threads \ {t} : th'[u] = th[u]) /\ ItemsKept /\ Kind(t)
  <2>1. th'[t].call.at \in {"head", "cas"} /\ th'[t].hand = th[t].hand /\ \A u \in Threads \ {t} : th'[u] = th[u]
        BY <1>4, Gone DEF Ats
  <2>2. Quiet(t) /\ ItemsKept BY <1>4, <2>1, SameRq, QuietBy DEF SameHand
  <2> QED BY <2>1, <2>2 DEF Kind
<1>5. ASSUME th' = [Return(t) EXCEPT ![t].refused = TRUE] \/ th' = Return(t), SameRings,
             th[t].call.at \in {"check", "num"}
      PROVE  (\A u \in Threads \ {t} : th'[u] = th[u]) /\ ItemsKept /\ Kind(t)
  <2>1. th'[t].call = Idle /\ th'[t].hand = th[t].hand /\ \A u \in Threads \ {t} : th'[u] = th[u]
        BY <1>5, Ended
  <2>2. Quiet(t) /\ ItemsKept BY <1>5, <2>1, QuietBy DEF SameHand
  <2> QED BY <2>1, <2>2 DEF Kind
<1>6. CASE ring_mpush_check(t) \/ ring_mpop_check(t)
  <2>1. th[t].call.at = "check" /\ rq' = rq BY <1>6 DEF ring_mpush_check, ring_mpop_check, At
  <2>2. th' = Goto(t, "cas") \/ th' = [Return(t) EXCEPT ![t].refused = TRUE] \/ th' = Return(t)
        BY <1>6 DEF ring_mpush_check, ring_mpop_check
  <2> QED BY <1>4, <1>5, <2>1, <2>2, SameRq
<1>7. CASE ring_mpush_num(t) \/ ring_mpop_num(t) BY <1>5, <1>7, NumSame
<1>8. ASSUME th' = Goto(t, "copy") PROVE SameHand(t) /\ \A u \in Threads \ {t} : th'[u] = th[u]
      BY <1>8, Gone DEF Ats, SameHand
<1>9. ASSUME \E k, f : rq' = [rq EXCEPT ![r] = [rq[r] EXCEPT ![f] = k]] /\ f # "data" PROVE ItemsKept
  <2>1. rq \in [Rings -> RingType] BY DEF QInv, QTyped
  <2>2. \A q \in Rings : rq'[q].data = rq[q].data BY <1>9, <2>1 DEF RingType
  <2> QED BY <2>2 DEF ItemsKept, Item
<1>10. CASE ring_mpush_cas(t)
  <2>1. CASE th' = Goto(t, "head") /\ rq' = rq BY <1>4, <1>10, <2>1 DEF ring_mpush_cas, At
  <2>2. CASE th' = Goto(t, "copy") /\ Reserves(t, r)
    <3>1. th[t].call.at = "cas" BY <1>10 DEF ring_mpush_cas, At
    <3>2. ItemsKept
      <4>1. atomic32_cmp_and_set(t, "phead") BY <1>10 DEF ring_mpush_cas
      <4>2. \/ rq' = rq
            \/ rq' = [rq EXCEPT ![r] = [rq[r] EXCEPT !["phead"] = Add(th[t].call.head, th[t].call.n)]]
            BY <1>1, <4>1, CasMoves
      <4>3. rq' = rq => ItemsKept BY SameRq, SameView DEF ItemsKept
      <4> QED BY <1>9, <4>2, <4>3
    <3> QED BY <1>8, <2>2, <3>2 DEF Kind
  <2> QED BY <1>1, <1>10, <2>1, <2>2, PushCasKind
<1>11. CASE ring_mpop_cas(t)
  <2>1. CASE th' = Goto(t, "head") /\ rq' = rq BY <1>4, <1>11, <2>1 DEF ring_mpop_cas, At
  <2>2. CASE th' = Goto(t, "copy") /\ Takes(t, r)
    <3>2. ItemsKept
      <4>1. atomic32_cmp_and_set(t, "chead") BY <1>11 DEF ring_mpop_cas
      <4>2. \/ rq' = rq
            \/ rq' = [rq EXCEPT ![r] = [rq[r] EXCEPT !["chead"] = Add(th[t].call.head, th[t].call.n)]]
            BY <1>1, <4>1, CasMoves
      <4>3. rq' = rq => ItemsKept BY SameRq, SameView DEF ItemsKept
      <4> QED BY <1>9, <4>2, <4>3
    <3>3. Contents(r) = Read(t)' \o Contents(r)' BY <1>1, <1>11, <2>2, PopCasFifo
    <3> QED BY <1>8, <2>2, <3>2, <3>3 DEF Kind
  <2> QED BY <1>1, <1>11, <2>1, <2>2, PopCasKind
<1>12. CASE ring_mpush_copy(t)
  <2>1. Copies(t, r) /\ SameHand(t) BY <1>1, <1>12, PushCopyKind DEF SameHand
  <2>2. ItemsKept BY <1>12, PushCopyHolds DEF ItemsKept
  <2>3. th' = Goto(t, "tail") BY <1>12 DEF ring_mpush_copy
  <2>4. \A u \in Threads \ {t} : th'[u] = th[u] BY <2>3, Gone DEF Ats
  <2> QED BY <2>1, <2>2, <2>4 DEF Kind
<1>13. CASE ring_mpush_tail(t)
  <2>1. Publishes(t, r) /\ th'[t].hand = SubSeq(th[t].hand, th[t].call.n + 1, Len(th[t].hand))
        BY <1>1, <1>13, PushTailKind
  <2>2. /\ \A d : Item(r, d)' = Item(r, d)
        /\ \A q \in Rings \ {r} : rq'[q] = rq[q]
        /\ \A u \in Threads \ {t} : th'[u] = th[u]
        BY <1>1, <1>13, PushTailHolds
  <2>3. ItemsKept BY <2>2, OtherRings DEF ItemsKept
  <2>4. Contents(r)' = Contents(r) \o Batch(t) BY <1>1, <1>13, PushTailFifo
  <2> QED BY <2>1, <2>2, <2>3, <2>4 DEF Kind
<1>14. CASE ring_mpop_copy(t)
  <2>1. Fetches(t, r) BY <1>1, <1>14, PopCopyKind
  <2>2. th'[t].hand = th[t].hand \o Read(t) BY <1>14, PopCopyHolds
  <2>3. rq' = rq BY <1>14 DEF ring_mpop_copy
  <2>4. ItemsKept BY <2>3, SameRq, SameView DEF ItemsKept
  <2>5. th \in [Threads -> ThreadType] BY DEF QInv, QTyped
  <2>6. \A u \in Threads \ {t} : th'[u] = th[u] BY <1>14, <2>5 DEF ring_mpop_copy, Goto
  <2> QED BY <2>1, <2>2, <2>4, <2>6 DEF Kind
<1>15. CASE ring_mpop_tail(t)
  <2>1. Releases(t, r) /\ SameHand(t) BY <1>1, <1>15, PopTailKind DEF SameHand
  <2>2. th' = Goto(t, "num") BY <1>15 DEF ring_mpop_tail
  <2>3. \A u \in Threads \ {t} : th'[u] = th[u] BY <2>2, Gone DEF Ats
  <2>4. \E k : rq' = [rq EXCEPT ![r].ctail = k] BY <1>1, <1>15 DEF ring_mpop_tail
  <2>5. rq \in [Rings -> RingType] BY DEF QInv, QTyped
  <2>6. \A q \in Rings : rq'[q].data = rq[q].data BY <2>4, <2>5 DEF RingType
  <2>7. ItemsKept BY <2>6 DEF ItemsKept, Item
  <2> QED BY <2>1, <2>3, <2>7 DEF Kind
<1> QED BY <1>2, <1>3, <1>6, <1>7, <1>10, <1>11, <1>12, <1>13, <1>14, <1>15 DEF ring_mpush, ring_mpop
-----------------------------------------------------------------------------
LEMMA CoverPush ==
    ASSUME NEW t \in Threads, \A u \in Threads \ {t} : th'[u] = th[u], NEW q \in Rings, Covered(q),
           NEW d, \/ Has(t, "push", q)' /\ d \in start(t)'..end(t)' - 1
                  \/ d \in pt(q)..ph(q) - 1 /\ ~(Has(t, "push", q) /\ d \in start(t)..end(t) - 1)
    PROVE  \E u \in Threads : Has(u, "push", q)' /\ d \in start(u)'..end(u)' - 1
<1>1. CASE Has(t, "push", q)' /\ d \in start(t)'..end(t)' - 1 BY <1>1
<1>2. CASE d \in pt(q)..ph(q) - 1 /\ ~(Has(t, "push", q) /\ d \in start(t)..end(t) - 1)
  <2>1. PICK u \in Threads : Has(u, "push", q) /\ d \in start(u)..end(u) - 1 BY <1>2 DEF Covered
  <2>2. u # t BY <1>2, <2>1
  <2>3. th'[u] = th[u] BY <2>2
  <2>4. Has(u, "push", q)' /\ start(u)' = start(u) /\ end(u)' = end(u) BY <2>1, <2>3 DEF Has, Reserved, start, end
  <2> QED BY <2>1, <2>4
<1> QED BY <1>1, <1>2

LEMMA CoverPop ==
    ASSUME NEW t \in Threads, \A u \in Threads \ {t} : th'[u] = th[u], NEW q \in Rings, Covered(q),
           NEW d, \/ Has(t, "pop", q)' /\ d \in start(t)'..end(t)' - 1
                  \/ d \in ct(q)..ch(q) - 1 /\ ~(Has(t, "pop", q) /\ d \in start(t)..end(t) - 1)
    PROVE  \E u \in Threads : Has(u, "pop", q)' /\ d \in start(u)'..end(u)' - 1
<1>1. CASE Has(t, "pop", q)' /\ d \in start(t)'..end(t)' - 1 BY <1>1
<1>2. CASE d \in ct(q)..ch(q) - 1 /\ ~(Has(t, "pop", q) /\ d \in start(t)..end(t) - 1)
  <2>1. PICK u \in Threads : Has(u, "pop", q) /\ d \in start(u)..end(u) - 1 BY <1>2 DEF Covered
  <2>2. u # t BY <1>2, <2>1
  <2>3. th'[u] = th[u] BY <2>2
  <2>4. Has(u, "pop", q)' /\ start(u)' = start(u) /\ end(u)' = end(u) BY <2>1, <2>3 DEF Has, Reserved, start, end
  <2> QED BY <2>1, <2>4
<1> QED BY <1>1, <1>2

\* Whose places are whose, before and after a step.
LEMMA GoesHas ==
    ASSUME NEW t, NEW r, NEW op, NEW from, NEW to, Goes(t, r, op, from, to), NEW o, NEW q
    PROVE  /\ Has(t, o, q) <=> o = op /\ q = r /\ from \in {"copy", "tail"}
           /\ Has(t, o, q)' <=> o = op /\ q = r /\ to \in {"copy", "tail"}
BY DEF Goes, Has, Reserved, Same

LEMMA CoveredKept ==
    ASSUME QInv, NEW t \in Threads, \A u \in Threads \ {t} : th'[u] = th[u], Kind(t),
           NEW q \in Rings, Covered(q)
    PROVE  Covered(q)'
<1>1. /\ ph(q) \in Nat /\ pt(q) \in Nat /\ ch(q) \in Nat /\ ct(q) \in Nat
      /\ ct(q) <= ch(q) /\ ch(q) <= pt(q) /\ pt(q) <= ph(q)
      /\ start(t) \in Nat /\ end(t) = start(t) + th[t].call.n /\ th[t].call.n \in Nat
      BY RingFacts, ThreadFacts
<1> USE DEF Indices, Still
<1> SUFFICES
      /\ \A d \in pt(q)'..ph(q)' - 1 :
            \/ Has(t, "push", q)' /\ d \in start(t)'..end(t)' - 1
            \/ d \in pt(q)..ph(q) - 1 /\ ~(Has(t, "push", q) /\ d \in start(t)..end(t) - 1)
      /\ \A d \in ct(q)'..ch(q)' - 1 :
            \/ Has(t, "pop", q)' /\ d \in start(t)'..end(t)' - 1
            \/ d \in ct(q)..ch(q) - 1 /\ ~(Has(t, "pop", q) /\ d \in start(t)..end(t) - 1)
  <2>1. \A d \in pt(q)'..ph(q)' - 1 : \E u \in Threads : Has(u, "push", q)' /\ d \in start(u)'..end(u)' - 1
        BY CoverPush
  <2>2. \A d \in ct(q)'..ch(q)' - 1 : \E u \in Threads : Has(u, "pop", q)' /\ d \in start(u)'..end(u)' - 1
        BY CoverPop
  <2> QED BY <2>1, <2>2 DEF Covered
<1>2. CASE Quiet(t) BY <1>1, <1>2, Places DEF Quiet
<1>3. ASSUME NEW r \in Rings, NEW op \in {"push", "pop"}, NEW from, NEW to, Goes(t, r, op, from, to)
      PROVE  /\ start(t)' = start(t) /\ end(t)' = end(t)
             /\ q # r => Still(q) /\ \A o : ~Has(t, o, q)
      BY <1>3, GoesHas DEF Goes
<1>4. CASE \E r \in Rings : Reserves(t, r)
  <2>1. PICK r \in Rings : Reserves(t, r) BY <1>4
  <2>2. Goes(t, r, "push", "cas", "copy") BY <2>1 DEF Reserves
  <2>3. CASE q # r BY <1>1, <1>3, <2>2, <2>3
  <2>4. CASE q = r
    <3>1. \A o : Has(t, o, q) <=> o = "push" /\ "cas" \in {"copy", "tail"} BY <2>2, <2>4, GoesHas
    <3>2. \A o : Has(t, o, q)' <=> o = "push" /\ "copy" \in {"copy", "tail"} BY <2>2, <2>4, GoesHas
    <3>3. start(t)' = start(t) /\ end(t)' = end(t) BY <1>3, <2>2
    <3> QED BY <1>1, <2>1, <2>4, <3>1, <3>2, <3>3 DEF Reserves
  <2> QED BY <2>3, <2>4
<1>5. CASE \E r \in Rings : Copies(t, r)
  <2>1. PICK r \in Rings : Copies(t, r) BY <1>5
  <2>2. Goes(t, r, "push", "copy", "tail") BY <2>1 DEF Copies
  <2>3. CASE q # r BY <1>1, <1>3, <2>2, <2>3
  <2>4. CASE q = r
    <3>1. \A o : Has(t, o, q) <=> o = "push" /\ "copy" \in {"copy", "tail"} BY <2>2, <2>4, GoesHas
    <3>2. \A o : Has(t, o, q)' <=> o = "push" /\ "tail" \in {"copy", "tail"} BY <2>2, <2>4, GoesHas
    <3>3. start(t)' = start(t) /\ end(t)' = end(t) BY <1>3, <2>2
    <3> QED BY <1>1, <2>1, <2>4, <3>1, <3>2, <3>3 DEF Copies
  <2> QED BY <2>3, <2>4
<1>6. CASE \E r \in Rings : Publishes(t, r)
  <2>1. PICK r \in Rings : Publishes(t, r) BY <1>6
  <2>2. Goes(t, r, "push", "tail", "num") BY <2>1 DEF Publishes
  <2>3. CASE q # r BY <1>1, <1>3, <2>2, <2>3
  <2>4. CASE q = r
    <3>1. \A o : Has(t, o, q) <=> o = "push" /\ "tail" \in {"copy", "tail"} BY <2>2, <2>4, GoesHas
    <3>2. \A o : Has(t, o, q)' <=> o = "push" /\ "num" \in {"copy", "tail"} BY <2>2, <2>4, GoesHas
    <3>3. start(t)' = start(t) /\ end(t)' = end(t) BY <1>3, <2>2
    <3> QED BY <1>1, <2>1, <2>4, <3>1, <3>2, <3>3 DEF Publishes
  <2> QED BY <2>3, <2>4
<1>7. CASE \E r \in Rings : Takes(t, r)
  <2>1. PICK r \in Rings : Takes(t, r) BY <1>7
  <2>2. Goes(t, r, "pop", "cas", "copy") BY <2>1 DEF Takes
  <2>3. CASE q # r BY <1>1, <1>3, <2>2, <2>3
  <2>4. CASE q = r
    <3>1. \A o : Has(t, o, q) <=> o = "pop" /\ "cas" \in {"copy", "tail"} BY <2>2, <2>4, GoesHas
    <3>2. \A o : Has(t, o, q)' <=> o = "pop" /\ "copy" \in {"copy", "tail"} BY <2>2, <2>4, GoesHas
    <3>3. start(t)' = start(t) /\ end(t)' = end(t) BY <1>3, <2>2
    <3> QED BY <1>1, <2>1, <2>4, <3>1, <3>2, <3>3 DEF Takes
  <2> QED BY <2>3, <2>4
<1>8. CASE \E r \in Rings : Fetches(t, r)
  <2>1. PICK r \in Rings : Fetches(t, r) BY <1>8
  <2>2. Goes(t, r, "pop", "copy", "tail") BY <2>1 DEF Fetches
  <2>3. CASE q # r BY <1>1, <1>3, <2>2, <2>3
  <2>4. CASE q = r
    <3>1. \A o : Has(t, o, q) <=> o = "pop" /\ "copy" \in {"copy", "tail"} BY <2>2, <2>4, GoesHas
    <3>2. \A o : Has(t, o, q)' <=> o = "pop" /\ "tail" \in {"copy", "tail"} BY <2>2, <2>4, GoesHas
    <3>3. start(t)' = start(t) /\ end(t)' = end(t) BY <1>3, <2>2
    <3> QED BY <1>1, <2>1, <2>4, <3>1, <3>2, <3>3 DEF Fetches
  <2> QED BY <2>3, <2>4
<1>9. CASE \E r \in Rings : Releases(t, r)
  <2>1. PICK r \in Rings : Releases(t, r) BY <1>9
  <2>2. Goes(t, r, "pop", "tail", "num") BY <2>1 DEF Releases
  <2>3. CASE q # r BY <1>1, <1>3, <2>2, <2>3
  <2>4. CASE q = r
    <3>1. \A o : Has(t, o, q) <=> o = "pop" /\ "tail" \in {"copy", "tail"} BY <2>2, <2>4, GoesHas
    <3>2. \A o : Has(t, o, q)' <=> o = "pop" /\ "num" \in {"copy", "tail"} BY <2>2, <2>4, GoesHas
    <3>3. start(t)' = start(t) /\ end(t)' = end(t) BY <1>3, <2>2
    <3> QED BY <1>1, <2>1, <2>4, <3>1, <3>2, <3>3 DEF Releases
  <2> QED BY <2>3, <2>4
<1> QED BY <1>2, <1>4, <1>5, <1>6, <1>7, <1>8, <1>9 DEF Kind
-----------------------------------------------------------------------------
\* What a thread has taken and not copied yet is blocks.
LEMMA ReadType ==
    QInv => \A t \in Threads : Taken(t) =>
        /\ Read(t) \in Seq(Slots) /\ Len(Read(t)) = th[t].call.n
        /\ Len(th[t].hand) + th[t].call.n <= BatchMax
<1> SUFFICES ASSUME QInv, NEW t \in Threads, Taken(t)
             PROVE  /\ Read(t) \in Seq(Slots) /\ Len(Read(t)) = th[t].call.n
                    /\ Len(th[t].hand) + th[t].call.n <= BatchMax
    OBVIOUS
<1>1. PICK r \in Rings, n \in Nat : r = th[t].call.r /\ n = th[t].call.n BY ThreadFacts
<1>2. th[t].call.op = "pop" /\ th[t].call.at = "copy" BY DEF Taken, At
<1>3. PopRight(t, r) BY <1>1, <1>2 DEF QInv, CallRight
<1>4. Len(th[t].hand) + n <= BatchMax /\ ct(r) <= start(t) /\ end(t) <= ch(r) BY <1>1, <1>2, <1>3 DEF PopRight
<1>5. start(t) \in Nat /\ end(t) = start(t) + n /\ ct(r) \in Nat /\ ch(r) \in Nat /\ pt(r) \in Nat /\ ch(r) <= pt(r)
      BY <1>1, ThreadFacts, RingFacts
<1>6. Read(t) = [i \in 1..n |-> Item(r, start(t) + i - 1)] BY <1>1, ReadIs
<1>7. ASSUME NEW i \in 1..n PROVE Item(r, start(t) + i - 1) \in Slots
  <2>1. start(t) + i - 1 \in ct(r)..pt(r) - 1 BY <1>4, <1>5
  <2> QED BY <2>1 DEF QInv, Stored
<1>8. Read(t) \in [1..n -> Slots] BY <1>6, <1>7
<1>9. Read(t) \in Seq(Slots) /\ Len(Read(t)) = n BY ONLY <1>8, n \in Nat
<1> QED BY <1>1, <1>4, <1>9

LEMMA ReadNext == QInv' => \A t \in Threads : Taken(t)' => Read(t)' \in Seq(Slots)
<1>1. QInv' => (\A t \in Threads : Taken(t) =>
                   /\ Read(t) \in Seq(Slots) /\ Len(Read(t)) = th[t].call.n
                   /\ Len(th[t].hand) + th[t].call.n <= BatchMax)'
      BY ReadType, PTL
<1> QED BY <1>1

\* What a thread holds is blocks, and no more than it has room for.
LEMMA HeldType ==
    QInv => \A t \in Threads : Held(t) \in Seq(Slots) /\ Len(Held(t)) <= BatchMax
<1> SUFFICES ASSUME QInv, NEW t \in Threads PROVE Held(t) \in Seq(Slots) /\ Len(Held(t)) <= BatchMax OBVIOUS
<1>1. th[t].hand \in Seq(Slots) /\ Len(th[t].hand) <= BatchMax BY ThreadFacts
<1>2. CASE ~Taken(t) BY <1>1, <1>2 DEF Held
<1>3. CASE Taken(t)
  <2>1. /\ Read(t) \in Seq(Slots) /\ Len(Read(t)) = th[t].call.n
        /\ Len(th[t].hand) + th[t].call.n <= BatchMax
        BY <1>3, ReadType
  <2>2. th[t].hand \o Read(t) \in Seq(Slots) /\ Len(th[t].hand \o Read(t)) = Len(th[t].hand) + Len(Read(t))
        BY <1>1, <2>1, JoinAt
  <2> QED BY <1>3, <2>1, <2>2 DEF Held
<1> QED BY <1>2, <1>3

LEMMA HeldNext == QInv' => \A t \in Threads : Held(t)' \in Seq(Slots) /\ Len(Held(t)') <= BatchMax
<1>1. QInv' => (\A t \in Threads : Held(t) \in Seq(Slots) /\ Len(Held(t)) <= BatchMax)' BY HeldType, PTL
<1> QED BY <1>1

\* The places where a block is with a thread: all of them, and those of all threads but one.
Hands(s) == {p \in Threads \X (1..BatchMax) : p[2] <= Len(Held(p[1])) /\ Held(p[1])[p[2]] = s}
Others(t, s) == {p \in Hands(s) : p[1] # t}

LEMMA HandsSplit ==
    QInv => \A t \in Threads, s \in Slots :
        /\ Cardinality(Hands(s)) = Times(s, Held(t)) + Cardinality(Others(t, s))
        /\ Times(s, Held(t)) \in Nat /\ Cardinality(Others(t, s)) \in Nat
<1> SUFFICES ASSUME QInv, NEW t \in Threads, NEW s \in Slots
             PROVE  /\ Cardinality(Hands(s)) = Times(s, Held(t)) + Cardinality(Others(t, s))
                    /\ Times(s, Held(t)) \in Nat /\ Cardinality(Others(t, s)) \in Nat
    OBVIOUS
<1>1. PICK a \in Seq(Slots) : a = Held(t) /\ Len(a) <= BatchMax BY HeldType
<1> DEFINE A == {p \in Threads \X (1..BatchMax) : p[1] = t /\ p[2] <= Len(a) /\ a[p[2]] = s}
<1>2. IsFiniteSet(A) /\ Cardinality(A) = Times(s, a) BY <1>1, PairsOf, SMTT(30)
<1>3. IsFiniteSet(Others(t, s))
  <2>1. Others(t, s) \in SUBSET (Threads \X (1..BatchMax)) BY DEF Others, Hands
  <2> QED BY <2>1, PairsFinite, FS_Subset
<1>4. Hands(s) = A \cup Others(t, s) BY <1>1 DEF Others, Hands
<1>5. A \cap Others(t, s) = {} BY DEF Others
<1> HIDE DEF A
<1>6. Cardinality(Hands(s)) = Cardinality(A) + Cardinality(Others(t, s)) BY <1>2, <1>3, <1>4, <1>5, Apart
<1>7. Times(s, a) \in Nat BY TimesType
<1> QED BY <1>1, <1>2, <1>3, <1>6, <1>7, FS_CardinalityType

LEMMA HandsNext ==
    QInv' => \A t \in Threads, s \in Slots :
        Cardinality(Hands(s)') = Times(s, Held(t)') + Cardinality(Others(t, s)')
<1>1. QInv' => (\A t \in Threads, s \in Slots :
                   /\ Cardinality(Hands(s)) = Times(s, Held(t)) + Cardinality(Others(t, s))
                   /\ Times(s, Held(t)) \in Nat /\ Cardinality(Others(t, s)) \in Nat)'
      BY HandsSplit, PTL
<1> QED BY <1>1 DEF Times

\* What the other threads hold does not change under a step of t.
LEMMA HeldKept ==
    ASSUME QInv, NEW u \in Threads, th'[u] = th[u], ItemsKept
    PROVE  Held(u)' = Held(u)
<1>1. CASE ~Taken(u) BY <1>1 DEF Held, Taken, At
<1>2. CASE Taken(u)
  <2>1. PICK c \in CallType : c = th[u].call BY ThreadFacts
  <2>2. PICK r \in Rings, n \in Nat, h \in Index : r = c.r /\ n = c.n /\ h = c.head BY <2>1, ThreadFacts
  <2>3. c.op = "pop" /\ c.at = "copy" BY <1>2, <2>1 DEF Taken, At
  <2>4. PopRight(u, r) BY <2>1, <2>2, <2>3 DEF QInv, CallRight
  <2>5. ct(r) <= start(u) /\ end(u) <= ch(r) BY <2>1, <2>3, <2>4 DEF PopRight
  <2>6. /\ start(u) = Off(h) /\ start(u) \in Nat /\ end(u) = start(u) + n
        /\ ct(r) \in Nat /\ ch(r) \in Nat /\ pt(r) \in Nat /\ ch(r) <= pt(r)
        BY <2>1, <2>2, ThreadFacts, RingFacts DEF start
  <2>7. ASSUME NEW i \in 1..n PROVE rq'[r].data[Mask(h + i - 1)] = rq[r].data[Mask(h + i - 1)]
    <3>1. h \in Int /\ i - 1 \in Int BY QueueAssumption DEF Index
    <3>2. Mask(h + (i - 1)) = Cell(Off(h) + (i - 1)) BY <3>1, MaskOff
    <3>3. h + (i - 1) = h + i - 1 BY <3>1
    <3>4. PICK d \in ct(r)..pt(r) - 1 : d = Off(h) + (i - 1)
      <4>1. start(u) + (i - 1) \in ct(r)..pt(r) - 1 BY <2>5, <2>6
      <4> QED BY <2>6, <4>1
    <3>5. Item(r, d)' = Item(r, d) BY DEF ItemsKept
    <3>6. rq'[r].data[Cell(d)] = rq[r].data[Cell(d)] BY <3>5 DEF Item
    <3> QED BY <3>2, <3>3, <3>4, <3>6
  <2>8. Read(u) = [i \in 1..n |-> rq[r].data[Mask(h + i - 1)]] BY <2>1, <2>2 DEF Read
  <2>9. Read(u)' = [i \in 1..n |-> rq'[r].data[Mask(h + i - 1)]] BY <2>1, <2>2 DEF Read
  <2>10. Read(u)' = Read(u) BY <2>7, <2>8, <2>9
  <2> QED BY <1>2, <2>10 DEF Held, Taken, At
<1> QED BY <1>1, <1>2

LEMMA OthersHold ==
    ASSUME QInv, NEW t \in Threads, \A u \in Threads \ {t} : th'[u] = th[u], ItemsKept, NEW s
    PROVE  Others(t, s)' = Others(t, s)
<1>1. \A u \in Threads \ {t} : Held(u)' = Held(u) BY HeldKept
<1>2. ASSUME NEW p \in Threads \X (1..BatchMax), p[1] # t
      PROVE  (p[2] <= Len(Held(p[1])') /\ Held(p[1])'[p[2]] = s) <=> (p[2] <= Len(Held(p[1])) /\ Held(p[1])[p[2]] = s)
  <2>1. p[1] \in Threads \ {t} BY <1>2
  <2> QED BY <1>1, <2>1
<1>3. Others(t, s) = {p \in Threads \X (1..BatchMax) : p[1] # t /\ p[2] <= Len(Held(p[1])) /\ Held(p[1])[p[2]] = s}
      BY DEF Others, Hands
<1>4. Others(t, s)' =
        {p \in Threads \X (1..BatchMax) : p[1] # t /\ p[2] <= Len(Held(p[1])') /\ Held(p[1])'[p[2]] = s}
      BY DEF Others, Hands
<1> QED BY <1>2, <1>3, <1>4

\* How often a block is anywhere.
Places3(s) == Times(s, Contents("ring")) + Times(s, Contents("slot")) + Cardinality(Hands(s))

LEMMA OnceIs == EachBlockOnce <=> \A s \in Slots : Places3(s) = 1
BY DEF EachBlockOnce, Places3, Hands

\* A batch that goes from a thread to the end of a ring, or from the front of a ring to a thread.
LEMMA BatchMoves ==
    ASSUME QInv, QInv', NEW t \in Threads, \A u \in Threads \ {t} : th'[u] = th[u], ItemsKept,
           NEW r \in Rings, \A q \in Rings \ {r} : Contents(q)' = Contents(q), NEW b \in Seq(Slots),
           \/ Contents(r)' = Contents(r) \o b /\ Held(t) = b \o Held(t)'
           \/ Contents(r) = b \o Contents(r)' /\ Held(t)' = Held(t) \o b,
           NEW s \in Slots
    PROVE  Places3(s)' = Places3(s)
<1>1. /\ Cardinality(Hands(s)) = Times(s, Held(t)) + Cardinality(Others(t, s))
      /\ Times(s, Held(t)) \in Nat /\ Cardinality(Others(t, s)) \in Nat
      BY HandsSplit
<1>2. Cardinality(Hands(s)') = Times(s, Held(t)') + Cardinality(Others(t, s)) BY HandsNext, OthersHold
<1>3. /\ Contents(r) \in Seq(Slots) /\ Contents(r)' \in Seq(Slots)
      /\ Held(t) \in Seq(Slots) /\ Held(t)' \in Seq(Slots)
      BY ContentsIs, ContentsNext, HeldType, HeldNext
<1>4. PICK c \in Seq(Slots), d \in Seq(Slots), h \in Seq(Slots), k \in Seq(Slots) :
         c = Contents(r) /\ d = Contents(r)' /\ h = Held(t) /\ k = Held(t)'
      BY <1>3
<1>5. Times(s, b) \in Nat /\ Times(s, c) \in Nat /\ Times(s, d) \in Nat /\ Times(s, h) \in Nat /\ Times(s, k) \in Nat
      BY TimesType
<1>6. Times(s, d) + Times(s, k) = Times(s, c) + Times(s, h)
  <2>1. CASE d = c \o b /\ h = b \o k
    <3>1. Times(s, d) = Times(s, c) + Times(s, b) /\ Times(s, h) = Times(s, b) + Times(s, k) BY <2>1, TimesJoin
    <3> QED BY <1>5, <3>1
  <2>2. CASE c = b \o d /\ k = h \o b
    <3>1. Times(s, c) = Times(s, b) + Times(s, d) /\ Times(s, k) = Times(s, h) + Times(s, b) BY <2>2, TimesJoin
    <3> QED BY <1>5, <3>1
  <2> QED BY <1>4, <2>1, <2>2
<1>7. PICK q \in Rings : q # r /\ Rings = {r, q} BY DEF Rings
<1>8. PICK a \in Nat : a = Times(s, Contents(q)) /\ a = Times(s, Contents(q)')
  <2>1. Contents(q) \in Seq(Slots) /\ Contents(q)' = Contents(q) BY <1>7, ContentsIs
  <2>2. Times(s, Contents(q)) \in Nat BY <2>1, TimesType
  <2> QED BY <2>1, <2>2
<1>9. Times(s, Contents("ring")) + Times(s, Contents("slot")) = Times(s, c) + a
  <2>1. Times(s, Contents(r)) = Times(s, c) /\ Times(s, Contents(q)) = a BY <1>4, <1>8
  <2>2. (r = "ring" /\ q = "slot") \/ (r = "slot" /\ q = "ring") BY <1>7 DEF Rings
  <2> QED BY <1>5, <2>1, <2>2
<1>10. Times(s, Contents("ring")') + Times(s, Contents("slot")') = Times(s, d) + a
  <2>1. Times(s, Contents(r)') = Times(s, d) /\ Times(s, Contents(q)') = a BY <1>4, <1>8
  <2>2. (r = "ring" /\ q = "slot") \/ (r = "slot" /\ q = "ring") BY <1>7 DEF Rings
  <2> QED BY <1>5, <2>1, <2>2
<1>11. Places3(s) = (Times(s, c) + a) + (Times(s, h) + Cardinality(Others(t, s))) BY <1>1, <1>4, <1>9 DEF Places3
<1>12. Places3(s)' = (Times(s, d) + a) + (Times(s, k) + Cardinality(Others(t, s)))
  <2>1. Places3(s)' = Times(s, Contents("ring")') + Times(s, Contents("slot")') + Cardinality(Hands(s)')
        BY DEF Places3, Times
  <2> QED BY <1>2, <1>4, <1>10, <2>1
<1>13. PICK x, y, z, w, o \in Nat :
          x = Times(s, c) /\ y = Times(s, d) /\ z = Times(s, h) /\ w = Times(s, k) /\ o = Cardinality(Others(t, s))
       BY <1>1, <1>5
<1>14. Places3(s) = (x + a) + (z + o) /\ Places3(s)' = (y + a) + (w + o) /\ y + w = x + z BY <1>6, <1>11, <1>12, <1>13
<1>15. (y + a) + (w + o) = (x + a) + (z + o) BY ONLY <1>14, x \in Nat, y \in Nat, z \in Nat, w \in Nat, o \in Nat, a \in Nat
<1> QED BY <1>14, <1>15

LEMMA NothingMoves ==
    ASSUME QInv, QInv', NEW t \in Threads, \A u \in Threads \ {t} : th'[u] = th[u], ItemsKept,
           \A q \in Rings : Contents(q)' = Contents(q), Held(t)' = Held(t), NEW s \in Slots
    PROVE  Places3(s)' = Places3(s)
<1>1. Cardinality(Hands(s)) = Times(s, Held(t)) + Cardinality(Others(t, s)) BY HandsSplit
<1>2. Cardinality(Hands(s)') = Times(s, Held(t)) + Cardinality(Others(t, s)) BY HandsNext, OthersHold
<1>3. Cardinality(Hands(s)') = Cardinality(Hands(s)) BY <1>1, <1>2
<1>4. Contents("ring")' = Contents("ring") /\ Contents("slot")' = Contents("slot") BY DEF Rings
<1> QED BY <1>3, <1>4 DEF Places3, Times

LEMMA StillContents ==
    ASSUME QInv, QInv', ItemsKept, NEW q \in Rings, pt(q)' = pt(q), ch(q)' = ch(q)
    PROVE  Contents(q)' = Contents(q)
<1>1. ct(q) \in Nat /\ ch(q) \in Nat /\ pt(q) \in Nat /\ ct(q) <= ch(q) BY RingFacts
<1>2. \A d \in ch(q)..pt(q) - 1 : Item(q, d)' = Item(q, d) BY <1>1 DEF ItemsKept
<1> QED BY <1>2, ContentsKept

\* Every block stays in one place.
LEMMA OnceKept ==
    ASSUME QInv, QInv', NEW t \in Threads, \A u \in Threads \ {t} : th'[u] = th[u], ItemsKept, Kind(t),
           EachBlockOnce
    PROVE  EachBlockOnce'
<1>0. SUFFICES ASSUME NEW s \in Slots PROVE Places3(s)' = Places3(s)
  <2>1. \A s \in Slots : Places3(s)' = 1 BY OnceIs
  <2>2. (\A s \in Slots : Places3(s) = 1)' BY <2>1
  <2>3. EachBlockOnce' BY <2>2, OnceIs, PTL
  <2> QED BY <2>3
<1>1. ASSUME NEW r \in Rings, NEW op, NEW from, NEW to, Goes(t, r, op, from, to)
      PROVE  /\ \A q \in Rings \ {r} : Contents(q)' = Contents(q)
             /\ Taken(t) <=> op = "pop" /\ from = "copy"
             /\ Taken(t)' <=> op = "pop" /\ to = "copy"
  <2>1. \A q \in Rings \ {r} : Contents(q)' = Contents(q) BY <1>1, StillContents DEF Goes, Still, Indices
  <2> QED BY <1>1, <2>1 DEF Goes, Taken, At, Reserved, Same
<1>2. ASSUME NEW r \in Rings, pt(r)' = pt(r), ch(r)' = ch(r), \A q \in Rings \ {r} : Contents(q)' = Contents(q)
      PROVE  \A q \in Rings : Contents(q)' = Contents(q)
      BY <1>2, StillContents
<1>3. CASE Quiet(t)
  <2>1. \A q \in Rings : Contents(q)' = Contents(q) BY <1>3, StillContents DEF Quiet, Still, Indices
  <2>2. Held(t)' = Held(t) BY <1>3 DEF Quiet, Held, Taken, At
  <2> QED BY <2>1, <2>2, NothingMoves
<1>4. CASE \E r \in Rings : Reserves(t, r) /\ SameHand(t)
  <2>1. PICK r \in Rings : Reserves(t, r) /\ SameHand(t) BY <1>4
  <2>2. Goes(t, r, "push", "cas", "copy") /\ pt(r)' = pt(r) /\ ch(r)' = ch(r) BY <2>1 DEF Reserves, Indices
  <2>3. ~Taken(t) /\ ~Taken(t)' BY <1>1, <2>2
  <2>4. Held(t)' = Held(t) BY <2>1, <2>3 DEF Held, SameHand
  <2> QED BY <1>1, <1>2, <2>2, <2>4, NothingMoves
<1>5. CASE \E r \in Rings : Copies(t, r) /\ SameHand(t)
  <2>1. PICK r \in Rings : Copies(t, r) /\ SameHand(t) BY <1>5
  <2>2. Goes(t, r, "push", "copy", "tail") /\ pt(r)' = pt(r) /\ ch(r)' = ch(r) BY <2>1 DEF Copies, Still, Indices
  <2>3. ~Taken(t) /\ ~Taken(t)' BY <1>1, <2>2
  <2>4. Held(t)' = Held(t) BY <2>1, <2>3 DEF Held, SameHand
  <2> QED BY <1>1, <1>2, <2>2, <2>4, NothingMoves
<1>6. CASE \E r \in Rings : Releases(t, r) /\ SameHand(t)
  <2>1. PICK r \in Rings : Releases(t, r) /\ SameHand(t) BY <1>6
  <2>2. Goes(t, r, "pop", "tail", "num") /\ pt(r)' = pt(r) /\ ch(r)' = ch(r) BY <2>1 DEF Releases, Indices
  <2>3. ~Taken(t) /\ ~Taken(t)' BY <1>1, <2>2
  <2>4. Held(t)' = Held(t) BY <2>1, <2>3 DEF Held, SameHand
  <2> QED BY <1>1, <1>2, <2>2, <2>4, NothingMoves
<1>7. CASE \E r \in Rings : Fetches(t, r) /\ th'[t].hand = th[t].hand \o Read(t)
  <2>1. PICK r \in Rings : Fetches(t, r) /\ th'[t].hand = th[t].hand \o Read(t) BY <1>7
  <2>2. Goes(t, r, "pop", "copy", "tail") /\ pt(r)' = pt(r) /\ ch(r)' = ch(r) BY <2>1 DEF Fetches, Still, Indices
  <2>3. Taken(t) /\ ~Taken(t)' BY <1>1, <2>2
  <2>4. Held(t)' = Held(t) BY <2>1, <2>3 DEF Held
  <2> QED BY <1>1, <1>2, <2>2, <2>4, NothingMoves
<1>8. CASE \E r \in Rings : /\ Publishes(t, r) /\ th'[t].hand = SubSeq(th[t].hand, th[t].call.n + 1, Len(th[t].hand))
                            /\ Contents(r)' = Contents(r) \o Batch(t)
  <2>1. PICK r \in Rings : /\ Publishes(t, r) /\ th'[t].hand = SubSeq(th[t].hand, th[t].call.n + 1, Len(th[t].hand))
                           /\ Contents(r)' = Contents(r) \o Batch(t)
        BY <1>8
  <2>2. Goes(t, r, "push", "tail", "num") BY <2>1 DEF Publishes
  <2>3. ~Taken(t) /\ ~Taken(t)' /\ \A q \in Rings \ {r} : Contents(q)' = Contents(q) BY <1>1, <2>2
  <2>4. PICK h \in Seq(Slots), n \in Nat : h = th[t].hand /\ n = th[t].call.n BY ThreadFacts
  <2>5. CallRight(t) BY DEF QInv
  <2>6. n <= Len(h) BY <2>2, <2>4, <2>5 DEF CallRight, PushRight, Goes, Reserved
  <2>7. SubSeq(h, 1, n) \in Seq(Slots) /\ h = SubSeq(h, 1, n) \o SubSeq(h, n + 1, Len(h)) BY <2>6, SplitAt
  <2>8. Held(t) = h /\ Held(t)' = SubSeq(h, n + 1, Len(h)) /\ Batch(t) = SubSeq(h, 1, n)
        BY <2>1, <2>3, <2>4 DEF Held, Batch
  <2>9. Batch(t) \in Seq(Slots) /\ Held(t) = Batch(t) \o Held(t)' BY <2>7, <2>8
  <2> QED BY <2>1, <2>3, <2>9, BatchMoves
<1>9. CASE \E r \in Rings : Takes(t, r) /\ SameHand(t) /\ Contents(r) = Read(t)' \o Contents(r)'
  <2>1. PICK r \in Rings : Takes(t, r) /\ SameHand(t) /\ Contents(r) = Read(t)' \o Contents(r)' BY <1>9
  <2>2. Goes(t, r, "pop", "cas", "copy") BY <2>1 DEF Takes
  <2>3. ~Taken(t) /\ Taken(t)' /\ \A q \in Rings \ {r} : Contents(q)' = Contents(q) BY <1>1, <2>2
  <2>4. Held(t)' = Held(t) \o Read(t)' BY <2>1, <2>3 DEF Held, SameHand
  <2>5. Read(t)' \in Seq(Slots) BY <2>3, ReadNext
  <2> QED BY <2>1, <2>3, <2>4, <2>5, BatchMoves
<1> QED BY <1>3, <1>4, <1>5, <1>6, <1>7, <1>8, <1>9 DEF Kind
-----------------------------------------------------------------------------
LEMMA AtMostOne ==
    ASSUME NEW A, IsFiniteSet(A), Cardinality(A) <= 1, NEW x \in A, NEW y \in A
    PROVE  x = y
<1>1. Cardinality(A) \in Nat /\ Cardinality(A) # 0 BY FS_CardinalityType, FS_EmptySet
<1>2. Cardinality(A) = 1 BY <1>1
<1>3. \E z : A = {z} BY <1>2, FS_Singleton
<1> QED BY <1>3

LEMMA SomeAre ==
    ASSUME NEW A, IsFiniteSet(A), NEW x \in A
    PROVE  Cardinality(A) >= 1
<1>1. Cardinality(A) \in Nat /\ Cardinality(A) # 0 BY FS_CardinalityType, FS_EmptySet
<1> QED BY <1>1

\* A block has one place: in a ring, at one index, or in one hand, at one index.
LEMMA OnePlace ==
    ASSUME QInv, EachBlockOnce, NEW r \in Rings, NEW s \in Slots
    PROVE  /\ \A i, j \in 1..pt(r) - ch(r) : Contents(r)[i] = s /\ Contents(r)[j] = s => i = j
           /\ \A p, q \in Hands(s) : p = q
           /\ \A i \in 1..pt(r) - ch(r) : Contents(r)[i] = s => Hands(s) = {}
<1>1. PICK c \in Seq(Slots) : c = Contents(r) /\ Len(c) = pt(r) - ch(r) BY ContentsIs
<1> DEFINE C == {i \in DOMAIN c : c[i] = s}
<1>2. IsFiniteSet(C) /\ Times(s, c) = Cardinality(C) /\ Cardinality(C) \in Nat BY TimesType DEF Times
<1>3. IsFiniteSet(Hands(s)) /\ Cardinality(Hands(s)) \in Nat
  <2>1. Hands(s) \in SUBSET (Threads \X (1..BatchMax)) BY DEF Hands
  <2> QED BY <2>1, PairsFinite, FS_Subset, FS_CardinalityType
<1>4. PICK q \in Rings : q # r BY DEF Rings
<1>5. PICK a \in Nat : a = Times(s, Contents(q))
  <2>1. Contents(q) \in Seq(Slots) BY ContentsIs
  <2> QED BY <2>1, TimesType
<1>6. Cardinality(C) + a + Cardinality(Hands(s)) = 1
  <2>1. Times(s, Contents("ring")) + Times(s, Contents("slot")) + Cardinality(Hands(s)) = 1 BY OnceIs DEF Places3
  <2>2. Times(s, Contents(r)) = Cardinality(C) /\ Times(s, Contents(q)) = a BY <1>1, <1>2, <1>5
  <2>3. (r = "ring" /\ q = "slot") \/ (r = "slot" /\ q = "ring") BY <1>4 DEF Rings
  <2> HIDE DEF C
  <2> QED BY <1>2, <1>3, <2>1, <2>2, <2>3
<1>7. DOMAIN c = 1..pt(r) - ch(r) BY <1>1
<1>8. \A i \in 1..pt(r) - ch(r) : Contents(r)[i] = s => i \in C BY <1>1, <1>7
<1> HIDE DEF C
<1>9. Cardinality(C) <= 1 /\ Cardinality(Hands(s)) <= 1 /\ (Cardinality(C) >= 1 => Cardinality(Hands(s)) = 0)
      BY <1>2, <1>3, <1>6
<1>10. \A i, j \in 1..pt(r) - ch(r) : Contents(r)[i] = s /\ Contents(r)[j] = s => i = j BY <1>2, <1>8, <1>9, AtMostOne
<1>11. \A p, o \in Hands(s) : p = o BY <1>3, <1>9, AtMostOne
<1>12. \A i \in 1..pt(r) - ch(r) : Contents(r)[i] = s => Hands(s) = {} BY <1>2, <1>3, <1>8, <1>9, SomeAre, FS_EmptySet
<1> QED BY <1>10, <1>11, <1>12

LEMMA InHand ==
    ASSUME QInv, NEW u \in Threads, NEW i \in 1..Len(Held(u)), NEW s, Held(u)[i] = s
    PROVE  s \in Slots /\ <<u, i>> \in Hands(s)
<1>1. PICK a \in Seq(Slots) : a = Held(u) /\ Len(a) <= BatchMax BY HeldType
<1>2. BatchMax \in Nat BY QueueAssumption
<1>3. i \in 1..BatchMax /\ i <= Len(a) /\ a[i] \in Slots BY <1>1, <1>2
<1>4. <<u, i>> \in Threads \X (1..BatchMax) /\ <<u, i>>[1] = u /\ <<u, i>>[2] = i BY <1>3
<1> QED BY <1>1, <1>3, <1>4 DEF Hands

\* As many places of a ring as have a block of their own are no more than there are blocks.
LEMMA Pigeons ==
    ASSUME QInv, EachBlockOnce, NEW r \in Rings, NEW base \in [Threads -> Int], NEW lo \in Nat, NEW hi \in Nat,
           \A d \in lo..hi : \/ d \in ch(r)..pt(r) - 1
                             \/ \E u \in Threads : \E i \in 1..Len(Held(u)) : d = base[u] + i
    PROVE  hi - lo + 1 <= Cardinality(Slots)
<1> DEFINE InRing(d, s) == d \in ch(r)..pt(r) - 1 /\ s = Contents(r)[d - ch(r) + 1]
           WithOne(d, s) == \E u \in Threads : \E i \in 1..Len(Held(u)) : d = base[u] + i /\ s = Held(u)[i]
           Spot(d, s) == InRing(d, s) \/ WithOne(d, s)
           F == [d \in lo..hi |-> CHOOSE s \in Slots : Spot(d, s)]
<1>1. ch(r) \in Nat /\ pt(r) \in Nat BY RingFacts
<1>2. PICK c \in Seq(Slots) : c = Contents(r) /\ Len(c) = pt(r) - ch(r) BY ContentsIs
<1>3. ASSUME NEW d \in lo..hi PROVE \E s \in Slots : Spot(d, s)
  <2>1. CASE d \in ch(r)..pt(r) - 1
    <3>1. d - ch(r) + 1 \in 1..Len(c) BY <1>1, <1>2, <2>1
    <3>2. c[d - ch(r) + 1] \in Slots BY <3>1
    <3> QED BY <1>2, <2>1, <3>2
  <2>2. CASE \E u \in Threads : \E i \in 1..Len(Held(u)) : d = base[u] + i
    <3>0. PICK u \in Threads : \E i \in 1..Len(Held(u)) : d = base[u] + i BY <2>2
    <3>1. PICK i \in 1..Len(Held(u)) : d = base[u] + i BY <3>0
    <3>2. Held(u)[i] \in Slots BY <3>1, InHand
    <3>3. WithOne(d, Held(u)[i]) BY <3>1
    <3> QED BY <3>2, <3>3
  <2> QED BY <2>1, <2>2
<1>4. ASSUME NEW d \in lo..hi, NEW e \in lo..hi, NEW s \in Slots, Spot(d, s), Spot(e, s) PROVE d = e
  <2>0. d \in Int /\ e \in Int OBVIOUS
  <2>1. ASSUME NEW x \in Int, InRing(x, s)
        PROVE  x - ch(r) + 1 \in 1..pt(r) - ch(r) /\ Contents(r)[x - ch(r) + 1] = s
        BY <1>1, <2>1
  <2>2. ASSUME NEW x, WithOne(x, s) PROVE \E u \in Threads, i \in Int : x = base[u] + i /\ <<u, i>> \in Hands(s)
        BY <2>2, InHand
  <2>3. CASE InRing(d, s) /\ InRing(e, s)
    <3>2. PICK i \in 1..pt(r) - ch(r) : i = d - ch(r) + 1 /\ Contents(r)[i] = s BY <2>0, <2>1, <2>3
    <3>3. PICK j \in 1..pt(r) - ch(r) : j = e - ch(r) + 1 /\ Contents(r)[j] = s BY <2>0, <2>1, <2>3
    <3>4. i = j BY <3>2, <3>3, OnePlace
    <3>1. d - ch(r) + 1 = e - ch(r) + 1 BY <3>2, <3>3, <3>4
    <3> QED BY <1>1, <2>0, <3>1
  <2>4. CASE InRing(d, s) /\ WithOne(e, s)
    <3>1. Hands(s) = {} BY <2>0, <2>1, <2>4, OnePlace
    <3> QED BY <2>2, <2>4, <3>1
  <2>5. CASE WithOne(d, s) /\ InRing(e, s)
    <3>1. Hands(s) = {} BY <2>0, <2>1, <2>5, OnePlace
    <3> QED BY <2>2, <2>5, <3>1
  <2>6. CASE WithOne(d, s) /\ WithOne(e, s)
    <3>1. PICK u \in Threads, i \in Int : d = base[u] + i /\ <<u, i>> \in Hands(s) BY <2>2, <2>6
    <3>2. PICK v \in Threads, j \in Int : e = base[v] + j /\ <<v, j>> \in Hands(s) BY <2>2, <2>6
    <3>3. <<u, i>> = <<v, j>> BY <3>1, <3>2, OnePlace
    <3> QED BY <3>1, <3>2, <3>3
  <2> QED BY <1>4, <2>3, <2>4, <2>5, <2>6
<1> HIDE DEF Spot
<1>5. \A d \in lo..hi : F[d] \in Slots /\ Spot(d, F[d]) BY <1>3
<1>6. F \in [lo..hi -> Slots] BY <1>3
<1> HIDE DEF F
<1>7. \A d, e \in lo..hi : F[d] = F[e] => d = e BY <1>4, <1>5
<1>8. PICK I : I = lo..hi OBVIOUS
<1>9. F \in Injection(I, Slots) BY <1>6, <1>7, <1>8 DEF Injection, IsInjective
<1>10. IsFiniteSet(Slots) BY QueueAssumption
<1>11. Cardinality(I) <= Cardinality(Slots) BY <1>9, <1>10, FS_Injection
<1>12. Cardinality(I) = IF lo > hi THEN 0 ELSE hi - lo + 1 BY <1>8, FS_Interval
<1>13. Cardinality(Slots) \in Nat BY <1>10, FS_CardinalityType
<1> QED BY <1>11, <1>12, <1>13

\* There is room for whatever a thread is about to push: with what is in the ring, and what was
\* reserved before, it is no more blocks than there are.
LEMMA RoomForAll ==
    ASSUME QInv, EachBlockOnce, NEW t \in Threads, NEW r \in Rings, Covered(r),
           Reserved(t, "push", r), th[t].call.at \in {"head", "check", "cas"}
    PROVE  ph(r) - ct(r) + th[t].call.n <= RingMax
<1>1. /\ ph(r) \in Nat /\ pt(r) \in Nat /\ ch(r) \in Nat /\ ct(r) \in Nat
      /\ ct(r) <= ch(r) /\ ch(r) <= pt(r) /\ pt(r) <= ph(r)
      BY RingFacts
<1>2. PICK n \in Nat : n = th[t].call.n /\ n >= 1 /\ n <= Len(th[t].hand)
      BY ThreadFacts DEF QInv, CallRight, PushRight, Reserved
<1> DEFINE Base(u) == IF u = t THEN ph(r) - 1
                      ELSE IF Has(u, "push", r) THEN start(u) - 1
                      ELSE start(u) - (Len(Held(u)) - th[u].call.n) - 1
           base == [u \in Threads |-> Base(u)]
<1>3. ASSUME NEW u \in Threads
      PROVE  /\ Held(u) \in Seq(Slots) /\ Len(Held(u)) \in Nat
             /\ start(u) \in Nat /\ th[u].call.n \in Nat /\ end(u) = start(u) + th[u].call.n
      BY HeldType, ThreadFacts
<1>4. base \in [Threads -> Int]
  <2>1. \A u \in Threads : Base(u) \in Int BY <1>1, <1>3, SMTT(30)
  <2> HIDE DEF Base
  <2> QED BY <2>1
<1>5. ASSUME NEW u \in Threads, Has(u, "push", r) PROVE Held(u) = th[u].hand /\ th[u].call.n <= Len(Held(u)) /\ u # t
  <2>1. th[u].call.op = "push" /\ th[u].call.r = r /\ th[u].call.at \in {"copy", "tail"} BY <1>5 DEF Has, Reserved
  <2>2. Held(u) = th[u].hand BY <2>1 DEF Held, Taken, At
  <2>3. th[u].call.n <= Len(th[u].hand) BY <2>1 DEF QInv, CallRight, PushRight
  <2> QED BY <2>1, <2>2, <2>3
<1>6. ASSUME NEW u \in Threads, Has(u, "pop", r)
      PROVE  th[u].call.n <= Len(Held(u)) /\ u # t /\ ~Has(u, "push", r)
  <2>1. th[u].call.op = "pop" /\ th[u].call.r = r /\ th[u].call.at \in {"copy", "tail"} BY <1>6 DEF Has, Reserved
  <2>2. CASE th[u].call.at = "tail"
    <3>1. th[u].call.n <= Len(th[u].hand) BY <2>1, <2>2 DEF QInv, CallRight, PopRight
    <3> QED BY <2>1, <2>2, <3>1 DEF Held, Taken, At, Reserved, Has
  <2>3. CASE th[u].call.at = "copy"
    <3>1. Taken(u) BY <2>1, <2>3 DEF Taken, At
    <3>2. PICK a \in Seq(Slots), b \in Seq(Slots) : a = th[u].hand /\ b = Read(u) /\ Len(b) = th[u].call.n
          BY <3>1, ReadType, ThreadFacts
    <3>3. Held(u) = a \o b BY <3>1, <3>2 DEF Held
    <3>4. Len(Held(u)) = Len(a) + Len(b) BY <3>3
    <3> QED BY <2>1, <3>2, <3>4 DEF Reserved, Has
  <2> QED BY <2>1, <2>2, <2>3
<1>7. ASSUME NEW d \in ct(r)..(ph(r) + n - 1)
      PROVE  \/ d \in ch(r)..pt(r) - 1
             \/ \E u \in Threads : \E i \in 1..Len(Held(u)) : d = base[u] + i
  <2>0. d \in Int /\ ct(r) <= d /\ d <= ph(r) + n - 1 BY <1>1
  <2>1. CASE d \in ct(r)..ch(r) - 1
    <3>1. PICK u \in Threads : Has(u, "pop", r) /\ d \in start(u)..end(u) - 1 BY <2>1 DEF Covered
    <3>2. th[u].call.n <= Len(Held(u)) /\ u # t /\ ~Has(u, "push", r) BY <3>1, <1>6
    <3>3. base[u] = start(u) - (Len(Held(u)) - th[u].call.n) - 1 BY <3>2
    <3>4. PICK x, l, m \in Nat : x = start(u) /\ l = Len(Held(u)) /\ m = th[u].call.n BY <1>3
    <3>5. d \in x..(x + m) - 1 /\ m <= l /\ base[u] = x - (l - m) - 1 BY <1>3, <3>1, <3>2, <3>3, <3>4
    <3> HIDE DEF base
    <3>6. d - base[u] \in 1..l /\ d = base[u] + (d - base[u]) BY <3>5
    <3> QED BY <3>4, <3>6
  <2>2. CASE d \in pt(r)..ph(r) - 1
    <3>1. PICK u \in Threads : Has(u, "push", r) /\ d \in start(u)..end(u) - 1 BY <2>2 DEF Covered
    <3>2. th[u].call.n <= Len(Held(u)) /\ u # t BY <3>1, <1>5
    <3>3. base[u] = start(u) - 1 BY <3>1, <3>2
    <3>4. PICK x, l, m \in Nat : x = start(u) /\ l = Len(Held(u)) /\ m = th[u].call.n BY <1>3
    <3>5. d \in x..(x + m) - 1 /\ m <= l /\ base[u] = x - 1 BY <1>3, <3>1, <3>2, <3>3, <3>4
    <3> HIDE DEF base
    <3>6. d - base[u] \in 1..l /\ d = base[u] + (d - base[u]) BY <3>5
    <3> QED BY <3>4, <3>6
  <2>3. CASE d \in ph(r)..(ph(r) + n - 1)
    <3>1. Held(t) = th[t].hand BY DEF Held, Taken, At, Reserved
    <3>2. PICK l \in Nat : l = Len(Held(t)) /\ n <= l BY <1>2, <1>3, <3>1
    <3>3. base[t] = ph(r) - 1 OBVIOUS
    <3> HIDE DEF base
    <3>4. d - base[t] \in 1..l /\ d = base[t] + (d - base[t]) BY <1>1, <2>3, <3>2, <3>3
    <3> QED BY <3>2, <3>4
  <2> QED BY <1>1, <2>0, <2>1, <2>2, <2>3
<1> HIDE DEF base
<1>8. PICK lo \in Nat, hi \in Nat : lo = ct(r) /\ hi = ph(r) + n - 1 BY <1>1, <1>2
<1>9. hi - lo + 1 <= Cardinality(Slots) BY <1>4, <1>7, <1>8, Pigeons
<1>10. RingMax \in Nat /\ Cardinality(Slots) <= RingMax /\ Cardinality(Slots) \in Nat
       BY MaxAssumption, QueueAssumption, FS_CardinalityType
<1>11. PICK h, l, m, k \in Nat : h = ph(r) /\ l = ct(r) /\ m = RingMax /\ k = Cardinality(Slots) BY <1>1, <1>10
<1>12. (h + n - 1) - l + 1 <= k /\ k <= m BY <1>8, <1>9, <1>10, <1>11
<1>13. h - l + n <= m BY ONLY <1>12, h \in Nat, l \in Nat, m \in Nat, k \in Nat, n \in Nat
<1> QED BY <1>2, <1>11, <1>13

\* So no push is refused, whatever value of prod.head it read.
LEMMA SpaceEnough ==
    ASSUME QInv, EachBlockOnce, NEW t \in Threads, NEW r \in Rings, Covered(r),
           Reserved(t, "push", r), th[t].call.at = "check"
    PROVE  ~(th[t].call.n > ring_space(t))
<1>1. r = th[t].call.r /\ start(t) <= ph(r) BY DEF QInv, CallRight, PushRight, Reserved
<1>2. /\ rq[r].ctail \in Index /\ ph(r) \in Nat /\ ct(r) \in Nat /\ RingMax \in Nat /\ Width \in Nat
      /\ ct(r) <= ph(r) /\ ph(r) <= ct(r) + RingMax /\ ph(r) + RingMax < Width
      BY RingFacts
<1>3. start(t) \in Nat /\ th[t].call.head \in Index /\ th[t].call.n \in Nat BY ThreadFacts
<1>4. RingMax + ct(r) - start(t) \in Index BY <1>1, <1>2, <1>3 DEF Index
<1>5. ring_space(t) = RingMax + ct(r) - start(t) BY <1>1, <1>2, <1>3, <1>4, OffSpace DEF ring_space, ct, start
<1>6. ph(r) - ct(r) + th[t].call.n <= RingMax BY RoomForAll
<1> QED BY <1>1, <1>2, <1>3, <1>5, <1>6

LEMMA RefusedKept ==
    ASSUME QInv, EachBlockOnce, \A r \in Rings : Covered(r), NeverRefused,
           NEW t \in Threads, Caller(t) \/ ring_mpush(t) \/ ring_mpop(t)
    PROVE  NeverRefused'
<1>1. th \in [Threads -> ThreadType] /\ th[t] \in ThreadType BY DEF QInv, QTyped
<1>2. ASSUME NEW a, th' = Goto(t, a) PROVE NeverRefused' BY <1>1, <1>2 DEF NeverRefused, Goto, ThreadType
<1>3. ASSUME th' = Return(t) PROVE NeverRefused' BY <1>1, <1>3 DEF NeverRefused, Return, ThreadType
<1>4. CASE Caller(t)
  <2>1. PICK op \in {"push", "pop"}, q \in Rings, n \in 0..BatchMax : Call(t, op, q, n) BY <1>4, CallerIs
  <2> QED BY <1>1, <2>1 DEF NeverRefused, Call, ThreadType
<1>5. CASE ring_mpush_head(t) \/ ring_mpop_head(t)
  <2>1. PICK h : th' = [th EXCEPT ![t].call.head = h, ![t].call.at = "check"]
        BY <1>5 DEF ring_mpush_head, ring_mpop_head
  <2> QED BY <1>1, <2>1 DEF NeverRefused, ThreadType
<1>6. CASE ring_mpush_check(t)
  <2>1. PICK r \in Rings : r = th[t].call.r BY ThreadFacts
  <2>2. Reserved(t, "push", r) /\ th[t].call.at = "check" BY <1>6, <2>1 DEF ring_mpush_check, At, Reserved
  <2>3. ~(th[t].call.n > ring_space(t)) BY <2>2, SpaceEnough
  <2> QED BY <1>2, <1>6, <2>3 DEF ring_mpush_check
<1>7. CASE ring_mpop_check(t) BY <1>2, <1>3, <1>7 DEF ring_mpop_check
<1>8. CASE ring_mpush_cas(t) \/ ring_mpop_cas(t)
      BY <1>2, <1>8 DEF ring_mpush_cas, ring_mpop_cas, atomic32_cmp_and_set
<1>9. CASE ring_mpush_copy(t) BY <1>2, <1>9 DEF ring_mpush_copy
<1>10. CASE ring_mpush_tail(t)
  <2>1. PICK a : th' = [Goto(t, "num") EXCEPT ![t].hand = a] BY <1>10 DEF ring_mpush_tail
  <2> QED BY <1>1, <2>1 DEF NeverRefused, Goto, ThreadType
<1>11. CASE ring_mpop_copy(t)
  <2>1. PICK a : th' = [Goto(t, "tail") EXCEPT ![t].hand = a] BY <1>11 DEF ring_mpop_copy
  <2> QED BY <1>1, <2>1 DEF NeverRefused, Goto, ThreadType
<1>12. CASE ring_mpop_tail(t) BY <1>2, <1>12 DEF ring_mpop_tail
<1>13. CASE ring_mpush_num(t) \/ ring_mpop_num(t) BY <1>3, <1>13 DEF ring_mpush_num, ring_mpop_num
<1> QED BY <1>4, <1>5, <1>6, <1>7, <1>8, <1>9, <1>10, <1>11, <1>12, <1>13 DEF ring_mpush, ring_mpop
-----------------------------------------------------------------------------
\* What one thread has put in, or taken out, that is not counted yet.
InN(t, q) == IF Reserved(t, "push", q) /\ th[t].call.at = "num" THEN th[t].call.n ELSE 0
OutN(t, q) == IF Reserved(t, "pop", q) /\ th[t].call.at \in {"copy", "tail", "num"} THEN th[t].call.n ELSE 0
OthersIn(t, q) == {p \in Entered(q) : p[1] # t}
OthersOut(t, q) == {p \in Left(q) : p[1] # t}

LEMMA SplitIn ==
    QInv => \A t \in Threads, q \in Rings :
        /\ Cardinality(Entered(q)) = InN(t, q) + Cardinality(OthersIn(t, q))
        /\ InN(t, q) \in Nat /\ Cardinality(OthersIn(t, q)) \in Nat
<1> SUFFICES ASSUME QInv, NEW t \in Threads, NEW q \in Rings
             PROVE  /\ Cardinality(Entered(q)) = InN(t, q) + Cardinality(OthersIn(t, q))
                    /\ InN(t, q) \in Nat /\ Cardinality(OthersIn(t, q)) \in Nat
    OBVIOUS
<1>1. PICK m \in Nat : m = InN(t, q) /\ m <= BatchMax
  <2>1. th[t].call.n \in Nat /\ th[t].call.n <= BatchMax /\ BatchMax \in Nat BY ThreadFacts, QueueAssumption
  <2> QED BY <2>1 DEF InN
<1> DEFINE A == {p \in Threads \X (1..BatchMax) : p[1] = t /\ p[2] <= m}
<1>2. IsFiniteSet(A) /\ Cardinality(A) = m BY <1>1, PairsUpTo
<1>3. IsFiniteSet(OthersIn(t, q))
  <2>1. OthersIn(t, q) \in SUBSET (Threads \X (1..BatchMax)) BY DEF OthersIn, Entered
  <2> QED BY <2>1, PairsFinite, FS_Subset
<1>4. ASSUME NEW p \in Threads \X (1..BatchMax), p[1] = t
      PROVE  p \in Entered(q) <=> p[2] <= m
  <2>1. p[2] \in 1..BatchMax BY <1>4
  <2> QED BY <1>1, <1>4, <2>1, QueueAssumption DEF Entered, InN
<1>5. Entered(q) = A \cup OthersIn(t, q)
  <2>1. Entered(q) \subseteq Threads \X (1..BatchMax) BY DEF Entered
  <2> QED BY <1>4, <2>1 DEF OthersIn
<1>6. A \cap OthersIn(t, q) = {} BY DEF OthersIn
<1> HIDE DEF A
<1>7. Cardinality(Entered(q)) = Cardinality(A) + Cardinality(OthersIn(t, q)) BY <1>2, <1>3, <1>5, <1>6, Apart
<1> QED BY <1>1, <1>2, <1>3, <1>7, FS_CardinalityType

LEMMA SplitOut ==
    QInv => \A t \in Threads, q \in Rings :
        /\ Cardinality(Left(q)) = OutN(t, q) + Cardinality(OthersOut(t, q))
        /\ OutN(t, q) \in Nat /\ Cardinality(OthersOut(t, q)) \in Nat
<1> SUFFICES ASSUME QInv, NEW t \in Threads, NEW q \in Rings
             PROVE  /\ Cardinality(Left(q)) = OutN(t, q) + Cardinality(OthersOut(t, q))
                    /\ OutN(t, q) \in Nat /\ Cardinality(OthersOut(t, q)) \in Nat
    OBVIOUS
<1>1. PICK m \in Nat : m = OutN(t, q) /\ m <= BatchMax
  <2>1. th[t].call.n \in Nat /\ th[t].call.n <= BatchMax /\ BatchMax \in Nat BY ThreadFacts, QueueAssumption
  <2> QED BY <2>1 DEF OutN
<1> DEFINE A == {p \in Threads \X (1..BatchMax) : p[1] = t /\ p[2] <= m}
<1>2. IsFiniteSet(A) /\ Cardinality(A) = m BY <1>1, PairsUpTo
<1>3. IsFiniteSet(OthersOut(t, q))
  <2>1. OthersOut(t, q) \in SUBSET (Threads \X (1..BatchMax)) BY DEF OthersOut, Left
  <2> QED BY <2>1, PairsFinite, FS_Subset
<1>4. ASSUME NEW p \in Threads \X (1..BatchMax), p[1] = t
      PROVE  p \in Left(q) <=> p[2] <= m
  <2>1. p[2] \in 1..BatchMax BY <1>4
  <2> QED BY <1>1, <1>4, <2>1, QueueAssumption DEF Left, OutN
<1>5. Left(q) = A \cup OthersOut(t, q)
  <2>1. Left(q) \subseteq Threads \X (1..BatchMax) BY DEF Left
  <2> QED BY <1>4, <2>1 DEF OthersOut
<1>6. A \cap OthersOut(t, q) = {} BY DEF OthersOut
<1> HIDE DEF A
<1>7. Cardinality(Left(q)) = Cardinality(A) + Cardinality(OthersOut(t, q)) BY <1>2, <1>3, <1>5, <1>6, Apart
<1> QED BY <1>1, <1>2, <1>3, <1>7, FS_CardinalityType

LEMMA SplitNext ==
    QInv' => \A t \in Threads, q \in Rings :
        /\ Cardinality(Entered(q)') = InN(t, q)' + Cardinality(OthersIn(t, q)') /\ InN(t, q)' \in Nat
        /\ Cardinality(Left(q)') = OutN(t, q)' + Cardinality(OthersOut(t, q)') /\ OutN(t, q)' \in Nat
<1>1. QInv' => (\A t \in Threads, q \in Rings :
                   /\ Cardinality(Entered(q)) = InN(t, q) + Cardinality(OthersIn(t, q))
                   /\ InN(t, q) \in Nat /\ Cardinality(OthersIn(t, q)) \in Nat)'
      BY SplitIn, PTL
<1>2. QInv' => (\A t \in Threads, q \in Rings :
                   /\ Cardinality(Left(q)) = OutN(t, q) + Cardinality(OthersOut(t, q))
                   /\ OutN(t, q) \in Nat /\ Cardinality(OthersOut(t, q)) \in Nat)'
      BY SplitOut, PTL
<1> QED BY <1>1, <1>2

LEMMA OthersCounted ==
    ASSUME NEW t \in Threads, \A u \in Threads \ {t} : th'[u] = th[u], NEW q
    PROVE  OthersIn(t, q)' = OthersIn(t, q) /\ OthersOut(t, q)' = OthersOut(t, q)
<1>1. \A p \in Threads \X (1..BatchMax) : p[1] # t => th'[p[1]] = th[p[1]] OBVIOUS
<1>2. OthersIn(t, q)' = OthersIn(t, q) BY <1>1 DEF OthersIn, Entered, Reserved
<1>3. OthersOut(t, q)' = OthersOut(t, q) BY <1>1 DEF OthersOut, Left, Reserved
<1> QED BY <1>2, <1>3

LEMMA Offsets == QInv => \A r \in Rings : pt(r) \in Nat /\ ch(r) \in Nat
BY RingFacts

LEMMA OffsetsNext == QInv' => \A r \in Rings : pt(r)' \in Nat /\ ch(r)' \in Nat
<1>1. QInv' => (\A r \in Rings : pt(r) \in Nat /\ ch(r) \in Nat)' BY Offsets, PTL
<1> QED BY <1>1

\* The count keeps up: it moves by as much as the blocks in the ring and the blocks not counted
\* yet move together.
LEMMA CountMoves ==
    ASSUME QInv, QInv', NEW t \in Threads, \A u \in Threads \ {t} : th'[u] = th[u], NEW q \in Rings, Counted(q),
           NEW k \in Int, rq'[q].num = (rq[q].num + k) % Width,
           k = (((pt(q)' - ch(q)') - (pt(q) - ch(q))) + (OutN(t, q)' - OutN(t, q))) - (InN(t, q)' - InN(t, q))
    PROVE  Counted(q)'
<1>1. PICK e, i, j, l, o, u \in Nat :
         /\ e = Cardinality(OthersIn(t, q)) /\ i = InN(t, q) /\ j = InN(t, q)'
         /\ l = Cardinality(OthersOut(t, q)) /\ o = OutN(t, q) /\ u = OutN(t, q)'
      BY SplitIn, SplitOut, SplitNext
<1>2. Cardinality(Entered(q)) = i + e /\ Cardinality(Left(q)) = o + l BY <1>1, SplitIn, SplitOut
<1>3. Cardinality(Entered(q)') = j + e /\ Cardinality(Left(q)') = u + l BY <1>1, SplitNext, OthersCounted
<1>4. PICK p, c, x, y \in Nat : p = pt(q) /\ c = ch(q) /\ x = pt(q)' /\ y = ch(q)'
  <2>1. pt(q) \in Nat /\ ch(q) \in Nat BY RingFacts
  <2>4. pt(q)' \in Nat /\ ch(q)' \in Nat BY OffsetsNext
  <2> QED BY <2>1, <2>4
<1>5. Width \in Nat \ {0} BY QueueAssumption
<1> DEFINE a == (p - c) + ((o + l) - (i + e))
           b == (x - y) + ((u + l) - (j + e))
<1>6. rq[q].num = a % Width BY <1>2, <1>4 DEF Counted
<1>7. k = (((x - y) - (p - c)) + (u - o)) - (j - i) BY <1>1, <1>4
<1>8. a \in Int /\ b \in Int /\ b = a + k BY <1>7
<1>9. Counted(q)' <=> rq'[q].num = b % Width BY <1>3, <1>4 DEF Counted
<1> HIDE DEF a, b
<1>10. PICK d \in Int, m \in Int : m = a % Width /\ a = d * Width + m
  <2>1. a % Width \in 0..Width - 1 /\ a \div Width \in Int /\ a = (a \div Width) * Width + (a % Width)
        BY <1>5, <1>8, ModDef
  <2>2. a % Width \in Int BY <1>5, <2>1
  <2> QED BY <2>1, <2>2
<1>11. b = (m + k) + d * Width BY <1>5, <1>8, <1>10
<1>12. m + k \in Int BY <1>10
<1>13. ((m + k) + d * Width) % Width = (m + k) % Width BY <1>5, <1>10, <1>12, ModPlus
<1> QED BY <1>6, <1>9, <1>10, <1>11, <1>13

\* The steps that count, and what the others leave alone.
LEMMA NumStep ==
    ASSUME QInv, NEW t \in Threads, ring_mpush_num(t) \/ ring_mpop_num(t)
    PROVE  /\ \A u \in Threads \ {t} : th'[u] = th[u]
           /\ \A q \in Rings : Still(q) /\ InN(t, q)' = 0 /\ OutN(t, q)' = 0
           /\ \A q \in Rings : /\ q # th[t].call.r => rq'[q].num = rq[q].num
                               /\ q = th[t].call.r /\ ring_mpush_num(t) => rq'[q].num = Add(rq[q].num, th[t].call.n)
                               /\ q = th[t].call.r /\ ring_mpop_num(t) => rq'[q].num = Sub(rq[q].num, th[t].call.n)
<1>1. SameRings /\ th' = Return(t) BY NumSame
<1>2. \A q \in Rings : Still(q) BY <1>1, StillSame
<1>3. th'[t].call = Idle /\ \A u \in Threads \ {t} : th'[u] = th[u] BY <1>1, Ended
<1>4. \A q \in Rings : InN(t, q)' = 0 /\ OutN(t, q)' = 0 BY <1>3 DEF InN, OutN, Reserved, Idle
<1>5. ~(ring_mpush_num(t) /\ ring_mpop_num(t)) BY DEF ring_mpush_num, ring_mpop_num, At
<1>6. PICK r \in Rings : r = th[t].call.r BY ThreadFacts
<1>7. rq \in [Rings -> RingType] BY DEF QInv, QTyped
<1>8. CASE ring_mpush_num(t)
  <2>1. rq' = [rq EXCEPT ![r].num = Add(@, th[t].call.n)] BY <1>6, <1>8 DEF ring_mpush_num
  <2>2. rq'[r].num = Add(rq[r].num, th[t].call.n) /\ \A q \in Rings \ {r} : rq'[q].num = rq[q].num
        BY <1>7, <2>1 DEF RingType
  <2> QED BY <1>2, <1>3, <1>4, <1>5, <1>6, <1>8, <2>2
<1>9. CASE ring_mpop_num(t)
  <2>1. rq' = [rq EXCEPT ![r].num = Sub(@, th[t].call.n)] BY <1>6, <1>9 DEF ring_mpop_num
  <2>2. rq'[r].num = Sub(rq[r].num, th[t].call.n) /\ \A q \in Rings \ {r} : rq'[q].num = rq[q].num
        BY <1>7, <2>1 DEF RingType
  <2> QED BY <1>2, <1>3, <1>4, <1>5, <1>6, <1>9, <2>2
<1> QED BY <1>8, <1>9

LEMMA NumCounted ==
    ASSUME QInv, QInv', NEW t \in Threads, ring_mpush_num(t) \/ ring_mpop_num(t), NEW q \in Rings, Counted(q)
    PROVE  Counted(q)'
<1>1. /\ \A u \in Threads \ {t} : th'[u] = th[u]
      /\ pt(q)' = pt(q) /\ ch(q)' = ch(q) /\ InN(t, q)' = 0 /\ OutN(t, q)' = 0
      BY NumStep DEF Still, Indices
<1>2. PICK p, c \in Nat : p = pt(q) /\ c = ch(q) BY RingFacts
<1>3. PICK n \in Nat, x \in Index : n = th[t].call.n /\ x = rq[q].num BY ThreadFacts, RingFacts DEF RingType
<1>4. Width \in Nat \ {0} /\ x \in Int /\ x % Width = x
  <2>1. Width \in Nat \ {0} /\ x \in 0..Width - 1 BY QueueAssumption DEF Index
  <2> QED BY <2>1, ModSmall
<1>5. CASE q # th[t].call.r
  <2>1. InN(t, q) = 0 /\ OutN(t, q) = 0 BY <1>5 DEF InN, OutN, Reserved
  <2>2. rq'[q].num = (rq[q].num + 0) % Width BY <1>3, <1>4, <1>5, NumStep
  <2>3. 0 = (((p - c) - (p - c)) + (0 - 0)) - (0 - 0) OBVIOUS
  <2> QED BY <1>1, <1>2, <2>1, <2>2, <2>3, CountMoves
<1>6. CASE q = th[t].call.r /\ ring_mpush_num(t)
  <2>1. InN(t, q) = n /\ OutN(t, q) = 0 BY <1>3, <1>6 DEF InN, OutN, Reserved, ring_mpush_num, At
  <2>2. rq'[q].num = Add(rq[q].num, th[t].call.n) BY <1>6, NumStep
  <2>3. rq'[q].num = (rq[q].num + n) % Width BY <1>3, <2>2 DEF Add
  <2>4. PICK k \in Int : k = n OBVIOUS
  <2>5. k = (((p - c) - (p - c)) + (0 - 0)) - (0 - n) BY <2>4
  <2> QED BY <1>1, <1>2, <2>1, <2>3, <2>4, <2>5, CountMoves
<1>7. CASE q = th[t].call.r /\ ring_mpop_num(t)
  <2>1. InN(t, q) = 0 /\ OutN(t, q) = n BY <1>3, <1>7 DEF InN, OutN, Reserved, ring_mpop_num, At
  <2>2. ~ring_mpush_num(t) BY <1>7 DEF ring_mpush_num, ring_mpop_num, At
  <2>3. rq'[q].num = (x - n) % Width BY <1>3, <1>7, <2>2, NumStep DEF Sub
  <2>4. PICK k \in Int : k = 0 - n OBVIOUS
  <2>5. x - n = x + k BY <1>4, <2>4
  <2>6. rq'[q].num = (rq[q].num + k) % Width BY <1>3, <2>3, <2>5
  <2>7. k = (((p - c) - (p - c)) + (0 - n)) - (0 - 0) BY <2>4
  <2> QED BY <1>1, <1>2, <2>1, <2>6, <2>7, CountMoves
<1> QED BY <1>5, <1>6, <1>7

\* No other step counts, and a call is ready to count only after its last copy.
LEMMA CountAlone ==
    ASSUME QInv, NEW t \in Threads, Caller(t) \/ ring_mpush(t) \/ ring_mpop(t),
           ~ring_mpush_num(t), ~ring_mpop_num(t)
    PROVE  /\ \A q \in Rings : rq'[q].num = rq[q].num
           /\ th[t].call.at # "num"
           /\ th'[t].call.at = "num" => th[t].call.at = "tail"
<1>1. rq \in [Rings -> RingType] /\ th \in [Threads -> ThreadType] /\ th[t] \in ThreadType BY DEF QInv, QTyped
<1>2. PICK r \in Rings : r = th[t].call.r BY ThreadFacts
<1>3. ASSUME NEW f \in {"phead", "ptail", "chead", "ctail", "data"}, NEW k,
             rq' = [rq EXCEPT ![r] = [rq[r] EXCEPT ![f] = k]]
      PROVE  \A q \in Rings : rq'[q].num = rq[q].num
      BY <1>1, <1>3 DEF RingType
<1>4. ASSUME NEW a \in Ats, th' = Goto(t, a) PROVE th'[t].call.at = a BY <1>4, Gone
<1>5. ASSUME th' = Return(t) \/ th' = [Return(t) EXCEPT ![t].refused = TRUE] PROVE th'[t].call.at = "none"
  <2>1. th'[t].call = Idle BY <1>5, Ended
  <2> QED BY <2>1 DEF Idle
<1>6. CASE Caller(t)
  <2>1. PICK op \in {"push", "pop"}, q \in Rings, n \in 0..BatchMax : Call(t, op, q, n) BY <1>6, CallerIs
  <2>2. /\ rq' = rq /\ th[t].call = Idle
        /\ th'[t].call = [op |-> op, at |-> "head", r |-> q, n |-> n, head |-> 0]
        BY <2>1, Begun
  <2> QED BY <2>2 DEF Idle
<1>7. CASE ring_mpush_head(t) \/ ring_mpop_head(t)
  <2>1. PICK h : th' = [th EXCEPT ![t].call.head = h, ![t].call.at = "check"] /\ rq' = rq /\ th[t].call.at = "head"
        BY <1>7 DEF ring_mpush_head, ring_mpop_head, At
  <2>2. th'[t].call.at = "check" BY <1>1, <2>1 DEF ThreadType, CallType
  <2> QED BY <2>1, <2>2
<1>8. CASE ring_mpush_check(t) \/ ring_mpop_check(t)
  <2>1. rq' = rq /\ th[t].call.at = "check" BY <1>8 DEF ring_mpush_check, ring_mpop_check, At
  <2>2. th' = Goto(t, "cas") \/ th' = Return(t) \/ th' = [Return(t) EXCEPT ![t].refused = TRUE]
        BY <1>8 DEF ring_mpush_check, ring_mpop_check
  <2> QED BY <1>4, <1>5, <2>1, <2>2 DEF Ats
<1>9. CASE ring_mpush_cas(t) \/ ring_mpop_cas(t)
  <2>1. PICK f \in {"phead", "chead"} : atomic32_cmp_and_set(t, f) /\ th[t].call.at = "cas"
        BY <1>9 DEF ring_mpush_cas, ring_mpop_cas, At
  <2>2. th' = Goto(t, "copy") \/ th' = Goto(t, "head") BY <2>1 DEF atomic32_cmp_and_set
  <2>3. rq' = rq \/ rq' = [rq EXCEPT ![r] = [rq[r] EXCEPT ![f] = Add(th[t].call.head, th[t].call.n)]]
        BY <1>2, <2>1 DEF atomic32_cmp_and_set
  <2> QED BY <1>3, <1>4, <2>1, <2>2, <2>3 DEF Ats
<1>10. CASE ring_mpush_copy(t)
  <2>1. th[t].call.at = "copy" /\ th' = Goto(t, "tail") BY <1>10 DEF ring_mpush_copy, At
  <2>2. PICK k : rq' = [rq EXCEPT ![r].data = k] BY <1>2, <1>10 DEF ring_mpush_copy
  <2>3. \A q \in Rings : rq'[q].num = rq[q].num BY <1>1, <2>2 DEF RingType
  <2> QED BY <1>4, <2>1, <2>3 DEF Ats
<1>11. CASE ring_mpush_tail(t)
  <2>1. th[t].call.at = "tail" BY <1>11 DEF ring_mpush_tail, At
  <2>2. PICK k : rq' = [rq EXCEPT ![r].ptail = k] BY <1>2, <1>11 DEF ring_mpush_tail
  <2>3. \A q \in Rings : rq'[q].num = rq[q].num BY <1>1, <2>2 DEF RingType
  <2> QED BY <2>1, <2>3
<1>12. CASE ring_mpop_copy(t)
  <2>1. Fetches(t, r) BY <1>2, <1>12, PopCopyKind
  <2>2. rq' = rq BY <1>12 DEF ring_mpop_copy
  <2> QED BY <2>1, <2>2 DEF Fetches, Goes
<1>13. CASE ring_mpop_tail(t)
  <2>1. th[t].call.at = "tail" BY <1>13 DEF ring_mpop_tail, At
  <2>2. PICK k : rq' = [rq EXCEPT ![r].ctail = k] BY <1>2, <1>13 DEF ring_mpop_tail
  <2>3. \A q \in Rings : rq'[q].num = rq[q].num BY <1>1, <2>2 DEF RingType
  <2> QED BY <2>1, <2>3
<1> QED BY <1>6, <1>7, <1>8, <1>9, <1>10, <1>11, <1>12, <1>13 DEF ring_mpush, ring_mpop

LEMMA CountKept ==
    ASSUME QInv, QInv', NEW t \in Threads, Caller(t) \/ ring_mpush(t) \/ ring_mpop(t), NEW q \in Rings, Counted(q)
    PROVE  Counted(q)'
<1>1. CASE ring_mpush_num(t) \/ ring_mpop_num(t) BY <1>1, NumCounted
<1>2. CASE ~ring_mpush_num(t) /\ ~ring_mpop_num(t)
  <2>1. /\ rq'[q].num = rq[q].num /\ th[t].call.at # "num"
        /\ th'[t].call.at = "num" => th[t].call.at = "tail"
        BY <1>2, CountAlone
  <2>2. (\A u \in Threads \ {t} : th'[u] = th[u]) /\ Kind(t) BY Kinds
  <2>3. PICK n, s, p, c \in Nat : n = th[t].call.n /\ s = start(t) /\ p = pt(q) /\ c = ch(q) BY ThreadFacts, RingFacts
  <2>4. end(t) = s + n BY <2>3, ThreadFacts
  <2>5. rq'[q].num = (rq[q].num + 0) % Width
    <3>1. PICK x \in Index : x = rq[q].num BY RingFacts DEF RingType
    <3>2. Width \in Nat \ {0} /\ x \in 0..Width - 1 BY <3>1, QueueAssumption DEF Index
    <3>3. x + 0 = x /\ x % Width = x BY <3>2, ModSmall
    <3> QED BY <2>1, <3>1, <3>3
  <2>6. ASSUME (((pt(q)' - ch(q)') - (p - c)) + (OutN(t, q)' - OutN(t, q))) - (InN(t, q)' - InN(t, q)) = 0
        PROVE  Counted(q)'
        BY <2>2, <2>3, <2>5, <2>6, CountMoves
  <2>7. ASSUME Still(q), OutN(t, q)' = OutN(t, q), InN(t, q)' = InN(t, q) PROVE Counted(q)'
    <3>1. pt(q)' = p /\ ch(q)' = c BY <2>3, <2>7 DEF Still, Indices
    <3>2. OutN(t, q) \in Nat /\ InN(t, q) \in Nat BY SplitIn, SplitOut
    <3>3. (((p - c) - (p - c)) + (OutN(t, q) - OutN(t, q))) - (InN(t, q) - InN(t, q)) = 0 BY <3>2
    <3> QED BY <2>6, <2>7, <3>1, <3>3
  <2>8. CASE Quiet(t)
    <3>1. th'[t].call.at # "num" /\ th'[t].call.at \notin {"copy", "tail"} /\ th[t].call.at \notin {"copy", "tail"}
          BY <2>1, <2>8 DEF Quiet
    <3>2. OutN(t, q)' = 0 /\ OutN(t, q) = 0 /\ InN(t, q)' = 0 /\ InN(t, q) = 0 BY <2>1, <3>1 DEF OutN, InN
    <3> QED BY <2>7, <2>8, <3>2 DEF Quiet
  <2>9. ASSUME NEW r \in Rings, NEW op, NEW from, NEW to, Goes(t, r, op, from, to)
        PROVE  /\ InN(t, q) = IF op = "push" /\ q = r /\ from = "num" THEN n ELSE 0
               /\ InN(t, q)' = IF op = "push" /\ q = r /\ to = "num" THEN n ELSE 0
               /\ OutN(t, q) = IF op = "pop" /\ q = r /\ from \in {"copy", "tail", "num"} THEN n ELSE 0
               /\ OutN(t, q)' = IF op = "pop" /\ q = r /\ to \in {"copy", "tail", "num"} THEN n ELSE 0
               /\ q # r => Still(q)
        BY <2>3, <2>9 DEF Goes, InN, OutN, Reserved, Same
  <2>10. ASSUME NEW r \in Rings, Reserves(t, r) PROVE Counted(q)'
    <3>1. Goes(t, r, "push", "cas", "copy") /\ pt(r)' = pt(r) /\ ch(r)' = ch(r) BY <2>10 DEF Reserves, Indices
    <3>2. OutN(t, q)' = 0 /\ OutN(t, q) = 0 /\ InN(t, q)' = 0 /\ InN(t, q) = 0 BY <2>9, <3>1
    <3>3. CASE q # r BY <2>7, <2>9, <3>1, <3>2, <3>3
    <3>4. CASE q = r
      <4>1. pt(q)' = p /\ ch(q)' = c BY <2>3, <3>1, <3>4
      <4>2. (((p - c) - (p - c)) + (0 - 0)) - (0 - 0) = 0 OBVIOUS
      <4> QED BY <2>6, <3>2, <4>1, <4>2
    <3> QED BY <3>3, <3>4
  <2>11. ASSUME NEW r \in Rings, Copies(t, r) PROVE Counted(q)'
    <3>1. Goes(t, r, "push", "copy", "tail") /\ Still(r) BY <2>11 DEF Copies
    <3>2. OutN(t, q)' = 0 /\ OutN(t, q) = 0 /\ InN(t, q)' = 0 /\ InN(t, q) = 0 BY <2>9, <3>1
    <3> QED BY <2>7, <2>9, <3>1, <3>2
  <2>12. ASSUME NEW r \in Rings, Publishes(t, r) PROVE Counted(q)'
    <3>1. Goes(t, r, "push", "tail", "num") /\ start(t) = pt(r) /\ pt(r)' = end(t) /\ ch(r)' = ch(r)
          BY <2>12 DEF Publishes, Indices
    <3>2. OutN(t, q)' = 0 /\ OutN(t, q) = 0 /\ InN(t, q) = 0 BY <2>9, <3>1
    <3>3. CASE q # r
      <4>1. InN(t, q)' = 0 /\ Still(q) BY <2>9, <3>1, <3>3
      <4> QED BY <2>7, <3>2, <4>1
    <3>4. CASE q = r
      <4>1. InN(t, q)' = n BY <2>9, <3>1, <3>4
      <4>2. pt(q)' = p + n /\ ch(q)' = c BY <2>3, <2>4, <3>1, <3>4
      <4>3. ((((p + n) - c) - (p - c)) + (0 - 0)) - (n - 0) = 0 OBVIOUS
      <4> QED BY <2>6, <3>2, <4>1, <4>2, <4>3
    <3> QED BY <3>3, <3>4
  <2>13. ASSUME NEW r \in Rings, Takes(t, r) PROVE Counted(q)'
    <3>1. Goes(t, r, "pop", "cas", "copy") /\ start(t) = ch(r) /\ ch(r)' = end(t) /\ pt(r)' = pt(r)
          BY <2>13 DEF Takes, Indices
    <3>2. InN(t, q)' = 0 /\ InN(t, q) = 0 /\ OutN(t, q) = 0 BY <2>9, <3>1
    <3>3. CASE q # r
      <4>1. OutN(t, q)' = 0 /\ Still(q) BY <2>9, <3>1, <3>3
      <4> QED BY <2>7, <3>2, <4>1
    <3>4. CASE q = r
      <4>1. OutN(t, q)' = n BY <2>9, <3>1, <3>4
      <4>2. ch(q)' = c + n /\ pt(q)' = p BY <2>3, <2>4, <3>1, <3>4
      <4>3. (((p - (c + n)) - (p - c)) + (n - 0)) - (0 - 0) = 0 OBVIOUS
      <4> QED BY <2>6, <3>2, <4>1, <4>2, <4>3
    <3> QED BY <3>3, <3>4
  <2>14. ASSUME NEW r \in Rings, Fetches(t, r) PROVE Counted(q)'
    <3>1. Goes(t, r, "pop", "copy", "tail") /\ Still(r) BY <2>14 DEF Fetches
    <3>2. InN(t, q)' = 0 /\ InN(t, q) = 0 /\ OutN(t, q)' = OutN(t, q) BY <2>9, <3>1
    <3> QED BY <2>7, <2>9, <3>1, <3>2
  <2>15. ASSUME NEW r \in Rings, Releases(t, r) PROVE Counted(q)'
    <3>1. Goes(t, r, "pop", "tail", "num") /\ pt(r)' = pt(r) /\ ch(r)' = ch(r) BY <2>15 DEF Releases, Indices
    <3>2. InN(t, q)' = 0 /\ InN(t, q) = 0 /\ OutN(t, q)' = OutN(t, q) BY <2>9, <3>1
    <3>3. PICK o \in Nat : o = OutN(t, q) BY SplitOut
    <3>4. CASE q # r BY <2>7, <2>9, <3>1, <3>2, <3>4
    <3>5. CASE q = r
      <4>1. pt(q)' = p /\ ch(q)' = c BY <2>3, <3>1, <3>5
      <4>2. (((p - c) - (p - c)) + (o - o)) - (0 - 0) = 0 OBVIOUS
      <4> QED BY <2>6, <3>2, <3>3, <4>1, <4>2
    <3> QED BY <3>4, <3>5
  <2> QED BY <2>2, <2>8, <2>10, <2>11, <2>12, <2>13, <2>14, <2>15 DEF Kind
<1> QED BY <1>1, <1>2
-----------------------------------------------------------------------------
LEMMA AccountedAtFirst == QueueInit => AInv
<1> SUFFICES ASSUME QueueInit PROVE AInv OBVIOUS
<1> DEFINE n == Cardinality(Slots)
<1>1. QInv BY InitHolds
<1>2. n \in Nat /\ Slots = 1..n BY QueueAssumption, FS_CardinalityType
<1>3. /\ \A r \in Rings : ct(r) = 0 /\ ch(r) = 0 /\ pt(r) = ph(r)
      /\ ph("ring") = 0 /\ ph("slot") = n
      /\ \A d \in 0..n - 1 : Item("slot", d) = d + 1
      BY RingsCreated
<1>4. th = [t \in Threads |-> [call |-> Idle, hand |-> <<>>, refused |-> FALSE]] BY DEF QueueInit, queue_creat
<1>5. \A t \in Threads : th[t].call = Idle /\ th[t].hand = <<>> /\ ~th[t].refused BY <1>4
<1>6. rq["ring"].num = 0 /\ rq["slot"].num = n
  <2>1. rq["ring"] = ring_creat /\ rq["slot"] = slot_creat BY DEF QueueInit, queue_creat, Rings
  <2> QED BY <2>1 DEF ring_creat, slot_creat
<1> HIDE DEF n
<1>7. \A r \in Rings : Covered(r) BY <1>2, <1>3 DEF Covered, Rings
<1>8. \A r \in Rings : Entered(r) = {} /\ Left(r) = {} BY <1>5 DEF Entered, Left, Reserved, Idle
<1>9. ASSUME NEW r \in Rings PROVE Counted(r)
  <2>1. Cardinality(Entered(r)) = 0 /\ Cardinality(Left(r)) = 0 BY <1>8, FS_EmptySet
  <2>2. PICK p \in Nat : p = pt(r) /\ p = rq[r].num /\ ch(r) = 0 BY <1>2, <1>3, <1>6 DEF Rings
  <2>3. p \in 0..Width - 1 /\ Width \in Nat \ {0} BY <1>1, <2>2, RingFacts DEF RingType, Index
  <2>4. (p - 0) + (0 - 0) = p /\ p % Width = p BY <2>3, ModSmall
  <2> QED BY <2>1, <2>2, <2>4 DEF Counted
<1>10. ASSUME NEW s \in Slots PROVE Places3(s) = 1
  <2>1. PICK a \in Seq(Slots), b \in Seq(Slots) :
           /\ a = Contents("ring") /\ Len(a) = 0
           /\ b = Contents("slot") /\ Len(b) = n /\ \A i \in 1..n : b[i] = i
    <3>1. /\ Contents("ring") \in Seq(Slots) /\ Len(Contents("ring")) = pt("ring") - ch("ring")
          /\ Contents("slot") \in Seq(Slots) /\ Len(Contents("slot")) = pt("slot") - ch("slot")
          /\ Contents("slot") = [i \in 1..pt("slot") - ch("slot") |-> Item("slot", ch("slot") + i - 1)]
          BY <1>1, ContentsIs DEF Rings
    <3>2. pt("ring") = 0 /\ ch("ring") = 0 /\ pt("slot") = n /\ ch("slot") = 0 BY <1>3 DEF Rings
    <3>3. ASSUME NEW i \in 1..n PROVE Item("slot", 0 + i - 1) = i
      <4>1. PICK d \in 0..n - 1 : d = 0 + i - 1 /\ d + 1 = i
        <5>1. i - 1 \in 0..n - 1 /\ i - 1 = 0 + i - 1 /\ (i - 1) + 1 = i BY <1>2
        <5> QED BY <5>1
      <4> QED BY <1>3, <4>1
    <3>4. \A i \in 1..n : Contents("slot")[i] = i
      <4>1. Contents("slot") = [i \in 1..n - 0 |-> Item("slot", 0 + i - 1)] BY <3>1, <3>2
      <4>2. 1..n - 0 = 1..n BY <1>2
      <4> QED BY <3>3, <4>1, <4>2
    <3>5. Len(Contents("ring")) = 0 /\ Len(Contents("slot")) = n BY <1>2, <3>1, <3>2
    <3> QED BY <3>1, <3>4, <3>5
  <2>2. Times(s, a) = 0
    <3>1. {i \in DOMAIN a : a[i] = s} = {} BY <2>1
    <3> QED BY <3>1, FS_EmptySet DEF Times
  <2>3. Times(s, b) = 1
    <3>1. DOMAIN b = 1..n /\ s \in 1..n BY <1>2, <2>1
    <3>2. {i \in DOMAIN b : b[i] = s} = {s} BY <2>1, <3>1
    <3> QED BY <3>2, FS_Singleton DEF Times
  <2>4. Hands(s) = {}
    <3>1. \A t \in Threads : Held(t) = <<>> BY <1>5 DEF Held, Taken, At, Idle
    <3>2. Len(<<>>) = 0 OBVIOUS
    <3>3. \A p \in Threads \X (1..BatchMax) : p[1] \in Threads /\ p[2] \in 1..BatchMax OBVIOUS
    <3>4. \A k \in 1..BatchMax : ~(k <= 0) BY QueueAssumption
    <3> QED BY <3>1, <3>2, <3>3, <3>4 DEF Hands
  <2>5. Cardinality(Hands(s)) = 0 BY <2>4, FS_EmptySet
  <2> QED BY <2>1, <2>2, <2>3, <2>5 DEF Places3
<1> QED BY <1>5, <1>7, <1>9, <1>10, OnceIs DEF AInv, NeverRefused

LEMMA AccountedKept == QInv /\ QInv' /\ AInv /\ [QueueNext]_queueVars => AInv'
<1> SUFFICES ASSUME QInv, QInv', AInv, [QueueNext]_queueVars PROVE AInv' OBVIOUS
<1>1. CASE UNCHANGED queueVars
  <2>1. rq' = rq /\ th' = th BY <1>1 DEF queueVars
  <2>2. \A r \in Rings : Covered(r)' = Covered(r) BY <2>1 DEF Covered, Has, Reserved, start, end, ph, pt, ch, ct
  <2>3. \A r \in Rings : Entered(r)' = Entered(r) /\ Left(r)' = Left(r) BY <2>1 DEF Entered, Left, Reserved
  <2>4. \A r \in Rings : Counted(r)' = Counted(r) BY <2>1, <2>3 DEF Counted, pt, ch
  <2>5. NeverRefused' = NeverRefused BY <2>1 DEF NeverRefused
  <2>6. \A r \in Rings : Contents(r)' = Contents(r) BY <2>1 DEF Contents
  <2>7. \A t \in Threads : Held(t)' = Held(t) BY <2>1 DEF Held, Taken, At, Read
  <2>8. \A s \in Slots : Hands(s)' = Hands(s) BY <2>7 DEF Hands
  <2>9. \A s \in Slots : Places3(s)' = Places3(s) BY <2>6, <2>8 DEF Places3, Rings, Times
  <2>10. (\A s \in Slots : Places3(s) = 1)' BY <2>9, OnceIs DEF AInv
  <2>11. EachBlockOnce' BY <2>10, OnceIs, PTL
  <2> QED BY <2>2, <2>4, <2>5, <2>11 DEF AInv
<1>2. CASE QueueNext
  <2>1. PICK t \in Threads : Caller(t) \/ ring_mpush(t) \/ ring_mpop(t) BY <1>2 DEF QueueNext
  <2>2. (\A u \in Threads \ {t} : th'[u] = th[u]) /\ ItemsKept /\ Kind(t) BY <2>1, Kinds
  <2>3. EachBlockOnce' BY <2>2, OnceKept DEF AInv
  <2>4. \A q \in Rings : Covered(q)' BY <2>2, CoveredKept DEF AInv
  <2>5. \A q \in Rings : Counted(q)' BY <2>1, CountKept DEF AInv
  <2>6. NeverRefused' BY <2>1, RefusedKept DEF AInv
  <2> QED BY <2>3, <2>4, <2>5, <2>6 DEF AInv
<1> QED BY <1>1, <1>2

LEMMA CountRight == QInv /\ AInv => CountSettles
<1> SUFFICES ASSUME QInv, AInv, NEW r \in Rings, \A t \in Threads : th[t].call = Idle \/ th[t].call.r # r
             PROVE  rq[r].num = Len(Contents(r))
    BY DEF CountSettles
<1>1. Entered(r) = {} /\ Left(r) = {} BY DEF Entered, Left, Reserved, Idle
<1>2. Cardinality(Entered(r)) = 0 /\ Cardinality(Left(r)) = 0 BY <1>1, FS_EmptySet
<1>3. /\ pt(r) \in Nat /\ ch(r) \in Nat /\ ph(r) \in Nat /\ ch(r) <= pt(r) /\ pt(r) <= ph(r)
      /\ RingMax \in Nat /\ Width \in Nat \ {0} /\ ph(r) + RingMax < Width
      BY RingFacts
<1>4. PICK d \in 0..Width - 1 : d = pt(r) - ch(r)
  <2>1. pt(r) - ch(r) \in 0..Width - 1 BY <1>3
  <2> QED BY <2>1
<1>5. rq[r].num = ((pt(r) - ch(r)) + (0 - 0)) % Width BY <1>2 DEF AInv, Counted
<1>6. d + (0 - 0) = d /\ d % Width = d BY <1>3, ModSmall
<1>7. Len(Contents(r)) = d BY <1>4, ContentsIs
<1> QED BY <1>4, <1>5, <1>6, <1>7

\* Whatever the threads do, in whatever order, for any number of blocks and threads: every block
\* is in one place, no push is refused, and the count of a ring that nobody is inside of is the
\* number of blocks in it (queue_malloc, queue_push, queue_mpop, queue_dealloc).
THEOREM BlocksStayAccounted == QueueSpec => []BlocksAccounted
<1>1. QueueInit => QInv /\ AInv BY InitHolds, AccountedAtFirst
<1>2. QInv /\ AInv /\ [QueueNext]_queueVars => QInv' /\ AInv' BY StepHolds, AccountedKept
<1>3. QInv => TypeOK
  <2> SUFFICES ASSUME QInv PROVE TypeOK OBVIOUS
  <2>1. rq \in [Rings -> RingType] BY DEF QInv, QTyped
  <2> QED BY <2>1, ThreadFacts DEF TypeOK
<1>4. QInv /\ AInv => BlocksAccounted BY <1>3, CountRight DEF BlocksAccounted, AInv
<1> QED BY <1>1, <1>2, <1>4, PTL DEF QueueSpec

-----------------------------------------------------------------------------
(* The RTMQ proxy: what is known of its threads, connections and queues. *)

\* What may be in a list of messages to send, in a socket, in a connection.
Socks(K) == [fd : BOOLEAN, mesg : Seq(K), iov : Seq(K), idx : Nat,
             kp : {"UNKNOWN", "SENT", "SUCC"}, wr : 0 .. 1, rdy : BOOLEAN, full : BOOLEAN]
Peers(K) == [open : BOOLEAN, in : Seq(In \cup {"KPALIVE_ACK", "BAD"}), pre : Seq(K), asked : BOOLEAN]
TsvrEvents == [ev : {"sck", "cmd"}, in : BOOLEAN, out : BOOLEAN]

\* The element e is in the sequence l; at most once.
IsIn(l, e) == \E i \in DOMAIN l : l[i] = e
Single(l, e) == \A i, j \in DOMAIN l : l[i] = e /\ l[j] = e => i = j

\* A list with no data; a list with a keep-alive request.
NoData(l) == \A i \in DOMAIN l : l[i].kind # "EXP"
Asks(l) == \E i \in DOMAIN l : l[i].kind = "KPALIVE_REQ"
Answered(l) == \E i \in DOMAIN l : l[i] = "KPALIVE_ACK"

\* The hand shakes, and: the first messages of l are those of the hand shake h.
HelloLen == 1 + Cardinality(Types)
Hellos == {<<Sys("AUTH_REQ")>> \o o : o \in SetToSeqs({SubReq(u) : u \in Types})}
Follows(h, l) == Len(l) >= HelloLen /\ \A i \in 1 .. HelloLen : l[i] = h[i]

\* One thread's connection, as the thread has it (s) and as the broker has it (n).
TsvrOk(K, s, n) ==
    /\ s \in Socks(K) /\ n \in Peers(K)
    /\ s.idx + Len(s.iov) <= IovMax /\ Len(n.in) <= InboxMax
    /\ NoData(s.mesg)
    /\ s.fd => /\ Len(n.pre) <= HelloLen
               /\ \E h \in Hellos : Follows(h, n.pre \o (s.iov \o s.mesg))
    /\ ~s.fd => s.iov = <<>> /\ s.idx = 0 /\ n = NoNet
    /\ s.fd /\ s.kp = "SENT" => Asks(s.mesg) \/ Asks(s.iov) \/ n.asked \/ Answered(n.in)

\* The message m: in the queue q, in one of the iovecs v, in the set s or in the set l.
OnlyPlace(m, q, v, s, l) ==
    /\ Single(q, Data(m)) /\ \A t \in Tsvrs : Single(v[t], Data(m))
    /\ \A t, u \in Tsvrs : IsIn(v[t], Data(m)) /\ IsIn(v[u], Data(m)) => t = u
    /\ \A t \in Tsvrs : IsIn(v[t], Data(m)) => ~IsIn(q, Data(m)) /\ m \notin s /\ m \notin l
    /\ IsIn(q, Data(m)) => m \notin s /\ m \notin l
    /\ ~(m \in s /\ m \in l)
Somewhere(m, q, v, s, l) ==
    IsIn(q, Data(m)) \/ (\E t \in Tsvrs : IsIn(v[t], Data(m))) \/ m \in s \/ m \in l

Iovs == [t \in Tsvrs |-> sck[t].iov]
Tracked ==
    \A i \in 1 .. scene.out :
        /\ OnlyPlace(Out[i], sendq, Iovs, sent, lost)
        /\ Somewhere(Out[i], sendq, Iovs, sent, lost) <=> i <= app.n

TsvrsOk ==
    /\ DOMAIN sck = Tsvrs /\ DOMAIN net = Tsvrs
    /\ \A t \in Tsvrs : TsvrOk(OutMesgs, sck[t], net[t]) /\ (sck[t].fd => launched)

QueuesOk ==
    /\ sendq \in Seq(OutMesgs) /\ Len(sendq) <= SendqMax /\ pipe \in 0 .. PipeMax
    /\ app \in [n : 0 .. scene.out, notify : BOOLEAN]
    /\ batch \in [Tsvrs -> Seq(TsvrEvents)] /\ \A t \in Tsvrs : Len(batch[t]) <= 2

WorkersOk ==
    /\ note \in [Tsvrs -> Workers \cup {NoNote}]
    /\ recvq \in [Workers -> Seq(In)] /\ \A w \in Workers : Len(recvq[w]) <= RecvqMax
    /\ wpipe \in [Workers -> 0 .. WorkPipeMax] /\ todo \in [Workers -> Seq(Workers)]

ConfOk == scene \in Scenes /\ reg \subseteq Types /\ launched \in BOOLEAN /\ (launched => reg = Types)

ProxyInv == ConfOk /\ TsvrsOk /\ QueuesOk /\ WorkersOk /\ NoLostWork /\ Tracked

-----------------------------------------------------------------------------
(* Lists of messages. *)

LEMMA InConcat ==
    ASSUME NEW S, NEW a \in Seq(S), NEW b \in Seq(S), NEW e
    PROVE  /\ IsIn(a \o b, e) <=> IsIn(a, e) \/ IsIn(b, e)
           /\ Single(a \o b, e) <=> Single(a, e) /\ Single(b, e) /\ ~(IsIn(a, e) /\ IsIn(b, e))
<1>1. PICK n \in Nat, k \in Nat : n = Len(a) /\ k = Len(b) OBVIOUS
<1>2. PICK c \in Seq(S) : c = a \o b BY ConcatProperties
<1>3. /\ DOMAIN a = 1 .. n /\ DOMAIN b = 1 .. k /\ DOMAIN c = 1 .. n + k
      /\ \A i \in 1 .. n : c[i] = a[i]
      /\ \A i \in 1 .. k : c[n + i] = b[i]
  <2>1. /\ Len(c) = n + k /\ DOMAIN a = 1 .. n /\ DOMAIN b = 1 .. k
        /\ \A i \in 1 .. n + k : c[i] = IF i <= n THEN a[i] ELSE b[i - n]
    BY <1>1, <1>2, ConcatProperties
  <2>2. \A i \in 1 .. n : i \in 1 .. n + k /\ i <= n BY <1>1
  <2>3. \A i \in 1 .. k : n + i \in 1 .. n + k /\ ~(n + i <= n) /\ (n + i) - n = i BY <1>1
  <2>4. DOMAIN c = 1 .. n + k BY <2>1
  <2> QED BY <2>1, <2>2, <2>3, <2>4
<1>4. \A i \in 1 .. n + k : i \in 1 .. n \/ \E j \in 1 .. k : i = n + j
  <2> SUFFICES ASSUME NEW i \in 1 .. n + k, i \notin 1 .. n PROVE i - n \in 1 .. k /\ i = n + (i - n) OBVIOUS
  <2> QED BY <1>1
<1>5. \A i \in 1 .. n : i \in 1 .. n + k BY <1>1
<1>6. \A i \in 1 .. k : n + i \in 1 .. n + k /\ n + i \notin 1 .. n BY <1>1
<1>7. IsIn(c, e) <=> IsIn(a, e) \/ IsIn(b, e)
  <2>1. ASSUME IsIn(c, e) PROVE IsIn(a, e) \/ IsIn(b, e)
    <3>1. PICK i \in 1 .. n + k : c[i] = e BY <2>1, <1>3 DEF IsIn
    <3> QED BY <3>1, <1>3, <1>4 DEF IsIn
  <2>2. IsIn(a, e) => IsIn(c, e) BY <1>3, <1>5 DEF IsIn
  <2>3. IsIn(b, e) => IsIn(c, e) BY <1>3, <1>6 DEF IsIn
  <2> QED BY <2>1, <2>2, <2>3
<1>8. ASSUME Single(c, e) PROVE Single(a, e) /\ Single(b, e) /\ ~(IsIn(a, e) /\ IsIn(b, e))
  <2>1. Single(a, e) BY <1>3, <1>5, <1>8 DEF Single
  <2>2. Single(b, e)
    <3> SUFFICES ASSUME NEW i \in 1 .. k, NEW j \in 1 .. k, b[i] = e, b[j] = e PROVE i = j
      BY <1>3 DEF Single
    <3>1. n + i = n + j BY <1>3, <1>6, <1>8 DEF Single
    <3> QED BY <3>1, <1>1
  <2>3. ~(IsIn(a, e) /\ IsIn(b, e)) BY <1>3, <1>5, <1>6, <1>8, ZenonT(60) DEF IsIn, Single
  <2> QED BY <2>1, <2>2, <2>3
<1>9. ASSUME Single(a, e) /\ Single(b, e) /\ ~(IsIn(a, e) /\ IsIn(b, e)) PROVE Single(c, e)
  <2> SUFFICES ASSUME NEW i \in 1 .. n + k, NEW j \in 1 .. n + k, c[i] = e, c[j] = e PROVE i = j
    BY <1>3 DEF Single
  <2>1. CASE i \in 1 .. n /\ j \in 1 .. n BY <2>1, <1>3, <1>9 DEF Single
  <2>2. CASE i \notin 1 .. n /\ j \notin 1 .. n
    <3>1. PICK g \in 1 .. k, h \in 1 .. k : i = n + g /\ j = n + h BY <1>4, <2>2
    <3>2. b[g] = e /\ b[h] = e BY <3>1, <1>3
    <3>3. g = h BY <3>2, <1>3, <1>9 DEF Single
    <3> QED BY <3>1, <3>3
  <2>3. CASE ~(i \in 1 .. n <=> j \in 1 .. n) BY <2>3, <1>3, <1>4, <1>9, ZenonT(60) DEF IsIn
  <2> QED BY <2>1, <2>2, <2>3
<1> QED BY <1>2, <1>7, <1>8, <1>9

LEMMA CutAt ==
    ASSUME NEW S, NEW s \in Seq(S), NEW k \in Nat, k <= Len(s)
    PROVE  /\ SubSeq(s, 1, k) \in Seq(S) /\ SubSeq(s, k + 1, Len(s)) \in Seq(S)
           /\ Len(SubSeq(s, 1, k)) = k /\ Len(SubSeq(s, k + 1, Len(s))) = Len(s) - k
           /\ s = SubSeq(s, 1, k) \o SubSeq(s, k + 1, Len(s))
<1>1. PICK n \in Nat : n = Len(s) OBVIOUS
<1>2. /\ SubSeq(s, 1, k) \in Seq(S) /\ Len(SubSeq(s, 1, k)) = k
      /\ \A i \in 1 .. k : SubSeq(s, 1, k)[i] = s[i]
  BY <1>1
<1>3. /\ SubSeq(s, k + 1, n) \in Seq(S) /\ Len(SubSeq(s, k + 1, n)) = n - k
      /\ \A i \in 1 .. n - k : SubSeq(s, k + 1, n)[i] = s[k + i]
  BY <1>1
<1>4. PICK a \in Seq(S), b \in Seq(S) : a = SubSeq(s, 1, k) /\ b = SubSeq(s, k + 1, n) BY <1>2, <1>3
<1>a. Len(a) = k /\ Len(b) = n - k BY <1>1, <1>2, <1>3, <1>4
<1>b. PICK c \in Seq(S) : c = a \o b BY ConcatProperties
<1>c. Len(c) = Len(a) + Len(b) /\ \A i \in 1 .. Len(a) + Len(b) : c[i] = IF i <= Len(a) THEN a[i] ELSE b[i - Len(a)]
  BY <1>b, ConcatProperties
<1>5. Len(c) = n /\ \A i \in 1 .. n : c[i] = IF i <= k THEN a[i] ELSE b[i - k]
  <2>1. Len(a) + Len(b) = n BY <1>a, <1>1
  <2> QED BY <2>1, <1>a, <1>c
<1>6. \A i \in 1 .. n : c[i] = s[i]
  <2> SUFFICES ASSUME NEW i \in 1 .. n PROVE c[i] = s[i] OBVIOUS
  <2>1. CASE i <= k
    <3>1. i \in 1 .. k BY <2>1, <1>1
    <3> QED BY <2>1, <3>1, <1>2, <1>4, <1>5
  <2>2. CASE ~(i <= k)
    <3>1. i - k \in 1 .. n - k /\ k + (i - k) = i BY <2>2, <1>1
    <3> QED BY <2>2, <3>1, <1>3, <1>4, <1>5
  <2> QED BY <2>1, <2>2
<1>7. s = a \o b BY <1>1, <1>b, <1>5, <1>6, SeqEqual
<1> QED BY <1>1, <1>2, <1>3, <1>4, <1>7

LEMMA AsksConcat ==
    ASSUME NEW S, NEW a \in Seq(S), NEW b \in Seq(S)
    PROVE  /\ Asks(a \o b) <=> Asks(a) \/ Asks(b)
           /\ NoData(a \o b) <=> NoData(a) /\ NoData(b)
<1>1. PICK n \in Nat, k \in Nat : n = Len(a) /\ k = Len(b) OBVIOUS
<1>2. PICK c \in Seq(S) : c = a \o b BY ConcatProperties
<1>3. /\ DOMAIN a = 1 .. n /\ DOMAIN b = 1 .. k /\ DOMAIN c = 1 .. n + k
      /\ \A i \in 1 .. n : c[i] = a[i]
      /\ \A i \in 1 .. k : c[n + i] = b[i]
  <2>1. /\ Len(c) = n + k /\ DOMAIN a = 1 .. n /\ DOMAIN b = 1 .. k
        /\ \A i \in 1 .. n + k : c[i] = IF i <= n THEN a[i] ELSE b[i - n]
    BY <1>1, <1>2, ConcatProperties
  <2>2. \A i \in 1 .. n : i \in 1 .. n + k /\ i <= n BY <1>1
  <2>3. \A i \in 1 .. k : n + i \in 1 .. n + k /\ ~(n + i <= n) /\ (n + i) - n = i BY <1>1
  <2>4. DOMAIN c = 1 .. n + k BY <2>1
  <2> QED BY <2>1, <2>2, <2>3, <2>4
<1>4. \A i \in 1 .. n + k : i \in 1 .. n \/ \E j \in 1 .. k : i = n + j
  <2> SUFFICES ASSUME NEW i \in 1 .. n + k, i \notin 1 .. n PROVE i - n \in 1 .. k /\ i = n + (i - n) OBVIOUS
  <2> QED BY <1>1
<1>5. \A i \in 1 .. n : i \in 1 .. n + k BY <1>1
<1>6. \A i \in 1 .. k : n + i \in 1 .. n + k BY <1>1
<1>7. Asks(c) <=> Asks(a) \/ Asks(b)
  <2>1. ASSUME Asks(c) PROVE Asks(a) \/ Asks(b)
    <3>1. PICK i \in 1 .. n + k : c[i].kind = "KPALIVE_REQ" BY <2>1, <1>3 DEF Asks
    <3> QED BY <3>1, <1>3, <1>4, ZenonT(60) DEF Asks
  <2>2. Asks(a) => Asks(c) BY <1>3, <1>5 DEF Asks
  <2>3. Asks(b) => Asks(c) BY <1>3, <1>6 DEF Asks
  <2> QED BY <2>1, <2>2, <2>3
<1>8. NoData(c) <=> NoData(a) /\ NoData(b)
  <2>1. ASSUME NoData(a), NoData(b), NEW i \in 1 .. n + k PROVE c[i].kind # "EXP"
    BY <2>1, <1>3, <1>4, ZenonT(60) DEF NoData
  <2>2. NoData(c) => NoData(a) BY <1>3, <1>5 DEF NoData
  <2>3. NoData(c) => NoData(b) BY <1>3, <1>6 DEF NoData
  <2> QED BY <2>1, <2>2, <2>3, <1>3 DEF NoData
<1> QED BY <1>2, <1>7, <1>8

LEMMA DataAre ==
    ASSUME NEW K, \A k \in K : k = [kind |-> k.kind, what |-> k.what], NEW l \in Seq(K), NEW m
    PROVE  /\ m \in DataOf(l) <=> IsIn(l, Data(m))
           /\ NoData(l) => ~IsIn(l, Data(m)) /\ Single(l, Data(m))
<1>1. \A i \in DOMAIN l : l[i] = Data(m) <=> l[i].kind = "EXP" /\ l[i].what = m BY DEF Data
<1>2. m \in DataOf(l) <=> IsIn(l, Data(m)) BY <1>1 DEF DataOf, IsIn
<1>3. NoData(l) => ~IsIn(l, Data(m)) /\ Single(l, Data(m)) BY <1>1 DEF NoData, IsIn, Single
<1> QED BY <1>2, <1>3

-----------------------------------------------------------------------------
(* The hand shake. *)

\* What is used of the set of messages to send.
MesgSet(K) ==
    /\ \A k \in K : k = [kind |-> k.kind, what |-> k.what]
    /\ Sys("AUTH_REQ") \in K /\ Sys("KPALIVE_REQ") \in K /\ \A u \in Types : SubReq(u) \in K

LEMMA OutMesgsAre == MesgSet(OutMesgs)
<1>1. \A k \in OutMesgs : k = [kind |-> k.kind, what |-> k.what] BY DEF OutMesgs
<1>2. Sys("AUTH_REQ") \in OutMesgs /\ Sys("KPALIVE_REQ") \in OutMesgs BY DEF OutMesgs, Sys
<1>3. \A u \in Types : SubReq(u) \in OutMesgs BY DEF OutMesgs, SubReq
<1> QED BY <1>1, <1>2, <1>3 DEF MesgSet

LEMMA SubReqsCount ==
    Cardinality({SubReq(u) : u \in Types}) = Cardinality(Types) /\ Cardinality(Types) \in Nat
<1>1. PICK T : T = {SubReq(u) : u \in Types} OBVIOUS
<1>2. PICK f : f = [u \in Types |-> SubReq(u)] OBVIOUS
<1>3. f \in [Types -> T] /\ \A u \in Types : f[u] = SubReq(u) BY <1>1, <1>2
<1>4. \A u, v \in Types : f[u] = f[v] => u = v BY <1>3 DEF SubReq
<1>5. \A x \in T : \E u \in Types : f[u] = x BY <1>1, <1>3
<1>6. f \in Injection(Types, T) BY <1>3, <1>4 DEF Injection, IsInjective
<1>7. f \in Surjection(Types, T) BY <1>3, <1>5 DEF Surjection
<1>8. ExistsBijection(Types, T) BY <1>6, <1>7 DEF ExistsBijection, Bijection
<1> QED BY <1>1, <1>8, FS_Bijection, FS_CardinalityType, ProxyAssumption

\* A hand shake: AUTH_REQ, then each SUB_REQ once.
Greets(h) ==
    /\ Len(h) = HelloLen /\ h[1] = Sys("AUTH_REQ")
    /\ \A i \in 2 .. HelloLen : h[i].kind = "SUB_REQ"
    /\ \A i, j \in 1 .. HelloLen : h[i] = h[j] => i = j

LEMMA HelloIs ==
    ASSUME NEW K, MesgSet(K), NEW h \in Hellos
    PROVE  HelloLen \in Nat \ {0} /\ h \in Seq(K) /\ Greets(h) /\ NoData(h)
<1>1. PICK n \in Nat : n = Cardinality(Types) BY SubReqsCount
<1>2. HelloLen = n + 1 BY <1>1 DEF HelloLen
<1>3. PICK T : T = {SubReq(u) : u \in Types} OBVIOUS
<1>4. Cardinality(T) = n BY <1>1, <1>3, SubReqsCount
<1>5. PICK o \in SetToSeqs(T) : h = <<Sys("AUTH_REQ")>> \o o BY <1>3 DEF Hellos
<1>6. o \in [1 .. n -> T] /\ \A i, j \in 1 .. n : i # j => o[i] # o[j] BY <1>4 DEF SetToSeqs
<1>7. T \subseteq K /\ \A x \in T : x.kind = "SUB_REQ" BY <1>3 DEF MesgSet, SubReq
<1>8. o \in Seq(K) /\ Len(o) = n
  <2>1. o \in [1 .. n -> K] BY <1>6, <1>7
  <2> QED BY <2>1
<1>9. PICK a \in Seq(K) : a = <<Sys("AUTH_REQ")>> /\ Len(a) = 1 /\ a[1] = Sys("AUTH_REQ")
  <2>1. PICK e \in K : e = Sys("AUTH_REQ") BY DEF MesgSet
  <2>2. <<e>> \in Seq(K) /\ Len(<<e>>) = 1 /\ <<e>>[1] = e OBVIOUS
  <2> QED BY <2>1, <2>2
<1>10. h = a \o o BY <1>5, <1>9
<1>11. /\ h \in Seq(K) /\ Len(h) = 1 + n
       /\ \A i \in 1 .. 1 + n : h[i] = IF i <= 1 THEN a[i] ELSE o[i - 1]
  BY <1>8, <1>9, <1>10, ConcatProperties
<1>12. h[1] = Sys("AUTH_REQ") BY <1>9, <1>11
<1>13. \A i \in 2 .. n + 1 : i - 1 \in 1 .. n /\ h[i] = o[i - 1] BY <1>11
<1>14. \A i \in 2 .. n + 1 : h[i].kind = "SUB_REQ" BY <1>6, <1>7, <1>13
<1>15. \A i, j \in 2 .. n + 1 : h[i] = h[j] => i = j
  <2> SUFFICES ASSUME NEW i \in 2 .. n + 1, NEW j \in 2 .. n + 1, h[i] = h[j], i # j PROVE FALSE OBVIOUS
  <2>1. i - 1 \in 1 .. n /\ j - 1 \in 1 .. n /\ i - 1 # j - 1 OBVIOUS
  <2> QED BY <2>1, <1>6, <1>13
<1>16. h[1].kind = "AUTH_REQ" BY <1>12 DEF Sys
<1>17. \A i \in 1 .. n + 1 : i = 1 \/ i \in 2 .. n + 1 OBVIOUS
<1>18. \A i, j \in 1 .. n + 1 : h[i] = h[j] => i = j BY <1>14, <1>15, <1>16, <1>17
<1>19. Greets(h) BY <1>2, <1>11, <1>12, <1>14, <1>18 DEF Greets
<1>20. \A i \in 1 .. n + 1 : h[i].kind # "EXP" BY <1>14, <1>16, <1>17
<1>21. NoData(h) BY <1>11, <1>20 DEF NoData
<1> QED BY <1>2, <1>11, <1>19, <1>21

LEMMA FollowsMore ==
    ASSUME NEW K, NEW h, NEW a \in Seq(K), NEW b \in Seq(K), Follows(h, a)
    PROVE  Follows(h, a \o b)
<1>1. PICK H \in Nat : H = HelloLen BY SubReqsCount DEF HelloLen
<1>2. PICK x \in Nat, y \in Nat : x = Len(a) /\ y = Len(b) OBVIOUS
<1>3. Len(a \o b) = x + y /\ \A i \in 1 .. x + y : (a \o b)[i] = IF i <= x THEN a[i] ELSE b[i - x]
  BY <1>2, ConcatProperties
<1>4. x >= H /\ \A i \in 1 .. H : a[i] = h[i] BY <1>1, <1>2 DEF Follows
<1>5. \A i \in 1 .. H : i \in 1 .. x + y /\ i <= x BY <1>2, <1>4
<1> QED BY <1>1, <1>2, <1>3, <1>4, <1>5 DEF Follows

\* Of what the broker got only the first messages are remembered.
LEMMA FollowsKept ==
    ASSUME NEW K, NEW h, NEW a \in Seq(K), NEW b \in Seq(K), Follows(h, a \o b)
    PROVE  Keep(a) \in Seq(K) /\ Len(Keep(a)) <= HelloLen /\ Follows(h, Keep(a) \o b)
<1>1. PICK H \in Nat : H = HelloLen BY SubReqsCount DEF HelloLen
<1>2. PICK x \in Nat, y \in Nat : x = Len(a) /\ y = Len(b) OBVIOUS
<1>3. PICK z \in Nat : z = Lesser(x, H) BY DEF Lesser
<1>4. z <= x /\ z <= H /\ (z = x \/ z = H) BY <1>3 DEF Lesser
<1>5. Keep(a) = SubSeq(a, 1, z) BY <1>1, <1>2, <1>3 DEF Keep, HelloLen
<1>6. PICK k \in Seq(K) : k = Keep(a) /\ Len(k) = z /\ \A i \in 1 .. z : k[i] = a[i]
  <2>1. SubSeq(a, 1, z) \in Seq(K) /\ Len(SubSeq(a, 1, z)) = z BY <1>2, <1>4, CutAt
  <2>2. \A i \in 1 .. z : SubSeq(a, 1, z)[i] = a[i] BY <1>2, <1>4
  <2> QED BY <2>1, <2>2, <1>5
<1>7. Len(a \o b) = x + y /\ \A i \in 1 .. x + y : (a \o b)[i] = IF i <= x THEN a[i] ELSE b[i - x]
  BY <1>2, ConcatProperties
<1>8. Len(k \o b) = z + y /\ \A i \in 1 .. z + y : (k \o b)[i] = IF i <= z THEN k[i] ELSE b[i - z]
  <2>1. Len(k \o b) = Len(k) + Len(b) /\ \A i \in 1 .. Len(k) + Len(b) :
          (k \o b)[i] = IF i <= Len(k) THEN k[i] ELSE b[i - Len(k)]
    BY ConcatProperties
  <2> QED BY <2>1, <1>2, <1>6
<1>9. x + y >= H /\ \A i \in 1 .. H : (a \o b)[i] = h[i] BY <1>1, <1>7 DEF Follows
<1>10. z + y >= H BY <1>4, <1>9
<1>11. ASSUME NEW i \in 1 .. H PROVE (k \o b)[i] = h[i]
  <2>1. i \in 1 .. z + y /\ i \in 1 .. x + y BY <1>9, <1>10
  <2>2. CASE i <= z
    <3>1. i \in 1 .. z /\ i <= x BY <2>2, <1>4
    <3> QED BY <2>1, <2>2, <3>1, <1>6, <1>7, <1>8, <1>9
  <2>3. CASE ~(i <= z)
    <3>1. z = x BY <2>3, <1>4
    <3> QED BY <2>1, <2>3, <3>1, <1>7, <1>8, <1>9
  <2> QED BY <2>2, <2>3
<1> QED BY <1>1, <1>4, <1>6, <1>8, <1>10, <1>11 DEF Follows

\* What the broker has got is a part of the hand shake.
LEMMA FollowsStart ==
    ASSUME NEW K, NEW h, NEW a \in Seq(K), NEW b \in Seq(K), Follows(h, a \o b), Len(a) <= HelloLen
    PROVE  \A i \in 1 .. Len(a) : i \in 1 .. HelloLen /\ a[i] = h[i]
<1>1. PICK H \in Nat : H = HelloLen BY SubReqsCount DEF HelloLen
<1>2. PICK x \in Nat, y \in Nat : x = Len(a) /\ y = Len(b) OBVIOUS
<1>3. Len(a \o b) = x + y /\ \A i \in 1 .. x + y : (a \o b)[i] = IF i <= x THEN a[i] ELSE b[i - x]
  BY <1>2, ConcatProperties
<1>4. \A i \in 1 .. x : i \in 1 .. H /\ i \in 1 .. x + y /\ i <= x BY <1>1, <1>2
<1> QED BY <1>1, <1>2, <1>3, <1>4 DEF Follows

-----------------------------------------------------------------------------
(* One connection. *)

LEMMA TsvrFields ==
    ASSUME NEW K, NEW s, NEW n, TsvrOk(K, s, n)
    PROVE  /\ s.fd \in BOOLEAN /\ s.mesg \in Seq(K) /\ s.iov \in Seq(K) /\ s.idx \in Nat
           /\ s.kp \in {"UNKNOWN", "SENT", "SUCC"} /\ s.wr \in 0 .. 1 /\ s.rdy \in BOOLEAN /\ s.full \in BOOLEAN
           /\ n.open \in BOOLEAN /\ n.in \in Seq(In \cup {"KPALIVE_ACK", "BAD"})
           /\ n.pre \in Seq(K) /\ n.asked \in BOOLEAN
BY DEF TsvrOk, Socks, Peers

\* The lists stay.
LEMMA TsvrSame ==
    ASSUME NEW K, NEW s, NEW n, TsvrOk(K, s, n), NEW s2 \in Socks(K),
           s2.fd = s.fd, s2.mesg = s.mesg, s2.iov = s.iov, s2.idx = s.idx, s2.kp = s.kp
    PROVE  TsvrOk(K, s2, n)
BY DEF TsvrOk

LEMMA NoNetIs == ASSUME NEW K PROVE NoNet \in Peers(K) /\ NoNet.in = <<>> /\ NoNet.pre = <<>> /\ NoNet.asked = FALSE
BY DEF NoNet, Peers

LEMMA TsvrClosed ==
    ASSUME NEW K, NEW s2 \in Socks(K), ~s2.fd, s2.iov = <<>>, s2.idx = 0, NoData(s2.mesg)
    PROVE  TsvrOk(K, s2, NoNet)
<1>0. NoNet \in Peers(K) /\ NoNet.in = <<>> BY NoNetIs
<1>1. NoNet \in Peers(K) /\ Len(NoNet.in) = 0 BY <1>0
<1>2. IovMax \in Nat /\ InboxMax \in Nat BY ProxyAssumption
<1>3. s2.idx + Len(s2.iov) <= IovMax BY <1>2
<1> QED BY <1>1, <1>2, <1>3 DEF TsvrOk

LEMMA TsvrOpened ==
    ASSUME NEW K, MesgSet(K), NEW s, NEW n, TsvrOk(K, s, n), ~s.fd, NEW h \in Hellos, NEW s2 \in Socks(K),
           s2.fd, s2.iov = s.iov, s2.idx = s.idx, s2.kp = "UNKNOWN", s2.mesg = h,
           NEW n2 \in Peers(K), n2.in = <<>>, n2.pre = <<>>
    PROVE  TsvrOk(K, s2, n2)
<1>1. HelloLen \in Nat \ {0} /\ h \in Seq(K) /\ Len(h) = HelloLen /\ NoData(h) BY HelloIs DEF Greets
<1>2. s2.iov = <<>> /\ s2.idx = 0 BY DEF TsvrOk
<1>3. n2.pre \o (s2.iov \o s2.mesg) = h BY <1>1, <1>2, ConcatEmptySeq
<1>4. Follows(h, h) BY <1>1 DEF Follows
<1>5. InboxMax \in Nat /\ IovMax \in Nat BY ProxyAssumption
<1>6. Len(n2.pre) <= HelloLen /\ Len(n2.in) <= InboxMax /\ s2.idx + Len(s2.iov) <= IovMax BY <1>1, <1>2, <1>5
<1>7. \E g \in Hellos : Follows(g, n2.pre \o (s2.iov \o s2.mesg)) BY <1>3, <1>4
<1> QED BY <1>1, <1>2, <1>6, <1>7 DEF TsvrOk

\* rtmq_proxy_tsvr_kpalive_req
LEMMA TsvrAsks ==
    ASSUME NEW K, MesgSet(K), NEW s, NEW n, TsvrOk(K, s, n), s.fd, NEW s2 \in Socks(K),
           s2.fd, s2.iov = s.iov, s2.idx = s.idx, s2.mesg = Append(s.mesg, Sys("KPALIVE_REQ"))
    PROVE  TsvrOk(K, s2, n)
<1>1. PICK v \in Seq(K), l \in Seq(K) : v = s.iov /\ l = s.mesg BY TsvrFields
<1>2. PICK p \in Seq(K) : p = n.pre BY TsvrFields
<1>3. PICK e \in K : e = Sys("KPALIVE_REQ") BY DEF MesgSet
<1>4. <<e>> \in Seq(K) /\ Len(<<e>>) = 1 /\ <<e>>[1] = e OBVIOUS
<1>5. PICK b \in Seq(K) : b = <<e>> BY <1>4
<1>6. s2.mesg = l \o b BY <1>1, <1>3, <1>5, AppendIsConcat
<1>7. DOMAIN b = {1} /\ b[1].kind = "KPALIVE_REQ" BY <1>3, <1>4, <1>5 DEF Sys
<1>8. Asks(b) /\ NoData(b) BY <1>7 DEF Asks, NoData
<1>9. NoData(l) BY <1>1 DEF TsvrOk
<1>10. Asks(l \o b) /\ NoData(l \o b) BY <1>8, <1>9, AsksConcat
<1>11. PICK h \in Hellos : Follows(h, p \o (v \o l)) BY <1>1, <1>2 DEF TsvrOk
<1>12. PICK w \in Seq(K) : w = v \o l BY ConcatProperties
<1>13. PICK x \in Seq(K) : x = p \o w BY ConcatProperties
<1>14. Follows(h, x \o b) BY <1>11, <1>12, <1>13, FollowsMore
<1>15. x \o b = p \o (w \o b) BY <1>13, ConcatAssociative, SMTT(30)
<1>16. w \o b = v \o (l \o b) BY <1>12, ConcatAssociative, SMTT(30)
<1>17. \E g \in Hellos : Follows(g, n.pre \o (s2.iov \o s2.mesg)) BY <1>1, <1>2, <1>6, <1>14, <1>15, <1>16
<1> QED BY <1>6, <1>10, <1>17 DEF TsvrOk

\* The first message of the inbox is read.
LEMMA TsvrReadsOne ==
    ASSUME NEW K, NEW s, NEW n, TsvrOk(K, s, n), s.fd, n.in # <<>>,
           NEW s2 \in Socks(K), s2.fd = s.fd, s2.mesg = s.mesg, s2.iov = s.iov, s2.idx = s.idx,
           NEW n2 \in Peers(K), n2.pre = n.pre, n2.asked = n.asked, n2.in = Tail(n.in),
           s2.kp = "SUCC" \/ (s2.kp = s.kp /\ Head(n.in) # "KPALIVE_ACK")
    PROVE  TsvrOk(K, s2, n2)
<1>1. PICK B : B = In \cup {"KPALIVE_ACK", "BAD"} OBVIOUS
<1>2. PICK l \in Seq(B) : l = n.in BY <1>1, TsvrFields
<1>3. Len(Tail(l)) <= Len(l) /\ Len(Tail(l)) \in Nat /\ Len(l) \in Nat BY <1>2
<1>4. Len(n2.in) <= InboxMax BY <1>2, <1>3, ProxyAssumption DEF TsvrOk
<1>5. ASSUME Answered(l), l[1] # "KPALIVE_ACK" PROVE Answered(Tail(l))
  <2>1. PICK i \in 1 .. Len(l) : l[i] = "KPALIVE_ACK" BY <1>5 DEF Answered
  <2>2. i # 1 BY <1>5, <2>1
  <2>3. i - 1 \in DOMAIN Tail(l) /\ Tail(l)[i - 1] = l[i] BY <2>1, <2>2, <1>2
  <2> QED BY <2>1, <2>3 DEF Answered
<1>6. Head(l) = l[1] BY <1>2
<1>7. s2.kp = "SENT" => Asks(s.mesg) \/ Asks(s.iov) \/ n.asked \/ Answered(n2.in) BY <1>2, <1>5, <1>6 DEF TsvrOk
<1> QED BY <1>4, <1>7 DEF TsvrOk

LEMMA TsvrHears ==
    ASSUME NEW K, NEW s, NEW n, TsvrOk(K, s, n), s.fd, Len(n.in) < InboxMax,
           NEW s2 \in Socks(K), s2.fd = s.fd, s2.mesg = s.mesg, s2.iov = s.iov, s2.idx = s.idx, s2.kp = s.kp,
           NEW m \in In \cup {"KPALIVE_ACK", "BAD"},
           NEW n2 \in Peers(K), n2.pre = n.pre, n2.asked = (n.asked /\ m # "KPALIVE_ACK"), n2.in = Append(n.in, m)
    PROVE  TsvrOk(K, s2, n2)
<1>1. PICK B : B = In \cup {"KPALIVE_ACK", "BAD"} OBVIOUS
<1>2. PICK l \in Seq(B) : l = n.in BY <1>1, TsvrFields
<1>3. PICK z \in Nat : z = Len(l) OBVIOUS
<1>4. /\ Len(Append(l, m)) = z + 1 /\ Append(l, m)[z + 1] = m
      /\ \A i \in 1 .. z : i \in 1 .. z + 1 /\ Append(l, m)[i] = l[i]
  BY <1>1, <1>3
<1>5. Len(n2.in) <= InboxMax BY <1>2, <1>3, <1>4, ProxyAssumption
<1>6. Answered(l) => Answered(n2.in) BY <1>2, <1>3, <1>4 DEF Answered
<1>7. m = "KPALIVE_ACK" => Answered(n2.in)
  <2>1. z + 1 \in DOMAIN n2.in /\ n2.in[z + 1] = m BY <1>2, <1>4
  <2> QED BY <2>1 DEF Answered
<1>8. s2.kp = "SENT" => Asks(s.mesg) \/ Asks(s.iov) \/ n2.asked \/ Answered(n2.in) BY <1>2, <1>6, <1>7 DEF TsvrOk
<1> QED BY <1>5, <1>8 DEF TsvrOk

\* Concatenation, its laws as facts to cite.
Cat(a, b) == a \o b

LEMMA CatIs ==
    ASSUME NEW K
    PROVE  /\ \A a, b \in Seq(K) : Cat(a, b) \in Seq(K)
           /\ \A a, b, c \in Seq(K) : Cat(Cat(a, b), c) = Cat(a, Cat(b, c))
           /\ \A a \in Seq(K) : Cat(a, <<>>) = a /\ Cat(<<>>, a) = a
<1>1. \A a, b \in Seq(K) : Cat(a, b) \in Seq(K) BY ConcatProperties DEF Cat
<1>2. \A a, b, c \in Seq(K) : Cat(Cat(a, b), c) = Cat(a, Cat(b, c)) BY ConcatAssociative DEF Cat
<1>3. \A a \in Seq(K) : Cat(a, <<>>) = a /\ Cat(<<>>, a) = a BY ConcatEmptySeq DEF Cat
<1> QED BY <1>1, <1>2, <1>3

\* rtmq_proxy_tsvr_wiov_add on a socket and a queue: of the system messages x goes into the
\* iovec and M stays, of the queue a goes and Q stays, and a goes only after all of the former.
Fills(K, s, q, F, M, Q) ==
    /\ F \in Seq(K) /\ M \in Seq(K) /\ Q \in Seq(K) /\ s.idx + Len(F) <= IovMax /\ Len(Q) <= Len(q)
    /\ \E x, a \in Seq(K) : /\ s.mesg = x \o M /\ q = a \o Q /\ F = s.iov \o x \o a
                            /\ M = <<>> \/ a = <<>>

LEMMA LesserIs ==
    ASSUME NEW a \in Nat, NEW b \in Nat
    PROVE  Lesser(a, b) \in Nat /\ Lesser(a, b) <= a /\ Lesser(a, b) <= b /\ (Lesser(a, b) = a \/ Lesser(a, b) = b)
BY DEF Lesser

LEMMA Filled ==
    ASSUME NEW K, NEW s \in Socks(K), s.idx + Len(s.iov) <= IovMax, NEW q \in Seq(K),
           NEW sys, sys = Lesser(IovMax - (s.idx + Len(s.iov)), Len(s.mesg)),
           NEW dat, dat = Lesser(IovMax - (s.idx + Len(s.iov)) - sys, Len(q))
    PROVE  Fills(K, s, q, s.iov \o SubSeq(s.mesg, 1, sys) \o SubSeq(q, 1, dat),
                 SubSeq(s.mesg, sys + 1, Len(s.mesg)), SubSeq(q, dat + 1, Len(q)))
<1>1. PICK v \in Seq(K), l \in Seq(K) : v = s.iov /\ l = s.mesg BY DEF Socks
<1>2. PICK a \in Nat, b \in Nat : a = Len(v) /\ b = Len(l) OBVIOUS
<1>3. PICK c \in Nat : c = Len(q) OBVIOUS
<1>4. PICK i \in Nat : i = s.idx BY DEF Socks
<1>5. IovMax \in Nat BY ProxyAssumption
<1>6. PICK r \in Nat : r = IovMax - (i + a)
  <2>1. i + a <= IovMax BY <1>1, <1>2, <1>4
  <2>2. IovMax - (i + a) \in Nat BY <2>1, <1>5
  <2> QED BY <2>2
<1>7. sys = Lesser(r, b) BY <1>1, <1>2, <1>4, <1>6
<1>8. sys \in Nat /\ sys <= r /\ sys <= b /\ (sys = r \/ sys = b) BY <1>7, LesserIs
<1>9. PICK o \in Nat : o = r - sys
  <2>1. r - sys \in Nat BY <1>8
  <2> QED BY <2>1
<1>10. dat = Lesser(o, c) BY <1>1, <1>2, <1>3, <1>4, <1>6, <1>9
<1>11. dat \in Nat /\ dat <= o /\ dat <= c BY <1>10, LesserIs
<1>12. PICK x \in Seq(K), M \in Seq(K) : x = SubSeq(l, 1, sys) /\ M = SubSeq(l, sys + 1, b)
  BY <1>2, <1>8, CutAt
<1>13. Len(x) = sys /\ Len(M) = b - sys /\ l = x \o M BY <1>2, <1>8, <1>12, CutAt, ZenonT(60)
<1>14. PICK y \in Seq(K), Q \in Seq(K) : y = SubSeq(q, 1, dat) /\ Q = SubSeq(q, dat + 1, c)
  BY <1>3, <1>11, CutAt
<1>15. Len(y) = dat /\ Len(Q) = c - dat /\ q = y \o Q
  <2>1. dat <= Len(q) BY <1>3, <1>11
  <2>2. Len(SubSeq(q, 1, dat)) = dat /\ Len(SubSeq(q, dat + 1, Len(q))) = Len(q) - dat
    BY <2>1, <1>11, CutAt, SMTT(30)
  <2>3. q = SubSeq(q, 1, dat) \o SubSeq(q, dat + 1, Len(q)) BY <2>1, <1>11, CutAt
  <2> QED BY <1>3, <1>14, <2>2, <2>3
<1>16. PICK w \in Seq(K) : w = v \o x /\ Len(w) = a + sys
  <2>1. v \o x \in Seq(K) /\ Len(v \o x) = Len(v) + Len(x) BY ConcatProperties
  <2> QED BY <2>1, <1>2, <1>13
<1>17. PICK F \in Seq(K) : F = w \o y /\ Len(F) = a + sys + dat
  <2>1. w \o y \in Seq(K) /\ Len(w \o y) = Len(w) + Len(y) BY ConcatProperties
  <2> QED BY <2>1, <1>15, <1>16
<1>18. F = v \o x \o y BY <1>16, <1>17
<1>19. s.idx + Len(F) <= IovMax
  <2>1. sys + dat <= r BY <1>8, <1>9, <1>11, SMTT(30)
  <2>a. PICK j \in Nat : j = sys + dat BY <1>8, <1>11, SMTT(30)
  <2>b. i + a + j <= IovMax BY <2>1, <2>a, <1>5, <1>6
  <2>2. i + (a + sys + dat) <= IovMax BY ONLY <2>a, <2>b, <1>5, <1>8, <1>11
  <2> QED BY <2>2, <1>4, <1>17
<1>20. Len(Q) <= Len(q) BY <1>3, <1>11, <1>15
<1>21. M = <<>> \/ y = <<>>
  <2>1. CASE sys = b
    <3>1. Len(M) = 0 BY <2>1, <1>13
    <3> QED BY <3>1, EmptySeq
  <2>2. CASE sys = r
    <3>1. dat = 0 BY <2>2, <1>9, <1>11
    <3>2. Len(y) = 0 BY <3>1, <1>15
    <3> QED BY <3>2, EmptySeq
  <2> QED BY <2>1, <2>2, <1>8
<1>22. /\ s.iov \o SubSeq(s.mesg, 1, sys) \o SubSeq(q, 1, dat) = F
       /\ SubSeq(s.mesg, sys + 1, Len(s.mesg)) = M /\ SubSeq(q, dat + 1, Len(q)) = Q
  BY <1>1, <1>2, <1>3, <1>12, <1>14, <1>18
<1>23. Fills(K, s, q, F, M, Q) BY <1>1, <1>13, <1>15, <1>18, <1>19, <1>20, <1>21 DEF Fills
<1> QED BY <1>22, <1>23

\* What is next for the broker still begins with the hand shake.
LEMMA Longer ==
    ASSUME NEW K, NEW p \in Seq(K), NEW v \in Seq(K), NEW x \in Seq(K), NEW a \in Seq(K), NEW M \in Seq(K),
           M = <<>> \/ a = <<>>
    PROVE  Cat(p, Cat(Cat(Cat(v, x), a), M)) = Cat(Cat(p, Cat(v, Cat(x, M))), a)
<1>1. PICK w \in Seq(K) : w = Cat(v, x) BY CatIs
<1>2. PICK y \in Seq(K) : y = Cat(w, M) BY CatIs
<1>3. Cat(v, Cat(x, M)) = y BY <1>1, <1>2, CatIs
<1>4. Cat(Cat(p, y), a) = Cat(p, Cat(y, a)) BY CatIs
<1>5. CASE a = <<>>
  <2>1. Cat(w, a) = w /\ Cat(y, a) = y BY <1>5, CatIs
  <2> QED BY <1>1, <1>2, <1>3, <1>4, <2>1
<1>6. CASE M = <<>>
  <2>1. y = w BY <1>2, <1>6, CatIs
  <2>2. PICK z \in Seq(K) : z = Cat(w, a) BY CatIs
  <2>3. Cat(z, M) = z BY <1>6, CatIs
  <2> QED BY <1>1, <1>3, <1>4, <2>1, <2>2, <2>3
<1> QED BY <1>5, <1>6

LEMMA FillsFollow ==
    ASSUME NEW K, NEW s \in Socks(K), NEW q, NEW F, NEW M, NEW Q, Fills(K, s, q, F, M, Q),
           NEW p \in Seq(K), NEW h, Follows(h, p \o (s.iov \o s.mesg))
    PROVE  Follows(h, p \o (F \o M))
<1>1. PICK v \in Seq(K), l \in Seq(K) : v = s.iov /\ l = s.mesg BY DEF Socks
<1>2. PICK N \in Seq(K) : N = M BY DEF Fills
<1>3. PICK x \in Seq(K), a \in Seq(K) : l = x \o N /\ F = v \o x \o a /\ (N = <<>> \/ a = <<>>)
  BY <1>1, <1>2 DEF Fills
<1>a. Cat(p, Cat(Cat(Cat(v, x), a), N)) = Cat(Cat(p, Cat(v, Cat(x, N))), a) BY <1>3, Longer
<1>4. p \o (F \o M) = (p \o (v \o (x \o N))) \o a BY <1>a, <1>2, <1>3 DEF Cat
<1>5. PICK w \in Seq(K) : w = v \o l BY ConcatProperties
<1>6. PICK y \in Seq(K) : y = p \o w BY ConcatProperties
<1>7. Follows(h, y \o a) BY <1>1, <1>5, <1>6, FollowsMore
<1> QED BY <1>3, <1>4, <1>5, <1>6, <1>7

LEMMA FillsAsk ==
    ASSUME NEW K, NEW s \in Socks(K), NEW q, NEW F, NEW M, NEW Q, Fills(K, s, q, F, M, Q)
    PROVE  /\ Asks(s.mesg) \/ Asks(s.iov) => Asks(F) \/ Asks(M)
           /\ NoData(s.mesg) => NoData(M)
<1>1. PICK v \in Seq(K), l \in Seq(K) : v = s.iov /\ l = s.mesg BY DEF Socks
<1>2. F \in Seq(K) /\ M \in Seq(K) BY DEF Fills
<1>3. PICK x \in Seq(K), a \in Seq(K) : l = x \o M /\ F = v \o x \o a BY <1>1 DEF Fills
<1>4. PICK w \in Seq(K) : w = v \o x BY ConcatProperties
<1>5. Asks(l) <=> Asks(x) \/ Asks(M) BY <1>2, <1>3, AsksConcat
<1>6. NoData(l) <=> NoData(x) /\ NoData(M) BY <1>2, <1>3, AsksConcat
<1>7. Asks(w) <=> Asks(v) \/ Asks(x) BY <1>4, AsksConcat
<1>8. Asks(w \o a) <=> Asks(w) \/ Asks(a) BY AsksConcat
<1>9. F = w \o a BY <1>3, <1>4
<1> QED BY <1>1, <1>5, <1>6, <1>7, <1>8, <1>9

\* One writev.
LEMMA TsvrWrites ==
    ASSUME NEW K, NEW s, NEW n, TsvrOk(K, s, n), s.fd,
           NEW q, NEW F, NEW M, NEW Q, Fills(K, s, q, F, M, Q),
           NEW w \in Seq(K), NEW r \in Seq(K), F = Cat(w, r),
           NEW s2 \in Socks(K), s2.fd, s2.mesg = M, s2.iov = r, s2.kp = s.kp, s2.idx + Len(r) <= IovMax,
           NEW p2, NEW c2, p2 = Keep(Cat(n.pre, w)), c2 = (n.asked \/ Asks(w)),
           NEW n2, n2 = [n EXCEPT !.pre = p2, !.asked = c2]
    PROVE  TsvrOk(K, s2, n2)
<1>0. s \in Socks(K) /\ n \in Peers(K) /\ n.pre \in Seq(K) /\ n.in \in Seq(In \cup {"KPALIVE_ACK", "BAD"}) /\ n.asked \in BOOLEAN
  BY TsvrFields DEF TsvrOk
<1>1. PICK p \in Seq(K) : p = n.pre BY <1>0
<1>2. PICK h \in Hellos : Follows(h, p \o (s.iov \o s.mesg)) BY <1>1 DEF TsvrOk
<1>3. Follows(h, p \o (F \o M)) BY <1>0, <1>2, FillsFollow
<1>4. M \in Seq(K) BY DEF Fills
<1>5. PICK y \in Seq(K) : y = r \o M BY <1>4, ConcatProperties
<1>6. F \o M = w \o y
  <2>1. Cat(Cat(w, r), M) = Cat(w, Cat(r, M)) BY <1>4, CatIs
  <2> QED BY <2>1, <1>5 DEF Cat
<1>7. PICK z \in Seq(K) : z = p \o w BY ConcatProperties
<1>b. Cat(Cat(p, w), y) = Cat(p, Cat(w, y)) BY CatIs
<1>a. (p \o w) \o y = p \o (w \o y) BY <1>b DEF Cat
<1>8. p \o (w \o y) = z \o y BY <1>a, <1>7
<1>9. Follows(h, z \o y) BY <1>3, <1>6, <1>8
<1>10. Keep(z) \in Seq(K) /\ Len(Keep(z)) <= HelloLen /\ Follows(h, Keep(z) \o y) BY <1>9, FollowsKept
<1>11. p2 \in Seq(K) /\ Len(p2) <= HelloLen /\ Follows(h, p2 \o (s2.iov \o s2.mesg))
  BY <1>1, <1>5, <1>7, <1>10 DEF Cat
<1>c. c2 \in BOOLEAN BY <1>0
<1>12. n2 \in Peers(K) /\ n2.pre = p2 /\ n2.asked = c2 /\ n2.in = n.in BY <1>0, <1>11, <1>c DEF Peers
<1>13. NoData(s2.mesg) BY <1>0, FillsAsk DEF TsvrOk
<1>14. Asks(F) <=> Asks(w) \/ Asks(r) BY AsksConcat DEF Cat
<1>15. s2.kp = "SENT" => Asks(s2.mesg) \/ Asks(s2.iov) \/ n2.asked \/ Answered(n2.in)
  BY <1>0, <1>12, <1>14, FillsAsk DEF TsvrOk
<1>16. Len(n2.in) <= InboxMax BY <1>12 DEF TsvrOk
<1> QED BY <1>11, <1>12, <1>13, <1>15, <1>16 DEF TsvrOk

-----------------------------------------------------------------------------
(* The places of one message of the application. *)

LEMMA PlaceMoved ==
    ASSUME NEW m, NEW q, NEW v, NEW s, NEW l, OnlyPlace(m, q, v, s, l), NEW t \in Tsvrs,
           NEW q2, NEW v2, NEW s2, NEW l2, \A u \in Tsvrs : u # t => v2[u] = v[u],
           Single(q2, Data(m)), Single(v2[t], Data(m)),
           ~(IsIn(q2, Data(m)) /\ IsIn(v2[t], Data(m))),
           ~(IsIn(q2, Data(m)) /\ m \in s2), ~(IsIn(q2, Data(m)) /\ m \in l2),
           ~(IsIn(v2[t], Data(m)) /\ m \in s2), ~(IsIn(v2[t], Data(m)) /\ m \in l2),
           ~(m \in s2 /\ m \in l2),
           IsIn(q2, Data(m)) \/ IsIn(v2[t], Data(m)) \/ m \in s2 \/ m \in l2
             <=> IsIn(q, Data(m)) \/ IsIn(v[t], Data(m)) \/ m \in s \/ m \in l
    PROVE  /\ OnlyPlace(m, q2, v2, s2, l2)
           /\ Somewhere(m, q2, v2, s2, l2) <=> Somewhere(m, q, v, s, l)
<1>1. \A u \in Tsvrs : u # t /\ IsIn(v[u], Data(m)) =>
         ~(IsIn(q, Data(m)) \/ IsIn(v[t], Data(m)) \/ m \in s \/ m \in l)
  BY DEF OnlyPlace
<1>2. \A u \in Tsvrs : Single(v2[u], Data(m)) BY DEF OnlyPlace
<1>3. \A u, w \in Tsvrs : IsIn(v2[u], Data(m)) /\ IsIn(v2[w], Data(m)) => u = w
  <2> SUFFICES ASSUME NEW u \in Tsvrs, NEW w \in Tsvrs, IsIn(v2[u], Data(m)), IsIn(v2[w], Data(m)) PROVE u = w
    OBVIOUS
  <2>1. CASE u # t /\ w # t BY <2>1 DEF OnlyPlace
  <2>2. CASE u = t /\ w # t BY <2>2, <1>1
  <2>3. CASE u # t /\ w = t BY <2>3, <1>1
  <2> QED BY <2>1, <2>2, <2>3
<1>4. \A u \in Tsvrs : IsIn(v2[u], Data(m)) => ~IsIn(q2, Data(m)) /\ m \notin s2 /\ m \notin l2
  <2> SUFFICES ASSUME NEW u \in Tsvrs, IsIn(v2[u], Data(m)) PROVE ~IsIn(q2, Data(m)) /\ m \notin s2 /\ m \notin l2
    OBVIOUS
  <2>1. CASE u # t BY <2>1, <1>1
  <2>2. CASE u = t BY <2>2
  <2> QED BY <2>1, <2>2
<1>5. OnlyPlace(m, q2, v2, s2, l2) BY <1>2, <1>3, <1>4 DEF OnlyPlace
<1>6. Somewhere(m, q2, v2, s2, l2) <=> Somewhere(m, q, v, s, l)
  <2>1. Somewhere(m, q2, v2, s2, l2) => Somewhere(m, q, v, s, l)
    <3>1. ASSUME NEW u \in Tsvrs, IsIn(v2[u], Data(m)) PROVE Somewhere(m, q, v, s, l)
      <4>1. CASE u # t BY <3>1, <4>1 DEF Somewhere
      <4>2. CASE u = t BY <3>1, <4>2 DEF Somewhere
      <4> QED BY <4>1, <4>2
    <3> QED BY <3>1 DEF Somewhere
  <2>2. Somewhere(m, q, v, s, l) => Somewhere(m, q2, v2, s2, l2)
    <3>1. ASSUME NEW u \in Tsvrs, IsIn(v[u], Data(m)) PROVE Somewhere(m, q2, v2, s2, l2)
      <4>1. CASE u # t BY <3>1, <4>1 DEF Somewhere
      <4>2. CASE u = t BY <3>1, <4>2 DEF Somewhere
      <4> QED BY <4>1, <4>2
    <3> QED BY <3>1 DEF Somewhere
  <2> QED BY <2>1, <2>2
<1> QED BY <1>5, <1>6

LEMMA NoneIn == ASSUME NEW e PROVE ~IsIn(<<>>, e) /\ Single(<<>>, e)
BY DEF IsIn, Single

\* rtmq_proxy_tsvr_del_conn
LEMMA GivenUp ==
    ASSUME NEW K, MesgSet(K), NEW m, NEW q, NEW v, NEW s, NEW l, OnlyPlace(m, q, v, s, l),
           NEW t \in Tsvrs, v[t] \in Seq(K), NEW v2, v2[t] = <<>>, \A u \in Tsvrs : u # t => v2[u] = v[u]
    PROVE  /\ OnlyPlace(m, q, v2, s, l \cup DataOf(v[t]))
           /\ Somewhere(m, q, v2, s, l \cup DataOf(v[t])) <=> Somewhere(m, q, v, s, l)
<1>1. m \in DataOf(v[t]) <=> IsIn(v[t], Data(m)) BY DataAre DEF MesgSet
<1>2. ~IsIn(v2[t], Data(m)) /\ Single(v2[t], Data(m)) BY NoneIn
<1>3. PICK l2 : l2 = l \cup DataOf(v[t]) OBVIOUS
<1>4. m \in l2 <=> m \in l \/ IsIn(v[t], Data(m)) BY <1>1, <1>3
<1>5. Single(q, Data(m)) /\ ~(IsIn(q, Data(m)) /\ m \in s) BY DEF OnlyPlace
<1>6. ~(IsIn(q, Data(m)) /\ m \in l2) /\ ~(m \in s /\ m \in l2) BY <1>4 DEF OnlyPlace
<1>7. IsIn(q, Data(m)) \/ IsIn(v2[t], Data(m)) \/ m \in s \/ m \in l2
        <=> IsIn(q, Data(m)) \/ IsIn(v[t], Data(m)) \/ m \in s \/ m \in l
  BY <1>2, <1>4
<1>8. OnlyPlace(m, q, v2, s, l2) /\ (Somewhere(m, q, v2, s, l2) <=> Somewhere(m, q, v, s, l))
  BY <1>2, <1>5, <1>6, <1>7, PlaceMoved
<1> QED BY <1>3, <1>8

\* What rtmq_proxy_tsvr_wiov_add does to one message.
LEMMA FillsData ==
    ASSUME NEW K, MesgSet(K), NEW s \in Socks(K), NoData(s.mesg), NEW q, NEW F, NEW M, NEW Q, Fills(K, s, q, F, M, Q),
           NEW m
    PROVE  /\ IsIn(F, Data(m)) \/ IsIn(Q, Data(m)) <=> IsIn(s.iov, Data(m)) \/ IsIn(q, Data(m))
           /\ Single(q, Data(m)) /\ Single(s.iov, Data(m)) /\ ~(IsIn(s.iov, Data(m)) /\ IsIn(q, Data(m))) =>
                Single(F, Data(m)) /\ Single(Q, Data(m)) /\ ~(IsIn(F, Data(m)) /\ IsIn(Q, Data(m)))
<1>1. PICK v \in Seq(K), g \in Seq(K) : v = s.iov /\ g = s.mesg BY DEF Socks
<1>2. PICK N \in Seq(K), R \in Seq(K) : N = M /\ R = Q BY DEF Fills
<1>3. PICK x \in Seq(K), a \in Seq(K) : g = x \o N /\ q = a \o R /\ F = v \o x \o a BY <1>1, <1>2 DEF Fills
<1>4. NoData(x)
  <2>1. NoData(x \o N) <=> NoData(x) /\ NoData(N) BY AsksConcat
  <2> QED BY <1>1, <1>3, <2>1
<1>5. ~IsIn(x, Data(m)) /\ Single(x, Data(m)) BY <1>4, DataAre DEF MesgSet
<1>6. PICK w \in Seq(K) : w = v \o x BY CatIs DEF Cat
<1>7. /\ IsIn(w, Data(m)) <=> IsIn(v, Data(m)) \/ IsIn(x, Data(m))
      /\ Single(w, Data(m)) <=> Single(v, Data(m)) /\ Single(x, Data(m)) /\ ~(IsIn(v, Data(m)) /\ IsIn(x, Data(m)))
  BY <1>6, InConcat
<1>8. /\ IsIn(F, Data(m)) <=> IsIn(w, Data(m)) \/ IsIn(a, Data(m))
      /\ Single(F, Data(m)) <=> Single(w, Data(m)) /\ Single(a, Data(m)) /\ ~(IsIn(w, Data(m)) /\ IsIn(a, Data(m)))
  <2>1. F = w \o a BY <1>3, <1>6
  <2> QED BY <2>1, InConcat
<1>9. /\ IsIn(q, Data(m)) <=> IsIn(a, Data(m)) \/ IsIn(R, Data(m))
      /\ Single(q, Data(m)) <=> Single(a, Data(m)) /\ Single(R, Data(m)) /\ ~(IsIn(a, Data(m)) /\ IsIn(R, Data(m)))
  BY <1>3, InConcat
<1> QED BY <1>1, <1>2, <1>5, <1>7, <1>8, <1>9

\* The writev succeeds: w is written, r stays.
LEMMA WrittenOut ==
    ASSUME NEW K, MesgSet(K), NEW m, NEW q, NEW v, NEW s, NEW l, OnlyPlace(m, q, v, s, l), NEW t \in Tsvrs,
           NEW k \in Socks(K), k.iov = v[t], NoData(k.mesg), NEW F, NEW M, NEW Q, Fills(K, k, q, F, M, Q),
           NEW w \in Seq(K), NEW r \in Seq(K), F = Cat(w, r),
           NEW v2, v2[t] = r, \A u \in Tsvrs : u # t => v2[u] = v[u]
    PROVE  /\ OnlyPlace(m, Q, v2, s \cup DataOf(w), l)
           /\ Somewhere(m, Q, v2, s \cup DataOf(w), l) <=> Somewhere(m, q, v, s, l)
<1>1. PICK s2 : s2 = s \cup DataOf(w) OBVIOUS
<1>2. m \in s2 <=> m \in s \/ IsIn(w, Data(m)) BY <1>1, DataAre DEF MesgSet
<1>3. /\ IsIn(F, Data(m)) <=> IsIn(w, Data(m)) \/ IsIn(r, Data(m))
      /\ Single(F, Data(m)) <=> Single(w, Data(m)) /\ Single(r, Data(m)) /\ ~(IsIn(w, Data(m)) /\ IsIn(r, Data(m)))
  BY InConcat DEF Cat
<1>4. /\ IsIn(F, Data(m)) \/ IsIn(Q, Data(m)) <=> IsIn(v[t], Data(m)) \/ IsIn(q, Data(m))
      /\ Single(q, Data(m)) /\ Single(v[t], Data(m)) /\ ~(IsIn(v[t], Data(m)) /\ IsIn(q, Data(m))) =>
           Single(F, Data(m)) /\ Single(Q, Data(m)) /\ ~(IsIn(F, Data(m)) /\ IsIn(Q, Data(m)))
  BY FillsData
<1>5. /\ Single(q, Data(m)) /\ Single(v[t], Data(m)) /\ ~(IsIn(v[t], Data(m)) /\ IsIn(q, Data(m)))
      /\ ~(IsIn(v[t], Data(m)) /\ m \in s) /\ ~(IsIn(v[t], Data(m)) /\ m \in l)
      /\ ~(IsIn(q, Data(m)) /\ m \in s) /\ ~(IsIn(q, Data(m)) /\ m \in l) /\ ~(m \in s /\ m \in l)
  BY DEF OnlyPlace
<1>6. Single(F, Data(m)) /\ Single(Q, Data(m)) /\ ~(IsIn(F, Data(m)) /\ IsIn(Q, Data(m))) BY <1>4, <1>5
<1>7. /\ Single(r, Data(m)) /\ ~(IsIn(w, Data(m)) /\ IsIn(r, Data(m)))
      /\ IsIn(Q, Data(m)) \/ IsIn(w, Data(m)) \/ IsIn(r, Data(m)) <=> IsIn(v[t], Data(m)) \/ IsIn(q, Data(m))
      /\ ~(IsIn(Q, Data(m)) /\ IsIn(w, Data(m))) /\ ~(IsIn(Q, Data(m)) /\ IsIn(r, Data(m)))
  BY <1>3, <1>4, <1>6
<1>8. OnlyPlace(m, Q, v2, s2, l) /\ (Somewhere(m, Q, v2, s2, l) <=> Somewhere(m, q, v, s, l))
  BY <1>2, <1>5, <1>6, <1>7, PlaceMoved
<1> QED BY <1>1, <1>8

\* The peer has closed: all of F is freed.
LEMMA ResetByPeer ==
    ASSUME NEW K, MesgSet(K), NEW m, NEW q, NEW v, NEW s, NEW l, OnlyPlace(m, q, v, s, l), NEW t \in Tsvrs,
           NEW k \in Socks(K), k.iov = v[t], NoData(k.mesg), NEW F, NEW M, NEW Q, Fills(K, k, q, F, M, Q),
           NEW v2, v2[t] = <<>>, \A u \in Tsvrs : u # t => v2[u] = v[u]
    PROVE  /\ OnlyPlace(m, Q, v2, s, l \cup DataOf(F))
           /\ Somewhere(m, Q, v2, s, l \cup DataOf(F)) <=> Somewhere(m, q, v, s, l)
<1>1. PICK l2 : l2 = l \cup DataOf(F) OBVIOUS
<1>a. F \in Seq(K) BY DEF Fills
<1>2. m \in l2 <=> m \in l \/ IsIn(F, Data(m)) BY <1>1, <1>a, DataAre DEF MesgSet
<1>3. ~IsIn(v2[t], Data(m)) /\ Single(v2[t], Data(m)) BY NoneIn
<1>4. /\ IsIn(F, Data(m)) \/ IsIn(Q, Data(m)) <=> IsIn(v[t], Data(m)) \/ IsIn(q, Data(m))
      /\ Single(q, Data(m)) /\ Single(v[t], Data(m)) /\ ~(IsIn(v[t], Data(m)) /\ IsIn(q, Data(m))) =>
           Single(F, Data(m)) /\ Single(Q, Data(m)) /\ ~(IsIn(F, Data(m)) /\ IsIn(Q, Data(m)))
  BY FillsData
<1>5. /\ Single(q, Data(m)) /\ Single(v[t], Data(m)) /\ ~(IsIn(v[t], Data(m)) /\ IsIn(q, Data(m)))
      /\ ~(IsIn(v[t], Data(m)) /\ m \in s) /\ ~(IsIn(v[t], Data(m)) /\ m \in l)
      /\ ~(IsIn(q, Data(m)) /\ m \in s) /\ ~(IsIn(q, Data(m)) /\ m \in l) /\ ~(m \in s /\ m \in l)
  BY DEF OnlyPlace
<1>6. Single(F, Data(m)) /\ Single(Q, Data(m)) /\ ~(IsIn(F, Data(m)) /\ IsIn(Q, Data(m))) BY <1>4, <1>5
<1>7. OnlyPlace(m, Q, v2, s, l2) /\ (Somewhere(m, Q, v2, s, l2) <=> Somewhere(m, q, v, s, l))
  BY <1>2, <1>3, <1>4, <1>5, <1>6, PlaceMoved
<1> QED BY <1>1, <1>7

\* rtmq_proxy_async_send of the message o, as it looks for a message m.
LEMMA Enqueued ==
    ASSUME NEW K, NEW m, NEW o, NEW q \in Seq(K), Data(o) \in K, NEW v, NEW s, NEW l, OnlyPlace(m, q, v, s, l),
           m = o => ~Somewhere(m, q, v, s, l)
    PROVE  /\ OnlyPlace(m, Append(q, Data(o)), v, s, l)
           /\ Somewhere(m, Append(q, Data(o)), v, s, l) <=> m = o \/ Somewhere(m, q, v, s, l)
<1>1. PICK e \in K : e = Data(o) OBVIOUS
<1>2. <<e>> \in Seq(K) /\ Len(<<e>>) = 1 /\ <<e>>[1] = e OBVIOUS
<1>3. PICK b \in Seq(K) : b = <<e>> BY <1>2
<1>4. PICK q2 : q2 = Append(q, Data(o)) OBVIOUS
<1>5. q2 = q \o b BY <1>1, <1>3, <1>4, AppendIsConcat
<1>6. Data(m) = Data(o) <=> m = o BY DEF Data
<1>7. DOMAIN b = {1} /\ b[1] = Data(o) BY <1>1, <1>2, <1>3
<1>8. Single(b, Data(m)) /\ (IsIn(b, Data(m)) <=> m = o) BY <1>6, <1>7 DEF Single, IsIn
<1>9. /\ IsIn(q2, Data(m)) <=> IsIn(q, Data(m)) \/ IsIn(b, Data(m))
      /\ Single(q2, Data(m)) <=> Single(q, Data(m)) /\ Single(b, Data(m)) /\ ~(IsIn(q, Data(m)) /\ IsIn(b, Data(m)))
  BY <1>5, InConcat
<1>10. IsIn(q, Data(m)) => m # o BY DEF Somewhere
<1>11. OnlyPlace(m, q2, v, s, l) BY <1>8, <1>9, <1>10 DEF OnlyPlace, Somewhere
<1>12. Somewhere(m, q2, v, s, l) <=> m = o \/ Somewhere(m, q, v, s, l) BY <1>8, <1>9 DEF Somewhere
<1> QED BY <1>4, <1>11, <1>12

LEMMA Refused ==
    ASSUME NEW m, NEW o, NEW q, NEW v, NEW s, NEW l, OnlyPlace(m, q, v, s, l), m = o => ~Somewhere(m, q, v, s, l)
    PROVE  /\ OnlyPlace(m, q, v, s, l \cup {o})
           /\ Somewhere(m, q, v, s, l \cup {o}) <=> m = o \/ Somewhere(m, q, v, s, l)
<1>1. m \in l \cup {o} <=> m \in l \/ m = o OBVIOUS
<1>2. OnlyPlace(m, q, v, s, l \cup {o}) BY <1>1 DEF OnlyPlace, Somewhere
<1>3. Somewhere(m, q, v, s, l \cup {o}) <=> m = o \/ Somewhere(m, q, v, s, l) BY <1>1 DEF Somewhere
<1> QED BY <1>2, <1>3

-----------------------------------------------------------------------------
(* What a step leaves alone. *)

LEMMA StepOfOne ==
    ASSUME ConfOk, TsvrsOk, UNCHANGED confVars, NEW t \in Tsvrs, DOMAIN sck' = Tsvrs, DOMAIN net' = Tsvrs,
           \A u \in Tsvrs : u # t => sck'[u] = sck[u] /\ net'[u] = net[u],
           TsvrOk(OutMesgs, sck'[t], net'[t]), sck'[t].fd => launched
    PROVE  ConfOk' /\ TsvrsOk'
<1>1. UNCHANGED <<scene, reg, launched>> BY DEF confVars
<1>2. ConfOk' BY <1>1 DEF ConfOk
<1>3. OutMesgs' = OutMesgs BY <1>1 DEF OutMesgs
<1>4. ASSUME NEW u \in Tsvrs PROVE TsvrOk(OutMesgs, sck'[u], net'[u]) /\ (sck'[u].fd => launched')
  <2>1. CASE u = t BY <2>1, <1>1
  <2>2. CASE u # t BY <2>2, <1>1 DEF TsvrsOk
  <2> QED BY <2>1, <2>2
<1> QED BY <1>2, <1>3, <1>4 DEF TsvrsOk

LEMMA TrackedSame ==
    ASSUME Tracked, UNCHANGED <<scene, sendq, sent, lost>>, app'.n = app.n,
           \A u \in Tsvrs : sck'[u].iov = sck[u].iov
    PROVE  Tracked'
<1>1. Iovs' = Iovs BY DEF Iovs
<1> QED BY <1>1 DEF Tracked

LEMMA WorkersSame ==
    ASSUME WorkersOk, NoLostWork, UNCHANGED recvVars
    PROVE  WorkersOk' /\ NoLostWork'
BY DEF WorkersOk, NoLostWork, recvVars

LEMMA QueuesSame ==
    ASSUME QueuesOk, UNCHANGED <<scene, sendq, pipe, app>>, batch' \in [Tsvrs -> Seq(TsvrEvents)],
           \A t \in Tsvrs : Len(batch'[t]) <= 2
    PROVE  QueuesOk'
<1>1. OutMesgs' = OutMesgs BY DEF OutMesgs
<1> QED BY <1>1 DEF QueuesOk

LEMMA BatchTail ==
    ASSUME QueuesOk, NEW t \in Tsvrs, batch[t] # <<>>, Handled(t)
    PROVE  batch' \in [Tsvrs -> Seq(TsvrEvents)] /\ \A u \in Tsvrs : Len(batch'[u]) <= 2
<1>1. PICK E : E = TsvrEvents OBVIOUS
<1>2. PICK b \in Seq(E) : b = batch[t] /\ Len(b) <= 2 BY <1>1 DEF QueuesOk
<1>3. Tail(b) \in Seq(E) /\ Len(Tail(b)) <= 2 BY <1>2
<1>4. batch' = [batch EXCEPT ![t] = Tail(b)] BY <1>2 DEF Handled
<1> QED BY <1>1, <1>3, <1>4 DEF QueuesOk

\* A step that changes a socket's flags only, and perhaps the batches and the pipe.
LEMMA FlagsStep ==
    ASSUME ProxyInv, UNCHANGED <<confVars, net, sendq, app, sent, lost, recvVars>>, QueuesOk',
           NEW t \in Tsvrs, NEW s2 \in Socks(OutMesgs), sck' = [sck EXCEPT ![t] = s2],
           s2.fd = sck[t].fd, s2.mesg = sck[t].mesg, s2.iov = sck[t].iov, s2.idx = sck[t].idx, s2.kp = sck[t].kp
    PROVE  ProxyInv'
<1>1. ConfOk /\ TsvrsOk /\ WorkersOk /\ NoLostWork /\ Tracked BY DEF ProxyInv
<1>2. DOMAIN sck = Tsvrs /\ DOMAIN net = Tsvrs BY <1>1 DEF TsvrsOk
<1>3. sck'[t] = s2 /\ DOMAIN sck' = Tsvrs /\ \A u \in Tsvrs : u # t => sck'[u] = sck[u] BY <1>2
<1>4. PICK K : K = OutMesgs OBVIOUS
<1>5. TsvrOk(K, sck[t], net[t]) /\ (sck[t].fd => launched) BY <1>1, <1>4 DEF TsvrsOk
<1>6. TsvrOk(K, s2, net[t]) BY <1>4, <1>5, TsvrSame
<1>7. ConfOk' /\ TsvrsOk' BY <1>1, <1>2, <1>3, <1>4, <1>5, <1>6, StepOfOne
<1>8. WorkersOk' /\ NoLostWork' BY <1>1, WorkersSame
<1>9. Tracked'
  <2>1. \A u \in Tsvrs : sck'[u].iov = sck[u].iov BY <1>3
  <2> QED BY <2>1, <1>1, TrackedSame DEF confVars
<1> QED BY <1>7, <1>8, <1>9 DEF ProxyInv

LEMMA SckOf ==
    ASSUME ProxyInv, NEW t \in Tsvrs
    PROVE  /\ TsvrOk(OutMesgs, sck[t], net[t]) /\ sck[t] \in Socks(OutMesgs) /\ net[t] \in Peers(OutMesgs)
           /\ (sck[t].fd => launched) /\ DOMAIN sck = Tsvrs /\ DOMAIN net = Tsvrs
BY DEF ProxyInv, TsvrsOk, TsvrOk

-----------------------------------------------------------------------------
(* The actions. *)

LEMMA RegAddP == ASSUME ProxyInv, NEW u \in Types, rtmq_proxy_reg_add(u) PROVE ProxyInv'
<1>1. ~launched /\ reg' = reg \cup {u} /\ UNCHANGED <<scene, launched, sck, net, batch, sendVars, recvVars, lost>>
  BY DEF rtmq_proxy_reg_add
<1>2. ConfOk' BY <1>1 DEF ProxyInv, ConfOk
<1>3. OutMesgs' = OutMesgs BY <1>1 DEF OutMesgs
<1>4. TsvrsOk' BY <1>1, <1>3 DEF ProxyInv, TsvrsOk
<1>5. QueuesOk' BY <1>1, <1>3 DEF ProxyInv, QueuesOk, sendVars
<1>6. WorkersOk' /\ NoLostWork' BY <1>1, WorkersSame DEF ProxyInv
<1>7. Tracked' BY <1>1, TrackedSame DEF ProxyInv, sendVars
<1> QED BY <1>2, <1>4, <1>5, <1>6, <1>7 DEF ProxyInv

LEMMA LaunchP == ASSUME ProxyInv, rtmq_proxy_launch PROVE ProxyInv'
<1>1. reg = Types /\ launched' = TRUE /\ UNCHANGED <<scene, reg, sck, net, batch, sendVars, recvVars, lost>>
  BY DEF rtmq_proxy_launch
<1>2. ConfOk' BY <1>1 DEF ProxyInv, ConfOk
<1>3. OutMesgs' = OutMesgs BY <1>1 DEF OutMesgs
<1>4. TsvrsOk' BY <1>1, <1>3 DEF ProxyInv, TsvrsOk
<1>5. QueuesOk' BY <1>1, <1>3 DEF ProxyInv, QueuesOk, sendVars
<1>6. WorkersOk' /\ NoLostWork' BY <1>1, WorkersSame DEF ProxyInv
<1>7. Tracked' BY <1>1, TrackedSame DEF ProxyInv, sendVars
<1> QED BY <1>2, <1>4, <1>5, <1>6, <1>7 DEF ProxyInv

LEMMA AsyncSendP == ASSUME ProxyInv, rtmq_proxy_async_send PROVE ProxyInv'
<1>1. UNCHANGED <<confVars, sck, net, batch, pipe, recvVars>> BY DEF rtmq_proxy_async_send
<1>2. ConfOk' /\ TsvrsOk'
  <2>1. OutMesgs' = OutMesgs BY <1>1 DEF OutMesgs, confVars
  <2> QED BY <1>1, <2>1 DEF ProxyInv, ConfOk, TsvrsOk, confVars
<1>3. WorkersOk' /\ NoLostWork' BY <1>1, WorkersSame DEF ProxyInv
<1>4. PICK n \in Nat, N \in Nat : n = app.n /\ N = scene.out
  <2>1. scene.out \in Nat BY ProxyAssumption DEF ProxyInv, ConfOk
  <2>2. app.n \in 0 .. scene.out BY DEF ProxyInv, QueuesOk
  <2> QED BY <2>1, <2>2
<1>5. n < N /\ n + 1 \in 1 .. N BY <1>4 DEF rtmq_proxy_async_send
<1>6. N <= Len(Out) /\ Len(Out) \in Nat /\ DOMAIN Out = 1 .. Len(Out) BY <1>4, ProxyAssumption DEF ProxyInv, ConfOk
<1>7. \A i \in 1 .. N : i \in DOMAIN Out BY <1>4, <1>6
<1>8. PICK o : o = Out[n + 1] OBVIOUS
<1>9. \A i \in 1 .. N : Out[i] = o <=> i = n + 1 BY <1>5, <1>7, <1>8, ProxyAssumption
<1>10. PICK K : K = OutMesgs OBVIOUS
<1>11. OutMesgs' = K BY <1>1, <1>10 DEF OutMesgs, confVars
<1>12. Data(o) \in K BY <1>4, <1>5, <1>8, <1>10 DEF OutMesgs, Data
<1>13. PICK q \in Seq(K) : q = sendq /\ Len(q) <= SendqMax BY <1>10 DEF ProxyInv, QueuesOk
<1>14. PICK v, s, l : v = Iovs /\ s = sent /\ l = lost OBVIOUS
<1>15. Iovs' = v /\ sent' = s /\ scene'.out = N BY <1>1, <1>4, <1>14 DEF Iovs, confVars, rtmq_proxy_async_send
<1>16. app' \in [n : 0 .. scene'.out, notify : BOOLEAN] /\ app'.n = n + 1
  <2>1. app \in [n : 0 .. N, notify : BOOLEAN] BY <1>4 DEF ProxyInv, QueuesOk
  <2>2. n + 1 \in 0 .. N BY <1>5
  <2>3. app' = [n |-> n + 1, notify |-> TRUE] \/ app' = [app EXCEPT !.n = n + 1]
    BY <1>4 DEF rtmq_proxy_async_send
  <2>4. CASE app' = [n |-> n + 1, notify |-> TRUE]
    <3>1. app' \in [n : 0 .. N, notify : BOOLEAN] /\ app'.n = n + 1 BY <2>2, <2>4
    <3> QED BY <3>1, <1>15
  <2>5. CASE app' = [app EXCEPT !.n = n + 1]
    <3>1. app' \in [n : 0 .. N, notify : BOOLEAN] /\ app'.n = n + 1 BY <2>1, <2>2, <2>5
    <3> QED BY <3>1, <1>15
  <2> QED BY <2>3, <2>4, <2>5
<1>17. \A i \in 1 .. N : /\ OnlyPlace(Out[i], q, v, s, l) /\ (Somewhere(Out[i], q, v, s, l) <=> i <= n)
  BY <1>4, <1>13, <1>14 DEF ProxyInv, Tracked
<1>18. ASSUME NEW i \in 1 .. N PROVE Out[i] = o => ~Somewhere(Out[i], q, v, s, l)
  <2>1. CASE i = n + 1
    <3>1. ~(i <= n) BY <2>1, <1>4
    <3> QED BY <3>1, <1>17
  <2> QED BY <2>1, <1>9
<1>19. \A i \in 1 .. N : i <= n + 1 <=> i = n + 1 \/ i <= n BY <1>4
<1>20. CASE Len(sendq) < SendqMax
  <2>1. sendq' = Append(q, Data(o)) /\ lost' = l BY <1>20, <1>4, <1>8, <1>13, <1>14 DEF rtmq_proxy_async_send
  <2>2. sendq' \in Seq(K) /\ Len(sendq') <= SendqMax
    <3>1. PICK e \in K : e = Data(o) BY <1>12
    <3>2. Append(q, e) \in Seq(K) /\ Len(Append(q, e)) = Len(q) + 1 OBVIOUS
    <3> QED BY <1>13, <1>20, <2>1, <3>1, <3>2, ConfIsValid
  <2>3. QueuesOk' BY <1>1, <1>11, <1>16, <2>2 DEF ProxyInv, QueuesOk
  <2>4. ASSUME NEW i \in 1 .. N
        PROVE  /\ OnlyPlace(Out[i], sendq', Iovs', sent', lost')
               /\ Somewhere(Out[i], sendq', Iovs', sent', lost') <=> i <= app'.n
    <3>1. PICK m : m = Out[i] OBVIOUS
    <3>2. OnlyPlace(m, q, v, s, l) /\ (m = o => ~Somewhere(m, q, v, s, l)) BY <1>17, <1>18, <3>1
    <3>3. /\ OnlyPlace(m, Append(q, Data(o)), v, s, l)
          /\ Somewhere(m, Append(q, Data(o)), v, s, l) <=> m = o \/ Somewhere(m, q, v, s, l)
      BY <1>12, <3>2, Enqueued
    <3>4. m = o \/ Somewhere(m, q, v, s, l) <=> i <= n + 1 BY <1>9, <1>17, <1>19, <3>1
    <3> QED BY <1>15, <1>16, <2>1, <3>1, <3>3, <3>4
  <2>5. Tracked' BY <1>15, <2>4 DEF Tracked
  <2> QED BY <1>2, <1>3, <2>3, <2>5 DEF ProxyInv
<1>21. CASE ~(Len(sendq) < SendqMax)
  <2>1. sendq' = q /\ lost' = l \cup {o} BY <1>21, <1>4, <1>8, <1>13, <1>14 DEF rtmq_proxy_async_send
  <2>3. QueuesOk' BY <1>1, <1>11, <1>13, <1>16, <2>1 DEF ProxyInv, QueuesOk
  <2>4. ASSUME NEW i \in 1 .. N
        PROVE  /\ OnlyPlace(Out[i], sendq', Iovs', sent', lost')
               /\ Somewhere(Out[i], sendq', Iovs', sent', lost') <=> i <= app'.n
    <3>1. PICK m : m = Out[i] OBVIOUS
    <3>2. OnlyPlace(m, q, v, s, l) /\ (m = o => ~Somewhere(m, q, v, s, l)) BY <1>17, <1>18, <3>1
    <3>3. /\ OnlyPlace(m, q, v, s, l \cup {o})
          /\ Somewhere(m, q, v, s, l \cup {o}) <=> m = o \/ Somewhere(m, q, v, s, l)
      BY <3>2, Refused
    <3>4. m = o \/ Somewhere(m, q, v, s, l) <=> i <= n + 1 BY <1>9, <1>17, <1>19, <3>1
    <3> QED BY <1>15, <1>16, <2>1, <3>1, <3>3, <3>4
  <2>5. Tracked' BY <1>15, <2>4 DEF Tracked
  <2> QED BY <1>2, <1>3, <2>3, <2>5 DEF ProxyInv
<1> QED BY <1>20, <1>21

LEMMA CmdSendReqP == ASSUME ProxyInv, rtmq_proxy_cmd_send_req PROVE ProxyInv'
<1>1. /\ app' = [app EXCEPT !.notify = FALSE] /\ pipe' \in {pipe, pipe + 1} /\ (pipe' # pipe => pipe < PipeMax)
      /\ UNCHANGED <<confVars, sck, net, batch, sendq, sent, recvVars, lost>>
  BY DEF rtmq_proxy_cmd_send_req
<1>2. OutMesgs' = OutMesgs BY <1>1 DEF OutMesgs, confVars
<1>3. ConfOk' /\ TsvrsOk' BY <1>1, <1>2 DEF ProxyInv, ConfOk, TsvrsOk, confVars
<1>4. app' \in [n : 0 .. scene.out, notify : BOOLEAN] /\ app'.n = app.n BY <1>1 DEF ProxyInv, QueuesOk
<1>5. pipe' \in 0 .. PipeMax BY <1>1, ProxyAssumption DEF ProxyInv, QueuesOk
<1>6. QueuesOk' BY <1>1, <1>2, <1>4, <1>5 DEF ProxyInv, QueuesOk, confVars
<1>7. WorkersOk' /\ NoLostWork' BY <1>1, WorkersSame DEF ProxyInv
<1>8. Tracked' BY <1>1, <1>4, TrackedSame DEF ProxyInv, confVars
<1> QED BY <1>3, <1>6, <1>7, <1>8 DEF ProxyInv

\* rtmq_proxy_tsvr_del_conn as a part of a step.
LEMMA DelConnP ==
    ASSUME ProxyInv, NEW t \in Tsvrs, rtmq_proxy_tsvr_del_conn(t),
           UNCHANGED <<confVars, sendVars, recvVars>>, QueuesOk'
    PROVE  ProxyInv'
<1>1. PICK K : K = OutMesgs OBVIOUS
<1>2. PICK s \in Socks(K), n \in Peers(K) : s = sck[t] /\ n = net[t] BY <1>1, SckOf
<1>3. TsvrOk(K, s, n) /\ MesgSet(K) BY <1>1, <1>2, SckOf, OutMesgsAre
<1>4. PICK s2 : s2 = [s EXCEPT !.fd = FALSE, !.rdy = FALSE, !.full = FALSE, !.iov = <<>>, !.idx = 0] OBVIOUS
<1>5. s2 \in Socks(K) /\ ~s2.fd /\ s2.iov = <<>> /\ s2.idx = 0 /\ s2.mesg = s.mesg
  <2>1. PICK z \in Seq(K) : z = <<>> BY EmptySeq
  <2>2. s2 = [s EXCEPT !.fd = FALSE, !.rdy = FALSE, !.full = FALSE, !.iov = z, !.idx = 0] BY <1>4, <2>1
  <2> QED BY <2>1, <2>2 DEF Socks
<1>6. sck' = [sck EXCEPT ![t] = s2] /\ net' = [net EXCEPT ![t] = NoNet] /\ lost' = lost \cup DataOf(s.iov)
  BY <1>2, <1>4 DEF rtmq_proxy_tsvr_del_conn
<1>7. DOMAIN sck = Tsvrs /\ DOMAIN net = Tsvrs BY SckOf
<1>8. /\ sck'[t] = s2 /\ net'[t] = NoNet /\ DOMAIN sck' = Tsvrs /\ DOMAIN net' = Tsvrs
      /\ \A u \in Tsvrs : u # t => sck'[u] = sck[u] /\ net'[u] = net[u]
  BY <1>6, <1>7
<1>9. TsvrOk(K, s2, NoNet)
  <2>1. NoData(s2.mesg) BY <1>3, <1>5 DEF TsvrOk
  <2> QED BY <2>1, <1>5, TsvrClosed
<1>10. ConfOk' /\ TsvrsOk' BY <1>1, <1>5, <1>8, <1>9, StepOfOne DEF ProxyInv
<1>11. WorkersOk' /\ NoLostWork' BY WorkersSame DEF ProxyInv
<1>12. Tracked'
  <2>1. PICK q, v, z, l : q = sendq /\ v = Iovs /\ z = sent /\ l = lost OBVIOUS
  <2>2. PICK w : w = Iovs' OBVIOUS
  <2>3. v[t] = s.iov /\ w[t] = <<>> /\ \A u \in Tsvrs : u # t => w[u] = v[u]
    BY <2>1, <2>2, <1>2, <1>5, <1>8 DEF Iovs
  <2>4. v[t] \in Seq(K) BY <1>3, <2>3, TsvrFields
  <2>5. sendq' = q /\ sent' = z /\ lost' = l \cup DataOf(v[t]) /\ scene' = scene /\ app' = app
    BY <1>6, <2>1, <2>3 DEF sendVars, confVars
  <2>6. ASSUME NEW i \in 1 .. scene.out
        PROVE  /\ OnlyPlace(Out[i], sendq', Iovs', sent', lost')
               /\ Somewhere(Out[i], sendq', Iovs', sent', lost') <=> i <= app'.n
    <3>1. PICK m : m = Out[i] OBVIOUS
    <3>2. OnlyPlace(m, q, v, z, l) /\ (Somewhere(m, q, v, z, l) <=> i <= app.n)
      BY <2>1, <3>1 DEF ProxyInv, Tracked
    <3>3. /\ OnlyPlace(m, q, w, z, l \cup DataOf(v[t]))
          /\ Somewhere(m, q, w, z, l \cup DataOf(v[t])) <=> Somewhere(m, q, v, z, l)
      BY <1>3, <2>3, <2>4, <3>2, GivenUp
    <3> QED BY <2>2, <2>5, <3>1, <3>2, <3>3
  <2> QED BY <2>5, <2>6 DEF Tracked
<1> QED BY <1>10, <1>11, <1>12 DEF ProxyInv

LEMMA BatchSame ==
    ASSUME ProxyInv, UNCHANGED <<confVars, sendVars, batch>>
    PROVE  QueuesOk'
BY QueuesSame DEF ProxyInv, QueuesOk, confVars, sendVars

LEMMA ReconnP == ASSUME ProxyInv, NEW t \in Tsvrs, rtmq_proxy_tsvr_reconn(t) PROVE ProxyInv'
<1>0. launched /\ ~sck[t].fd /\ UNCHANGED <<confVars, batch, sendVars, recvVars, lost>>
  BY DEF rtmq_proxy_tsvr_reconn
<1>1. PICK K : K = OutMesgs OBVIOUS
<1>2. PICK s \in Socks(K), n \in Peers(K) : s = sck[t] /\ n = net[t] BY <1>1, SckOf
<1>3. TsvrOk(K, s, n) /\ MesgSet(K) BY <1>1, <1>2, SckOf, OutMesgsAre
<1>4. Greetings = Hellos BY <1>0 DEF ProxyInv, ConfOk, Greetings, Hellos
<1>5. PICK h \in Hellos :
        /\ sck' = [sck EXCEPT ![t] = [@ EXCEPT !.fd = TRUE, !.kp = "UNKNOWN", !.mesg = h, !.rdy = TRUE]]
        /\ net' = [net EXCEPT ![t] = [NoNet EXCEPT !.open = TRUE]]
  BY <1>4 DEF rtmq_proxy_tsvr_reconn
<1>6. PICK s2 : s2 = [s EXCEPT !.fd = TRUE, !.kp = "UNKNOWN", !.mesg = h, !.rdy = TRUE] OBVIOUS
<1>7. PICK n2 : n2 = [NoNet EXCEPT !.open = TRUE] OBVIOUS
<1>8. h \in Seq(K) BY <1>3, HelloIs
<1>9. s2 \in Socks(K) /\ s2.fd /\ s2.iov = s.iov /\ s2.idx = s.idx /\ s2.kp = "UNKNOWN" /\ s2.mesg = h
  BY <1>6, <1>8 DEF Socks
<1>10. n2 \in Peers(K) /\ n2.in = <<>> /\ n2.pre = <<>>
  <2>1. n2 = [open |-> TRUE, in |-> <<>>, pre |-> <<>>, asked |-> FALSE] BY <1>7 DEF NoNet
  <2> QED BY <2>1 DEF Peers
<1>11. DOMAIN sck = Tsvrs /\ DOMAIN net = Tsvrs BY SckOf
<1>12. /\ sck'[t] = s2 /\ net'[t] = n2 /\ DOMAIN sck' = Tsvrs /\ DOMAIN net' = Tsvrs
       /\ \A u \in Tsvrs : u # t => sck'[u] = sck[u] /\ net'[u] = net[u]
  BY <1>2, <1>5, <1>6, <1>7, <1>11
<1>13. TsvrOk(K, s2, n2) BY <1>0, <1>2, <1>3, <1>9, <1>10, TsvrOpened
<1>14. ConfOk' /\ TsvrsOk' BY <1>0, <1>1, <1>12, <1>13, StepOfOne DEF ProxyInv
<1>15. WorkersOk' /\ NoLostWork' BY <1>0, WorkersSame DEF ProxyInv
<1>16. QueuesOk' BY <1>0, BatchSame
<1>17. Tracked'
  <2>1. \A u \in Tsvrs : sck'[u].iov = sck[u].iov BY <1>2, <1>9, <1>12
  <2> QED BY <2>1, <1>0, TrackedSame DEF ProxyInv, confVars, sendVars
<1> QED BY <1>14, <1>15, <1>16, <1>17 DEF ProxyInv

\* An order of at most two events is a batch.
LEMMA BatchOf ==
    ASSUME NEW a \in TsvrEvents, NEW b \in TsvrEvents, NEW X, NEW Y, X = {} \/ X = {a}, Y = {} \/ Y = {b},
           NEW o \in SetToSeqs(X \cup Y)
    PROVE  o \in Seq(TsvrEvents) /\ Len(o) <= 2
<1>1. PICK S : S = X \cup Y OBVIOUS
<1>2. IsFiniteSet(S) /\ Cardinality(S) <= 2 /\ Cardinality(S) \in Nat
  <2>1. IsFiniteSet({a}) /\ Cardinality({a}) = 1 BY FS_Singleton
  <2>2. IsFiniteSet({a} \cup {b}) /\ (Cardinality({a} \cup {b}) = 1 \/ Cardinality({a} \cup {b}) = 2)
    BY <2>1, FS_AddElement
  <2>3. S \subseteq {a} \cup {b} BY <1>1
  <2>4. IsFiniteSet(S) /\ Cardinality(S) <= Cardinality({a} \cup {b}) BY <2>2, <2>3, FS_Subset
  <2>5. Cardinality(S) \in Nat BY <2>4, FS_CardinalityType
  <2> QED BY <2>2, <2>4, <2>5
<1>3. PICK c \in Nat : c = Cardinality(S) /\ c <= 2 BY <1>2
<1>4. S \subseteq TsvrEvents BY <1>1
<1>5. o \in [1 .. c -> S] BY <1>1, <1>3 DEF SetToSeqs
<1>6. o \in [1 .. c -> TsvrEvents] BY <1>4, <1>5
<1> QED BY <1>3, <1>6

LEMMA RoutineP == ASSUME ProxyInv, NEW t \in Tsvrs, rtmq_proxy_tsvr_routine(t) PROVE ProxyInv'
<1>1. PICK o \in SetToSeqs(Ready(t)) :
        /\ batch' = [batch EXCEPT ![t] = o] /\ sck' = [sck EXCEPT ![t].rdy = FALSE]
        /\ UNCHANGED <<confVars, net, sendq, pipe, app, sent, recvVars, lost>>
  BY DEF rtmq_proxy_tsvr_routine
<1>2. PICK K : K = OutMesgs OBVIOUS
<1>3. PICK s \in Socks(K) : s = sck[t] BY <1>2, SckOf
<1>4. PICK s2 : s2 = [s EXCEPT !.rdy = FALSE] OBVIOUS
<1>5. s2 \in Socks(K) /\ s2.fd = s.fd /\ s2.mesg = s.mesg /\ s2.iov = s.iov /\ s2.idx = s.idx /\ s2.kp = s.kp
  BY <1>4 DEF Socks
<1>6. sck' = [sck EXCEPT ![t] = s2] BY <1>1, <1>3, <1>4
<1>7. o \in Seq(TsvrEvents) /\ Len(o) <= 2
  <2>1. SckEvent(t) \in TsvrEvents /\ CmdEvent \in TsvrEvents BY <1>3 DEF SckEvent, CmdEvent, TsvrEvents, Readable, Socks
  <2>2. PICK X, Y : /\ X = (IF sck[t].rdy /\ (Readable(t) \/ ~sck[t].full) THEN {SckEvent(t)} ELSE {})
                    /\ Y = (IF cmdrdy[t] /\ pipe > 0 THEN {CmdEvent} ELSE {})
    OBVIOUS
  <2>3. Ready(t) = X \cup Y BY <2>2 DEF Ready
  <2>4. PICK a \in TsvrEvents, b \in TsvrEvents : (X = {} \/ X = {a}) /\ (Y = {} \/ Y = {b}) BY <2>1, <2>2
  <2>5. o \in SetToSeqs(X \cup Y) BY <2>3
  <2> QED BY <2>4, <2>5, BatchOf
<1>8. batch' \in [Tsvrs -> Seq(TsvrEvents)] /\ \A u \in Tsvrs : Len(batch'[u]) <= 2
  BY <1>1, <1>7 DEF ProxyInv, QueuesOk
<1>9. QueuesOk' BY <1>1, <1>8, QueuesSame DEF ProxyInv, confVars
<1> QED BY <1>1, <1>2, <1>3, <1>5, <1>6, <1>9, FlagsStep

LEMMA EpollModIs ==
    ASSUME NEW K, NEW s \in Socks(K), NEW t
    PROVE  /\ EpollMod(t, s) \in Socks(K) /\ EpollMod(t, s).fd = s.fd /\ EpollMod(t, s).mesg = s.mesg
           /\ EpollMod(t, s).iov = s.iov /\ EpollMod(t, s).idx = s.idx /\ EpollMod(t, s).kp = s.kp
<1>1. PICK r \in BOOLEAN : r = (s.rdy \/ Readable(t) \/ ~s.full) BY DEF Socks
<1>2. EpollMod(t, s) = [s EXCEPT !.rdy = r] BY <1>1 DEF EpollMod
<1> QED BY <1>2 DEF Socks

LEMMA TimeoutP == ASSUME ProxyInv, NEW t \in Tsvrs, rtmq_proxy_tsvr_timeout_hdl(t) PROVE ProxyInv'
<1>0. sck[t].fd /\ UNCHANGED <<confVars, batch, sendVars, recvVars>> BY DEF rtmq_proxy_tsvr_timeout_hdl
<1>a. QueuesOk' BY <1>0, BatchSame
<1>b. CASE sck[t].kp = "SENT" BY <1>0, <1>a, <1>b, DelConnP DEF rtmq_proxy_tsvr_timeout_hdl
<1>c. CASE sck[t].kp # "SENT"
  <2>1. PICK K : K = OutMesgs OBVIOUS
  <2>2. PICK s \in Socks(K), n \in Peers(K) : s = sck[t] /\ n = net[t] BY <2>1, SckOf
  <2>3. TsvrOk(K, s, n) /\ MesgSet(K) /\ launched BY <1>0, <2>1, <2>2, SckOf, OutMesgsAre
  <2>a. PICK e \in K : e = Sys("KPALIVE_REQ") BY <2>3 DEF MesgSet
  <2>b. PICK y \in Seq(K) : y = s.mesg BY DEF Socks
  <2>5. PICK l \in Seq(K) : l = Append(s.mesg, Sys("KPALIVE_REQ"))
    <3>1. Append(y, e) \in Seq(K) OBVIOUS
    <3> QED BY <3>1, <2>a, <2>b
  <2>4. PICK g : g = [s EXCEPT !.mesg = l, !.kp = "SENT", !.wr = 0] OBVIOUS
  <2>6. g \in Socks(K) /\ g.fd = s.fd /\ g.mesg = l /\ g.iov = s.iov /\ g.idx = s.idx
    <3>1. g.fd = s.fd /\ g.mesg = l /\ g.iov = s.iov /\ g.idx = s.idx BY <2>4 DEF Socks
    <3>2. PICK z \in 0 .. 1 : z = 0 OBVIOUS
    <3>3. g = [s EXCEPT !.mesg = l, !.kp = "SENT", !.wr = z] BY <2>4, <3>2
    <3>4. g \in Socks(K) BY <3>3 DEF Socks
    <3> QED BY <3>1, <3>4
  <2>7. PICK s2 : s2 = EpollMod(t, g) OBVIOUS
  <2>8. s2 \in Socks(K) /\ s2.fd = s.fd /\ s2.mesg = l /\ s2.iov = s.iov /\ s2.idx = s.idx
    BY <2>6, <2>7, EpollModIs
  <2>9. sck' = [sck EXCEPT ![t] = s2] /\ UNCHANGED <<net, lost>>
    <3>1. /\ sck' = [sck EXCEPT ![t] = EpollMod(t, [sck[t] EXCEPT !.mesg = Append(sck[t].mesg, Sys("KPALIVE_REQ")),
                                                                   !.kp = "SENT", !.wr = 0])]
          /\ UNCHANGED <<net, lost>>
      BY <1>c DEF rtmq_proxy_tsvr_timeout_hdl
    <3>2. [sck[t] EXCEPT !.mesg = Append(sck[t].mesg, Sys("KPALIVE_REQ")), !.kp = "SENT", !.wr = 0] = g
      BY <2>2, <2>4, <2>5
    <3> QED BY <3>1, <3>2, <2>7
  <2>10. DOMAIN sck = Tsvrs /\ DOMAIN net = Tsvrs BY SckOf
  <2>11. /\ sck'[t] = s2 /\ DOMAIN sck' = Tsvrs /\ net' = net
         /\ \A u \in Tsvrs : u # t => sck'[u] = sck[u]
    BY <2>9, <2>10
  <2>12. TsvrOk(K, s2, n) BY <1>0, <2>2, <2>3, <2>5, <2>8, TsvrAsks
  <2>13. ConfOk' /\ TsvrsOk' BY <1>0, <2>1, <2>2, <2>3, <2>10, <2>11, <2>12, StepOfOne DEF ProxyInv
  <2>14. WorkersOk' /\ NoLostWork' BY <1>0, WorkersSame DEF ProxyInv
  <2>15. \A u \in Tsvrs : sck'[u].iov = sck[u].iov BY <2>2, <2>8, <2>11
  <2>16. Tracked' BY <1>0, <2>9, <2>15, TrackedSame DEF ProxyInv, confVars, sendVars
  <2> QED BY <1>a, <2>13, <2>14, <2>16 DEF ProxyInv
<1> QED BY <1>b, <1>c

LEMMA RecvProcP == ASSUME ProxyInv, NEW t \in Tsvrs, rtmq_proxy_tsvr_recv_proc(t) PROVE ProxyInv'
<1>0. batch[t] # <<>> /\ UNCHANGED <<confVars, sendVars, recvVars>>
  BY DEF rtmq_proxy_tsvr_recv_proc, TsvrReads, Event
<1>1. \/ /\ batch' = [batch EXCEPT ![t] = <<[Head(@) EXCEPT !.in = FALSE]>> \o Tail(@)]
         /\ UNCHANGED <<sck, net, lost>>
      \/ Handled(t) /\ rtmq_proxy_tsvr_del_conn(t)
  BY DEF rtmq_proxy_tsvr_recv_proc
<1>2. CASE Handled(t) /\ rtmq_proxy_tsvr_del_conn(t)
  <2>1. batch' \in [Tsvrs -> Seq(TsvrEvents)] /\ \A u \in Tsvrs : Len(batch'[u]) <= 2
    BY <1>0, <1>2, BatchTail DEF ProxyInv
  <2>2. QueuesOk' BY <1>0, <2>1, QueuesSame DEF ProxyInv, confVars, sendVars
  <2> QED BY <1>0, <1>2, <2>2, DelConnP
<1>3. CASE /\ batch' = [batch EXCEPT ![t] = <<[Head(@) EXCEPT !.in = FALSE]>> \o Tail(@)]
           /\ UNCHANGED <<sck, net, lost>>
  <2>1. PICK E : E = TsvrEvents OBVIOUS
  <2>2. PICK b \in Seq(E) : b = batch[t] /\ Len(b) <= 2 BY <2>1 DEF ProxyInv, QueuesOk
  <2>3. Head(b) \in E /\ Tail(b) \in Seq(E) /\ Len(Tail(b)) = Len(b) - 1 BY <1>0, <2>2
  <2>4. PICK e : e = [Head(b) EXCEPT !.in = FALSE] OBVIOUS
  <2>5. e \in E BY <2>1, <2>3, <2>4 DEF TsvrEvents
  <2>6. PICK a \in Seq(E) : a = <<e>> /\ Len(a) = 1
    <3>1. <<e>> \in Seq(E) /\ Len(<<e>>) = 1 BY <2>5
    <3> QED BY <3>1
  <2>7. PICK c \in Seq(E) : c = Tail(b) BY <2>3
  <2>8. a \o c \in Seq(E) /\ Len(a \o c) = Len(a) + Len(c) BY ConcatProperties
  <2>9. batch' = [batch EXCEPT ![t] = a \o c] BY <1>3, <2>2, <2>4, <2>6, <2>7
  <2>10. Len(a \o c) <= 2 BY <2>2, <2>3, <2>6, <2>7, <2>8
  <2>11. batch' \in [Tsvrs -> Seq(TsvrEvents)] /\ \A u \in Tsvrs : Len(batch'[u]) <= 2
    BY <2>1, <2>8, <2>9, <2>10 DEF ProxyInv, QueuesOk
  <2>12. QueuesOk' BY <1>0, <2>11, QueuesSame DEF ProxyInv, confVars, sendVars
  <2>13. OutMesgs' = OutMesgs BY <1>0 DEF OutMesgs, confVars
  <2>14. ConfOk' /\ TsvrsOk' BY <1>0, <1>3, <2>13 DEF ProxyInv, ConfOk, TsvrsOk, confVars
  <2>15. WorkersOk' /\ NoLostWork' BY <1>0, WorkersSame DEF ProxyInv
  <2>16. Tracked' BY <1>0, <1>3, TrackedSame DEF ProxyInv, confVars, sendVars
  <2> QED BY <2>12, <2>14, <2>15, <2>16 DEF ProxyInv
<1> QED BY <1>1, <1>2, <1>3

\* A message taken out of the inbox, as a part of a step.
LEMMA TakenP ==
    ASSUME ProxyInv, NEW t \in Tsvrs, sck[t].fd, net[t].in # <<>>, net' = [net EXCEPT ![t].in = Tail(@)],
           \/ sck' = sck /\ Head(net[t].in) # "KPALIVE_ACK"
           \/ sck' = [sck EXCEPT ![t].kp = "SUCC"],
           UNCHANGED <<confVars, batch, sendVars, lost>>
    PROVE  ConfOk' /\ TsvrsOk' /\ QueuesOk' /\ Tracked'
<1>1. PICK K : K = OutMesgs OBVIOUS
<1>2. PICK s \in Socks(K), n \in Peers(K) : s = sck[t] /\ n = net[t] BY <1>1, SckOf
<1>3. TsvrOk(K, s, n) /\ launched /\ DOMAIN sck = Tsvrs /\ DOMAIN net = Tsvrs BY <1>1, <1>2, SckOf
<1>4. PICK B : B = In \cup {"KPALIVE_ACK", "BAD"} OBVIOUS
<1>5. PICK l \in Seq(B) : l = n.in BY <1>4 DEF Peers
<1>6. PICK k \in Seq(B) : k = Tail(l)
  <2>1. Tail(l) \in Seq(B) BY <1>2, <1>5
  <2> QED BY <2>1
<1>7. PICK n2 : n2 = [n EXCEPT !.in = k] OBVIOUS
<1>8. n2 \in Peers(K) /\ n2.pre = n.pre /\ n2.asked = n.asked /\ n2.in = Tail(n.in)
  BY <1>4, <1>5, <1>6, <1>7 DEF Peers
<1>9. net'[t] = n2 /\ DOMAIN net' = Tsvrs /\ \A u \in Tsvrs : u # t => net'[u] = net[u]
  BY <1>2, <1>3, <1>5, <1>6, <1>7
<1>10. PICK s2 \in Socks(K) :
         /\ sck'[t] = s2 /\ DOMAIN sck' = Tsvrs /\ \A u \in Tsvrs : u # t => sck'[u] = sck[u]
         /\ s2.fd = s.fd /\ s2.mesg = s.mesg /\ s2.iov = s.iov /\ s2.idx = s.idx
         /\ s2.kp = "SUCC" \/ (s2.kp = s.kp /\ Head(n.in) # "KPALIVE_ACK")
  <2>1. CASE sck' = sck /\ Head(net[t].in) # "KPALIVE_ACK" BY <2>1, <1>2, <1>3
  <2>2. CASE sck' = [sck EXCEPT ![t].kp = "SUCC"]
    <3>1. PICK g : g = [s EXCEPT !.kp = "SUCC"] OBVIOUS
    <3>2. g \in Socks(K) /\ g.fd = s.fd /\ g.mesg = s.mesg /\ g.iov = s.iov /\ g.idx = s.idx /\ g.kp = "SUCC"
      BY <3>1 DEF Socks
    <3>3. sck' = [sck EXCEPT ![t] = g] BY <2>2, <3>1, <1>2
    <3>4. sck'[t] = g /\ DOMAIN sck' = Tsvrs /\ \A u \in Tsvrs : u # t => sck'[u] = sck[u] BY <3>3, <1>3
    <3> QED BY <3>2, <3>4
  <2> QED BY <2>1, <2>2
<1>11. TsvrOk(K, s2, n2) BY <1>2, <1>3, <1>8, <1>10, TsvrReadsOne
<1>12. ConfOk' /\ TsvrsOk' BY <1>1, <1>3, <1>9, <1>10, <1>11, StepOfOne DEF ProxyInv
<1>13. QueuesOk' BY BatchSame
<1>14. \A u \in Tsvrs : sck'[u].iov = sck[u].iov BY <1>2, <1>10
<1>15. Tracked' BY <1>14, TrackedSame DEF ProxyInv, confVars, sendVars
<1> QED BY <1>12, <1>13, <1>15

LEMMA SysMesgP == ASSUME ProxyInv, NEW t \in Tsvrs, rtmq_proxy_tsvr_sys_mesg_proc(t) PROVE ProxyInv'
<1>1. /\ sck[t].fd /\ net[t].in # <<>> /\ net' = [net EXCEPT ![t].in = Tail(@)]
      /\ \/ sck' = sck /\ Head(net[t].in) # "KPALIVE_ACK"
         \/ sck' = [sck EXCEPT ![t].kp = "SUCC"]
      /\ UNCHANGED <<confVars, batch, sendVars, recvVars, lost>>
  BY DEF rtmq_proxy_tsvr_sys_mesg_proc, TsvrReads
<1>2. ConfOk' /\ TsvrsOk' /\ QueuesOk' /\ Tracked' BY <1>1, TakenP
<1>3. WorkersOk' /\ NoLostWork' BY <1>1, WorkersSame DEF ProxyInv
<1> QED BY <1>2, <1>3 DEF ProxyInv

LEMMA ExpMesgP == ASSUME ProxyInv, NEW t \in Tsvrs, rtmq_proxy_tsvr_exp_mesg_proc(t) PROVE ProxyInv'
<1>1. /\ sck[t].fd /\ net[t].in # <<>> /\ net' = [net EXCEPT ![t].in = Tail(@)] /\ Head(net[t].in) \in In
      /\ sck' = sck /\ note[t] = NoNote
      /\ UNCHANGED <<confVars, batch, sendVars, wpipe, todo, lost>>
  BY DEF rtmq_proxy_tsvr_exp_mesg_proc, TsvrReads
<1>2. Head(net[t].in) # "KPALIVE_ACK" BY <1>1, ProxyAssumption
<1>3. ConfOk' /\ TsvrsOk' /\ QueuesOk' /\ Tracked' BY <1>1, <1>2, TakenP
<1>4. PICK m \in In : m = Head(net[t].in) BY <1>1
<1>5. PICK w \in Workers :
        \/ UNCHANGED <<recvq, note>>
        \/ /\ Len(recvq[w]) < RecvqMax /\ recvq' = [recvq EXCEPT ![w] = Append(@, m)]
           /\ note' = [note EXCEPT ![t] = w]
  BY <1>4 DEF rtmq_proxy_tsvr_exp_mesg_proc
<1>6. CASE UNCHANGED <<recvq, note>>
  <2>1. WorkersOk' /\ NoLostWork' BY <1>1, <1>6 DEF ProxyInv, WorkersOk, NoLostWork
  <2> QED BY <1>3, <2>1 DEF ProxyInv
<1>7. CASE /\ Len(recvq[w]) < RecvqMax /\ recvq' = [recvq EXCEPT ![w] = Append(@, m)]
           /\ note' = [note EXCEPT ![t] = w]
  <2>1. PICK l \in Seq(In) : l = recvq[w] /\ Len(l) < RecvqMax BY <1>7 DEF ProxyInv, WorkersOk
  <2>2. Append(l, m) \in Seq(In) /\ Len(Append(l, m)) = Len(l) + 1 BY <2>1
  <2>3. Len(Append(l, m)) <= RecvqMax BY <2>1, <2>2, ConfIsValid
  <2>4. recvq' = [recvq EXCEPT ![w] = Append(l, m)] BY <1>7, <2>1
  <2>5. recvq' \in [Workers -> Seq(In)] /\ \A x \in Workers : Len(recvq'[x]) <= RecvqMax
    BY <2>2, <2>3, <2>4 DEF ProxyInv, WorkersOk
  <2>6. note' \in [Tsvrs -> Workers \cup {NoNote}] BY <1>7 DEF ProxyInv, WorkersOk
  <2>7. WorkersOk' BY <1>1, <2>5, <2>6 DEF ProxyInv, WorkersOk
  <2>8. ASSUME NEW x \in Workers, recvq'[x] # <<>>
        PROVE  \/ wpipe'[x] > 0 \/ \E v \in Workers : \E i \in DOMAIN todo'[v] : todo'[v][i] = x
               \/ \E u \in Tsvrs : note'[u] = x
    <3>1. CASE x = w
      <4>1. note'[t] = x BY <3>1, <1>7 DEF ProxyInv, WorkersOk
      <4> QED BY <4>1
    <3>2. CASE x # w
      <4>1. recvq'[x] = recvq[x] BY <3>2, <1>7 DEF ProxyInv, WorkersOk
      <4>2. \A u \in Tsvrs : note[u] = x => note'[u] = x
        <5>1. x # NoNote BY DEF Workers, NoNote
        <5> QED BY <5>1, <1>1, <1>7 DEF ProxyInv, WorkersOk
      <4> QED BY <1>1, <2>8, <4>1, <4>2 DEF ProxyInv, NoLostWork
    <3> QED BY <3>1, <3>2
  <2>9. NoLostWork' BY <2>8 DEF NoLostWork
  <2> QED BY <1>3, <2>7, <2>9 DEF ProxyInv
<1> QED BY <1>5, <1>6, <1>7

LEMMA OutsideSame ==
    ASSUME ProxyInv, UNCHANGED <<confVars, sck, net, batch, sendVars, lost>>
    PROVE  ConfOk' /\ TsvrsOk' /\ QueuesOk' /\ Tracked'
<1>1. OutMesgs' = OutMesgs BY DEF OutMesgs, confVars
<1>2. ConfOk' /\ TsvrsOk' BY <1>1 DEF ProxyInv, ConfOk, TsvrsOk, confVars
<1>3. QueuesOk' BY BatchSame
<1>4. Tracked' BY TrackedSame DEF ProxyInv, confVars, sendVars
<1> QED BY <1>2, <1>3, <1>4

LEMMA ProcReqP == ASSUME ProxyInv, NEW t \in Tsvrs, rtmq_proxy_tsvr_cmd_proc_req(t) PROVE ProxyInv'
<1>1. /\ note[t] # NoNote /\ note' = [note EXCEPT ![t] = NoNote]
      /\ wpipe' = [wpipe EXCEPT ![note[t]] = IF @ < WorkPipeMax THEN @ + 1 ELSE @]
      /\ UNCHANGED <<confVars, sck, net, batch, sendVars, recvq, todo, lost>>
  BY DEF rtmq_proxy_tsvr_cmd_proc_req
<1>2. ConfOk' /\ TsvrsOk' /\ QueuesOk' /\ Tracked' BY <1>1, OutsideSame
<1>3. PICK w \in Workers : w = note[t] BY <1>1 DEF ProxyInv, WorkersOk
<1>4. PICK z \in 0 .. WorkPipeMax : z = wpipe[w] BY DEF ProxyInv, WorkersOk
<1>5. PICK y : y = IF z < WorkPipeMax THEN z + 1 ELSE z OBVIOUS
<1>6. y \in 0 .. WorkPipeMax /\ y > 0 BY <1>5, ProxyAssumption
<1>7. wpipe' = [wpipe EXCEPT ![w] = y] BY <1>1, <1>3, <1>4, <1>5
<1>8. WorkersOk' BY <1>1, <1>6, <1>7 DEF ProxyInv, WorkersOk
<1>9. ASSUME NEW x \in Workers, recvq'[x] # <<>>
      PROVE  \/ wpipe'[x] > 0 \/ \E v \in Workers : \E i \in DOMAIN todo'[v] : todo'[v][i] = x
             \/ \E u \in Tsvrs : note'[u] = x
  <2>1. CASE x = w
    <3>1. wpipe'[x] = y BY <2>1, <1>7 DEF ProxyInv, WorkersOk
    <3> QED BY <3>1, <1>6
  <2>2. CASE x # w
    <3>1. wpipe'[x] = wpipe[x] BY <2>2, <1>7 DEF ProxyInv, WorkersOk
    <3>2. \A u \in Tsvrs : note[u] = x => note'[u] = x BY <1>1, <1>3, <2>2 DEF ProxyInv, WorkersOk
    <3> QED BY <1>1, <1>9, <3>1, <3>2 DEF ProxyInv, NoLostWork
  <2> QED BY <2>1, <2>2
<1>10. NoLostWork' BY <1>9 DEF NoLostWork
<1> QED BY <1>2, <1>8, <1>10 DEF ProxyInv

\* rtmq_proxy_tsvr_wiov_add fills the iovec.
LEMMA WiovAdd ==
    ASSUME ProxyInv, NEW t \in Tsvrs
    PROVE  Fills(OutMesgs, sck[t], sendq, rtmq_proxy_tsvr_wiov_add(t).iov, rtmq_proxy_tsvr_wiov_add(t).mesg,
                 rtmq_proxy_tsvr_wiov_add(t).sendq)
<1>1. PICK K : K = OutMesgs OBVIOUS
<1>2. PICK s \in Socks(K) : s = sck[t] BY <1>1, SckOf
<1>3. PICK q \in Seq(K) : q = sendq BY <1>1 DEF ProxyInv, QueuesOk
<1>4. s.idx + Len(s.iov) <= IovMax BY <1>1, <1>2, SckOf DEF TsvrOk
<1>5. PICK sys : sys = Lesser(IovMax - (s.idx + Len(s.iov)), Len(s.mesg)) OBVIOUS
<1>6. PICK dat : dat = Lesser(IovMax - (s.idx + Len(s.iov)) - sys, Len(q)) OBVIOUS
<1>7. PICK F, M, Q : /\ F = s.iov \o SubSeq(s.mesg, 1, sys) \o SubSeq(q, 1, dat)
                     /\ M = SubSeq(s.mesg, sys + 1, Len(s.mesg)) /\ Q = SubSeq(q, dat + 1, Len(q))
  OBVIOUS
<1>8. Fills(K, s, q, F, M, Q) BY <1>4, <1>5, <1>6, <1>7, Filled
<1>9. rtmq_proxy_tsvr_wiov_add(t) = IovFilled(t, sys, dat)
  BY <1>2, <1>3, <1>5, <1>6 DEF rtmq_proxy_tsvr_wiov_add
<1>10. IovFilled(t, sys, dat) = [iov |-> F, mesg |-> M, sendq |-> Q] BY <1>2, <1>3, <1>7, SMTT(30) DEF IovFilled
<1> QED BY <1>1, <1>2, <1>3, <1>8, <1>9, <1>10

LEMMA SendDataP == ASSUME ProxyInv, NEW t \in Tsvrs, rtmq_proxy_tsvr_send_data(t) PROVE ProxyInv'
<1>0. batch[t] # <<>> /\ Handled(t) /\ sck[t].fd /\ UNCHANGED <<confVars, pipe, app, recvVars>>
  BY DEF rtmq_proxy_tsvr_send_data, Event
<1>1. PICK K : K = OutMesgs OBVIOUS
<1>2. PICK s \in Socks(K), n \in Peers(K) : s = sck[t] /\ n = net[t] BY <1>1, SckOf
<1>3. TsvrOk(K, s, n) /\ MesgSet(K) /\ launched /\ DOMAIN sck = Tsvrs /\ DOMAIN net = Tsvrs
  BY <1>0, <1>1, <1>2, SckOf, OutMesgsAre
<1>4. PICK q \in Seq(K) : q = sendq /\ Len(q) <= SendqMax BY <1>1 DEF ProxyInv, QueuesOk
<1>5. PICK f : f = rtmq_proxy_tsvr_wiov_add(t) OBVIOUS
<1>6. PICK F, M, Q : F = f.iov /\ M = f.mesg /\ Q = f.sendq OBVIOUS
<1>7. Fills(K, s, q, F, M, Q) BY <1>1, <1>2, <1>4, <1>5, <1>6, WiovAdd
<1>8. F \in Seq(K) /\ M \in Seq(K) /\ Q \in Seq(K) /\ s.idx + Len(F) <= IovMax /\ Len(Q) <= Len(q) BY <1>7 DEF Fills
<1>9. batch' \in [Tsvrs -> Seq(TsvrEvents)] /\ \A u \in Tsvrs : Len(batch'[u]) <= 2
  BY <1>0, BatchTail DEF ProxyInv
<1>10. WorkersOk' /\ NoLostWork' BY <1>0, WorkersSame DEF ProxyInv
<1>11. OutMesgs' = K /\ scene' = scene /\ app' = app BY <1>0, <1>1 DEF OutMesgs, confVars
<1>12. NoData(s.mesg) /\ s.iov \in Seq(K) /\ s.idx \in Nat BY <1>3, TsvrFields DEF TsvrOk
<1>13. CASE UNCHANGED <<sck, net, sendq, sent, lost>>
  <2>1. ConfOk' /\ TsvrsOk' BY <1>0, <1>1, <1>11, <1>13 DEF ProxyInv, ConfOk, TsvrsOk, confVars
  <2>2. QueuesOk' BY <1>0, <1>9, <1>11, <1>13, QueuesSame DEF ProxyInv
  <2>3. Tracked' BY <1>11, <1>13, TrackedSame DEF ProxyInv
  <2> QED BY <1>10, <2>1, <2>2, <2>3 DEF ProxyInv
<1>14. ASSUME sendq' = Q PROVE QueuesOk'
  <2>1. Len(Q) <= SendqMax BY <1>4, <1>8, ConfIsValid
  <2> QED BY <1>0, <1>8, <1>9, <1>11, <1>14, <2>1 DEF ProxyInv, QueuesOk
<1>15. PICK v, y, l : v = Iovs /\ y = sent /\ l = lost OBVIOUS
<1>16. v[t] = s.iov BY <1>2, <1>15 DEF Iovs
<1>17. \A i \in 1 .. scene.out : OnlyPlace(Out[i], q, v, y, l) /\ (Somewhere(Out[i], q, v, y, l) <=> i <= app.n)
  BY <1>4, <1>15 DEF ProxyInv, Tracked
<1>18. ASSUME sendq' = Q, sent' = y, lost' = l \cup DataOf(F), net' = [net EXCEPT ![t] = NoNet],
              sck' = [sck EXCEPT ![t] = [@ EXCEPT !.fd = FALSE, !.rdy = FALSE, !.full = FALSE,
                        !.iov = <<>>, !.idx = 0, !.mesg = M, !.wr = 0]]
       PROVE  ProxyInv'
  <2>1. PICK z \in Seq(K) : z = <<>> BY EmptySeq
  <2>2. PICK x \in 0 .. 1 : x = 0 OBVIOUS
  <2>3. PICK N \in Seq(K) : N = M BY <1>8
  <2>4. PICK s2 : s2 = [s EXCEPT !.fd = FALSE, !.rdy = FALSE, !.full = FALSE, !.iov = z, !.idx = 0, !.mesg = N, !.wr = x]
    OBVIOUS
  <2>5. s2 \in Socks(K) /\ ~s2.fd /\ s2.iov = <<>> /\ s2.idx = 0 /\ s2.mesg = M BY <2>1, <2>3, <2>4 DEF Socks
  <2>6. sck' = [sck EXCEPT ![t] = s2] BY <1>2, <1>18, <2>1, <2>2, <2>3, <2>4
  <2>7. /\ sck'[t] = s2 /\ net'[t] = NoNet /\ DOMAIN sck' = Tsvrs /\ DOMAIN net' = Tsvrs
        /\ \A u \in Tsvrs : u # t => sck'[u] = sck[u] /\ net'[u] = net[u]
    BY <1>3, <1>18, <2>6
  <2>8. NoData(s2.mesg) BY <1>7, <1>12, <2>5, FillsAsk
  <2>9. TsvrOk(K, s2, NoNet) BY <2>5, <2>8, TsvrClosed
  <2>10. ConfOk' /\ TsvrsOk' BY <1>0, <1>1, <2>5, <2>7, <2>9, StepOfOne DEF ProxyInv
  <2>11. PICK w : w = Iovs' OBVIOUS
  <2>12. w[t] = <<>> /\ \A u \in Tsvrs : u # t => w[u] = v[u] BY <1>15, <2>5, <2>7, <2>11 DEF Iovs
  <2>13. ASSUME NEW i \in 1 .. scene.out
         PROVE  /\ OnlyPlace(Out[i], sendq', Iovs', sent', lost')
                /\ Somewhere(Out[i], sendq', Iovs', sent', lost') <=> i <= app'.n
    <3>1. PICK m : m = Out[i] OBVIOUS
    <3>2. OnlyPlace(m, q, v, y, l) /\ (Somewhere(m, q, v, y, l) <=> i <= app.n) BY <1>17, <3>1
    <3>3. /\ OnlyPlace(m, Q, w, y, l \cup DataOf(F))
          /\ Somewhere(m, Q, w, y, l \cup DataOf(F)) <=> Somewhere(m, q, v, y, l)
      BY <1>3, <1>7, <1>12, <1>16, <2>12, <3>2, ResetByPeer
    <3> QED BY <1>11, <1>18, <2>11, <3>1, <3>2, <3>3
  <2>14. Tracked' BY <1>11, <2>13 DEF Tracked
  <2> QED BY <1>10, <1>14, <1>18, <2>10, <2>14 DEF ProxyInv
<1>19. ASSUME NEW k \in Nat, k <= Len(F), sendq' = Q, sent' = y \cup DataOf(SubSeq(F, 1, k)), lost' = l,
              sck' = [sck EXCEPT ![t] = [@ EXCEPT !.wr = 0, !.mesg = M, !.iov = SubSeq(F, k + 1, Len(F)),
                        !.idx = IF k = Len(F) THEN 0 ELSE s.idx + k, !.full = k < Len(F)]],
              net' = [net EXCEPT ![t].pre = Keep(@ \o SubSeq(F, 1, k)),
                        ![t].asked = @ \/ \E i \in 1 .. k : F[i].kind = "KPALIVE_REQ"]
       PROVE  ProxyInv'
  <2>1. PICK w \in Seq(K), r \in Seq(K) : w = SubSeq(F, 1, k) /\ r = SubSeq(F, k + 1, Len(F))
    BY <1>8, <1>19, CutAt
  <2>2. Len(w) = k /\ Len(r) = Len(F) - k /\ F = Cat(w, r) BY <1>8, <1>19, <2>1, CutAt, ZenonT(60) DEF Cat
  <2>3. PICK x \in 0 .. 1 : x = 0 OBVIOUS
  <2>4. PICK N \in Seq(K) : N = M BY <1>8
  <2>5. PICK j \in Nat : j = (IF k = Len(F) THEN 0 ELSE s.idx + k) BY <1>12
  <2>6. PICK g : g = (k < Len(F)) OBVIOUS
  <2>a. g \in BOOLEAN BY <1>8, <2>6
  <2>7. PICK s2 : s2 = [s EXCEPT !.wr = x, !.mesg = N, !.iov = r, !.idx = j, !.full = g] OBVIOUS
  <2>8. s2 \in Socks(K) /\ s2.fd = s.fd /\ s2.iov = r /\ s2.idx = j /\ s2.mesg = M /\ s2.kp = s.kp
    BY <2>4, <2>7, <2>a DEF Socks
  <2>9. sck' = [sck EXCEPT ![t] = s2] BY <1>2, <1>19, <2>1, <2>3, <2>4, <2>5, <2>6, <2>7
  <2>10. s2.idx + Len(r) <= IovMax
    <3>1. PICK a \in Nat : a = Len(F) BY <1>8
    <3>2. PICK b \in Nat : b = s.idx BY <1>12
    <3>3. b + a <= IovMax /\ IovMax \in Nat BY <1>8, <3>1, <3>2, ProxyAssumption
    <3>4. Len(r) = a - k /\ k <= a BY <1>19, <2>2, <3>1
    <3>5. j = (IF k = a THEN 0 ELSE b + k) BY <2>5, <3>1, <3>2
    <3>6. j + (a - k) <= IovMax BY <3>3, <3>4, <3>5
    <3> QED BY <2>8, <3>4, <3>6
  <2>11. PICK p, c : p = Keep(Cat(n.pre, w)) /\ c = (n.asked \/ Asks(w)) OBVIOUS
  <2>12. PICK n2 : n2 = [n EXCEPT !.pre = p, !.asked = c] OBVIOUS
  <2>13. net' = [net EXCEPT ![t] = n2]
    <3>1. Asks(w) <=> \E i \in 1 .. k : F[i].kind = "KPALIVE_REQ"
      <4>1. DOMAIN w = 1 .. k BY <2>2
      <4>2. \A i \in 1 .. k : w[i] = F[i] BY <1>8, <1>19, <2>1, SMTT(30)
      <4> QED BY <4>1, <4>2 DEF Asks
    <3>2. c = (n.asked \/ \E i \in 1 .. k : F[i].kind = "KPALIVE_REQ") BY <2>11, <3>1
    <3>4. net' = [net EXCEPT ![t] = [n EXCEPT !.pre = p, !.asked = c]]
      BY <1>2, <1>3, <1>19, <2>1, <2>11, <3>2 DEF Cat
    <3> QED BY <2>12, <3>4
  <2>14. s2.fd /\ s.fd BY <1>0, <1>2, <2>8
  <2>15. TsvrOk(K, s2, n2) BY <1>3, <1>7, <2>2, <2>8, <2>10, <2>11, <2>12, <2>14, TsvrWrites
  <2>16. /\ sck'[t] = s2 /\ net'[t] = n2 /\ DOMAIN sck' = Tsvrs /\ DOMAIN net' = Tsvrs
         /\ \A u \in Tsvrs : u # t => sck'[u] = sck[u] /\ net'[u] = net[u]
    BY <1>3, <2>9, <2>13
  <2>17. ConfOk' /\ TsvrsOk' BY <1>0, <1>1, <1>3, <2>15, <2>16, StepOfOne DEF ProxyInv
  <2>18. PICK e : e = Iovs' OBVIOUS
  <2>19. e[t] = r /\ \A u \in Tsvrs : u # t => e[u] = v[u] BY <1>15, <2>8, <2>16, <2>18 DEF Iovs
  <2>20. ASSUME NEW i \in 1 .. scene.out
         PROVE  /\ OnlyPlace(Out[i], sendq', Iovs', sent', lost')
                /\ Somewhere(Out[i], sendq', Iovs', sent', lost') <=> i <= app'.n
    <3>1. PICK m : m = Out[i] OBVIOUS
    <3>2. OnlyPlace(m, q, v, y, l) /\ (Somewhere(m, q, v, y, l) <=> i <= app.n) BY <1>17, <3>1
    <3>3. /\ OnlyPlace(m, Q, e, y \cup DataOf(w), l)
          /\ Somewhere(m, Q, e, y \cup DataOf(w), l) <=> Somewhere(m, q, v, y, l)
      BY <1>3, <1>7, <1>12, <1>16, <2>2, <2>19, <3>2, WrittenOut, SMTT(30)
    <3> QED BY <1>11, <1>19, <2>1, <2>18, <3>1, <3>2, <3>3
  <2>21. Tracked' BY <1>11, <2>20 DEF Tracked
  <2> QED BY <1>10, <1>14, <1>19, <2>17, <2>21 DEF ProxyInv
<1>20. \/ UNCHANGED <<sck, net, sendq, sent, lost>>
       \/ /\ sendq' = Q /\ sent' = y /\ lost' = l \cup DataOf(F) /\ net' = [net EXCEPT ![t] = NoNet]
          /\ sck' = [sck EXCEPT ![t] = [@ EXCEPT !.fd = FALSE, !.rdy = FALSE, !.full = FALSE,
                       !.iov = <<>>, !.idx = 0, !.mesg = M, !.wr = 0]]
       \/ \E k \in {Lesser(1, Len(F)), Len(F)} :
          /\ sendq' = Q /\ sent' = y \cup DataOf(SubSeq(F, 1, k)) /\ lost' = l
          /\ sck' = [sck EXCEPT ![t] = [@ EXCEPT !.wr = 0, !.mesg = M, !.iov = SubSeq(F, k + 1, Len(F)),
                       !.idx = IF k = Len(F) THEN 0 ELSE s.idx + k, !.full = k < Len(F)]]
          /\ net' = [net EXCEPT ![t].pre = Keep(@ \o SubSeq(F, 1, k)),
                       ![t].asked = @ \/ \E i \in 1 .. k : F[i].kind = "KPALIVE_REQ"]
  BY <1>2, <1>5, <1>6, <1>15 DEF rtmq_proxy_tsvr_send_data
<1>21. \A k \in {Lesser(1, Len(F)), Len(F)} : k \in Nat /\ k <= Len(F)
  <2>1. PICK a \in Nat : a = Len(F) BY <1>8
  <2>2. Lesser(1, a) \in Nat /\ Lesser(1, a) <= a BY LesserIs
  <2> QED BY <2>1, <2>2
<1> QED BY <1>13, <1>18, <1>19, <1>20, <1>21

LEMMA RecvCmdP == ASSUME ProxyInv, NEW t \in Tsvrs, rtmq_proxy_tsvr_recv_cmd(t) PROVE ProxyInv'
<1>0. batch[t] # <<>> /\ UNCHANGED <<confVars, net, sendq, app, sent, recvVars, lost>>
  BY DEF rtmq_proxy_tsvr_recv_cmd, Event
<1>1. PICK K : K = OutMesgs OBVIOUS
<1>2. PICK s \in Socks(K) : s = sck[t] BY <1>1, SckOf
<1>3. DOMAIN sck = Tsvrs /\ OutMesgs' = K BY <1>0, <1>1, SckOf DEF OutMesgs, confVars
<1>4. CASE pipe > 0
  <2>1. /\ pipe' = pipe - 1 /\ batch' = batch /\ sck' = [sck EXCEPT ![t] = RecvCmdArms(t, s)]
    BY <1>2, <1>4 DEF rtmq_proxy_tsvr_recv_cmd
  <2>2. PICK s2 : s2 = RecvCmdArms(t, s) OBVIOUS
  <2>3. s2 \in Socks(K) /\ s2.fd = s.fd /\ s2.mesg = s.mesg /\ s2.iov = s.iov /\ s2.idx = s.idx /\ s2.kp = s.kp
    BY <2>2, EpollModIs DEF RecvCmdArms
  <2>4. pipe' \in 0 .. PipeMax BY <1>4, <2>1, ProxyAssumption DEF ProxyInv, QueuesOk
  <2>5. QueuesOk' BY <1>0, <1>1, <1>3, <2>1, <2>4 DEF ProxyInv, QueuesOk, confVars
  <2> QED BY <1>0, <1>1, <1>2, <2>1, <2>2, <2>3, <2>5, FlagsStep
<1>5. CASE ~(pipe > 0)
  <2>1. Handled(t) /\ UNCHANGED <<pipe, sck>> BY <1>5 DEF rtmq_proxy_tsvr_recv_cmd
  <2>2. batch' \in [Tsvrs -> Seq(TsvrEvents)] /\ \A u \in Tsvrs : Len(batch'[u]) <= 2
    BY <1>0, <2>1, BatchTail DEF ProxyInv
  <2>3. QueuesOk' BY <1>0, <2>1, <2>2, QueuesSame DEF ProxyInv, confVars
  <2>4. ConfOk' /\ TsvrsOk' BY <1>0, <1>1, <1>3, <2>1 DEF ProxyInv, ConfOk, TsvrsOk, confVars
  <2>5. WorkersOk' /\ NoLostWork' BY <1>0, WorkersSame DEF ProxyInv
  <2>6. Tracked' BY <1>0, <2>1, TrackedSame DEF ProxyInv, confVars
  <2> QED BY <2>3, <2>4, <2>5, <2>6 DEF ProxyInv
<1> QED BY <1>4, <1>5

LEMMA TickP == ASSUME ProxyInv, NEW t \in Tsvrs, Tick(t) PROVE ProxyInv'
<1>1. PICK K : K = OutMesgs OBVIOUS
<1>2. PICK s \in Socks(K) : s = sck[t] BY <1>1, SckOf
<1>3. PICK x \in 0 .. 1 : x = 1 OBVIOUS
<1>4. PICK s2 : s2 = [s EXCEPT !.wr = x] OBVIOUS
<1>5. s2 \in Socks(K) /\ s2.fd = s.fd /\ s2.mesg = s.mesg /\ s2.iov = s.iov /\ s2.idx = s.idx /\ s2.kp = s.kp
  BY <1>4 DEF Socks
<1>6. sck' = [sck EXCEPT ![t] = s2] /\ UNCHANGED <<confVars, net, batch, sendVars, recvVars, lost>>
  BY <1>2, <1>3, <1>4 DEF Tick
<1>7. QueuesOk' BY <1>6, BatchSame
<1>8. UNCHANGED <<confVars, net, sendq, app, sent, lost, recvVars>> BY <1>6 DEF sendVars
<1> QED BY <1>1, <1>2, <1>5, <1>6, <1>7, <1>8, FlagsStep

LEMMA RoomAgainP == ASSUME ProxyInv, NEW t \in Tsvrs, RoomAgain(t) PROVE ProxyInv'
<1>1. PICK K : K = OutMesgs OBVIOUS
<1>2. PICK s \in Socks(K) : s = sck[t] BY <1>1, SckOf
<1>4. PICK s2 : s2 = [s EXCEPT !.full = FALSE, !.rdy = TRUE] OBVIOUS
<1>5. s2 \in Socks(K) /\ s2.fd = s.fd /\ s2.mesg = s.mesg /\ s2.iov = s.iov /\ s2.idx = s.idx /\ s2.kp = s.kp
  BY <1>4 DEF Socks
<1>6. sck' = [sck EXCEPT ![t] = s2] /\ UNCHANGED <<confVars, net, batch, sendVars, recvVars, lost>>
  <2>1. DOMAIN sck = Tsvrs BY SckOf
  <2> QED BY <1>2, <1>4, <2>1 DEF RoomAgain
<1>7. QueuesOk' BY <1>6, BatchSame
<1>8. UNCHANGED <<confVars, net, sendq, app, sent, lost, recvVars>> BY <1>6 DEF sendVars
<1> QED BY <1>1, <1>2, <1>5, <1>6, <1>7, <1>8, FlagsStep

\* An open connection is the thread's.
LEMMA OpenIs == ASSUME ProxyInv, NEW t \in Tsvrs, net[t].open PROVE sck[t].fd /\ launched
<1>1. TsvrOk(OutMesgs, sck[t], net[t]) /\ (sck[t].fd => launched) BY SckOf
<1>2. NoNet.open = FALSE BY DEF NoNet
<1> QED BY <1>1, <1>2 DEF TsvrOk

LEMMA ArrivesP ==
    ASSUME ProxyInv, NEW t \in Tsvrs, NEW m \in In \cup {"KPALIVE_ACK", "BAD"}, Arrives(t, m)
    PROVE  ProxyInv'
<1>0. net[t].open /\ Len(net[t].in) < InboxMax /\ UNCHANGED <<confVars, batch, sendVars, recvVars, lost>>
  BY DEF Arrives
<1>1. PICK K : K = OutMesgs OBVIOUS
<1>2. PICK s \in Socks(K), n \in Peers(K) : s = sck[t] /\ n = net[t] BY <1>1, SckOf
<1>3. TsvrOk(K, s, n) /\ s.fd /\ launched /\ DOMAIN sck = Tsvrs /\ DOMAIN net = Tsvrs
  BY <1>0, <1>1, <1>2, SckOf, OpenIs
<1>4. PICK B : B = In \cup {"KPALIVE_ACK", "BAD"} OBVIOUS
<1>5. PICK l \in Seq(B) : l = n.in BY <1>4 DEF Peers
<1>6. PICK k \in Seq(B) : k = Append(l, m)
  <2>1. Append(l, m) \in Seq(B) BY <1>4
  <2> QED BY <2>1
<1>7. PICK c : c = (n.asked /\ m # "KPALIVE_ACK") OBVIOUS
<1>8. c \in BOOLEAN BY <1>7 DEF Peers
<1>9. PICK n2 : n2 = [n EXCEPT !.in = k, !.asked = c] OBVIOUS
<1>10. n2 \in Peers(K) /\ n2.pre = n.pre /\ n2.asked = c /\ n2.in = k BY <1>4, <1>8, <1>9 DEF Peers
<1>11. PICK s2 : s2 = [s EXCEPT !.rdy = TRUE] OBVIOUS
<1>12. s2 \in Socks(K) /\ s2.fd = s.fd /\ s2.mesg = s.mesg /\ s2.iov = s.iov /\ s2.idx = s.idx /\ s2.kp = s.kp
  BY <1>11 DEF Socks
<1>13. sck' = [sck EXCEPT ![t] = s2] BY <1>2, <1>11 DEF Arrives
<1>14. net' = [net EXCEPT ![t] = n2] BY <1>2, <1>3, <1>5, <1>6, <1>7, <1>9 DEF Arrives
<1>15. /\ sck'[t] = s2 /\ net'[t] = n2 /\ DOMAIN sck' = Tsvrs /\ DOMAIN net' = Tsvrs
       /\ \A u \in Tsvrs : u # t => sck'[u] = sck[u] /\ net'[u] = net[u]
  BY <1>3, <1>13, <1>14
<1>16. Len(n.in) < InboxMax /\ n2.in = Append(n.in, m) BY <1>0, <1>2, <1>5, <1>6, <1>10
<1>17. TsvrOk(K, s2, n2) BY <1>3, <1>7, <1>10, <1>12, <1>16, TsvrHears
<1>18. ConfOk' /\ TsvrsOk' BY <1>0, <1>1, <1>3, <1>15, <1>17, StepOfOne DEF ProxyInv
<1>19. WorkersOk' /\ NoLostWork' BY <1>0, WorkersSame DEF ProxyInv
<1>20. QueuesOk' BY <1>0, BatchSame
<1>21. \A u \in Tsvrs : sck'[u].iov = sck[u].iov BY <1>2, <1>12, <1>15
<1>22. Tracked' BY <1>0, <1>21, TrackedSame DEF ProxyInv, confVars, sendVars
<1> QED BY <1>18, <1>19, <1>20, <1>22 DEF ProxyInv

LEMMA ClosesP == ASSUME ProxyInv, NEW t \in Tsvrs, BrokerCloses(t) PROVE ProxyInv'
<1>0. net[t].open /\ UNCHANGED <<confVars, batch, sendVars, recvVars, lost>> BY DEF BrokerCloses
<1>1. PICK K : K = OutMesgs OBVIOUS
<1>2. PICK s \in Socks(K), n \in Peers(K) : s = sck[t] /\ n = net[t] BY <1>1, SckOf
<1>3. TsvrOk(K, s, n) /\ s.fd /\ launched /\ DOMAIN sck = Tsvrs /\ DOMAIN net = Tsvrs
  BY <1>0, <1>1, <1>2, SckOf, OpenIs
<1>4. PICK n2 : n2 = [n EXCEPT !.open = FALSE] OBVIOUS
<1>5. n2 \in Peers(K) /\ n2.pre = n.pre /\ n2.asked = n.asked /\ n2.in = n.in BY <1>4 DEF Peers
<1>6. PICK s2 : s2 = [s EXCEPT !.rdy = TRUE] OBVIOUS
<1>7. s2 \in Socks(K) /\ s2.fd = s.fd /\ s2.mesg = s.mesg /\ s2.iov = s.iov /\ s2.idx = s.idx /\ s2.kp = s.kp
  BY <1>6 DEF Socks
<1>8. sck' = [sck EXCEPT ![t] = s2] /\ net' = [net EXCEPT ![t] = n2] BY <1>2, <1>4, <1>6 DEF BrokerCloses
<1>9. /\ sck'[t] = s2 /\ net'[t] = n2 /\ DOMAIN sck' = Tsvrs /\ DOMAIN net' = Tsvrs
      /\ \A u \in Tsvrs : u # t => sck'[u] = sck[u] /\ net'[u] = net[u]
  BY <1>3, <1>8
<1>10. TsvrOk(K, s2, n2) BY <1>3, <1>5, <1>7 DEF TsvrOk
<1>11. ConfOk' /\ TsvrsOk' BY <1>0, <1>1, <1>3, <1>9, <1>10, StepOfOne DEF ProxyInv
<1>12. WorkersOk' /\ NoLostWork' BY <1>0, WorkersSame DEF ProxyInv
<1>13. QueuesOk' BY <1>0, BatchSame
<1>14. \A u \in Tsvrs : sck'[u].iov = sck[u].iov BY <1>2, <1>7, <1>9
<1>15. Tracked' BY <1>0, <1>14, TrackedSame DEF ProxyInv, confVars, sendVars
<1> QED BY <1>11, <1>12, <1>13, <1>15 DEF ProxyInv

LEMMA WorkerRoutineP == ASSUME ProxyInv, NEW w \in Workers, rtmq_proxy_worker_routine(w) PROVE ProxyInv'
<1>1. todo[w] = <<>> /\ UNCHANGED <<confVars, sck, net, batch, sendVars, recvq, note, lost>>
  BY DEF rtmq_proxy_worker_routine
<1>2. ConfOk' /\ TsvrsOk' /\ QueuesOk' /\ Tracked' BY <1>1, OutsideSame
<1>3. PICK z \in 0 .. WorkPipeMax : z = wpipe[w] BY DEF ProxyInv, WorkersOk
<1>4. \A x \in Workers : ~\E i \in DOMAIN todo[w] : todo[w][i] = x BY <1>1
<1>5. CASE wpipe[w] > 0
  <2>1. wpipe' = [wpipe EXCEPT ![w] = z - 1] /\ todo' = [todo EXCEPT ![w] = <<w>>]
    BY <1>3, <1>5 DEF rtmq_proxy_worker_routine
  <2>2. z - 1 \in 0 .. WorkPipeMax BY <1>3, <1>5, ProxyAssumption
  <2>3. <<w>> \in Seq(Workers) /\ DOMAIN <<w>> = {1} /\ <<w>>[1] = w OBVIOUS
  <2>4. WorkersOk' BY <1>1, <2>1, <2>2, <2>3 DEF ProxyInv, WorkersOk
  <2>5. ASSUME NEW x \in Workers, recvq'[x] # <<>>
        PROVE  \/ wpipe'[x] > 0 \/ \E v \in Workers : \E i \in DOMAIN todo'[v] : todo'[v][i] = x
               \/ \E u \in Tsvrs : note'[u] = x
    <3>1. todo'[w] = <<w>> /\ \A v \in Workers : v # w => todo'[v] = todo[v] /\ wpipe'[v] = wpipe[v]
      BY <2>1 DEF ProxyInv, WorkersOk
    <3>2. CASE x = w
      <4>1. 1 \in DOMAIN todo'[w] /\ todo'[w][1] = x BY <2>3, <3>1, <3>2
      <4> QED BY <4>1
    <3>3. CASE x # w
      <4>1. wpipe'[x] = wpipe[x] BY <3>1, <3>3
      <4>2. \A v \in Workers : (\E i \in DOMAIN todo[v] : todo[v][i] = x) => \E i \in DOMAIN todo'[v] : todo'[v][i] = x
        BY <1>4, <3>1
      <4> QED BY <1>1, <2>5, <4>1, <4>2 DEF ProxyInv, NoLostWork
    <3> QED BY <3>2, <3>3
  <2>6. NoLostWork' BY <2>5 DEF NoLostWork
  <2> QED BY <1>2, <2>4, <2>6 DEF ProxyInv
<1>6. CASE ~(wpipe[w] > 0)
  <2>1. PICK l : l = [i \in 1 .. SendThdNum |-> i - 1] OBVIOUS
  <2>2. wpipe' = wpipe /\ todo' = [todo EXCEPT ![w] = l] BY <1>6, <2>1 DEF rtmq_proxy_worker_routine
  <2>3. l \in Seq(Workers)
    <3>1. \A i \in 1 .. SendThdNum : i - 1 \in Workers BY ConfIsValid, ProxyAssumption DEF Workers
    <3>2. l \in [1 .. SendThdNum -> Workers] BY <2>1, <3>1
    <3> QED BY <3>2, ConfIsValid
  <2>4. WorkersOk' BY <1>1, <2>2, <2>3 DEF ProxyInv, WorkersOk
  <2>5. \A v \in Workers : v # w => todo'[v] = todo[v] BY <2>2 DEF ProxyInv, WorkersOk
  <2>6. NoLostWork' BY <1>1, <1>4, <2>2, <2>5 DEF ProxyInv, NoLostWork
  <2> QED BY <1>2, <2>4, <2>6 DEF ProxyInv
<1> QED BY <1>5, <1>6

LEMMA WorkerProcP == ASSUME ProxyInv, NEW w \in Workers, rtmq_proxy_worker_cmd_proc_req_hdl(w) PROVE ProxyInv'
<1>1. todo[w] # <<>> /\ UNCHANGED <<confVars, sck, net, batch, sendVars, wpipe, note, lost>>
  BY DEF rtmq_proxy_worker_cmd_proc_req_hdl
<1>2. ConfOk' /\ TsvrsOk' /\ QueuesOk' /\ Tracked' BY <1>1, OutsideSame
<1>3. PICK l \in Seq(Workers) : l = todo[w] BY DEF ProxyInv, WorkersOk
<1>4. PICK q \in Workers : q = Head(l) /\ l[1] = q /\ 1 \in DOMAIN l BY <1>1, <1>3
<1>5. CASE recvq[q] = <<>>
  <2>1. recvq' = recvq /\ todo' = [todo EXCEPT ![w] = Tail(l)]
    BY <1>3, <1>4, <1>5 DEF rtmq_proxy_worker_cmd_proc_req_hdl
  <2>2. PICK k \in Seq(Workers) : k = Tail(l)
    <3>1. Tail(l) \in Seq(Workers) BY <1>1, <1>3
    <3> QED BY <3>1
  <2>3. WorkersOk' BY <1>1, <2>1, <2>2 DEF ProxyInv, WorkersOk
  <2>4. todo'[w] = k /\ \A v \in Workers : v # w => todo'[v] = todo[v] BY <2>1, <2>2 DEF ProxyInv, WorkersOk
  <2>5. ASSUME NEW x \in Workers, x # q, NEW i \in DOMAIN l, l[i] = x PROVE \E j \in DOMAIN k : k[j] = x
    <3>1. i \in 1 .. Len(l) /\ i # 1 BY <1>4, <2>5
    <3>2. i - 1 \in DOMAIN k /\ k[i - 1] = l[i] BY <1>1, <1>3, <2>2, <3>1
    <3> QED BY <2>5, <3>2
  <2>6. ASSUME NEW x \in Workers, recvq'[x] # <<>>
        PROVE  \/ wpipe'[x] > 0 \/ \E v \in Workers : \E i \in DOMAIN todo'[v] : todo'[v][i] = x
               \/ \E u \in Tsvrs : note'[u] = x
    <3>1. x # q BY <1>5, <2>1, <2>6
    <3>2. \A v \in Workers : (\E i \in DOMAIN todo[v] : todo[v][i] = x) => \E i \in DOMAIN todo'[v] : todo'[v][i] = x
      BY <1>3, <2>4, <2>5, <3>1
    <3> QED BY <1>1, <2>1, <2>6, <3>2 DEF ProxyInv, NoLostWork
  <2>7. NoLostWork' BY <2>6 DEF NoLostWork
  <2> QED BY <1>2, <2>3, <2>7 DEF ProxyInv
<1>6. CASE recvq[q] # <<>>
  <2>1. PICK r \in Seq(In) : r = recvq[q] /\ Len(r) <= RecvqMax BY DEF ProxyInv, WorkersOk
  <2>2. recvq' = [recvq EXCEPT ![q] = Tail(r)] /\ todo' = todo
    BY <1>3, <1>4, <1>6, <2>1 DEF rtmq_proxy_worker_cmd_proc_req_hdl
  <2>3. PICK k \in Seq(In) : k = Tail(r) /\ Len(k) <= RecvqMax
    <3>1. Tail(r) \in Seq(In) /\ Len(Tail(r)) = Len(r) - 1 BY <1>6, <2>1
    <3>2. PICK z \in Nat : z = Len(r) OBVIOUS
    <3>3. RecvqMax \in Nat BY ConfIsValid
    <3>4. z - 1 <= RecvqMax BY <2>1, <3>2, <3>3
    <3> QED BY <3>1, <3>2, <3>4
  <2>4. recvq' \in [Workers -> Seq(In)] /\ \A x \in Workers : Len(recvq'[x]) <= RecvqMax
    BY <2>2, <2>3 DEF ProxyInv, WorkersOk
  <2>5. WorkersOk' BY <1>1, <2>2, <2>4 DEF ProxyInv, WorkersOk
  <2>6. ASSUME NEW x \in Workers, recvq'[x] # <<>>
        PROVE  \/ wpipe'[x] > 0 \/ \E v \in Workers : \E i \in DOMAIN todo'[v] : todo'[v][i] = x
               \/ \E u \in Tsvrs : note'[u] = x
    <3>1. CASE x = q BY <1>3, <1>4, <2>2, <3>1
    <3>2. CASE x # q
      <4>1. recvq'[x] = recvq[x] BY <2>2, <3>2 DEF ProxyInv, WorkersOk
      <4> QED BY <1>1, <2>2, <2>6, <4>1 DEF ProxyInv, NoLostWork
    <3> QED BY <3>1, <3>2
  <2>7. NoLostWork' BY <2>6 DEF NoLostWork
  <2> QED BY <1>2, <2>5, <2>7 DEF ProxyInv
<1> QED BY <1>5, <1>6

-----------------------------------------------------------------------------
(* The inductive invariant. *)

LEMMA InitP == ProxyInit => ProxyInv
<1> SUFFICES ASSUME ProxyInit PROVE ProxyInv OBVIOUS
<1>1. ConfOk BY DEF ProxyInit, ConfOk
<1>2. PICK K : K = OutMesgs OBVIOUS
<1>3. PICK e \in Seq(K) : e = <<>> BY EmptySeq
<1>4. PICK x \in 0 .. 1 : x = 0 OBVIOUS
<1>5. InitSck = [fd |-> FALSE, mesg |-> e, iov |-> e, idx |-> 0, kp |-> "UNKNOWN",
                 wr |-> x, rdy |-> FALSE, full |-> FALSE]
  BY <1>3, <1>4 DEF InitSck
<1>6. PICK s : s = InitSck OBVIOUS
<1>7. s \in Socks(K) /\ ~s.fd /\ s.iov = e /\ s.idx = 0 /\ s.mesg = e BY <1>5, <1>6 DEF Socks
<1>8. NoData(e) BY <1>3 DEF NoData
<1>9. TsvrOk(K, s, NoNet) BY <1>3, <1>7, <1>8, TsvrClosed
<1>10. TsvrsOk
  <2>1. DOMAIN sck = Tsvrs /\ DOMAIN net = Tsvrs BY DEF ProxyInit
  <2>2. \A t \in Tsvrs : sck[t] = s /\ net[t] = NoNet BY <1>6 DEF ProxyInit
  <2> QED BY <1>2, <1>7, <1>9, <2>1, <2>2 DEF TsvrsOk
<1>11. scene.out \in Nat BY ProxyAssumption DEF ProxyInit
<1>12. QueuesOk
  <2>1. sendq \in Seq(OutMesgs) /\ Len(sendq) <= SendqMax /\ pipe \in 0 .. PipeMax
    BY <1>2, <1>3, ConfIsValid, ProxyAssumption DEF ProxyInit
  <2>2. PICK z \in 0 .. scene.out : z = 0 BY <1>11
  <2>3. app \in [n : 0 .. scene.out, notify : BOOLEAN] BY <2>2 DEF ProxyInit
  <2>4. PICK b \in Seq(TsvrEvents) : b = <<>> BY EmptySeq
  <2>5. Len(b) <= 2 BY <2>4
  <2>6. batch \in [Tsvrs -> Seq(TsvrEvents)] /\ \A t \in Tsvrs : Len(batch[t]) <= 2
    BY <2>4, <2>5 DEF ProxyInit
  <2> QED BY <2>1, <2>3, <2>6 DEF QueuesOk
<1>13. WorkersOk
  <2>1. PICK r \in Seq(In) : r = <<>> BY EmptySeq
  <2>2. PICK l \in Seq(Workers) : l = <<>> BY EmptySeq
  <2>3. PICK z \in 0 .. WorkPipeMax : z = 0 BY ProxyAssumption
  <2>4. Len(r) <= RecvqMax BY <2>1, ConfIsValid
  <2>5. recvq \in [Workers -> Seq(In)] /\ \A w \in Workers : Len(recvq[w]) <= RecvqMax
    BY <2>1, <2>4 DEF ProxyInit
  <2>6. wpipe \in [Workers -> 0 .. WorkPipeMax] /\ todo \in [Workers -> Seq(Workers)]
    BY <2>2, <2>3 DEF ProxyInit
  <2>7. note \in [Tsvrs -> Workers \cup {NoNote}] BY DEF ProxyInit
  <2> QED BY <2>5, <2>6, <2>7 DEF WorkersOk
<1>14. NoLostWork BY DEF ProxyInit, NoLostWork
<1>15. Tracked
  <2>1. \A t \in Tsvrs : Iovs[t] = <<>> BY <1>3, <1>6, <1>7 DEF Iovs, ProxyInit
  <2>2. ASSUME NEW m
        PROVE  OnlyPlace(m, sendq, Iovs, sent, lost) /\ ~Somewhere(m, sendq, Iovs, sent, lost)
    <3>1. ~IsIn(<<>>, Data(m)) /\ Single(<<>>, Data(m)) BY NoneIn
    <3>2. sendq = <<>> /\ sent = {} /\ lost = {} BY DEF ProxyInit
    <3>3. ~IsIn(sendq, Data(m)) /\ Single(sendq, Data(m)) /\ m \notin sent /\ m \notin lost BY <3>1, <3>2
    <3>4. \A t \in Tsvrs : ~IsIn(Iovs[t], Data(m)) /\ Single(Iovs[t], Data(m)) BY <2>1, <3>1
    <3> QED BY <3>3, <3>4 DEF OnlyPlace, Somewhere
  <2>3. app.n = 0 BY DEF ProxyInit
  <2>4. \A i \in 1 .. scene.out : ~(i <= app.n) BY <1>11, <2>3
  <2> QED BY <2>2, <2>4 DEF Tracked
<1> QED BY <1>1, <1>10, <1>12, <1>13, <1>14, <1>15 DEF ProxyInv

LEMMA StutterP == ASSUME ProxyInv, UNCHANGED proxyVars PROVE ProxyInv'
<1>1. UNCHANGED <<confVars, sck, net, batch, sendVars, recvVars, lost>>
  BY DEF proxyVars, confVars, sendVars, recvVars
<1>2. ConfOk' /\ TsvrsOk' /\ QueuesOk' /\ Tracked' BY <1>1, OutsideSame
<1>3. WorkersOk' /\ NoLostWork' BY <1>1, WorkersSame DEF ProxyInv
<1> QED BY <1>2, <1>3 DEF ProxyInv

LEMMA ThreadP == ASSUME ProxyInv, NEW t \in Tsvrs, Thread(t) PROVE ProxyInv'
BY ReconnP, RoutineP, TimeoutP, RecvProcP, SysMesgP, ExpMesgP, ProcReqP, SendDataP, RecvCmdP DEF Thread

LEMMA BrokerP == ASSUME ProxyInv, NEW t \in Tsvrs, Broker(t) PROVE ProxyInv'
<1>1. CASE BrokerAnswers(t) BY <1>1, ArrivesP DEF BrokerAnswers
<1>2. CASE BrokerSends(t)
  <2>1. PICK m \in In : Arrives(t, m) BY <1>2 DEF BrokerSends
  <2> QED BY <2>1, ArrivesP
<1>3. CASE BrokerFails(t) BY <1>3, ArrivesP DEF BrokerFails
<1>4. CASE BrokerCloses(t) BY <1>4, ClosesP
<1> QED BY <1>1, <1>2, <1>3, <1>4 DEF Broker

LEMMA NextP == ProxyInv /\ [ProxyNext]_proxyVars => ProxyInv'
<1> SUFFICES ASSUME ProxyInv, [ProxyNext]_proxyVars PROVE ProxyInv' OBVIOUS
<1>1. CASE UNCHANGED proxyVars BY <1>1, StutterP
<1>2. CASE \E u \in Types : rtmq_proxy_reg_add(u) BY <1>2, RegAddP
<1>3. CASE rtmq_proxy_launch BY <1>3, LaunchP
<1>4. CASE App BY <1>4, AsyncSendP, CmdSendReqP DEF App
<1>5. CASE \E t \in scene.tsvrs : Thread(t) \/ Broker(t) \/ RoomAgain(t) \/ Tick(t)
  <2>1. scene.tsvrs \subseteq Tsvrs BY ProxyAssumption DEF ProxyInv, ConfOk
  <2>2. PICK t \in Tsvrs : Thread(t) \/ Broker(t) \/ RoomAgain(t) \/ Tick(t) BY <1>5, <2>1
  <2> QED BY <2>2, ThreadP, BrokerP, RoomAgainP, TickP
<1>6. CASE \E w \in Workers : Worker(w) BY <1>6, WorkerRoutineP, WorkerProcP DEF Worker
<1> QED BY <1>1, <1>2, <1>3, <1>4, <1>5, <1>6 DEF ProxyNext

-----------------------------------------------------------------------------
(* What it implies. *)

LEMMA InvIsType == ProxyInv => ProxyTypeOK
<1> SUFFICES ASSUME ProxyInv PROVE ProxyTypeOK OBVIOUS
<1>1. ASSUME NEW t \in Tsvrs
      PROVE  /\ sck[t].mesg \in Seq(OutMesgs) /\ sck[t].iov \in Seq(OutMesgs)
             /\ sck[t].idx + Len(sck[t].iov) <= IovMax
             /\ sck[t].kp \in {"UNKNOWN", "SENT", "SUCC"} /\ sck[t].wr \in 0 .. 1
             /\ Len(net[t].in) <= InboxMax
  <2>1. TsvrOk(OutMesgs, sck[t], net[t]) BY SckOf
  <2> QED BY <2>1, TsvrFields DEF TsvrOk
<1>2. \A t \in Tsvrs : Len(batch[t]) <= 2 BY DEF ProxyInv, QueuesOk
<1>3. \A t \in Tsvrs : note[t] \in Workers \cup {NoNote} BY DEF ProxyInv, WorkersOk
<1>4. \A w \in Workers : /\ recvq[w] \in Seq(In) /\ Len(recvq[w]) <= RecvqMax
                         /\ wpipe[w] \in 0 .. WorkPipeMax
  BY DEF ProxyInv, WorkersOk
<1>5. sendq \in Seq(OutMesgs) /\ Len(sendq) <= SendqMax /\ pipe \in 0 .. PipeMax BY DEF ProxyInv, QueuesOk
<1>6. reg \subseteq Types /\ launched \in BOOLEAN BY DEF ProxyInv, ConfOk
<1> QED BY <1>1, <1>2, <1>3, <1>4, <1>5, <1>6 DEF ProxyTypeOK

\* The part of what the broker got that the hand shake fills.
HelloPart(p) == SubSeq(p, 1, Lesser(Len(p), 1 + Cardinality(reg)))

LEMMA HelloPartIs ==
    ASSUME ProxyInv, NEW K, NEW p \in Seq(K)
    PROVE  /\ HelloPart(p) \in Seq(K) /\ Len(HelloPart(p)) <= Len(p)
           /\ \A i \in DOMAIN HelloPart(p) : i \in 1 .. Len(p) /\ HelloPart(p)[i] = p[i]
<1>1. Cardinality(reg) \in Nat
  <2>1. IsFiniteSet(Types) /\ reg \subseteq Types BY ProxyAssumption DEF ProxyInv, ConfOk
  <2> QED BY <2>1, FS_Subset, FS_CardinalityType
<1>2. PICK x \in Nat : x = Len(p) OBVIOUS
<1>3. PICK z \in Nat : z = Lesser(Len(p), 1 + Cardinality(reg)) BY <1>1, <1>2 DEF Lesser
<1>4. z <= x BY <1>1, <1>2, <1>3 DEF Lesser
<1>5. SubSeq(p, 1, z) \in Seq(K) /\ Len(SubSeq(p, 1, z)) = z BY <1>2, <1>4, CutAt
<1>6. \A i \in 1 .. z : i \in 1 .. x /\ SubSeq(p, 1, z)[i] = p[i] BY <1>2, <1>4
<1>7. HelloPart(p) = SubSeq(p, 1, z) BY <1>3 DEF HelloPart
<1>8. PICK c \in Seq(K) : c = HelloPart(p) BY <1>5, <1>7
<1>9. Len(c) = z /\ DOMAIN c = 1 .. z BY <1>5, <1>7, <1>8
<1> QED BY <1>2, <1>4, <1>6, <1>7, <1>8, <1>9

LEMMA InvIsHandshake == ProxyInv => HandshakeFirst
<1> SUFFICES ASSUME ProxyInv, NEW t \in Tsvrs
             PROVE  LET pre == HelloPart(net[t].pre)
                    IN /\ pre # <<>> => pre[1] = Sys("AUTH_REQ")
                       /\ \A i \in 2 .. Len(pre) : pre[i].kind = "SUB_REQ"
                       /\ \A i, j \in DOMAIN pre : pre[i] = pre[j] => i = j
  BY DEF HandshakeFirst, HelloPart
<1>1. PICK K : K = OutMesgs OBVIOUS
<1>2. MesgSet(K) BY <1>1, OutMesgsAre
<1>3. PICK s, n : s = sck[t] /\ n = net[t] /\ TsvrOk(K, s, n) BY <1>1, SckOf
<1>4. PICK p \in Seq(K) : p = n.pre BY <1>3, TsvrFields
<1>5. PICK c \in Seq(K) : c = HelloPart(p) BY HelloPartIs
<1>6. \A i \in DOMAIN c : i \in 1 .. Len(p) /\ c[i] = p[i] BY <1>5, HelloPartIs
<1>7. CASE ~s.fd
  <2>1. p = <<>> BY <1>3, <1>4, <1>7, NoNetIs DEF TsvrOk
  <2>2. DOMAIN c = {} BY <1>6, <2>1
  <2>3. c = <<>> BY <2>2
  <2> QED BY <1>3, <1>4, <1>5, <2>2, <2>3
<1>8. CASE s.fd
  <2>1. PICK v \in Seq(K), l \in Seq(K) : v = s.iov /\ l = s.mesg BY <1>3, TsvrFields
  <2>2. PICK b \in Seq(K) : b = v \o l BY ConcatProperties
  <2>3. PICK h \in Hellos : Follows(h, p \o b) BY <1>3, <1>4, <1>8, <2>1, <2>2 DEF TsvrOk
  <2>4. Len(p) <= HelloLen BY <1>3, <1>4, <1>8 DEF TsvrOk
  <2>5. \A i \in 1 .. Len(p) : i \in 1 .. HelloLen /\ p[i] = h[i] BY <2>3, <2>4, FollowsStart
  <2>6. HelloLen \in Nat \ {0} /\ Greets(h) BY <1>2, HelloIs
  <2>7. \A i \in DOMAIN c : i \in 1 .. HelloLen /\ c[i] = h[i] BY <1>6, <2>5
  <2>8. DOMAIN c = 1 .. Len(c) /\ Len(c) \in Nat OBVIOUS
  <2>9. c # <<>> => c[1] = Sys("AUTH_REQ")
    <3>1. c # <<>> => 1 \in DOMAIN c OBVIOUS
    <3> QED BY <2>6, <2>7, <3>1 DEF Greets
  <2>10. ASSUME NEW i \in 2 .. Len(c) PROVE c[i].kind = "SUB_REQ"
    <3>1. i \in DOMAIN c BY <2>8
    <3>2. i \in 2 .. HelloLen BY <2>6, <2>7, <3>1
    <3> QED BY <2>6, <2>7, <3>1, <3>2 DEF Greets
  <2>11. \A i, j \in DOMAIN c : c[i] = c[j] => i = j BY <2>6, <2>7 DEF Greets
  <2> QED BY <1>3, <1>4, <1>5, <2>9, <2>10, <2>11
<1> QED BY <1>7, <1>8

LEMMA InvIsKpalive == ProxyInv => KpaliveOfThisConn
<1> SUFFICES ASSUME ProxyInv, NEW t \in Tsvrs, sck[t].fd, sck[t].kp = "SENT"
             PROVE  Asks(sck[t].mesg) \/ Asks(sck[t].iov) \/ net[t].asked \/ Answered(net[t].in)
  BY DEF KpaliveOfThisConn, Asks, Answered
<1> QED BY SckOf DEF TsvrOk

\* A set of at most one element has 0 or 1.
LEMMA NoneOrOne ==
    ASSUME NEW S, \A x, y \in S : x = y
    PROVE  Cardinality(S) = IF S = {} THEN 0 ELSE 1
<1>1. CASE S = {} BY <1>1, FS_EmptySet
<1>2. CASE S # {}
  <2>1. PICK x : x \in S BY <1>2
  <2>2. S = {x} BY <2>1
  <2> QED BY <1>2, <2>2, FS_Singleton
<1> QED BY <1>1, <1>2

LEMMA InvIsConserved == ProxyInv => Conserved
<1> SUFFICES ASSUME ProxyInv, NEW i \in 1 .. scene.out
             PROVE  Cardinality({k \in DOMAIN sendq : sendq[k] = Data(Out[i])})
                      + Cardinality({p \in Tsvrs \X (1 .. IovMax) :
                             p[2] \in DOMAIN sck[p[1]].iov /\ sck[p[1]].iov[p[2]] = Data(Out[i])})
                      + (IF Out[i] \in sent THEN 1 ELSE 0) + (IF Out[i] \in lost THEN 1 ELSE 0)
                      = IF i <= app.n THEN 1 ELSE 0
  BY DEF Conserved
<1>1. PICK m : m = Out[i] OBVIOUS
<1>2. PICK d : d = Data(m) OBVIOUS
<1>3. OnlyPlace(m, sendq, Iovs, sent, lost) /\ (Somewhere(m, sendq, Iovs, sent, lost) <=> i <= app.n)
  BY <1>1 DEF ProxyInv, Tracked
<1>4. PICK A : A = {k \in DOMAIN sendq : sendq[k] = d} OBVIOUS
<1>5. PICK B : B = {p \in Tsvrs \X (1 .. IovMax) : p[2] \in DOMAIN sck[p[1]].iov /\ sck[p[1]].iov[p[2]] = d}
  OBVIOUS
<1>6. \A t \in Tsvrs : Iovs[t] = sck[t].iov BY DEF Iovs
<1>7. A # {} <=> IsIn(sendq, d) BY <1>4 DEF IsIn
<1>8. ASSUME NEW x \in A, NEW y \in A PROVE x = y BY <1>2, <1>3, <1>4 DEF OnlyPlace, Single
<1>9. ASSUME NEW p \in B PROVE p[1] \in Tsvrs /\ IsIn(Iovs[p[1]], d) BY <1>5, <1>6 DEF IsIn
<1>10. ASSUME NEW t \in Tsvrs, IsIn(Iovs[t], d) PROVE B # {}
  <2>1. PICK k \in DOMAIN sck[t].iov : sck[t].iov[k] = d BY <1>6, <1>10 DEF IsIn
  <2>2. TsvrOk(OutMesgs, sck[t], net[t]) BY SckOf
  <2>3. sck[t].iov \in Seq(OutMesgs) /\ sck[t].idx \in Nat /\ sck[t].idx + Len(sck[t].iov) <= IovMax
    BY <2>2, TsvrFields DEF TsvrOk
  <2>4. PICK a \in Nat, z \in Nat : a = sck[t].idx /\ z = Len(sck[t].iov) /\ a + z <= IovMax /\ k \in 1 .. z
    BY <2>1, <2>3
  <2>5. k \in 1 .. IovMax BY <2>4, ProxyAssumption
  <2>6. <<t, k>> \in B BY <1>5, <2>1, <2>5
  <2> QED BY <2>6
<1>11. B # {} <=> \E t \in Tsvrs : IsIn(Iovs[t], d) BY <1>9, <1>10
<1>12. ASSUME NEW x \in B, NEW y \in B PROVE x = y
  <2>1. x[1] = y[1] /\ x[1] \in Tsvrs BY <1>2, <1>3, <1>9 DEF OnlyPlace
  <2>2. Single(Iovs[x[1]], d) BY <1>2, <1>3, <2>1 DEF OnlyPlace
  <2>3. x[2] = y[2] BY <1>5, <1>6, <2>1, <2>2 DEF Single
  <2>4. x = <<x[1], x[2]>> /\ y = <<y[1], y[2]>> BY <1>5
  <2> QED BY <2>1, <2>3, <2>4
<1>13. Cardinality(A) = IF A = {} THEN 0 ELSE 1 BY <1>8, NoneOrOne
<1>14. Cardinality(B) = IF B = {} THEN 0 ELSE 1 BY <1>12, NoneOrOne
<1>15. /\ ~(A # {} /\ B # {}) /\ (B # {} => m \notin sent /\ m \notin lost)
       /\ (A # {} => m \notin sent /\ m \notin lost) /\ ~(m \in sent /\ m \in lost)
  BY <1>2, <1>3, <1>7, <1>11 DEF OnlyPlace
<1>16. (A # {} \/ B # {} \/ m \in sent \/ m \in lost) <=> i <= app.n
  BY <1>2, <1>3, <1>7, <1>11 DEF Somewhere
<1>17. Cardinality(A) + Cardinality(B) + (IF m \in sent THEN 1 ELSE 0) + (IF m \in lost THEN 1 ELSE 0)
         = IF i <= app.n THEN 1 ELSE 0
  BY <1>13, <1>14, <1>15, <1>16
<1> QED BY <1>1, <1>2, <1>4, <1>5, <1>17

\* The inductive invariant of the proxy.
THEOREM ProxyInvariant == ProxySpec => []ProxyInv
BY InitP, NextP, PTL DEF ProxySpec

\* rtmq_proxy_tsvr_clear_mesg, wiov_clean and rtmq_proxy_tsvr_reconn: whenever a connection breaks, the next
\* one starts with the whole hand shake and waits for no answer but its own.
THEOREM ProxyConnFresh == ProxySpec => []ConnFresh
<1>1. ProxyInv => ConnFresh BY InvIsType, InvIsHandshake, InvIsKpalive DEF ConnFresh
<1> QED BY <1>1, ProxyInvariant, PTL

\* rtmq_proxy_async_send, rtmq_proxy_tsvr_wiov_add and send_data: a message is in one place on its way out,
\* whichever thread takes it from the shared queue; and no received message waits for a worker unnoticed.
THEOREM ProxyNothingLost == ProxySpec => []NothingLost
<1>1. ProxyInv => NothingLost BY InvIsConserved DEF NothingLost, ProxyInv
<1> QED BY <1>1, ProxyInvariant, PTL
=============================================================================
