------------------------------- MODULE SeqSvr -------------------------------
(***************************************************************************)
(* The sequence servers (src/golang/exec/micsvr/seqsvr).  Several servers  *)
(* share MySQL; each caches the range of sequence numbers it reserved for  *)
(* a section of SIDs and the sequence number of every session it was asked *)
(* about.  AllocSid and AllocRoomId draw identifiers from MySQL.           *)
(*                                                                         *)
(* A MySQL transaction is one action: SELECT ... FOR UPDATE keeps the row  *)
(* until the COMMIT.  The COMMIT is deferred and its error dropped, so     *)
(* with CommitLoss a reservation may be handed out and not be recorded.    *)
(*                                                                         *)
(* section_add, section_find and query_seq_by_sid copy the list they lock, *)
(* lock included: the lock excludes nobody, and looking into the map and   *)
(* entering what was missing are two actions.  The items are shared by     *)
(* pointer, their locks work.  Colliding map accesses may also end the     *)
(* process, which Crash covers.                                            *)
(***************************************************************************)
EXTENDS Integers, FiniteSets

CONSTANTS
    Servers,    \* seqsvr processes
    Callers,    \* goroutines that serve Thrift calls
    Home,       \* Home[p]: the server of goroutine p
    Secs,       \* sections
    SeqSids,    \* sessions
    SecOf,      \* SecOf[s]: sid / SECTION_SID_NUM
    Gens,       \* identifier generators: SID and RID
    CommitLoss, \* may a COMMIT fail?
    MaxSeq,     \* bound of a section's number in MySQL
    MaxCalls    \* bound of the calls of AllocSid, AllocRoomId each

ASSUME SeqSvrAssumption ==
    /\ Home \in [Callers -> Servers]
    /\ SecOf \in [SeqSids -> Secs]
    /\ CommitLoss \in BOOLEAN
    /\ MaxSeq \in Nat /\ MaxCalls \in Nat

SeqBase == 100      \* a section's number when its row is inserted
SeqStep == 1000     \* how much a reservation takes

VARIABLES
    seq_gen,    \* IM_SEQ_GEN_TAB: the next free number of a section, 0: no row
    id_gen,     \* IM_SID_GEN_TAB, IM_RID_GEN_TAB: the next identifier
    calls,      \* successful calls of AllocSid, AllocRoomId
    handed,     \* the identifiers they returned
    loading,    \* sections load_seq_from_db has still to enter, per server
    section,    \* SectionCtrl.section of every server
    session,    \* SectionCtrl.session of every server
    pc,         \* where a goroutine is: its place, SID and range
    answer,     \* the last sequence number a server gave for a SID, 0: none
    issued      \* every number given: <<server, section, number>>

dbVars == <<seq_gen, id_gen, calls, handed>>
cacheVars == <<section, session>>
seqVars == <<dbVars, loading, cacheVars, pc, answer, issued>>

Span(lo, hi) == [min |-> lo, max |-> hi]
NoItem == Span(0, 0)           \* no entry in the map
Frame(a, s, lo, hi) == [at |-> a, sid |-> s, min |-> lo, max |-> hi]
CallAt(p, here) == pc[p].at = here
Go(p, there) == pc' = [pc EXCEPT ![p] = Frame(there, pc[p].sid, pc[p].min, pc[p].max)]
Return(p) == Go(p, "idle")

SecItem(p) == section[Home[p]][SecOf[pc[p].sid]]
SetSection(v, c, item) == section' = [section EXCEPT ![v] = [section[v] EXCEPT ![c] = item]]
SetSession(v, s, item) == session' = [session EXCEPT ![v] = [session[v] EXCEPT ![s] = item]]

Rows == {c \in Secs : seq_gen[c] # 0}

SeqInit ==
    /\ seq_gen = [c \in Secs |-> 0]
    /\ id_gen = [g \in Gens |-> 1]
    /\ calls = [g \in Gens |-> 0]
    /\ handed = [g \in Gens |-> {}]
    /\ loading = [v \in Servers |-> {}]
    /\ section = [v \in Servers |-> [c \in Secs |-> NoItem]]
    /\ session = [v \in Servers |-> [s \in SeqSids |-> NoItem]]
    /\ pc \in [Callers -> {Frame("idle", s, 0, 0) : s \in SeqSids}]
    /\ answer = [v \in Servers |-> [s \in SeqSids |-> 0]]
    /\ issued = {}

----------------------------------------------------------------------------
(* MySQL: the row of a section, inserted when missing, gives the lower end *)
(* and moves on by SeqStep, unless the COMMIT is lost.                     *)
FreeSeq(c) == IF seq_gen[c] = 0 THEN SeqBase ELSE seq_gen[c]

alloc_seq_from_db(c) ==
    /\ FreeSeq(c) + SeqStep <= MaxSeq
    /\ \/ seq_gen' = [seq_gen EXCEPT ![c] = FreeSeq(c) + SeqStep]
       \/ CommitLoss /\ UNCHANGED seq_gen
    /\ UNCHANGED <<id_gen, calls, handed>>

(* AllocSid and, from its own table, AllocRoomId.  The call returns after  *)
(* the COMMIT was tried, and returns the identifier even if that failed.   *)
alloc_sid(g) ==
    /\ calls[g] < MaxCalls
    /\ \/ id_gen' = [id_gen EXCEPT ![g] = id_gen[g] + 1]
       \/ CommitLoss /\ UNCHANGED id_gen
    /\ calls' = [calls EXCEPT ![g] = calls[g] + 1]
    /\ handed' = [handed EXCEPT ![g] = handed[g] \cup {id_gen[g]}]
    /\ UNCHANGED <<seq_gen, loading, cacheVars, pc, answer, issued>>

----------------------------------------------------------------------------
(* QuerySeqBySid                                                           *)

QuerySeqBySid(p, s) ==
    /\ CallAt(p, "idle")
    /\ loading[Home[p]] = {}
    /\ pc' = [pc EXCEPT ![p] = Frame("add", s, 0, 0)]
    /\ UNCHANGED <<dbVars, loading, cacheVars, answer, issued>>

(* section_add: look for the section; reserve a range if it is not there.  *)
section_add(p) ==
    /\ CallAt(p, "add")
    /\ Go(p, IF SecItem(p) = NoItem THEN "alloc" ELSE "query")
    /\ UNCHANGED <<dbVars, loading, cacheVars, answer, issued>>

SectionAlloc(p) ==
    /\ CallAt(p, "alloc")
    /\ LET c == SecOf[pc[p].sid]
       IN /\ alloc_seq_from_db(c)
          /\ pc' = [pc EXCEPT ![p] = Frame("check", pc[p].sid, FreeSeq(c), FreeSeq(c) + SeqStep)]
    /\ UNCHANGED <<loading, cacheVars, answer, issued>>

(* MySQL refuses: QuerySeqBySid fails.  The deferred COMMIT keeps the row  *)
(* if it had been inserted before.                                         *)
SectionAllocFails(p) ==
    /\ CallAt(p, "alloc")
    /\ LET c == SecOf[pc[p].sid]
       IN UNCHANGED seq_gen \/ seq_gen' = [seq_gen EXCEPT ![c] = FreeSeq(c)]
    /\ Return(p)
    /\ UNCHANGED <<id_gen, calls, handed, loading, cacheVars, answer, issued>>

(* Faulty variant: the lower end is kept whatever the new range is.        *)
Grown_keep(item, lo, hi) == IF item.max < hi THEN Span(item.min, hi) ELSE item

(* What an item becomes when [lo, hi] was reserved for its section: it     *)
(* grows if the new range follows it, else it gives way to it.             *)
Grown(item, lo, hi) ==
    IF item.max < hi
    THEN Span(IF lo # item.max THEN lo ELSE item.min, hi)
    ELSE item

(* Look again: a section that has come meanwhile takes the range in, and   *)
(* the range is dropped if that one is higher already.                     *)
SectionCheck(p) ==
    /\ CallAt(p, "check")
    /\ IF SecItem(p) = NoItem
       THEN UNCHANGED section /\ Go(p, "insert")
       ELSE /\ SetSection(Home[p], SecOf[pc[p].sid], Grown(SecItem(p), pc[p].min, pc[p].max))
            /\ Go(p, "add")
    /\ UNCHANGED <<dbVars, loading, session, answer, issued>>

SectionInsert(p) ==
    /\ CallAt(p, "insert")
    /\ SetSection(Home[p], SecOf[pc[p].sid], Span(pc[p].min, pc[p].max))
    /\ Go(p, "add")
    /\ UNCHANGED <<dbVars, loading, session, answer, issued>>

(* query_seq_by_sid: a known session answers with its number.              *)
SessItem(p) == session[Home[p]][pc[p].sid]

(* Faulty variant: the first answer is one ahead of what is kept.          *)
query_seq_by_sid_ahead(p) ==
    /\ CallAt(p, "query")
    /\ SessItem(p) # NoItem
    /\ LET v == Home[p]  s == pc[p].sid
           seq == SessItem(p).min + IF answer[v][s] = 0 THEN 1 ELSE 0
       IN /\ answer' = [answer EXCEPT ![v] = [answer[v] EXCEPT ![s] = seq]]
          /\ issued' = issued \cup {<<v, SecOf[s], seq>>}
    /\ Return(p)
    /\ UNCHANGED <<dbVars, loading, cacheVars>>

query_seq_by_sid(p) ==
    /\ CallAt(p, "query")
    /\ SessItem(p) # NoItem
    /\ LET v == Home[p]  s == pc[p].sid
       IN /\ answer' = [answer EXCEPT ![v] = [answer[v] EXCEPT ![s] = SessItem(p).min]]
          /\ issued' = issued \cup {<<v, SecOf[s], SessItem(p).min>>}
    /\ Return(p)
    /\ UNCHANGED <<dbVars, loading, cacheVars>>

SessionUnknown(p) ==
    /\ CallAt(p, "query")
    /\ SessItem(p) = NoItem
    /\ Go(p, "find")
    /\ UNCHANGED <<dbVars, loading, cacheVars, answer, issued>>

(* section_find: the section is in the table by now (SectionStays).        *)
section_find(p) ==
    /\ CallAt(p, "find")
    /\ SecItem(p) # NoItem
    /\ pc' = [pc EXCEPT ![p] = Frame("scheck", pc[p].sid, SecItem(p).min, SecItem(p).max)]
    /\ UNCHANGED <<dbVars, loading, cacheVars, answer, issued>>

(* Faulty variant: a session that takes a new range starts at its end.     *)
SessionCheck_end(p) ==
    /\ CallAt(p, "scheck")
    /\ IF SessItem(p) = NoItem
       THEN UNCHANGED session /\ Go(p, "sinsert")
       ELSE /\ SetSession(Home[p], pc[p].sid,
                          IF SessItem(p).max < pc[p].max THEN Span(pc[p].max, pc[p].max)
                                                         ELSE SessItem(p))
            /\ Go(p, "query")
    /\ UNCHANGED <<dbVars, loading, section, answer, issued>>

(* A session item is seq, max; its seq is the min of the range it is from. *)
SessionCheck(p) ==
    /\ CallAt(p, "scheck")
    /\ IF SessItem(p) = NoItem
       THEN UNCHANGED session /\ Go(p, "sinsert")
       ELSE /\ SetSession(Home[p], pc[p].sid,
                          IF SessItem(p).max < pc[p].max THEN Span(pc[p].min, pc[p].max)
                                                         ELSE SessItem(p))
            /\ Go(p, "query")
    /\ UNCHANGED <<dbVars, loading, section, answer, issued>>

SessionInsert(p) ==
    /\ CallAt(p, "sinsert")
    /\ SetSession(Home[p], pc[p].sid, Span(pc[p].min, pc[p].max))
    /\ Go(p, "query")
    /\ UNCHANGED <<dbVars, loading, section, answer, issued>>

----------------------------------------------------------------------------
(* The process ends and starts anew; SeqSvrInit makes empty tables and     *)
(* enters a section for every row it finds (load_seq_from_db).             *)
Crash(v) ==
    /\ section' = [section EXCEPT ![v] = [c \in Secs |-> NoItem]]
    /\ session' = [session EXCEPT ![v] = [s \in SeqSids |-> NoItem]]
    /\ pc' = [p \in Callers |-> IF Home[p] = v THEN Frame("idle", pc[p].sid, 0, 0) ELSE pc[p]]
    /\ loading' = [loading EXCEPT ![v] = Rows]
    /\ UNCHANGED <<dbVars, answer, issued>>

load_seq_from_db(v, c) ==
    /\ c \in loading[v]
    /\ alloc_seq_from_db(c)
    /\ loading' = [loading EXCEPT ![v] = loading[v] \ {c}]
    /\ SetSection(v, c, Span(FreeSeq(c), FreeSeq(c) + SeqStep))
    /\ UNCHANGED <<session, pc, answer, issued>>

(* section_add fails: load_seq_from_db goes on to the next row.            *)
LoadFails(v, c) ==
    /\ c \in loading[v]
    /\ loading' = [loading EXCEPT ![v] = loading[v] \ {c}]
    /\ UNCHANGED <<dbVars, cacheVars, pc, answer, issued>>

----------------------------------------------------------------------------
CallStep(p) ==
    \/ \E s \in SeqSids : QuerySeqBySid(p, s)
    \/ section_add(p) \/ SectionAlloc(p) \/ SectionAllocFails(p)
    \/ SectionCheck(p) \/ SectionInsert(p)
    \/ query_seq_by_sid(p) \/ SessionUnknown(p) \/ section_find(p)
    \/ SessionCheck(p) \/ SessionInsert(p)

SeqNext ==
    \/ \E p \in Callers : CallStep(p)
    \/ \E v \in Servers : Crash(v) \/ \E c \in Secs : load_seq_from_db(v, c) \/ LoadFails(v, c)
    \/ \E g \in Gens : alloc_sid(g)

SeqSpec == SeqInit /\ [][SeqNext]_seqVars

----------------------------------------------------------------------------
Places == {"idle", "add", "alloc", "check", "insert", "query", "find", "scheck", "sinsert"}
Spans == [min : Nat, max : Nat]

SeqTypeOK ==
    /\ seq_gen \in [Secs -> Nat]
    /\ id_gen \in [Gens -> Nat] /\ calls \in [Gens -> Nat] /\ handed \in [Gens -> SUBSET Nat]
    /\ loading \in [Servers -> SUBSET Secs]
    /\ section \in [Servers -> [Secs -> Spans]]
    /\ session \in [Servers -> [SeqSids -> Spans]]
    /\ pc \in [Callers -> [at : Places, sid : SeqSids, min : Nat, max : Nat]]
    /\ answer \in [Servers -> [SeqSids -> Nat]]
    /\ issued \subseteq Servers \X Secs \X Nat

(* The ranges that two servers hold for a section never overlap: growing   *)
(* an item by a reservation that does not follow it, with another server's *)
(* in between, must move its lower end.                                    *)
RangesApart ==
    \A v, w \in Servers, c \in Secs :
        v # w => \/ section[v][c].max <= section[w][c].min
                 \/ section[w][c].max <= section[v][c].min

(* Two servers never give the same number within a section, whatever       *)
(* crashes, failed reservations and races there were: the ranges that      *)
(* MySQL reserves stay apart through section_add's growing of an item and  *)
(* through the reload after a restart.                                     *)
IssuedApart ==
    \A i, j \in issued : i[2] = j[2] /\ i[3] = j[3] => i[1] = j[1]

(* What the servers hold and what they gave are apart.                     *)
NumbersApart == IssuedApart /\ RangesApart

(* Once section_add is done the section stays in the table, so that        *)
(* section_find never has to reserve (its branch that keeps min is never   *)
(* run).                                                                   *)
SectionStays ==
    \A p \in Callers : pc[p].at \in {"query", "find", "scheck", "sinsert"} => SecItem(p) # NoItem

(* "SID / RID / SEQ 全局 ID 分配": no identifier is handed out twice; there  *)
(* are as many as calls.                                                   *)
IdsDistinct == \A g \in Gens : Cardinality(handed[g]) = calls[g]

(* "获取会话SID对应的最新序列号": on a server that serves one call at a time  *)
(* the number given for a SID never falls behind the one given before, not  *)
(* even by a restart, or by what other servers reserve meanwhile.           *)
OneCaller(v) == \A p, q \in Callers : Home[p] = v /\ Home[q] = v => p = q
SeqNeverBack ==
    [][\A v \in Servers : OneCaller(v) => \A s \in SeqSids : answer'[v][s] >= answer[v][s]]_seqVars

=============================================================================
