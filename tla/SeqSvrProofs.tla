---------------------------- MODULE SeqSvrProofs ----------------------------
(***************************************************************************)
(* Proofs about the sequence servers, for every number of servers,         *)
(* goroutines, sections and sessions.                                      *)
(***************************************************************************)
EXTENDS SeqSvr, TLAPS

(* What a goroutine works on has its type.                                 *)
LEMMA Fields ==
    ASSUME SeqTypeOK, NEW p \in Callers
    PROVE  /\ Home[p] \in Servers /\ pc[p].sid \in SeqSids /\ SecOf[pc[p].sid] \in Secs
           /\ pc[p].min \in Nat /\ pc[p].max \in Nat
           /\ SecItem(p) \in Spans /\ SecItem(p).min \in Nat /\ SecItem(p).max \in Nat
           /\ SessItem(p) \in Spans /\ SessItem(p).min \in Nat /\ SessItem(p).max \in Nat
  <1>1. Home[p] \in Servers /\ pc[p].sid \in SeqSids /\ SecOf[pc[p].sid] \in Secs
        /\ pc[p].min \in Nat /\ pc[p].max \in Nat
    BY SeqSvrAssumption DEF SeqTypeOK
  <1>2. SecItem(p) \in Spans /\ SessItem(p) \in Spans
    BY <1>1 DEF SeqTypeOK, SecItem, SessItem
  <1>3. \A r \in Spans : r.min \in Nat /\ r.max \in Nat
    BY DEF Spans
  <1> QED BY <1>1, <1>2, <1>3

(* The values the actions build.                                           *)
LEMMA Built ==
    /\ \A lo, hi \in Nat : Span(lo, hi) \in Spans
    /\ NoItem \in Spans
    /\ \A a \in Places, s \in SeqSids, lo, hi \in Nat :
          Frame(a, s, lo, hi) \in [at : Places, sid : SeqSids, min : Nat, max : Nat]
    /\ \A lo, hi : Span(lo, hi).min = lo /\ Span(lo, hi).max = hi
    /\ \A a, s, lo, hi : /\ Frame(a, s, lo, hi).at = a /\ Frame(a, s, lo, hi).sid = s
                         /\ Frame(a, s, lo, hi).min = lo /\ Frame(a, s, lo, hi).max = hi
    /\ NoItem.min = 0 /\ NoItem.max = 0
  BY DEF Span, NoItem, Frame, Spans

(* An item grown by a reservation is still a range.                        *)
LEMMA GrownTyped ==
    ASSUME NEW r \in Spans, NEW lo \in Nat, NEW hi \in Nat
    PROVE  Grown(r, lo, hi) \in Spans
  BY DEF Grown, Span, Spans

(* The tables keep their types when one entry is set.                      *)
LEMMA SetTyped ==
    ASSUME SeqTypeOK, NEW v \in Servers, NEW item \in Spans
    PROVE  /\ \A c \in Secs : SetSection(v, c, item) => section' \in [Servers -> [Secs -> Spans]]
           /\ \A s \in SeqSids : SetSession(v, s, item) => session' \in [Servers -> [SeqSids -> Spans]]
  <1>1. section \in [Servers -> [Secs -> Spans]] /\ session \in [Servers -> [SeqSids -> Spans]]
    BY DEF SeqTypeOK
  <1>2. ASSUME NEW c \in Secs, SetSection(v, c, item)
        PROVE  section' \in [Servers -> [Secs -> Spans]]
    <2>1. [section[v] EXCEPT ![c] = item] \in [Secs -> Spans]
      BY <1>1
    <2> QED BY <1>1, <1>2, <2>1 DEF SetSection
  <1>3. ASSUME NEW s \in SeqSids, SetSession(v, s, item)
        PROVE  session' \in [Servers -> [SeqSids -> Spans]]
    <2>1. [session[v] EXCEPT ![s] = item] \in [SeqSids -> Spans]
      BY <1>1
    <2> QED BY <1>1, <1>3, <2>1 DEF SetSession
  <1> QED BY <1>2, <1>3

(* So do the goroutines when one moves on.                                 *)
LEMMA GoTyped ==
    ASSUME SeqTypeOK, NEW p \in Callers, NEW a \in Places
    PROVE  /\ Go(p, a) => pc' \in [Callers -> [at : Places, sid : SeqSids, min : Nat, max : Nat]]
           /\ \A s \in SeqSids, lo, hi \in Nat :
                 pc' = [pc EXCEPT ![p] = Frame(a, s, lo, hi)]
                     => pc' \in [Callers -> [at : Places, sid : SeqSids, min : Nat, max : Nat]]
  <1>1. Frame(a, pc[p].sid, pc[p].min, pc[p].max)
           \in [at : Places, sid : SeqSids, min : Nat, max : Nat]
    BY Fields, Built
  <1>2. \A s \in SeqSids, lo, hi \in Nat :
           Frame(a, s, lo, hi) \in [at : Places, sid : SeqSids, min : Nat, max : Nat]
    BY Built
  <1> DEFINE Frames == [at : Places, sid : SeqSids, min : Nat, max : Nat]
  <1>3. pc \in [Callers -> Frames]
    BY DEF SeqTypeOK
  <1>4. \A f \in Frames : [pc EXCEPT ![p] = f] \in [Callers -> Frames]
    <2> HIDE DEF Frames
    <2> QED BY <1>3
  <1>5. Go(p, a) => pc' \in [Callers -> Frames]
    <2>1. Frame(a, pc[p].sid, pc[p].min, pc[p].max) \in Frames
      BY <1>1
    <2> HIDE DEF Frames
    <2> QED BY <1>4, <2>1 DEF Go
  <1>6. ASSUME NEW s \in SeqSids, NEW lo \in Nat, NEW hi \in Nat,
               pc' = [pc EXCEPT ![p] = Frame(a, s, lo, hi)]
        PROVE  pc' \in [Callers -> Frames]
    <2>1. Frame(a, s, lo, hi) \in Frames
      BY <1>2
    <2> HIDE DEF Frames
    <2> QED BY <1>4, <1>6, <2>1
  <1> QED BY <1>5, <1>6

(* A reservation in MySQL.                                                 *)
LEMMA AllocTyped ==
    ASSUME SeqTypeOK, NEW c \in Secs
    PROVE  /\ FreeSeq(c) \in Nat /\ FreeSeq(c) + SeqStep \in Nat
           /\ alloc_seq_from_db(c) => seq_gen' \in [Secs -> Nat]
  <1>1. FreeSeq(c) \in Nat /\ FreeSeq(c) + SeqStep \in Nat
    BY DEF SeqTypeOK, FreeSeq, SeqBase, SeqStep
  <1> QED BY <1>1 DEF SeqTypeOK, alloc_seq_from_db

(* Every variable keeps its type.                                          *)
LEMMA TypeStep == SeqTypeOK /\ [SeqNext]_seqVars => SeqTypeOK'
  <1> SUFFICES ASSUME SeqTypeOK, [SeqNext]_seqVars PROVE SeqTypeOK'
    OBVIOUS
  <1> USE DEF dbVars, cacheVars, Return
  <1>pl. {"idle", "add", "alloc", "check", "insert", "query", "find", "scheck", "sinsert"} = Places
    BY DEF Places
  <1>1. ASSUME NEW p \in Callers, NEW s \in SeqSids, QuerySeqBySid(p, s) PROVE SeqTypeOK'
    BY <1>1, <1>pl, GoTyped DEF SeqTypeOK, QuerySeqBySid
  <1>2. ASSUME NEW p \in Callers, section_add(p) PROVE SeqTypeOK'
    BY <1>2, <1>pl, GoTyped DEF SeqTypeOK, section_add
  <1>3. ASSUME NEW p \in Callers, SectionAlloc(p) PROVE SeqTypeOK'
    <2>1. SecOf[pc[p].sid] \in Secs /\ pc[p].sid \in SeqSids
      BY Fields
    <2> QED BY <1>3, <1>pl, <2>1, AllocTyped, GoTyped
            DEF SeqTypeOK, SectionAlloc, alloc_seq_from_db
  <1>4. ASSUME NEW p \in Callers, SectionAllocFails(p) PROVE SeqTypeOK'
    <2>1. SecOf[pc[p].sid] \in Secs
      BY Fields
    <2>2. seq_gen' \in [Secs -> Nat]
      BY <1>4, <2>1, AllocTyped DEF SeqTypeOK, SectionAllocFails
    <2> QED BY <1>4, <1>pl, <2>2, GoTyped DEF SeqTypeOK, SectionAllocFails
  <1>5. ASSUME NEW p \in Callers, SectionCheck(p) PROVE SeqTypeOK'
    <2>1. Grown(SecItem(p), pc[p].min, pc[p].max) \in Spans
      BY Fields, GrownTyped
    <2>2. section' \in [Servers -> [Secs -> Spans]]
      BY <1>5, <2>1, Fields, SetTyped DEF SectionCheck, SeqTypeOK
    <2> QED BY <1>5, <1>pl, <2>2, GoTyped DEF SeqTypeOK, SectionCheck
  <1>6. ASSUME NEW p \in Callers, SectionInsert(p) PROVE SeqTypeOK'
    BY <1>6, <1>pl, Fields, Built, SetTyped, GoTyped DEF SeqTypeOK, SectionInsert
  <1>7. ASSUME NEW p \in Callers, query_seq_by_sid(p) PROVE SeqTypeOK'
    <2>1. /\ Home[p] \in Servers /\ pc[p].sid \in SeqSids /\ SecOf[pc[p].sid] \in Secs
          /\ SessItem(p).min \in Nat
      BY Fields
    <2>2. answer' \in [Servers -> [SeqSids -> Nat]] /\ issued' \subseteq Servers \X Secs \X Nat
      BY <1>7, <2>1 DEF SeqTypeOK, query_seq_by_sid
    <2> QED BY <1>7, <1>pl, <2>2, GoTyped DEF SeqTypeOK, query_seq_by_sid
  <1>8. ASSUME NEW p \in Callers, SessionUnknown(p) PROVE SeqTypeOK'
    BY <1>8, <1>pl, GoTyped DEF SeqTypeOK, SessionUnknown
  <1>9. ASSUME NEW p \in Callers, section_find(p) PROVE SeqTypeOK'
    BY <1>9, <1>pl, Fields, GoTyped DEF SeqTypeOK, section_find
  <1>10. ASSUME NEW p \in Callers, SessionCheck(p) PROVE SeqTypeOK'
    <2>1. (IF SessItem(p).max < pc[p].max THEN Span(pc[p].min, pc[p].max) ELSE SessItem(p))
             \in Spans
      BY Fields, Built
    <2>2. session' \in [Servers -> [SeqSids -> Spans]]
      BY <1>10, <2>1, Fields, SetTyped DEF SessionCheck, SeqTypeOK
    <2> QED BY <1>10, <1>pl, <2>2, GoTyped DEF SeqTypeOK, SessionCheck
  <1>11. ASSUME NEW p \in Callers, SessionInsert(p) PROVE SeqTypeOK'
    BY <1>11, <1>pl, Fields, Built, SetTyped, GoTyped DEF SeqTypeOK, SessionInsert
  <1>12. ASSUME NEW v \in Servers, Crash(v) PROVE SeqTypeOK'
    <2>1. \A p \in Callers : pc[p] \in [at : Places, sid : SeqSids, min : Nat, max : Nat]
                           /\ Frame("idle", pc[p].sid, 0, 0)
                                 \in [at : Places, sid : SeqSids, min : Nat, max : Nat]
      BY <1>pl, Fields, Built DEF SeqTypeOK
    <2>2. pc' \in [Callers -> [at : Places, sid : SeqSids, min : Nat, max : Nat]]
      BY <1>12, <2>1 DEF Crash
    <2>3. section' \in [Servers -> [Secs -> Spans]] /\ session' \in [Servers -> [SeqSids -> Spans]]
      BY <1>12, Built DEF Crash, SeqTypeOK
    <2>4. loading' \in [Servers -> SUBSET Secs]
      BY <1>12 DEF Crash, SeqTypeOK, Rows
    <2> QED BY <1>12, <2>2, <2>3, <2>4 DEF SeqTypeOK, Crash
  <1>13. ASSUME NEW v \in Servers, NEW c \in Secs, load_seq_from_db(v, c) PROVE SeqTypeOK'
    <2>1. Span(FreeSeq(c), FreeSeq(c) + SeqStep) \in Spans
      BY AllocTyped, Built
    <2> QED BY <1>13, <2>1, AllocTyped, SetTyped
            DEF SeqTypeOK, load_seq_from_db, alloc_seq_from_db
  <1>14. ASSUME NEW v \in Servers, NEW c \in Secs, LoadFails(v, c) PROVE SeqTypeOK'
    BY <1>14 DEF SeqTypeOK, LoadFails
  <1>15. ASSUME NEW g \in Gens, alloc_sid(g) PROVE SeqTypeOK'
    <2>1. id_gen[g] \in Nat /\ handed[g] \subseteq Nat
      BY DEF SeqTypeOK
    <2>2. handed[g] \cup {id_gen[g]} \in SUBSET Nat
      BY <2>1
    <2>3. handed' \in [Gens -> SUBSET Nat]
      BY <1>15, <2>2 DEF SeqTypeOK, alloc_sid
    <2>4. id_gen' \in [Gens -> Nat] /\ calls' \in [Gens -> Nat]
      BY <1>15 DEF SeqTypeOK, alloc_sid
    <2> QED BY <1>15, <2>3, <2>4 DEF SeqTypeOK, alloc_sid
  <1>16. CASE UNCHANGED seqVars
    BY <1>16 DEF SeqTypeOK, seqVars
  <1> QED
    BY <1>1, <1>2, <1>3, <1>4, <1>5, <1>6, <1>7, <1>8, <1>9, <1>10, <1>11, <1>12, <1>13,
       <1>14, <1>15, <1>16 DEF SeqNext, CallStep

LEMMA TypeInit == SeqInit => SeqTypeOK
  <1> SUFFICES ASSUME SeqInit PROVE SeqTypeOK
    OBVIOUS
  <1>1. \A s \in SeqSids : Frame("idle", s, 0, 0) \in [at : Places, sid : SeqSids, min : Nat, max : Nat]
    BY DEF Frame, Places
  <1>2. pc \in [Callers -> [at : Places, sid : SeqSids, min : Nat, max : Nat]]
    BY <1>1 DEF SeqInit
  <1> QED BY <1>2, Built DEF SeqInit, SeqTypeOK

(* The tables, the goroutines and the rows keep their types.               *)
THEOREM SeqSvrTyped == SeqSpec => []SeqTypeOK
  BY TypeInit, TypeStep, PTL DEF SeqSpec

----------------------------------------------------------------------------
(* A server holds a number of a section when the number is in its section  *)
(* item, in the range a goroutine of its carries, in a session item, or    *)
(* was given by it.                                                        *)
In(n, r) == r.min <= n /\ n < r.max

InProc(v, c, n) == \E p \in Callers : Home[p] = v /\ SecOf[pc[p].sid] = c /\ In(n, pc[p])
InSession(v, c, n) == \E s \in SeqSids : SecOf[s] = c /\ In(n, session[v][s])

Holds(v, c, n) ==
    In(n, section[v][c]) \/ InProc(v, c, n) \/ InSession(v, c, n) \/ <<v, c, n>> \in issued

Proper(r) == r.min < r.max

(* No range is empty, where there is one.                                  *)
Shape ==
    /\ \A v \in Servers, c \in Secs : section[v][c] # NoItem => Proper(section[v][c])
    /\ \A v \in Servers, s \in SeqSids : session[v][s] # NoItem => Proper(session[v][s])
    /\ \A p \in Callers : pc[p].at \in {"check", "insert", "scheck", "sinsert"} => Proper(pc[p])

(* What is held was reserved.                                              *)
Below == \A v \in Servers, c \in Secs, n \in Nat : Holds(v, c, n) => n < FreeSeq(c)

(* No number is held by two servers.                                       *)
Apart == \A v, w \in Servers, c \in Secs, n \in Nat : Holds(v, c, n) /\ Holds(w, c, n) => v = w

ApartInv == SeqTypeOK /\ Shape /\ Below /\ Apart

(* The tables after one entry is set, the goroutines after one moved on.   *)
LEMMA SetValues ==
    ASSUME SeqTypeOK, NEW v \in Servers, NEW item
    PROVE  /\ \A c \in Secs : SetSection(v, c, item) =>
                 \A w \in Servers, d \in Secs :
                    section'[w][d] = IF w = v /\ d = c THEN item ELSE section[w][d]
           /\ \A s \in SeqSids : SetSession(v, s, item) =>
                 \A w \in Servers, t \in SeqSids :
                    session'[w][t] = IF w = v /\ t = s THEN item ELSE session[w][t]
  BY DEF SeqTypeOK, SetSection, SetSession

LEMMA GoValues ==
    ASSUME SeqTypeOK, NEW p \in Callers, NEW a, Go(p, a)
    PROVE  \A q \in Callers : /\ pc'[q].sid = pc[q].sid /\ pc'[q].min = pc[q].min
                            /\ pc'[q].max = pc[q].max
                            /\ pc'[q].at = IF q = p THEN a ELSE pc[q].at
  BY DEF SeqTypeOK, Go, Frame

LEMMA FrameValues ==
    ASSUME SeqTypeOK, NEW p \in Callers, NEW a, NEW s, NEW lo, NEW hi,
           pc' = [pc EXCEPT ![p] = Frame(a, s, lo, hi)]
    PROVE  /\ pc'[p].at = a /\ pc'[p].sid = s /\ pc'[p].min = lo /\ pc'[p].max = hi
           /\ \A q \in Callers : q # p => pc'[q] = pc[q]
  BY DEF SeqTypeOK, Frame

(* A step after which a server holds what it held before, and perhaps      *)
(* numbers that were free, keeps the servers apart.                        *)
LEMMA KeepApart ==
    ASSUME ApartInv, SeqTypeOK', Shape',
           \A c \in Secs : FreeSeq(c)' >= FreeSeq(c) /\ FreeSeq(c) \in Nat /\ FreeSeq(c)' \in Nat,
           NEW u \in Servers, NEW k \in Secs,
           \A v \in Servers, c \in Secs, n \in Nat :
              Holds(v, c, n)' => \/ Holds(v, c, n)
                                 \/ v = u /\ c = k /\ FreeSeq(c) <= n /\ n < FreeSeq(c)'
    PROVE  ApartInv'
  <1>1. ASSUME NEW v \in Servers, NEW c \in Secs, NEW n \in Nat, Holds(v, c, n)'
        PROVE  n < FreeSeq(c)'
    <2>1. Holds(v, c, n) => n < FreeSeq(c)
      BY DEF ApartInv, Below
    <2> QED BY <1>1, <2>1
  <1>2. ASSUME NEW v \in Servers, NEW w \in Servers, NEW c \in Secs, NEW n \in Nat,
               Holds(v, c, n)', Holds(w, c, n)'
        PROVE  v = w
    <2>1. Holds(v, c, n) /\ Holds(w, c, n) => v = w
      BY DEF ApartInv, Apart
    <2>2. Holds(v, c, n) \/ Holds(w, c, n) => n < FreeSeq(c)
      BY DEF ApartInv, Below
    <2>3. FreeSeq(c) \in Nat
      OBVIOUS
    <2> QED BY <1>2, <2>1, <2>2, <2>3
  <1>3. Below'
    BY <1>1 DEF Below
  <1>4. Apart'
    BY <1>2 DEF Apart
  <1> QED BY <1>3, <1>4 DEF ApartInv

(* The numbers a goroutine, a section and a session hold are held by the   *)
(* server.                                                                 *)
LEMMA Held ==
    /\ \A v \in Servers, c \in Secs, n \in Nat : In(n, section[v][c]) => Holds(v, c, n)
    /\ \A p \in Callers, n \in Nat : In(n, pc[p]) => Holds(Home[p], SecOf[pc[p].sid], n)
    /\ \A v \in Servers, s \in SeqSids, n \in Nat : In(n, session[v][s]) => Holds(v, SecOf[s], n)
  BY DEF Holds, InProc, InSession

(* A step without a reservation: it is enough to look at each place that   *)
(* can hold a number.                                                      *)
LEMMA NoGain ==
    ASSUME ApartInv, SeqTypeOK', Shape', \A c \in Secs : FreeSeq(c)' = FreeSeq(c),
           \A v \in Servers, c \in Secs, n \in Nat : In(n, section'[v][c]) => Holds(v, c, n),
           \A p \in Callers, n \in Nat : In(n, pc'[p]) => Holds(Home[p], SecOf[pc'[p].sid], n),
           \A v \in Servers, s \in SeqSids, n \in Nat : In(n, session'[v][s]) => Holds(v, SecOf[s], n),
           \A v \in Servers, c \in Secs, n \in Nat : <<v, c, n>> \in issued' => Holds(v, c, n)
    PROVE  ApartInv'
  <1>1. \A v \in Servers, c \in Secs, n \in Nat : Holds(v, c, n)' => Holds(v, c, n)
    BY DEF Holds, InProc, InSession, In
  <1>3. Below' /\ Apart'
    BY <1>1 DEF ApartInv, Below, Apart
  <1> QED BY <1>3 DEF ApartInv

(* Reservations, growing and copying leave proper ranges.                  *)
LEMMA GrownProper ==
    ASSUME NEW r \in Spans, NEW lo \in Nat, NEW hi \in Nat, Proper(r), lo < hi
    PROVE  /\ Proper(Grown(r, lo, hi))
           /\ \A n \in Nat : In(n, Grown(r, lo, hi)) => In(n, r) \/ (lo <= n /\ n < hi)
  BY DEF Grown, Span, Spans, Proper, In

LEMMA ProperIsItem == \A lo, hi \in Nat : lo < hi => Span(lo, hi) # NoItem /\ Proper(Span(lo, hi))
  BY DEF Span, NoItem, Proper

(* No step makes an empty range.                                           *)
LEMMA ShapeStep == SeqTypeOK /\ Shape /\ [SeqNext]_seqVars => Shape'
  <1> SUFFICES ASSUME SeqTypeOK, Shape, [SeqNext]_seqVars PROVE Shape'
    OBVIOUS
  <1> USE DEF dbVars, cacheVars, Return
  <1>go. ASSUME NEW p \in Callers, NEW a, Go(p, a),
                a \in {"check", "insert", "scheck", "sinsert"} => Proper(pc[p])
         PROVE  \A q \in Callers : pc'[q].at \in {"check", "insert", "scheck", "sinsert"} => Proper(pc'[q])
    BY <1>go, GoValues DEF Shape, Proper
  <1>1. ASSUME NEW p \in Callers, NEW s \in SeqSids, QuerySeqBySid(p, s) PROVE Shape'
    <2>1. pc'[p].at = "add" /\ \A q \in Callers : q # p => pc'[q] = pc[q]
      BY <1>1, FrameValues DEF QuerySeqBySid
    <2> QED BY <1>1, <2>1 DEF Shape, QuerySeqBySid
  <1>2. ASSUME NEW p \in Callers, section_add(p) PROVE Shape'
    BY <1>2, <1>go DEF Shape, section_add
  <1>3. ASSUME NEW p \in Callers, SectionAlloc(p) PROVE Shape'
    <2>1. SecOf[pc[p].sid] \in Secs
      BY Fields
    <2>2. FreeSeq(SecOf[pc[p].sid]) < FreeSeq(SecOf[pc[p].sid]) + SeqStep
      BY <2>1, AllocTyped DEF SeqStep
    <2>3. /\ pc'[p].min = FreeSeq(SecOf[pc[p].sid])
          /\ pc'[p].max = FreeSeq(SecOf[pc[p].sid]) + SeqStep
          /\ \A q \in Callers : q # p => pc'[q] = pc[q]
      BY <1>3 DEF SectionAlloc, Frame, SeqTypeOK
    <2> QED BY <1>3, <2>2, <2>3 DEF Shape, SectionAlloc, Proper
  <1>4. ASSUME NEW p \in Callers, SectionAllocFails(p) PROVE Shape'
    BY <1>4, <1>go DEF Shape, SectionAllocFails
  <1>5. ASSUME NEW p \in Callers, SectionCheck(p) PROVE Shape'
    <2>1. Proper(pc[p])
      BY <1>5 DEF Shape, SectionCheck, CallAt
    <2>2. SecItem(p) # NoItem => Proper(Grown(SecItem(p), pc[p].min, pc[p].max))
      BY <2>1, Fields, GrownProper DEF Shape, SecItem, Proper
    <2>3. \A v \in Servers, c \in Secs : section'[v][c] # NoItem => Proper(section'[v][c])
      <3>1. CASE SecItem(p) = NoItem
        BY <1>5, <3>1 DEF Shape, SectionCheck
      <3>2. CASE SecItem(p) # NoItem
        <4>1. SetSection(Home[p], SecOf[pc[p].sid], Grown(SecItem(p), pc[p].min, pc[p].max))
          BY <1>5, <3>2 DEF SectionCheck
        <4>2. \A v \in Servers, c \in Secs :
                 section'[v][c] = IF v = Home[p] /\ c = SecOf[pc[p].sid]
                                  THEN Grown(SecItem(p), pc[p].min, pc[p].max)
                                  ELSE section[v][c]
          BY <4>1, Fields DEF SetSection, SeqTypeOK
        <4> QED BY <2>2, <3>2, <4>2 DEF Shape
      <3> QED BY <3>1, <3>2
    <2> QED BY <1>5, <1>go, <2>1, <2>3 DEF Shape, SectionCheck
  <1>6. ASSUME NEW p \in Callers, SectionInsert(p) PROVE Shape'
    <2>1. pc[p].min < pc[p].max
      BY <1>6 DEF Shape, SectionInsert, CallAt, Proper
    <2>2. Proper(Span(pc[p].min, pc[p].max))
      BY <2>1, Fields, ProperIsItem
    <2>3. \A v \in Servers, c \in Secs : section'[v][c] # NoItem => Proper(section'[v][c])
      <3>1. \A v \in Servers, c \in Secs :
               section'[v][c] = IF v = Home[p] /\ c = SecOf[pc[p].sid]
                                THEN Span(pc[p].min, pc[p].max) ELSE section[v][c]
        BY <1>6, Fields DEF SectionInsert, SetSection, SeqTypeOK
      <3> QED BY <2>2, <3>1 DEF Shape
    <2> QED BY <1>6, <1>go, <2>3 DEF Shape, SectionInsert
  <1>7. ASSUME NEW p \in Callers, query_seq_by_sid(p) PROVE Shape'
    BY <1>7, <1>go DEF Shape, query_seq_by_sid
  <1>8. ASSUME NEW p \in Callers, SessionUnknown(p) PROVE Shape'
    BY <1>8, <1>go DEF Shape, SessionUnknown
  <1>9. ASSUME NEW p \in Callers, section_find(p) PROVE Shape'
    <2>1. Proper(SecItem(p))
      BY <1>9, Fields DEF Shape, section_find, SecItem
    <2>2. /\ pc'[p].min = SecItem(p).min /\ pc'[p].max = SecItem(p).max
          /\ \A q \in Callers : q # p => pc'[q] = pc[q]
      BY <1>9 DEF section_find, Frame, SeqTypeOK
    <2> QED BY <1>9, <2>1, <2>2 DEF Shape, section_find, Proper
  <1>10. ASSUME NEW p \in Callers, SessionCheck(p) PROVE Shape'
    <2>1. Proper(pc[p])
      BY <1>10 DEF Shape, SessionCheck, CallAt
    <2>2. Proper(Span(pc[p].min, pc[p].max))
      BY <2>1, Fields, ProperIsItem DEF Proper
    <2>3. \A v \in Servers, s \in SeqSids : session'[v][s] # NoItem => Proper(session'[v][s])
      <3>1. CASE SessItem(p) = NoItem
        BY <1>10, <3>1 DEF Shape, SessionCheck
      <3>2. CASE SessItem(p) # NoItem
        <4> DEFINE item == IF SessItem(p).max < pc[p].max THEN Span(pc[p].min, pc[p].max)
                                                          ELSE SessItem(p)
        <4>1. SetSession(Home[p], pc[p].sid, item)
          BY <1>10, <3>2 DEF SessionCheck
        <4>2. Proper(item)
          BY <2>2, <3>2, Fields DEF Shape, SessItem
        <4> HIDE DEF item
        <4>3. \A v \in Servers, s \in SeqSids :
                 session'[v][s] = IF v = Home[p] /\ s = pc[p].sid THEN item ELSE session[v][s]
          BY <4>1, Fields DEF SetSession, SeqTypeOK
        <4> QED BY <4>2, <4>3 DEF Shape
      <3> QED BY <3>1, <3>2
    <2> QED BY <1>10, <1>go, <2>1, <2>3 DEF Shape, SessionCheck
  <1>11. ASSUME NEW p \in Callers, SessionInsert(p) PROVE Shape'
    <2>1. pc[p].min < pc[p].max
      BY <1>11 DEF Shape, SessionInsert, CallAt, Proper
    <2>2. Proper(Span(pc[p].min, pc[p].max))
      BY <2>1, Fields, ProperIsItem
    <2>3. \A v \in Servers, s \in SeqSids : session'[v][s] # NoItem => Proper(session'[v][s])
      <3>1. \A v \in Servers, s \in SeqSids :
               session'[v][s] = IF v = Home[p] /\ s = pc[p].sid
                                THEN Span(pc[p].min, pc[p].max) ELSE session[v][s]
        BY <1>11, Fields DEF SessionInsert, SetSession, SeqTypeOK
      <3> QED BY <2>2, <3>1 DEF Shape
    <2> QED BY <1>11, <1>go, <2>3 DEF Shape, SessionInsert
  <1>12. ASSUME NEW v \in Servers, Crash(v) PROVE Shape'
    <2>1. \A w \in Servers, c \in Secs :
             section'[w][c] = IF w = v THEN NoItem ELSE section[w][c]
      BY <1>12 DEF Crash, SeqTypeOK
    <2>2. \A w \in Servers, s \in SeqSids :
             session'[w][s] = IF w = v THEN NoItem ELSE session[w][s]
      BY <1>12 DEF Crash, SeqTypeOK
    <2>3. \A p \in Callers : pc'[p].at = "idle" \/ pc'[p] = pc[p]
      BY <1>12 DEF Crash, Frame
    <2> QED BY <2>1, <2>2, <2>3 DEF Shape
  <1>13. ASSUME NEW v \in Servers, NEW c \in Secs, load_seq_from_db(v, c) PROVE Shape'
    <2>1. FreeSeq(c) \in Nat /\ FreeSeq(c) + SeqStep \in Nat /\ FreeSeq(c) < FreeSeq(c) + SeqStep
      BY AllocTyped DEF SeqStep
    <2>2. Proper(Span(FreeSeq(c), FreeSeq(c) + SeqStep))
      BY <2>1, ProperIsItem
    <2>3. \A w \in Servers, d \in Secs : section'[w][d] # NoItem => Proper(section'[w][d])
      BY <1>13, <2>2, SetValues DEF Shape, load_seq_from_db
    <2> QED BY <1>13, <2>3 DEF Shape, load_seq_from_db
  <1>14. ASSUME NEW v \in Servers, NEW c \in Secs, LoadFails(v, c) PROVE Shape'
    BY <1>14 DEF Shape, LoadFails
  <1>15. ASSUME NEW g \in Gens, alloc_sid(g) PROVE Shape'
    BY <1>15 DEF Shape, alloc_sid
  <1>16. CASE UNCHANGED seqVars
    BY <1>16 DEF Shape, seqVars
  <1> QED
    BY <1>1, <1>2, <1>3, <1>4, <1>5, <1>6, <1>7, <1>8, <1>9, <1>10, <1>11, <1>12, <1>13,
       <1>14, <1>15, <1>16 DEF SeqNext, CallStep

(* A goroutine that only moves on carries what it carried.                 *)
LEMMA GoHolds ==
    ASSUME SeqTypeOK, NEW p \in Callers, NEW a, Go(p, a)
    PROVE  \A q \in Callers, n \in Nat : In(n, pc'[q]) => Holds(Home[q], SecOf[pc'[q].sid], n)
  BY GoValues, Held DEF In

(* A reservation takes the free numbers from FreeSeq on, SeqStep of them.  *)
LEMMA AllocFree ==
    ASSUME SeqTypeOK, CommitLoss = FALSE, NEW c \in Secs, alloc_seq_from_db(c)
    PROVE  /\ FreeSeq(c)' = FreeSeq(c) + SeqStep
           /\ \A d \in Secs : FreeSeq(d)' >= FreeSeq(d) /\ FreeSeq(d) \in Nat /\ FreeSeq(d)' \in Nat
  BY DEF SeqTypeOK, alloc_seq_from_db, FreeSeq, SeqBase, SeqStep

(* Every step keeps the servers apart.                                     *)
LEMMA ApartStep == CommitLoss = FALSE /\ ApartInv /\ [SeqNext]_seqVars => ApartInv'
  <1> SUFFICES ASSUME CommitLoss = FALSE, ApartInv, [SeqNext]_seqVars PROVE ApartInv'
    OBVIOUS
  <1>t. SeqTypeOK /\ Shape /\ SeqTypeOK' /\ Shape'
    BY TypeStep, ShapeStep DEF ApartInv
  <1> USE DEF dbVars, cacheVars, Return
  <1>free. UNCHANGED seq_gen => \A c \in Secs : FreeSeq(c)' = FreeSeq(c)
    BY DEF FreeSeq
  <1>iss. UNCHANGED issued =>
             \A v \in Servers, c \in Secs, n \in Nat : <<v, c, n>> \in issued' => Holds(v, c, n)
    BY DEF Holds
  <1>sec. UNCHANGED section =>
             \A v \in Servers, c \in Secs, n \in Nat : In(n, section'[v][c]) => Holds(v, c, n)
    BY Held
  <1>ses. UNCHANGED session =>
             \A v \in Servers, s \in SeqSids, n \in Nat : In(n, session'[v][s]) => Holds(v, SecOf[s], n)
    BY Held
  <1>pc. UNCHANGED pc =>
             \A p \in Callers, n \in Nat : In(n, pc'[p]) => Holds(Home[p], SecOf[pc'[p].sid], n)
    BY Held
  <1>1. ASSUME NEW p \in Callers, NEW s \in SeqSids, QuerySeqBySid(p, s) PROVE ApartInv'
    <2>1. /\ pc'[p].min = 0 /\ pc'[p].max = 0
          /\ \A q \in Callers : q # p => pc'[q] = pc[q]
      BY <1>1, <1>t DEF QuerySeqBySid, Frame, SeqTypeOK
    <2>2. \A q \in Callers, n \in Nat : In(n, pc'[q]) => Holds(Home[q], SecOf[pc'[q].sid], n)
      BY <2>1, Held DEF In
    <2> QED BY <1>free, <1>1, <1>t, <1>iss, <1>sec, <1>ses, <2>2, NoGain DEF QuerySeqBySid
  <1>2. ASSUME NEW p \in Callers, section_add(p) PROVE ApartInv'
    BY <1>free, <1>2, <1>t, <1>iss, <1>sec, <1>ses, GoHolds, NoGain DEF section_add
  <1>3. ASSUME NEW p \in Callers, SectionAlloc(p) PROVE ApartInv'
    <2>1. SecOf[pc[p].sid] \in Secs /\ Home[p] \in Servers
      BY <1>t, Fields
    <2> PICK k \in Secs : k = SecOf[pc[p].sid]
      BY <2>1
    <2>2. alloc_seq_from_db(k)
      BY <1>3 DEF SectionAlloc
    <2>3. /\ FreeSeq(k)' = FreeSeq(k) + SeqStep
          /\ \A d \in Secs : FreeSeq(d)' >= FreeSeq(d) /\ FreeSeq(d) \in Nat /\ FreeSeq(d)' \in Nat
      BY <1>t, <2>1, <2>2, AllocFree
    <2>4. /\ pc'[p].min = FreeSeq(k) /\ pc'[p].max = FreeSeq(k) + SeqStep
          /\ pc'[p].sid = pc[p].sid
          /\ \A q \in Callers : q # p => pc'[q] = pc[q]
      BY <1>3, <1>t DEF SectionAlloc, Frame, SeqTypeOK
    <2>5. UNCHANGED <<section, session, issued>>
      BY <1>3 DEF SectionAlloc
    <2>6. ASSUME NEW v \in Servers, NEW c \in Secs, NEW n \in Nat, Holds(v, c, n)'
          PROVE  Holds(v, c, n) \/ (v = Home[p] /\ c = k /\ FreeSeq(c) <= n /\ n < FreeSeq(k) + SeqStep)
      <3>1. InProc(v, c, n)' => InProc(v, c, n) \/ (v = Home[p] /\ c = k /\ FreeSeq(k) <= n
                                                    /\ n < FreeSeq(k) + SeqStep)
        BY <2>4 DEF InProc, In
      <3> QED BY <2>5, <2>6, <3>1 DEF Holds, InSession, In
    <2>7. \A v \in Servers, c \in Secs, n \in Nat :
             Holds(v, c, n)' => \/ Holds(v, c, n)
                                \/ v = Home[p] /\ c = k /\ FreeSeq(c) <= n /\ n < FreeSeq(c)'
      BY <2>3, <2>6
    <2> QED BY <1>t, <2>1, <2>3, <2>7, KeepApart
  <1>4. ASSUME NEW p \in Callers, SectionAllocFails(p) PROVE ApartInv'
    <2>1. \A c \in Secs : FreeSeq(c)' = FreeSeq(c)
      BY <1>4, <1>t DEF SectionAllocFails, FreeSeq, SeqBase, SeqTypeOK
    <2> QED BY <1>4, <1>t, <1>iss, <1>sec, <1>ses, <2>1, GoHolds, NoGain DEF SectionAllocFails
  <1>5. ASSUME NEW p \in Callers, SectionCheck(p) PROVE ApartInv'
    <2>1. CASE SecItem(p) = NoItem
      BY <1>free, <1>5, <2>1, <1>t, <1>iss, <1>sec, <1>ses, GoHolds, NoGain DEF SectionCheck
    <2>2. CASE SecItem(p) # NoItem
      <3>1. SetSection(Home[p], SecOf[pc[p].sid], Grown(SecItem(p), pc[p].min, pc[p].max))
        BY <1>5, <2>2 DEF SectionCheck
      <3>2. \A v \in Servers, c \in Secs :
               section'[v][c] = IF v = Home[p] /\ c = SecOf[pc[p].sid]
                                THEN Grown(SecItem(p), pc[p].min, pc[p].max)
                                ELSE section[v][c]
        BY <3>1, <1>t, Fields DEF SetSection, SeqTypeOK
      <3>3. Proper(SecItem(p)) /\ pc[p].min < pc[p].max
        BY <1>5, <2>2, <1>t, Fields DEF Shape, SecItem, SectionCheck, CallAt, Proper
      <3>4. \A n \in Nat : In(n, Grown(SecItem(p), pc[p].min, pc[p].max))
                              => In(n, SecItem(p)) \/ In(n, pc[p])
        BY <3>3, <1>t, Fields, GrownProper DEF In
      <3>5. \A n \in Nat : In(n, SecItem(p)) \/ In(n, pc[p]) => Holds(Home[p], SecOf[pc[p].sid], n)
        BY <1>t, Fields, Held DEF SecItem
      <3>6. \A v \in Servers, c \in Secs, n \in Nat : In(n, section'[v][c]) => Holds(v, c, n)
        BY <3>2, <3>4, <3>5, Held
      <3> QED BY <1>free, <1>5, <2>2, <1>t, <1>iss, <1>ses, <3>6, GoHolds, NoGain DEF SectionCheck
    <2> QED BY <2>1, <2>2
  <1>6. ASSUME NEW p \in Callers, SectionInsert(p) PROVE ApartInv'
    <2>1. \A v \in Servers, c \in Secs :
             section'[v][c] = IF v = Home[p] /\ c = SecOf[pc[p].sid]
                              THEN Span(pc[p].min, pc[p].max) ELSE section[v][c]
      BY <1>6, <1>t, Fields DEF SectionInsert, SetSection, SeqTypeOK
    <2>2. \A n \in Nat : In(n, Span(pc[p].min, pc[p].max)) => Holds(Home[p], SecOf[pc[p].sid], n)
      BY <1>t, Held DEF In, Span
    <2>3. \A v \in Servers, c \in Secs, n \in Nat : In(n, section'[v][c]) => Holds(v, c, n)
      BY <2>1, <2>2, Held
    <2> QED BY <1>free, <1>6, <1>t, <1>iss, <1>ses, <2>3, GoHolds, NoGain DEF SectionInsert
  <1>7. ASSUME NEW p \in Callers, query_seq_by_sid(p) PROVE ApartInv'
    <2>1. SessItem(p) # NoItem /\ issued' = issued \cup {<<Home[p], SecOf[pc[p].sid], SessItem(p).min>>}
      BY <1>7 DEF query_seq_by_sid
    <2>2. In(SessItem(p).min, SessItem(p)) /\ SessItem(p).min \in Nat
      BY <2>1, <1>t, Fields DEF Shape, SessItem, Proper, In
    <2>3. Holds(Home[p], SecOf[pc[p].sid], SessItem(p).min)
      BY <2>2, <1>t, Fields, Held DEF SessItem
    <2>4. \A v \in Servers, c \in Secs, n \in Nat : <<v, c, n>> \in issued' => Holds(v, c, n)
      BY <2>1, <2>3 DEF Holds
    <2> QED BY <1>free, <1>7, <1>t, <1>sec, <1>ses, <2>4, GoHolds, NoGain DEF query_seq_by_sid
  <1>8. ASSUME NEW p \in Callers, SessionUnknown(p) PROVE ApartInv'
    BY <1>free, <1>8, <1>t, <1>iss, <1>sec, <1>ses, GoHolds, NoGain DEF SessionUnknown
  <1>9. ASSUME NEW p \in Callers, section_find(p) PROVE ApartInv'
    <2>1. /\ pc'[p].min = SecItem(p).min /\ pc'[p].max = SecItem(p).max
          /\ pc'[p].sid = pc[p].sid
          /\ \A q \in Callers : q # p => pc'[q] = pc[q]
      BY <1>9, <1>t DEF section_find, Frame, SeqTypeOK
    <2>2. \A n \in Nat : In(n, pc'[p]) => In(n, SecItem(p))
      BY <2>1 DEF In
    <2>3. \A n \in Nat : In(n, SecItem(p)) => Holds(Home[p], SecOf[pc[p].sid], n)
      BY <1>t, Fields, Held DEF SecItem
    <2>4. \A q \in Callers, n \in Nat : In(n, pc'[q]) => Holds(Home[q], SecOf[pc'[q].sid], n)
      BY <2>1, <2>2, <2>3, Held
    <2> QED BY <1>free, <1>9, <1>t, <1>iss, <1>sec, <1>ses, <2>4, NoGain DEF section_find
  <1>10. ASSUME NEW p \in Callers, SessionCheck(p) PROVE ApartInv'
    <2>1. CASE SessItem(p) = NoItem
      BY <1>free, <1>10, <2>1, <1>t, <1>iss, <1>sec, <1>ses, GoHolds, NoGain DEF SessionCheck
    <2>2. CASE SessItem(p) # NoItem
      <3> DEFINE item == IF SessItem(p).max < pc[p].max THEN Span(pc[p].min, pc[p].max)
                                                        ELSE SessItem(p)
      <3>1. SetSession(Home[p], pc[p].sid, item)
        BY <1>10, <2>2 DEF SessionCheck
      <3>2. \A n \in Nat : In(n, item) => In(n, SessItem(p)) \/ In(n, pc[p])
        BY DEF In, Span
      <3>3. \A n \in Nat : In(n, SessItem(p)) \/ In(n, pc[p]) => Holds(Home[p], SecOf[pc[p].sid], n)
        BY <1>t, Fields, Held DEF SessItem
      <3> HIDE DEF item
      <3>4. \A v \in Servers, s \in SeqSids :
               session'[v][s] = IF v = Home[p] /\ s = pc[p].sid THEN item ELSE session[v][s]
        BY <3>1, <1>t, Fields DEF SetSession, SeqTypeOK
      <3>5. \A v \in Servers, s \in SeqSids, n \in Nat : In(n, session'[v][s]) => Holds(v, SecOf[s], n)
        BY <3>2, <3>3, <3>4, Held
      <3> QED BY <1>free, <1>10, <2>2, <1>t, <1>iss, <1>sec, <3>5, GoHolds, NoGain DEF SessionCheck
    <2> QED BY <2>1, <2>2
  <1>11. ASSUME NEW p \in Callers, SessionInsert(p) PROVE ApartInv'
    <2>1. \A v \in Servers, s \in SeqSids :
             session'[v][s] = IF v = Home[p] /\ s = pc[p].sid
                              THEN Span(pc[p].min, pc[p].max) ELSE session[v][s]
      BY <1>11, <1>t, Fields DEF SessionInsert, SetSession, SeqTypeOK
    <2>2. \A n \in Nat : In(n, Span(pc[p].min, pc[p].max)) => Holds(Home[p], SecOf[pc[p].sid], n)
      BY <1>t, Held DEF In, Span
    <2>3. \A v \in Servers, s \in SeqSids, n \in Nat : In(n, session'[v][s]) => Holds(v, SecOf[s], n)
      BY <2>1, <2>2, Held
    <2> QED BY <1>free, <1>11, <1>t, <1>iss, <1>sec, <2>3, GoHolds, NoGain DEF SessionInsert
  <1>12. ASSUME NEW v \in Servers, Crash(v) PROVE ApartInv'
    <2>1. \A w \in Servers, c \in Secs :
             section'[w][c] = IF w = v THEN NoItem ELSE section[w][c]
      BY <1>12, <1>t DEF Crash, SeqTypeOK
    <2>2. \A w \in Servers, s \in SeqSids :
             session'[w][s] = IF w = v THEN NoItem ELSE session[w][s]
      BY <1>12, <1>t DEF Crash, SeqTypeOK
    <2>3. \A p \in Callers : (pc'[p].min = 0 /\ pc'[p].max = 0) \/ pc'[p] = pc[p]
      BY <1>12 DEF Crash, Frame
    <2>4. \A n \in Nat : ~In(n, NoItem)
      BY Built DEF In
    <2>5. \A w \in Servers, c \in Secs, n \in Nat : In(n, section'[w][c]) => Holds(w, c, n)
      BY <2>1, <2>4, Held
    <2>6. \A w \in Servers, s \in SeqSids, n \in Nat : In(n, session'[w][s]) => Holds(w, SecOf[s], n)
      BY <2>2, <2>4, Held
    <2>7. \A p \in Callers, n \in Nat : In(n, pc'[p]) => Holds(Home[p], SecOf[pc'[p].sid], n)
      BY <2>3, Held DEF In
    <2> QED BY <1>free, <1>12, <1>t, <1>iss, <2>5, <2>6, <2>7, NoGain DEF Crash
  <1>13. ASSUME NEW v \in Servers, NEW c \in Secs, load_seq_from_db(v, c) PROVE ApartInv'
    <2>1. alloc_seq_from_db(c)
      BY <1>13 DEF load_seq_from_db
    <2>2. /\ FreeSeq(c)' = FreeSeq(c) + SeqStep
          /\ \A d \in Secs : FreeSeq(d)' >= FreeSeq(d) /\ FreeSeq(d) \in Nat /\ FreeSeq(d)' \in Nat
      BY <1>t, <2>1, AllocFree
    <2>3. \A w \in Servers, d \in Secs :
             section'[w][d] = IF w = v /\ d = c THEN Span(FreeSeq(c), FreeSeq(c) + SeqStep)
                                                ELSE section[w][d]
      BY <1>13, <1>t DEF load_seq_from_db, SetSection, SeqTypeOK
    <2>4. UNCHANGED <<session, pc, issued>>
      BY <1>13 DEF load_seq_from_db
    <2>5. \A n \in Nat : In(n, Span(FreeSeq(c), FreeSeq(c) + SeqStep))
                            => FreeSeq(c) <= n /\ n < FreeSeq(c)'
      BY <2>2 DEF In, Span
    <2>6. ASSUME NEW w \in Servers, NEW d \in Secs, NEW n \in Nat, Holds(w, d, n)'
          PROVE  Holds(w, d, n) \/ (w = v /\ d = c /\ FreeSeq(d) <= n /\ n < FreeSeq(d)')
      <3>1. In(n, section[w][d])' => \/ In(n, section[w][d])
                                     \/ w = v /\ d = c /\ FreeSeq(c) <= n /\ n < FreeSeq(c)'
        BY <2>3, <2>5 DEF In
      <3> QED BY <2>4, <2>6, <3>1 DEF Holds, InProc, InSession, In
    <2> QED BY <1>t, <2>2, <2>6, KeepApart
  <1>14. ASSUME NEW v \in Servers, NEW c \in Secs, LoadFails(v, c) PROVE ApartInv'
    BY <1>free, <1>14, <1>t, <1>iss, <1>sec, <1>ses, <1>pc, NoGain DEF LoadFails
  <1>15. ASSUME NEW g \in Gens, alloc_sid(g) PROVE ApartInv'
    BY <1>free, <1>15, <1>t, <1>iss, <1>sec, <1>ses, <1>pc, NoGain DEF alloc_sid
  <1>16. CASE UNCHANGED seqVars
    BY <1>free, <1>16, <1>t, <1>iss, <1>sec, <1>ses, <1>pc, NoGain DEF seqVars
  <1> QED
    BY <1>1, <1>2, <1>3, <1>4, <1>5, <1>6, <1>7, <1>8, <1>9, <1>10, <1>11, <1>12, <1>13,
       <1>14, <1>15, <1>16 DEF SeqNext, CallStep

LEMMA ApartInit == SeqInit => ApartInv
  <1> SUFFICES ASSUME SeqInit PROVE ApartInv
    OBVIOUS
  <1>1. \A p \in Callers : pc[p].at = "idle" /\ pc[p].min = 0 /\ pc[p].max = 0
    BY DEF SeqInit, Frame
  <1>2. Shape
    BY <1>1 DEF SeqInit, Shape
  <1>3. \A v \in Servers, c \in Secs, n \in Nat : ~Holds(v, c, n)
    <2>1. \A n \in Nat : ~In(n, NoItem)
      BY Built DEF In
    <2>2. \A p \in Callers, n \in Nat : ~In(n, pc[p])
      BY <1>1 DEF In
    <2> QED BY <2>1, <2>2 DEF SeqInit, Holds, InProc, InSession
  <1> QED BY <1>2, <1>3, TypeInit DEF ApartInv, Below, Apart

(* As long as MySQL does not lose a COMMIT, two servers never give the     *)
(* same number within a section, and the ranges they cache never overlap,  *)
(* however many of them crash, race or fail to reserve.                    *)
THEOREM ServersApart ==
    ASSUME CommitLoss = FALSE
    PROVE  SeqSpec => []NumbersApart
  <1>1. ApartInv => IssuedApart
    <2> SUFFICES ASSUME ApartInv, NEW i \in issued, NEW j \in issued, i[2] = j[2], i[3] = j[3]
                 PROVE  i[1] = j[1]
      BY DEF IssuedApart
    <2>1. i = <<i[1], i[2], i[3]>> /\ j = <<j[1], i[2], i[3]>>
          /\ i[1] \in Servers /\ j[1] \in Servers /\ i[2] \in Secs /\ i[3] \in Nat
      BY DEF ApartInv, SeqTypeOK
    <2>2. Holds(i[1], i[2], i[3]) /\ Holds(j[1], i[2], i[3])
      BY <2>1 DEF Holds
    <2> QED BY <2>1, <2>2 DEF ApartInv, Apart
  <1>2. ApartInv => RangesApart
    <2> SUFFICES ASSUME ApartInv, NEW v \in Servers, NEW w \in Servers, NEW c \in Secs, v # w,
                        ~(section[v][c].max <= section[w][c].min),
                        ~(section[w][c].max <= section[v][c].min)
                 PROVE  FALSE
      BY DEF RangesApart
    <2>1. /\ section[v][c].min \in Nat /\ section[v][c].max \in Nat
          /\ section[w][c].min \in Nat /\ section[w][c].max \in Nat
      BY DEF ApartInv, SeqTypeOK, Spans
    <2>2. section[v][c].min < section[v][c].max /\ section[w][c].min < section[w][c].max
      BY <2>1, Built DEF ApartInv, Shape, Proper
    <2>3. \E n \in Nat : In(n, section[v][c]) /\ In(n, section[w][c])
      <3>1. CASE section[v][c].min <= section[w][c].min
        BY <2>1, <2>2, <3>1 DEF In
      <3>2. CASE section[w][c].min <= section[v][c].min
        BY <2>1, <2>2, <3>2 DEF In
      <3> QED BY <2>1, <3>1, <3>2
    <2> QED BY <2>3, Held DEF ApartInv, Apart
  <1>3. ApartInv /\ [SeqNext]_seqVars => ApartInv'
    BY ApartStep
  <1>4. ApartInv => NumbersApart
    BY <1>1, <1>2 DEF NumbersApart
  <1> QED BY <1>3, <1>4, ApartInit, PTL DEF SeqSpec

(* Once section_add is done for a call, the section is there for the rest  *)
(* of the call, so section_find never reserves.                            *)
THEOREM SectionFound == SeqSpec => []SectionStays
  <1> DEFINE Inv == SeqTypeOK /\ Shape /\ SectionStays
             Past == {"query", "find", "scheck", "sinsert"}
  <1>1. SeqInit => Inv
    <2> SUFFICES ASSUME SeqInit PROVE Inv
      OBVIOUS
    <2>1. \A p \in Callers : pc[p].at = "idle"
      BY DEF SeqInit, Frame
    <2> QED BY <2>1, TypeInit DEF SeqInit, Shape, SectionStays
  <1>2. Inv /\ [SeqNext]_seqVars => Inv'
    <2> SUFFICES ASSUME Inv, [SeqNext]_seqVars PROVE Inv'
      OBVIOUS
    <2>t. SeqTypeOK /\ SeqTypeOK' /\ Shape /\ Shape' /\ SectionStays
      BY TypeStep, ShapeStep
    <2> SUFFICES ASSUME NEW q \in Callers, pc'[q].at \in Past
                 PROVE  section'[Home[q]][SecOf[pc'[q].sid]] # NoItem
      BY <2>t DEF SectionStays, SecItem
    <2>f. Home[q] \in Servers /\ pc[q].sid \in SeqSids /\ SecOf[pc[q].sid] \in Secs
      BY <2>t, Fields
    <2> USE DEF dbVars, cacheVars, Return
    <2>old. pc[q].at \in Past => section[Home[q]][SecOf[pc[q].sid]] # NoItem
      BY <2>t DEF SectionStays, SecItem
    <2>1. ASSUME NEW p \in Callers, NEW s \in SeqSids, QuerySeqBySid(p, s)
          PROVE  section'[Home[q]][SecOf[pc'[q].sid]] # NoItem
      <3>1. pc'[p].at = "add" /\ \A r \in Callers : r # p => pc'[r] = pc[r]
        BY <2>1, <2>t DEF QuerySeqBySid, Frame, SeqTypeOK
      <3> QED BY <2>1, <2>old, <3>1 DEF QuerySeqBySid
    <2>2. ASSUME NEW p \in Callers, section_add(p)
          PROVE  section'[Home[q]][SecOf[pc'[q].sid]] # NoItem
      BY <2>2, <2>old, <2>t, GoValues DEF section_add, SecItem
    <2>3. ASSUME NEW p \in Callers, SectionAlloc(p)
          PROVE  section'[Home[q]][SecOf[pc'[q].sid]] # NoItem
      <3>1. pc'[p].at = "check" /\ \A r \in Callers : r # p => pc'[r] = pc[r]
        BY <2>3, <2>t DEF SectionAlloc, Frame, SeqTypeOK
      <3> QED BY <2>3, <2>old, <3>1 DEF SectionAlloc
    <2>4. ASSUME NEW p \in Callers, SectionAllocFails(p)
          PROVE  section'[Home[q]][SecOf[pc'[q].sid]] # NoItem
      BY <2>4, <2>old, <2>t, GoValues DEF SectionAllocFails
    <2>5. ASSUME NEW p \in Callers, SectionCheck(p)
          PROVE  section'[Home[q]][SecOf[pc'[q].sid]] # NoItem
      <3>1. pc'[q].at = pc[q].at /\ pc'[q].sid = pc[q].sid
        BY <2>5, <2>t, GoValues DEF SectionCheck
      <3>2. CASE SecItem(p) = NoItem
        BY <2>5, <2>old, <3>1, <3>2 DEF SectionCheck
      <3>3. CASE SecItem(p) # NoItem
        <4>1. SetSection(Home[p], SecOf[pc[p].sid], Grown(SecItem(p), pc[p].min, pc[p].max))
          BY <2>5, <3>3 DEF SectionCheck
        <4>2. Proper(pc[p]) /\ Proper(SecItem(p))
          BY <2>5, <2>t, <3>3, Fields DEF Shape, SecItem, SectionCheck, CallAt
        <4>3. Proper(Grown(SecItem(p), pc[p].min, pc[p].max))
          BY <2>t, <4>2, Fields, GrownProper DEF Proper
        <4>4. Grown(SecItem(p), pc[p].min, pc[p].max) # NoItem
          BY <4>3, Built DEF Proper
        <4>5. section'[Home[q]][SecOf[pc[q].sid]]
                 \in {Grown(SecItem(p), pc[p].min, pc[p].max), section[Home[q]][SecOf[pc[q].sid]]}
          BY <4>1, <2>f, <2>t, Fields DEF SetSection, SeqTypeOK
        <4> QED BY <2>old, <3>1, <4>4, <4>5
      <3> QED BY <3>2, <3>3
    <2>6. ASSUME NEW p \in Callers, SectionInsert(p)
          PROVE  section'[Home[q]][SecOf[pc'[q].sid]] # NoItem
      <3>1. pc'[q].at = pc[q].at /\ pc'[q].sid = pc[q].sid
        BY <2>6, <2>t, GoValues DEF SectionInsert
      <3>2. Span(pc[p].min, pc[p].max) # NoItem
        BY <2>6, <2>t, Fields, ProperIsItem DEF Shape, SectionInsert, CallAt, Proper
      <3>3. section'[Home[q]][SecOf[pc[q].sid]]
               \in {Span(pc[p].min, pc[p].max), section[Home[q]][SecOf[pc[q].sid]]}
        BY <2>6, <2>f, <2>t, Fields DEF SectionInsert, SetSection, SeqTypeOK
      <3> QED BY <2>old, <3>1, <3>2, <3>3
    <2>7. ASSUME NEW p \in Callers, query_seq_by_sid(p)
          PROVE  section'[Home[q]][SecOf[pc'[q].sid]] # NoItem
      BY <2>7, <2>old, <2>t, GoValues DEF query_seq_by_sid
    <2>8. ASSUME NEW p \in Callers, SessionUnknown(p)
          PROVE  section'[Home[q]][SecOf[pc'[q].sid]] # NoItem
      BY <2>8, <2>old, <2>t, GoValues DEF SessionUnknown, CallAt
    <2>9. ASSUME NEW p \in Callers, section_find(p)
          PROVE  section'[Home[q]][SecOf[pc'[q].sid]] # NoItem
      <3>1. pc'[p].sid = pc[p].sid /\ \A r \in Callers : r # p => pc'[r] = pc[r]
        BY <2>9, <2>t DEF section_find, Frame, SeqTypeOK
      <3> QED BY <2>9, <2>old, <3>1 DEF section_find, CallAt
    <2>10. ASSUME NEW p \in Callers, SessionCheck(p)
           PROVE  section'[Home[q]][SecOf[pc'[q].sid]] # NoItem
      BY <2>10, <2>old, <2>t, GoValues DEF SessionCheck, CallAt
    <2>11. ASSUME NEW p \in Callers, SessionInsert(p)
           PROVE  section'[Home[q]][SecOf[pc'[q].sid]] # NoItem
      BY <2>11, <2>old, <2>t, GoValues DEF SessionInsert, CallAt
    <2>12. ASSUME NEW v \in Servers, Crash(v)
           PROVE  section'[Home[q]][SecOf[pc'[q].sid]] # NoItem
      <3>1. IF Home[q] = v THEN pc'[q].at = "idle" ELSE pc'[q] = pc[q]
        BY <2>12 DEF Crash, Frame
      <3>2. Home[q] # v => section'[Home[q]] = section[Home[q]]
        BY <2>12, <2>f, <2>t DEF Crash, SeqTypeOK
      <3> QED BY <2>old, <3>1, <3>2
    <2>13. ASSUME NEW v \in Servers, NEW c \in Secs, load_seq_from_db(v, c)
           PROVE  section'[Home[q]][SecOf[pc'[q].sid]] # NoItem
      <3>1. FreeSeq(c) \in Nat /\ FreeSeq(c) + SeqStep \in Nat /\ FreeSeq(c) < FreeSeq(c) + SeqStep
        BY <2>t, AllocTyped DEF SeqStep
      <3>2. Span(FreeSeq(c), FreeSeq(c) + SeqStep) # NoItem
        BY <3>1, ProperIsItem
      <3>3. section'[Home[q]][SecOf[pc[q].sid]]
               \in {Span(FreeSeq(c), FreeSeq(c) + SeqStep), section[Home[q]][SecOf[pc[q].sid]]}
        BY <2>13, <2>f, <2>t DEF load_seq_from_db, SetSection, SeqTypeOK
      <3> QED BY <2>13, <2>old, <3>2, <3>3 DEF load_seq_from_db
    <2>14. ASSUME NEW v \in Servers, NEW c \in Secs, LoadFails(v, c)
           PROVE  section'[Home[q]][SecOf[pc'[q].sid]] # NoItem
      BY <2>14, <2>old DEF LoadFails
    <2>15. ASSUME NEW g \in Gens, alloc_sid(g)
           PROVE  section'[Home[q]][SecOf[pc'[q].sid]] # NoItem
      BY <2>15, <2>old DEF alloc_sid
    <2>16. CASE UNCHANGED seqVars
      BY <2>16, <2>old DEF seqVars
    <2> QED
      BY <2>1, <2>2, <2>3, <2>4, <2>5, <2>6, <2>7, <2>8, <2>9, <2>10, <2>11, <2>12, <2>13,
         <2>14, <2>15, <2>16 DEF SeqNext, CallStep
  <1>3. Inv => SectionStays
    OBVIOUS
  <1> QED BY <1>1, <1>2, <1>3, PTL DEF SeqSpec

----------------------------------------------------------------------------
(* On a server with one caller, what was answered for a SID lies not above *)
(* the session's number, that one not above the section's lower end, and   *)
(* nothing above what MySQL gives next.                                    *)
Ordered(v) ==
    \A s \in SeqSids :
        /\ answer[v][s] <= FreeSeq(SecOf[s])
        /\ section[v][SecOf[s]].min <= FreeSeq(SecOf[s])
        /\ section[v][SecOf[s]] # NoItem => answer[v][s] <= section[v][SecOf[s]].min
        /\ session[v][s] # NoItem =>
              /\ section[v][SecOf[s]] # NoItem
              /\ answer[v][s] <= session[v][s].min
              /\ session[v][s].min <= section[v][SecOf[s]].min

(* The only caller of a server finds what it left there: nobody enters a   *)
(* section or a session between its looks, and none is being loaded.       *)
Alone(p) ==
    /\ pc[p].at = "idle" \/ loading[Home[p]] = {}
    /\ pc[p].at \in {"alloc", "check", "insert"} => SecItem(p) = NoItem
    /\ pc[p].at \in {"check", "insert"} =>
          /\ pc[p].min <= FreeSeq(SecOf[pc[p].sid])
          /\ \A s \in SeqSids : SecOf[s] = SecOf[pc[p].sid] => answer[Home[p]][s] <= pc[p].min
    /\ pc[p].at \in {"query", "find", "scheck", "sinsert"} => SecItem(p) # NoItem
    /\ pc[p].at \in {"find", "scheck", "sinsert"} => SessItem(p) = NoItem
    /\ pc[p].at \in {"scheck", "sinsert"} =>
          answer[Home[p]][pc[p].sid] <= pc[p].min /\ pc[p].min <= SecItem(p).min

OrderInv ==
    \A v \in Servers : OneCaller(v) =>
        Ordered(v) /\ \A p \in Callers : Home[p] = v => Alone(p)

(* MySQL's next number of a section never falls, not even by a reservation *)
(* that fails half way or whose COMMIT is lost.                            *)
LEMMA FreeUp ==
    ASSUME SeqTypeOK, [SeqNext]_seqVars, NEW c \in Secs
    PROVE  FreeSeq(c) \in Nat /\ FreeSeq(c)' \in Nat /\ FreeSeq(c) <= FreeSeq(c)'
  <1>1. FreeSeq(c) \in Nat
    BY AllocTyped
  <1>2. ASSUME UNCHANGED seq_gen
        PROVE  FreeSeq(c) <= FreeSeq(c)' /\ FreeSeq(c)' \in Nat
    <2>1. FreeSeq(c)' = FreeSeq(c)
      BY <1>2 DEF FreeSeq
    <2> QED BY <1>1, <2>1
  <1>3. ASSUME NEW d \in Secs, seq_gen' = [seq_gen EXCEPT ![d] = FreeSeq(d) + SeqStep]
        PROVE  FreeSeq(c) <= FreeSeq(c)' /\ FreeSeq(c)' \in Nat
    BY <1>3 DEF FreeSeq, SeqTypeOK, SeqBase, SeqStep
  <1>4. ASSUME NEW d \in Secs, seq_gen' = [seq_gen EXCEPT ![d] = FreeSeq(d)]
        PROVE  FreeSeq(c) <= FreeSeq(c)' /\ FreeSeq(c)' \in Nat
    BY <1>4 DEF FreeSeq, SeqTypeOK, SeqBase
  <1>5. ASSUME NEW p \in Callers, CallStep(p)
        PROVE  \/ UNCHANGED seq_gen
               \/ \E d \in Secs : seq_gen' = [seq_gen EXCEPT ![d] = FreeSeq(d) + SeqStep]
               \/ \E d \in Secs : seq_gen' = [seq_gen EXCEPT ![d] = FreeSeq(d)]
    <2>1. SecOf[pc[p].sid] \in Secs
      BY Fields
    <2>2. CASE SectionAlloc(p) BY <2>1, <2>2 DEF SectionAlloc, alloc_seq_from_db
    <2>3. CASE SectionAllocFails(p) BY <2>1, <2>3 DEF SectionAllocFails
    <2>4. CASE ~SectionAlloc(p) /\ ~SectionAllocFails(p)
      BY <1>5, <2>4 DEF CallStep, QuerySeqBySid, section_add, SectionCheck, SectionInsert,
         query_seq_by_sid, SessionUnknown, section_find, SessionCheck, SessionInsert, dbVars
    <2> QED BY <2>2, <2>3, <2>4
  <1>6. ASSUME NEW v \in Servers,
               Crash(v) \/ \E d \in Secs : load_seq_from_db(v, d) \/ LoadFails(v, d)
        PROVE  \/ UNCHANGED seq_gen
               \/ \E d \in Secs : seq_gen' = [seq_gen EXCEPT ![d] = FreeSeq(d) + SeqStep]
    BY <1>6 DEF Crash, load_seq_from_db, alloc_seq_from_db, LoadFails, dbVars
  <1>7. ASSUME NEW g \in Gens, alloc_sid(g) PROVE UNCHANGED seq_gen
    BY <1>7 DEF alloc_sid
  <1>8. UNCHANGED seqVars => UNCHANGED seq_gen
    BY DEF seqVars, dbVars
  <1> QED BY <1>1, <1>2, <1>3, <1>4, <1>5, <1>6, <1>7, <1>8 DEF SeqNext

(* What is compared are numbers.                                           *)
LEMMA Numbers ==
    ASSUME SeqTypeOK, NEW v \in Servers, NEW s \in SeqSids
    PROVE  /\ SecOf[s] \in Secs /\ answer[v][s] \in Nat
           /\ section[v][SecOf[s]].min \in Nat /\ session[v][s].min \in Nat
  BY SeqSvrAssumption DEF SeqTypeOK, Spans

Sane(v) == Ordered(v) /\ \A p \in Callers : Home[p] = v => Alone(p)

(* A server nobody touches stays in order: MySQL's numbers only grow.      *)
LEMMA Untouched ==
    ASSUME SeqTypeOK, [SeqNext]_seqVars, NEW v \in Servers, Sane(v),
           section'[v] = section[v], session'[v] = session[v], answer'[v] = answer[v],
           loading'[v] = loading[v], \A p \in Callers : Home[p] = v => pc'[p] = pc[p]
    PROVE  Sane(v)'
  <1>1. Ordered(v)'
    <2> SUFFICES ASSUME NEW s \in SeqSids
                 PROVE  /\ answer[v][s] <= FreeSeq(SecOf[s])'
                        /\ section[v][SecOf[s]].min <= FreeSeq(SecOf[s])'
                        /\ section[v][SecOf[s]] # NoItem => answer[v][s] <= section[v][SecOf[s]].min
                        /\ session[v][s] # NoItem =>
                              /\ section[v][SecOf[s]] # NoItem
                              /\ answer[v][s] <= session[v][s].min
                              /\ session[v][s].min <= section[v][SecOf[s]].min
      BY DEF Ordered, FreeSeq
    <2> QED BY Numbers, FreeUp DEF Sane, Ordered
  <1>2. ASSUME NEW p \in Callers, Home[p] = v PROVE Alone(p)'
    <2>1. Alone(p) /\ pc'[p] = pc[p]
      BY <1>2 DEF Sane
    <2>2. SecItem(p)' = SecItem(p) /\ SessItem(p)' = SessItem(p)
      BY <1>2, <2>1 DEF SecItem, SessItem
    <2>3. PICK c \in Secs : c = SecOf[pc[p].sid]
      BY Fields
    <2>4. c = SecOf[pc'[p].sid] /\ (pc[p].min <= FreeSeq(c) => pc[p].min <= FreeSeq(c)')
      BY <2>1, <2>3, Fields, FreeUp
    <2> QED BY <1>2, <2>1, <2>2, <2>3, <2>4 DEF Alone
  <1> QED BY <1>1, <1>2 DEF Sane

(* The steps of a goroutine leave the other servers alone.                 *)
LEMMA Elsewhere ==
    ASSUME SeqTypeOK, [SeqNext]_seqVars, NEW v \in Servers, Sane(v), NEW p \in Callers, Home[p] # v, CallStep(p)
    PROVE  Sane(v)'
  <1>1. \A q \in Callers : Home[q] = v => pc'[q] = pc[q]
    <2>1. \E f : pc' = [pc EXCEPT ![p] = f]
      BY DEF CallStep, QuerySeqBySid, section_add, SectionAlloc, SectionAllocFails, SectionCheck,
             SectionInsert, query_seq_by_sid, SessionUnknown, section_find, SessionCheck,
             SessionInsert, Go, Return
    <2> QED BY <2>1 DEF SeqTypeOK
  <1>2. loading' = loading
    BY DEF CallStep, QuerySeqBySid, section_add, SectionAlloc, SectionAllocFails, SectionCheck,
           SectionInsert, query_seq_by_sid, SessionUnknown, section_find, SessionCheck,
           SessionInsert
  <1>3. section' = section \/ \E f : section' = [section EXCEPT ![Home[p]] = f]
    BY DEF CallStep, QuerySeqBySid, section_add, SectionAlloc, SectionAllocFails, SectionCheck,
           SectionInsert, query_seq_by_sid, SessionUnknown, section_find, SessionCheck,
           SessionInsert, SetSection, cacheVars
  <1>4. session' = session \/ \E f : session' = [session EXCEPT ![Home[p]] = f]
    BY DEF CallStep, QuerySeqBySid, section_add, SectionAlloc, SectionAllocFails, SectionCheck,
           SectionInsert, query_seq_by_sid, SessionUnknown, section_find, SessionCheck,
           SessionInsert, SetSession, cacheVars
  <1>5. answer' = answer \/ \E f : answer' = [answer EXCEPT ![Home[p]] = f]
    BY DEF CallStep, QuerySeqBySid, section_add, SectionAlloc, SectionAllocFails, SectionCheck,
           SectionInsert, query_seq_by_sid, SessionUnknown, section_find, SessionCheck,
           SessionInsert
  <1>6. section'[v] = section[v] /\ session'[v] = session[v] /\ answer'[v] = answer[v]
    BY <1>3, <1>4, <1>5 DEF SeqTypeOK
  <1> QED BY <1>1, <1>2, <1>6, Untouched

(* A step that only moves a goroutine leaves the order as it is.           *)
LEMMA OrderKept ==
    ASSUME SeqTypeOK, [SeqNext]_seqVars, NEW v \in Servers, Ordered(v),
           section'[v] = section[v], session'[v] = session[v], answer'[v] = answer[v]
    PROVE  Ordered(v)'
  <1> SUFFICES ASSUME NEW s \in SeqSids
               PROVE  /\ answer[v][s] <= FreeSeq(SecOf[s])'
                      /\ section[v][SecOf[s]].min <= FreeSeq(SecOf[s])'
                      /\ section[v][SecOf[s]] # NoItem => answer[v][s] <= section[v][SecOf[s]].min
                      /\ session[v][s] # NoItem =>
                            /\ section[v][SecOf[s]] # NoItem
                            /\ answer[v][s] <= session[v][s].min
                            /\ session[v][s].min <= section[v][SecOf[s]].min
    BY DEF Ordered, FreeSeq
  <1> QED BY Numbers, FreeUp DEF Ordered

LEMMA OnlyOne ==
    ASSUME NEW v \in Servers, OneCaller(v), NEW p \in Callers, Home[p] = v, Ordered(v)', Alone(p)'
    PROVE  Sane(v)'
  BY DEF OneCaller, Sane

(* The steps of a server's only goroutine.                                 *)
LEMMA OwnMove ==
    ASSUME SeqTypeOK, [SeqNext]_seqVars, NEW v \in Servers, OneCaller(v), Sane(v),
           NEW p \in Callers, Home[p] = v,
           (\E s \in SeqSids : QuerySeqBySid(p, s)) \/ section_add(p) \/ SectionAllocFails(p)
           \/ SessionUnknown(p)
    PROVE  Sane(v)'
  <1> USE DEF dbVars, cacheVars, Return
  <1>0. Alone(p) /\ Ordered(v)
    BY DEF Sane
  <1>1. UNCHANGED <<loading, section, session, answer>>
    BY DEF QuerySeqBySid, section_add, SectionAllocFails, SessionUnknown
  <1>2. Ordered(v)'
    BY <1>0, <1>1, OrderKept
  <1>3. ASSUME NEW s \in SeqSids, QuerySeqBySid(p, s) PROVE Alone(p)'
    <2>1. pc'[p].at = "add" /\ loading'[v] = {}
      BY <1>1, <1>3, FrameValues DEF QuerySeqBySid
    <2> QED BY <2>1 DEF Alone
  <1>4. ASSUME section_add(p) PROVE Alone(p)'
    <2>1. /\ pc'[p].at = IF SecItem(p) = NoItem THEN "alloc" ELSE "query"
          /\ pc[p].at = "add" /\ pc'[p].sid = pc[p].sid
      BY <1>4, GoValues DEF section_add, CallAt
    <2>2. SecItem(p)' = SecItem(p)
      BY <1>1, <2>1 DEF SecItem
    <2> QED BY <1>0, <1>1, <2>1, <2>2 DEF Alone
  <1>5. ASSUME SectionAllocFails(p) PROVE Alone(p)'
    <2>1. pc'[p].at = "idle"
      BY <1>5, GoValues DEF SectionAllocFails
    <2> QED BY <2>1 DEF Alone
  <1>6. ASSUME SessionUnknown(p) PROVE Alone(p)'
    <2>1. pc'[p].at = "find" /\ pc[p].at = "query" /\ pc'[p].sid = pc[p].sid /\ SessItem(p) = NoItem
      BY <1>6, GoValues DEF SessionUnknown, CallAt
    <2>2. SecItem(p)' = SecItem(p) /\ SessItem(p)' = SessItem(p)
      BY <1>1, <2>1 DEF SecItem, SessItem
    <2> QED BY <1>0, <1>1, <2>1, <2>2 DEF Alone
  <1> QED BY <1>2, <1>3, <1>4, <1>5, <1>6, OnlyOne

LEMMA OwnAlloc ==
    ASSUME SeqTypeOK, [SeqNext]_seqVars, NEW v \in Servers, OneCaller(v), Sane(v),
           NEW p \in Callers, Home[p] = v, SectionAlloc(p)
    PROVE  Sane(v)'
  <1> USE DEF dbVars, cacheVars
  <1>0. Alone(p) /\ Ordered(v)
    BY DEF Sane
  <1>1. UNCHANGED <<loading, section, session, answer>> /\ pc[p].at = "alloc"
    BY DEF SectionAlloc, CallAt
  <1>2. Ordered(v)'
    BY <1>0, <1>1, OrderKept
  <1>3. PICK c \in Secs : c = SecOf[pc[p].sid]
    BY Fields
  <1>4. pc'[p].at = "check" /\ pc'[p].sid = pc[p].sid /\ pc'[p].min = FreeSeq(c)
    <2>1. pc' = [pc EXCEPT ![p] = Frame("check", pc[p].sid, FreeSeq(c), FreeSeq(c) + SeqStep)]
      BY <1>3 DEF SectionAlloc
    <2> QED BY <2>1 DEF Frame, SeqTypeOK
  <1>5. SecItem(p)' = SecItem(p)
    BY <1>1, <1>4 DEF SecItem
  <1>6. FreeSeq(c) <= FreeSeq(c)' /\ c = SecOf[pc'[p].sid]
    BY <1>3, <1>4, FreeUp
  <1>7. \A s \in SeqSids : SecOf[s] = c => answer'[v][s] <= FreeSeq(c)
    BY <1>0, <1>1 DEF Ordered
  <1>8. Alone(p)'
    BY <1>0, <1>1, <1>4, <1>5, <1>6, <1>7 DEF Alone
  <1> QED BY <1>2, <1>8, OnlyOne

(* SectionCheck finds no section, as before the reservation.               *)
LEMMA OwnCheck ==
    ASSUME SeqTypeOK, [SeqNext]_seqVars, NEW v \in Servers, OneCaller(v), Sane(v),
           NEW p \in Callers, Home[p] = v, SectionCheck(p)
    PROVE  Sane(v)'
  <1> USE DEF dbVars, cacheVars
  <1>0. Alone(p) /\ Ordered(v)
    BY DEF Sane
  <1>1. pc[p].at = "check" /\ SecItem(p) = NoItem
    BY <1>0 DEF SectionCheck, CallAt, Alone
  <1>2. UNCHANGED <<seq_gen, loading, section, session, answer>> /\ Go(p, "insert")
    BY <1>1 DEF SectionCheck
  <1>3. Ordered(v)'
    BY <1>0, <1>2, OrderKept
  <1>4. pc'[p].at = "insert" /\ pc'[p].sid = pc[p].sid /\ pc'[p].min = pc[p].min
    BY <1>2, GoValues
  <1>5. PICK c \in Secs : c = SecOf[pc[p].sid]
    BY Fields
  <1>6. c = SecOf[pc'[p].sid] /\ FreeSeq(c)' = FreeSeq(c) /\ SecItem(p)' = SecItem(p)
    BY <1>2, <1>4, <1>5 DEF FreeSeq, SecItem
  <1>7. Alone(p)'
    BY <1>0, <1>1, <1>2, <1>4, <1>5, <1>6 DEF Alone
  <1> QED BY <1>3, <1>7, OnlyOne

(* SectionInsert enters a range that starts above what was answered; there *)
(* is no session of the section yet.                                       *)
LEMMA OwnInsert ==
    ASSUME SeqTypeOK, Shape, [SeqNext]_seqVars, NEW v \in Servers, OneCaller(v), Sane(v),
           NEW p \in Callers, Home[p] = v, SectionInsert(p)
    PROVE  Sane(v)'
  <1> USE DEF dbVars, cacheVars
  <1>0. Alone(p) /\ Ordered(v)
    BY DEF Sane
  <1>1. pc[p].at = "insert" /\ Go(p, "add") /\ UNCHANGED <<seq_gen, loading, session, answer>>
    BY DEF SectionInsert, CallAt
  <1>2. PICK c \in Secs : c = SecOf[pc[p].sid]
    BY Fields
  <1>3. /\ section[v][c] = NoItem /\ pc[p].min <= FreeSeq(c)
        /\ \A s \in SeqSids : SecOf[s] = c => answer[v][s] <= pc[p].min
    BY <1>0, <1>1, <1>2 DEF Alone, SecItem
  <1>4. PICK item \in Spans : item = Span(pc[p].min, pc[p].max)
    BY Fields, Built
  <1>5. item.min = pc[p].min /\ item # NoItem
    <2>1. pc[p].min < pc[p].max
      BY <1>1 DEF Shape, Proper
    <2> QED BY <1>4, <2>1, Fields, Built, ProperIsItem
  <1>6. \A d \in Secs : section'[v][d] = IF d = c THEN item ELSE section[v][d]
    <2>1. SetSection(v, c, item)
      BY <1>2, <1>4 DEF SectionInsert
    <2> HIDE DEF dbVars, cacheVars
    <2>2. \A w \in Servers, d \in Secs :
             section'[w][d] = IF w = v /\ d = c THEN item ELSE section[w][d]
      BY ONLY SeqTypeOK, v \in Servers, c \in Secs, <2>1, SetValues
    <2> QED BY ONLY v \in Servers, <2>2
  <1>7. Ordered(v)'
    <2> SUFFICES ASSUME NEW s \in SeqSids, NEW d \in Secs, d = SecOf[s]
                 PROVE  /\ answer[v][s] <= FreeSeq(d)
                        /\ section'[v][d].min <= FreeSeq(d)
                        /\ section'[v][d] # NoItem => answer[v][s] <= section'[v][d].min
                        /\ session[v][s] # NoItem =>
                              /\ section'[v][d] # NoItem
                              /\ answer[v][s] <= session[v][s].min
                              /\ session[v][s].min <= section'[v][d].min
      BY <1>1, Numbers DEF Ordered, FreeSeq
    <2>1. CASE d = c BY <1>0, <1>3, <1>5, <1>6, <2>1 DEF Ordered
    <2>2. CASE d # c BY <1>0, <1>6, <2>2 DEF Ordered
    <2> QED BY <2>1, <2>2
  <1>8. pc'[p].at = "add" /\ loading'[v] = {}
    BY <1>0, <1>1, GoValues DEF Alone
  <1>9. Alone(p)'
    BY <1>8 DEF Alone
  <1> QED BY <1>7, <1>9, OnlyOne

(* query_seq_by_sid answers with the session's number.                     *)
LEMMA OwnQuery ==
    ASSUME SeqTypeOK, [SeqNext]_seqVars, NEW v \in Servers, OneCaller(v), Sane(v),
           NEW p \in Callers, Home[p] = v, query_seq_by_sid(p)
    PROVE  Sane(v)' /\ \A s \in SeqSids : answer'[v][s] >= answer[v][s]
  <1> USE DEF dbVars, cacheVars, Return
  <1>0. Alone(p) /\ Ordered(v)
    BY DEF Sane
  <1>1. Go(p, "idle") /\ UNCHANGED <<seq_gen, loading, section, session>>
    BY DEF query_seq_by_sid
  <1>2. PICK t \in SeqSids : t = pc[p].sid
    BY Fields
  <1>3. session[v][t] # NoItem
    BY <1>2 DEF query_seq_by_sid, SessItem
  <1>4. answer' = [answer EXCEPT ![v] = [answer[v] EXCEPT ![t] = session[v][t].min]]
    BY <1>2 DEF query_seq_by_sid, SessItem
  <1>5. \A s \in SeqSids : answer'[v][s] = IF s = t THEN session[v][t].min ELSE answer[v][s]
    BY <1>4 DEF SeqTypeOK
  <1>6. \A s \in SeqSids : answer'[v][s] >= answer[v][s]
    BY <1>0, <1>2, <1>3, <1>5, Numbers DEF Ordered
  <1>7. Ordered(v)'
    <2> SUFFICES ASSUME NEW s \in SeqSids, NEW d \in Secs, d = SecOf[s]
                 PROVE  /\ answer'[v][s] <= FreeSeq(d)
                        /\ section[v][d].min <= FreeSeq(d)
                        /\ section[v][d] # NoItem => answer'[v][s] <= section[v][d].min
                        /\ session[v][s] # NoItem =>
                              /\ section[v][d] # NoItem
                              /\ answer'[v][s] <= session[v][s].min
                              /\ session[v][s].min <= section[v][d].min
      BY <1>1, Numbers DEF Ordered, FreeSeq
    <2>1. FreeSeq(d) \in Nat
      BY AllocTyped
    <2>2. CASE s = t BY <1>0, <1>3, <1>5, <2>1, <2>2, Numbers DEF Ordered
    <2>3. CASE s # t BY <1>0, <1>5, <2>3 DEF Ordered
    <2> QED BY <2>2, <2>3
  <1>8. pc'[p].at = "idle"
    BY <1>1, GoValues
  <1>9. Alone(p)'
    BY <1>8 DEF Alone
  <1> QED BY <1>6, <1>7, <1>9, OnlyOne

(* section_find takes the section's range along.                           *)
LEMMA OwnFind ==
    ASSUME SeqTypeOK, [SeqNext]_seqVars, NEW v \in Servers, OneCaller(v), Sane(v),
           NEW p \in Callers, Home[p] = v, section_find(p)
    PROVE  Sane(v)'
  <1> USE DEF dbVars, cacheVars
  <1>0. Alone(p) /\ Ordered(v)
    BY DEF Sane
  <1>1. pc[p].at = "find" /\ SecItem(p) # NoItem /\ UNCHANGED <<loading, section, session, answer>>
    BY DEF section_find, CallAt
  <1>2. Ordered(v)'
    BY <1>0, <1>1, OrderKept
  <1>3. pc'[p].at = "scheck" /\ pc'[p].sid = pc[p].sid /\ pc'[p].min = SecItem(p).min
    BY DEF section_find, Frame, SeqTypeOK
  <1>4. SecItem(p)' = SecItem(p) /\ SessItem(p)' = SessItem(p)
    BY <1>1, <1>3 DEF SecItem, SessItem
  <1>5. PICK t \in SeqSids : t = pc[p].sid
    BY Fields
  <1>6. answer'[v][t] <= SecItem(p).min
    BY <1>0, <1>1, <1>5 DEF Ordered, SecItem
  <1>7. SecItem(p).min <= SecItem(p).min
    BY Fields
  <1>8. Alone(p)'
    BY <1>0, <1>1, <1>3, <1>4, <1>5, <1>6, <1>7 DEF Alone
  <1> QED BY <1>2, <1>8, OnlyOne

(* SessionCheck finds no session, as before section_find.                  *)
LEMMA OwnSessionCheck ==
    ASSUME SeqTypeOK, [SeqNext]_seqVars, NEW v \in Servers, OneCaller(v), Sane(v),
           NEW p \in Callers, Home[p] = v, SessionCheck(p)
    PROVE  Sane(v)'
  <1> USE DEF dbVars, cacheVars
  <1>0. Alone(p) /\ Ordered(v)
    BY DEF Sane
  <1>1. pc[p].at = "scheck" /\ SessItem(p) = NoItem
    BY <1>0 DEF SessionCheck, CallAt, Alone
  <1>2. UNCHANGED <<loading, section, session, answer>> /\ Go(p, "sinsert")
    BY <1>1 DEF SessionCheck
  <1>3. Ordered(v)'
    BY <1>0, <1>2, OrderKept
  <1>4. pc'[p].at = "sinsert" /\ pc'[p].sid = pc[p].sid /\ pc'[p].min = pc[p].min
    BY <1>2, GoValues
  <1>5. SecItem(p)' = SecItem(p) /\ SessItem(p)' = SessItem(p)
    BY <1>2, <1>4 DEF SecItem, SessItem
  <1>6. Alone(p)'
    BY <1>0, <1>1, <1>2, <1>4, <1>5 DEF Alone
  <1> QED BY <1>3, <1>6, OnlyOne

LEMMA OwnSessionInsert ==
    ASSUME SeqTypeOK, [SeqNext]_seqVars, NEW v \in Servers, OneCaller(v), Sane(v),
           NEW p \in Callers, Home[p] = v, SessionInsert(p)
    PROVE  Sane(v)'
  <1> USE DEF dbVars, cacheVars
  <1>0. Alone(p) /\ Ordered(v)
    BY DEF Sane
  <1>1. pc[p].at = "sinsert" /\ Go(p, "query") /\ UNCHANGED <<seq_gen, loading, section, answer>>
    BY DEF SessionInsert, CallAt
  <1>2. PICK t \in SeqSids : t = pc[p].sid
    BY Fields
  <1>3. PICK item \in Spans : item = Span(pc[p].min, pc[p].max)
    BY Fields, Built
  <1>4. item.min = pc[p].min
    BY <1>3, Built
  <1>5. \A s \in SeqSids : session'[v][s] = IF s = t THEN item ELSE session[v][s]
    <2>1. SetSession(v, t, item)
      BY <1>2, <1>3 DEF SessionInsert
    <2> QED BY <2>1, SetValues
  <1>6. /\ section[v][SecOf[t]] # NoItem /\ answer[v][t] <= pc[p].min
        /\ pc[p].min <= section[v][SecOf[t]].min
    BY <1>0, <1>1, <1>2 DEF Alone, SecItem
  <1>7. Ordered(v)'
    <2> SUFFICES ASSUME NEW s \in SeqSids, NEW d \in Secs, d = SecOf[s]
                 PROVE  /\ answer[v][s] <= FreeSeq(d)
                        /\ section[v][d].min <= FreeSeq(d)
                        /\ section[v][d] # NoItem => answer[v][s] <= section[v][d].min
                        /\ session'[v][s] # NoItem =>
                              /\ section[v][d] # NoItem
                              /\ answer[v][s] <= session'[v][s].min
                              /\ session'[v][s].min <= section[v][d].min
      BY <1>1, Numbers DEF Ordered, FreeSeq
    <2>1. CASE s = t BY <1>0, <1>4, <1>5, <1>6, <2>1 DEF Ordered
    <2>2. CASE s # t BY <1>0, <1>5, <2>2 DEF Ordered
    <2> QED BY <2>1, <2>2
  <1>8. pc'[p].at = "query" /\ pc'[p].sid = pc[p].sid
    BY <1>1, GoValues
  <1>9. Alone(p)'
    BY <1>0, <1>1, <1>8 DEF Alone, SecItem
  <1> QED BY <1>7, <1>9, OnlyOne

(* A restart forgets the cache, and loads ranges above all that was given. *)
LEMMA OrderCrash ==
    ASSUME SeqTypeOK, [SeqNext]_seqVars, NEW v \in Servers, Sane(v), Crash(v)
    PROVE  Sane(v)'
  <1> USE DEF dbVars
  <1>1. UNCHANGED <<seq_gen, answer>>
    BY DEF Crash
  <1>2. /\ \A c \in Secs : section'[v][c] = NoItem
        /\ \A s \in SeqSids : session'[v][s] = NoItem
    BY DEF Crash, SeqTypeOK
  <1>3. Ordered(v)'
    <2> SUFFICES ASSUME NEW s \in SeqSids, NEW d \in Secs, d = SecOf[s]
                 PROVE  /\ answer[v][s] <= FreeSeq(d)
                        /\ section'[v][d].min <= FreeSeq(d)
                        /\ section'[v][d] = NoItem /\ session'[v][s] = NoItem
      BY <1>1, Numbers DEF Ordered, FreeSeq
    <2>1. FreeSeq(d) \in Nat
      BY AllocTyped
    <2> QED BY <1>2, <2>1, Built DEF Sane, Ordered
  <1>4. ASSUME NEW p \in Callers, Home[p] = v PROVE Alone(p)'
    <2>1. pc'[p].at = "idle"
      BY <1>4, Built DEF Crash
    <2> QED BY <2>1 DEF Alone
  <1> QED BY <1>3, <1>4 DEF Sane

(* While sections are loaded no call is served.                            *)
LEMMA OrderLoad ==
    ASSUME SeqTypeOK, [SeqNext]_seqVars, NEW v \in Servers, Sane(v), NEW c \in Secs, load_seq_from_db(v, c)
    PROVE  Sane(v)'
  <1>1. /\ c \in loading[v] /\ UNCHANGED <<session, pc, answer>>
        /\ SetSection(v, c, Span(FreeSeq(c), FreeSeq(c) + SeqStep))
    BY DEF load_seq_from_db
  <1>2. \A d \in Secs : section'[v][d] = IF d = c THEN Span(FreeSeq(c), FreeSeq(c) + SeqStep)
                                                  ELSE section[v][d]
    BY <1>1, SetValues
  <1>3. PICK item : item = Span(FreeSeq(c), FreeSeq(c) + SeqStep)
    OBVIOUS
  <1>4. FreeSeq(c) \in Nat /\ item.min = FreeSeq(c) /\ item # NoItem
    <2>1. FreeSeq(c) \in Nat /\ FreeSeq(c) + SeqStep \in Nat /\ FreeSeq(c) < FreeSeq(c) + SeqStep
      BY AllocTyped DEF SeqStep
    <2> QED BY <1>3, <2>1, Built, ProperIsItem
  <1>5. Ordered(v)'
    <2> SUFFICES ASSUME NEW s \in SeqSids, NEW d \in Secs, d = SecOf[s]
                 PROVE  /\ answer[v][s] <= FreeSeq(d)'
                        /\ section'[v][d].min <= FreeSeq(d)'
                        /\ section'[v][d] # NoItem => answer[v][s] <= section'[v][d].min
                        /\ session[v][s] # NoItem =>
                              /\ section'[v][d] # NoItem
                              /\ answer[v][s] <= session[v][s].min
                              /\ session[v][s].min <= section'[v][d].min
      BY <1>1, Numbers DEF Ordered, FreeSeq
    <2>1. FreeSeq(d) \in Nat /\ FreeSeq(d)' \in Nat /\ FreeSeq(d) <= FreeSeq(d)'
      BY FreeUp
    <2>2. /\ answer[v][s] \in Nat /\ section[v][d].min \in Nat /\ session[v][s].min \in Nat
          /\ answer[v][s] <= FreeSeq(d) /\ section[v][d].min <= FreeSeq(d)
          /\ section[v][d] # NoItem => answer[v][s] <= section[v][d].min
          /\ session[v][s] # NoItem =>
                /\ section[v][d] # NoItem
                /\ answer[v][s] <= session[v][s].min
                /\ session[v][s].min <= section[v][d].min
      BY Numbers DEF Sane, Ordered
    <2>3. CASE d = c BY <1>2, <1>3, <1>4, <2>1, <2>2, <2>3
    <2>4. CASE d # c BY <1>2, <2>1, <2>2, <2>4
    <2> QED BY <2>3, <2>4
  <1>6. ASSUME NEW p \in Callers, Home[p] = v PROVE Alone(p)'
    <2>1. pc[p].at = "idle"
      BY <1>1, <1>6 DEF Sane, Alone
    <2> QED BY <1>1, <2>1 DEF Alone
  <1> QED BY <1>5, <1>6 DEF Sane

LEMMA OrderLoadFails ==
    ASSUME SeqTypeOK, [SeqNext]_seqVars, NEW v \in Servers, Sane(v), NEW c \in Secs, LoadFails(v, c)
    PROVE  Sane(v)'
  <1> USE DEF dbVars, cacheVars
  <1>1. c \in loading[v] /\ UNCHANGED <<section, session, pc, answer>>
    BY DEF LoadFails
  <1>2. Ordered(v)'
    BY <1>1, OrderKept DEF Sane
  <1>3. ASSUME NEW p \in Callers, Home[p] = v PROVE Alone(p)'
    <2>1. pc[p].at = "idle"
      BY <1>1, <1>3 DEF Sane, Alone
    <2> QED BY <1>1, <2>1 DEF Alone
  <1> QED BY <1>2, <1>3 DEF Sane

(* A restart or the loading of another server.                             *)
LEMMA OtherServer ==
    ASSUME SeqTypeOK, [SeqNext]_seqVars, NEW v \in Servers, Sane(v), NEW w \in Servers, w # v,
           Crash(w) \/ \E c \in Secs : load_seq_from_db(w, c) \/ LoadFails(w, c)
    PROVE  Sane(v)'
  <1>1. CASE Crash(w)
    <2>1. section'[v] = section[v] /\ session'[v] = session[v] /\ loading'[v] = loading[v]
          /\ answer'[v] = answer[v]
      BY <1>1 DEF Crash, SeqTypeOK
    <2>2. \A p \in Callers : Home[p] = v => pc'[p] = pc[p]
      BY <1>1 DEF Crash
    <2> QED BY <2>1, <2>2, Untouched
  <1>2. ASSUME NEW c \in Secs, load_seq_from_db(w, c) PROVE Sane(v)'
    <2>1. section'[v] = section[v] /\ session'[v] = session[v] /\ loading'[v] = loading[v]
          /\ answer'[v] = answer[v] /\ pc' = pc
      BY <1>2 DEF load_seq_from_db, SetSection, SeqTypeOK
    <2> QED BY <2>1, Untouched
  <1>3. ASSUME NEW c \in Secs, LoadFails(w, c) PROVE Sane(v)'
    <2>1. section'[v] = section[v] /\ session'[v] = session[v] /\ loading'[v] = loading[v]
          /\ answer'[v] = answer[v] /\ pc' = pc
      BY <1>3 DEF LoadFails, cacheVars, SeqTypeOK
    <2> QED BY <2>1, Untouched
  <1> QED BY <1>1, <1>2, <1>3

LEMMA OrderStep == SeqTypeOK /\ Shape /\ OrderInv /\ [SeqNext]_seqVars => OrderInv'
  <1> SUFFICES ASSUME SeqTypeOK, Shape, OrderInv, [SeqNext]_seqVars, NEW v \in Servers, OneCaller(v)
               PROVE  Sane(v)'
    BY DEF OrderInv, Sane
  <1>1. Sane(v)
    BY DEF OrderInv, Sane
  <1>2. ASSUME NEW p \in Callers, CallStep(p) PROVE Sane(v)'
    <2>1. CASE Home[p] # v BY <1>1, <1>2, <2>1, Elsewhere
    <2>2. CASE Home[p] = v
      BY <1>1, <1>2, <2>2, OwnMove, OwnAlloc, OwnCheck, OwnInsert, OwnQuery, OwnFind,
         OwnSessionCheck, OwnSessionInsert DEF CallStep
    <2> QED BY <2>1, <2>2
  <1>3. ASSUME NEW w \in Servers,
               Crash(w) \/ \E c \in Secs : load_seq_from_db(w, c) \/ LoadFails(w, c)
        PROVE  Sane(v)'
    <2>1. CASE w # v BY <1>1, <1>3, <2>1, OtherServer
    <2>2. CASE w = v BY <1>1, <1>3, <2>2, OrderCrash, OrderLoad, OrderLoadFails
    <2> QED BY <2>1, <2>2
  <1>4. ASSUME NEW g \in Gens, alloc_sid(g) PROVE Sane(v)'
    BY <1>1, <1>4, Untouched DEF alloc_sid, cacheVars
  <1>5. CASE UNCHANGED seqVars
    BY <1>1, <1>5, Untouched DEF seqVars, cacheVars
  <1> QED BY <1>2, <1>3, <1>4, <1>5 DEF SeqNext

LEMMA OrderInit == SeqInit => OrderInv
  <1> SUFFICES ASSUME SeqInit, NEW v \in Servers PROVE Sane(v)
    BY DEF OrderInv, Sane
  <1>1. \A p \in Callers : pc[p].at = "idle"
    BY DEF SeqInit, Frame
  <1>2. SeqTypeOK
    BY TypeInit
  <1>3. Ordered(v)
    <2> SUFFICES ASSUME NEW s \in SeqSids, NEW d \in Secs, d = SecOf[s]
                 PROVE  /\ answer[v][s] <= FreeSeq(d) /\ section[v][d].min <= FreeSeq(d)
                        /\ section[v][d] = NoItem /\ session[v][s] = NoItem
      BY <1>2, Numbers DEF Ordered
    <2>1. FreeSeq(d) \in Nat
      BY <1>2, AllocTyped
    <2> QED BY <2>1, Built DEF SeqInit
  <1> QED BY <1>1, <1>3 DEF Sane, Alone

(* On a server that serves one call at a time the number given for a SID   *)
(* never falls back, whatever restarts, failed reservations and lost       *)
(* COMMITs there are, and whatever the other servers reserve.              *)
THEOREM NeverBack == SeqSpec => SeqNeverBack
  <1> DEFINE Inv == SeqTypeOK /\ Shape /\ OrderInv
             Up == \A v \in Servers : OneCaller(v) => \A s \in SeqSids : answer'[v][s] >= answer[v][s]
  <1>1. SeqInit => Inv
    <2> SUFFICES ASSUME SeqInit PROVE Inv
      OBVIOUS
    <2>1. \A p \in Callers : pc[p].at = "idle"
      BY DEF SeqInit, Frame
    <2> QED BY <2>1, TypeInit, OrderInit DEF SeqInit, Shape
  <1>2. Inv /\ [SeqNext]_seqVars => Inv'
    BY TypeStep, ShapeStep, OrderStep
  <1>3. Inv /\ [SeqNext]_seqVars => [Up]_seqVars
    <2> SUFFICES ASSUME Inv, [SeqNext]_seqVars, NEW v \in Servers, OneCaller(v), NEW s \in SeqSids
                 PROVE  answer'[v][s] >= answer[v][s]
      OBVIOUS
    <2>1. Sane(v) /\ answer[v][s] \in Nat
      BY Numbers DEF OrderInv, Sane
    <2>2. CASE answer'[v] = answer[v] BY <2>1, <2>2
    <2>3. ASSUME NEW p \in Callers, query_seq_by_sid(p) PROVE answer'[v][s] >= answer[v][s]
      <3>1. CASE Home[p] = v BY <2>1, <2>3, <3>1, OwnQuery
      <3>2. CASE Home[p] # v
        <4>1. answer'[v] = answer[v]
          BY <2>3, <3>2 DEF query_seq_by_sid, SeqTypeOK
        <4> QED BY <2>2, <4>1
      <3> QED BY <3>1, <3>2
    <2>4. ASSUME NEW p \in Callers, CallStep(p), ~query_seq_by_sid(p) PROVE answer' = answer
      BY <2>4 DEF CallStep, QuerySeqBySid, section_add, SectionAlloc, SectionAllocFails, SectionCheck,
         SectionInsert, SessionUnknown, section_find, SessionCheck, SessionInsert
    <2>5. ASSUME NEW w \in Servers,
                 Crash(w) \/ \E c \in Secs : load_seq_from_db(w, c) \/ LoadFails(w, c)
          PROVE  answer' = answer
      BY <2>5 DEF Crash, load_seq_from_db, LoadFails
    <2>6. ASSUME NEW g \in Gens, alloc_sid(g) PROVE answer' = answer
      BY <2>6 DEF alloc_sid
    <2>7. UNCHANGED seqVars => answer' = answer
      BY DEF seqVars
    <2> QED BY <2>2, <2>3, <2>4, <2>5, <2>6, <2>7 DEF SeqNext
  <1>4. SeqNeverBack <=> [][Up]_seqVars
    BY DEF SeqNeverBack
  <1> QED BY <1>1, <1>2, <1>3, <1>4, PTL DEF SeqSpec

=============================================================================
