-------------------------- MODULE RtmqBrokerProofs --------------------------
(***************************************************************************)
(* What holds of the RTMQ broker (RtmqBroker) for any number of            *)
(* connections, nodes, groups, types and receivers, and any limits: the    *)
(* routing tables name connections that are there, receive buffers are     *)
(* counted exactly, no wake-up is lost, and a group gets a message once.   *)
(***************************************************************************)
EXTENDS RtmqBroker, TLAPS, FiniteSetTheorems, SequenceTheorems

Cmds == {"ADD_SCK", "DIST_REQ"}
Pends == {NoPend} \cup ({"query", "insert"} \X Conns)
Items == [mesg : Mesgs, base : Bufs]
Scks == [st : {"new", "queued", "live", "closed"}, rsvr : Nat, nid : Nids \cup {NoNid},
         gid : Gids \cup {0}, auth : BOOLEAN, subs : SUBSET Types, base : Bufs \cup {NoBuf},
         used : Nat, rd : Nat, wr : Nat, peer : BOOLEAN, n : Nat,
         mesg : Seq(Mesgs), iov : Seq(Mesgs), idx : Nat]

\* f has a value of S for every receiver of every context.
Per(f, S) == f = [x \in Ctxs |-> f[x]] /\ \A x \in Ctxs : f[x] \in [Rsvrs(x) -> S]

\* Groups of a type, and types of a context: functions over some of the names.
IsGroups(f) == /\ f = [g \in DOMAIN f |-> f[g]] /\ DOMAIN f \subseteq Gids
               /\ \A g \in DOMAIN f : f[g] \subseteq Conns /\ f[g] # {}
IsTab(f) == /\ f = [t \in DOMAIN f |-> f[t]] /\ DOMAIN f \subseteq Types
            /\ \A t \in DOMAIN f : IsGroups(f[t])

Typed ==
    /\ script \in Scripts
    /\ conn \in [Conns -> Scks] /\ got \in [Conns -> Seq(Mesgs)]
    /\ lsid \in [Ctxs -> Nat]
    /\ Per(connq, Seq(Conns)) /\ Per(cmd, Seq(Cmds)) /\ Per(sendq, Seq(Mesgs))
    /\ Per(pend, Pends) /\ Per(lost, SUBSET Cmds)
    /\ recvq \in [Ctxs -> [Recvqs -> Seq(Items)]] /\ distq \in [Ctxs -> Seq(Mesgs)]
    /\ map \in [Ctxs -> [Nids -> Seq(Nat)]]
    /\ sub = [x \in Ctxs |-> sub[x]] /\ \A x \in Ctxs : IsTab(sub[x])
    /\ ref \in [Bufs -> Int] /\ aborted \in BOOLEAN

Within ==
    /\ \A c \in Conns : conn[c].idx + Len(conn[c].iov) <= IovMax
    /\ \A x \in Ctxs : /\ Len(distq[x]) <= DistqMax
                       /\ \A q \in Recvqs : Len(recvq[x][q]) <= RecvqMax
                       /\ \A n \in Nids : Len(map[x][n]) <= NodeToSvrMax
                       /\ \A r \in Rsvrs(x) : /\ Len(connq[x][r]) <= ConnqMax
                                             /\ Len(sendq[x][r]) <= SendqMax
                                             /\ Len(cmd[x][r]) <= PipeMax

\* Who belongs to which receiver: a live connection to one of its context, an accepted one is
\* in one connq, and the map names receivers only.
Placed ==
    /\ \A c \in Conns : Live(c) => conn[c].rsvr \in Rsvrs(CtxOf[c])
    /\ \A x \in Ctxs : \A r \in Rsvrs(x) : \A i \in 1 .. Len(connq[x][r]) :
          CtxOf[connq[x][r][i]] = x /\ conn[connq[x][r][i]].st = "queued"
    /\ \A x \in Ctxs : \A r, s \in Rsvrs(x) :
          \A i \in 1 .. Len(connq[x][r]), j \in 1 .. Len(connq[x][s]) :
              connq[x][r][i] = connq[x][s][j] => r = s /\ i = j
    /\ \A x \in Ctxs, n \in Nids : \A i \in 1 .. Len(map[x][n]) : map[x][n][i] \in Rsvrs(x)

\* What a connection is before and after it authenticates.
AuthRight ==
    \A c \in Conns :
        /\ ~Live(c) => conn[c].n = 0 /\ ~conn[c].auth
        /\ conn[c].auth => conn[c].nid = NidOf[c] /\ conn[c].gid = GidOf[c]
        /\ ~conn[c].auth => conn[c].nid = NoNid /\ conn[c].subs = {}
        /\ Live(c) /\ conn[c].n = 0 => c \in Up \/ ~conn[c].auth
        /\ conn[c].n <= Len(script[c])
        /\ Live(c) => conn[c].base \in Bufs

\* A receiver inside rtmq_sub_add is so for a live connection of its own, whose request it has
\* not finished.
PendRight ==
    \A x \in Ctxs : \A r \in Rsvrs(x) : pend[x][r] # NoPend =>
        LET c == pend[x][r][2]
        IN  /\ Live(c) /\ CtxOf[c] = x /\ conn[c].rsvr = r /\ conn[c].auth
            /\ conn[c].n < Len(script[c]) /\ Arriving(c).kind = "SUB_REQ"

\* A type without groups is the one that a receiver has just made, and will look up again.
NewTypes ==
    \A x \in Ctxs : \A t \in DOMAIN sub[x] : DOMAIN sub[x][t] = {} =>
        \E c \in Conns : /\ Live(c) /\ CtxOf[c] = x /\ pend[x][conn[c].rsvr] = <<"query", c>>
                         /\ Arriving(c).type = t

BInv == /\ Typed /\ Within /\ Placed /\ AuthRight /\ PendRight /\ NewTypes
        /\ NoStaleRoute /\ SubsAgree /\ BuffersHeld /\ NoLostWakeup
-----------------------------------------------------------------------------
\* A connection whose request has just made a type of its server.
Asked(x, t, c) ==
    /\ Live(c) /\ CtxOf[c] = x /\ pend[x][conn[c].rsvr] = <<"query", c>>
    /\ Arriving(c).type = t /\ script[c][conn[c].n + 1].type = t

\* A type without groups belongs to the connection whose query is pending.
LEMMA NewTypeOf ==
    ASSUME NewTypes
    PROVE  \A x \in Ctxs : \A t \in DOMAIN sub[x] : DOMAIN sub[x][t] = {} => \E c \in Conns : Asked(x, t, c)
<1>1. ASSUME NEW x \in Ctxs, NEW t \in DOMAIN sub[x], DOMAIN sub[x][t] = {}
      PROVE  \E c \in Conns : Asked(x, t, c)
  <2>1. PICK c \in Conns : /\ Live(c) /\ CtxOf[c] = x /\ pend[x][conn[c].rsvr] = <<"query", c>>
                          /\ Arriving(c).type = t
    BY <1>1, Zenon DEF NewTypes
  <2>2. script[c][conn[c].n + 1].type = t BY <2>1, Zenon DEF Arriving
  <2>3. Asked(x, t, c) BY <2>1, <2>2, Zenon DEF Asked
  <2> QED BY <2>3
<1> QED BY <1>1, Zenon

\* What is to be shown of a receiver that is inside rtmq_sub_add after a step.
LEMMA PendNext ==
    ASSUME \A x \in Ctxs : \A r \in Rsvrs(x) : pend'[x][r] # NoPend => \A c : c = pend'[x][r][2] =>
              /\ Live(c)' /\ CtxOf[c] = x /\ conn'[c].rsvr = r /\ conn'[c].auth
              /\ conn'[c].n < Len(script'[c]) /\ script'[c][conn'[c].n + 1].kind = "SUB_REQ"
    PROVE  PendRight'
BY DEF PendRight, Arriving

\* A step that leaves the queues and the pipes alone loses no wakeup.
LEMMA WakeSame ==
    ASSUME BInv, UNCHANGED <<cmd, lost, sendq, connq>>
    PROVE  NoLostWakeup'
<1>1. NoLostWakeup BY DEF BInv
<1> QED BY <1>1 DEF NoLostWakeup

\* One receiver's entry is replaced.
IsPut(g, f, x, r, v, S) ==
    /\ Per(g, S) /\ g[x][r] = v
    /\ \A y \in Ctxs : \A s \in Rsvrs(y) : y # x \/ s # r => g[y][s] = f[y][s]

LEMMA Put ==
    ASSUME NEW S, NEW f, Per(f, S), NEW x \in Ctxs, NEW r \in Rsvrs(x), NEW v \in S,
           NEW g, g = [f EXCEPT ![x][r] = v]
    PROVE  IsPut(g, f, x, r, v, S)
BY DEF Per, IsPut

LEMMA Get ==
    ASSUME NEW S, NEW f, Per(f, S), NEW x \in Ctxs, NEW r \in Rsvrs(x)
    PROVE  f[x][r] \in S
BY DEF Per

LEMMA Ranges ==
    /\ \A c \in Conns : CtxOf[c] \in Ctxs /\ NidOf[c] \in Nids /\ GidOf[c] \in Gids
    /\ \A x \in Ctxs : /\ RecvThdNum[x] \in Nat \ {0}
                       /\ \A n \in Nat : n % RecvThdNum[x] \in Rsvrs(x)
                       /\ 0 \in Rsvrs(x) /\ \A r \in Rsvrs(x) : r \in Nat
<1>1. \A m \in Nat \ {0} : /\ 0 \in 0 .. m - 1 /\ \A n \in Nat : n % m \in 0 .. m - 1
                            /\ \A r \in 0 .. m - 1 : r \in Nat
  OBVIOUS
<1>2. \A x \in Ctxs : RecvThdNum[x] \in Nat \ {0} BY BrokerAssumption
<1>3. \A x \in Ctxs : Rsvrs(x) = 0 .. RecvThdNum[x] - 1 BY DEF Rsvrs
<1>4. \A c \in Conns : CtxOf[c] \in Ctxs /\ NidOf[c] \in Nids /\ GidOf[c] \in Gids BY BrokerAssumption
<1> QED BY <1>1, <1>2, <1>3, <1>4

LEMMA EmptyIs ==
    /\ IsGroups(<<>>) /\ IsTab(<<>>) /\ DOMAIN <<>> = {}
    /\ \A S : <<>> \in Seq(S) /\ Len(<<>>) = 0
BY DEF IsGroups, IsTab

LEMMA FreshIs ==
    /\ FreshSck \in Scks /\ [FreshSck EXCEPT !.st = "closed"] \in Scks
    /\ FreshSck.st = "new" /\ FreshSck.n = 0 /\ FreshSck.auth = FALSE /\ FreshSck.nid = NoNid
    /\ FreshSck.subs = {} /\ FreshSck.idx = 0 /\ FreshSck.iov = <<>>
<1>1. <<>> \in Seq(Mesgs) OBVIOUS
<1>2. FreshSck \in Scks BY <1>1 DEF FreshSck, Scks
<1>3. \A s \in Scks : [s EXCEPT !.st = "closed"] \in Scks BY DEF Scks
<1>4. /\ FreshSck.st = "new" /\ FreshSck.n = 0 /\ FreshSck.auth = FALSE /\ FreshSck.nid = NoNid
      /\ FreshSck.subs = {} /\ FreshSck.idx = 0 /\ FreshSck.iov = <<>>
  BY DEF FreshSck
<1> QED BY <1>2, <1>3, <1>4

LEMMA ClosedIs ==
    LET e == [FreshSck EXCEPT !.st = "closed"]
    IN  /\ e.st = "closed" /\ e.n = 0 /\ e.auth = FALSE /\ e.nid = NoNid
        /\ e.subs = {} /\ e.idx = 0 /\ e.iov = <<>>
BY DEF FreshSck

LEMMA PendIs ==
    /\ \A c \in Conns : /\ <<"query", c>> \in Pends /\ <<"insert", c>> \in Pends
                        /\ <<"query", c>> # NoPend /\ <<"insert", c>> # NoPend
    /\ \A p \in Pends : p # NoPend => p[1] \in {"query", "insert"} /\ p[2] \in Conns /\ p = <<p[1], p[2]>>
    /\ NoPend \in Pends
    /\ \A c, d : <<"query", c>> # <<"insert", d>>
BY DEF Pends, NoPend
-----------------------------------------------------------------------------
(* node_to_svr_map: what MapAdd and MapDel do to the number of entries.    *)
Entries(l, r) == {i \in DOMAIN l : l[i] = r}

LEMMA EntriesFinite ==
    ASSUME NEW l \in Seq(Nat), NEW r
    PROVE  IsFiniteSet(Entries(l, r)) /\ Cardinality(Entries(l, r)) \in Nat
<1>1. IsFiniteSet(1 .. Len(l)) BY FS_Interval
<1>2. Entries(l, r) \subseteq 1 .. Len(l) BY DEF Entries
<1> QED BY <1>1, <1>2, FS_Subset, FS_CardinalityType

LEMMA EntriesAdd ==
    ASSUME NEW l \in Seq(Nat), NEW r \in Nat, NEW s
    PROVE  /\ Append(l, r) \in Seq(Nat)
           /\ Cardinality(Entries(Append(l, r), s)) = Cardinality(Entries(l, s)) + (IF s = r THEN 1 ELSE 0)
<1> DEFINE e == Len(l) + 1
<1>1. DOMAIN l = 1 .. Len(l) /\ DOMAIN Append(l, r) = 1 .. e /\ e \notin 1 .. Len(l) OBVIOUS
<1>2. \A i \in 1 .. Len(l) : Append(l, r)[i] = l[i] OBVIOUS
<1>3. Append(l, r)[e] = r OBVIOUS
<1>4. 1 .. e = (1 .. Len(l)) \cup {e} OBVIOUS
<1>5. e \notin Entries(l, s) BY <1>1 DEF Entries
<1>6. CASE s = r
  <2>1. Entries(Append(l, r), s) = Entries(l, s) \cup {e}
    BY <1>1, <1>2, <1>3, <1>4, <1>6 DEF Entries
  <2>2. Cardinality(Entries(l, s) \cup {e}) = Cardinality(Entries(l, s)) + 1
    BY <1>5, EntriesFinite, FS_AddElement
  <2> QED BY <2>1, <2>2, <1>6
<1>7. CASE s # r
  <2>1. Entries(Append(l, r), s) = Entries(l, s)
    BY <1>1, <1>2, <1>3, <1>4, <1>7 DEF Entries
  <2> QED BY <2>1, <1>7, EntriesFinite
<1> QED BY <1>6, <1>7

\* An entry overwritten with the last one, which then goes.
LEMMA EntriesDel ==
    ASSUME NEW l \in Seq(Nat), NEW i \in 1 .. Len(l),
           NEW k, k = SubSeq([l EXCEPT ![i] = l[Len(l)]], 1, Len(l) - 1)
    PROVE  /\ k \in Seq(Nat) /\ Len(k) = Len(l) - 1
           /\ \A j \in 1 .. Len(k) : \E h \in 1 .. Len(l) : k[j] = l[h]
           /\ \A s : Cardinality(Entries(k, s)) <= Cardinality(Entries(l, s))
           /\ Cardinality(Entries(k, l[i])) <= Cardinality(Entries(l, l[i])) - 1
<1> DEFINE L == Len(l)
           m == [l EXCEPT ![i] = l[L]]
           g(j) == IF j = i THEN L ELSE j
<1>1. L \in Nat /\ L >= 1 /\ i <= L OBVIOUS
<1>2. m \in Seq(Nat) /\ Len(m) = L OBVIOUS
<1>3. /\ k \in Seq(Nat) /\ Len(k) = L - 1 /\ DOMAIN k = 1 .. L - 1
      /\ \A j \in 1 .. L - 1 : k[j] = m[j]
  <2>1. k = SubSeq(m, 1, L - 1) OBVIOUS
  <2>2. PICK z \in Seq(Nat) : z = m BY <1>2
  <2>3. PICK w \in Nat : w = L BY <1>1
  <2>4. w >= 1 /\ Len(z) = w /\ k = SubSeq(z, 1, w - 1) BY <1>1, <1>2, <2>1, <2>2, <2>3
  <2> HIDE DEF m, L
  <2>5. /\ k \in Seq(Nat) /\ Len(k) = w - 1 /\ DOMAIN k = 1 .. w - 1
        /\ \A j \in 1 .. w - 1 : k[j] = z[j]
    BY ONLY <2>2, <2>3, <2>4
  <2> QED BY <2>2, <2>3, <2>5
<1>4. \A j \in 1 .. L - 1 : g(j) \in 1 .. L /\ k[j] = l[g(j)] BY <1>1, <1>3
<1>5. \A j, h \in 1 .. L - 1 : g(j) = g(h) => j = h BY <1>1
<1>6. \A j \in 1 .. L - 1 : g(j) # i BY <1>1
<1>7. DOMAIN l = 1 .. L OBVIOUS
<1> HIDE DEF g, L, m
<1>8. ASSUME NEW s PROVE Cardinality(Entries(k, s)) <= Cardinality(Entries(l, s) \ {i})
  <2> DEFINE f == [j \in Entries(k, s) |-> g(j)]
  <2>1. IsFiniteSet(Entries(l, s) \ {i}) BY EntriesFinite, FS_Subset
  <2>2. \A j \in Entries(k, s) : j \in 1 .. L - 1 /\ k[j] = s BY <1>3 DEF Entries
  <2>3. f \in [Entries(k, s) -> Entries(l, s) \ {i}] BY <2>2, <1>4, <1>6, <1>7 DEF Entries
  <2>4. \A a, b \in Entries(k, s) : f[a] = f[b] => a = b BY <2>2, <1>5
  <2>5. f \in Injection(Entries(k, s), Entries(l, s) \ {i})
    BY <2>3, <2>4 DEF Injection, IsInjective
  <2> QED BY <2>1, <2>5, FS_Injection
<1>9. \A s : Cardinality(Entries(l, s) \ {i}) <= Cardinality(Entries(l, s))
  BY EntriesFinite, FS_Subset
<1>10. Cardinality(Entries(l, l[i]) \ {i}) = Cardinality(Entries(l, l[i])) - 1
  <2>1. i \in Entries(l, l[i]) BY DEF Entries
  <2> QED BY <2>1, EntriesFinite, FS_RemoveElement
<1>11. \A s : /\ Cardinality(Entries(k, s)) \in Nat /\ Cardinality(Entries(l, s)) \in Nat
              /\ Cardinality(Entries(l, s) \ {i}) \in Nat
  BY <1>3, EntriesFinite, FS_Subset, FS_CardinalityType
<1>12. ASSUME NEW s PROVE Cardinality(Entries(k, s)) <= Cardinality(Entries(l, s))
  <2> DEFINE a == Cardinality(Entries(k, s))
             b == Cardinality(Entries(l, s) \ {i})
             d == Cardinality(Entries(l, s))
  <2>1. a \in Nat /\ b \in Nat /\ d \in Nat BY <1>11
  <2>2. a <= b /\ b <= d BY <1>8, <1>9
  <2> HIDE DEF a, b, d
  <2>3. a <= d BY <2>1, <2>2
  <2> QED BY <2>3 DEF a, d
<1>13. Cardinality(Entries(k, l[i])) <= Cardinality(Entries(l, l[i])) - 1 BY <1>8, <1>10
<1>14. \A j \in 1 .. Len(k) : \E h \in 1 .. Len(l) : k[j] = l[h] BY <1>3, <1>4 DEF L
<1> QED BY <1>3, <1>12, <1>13, <1>14 DEF L

LEMMA MinExists ==
    ASSUME NEW S, S \subseteq Nat, S # {}
    PROVE  \E j \in S : \A k \in S : j <= k
<1>1. PICK j \in S : \A k \in S : <<k, j>> \notin OpToRel(<, Nat)
  BY NatLessThanWellFounded, WFMin, Zenon
<1>2. \A k \in S : ~(k < j) BY <1>1 DEF OpToRel
<1>3. \A k \in S : j <= k BY <1>2
<1> QED BY <1>3

LEMMA MapDelIs ==
    ASSUME NEW m \in [Nids -> Seq(Nat)], NEW n, NEW r \in Nat
    PROVE  /\ MapDel(m, n, r) \in [Nids -> Seq(Nat)]
           /\ \A k \in Nids : k # n => MapDel(m, n, r)[k] = m[k]
           /\ \A k \in Nids : /\ Len(MapDel(m, n, r)[k]) <= Len(m[k])
                              /\ \A j \in 1 .. Len(MapDel(m, n, r)[k]) :
                                    \E h \in 1 .. Len(m[k]) : MapDel(m, n, r)[k][j] = m[k][h]
                              /\ \A s : Cardinality(Entries(MapDel(m, n, r)[k], s))
                                          <= Cardinality(Entries(m[k], s))
           /\ n \in Nids => \/ Cardinality(Entries(MapDel(m, n, r)[n], r)) = 0
                            \/ Cardinality(Entries(MapDel(m, n, r)[n], r))
                                  <= Cardinality(Entries(m[n], r)) - 1
<1>0. \A k \in Nids : \A s : Cardinality(Entries(m[k], s)) \in Nat BY EntriesFinite
<1>1. CASE n \notin Nids \/ ~\E i \in DOMAIN m[n] : m[n][i] = r
  <2>1. MapDel(m, n, r) = m BY <1>1 DEF MapDel
  <2>2. n \in Nids => Entries(m[n], r) = {} BY <1>1 DEF Entries
  <2>3. n \in Nids => Cardinality(Entries(m[n], r)) = 0 BY <2>2, FS_EmptySet
  <2>4. \A k \in Nids : /\ Len(m[k]) <= Len(m[k])
                         /\ \A s : Cardinality(Entries(m[k], s)) <= Cardinality(Entries(m[k], s))
    <3> SUFFICES ASSUME NEW k \in Nids
                 PROVE  /\ Len(m[k]) <= Len(m[k])
                        /\ \A s : Cardinality(Entries(m[k], s)) <= Cardinality(Entries(m[k], s))
      OBVIOUS
    <3>1. Len(m[k]) \in Nat OBVIOUS
    <3>2. \A s : Cardinality(Entries(m[k], s)) \in Nat BY <1>0
    <3> QED BY <3>1, <3>2
  <2> QED BY <2>1, <2>3, <2>4
<1>2. CASE n \in Nids /\ \E i \in DOMAIN m[n] : m[n][i] = r
  <2> DEFINE l == m[n]
             P(j) == l[j] = r /\ \A k \in 1 .. j - 1 : l[k] # r
             i == CHOOSE j \in DOMAIN l : P(j)
             v == SubSeq([l EXCEPT ![i] = l[Len(l)]], 1, Len(l) - 1)
  <2>1. l \in Seq(Nat) /\ DOMAIN l = 1 .. Len(l) BY <1>2
  <2>2. \E j \in DOMAIN l : P(j)
    <3> DEFINE S == {j \in Nat : j \in DOMAIN l /\ l[j] = r}
    <3>1. S # {} /\ S \subseteq Nat BY <1>2, <2>1
    <3>2. PICK j \in S : \A k \in S : j <= k BY ONLY <3>1, MinExists
    <3> QED BY <3>2, <2>1
  <2>3. i \in DOMAIN l /\ P(i) BY <2>2
  <2>4. MapDel(m, n, r) = [m EXCEPT ![n] = v] BY <1>2 DEF MapDel
  <2> HIDE DEF i, v, l
  <2>5. /\ v \in Seq(Nat) /\ Len(v) = Len(l) - 1
        /\ \A j \in 1 .. Len(v) : \E h \in 1 .. Len(l) : v[j] = l[h]
        /\ \A s : Cardinality(Entries(v, s)) <= Cardinality(Entries(l, s))
        /\ Cardinality(Entries(v, l[i])) <= Cardinality(Entries(l, l[i])) - 1
    BY <2>1, <2>3, EntriesDel DEF v
  <2>6. l[i] = r BY <2>3
  <2>7. MapDel(m, n, r)[n] = v /\ \A k \in Nids : k # n => MapDel(m, n, r)[k] = m[k] BY <1>2, <2>4
  <2>8. MapDel(m, n, r) \in [Nids -> Seq(Nat)] BY <2>4, <2>5
  <2>9. ASSUME NEW k \in Nids
        PROVE  /\ Len(MapDel(m, n, r)[k]) <= Len(m[k])
               /\ \A j \in 1 .. Len(MapDel(m, n, r)[k]) :
                     \E h \in 1 .. Len(m[k]) : MapDel(m, n, r)[k][j] = m[k][h]
               /\ \A s : Cardinality(Entries(MapDel(m, n, r)[k], s)) <= Cardinality(Entries(m[k], s))
    <3>1. CASE k = n
      <4>1. m[k] = l /\ MapDel(m, n, r)[k] = v BY <3>1, <2>7 DEF l
      <4>2. Len(v) <= Len(l) BY <2>1, <2>5
      <4> QED BY <4>1, <4>2, <2>5
    <3>2. CASE k # n
      <4>1. MapDel(m, n, r)[k] = m[k] BY <3>2, <2>7
      <4>2. Len(m[k]) \in Nat OBVIOUS
      <4> QED BY <4>1, <4>2, <1>0
    <3> QED BY <3>1, <3>2
  <2>10. Cardinality(Entries(MapDel(m, n, r)[n], r)) <= Cardinality(Entries(m[n], r)) - 1
    BY <2>5, <2>6, <2>7 DEF l
  <2> QED BY <2>7, <2>8, <2>9, <2>10
<1> QED BY <1>1, <1>2
-----------------------------------------------------------------------------
(* The subscription table.                                                 *)
Subs(tab, t, g) == IF t \in DOMAIN tab /\ g \in DOMAIN tab[t] THEN tab[t][g] ELSE {}

\* One entry of a function is replaced.
LEMMA ExceptIs ==
    ASSUME NEW f, f = [j \in DOMAIN f |-> f[j]], NEW k \in DOMAIN f, NEW v, NEW h, h = [f EXCEPT ![k] = v]
    PROVE  /\ h = [j \in DOMAIN h |-> h[j]] /\ DOMAIN h = DOMAIN f
           /\ h[k] = v /\ \A j \in DOMAIN f : j # k => h[j] = f[j]
OBVIOUS

Inserted(T, tab, t, g, c) ==
    /\ IsTab(T) /\ DOMAIN T = DOMAIN tab /\ DOMAIN T[t] # {}
    /\ \A u \in DOMAIN tab : u # t => T[u] = tab[u]
    /\ \A u, h : Subs(T, u, h) = IF u = t /\ h = g THEN Subs(tab, u, h) \cup {c} ELSE Subs(tab, u, h)

LEMMA InsertIs ==
    ASSUME NEW tab, IsTab(tab), NEW t \in DOMAIN tab, NEW g \in Gids, NEW c \in Conns,
           NEW T, T = SubInsert(tab, t, g, c)
    PROVE  Inserted(T, tab, t, g, c)
<1> DEFINE old == IF g \in DOMAIN tab[t] THEN tab[t][g] ELSE {}
           v == Assign(tab[t], g, old \cup {c})
<1>0. v = Assign(tab[t], g, old \cup {c}) OBVIOUS
<1>1. T = [tab EXCEPT ![t] = v] BY DEF SubInsert
<1>2. IsGroups(tab[t]) BY DEF IsTab
<1>3. old \subseteq Conns BY <1>2 DEF IsGroups
<1> HIDE DEF old, v
<1>4. /\ v = [j \in DOMAIN v |-> v[j]] /\ DOMAIN v = DOMAIN tab[t] \cup {g} /\ v[g] = old \cup {c}
      /\ \A j \in DOMAIN tab[t] : j # g => v[j] = tab[t][j]
  BY <1>0 DEF Assign
<1>5. IsGroups(v) BY <1>2, <1>3, <1>4 DEF IsGroups
<1>6. /\ T = [j \in DOMAIN T |-> T[j]] /\ DOMAIN T = DOMAIN tab
      /\ T[t] = v /\ \A j \in DOMAIN tab : j # t => T[j] = tab[j]
  <2>1. tab = [j \in DOMAIN tab |-> tab[j]] BY DEF IsTab
  <2> QED BY ONLY <1>1, <2>1, ExceptIs, t \in DOMAIN tab
<1>7. IsTab(T) BY <1>5, <1>6 DEF IsTab
<1>8. Subs(tab, t, g) = old BY DEF Subs, old
<1>9. \A u, h : Subs(T, u, h) = IF u = t /\ h = g THEN Subs(tab, u, h) \cup {c} ELSE Subs(tab, u, h)
  <2> SUFFICES ASSUME NEW u, NEW h
               PROVE  Subs(T, u, h) = IF u = t /\ h = g THEN Subs(tab, u, h) \cup {c} ELSE Subs(tab, u, h)
    OBVIOUS
  <2>1. CASE u = t /\ h = g BY <2>1, <1>4, <1>6, <1>8 DEF Subs
  <2>2. CASE u = t /\ h # g BY <2>2, <1>4, <1>6 DEF Subs
  <2>3. CASE u # t BY <2>3, <1>6 DEF Subs
  <2> QED BY <2>1, <2>2, <2>3
<1> QED BY <1>4, <1>6, <1>7, <1>9 DEF Inserted

LEMMA AllocIs ==
    ASSUME NEW tab, IsTab(tab), NEW t \in Types, t \notin DOMAIN tab,
           NEW T, T = rtmq_sub_list_alloc(tab, t)
    PROVE  /\ IsTab(T) /\ DOMAIN T = DOMAIN tab \cup {t}
           /\ \A u \in DOMAIN tab : T[u] = tab[u]
           /\ \A u, h : Subs(T, u, h) = Subs(tab, u, h)
<1>0. T = Assign(tab, t, <<>>) BY DEF rtmq_sub_list_alloc
<1>1. /\ T = [j \in DOMAIN T |-> T[j]] /\ DOMAIN T = DOMAIN tab \cup {t} /\ T[t] = <<>>
      /\ \A j \in DOMAIN tab : j # t => T[j] = tab[j]
  BY <1>0 DEF Assign
<1>2. IsTab(T) BY <1>1, EmptyIs DEF IsTab
<1>3. \A u, h : Subs(T, u, h) = Subs(tab, u, h) BY <1>1, EmptyIs DEF Subs
<1> QED BY <1>1, <1>2, <1>3

\* What a removal leaves of a table: nothing but c goes, and no type is left without groups.
Removed(T, tab) ==
    /\ IsTab(T) /\ DOMAIN T \subseteq DOMAIN tab
    /\ \A u \in DOMAIN T : DOMAIN T[u] = {} => DOMAIN tab[u] = {}

RemovedOne(T, tab, t, g, c) ==
    /\ Removed(T, tab)
    /\ \A u, h : Subs(T, u, h) = IF u = t /\ h = g THEN Subs(tab, u, h) \ {c} ELSE Subs(tab, u, h)

LEMMA RemoveIs ==
    ASSUME NEW tab, IsTab(tab), NEW t, NEW g, NEW c
    PROVE  RemovedOne(SubRemove(tab, t, g, c), tab, t, g, c)
<1> DEFINE T == SubRemove(tab, t, g, c)
<1> SUFFICES /\ Removed(T, tab)
             /\ \A u, h : Subs(T, u, h) = IF u = t /\ h = g THEN Subs(tab, u, h) \ {c} ELSE Subs(tab, u, h)
  BY DEF RemovedOne
<1> HIDE DEF T
<1> USE DEF Removed
<1>1. CASE t \notin DOMAIN tab \/ g \notin DOMAIN tab[t] \/ c \notin tab[t][g]
  <2>1. T = tab BY <1>1 DEF SubRemove, T
  <2> QED BY <2>1, <1>1 DEF Subs
<1>2. CASE t \in DOMAIN tab /\ g \in DOMAIN tab[t] /\ c \in tab[t][g]
  <2>0. t \in DOMAIN tab BY <1>2
  <2>1. IsGroups(tab[t]) BY <1>2 DEF IsTab
  <2>2. tab = [j \in DOMAIN tab |-> tab[j]] BY DEF IsTab
  <2>3. tab[t] = [j \in DOMAIN tab[t] |-> tab[t][j]] BY <2>1 DEF IsGroups
  <2>4. CASE tab[t][g] # {c}
    <3> DEFINE v == [tab[t] EXCEPT ![g] = tab[t][g] \ {c}]
    <3>1. T = [tab EXCEPT ![t] = v] BY <1>2, <2>4 DEF SubRemove, T
    <3>2. /\ v = [j \in DOMAIN v |-> v[j]] /\ DOMAIN v = DOMAIN tab[t]
          /\ v[g] = tab[t][g] \ {c} /\ \A j \in DOMAIN tab[t] : j # g => v[j] = tab[t][j]
      BY <1>2, <2>3, ExceptIs
    <3> HIDE DEF v
    <3>3. /\ T = [j \in DOMAIN T |-> T[j]] /\ DOMAIN T = DOMAIN tab
          /\ T[t] = v /\ \A j \in DOMAIN tab : j # t => T[j] = tab[j]
      BY <2>0, <2>2, <3>1, ExceptIs
    <3>4. v[g] # {} BY <1>2, <2>4, <3>2
    <3>5. IsGroups(v) BY <2>1, <3>2, <3>4 DEF IsGroups
    <3>6. IsTab(T) BY <3>3, <3>5 DEF IsTab
    <3>7. \A u, h : Subs(T, u, h) = IF u = t /\ h = g THEN Subs(tab, u, h) \ {c} ELSE Subs(tab, u, h)
      BY <1>2, <3>2, <3>3 DEF Subs
    <3> QED BY <1>2, <3>2, <3>3, <3>6, <3>7
  <2>5. CASE tab[t][g] = {c} /\ DOMAIN tab[t] # {g}
    <3> DEFINE v == Without(tab[t], g)
    <3>1. T = [tab EXCEPT ![t] = v] BY <1>2, <2>5 DEF SubRemove, T
    <3>2. /\ v = [j \in DOMAIN v |-> v[j]] /\ DOMAIN v = DOMAIN tab[t] \ {g}
          /\ \A j \in DOMAIN tab[t] : j # g => v[j] = tab[t][j]
      BY DEF v, Without
    <3> HIDE DEF v
    <3>3. /\ T = [j \in DOMAIN T |-> T[j]] /\ DOMAIN T = DOMAIN tab
          /\ T[t] = v /\ \A j \in DOMAIN tab : j # t => T[j] = tab[j]
      BY <2>0, <2>2, <3>1, ExceptIs
    <3>4. IsGroups(v) BY <2>1, <3>2 DEF IsGroups
    <3>5. IsTab(T) BY <3>3, <3>4 DEF IsTab
    <3>6. DOMAIN v # {} BY <1>2, <2>5, <3>2
    <3>7. \A u, h : Subs(T, u, h) = IF u = t /\ h = g THEN Subs(tab, u, h) \ {c} ELSE Subs(tab, u, h)
      BY <1>2, <2>5, <3>2, <3>3 DEF Subs
    <3> QED BY <1>2, <3>3, <3>5, <3>6, <3>7
  <2>6. CASE tab[t][g] = {c} /\ DOMAIN tab[t] = {g}
    <3>1. T = Without(tab, t) BY <1>2, <2>6 DEF SubRemove, T, rtmq_sub_list_dealloc
    <3>2. /\ T = [j \in DOMAIN T |-> T[j]] /\ DOMAIN T = DOMAIN tab \ {t}
          /\ \A j \in DOMAIN tab : j # t => T[j] = tab[j]
      BY <3>1 DEF Without
    <3>3. IsTab(T) BY <3>2 DEF IsTab
    <3>4. \A u, h : Subs(T, u, h) = IF u = t /\ h = g THEN Subs(tab, u, h) \ {c} ELSE Subs(tab, u, h)
      BY <1>2, <2>6, <3>2 DEF Subs
    <3> QED BY <3>2, <3>3, <3>4
  <2> QED BY <2>4, <2>5, <2>6
<1> QED BY <1>1, <1>2

LEMMA FreeIs ==
    ASSUME NEW tab, IsTab(tab), NEW c, NEW T, T = SubFree(tab, c)
    PROVE  /\ Removed(T, tab)
           /\ \A u, h : Subs(T, u, h) = IF u \in conn[c].subs /\ h = conn[c].gid
                                        THEN Subs(tab, u, h) \ {c} ELSE Subs(tab, u, h)
<1> DEFINE after(t) == IF t \in conn[c].subs THEN SubRemove(tab, t, conn[c].gid, c) ELSE tab
           D == {u \in DOMAIN tab : u \in DOMAIN after(u)}
<1>1. T = [t \in D |-> after(t)[t]] BY DEF SubFree
<1>2. \A t : /\ Removed(after(t), tab)
             /\ \A h : Subs(after(t), t, h) = IF t \in conn[c].subs /\ h = conn[c].gid
                                              THEN Subs(tab, t, h) \ {c} ELSE Subs(tab, t, h)
  <2> SUFFICES ASSUME NEW t
               PROVE  /\ Removed(after(t), tab)
                      /\ \A h : Subs(after(t), t, h) = IF t \in conn[c].subs /\ h = conn[c].gid
                                                       THEN Subs(tab, t, h) \ {c} ELSE Subs(tab, t, h)
    OBVIOUS
  <2>1. CASE t \in conn[c].subs
    <3> DEFINE A == SubRemove(tab, t, conn[c].gid, c)
    <3>1. after(t) = A BY <2>1
    <3>2. RemovedOne(A, tab, t, conn[c].gid, c) BY RemoveIs, Zenon
    <3> HIDE DEF A, after
    <3> QED BY <2>1, <3>1, <3>2 DEF RemovedOne
  <2>2. CASE t \notin conn[c].subs BY <2>2 DEF Removed
  <2> QED BY <2>1, <2>2
<1> HIDE DEF after
<1>3. T = [t \in DOMAIN T |-> T[t]] /\ DOMAIN T = D /\ \A t \in D : T[t] = after(t)[t] BY <1>1
<1>4. \A t \in D : IsGroups(after(t)[t]) BY <1>2 DEF Removed, IsTab
<1>5. IsTab(T) BY <1>3, <1>4 DEF IsTab
<1>6. Removed(T, tab) BY <1>2, <1>3, <1>5 DEF Removed
<1>7. \A u, h : Subs(T, u, h) = Subs(after(u), u, h) BY <1>2, <1>3 DEF Subs, Removed
<1> QED BY <1>2, <1>6, <1>7
-----------------------------------------------------------------------------
(* Holders of a buffer.                                                    *)
Ch(b) == {c \in Conns : Live(c) /\ conn[c].base = b}
Rh(b) == {p \in Ctxs \X Recvqs \X (1 .. RecvqMax) :
             /\ p[3] \in DOMAIN recvq[p[1]][p[2]]
             /\ recvq[p[1]][p[2]][p[3]].base = b}

LEMMA FiniteSpots ==
    /\ IsFiniteSet(Conns) /\ \A S : S \subseteq Conns => IsFiniteSet(S) /\ Cardinality(S) \in Nat
    /\ \A S : S \subseteq Ctxs \X Recvqs \X (1 .. RecvqMax) => IsFiniteSet(S) /\ Cardinality(S) \in Nat
<1>1. IsFiniteSet(Conns) /\ IsFiniteSet(Recvqs) BY BrokerAssumption
<1>2. IsFiniteSet(Ctxs)
  <2>1. IsFiniteSet({"forward"}) BY FS_Singleton
  <2>2. Ctxs = {"forward"} \cup {"backend"} BY BrokerAssumption
  <2> QED BY <2>1, <2>2, FS_AddElement
<1>3. IsFiniteSet(1 .. RecvqMax) BY FS_Interval, BrokerAssumption
<1> DEFINE P == Ctxs \X (Recvqs \X (1 .. RecvqMax))
           Q == Ctxs \X Recvqs \X (1 .. RecvqMax)
<1>4. IsFiniteSet(P) BY <1>1, <1>2, <1>3, FS_Product
<1>5. IsFiniteSet(Q)
  <2> DEFINE f == [p \in P |-> <<p[1], p[2][1], p[2][2]>>]
  <2>1. f \in [P -> Q] OBVIOUS
  <2>2. \A q \in Q : \E p \in P : f[p] = q
    <3> TAKE t \in Q
    <3>1. PICK x \in Ctxs, q \in Recvqs, i \in 1 .. RecvqMax : t = <<x, q, i>> OBVIOUS
    <3>2. <<x, <<q, i>>>> \in P OBVIOUS
    <3>3. f[<<x, <<q, i>>>>] = <<x, q, i>> BY <3>2
    <3> QED BY <3>1, <3>2, <3>3
  <2>3. f \in Surjection(P, Q) BY <2>1, <2>2 DEF Surjection
  <2> QED BY <1>4, <2>3, FS_Surjection
<1> HIDE DEF P, Q
<1>6. \A S : S \subseteq Conns => IsFiniteSet(S) BY <1>1, FS_Subset
<1>7. \A S : S \subseteq Q => IsFiniteSet(S) BY <1>5, FS_Subset
<1> QED BY <1>1, <1>6, <1>7, FS_CardinalityType DEF Q

LEMMA HoldersAre ==
    ASSUME NEW b
    PROVE  /\ Holders(b) = Cardinality(Ch(b)) + Cardinality(Rh(b))
           /\ Cardinality(Ch(b)) \in Nat /\ Cardinality(Rh(b)) \in Nat
<1>1. Ch(b) \subseteq Conns BY DEF Ch
<1>2. Rh(b) \subseteq Ctxs \X Recvqs \X (1 .. RecvqMax) BY DEF Rh
<1> QED BY <1>1, <1>2, FiniteSpots DEF Holders, Ch, Rh

Bit(p) == IF p THEN 1 ELSE 0

\* One element of a finite set may come or go.
LEMMA OneMoves ==
    ASSUME NEW A, NEW B, IsFiniteSet(A), NEW c, A \ {c} = B \ {c}
    PROVE  Cardinality(B) + Bit(c \in A) = Cardinality(A) + Bit(c \in B)
<1> DEFINE R == A \ {c}
<1>1. IsFiniteSet(R) /\ c \notin R BY FS_Subset
<1>2. Cardinality(R \cup {c}) = Cardinality(R) + 1 /\ Cardinality(R) \in Nat
  BY <1>1, FS_AddElement, FS_CardinalityType
<1>3. /\ c \in A => A = R \cup {c}
      /\ c \notin A => A = R
      /\ c \in B => B = R \cup {c}
      /\ c \notin B => B = R
  OBVIOUS
<1>4. PICK n \in Nat : n = Cardinality(R) BY <1>2
<1> HIDE DEF R
<1>5. Cardinality(A) = n + Bit(c \in A)
  <2>1. CASE c \in A
    <3>1. Cardinality(A) = n + 1 BY <2>1, <1>2, <1>3, <1>4
    <3> QED BY <2>1, <3>1 DEF Bit
  <2>2. CASE c \notin A
    <3>1. Cardinality(A) = n BY <2>2, <1>3, <1>4
    <3> QED BY <2>2, <3>1 DEF Bit
  <2> QED BY <2>1, <2>2
<1>6. Cardinality(B) = n + Bit(c \in B)
  <2>1. CASE c \in B
    <3>1. Cardinality(B) = n + 1 BY <2>1, <1>2, <1>3, <1>4
    <3> QED BY <2>1, <3>1 DEF Bit
  <2>2. CASE c \notin B
    <3>1. Cardinality(B) = n BY <2>2, <1>3, <1>4
    <3> QED BY <2>2, <3>1 DEF Bit
  <2> QED BY <2>1, <2>2
<1>7. Bit(c \in A) \in Nat /\ Bit(c \in B) \in Nat BY DEF Bit
<1> QED BY <1>5, <1>6, <1>7

LEMMA ChOne ==
    ASSUME NEW c \in Conns, \A d \in Conns : d # c => conn'[d] = conn[d], NEW b
    PROVE  Cardinality(Ch(b)') + (IF Live(c) /\ conn[c].base = b THEN 1 ELSE 0)
              = Cardinality(Ch(b)) + (IF Live(c)' /\ conn'[c].base = b THEN 1 ELSE 0)
<1>1. IsFiniteSet(Ch(b)) BY FiniteSpots DEF Ch
<1>2. Ch(b) \ {c} = Ch(b)' \ {c} BY DEF Ch, Live
<1>3. Cardinality(Ch(b)') + Bit(c \in Ch(b)) = Cardinality(Ch(b)) + Bit(c \in Ch(b)')
  BY <1>1, <1>2, OneMoves
<1>4. /\ c \in Ch(b) <=> Live(c) /\ conn[c].base = b
      /\ c \in Ch(b)' <=> Live(c)' /\ conn'[c].base = b
  BY DEF Ch
<1>5. CASE c \in Ch(b) /\ c \in Ch(b)' BY <1>3, <1>4, <1>5 DEF Bit
<1>6. CASE c \in Ch(b) /\ c \notin Ch(b)' BY <1>3, <1>4, <1>6 DEF Bit
<1>7. CASE c \notin Ch(b) /\ c \in Ch(b)' BY <1>3, <1>4, <1>7 DEF Bit
<1>8. CASE c \notin Ch(b) /\ c \notin Ch(b)' BY <1>3, <1>4, <1>8 DEF Bit
<1> QED BY <1>5, <1>6, <1>7, <1>8

RhGrew(b, a) == Cardinality(Rh(b)') = Cardinality(Rh(b)) + (IF a = b THEN 1 ELSE 0)

LEMMA RhAppend ==
    ASSUME Typed, NEW x \in Ctxs, NEW q \in Recvqs, Len(recvq[x][q]) < RecvqMax, NEW it,
           recvq' = [recvq EXCEPT ![x][q] = Append(@, it)], NEW b
    PROVE  RhGrew(b, it.base)
<1> DEFINE l == recvq[x][q]
           e == <<x, q, Len(l) + 1>>
<1>1. l \in Seq(Items) BY DEF Typed
<1>2. PICK k \in Nat : k = Len(l) BY <1>1
<1>3. RecvqMax \in Nat BY BrokerAssumption
<1>4. k + 1 \in 1 .. RecvqMax BY <1>2, <1>3
<1>5. e \in Ctxs \X Recvqs \X (1 .. RecvqMax) BY <1>2, <1>4
<1>6. /\ DOMAIN l = 1 .. k /\ DOMAIN Append(l, it) = 1 .. (k + 1)
      /\ Append(l, it)[k + 1] = it /\ \A i \in 1 .. k : Append(l, it)[i] = l[i]
  BY <1>1, <1>2
<1>7. /\ recvq'[x][q] = Append(l, it)
      /\ \A y \in Ctxs, p \in Recvqs : y # x \/ p # q => recvq'[y][p] = recvq[y][p]
  BY DEF Typed
<1>8. e \notin Rh(b) BY <1>2, <1>6 DEF Rh
<1>9. e \in Rh(b)' <=> it.base = b BY <1>2, <1>5, <1>6, <1>7 DEF Rh
<1>10. ASSUME NEW p \in Ctxs \X Recvqs \X (1 .. RecvqMax), p # e PROVE p \in Rh(b) <=> p \in Rh(b)'
  <2>1. PICK y \in Ctxs, s \in Recvqs, i \in 1 .. RecvqMax : p = <<y, s, i>> OBVIOUS
  <2>2. p[1] = y /\ p[2] = s /\ p[3] = i BY <2>1
  <2>3. CASE y = x /\ s = q
    <3>1. i # k + 1 BY <1>10, <2>1, <2>3, <1>2
    <3>2. i \in 1 .. k + 1 <=> i \in 1 .. k BY <3>1
    <3> QED BY <2>2, <2>3, <3>2, <1>6, <1>7 DEF Rh
  <2>4. CASE ~(y = x /\ s = q) BY <2>2, <2>4, <1>7 DEF Rh
  <2> QED BY <2>3, <2>4
<1>11. Rh(b) \ {e} = Rh(b)' \ {e}
  <2>1. Rh(b) \subseteq Ctxs \X Recvqs \X (1 .. RecvqMax) BY DEF Rh
  <2>2. Rh(b)' \subseteq Ctxs \X Recvqs \X (1 .. RecvqMax) BY DEF Rh
  <2> QED BY <2>1, <2>2, <1>10
<1>12. IsFiniteSet(Rh(b)) BY FiniteSpots DEF Rh
<1>13. Cardinality(Rh(b)') + Bit(e \in Rh(b)) = Cardinality(Rh(b)) + Bit(e \in Rh(b)')
  BY <1>11, <1>12, OneMoves
<1>14. Cardinality(Rh(b)') \in Nat
  <2>1. Rh(b)' \subseteq Ctxs \X Recvqs \X (1 .. RecvqMax) BY DEF Rh
  <2> QED BY <2>1, FiniteSpots
<1>15. Cardinality(Rh(b)) \in Nat BY HoldersAre
<1> HIDE DEF e, l
<1> QED BY <1>8, <1>9, <1>13, <1>14, <1>15 DEF Bit, RhGrew

LEMMA RhTail ==
    ASSUME Typed, Within, NEW x \in Ctxs, NEW q \in Recvqs, recvq[x][q] # <<>>,
           recvq' = [recvq EXCEPT ![x][q] = Tail(@)], NEW b
    PROVE  /\ Head(recvq[x][q]).base = b => Cardinality(Rh(b)) = Cardinality(Rh(b)') + 1
           /\ Head(recvq[x][q]).base # b => Cardinality(Rh(b)) = Cardinality(Rh(b)')
<1> DEFINE l == recvq[x][q]
           e == <<x, q, 1>>
           f == [p \in Rh(b)' |-> IF p[1] = x /\ p[2] = q THEN <<x, q, p[3] + 1>> ELSE p]
<1>1. l \in Seq(Items) BY DEF Typed
<1>2. PICK k \in Nat : k = Len(l) BY <1>1
<1>3. k >= 1 /\ k <= RecvqMax /\ RecvqMax \in Nat BY <1>1, <1>2, BrokerAssumption, SMTT(30) DEF Within
<1>4. /\ DOMAIN l = 1 .. k /\ DOMAIN Tail(l) = 1 .. k - 1 /\ Head(l) = l[1]
      /\ \A i \in 1 .. k - 1 : Tail(l)[i] = l[i + 1]
  BY <1>1, <1>2, <1>3
<1>5. /\ recvq'[x][q] = Tail(l)
      /\ \A y \in Ctxs, p \in Recvqs : y # x \/ p # q => recvq'[y][p] = recvq[y][p]
  BY DEF Typed
<1> DEFINE S == Ctxs \X Recvqs \X (1 .. RecvqMax)
<1>6. ASSUME NEW y \in Ctxs, NEW s \in Recvqs, NEW i \in 1 .. RecvqMax, y # x \/ s # q
      PROVE  <<y, s, i>> \in Rh(b) <=> <<y, s, i>> \in Rh(b)'
  BY <1>5, <1>6 DEF Rh
<1>7. \A i \in 1 .. RecvqMax : <<x, q, i>> \in Rh(b) <=> i <= k /\ l[i].base = b
  <2> TAKE i \in 1 .. RecvqMax
  <2>1. i \in 1 .. k <=> i <= k BY <1>3
  <2> QED BY <2>1, <1>4 DEF Rh
<1>8. \A i \in 1 .. RecvqMax : <<x, q, i>> \in Rh(b)' <=> i <= k - 1 /\ l[i + 1].base = b
  <2> TAKE i \in 1 .. RecvqMax
  <2>1. i \in 1 .. k - 1 <=> i <= k - 1 BY <1>3
  <2>2. <<x, q, i>> \in Rh(b)' <=> i \in DOMAIN Tail(l) /\ Tail(l)[i].base = b BY <1>5 DEF Rh
  <2> QED BY <2>1, <2>2, <1>4
<1>9. Rh(b) \subseteq S /\ Rh(b)' \subseteq S BY DEF Rh
<1>10. \A p \in S : p = <<p[1], p[2], p[3]>> /\ p[1] \in Ctxs /\ p[2] \in Recvqs /\ p[3] \in 1 .. RecvqMax
  OBVIOUS
<1> HIDE DEF S, l
<1>11. \A p \in Rh(b)' : /\ p = <<p[1], p[2], p[3]>> /\ p[1] \in Ctxs /\ p[2] \in Recvqs /\ p[3] \in 1 .. RecvqMax
                         /\ p[1] = x /\ p[2] = q => p[3] <= k - 1 /\ l[p[3] + 1].base = b
  BY <1>8, <1>9, <1>10
<1>12. f \in [Rh(b)' -> Rh(b) \ {e}]
  <2> SUFFICES ASSUME NEW p \in Rh(b)'
               PROVE  (IF p[1] = x /\ p[2] = q THEN <<x, q, p[3] + 1>> ELSE p) \in Rh(b) \ {e}
    OBVIOUS
  <2>1. CASE p[1] = x /\ p[2] = q
    <3>1. PICK i \in 1 .. RecvqMax : i = p[3] BY <1>11
    <3>2. i <= k - 1 /\ l[i + 1].base = b BY <2>1, <3>1, <1>11
    <3>3. i + 1 \in 1 .. RecvqMax /\ i + 1 <= k /\ i + 1 # 1 BY <3>2, <1>3
    <3>4. <<x, q, i + 1>> \in Rh(b) BY <3>2, <3>3, <1>7
    <3>5. <<x, q, i + 1>> # e BY <3>3
    <3> QED BY <2>1, <3>1, <3>4, <3>5
  <2>2. CASE ~(p[1] = x /\ p[2] = q)
    <3>1. p \in Rh(b) BY <2>2, <1>6, <1>11
    <3>2. p # e BY <2>2
    <3> QED BY <2>2, <3>1, <3>2
  <2> QED BY <2>1, <2>2
<1>13. \A p, r \in Rh(b)' : f[p] = f[r] => p = r
  <2> SUFFICES ASSUME NEW p \in Rh(b)', NEW r \in Rh(b)', f[p] = f[r] PROVE p = r OBVIOUS
  <2>1. PICK i \in 1 .. RecvqMax, j \in 1 .. RecvqMax : i = p[3] /\ j = r[3] BY <1>11
  <2>2. CASE p[1] = x /\ p[2] = q
    <3>1. f[p] = <<x, q, i + 1>> BY <2>1, <2>2
    <3>2. r[1] = x /\ r[2] = q
      <4>1. f[r][1] = x /\ f[r][2] = q BY <3>1
      <4> QED BY <4>1
    <3>3. f[r] = <<x, q, j + 1>> BY <2>1, <3>2
    <3>4. i + 1 = j + 1 BY <3>1, <3>3
    <3>5. i = j BY <3>4
    <3> QED BY <2>1, <2>2, <3>2, <3>5, <1>11
  <2>3. CASE ~(p[1] = x /\ p[2] = q)
    <3>1. f[p] = p BY <2>3
    <3>2. ~(r[1] = x /\ r[2] = q)
      <4>1. f[r] = p BY <3>1
      <4>2. r[1] = x /\ r[2] = q => f[r][1] = x /\ f[r][2] = q OBVIOUS
      <4> QED BY <4>1, <4>2, <2>3
    <3> QED BY <3>1, <3>2
  <2> QED BY <2>2, <2>3
<1>14. \A r \in Rh(b) \ {e} : \E p \in Rh(b)' : f[p] = r
  <2> SUFFICES ASSUME NEW r \in Rh(b), r # e PROVE \E p \in Rh(b)' : f[p] = r OBVIOUS
  <2>1. r = <<r[1], r[2], r[3]>> /\ r[1] \in Ctxs /\ r[2] \in Recvqs /\ r[3] \in 1 .. RecvqMax
    BY <1>9, <1>10
  <2>2. CASE r[1] = x /\ r[2] = q
    <3>1. PICK i \in 1 .. RecvqMax : i = r[3] BY <2>1
    <3>2. r = <<x, q, i>> /\ i <= k /\ l[i].base = b BY <2>1, <2>2, <3>1, <1>7
    <3>3. i # 1 BY <3>2
    <3>4. i - 1 \in 1 .. RecvqMax /\ i - 1 <= k - 1 /\ (i - 1) + 1 = i BY <3>2, <3>3, <1>3
    <3>5. <<x, q, i - 1>> \in Rh(b)' BY <3>2, <3>4, <1>8
    <3>6. f[<<x, q, i - 1>>] = <<x, q, (i - 1) + 1>> BY <3>5
    <3> QED BY <3>2, <3>4, <3>5, <3>6
  <2>3. CASE ~(r[1] = x /\ r[2] = q)
    <3>1. r \in Rh(b)' BY <2>1, <2>3, <1>6
    <3>2. f[r] = r BY <2>3, <3>1
    <3> QED BY <3>1, <3>2
  <2> QED BY <2>2, <2>3
<1>15. IsFiniteSet(Rh(b)) /\ IsFiniteSet(Rh(b)') BY <1>9, FiniteSpots DEF S
<1>16. Cardinality(Rh(b)') = Cardinality(Rh(b) \ {e})
  <2>1. f \in Bijection(Rh(b)', Rh(b) \ {e})
    BY <1>12, <1>13, <1>14 DEF Bijection, Injection, Surjection, IsInjective
  <2>2. ExistsBijection(Rh(b)', Rh(b) \ {e}) BY <2>1 DEF ExistsBijection
  <2> QED BY <2>2, <1>15, FS_Bijection
<1>17. e \in Rh(b) <=> Head(l).base = b
  <2>1. 1 \in 1 .. RecvqMax /\ 1 <= k BY <1>3
  <2> QED BY <2>1, <1>4, <1>7
<1>18. Cardinality(Rh(b) \ {e}) = IF e \in Rh(b) THEN Cardinality(Rh(b)) - 1 ELSE Cardinality(Rh(b))
  BY <1>15, FS_RemoveElement
<1>19. Cardinality(Rh(b)) \in Nat BY HoldersAre
<1> HIDE DEF e
<1> QED BY <1>16, <1>17, <1>18, <1>19 DEF Bit, l
-----------------------------------------------------------------------------
(* Steps that leave what the tables know of a connection.                  *)
Peers(x, n, r) == {c \in Conns : /\ Live(c) /\ CtxOf[c] = x /\ conn[c].nid = n /\ conn[c].rsvr = r}
Subscribed(x, t, g) == {c \in Conns : /\ Live(c) /\ CtxOf[c] = x /\ conn[c].auth
                                      /\ conn[c].gid = g /\ t \in conn[c].subs}

LEMMA RouteIs ==
    NoStaleRoute <=> \A x \in Ctxs, n \in Nids : \A r \in Rsvrs(x) :
                        Cardinality(Entries(map[x][n], r)) <= Cardinality(Peers(x, n, r))
BY DEF NoStaleRoute, Entries, Peers

LEMMA SubsAre ==
    SubsAgree <=> \A x \in Ctxs, t \in Types, g \in Gids : Subscribed(x, t, g) = Subs(sub[x], t, g)
BY DEF SubsAgree, Subscribed, Subs

Minor == \A c \in Conns :
    /\ conn'[c].st = conn[c].st /\ conn'[c].rsvr = conn[c].rsvr /\ conn'[c].nid = conn[c].nid
    /\ conn'[c].gid = conn[c].gid /\ conn'[c].auth = conn[c].auth /\ conn'[c].subs = conn[c].subs
    /\ conn'[c].base = conn[c].base /\ conn'[c].n = conn[c].n

LEMMA MinorKeeps ==
    ASSUME BInv, UNCHANGED script, Minor
    PROVE  /\ AuthRight'
           /\ UNCHANGED <<map, connq>> => Placed'
           /\ UNCHANGED map => NoStaleRoute'
           /\ UNCHANGED sub => SubsAgree'
           /\ UNCHANGED pend => PendRight'
           /\ UNCHANGED <<pend, sub>> => NewTypes'
           /\ UNCHANGED <<recvq, ref, aborted>> => BuffersHeld'
<1>1. \A c \in Conns : Live(c)' <=> Live(c) BY DEF Minor, Live
<1>2. AuthRight' BY <1>1 DEF BInv, AuthRight, Minor
<1>3. ASSUME UNCHANGED <<map, connq>> PROVE Placed'
  <2>1. \A x \in Ctxs : \A r \in Rsvrs(x) : \A i \in 1 .. Len(connq[x][r]) : connq[x][r][i] \in Conns
    <3> SUFFICES ASSUME NEW x \in Ctxs, NEW r \in Rsvrs(x), NEW i \in 1 .. Len(connq[x][r])
                 PROVE  connq[x][r][i] \in Conns
      OBVIOUS
    <3>1. connq[x][r] \in Seq(Conns) BY Get DEF BInv, Typed
    <3> QED BY <3>1
  <2> QED BY <1>1, <1>3, <2>1 DEF BInv, Placed, Minor
<1>4. ASSUME UNCHANGED map PROVE NoStaleRoute'
  <2>1. \A x, n, r : Peers(x, n, r)' = Peers(x, n, r) BY <1>1 DEF Peers, Minor
  <2>2. \A x \in Ctxs, n \in Nids : \A r \in Rsvrs(x) :
            Cardinality(Entries(map[x][n], r)) <= Cardinality(Peers(x, n, r)')
    BY <2>1, RouteIs DEF BInv
  <2>3. (\A x \in Ctxs, n \in Nids : \A r \in Rsvrs(x) :
            Cardinality(Entries(map[x][n], r)) <= Cardinality(Peers(x, n, r)))'
    BY <2>2, <1>4 DEF Entries
  <2> QED BY <2>3, RouteIs, PTL
<1>5. ASSUME UNCHANGED sub PROVE SubsAgree'
  <2>1. \A x, t, g : Subscribed(x, t, g)' = Subscribed(x, t, g) BY <1>1 DEF Subscribed, Minor
  <2>2. (\A x \in Ctxs, t \in Types, g \in Gids : Subscribed(x, t, g) = Subs(sub[x], t, g))'
    BY <2>1, <1>5, SubsAre, SMTT(30) DEF BInv, Subs
  <2> QED BY <2>2, SubsAre, PTL
<1>6. ASSUME UNCHANGED pend PROVE PendRight'
  <2> SUFFICES ASSUME NEW x \in Ctxs, NEW r \in Rsvrs(x), pend[x][r] # NoPend, NEW c, c = pend[x][r][2]
               PROVE  /\ Live(c)' /\ CtxOf[c] = x /\ conn'[c].rsvr = r /\ conn'[c].auth
                      /\ conn'[c].n < Len(script[c]) /\ script[c][conn'[c].n + 1].kind = "SUB_REQ"
    BY <1>6 DEF PendRight, Arriving, Live
  <2>1. pend[x][r] \in Pends BY Get DEF BInv, Typed
  <2>2. c \in Conns BY <2>1, PendIs
  <2> QED BY <2>2, <1>1, SMTT(30) DEF BInv, PendRight, Arriving, Minor
<1>7. ASSUME UNCHANGED <<pend, sub>> PROVE NewTypes'
  BY <1>1, <1>7, SMTT(30) DEF BInv, NewTypes, Minor, Arriving
<1>8. ASSUME UNCHANGED <<recvq, ref, aborted>> PROVE BuffersHeld'
  <2>1. \A b \in Bufs : Holders(b)' = Holders(b)
    <3> TAKE b \in Bufs
    <3>1. Ch(b)' = Ch(b) BY <1>1 DEF Ch, Minor
    <3>2. Rh(b)' = Rh(b) BY <1>8 DEF Rh
    <3>3. Holders(b) = Cardinality(Ch(b)) + Cardinality(Rh(b)) BY HoldersAre
    <3>4. Holders(b)' = Cardinality(Ch(b)') + Cardinality(Rh(b)') BY DEF Holders, Ch, Rh
    <3> QED BY <3>1, <3>2, <3>3, <3>4
  <2> QED BY <2>1, <1>8 DEF BInv, BuffersHeld
<1> QED BY <1>2, <1>3, <1>4, <1>5, <1>6, <1>7, <1>8
-----------------------------------------------------------------------------
(* Wake-ups.                                                               *)
Told(x, r, k) == (\E i \in DOMAIN cmd[x][r] : cmd[x][r][i] = k) \/ k \in lost[x][r]

AllTold == \A x \in Ctxs : \A r \in Rsvrs(x) :
    /\ sendq[x][r] # <<>> => Told(x, r, "DIST_REQ")
    /\ connq[x][r] # <<>> => Told(x, r, "ADD_SCK")

LEMMA WakeIs == NoLostWakeup <=> AllTold
BY DEF NoLostWakeup, AllTold, Told

\* The state of the pipes.
PipesTyped == /\ Per(cmd, Seq(Cmds)) /\ Per(lost, SUBSET Cmds)
              /\ \A x \in Ctxs : \A r \in Rsvrs(x) : Len(cmd[x][r]) <= PipeMax

LEMMA TypedPipes ==
    ASSUME Typed, Within
    PROVE  PipesTyped
BY DEF Typed, Within, PipesTyped

\* A command written to a pipe is known to its reader, as everything before.
LEMMA WriteTells ==
    ASSUME PipesTyped, NEW x \in Ctxs, NEW r \in Rsvrs(x), NEW k \in Cmds, PipeWrite(x, r, k)
    PROVE  /\ PipesTyped' /\ Told(x, r, k)'
           /\ \A y \in Ctxs : \A s \in Rsvrs(y) : \A j : Told(y, s, j) => Told(y, s, j)'
<1>0. Per(cmd, Seq(Cmds)) /\ Per(lost, SUBSET Cmds) /\ PipeMax \in Nat
  BY BrokerAssumption DEF PipesTyped
<1>1. cmd[x][r] \in Seq(Cmds) /\ lost[x][r] \in SUBSET Cmds BY <1>0, Get
<1>2. CASE Len(cmd[x][r]) < PipeMax
  <2> DEFINE v == Append(cmd[x][r], k)
  <2>1. cmd' = [cmd EXCEPT ![x][r] = v] /\ lost' = lost BY <1>2 DEF PipeWrite
  <2>2. v \in Seq(Cmds) BY <1>1
  <2>3. /\ Per(cmd', Seq(Cmds)) /\ cmd'[x][r] = v
        /\ \A y \in Ctxs : \A s \in Rsvrs(y) : y # x \/ s # r => cmd'[y][s] = cmd[y][s]
    <3> HIDE DEF v
    <3>1. IsPut(cmd', cmd, x, r, v, Seq(Cmds)) BY <1>0, <2>1, <2>2, Put, Zenon
    <3> QED BY <3>1 DEF IsPut
  <2>4. Len(v) <= PipeMax BY <1>0, <1>1, <1>2
  <2>5. /\ \A i \in DOMAIN cmd[x][r] : i \in DOMAIN v /\ v[i] = cmd[x][r][i]
        /\ Len(cmd[x][r]) + 1 \in DOMAIN v /\ v[Len(cmd[x][r]) + 1] = k
    BY <1>1
  <2> HIDE DEF v
  <2>6. PipesTyped' BY <1>0, <2>1, <2>3, <2>4 DEF PipesTyped
  <2>7. Told(x, r, k)' BY <2>3, <2>5 DEF Told
  <2>8. \A y \in Ctxs : \A s \in Rsvrs(y) : \A j : Told(y, s, j) => Told(y, s, j)'
    BY <2>1, <2>3, <2>5 DEF Told
  <2> QED BY <2>6, <2>7, <2>8
<1>3. CASE ~(Len(cmd[x][r]) < PipeMax)
  <2> DEFINE v == lost[x][r] \cup {k}
  <2>1. lost' = [lost EXCEPT ![x][r] = v] /\ cmd' = cmd BY <1>3 DEF PipeWrite
  <2>2. v \in SUBSET Cmds BY <1>1
  <2>3. /\ Per(lost', SUBSET Cmds) /\ lost'[x][r] = v
        /\ \A y \in Ctxs : \A s \in Rsvrs(y) : y # x \/ s # r => lost'[y][s] = lost[y][s]
    <3> HIDE DEF v
    <3>1. IsPut(lost', lost, x, r, v, SUBSET Cmds) BY <1>0, <2>1, <2>2, Put, Zenon
    <3> QED BY <3>1 DEF IsPut
  <2>4. k \in v /\ \A j \in lost[x][r] : j \in v OBVIOUS
  <2> HIDE DEF v
  <2>6. PipesTyped' BY <2>1, <2>3 DEF PipesTyped
  <2>7. Told(x, r, k)' BY <2>3, <2>4 DEF Told
  <2>8. \A y \in Ctxs : \A s \in Rsvrs(y) : \A j : Told(y, s, j) => Told(y, s, j)'
    BY <2>1, <2>3, <2>4 DEF Told
  <2> QED BY <2>6, <2>7, <2>8
<1> QED BY <1>2, <1>3

\* A command is consumed once its queue is empty: nobody else is forgotten.
LEMMA PopTells ==
    ASSUME PipesTyped, NEW x \in Ctxs, NEW r \in Rsvrs(x), NEW k, cmd[x][r] # <<>>, Head(cmd[x][r]) = k,
           cmd' = [cmd EXCEPT ![x][r] = Tail(@)], lost' = [lost EXCEPT ![x][r] = @ \ {k}]
    PROVE  /\ PipesTyped'
           /\ \A y \in Ctxs : \A s \in Rsvrs(y) : \A j :
                 Told(y, s, j) => Told(y, s, j)' \/ (y = x /\ s = r /\ j = k)
<1>0. Per(cmd, Seq(Cmds)) /\ Per(lost, SUBSET Cmds) /\ PipeMax \in Nat
  BY BrokerAssumption DEF PipesTyped
<1>1. cmd[x][r] \in Seq(Cmds) /\ lost[x][r] \in SUBSET Cmds BY <1>0, Get
<1> DEFINE v == Tail(cmd[x][r])
           w == lost[x][r] \ {k}
<1>2. cmd' = [cmd EXCEPT ![x][r] = v] /\ lost' = [lost EXCEPT ![x][r] = w] OBVIOUS
<1>3. v \in Seq(Cmds) /\ w \in SUBSET Cmds BY <1>1
<1>4. Len(v) <= PipeMax
  <2>1. Len(v) <= Len(cmd[x][r]) /\ Len(cmd[x][r]) <= PipeMax /\ Len(v) \in Nat /\ Len(cmd[x][r]) \in Nat
    BY <1>1 DEF PipesTyped
  <2> QED BY <2>1, <1>0
<1>5. \A i \in DOMAIN cmd[x][r] : cmd[x][r][i] = k \/ \E h \in DOMAIN v : v[h] = cmd[x][r][i]
  <2> TAKE i \in DOMAIN cmd[x][r]
  <2>1. i = 1 => cmd[x][r][i] = k BY <1>1
  <2>2. i # 1 => i - 1 \in DOMAIN v /\ v[i - 1] = cmd[x][r][i] BY <1>1
  <2> QED BY <2>1, <2>2
<1>6. \A j \in lost[x][r] : j = k \/ j \in w OBVIOUS
<1> HIDE DEF v, w
<1>7. /\ Per(cmd', Seq(Cmds)) /\ cmd'[x][r] = v
      /\ \A y \in Ctxs : \A s \in Rsvrs(y) : y # x \/ s # r => cmd'[y][s] = cmd[y][s]
  <2>1. IsPut(cmd', cmd, x, r, v, Seq(Cmds)) BY <1>0, <1>2, <1>3, Put, Zenon
  <2> QED BY <2>1 DEF IsPut
<1>8. /\ Per(lost', SUBSET Cmds) /\ lost'[x][r] = w
      /\ \A y \in Ctxs : \A s \in Rsvrs(y) : y # x \/ s # r => lost'[y][s] = lost[y][s]
  <2>1. IsPut(lost', lost, x, r, w, SUBSET Cmds) BY <1>0, <1>2, <1>3, Put, Zenon
  <2> QED BY <2>1 DEF IsPut
<1>9. PipesTyped' BY <1>4, <1>7, <1>8 DEF PipesTyped
<1>10. \A y \in Ctxs : \A s \in Rsvrs(y) : \A j :
           Told(y, s, j) => Told(y, s, j)' \/ (y = x /\ s = r /\ j = k)
  <2> SUFFICES ASSUME NEW y \in Ctxs, NEW s \in Rsvrs(y), NEW j, Told(y, s, j)
               PROVE  Told(y, s, j)' \/ (y = x /\ s = r /\ j = k)
    OBVIOUS
  <2>1. CASE y = x /\ s = r
    <3>1. CASE j \in lost[x][r] BY <2>1, <3>1, <1>6, <1>8 DEF Told
    <3>2. CASE \E i \in DOMAIN cmd[x][r] : cmd[x][r][i] = j BY <2>1, <3>2, <1>5, <1>7 DEF Told
    <3> QED BY <2>1, <3>1, <3>2 DEF Told
  <2>2. CASE ~(y = x /\ s = r)
    <3>1. cmd'[y][s] = cmd[y][s] /\ lost'[y][s] = lost[y][s] BY <2>2, <1>7, <1>8
    <3> QED BY <3>1 DEF Told
  <2> QED BY <2>1, <2>2
<1> QED BY <1>9, <1>10

\* A queue of a receiver gets an element, or loses its first.
IsAppend(g, f, x, r, v, S) ==
    /\ Per(g, Seq(S)) /\ g[x][r] = Append(f[x][r], v) /\ Len(g[x][r]) = Len(f[x][r]) + 1
    /\ \A i \in 1 .. Len(f[x][r]) : g[x][r][i] = f[x][r][i]
    /\ g[x][r][Len(f[x][r]) + 1] = v
    /\ f[x][r] \in Seq(S)
    /\ \A y \in Ctxs : \A s \in Rsvrs(y) : y # x \/ s # r => g[y][s] = f[y][s]
IsTail(g, f, x, r, S) ==
    /\ Per(g, Seq(S)) /\ g[x][r] = Tail(f[x][r]) /\ Len(g[x][r]) = Len(f[x][r]) - 1
    /\ \A i \in 1 .. Len(g[x][r]) : g[x][r][i] = f[x][r][i + 1]
    /\ f[x][r] \in Seq(S) /\ Head(f[x][r]) \in S /\ Head(f[x][r]) = f[x][r][1] /\ Len(f[x][r]) >= 1
    /\ \A y \in Ctxs : \A s \in Rsvrs(y) : y # x \/ s # r => g[y][s] = f[y][s]

LEMMA QueueAppend ==
    ASSUME NEW S, NEW f, Per(f, Seq(S)), NEW x \in Ctxs, NEW r \in Rsvrs(x), NEW v \in S,
           NEW g, g = [f EXCEPT ![x][r] = Append(@, v)]
    PROVE  IsAppend(g, f, x, r, v, S)
<1>1. f[x][r] \in Seq(S) BY Get
<1> DEFINE l == f[x][r]
           w == Append(l, v)
<1>2. g = [f EXCEPT ![x][r] = w] OBVIOUS
<1>3. /\ w \in Seq(S) /\ Len(w) = Len(l) + 1 /\ w[Len(l) + 1] = v
      /\ \A i \in 1 .. Len(l) : w[i] = l[i]
  BY <1>1
<1>4. w = Append(l, v) OBVIOUS
<1> HIDE DEF w
<1>5. /\ Per(g, Seq(S)) /\ g[x][r] = w
      /\ \A y \in Ctxs : \A s \in Rsvrs(y) : y # x \/ s # r => g[y][s] = f[y][s]
  <2>1. IsPut(g, f, x, r, w, Seq(S)) BY <1>2, <1>3, Put, Zenon
  <2> QED BY <2>1 DEF IsPut
<1> QED BY <1>1, <1>3, <1>4, <1>5 DEF IsAppend

LEMMA QueueTail ==
    ASSUME NEW S, NEW f, Per(f, Seq(S)), NEW x \in Ctxs, NEW r \in Rsvrs(x), f[x][r] # <<>>,
           NEW g, g = [f EXCEPT ![x][r] = Tail(@)]
    PROVE  IsTail(g, f, x, r, S)
<1>1. f[x][r] \in Seq(S) BY Get
<1> DEFINE l == f[x][r]
           w == Tail(l)
<1>2. g = [f EXCEPT ![x][r] = w] OBVIOUS
<1>3. /\ w \in Seq(S) /\ Len(w) = Len(l) - 1 /\ Head(l) \in S /\ Head(l) = l[1] /\ Len(l) >= 1
      /\ \A i \in 1 .. Len(w) : w[i] = l[i + 1]
  BY <1>1
<1>4. w = Tail(l) OBVIOUS
<1> HIDE DEF w
<1>5. /\ Per(g, Seq(S)) /\ g[x][r] = w
      /\ \A y \in Ctxs : \A s \in Rsvrs(y) : y # x \/ s # r => g[y][s] = f[y][s]
  <2>1. IsPut(g, f, x, r, w, Seq(S)) BY <1>2, <1>3, Put, Zenon
  <2> QED BY <2>1 DEF IsPut
<1> QED BY <1>1, <1>3, <1>4, <1>5 DEF IsTail
-----------------------------------------------------------------------------
(* Messages.                                                               *)
LEMMA ScriptIs ==
    ASSUME Typed, NEW c \in Conns
    PROVE  script[c] \in Seq(Requests)
<1>1. script \in Scripts BY DEF Typed
<1>2. script \in [Conns -> Seq(Requests)] BY <1>1, BrokerAssumption
<1> QED BY <1>2

LEMMA ArrivingIs ==
    ASSUME Typed, NEW c \in Conns, conn[c].n < Len(script[c])
    PROVE  /\ Arriving(c) \in Mesgs
           /\ Arriving(c).kind = "AUTH_REQ" => conn[c].n = 0 /\ c \notin Up
           /\ Arriving(c).kind = "SUB_REQ" => Arriving(c).type \in Types
<1>1. conn[c].n \in Nat BY DEF Typed, Scks
<1>1a. script \in Scripts BY DEF Typed
<1>2. script \in Scripts /\ script \in [Conns -> Seq(Requests)] BY <1>1a, BrokerAssumption
<1>3. PICK i \in Nat : i = conn[c].n + 1 BY <1>1
<1>4. i \in DOMAIN script[c] /\ script[c][i] \in Requests BY <1>1, <1>2, <1>3
<1>5. Arriving(c) = script[c][i] BY <1>3 DEF Arriving
<1>6. script[c][i].id \in Ids BY <1>2, <1>4 DEF Ids
<1>7. script[c][i] \in Mesgs BY <1>4, <1>6 DEF Requests, Mesgs
<1>8. /\ script[c][i].kind = "AUTH_REQ" => i = 1 /\ c \notin Up
      /\ script[c][i].kind = "SUB_REQ" => script[c][i].type \in Types
  BY <1>2, <1>4, BrokerAssumption
<1> QED BY <1>1, <1>3, <1>5, <1>7, <1>8

LEMMA AckIs == Ack("AUTH_ACK") \in Mesgs /\ Ack("KPALIVE_ACK") \in Mesgs
BY DEF Ack, Mesgs

-----------------------------------------------------------------------------
(* Steps of a connection that nobody else sees.                            *)
LEMMA MinorOnly ==
    ASSUME BInv, Minor, conn' \in [Conns -> Scks], got' \in [Conns -> Seq(Mesgs)],
           \A c \in Conns : conn'[c].idx + Len(conn'[c].iov) <= IovMax,
           UNCHANGED <<script, lsid, connq, cmd, sendq, recvq, distq, map, sub, pend, ref, lost, aborted>>
    PROVE  BInv'
<1>1. Typed' BY DEF BInv, Typed
<1>2. Within' BY DEF BInv, Within
<1>3. NoLostWakeup' BY DEF BInv, NoLostWakeup
<1>4. Placed' /\ AuthRight' /\ PendRight' /\ NewTypes' /\ NoStaleRoute' /\ SubsAgree' /\ BuffersHeld'
  BY MinorKeeps
<1> QED BY <1>1, <1>2, <1>3, <1>4 DEF BInv

\* What a connection's record may become without anybody noticing.
SameSck(v, s) ==
    /\ v.st = s.st /\ v.rsvr = s.rsvr /\ v.nid = s.nid /\ v.gid = s.gid /\ v.auth = s.auth
    /\ v.subs = s.subs /\ v.base = s.base /\ v.n = s.n

LEMMA SckMinor ==
    ASSUME BInv, NEW c \in Conns, NEW v \in Scks, SameSck(v, conn[c]), v.idx + Len(v.iov) <= IovMax,
           conn' = [conn EXCEPT ![c] = v]
    PROVE  /\ Minor /\ conn' \in [Conns -> Scks]
           /\ \A d \in Conns : conn'[d].idx + Len(conn'[d].iov) <= IovMax
<1>1. conn' \in [Conns -> Scks] BY DEF BInv, Typed
<1>2. conn'[c] = v /\ \A d \in Conns : d # c => conn'[d] = conn[d] BY DEF BInv, Typed
<1>3. Minor BY <1>2 DEF Minor, SameSck
<1>4. \A d \in Conns : conn'[d].idx + Len(conn'[d].iov) <= IovMax BY <1>2 DEF BInv, Within
<1> QED BY <1>1, <1>3, <1>4

LEMMA ClientCloseB ==
    ASSUME BInv, UNCHANGED script, NEW c \in Conns, ClientClose(c)
    PROVE  BInv'
<1>1. PICK s \in Scks : s = conn[c] BY DEF BInv, Typed
<1> DEFINE v == [s EXCEPT !.peer = FALSE]
<1>2. v \in Scks /\ SameSck(v, s) /\ v.idx = s.idx /\ v.iov = s.iov BY DEF Scks, SameSck
<1>3. conn' = [conn EXCEPT ![c] = v] BY <1>1 DEF ClientClose
<1>4. s.idx + Len(s.iov) <= IovMax BY <1>1 DEF BInv, Within
<1> HIDE DEF v
<1>5. /\ Minor /\ conn' \in [Conns -> Scks]
      /\ \A d \in Conns : conn'[d].idx + Len(conn'[d].iov) <= IovMax
  BY <1>1, <1>2, <1>3, <1>4, SckMinor
<1>6. got' \in [Conns -> Seq(Mesgs)] BY DEF BInv, Typed, ClientClose
<1> QED BY <1>5, <1>6, MinorOnly DEF ClientClose

LEMMA TickB ==
    ASSUME BInv, UNCHANGED script, Tick
    PROVE  BInv'
<1> DEFINE v(c) == [conn[c] EXCEPT !.rd = IF @ < 2 THEN @ + 1 ELSE 2, !.wr = IF @ < 2 THEN @ + 1 ELSE 2]
<1>1. \A c \in Conns : conn'[c] = IF Live(c) THEN v(c) ELSE conn[c] BY DEF Tick
<1>3. \A c \in Conns : conn[c] \in Scks BY DEF BInv, Typed
<1>4. \A c \in Conns : v(c) \in Scks /\ SameSck(v(c), conn[c]) /\ v(c).idx = conn[c].idx /\ v(c).iov = conn[c].iov
  <2> TAKE c \in Conns
  <2>1. conn[c].rd \in Nat /\ conn[c].wr \in Nat BY <1>3 DEF Scks
  <2>2. PICK a \in Nat, b \in Nat : /\ a = IF conn[c].rd < 2 THEN conn[c].rd + 1 ELSE 2
                                   /\ b = IF conn[c].wr < 2 THEN conn[c].wr + 1 ELSE 2
    BY <2>1
  <2>3. v(c) = [conn[c] EXCEPT !.rd = a, !.wr = b] BY <2>2
  <2> HIDE DEF v
  <2>4. conn[c] \in Scks BY <1>3
  <2>5. PICK s \in Scks : s = conn[c] BY <2>4
  <2>6. PICK w : w = v(c) OBVIOUS
  <2>7. w \in Scks /\ SameSck(w, s) /\ w.idx = s.idx /\ w.iov = s.iov
    BY <2>3, <2>5, <2>6 DEF Scks, SameSck
  <2> QED BY <2>5, <2>6, <2>7
<1> HIDE DEF v
<1>5. \A c \in Conns : /\ conn'[c] \in Scks /\ SameSck(conn'[c], conn[c])
                       /\ conn'[c].idx = conn[c].idx /\ conn'[c].iov = conn[c].iov
  <2> TAKE c \in Conns
  <2>1. CASE Live(c) BY <2>1, <1>1, <1>4
  <2>2. CASE ~Live(c)
    <3>1. conn'[c] = conn[c] BY <2>2, <1>1
    <3> QED BY <3>1, <1>3 DEF SameSck
  <2> QED BY <2>1, <2>2
<1>6. conn' \in [Conns -> Scks]
  <2>1. conn' = [c \in Conns |-> conn'[c]] BY DEF Tick
  <2> QED BY <1>5, <2>1
<1>7. Minor BY <1>5 DEF SameSck, Minor
<1>8. \A c \in Conns : conn'[c].idx + Len(conn'[c].iov) <= IovMax BY <1>5 DEF BInv, Within
<1>9. got' \in [Conns -> Seq(Mesgs)] BY DEF BInv, Typed, Tick
<1> QED BY <1>6, <1>7, <1>8, <1>9, MinorOnly DEF Tick

\* What the kernel takes of the iovec, and what is left of it.
Sent(m, k, room, iov, n) ==
    /\ SubSeq(iov, 1, n) \in Seq(Mesgs) /\ SubSeq(m, room + 1, Len(m)) \in Seq(Mesgs)
    /\ SubSeq(iov, n + 1, Len(iov)) \in Seq(Mesgs)
    /\ (IF n = Len(iov) THEN 0 ELSE k + n) \in Nat
    /\ (IF n = Len(iov) THEN 0 ELSE k + n) + Len(SubSeq(iov, n + 1, Len(iov))) <= IovMax

LEMMA SentIs ==
    ASSUME NEW i \in Seq(Mesgs), NEW m \in Seq(Mesgs), NEW k \in Nat, k + Len(i) <= IovMax,
           NEW room, room = MIN(IovMax - (k + Len(i)), Len(m)),
           NEW iov, iov = i \o SubSeq(m, 1, room), NEW n \in {0, Len(iov)}
    PROVE  Sent(m, k, room, iov, n)
<1>1. PICK a \in Nat, b \in Nat, z \in Nat : a = Len(i) /\ b = Len(m) /\ z = IovMax
  BY BrokerAssumption
<1>2. room \in Nat /\ room <= b /\ k + a + room <= z
  <2>1. room = IF z - (k + a) < b THEN z - (k + a) ELSE b BY <1>1 DEF MIN
  <2>2. k + a <= z BY <1>1
  <2> QED BY <2>1, <2>2
<1>3. PICK e \in Nat : e = room BY <1>2
<1> DEFINE s == SubSeq(m, 1, e)
<1>4. s \in Seq(Mesgs) /\ Len(s) = e BY <1>1, <1>2, <1>3, SMTT(30)
<1>5. iov = i \o s BY <1>3
<1> HIDE DEF s
<1>6. iov \in Seq(Mesgs) /\ Len(iov) = a + e BY <1>1, <1>4, <1>5, ConcatProperties
<1>7. PICK w \in Nat : w = Len(iov) BY <1>6
<1>8. PICK y \in Nat : y = n BY <1>7
<1>9. y = 0 \/ y = w BY <1>7, <1>8
<1>10. SubSeq(iov, 1, y) \in Seq(Mesgs) BY ONLY <1>6, <1>7, <1>9
<1>11. SubSeq(m, e + 1, Len(m)) \in Seq(Mesgs) BY ONLY m \in Seq(Mesgs), e \in Nat
<1>12. SubSeq(iov, y + 1, Len(iov)) \in Seq(Mesgs) BY ONLY <1>6, y \in Nat
<1>13. Len(SubSeq(iov, y + 1, Len(iov))) = w - y BY ONLY <1>6, <1>7, <1>9, y \in Nat
<1>14. (IF y = w THEN 0 ELSE k + y) \in Nat OBVIOUS
<1>15. (IF y = w THEN 0 ELSE k + y) + (w - y) <= z
  <2>1. k + w <= z BY <1>2, <1>3, <1>6, <1>7
  <2> QED BY ONLY <2>1, <1>9, y \in Nat, w \in Nat, k \in Nat, z \in Nat
<1> QED BY <1>1, <1>3, <1>7, <1>8, <1>10, <1>11, <1>12, <1>13, <1>14, <1>15 DEF Sent

LEMMA SendB ==
    ASSUME BInv, UNCHANGED script, NEW c \in Conns, rtmq_rsvr_trav_send(c), conn[c].peer
    PROVE  BInv'
<1> DEFINE sck == conn[c]
           room == MIN(IovMax - (sck.idx + Len(sck.iov)), Len(sck.mesg))
           iov == sck.iov \o SubSeq(sck.mesg, 1, room)
<1>1. sck \in Scks BY DEF BInv, Typed
<1>2. sck.iov \in Seq(Mesgs) /\ sck.mesg \in Seq(Mesgs) /\ sck.idx \in Nat
  <2>1. \A s \in Scks : s.iov \in Seq(Mesgs) /\ s.mesg \in Seq(Mesgs) /\ s.idx \in Nat BY ONLY TRUE DEF Scks
  <2> QED BY ONLY <1>1, <2>1
<1>3. sck.idx + Len(sck.iov) <= IovMax BY ONLY BInv, c \in Conns, SMTT(30) DEF BInv, Within
<1>4. PICK n \in {0, Len(iov)} :
        /\ got' = [got EXCEPT ![c] = @ \o SubSeq(iov, 1, n)]
        /\ conn' = [conn EXCEPT ![c] =
                             [sck EXCEPT !.wr = 0,
                                         !.mesg = SubSeq(sck.mesg, room + 1, Len(sck.mesg)),
                                         !.iov = SubSeq(iov, n + 1, Len(iov)),
                                         !.idx = IF n = Len(iov) THEN 0 ELSE sck.idx + n]]
        /\ UNCHANGED <<map, sub, ref, aborted>>
  BY ZenonT(60) DEF rtmq_rsvr_trav_send
<1>5. UNCHANGED <<lsid, connq, cmd, sendq, recvq, distq, pend, lost, ticks>> BY Zenon DEF rtmq_rsvr_trav_send
<1> DEFINE out == SubSeq(iov, 1, n)
           mesg == SubSeq(sck.mesg, room + 1, Len(sck.mesg))
           rest == SubSeq(iov, n + 1, Len(iov))
           idx == IF n = Len(iov) THEN 0 ELSE sck.idx + n
           v == [sck EXCEPT !.wr = 0, !.mesg = mesg, !.iov = rest, !.idx = idx]
<1>6. out \in Seq(Mesgs) /\ mesg \in Seq(Mesgs) /\ rest \in Seq(Mesgs) /\ idx \in Nat /\ idx + Len(rest) <= IovMax
  <2> HIDE DEF room, iov, sck
  <2>1. room = MIN(IovMax - (sck.idx + Len(sck.iov)), Len(sck.mesg)) BY DEF room
  <2>2. iov = sck.iov \o SubSeq(sck.mesg, 1, room) BY DEF iov
  <2>3. Sent(sck.mesg, sck.idx, room, iov, n) BY <1>2, <1>3, <2>1, <2>2, SentIs, Zenon
  <2> QED BY <2>3 DEF Sent
<1> HIDE DEF room, iov
<1>7. conn' = [conn EXCEPT ![c] = v]
  BY <1>4
<1>8. got' = [got EXCEPT ![c] = @ \o out] BY <1>4
<1> HIDE DEF out, mesg, rest, idx
<1>9. v \in Scks /\ SameSck(v, sck) /\ v.idx = idx /\ v.iov = rest BY <1>1, <1>6 DEF Scks, SameSck
<1>10. got' \in [Conns -> Seq(Mesgs)]
  <2>1. got[c] \o out \in Seq(Mesgs) BY <1>6 DEF BInv, Typed
  <2> QED BY <1>8, <2>1 DEF BInv, Typed
<1> HIDE DEF v
<1>11. /\ Minor /\ conn' \in [Conns -> Scks]
       /\ \A d \in Conns : conn'[d].idx + Len(conn'[d].iov) <= IovMax
  BY <1>6, <1>7, <1>9, SckMinor
<1> QED BY <1>4, <1>5, <1>10, <1>11, MinorOnly
-----------------------------------------------------------------------------
(* Steps of the queues.                                                    *)
LEMMA SameConn ==
    ASSUME BInv, UNCHANGED conn
    PROVE  /\ Minor /\ conn' \in [Conns -> Scks]
           /\ \A c \in Conns : conn'[c].idx + Len(conn'[c].iov) <= IovMax
BY DEF BInv, Typed, Within, Minor

LEMMA DistB ==
    ASSUME BInv, UNCHANGED script, NEW x \in Ctxs, NEW r \in Rsvrs(x), rtmq_rsvr_dist_data(x, r)
    PROVE  BInv'
<1>0. UNCHANGED <<got, lsid, connq, recvq, distq, map, sub, pend, ref, aborted, ticks>>
  BY DEF rtmq_rsvr_dist_data
<1>1. PipesTyped BY TypedPipes DEF BInv
<1>2. Per(sendq, Seq(Mesgs)) BY DEF BInv, Typed
<1>3. CASE sendq[x][r] = <<>>
  <2>1. /\ cmd' = [cmd EXCEPT ![x][r] = Tail(@)] /\ lost' = [lost EXCEPT ![x][r] = @ \ {"DIST_REQ"}]
        /\ UNCHANGED <<conn, sendq>>
    BY <1>3 DEF rtmq_rsvr_dist_data
  <2>2. cmd[x][r] # <<>> /\ Head(cmd[x][r]) = "DIST_REQ" BY DEF rtmq_rsvr_dist_data, Command
  <2>3. /\ PipesTyped'
        /\ \A y \in Ctxs : \A s \in Rsvrs(y) : \A j :
              Told(y, s, j) => Told(y, s, j)' \/ (y = x /\ s = r /\ j = "DIST_REQ")
    BY <1>1, <2>1, <2>2, PopTells
  <2>4. AllTold'
    <3>1. \A y \in Ctxs : \A s \in Rsvrs(y) : /\ sendq[y][s] # <<>> => Told(y, s, "DIST_REQ")'
                                              /\ connq[y][s] # <<>> => Told(y, s, "ADD_SCK")'
      BY <1>3, <2>3, WakeIs DEF BInv, AllTold
    <3>2. \A y \in Ctxs : \A s \in Rsvrs(y) : /\ sendq'[y][s] # <<>> => Told(y, s, "DIST_REQ")'
                                              /\ connq'[y][s] # <<>> => Told(y, s, "ADD_SCK")'
      BY <3>1, <2>1, <1>0
    <3> QED BY <3>2 DEF AllTold
  <2>5. NoLostWakeup' BY <2>4, WakeIs, PTL
  <2>6. Minor /\ conn' \in [Conns -> Scks] /\ \A c \in Conns : conn'[c].idx + Len(conn'[c].iov) <= IovMax
    BY <2>1, SameConn
  <2>7. Placed' /\ AuthRight' /\ PendRight' /\ NewTypes' /\ NoStaleRoute' /\ SubsAgree' /\ BuffersHeld'
    BY <1>0, <2>6, MinorKeeps
  <2>8. Typed' BY <1>0, <2>1, <2>3 DEF BInv, Typed, PipesTyped
  <2>9. Within' BY <1>0, <2>1, <2>3 DEF BInv, Within, PipesTyped
  <2> QED BY <2>5, <2>7, <2>8, <2>9 DEF BInv
<1>4. CASE sendq[x][r] # <<>>
  <2> DEFINE m == Head(sendq[x][r])
             dests == {c \in Conns : /\ Live(c) /\ CtxOf[c] = x /\ conn[c].rsvr = r
                                     /\ conn[c].nid = m.dest}
  <2>1. /\ sendq' = [sendq EXCEPT ![x][r] = Tail(@)] /\ UNCHANGED <<cmd, lost>>
        /\ \/ UNCHANGED conn
           \/ \E c \in dests : conn' = [conn EXCEPT ![c].mesg = Append(@, m)]
    BY <1>4 DEF rtmq_rsvr_dist_data
  <2>2. /\ Per(sendq', Seq(Mesgs)) /\ sendq'[x][r] = Tail(sendq[x][r])
        /\ Len(sendq'[x][r]) = Len(sendq[x][r]) - 1 /\ sendq[x][r] \in Seq(Mesgs) /\ m \in Mesgs
        /\ \A y \in Ctxs : \A s \in Rsvrs(y) : y # x \/ s # r => sendq'[y][s] = sendq[y][s]
    <3>1. IsTail(sendq', sendq, x, r, Mesgs) BY <1>2, <1>4, <2>1, QueueTail, Zenon
    <3> QED BY <3>1 DEF IsTail
  <2> HIDE DEF m
  <2>3. Minor /\ conn' \in [Conns -> Scks] /\ \A c \in Conns : conn'[c].idx + Len(conn'[c].iov) <= IovMax
    <3>1. CASE UNCHANGED conn BY <3>1, SameConn
    <3>2. CASE \E c \in dests : conn' = [conn EXCEPT ![c].mesg = Append(@, m)]
      <4>1. PICK c \in Conns : conn' = [conn EXCEPT ![c].mesg = Append(@, m)] BY <3>2
      <4>2. PICK s \in Scks : s = conn[c] BY DEF BInv, Typed
      <4>a. s.mesg \in Seq(Mesgs) BY DEF Scks
      <4>b. Append(s.mesg, m) \in Seq(Mesgs) BY <2>2, <4>a
      <4>3. PICK w \in Seq(Mesgs) : w = Append(s.mesg, m) BY <4>b
      <4> DEFINE v == [s EXCEPT !.mesg = w]
      <4>4. v \in Scks /\ SameSck(v, s) /\ v.idx = s.idx /\ v.iov = s.iov BY DEF Scks, SameSck
      <4>5. conn' = [conn EXCEPT ![c] = v] BY <4>1, <4>2, <4>3
      <4>6. s.idx + Len(s.iov) <= IovMax BY <4>2 DEF BInv, Within
      <4> HIDE DEF v
      <4> QED BY <4>2, <4>4, <4>5, <4>6, SckMinor
    <3> QED BY <2>1, <3>1, <3>2
  <2>4. Placed' /\ AuthRight' /\ PendRight' /\ NewTypes' /\ NoStaleRoute' /\ SubsAgree' /\ BuffersHeld'
    BY <1>0, <2>3, MinorKeeps
  <2>5. NoLostWakeup'
    <3>1. \A y \in Ctxs : \A s \in Rsvrs(y) : sendq'[y][s] # <<>> => sendq[y][s] # <<>>
      BY <1>4, <2>2
    <3> QED BY <3>1, <1>0, <2>1 DEF BInv, NoLostWakeup
  <2>6. Typed' BY <1>0, <2>1, <2>2, <2>3 DEF BInv, Typed
  <2>7. \A y \in Ctxs : \A s \in Rsvrs(y) : Len(sendq'[y][s]) <= SendqMax
    <3> SUFFICES ASSUME NEW y \in Ctxs, NEW s \in Rsvrs(y) PROVE Len(sendq'[y][s]) <= SendqMax
      OBVIOUS
    <3>1. Len(sendq[y][s]) <= SendqMax /\ SendqMax \in Nat BY BrokerAssumption DEF BInv, Within
    <3>2. CASE y = x /\ s = r
      <4>1. Len(sendq[x][r]) \in Nat BY <2>2
      <4> QED BY <3>1, <3>2, <4>1, <2>2
    <3>3. CASE ~(y = x /\ s = r) BY <3>1, <3>3, <2>2
    <3> QED BY <3>2, <3>3
  <2>8. Within' BY <1>0, <2>1, <2>3, <2>7 DEF BInv, Within
  <2> QED BY <2>4, <2>5, <2>6, <2>8 DEF BInv
<1> QED BY <1>3, <1>4

LEMMA DsvrB ==
    ASSUME BInv, UNCHANGED script, NEW x \in Ctxs, rtmq_dsvr_dist_data_hdl(x)
    PROVE  BInv'
<1> DEFINE m == Head(distq[x])
           rsvrs == rtmq_node_to_svr_map_rand(x, m.dest)
<1>0. UNCHANGED <<conn, got, lsid, connq, recvq, map, sub, pend, ref, aborted, ticks>>
  BY DEF rtmq_dsvr_dist_data_hdl
<1>1. /\ distq[x] # <<>> /\ distq' = [distq EXCEPT ![x] = Tail(@)]
      /\ \/ UNCHANGED <<sendq, cmd, lost>>
         \/ \E r \in rsvrs : /\ Len(sendq[x][r]) < SendqMax
                             /\ sendq' = [sendq EXCEPT ![x][r] = Append(@, m)]
                             /\ PipeWrite(x, r, "DIST_REQ")
  BY DEF rtmq_dsvr_dist_data_hdl
<1>2. distq[x] \in Seq(Mesgs) BY DEF BInv, Typed
<1>3. m \in Mesgs BY <1>1, <1>2
<1>4. PICK w \in Seq(Mesgs) : w = Tail(distq[x])
  <2>1. Tail(distq[x]) \in Seq(Mesgs) BY <1>1, <1>2
  <2> QED BY <2>1
<1>5. Len(w) <= DistqMax
  <2>1. Len(w) <= Len(distq[x]) /\ Len(w) \in Nat /\ Len(distq[x]) \in Nat BY <1>1, <1>2, <1>4
  <2>2. Len(distq[x]) <= DistqMax /\ DistqMax \in Nat BY BrokerAssumption DEF BInv, Within
  <2> QED BY <2>1, <2>2
<1>6. distq' = [distq EXCEPT ![x] = w] BY <1>1, <1>4
<1>7. distq' \in [Ctxs -> Seq(Mesgs)] /\ \A y \in Ctxs : Len(distq'[y]) <= DistqMax
  BY <1>5, <1>6 DEF BInv, Typed, Within
<1>8. rsvrs \subseteq Rsvrs(x)
  <2>1. \A n \in Nids : DOMAIN map[x][n] = 1 .. Len(map[x][n]) BY DEF BInv, Typed
  <2> QED BY <2>1 DEF rtmq_node_to_svr_map_rand, BInv, Placed
<1> HIDE DEF m, rsvrs
<1>9. Minor /\ conn' \in [Conns -> Scks] /\ \A c \in Conns : conn'[c].idx + Len(conn'[c].iov) <= IovMax
  BY <1>0, SameConn
<1>10. Placed' /\ AuthRight' /\ PendRight' /\ NewTypes' /\ NoStaleRoute' /\ SubsAgree' /\ BuffersHeld'
  BY <1>0, <1>9, MinorKeeps
<1>11. CASE UNCHANGED <<sendq, cmd, lost>>
  <2>1. NoLostWakeup' BY <1>0, <1>11 DEF BInv, NoLostWakeup
  <2>2. Typed' BY <1>0, <1>7, <1>9, <1>11 DEF BInv, Typed
  <2>3. Within' BY <1>0, <1>7, <1>9, <1>11 DEF BInv, Within
  <2> QED BY <2>1, <2>2, <2>3, <1>10 DEF BInv
<1>12. ASSUME NEW r \in rsvrs, Len(sendq[x][r]) < SendqMax,
              sendq' = [sendq EXCEPT ![x][r] = Append(@, m)], PipeWrite(x, r, "DIST_REQ")
       PROVE  BInv'
  <2>0. r \in Rsvrs(x) BY <1>8
  <2>1. Per(sendq, Seq(Mesgs)) BY DEF BInv, Typed
  <2>2. /\ Per(sendq', Seq(Mesgs)) /\ Len(sendq'[x][r]) = Len(sendq[x][r]) + 1 /\ sendq[x][r] \in Seq(Mesgs)
        /\ \A y \in Ctxs : \A s \in Rsvrs(y) : y # x \/ s # r => sendq'[y][s] = sendq[y][s]
    <3>1. IsAppend(sendq', sendq, x, r, m, Mesgs) BY <1>3, <1>12, <2>0, <2>1, QueueAppend, Zenon
    <3> QED BY <3>1 DEF IsAppend
  <2>3. PipesTyped BY TypedPipes DEF BInv
  <2>4. /\ PipesTyped' /\ Told(x, r, "DIST_REQ")'
        /\ \A y \in Ctxs : \A s \in Rsvrs(y) : \A j : Told(y, s, j) => Told(y, s, j)'
    BY <1>12, <2>0, <2>3, WriteTells DEF Cmds
  <2>5. NoLostWakeup'
    <3>1. \A y \in Ctxs : \A s \in Rsvrs(y) : /\ sendq'[y][s] # <<>> => Told(y, s, "DIST_REQ")'
                                              /\ connq[y][s] # <<>> => Told(y, s, "ADD_SCK")'
      BY <2>2, <2>4, WakeIs DEF BInv, AllTold
    <3>2. \A y \in Ctxs : \A s \in Rsvrs(y) : /\ sendq'[y][s] # <<>> => Told(y, s, "DIST_REQ")'
                                              /\ connq'[y][s] # <<>> => Told(y, s, "ADD_SCK")'
      BY <3>1, <1>0
    <3>3. AllTold' BY <3>2 DEF AllTold
    <3> QED BY <3>3, WakeIs, PTL
  <2>6. Typed' BY <1>0, <1>7, <1>9, <2>2, <2>4 DEF BInv, Typed, PipesTyped
  <2>7. \A y \in Ctxs : \A s \in Rsvrs(y) : Len(sendq'[y][s]) <= SendqMax
    <3> SUFFICES ASSUME NEW y \in Ctxs, NEW s \in Rsvrs(y) PROVE Len(sendq'[y][s]) <= SendqMax
      OBVIOUS
    <3>1. Len(sendq[y][s]) <= SendqMax /\ SendqMax \in Nat BY BrokerAssumption DEF BInv, Within
    <3>2. CASE y = x /\ s = r
      <4>1. Len(sendq[x][r]) \in Nat BY <2>2
      <4> QED BY <3>1, <3>2, <4>1, <2>2, <1>12
    <3>3. CASE ~(y = x /\ s = r) BY <3>1, <3>3, <2>2
    <3> QED BY <3>2, <3>3
  <2>8. Within' BY <1>0, <1>7, <1>9, <2>4, <2>7 DEF BInv, Within, PipesTyped
  <2> QED BY <2>5, <2>6, <2>8, <1>10 DEF BInv
<1> QED BY <1>1, <1>11, <1>12
-----------------------------------------------------------------------------
(* The workers.                                                            *)
LEMMA AsyncIs ==
    ASSUME NEW q \in Seq(Mesgs), Len(q) <= DistqMax, NEW ms \in Seq(Mesgs)
    PROVE  rtmq_async_send(q, ms) \in Seq(Mesgs) /\ Len(rtmq_async_send(q, ms)) <= DistqMax
<1>1. PICK a \in Nat, b \in Nat, z \in Nat : a = Len(q) /\ b = Len(ms) /\ z = DistqMax
  BY BrokerAssumption
<1>2. MIN(DistqMax - Len(q), Len(ms)) = IF z - a < b THEN z - a ELSE b BY <1>1 DEF MIN
<1>3. (IF z - a < b THEN z - a ELSE b) \in 0 .. b /\ a + (IF z - a < b THEN z - a ELSE b) <= z BY <1>1
<1>4. PICK e \in Nat : e = IF z - a < b THEN z - a ELSE b
  <2>1. (IF z - a < b THEN z - a ELSE b) \in Nat BY <1>1, <1>3
  <2> QED BY <2>1
<1>5. e <= b /\ a + e <= z BY <1>3, <1>4
<1> DEFINE s == SubSeq(ms, 1, e)
<1>6. s \in Seq(Mesgs) /\ Len(s) = e BY <1>1, <1>5
<1>7. rtmq_async_send(q, ms) = q \o s BY <1>2, <1>4 DEF rtmq_async_send
<1> HIDE DEF s
<1>8. q \o s \in Seq(Mesgs) /\ Len(q \o s) = a + e BY <1>1, <1>6, ConcatProperties
<1> QED BY <1>1, <1>5, <1>7, <1>8

LEMMA PublishIs ==
    ASSUME NEW m \in Mesgs, NEW D, D \subseteq Gids, NEW pick \in [D -> Conns], NEW o \in Orders(D)
    PROVE  rtmq_publish(m, pick, o) \in Seq(Mesgs)
<1>1. IsFiniteSet(Gids)
  <2>1. GidOf \in [Conns -> Gids] BY BrokerAssumption
  <2>2. GidOf \in Surjection(Conns, Gids) BY <2>1 DEF Surjection, Gids
  <2> QED BY <2>2, FiniteSpots, FS_Surjection
<1>2. Cardinality(D) \in Nat BY <1>1, FS_Subset, FS_CardinalityType
<1>3. o \in [1 .. Cardinality(D) -> D] BY DEF Orders
<1>4. PICK k \in Nat : k = Cardinality(D) BY <1>2
<1>5. \A c \in Conns : NidOf[c] \in Nids BY Ranges
<1>6. \A i \in 1 .. k : [m EXCEPT !.dest = NidOf[pick[o[i]]]] \in Mesgs
  <2> TAKE i \in 1 .. k
  <2>1. NidOf[pick[o[i]]] \in Nids BY <1>3, <1>4, <1>5
  <2> QED BY <2>1 DEF Mesgs
<1>7. rtmq_publish(m, pick, o) = [i \in 1 .. k |-> [m EXCEPT !.dest = NidOf[pick[o[i]]]]]
  BY <1>3, <1>4 DEF rtmq_publish
<1> QED BY <1>6, <1>7

LEMMA HandlerIs ==
    ASSUME BInv, NEW m \in Mesgs, frwd_mesg_from_bc_def_hdl(m) \/ frwd_mesg_from_fw_def_hdl(m)
    PROVE  distq' \in [Ctxs -> Seq(Mesgs)] /\ \A x \in Ctxs : Len(distq'[x]) <= DistqMax
<1>1. distq \in [Ctxs -> Seq(Mesgs)] /\ \A x \in Ctxs : Len(distq[x]) <= DistqMax
  BY DEF BInv, Typed, Within
<1>2. "forward" \in Ctxs /\ "backend" \in Ctxs BY BrokerAssumption
<1>3. ASSUME NEW x \in Ctxs, NEW ms \in Seq(Mesgs), distq' = [distq EXCEPT ![x] = rtmq_async_send(@, ms)]
      PROVE  distq' \in [Ctxs -> Seq(Mesgs)] /\ \A y \in Ctxs : Len(distq'[y]) <= DistqMax
  <2>1. rtmq_async_send(distq[x], ms) \in Seq(Mesgs) /\ Len(rtmq_async_send(distq[x], ms)) <= DistqMax
    BY <1>1, AsyncIs
  <2> QED BY <1>1, <1>3, <2>1
<1>4. CASE frwd_mesg_from_bc_def_hdl(m)
  <2>1. <<m>> \in Seq(Mesgs) OBVIOUS
  <2> QED BY <1>2, <1>3, <1>4, <2>1 DEF frwd_mesg_from_bc_def_hdl
<1>5. CASE frwd_mesg_from_fw_def_hdl(m)
  <2>1. CASE m.type \notin DOMAIN sub["backend"]
    <3>1. distq' = distq BY <1>5, <2>1 DEF frwd_mesg_from_fw_def_hdl
    <3> QED BY <1>1, <3>1
  <2>2. CASE m.type \in DOMAIN sub["backend"]
    <3> DEFINE D == DOMAIN sub["backend"][m.type]
    <3>1. IsGroups(sub["backend"][m.type]) BY <1>2, <2>2 DEF BInv, Typed, IsTab
    <3>2. D \subseteq Gids BY <3>1 DEF IsGroups
    <3>3. PICK pick \in [D -> Conns], o \in Orders(D) :
            distq' = [distq EXCEPT !["backend"] = rtmq_async_send(@, rtmq_publish(m, pick, o))]
      BY <1>5, <2>2 DEF frwd_mesg_from_fw_def_hdl
    <3> HIDE DEF D
    <3>4. rtmq_publish(m, pick, o) \in Seq(Mesgs) BY <3>2, PublishIs
    <3> QED BY <1>2, <1>3, <3>3, <3>4
  <2> QED BY <2>1, <2>2
<1> QED BY <1>4, <1>5

LEMMA WorkerB ==
    ASSUME BInv, ~aborted, UNCHANGED script, NEW x \in Ctxs, NEW q \in Recvqs, rtmq_worker_proc(x, q)
    PROVE  BInv'
<1> DEFINE it == Head(recvq[x][q])
<1>0. UNCHANGED <<conn, got, lsid, connq, cmd, sendq, map, sub, pend, lost, aborted, ticks>>
  BY DEF rtmq_worker_proc
<1>1. /\ recvq[x][q] # <<>> /\ recvq' = [recvq EXCEPT ![x][q] = Tail(@)]
      /\ ref' = [ref EXCEPT ![it.base] = @ - 1]
      /\ frwd_mesg_from_bc_def_hdl(it.mesg) \/ frwd_mesg_from_fw_def_hdl(it.mesg)
  BY DEF rtmq_worker_proc
<1>2. recvq[x][q] \in Seq(Items) BY DEF BInv, Typed
<1>3. it \in Items BY <1>1, <1>2
<1>4. it.mesg \in Mesgs /\ it.base \in Bufs BY <1>3 DEF Items
<1>5. distq' \in [Ctxs -> Seq(Mesgs)] /\ \A y \in Ctxs : Len(distq'[y]) <= DistqMax
  BY <1>1, <1>4, HandlerIs
<1>6. recvq' \in [Ctxs -> [Recvqs -> Seq(Items)]] /\ \A y \in Ctxs, p \in Recvqs : Len(recvq'[y][p]) <= RecvqMax
  <2>1. PICK w \in Seq(Items) : w = Tail(recvq[x][q])
    <3>1. Tail(recvq[x][q]) \in Seq(Items) BY <1>1, <1>2
    <3> QED BY <3>1
  <2>2. Len(w) <= RecvqMax
    <3>1. Len(w) <= Len(recvq[x][q]) /\ Len(w) \in Nat /\ Len(recvq[x][q]) \in Nat BY <1>1, <1>2, <2>1
    <3>2. Len(recvq[x][q]) <= RecvqMax /\ RecvqMax \in Nat BY BrokerAssumption DEF BInv, Within
    <3> QED BY <3>1, <3>2
  <2>3. recvq' = [recvq EXCEPT ![x][q] = w] BY <1>1, <2>1
  <2> QED BY <2>2, <2>3 DEF BInv, Typed, Within
<1>7. ref' \in [Bufs -> Int] BY <1>1, <1>4 DEF BInv, Typed
<1>8. Minor /\ conn' \in [Conns -> Scks] /\ \A c \in Conns : conn'[c].idx + Len(conn'[c].iov) <= IovMax
  BY <1>0, SameConn
<1>9. Placed' /\ AuthRight' /\ PendRight' /\ NewTypes' /\ NoStaleRoute' /\ SubsAgree'
  BY <1>0, <1>8, MinorKeeps
<1>10. NoLostWakeup' BY <1>0, WakeSame, Zenon
<1>11. Typed' BY <1>0, <1>5, <1>6, <1>7, <1>8 DEF BInv, Typed
<1>12. Within' BY <1>0, <1>5, <1>6, <1>8 DEF BInv, Within
<1>13. BuffersHeld'
  <2> SUFFICES ASSUME NEW b \in Bufs PROVE ref'[b] = Holders(b)'
    BY DEF BuffersHeld
  <2>1. Ch(b)' = Ch(b) BY <1>0 DEF Ch, Live
  <2>2. Cardinality(Rh(b)) = Cardinality(Rh(b)') + Bit(it.base = b)
    <3>1. Typed /\ Within BY DEF BInv
    <3>2. /\ Head(recvq[x][q]).base = b => Cardinality(Rh(b)) = Cardinality(Rh(b)') + 1
          /\ Head(recvq[x][q]).base # b => Cardinality(Rh(b)) = Cardinality(Rh(b)')
      BY <1>1, <3>1, RhTail, Zenon
    <3>3. Cardinality(Rh(b)) \in Nat BY HoldersAre
    <3>4. CASE it.base = b BY <3>2, <3>4 DEF Bit
    <3>5. CASE it.base # b BY <3>2, <3>3, <3>5 DEF Bit
    <3> QED BY <3>4, <3>5
  <2>3. Holders(b) = Cardinality(Ch(b)) + Cardinality(Rh(b)) /\ Cardinality(Ch(b)) \in Nat BY HoldersAre
  <2>4. Holders(b)' = Cardinality(Ch(b)') + Cardinality(Rh(b)') BY DEF Holders, Ch, Rh
  <2>5. Cardinality(Rh(b)') \in Nat
    <3>1. Rh(b)' \subseteq Ctxs \X Recvqs \X (1 .. RecvqMax) BY DEF Rh
    <3> QED BY <3>1, FiniteSpots
  <2>6. ref[b] = Holders(b) BY DEF BInv, BuffersHeld
  <2>7. ref'[b] = ref[b] - Bit(it.base = b)
    <3>1. CASE it.base = b BY <3>1, <1>1 DEF Bit, BInv, Typed
    <3>2. CASE it.base # b
      <4>1. ref'[b] = ref[b] /\ ref[b] \in Int BY <3>2, <1>1 DEF BInv, Typed
      <4> QED BY <3>2, <4>1 DEF Bit
    <3> QED BY <3>1, <3>2
  <2>8. Bit(it.base = b) \in Nat BY DEF Bit
  <2> HIDE DEF it
  <2>9. PICK i \in Nat, j \in Nat, k \in Nat : i = Cardinality(Ch(b)) /\ j = Cardinality(Rh(b)') /\ k = Bit(it.base = b)
    BY <2>3, <2>5, <2>8
  <2>10. ref[b] = i + (j + k) BY <2>2, <2>3, <2>6, <2>9
  <2>11. ref'[b] = i + j BY <2>7, <2>9, <2>10
  <2> QED BY <2>1, <2>4, <2>9, <2>11
<1> QED BY <1>9, <1>10, <1>11, <1>12, <1>13 DEF BInv
-----------------------------------------------------------------------------
(* A connection is closed.                                                 *)
Closed == [FreshSck EXCEPT !.st = "closed"]

\* What closing c does to the tables of its context and to its buffer.
Gone(c) ==
    /\ conn' = [conn EXCEPT ![c] = Closed]
    /\ \E k : /\ map' = [map EXCEPT ![CtxOf[c]] = MapDel(@, k, conn[c].rsvr)]
              /\ conn[c].auth => k = conn[c].nid
    /\ sub' = [y \in Ctxs |-> sub'[y]]
    /\ \A y \in Ctxs : y # CtxOf[c] => sub'[y] = sub[y]
    /\ Removed(sub'[CtxOf[c]], sub[CtxOf[c]])
    /\ \A t, g : Subs(sub'[CtxOf[c]], t, g) = IF t \in conn[c].subs /\ g = conn[c].gid
                                              THEN Subs(sub[CtxOf[c]], t, g) \ {c}
                                              ELSE Subs(sub[CtxOf[c]], t, g)
    /\ ref' \in [Bufs -> Int] /\ aborted' \in BOOLEAN
    /\ aborted' \/ ref' = [ref EXCEPT ![conn[c].base] = @ - 1]
    /\ IsPut(pend', pend, CtxOf[c], conn[c].rsvr, NoPend, Pends)
    /\ \A d : pend[CtxOf[c]][conn[c].rsvr] # <<"query", d>>
    /\ UNCHANGED <<script, got, lsid, connq, cmd, sendq, recvq, distq, lost>>

LEMMA GoneLeaves ==
    ASSUME BInv, NEW c \in Conns, Live(c), Gone(c)
    PROVE  /\ conn' \in [Conns -> Scks] /\ conn'[c] = Closed /\ ~Live(c)'
           /\ \A d \in Conns : d # c => conn'[d] = conn[d] /\ (Live(d)' <=> Live(d))
           /\ CtxOf[c] \in Ctxs /\ conn[c].rsvr \in Rsvrs(CtxOf[c]) /\ conn[c].rsvr \in Nat
           /\ conn[c].base \in Bufs
<1>1. Closed \in Scks /\ Closed.st = "closed" BY FreshIs, ClosedIs DEF Closed
<1>2. conn' = [conn EXCEPT ![c] = Closed] BY DEF Gone
<1>3. conn' \in [Conns -> Scks] /\ conn'[c] = Closed BY <1>1, <1>2 DEF BInv, Typed
<1>4. \A d \in Conns : d # c => conn'[d] = conn[d] BY <1>2 DEF BInv, Typed
<1>5. ~Live(c)' BY <1>1, <1>3 DEF Live
<1>6. \A d \in Conns : d # c => (Live(d)' <=> Live(d)) BY <1>4 DEF Live
<1>7. CtxOf[c] \in Ctxs /\ conn[c].rsvr \in Rsvrs(CtxOf[c]) BY Ranges DEF BInv, Placed
<1>8. conn[c].rsvr \in Nat BY <1>7, Ranges
<1>9. conn[c].base \in Bufs BY DEF BInv, AuthRight
<1> QED BY <1>3, <1>4, <1>5, <1>6, <1>7, <1>8, <1>9

LEMMA GoneMap ==
    ASSUME BInv, NEW c \in Conns, Live(c), Gone(c)
    PROVE  /\ map' \in [Ctxs -> [Nids -> Seq(Nat)]]
           /\ \A y \in Ctxs, n \in Nids :
                 /\ Len(map'[y][n]) <= NodeToSvrMax
                 /\ \A i \in 1 .. Len(map'[y][n]) : map'[y][n][i] \in Rsvrs(y)
                 /\ \A s : Cardinality(Entries(map'[y][n], s)) <= Cardinality(Entries(map[y][n], s))
           /\ \A n \in Nids : conn[c].nid = n =>
                 \/ Cardinality(Entries(map'[CtxOf[c]][n], conn[c].rsvr)) = 0
                 \/ Cardinality(Entries(map'[CtxOf[c]][n], conn[c].rsvr))
                      <= Cardinality(Entries(map[CtxOf[c]][n], conn[c].rsvr)) - 1
<1> DEFINE x == CtxOf[c]
           r == conn[c].rsvr
<1>1. x \in Ctxs /\ r \in Rsvrs(x) /\ r \in Nat BY GoneLeaves
<1>2. PICK k : map' = [map EXCEPT ![x] = MapDel(@, k, r)] /\ (conn[c].auth => k = conn[c].nid)
  BY DEF Gone
<1>3. PICK m \in [Nids -> Seq(Nat)] : m = map[x] BY <1>1 DEF BInv, Typed
<1> DEFINE w == MapDel(m, k, r)
<1>4. /\ w \in [Nids -> Seq(Nat)]
      /\ \A n \in Nids : /\ Len(w[n]) <= Len(m[n])
                         /\ \A j \in 1 .. Len(w[n]) : \E h \in 1 .. Len(m[n]) : w[n][j] = m[n][h]
                         /\ \A s : Cardinality(Entries(w[n], s)) <= Cardinality(Entries(m[n], s))
      /\ k \in Nids => \/ Cardinality(Entries(w[k], r)) = 0
                       \/ Cardinality(Entries(w[k], r)) <= Cardinality(Entries(m[k], r)) - 1
  <2> HIDE DEF r
  <2> QED BY <1>1, MapDelIs
<1>5. map' = [map EXCEPT ![x] = w] BY <1>2, <1>3
<1>6. map'[x] = w /\ \A y \in Ctxs : y # x => map'[y] = map[y] BY <1>1, <1>5 DEF BInv, Typed
<1>7. map' \in [Ctxs -> [Nids -> Seq(Nat)]] BY <1>1, <1>4, <1>5 DEF BInv, Typed
<1> HIDE DEF w, x, r
<1>8. \A y \in Ctxs, n \in Nids :
        /\ Len(map[y][n]) \in Nat /\ Len(map[y][n]) <= NodeToSvrMax /\ Len(map'[y][n]) \in Nat
        /\ \A i \in 1 .. Len(map[y][n]) : map[y][n][i] \in Rsvrs(y)
        /\ \A s : Cardinality(Entries(map[y][n], s)) \in Nat
  BY <1>7, EntriesFinite DEF BInv, Typed, Within, Placed
<1>9. ASSUME NEW y \in Ctxs, NEW n \in Nids
      PROVE  /\ Len(map'[y][n]) <= NodeToSvrMax
             /\ \A i \in 1 .. Len(map'[y][n]) : map'[y][n][i] \in Rsvrs(y)
             /\ \A s : Cardinality(Entries(map'[y][n], s)) <= Cardinality(Entries(map[y][n], s))
  <2>1. CASE y # x
    <3>1. map'[y][n] = map[y][n] BY <2>1, <1>6
    <3>2. \A s : Cardinality(Entries(map[y][n], s)) <= Cardinality(Entries(map[y][n], s))
      <4> SUFFICES ASSUME NEW s PROVE Cardinality(Entries(map[y][n], s)) <= Cardinality(Entries(map[y][n], s))
        OBVIOUS
      <4>1. PICK a \in Nat : a = Cardinality(Entries(map[y][n], s)) BY <1>8
      <4> QED BY <4>1
    <3>3. Len(map[y][n]) <= NodeToSvrMax /\ \A i \in 1 .. Len(map[y][n]) : map[y][n][i] \in Rsvrs(y)
      BY <1>8
    <3> QED BY <3>1, <3>2, <3>3
  <2>2. CASE y = x
    <3>1. map'[y][n] = w[n] /\ map[y][n] = m[n] BY <2>2, <1>3, <1>6
    <3>2. Len(map'[y][n]) <= NodeToSvrMax
      <4>1. PICK a \in Nat, b \in Nat : a = Len(map'[y][n]) /\ b = Len(map[y][n]) BY <1>8
      <4>2. a <= b /\ b <= NodeToSvrMax BY <3>1, <4>1, <1>4, <1>8
      <4>3. NodeToSvrMax \in Nat BY BrokerAssumption
      <4>4. a <= NodeToSvrMax BY ONLY a \in Nat, b \in Nat, <4>2, <4>3
      <4> QED BY <4>1, <4>4
    <3>3. \A i \in 1 .. Len(map'[y][n]) : map'[y][n][i] \in Rsvrs(y)
      <4> SUFFICES ASSUME NEW i \in 1 .. Len(map'[y][n]) PROVE map'[y][n][i] \in Rsvrs(y) OBVIOUS
      <4>1. PICK h \in 1 .. Len(m[n]) : w[n][i] = m[n][h] BY <3>1, <1>4
      <4>2. map[y][n][h] \in Rsvrs(y) BY <3>1, <1>8
      <4> QED BY <3>1, <4>1, <4>2
    <3>4. \A s : Cardinality(Entries(map'[y][n], s)) <= Cardinality(Entries(map[y][n], s))
      BY <3>1, <1>4
    <3> QED BY <3>2, <3>3, <3>4
  <2> QED BY <2>1, <2>2
<1>10. ASSUME NEW n \in Nids, conn[c].nid = n
       PROVE  \/ Cardinality(Entries(map'[x][n], r)) = 0
              \/ Cardinality(Entries(map'[x][n], r)) <= Cardinality(Entries(map[x][n], r)) - 1
  <2>1. conn[c].auth BY <1>10, BrokerAssumption DEF BInv, AuthRight
  <2>2. k = n BY <1>2, <1>10, <2>1
  <2> QED BY <2>2, <1>3, <1>4, <1>6
<1> QED BY <1>7, <1>9, <1>10 DEF x, r

LEMMA GoneRoutes ==
    ASSUME BInv, NEW c \in Conns, Live(c), Gone(c)
    PROVE  NoStaleRoute'
<1> DEFINE x == CtxOf[c]
           r == conn[c].rsvr
<1>0. \A d \in Conns : d # c => conn'[d] = conn[d] /\ (Live(d)' <=> Live(d)) BY GoneLeaves
<1>1. ~Live(c)' BY GoneLeaves
<1>2. map' \in [Ctxs -> [Nids -> Seq(Nat)]] BY GoneMap
<1>3. ASSUME NEW y \in Ctxs, NEW n \in Nids, NEW s \in Rsvrs(y)
      PROVE  Cardinality(Entries(map'[y][n], s)) <= Cardinality(Peers(y, n, s)')
  <2>1. Peers(y, n, s)' = Peers(y, n, s) \ {c} BY <1>0, <1>1 DEF Peers
  <2>2. Peers(y, n, s) \subseteq Conns /\ IsFiniteSet(Peers(y, n, s)) /\ Cardinality(Peers(y, n, s)) \in Nat
    BY FiniteSpots DEF Peers
  <2>3. Cardinality(Peers(y, n, s) \ {c}) = IF c \in Peers(y, n, s) THEN Cardinality(Peers(y, n, s)) - 1
                                            ELSE Cardinality(Peers(y, n, s))
    BY <2>2, FS_RemoveElement
  <2>4. Cardinality(Entries(map[y][n], s)) <= Cardinality(Peers(y, n, s)) BY RouteIs DEF BInv
  <2>5. Cardinality(Entries(map'[y][n], s)) <= Cardinality(Entries(map[y][n], s)) BY GoneMap
  <2>6. Cardinality(Entries(map[y][n], s)) \in Nat /\ Cardinality(Entries(map'[y][n], s)) \in Nat
    BY <1>2, EntriesFinite DEF BInv, Typed
  <2>7. PICK a \in Nat, b \in Nat, p \in Nat : /\ a = Cardinality(Entries(map'[y][n], s))
                                            /\ b = Cardinality(Entries(map[y][n], s))
                                            /\ p = Cardinality(Peers(y, n, s))
    BY <2>2, <2>6
  <2>8. a <= b /\ b <= p BY <2>4, <2>5, <2>7
  <2>9. CASE c \notin Peers(y, n, s)
    <3>1. Cardinality(Peers(y, n, s)') = p BY <2>1, <2>3, <2>7, <2>9
    <3>2. a <= p BY ONLY <2>8, a \in Nat, b \in Nat, p \in Nat
    <3> QED BY <3>1, <3>2, <2>7
  <2>10. CASE c \in Peers(y, n, s)
    <3>1. y = x /\ s = r /\ conn[c].nid = n BY <2>10 DEF Peers
    <3>2. a = 0 \/ a <= b - 1 BY <3>1, <2>7, GoneMap
    <3>3. Cardinality(Peers(y, n, s)') = p - 1 /\ p - 1 \in Nat
      <4>1. Cardinality(Peers(y, n, s) \ {c}) \in Nat BY <2>2, FS_Subset, FS_CardinalityType
      <4> QED BY <2>1, <2>3, <2>7, <2>10, <4>1
    <3>4. a <= p - 1 BY ONLY <3>2, <3>3, <2>8, a \in Nat, b \in Nat, p \in Nat
    <3> QED BY <3>3, <3>4, <2>7
  <2> QED BY <2>9, <2>10
<1>4. (\A y \in Ctxs, n \in Nids : \A s \in Rsvrs(y) :
          Cardinality(Entries(map[y][n], s)) <= Cardinality(Peers(y, n, s)))'
  BY <1>3 DEF Entries
<1>5. NoStaleRoute' BY <1>4 DEF NoStaleRoute, Entries, Peers
<1> QED BY <1>5
LEMMA GoneSubs ==
    ASSUME BInv, NEW c \in Conns, Live(c), Gone(c)
    PROVE  /\ SubsAgree' /\ \A y \in Ctxs : IsTab(sub'[y])
           /\ \A y \in Ctxs : /\ DOMAIN sub'[y] \subseteq DOMAIN sub[y]
                              /\ \A t \in DOMAIN sub'[y] : DOMAIN sub'[y][t] = {} => DOMAIN sub[y][t] = {}
<1> DEFINE x == CtxOf[c]
<1>0. \A d \in Conns : d # c => conn'[d] = conn[d] /\ (Live(d)' <=> Live(d)) BY GoneLeaves
<1>1. ~Live(c)' /\ x \in Ctxs BY GoneLeaves
<1>2. /\ \A y \in Ctxs : y # x => sub'[y] = sub[y]
      /\ Removed(sub'[x], sub[x])
      /\ \A t, g : Subs(sub'[x], t, g) = IF t \in conn[c].subs /\ g = conn[c].gid
                                         THEN Subs(sub[x], t, g) \ {c} ELSE Subs(sub[x], t, g)
  BY DEF Gone
<1>3. \A y \in Ctxs : IsTab(sub[y]) BY DEF BInv, Typed
<1> HIDE DEF x
<1>4. \A y \in Ctxs : IsTab(sub'[y]) BY <1>2, <1>3 DEF Removed
<1>5. ASSUME NEW y \in Ctxs
      PROVE  /\ DOMAIN sub'[y] \subseteq DOMAIN sub[y]
             /\ \A t \in DOMAIN sub'[y] : DOMAIN sub'[y][t] = {} => DOMAIN sub[y][t] = {}
  <2>1. CASE y = x BY <2>1, <1>2 DEF Removed
  <2>2. CASE y # x BY <2>2, <1>2
  <2> QED BY <2>1, <2>2
<1>6. ASSUME NEW y \in Ctxs, NEW t \in Types, NEW g \in Gids
      PROVE  Subscribed(y, t, g)' = Subs(sub'[y], t, g)
  <2>1. Subscribed(y, t, g)' = Subscribed(y, t, g) \ {c} BY <1>0, <1>1 DEF Subscribed
  <2>2. Subscribed(y, t, g) = Subs(sub[y], t, g) BY SubsAre DEF BInv
  <2>3. CASE y = x /\ t \in conn[c].subs /\ g = conn[c].gid
    BY <2>1, <2>2, <2>3, <1>2
  <2>4. CASE ~(y = x /\ t \in conn[c].subs /\ g = conn[c].gid)
    <3>1. c \notin Subscribed(y, t, g) BY <2>4 DEF Subscribed, x
    <3>2. Subs(sub'[y], t, g) = Subs(sub[y], t, g) BY <2>4, <1>2
    <3> QED BY <2>1, <2>2, <3>1, <3>2
  <2> QED BY <2>3, <2>4
<1>7. (\A y \in Ctxs, t \in Types, g \in Gids : Subscribed(y, t, g) = Subs(sub[y], t, g))'
  BY <1>6 DEF Subs
<1>8. SubsAgree' BY <1>7 DEF SubsAgree, Subscribed, Subs
<1> QED BY <1>4, <1>5, <1>8

LEMMA GoneBuffers ==
    ASSUME BInv, ~aborted, NEW c \in Conns, Live(c), Gone(c)
    PROVE  BuffersHeld'
<1> SUFFICES ASSUME ~aborted', NEW b \in Bufs PROVE ref'[b] = Holders(b)'
  BY DEF BuffersHeld
<1>1. ref' = [ref EXCEPT ![conn[c].base] = @ - 1] /\ recvq' = recvq BY DEF Gone
<1>2. \A d \in Conns : d # c => conn'[d] = conn[d] BY GoneLeaves
<1>3. ~Live(c)' /\ conn[c].base \in Bufs BY GoneLeaves
<1>4. Cardinality(Ch(b)') + (IF Live(c) /\ conn[c].base = b THEN 1 ELSE 0)
        = Cardinality(Ch(b)) + (IF Live(c)' /\ conn'[c].base = b THEN 1 ELSE 0)
  BY <1>2, ChOne
<1>5. Rh(b)' = Rh(b) BY <1>1 DEF Rh
<1>6. Holders(b) = Cardinality(Ch(b)) + Cardinality(Rh(b)) /\ Cardinality(Ch(b)) \in Nat /\ Cardinality(Rh(b)) \in Nat
  BY HoldersAre
<1>7. Holders(b)' = Cardinality(Ch(b)') + Cardinality(Rh(b)') BY DEF Holders, Ch, Rh
<1>8. Cardinality(Ch(b)') \in Nat
  <2>1. Ch(b)' \subseteq Conns BY DEF Ch
  <2> QED BY <2>1, FiniteSpots
<1>9. ref[b] = Holders(b) BY DEF BInv, BuffersHeld
<1>10. PICK i \in Nat, j \in Nat, k \in Nat : i = Cardinality(Ch(b)) /\ j = Cardinality(Ch(b)') /\ k = Cardinality(Rh(b))
  BY <1>6, <1>8
<1>11. ref[b] = i + k /\ Holders(b)' = j + k BY <1>5, <1>6, <1>7, <1>9, <1>10
<1>12. CASE conn[c].base = b
  <2>1. j + 1 = i BY <1>3, <1>4, <1>10, <1>12
  <2>2. ref'[b] = ref[b] - 1 BY <1>1, <1>3, <1>12 DEF BInv, Typed
  <2> QED BY <2>1, <2>2, <1>11
<1>13. CASE conn[c].base # b
  <2>1. j = i BY <1>3, <1>4, <1>10, <1>13
  <2>2. ref'[b] = ref[b] BY <1>1, <1>3, <1>13 DEF BInv, Typed
  <2> QED BY <2>1, <2>2, <1>11
<1> QED BY <1>12, <1>13

LEMMA GonePlaces ==
    ASSUME BInv, NEW c \in Conns, Live(c), Gone(c)
    PROVE  Placed' /\ AuthRight' /\ PendRight' /\ NewTypes'
<1> DEFINE x == CtxOf[c]
           r == conn[c].rsvr
<1>0. \A d \in Conns : d # c => conn'[d] = conn[d] /\ (Live(d)' <=> Live(d)) BY GoneLeaves
<1>1. ~Live(c)' /\ conn'[c] = Closed /\ x \in Ctxs /\ r \in Rsvrs(x) BY GoneLeaves
<1>2. connq' = connq /\ script' = script BY DEF Gone
<1>3. IsPut(pend', pend, x, r, NoPend, Pends) /\ \A d : pend[x][r] # <<"query", d>> BY DEF Gone
<1>4. \A y \in Ctxs : \A s \in Rsvrs(y) : \A i \in 1 .. Len(connq[y][s]) :
         connq[y][s][i] \in Conns /\ connq[y][s][i] # c
  <2> SUFFICES ASSUME NEW y \in Ctxs, NEW s \in Rsvrs(y), NEW i \in 1 .. Len(connq[y][s])
               PROVE  connq[y][s][i] \in Conns /\ connq[y][s][i] # c
    OBVIOUS
  <2>1. connq[y][s] \in Seq(Conns) BY Get DEF BInv, Typed
  <2>2. conn[connq[y][s][i]].st = "queued" BY DEF BInv, Placed
  <2> QED BY <2>1, <2>2 DEF Live
<1>5. Placed'
  <2>1. \A d \in Conns : Live(d)' => conn'[d].rsvr \in Rsvrs(CtxOf[d]) BY <1>0, <1>1 DEF BInv, Placed
  <2>2. \A y \in Ctxs : \A s \in Rsvrs(y) : \A i \in 1 .. Len(connq[y][s]) :
           CtxOf[connq[y][s][i]] = y /\ conn'[connq[y][s][i]].st = "queued"
    BY <1>0, <1>4 DEF BInv, Placed
  <2>3. \A y \in Ctxs, n \in Nids : \A i \in 1 .. Len(map'[y][n]) : map'[y][n][i] \in Rsvrs(y) BY GoneMap
  <2> QED BY <1>2, <2>1, <2>2, <2>3 DEF BInv, Placed
<1>6. AuthRight'
  <2>1. conn'[c].n = 0 /\ conn'[c].auth = FALSE /\ conn'[c].nid = NoNid /\ conn'[c].subs = {}
    BY <1>1, ClosedIs DEF Closed
  <2>2. Len(script[c]) \in Nat BY BrokerAssumption, SMTT(30) DEF BInv, Typed
  <2>3. 0 <= Len(script[c]) BY <2>2
  <2> QED BY <1>0, <1>1, <1>2, <2>1, <2>3 DEF BInv, AuthRight
<1> HIDE DEF x, r
<1>7. PendRight'
  <2> SUFFICES ASSUME NEW y \in Ctxs, NEW s \in Rsvrs(y), pend'[y][s] # NoPend, NEW d, d = pend'[y][s][2]
               PROVE  /\ Live(d)' /\ CtxOf[d] = y /\ conn'[d].rsvr = s /\ conn'[d].auth
                      /\ conn'[d].n < Len(script'[d]) /\ script'[d][conn'[d].n + 1].kind = "SUB_REQ"
    BY DEF PendRight, Arriving
  <2>1. y # x \/ s # r BY <1>3 DEF IsPut
  <2>2. pend'[y][s] = pend[y][s] BY <1>3, <2>1 DEF IsPut
  <2>3. pend[y][s] \in Pends BY Get DEF BInv, Typed
  <2>4. d \in Conns BY <2>2, <2>3, PendIs, SMTT(30)
  <2>5. /\ Live(d) /\ CtxOf[d] = y /\ conn[d].rsvr = s /\ conn[d].auth
        /\ conn[d].n < Len(script[d]) /\ script[d][conn[d].n + 1].kind = "SUB_REQ"
    BY <2>2 DEF BInv, PendRight, Arriving
  <2>6. d # c BY <2>1, <2>5 DEF x, r
  <2> QED BY <1>0, <1>2, <2>4, <2>5, <2>6
<1>8. NewTypes'
  <2> SUFFICES ASSUME NEW y \in Ctxs, NEW t \in DOMAIN sub'[y], DOMAIN sub'[y][t] = {}
               PROVE  \E d \in Conns : /\ Live(d)' /\ CtxOf[d] = y /\ pend'[y][conn'[d].rsvr] = <<"query", d>>
                                       /\ script'[d][conn'[d].n + 1].type = t
    BY DEF NewTypes, Arriving
  <2>1. t \in DOMAIN sub[y] /\ DOMAIN sub[y][t] = {} BY GoneSubs
  <2>2. PICK d \in Conns : /\ Live(d) /\ CtxOf[d] = y /\ pend[y][conn[d].rsvr] = <<"query", d>>
                           /\ script[d][conn[d].n + 1].type = t
    <3>1. NewTypes BY DEF BInv
    <3>3. PICK d \in Conns : Asked(y, t, d) BY <3>1, <2>1, NewTypeOf, Zenon
    <3> QED BY <3>3, Zenon DEF Asked
  <2>3. y # x \/ conn[d].rsvr # r BY <1>3, <2>2
  <2>4. d # c BY <2>2, <2>3 DEF x, r
  <2>5. conn[d].rsvr \in Rsvrs(y) BY <2>2 DEF BInv, Placed
  <2>6. pend'[y][conn[d].rsvr] = <<"query", d>> BY <1>3, <2>2, <2>3, <2>5 DEF IsPut
  <2> QED BY <1>0, <1>2, <2>2, <2>4, <2>6
<1> QED BY <1>5, <1>6, <1>7, <1>8

LEMMA GoneB ==
    ASSUME BInv, ~aborted, NEW c \in Conns, Live(c), Gone(c)
    PROVE  BInv'
<1>0. UNCHANGED <<script, got, lsid, connq, cmd, sendq, recvq, distq, lost>> BY DEF Gone
<1>1. NoLostWakeup' BY <1>0, WakeSame, Zenon
<1>2. Typed'
  <2>1. conn' \in [Conns -> Scks] BY GoneLeaves
  <2>2. map' \in [Ctxs -> [Nids -> Seq(Nat)]] BY GoneMap
  <2>3. sub' = [y \in Ctxs |-> sub'[y]] /\ \A y \in Ctxs : IsTab(sub'[y]) BY GoneSubs DEF Gone
  <2>4. ref' \in [Bufs -> Int] /\ aborted' \in BOOLEAN /\ Per(pend', Pends) BY DEF Gone, IsPut
  <2> QED BY <1>0, <2>1, <2>2, <2>3, <2>4 DEF BInv, Typed
<1>3. Within'
  <2>1. \A d \in Conns : conn'[d].idx + Len(conn'[d].iov) <= IovMax
    <3>1. \A d \in Conns : d # c => conn'[d] = conn[d] BY GoneLeaves
    <3>2. conn'[c].idx = 0 /\ conn'[c].iov = <<>> BY GoneLeaves, ClosedIs DEF Closed
    <3>3. 0 + Len(<<>>) <= IovMax BY BrokerAssumption
    <3> QED BY <3>1, <3>2, <3>3 DEF BInv, Within
  <2>2. \A y \in Ctxs, n \in Nids : Len(map'[y][n]) <= NodeToSvrMax BY GoneMap
  <2> QED BY <1>0, <2>1, <2>2 DEF BInv, Within
<1> QED BY <1>1, <1>2, <1>3, GonePlaces, GoneRoutes, GoneSubs, GoneBuffers DEF BInv
LEMMA IdleKeeps ==
    ASSUME BInv, NEW x \in Ctxs, NEW r \in Rsvrs(x), Idle(x, r), UNCHANGED pend
    PROVE  IsPut(pend', pend, x, r, NoPend, Pends) /\ \A d : pend[x][r] # <<"query", d>>
<1>1. Per(pend, Pends) /\ pend[x][r] = NoPend BY DEF BInv, Typed, Idle
<1>2. \A d : <<>> # <<"query", d>> OBVIOUS
<1> QED BY <1>1, <1>2 DEF IsPut, NoPend

LEMMA Located ==
    ASSUME BInv, NEW c \in Conns
    PROVE  CtxOf[c] \in Ctxs /\ (Live(c) => conn[c].rsvr \in Rsvrs(CtxOf[c]))
BY Ranges DEF BInv, Placed

LEMMA DelGone ==
    ASSUME BInv, NEW c \in Conns, Live(c), NEW decs \in {1, 2}, DelConn(CtxOf[c], conn[c].rsvr, c, decs),
           IsPut(pend', pend, CtxOf[c], conn[c].rsvr, NoPend, Pends),
           \A d : pend[CtxOf[c]][conn[c].rsvr] # <<"query", d>>,
           UNCHANGED <<script, got, lsid, connq, cmd, sendq, recvq, distq, lost>>
    PROVE  Gone(c)
<1> DEFINE x == CtxOf[c]
           r == conn[c].rsvr
<1>1. /\ conn' = [conn EXCEPT ![c] = Closed]
      /\ map' = [map EXCEPT ![x] = MapDel(@, conn[c].nid, r)]
      /\ sub' = [sub EXCEPT ![x] = SubFree(@, c)]
      /\ ref' = [ref EXCEPT ![conn[c].base] = @ - decs]
      /\ aborted' = (decs > 1)
  BY DEF DelConn, Closed
<1>2. x \in Ctxs BY Located
<1>3. sub = [y \in Ctxs |-> sub[y]] /\ IsTab(sub[x]) BY <1>2 DEF BInv, Typed
<1> DEFINE T == SubFree(sub[x], c)
<1>4. /\ Removed(T, sub[x])
      /\ \A u, h : Subs(T, u, h) = IF u \in conn[c].subs /\ h = conn[c].gid
                                   THEN Subs(sub[x], u, h) \ {c} ELSE Subs(sub[x], u, h)
  <2>1. T = SubFree(sub[x], c) OBVIOUS
  <2> HIDE DEF T, x
  <2> QED BY <1>3, <2>1, FreeIs
<1>5. sub' = [sub EXCEPT ![x] = T] BY <1>1
<1> HIDE DEF T
<1>6. sub' = [y \in Ctxs |-> sub'[y]] /\ sub'[x] = T /\ \A y \in Ctxs : y # x => sub'[y] = sub[y]
  BY <1>2, <1>3, <1>5
<1>7. conn[c].base \in Bufs BY DEF BInv, AuthRight
<1>8. ref' \in [Bufs -> Int] BY <1>1, <1>7 DEF BInv, Typed
<1>9. aborted' \in BOOLEAN /\ (aborted' \/ ref' = [ref EXCEPT ![conn[c].base] = @ - 1])
  <2>1. CASE decs = 1 BY <2>1, <1>1
  <2>2. CASE decs = 2
    <3>1. (decs > 1) = TRUE BY <2>2
    <3>2. aborted' = TRUE BY <1>1, <3>1
    <3> QED BY <3>2
  <2> QED BY <2>1, <2>2
<1>10. \E k : map' = [map EXCEPT ![x] = MapDel(@, k, r)] /\ (conn[c].auth => k = conn[c].nid)
  BY <1>1
<1> QED BY <1>1, <1>4, <1>6, <1>8, <1>9, <1>10 DEF Gone

LEMMA IdleDelB ==
    ASSUME BInv, ~aborted, NEW c \in Conns, Live(c), Idle(CtxOf[c], conn[c].rsvr), NEW decs \in {1, 2},
           DelConn(CtxOf[c], conn[c].rsvr, c, decs),
           UNCHANGED <<script, got, lsid, connq, cmd, sendq, recvq, distq, pend, lost>>
    PROVE  BInv'
<1>1. CtxOf[c] \in Ctxs /\ conn[c].rsvr \in Rsvrs(CtxOf[c]) BY Located
<1>2. /\ IsPut(pend', pend, CtxOf[c], conn[c].rsvr, NoPend, Pends)
      /\ \A d : pend[CtxOf[c]][conn[c].rsvr] # <<"query", d>>
  BY <1>1, IdleKeeps
<1>3. Gone(c) BY <1>2, DelGone
<1> QED BY <1>3, GoneB

LEMMA CloseB ==
    ASSUME BInv, ~aborted, UNCHANGED script, NEW c \in Conns,
           \/ rtmq_rsvr_set_rdset(c) \/ rtmq_rsvr_event_timeout_hdl(c) \/ rtmq_rsvr_recv_eof(c)
           \/ rtmq_rsvr_trav_send(c) /\ ~conn[c].peer
           \/ rtmq_rsvr_keepalive_req_hdl(c) /\ ~conn[c].auth
    PROVE  BInv'
<1>1. CASE rtmq_rsvr_set_rdset(c) BY <1>1, IdleDelB DEF rtmq_rsvr_set_rdset
<1>2. CASE rtmq_rsvr_event_timeout_hdl(c) BY <1>2, IdleDelB DEF rtmq_rsvr_event_timeout_hdl
<1>3. CASE rtmq_rsvr_recv_eof(c) BY <1>3, IdleDelB DEF rtmq_rsvr_recv_eof
<1>4. CASE rtmq_rsvr_trav_send(c) /\ ~conn[c].peer BY <1>4, IdleDelB DEF rtmq_rsvr_trav_send
<1>5. CASE rtmq_rsvr_keepalive_req_hdl(c) /\ ~conn[c].auth
  BY <1>5, IdleDelB DEF rtmq_rsvr_keepalive_req_hdl, Reading
<1> QED BY <1>1, <1>2, <1>3, <1>4, <1>5

\* A map without room: the connection that asked is closed.
LEMMA TurnedAwayB ==
    ASSUME BInv, ~aborted, UNCHANGED script, NEW c \in Conns, rtmq_rsvr_link_auth_req_hdl(c),
           rtmq_auth_check(Arriving(c)), MapFull(map[CtxOf[c]], NidOf[c])
    PROVE  BInv'
<1> DEFINE x == CtxOf[c]
           r == conn[c].rsvr
<1>1. /\ conn' = [conn EXCEPT ![c] = Closed] /\ map' = [map EXCEPT ![x] = MapDel(@, NidOf[c], r)]
      /\ ref' = [ref EXCEPT ![conn[c].base] = @ - 1]
      /\ UNCHANGED <<got, lsid, connq, cmd, sendq, recvq, distq, sub, pend, lost, aborted, ticks>>
  BY DEF rtmq_rsvr_link_auth_req_hdl, Closed
<1>2. /\ Live(c) /\ Idle(x, r) /\ conn[c].n < Len(script[c]) /\ Arriving(c).kind = "AUTH_REQ"
  BY DEF rtmq_rsvr_link_auth_req_hdl, Reading
<1>3. conn[c].n = 0 /\ c \notin Up BY <1>2, ArrivingIs DEF BInv
<1>4. ~conn[c].auth /\ conn[c].subs = {} BY <1>2, <1>3 DEF BInv, AuthRight
<1>5. x \in Ctxs /\ r \in Rsvrs(x) BY <1>2, Located
<1>6. IsPut(pend', pend, x, r, NoPend, Pends) /\ \A d : pend[x][r] # <<"query", d>>
  BY <1>1, <1>2, <1>5, IdleKeeps
<1>7. conn[c].base \in Bufs BY <1>2 DEF BInv, AuthRight
<1>8. ref' \in [Bufs -> Int] /\ aborted' \in BOOLEAN BY <1>1, <1>7 DEF BInv, Typed
<1>9. sub' = [y \in Ctxs |-> sub'[y]] /\ \A y \in Ctxs : sub'[y] = sub[y] BY <1>1 DEF BInv, Typed
<1>10. Removed(sub[x], sub[x]) BY <1>5 DEF Removed, BInv, Typed
<1>11. \E k : map' = [map EXCEPT ![x] = MapDel(@, k, r)] /\ (conn[c].auth => k = conn[c].nid)
  BY <1>1, <1>4
<1>12. Gone(c) BY <1>1, <1>4, <1>5, <1>6, <1>8, <1>9, <1>10, <1>11 DEF Gone
<1> QED BY <1>2, <1>12, GoneB

\* Somebody else has made the type meanwhile.
LEMMA InsertLateB ==
    ASSUME BInv, ~aborted, UNCHANGED script, NEW c \in Conns, rtmq_sub_add_insert(c),
           Arriving(c).type \in DOMAIN sub[CtxOf[c]]
    PROVE  BInv'
<1> DEFINE x == CtxOf[c]
           r == conn[c].rsvr
<1>1. /\ Live(c) /\ pend[x][r] = <<"insert", c>> /\ DelConn(x, r, c, 1)
      /\ pend' = [pend EXCEPT ![x][r] = NoPend]
      /\ UNCHANGED <<got, lsid, connq, cmd, sendq, recvq, distq, lost, ticks>>
  BY DEF rtmq_sub_add_insert
<1>2. x \in Ctxs /\ r \in Rsvrs(x) BY <1>1, Located
<1>3. Per(pend, Pends) /\ NoPend \in Pends BY PendIs DEF BInv, Typed
<1>4. IsPut(pend', pend, x, r, NoPend, Pends)
  <2> HIDE DEF x, r
  <2> QED BY <1>1, <1>2, <1>3, Put, Zenon
<1>5. \A d : pend[x][r] # <<"query", d>> BY <1>1, PendIs
<1>6. Gone(c) BY <1>1, <1>4, <1>5, DelGone
<1> QED BY <1>1, <1>6, GoneB
-----------------------------------------------------------------------------
(* A message is taken from the receive buffer.                             *)
Taken(c, s) ==
    /\ conn' \in [Conns -> Scks] /\ \A d \in Conns : d # c => conn'[d] = conn[d]
    /\ conn'[c].st = s.st /\ conn'[c].rsvr = s.rsvr /\ conn'[c].nid = s.nid /\ conn'[c].gid = s.gid
    /\ conn'[c].auth = s.auth /\ conn'[c].subs = s.subs /\ conn'[c].n = s.n + 1
    /\ conn'[c].idx = s.idx /\ conn'[c].iov = s.iov /\ conn'[c].base \in Bufs

Moved(c, s, rf) ==
    \A b \in Bufs : ref'[b] = rf[b] + (IF conn'[c].base = b THEN 1 ELSE 0) - (IF s.base = b THEN 1 ELSE 0)

LEMMA TookIs ==
    ASSUME conn \in [Conns -> Scks], NEW c \in Conns, NEW s \in Scks, s.base \in Bufs,
           NEW rf \in [Bufs -> Int], rf[s.base] # 0, Took(c, s, rf)
    PROVE  Taken(c, s) /\ ref' \in [Bufs -> Int] /\ Moved(c, s, rf)
<1>0. s.n \in Nat /\ s.used \in Nat BY DEF Scks
<1>1. PICK n \in Nat, u \in Nat : n = s.n + 1 /\ u = s.used + 1 BY <1>0
<1>2. CASE s.used + 1 < BufMesgs
  <2> DEFINE v == [s EXCEPT !.rd = 0, !.n = n, !.used = u]
  <2>1. conn' = [conn EXCEPT ![c] = v] /\ ref' = rf BY <1>1, <1>2 DEF Took
  <2>2. /\ v \in Scks /\ v.st = s.st /\ v.rsvr = s.rsvr /\ v.nid = s.nid /\ v.gid = s.gid
        /\ v.auth = s.auth /\ v.subs = s.subs /\ v.n = n /\ v.idx = s.idx /\ v.iov = s.iov /\ v.base = s.base
    BY DEF Scks
  <2> HIDE DEF v
  <2>3. conn' \in [Conns -> Scks] /\ conn'[c] = v /\ \A d \in Conns : d # c => conn'[d] = conn[d]
    BY <2>1, <2>2
  <2>4. Taken(c, s) BY <1>1, <2>2, <2>3 DEF Taken
  <2>5. conn'[c].base = s.base BY <2>2, <2>3
  <2>6. \A b \in Bufs : ref'[b] \in Int /\ ref'[b] = rf[b] BY <2>1
  <2>7. Moved(c, s, rf) BY <2>5, <2>6 DEF Moved
  <2> QED BY <2>1, <2>4, <2>7
<1>3. CASE ~(s.used + 1 < BufMesgs)
  <2>0. PICK b \in Bufs : /\ rf[b] = 0
                       /\ conn' = [conn EXCEPT ![c] = [s EXCEPT !.rd = 0, !.n = @ + 1, !.used = 0, !.base = b]]
                       /\ ref' = [rf EXCEPT ![b] = 1, ![s.base] = @ - 1]
    BY <1>3 DEF Took
  <2> DEFINE v == [s EXCEPT !.rd = 0, !.n = n, !.used = 0, !.base = b]
  <2>1. conn' = [conn EXCEPT ![c] = v] BY <1>1, <2>0 DEF Scks
  <2>2. /\ v \in Scks /\ v.st = s.st /\ v.rsvr = s.rsvr /\ v.nid = s.nid /\ v.gid = s.gid
        /\ v.auth = s.auth /\ v.subs = s.subs /\ v.n = n /\ v.idx = s.idx /\ v.iov = s.iov /\ v.base = b
    BY DEF Scks
  <2> HIDE DEF v
  <2>3. conn' \in [Conns -> Scks] /\ conn'[c] = v /\ \A d \in Conns : d # c => conn'[d] = conn[d]
    BY <2>1, <2>2
  <2>4. Taken(c, s) BY <1>1, <2>2, <2>3 DEF Taken
  <2>5. b # s.base BY <2>0
  <2>6. ref' \in [Bufs -> Int] BY <2>0
  <2>7. /\ ref'[b] = 1 /\ ref'[s.base] = rf[s.base] - 1
        /\ \A a \in Bufs : a # b /\ a # s.base => ref'[a] = rf[a]
    BY <2>0, <2>5
  <2>8. conn'[c].base = b BY <2>2, <2>3
  <2>9. Moved(c, s, rf)
    <3> SUFFICES ASSUME NEW a \in Bufs
                 PROVE  ref'[a] = rf[a] + (IF b = a THEN 1 ELSE 0) - (IF s.base = a THEN 1 ELSE 0)
      BY <2>8 DEF Moved
    <3>1. CASE a = b BY <3>1, <2>0, <2>5, <2>7
    <3>2. CASE a = s.base BY <3>2, <2>5, <2>7
    <3>3. CASE a # b /\ a # s.base BY <3>3, <2>7
    <3> QED BY <3>1, <3>2, <3>3
  <2> QED BY <2>4, <2>6, <2>9
<1> QED BY <1>2, <1>3

\* The buffer of a live connection is counted.
LEMMA Counted ==
    ASSUME BInv, ~aborted, NEW c \in Conns, Live(c)
    PROVE  conn[c].base \in Bufs /\ ref[conn[c].base] \in Nat \ {0}
<1> DEFINE b == conn[c].base
<1>1. b \in Bufs BY DEF BInv, AuthRight
<1>2. ref[b] = Holders(b) BY <1>1 DEF BInv, BuffersHeld
<1>3. Holders(b) = Cardinality(Ch(b)) + Cardinality(Rh(b)) /\ Cardinality(Ch(b)) \in Nat /\ Cardinality(Rh(b)) \in Nat
  BY HoldersAre
<1>4. c \in Ch(b) /\ Ch(b) \subseteq Conns BY DEF Ch
<1>5. Cardinality(Ch(b)) # 0 BY <1>4, FiniteSpots, FS_EmptySet
<1> HIDE DEF b
<1>6. ref[b] \in Nat \ {0} BY <1>2, <1>3, <1>5
<1> QED BY <1>1, <1>6 DEF b

\* The count after a message is taken, by how much the queues hold now.
LEMMA TakenBuffers ==
    ASSUME BInv, ~aborted, NEW c \in Conns, Live(c), NEW s, s.st = "live", s.base = conn[c].base,
           NEW rf \in [Bufs -> Int], Taken(c, s), Moved(c, s, rf),
           \/ rf = ref /\ UNCHANGED recvq
           \/ \E x \in Ctxs, q \in Recvqs : \E m :
                 /\ Len(recvq[x][q]) < RecvqMax
                 /\ recvq' = [recvq EXCEPT ![x][q] = Append(@, [mesg |-> m, base |-> conn[c].base])]
                 /\ rf = [ref EXCEPT ![conn[c].base] = @ + 1]
    PROVE  BuffersHeld'
<1> SUFFICES ASSUME NEW b \in Bufs PROVE ref'[b] = Holders(b)'
  BY DEF BuffersHeld
<1>1. \A d \in Conns : d # c => conn'[d] = conn[d] BY DEF Taken
<1>2. Live(c)' BY DEF Taken, Live
<1>3. Cardinality(Ch(b)') + (IF Live(c) /\ conn[c].base = b THEN 1 ELSE 0)
        = Cardinality(Ch(b)) + (IF Live(c)' /\ conn'[c].base = b THEN 1 ELSE 0)
  BY <1>1, ChOne
<1>4. Holders(b) = Cardinality(Ch(b)) + Cardinality(Rh(b)) /\ Cardinality(Ch(b)) \in Nat /\ Cardinality(Rh(b)) \in Nat
  BY HoldersAre
<1>5. Holders(b)' = Cardinality(Ch(b)') + Cardinality(Rh(b)') BY DEF Holders, Ch, Rh
<1>6. Cardinality(Ch(b)') \in Nat
  <2>1. Ch(b)' \subseteq Conns BY DEF Ch
  <2> QED BY <2>1, FiniteSpots
<1>7. ref[b] = Holders(b) BY DEF BInv, BuffersHeld
<1>8. conn[c].base \in Bufs BY Counted
<1>9. \E e \in Nat : rf[b] = ref[b] + e /\ Cardinality(Rh(b)') = Cardinality(Rh(b)) + e
  <2>1. CASE rf = ref /\ UNCHANGED recvq
    <3>1. Rh(b)' = Rh(b) BY <2>1 DEF Rh
    <3>2. ref[b] \in Int BY DEF BInv, Typed
    <3>3. rf[b] = ref[b] + 0 /\ Cardinality(Rh(b)') = Cardinality(Rh(b)) + 0 BY <2>1, <3>1, <3>2, <1>4
    <3> QED BY <3>3
  <2>2. ASSUME NEW x \in Ctxs, NEW q \in Recvqs, NEW m, Len(recvq[x][q]) < RecvqMax,
               recvq' = [recvq EXCEPT ![x][q] = Append(@, [mesg |-> m, base |-> conn[c].base])],
               rf = [ref EXCEPT ![conn[c].base] = @ + 1]
        PROVE  \E e \in Nat : rf[b] = ref[b] + e /\ Cardinality(Rh(b)') = Cardinality(Rh(b)) + e
    <3>0. PICK it : it = [mesg |-> m, base |-> conn[c].base] OBVIOUS
    <3>1. it.base = conn[c].base BY <3>0
    <3>2. recvq' = [recvq EXCEPT ![x][q] = Append(@, it)] /\ Typed BY <2>2, <3>0 DEF BInv
    <3>3. /\ it.base = b => Cardinality(Rh(b)') = Cardinality(Rh(b)) + 1
          /\ it.base # b => Cardinality(Rh(b)') = Cardinality(Rh(b))
      <4>1. RhGrew(b, it.base) BY <2>2, <3>2, RhAppend, Zenon
      <4> QED BY <4>1, <1>4 DEF RhGrew
    <3>4. CASE conn[c].base = b
      <4>1. rf[b] = ref[b] + 1 BY <2>2, <3>4 DEF BInv, Typed
      <4> QED BY <4>1, <3>1, <3>3, <3>4
    <3>5. CASE conn[c].base # b
      <4>1. rf[b] = ref[b] /\ ref[b] \in Int BY <2>2, <3>5, <1>8 DEF BInv, Typed
      <4>2. rf[b] = ref[b] + 0 /\ Cardinality(Rh(b)') = Cardinality(Rh(b)) + 0 BY <4>1, <3>1, <3>3, <3>5, <1>4
      <4> QED BY <4>2
    <3> QED BY <3>4, <3>5
  <2> QED BY <2>1, <2>2
<1>10. PICK e \in Nat : rf[b] = ref[b] + e /\ Cardinality(Rh(b)') = Cardinality(Rh(b)) + e BY <1>9
<1>11. PICK i \in Nat, j \in Nat, k \in Nat : i = Cardinality(Ch(b)) /\ j = Cardinality(Ch(b)') /\ k = Cardinality(Rh(b))
  BY <1>4, <1>6
<1>12. ref'[b] = rf[b] + (IF conn'[c].base = b THEN 1 ELSE 0) - (IF conn[c].base = b THEN 1 ELSE 0)
  BY DEF Moved
<1>13. PICK g \in Nat, h \in Nat : g = (IF conn[c].base = b THEN 1 ELSE 0) /\ h = (IF conn'[c].base = b THEN 1 ELSE 0)
  OBVIOUS
<1>14. j + g = i + h BY <1>2, <1>3, <1>11, <1>13
<1>15. rf[b] = i + k + e BY <1>4, <1>7, <1>10, <1>11
<1>16. ref'[b] = i + k + e + h - g BY <1>12, <1>13, <1>15
<1>17. Holders(b)' = j + (k + e) BY <1>5, <1>10, <1>11
<1>18. i + k + e + h - g = j + (k + e)
  BY ONLY <1>14, i \in Nat, j \in Nat, k \in Nat, e \in Nat, g \in Nat, h \in Nat
<1> QED BY <1>16, <1>17, <1>18
\* What a request may change besides the connection: its receiver is idle afterwards.
Around(c) ==
    /\ \A y \in Ctxs, n \in Nids : \A i \in 1 .. Len(map'[y][n]) : map'[y][n][i] \in Rsvrs(y)
    /\ IsPut(pend', pend, CtxOf[c], conn[c].rsvr, NoPend, Pends)
    /\ \A d : pend[CtxOf[c]][conn[c].rsvr] = <<"query", d>> => d = c
    /\ \A y \in Ctxs : \A u \in DOMAIN sub'[y] : DOMAIN sub'[y][u] = {} =>
          /\ u \in DOMAIN sub[y] /\ DOMAIN sub[y][u] = {}
          /\ ~(y = CtxOf[c] /\ pend[y][conn[c].rsvr] = <<"query", c>> /\ u = Arriving(c).type)

LEMMA TakenPlaces ==
    ASSUME BInv, NEW c \in Conns, Live(c), conn[c].n < Len(script[c]), UNCHANGED <<script, connq>>,
           NEW s, Taken(c, s), s.st = "live", s.rsvr = conn[c].rsvr, s.n = conn[c].n,
           s.auth => s.nid = NidOf[c] /\ s.gid = GidOf[c],
           ~s.auth => s.nid = NoNid /\ s.subs = {}, Around(c)
    PROVE  Placed' /\ AuthRight' /\ PendRight' /\ NewTypes'
<1> DEFINE x == CtxOf[c]
           r == conn[c].rsvr
<1>0. \A d \in Conns : d # c => conn'[d] = conn[d] /\ (Live(d)' <=> Live(d)) BY DEF Taken, Live
<1>1. Live(c)' /\ x \in Ctxs /\ r \in Rsvrs(x) /\ conn'[c].rsvr = r /\ conn'[c].n = conn[c].n + 1
  BY Located DEF Taken, Live
<1>2. connq' = connq /\ script' = script OBVIOUS
<1>3. IsPut(pend', pend, x, r, NoPend, Pends) /\ \A d : pend[x][r] = <<"query", d>> => d = c BY DEF Around
<1>4. \A y \in Ctxs : \A p \in Rsvrs(y) : \A i \in 1 .. Len(connq[y][p]) :
         connq[y][p][i] \in Conns /\ connq[y][p][i] # c
  <2> SUFFICES ASSUME NEW y \in Ctxs, NEW p \in Rsvrs(y), NEW i \in 1 .. Len(connq[y][p])
               PROVE  connq[y][p][i] \in Conns /\ connq[y][p][i] # c
    OBVIOUS
  <2>1. connq[y][p] \in Seq(Conns) BY Get DEF BInv, Typed
  <2>2. conn[connq[y][p][i]].st = "queued" BY DEF BInv, Placed
  <2> QED BY <2>1, <2>2 DEF Live
<1>5. Placed'
  <2>1. \A d \in Conns : Live(d)' => conn'[d].rsvr \in Rsvrs(CtxOf[d]) BY <1>0, <1>1 DEF BInv, Placed
  <2>2. \A y \in Ctxs : \A p \in Rsvrs(y) : \A i \in 1 .. Len(connq[y][p]) :
           CtxOf[connq[y][p][i]] = y /\ conn'[connq[y][p][i]].st = "queued"
    BY <1>0, <1>4 DEF BInv, Placed
  <2>3. \A y \in Ctxs, n \in Nids : \A i \in 1 .. Len(map'[y][n]) : map'[y][n][i] \in Rsvrs(y) BY DEF Around
  <2> QED BY <1>2, <2>1, <2>2, <2>3 DEF BInv, Placed
<1>6. AuthRight'
  <2>0. script[c] \in Seq(Requests) BY ScriptIs DEF BInv
  <2>a. conn[c].n \in Nat BY DEF BInv, Typed, Scks
  <2>1. conn[c].n \in Nat /\ Len(script[c]) \in Nat BY <2>0, <2>a
  <2>2. conn[c].n + 1 # 0 /\ conn[c].n + 1 <= Len(script[c]) BY <2>1
  <2>3. /\ conn'[c].auth => conn'[c].nid = NidOf[c] /\ conn'[c].gid = GidOf[c]
        /\ ~conn'[c].auth => conn'[c].nid = NoNid /\ conn'[c].subs = {}
        /\ conn'[c].base \in Bufs
    BY DEF Taken
  <2>4. /\ conn'[c].n # 0 /\ conn'[c].n <= Len(script'[c]) BY <1>1, <1>2, <2>2
  <2>5. \A d \in Conns : d # c =>
            /\ ~Live(d)' => conn'[d].n = 0 /\ ~conn'[d].auth
            /\ conn'[d].auth => conn'[d].nid = NidOf[d] /\ conn'[d].gid = GidOf[d]
            /\ ~conn'[d].auth => conn'[d].nid = NoNid /\ conn'[d].subs = {}
            /\ Live(d)' /\ conn'[d].n = 0 => d \in Up \/ ~conn'[d].auth
            /\ conn'[d].n <= Len(script'[d])
            /\ Live(d)' => conn'[d].base \in Bufs
    BY <1>0, <1>2, SMTT(30) DEF BInv, AuthRight
  <2> QED BY <1>1, <2>3, <2>4, <2>5 DEF AuthRight
<1> HIDE DEF x, r
<1>7. PendRight'
  <2> SUFFICES ASSUME NEW y \in Ctxs, NEW p \in Rsvrs(y), pend'[y][p] # NoPend, NEW d, d = pend'[y][p][2]
               PROVE  /\ Live(d)' /\ CtxOf[d] = y /\ conn'[d].rsvr = p /\ conn'[d].auth
                      /\ conn'[d].n < Len(script'[d]) /\ script'[d][conn'[d].n + 1].kind = "SUB_REQ"
    BY DEF PendRight, Arriving
  <2>1. y # x \/ p # r BY <1>3 DEF IsPut
  <2>2. pend'[y][p] = pend[y][p] BY <1>3, <2>1 DEF IsPut
  <2>3. pend[y][p] \in Pends BY Get DEF BInv, Typed
  <2>4. d \in Conns BY <2>2, <2>3, PendIs, SMTT(30)
  <2>5. /\ Live(d) /\ CtxOf[d] = y /\ conn[d].rsvr = p /\ conn[d].auth
        /\ conn[d].n < Len(script[d]) /\ script[d][conn[d].n + 1].kind = "SUB_REQ"
    BY <2>2 DEF BInv, PendRight, Arriving
  <2>6. d # c BY <2>1, <2>5 DEF x, r
  <2> QED BY <1>0, <1>2, <2>4, <2>5, <2>6
<1>8. NewTypes'
  <2> SUFFICES ASSUME NEW y \in Ctxs, NEW t \in DOMAIN sub'[y], DOMAIN sub'[y][t] = {}
               PROVE  \E d \in Conns : /\ Live(d)' /\ CtxOf[d] = y /\ pend'[y][conn'[d].rsvr] = <<"query", d>>
                                       /\ script'[d][conn'[d].n + 1].type = t
    BY DEF NewTypes, Arriving
  <2>1. /\ t \in DOMAIN sub[y] /\ DOMAIN sub[y][t] = {}
        /\ ~(y = x /\ pend[y][r] = <<"query", c>> /\ t = Arriving(c).type)
    BY DEF Around, x, r
  <2>2. PICK d \in Conns : /\ Live(d) /\ CtxOf[d] = y /\ pend[y][conn[d].rsvr] = <<"query", d>>
                           /\ Arriving(d).type = t
    BY <2>1 DEF BInv, NewTypes
  <2>3. d # c BY <2>1, <2>2 DEF x, r
  <2>4. y # x \/ conn[d].rsvr # r BY <1>3, <2>2, <2>3
  <2>5. conn[d].rsvr \in Rsvrs(y) BY <2>2 DEF BInv, Placed
  <2>6. pend'[y][conn[d].rsvr] = <<"query", d>> BY <1>3, <2>2, <2>4, <2>5 DEF IsPut
  <2> QED BY <1>0, <1>2, <2>2, <2>3, <2>6 DEF Arriving
<1> QED BY <1>5, <1>6, <1>7, <1>8

\* The tables know of the connection what they knew before.
LEMMA TakenSame ==
    ASSUME BInv, NEW c \in Conns, Live(c), NEW s, Taken(c, s), s.st = "live", s.rsvr = conn[c].rsvr
    PROVE  /\ s.nid = conn[c].nid /\ UNCHANGED map => NoStaleRoute'
           /\ s.gid = conn[c].gid /\ s.auth = conn[c].auth /\ s.subs = conn[c].subs /\ UNCHANGED sub => SubsAgree'
<1>0. \A d \in Conns : d # c => conn'[d] = conn[d] /\ (Live(d)' <=> Live(d)) BY DEF Taken, Live
<1>1. Live(c)' /\ conn'[c].rsvr = conn[c].rsvr BY DEF Taken, Live
<1>2. ASSUME s.nid = conn[c].nid, UNCHANGED map PROVE NoStaleRoute'
  <2>0. conn'[c].nid = conn[c].nid BY <1>2 DEF Taken
  <2>1. \A y, n, p : Peers(y, n, p)' = Peers(y, n, p) BY <1>0, <1>1, <2>0 DEF Peers
  <2>2. \A x \in Ctxs, n \in Nids : \A r \in Rsvrs(x) :
            Cardinality(Entries(map[x][n], r)) <= Cardinality(Peers(x, n, r)')
    BY <2>1, RouteIs DEF BInv
  <2>3. (\A x \in Ctxs, n \in Nids : \A r \in Rsvrs(x) :
            Cardinality(Entries(map[x][n], r)) <= Cardinality(Peers(x, n, r)))'
    BY <2>2, <1>2 DEF Entries
  <2> QED BY <2>3, RouteIs, PTL
<1>3. ASSUME s.gid = conn[c].gid, s.auth = conn[c].auth, s.subs = conn[c].subs, UNCHANGED sub PROVE SubsAgree'
  <2>0. conn'[c].gid = conn[c].gid /\ conn'[c].auth = conn[c].auth /\ conn'[c].subs = conn[c].subs
    BY <1>3 DEF Taken
  <2>1. \A y, t, g : Subscribed(y, t, g)' = Subscribed(y, t, g) BY <1>0, <1>1, <2>0 DEF Subscribed
  <2>2. (\A x \in Ctxs, t \in Types, g \in Gids : Subscribed(x, t, g) = Subs(sub[x], t, g))'
    BY <2>1, <1>3, SubsAre DEF BInv, Subs
  <2> QED BY <2>2, SubsAre, PTL
<1> QED BY <1>2, <1>3

\* An idle receiver that leaves the tables alone.
LEMMA IdleAround ==
    ASSUME BInv, NEW c \in Conns, Live(c), Idle(CtxOf[c], conn[c].rsvr), UNCHANGED <<pend, sub>>,
           \A y \in Ctxs, n \in Nids : \A i \in 1 .. Len(map'[y][n]) : map'[y][n][i] \in Rsvrs(y)
    PROVE  Around(c)
<1>1. CtxOf[c] \in Ctxs /\ conn[c].rsvr \in Rsvrs(CtxOf[c]) BY Located
<1>2. /\ IsPut(pend', pend, CtxOf[c], conn[c].rsvr, NoPend, Pends)
      /\ \A d : pend[CtxOf[c]][conn[c].rsvr] # <<"query", d>>
  BY <1>1, IdleKeeps
<1> QED BY <1>2 DEF Around

\* The limits of a connection that has taken a message.
LEMMA TakenWithin ==
    ASSUME BInv, NEW c \in Conns, NEW s, Taken(c, s), s.idx = conn[c].idx, s.iov = conn[c].iov
    PROVE  \A d \in Conns : conn'[d].idx + Len(conn'[d].iov) <= IovMax
<1>1. conn'[c].idx = conn[c].idx /\ conn'[c].iov = conn[c].iov BY DEF Taken
<1>2. \A d \in Conns : d # c => conn'[d] = conn[d] BY DEF Taken
<1> QED BY <1>1, <1>2 DEF BInv, Within
LEMMA KeepaliveB ==
    ASSUME BInv, ~aborted, UNCHANGED script, NEW c \in Conns, rtmq_rsvr_keepalive_req_hdl(c), conn[c].auth
    PROVE  BInv'
<1>0. /\ Live(c) /\ Idle(CtxOf[c], conn[c].rsvr) /\ conn[c].n < Len(script[c])
      /\ UNCHANGED <<map, sub, aborted, got, lsid, connq, cmd, sendq, recvq, distq, pend, lost>>
  BY DEF rtmq_rsvr_keepalive_req_hdl, Reading
<1>1. conn \in [Conns -> Scks] /\ ref \in [Bufs -> Int] BY DEF BInv, Typed
<1>2. PICK h \in Scks : h = conn[c] BY <1>1
<1>3. PICK w \in Seq(Mesgs) : w = Append(h.mesg, Ack("KPALIVE_ACK"))
  <2>1. h.mesg \in Seq(Mesgs) BY DEF Scks
  <2>2. Append(h.mesg, Ack("KPALIVE_ACK")) \in Seq(Mesgs) BY <2>1, AckIs
  <2> QED BY <2>2
<1>4. PICK s : s = [h EXCEPT !.mesg = w] OBVIOUS
<1>5. Took(c, s, ref) BY <1>2, <1>3, <1>4 DEF rtmq_rsvr_keepalive_req_hdl
<1>6. /\ s \in Scks /\ SameSck(s, h) /\ s.idx = h.idx /\ s.iov = h.iov BY <1>4 DEF Scks, SameSck
<1>7. conn[c].base \in Bufs /\ ref[conn[c].base] # 0 BY <1>0, Counted
<1>8. Taken(c, s) /\ ref' \in [Bufs -> Int] /\ Moved(c, s, ref)
  BY <1>1, <1>2, <1>5, <1>6, <1>7, TookIs DEF SameSck
<1>9. BuffersHeld' BY <1>0, <1>1, <1>2, <1>6, <1>8, TakenBuffers DEF SameSck, Live
<1>10. Around(c) BY <1>0, IdleAround DEF BInv, Placed
<1>11. Placed' /\ AuthRight' /\ PendRight' /\ NewTypes'
  <2>1. /\ conn[c].auth => conn[c].nid = NidOf[c] /\ conn[c].gid = GidOf[c]
        /\ ~conn[c].auth => conn[c].nid = NoNid /\ conn[c].subs = {}
    BY DEF BInv, AuthRight
  <2> QED BY <1>0, <1>2, <1>6, <1>8, <1>10, <2>1, TakenPlaces DEF SameSck, Live
<1>12. NoStaleRoute' /\ SubsAgree' BY <1>0, <1>2, <1>6, <1>8, TakenSame DEF SameSck, Live
<1>13. NoLostWakeup' BY <1>0, WakeSame, Zenon
<1>14. conn' \in [Conns -> Scks] BY <1>8 DEF Taken
<1>15. Typed' BY <1>0, <1>8, <1>14 DEF BInv, Typed
<1>16. \A d \in Conns : conn'[d].idx + Len(conn'[d].iov) <= IovMax BY <1>2, <1>6, <1>8, TakenWithin
<1>17. Within' BY <1>0, <1>16 DEF BInv, Within
<1> QED BY <1>9, <1>11, <1>12, <1>13, <1>15, <1>17 DEF BInv

LEMMA ExpB ==
    ASSUME BInv, ~aborted, UNCHANGED script, NEW c \in Conns, rtmq_rsvr_exp_mesg_proc(c)
    PROVE  BInv'
<1> DEFINE x == CtxOf[c]
           m == Arriving(c)
<1>0. /\ Live(c) /\ Idle(x, conn[c].rsvr) /\ conn[c].n < Len(script[c])
      /\ UNCHANGED <<map, sub, aborted, got, lsid, connq, cmd, sendq, distq, pend, lost>>
  BY DEF rtmq_rsvr_exp_mesg_proc, Reading
<1>1. conn \in [Conns -> Scks] /\ ref \in [Bufs -> Int] /\ recvq \in [Ctxs -> [Recvqs -> Seq(Items)]] /\ x \in Ctxs
  BY Ranges DEF BInv, Typed
<1>2. PICK s \in Scks : s = conn[c] BY <1>1
<1>3. conn[c].base \in Bufs /\ ref[conn[c].base] \in Nat \ {0} BY <1>0, Counted
<1>4. m \in Mesgs BY <1>0, ArrivingIs DEF BInv
<1>5. PICK rf \in [Bufs -> Int] :
        /\ Took(c, s, rf) /\ rf[s.base] # 0
        /\ recvq' \in [Ctxs -> [Recvqs -> Seq(Items)]]
        /\ \A y \in Ctxs, p \in Recvqs : Len(recvq'[y][p]) <= RecvqMax
        /\ \/ rf = ref /\ UNCHANGED recvq
           \/ \E z \in Ctxs, q \in Recvqs : \E k :
                 /\ Len(recvq[z][q]) < RecvqMax
                 /\ recvq' = [recvq EXCEPT ![z][q] = Append(@, [mesg |-> k, base |-> conn[c].base])]
                 /\ rf = [ref EXCEPT ![conn[c].base] = @ + 1]
  <2>1. PICK q \in Recvqs :
          IF conn[c].auth /\ Len(recvq[x][q]) < RecvqMax
          THEN /\ recvq' = [recvq EXCEPT ![x][q] = Append(@, [mesg |-> m, base |-> conn[c].base])]
               /\ Took(c, conn[c], [ref EXCEPT ![conn[c].base] = @ + 1])
          ELSE Took(c, conn[c], ref) /\ UNCHANGED recvq
    BY DEF rtmq_rsvr_exp_mesg_proc
  <2>2. CASE conn[c].auth /\ Len(recvq[x][q]) < RecvqMax
    <3>1. PICK rf : rf = [ref EXCEPT ![conn[c].base] = @ + 1] OBVIOUS
    <3>2. rf \in [Bufs -> Int] /\ rf[conn[c].base] # 0 BY <3>1, <1>1, <1>3
    <3>3. PICK it : it = [mesg |-> m, base |-> conn[c].base] OBVIOUS
    <3>4. it \in Items BY <3>3, <1>3, <1>4 DEF Items
    <3>5. recvq' = [recvq EXCEPT ![x][q] = Append(@, it)] BY <2>1, <2>2, <3>3
    <3>6. recvq[x][q] \in Seq(Items) BY <1>1
    <3>7. PICK w : w = Append(recvq[x][q], it) OBVIOUS
    <3>8. w \in Seq(Items) /\ Len(w) = Len(recvq[x][q]) + 1 /\ Len(recvq[x][q]) \in Nat BY <3>4, <3>6, <3>7
    <3>9. Len(w) <= RecvqMax BY <3>8, <2>2, BrokerAssumption
    <3>10. recvq' = [recvq EXCEPT ![x][q] = w] BY <3>5, <3>7
    <3>11. recvq' \in [Ctxs -> [Recvqs -> Seq(Items)]] /\ \A y \in Ctxs, p \in Recvqs : Len(recvq'[y][p]) <= RecvqMax
      BY <3>8, <3>9, <3>10, <1>1 DEF BInv, Within
    <3>12. Took(c, s, rf) BY <2>1, <2>2, <3>1, <1>2
    <3>13. \E z \in Ctxs, p \in Recvqs : \E k :
                 /\ Len(recvq[z][p]) < RecvqMax
                 /\ recvq' = [recvq EXCEPT ![z][p] = Append(@, [mesg |-> k, base |-> conn[c].base])]
                 /\ rf = [ref EXCEPT ![conn[c].base] = @ + 1]
      BY <2>1, <2>2, <3>1, <1>1
    <3> QED BY <3>2, <3>11, <3>12, <3>13, <1>2
  <2>3. CASE ~(conn[c].auth /\ Len(recvq[x][q]) < RecvqMax)
    <3>1. Took(c, s, ref) /\ recvq' = recvq BY <2>1, <2>3, <1>2
    <3>2. \A y \in Ctxs, p \in Recvqs : Len(recvq'[y][p]) <= RecvqMax BY <3>1 DEF BInv, Within
    <3> QED BY <3>1, <3>2, <1>1, <1>2, <1>3
  <2> QED BY <2>2, <2>3
<1>8. Taken(c, s) /\ ref' \in [Bufs -> Int] /\ Moved(c, s, rf)
  BY <1>1, <1>2, <1>3, <1>5, TookIs
<1>9. BuffersHeld' BY <1>0, <1>1, <1>2, <1>5, <1>8, TakenBuffers DEF Live
<1>10. Around(c) BY <1>0, IdleAround DEF BInv, Placed
<1>11. Placed' /\ AuthRight' /\ PendRight' /\ NewTypes'
  <2>1. /\ conn[c].auth => conn[c].nid = NidOf[c] /\ conn[c].gid = GidOf[c]
        /\ ~conn[c].auth => conn[c].nid = NoNid /\ conn[c].subs = {}
    BY DEF BInv, AuthRight
  <2> QED BY <1>0, <1>2, <1>8, <1>10, <2>1, TakenPlaces DEF Live
<1>12. NoStaleRoute' /\ SubsAgree' BY <1>0, <1>2, <1>8, TakenSame DEF Live
<1>13. NoLostWakeup' BY <1>0, WakeSame, Zenon
<1>14. conn' \in [Conns -> Scks] BY <1>8 DEF Taken
<1>15. Typed' BY <1>0, <1>5, <1>8, <1>14 DEF BInv, Typed
<1>16. \A d \in Conns : conn'[d].idx + Len(conn'[d].iov) <= IovMax BY <1>2, <1>8, TakenWithin
<1>17. Within' BY <1>0, <1>5, <1>16 DEF BInv, Within
<1> QED BY <1>9, <1>11, <1>12, <1>13, <1>15, <1>17 DEF BInv
LEMMA AuthB ==
    ASSUME BInv, ~aborted, UNCHANGED script, NEW c \in Conns, rtmq_rsvr_link_auth_req_hdl(c),
           ~(rtmq_auth_check(Arriving(c)) /\ MapFull(map[CtxOf[c]], NidOf[c]))
    PROVE  BInv'
<1> DEFINE x == CtxOf[c]
           r == conn[c].rsvr
           n == NidOf[c]
<1>0. /\ Live(c) /\ Idle(x, r) /\ conn[c].n < Len(script[c]) /\ Arriving(c).kind = "AUTH_REQ"
      /\ UNCHANGED <<got, lsid, connq, cmd, sendq, recvq, distq, sub, pend, lost, aborted>>
  BY DEF rtmq_rsvr_link_auth_req_hdl, Reading
<1>1. conn \in [Conns -> Scks] /\ ref \in [Bufs -> Int] /\ map \in [Ctxs -> [Nids -> Seq(Nat)]] BY DEF BInv, Typed
<1>2. PICK h \in Scks : h = conn[c] BY <1>1
<1>3. conn[c].n = 0 /\ c \notin Up BY <1>0, ArrivingIs DEF BInv
<1>4. ~conn[c].auth /\ conn[c].subs = {} /\ conn[c].nid = NoNid BY <1>0, <1>3 DEF BInv, AuthRight
<1>5. x \in Ctxs /\ r \in Rsvrs(x) /\ n \in Nids /\ GidOf[c] \in Gids /\ r \in Nat BY <1>0, Located, Ranges
<1>6. PICK ok \in BOOLEAN : ok = rtmq_auth_check(Arriving(c))
  <2>1. Arriving(c) \in Mesgs BY <1>0, ArrivingIs DEF BInv
  <2>2. Arriving(c).good \in BOOLEAN BY <2>1 DEF Mesgs
  <2> QED BY <2>2 DEF rtmq_auth_check
<1>7. PICK w \in Seq(Mesgs) : w = Append(h.mesg, Ack("AUTH_ACK"))
  <2>1. h.mesg \in Seq(Mesgs) BY DEF Scks
  <2>2. Append(h.mesg, Ack("AUTH_ACK")) \in Seq(Mesgs) BY <2>1, AckIs
  <2> QED BY <2>2
<1>8. PICK k : k = IF ok THEN n ELSE h.nid OBVIOUS
<1>9. PICK s : s = [h EXCEPT !.gid = GidOf[c], !.auth = ok, !.nid = k, !.mesg = w] OBVIOUS
<1>10. /\ Took(c, s, ref)
       /\ map' = IF ok THEN [map EXCEPT ![x] = MapAdd(@, n, r)] ELSE map
  <2>1. /\ Took(c, [conn[c] EXCEPT !.gid = GidOf[c], !.auth = ok,
                                   !.nid = IF ok THEN n ELSE @,
                                   !.mesg = Append(@, Ack("AUTH_ACK"))], ref)
        /\ map' = IF ok THEN [map EXCEPT ![x] = MapAdd(@, n, r)] ELSE map
    BY <1>6 DEF rtmq_rsvr_link_auth_req_hdl
  <2>2. s = [conn[c] EXCEPT !.gid = GidOf[c], !.auth = ok, !.nid = IF ok THEN n ELSE @,
                            !.mesg = Append(@, Ack("AUTH_ACK"))]
    BY <1>2, <1>7, <1>8, <1>9 DEF Scks
  <2> QED BY <2>1, <2>2
<1> HIDE DEF x, r, n
<1>11. /\ s \in Scks /\ s.st = h.st /\ s.rsvr = h.rsvr /\ s.n = h.n /\ s.base = h.base /\ s.subs = h.subs
       /\ s.idx = h.idx /\ s.iov = h.iov /\ s.auth = ok /\ s.nid = k /\ s.gid = GidOf[c]
  <2>1. k \in Nids \cup {NoNid} BY <1>2, <1>4, <1>5, <1>8
  <2> QED BY <2>1, <1>5, <1>9 DEF Scks
<1>12. conn[c].base \in Bufs /\ ref[conn[c].base] # 0 BY <1>0, Counted
<1>13. Taken(c, s) /\ ref' \in [Bufs -> Int] /\ Moved(c, s, ref)
  BY <1>1, <1>2, <1>10, <1>11, <1>12, TookIs
<1>14. BuffersHeld' BY <1>0, <1>1, <1>2, <1>11, <1>13, TakenBuffers DEF Live
<1>15. /\ map' \in [Ctxs -> [Nids -> Seq(Nat)]]
       /\ \A y \in Ctxs, a \in Nids : /\ Len(map'[y][a]) <= NodeToSvrMax
                                      /\ \A i \in 1 .. Len(map'[y][a]) : map'[y][a][i] \in Rsvrs(y)
       /\ \A y \in Ctxs, a \in Nids : y # x \/ a # n \/ ~ok => map'[y][a] = map[y][a]
       /\ ok => map'[x][n] = Append(map[x][n], r)
  <2>1. \A y \in Ctxs, a \in Nids : /\ Len(map[y][a]) <= NodeToSvrMax
                                    /\ \A i \in 1 .. Len(map[y][a]) : map[y][a][i] \in Rsvrs(y)
    BY DEF BInv, Within, Placed
  <2>2. CASE ~ok BY <2>1, <2>2, <1>1, <1>10
  <2>3. CASE ok
    <3>1. PICK l \in Seq(Nat) : l = map[x][n] BY <1>1, <1>5
    <3>2. PICK v : v = Append(l, r) OBVIOUS
    <3>3. /\ v \in Seq(Nat) /\ Len(v) = Len(l) + 1 /\ v[Len(l) + 1] = r /\ Len(l) \in Nat
          /\ \A i \in 1 .. Len(l) : v[i] = l[i]
      BY <3>2, <1>5
    <3>4. map' = [map EXCEPT ![x][n] = v] BY <2>3, <3>1, <3>2, <1>1, <1>5, <1>10 DEF MapAdd
    <3>5. map' \in [Ctxs -> [Nids -> Seq(Nat)]] BY <3>3, <3>4, <1>1, <1>5
    <3>6. map'[x][n] = v /\ \A y \in Ctxs, a \in Nids : y # x \/ a # n => map'[y][a] = map[y][a]
      BY <3>4, <1>1, <1>5
    <3>7. ~(Len(l) >= NodeToSvrMax) BY <2>3, <3>1, <1>6 DEF MapFull, x, n
    <3>8. Len(v) <= NodeToSvrMax BY <3>3, <3>7, BrokerAssumption
    <3>9. \A i \in 1 .. Len(v) : v[i] \in Rsvrs(x)
      <4> TAKE i \in 1 .. Len(v)
      <4>1. CASE i = Len(l) + 1 BY <4>1, <3>3, <1>5
      <4>2. CASE i # Len(l) + 1
        <5>1. i \in 1 .. Len(l) BY <4>2, <3>3
        <5> QED BY <5>1, <3>1, <3>3, <2>1, <1>5
      <4> QED BY <4>1, <4>2
    <3>10. \A y \in Ctxs, a \in Nids : /\ Len(map'[y][a]) <= NodeToSvrMax
                                      /\ \A i \in 1 .. Len(map'[y][a]) : map'[y][a][i] \in Rsvrs(y)
      <4> SUFFICES ASSUME NEW y \in Ctxs, NEW a \in Nids
                   PROVE  /\ Len(map'[y][a]) <= NodeToSvrMax
                          /\ \A i \in 1 .. Len(map'[y][a]) : map'[y][a][i] \in Rsvrs(y)
        OBVIOUS
      <4>1. CASE y = x /\ a = n BY <4>1, <3>6, <3>8, <3>9
      <4>2. CASE ~(y = x /\ a = n)
        <5>1. map'[y][a] = map[y][a] BY <4>2, <3>6
        <5> QED BY <5>1, <2>1
      <4> QED BY <4>1, <4>2
    <3> QED BY <2>3, <3>1, <3>2, <3>5, <3>6, <3>10
  <2> QED BY <2>2, <2>3
<1>16. Around(c) BY <1>0, <1>15, IdleAround DEF x, r
<1>17. Placed' /\ AuthRight' /\ PendRight' /\ NewTypes'
  <2>1. /\ ok => k = NidOf[c]
        /\ ~ok => k = NoNid
    BY <1>2, <1>4, <1>8 DEF n
  <2>2. s.subs = {} BY <1>2, <1>4, <1>11
  <2> QED BY <1>0, <1>2, <1>11, <1>13, <1>16, <2>1, <2>2, TakenPlaces DEF Live
<1>18. SubsAgree'
  <2>0. \A d \in Conns : d # c => conn'[d] = conn[d] /\ (Live(d)' <=> Live(d)) BY <1>13 DEF Taken, Live
  <2>1. conn'[c].subs = {} BY <1>2, <1>4, <1>11, <1>13 DEF Taken
  <2>2. \A y, t, g : Subscribed(y, t, g)' = Subscribed(y, t, g) BY <1>4, <2>0, <2>1 DEF Subscribed
  <2>3. (\A y \in Ctxs, t \in Types, g \in Gids : Subscribed(y, t, g) = Subs(sub[y], t, g))'
    BY <2>2, <1>0, SubsAre DEF BInv, Subs
  <2> QED BY <2>3 DEF SubsAgree, Subscribed, Subs
<1>19. NoStaleRoute'
  <2>1. CASE ~ok
    <3>1. s.nid = conn[c].nid /\ map' = map BY <2>1, <1>2, <1>8, <1>10, <1>11
    <3> QED BY <3>1, <1>0, <1>2, <1>11, <1>13, TakenSame DEF Live
  <2>2. CASE ok
    <3>0. \A d \in Conns : d # c => conn'[d] = conn[d] /\ (Live(d)' <=> Live(d)) BY <1>13 DEF Taken, Live
    <3>1. Live(c)' /\ conn'[c].nid = n /\ conn'[c].rsvr = r
      BY <2>2, <1>0, <1>2, <1>8, <1>11, <1>13 DEF Taken, Live, r
    <3>2. ASSUME NEW y \in Ctxs, NEW a \in Nids, NEW p \in Rsvrs(y)
          PROVE  Cardinality(Entries(map'[y][a], p)) <= Cardinality(Peers(y, a, p)')
      <4>1. Cardinality(Entries(map[y][a], p)) <= Cardinality(Peers(y, a, p)) BY RouteIs DEF BInv
      <4>2. c \notin Peers(y, a, p) BY <1>4, BrokerAssumption DEF Peers
      <4>3. IsFiniteSet(Peers(y, a, p)) /\ Cardinality(Peers(y, a, p)) \in Nat BY FiniteSpots DEF Peers
      <4>4. Cardinality(Entries(map[y][a], p)) \in Nat BY <1>1, EntriesFinite
      <4>5. CASE y = x /\ a = n /\ p = r
        <5>1. Peers(y, a, p)' = Peers(y, a, p) \cup {c} BY <4>5, <3>0, <3>1 DEF Peers, x
        <5>2. Cardinality(Peers(y, a, p) \cup {c}) = Cardinality(Peers(y, a, p)) + 1
          BY <4>2, <4>3, FS_AddElement
        <5>3. PICK l \in Seq(Nat) : l = map[x][n] BY <1>1, <1>5
        <5>4. Cardinality(Entries(Append(l, r), r)) = Cardinality(Entries(l, r)) + (IF r = r THEN 1 ELSE 0)
          BY <1>5, EntriesAdd
        <5>5. map'[y][a] = Append(l, r) BY <4>5, <5>3, <2>2, <1>15
        <5> QED BY <4>1, <4>3, <4>4, <4>5, <5>1, <5>2, <5>3, <5>4, <5>5
      <4>6. CASE ~(y = x /\ a = n /\ p = r)
        <5>1. Peers(y, a, p)' = Peers(y, a, p) BY <4>2, <4>6, <3>0, <3>1 DEF Peers, x
        <5>2. Cardinality(Entries(map'[y][a], p)) = Cardinality(Entries(map[y][a], p))
          <6>1. CASE y = x /\ a = n
            <7>1. PICK l \in Seq(Nat) : l = map[x][n] BY <1>1, <1>5
            <7>2. Cardinality(Entries(Append(l, r), p)) = Cardinality(Entries(l, p)) + (IF p = r THEN 1 ELSE 0)
              BY <1>5, EntriesAdd
            <7>3. map'[y][a] = Append(l, r) BY <6>1, <7>1, <2>2, <1>15
            <7>4. p # r BY <6>1, <4>6
            <7> QED BY <6>1, <7>1, <7>2, <7>3, <7>4, <4>4
          <6>2. CASE ~(y = x /\ a = n)
            <7>1. map'[y][a] = map[y][a] BY <6>2, <1>15
            <7> QED BY <7>1
          <6> QED BY <6>1, <6>2
        <5> QED BY <4>1, <5>1, <5>2
      <4> QED BY <4>5, <4>6
    <3>3. (\A y \in Ctxs, a \in Nids : \A p \in Rsvrs(y) :
              Cardinality(Entries(map[y][a], p)) <= Cardinality(Peers(y, a, p)))'
      BY <3>2 DEF Entries
    <3> QED BY <3>3 DEF NoStaleRoute, Entries, Peers
  <2> QED BY <2>1, <2>2
<1>20. NoLostWakeup' BY <1>0, WakeSame, Zenon
<1>21. conn' \in [Conns -> Scks] BY <1>13 DEF Taken
<1>22. Typed' BY <1>0, <1>13, <1>15, <1>21 DEF BInv, Typed
<1>23. \A d \in Conns : conn'[d].idx + Len(conn'[d].iov) <= IovMax BY <1>2, <1>11, <1>13, TakenWithin
<1>24. Within' BY <1>0, <1>15, <1>23 DEF BInv, Within
<1> QED BY <1>14, <1>17, <1>18, <1>19, <1>20, <1>22, <1>24 DEF BInv
-----------------------------------------------------------------------------
(* Subscriptions.                                                          *)

\* Where a connection is that asks for the subscription.
LEMMA Asking ==
    ASSUME BInv, NEW c \in Conns,
           Reading(c, "SUB_REQ") \/ (Live(c) /\ pend[CtxOf[c]][conn[c].rsvr] = <<"query", c>>)
    PROVE  /\ Live(c) /\ conn[c].n < Len(script[c]) /\ Arriving(c).kind = "SUB_REQ" /\ Arriving(c).type \in Types
           /\ CtxOf[c] \in Ctxs /\ conn[c].rsvr \in Rsvrs(CtxOf[c])
           /\ \A d : pend[CtxOf[c]][conn[c].rsvr] = <<"query", d>> => d = c
           /\ ~conn[c].auth => Idle(CtxOf[c], conn[c].rsvr)
<1>0. Live(c) BY DEF Reading
<1>1. CtxOf[c] \in Ctxs /\ conn[c].rsvr \in Rsvrs(CtxOf[c]) BY <1>0, Located
<1>2. CASE Reading(c, "SUB_REQ")
  <2>1. conn[c].n < Len(script[c]) /\ Arriving(c).kind = "SUB_REQ" /\ Idle(CtxOf[c], conn[c].rsvr)
    BY <1>2 DEF Reading
  <2>2. Arriving(c).type \in Types BY <2>1, ArrivingIs DEF BInv
  <2>3. \A d : NoPend # <<"query", d>> BY DEF NoPend
  <2> QED BY <1>0, <1>1, <2>1, <2>2, <2>3 DEF Idle
<1>3. CASE pend[CtxOf[c]][conn[c].rsvr] = <<"query", c>>
  <2>1. pend[CtxOf[c]][conn[c].rsvr] # NoPend BY <1>3, PendIs
  <2>2. pend[CtxOf[c]][conn[c].rsvr][2] = c BY <1>3
  <2>3. conn[c].auth /\ conn[c].n < Len(script[c]) /\ Arriving(c).kind = "SUB_REQ"
    BY <1>1, <2>1, <2>2 DEF BInv, PendRight
  <2>4. Arriving(c).type \in Types BY <2>3, ArrivingIs DEF BInv
  <2> QED BY <1>0, <1>1, <1>3, <2>3, <2>4
<1> QED BY <1>2, <1>3

LEMMA SubscribeB ==
    ASSUME BInv, ~aborted, UNCHANGED script, NEW c \in Conns, rtmq_sub_add_query(c), conn[c].auth,
           Arriving(c).type \in DOMAIN sub[CtxOf[c]]
    PROVE  BInv'
<1> DEFINE x == CtxOf[c]
           r == conn[c].rsvr
           t == Arriving(c).type
           g == conn[c].gid
<1>0. /\ Reading(c, "SUB_REQ") \/ (Live(c) /\ pend[x][r] = <<"query", c>>)
      /\ sub' = [sub EXCEPT ![x] = SubInsert(@, t, g, c)]
      /\ Took(c, [conn[c] EXCEPT !.subs = @ \cup {t}], ref)
      /\ pend' = [pend EXCEPT ![x][r] = NoPend]
      /\ UNCHANGED <<map, aborted, got, lsid, connq, cmd, sendq, recvq, distq, lost>>
  BY SMTT(30) DEF rtmq_sub_add_query
<1>1. /\ Live(c) /\ conn[c].n < Len(script[c]) /\ t \in Types /\ x \in Ctxs /\ r \in Rsvrs(x)
      /\ \A d : pend[x][r] = <<"query", d>> => d = c
  BY <1>0, Asking
<1>2. conn \in [Conns -> Scks] /\ ref \in [Bufs -> Int] BY DEF BInv, Typed
<1>3. PICK h \in Scks : h = conn[c] BY <1>2
<1>4. h.auth /\ h.nid = NidOf[c] /\ h.gid = GidOf[c] /\ GidOf[c] \in Gids /\ g \in Gids
  BY <1>3, Ranges DEF BInv, AuthRight
<1>5. PICK w \in SUBSET Types : w = h.subs \cup {t} BY <1>1 DEF Scks
<1>6. PICK s : s = [h EXCEPT !.subs = w] OBVIOUS
<1>7. Took(c, s, ref) BY <1>0, <1>3, <1>5, <1>6
<1>8. /\ s \in Scks /\ s.st = h.st /\ s.rsvr = h.rsvr /\ s.n = h.n /\ s.base = h.base /\ s.subs = w
      /\ s.idx = h.idx /\ s.iov = h.iov /\ s.auth = h.auth /\ s.nid = h.nid /\ s.gid = h.gid
  BY <1>6 DEF Scks
<1>9. conn[c].base \in Bufs /\ ref[conn[c].base] # 0 BY <1>1, Counted
<1>10. Taken(c, s) /\ ref' \in [Bufs -> Int] /\ Moved(c, s, ref)
  BY <1>2, <1>3, <1>7, <1>8, <1>9, TookIs
<1>11. BuffersHeld' BY <1>0, <1>1, <1>2, <1>3, <1>8, <1>10, TakenBuffers DEF Live
<1>12. sub = [y \in Ctxs |-> sub[y]] /\ \A y \in Ctxs : IsTab(sub[y]) BY DEF BInv, Typed
<1>13. PICK T : T = SubInsert(sub[x], t, g, c) OBVIOUS
<1>14. /\ IsTab(T) /\ DOMAIN T = DOMAIN sub[x] /\ DOMAIN T[t] # {}
       /\ \A u \in DOMAIN sub[x] : u # t => T[u] = sub[x][u]
       /\ \A u, k : Subs(T, u, k) = IF u = t /\ k = g THEN Subs(sub[x], u, k) \cup {c} ELSE Subs(sub[x], u, k)
  <2> HIDE DEF x, t, g
  <2>1. IsTab(sub[x]) /\ t \in DOMAIN sub[x] BY <1>1, <1>12 DEF x, t
  <2>2. Inserted(T, sub[x], t, g, c) BY <2>1, <1>4, <1>13, InsertIs, Zenon
  <2> QED BY <2>2 DEF Inserted
<1>15. sub' = [sub EXCEPT ![x] = T] BY <1>0, <1>13
<1> HIDE DEF x, r, t, g
<1>16. sub' = [y \in Ctxs |-> sub'[y]] /\ sub'[x] = T /\ \A y \in Ctxs : y # x => sub'[y] = sub[y]
  BY <1>1, <1>12, <1>15
<1>17. IsPut(pend', pend, x, r, NoPend, Pends)
  <2>1. Per(pend, Pends) /\ NoPend \in Pends BY PendIs DEF BInv, Typed
  <2> QED BY <1>0, <1>1, <2>1, Put, Zenon
<1>18. Around(c)
  <2>1. \A y \in Ctxs, n \in Nids : \A i \in 1 .. Len(map'[y][n]) : map'[y][n][i] \in Rsvrs(y)
    BY <1>0 DEF BInv, Placed
  <2>2. ASSUME NEW y \in Ctxs, NEW u \in DOMAIN sub'[y], DOMAIN sub'[y][u] = {}
        PROVE  /\ u \in DOMAIN sub[y] /\ DOMAIN sub[y][u] = {}
               /\ ~(y = x /\ pend[y][r] = <<"query", c>> /\ u = t)
    <3>1. CASE y = x
      <4>1. u # t /\ u \in DOMAIN sub[x] BY <2>2, <3>1, <1>14, <1>16
      <4> QED BY <2>2, <3>1, <4>1, <1>14, <1>16
    <3>2. CASE y # x BY <2>2, <3>2, <1>16
    <3> QED BY <3>1, <3>2
  <2> QED BY <1>1, <1>17, <2>1, <2>2 DEF Around, x, r, t
<1>19. Placed' /\ AuthRight' /\ PendRight' /\ NewTypes'
  BY <1>0, <1>1, <1>3, <1>4, <1>8, <1>10, <1>18, TakenPlaces DEF Live
<1>20. NoStaleRoute' BY <1>0, <1>1, <1>3, <1>8, <1>10, TakenSame DEF Live
<1>21. SubsAgree'
  <2>0. \A d \in Conns : d # c => conn'[d] = conn[d] /\ (Live(d)' <=> Live(d)) BY <1>10 DEF Taken, Live
  <2>1. Live(c)' /\ conn'[c].auth /\ conn'[c].gid = g /\ conn'[c].subs = conn[c].subs \cup {t}
    BY <1>1, <1>3, <1>4, <1>5, <1>8, <1>10 DEF Taken, Live, g
  <2>2. Live(c) /\ conn[c].auth /\ conn[c].gid = g BY <1>1 DEF g
  <2>3. ASSUME NEW y \in Ctxs, NEW u \in Types, NEW k \in Gids
        PROVE  Subscribed(y, u, k)' = Subs(sub'[y], u, k)
    <3>1. Subscribed(y, u, k) = Subs(sub[y], u, k) BY SubsAre DEF BInv
    <3>2. CASE y = x /\ u = t /\ k = g
      <4>1. Subscribed(y, u, k)' = Subscribed(y, u, k) \cup {c} BY <3>2, <2>0, <2>1 DEF Subscribed, x
      <4> QED BY <3>1, <3>2, <4>1, <1>14, <1>16
    <3>3. CASE ~(y = x /\ u = t /\ k = g)
      <4>1. Subscribed(y, u, k)' = Subscribed(y, u, k) BY <3>3, <2>0, <2>1, <2>2 DEF Subscribed, x
      <4>2. Subs(sub'[y], u, k) = Subs(sub[y], u, k) BY <3>3, <1>14, <1>16
      <4> QED BY <3>1, <4>1, <4>2
    <3> QED BY <3>2, <3>3
  <2>4. (\A y \in Ctxs, u \in Types, k \in Gids : Subscribed(y, u, k) = Subs(sub[y], u, k))'
    BY <2>3 DEF Subs
  <2> QED BY <2>4 DEF SubsAgree, Subscribed, Subs
<1>22. NoLostWakeup' BY <1>0, WakeSame, Zenon
<1>23. conn' \in [Conns -> Scks] BY <1>10 DEF Taken
<1>24. Per(pend', Pends) BY <1>17 DEF IsPut
<1>25. \A y \in Ctxs : IsTab(sub'[y]) BY <1>12, <1>14, <1>16
<1>26. Typed' BY <1>0, <1>10, <1>16, <1>23, <1>24, <1>25 DEF BInv, Typed
<1>27. \A d \in Conns : conn'[d].idx + Len(conn'[d].iov) <= IovMax BY <1>3, <1>8, <1>10, TakenWithin
<1>28. Within' BY <1>0, <1>27 DEF BInv, Within
<1> QED BY <1>11, <1>19, <1>20, <1>21, <1>22, <1>26, <1>28 DEF BInv

\* A receiver goes from one step of rtmq_sub_add to the next.
LEMMA PendMoves ==
    ASSUME BInv, UNCHANGED <<script, conn>>, NEW c \in Conns, Live(c), conn[c].auth,
           conn[c].n < Len(script[c]), Arriving(c).kind = "SUB_REQ",
           NEW p \in Pends, p[2] = c,
           pend' = [pend EXCEPT ![CtxOf[c]][conn[c].rsvr] = p]
    PROVE  IsPut(pend', pend, CtxOf[c], conn[c].rsvr, p, Pends) /\ PendRight'
<1> DEFINE x == CtxOf[c]
           r == conn[c].rsvr
<1>1. x \in Ctxs /\ r \in Rsvrs(x) BY Located
<1>2. Per(pend, Pends) BY DEF BInv, Typed
<1> HIDE DEF x, r
<1>3. pend' = [pend EXCEPT ![x][r] = p] BY DEF x, r
<1>4. IsPut(pend', pend, x, r, p, Pends) BY <1>1, <1>2, <1>3, Put, Zenon
<1>5. ASSUME NEW y \in Ctxs, NEW s \in Rsvrs(y), pend'[y][s] # NoPend, NEW d, d = pend'[y][s][2]
      PROVE  /\ Live(d)' /\ CtxOf[d] = y /\ conn'[d].rsvr = s /\ conn'[d].auth
             /\ conn'[d].n < Len(script'[d]) /\ script'[d][conn'[d].n + 1].kind = "SUB_REQ"
  <2>1. CASE y = x /\ s = r
    <3>1. d = c BY <1>5, <2>1, <1>4 DEF IsPut
    <3> QED BY <2>1, <3>1 DEF Live, Arriving, x, r
  <2>2. CASE ~(y = x /\ s = r)
    <3>1. pend'[y][s] = pend[y][s] BY <2>2, <1>4, SMTT(30) DEF IsPut
    <3>2. /\ Live(d) /\ CtxOf[d] = y /\ conn[d].rsvr = s /\ conn[d].auth
          /\ conn[d].n < Len(script[d]) /\ script[d][conn[d].n + 1].kind = "SUB_REQ"
      <4>1. pend[y][s] # NoPend /\ d = pend[y][s][2] BY <1>5, <3>1
      <4>2. y \in Ctxs /\ s \in Rsvrs(y) OBVIOUS
      <4> QED BY ONLY BInv, <4>1, <4>2 DEF BInv, PendRight, Arriving
    <3> QED BY <3>2 DEF Live
  <2> QED BY <2>1, <2>2
<1>6. PendRight' BY <1>5, PendNext, Zenon
<1> QED BY <1>4, <1>6 DEF x, r

LEMMA NoTypeB ==
    ASSUME BInv, UNCHANGED script, NEW c \in Conns, rtmq_sub_add_query(c), conn[c].auth,
           Arriving(c).type \notin DOMAIN sub[CtxOf[c]]
    PROVE  BInv'
<1> DEFINE x == CtxOf[c]
           r == conn[c].rsvr
<1>0. /\ Reading(c, "SUB_REQ") \/ (Live(c) /\ pend[x][r] = <<"query", c>>)
      /\ pend' = [pend EXCEPT ![x][r] = <<"insert", c>>]
      /\ UNCHANGED <<conn, map, sub, ref, aborted, got, lsid, connq, cmd, sendq, recvq, distq, lost>>
  BY SMTT(30) DEF rtmq_sub_add_query
<1>1. /\ Live(c) /\ conn[c].n < Len(script[c]) /\ Arriving(c).kind = "SUB_REQ"
      /\ \A d : pend[x][r] = <<"query", d>> => d = c
  BY <1>0, Asking
<1>2. IsPut(pend', pend, x, r, <<"insert", c>>, Pends) /\ PendRight'
  <2>1. <<"insert", c>> \in Pends /\ <<"insert", c>>[2] = c BY PendIs
  <2> QED BY <1>0, <1>1, <2>1, PendMoves, Zenon
<1>3. Minor /\ conn' \in [Conns -> Scks] /\ \A d \in Conns : conn'[d].idx + Len(conn'[d].iov) <= IovMax
  BY <1>0, SameConn
<1>4. Placed' /\ AuthRight' /\ NoStaleRoute' /\ SubsAgree' /\ BuffersHeld' BY <1>0, <1>3, MinorKeeps
<1>5. NoLostWakeup' BY <1>0, WakeSame, ZenonT(60)
<1>6. NewTypes'
  <2> SUFFICES ASSUME NEW y \in Ctxs, NEW t \in DOMAIN sub'[y], DOMAIN sub'[y][t] = {}
               PROVE  \E d \in Conns : /\ Live(d)' /\ CtxOf[d] = y /\ pend'[y][conn'[d].rsvr] = <<"query", d>>
                                       /\ script'[d][conn'[d].n + 1].type = t
    BY DEF NewTypes, Arriving
  <2>1. PICK d \in Conns : /\ Live(d) /\ CtxOf[d] = y /\ pend[y][conn[d].rsvr] = <<"query", d>>
                           /\ Arriving(d).type = t
    <3>1. NewTypes BY DEF BInv
    <3>2. t \in DOMAIN sub[y] /\ DOMAIN sub[y][t] = {} BY <1>0
    <3>3. PICK d \in Conns : Asked(y, t, d) BY <3>1, <3>2, NewTypeOf, Zenon
    <3> QED BY <3>3, Zenon DEF Asked
  <2>2. d # c BY <1>0, <2>1
  <2>3. y # x \/ conn[d].rsvr # r BY <1>1, <2>1, <2>2
  <2>4. conn[d].rsvr \in Rsvrs(y) BY <2>1, Located
  <2>5. pend'[y][conn[d].rsvr] = <<"query", d>> BY <1>2, <2>1, <2>3, <2>4 DEF IsPut
  <2> QED BY <2>1, <2>5, <1>0 DEF Live, Arriving
<1>7. Typed' BY <1>0, <1>2, <1>3 DEF BInv, Typed, IsPut
<1>8. Within' BY <1>0, <1>3 DEF BInv, Within
<1> QED BY <1>2, <1>4, <1>5, <1>6, <1>7, <1>8 DEF BInv

LEMMA NewTypeB ==
    ASSUME BInv, UNCHANGED script, NEW c \in Conns, rtmq_sub_add_insert(c),
           Arriving(c).type \notin DOMAIN sub[CtxOf[c]]
    PROVE  BInv'
<1> DEFINE x == CtxOf[c]
           r == conn[c].rsvr
           t == Arriving(c).type
<1>0. /\ Live(c) /\ pend[x][r] = <<"insert", c>>
      /\ sub' = [sub EXCEPT ![x] = rtmq_sub_list_alloc(@, t)]
      /\ pend' = [pend EXCEPT ![x][r] = <<"query", c>>]
      /\ UNCHANGED <<conn, map, ref, aborted, got, lsid, connq, cmd, sendq, recvq, distq, lost>>
  BY DEF rtmq_sub_add_insert
<1>1. x \in Ctxs /\ r \in Rsvrs(x) BY <1>0, Located
<1>2. conn[c].auth /\ conn[c].n < Len(script[c]) /\ Arriving(c).kind = "SUB_REQ"
  <2>1. pend[x][r] # NoPend /\ pend[x][r][2] = c BY <1>0, PendIs
  <2> QED BY <1>1, <2>1 DEF BInv, PendRight
<1>3. t \in Types BY <1>2, ArrivingIs DEF BInv
<1>4. IsPut(pend', pend, x, r, <<"query", c>>, Pends) /\ PendRight'
  <2>1. <<"query", c>> \in Pends /\ <<"query", c>>[2] = c BY PendIs
  <2> QED BY <1>0, <1>2, <2>1, PendMoves, Zenon
<1>5. sub = [y \in Ctxs |-> sub[y]] /\ \A y \in Ctxs : IsTab(sub[y]) BY DEF BInv, Typed
<1>6. PICK T : T = rtmq_sub_list_alloc(sub[x], t) OBVIOUS
<1>7. /\ IsTab(T) /\ DOMAIN T = DOMAIN sub[x] \cup {t}
      /\ \A u \in DOMAIN sub[x] : T[u] = sub[x][u]
      /\ \A u, k : Subs(T, u, k) = Subs(sub[x], u, k)
  <2> HIDE DEF x, t
  <2>1. IsTab(sub[x]) /\ t \notin DOMAIN sub[x] BY <1>1, <1>5 DEF x, t
  <2> QED BY <2>1, <1>3, <1>6, AllocIs
<1>8. sub' = [sub EXCEPT ![x] = T] BY <1>0, <1>6
<1> HIDE DEF x, r, t
<1>9. sub' = [y \in Ctxs |-> sub'[y]] /\ sub'[x] = T /\ \A y \in Ctxs : y # x => sub'[y] = sub[y]
  BY <1>1, <1>5, <1>8
<1>10. Minor /\ conn' \in [Conns -> Scks] /\ \A d \in Conns : conn'[d].idx + Len(conn'[d].iov) <= IovMax
  BY <1>0, SameConn
<1>11. Placed' /\ AuthRight' /\ NoStaleRoute' /\ BuffersHeld' BY <1>0, <1>10, MinorKeeps
<1>12. NoLostWakeup' BY <1>0, WakeSame, Zenon
<1>13. NewTypes'
  <2> SUFFICES ASSUME NEW y \in Ctxs, NEW u \in DOMAIN sub'[y], DOMAIN sub'[y][u] = {}
               PROVE  \E d \in Conns : /\ Live(d)' /\ CtxOf[d] = y /\ pend'[y][conn'[d].rsvr] = <<"query", d>>
                                       /\ script'[d][conn'[d].n + 1].type = u
    BY DEF NewTypes, Arriving
  <2>1. CASE y = x /\ u = t
    <3>1. pend'[x][r] = <<"query", c>> BY <1>4 DEF IsPut
    <3> QED BY <2>1, <3>1, <1>0, Zenon DEF Live, Arriving, x, r, t
  <2>2. CASE ~(y = x /\ u = t)
    <3>1. u \in DOMAIN sub[y] /\ DOMAIN sub[y][u] = {} BY <2>2, <1>7, <1>9
    <3>2. PICK d \in Conns : /\ Live(d) /\ CtxOf[d] = y /\ pend[y][conn[d].rsvr] = <<"query", d>>
                             /\ Arriving(d).type = u
      <4>1. NewTypes BY DEF BInv
      <4>2. PICK d \in Conns : Asked(y, u, d) BY <4>1, <3>1, NewTypeOf, Zenon
      <4> QED BY <4>2, Zenon DEF Asked
    <3>3. y # x \/ conn[d].rsvr # r BY <1>0, <3>2, PendIs
    <3>4. conn[d].rsvr \in Rsvrs(y) BY <3>2, Located
    <3>5. pend'[y][conn[d].rsvr] = <<"query", d>> BY <1>4, <3>2, <3>3, <3>4 DEF IsPut
    <3> QED BY <3>2, <3>5, <1>0 DEF Live, Arriving
  <2> QED BY <2>1, <2>2
<1>14. SubsAgree'
  <2>1. \A y, u, k : Subscribed(y, u, k)' = Subscribed(y, u, k) BY <1>0 DEF Subscribed, Live
  <2>2. \A y \in Ctxs : \A u, k : Subs(sub'[y], u, k) = Subs(sub[y], u, k) BY <1>7, <1>9
  <2>3. \A y \in Ctxs, u \in Types, k \in Gids : Subscribed(y, u, k) = Subs(sub[y], u, k) BY SubsAre DEF BInv
  <2>4. \A y \in Ctxs, u \in Types, k \in Gids : Subscribed(y, u, k)' = Subs(sub'[y], u, k)
    BY <2>1, <2>2, <2>3
  <2>5. (\A y \in Ctxs, u \in Types, k \in Gids : Subscribed(y, u, k) = Subs(sub[y], u, k))'
    BY <2>4 DEF Subs
  <2> QED BY <2>5 DEF SubsAgree, Subscribed, Subs
<1>15. \A y \in Ctxs : IsTab(sub'[y]) BY <1>5, <1>7, <1>9
<1>16. Typed' BY <1>0, <1>4, <1>9, <1>10, <1>15 DEF BInv, Typed, IsPut
<1>17. Within' BY <1>0, <1>10 DEF BInv, Within
<1> QED BY <1>4, <1>11, <1>12, <1>13, <1>14, <1>16, <1>17 DEF BInv

LEMMA SubB ==
    ASSUME BInv, ~aborted, UNCHANGED script, NEW c \in Conns, rtmq_sub_add_query(c) \/ rtmq_sub_add_insert(c)
    PROVE  BInv'
<1>1. CASE rtmq_sub_add_query(c) /\ ~conn[c].auth
  <2>1. Reading(c, "SUB_REQ") \/ (Live(c) /\ pend[CtxOf[c]][conn[c].rsvr] = <<"query", c>>)
    BY <1>1 DEF rtmq_sub_add_query
  <2>2. Live(c) /\ Idle(CtxOf[c], conn[c].rsvr) BY <1>1, <2>1, Asking
  <2>3. /\ DelConn(CtxOf[c], conn[c].rsvr, c, 1)
        /\ UNCHANGED <<got, lsid, connq, cmd, sendq, recvq, distq, pend, lost>>
    BY <1>1 DEF rtmq_sub_add_query
  <2> QED BY <2>2, <2>3, IdleDelB
<1>2. CASE rtmq_sub_add_query(c) /\ conn[c].auth BY <1>2, SubscribeB, NoTypeB
<1>3. CASE rtmq_sub_add_insert(c) BY <1>3, InsertLateB, NewTypeB
<1> QED BY <1>1, <1>2, <1>3
-----------------------------------------------------------------------------
(* Connections that arrive.                                                *)

\* A connection that has not authenticated is nobody to the tables.
LEMMA NewcomerKeeps ==
    ASSUME BInv, NEW c \in Conns, ~Live(c), conn' \in [Conns -> Scks],
           \A d \in Conns : d # c => conn'[d] = conn[d],
           conn'[c].auth = conn[c].auth, conn'[c].nid = conn[c].nid, conn'[c].subs = conn[c].subs,
           conn'[c].n = conn[c].n, Live(c)' => conn'[c].base \in Bufs,
           UNCHANGED <<script, map, sub, pend>>
    PROVE  AuthRight' /\ PendRight' /\ NewTypes' /\ NoStaleRoute' /\ SubsAgree'
<1>0. \A d \in Conns : d # c => conn'[d] = conn[d] /\ (Live(d)' <=> Live(d)) BY DEF Live
<1>1. conn[c].n = 0 /\ ~conn[c].auth /\ conn[c].nid = NoNid /\ conn[c].subs = {} BY DEF BInv, AuthRight
<1>2. conn'[c].n = 0 /\ ~conn'[c].auth /\ conn'[c].nid = NoNid /\ conn'[c].subs = {} BY <1>1
<1>3. AuthRight'
  <2>1. \A d \in Conns : d # c =>
            /\ ~Live(d)' => conn'[d].n = 0 /\ ~conn'[d].auth
            /\ conn'[d].auth => conn'[d].nid = NidOf[d] /\ conn'[d].gid = GidOf[d]
            /\ ~conn'[d].auth => conn'[d].nid = NoNid /\ conn'[d].subs = {}
            /\ Live(d)' /\ conn'[d].n = 0 => d \in Up \/ ~conn'[d].auth
            /\ conn'[d].n <= Len(script'[d])
            /\ Live(d)' => conn'[d].base \in Bufs
    BY <1>0 DEF BInv, AuthRight
  <2>2. conn'[c].n <= Len(script'[c]) BY SMTT(30) DEF BInv, AuthRight
  <2> QED BY <1>2, <2>1, <2>2 DEF AuthRight
<1>4. PendRight'
  <2> SUFFICES ASSUME NEW y \in Ctxs, NEW p \in Rsvrs(y), pend'[y][p] # NoPend, NEW d, d = pend'[y][p][2]
               PROVE  /\ Live(d)' /\ CtxOf[d] = y /\ conn'[d].rsvr = p /\ conn'[d].auth
                      /\ conn'[d].n < Len(script'[d]) /\ script'[d][conn'[d].n + 1].kind = "SUB_REQ"
    BY SMTT(30) DEF PendRight, Arriving
  <2>1. pend[y][p] # NoPend /\ d = pend[y][p][2] /\ y \in Ctxs /\ p \in Rsvrs(y) OBVIOUS
  <2>2. pend[y][p] \in Pends BY Get DEF BInv, Typed
  <2>3. d \in Conns BY <2>1, <2>2, PendIs
  <2>4. /\ Live(d) /\ CtxOf[d] = y /\ conn[d].rsvr = p /\ conn[d].auth
        /\ conn[d].n < Len(script[d]) /\ script[d][conn[d].n + 1].kind = "SUB_REQ"
    BY ONLY BInv, <2>1 DEF BInv, PendRight, Arriving
  <2>5. d # c BY <2>4
  <2> QED BY <1>0, <2>3, <2>4, <2>5
<1>5. NewTypes'
  <2> SUFFICES ASSUME NEW y \in Ctxs, NEW t \in DOMAIN sub'[y], DOMAIN sub'[y][t] = {}
               PROVE  \E d \in Conns : /\ Live(d)' /\ CtxOf[d] = y /\ pend'[y][conn'[d].rsvr] = <<"query", d>>
                                       /\ script'[d][conn'[d].n + 1].type = t
    BY DEF NewTypes, Arriving
  <2>1. PICK d \in Conns : /\ Live(d) /\ CtxOf[d] = y /\ pend[y][conn[d].rsvr] = <<"query", d>>
                           /\ script[d][conn[d].n + 1].type = t
    BY DEF BInv, NewTypes, Arriving
  <2>2. d # c BY <2>1
  <2> QED BY <1>0, <2>1, <2>2
<1>6. NoStaleRoute'
  <2>1. \A y, n, p : n \in Nids => Peers(y, n, p)' = Peers(y, n, p)
    <3>1. NoNid \notin Nids BY BrokerAssumption
    <3> QED BY <1>0, <1>2, <3>1 DEF Peers
  <2>2. \A x \in Ctxs, n \in Nids : \A r \in Rsvrs(x) :
            Cardinality(Entries(map[x][n], r)) <= Cardinality(Peers(x, n, r)')
    BY <2>1, RouteIs DEF BInv
  <2>3. (\A x \in Ctxs, n \in Nids : \A r \in Rsvrs(x) :
            Cardinality(Entries(map[x][n], r)) <= Cardinality(Peers(x, n, r)))'
    BY <2>2 DEF Entries
  <2> QED BY <2>3, RouteIs, PTL
<1>7. SubsAgree'
  <2>1. \A y, t, g : Subscribed(y, t, g)' = Subscribed(y, t, g) BY <1>0, <1>2 DEF Subscribed
  <2>2. (\A x \in Ctxs, t \in Types, g \in Gids : Subscribed(x, t, g) = Subs(sub[x], t, g))'
    BY <2>1, SubsAre DEF BInv, Subs
  <2> QED BY <2>2, SubsAre, PTL
<1> QED BY <1>3, <1>4, <1>5, <1>6, <1>7

LEMMA QueuedIs ==
    ASSUME BInv, NEW y \in Ctxs, NEW p \in Rsvrs(y), NEW i \in 1 .. Len(connq[y][p])
    PROVE  /\ connq[y][p] \in Seq(Conns) /\ connq[y][p][i] \in Conns
           /\ CtxOf[connq[y][p][i]] = y /\ conn[connq[y][p][i]].st = "queued"
<1>1. connq[y][p] \in Seq(Conns) BY Get DEF BInv, Typed
<1> QED BY <1>1 DEF BInv, Placed

LEMMA AcceptB ==
    ASSUME BInv, UNCHANGED script, NEW c \in Conns, rtmq_lsn_accept(c)
    PROVE  BInv'
<1> DEFINE x == CtxOf[c]
<1>1. x \in Ctxs /\ lsid \in [Ctxs -> Nat] /\ lsid[x] \in Nat BY Ranges DEF BInv, Typed
<1>2. PICK r \in Rsvrs(x) : r = lsid[x] % RecvThdNum[x] BY <1>1, Ranges
<1>0. /\ conn[c].st = "new" /\ PipeWrite(x, r, "ADD_SCK")
      /\ UNCHANGED <<got, sendq, recvq, distq, map, sub, pend, ref, aborted, ticks>>
      /\ \/ /\ Len(connq[x][r]) < ConnqMax
            /\ connq' = [connq EXCEPT ![x][r] = Append(@, c)]
            /\ lsid' = [lsid EXCEPT ![x] = @ + 1]
            /\ conn' = [conn EXCEPT ![c].st = "queued"]
         \/ conn' = [conn EXCEPT ![c].st = "closed"] /\ UNCHANGED <<connq, lsid>>
  BY <1>2 DEF rtmq_lsn_accept
<1> HIDE DEF x
<1>3. PICK k \in {"queued", "closed"} :
        /\ conn' = [conn EXCEPT ![c].st = k]
        /\ \/ /\ k = "queued" /\ Len(connq[x][r]) < ConnqMax /\ connq' = [connq EXCEPT ![x][r] = Append(@, c)]
              /\ lsid' = [lsid EXCEPT ![x] = @ + 1]
           \/ UNCHANGED <<connq, lsid>>
  BY <1>0
<1>4. PICK h \in Scks : h = conn[c] BY DEF BInv, Typed
<1>5. PICK s : s = [h EXCEPT !.st = k] OBVIOUS
<1>6. /\ s \in Scks /\ s.st = k /\ s.auth = h.auth /\ s.nid = h.nid /\ s.subs = h.subs /\ s.n = h.n
      /\ s.idx = h.idx /\ s.iov = h.iov
  BY <1>5 DEF Scks
<1>7. conn' = [conn EXCEPT ![c] = s] BY <1>3, <1>4, <1>5
<1>8. conn' \in [Conns -> Scks] /\ conn'[c] = s /\ \A d \in Conns : d # c => conn'[d] = conn[d]
  BY <1>6, <1>7 DEF BInv, Typed
<1>9. ~Live(c) /\ ~Live(c)' BY <1>0, <1>6, <1>8 DEF Live
<1>10. AuthRight' /\ PendRight' /\ NewTypes' /\ NoStaleRoute' /\ SubsAgree'
  BY <1>0, <1>4, <1>6, <1>8, <1>9, NewcomerKeeps
<1>11. \A d \in Conns : d # c => (Live(d)' <=> Live(d)) BY <1>8 DEF Live
<1>12. BuffersHeld'
  <2>1. \A b \in Bufs : Holders(b)' = Holders(b)
    <3> TAKE b \in Bufs
    <3>1. Ch(b)' = Ch(b) BY <1>8, <1>9, <1>11 DEF Ch
    <3>2. Rh(b)' = Rh(b) BY <1>0 DEF Rh
    <3>3. Holders(b) = Cardinality(Ch(b)) + Cardinality(Rh(b)) BY HoldersAre
    <3>4. Holders(b)' = Cardinality(Ch(b)') + Cardinality(Rh(b)') BY DEF Holders, Ch, Rh
    <3> QED BY <3>1, <3>2, <3>3, <3>4
  <2> QED BY <2>1, <1>0 DEF BInv, BuffersHeld
<1>13. PipesTyped BY TypedPipes DEF BInv
<1>14. /\ PipesTyped' /\ Told(x, r, "ADD_SCK")'
       /\ \A y \in Ctxs : \A p \in Rsvrs(y) : \A j : Told(y, p, j) => Told(y, p, j)'
  BY <1>0, <1>1, <1>13, WriteTells DEF Cmds
<1>15. \A d \in Conns : conn'[d].idx + Len(conn'[d].iov) <= IovMax BY <1>4, <1>6, <1>8 DEF BInv, Within
<1>16. \A d \in Conns : Live(d)' => conn'[d].rsvr \in Rsvrs(CtxOf[d])
  BY <1>8, <1>9, <1>11 DEF BInv, Placed
<1>17. \A y \in Ctxs : \A p \in Rsvrs(y) : \A i \in 1 .. Len(connq[y][p]) :
         /\ connq[y][p][i] \in Conns /\ connq[y][p][i] # c
         /\ CtxOf[connq[y][p][i]] = y /\ conn'[connq[y][p][i]].st = "queued"
  BY <1>0, <1>8, QueuedIs
<1>18. CASE UNCHANGED <<connq, lsid>>
  <2>1. AllTold'
    <3>1. \A y \in Ctxs : \A p \in Rsvrs(y) : /\ sendq[y][p] # <<>> => Told(y, p, "DIST_REQ")'
                                              /\ connq[y][p] # <<>> => Told(y, p, "ADD_SCK")'
      BY <1>14, WakeIs DEF BInv, AllTold
    <3>2. \A y \in Ctxs : \A p \in Rsvrs(y) : /\ sendq'[y][p] # <<>> => Told(y, p, "DIST_REQ")'
                                              /\ connq'[y][p] # <<>> => Told(y, p, "ADD_SCK")'
      BY <3>1, <1>0, <1>18
    <3> QED BY <3>2 DEF AllTold
  <2>2. NoLostWakeup' BY <2>1, WakeIs, PTL
  <2>3. Placed' BY <1>0, <1>16, <1>17, <1>18 DEF BInv, Placed
  <2>4. Typed' BY <1>0, <1>8, <1>14, <1>18 DEF BInv, Typed, PipesTyped
  <2>5. Within' BY <1>0, <1>14, <1>15, <1>18 DEF BInv, Within, PipesTyped
  <2> QED BY <1>10, <1>12, <2>2, <2>3, <2>4, <2>5 DEF BInv
<1>19. CASE /\ k = "queued" /\ Len(connq[x][r]) < ConnqMax /\ connq' = [connq EXCEPT ![x][r] = Append(@, c)]
            /\ lsid' = [lsid EXCEPT ![x] = @ + 1]
  <2>0. /\ Per(connq', Seq(Conns)) /\ Len(connq'[x][r]) = Len(connq[x][r]) + 1
        /\ \A i \in 1 .. Len(connq[x][r]) : connq'[x][r][i] = connq[x][r][i]
        /\ connq'[x][r][Len(connq[x][r]) + 1] = c /\ connq[x][r] \in Seq(Conns)
        /\ \A y \in Ctxs : \A p \in Rsvrs(y) : y # x \/ p # r => connq'[y][p] = connq[y][p]
    <3>1. Per(connq, Seq(Conns)) BY DEF BInv, Typed
    <3>2. IsAppend(connq', connq, x, r, c, Conns) BY <1>1, <1>19, <3>1, QueueAppend, Zenon
    <3> QED BY <3>2 DEF IsAppend
  <2>1. AllTold'
    <3>1. \A y \in Ctxs : \A p \in Rsvrs(y) : /\ sendq[y][p] # <<>> => Told(y, p, "DIST_REQ")'
                                              /\ connq[y][p] # <<>> => Told(y, p, "ADD_SCK")'
      BY <1>14, WakeIs DEF BInv, AllTold
    <3>2. \A y \in Ctxs : \A p \in Rsvrs(y) : /\ sendq'[y][p] # <<>> => Told(y, p, "DIST_REQ")'
                                              /\ connq'[y][p] # <<>> => Told(y, p, "ADD_SCK")'
      BY <3>1, <1>0, <1>14, <2>0
    <3> QED BY <3>2 DEF AllTold
  <2>2. NoLostWakeup' BY <2>1, WakeIs, PTL
  <2>3. PICK L \in Nat : L = Len(connq[x][r]) BY <2>0
  \* Every place of the new queue is a place of the old one or the new last place.
  <2>4. ASSUME NEW y \in Ctxs, NEW p \in Rsvrs(y), NEW i \in 1 .. Len(connq'[y][p])
        PROVE  \/ i \in 1 .. Len(connq[y][p]) /\ connq'[y][p][i] = connq[y][p][i]
               \/ y = x /\ p = r /\ i = L + 1 /\ connq'[y][p][i] = c
    <3>1. CASE y = x /\ p = r
      <4>1. i \in 1 .. L + 1 BY <3>1, <2>0, <2>3
      <4>2. i \in 1 .. L \/ i = L + 1 BY <4>1
      <4> QED BY <3>1, <4>2, <2>0, <2>3
    <3>2. CASE ~(y = x /\ p = r) BY <3>2, <2>0
    <3> QED BY <3>1, <3>2
  <2>5. conn'[c].st = "queued" BY <1>6, <1>8, <1>19
  <2>6. \A y \in Ctxs : \A p \in Rsvrs(y) : \A i \in 1 .. Len(connq'[y][p]) :
           CtxOf[connq'[y][p][i]] = y /\ conn'[connq'[y][p][i]].st = "queued"
    BY <1>17, <2>4, <2>5 DEF x
  <2>7. ASSUME NEW y \in Ctxs, NEW p \in Rsvrs(y), NEW q \in Rsvrs(y),
               NEW i \in 1 .. Len(connq'[y][p]), NEW j \in 1 .. Len(connq'[y][q]),
               connq'[y][p][i] = connq'[y][q][j]
        PROVE  p = q /\ i = j
    <3>1. CASE i \in 1 .. Len(connq[y][p]) /\ connq'[y][p][i] = connq[y][p][i]
      <4>1. connq[y][p][i] # c BY <3>1, <1>17
      <4>2. connq'[y][q][j] # c BY <3>1, <4>1, <2>7
      <4>3. j \in 1 .. Len(connq[y][q]) /\ connq'[y][q][j] = connq[y][q][j] BY <4>2, <2>4
      <4>4. connq[y][p][i] = connq[y][q][j] BY <3>1, <4>3, <2>7
      <4>5. i \in 1 .. Len(connq[y][p]) BY <3>1
      <4> QED BY <4>3, <4>4, <4>5 DEF BInv, Placed
    <3>2. CASE y = x /\ p = r /\ i = L + 1 /\ connq'[y][p][i] = c
      <4>1. y = x /\ q = r /\ j = L + 1 BY <3>2, <2>4, <2>7, <1>17
      <4> QED BY <3>2, <4>1
    <3> QED BY <3>1, <3>2, <2>4
  <2>8. Placed' BY <1>0, <1>16, <2>6, <2>7 DEF BInv, Placed
  <2>9. lsid' \in [Ctxs -> Nat] BY <1>1, <1>19
  <2>10. Typed' BY <1>0, <1>8, <1>14, <2>0, <2>9 DEF BInv, Typed, PipesTyped
  <2>11. \A y \in Ctxs : \A p \in Rsvrs(y) : Len(connq'[y][p]) <= ConnqMax
    <3> SUFFICES ASSUME NEW y \in Ctxs, NEW p \in Rsvrs(y) PROVE Len(connq'[y][p]) <= ConnqMax
      OBVIOUS
    <3>1. CASE y = x /\ p = r
      <4>1. ConnqMax \in Nat /\ L < ConnqMax BY <1>19, <2>3, BrokerAssumption
      <4>2. L + 1 <= ConnqMax BY <4>1
      <4> QED BY <3>1, <4>2, <2>0, <2>3
    <3>2. CASE ~(y = x /\ p = r) BY <3>2, <2>0 DEF BInv, Within
    <3> QED BY <3>1, <3>2
  <2>12. Within' BY <1>0, <1>14, <1>15, <2>11 DEF BInv, Within, PipesTyped
  <2> QED BY <1>10, <1>12, <2>2, <2>8, <2>10, <2>12 DEF BInv
<1> QED BY <1>3, <1>18, <1>19
LEMMA AddConnB ==
    ASSUME BInv, ~aborted, UNCHANGED script, NEW x \in Ctxs, NEW r \in Rsvrs(x), rtmq_rsvr_add_conn_hdl(x, r)
    PROVE  BInv'
<1>0. UNCHANGED <<got, lsid, sendq, recvq, distq, map, sub, pend, aborted, ticks>>
  BY DEF rtmq_rsvr_add_conn_hdl
<1>1. PipesTyped BY TypedPipes DEF BInv
<1>2. Per(connq, Seq(Conns)) BY DEF BInv, Typed
<1>3. CASE connq[x][r] = <<>>
  <2>1. /\ cmd' = [cmd EXCEPT ![x][r] = Tail(@)] /\ lost' = [lost EXCEPT ![x][r] = @ \ {"ADD_SCK"}]
        /\ UNCHANGED <<conn, connq, ref>>
    BY <1>3, SMTT(30) DEF rtmq_rsvr_add_conn_hdl
  <2>2. cmd[x][r] # <<>> /\ Head(cmd[x][r]) = "ADD_SCK" BY DEF rtmq_rsvr_add_conn_hdl, Command
  <2>3. /\ PipesTyped'
        /\ \A y \in Ctxs : \A s \in Rsvrs(y) : \A j :
              Told(y, s, j) => Told(y, s, j)' \/ (y = x /\ s = r /\ j = "ADD_SCK")
    BY <1>1, <2>1, <2>2, PopTells
  <2>4. AllTold'
    <3>1. \A y \in Ctxs : \A s \in Rsvrs(y) : /\ sendq[y][s] # <<>> => Told(y, s, "DIST_REQ")'
                                              /\ connq[y][s] # <<>> => Told(y, s, "ADD_SCK")'
      BY <1>3, <2>3, WakeIs DEF BInv, AllTold
    <3>2. \A y \in Ctxs : \A s \in Rsvrs(y) : /\ sendq'[y][s] # <<>> => Told(y, s, "DIST_REQ")'
                                              /\ connq'[y][s] # <<>> => Told(y, s, "ADD_SCK")'
      BY <3>1, <2>1, <1>0
    <3> QED BY <3>2 DEF AllTold
  <2>5. NoLostWakeup' BY <2>4, WakeIs, PTL
  <2>6. Minor /\ conn' \in [Conns -> Scks] /\ \A c \in Conns : conn'[c].idx + Len(conn'[c].iov) <= IovMax
    BY <2>1, SameConn
  <2>7. Placed' /\ AuthRight' /\ PendRight' /\ NewTypes' /\ NoStaleRoute' /\ SubsAgree' /\ BuffersHeld'
    BY <1>0, <2>1, <2>6, MinorKeeps
  <2>8. Typed' BY <1>0, <2>1, <2>3 DEF BInv, Typed, PipesTyped
  <2>9. Within' BY <1>0, <2>1, <2>3 DEF BInv, Within, PipesTyped
  <2> QED BY <2>5, <2>7, <2>8, <2>9 DEF BInv
<1>4. CASE connq[x][r] # <<>>
  <2>1. PICK b \in Bufs :
          /\ ref[b] = 0 /\ connq' = [connq EXCEPT ![x][r] = Tail(@)]
          /\ conn' = [conn EXCEPT ![Head(connq[x][r])] = [@ EXCEPT !.st = "live", !.rsvr = r, !.base = b]]
          /\ ref' = [ref EXCEPT ![b] = 1] /\ UNCHANGED <<cmd, lost>>
    BY <1>4 DEF rtmq_rsvr_add_conn_hdl, FreeBufs
  <2>2. /\ Per(connq', Seq(Conns)) /\ Len(connq'[x][r]) = Len(connq[x][r]) - 1
        /\ \A i \in 1 .. Len(connq'[x][r]) : connq'[x][r][i] = connq[x][r][i + 1]
        /\ connq[x][r] \in Seq(Conns) /\ Head(connq[x][r]) \in Conns /\ Head(connq[x][r]) = connq[x][r][1]
        /\ Len(connq[x][r]) >= 1
        /\ \A y \in Ctxs : \A s \in Rsvrs(y) : y # x \/ s # r => connq'[y][s] = connq[y][s]
    <3>1. IsTail(connq', connq, x, r, Conns) BY <1>2, <1>4, <2>1, QueueTail, Zenon
    <3> QED BY <3>1 DEF IsTail
  <2>3. PICK c \in Conns : c = Head(connq[x][r]) BY <2>2
  <2>4. PICK L \in Nat : L = Len(connq[x][r]) BY <2>2
  <2>5. L >= 1 /\ Len(connq'[x][r]) = L - 1 /\ c = connq[x][r][1] BY <2>2, <2>3, <2>4
  <2>6. 1 \in 1 .. Len(connq[x][r]) BY <2>4, <2>5
  <2>7. CtxOf[c] = x /\ conn[c].st = "queued" BY <2>5, <2>6, QueuedIs
  <2>8. PICK h \in Scks : h = conn[c] BY DEF BInv, Typed
  <2>9. r \in Nat BY Ranges
  <2>10. PICK s : s = [h EXCEPT !.st = "live", !.rsvr = r, !.base = b] OBVIOUS
  <2>11. /\ s \in Scks /\ s.st = "live" /\ s.rsvr = r /\ s.base = b /\ s.auth = h.auth /\ s.nid = h.nid
         /\ s.subs = h.subs /\ s.n = h.n /\ s.idx = h.idx /\ s.iov = h.iov
    BY <2>9, <2>10 DEF Scks
  <2>12. conn' = [conn EXCEPT ![c] = s] BY <2>1, <2>3, <2>8, <2>10
  <2>13. conn' \in [Conns -> Scks] /\ conn'[c] = s /\ \A d \in Conns : d # c => conn'[d] = conn[d]
    BY <2>11, <2>12 DEF BInv, Typed
  <2>14. ~Live(c) /\ Live(c)' BY <2>7, <2>11, <2>13 DEF Live
  <2>15. conn'[c].base = b /\ conn'[c].rsvr = r BY <2>11, <2>13
  <2>16. AuthRight' /\ PendRight' /\ NewTypes' /\ NoStaleRoute' /\ SubsAgree'
    BY <1>0, <2>8, <2>11, <2>13, <2>14, <2>15, NewcomerKeeps
  <2>17. \A d \in Conns : d # c => (Live(d)' <=> Live(d)) BY <2>13 DEF Live
  <2>18. BuffersHeld'
    <3> SUFFICES ASSUME NEW a \in Bufs PROVE ref'[a] = Holders(a)'
      BY DEF BuffersHeld
    <3>1. Cardinality(Ch(a)') + (IF Live(c) /\ conn[c].base = a THEN 1 ELSE 0)
            = Cardinality(Ch(a)) + (IF Live(c)' /\ conn'[c].base = a THEN 1 ELSE 0)
      BY <2>13, ChOne
    <3>2. Rh(a)' = Rh(a) BY <1>0 DEF Rh
    <3>3. /\ Holders(a) = Cardinality(Ch(a)) + Cardinality(Rh(a))
          /\ Cardinality(Ch(a)) \in Nat /\ Cardinality(Rh(a)) \in Nat
      BY HoldersAre
    <3>4. Holders(a)' = Cardinality(Ch(a)') + Cardinality(Rh(a)') BY DEF Holders, Ch, Rh
    <3>5. ref[a] = Holders(a) BY DEF BInv, BuffersHeld
    <3>6. Cardinality(Ch(a)') \in Nat
      <4>1. Ch(a)' \subseteq Conns BY DEF Ch
      <4> QED BY <4>1, FiniteSpots
    <3>7. PICK u \in Nat, v \in Nat, w \in Nat :
            u = Cardinality(Ch(a)) /\ v = Cardinality(Ch(a)') /\ w = Cardinality(Rh(a))
      BY <3>3, <3>6
    <3>8. CASE a = b
      <4>1. v = u + 1 BY <3>1, <3>7, <3>8, <2>14, <2>15
      <4>2. ref'[a] = 1 BY <3>8, <2>1 DEF BInv, Typed
      <4>3. u + w = 0 BY <3>3, <3>5, <3>7, <3>8, <2>1
      <4>4. Holders(a)' = v + w BY <3>2, <3>4, <3>7
      <4> QED BY <4>1, <4>2, <4>3, <4>4
    <3>9. CASE a # b
      <4>1. v = u BY <3>1, <3>7, <3>9, <2>14, <2>15
      <4>2. ref'[a] = ref[a] BY <3>9, <2>1 DEF BInv, Typed
      <4>3. ref[a] = u + w BY <3>3, <3>5, <3>7
      <4>4. Holders(a)' = v + w BY <3>2, <3>4, <3>7
      <4> QED BY <4>1, <4>2, <4>3, <4>4
    <3> QED BY <3>8, <3>9
  \* Every place of the new queue was one of the old queue, and c is in none of them.
  <2>19. ASSUME NEW y \in Ctxs, NEW p \in Rsvrs(y), NEW i \in 1 .. Len(connq'[y][p])
         PROVE  \E j \in 1 .. Len(connq[y][p]) :
                  /\ connq'[y][p][i] = connq[y][p][j] /\ connq[y][p][j] # c
                  /\ j = IF y = x /\ p = r THEN i + 1 ELSE i
    <3>1. CASE y = x /\ p = r
      <4>1. i \in 1 .. L - 1 BY <3>1, <2>5
      <4>2. PICK j \in 1 .. L : j = i + 1 /\ j # 1 BY <4>1
      <4>3. connq'[y][p][i] = connq[y][p][j] BY <3>1, <4>2, <2>2
      <4>4. j \in 1 .. Len(connq[x][r]) BY <4>2, <2>4
      <4>5. connq[x][r][j] # connq[x][r][1] BY <2>6, <4>2, <4>4 DEF BInv, Placed
      <4> QED BY <3>1, <4>2, <4>3, <4>4, <4>5, <2>5
    <3>2. CASE ~(y = x /\ p = r)
      <4>1. connq'[y][p] = connq[y][p] BY <3>2, <2>2
      <4>2. i \in 1 .. Len(connq[y][p]) BY <4>1
      <4>3. connq[y][p][i] # c
        <5>1. CASE y # x BY <4>2, <5>1, <2>7, QueuedIs
        <5>2. CASE y = x /\ p # r BY <4>2, <5>2, <2>5, <2>6 DEF BInv, Placed
        <5> QED BY <3>2, <5>1, <5>2
      <4> QED BY <3>2, <4>1, <4>2, <4>3
    <3> QED BY <3>1, <3>2
  <2>20. Placed'
    <3>1. \A d \in Conns : Live(d)' => conn'[d].rsvr \in Rsvrs(CtxOf[d])
      BY <2>7, <2>13, <2>15, <2>17 DEF BInv, Placed
    <3>2. ASSUME NEW y \in Ctxs, NEW p \in Rsvrs(y), NEW i \in 1 .. Len(connq'[y][p])
          PROVE  CtxOf[connq'[y][p][i]] = y /\ conn'[connq'[y][p][i]].st = "queued"
      <4>1. PICK j \in 1 .. Len(connq[y][p]) : connq'[y][p][i] = connq[y][p][j] /\ connq[y][p][j] # c
        BY <2>19
      <4> QED BY <4>1, <2>13, QueuedIs
    <3>3. ASSUME NEW y \in Ctxs, NEW p \in Rsvrs(y), NEW q \in Rsvrs(y),
                 NEW i \in 1 .. Len(connq'[y][p]), NEW j \in 1 .. Len(connq'[y][q]),
                 connq'[y][p][i] = connq'[y][q][j]
          PROVE  p = q /\ i = j
      <4>1. PICK k \in 1 .. Len(connq[y][p]) : /\ connq'[y][p][i] = connq[y][p][k]
                                               /\ k = IF y = x /\ p = r THEN i + 1 ELSE i
        BY <2>19
      <4>2. PICK l \in 1 .. Len(connq[y][q]) : /\ connq'[y][q][j] = connq[y][q][l]
                                               /\ l = IF y = x /\ q = r THEN j + 1 ELSE j
        BY <2>19
      <4>3. connq[y][p][k] = connq[y][q][l] BY <3>3, <4>1, <4>2
      <4>4. p = q /\ k = l BY <4>3 DEF BInv, Placed
      <4>5. i \in Int /\ j \in Int OBVIOUS
      <4> QED BY <4>1, <4>2, <4>4, <4>5
    <3> QED BY <1>0, <3>1, <3>2, <3>3 DEF BInv, Placed
  <2>21. NoLostWakeup'
    <3>1. \A y \in Ctxs : \A p \in Rsvrs(y) : connq'[y][p] # <<>> => connq[y][p] # <<>>
      BY <1>4, <2>2
    <3> QED BY <3>1, <1>0, <2>1 DEF BInv, NoLostWakeup
  <2>22. ref' \in [Bufs -> Int] BY <2>1 DEF BInv, Typed
  <2>23. Typed' BY <1>0, <2>1, <2>2, <2>13, <2>22 DEF BInv, Typed
  <2>24. \A d \in Conns : conn'[d].idx + Len(conn'[d].iov) <= IovMax BY <2>8, <2>11, <2>13 DEF BInv, Within
  <2>25. \A y \in Ctxs : \A p \in Rsvrs(y) : Len(connq'[y][p]) <= ConnqMax
    <3> SUFFICES ASSUME NEW y \in Ctxs, NEW p \in Rsvrs(y) PROVE Len(connq'[y][p]) <= ConnqMax
      OBVIOUS
    <3>1. Len(connq[y][p]) <= ConnqMax /\ ConnqMax \in Nat BY BrokerAssumption DEF BInv, Within
    <3>2. CASE y = x /\ p = r BY <3>1, <3>2, <2>4, <2>5
    <3>3. CASE ~(y = x /\ p = r) BY <3>1, <3>3, <2>2
    <3> QED BY <3>2, <3>3
  <2>26. Within' BY <1>0, <2>1, <2>24, <2>25 DEF BInv, Within
  <2> QED BY ONLY <2>16, <2>18, <2>20, <2>21, <2>23, <2>26, SMTT(30) DEF BInv
<1> QED BY <1>3, <1>4, SMTT(30)
-----------------------------------------------------------------------------
(* The start.                                                              *)
LEMMA SingleIs ==
    ASSUME NEW a \in Nat
    PROVE  /\ <<a>> \in Seq(Nat) /\ Len(<<a>>) = 1 /\ <<a>>[1] = a
           /\ Entries(<<a>>, a) = {1} /\ \A r : r # a => Entries(<<a>>, r) = {}
BY DEF Entries

LEMMA EmptyQueuesAre ==
    ASSUME NEW S
    PROVE  /\ Per(EmptyQueues, Seq(S))
           /\ \A x \in Ctxs : \A r \in Rsvrs(x) : EmptyQueues[x][r] = <<>> /\ Len(EmptyQueues[x][r]) = 0
<1>1. <<>> \in Seq(S) /\ Len(<<>>) = 0 OBVIOUS
<1> QED BY <1>1 DEF EmptyQueues, Per

LEMMA InitB ==
    ASSUME Init
    PROVE  BInv
<1> DEFINE Inj(g) == \A c, d \in Up : g[c] = g[d] => c = d
           f == CHOOSE g \in [Up -> Bufs] : Inj(g)
           up(c) == [FreshSck EXCEPT !.st = "live", !.nid = NidOf[c], !.gid = GidOf[c],
                                     !.auth = TRUE, !.base = f[c]]
<1>1. f \in [Up -> Bufs] /\ Inj(f)
  <2>1. \E g \in [Up -> Bufs] : Inj(g) BY BrokerAssumption
  <2> QED BY <2>1
<1>2. /\ script \in Scripts
      /\ conn = [c \in Conns |-> IF c \notin Up THEN FreshSck ELSE up(c)]
      /\ ref = [b \in Bufs |-> IF \E c \in Up : f[c] = b THEN 1 ELSE 0]
      /\ got = [c \in Conns |-> <<>>]
      /\ lsid = [x \in Ctxs |-> Cardinality({c \in Up : CtxOf[c] = x})]
      /\ connq = EmptyQueues /\ cmd = EmptyQueues /\ sendq = EmptyQueues
      /\ recvq = [x \in Ctxs |-> [q \in Recvqs |-> <<>>]]
      /\ distq = [x \in Ctxs |-> <<>>]
      /\ map = [x \in Ctxs |-> [n \in Nids |->
                   IF \E c \in Up : CtxOf[c] = x /\ NidOf[c] = n THEN <<0>> ELSE <<>>]]
      /\ sub = [x \in Ctxs |-> <<>>]
      /\ pend = [x \in Ctxs |-> [r \in Rsvrs(x) |-> NoPend]]
      /\ lost = [x \in Ctxs |-> [r \in Rsvrs(x) |-> {}]]
      /\ aborted = FALSE
  BY DEF Init
<1> HIDE DEF f
<1>3. Up \subseteq Conns /\ \A c, d \in Up : CtxOf[c] = CtxOf[d] => c = d BY BrokerAssumption
<1>4. \A c \in Up : /\ up(c) \in Scks /\ up(c).st = "live" /\ up(c).rsvr = 0 /\ up(c).nid = NidOf[c]
                    /\ up(c).gid = GidOf[c] /\ up(c).auth = TRUE /\ up(c).base = f[c] /\ up(c).subs = {}
                    /\ up(c).n = 0 /\ up(c).idx = 0 /\ up(c).iov = <<>>
  <2> TAKE c \in Up
  <2>1. NidOf[c] \in Nids /\ GidOf[c] \in Gids /\ f[c] \in Bufs BY <1>1, <1>3, Ranges
  <2>2. <<>> \in Seq(Mesgs) OBVIOUS
  <2> QED BY <2>1, <2>2 DEF FreshSck, Scks
<1> HIDE DEF up
<1>5. \A c \in Conns : IF c \in Up THEN conn[c] = up(c) ELSE conn[c] = FreshSck BY <1>2
<1>6. \A c \in Conns : /\ Live(c) <=> c \in Up
                       /\ conn[c].n = 0 /\ conn[c].subs = {} /\ conn[c].idx = 0 /\ conn[c].iov = <<>>
                       /\ IF c \in Up THEN /\ conn[c].rsvr = 0 /\ conn[c].auth /\ conn[c].nid = NidOf[c]
                                           /\ conn[c].gid = GidOf[c] /\ conn[c].base = f[c]
                          ELSE ~conn[c].auth /\ conn[c].nid = NoNid
  BY <1>4, <1>5, FreshIs DEF Live
<1>7. \A x \in Ctxs, n \in Nids :
         map[x][n] = IF \E c \in Up : CtxOf[c] = x /\ NidOf[c] = n THEN <<0>> ELSE <<>>
  BY <1>2
<1>8. /\ Per(connq, Seq(Conns)) /\ Per(cmd, Seq(Cmds)) /\ Per(sendq, Seq(Mesgs))
      /\ \A x \in Ctxs : \A r \in Rsvrs(x) : /\ connq[x][r] = <<>> /\ cmd[x][r] = <<>> /\ sendq[x][r] = <<>>
                                             /\ Len(connq[x][r]) = 0 /\ Len(cmd[x][r]) = 0
                                             /\ Len(sendq[x][r]) = 0
  BY <1>2, EmptyQueuesAre
<1>9. <<0>> \in Seq(Nat) /\ <<>> \in Seq(Nat) /\ Len(<<0>>) = 1 /\ <<0>>[1] = 0 BY SingleIs
<1>10. Typed
  <2>1. conn \in [Conns -> Scks] BY <1>2, <1>4, FreshIs
  <2>2. got \in [Conns -> Seq(Mesgs)] /\ distq \in [Ctxs -> Seq(Mesgs)] BY <1>2
  <2>3. recvq \in [Ctxs -> [Recvqs -> Seq(Items)]] BY <1>2
  <2>4. lsid \in [Ctxs -> Nat]
    <3>1. ASSUME NEW x \in Ctxs PROVE Cardinality({c \in Up : CtxOf[c] = x}) \in Nat
      <4>1. IsFiniteSet(Conns) /\ {c \in Up : CtxOf[c] = x} \subseteq Conns BY <1>3, BrokerAssumption
      <4> QED BY <4>1, FS_Subset, FS_CardinalityType
    <3> QED BY <1>2, <3>1
  <2>5. Per(pend, Pends) BY <1>2, PendIs DEF Per
  <2>6. Per(lost, SUBSET Cmds) BY <1>2 DEF Per
  <2>7. map \in [Ctxs -> [Nids -> Seq(Nat)]] BY <1>2, <1>9
  <2>8. sub = [x \in Ctxs |-> sub[x]] /\ \A x \in Ctxs : IsTab(sub[x]) BY <1>2, EmptyIs
  <2>9. ref \in [Bufs -> Int] BY <1>2
  <2> QED BY <1>2, <1>8, <2>1, <2>2, <2>3, <2>4, <2>5, <2>6, <2>7, <2>8, <2>9 DEF Typed
<1>11. Within
  <2>1. /\ ConnqMax \in Nat /\ RecvqMax \in Nat /\ DistqMax \in Nat /\ SendqMax \in Nat /\ PipeMax \in Nat
        /\ IovMax \in Nat /\ NodeToSvrMax \in Nat \ {0}
    BY BrokerAssumption
  <2>2. \A c \in Conns : conn[c].idx + Len(conn[c].iov) <= IovMax BY <1>6, <2>1
  <2>3. \A x \in Ctxs, n \in Nids : Len(map[x][n]) <= NodeToSvrMax
    <3> TAKE x \in Ctxs, n \in Nids
    <3>1. Len(map[x][n]) = 0 \/ Len(map[x][n]) = 1 BY <1>7, SingleIs, EmptyIs
    <3>2. NodeToSvrMax \in Nat \ {0} BY BrokerAssumption
    <3>3. 0 <= NodeToSvrMax /\ 1 <= NodeToSvrMax BY <3>2
    <3> QED BY <3>1, <3>3
  <2>4. \A x \in Ctxs : Len(distq[x]) <= DistqMax /\ \A q \in Recvqs : Len(recvq[x][q]) <= RecvqMax
    BY <1>2, <2>1
  <2> QED BY <1>8, <2>1, <2>2, <2>3, <2>4 DEF Within
<1>12. Placed
  <2>1. \A x \in Ctxs, n \in Nids : \A i \in 1 .. Len(map[x][n]) : map[x][n][i] \in Rsvrs(x)
    <3> TAKE x \in Ctxs, n \in Nids
    <3> TAKE i \in 1 .. Len(map[x][n])
    <3>0. map[x][n] = <<0>>
      <4>1. CASE map[x][n] = <<>>
        <5>1. Len(map[x][n]) = 0 BY <4>1
        <5> QED BY <5>1
      <4> QED BY <4>1, <1>7
    <3>1. map[x][n] = <<0>> /\ i = 1 BY <3>0, <1>9
    <3> QED BY <3>1, <1>9, Ranges
  <2>2. \A c \in Conns : Live(c) => conn[c].rsvr \in Rsvrs(CtxOf[c]) BY <1>6, Ranges
  <2>3. \A x \in Ctxs : \A r \in Rsvrs(x) : 1 .. Len(connq[x][r]) = {} BY <1>8
  <2> QED BY <2>1, <2>2, <2>3 DEF Placed
<1>13. AuthRight
  <2>1. \A c \in Conns : Len(script[c]) \in Nat BY <1>2, BrokerAssumption
  <2>2. \A c \in Conns : conn[c].n <= Len(script[c]) BY <1>6, <2>1
  <2>3. \A c \in Up : f[c] \in Bufs BY <1>1
  <2> QED BY <1>6, <2>2, <2>3 DEF AuthRight
<1>14. PendRight BY <1>2 DEF PendRight
<1>15. NewTypes BY <1>2, EmptyIs DEF NewTypes
<1>16. NoStaleRoute
  <2> SUFFICES ASSUME NEW x \in Ctxs, NEW n \in Nids, NEW r \in Rsvrs(x)
               PROVE  Cardinality(Entries(map[x][n], r)) <= Cardinality(Peers(x, n, r))
    BY RouteIs
  <2>1. Peers(x, n, r) \subseteq Conns BY DEF Peers
  <2>2. IsFiniteSet(Peers(x, n, r)) BY <2>1, BrokerAssumption, FS_Subset
  <2>3. Cardinality(Peers(x, n, r)) \in Nat BY <2>2, FS_CardinalityType
  <2>4. Cardinality({}) = 0 BY FS_EmptySet
  <2>5. CASE \E c \in Up : CtxOf[c] = x /\ NidOf[c] = n
    <3>1. PICK c \in Up : CtxOf[c] = x /\ NidOf[c] = n BY <2>5
    <3>2. map[x][n] = <<0>> BY <2>5, <1>7
    <3>3. CASE r = 0
      <4>1. c \in Peers(x, n, r) BY <3>1, <3>3, <1>3, <1>6 DEF Peers
      <4>2. Cardinality(Peers(x, n, r)) # 0 BY <4>1, <2>2, FS_EmptySet
      <4>3. Entries(map[x][n], r) = {1} BY <3>2, <3>3, SingleIs
      <4>4. Cardinality({1}) = 1 BY FS_Singleton
      <4> QED BY <2>3, <4>2, <4>3, <4>4
    <3>4. CASE r # 0
      <4>1. Entries(map[x][n], r) = {} BY <3>2, <3>4, SingleIs
      <4> QED BY <2>3, <2>4, <4>1
    <3> QED BY <3>3, <3>4
  <2>6. CASE ~\E c \in Up : CtxOf[c] = x /\ NidOf[c] = n
    <3>1. map[x][n] = <<>> BY <2>6, <1>7
    <3>2. Entries(map[x][n], r) = {} BY <3>1, EmptyIs DEF Entries
    <3> QED BY <2>3, <2>4, <3>2
  <2> QED BY <2>5, <2>6
<1>17. SubsAgree
  <2>1. \A x, t, g : Subscribed(x, t, g) = {} BY <1>6 DEF Subscribed
  <2>2. \A x \in Ctxs : \A t, g : Subs(sub[x], t, g) = {} BY <1>2, EmptyIs DEF Subs
  <2> QED BY <2>1, <2>2, SubsAre
<1>18. BuffersHeld
  <2> SUFFICES ASSUME NEW b \in Bufs PROVE ref[b] = Holders(b)
    BY DEF BuffersHeld
  <2>1. Holders(b) = Cardinality(Ch(b)) + Cardinality(Rh(b)) BY HoldersAre
  <2>2. Rh(b) = {}
    <3>1. \A x \in Ctxs, q \in Recvqs : DOMAIN recvq[x][q] = {} BY <1>2, EmptyIs
    <3> QED BY <3>1 DEF Rh
  <2>3. Cardinality(Rh(b)) = 0 BY <2>2, FS_EmptySet
  <2>4. Ch(b) = {c \in Up : f[c] = b} BY <1>3, <1>6 DEF Ch
  <2>5. CASE \E c \in Up : f[c] = b
    <3>1. PICK c \in Up : f[c] = b BY <2>5
    <3>2. Ch(b) = {c} BY <2>4, <3>1, <1>1
    <3>3. Cardinality(Ch(b)) = 1 BY <3>2, FS_Singleton
    <3> QED BY <2>1, <2>3, <2>5, <3>3, <1>2
  <2>6. CASE ~\E c \in Up : f[c] = b
    <3>1. Ch(b) = {} BY <2>4, <2>6
    <3>2. Cardinality(Ch(b)) = 0 BY <3>1, FS_EmptySet
    <3> QED BY <2>1, <2>3, <2>6, <3>2, <1>2
  <2> QED BY <2>5, <2>6
<1>19. NoLostWakeup BY <1>8 DEF NoLostWakeup
<1> QED BY <1>10, <1>11, <1>12, <1>13, <1>14, <1>15, <1>16, <1>17, <1>18, <1>19 DEF BInv
-----------------------------------------------------------------------------
(* The theorems.                                                           *)
LEMMA ConnStepB ==
    ASSUME BInv, ~aborted, UNCHANGED script, NEW c \in Conns, ConnStep(c)
    PROVE  BInv'
<1>1. CASE rtmq_lsn_accept(c) BY <1>1, AcceptB
<1>2. CASE rtmq_rsvr_set_rdset(c) BY <1>2, CloseB
<1>3. CASE rtmq_rsvr_event_timeout_hdl(c) BY <1>3, CloseB
<1>4. CASE rtmq_rsvr_recv_eof(c) BY <1>4, CloseB
<1>5. CASE rtmq_rsvr_link_auth_req_hdl(c)
  <2>1. CASE rtmq_auth_check(Arriving(c)) /\ MapFull(map[CtxOf[c]], NidOf[c]) BY <1>5, <2>1, TurnedAwayB
  <2>2. CASE ~(rtmq_auth_check(Arriving(c)) /\ MapFull(map[CtxOf[c]], NidOf[c])) BY <1>5, <2>2, AuthB
  <2> QED BY <2>1, <2>2
<1>6. CASE rtmq_rsvr_keepalive_req_hdl(c) BY <1>6, KeepaliveB, CloseB
<1>7. CASE rtmq_rsvr_exp_mesg_proc(c) BY <1>7, ExpB
<1>8. CASE rtmq_sub_add_query(c) \/ rtmq_sub_add_insert(c) BY <1>8, SubB
<1>9. CASE rtmq_rsvr_trav_send(c) BY <1>9, SendB, CloseB
<1> QED BY <1>1, <1>2, <1>3, <1>4, <1>5, <1>6, <1>7, <1>8, <1>9 DEF ConnStep

LEMMA NextB ==
    ASSUME BInv, Next
    PROVE  BInv'
<1>0. ~aborted /\ UNCHANGED script BY DEF Next
<1>1. ASSUME NEW c \in Conns, ClientClose(c) PROVE BInv' BY <1>0, <1>1, ClientCloseB
<1>2. ASSUME NEW c \in Conns, ConnStep(c) PROVE BInv' BY <1>0, <1>2, ConnStepB
<1>3. ASSUME NEW x \in Ctxs, NEW r \in Rsvrs(x), rtmq_rsvr_add_conn_hdl(x, r) PROVE BInv'
  BY <1>0, <1>3, AddConnB
<1>4. ASSUME NEW x \in Ctxs, NEW r \in Rsvrs(x), rtmq_rsvr_dist_data(x, r) PROVE BInv'
  BY <1>0, <1>4, DistB
<1>5. ASSUME NEW x \in Ctxs, rtmq_worker_routine(x) PROVE BInv'
  BY <1>0, <1>5, WorkerB DEF rtmq_worker_routine
<1>6. ASSUME NEW x \in Ctxs, rtmq_dsvr_routine(x) PROVE BInv'
  BY <1>0, <1>6, DsvrB DEF rtmq_dsvr_routine
<1>7. CASE Tick BY <1>0, <1>7, TickB
<1> QED BY <1>1, <1>2, <1>3, <1>4, <1>5, <1>6, <1>7 DEF Next

\* A step that changes nothing.
LEMMA StutterB ==
    ASSUME BInv, UNCHANGED vars
    PROVE  BInv'
<1>0. UNCHANGED <<script, conn, got, lsid, connq, cmd, sendq, recvq, distq, map, sub, pend, ref, lost, aborted>>
  BY DEF vars
<1>1. Minor /\ conn' \in [Conns -> Scks] /\ \A c \in Conns : conn'[c].idx + Len(conn'[c].iov) <= IovMax
  BY <1>0, SameConn
<1>2. got' \in [Conns -> Seq(Mesgs)] BY <1>0 DEF BInv, Typed
<1> QED BY <1>0, <1>1, <1>2, MinorOnly

LEMMA RightB ==
    ASSUME BInv
    PROVE  RoutesRight
<1>1. TypeOK
  <2>1. ASSUME NEW c \in Conns
        PROVE  /\ conn[c].st \in {"new", "queued", "live", "closed"}
               /\ conn[c].nid \in Nids \cup {NoNid} /\ conn[c].gid \in Gids \cup {0}
               /\ conn[c].subs \subseteq Types
               /\ conn[c].base \in Bufs \cup {NoBuf}
               /\ conn[c].idx + Len(conn[c].iov) <= IovMax
               /\ conn[c].mesg \in Seq(Mesgs) /\ got[c] \in Seq(Mesgs)
    <3>1. conn[c] \in Scks /\ got[c] \in Seq(Mesgs) BY DEF BInv, Typed
    <3>2. conn[c].idx + Len(conn[c].iov) <= IovMax BY DEF BInv, Within
    <3> QED BY <3>1, <3>2 DEF Scks
  <2>2. \A x \in Ctxs : /\ DOMAIN sub[x] \subseteq Types
                        /\ \A t \in DOMAIN sub[x] : DOMAIN sub[x][t] \subseteq Gids
    BY DEF BInv, Typed, IsTab, IsGroups
  <2>3. ref \in [Bufs -> Int] /\ aborted \in BOOLEAN BY DEF BInv, Typed
  <2> QED BY <2>1, <2>2, <2>3 DEF TypeOK, BInv, Within
<1>2. NoEmptyGroup
  <2> SUFFICES ASSUME NEW x \in Ctxs, NEW t \in DOMAIN sub[x]
               PROVE  /\ \A g \in DOMAIN sub[x][t] : sub[x][t][g] # {}
                      /\ DOMAIN sub[x][t] = {} => \E r \in Rsvrs(x) : pend[x][r] # NoPend
    BY DEF NoEmptyGroup
  <2>1. \A g \in DOMAIN sub[x][t] : sub[x][t][g] # {} BY DEF BInv, Typed, IsTab, IsGroups
  <2>2. ASSUME DOMAIN sub[x][t] = {} PROVE \E r \in Rsvrs(x) : pend[x][r] # NoPend
    <3>1. PICK c \in Conns : Live(c) /\ CtxOf[c] = x /\ pend[x][conn[c].rsvr] = <<"query", c>>
      <4>1. NewTypes BY DEF BInv
      <4>2. PICK c \in Conns : Asked(x, t, c) BY <4>1, <2>2, NewTypeOf, Zenon
      <4> QED BY <4>2, Zenon DEF Asked
    <3>2. conn[c].rsvr \in Rsvrs(x) BY <3>1, Located
    <3> QED BY <3>1, <3>2, PendIs
  <2> QED BY <2>1, <2>2
<1> QED BY <1>1, <1>2 DEF RoutesRight, BInv

(* The inductive invariant of the broker: the tables, the counters and the  *)
(* pipes stay in step with the connections through every interleaving of    *)
(* the listener, the receivers, the workers, the distributor and clients    *)
(* that close or fall silent.                                               *)
THEOREM BrokerInvariant == Spec => []BInv
<1>1. Init => BInv BY InitB
<1>2. BInv /\ [Next]_vars => BInv' BY NextB, StutterB
<1> QED BY <1>1, <1>2, PTL DEF Spec

(* node_to_svr_map and the subscription table name only connections that are *)
(* there, no group in the table is empty, and no queue outgrows its limit,   *)
(* though a receiver leaves the table's lock between the two halves of       *)
(* rtmq_sub_add and a full map turns an authenticated connection away.       *)
THEOREM RoutesStayRight == Spec => []RoutesRight
<1>1. BInv => RoutesRight BY RightB
<1> QED BY <1>1, BrokerInvariant, PTL

(* The reference count of every receive buffer is the number of connections  *)
(* and of recvq items that point into it, so rtmq_rsvr_switch_recv_buff and  *)
(* rtmq_worker_cmd_proc_req_hdl neither free a buffer in use nor leak one:   *)
(* up to the time out handler's second mref_dec, where mref_dec asserts.     *)
THEOREM BuffersCounted == Spec => []BuffersHeld
<1>1. BInv => BuffersHeld BY DEF BInv
<1> QED BY <1>1, BrokerInvariant, PTL

(* A message in a receiver's sendq and a connection in its connq always have *)
(* a command in its pipe behind them, unless pipe_write found the pipe full. *)
THEOREM WakeupsKept == Spec => []NoLostWakeup
<1>1. BInv => NoLostWakeup BY DEF BInv
<1> QED BY <1>1, BrokerInvariant, PTL

-----------------------------------------------------------------------------
(* A message is delivered to a group once.                                 *)

\* The nodes of a group, and a message with the id m on its way to one of them.
NodesOf(g) == {NidOf[c] : c \in {d \in Conns : CtxOf[d] = "backend" /\ GidOf[d] = g}}
Hit(x, g, m) == x.id = m /\ x.dest \in NodesOf(g)
Has(s, g, m) == \E i \in 1 .. Len(s) : Hit(s[i], g, m)
One(s, g, m) == \A i, j \in 1 .. Len(s) : Hit(s[i], g, m) /\ Hit(s[j], g, m) => i = j

\* What backend's connection c has been given: received, in the iovec, or in its list.
HasC(c, g, m) == Has(got[c], g, m) \/ Has(conn[c].iov, g, m) \/ Has(conn[c].mesg, g, m)
OneC(c, g, m) ==
    /\ One(got[c], g, m) /\ One(conn[c].iov, g, m) /\ One(conn[c].mesg, g, m)
    /\ ~(Has(got[c], g, m) /\ Has(conn[c].iov, g, m))
    /\ ~(Has(got[c], g, m) /\ Has(conn[c].mesg, g, m))
    /\ ~(Has(conn[c].iov, g, m) /\ Has(conn[c].mesg, g, m))

\* The message m has yet to be read from a client of forward, or waits in a receive queue.
Unread(c, m) ==
    /\ CtxOf[c] = "forward" /\ conn[c].st # "closed"
    /\ \E i \in 1 .. Len(script[c]) : /\ i > conn[c].n
                                      /\ script[c][i].kind = "EXP" /\ script[c][i].id = m
Waits(q, m) == \E i \in 1 .. Len(recvq["forward"][q]) : recvq["forward"][q][i].mesg.id = m
Ahead(m) == (\E c \in Conns : Unread(c, m)) \/ \E q \in Recvqs : Waits(q, m)

InBack == {c \in Conns : CtxOf[c] = "backend"}

\* The message m is in one place only on its way to the group g: before it is published, in
\* distq, in one sendq, or with one connection.
OneWay(g, m) ==
    /\ One(distq["backend"], g, m)
    /\ \A r \in Rsvrs("backend") : One(sendq["backend"][r], g, m)
    /\ \A c \in InBack : OneC(c, g, m)
    /\ Ahead(m) => /\ ~Has(distq["backend"], g, m)
                   /\ \A r \in Rsvrs("backend") : ~Has(sendq["backend"][r], g, m)
                   /\ \A c \in InBack : ~HasC(c, g, m)
    /\ Has(distq["backend"], g, m) => /\ \A r \in Rsvrs("backend") : ~Has(sendq["backend"][r], g, m)
                                      /\ \A c \in InBack : ~HasC(c, g, m)
    /\ \A r \in Rsvrs("backend") : Has(sendq["backend"][r], g, m) =>
          /\ \A s \in Rsvrs("backend") : Has(sendq["backend"][s], g, m) => s = r
          /\ \A c \in InBack : ~HasC(c, g, m)
    /\ \A c, d \in InBack : HasC(c, g, m) /\ HasC(d, g, m) => c = d

\* It waits in one receive queue, once, and is not to be read again.
OneRead(m) ==
    /\ \A q, p \in Recvqs : \A i \in 1 .. Len(recvq["forward"][q]), j \in 1 .. Len(recvq["forward"][p]) :
          recvq["forward"][q][i].mesg.id = m /\ recvq["forward"][p][j].mesg.id = m => q = p /\ i = j
    /\ \A q \in Recvqs, c \in Conns : Waits(q, m) => ~Unread(c, m)

\* Everything a connection is given is for its node.
For(s, n) == \A i \in 1 .. Len(s) : s[i].id # 0 => s[i].dest = n
DestRight ==
    /\ \A c \in Conns : For(got[c], NidOf[c]) /\ For(conn[c].iov, NidOf[c]) /\ For(conn[c].mesg, NidOf[c])
    /\ \A x \in Ctxs : \A r \in Rsvrs(x) : \A i \in 1 .. Len(sendq[x][r]) : sendq[x][r][i].dest \in Nids

OInv == /\ DestRight
        /\ \A m \in Ids \ {0} : OneRead(m) /\ \A g \in Gids : OneWay(g, m)

-----------------------------------------------------------------------------
(* Queues as far as a message is in them.                                  *)
LEMMA HasTail ==
    ASSUME NEW s \in Seq(Mesgs), s # <<>>, NEW t, t = Tail(s), NEW g, NEW m
    PROVE  /\ t \in Seq(Mesgs) /\ Head(s) \in Mesgs
           /\ Has(t, g, m) => Has(s, g, m)
           /\ Hit(Head(s), g, m) => Has(s, g, m)
           /\ One(s, g, m) => One(t, g, m) /\ (Hit(Head(s), g, m) => ~Has(t, g, m))
<1>1. PICK k \in Nat : k = Len(s) /\ k >= 1 OBVIOUS
<1>2. /\ t \in Seq(Mesgs) /\ Len(t) = k - 1 /\ Head(s) = s[1] /\ Head(s) \in Mesgs
      /\ \A i \in 1 .. k - 1 : t[i] = s[i + 1]
  BY <1>1
<1>3. \A i \in 1 .. k - 1 : i + 1 \in 1 .. k BY <1>1
<1>4. 1 \in 1 .. k BY <1>1
<1>5. Has(t, g, m) => Has(s, g, m) BY <1>1, <1>2, <1>3 DEF Has
<1>6. Hit(Head(s), g, m) => Has(s, g, m) BY <1>1, <1>2, <1>4 DEF Has
<1>7. One(s, g, m) => One(t, g, m)
  <2> SUFFICES ASSUME One(s, g, m), NEW i \in 1 .. k - 1, NEW j \in 1 .. k - 1, Hit(t[i], g, m), Hit(t[j], g, m)
               PROVE  i = j
    BY <1>2 DEF One
  <2>1. i + 1 = j + 1 BY <1>1, <1>2, <1>3 DEF One
  <2> QED BY <2>1
<1>8. ASSUME One(s, g, m), Hit(Head(s), g, m), Has(t, g, m) PROVE FALSE
  <2>1. PICK i \in 1 .. k - 1 : Hit(t[i], g, m) BY <1>2, <1>8 DEF Has
  <2>2. i + 1 \in 1 .. k /\ Hit(s[i + 1], g, m) /\ Hit(s[1], g, m) BY <1>2, <1>3, <1>8, <2>1
  <2>3. i + 1 = 1 BY <1>1, <1>4, <1>8, <2>2 DEF One
  <2> QED BY <2>3
<1> QED BY <1>2, <1>5, <1>6, <1>7, <1>8

\* u holds the message where s or t does.
Joined(u, s, t, g, m) ==
    /\ Has(u, g, m) <=> Has(s, g, m) \/ Has(t, g, m)
    /\ One(u, g, m) <=> One(s, g, m) /\ One(t, g, m) /\ ~(Has(s, g, m) /\ Has(t, g, m))

LEMMA HasConcat ==
    ASSUME NEW s \in Seq(Mesgs), NEW t \in Seq(Mesgs), NEW u, u = s \o t, NEW g, NEW m
    PROVE  Joined(u, s, t, g, m)
<1>1. PICK a \in Nat, b \in Nat : a = Len(s) /\ b = Len(t) OBVIOUS
<1>2. u \in Seq(Mesgs) /\ Len(u) = a + b BY <1>1, ConcatProperties
<1>3. \A i \in 1 .. a : u[i] = s[i] /\ i \in 1 .. a + b BY <1>1, ConcatProperties
<1>4. \A i \in 1 .. b : u[a + i] = t[i] /\ a + i \in 1 .. a + b
  <2> TAKE i \in 1 .. b
  <2>1. a + i \in 1 .. a + b /\ a + i > a /\ a + i - a = i OBVIOUS
  <2> QED BY <1>1, <2>1
<1>5. \A i \in 1 .. a + b : i \in 1 .. a \/ \E j \in 1 .. b : i = a + j
  <2> TAKE i \in 1 .. a + b
  <2>1. CASE i <= a BY <2>1
  <2>2. CASE i > a
    <3>1. i - a \in 1 .. b /\ i = a + (i - a) BY <2>2
    <3> QED BY <3>1
  <2> QED BY <2>1, <2>2
<1> DEFINE P(i) == Hit(s[i], g, m)
           Q(i) == Hit(t[i], g, m)
           R(i) == Hit(u[i], g, m)
<1>6. \A i \in 1 .. a : R(i) <=> P(i) BY <1>3
<1>7. \A i \in 1 .. b : R(a + i) <=> Q(i) BY <1>4
<1>8. /\ Has(s, g, m) <=> \E i \in 1 .. a : P(i)
      /\ Has(t, g, m) <=> \E i \in 1 .. b : Q(i)
      /\ Has(u, g, m) <=> \E i \in 1 .. a + b : R(i)
  BY <1>1, <1>2 DEF Has
<1>9. /\ One(s, g, m) <=> \A i, j \in 1 .. a : P(i) /\ P(j) => i = j
      /\ One(t, g, m) <=> \A i, j \in 1 .. b : Q(i) /\ Q(j) => i = j
      /\ One(u, g, m) <=> \A i, j \in 1 .. a + b : R(i) /\ R(j) => i = j
  BY <1>1, <1>2 DEF One
<1> HIDE DEF P, Q, R
<1>10. Has(u, g, m) <=> Has(s, g, m) \/ Has(t, g, m)
  BY <1>3, <1>4, <1>5, <1>6, <1>7, <1>8
<1>11. ASSUME One(u, g, m) PROVE One(s, g, m) /\ One(t, g, m) /\ ~(Has(s, g, m) /\ Has(t, g, m))
  <2>1. One(s, g, m) BY <1>3, <1>6, <1>9, <1>11
  <2>2. One(t, g, m)
    <3> SUFFICES ASSUME NEW i \in 1 .. b, NEW j \in 1 .. b, Q(i), Q(j) PROVE i = j BY <1>9
    <3>1. a + i = a + j BY <1>4, <1>7, <1>9, <1>11
    <3> QED BY <3>1
  <2>3. ASSUME NEW i \in 1 .. a, NEW j \in 1 .. b, P(i), Q(j) PROVE FALSE
    <3>1. i = a + j BY <1>3, <1>4, <1>6, <1>7, <1>9, <1>11, <2>3
    <3> QED BY <3>1
  <2> QED BY <1>8, <2>1, <2>2, <2>3
<1>12. ASSUME One(s, g, m), One(t, g, m), ~(Has(s, g, m) /\ Has(t, g, m)) PROVE One(u, g, m)
  <2> SUFFICES ASSUME NEW i \in 1 .. a + b, NEW j \in 1 .. a + b, R(i), R(j) PROVE i = j BY <1>9
  <2>1. CASE i \in 1 .. a /\ j \in 1 .. a BY <2>1, <1>6, <1>9, <1>12
  <2>2. ASSUME NEW e \in 1 .. b, NEW f \in 1 .. b, i = a + e, j = a + f PROVE i = j
    <3>1. Q(e) /\ Q(f) BY <1>7, <2>2
    <3>2. e = f BY <3>1, <1>9, <1>12
    <3> QED BY <2>2, <3>2
  <2>3. ASSUME i \in 1 .. a, NEW f \in 1 .. b, j = a + f PROVE FALSE
    BY <1>6, <1>7, <1>8, <1>12, <2>3
  <2>4. ASSUME j \in 1 .. a, NEW f \in 1 .. b, i = a + f PROVE FALSE
    BY <1>6, <1>7, <1>8, <1>12, <2>4
  <2> QED BY <1>5, <2>1, <2>2, <2>3, <2>4
<1> QED BY <1>10, <1>11, <1>12 DEF Joined

LEMMA HasAppend ==
    ASSUME NEW s \in Seq(Mesgs), NEW v \in Mesgs, NEW t, t = Append(s, v), NEW g, NEW m
    PROVE  /\ t \in Seq(Mesgs)
           /\ Has(t, g, m) <=> Has(s, g, m) \/ Hit(v, g, m)
           /\ One(s, g, m) /\ ~(Has(s, g, m) /\ Hit(v, g, m)) => One(t, g, m)
<1>1. PICK a \in Nat : a = Len(s) OBVIOUS
<1>2. t \in Seq(Mesgs) /\ Len(t) = a + 1 /\ t[a + 1] = v /\ \A i \in 1 .. a : t[i] = s[i] BY <1>1
<1>3. \A i \in 1 .. a + 1 : i \in 1 .. a \/ i = a + 1 OBVIOUS
<1>4. (\A i \in 1 .. a : i \in 1 .. a + 1) /\ a + 1 \in 1 .. a + 1 OBVIOUS
<1>5. Has(t, g, m) <=> Has(s, g, m) \/ Hit(v, g, m) BY <1>1, <1>2, <1>3, <1>4 DEF Has
<1>6. One(s, g, m) /\ ~(Has(s, g, m) /\ Hit(v, g, m)) => One(t, g, m)
  BY <1>1, <1>2, <1>3 DEF One, Has
<1> QED BY <1>2, <1>5, <1>6

LEMMA HasNone == ASSUME NEW g, NEW m PROVE ~Has(<<>>, g, m) /\ One(<<>>, g, m)
BY DEF Has, One

\* The same for what is meant for a node.
LEMMA ForConcat ==
    ASSUME NEW s \in Seq(Mesgs), NEW t \in Seq(Mesgs), NEW n
    PROVE  For(s \o t, n) <=> For(s, n) /\ For(t, n)
<1>1. PICK a \in Nat, b \in Nat : a = Len(s) /\ b = Len(t) OBVIOUS
<1>2. PICK u : u = s \o t OBVIOUS
<1>3. Len(u) = a + b /\ \A i \in 1 .. a : u[i] = s[i] /\ i \in 1 .. a + b BY <1>1, <1>2, ConcatProperties
<1>4. \A i \in 1 .. b : u[a + i] = t[i] /\ a + i \in 1 .. a + b
  <2> TAKE i \in 1 .. b
  <2>1. a + i \in 1 .. a + b /\ a + i > a /\ a + i - a = i OBVIOUS
  <2> QED BY <1>1, <1>2, <2>1
<1>5. \A i \in 1 .. a + b : i \in 1 .. a \/ \E j \in 1 .. b : i = a + j
  <2> TAKE i \in 1 .. a + b
  <2>1. CASE i <= a BY <2>1
  <2>2. CASE i > a
    <3>1. i - a \in 1 .. b /\ i = a + (i - a) BY <2>2
    <3> QED BY <3>1
  <2> QED BY <2>1, <2>2
<1>6. For(u, n) => For(s, n) BY <1>1, <1>3 DEF For
<1>7. For(u, n) => For(t, n) BY <1>1, <1>3, <1>4 DEF For
<1>8. ASSUME For(s, n), For(t, n), NEW i \in 1 .. a + b, u[i].id # 0 PROVE u[i].dest = n
  <2>1. CASE i \in 1 .. a BY <1>1, <1>3, <1>8, <2>1 DEF For
  <2>2. ASSUME NEW j \in 1 .. b, i = a + j PROVE u[i].dest = n BY <1>1, <1>4, <1>8, <2>2 DEF For
  <2> QED BY <1>5, <2>1, <2>2
<1>9. For(s, n) /\ For(t, n) => For(u, n) BY <1>3, <1>8 DEF For
<1> QED BY <1>2, <1>6, <1>7, <1>9

LEMMA ForAppend ==
    ASSUME NEW s \in Seq(Mesgs), NEW v \in Mesgs, NEW n, For(s, n), v.id # 0 => v.dest = n
    PROVE  For(Append(s, v), n)
<1>0. PICK t : t = Append(s, v) OBVIOUS
<1>1. PICK a \in Nat : a = Len(s) OBVIOUS
<1>2. Len(t) = a + 1 /\ t[a + 1] = v /\ \A i \in 1 .. a : t[i] = s[i] BY <1>0, <1>1
<1>3. \A i \in 1 .. a + 1 : i \in 1 .. a \/ i = a + 1 OBVIOUS
<1> QED BY <1>0, <1>1, <1>2, <1>3 DEF For

LEMMA ForNone == ASSUME NEW n PROVE For(<<>>, n)
BY DEF For

\* A queue and what is taken from its front.
LEMMA SplitAt ==
    ASSUME NEW s \in Seq(Mesgs), NEW k \in 0 .. Len(s)
    PROVE  /\ SubSeq(s, 1, k) \in Seq(Mesgs) /\ SubSeq(s, k + 1, Len(s)) \in Seq(Mesgs)
           /\ s = SubSeq(s, 1, k) \o SubSeq(s, k + 1, Len(s))
<1>1. PICK z \in Nat : z = Len(s) OBVIOUS
<1>2. k \in Nat /\ k <= z BY <1>1
<1>3. PICK a : a = SubSeq(s, 1, k) OBVIOUS
<1>4. PICK b : b = SubSeq(s, k + 1, Len(s)) OBVIOUS
<1>5. a \in Seq(Mesgs) /\ Len(a) = k /\ \A i \in 1 .. k : a[i] = s[i] BY <1>1, <1>2, <1>3
<1>6. b \in Seq(Mesgs) /\ Len(b) = z - k /\ \A i \in 1 .. z - k : b[i] = s[k + i] BY <1>1, <1>2, <1>4
<1>7. PICK u : u = a \o b OBVIOUS
<1>8. u \in Seq(Mesgs) /\ Len(u) = z BY <1>2, <1>5, <1>6, <1>7, ConcatProperties
<1>9. \A i \in 1 .. z : u[i] = s[i]
  <2> TAKE i \in 1 .. z
  <2>1. CASE i <= k BY <2>1, <1>2, <1>5, <1>6, <1>7
  <2>2. CASE i > k
    <3>1. i - k \in 1 .. z - k /\ k + (i - k) = i BY <2>2, <1>2
    <3>2. u[i] = b[i - k] BY <2>2, <1>2, <1>5, <1>6, <1>7, <3>1
    <3> QED BY <3>1, <3>2, <1>6
  <2> QED BY <2>1, <2>2, <1>2
<1>10. u = s BY <1>1, <1>8, <1>9
<1> QED BY <1>3, <1>4, <1>5, <1>6, <1>7, <1>10

-----------------------------------------------------------------------------
(* Steps that move no message but an answer of the broker's own.           *)
\* Nothing is added to what a connection is given but acknowledgements, and it does not read
\* again what it has read.
Quiet(c) ==
    /\ got'[c] = got[c]
    /\ \/ conn'[c].iov = conn[c].iov /\ conn'[c].mesg = conn[c].mesg
       \/ /\ conn'[c].iov = conn[c].iov
          /\ \E k : Ack(k) \in Mesgs /\ conn'[c].mesg = Append(conn[c].mesg, Ack(k))
       \/ conn'[c].iov = <<>> /\ conn'[c].mesg = <<>>
    /\ conn'[c].st = "closed" \/ (conn[c].st # "closed" /\ conn'[c].n >= conn[c].n)

LEMMA ConnTypes ==
    ASSUME BInv, NEW c \in Conns
    PROVE  /\ conn[c] \in Scks /\ got[c] \in Seq(Mesgs) /\ conn[c].iov \in Seq(Mesgs)
           /\ conn[c].mesg \in Seq(Mesgs) /\ conn[c].n \in Nat
<1>1. conn[c] \in Scks /\ got[c] \in Seq(Mesgs) BY DEF BInv, Typed
<1> QED BY <1>1 DEF Scks

LEMMA AckMisses ==
    ASSUME NEW k, NEW g, NEW m, m # 0
    PROVE  ~Hit(Ack(k), g, m) /\ Ack(k).id = 0
BY DEF Hit, Ack

LEMMA QuietHas ==
    ASSUME BInv, NEW c \in Conns, Quiet(c), NEW g, NEW m, m # 0
    PROVE  /\ HasC(c, g, m)' => HasC(c, g, m)
           /\ OneC(c, g, m) => OneC(c, g, m)'
<1>1. PICK i \in Seq(Mesgs), l \in Seq(Mesgs) : i = conn[c].iov /\ l = conn[c].mesg BY ConnTypes
<1>2. PICK j : j = conn'[c].iov OBVIOUS
<1>3. PICK p : p = conn'[c].mesg OBVIOUS
<1>4. PICK o : o = got[c] /\ o = got'[c] BY DEF Quiet
<1>5. /\ Has(j, g, m) => Has(i, g, m)
      /\ Has(p, g, m) => Has(l, g, m)
      /\ One(i, g, m) => One(j, g, m)
      /\ One(l, g, m) => One(p, g, m)
  <2>1. CASE j = i /\ p = l BY <2>1
  <2>2. ASSUME j = i, NEW k, Ack(k) \in Mesgs, p = Append(l, Ack(k))
        PROVE  /\ Has(j, g, m) => Has(i, g, m) /\ (One(i, g, m) => One(j, g, m))
               /\ Has(p, g, m) => Has(l, g, m)
               /\ One(l, g, m) => One(p, g, m)
    <3>1. ~Hit(Ack(k), g, m) BY AckMisses
    <3>2. /\ Has(p, g, m) <=> Has(l, g, m) \/ Hit(Ack(k), g, m)
          /\ One(l, g, m) /\ ~(Has(l, g, m) /\ Hit(Ack(k), g, m)) => One(p, g, m)
      BY <2>2, HasAppend
    <3> QED BY <2>2, <3>1, <3>2
  <2>3. CASE j = <<>> /\ p = <<>> BY <2>3, HasNone
  <2>4. Quiet(c) => \/ j = i /\ p = l
                    \/ j = i /\ \E k : Ack(k) \in Mesgs /\ p = Append(l, Ack(k))
                    \/ j = <<>> /\ p = <<>>
    BY <1>1, <1>2, <1>3 DEF Quiet
  <2> QED BY <2>1, <2>2, <2>3, <2>4
<1>6. /\ HasC(c, g, m) <=> Has(o, g, m) \/ Has(i, g, m) \/ Has(l, g, m)
      /\ HasC(c, g, m)' <=> Has(o, g, m) \/ Has(j, g, m) \/ Has(p, g, m)
  BY <1>1, <1>2, <1>3, <1>4 DEF HasC
<1>7. /\ OneC(c, g, m) <=> /\ One(o, g, m) /\ One(i, g, m) /\ One(l, g, m)
                           /\ ~(Has(o, g, m) /\ Has(i, g, m)) /\ ~(Has(o, g, m) /\ Has(l, g, m))
                           /\ ~(Has(i, g, m) /\ Has(l, g, m))
      /\ OneC(c, g, m)' <=> /\ One(o, g, m) /\ One(j, g, m) /\ One(p, g, m)
                            /\ ~(Has(o, g, m) /\ Has(j, g, m)) /\ ~(Has(o, g, m) /\ Has(p, g, m))
                            /\ ~(Has(j, g, m) /\ Has(p, g, m))
  BY <1>1, <1>2, <1>3, <1>4 DEF OneC
<1> QED BY <1>5, <1>6, <1>7

ForC(c) == For(got[c], NidOf[c]) /\ For(conn[c].iov, NidOf[c]) /\ For(conn[c].mesg, NidOf[c])

LEMMA QuietFor ==
    ASSUME BInv, NEW c \in Conns, Quiet(c), ForC(c)
    PROVE  ForC(c)'
<1>1. PICK n : n = NidOf[c] OBVIOUS
<1>2. PICK l \in Seq(Mesgs) : l = conn[c].mesg BY ConnTypes
<1>3. For(got[c], n) /\ For(conn[c].iov, n) /\ For(l, n) BY <1>1, <1>2 DEF ForC
<1>4. For(got'[c], n) BY <1>3 DEF Quiet
<1>5. For(conn'[c].iov, n) BY <1>3, ForNone DEF Quiet
<1>6. For(conn'[c].mesg, n)
  <2>1. ASSUME NEW k, Ack(k) \in Mesgs, conn'[c].mesg = Append(l, Ack(k)) PROVE For(conn'[c].mesg, n)
    <3>1. Ack(k).id = 0 BY DEF Ack
    <3>2. For(Append(l, Ack(k)), n) BY <1>3, <2>1, <3>1, ForAppend
    <3> QED BY <2>1, <3>2
  <2> QED BY <1>2, <1>3, <2>1, ForNone DEF Quiet
<1> QED BY <1>1, <1>4, <1>5, <1>6 DEF ForC

LEMMA QuietUnread ==
    ASSUME BInv, UNCHANGED script, conn' \in [Conns -> Scks], NEW c \in Conns, NEW m,
           conn'[c].st = "closed" \/ (conn[c].st # "closed" /\ conn'[c].n >= conn[c].n)
    PROVE  Unread(c, m)' => Unread(c, m)
<1> SUFFICES ASSUME Unread(c, m)' PROVE Unread(c, m) OBVIOUS
<1>1. conn[c].n \in Nat /\ conn'[c].n \in Nat BY ConnTypes DEF Scks
<1>2. conn'[c].st # "closed" BY DEF Unread
<1>3. PICK i \in 1 .. Len(script[c]) : i > conn'[c].n /\ script[c][i].kind = "EXP" /\ script[c][i].id = m
  BY DEF Unread
<1>4. i \in Nat
  <2>1. script[c] \in Seq(Requests) BY ScriptIs DEF BInv
  <2> QED BY <2>1
<1>5. i > conn[c].n BY <1>1, <1>2, <1>3, <1>4
<1>6. CtxOf[c] = "forward" BY DEF Unread
<1> QED BY <1>2, <1>3, <1>5, <1>6 DEF Unread

\* The parts of the invariant, as far as connections go.
LEMMA CalmKeeps ==
    ASSUME OInv, UNCHANGED <<distq, sendq>>, recvq'["forward"] = recvq["forward"],
           \A m \in Ids \ {0}, c \in Conns : Unread(c, m)' => Unread(c, m),
           \A c \in Conns : ForC(c)',
           \A m \in Ids \ {0}, g \in Gids, c \in InBack :
               (HasC(c, g, m)' => HasC(c, g, m)) /\ (OneC(c, g, m) => OneC(c, g, m)')
    PROVE  OInv'
<1>1. DestRight' BY DEF OInv, DestRight, ForC
<1> SUFFICES ASSUME NEW m \in Ids \ {0} PROVE OneRead(m)' /\ \A g \in Gids : OneWay(g, m)'
  BY <1>1 DEF OInv
<1>2. \A q \in Recvqs : Waits(q, m)' <=> Waits(q, m) BY DEF Waits
<1>3. OneRead(m) BY DEF OInv
<1>4. OneRead(m)' BY <1>2, <1>3 DEF OneRead
<1>5. Ahead(m)' => Ahead(m) BY <1>2 DEF Ahead
<1>6. ASSUME NEW g \in Gids PROVE OneWay(g, m)'
  <2>1. OneWay(g, m) BY DEF OInv
  <2>2. /\ Has(distq["backend"], g, m)' <=> Has(distq["backend"], g, m)
        /\ One(distq["backend"], g, m)' <=> One(distq["backend"], g, m)
    OBVIOUS
  <2>3. \A r \in Rsvrs("backend") : /\ Has(sendq["backend"][r], g, m)' <=> Has(sendq["backend"][r], g, m)
                                    /\ One(sendq["backend"][r], g, m)' <=> One(sendq["backend"][r], g, m)
    OBVIOUS
  <2> QED BY <1>5, <2>1, <2>2, <2>3 DEF OneWay
<1> QED BY <1>4, <1>6

LEMMA Calm ==
    ASSUME BInv, OInv, UNCHANGED <<script, distq, sendq>>, recvq'["forward"] = recvq["forward"],
           conn' \in [Conns -> Scks], \A c \in Conns : Quiet(c)
    PROVE  OInv'
<1>1. \A m \in Ids \ {0}, c \in Conns : Unread(c, m)' => Unread(c, m) BY QuietUnread DEF Quiet
<1>2. \A c \in Conns : ForC(c)' BY QuietFor DEF OInv, DestRight, ForC
<1>3. \A m \in Ids \ {0}, g \in Gids, c \in InBack :
               (HasC(c, g, m)' => HasC(c, g, m)) /\ (OneC(c, g, m) => OneC(c, g, m)')
  BY QuietHas DEF InBack
<1> QED BY <1>1, <1>2, <1>3, CalmKeeps

-----------------------------------------------------------------------------
LEMMA SameQuiet ==
    ASSUME BInv, NEW d \in Conns, conn'[d] = conn[d], got'[d] = got[d]
    PROVE  Quiet(d)
<1>1. conn[d].n \in Nat BY ConnTypes
<1> QED BY <1>1 DEF Quiet

\* One connection's record changes, and nothing of it that a message is in.
LEMMA OneQuiet ==
    ASSUME BInv, OInv, BInv', NEW c \in Conns, Quiet(c), \A d \in Conns : d # c => conn'[d] = conn[d],
           UNCHANGED <<script, got, distq, sendq>>, recvq'["forward"] = recvq["forward"]
    PROVE  OInv'
<1>1. \A d \in Conns : Quiet(d) BY SameQuiet
<1>2. conn' \in [Conns -> Scks] BY DEF BInv, Typed
<1> QED BY <1>1, <1>2, Calm

LEMMA PutConn ==
    ASSUME BInv, NEW c \in Conns, NEW v, conn' = [conn EXCEPT ![c] = v]
    PROVE  conn'[c] = v /\ \A d \in Conns : d # c => conn'[d] = conn[d]
BY DEF BInv, Typed

\* A connection is closed: what it was given is gone.
LEMMA ClosedO ==
    ASSUME BInv, OInv, BInv', NEW c \in Conns, conn' = [conn EXCEPT ![c] = Closed],
           UNCHANGED <<script, got, distq, sendq, recvq>>
    PROVE  OInv'
<1>1. conn'[c] = Closed /\ \A d \in Conns : d # c => conn'[d] = conn[d] BY PutConn
<1>2. Closed.st = "closed" /\ Closed.iov = <<>> /\ Closed.mesg = <<>> BY DEF Closed, FreshSck
<1>3. Quiet(c) BY <1>1, <1>2 DEF Quiet
<1> QED BY <1>1, <1>3, OneQuiet

LEMMA DelO ==
    ASSUME BInv, OInv, BInv', NEW c \in Conns, NEW x, NEW r, NEW decs, DelConn(x, r, c, decs),
           UNCHANGED <<script, got, distq, sendq, recvq>>
    PROVE  OInv'
<1>1. conn' = [conn EXCEPT ![c] = Closed] BY DEF DelConn, Closed
<1> QED BY <1>1, ClosedO

LEMMA ClientCloseO ==
    ASSUME BInv, OInv, BInv', UNCHANGED script, NEW c \in Conns, ClientClose(c)
    PROVE  OInv'
<1>1. PICK s \in Scks : s = conn[c] BY ConnTypes
<1>2. PICK v : v = [s EXCEPT !.peer = FALSE] OBVIOUS
<1>3. v.st = s.st /\ v.iov = s.iov /\ v.mesg = s.mesg /\ v.n = s.n /\ s.n \in Nat BY <1>2 DEF Scks
<1>4. conn' = [conn EXCEPT ![c] = v] BY <1>1, <1>2 DEF ClientClose
<1>5. conn'[c] = v /\ \A d \in Conns : d # c => conn'[d] = conn[d] BY <1>4, PutConn
<1>6. UNCHANGED <<got, distq, sendq, recvq>> BY DEF ClientClose
<1>7. Quiet(c) BY <1>1, <1>3, <1>5, <1>6 DEF Quiet
<1> QED BY <1>5, <1>6, <1>7, OneQuiet

LEMMA TickO ==
    ASSUME BInv, OInv, BInv', UNCHANGED script, Tick
    PROVE  OInv'
<1>1. UNCHANGED <<got, distq, sendq, recvq>> BY DEF Tick
<1>2. ASSUME NEW c \in Conns PROVE Quiet(c)
  <2>1. PICK s \in Scks : s = conn[c] BY ConnTypes
  <2>2. CASE Live(c)
    <3>1. conn'[c] = [conn[c] EXCEPT !.rd = IF @ < 2 THEN @ + 1 ELSE 2, !.wr = IF @ < 2 THEN @ + 1 ELSE 2]
      BY <2>2 DEF Tick
    <3>2. PICK a : a = IF s.rd < 2 THEN s.rd + 1 ELSE 2 OBVIOUS
    <3>3. PICK b : b = IF s.wr < 2 THEN s.wr + 1 ELSE 2 OBVIOUS
    <3>4. PICK v : v = [s EXCEPT !.rd = a, !.wr = b] OBVIOUS
    <3>5. conn'[c] = v BY <2>1, <3>1, <3>2, <3>3, <3>4 DEF Scks
    <3>6. v.st = s.st /\ v.iov = s.iov /\ v.mesg = s.mesg /\ v.n = s.n /\ s.n \in Nat BY <3>4 DEF Scks
    <3> QED BY <1>1, <2>1, <3>5, <3>6 DEF Quiet
  <2>3. CASE ~Live(c)
    <3>1. conn'[c] = conn[c] BY <2>3 DEF Tick
    <3> QED BY <1>1, <3>1, SameQuiet
  <2> QED BY <2>2, <2>3
<1>3. conn' \in [Conns -> Scks] BY DEF BInv, Typed
<1> QED BY <1>1, <1>2, <1>3, Calm

\* What Took leaves of the messages of a connection.
LEMMA TookLeaves ==
    ASSUME BInv, NEW c \in Conns, NEW s \in Scks, NEW rf, Took(c, s, rf)
    PROVE  /\ conn'[c].iov = s.iov /\ conn'[c].mesg = s.mesg /\ conn'[c].n = s.n + 1 /\ conn'[c].st = s.st
           /\ \A d \in Conns : d # c => conn'[d] = conn[d]
<1>1. ASSUME NEW v, conn' = [conn EXCEPT ![c] = v],
             v.iov = s.iov, v.mesg = s.mesg, v.n = s.n + 1, v.st = s.st
      PROVE  /\ conn'[c].iov = s.iov /\ conn'[c].mesg = s.mesg /\ conn'[c].n = s.n + 1 /\ conn'[c].st = s.st
             /\ \A d \in Conns : d # c => conn'[d] = conn[d]
  <2>1. conn'[c] = v /\ \A d \in Conns : d # c => conn'[d] = conn[d] BY <1>1, PutConn
  <2> QED BY <1>1, <2>1
<1>2. CASE s.used + 1 < BufMesgs
  <2>1. PICK v : v = [s EXCEPT !.rd = 0, !.n = @ + 1, !.used = @ + 1] OBVIOUS
  <2>2. conn' = [conn EXCEPT ![c] = v] BY <1>2, <2>1 DEF Took
  <2>3. v.iov = s.iov /\ v.mesg = s.mesg /\ v.n = s.n + 1 /\ v.st = s.st BY <2>1 DEF Scks
  <2> QED BY <1>1, <2>2, <2>3
<1>3. CASE ~(s.used + 1 < BufMesgs)
  <2>0. PICK b \in Bufs : conn' = [conn EXCEPT ![c] = [s EXCEPT !.rd = 0, !.n = @ + 1, !.used = 0, !.base = b]]
    BY <1>3 DEF Took
  <2>1. PICK v : v = [s EXCEPT !.rd = 0, !.n = @ + 1, !.used = 0, !.base = b] OBVIOUS
  <2>2. conn' = [conn EXCEPT ![c] = v] BY <2>0, <2>1
  <2>3. v.iov = s.iov /\ v.mesg = s.mesg /\ v.n = s.n + 1 /\ v.st = s.st BY <2>1 DEF Scks
  <2> QED BY <1>1, <2>2, <2>3
<1> QED BY <1>2, <1>3

\* A request is answered or not, and taken from the buffer.
LEMMA TookO ==
    ASSUME BInv, OInv, BInv', NEW c \in Conns, Live(c), NEW s \in Scks, NEW rf, Took(c, s, rf),
           s.iov = conn[c].iov, s.n = conn[c].n,
           s.mesg = conn[c].mesg \/ \E k : Ack(k) \in Mesgs /\ s.mesg = Append(conn[c].mesg, Ack(k)),
           UNCHANGED <<script, got, distq, sendq, recvq>>
    PROVE  OInv'
<1>1. /\ conn'[c].iov = s.iov /\ conn'[c].mesg = s.mesg /\ conn'[c].n = s.n + 1
      /\ \A d \in Conns : d # c => conn'[d] = conn[d]
  BY TookLeaves
<1>2. conn[c].n \in Nat /\ conn[c].st # "closed" BY ConnTypes DEF Live
<1>3. Quiet(c) BY <1>1, <1>2 DEF Quiet
<1> QED BY <1>1, <1>3, OneQuiet

LEMMA KeepaliveO ==
    ASSUME BInv, OInv, BInv', UNCHANGED script, NEW c \in Conns, rtmq_rsvr_keepalive_req_hdl(c)
    PROVE  OInv'
<1>1. Live(c) /\ UNCHANGED <<got, distq, sendq, recvq>> BY DEF rtmq_rsvr_keepalive_req_hdl, Reading
<1>2. CASE ~conn[c].auth BY <1>1, <1>2, DelO DEF rtmq_rsvr_keepalive_req_hdl
<1>3. CASE conn[c].auth
  <2>1. PICK h \in Scks : h = conn[c] BY ConnTypes
  <2>2. PICK w \in Seq(Mesgs) : w = Append(h.mesg, Ack("KPALIVE_ACK"))
    <3>1. h.mesg \in Seq(Mesgs) BY DEF Scks
    <3>2. Append(h.mesg, Ack("KPALIVE_ACK")) \in Seq(Mesgs) BY <3>1, AckIs
    <3> QED BY <3>2
  <2>3. PICK s : s = [h EXCEPT !.mesg = w] OBVIOUS
  <2>4. Took(c, s, ref) BY <1>3, <2>1, <2>2, <2>3 DEF rtmq_rsvr_keepalive_req_hdl
  <2>5. s \in Scks /\ s.iov = h.iov /\ s.n = h.n /\ s.mesg = w BY <2>3 DEF Scks
  <2>6. \E k : Ack(k) \in Mesgs /\ s.mesg = Append(conn[c].mesg, Ack(k)) BY <2>1, <2>2, <2>5, AckIs
  <2> QED BY <1>1, <2>1, <2>4, <2>5, <2>6, TookO
<1> QED BY <1>2, <1>3

LEMMA AuthO ==
    ASSUME BInv, OInv, BInv', UNCHANGED script, NEW c \in Conns, rtmq_rsvr_link_auth_req_hdl(c)
    PROVE  OInv'
<1>1. /\ Live(c) /\ conn[c].n < Len(script[c]) /\ UNCHANGED <<got, distq, sendq, recvq>>
  BY DEF rtmq_rsvr_link_auth_req_hdl, Reading
<1>2. PICK ok : ok = rtmq_auth_check(Arriving(c)) OBVIOUS
<1>3. CASE ok /\ MapFull(map[CtxOf[c]], NidOf[c])
  <2>1. conn' = [conn EXCEPT ![c] = Closed] BY <1>2, <1>3 DEF rtmq_rsvr_link_auth_req_hdl, Closed
  <2> QED BY <1>1, <2>1, ClosedO
<1>4. CASE ~(ok /\ MapFull(map[CtxOf[c]], NidOf[c]))
  <2>1. PICK h \in Scks : h = conn[c] BY ConnTypes
  <2>2. PICK w \in Seq(Mesgs) : w = Append(h.mesg, Ack("AUTH_ACK"))
    <3>1. h.mesg \in Seq(Mesgs) BY DEF Scks
    <3>2. Append(h.mesg, Ack("AUTH_ACK")) \in Seq(Mesgs) BY <3>1, AckIs
    <3> QED BY <3>2
  <2>3. PICK nid : nid = IF ok THEN NidOf[c] ELSE h.nid OBVIOUS
  <2>4. PICK s : s = [h EXCEPT !.gid = GidOf[c], !.auth = ok, !.nid = nid, !.mesg = w] OBVIOUS
  <2>5. Took(c, s, ref)
    <3>1. s = [h EXCEPT !.gid = GidOf[c], !.auth = ok, !.nid = IF ok THEN NidOf[c] ELSE @,
                        !.mesg = Append(@, Ack("AUTH_ACK"))]
      BY <2>2, <2>3, <2>4 DEF Scks
    <3> QED BY <1>2, <1>4, <2>1, <3>1 DEF rtmq_rsvr_link_auth_req_hdl
  <2>6. s.iov = h.iov /\ s.n = h.n /\ s.mesg = w BY <2>4 DEF Scks
  <2>7. s \in Scks
    <3>1. NidOf[c] \in Nids /\ GidOf[c] \in Gids BY Ranges
    <3>2. nid \in Nids \cup {NoNid} BY <2>3, <3>1 DEF Scks
    <3>3. ok \in BOOLEAN
      <4>1. Arriving(c) \in Mesgs BY <1>1, ArrivingIs DEF BInv
      <4> QED BY <4>1, <1>2 DEF Mesgs, rtmq_auth_check
    <3> QED BY <2>4, <3>1, <3>2, <3>3 DEF Scks
  <2>8. \E k : Ack(k) \in Mesgs /\ s.mesg = Append(conn[c].mesg, Ack(k)) BY <2>1, <2>2, <2>6, AckIs
  <2> QED BY <1>1, <2>1, <2>5, <2>6, <2>7, <2>8, TookO
<1> QED BY <1>3, <1>4

LEMMA SubO ==
    ASSUME BInv, OInv, BInv', UNCHANGED script, NEW c \in Conns,
           rtmq_sub_add_query(c) \/ rtmq_sub_add_insert(c)
    PROVE  OInv'
<1>1. Live(c) /\ UNCHANGED <<got, distq, sendq, recvq>> 
  BY DEF rtmq_sub_add_query, rtmq_sub_add_insert, Reading
<1>2. CASE UNCHANGED conn
  <2>1. Quiet(c) BY <1>1, <1>2, SameQuiet
  <2> QED BY <1>1, <1>2, <2>1, OneQuiet
<1>3. CASE DelConn(CtxOf[c], conn[c].rsvr, c, 1) BY <1>1, <1>3, DelO
<1>4. ASSUME NEW t, Took(c, [conn[c] EXCEPT !.subs = @ \cup {t}], ref), t \in Types PROVE OInv'
  <2>1. PICK h \in Scks : h = conn[c] BY ConnTypes
  <2>2. PICK s : s = [h EXCEPT !.subs = @ \cup {t}] OBVIOUS
  <2>3. s \in Scks /\ s.iov = h.iov /\ s.n = h.n /\ s.mesg = h.mesg BY <1>4, <2>2 DEF Scks
  <2>4. Took(c, s, ref) BY <1>4, <2>1, <2>2
  <2> QED BY <1>1, <2>1, <2>3, <2>4, TookO
<1>5. CASE rtmq_sub_add_query(c)
  <2>1. \/ UNCHANGED conn \/ DelConn(CtxOf[c], conn[c].rsvr, c, 1)
        \/ Took(c, [conn[c] EXCEPT !.subs = @ \cup {Arriving(c).type}], ref) /\ Arriving(c).type \in DOMAIN sub[CtxOf[c]]
    BY <1>5 DEF rtmq_sub_add_query
  <2>2. CtxOf[c] \in Ctxs BY Located
  <2>3. DOMAIN sub[CtxOf[c]] \subseteq Types BY <2>2 DEF BInv, Typed, IsTab
  <2>4. PICK t : t = Arriving(c).type OBVIOUS
  <2> QED BY <1>2, <1>3, <1>4, <2>1, <2>3, <2>4
<1>6. CASE rtmq_sub_add_insert(c)
  <2>1. UNCHANGED conn \/ DelConn(CtxOf[c], conn[c].rsvr, c, 1) BY <1>6 DEF rtmq_sub_add_insert
  <2> QED BY <1>2, <1>3, <2>1
<1> QED BY <1>5, <1>6

LEMMA AcceptO ==
    ASSUME BInv, OInv, BInv', UNCHANGED script, NEW c \in Conns, rtmq_lsn_accept(c)
    PROVE  OInv'
<1>1. conn[c].st = "new" /\ UNCHANGED <<got, distq, sendq, recvq>> BY DEF rtmq_lsn_accept
<1>2. PICK h \in Scks : h = conn[c] BY ConnTypes
<1>3. PICK st : conn' = [conn EXCEPT ![c].st = st] BY DEF rtmq_lsn_accept
<1>4. PICK v : v = [h EXCEPT !.st = st] OBVIOUS
<1>5. conn' = [conn EXCEPT ![c] = v] BY <1>2, <1>3, <1>4
<1>6. v.iov = h.iov /\ v.mesg = h.mesg /\ v.n = h.n /\ h.n \in Nat BY <1>4 DEF Scks
<1>7. conn'[c] = v /\ \A d \in Conns : d # c => conn'[d] = conn[d] BY <1>5, PutConn
<1>8. Quiet(c) BY <1>1, <1>2, <1>6, <1>7, SMTT(30) DEF Quiet
<1> QED BY <1>1, <1>7, <1>8, OneQuiet

LEMMA AddConnO ==
    ASSUME BInv, OInv, BInv', UNCHANGED script, NEW x \in Ctxs, NEW r \in Rsvrs(x), rtmq_rsvr_add_conn_hdl(x, r)
    PROVE  OInv'
<1>1. UNCHANGED <<got, distq, sendq, recvq>> BY DEF rtmq_rsvr_add_conn_hdl
<1>2. conn' \in [Conns -> Scks] BY DEF BInv, Typed
<1>3. CASE UNCHANGED conn
  <2>1. \A c \in Conns : Quiet(c) BY <1>1, <1>3, SameQuiet
  <2> QED BY <1>1, <1>2, <2>1, Calm
<1>4. ASSUME NEW b, connq[x][r] # <<>>,
             conn' = [conn EXCEPT ![Head(connq[x][r])] = [@ EXCEPT !.st = "live", !.rsvr = r, !.base = b]]
      PROVE  OInv'
  <2>1. connq[x][r] \in Seq(Conns) BY Get DEF BInv, Typed
  <2>2. PICK c \in Conns : c = Head(connq[x][r]) /\ c = connq[x][r][1] /\ 1 \in 1 .. Len(connq[x][r])
    BY <1>4, <2>1
  <2>3. conn[c].st = "queued" BY <2>2 DEF BInv, Placed
  <2>4. PICK h \in Scks : h = conn[c] BY ConnTypes
  <2>5. PICK v : v = [h EXCEPT !.st = "live", !.rsvr = r, !.base = b] OBVIOUS
  <2>6. conn' = [conn EXCEPT ![c] = v] BY <1>4, <2>2, <2>4, <2>5
  <2>7. v.iov = h.iov /\ v.mesg = h.mesg /\ v.n = h.n /\ h.n \in Nat BY <2>5 DEF Scks
  <2>8. conn'[c] = v /\ \A d \in Conns : d # c => conn'[d] = conn[d] BY <2>6, PutConn
  <2>9. Quiet(c) BY <1>1, <2>3, <2>4, <2>7, <2>8 DEF Quiet
  <2> QED BY <1>1, <2>8, <2>9, OneQuiet
<1> QED BY <1>3, <1>4 DEF rtmq_rsvr_add_conn_hdl

-----------------------------------------------------------------------------
(* Messages that move from place to place.                                 *)
\* The kernel takes what it takes of the iovec: nothing is added, nothing doubled.
LEMMA SendO ==
    ASSUME BInv, OInv, BInv', UNCHANGED script, NEW c \in Conns, rtmq_rsvr_trav_send(c), conn[c].peer
    PROVE  OInv'
<1> DEFINE sck == conn[c]
           room == MIN(IovMax - (sck.idx + Len(sck.iov)), Len(sck.mesg))
           iov == sck.iov \o SubSeq(sck.mesg, 1, room)
<1>1. PICK h \in Scks : h = sck BY ConnTypes
<1>2. PICK i \in Seq(Mesgs), l \in Seq(Mesgs), o \in Seq(Mesgs) : i = h.iov /\ l = h.mesg /\ o = got[c]
  BY <1>1, ConnTypes
<1>3. PICK n \in {0, Len(iov)} :
        /\ got' = [got EXCEPT ![c] = @ \o SubSeq(iov, 1, n)]
        /\ conn' = [conn EXCEPT ![c] =
                             [sck EXCEPT !.wr = 0,
                                         !.mesg = SubSeq(sck.mesg, room + 1, Len(sck.mesg)),
                                         !.iov = SubSeq(iov, n + 1, Len(iov)),
                                         !.idx = IF n = Len(iov) THEN 0 ELSE sck.idx + n]]
        /\ UNCHANGED <<map, sub, ref, aborted>>
  BY ZenonT(60) DEF rtmq_rsvr_trav_send
<1>4. UNCHANGED <<distq, sendq, recvq>> BY Zenon DEF rtmq_rsvr_trav_send
<1>5. room \in 0 .. Len(l)
  <2>1. h.idx + Len(h.iov) <= IovMax BY <1>1 DEF BInv, Within
  <2>2. PICK a \in Nat, b \in Nat, k \in Nat, z \in Nat : a = Len(h.iov) /\ b = Len(h.mesg) /\ k = h.idx /\ z = IovMax
    BY <1>2, BrokerAssumption, SMTT(30) DEF Scks
  <2>3. room = IF z - (k + a) < b THEN z - (k + a) ELSE b BY <1>1, <2>2 DEF MIN
  <2>4. k + a <= z BY <2>1, <2>2
  <2>5. (IF z - (k + a) < b THEN z - (k + a) ELSE b) \in 0 .. b BY <2>4
  <2> QED BY <1>2, <2>2, <2>3, <2>5
<1>6. PICK e \in 0 .. Len(l) : e = room BY <1>5
<1>7. PICK a : a = SubSeq(l, 1, e) OBVIOUS
<1>8. PICK b : b = SubSeq(l, e + 1, Len(l)) OBVIOUS
<1>9. a \in Seq(Mesgs) /\ b \in Seq(Mesgs) /\ l = a \o b BY <1>7, <1>8, SplitAt
<1>10. PICK u : u = i \o a OBVIOUS
<1>11. u \in Seq(Mesgs) BY <1>9, <1>10, ConcatProperties
<1>12. iov = u BY <1>1, <1>2, <1>6, <1>7, <1>10
<1>13. n \in 0 .. Len(u)
  <2>1. n = 0 \/ n = Len(u) BY <1>3, <1>12
  <2>2. Len(u) \in Nat BY <1>11
  <2> QED BY <2>1, <2>2
<1>14. PICK f : f = SubSeq(u, 1, n) OBVIOUS
<1>15. PICK v : v = SubSeq(u, n + 1, Len(u)) OBVIOUS
<1>16. f \in Seq(Mesgs) /\ v \in Seq(Mesgs) /\ u = f \o v BY <1>11, <1>13, <1>14, <1>15, SplitAt
<1>17. PICK p : p = o \o f OBVIOUS
<1>18. p \in Seq(Mesgs) BY <1>16, <1>17, ConcatProperties
<1> DEFINE idx == IF n = Len(iov) THEN 0 ELSE sck.idx + n
<1>19. PICK y : y = [h EXCEPT !.wr = 0, !.mesg = b, !.iov = v, !.idx = idx] OBVIOUS
<1>20. conn' = [conn EXCEPT ![c] = y]
  <2>1. y = [sck EXCEPT !.wr = 0, !.mesg = SubSeq(sck.mesg, room + 1, Len(sck.mesg)),
                        !.iov = SubSeq(iov, n + 1, Len(iov)), !.idx = idx]
    BY <1>1, <1>2, <1>6, <1>8, <1>12, <1>15, <1>19
  <2> QED BY <1>3, <2>1
<1>21. got' = [got EXCEPT ![c] = p] BY <1>2, <1>3, <1>12, <1>14, <1>17
<1> HIDE DEF idx, iov, room, sck
<1>22. y.st = h.st /\ y.n = h.n /\ y.iov = v /\ y.mesg = b BY <1>19 DEF Scks
<1>23. conn'[c] = y /\ \A d \in Conns : d # c => conn'[d] = conn[d] BY <1>20, PutConn
<1>24. got'[c] = p /\ \A d \in Conns : d # c => got'[d] = got[d] BY <1>21 DEF BInv, Typed
<1>25. conn[c].st = h.st /\ conn[c].n = h.n /\ conn[c].iov = i /\ conn[c].mesg = l /\ h.n \in Nat
  BY <1>1, <1>2 DEF sck, Scks
<1>26. \A m \in Ids \ {0}, d \in Conns : Unread(d, m)' => Unread(d, m)
  <2>1. conn' \in [Conns -> Scks] BY DEF BInv, Typed
  <2>2. \A d \in Conns : conn'[d].st = "closed" \/ (conn[d].st # "closed" /\ conn'[d].n >= conn[d].n)
    <3> TAKE d \in Conns
    <3>1. conn'[d].st = conn[d].st /\ conn'[d].n = conn[d].n BY <1>22, <1>23, <1>25
    <3>2. conn[d].n \in Nat BY ConnTypes
    <3> QED BY <3>1, <3>2
  <2> QED BY <2>1, <2>2, QuietUnread
<1>27. \A d \in Conns : ForC(d)'
  <2>0. \A d \in Conns : ForC(d) BY DEF OInv, DestRight, ForC
  <2>1. ASSUME NEW d \in Conns, d # c PROVE ForC(d)' BY <2>0, <2>1, <1>23, <1>24 DEF ForC
  <2>2. PICK z : z = NidOf[c] OBVIOUS
  <2>3. For(o, z) /\ For(i, z) /\ For(l, z) BY <1>2, <1>25, <2>0, <2>2 DEF ForC
  <2>4. For(a, z) /\ For(b, z) BY <1>9, <2>3, ForConcat
  <2>5. For(u, z) BY <1>9, <1>10, <2>3, <2>4, ForConcat
  <2>6. For(f, z) /\ For(v, z) BY <1>16, <2>5, ForConcat
  <2>7. For(p, z) BY <1>16, <1>17, <2>3, <2>6, ForConcat
  <2>8. ForC(c)' BY <1>22, <1>23, <1>24, <2>2, <2>4, <2>6, <2>7 DEF ForC
  <2> QED BY <2>1, <2>8
<1>28. ASSUME NEW m \in Ids \ {0}, NEW g \in Gids, NEW d \in InBack
       PROVE  (HasC(d, g, m)' => HasC(d, g, m)) /\ (OneC(d, g, m) => OneC(d, g, m)')
  <2>1. CASE d # c
    <3>1. conn'[d] = conn[d] /\ got'[d] = got[d] BY <1>23, <1>24, <2>1 DEF InBack
    <3> QED BY <3>1 DEF HasC, OneC
  <2>2. CASE d = c
    <3>1. /\ HasC(c, g, m) <=> Has(o, g, m) \/ Has(i, g, m) \/ Has(l, g, m)
          /\ HasC(c, g, m)' <=> Has(p, g, m) \/ Has(v, g, m) \/ Has(b, g, m)
      BY <1>2, <1>22, <1>23, <1>24, <1>25 DEF HasC
    <3>2. /\ OneC(c, g, m) <=> /\ One(o, g, m) /\ One(i, g, m) /\ One(l, g, m)
                               /\ ~(Has(o, g, m) /\ Has(i, g, m)) /\ ~(Has(o, g, m) /\ Has(l, g, m))
                               /\ ~(Has(i, g, m) /\ Has(l, g, m))
          /\ OneC(c, g, m)' <=> /\ One(p, g, m) /\ One(v, g, m) /\ One(b, g, m)
                                /\ ~(Has(p, g, m) /\ Has(v, g, m)) /\ ~(Has(p, g, m) /\ Has(b, g, m))
                                /\ ~(Has(v, g, m) /\ Has(b, g, m))
      BY <1>2, <1>22, <1>23, <1>24, <1>25 DEF OneC
    <3>3. Joined(l, a, b, g, m) BY <1>9, HasConcat
    <3>4. Joined(u, i, a, g, m) BY <1>9, <1>10, HasConcat
    <3>5. Joined(u, f, v, g, m) BY <1>16, HasConcat
    <3>6. Joined(p, o, f, g, m) BY <1>16, <1>17, HasConcat
    <3> QED BY ONLY <2>2, <3>1, <3>2, <3>3, <3>4, <3>5, <3>6 DEF Joined
  <2> QED BY <2>1, <2>2
<1> QED BY <1>4, <1>26, <1>27, <1>28, CalmKeeps

\* A message of sendq goes to a connection of its node.
LEMMA DistO ==
    ASSUME BInv, OInv, BInv', UNCHANGED script, NEW x \in Ctxs, NEW r \in Rsvrs(x), rtmq_rsvr_dist_data(x, r)
    PROVE  OInv'
<1>0. UNCHANGED <<got, recvq, distq>> BY DEF rtmq_rsvr_dist_data
<1>1. Per(sendq, Seq(Mesgs)) BY DEF BInv, Typed
<1>2. CASE sendq[x][r] = <<>>
  <2>1. UNCHANGED <<conn, sendq>> BY <1>2 DEF rtmq_rsvr_dist_data
  <2>2. \A c \in Conns : Quiet(c) BY <1>0, <2>1, SameQuiet
  <2>3. conn' \in [Conns -> Scks] BY DEF BInv, Typed
  <2> QED BY <1>0, <2>1, <2>2, <2>3, Calm
<1>3. CASE sendq[x][r] # <<>>
  <2>1. PICK k \in Mesgs : k = Head(sendq[x][r])
    <3>1. IsTail([sendq EXCEPT ![x][r] = Tail(@)], sendq, x, r, Mesgs) BY <1>1, <1>3, QueueTail, Zenon
    <3> QED BY <3>1 DEF IsTail
  <2>2. /\ sendq' = [sendq EXCEPT ![x][r] = Tail(@)]
        /\ \/ UNCHANGED conn
           \/ \E c \in Conns : /\ CtxOf[c] = x /\ conn[c].nid = k.dest
                               /\ conn' = [conn EXCEPT ![c].mesg = Append(@, k)]
    BY <1>3, <2>1 DEF rtmq_rsvr_dist_data
  <2>3. /\ sendq'[x][r] = Tail(sendq[x][r]) /\ Len(sendq'[x][r]) = Len(sendq[x][r]) - 1
        /\ \A i \in 1 .. Len(sendq'[x][r]) : sendq'[x][r][i] = sendq[x][r][i + 1]
        /\ sendq[x][r] \in Seq(Mesgs) /\ k = sendq[x][r][1] /\ Len(sendq[x][r]) >= 1
        /\ \A y \in Ctxs : \A s \in Rsvrs(y) : y # x \/ s # r => sendq'[y][s] = sendq[y][s]
    <3>1. IsTail(sendq', sendq, x, r, Mesgs) BY <1>1, <1>3, <2>2, QueueTail, Zenon
    <3> QED BY <2>1, <3>1 DEF IsTail
  <2>4. k.dest \in Nids
    <3>1. 1 \in 1 .. Len(sendq[x][r]) BY <2>3
    <3> QED BY <2>3, <3>1 DEF OInv, DestRight
  <2>5. \A y \in Ctxs : \A s \in Rsvrs(y) : \A i \in 1 .. Len(sendq'[y][s]) : sendq'[y][s][i].dest \in Nids
    <3>1. \A y \in Ctxs : \A s \in Rsvrs(y) : \A i \in 1 .. Len(sendq[y][s]) : sendq[y][s][i].dest \in Nids
      BY DEF OInv, DestRight
    <3>2. \A i \in 1 .. Len(sendq'[x][r]) : i + 1 \in 1 .. Len(sendq[x][r])
      BY <2>3
    <3>3. \A i \in 1 .. Len(sendq'[x][r]) : sendq'[x][r][i].dest \in Nids BY <2>3, <3>1, <3>2
    <3> SUFFICES ASSUME NEW y \in Ctxs, NEW s \in Rsvrs(y)
                 PROVE  \A i \in 1 .. Len(sendq'[y][s]) : sendq'[y][s][i].dest \in Nids
      OBVIOUS
    <3>4. CASE y = x /\ s = r BY <3>3, <3>4
    <3>5. CASE y # x \/ s # r
      <4>1. sendq'[y][s] = sendq[y][s] BY <2>3, <3>5
      <4> QED BY <3>1, <4>1
    <3> QED BY <3>4, <3>5
  <2>6. ASSUME NEW g, NEW m, NEW s \in Rsvrs("backend")
        PROVE  /\ Has(sendq["backend"][s], g, m)' => Has(sendq["backend"][s], g, m)
               /\ One(sendq["backend"][s], g, m) => One(sendq["backend"][s], g, m)'
               /\ x = "backend" /\ s = r /\ Hit(k, g, m) =>
                     /\ Has(sendq["backend"][s], g, m)
                     /\ One(sendq["backend"][s], g, m) => ~Has(sendq["backend"][s], g, m)'
    <3>1. CASE x = "backend" /\ s = r
      <4>1. PICK l \in Seq(Mesgs) : l = sendq["backend"][s] BY <2>3, <3>1
      <4>2. PICK t : t = Tail(l) OBVIOUS
      <4>3. sendq'["backend"][s] = t /\ k = Head(l) /\ l # <<>> BY <1>3, <2>1, <2>3, <3>1, <4>1, <4>2
      <4>4. /\ Has(t, g, m) => Has(l, g, m)
            /\ Hit(Head(l), g, m) => Has(l, g, m)
            /\ One(l, g, m) => One(t, g, m) /\ (Hit(Head(l), g, m) => ~Has(t, g, m))
        BY <4>2, <4>3, HasTail
      <4> QED BY <3>1, <4>1, <4>3, <4>4
    <3>2. CASE ~(x = "backend" /\ s = r)
      <4>1. sendq'["backend"][s] = sendq["backend"][s] BY <2>3, <3>2, BrokerAssumption
      <4> QED BY <3>2, <4>1
    <3> QED BY <3>1, <3>2
  <2>7. \A m : (Ahead(m)' => Ahead(m)) /\ (OneRead(m) => OneRead(m)')
    <3> TAKE m
    <3>1. \A c \in Conns : Unread(c, m)' <=> Unread(c, m)
      <4> TAKE c \in Conns
      <4>1. conn'[c].st = conn[c].st /\ conn'[c].n = conn[c].n
        <5>1. CASE UNCHANGED conn BY <5>1
        <5>2. ASSUME NEW d \in Conns, conn' = [conn EXCEPT ![d].mesg = Append(@, k)]
              PROVE  conn'[c].st = conn[c].st /\ conn'[c].n = conn[c].n
          <6>1. conn[c] \in Scks BY ConnTypes
          <6> QED BY <5>2, <6>1 DEF BInv, Typed, Scks
        <5> QED BY <2>2, <5>1, <5>2
      <4> QED BY <4>1 DEF Unread
    <3>2. \A q \in Recvqs : Waits(q, m)' <=> Waits(q, m) BY <1>0 DEF Waits
    <3> QED BY <1>0, <3>1, <3>2 DEF Ahead, OneRead
  <2>8. CASE UNCHANGED conn
    <3>1. DestRight' BY <1>0, <2>5, <2>8 DEF OInv, DestRight
    <3>2. ASSUME NEW m \in Ids \ {0}, NEW g \in Gids PROVE OneWay(g, m)'
      <4>1. OneWay(g, m) BY DEF OInv
      <4>2. \A c \in InBack : (HasC(c, g, m)' <=> HasC(c, g, m)) /\ (OneC(c, g, m)' <=> OneC(c, g, m))
        BY <1>0, <2>8 DEF HasC, OneC
      <4>3. /\ Has(distq["backend"], g, m)' <=> Has(distq["backend"], g, m)
            /\ One(distq["backend"], g, m)' <=> One(distq["backend"], g, m)
        BY <1>0
      <4> QED BY <2>6, <2>7, <4>1, <4>2, <4>3 DEF OneWay
    <3> QED BY <2>7, <3>1, <3>2 DEF OInv
  <2>9. ASSUME NEW c \in Conns, CtxOf[c] = x, conn[c].nid = k.dest,
               conn' = [conn EXCEPT ![c].mesg = Append(@, k)]
        PROVE  OInv'
    <3>1. PICK h \in Scks : h = conn[c] BY ConnTypes
    <3>2. PICK l \in Seq(Mesgs) : l = h.mesg BY DEF Scks
    <3>3. PICK t : t = Append(l, k) OBVIOUS
    <3>4. PICK v : v = [h EXCEPT !.mesg = t] OBVIOUS
    <3>5. conn' = [conn EXCEPT ![c] = v] BY <2>9, <3>1, <3>2, <3>3, <3>4
    <3>6. conn'[c] = v /\ \A d \in Conns : d # c => conn'[d] = conn[d] BY <3>5, PutConn
    <3>7. v.iov = h.iov /\ v.mesg = t BY <3>4 DEF Scks
    <3>8. k.dest = NidOf[c]
      <4>1. conn[c].auth BY <2>4, <2>9, BrokerAssumption DEF BInv, AuthRight
      <4> QED BY <4>1, <2>9 DEF BInv, AuthRight
    <3>9. DestRight'
      <4>1. \A d \in Conns : For(got[d], NidOf[d]) /\ For(conn[d].iov, NidOf[d]) /\ For(conn[d].mesg, NidOf[d])
        BY DEF OInv, DestRight
      <4>2. For(t, NidOf[c]) BY <3>1, <3>2, <3>3, <3>8, <4>1, ForAppend
      <4>3. \A d \in Conns : For(got'[d], NidOf[d]) /\ For(conn'[d].iov, NidOf[d]) /\ For(conn'[d].mesg, NidOf[d])
        BY <1>0, <3>1, <3>6, <3>7, <4>1, <4>2
      <4> QED BY <2>5, <4>3 DEF DestRight
    <3>10. ASSUME NEW m \in Ids \ {0}, NEW g \in Gids PROVE OneWay(g, m)'
      <4>1. OneWay(g, m) BY DEF OInv
      <4>2. \A d \in InBack : d # c => (HasC(d, g, m)' <=> HasC(d, g, m)) /\ (OneC(d, g, m)' <=> OneC(d, g, m))
        BY <1>0, <3>6 DEF HasC, OneC, InBack
      <4>3. /\ Has(distq["backend"], g, m)' <=> Has(distq["backend"], g, m)
            /\ One(distq["backend"], g, m)' <=> One(distq["backend"], g, m)
        BY <1>0
      <4>4. /\ Has(t, g, m) <=> Has(l, g, m) \/ Hit(k, g, m)
            /\ One(l, g, m) /\ ~(Has(l, g, m) /\ Hit(k, g, m)) => One(t, g, m)
        BY <3>3, HasAppend
      <4>5. /\ HasC(c, g, m)' => HasC(c, g, m) \/ Hit(k, g, m)
            /\ OneC(c, g, m) /\ ~(HasC(c, g, m) /\ Hit(k, g, m)) => OneC(c, g, m)'
        BY <1>0, <3>1, <3>2, <3>6, <3>7, <4>4 DEF HasC, OneC
      <4>6. CASE x # "backend"
        <5>1. c \notin InBack BY <2>9, <4>6 DEF InBack
        <5> QED BY <2>6, <2>7, <4>1, <4>2, <4>3, <5>1 DEF OneWay
      <4>7. CASE x = "backend" /\ ~Hit(k, g, m)
        <5>1. \A d \in InBack : (HasC(d, g, m)' => HasC(d, g, m)) /\ (OneC(d, g, m) => OneC(d, g, m)')
          BY <4>2, <4>5, <4>7
        <5> QED BY <2>6, <2>7, <4>1, <4>3, <5>1 DEF OneWay
      <4>8. CASE x = "backend" /\ Hit(k, g, m)
        <5>1. r \in Rsvrs("backend") BY <4>8
        <5>2. Has(sendq["backend"][r], g, m) /\ ~Has(sendq["backend"][r], g, m)'
          BY <2>6, <4>1, <4>8, <5>1 DEF OneWay
        <5>3. \A s \in Rsvrs("backend") : ~Has(sendq["backend"][s], g, m)'
          BY <2>6, <4>1, <5>1, <5>2 DEF OneWay
        <5>4. \A d \in InBack : ~HasC(d, g, m) BY <4>1, <5>1, <5>2 DEF OneWay
        <5>5. \A d \in InBack : d # c => ~HasC(d, g, m)' BY <4>2, <5>4
        <5>6. ~Has(distq["backend"], g, m) /\ ~Ahead(m) BY <4>1, <5>1, <5>2 DEF OneWay
        <5>7. \A d \in InBack : OneC(d, g, m)' BY <4>1, <4>2, <4>5, <5>4 DEF OneWay
        <5>8. \A s \in Rsvrs("backend") : One(sendq["backend"][s], g, m)' BY <2>6, <4>1 DEF OneWay
        <5> QED BY <2>7, <4>1, <4>3, <5>3, <5>5, <5>6, <5>7, <5>8 DEF OneWay
      <4> QED BY <4>6, <4>7, <4>8
    <3> QED BY <2>7, <3>9, <3>10 DEF OInv
  <2> QED BY <2>2, <2>8, <2>9
<1> QED BY <1>2, <1>3

\* A message of distq goes to a receiver that has its node, or is dropped.
LEMMA DsvrO ==
    ASSUME BInv, OInv, BInv', UNCHANGED script, NEW x \in Ctxs, rtmq_dsvr_dist_data_hdl(x)
    PROVE  OInv'
<1>0. UNCHANGED <<conn, got, recvq>> BY DEF rtmq_dsvr_dist_data_hdl
<1>1. distq[x] # <<>> /\ distq' = [distq EXCEPT ![x] = Tail(@)] BY DEF rtmq_dsvr_dist_data_hdl
<1>2. distq \in [Ctxs -> Seq(Mesgs)] /\ Per(sendq, Seq(Mesgs)) BY DEF BInv, Typed
<1>3. PICK k \in Mesgs : k = Head(distq[x]) BY <1>1, <1>2
<1>4. \/ UNCHANGED sendq
      \/ \E r \in rtmq_node_to_svr_map_rand(x, k.dest) : sendq' = [sendq EXCEPT ![x][r] = Append(@, k)]
  BY <1>3 DEF rtmq_dsvr_dist_data_hdl
<1>5. \A m : (Ahead(m)' <=> Ahead(m)) /\ (OneRead(m)' <=> OneRead(m))
  BY <1>0 DEF Ahead, OneRead, Waits, Unread
<1>6. \A g, m : \A c \in InBack : (HasC(c, g, m)' <=> HasC(c, g, m)) /\ (OneC(c, g, m)' <=> OneC(c, g, m))
  BY <1>0 DEF HasC, OneC
<1>7. ASSUME NEW g, NEW m
      PROVE  /\ Has(distq["backend"], g, m)' => Has(distq["backend"], g, m)
             /\ One(distq["backend"], g, m) => One(distq["backend"], g, m)'
             /\ x = "backend" /\ Hit(k, g, m) =>
                   /\ Has(distq["backend"], g, m)
                   /\ One(distq["backend"], g, m) => ~Has(distq["backend"], g, m)'
  <2>1. CASE x = "backend"
    <3>1. PICK l \in Seq(Mesgs) : l = distq["backend"] BY <1>2, <2>1
    <3>2. PICK t : t = Tail(l) OBVIOUS
    <3>3. distq'["backend"] = t /\ k = Head(l) /\ l # <<>> BY <1>1, <1>2, <1>3, <2>1, <3>1, <3>2
    <3>4. /\ Has(t, g, m) => Has(l, g, m)
          /\ Hit(Head(l), g, m) => Has(l, g, m)
          /\ One(l, g, m) => One(t, g, m) /\ (Hit(Head(l), g, m) => ~Has(t, g, m))
      BY <3>2, <3>3, HasTail
    <3> QED BY <3>1, <3>3, <3>4
  <2>2. CASE x # "backend"
    <3>1. distq'["backend"] = distq["backend"] BY <1>1, <1>2, <2>2, BrokerAssumption
    <3> QED BY <2>2, <3>1
  <2> QED BY <2>1, <2>2
<1>8. CASE UNCHANGED sendq
  <2>1. DestRight' BY <1>0, <1>8 DEF OInv, DestRight
  <2>2. ASSUME NEW m \in Ids \ {0}, NEW g \in Gids PROVE OneWay(g, m)'
    <3>1. OneWay(g, m) BY DEF OInv
    <3>2. \A r \in Rsvrs("backend") : /\ Has(sendq["backend"][r], g, m)' <=> Has(sendq["backend"][r], g, m)
                                      /\ One(sendq["backend"][r], g, m)' <=> One(sendq["backend"][r], g, m)
      BY <1>8
    <3> QED BY <1>5, <1>6, <1>7, <3>1, <3>2 DEF OneWay
  <2> QED BY <1>5, <2>1, <2>2 DEF OInv
<1>9. ASSUME NEW r \in rtmq_node_to_svr_map_rand(x, k.dest), sendq' = [sendq EXCEPT ![x][r] = Append(@, k)]
      PROVE  OInv'
  <2>1. k.dest \in Nids /\ r \in Rsvrs(x)
    <3>1. k.dest \in Nids BY <1>9 DEF rtmq_node_to_svr_map_rand
    <3>2. \A n \in Nids : DOMAIN map[x][n] = 1 .. Len(map[x][n]) BY DEF BInv, Typed
    <3> QED BY <1>9, <3>1, <3>2 DEF rtmq_node_to_svr_map_rand, BInv, Placed
  <2>2. IsAppend(sendq', sendq, x, r, k, Mesgs) BY <1>2, <1>9, <2>1, QueueAppend, Zenon
  <2>3. DestRight'
    <3>1. \A y \in Ctxs : \A s \in Rsvrs(y) : \A i \in 1 .. Len(sendq[y][s]) : sendq[y][s][i].dest \in Nids
      BY DEF OInv, DestRight
    <3>2. ASSUME NEW y \in Ctxs, NEW s \in Rsvrs(y), NEW i \in 1 .. Len(sendq'[y][s])
          PROVE  sendq'[y][s][i].dest \in Nids
      <4>1. CASE y = x /\ s = r
        <5>1. PICK z \in Nat : z = Len(sendq[x][r]) BY <2>2 DEF IsAppend
        <5>2. Len(sendq'[x][r]) = z + 1 BY <2>2, <5>1 DEF IsAppend
        <5>3. i \in 1 .. z \/ i = z + 1 BY <3>2, <4>1, <5>2
        <5>4. CASE i \in 1 .. z BY <2>2, <3>1, <4>1, <5>1, <5>4 DEF IsAppend
        <5>5. CASE i = z + 1 BY <2>1, <2>2, <4>1, <5>1, <5>5 DEF IsAppend
        <5> QED BY <5>3, <5>4, <5>5
      <4>2. CASE y # x \/ s # r
        <5>1. sendq'[y][s] = sendq[y][s] BY <2>2, <4>2 DEF IsAppend
        <5> QED BY <3>1, <3>2, <5>1
      <4> QED BY <4>1, <4>2
    <3> QED BY <1>0, <3>2 DEF OInv, DestRight
  <2>4. ASSUME NEW m \in Ids \ {0}, NEW g \in Gids PROVE OneWay(g, m)'
    <3>1. OneWay(g, m) BY DEF OInv
    <3>2. \A s \in Rsvrs("backend") : x # "backend" \/ s # r => sendq'["backend"][s] = sendq["backend"][s]
      BY <2>2, BrokerAssumption DEF IsAppend
    <3>3. \A s \in Rsvrs("backend") : x # "backend" \/ s # r =>
             /\ Has(sendq["backend"][s], g, m)' <=> Has(sendq["backend"][s], g, m)
             /\ One(sendq["backend"][s], g, m)' <=> One(sendq["backend"][s], g, m)
      BY <3>2
    <3>4. CASE x # "backend" BY <1>5, <1>6, <1>7, <3>1, <3>3, <3>4 DEF OneWay
    <3>5. CASE x = "backend"
      <4>0. r \in Rsvrs("backend") BY <2>1, <3>5
      <4>1. PICK l \in Seq(Mesgs) : l = sendq["backend"][r] BY <2>2, <3>5 DEF IsAppend
      <4>2. PICK t : t = Append(l, k) OBVIOUS
      <4>3. sendq'["backend"][r] = t BY <2>2, <3>5, <4>1, <4>2 DEF IsAppend
      <4>4. /\ Has(t, g, m) <=> Has(l, g, m) \/ Hit(k, g, m)
            /\ One(l, g, m) /\ ~(Has(l, g, m) /\ Hit(k, g, m)) => One(t, g, m)
        BY <4>2, HasAppend
      <4>5. /\ Has(sendq["backend"][r], g, m)' <=> Has(sendq["backend"][r], g, m) \/ Hit(k, g, m)
            /\ One(sendq["backend"][r], g, m) /\ ~(Has(sendq["backend"][r], g, m) /\ Hit(k, g, m))
                 => One(sendq["backend"][r], g, m)'
        BY <4>1, <4>3, <4>4
      <4>6. CASE ~Hit(k, g, m)
        <5>1. \A s \in Rsvrs("backend") : /\ Has(sendq["backend"][s], g, m)' => Has(sendq["backend"][s], g, m)
                                          /\ One(sendq["backend"][s], g, m) => One(sendq["backend"][s], g, m)'
          BY <3>3, <4>5, <4>6
        <5> QED BY <1>5, <1>6, <1>7, <3>1, <5>1 DEF OneWay
      <4>7. CASE Hit(k, g, m)
        <5>1. Has(distq["backend"], g, m) /\ ~Has(distq["backend"], g, m)' BY <1>7, <3>1, <3>5, <4>7 DEF OneWay
        <5>2. /\ \A s \in Rsvrs("backend") : ~Has(sendq["backend"][s], g, m)
              /\ \A c \in InBack : ~HasC(c, g, m)
              /\ ~Ahead(m)
          BY <3>1, <5>1 DEF OneWay
        <5>3. \A s \in Rsvrs("backend") : s # r => ~Has(sendq["backend"][s], g, m)' BY <3>3, <5>2
        <5>4. \A s \in Rsvrs("backend") : One(sendq["backend"][s], g, m)' BY <3>1, <3>3, <4>0, <4>5, <5>2 DEF OneWay
        <5>5. \A c \in InBack : ~HasC(c, g, m)' /\ OneC(c, g, m)' BY <1>6, <3>1, <5>2 DEF OneWay
        <5>6. One(distq["backend"], g, m)' /\ ~Ahead(m)' BY <1>5, <1>7, <3>1, <5>2 DEF OneWay
        <5> QED BY <5>1, <5>3, <5>4, <5>5, <5>6 DEF OneWay
      <4> QED BY <4>6, <4>7
    <3> QED BY <3>4, <3>5
  <2> QED BY <1>5, <2>3, <2>4 DEF OInv
<1> QED BY <1>4, <1>8, <1>9

\* A message is read from a client and waits for a worker: it is not read again.
LEMMA ExpO ==
    ASSUME BInv, OInv, BInv', UNCHANGED script, NEW c \in Conns, rtmq_rsvr_exp_mesg_proc(c)
    PROVE  OInv'
<1>0. /\ Live(c) /\ conn[c].n < Len(script[c]) /\ Arriving(c).kind = "EXP"
      /\ UNCHANGED <<got, sendq, distq>>
  BY DEF rtmq_rsvr_exp_mesg_proc, Reading
<1>1. PICK h \in Scks : h = conn[c] BY ConnTypes
<1>2. PICK x \in Ctxs : x = CtxOf[c] BY Ranges
<1>3. PICK k \in Mesgs : k = Arriving(c) BY <1>0, ArrivingIs DEF BInv
<1>4. PICK it : it = [mesg |-> k, base |-> h.base] OBVIOUS
<1>5. \E rf : Took(c, h, rf) BY <1>1 DEF rtmq_rsvr_exp_mesg_proc
<1>6. /\ conn'[c].iov = h.iov /\ conn'[c].mesg = h.mesg /\ conn'[c].n = h.n + 1 /\ conn'[c].st = h.st
      /\ \A d \in Conns : d # c => conn'[d] = conn[d]
  BY <1>5, TookLeaves
<1>7. conn[c].n \in Nat /\ conn[c].st # "closed" BY <1>0, ConnTypes DEF Live
<1>8. Quiet(c) BY <1>0, <1>1, <1>6, <1>7 DEF Quiet
<1>9. \/ UNCHANGED recvq
      \/ \E q \in Recvqs : recvq' = [recvq EXCEPT ![x][q] = Append(@, it)]
  BY <1>1, <1>2, <1>3, <1>4 DEF rtmq_rsvr_exp_mesg_proc
<1>10. CASE UNCHANGED recvq BY <1>0, <1>6, <1>8, <1>10, OneQuiet
<1>11. ASSUME NEW q \in Recvqs, recvq' = [recvq EXCEPT ![x][q] = Append(@, it)], x # "forward" PROVE OInv'
  <2>1. recvq'["forward"] = recvq["forward"] BY <1>11, BrokerAssumption DEF BInv, Typed
  <2> QED BY <1>0, <1>6, <1>8, <2>1, OneQuiet
<1>12. ASSUME NEW q \in Recvqs, recvq' = [recvq EXCEPT ![x][q] = Append(@, it)], x = "forward" PROVE OInv'
  <2>1. PICK l \in Seq(Items) : l = recvq["forward"][q] BY <1>2, <1>12 DEF BInv, Typed
  <2>2. PICK z \in Nat : z = Len(l) OBVIOUS
  <2>3. PICK w : w = Append(l, it) OBVIOUS
  <2>4. it \in Items
    <3>1. h.base \in Bufs BY <1>0, <1>1 DEF BInv, AuthRight
    <3> QED BY <1>4, <3>1 DEF Items
  <2>5. Len(w) = z + 1 /\ w[z + 1] = it /\ \A i \in 1 .. z : w[i] = l[i] BY <2>2, <2>3, <2>4
  <2>6. recvq'["forward"][q] = w /\ \A p \in Recvqs : p # q => recvq'["forward"][p] = recvq["forward"][p]
    BY <1>2, <1>12, <2>1, <2>3 DEF BInv, Typed
  <2>7. it.mesg.id = k.id BY <1>4
  <2>8. \A i \in 1 .. z + 1 : i \in 1 .. z \/ i = z + 1 OBVIOUS
  <2>9. PICK n \in Nat : n = h.n + 1 /\ n \in 1 .. Len(script[c]) /\ script[c][n] = k
    <3>1. script[c] \in Seq(Requests) BY ScriptIs DEF BInv
    <3>2. h.n \in Nat /\ h.n < Len(script[c]) BY <1>0, <1>1, <1>7
    <3> QED BY <1>1, <1>3, <3>1, <3>2 DEF Arriving
  <2>10. Unread(c, k.id) BY <1>0, <1>1, <1>2, <1>3, <1>7, <1>12, <2>9 DEF Unread
  <2>11. ASSUME NEW m, NEW d \in Conns PROVE Unread(d, m)' => Unread(d, m)
    <3>1. conn' \in [Conns -> Scks] BY DEF BInv, Typed
    <3>2. conn'[d].st = "closed" \/ (conn[d].st # "closed" /\ conn'[d].n >= conn[d].n)
      <4>1. CASE d = c BY <4>1, <1>8 DEF Quiet
      <4>2. CASE d # c
        <5>1. conn'[d] = conn[d] /\ conn[d].n \in Nat BY <1>6, <4>2, ConnTypes
        <5> QED BY <5>1
      <4> QED BY <4>1, <4>2
    <3> QED BY <3>1, <3>2, QuietUnread
  <2>12. ASSUME k.id # 0, NEW d \in Conns, Unread(d, k.id)' PROVE FALSE
    <3>1. PICK i \in 1 .. Len(script[d]) : i > conn'[d].n /\ script[d][i].kind = "EXP" /\ script[d][i].id = k.id
      BY <2>12 DEF Unread
    <3>2. script \in Scripts /\ script[c] \in Seq(Requests) /\ script[d] \in Seq(Requests)
      <4>1. script \in Scripts BY DEF BInv, Typed
      <4>2. script \in [Conns -> Seq(Requests)] BY <4>1, BrokerAssumption
      <4> QED BY <4>1, <4>2
    <3>3. i \in DOMAIN script[d] /\ n \in DOMAIN script[c] BY <2>9, <3>1, <3>2
    <3>4. script[c][n].kind = "EXP" /\ script[c][n].id = k.id BY <1>0, <1>3, <2>9
    <3>5. c = d /\ n = i BY <2>12, <3>1, <3>2, <3>3, <3>4, MesgAssumption
    <3>6. conn'[c].n = n BY <1>6, <2>9
    <3> QED BY <3>1, <3>5, <3>6
  <2>13. ASSUME NEW m \in Ids \ {0}, NEW p \in Recvqs
         PROVE  Waits(p, m)' => Waits(p, m) \/ (p = q /\ k.id = m)
    <3>1. CASE p # q BY <2>6, <3>1 DEF Waits
    <3>2. CASE p = q
      <4>1. Waits(q, m)' => \E i \in 1 .. z + 1 : w[i].mesg.id = m BY <2>5, <2>6 DEF Waits
      <4>2. Waits(q, m) <=> \E i \in 1 .. z : l[i].mesg.id = m BY <2>1, <2>2 DEF Waits
      <4> QED BY <2>5, <2>7, <2>8, <3>2, <4>1, <4>2
    <3> QED BY <3>1, <3>2
  <2>14. ASSUME NEW m \in Ids \ {0} PROVE OneRead(m)' /\ (Ahead(m)' => Ahead(m))
    <3>1. OneRead(m) BY DEF OInv
    <3>2. Ahead(m)' => Ahead(m) BY <2>10, <2>11, <2>13 DEF Ahead
    <3>3. k.id = m => \A p \in Recvqs : ~Waits(p, m) BY <2>10, <3>1 DEF OneRead
    <3>4. \A p \in Recvqs, d \in Conns : Waits(p, m)' => ~Unread(d, m)'
      BY <2>11, <2>12, <2>13, <3>1 DEF OneRead
    <3>5. ASSUME NEW a \in Recvqs, NEW b \in Recvqs, NEW i \in 1 .. Len(recvq'["forward"][a]),
                 NEW j \in 1 .. Len(recvq'["forward"][b]),
                 recvq'["forward"][a][i].mesg.id = m, recvq'["forward"][b][j].mesg.id = m
          PROVE  a = b /\ i = j
      <4>1. ASSUME NEW p \in Recvqs, NEW e \in 1 .. Len(recvq'["forward"][p]), recvq'["forward"][p][e].mesg.id = m
            PROVE  \/ p = q /\ e = z + 1 /\ k.id = m
                   \/ /\ e \in 1 .. Len(recvq["forward"][p]) /\ recvq["forward"][p][e].mesg.id = m
                      /\ Waits(p, m)
        <5>1. CASE p # q BY <2>6, <4>1, <5>1 DEF Waits
        <5>2. CASE p = q
          <6>1. e \in 1 .. z + 1 /\ w[e].mesg.id = m BY <2>5, <2>6, <4>1, <5>2
          <6>2. CASE e = z + 1 BY <2>5, <2>7, <5>2, <6>1, <6>2
          <6>3. CASE e \in 1 .. z BY <2>1, <2>2, <2>5, <5>2, <6>1, <6>3 DEF Waits
          <6> QED BY <2>8, <6>1, <6>2, <6>3
        <5> QED BY <5>1, <5>2
      <4>2. /\ \/ a = q /\ i = z + 1 /\ k.id = m
               \/ i \in 1 .. Len(recvq["forward"][a]) /\ recvq["forward"][a][i].mesg.id = m /\ Waits(a, m)
            /\ \/ b = q /\ j = z + 1 /\ k.id = m
               \/ j \in 1 .. Len(recvq["forward"][b]) /\ recvq["forward"][b][j].mesg.id = m /\ Waits(b, m)
        BY <3>5, <4>1
      <4>3. CASE k.id = m BY <3>3, <4>2, <4>3
      <4>4. CASE k.id # m BY <3>1, <4>2, <4>4, SMTT(30) DEF OneRead
      <4> QED BY <4>3, <4>4
    <3> QED BY <3>2, <3>4, <3>5 DEF OneRead
  <2>15. DestRight'
    <3>1. \A d \in Conns : Quiet(d) BY <1>0, <1>6, <1>8, SameQuiet
    <3>2. \A d \in Conns : ForC(d)' BY <3>1, QuietFor DEF OInv, DestRight, ForC
    <3> QED BY <1>0, <3>2 DEF OInv, DestRight, ForC
  <2>16. ASSUME NEW m \in Ids \ {0}, NEW g \in Gids PROVE OneWay(g, m)'
    <3>1. OneWay(g, m) BY DEF OInv
    <3>2. \A d \in InBack : (HasC(d, g, m)' => HasC(d, g, m)) /\ (OneC(d, g, m) => OneC(d, g, m)')
      BY <1>0, <1>6, <1>8, SameQuiet, QuietHas DEF InBack
    <3>3. /\ Has(distq["backend"], g, m)' <=> Has(distq["backend"], g, m)
          /\ One(distq["backend"], g, m)' <=> One(distq["backend"], g, m)
      BY <1>0
    <3>4. \A r \in Rsvrs("backend") : /\ Has(sendq["backend"][r], g, m)' <=> Has(sendq["backend"][r], g, m)
                                      /\ One(sendq["backend"][r], g, m)' <=> One(sendq["backend"][r], g, m)
      BY <1>0
    <3> QED BY <2>14, <3>1, <3>2, <3>3, <3>4 DEF OneWay
  <2> QED BY <2>14, <2>15, <2>16 DEF OInv
<1> QED BY <1>9, <1>10, <1>11, <1>12

\* A published message has one copy for a node of a group, at most.
LEMMA PublishOne ==
    ASSUME BInv, NEW k \in Mesgs, NEW D, D \subseteq Gids, NEW pick \in [D -> Conns], NEW o \in Orders(D),
           \A g \in D : CtxOf[pick[g]] = "backend" /\ GidOf[pick[g]] = g,
           NEW ms, ms = rtmq_publish(k, pick, o), NEW g, NEW m
    PROVE  /\ ms \in Seq(Mesgs) /\ One(ms, g, m)
           /\ k.id # m => ~Has(ms, g, m)
<1>1. ms \in Seq(Mesgs) BY PublishIs
<1>2. PICK z \in Nat : z = Len(ms) BY <1>1
<1>3. /\ \A i \in 1 .. z : o[i] \in D /\ ms[i] = [k EXCEPT !.dest = NidOf[pick[o[i]]]]
      /\ \A i, j \in 1 .. z : o[i] = o[j] => i = j
  <2>1. DOMAIN ms = 1 .. z BY <1>1, <1>2
  <2>2. DOMAIN ms = DOMAIN o BY DEF rtmq_publish
  <2>3. o \in [1 .. Cardinality(D) -> D] /\ \A i, j \in DOMAIN o : o[i] = o[j] => i = j BY DEF Orders
  <2>4. \A i \in DOMAIN o : ms[i] = [k EXCEPT !.dest = NidOf[pick[o[i]]]] BY DEF rtmq_publish
  <2> QED BY <2>1, <2>2, <2>3, <2>4
<1>4. \A i \in 1 .. z : ms[i].id = k.id /\ ms[i].dest = NidOf[pick[o[i]]]
  <2> TAKE i \in 1 .. z
  <2>1. PICK n : n = NidOf[pick[o[i]]] OBVIOUS
  <2>2. ms[i] = [k EXCEPT !.dest = n] BY <1>3, <2>1
  <2>3. PICK v : v = [k EXCEPT !.dest = n] OBVIOUS
  <2>4. v.id = k.id /\ v.dest = n BY <2>3 DEF Mesgs
  <2> QED BY <2>1, <2>2, <2>3, <2>4
<1>5. ASSUME NEW i \in 1 .. z, Hit(ms[i], g, m) PROVE o[i] = g /\ k.id = m
  <2>1. NidOf[pick[o[i]]] \in NodesOf(g) /\ k.id = m BY <1>4, <1>5 DEF Hit
  <2>2. PICK d \in Conns : CtxOf[d] = "backend" /\ GidOf[d] = g /\ NidOf[d] = NidOf[pick[o[i]]] BY <2>1 DEF NodesOf
  <2>3. pick[o[i]] \in Conns /\ CtxOf[pick[o[i]]] = "backend" /\ GidOf[pick[o[i]]] = o[i] BY <1>3
  <2>4. GidOf[d] = GidOf[pick[o[i]]] BY <2>2, <2>3, MesgAssumption
  <2> QED BY <2>1, <2>2, <2>3, <2>4
<1>6. One(ms, g, m) BY <1>2, <1>3, <1>5 DEF One
<1>7. k.id # m => ~Has(ms, g, m) BY <1>2, <1>5 DEF Has
<1> QED BY <1>1, <1>6, <1>7

\* What rtmq_async_send puts into distq is a part of what it was given.
LEMMA AsyncOne ==
    ASSUME NEW l \in Seq(Mesgs), Len(l) <= DistqMax, NEW ms \in Seq(Mesgs), NEW t, t = rtmq_async_send(l, ms),
           NEW g, NEW m
    PROVE  /\ Has(t, g, m) => Has(l, g, m) \/ Has(ms, g, m)
           /\ One(l, g, m) /\ One(ms, g, m) /\ ~(Has(l, g, m) /\ Has(ms, g, m)) => One(t, g, m)
<1>1. PICK a \in Nat, b \in Nat, z \in Nat : a = Len(l) /\ b = Len(ms) /\ z = DistqMax
  BY BrokerAssumption
<1>2. MIN(DistqMax - Len(l), Len(ms)) = IF z - a < b THEN z - a ELSE b BY <1>1 DEF MIN
<1>3. (IF z - a < b THEN z - a ELSE b) \in 0 .. b BY <1>1
<1>4. PICK e \in 0 .. Len(ms) : e = MIN(DistqMax - Len(l), Len(ms)) BY <1>1, <1>2, <1>3
<1>5. PICK s : s = SubSeq(ms, 1, e) OBVIOUS
<1>6. PICK u : u = SubSeq(ms, e + 1, Len(ms)) OBVIOUS
<1>7. s \in Seq(Mesgs) /\ u \in Seq(Mesgs) /\ ms = s \o u BY <1>5, <1>6, SplitAt
<1>8. t = l \o s BY <1>4, <1>5 DEF rtmq_async_send
<1>9. Joined(t, l, s, g, m) BY <1>7, <1>8, HasConcat
<1>10. Joined(ms, s, u, g, m) BY <1>7, HasConcat
<1> QED BY ONLY <1>9, <1>10 DEF Joined

\* What comes from a worker's queue is published, and is nowhere else.
LEMMA WorkerO ==
    ASSUME BInv, OInv, BInv', UNCHANGED script, NEW x \in Ctxs, NEW q \in Recvqs, rtmq_worker_proc(x, q)
    PROVE  OInv'
<1>0. UNCHANGED <<conn, got, sendq>> BY DEF rtmq_worker_proc
<1>1. recvq[x][q] # <<>> /\ recvq' = [recvq EXCEPT ![x][q] = Tail(@)] BY DEF rtmq_worker_proc
<1>2. /\ recvq \in [Ctxs -> [Recvqs -> Seq(Items)]] /\ distq \in [Ctxs -> Seq(Mesgs)]
      /\ "backend" \in Ctxs /\ "forward" \in Ctxs
  BY BrokerAssumption DEF BInv, Typed
<1>3. CASE x # "forward"
  <2>1. x = "backend" BY <1>3, BrokerAssumption
  <2>2. recvq'["forward"] = recvq["forward"] BY <1>1, <1>2, <1>3
  <2>3. distq'["backend"] = distq["backend"]
    BY <1>2, <2>1 DEF rtmq_worker_proc, frwd_mesg_from_bc_def_hdl
  <2>4. DestRight' BY <1>0 DEF OInv, DestRight
  <2>5. \A m : OneRead(m)' <=> OneRead(m) BY <1>0, <2>2 DEF OneRead, Waits, Unread
  <2>6. \A m : Ahead(m)' <=> Ahead(m) BY <1>0, <2>2 DEF Ahead, Waits, Unread
  <2>7. \A g, m : OneWay(g, m)' <=> OneWay(g, m) BY <1>0, <2>3, <2>6 DEF OneWay, HasC, OneC
  <2> QED BY <2>4, <2>5, <2>7 DEF OInv
<1>4. CASE x = "forward"
  <2>1. PICK l \in Seq(Items) : l = recvq["forward"][q] BY <1>2, <1>4
  <2>2. l # <<>> BY <1>1, <1>4, <2>1
  <2>3. PICK z \in Nat : z = Len(l) /\ z >= 1 BY <2>2
  <2>4. PICK w : w = Tail(l) OBVIOUS
  <2>5. /\ Len(w) = z - 1 /\ Head(l) = l[1] /\ Head(l) \in Items /\ \A i \in 1 .. z - 1 : w[i] = l[i + 1]
    BY <2>2, <2>3, <2>4
  <2>6. \A i \in 1 .. z - 1 : i + 1 \in 1 .. z BY <2>3
  <2>7. 1 \in 1 .. z BY <2>3
  <2>8. recvq'["forward"][q] = w /\ \A p \in Recvqs : p # q => recvq'["forward"][p] = recvq["forward"][p]
    BY <1>1, <1>2, <1>4, <2>1, <2>4
  <2>9. PICK k \in Mesgs : k = Head(l).mesg BY <2>5 DEF Items
  <2>10. frwd_mesg_from_fw_def_hdl(k) BY <1>4, <2>1, <2>9 DEF rtmq_worker_proc
  <2> DEFINE Was(p, e) == IF p = q THEN e + 1 ELSE e
  <2>11. ASSUME NEW p \in Recvqs, NEW e \in 1 .. Len(recvq'["forward"][p])
         PROVE  /\ Was(p, e) \in 1 .. Len(recvq["forward"][p])
                /\ recvq["forward"][p][Was(p, e)] = recvq'["forward"][p][e]
                /\ p = q => e \in 1 .. z - 1
    <3>1. CASE p = q
      <4>1. e \in 1 .. z - 1 BY <2>5, <2>8, <3>1
      <4> QED BY <2>1, <2>3, <2>5, <2>6, <2>8, <3>1, <4>1
    <3>2. CASE p # q BY <2>8, <3>2
    <3> QED BY <3>1, <3>2
  <2> HIDE DEF Was
  <2>12. ASSUME NEW m \in Ids \ {0} PROVE OneRead(m)' /\ (Ahead(m)' => Ahead(m) /\ m # k.id)
    <3>1. OneRead(m) BY DEF OInv
    <3>2. \A p \in Recvqs : Waits(p, m)' => Waits(p, m)
      <4> SUFFICES ASSUME NEW p \in Recvqs, NEW e \in 1 .. Len(recvq'["forward"][p]), recvq'["forward"][p][e].mesg.id = m
                   PROVE  Waits(p, m)
        BY DEF Waits
      <4>1. Was(p, e) \in 1 .. Len(recvq["forward"][p]) /\ recvq["forward"][p][Was(p, e)].mesg.id = m BY <2>11
      <4> QED BY <4>1 DEF Waits
    <3>3. \A d \in Conns : Unread(d, m)' <=> Unread(d, m) BY <1>0 DEF Unread
    <3>4. ASSUME NEW a \in Recvqs, NEW b \in Recvqs, NEW i \in 1 .. Len(recvq'["forward"][a]),
                 NEW j \in 1 .. Len(recvq'["forward"][b]),
                 recvq'["forward"][a][i].mesg.id = m, recvq'["forward"][b][j].mesg.id = m
          PROVE  a = b /\ i = j
      <4>1. /\ Was(a, i) \in 1 .. Len(recvq["forward"][a]) /\ recvq["forward"][a][Was(a, i)].mesg.id = m
            /\ Was(b, j) \in 1 .. Len(recvq["forward"][b]) /\ recvq["forward"][b][Was(b, j)].mesg.id = m
            /\ a = q => i \in 1 .. z - 1
            /\ b = q => j \in 1 .. z - 1
        BY <2>11, <3>4
      <4>2. a = b /\ Was(a, i) = Was(b, j) BY <3>1, <4>1 DEF OneRead
      <4>3. CASE a = q
        <5>1. i + 1 = j + 1 BY <4>2, <4>3 DEF Was
        <5> QED BY <4>1, <4>2, <4>3, <5>1
      <4>4. CASE a # q BY <4>2, <4>4 DEF Was
      <4> QED BY <4>3, <4>4
    <3>5. OneRead(m)'
      <4>1. \A a, b \in Recvqs : \A i \in 1 .. Len(recvq'["forward"][a]), j \in 1 .. Len(recvq'["forward"][b]) :
               recvq'["forward"][a][i].mesg.id = m /\ recvq'["forward"][b][j].mesg.id = m => a = b /\ i = j
        BY <3>4
      <4>2. \A p \in Recvqs, d \in Conns : Waits(p, m)' => ~Unread(d, m)' BY <3>1, <3>2, <3>3 DEF OneRead
      <4> QED BY <4>1, <4>2 DEF OneRead
    <3>6. Ahead(m)' => Ahead(m) BY <3>2, <3>3 DEF Ahead
    <3>7. ASSUME m = k.id, Ahead(m)' PROVE FALSE
      <4>1. 1 \in 1 .. Len(recvq["forward"][q]) /\ recvq["forward"][q][1].mesg.id = m
        BY <2>1, <2>3, <2>5, <2>7, <2>9, <3>7
      <4>2. Waits(q, m) BY <4>1 DEF Waits
      <4>3. ASSUME NEW d \in Conns, Unread(d, m)' PROVE FALSE BY <3>1, <3>3, <4>2, <4>3 DEF OneRead
      <4>4. ASSUME NEW p \in Recvqs, Waits(p, m)' PROVE FALSE
        <5>1. PICK e \in 1 .. Len(recvq'["forward"][p]) : recvq'["forward"][p][e].mesg.id = m BY <4>4 DEF Waits
        <5>2. /\ Was(p, e) \in 1 .. Len(recvq["forward"][p]) /\ recvq["forward"][p][Was(p, e)].mesg.id = m
              /\ p = q => e \in 1 .. z - 1
          BY <2>11, <5>1
        <5>3. p = q /\ Was(p, e) = 1 BY <3>1, <4>1, <5>2 DEF OneRead
        <5>4. e + 1 = 1 /\ e \in 1 .. z - 1 BY <5>2, <5>3 DEF Was
        <5> QED BY <5>4
      <4> QED BY <3>7, <4>3, <4>4 DEF Ahead
    <3> QED BY <3>5, <3>6, <3>7
  <2>13. ASSUME NEW m \in Ids \ {0}, m = k.id PROVE Ahead(m)
    <3>1. Waits(q, m) BY <2>1, <2>3, <2>5, <2>7, <2>9, <2>13 DEF Waits
    <3> QED BY <3>1 DEF Ahead
  <2>14. ASSUME NEW m \in Ids \ {0}, NEW g \in Gids
         PROVE  /\ One(distq["backend"], g, m) /\ (m = k.id => ~Has(distq["backend"], g, m)) => One(distq["backend"], g, m)'
                /\ Has(distq["backend"], g, m)' => Has(distq["backend"], g, m) \/ m = k.id
    <3>1. CASE UNCHANGED distq BY <3>1
    <3>2. CASE k.type \in DOMAIN sub["backend"]
      <4> DEFINE D == DOMAIN sub["backend"][k.type]
      <4>1. IsGroups(sub["backend"][k.type]) /\ k.type \in Types BY <1>2, <3>2 DEF BInv, Typed, IsTab
      <4>2. D \subseteq Gids BY <4>1 DEF IsGroups
      <4>3. PICK pick \in [D -> Conns], o \in Orders(D) :
              /\ \A h \in D : pick[h] \in sub["backend"][k.type][h]
              /\ distq' = [distq EXCEPT !["backend"] = rtmq_async_send(@, rtmq_publish(k, pick, o))]
        BY <2>10, <3>2 DEF frwd_mesg_from_fw_def_hdl
      <4>4. \A h \in D : CtxOf[pick[h]] = "backend" /\ GidOf[pick[h]] = h
        <5> TAKE h \in D
        <5>1. h \in Gids /\ pick[h] \in sub["backend"][k.type][h] BY <4>2, <4>3
        <5>2. pick[h] \in {c \in Conns : /\ Live(c) /\ CtxOf[c] = "backend" /\ conn[c].auth
                                         /\ conn[c].gid = h /\ k.type \in conn[c].subs}
          BY <1>2, <3>2, <4>1, <5>1 DEF BInv, SubsAgree
        <5> QED BY <5>2 DEF BInv, AuthRight
      <4> HIDE DEF D
      <4>5. PICK ms : ms = rtmq_publish(k, pick, o) OBVIOUS
      <4>6. ms \in Seq(Mesgs) /\ One(ms, g, m) /\ (k.id # m => ~Has(ms, g, m)) BY <4>2, <4>4, <4>5, PublishOne
      <4>7. PICK v \in Seq(Mesgs) : v = distq["backend"] /\ Len(v) <= DistqMax BY <1>2 DEF BInv, Within
      <4>8. PICK t : t = rtmq_async_send(v, ms) OBVIOUS
      <4>9. distq'["backend"] = t BY <1>2, <4>3, <4>5, <4>7, <4>8
      <4>10. /\ Has(t, g, m) => Has(v, g, m) \/ Has(ms, g, m)
             /\ One(v, g, m) /\ One(ms, g, m) /\ ~(Has(v, g, m) /\ Has(ms, g, m)) => One(t, g, m)
        BY <4>6, <4>7, <4>8, AsyncOne
      <4> QED BY <4>6, <4>7, <4>9, <4>10
    <3> QED BY <2>10, <3>1, <3>2 DEF frwd_mesg_from_fw_def_hdl
  <2>15. DestRight' BY <1>0 DEF OInv, DestRight
  <2>16. ASSUME NEW m \in Ids \ {0}, NEW g \in Gids PROVE OneWay(g, m)'
    <3>1. OneWay(g, m) BY DEF OInv
    <3>2. \A d \in InBack : (HasC(d, g, m)' <=> HasC(d, g, m)) /\ (OneC(d, g, m)' <=> OneC(d, g, m))
      BY <1>0 DEF HasC, OneC
    <3>3. \A r \in Rsvrs("backend") : /\ Has(sendq["backend"][r], g, m)' <=> Has(sendq["backend"][r], g, m)
                                      /\ One(sendq["backend"][r], g, m)' <=> One(sendq["backend"][r], g, m)
      BY <1>0
    <3>4. CASE m = k.id
      <4>1. Ahead(m) /\ ~Ahead(m)' BY <2>12, <2>13, <3>4
      <4>2. /\ ~Has(distq["backend"], g, m)
            /\ \A r \in Rsvrs("backend") : ~Has(sendq["backend"][r], g, m)
            /\ \A d \in InBack : ~HasC(d, g, m)
        BY <3>1, <4>1 DEF OneWay
      <4>3. One(distq["backend"], g, m)' BY <2>14, <3>1, <4>2 DEF OneWay
      <4> QED BY <3>1, <3>2, <3>3, <4>1, <4>2, <4>3 DEF OneWay
    <3>5. CASE m # k.id BY <2>12, <2>14, <3>1, <3>2, <3>3, <3>5 DEF OneWay
    <3> QED BY <3>4, <3>5
  <2> QED BY <2>12, <2>15, <2>16 DEF OInv
<1> QED BY <1>3, <1>4

-----------------------------------------------------------------------------
LEMMA InitO ==
    ASSUME Init
    PROVE  OInv
<1>1. BInv BY InitB
<1>2. /\ \A c \in Conns : got[c] = <<>> /\ conn[c].iov = <<>> /\ conn[c].mesg = <<>>
      /\ distq["backend"] = <<>>
      /\ \A x \in Ctxs : \A r \in Rsvrs(x) : sendq[x][r] = <<>>
      /\ \A q \in Recvqs : recvq["forward"][q] = <<>>
  <2>1. "backend" \in Ctxs /\ "forward" \in Ctxs BY BrokerAssumption
  <2>2. \A c \in Conns : conn[c].iov = <<>> /\ conn[c].mesg = <<>>
    <3> DEFINE f == CHOOSE f \in [Up -> Bufs] : \A c, d \in Up : f[c] = f[d] => c = d
    <3>1. conn = [c \in Conns |-> IF c \notin Up THEN FreshSck ELSE
                      [FreshSck EXCEPT !.st = "live", !.nid = NidOf[c], !.gid = GidOf[c],
                                       !.auth = TRUE, !.base = f[c]]]
      BY Zenon DEF Init
    <3> HIDE DEF f
    <3> QED BY <3>1 DEF FreshSck
  <2>3. \A c \in Conns : got[c] = <<>> BY DEF Init
  <2>4. distq["backend"] = <<>> BY <2>1 DEF Init
  <2>5. \A x \in Ctxs : \A r \in Rsvrs(x) : sendq[x][r] = <<>> BY DEF Init, EmptyQueues
  <2>6. \A q \in Recvqs : recvq["forward"][q] = <<>> BY <2>1 DEF Init
  <2> QED BY <2>2, <2>3, <2>4, <2>5, <2>6
<1>3. DestRight
  <2>1. \A c \in Conns : For(got[c], NidOf[c]) /\ For(conn[c].iov, NidOf[c]) /\ For(conn[c].mesg, NidOf[c])
    BY <1>2, ForNone
  <2>2. \A x \in Ctxs : \A r \in Rsvrs(x) : \A i \in 1 .. Len(sendq[x][r]) : sendq[x][r][i].dest \in Nids
    BY <1>2
  <2> QED BY <2>1, <2>2 DEF DestRight
<1>4. ASSUME NEW m \in Ids \ {0} PROVE OneRead(m) BY <1>2 DEF OneRead, Waits
<1>5. ASSUME NEW m \in Ids \ {0}, NEW g \in Gids PROVE OneWay(g, m)
  <2>1. "backend" \in Ctxs BY BrokerAssumption
  <2>2. ~Has(distq["backend"], g, m) /\ One(distq["backend"], g, m) BY <1>2, HasNone
  <2>3. \A r \in Rsvrs("backend") : ~Has(sendq["backend"][r], g, m) /\ One(sendq["backend"][r], g, m)
    BY <1>2, <2>1, HasNone
  <2>4. \A c \in InBack : ~HasC(c, g, m) /\ OneC(c, g, m) BY <1>2, HasNone DEF HasC, OneC, InBack
  <2> QED BY <2>2, <2>3, <2>4 DEF OneWay
<1> QED BY <1>3, <1>4, <1>5 DEF OInv

LEMMA ConnStepO ==
    ASSUME BInv, OInv, BInv', UNCHANGED script, NEW c \in Conns, ConnStep(c)
    PROVE  OInv'
<1>1. CASE rtmq_lsn_accept(c) BY <1>1, AcceptO
<1>2. CASE rtmq_rsvr_set_rdset(c) BY <1>2, DelO DEF rtmq_rsvr_set_rdset
<1>3. CASE rtmq_rsvr_event_timeout_hdl(c) BY <1>3, DelO DEF rtmq_rsvr_event_timeout_hdl
<1>4. CASE rtmq_rsvr_recv_eof(c) BY <1>4, DelO DEF rtmq_rsvr_recv_eof
<1>5. CASE rtmq_rsvr_link_auth_req_hdl(c) BY <1>5, AuthO
<1>6. CASE rtmq_rsvr_keepalive_req_hdl(c) BY <1>6, KeepaliveO
<1>7. CASE rtmq_rsvr_exp_mesg_proc(c) BY <1>7, ExpO
<1>8. CASE rtmq_sub_add_query(c) BY <1>8, SubO
<1>9. CASE rtmq_sub_add_insert(c) BY <1>9, SubO
<1>10. CASE rtmq_rsvr_trav_send(c)
  <2>1. CASE conn[c].peer BY <1>10, <2>1, SendO
  <2>2. CASE ~conn[c].peer BY <1>10, <2>2, DelO DEF rtmq_rsvr_trav_send
  <2> QED BY <2>1, <2>2
<1> QED BY <1>1, <1>2, <1>3, <1>4, <1>5, <1>6, <1>7, <1>8, <1>9, <1>10 DEF ConnStep

LEMMA NextO ==
    ASSUME BInv, OInv, BInv', [Next]_vars
    PROVE  OInv'
<1>1. CASE UNCHANGED vars
  <2>1. UNCHANGED <<script, conn, got, distq, sendq, recvq>> BY <1>1 DEF vars
  <2>2. \A c \in Conns : Quiet(c) BY <2>1, SameQuiet
  <2>3. conn' \in [Conns -> Scks] BY DEF BInv, Typed
  <2> QED BY <2>1, <2>2, <2>3, Calm
<1>2. CASE Next
  <2>1. UNCHANGED script BY <1>2 DEF Next
  <2>2. ASSUME NEW c \in Conns, ClientClose(c) \/ ConnStep(c) PROVE OInv'
    BY <2>1, <2>2, ClientCloseO, ConnStepO
  <2>3. ASSUME NEW x \in Ctxs, NEW r \in Rsvrs(x), rtmq_rsvr_add_conn_hdl(x, r) \/ rtmq_rsvr_dist_data(x, r) PROVE OInv'
    BY <2>1, <2>3, AddConnO, DistO
  <2>4. ASSUME NEW x \in Ctxs, rtmq_worker_routine(x) PROVE OInv'
    BY <2>1, <2>4, WorkerO DEF rtmq_worker_routine
  <2>5. ASSUME NEW x \in Ctxs, rtmq_dsvr_routine(x) PROVE OInv'
    BY <2>1, <2>5, DsvrO DEF rtmq_dsvr_routine
  <2>6. ASSUME Tick PROVE OInv' BY <2>1, <2>6, TickO
  <2> QED BY <1>2, <2>2, <2>3, <2>4, <2>5, <2>6 DEF Next
<1> QED BY <1>1, <1>2

LEMMA OnceO ==
    ASSUME BInv, OInv
    PROVE  OncePerGroup
<1>0. \A c \in Conns : got[c] \in Seq(Mesgs) /\ DOMAIN got[c] = 1 .. Len(got[c])
  <2> TAKE c \in Conns
  <2>1. got[c] \in Seq(Mesgs) BY ConnTypes
  <2> QED BY <2>1
<1>1. \A c \in Conns : \A i \in DOMAIN got[c] : got[c][i].id # 0 => got[c][i].dest = NidOf[c]
  BY <1>0 DEF OInv, DestRight, For
<1>2. ASSUME NEW g \in Gids, NEW m \in Ids \ {0}
      PROVE  Cardinality({p \in UNION {{c} \X DOMAIN got[c] : c \in Conns} :
                /\ CtxOf[p[1]] = "backend" /\ GidOf[p[1]] = g
                /\ got[p[1]][p[2]].id = m}) <= 1
  <2> DEFINE S == {p \in UNION {{c} \X DOMAIN got[c] : c \in Conns} :
                      /\ CtxOf[p[1]] = "backend" /\ GidOf[p[1]] = g
                      /\ got[p[1]][p[2]].id = m}
  <2>1. OneWay(g, m) BY DEF OInv
  <2>2. ASSUME NEW p \in S
        PROVE  \E c \in InBack : \E i \in 1 .. Len(got[c]) : p = <<c, i>> /\ Hit(got[c][i], g, m)
    <3>1. PICK c \in Conns : p \in {c} \X DOMAIN got[c] BY <2>2
    <3>2. PICK i \in DOMAIN got[c] : p = <<c, i>> BY <3>1
    <3>3. p[1] = c /\ p[2] = i BY <3>2
    <3>4. CtxOf[c] = "backend" /\ GidOf[c] = g /\ got[c][i].id = m BY <2>2, <3>3
    <3>5. got[c][i].dest = NidOf[c] BY <1>1, <3>4
    <3>6. Hit(got[c][i], g, m) BY <3>4, <3>5 DEF Hit, NodesOf
    <3> QED BY <1>0, <3>2, <3>4, <3>6 DEF InBack
  <2>3. ASSUME NEW p \in S, NEW r \in S PROVE p = r
    <3>1. PICK c \in InBack : \E i \in 1 .. Len(got[c]) : p = <<c, i>> /\ Hit(got[c][i], g, m) BY <2>2
    <3>2. PICK d \in InBack : \E i \in 1 .. Len(got[d]) : r = <<d, i>> /\ Hit(got[d][i], g, m) BY <2>2
    <3>3. HasC(c, g, m) /\ HasC(d, g, m) BY <3>1, <3>2 DEF HasC, Has
    <3>4. c = d /\ One(got[c], g, m) BY <2>1, <3>3 DEF OneWay, OneC
    <3> QED BY <3>1, <3>2, <3>4 DEF One
  <2> HIDE DEF S
  <2>4. Cardinality(S) <= 1
    <3>1. CASE S = {} BY <3>1, FS_EmptySet
    <3>2. CASE S # {}
      <4>1. PICK p : p \in S BY <3>2
      <4>2. S = {p} BY <2>3, <4>1
      <4>3. Cardinality(S) = 1 BY <4>2, FS_Singleton
      <4> QED BY <4>3
    <3> QED BY <3>1, <3>2
  <2> QED BY <2>4 DEF S
<1> QED BY <1>1, <1>2 DEF OncePerGroup

(* OncePerGroup, of rtmq_publish, rtmq_dsvr_dist_data_hdl and               *)
(* rtmq_rsvr_dist_data: whatever connections come and go, and whatever the  *)
(* receivers, the workers and the distributor do in between, a group gets a  *)
(* published message at most once, and a client only what is addressed to   *)
(* its node.                                                                *)
THEOREM OneCopyPerGroup == Spec => []OncePerGroup
<1>1. Init => OInv BY InitO
<1>2. BInv /\ OInv /\ BInv' /\ [Next]_vars => OInv' BY NextO
<1>3. BInv /\ OInv => OncePerGroup BY OnceO
<1>4. Spec => []BInv BY BrokerInvariant
<1> QED BY <1>1, <1>2, <1>3, <1>4, PTL DEF Spec

=============================================================================
