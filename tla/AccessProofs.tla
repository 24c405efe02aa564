---------------------------- MODULE AccessProofs ----------------------------
(***************************************************************************)
(* Theorems about Access, for any number of clients, receivers and          *)
(* listeners, any limits of the queues and the pipe and any scene.          *)
(*                                                                         *)
(* AInv says of one connection (ConnOk) that a receive buffer is counted    *)
(* exactly while the connection is live and in the middle of a packet; of   *)
(* the listeners (Accepts) that a CID held before connq is nobody else's;   *)
(* of the queues what is in them and their limits; of one receiver (LoopOk) *)
(* that the batch names live connections of this receiver, none of them     *)
(* twice, that the kick list does, and that acc_rsvr_kick_clean is due      *)
(* while a batch is in hand.  That no connection is twice in a batch is why *)
(* handling one event, which may free its socket, leaves the rest of the    *)
(* batch valid; Owned, that kickq holds CIDs of its own receiver, is why a  *)
(* receiver never kicks a connection that another one's batch names.        *)
(***************************************************************************)
EXTENDS Access, SequenceTheorems, FiniteSetTheorems, TLAPS

Commands == {"ADD_SCK", "DIST_DATA", "KICK_CONN"}
Events == [c : 0 .. MaxCid, in : BOOLEAN, out : BOOLEAN]
ConnFields == {"st", "peer", "n", "in", "phase", "addr", "ref", "head", "mask",
               "rdy", "full", "list", "cur", "off", "rd", "wr"}

(* A connection: recv->addr is set, and the buffer counted, while the phase  *)
(* is not INIT, which only a live connection can be in.                      *)
ConnOk(s) ==
    /\ DOMAIN s = ConnFields
    /\ s.st \in {"none", "queued", "live", "gone"}
    /\ s.phase \in {"INIT", "HEAD", "BODY"}
    /\ s.mask \subseteq {"IN", "OUT"} /\ s.off \in 0 .. 1
    /\ s.addr \in BOOLEAN /\ (s.addr <=> s.phase # "INIT") /\ (s.addr => s.st = "live")
    /\ s.ref = IF s.addr THEN 1 ELSE 0

Conns == DOMAIN conn = Cids /\ \A c \in Cids : ConnOk(conn[c])

(* A listener between accept and connq holds a CID that nobody knows of.     *)
Accepts ==
    /\ cid \in Nat /\ backlog \in Nat /\ cid + backlog = scene.clients
    /\ lsvr \in [Lsvrs -> [pc : {"wait", "queue", "note"}, c : Nat]]
    /\ \A l \in Lsvrs : lsvr[l].pc = "queue" => lsvr[l].c \in 1 .. cid /\ conn[lsvr[l].c].st = "none"
    /\ \A l, k \in Lsvrs : lsvr[l].pc = "queue" /\ lsvr[k].pc = "queue" /\ l # k => lsvr[l].c # lsvr[k].c
    /\ \A c \in Cids : c > cid => conn[c].st = "none"

(* What is in connq has left its listener. *)
Queued == \A r \in Rsvrs : \A i \in DOMAIN connq[r] : conn[connq[r][i]].st # "none"

(* What is in kickq belongs to its receiver. *)
Owned == \A r \in Rsvrs : \A i \in DOMAIN kickq[r] : ACC_GET_RID_BY_CID(kickq[r][i]) = r

Queues ==
    /\ connq \in [Rsvrs -> Seq(Cids)] /\ sendq \in [Rsvrs -> Seq(ToSet(scene.calls))]
    /\ kickq \in [Rsvrs -> Seq(Cids)] /\ kickfree \in [Rsvrs -> 0 .. KickqMax]
    /\ cmd \in [Rsvrs -> Seq(Commands)]
    /\ \A r \in Rsvrs : /\ Len(connq[r]) <= ConnqMax /\ Len(sendq[r]) <= SendqMax
                        /\ Len(kickq[r]) + kickfree[r] <= KickqMax /\ Len(cmd[r]) <= PipeMax
    /\ app \in [n : 0 .. Len(scene.calls), note : {<<>>} \cup (Rsvrs \X Commands)]

(* What the batch and the kick list of a receiver name. *)
Mine(r, c) == Live(c) /\ ACC_GET_RID_BY_CID(c) = r
LoopOk(r) ==
    /\ \A i \in DOMAIN batch[r] : batch[r][i].c # 0 => Mine(r, batch[r][i].c)
    /\ \A i, j \in DOMAIN batch[r] : batch[r][i].c # 0 /\ i # j => batch[r][i].c # batch[r][j].c
    /\ \A c \in kick[r] : Mine(r, c)
    /\ batch[r] # <<>> => clean[r]
    /\ batch[r] = <<>> /\ ~clean[r] => kick[r] = {}
Loops ==
    /\ batch \in [Rsvrs -> Seq(Events)] /\ clean \in [Rsvrs -> BOOLEAN]
    /\ kick \in [Rsvrs -> SUBSET Cids]
    /\ \A r \in Rsvrs : LoopOk(r)

AInv == scene \in Scenes /\ Conns /\ Accepts /\ Queued /\ Queues /\ Loops

-----------------------------------------------------------------------------
(* What the operators on a connection do to it. *)

(* A connection whose status the listener sets. *)
StIs(s, v) == [s EXCEPT !.st = v]

(* Setting the status keeps a connection right that has no buffer. *)
LEMMA StIsOk ==
    ASSUME NEW s, ConnOk(s), NEW v \in {"queued", "live", "gone"}, s.st # "live" \/ v = "live"
    PROVE  ConnOk(StIs(s, v)) /\ StIs(s, v).st = v
BY DEF ConnOk, ConnFields, StIs

(* epoll_ctl changes neither the status nor the buffer. *)
LEMMA ArmOk ==
    ASSUME NEW s, ConnOk(s), NEW m, m \subseteq {"IN", "OUT"}
    PROVE  ConnOk(EpollArm(s, m)) /\ EpollArm(s, m).st = s.st
BY DEF ConnOk, ConnFields, EpollArm

(* Allocating the buffer counts it, once. *)
LEMMA AllocatedOk ==
    ASSUME NEW s, ConnOk(s), s.st = "live"
    PROVE  /\ ConnOk(Allocated(s)) /\ Allocated(s).st = "live" /\ Allocated(s).addr
<1>1. CASE s.phase = "INIT"
  <2> DEFINE t == [s EXCEPT !.phase = "HEAD", !.addr = TRUE, !.ref = @ + 1]
  <2>1. /\ DOMAIN t = ConnFields /\ t.st = "live" /\ t.phase = "HEAD" /\ t.addr = TRUE
        /\ t.mask = s.mask /\ t.off = s.off
    BY DEF ConnOk, ConnFields
  <2>2. t.ref = 1
    BY <1>1 DEF ConnOk, ConnFields
  <2>3. Allocated(s) = t
    BY <1>1 DEF Allocated
  <2> HIDE DEF t
  <2> QED BY <2>1, <2>2, <2>3 DEF ConnOk
<1>2. CASE s.phase # "INIT"
  BY <1>2 DEF ConnOk, Allocated
<1> QED BY <1>1, <1>2

(* A packet that was handed up leaves the connection without a buffer. *)
LEMMA ReleasedOk ==
    ASSUME NEW s, ConnOk(s), s.addr
    PROVE  /\ ConnOk([Released(s) EXCEPT !.phase = "INIT"])
           /\ [Released(s) EXCEPT !.phase = "INIT"].st = s.st
BY DEF ConnOk, ConnFields, Released

(* acc_rsvr_del_conn releases the buffer if there is one. *)
LEMMA DeletedOk ==
    ASSUME NEW s, ConnOk(s)
    PROVE  ConnOk(acc_rsvr_del_conn(s)) /\ acc_rsvr_del_conn(s).st = "gone"
BY DEF ConnOk, ConnFields, acc_rsvr_del_conn, Fresh

(* The error paths of acc_recv_data release it once: recv->addr is cleared.  *)
LEMMA FailedOk ==
    ASSUME NEW s, ConnOk(s), s.addr
    PROVE  ConnOk(acc_rsvr_del_conn(Released(s))) /\ acc_rsvr_del_conn(Released(s)).st = "gone"
BY DEF ConnOk, ConnFields, acc_rsvr_del_conn, Fresh, Released

(* Fields that ConnOk does not look at. *)
Same(s, t) ==
    /\ DOMAIN t = DOMAIN s /\ t.st = s.st /\ t.phase = s.phase /\ t.mask = s.mask /\ t.off = s.off
    /\ t.addr = s.addr /\ t.ref = s.ref

LEMMA SameOk ==
    ASSUME NEW s, NEW t, ConnOk(s), Same(s, t)
    PROVE  ConnOk(t) /\ t.st = s.st
BY DEF ConnOk, Same

LEMMA OthersSame ==
    ASSUME NEW s, ConnOk(s), NEW v, NEW w
    PROVE  /\ Same(s, [s EXCEPT !.rdy = v]) /\ Same(s, [s EXCEPT !.in = v])
           /\ Same(s, [s EXCEPT !.list = v]) /\ Same(s, [s EXCEPT !.wr = v])
           /\ Same(s, [s EXCEPT !.full = v]) /\ Same(s, [s EXCEPT !.peer = v])
           /\ Same(s, [s EXCEPT !.cur = v]) /\ Same(s, [s EXCEPT !.rd = v, !.wr = w])
           /\ Same(s, [s EXCEPT !.n = v, !.in = w])
BY DEF ConnOk, ConnFields, Same

-----------------------------------------------------------------------------
(* What the assumption and the receiver of a CID come to. *)

LEMMA Limits ==
    /\ MaxCid \in Nat /\ ConnqMax \in Nat /\ SendqMax \in Nat /\ KickqMax \in Nat /\ PipeMax \in Nat
BY AccessAssumption

LEMMA SceneFacts ==
    ASSUME scene \in Scenes
    PROVE  /\ scene.rsvrs \in Nat /\ scene.rsvrs > 0
           /\ scene.clients \in Nat /\ scene.clients <= MaxCid
           /\ scene.lsvrs \subseteq Lsvrs
           /\ scene.calls \in Seq(ToSet(scene.calls))
           /\ \A i \in DOMAIN scene.calls : scene.calls[i].c \in Cids
BY AccessAssumption

LEMMA RidFacts ==
    ASSUME scene \in Scenes, NEW c \in Nat
    PROVE  ACC_GET_RID_BY_CID(c) \in Rsvrs
BY SceneFacts DEF ACC_GET_RID_BY_CID, Rsvrs

LEMMA CidsFacts == \A c : c \in Cids <=> c \in Nat /\ c >= 1 /\ c <= MaxCid
BY Limits DEF Cids

-----------------------------------------------------------------------------
(* Init. *)

LEMMA FreshOk == ConnOk(Fresh) /\ Fresh.st = "none"
BY DEF ConnOk, ConnFields, Fresh

LEMMA InitHolds == Init => AInv
<1> SUFFICES ASSUME Init PROVE AInv
  OBVIOUS
<1>1. scene \in Scenes
  BY DEF Init
<1>2. Conns
  BY FreshOk DEF Init, Conns
<1>3. Accepts
  BY <1>1, SceneFacts, FreshOk DEF Init, Accepts
<1>4. Queues
  <2>1. \A S : <<>> \in Seq(S) /\ Len(<<>>) = 0
    BY EmptySeq
  <2>2. app \in [n : 0 .. Len(scene.calls), note : {<<>>} \cup (Rsvrs \X Commands)]
    BY <1>1, SceneFacts DEF Init
  <2>3. /\ connq \in [Rsvrs -> Seq(Cids)] /\ sendq \in [Rsvrs -> Seq(ToSet(scene.calls))]
        /\ kickq \in [Rsvrs -> Seq(Cids)] /\ kickfree \in [Rsvrs -> 0 .. KickqMax]
        /\ cmd \in [Rsvrs -> Seq(Commands)]
    BY <2>1, Limits DEF Init
  <2>4. \A r \in Rsvrs : /\ Len(connq[r]) <= ConnqMax /\ Len(sendq[r]) <= SendqMax
                         /\ Len(kickq[r]) + kickfree[r] <= KickqMax /\ Len(cmd[r]) <= PipeMax
    BY <2>1, Limits DEF Init
  <2> QED BY <2>2, <2>3, <2>4 DEF Queues
<1>6. Queued
  <2>1. \A r \in Rsvrs : DOMAIN connq[r] = {}
    BY DEF Init
  <2> QED BY <2>1 DEF Queued
<1>5. Loops
  <2>1. \A S : <<>> \in Seq(S) /\ DOMAIN (<<>>) = {}
    BY EmptySeq
  <2>2. batch \in [Rsvrs -> Seq(Events)] /\ clean \in [Rsvrs -> BOOLEAN] /\ kick \in [Rsvrs -> SUBSET Cids]
    BY <2>1 DEF Init
  <2>3. \A r \in Rsvrs : LoopOk(r)
    BY <2>1 DEF Init, LoopOk
  <2> QED BY <2>2, <2>3 DEF Loops
<1> QED BY <1>1, <1>2, <1>3, <1>4, <1>5, <1>6 DEF AInv

-----------------------------------------------------------------------------
(* What a step leaves alone. *)

(* Connections keep their status: nothing of the listeners or the loops is   *)
(* disturbed.                                                                *)
Steady == \A c \in Cids : conn'[c].st = conn[c].st
(* The same connections are unknown; a live one may go.                     *)
Unknown == \A c \in Cids : conn[c].st = "none" <=> conn'[c].st = "none"

LEMMA FrameAccepts ==
    ASSUME AInv, UNCHANGED <<scene, lsnVars>>, Unknown
    PROVE  Accepts'
<1>1. /\ scene' = scene /\ cid' = cid /\ backlog' = backlog /\ lsvr' = lsvr
  BY DEF lsnVars
<1>2. cid <= MaxCid
  BY SceneFacts, Limits DEF AInv, Accepts
<1>3. \A l \in Lsvrs : lsvr[l].pc = "queue" => lsvr[l].c \in Cids
  <2> TAKE l \in Lsvrs
  <2> HAVE lsvr[l].pc = "queue"
  <2>1. lsvr[l].c \in 1 .. cid /\ cid \in Nat
    BY DEF AInv, Accepts
  <2> QED BY <1>2, <2>1, CidsFacts, Limits
<1> QED BY <1>1, <1>3 DEF AInv, Accepts, Unknown

LEMMA FrameQueued ==
    ASSUME AInv, scene' = scene, connq' = connq, Unknown
    PROVE  Queued'
<1>1. Rsvrs' = Rsvrs
  BY DEF Rsvrs
<1>2. \A r \in Rsvrs : \A i \in DOMAIN connq[r] : connq[r][i] \in Cids
  <2> TAKE r \in Rsvrs
  <2>1. connq[r] \in Seq(Cids)
    BY DEF AInv, Queues
  <2> QED BY <2>1
<1> QED BY <1>1, <1>2 DEF AInv, Queued, Unknown

LEMMA FrameQueues ==
    ASSUME AInv, UNCHANGED <<scene, queueVars, cmd, app>>
    PROVE  Queues'
<1>1. /\ scene' = scene /\ connq' = connq /\ sendq' = sendq /\ kickq' = kickq
      /\ kickfree' = kickfree /\ cmd' = cmd /\ app' = app /\ Rsvrs' = Rsvrs
  BY DEF queueVars, Rsvrs
<1> QED BY <1>1 DEF AInv, Queues

(* A loop is right as long as what it names stays live. *)
LEMMA FrameLoop ==
    ASSUME AInv, scene' = scene, NEW r \in Rsvrs,
           batch'[r] = batch[r], clean'[r] = clean[r], kick'[r] = kick[r],
           \A c \in Cids : Mine(r, c) => conn'[c].st = "live"
    PROVE  LoopOk(r)'
<1>1. /\ LoopOk(r) /\ batch[r] \in Seq(Events) /\ kick[r] \subseteq Cids
  BY DEF AInv, Loops
<1>2. \A i \in DOMAIN batch[r] : batch[r][i].c # 0 => batch[r][i].c \in Cids
  <2> TAKE i \in DOMAIN batch[r]
  <2>1. batch[r][i] \in Events
    BY <1>1
  <2>2. batch[r][i].c \in 0 .. MaxCid
    BY <2>1 DEF Events
  <2> QED BY <2>2, CidsFacts, Limits
<1>3. \A c \in Cids : Mine(r, c) => Mine(r, c)'
  BY DEF Mine, Live, ACC_GET_RID_BY_CID
<1> HIDE DEF Mine
<1> QED BY <1>1, <1>2, <1>3 DEF LoopOk

LEMMA FrameLoops ==
    ASSUME AInv, UNCHANGED <<scene, loopVars>>, Steady
    PROVE  Loops'
<1>1. /\ scene' = scene /\ batch' = batch /\ clean' = clean /\ kick' = kick /\ Rsvrs' = Rsvrs
  BY DEF loopVars, Rsvrs
<1>2. \A r \in Rsvrs : LoopOk(r)'
  BY <1>1, FrameLoop DEF Steady, Mine, Live
<1> QED BY <1>1, <1>2 DEF AInv, Loops

(* No connection changes. *)
LEMMA FrameConns ==
    ASSUME AInv, conn' = conn
    PROVE  Conns' /\ Steady /\ Unknown
BY DEF AInv, Conns, Steady, Unknown

LEMMA SteadyUnknown == ASSUME Steady PROVE Unknown
BY DEF Steady, Unknown

(* Writing commands keeps a pipe within its limit. *)
LEMMA PipeStep ==
    ASSUME AInv, scene' = scene, NEW ws, PipeWrites(ws), \A r \in DOMAIN ws : ws[r] \in Commands
    PROVE  cmd' \in [Rsvrs -> Seq(Commands)] /\ \A r \in Rsvrs : Len(cmd'[r]) <= PipeMax
<1>1. cmd \in [Rsvrs -> Seq(Commands)] /\ \A r \in Rsvrs : Len(cmd[r]) <= PipeMax
  BY DEF AInv, Queues
<1>2. cmd' = [r \in Rsvrs |-> IF r \in DOMAIN ws /\ Len(cmd[r]) < PipeMax
                               THEN Append(cmd[r], ws[r]) ELSE cmd[r]]
  BY DEF PipeWrites
<1>3. ASSUME NEW r \in Rsvrs
      PROVE  cmd'[r] \in Seq(Commands) /\ Len(cmd'[r]) <= PipeMax
  <2>1. CASE r \in DOMAIN ws /\ Len(cmd[r]) < PipeMax
    <3>1. cmd'[r] = Append(cmd[r], ws[r])
      BY <1>2, <2>1
    <3>2. cmd[r] \in Seq(Commands) /\ ws[r] \in Commands
      BY <1>1, <2>1
    <3>3. Append(cmd[r], ws[r]) \in Seq(Commands) /\ Len(Append(cmd[r], ws[r])) = Len(cmd[r]) + 1
      BY <3>2, AppendProperties
    <3>4. Len(cmd[r]) \in Nat
      BY <3>2, LenProperties
    <3> QED BY <2>1, <3>1, <3>3, <3>4, Limits
  <2>2. CASE ~(r \in DOMAIN ws /\ Len(cmd[r]) < PipeMax)
    BY <1>1, <1>2, <2>2
  <2> QED BY <2>1, <2>2
<1>4. cmd' = [r \in Rsvrs |-> cmd'[r]]
  BY <1>2
<1> QED BY <1>3, <1>4

LEMMA PipeQueues ==
    ASSUME AInv, UNCHANGED <<scene, queueVars>>, NEW ws, PipeWrites(ws),
           \A r \in DOMAIN ws : ws[r] \in Commands,
           app' \in [n : 0 .. Len(scene.calls), note : {<<>>} \cup (Rsvrs \X Commands)]
    PROVE  Queues'
<1>1. /\ scene' = scene /\ connq' = connq /\ sendq' = sendq /\ kickq' = kickq
      /\ kickfree' = kickfree /\ Rsvrs' = Rsvrs
  BY DEF queueVars, Rsvrs
<1>2. cmd' \in [Rsvrs -> Seq(Commands)] /\ \A r \in Rsvrs : Len(cmd'[r]) <= PipeMax
  BY <1>1, PipeStep
<1> QED BY <1>1, <1>2 DEF AInv, Queues

LEMMA AppType ==
    ASSUME AInv PROVE app \in [n : 0 .. Len(scene.calls), note : {<<>>} \cup (Rsvrs \X Commands)]
BY DEF AInv, Queues

-----------------------------------------------------------------------------
(* The listeners. *)

LEMMA Accepted ==
    ASSUME AInv, NEW l \in Lsvrs, acc_lsvr_accept(l)
    PROVE  AInv'
<1>1. /\ scene' = scene /\ conn' = conn /\ cid' = cid + 1 /\ backlog' = backlog - 1 /\ backlog > 0
      /\ lsvr' = [lsvr EXCEPT ![l] = [pc |-> "queue", c |-> cid + 1]]
      /\ UNCHANGED <<queueVars, cmd, app, loopVars>>
  BY DEF acc_lsvr_accept, pipeVars
<1>2. /\ cid \in Nat /\ backlog \in Nat /\ cid + backlog = scene.clients
      /\ lsvr \in [Lsvrs -> [pc : {"wait", "queue", "note"}, c : Nat]]
      /\ \A k \in Lsvrs : lsvr[k].pc = "queue" => lsvr[k].c \in 1 .. cid /\ conn[lsvr[k].c].st = "none"
      /\ \A j, k \in Lsvrs : lsvr[j].pc = "queue" /\ lsvr[k].pc = "queue" /\ j # k => lsvr[j].c # lsvr[k].c
      /\ \A c \in Cids : c > cid => conn[c].st = "none"
  BY DEF AInv, Accepts
<1>3. cid + 1 \in Cids
  BY <1>1, <1>2, SceneFacts, CidsFacts, Limits DEF AInv
<1>4. Accepts'
  <2> DEFINE x == [pc |-> "queue", c |-> cid + 1]
  <2>1. x \in [pc : {"wait", "queue", "note"}, c : Nat] /\ x.pc = "queue" /\ x.c = cid + 1
    BY <1>2
  <2>2. lsvr'[l] = x /\ \A k \in Lsvrs : k # l => lsvr'[k] = lsvr[k]
    BY <1>1, <1>2
  <2>3. lsvr' \in [Lsvrs -> [pc : {"wait", "queue", "note"}, c : Nat]]
    BY <1>1, <1>2, <2>1
  <2> HIDE DEF x
  <2>4. \A k \in Lsvrs : lsvr'[k].pc = "queue" =>
            lsvr'[k].c \in 1 .. cid + 1 /\ conn[lsvr'[k].c].st = "none"
    BY <1>2, <1>3, <2>1, <2>2
  <2>5. \A j, k \in Lsvrs : lsvr'[j].pc = "queue" /\ lsvr'[k].pc = "queue" /\ j # k => lsvr'[j].c # lsvr'[k].c
    BY <1>2, <2>1, <2>2
  <2>6. \A c \in Cids : c > cid + 1 => conn[c].st = "none"
    BY <1>2, CidsFacts
  <2>7. cid + 1 \in Nat /\ backlog - 1 \in Nat /\ cid + 1 + (backlog - 1) = scene.clients
    BY <1>1, <1>2
  <2> QED BY <1>1, <2>3, <2>4, <2>5, <2>6, <2>7 DEF Accepts
<1>5. Conns' /\ Queues' /\ Loops' /\ Queued'
  BY <1>1, FrameConns, FrameQueues, FrameLoops, FrameQueued DEF queueVars
<1> QED BY <1>1, <1>4, <1>5 DEF AInv

(* The listener's record with its next step. *)
PcIs(x, v) == [x EXCEPT !.pc = v]

LEMMA PcIsOk ==
    ASSUME NEW x \in [pc : {"wait", "queue", "note"}, c : Nat], NEW v \in {"wait", "note"}
    PROVE  PcIs(x, v) \in [pc : {"wait", "queue", "note"}, c : Nat] /\ PcIs(x, v).pc = v /\ PcIs(x, v).c = x.c
BY DEF PcIs

(* A listener that goes on to note or to wait holds no CID any more. *)
LEMMA ListenerMoves ==
    ASSUME AInv, NEW l \in Lsvrs, NEW v \in {"wait", "note"}, UNCHANGED <<scene, cid, backlog>>,
           lsvr' = [lsvr EXCEPT ![l] = PcIs(lsvr[l], v)],
           \A c \in Cids : conn[c].st = "none" /\ conn'[c].st # "none" => lsvr[l].pc = "queue" /\ lsvr[l].c = c
    PROVE  Accepts'
<1>1. /\ cid \in Nat /\ backlog \in Nat /\ cid + backlog = scene.clients
      /\ lsvr \in [Lsvrs -> [pc : {"wait", "queue", "note"}, c : Nat]]
      /\ \A k \in Lsvrs : lsvr[k].pc = "queue" => lsvr[k].c \in 1 .. cid /\ conn[lsvr[k].c].st = "none"
      /\ \A j, k \in Lsvrs : lsvr[j].pc = "queue" /\ lsvr[k].pc = "queue" /\ j # k => lsvr[j].c # lsvr[k].c
      /\ \A c \in Cids : c > cid => conn[c].st = "none"
  BY DEF AInv, Accepts
<1>2. cid <= MaxCid
  BY <1>1, SceneFacts, Limits DEF AInv
<1>3. lsvr[l] \in [pc : {"wait", "queue", "note"}, c : Nat]
  BY <1>1
<1>4. /\ PcIs(lsvr[l], v) \in [pc : {"wait", "queue", "note"}, c : Nat]
      /\ PcIs(lsvr[l], v).pc = v
  BY <1>3, PcIsOk
<1>5. /\ lsvr'[l] = PcIs(lsvr[l], v) /\ \A k \in Lsvrs : k # l => lsvr'[k] = lsvr[k]
      /\ lsvr' \in [Lsvrs -> [pc : {"wait", "queue", "note"}, c : Nat]]
  BY <1>1, <1>4
<1>6. lsvr'[l].pc # "queue"
  BY <1>4, <1>5
<1>7. ASSUME NEW k \in Lsvrs, lsvr'[k].pc = "queue"
      PROVE  lsvr'[k].c \in 1 .. cid /\ conn'[lsvr'[k].c].st = "none"
  <2>1. k # l /\ lsvr'[k] = lsvr[k]
    BY <1>5, <1>6, <1>7
  <2>2. lsvr[k].c \in 1 .. cid /\ conn[lsvr[k].c].st = "none"
    BY <1>1, <1>7, <2>1
  <2>3. lsvr[k].c \in Cids
    BY <1>1, <1>2, <2>2, CidsFacts, Limits
  <2>4. ~(lsvr[l].pc = "queue" /\ lsvr[l].c = lsvr[k].c)
    BY <1>1, <1>7, <2>1
  <2> QED BY <2>1, <2>2, <2>3, <2>4
<1>8. \A j, k \in Lsvrs : lsvr'[j].pc = "queue" /\ lsvr'[k].pc = "queue" /\ j # k => lsvr'[j].c # lsvr'[k].c
  BY <1>1, <1>5, <1>6
<1>9. ASSUME NEW c \in Cids, c > cid
      PROVE  conn'[c].st = "none"
  <2>1. ~(lsvr[l].pc = "queue" /\ lsvr[l].c = c)
    BY <1>1, <1>9, CidsFacts
  <2> QED BY <1>1, <1>9, <2>1
<1> QED BY <1>1, <1>5, <1>7, <1>8, <1>9 DEF Accepts

LEMMA Pushed ==
    ASSUME AInv, NEW l \in Lsvrs, acc_lsvr_push(l)
    PROVE  AInv'
<1> DEFINE c == lsvr[l].c
           r == ACC_GET_RID_BY_CID(c)
<1>1. /\ scene' = scene /\ cid' = cid /\ backlog' = backlog /\ lsvr[l].pc = "queue"
      /\ sendq' = sendq /\ kickq' = kickq /\ kickfree' = kickfree /\ cmd' = cmd /\ app' = app
      /\ UNCHANGED loopVars
  BY DEF acc_lsvr_push, pipeVars
<1>2. c \in 1 .. cid /\ conn[c].st = "none" /\ cid \in Nat /\ cid <= MaxCid
  BY <1>1, SceneFacts, Limits DEF AInv, Accepts
<1>3. c \in Cids /\ r \in Rsvrs
  BY <1>2, CidsFacts, RidFacts, Limits DEF AInv
<1>4. \/ /\ Len(connq[r]) < ConnqMax /\ connq' = [connq EXCEPT ![r] = Append(connq[r], c)]
         /\ conn' = [conn EXCEPT ![c] = StIs(conn[c], "queued")]
         /\ lsvr' = [lsvr EXCEPT ![l] = PcIs(lsvr[l], "note")]
      \/ /\ connq' = connq
         /\ conn' = [conn EXCEPT ![c] = StIs(conn[c], "gone")]
         /\ lsvr' = [lsvr EXCEPT ![l] = PcIs(lsvr[l], "wait")]
  BY DEF acc_lsvr_push, StIs, PcIs
<1> HIDE DEF c, r
<1>5. PICK st \in {"queued", "gone"}, v \in {"wait", "note"} :
        /\ conn' = [conn EXCEPT ![c] = StIs(conn[c], st)]
        /\ lsvr' = [lsvr EXCEPT ![l] = PcIs(lsvr[l], v)]
  BY <1>4
<1>6. ConnOk(StIs(conn[c], st)) /\ StIs(conn[c], st).st = st
  BY <1>2, <1>3, StIsOk DEF AInv, Conns
<1>7. conn'[c] = StIs(conn[c], st) /\ DOMAIN conn' = Cids /\ \A d \in Cids : d # c => conn'[d] = conn[d]
  BY <1>3, <1>5 DEF AInv, Conns
<1>8. Conns'
  BY <1>6, <1>7 DEF AInv, Conns
<1>9. Accepts'
  BY <1>1, <1>5, <1>7, ListenerMoves DEF c
<1>10. Loops'
  <2>1. \A d \in Cids : conn[d].st = "live" => conn'[d].st = "live"
    BY <1>2, <1>7
  <2>2. \A x \in Rsvrs : LoopOk(x)'
    BY <1>1, <2>1, FrameLoop DEF loopVars, Mine, Live
  <2>3. Rsvrs' = Rsvrs
    BY <1>1 DEF Rsvrs
  <2> QED BY <1>1, <2>2, <2>3 DEF AInv, Loops, loopVars
<1>11. Queues'
  <2>1. Rsvrs' = Rsvrs
    BY <1>1 DEF Rsvrs
  <2>2. connq' \in [Rsvrs -> Seq(Cids)] /\ \A x \in Rsvrs : Len(connq'[x]) <= ConnqMax
    <3>1. connq \in [Rsvrs -> Seq(Cids)] /\ \A x \in Rsvrs : Len(connq[x]) <= ConnqMax
      BY DEF AInv, Queues
    <3>2. CASE connq' = connq
      BY <3>1, <3>2
    <3>3. CASE Len(connq[r]) < ConnqMax /\ connq' = [connq EXCEPT ![r] = Append(connq[r], c)]
      <4>1. connq[r] \in Seq(Cids)
        BY <1>3, <3>1
      <4>2. Append(connq[r], c) \in Seq(Cids) /\ Len(Append(connq[r], c)) = Len(connq[r]) + 1 /\ Len(connq[r]) \in Nat
        BY <1>3, <4>1, AppendProperties, LenProperties
      <4> QED BY <1>3, <3>1, <3>3, <4>2, Limits
    <3> QED BY <1>4, <3>2, <3>3
  <2> QED BY <1>1, <2>1, <2>2 DEF AInv, Queues
<1>12. Queued'
  <2>1. Rsvrs' = Rsvrs
    BY <1>1 DEF Rsvrs
  <2>2. ASSUME NEW x \in Rsvrs, NEW i \in DOMAIN connq'[x]
        PROVE  conn'[connq'[x][i]].st # "none"
    <3>1. connq[x] \in Seq(Cids) /\ connq \in [Rsvrs -> Seq(Cids)]
      BY DEF AInv, Queues
    <3>2. \A j \in DOMAIN connq[x] : connq[x][j] \in Cids /\ conn[connq[x][j]].st # "none"
      BY <3>1 DEF AInv, Queued
    <3>3. \A j \in DOMAIN connq[x] : conn'[connq[x][j]].st # "none"
      BY <1>2, <1>7, <3>2
    <3>4. CASE connq'[x] = connq[x]
      BY <2>2, <3>3, <3>4
    <3>5. CASE x = r /\ connq'[x] = Append(connq[x], c)
      <4>1. (i \in DOMAIN connq[x] /\ connq'[x][i] = connq[x][i]) \/ connq'[x][i] = c
        BY <1>3, <2>2, <3>1, <3>5, AppendProperties, LenProperties
      <4> QED BY <1>6, <1>7, <3>3, <4>1
    <3>6. connq' = connq \/ connq' = [connq EXCEPT ![r] = Append(connq[r], c)]
      BY <1>4
    <3> QED BY <3>1, <3>4, <3>5, <3>6
  <2> QED BY <2>1, <2>2 DEF Queued
<1> QED BY <1>1, <1>8, <1>9, <1>10, <1>11, <1>12 DEF AInv

LEMMA Noted ==
    ASSUME AInv, NEW l \in Lsvrs, acc_lsvr_send_add_sck_req(l)
    PROVE  AInv'
<1> DEFINE ws == Only(ACC_GET_RID_BY_CID(lsvr[l].c), "ADD_SCK")
<1>1. /\ scene' = scene /\ cid' = cid /\ backlog' = backlog /\ app' = app /\ conn' = conn
      /\ UNCHANGED loopVars /\ UNCHANGED queueVars
      /\ PipeWrites(ws) /\ lsvr' = [lsvr EXCEPT ![l] = PcIs(lsvr[l], "wait")]
  BY DEF acc_lsvr_send_add_sck_req, PcIs
<1>2. \A x \in DOMAIN ws : ws[x] \in Commands
  BY DEF Only, Commands
<1> HIDE DEF ws
<1>3. Queues'
  BY <1>1, <1>2, PipeQueues, AppType
<1>4. Accepts'
  BY <1>1, ListenerMoves
<1>5. Conns' /\ Loops' /\ Queued'
  BY <1>1, FrameConns, FrameLoops, FrameQueued DEF queueVars
<1> QED BY <1>1, <1>3, <1>4, <1>5 DEF AInv

LEMMA AskedAgain ==
    ASSUME AInv, NEW l \in Lsvrs, acc_lsvr_timeout_hdl(l)
    PROVE  AInv'
<1> DEFINE ws == [r \in {x \in Rsvrs : connq[x] # <<>>} |-> "ADD_SCK"]
<1>1. /\ scene' = scene /\ UNCHANGED lsnVars /\ app' = app /\ conn' = conn
      /\ UNCHANGED loopVars /\ UNCHANGED queueVars /\ PipeWrites(ws)
  BY DEF acc_lsvr_timeout_hdl
<1>2. \A x \in DOMAIN ws : ws[x] \in Commands
  BY DEF Commands
<1> HIDE DEF ws
<1>3. Queues'
  BY <1>1, <1>2, PipeQueues, AppType
<1>4. Conns' /\ Steady /\ Unknown
  BY <1>1, FrameConns
<1>5. Accepts' /\ Loops' /\ Queued'
  BY <1>1, <1>4, FrameAccepts, FrameLoops, FrameQueued DEF queueVars
<1> QED BY <1>1, <1>3, <1>4, <1>5 DEF AInv

-----------------------------------------------------------------------------
(* The application. *)

Notes == {<<>>} \cup (Rsvrs \X Commands)

(* The application's record after a call that was refused, or a command. *)
Bumped(a) == [a EXCEPT !.n = @ + 1]
Quiet(a) == [a EXCEPT !.note = <<>>]

LEMMA AppStep ==
    ASSUME NEW N \in Nat, NEW M, <<>> \in M, NEW a \in [n : 0 .. N, note : M]
    PROVE  /\ a.n < N => Bumped(a) \in [n : 0 .. N, note : M]
           /\ Quiet(a) \in [n : 0 .. N, note : M]
BY DEF Bumped, Quiet

LEMMA CallFacts ==
    ASSUME AInv, NEW k, Calling(k)
    PROVE  /\ Call \in ToSet(scene.calls) /\ Call.c \in Cids /\ ACC_GET_RID_BY_CID(Call.c) \in Rsvrs
           /\ app.n + 1 \in 0 .. Len(scene.calls) /\ app.n < Len(scene.calls) /\ Len(scene.calls) \in Nat
<1>1. app.n \in 0 .. Len(scene.calls) /\ app.n < Len(scene.calls)
  BY AppType DEF Calling
<1>2. scene.calls \in Seq(ToSet(scene.calls)) /\ \A i \in DOMAIN scene.calls : scene.calls[i].c \in Cids
  BY SceneFacts DEF AInv
<1>3. Len(scene.calls) \in Nat /\ DOMAIN scene.calls = 1 .. Len(scene.calls)
  BY <1>2, LenProperties
<1>4. app.n + 1 \in DOMAIN scene.calls
  BY <1>1, <1>3
<1>5. Call.c \in Cids /\ Call \in ToSet(scene.calls)
  BY <1>2, <1>4 DEF Call, ToSet
<1> QED BY <1>1, <1>3, <1>5, CidsFacts, RidFacts DEF AInv

(* An element more in a queue that has room for it. *)
LEMMA OneMore ==
    ASSUME NEW D, NEW S, NEW q \in [D -> Seq(S)], NEW r \in D, NEW x \in S
    PROVE  /\ [q EXCEPT ![r] = Append(@, x)] \in [D -> Seq(S)]
           /\ [q EXCEPT ![r] = Append(@, x)][r] = Append(q[r], x)
           /\ Len(Append(q[r], x)) = Len(q[r]) + 1 /\ Len(q[r]) \in Nat
           /\ \A y \in D : y # r => [q EXCEPT ![r] = Append(@, x)][y] = q[y]
<1>1. q[r] \in Seq(S)
  OBVIOUS
<1>2. Append(q[r], x) \in Seq(S) /\ Len(Append(q[r], x)) = Len(q[r]) + 1 /\ Len(q[r]) \in Nat
  BY <1>1, AppendProperties, LenProperties
<1> QED BY <1>2

(* What every call of the application leaves alone. *)
LEMMA AppFrame ==
    ASSUME AInv, UNCHANGED <<scene, lsnVars, loopVars, conn>>, connq' = connq
    PROVE  scene' \in Scenes /\ Conns' /\ Accepts' /\ Queued' /\ Loops'
<1>1. Conns' /\ Steady /\ Unknown
  BY FrameConns
<1> QED BY <1>1, FrameAccepts, FrameLoops, FrameQueued DEF AInv

LEMMA Sends ==
    ASSUME AInv, acc_async_send
    PROVE  AInv'
<1> DEFINE r == ACC_GET_RID_BY_CID(Call.c)
<1>1. /\ UNCHANGED <<scene, lsnVars, loopVars, conn>> /\ Calling("send")
      /\ connq' = connq /\ kickq' = kickq /\ kickfree' = kickfree /\ cmd' = cmd
  BY DEF acc_async_send, pipeVars
<1>2. \/ /\ Len(sendq[r]) < SendqMax /\ sendq' = [sendq EXCEPT ![r] = Append(@, Call)]
         /\ app' = [n |-> app.n + 1, note |-> <<r, "DIST_DATA">>]
      \/ /\ sendq' = sendq /\ app' = Bumped(app)
  BY DEF acc_async_send, Bumped
<1>3. /\ Call \in ToSet(scene.calls) /\ r \in Rsvrs
      /\ app.n + 1 \in 0 .. Len(scene.calls) /\ app.n < Len(scene.calls) /\ Len(scene.calls) \in Nat
  BY <1>1, CallFacts
<1> HIDE DEF r
<1>4. app' \in [n : 0 .. Len(scene.calls), note : Notes]
  <2>1. app \in [n : 0 .. Len(scene.calls), note : Notes] /\ <<>> \in Notes
    BY AppType DEF Notes
  <2>2. Bumped(app) \in [n : 0 .. Len(scene.calls), note : Notes]
    BY <1>3, <2>1, AppStep
  <2>3. <<r, "DIST_DATA">> \in Notes
    BY <1>3 DEF Notes, Commands
  <2> QED BY <1>2, <1>3, <2>2, <2>3
<1>5. sendq \in [Rsvrs -> Seq(ToSet(scene.calls))] /\ \A x \in Rsvrs : Len(sendq[x]) <= SendqMax
  BY DEF AInv, Queues
<1>6. sendq' \in [Rsvrs -> Seq(ToSet(scene.calls))] /\ \A x \in Rsvrs : Len(sendq'[x]) <= SendqMax
  <2>1. CASE sendq' = sendq
    BY <1>5, <2>1
  <2>2. CASE Len(sendq[r]) < SendqMax /\ sendq' = [sendq EXCEPT ![r] = Append(@, Call)]
    <3>1. /\ sendq' \in [Rsvrs -> Seq(ToSet(scene.calls))] /\ sendq'[r] = Append(sendq[r], Call)
          /\ Len(Append(sendq[r], Call)) = Len(sendq[r]) + 1 /\ Len(sendq[r]) \in Nat
          /\ \A y \in Rsvrs : y # r => sendq'[y] = sendq[y]
      BY <1>3, <1>5, <2>2, OneMore
    <3> QED BY <1>5, <2>2, <3>1, Limits
  <2> QED BY <1>2, <2>1, <2>2
<1>7. Queues'
  <2>1. Rsvrs' = Rsvrs /\ scene' = scene
    BY <1>1 DEF Rsvrs
  <2> QED BY <1>1, <1>4, <1>6, <2>1 DEF AInv, Queues, Notes
<1> QED BY <1>1, <1>7, AppFrame DEF AInv

LEMMA Kicks ==
    ASSUME AInv, acc_async_kick
    PROVE  AInv'
<1> DEFINE r == ACC_GET_RID_BY_CID(Call.c)
<1>1. /\ UNCHANGED <<scene, lsnVars, loopVars, conn>> /\ Calling("kick")
      /\ connq' = connq /\ sendq' = sendq /\ cmd' = cmd
  BY DEF acc_async_kick, pipeVars
<1>2. \/ /\ kickfree[r] > 0 /\ kickq' = [kickq EXCEPT ![r] = Append(@, Call.c)]
         /\ kickfree' = [kickfree EXCEPT ![r] = @ - 1]
         /\ app' = [n |-> app.n + 1, note |-> <<r, "KICK_CONN">>]
      \/ /\ kickq' = kickq /\ kickfree' = kickfree /\ app' = Bumped(app)
  BY DEF acc_async_kick, Bumped
<1>3. /\ Call.c \in Cids /\ r \in Rsvrs
      /\ app.n + 1 \in 0 .. Len(scene.calls) /\ app.n < Len(scene.calls) /\ Len(scene.calls) \in Nat
  BY <1>1, CallFacts
<1>4. PICK x \in Cids : x = Call.c
  BY <1>3
<1> HIDE DEF r
<1>5. app' \in [n : 0 .. Len(scene.calls), note : Notes]
  <2>1. app \in [n : 0 .. Len(scene.calls), note : Notes] /\ <<>> \in Notes
    BY AppType DEF Notes
  <2>2. Bumped(app) \in [n : 0 .. Len(scene.calls), note : Notes]
    BY <1>3, <2>1, AppStep
  <2>3. <<r, "KICK_CONN">> \in Notes
    BY <1>3 DEF Notes, Commands
  <2> QED BY <1>2, <1>3, <2>2, <2>3
<1>6. /\ kickq \in [Rsvrs -> Seq(Cids)] /\ kickfree \in [Rsvrs -> 0 .. KickqMax]
      /\ \A y \in Rsvrs : Len(kickq[y]) + kickfree[y] <= KickqMax
  BY DEF AInv, Queues
<1>7. /\ kickq' \in [Rsvrs -> Seq(Cids)] /\ kickfree' \in [Rsvrs -> 0 .. KickqMax]
      /\ \A y \in Rsvrs : Len(kickq'[y]) + kickfree'[y] <= KickqMax
  <2>1. CASE kickq' = kickq /\ kickfree' = kickfree
    BY <1>6, <2>1
  <2>2. CASE /\ kickfree[r] > 0 /\ kickq' = [kickq EXCEPT ![r] = Append(@, Call.c)]
             /\ kickfree' = [kickfree EXCEPT ![r] = @ - 1]
    <3>1. /\ kickq' \in [Rsvrs -> Seq(Cids)] /\ kickq'[r] = Append(kickq[r], x)
          /\ Len(Append(kickq[r], x)) = Len(kickq[r]) + 1 /\ Len(kickq[r]) \in Nat
          /\ \A y \in Rsvrs : y # r => kickq'[y] = kickq[y]
      BY <1>3, <1>4, <1>6, <2>2, OneMore
    <3>2. kickfree[r] - 1 \in 0 .. KickqMax
      BY <1>3, <1>6, <2>2, Limits
    <3>3. /\ kickfree' \in [Rsvrs -> 0 .. KickqMax] /\ kickfree'[r] = kickfree[r] - 1
          /\ \A y \in Rsvrs : y # r => kickfree'[y] = kickfree[y]
      BY <1>3, <1>6, <2>2, <3>2
    <3>4. Len(kickq'[r]) + kickfree'[r] <= KickqMax
      BY <1>3, <1>6, <3>1, <3>3, Limits
    <3> QED BY <1>6, <3>1, <3>3, <3>4
  <2> QED BY <1>2, <2>1, <2>2
<1>8. Queues'
  <2>1. Rsvrs' = Rsvrs /\ scene' = scene
    BY <1>1 DEF Rsvrs
  <2> QED BY <1>1, <1>5, <1>7, <2>1 DEF AInv, Queues, Notes
<1> QED BY <1>1, <1>8, AppFrame DEF AInv

LEMMA Commanded ==
    ASSUME AInv, acc_send_cmd_to_rsvr
    PROVE  AInv'
<1> DEFINE ws == Only(app.note[1], app.note[2])
<1>1. /\ UNCHANGED <<scene, lsnVars, loopVars, conn>> /\ app.note # <<>> /\ UNCHANGED queueVars
      /\ PipeWrites(ws) /\ app' = Quiet(app)
  BY DEF acc_send_cmd_to_rsvr, Quiet
<1>2. app \in [n : 0 .. Len(scene.calls), note : Notes] /\ <<>> \in Notes /\ Len(scene.calls) \in Nat
  BY AppType, SceneFacts, LenProperties DEF Notes, AInv
<1>3. app.note \in Rsvrs \X Commands
  BY <1>1, <1>2 DEF Notes
<1>4. \A x \in DOMAIN ws : ws[x] \in Commands
  BY <1>3 DEF Only
<1>5. app' \in [n : 0 .. Len(scene.calls), note : Notes]
  BY <1>1, <1>2, AppStep
<1> HIDE DEF ws
<1>6. Queues'
  BY <1>1, <1>4, <1>5, PipeQueues DEF Notes
<1> QED BY <1>1, <1>6, AppFrame DEF AInv, queueVars

-----------------------------------------------------------------------------
(* The batch of a receiver. *)

LEMMA LoopType ==
    ASSUME AInv, NEW r \in Rsvrs
    PROVE  /\ batch[r] \in Seq(Events) /\ clean[r] \in BOOLEAN /\ kick[r] \subseteq Cids /\ LoopOk(r)
           /\ \A i \in DOMAIN batch[r] : batch[r][i].c \in 0 .. MaxCid
<1>1. /\ batch[r] \in Seq(Events) /\ clean[r] \in BOOLEAN /\ kick[r] \subseteq Cids /\ LoopOk(r)
  BY DEF AInv, Loops
<1>2. \A i \in DOMAIN batch[r] : batch[r][i] \in Events
  BY <1>1
<1> QED BY <1>1, <1>2 DEF Events

(* The event in hand names a live connection of the receiver, and no event   *)
(* after it names the same one.                                              *)
LEMMA EventFacts ==
    ASSUME AInv, NEW r \in Rsvrs, batch[r] # <<>>
    PROVE  /\ Event(r) \in Events /\ Event(r).c \in 0 .. MaxCid /\ Tail(batch[r]) \in Seq(Events)
           /\ Event(r).c # 0 => Event(r).c \in Cids /\ Mine(r, Event(r).c)
           /\ \A i \in DOMAIN Tail(batch[r]) :
                /\ Tail(batch[r])[i].c # 0 => /\ Mine(r, Tail(batch[r])[i].c)
                                              /\ Tail(batch[r])[i].c # Event(r).c
                                              /\ Tail(batch[r])[i].c \in Cids
                /\ i + 1 \in DOMAIN batch[r] /\ Tail(batch[r])[i] = batch[r][i + 1]
           /\ clean[r]
<1>1. /\ batch[r] \in Seq(Events) /\ LoopOk(r)
      /\ \A i \in DOMAIN batch[r] : batch[r][i].c \in 0 .. MaxCid
  BY LoopType
<1>2. /\ Event(r) = batch[r][1] /\ 1 \in DOMAIN batch[r] /\ Tail(batch[r]) \in Seq(Events)
      /\ \A i \in DOMAIN Tail(batch[r]) : i \in Nat /\ i >= 1 /\ i + 1 \in DOMAIN batch[r]
                                          /\ Tail(batch[r])[i] = batch[r][i + 1]
  BY <1>1, HeadTailProperties, LenProperties DEF Event
<1>3. Event(r) \in Events
  BY <1>1, <1>2
<1>4. Event(r).c \in 0 .. MaxCid /\ (Event(r).c # 0 => Event(r).c \in Cids /\ Mine(r, Event(r).c))
  BY <1>1, <1>2, CidsFacts, Limits DEF LoopOk
<1>5. ASSUME NEW i \in DOMAIN Tail(batch[r]), Tail(batch[r])[i].c # 0
      PROVE  /\ Mine(r, Tail(batch[r])[i].c) /\ Tail(batch[r])[i].c # Event(r).c /\ Tail(batch[r])[i].c \in Cids
  <2>1. i \in Nat /\ i >= 1 /\ i + 1 \in DOMAIN batch[r] /\ Tail(batch[r])[i] = batch[r][i + 1]
    BY <1>2
  <2>2. i + 1 # 1 /\ batch[r][i + 1].c # 0
    BY <1>5, <2>1
  <2>3. Mine(r, batch[r][i + 1].c) /\ batch[r][i + 1].c # batch[r][1].c
    BY <1>1, <1>2, <2>1, <2>2 DEF LoopOk
  <2>4. batch[r][i + 1].c \in Cids
    BY <1>1, <2>1, <2>2, CidsFacts, Limits
  <2> QED BY <1>2, <2>1, <2>3, <2>4
<1>6. clean[r]
  BY <1>1 DEF LoopOk
<1> QED BY <1>2, <1>3, <1>4, <1>5, <1>6

(* The connection of a receiver is no other receiver's. *)
LEMMA Others ==
    ASSUME NEW r, NEW x, r # x, NEW c, NEW d, Mine(r, c), Mine(x, d)
    PROVE  c # d
BY DEF Mine

(* The event in hand is done with: whatever became of its connection, the    *)
(* rest of the batch is as it was, as long as the kick list does not name a  *)
(* connection that went.                                                     *)
LEMMA HeadGoes ==
    ASSUME AInv, scene' = scene, NEW r \in Rsvrs, batch[r] # <<>>, Handled(r), clean' = clean,
           kick' \in [Rsvrs -> SUBSET Cids], kick'[r] \subseteq kick[r],
           \A x \in Rsvrs : x # r => kick'[x] = kick[x],
           \A d \in Cids : d # Event(r).c => conn'[d].st = conn[d].st,
           Event(r).c = 0 \/ Event(r).c \notin kick'[r] \/ conn'[Event(r).c].st = "live"
    PROVE  Loops'
<1>1. /\ batch \in [Rsvrs -> Seq(Events)] /\ clean \in [Rsvrs -> BOOLEAN]
      /\ kick \in [Rsvrs -> SUBSET Cids] /\ Rsvrs' = Rsvrs
  BY DEF AInv, Loops, Rsvrs
<1>2. batch' = [batch EXCEPT ![r] = Tail(batch[r])]
  BY DEF Handled
<1>3. /\ batch' \in [Rsvrs -> Seq(Events)] /\ batch'[r] = Tail(batch[r])
      /\ \A x \in Rsvrs : x # r => batch'[x] = batch[x]
  BY <1>1, <1>2, EventFacts
<1>4. ASSUME NEW x, NEW d \in Cids, Mine(x, d), d # Event(r).c
      PROVE  Mine(x, d)'
  BY <1>4 DEF Mine, Live, ACC_GET_RID_BY_CID
<1>5. ASSUME NEW x \in Rsvrs
      PROVE  LoopOk(x)'
  <2>1. CASE x # r
    <3>1. \A d \in Cids : Mine(x, d) => d # Event(r).c
      BY <2>1, EventFacts, Others, CidsFacts
    <3>2. \A d \in Cids : Mine(x, d) => conn'[d].st = "live"
      BY <3>1 DEF Mine, Live
    <3> QED BY <1>3, <2>1, <3>2, FrameLoop
  <2>2. CASE x = r
    <3>0. PICK b : b = Tail(batch[r])
      OBVIOUS
    <3>1. \A i \in DOMAIN b : b[i].c # 0 => Mine(r, b[i].c)'
      BY <1>4, <3>0, EventFacts
    <3>2. \A i, j \in DOMAIN b : b[i].c # 0 /\ i # j => b[i].c # b[j].c
      <4> SUFFICES ASSUME NEW i \in DOMAIN b, NEW j \in DOMAIN b, b[i].c # 0, i # j
                   PROVE  b[i].c # b[j].c
        OBVIOUS
      <4>1. /\ i + 1 \in DOMAIN batch[r] /\ b[i] = batch[r][i + 1]
            /\ j + 1 \in DOMAIN batch[r] /\ b[j] = batch[r][j + 1]
        BY <3>0, EventFacts
      <4>2. i \in Nat /\ j \in Nat
        BY <3>0, EventFacts, LenProperties
      <4>3. i + 1 # j + 1
        BY <4>2
      <4> QED BY <4>1, <4>3, LoopType DEF LoopOk
    <3>3. \A d \in kick'[r] : Mine(r, d)'
      <4> TAKE d \in kick'[r]
      <4>1. d \in Cids /\ Mine(r, d)
        BY LoopType DEF LoopOk
      <4>2. CASE d # Event(r).c
        BY <1>4, <4>1, <4>2
      <4>3. CASE d = Event(r).c
        <5>1. conn'[d].st = "live"
          BY <4>1, <4>3, CidsFacts
        <5> QED BY <4>1, <5>1 DEF Mine, Live, ACC_GET_RID_BY_CID
      <4> QED BY <4>2, <4>3
    <3>4. clean'[r]
      BY EventFacts
    <3>5. batch'[r] = b
      BY <1>3, <3>0
    <3> QED BY <2>2, <3>1, <3>2, <3>3, <3>4, <3>5 DEF LoopOk
  <2> QED BY <2>1, <2>2
<1> QED BY <1>1, <1>3, <1>5 DEF Loops

(* The event in hand was read for, and is still to be written for. *)
LEMMA ReadDone ==
    ASSUME AInv, scene' = scene, NEW r \in Rsvrs, batch[r] # <<>>, InDone(r),
           clean' = clean, kick' = kick, Steady
    PROVE  Loops'
<1>1. /\ batch \in [Rsvrs -> Seq(Events)] /\ clean \in [Rsvrs -> BOOLEAN]
      /\ kick \in [Rsvrs -> SUBSET Cids] /\ Rsvrs' = Rsvrs
  BY DEF AInv, Loops, Rsvrs
<1>2. PICK e : e = [Event(r) EXCEPT !.in = FALSE]
  OBVIOUS
<1>3. e \in Events /\ e.c = Event(r).c
  BY <1>2, EventFacts DEF Events
<1>4. batch' = [batch EXCEPT ![r] = <<e>> \o Tail(batch[r])]
  BY <1>2 DEF InDone, Event
<1> HIDE <1>2
<1>5. PICK b : b = <<e>> \o Tail(batch[r])
  OBVIOUS
<1>6. /\ b \in Seq(Events) /\ DOMAIN b = DOMAIN batch[r] /\ b # <<>>
      /\ \A i \in DOMAIN b : b[i].c = batch[r][i].c
  <2>1. batch[r] \in Seq(Events) /\ Tail(batch[r]) \in Seq(Events) /\ Event(r) = batch[r][1]
        /\ Len(Tail(batch[r])) = Len(batch[r]) - 1 /\ Len(batch[r]) \in Nat /\ Len(batch[r]) > 0
        /\ \A i \in 1 .. Len(Tail(batch[r])) : Tail(batch[r])[i] = batch[r][i + 1]
    BY LoopType, EventFacts, HeadTailProperties, LenProperties DEF Event
  <2>2. <<e>> \in Seq(Events) /\ Len(<<e>>) = 1 /\ (<<e>>)[1] = e
    BY <1>3
  <2>3. /\ b \in Seq(Events) /\ Len(b) = 1 + Len(Tail(batch[r]))
        /\ \A i \in 1 .. Len(b) : b[i] = IF i <= 1 THEN (<<e>>)[i] ELSE Tail(batch[r])[i - 1]
    BY <1>5, <2>1, <2>2, ConcatProperties
  <2>4. Len(b) = Len(batch[r])
    BY <2>1, <2>3
  <2>5. DOMAIN b = 1 .. Len(batch[r]) /\ DOMAIN batch[r] = 1 .. Len(batch[r])
    BY <2>1, <2>3, <2>4, LenProperties
  <2>6. ASSUME NEW i \in 1 .. Len(batch[r])
        PROVE  b[i].c = batch[r][i].c
    <3>1. CASE i = 1
      BY <1>3, <2>1, <2>2, <2>3, <2>4, <3>1
    <3>2. CASE i > 1
      <4>1. b[i] = Tail(batch[r])[i - 1] /\ i - 1 \in 1 .. Len(Tail(batch[r])) /\ (i - 1) + 1 = i
        BY <2>1, <2>3, <2>4, <3>2
      <4> QED BY <2>1, <4>1
    <3> QED BY <2>1, <3>1, <3>2
  <2>7. b # <<>>
    BY <2>1, <2>3
  <2> QED BY <2>3, <2>5, <2>6, <2>7
<1>7. /\ batch' \in [Rsvrs -> Seq(Events)] /\ batch'[r] = b
      /\ \A x \in Rsvrs : x # r => batch'[x] = batch[x]
  BY <1>1, <1>4, <1>5, <1>6
<1>8. \A x, d : d \in Cids /\ Mine(x, d) => Mine(x, d)'
  BY DEF Mine, Live, ACC_GET_RID_BY_CID, Steady
<1>9. ASSUME NEW x \in Rsvrs
      PROVE  LoopOk(x)'
  <2>1. CASE x # r
    BY <1>7, <2>1, FrameLoop DEF Steady, Mine, Live
  <2>2. CASE x = r
    <3>1. /\ LoopOk(r) /\ kick[r] \subseteq Cids /\ clean[r]
          /\ \A i \in DOMAIN batch[r] : batch[r][i].c # 0 => batch[r][i].c \in Cids
      BY LoopType, EventFacts, CidsFacts, Limits
    <3>2. \A i \in DOMAIN b : b[i].c # 0 => Mine(r, b[i].c)'
      BY <1>6, <1>8, <3>1 DEF LoopOk
    <3>3. \A i, j \in DOMAIN b : b[i].c # 0 /\ i # j => b[i].c # b[j].c
      BY <1>6, <3>1 DEF LoopOk
    <3>4. \A d \in kick[r] : Mine(r, d)'
      BY <1>8, <3>1 DEF LoopOk
    <3> QED BY <1>7, <2>2, <3>1, <3>2, <3>3, <3>4 DEF LoopOk
  <2> QED BY <2>1, <2>2
<1> QED BY <1>1, <1>7, <1>9 DEF Loops

-----------------------------------------------------------------------------
(* A receiver. *)

(* One connection changes. *)
LEMMA OneConn ==
    ASSUME AInv, NEW c \in Cids, NEW t, ConnOk(t), conn' = [conn EXCEPT ![c] = t]
    PROVE  /\ Conns' /\ conn'[c] = t /\ \A d \in Cids : d # c => conn'[d] = conn[d]
           /\ t.st = conn[c].st => Steady
           /\ conn[c].st # "none" /\ t.st # "none" => Unknown
<1>1. /\ conn'[c] = t /\ DOMAIN conn' = Cids /\ \A d \in Cids : d # c => conn'[d] = conn[d]
  BY DEF AInv, Conns
<1>2. Conns'
  BY <1>1 DEF AInv, Conns
<1> QED BY <1>1, <1>2 DEF Steady, Unknown

(* Events of different connections are different. *)
LEMMA ReadyFacts ==
    ASSUME AInv, NEW r \in Rsvrs
    PROVE  /\ \A e \in Ready(r) : e \in Events /\ (e.c # 0 => Mine(r, e.c) /\ e = ConnEvent(e.c))
           /\ IsFiniteSet(Ready(r))
<1>1. CmdEvent \in Events /\ CmdEvent.c = 0
  BY Limits DEF CmdEvent, Events
<1>2. \A d \in Cids : ConnEvent(d) \in Events /\ ConnEvent(d).c = d
  BY CidsFacts, Limits DEF ConnEvent, Events, Readable
<1>3. \A e \in Ready(r) : e = CmdEvent \/ \E d \in Cids : e = ConnEvent(d) /\ Mine(r, d)
  BY DEF Ready, Mine
<1>4. \A e \in Ready(r) : e \in Events /\ (e.c # 0 => Mine(r, e.c) /\ e = ConnEvent(e.c))
  BY <1>1, <1>2, <1>3
<1>5. \A e \in Ready(r) : e.c = 0 => e = CmdEvent
  BY <1>2, <1>3, CidsFacts
<1>6. \A e \in Ready(r) : e.c \in 0 .. MaxCid
  BY <1>4 DEF Events
<1> DEFINE f == [e \in Ready(r) |-> e.c]
<1>7. f \in [Ready(r) -> 0 .. MaxCid] /\ \A a, b \in Ready(r) : f[a] = f[b] => a = b
  BY <1>4, <1>5, <1>6
<1>8. f \in Injection(Ready(r), 0 .. MaxCid)
  BY <1>7 DEF Injection, IsInjective
<1>9. IsFiniteSet(0 .. MaxCid)
  BY Limits, FS_Interval
<1> QED BY <1>4, <1>8, <1>9, FS_Injection

LEMMA Waited ==
    ASSUME AInv, NEW r \in Rsvrs, acc_rsvr_routine(r)
    PROVE  AInv'
<1>1. /\ scene' = scene /\ UNCHANGED lsnVars /\ UNCHANGED queueVars /\ cmd' = cmd /\ app' = app /\ kick' = kick
      /\ batch[r] = <<>> /\ ~clean[r] /\ clean' = [clean EXCEPT ![r] = TRUE]
  BY DEF acc_rsvr_routine
<1>2. PICK o \in SetToSeqs(Ready(r)) : batch' = [batch EXCEPT ![r] = o]
  BY DEF acc_rsvr_routine
<1>3. /\ conn' = [c \in Cids |-> conn'[c]]
      /\ \A c \in Cids : conn'[c] = conn[c] \/ conn'[c] = [conn[c] EXCEPT !.rdy = FALSE]
  BY Zenon DEF acc_rsvr_routine
<1>4. Conns' /\ Steady
  <2>1. ASSUME NEW c \in Cids
        PROVE  ConnOk(conn'[c]) /\ conn'[c].st = conn[c].st
    <3>1. ConnOk(conn[c])
      BY DEF AInv, Conns
    <3>2. Same(conn[c], [conn[c] EXCEPT !.rdy = FALSE])
      BY <3>1, OthersSame, Zenon
    <3>3. PICK t : t = [conn[c] EXCEPT !.rdy = FALSE]
      OBVIOUS
    <3>4. Same(conn[c], t) /\ (conn'[c] = conn[c] \/ conn'[c] = t)
      BY <1>3, <3>2, <3>3, Zenon
    <3> HIDE <3>2, <3>3
    <3> QED BY <3>1, <3>4, SameOk
  <2> QED BY <1>3, <2>1 DEF Conns, Steady
<1>5. /\ o \in Seq(Events) /\ DOMAIN o = 1 .. Cardinality(Ready(r))
      /\ \A i \in DOMAIN o : o[i] \in Ready(r)
      /\ \A i, j \in DOMAIN o : i # j => o[i] # o[j]
  <2>1. Cardinality(Ready(r)) \in Nat
    BY ReadyFacts, FS_CardinalityType
  <2>2. o \in [1 .. Cardinality(Ready(r)) -> Ready(r)] /\
        \A i, j \in 1 .. Cardinality(Ready(r)) : i # j => o[i] # o[j]
    BY <1>2 DEF SetToSeqs
  <2>3. o \in [1 .. Cardinality(Ready(r)) -> Events]
    BY <2>2, ReadyFacts
  <2> QED BY <2>1, <2>2, <2>3
<1>6. Loops'
  <2>1. /\ batch \in [Rsvrs -> Seq(Events)] /\ clean \in [Rsvrs -> BOOLEAN]
        /\ kick \in [Rsvrs -> SUBSET Cids] /\ Rsvrs' = Rsvrs
    BY <1>1 DEF AInv, Loops, Rsvrs
  <2>2. /\ batch' \in [Rsvrs -> Seq(Events)] /\ batch'[r] = o
        /\ clean' \in [Rsvrs -> BOOLEAN] /\ clean'[r] = TRUE
        /\ \A x \in Rsvrs : x # r => batch'[x] = batch[x] /\ clean'[x] = clean[x]
    BY <1>1, <1>2, <1>5, <2>1
  <2>3. \A x, d : d \in Cids /\ Mine(x, d) => Mine(x, d)'
    BY <1>1, <1>4 DEF Mine, Live, ACC_GET_RID_BY_CID, Steady
  <2>4. ASSUME NEW x \in Rsvrs
        PROVE  LoopOk(x)'
    <3>1. CASE x # r
      BY <1>1, <1>4, <2>2, <3>1, FrameLoop DEF Steady, Mine, Live
    <3>2. CASE x = r
      <4>1. kick[r] = {}
        BY <1>1, LoopType DEF LoopOk
      <4>2. ASSUME NEW i \in DOMAIN o, o[i].c # 0
            PROVE  Mine(r, o[i].c)' /\ o[i] = ConnEvent(o[i].c)
        <5>1. o[i] \in Events /\ Mine(r, o[i].c) /\ o[i] = ConnEvent(o[i].c)
          BY <1>5, <4>2, ReadyFacts
        <5>2. o[i].c \in Cids
          BY <4>2, <5>1, CidsFacts, Limits DEF Events
        <5> QED BY <2>3, <5>1, <5>2
      <4>3. \A i, j \in DOMAIN o : o[i].c # 0 /\ i # j => o[i].c # o[j].c
        BY <1>5, <4>2
      <4> QED BY <1>1, <2>2, <3>2, <4>1, <4>2, <4>3 DEF LoopOk
    <3> QED BY <3>1, <3>2
  <2> QED BY <1>1, <2>1, <2>2, <2>4 DEF Loops
<1> QED BY <1>1, <1>4, <1>6, SteadyUnknown, FrameAccepts, FrameQueues, FrameQueued DEF AInv, queueVars

LEMMA KickedEvent ==
    ASSUME AInv, NEW r \in Rsvrs, acc_rsvr_event_kicked(r)
    PROVE  AInv'
<1> DEFINE c == Event(r).c
<1>1. /\ scene' = scene /\ UNCHANGED lsnVars /\ UNCHANGED queueVars /\ cmd' = cmd /\ app' = app /\ clean' = clean
      /\ batch[r] # <<>> /\ c # 0 /\ Handled(r)
      /\ kick' = [kick EXCEPT ![r] = @ \ {c}]
      /\ conn' = [conn EXCEPT ![c] = acc_rsvr_del_conn(conn[c])]
  BY DEF acc_rsvr_event_kicked, IsKicked, OnConn, acc_rsvr_kick_del, pipeVars
<1>2. c \in Cids /\ Mine(r, c) /\ ConnOk(conn[c])
  BY <1>1, EventFacts DEF AInv, Conns
<1> HIDE DEF c
<1>3. /\ Conns' /\ Unknown /\ \A d \in Cids : d # c => conn'[d] = conn[d]
  BY <1>1, <1>2, DeletedOk, OneConn DEF Mine, Live
<1>4. /\ kick' \in [Rsvrs -> SUBSET Cids] /\ kick'[r] = kick[r] \ {c}
      /\ \A x \in Rsvrs : x # r => kick'[x] = kick[x]
  BY <1>1 DEF AInv, Loops
<1>5. Loops'
  BY <1>1, <1>3, <1>4, HeadGoes DEF c
<1> QED BY <1>1, <1>3, <1>5, FrameAccepts, FrameQueues, FrameQueued DEF AInv, queueVars

LEMMA CommandsDone ==
    ASSUME AInv, NEW r \in Rsvrs, acc_rsvr_cmd_done(r)
    PROVE  AInv'
<1>1. /\ scene' = scene /\ UNCHANGED lsnVars /\ UNCHANGED queueVars /\ cmd' = cmd /\ app' = app /\ clean' = clean
      /\ batch[r] # <<>> /\ Event(r).c = 0 /\ Handled(r) /\ kick' = kick /\ conn' = conn
  BY DEF acc_rsvr_cmd_done, pipeVars
<1>2. Conns' /\ Steady /\ Unknown
  BY <1>1, FrameConns
<1>3. kick \in [Rsvrs -> SUBSET Cids]
  BY DEF AInv, Loops
<1>4. Loops'
  BY <1>1, <1>3, HeadGoes
<1> QED BY <1>1, <1>2, <1>4, FrameAccepts, FrameQueues, FrameQueued DEF AInv, queueVars

(* A command is taken from the pipe. *)
LEMMA CommandTaken ==
    ASSUME AInv, NEW r \in Rsvrs, cmd[r] # <<>>, TakeCmd(r)
    PROVE  cmd' \in [Rsvrs -> Seq(Commands)] /\ \A x \in Rsvrs : Len(cmd'[x]) <= PipeMax
<1>1. cmd \in [Rsvrs -> Seq(Commands)] /\ \A x \in Rsvrs : Len(cmd[x]) <= PipeMax
  BY DEF AInv, Queues
<1>2. cmd[r] \in Seq(Commands)
  BY <1>1
<1>3. Tail(cmd[r]) \in Seq(Commands) /\ Len(Tail(cmd[r])) = Len(cmd[r]) - 1 /\ Len(cmd[r]) \in Nat
  BY <1>2, HeadTailProperties, LenProperties
<1>4. Len(Tail(cmd[r])) <= PipeMax
  BY <1>1, <1>3, Limits
<1> QED BY <1>1, <1>3, <1>4 DEF TakeCmd

(* A queue is emptied. *)
LEMMA Emptied ==
    ASSUME NEW D, NEW S, NEW q \in [D -> Seq(S)], NEW r \in D
    PROVE  /\ [q EXCEPT ![r] = <<>>] \in [D -> Seq(S)]
           /\ \A x \in D : [q EXCEPT ![r] = <<>>][x] = q[x] \/ [q EXCEPT ![r] = <<>>][x] = <<>>
           /\ Len(<<>>) = 0
BY EmptySeq

LEMMA Adds ==
    ASSUME AInv, NEW r \in Rsvrs, acc_rsvr_add_conn(r)
    PROVE  AInv'
<1>1. /\ scene' = scene /\ UNCHANGED lsnVars /\ app' = app /\ UNCHANGED loopVars
      /\ sendq' = sendq /\ kickq' = kickq /\ kickfree' = kickfree
      /\ cmd[r] # <<>> /\ TakeCmd(r) /\ connq' = [connq EXCEPT ![r] = <<>>]
  BY DEF acc_rsvr_add_conn, OnCmd
<1>2. conn' = [c \in Cids |-> IF Contains(connq[r], c) THEN EpollArm(StIs(conn[c], "live"), {"IN"}) ELSE conn[c]]
  BY DEF acc_rsvr_add_conn, StIs
<1>3. ASSUME NEW c \in Cids
      PROVE  /\ ConnOk(conn'[c]) /\ (conn[c].st = "live" => conn'[c].st = "live")
             /\ (conn'[c].st # conn[c].st => Contains(connq[r], c))
  <2>1. ConnOk(conn[c])
    BY DEF AInv, Conns
  <2>2. ConnOk(StIs(conn[c], "live")) /\ StIs(conn[c], "live").st = "live"
    BY <2>1, StIsOk
  <2>3. ConnOk(EpollArm(StIs(conn[c], "live"), {"IN"})) /\ EpollArm(StIs(conn[c], "live"), {"IN"}).st = "live"
    BY <2>2, ArmOk
  <2> QED BY <1>2, <2>1, <2>3
<1>4. Conns'
  BY <1>2, <1>3 DEF Conns
<1>5. Loops'
  <2>1. Rsvrs' = Rsvrs /\ batch' = batch /\ clean' = clean /\ kick' = kick
    BY <1>1 DEF Rsvrs, loopVars
  <2>2. \A x \in Rsvrs : LoopOk(x)'
    BY <1>1, <1>3, <2>1, FrameLoop DEF Mine, Live
  <2> QED BY <2>1, <2>2 DEF AInv, Loops
<1>6. Queues'
  <2>1. Rsvrs' = Rsvrs
    BY <1>1 DEF Rsvrs
  <2>2. cmd' \in [Rsvrs -> Seq(Commands)] /\ \A x \in Rsvrs : Len(cmd'[x]) <= PipeMax
    BY <1>1, CommandTaken
  <2>3. connq \in [Rsvrs -> Seq(Cids)] /\ \A x \in Rsvrs : Len(connq[x]) <= ConnqMax
    BY DEF AInv, Queues
  <2>4. connq' \in [Rsvrs -> Seq(Cids)] /\ \A x \in Rsvrs : Len(connq'[x]) <= ConnqMax
    BY <1>1, <2>3, Emptied, Limits
  <2> QED BY <1>1, <2>1, <2>2, <2>4 DEF AInv, Queues
<1>7. Unknown
  <2>1. connq[r] \in Seq(Cids)
    BY DEF AInv, Queues
  <2>2. \A c \in Cids : Contains(connq[r], c) => conn[c].st # "none"
    BY <2>1, LenProperties DEF AInv, Queued, Contains
  <2>3. ASSUME NEW c \in Cids
        PROVE  conn'[c].st # conn[c].st => conn'[c].st = "live"
    BY <1>2, <1>3, StIsOk, ArmOk DEF AInv, Conns
  <2> QED BY <1>3, <2>2, <2>3 DEF Unknown
<1>8. Accepts'
  BY <1>1, <1>7, FrameAccepts
<1>9. Queued'
  <2>1. Rsvrs' = Rsvrs /\ DOMAIN (<<>>) = {}
    BY <1>1 DEF Rsvrs
  <2>2. \A x \in Rsvrs : connq'[x] = connq[x] \/ connq'[x] = <<>>
    BY <1>1 DEF AInv, Queues
  <2>3. \A x \in Rsvrs : \A i \in DOMAIN connq[x] : connq[x][i] \in Cids /\ conn[connq[x][i]].st # "none"
    <3> TAKE x \in Rsvrs
    <3>1. connq[x] \in Seq(Cids)
      BY DEF AInv, Queues
    <3> QED BY <3>1 DEF AInv, Queued
  <2> QED BY <1>7, <2>1, <2>2, <2>3 DEF Queued, Unknown
<1> QED BY <1>1, <1>4, <1>5, <1>6, <1>8, <1>9 DEF AInv

(* What acc_rsvr_dist_send_data adds to the list of a connection. *)
ItemsOf(r, c) == SelectSeq(sendq[r], LAMBDA it : it.c = c)
Listed(s, v) == [s EXCEPT !.list = v]

LEMMA ListedOk ==
    ASSUME NEW s, ConnOk(s), NEW v
    PROVE  ConnOk(Listed(s, v)) /\ Listed(s, v).st = s.st
BY OthersSame, SameOk DEF Listed

LEMMA Distributes ==
    ASSUME AInv, NEW r \in Rsvrs, acc_rsvr_dist_send_data(r)
    PROVE  AInv'
<1>1. /\ scene' = scene /\ UNCHANGED lsnVars /\ app' = app /\ UNCHANGED loopVars
      /\ connq' = connq /\ kickq' = kickq /\ kickfree' = kickfree
      /\ cmd[r] # <<>> /\ TakeCmd(r) /\ sendq' = [sendq EXCEPT ![r] = <<>>]
  BY DEF acc_rsvr_dist_send_data, OnCmd
<1>2. conn' = [c \in Cids |-> IF ~Live(c) \/ ItemsOf(r, c) = <<>> THEN conn[c]
                              ELSE EpollArm(Listed(conn[c], conn[c].list \o ItemsOf(r, c)), {"OUT"})]
  BY Zenon DEF acc_rsvr_dist_send_data, ItemsOf, Listed
<1>3. ASSUME NEW c \in Cids
      PROVE  ConnOk(conn'[c]) /\ conn'[c].st = conn[c].st
  <2>1. ConnOk(conn[c])
    BY DEF AInv, Conns
  <2>2. PICK v : v = conn[c].list \o ItemsOf(r, c)
    OBVIOUS
  <2>3. conn'[c] = conn[c] \/ conn'[c] = EpollArm(Listed(conn[c], v), {"OUT"})
    BY <1>2, <2>2
  <2>4. ConnOk(Listed(conn[c], v)) /\ Listed(conn[c], v).st = conn[c].st
    BY <2>1, ListedOk
  <2>5. /\ ConnOk(EpollArm(Listed(conn[c], v), {"OUT"}))
        /\ EpollArm(Listed(conn[c], v), {"OUT"}).st = conn[c].st
    BY <2>4, ArmOk
  <2> QED BY <2>1, <2>3, <2>5
<1>4. Conns' /\ Steady /\ Unknown
  BY <1>2, <1>3 DEF Conns, Steady, Unknown
<1>5. Queues'
  <2>1. Rsvrs' = Rsvrs
    BY <1>1 DEF Rsvrs
  <2>2. cmd' \in [Rsvrs -> Seq(Commands)] /\ \A x \in Rsvrs : Len(cmd'[x]) <= PipeMax
    BY <1>1, CommandTaken
  <2>3. sendq \in [Rsvrs -> Seq(ToSet(scene.calls))] /\ \A x \in Rsvrs : Len(sendq[x]) <= SendqMax
    BY DEF AInv, Queues
  <2>4. sendq' \in [Rsvrs -> Seq(ToSet(scene.calls))] /\ \A x \in Rsvrs : Len(sendq'[x]) <= SendqMax
    BY <1>1, <2>3, Emptied, Limits
  <2> QED BY <1>1, <2>1, <2>2, <2>4 DEF AInv, Queues
<1> QED BY <1>1, <1>4, <1>5, FrameAccepts, FrameLoops, FrameQueued DEF AInv

(* A kick only enters live connections of this receiver in the kick list.    *)
LEMMA KickListed ==
    ASSUME AInv, Owned, NEW r \in Rsvrs, acc_rsvr_kick_conn(r)
    PROVE  AInv'
<1> DEFINE K == {c \in ToSet(kickq[r]) : Live(c)}
<1>1. /\ scene' = scene /\ UNCHANGED lsnVars /\ app' = app /\ batch' = batch /\ clean' = clean
      /\ connq' = connq /\ sendq' = sendq /\ kickfree' = kickfree /\ conn' = conn
      /\ cmd[r] # <<>> /\ TakeCmd(r) /\ kickq' = [kickq EXCEPT ![r] = <<>>]
      /\ batch[r] # <<>> /\ kick' = [kick EXCEPT ![r] = @ \cup K]
  BY DEF acc_rsvr_kick_conn, OnCmd, acc_rsvr_kick_add
<1>2. Conns' /\ Steady /\ Unknown
  BY <1>1, FrameConns
<1>3. Queues'
  <2>1. Rsvrs' = Rsvrs
    BY <1>1 DEF Rsvrs
  <2>2. cmd' \in [Rsvrs -> Seq(Commands)] /\ \A x \in Rsvrs : Len(cmd'[x]) <= PipeMax
    BY <1>1, CommandTaken
  <2>3. /\ kickq \in [Rsvrs -> Seq(Cids)] /\ kickfree \in [Rsvrs -> 0 .. KickqMax]
        /\ \A x \in Rsvrs : Len(kickq[x]) + kickfree[x] <= KickqMax
    BY DEF AInv, Queues
  <2>4. kickq' \in [Rsvrs -> Seq(Cids)] /\ \A x \in Rsvrs : kickq'[x] = kickq[x] \/ kickq'[x] = <<>>
    BY <1>1, <2>3, Emptied
  <2>5. \A x \in Rsvrs : Len(kickq'[x]) + kickfree[x] <= KickqMax
    BY <2>3, <2>4, Limits
  <2> QED BY <1>1, <2>1, <2>2, <2>4, <2>5 DEF AInv, Queues
<1>4. Loops'
  <2>1. \A c \in K : c \in Cids /\ Mine(r, c)
    <3>1. kickq[r] \in Seq(Cids)
      BY DEF AInv, Queues
    <3> QED BY <3>1 DEF ToSet, Owned, Mine
  <2> HIDE DEF K
  <2>2. /\ kick \in [Rsvrs -> SUBSET Cids] /\ Rsvrs' = Rsvrs
    BY <1>1 DEF AInv, Loops, Rsvrs
  <2>3. /\ kick' \in [Rsvrs -> SUBSET Cids] /\ kick'[r] = kick[r] \cup K
        /\ \A x \in Rsvrs : x # r => kick'[x] = kick[x]
    BY <1>1, <2>1, <2>2
  <2>4. \A x, c : Mine(x, c)' <=> Mine(x, c)
    BY <1>1 DEF Mine, Live, ACC_GET_RID_BY_CID
  <2>5. ASSUME NEW x \in Rsvrs
        PROVE  LoopOk(x)'
    <3>1. CASE x # r
      BY <1>1, <2>3, <3>1, FrameLoop DEF Mine, Live
    <3>2. CASE x = r
      <4>1. LoopOk(r) /\ clean[r]
        BY <1>1, LoopType, EventFacts
      <4>2. \A i \in DOMAIN batch[r] : batch[r][i].c # 0 => Mine(r, batch[r][i].c)
        BY <4>1 DEF LoopOk
      <4>3. \A c \in kick[r] \cup K : Mine(r, c)
        BY <2>1, <4>1 DEF LoopOk
      <4> QED BY <1>1, <2>3, <2>4, <3>2, <4>1, <4>2, <4>3 DEF LoopOk
    <3> QED BY <3>1, <3>2
  <2> QED BY <1>1, <2>2, <2>3, <2>5 DEF AInv, Loops
<1> QED BY <1>1, <1>2, <1>3, <1>4, FrameAccepts, FrameQueued DEF AInv

(* What every handler of a socket's event leaves alone. *)
LEMMA SocketFrame ==
    ASSUME AInv, UNCHANGED <<scene, lsnVars, queueVars, pipeVars, app>>, Conns', Unknown, Loops'
    PROVE  AInv'
BY FrameAccepts, FrameQueues, FrameQueued DEF AInv, queueVars, pipeVars

(* The event in hand closes its connection, which is not in the kick list.   *)
LEMMA Closes ==
    ASSUME AInv, NEW r \in Rsvrs, OnConn(r), ~IsKicked(r), Handled(r), NEW t, ConnOk(t), t.st = "gone",
           conn' = [conn EXCEPT ![Event(r).c] = t],
           UNCHANGED <<scene, lsnVars, queueVars, pipeVars, kick, clean, app>>
    PROVE  AInv'
<1>1. batch[r] # <<>> /\ Event(r).c # 0 /\ Event(r).c \notin kick[r] /\ kick' = kick /\ clean' = clean /\ scene' = scene
  BY DEF OnConn, IsKicked
<1>2. Event(r).c \in Cids /\ conn[Event(r).c].st = "live" /\ kick \in [Rsvrs -> SUBSET Cids]
  BY <1>1, EventFacts DEF Mine, Live, AInv, Loops
<1>3. Conns' /\ Unknown /\ \A d \in Cids : d # Event(r).c => conn'[d] = conn[d]
  BY <1>2, OneConn
<1>4. Loops'
  BY <1>1, <1>2, <1>3, HeadGoes
<1> QED BY <1>3, <1>4, SocketFrame

(* The event in hand leaves its connection live; the batch is as it was, or  *)
(* the event is done with, or is only read for.                              *)
LEMMA StaysOpen ==
    ASSUME AInv, NEW r \in Rsvrs, OnConn(r), NEW t, ConnOk(t), t.st = "live",
           conn' = [conn EXCEPT ![Event(r).c] = t],
           Handled(r) \/ InDone(r) \/ batch' = batch,
           UNCHANGED <<scene, lsnVars, queueVars, pipeVars, kick, clean, app>>
    PROVE  AInv'
<1>1. batch[r] # <<>> /\ Event(r).c # 0 /\ kick' = kick /\ clean' = clean /\ scene' = scene
  BY DEF OnConn
<1>2. Event(r).c \in Cids /\ conn[Event(r).c].st = "live" /\ kick \in [Rsvrs -> SUBSET Cids]
  BY <1>1, EventFacts DEF Mine, Live, AInv, Loops
<1>3. Conns' /\ Unknown /\ Steady /\ conn'[Event(r).c] = t
  BY <1>2, OneConn
<1>4. CASE Handled(r)
  <2>1. Loops'
    BY <1>1, <1>2, <1>3, <1>4, HeadGoes DEF Steady
  <2> QED BY <1>3, <2>1, SocketFrame
<1>5. CASE InDone(r)
  <2>1. Loops'
    BY <1>1, <1>3, <1>5, ReadDone
  <2> QED BY <1>3, <2>1, SocketFrame
<1>6. CASE batch' = batch
  <2>1. Loops'
    BY <1>1, <1>3, <1>6, FrameLoops DEF loopVars
  <2> QED BY <1>3, <2>1, SocketFrame
<1> QED BY <1>4, <1>5, <1>6

(* The connection of the event in hand. *)
LEMMA SckFacts ==
    ASSUME AInv, NEW r \in Rsvrs, OnConn(r)
    PROVE  Event(r).c \in Cids /\ Sck(r) = conn[Event(r).c] /\ ConnOk(Sck(r)) /\ Sck(r).st = "live"
<1>1. batch[r] # <<>> /\ Event(r).c # 0
  BY DEF OnConn
<1> QED BY <1>1, EventFacts DEF Sck, Mine, Live, AInv, Conns

LEMMA ReadEnds ==
    ASSUME AInv, NEW r \in Rsvrs, acc_recv_end(r)
    PROVE  AInv'
<1> DEFINE s == Allocated(Sck(r))
<1>1. /\ OnConn(r) /\ ~IsKicked(r)
      /\ UNCHANGED <<scene, lsnVars, queueVars, pipeVars, kick, clean, app>>
      /\ \/ InDone(r) /\ conn' = [conn EXCEPT ![Event(r).c] = s]
         \/ Handled(r) /\ conn' = [conn EXCEPT ![Event(r).c] = acc_rsvr_del_conn(Released(s))]
  BY DEF acc_recv_end, Reading, RecvFailed
<1>2. ConnOk(s) /\ s.st = "live" /\ s.addr
  BY <1>1, SckFacts, AllocatedOk
<1> HIDE DEF s
<1>3. ConnOk(acc_rsvr_del_conn(Released(s))) /\ acc_rsvr_del_conn(Released(s)).st = "gone"
  BY <1>2, FailedOk
<1> QED BY <1>1, <1>2, <1>3, Closes, StaysOpen

(* A connection after a part of a packet: handed up, or waiting for the body. *)
Rest(s) == [s EXCEPT !.in = Tail(@)]
HandedUp(s) == [Released(s) EXCEPT !.phase = "INIT"]
InBody(s, u) == [s EXCEPT !.phase = "BODY", !.head = u]

LEMMA RestOk ==
    ASSUME NEW s, ConnOk(s), s.st = "live", s.addr
    PROVE  ConnOk(Rest(s)) /\ Rest(s).st = "live" /\ Rest(s).addr
BY DEF ConnOk, ConnFields, Rest

LEMMA InBodyOk ==
    ASSUME NEW s, ConnOk(s), s.st = "live", s.addr, NEW u
    PROVE  ConnOk(InBody(s, u)) /\ InBody(s, u).st = "live"
BY DEF ConnOk, ConnFields, InBody

LEMMA PartRead ==
    ASSUME AInv, NEW r \in Rsvrs, acc_recv_data(r)
    PROVE  AInv'
<1> DEFINE s == Allocated(Sck(r))
           u == Head(s.in)
           t == Rest(s)
<1>1. /\ OnConn(r) /\ ~IsKicked(r)
      /\ UNCHANGED <<scene, lsnVars, queueVars, pipeVars, kick, clean, app>>
  BY DEF acc_recv_data, Reading
<1>2. \/ batch' = batch /\ conn' = [conn EXCEPT ![Event(r).c] = HandedUp(t)]
      \/ Handled(r) /\ conn' = [conn EXCEPT ![Event(r).c] = acc_rsvr_del_conn(Released(t))]
      \/ batch' = batch /\ conn' = [conn EXCEPT ![Event(r).c] = InBody(t, u)]
  BY Zenon DEF acc_recv_data, acc_recv_post_hdl, HandedUp, InBody, Rest
<1>3. ConnOk(s) /\ s.st = "live" /\ s.addr
  BY <1>1, SckFacts, AllocatedOk
<1> HIDE DEF s, u
<1>4. ConnOk(t) /\ t.st = "live" /\ t.addr
  BY <1>3, RestOk
<1> HIDE DEF t
<1>5. ConnOk(acc_rsvr_del_conn(Released(t))) /\ acc_rsvr_del_conn(Released(t)).st = "gone"
  BY <1>4, FailedOk
<1>6. ConnOk(HandedUp(t)) /\ HandedUp(t).st = "live"
  BY <1>4, ReleasedOk DEF HandedUp
<1>7. ConnOk(InBody(t, u)) /\ InBody(t, u).st = "live"
  BY <1>4, InBodyOk
<1> QED BY <1>1, <1>2, <1>4, <1>5, <1>6, <1>7, Closes, StaysOpen

(* Writing: nothing of it touches the buffer of the packet being read. *)
Written(s) == [s EXCEPT !.wr = 0]
FullIs(s, f) == [s EXCEPT !.full = f]
NoItem(s) == [s EXCEPT !.cur = None]

LEMMA WritingOk ==
    ASSUME NEW s, ConnOk(s), NEW f
    PROVE  /\ ConnOk(Written(s)) /\ Written(s).st = s.st
           /\ ConnOk(FullIs(s, f)) /\ FullIs(s, f).st = s.st
           /\ ConnOk(NoItem(s)) /\ NoItem(s).st = s.st
BY OthersSame, SameOk DEF Written, FullIs, NoItem

LEMMA NextItemOk ==
    ASSUME NEW s, ConnOk(s)
    PROVE  ConnOk(NextItem(s)) /\ NextItem(s).st = s.st
<1>1. CASE s.cur # None
  BY <1>1 DEF NextItem
<1>2. CASE s.cur = None
  <2> DEFINE t == [s EXCEPT !.cur = Head(s.list).item, !.off = 0, !.list = Tail(@)]
  <2>1. /\ DOMAIN t = ConnFields /\ t.st = s.st /\ t.phase = s.phase /\ t.mask = s.mask /\ t.off = 0
        /\ t.addr = s.addr /\ t.ref = s.ref
    BY DEF ConnOk, ConnFields
  <2>2. NextItem(s) = t
    BY <1>2 DEF NextItem
  <2> HIDE DEF t
  <2> QED BY <2>1, <2>2 DEF ConnOk
<1> QED BY <1>1, <1>2

LEMMA PartlyOk ==
    ASSUME NEW s, ConnOk(s), s.off = 0
    PROVE  ConnOk(Partly(s)) /\ Partly(s).st = s.st
BY DEF ConnOk, ConnFields, Partly

LEMMA SentOk ==
    ASSUME NEW s, ConnOk(s)
    PROVE  ConnOk(Sent(s)) /\ Sent(s).st = s.st
<1>1. ConnOk(NoItem(s)) /\ NoItem(s).st = s.st
  BY WritingOk
<1>2. PICK m : m = IF s.list = <<>> THEN {"IN"} ELSE {"IN", "OUT"}
  OBVIOUS
<1>3. m \subseteq {"IN", "OUT"} /\ Sent(s) = EpollArm(NoItem(s), m)
  BY <1>2 DEF Sent, NoItem
<1> QED BY <1>1, <1>3, ArmOk

LEMMA Writes ==
    ASSUME AInv, NEW r \in Rsvrs, acc_send_data(r)
    PROVE  AInv'
<1> DEFINE c == Event(r).c
           s == NextItem(Written(Sck(r)))
<1>1. /\ OnConn(r) /\ ~IsKicked(r)
      /\ UNCHANGED <<scene, lsnVars, queueVars, pipeVars, kick, clean, app>>
  BY DEF acc_send_data, Writing
<1>2. \/ Handled(r) /\ conn' = [conn EXCEPT ![c] = Written(conn[c])]
      \/ Handled(r) /\ conn' = conn
      \/ Handled(r) /\ conn' = [conn EXCEPT ![c] = acc_rsvr_del_conn(s)]
      \/ Handled(r) /\ s.off = 0 /\ conn' = [conn EXCEPT ![c] = Partly(s)]
      \/ batch' = batch /\ \E f \in {FALSE, scene.slow} : conn' = [conn EXCEPT ![c] = Sent(FullIs(s, f))]
  BY Zenon DEF acc_send_data, Written, FullIs
<1>3. c \in Cids /\ Sck(r) = conn[c] /\ ConnOk(conn[c]) /\ conn[c].st = "live"
  BY <1>1, SckFacts
<1>4. ConnOk(Written(conn[c])) /\ Written(conn[c]).st = "live"
  BY <1>3, WritingOk
<1>5. ConnOk(s) /\ s.st = "live"
  BY <1>3, <1>4, NextItemOk
<1> HIDE DEF s
<1>6. CASE Handled(r) /\ conn' = [conn EXCEPT ![c] = Written(conn[c])]
  BY <1>1, <1>4, <1>6, StaysOpen
<1>7. CASE Handled(r) /\ conn' = conn
  <2>1. Conns' /\ Steady /\ Unknown
    BY <1>7, FrameConns
  <2>2. batch[r] # <<>> /\ kick' = kick /\ clean' = clean /\ scene' = scene /\ kick \in [Rsvrs -> SUBSET Cids]
    BY <1>1 DEF OnConn, AInv, Loops
  <2>3. Loops'
    BY <1>3, <1>7, <2>2, HeadGoes
  <2> QED BY <1>1, <2>1, <2>3, SocketFrame
<1>8. CASE Handled(r) /\ conn' = [conn EXCEPT ![c] = acc_rsvr_del_conn(s)]
  BY <1>1, <1>5, <1>8, DeletedOk, Closes
<1>9. CASE Handled(r) /\ s.off = 0 /\ conn' = [conn EXCEPT ![c] = Partly(s)]
  BY <1>1, <1>5, <1>9, PartlyOk, StaysOpen
<1>10. CASE batch' = batch /\ \E f \in {FALSE, scene.slow} : conn' = [conn EXCEPT ![c] = Sent(FullIs(s, f))]
  <2>1. PICK f : conn' = [conn EXCEPT ![c] = Sent(FullIs(s, f))]
    BY <1>10
  <2>2. ConnOk(FullIs(s, f)) /\ FullIs(s, f).st = "live"
    BY <1>5, WritingOk
  <2>3. ConnOk(Sent(FullIs(s, f))) /\ Sent(FullIs(s, f)).st = "live"
    BY <2>2, SentOk
  <2> QED BY <1>1, <1>10, <2>1, <2>3, StaysOpen
<1> QED BY <1>2, <1>6, <1>7, <1>8, <1>9, <1>10

(* Some connections of a receiver that has no batch in hand are deleted, and *)
(* its kick list names none of them any more.                                *)
LEMMA SomeClose ==
    ASSUME AInv, NEW r \in Rsvrs, batch[r] = <<>>, NEW gone, \A c \in Cids : c \in gone => Mine(r, c),
           conn' = [c \in Cids |-> IF c \in gone THEN acc_rsvr_del_conn(conn[c]) ELSE conn[c]],
           kick' = [kick EXCEPT ![r] = @ \ gone],
           kick[r] \subseteq gone \/ clean' = clean,
           batch' = batch, clean' \in [Rsvrs -> BOOLEAN], \A x \in Rsvrs : x # r => clean'[x] = clean[x],
           UNCHANGED <<scene, lsnVars, queueVars, pipeVars, app>>
    PROVE  AInv'
<1>1. ASSUME NEW c \in Cids
      PROVE  ConnOk(conn'[c]) /\ (c \in gone => conn'[c].st = "gone") /\ (c \notin gone => conn'[c] = conn[c])
  BY DeletedOk DEF AInv, Conns
<1>2. Conns' /\ Unknown
  BY <1>1 DEF Conns, Unknown, Mine, Live
<1>3. /\ kick' \in [Rsvrs -> SUBSET Cids] /\ kick'[r] = kick[r] \ gone
      /\ \A x \in Rsvrs : x # r => kick'[x] = kick[x]
  BY DEF AInv, Loops
<1>4. scene' = scene /\ Rsvrs' = Rsvrs /\ batch \in [Rsvrs -> Seq(Events)]
  BY DEF Rsvrs, AInv, Loops
<1>5. ASSUME NEW x \in Rsvrs
      PROVE  LoopOk(x)'
  <2>1. CASE x # r
    <3>1. \A d \in Cids : Mine(x, d) => d \notin gone
      BY <2>1, Others
    <3>2. \A d \in Cids : Mine(x, d) => conn'[d].st = "live"
      BY <1>1, <3>1 DEF Mine, Live
    <3> QED BY <1>3, <1>4, <2>1, <3>2, FrameLoop
  <2>2. CASE x = r
    <3>1. LoopOk(r) /\ kick[r] \subseteq Cids /\ DOMAIN (<<>>) = {}
      BY LoopType
    <3>2. ASSUME NEW d \in kick'[r]
          PROVE  Mine(r, d)'
      <4>1. d \in kick[r] /\ d \notin gone
        BY <1>3, <3>2
      <4>2. d \in Cids /\ Mine(r, d)
        BY <3>1, <4>1 DEF LoopOk
      <4>3. conn'[d] = conn[d]
        BY <1>1, <4>1, <4>2
      <4> QED BY <1>4, <4>2, <4>3 DEF Mine, Live, ACC_GET_RID_BY_CID
    <3>3. ~clean'[r] => kick'[r] = {}
      BY <1>3, <3>1 DEF LoopOk
    <3> QED BY <2>2, <3>1, <3>2, <3>3 DEF LoopOk
  <2> QED BY <2>1, <2>2
<1>6. Loops'
  BY <1>3, <1>4, <1>5 DEF Loops
<1> QED BY <1>2, <1>6, SocketFrame

LEMMA KickCleaned ==
    ASSUME AInv, NEW r \in Rsvrs, acc_rsvr_kick_clean(r)
    PROVE  AInv'
<1>1. /\ batch[r] = <<>> /\ clean' = [clean EXCEPT ![r] = FALSE] /\ batch' = batch
      /\ conn' = [c \in Cids |-> IF c \in kick[r] /\ Live(c) THEN acc_rsvr_del_conn(conn[c]) ELSE conn[c]]
      /\ kick' = [kick EXCEPT ![r] = {c \in @ : ~Live(c)}]
      /\ UNCHANGED <<scene, lsnVars, queueVars, pipeVars, app>>
  BY DEF acc_rsvr_kick_clean
<1>2. \A c \in kick[r] : Mine(r, c) /\ Live(c)
  BY LoopType DEF LoopOk, Mine
<1>3. PICK gone : gone = kick[r]
  OBVIOUS
<1>4. conn' = [c \in Cids |-> IF c \in gone THEN acc_rsvr_del_conn(conn[c]) ELSE conn[c]]
  BY <1>1, <1>2, <1>3
<1>5. {c \in kick[r] : ~Live(c)} = kick[r] \ gone
  BY <1>2, <1>3
<1>6. kick' = [kick EXCEPT ![r] = @ \ gone]
  BY <1>1, <1>5
<1>7. clean' \in [Rsvrs -> BOOLEAN] /\ \A x \in Rsvrs : x # r => clean'[x] = clean[x]
  BY <1>1 DEF AInv, Loops
<1>8. (\A c \in Cids : c \in gone => Mine(r, c)) /\ kick[r] \subseteq gone
  BY <1>2, <1>3
<1> HIDE <1>3
<1> QED BY <1>1, <1>4, <1>6, <1>7, <1>8, SomeClose

LEMMA IdleClosed ==
    ASSUME AInv, NEW r \in Rsvrs, acc_rsvr_timeout_hdl(r)
    PROVE  AInv'
<1>1. PICK gone : gone = {c \in Cids : Idle(c) /\ ACC_GET_RID_BY_CID(c) = r}
  OBVIOUS
<1>2. /\ batch[r] = <<>> /\ clean' = clean /\ batch' = batch
      /\ conn' = [c \in Cids |-> IF c \in gone THEN acc_rsvr_del_conn(conn[c]) ELSE conn[c]]
      /\ kick' = [kick EXCEPT ![r] = @ \ gone]
      /\ UNCHANGED <<scene, lsnVars, queueVars, pipeVars, app>>
  BY <1>1 DEF acc_rsvr_timeout_hdl, acc_rsvr_kick_del
<1>3. \A c \in Cids : c \in gone => Mine(r, c)
  BY <1>1 DEF Idle, Mine
<1>4. clean \in [Rsvrs -> BOOLEAN]
  BY DEF AInv, Loops
<1> QED BY <1>2, <1>3, <1>4, SomeClose

-----------------------------------------------------------------------------
(* The clients and the time. *)

(* Parts of a connection that its client, or time, changes. *)
LEMMA ClientFrame ==
    ASSUME AInv, UNCHANGED <<scene, lsnVars, queueVars, pipeVars, loopVars, app>>, DOMAIN conn' = Cids,
           \A c \in Cids : ConnOk(conn'[c]) /\ conn'[c].st = conn[c].st
    PROVE  AInv'
<1>1. Conns' /\ Steady /\ Unknown
  BY DEF Conns, Steady, Unknown
<1>2. Loops'
  BY <1>1, FrameLoops
<1> QED BY <1>1, <1>2, SocketFrame

WakesOn(s, v) == [s EXCEPT !.rdy = v]
MoreIn(s, v, w) == [s EXCEPT !.n = v, !.in = w]
PeerGone(s) == [s EXCEPT !.peer = FALSE]
Ticked(s) == [s EXCEPT !.rd = 1, !.wr = 1]

LEMMA ClientOk ==
    ASSUME NEW s, ConnOk(s), NEW v, NEW w
    PROVE  /\ ConnOk(WakesOn(s, v)) /\ WakesOn(s, v).st = s.st
           /\ ConnOk(MoreIn(s, v, w)) /\ MoreIn(s, v, w).st = s.st
           /\ ConnOk(PeerGone(s)) /\ PeerGone(s).st = s.st
           /\ ConnOk(Ticked(s)) /\ Ticked(s).st = s.st
BY OthersSame, SameOk DEF WakesOn, MoreIn, PeerGone, Ticked

LEMMA WakesOk ==
    ASSUME NEW s, ConnOk(s), NEW k
    PROVE  ConnOk(Wakes(s, k)) /\ Wakes(s, k).st = s.st
<1>1. PICK v : v = (s.rdy \/ k \in s.mask)
  OBVIOUS
<1>2. Wakes(s, k) = WakesOn(s, v)
  BY <1>1 DEF Wakes, WakesOn
<1> QED BY <1>2, ClientOk

LEMMA ClientSteps ==
    ASSUME AInv, NEW c \in Cids, Client(c)
    PROVE  AInv'
<1>1. UNCHANGED <<scene, lsnVars, queueVars, pipeVars, loopVars, app>>
  BY DEF Client, ClientSends, ClientCloses, ClientReads
<1>2. ConnOk(conn[c])
  BY DEF AInv, Conns
<1>3. \E t : ConnOk(t) /\ t.st = conn[c].st /\ conn' = [conn EXCEPT ![c] = t]
  <2>1. CASE ClientSends(c)
    <3>1. PICK v, w : conn' = [conn EXCEPT ![c] = Wakes(MoreIn(conn[c], v, w), "IN")]
      BY <2>1, Zenon DEF ClientSends, MoreIn
    <3>2. ConnOk(MoreIn(conn[c], v, w)) /\ MoreIn(conn[c], v, w).st = conn[c].st
      BY <1>2, ClientOk
    <3> QED BY <3>1, <3>2, WakesOk
  <2>2. CASE ClientCloses(c)
    <3>1. conn' = [conn EXCEPT ![c] = Wakes(PeerGone(conn[c]), "IN")]
      BY <2>2, Zenon DEF ClientCloses, PeerGone
    <3> QED BY <1>2, <3>1, ClientOk, WakesOk
  <2>3. CASE ClientReads(c)
    <3>1. conn' = [conn EXCEPT ![c] = Wakes(FullIs(conn[c], FALSE), "OUT")]
      BY <2>3, Zenon DEF ClientReads, FullIs
    <3>2. ConnOk(FullIs(conn[c], FALSE)) /\ FullIs(conn[c], FALSE).st = conn[c].st
      BY <1>2, WritingOk
    <3> QED BY <3>1, <3>2, WakesOk
  <2> QED BY <2>1, <2>2, <2>3 DEF Client
<1>4. Conns' /\ Steady
  BY <1>3, OneConn
<1> QED BY <1>1, <1>4, ClientFrame DEF Conns, Steady

LEMMA Ticks ==
    ASSUME AInv, Tick
    PROVE  AInv'
<1>1. UNCHANGED <<scene, lsnVars, queueVars, pipeVars, loopVars, app>>
  BY DEF Tick
<1>2. conn' = [c \in Cids |-> IF Live(c) THEN Ticked(conn[c]) ELSE conn[c]]
  BY Zenon DEF Tick, Ticked
<1>3. \A c \in Cids : ConnOk(conn'[c]) /\ conn'[c].st = conn[c].st
  BY <1>2, ClientOk DEF AInv, Conns
<1> QED BY <1>1, <1>2, <1>3, ClientFrame

-----------------------------------------------------------------------------
(* The theorem. *)

(* Only acc_async_kick fills kickq, with a CID of the queue's receiver.      *)
LEMMA OwnedStep ==
    ASSUME AInv, Owned, [Next]_vars
    PROVE  Owned'
<1>1. scene' = scene /\ Rsvrs' = Rsvrs
  BY DEF Next, vars, Rsvrs, Lsvr, App, Rsvr, Client, Tick, acc_lsvr_accept, acc_lsvr_push,
         acc_lsvr_send_add_sck_req, acc_lsvr_timeout_hdl, acc_async_send, acc_async_kick,
         acc_send_cmd_to_rsvr, acc_rsvr_routine, acc_rsvr_event_kicked, acc_rsvr_cmd_done,
         acc_rsvr_add_conn, acc_rsvr_dist_send_data, acc_rsvr_kick_conn, acc_recv_end,
         acc_recv_data, acc_send_data, acc_rsvr_kick_clean, acc_rsvr_timeout_hdl,
         ClientSends, ClientCloses, ClientReads
<1>2. \A c : ACC_GET_RID_BY_CID(c)' = ACC_GET_RID_BY_CID(c)
  BY <1>1 DEF ACC_GET_RID_BY_CID
<1>3. kickq \in [Rsvrs -> Seq(Cids)]
  BY DEF AInv, Queues
<1>4. CASE kickq' = kickq
  BY <1>1, <1>2, <1>4 DEF Owned
<1>5. CASE acc_async_kick
  <2>1. PICK c \in Cids : c = Call.c
    BY <1>5, CallFacts DEF acc_async_kick
  <2>2. PICK r \in Rsvrs : r = ACC_GET_RID_BY_CID(c)
    BY <2>1, CidsFacts, RidFacts DEF AInv
  <2>3. kickq' = kickq \/ kickq' = [kickq EXCEPT ![r] = Append(kickq[r], c)]
    BY <1>5, <2>1, <2>2 DEF acc_async_kick
  <2>4. CASE kickq' = [kickq EXCEPT ![r] = Append(kickq[r], c)]
    <3>1. kickq[r] \in Seq(Cids) /\ kickq'[r] = Append(kickq[r], c) /\ \A x \in Rsvrs : x # r => kickq'[x] = kickq[x]
      BY <1>3, <2>4
    <3>2. \A i \in DOMAIN kickq'[r] : (i \in DOMAIN kickq[r] /\ kickq'[r][i] = kickq[r][i]) \/ kickq'[r][i] = c
      BY <3>1, AppendProperties, LenProperties
    <3>3. \A x \in Rsvrs : \A i \in DOMAIN kickq'[x] : ACC_GET_RID_BY_CID(kickq'[x][i]) = x
      BY <2>2, <3>1, <3>2 DEF Owned
    <3> QED BY <1>1, <3>3 DEF Owned, ACC_GET_RID_BY_CID
  <2> QED BY <1>4, <2>3, <2>4
<1>6. ASSUME NEW r \in Rsvrs, acc_rsvr_kick_conn(r)
      PROVE  Owned'
  <2>1. \A x \in Rsvrs : kickq'[x] = kickq[x] \/ kickq'[x] = <<>>
    BY <1>3, <1>6 DEF acc_rsvr_kick_conn
  <2>2. DOMAIN (<<>>) = {}
    OBVIOUS
  <2> QED BY <1>1, <1>2, <2>1, <2>2 DEF Owned
<1>7. kickq' = kickq \/ acc_async_kick \/ \E r \in Rsvrs : acc_rsvr_kick_conn(r)
  BY DEF Next, vars, queueVars, Lsvr, App, Rsvr, Client, Tick, acc_lsvr_accept, acc_lsvr_push,
         acc_lsvr_send_add_sck_req, acc_lsvr_timeout_hdl, acc_async_send,
         acc_send_cmd_to_rsvr, acc_rsvr_routine, acc_rsvr_event_kicked, acc_rsvr_cmd_done,
         acc_rsvr_add_conn, acc_rsvr_dist_send_data, acc_recv_end,
         acc_recv_data, acc_send_data, acc_rsvr_kick_clean, acc_rsvr_timeout_hdl,
         ClientSends, ClientCloses, ClientReads
<1> QED BY <1>4, <1>5, <1>6, <1>7

LEMMA StepHolds ==
    ASSUME AInv, Owned, [Next]_vars
    PROVE  AInv' /\ Owned'
<1>1. Owned'
  BY OwnedStep
<1>2. ASSUME NEW l \in scene.lsvrs, Lsvr(l)
      PROVE  AInv'
  <2>1. l \in Lsvrs
    BY SceneFacts DEF AInv
  <2> QED BY <1>2, <2>1, Accepted, Pushed, Noted, AskedAgain DEF Lsvr
<1>3. CASE App
  BY <1>1, <1>3, Sends, Kicks, Commanded DEF App
<1>4. ASSUME NEW r \in Rsvrs, Rsvr(r)
      PROVE  AInv'
  BY <1>4, Waited, KickedEvent, CommandsDone, Adds, Distributes, KickListed, ReadEnds, PartRead,
     Writes, KickCleaned, IdleClosed DEF Rsvr
<1>5. ASSUME NEW c \in Cids, Client(c)
      PROVE  AInv'
  BY <1>5, ClientSteps
<1>6. CASE Tick
  BY <1>1, <1>6, Ticks
<1>7. CASE UNCHANGED vars
  <2>1. /\ UNCHANGED <<scene, lsnVars, queueVars, pipeVars, loopVars, app>> /\ conn' = conn
    BY <1>7 DEF vars, lsnVars, queueVars, pipeVars, loopVars
  <2>2. Conns' /\ Steady /\ Unknown
    BY <2>1, FrameConns
  <2>3. Loops'
    BY <2>1, <2>2, FrameLoops
  <2> QED BY <1>1, <2>1, <2>2, <2>3, SocketFrame
<1> QED BY <1>1, <1>2, <1>3, <1>4, <1>5, <1>6, <1>7 DEF Next

LEMMA OwnedInit == Init => Owned
<1> SUFFICES ASSUME Init PROVE Owned
  OBVIOUS
<1>1. \A r \in Rsvrs : DOMAIN kickq[r] = {}
  BY DEF Init
<1> QED BY <1>1 DEF Owned

LEMMA InvariantSays == ASSUME AInv PROVE NothingDangles
<1>1. TypeOK
  <2>1. cid \in 0 .. MaxCid /\ backlog \in 0 .. MaxCid
    BY SceneFacts, Limits DEF AInv, Accepts
  <2>2. \A r \in Rsvrs :
         /\ Len(connq[r]) <= ConnqMax /\ Len(sendq[r]) <= SendqMax
         /\ Len(kickq[r]) <= KickqMax /\ kickfree[r] \in 0 .. KickqMax
         /\ Len(cmd[r]) <= PipeMax /\ kick[r] \subseteq Cids
    <3> TAKE r \in Rsvrs
    <3>1. kickq[r] \in Seq(Cids) /\ kickfree[r] \in 0 .. KickqMax /\ Len(kickq[r]) + kickfree[r] <= KickqMax
      BY DEF AInv, Queues
    <3>2. Len(kickq[r]) <= KickqMax
      BY <3>1, LenProperties, Limits
    <3> QED BY <3>1, <3>2, LoopType DEF AInv, Queues
  <2>3. \A c \in Cids : ConnOk(conn[c])
    BY DEF AInv, Conns
  <2> QED BY <2>1, <2>2, <2>3 DEF TypeOK, ConnOk
<1>2. BatchAlive
  BY LoopType DEF BatchAlive, LoopOk, Mine
<1>3. KickListClean
  BY LoopType DEF KickListClean, LoopOk, Mine
<1>4. BufferOnce
  <2> SUFFICES ASSUME NEW c \in Cids
               PROVE  conn[c].ref = IF conn[c].phase # "INIT" /\ Live(c) THEN 1 ELSE 0
    BY DEF BufferOnce
  <2>1. ConnOk(conn[c])
    BY DEF AInv, Conns
  <2> QED BY <2>1 DEF ConnOk, Live
<1> QED BY <1>1, <1>2, <1>3, <1>4 DEF NothingDangles

(* Whatever closes, fails, is kicked or times out while the events of one    *)
(* epoll_wait are handled: the rest of the batch and the kick list name live *)
(* connections, no CID is left in the kick list, and a receive buffer is     *)
(* released exactly once (acc_rsvr.c).                                       *)
THEOREM NothingIsLeftDangling == Spec => []NothingDangles
<1>1. Init => AInv /\ Owned
  BY InitHolds, OwnedInit
<1>2. AInv /\ Owned /\ [Next]_vars => AInv' /\ Owned'
  BY StepHolds
<1>3. AInv => NothingDangles
  BY InvariantSays
<1> QED BY <1>1, <1>2, <1>3, PTL DEF Spec
=============================================================================
