# A TLA+ verification of beehive-im

beehive-im is an instant messaging system: C and Go access nodes hold the
clients' connections, a message bus (RTMQ, written in C, with a Go client)
carries their requests to Go servers that keep their state in Redis and MySQL.
This directory models the parts of it that carry its session protocol and its
messages - the Go servers, and the C broker, access nodes, client SDK and the core
library under them -, checks them with TLC and proves the most important results
with TLAPS.

Paths below are relative to `src/golang` (Go) or `src/clang` (C) of the
repository, unless they say otherwise.

## 1. The system

### Components, state, operations

| component | code | state | operations | here |
|---|---|---|---|---|
| chat_tab | `lib/chat_tab` | session table keyed (sid,cid), SID->CID map, rooms with groups, member lists and counters, all behind locks of their own | RoomJoin, RoomQuit, SessionSetParam, SessionDel, SessionSetCid, Clean, task_clean_sid2cid | ChatTab, WsListend |
| websocket access layer | `exec/websocket` | status and SID of a connection, kick list | ONLINE, OFFLINE, PING, room requests; ONLINE-ACK, KICK, ROOM-JOIN-ACK, ROOM-KICK from upstream; kick, time out and report timers | WsListend |
| lws | `lib/lws` | connection pool, a send queue per connection | Kick, AsyncSend, send and recv routines | in WsListend |
| user server | `exec/usrsvr` | none of its own: Redis | ONLINE, OFFLINE, PING, SUB/UNSUB; HTTP (register, iplist, push, query, config); private and group messages | UsrSession |
| session store | `lib/im` | Redis: `im:sid:{sid}:attr`, `im:sid:zset` | GetSidAttr, CleanSessionData, CleanSessionDataBySid, UpdateSessionData | UsrSession |
| tasker | `exec/tasker` | an offset per timer | removal of expired sessions and users, statistics | UsrSession |
| sequence server | `exec/micsvr/seqsvr` | MySQL generators; per process a range of numbers per section and a number per session | AllocSid, AllocRoomId, QuerySeqBySid, start | SeqSvr |
| Go RTMQ proxy | `lib/rtmq` | servers, a send and a receive queue | AsyncSend, reconnect, workers that run handlers | its effect on messages |
| chatroom server | `exec/chatroom` | Redis: members and nodes of a room, MySQL: the room | create, dismiss, join, quit, kick, chat, room statistics | no |
| message server | `exec/msgsvr`, `lib/chat`, `lib/push` | Redis and MongoDB: messages, groups | store and forward of private and group messages, acknowledgements | no |
| monitor | `exec/monitor` | Redis: load of the nodes | reports | no |
| RTMQ broker (C) | `lib/rtmq/server` | connections, receive buffers, a map from nodes to receivers, subscriptions, four kinds of queues, command pipes | accept, authenticate, subscribe, receive, publish, distribute, send, time out | RtmqBroker |
| forwarder (C) | `exec/frwder` | two broker contexts | pass a message from listen servers to business servers, and back | in RtmqBroker |
| RTMQ proxy (C) | `lib/rtmq/proxy` | a connection a broker, a shared send queue and command pipe, receive queues | connect again, hand shake, send, receive, keep alive, run handlers | RtmqProxy |
| access library (C) | `lib/access` | connections with receive state and send list, connq, sendq, kickq, pipes, kick lists | accept, add, read, write, kick, time out | Access |
| TCP listend and chat library (C) | `exec/listend`, `lib/chat` | conn_list, sid2cids, sessions, rooms, kick_list | ONLINE, OFFLINE, JOIN, QUIT, room messages, KICK, timers, clean-up of rooms | TcpListend |
| client SDK (C) | `lib/sdk` | send table, send and receive queue, write buffer, connection | send, report, acknowledge, time out, connect again, keep alive | Sdk |
| queues (C) | `lib/core` ring, slot, queue | a lock free ring, a pool of blocks | push, pop, malloc, dealloc | Queue, BoundedQueue |
| core library (C) | `lib/core` | reference counts, thread pool, trees, lists, timer heap | their operations | Mref, ThreadPool, AvlTree, RbTree, List, List2, TimerTask |
| pools, support | `lib/thrift_pool`, `lib/rdb`, `lib/comm`, `lib/crypt`, `lib/log`, `lib/dbase`, `lib/mongo` | connections | get, put, convert | no |

`PROJECT.json` repeats the list with the reasons for what is left out.

### How they interact

A client opens a websocket. The recv_routine of lws reads its messages and runs
the access layer's handlers. ONLINE enters the session in chat_tab and is
forwarded over RTMQ to some user server, whose handler compares what Redis knows
of the SID, kicks a former connection by a KICK message to its node, asks the
sequence server for a number, writes Redis and answers ONLINE-ACK. A worker
goroutine of the access node's RTMQ proxy handles the answer: it marks the
connection as logged in, kicks the connection that had the SID on this node and
sets the SID->CID map. PING renews the session's TTL; the tasker removes sessions
whose TTL ran out. A room join goes to the chatroom server, and its answer enters
the session in chat_tab.

The sequence servers share MySQL. A process reserves a range of numbers for a
section of SIDs, keeps it in memory, and loads every section (reserving anew)
when it starts.

On the C side a listener thread of the access library accepts a client and hands it
over connq and a command in a pipe to the receiver thread its CID belongs to. The
receiver reads packets and calls listend, which enters the connection in its tables
and passes requests to the RTMQ proxy; the proxy's workers run the handlers of the
answers, which write to clients (sendq and a command) or kick them (kickq and a
command). The proxy's sender threads, one a broker, share one send queue. The broker
is a process with two contexts: what comes from listen servers in `forward` is
published in `backend` to one server of each subscribing group, what comes from the
business servers is sent to one node of `forward`. All queues between the threads
are the lock free ring of lib/core over a pool of blocks; received buffers are shared
and freed by reference count. The SDK is the client's end: application threads queue
messages, one thread writes them and tells each message's fate to a callback.

### What is hard

* chat_tab, the access layer and the sequence server take several locks one after
  the other, or copy the structure that holds the lock (`section := ctx.ctrl.section`),
  so that steps of goroutines interleave although the code looks locked.
* Redis commands are atomic, sequences of them are not, and several user servers
  and the tasker work on one session.
* The bus loses messages (queues are bounded, results of AsyncSend are dropped)
  and delivers them in any order (each goes to a random broker connection and to
  any of ten workers).
* A process may stop at any time, a COMMIT may fail and the code does not notice.
* Kicks, time outs and clean-ups are promises about something that must happen.
* epoll is edge triggered in the C servers: what is not finished at an event waits
  for the next one. Commands between threads are dropped when the pipe is full, so
  that something else has to find the work.
* The ring is lock free with indices that wrap; reference counts go to zero while
  another thread looks; a batch of epoll events holds pointers to sockets that a kick
  may free.
* A write ends inside a message, a connection inside a write, and what was left must
  be reported once and not reach the next connection.

`PROJECT.json` lists the hazards one by one, at the line where each bites.

### What makes each component correct

* chat_tab: counters are the sizes of the lists; member lists and session tables
  agree; cleaning removes nothing that is in use.
* access layer: one live connection per SID and node; a kicked or silent
  connection goes; a destroyed one leaves nothing behind. (The first and the last
  hold up to an interleaving that §3 names.)
* session store, user server, tasker: a clean-up concerns the session it was
  called for; the connection that loses a session leaves, the one that has it is
  left alone.
* sequence server: no number is given by two servers, no identifier twice.
* broker: routes and subscriptions name connections that are there, a group gets a
  message once, a buffer lives as long as somebody points into it, no wake-up is lost.
* proxy: a connection begins with its own hand shake, messages are in one place, and
  what was queued is written or given up.
* access library: nothing that is freed is used, packets and streams stay whole, no
  connection is forgotten.
* TCP listend: a SID is online on one connection, rooms hold who joined, a kick ends
  the connection and nothing is left of it.
* SDK: the callback of a message is told once, and the truth; nothing waits for ever.
* core: a queue is first in first out and loses no block; a block is freed when the
  last reference goes; containers hold what was put in; tasks and jobs run.

## 2. The modules

| module | models | 
|---|---|
| `ChatTab` | the tables of `lib/chat_tab`, one action per locked section |
| `ChatTabProofs` | its theorems |
| `WsListend` | `exec/websocket` over `lib/lws` and the parts of `lib/chat_tab` it calls |
| `WsListendProofs` | its theorems |
| `SeqSvr` | `exec/micsvr/seqsvr` with its MySQL tables |
| `SeqSvrProofs` | its theorems |
| `UsrSession` | `exec/usrsvr` (ONLINE, OFFLINE, PING), `lib/im`, `exec/tasker` and what the access nodes contribute; theorems in `SessionProofs` |
| `RtmqBroker` | `lib/rtmq/server` and `exec/frwder`: the threads of two broker contexts |
| `RtmqBrokerProofs` | its theorems |
| `RtmqProxy` | `lib/rtmq/proxy`: sender threads, workers, the connections to the brokers; theorems in `CoreProofs` |
| `Access` | `lib/access`: listeners, receivers, the calls of the application |
| `AccessProofs` | its theorem |
| `TcpListend` | `exec/listend` with `lib/chat`: receiver, workers and timer on the tables |
| `TcpListendProofs` | its theorems |
| `Sdk` | `lib/sdk`: application threads, the sender thread, a worker, the server's end |
| `SessionProofs` | the theorems of `UsrSession` and `Sdk`, the two ends of a client's session |
| `Queue` | `ring.c`, `slot.c`, `queue.c`, one access to shared memory a step |
| `BoundedQueue` | the abstract queue that `Queue` implements |
| `Mref` | `mref.c` over `hash_tab.c` |
| `ThreadPool` | `thread_pool.c` |
| `CoreProofs` | the theorems of `Queue` (the refinement among them), `Mref`, `ThreadPool`, and of `RtmqProxy`, which is built on them |
| `AvlTree`, `RbTree`, `List`, `List2`, `TimerTask` | the containers and the timer, link by link |
| `MC...` | constants and scenes for TLC |

Definitions that a comment calls a faulty variant or a mutant are plausible bugs that
the named property must detect. They are part of no specification. Several related
invariants are checked together as one conjunction (`RoutesRight`, `NothingDangles`,
...), whose parts are named and explained where they are defined; the type invariant
of a module is a part of the first of them, or is proved (ChatTab, SeqSvr).

### ChatTab

State: `sessions` and `room` are the session table and the rooms in each item,
`rooms`, `sid_list`, `room_num`, `group_num` the rooms, the members of their groups
and the two `sid_num` counters; `op[p]` is the exported operation goroutine p is
in. RoomJoin is `session_join_room`, `room_add`, `group_join` (with
`room_query_nil`, the `goto ROOM` of the code); RoomQuit is `session_quit_room`
and `room_del_session`; SessionDel adds `session_del` before them; Clean is
`Clean`, `clean_scan`, `clean_del`, run by one timer goroutine. The first pass
holds copies of the locks only (`for _, rs := range ctx.rooms`), so it excludes nobody:
a step of it reads one room, the steps of the others come between, and it may pass
over a room. `raced` is a
history variable: the keys on which two operations have overlapped. Left out: the
subscriptions of a session and the traversals, which only read. The SID->CID map
is in WsListend, whose handlers it matters to.

### WsListend

State: `status`, `csid` are the LsndConnExtra of a connection, `rt` the place its
recv_routine is at (from `none` over `recv` to the steps of the destruction and
`gone`), `sessions`, `param`, `joined`, `member`, `sid2cid` the tables, `kick_list`
the channel of task_timer_kick, `kicked` the connections whose send queue lws
closed, `online` and `joins` the requests that are upstream, `wk` what each RTMQ
worker is doing, `dirty` the list task_clean_sid2cid is working off. The handler
of ONLINE is two actions (`LsndMesgOnlineHandler`, `OnlineCheck`) because the code
sets CHECK after the request has left; the handler of ONLINE-ACK is `LsndUpMesgOnlineAckHandler`,
`AckLogin`, `AckQuery`, `AckMap`; ROOM-JOIN-ACK looks the CID up and then runs
RoomJoin (`JoinSession`, `JoinRoom`); lsnd_conn_destroy is `DestroyMap`,
`DestroySession`, `DestroyRoom`, `DestroyEnd`. One room stands for all; a session's
rooms are ChatTab's subject. Two histories note where handlers cross: `overtaken`, the
connections entered in the map between another handler's look-up of the SID and its
write; `crossed`, the connections a handler that had looked them up ran on for across
a quit of the room or their destruction.

### SeqSvr

State: `seq_gen`, `id_gen` are the generator tables, `section` and `session` the
two caches of each server, `loading` the sections a starting server has still to
reserve, `pc` where each call is; `handed`, `answer`, `issued` are histories. A
MySQL transaction is one action: the row is locked by SELECT ... FOR UPDATE until
the COMMIT. Looking into a map and entering what was missing are two actions,
since the code copies the list together with its lock. AllocSid and AllocRoomId are one
action each for the first reason: they return after the deferred COMMIT has been tried. `Crash` empties a server's
memory and `load_seq_from_db` fills it again. `CommitLoss` admits COMMITs that
fail; the code hands out the range all the same.

### UsrSession

State: `attr`, `zset`, `sidset` are what Redis holds of one SID; `conn`, `sid2cid`,
`kicked` the access nodes, reduced to what they send and whom they kick; `bus` the
messages on their way, any of which may be lost, in no order; `wk` the handler each
worker of the user server is in, one Redis command per action; `tasker` the place
of clean_sid_zset. A KICK names a connection, and `RecvKick` kicks the one the
node's SID->CID map names, as the code does. `raced` is a history: the workers whose
clean-up has compared the session and not yet deleted it when an HMSET wrote it. `RedisFails` lets each call fail where
the code looks at the error, and where it does not.

### RtmqBroker

State: `conn` is the rtmq_sck_t of a connection with its receive buffer (`base`,
`used`), its system messages (`mesg`) and what its iovec holds (`iov`, `idx`); `connq`,
`cmd`, `sendq`, `recvq`, `distq` the queues and pipes; `map` node_to_svr_map; `sub` the
subscriptions; `ref` the reference counts of the buffers. The listener's loop, every
event and command of a receiver, a worker's item, the distributor's item are an action
each; `rtmq_sub_add` is two, because it looks a type up and inserts it under two
locks (`pend` is the receiver between them). Time passes in units of 31 seconds, so
that one idle unit is more than the 30 seconds of the keep-alive and two are the 60
of the time out. `lost` records the commands a full pipe dropped. `aborted` is set
when a buffer is released once too often, where mref_dec asserts. `got` is all that a
client received, acknowledgements (identifier 0) included. `BrokerAssumption` says what
an instance is: the forwarder's two contexts, limits that are numbers, and proxies that
authenticate once, with their first message.

### RtmqProxy

State: `sck` is a sender thread's connection, `net` the broker's end of it, `batch` the
events of one epoll_wait, `pipe`, `sendq` what the threads share, `recvq`, `wpipe`, `todo`
the workers. `rdy` and `cmdrdy` are the kernel's ready list of an edge triggered epoll:
an item gets on it when something arrives, when it is armed while ready, and leaves it
with epoll_wait. A `scene` says which threads exist, what is sent, who is slow and who
fails; the runs go through all scenes of the instance.

### Access

State: `conn` with the phase of the packet being read, the mask the socket is armed
for, the list of items to write and how much of the current one is written; `batch` the
events in hand, `clean` that acc_rsvr_kick_clean is due, `kick` the kick list, `kickfree`
the elements left in kickq. A packet has a head and maybe a body, an item has two
parts, and reads and writes end between them. Writing to a pipe is a step of its own
(the code writes it after the queue), and fails when the pipe is full.

### TcpListend

A step is what happens under one lock of one table; where a handler holds a slot's
lock over several steps (`Locked`) the others wait. `rv`, `w`, `t` are the receiver in
lsnd_callback, the proxy's workers and the timers. `leaked` are the slots that
chat_room_del_session leaves locked, `wild` is set when freed memory is used, and a
behaviour ends there. The access library is its promise: a kick is taken while
`kickfree` lasts and destroys the connection later; a received request is handled
by the receiver as a step before it waits for its next lock. `crossed` is a history:
the connections whose ONLINE-ACK was handled while that of another connection with the
same SID was. An ONLINE with another SID than the entry in conn_list has
(`lsnd_mesg_online_rekey`) changes the key of an entry that is in the table; what is found
or freed after that depends on the hash, so a behaviour ends there too (`wild`).

### Sdk

State: `item`, `tab`, `sendq` the send manager; `iov`, `cnt` the write buffer; `ssvr` where the
sender thread is within the events of one select(); `app` where each caller of
sdk_async_send is; `wire` what was written to each connection. A message has two units,
so that a write may end inside it. `stale` are the connections that began with
something left in the write buffer. `wild` ends what the model says of a behaviour: freed
memory was used, or received bytes of two connections were mixed (`sdk_ssvr_mixed`).

### Queue and BoundedQueue

One step is one read, compare-and-set or write of a field that other threads change;
indices are counted modulo `Width` and start at `Ahead`, so that they wrap within the run.
`BoundedQueue` is a first-in first-out queue whose push and pop take effect in one
step between call and return. `QueuesAreFifo` states that both the ring and the pool of
free blocks implement it, by the mapping: the items are the slots from cons.head to
prod.tail; a push has taken effect when prod.tail passes it, a pop when cons.head does.

### Mref, ThreadPool, containers, timer

Mref: a call is one step per lock, query, atomic change and unlock (`call[u].at`), on the
hash table's slot locks. ThreadPool: the mutex, the condition with spurious wake-ups,
and the signal that follows the unlock. Trees and lists: records of links changed as
the code changes them, rotations and colour repairs included, against the set or
sequence of what should be in them. TimerTask: the heap as an array; the routine looks
and pops under two locks. `MCCore` runs one of them (`dut`) in each behaviour.

### Abstractions

* Between the threads of RtmqBroker, RtmqProxy, Access and Sdk a queue operation is one
  step: Queue shows that it is.
* Message bodies and the 48 byte header are records. A client puts the same SID in
  the header and in the body of ONLINE: an assumption on clients, since the user
  server compares the body's SID with the token's and the header's with neither.
* One UID, whose zset does the same as the SID's and is read by nothing else; the
  token is checked before anything is changed and its failure is `online_failed`.
* The clock: a time out may strike whenever its condition holds, a TTL runs out at
  any time.
* The check of a client's sequence number may fail at any message.
* The kick list is a set: its order and its duplicates make no difference to
  lws.Kick taken as one step. Its capacity (100000) is not modelled.
* A Redis command and a MySQL transaction are atomic; this is what these servers
  guarantee and the code relies on.

## 3. The runs

`tlc -workers 2 -config <cfg> <module>` in this directory.

Those of the first table pass; TLC finds the property of each run of the second violated.

| run | instance | shows |
|---|---|---|
| `tables` | one of three parts a behaviour. ChatTab: two keys, one room, two groups, two goroutines and Clean. SeqSvr: two servers, goroutines 2 + 1, one section, one SID, a generator. RtmqBroker: a listen server's connection in forward, three connections of two nodes and two groups on two receivers in backend; queues and pipes of one or two places, a map of one entry a node; four scripts; 1,000,000 states | ChatTab: `CountersExact`, `MembershipAgrees`, `CleanKeepsMembers`. SeqSvr: `NumbersApart` (no two servers hold or give the same number) with crashes, restarts and failing reservations; `SeqNeverBack` while a server has one caller at a time for a session. RtmqBroker: `RoutesRight`, `OncePerGroup`, `BuffersHeld`, `NoLostWakeup` while connections close, time out, fail to authenticate and are turned away |
| `listend` | two workers; scene "pair": two connections of one SID; scene "sids": one connection that changes its SID; scene "room": one connection and its room; 98,000 states | `SupersededIsKicked`: of the connections logged in with a SID all but the mapped one are on their way out, except those in `overtaken`; `TablesClean`: a destroyed connection is no session's again, and nothing is left of it in sessions, room and map unless it is in `crossed`; `ConnectionsSettle`: a listed connection goes, and ONLINE ends in a login or a drop, also when messages are lost; no deadlock |
| `usr_session` | two connections on one node, two workers; 2,640,000 states | `CleanRight` (a clean-up takes the session it compared, or nobody's, unless its worker is in `raced`), `AloneIsNotKicked` with failing Redis calls, lost messages, expiry |
| `usr_session_live` | two connections on two nodes, one worker | `LoserLeaves` although any message may be lost |
| `proxy` | two sender threads on one queue, one losing its connection; a slow broker; a broker that sends; 182,000 states | `ConnFresh`, `NothingLost`, `EverySent` |
| `access` | two clients, one or two receivers and listeners, queues of one or two, a pipe of one; five scenes; 77,000 states | `NothingDangles`, `StreamsWhole`, `NoneForgotten` |
| `tcp_listend` | three connections, two SIDs, rooms and groups, two workers; five scenes; 319,000 states | `SidLeadsToOne` (of the connections not in `crossed` one is online), `GoneLeavesNothing`, `RoomsRight`, `KicksEnd` |
| `sdk` | two application threads, two messages, a write buffer of two, one command, two connections; six scenes; 245,000 states | `ItemsTracked`, `ReportedTruly`, `NoneForgotten` |
| `core` | one of eight a behaviour: AVL tree of 11 keys, red-black tree of 8, lists of 4, 5 timer tasks, 2 blocks with 3 references and threads, a pool of 2 threads and jobs; two producers, a consumer and two blocks on a queue with indices modulo 16 from 13; 136,000 states | `TreesHold`, `ListsHold`, `TimerRight`, `RefsKept`, `NoLeak`, `LocksReturned`, `JobsApart`, `StartedRuns`; of the queue `BlocksAccounted`, `CallsReturn` and the refinement `QueuesAreFifo`; no deadlock |

`PROJECT.json` names for every property the mutants that break it, at least one for
each part of a conjunction.

Where the code does something else than its documents or comments say:

| run | instance | shows |
|---|---|---|
| `ws_two_answers` | that of `listend` | `OldIsKicked` fails ("将之前的连接异步踢下线", `doc/design/listend.md:18`): the answers of two connections are handled at once, both read the SID->CID map before either writes it (`upmesg.go:215`), and both connections stay |
| `usr_session_race` | that of `usr_session`, Redis does not fail | `CleanRespectsOwner` fails ("当会话属性中的cid和nid与参数不一致时, 不进行清理操作", `lib/im/comm.go:74`): a session written between CleanSessionData's comparison and its DEL (`:98`) is deleted |
| `sdk_torn` | that of `sdk` | `SuccMeansSent` fails ("发送成功", `incl/sdk/sdk.h:20`): a connection that the server ends leaves half a message in the write buffer (`sdk_ssvr.c:503-508`); the next one carries the other half, and the message is reported SEND_SUCC |

`SupersededIsKicked`, `TablesClean`, `CleanRight`, `SidLeadsToOne` and `ReportedTruly` say what
remains true in the same instances: each excepts the interleaving that a run above, or a
deviation below, shows, which history variables note where the handlers cross (`overtaken`,
`crossed`, `raced`, `stale`); `TablesClean` speaks of the SID a client presented last (below).

### Deviations without a run

Where code and documents, or code and purpose, differ and no run shows it. Those of the Go
side were each reproduced on these modules by changing the instance as said; the properties
above are stated so that they say exactly what remains true. Three are stated as invariants
that TLC refutes at once when they replace the INVARIANTS of the configuration named:

* `DestroyedIsClean` (`MCWsListend.cfg`), against "清理上下文资源" (`websocket.go:134`): a
  ROOM-JOIN-ACK whose handler looked up the CID (`upmesg.go:510`) before the connection was
  destroyed makes the session and the room entry again, and nothing removes them.
* `OldIsKicked` (`MCTcpListend.cfg`), against `doc/design/listend.md:18`: both workers read the
  old CID (`lsnd_mesg.c:174`) before either writes the new one (`:185`), and both connections
  stay online; `conf/listend.xml` has four workers.
* `IdsDistinct` (`MCTables.cfg` with CommitLoss = TRUE and MaxCalls = 2), against "全局 ID 分配"
  (`doc/ARCHITECTURE.md:77`): the error of the deferred COMMIT is dropped (`alloc_sid.go:48`), the
  generator is rolled back, and the next call gets the same identifier.

Go:

* `exec/websocket/controllers/upmesg.go:215`: two answers cross also over successive
  connections of a client, when the first is late.
* `exec/websocket/controllers/mesg.go:144`: a client that presents another SID before it is
  logged in leaves the session it was entered under before, and its map entry, behind when its
  connection ends: lsnd_conn_destroy knows the SID presented last. `NoneAfterDestroy` speaks of
  that one.
* `exec/websocket/controllers/mesg.go:162` against `listend.go:22`: ONLINE-ACK is handled
  between the forwarding of ONLINE and the assignment of CHECK. LOGIN is overwritten and
  the client, told that it is online, is refused at its next request.
* `exec/micsvr/seqsvr/controllers/alloc_seq.go:259` against `:12`: two first queries for a
  SID each build a session and the older one is entered last: the numbers fall back.
  This is why `SeqNeverBack` asks for one caller.
* `alloc_seq.go:206` against `:59`: with CommitLoss = TRUE a COMMIT fails, its error is
  dropped, and two servers give the same number.
* `exec/websocket/controllers/upmesg.go:278` against `exec/usrsvr/controllers/mesg.go:327`:
  a KICK for the old connection arrives when the new one on the same node is in the map,
  and the new one is kicked.
* `lib/chat_tab/chat.go:139, 272`: a SessionDel or RoomQuit that runs between the
  two steps of a RoomJoin of the same key leaves a member that no session names.
  This is why `MembershipAgrees` speaks of keys that are not in `raced`.
* `lib/chat_tab/chat.go:635`: `range` copies the room lists with their locks. Clean excludes
  no writer; a copy made while a writer holds the lock is never free again, and Clean waits for
  ever; a map written while it is iterated ends the process. No run asks that Clean ends.
* `exec/websocket/controllers/task.go:220`: the time out looks at sessions, and a
  client that connects and never sends ONLINE has none, so it stays.
* `lib/chat_tab/comm.go:245`: task_clean_sid2cid takes the values of its list,
  CIDs, for SIDs: a stale entry is removed only if CID and SID are the same number.
* `exec/micsvr/seqsvr/controllers/alloc_seq.go:273`: a session's max does not
  follow the section's, although `seqsvr.go:62` says it is kept in step.
* `lib/im/comm.go:144`: the tasker deletes the attributes, ONLINE writes them, the
  tasker's ZREM follows: a session without a TTL until its next PING.
* `exec/usrsvr/controllers/mesg.go:351`: the SID enters the user's set of sessions
  and nothing takes it out.
* `exec/tasker/controllers/logic.go:84`: a SID found expired is cleaned later without
  looking again. `exec/websocket/controllers/comm.go:158`: kick_add blocks its RTMQ
  worker when 100000 items wait. `lib/lws/websocket.go:155`: a sender that waits for room
  in a queue Kick closes. `lib/rtmq/rtmq_proxy.go:685`: a packet taken from the queue is
  lost if the write fails. No module speaks of these yet.

RTMQ (C), `lib/rtmq/server`:

* `rtmq_rsvr.c:822`: the time out releases a connection's buffer and rtmq_rsvr_del_conn
  releases it again: mref_dec asserts, or frees what messages in recvq still point to.
  `BuffersHeld` holds until then (`aborted`).
* `rtmq_rsvr.c:987`, `rtmq_comm.c:127`: when the map of a node is full the connection is
  not entered, and its end then takes out the entry of another connection of that
  receiver. A second AUTH of one connection enters it twice.
* `rtmq_comm.c:434`: two receivers that find a type missing both insert it, and the one
  that fails drops its connection. `rtmq_comm.c:521`: rtmq_sub_del returns with the table
  write-locked when the type is missing (no caller meets it).
* `rtmq_lsn.c:196`, `rtmq_dist.c:120`: ADD_SCK and DIST_REQ are lost in a full pipe; the
  work waits for the next command of its kind (`lost` in `NoLostWakeup`).
* `rtmq_rsvr.c:728`: a random receive queue for each message: two messages of a client
  may be handled in either order.
* `rtmq_comm.c:235, 265`, `rtmq_rsvr.c:1094`: keys are compared by an unsigned difference,
  which is never negative; the AVL mutant `CmpUnsigned` shows what look-ups then miss.
* `lib/core/vector.c:64`: growing takes elements for bytes and fails when realloc does
  not move the block.

`lib/rtmq/proxy`:

* `rtmq_proxy_worker.c:75`: the time out of a worker goes through send_thd_num queues.
* `rtmq_proxy_tsvr.c:461`: memcpy of overlapping memory; `:456` is never true, so that a
  message larger than the buffer ends the connection.
* `rtmq_proxy_tsvr.c:705`: one writev an edge: what is left waits for the keep-alive
  (`EverySent` holds by it). `:566`: a thread without a connection consumes the command.
  `:486`: a refused AUTH is ignored.

`lib/access`:

* `acc_rsvr.c:1077`: the elements of kickq are never given back, so that acc_async_kick
  fails for good after as many kicks as kickq holds (`acc_comm.c:130`).
* `acc_rsvr.c:768`: rdtm is not renewed by reading: a client that only sends is dropped.
* `acc_rsvr.c:562`: an error while adding loses the other connections already popped.
* `acc_rsvr.c:988`: a connection with something to write is not armed for reading.
* `acc_rsvr.c:903`: a write that takes nothing (EAGAIN) closes the connection.
* `acc_comm.c:82`: DIST_DATA and KICK_CONN lost in a full pipe are not repeated.
* `acc_lsn.c:139`: the 64 bit CID passes through an int.

`exec/listend`, `lib/chat`:

* `lsnd_mesg.c:920-927`: a connection is taken out of conn_list and used after its lock
  is returned, when the receiver may have freed it (`wild`).
* `lsnd_mesg.c:96`: a second ONLINE with another SID changes the key of an entry that is
  in the table (`lsnd_mesg_online_rekey`, ends as `wild`). `:150`: an answer with SID 0.
* `listend.c:347-354`: handlers of answers are registered with the access library, not
  with the proxy. `lsnd_mesg.c:301, 1095`: OFFLINE is sent twice (see the comment at 266).
* `chat.c:226-242`: chat_room_del_session returns with the session's slot read-locked
  when the session is not in the room: the receiver that deletes it waits for ever
  (`Stuck` in `KickCompletes`). `chat.c:165-176`: a second room of a session is entered in
  the session only; `:167` jumps back after the unlock; `:606` uses a key whose cid is not
  set; `:640` unlocks what is not held; `:512` leaks.

`lib/sdk`:

* `sdk_comm.c:252`: sdk_queue_rpush puts an element at the head of the list: what the
  application sends (sendq), and what is received for it (recvq), goes last in, first out.
* `sdk_comm.c:843-854`: an item is used after it may have been freed (`wild`).
* `sdk_ssvr.c:503-520`: a lost connection leaves its items in the write buffer, which the
  next one begins with (`stale`), before ONLINE; `sdk_torn` shows what becomes of a message
  half written, and `DeliveredAsReported` excepts exactly such a message (`Torn`).
* `sdk_ssvr.c:672, 808`, `sdk_mesg.c:39`: the connection is closed and the receive buffer
  keeps what had arrived of a packet; the bytes of the next connection are read as its rest
  (`sdk_ssvr_mixed`, ends as `wild`).
* `sdk_mesg.c:278`: a refused ONLINE sets the sequence back, and numbers of messages that
  still wait are used again.
* `sdk_ssvr.c:326, 405` against `sdk.c:226`, `sdk_ssvr.h:79`: online is set by the connect,
  not by ONLINE-ACK.
* `sdk_comm.c:141`: the command that wakes the sender is skipped when the lock is taken.

`lib/core`:

* `ring.c:131, 178`: num passes below zero for a moment, and is read by nobody then.
  After 2^32 operations within one compare-and-set the index would be the same again.
* `list.c:521-548`: list_find_and_del leaves the tail at a deleted node (no caller); this
  is the mutant `list_remove_only`. `btree.c`: removing from a leaf moves its last key over
  the removed one, which breaks the order (no caller; not modelled).
* `timer.c:273`, `thread_pool.c:201`: tear-down while threads run; not modelled.

### Bounds, and why they are enough

* C servers: queues and pipes have one or two places, so that full is reached with two
  messages; two threads of a kind suffice for every pair of steps to interleave; a
  second connection of a client, node or SID is what the hard cases need. The scenes of
  an MC module divide the environment's behaviour (who closes, who is slow, what is
  sent) so that each part is explored completely.
* Trees: 11 keys make AVL trees of height 4, where a deletion rebalances at two levels;
  8 keys reach every case of the red-black repair. `MaxTurns` lets the ring's indices go
  round twice, past the point where they wrap; `Width` is a multiple of the ring's size as 2^32 is.
* Keys, connections, SIDs: the races are between two operations on one key, two
  connections of one SID or two calls for one SID; a third party changes nothing
  the guards look at. Goroutines, servers and nodes are two or three for the same
  reason. Where a component has theorems (§4) they remove the bound.
* `tables` and `core` put components that share nothing side by side, one in each behaviour:
  the others stay as they are at first. In `tables` ChatTab has one room: rooms share only
  Clean's two lists, and a SessionDel in several rooms visits them one by one; Clean is a third
  thread beside the two goroutines.
* `MaxSeq` = 3100: the first row holds 100 and a reservation takes 1000, so that a
  section is reserved three times: enough for two servers to reserve in turn and
  for one of them to grow, or restart, after the other.
  `MaxCalls` = 1: what is checked does not concern identifiers.
* `usr_session` and `listend` have two workers: a handler that another overtakes needs one other.
  `usr_session` is symmetric in connections and workers and checks no liveness. `listend` has
  scenes because two connections, two SIDs and the room together are beyond TLC's reach; each
  interleaving that the histories record needs one of them. `tcp_listend` has three connections
  of one SID, so that two cross while a third is superseded.
* In WsListend a SID and a CID are numbers that may coincide (both 1): the cleaner
  of the SID->CID map does remove entries in this instance.
* `bus`, `online`, `joins` are sets: a second copy of a message that is still on its
  way is the same message.

### Fairness

* WsListend: goroutines that can run do run (weak fairness of `OnlineCheck`,
  `RoomQuitDel`, `Destroy`, `Finish` of a handler), timers fire (`task_timer_kick`,
  `TimeoutLogin`, the cleaner). `KickedEnd` is strong: with its socket closed the
  recv_routine's next read fails, but the handler of a message already read runs
  first. Nothing obliges a client to send or close, or upstream to answer.
* UsrSession: a client that is logged in goes on sending PING, some of them at a
  time when a worker is free; a PING or KICK sent again and again is handled in the
  end (the bus loses messages, not all of them for ever); handlers run; a
  connection in a kick list is closed, which is `KickCompletes` of WsListend.
  Nothing is assumed of ONLINE, OFFLINE or ONLINE-ACK: each may be lost.
* C modules: a thread that can run does run, and time passes. Beyond this, RtmqProxy
  assumes that a broker that is up makes room for writing again (strong, since its
  connection may break before), Access that a client reads what is written to it,
  TcpListend that the access library carries out a kick it accepted (strong, since the
  receiver may be busy; it is `KickCloses` of Access), Sdk that time outs fall due. The
  server of Sdk may stay silent, clients may stay idle. Nothing obliges a routine of
  the thread pool to return.
* Deadlock is checked for ChatTab, SeqSvr (in `tables` only the broker may rest), WsListend and
  the core run. In the others the
  clients come to an end, after which nothing need happen; the leads-to properties say
  that what had to happen did.

## 4. The proofs

`tlapm M.tla` for each module `...Proofs`. The theorems hold for every value of the
constants that satisfies the named assumptions of the modules (`NoGid` is no group;
`Home`, `SecOf` and `Hash` are functions of their types, `Refs` is finite, `NoAddr` and
`NoRef` are no address and no reference, SIDs and CIDs are numbers other than 0, there
are no more jobs than pool threads, the broker has finitely many connections and receive
queues, the bounds are numbers).

| theorem | says | along |
|---|---|---|
| `ChatTabTyped`, `SeqSvrTyped` | `ChatTypeOK`, `SeqTypeOK` | one step per action |
| `Counters` | `CountersExact`, for any number of sessions, rooms, groups, goroutines | `CountersInv`: the list is finite and the counters exact. Finiteness is needed because only then does adding one element add one to the cardinality (`CountInsert`, `CountRemove`). |
| `CleanSafe` | `CleanKeepsMembers` | from `CountersInv`: Clean removes a room only at a count of zero, and the count is exact |
| `Membership` | `MembershipAgrees` | `MembershipInv` adds: a key without a session is in no room; an unraced key has one operation at a time; a join in progress finds the entry it made, a removal finds its entries gone |
| `ServersApart` | `NumbersApart`, that is `IssuedApart` and `RangesApart`, if no COMMIT is lost | `ApartInv` speaks of every number a server *holds*: in a section, in a session, in the range a call has reserved and not yet entered, or given out before. What is held lies below the next free number of its section (`Below`), ranges are not empty (`Shape`), and no number is held by two servers (`Apart`). A reservation adds numbers from the free ones only; every other step moves numbers a server already holds. |
| `SectionFound` | `SectionStays`: a section that section_add found is there when section_find looks, so section_find's own reservation is never reached | `Shape` and `TypeOK` |
| `AloneStays` | `AloneIsNotKicked`, for any number of connections, nodes and workers | `UInv` (`SessionInvariant`) says what can be under way while a client is alone: whoever Redis, the bus and the handlers name has sent something (`KnownRight`), the timer has nothing to clean (`UnlapsedRight`), every handler is in a place of ONLINE or PING that cleans nothing, and once HMSET is done the session is the client's (`AloneRight`). `AloneIsNotKicked` alone is not inductive: it says nothing of the handler that is about to send the KICK. |
| `CleansTheRightOne` | `CleanRight`, for any number of connections, nodes and workers | `CleanUnlessRaced` with `UInv`: CleanGet goes on to the DEL only if the attribute is the one it was asked for; whatever another handler does after that removes the attribute, leaves it, or is the HMSET that enters the worker in `raced` (`OthersRace`). That the HMSET does come in between is the run `usr_session_race`. |
| `TablesCleaned` | `TablesClean`, for any number of connections, SIDs and workers, clients with several SIDs included | `CInv`, of which `WInv` (`ListendInvariant`) is a part: whatever can lead to a login names a connection that has presented a SID (`SidKnown`; without it the room requests of a logged in client have no SID), and from the step of lsnd_conn_destroy that deletes the session on, no handler gives the session its connection again (`SessionTaken`). `CleanOf` follows a connection that is not in `crossed` through the three tables: what a step of the destruction has removed could come back only by a handler that holds the connection, and a handler that holds one whose destruction has begun has entered it in `crossed`. `DestroyedIsClean` (§3) fails because it does come back. |
| `SupersededLeaves` | `SupersededIsKicked`, for any number of connections, SIDs and workers and clients that change their SID | `MInv`: the entry a worker is about to overwrite names a connection that is leaving, or one that was entered behind its back and is in `overtaken` (`Overwritten`); what the map names has its session or is destroyed, and what the clean-up has listed is destroyed (`MapBacked`), so that the clean-up removes no entry of a connection that serves. The run `ws_two_answers` shows an entry overwritten unseen. |
| `QueueInvariant`, `QueueTyped` | `TypeOK`, for any number of threads and blocks | `QInv`: an index is a number of steps modulo `Width`; the four indices of a ring follow each other and are at most a ring apart (`Order`, `Bounded`), the places that threads have reserved lie between them and no two overlap (`ReservedApart`), what is published is stored (`Stored`), and every call knows what it has read (`CallRight`: a value read before a CAS may be old, and is then not the value of the index) |
| `QueueRefines` | `QueuesAreFifo`: ring and pool implement `BoundedQueue` | each step changes the contents between cons.head and prod.tail by one push, one pop, or not at all; `QInv` gives what is in these places |
| `BlocksStayAccounted` | `BlocksAccounted` | `AInv`: every block is in a ring, in a reserved place or with a thread (`Covered`, by counting: places and holders are as many as blocks), and `num` differs from the contents by exactly what the calls under way have still to add or to take (`Counted`) |
| `RefsAreKept` | `RefsKept`, for any number of threads, blocks, references and slots: what is referred to is allocated and counted, a block is freed by one thread when nobody refers to it, no assert of mref.c fails | `MrefInvariant`: a thread *claims* a block between allocating it and entering it in the table, and between taking its count to zero and freeing it. Claims exclude each other (`ClaimsApart`), a claimed block has no reference (`Claimed`), every count is the number of references (`Counted`), every allocated block is referred to or claimed (`Accounted`); a call is about its own block and references (`CallsRight`, `Apart`) |
| `NothingLeaks` | `NoLeak`: between calls the allocated blocks are the referenced ones, each counted exactly | the same invariant |
| `LocksAreReturned` | `LocksReturned` | a slot is locked by the call that is between its query and its unlock, and by no other |
| `PoolInvariant`, `JobsStayApart` | `JobsApart`, for any number of threads and jobs | `PoolInv`: who owns the mutex is who is between its lock and its unlock (`Guarded`), a job is still to be added, on the list or with one thread (`Placed`), and a thread finds itself in the table (`Indexed`). `JobsApart` alone forgets that two threads must not see the same job on the list. |
| `BrokerInvariant` | `BInv`, for any number of connections, nodes, groups, types, receivers and queues and any limits | one lemma per action (`AcceptB`, `AuthB`, `SubB`, `ExpB`, `SendB`, `DsvrB`, ...). Besides the three properties below, `BInv` says where everything is: a live connection belongs to a receiver of its context, an accepted one is in one connq and once (`Placed`); only an authenticated one has a node and subscriptions (`AuthRight`); a receiver inside rtmq_sub_add is so for a live connection of its own, whose request it has not finished (`PendRight`); a type without groups is the one such a receiver has just made and will look up again (`NewTypes`). Without `PendRight` another receiver could close the connection whose subscription is half done; without `NewTypes` nobody would fill, or remove, the empty type. |
| `RoutesStayRight` | `RoutesRight`: types and limits, `NoStaleRoute`, `SubsAgree`, `NoEmptyGroup` | `NoStaleRoute` counts entries of the map against connections: adding and removing move both by one (`EntriesAdd`, `EntriesDel`), and being turned away by a full map removes an entry only |
| `BuffersCounted` | `BuffersHeld`, until the time out handler's double release | the two sets of holders change by one place at a time (`ChOne`, `RhAppend`), and a new buffer is one that nobody holds |
| `WakeupsKept` | `NoLostWakeup` | a command leaves the pipe only when its queue is empty (`PopTells`), and an element enters a queue only with its command, or with the record of a full pipe (`WriteTells`) |
| `OneCopyPerGroup` | `OncePerGroup`: a published message reaches a group at most once, a client gets only what is for its node | `OInv`: on its way to a group a message is in one place only - unread in a script, in one recvq, in distq, in one sendq, or with one connection (`OneRead`, `OneWay`); everything a connection holds or a sendq carries for it names its node (`DestRight`). The property alone only sees what has arrived; a second copy has to be excluded in all four queues before. `rtmq_publish` makes the only copies, one a group, and the servers of a group are on nodes of that group alone. |
| `NeverBack` | `SeqNeverBack`: what a server with one caller answers for a SID never goes back, with lost COMMITs, crashes and restarts too | `OrderInv`: last answer <= number of the session <= lower end of its section <= MySQL's next number, along every place a call can be in; what the only caller found is still so when it goes on |
| `NothingIsLeftDangling` | `NothingDangles` of Access, for any number of connections, receivers and listeners and any limits | `AInv`: a batch in hand names live connections of its receiver, each once, and so does the kick list; while a batch is in hand acc_rsvr_kick_clean is due, so that a kick inside the batch frees nothing yet; a connection has a receive buffer exactly when it is live and has begun a packet. `Owned`: kickq of a receiver holds CIDs of that receiver only, without which another thread could free a socket of the batch. |
| `SidLeadsToOneAlways` | `SidLeadsToOne`, for any number of connections, SIDs and workers: of the connections whose ONLINE-ACKs no two workers handled at a time, a SID is online on one, and SID->CID leads to it | `TInv`, its part `OneRight`: the map names such a connection once its own handler is done, and a worker that handles an ONLINE-ACK of its SID for another connection has still to read the map, or has read this connection and will kick it (`OneOk`); workers that handle one SID at a time have their connections in `crossed` (`Apart`) |
| `NothingLeft` | `GoneLeavesNothing`, for any number of workers | `ListRight`, `SessRight`, `MemRight` of `TInv`: conn_list and sessions name open connections that the destruction has not reached; a member of a room is there because its session says so, because the destruction has it on its list, or because a worker that holds the slot's lock has just added it |
| `RoomsStayRight` | `RoomsRight`: rooms hold who joined and has not left, the number of members is exact, a group message reaches only who asked for the group | `MemRight`, `JoinedRight`, `CountRight` of `TInv`: the number lags by exactly the members that a worker has entered and not yet counted |
| `KickIsFinal` | `KickSticks`: a connection marked for kicking is not put back to ONLINE (the safety half of `KicksEnd`) | `TInv` and one lemma per action; lsnd_mesg_online_ack_logic finds no such connection in the state it looks for |
| `ProxyInvariant` | `ProxyInv`, for any number of sender threads, workers, types and messages, and any limits | one lemma per action. Of each connection (`TsvrOk`): what the broker has got, followed by the iovec, followed by mesg_list, begins with a whole hand shake; mesg_list holds no data; without a descriptor the iovec is empty. A message of the application is in at most one place, and in one exactly when it was sent (`Tracked`). |
| `ProxyConnFresh` | `ConnFresh`: limits, `HandshakeFirst`, `KpaliveOfThisConn` | what the broker has got is the beginning of a hand shake, which is AUTH_REQ and each SUB_REQ once (`HelloIs`). `HandshakeFirst` alone is not inductive: it says nothing of what is still queued. |
| `ProxyNothingLost` | `NothingLost`: `Conserved`, `NoLostWork` | wiov_add moves messages from the front of sendq to the end of an iovec and writev from the front of an iovec to the broker (`FillsData`, `WrittenOut`); whatever the other threads hold stays |
| `SdkInvariant` | `SdkInv`, for any number of threads, messages and connections and any size of the write buffer | one lemma per action. Until freed memory is used (`wild`), a message that the table holds is in sendq, in the write buffer or written, as its item says, and its callback was told nothing or SEND_SUCC accordingly (`ItemRight`); a message that its thread has not handed over, or is about to enter, has a new item (`UnsentNew`), without which the insertion could enter a message twice; neither queue holds a message twice (`QueuedOnce`, `BufferedOnce`), without which taking one copy out would leave another behind. |
| `EachItemTracked` | `ItemsTracked`: `SdkTypeOK`, `Tracked` | `SdkInv`; that Len(sendq) is the number of its messages follows from `QueuedOnce` by a bijection |
| `ToldOnce` | `OneResult`, the part of `ReportedTruly` about the callback | `ItemRight`: what may still be told depends on what was told, and the state remembers it. wiov_item_adjust reports the entries it takes from the front of the buffer (`BufferShrinks`), and the end of a connection leaves the buffer as it is |

Assumptions that say something about the environment or the code:

* CommitLoss = FALSE for `ServersApart`; setting it TRUE in `MCTables.cfg` shows that it is
  needed. No theorem assumes anything of the
  number of workers.
* `QueueAssumption` bounds what happens while a thread stands between reading an index
  and its CAS: fewer than `Width` (2^32) places pass. The code relies on it: with more,
  the CAS succeeds on an index that has come round. `MaxTurns` is that bound in the model.
* `BrokerAssumption`: a proxy sends AUTH_REQ as the first message of a connection and never
  again (lib/rtmq/proxy does; a second one would enter its node into the map twice).
* `MesgAssumption`: messages that are published differ from each other (an identifier is in
  one place of one script), and business servers that share a node belong to one group, as
  one proxy configuration gives both.
* `TcpAssumption`, `AccessAssumption`: identifiers are not 0, a scene names connections,
  workers, receivers and messages that exist, limits are numbers; connections that are online
  from the start have different SIDs.
* `ProxyAssumption`: types are finitely many, limits are numbers, the application's messages
  are distinct (copies of one content are different messages), and
  `SendThdNum <= WorkThdNum`: rtmq_proxy_worker_routine goes through send_thd_num queues of an
  array of work_thd_num, and would read past its end otherwise (`rtmq_proxy_worker.c:75`);
  rtmq_proxy_conf_isvalid does not check it.
* `SdkAssumption`: the application's messages are distinct, each is sent once, and none is
  one of the SDK's own (copies of one content are different messages); the server numbers
  its answers, and the table of answers is long enough for the connections of a scene.
* `MaxAssumption` states what power2 yields (a number, no less than its argument); it is
  true by arithmetic on `^`, which the provers do not have, and TLC evaluates it.

The inductive invariants of Mref, ThreadPool, Queue, UsrSession, WsListend, RtmqBroker,
RtmqProxy, Access, TcpListend, SeqSvr (`OrderInv`) and Sdk were checked with TLC on small instances
before they were proved.

Only model-checked:

* All liveness: `ConnectionsSettle`, `LoserLeaves`, `EverySent`, `NoneForgotten` of Access and
  Sdk, `KicksEnd` (but for `KickIsFinal`), `CallsReturn`, `StartedRuns`. Fairness and ENABLED
  are beyond the prover.
* `StreamsWhole` of Access: what was read and written is compared with the flattened
  sequence of the packets, so its proof is an induction over that sequence; `NeverDeaf`, the
  safety part of `NoneForgotten`, filters the send list and is an induction over it too.
* `TreesHold`, `ListsHold`, `TimerRight`: trees are walked by recursive definitions, the
  paths of a heap and of a list are inductions over data.
* `DeliveredAsReported` and `WholeOnWire`, the parts of `ReportedTruly` of Sdk that `ToldOnce`
  leaves: they count and compare the units written to each connection with the flattened write
  buffer, an induction over it.

## 5. Not modelled, and why

* Generated protobuf and thrift code, vendored packages, demos, logging,
  configuration: no state of the protocols.
* The message header's byte order and the encryption of tokens: pure conversions
  that unit tests reach.
* Handlers that only pass a message through (room chat, broadcast, notifications) in
  the Go servers, and reports: they change nothing another part reads.
* `update_seq` of the sequence server, which nothing calls.
* Of lib/core: shared memory, files, sockets, XML, hashing of strings, logs, semaphores
  and spin locks are system calls or conversions; B-tree, trie, slab, memory pools and
  the remaining containers have no user in the servers modelled, or one at start only.
* Start-up and tear-down of the C processes: the threads are modelled as running,
  Init is what the init and launch functions leave.
* What the plan below has still to do.

## 6. Plan

In this order:

1. `LwsPool`: lib/lws. Kick copies the pool with its lock and AsyncSend may wait for
   room in a queue that Kick closes: who closes the queue, how often, and who sends
   to it afterwards.
2. The Go RTMQ proxy: the send queue at its limit, what is lost on a reconnection;
   workers that wait in kick_add with the list full.
3. `ChatRoom`: exec/chatroom. A room's members and nodes in Redis against the member
   lists of the nodes, composed with an abstract table that ChatTab is shown to
   implement (join and quit of a key as one step, for keys that are not raced).
4. An abstract allocator (a number is given to one server at most) that SeqSvr
   implements by the mapping of `ApartInv`, as a run and as a theorem.
5. `Tasker` with more than a batch of expired SIDs (the offset moves on while the set
   shrinks); `LoserLeaves` with failing Redis calls.
6. Message server and group operations: storing, forwarding and acknowledging.
