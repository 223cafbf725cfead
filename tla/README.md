# IOCP chat server: TLA+ models, model checking and proofs

The repository is a Windows chat server grown in eight steps (`Practice01` ... `Practice08`, two of them with a refactored
variant) on an I/O completion port. The steps 1 to 7 are echo servers, the eighth is the chat server in
`src/IOCP_Practice/Practice08/IOCP_08/IOCP_08/`. This directory models the chat server in detail and each of the steps before it
as a whole. File names below without a directory are files of Practice08.

## 1. Inventory

The server is one process. `main.cpp` starts a `ChatServer`, which owns a `Network` and a `PacketManager`.

| thread | code | what it does |
|---|---|---|
| workers (2 x cores + 1) | `Network::WorkerThread` | take completions from the port, run the handler, call `OnConnect`, `OnRecv`, `OnDisconnect` |
| accepter | `Network::AccepterThread` | every 64 ms scans the session pool, posts `AcceptEx` on the reusable slots |
| sender | `Network::SenderThread` | scans the pool without end, posts `WSASend` where there is data |
| packet thread | `PacketManager::PacketProcessThread` | takes user packets, system packets and Redis results, runs every handler, calls `SendPacket` |
| Redis threads (1 by default) | `RedisManager::ProcessTaskThread` | check passwords |

| component | state | operations | correct when | hard because |
|---|---|---|---|---|
| session pool (`network.*`, `session.*`) | per slot `is_activated_`, `is_sending_`, `latest_conn_closed_`, `socket_`, three `OVERLAPPED`s; `session_cnt_` | `BindAccept`, `Activate`, `BindRecv`, `BindSend`, `CloseSocket`, `ClearSession` | a slot has one owner; each connection is closed once, on its own handle; slots come back | no lock: two compare-and-swaps, one plain `uint64_t`, completions in any order |
| send path (`session.*`, `ring_buffer.*`) | `send_buf_` (`front_`, `rear_`, bytes), `is_sending_` | `EnqueueSendData`, `HasSendData`, `BindSend`, `SetWsaBuf`, completion | the peer gets the bytes once and in order | wrapping, partial enqueue, the kernel reads the ring later |
| packet manager (`packet_manager.*`, `chat_server.*`) | two queues, `packet_handlers_` | callbacks, seven handlers | every packet is handled; answers belong to the client that asked | three queues with no common order; one table of handlers for all of them |
| users (`user.*`, `user_manager.*`) | `user_id_`, `domain_state_`, `room_idx_`, `packet_buf_`, `user_id_map_` | login, `Clear`, `DeleteUserInfo`, framing | logged in by an own request; one connection an id | reused slots, answers that come late |
| rooms (`room.*`, `room_manager.*`) | `user_list_` | `EnterUser`, `LeaveUser`, `NotifyChat` | a user in a room has a room; the list is bounded | two places for one fact |
| Redis manager (`redis_manager.*`) | request and result queue | `PushTaskReq`, `GetTaskReq`, `PushTaskRes`, `GetTaskRes` | tasks answered once | a pool of threads |
| start and end (`main.cpp`, `Start`, `Terminate`) | the `is_..._running_` flags, the thread handles | create, post a terminate message, join | every thread ends; nothing is deleted under a thread that uses it | threads that run before what they use is there, and after it is gone |
| Redis client (`RedisClient.*`) | vendored | | | not modelled |

The steps before it, all of them an accepter, workers and an echo:

| step | what is new | what is hard |
|---|---|---|
| 01, 02, 03, 03_Refactor | a synchronous `accept`; workers echo from the receive buffer through one send buffer per client; 03 adds callbacks, 03_Refactor separates `Network` from `EchoServer` | the one send buffer is overwritten by the next echo; `CloseSocket` in several steps beside other workers |
| 04 | a queue of packets and a packet thread; a structure for each send | the packet thread answers to a session that may serve another client by then |
| 05 | sessions taken by compare-and-swap, a ring per session, a sender thread, `is_sending_` | the ring is cleared under the sender; a send that is pending is sent again |
| 06 | a queue of send structures per session, popped by completions | `ClearSession` deletes structures the kernel still uses |
| 07 | `AcceptEx`, `SESSION_REUSE_TIME`; the error handler that sees no failure | stale flags, null keys, accepts posted before the socket listens; `op_type_` read after it was zeroed |
| 07_Refactor | `BindSend` looks at `is_activated_` under `send_lock_` | whether that is enough |

The workers call the callbacks, which push to `packet_buf_` and to two concurrent queues; the packet thread
pushes tasks to the Redis manager and bytes to a slot's `send_buf_`; the kernel and the workers talk through
the completion port. A slot's index names its `Session`, its `User` and its Redis tasks, and nothing in any of
them says for which of the slot's connections.

The hazards of this code, each at its line and with the property that would catch it, are in `PROJECT.json`.

## 2. Modules

Core, written so that it can be proved about (recursive functions in the place of recursive operators, constants with a named `ASSUME`):

- `SlotLifecycle` - abstract: each slot goes idle, opening, active, closing, idle, one connection at a time.
- `SessionPool` - the pool at the grain of one access to shared memory (or one locked section). `pc[t]` names
  the next access in the words of the code, e.g. `"cas"` is the compare-and-swap of `CloseSocket` and
  `"settime"` its last store. Variables are the fields of `Session`, `session_cnt_`, the threads' positions, the
  operations in flight (`io`: what the kernel holds and what is queued in the port) and the state of the latest
  connection of each slot (`conn`, `link`). `Phase` reads the abstract phase off them, and
  `SlotsFollowLifecycle` says that `SlotLifecycle` is implemented.
- `RingBuffer` - `ring_buffer.cpp` as operators on records `[front, rear, buf]`, with `SetWsaBuf`.
- `ByteQueue` - abstract: a bounded FIFO queue of bytes that cuts what does not fit.
- `SendBuffer` - the sending half of one session with its bytes: logic, sender, kernel and worker. `Enqueue` and
  the body of `BindSend` hold `send_lock_`, so each is one step; the compare-and-swap comes before the lock and
  is a step of its own.
- `ChatLogic` - callbacks, queues, packet thread, users, rooms, Redis threads. A turn of the packet thread's loop
  is three steps (user packet, system packet, result), which callbacks and Redis threads interleave with. `EnqueuePacket` is two
  steps of a worker, `OnRecv` (the bytes are stored) and `PushIndex`. A user packet has any id: `packet_handlers_` leads a packet with
  the id of `kSYS_USER_CONNECT`, `kSYS_USER_DISCONNECT` or `kRESPONSE_LOGIN` to the server's own handlers (`ConnectByPacket`,
  `DisconnectByPacket`, `ResultByPacket`), and one that is in no table stays in the buffer. The length it declares is its own or 0, which
  moves the front by nothing. (`LoginDBResHandler` is given the whole packet, so it takes the declared length for its `result_`, and accepts
  where that is 0, `kNONE`.) `Stray` stands for the bytes that a front moved past its rear makes of an empty buffer.
- `UserInbox` - how packets are found in a stream. `packet_buf_` is a `RingBuffer`, filled by a worker and read by the packet
  thread with no lock, so a step is one access to `front_`, `rear_` or the array. A byte is its number in the
  stream, so a property can say which bytes a handler was given; bytes of an earlier client (`Old`) and
  behind the array (`Beyond`) have numbers of their own. A handler reads the struct that it casts its pointer to (`Read`): of a packet
  that is shorter, what follows it (`past`) beside its `own` bytes. `GetSizeInUse` loads `rear_` twice, or once if the compiler keeps it.
  The stores into a `char` array may alias the indices, which keeps a build from moving them past `rear_`.
- `EchoNet` - what the ten servers share: clients, the kernel, the completion port, the Winsock calls as parts of a thread's
  step, a pool of sessions `ses`, the position `pc[t]` of every thread, and the boolean fields that are true (`on`). A completion
  carries the session of its key, as the code finds it, and what was asked for; what its `op_type_` says when the worker reads it is `ex` in
  07 and 07_Refactor (and the field `typed` of `ses` in the servers with one structure for both operations).
- `Practice01`, `02`, `03`, `03R`, `04`, `05`, `06`, `07`, `07R`, `08` - one server each: its main thread from start to end,
  accepter, workers, and packet, sender and Redis threads where it has them. A later step extends the earlier module, takes the
  parts that did not change, as the code was copied, and defines what is new; a definition ends in its practice's number
  (`CloseSocket05`). `Practice08` has the chat server's start, end and callbacks only; its data is in the modules above.
- `EchoServers` - one of the ten (`ver`) with its clients and the kernel, and what all of them promise.
- `MCSessionPool`, `MCSendBuffer`, `MCChatLogic`, `MCUserInbox`, `MCEcho` - instances for TLC.
- `SessionPoolProofs` (three parts: what holds whatever the time, `session_cnt_` and `UINT64_MAX`, what needs the reuse time to be
  enough), `RingBufferProofs`, `SendBufferProofs`, `ChatLogicProofs`, `UserInboxProofs` (extends `RingBufferProofs`), `EchoProofs` (types,
  sockets and threads of the echo servers), `EchoWordProofs` (their operations and words; extends it) - the proofs. `Induction` -
  induction over the naturals, and what the proofs need of it.

Operators introduced by a comment "Mutation of ..." are variants of the next definition with a mistake in it; they
are used nowhere, and exist to see that a property fails when the definition is replaced by the variant.

How the data is abstracted. `latest_conn_closed_` is `"elapsed"`, `"cooling"` or `"max"` (`UINT64_MAX`): what the
accepter's next tests would say of it. In `SessionPool` the ring is one bit (something to send), in
`SendBuffer` it is the array itself. A packet of `ChatLogic` is its id, what its handler reads of it and whether it declares a length of 0; passwords are the nondeterministic
answer of Redis; the id of an account is a model value and `""` is `NoId`. In the echo servers a message is what one receive
returns; a stale buffer's content is `Stale`; `latest_conn_closed_` is `"max"`, `"recent"` or `"long ago"`. `PROJECT.json` maps the
definitions that carry behaviour; constants' types and one-line helpers share the lines of the definition that uses them.

What the echo servers do that leaves the meaning of the program is kept in `marks` and followed no further (the constraint
`Defined`): `"overlap"` (a session is given a connection while something of its last one is still under way or left
behind), `"freed"` (a send structure deleted in use), `"null"` (a null session dereferenced), `"unmade"` (a user or manager used before it is
made), `"deleted"` (a session used after it was deleted), `"revived"` (a flag set again by its thread after `Terminate` cleared it), and
`"misread"` (07 and 07_Refactor: `ClearSession` zeroes the structures of a session whose completion a worker holds, and zero is `kACCEPT` of
session 0: the worker activates or closes the first session). All of them do occur. The steps after `"misread"` are in the
modules too, and `echo_live` takes them; `"early"` (an `AcceptEx` refused because the socket does not listen yet), `"late"` (a pending `WSASend`) and `"taken"` (a late
`CloseSocket` of Practice05 or 06 gives back a session that the accepter has taken and waits in `accept()` for) are explored.

How the modules fit. `SessionPool` takes of the logic only that `SendPacket` is called for slots a packet has come
from, which `ChatLogic` shows (`SendsOnlyWhereHeard`); `ChatLogic` takes of the network the order of the callbacks of
a slot and that a connection's end is reported, which `SessionPool` shows (`ReportedBeforeClosed`,
`PeerGoneIsNoticed`), and that it may be reported twice, and that packets come whole, which `UserInbox` is about; `SendBuffer` takes of the pool that one request is in
flight (`OneSend`).

## 3. Runs

| run | instance | shows |
|---|---|---|
| `pool_full` | 1 slot, 2 workers, 3 connections, all failures, sends; the drain assumption below | type correctness, single ownership, close once and on the own connection, one send, one receive, exact count, end reported before the slot is closed, reuse only after the reuse time, refinement of `SlotLifecycle` |
| `pool_live` | 2 slots, 1 worker, 2 connections, no failures, no sends, the time loaded twice, fair | slots come back, closed peers are noticed, an active session always listens |
| `pool_max_for_good` | 1 slot, 1 connection | *violation*: second `CloseSocket` leaves `UINT64_MAX` for ever |
| `pool_recv_error` | resets only | *violation*: failed `WSARecv` passes for a success |
| `send_ring` | ring of 4 from every content, packets of 1 to 3 bytes over 2 values, 6 bytes a connection, every outcome of `WSASend` | ring is a queue, WSABUFs are its bytes, pending request intact, no byte lost or repeated unless `WSASend` was pending |
| `send_pending` | the same | *violation*: with `ERROR_IO_PENDING` bytes are sent again |
| `chat` | 2 slots, 2 connections, 3 packets, 1 account, a room for one; every id and an unknown one (`ChatPackets`) | index for every packet, room consistent, logins in order, login by own packet, sends only where heard |
| `chat_live` | the same with 2 packets, declared with their length or with 0 (`LivePackets`), fair | packets are taken, logins answered |
| `chat_double_login` | 2 packets | *violation*: one id logged in twice |
| `inbox` | ring of 5 from every index, streams of up to 6 bytes in packets of 2 or 3, with a handler that reads 3 or with none, receives of up to 3 bytes | within their packets, handlers read the client's packets in order, no byte twice and none of an earlier client, and a packet that comes in a receive of its own does not wait for another |
| `echo` | the ten servers, 2 workers, 2 clients, 2 messages, 1 session (2 for Practice01 to 04) | echoes in order and to whom they belong, one receive and one send a session, no accepted connection lost, `Practice07R` keeps connections apart (until `op_type_` is misread), Practice08's sessions outlive the network's threads |
| `echo_live` | the ten servers, 2 workers, 1 client, 2 messages, 1 session, fair | echoes arrive, a client's leaving is noticed, the key ends every thread |

**Bounds.** A slot's flags do not depend on other slots, and the scans visit slots one after another, so one slot
with two workers and the sender has every race for a slot; two connections make it reused, a third makes a leftover
of the first meet it again. `MaxConn` bounds connections a slot and thereby everything else. `CntMod` stands for 2^32.
Two slots in `pool_live` are for the scan to go past one and come back. In `SendBuffer`, four places with packets of
up to three bytes wrap at each index and fill the ring from each; `MaxBytes` bounds the two history sequences only.
In `ChatLogic` two users meet in one room and for one account, and one of two connections may reuse a slot;
`MaxPackets` and `MaxQueued` bound the inputs; three packets log a user in, bring it into a room and speak there, or leave one
whose bytes were taken by another's index, or one that blocks, before two more. In `UserInbox`, a ring of
five holds one packet and part of the next, wraps inside a header and inside a body, and is full; a packet of two is shorter than the struct
of three that its handler reads; six bytes are two or three packets, cut at every
place. In `EchoServers`, two clients with one session reuse it, with two sessions they are served at once (that is where words could cross); two messages are one that is
echoed while the next is received; two workers are one that handles a completion beside one that closes. After `"taken"` it takes
a third client for the accepted connection to be lost: two do not reach that, and it was the proof of `NoConnectionLost`, which has no bound, that
found it (section 5). `MCEcho` says which kinds of clients each
server is checked with: `any` does all that the others do, the calmer kinds are used where a property needs one. `CHECK_DEADLOCK FALSE` is given where the model may stop: the process has
crashed, or the bounded clients have nothing left to ask.

**The drain assumption.** `DrainBeforeReuse` (pool), `Settles` (chat) and the guard of `Elapse` (echo servers from 07 on) say that
`SESSION_REUSE_TIME`, five seconds, is enough for the threads and the kernel to be done with a connection before its slot serves the
next. Nothing in the code enforces it. With it `ClosesOwnConnection`, `OneSend`, `OneRecv` and `LoggedInByOwnRequest` hold (section 5); ownership,
the count and the refinement are proved without it. Even so Practice07 can overlap (`is_sending_` or the ring's content is left behind by a
sender that comes after the close); `NeverOverlaps` shows that Practice07_Refactor cannot, as long as no worker misreads `op_type_`.

**Reading a plain field.** `latest_conn_closed_` is read and written without synchronisation. A build may load it
once or twice in the accepter's tests (`ReadsTimeTwice`). With two loads, the second can see `UINT64_MAX` and the unsigned
difference passes: `TakenOnlyWhenElapsed` needs one load, `OneOwner` holds with two as well. `GetSizeInUse` loads `rear_` twice in the
same way (`"reloaded"` in `UserInbox`): the size comes out negative, the index is spent, and the packet waits for the next receive;
`NothingWaits` holds where that has not happened. A `ConnectHandler` that clears the ring while a worker fills it (`"raced"`) leaves indices that no
one stored; `NoByteTwice` fails then, and `inbox` does not follow it (the constraint `NotRaced`).

**Fairness.** `SessionPool!Fairness`: each thread keeps running (the operating system's scheduler); for a slot with a
completion in the port, some worker takes one (strong fairness: the port is first-in first-out, and several workers share it);
the clock goes on. `ChatLogic!FairSpec`: the packet thread and the Redis threads keep running. Nothing is assumed
of clients, of failures or of the logic's calls. `EchoServers!Fairness`: every thread of the server keeps running, sends and aborts complete, the
clock goes on; clients need not do anything, and the key need not be pressed. `GoneIsClosed` is stated for the servers that see a failed
call (01 to 06): those with the error handler of 07 do not notice a receive that was refused.

## 4. Findings

Four comments the code does not live up to, each with a run whose counterexample shows it (details in
`PROJECT.json`): the lost slot (`network.cpp:484`), the swallowed error (`session.cpp:247`), the repeated
bytes (`session.cpp:103`) and the double login (`packet_manager.cpp:246`).

Five further statements in `SessionPool` are in no run, because the code does not satisfy them or not in
every build: `SendingMeansSending` (comment at `session.h:111`), `SendLockProtects` (`session.h:112` against
`session.cpp:13`), `ClosesOnlyExited` (`network.h:118`; a `WSASend` of no bytes closes a live session), `FailureHasSession`
(`network.cpp:343`; a failed `AcceptEx` has a null session) and, with `ReadsTimeTwice`, `TakenOnlyWhenElapsed`.

## 5. Proofs

For every value of the constants that `PoolAssumption`, `WorkersFinite`, `RingAssumption`, `SendAssumption`, `ChatAssumption`,
`InboxConstants`, `EchoConstants` and `EchoVersions` allow: any number of slots, workers, users, rooms, connections and packets, rings and packets of any length. `WorkersFinite`
(the server has finitely many workers) is there for `Cardinality` only. The bounds of the runs are constants, so the theorems have
none; a constraint of a run (`NotRaced`, `Defined`) is a condition of the property that is proved. What a theorem assumes beyond that is an `ASSUME` of its own,
and named below. Each argument was an invariant of a TLC run before it was proved.

`SessionPoolProofs`, whatever the time
- `TypeCorrect`: `TypeOK`, one lemma per action.
- `Inductive`: `IInv == TypeOK /\ OwnerInv`. `OneOwner` is not inductive: nothing in it explains why the accepter
  stays away from a slot that is being closed. `OwnerInv` adds the reason: an accept in flight, an opener, a
  closer and `is_activated_` each come with `latest_conn_closed_ = UINT64_MAX`, each excludes the others, and an
  accepter past its tests has read a smaller value while no one else had the slot.
- `SlotsHaveOneOwner`: `OneOwner` follows from `IInv`. No timing is assumed, and the time may be loaded twice.
- `ClosesOnlyLiveSockets`: a second invariant on `socket_`, the kernel's view of it and the closer's position.
- `Refinement`: initial states map to initial states of `SlotLifecycle`, and each action to a step or a stutter.

`SessionPoolProofs`, under `InTime == DrainBeforeReuse /\ ~ReadsTimeTwice`: five seconds are enough for the workers and the sender to leave a
slot, and the build loads `latest_conn_closed_` once for the accepter's tests. Neither can be dropped: with two loads a
slot is taken a moment after it was closed, and everything below fails with it.
- `ReuseInductive`: `ReuseInv`, the conjunction of `IInv` and four parts. `DrainInv`: an elapsed slot, and the one the accepter is taking,
  has no operation, worker or socket, so the records in flight and the workers' jobs are of the slot's latest connection. `TokenInv`: the accept, the worker
  that activates, the receive and the worker that handles it are one token that is never doubled. `SendInv`: while
  the slot has a socket, a send in flight or a sender past its compare-and-swap means `is_sending_`. (Not in general: `ClearSession` turns the flag off
  while the sender may be past the swap; there is no socket then.) `ReportInv`: a worker in `CloseSocket` has reported the connection's end, or its slot is an orphan
  of a failed accept that the compare-and-swap turns it away from.
- `ClosesItsOwn`, `TakesOnlyElapsed`, `OneRecvAtATime`, `OneSendAtATime`, `ReportsBeforeClosing` follow.
- `ActiveIsListening`: `ReceiveInv` adds that a receive in flight of an active session is marked `kRECV` and whose link is up. It assumes
  `"reset" \notin Faults`, too: after a reset `BindRecv` fails and says it succeeded, which the run `pool_recv_error` shows.

`SessionPoolProofs`, counts
- `CountsSessions`: `CountInv`, the balance of three cardinalities (active slots, closers before their decrement, workers before their increment) modulo
  `CntMod`, and `AcceptJobs`: whoever activates or counts handles an accept. No timing is assumed.
- `MaxIsGivenBack`: `UINT64_MAX` belongs to someone who will set it again. It assumes `~LogicSends` and `Faults \subseteq {"aborted", "reset"}`: otherwise
  a second `CloseSocket` leaves it for ever (run `pool_max_for_good`) or a failing call loses the slot. `MaxInv` says that one record or one handler
  holds an active slot.

`RingBufferProofs`, `SendBufferProofs`
- Lemmas on the modulus (a distance on the ring below `size_` is itself or less `size_`) and on each operator:
  `Enqueue` appends the fitting prefix to `Contents`, `MoveFront` drops a prefix, `Gather` of `WsaBufs` is
  `Contents`.
- `SendInductive`: `IInv` adds to `StreamIntactUnlessLate` that there is one request at a time and that a
  pending one is what `SetWsaBuf` made of a ring with an earlier `rear_`: since then the ring has only grown.
- `SendTypeCorrect`, `StreamInOrder`, `BuffersAreContents`, `PendingIsIntact`, `RingImplementsQueue` follow.

`ChatLogicProofs`
- `ChatTypeCorrect`: `TypeOK` and `Opened` (a slot that is not closed has had a connection). The hard part is the list that `LeaveUser` makes: a recursive
  function over the list's places, of which an induction shows that it keeps some of the list's members and is not longer.
- `RoomsAreReal`: `InRoomHasRoom` is inductive beside the types.
- `SendsToWhoSpoke`: `HeardInv` follows who has spoken through all that may cause a send: a packet in a buffer, a task and a result of
  Redis, a room's list.
- `NobodyInheritsALogin`: `OwnInv`, assuming `Settles`: packets that can be reached, tasks and results that are about are of the connection the slot has
  now. What an earlier connection left in the buffer has no index; if one of this connection leads to it, it counts as this
  connection's (a negative number). That a login takes a password is not claimed: a packet with the id of `kRESPONSE_LOGIN` and a declared length of 0 is enough.
- `NoPacketForgotten`: `IndexForEveryPacket` counts, for each buffer, the packets up to the first that is never removed or whose index has been spent
  (`Reachable`) against the indices in the queue and in the hands of workers between the two steps of `EnqueuePacket`. `IndexInv` adds that these
  workers are finitely many; what has to be shown is how the number of a user's places in a queue changes by `Append` and `Tail` (a
  bijection that moves each place by one). The packets behind a blocker are in no such balance: an index that meets it is spent.
- `EveryLoginOnceInOrder`: `OrderInv`, the numbers of the tasks through the three queues, for a set of Redis threads that has one (`Only(r)`), which is
  what `ChatServer::Start` makes of its default `redis_thread_cnt = 1`. With more threads the answers may overtake each other.

`UserInboxProofs`: rings, headers, packets, receives and streams of any size, cut anywhere
- `Ends`, the places where packets end, is a recursive function; `EndGrows` (by induction) makes a header's bytes name one packet.
- `InboxInductive`: `IInv == TypeOK /\ WorkerInv /\ OrderInv`. `WorkerInv`: what a worker has in hand are the next bytes of the stream. `OrderInv`: unless
  the ring was cleared under a worker, the ring's bytes ascend, one byte may be stored but behind `rear_` still, what was handled is below what is there, and
  what the thread has read of `rear_` is a place between `front_` and `rear_` now: so `GetSizeInUse`, which may take two values of it, never finds more bytes than
  there are. `HandlersGetNoByteTwice` follows, of what a handler reads within its packet (`own`). It is not so of what it reads past one (`past`): those
  bytes are the next packet's, which are handled again, or an earlier client's.
- `PacketsInOrder`: `ExactInv` adds that, while nothing is dropped or cleared, the ring holds exactly what follows the handled packets and the header in
  the thread's hands is that of the next.
- `WholePacketsDoNotWait`: `CountInv` adds that, while packets come whole, the bytes received end with the packet of the last pending index, and those of the
  others are behind `rear_`: an index never finds its packet half there, which would cost the index and leave the packet.

`EchoProofs`, `EchoWordProofs`: all ten echo servers at once, any number of sessions, clients, workers and messages
- `Next` of `EchoServers` is one of ten relations. `NextIs` brings every step of each to a vocabulary (`Known`), in which a step is written once,
  whichever servers take it: `Fetches`, `Ends`, `Clears`, `Claims`, `Posts`, ... The one other step is `Misreads` of 07 and 07_Refactor, which sets the mark
  `"misread"`. Every later proof is about the vocabulary only.
- `EchoTypes`: the types, in which a thread holds a session only where its code does, and no thread is started twice (`StartInv`).
- `EchoOutlive`: `SessionsOutliveNetwork`. The main thread is past the joins of workers, accepter and sender when it deletes the sessions, and those
  that it never started stay off.
- `EchoLinks`: `LinkInv`, four parts about sockets. `SockInv`: a connection not accepted yet has nothing of it, one that was is at most one session's.
  `ShutInv`: who clears a session has closed its socket. `GivenInv`: a session given back with a socket has a closer. `PhaseInv` (07 on): an accept under way, a
  session activated and a thread that closes it are one token. `SockInv` holds whatever happens. `PhaseInv` ends with the first `"misread"`, and the other two
  with that or an `"overlap"`: a worker that takes a completion for an accept of the first session activates it beside its accept, and posts
  a receive, or closes it. So do `NoConnectionLost`, `NeverOverlaps`, `OneReceive` and `OneSend`, each of which names the marks it ends with.
- `EchoNoneLost`: `NoConnectionLost`, from `LinkInv`. Its first form was not inductive and, with three clients, not true: in Practice05 and 06 two threads
  may be about to close a session's connection. The first gives the session back, the accepter takes it (`is_activated_` is set before `accept()`), the
  second's compare-and-swap succeeds on the accepter's flag, and the connection that `accept()` then returns may be left without a session. The
  mark `"taken"` names the case and the property speaks of all others.
- `EchoNeverOverlaps`: `NeverOverlaps`. `QuietInv` says what is left of a session of Practice07_Refactor while it cools (a sender past its claim, that finds it
  not activated) and that nothing is when it may be offered. Its check of `is_activated_` under `send_lock_` does not help against `"misread"`:
  `ClearSession` zeroes the structures before it takes the lock.
- `EchoOneReceive`, `EchoOneSend`: `OneReceive` and `OneSend` bound a cardinality over kernel, port and workers. The invariants (`RecvInv`, `SendInv`) say
  instead that the operation is one token (`Single`) or there is none (`Empty`); lemmas say what posting, completing, dequeuing and dropping do to it.
  `SendInv` adds that `is_sending_`, or a queue of sends that is not empty, tells of the send.
- `EchoNoCrossTalk`: `NoCrossTalk`, for clients of every kind. `OwnInv`: an operation pending on a connection is of the session that has its socket; `OpsInv`: a server with a synchronous accept
  has no completion of one; `TalkInv`: what port, threads, deque and session hold for a session with an open connection are that client's words.
- `EchoOrder`: `EchoInOrder`. `OrderInv`: the words heard, being sent, to be sent, in the packet thread's hands, in the deque and just received follow one another with no gap
  and no repetition. The deque holds the words of all sessions mixed: of each, they are the next ones, in order (`Inward`).

The parts of these invariants were invariants of TLC runs on the instances of `echo` before they were proved.

Only model-checked: liveness (fairness and `ENABLED` are outside the prover). Every invariant and every action property of the passing runs is proved.
Induction over data cannot be done with the library's theorems, which take an operator as a parameter; `Induction` states it for a set
instead (`SetInduction`, from the well-foundedness of `<`), which the provers can use.

## 6. Not modelled

- The vendored Redis client (`RedisClient.cpp`, `RedisClient.hpp`): what it answers is any answer.
- `packet_handler/handler.h`: declarations only.
- Console input beyond the one command that ends a server, logging, and the addresses given to sockets.
- What follows undefined behaviour: the run `echo` stops at a mark other than `"early"`, `"late"` and `"taken"`, the pool at a crash.
- After a `"misread"`, one thing: `closesocket` on a session whose `AcceptEx` is pending does not end that accept in `EchoNet`.
- Operations without a caller in the server: `RingBuffer::Dequeue`, `MoveRear`, `GetContinuousEnqueueSize`.
- In the echo servers the ring of a session (05, 07, 07_Refactor) is the sequence of what it holds: its code is that of
  Practice08, which `RingBuffer` models with indices and bytes. The counts of clients of 03 to 06 are left out: nothing reads them.

What a run checks and no theorem states are the liveness properties: `ClosedSlotIsReused`, `PeerGoneIsNoticed`, `PacketsAreTaken`, `LoginsAreAnswered`,
`EchoArrives`, `GoneIsClosed` and `KeyEndsServer`.
