----------------------------- MODULE ChatLogic ------------------------------
(***************************************************************************)
(* The chat logic (Practice08): packet_manager.cpp with the users, the     *)
(* rooms and the Redis tasks.  The network's workers call OnConnect,       *)
(* OnRecv and OnDisconnect, which fill queues; one packet thread empties   *)
(* them and runs every handler; Redis threads check passwords in between.  *)
(*                                                                         *)
(*   workers --OnRecv--> packet_buf_, incoming_packet_user_index_queue_    *)
(*   workers --OnConnect, OnDisconnect--> system_packet_queue_             *)
(*   packet thread --PushTaskReq--> task_req_queue_ --> Redis threads      *)
(*   Redis threads --PushTaskRes--> task_res_queue_ --> packet thread      *)
(*                                                                         *)
(* In a turn of its loop the packet thread takes at most one packet of a   *)
(* user, then one system packet, then one Redis result.                    *)
(*                                                                         *)
(* A packet is taken to arrive in one receive, whole and alone.  Its id is *)
(* any: one table, packet_handlers_, serves the users' packets, the system *)
(* packets and Redis's results, so that a client may send the id of any of *)
(* them, or one that nobody handles.  The length it declares is its own,   *)
(* or 0, which leaves it where it is when it has been handled.             *)
(***************************************************************************)
EXTENDS Integers, Sequences, FiniteSets, SequencesExt

CONSTANTS Users,        \* user_obj_pool_: one user object for each session
          Accounts,     \* the user ids that Redis knows
          NoId,         \* the empty string
          Rooms,        \* the indices of room_list_
          NoRoom,       \* -1, and any other index that is not a room's
          MaxRoomUsers, \* kMAX_ROOM_USER_COUNT
          RedisThreads, \* the threads of worker_list_
          Settles,      \* timing assumption, see OnConnect
          ClientPackets, \* bound: the packets that the clients send
          MaxConn,      \* bound: connections, of all slots together
          MaxPackets,   \* bound: packets received, by all slots together
          MaxQueued     \* bound: entries of a queue the callbacks fill

ASSUME ChatAssumption ==
    /\ NoId \notin Accounts
    /\ NoRoom \notin Rooms
    /\ MaxRoomUsers \in Nat
    /\ Settles \in BOOLEAN
    /\ MaxConn \in Nat
    /\ MaxPackets \in Nat
    /\ MaxQueued \in Nat

UserIds == Accounts \cup {NoId}
Domains == {"NONE", "LOGIN", "ROOM"}

(***************************************************************************)
(* The packets a client may send; the password is known to Redis's answer  *)
(* only.  "connect", "disconnect" and "result" have the ids of the server's*)
(* own kSYS_USER_CONNECT, kSYS_USER_DISCONNECT and kRESPONSE_LOGIN; empty  *)
(* says that the length declared is 0.  "unknown" has no handler.          *)
(***************************************************************************)
Requests ==
    [op : {"login"}, id : UserIds, empty : BOOLEAN]
      \cup [op : {"enter"}, room : Rooms \cup {NoRoom}, empty : BOOLEAN]
      \cup [op : {"leave", "chat", "connect", "disconnect", "result"},
            empty : BOOLEAN]
      \cup [op : {"unknown"}]

ASSUME ClientsAssumption == ClientPackets \subseteq Requests

(***************************************************************************)
(* Of a packet that has been handled and is still there, the connection is *)
(* no longer recorded (0): its index is spent.  Stray stands for the bytes *)
(* between the front and the rear of a buffer whose front has been moved   *)
(* past its rear.                                                          *)
(***************************************************************************)
Stray == [req |-> [op |-> "stray"], conn |-> 0]

VARIABLES
  (* network: the callbacks' side *)
  net,       \* state of the slot's connection
  conns,     \* number of connections the slot has had
  received,  \* number of packets received so far
  heard,     \* the slots that a packet has come from
  pushing,   \* slot and connection of each OnRecv between its two steps
  (* User, UserManager, RoomManager *)
  user,      \* id: user_id_, domain: domain_state_, room: room_idx_
  idMap,     \* keys of user_id_map_; the index stored with a key is not used
  rooms,     \* user_list_ of each room
  (* PacketManager *)
  pc,        \* which queue the packet thread polls next
  inbox,     \* the packets in a user's packet_buf_
  indexQ,    \* incoming_packet_user_index_queue_
  systemQ,   \* system_packet_queue_
  sent,      \* the slots that the last handler called SendPacket for
  (* RedisManager *)
  reqQ,      \* task_req_queue_
  busy,      \* the task a Redis thread works on, <<>> if none
  resQ,      \* task_res_queue_
  (* what a reader of the code wants to know *)
  pushed,    \* number of login tasks pushed so far
  answered,  \* number of them answered so far
  login      \* the connection and the id of the slot's last accepted login

network == <<net, conns, received, heard, pushing>>
logic   == <<user, idMap, rooms>>
redis   == <<reqQ, busy, resQ>>
ghosts  == <<pushed, answered, login>>
vars == <<network, logic, pc, inbox, indexQ, systemQ, sent, redis, ghosts>>

Init ==
    /\ net = [u \in Users |-> "closed"]
    /\ conns = [u \in Users |-> 0]
    /\ received = 0
    /\ heard = {}
    /\ pushing = {}
    /\ user = [u \in Users |-> [id |-> NoId, domain |-> "NONE", room |-> NoRoom]]
    /\ idMap = {}
    /\ rooms = [r \in Rooms |-> <<>>]
    /\ pc = "user"
    /\ inbox = [u \in Users |-> <<>>]
    /\ indexQ = <<>>
    /\ systemQ = <<>>
    /\ sent = {}
    /\ reqQ = <<>>
    /\ busy = [t \in RedisThreads |-> <<>>]
    /\ resQ = <<>>
    /\ pushed = 0
    /\ answered = 0
    /\ login = [u \in Users |-> [conn |-> 0, id |-> NoId]]

-----------------------------------------------------------------------------
(* The network's callbacks.  Those for one slot come in this order.        *)

Total(f) == FoldFunction(+, 0, f)

Pending(q, u) == \E i \in DOMAIN q : q[i].user = u

(***************************************************************************)
(* Nothing of the slot's earlier connections is still under way: every     *)
(* index is spent, every event handled and every task answered.  Bytes may *)
(* be left in packet_buf_, where no index leads to them.                   *)
(***************************************************************************)
Settled(u) ==
    /\ u \notin ToSet(indexQ) /\ \A w \in pushing : w.user # u
    /\ ~Pending(systemQ, u) /\ ~Pending(reqQ, u) /\ ~Pending(resQ, u)
    /\ \A t \in RedisThreads : ~Pending(busy[t], u)

(***************************************************************************)
(* A slot is used again when its reuse time is over; with Settles, that    *)
(* was long enough for the logic and Redis to be done with what it had.    *)
(***************************************************************************)
OnConnect(u) ==
    /\ net[u] # "open"
    /\ Total(conns) < MaxConn
    /\ Len(systemQ) < MaxQueued
    /\ Settles => Settled(u)
    /\ net' = [net EXCEPT ![u] = "open"]
    /\ conns' = [conns EXCEPT ![u] = @ + 1]
    /\ systemQ' = Append(systemQ, [op |-> "connect", user |-> u])
    /\ UNCHANGED <<received, heard, pushing, logic, pc, inbox, indexQ, sent,
                   redis, ghosts>>

(***************************************************************************)
(* EnqueuePacket in its two steps: a worker stores the bytes, then it      *)
(* pushes the index of the user.  A connection has one receive at a time,  *)
(* so that the next packet comes when both are done.                       *)
(***************************************************************************)
OnRecv(u, p) ==
    LET w == [user |-> u, conn |-> conns[u]] IN
    /\ net[u] \in {"open", "failing"}
    /\ w \notin pushing
    /\ received < MaxPackets
    /\ received' = received + 1
    /\ heard' = heard \cup {u}
    /\ pushing' = pushing \cup {w}
    /\ inbox' = [inbox EXCEPT ![u] = Append(@, [req |-> p, conn |-> conns[u]])]
    /\ UNCHANGED <<net, conns, logic, pc, indexQ, systemQ, sent, redis, ghosts>>

PushIndex(u) ==
    /\ Len(indexQ) < MaxQueued
    /\ \E w \in pushing : w.user = u /\ pushing' = pushing \ {w}
    /\ indexQ' = Append(indexQ, u)
    /\ UNCHANGED <<net, conns, received, heard, logic, pc, inbox, systemQ, sent,
                   redis, ghosts>>

(* A receive and a send may each report the end of the same connection. *)
OnDisconnect(u) ==
    /\ net[u] \in {"open", "failing"}
    /\ Len(systemQ) < MaxQueued
    /\ net' = [net EXCEPT ![u] = IF @ = "open" THEN "failing" ELSE "closed"]
    /\ systemQ' = Append(systemQ, [op |-> "disconnect", user |-> u])
    /\ UNCHANGED <<conns, received, heard, pushing, logic, pc, inbox, indexQ, sent,
                   redis, ghosts>>

-----------------------------------------------------------------------------
(* The packet thread polls the users' packets: DequeuePacket               *)

NoUserPacket ==
    /\ pc = "user"
    /\ indexQ = <<>>
    /\ pc' = "system"
    /\ sent' = {}
    /\ UNCHANGED <<network, logic, inbox, indexQ, systemQ, redis, ghosts>>

(***************************************************************************)
(* An index that is spent on nothing: a Clear has thrown the packet away,  *)
(* stray bytes are shorter than what they declare, or nobody handles the   *)
(* packet's id; then it stays, and what comes after it waits behind it.    *)
(***************************************************************************)
StrayIndex ==
    /\ pc = "user"
    /\ indexQ # <<>>
    /\ LET packets == inbox[Head(indexQ)] IN
       packets # <<>> => Head(packets).req.op \in {"unknown", "stray"}
    /\ indexQ' = Tail(indexQ)
    /\ pc' = "system"
    /\ sent' = {}
    /\ UNCHANGED <<network, logic, inbox, systemQ, redis, ghosts>>

(***************************************************************************)
(* What GetPacketData may find at the front for the next index, if it is   *)
(* one of u: the packet there, or any packet if the bytes are stray.  Of   *)
(* one left over, the connection is the negative of the one that has it    *)
(* handled now.                                                            *)
(***************************************************************************)
AtFront(u) ==
    IF indexQ = <<>> \/ inbox[u] = <<>> THEN {}
    ELSE IF Head(indexQ) # u THEN {}
    ELSE IF Head(inbox[u]) = Stray THEN [req : ClientPackets, conn : {-conns[u]}]
    ELSE IF Head(inbox[u]).conn = 0 THEN {[Head(inbox[u]) EXCEPT !.conn = -conns[u]]}
    ELSE {Head(inbox[u])}

(* A packet p of u with the id op is at the front; its index is taken. *)
TakeFront(u, p, op) ==
    /\ pc = "user"
    /\ p \in AtFront(u)
    /\ p.req.op = op
    /\ pc' = "system"
    /\ indexQ' = Tail(indexQ)
    /\ UNCHANGED <<network, systemQ>>

(* Mutation of CompleteProcess: the buffer's front is not moved. *)
CompleteProcessKeeps(u, p) == UNCHANGED inbox

(* The packets of a list, whose indices have been spent on stray bytes *)
LeftOver(list) == [i \in DOMAIN list |-> [list[i] EXCEPT !.conn = 0]]

(***************************************************************************)
(* The front is moved by the length declared.  A packet that declares none *)
(* stays at the front; stray bytes go on, or end where packets begin.      *)
(***************************************************************************)
CompleteProcess(u, p) ==
    LET packets == inbox[u] IN
    \/ /\ p.req.empty
       /\ inbox' = [inbox EXCEPT ![u] = <<[packets[1] EXCEPT !.conn = 0]>> \o Tail(packets)]
    \/ /\ ~p.req.empty /\ packets[1].conn # 0
       /\ inbox' = [inbox EXCEPT ![u] = Tail(packets)]
    \/ /\ ~p.req.empty /\ packets[1].conn = 0
       /\ \/ packets[1] = Stray /\ UNCHANGED inbox
          \/ inbox' = [inbox EXCEPT ![u] = LeftOver(Tail(packets))]

(* The index, the packet at the front, and CompleteProcess after its handler *)
TakePacket(u, p, op) == TakeFront(u, p, op) /\ CompleteProcess(u, p)

(* A task for Redis, with its number in the order of PushTaskReq *)
Task(u, packet) ==
    [user |-> u, id |-> packet.req.id, conn |-> packet.conn, no |-> pushed + 1]

(***************************************************************************)
(* The number of users is compared with its maximum, but nothing counts    *)
(* them: current_user_cnt_ stays 0.  Then user_id_map_ is asked for the id *)
(* (FindUserIndexByID).                                                    *)
(***************************************************************************)
LoginHandler(u, p) ==
    /\ TakePacket(u, p, "login")
    /\ \/ /\ p.req.id \notin idMap
          /\ user' = [user EXCEPT ![u].id = p.req.id]
          /\ reqQ' = Append(reqQ, Task(u, p))
          /\ pushed' = pushed + 1
          /\ sent' = {}
       \/ /\ p.req.id \in idMap
          /\ sent' = {u}
          /\ UNCHANGED <<user, reqQ, pushed>>
    /\ UNCHANGED <<idMap, rooms, busy, resQ, answered, login>>

(* Mutations of EnterRoom: room_idx_ gets the number of users; or nothing. *)
EnterRoomCount(u, r) ==
    /\ rooms' = [rooms EXCEPT ![r] = Append(@, u)]
    /\ user' = [user EXCEPT ![u].room = Len(rooms[r]), ![u].domain = "ROOM"]

EnterNoRoom(u, r) ==
    /\ rooms' = [rooms EXCEPT ![r] = Append(@, u)]
    /\ user' = [user EXCEPT ![u].domain = "ROOM"]

(* EnterUser of a room there is, which is not full *)
EnterRoom(u, r) ==
    /\ rooms' = [rooms EXCEPT ![r] = Append(@, u)]
    /\ user' = [user EXCEPT ![u].room = r, ![u].domain = "ROOM"]

EnterRoomHandler(u, p) ==
    LET r == p.req.room
        welcome == /\ user[u].domain = "LOGIN"
                   /\ r \in Rooms
                   /\ Len(rooms[r]) < MaxRoomUsers
    IN
    /\ TakePacket(u, p, "enter")
    /\ sent' = {u}
    /\ \/ welcome /\ EnterRoom(u, r)
       \/ ~welcome /\ UNCHANGED <<user, rooms>>
    /\ UNCHANGED <<idMap, redis, ghosts>>

(* LeaveUser erases everyone in the list who has the user's id. *)
LeaveUser(list, u) ==
    LET kept[i \in 0..Len(list)] ==
            IF i = 0 THEN <<>>
            ELSE IF user[list[i]].id = user[u].id THEN kept[i - 1]
            ELSE Append(kept[i - 1], list[i])
    IN  kept[Len(list)]

LeaveRoomHandler(u, p) ==
    LET r == user[u].room
        inRoom == user[u].domain = "ROOM" /\ r \in Rooms
    IN
    /\ TakePacket(u, p, "leave")
    /\ sent' = {u}
    /\ \/ /\ inRoom
          /\ rooms' = [rooms EXCEPT ![r] = LeaveUser(@, u)]
          /\ user' = [user EXCEPT ![u].domain = "LOGIN"]
       \/ ~inRoom /\ UNCHANGED <<user, rooms>>
    /\ UNCHANGED <<idMap, redis, ghosts>>

(* Mutation of RoomChatHandler: the message goes to every session. *)
ChatToAllHandler(u, p) ==
    /\ TakePacket(u, p, "chat")
    /\ sent' = IF user[u].domain # "ROOM" THEN {} ELSE Users
    /\ UNCHANGED <<logic, redis, ghosts>>

(* NotifyChat goes to the whole list, the speaker included. *)
RoomChatHandler(u, p) ==
    LET r == user[u].room IN
    /\ TakePacket(u, p, "chat")
    /\ sent' = IF user[u].domain # "ROOM" THEN {}
               ELSE IF r \in Rooms THEN {u} \cup ToSet(rooms[r])
               ELSE {u}
    /\ UNCHANGED <<logic, redis, ghosts>>

-----------------------------------------------------------------------------
(* The server's own ids, in a packet of a user: the table leads to         *)
(* ConnectHandler, DisconnectHandler and LoginDBResHandler all the same.   *)

(* What Clear sets; the buffer is cleared besides. *)
Blank == [id |-> NoId, domain |-> "NONE", room |-> NoRoom]

(* After Clear, CompleteProcess moves the front of the empty buffer on. *)
ConnectByPacket(u, p) ==
    /\ TakeFront(u, p, "connect")
    /\ user' = [user EXCEPT ![u] = Blank]
    /\ inbox' = [inbox EXCEPT ![u] = IF p.req.empty THEN <<>> ELSE <<Stray>>]
    /\ sent' = {}
    /\ UNCHANGED <<idMap, rooms, redis, ghosts>>

(* DeleteUserInfo, if the user is logged in *)
Forget(u) == idMap' = IF user[u].domain # "NONE" THEN idMap \ {user[u].id} ELSE idMap

DisconnectByPacket(u, p) ==
    /\ TakePacket(u, p, "disconnect")
    /\ Forget(u)
    /\ sent' = {}
    /\ UNCHANGED <<user, rooms, redis, ghosts>>

(* The accepted user's id is set to "" before SetUserLogin adds it. *)
Accept(u, conn, id) ==
    /\ user' = [user EXCEPT ![u].id = NoId, ![u].domain = "LOGIN"]
    /\ idMap' = idMap \cup {NoId}
    /\ login' = [login EXCEPT ![u] = [conn |-> conn, id |-> id]]

(***************************************************************************)
(* For the handler the body begins with the packet's header: result_ is    *)
(* the length that is declared, and 0 is ERROR_CODE::kNONE.                *)
(***************************************************************************)
ResultByPacket(u, p) ==
    /\ TakePacket(u, p, "result")
    /\ sent' = {u}
    /\ \/ p.req.empty /\ Accept(u, p.conn, NoId)
       \/ ~p.req.empty /\ UNCHANGED <<user, idMap, login>>
    /\ UNCHANGED <<rooms, redis, pushed, answered>>

-----------------------------------------------------------------------------
(* ... then the system packets: DequeueSystemPacket                        *)

NoSystemPacket ==
    /\ pc = "system"
    /\ systemQ = <<>>
    /\ pc' = "redis"
    /\ sent' = {}
    /\ UNCHANGED <<network, logic, inbox, indexQ, systemQ, redis, ghosts>>

TakeSystemPacket(u, op) ==
    /\ pc = "system"
    /\ systemQ # <<>>
    /\ Head(systemQ) = [op |-> op, user |-> u]
    /\ pc' = "redis"
    /\ systemQ' = Tail(systemQ)
    /\ sent' = {}
    /\ UNCHANGED <<network, indexQ, redis, ghosts>>

(* Mutation of ConnectHandler: Clear leaves domain_state_ as it was. *)
ConnectKeepsDomain(u) ==
    /\ TakeSystemPacket(u, "connect")
    /\ user' = [user EXCEPT ![u].id = NoId]
    /\ inbox' = [inbox EXCEPT ![u] = <<>>]
    /\ UNCHANGED <<idMap, rooms>>

(* Clear: also of the packets received since, if the packet came late *)
ConnectHandler(u) ==
    /\ TakeSystemPacket(u, "connect")
    /\ user' = [user EXCEPT ![u] = Blank]
    /\ inbox' = [inbox EXCEPT ![u] = <<>>]
    /\ UNCHANGED <<idMap, rooms>>

(* Nothing but DeleteUserInfo: the room's list keeps the user. *)
DisconnectHandler(u) ==
    /\ TakeSystemPacket(u, "disconnect")
    /\ Forget(u)
    /\ UNCHANGED <<user, rooms, inbox>>

-----------------------------------------------------------------------------
(* ... then the results of Redis: GetTaskRes                               *)

NoTaskRes ==
    /\ pc = "redis"
    /\ resQ = <<>>
    /\ pc' = "user"
    /\ sent' = {}
    /\ UNCHANGED <<network, logic, inbox, indexQ, systemQ, redis, ghosts>>

LoginDBResHandler ==
    /\ pc = "redis"
    /\ resQ # <<>>
    /\ pc' = "user"
    /\ resQ' = Tail(resQ)
    /\ answered' = answered + 1
    /\ LET task == Head(resQ)
           u    == task.user
       IN /\ sent' = {u}
          /\ \/ task.ok /\ Accept(u, task.conn, task.id)
             \/ ~task.ok /\ UNCHANGED <<user, idMap, login>>
    /\ UNCHANGED <<network, rooms, inbox, indexQ, systemQ, reqQ, busy, pushed>>

-----------------------------------------------------------------------------
(* The Redis threads: GetTaskReq, then LoginHandler's answer               *)

(* Mutation of GetTaskReq: the task is popped and lost. *)
GetTaskReqLoses(t) ==
    /\ busy[t] = <<>>
    /\ reqQ # <<>>
    /\ reqQ' = Tail(reqQ)
    /\ UNCHANGED <<network, logic, pc, inbox, indexQ, systemQ, sent, busy, resQ, ghosts>>

GetTaskReq(t) ==
    /\ busy[t] = <<>>
    /\ reqQ # <<>>
    /\ busy' = [busy EXCEPT ![t] = <<Head(reqQ)>>]
    /\ reqQ' = Tail(reqQ)
    /\ UNCHANGED <<network, logic, pc, inbox, indexQ, systemQ, sent, resQ, ghosts>>

(* The password matches or it does not; an unknown id is refused. *)
PushTaskRes(t) ==
    /\ busy[t] # <<>>
    /\ LET task == Head(busy[t]) IN
       \E ok \in BOOLEAN :
          /\ ok => task.id \in Accounts
          /\ resQ' = Append(resQ, [user |-> task.user, id |-> task.id, ok |-> ok,
                                   conn |-> task.conn, no |-> task.no])
    /\ busy' = [busy EXCEPT ![t] = <<>>]
    /\ UNCHANGED <<network, logic, pc, inbox, indexQ, systemQ, sent, reqQ, ghosts>>

-----------------------------------------------------------------------------
PacketThread ==
    \/ NoUserPacket \/ StrayIndex
    \/ \E u \in Users : \E p \in AtFront(u) :
          \/ LoginHandler(u, p) \/ EnterRoomHandler(u, p)
          \/ LeaveRoomHandler(u, p) \/ RoomChatHandler(u, p)
          \/ ConnectByPacket(u, p) \/ DisconnectByPacket(u, p) \/ ResultByPacket(u, p)
    \/ \E u \in Users : ConnectHandler(u) \/ DisconnectHandler(u)
    \/ NoSystemPacket
    \/ NoTaskRes \/ LoginDBResHandler

RedisThread(t) == GetTaskReq(t) \/ PushTaskRes(t)

Callbacks ==
    \E u \in Users : \/ OnConnect(u) \/ OnDisconnect(u) \/ PushIndex(u)
                     \/ \E p \in ClientPackets : OnRecv(u, p)

Next == PacketThread \/ (\E t \in RedisThreads : RedisThread(t)) \/ Callbacks

Spec == Init /\ [][Next]_vars

(* The threads keep running, a worker in OnRecv too; nothing is assumed of  *)
(* the clients.                                                            *)
FairSpec == /\ Spec
            /\ WF_vars(PacketThread)
            /\ \A u \in Users : WF_vars(PushIndex(u))
            /\ \A t \in RedisThreads : WF_vars(RedisThread(t))

-----------------------------------------------------------------------------
(* Type correctness: every queue holds what its producers put there.       *)
Packets == [req : Requests, conn : Nat] \cup {Stray}
Events  == [op : {"connect", "disconnect"}, user : Users]
Tasks   == [user : Users, id : UserIds, conn : Int, no : Nat \ {0}]
Results == [user : Users, id : UserIds, ok : BOOLEAN, conn : Int,
            no : Nat \ {0}]

NetworkOK == /\ net \in [Users -> {"open", "failing", "closed"}]
             /\ conns \in [Users -> Nat]
             /\ received \in 0..MaxPackets
             /\ heard \subseteq Users
             /\ pushing \subseteq [user : Users, conn : Nat]

LogicOK == /\ user \in [Users -> [id : UserIds, domain : Domains,
                                  room : Rooms \cup {NoRoom}]]
           /\ idMap \subseteq UserIds
           /\ rooms \in [Rooms -> Seq(Users)]

QueuesOK == /\ pc \in {"user", "system", "redis"}
            /\ inbox \in [Users -> Seq(Packets)]
            /\ indexQ \in Seq(Users)
            /\ systemQ \in Seq(Events)
            /\ sent \subseteq Users
            /\ reqQ \in Seq(Tasks)
            /\ busy \in [RedisThreads -> Seq(Tasks)]
            /\ resQ \in Seq(Results)

GhostsOK == /\ pushed \in Nat
            /\ answered \in Nat
            /\ login \in [Users -> [conn : Int, id : UserIds]]

TypeOK == NetworkOK /\ LogicOK /\ QueuesOK /\ GhostsOK

(***************************************************************************)
(* A packet that is not removed, or whose index has been spent before, may *)
(* keep the packets behind it waiting.                                     *)
(***************************************************************************)
Blocker(p) == p.conn = 0 \/ p.req.op = "unknown"

(* The number of packets before the first of that kind *)
Reachable(u) ==
    Cardinality({i \in DOMAIN inbox[u] : \A j \in 1..i : ~Blocker(inbox[u][j])})

(***************************************************************************)
(* Every packet that waits in a packet_buf_, up to the first that nobody   *)
(* handles or that is left over, has an index of its own, in the index     *)
(* queue or in the hands of the worker that is about to push it:           *)
(* DequeuePacket looks at a buffer once for each index, so a packet without*)
(* one would not be seen until another packet came.  Between the two steps *)
(* of EnqueuePacket an earlier index may take the packet, or a Clear throw *)
(* it away, whose own index comes then too late.                           *)
(***************************************************************************)
IndexForEveryPacket ==
    \A u \in Users :
        Reachable(u) <= Cardinality({i \in DOMAIN indexQ : indexQ[i] = u})
                          + Cardinality({w \in pushing : w.user = u})

(***************************************************************************)
(* A user whose domain_state_ is kROOM has the index of a room, and there  *)
(* are never more users in its list than it has places for: the handlers'  *)
(* answers kROOM_INVALID_INDEX (of LeaveRoom) and                          *)
(* kCHAT_ROOM_INVALID_ROOM_NUMBER are never sent.  Clear, SetUserLogin and *)
(* a second login change the one field without the other.                  *)
(***************************************************************************)
InRoomHasRoom ==
    /\ \A u \in Users : user[u].domain = "ROOM" => user[u].room \in Rooms
    /\ \A r \in Rooms : Len(rooms[r]) <= MaxRoomUsers

(***************************************************************************)
(* The login tasks go round through Redis and back in the order in which   *)
(* they were pushed, and none is lost or answered twice: what is under way *)
(* is exactly what has been pushed and not yet been answered.  With one    *)
(* Redis thread (the default of ChatServer::Start) only.                   *)
(***************************************************************************)
UnderWay == resQ \o FlattenSeq(SetToSeq({busy[t] : t \in RedisThreads})) \o reqQ

LoginsAnsweredInOrder ==
    /\ Len(UnderWay) = pushed - answered
    /\ \A i \in DOMAIN UnderWay : UnderWay[i].no = answered + i

(***************************************************************************)
(* A user that is logged in, or in a room, is so by a packet that the      *)
(* connection of now has sent, or by bytes left over in its buffer that    *)
(* this connection has had handled, from the moment that its               *)
(* kSYS_USER_CONNECT has been handled (the Clear of ConnectHandler): no    *)
(* login survives its connection.  The packet is a login request that      *)
(* Redis has accepted, or one with the id of Redis's answer.  With Settles *)
(* only: a late answer of Redis would log the next client in.              *)
(***************************************************************************)
LoggedInByOwnRequest ==
    \A u \in Users :
        user[u].domain # "NONE" /\ [op |-> "connect", user |-> u] \notin ToSet(systemQ)
            => login[u].conn \in {conns[u], -conns[u]}

(***************************************************************************)
(* SendPacket is only called for slots from which a packet has come: what  *)
(* SessionPool takes for granted of the logic.  A room's list may hold     *)
(* users who left the server long ago, but no one who was never there.     *)
(***************************************************************************)
SendsOnlyWhereHeard == sent \subseteq heard

(***************************************************************************)
(* A user's packets are handled, or thrown away by a Clear, until none is  *)
(* left or one is at the front that is never removed or whose index has    *)
(* been spent: an id that nobody handles, a length of 0.                   *)
(***************************************************************************)
PacketsAreTaken ==
    \A u \in Users :
        inbox[u] # <<>> ~> (inbox[u] # <<>> => Blocker(Head(inbox[u])))

(* Every login task pushed to Redis is answered (LoginDBResHandler). *)
LoginsAreAnswered ==
    \A n \in 1..MaxPackets : pushed >= n ~> answered >= n

-----------------------------------------------------------------------------
(***************************************************************************)
(* "Check by the user id whether it is connected ... if it is connected    *)
(* already" (LoginHandler): no two connections are logged in with one id,  *)
(* by a password that Redis has found right.                               *)
(***************************************************************************)
LoggedIn(u) == /\ net[u] = "open" /\ user[u].domain # "NONE"
               /\ login[u].conn = conns[u] /\ login[u].id \in Accounts

NoDoubleLogin ==
    \A u, v \in Users :
        LoggedIn(u) /\ LoggedIn(v) /\ login[u].id = login[v].id => u = v

=============================================================================
