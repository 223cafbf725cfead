--------------------------- MODULE ChatLogicProofs --------------------------
(***************************************************************************)
(* Theorems about ChatLogic: for any number of users, rooms, accounts and  *)
(* places in a room, and for queues of any length.                         *)
(***************************************************************************)
EXTENDS ChatLogic, Induction, FiniteSetTheorems, SequenceTheorems

-----------------------------------------------------------------------------
(* LeaveUser *)

(* One round of its loop: what is kept of the first i users of the list.   *)
Kept(g, list, u, i) ==
    IF i = 0 THEN <<>>
    ELSE IF user[list[i]].id = user[u].id THEN g[i - 1]
    ELSE Append(g[i - 1], list[i])

KeptUpTo(n, g, list, u) == g = [i \in 0..n |-> Kept(g, list, u, i)]

LEMMA KeptExists ==
    ASSUME NEW S, NEW list \in Seq(S), NEW u
    PROVE  \A n \in Nat : \E g : KeptUpTo(n, g, list, u)
<1> DEFINE T == {n \in Nat : \E g : KeptUpTo(n, g, list, u)}
<1>1. 0 \in T
  <2> DEFINE g == [i \in 0..0 |-> <<>>]
  <2>1. KeptUpTo(0, g, list, u)
    BY DEF KeptUpTo, Kept
  <2>2. QED
    BY <2>1
<1>2. ASSUME NEW n \in Nat, n \in T PROVE n + 1 \in T
  <2>1. PICK h : KeptUpTo(n, h, list, u)
    BY <1>2
  <2> DEFINE g == [i \in 0..(n + 1) |-> IF i = n + 1 THEN Kept(h, list, u, i) ELSE h[i]]
  <2>2. /\ \A i \in 0..n : h[i] = Kept(h, list, u, i)
        /\ \A i \in 0..n : g[i] = h[i]
    <3>1. \A i \in 0..n : h[i] = Kept(h, list, u, i)
      <4> HIDE DEF g
      <4>1. QED
        BY <2>1 DEF KeptUpTo
    <3>2. QED
      BY <3>1
  <2>3. ASSUME NEW i \in 0..(n + 1) PROVE g[i] = Kept(g, list, u, i)
    <3>1. i = 0 \/ g[i - 1] = h[i - 1]
      BY <2>2
    <3>2. Kept(g, list, u, i) = Kept(h, list, u, i)
      BY <3>1 DEF Kept
    <3>3. QED
      BY <3>2, <2>2
  <2> HIDE DEF g
  <2>4. g = [i \in 0..(n + 1) |-> g[i]]
    BY DEF g
  <2>5. KeptUpTo(n + 1, g, list, u)
    BY <2>3, <2>4 DEF KeptUpTo
  <2>6. QED
    BY <2>5
<1> HIDE DEF T
<1>3. \A n \in Nat : n \in T
  BY <1>1, <1>2, SetInduction
<1>4. QED
  BY <1>3 DEF T

LEMMA LeaveUserKept ==
    ASSUME NEW S, NEW list \in Seq(S), NEW u
    PROVE  \E g : /\ LeaveUser(list, u) = g[Len(list)]
                  /\ \A i \in 0..Len(list) : g[i] = Kept(g, list, u, i)
<1> DEFINE g == CHOOSE f : f = [i \in 0..Len(list) |->
                  IF i = 0 THEN <<>>
                  ELSE IF user[list[i]].id = user[u].id THEN f[i - 1]
                  ELSE Append(f[i - 1], list[i])]
<1>1. \E f : KeptUpTo(Len(list), f, list, u)
  BY KeptExists, LenProperties
<1>2. KeptUpTo(Len(list), g, list, u)
  BY <1>1, Zenon DEF KeptUpTo, Kept
<1>3. LeaveUser(list, u) = g[Len(list)]
  BY Zenon DEF LeaveUser
<1> HIDE DEF g
<1>4. QED
  BY <1>2, <1>3 DEF KeptUpTo

LEMMA AppendMembers ==
    ASSUME NEW S, NEW s \in Seq(S), NEW e \in S
    PROVE  ToSet(Append(s, e)) = ToSet(s) \cup {e}
<1>1. /\ DOMAIN s = 1..Len(s)
      /\ DOMAIN Append(s, e) = 1..(Len(s) + 1)
      /\ Len(s) \in Nat
  OBVIOUS
<1>2. /\ \A i \in 1..Len(s) : Append(s, e)[i] = s[i]
      /\ Append(s, e)[Len(s) + 1] = e
  OBVIOUS
<1> DEFINE t == Append(s, e)
           n == Len(s)
<1> HIDE DEF t, n
<1>3. {t[i] : i \in 1..(n + 1)} = {s[i] : i \in 1..n} \cup {e}
  BY <1>1, <1>2 DEF t, n
<1>4. QED
  BY <1>1, <1>3 DEF ToSet, t, n

(***************************************************************************)
(* Who leaves a room: the list keeps its order of magnitude and its        *)
(* members, except everyone who has the leaving user's id.                 *)
(***************************************************************************)
LEMMA LeaveUserRemoves ==
    ASSUME NEW S, NEW list \in Seq(S), NEW u
    PROVE  /\ LeaveUser(list, u) \in Seq(S)
           /\ Len(LeaveUser(list, u)) <= Len(list)
           /\ ToSet(LeaveUser(list, u)) = {v \in ToSet(list) : user[v].id # user[u].id}
<1>1. PICK g : /\ LeaveUser(list, u) = g[Len(list)]
               /\ \A i \in 0..Len(list) : g[i] = Kept(g, list, u, i)
  BY LeaveUserKept
<1>2. Len(list) \in Nat /\ DOMAIN list = 1..Len(list)
  OBVIOUS
<1> DEFINE first(i) == {list[j] : j \in 1..i}
           Good(i) == /\ g[i] \in Seq(S)
                      /\ Len(g[i]) <= i
                      /\ ToSet(g[i]) = {v \in first(i) : user[v].id # user[u].id}
           T == {i \in Nat : i <= Len(list) => Good(i)}
<1>3. 0 \in T
  <2>1. g[0] = <<>>
    BY <1>1, <1>2 DEF Kept
  <2>2. first(0) = {} /\ ToSet(<<>>) = {}
    BY DEF ToSet
  <2>3. Good(0)
    BY <2>1, <2>2
  <2>4. QED
    BY <2>3
<1>4. ASSUME NEW i \in Nat, i \in T PROVE i + 1 \in T
  <2>1. SUFFICES ASSUME i + 1 <= Len(list) PROVE Good(i + 1)
    BY <1>4, SMTT(30)
  <2>2. Good(i)
    BY <1>4, <2>1, <1>2
  <2>3. i + 1 \in 1..Len(list) /\ list[i + 1] \in S
    BY <1>4, <2>1, <1>2
  <2>4. first(i + 1) = first(i) \cup {list[i + 1]}
    BY <1>4
  <2>5. g[i + 1] = Kept(g, list, u, i + 1) /\ (i + 1) - 1 = i /\ i + 1 # 0
    BY <1>1, <2>3
  <2> HIDE DEF first
  <2>6. CASE user[list[i + 1]].id = user[u].id
    <3>1. g[i + 1] = g[i]
      BY <2>5, <2>6 DEF Kept
    <3>2. QED
      BY <2>2, <2>4, <2>6, <3>1
  <2>7. CASE user[list[i + 1]].id # user[u].id
    <3>1. g[i + 1] = Append(g[i], list[i + 1])
      BY <2>5, <2>7 DEF Kept
    <3>2. /\ g[i + 1] \in Seq(S)
          /\ Len(g[i + 1]) = Len(g[i]) + 1
          /\ ToSet(g[i + 1]) = ToSet(g[i]) \cup {list[i + 1]}
      BY <2>2, <2>3, <3>1, AppendProperties, AppendMembers
    <3>3. ToSet(g[i + 1]) = {v \in first(i + 1) : user[v].id # user[u].id}
      BY <2>2, <2>4, <2>7, <3>2
    <3>4. Len(g[i]) \in Nat
      BY <2>2
    <3>5. QED
      BY <2>2, <3>2, <3>3, <3>4
  <2>8. QED
    BY <2>6, <2>7
<1> HIDE DEF T
<1>5. \A i \in Nat : i \in T
  BY <1>3, <1>4, SetInduction
<1>6. Len(list) \in T
  BY <1>2, <1>5
<1>7. Good(Len(list))
  BY <1>2, <1>6 DEF T
<1>8. first(Len(list)) = ToSet(list)
  BY <1>2 DEF ToSet
<1>9. QED
  BY <1>1, <1>7, <1>8

-----------------------------------------------------------------------------
(* Type correctness *)

(* A packet is of a connection, so its number is not the initial 0. *)
Opened == \A u \in Users : net[u] # "closed" => conns[u] > 0

LEMMA QueueTypes ==
    ASSUME NEW S, NEW q \in Seq(S)
    PROVE  /\ \A e \in S : Append(q, e) \in Seq(S)
           /\ q # <<>> => Head(q) \in S /\ Tail(q) \in Seq(S)
           /\ <<>> \in Seq(S)
           /\ \A e \in S : <<e>> \in Seq(S)
OBVIOUS

LEMMA RequestTypes ==
    /\ \A p \in Requests : p.op = "login" => p.id \in UserIds
    /\ \A p \in Requests : p.op = "enter" => p.room \in Rooms \cup {NoRoom}
BY DEF Requests

(***************************************************************************)
(* What a packet in packet_buf_ is: one that a client has sent, or the     *)
(* stray bytes, which block it.                                            *)
(***************************************************************************)
Sendable == [req : Requests, conn : Nat]

LEMMA PacketKinds ==
    /\ Packets = Sendable \cup {Stray}
    /\ Stray \in Packets /\ Stray.conn = 0 /\ Stray.req.op = "stray"
    /\ \A p \in Requests : p.op # "stray"
    /\ \A p \in Sendable : p.req \in Requests /\ p.conn \in Nat /\ p.req.op # "stray"
    /\ \A p \in Packets : p.req.op = "stray" => p.conn = 0
BY DEF Packets, Sendable, Stray, Requests

LEMMA SpentTypes == ASSUME NEW p \in Packets
                    PROVE  /\ [p EXCEPT !.conn = 0] \in Packets
                           /\ [p EXCEPT !.conn = 0].conn = 0
<1>1. CASE p \in Sendable
  BY <1>1, PacketKinds DEF Sendable
<1>2. CASE p = Stray
  BY <1>2, PacketKinds DEF Stray
<1>3. QED
  BY <1>1, <1>2, PacketKinds

(* What a handler of a user's packet finds at the front of packet_buf_. *)
LEMMA FrontTypes ==
    ASSUME TypeOK, NEW u \in Users, NEW p \in AtFront(u)
    PROVE  /\ indexQ # <<>> /\ Head(indexQ) = u /\ indexQ \in Seq(Users)
           /\ inbox[u] # <<>> /\ inbox[u] \in Seq(Packets)
           /\ Head(inbox[u]) \in Packets /\ Tail(inbox[u]) \in Seq(Packets)
           /\ Head(inbox[u]) = inbox[u][1]
           /\ p.req \in Requests /\ p.conn \in Int
           /\ \/ p.conn = -conns[u] /\ inbox[u][1].conn = 0
              \/ p = inbox[u][1] /\ p.conn # 0
<1>1. /\ inbox[u] \in Seq(Packets) /\ inbox[u] # <<>> /\ indexQ \in Seq(Users)
      /\ indexQ # <<>> /\ Head(indexQ) = u /\ conns[u] \in Nat
  BY DEF AtFront, TypeOK, QueuesOK, NetworkOK
<1> DEFINE h == Head(inbox[u])
<1>2. h \in Packets /\ Tail(inbox[u]) \in Seq(Packets) /\ h = inbox[u][1]
  BY <1>1, QueueTypes, HeadTailProperties
<1>3. \/ h = Stray /\ p \in [req : ClientPackets, conn : {-conns[u]}]
      \/ h # Stray /\ h.conn = 0 /\ p = [h EXCEPT !.conn = -conns[u]]
      \/ h.conn # 0 /\ p = h
  BY <1>1, PacketKinds DEF AtFront
<1> HIDE DEF h
<1>4. CASE h = Stray /\ p \in [req : ClientPackets, conn : {-conns[u]}]
  BY <1>1, <1>2, <1>4, PacketKinds, ClientsAssumption DEF h
<1>5. CASE h # Stray /\ h.conn = 0 /\ p = [h EXCEPT !.conn = -conns[u]]
  <2>1. h \in Sendable
    BY <1>2, <1>5, PacketKinds
  <2>2. p.req = h.req /\ p.conn = -conns[u]
    BY <2>1, <1>5 DEF Sendable
  <2>3. QED
    BY <1>1, <1>2, <1>5, <2>1, <2>2, PacketKinds DEF h
<1>6. CASE h.conn # 0 /\ p = h
  BY <1>1, <1>2, <1>6, PacketKinds DEF h
<1>7. QED
  BY <1>3, <1>4, <1>5, <1>6

(* The packets that can be reached, and what each step leaves of them *)
Open(list) == {i \in DOMAIN list : \A j \in 1..i : ~Blocker(list[j])}

LEMMA OpenOne ==
    ASSUME NEW S, NEW s \in Seq(S)
    PROVE  /\ s = <<>> => Open(s) = {}
           /\ s # <<>> /\ Blocker(s[1]) => Open(s) = {}
<1>1. Len(s) \in Nat /\ DOMAIN s = 1..Len(s)
  BY LenProperties
<1>2. s = <<>> => Open(s) = {}
  BY DEF Open
<1>3. \A i \in DOMAIN s : 1 \in 1..i
  BY <1>1
<1>4. QED
  BY <1>2, <1>3 DEF Open

LEMMA SpentHead ==
    ASSUME NEW list \in Seq(Packets), NEW p \in Packets
    PROVE  LET s == <<[p EXCEPT !.conn = 0]>> \o list IN
           s \in Seq(Packets) /\ Open(s) = {}
<1> DEFINE x == [p EXCEPT !.conn = 0]
           s == <<x>> \o list
<1>1. x \in Packets /\ x.conn = 0
  BY SpentTypes
<1> HIDE DEF x
<1>2. s \in Seq(Packets) /\ s # <<>> /\ s[1] = x
  BY <1>1
<1>3. Open(s) = {}
  <2> HIDE DEF s
  <2>1. QED
    BY <1>1, <1>2, OpenOne DEF Blocker
<1>4. QED
  BY <1>2, <1>3 DEF x

LEMMA SpentAll ==
    ASSUME NEW list \in Seq(Packets)
    PROVE  LeftOver(list) \in Seq(Packets) /\ Open(LeftOver(list)) = {}
<1> DEFINE s == LeftOver(list)
<1>1. Len(list) \in Nat /\ DOMAIN list = 1..Len(list) /\ \A i \in 1..Len(list) : list[i] \in Packets
  BY LenProperties, ElementOfSeq
<1>2. /\ s = [i \in 1..Len(list) |-> s[i]]
      /\ \A i \in 1..Len(list) : s[i] = [list[i] EXCEPT !.conn = 0]
  <2>1. s = [i \in 1..Len(list) |-> [list[i] EXCEPT !.conn = 0]]
    BY <1>1, Zenon DEF LeftOver
  <2> HIDE DEF s
  <2>2. QED
    BY <2>1
<1> HIDE DEF s
<1>3. ASSUME NEW i \in 1..Len(list) PROVE s[i] \in Packets /\ s[i].conn = 0
  <2>1. list[i] \in Packets /\ s[i] = [list[i] EXCEPT !.conn = 0]
    BY <1>1, <1>2
  <2>2. QED
    BY <2>1, SpentTypes
<1>4. s \in Seq(Packets) /\ DOMAIN s = 1..Len(list)
  <2>1. s \in [1..Len(list) -> Packets]
    BY <1>2, <1>3
  <2>2. QED
    BY <1>1, <2>1
<1>5. Open(s) = {}
  <2>1. \A i \in DOMAIN s : i \in 1..i
    BY <1>4
  <2>2. QED
    BY <1>3, <1>4, <2>1 DEF Open, Blocker
<1>6. QED
  BY <1>4, <1>5 DEF s

(***************************************************************************)
(* What CompleteProcess leaves: the packets behind the one that was        *)
(* handled, or, if that one was left over or declared no length, a buffer  *)
(* in which no packet can be reached.                                      *)
(***************************************************************************)
LEMMA TakenTypes ==
    ASSUME TypeOK, NEW u \in Users, NEW op, NEW p, TakePacket(u, p, op), op # "unknown"
    PROVE  /\ inbox' \in [Users -> Seq(Packets)]
           /\ \A v \in Users : v # u => inbox'[v] = inbox[v]
           /\ \/ ~Blocker(inbox[u][1]) /\ inbox'[u] = Tail(inbox[u])
              \/ Open(inbox'[u]) = {}
<1>1. p \in AtFront(u) /\ p.req.op = op /\ CompleteProcess(u, p)
  BY DEF TakePacket, TakeFront
<1> DEFINE list == inbox[u]
<1>2. /\ list # <<>> /\ list \in Seq(Packets) /\ list[1] \in Packets
      /\ Tail(list) \in Seq(Packets) /\ p.req \in Requests
      /\ \/ list[1].conn = 0
         \/ p = list[1] /\ p.conn # 0
  BY <1>1, FrontTypes
<1>3. inbox \in [Users -> Seq(Packets)]
  BY DEF TypeOK, QueuesOK
<1>4. \E new \in Seq(Packets) :
         /\ inbox' = [inbox EXCEPT ![u] = new]
         /\ (~Blocker(list[1]) /\ new = Tail(list)) \/ Open(new) = {}
  <2>1. CASE inbox' = [inbox EXCEPT ![u] = <<[list[1] EXCEPT !.conn = 0]>> \o Tail(list)]
    BY <1>2, <2>1, SpentHead, Zenon
  <2>2. CASE list[1].conn # 0 /\ inbox' = [inbox EXCEPT ![u] = Tail(list)]
    <3>1. ~Blocker(list[1])
      BY <1>1, <1>2, <2>2 DEF Blocker
    <3>2. QED
      BY <1>2, <2>2, <3>1
  <2>3. CASE list[1] = Stray /\ inbox' = inbox
    <3>1. Open(list) = {}
      BY <1>2, <2>3, OpenOne, PacketKinds DEF Blocker
    <3>2. inbox' = [inbox EXCEPT ![u] = list]
      BY <1>3, <2>3
    <3>3. QED
      BY <1>2, <3>1, <3>2
  <2>4. CASE inbox' = [inbox EXCEPT ![u] = LeftOver(Tail(list))]
    BY <1>2, <2>4, SpentAll, Zenon
  <2>5. QED
    BY <1>1, <2>1, <2>2, <2>3, <2>4, Zenon DEF CompleteProcess
<1> HIDE DEF list
<1>5. QED
  BY <1>3, <1>4, Zenon DEF list

LEMMA FrontTaken ==
    ASSUME TypeOK, NEW u \in Users, NEW p, NEW op, TakeFront(u, p, op)
    PROVE  /\ p \in AtFront(u) /\ p.req \in Requests /\ p.conn \in Int
           /\ p.req.op = op
           /\ pc' \in {"user", "system", "redis"}
           /\ indexQ' \in Seq(Users)
           /\ UNCHANGED <<network, systemQ>>
<1>1. p \in AtFront(u) /\ p.req.op = op /\ pc' = "system" /\ indexQ' = Tail(indexQ)
  BY DEF TakeFront
<1>2. indexQ' \in Seq(Users)
  BY <1>1, FrontTypes, QueueTypes
<1>3. UNCHANGED <<network, systemQ>>
  BY DEF TakeFront
<1>4. QED
  BY <1>1, <1>2, <1>3, FrontTypes

UserRecs == [id : UserIds, domain : Domains, room : Rooms \cup {NoRoom}]

(* The assignments of the handlers to a User object *)
LEMMA UserTypes ==
    ASSUME LogicOK, NEW u \in Users
    PROVE  /\ \A i \in UserIds : [user EXCEPT ![u].id = i] \in [Users -> UserRecs]
           /\ [user EXCEPT ![u].id = NoId, ![u].domain = "LOGIN"] \in [Users -> UserRecs]
           /\ [user EXCEPT ![u].domain = "LOGIN"] \in [Users -> UserRecs]
           /\ \A r \in Rooms :
                 [user EXCEPT ![u].room = r, ![u].domain = "ROOM"] \in [Users -> UserRecs]
<1> DEFINE x == user[u]
<1>1. user \in [Users -> UserRecs] /\ x \in UserRecs
  BY DEF LogicOK, UserRecs
<1> HIDE DEF x
<1>2. /\ \A i \in UserIds : [x EXCEPT !.id = i] \in UserRecs
      /\ [x EXCEPT !.id = NoId, !.domain = "LOGIN"] \in UserRecs
      /\ [x EXCEPT !.domain = "LOGIN"] \in UserRecs
      /\ \A r \in Rooms : [x EXCEPT !.room = r, !.domain = "ROOM"] \in UserRecs
  BY <1>1 DEF UserRecs, UserIds, Domains
<1> HIDE DEF UserRecs
<1>3. QED
  BY <1>1, <1>2 DEF x

LEMMA AcceptTypes ==
    ASSUME TypeOK, NEW u \in Users, NEW c \in Int, NEW i \in UserIds,
           Accept(u, c, i) \/ UNCHANGED <<user, idMap, login>>, rooms' = rooms
    PROVE  LogicOK' /\ login' \in [Users -> [conn : Int, id : UserIds]]
<1>1. /\ user \in [Users -> UserRecs] /\ idMap \subseteq UserIds
      /\ login \in [Users -> [conn : Int, id : UserIds]]
      /\ [conn |-> c, id |-> i] \in [conn : Int, id : UserIds]
      /\ LogicOK /\ NoId \in UserIds
  BY DEF TypeOK, LogicOK, GhostsOK, UserRecs, UserIds
<1>2. CASE Accept(u, c, i)
  <2>1. user' \in [Users -> UserRecs]
    <3>1. [user EXCEPT ![u].id = NoId, ![u].domain = "LOGIN"] \in [Users -> UserRecs]
      BY <1>1, UserTypes, Zenon
    <3>2. QED
      BY <1>2, <3>1, Zenon DEF Accept
  <2>2. idMap' \subseteq UserIds /\ login' \in [Users -> [conn : Int, id : UserIds]]
    BY <1>1, <1>2 DEF Accept
  <2>3. QED
    BY <2>1, <2>2 DEF TypeOK, LogicOK, UserRecs
<1>3. CASE UNCHANGED <<user, idMap, login>>
  BY <1>1, <1>3 DEF LogicOK
<1>4. QED
  BY <1>2, <1>3

LEMMA TypeInit == Init => TypeOK /\ Opened
BY ChatAssumption DEF Init, TypeOK, NetworkOK, LogicOK, QueuesOK, GhostsOK, Opened,
   Domains, UserIds

LEMMA TypeStep == TypeOK /\ Opened /\ [Next]_vars => TypeOK' /\ Opened'
<1> SUFFICES ASSUME TypeOK, Opened, [Next]_vars PROVE TypeOK' /\ Opened'
  OBVIOUS
<1> USE DEF TypeOK, NetworkOK, Opened, network, logic, redis, ghosts
<1>1. ASSUME NEW u \in Users, OnConnect(u) PROVE TypeOK' /\ Opened'
  <2>1. [op |-> "connect", user |-> u] \in Events
    BY DEF Events
  <2>2. systemQ' \in Seq(Events)
    BY <1>1, <2>1, QueueTypes DEF OnConnect, QueuesOK
  <2>3. QED
    BY <1>1, <2>2 DEF OnConnect, QueuesOK, LogicOK, GhostsOK
<1>2. ASSUME NEW u \in Users, NEW p \in ClientPackets, OnRecv(u, p) PROVE TypeOK' /\ Opened'
  <2>1. [req |-> p, conn |-> conns[u]] \in Packets
    BY ClientsAssumption DEF Packets
  <2>2. inbox' \in [Users -> Seq(Packets)]
    BY <1>2, <2>1, QueueTypes DEF OnRecv, QueuesOK
  <2>3. QED
    BY <1>2, <2>2, ChatAssumption DEF OnRecv, QueuesOK, LogicOK, GhostsOK
<1>3. ASSUME NEW u \in Users, OnDisconnect(u) PROVE TypeOK' /\ Opened'
  <2>1. [op |-> "disconnect", user |-> u] \in Events
    BY DEF Events
  <2>2. systemQ' \in Seq(Events)
    BY <1>3, <2>1, QueueTypes DEF OnDisconnect, QueuesOK
  <2>3. QED
    BY <1>3, <2>2 DEF OnDisconnect, QueuesOK, LogicOK, GhostsOK
<1>19. ASSUME NEW u \in Users, PushIndex(u) PROVE TypeOK' /\ Opened'
  <2>1. indexQ' \in Seq(Users) /\ pushing' \subseteq pushing
    BY <1>19, QueueTypes DEF PushIndex, QueuesOK
  <2>2. QED
    BY <1>19, <2>1 DEF PushIndex, QueuesOK, LogicOK, GhostsOK
<1>4. CASE NoUserPacket
  BY <1>4 DEF NoUserPacket, QueuesOK, LogicOK, GhostsOK
<1>5. CASE StrayIndex
  <2>1. indexQ' \in Seq(Users)
    BY <1>5, QueueTypes DEF StrayIndex, QueuesOK
  <2>2. QED
    BY <1>5, <2>1 DEF StrayIndex, QueuesOK, LogicOK, GhostsOK
<1>6. ASSUME NEW u \in Users, NEW p, LoginHandler(u, p) PROVE TypeOK' /\ Opened'
  <2>1. TakeFront(u, p, "login") /\ TakePacket(u, p, "login")
    BY <1>6 DEF LoginHandler, TakePacket
  <2>2. p.req.id \in UserIds
    BY <2>1, FrontTaken, RequestTypes
  <2>3. Task(u, p) \in Tasks
    BY <2>1, <2>2, FrontTaken DEF Task, Tasks, GhostsOK
  <2>4. \/ /\ user' = [user EXCEPT ![u].id = p.req.id]
           /\ reqQ' = Append(reqQ, Task(u, p))
        \/ user' = user /\ reqQ' = reqQ
    BY <1>6, Zenon DEF LoginHandler
  <2>5. reqQ' \in Seq(Tasks)
    <3>1. reqQ \in Seq(Tasks)
      BY DEF QueuesOK
    <3>2. Append(reqQ, Task(u, p)) \in Seq(Tasks)
      BY <2>3, <3>1, QueueTypes
    <3>3. QED
      BY <2>4, <3>1, <3>2, Zenon
  <2>6. user' \in [Users -> UserRecs]
    <3>1. user \in [Users -> UserRecs]
      BY DEF LogicOK, UserRecs
    <3>2. [user EXCEPT ![u].id = p.req.id] \in [Users -> UserRecs]
      BY <2>2, UserTypes, Zenon
    <3>3. QED
      BY <2>4, <3>1, <3>2, Zenon
  <2>7. pushed' \in Nat /\ sent' \subseteq Users
    BY <1>6 DEF LoginHandler, GhostsOK
  <2>8. UNCHANGED <<network, systemQ, idMap, rooms, busy, resQ, answered, login>>
    BY <1>6, <2>1, FrontTaken DEF LoginHandler
  <2>9. QED
    BY <2>1, <2>5, <2>6, <2>7, <2>8, FrontTaken, TakenTypes DEF QueuesOK, LogicOK, GhostsOK, UserRecs
<1>7. ASSUME NEW u \in Users, NEW p, EnterRoomHandler(u, p) PROVE TypeOK' /\ Opened'
  <2>1. TakeFront(u, p, "enter") /\ TakePacket(u, p, "enter")
    BY <1>7 DEF EnterRoomHandler, TakePacket
  <2>2. \A r \in Rooms : Append(rooms[r], u) \in Seq(Users)
    BY QueueTypes DEF LogicOK
  <2>3. LogicOK'
    <3>1. \/ \E r \in Rooms :
                /\ rooms' = [rooms EXCEPT ![r] = Append(@, u)]
                /\ user' = [user EXCEPT ![u].room = r, ![u].domain = "ROOM"]
          \/ user' = user /\ rooms' = rooms
      BY <1>7, Zenon DEF EnterRoomHandler, EnterRoom
    <3>2. user' \in [Users -> UserRecs]
      <4>1. user \in [Users -> UserRecs]
        BY DEF LogicOK, UserRecs
      <4>2. \A r \in Rooms :
               [user EXCEPT ![u].room = r, ![u].domain = "ROOM"] \in [Users -> UserRecs]
        BY UserTypes, ZenonT(30)
      <4>3. CASE user' = user
        BY <4>1, <4>3
      <4>4. CASE \E r \in Rooms :
                    user' = [user EXCEPT ![u].room = r, ![u].domain = "ROOM"]
        BY <4>2, <4>4
      <4>5. QED
        BY <3>1, <4>3, <4>4, Zenon
    <3>3. rooms' \in [Rooms -> Seq(Users)] /\ idMap' = idMap
      <4>1. rooms \in [Rooms -> Seq(Users)]
        BY DEF LogicOK
      <4>2. rooms' \in [Rooms -> Seq(Users)]
        BY <2>2, <3>1, <4>1, Zenon
      <4>3. QED
        BY <1>7, <4>2, Zenon DEF EnterRoomHandler
    <3>4. QED
      BY <3>2, <3>3 DEF LogicOK, UserRecs
  <2>4. UNCHANGED <<network, systemQ, redis, ghosts>> /\ sent' \subseteq Users
    BY <1>7, <2>1, FrontTaken DEF EnterRoomHandler
  <2>5. QED
    BY <2>1, <2>3, <2>4, FrontTaken, TakenTypes DEF QueuesOK, GhostsOK
<1>8. ASSUME NEW u \in Users, NEW p, LeaveRoomHandler(u, p) PROVE TypeOK' /\ Opened'
  <2>1. TakeFront(u, p, "leave") /\ TakePacket(u, p, "leave")
    BY <1>8 DEF LeaveRoomHandler, TakePacket
  <2>2. \A r \in Rooms : LeaveUser(rooms[r], u) \in Seq(Users)
    BY LeaveUserRemoves DEF LogicOK
  <2>3. LogicOK'
    <3>1. \/ \E r \in Rooms :
                /\ rooms' = [rooms EXCEPT ![r] = LeaveUser(@, u)]
                /\ user' = [user EXCEPT ![u].domain = "LOGIN"]
          \/ user' = user /\ rooms' = rooms
      BY <1>8, Zenon DEF LeaveRoomHandler
    <3>2. user' \in [Users -> UserRecs]
      <4>1. user \in [Users -> UserRecs]
        BY DEF LogicOK, UserRecs
      <4>2. [user EXCEPT ![u].domain = "LOGIN"] \in [Users -> UserRecs]
        BY UserTypes, Zenon
      <4>3. QED
        BY <3>1, <4>1, <4>2, ZenonT(30)
    <3>3. rooms' \in [Rooms -> Seq(Users)] /\ idMap' = idMap
      <4>1. rooms \in [Rooms -> Seq(Users)]
        BY DEF LogicOK
      <4>2. rooms' \in [Rooms -> Seq(Users)]
        BY <2>2, <3>1, <4>1, Zenon
      <4>3. QED
        BY <1>8, <4>2, Zenon DEF LeaveRoomHandler
    <3>4. QED
      BY <3>2, <3>3 DEF LogicOK, UserRecs
  <2>4. UNCHANGED <<network, systemQ, redis, ghosts>> /\ sent' \subseteq Users
    BY <1>8, <2>1, FrontTaken DEF LeaveRoomHandler
  <2>5. QED
    BY <2>1, <2>3, <2>4, FrontTaken, TakenTypes DEF QueuesOK, GhostsOK
<1>9. ASSUME NEW u \in Users, NEW p, RoomChatHandler(u, p) PROVE TypeOK' /\ Opened'
  <2>1. TakeFront(u, p, "chat") /\ TakePacket(u, p, "chat")
    BY <1>9 DEF RoomChatHandler, TakePacket
  <2>2. \A r \in Rooms : ToSet(rooms[r]) \subseteq Users
    BY DEF LogicOK, ToSet
  <2>3. sent' \subseteq Users
    BY <1>9, <2>2 DEF RoomChatHandler
  <2>4. UNCHANGED <<network, systemQ, logic, redis, ghosts>>
    BY <1>9, <2>1, FrontTaken DEF RoomChatHandler
  <2>5. QED
    BY <2>1, <2>3, <2>4, FrontTaken, TakenTypes DEF QueuesOK, LogicOK, GhostsOK
<1>20. ASSUME NEW u \in Users, NEW p, ConnectByPacket(u, p) PROVE TypeOK' /\ Opened'
  <2>1. TakeFront(u, p, "connect")
    BY <1>20 DEF ConnectByPacket
  <2>2. inbox' \in [Users -> Seq(Packets)]
    <3>1. <<>> \in Seq(Packets) /\ <<Stray>> \in Seq(Packets)
      BY PacketKinds
    <3>2. \E new \in {<<>>, <<Stray>>} : inbox' = [inbox EXCEPT ![u] = new]
      BY <1>20, Zenon DEF ConnectByPacket
    <3>3. QED
      BY <3>1, <3>2 DEF QueuesOK
  <2>3. LogicOK'
    BY <1>20 DEF ConnectByPacket, Blank, LogicOK, Domains, UserIds
  <2>4. UNCHANGED <<redis, ghosts>> /\ sent' = {}
    BY <1>20 DEF ConnectByPacket
  <2>5. QED
    BY <2>1, <2>2, <2>3, <2>4, FrontTaken DEF QueuesOK, GhostsOK
<1>21. ASSUME NEW u \in Users, NEW p, DisconnectByPacket(u, p) PROVE TypeOK' /\ Opened'
  <2>1. TakeFront(u, p, "disconnect") /\ TakePacket(u, p, "disconnect")
    BY <1>21 DEF DisconnectByPacket, TakePacket
  <2>2. LogicOK'
    BY <1>21 DEF DisconnectByPacket, Forget, LogicOK
  <2>3. UNCHANGED <<redis, ghosts>> /\ sent' = {}
    BY <1>21 DEF DisconnectByPacket
  <2>4. QED
    BY <2>1, <2>2, <2>3, FrontTaken, TakenTypes DEF QueuesOK, GhostsOK
<1>22. ASSUME NEW u \in Users, NEW p, ResultByPacket(u, p) PROVE TypeOK' /\ Opened'
  <2>1. TakeFront(u, p, "result") /\ TakePacket(u, p, "result")
    BY <1>22 DEF ResultByPacket, TakePacket
  <2>2. /\ Accept(u, p.conn, NoId) \/ UNCHANGED <<user, idMap, login>>
        /\ UNCHANGED <<rooms, redis, pushed, answered>> /\ sent' = {u}
    BY <1>22, Zenon DEF ResultByPacket
  <2>3. LogicOK' /\ login' \in [Users -> [conn : Int, id : UserIds]]
    <3>1. p.conn \in Int /\ NoId \in UserIds
      BY <2>1, FrontTaken DEF UserIds
    <3>2. QED
      BY <2>2, <3>1, AcceptTypes
  <2>4. QED
    BY <2>1, <2>2, <2>3, FrontTaken, TakenTypes DEF QueuesOK, GhostsOK
<1>10. ASSUME NEW u \in Users, ConnectHandler(u) PROVE TypeOK' /\ Opened'
  <2>1. systemQ' \in Seq(Events) /\ inbox' \in [Users -> Seq(Packets)]
    BY <1>10, QueueTypes DEF ConnectHandler, TakeSystemPacket, QueuesOK
  <2>2. LogicOK'
    BY <1>10 DEF ConnectHandler, Blank, LogicOK, Domains, UserIds
  <2>3. QED
    BY <1>10, <2>1, <2>2 DEF ConnectHandler, TakeSystemPacket, QueuesOK, GhostsOK
<1>11. ASSUME NEW u \in Users, DisconnectHandler(u) PROVE TypeOK' /\ Opened'
  <2>1. systemQ' \in Seq(Events)
    BY <1>11, QueueTypes DEF DisconnectHandler, TakeSystemPacket, QueuesOK
  <2>2. QED
    BY <1>11, <2>1 DEF DisconnectHandler, Forget, TakeSystemPacket, QueuesOK, LogicOK, GhostsOK
<1>12. CASE NoSystemPacket
  BY <1>12 DEF NoSystemPacket, QueuesOK, LogicOK, GhostsOK
<1>13. CASE NoTaskRes
  BY <1>13 DEF NoTaskRes, QueuesOK, LogicOK, GhostsOK
<1>14. CASE LoginDBResHandler
  <2>1. Head(resQ) \in Results /\ resQ' \in Seq(Results)
    BY <1>14, QueueTypes DEF LoginDBResHandler, QueuesOK
  <2>2. /\ Head(resQ).user \in Users /\ Head(resQ).id \in UserIds
        /\ Head(resQ).conn \in Int
    BY <2>1 DEF Results
  <2>3. /\ \/ Accept(Head(resQ).user, Head(resQ).conn, Head(resQ).id)
           \/ UNCHANGED <<user, idMap, login>>
        /\ rooms' = rooms
    BY <1>14, Zenon DEF LoginDBResHandler
  <2>4. LogicOK' /\ login' \in [Users -> [conn : Int, id : UserIds]]
    BY <2>2, <2>3, AcceptTypes
  <2>5. sent' = {Head(resQ).user} /\ answered' = answered + 1 /\ pushed' = pushed
    BY <1>14, Zenon DEF LoginDBResHandler
  <2>6. GhostsOK' /\ sent' \subseteq Users
    BY <2>2, <2>4, <2>5 DEF GhostsOK
  <2>7. QED
    BY <1>14, <2>1, <2>6, <2>4 DEF LoginDBResHandler, QueuesOK
<1>15. ASSUME NEW t \in RedisThreads, GetTaskReq(t) PROVE TypeOK' /\ Opened'
  <2>1. <<Head(reqQ)>> \in Seq(Tasks) /\ reqQ' \in Seq(Tasks)
    BY <1>15, QueueTypes DEF GetTaskReq, QueuesOK
  <2>2. QED
    BY <1>15, <2>1 DEF GetTaskReq, QueuesOK, LogicOK, GhostsOK
<1>16. ASSUME NEW t \in RedisThreads, PushTaskRes(t) PROVE TypeOK' /\ Opened'
  <2>1. Head(busy[t]) \in Tasks
    BY <1>16, QueueTypes DEF PushTaskRes, QueuesOK
  <2>2. PICK ok \in BOOLEAN :
           resQ' = Append(resQ, [user |-> Head(busy[t]).user, id |-> Head(busy[t]).id,
                                 ok |-> ok, conn |-> Head(busy[t]).conn,
                                 no |-> Head(busy[t]).no])
    BY <1>16 DEF PushTaskRes
  <2>3. resQ' \in Seq(Results)
    BY <2>1, <2>2, QueueTypes DEF QueuesOK, Tasks, Results
  <2>4. busy' \in [RedisThreads -> Seq(Tasks)]
    BY <1>16, QueueTypes DEF PushTaskRes, QueuesOK
  <2>5. QED
    BY <1>16, <2>3, <2>4 DEF PushTaskRes, QueuesOK, LogicOK, GhostsOK
<1>17. CASE UNCHANGED vars
  BY <1>17 DEF vars, QueuesOK, LogicOK, GhostsOK
<1>18. QED
  BY <1>1, <1>2, <1>3, <1>4, <1>5, <1>6, <1>7, <1>8, <1>9, <1>10, <1>11, <1>12, <1>13,
     <1>14, <1>15, <1>16, <1>17, <1>19, <1>20, <1>21, <1>22
  DEF Next, PacketThread, RedisThread, Callbacks

(***************************************************************************)
(* Every queue holds what its producers put there, each user's domain and  *)
(* room are among the values the code knows, and the rooms' lists hold     *)
(* users (packet_manager.cpp).                                             *)
(***************************************************************************)
THEOREM ChatTypeCorrect == Spec => [](TypeOK /\ Opened)
<1>1. Init => TypeOK /\ Opened
  BY TypeInit
<1>2. TypeOK /\ Opened /\ [Next]_vars => (TypeOK /\ Opened)'
  BY TypeStep
<1>3. QED
  BY <1>1, <1>2, PTL DEF Spec

-----------------------------------------------------------------------------
(* Users and rooms *)

(* What a step may do to the users and to the rooms' lists. *)
Entered(u, r) ==
    /\ AtFront(u) # {} /\ user[u].domain = "LOGIN" /\ Len(rooms[r]) < MaxRoomUsers
    /\ rooms' = [rooms EXCEPT ![r] = Append(@, u)]
    /\ user' = [user EXCEPT ![u].room = r, ![u].domain = "ROOM"]

Left(u, r) ==
    /\ user[u].domain = "ROOM"
    /\ rooms' = [rooms EXCEPT ![r] = LeaveUser(@, u)]
    /\ user' = [user EXCEPT ![u].domain = "LOGIN"]

Renamed(u) == \E i \in UserIds : user' = [user EXCEPT ![u].id = i]

Cleared(u) == user' = [user EXCEPT ![u] = Blank]

(* A login by Redis's answer, and one by a packet with the answer's id *)
Answered(u) == /\ resQ # <<>> /\ u = Head(resQ).user
               /\ Accept(u, Head(resQ).conn, Head(resQ).id)

Granted(u) == \E p \in AtFront(u) : p.req.op = "result" /\ Accept(u, p.conn, NoId)

Accepted(u) == Answered(u) \/ Granted(u)

LEMMA LogicSteps ==
    ASSUME TypeOK, [Next]_vars
    PROVE  \/ user' = user /\ rooms' = rooms /\ login' = login
           \/ /\ \E u \in Users : \E r \in Rooms : Entered(u, r) \/ Left(u, r)
              /\ login' = login
           \/ /\ \E u \in Users : Renamed(u) \/ Cleared(u)
              /\ rooms' = rooms /\ login' = login
           \/ /\ \E u \in Users : Accepted(u)
              /\ rooms' = rooms
<1> DEFINE same == user' = user /\ rooms' = rooms /\ login' = login
           other == /\ \E u \in Users : Renamed(u) \/ Cleared(u)
                    /\ rooms' = rooms /\ login' = login
           accepted == (\E u \in Users : Accepted(u)) /\ rooms' = rooms
           moved == /\ \E u \in Users : \E r \in Rooms : Entered(u, r) \/ Left(u, r)
                    /\ login' = login
<1>1. ASSUME NEW u \in Users, NEW p, LoginHandler(u, p) PROVE same \/ other
  <2>1. p.req.id \in UserIds
    BY <1>1, FrontTaken, RequestTypes DEF LoginHandler, TakePacket
  <2>2. /\ \/ user' = [user EXCEPT ![u].id = p.req.id]
           \/ user' = user
        /\ rooms' = rooms /\ login' = login
    BY <1>1, Zenon DEF LoginHandler
  <2>3. QED
    BY <2>1, <2>2, Zenon DEF Renamed
<1>2. ASSUME NEW u \in Users, NEW p, EnterRoomHandler(u, p) PROVE same \/ moved
  <2>1. AtFront(u) # {} /\ login' = login
    BY <1>2 DEF EnterRoomHandler, TakePacket, TakeFront, ghosts
  <2>2. QED
    BY <1>2, <2>1, Zenon DEF EnterRoomHandler, EnterRoom, Entered
<1>3. ASSUME NEW u \in Users, NEW p, LeaveRoomHandler(u, p) PROVE same \/ moved
  <2>1. login' = login
    BY <1>3 DEF LeaveRoomHandler, ghosts
  <2>2. QED
    BY <1>3, <2>1, Zenon DEF LeaveRoomHandler, Left
<1>4. ASSUME NEW u \in Users, ConnectHandler(u) \/ \E p \in AtFront(u) : ConnectByPacket(u, p)
      PROVE  other
  BY <1>4 DEF ConnectHandler, ConnectByPacket, TakeSystemPacket, Cleared, ghosts
<1>5. CASE LoginDBResHandler
  <2>1. Head(resQ).user \in Users
    <3>1. Head(resQ) \in Results
      BY <1>5, QueueTypes DEF LoginDBResHandler, TypeOK, QueuesOK
    <3>2. QED
      BY <3>1 DEF Results
  <2>2. (Answered(Head(resQ).user) \/ (user' = user /\ login' = login)) /\ rooms' = rooms
    BY <1>5, Zenon DEF LoginDBResHandler, Answered
  <2>3. QED
    BY <2>1, <2>2, Zenon DEF Accepted
<1>12. ASSUME NEW u \in Users, NEW p \in AtFront(u), ResultByPacket(u, p)
       PROVE  same \/ accepted
  <2>1. /\ p.req.op = "result" /\ rooms' = rooms
        /\ Accept(u, p.conn, NoId) \/ (user' = user /\ login' = login)
    BY <1>12, Zenon DEF ResultByPacket, TakePacket, TakeFront
  <2>2. QED
    BY <2>1, Zenon DEF Accepted, Granted
<1>6. CASE UNCHANGED vars
  BY <1>6 DEF vars, logic, ghosts
<1>7. ASSUME Callbacks PROVE same
  BY <1>7 DEF Callbacks, OnConnect, OnDisconnect, OnRecv, PushIndex, logic, ghosts
<1>8. ASSUME NEW u \in Users, NEW p,
             RoomChatHandler(u, p) \/ DisconnectByPacket(u, p) \/ DisconnectHandler(u)
      PROVE  same
  BY <1>8 DEF RoomChatHandler, DisconnectByPacket, DisconnectHandler, TakeSystemPacket,
     logic, ghosts
<1>9. ASSUME NoUserPacket \/ StrayIndex \/ NoSystemPacket \/ NoTaskRes PROVE same
  BY <1>9 DEF NoUserPacket, StrayIndex, NoSystemPacket, NoTaskRes, logic, ghosts
<1>10. ASSUME NEW t \in RedisThreads, RedisThread(t) PROVE same
  BY <1>10 DEF RedisThread, GetTaskReq, PushTaskRes, logic, ghosts
<1>11. same \/ other \/ moved \/ accepted
  <2>1. CASE PacketThread
    BY <1>1, <1>2, <1>3, <1>4, <1>5, <1>8, <1>9, <1>12, <2>1 DEF PacketThread
  <2>2. QED
    BY <1>6, <1>7, <1>10, <2>1 DEF Next
<1>13. QED
  BY <1>11

LEMMA RoomInit == Init => InRoomHasRoom
BY ChatAssumption DEF Init, InRoomHasRoom

LEMMA RoomStep == TypeOK /\ InRoomHasRoom /\ [Next]_vars => InRoomHasRoom'
<1> SUFFICES ASSUME TypeOK, InRoomHasRoom, [Next]_vars PROVE InRoomHasRoom'
  OBVIOUS
<1>1. /\ user \in [Users -> UserRecs]
      /\ rooms \in [Rooms -> Seq(Users)]
      /\ \A r \in Rooms : Len(rooms[r]) \in Nat
  BY DEF TypeOK, LogicOK, UserRecs
<1>2. CASE user' = user /\ rooms' = rooms
  BY <1>2 DEF InRoomHasRoom
<1>3. ASSUME NEW u \in Users, NEW r \in Rooms, Entered(u, r) PROVE InRoomHasRoom'
  <2>1. Len(Append(rooms[r], u)) <= MaxRoomUsers
    BY <1>1, <1>3, ChatAssumption DEF Entered
  <2>2. QED
    BY <1>1, <1>3, <2>1 DEF Entered, InRoomHasRoom, UserRecs
<1>4. ASSUME NEW u \in Users, NEW r \in Rooms, Left(u, r) PROVE InRoomHasRoom'
  <2>1. Len(LeaveUser(rooms[r], u)) <= Len(rooms[r])
    BY <1>1, LeaveUserRemoves
  <2>2. Len(LeaveUser(rooms[r], u)) \in Nat
    BY <1>1, LeaveUserRemoves, LenProperties
  <2>3. QED
    BY <1>1, <1>4, <2>1, <2>2, ChatAssumption DEF Left, InRoomHasRoom, UserRecs
<1>5. ASSUME NEW u \in Users, Renamed(u) \/ Cleared(u) \/ Accepted(u), rooms' = rooms
      PROVE  InRoomHasRoom'
  <2>1. \A v \in Users : user'[v].domain = "ROOM" =>
           user'[v].room = user[v].room /\ user[v].domain = "ROOM"
    <3>1. CASE Renamed(u)
      BY <1>1, <3>1 DEF Renamed, UserRecs
    <3>2. CASE Cleared(u)
      BY <1>1, <3>2 DEF Cleared, Blank, UserRecs
    <3>3. CASE Accepted(u)
      BY <1>1, <3>3 DEF Accepted, Answered, Granted, Accept, UserRecs
    <3>4. QED
      BY <1>5, <3>1, <3>2, <3>3
  <2>2. QED
    BY <1>5, <2>1 DEF InRoomHasRoom
<1>6. QED
  BY <1>2, <1>3, <1>4, <1>5, LogicSteps

(***************************************************************************)
(* A user whose domain_state_ is kROOM has the index of a room, and no     *)
(* room holds more than MaxRoomUsers: the answers kROOM_INVALID_INDEX and  *)
(* kCHAT_ROOM_INVALID_ROOM_NUMBER are never sent (packet_manager.cpp).     *)
(***************************************************************************)
THEOREM RoomsAreReal == Spec => []InRoomHasRoom
<1>1. Init => InRoomHasRoom
  BY RoomInit
<1>2. TypeOK /\ InRoomHasRoom /\ [Next]_vars => InRoomHasRoom'
  BY RoomStep
<1>3. Spec => [](TypeOK /\ Opened)
  BY ChatTypeCorrect
<1>4. QED
  BY <1>1, <1>2, <1>3, PTL DEF Spec

-----------------------------------------------------------------------------
(* Packets and login tasks, as sets *)

LEMMA QueueMembers ==
    ASSUME NEW S, NEW q \in Seq(S)
    PROVE  /\ \A e \in S : ToSet(Append(q, e)) = ToSet(q) \cup {e}
           /\ q # <<>> => /\ Head(q) \in ToSet(q)
                          /\ ToSet(Tail(q)) \subseteq ToSet(q)
                          /\ ToSet(q) = {Head(q)} \cup ToSet(Tail(q))
           /\ q = <<>> => ToSet(q) = {}
           /\ \A e \in S : ToSet(<<e>>) = {e}
           /\ ToSet(q) \subseteq S
<1>1. \A e \in S : ToSet(Append(q, e)) = ToSet(q) \cup {e}
  BY AppendMembers
<1>2. ASSUME q # <<>>
      PROVE  /\ Head(q) \in ToSet(q)
             /\ ToSet(Tail(q)) \subseteq ToSet(q)
             /\ ToSet(q) = {Head(q)} \cup ToSet(Tail(q))
  <2>1. /\ Len(q) \in Nat \ {0} /\ DOMAIN q = 1..Len(q) /\ Head(q) = q[1]
        /\ DOMAIN Tail(q) = 1..(Len(q) - 1)
    BY <1>2, EmptySeq, HeadTailProperties
  <2>2. \A i \in 1..(Len(q) - 1) : Tail(q)[i] = q[i + 1] /\ i + 1 \in 1..Len(q)
    BY <1>2, <2>1, HeadTailProperties
  <2>3. \A i \in 1..Len(q) : i = 1 \/ (i - 1 \in 1..(Len(q) - 1) /\ q[i] = Tail(q)[i - 1])
    BY <2>1, <2>2
  <2>4. Head(q) \in ToSet(q) /\ ToSet(Tail(q)) \subseteq ToSet(q)
    BY <2>1, <2>2 DEF ToSet
  <2>5. ToSet(q) \subseteq {Head(q)} \cup ToSet(Tail(q))
    <3>1. SUFFICES ASSUME NEW i \in 1..Len(q)
                   PROVE  q[i] \in {Head(q)} \cup ToSet(Tail(q))
      BY <2>1 DEF ToSet
    <3>2. CASE i = 1
      BY <2>1, <3>2
    <3>3. CASE i - 1 \in DOMAIN Tail(q) /\ q[i] = Tail(q)[i - 1]
      BY <3>3 DEF ToSet
    <3>4. QED
      BY <2>1, <2>3, <3>2, <3>3
  <2>6. QED
    BY <2>4, <2>5
<1>3. q = <<>> => ToSet(q) = {}
  BY DEF ToSet
<1>4. \A e \in S : ToSet(<<e>>) = {e}
  BY DEF ToSet
<1>5. ToSet(q) \subseteq S
  BY DEF ToSet
<1>6. QED
  BY <1>1, <1>2, <1>3, <1>4, <1>5

(* The login tasks pushed and not yet answered, wherever they are. *)
Asked == ToSet(reqQ) \cup (UNION {ToSet(busy[t]) : t \in RedisThreads}) \cup ToSet(resQ)

SameRequest(d, e) == d.user = e.user /\ d.conn = e.conn

(* A task is pushed by LoginHandler; from then on it keeps its user.       *)
LEMMA AskedSteps ==
    ASSUME TypeOK, [Next]_vars, NEW e \in Asked'
    PROVE  \/ \E d \in Asked : SameRequest(d, e)
           \/ \E u \in Users : \E p \in AtFront(u) :
                 LoginHandler(u, p) /\ e.user = u /\ e.conn = p.conn
<1> DEFINE old == \E d \in Asked : SameRequest(d, e)
<1>1. /\ reqQ \in Seq(Tasks) /\ resQ \in Seq(Results)
      /\ busy \in [RedisThreads -> Seq(Tasks)]
  BY DEF TypeOK, QueuesOK
<1>2. UNCHANGED <<reqQ, busy, resQ>> => old
  BY DEF Asked, SameRequest
<1>3. ASSUME NEW u \in Users, NEW p, LoginHandler(u, p)
      PROVE  old \/ (e.user = u /\ e.conn = p.conn)
  <2>1. Task(u, p) \in Tasks
    <3>1. p.req.id \in UserIds
      BY <1>3, FrontTaken, RequestTypes DEF LoginHandler, TakePacket
    <3>2. p.conn \in Int
      BY <1>3, FrontTaken DEF LoginHandler, TakePacket
    <3>3. QED
      BY <3>1, <3>2 DEF Task, Tasks, TypeOK, GhostsOK
  <2>2. /\ busy' = busy /\ resQ' = resQ
        /\ \/ reqQ' = Append(reqQ, Task(u, p))
           \/ reqQ' = reqQ
    BY <1>3, Zenon DEF LoginHandler
  <2>3. ToSet(Append(reqQ, Task(u, p))) = ToSet(reqQ) \cup {Task(u, p)}
    BY <1>1, <2>1, QueueMembers
  <2>4. e \in Asked \/ e = Task(u, p)
    BY <2>2, <2>3 DEF Asked
  <2>5. QED
    BY <2>4 DEF Task, SameRequest
<1>4. ASSUME LoginDBResHandler PROVE old
  <2>1. ToSet(Tail(resQ)) \subseteq ToSet(resQ)
    BY <1>1, <1>4, QueueMembers DEF LoginDBResHandler
  <2>2. resQ' = Tail(resQ) /\ reqQ' = reqQ /\ busy' = busy
    BY <1>4 DEF LoginDBResHandler
  <2>3. QED
    BY <2>1, <2>2 DEF Asked, SameRequest
<1>5. ASSUME NEW t \in RedisThreads, GetTaskReq(t) PROVE old
  <2>1. ToSet(Tail(reqQ)) \subseteq ToSet(reqQ) /\ Head(reqQ) \in ToSet(reqQ)
    BY <1>1, <1>5, QueueMembers DEF GetTaskReq
  <2>2. reqQ' = Tail(reqQ) /\ resQ' = resQ /\ busy' = [busy EXCEPT ![t] = <<Head(reqQ)>>]
    BY <1>5 DEF GetTaskReq
  <2>3. ToSet(<<Head(reqQ)>>) = {Head(reqQ)}
    BY DEF ToSet
  <2>4. \A s \in RedisThreads : ToSet(busy'[s]) \subseteq ToSet(busy[s]) \cup {Head(reqQ)}
    BY <1>1, <2>2, <2>3
  <2>5. QED
    BY <2>1, <2>2, <2>4 DEF Asked, SameRequest
<1>6. ASSUME NEW t \in RedisThreads, PushTaskRes(t) PROVE old
  <2>1. Head(busy[t]) \in Tasks /\ Head(busy[t]) \in ToSet(busy[t])
    BY <1>1, <1>6, QueueTypes, QueueMembers DEF PushTaskRes
  <2>2. PICK r \in Results : resQ' = Append(resQ, r) /\ SameRequest(Head(busy[t]), r)
    <3> DEFINE task == Head(busy[t])
    <3>1. PICK ok \in BOOLEAN :
             resQ' = Append(resQ, [user |-> task.user, id |-> task.id, ok |-> ok,
                                   conn |-> task.conn, no |-> task.no])
      BY <1>6 DEF PushTaskRes
    <3>2. QED
      BY <2>1, <3>1 DEF Results, Tasks, SameRequest
  <2>3. ToSet(resQ') = ToSet(resQ) \cup {r}
    BY <1>1, <2>2, QueueMembers
  <2>4. reqQ' = reqQ /\ busy' = [busy EXCEPT ![t] = <<>>]
    BY <1>6 DEF PushTaskRes
  <2>5. \A s \in RedisThreads : ToSet(busy'[s]) \subseteq ToSet(busy[s])
    BY <1>1, <2>4 DEF ToSet
  <2>6. e \in Asked \/ e = r
    BY <2>3, <2>4, <2>5 DEF Asked
  <2>7. QED
    BY <2>1, <2>2, <2>6 DEF SameRequest, Asked
<1>7. ASSUME Callbacks PROVE old
  BY <1>2, <1>7 DEF Callbacks, OnConnect, OnDisconnect, OnRecv, PushIndex, redis
<1>8. ASSUME NEW u \in Users, NEW p,
             \/ EnterRoomHandler(u, p) \/ LeaveRoomHandler(u, p) \/ RoomChatHandler(u, p)
             \/ ConnectByPacket(u, p) \/ DisconnectByPacket(u, p) \/ ResultByPacket(u, p)
             \/ ConnectHandler(u) \/ DisconnectHandler(u)
      PROVE  old
  BY <1>2, <1>8 DEF EnterRoomHandler, LeaveRoomHandler, RoomChatHandler, ConnectHandler,
     ConnectByPacket, DisconnectByPacket, ResultByPacket, DisconnectHandler,
     TakeSystemPacket, redis
<1>9. ASSUME NoUserPacket \/ StrayIndex \/ NoSystemPacket \/ NoTaskRes PROVE old
  BY <1>2, <1>9 DEF NoUserPacket, StrayIndex, NoSystemPacket, NoTaskRes, redis
<1>10. CASE UNCHANGED vars
  BY <1>2, <1>10 DEF vars, redis
<1>11. CASE PacketThread
  BY <1>3, <1>4, <1>8, <1>9, <1>11 DEF PacketThread
<1>12. QED
  BY <1>5, <1>6, <1>7, <1>10, <1>11 DEF Next, RedisThread

(***************************************************************************)
(* A packet comes in by OnRecv, with the number of its connection; one     *)
(* that can be reached goes when its handler is done; any other step that  *)
(* touches a buffer leaves no packet in it that can be reached.            *)
(***************************************************************************)
Received(u, p) == inbox'[u] = Append(inbox[u], [req |-> p, conn |-> conns[u]])
Removed(u)     == inbox[u] # <<>> /\ ~Blocker(inbox[u][1]) /\ inbox'[u] = Tail(inbox[u])
Closed(u)      == Open(inbox'[u]) = {} /\ (inbox[u] = <<>> => inbox'[u] = <<>>)

LEMMA InboxSteps ==
    ASSUME TypeOK, [Next]_vars, NEW u \in Users
    PROVE  \/ inbox'[u] = inbox[u]
           \/ \E p \in ClientPackets : OnRecv(u, p) /\ Received(u, p)
           \/ Removed(u) \/ Closed(u)
<1> DEFINE less == inbox'[u] = inbox[u] \/ Removed(u) \/ Closed(u)
<1>1. inbox \in [Users -> Seq(Packets)]
  BY DEF TypeOK, QueuesOK
<1>2. ASSUME NEW v \in Users, NEW p, NEW op, op # "unknown", TakePacket(v, p, op)
      PROVE  less
  <2>1. inbox[v] # <<>>
    BY <1>2, FrontTaken, FrontTypes DEF TakePacket
  <2>2. CASE u = v
    BY <1>2, <2>1, <2>2, TakenTypes DEF Removed, Closed
  <2>3. CASE u # v
    BY <1>2, <2>3, TakenTypes
  <2>4. QED
    BY <2>2, <2>3
<1>3. ASSUME NEW v \in Users, NEW p \in ClientPackets, OnRecv(v, p)
      PROVE  inbox'[u] = inbox[u] \/ (OnRecv(u, p) /\ Received(u, p))
  <2>1. inbox' = [inbox EXCEPT ![v] = Append(inbox[v], [req |-> p, conn |-> conns[v]])]
    BY <1>3 DEF OnRecv
  <2>2. QED
    BY <1>1, <1>3, <2>1 DEF Received
<1>4. ASSUME NEW v \in Users, ConnectHandler(v)
      PROVE  less
  <2>1. inbox' = [inbox EXCEPT ![v] = <<>>] /\ Open(<<>>) = {}
    BY <1>4 DEF ConnectHandler, Open
  <2>2. QED
    BY <1>1, <2>1 DEF Closed
<1>12. ASSUME NEW v \in Users, NEW p, ConnectByPacket(v, p)
       PROVE  less
  <2>1. inbox[v] # <<>>
    BY <1>12, FrontTaken, FrontTypes DEF ConnectByPacket
  <2>2. PICK new \in {<<>>, <<Stray>>} : inbox' = [inbox EXCEPT ![v] = new]
    BY <1>12, Zenon DEF ConnectByPacket
  <2>3. Open(new) = {}
    <3>1. <<>> \in Seq(Packets) /\ <<Stray>> \in Seq(Packets) /\ <<Stray>>[1] = Stray
      BY PacketKinds
    <3>2. Blocker(<<Stray>>[1])
      BY <3>1, PacketKinds DEF Blocker
    <3>3. Open(<<>>) = {} /\ Open(<<Stray>>) = {}
      BY <3>1, <3>2, OpenOne
    <3>4. QED
      BY <3>3
  <2>4. QED
    BY <1>1, <2>1, <2>2, <2>3 DEF Closed
<1>6. ASSUME NEW v \in Users,
             OnConnect(v) \/ OnDisconnect(v) \/ PushIndex(v) \/ DisconnectHandler(v)
      PROVE  inbox' = inbox
  BY <1>6 DEF OnConnect, OnDisconnect, PushIndex, DisconnectHandler
<1>7. ASSUME \/ NoUserPacket \/ StrayIndex \/ NoSystemPacket \/ NoTaskRes
             \/ LoginDBResHandler \/ (\E t \in RedisThreads : RedisThread(t))
      PROVE  inbox' = inbox
  BY <1>7 DEF NoUserPacket, StrayIndex, NoSystemPacket, NoTaskRes, LoginDBResHandler,
     RedisThread, GetTaskReq, PushTaskRes
<1>8. UNCHANGED vars => inbox' = inbox
  BY DEF vars
<1>9. ASSUME NEW v \in Users, NEW p,
             \/ LoginHandler(v, p) \/ EnterRoomHandler(v, p)
             \/ LeaveRoomHandler(v, p) \/ RoomChatHandler(v, p)
             \/ DisconnectByPacket(v, p) \/ ResultByPacket(v, p)
      PROVE  less
  <2>1. \E op \in {"login", "enter", "leave", "chat", "disconnect", "result"} :
           TakePacket(v, p, op)
    BY <1>9 DEF LoginHandler, EnterRoomHandler, LeaveRoomHandler, RoomChatHandler,
       DisconnectByPacket, ResultByPacket
  <2>2. QED
    BY <1>2, <2>1
<1> HIDE DEF less
<1>5. inbox' = inbox => less
  BY DEF less
<1>10. CASE PacketThread
  <2>1. less
    BY <1>4, <1>5, <1>6, <1>7, <1>9, <1>10, <1>12 DEF PacketThread
  <2>2. QED
    BY <2>1 DEF less
<1>11. CASE Callbacks
  BY <1>3, <1>6, <1>11 DEF Callbacks
<1>13. QED
  BY <1>7, <1>8, <1>10, <1>11 DEF Next

-----------------------------------------------------------------------------
(* Whom the logic talks to *)

(***************************************************************************)
(* Whoever a later step may send to has been heard already: the sender of  *)
(* a packet or of a login task that waits, and the members of the rooms.   *)
(***************************************************************************)
PacketsHeard == \A u \in Users : inbox[u] # <<>> => u \in heard
AskedHeard   == \A e \in Asked : e.user \in heard
RoomsHeard   == \A r \in Rooms : rooms[r] \in Seq(heard)

HeardInv == PacketsHeard /\ AskedHeard /\ RoomsHeard /\ SendsOnlyWhereHeard

LEMMA HeardInit == Init => HeardInv
BY DEF Init, HeardInv, PacketsHeard, AskedHeard, RoomsHeard, SendsOnlyWhereHeard, Asked, ToSet

(* The packet thread leaves what the network's callbacks keep alone. *)
LEMMA ThreadSteps == ASSUME PacketThread PROVE UNCHANGED network
<1>1. ASSUME NEW u \in Users, NEW p,
             \/ LoginHandler(u, p) \/ EnterRoomHandler(u, p)
             \/ LeaveRoomHandler(u, p) \/ RoomChatHandler(u, p)
             \/ ConnectByPacket(u, p) \/ DisconnectByPacket(u, p) \/ ResultByPacket(u, p)
      PROVE  UNCHANGED network
  <2>1. \E op : TakeFront(u, p, op)
    BY <1>1 DEF LoginHandler, EnterRoomHandler, LeaveRoomHandler, RoomChatHandler,
       ConnectByPacket, DisconnectByPacket, ResultByPacket, TakePacket
  <2>2. QED
    BY <2>1 DEF TakeFront
<1>2. ASSUME NEW u \in Users, ConnectHandler(u) \/ DisconnectHandler(u)
      PROVE  UNCHANGED network
  BY <1>2 DEF ConnectHandler, DisconnectHandler, TakeSystemPacket
<1>3. ASSUME NoUserPacket \/ StrayIndex \/ NoSystemPacket \/ NoTaskRes \/ LoginDBResHandler
      PROVE  UNCHANGED network
  BY <1>3 DEF NoUserPacket, StrayIndex, NoSystemPacket, NoTaskRes, LoginDBResHandler
<1>4. QED
  BY <1>1, <1>2, <1>3 DEF PacketThread

LEMMA HeardGrows == ASSUME [Next]_vars PROVE heard \subseteq heard'
BY ThreadSteps DEF Next, RedisThread, Callbacks, vars, network, OnConnect, OnRecv,
   OnDisconnect, PushIndex, GetTaskReq, PushTaskRes

LEMMA HeardStep == TypeOK /\ Opened /\ HeardInv /\ [Next]_vars => HeardInv'
<1> SUFFICES ASSUME TypeOK, Opened, HeardInv, [Next]_vars PROVE HeardInv'
  OBVIOUS
<1>1. heard \subseteq heard' /\ heard \subseteq Users
  BY HeardGrows DEF TypeOK, NetworkOK
<1>2. /\ inbox \in [Users -> Seq(Packets)] /\ resQ \in Seq(Results)
      /\ rooms \in [Rooms -> Seq(Users)]
  BY DEF TypeOK, QueuesOK, LogicOK
<1>3. PacketsHeard'
  <2>1. SUFFICES ASSUME NEW u \in Users, inbox'[u] # <<>> PROVE u \in heard'
    BY DEF PacketsHeard
  <2>2. CASE inbox'[u] = inbox[u] \/ Removed(u) \/ Closed(u)
    <3>1. inbox[u] # <<>>
      BY <2>1, <2>2 DEF Removed, Closed
    <3>2. QED
      BY <1>1, <3>1 DEF HeardInv, PacketsHeard
  <2>3. CASE \E p \in ClientPackets : OnRecv(u, p)
    BY <2>3 DEF OnRecv
  <2>4. QED
    BY <2>2, <2>3, InboxSteps
<1>4. AskedHeard'
  <2>1. SUFFICES ASSUME NEW e \in Asked' PROVE e.user \in heard'
    BY DEF AskedHeard
  <2>2. CASE \E d \in Asked : SameRequest(d, e)
    BY <1>1, <2>2 DEF SameRequest, HeardInv, AskedHeard
  <2>3. ASSUME NEW u \in Users, NEW p \in AtFront(u), e.user = u PROVE e.user \in heard'
    BY <1>1, <2>3, FrontTypes DEF HeardInv, PacketsHeard
  <2>4. QED
    BY <2>2, <2>3, AskedSteps
<1>5. RoomsHeard'
  <2>1. SUFFICES \A r \in Rooms : rooms'[r] \in Seq(heard)
    BY <1>1, SeqMonotonic DEF RoomsHeard
  <2>2. \A r \in Rooms : rooms[r] \in Seq(heard)
    BY DEF HeardInv, RoomsHeard
  <2>3. ASSUME NEW u \in Users, NEW r \in Rooms, Entered(u, r)
        PROVE  \A q \in Rooms : rooms'[q] \in Seq(heard)
    <3>1. u \in heard
      BY <2>3, FrontTypes DEF Entered, HeardInv, PacketsHeard
    <3>2. Append(rooms[r], u) \in Seq(heard)
      BY <2>2, <3>1, AppendProperties
    <3>3. QED
      BY <1>2, <2>2, <2>3, <3>2 DEF Entered
  <2>4. ASSUME NEW u \in Users, NEW r \in Rooms, Left(u, r)
        PROVE  \A q \in Rooms : rooms'[q] \in Seq(heard)
    <3>1. LeaveUser(rooms[r], u) \in Seq(heard)
      BY <2>2, LeaveUserRemoves
    <3>2. QED
      BY <1>2, <2>2, <2>4, <3>1 DEF Left
  <2>5. QED
    BY <2>2, <2>3, <2>4, LogicSteps
<1>6. SendsOnlyWhereHeard'
  <2>1. SUFFICES sent' \subseteq heard \/ sent' = sent
    BY <1>1 DEF HeardInv, SendsOnlyWhereHeard
  <2>2. ASSUME NEW u \in Users, NEW p, NEW op, TakePacket(u, p, op) PROVE u \in heard
    BY <2>2, FrontTaken, FrontTypes DEF TakePacket, HeardInv, PacketsHeard
  <2>3. ASSUME NEW u \in Users, NEW p, RoomChatHandler(u, p) PROVE sent' \subseteq heard
    <3>1. \A r \in Rooms : ToSet(rooms[r]) \subseteq heard
      BY QueueMembers DEF HeardInv, RoomsHeard
    <3>2. u \in heard
      BY <2>2, <2>3 DEF RoomChatHandler
    <3>3. QED
      BY <2>3, <3>1, <3>2 DEF RoomChatHandler
  <2>4. ASSUME NEW u \in Users, NEW p,
               \/ LoginHandler(u, p) \/ EnterRoomHandler(u, p) \/ LeaveRoomHandler(u, p)
               \/ ResultByPacket(u, p)
        PROVE  sent' \subseteq heard
    <3>1. u \in heard
      BY <2>2, <2>4 DEF LoginHandler, EnterRoomHandler, LeaveRoomHandler,
         ResultByPacket
    <3>2. sent' \in {{}, {u}}
      BY <2>4 DEF LoginHandler, EnterRoomHandler, LeaveRoomHandler,
         ResultByPacket
    <3>3. QED
      BY <3>1, <3>2
  <2>5. ASSUME LoginDBResHandler PROVE sent' \subseteq heard
    <3>1. Head(resQ) \in Asked
      BY <1>2, <2>5, QueueMembers DEF LoginDBResHandler, Asked
    <3>2. sent' = {Head(resQ).user}
      BY <2>5 DEF LoginDBResHandler
    <3>3. QED
      BY <3>1, <3>2 DEF HeardInv, AskedHeard
  <2>6. ASSUME NEW u \in Users, NEW p,
               \/ ConnectHandler(u) \/ DisconnectHandler(u)
               \/ ConnectByPacket(u, p) \/ DisconnectByPacket(u, p)
        PROVE  sent' = {}
    BY <2>6 DEF ConnectHandler, DisconnectHandler, ConnectByPacket, DisconnectByPacket,
       TakeSystemPacket
  <2>7. ASSUME NoUserPacket \/ StrayIndex \/ NoSystemPacket \/ NoTaskRes PROVE sent' = {}
    BY <2>7 DEF NoUserPacket, StrayIndex, NoSystemPacket, NoTaskRes
  <2>8. CASE PacketThread
    BY <2>3, <2>4, <2>5, <2>6, <2>7, <2>8 DEF PacketThread
  <2>9. CASE Callbacks \/ UNCHANGED vars \/ \E t \in RedisThreads : RedisThread(t)
    BY <2>9 DEF Callbacks, OnConnect, OnDisconnect, OnRecv, PushIndex, vars, RedisThread, GetTaskReq,
       PushTaskRes
  <2>10. QED
    BY <2>8, <2>9 DEF Next
<1>7. QED
  BY <1>3, <1>4, <1>5, <1>6 DEF HeardInv

(***************************************************************************)
(* SendPacket is only called for slots from which a packet has come, what  *)
(* SessionPool takes for granted of the logic: no list of a room and no    *)
(* answer of Redis ever names anyone else (packet_manager.cpp).            *)
(***************************************************************************)
THEOREM SendsToWhoSpoke == Spec => []SendsOnlyWhereHeard
<1>1. Init => HeardInv
  BY HeardInit
<1>2. TypeOK /\ Opened /\ HeardInv /\ [Next]_vars => HeardInv'
  BY HeardStep
<1>3. HeardInv => SendsOnlyWhereHeard
  BY DEF HeardInv
<1>4. Spec => [](TypeOK /\ Opened)
  BY ChatTypeCorrect
<1>5. QED
  BY <1>1, <1>2, <1>3, <1>4, PTL DEF Spec

-----------------------------------------------------------------------------
(* The index queue *)

Places(q, u) == {i \in DOMAIN q : q[i] = u}

LEMMA PlacesFinite ==
    ASSUME NEW S, NEW q \in Seq(S), NEW u
    PROVE  IsFiniteSet(Places(q, u)) /\ Cardinality(Places(q, u)) \in Nat
<1>1. Places(q, u) \subseteq 1..Len(q) /\ Len(q) \in Nat
  BY DEF Places
<1>2. IsFiniteSet(1..Len(q))
  BY <1>1, FS_Interval
<1>3. IsFiniteSet(Places(q, u))
  BY <1>1, <1>2, FS_Subset
<1>4. QED
  BY <1>3, FS_CardinalityType

LEMMA PlacesAppend ==
    ASSUME NEW S, NEW q \in Seq(S), NEW e \in S, NEW u
    PROVE  Cardinality(Places(Append(q, e), u))
             = Cardinality(Places(q, u)) + (IF e = u THEN 1 ELSE 0)
<1>1. /\ Len(q) \in Nat /\ DOMAIN q = 1..Len(q)
      /\ DOMAIN Append(q, e) = 1..(Len(q) + 1)
      /\ \A i \in 1..Len(q) : Append(q, e)[i] = q[i]
      /\ Append(q, e)[Len(q) + 1] = e
  BY AppendProperties, LenProperties
<1>2. Len(q) + 1 \notin Places(q, u)
  BY <1>1 DEF Places
<1>3. CASE e = u
  <2>1. Places(Append(q, e), u) = Places(q, u) \cup {Len(q) + 1}
    BY <1>1, <1>3 DEF Places
  <2>2. QED
    BY <1>2, <1>3, <2>1, PlacesFinite, FS_AddElement
<1>4. CASE e # u
  <2>1. Places(Append(q, e), u) = Places(q, u)
    BY <1>1, <1>4 DEF Places
  <2>2. QED
    BY <1>4, <2>1, PlacesFinite
<1>5. QED
  BY <1>3, <1>4

LEMMA PlacesTail ==
    ASSUME NEW S, NEW q \in Seq(S), q # <<>>, NEW u
    PROVE  Cardinality(Places(Tail(q), u))
             = Cardinality(Places(q, u)) - (IF Head(q) = u THEN 1 ELSE 0)
<1> DEFINE rest == Places(q, u) \ {1}
           there == Places(Tail(q), u)
           f == [i \in there |-> i + 1]
<1>1. /\ Len(q) \in Nat \ {0} /\ DOMAIN q = 1..Len(q) /\ Head(q) = q[1]
      /\ Tail(q) \in Seq(S) /\ DOMAIN Tail(q) = 1..(Len(q) - 1)
      /\ \A i \in 1..(Len(q) - 1) : Tail(q)[i] = q[i + 1]
  BY EmptySeq, HeadTailProperties
<1>2. \A i : i \in there <=> i \in 1..(Len(q) - 1) /\ q[i + 1] = u
  BY <1>1 DEF Places
<1>3. \A i : i \in rest <=> i \in 2..Len(q) /\ q[i] = u
  BY <1>1 DEF Places
<1>4. \A i \in rest : i - 1 \in there /\ (i - 1) + 1 = i
  BY <1>1, <1>2, <1>3
<1>5. \A i \in there : i \in Int /\ i + 1 \in rest
  BY <1>1, <1>2, <1>3
<1>6. f \in Bijection(there, rest)
  <2> HIDE DEF rest, there
  <2>1. f \in [there -> rest]
    BY <1>5
  <2>2. \A i, j \in there : f[i] = f[j] => i = j
    BY <1>5
  <2>3. \A j \in rest : \E i \in there : f[i] = j
    BY <1>4
  <2>4. QED
    BY <2>1, <2>2, <2>3 DEF Bijection, Injection, Surjection, IsInjective
<1>7. IsFiniteSet(there) /\ IsFiniteSet(Places(q, u))
  BY <1>1, PlacesFinite
<1>8. Cardinality(rest) = Cardinality(there)
  <2> HIDE DEF rest, there, f
  <2>1. ExistsBijection(there, rest)
    BY <1>6 DEF ExistsBijection
  <2>2. QED
    BY <1>7, <2>1, FS_Bijection
<1>9. 1 \in Places(q, u) <=> Head(q) = u
  BY <1>1 DEF Places
<1>10. Cardinality(rest) = Cardinality(Places(q, u)) - (IF Head(q) = u THEN 1 ELSE 0)
  <2>1. Cardinality(Places(q, u)) \in Nat
    BY PlacesFinite
  <2>2. Cardinality(Places(q, u) \ {1})
          = IF 1 \in Places(q, u) THEN Cardinality(Places(q, u)) - 1
            ELSE Cardinality(Places(q, u))
    BY <1>7, FS_RemoveElement
  <2>3. QED
    BY <1>9, <2>1, <2>2
<1>11. QED
  BY <1>8, <1>10

(* The same for the packets of a list that can be reached *)
LEMMA OpenFinite ==
    ASSUME NEW S, NEW s \in Seq(S)
    PROVE  IsFiniteSet(Open(s)) /\ Cardinality(Open(s)) \in Nat
<1>1. Open(s) \subseteq 1..Len(s) /\ Len(s) \in Nat
  BY LenProperties DEF Open
<1>2. IsFiniteSet(1..Len(s))
  BY <1>1, FS_Interval
<1>3. IsFiniteSet(Open(s))
  BY <1>1, <1>2, FS_Subset
<1>4. QED
  BY <1>3, FS_CardinalityType

LEMMA OpenAppend ==
    ASSUME NEW S, NEW s \in Seq(S), NEW e \in S
    PROVE  Cardinality(Open(Append(s, e))) <= Cardinality(Open(s)) + 1
<1> DEFINE t == Append(s, e)
           n == Len(s) + 1
<1>1. /\ Len(s) \in Nat /\ DOMAIN s = 1..Len(s) /\ t \in Seq(S)
      /\ DOMAIN t = 1..n /\ \A i \in 1..Len(s) : t[i] = s[i]
  BY AppendProperties, LenProperties
<1> HIDE DEF t
<1>2. Open(t) \subseteq Open(s) \cup {n}
  BY <1>1 DEF Open
<1>3. IsFiniteSet(Open(s) \cup {n})
  BY OpenFinite, FS_AddElement
<1>4. Cardinality(Open(t)) <= Cardinality(Open(s) \cup {n})
  BY <1>2, <1>3, FS_Subset
<1>5. Cardinality(Open(s) \cup {n}) <= Cardinality(Open(s)) + 1
  <2>1. IsFiniteSet(Open(s)) /\ Cardinality(Open(s)) \in Nat
    BY OpenFinite
  <2>2. Cardinality(Open(s) \cup {n})
          = IF n \in Open(s) THEN Cardinality(Open(s)) ELSE Cardinality(Open(s)) + 1
    BY <2>1, FS_AddElement
  <2>3. QED
    BY <2>1, <2>2
<1>6. Cardinality(Open(t)) \in Nat /\ Cardinality(Open(s) \cup {n}) \in Nat
  BY <1>1, <1>3, OpenFinite, FS_CardinalityType
<1>7. QED
  BY <1>4, <1>5, <1>6, OpenFinite DEF t

LEMMA OpenTail ==
    ASSUME NEW S, NEW s \in Seq(S), s # <<>>, ~Blocker(s[1])
    PROVE  Cardinality(Open(s)) = Cardinality(Open(Tail(s))) + 1
<1> DEFINE rest == Open(s) \ {1}
           there == Open(Tail(s))
           f == [i \in there |-> i + 1]
<1>1. /\ Len(s) \in Nat \ {0} /\ DOMAIN s = 1..Len(s)
      /\ Tail(s) \in Seq(S) /\ DOMAIN Tail(s) = 1..(Len(s) - 1)
      /\ \A i \in 1..(Len(s) - 1) : Tail(s)[i] = s[i + 1]
  BY EmptySeq, HeadTailProperties
<1>2. \A i : i \in there <=> /\ i \in 1..(Len(s) - 1)
                             /\ \A j \in 1..i : ~Blocker(s[j + 1])
  BY <1>1 DEF Open
<1>3. \A i : i \in rest <=> i \in 2..Len(s) /\ \A j \in 1..i : ~Blocker(s[j])
  BY <1>1 DEF Open
<1>4. ASSUME NEW i \in rest PROVE i - 1 \in there /\ (i - 1) + 1 = i
  <2>1. i \in 2..Len(s) /\ \A j \in 1..i : ~Blocker(s[j])
    BY <1>3
  <2>2. \A j \in 1..(i - 1) : ~Blocker(s[j + 1])
    BY <2>1
  <2>3. QED
    BY <1>1, <1>2, <2>1, <2>2
<1>5. ASSUME NEW i \in there PROVE i \in Int /\ i + 1 \in rest
  <2>1. i \in 1..(Len(s) - 1) /\ \A j \in 1..i : ~Blocker(s[j + 1])
    BY <1>2
  <2>2. ASSUME NEW j \in 1..(i + 1) PROVE ~Blocker(s[j])
    <3>1. j = 1 \/ (j - 1 \in 1..i /\ (j - 1) + 1 = j)
      BY <2>1
    <3>2. QED
      BY <2>1, <3>1
  <2>3. QED
    BY <1>1, <1>3, <2>1, <2>2
<1>6. f \in Bijection(there, rest)
  <2> HIDE DEF rest, there
  <2>1. f \in [there -> rest]
    BY <1>5
  <2>2. \A i, j \in there : f[i] = f[j] => i = j
    BY <1>5
  <2>3. \A j \in rest : \E i \in there : f[i] = j
    BY <1>4
  <2>4. QED
    BY <2>1, <2>2, <2>3 DEF Bijection, Injection, Surjection, IsInjective
<1>7. IsFiniteSet(there) /\ IsFiniteSet(Open(s))
  BY <1>1, OpenFinite
<1>8. Cardinality(rest) = Cardinality(there)
  <2> HIDE DEF rest, there, f
  <2>1. ExistsBijection(there, rest)
    BY <1>6 DEF ExistsBijection
  <2>2. QED
    BY <1>7, <2>1, FS_Bijection
<1>9. 1 \in Open(s)
  BY <1>1 DEF Open
<1>10. Cardinality(rest) = Cardinality(Open(s)) - 1
  BY <1>7, <1>9, FS_RemoveElement
<1>11. Cardinality(Open(s)) \in Nat
  BY OpenFinite
<1>12. QED
  BY <1>8, <1>10, <1>11

(* The indices that workers are about to push *)
Hands(w, u) == {x \in w : x.user = u}

LEMMA HandsFinite ==
    ASSUME NEW w, IsFiniteSet(w), NEW u
    PROVE  IsFiniteSet(Hands(w, u)) /\ Cardinality(Hands(w, u)) \in Nat
<1>1. Hands(w, u) \subseteq w
  BY DEF Hands
<1>2. QED
  BY <1>1, FS_Subset, FS_CardinalityType

IndexInv == IsFiniteSet(pushing) /\ IndexForEveryPacket

LEMMA ReachableIsOpen ==
    /\ IndexForEveryPacket <=> \A u \in Users :
          Cardinality(Open(inbox[u])) <= Cardinality(Places(indexQ, u))
                                           + Cardinality(Hands(pushing, u))
    /\ IndexForEveryPacket' <=> \A u \in Users :
          Cardinality(Open(inbox'[u])) <= Cardinality(Places(indexQ', u))
                                            + Cardinality(Hands(pushing', u))
BY DEF IndexForEveryPacket, Reachable, Open, Places, Hands

LEMMA IndexInit == Init => IndexInv
<1> SUFFICES ASSUME Init PROVE IndexInv
  OBVIOUS
<1>1. \A u \in Users : Open(inbox[u]) = {} /\ Places(indexQ, u) = {} /\ Hands(pushing, u) = {}
  BY DEF Init, Places, Hands, Open
<1>2. Cardinality({}) = 0 /\ IsFiniteSet({})
  BY FS_EmptySet
<1>3. \A u \in Users : Cardinality(Open(inbox[u])) <= Cardinality(Places(indexQ, u))
                                                       + Cardinality(Hands(pushing, u))
  <2>1. TAKE u \in Users
  <2>2. /\ Cardinality(Open(inbox[u])) = 0 /\ Cardinality(Places(indexQ, u)) = 0
        /\ Cardinality(Hands(pushing, u)) = 0
    BY <1>1, <1>2, Zenon
  <2>3. QED
    BY <2>2
<1>4. QED
  BY <1>2, <1>3, ReachableIsOpen DEF Init, IndexInv

(* Which steps take indices or put them there *)
Handled(u) == /\ indexQ # <<>> /\ Head(indexQ) = u /\ indexQ' = Tail(indexQ)
              /\ pushing' = pushing
              /\ inbox'[u] = inbox[u] => Open(inbox[u]) = {}

LEMMA IndexSteps ==
    ASSUME TypeOK, [Next]_vars
    PROVE  \/ indexQ' = indexQ /\ pushing' = pushing
           \/ \E u \in Users : \/ \E p \in ClientPackets : OnRecv(u, p)
                               \/ PushIndex(u) \/ Handled(u)
<1> DEFINE new == \E u \in Users : \/ \E p \in ClientPackets : OnRecv(u, p)
                                    \/ PushIndex(u) \/ Handled(u)
           same == indexQ' = indexQ /\ pushing' = pushing
<1>1. ASSUME NEW u \in Users, NEW p, NEW op, TakePacket(u, p, op), op # "unknown"
      PROVE  Handled(u)
  <2>1. /\ indexQ # <<>> /\ Head(indexQ) = u /\ indexQ' = Tail(indexQ)
        /\ pushing' = pushing
    BY <1>1, FrontTaken, FrontTypes DEF TakePacket, TakeFront, network
  <2>2. /\ inbox[u] # <<>> /\ inbox[u] \in Seq(Packets)
        /\ (~Blocker(inbox[u][1]) /\ inbox'[u] = Tail(inbox[u])) \/ Open(inbox'[u]) = {}
    BY <1>1, FrontTaken, FrontTypes, TakenTypes DEF TakePacket
  <2>3. Len(Tail(inbox[u])) = Len(inbox[u]) - 1 /\ Len(inbox[u]) \in Nat
    BY <2>2, HeadTailProperties, LenProperties
  <2>4. Tail(inbox[u]) # inbox[u]
    <3>1. Len(Tail(inbox[u])) # Len(inbox[u])
      BY <2>3
    <3>2. QED
      BY <3>1, Zenon
  <2>5. QED
    BY <2>1, <2>2, <2>4 DEF Handled
<1>2. ASSUME NEW u \in Users, NEW p, ConnectByPacket(u, p) PROVE Handled(u)
  <2>1. /\ indexQ # <<>> /\ Head(indexQ) = u /\ indexQ' = Tail(indexQ)
        /\ pushing' = pushing /\ inbox[u] # <<>>
    BY <1>2, FrontTaken, FrontTypes DEF ConnectByPacket, TakeFront, network
  <2>2. inbox'[u] = <<>> \/ inbox'[u] = <<Stray>>
    BY <1>2 DEF ConnectByPacket, TypeOK, QueuesOK
  <2>3. inbox'[u] = inbox[u] => Open(inbox[u]) = {}
    <3>1. <<Stray>> \in Seq({Stray}) /\ <<Stray>>[1] = Stray /\ <<Stray>> # <<>>
      OBVIOUS
    <3>2. Open(<<Stray>>) = {}
      BY <3>1, OpenOne, PacketKinds DEF Blocker
    <3>3. QED
      BY <2>1, <2>2, <3>2
  <2>4. QED
    BY <2>1, <2>3 DEF Handled
<1>3. ASSUME StrayIndex PROVE \E u \in Users : Handled(u)
  <2> DEFINE u == Head(indexQ)
  <2>1. /\ indexQ # <<>> /\ indexQ' = Tail(indexQ) /\ pushing' = pushing /\ inbox' = inbox
        /\ inbox[u] # <<>> => Head(inbox[u]).req.op \in {"unknown", "stray"}
    BY <1>3, Zenon DEF StrayIndex, network
  <2>2. u \in Users
    BY <2>1, QueueTypes DEF TypeOK, QueuesOK
  <2> HIDE DEF u
  <2>3. inbox[u] \in Seq(Packets)
    BY <2>2 DEF TypeOK, QueuesOK
  <2>4. Open(inbox[u]) = {}
    <3>1. CASE inbox[u] = <<>>
      BY <2>3, <3>1, OpenOne
    <3>2. CASE inbox[u] # <<>>
      <4>1. Head(inbox[u]) \in Packets /\ Head(inbox[u]) = inbox[u][1]
        BY <2>3, <3>2, QueueTypes, HeadTailProperties
      <4>2. Blocker(inbox[u][1])
        BY <2>1, <3>2, <4>1, PacketKinds DEF Blocker
      <4>3. QED
        BY <2>3, <3>2, <4>2, OpenOne
    <3>3. QED
      BY <3>1, <3>2
  <2>5. Handled(u)
    BY <2>1, <2>4 DEF Handled, u
  <2>6. QED
    BY <2>2, <2>5
<1>4. ASSUME NEW u \in Users, NEW p,
             \/ LoginHandler(u, p) \/ EnterRoomHandler(u, p)
             \/ LeaveRoomHandler(u, p) \/ RoomChatHandler(u, p)
             \/ DisconnectByPacket(u, p) \/ ResultByPacket(u, p)
      PROVE  Handled(u)
  <2>1. \E op \in {"login", "enter", "leave", "chat", "disconnect", "result"} :
           TakePacket(u, p, op)
    BY <1>4 DEF LoginHandler, EnterRoomHandler, LeaveRoomHandler, RoomChatHandler,
       DisconnectByPacket, ResultByPacket
  <2>2. QED
    BY <1>1, <2>1
<1>5. ASSUME NEW u \in Users,
             OnConnect(u) \/ OnDisconnect(u) \/ ConnectHandler(u) \/ DisconnectHandler(u)
      PROVE  same
  BY <1>5 DEF OnConnect, OnDisconnect, ConnectHandler, DisconnectHandler,
     TakeSystemPacket, network
<1>6. ASSUME \/ NoUserPacket \/ NoSystemPacket \/ NoTaskRes
             \/ LoginDBResHandler \/ (\E t \in RedisThreads : RedisThread(t))
      PROVE  same
  BY <1>6 DEF NoUserPacket, NoSystemPacket, NoTaskRes, LoginDBResHandler,
     RedisThread, GetTaskReq, PushTaskRes, network
<1>7. UNCHANGED vars => same
  BY DEF vars, network
<1>8. CASE PacketThread
  BY <1>2, <1>3, <1>4, <1>5, <1>6, <1>8 DEF PacketThread
<1>9. CASE Callbacks
  BY <1>5, <1>9 DEF Callbacks
<1>10. QED
  BY <1>6, <1>7, <1>8, <1>9 DEF Next

LEMMA IndexStep == TypeOK /\ Opened /\ IndexInv /\ [Next]_vars => IndexInv'
<1> SUFFICES ASSUME TypeOK, Opened, IndexInv, [Next]_vars PROVE IndexInv'
  OBVIOUS
<1>0. TypeOK'
  BY TypeStep
<1> DEFINE open(v) == Cardinality(Open(inbox[v]))
           place(v) == Cardinality(Places(indexQ, v))
           hand(v) == Cardinality(Hands(pushing, v))
           openN(v) == Cardinality(Open(inbox'[v]))
           placeN(v) == Cardinality(Places(indexQ', v))
           handN(v) == Cardinality(Hands(pushing', v))
<1>1. /\ inbox \in [Users -> Seq(Packets)] /\ indexQ \in Seq(Users)
      /\ IsFiniteSet(pushing)
  BY DEF TypeOK, QueuesOK, IndexInv
<1>2. \A v \in Users : open(v) <= place(v) + hand(v)
  BY ReachableIsOpen DEF IndexInv
<1>3. \A v \in Users : open(v) \in Nat /\ place(v) \in Nat /\ hand(v) \in Nat
  BY <1>1, OpenFinite, PlacesFinite, HandsFinite
<1>4. ASSUME NEW v \in Users
      PROVE  \/ openN(v) = open(v)
             \/ (\E p \in ClientPackets : OnRecv(v, p)) /\ openN(v) <= open(v) + 1
             \/ openN(v) = open(v) - 1
             \/ openN(v) = 0
  <2>1. CASE inbox'[v] = inbox[v]
    BY <2>1
  <2>2. ASSUME NEW p \in ClientPackets, OnRecv(v, p), Received(v, p)
        PROVE  openN(v) <= open(v) + 1
    <3>1. [req |-> p, conn |-> conns[v]] \in Packets
      BY ClientsAssumption DEF Packets, TypeOK, NetworkOK
    <3>2. QED
      BY <1>1, <2>2, <3>1, OpenAppend DEF Received
  <2>3. CASE Removed(v)
    <3>1. open(v) = Cardinality(Open(Tail(inbox[v]))) + 1
      BY <1>1, <2>3, OpenTail DEF Removed
    <3>2. Tail(inbox[v]) \in Seq(Packets)
      BY <1>1, <2>3, QueueTypes DEF Removed
    <3>3. Cardinality(Open(Tail(inbox[v]))) \in Nat
      BY <3>2, OpenFinite
    <3>4. QED
      BY <2>3, <3>1, <3>3 DEF Removed
  <2>4. CASE Closed(v)
    BY <2>4, FS_EmptySet DEF Closed
  <2>5. QED
    BY <2>1, <2>2, <2>3, <2>4, InboxSteps
<1>5. \A v \in Users : openN(v) \in Nat
  <2>1. inbox' \in [Users -> Seq(Packets)]
    BY <1>0 DEF TypeOK, QueuesOK
  <2>2. QED
    BY <2>1, OpenFinite
<1> HIDE DEF open, openN, place, placeN, hand, handN
<1>6. CASE indexQ' = indexQ /\ pushing' = pushing
  <2>1. \A v \in Users : placeN(v) = place(v) /\ handN(v) = hand(v)
    BY <1>6 DEF place, placeN, hand, handN
  <2>2. \A v \in Users : ~\E p \in ClientPackets : OnRecv(v, p)
    BY <1>6 DEF OnRecv
  <2>3. \A v \in Users : openN(v) <= placeN(v) + handN(v)
    BY <1>2, <1>3, <1>4, <1>5, <2>1, <2>2
  <2>4. QED
    BY <1>1, <1>6, <2>3, ReachableIsOpen DEF IndexInv, openN, placeN, handN
<1>7. ASSUME NEW u \in Users, NEW p \in ClientPackets, OnRecv(u, p) PROVE IndexInv'
  <2> DEFINE w == [user |-> u, conn |-> conns[u]]
  <2>1. w \notin pushing /\ pushing' = pushing \cup {w} /\ indexQ' = indexQ /\ w.user = u
    BY <1>7 DEF OnRecv
  <2> HIDE DEF w
  <2>2. IsFiniteSet(pushing')
    BY <1>1, <2>1, FS_AddElement
  <2>3. \A v \in Users : placeN(v) = place(v)
    BY <2>1 DEF place, placeN
  <2>4. ASSUME NEW v \in Users, v # u PROVE handN(v) = hand(v)
    <3>1. Hands(pushing', v) = Hands(pushing, v)
      BY <2>1, <2>4 DEF Hands
    <3>2. QED
      BY <3>1 DEF hand, handN
  <2>5. handN(u) = hand(u) + 1
    <3>1. Hands(pushing', u) = Hands(pushing, u) \cup {w} /\ w \notin Hands(pushing, u)
      BY <2>1 DEF Hands
    <3>2. QED
      <4>1. IsFiniteSet(Hands(pushing, u))
        BY <1>1, HandsFinite
      <4>2. Cardinality(Hands(pushing, u) \cup {w}) = Cardinality(Hands(pushing, u)) + 1
        BY <3>1, <4>1, FS_AddElement
      <4>3. QED
        BY <3>1, <4>2 DEF hand, handN
  <2>6. ASSUME NEW v \in Users, v # u PROVE ~\E q \in ClientPackets : OnRecv(v, q)
    <3>1. ASSUME NEW q \in ClientPackets, OnRecv(v, q) PROVE FALSE
      <4>1. [user |-> v, conn |-> conns[v]] \in pushing'
        BY <3>1 DEF OnRecv
      <4>2. [user |-> v, conn |-> conns[v]] \notin pushing
        BY <3>1 DEF OnRecv
      <4>3. [user |-> v, conn |-> conns[v]] = w
        BY <2>1, <4>1, <4>2
      <4>4. [user |-> v, conn |-> conns[v]].user = v
        OBVIOUS
      <4>5. QED
        BY <2>1, <2>6, <4>3, <4>4
    <3>2. QED
      BY <3>1
  <2>7. \A v \in Users : openN(v) <= placeN(v) + handN(v)
    <3>1. TAKE v \in Users
    <3>2. CASE v = u
      BY <1>2, <1>3, <1>4, <1>5, <2>3, <2>5, <3>2
    <3>3. CASE v # u
      BY <1>2, <1>3, <1>4, <1>5, <2>3, <2>4, <2>6, <3>3
    <3>4. QED
      BY <3>2, <3>3
  <2>8. QED
    BY <2>2, <2>7, ReachableIsOpen DEF IndexInv, openN, placeN, handN
<1>8. ASSUME NEW u \in Users, PushIndex(u) PROVE IndexInv'
  <2>1. PICK w \in pushing : w.user = u /\ pushing' = pushing \ {w}
    BY <1>8 DEF PushIndex
  <2>2. indexQ' = Append(indexQ, u) /\ inbox' = inbox
    BY <1>8 DEF PushIndex
  <2>3. IsFiniteSet(pushing')
    BY <1>1, <2>1, FS_RemoveElement
  <2>4. \A v \in Users : placeN(v) = place(v) + (IF u = v THEN 1 ELSE 0)
    BY <1>1, <2>2, PlacesAppend DEF place, placeN
  <2>5. ASSUME NEW v \in Users, v # u PROVE handN(v) = hand(v)
    <3>1. Hands(pushing', v) = Hands(pushing, v)
      BY <2>1, <2>5 DEF Hands
    <3>2. QED
      BY <3>1 DEF hand, handN
  <2>6. handN(u) = hand(u) - 1
    <3>1. Hands(pushing', u) = Hands(pushing, u) \ {w} /\ w \in Hands(pushing, u)
      BY <2>1 DEF Hands
    <3>2. QED
      <4>1. IsFiniteSet(Hands(pushing, u))
        BY <1>1, HandsFinite
      <4>2. Cardinality(Hands(pushing, u) \ {w}) = Cardinality(Hands(pushing, u)) - 1
        BY <3>1, <4>1, FS_RemoveElement
      <4>3. QED
        BY <3>1, <4>2 DEF hand, handN
  <2>7. \A v \in Users : openN(v) = open(v)
    BY <2>2 DEF open, openN
  <2>8. \A v \in Users : openN(v) <= placeN(v) + handN(v)
    <3>1. TAKE v \in Users
    <3>2. CASE v = u
      BY <1>2, <1>3, <2>4, <2>6, <2>7, <3>2
    <3>3. CASE v # u
      BY <1>2, <1>3, <2>4, <2>5, <2>7, <3>3
    <3>4. QED
      BY <3>2, <3>3
  <2>9. QED
    BY <2>3, <2>8, ReachableIsOpen DEF IndexInv, openN, placeN, handN
<1>9. ASSUME NEW u \in Users, Handled(u) PROVE IndexInv'
  <2>1. /\ indexQ # <<>> /\ Head(indexQ) = u /\ indexQ' = Tail(indexQ)
        /\ pushing' = pushing
    BY <1>9 DEF Handled
  <2>2. \A v \in Users : placeN(v) = place(v) - (IF u = v THEN 1 ELSE 0)
    BY <1>1, <2>1, PlacesTail DEF place, placeN
  <2>3. \A v \in Users : handN(v) = hand(v) /\ placeN(v) \in Nat
    <3>1. Tail(indexQ) \in Seq(Users)
      BY <1>1, <2>1, QueueTypes
    <3>2. QED
      BY <2>1, <3>1, PlacesFinite DEF hand, handN, placeN
  <2>4. \A v \in Users : ~\E p \in ClientPackets : OnRecv(v, p)
    BY <2>1 DEF OnRecv
  <2>5. openN(u) = open(u) => open(u) = 0 \/ openN(u) = 0
    <3>1. CASE inbox'[u] = inbox[u]
      BY <1>9, <3>1, FS_EmptySet DEF Handled, open
    <3>2. CASE Removed(u)
      <4>1. open(u) = Cardinality(Open(Tail(inbox[u]))) + 1
        BY <1>1, <3>2, OpenTail DEF Removed, open
      <4>2. openN(u) = Cardinality(Open(Tail(inbox[u])))
        BY <3>2 DEF Removed, openN
      <4>3. QED
        BY <1>5, <4>1, <4>2
    <3>3. CASE Closed(u)
      BY <3>3, FS_EmptySet DEF Closed, openN
    <3>4. QED
      BY <2>4, <3>1, <3>2, <3>3, InboxSteps
  <2>6. \A v \in Users : openN(v) <= placeN(v) + handN(v)
    <3>1. TAKE v \in Users
    <3>2. CASE v = u
      BY <1>2, <1>3, <1>4, <1>5, <2>2, <2>3, <2>4, <2>5, <3>2
    <3>3. CASE v # u
      BY <1>2, <1>3, <1>4, <1>5, <2>2, <2>3, <2>4, <3>3
    <3>4. QED
      BY <3>2, <3>3
  <2>7. QED
    BY <1>1, <2>1, <2>6, ReachableIsOpen DEF IndexInv, openN, placeN, handN
<1>10. QED
  BY <1>6, <1>7, <1>8, <1>9, IndexSteps

(***************************************************************************)
(* Every packet that waits in a packet_buf_ and can be reached has an      *)
(* index of its own in incoming_packet_user_index_queue_, or one that a    *)
(* worker between the two steps of EnqueuePacket is about to push, so that *)
(* DequeuePacket comes back for it without another packet having to        *)
(* arrive (packet_manager.cpp).                                            *)
(***************************************************************************)
THEOREM NoPacketForgotten == Spec => []IndexForEveryPacket
<1>1. Init => IndexInv
  BY IndexInit
<1>2. TypeOK /\ Opened /\ IndexInv /\ [Next]_vars => IndexInv'
  BY IndexStep
<1>3. IndexInv => IndexForEveryPacket
  BY DEF IndexInv
<1>4. Spec => [](TypeOK /\ Opened)
  BY ChatTypeCorrect
<1>5. QED
  BY <1>1, <1>2, <1>3, <1>4, PTL DEF Spec

-----------------------------------------------------------------------------
(* Whose login it is *)

(***************************************************************************)
(* With Settles, a packet that can be reached is of the connection its     *)
(* slot has now, and a login task too, or of bytes left over that this     *)
(* connection has had handled: OnConnect comes only when no index and no   *)
(* task is left.  So LoginDBResHandler answers a request of that           *)
(* connection.                                                             *)
(***************************************************************************)
PacketsOwn == \A u \in Users : \A i \in Open(inbox[u]) : inbox[u][i].conn = conns[u]
AskedOwn   == \A e \in Asked : e.conn \in {conns[e.user], -conns[e.user]}

OwnInv == PacketsOwn /\ AskedOwn /\ LoggedInByOwnRequest

(* The kSYS_USER_CONNECT of the slot's connection is still to be handled.  *)
Connecting(u) == [op |-> "connect", user |-> u] \in ToSet(systemQ)

LEMMA OwnInit == Init => OwnInv
BY DEF Init, OwnInv, PacketsOwn, AskedOwn, LoggedInByOwnRequest, Asked, ToSet, Open

LEMMA ConnsChange ==
    ASSUME [Next]_vars
    PROVE  conns' = conns \/ \E u \in Users : OnConnect(u)
BY ThreadSteps DEF Next, RedisThread, Callbacks, vars, network, OnRecv, OnDisconnect,
   PushIndex, GetTaskReq, PushTaskRes

(* Only its own ConnectHandler ends a slot's Connecting. *)
LEMMA ConnectingEnds ==
    ASSUME TypeOK, [Next]_vars, NEW u \in Users, Connecting(u), ~Connecting(u)'
    PROVE  ConnectHandler(u)
<1> DEFINE mine == [op |-> "connect", user |-> u]
<1>1. systemQ \in Seq(Events) /\ mine \in Events
  BY DEF TypeOK, QueuesOK, Events
<1>2. systemQ' # systemQ
  BY DEF Connecting
<1>3. ASSUME NEW v \in Users, NEW op \in {"connect", "disconnect"}, TakeSystemPacket(v, op)
      PROVE  op = "connect" /\ v = u
  <2>1. /\ systemQ # <<>> /\ systemQ' = Tail(systemQ)
        /\ Head(systemQ) = [op |-> op, user |-> v]
    BY <1>3 DEF TakeSystemPacket
  <2>2. mine = Head(systemQ)
    BY <1>1, <2>1, QueueMembers DEF Connecting
  <2>3. QED
    BY <2>1, <2>2
<1>4. ASSUME NEW v \in Users, OnConnect(v) \/ OnDisconnect(v) PROVE FALSE
  <2>1. PICK x \in Events : systemQ' = Append(systemQ, x)
    BY <1>4 DEF OnConnect, OnDisconnect, Events
  <2>2. ToSet(systemQ') = ToSet(systemQ) \cup {x}
    BY <1>1, <2>1, QueueMembers
  <2>3. QED
    BY <2>2 DEF Connecting
<1>5. \/ \E v \in Users : \/ OnConnect(v) \/ OnDisconnect(v)
                          \/ ConnectHandler(v) \/ DisconnectHandler(v)
      \/ systemQ' = systemQ
  <2>1. ASSUME NEW v \in Users, NEW p,
               \/ LoginHandler(v, p) \/ EnterRoomHandler(v, p)
               \/ LeaveRoomHandler(v, p) \/ RoomChatHandler(v, p)
               \/ ConnectByPacket(v, p) \/ DisconnectByPacket(v, p) \/ ResultByPacket(v, p)
        PROVE  systemQ' = systemQ
    <3>1. \E op : TakeFront(v, p, op)
      BY <2>1 DEF LoginHandler, EnterRoomHandler, LeaveRoomHandler, RoomChatHandler,
         ConnectByPacket, DisconnectByPacket, ResultByPacket, TakePacket
    <3>2. QED
      BY <3>1 DEF TakeFront
  <2>2. ASSUME NoUserPacket \/ StrayIndex \/ NoSystemPacket \/ NoTaskRes \/ LoginDBResHandler
        PROVE  systemQ' = systemQ
    BY <2>2 DEF NoUserPacket, StrayIndex, NoSystemPacket, NoTaskRes, LoginDBResHandler
  <2>3. CASE PacketThread
    BY <2>1, <2>2, <2>3 DEF PacketThread
  <2>4. QED
    BY <2>3 DEF Next, RedisThread, Callbacks, vars, OnRecv, PushIndex, GetTaskReq, PushTaskRes
<1>6. QED
  BY <1>2, <1>3, <1>4, <1>5 DEF ConnectHandler, DisconnectHandler

(* Whose a packet is that a handler finds at the front *)
LEMMA FrontOwn ==
    ASSUME TypeOK, OwnInv, NEW u \in Users, NEW p \in AtFront(u), p.req.op # "unknown"
    PROVE  p.conn \in {conns[u], -conns[u]}
<1>1. CASE p = inbox[u][1] /\ p.conn # 0
  <2>1. inbox[u] # <<>> /\ inbox[u] \in Seq(Packets)
    BY FrontTypes
  <2>2. 1 \in DOMAIN inbox[u]
    BY <2>1, EmptySeq, LenProperties
  <2>3. 1 \in Open(inbox[u])
    BY <1>1, <2>2 DEF Open, Blocker
  <2>4. QED
    BY <1>1, <2>3 DEF OwnInv, PacketsOwn
<1>2. QED
  BY <1>1, FrontTypes

LEMMA OwnStep == Settles /\ TypeOK /\ IndexInv /\ OwnInv /\ [Next]_vars => OwnInv'
<1> SUFFICES ASSUME Settles, TypeOK, IndexInv, OwnInv, [Next]_vars PROVE OwnInv'
  OBVIOUS
<1>1. /\ inbox \in [Users -> Seq(Packets)] /\ resQ \in Seq(Results)
      /\ reqQ \in Seq(Tasks) /\ busy \in [RedisThreads -> Seq(Tasks)]
      /\ systemQ \in Seq(Events) /\ conns \in [Users -> Nat]
      /\ user \in [Users -> UserRecs] /\ login \in [Users -> [conn : Int, id : UserIds]]
  BY DEF TypeOK, NetworkOK, QueuesOK, LogicOK, GhostsOK, UserRecs
<1>2. ASSUME NEW u \in Users, OnConnect(u) PROVE OwnInv'
  <2>1. /\ Settled(u)
        /\ conns' = [conns EXCEPT ![u] = @ + 1]
        /\ systemQ' = Append(systemQ, [op |-> "connect", user |-> u])
        /\ inbox' = inbox /\ reqQ' = reqQ /\ busy' = busy /\ resQ' = resQ
        /\ user' = user /\ login' = login
    BY <1>2 DEF OnConnect, logic, redis, ghosts
  <2>2. Open(inbox[u]) = {} /\ \A e \in Asked : e.user # u
    <3>1. \A e \in Asked : e.user # u
      BY <2>1 DEF Settled, Pending, Asked, ToSet
    <3>2. Places(indexQ, u) = {} /\ Hands(pushing, u) = {}
      BY <2>1 DEF Settled, Places, Hands, ToSet
    <3>3. Cardinality(Places(indexQ, u)) = 0 /\ Cardinality(Hands(pushing, u)) = 0
      BY <3>2, FS_EmptySet, Zenon
    <3>4. Cardinality(Open(inbox[u])) = 0
      <4>1. Cardinality(Open(inbox[u])) \in Nat
        BY <1>1, OpenFinite
      <4>2. Cardinality(Open(inbox[u])) <= 0 + 0
        BY <3>3, ReachableIsOpen DEF IndexInv
      <4>3. QED
        BY <4>1, <4>2
    <3>5. QED
      BY <1>1, <3>1, <3>4, OpenFinite, FS_EmptySet
  <2>3. Asked' = Asked
    BY <2>1 DEF Asked
  <2>4. \A v \in Users : v # u => conns'[v] = conns[v]
    BY <1>1, <2>1
  <2>5. PacketsOwn'
    BY <2>1, <2>2, <2>4 DEF OwnInv, PacketsOwn
  <2>6. AskedOwn'
    <3>1. ASSUME NEW e \in Asked PROVE conns'[e.user] = conns[e.user]
      BY <1>1, <2>1, <2>2
    <3>2. QED
      BY <2>3, <3>1 DEF OwnInv, AskedOwn
  <2>7. ToSet(systemQ') = ToSet(systemQ) \cup {[op |-> "connect", user |-> u]}
    <3>1. [op |-> "connect", user |-> u] \in Events
      BY DEF Events
    <3>2. QED
      BY <1>1, <2>1, <3>1, QueueMembers
  <2>8. LoggedInByOwnRequest'
    BY <2>1, <2>4, <2>7 DEF OwnInv, LoggedInByOwnRequest
  <2>9. QED
    BY <2>5, <2>6, <2>8 DEF OwnInv
<1>3. ASSUME conns' = conns PROVE OwnInv'
  <2>1. PacketsOwn'
    <3>1. SUFFICES ASSUME NEW u \in Users, NEW i \in Open(inbox'[u])
                   PROVE  inbox'[u][i].conn = conns[u]
      BY <1>3 DEF PacketsOwn
    <3>2. inbox[u] \in Seq(Packets)
      BY <1>1
    <3>3. ASSUME NEW p \in ClientPackets, Received(u, p) PROVE inbox'[u][i].conn = conns[u]
      <4> DEFINE x == [req |-> p, conn |-> conns[u]]
      <4>1. x \in Packets /\ x.conn = conns[u]
        BY <1>1, ClientsAssumption DEF Packets
      <4> HIDE DEF x
      <4>2. /\ Len(inbox[u]) \in Nat /\ DOMAIN inbox[u] = 1..Len(inbox[u])
            /\ DOMAIN inbox'[u] = 1..(Len(inbox[u]) + 1)
            /\ \A j \in 1..Len(inbox[u]) : inbox'[u][j] = inbox[u][j]
            /\ inbox'[u][Len(inbox[u]) + 1] = x
        BY <3>2, <3>3, <4>1, AppendProperties, LenProperties DEF Received, x
      <4>3. i \in 1..(Len(inbox[u]) + 1) /\ \A j \in 1..i : ~Blocker(inbox'[u][j])
        BY <3>1, <4>2 DEF Open
      <4>4. CASE i \in 1..Len(inbox[u])
        <5>1. i \in Open(inbox[u])
          BY <4>2, <4>3, <4>4 DEF Open
        <5>2. QED
          BY <4>2, <4>4, <5>1 DEF OwnInv, PacketsOwn
      <4>5. CASE i = Len(inbox[u]) + 1
        BY <4>1, <4>2, <4>5
      <4>6. QED
        BY <4>2, <4>3, <4>4, <4>5
    <3>4. ASSUME Removed(u) PROVE inbox'[u][i].conn = conns[u]
      <4>1. /\ Len(inbox[u]) \in Nat \ {0} /\ DOMAIN inbox[u] = 1..Len(inbox[u])
            /\ inbox'[u] = Tail(inbox[u]) /\ DOMAIN inbox'[u] = 1..(Len(inbox[u]) - 1)
            /\ \A j \in 1..(Len(inbox[u]) - 1) : inbox'[u][j] = inbox[u][j + 1]
            /\ ~Blocker(inbox[u][1])
        BY <3>2, <3>4, EmptySeq, HeadTailProperties DEF Removed
      <4>2. i \in 1..(Len(inbox[u]) - 1) /\ \A j \in 1..i : ~Blocker(inbox'[u][j])
        BY <3>1, <4>1 DEF Open
      <4>3. ASSUME NEW j \in 1..(i + 1) PROVE ~Blocker(inbox[u][j])
        <5>1. j = 1 \/ (j - 1 \in 1..i /\ (j - 1) + 1 = j /\ j - 1 \in 1..(Len(inbox[u]) - 1))
          BY <4>1, <4>2
        <5>2. QED
          BY <4>1, <4>2, <5>1
      <4>4. i + 1 \in Open(inbox[u])
        BY <4>1, <4>2, <4>3 DEF Open
      <4>5. QED
        BY <4>1, <4>2, <4>4 DEF OwnInv, PacketsOwn
    <3>5. QED
      BY <3>1, <3>3, <3>4, InboxSteps DEF OwnInv, PacketsOwn, Closed
  <2>2. AskedOwn'
    <3>1. SUFFICES ASSUME NEW e \in Asked' PROVE e.conn \in {conns[e.user], -conns[e.user]}
      BY <1>3 DEF AskedOwn
    <3>2. CASE \E d \in Asked : SameRequest(d, e)
      BY <3>2 DEF SameRequest, OwnInv, AskedOwn
    <3>3. ASSUME NEW u \in Users, NEW p \in AtFront(u), LoginHandler(u, p),
                 e.user = u, e.conn = p.conn
          PROVE  e.conn \in {conns[e.user], -conns[e.user]}
      <4>1. p.req.op # "unknown"
        BY <3>3 DEF LoginHandler, TakePacket, TakeFront
      <4>2. QED
        BY <3>3, <4>1, FrontOwn
    <3>4. QED
      BY <3>2, <3>3, AskedSteps
  <2>3. LoggedInByOwnRequest'
    <3>1. SUFFICES ASSUME NEW u \in Users, user'[u].domain # "NONE", ~Connecting(u)'
                   PROVE  login'[u].conn \in {conns[u], -conns[u]}
      BY <1>3 DEF LoggedInByOwnRequest, Connecting
    <3>2. ~Connecting(u)
      <4>1. ASSUME ConnectHandler(u) PROVE FALSE
        BY <1>1, <3>1, <4>1 DEF ConnectHandler, Blank
      <4>2. QED
        BY <3>1, <4>1, ConnectingEnds
    <3>3. user[u].domain # "NONE" => login[u].conn \in {conns[u], -conns[u]}
      BY <3>2 DEF OwnInv, LoggedInByOwnRequest, Connecting
    <3>4. ASSUME NEW v \in Users, Accepted(v)
          PROVE  login'[u].conn \in {conns[u], -conns[u]}
      <4>1. CASE u = v /\ Answered(v)
        <5>1. Head(resQ) \in Asked
          BY <1>1, <4>1, QueueMembers DEF Answered, Asked
        <5>2. Head(resQ).conn \in {conns[u], -conns[u]}
          BY <4>1, <5>1 DEF OwnInv, AskedOwn, Answered
        <5>3. QED
          BY <1>1, <4>1, <5>2 DEF Answered, Accept
      <4>2. CASE u = v /\ Granted(v)
        <5>1. PICK p \in AtFront(v) : p.req.op = "result" /\ Accept(v, p.conn, NoId)
          BY <4>2 DEF Granted
        <5>2. p.conn \in {conns[u], -conns[u]}
          BY <4>2, <5>1, FrontOwn
        <5>3. QED
          BY <1>1, <4>2, <5>1, <5>2 DEF Accept
      <4>3. CASE u # v
        <5>1. PICK c, i : Accept(v, c, i)
          BY <3>4 DEF Accepted, Answered, Granted
        <5>2. user'[u] = user[u] /\ login'[u] = login[u]
          BY <1>1, <4>3, <5>1 DEF Accept
        <5>3. QED
          BY <3>1, <3>3, <5>2
      <4>4. QED
        BY <3>4, <4>1, <4>2, <4>3 DEF Accepted
    <3>5. ASSUME login' = login, user[u].domain # "NONE"
          PROVE  login'[u].conn \in {conns[u], -conns[u]}
      BY <3>3, <3>5
    <3>6. (login' = login /\ user[u].domain # "NONE") \/ \E v \in Users : Accepted(v)
      <4>1. ASSUME user' = user PROVE user[u].domain # "NONE"
        BY <3>1, <4>1
      <4>2. ASSUME NEW v \in Users, NEW r \in Rooms, Entered(v, r) \/ Left(v, r)
            PROVE  user[u].domain # "NONE"
        BY <1>1, <3>1, <4>2 DEF Entered, Left, UserRecs
      <4>3. ASSUME NEW v \in Users, Renamed(v) PROVE user[u].domain # "NONE"
        BY <1>1, <3>1, <4>3 DEF Renamed, UserRecs
      <4>4. ASSUME NEW v \in Users, Cleared(v) PROVE user[u].domain # "NONE"
        BY <1>1, <3>1, <4>4 DEF Cleared, Blank, UserRecs
      <4>5. QED
        BY <3>1, <4>1, <4>2, <4>3, <4>4, LogicSteps
    <3>7. QED
      BY <3>4, <3>5, <3>6
  <2>4. QED
    BY <2>1, <2>2, <2>3 DEF OwnInv
<1>4. QED
  BY <1>2, <1>3, ConnsChange

(***************************************************************************)
(* If a slot is not reused before the logic and Redis are done with its    *)
(* last connection (Settles), no login outlives its connection: whoever is *)
(* logged in, from the moment its kSYS_USER_CONNECT has been handled, is   *)
(* so by a packet of this connection, or by bytes left over in packet_buf_ *)
(* that this connection has had handled (packet_manager.cpp, LoginHandler, *)
(* LoginDBResHandler).                                                     *)
(***************************************************************************)
THEOREM NobodyInheritsALogin ==
    ASSUME Settles
    PROVE  Spec => []LoggedInByOwnRequest
<1>1. Init => IndexInv /\ OwnInv
  BY IndexInit, OwnInit
<1>2. TypeOK /\ Opened /\ IndexInv /\ OwnInv /\ [Next]_vars => (IndexInv /\ OwnInv)'
  BY IndexStep, OwnStep
<1>3. OwnInv => LoggedInByOwnRequest
  BY DEF OwnInv
<1>4. Spec => [](TypeOK /\ Opened)
  BY ChatTypeCorrect
<1>5. QED
  BY <1>1, <1>2, <1>3, <1>4, PTL DEF Spec

-----------------------------------------------------------------------------
(* The login tasks' way through Redis *)

(* r is the only thread that takes tasks: ChatServer::Start's default.      *)
Only(r) == \A t \in RedisThreads : t = r

(* With one Redis thread the tasks under way are in three places, in order *)
(* of their numbers: answers first, then the task at work, then the rest.  *)
OrderInv(r) ==
    /\ Len(busy[r]) <= 1
    /\ pushed - answered = Len(resQ) + Len(busy[r]) + Len(reqQ)
    /\ \A i \in 1..Len(resQ) : resQ[i].no = answered + i
    /\ \A i \in 1..Len(busy[r]) : busy[r][i].no = answered + Len(resQ) + i
    /\ \A i \in 1..Len(reqQ) : reqQ[i].no = answered + Len(resQ) + Len(busy[r]) + i

LEMMA FlattenOne == ASSUME NEW x PROVE FlattenSeq(SetToSeq({x})) = x
<1> DEFINE one == [i \in 1..1 |-> x]
<1>1. Cardinality({x}) = 1
  BY FS_Singleton
<1>2. SetToSeq({x}) = CHOOSE f \in [1..1 -> {x}] : IsInjective(f)
  BY <1>1, Zenon DEF SetToSeq
<1>3. one \in [1..1 -> {x}] /\ IsInjective(one)
  BY DEF IsInjective
<1>4. \A f \in [1..1 -> {x}] : f = one
  OBVIOUS
<1>5. SetToSeq({x}) = one
  BY <1>2, <1>3, <1>4, Zenon
<1>6. Len(one) = 1 /\ one[1] = x
  OBVIOUS
<1> HIDE DEF one
<1> DEFINE Round(g, i) == IF i = 1 THEN one[i] ELSE g[i - 1] \o one[i]
           g == CHOOSE f : f = [i \in 1..Len(one) |-> Round(f, i)]
<1>7. FlattenSeq(one) = g[1]
  <2>1. Len(one) # 0
    BY <1>6
  <2>2. FlattenSeq(one) = g[Len(one)]
    BY <2>1, Zenon DEF FlattenSeq
  <2>3. QED
    BY <1>6, <2>2
<1>8. g = [i \in 1..Len(one) |-> Round(g, i)]
  <2> DEFINE h == [i \in 1..Len(one) |-> x]
  <2>1. h = [i \in 1..Len(one) |-> Round(h, i)]
    BY <1>6
  <2>2. QED
    BY <2>1, Zenon
<1> HIDE DEF g
<1>9. g[1] = x
  BY <1>6, <1>8
<1>10. QED
  BY <1>5, <1>7, <1>9

(* w is a, then b, then c. *)
Joined(w, a, b, c) ==
    /\ DOMAIN w = 1..(Len(a) + Len(b) + Len(c))
    /\ Len(w) = Len(a) + Len(b) + Len(c)
    /\ \A i \in 1..Len(a) : w[i] = a[i]
    /\ \A i \in 1..Len(b) : w[Len(a) + i] = b[i]
    /\ \A i \in 1..Len(c) : w[Len(a) + Len(b) + i] = c[i]

LEMMA ConcatThree ==
    ASSUME NEW S, NEW a \in Seq(S), NEW b \in Seq(S), NEW c \in Seq(S)
    PROVE  Joined(a \o b \o c, a, b, c)
<1> DEFINE ab == a \o b
           abc == ab \o c
<1>1. Len(a) \in Nat /\ Len(b) \in Nat /\ Len(c) \in Nat
  BY LenProperties
<1>2. /\ ab \in Seq(S) /\ Len(ab) = Len(a) + Len(b)
      /\ \A i \in 1..(Len(a) + Len(b)) :
            ab[i] = IF i <= Len(a) THEN a[i] ELSE b[i - Len(a)]
  BY ConcatProperties
<1> HIDE DEF ab
<1>3. /\ abc \in Seq(S) /\ Len(abc) = Len(ab) + Len(c)
      /\ \A i \in 1..(Len(ab) + Len(c)) :
            abc[i] = IF i <= Len(ab) THEN ab[i] ELSE c[i - Len(ab)]
  <2>1. ab \in Seq(S)
    BY <1>2
  <2>2. QED
    BY <2>1, ConcatProperties, Zenon
<1>4. DOMAIN abc = 1..Len(abc)
  BY <1>3, LenProperties
<1> HIDE DEF abc
<1>5. \A i \in 1..Len(a) : abc[i] = a[i]
  BY <1>1, <1>2, <1>3
<1>6. \A i \in 1..Len(b) : abc[Len(a) + i] = b[i]
  BY <1>1, <1>2, <1>3
<1>7. ASSUME NEW i \in 1..Len(c) PROVE abc[Len(a) + Len(b) + i] = c[i]
  <2> DEFINE k == Len(a) + Len(b) + i
  <2>1. k \in 1..(Len(ab) + Len(c)) /\ ~(k <= Len(ab)) /\ k - Len(ab) = i
    BY <1>1, <1>2
  <2> HIDE DEF k
  <2>2. abc[k] = c[i]
    BY <1>3, <2>1
  <2>3. QED
    BY <2>2 DEF k
<1>8. abc = a \o b \o c
  BY DEF abc, ab
<1>9. QED
  BY <1>2, <1>3, <1>4, <1>5, <1>6, <1>7, <1>8 DEF Joined

LEMMA JustOne == \A n \in Nat : n # 0 /\ n <= 1 => n = 1
OBVIOUS

LEMMA OrderSuffices ==
    ASSUME TypeOK, NEW r \in RedisThreads, Only(r), OrderInv(r)
    PROVE  LoginsAnsweredInOrder
<1> DEFINE S == Tasks \cup Results
           W == resQ \o busy[r] \o reqQ
<1>1. UnderWay = W
  <2>1. {busy[t] : t \in RedisThreads} = {busy[r]}
    BY DEF Only
  <2>2. QED
    BY <2>1, FlattenOne, Zenon DEF UnderWay
<1>2. resQ \in Seq(S) /\ busy[r] \in Seq(S) /\ reqQ \in Seq(S)
  <2>1. Tasks \subseteq S /\ Results \subseteq S
    OBVIOUS
  <2> HIDE DEF S
  <2>2. QED
    BY <2>1, SeqMonotonic DEF TypeOK, QueuesOK
<1> HIDE DEF S
<1>3. /\ DOMAIN W = 1..(Len(resQ) + Len(busy[r]) + Len(reqQ))
      /\ Len(W) = Len(resQ) + Len(busy[r]) + Len(reqQ)
      /\ \A i \in 1..Len(resQ) : W[i] = resQ[i]
      /\ \A i \in 1..Len(busy[r]) : W[Len(resQ) + i] = busy[r][i]
      /\ \A i \in 1..Len(reqQ) : W[Len(resQ) + Len(busy[r]) + i] = reqQ[i]
  <2>1. Joined(W, resQ, busy[r], reqQ)
    BY <1>2, ConcatThree, Zenon
  <2> HIDE DEF W
  <2>2. QED
    BY <2>1 DEF Joined
<1> HIDE DEF W
<1>4. /\ Len(resQ) \in Nat /\ Len(busy[r]) \in Nat /\ Len(reqQ) \in Nat
      /\ answered \in Nat
  BY <1>2, LenProperties DEF TypeOK, GhostsOK
<1>5. ASSUME NEW i \in DOMAIN W PROVE W[i].no = answered + i
  <2>1. CASE i <= Len(resQ)
    BY <1>3, <1>4, <2>1 DEF OrderInv
  <2>2. CASE i > Len(resQ) /\ i <= Len(resQ) + Len(busy[r])
    <3>1. PICK k \in 1..Len(busy[r]) : i = Len(resQ) + k
      <4>1. i - Len(resQ) \in 1..Len(busy[r]) /\ i = Len(resQ) + (i - Len(resQ))
        BY <1>3, <1>4, <2>2
      <4>2. QED
        BY <4>1
    <3>2. W[i].no = answered + Len(resQ) + k
      BY <1>3, <3>1 DEF OrderInv
    <3>3. QED
      BY <1>4, <3>1, <3>2
  <2>3. CASE i > Len(resQ) + Len(busy[r])
    <3>1. PICK k \in 1..Len(reqQ) : i = Len(resQ) + Len(busy[r]) + k
      <4>1. /\ i - (Len(resQ) + Len(busy[r])) \in 1..Len(reqQ)
            /\ i = Len(resQ) + Len(busy[r]) + (i - (Len(resQ) + Len(busy[r])))
        BY <1>3, <1>4, <2>3, SMTT(30)
      <4>2. QED
        BY <4>1, SMTT(30)
    <3>2. W[i].no = answered + Len(resQ) + Len(busy[r]) + k
      BY <1>3, <3>1 DEF OrderInv
    <3>3. k \in Nat /\ answered \in Nat /\ Len(resQ) \in Nat /\ Len(busy[r]) \in Nat
      BY <1>4
    <3>4. answered + Len(resQ) + Len(busy[r]) + k
             = answered + (Len(resQ) + Len(busy[r]) + k)
      <4> DEFINE m == Len(resQ)
                 n == Len(busy[r])
      <4>1. m \in Nat /\ n \in Nat
        BY <3>3
      <4> HIDE DEF m, n
      <4>2. answered + m + n + k = answered + (m + n + k)
        BY <3>3, <4>1
      <4>3. QED
        BY <4>2 DEF m, n
    <3>5. QED
      BY <3>1, <3>2, <3>4
  <2>4. QED
    BY <1>3, <1>4, <2>1, <2>2, <2>3
<1>6. Len(W) = pushed - answered
  BY <1>3 DEF OrderInv
<1>7. QED
  BY <1>1, <1>5, <1>6 DEF LoginsAnsweredInOrder

LEMMA OrderInit == ASSUME NEW r \in RedisThreads PROVE Init => OrderInv(r)
BY DEF Init, OrderInv

LEMMA OrderStep ==
    ASSUME NEW r \in RedisThreads, Only(r)
    PROVE  TypeOK /\ OrderInv(r) /\ [Next]_vars => OrderInv(r)'
<1> SUFFICES ASSUME TypeOK, OrderInv(r), [Next]_vars PROVE OrderInv(r)'
  OBVIOUS
<1>1. /\ reqQ \in Seq(Tasks) /\ resQ \in Seq(Results)
      /\ busy \in [RedisThreads -> Seq(Tasks)] /\ busy[r] \in Seq(Tasks)
      /\ Len(reqQ) \in Nat /\ Len(resQ) \in Nat /\ Len(busy[r]) \in Nat
      /\ pushed \in Nat /\ answered \in Nat
  BY DEF TypeOK, QueuesOK, GhostsOK
<1>2. ASSUME NEW u \in Users, NEW p, LoginHandler(u, p) PROVE OrderInv(r)'
  <2> DEFINE task == Task(u, p)
  <2>1. task \in Tasks /\ task.no = pushed + 1
    <3>1. p.req.id \in UserIds
      BY <1>2, FrontTaken, RequestTypes DEF LoginHandler, TakePacket
    <3>2. p.conn \in Int
      BY <1>2, FrontTaken DEF LoginHandler, TakePacket
    <3>3. QED
      BY <1>1, <3>1, <3>2 DEF Task, Tasks
  <2>2. /\ \/ reqQ' = Append(reqQ, task) /\ pushed' = pushed + 1
           \/ reqQ' = reqQ /\ pushed' = pushed
        /\ busy' = busy /\ resQ' = resQ /\ answered' = answered
    BY <1>2, Zenon DEF LoginHandler
  <2> HIDE DEF task
  <2>3. CASE reqQ' = Append(reqQ, task) /\ pushed' = pushed + 1
    <3>1. /\ Len(reqQ') = Len(reqQ) + 1
          /\ \A i \in 1..Len(reqQ) : reqQ'[i] = reqQ[i]
          /\ reqQ'[Len(reqQ) + 1] = task
      BY <1>1, <2>1, <2>3, AppendProperties
    <3>2. QED
      BY <1>1, <2>1, <2>2, <2>3, <3>1 DEF OrderInv
  <2>4. CASE reqQ' = reqQ /\ pushed' = pushed
    BY <2>2, <2>4 DEF OrderInv
  <2>5. QED
    BY <2>2, <2>3, <2>4
<1>3. ASSUME LoginDBResHandler PROVE OrderInv(r)'
  <2>1. /\ resQ # <<>> /\ resQ' = Tail(resQ) /\ answered' = answered + 1
        /\ UNCHANGED <<reqQ, busy, pushed>>
    BY <1>3 DEF LoginDBResHandler
  <2>2. /\ Len(resQ') = Len(resQ) - 1
        /\ \A i \in 1..Len(resQ') : resQ'[i] = resQ[i + 1] /\ i + 1 \in 1..Len(resQ)
    BY <1>1, <2>1, HeadTailProperties
  <2>3. QED
    BY <1>1, <2>1, <2>2 DEF OrderInv
<1>4. ASSUME GetTaskReq(r) PROVE OrderInv(r)'
  <2>1. /\ busy[r] = <<>> /\ reqQ # <<>> /\ reqQ' = Tail(reqQ)
        /\ busy'[r] = <<Head(reqQ)>>
        /\ resQ' = resQ /\ pushed' = pushed /\ answered' = answered
    BY <1>1, <1>4 DEF GetTaskReq, ghosts
  <2>2. /\ Len(reqQ) \in Nat \ {0} /\ Head(reqQ) = reqQ[1]
        /\ Len(reqQ') = Len(reqQ) - 1
        /\ \A i \in 1..Len(reqQ') : reqQ'[i] = reqQ[i + 1] /\ i + 1 \in 1..Len(reqQ)
    BY <1>1, <2>1, HeadTailProperties, EmptySeq
  <2>3. Len(busy[r]) = 0 /\ Len(busy'[r]) = 1 /\ busy'[r][1] = Head(reqQ)
    BY <2>1
  <2>4. QED
    BY <1>1, <2>1, <2>2, <2>3 DEF OrderInv
<1>5. ASSUME PushTaskRes(r) PROVE OrderInv(r)'
  <2>1. Head(busy[r]) \in Tasks /\ busy[r] # <<>>
    BY <1>1, <1>5, QueueTypes DEF PushTaskRes
  <2>2. PICK x \in Results : resQ' = Append(resQ, x) /\ x.no = Head(busy[r]).no
    <3> DEFINE task == Head(busy[r])
    <3>1. PICK ok \in BOOLEAN :
             resQ' = Append(resQ, [user |-> task.user, id |-> task.id, ok |-> ok,
                                   conn |-> task.conn, no |-> task.no])
      BY <1>5 DEF PushTaskRes
    <3>2. QED
      BY <2>1, <3>1 DEF Results, Tasks
  <2>3. /\ Len(resQ') = Len(resQ) + 1
        /\ \A i \in 1..Len(resQ) : resQ'[i] = resQ[i]
        /\ resQ'[Len(resQ) + 1] = x
    BY <1>1, <2>2, AppendProperties
  <2>4. /\ busy'[r] = <<>> /\ Len(busy'[r]) = 0
        /\ reqQ' = reqQ /\ pushed' = pushed /\ answered' = answered
    BY <1>1, <1>5 DEF PushTaskRes, ghosts
  <2>5. Len(busy[r]) = 1 /\ Head(busy[r]) = busy[r][1]
    <3>1. Len(busy[r]) # 0
      BY <1>1, <2>1, EmptySeq
    <3>2. Len(busy[r]) <= 1
      BY DEF OrderInv
    <3>3. Len(busy[r]) \in Nat
      BY <1>1
    <3>4. Len(busy[r]) = 1
      BY <3>1, <3>2, <3>3, JustOne, Zenon
    <3>5. QED
      BY <3>4
  <2>6. x.no = answered + Len(resQ) + 1
    BY <1>1, <2>2, <2>5 DEF OrderInv
  <2>7. pushed' - answered' = Len(resQ') + Len(busy'[r]) + Len(reqQ')
    BY <1>1, <2>3, <2>4, <2>5 DEF OrderInv
  <2>8. \A i \in 1..Len(resQ') : resQ'[i].no = answered' + i
    <3>1. \A i \in 1..Len(resQ) : resQ'[i].no = answered + i
      BY <2>3 DEF OrderInv
    <3>2. resQ'[Len(resQ) + 1].no = answered + (Len(resQ) + 1)
      BY <1>1, <2>3, <2>6
    <3>3. \A i \in 1..Len(resQ') : i \in 1..Len(resQ) \/ i = Len(resQ) + 1
      BY <1>1, <2>3
    <3>4. QED
      BY <2>4, <3>1, <3>2, <3>3
  <2>9. \A i \in 1..Len(reqQ') : reqQ'[i].no = answered' + Len(resQ') + Len(busy'[r]) + i
    BY <1>1, <2>3, <2>4, <2>5 DEF OrderInv
  <2>10. QED
    BY <2>4, <2>7, <2>8, <2>9 DEF OrderInv
<1>6. ASSUME UNCHANGED <<reqQ, busy, resQ, pushed, answered>> PROVE OrderInv(r)'
  BY <1>6 DEF OrderInv
<1>7. \/ \E u \in Users : \E p \in AtFront(u) : LoginHandler(u, p)
      \/ LoginDBResHandler
      \/ GetTaskReq(r) \/ PushTaskRes(r)
      \/ UNCHANGED <<reqQ, busy, resQ, pushed, answered>>
  <2> DEFINE same == UNCHANGED <<reqQ, busy, resQ, pushed, answered>>
  <2>1. ASSUME NEW u \in Users, NEW p,
               \/ EnterRoomHandler(u, p) \/ LeaveRoomHandler(u, p) \/ RoomChatHandler(u, p)
               \/ ConnectByPacket(u, p) \/ DisconnectByPacket(u, p) \/ ResultByPacket(u, p)
        PROVE  same
    BY <2>1 DEF EnterRoomHandler, LeaveRoomHandler, RoomChatHandler, ConnectByPacket,
       DisconnectByPacket, ResultByPacket, redis, ghosts
  <2>2. ASSUME NEW u \in Users, ConnectHandler(u) \/ DisconnectHandler(u) PROVE same
    BY <2>2 DEF ConnectHandler, DisconnectHandler, TakeSystemPacket, redis, ghosts
  <2>3. ASSUME NoUserPacket \/ StrayIndex \/ NoSystemPacket \/ NoTaskRes PROVE same
    BY <2>3 DEF NoUserPacket, StrayIndex, NoSystemPacket, NoTaskRes, redis, ghosts
  <2>4. ASSUME Callbacks \/ UNCHANGED vars PROVE same
    BY <2>4 DEF Callbacks, OnConnect, OnDisconnect, OnRecv, PushIndex, vars, redis, ghosts
  <2> HIDE DEF same
  <2>5. ASSUME PacketThread
        PROVE  (\E u \in Users : \E p \in AtFront(u) : LoginHandler(u, p)) \/ LoginDBResHandler \/ same
    BY <2>1, <2>2, <2>3, <2>5, Zenon DEF PacketThread
  <2>6. QED
    BY <2>4, <2>5 DEF Next, RedisThread, Only, same
<1>8. QED
  BY <1>2, <1>3, <1>4, <1>5, <1>6, <1>7

(***************************************************************************)
(* With one Redis thread, as ChatServer::Start has it, the logins are      *)
(* answered in the order in which they were asked for, each of them once:  *)
(* none gets lost between the two queues (redis_manager.cpp).              *)
(***************************************************************************)
THEOREM EveryLoginOnceInOrder ==
    ASSUME NEW r \in RedisThreads, Only(r)
    PROVE  Spec => []LoginsAnsweredInOrder
<1>1. Init => OrderInv(r)
  BY OrderInit
<1>2. TypeOK /\ OrderInv(r) /\ [Next]_vars => OrderInv(r)'
  BY OrderStep
<1>3. TypeOK /\ OrderInv(r) => LoginsAnsweredInOrder
  BY OrderSuffices
<1>4. Spec => [](TypeOK /\ Opened)
  BY ChatTypeCorrect
<1>5. QED
  BY <1>1, <1>2, <1>3, <1>4, PTL DEF Spec

=============================================================================
