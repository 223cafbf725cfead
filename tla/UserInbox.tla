----------------------------- MODULE UserInbox -----------------------------
(***************************************************************************)
(* How the chat server (Practice08) finds packets in what it receives: a   *)
(* worker stores the bytes of each receive in the user's packet_buf_ and   *)
(* then pushes the user's index; for every index the packet thread looks   *)
(* for one packet.  The ring is shared without a lock, and a step is one   *)
(* access to it (the stores of a char array keep the compiler from moving  *)
(* the accesses to rear_ across them).                                     *)
(*                                                                         *)
(* A packet of the client is a request with a handler or one with an       *)
(* unknown id, and its header counts itself.  A handler casts a pointer    *)
(* into the ring to the struct of its request and reads all of that,       *)
(* however short the packet is.                                            *)
(*                                                                         *)
(* A byte is its place in the client's stream; Old is what an earlier      *)
(* client left in the array, Beyond what lies behind the array.            *)
(***************************************************************************)
EXTENDS RingBuffer, Functions, SequencesExt

CONSTANTS
  Header,      \* sizeof(PACKET_HEADER)
  Structs,     \* the sizes of the structs that the handlers read
  MaxLen,      \* the longest packet (bounds the model)
  MaxBytes,    \* the client's bytes (bounds the model)
  MaxRecv      \* the size of recv_buf_

ASSUME InboxConstants ==
  /\ Header \in Nat \ {0} /\ MaxLen \in Nat /\ Header <= MaxLen
  /\ Structs \subseteq Nat \ {0}
  /\ MaxBytes \in Nat /\ MaxRecv \in Nat \ {0}
  /\ 0..MaxBytes \subseteq Bytes

Old    == 0
Beyond == -1
None   == 0    \* the struct of an id without a handler

VARIABLES
  packets,   \* what the client sends: [len, struct], the header's length and its id's struct
  whole,     \* every receive returns exactly one packet (never changes)
  received,  \* bytes of the stream received so far
  ring,      \* packet_buf_
  worker,    \* the worker that serves the session's receives: [at, data, rear]
  thread,    \* the packet thread: [at, rear, len, struct]
  indices,   \* how often the user's index is in incoming_packet_user_index_queue_
  connect,   \* kSYS_USER_CONNECT is in system_packet_queue_
  handled,   \* history: what each handler read: [own, past], past the packet's end
  upset      \* history: "dropped", "cleared" (with bytes in it), "raced", "reloaded"

stream == <<packets, whole>>
vars   == <<stream, received, ring, worker, thread, indices, connect, handled, upset>>

(* The places in the stream of the p-th packet's last and first byte.      *)
Ends[p \in 0..Len(packets)] == IF p = 0 THEN 0 ELSE Ends[p - 1] + packets[p].len
End(p)   == Ends[p]
Start(p) == End(p - 1) + 1
Numbers(a, b) == [k \in 1..(b - a + 1) |-> a + k - 1]

Idle(at) == [at |-> at, data |-> <<>>, rear |-> 0]
Loop(at) == [at |-> at, rear |-> 0, len |-> 0, struct |-> None]

(* An earlier client leaves the ring empty, anywhere.                      *)
Init ==
  /\ packets \in SeqOf([len : Header..MaxLen, struct : Structs \cup {None}], MaxBytes \div Header) \ {<<>>}
  /\ End(Len(packets)) <= MaxBytes
  /\ whole \in BOOLEAN
  /\ received = 0
  /\ \E i \in Index : ring = [front |-> i, rear |-> i, buf |-> [j \in Index |-> Old]]
  /\ worker = Idle("recv") /\ thread = Loop("packet")
  /\ indices = 0 /\ connect = TRUE
  /\ handled = <<>> /\ upset = {}

-----------------------------------------------------------------------------
(* The worker: OnRecv, EnqueuePacketData, push.                            *)

Recv ==
  /\ worker.at = "recv" /\ received < End(Len(packets))
  /\ \E n \in 1..MaxRecv :
       /\ received + n <= End(Len(packets))
       /\ whole => \E p \in DOMAIN packets : received + 1 = Start(p) /\ received + n = End(p)
       /\ worker' = [Idle("store") EXCEPT !.data = Numbers(received + 1, received + n)]
       /\ received' = received + n
  /\ UNCHANGED <<stream, ring, thread, indices, connect, handled, upset>>

(* The loop of Enqueue: what does not fit is dropped, and the result that  *)
(* tells so is not looked at.                                              *)
Enqueue1 ==
  \/ /\ worker.at = "store" /\ (ring.rear + 1) % Size = ring.front
     /\ worker' = Idle("push") /\ upset' = upset \cup {"dropped"} /\ UNCHANGED ring
  \/ /\ worker.at = "store" /\ (ring.rear + 1) % Size # ring.front
     /\ ring' = [ring EXCEPT !.buf[ring.rear] = Head(worker.data)]
     /\ worker' = [worker EXCEPT !.at = "load", !.data = Tail(@)] /\ UNCHANGED upset
  \/ /\ worker.at = "load"
     /\ worker' = [worker EXCEPT !.at = "rear", !.rear = ring.rear] /\ UNCHANGED <<ring, upset>>
  \/ /\ worker.at = "rear"
     /\ ring' = [ring EXCEPT !.rear = (worker.rear + 1) % Size]
     /\ worker' = [worker EXCEPT !.at = IF worker.data = <<>> THEN "push" ELSE "store"]
     /\ UNCHANGED upset
EnqueuePacketData == Enqueue1 /\ UNCHANGED <<stream, received, thread, indices, connect, handled>>

(* Mutation of EnqueuePacket: no index is pushed. *)
EnqueueQuietly ==
  /\ worker.at = "push" /\ worker' = Idle("recv")
  /\ UNCHANGED <<stream, received, ring, thread, indices, connect, handled, upset>>

EnqueuePacket ==
  /\ worker.at = "push"
  /\ indices' = indices + 1 /\ worker' = Idle("recv")
  /\ UNCHANGED <<stream, received, ring, thread, connect, handled, upset>>

-----------------------------------------------------------------------------
(* The packet thread: one index, then one system packet, and again.        *)

(* What the bytes of a header say; any that are no header may say anything. *)
Headers(bytes) ==
  LET fits == {p \in DOMAIN packets : bytes = Numbers(Start(p), Start(p) + Header - 1)}
  IN IF fits = {} THEN [len : 0..MaxLen, struct : Structs \cup {None}] ELSE {packets[p] : p \in fits}

DequeuePacket ==
  /\ thread.at = "packet"
  /\ IF indices > 0 /\ Len(Peek(ring, Header)) = Header
     THEN \E h \in Headers(Peek(ring, Header)) :
            thread' = [at |-> "size", rear |-> ring.rear, len |-> h.len, struct |-> h.struct]
     ELSE thread' = Loop("system")
  /\ indices' = IF indices > 0 THEN indices - 1 ELSE 0
  /\ UNCHANGED <<stream, received, ring, worker, connect, handled, upset>>

(* GetSizeInUse compares with one value of rear_ and computes with another, *)
(* unless the compiler kept the first; a negative size is too small.       *)
SizeInUse(compared, used) ==
  IF ring.front > compared THEN Size - (ring.front - used) ELSE used - ring.front

GetPacketData ==
  /\ thread.at = "size"
  /\ \E rear \in {thread.rear, ring.rear} :
       /\ thread' = IF SizeInUse(thread.rear, rear) >= thread.len
                    THEN [thread EXCEPT !.at = "handle"] ELSE Loop("system")
       /\ upset' = IF rear # thread.rear THEN upset \cup {"reloaded"} ELSE upset
  /\ UNCHANGED <<stream, received, ring, worker, indices, connect, handled>>

(* A handler is given a pointer into the array, and does not wrap.         *)
FromFront(n) ==
  [k \in 1..n |-> IF ring.front + k - 1 < Size THEN ring.buf[ring.front + k - 1] ELSE Beyond]

Read ==
  LET n == Lesser(thread.len, thread.struct)
  IN [own |-> FromFront(n), past |-> SubSeq(FromFront(thread.struct), n + 1, thread.struct)]

(* Mutation of ProcessPacket: the packet is not removed. *)
ProcessOnly ==
  /\ thread.at = "handle"
  /\ handled' = IF thread.struct # None THEN Append(handled, Read) ELSE handled
  /\ thread' = Loop("system")
  /\ UNCHANGED <<stream, received, ring, worker, indices, connect, upset>>

(* A packet with an unknown id is not removed.                             *)
ProcessPacket ==
  /\ thread.at = "handle"
  /\ handled' = IF thread.struct # None THEN Append(handled, Read) ELSE handled
  /\ thread' = IF thread.struct # None THEN [thread EXCEPT !.at = "complete"] ELSE Loop("system")
  /\ UNCHANGED <<stream, received, ring, worker, indices, connect, upset>>

(* Mutation of CompleteProcess: the header stays. *)
CompletePayload ==
  /\ thread.at = "complete"
  /\ ring' = MoveFront(ring, thread.len - Header) /\ thread' = Loop("system")
  /\ UNCHANGED <<stream, received, worker, indices, connect, handled, upset>>

CompleteProcess ==
  /\ thread.at = "complete"
  /\ ring' = MoveFront(ring, thread.len) /\ thread' = Loop("system")
  /\ UNCHANGED <<stream, received, worker, indices, connect, handled, upset>>

(* ConnectHandler clears the ring: front_, then rear_.                     *)
Clear ==
  \/ /\ thread.at = "system" /\ ~connect
     /\ thread' = Loop("packet") /\ UNCHANGED <<ring, connect, upset>>
  \/ /\ thread.at = "system" /\ connect
     /\ connect' = FALSE /\ thread' = Loop("clear")
     /\ upset' = upset \cup (IF worker.at \in {"store", "load", "rear"} THEN {"raced"} ELSE {})
                       \cup (IF received > 0 THEN {"cleared"} ELSE {})
     /\ ring' = [ring EXCEPT !.front = 0]
  \/ /\ thread.at = "clear"
     /\ ring' = [ring EXCEPT !.rear = 0] /\ thread' = Loop("packet")
     /\ upset' = upset \cup (IF worker.at \in {"store", "load", "rear"} THEN {"raced"} ELSE {})
                       \cup (IF received > 0 THEN {"cleared"} ELSE {})
     /\ UNCHANGED connect
ConnectHandler == Clear /\ UNCHANGED <<stream, received, worker, indices, handled>>

Worker == Recv \/ EnqueuePacketData \/ EnqueuePacket
PacketThread == DequeuePacket \/ GetPacketData \/ ProcessPacket \/ CompleteProcess \/ ConnectHandler
Next == Worker \/ PacketThread

Spec == Init /\ [][Next]_vars /\ WF_vars(Worker) /\ WF_vars(PacketThread)

-----------------------------------------------------------------------------
(* The i-th handler reads the client's i-th packet, as much of it as its   *)
(* struct holds, but for the part that lies at the beginning of the array, *)
(* while nothing was dropped or cleared (packet_manager.cpp:63,            *)
(* user.cpp:51).                                                           *)
HandledInOrder ==
  upset \subseteq {"reloaded"} => Len(handled) <= Len(packets) /\ \A i \in DOMAIN handled :
    LET own == handled[i].own IN
    /\ Len(own) = Lesser(packets[i].len, packets[i].struct)
    /\ Len(own) + Len(handled[i].past) = packets[i].struct
    /\ \A k \in DOMAIN own : own[k] \in {Start(i) + k - 1, Beyond}

(* Whatever is dropped or cleared, unless the ring is cleared while a      *)
(* worker fills it, what the handlers read within their packets are bytes  *)
(* of this client only, each at most once, and in the order of the stream  *)
(* (user.cpp:41).  Nothing is said of what they read past a short packet.  *)
Before(i, k, j, l) == i < j \/ (i = j /\ k < l)
NoByteTwice ==
  "raced" \notin upset =>
    \A i, j \in DOMAIN handled : \A k \in DOMAIN handled[i].own, l \in DOMAIN handled[j].own :
      handled[i].own[k] # Beyond /\ handled[j].own[l] # Beyond =>
        handled[i].own[k] # Old /\ (Before(i, k, j, l) => handled[i].own[k] < handled[j].own[l])

(* A client whose every packet comes in a receive of its own is answered   *)
(* without sending another one, unless GetSizeInUse took rear_ for two      *)
(* values (ring_buffer.cpp:33).                                            *)
Quiet == indices = 0 /\ worker.at = "recv" /\ thread.at = "packet"
NothingWaits ==
  Quiet /\ whole /\ upset = {} /\ (\A p \in DOMAIN packets : packets[p].struct # None)
    => ring.front = ring.rear

=============================================================================
