----------------------------- MODULE Practice06 -----------------------------
(***************************************************************************)
(* Practice06: no sender thread.  A session has a queue of send structures *)
(* (ses[s].out, what each of them carries); the front one is being sent,   *)
(* and its completion pops it and sends the next, all under                *)
(* send_queue_lock_.  ClearSession deletes every structure in the queue.   *)
(***************************************************************************)
EXTENDS Practice01, Practice04, Practice05

StartNetwork06     == StartNetwork04
NetworkTerminate06 == NetworkTerminate04
EchoServer06 == \/ CreatePacketProcessThread04 \/ StartNetwork06
                \/ NetworkTerminate06 \/ DestroyPacketProcessThread04
Main06 == EchoServer06

(* What BindSend returns is not looked at: a send that failed stays in     *)
(* front, and nothing pops it until the session is cleared.                *)
BindSend06(s, queue, ok) == WSASend(s, Head(queue), ok)

EnqueueSendData06(s, ms) ==
  LET queue == Append(ses[s].out, ms) IN
    /\ ses' = [ses EXCEPT ![s].out = queue]
    /\ IF Len(queue) = 1 THEN \E ok \in BOOLEAN : BindSend06(s, queue, ok) ELSE UNCHANGED conn

PacketProcessThread06 ==
  \/ At("packet", "take") /\ PacketProcessThread04
  \/ /\ At("packet", "send")
     /\ EnqueueSendData06(pc["packet"].s, pc["packet"].ms) /\ Rest("packet")
     /\ UNCHANGED <<accepts, port, deque, hist, on>>

AccepterThread06 == AccepterThread05

(* The completion pops whatever is in front.                               *)
SendCompleted06(w) ==
  LET s == pc[w].s  rest == Tail(ses[s].out) IN
    /\ At(w, "got") /\ pc[w].op = "send" /\ ses[s].out # <<>>
    /\ ses' = [ses EXCEPT ![s].out = rest]
    /\ IF rest # <<>> THEN \E ok \in BOOLEAN : BindSend06(s, rest, ok) ELSE UNCHANGED conn
    /\ Rest(w) /\ UNCHANGED <<accepts, port, deque, hist, on>>

DispatchOverlapped06(w) ==
  \/ pc[w].op # "send" /\ DispatchOverlapped04(w)
  \/ SendCompleted06(w)

CloseSocket06(w) == CloseSocket05(w)

(* A structure the kernel or a worker still uses is deleted all the same.  *)
InUse06(w, s) ==
  \/ \E c \in Conns : \E i \in DOMAIN conn[c].sends : conn[c].sends[i].s = s
  \/ \E i \in DOMAIN port : port[i].s = s /\ port[i].op = "send"
  \/ \E u \in Workers \ {w} : pc[u].s = s /\ pc[u].op = "send"

ClearSession06(w) ==
  /\ At(w, "clear")
  /\ ses' = [ses EXCEPT ![pc[w].s].sock = None, ![pc[w].s].out = <<>>]
  /\ MarkIf(ses[pc[w].s].out # <<>> /\ InUse06(w, pc[w].s), "freed")
  /\ Rest(w) /\ UNCHANGED <<net, deque, on>>

Worker06(w) == \/ WorkerThread01(w) \/ DispatchOverlapped06(w) \/ CloseSocket06(w) \/ ClearSession06(w)
               \/ PostToken(w, "repost", "ended")

Thread06(t) == \/ t = "main" /\ Main06
               \/ t = "accepter" /\ AccepterThread06
               \/ t = "packet" /\ PacketProcessThread06
               \/ t \in Workers /\ Worker06(t)

=============================================================================
