----------------------------- MODULE Practice04 -----------------------------
(***************************************************************************)
(* Practice04: the workers queue what they receive, a packet thread sends  *)
(* it back.  Every send has an overlapped structure and a buffer of its    *)
(* own, so nothing of a pending send is ever written over.                 *)
(***************************************************************************)
EXTENDS Practice01, Practice03R

CreatePacketProcessThread04 ==
  Raise({"server"}, "init", "packets") \/ Start({"packet"}, "packets", "socket")
DestroyPacketProcessThread04 ==
  Lower({"server"}, "close port", "join packet") \/ Join({"packet"}, "join packet", "done")

StartNetwork04     == StartNetwork03R
NetworkTerminate04 == NetworkTerminate03R
EchoServer04 == \/ CreatePacketProcessThread04 \/ StartNetwork04
                \/ NetworkTerminate04 \/ DestroyPacketProcessThread04
Main04 == EchoServer04

SendMsg04(s, ms, ok) == WSASend(s, ms, ok)

(* Mutation of EnqueuePacket04: one packet at a time. *)
EnqueueOne04(s, ms) == deque' = IF deque = <<>> THEN <<[s |-> s, ms |-> ms]>> ELSE deque

EnqueuePacket04(s, ms) == deque' = Append(deque, [s |-> s, ms |-> ms])

(* Mutation of DequePacket04: the youngest packet is taken. *)
DequeYoungest04 == deque[Len(deque)]

DequePacket04 == Head(deque)

PacketProcessThread04 ==
  \/ /\ At("packet", "take") /\ "server" \notin on
     /\ Enter("packet", "ended") /\ UNCHANGED <<net, mem, hist, on>>
  \/ /\ At("packet", "take") /\ "server" \in on /\ deque # <<>>
     /\ deque' = Tail(deque)
     /\ pc' = [pc EXCEPT !["packet"] = [Local("send") EXCEPT !.s = DequePacket04.s, !.ms = DequePacket04.ms]]
     /\ UNCHANGED <<net, ses, hist, on>>
  \/ /\ At("packet", "send")
     /\ \E ok \in BOOLEAN : SendMsg04(pc["packet"].s, pc["packet"].ms, ok)
     /\ Rest("packet")
     /\ UNCHANGED <<accepts, port, mem, hist, on>>

AccepterThread04 == AccepterThread03R

(* op_type_ of a send is in a structure nobody clears.                     *)
DispatchOverlapped04(w) ==
  \/ /\ At(w, "got") /\ pc[w].op = "recv"
     /\ EnqueuePacket04(pc[w].s, pc[w].ms) /\ Go(w, "rebind")
     /\ UNCHANGED <<net, ses, hist, on>>
  \/ /\ At(w, "got") /\ pc[w].op = "send"
     /\ Rest(w) /\ UNCHANGED <<net, mem, hist, on>>
  \/ Rebind01(w)

CloseSocket04(w) == CloseSocket03R(w)
WorkerLoop04(w)  == WorkerThread01(w) \/ DispatchOverlapped04(w) \/ PostToken(w, "repost", "ended")
Worker04(w)      == WorkerLoop04(w) \/ CloseSocket04(w)

Thread04(t) == \/ t = "main" /\ Main04
               \/ t = "accepter" /\ AccepterThread04
               \/ t = "packet" /\ PacketProcessThread04
               \/ t \in Workers /\ Worker04(t)

=============================================================================
