---------------------------- MODULE Practice07R ----------------------------
(***************************************************************************)
(* Practice07_Refactor is Practice07 with two things changed: BindSend     *)
(* gives up on a session that is not activated, and ClearSession takes     *)
(* send_lock_.                                                             *)
(***************************************************************************)
EXTENDS Practice01, Practice07

StartNetwork07R        == StartNetwork07
NetworkTerminate07R    == NetworkTerminate07
EchoServer07R          == EchoServer07
Main07R == EchoServer07R

BindAccept07R(s)  == BindAccept07(s)
AccepterThread07R == AccepterThread07

(* send_lock_ is held from the check of is_activated_ to MoveFront.        *)
Locked07R(s) == pc["sender"].at \in {"send", "movefront"} /\ pc["sender"].s = s

EnqueueSendData07R(s, ms) == ~Locked07R(s) /\ ses' = [ses EXCEPT ![s].out = @ \o ms]

PacketProcessThread07R ==
  \/ At("packet", "take") /\ PacketProcessThread07
  \/ /\ At("packet", "send")
     /\ EnqueueSendData07R(pc["packet"].s, pc["packet"].ms) /\ Rest("packet")
     /\ UNCHANGED <<net, deque, hist, on>>

(* Mutation of CheckActivated07R: any session will do. *)
CheckNothing07R ==
  /\ At("sender", "wsasend")
  /\ Go("sender", "send")
  /\ UNCHANGED <<net, mem, hist, on, ex>>

CheckActivated07R ==
  /\ At("sender", "wsasend")
  /\ Go("sender", IF ses[pc["sender"].s].active THEN "send" ELSE "close")
  /\ UNCHANGED <<net, mem, hist, on, ex>>

(* A send that is given up leaves is_sending_ set.                         *)
BindSend07R ==
  \/ pc["sender"].at \in {"cas", "movefront"} /\ BindSend07
  \/ CheckActivated07R
  \/ /\ At("sender", "send") /\ Send07(pc["sender"].s) /\ Sets07(pc["sender"].s, "send")
     /\ UNCHANGED <<accepts, port, mem, on>>

CloseSocket07R(t) == CloseSocket07(t)
ClearSession07R(t) == ~Locked07R(pc[t].s) /\ ClearSession07(t) /\ UNCHANGED ex

SenderThread07R ==
  \/ At("sender", "scan") /\ SenderThread07
  \/ BindSend07R \/ CloseSocket07R("sender") \/ ClearSession07R("sender")

Worker07R(w) == \/ WorkerLoop07(w) /\ UNCHANGED ex
                \/ DispatchOverlapped07(w) \/ CloseSocket07R(w) \/ ClearSession07R(w)

Thread07R(t) == \/ t = "main" /\ Main07R /\ UNCHANGED ex
                \/ t = "accepter" /\ AccepterThread07R
                \/ t = "packet" /\ PacketProcessThread07R /\ UNCHANGED ex
                \/ t = "sender" /\ SenderThread07R
                \/ t \in Workers /\ Worker07R(t)

=============================================================================
