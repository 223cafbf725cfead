----------------------------- MODULE Practice05 -----------------------------
(***************************************************************************)
(* Practice05: a session is taken and given back by compare-and-swap on    *)
(* is_activated_; the packet thread puts what it echoes into the session's *)
(* ring, and a sender thread sends what the rings hold, one send at a time *)
(* (is_sending_).  CloseSocket and ClearSession take no lock.              *)
(* ses[s].out is the content of the ring, whose size SendBuffer models.    *)
(***************************************************************************)
EXTENDS Practice01, Practice03, Practice03R, Practice04, SequencesExt

StartNetwork05 ==
  \/ Listening03R \/ Try("start", "threads", "run")
  \/ Start(Workers \cup {"accepter", "sender"}, "threads", "run")

DestroyAccepterThread05 ==
  \/ Lower({"accepter", "listen"}, "close listen", "join accepter")
  \/ Join({"accepter"}, "join accepter", "stop sender")
DestroySenderThread05 ==
  Lower({"sender"}, "stop sender", "join sender") \/ Join({"sender"}, "join sender", "close port")
NetworkTerminate05 ==
  \/ PostToken("main", "run", "destroy")
  \/ DestroyWorkerThread03 \/ DestroyAccepterThread05 \/ DestroySenderThread05

EchoServer05 == \/ CreatePacketProcessThread04 \/ StartNetwork05
                \/ NetworkTerminate05 \/ DestroyPacketProcessThread04
Main05 == EchoServer05

(* send_lock_ is held over the whole of BindSend's WSASend and MoveFront.   *)
Locked05(s) == At("sender", "movefront") /\ pc["sender"].s = s

EnqueueSendData05(s, ms) == ~Locked05(s) /\ ses' = [ses EXCEPT ![s].out = @ \o ms]
HasSendData05(s) == ses[s].out # <<>>

(* What is sent leaves the ring; front_ moved over a ring that was cleared *)
(* meanwhile leaves it full of what nobody enqueued.                       *)
MoveFront05(s, ms) ==
  ses' = [ses EXCEPT ![s].out = IF IsPrefix(ms, @) THEN SubSeq(@, Len(ms) + 1, Len(@)) ELSE <<Stale>>]

PacketProcessThread05 ==
  \/ /\ At("packet", "take") /\ PacketProcessThread04
  \/ /\ At("packet", "send")
     /\ EnqueueSendData05(pc["packet"].s, pc["packet"].ms) /\ Rest("packet")
     /\ UNCHANGED <<net, deque, hist, on>>

GetEmptySession05 == {s \in Slots : ~ses[s].active}

(* An accept that fails leaves the session it was for activated.           *)
AccepterThread05 ==
  \/ /\ At("accepter", "get")
     /\ IF "accepter" \notin on \/ GetEmptySession05 = {}
        THEN Enter("accepter", "ended") /\ UNCHANGED ses
        ELSE /\ pc' = [pc EXCEPT !["accepter"] = [Local("accept") EXCEPT !.s = First(GetEmptySession05)]]
             /\ ses' = [ses EXCEPT ![First(GetEmptySession05)].active = TRUE]
     /\ UNCHANGED <<net, deque, hist, on>>
  \/ /\ pc["accepter"].at \in {"accept", "bind"} /\ AccepterThread03

(* What is left of an earlier connection may give back a session that the  *)
(* accepter has taken and waits in accept() for: "taken" marks that.       *)
CloseSocket05(t) ==
  \/ /\ At(t, "close") /\ ses[pc[t].s].active
     /\ ses' = [ses EXCEPT ![pc[t].s].active = FALSE] /\ Go(t, "closing")
     /\ MarkIf(At("accepter", "accept") /\ pc["accepter"].s = pc[t].s, "taken")
     /\ UNCHANGED <<net, deque, on>>
  \/ /\ At(t, "close") /\ ~ses[pc[t].s].active
     /\ Rest(t) /\ UNCHANGED <<net, mem, hist, on>>
  \/ /\ At(t, "closing")
     /\ closesocket(pc[t].s) /\ Go(t, "clear")
     /\ UNCHANGED <<accepts, port, mem, hist, on>>

ClearSession05(t) ==
  /\ At(t, "clear")
  /\ ses' = [ses EXCEPT ![pc[t].s].sock = None, ![pc[t].s].out = <<>>, ![pc[t].s].sending = FALSE]
  /\ Rest(t) /\ UNCHANGED <<net, deque, hist, on>>

(* Mutation of TakeSending05: is_sending_ is set, whatever it was. *)
SetSending05 ==
  /\ At("sender", "cas")
  /\ ses' = [ses EXCEPT ![pc["sender"].s].sending = TRUE] /\ Go("sender", "wsasend")
  /\ UNCHANGED <<net, deque, hist, on>>

TakeSending05 ==
  \/ /\ At("sender", "cas") /\ ses[pc["sender"].s].sending
     /\ Rest("sender") /\ UNCHANGED <<net, mem, hist, on>>
  \/ /\ At("sender", "cas") /\ ~ses[pc["sender"].s].sending
     /\ ses' = [ses EXCEPT ![pc["sender"].s].sending = TRUE] /\ Go("sender", "wsasend")
     /\ UNCHANGED <<net, deque, hist, on>>

(* A WSASend that is accepted sends all the ring holds.  It tells how much *)
(* only if it is done at once; a send still pending ("late") tells 0.      *)
BindSend05 ==
  \/ TakeSending05
  \/ /\ At("sender", "wsasend")
     /\ LET s == pc["sender"].s  ms == ses[s].out IN
          \/ /\ WSASend(s, ms, TRUE) /\ UNCHANGED hist
             /\ pc' = [pc EXCEPT !["sender"] = [@ EXCEPT !.at = "movefront", !.ms = ms]]
          \/ /\ WSASend(s, ms, TRUE) /\ late > 0 /\ late' = late - 1 /\ marks' = marks \cup {"late"}
             /\ Go("sender", "movefront")
          \/ WSASend(s, ms, FALSE) /\ Go("sender", "close") /\ UNCHANGED hist
     /\ UNCHANGED <<accepts, port, mem, on>>
  \/ /\ At("sender", "movefront")
     /\ MoveFront05(pc["sender"].s, pc["sender"].ms) /\ Rest("sender")
     /\ UNCHANGED <<net, deque, hist, on>>

SenderThread05 ==
  \/ /\ At("sender", "scan") /\ "sender" \notin on
     /\ Enter("sender", "ended") /\ UNCHANGED <<net, mem, hist, on>>
  \/ /\ At("sender", "scan") /\ "sender" \in on
     /\ \E s \in Slots : /\ HasSendData05(s)
                         /\ pc' = [pc EXCEPT !["sender"] = [Local("cas") EXCEPT !.s = s]]
     /\ UNCHANGED <<net, mem, hist, on>>
  \/ BindSend05

DispatchOverlapped05(w) ==
  \/ /\ At(w, "got") /\ pc[w].op = "recv" /\ DispatchOverlapped04(w)
  \/ /\ At(w, "got") /\ pc[w].op = "send"
     /\ ses' = [ses EXCEPT ![pc[w].s].sending = FALSE] /\ Rest(w)
     /\ UNCHANGED <<net, deque, hist, on>>
  \/ At(w, "rebind") /\ DispatchOverlapped04(w)

Worker05(w) == WorkerThread01(w) \/ DispatchOverlapped05(w) \/ PostToken(w, "repost", "ended")

Thread05(t) == \/ t = "main" /\ Main05
               \/ t = "accepter" /\ AccepterThread05
               \/ t = "packet" /\ PacketProcessThread05
               \/ t = "sender" /\ SenderThread05
               \/ t \in Workers /\ Worker05(t)
               \/ t \in Workers \cup {"sender"} /\ (CloseSocket05(t) \/ ClearSession05(t))

=============================================================================
