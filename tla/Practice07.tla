----------------------------- MODULE Practice07 -----------------------------
(***************************************************************************)
(* Practice07: the accepter posts an AcceptEx for every session that is    *)
(* not in use and was closed more than SESSION_REUSE_TIME ago; a worker    *)
(* activates the session when the accept completes.  ses[s].closed is      *)
(* latest_conn_closed_: "max" (UINT64_MAX), "recent" or "long ago".        *)
(* ErrorHandler holds every int that is not SOCKET_ERROR to be a success   *)
(* and logs the others only: no Winsock call is ever seen to fail, but     *)
(* CreateIoCompletionPort is, which returns a handle.                      *)
(*   ClearSession zeroes the structures of a session, and a zero op_type_  *)
(* is kACCEPT, a zero session_idx_ the first session: a worker that reads  *)
(* them then runs the accept branch on the first session ("misread").  Of  *)
(* what follows one thing is left out: closesocket on a session whose      *)
(* AcceptEx is pending does not end that accept.                           *)
(***************************************************************************)
EXTENDS Practice01, Practice03, Practice04, Practice05

(* The threads are running when the socket is bound and listens; a bind or *)
(* a listen that fails goes unnoticed.                                     *)
StartNetwork07 ==
  \/ Try("socket", "iocp", "run") \/ Try("iocp", "threads", "run")
  \/ Start(Workers \cup {"accepter", "sender"}, "threads", "bind")
  \/ Raise({"listen"}, "bind", "associate") \/ (To("bind", "associate") /\ UNCHANGED on)
  \/ Raise({"assoc"}, "associate", "run") \/ (To("associate", "run") /\ UNCHANGED on)
NetworkTerminate07 == NetworkTerminate05

EchoServer07 == \/ CreatePacketProcessThread04 \/ StartNetwork07
                \/ NetworkTerminate07 \/ DestroyPacketProcessThread04
Main07 == EchoServer07

Sets07(s, x) == ex' = [ex EXCEPT ![s] = @ \cup {x}]

Offer07(s) ==
  /\ ~ses[s].active /\ ses[s].closed = "long ago"
  /\ ses' = [ses EXCEPT ![s].closed = "max"] /\ AcceptEx(s)
BindAccept07(s) == Offer07(s) /\ Sets07(s, "unbound")

AccepterThread07 ==
  \/ /\ At("accepter", "get") /\ "accepter" \notin on
     /\ Enter("accepter", "ended") /\ UNCHANGED <<net, mem, hist, on, ex>>
  \/ /\ At("accepter", "get") /\ "accepter" \in on
     /\ \E s \in Slots : BindAccept07(s)
     /\ UNCHANGED <<conn, port, deque, pc, on>>

PacketProcessThread07 == PacketProcessThread05

(* WSASend: what a send carries that is done at once is told, that of one  *)
(* still pending or refused is 0.                                          *)
Send07(s) ==
  LET ms == ses[s].out IN
    \/ /\ WSASend(s, ms, TRUE) /\ UNCHANGED hist
       /\ pc' = [pc EXCEPT !["sender"] = [@ EXCEPT !.at = "movefront", !.ms = ms]]
    \/ /\ WSASend(s, ms, TRUE) /\ late > 0 /\ late' = late - 1 /\ marks' = marks \cup {"late"}
       /\ Go("sender", "movefront")
    \/ WSASend(s, ms, FALSE) /\ Go("sender", "movefront") /\ UNCHANGED hist

BindSend07 ==
  \/ pc["sender"].at \in {"cas", "movefront"} /\ BindSend05 /\ UNCHANGED ex
  \/ /\ At("sender", "wsasend") /\ Send07(pc["sender"].s) /\ Sets07(pc["sender"].s, "send")
     /\ UNCHANGED <<accepts, port, mem, on>>

SenderThread07 ==
  \/ At("sender", "scan") /\ SenderThread05 /\ UNCHANGED ex
  \/ BindSend07

(* CheckGQCSResult follows the key of a failed accept, which is NULL.      *)
CheckGQCSResult07(w) ==
  /\ At(w, "close") /\ pc[w].s = None
  /\ Mark("null") /\ Enter(w, "ended") /\ UNCHANGED <<net, mem, on>>

BindRecv07(w) ==
  /\ At(w, "rebind")
  /\ \E ok \in BOOLEAN : WSARecv(pc[w].s, ok)
  /\ Rest(w) /\ UNCHANGED <<accepts, port, mem, hist, on>>

(* op_type_ is read to see whether the session has exited, to see what was *)
(* done, and once more to see whether that was an accept.                  *)
Reads07(w) == pc[w].op \in ex[pc[w].s]
Misreads07(w) ==
  /\ \/ /\ pc[w].at \in {"close", "got"} /\ pc[w].op \in {"recv", "send"} /\ ~Reads07(w)
        /\ pc' = [pc EXCEPT ![w].at = IF @ = "close" THEN "got" ELSE "third"]
     \/ At(w, "third") /\ Reads07(w) /\ Rest(w)
     \/ /\ At(w, "third") /\ ~Reads07(w)
        /\ pc' = [pc EXCEPT ![w] = [Local("got") EXCEPT !.s = 1, !.op = "accept"]]
  /\ Mark("misread") /\ UNCHANGED <<net, mem, on>>

(* A socket is bound to the port once; that, too, may fail.                *)
BindFailed07(w) ==
  /\ At(w, "got") /\ pc[w].op = "accept"
  /\ pc' = [pc EXCEPT ![w].at = "close"] /\ UNCHANGED <<net, mem, hist, on>>

AcceptCompleted07(w) ==
  /\ At(w, "got") /\ pc[w].op = "accept"
  /\ "unbound" \in ex[pc[w].s] /\ ex' = [ex EXCEPT ![pc[w].s] = @ \ {"unbound"}]
  /\ ses' = [ses EXCEPT ![pc[w].s].active = TRUE] /\ Go(w, "rebind")
  /\ UNCHANGED <<net, deque, hist, on>>

DispatchOverlapped07(w) ==
  \/ At(w, "got") /\ Reads07(w) /\ DispatchOverlapped05(w) /\ UNCHANGED ex
  \/ (Misreads07(w) \/ BindFailed07(w)) /\ UNCHANGED ex
  \/ AcceptCompleted07(w)
  \/ BindRecv07(w) /\ Sets07(pc[w].s, "recv")

(* ClearSession zeroes the structures first, in Practice07_Refactor before *)
(* it waits for send_lock_: that is part of the step that closes.          *)
Zeroes07(s) == ex' = [ex EXCEPT ![s] = {}]

(* UINT64_MAX is written before the swap tells whether there is a          *)
(* connection to close.                                                    *)
CloseSocket07(t) ==
  \/ /\ At(t, "close") /\ pc[t].s # None
     /\ ses' = [ses EXCEPT ![pc[t].s].closed = "max", ![pc[t].s].active = FALSE]
     /\ IF ses[pc[t].s].active THEN Go(t, "closing") ELSE Rest(t)
     /\ UNCHANGED <<net, deque, hist, on, ex>>
  \/ At(t, "closing") /\ CloseSocket05(t) /\ Zeroes07(pc[t].s)

Cleared07(s) == [ses EXCEPT ![s].sock = None, ![s].out = <<>>, ![s].sending = FALSE, ![s].closed = "recent"]

ClearSession07(t) ==
  /\ At(t, "clear")
  /\ ses' = Cleared07(pc[t].s) /\ Rest(t)
  /\ UNCHANGED <<net, deque, hist, on>>

WorkerLoop07(w) == WorkerThread01(w) \/ CheckGQCSResult07(w) \/ PostToken(w, "repost", "ended")
Worker07(w) == \/ (WorkerLoop07(w) \/ ClearSession07(w)) /\ UNCHANGED ex
               \/ DispatchOverlapped07(w) \/ CloseSocket07(w)

Thread07(t) == \/ t = "main" /\ Main07 /\ UNCHANGED ex
               \/ t = "accepter" /\ AccepterThread07
               \/ t = "packet" /\ PacketProcessThread07 /\ UNCHANGED ex
               \/ t = "sender" /\ SenderThread07
               \/ t \in Workers /\ Worker07(t)

=============================================================================
