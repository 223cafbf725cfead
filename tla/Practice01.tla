----------------------------- MODULE Practice01 -----------------------------
(***************************************************************************)
(* Practice01: one thread accepts, the workers echo.  A ClientInfo is free *)
(* when its socket is INVALID_SOCKET, and holds the one buffer and the one *)
(* overlapped structure of all its sends.                                  *)
(***************************************************************************)
EXTENDS EchoNet

InitSocket01 == Try("init", "bind", "failed")

BindAndListen01 == Raise({"listen"}, "bind", "start") \/ (To("bind", "failed") /\ UNCHANGED on)

StartServer01 == \/ Raise({"server"}, "start", "port")
                 \/ To("port", "failed") /\ UNCHANGED on
                 \/ Start(Workers \cup {"accepter"}, "port", "run")

DestroyThread01 ==
  \/ Lower({"worker"}, "destroy", "join workers")
  \/ Join(Workers, "join workers", "close listen")
  \/ Lower({"accepter", "listen"}, "close listen", "join accepter")
  \/ Join({"accepter"}, "join accepter", "stopped")
  \/ Lower({"server"}, "stopped", "done")

(* Mutation of PostTerminateMsg01: nothing is posted. *)
PostNothing01(t, from, to) == At(t, from) /\ Enter(t, to) /\ UNCHANGED <<net, mem, hist, on>>

PostTerminateMsg01(t, from, to) == PostToken(t, from, to)

(* main(): a key stops the server.                                         *)
Main01 == \/ InitSocket01 \/ BindAndListen01 \/ StartServer01
          \/ PostTerminateMsg01("main", "run", "destroy") \/ DestroyThread01

GetEmptyClientInfo01 == {s \in Slots : ses[s].sock = None}

BindRecv01(s, ok) == WSARecv(s, ok)

AccepterThread01 ==
  \/ /\ At("accepter", "get")
     /\ pc' = [pc EXCEPT !["accepter"] =
                 IF "accepter" \notin on \/ GetEmptyClientInfo01 = {} THEN Local("ended")
                 ELSE [Local("accept") EXCEPT !.s = First(GetEmptyClientInfo01)]]
     /\ UNCHANGED <<net, mem, hist, on>>
  \/ /\ At("accepter", "accept") /\ "listen" \notin on
     /\ Enter("accepter", "ended") /\ UNCHANGED <<net, mem, hist, on>>
  \/ /\ At("accepter", "accept") /\ "listen" \in on
     /\ Accepted("accepter", pc["accepter"].s) /\ Go("accepter", "bind")
     /\ UNCHANGED <<accepts, port, deque, on>>
  \/ /\ At("accepter", "accept") /\ "listen" \in on
     /\ AcceptFailed /\ Rest("accepter")
     /\ UNCHANGED <<accepts, port, mem, hist, on>>
  \/ /\ At("accepter", "bind")
     /\ \E ok \in BOOLEAN : /\ BindRecv01(pc["accepter"].s, ok)
                            /\ IF ok THEN Rest("accepter") ELSE Go("accepter", "ended")
     /\ UNCHANGED <<accepts, port, mem, hist, on>>

(* Mutation of Overwritten01: the sends of every session share the buffer. *)
OverwrittenEverywhere01(s, ms) ==
  [c \in Conns |-> [conn[c] EXCEPT !.sends = [i \in DOMAIN @ |-> [@[i] EXCEPT !.ms = ms]]]]

(* The buffer of the sends that are still pending is written over.         *)
Overwritten01(s, ms) ==
  [c \in Conns |-> [conn[c] EXCEPT !.sends =
     [i \in DOMAIN @ |-> IF @[i].s = s THEN [@[i] EXCEPT !.ms = ms] ELSE @[i]]]]

SendMsg01(s, ms, ok) ==
  /\ Taken(s, ok)
  /\ ses' = [ses EXCEPT ![s].typed = TRUE]
  /\ conn' = IF ok
             THEN [Overwritten01(s, ms) EXCEPT ![ses[s].sock].sends = Append(@, [s |-> s, ms |-> ms])]
             ELSE Overwritten01(s, ms)

TerminateMsg01(e) == e.op = "end"
ClientExited01(e) == ~e.ok

(* An operation that ended the connection closes it; any other is held to  *)
(* be dispatched.                                                          *)
WorkerThread01(w) ==
  /\ At(w, "wait") /\ port # <<>>
  /\ port' = Tail(port)
  /\ LET e == Head(port) IN
       pc' = [pc EXCEPT ![w] = IF TerminateMsg01(e) THEN Local("repost")
                               ELSE [at |-> IF ClientExited01(e) THEN "close" ELSE "got",
                                     s |-> e.s, op |-> e.op, ms |-> e.ms]]
  /\ UNCHANGED <<conn, accepts, mem, hist, on>>

(* op_type_ is read only now: cleared meanwhile it reads kRECV, and what   *)
(* is echoed is whatever the receive buffer holds.                         *)
Received01(w) == pc[w].op = "recv" \/ ~ses[pc[w].s].typed
Data01(w) == IF pc[w].op = "recv" THEN pc[w].ms ELSE <<Stale>>

(* Mutations of Rebind01: it is repeated; a failure is not looked at. *)
RebindAgain01(w) ==
  /\ At(w, "rebind")
  /\ \E ok \in BOOLEAN : BindRecv01(pc[w].s, ok) /\ IF ok THEN UNCHANGED pc ELSE Go(w, "close")
  /\ UNCHANGED <<accepts, port, mem, hist, on>>
RebindOnly01(w) ==
  /\ At(w, "rebind")
  /\ \E ok \in BOOLEAN : BindRecv01(pc[w].s, ok) /\ Rest(w)
  /\ UNCHANGED <<accepts, port, mem, hist, on>>

Rebind01(w) ==
  /\ At(w, "rebind")
  /\ \E ok \in BOOLEAN : BindRecv01(pc[w].s, ok) /\ IF ok THEN Rest(w) ELSE Go(w, "close")
  /\ UNCHANGED <<accepts, port, mem, hist, on>>

DispatchOverlapped01(w) ==
  \/ /\ At(w, "got") /\ Received01(w)
     /\ \E ok \in BOOLEAN : SendMsg01(pc[w].s, Data01(w), ok)
     /\ Go(w, "rebind")
     /\ UNCHANGED <<accepts, port, deque, hist, on>>
  \/ /\ At(w, "got") /\ ~Received01(w)
     /\ Rest(w) /\ UNCHANGED <<net, mem, hist, on>>
  \/ Rebind01(w)

ClearClientInfo01(s) == ses' = [ses EXCEPT ![s].sock = None, ![s].typed = FALSE]

(* Mutation of CloseSocket01: closesocket is left out. *)
ClearOnly01(w) ==
  /\ At(w, "close")
  /\ ClearClientInfo01(pc[w].s) /\ Rest(w)
  /\ UNCHANGED <<net, deque, hist, on>>

CloseSocket01(w) ==
  \/ /\ At(w, "close")
     /\ closesocket(pc[w].s) /\ Go(w, "clear")
     /\ UNCHANGED <<accepts, port, mem, hist, on>>
  \/ /\ At(w, "clear")
     /\ ClearClientInfo01(pc[w].s) /\ Rest(w)
     /\ UNCHANGED <<net, deque, hist, on>>

Worker01(w) == \/ WorkerThread01(w) \/ DispatchOverlapped01(w) \/ CloseSocket01(w)
               \/ PostTerminateMsg01(w, "repost", "ended")

Thread01(t) == \/ t = "main" /\ Main01
               \/ t = "accepter" /\ AccepterThread01
               \/ t \in Workers /\ Worker01(t)

=============================================================================
