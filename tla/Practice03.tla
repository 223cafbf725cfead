----------------------------- MODULE Practice03 -----------------------------
(***************************************************************************)
(* Practice03: Practice01 with callbacks (OnAccept and OnDisconnect only   *)
(* log), one function per thread to destroy, and a count of clients that   *)
(* nothing reads.  The workers, the accepter and the one send buffer per   *)
(* client are those of Practice01.                                         *)
(***************************************************************************)
EXTENDS Practice01

StartServer03 ==
  \/ InitSocket01 \/ BindAndListen01
  \/ Raise({"server"}, "start", "port") \/ (To("port", "failed") /\ UNCHANGED on)
  \/ Start(Workers \cup {"accepter"}, "port", "run")

DestroyWorkerThread03 ==
  Lower({"worker"}, "destroy", "join workers") \/ Join(Workers, "join workers", "close listen")
DestroyAccepterThread03 ==
  \/ Lower({"accepter", "listen"}, "close listen", "join accepter")
  \/ Join({"accepter"}, "join accepter", "close port")
Terminate03 ==
  \/ PostToken("main", "run", "destroy")
  \/ DestroyWorkerThread03 \/ DestroyAccepterThread03
  \/ Lower({"server"}, "close port", "done")

Main03 == StartServer03 \/ Terminate03

AccepterThread03 == AccepterThread01
CloseSocket03(w) == CloseSocket01(w)

OnRecv03(s, ms, ok) == SendMsg01(s, ms, ok)

DispatchOverlapped03(w) ==
  \/ /\ At(w, "got") /\ Received01(w)
     /\ \E ok \in BOOLEAN : OnRecv03(pc[w].s, Data01(w), ok)
     /\ Go(w, "rebind")
     /\ UNCHANGED <<accepts, port, deque, hist, on>>
  \/ /\ At(w, "got") /\ ~Received01(w)
     /\ Rest(w) /\ UNCHANGED <<net, mem, hist, on>>
  \/ Rebind01(w)

WorkerLoop03(w) == WorkerThread01(w) \/ DispatchOverlapped03(w) \/ PostToken(w, "repost", "ended")
Worker03(w)     == WorkerLoop03(w) \/ CloseSocket03(w)

Thread03(t) == \/ t = "main" /\ Main03
               \/ t = "accepter" /\ AccepterThread03
               \/ t \in Workers /\ Worker03(t)

=============================================================================
