---------------------------- MODULE Practice03R ----------------------------
(***************************************************************************)
(* Practice03_Refactor: Practice03 split into a Network and an EchoServer  *)
(* that hands it callbacks.  main() no longer looks at what Start returns: *)
(* a server that failed to start waits for the key that terminates it.     *)
(***************************************************************************)
EXTENDS Practice03

Listening03R    == \/ Try("socket", "bind", "run")
                   \/ Raise({"listen"}, "bind", "start") \/ (To("bind", "run") /\ UNCHANGED on)
StartNetwork03R == \/ Listening03R
                   \/ Try("start", "threads", "run")
                   \/ Start(Workers \cup {"accepter"}, "threads", "run")
NetworkTerminate03R == \/ PostToken("main", "run", "destroy")
                       \/ DestroyWorkerThread03 \/ DestroyAccepterThread03

EchoServer03R == \/ Raise({"server"}, "init", "socket") \/ StartNetwork03R
                 \/ NetworkTerminate03R \/ Lower({"server"}, "close port", "done")
Main03R == EchoServer03R

AccepterThread03R == AccepterThread03
CloseSocket03R(w) == CloseSocket03(w)
Worker03R(w)      == WorkerLoop03(w) \/ CloseSocket03R(w)

Thread03R(t) == \/ t = "main" /\ Main03R
                \/ t = "accepter" /\ AccepterThread03R
                \/ t \in Workers /\ Worker03R(t)

=============================================================================
