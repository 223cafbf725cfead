----------------------------- MODULE Practice08 -----------------------------
(***************************************************************************)
(* Practice08, the chat server, from Start to Terminate: the order in      *)
(* which the network, the packet manager and the Redis manager are made    *)
(* and ended, and the calls between them while that goes on.  What the     *)
(* threads do besides is in SessionPool, SendBuffer and ChatLogic; here    *)
(* the network's are those of Practice07 without the data they send.  A    *)
(* zero op_type_ is kNone here, and only a receive's is ever zeroed.       *)
(***************************************************************************)
EXTENDS Practice01, Practice03, Practice05, Practice07

CreateSessionPool08 == Raise({"sessions"}, "pool", "iocp")
StartNetwork08 ==
  \/ Raise({"server"}, "init", "socket")
  \/ Try("socket", "pool", "run") \/ CreateSessionPool08 \/ Try("iocp", "threads", "run")
  \/ Start(Workers \cup {"accepter", "sender"}, "threads", "bind")
  \/ Raise({"listen"}, "bind", "associate") \/ (To("bind", "associate") /\ UNCHANGED on)
  \/ Raise({"assoc"}, "associate", "managers") \/ (To("associate", "run") /\ UNCHANGED on)

(* A Redis server that cannot be reached is not noticed by Init.           *)
PacketManagerInit08 == Raise({"users"}, "managers", "redis")
RedisStart08 == Raise({"redis"}, "redis", "redis threads") \/ (To("redis", "rooms") /\ UNCHANGED on)
RedisRun08   == Start({"redis"}, "redis threads", "rooms")
PacketManagerRun08 ==
  /\ At("main", "rooms")
  /\ pc' = [pc EXCEPT !["main"] = Local("run"), !["packet"] = Local("begin")]
  /\ UNCHANGED <<net, mem, hist, on>>
PacketManagerStart08 == PacketManagerInit08 \/ RedisStart08 \/ RedisRun08 \/ PacketManagerRun08

(* The sessions are deleted when the network's threads have ended; the     *)
(* packet thread has not.                                                  *)
DestroyThread08 == DestroyWorkerThread03 \/ DestroyAccepterThread05 \/ DestroySenderThread05

(* Mutation of NetworkTerminate08: the sessions go first. *)
DeletesSessionsFirst08 ==
  \/ Lower({"sessions"}, "run", "destroy") \/ DestroyThread08
  \/ To("close port", "stop redis") /\ UNCHANGED on

NetworkTerminate08 ==
  \/ PostToken("main", "run", "destroy") \/ DestroyThread08
  \/ Lower({"sessions"}, "close port", "stop redis")

(* Without a Start that went through there is no Redis manager to call.    *)
RedisTerminate08 ==
  \/ /\ At("main", "stop redis") /\ "users" \notin on
     /\ Mark("unmade") /\ Enter("main", "failed") /\ UNCHANGED <<net, mem, on>>
  \/ "users" \in on /\ Lower({"redis"}, "stop redis", "join redis")
  \/ Join({"redis"}, "join redis", "stop packet")
DestroyPacketProcessThread08 ==
  Lower({"packet"}, "stop packet", "join packet") \/ Join({"packet"}, "join packet", "stopped")
ChatTerminate08 == \/ NetworkTerminate08 \/ RedisTerminate08 \/ DestroyPacketProcessThread08
                   \/ Lower({"server"}, "stopped", "done")

Main08 == StartNetwork08 \/ PacketManagerStart08 \/ ChatTerminate08

EnqueueSystemPacket08(s) == deque' = Append(deque, [s |-> s, ms |-> <<>>])
OnConnect08(s)    == EnqueueSystemPacket08(s)
OnDisconnect08(s) == EnqueueSystemPacket08(s)

LoopUntil08(t, flag) == /\ At(t, FirstStep(t)) /\ flag \notin on
                        /\ Enter(t, "ended") /\ UNCHANGED <<net, mem, hist, on>>

AccepterThread08 ==
  \/ LoopUntil08("accepter", "accepter")
  \/ /\ At("accepter", "get") /\ "accepter" \in on
     /\ \E s \in Slots : Offer07(s)
     /\ UNCHANGED <<conn, port, deque, pc, on>>

(* p_ref_user_manager_ is set by Init only.                                *)
OnRecv08(s, ms) == IF "users" \in on THEN deque' = Append(deque, [s |-> s, ms |-> ms]) /\ UNCHANGED hist
                   ELSE Mark("unmade") /\ UNCHANGED deque

DispatchOverlapped08(w) ==
  \/ /\ At(w, "got") /\ pc[w].op = "accept"
     /\ OnConnect08(pc[w].s) /\ ses' = [ses EXCEPT ![pc[w].s].active = TRUE] /\ Go(w, "rebind")
     /\ UNCHANGED <<net, hist, on>>
  \/ /\ At(w, "got") /\ pc[w].op = "recv"
     /\ OnRecv08(pc[w].s, pc[w].ms) /\ Go(w, "rebind")
     /\ UNCHANGED <<net, ses, on>>
  \/ BindFailed07(w) \/ BindRecv07(w)

(* OnDisconnect is not called for an accept whose socket was not bound.    *)
CheckGQCSResult08(w) ==
  \/ CheckGQCSResult07(w)
  \/ /\ At(w, "close") /\ pc[w].s # None
     /\ IF pc[w].op = "accept" THEN UNCHANGED deque ELSE OnDisconnect08(pc[w].s)
     /\ ses' = [ses EXCEPT ![pc[w].s].closed = "max", ![pc[w].s].active = FALSE]
     /\ IF ses[pc[w].s].active THEN Go(w, "closing") ELSE Rest(w)
     /\ UNCHANGED <<net, hist, on>>
  \/ At(w, "closing") /\ CloseSocket05(w)
  \/ ClearSession07(w)

Worker08(w) == \/ WorkerThread01(w) \/ DispatchOverlapped08(w) \/ CheckGQCSResult08(w)
               \/ PostToken(w, "repost", "ended")

(* Any packet may be answered, to any session.                             *)
SendPacket08 == IF "sessions" \in on THEN UNCHANGED hist ELSE Mark("deleted")

(* is_thread_running_ is set by the thread itself.                         *)
PacketProcessThread08 ==
  \/ /\ At("packet", "begin")
     /\ on' = on \cup {"packet"} /\ Enter("packet", "take")
     /\ MarkIf(pc["main"].at = "join packet", "revived")
     /\ UNCHANGED <<net, mem>>
  \/ /\ At("packet", "take") /\ "packet" \notin on
     /\ Enter("packet", "ended") /\ UNCHANGED <<net, mem, hist, on>>
  \/ /\ At("packet", "take") /\ "packet" \in on /\ deque # <<>>
     /\ deque' = Tail(deque)
     /\ \/ Enter("packet", "send")
        \/ UNCHANGED pc
     /\ UNCHANGED <<net, ses, hist, on>>
  \/ /\ At("packet", "send")
     /\ SendPacket08 /\ Enter("packet", "take") /\ UNCHANGED <<net, mem, on>>

SenderThread08      == LoopUntil08("sender", "sender")
ProcessTaskThread08 == LoopUntil08("redis", "redis")

Thread08(t) == \/ t = "main" /\ Main08
               \/ t = "accepter" /\ AccepterThread08
               \/ t = "sender" /\ SenderThread08
               \/ t = "packet" /\ PacketProcessThread08
               \/ t = "redis" /\ ProcessTaskThread08
               \/ t \in Workers /\ Worker08(t)

=============================================================================
