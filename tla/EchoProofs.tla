----------------------------- MODULE EchoProofs -----------------------------
(***************************************************************************)
(* The safety invariants of the echo servers, for any number of sessions,  *)
(* clients, workers and messages.  This module has the types and what ties *)
(* connections, sessions and threads together; EchoWordProofs follows the  *)
(* operations and the words.  First a vocabulary: what the threads of all  *)
(* practices do, in one set of steps, so that the proofs look at each step *)
(* once instead of once per practice.  A step says what it does to the     *)
(* connections, the port, the deque and the pool, and of marks only        *)
(* whether "overlap" may come to it.                                       *)
(***************************************************************************)
EXTENDS EchoServers, Induction, FiniteSetTheorems

-----------------------------------------------------------------------------
(* Steps *)

Reusing == {"07", "07R", "08"}          \* AcceptEx, and a time of reuse
Swapping == {"05", "06"}                \* accept(), and a session taken by compare-and-swap
Copying == OneBuffer \cup {"04"}        \* a free session is one without a socket

(* marks only grows, here without "overlap" and "misread".                 *)
Grows == /\ marks \subseteq marks' /\ ("overlap" \in marks' => "overlap" \in marks)
         /\ ("misread" \in marks' => "misread" \in marks)

Becomes(t, r) == pc' = [pc EXCEPT ![t] = r]
Rests(t) == Becomes(t, Local(FirstStep(t))) \/ Becomes(t, Local("ended"))
Stays(t, l) == Becomes(t, [Local(l) EXCEPT !.s = pc[t].s])

MainLabels ==
  {"init", "packets", "socket", "pool", "iocp", "bind", "start", "port", "threads", "associate", "managers",
   "redis", "redis threads", "rooms", "run", "destroy", "join workers", "close listen", "join accepter",
   "stop sender", "join sender", "close port", "join packet", "stop redis", "join redis", "stop packet",
   "stopped", "done", "failed"}

(* The main thread: it may post the token, and start threads that were off. *)
Manages ==
  /\ UNCHANGED <<conn, accepts, ses, deque>> /\ Grows
  /\ port' \in {port, Append(port, Token)}
  /\ \E ts \in SUBSET (Threads \ {"main"}) : \E l \in MainLabels :
       /\ \A t \in ts : pc[t].at = "off"
       /\ \/ pc' = [t \in Threads |-> IF t = "main" THEN Local(l)
                                      ELSE IF t \in ts THEN Local(FirstStep(t)) ELSE pc[t]]
          \/ ts = {} /\ Stays("main", l)
          \/ ts = {"packet"} /\ pc' = [pc EXCEPT !["main"] = Local(l), !["packet"] = Local("begin")]

(* A thread has nothing (more) to do for the session it looked at.         *)
Leaves(t) ==
  /\ \/ t \in Workers /\ ver \in Copying /\ At(t, "got") /\ pc[t].op # "recv"
     \/ t \in Workers \cup {"sender"} /\ ver \in Swapping /\ At(t, "close") /\ ~ses[pc[t].s].active
     \/ t \in Workers /\ ver \in Reusing /\ At(t, "close") /\ pc[t].s = None
     \/ t = "accepter" /\ (At(t, "get") \/ (ver \notin Reusing /\ At(t, "accept")))
     \/ t = "sender" /\ (At(t, "scan") \/ At(t, "cas"))
     \/ t = "packet" /\ (At(t, "begin") \/ At(t, "take") \/ (ver = "08" /\ At(t, "send")))
     \/ t = "redis" /\ At(t, "take")
  /\ Rests(t) /\ UNCHANGED <<net, mem>> /\ Grows

(* The accepter. *)
Chooses(s) ==
  /\ At("accepter", "get") /\ s \in Slots /\ Becomes("accepter", [Local("accept") EXCEPT !.s = s])
  /\ \/ ver \in Copying /\ ses[s].sock = None /\ UNCHANGED ses
     \/ ver \in Swapping /\ ~ses[s].active /\ ses' = [ses EXCEPT ![s].active = TRUE]
  /\ UNCHANGED <<net, deque, hist>>
Accepts(s) ==
  /\ ver \notin Reusing /\ At("accepter", "accept") /\ pc["accepter"].s = s
  /\ Accepted("accepter", s) /\ Stays("accepter", "bind")
  /\ UNCHANGED <<accepts, port, deque>>
Refuses ==
  /\ ver \notin Reusing /\ At("accepter", "accept") /\ AcceptFailed /\ Rests("accepter")
  /\ UNCHANGED <<accepts, port, mem, hist>>
Binds(s) ==
  /\ ver \notin Reusing /\ At("accepter", "bind") /\ pc["accepter"].s = s
  /\ \/ WSARecv(s, TRUE) /\ Rests("accepter")
     \/ WSARecv(s, FALSE) /\ Stays("accepter", "ended")
  /\ UNCHANGED <<accepts, port, mem, hist>>
Offers(s) ==
  /\ ver \in Reusing /\ At("accepter", "get") /\ s \in Slots
  /\ ~ses[s].active /\ ses[s].closed = "long ago"
  /\ ses' = [ses EXCEPT ![s].closed = "max"]
  /\ accepts' \in {accepts, Append(accepts, s)}
  /\ UNCHANGED <<conn, port, deque, pc>> /\ Grows

(* The workers. *)
Fetches(w) == WorkerThread01(w)
Reposts(w) == PostToken(w, "repost", "ended")
Echoes(w) ==
  /\ ver \in OneBuffer /\ At(w, "got") /\ Received01(w)
  /\ \E ok \in BOOLEAN : SendMsg01(pc[w].s, Data01(w), ok)
  /\ Stays(w, "rebind") /\ UNCHANGED <<accepts, port, deque, hist>>
Queues(w) ==
  /\ ver \notin OneBuffer /\ At(w, "got") /\ pc[w].op = "recv" /\ Stays(w, "rebind")
  /\ \/ deque' = Append(deque, [s |-> pc[w].s, ms |-> pc[w].ms])
     \/ ver = "08" /\ UNCHANGED deque
  /\ UNCHANGED <<net, ses>> /\ Grows
Frees(w) ==
  /\ ver \in {"05", "07", "07R"} /\ At(w, "got") /\ pc[w].op = "send"
  /\ ses' = [ses EXCEPT ![pc[w].s].sending = FALSE] /\ Rests(w)
  /\ UNCHANGED <<net, deque, hist>>
Pops(w) == ver = "06" /\ SendCompleted06(w)
Activates(w) ==
  /\ ver \in Reusing /\ At(w, "got") /\ pc[w].op = "accept"
  /\ ses' = [ses EXCEPT ![pc[w].s].active = TRUE] /\ Stays(w, "rebind")
  /\ deque' \in {deque, Append(deque, [s |-> pc[w].s, ms |-> <<>>])} /\ (ver # "08" => UNCHANGED deque)
  /\ UNCHANGED <<net, hist>>
Unbinds(w) ==
  /\ ver \in Reusing /\ At(w, "got") /\ pc[w].op = "accept"
  /\ Becomes(w, [pc[w] EXCEPT !.at = "close"])
  /\ UNCHANGED <<net, mem, hist>>
Rebinds(w) ==
  /\ At(w, "rebind")
  /\ \/ WSARecv(pc[w].s, TRUE) /\ Rests(w)
     \/ WSARecv(pc[w].s, FALSE) /\ ver \notin Reusing /\ Stays(w, "close")
     \/ WSARecv(pc[w].s, FALSE) /\ ver \in Reusing /\ Rests(w)
  /\ UNCHANGED <<accepts, port, mem, hist>>

(* The end of a connection: the one who ends it (the workers, the sender). *)
Ends(t) ==
  /\ At(t, "close") /\ pc[t].s # None /\ Stays(t, "closing")
  /\ ses[pc[t].s].active
  /\ \/ /\ ver \in Swapping /\ ses' = [ses EXCEPT ![pc[t].s].active = FALSE]
        /\ MarkIf(At("accepter", "accept") /\ pc["accepter"].s = pc[t].s, "taken")
     \/ /\ ver \in Reusing /\ ses' = [ses EXCEPT ![pc[t].s].closed = "max", ![pc[t].s].active = FALSE]
        /\ UNCHANGED hist
  /\ deque' \in {deque, Append(deque, [s |-> pc[t].s, ms |-> <<>>])} /\ (ver # "08" => UNCHANGED deque)
  /\ UNCHANGED net
Blocks(t) ==
  /\ ver \in Reusing /\ At(t, "close") /\ pc[t].s # None /\ Rests(t)
  /\ ~ses[pc[t].s].active
  /\ ses' = [ses EXCEPT ![pc[t].s].closed = "max", ![pc[t].s].active = FALSE]
  /\ deque' \in {deque, Append(deque, [s |-> pc[t].s, ms |-> <<>>])} /\ (ver # "08" => UNCHANGED deque)
  /\ UNCHANGED <<net, hist>>
Shuts(t) ==
  /\ \/ ver \in Copying /\ At(t, "close")
     \/ ver \notin Copying /\ At(t, "closing")
  /\ closesocket(pc[t].s) /\ Stays(t, "clear")
  /\ UNCHANGED <<accepts, port, mem, hist>>
Clears(t) ==
  /\ At(t, "clear") /\ Rests(t)
  /\ LET s == pc[t].s IN
       \/ ver \in Copying /\ ses' = [ses EXCEPT ![s].sock = None, ![s].typed = FALSE]
       \/ ver = "05" /\ ses' = [ses EXCEPT ![s].sock = None, ![s].out = <<>>, ![s].sending = FALSE]
       \/ ver = "06" /\ ses' = [ses EXCEPT ![s].sock = None, ![s].out = <<>>]
       \/ ver \in Reusing /\ (ver = "07R" => ~Locked07R(s))
          /\ ses' = [ses EXCEPT ![s].sock = None, ![s].out = <<>>, ![s].sending = FALSE, ![s].closed = "recent"]
  /\ UNCHANGED <<net, deque>> /\ Grows

(* The packet thread. *)
Dequeues ==
  /\ At("packet", "take") /\ ver \notin OneBuffer /\ deque # <<>> /\ deque' = Tail(deque)
  /\ \/ ver # "08" /\ Becomes("packet", [Local("send") EXCEPT !.s = Head(deque).s, !.ms = Head(deque).ms])
     \/ ver = "08" /\ Becomes("packet", Local("send"))
     \/ ver = "08" /\ UNCHANGED pc
  /\ UNCHANGED <<net, ses, hist>>
Answers ==
  /\ ver = "04" /\ At("packet", "send") /\ Rests("packet")
  /\ \E ok \in BOOLEAN : WSASend(pc["packet"].s, pc["packet"].ms, ok)
  /\ UNCHANGED <<accepts, port, mem, hist>>
Puts ==
  /\ ver \in {"05", "07", "07R"} /\ At("packet", "send") /\ Rests("packet")
  /\ ses' = [ses EXCEPT ![pc["packet"].s].out = @ \o pc["packet"].ms]
  /\ ~(At("sender", "movefront") /\ pc["sender"].s = pc["packet"].s)
  /\ UNCHANGED <<net, deque, hist>>
Lines ==
  /\ ver = "06" /\ At("packet", "send") /\ Rests("packet")
  /\ EnqueueSendData06(pc["packet"].s, pc["packet"].ms)
  /\ UNCHANGED <<accepts, port, deque, hist>>

(* The sender. *)
Finds(s) ==
  /\ ver \in {"05", "07", "07R"} /\ At("sender", "scan") /\ s \in Slots /\ ses[s].out # <<>>
  /\ Becomes("sender", [Local("cas") EXCEPT !.s = s])
  /\ UNCHANGED <<net, mem, hist>>
Claims ==
  /\ ver \in {"05", "07", "07R"} /\ At("sender", "cas") /\ ~ses[pc["sender"].s].sending
  /\ ses' = [ses EXCEPT ![pc["sender"].s].sending = TRUE] /\ Stays("sender", "wsasend")
  /\ UNCHANGED <<net, deque, hist>>
Checks ==
  /\ ver = "07R" /\ At("sender", "wsasend")
  /\ Stays("sender", IF ses[pc["sender"].s].active THEN "send" ELSE "close")
  /\ UNCHANGED <<net, mem, hist>>
SendsAt(l) == ver \in {"05", "07", "07R"} /\ At("sender", l) /\ l = (IF ver = "07R" THEN "send" ELSE "wsasend")
Posts(told) ==
  /\ SendsAt("wsasend") \/ SendsAt("send")
  /\ WSASend(pc["sender"].s, ses[pc["sender"].s].out, TRUE)
  /\ IF told THEN Becomes("sender", [pc["sender"] EXCEPT !.at = "movefront", !.ms = ses[pc["sender"].s].out])
     ELSE Stays("sender", "movefront")
  /\ ~told => "late" \in marks'
  /\ UNCHANGED <<accepts, port, mem>> /\ Grows
Fails ==
  /\ SendsAt("wsasend") \/ SendsAt("send")
  /\ WSASend(pc["sender"].s, ses[pc["sender"].s].out, FALSE)
  /\ Stays("sender", IF ver = "05" THEN "close" ELSE "movefront")
  /\ UNCHANGED <<accepts, port, mem, hist>>
Advances ==
  /\ ver \in {"05", "07", "07R"} /\ At("sender", "movefront") /\ Rests("sender")
  /\ MoveFront05(pc["sender"].s, pc["sender"].ms)
  /\ UNCHANGED <<net, deque, hist>>

AccepterWorks(t) == t = "accepter" /\ (Refuses \/ \E s \in Slots : Chooses(s) \/ Accepts(s) \/ Binds(s) \/ Offers(s))
WorkerWorks(t) == /\ t \in Workers
                  /\ \/ Fetches(t) \/ Reposts(t) \/ Echoes(t) \/ Queues(t) \/ Frees(t) \/ Pops(t)
                     \/ Activates(t) \/ Unbinds(t) \/ Rebinds(t)
CloserWorks(t) == t \in Workers \cup {"sender"} /\ (Ends(t) \/ Blocks(t) \/ Shuts(t) \/ Clears(t))
PacketWorks(t) == t = "packet" /\ (Dequeues \/ Answers \/ Puts \/ Lines)
SenderWorks(t) == /\ t = "sender"
                  /\ \/ (\E s \in Slots : Finds(s)) \/ Claims \/ Checks \/ Fails \/ Advances
                     \/ \E told \in BOOLEAN : Posts(told)
Works(t) == \/ Leaves(t) \/ AccepterWorks(t) \/ WorkerWorks(t) \/ CloserWorks(t)
            \/ PacketWorks(t) \/ SenderWorks(t)

(* A step of a thread but the main thread.                                 *)
Acts(t) ==
  /\ t \in Threads \ {"main"} /\ pc[t].at \notin {"off", "ended"}
  /\ pc' = [pc EXCEPT ![t] = pc'[t]]
  /\ on' \in {on, on \cup {"packet"}}
  /\ Works(t)

(* A worker that misreads op_type_.                                        *)
Misreads(w) ==
  /\ w \in Workers /\ ver \in {"07", "07R"}
  /\ \/ /\ At(w, "close") /\ pc[w].op \in {"recv", "send"}
        /\ Becomes(w, [pc[w] EXCEPT !.at = "got"])
     \/ At(w, "got") /\ Becomes(w, [pc[w] EXCEPT !.at = "third"])
     \/ At(w, "third") /\ Rests(w)
     \/ At(w, "third") /\ Becomes(w, [Local("got") EXCEPT !.s = 1, !.op = "accept"])
  /\ marks \subseteq marks' /\ "misread" \in marks'
  /\ UNCHANGED <<net, mem, on>>

KernelAccepts(s) ==
  /\ ver \in Reusing /\ accepts # <<>> /\ Head(accepts) = s /\ accepts' = Tail(accepts)
  /\ Accepted("kernel", s)
  /\ port' \in {port, Append(port, Done("accept", s, TRUE, <<>>))}
  /\ UNCHANGED <<deque, pc, on>>
KernelRefuses ==
  /\ ver \in Reusing /\ accepts # <<>> /\ accepts' = Tail(accepts) /\ AcceptFailed
  /\ port' \in {port, Append(port, Done("accept", None, FALSE, <<>>))}
  /\ UNCHANGED <<ses, hist, deque, pc, on>>

-----------------------------------------------------------------------------
(* Types *)

Msg == [c : 0..NumConns, n : Nat]
Text == Seq(Msg)
AllSlots == 1..NumSlots
Completion == [op : {"end", "recv", "send", "accept"}, s : {None} \cup AllSlots, ok : BOOLEAN, ms : Text]

ThreadLabels(t) ==
  IF t \in Workers THEN {"off", "wait", "repost", "got", "third", "rebind", "close", "closing", "clear", "ended"}
  ELSE CASE t = "accepter" -> {"off", "get", "accept", "bind", "ended"}
         [] t = "sender" -> {"off", "scan", "cas", "wsasend", "send", "movefront", "close", "closing", "clear", "ended"}
         [] t = "packet" -> {"off", "begin", "take", "send", "ended"}
         [] OTHER -> {"off", "take", "ended"}

Labels == MainLabels \cup {"off", "wait", "repost", "got", "third", "rebind", "close", "closing", "clear", "ended",
                         "get", "accept", "scan", "cas", "wsasend", "send", "movefront", "begin", "take"}

(* The labels at which a thread works for a session.                       *)
Working(t) ==
  IF t \in Workers THEN {"got", "third", "rebind", "closing", "clear"} \cup (IF ver \in Reusing THEN {} ELSE {"close"})
  ELSE CASE t = "accepter" -> {"accept", "bind"}
         [] t = "sender" -> {"cas", "wsasend", "send", "movefront", "close", "closing", "clear"}
         [] t = "packet" -> IF ver = "08" THEN {} ELSE {"send"}
         [] OTHER -> {}
MayHold(t) == Working(t) \cup (IF t \in Workers THEN {"close"} ELSE IF t = "accepter" THEN {"ended"} ELSE {})

ConnRec == [st : {"idle", "backlog", "reset", "open", "gone", "closed"}, said : Nat, heard : Text,
            recvs : Seq(AllSlots), sends : Seq([s : AllSlots, ms : Text])]
ConnOK == conn \in [Conns -> ConnRec]
SesRec == [sock : {None} \cup Conns, active : BOOLEAN, sending : BOOLEAN,
           out : IF ver = "06" THEN Seq(Text) ELSE Text, typed : BOOLEAN, closed : {"max", "recent", "long ago"}]
SesOK == (\E n \in AllSlots : Slots = 1..n) /\ ses \in [Slots -> SesRec]
PortOK ==
  /\ port \in Seq(Completion)
  /\ \A i \in DOMAIN port :
       /\ port[i].s # None => port[i].s \in Slots /\ port[i].op # "end"
       /\ port[i].s = None => port[i].op = "end" \/ (port[i].op = "accept" /\ ~port[i].ok /\ ver \in Reusing)
PcRec == [at : Labels, s : {None} \cup AllSlots, op : {"", "end", "recv", "send", "accept"}, ms : Text]
Fits(t, r) ==
  /\ r \in PcRec /\ r.at \in ThreadLabels(t)
  /\ r.at \in Working(t) => r.s # None
  /\ r.at \notin MayHold(t) => r.s = None
  /\ r.s # None => r.s \in Slots
  /\ r.op \in {"recv", "send"} => r.s # None
  /\ t \in Workers /\ r.at = "got" => r.op \in {"recv", "send", "accept"}
PcOK ==
  /\ pc \in [Threads -> PcRec] /\ pc["main"].s = None
  /\ \A t \in Threads \ {"main"} : Fits(t, pc[t])
QueuesOK ==
  /\ accepts \in Seq(AllSlots) /\ \A i \in DOMAIN accepts : accepts[i] \in Slots
  /\ ver \notin Reusing => accepts = <<>>
  /\ deque \in Seq([s : AllSlots, ms : Text]) /\ \A i \in DOMAIN deque : deque[i].s \in Slots
OpsOK ==
  \A c \in Conns :
    /\ \A i \in DOMAIN conn[c].recvs : conn[c].recvs[i] \in Slots
    /\ \A i \in DOMAIN conn[c].sends : conn[c].sends[i].s \in Slots
TypeOK == ConnOK /\ SesOK /\ PortOK /\ PcOK /\ QueuesOK /\ OpsOK

-----------------------------------------------------------------------------
(* Nobody is started twice: the threads a step of main() starts were off.  *)
NetThreads == Workers \cup {"accepter", "sender"}
BeforeNet == {"init", "packets", "socket", "pool", "iocp", "start", "port", "threads"}
             \cup (IF ver \in Reusing THEN {} ELSE {"bind"})
BeforePackets == IF ver = "08" THEN BeforeNet \cup {"bind", "associate", "managers", "redis", "redis threads", "rooms"}
                 ELSE {"init", "packets"}
BeforeRedis == BeforeNet \cup {"bind", "associate", "managers", "redis", "redis threads"}
StartInv ==
  /\ pc["main"].at \in BeforeNet => \A t \in NetThreads : pc[t].at = "off"
  /\ pc["main"].at \in BeforePackets => pc["packet"].at = "off"
  /\ ver = "08" /\ pc["main"].at \in BeforeRedis => pc["redis"].at = "off"

(* Every step but a misreading one, in these terms.                        *)
Known ==
  \/ \E c \in Conns : Connect(c) \/ Say(c) \/ Quit(c) \/ Sent(c) \/ Abort(c)
  \/ KernelRefuses \/ \E s \in Slots : KernelAccepts(s) \/ Elapse(s)
  \/ Manages
  \/ \E t \in Threads : Acts(t)

-----------------------------------------------------------------------------
(* What is under way for a session is a token that the kernel, the port    *)
(* and the threads hand on: it is among the operations pending (a family f *)
(* of queues, in the set A), in the port's queue q (in the set B), or with *)
(* one of the threads W.                                                   *)
NoneIn(q, B) == \A i \in DOMAIN q : q[i] \notin B
OneIn(q, B)  == \A i, j \in DOMAIN q : q[i] \in B /\ q[j] \in B => i = j
Empty(f, A, q, B, W) == (\A c \in DOMAIN f : NoneIn(f[c], A)) /\ NoneIn(q, B) /\ W = {}
Single(f, A, q, B, W) ==
  /\ \A c \in DOMAIN f : OneIn(f[c], A)
  /\ \A c, d \in DOMAIN f : c # d => NoneIn(f[c], A) \/ NoneIn(f[d], A)
  /\ OneIn(q, B) /\ \A v, w \in W : v = w
  /\ (\A c \in DOMAIN f : NoneIn(f[c], A)) \/ (NoneIn(q, B) /\ W = {})
  /\ NoneIn(q, B) \/ W = {}

RecvsOf == [c \in Conns |-> conn[c].recvs]
SendsOf == [c \in Conns |-> conn[c].sends]
Op == [s : AllSlots, ms : Text]
SendOps(s)   == {e \in Op : e.s = s}
RecvsDone(s) == {e \in Completion : e.s = s /\ e.op \in {"recv", "accept"}}
SendsDone(s) == {e \in Completion : e.s = s /\ e.op = "send"}
RecvHolders(s) == {w \in Workers : Receiving(w, s)} \cup {t \in {"accepter"} : At(t, "bind") /\ pc[t].s = s}
SendHolders(s) == {w \in Workers : SendDone(w, s)}
OneRecv(s) == Single(RecvsOf, {s}, port, RecvsDone(s), RecvHolders(s))
OneSent(s) == Single(SendsOf, SendOps(s), port, SendsDone(s), SendHolders(s))
NoSend(s)  == Empty(SendsOf, SendOps(s), port, SendsDone(s), SendHolders(s))

Overlapped == marks \cap {"overlap", "misread"} # {}

(* A session with a socket has one receive; op_type_ of its one send       *)
(* structure reads kRECV only while there is no send.                      *)
RecvInv == ~Overlapped =>
  \A s \in Slots : ses[s].sock # None => OneRecv(s) /\ (ver \in OneBuffer /\ ~ses[s].typed => NoSend(s))

(* is_sending_, or what is in the queue of sends, tells of the one send.   *)
Ringed == {"05", "07", "07R"}
Calling(s) == pc["sender"].at \in {"wsasend", "send"} /\ pc["sender"].s = s
SendInv == ~Overlapped /\ ver \in Queued =>
  \A s \in Slots :
    /\ OneSent(s)
    /\ ses[s].sock # None =>
         /\ ver \in Ringed => /\ ~ses[s].sending => NoSend(s)
                              /\ Calling(s) => ses[s].sending /\ NoSend(s)
         /\ ver = "06" /\ ses[s].out = <<>> => NoSend(s)

(* The sockets: a connection that was not accepted has nothing of it, one  *)
(* that was is at most one session's.                                      *)
SockInv ==
  /\ \A c \in Conns : conn[c].st \in {"idle", "backlog", "reset"} =>
       conn[c].said = 0 /\ conn[c].heard = <<>> /\ conn[c].recvs = <<>> /\ conn[c].sends = <<>>
  /\ \A s \in Slots : ses[s].sock # None => conn[ses[s].sock].st \in {"open", "gone", "closed"}
  /\ \A r, s \in Slots : ses[r].sock = ses[s].sock /\ ses[s].sock # None => r = s

(* Closing: a thread that has closed the socket of its session still has   *)
(* this one; a session that is given back with a socket has such a thread. *)
Closers == Workers \cup {"sender"}
ShutInv == ~Overlapped =>
  \A t \in Closers : At(t, "clear") /\ ses[pc[t].s].sock # None => conn[ses[pc[t].s].sock].st = "closed"
Awaits(s) == At("accepter", "accept") /\ pc["accepter"].s = s
GivenInv ==
  /\ ver \in Copying => \A s \in Slots : Awaits(s) => ses[s].sock = None
  /\ ver \in Swapping /\ ~Overlapped /\ "taken" \notin marks =>
       \A s \in Slots :
         /\ Awaits(s) => ses[s].active
         /\ ses[s].sock # None /\ (~ses[s].active \/ Awaits(s)) =>
              \E t \in Closers : pc[t].at \in {"closing", "clear"} /\ pc[t].s = s

(* Practice07 on: an accept that is pending or done, a session activated   *)
(* and a thread that closes it exclude each other, until a worker misreads *)
(* op_type_: that may activate or close the first session meanwhile.       *)
AcceptsOf == [i \in {1} |-> accepts]
AcceptDoneOf(s) == {e \in Completion : e.s = s /\ e.op = "accept"}
Closing(t, s) == pc[t].at \in {"closing", "clear"} /\ pc[t].s = s
Activating(w, s) == pc[w].at = "got" /\ pc[w].op = "accept" /\ pc[w].s = s
PhaseHolders(s) ==
  {t \in Closers : Closing(t, s)} \cup {w \in Workers : Activating(w, s)}
  \cup {a \in {"kernel"} : ses[s].active}  \* no thread: that the session is activated
OnePhase(s) == Single(AcceptsOf, {s}, port, AcceptDoneOf(s), PhaseHolders(s))
NoPhase(s)  == Empty(AcceptsOf, {s}, port, AcceptDoneOf(s), PhaseHolders(s))
PhaseInv == ver \in Reusing /\ "misread" \notin marks =>
  \A s \in Slots :
    /\ OnePhase(s)
    /\ ses[s].closed # "max" => NoPhase(s) /\ ses[s].sock = None
    /\ ~NoneIn(accepts, {s}) => ses[s].sock = None

(* Practice07_Refactor: nothing of a session is left when it may be        *)
(* offered again, or is, until a worker misreads op_type_.                 *)
Quiet(s) == ~UnderWay("kernel", s) /\ ~LeftBehind(s)
QuietInv == ver = "07R" /\ "misread" \notin marks =>
  /\ ~Overlapped
  /\ \A s \in Slots :
       /\ ~ses[s].typed
       /\ ses[s].closed = "long ago" \/ ~NoneIn(accepts, {s}) => Quiet(s)
       /\ ses[s].closed = "recent" =>
            /\ ~(pc["sender"].at \in {"send", "movefront"} /\ pc["sender"].s = s)
            /\ ses[s].sending => pc["sender"].at \in {"wsasend", "close"} /\ pc["sender"].s = s

(* An operation pending on a connection is of the session whose socket it  *)
(* is; a session is cleared only when its socket is closed.                *)
OwnedBy(s, c) == ses[s].sock = c \/ (ses[s].sock = None /\ conn[c].st = "closed")
OwnInv == ~Overlapped =>
  \A c \in Conns : /\ \A i \in DOMAIN conn[c].recvs : OwnedBy(conn[c].recvs[i], c)
                   /\ \A i \in DOMAIN conn[c].sends : OwnedBy(conn[c].sends[i].s, c)

(* Of a session whose connection is open there are only its client's words. *)
Mine(ms, c) == \A i \in DOMAIN ms : ms[i].c = c
Advancing(s) == ver \in Ringed /\ At("sender", "movefront") /\ pc["sender"].s = s
Owns(s, c) ==
  /\ \A t \in Threads : pc[t].s = s => Mine(pc[t].ms, c)
  /\ \A i \in DOMAIN port : port[i].s = s => Mine(port[i].ms, c)
  /\ \A i \in DOMAIN deque : deque[i].s = s => Mine(deque[i].ms, c)
  /\ \A d \in Conns : \A i \in DOMAIN conn[d].sends : conn[d].sends[i].s = s => Mine(conn[d].sends[i].ms, c)
  /\ IF ver = "06" THEN \A i \in DOMAIN ses[s].out : Mine(ses[s].out[i], c) ELSE Mine(ses[s].out, c)
  /\ Advancing(s) => IsPrefix(pc["sender"].ms, ses[s].out)
OpsInv == ver \notin Reusing =>
  /\ \A i \in DOMAIN port : port[i].op # "accept"
  /\ \A w \in Workers : At(w, "got") => pc[w].op # "accept"
TalkInv == Clean =>
  /\ \A c \in Conns : Mine(conn[c].heard, c)
  /\ \A s \in Slots : Stands(s) => Owns(s, ses[s].sock)

(* The words of a client, in the order in which the server passes them on: *)
(* heard, being sent, to be sent, with the packet thread, in the deque, and *)
(* the one that was received and not yet queued.                           *)
Word(c, n) == [c |-> c, n |-> n]
Counts(ms, c, k) == \A i \in DOMAIN ms : ms[i] = Word(c, k + i)
Fetched(w, s) == At(w, "got") /\ pc[w].op = "recv" /\ pc[w].s = s
Arrived(s) == \/ \E i \in DOMAIN port : port[i].s = s /\ port[i].op = "recv"
              \/ \E w \in Workers : Fetched(w, s)

(* What leaves a session of practice v, whose client c has heard h words:  *)
(* its sends, the queue or ring out, a words of which are about to leave it. *)
(* How many words went before those in out; how many reached it.           *)
Posted(v, sends) == IF v \in Ringed THEN IF sends = <<>> THEN 0 ELSE Len(sends[1].ms) ELSE Len(sends)
Before(v, h, sends, out, a) == IF v = "06" THEN IF out # <<>> /\ sends = <<>> THEN h - 1 ELSE h
                               ELSE h + Posted(v, sends) - a
Reached(v, h, sends, out, a) == IF v \in Queued THEN Before(v, h, sends, out, a) + Len(out) ELSE h + Posted(v, sends)
Outward(v, c, h, sends, out, a) ==
  /\ v \in Ringed => /\ sends # <<>> => Len(sends) = 1 /\ Counts(sends[1].ms, c, h)
                     /\ Counts(out, c, Before(v, h, sends, out, a))
  /\ v \notin Ringed => \A i \in DOMAIN sends : sends[i].ms = <<Word(c, h + i)>>
  /\ v = "06" => /\ \A i \in DOMAIN out : out[i] = <<Word(c, Before(v, h, sends, out, a) + i)>>
                 /\ out = <<>> => sends = <<>>
                 /\ Len(sends) <= 1

(* In the deque q the words of a session from the one after lo to hi, in order. *)
Inward(q, s, c, lo, hi) ==
  /\ \A i \in DOMAIN q : q[i].s = s => \E n \in (lo + 1)..hi : q[i].ms = <<Word(c, n)>>
  /\ \A n \in (lo + 1)..hi : \E i \in DOMAIN q : q[i].s = s /\ q[i].ms = <<Word(c, n)>>
  /\ \A i, j \in DOMAIN q : i < j /\ q[i].s = s /\ q[j].s = s => q[i].ms[1].n < q[j].ms[1].n

Heard(c) == Len(conn[c].heard)
Moving(s) == IF Advancing(s) THEN Len(pc["sender"].ms) ELSE 0
Sendings(s, c) == Outward(ver, c, Heard(c), conn[c].sends, ses[s].out, Moving(s))
Handed(s, c) == Reached(ver, Heard(c), conn[c].sends, ses[s].out, Moving(s))
Passed(s, c) == Handed(s, c) + (IF pc["packet"].s = s THEN 1 ELSE 0)
Kept(s, c)   == conn[c].said - (IF Arrived(s) THEN 1 ELSE 0)
PacketOrder(s, c) == pc["packet"].s = s => pc["packet"].ms = <<Word(c, Passed(s, c))>>
RecvOrder(s, c) ==
  /\ \A i \in DOMAIN port : port[i].s = s /\ port[i].op = "recv" => port[i].ok /\ port[i].ms = <<Word(c, conn[c].said)>>
  /\ \A w \in Workers : Fetched(w, s) => pc[w].ms = <<Word(c, conn[c].said)>>
InOrder(s, c) ==
  /\ Sendings(s, c) /\ PacketOrder(s, c) /\ Inward(deque, s, c, Passed(s, c), Kept(s, c)) /\ RecvOrder(s, c)
  /\ Passed(s, c) <= Kept(s, c)
  /\ ver \in OneBuffer => Passed(s, c) = Kept(s, c) /\ conn[c].said <= Heard(c) + 1
Ordered == Clean /\ ver \in Echoing /\ (ver \in OneBuffer => kind = "pingpong")
OrderInv == Ordered =>
  /\ \A c \in Conns : Counts(conn[c].heard, c, 0)
  /\ \A s \in Slots : \A c \in Conns : Stands(s) /\ ses[s].sock = c => InOrder(s, c)

-----------------------------------------------------------------------------
(* Every step of every practice is one of these *)

(* The threads have different names, and where each of them begins.        *)
LEMMA ThreadFacts ==
  /\ \A w \in Workers : w \notin {"main", "accepter", "sender", "packet", "redis", "kernel"}
  /\ \A w \in Workers : w \in Threads /\ FirstStep(w) = "wait"
  /\ {"main", "accepter", "sender", "packet", "redis"} \subseteq Threads
  /\ FirstStep("accepter") = "get" /\ FirstStep("sender") = "scan"
  /\ FirstStep("packet") = "take" /\ FirstStep("redis") = "take"
<1>1. \A w \in Workers : w \notin {"main", "accepter", "sender", "packet", "redis", "kernel"}
  BY EchoConstants
<1>2. QED
  BY <1>1 DEF Threads, FirstStep

(* The end of a turn. *)
LEMMA RestIs ==
    ASSUME NEW t \in Threads, Rest(t)
    PROVE  Rests(t)
  BY ThreadFacts DEF Rest, Rests, Enter, Becomes

-----------------------------------------------------------------------------
(* The main threads *)

(* The main thread's steps, by what they are written with.                 *)
LEMMA ToIs ==
    ASSUME NEW from, NEW to \in MainLabels, To(from, to)
    PROVE  Manages
<1>1. {} \in SUBSET (Threads \ {"main"})
  OBVIOUS
<1>2. Stays("main", to)
  BY DEF To, Go, Stays, Becomes
<1>3. UNCHANGED <<conn, accepts, ses, deque, port, marks>>
  BY DEF To, net, mem, hist
<1>4. QED
  BY <1>1, <1>2, <1>3 DEF Manages, Grows

LEMMA StartIs ==
    ASSUME NEW ts \in SUBSET (Threads \ {"main"}), NEW from, NEW to \in MainLabels, Start(ts, from, to),
           \A t \in ts : pc[t].at = "off"
    PROVE  Manages
<1>1. UNCHANGED <<conn, accepts, ses, deque, port, marks>>
  BY DEF Start, net, mem, hist
<1>2. QED
  BY <1>1 DEF Start, Manages, Grows

LEMMA TokenIs ==
    ASSUME TypeOK, NEW from, NEW to \in MainLabels, PostToken("main", from, to)
    PROVE  Manages
<1>1. {} \in SUBSET (Threads \ {"main"})
  OBVIOUS
<1>2. UNCHANGED <<conn, accepts, ses, deque, marks>>
  BY DEF PostToken, mem, hist
<1>3. Stays("main", to)
  <2>1. pc' = [pc EXCEPT !["main"] = Local(to)] /\ pc["main"].s = None
    BY DEF PostToken, Enter, TypeOK, PcOK
  <2>2. QED
    BY <2>1 DEF Stays, Becomes, Local
<1>4. QED
  BY <1>1, <1>2, <1>3 DEF Manages, Grows, PostToken

LEMMA NetOff ==
    ASSUME TypeOK, StartInv, pc["main"].at \in BeforeNet
    PROVE  /\ Workers \cup {"accepter"} \in SUBSET (Threads \ {"main"})
           /\ Workers \cup {"accepter", "sender"} \in SUBSET (Threads \ {"main"})
           /\ \A t \in Workers \cup {"accepter", "sender"} : pc[t].at = "off"
  BY ThreadFacts DEF StartInv, NetThreads

(* main() of each practice is Manages.                                     *)
LEMMA Main01Is ==
    ASSUME TypeOK, StartInv, Main01
    PROVE  Manages
<1>1. CASE InitSocket01
  BY <1>1, ToIs DEF MainLabels, InitSocket01, Try
<1>2. CASE BindAndListen01
  BY <1>2, ToIs DEF MainLabels, BindAndListen01, Raise
<1>3. CASE StartServer01
  <2>1. CASE Start(Workers \cup {"accepter"}, "port", "run")
    BY <2>1, NetOff, StartIs DEF MainLabels, Start, At, BeforeNet
  <2>2. QED
    BY <1>3, <2>1, ToIs DEF MainLabels, StartServer01, Raise
<1>4. CASE PostTerminateMsg01("main", "run", "destroy")
  BY <1>4, TokenIs DEF MainLabels, PostTerminateMsg01
<1>5. CASE DestroyThread01
  BY <1>5, ToIs DEF MainLabels, DestroyThread01, Lower, Join
<1>6. QED
  BY <1>1, <1>2, <1>3, <1>4, <1>5 DEF Main01

LEMMA Main03Is ==
    ASSUME TypeOK, StartInv, Main03
    PROVE  Manages
<1>1. CASE StartServer03
  <2>1. CASE Start(Workers \cup {"accepter"}, "port", "run")
    BY <2>1, NetOff, StartIs DEF MainLabels, Start, At, BeforeNet
  <2>2. QED
    BY <1>1, <2>1, ToIs DEF MainLabels, StartServer03, InitSocket01, BindAndListen01, Raise, Try
<1>2. CASE Terminate03
  BY <1>2, ToIs, TokenIs DEF MainLabels, Terminate03, DestroyWorkerThread03, DestroyAccepterThread03, Lower, Join
<1>3. QED
  BY <1>1, <1>2 DEF Main03

LEMMA Network03RIs ==
    ASSUME TypeOK, StartInv, StartNetwork03R \/ NetworkTerminate03R
    PROVE  Manages
<1>1. CASE StartNetwork03R
  <2>1. CASE Start(Workers \cup {"accepter"}, "threads", "run")
    BY <2>1, NetOff, StartIs DEF MainLabels, Start, At, BeforeNet
  <2>2. QED
    BY <1>1, <2>1, ToIs DEF MainLabels, StartNetwork03R, Listening03R, Raise, Try
<1>2. CASE NetworkTerminate03R
  BY <1>2, ToIs, TokenIs DEF MainLabels, NetworkTerminate03R, DestroyWorkerThread03, DestroyAccepterThread03, Lower, Join
<1>3. QED
  BY <1>1, <1>2

LEMMA Main03RIs ==
    ASSUME TypeOK, StartInv, Main03R
    PROVE  Manages
  BY Network03RIs, ToIs DEF MainLabels, Main03R, EchoServer03R, Raise, Lower

LEMMA PacketThreadIs ==
    ASSUME TypeOK, StartInv, ver # "08", CreatePacketProcessThread04 \/ DestroyPacketProcessThread04
    PROVE  Manages
<1>1. CASE Start({"packet"}, "packets", "socket")
  <2>1. {"packet"} \in SUBSET (Threads \ {"main"}) /\ \A t \in {"packet"} : pc[t].at = "off"
    BY <1>1, ThreadFacts DEF Start, At, StartInv, BeforePackets
  <2>2. QED
    BY <1>1, <2>1, StartIs DEF MainLabels
<1>2. QED
  BY <1>1, ToIs DEF MainLabels, CreatePacketProcessThread04, DestroyPacketProcessThread04, Raise, Lower, Join

LEMMA Main04Is ==
    ASSUME TypeOK, StartInv, ver # "08", Main04
    PROVE  Manages
  BY Network03RIs, PacketThreadIs DEF Main04, EchoServer04, StartNetwork04, NetworkTerminate04

LEMMA Main06Is ==
    ASSUME TypeOK, StartInv, ver # "08", Main06
    PROVE  Manages
  BY Network03RIs, PacketThreadIs
     DEF Main06, EchoServer06, StartNetwork06, NetworkTerminate06, StartNetwork04, NetworkTerminate04

LEMMA Terminate05Is ==
    ASSUME TypeOK, NetworkTerminate05
    PROVE  Manages
  BY ToIs, TokenIs DEF MainLabels, NetworkTerminate05, DestroyWorkerThread03, DestroyAccepterThread05, DestroySenderThread05,
                       Lower, Join

LEMMA Main05Is ==
    ASSUME TypeOK, StartInv, ver # "08", Main05
    PROVE  Manages
<1>1. CASE Start(Workers \cup {"accepter", "sender"}, "threads", "run")
  BY <1>1, NetOff, StartIs DEF MainLabels, Start, At, BeforeNet
<1>2. CASE StartNetwork05
  BY <1>1, <1>2, ToIs DEF MainLabels, StartNetwork05, Listening03R, Raise, Try
<1>3. QED
  BY <1>2, Terminate05Is, PacketThreadIs DEF Main05, EchoServer05

LEMMA Main07Is ==
    ASSUME TypeOK, StartInv, ver # "08", Main07
    PROVE  Manages
<1>1. CASE Start(Workers \cup {"accepter", "sender"}, "threads", "bind")
  BY <1>1, NetOff, StartIs DEF MainLabels, Start, At, BeforeNet
<1>2. CASE StartNetwork07
  BY <1>1, <1>2, ToIs DEF MainLabels, StartNetwork07, Raise, Try
<1>3. QED
  BY <1>2, Terminate05Is, PacketThreadIs DEF Main07, EchoServer07, NetworkTerminate07

LEMMA Main08Is ==
    ASSUME TypeOK, StartInv, ver = "08", Main08
    PROVE  Manages
<1>1. CASE Start(Workers \cup {"accepter", "sender"}, "threads", "bind")
  BY <1>1, NetOff, StartIs DEF MainLabels, Start, At, BeforeNet
<1>2. CASE StartNetwork08
  BY <1>1, <1>2, ToIs DEF MainLabels, StartNetwork08, CreateSessionPool08, Raise, Try
<1>3. CASE RedisRun08
  <2>1. {"redis"} \in SUBSET (Threads \ {"main"}) /\ \A t \in {"redis"} : pc[t].at = "off"
    BY <1>3, ThreadFacts DEF RedisRun08, Start, At, StartInv, BeforeRedis
  <2>2. QED
    BY <1>3, <2>1, StartIs DEF MainLabels, RedisRun08
<1>4. CASE PacketManagerRun08
  <2>1. {"packet"} \in SUBSET (Threads \ {"main"}) /\ \A t \in {"packet"} : pc[t].at = "off"
    BY <1>4, ThreadFacts DEF PacketManagerRun08, At, StartInv, BeforePackets
  <2>2. UNCHANGED <<conn, accepts, ses, deque, port, marks>>
    BY <1>4 DEF PacketManagerRun08, net, mem, hist
  <2>3. QED
    BY <1>4, <2>1, <2>2 DEF PacketManagerRun08, Manages, Grows, MainLabels
<1>5. CASE PacketManagerStart08
  BY <1>3, <1>4, <1>5, ToIs DEF MainLabels, PacketManagerStart08, PacketManagerInit08, RedisStart08, Raise
<1>6. CASE RedisTerminate08
  <2>1. CASE At("main", "stop redis") /\ Mark("unmade") /\ Enter("main", "failed") /\ UNCHANGED <<net, mem, on>>
    <3>1. {} \in SUBSET (Threads \ {"main"})
      OBVIOUS
    <3>2. UNCHANGED <<conn, accepts, ses, deque, port>> /\ marks' = marks \cup {"unmade"}
      BY <2>1 DEF Mark, net, mem
    <3>3. pc' = [pc EXCEPT !["main"] = Local("failed")] /\ pc["main"].s = None
      BY <2>1 DEF Enter, TypeOK, PcOK
    <3>4. Stays("main", "failed")
      BY <3>3 DEF Stays, Becomes, Local
    <3>5. QED
      BY <3>1, <3>2, <3>4 DEF MainLabels, Manages, Grows
  <2>2. QED
    BY <1>6, <2>1, ToIs DEF MainLabels, RedisTerminate08, Lower, Join
<1>7. CASE ChatTerminate08
  BY <1>6, <1>7, ToIs, TokenIs
     DEF MainLabels, ChatTerminate08, NetworkTerminate08, DestroyThread08, DestroyWorkerThread03, DestroyAccepterThread05,
         DestroySenderThread05, DestroyPacketProcessThread08, Lower, Join
<1>8. QED
  BY <1>2, <1>5, <1>7 DEF Main08

-----------------------------------------------------------------------------
(* The other threads *)

(* First(S) is the least of S.                                             *)
LEMMA FirstIn ==
    ASSUME NEW S, S \subseteq Nat, S # {}
    PROVE  First(S) \in S /\ \A y \in S : First(S) <= y
<1>1. \E x \in S : \A y \in S : x <= y
  BY LeastNatural
<1>2. QED
  BY <1>1 DEF First

(* Session numbers are naturals, None is not one.                          *)
LEMMA SlotFacts ==
    ASSUME TypeOK
    PROVE  /\ Slots \subseteq AllSlots /\ Slots \subseteq Nat /\ None \notin Slots
           /\ AllSlots \subseteq Nat /\ None \notin AllSlots
<1>1. PICK n \in 1..NumSlots : Slots = 1..n
  BY DEF TypeOK, SesOK, AllSlots
<1>2. n \in Nat /\ n <= NumSlots /\ NumSlots \in Nat
  BY <1>1, EchoConstants
<1>3. QED
  BY <1>1, <1>2 DEF AllSlots, None

(* Whatever a thread does, it does for itself, and while it runs.          *)
LEMMA WorksFrame ==
    ASSUME TypeOK, NEW t \in Threads \ {"main"}, Works(t)
    PROVE  pc[t].at \notin {"off", "ended"} /\ pc' = [pc EXCEPT ![t] = pc'[t]]
<1>1. ASSUME NEW r, Becomes(t, r)
      PROVE  pc' = [pc EXCEPT ![t] = pc'[t]]
  BY <1>1 DEF Becomes, TypeOK, PcOK
<1>2. ASSUME Rests(t)
      PROVE  pc' = [pc EXCEPT ![t] = pc'[t]]
  BY <1>1, <1>2 DEF Rests
<1>3. ASSUME NEW l, Stays(t, l)
      PROVE  pc' = [pc EXCEPT ![t] = pc'[t]]
  BY <1>1, <1>3 DEF Stays
<1>4. CASE Leaves(t)
  BY <1>2, <1>4 DEF Leaves, At
<1>5. CASE AccepterWorks(t)
  <2>1. CASE Refuses
    BY <1>2, <1>5, <2>1 DEF AccepterWorks, Refuses, At
  <2>2. ASSUME NEW s \in Slots, Chooses(s)
        PROVE  pc[t].at \notin {"off", "ended"} /\ pc' = [pc EXCEPT ![t] = pc'[t]]
    BY <1>1, <1>5, <2>2 DEF AccepterWorks, Chooses, At
  <2>3. ASSUME NEW s \in Slots, Accepts(s)
        PROVE  pc[t].at \notin {"off", "ended"} /\ pc' = [pc EXCEPT ![t] = pc'[t]]
    BY <1>3, <1>5, <2>3 DEF AccepterWorks, Accepts, At
  <2>4. ASSUME NEW s \in Slots, Binds(s)
        PROVE  pc[t].at \notin {"off", "ended"} /\ pc' = [pc EXCEPT ![t] = pc'[t]]
    BY <1>2, <1>3, <1>5, <2>4 DEF AccepterWorks, Binds, At
  <2>5. ASSUME NEW s \in Slots, Offers(s)
        PROVE  pc[t].at \notin {"off", "ended"} /\ pc' = [pc EXCEPT ![t] = pc'[t]]
    BY <1>5, <2>5 DEF AccepterWorks, Offers, At, TypeOK, PcOK
  <2>6. QED
    BY <1>5, <2>1, <2>2, <2>3, <2>4, <2>5 DEF AccepterWorks
<1>6. CASE WorkerWorks(t)
  <2>1. CASE Fetches(t)
    BY <2>1 DEF Fetches, WorkerThread01, At, TypeOK, PcOK
  <2>2. CASE Reposts(t)
    BY <1>1, <2>2 DEF Reposts, PostToken, Enter, Becomes, At
  <2>3. CASE Echoes(t) \/ Queues(t) \/ Activates(t)
    BY <1>3, <2>3 DEF Echoes, Queues, Activates, At
  <2>4. CASE Frees(t)
    BY <1>2, <2>4 DEF Frees, At
  <2>5. CASE Pops(t)
    BY <1>2, <2>5, RestIs DEF Pops, SendCompleted06, At
  <2>6. CASE Rebinds(t)
    BY <1>2, <1>3, <2>6 DEF Rebinds, At
  <2>7. CASE Unbinds(t)
    BY <1>1, <2>7 DEF Unbinds, At
  <2>8. QED
    BY <1>6, <2>1, <2>2, <2>3, <2>4, <2>5, <2>6, <2>7 DEF WorkerWorks
<1>7. CASE CloserWorks(t)
  BY <1>2, <1>3, <1>7 DEF CloserWorks, Ends, Blocks, Shuts, Clears, At
<1>8. CASE PacketWorks(t)
  <2>1. CASE Dequeues
    BY <1>1, <1>8, <2>1 DEF PacketWorks, Dequeues, At, TypeOK, PcOK
  <2>2. CASE Answers \/ Puts \/ Lines
    BY <1>2, <1>8, <2>2 DEF PacketWorks, Answers, Puts, Lines, At
  <2>3. QED
    BY <1>8, <2>1, <2>2 DEF PacketWorks
<1>9. CASE SenderWorks(t)
  <2>1. ASSUME NEW s \in Slots, Finds(s)
        PROVE  pc[t].at \notin {"off", "ended"} /\ pc' = [pc EXCEPT ![t] = pc'[t]]
    BY <1>1, <1>9, <2>1 DEF SenderWorks, Finds, At
  <2>2. CASE Claims \/ Checks
    BY <1>3, <1>9, <2>2 DEF SenderWorks, Claims, Checks, At
  <2>3. CASE Fails
    BY <1>3, <1>9, <2>3 DEF SenderWorks, Fails, At, SendsAt
  <2>4. CASE Advances
    BY <1>2, <1>9, <2>4 DEF SenderWorks, Advances, At
  <2>5. ASSUME NEW told \in BOOLEAN, Posts(told)
        PROVE  pc[t].at \notin {"off", "ended"} /\ pc' = [pc EXCEPT ![t] = pc'[t]]
    BY <1>1, <1>3, <1>9, <2>5 DEF SenderWorks, Posts, At, SendsAt
  <2>6. QED
    BY <1>9, <2>1, <2>2, <2>3, <2>4, <2>5 DEF SenderWorks
<1>10. QED
  BY <1>4, <1>5, <1>6, <1>7, <1>8, <1>9 DEF Works

LEMMA ActsIs ==
    ASSUME TypeOK, NEW t \in Threads \ {"main"}, Works(t), on' \in {on, on \cup {"packet"}}
    PROVE  Acts(t)
  BY WorksFrame DEF Acts

LEMMA Accepter01Is ==
    ASSUME TypeOK, ver \notin Reusing, AccepterThread01, ~At("accepter", "get") \/ ver \in Copying
    PROVE  Works("accepter") /\ on' = on
<1> DEFINE s == pc["accepter"].s
<1>1. CASE At("accepter", "get")
  <2>1. pc' = [pc EXCEPT !["accepter"] =
                 IF "accepter" \notin on \/ GetEmptyClientInfo01 = {} THEN Local("ended")
                 ELSE [Local("accept") EXCEPT !.s = First(GetEmptyClientInfo01)]]
        /\ UNCHANGED <<net, mem, hist, on>>
    BY <1>1 DEF AccepterThread01, At
  <2>2. CASE "accepter" \notin on \/ GetEmptyClientInfo01 = {}
    <3>1. Leaves("accepter")
      BY <1>1, <2>1, <2>2 DEF Leaves, Rests, Becomes, Grows, net, mem, hist
    <3>2. QED
      BY <2>1, <3>1 DEF Works
  <2>3. CASE ~("accepter" \notin on \/ GetEmptyClientInfo01 = {})
    <3>1. First(GetEmptyClientInfo01) \in GetEmptyClientInfo01
      BY <2>3, FirstIn, SlotFacts DEF GetEmptyClientInfo01
    <3>2. Chooses(First(GetEmptyClientInfo01)) /\ First(GetEmptyClientInfo01) \in Slots
      BY <1>1, <2>1, <2>3, <3>1 DEF Chooses, Becomes, GetEmptyClientInfo01, mem
    <3>3. AccepterWorks("accepter")
      BY <3>2 DEF AccepterWorks
    <3>4. QED
      BY <2>1, <3>3 DEF Works
  <2>4. QED
    BY <2>2, <2>3
<1>2. CASE At("accepter", "accept") /\ Enter("accepter", "ended") /\ UNCHANGED <<net, mem, hist, on>>
  <2>1. Leaves("accepter")
    BY <1>2 DEF Leaves, Rests, Becomes, Enter, Grows, net, mem, hist
  <2>2. QED
    BY <1>2, <2>1 DEF Works
<1>3. CASE At("accepter", "accept") /\ Accepted("accepter", s) /\ Go("accepter", "bind")
           /\ UNCHANGED <<accepts, port, deque, on>>
  <2>1. s \in Slots
    BY <1>3, ThreadFacts DEF TypeOK, PcOK, Fits, Working, At
  <2>2. Accepts(s)
    BY <1>3 DEF Accepts, Go, Stays, Becomes
  <2>3. AccepterWorks("accepter")
    BY <2>1, <2>2 DEF AccepterWorks
  <2>4. QED
    BY <1>3, <2>3 DEF Works
<1>4. CASE At("accepter", "accept") /\ AcceptFailed /\ Rest("accepter")
           /\ UNCHANGED <<accepts, port, mem, hist, on>>
  <2>1. Refuses
    BY <1>4, RestIs, ThreadFacts DEF Refuses
  <2>2. QED
    BY <1>4, <2>1 DEF Works, AccepterWorks
<1>5. CASE At("accepter", "bind") /\ UNCHANGED <<accepts, port, mem, hist, on>>
           /\ \E ok \in BOOLEAN : /\ BindRecv01(s, ok)
                                  /\ IF ok THEN Rest("accepter") ELSE Go("accepter", "ended")
  <2>1. s \in Slots
    BY <1>5, ThreadFacts DEF TypeOK, PcOK, Fits, Working, At
  <2>2. PICK ok \in BOOLEAN : BindRecv01(s, ok) /\ IF ok THEN Rest("accepter") ELSE Go("accepter", "ended")
    BY <1>5
  <2>3. Binds(s)
    <3>1. CASE ok = TRUE
      BY <1>5, <2>2, <3>1, RestIs, ThreadFacts DEF Binds, BindRecv01
    <3>2. CASE ok = FALSE
      BY <1>5, <2>2, <3>2 DEF Binds, BindRecv01, Go, Stays, Becomes
    <3>3. QED
      BY <3>1, <3>2
  <2>4. AccepterWorks("accepter")
    BY <2>1, <2>3 DEF AccepterWorks
  <2>5. QED
    BY <1>5, <2>4 DEF Works
<1>6. QED
  BY <1>1, <1>2, <1>3, <1>4, <1>5 DEF AccepterThread01

LEMMA Accepter05Is ==
    ASSUME TypeOK, ver \in Swapping, AccepterThread05
    PROVE  Works("accepter") /\ on' = on
<1>1. CASE At("accepter", "get") /\ ("accepter" \notin on \/ GetEmptySession05 = {})
  <2>1. Enter("accepter", "ended") /\ UNCHANGED ses /\ UNCHANGED <<net, deque, hist, on>>
    BY <1>1 DEF AccepterThread05, At
  <2>2. Leaves("accepter")
    BY <1>1, <2>1 DEF Leaves, Rests, Becomes, Enter, Grows, net, mem, hist
  <2>3. QED
    BY <2>1, <2>2 DEF Works
<1>2. CASE At("accepter", "get") /\ ~("accepter" \notin on \/ GetEmptySession05 = {})
  <2>1. First(GetEmptySession05) \in GetEmptySession05
    BY <1>2, FirstIn, SlotFacts DEF GetEmptySession05
  <2>2. /\ pc' = [pc EXCEPT !["accepter"] = [Local("accept") EXCEPT !.s = First(GetEmptySession05)]]
        /\ ses' = [ses EXCEPT ![First(GetEmptySession05)].active = TRUE]
        /\ UNCHANGED <<net, deque, hist, on>>
    BY <1>2 DEF AccepterThread05, At
  <2>3. Chooses(First(GetEmptySession05)) /\ First(GetEmptySession05) \in Slots
    BY <1>2, <2>1, <2>2 DEF Chooses, Becomes, GetEmptySession05
  <2>4. AccepterWorks("accepter")
    BY <2>3 DEF AccepterWorks
  <2>5. QED
    BY <2>2, <2>4 DEF Works
<1>3. CASE pc["accepter"].at \in {"accept", "bind"} /\ AccepterThread03
  BY <1>3, Accepter01Is DEF AccepterThread03, At, Swapping, Reusing
<1>4. QED
  BY <1>1, <1>2, <1>3 DEF AccepterThread05

LEMMA Accepter07Is ==
    ASSUME TypeOK, ver \in Reusing, AccepterThread07 \/ AccepterThread08
    PROVE  Works("accepter") /\ on' = on
<1>1. CASE At("accepter", "get") /\ Enter("accepter", "ended") /\ UNCHANGED <<net, mem, hist, on>>
  <2>1. Leaves("accepter")
    BY <1>1 DEF Leaves, Rests, Becomes, Enter, Grows, net, mem, hist
  <2>2. QED
    BY <1>1, <2>1 DEF Works
<1>2. ASSUME NEW s \in Slots, At("accepter", "get"), ~ses[s].active, ses[s].closed = "long ago", Offer07(s),
             UNCHANGED <<conn, port, deque, pc, on>>
      PROVE  Works("accepter") /\ on' = on
  <2>1. accepts' \in {accepts, Append(accepts, s)} /\ marks \subseteq marks' /\ marks' \subseteq marks \cup {"early"}
    BY <1>2 DEF Offer07, AcceptEx, Mark, hist
  <2>2. Offers(s)
    BY <1>2, <2>1 DEF Offers, Grows, Offer07
  <2>3. AccepterWorks("accepter")
    BY <2>2 DEF AccepterWorks
  <2>4. QED
    BY <1>2, <2>3 DEF Works
<1>3. CASE AccepterThread07
  BY <1>1, <1>2, <1>3 DEF AccepterThread07, BindAccept07, Offer07
<1>4. CASE AccepterThread08
  BY <1>1, <1>2, <1>4, ThreadFacts DEF AccepterThread08, LoopUntil08, Offer07, At
<1>5. QED
  BY <1>3, <1>4

LEMMA Fetch01Is ==
    ASSUME NEW w \in Workers, WorkerThread01(w) \/ PostTerminateMsg01(w, "repost", "ended")
                                \/ PostToken(w, "repost", "ended")
    PROVE  Works(w) /\ on' = on
<1>1. Fetches(w) \/ Reposts(w)
  BY DEF Fetches, Reposts, PostTerminateMsg01
<1>2. on' = on
  BY DEF WorkerThread01, PostTerminateMsg01, PostToken
<1>3. QED
  BY <1>1, <1>2 DEF Works, WorkerWorks

LEMMA Rebind01Is ==
    ASSUME NEW w \in Workers, ver \notin Reusing, Rebind01(w)
    PROVE  Works(w) /\ on' = on
<1>1. PICK ok \in BOOLEAN : BindRecv01(pc[w].s, ok) /\ IF ok THEN Rest(w) ELSE Go(w, "close")
  BY DEF Rebind01
<1>2. Rebinds(w)
  <2>1. CASE ok = TRUE
    BY <1>1, <2>1, RestIs, ThreadFacts DEF Rebinds, Rebind01, BindRecv01
  <2>2. CASE ok = FALSE
    BY <1>1, <2>2 DEF Rebinds, Rebind01, BindRecv01, Go, Stays, Becomes
  <2>3. QED
    BY <2>1, <2>2
<1>3. QED
  BY <1>2 DEF Works, WorkerWorks, Rebind01

LEMMA Dispatch01Is ==
    ASSUME TypeOK, NEW w \in Workers, ver \in OneBuffer, DispatchOverlapped01(w) \/ DispatchOverlapped03(w)
    PROVE  Works(w) /\ on' = on
<1>1. CASE At(w, "got") /\ Received01(w) /\ (\E ok \in BOOLEAN : SendMsg01(pc[w].s, Data01(w), ok))
           /\ Go(w, "rebind") /\ UNCHANGED <<accepts, port, deque, hist, on>>
  <2>1. Echoes(w)
    BY <1>1 DEF Echoes, Go, Stays, Becomes
  <2>2. QED
    BY <1>1, <2>1 DEF Works, WorkerWorks
<1>2. CASE At(w, "got") /\ ~Received01(w) /\ Rest(w) /\ UNCHANGED <<net, mem, hist, on>>
  <2>1. Leaves(w)
    BY <1>2, RestIs, ThreadFacts DEF Leaves, Received01, Copying, Grows, net, mem, hist
  <2>2. QED
    BY <1>2, <2>1 DEF Works
<1>3. CASE Rebind01(w)
  BY <1>3, Rebind01Is DEF OneBuffer, Reusing
<1>4. QED
  BY <1>1, <1>2, <1>3 DEF DispatchOverlapped01, DispatchOverlapped03, OnRecv03

LEMMA Close01Is ==
    ASSUME NEW w \in Workers, ver \in Copying, CloseSocket01(w)
    PROVE  Works(w) /\ on' = on
<1>1. CASE At(w, "close") /\ closesocket(pc[w].s) /\ Go(w, "clear") /\ UNCHANGED <<accepts, port, mem, hist, on>>
  <2>1. Shuts(w)
    BY <1>1 DEF Shuts, Go, Stays, Becomes
  <2>2. QED
    BY <1>1, <2>1 DEF Works, CloserWorks
<1>2. CASE At(w, "clear") /\ ClearClientInfo01(pc[w].s) /\ Rest(w) /\ UNCHANGED <<net, deque, hist, on>>
  <2>1. Clears(w)
    BY <1>2, RestIs, ThreadFacts DEF Clears, ClearClientInfo01, Grows, hist
  <2>2. QED
    BY <1>2, <2>1 DEF Works, CloserWorks
<1>3. QED
  BY <1>1, <1>2 DEF CloseSocket01

(* What a thread of Practice01 does is a step of the vocabulary; likewise  *)
(* each other practice below.                                              *)
LEMMA Thread01Is ==
    ASSUME TypeOK, StartInv, NEW t \in Threads, ver = "01", Thread01(t)
    PROVE  IF t = "main" THEN Manages ELSE Acts(t)
<1>1. CASE t = "main"
  BY <1>1, Main01Is, ThreadFacts DEF Thread01
<1>2. CASE t = "accepter"
  BY <1>2, Accepter01Is, ActsIs, ThreadFacts DEF Thread01, Reusing, Copying, OneBuffer
<1>3. CASE t \in Workers
  <2>1. Worker01(t)
    BY <1>3, ThreadFacts DEF Thread01
  <2>2. Works(t) /\ on' = on
    BY <1>3, <2>1, Fetch01Is, Dispatch01Is, Close01Is DEF Worker01, Copying, OneBuffer
  <2>3. QED
    BY <1>3, <2>2, ActsIs, ThreadFacts
<1>4. QED
  BY <1>1, <1>2, <1>3 DEF Thread01

LEMMA Thread02Is ==
    ASSUME TypeOK, StartInv, NEW t \in Threads, ver = "02", Thread02(t)
    PROVE  IF t = "main" THEN Manages ELSE Acts(t)
<1>1. CASE t = "main"
  BY <1>1, Main01Is, ThreadFacts DEF Thread02, Main02
<1>2. CASE t = "accepter"
  BY <1>2, Accepter01Is, ActsIs, ThreadFacts DEF Thread02, AccepterThread02, Reusing, Copying, OneBuffer
<1>3. CASE t \in Workers
  <2>1. Worker02(t)
    BY <1>3, ThreadFacts DEF Thread02
  <2>2. Works(t) /\ on' = on
    BY <1>3, <2>1, Fetch01Is, Dispatch01Is, Close01Is DEF Worker02, CloseSocket02, Copying, OneBuffer
  <2>3. QED
    BY <1>3, <2>2, ActsIs, ThreadFacts
<1>4. QED
  BY <1>1, <1>2, <1>3 DEF Thread02

LEMMA Thread03Is ==
    ASSUME TypeOK, StartInv, NEW t \in Threads, ver = "03", Thread03(t)
    PROVE  IF t = "main" THEN Manages ELSE Acts(t)
<1>1. CASE t = "main"
  BY <1>1, Main03Is, ThreadFacts DEF Thread03
<1>2. CASE t = "accepter"
  BY <1>2, Accepter01Is, ActsIs, ThreadFacts DEF Thread03, AccepterThread03, Reusing, Copying, OneBuffer
<1>3. CASE t \in Workers
  <2>1. Worker03(t)
    BY <1>3, ThreadFacts DEF Thread03
  <2>2. Works(t) /\ on' = on
    BY <1>3, <2>1, Fetch01Is, Dispatch01Is, Close01Is DEF Worker03, WorkerLoop03, CloseSocket03, Copying, OneBuffer
  <2>3. QED
    BY <1>3, <2>2, ActsIs, ThreadFacts
<1>4. QED
  BY <1>1, <1>2, <1>3 DEF Thread03

LEMMA Thread03RIs ==
    ASSUME TypeOK, StartInv, NEW t \in Threads, ver = "03R", Thread03R(t)
    PROVE  IF t = "main" THEN Manages ELSE Acts(t)
<1>1. CASE t = "main"
  BY <1>1, Main03RIs, ThreadFacts DEF Thread03R
<1>2. CASE t = "accepter"
  BY <1>2, Accepter01Is, ActsIs, ThreadFacts
     DEF Thread03R, AccepterThread03R, AccepterThread03, Reusing, Copying, OneBuffer
<1>3. CASE t \in Workers
  <2>1. Worker03R(t)
    BY <1>3, ThreadFacts DEF Thread03R
  <2>2. Works(t) /\ on' = on
    BY <1>3, <2>1, Fetch01Is, Dispatch01Is, Close01Is
       DEF Worker03R, WorkerLoop03, CloseSocket03R, CloseSocket03, Copying, OneBuffer
  <2>3. QED
    BY <1>3, <2>2, ActsIs, ThreadFacts
<1>4. QED
  BY <1>1, <1>2, <1>3 DEF Thread03R

LEMMA Queue04Is ==
    ASSUME NEW w \in Workers, ver \notin OneBuffer,
           At(w, "got"), pc[w].op = "recv", EnqueuePacket04(pc[w].s, pc[w].ms), Go(w, "rebind"),
           UNCHANGED <<net, ses, hist, on>>
    PROVE  Works(w) /\ on' = on
<1>1. Queues(w)
  BY DEF Queues, EnqueuePacket04, Go, Stays, Becomes, Grows, hist
<1>2. QED
  BY <1>1 DEF Works, WorkerWorks

LEMMA Dispatch04Is ==
    ASSUME NEW w \in Workers, ver \notin OneBuffer, ver \notin Reusing, DispatchOverlapped04(w),
           pc[w].op # "send" \/ ver = "04"
    PROVE  Works(w) /\ on' = on
<1>1. CASE At(w, "got") /\ pc[w].op = "recv"
  BY <1>1, Queue04Is DEF DispatchOverlapped04, Rebind01, At
<1>2. CASE At(w, "got") /\ pc[w].op = "send" /\ Rest(w) /\ UNCHANGED <<net, mem, hist, on>>
  <2>1. Leaves(w)
    BY <1>2, RestIs, ThreadFacts DEF Leaves, Copying, Grows, net, mem, hist
  <2>2. QED
    BY <1>2, <2>1 DEF Works
<1>3. CASE Rebind01(w)
  BY <1>3, Rebind01Is
<1>4. QED
  BY <1>1, <1>2, <1>3 DEF DispatchOverlapped04

(* The packet thread takes a packet (Practice04 to Practice07_Refactor).   *)
LEMMA Packet04Is ==
    ASSUME TypeOK, ver \notin OneBuffer, ver # "08", PacketProcessThread04,
           ~At("packet", "send") \/ ver = "04"
    PROVE  Works("packet") /\ on' = on
<1>1. CASE At("packet", "take") /\ Enter("packet", "ended") /\ UNCHANGED <<net, mem, hist, on>>
  <2>1. Leaves("packet")
    BY <1>1 DEF Leaves, Rests, Becomes, Enter, Grows, net, mem, hist
  <2>2. QED
    BY <1>1, <2>1 DEF Works
<1>2. CASE At("packet", "take") /\ deque # <<>> /\ deque' = Tail(deque) /\ UNCHANGED <<net, ses, hist, on>>
           /\ pc' = [pc EXCEPT !["packet"] = [Local("send") EXCEPT !.s = DequePacket04.s, !.ms = DequePacket04.ms]]
  <2>1. Dequeues
    BY <1>2 DEF Dequeues, Becomes, DequePacket04
  <2>2. QED
    BY <1>2, <2>1 DEF Works, PacketWorks
<1>3. CASE At("packet", "send") /\ (\E ok \in BOOLEAN : SendMsg04(pc["packet"].s, pc["packet"].ms, ok))
           /\ Rest("packet") /\ UNCHANGED <<accepts, port, mem, hist, on>>
  <2>1. Answers
    BY <1>3, RestIs, ThreadFacts DEF Answers, SendMsg04
  <2>2. QED
    BY <1>3, <2>1 DEF Works, PacketWorks
<1>4. QED
  BY <1>1, <1>2, <1>3 DEF PacketProcessThread04

LEMMA Thread04Is ==
    ASSUME TypeOK, StartInv, NEW t \in Threads, ver = "04", Thread04(t)
    PROVE  IF t = "main" THEN Manages ELSE Acts(t)
<1>1. CASE t = "main"
  BY <1>1, Main04Is, ThreadFacts DEF Thread04
<1>2. CASE t = "accepter"
  BY <1>2, Accepter01Is, ActsIs, ThreadFacts
     DEF Thread04, AccepterThread04, AccepterThread03R, AccepterThread03, Reusing, Copying
<1>3. CASE t = "packet"
  BY <1>3, Packet04Is, ActsIs, ThreadFacts DEF Thread04, OneBuffer
<1>4. CASE t \in Workers
  <2>1. Worker04(t)
    BY <1>4, ThreadFacts DEF Thread04
  <2>2. ver \notin OneBuffer /\ ver \notin Reusing /\ ver \in Copying
    BY DEF OneBuffer, Reusing, Copying
  <2>3. Works(t) /\ on' = on
    BY <1>4, <2>1, <2>2, Fetch01Is, Dispatch04Is, Close01Is
       DEF Worker04, WorkerLoop04, CloseSocket04, CloseSocket03R, CloseSocket03
  <2>4. QED
    BY <1>4, <2>3, ActsIs, ThreadFacts
<1>5. QED
  BY <1>1, <1>2, <1>3, <1>4 DEF Thread04

LEMMA Packet05Is ==
    ASSUME TypeOK, ver \in {"05", "07", "07R"},
           \/ PacketProcessThread05
           \/ PacketProcessThread07R
    PROVE  Works("packet") /\ on' = on
<1> DEFINE s == pc["packet"].s
<1>1. CASE At("packet", "take") /\ PacketProcessThread04
  BY <1>1, Packet04Is DEF OneBuffer, At
<1>2. ASSUME At("packet", "send"), ses' = [ses EXCEPT ![s].out = @ \o pc["packet"].ms],
             ~(At("sender", "movefront") /\ pc["sender"].s = s), Rest("packet"), UNCHANGED <<net, deque, hist, on>>
      PROVE  Works("packet") /\ on' = on
  <2>1. Puts
    BY <1>2, RestIs, ThreadFacts DEF Puts
  <2>2. QED
    BY <1>2, <2>1 DEF Works, PacketWorks
<1>3. CASE PacketProcessThread05
  BY <1>1, <1>2, <1>3 DEF PacketProcessThread05, EnqueueSendData05, Locked05
<1>4. CASE PacketProcessThread07R
  BY <1>1, <1>2, <1>3, <1>4
     DEF PacketProcessThread07R, PacketProcessThread07, PacketProcessThread05, EnqueueSendData07R, Locked07R, At
<1>5. QED
  BY <1>3, <1>4

(* The sender up to is_sending_, and MoveFront.                            *)
LEMMA Sender05Is ==
    ASSUME TypeOK, ver \in {"05", "07", "07R"}, ~At("sender", "wsasend"), SenderThread05
    PROVE  Works("sender") /\ on' = on
<1>1. CASE /\ At("sender", "scan") /\ Enter("sender", "ended") /\ UNCHANGED <<net, mem, hist, on>>
  <2>1. Leaves("sender")
    BY <1>1 DEF Leaves, Rests, Becomes, Enter, Grows, net, mem, hist
  <2>2. QED
    BY <1>1, <2>1 DEF Works
<1>2. CASE /\ At("sender", "scan") /\ UNCHANGED <<net, mem, hist, on>>
           /\ \E s \in Slots : /\ HasSendData05(s)
                               /\ pc' = [pc EXCEPT !["sender"] = [Local("cas") EXCEPT !.s = s]]
  <2>1. \E s \in Slots : Finds(s)
    BY <1>2 DEF Finds, HasSendData05, Becomes
  <2>2. QED
    BY <1>2, <2>1 DEF Works, SenderWorks
<1>3. CASE /\ At("sender", "cas") /\ Rest("sender") /\ UNCHANGED <<net, mem, hist, on>>
  <2>1. Leaves("sender")
    BY <1>3, RestIs, ThreadFacts DEF Leaves, Grows, net, mem, hist
  <2>2. QED
    BY <1>3, <2>1 DEF Works
<1>4. CASE /\ At("sender", "cas") /\ ~ses[pc["sender"].s].sending
           /\ ses' = [ses EXCEPT ![pc["sender"].s].sending = TRUE] /\ Go("sender", "wsasend")
           /\ UNCHANGED <<net, deque, hist, on>>
  <2>1. Claims
    BY <1>4 DEF Claims, Go, Stays, Becomes
  <2>2. QED
    BY <1>4, <2>1 DEF Works, SenderWorks
<1>5. CASE /\ At("sender", "movefront") /\ MoveFront05(pc["sender"].s, pc["sender"].ms) /\ Rest("sender")
           /\ UNCHANGED <<net, deque, hist, on>>
  <2>1. Advances
    BY <1>5, RestIs, ThreadFacts DEF Advances
  <2>2. QED
    BY <1>5, <2>1 DEF Works, SenderWorks
<1>6. QED
  BY <1>1, <1>2, <1>3, <1>4, <1>5 DEF SenderThread05, BindSend05, TakeSending05

LEMMA Send05Is ==
    ASSUME TypeOK, ver = "05", At("sender", "wsasend"), BindSend05
    PROVE  Works("sender") /\ on' = on
<1> DEFINE s == pc["sender"].s
<1>1. SendsAt("wsasend")
  BY DEF SendsAt
<1>2. UNCHANGED <<accepts, port, mem, on>>
  BY DEF BindSend05, TakeSending05, At
<1>3. CASE WSASend(s, ses[s].out, TRUE) /\ UNCHANGED hist
           /\ pc' = [pc EXCEPT !["sender"] = [@ EXCEPT !.at = "movefront", !.ms = ses[s].out]]
  <2>1. Posts(TRUE)
    BY <1>1, <1>2, <1>3 DEF Posts, Becomes, Grows, hist
  <2>2. QED
    BY <1>2, <2>1 DEF Works, SenderWorks
<1>4. CASE WSASend(s, ses[s].out, TRUE) /\ marks' = marks \cup {"late"} /\ Go("sender", "movefront")
  <2>1. Posts(FALSE)
    BY <1>1, <1>2, <1>4 DEF Posts, Stays, Go, Becomes, Grows
  <2>2. QED
    BY <1>2, <2>1 DEF Works, SenderWorks
<1>5. CASE WSASend(s, ses[s].out, FALSE) /\ Go("sender", "close") /\ UNCHANGED hist
  <2>1. Fails
    BY <1>1, <1>2, <1>5 DEF Fails, Stays, Go, Becomes
  <2>2. QED
    BY <1>2, <2>1 DEF Works, SenderWorks
<1>6. QED
  BY <1>3, <1>4, <1>5 DEF BindSend05, TakeSending05, At

LEMMA Free05Is ==
    ASSUME TypeOK, NEW w \in Workers, ver \in {"05", "07", "07R"},
           At(w, "got"), pc[w].op = "send", ses' = [ses EXCEPT ![pc[w].s].sending = FALSE], Rest(w),
           UNCHANGED <<net, deque, hist, on>>
    PROVE  Works(w) /\ on' = on
<1>1. Frees(w)
  BY RestIs, ThreadFacts DEF Frees
<1>2. QED
  BY <1>1 DEF Works, WorkerWorks

LEMMA Dispatch05Is ==
    ASSUME TypeOK, NEW w \in Workers, ver \in {"05", "07", "07R"}, DispatchOverlapped05(w),
           ver = "05" \/ At(w, "got")
    PROVE  Works(w) /\ on' = on
<1>1. CASE At(w, "got") /\ pc[w].op = "recv"
  <2>1. EnqueuePacket04(pc[w].s, pc[w].ms) /\ Go(w, "rebind") /\ UNCHANGED <<net, ses, hist, on>>
    BY <1>1 DEF DispatchOverlapped05, DispatchOverlapped04, Rebind01, At
  <2>2. QED
    BY <1>1, <2>1, Queue04Is DEF OneBuffer
<1>2. CASE At(w, "got") /\ pc[w].op = "send"
  BY <1>2, Free05Is DEF DispatchOverlapped05, At
<1>3. CASE At(w, "rebind") /\ DispatchOverlapped04(w)
  BY <1>3, Rebind01Is DEF DispatchOverlapped04, At, Reusing
<1>4. QED
  BY <1>1, <1>2, <1>3 DEF DispatchOverlapped05

LEMMA Close05Is ==
    ASSUME TypeOK, NEW t \in Workers \cup {"sender"}, ver \notin Copying, CloseSocket05(t),
           ver \in Swapping \/ At(t, "closing")
    PROVE  Works(t) /\ on' = on
<1> DEFINE s == pc[t].s
<1>0. t \in Threads \ {"main"}
  BY ThreadFacts
<1>1. CASE At(t, "close") /\ ses[s].active
  <2>1. /\ ses' = [ses EXCEPT ![s].active = FALSE] /\ Go(t, "closing")
        /\ MarkIf(At("accepter", "accept") /\ pc["accepter"].s = s, "taken")
        /\ UNCHANGED <<net, deque, on>>
    BY <1>1 DEF CloseSocket05, At
  <2>2. s # None /\ ver \in Swapping
    BY <1>0, <1>1, SlotFacts, ThreadFacts DEF At, TypeOK, PcOK, Fits, Working, Swapping, Reusing
  <2>3. Ends(t)
    BY <1>1, <2>1, <2>2 DEF Ends, Go, Stays, Becomes
  <2>4. QED
    BY <2>1, <2>3 DEF Works, CloserWorks
<1>2. CASE At(t, "close") /\ ~ses[s].active
  <2>1. Rest(t) /\ UNCHANGED <<net, mem, hist, on>> /\ ver \in Swapping
    BY <1>2 DEF CloseSocket05, At
  <2>2. Leaves(t)
    BY <1>0, <1>2, <2>1, RestIs DEF Leaves, Grows, hist
  <2>3. QED
    BY <2>1, <2>2 DEF Works
<1>3. CASE At(t, "closing")
  <2>1. closesocket(s) /\ Go(t, "clear") /\ UNCHANGED <<accepts, port, mem, hist, on>>
    BY <1>3 DEF CloseSocket05, At
  <2>2. Shuts(t)
    BY <1>3, <2>1 DEF Shuts, Go, Stays, Becomes
  <2>3. QED
    BY <2>1, <2>2 DEF Works, CloserWorks
<1>4. QED
  BY <1>1, <1>2, <1>3 DEF CloseSocket05

LEMMA Clear05Is ==
    ASSUME TypeOK, NEW t \in Workers \cup {"sender"}, ver = "05", ClearSession05(t)
    PROVE  Works(t) /\ on' = on
<1>1. Clears(t)
  BY RestIs, ThreadFacts DEF ClearSession05, Clears, Grows, hist
<1>2. QED
  BY <1>1 DEF Works, CloserWorks, ClearSession05

LEMMA Thread05Is ==
    ASSUME TypeOK, StartInv, NEW t \in Threads, ver = "05", Thread05(t)
    PROVE  IF t = "main" THEN Manages ELSE Acts(t)
<1>0. ver \in Swapping /\ ver \notin Copying /\ ver \notin Reusing
  BY DEF Swapping, Copying, OneBuffer, Reusing
<1>1. CASE t = "main" /\ Main05
  BY <1>1, Main05Is
<1>2. CASE t = "accepter" /\ AccepterThread05
  BY <1>0, <1>2, Accepter05Is, ActsIs, ThreadFacts
<1>3. CASE t = "packet" /\ PacketProcessThread05
  BY <1>3, Packet05Is, ActsIs, ThreadFacts
<1>4. CASE t = "sender" /\ SenderThread05
  <2>1. CASE At("sender", "wsasend")
    BY <1>4, <2>1, Send05Is, ActsIs, ThreadFacts DEF SenderThread05, At
  <2>2. QED
    BY <1>4, <2>1, Sender05Is, ActsIs, ThreadFacts
<1>5. CASE t \in Workers /\ Worker05(t)
  <2>1. Works(t) /\ on' = on
    BY <1>5, Fetch01Is, Dispatch05Is DEF Worker05
  <2>2. QED
    BY <1>5, <2>1, ActsIs, ThreadFacts
<1>6. CASE t \in Workers \cup {"sender"} /\ (CloseSocket05(t) \/ ClearSession05(t))
  <2>1. Works(t) /\ on' = on
    BY <1>0, <1>6, Close05Is, Clear05Is
  <2>2. QED
    BY <1>6, <2>1, ActsIs, ThreadFacts
<1>7. QED
  BY <1>1, <1>2, <1>3, <1>4, <1>5, <1>6 DEF Thread05

LEMMA Packet06Is ==
    ASSUME TypeOK, ver = "06", PacketProcessThread06
    PROVE  Works("packet") /\ on' = on
<1>1. CASE At("packet", "take") /\ PacketProcessThread04
  BY <1>1, Packet04Is DEF OneBuffer, At
<1>2. CASE /\ At("packet", "send") /\ EnqueueSendData06(pc["packet"].s, pc["packet"].ms) /\ Rest("packet")
           /\ UNCHANGED <<accepts, port, deque, hist, on>>
  <2>1. Lines
    BY <1>2, RestIs, ThreadFacts DEF Lines
  <2>2. QED
    BY <1>2, <2>1 DEF Works, PacketWorks
<1>3. QED
  BY <1>1, <1>2 DEF PacketProcessThread06

LEMMA Thread06Is ==
    ASSUME TypeOK, StartInv, NEW t \in Threads, ver = "06", Thread06(t)
    PROVE  IF t = "main" THEN Manages ELSE Acts(t)
<1>0. ver \in Swapping /\ ver \notin Copying /\ ver \notin Reusing /\ ver \notin OneBuffer
  BY DEF Swapping, Copying, OneBuffer, Reusing
<1>1. CASE t = "main" /\ Main06
  BY <1>1, Main06Is
<1>2. CASE t = "accepter" /\ AccepterThread06
  BY <1>0, <1>2, Accepter05Is, ActsIs, ThreadFacts DEF AccepterThread06
<1>3. CASE t = "packet" /\ PacketProcessThread06
  BY <1>3, Packet06Is, ActsIs, ThreadFacts
<1>4. CASE t \in Workers /\ Worker06(t)
  <2> SUFFICES Works(t) /\ on' = on
    BY <1>4, ActsIs, ThreadFacts
  <2>1. CASE pc[t].op # "send" /\ DispatchOverlapped04(t)
    BY <1>0, <1>4, <2>1, Dispatch04Is
  <2>2. CASE SendCompleted06(t)
    BY <1>4, <2>2 DEF Works, WorkerWorks, Pops, SendCompleted06
  <2>3. CASE CloseSocket06(t)
    BY <1>0, <1>4, <2>3, Close05Is DEF CloseSocket06
  <2>4. CASE ClearSession06(t)
    <3>1. Grows
      BY <2>4 DEF ClearSession06, MarkIf, Mark, Grows, hist
    <3>2. Clears(t)
      BY <1>4, <2>4, <3>1, RestIs, ThreadFacts DEF ClearSession06, Clears
    <3>3. QED
      BY <1>4, <2>4, <3>2 DEF Works, CloserWorks, ClearSession06
  <2>5. QED
    BY <1>4, <2>1, <2>2, <2>3, <2>4, Fetch01Is DEF Worker06, DispatchOverlapped06
<1>5. QED
  BY <1>1, <1>2, <1>3, <1>4 DEF Thread06

LEMMA Send07Is ==
    ASSUME TypeOK, ver \in {"07", "07R"}, At("sender", IF ver = "07R" THEN "send" ELSE "wsasend"),
           Send07(pc["sender"].s), UNCHANGED <<accepts, port, mem, on>>
    PROVE  Works("sender") /\ on' = on
<1> DEFINE s == pc["sender"].s
<1>1. SendsAt("wsasend") \/ SendsAt("send")
  BY DEF SendsAt
<1>2. CASE WSASend(s, ses[s].out, TRUE) /\ UNCHANGED hist
           /\ pc' = [pc EXCEPT !["sender"] = [@ EXCEPT !.at = "movefront", !.ms = ses[s].out]]
  <2>1. Posts(TRUE)
    BY <1>1, <1>2 DEF Posts, Becomes, Grows, hist
  <2>2. QED
    BY <2>1 DEF Works, SenderWorks
<1>3. CASE WSASend(s, ses[s].out, TRUE) /\ marks' = marks \cup {"late"} /\ Go("sender", "movefront")
  <2>1. Posts(FALSE)
    BY <1>1, <1>3 DEF Posts, Stays, Go, Becomes, Grows
  <2>2. QED
    BY <2>1 DEF Works, SenderWorks
<1>4. CASE WSASend(s, ses[s].out, FALSE) /\ Go("sender", "movefront") /\ UNCHANGED hist
  <2>1. Fails
    BY <1>1, <1>4 DEF Fails, Stays, Go, Becomes
  <2>2. QED
    BY <2>1 DEF Works, SenderWorks
<1>5. QED
  BY <1>2, <1>3, <1>4 DEF Send07

LEMMA Null07Is ==
    ASSUME TypeOK, NEW w \in Workers, ver \in Reusing, CheckGQCSResult07(w)
    PROVE  Works(w) /\ on' = on
<1>1. Leaves(w)
  BY DEF CheckGQCSResult07, Mark, Leaves, Rests, Becomes, Enter, Grows
<1>2. QED
  BY <1>1 DEF Works, CheckGQCSResult07

LEMMA Rebind07Is ==
    ASSUME TypeOK, NEW w \in Workers, ver \in Reusing, BindRecv07(w)
    PROVE  Works(w) /\ on' = on
<1>1. Rebinds(w)
  BY RestIs, ThreadFacts DEF Rebinds, BindRecv07
<1>2. QED
  BY <1>1 DEF Works, WorkerWorks, BindRecv07

LEMMA Unbound07Is ==
    ASSUME TypeOK, NEW w \in Workers, ver \in Reusing, BindFailed07(w)
    PROVE  Works(w) /\ on' = on
<1>1. Unbinds(w)
  BY ThreadFacts DEF Unbinds, BindFailed07, Becomes, TypeOK, PcOK
<1>2. QED
  BY <1>1 DEF Works, WorkerWorks, BindFailed07

(* op_type_ is misread.                                                    *)
LEMMA Misread07Is ==
    ASSUME TypeOK, NEW w \in Workers, ver \in {"07", "07R"}, Misreads07(w)
    PROVE  Misreads(w)
<1>1. marks \subseteq marks' /\ "misread" \in marks' /\ UNCHANGED <<net, mem, on>>
  BY DEF Misreads07, Mark
<1>2. pc \in [Threads -> PcRec] /\ w \in Threads
  BY ThreadFacts DEF TypeOK, PcOK
<1>3. CASE At(w, "third") /\ Rest(w)
  BY <1>1, <1>3, RestIs, ThreadFacts DEF Misreads
<1>4. CASE At(w, "third") /\ pc' = [pc EXCEPT ![w] = [Local("got") EXCEPT !.s = 1, !.op = "accept"]]
  BY <1>1, <1>4 DEF Misreads, Becomes
<1>5. CASE /\ pc[w].at \in {"close", "got"} /\ pc[w].op \in {"recv", "send"}
           /\ pc' = [pc EXCEPT ![w].at = IF @ = "close" THEN "got" ELSE "third"]
  <2>1. CASE At(w, "close")
    <3>1. Becomes(w, [pc[w] EXCEPT !.at = "got"])
      BY <1>2, <1>5, <2>1 DEF Becomes, At
    <3>2. QED
      BY <1>1, <1>5, <2>1, <3>1 DEF Misreads
  <2>2. CASE At(w, "got")
    <3>1. Becomes(w, [pc[w] EXCEPT !.at = "third"])
      BY <1>2, <1>5, <2>2 DEF Becomes, At
    <3>2. QED
      BY <1>1, <1>5, <2>2, <3>1 DEF Misreads
  <2>3. QED
    BY <1>5, <2>1, <2>2 DEF At
<1>6. QED
  BY <1>3, <1>4, <1>5 DEF Misreads07

LEMMA Dispatch07Is ==
    ASSUME TypeOK, NEW w \in Workers, ver \in {"07", "07R"}, DispatchOverlapped07(w)
    PROVE  Misreads(w) \/ (Works(w) /\ on' = on)
<1>1. CASE At(w, "got") /\ DispatchOverlapped05(w)
  BY <1>1, Dispatch05Is
<1>2. CASE /\ At(w, "got") /\ pc[w].op = "accept"
           /\ ses' = [ses EXCEPT ![pc[w].s].active = TRUE] /\ Go(w, "rebind")
           /\ UNCHANGED <<net, deque, hist, on>>
  <2>1. Activates(w)
    BY <1>2 DEF Activates, Go, Stays, Becomes, Reusing
  <2>2. QED
    BY <1>2, <2>1 DEF Works, WorkerWorks
<1>3. CASE BindRecv07(w)
  BY <1>3, Rebind07Is DEF Reusing
<1>4. CASE BindFailed07(w)
  BY <1>4, Unbound07Is DEF Reusing
<1>5. CASE Misreads07(w)
  BY <1>5, Misread07Is
<1>6. QED
  BY <1>1, <1>2, <1>3, <1>4, <1>5 DEF DispatchOverlapped07, AcceptCompleted07

LEMMA Close07Is ==
    ASSUME TypeOK, NEW t \in Workers \cup {"sender"}, ver \in Reusing, CloseSocket07(t),
           ver # "08" \/ At(t, "closing")
    PROVE  Works(t) /\ on' = on
<1> DEFINE s == pc[t].s
<1>1. CASE At(t, "closing") /\ CloseSocket05(t)
  BY <1>1, Close05Is DEF Reusing, Copying, OneBuffer
<1>2. ASSUME At(t, "close"), s # None, ses' = [ses EXCEPT ![s].closed = "max", ![s].active = FALSE],
             IF ses[s].active THEN Go(t, "closing") ELSE Rest(t),
             UNCHANGED <<net, deque, hist, on>>
      PROVE  Works(t) /\ on' = on
  <2>1. CASE ses[s].active
    <3>1. Ends(t)
      BY <1>2, <2>1 DEF Ends, Go, Stays, Becomes
    <3>2. QED
      BY <1>2, <3>1 DEF Works, CloserWorks
  <2>2. CASE ~ses[s].active
    <3>1. Blocks(t)
      BY <1>2, <2>2, RestIs, ThreadFacts DEF Blocks
    <3>2. QED
      BY <1>2, <3>1 DEF Works, CloserWorks
  <2>3. QED
    BY <2>1, <2>2
<1>3. QED
  BY <1>1, <1>2 DEF CloseSocket07, At

LEMMA Clear07Is ==
    ASSUME TypeOK, NEW t \in Workers \cup {"sender"}, ver \in Reusing, ClearSession07(t),
           ver = "07R" => ~Locked07R(pc[t].s)
    PROVE  Works(t) /\ on' = on
<1>1. Clears(t)
  BY RestIs, ThreadFacts DEF ClearSession07, Cleared07, Clears, Grows, hist
<1>2. QED
  BY <1>1 DEF Works, CloserWorks, ClearSession07

LEMMA Thread07Is ==
    ASSUME TypeOK, StartInv, NEW t \in Threads, ver = "07", Thread07(t)
    PROVE  IF t = "main" THEN Manages ELSE Acts(t) \/ Misreads(t)
<1>0. ver \in Reusing
  BY DEF Reusing
<1>1. CASE t = "main" /\ Main07
  BY <1>1, Main07Is
<1>2. CASE t = "accepter" /\ AccepterThread07
  BY <1>0, <1>2, Accepter07Is, ActsIs, ThreadFacts
<1>3. CASE t = "packet" /\ PacketProcessThread07
  BY <1>3, Packet05Is, ActsIs, ThreadFacts DEF PacketProcessThread07
<1>4. CASE t = "sender" /\ SenderThread07
  <2> SUFFICES Works("sender") /\ on' = on
    BY <1>4, ActsIs, ThreadFacts
  <2>1. CASE At("sender", "wsasend")
    BY <1>4, <2>1, Send07Is DEF SenderThread07, BindSend07, At
  <2>2. CASE ~At("sender", "wsasend")
    <3>1. SenderThread05
      BY <1>4, <2>2 DEF SenderThread07, BindSend07, SenderThread05
    <3>2. QED
      BY <2>2, <3>1, Sender05Is
  <2>3. QED
    BY <2>1, <2>2
<1>5. CASE t \in Workers /\ Worker07(t)
  <2>1. Misreads(t) \/ (Works(t) /\ on' = on)
    BY <1>0, <1>5, Fetch01Is, Null07Is, Dispatch07Is, Close07Is, Clear07Is DEF Worker07, WorkerLoop07
  <2>2. QED
    BY <1>5, <2>1, ActsIs, ThreadFacts
<1>6. QED
  BY <1>1, <1>2, <1>3, <1>4, <1>5 DEF Thread07

LEMMA Thread07RIs ==
    ASSUME TypeOK, StartInv, NEW t \in Threads, ver = "07R", Thread07R(t)
    PROVE  IF t = "main" THEN Manages ELSE Acts(t) \/ Misreads(t)
<1>0. ver \in Reusing
  BY DEF Reusing
<1>1. CASE t = "main" /\ Main07R
  BY <1>1, Main07Is DEF Main07R, EchoServer07R, Main07
<1>2. CASE t = "accepter" /\ AccepterThread07R
  BY <1>0, <1>2, Accepter07Is, ActsIs, ThreadFacts DEF AccepterThread07R
<1>3. CASE t = "packet" /\ PacketProcessThread07R
  BY <1>3, Packet05Is, ActsIs, ThreadFacts
<1>4. CASE t = "sender" /\ SenderThread07R
  <2> SUFFICES Works("sender") /\ on' = on
    BY <1>4, ActsIs, ThreadFacts
  <2>1. CASE CheckActivated07R
    <3>1. Checks
      BY <2>1 DEF CheckActivated07R, Checks, Go, Stays, Becomes
    <3>2. QED
      BY <2>1, <3>1 DEF Works, SenderWorks, CheckActivated07R
  <2>2. CASE At("sender", "send") /\ Send07(pc["sender"].s) /\ UNCHANGED <<accepts, port, mem, on>>
    BY <2>2, Send07Is
  <2>3. CASE CloseSocket07R("sender")
    BY <1>0, <2>3, Close07Is DEF CloseSocket07R
  <2>4. CASE ClearSession07R("sender")
    BY <1>0, <2>4, Clear07Is DEF ClearSession07R
  <2>5. CASE At("sender", "cas") /\ BindSend07
    <3>1. SenderThread05 /\ ~At("sender", "wsasend")
      BY <2>5 DEF BindSend07, SenderThread05, At
    <3>2. QED
      BY <3>1, Sender05Is
  <2>6. CASE At("sender", "movefront") /\ BindSend07
    <3>1. SenderThread05 /\ ~At("sender", "wsasend")
      BY <2>6 DEF BindSend07, SenderThread05, At
    <3>2. QED
      BY <3>1, Sender05Is
  <2>7. CASE At("sender", "scan") /\ SenderThread07
    <3>1. SenderThread05 /\ ~At("sender", "wsasend")
      BY <2>7 DEF SenderThread07, BindSend07, At
    <3>2. QED
      BY <3>1, Sender05Is
  <2>8. QED
    BY <1>4, <2>1, <2>2, <2>3, <2>4, <2>5, <2>6, <2>7 DEF SenderThread07R, BindSend07R, At
<1>5. CASE t \in Workers /\ Worker07R(t)
  <2>1. Misreads(t) \/ (Works(t) /\ on' = on)
    BY <1>0, <1>5, Fetch01Is, Null07Is, Dispatch07Is, Close07Is, Clear07Is
       DEF Worker07R, WorkerLoop07, CloseSocket07R, ClearSession07R
  <2>2. QED
    BY <1>5, <2>1, ActsIs, ThreadFacts
<1>6. QED
  BY <1>1, <1>2, <1>3, <1>4, <1>5 DEF Thread07R

LEMMA Dispatch08Is ==
    ASSUME TypeOK, NEW w \in Workers, ver = "08", DispatchOverlapped08(w)
    PROVE  Works(w) /\ on' = on
<1>1. CASE /\ At(w, "got") /\ pc[w].op = "accept"
           /\ OnConnect08(pc[w].s) /\ ses' = [ses EXCEPT ![pc[w].s].active = TRUE] /\ Go(w, "rebind")
           /\ UNCHANGED <<net, hist, on>>
  <2>1. Activates(w)
    BY <1>1 DEF Activates, OnConnect08, EnqueueSystemPacket08, Go, Stays, Becomes, Reusing
  <2>2. QED
    BY <1>1, <2>1 DEF Works, WorkerWorks
<1>2. CASE /\ At(w, "got") /\ pc[w].op = "recv"
           /\ OnRecv08(pc[w].s, pc[w].ms) /\ Go(w, "rebind")
           /\ UNCHANGED <<net, ses, on>>
  <2>1. Grows
    BY <1>2 DEF OnRecv08, Mark, Grows, hist
  <2>2. Queues(w)
    BY <1>2, <2>1 DEF Queues, OnRecv08, Go, Stays, Becomes, OneBuffer
  <2>3. QED
    BY <1>2, <2>2 DEF Works, WorkerWorks
<1>3. CASE BindRecv07(w)
  BY <1>3, Rebind07Is DEF Reusing
<1>4. CASE BindFailed07(w)
  BY <1>4, Unbound07Is DEF Reusing
<1>5. QED
  BY <1>1, <1>2, <1>3, <1>4 DEF DispatchOverlapped08

LEMMA Check08Is ==
    ASSUME TypeOK, NEW w \in Workers, ver = "08", CheckGQCSResult08(w)
    PROVE  Works(w) /\ on' = on
<1> DEFINE s == pc[w].s
<1>0. ver \in Reusing
  BY DEF Reusing
<1>1. CASE /\ At(w, "close") /\ s # None
           /\ IF pc[w].op = "accept" THEN UNCHANGED deque ELSE OnDisconnect08(s)
           /\ ses' = [ses EXCEPT ![s].closed = "max", ![s].active = FALSE]
           /\ IF ses[s].active THEN Go(w, "closing") ELSE Rest(w)
           /\ UNCHANGED <<net, hist, on>>
  <2>0. deque' \in {deque, Append(deque, [s |-> s, ms |-> <<>>])}
    BY <1>1 DEF OnDisconnect08, EnqueueSystemPacket08
  <2>1. CASE ses[s].active
    <3>1. Ends(w)
      BY <1>0, <1>1, <2>0, <2>1 DEF Ends, Go, Stays, Becomes
    <3>2. QED
      BY <1>1, <3>1 DEF Works, CloserWorks
  <2>2. CASE ~ses[s].active
    <3>1. Blocks(w)
      BY <1>0, <1>1, <2>0, <2>2, RestIs, ThreadFacts DEF Blocks
    <3>2. QED
      BY <1>1, <3>1 DEF Works, CloserWorks
  <2>3. QED
    BY <2>1, <2>2
<1>2. CASE At(w, "closing") /\ CloseSocket05(w)
  BY <1>0, <1>2, Close05Is DEF Reusing, Copying, OneBuffer
<1>3. QED
  BY <1>0, <1>1, <1>2, Null07Is, Clear07Is DEF CheckGQCSResult08

LEMMA Packet08Is ==
    ASSUME TypeOK, ver = "08", PacketProcessThread08
    PROVE  Works("packet") /\ on' \in {on, on \cup {"packet"}}
<1>1. CASE /\ At("packet", "begin") /\ on' = on \cup {"packet"} /\ Enter("packet", "take")
           /\ MarkIf(pc["main"].at = "join packet", "revived") /\ UNCHANGED <<net, mem>>
  <2>1. Grows
    <3>1. CASE Mark("revived")
      BY <3>1 DEF Mark, Grows
    <3>2. CASE UNCHANGED hist
      BY <3>2 DEF hist, Grows
    <3>3. QED
      BY <1>1, <3>1, <3>2 DEF MarkIf
  <2>2. Leaves("packet")
    BY <1>1, <2>1, ThreadFacts DEF Leaves, Rests, Becomes, Enter
  <2>3. QED
    BY <1>1, <2>2 DEF Works
<1>2. CASE /\ At("packet", "take") /\ Enter("packet", "ended") /\ UNCHANGED <<net, mem, hist, on>>
  <2>1. Leaves("packet")
    BY <1>2, ThreadFacts DEF Leaves, Rests, Becomes, Enter, Grows, hist, net, mem
  <2>2. QED
    BY <1>2, <2>1 DEF Works
<1>3. CASE /\ At("packet", "take") /\ deque # <<>> /\ deque' = Tail(deque)
           /\ \/ Enter("packet", "send")
              \/ UNCHANGED pc
           /\ UNCHANGED <<net, ses, hist, on>>
  <2>1. Dequeues
    BY <1>3 DEF Dequeues, Enter, Becomes, OneBuffer
  <2>2. QED
    BY <1>3, <2>1 DEF Works, PacketWorks
<1>4. CASE /\ At("packet", "send") /\ SendPacket08 /\ Enter("packet", "take") /\ UNCHANGED <<net, mem, on>>
  <2>1. Grows
    BY <1>4 DEF Grows, SendPacket08, Mark, hist
  <2>2. Leaves("packet")
    BY <1>4, <2>1, ThreadFacts DEF Leaves, Rests, Becomes, Enter
  <2>3. QED
    BY <1>4, <2>2 DEF Works
<1>5. QED
  BY <1>1, <1>2, <1>3, <1>4 DEF PacketProcessThread08

LEMMA Thread08Is ==
    ASSUME TypeOK, StartInv, NEW t \in Threads, ver = "08", Thread08(t)
    PROVE  IF t = "main" THEN Manages ELSE Acts(t)
<1>0. ver \in Reusing
  BY DEF Reusing
<1>1. CASE t = "main" /\ Main08
  BY <1>1, Main08Is
<1>2. CASE t = "accepter" /\ AccepterThread08
  BY <1>0, <1>2, Accepter07Is, ActsIs, ThreadFacts
<1>3. CASE t = "packet" /\ PacketProcessThread08
  BY <1>3, Packet08Is, ActsIs, ThreadFacts
<1>4. CASE t = "sender" /\ SenderThread08
  <2>1. Leaves("sender")
    BY <1>4, ThreadFacts DEF SenderThread08, LoopUntil08, Leaves, Rests, Becomes, Enter, Grows, hist, At
  <2>2. QED
    BY <1>4, <2>1, ActsIs, ThreadFacts DEF SenderThread08, LoopUntil08, Works
<1>5. CASE t = "redis" /\ ProcessTaskThread08
  <2>1. Leaves("redis")
    BY <1>5, ThreadFacts DEF ProcessTaskThread08, LoopUntil08, Leaves, Rests, Becomes, Enter, Grows, hist, At
  <2>2. QED
    BY <1>5, <2>1, ActsIs, ThreadFacts DEF ProcessTaskThread08, LoopUntil08, Works
<1>6. CASE t \in Workers /\ Worker08(t)
  <2>1. Works(t) /\ on' = on
    BY <1>6, Fetch01Is, Dispatch08Is, Check08Is DEF Worker08
  <2>2. QED
    BY <1>6, <2>1, ActsIs, ThreadFacts
<1>7. QED
  BY <1>1, <1>2, <1>3, <1>4, <1>5, <1>6 DEF Thread08

(* A step of a practice's thread.                                          *)
LEMMA StepIs ==
    ASSUME TypeOK, StartInv, NEW t \in Threads, Step(t)
    PROVE  (IF t = "main" THEN Manages ELSE Acts(t) \/ Misreads(t)) /\ UNCHANGED <<kind, ver>>
<1>1. UNCHANGED <<kind, ver>>
  BY DEF Step
<1>2. CASE ver = "01" /\ Thread01(t)
  BY <1>1, <1>2, Thread01Is
<1>3. CASE ver = "02" /\ Thread02(t)
  BY <1>1, <1>3, Thread02Is
<1>4. CASE ver = "03" /\ Thread03(t)
  BY <1>1, <1>4, Thread03Is
<1>5. CASE ver = "03R" /\ Thread03R(t)
  BY <1>1, <1>5, Thread03RIs
<1>6. CASE ver = "04" /\ Thread04(t)
  BY <1>1, <1>6, Thread04Is
<1>7. CASE ver = "05" /\ Thread05(t)
  BY <1>1, <1>7, Thread05Is
<1>8. CASE ver = "06" /\ Thread06(t)
  BY <1>1, <1>8, Thread06Is
<1>9. CASE ver = "07" /\ Thread07(t)
  BY <1>1, <1>9, Thread07Is
<1>10. CASE ver = "07R" /\ Thread07R(t)
  BY <1>1, <1>10, Thread07RIs
<1>11. CASE ver = "08" /\ Thread08(t)
  BY <1>1, <1>11, Thread08Is
<1>12. QED
  BY <1>2, <1>3, <1>4, <1>5, <1>6, <1>7, <1>8, <1>9, <1>10, <1>11 DEF Step

LEMMA AcceptDoneIs ==
    ASSUME TypeOK, AcceptDone
    PROVE  KernelRefuses \/ \E s \in Slots : KernelAccepts(s)
<1>1. accepts # <<>> /\ ver \in Reusing /\ accepts \in Seq(AllSlots) /\ Head(accepts) \in Slots
  BY DEF AcceptDone, TypeOK, QueuesOK
<1>2. CASE Accepted("kernel", Head(accepts)) /\ port' \in {port, Append(port, Done("accept", Head(accepts), TRUE, <<>>))}
  <2>1. KernelAccepts(Head(accepts))
    BY <1>1, <1>2 DEF AcceptDone, KernelAccepts
  <2>2. QED
    BY <1>1, <2>1
<1>3. CASE /\ AcceptFailed /\ UNCHANGED <<ses, hist>>
           /\ port' \in {port, Append(port, Done("accept", None, FALSE, <<>>))}
  BY <1>1, <1>3 DEF AcceptDone, KernelRefuses
<1>4. QED
  BY <1>2, <1>3 DEF AcceptDone

(* Every step of every practice is Known, or a worker of Practice07        *)
(* misreads op_type_: from here on the proofs look at the vocabulary only. *)
LEMMA NextIs ==
    ASSUME TypeOK, StartInv, [Next]_<<vars, ver>>
    PROVE  /\ UNCHANGED <<kind, ver>>
           /\ Known \/ (\E w \in Workers : Misreads(w)) \/ UNCHANGED <<vars, ver>>
<1>1. CASE ClientStep
  BY <1>1 DEF ClientStep, Alone, Clients, Known
<1>2. CASE KernelStep
  BY <1>2, AcceptDoneIs DEF KernelStep, Alone, Kernel, Known
<1>3. ASSUME NEW t \in Threads, Step(t)
      PROVE  UNCHANGED <<kind, ver>> /\ (Known \/ \E w \in Workers : Misreads(w))
  BY <1>3, StepIs DEF Known, Misreads
<1>4. CASE UNCHANGED <<vars, ver>>
  BY <1>4 DEF vars
<1>5. QED
  BY <1>1, <1>2, <1>3, <1>4 DEF Next

-----------------------------------------------------------------------------
(* Sequences *)

(* A sequence with one more or one fewer, without Append and Tail: what    *)
(* every proof below says of a queue follows from these two.               *)
LEMMA SeqAppend ==
    ASSUME NEW S, NEW q \in Seq(S), NEW e \in S
    PROVE  /\ Append(q, e) \in Seq(S) /\ Len(Append(q, e)) = Len(q) + 1 /\ Len(q) \in Nat
           /\ DOMAIN q = 1..Len(q) /\ DOMAIN Append(q, e) = 1..(Len(q) + 1)
           /\ \A i \in 1..Len(q) : Append(q, e)[i] = q[i]
           /\ Append(q, e)[Len(q) + 1] = e
  OBVIOUS

LEMMA SeqTail ==
    ASSUME NEW S, NEW q \in Seq(S), q # <<>>
    PROVE  /\ Tail(q) \in Seq(S) /\ Len(Tail(q)) = Len(q) - 1 /\ Len(q) \in Nat /\ Len(q) > 0
           /\ DOMAIN q = 1..Len(q) /\ DOMAIN Tail(q) = 1..(Len(q) - 1)
           /\ \A i \in 1..(Len(q) - 1) : Tail(q)[i] = q[i + 1]
           /\ Head(q) = q[1] /\ Head(q) \in S
  OBVIOUS

-----------------------------------------------------------------------------
(* Every step keeps the types *)

(* At which labels each thread may be, and hold a session.                 *)
LEMMA LabelFacts ==
  /\ \A w \in Workers : /\ ThreadLabels(w) = {"off", "wait", "repost", "got", "third", "rebind", "close", "closing", "clear", "ended"}
                       /\ MayHold(w) = {"got", "third", "rebind", "close", "closing", "clear"}
                       /\ Working(w) = {"got", "third", "rebind", "closing", "clear"} \cup (IF ver \in Reusing THEN {} ELSE {"close"})
  /\ ThreadLabels("accepter") = {"off", "get", "accept", "bind", "ended"}
  /\ Working("accepter") = {"accept", "bind"} /\ MayHold("accepter") = {"accept", "bind", "ended"}
  /\ ThreadLabels("sender") =
       {"off", "scan", "cas", "wsasend", "send", "movefront", "close", "closing", "clear", "ended"}
  /\ Working("sender") = {"cas", "wsasend", "send", "movefront", "close", "closing", "clear"}
  /\ MayHold("sender") = Working("sender")
  /\ ThreadLabels("packet") = {"off", "begin", "take", "send", "ended"}
  /\ Working("packet") = (IF ver = "08" THEN {} ELSE {"send"}) /\ MayHold("packet") = Working("packet")
  /\ ThreadLabels("redis") = {"off", "take", "ended"} /\ Working("redis") = {} /\ MayHold("redis") = {}
<1>1. \A w \in Workers : w \notin {"main", "accepter", "sender", "packet", "redis"}
  BY ThreadFacts
<1>2. QED
  BY <1>1 DEF ThreadLabels, Working, MayHold

(* A thread that rests or has ended keeps nothing.                         *)
LEMMA RestFits ==
    ASSUME NEW t \in Threads \ {"main"}
    PROVE  Fits(t, Local(FirstStep(t))) /\ Fits(t, Local("ended")) /\ Local("off") \in PcRec /\ Fits(t, Local("off"))
<1>1. CASE t \in Workers
  BY <1>1, ThreadFacts, LabelFacts DEF Fits, PcRec, Local, Labels, Text, Reusing
<1>2. CASE t \in {"accepter", "sender", "packet", "redis"}
  BY <1>2, ThreadFacts, LabelFacts DEF Fits, PcRec, Local, Labels, Text, Reusing
<1>3. QED
  BY <1>1, <1>2 DEF Threads

(* pc keeps its type when one thread moves.                                *)
LEMMA PcBecomes ==
    ASSUME TypeOK, NEW t \in Threads \ {"main"}, NEW r, Fits(t, r), Becomes(t, r), UNCHANGED ver, Slots' = Slots
    PROVE  PcOK'
<1>1. r \in PcRec
  BY DEF Fits
<1>2. pc' \in [Threads -> PcRec] /\ pc'["main"].s = None
  BY <1>1, ThreadFacts DEF TypeOK, PcOK, Becomes
<1>3. ASSUME NEW u \in Threads \ {"main"}
      PROVE  Fits(u, pc[u])'
  <2>1. Fits(u, pc'[u])
    BY DEF TypeOK, PcOK, Becomes
  <2>2. QED
    BY <2>1 DEF Fits, Working, MayHold
<1>4. QED
  BY <1>2, <1>3 DEF PcOK

LEMMA PcRests ==
    ASSUME TypeOK, NEW t \in Threads \ {"main"}, Rests(t), UNCHANGED ver, Slots' = Slots
    PROVE  PcOK'
  BY PcBecomes, RestFits DEF Rests

LEMMA PcStays ==
    ASSUME TypeOK, NEW t \in Threads \ {"main"}, NEW l \in ThreadLabels(t), Stays(t, l), UNCHANGED ver, Slots' = Slots,
           pc[t].s # None, l \in MayHold(t), l # "got"
    PROVE  PcOK'
<1>1. ThreadLabels(t) \subseteq Labels
  <2>1. CASE t \in Workers
    BY <2>1, LabelFacts DEF Labels
  <2>2. CASE t = "accepter"
    BY <2>2, LabelFacts DEF Labels, MainLabels
  <2>3. CASE t = "sender"
    BY <2>3, LabelFacts DEF Labels
  <2>4. CASE t \in {"packet", "redis"}
    BY <2>4, LabelFacts DEF Labels
  <2>5. QED
    BY <2>1, <2>2, <2>3, <2>4 DEF Threads
<1> DEFINE r == [Local(l) EXCEPT !.s = pc[t].s]
<1>2. pc[t].s \in {None} \cup AllSlots /\ (pc[t].s # None => pc[t].s \in Slots)
  BY DEF TypeOK, PcOK, Fits, PcRec
<1>3. r.at = l /\ r.s = pc[t].s
  BY DEF Local
<1>4. r \in PcRec
  <2>1. Local(l) \in PcRec
    BY <1>1, ThreadFacts DEF Local, PcRec, Text
  <2>2. QED
    BY <1>2, <2>1 DEF PcRec
<1>5. Fits(t, r)
  BY <1>2, <1>3, <1>4 DEF Fits
<1>6. QED
  BY <1>5, PcBecomes DEF Stays

LEMMA PcSame ==
    ASSUME TypeOK, UNCHANGED <<pc, ver>>, Slots' = Slots
    PROVE  PcOK'
  BY DEF TypeOK, PcOK, Fits, Working, MayHold

(* The pool keeps its type when one session changes.                       *)
LEMMA SesSet ==
    ASSUME TypeOK, UNCHANGED ver, NEW s \in Slots, NEW r \in SesRec, ses' = [ses EXCEPT ![s] = r]
    PROVE  SesOK' /\ Slots' = Slots
<1>1. SesRec' = SesRec
  BY DEF SesRec
<1>2. QED
  BY <1>1 DEF TypeOK, SesOK, Slots

LEMMA SesSame ==
    ASSUME TypeOK, UNCHANGED <<ses, ver>>
    PROVE  SesOK' /\ Slots' = Slots
<1>1. SesRec' = SesRec
  BY DEF SesRec
<1>2. QED
  BY <1>1 DEF TypeOK, SesOK, Slots

OpsFit(r) ==
  /\ \A i \in DOMAIN r.recvs : r.recvs[i] \in Slots
  /\ \A i \in DOMAIN r.sends : r.sends[i].s \in Slots

(* The connections keep their types when one of them changes.              *)
LEMMA ConnSet ==
    ASSUME TypeOK, NEW c \in Conns, NEW r \in ConnRec, OpsFit(r), conn' = [conn EXCEPT ![c] = r], Slots' = Slots
    PROVE  ConnOK' /\ OpsOK'
  BY DEF TypeOK, ConnOK, OpsOK, OpsFit

LEMMA ConnSame ==
    ASSUME TypeOK, UNCHANGED conn, Slots' = Slots
    PROVE  ConnOK' /\ OpsOK'
  BY DEF TypeOK, ConnOK, OpsOK

(* The port's queue, the deque and the accepts keep theirs.                *)
LEMMA PortAdd ==
    ASSUME TypeOK, NEW e \in Completion, UNCHANGED ver, Slots' = Slots, port' = Append(port, e),
           e.s # None => e.s \in Slots /\ e.op # "end",
           e.s = None => e.op = "end" \/ (e.op = "accept" /\ ~e.ok /\ ver \in Reusing)
    PROVE  PortOK'
  BY DEF TypeOK, PortOK

LEMMA PortSame ==
    ASSUME TypeOK, UNCHANGED <<port, ver>>, Slots' = Slots
    PROVE  PortOK'
  BY DEF TypeOK, PortOK

LEMMA QueuesSame ==
    ASSUME TypeOK, UNCHANGED <<accepts, deque, ver>>, Slots' = Slots
    PROVE  QueuesOK'
  BY DEF TypeOK, QueuesOK

LEMMA DequeAdd ==
    ASSUME TypeOK, UNCHANGED <<accepts, ver>>, Slots' = Slots, NEW s \in Slots, NEW ms \in Text,
           deque' \in {deque, Append(deque, [s |-> s, ms |-> ms])}
    PROVE  QueuesOK'
<1>1. ASSUME NEW e \in [s : AllSlots, ms : Text], e.s \in Slots, deque' = Append(deque, e)
      PROVE  QueuesOK'
  BY <1>1 DEF TypeOK, QueuesOK
<1>2. [s |-> s, ms |-> ms] \in [s : AllSlots, ms : Text] /\ [s |-> s, ms |-> ms].s = s
  BY SlotFacts
<1>3. QED
  BY <1>1, <1>2, QueuesSame

(* What TypeOK says of one connection.                                     *)
LEMMA ConnFacts ==
    ASSUME TypeOK, NEW c \in Conns
    PROVE  /\ conn[c] \in ConnRec /\ OpsFit(conn[c])
           /\ conn[c].said \in Nat /\ conn[c].heard \in Text
           /\ conn[c].recvs \in Seq(AllSlots) /\ conn[c].sends \in Seq([s : AllSlots, ms : Text])
  BY DEF TypeOK, ConnOK, OpsOK, OpsFit, ConnRec

(* The clients' and the kernel's steps, and what a call posts, field by    *)
(* field.                                                                  *)
LEMMA StSet ==
    ASSUME TypeOK, NEW c \in Conns, NEW l \in {"backlog", "reset", "open", "gone", "closed"},
           conn' = [conn EXCEPT ![c].st = l], Slots' = Slots
    PROVE  ConnOK' /\ OpsOK'
<1> DEFINE r == [conn[c] EXCEPT !.st = l]
<1>1. r \in ConnRec /\ OpsFit(r)
  BY ConnFacts DEF ConnRec, OpsFit
<1>2. conn' = [conn EXCEPT ![c] = r]
  OBVIOUS
<1>3. QED
  BY <1>1, <1>2, ConnSet

LEMMA RecvPosted ==
    ASSUME TypeOK, NEW c \in Conns, NEW s \in Slots, conn' = [conn EXCEPT ![c].recvs = Append(@, s)], Slots' = Slots
    PROVE  ConnOK' /\ OpsOK'
<1> DEFINE r == [conn[c] EXCEPT !.recvs = Append(@, s)]
<1>1. s \in AllSlots
  BY SlotFacts
<1>2. Append(conn[c].recvs, s) \in Seq(AllSlots)
      /\ \A i \in DOMAIN Append(conn[c].recvs, s) : Append(conn[c].recvs, s)[i] \in Slots
  <2>1. conn[c].recvs \in Seq(AllSlots) /\ \A i \in DOMAIN conn[c].recvs : conn[c].recvs[i] \in Slots
    BY ConnFacts DEF OpsFit
  <2>2. QED
    BY <1>1, <2>1, SeqAppend
<1>3. r \in ConnRec /\ OpsFit(r)
  BY <1>2, ConnFacts DEF ConnRec, OpsFit
<1>4. conn' = [conn EXCEPT ![c] = r]
  OBVIOUS
<1>5. QED
  BY <1>3, <1>4, ConnSet

LEMMA SendPosted ==
    ASSUME TypeOK, NEW c \in Conns, NEW s \in Slots, NEW ms \in Text,
           conn' = [conn EXCEPT ![c].sends = Append(@, [s |-> s, ms |-> ms])], Slots' = Slots
    PROVE  ConnOK' /\ OpsOK'
<1>1. ASSUME NEW e \in [s : AllSlots, ms : Text], e.s \in Slots, conn' = [conn EXCEPT ![c].sends = Append(@, e)]
      PROVE  ConnOK' /\ OpsOK'
  <2> DEFINE r == [conn[c] EXCEPT !.sends = Append(@, e)]
  <2>1. Append(conn[c].sends, e) \in Seq([s : AllSlots, ms : Text])
        /\ \A i \in DOMAIN Append(conn[c].sends, e) : Append(conn[c].sends, e)[i].s \in Slots
    <3> DEFINE q == conn[c].sends
    <3>1. q \in Seq([s : AllSlots, ms : Text]) /\ \A i \in DOMAIN q : q[i].s \in Slots
      BY ConnFacts DEF OpsFit
    <3> HIDE DEF q
    <3>2. Append(q, e) \in Seq([s : AllSlots, ms : Text]) /\ \A i \in DOMAIN Append(q, e) : Append(q, e)[i].s \in Slots
      BY <1>1, <3>1, SeqAppend
    <3>3. QED
      BY <3>2 DEF q
  <2>2. r \in ConnRec /\ OpsFit(r)
    BY <2>1, ConnFacts DEF ConnRec, OpsFit
  <2>3. conn' = [conn EXCEPT ![c] = r]
    BY <1>1
  <2>4. QED
    BY <2>2, <2>3, ConnSet
<1>2. [s |-> s, ms |-> ms] \in [s : AllSlots, ms : Text] /\ [s |-> s, ms |-> ms].s = s
  BY SlotFacts
<1>3. QED
  BY <1>1, <1>2

(* What is taken off the front of a connection's operations.               *)
LEMMA RecvGone ==
    ASSUME TypeOK, NEW c \in Conns, conn[c].recvs # <<>>, NEW n \in Nat,
           conn' = [conn EXCEPT ![c].said = n, ![c].recvs = Tail(@)], Slots' = Slots
    PROVE  ConnOK' /\ OpsOK'
<1> DEFINE r == [conn[c] EXCEPT !.said = n, !.recvs = Tail(@)]
<1>1. Tail(conn[c].recvs) \in Seq(AllSlots)
      /\ \A i \in DOMAIN Tail(conn[c].recvs) : Tail(conn[c].recvs)[i] \in Slots
  BY ConnFacts DEF OpsFit
<1>2. r \in ConnRec /\ OpsFit(r)
  BY <1>1, ConnFacts DEF ConnRec, OpsFit
<1>3. conn' = [conn EXCEPT ![c] = r]
  OBVIOUS
<1>4. QED
  BY <1>2, <1>3, ConnSet

LEMMA SendGone ==
    ASSUME TypeOK, NEW c \in Conns, conn[c].sends # <<>>, NEW h \in Text,
           conn' = [conn EXCEPT ![c].heard = h, ![c].sends = Tail(@)], Slots' = Slots
    PROVE  ConnOK' /\ OpsOK'
<1> DEFINE r == [conn[c] EXCEPT !.heard = h, !.sends = Tail(@)]
<1>1. Tail(conn[c].sends) \in Seq([s : AllSlots, ms : Text])
      /\ \A i \in DOMAIN Tail(conn[c].sends) : Tail(conn[c].sends)[i].s \in Slots
  <2> DEFINE q == conn[c].sends
  <2>1. q # <<>> /\ q \in Seq([s : AllSlots, ms : Text]) /\ \A i \in DOMAIN q : q[i].s \in Slots
    BY ConnFacts DEF OpsFit
  <2> HIDE DEF q
  <2>2. Tail(q) \in Seq([s : AllSlots, ms : Text]) /\ \A i \in DOMAIN Tail(q) : Tail(q)[i].s \in Slots
    BY <2>1, SeqTail
  <2>3. QED
    BY <2>2 DEF q
<1>2. r \in ConnRec /\ OpsFit(r)
  BY <1>1, ConnFacts DEF ConnRec, OpsFit
<1>3. conn' = [conn EXCEPT ![c] = r]
  OBVIOUS
<1>4. QED
  BY <1>2, <1>3, ConnSet

LEMMA HeadOps ==
    ASSUME TypeOK, NEW c \in Conns
    PROVE  /\ conn[c].recvs # <<>> => Head(conn[c].recvs) \in Slots /\ Head(conn[c].recvs) = conn[c].recvs[1]
           /\ conn[c].sends # <<>> => /\ Head(conn[c].sends) \in [s : AllSlots, ms : Text]
                                     /\ Head(conn[c].sends).s \in Slots /\ Head(conn[c].sends).ms \in Text
                                     /\ Head(conn[c].sends) = conn[c].sends[1]
<1>1. conn[c].recvs \in Seq(AllSlots) /\ conn[c].sends \in Seq([s : AllSlots, ms : Text]) /\ OpsFit(conn[c])
  BY ConnFacts
<1>2. conn[c].recvs # <<>> => Head(conn[c].recvs) = conn[c].recvs[1] /\ 1 \in DOMAIN conn[c].recvs
  BY <1>1
<1>3. conn[c].sends # <<>> => /\ Head(conn[c].sends) = conn[c].sends[1] /\ 1 \in DOMAIN conn[c].sends
                             /\ Head(conn[c].sends) \in [s : AllSlots, ms : Text]
  <2> DEFINE q == conn[c].sends
  <2> DEFINE S == [s : AllSlots, ms : Text]
  <2>1. q \in Seq(S)
    BY <1>1
  <2> HIDE DEF q, S
  <2>2. q # <<>> => Head(q) = q[1] /\ 1 \in DOMAIN q /\ Head(q) \in S
    BY <2>1, SeqTail
  <2>3. QED
    BY <2>2 DEF q, S
<1>4. QED
  BY <1>1, <1>2, <1>3 DEF OpsFit

(* What the clients do and the kernel answers keeps the types; so does     *)
(* every other step, thread by thread.                                     *)
LEMMA TypeEnv ==
    ASSUME TypeOK, UNCHANGED ver, NEW c \in Conns, Connect(c) \/ Say(c) \/ Quit(c) \/ Sent(c) \/ Abort(c)
    PROVE  TypeOK'
<1>1. UNCHANGED <<accepts, ses, deque, pc>>
  BY DEF Connect, Say, Quit, Sent, Abort, mem
<1>2. SesOK' /\ Slots' = Slots /\ PcOK' /\ QueuesOK'
  BY <1>1, SesSame, PcSame, QueuesSame
<1>3. conn[c].said + 1 \in Nat /\ Slots \subseteq AllSlots /\ None \notin Slots
  BY ConnFacts, SlotFacts
<1>4. CASE Connect(c)
  BY <1>2, <1>4, StSet, PortSame DEF Connect, TypeOK
<1>5. CASE Quit(c)
  BY <1>2, <1>5, StSet, PortSame DEF Quit, TypeOK
<1>6. CASE Say(c)
  <2> DEFINE m == <<[c |-> c, n |-> conn[c].said + 1]>>
  <2>1. m \in Text
    BY <1>3 DEF Text, Msg, Conns
  <2>2. Done("recv", Head(conn[c].recvs), TRUE, m) \in Completion
        /\ Done("recv", Head(conn[c].recvs), TRUE, m).s \in Slots
        /\ Done("recv", Head(conn[c].recvs), TRUE, m).op = "recv"
    <3>1. Head(conn[c].recvs) \in Slots
      BY <1>6, HeadOps DEF Say
    <3>2. QED
      BY <1>3, <2>1, <3>1 DEF Done, Completion
  <2>3. PortOK'
    BY <1>2, <1>3, <1>6, <2>2, PortAdd DEF Say
  <2>4. ConnOK' /\ OpsOK'
    BY <1>2, <1>3, <1>6, RecvGone DEF Say
  <2>5. QED
    BY <1>2, <2>3, <2>4 DEF TypeOK
<1>7. CASE Sent(c)
  <2> DEFINE e == Head(conn[c].sends)
  <2>1. e.s \in Slots /\ e.ms \in Text
    BY <1>7, HeadOps DEF Sent
  <2>2. conn[c].heard \o e.ms \in Text
    BY <2>1, ConnFacts DEF Text
  <2>3. Done("send", e.s, e.ms # <<>>, e.ms) \in Completion /\ Done("send", e.s, e.ms # <<>>, e.ms).s \in Slots
        /\ Done("send", e.s, e.ms # <<>>, e.ms).op = "send"
    <3> HIDE DEF e
    <3>1. (e.ms # <<>>) \in BOOLEAN
      OBVIOUS
    <3>2. QED
      BY <1>3, <2>1, <3>1 DEF Done, Completion
  <2>4. PortOK'
    BY <1>2, <1>3, <1>7, <2>3, PortAdd DEF Sent
  <2>5. ConnOK' /\ OpsOK'
    BY <1>2, <1>7, <2>2, SendGone DEF Sent
  <2>6. QED
    BY <1>2, <2>4, <2>5 DEF TypeOK
<1>8. CASE Abort(c) /\ conn' = [conn EXCEPT ![c].recvs = Tail(@)] /\ conn[c].recvs # <<>>
           /\ port' = Append(port, Done("recv", Head(conn[c].recvs), FALSE, <<>>))
  <2>1. <<>> \in Text
    BY DEF Text
  <2>2. Done("recv", Head(conn[c].recvs), FALSE, <<>>) \in Completion
        /\ Done("recv", Head(conn[c].recvs), FALSE, <<>>).s \in Slots
        /\ Done("recv", Head(conn[c].recvs), FALSE, <<>>).op = "recv"
    <3>1. Head(conn[c].recvs) \in Slots
      BY <1>8, HeadOps
    <3>2. QED
      BY <1>3, <2>1, <3>1 DEF Done, Completion
  <2>3. conn' = [conn EXCEPT ![c].said = conn[c].said, ![c].recvs = Tail(@)]
    BY <1>8 DEF TypeOK, ConnOK, ConnRec
  <2>4. ConnOK' /\ OpsOK'
    BY <1>2, <1>8, <2>3, RecvGone, ConnFacts
  <2>5. PortOK'
    BY <1>2, <1>3, <1>8, <2>2, PortAdd
  <2>6. QED
    BY <1>2, <2>4, <2>5 DEF TypeOK
<1>9. CASE Abort(c) /\ conn' = [conn EXCEPT ![c].sends = Tail(@)] /\ conn[c].sends # <<>>
           /\ port' = Append(port, Done("send", Head(conn[c].sends).s, FALSE, Head(conn[c].sends).ms))
  <2> DEFINE e == Head(conn[c].sends)
  <2>1. e.s \in Slots /\ e.ms \in Text
    BY <1>9, HeadOps
  <2>2. Done("send", e.s, FALSE, e.ms) \in Completion /\ Done("send", e.s, FALSE, e.ms).s \in Slots
        /\ Done("send", e.s, FALSE, e.ms).op = "send"
    <3> HIDE DEF e
    <3>1. QED
      BY <1>3, <2>1 DEF Done, Completion
  <2>3. conn' = [conn EXCEPT ![c].heard = conn[c].heard, ![c].sends = Tail(@)]
    BY <1>9 DEF TypeOK, ConnOK, ConnRec
  <2>4. ConnOK' /\ OpsOK'
    BY <1>2, <1>9, <2>3, SendGone, ConnFacts
  <2>5. PortOK'
    BY <1>2, <1>3, <1>9, <2>2, PortAdd
  <2>6. QED
    BY <1>2, <2>4, <2>5 DEF TypeOK
<1>10. QED
  BY <1>4, <1>5, <1>6, <1>7, <1>8, <1>9 DEF Abort

(* What is written of a session, field by field. *)
LEMMA SesWrites ==
    ASSUME TypeOK, UNCHANGED ver, NEW s \in Slots
    PROVE  /\ \A x \in BOOLEAN : ses' = [ses EXCEPT ![s].active = x] => SesOK' /\ Slots' = Slots
           /\ \A x \in BOOLEAN : ses' = [ses EXCEPT ![s].sending = x] => SesOK' /\ Slots' = Slots
           /\ \A x \in BOOLEAN : ses' = [ses EXCEPT ![s].typed = x] => SesOK' /\ Slots' = Slots
           /\ \A c \in Conns : ses' = [ses EXCEPT ![s].sock = c] => SesOK' /\ Slots' = Slots
           /\ \A x \in {"max", "recent", "long ago"} : ses' = [ses EXCEPT ![s].closed = x] => SesOK' /\ Slots' = Slots
           /\ \A o \in (IF ver = "06" THEN Seq(Text) ELSE Text) :
                ses' = [ses EXCEPT ![s].out = o] => SesOK' /\ Slots' = Slots
<1>1. ses[s] \in SesRec
  BY DEF TypeOK, SesOK, Slots
<1>2. ASSUME NEW r \in SesRec, ses' = [ses EXCEPT ![s] = r]
      PROVE  SesOK' /\ Slots' = Slots
  BY <1>2, SesSet
<1>3. ASSUME NEW x \in BOOLEAN, ses' = [ses EXCEPT ![s].active = x]
      PROVE  SesOK' /\ Slots' = Slots
  <2>1. [ses[s] EXCEPT !.active = x] \in SesRec /\ ses' = [ses EXCEPT ![s] = [ses[s] EXCEPT !.active = x]]
    BY <1>1, <1>3 DEF SesRec
  <2>2. QED
    BY <1>2, <2>1
<1>4. ASSUME NEW x \in BOOLEAN, ses' = [ses EXCEPT ![s].sending = x]
      PROVE  SesOK' /\ Slots' = Slots
  <2>1. [ses[s] EXCEPT !.sending = x] \in SesRec /\ ses' = [ses EXCEPT ![s] = [ses[s] EXCEPT !.sending = x]]
    BY <1>1, <1>4 DEF SesRec
  <2>2. QED
    BY <1>2, <2>1
<1>5. ASSUME NEW x \in BOOLEAN, ses' = [ses EXCEPT ![s].typed = x]
      PROVE  SesOK' /\ Slots' = Slots
  <2>1. [ses[s] EXCEPT !.typed = x] \in SesRec /\ ses' = [ses EXCEPT ![s] = [ses[s] EXCEPT !.typed = x]]
    BY <1>1, <1>5 DEF SesRec
  <2>2. QED
    BY <1>2, <2>1
<1>6. ASSUME NEW c \in Conns, ses' = [ses EXCEPT ![s].sock = c]
      PROVE  SesOK' /\ Slots' = Slots
  <2>1. [ses[s] EXCEPT !.sock = c] \in SesRec /\ ses' = [ses EXCEPT ![s] = [ses[s] EXCEPT !.sock = c]]
    BY <1>1, <1>6 DEF SesRec
  <2>2. QED
    BY <1>2, <2>1
<1>7. ASSUME NEW x \in {"max", "recent", "long ago"}, ses' = [ses EXCEPT ![s].closed = x]
      PROVE  SesOK' /\ Slots' = Slots
  <2>1. [ses[s] EXCEPT !.closed = x] \in SesRec /\ ses' = [ses EXCEPT ![s] = [ses[s] EXCEPT !.closed = x]]
    BY <1>1, <1>7 DEF SesRec
  <2>2. QED
    BY <1>2, <2>1
<1>8. ASSUME NEW o \in (IF ver = "06" THEN Seq(Text) ELSE Text), ses' = [ses EXCEPT ![s].out = o]
      PROVE  SesOK' /\ Slots' = Slots
  <2>1. [ses[s] EXCEPT !.out = o] \in SesRec /\ ses' = [ses EXCEPT ![s] = [ses[s] EXCEPT !.out = o]]
    BY <1>1, <1>8 DEF SesRec
  <2>2. QED
    BY <1>2, <2>1
<1>9. QED
  BY <1>3, <1>4, <1>5, <1>6, <1>7, <1>8

(* What ends a connection of a session. *)
LEMMA SesEnds ==
    ASSUME TypeOK, UNCHANGED ver, NEW s \in Slots,
           \/ ses' = [ses EXCEPT ![s].closed = "max", ![s].active = FALSE]
           \/ ses' = [ses EXCEPT ![s].sock = None, ![s].typed = FALSE]
           \/ ses' = [ses EXCEPT ![s].sock = None, ![s].out = <<>>, ![s].sending = FALSE]
           \/ ses' = [ses EXCEPT ![s].sock = None, ![s].out = <<>>]
           \/ ses' = [ses EXCEPT ![s].sock = None, ![s].out = <<>>, ![s].sending = FALSE, ![s].closed = "recent"]
    PROVE  SesOK' /\ Slots' = Slots
<1>1. ses[s] \in SesRec
  BY DEF TypeOK, SesOK, Slots
<1>0. <<>> \in (IF ver = "06" THEN Seq(Text) ELSE Text)
  BY DEF Text
<1>2. ASSUME NEW r \in SesRec, ses' = [ses EXCEPT ![s] = r]
      PROVE  SesOK' /\ Slots' = Slots
  BY <1>2, SesSet
<1>3. CASE ses' = [ses EXCEPT ![s].closed = "max", ![s].active = FALSE]
  <2>1. [ses[s] EXCEPT !.closed = "max", !.active = FALSE] \in SesRec
        /\ ses' = [ses EXCEPT ![s] = [ses[s] EXCEPT !.closed = "max", !.active = FALSE]]
    BY <1>1, <1>3 DEF SesRec, TypeOK, SesOK, Slots
  <2>2. QED
    BY <1>2, <2>1
<1>4. CASE ses' = [ses EXCEPT ![s].sock = None, ![s].typed = FALSE]
  <2>1. [ses[s] EXCEPT !.sock = None, !.typed = FALSE] \in SesRec
        /\ ses' = [ses EXCEPT ![s] = [ses[s] EXCEPT !.sock = None, !.typed = FALSE]]
    BY <1>1, <1>4 DEF SesRec, TypeOK, SesOK, Slots
  <2>2. QED
    BY <1>2, <2>1
<1>5. CASE ses' = [ses EXCEPT ![s].sock = None, ![s].out = <<>>, ![s].sending = FALSE]
  <2>1. [ses[s] EXCEPT !.sock = None, !.out = <<>>, !.sending = FALSE] \in SesRec
        /\ ses' = [ses EXCEPT ![s] = [ses[s] EXCEPT !.sock = None, !.out = <<>>, !.sending = FALSE]]
    BY <1>0, <1>1, <1>5 DEF SesRec, TypeOK, SesOK, Slots
  <2>2. QED
    BY <1>2, <2>1
<1>6. CASE ses' = [ses EXCEPT ![s].sock = None, ![s].out = <<>>]
  <2>1. [ses[s] EXCEPT !.sock = None, !.out = <<>>] \in SesRec
        /\ ses' = [ses EXCEPT ![s] = [ses[s] EXCEPT !.sock = None, !.out = <<>>]]
    BY <1>0, <1>1, <1>6 DEF SesRec, TypeOK, SesOK, Slots
  <2>2. QED
    BY <1>2, <2>1
<1>7. CASE ses' = [ses EXCEPT ![s].sock = None, ![s].out = <<>>, ![s].sending = FALSE, ![s].closed = "recent"]
  <2>1. [ses[s] EXCEPT !.sock = None, !.out = <<>>, !.sending = FALSE, !.closed = "recent"] \in SesRec
        /\ ses' = [ses EXCEPT ![s] = [ses[s] EXCEPT !.sock = None, !.out = <<>>, !.sending = FALSE, !.closed = "recent"]]
    BY <1>0, <1>1, <1>7 DEF SesRec, TypeOK, SesOK, Slots
  <2>2. QED
    BY <1>2, <2>1
<1>8. QED
  BY <1>3, <1>4, <1>5, <1>6, <1>7

(* What TypeOK says of one session, and of one thread.                     *)
LEMMA SesFacts ==
    ASSUME TypeOK, NEW s \in Slots
    PROVE  /\ ses[s].sock \in {None} \cup Conns /\ ses[s].active \in BOOLEAN /\ ses[s].sending \in BOOLEAN
           /\ ses[s].typed \in BOOLEAN /\ ses[s].closed \in {"max", "recent", "long ago"}
           /\ ver = "06" => ses[s].out \in Seq(Text)
           /\ ver # "06" => ses[s].out \in Text
  BY DEF TypeOK, SesOK, Slots, SesRec

LEMMA PcFacts ==
    ASSUME TypeOK, NEW t \in Threads
    PROVE  /\ pc[t] \in PcRec /\ pc[t].ms \in Text /\ pc[t].s \in {None} \cup Slots
           /\ t # "main" => Fits(t, pc[t])
<1>1. pc[t] \in PcRec
  BY DEF TypeOK, PcOK
<1>2. CASE t = "main"
  BY <1>1, <1>2 DEF TypeOK, PcOK, PcRec
<1>3. CASE t # "main"
  BY <1>1, <1>3 DEF TypeOK, PcOK, PcRec, Fits
<1>4. QED
  BY <1>2, <1>3

(* The session a thread works for.                                         *)
LEMMA WorksFor ==
    ASSUME TypeOK, NEW t \in Threads \ {"main"}, pc[t].at \in Working(t)
    PROVE  pc[t].s \in Slots /\ pc[t].s # None
  BY PcFacts DEF Fits

LEMMA CallerFacts ==
    ASSUME Waiting # {}
    PROVE  Caller \in Conns /\ Caller \in Waiting
<1>1. Waiting \subseteq Nat
  BY EchoConstants DEF Waiting, Conns
<1>2. QED
  BY <1>1, FirstIn DEF Caller, Waiting

(* The requests.                                                           *)
LEMMA WSARecvTypes ==
    ASSUME TypeOK, NEW s \in Slots, NEW ok \in BOOLEAN, WSARecv(s, ok), Slots' = Slots
    PROVE  ConnOK' /\ OpsOK'
<1>1. CASE ok
  <2>1. ses[s].sock \in Conns
    BY <1>1, SesFacts DEF WSARecv, Taken, Live
  <2>2. conn' = [conn EXCEPT ![ses[s].sock].recvs = Append(@, s)]
    BY <1>1 DEF WSARecv
  <2>3. QED
    BY <2>1, <2>2, RecvPosted
<1>2. CASE ~ok
  BY <1>2, ConnSame DEF WSARecv
<1>3. QED
  BY <1>1, <1>2

LEMMA WSASendTypes ==
    ASSUME TypeOK, NEW s \in Slots, NEW ms \in Text, NEW ok \in BOOLEAN, WSASend(s, ms, ok), Slots' = Slots
    PROVE  ConnOK' /\ OpsOK'
<1>1. CASE ok
  <2>1. ses[s].sock \in Conns
    BY <1>1, SesFacts DEF WSASend, Taken, Live
  <2>2. conn' = [conn EXCEPT ![ses[s].sock].sends = Append(@, [s |-> s, ms |-> ms])]
    BY <1>1 DEF WSASend
  <2>3. QED
    BY <2>1, <2>2, SendPosted
<1>2. CASE ~ok
  BY <1>2, ConnSame DEF WSASend
<1>3. QED
  BY <1>1, <1>2

(* One buffer for all sends: the sends pending at a session change what    *)
(* they carry.                                                             *)
Over(q, s, ms) == [i \in DOMAIN q |-> IF q[i].s = s THEN [q[i] EXCEPT !.ms = ms] ELSE q[i]]

LEMMA OverSeq ==
    ASSUME NEW q \in Seq(Op), NEW s, NEW ms \in Text
    PROVE  /\ Over(q, s, ms) \in Seq(Op) /\ Len(Over(q, s, ms)) = Len(q) /\ DOMAIN Over(q, s, ms) = DOMAIN q
           /\ \A i \in DOMAIN q : /\ Over(q, s, ms)[i].s = q[i].s
                                  /\ Over(q, s, ms)[i].ms = (IF q[i].s = s THEN ms ELSE q[i].ms)
<1>1. \A i \in DOMAIN q : q[i] \in Op
  OBVIOUS
<1>2. ASSUME NEW i \in DOMAIN q
      PROVE  /\ Over(q, s, ms)[i] \in Op /\ Over(q, s, ms)[i].s = q[i].s
             /\ Over(q, s, ms)[i].ms = (IF q[i].s = s THEN ms ELSE q[i].ms)
  BY <1>1, <1>2 DEF Over, Op
<1>3. DOMAIN q = 1..Len(q) /\ Len(q) \in Nat
  OBVIOUS
<1>4. Over(q, s, ms) \in [1..Len(q) -> Op]
  BY <1>2, <1>3 DEF Over
<1>5. QED
  BY <1>2, <1>3, <1>4

(* The one buffer of Practice01 to 03: what is still being sent is         *)
(* overwritten, its receivers and its length in operations are not.        *)
LEMMA OverwrittenIs ==
    ASSUME TypeOK, NEW s, NEW ms \in Text
    PROVE  /\ Overwritten01(s, ms) = [c \in Conns |-> [conn[c] EXCEPT !.sends = Over(conn[c].sends, s, ms)]]
           /\ Overwritten01(s, ms) \in [Conns -> ConnRec]
           /\ \A c \in Conns : OpsFit(Overwritten01(s, ms)[c])
<1>1. Overwritten01(s, ms) = [c \in Conns |-> [conn[c] EXCEPT !.sends = Over(conn[c].sends, s, ms)]]
  BY DEF Overwritten01, Over
<1>2. ASSUME NEW c \in Conns
      PROVE  [conn[c] EXCEPT !.sends = Over(conn[c].sends, s, ms)] \in ConnRec
             /\ OpsFit([conn[c] EXCEPT !.sends = Over(conn[c].sends, s, ms)])
  <2>1. conn[c].sends \in Seq(Op)
    BY ConnFacts DEF Op
  <2>2. Over(conn[c].sends, s, ms) \in Seq(Op) /\ DOMAIN Over(conn[c].sends, s, ms) = DOMAIN conn[c].sends
        /\ \A i \in DOMAIN conn[c].sends : Over(conn[c].sends, s, ms)[i].s = conn[c].sends[i].s
    BY <2>1, OverSeq
  <2>3. conn[c] \in ConnRec /\ OpsFit(conn[c])
    BY ConnFacts
  <2>4. QED
    BY <2>2, <2>3 DEF ConnRec, OpsFit, Op
<1>3. QED
  BY <1>1, <1>2

LEMMA EchoesTypes ==
    ASSUME TypeOK, UNCHANGED ver, NEW s \in Slots, NEW ms \in Text, NEW ok \in BOOLEAN, SendMsg01(s, ms, ok)
    PROVE  ConnOK' /\ OpsOK' /\ SesOK' /\ Slots' = Slots
<1>1. SesOK' /\ Slots' = Slots
  BY SesWrites DEF SendMsg01
<1> DEFINE o == Overwritten01(s, ms)
<1>2. o \in [Conns -> ConnRec] /\ \A c \in Conns : OpsFit(o[c])
  BY OverwrittenIs
<1> HIDE DEF o
<1>3. CASE ok
  <2> DEFINE d == ses[s].sock
  <2>1. d \in Conns
    BY <1>3, SesFacts DEF SendMsg01, Taken, Live
  <2>2. conn' = [o EXCEPT ![d].sends = Append(@, [s |-> s, ms |-> ms])]
    BY <1>3 DEF SendMsg01, o
  <2> HIDE DEF d
  <2>3. [s |-> s, ms |-> ms] \in Op
    BY SlotFacts DEF Op
  <2> DEFINE r == [o[d] EXCEPT !.sends = Append(@, [s |-> s, ms |-> ms])]
  <2>4. r \in ConnRec /\ OpsFit(r)
    <3> DEFINE q == o[d].sends
    <3> DEFINE e == [s |-> s, ms |-> ms]
    <3>1. o[d] \in ConnRec /\ q \in Seq(Op) /\ \A i \in DOMAIN q : q[i].s \in Slots
      BY <1>2, <2>1 DEF ConnRec, OpsFit, Op
    <3>2. e \in Op /\ e.s \in Slots
      BY <2>3
    <3> HIDE DEF q, e
    <3>3. Append(q, e) \in Seq(Op) /\ \A i \in DOMAIN Append(q, e) : Append(q, e)[i].s \in Slots
      BY <3>1, <3>2, SeqAppend
    <3>4. [o[d] EXCEPT !.sends = Append(q, e)] \in ConnRec /\ OpsFit([o[d] EXCEPT !.sends = Append(q, e)])
      BY <1>2, <2>1, <3>1, <3>3 DEF ConnRec, OpsFit, Op
    <3>5. QED
      BY <3>4 DEF q, e
  <2>5. conn' = [o EXCEPT ![d] = r]
    BY <2>2
  <2> HIDE DEF r
  <2>6. QED
    BY <1>1, <1>2, <2>1, <2>4, <2>5 DEF ConnOK, OpsOK, OpsFit
<1>4. CASE ~ok
  <2>1. conn' = o
    BY <1>4 DEF SendMsg01, o
  <2>2. QED
    BY <1>1, <1>2, <2>1 DEF ConnOK, OpsOK, OpsFit
<1>5. QED
  BY <1>3, <1>4

(* Every practice begins with the types, and with nothing started.         *)
LEMMA TypeInit ==
    ASSUME EchoInit
    PROVE  TypeOK /\ StartInv
<1>1. PICK n \in 1..NumSlots :
        ses = [s \in 1..n |-> [sock |-> None, active |-> FALSE, sending |-> FALSE,
                               out |-> <<>>, typed |-> FALSE, closed |-> "long ago"]]
  BY DEF EchoInit, Init
<1>2. conn = [c \in Conns |-> [st |-> "idle", said |-> 0, heard |-> <<>>, recvs |-> <<>>, sends |-> <<>>]]
      /\ accepts = <<>> /\ port = <<>> /\ deque = <<>>
      /\ pc = [t \in Threads |-> Local(IF t = "main" THEN "init" ELSE "off")]
  BY DEF EchoInit, Init
<1>3. SesOK
  <2> DEFINE r == [sock |-> None, active |-> FALSE, sending |-> FALSE, out |-> <<>>, typed |-> FALSE, closed |-> "long ago"]
  <2>1. r \in SesRec
    BY DEF SesRec, Text
  <2>2. ses = [s \in 1..n |-> r]
    BY <1>1
  <2> HIDE DEF r
  <2>3. QED
    BY <2>1, <2>2 DEF SesOK, AllSlots, Slots
<1>4. ConnOK /\ OpsOK /\ PortOK /\ QueuesOK
  <2>1. ConnOK
    BY <1>2 DEF ConnOK, ConnRec, Text
  <2>2. OpsOK
    BY <1>2 DEF OpsOK
  <2>3. PortOK /\ QueuesOK
    BY <1>2 DEF PortOK, QueuesOK
  <2>4. QED
    BY <2>1, <2>2, <2>3
<1>5. PcOK
  <2>1. Local("init") \in PcRec /\ Local("init").s = None
    BY DEF Local, PcRec, Labels, MainLabels, Text
  <2>2. \A t \in Threads \ {"main"} : pc[t] = Local("off") /\ Local("off") \in PcRec /\ Fits(t, Local("off"))
    BY <1>2, RestFits
  <2>3. pc["main"] = Local("init")
    BY <1>2, ThreadFacts
  <2>4. QED
    BY <1>2, <2>1, <2>2, <2>3 DEF PcOK
<1>6. \A t \in Threads \ {"main"} : pc[t].at = "off"
  BY <1>2 DEF Local
<1>7. StartInv
  BY <1>6, ThreadFacts DEF StartInv, NetThreads
<1>8. QED
  BY <1>3, <1>4, <1>5, <1>7 DEF TypeOK

LEMMA TokenAdded ==
    ASSUME TypeOK, UNCHANGED ver, Slots' = Slots, port' \in {port, Append(port, Token)}
    PROVE  PortOK'
<1>1. Token \in Completion /\ Token.s = None /\ Token.op = "end"
  BY DEF Token, Done, Completion, Text
<1>2. QED
  BY <1>1, PortAdd, PortSame

LEMMA TypeManages ==
    ASSUME TypeOK, UNCHANGED ver, Manages
    PROVE  TypeOK'
<1>1. SesOK' /\ Slots' = Slots /\ ConnOK' /\ OpsOK' /\ QueuesOK' /\ PortOK'
  BY SesSame, ConnSame, QueuesSame, TokenAdded DEF Manages
<1>2. PICK ts \in SUBSET (Threads \ {"main"}), l \in MainLabels :
        \/ pc' = [t \in Threads |-> IF t = "main" THEN Local(l)
                                      ELSE IF t \in ts THEN Local(FirstStep(t)) ELSE pc[t]]
        \/ ts = {} /\ Stays("main", l)
        \/ ts = {"packet"} /\ pc' = [pc EXCEPT !["main"] = Local(l), !["packet"] = Local("begin")]
  BY DEF Manages
<1>3. Local(l) \in PcRec /\ Local(l).s = None /\ Local(l) = [Local(l) EXCEPT !.s = pc["main"].s]
  <2>1. pc["main"].s = None
    BY DEF TypeOK, PcOK
  <2>3. Local(l) \in PcRec /\ Local(l).s = None
    BY DEF Local, PcRec, Labels, Text
  <2>2. [Local(l) EXCEPT !.s = None] = Local(l)
    BY <2>3 DEF PcRec
  <2>4. QED
    BY <2>1, <2>2, <2>3
<1>4. ASSUME NEW t \in Threads \ {"main"}, NEW r, pc'[t] = r, Fits(t, r)
      PROVE  Fits(t, pc[t])'
  BY <1>1, <1>4 DEF Fits, Working, MayHold
<1>5. "main" \in Threads /\ "packet" \in Threads \ {"main"} /\ pc \in [Threads -> PcRec]
      /\ \A t \in Threads \ {"main"} : Fits(t, pc[t])
  BY ThreadFacts DEF TypeOK, PcOK
<1>6. CASE pc' = [t \in Threads |-> IF t = "main" THEN Local(l)
                                    ELSE IF t \in ts THEN Local(FirstStep(t)) ELSE pc[t]]
  <2>1. \A t \in Threads \ {"main"} : pc'[t] = Local(FirstStep(t)) \/ pc'[t] = pc[t]
    BY <1>6
  <2>2. \A t \in Threads \ {"main"} : Fits(t, pc[t])'
    BY <1>4, <1>5, <2>1, RestFits
  <2>3. pc' \in [Threads -> PcRec] /\ pc'["main"].s = None
    <3>1. \A t \in Threads \ {"main"} : Local(FirstStep(t)) \in PcRec
      BY RestFits DEF Fits
    <3>2. QED
      BY <1>3, <1>5, <1>6, <3>1
  <2>4. QED
    BY <1>1, <2>2, <2>3 DEF TypeOK, PcOK
<1>7. CASE Stays("main", l)
  <2>1. pc' = [pc EXCEPT !["main"] = Local(l)]
    BY <1>3, <1>7 DEF Stays, Becomes
  <2>2. \A t \in Threads \ {"main"} : Fits(t, pc[t])'
    BY <1>4, <1>5, <2>1
  <2>3. QED
    BY <1>1, <1>3, <1>5, <2>1, <2>2 DEF TypeOK, PcOK
<1>8. CASE pc' = [pc EXCEPT !["main"] = Local(l), !["packet"] = Local("begin")]
  <2>1. Local("begin") \in PcRec /\ Fits("packet", Local("begin"))
    BY LabelFacts, ThreadFacts DEF Fits, PcRec, Labels, Local, Text
  <2>2. \A t \in Threads \ {"main"} : Fits(t, pc[t])'
    BY <1>4, <1>5, <1>8, <2>1
  <2>3. QED
    BY <1>1, <1>3, <1>5, <1>8, <2>1, <2>2 DEF TypeOK, PcOK
<1>9. QED
  BY <1>2, <1>6, <1>7, <1>8

(* The kernel. *)
LEMMA AcceptsGone ==
    ASSUME TypeOK, UNCHANGED <<deque, ver>>, Slots' = Slots, ver \in Reusing, accepts # <<>>, accepts' = Tail(accepts)
    PROVE  QueuesOK' /\ Head(accepts) \in Slots
<1>1. accepts \in Seq(AllSlots) /\ \A i \in DOMAIN accepts : accepts[i] \in Slots
  BY DEF TypeOK, QueuesOK
<1>2. Tail(accepts) \in Seq(AllSlots) /\ \A i \in DOMAIN Tail(accepts) : Tail(accepts)[i] \in Slots
  BY <1>1, SeqTail
<1>3. QED
  BY <1>1, <1>2, SeqTail DEF TypeOK, QueuesOK

LEMMA AcceptedTypes ==
    ASSUME TypeOK, UNCHANGED ver, NEW t, NEW s \in Slots, Accepted(t, s)
    PROVE  ConnOK' /\ OpsOK' /\ SesOK' /\ Slots' = Slots
<1>1. Caller \in Conns
  BY CallerFacts DEF Accepted
<1>2. SesOK' /\ Slots' = Slots
  BY <1>1, SesWrites DEF Accepted
<1>3. QED
  BY <1>1, <1>2, StSet DEF Accepted

LEMMA RefusedTypes ==
    ASSUME TypeOK, AcceptFailed, Slots' = Slots
    PROVE  ConnOK' /\ OpsOK'
  BY CallerFacts, StSet DEF AcceptFailed

LEMMA TypeKernel ==
    ASSUME TypeOK, UNCHANGED ver, KernelRefuses \/ \E s \in Slots : KernelAccepts(s) \/ Elapse(s)
    PROVE  TypeOK'
<1>1. CASE KernelRefuses
  <2>1. SesOK' /\ Slots' = Slots /\ PcOK' /\ QueuesOK'
    BY <1>1, SesSame, PcSame, AcceptsGone DEF KernelRefuses
  <2>2. Done("accept", None, FALSE, <<>>) \in Completion
    BY DEF Done, Completion, Text
  <2>3. PortOK'
    BY <1>1, <2>1, <2>2, PortAdd, PortSame DEF KernelRefuses, Done
  <2>4. QED
    BY <1>1, <2>1, <2>3, RefusedTypes DEF KernelRefuses, TypeOK
<1>2. ASSUME NEW s \in Slots, KernelAccepts(s)
      PROVE  TypeOK'
  <2>1. ConnOK' /\ OpsOK' /\ SesOK' /\ Slots' = Slots
    BY <1>2, AcceptedTypes DEF KernelAccepts
  <2>2. PcOK' /\ QueuesOK'
    BY <1>2, <2>1, PcSame, AcceptsGone DEF KernelAccepts
  <2>3. Done("accept", s, TRUE, <<>>) \in Completion
    BY SlotFacts DEF Done, Completion, Text
  <2>4. PortOK'
    BY <1>2, <2>1, <2>3, SlotFacts, PortAdd, PortSame DEF KernelAccepts, Done
  <2>5. QED
    BY <2>1, <2>2, <2>4 DEF TypeOK
<1>3. ASSUME NEW s \in Slots, Elapse(s)
      PROVE  TypeOK'
  <2>1. SesOK' /\ Slots' = Slots
    BY <1>3, SesWrites DEF Elapse
  <2>2. QED
    BY <1>3, <2>1, ConnSame, PcSame, PortSame, QueuesSame DEF Elapse, net, TypeOK
<1>4. QED
  BY <1>1, <1>2, <1>3

(* The threads. *)
LEMMA TypeAccepter ==
    ASSUME TypeOK, UNCHANGED ver, AccepterWorks("accepter")
    PROVE  TypeOK'
<1>0. "accepter" \in Threads \ {"main"} /\ Fits("accepter", pc["accepter"])
  BY ThreadFacts, PcFacts
<1>1. CASE Refuses
  <2>1. SesOK' /\ Slots' = Slots /\ PortOK' /\ QueuesOK'
    BY <1>1, SesSame, PortSame, QueuesSame DEF Refuses, mem
  <2>2. QED
    BY <1>0, <1>1, <2>1, PcRests, RefusedTypes DEF Refuses, TypeOK
<1>2. ASSUME NEW s \in Slots, Chooses(s)
      PROVE  TypeOK'
  <2>1. SesOK' /\ Slots' = Slots
    BY <1>2, SesWrites, SesSame DEF Chooses
  <2>2. ConnOK' /\ OpsOK' /\ PortOK' /\ QueuesOK'
    BY <1>2, <2>1, ConnSame, PortSame, QueuesSame DEF Chooses, net
  <2>3. Fits("accepter", [Local("accept") EXCEPT !.s = s])
    <3> DEFINE r == [Local("accept") EXCEPT !.s = s]
    <3>1. r.at = "accept" /\ r.s = s /\ s # None
      BY SlotFacts DEF Local
    <3>2. r \in PcRec
      <4>1. Local("accept") \in PcRec
        BY DEF PcRec, Local, Labels, Text
      <4>2. QED
        BY <4>1, SlotFacts DEF PcRec
    <3> HIDE DEF r
    <3>3. Fits("accepter", r)
      BY <3>1, <3>2, ThreadFacts, LabelFacts DEF Fits
    <3>4. QED
      BY <3>3 DEF r
  <2>4. PcOK'
    BY <1>0, <1>2, <2>1, <2>3, PcBecomes DEF Chooses
  <2>5. QED
    BY <2>1, <2>2, <2>4 DEF TypeOK
<1>3. ASSUME NEW s \in Slots, Accepts(s)
      PROVE  TypeOK'
  <2>1. ConnOK' /\ OpsOK' /\ SesOK' /\ Slots' = Slots
    BY <1>3, AcceptedTypes DEF Accepts
  <2>2. PcOK'
    BY <1>0, <1>3, <2>1, PcStays, LabelFacts, SlotFacts DEF Accepts
  <2>3. QED
    BY <1>3, <2>1, <2>2, PortSame, QueuesSame DEF Accepts, TypeOK
<1>4. ASSUME NEW s \in Slots, Binds(s)
      PROVE  TypeOK'
  <2>1. SesOK' /\ Slots' = Slots
    BY <1>4, SesSame DEF Binds, mem
  <2>2. PcOK'
    BY <1>0, <1>4, <2>1, PcStays, PcRests, LabelFacts, SlotFacts DEF Binds
  <2>3. ConnOK' /\ OpsOK'
    BY <1>4, <2>1, WSARecvTypes DEF Binds
  <2>4. QED
    BY <1>4, <2>1, <2>2, <2>3, PortSame, QueuesSame DEF Binds, mem, TypeOK
<1>5. ASSUME NEW s \in Slots, Offers(s)
      PROVE  TypeOK'
  <2>1. SesOK' /\ Slots' = Slots
    BY <1>5, SesWrites DEF Offers
  <2>2. QueuesOK'
    <3>1. accepts \in Seq(AllSlots) /\ \A i \in DOMAIN accepts : accepts[i] \in Slots
      BY DEF TypeOK, QueuesOK
    <3>2. Append(accepts, s) \in Seq(AllSlots) /\ \A i \in DOMAIN Append(accepts, s) : Append(accepts, s)[i] \in Slots
      BY <3>1, SlotFacts, SeqAppend
    <3>3. QED
      BY <1>5, <2>1, <3>1, <3>2 DEF Offers, TypeOK, QueuesOK
  <2>3. QED
    BY <1>5, <2>1, <2>2, ConnSame, PcSame, PortSame DEF Offers, TypeOK
<1>6. QED
  BY <1>1, <1>2, <1>3, <1>4, <1>5 DEF AccepterWorks

LEMMA TypeLeaves ==
    ASSUME TypeOK, UNCHANGED ver, NEW t \in Threads \ {"main"}, Leaves(t)
    PROVE  TypeOK'
<1>1. SesOK' /\ Slots' = Slots /\ ConnOK' /\ OpsOK' /\ PortOK' /\ QueuesOK'
  BY SesSame, ConnSame, PortSame, QueuesSame DEF Leaves, net, mem
<1>2. PcOK'
  BY <1>1, PcRests DEF Leaves
<1>3. QED
  BY <1>1, <1>2 DEF TypeOK

(* A completion is fetched. *)
LEMMA FetchTypes ==
    ASSUME TypeOK, UNCHANGED ver, NEW w \in Workers, Fetches(w)
    PROVE  TypeOK'
<1> DEFINE e == Head(port)
<1>1. SesOK' /\ Slots' = Slots /\ ConnOK' /\ OpsOK' /\ QueuesOK'
  BY SesSame, ConnSame, QueuesSame DEF Fetches, WorkerThread01, mem
<1>2. PortOK' /\ e \in Completion /\ e = port[1] /\ 1 \in DOMAIN port
  <2> DEFINE S == Completion
  <2>1. port \in Seq(S) /\ port # <<>> /\ port' = Tail(port)
    BY DEF Fetches, WorkerThread01, TypeOK, PortOK
  <2> HIDE DEF S
  <2>2. /\ Tail(port) \in Seq(S) /\ Head(port) \in S /\ Head(port) = port[1] /\ 1 \in DOMAIN port
        /\ \A i \in DOMAIN Tail(port) : i + 1 \in DOMAIN port /\ Tail(port)[i] = port[i + 1]
    BY <2>1, SeqTail
  <2>3. QED
    BY <1>1, <2>1, <2>2 DEF TypeOK, PortOK, S
<1>3. /\ e.s # None => e.s \in Slots /\ e.op # "end"
      /\ e.s = None => e.op = "end" \/ (e.op = "accept" /\ ~e.ok /\ ver \in Reusing)
  BY <1>2 DEF TypeOK, PortOK
<1>4. e.s \in {None} \cup AllSlots /\ e.op \in {"end", "recv", "send", "accept"} /\ e.ms \in Text
  BY <1>2 DEF Completion
<1>5. w \in Threads \ {"main"}
  BY ThreadFacts
<1> HIDE DEF e
<1>6. CASE e.op = "end"
  <2>1. Becomes(w, Local("repost"))
    BY <1>6 DEF Fetches, WorkerThread01, TerminateMsg01, Becomes, e
  <2>2. Fits(w, Local("repost"))
    BY LabelFacts DEF Fits, Local, PcRec, Labels, Text
  <2>3. QED
    BY <1>1, <1>2, <1>5, <2>1, <2>2, PcBecomes DEF TypeOK
<1>7. CASE e.op # "end"
  <2> DEFINE r == [at |-> IF ClientExited01(e) THEN "close" ELSE "got", s |-> e.s, op |-> e.op, ms |-> e.ms]
  <2>1. Becomes(w, r)
    BY <1>7 DEF Fetches, WorkerThread01, TerminateMsg01, Becomes, e
  <2>2. r \in PcRec /\ r.s = e.s /\ r.op = e.op /\ r.at \in {"close", "got"} /\ (r.at = "got" => e.ok)
    BY <1>4 DEF PcRec, Labels, ClientExited01
  <2> HIDE DEF r
  <2>3. Fits(w, r)
    BY <1>3, <1>4, <1>7, <2>2, LabelFacts DEF Fits
  <2>4. QED
    BY <1>1, <1>2, <1>5, <2>1, <2>3, PcBecomes DEF TypeOK
<1>8. QED
  BY <1>6, <1>7

(* A worker that looks at what it fetched has a session for it. *)
LEMMA GotFacts ==
    ASSUME TypeOK, NEW w \in Workers, pc[w].at \in {"got", "third", "rebind", "closing", "clear"}
    PROVE  w \in Threads \ {"main"} /\ pc[w].s \in Slots /\ pc[w].s # None /\ pc[w].ms \in Text
  BY ThreadFacts, LabelFacts, PcFacts DEF Fits

(* A worker goes on with what it fetched. *)
LEMMA PcSent ==
    ASSUME TypeOK, UNCHANGED ver, Slots' = Slots, NEW w \in Workers, pc[w].op \in {"recv", "send", "accept"}, pc[w].s # None,
           NEW l \in {"got", "third", "close"}, Becomes(w, [pc[w] EXCEPT !.at = l])
    PROVE  PcOK'
<1> DEFINE r == [pc[w] EXCEPT !.at = l]
<1>1. w \in Threads \ {"main"} /\ pc[w] \in PcRec /\ pc[w].s \in Slots
  BY ThreadFacts, PcFacts DEF Fits
<1>2. l \in Labels /\ l \in ThreadLabels(w) /\ l \in MayHold(w)
  BY LabelFacts DEF Labels
<1>3. r \in PcRec /\ r.at = l /\ r.s = pc[w].s /\ r.op = pc[w].op
  BY <1>1, <1>2 DEF PcRec
<1> HIDE DEF r
<1>4. Fits(w, r)
  BY <1>1, <1>2, <1>3 DEF Fits
<1>5. QED
  BY <1>1, <1>4, PcBecomes DEF r

(* op_type_ misread sends it to the first session. *)
LEMMA TypeMisread ==
    ASSUME TypeOK, UNCHANGED ver, NEW w \in Workers, Misreads(w)
    PROVE  TypeOK'
<1>1. SesOK' /\ Slots' = Slots
  BY SesSame DEF Misreads, mem
<1>2. w \in Threads \ {"main"} /\ Fits(w, pc[w])
  BY ThreadFacts, PcFacts
<1>3. PcOK'
  <2>1. CASE At(w, "close") /\ pc[w].op \in {"recv", "send"} /\ Becomes(w, [pc[w] EXCEPT !.at = "got"])
    BY <1>1, <1>2, <2>1, PcSent DEF Fits
  <2>2. CASE At(w, "got") /\ Becomes(w, [pc[w] EXCEPT !.at = "third"])
    BY <1>1, <1>2, <2>2, PcSent, GotFacts DEF Fits, At
  <2>3. CASE Rests(w)
    BY <1>1, <1>2, <2>3, PcRests
  <2>4. CASE Becomes(w, [Local("got") EXCEPT !.s = 1, !.op = "accept"])
    <3> DEFINE r == [Local("got") EXCEPT !.s = 1, !.op = "accept"]
    <3>1. 1 \in Slots /\ 1 \in AllSlots /\ 1 # None
      BY EchoConstants DEF TypeOK, SesOK, AllSlots, None
    <3>2. r.at = "got" /\ r.s = 1 /\ r.op = "accept"
      BY DEF Local
    <3>3. r \in PcRec
      <4>1. Local("got") \in PcRec
        BY DEF Local, PcRec, Labels, Text
      <4>2. QED
        BY <3>1, <4>1 DEF PcRec
    <3> HIDE DEF r
    <3>4. Fits(w, r)
      BY <3>1, <3>2, <3>3, LabelFacts DEF Fits
    <3>5. QED
      BY <1>1, <1>2, <2>4, <3>4, PcBecomes DEF r
  <2>5. QED
    BY <2>1, <2>2, <2>3, <2>4 DEF Misreads
<1>4. QED
  BY <1>1, <1>3, ConnSame, PortSame, QueuesSame DEF Misreads, net, mem, TypeOK

LEMMA TypeWorker ==
    ASSUME TypeOK, UNCHANGED ver, NEW w \in Workers, WorkerWorks(w)
    PROVE  TypeOK'
<1>0. w \in Threads \ {"main"}
  BY ThreadFacts
<1>1. CASE Reposts(w)
  <2>1. SesOK' /\ Slots' = Slots /\ ConnOK' /\ OpsOK' /\ QueuesOK' /\ PortOK'
    BY <1>1, SesSame, ConnSame, QueuesSame, TokenAdded DEF Reposts, PostToken, mem
  <2>2. PcOK'
    BY <1>0, <1>1, <2>1, PcBecomes, RestFits DEF Reposts, PostToken, Enter, Becomes
  <2>3. QED
    BY <2>1, <2>2 DEF TypeOK
<1>2. CASE Echoes(w)
  <2>1. pc[w].s \in Slots /\ pc[w].s # None /\ pc[w].ms \in Text
    BY <1>2, GotFacts DEF Echoes, At
  <2>2. Data01(w) \in Text
    <3>1. Stale \in Msg
      BY EchoConstants DEF Stale, Msg, None
    <3>2. QED
      BY <2>1, <3>1 DEF Data01, Text
  <2>3. ConnOK' /\ OpsOK' /\ SesOK' /\ Slots' = Slots
    BY <1>2, <2>1, <2>2, EchoesTypes DEF Echoes
  <2>4. PcOK'
    BY <1>0, <1>2, <2>1, <2>3, PcStays, LabelFacts DEF Echoes
  <2>5. QED
    BY <1>2, <2>3, <2>4, PortSame, QueuesSame DEF Echoes, TypeOK
<1>3. CASE Queues(w)
  <2>1. pc[w].s \in Slots /\ pc[w].s # None /\ pc[w].ms \in Text
    BY <1>3, GotFacts DEF Queues, At
  <2>2. SesOK' /\ Slots' = Slots
    BY <1>3, SesSame DEF Queues
  <2>3. PcOK'
    BY <1>0, <1>3, <2>1, <2>2, PcStays, LabelFacts DEF Queues
  <2>4. QueuesOK'
    BY <1>3, <2>1, <2>2, DequeAdd, QueuesSame DEF Queues, net
  <2>5. QED
    BY <1>3, <2>2, <2>3, <2>4, ConnSame, PortSame DEF Queues, net, TypeOK
<1>4. CASE Frees(w)
  <2>1. pc[w].s \in Slots
    BY <1>4, GotFacts DEF Frees, At
  <2>2. SesOK' /\ Slots' = Slots
    BY <1>4, <2>1, SesWrites DEF Frees
  <2>3. QED
    BY <1>0, <1>4, <2>2, PcRests, ConnSame, PortSame, QueuesSame DEF Frees, net, TypeOK
<1>5. CASE Pops(w)
  <2>1. pc[w].s \in Slots
    BY <1>5, GotFacts DEF Pops, SendCompleted06, At
  <2> DEFINE s == pc[w].s
  <2> DEFINE rest == Tail(ses[s].out)
  <2>2. ver = "06" /\ ses[s].out \in Seq(Text) /\ ses[s].out # <<>>
    BY <1>5, <2>1, SesFacts DEF Pops, SendCompleted06
  <2>3. rest \in Seq(Text) /\ (rest # <<>> => Head(rest) \in Text)
    <3> DEFINE T == Text
    <3>1. ses[s].out \in Seq(T) /\ ses[s].out # <<>>
      BY <2>2
    <3> HIDE DEF T
    <3>2. rest \in Seq(T)
      BY <3>1, SeqTail
    <3>3. rest # <<>> => Head(rest) \in T
      BY <3>2, SeqTail
    <3>4. QED
      BY <3>2, <3>3 DEF T
  <2>4. SesOK' /\ Slots' = Slots
    BY <1>5, <2>1, <2>2, <2>3, SesWrites DEF Pops, SendCompleted06
  <2>5. ConnOK' /\ OpsOK'
    BY <1>5, <2>1, <2>3, <2>4, WSASendTypes, ConnSame DEF Pops, SendCompleted06, BindSend06
  <2>6. PcOK'
    BY <1>0, <1>5, <2>4, PcRests, RestIs DEF Pops, SendCompleted06
  <2>7. QED
    BY <1>5, <2>4, <2>5, <2>6, PortSame, QueuesSame DEF Pops, SendCompleted06, TypeOK
<1>6. CASE Activates(w)
  <2>1. pc[w].s \in Slots /\ pc[w].s # None
    BY <1>6, GotFacts DEF Activates, At
  <2>2. SesOK' /\ Slots' = Slots
    BY <1>6, <2>1, SesWrites DEF Activates
  <2>3. QueuesOK'
    <3>1. <<>> \in Text
      BY DEF Text
    <3>2. QED
      BY <1>6, <2>1, <2>2, <3>1, DequeAdd DEF Activates, net
  <2>4. PcOK'
    BY <1>0, <1>6, <2>1, <2>2, PcStays, LabelFacts DEF Activates
  <2>5. QED
    BY <1>6, <2>2, <2>3, <2>4, ConnSame, PortSame DEF Activates, net, TypeOK
<1>7. CASE Rebinds(w)
  <2>1. pc[w].s \in Slots /\ pc[w].s # None
    BY <1>7, GotFacts DEF Rebinds, At
  <2>2. SesOK' /\ Slots' = Slots
    BY <1>7, SesSame DEF Rebinds, mem
  <2>3. ConnOK' /\ OpsOK'
    BY <1>7, <2>1, <2>2, WSARecvTypes DEF Rebinds
  <2>4. PcOK'
    <3>1. "close" \in ThreadLabels(w) /\ "close" \in MayHold(w)
      BY LabelFacts
    <3>2. CASE Rests(w)
      BY <1>0, <2>2, <3>2, PcRests
    <3>3. CASE Stays(w, "close")
      BY <1>0, <2>1, <2>2, <3>1, <3>3, PcStays
    <3>4. QED
      BY <1>7, <3>2, <3>3 DEF Rebinds
  <2>5. QED
    BY <1>7, <2>2, <2>3, <2>4, PortSame, QueuesSame DEF Rebinds, mem, TypeOK
<1>8. CASE Unbinds(w)
  <2>1. SesOK' /\ Slots' = Slots
    BY <1>8, SesSame DEF Unbinds, mem
  <2>2. PcOK'
    BY <1>8, <2>1, PcSent, GotFacts DEF Unbinds, At
  <2>3. QED
    BY <1>8, <2>1, <2>2, ConnSame, PortSame, QueuesSame DEF Unbinds, net, mem, TypeOK
<1>9. QED
  BY <1>1, <1>2, <1>3, <1>4, <1>5, <1>6, <1>7, <1>8, FetchTypes DEF WorkerWorks

(* The session of a thread that closes or sends. *)
LEMMA CloserFacts ==
    ASSUME TypeOK, NEW t \in Workers \cup {"sender"}, pc[t].at \in {"close", "closing", "clear"}, pc[t].s # None
    PROVE  t \in Threads \ {"main"} /\ pc[t].s \in Slots /\ {"close", "closing", "clear"} \subseteq ThreadLabels(t) \cap MayHold(t)
<1>1. t \in Threads \ {"main"} /\ {"close", "closing", "clear"} \subseteq ThreadLabels(t) \cap MayHold(t)
  BY ThreadFacts, LabelFacts
<1>2. QED
  BY <1>1, PcFacts

LEMMA SenderFacts ==
    ASSUME TypeOK, pc["sender"].at \in {"cas", "wsasend", "send", "movefront", "close", "closing", "clear"}
    PROVE  pc["sender"].s \in Slots /\ pc["sender"].s # None /\ pc["sender"].ms \in Text
<1>1. "sender" \in Threads \ {"main"}
  BY ThreadFacts
<1>2. pc["sender"].at \in Working("sender")
  BY LabelFacts
<1>3. QED
  BY <1>1, <1>2, WorksFor, PcFacts

LEMMA ClosingHas ==
    ASSUME TypeOK, NEW t \in Workers \cup {"sender"},
           pc[t].at \in {"closing", "clear"} \/ (pc[t].at = "close" /\ ver \notin Reusing)
    PROVE  pc[t].s # None
<1>1. t \in Threads \ {"main"} /\ pc[t].at \in Working(t)
  BY ThreadFacts, LabelFacts
<1>2. QED
  BY <1>1, WorksFor

LEMMA TypeCloser ==
    ASSUME TypeOK, UNCHANGED ver, NEW t \in Threads, CloserWorks(t)
    PROVE  TypeOK'
<1>0. t \in Workers \cup {"sender"} /\ t \in Threads \ {"main"} /\ <<>> \in Text
  BY ThreadFacts DEF CloserWorks, Text
<1>1. ASSUME Ends(t) \/ Blocks(t)
      PROVE  TypeOK'
  <2>1. pc[t].s \in Slots /\ pc[t].s # None /\ "closing" \in ThreadLabels(t) \cap MayHold(t)
    BY <1>0, <1>1, CloserFacts DEF Ends, Blocks, At
  <2>2. SesOK' /\ Slots' = Slots
    BY <1>1, <2>1, SesWrites, SesEnds DEF Ends, Blocks
  <2>3. QueuesOK'
    BY <1>0, <1>1, <2>1, <2>2, DequeAdd DEF Ends, Blocks, net
  <2>4. PcOK'
    BY <1>0, <1>1, <2>1, <2>2, PcStays, PcRests DEF Ends, Blocks
  <2>5. QED
    BY <1>1, <2>2, <2>3, <2>4, ConnSame, PortSame DEF Ends, Blocks, net, TypeOK
<1>2. CASE Shuts(t)
  <2>1. pc[t].s # None
    BY <1>0, <1>2, ClosingHas DEF Shuts, At, Copying, Reusing, OneBuffer
  <2>2. pc[t].s \in Slots /\ "clear" \in ThreadLabels(t) \cap MayHold(t)
    BY <1>0, <1>2, <2>1, CloserFacts DEF Shuts, At
  <2>3. SesOK' /\ Slots' = Slots
    BY <1>2, SesSame DEF Shuts, mem
  <2>4. ConnOK' /\ OpsOK'
    BY <1>2, <2>2, <2>3, SesFacts, StSet, ConnSame DEF Shuts, closesocket
  <2>5. PcOK'
    BY <1>0, <1>2, <2>1, <2>2, <2>3, PcStays DEF Shuts
  <2>6. QED
    BY <1>2, <2>3, <2>4, <2>5, PortSame, QueuesSame DEF Shuts, mem, TypeOK
<1>3. CASE Clears(t)
  <2>1. pc[t].s \in Slots
    BY <1>0, <1>3, ClosingHas, CloserFacts DEF Clears, At
  <2>2. SesOK' /\ Slots' = Slots
    BY <1>3, <2>1, SesEnds DEF Clears
  <2>3. QED
    BY <1>0, <1>3, <2>2, PcRests, ConnSame, PortSame, QueuesSame DEF Clears, net, TypeOK
<1>4. QED
  BY <1>1, <1>2, <1>3 DEF CloserWorks

LEMMA TypePacket ==
    ASSUME TypeOK, UNCHANGED ver, PacketWorks("packet")
    PROVE  TypeOK'
<1>0. "packet" \in Threads \ {"main"}
  BY ThreadFacts
<1> DEFINE s == pc["packet"].s
<1>1. ASSUME At("packet", "send"), ver # "08"
      PROVE  s \in Slots /\ pc["packet"].ms \in Text
  BY <1>0, <1>1, WorksFor, PcFacts, LabelFacts DEF At
<1>2. CASE Dequeues
  <2>1. SesOK' /\ Slots' = Slots /\ ConnOK' /\ OpsOK' /\ PortOK'
    BY <1>2, SesSame, ConnSame, PortSame DEF Dequeues, net
  <2> DEFINE S == [s : AllSlots, ms : Text]
  <2>2. deque \in Seq(S) /\ deque # <<>> /\ \A i \in DOMAIN deque : deque[i].s \in Slots
    BY <1>2 DEF Dequeues, TypeOK, QueuesOK
  <2> HIDE DEF S
  <2>3. /\ Tail(deque) \in Seq(S) /\ \A i \in DOMAIN Tail(deque) : Tail(deque)[i].s \in Slots
        /\ Head(deque) \in S /\ Head(deque).s \in Slots
    BY <2>2, SeqTail
  <2>4. QueuesOK'
    BY <1>2, <2>1, <2>3 DEF Dequeues, net, TypeOK, QueuesOK, S
  <2>5. PcOK'
    <3>1. CASE UNCHANGED pc
      BY <2>1, <3>1, PcSame
    <3>2. CASE ver = "08" /\ Becomes("packet", Local("send"))
      <4>1. Fits("packet", Local("send"))
        <5>1. Local("send") \in PcRec /\ Local("send").s = None /\ Local("send").at = "send" /\ Local("send").op = ""
          BY DEF PcRec, Local, Labels, Text
        <5>2. QED
          BY <3>2, <5>1, ThreadFacts, LabelFacts DEF Fits
      <4>2. QED
        BY <1>0, <2>1, <3>2, <4>1, PcBecomes
    <3>3. CASE ver # "08" /\ Becomes("packet", [Local("send") EXCEPT !.s = Head(deque).s, !.ms = Head(deque).ms])
      <4> DEFINE r == [Local("send") EXCEPT !.s = Head(deque).s, !.ms = Head(deque).ms]
      <4>1. Head(deque).s \in Slots /\ Head(deque).s \in AllSlots /\ Head(deque).s # None /\ Head(deque).ms \in Text
        BY <2>3, SlotFacts DEF S
      <4>2. r.at = "send" /\ r.s = Head(deque).s
        BY DEF Local
      <4>3. r \in PcRec
        <5>1. Local("send") \in PcRec
          BY DEF PcRec, Local, Labels, Text
        <5>2. QED
          BY <4>1, <5>1 DEF PcRec
      <4> HIDE DEF r
      <4>4. Fits("packet", r)
        BY <3>3, <4>1, <4>2, <4>3, ThreadFacts, LabelFacts DEF Fits
      <4>5. QED
        BY <1>0, <2>1, <3>3, <4>4, PcBecomes DEF r
    <3>4. QED
      BY <1>2, <3>1, <3>2, <3>3 DEF Dequeues
  <2>6. QED
    BY <2>1, <2>4, <2>5 DEF TypeOK
<1>3. CASE Answers
  <2>1. SesOK' /\ Slots' = Slots
    BY <1>3, SesSame DEF Answers, mem
  <2>2. ConnOK' /\ OpsOK'
    BY <1>1, <1>3, <2>1, WSASendTypes DEF Answers
  <2>3. QED
    BY <1>0, <1>3, <2>1, <2>2, PcRests, PortSame, QueuesSame DEF Answers, mem, TypeOK
<1>4. CASE Puts
  <2>1. s \in Slots /\ pc["packet"].ms \in Text /\ ses[s].out \in Text /\ ver # "06"
    BY <1>1, <1>4, SesFacts DEF Puts
  <2>2. ses[s].out \o pc["packet"].ms \in Text
    BY <2>1 DEF Text
  <2>3. ses' = [ses EXCEPT ![s].out = ses[s].out \o pc["packet"].ms]
    BY <1>4 DEF Puts
  <2>4. SesOK' /\ Slots' = Slots
    BY <2>1, <2>2, <2>3, SesWrites DEF Puts
  <2>5. QED
    BY <1>0, <1>4, <2>4, PcRests, ConnSame, PortSame, QueuesSame DEF Puts, net, TypeOK
<1>5. CASE Lines
  <2>1. s \in Slots /\ pc["packet"].ms \in Text /\ ses[s].out \in Seq(Text) /\ ver = "06"
    BY <1>1, <1>5, SesFacts DEF Lines
  <2> DEFINE q == Append(ses[s].out, pc["packet"].ms)
  <2>2. q \in Seq(Text) /\ Head(q) \in Text
    <3> DEFINE T == Text
    <3>1. ses[s].out \in Seq(T) /\ pc["packet"].ms \in T
      BY <2>1
    <3> HIDE DEF T
    <3>2. q \in Seq(T) /\ q # <<>>
      BY <3>1
    <3>3. Head(q) \in T
      BY <3>2, SeqTail
    <3>4. QED
      BY <3>2, <3>3 DEF T
  <2>3. ses' = [ses EXCEPT ![s].out = q]
    BY <1>5 DEF Lines, EnqueueSendData06
  <2>4. SesOK' /\ Slots' = Slots
    BY <2>1, <2>2, <2>3, SesWrites
  <2>5. ConnOK' /\ OpsOK'
    BY <1>5, <2>1, <2>2, <2>4, WSASendTypes, ConnSame DEF Lines, EnqueueSendData06, BindSend06
  <2>6. QED
    BY <1>0, <1>5, <2>4, <2>5, PcRests, PortSame, QueuesSame DEF Lines, TypeOK
<1>6. QED
  BY <1>2, <1>3, <1>4, <1>5 DEF PacketWorks

LEMMA TypeSender ==
    ASSUME TypeOK, UNCHANGED ver, SenderWorks("sender")
    PROVE  TypeOK'
<1>0. "sender" \in Threads \ {"main"}
  BY ThreadFacts
<1> DEFINE s == pc["sender"].s
<1>1. {"cas", "wsasend", "send", "movefront", "close"} \subseteq ThreadLabels("sender") \cap MayHold("sender")
  BY LabelFacts
<1>2. ASSUME NEW x \in Slots, Finds(x)
      PROVE  TypeOK'
  <2>1. SesOK' /\ Slots' = Slots
    BY <1>2, SesSame DEF Finds, mem
  <2> DEFINE r == [Local("cas") EXCEPT !.s = x]
  <2>2. r.at = "cas" /\ r.s = x /\ x # None
    BY SlotFacts DEF Local
  <2>3. r \in PcRec
    <3>1. Local("cas") \in PcRec
      BY DEF PcRec, Local, Labels, Text
    <3>2. QED
      BY <3>1, SlotFacts DEF PcRec
  <2>4. Becomes("sender", r)
    BY <1>2 DEF Finds
  <2> HIDE DEF r
  <2>5. Fits("sender", r)
    BY <2>2, <2>3, ThreadFacts, LabelFacts DEF Fits
  <2>6. PcOK'
    BY <1>0, <1>2, <2>1, <2>4, <2>5, PcBecomes
  <2>7. QED
    BY <1>2, <2>1, <2>6, ConnSame, PortSame, QueuesSame DEF Finds, net, mem, TypeOK
<1>3. ASSUME pc["sender"].at \in {"cas", "wsasend", "send", "movefront"}
      PROVE  s \in Slots /\ s # None /\ pc["sender"].ms \in Text
  BY <1>3, SenderFacts
<1>4. CASE Claims
  <2>1. SesOK' /\ Slots' = Slots
    BY <1>3, <1>4, SesWrites DEF Claims, At
  <2>2. QED
    BY <1>0, <1>1, <1>3, <1>4, <2>1, PcStays, ConnSame, PortSame, QueuesSame DEF Claims, net, At, TypeOK
<1>5. CASE Checks
  <2>1. SesOK' /\ Slots' = Slots
    BY <1>5, SesSame DEF Checks, mem
  <2>2. PcOK'
    <3>1. Stays("sender", "send") \/ Stays("sender", "close")
      BY <1>5 DEF Checks
    <3>2. QED
      BY <1>0, <1>1, <1>3, <1>5, <2>1, <3>1, PcStays DEF Checks, At
  <2>3. QED
    BY <1>5, <2>1, <2>2, ConnSame, PortSame, QueuesSame DEF Checks, net, mem, TypeOK
<1>6. ASSUME SendsAt("wsasend") \/ SendsAt("send")
      PROVE  s \in Slots /\ s # None /\ ses[s].out \in Text
  BY <1>3, <1>6, SesFacts DEF SendsAt, At
<1>7. CASE Fails
  <2>1. SesOK' /\ Slots' = Slots
    BY <1>7, SesSame DEF Fails, mem
  <2>2. PcOK'
    <3>1. Stays("sender", "close") \/ Stays("sender", "movefront")
      BY <1>7 DEF Fails
    <3>2. QED
      BY <1>0, <1>1, <1>6, <1>7, <2>1, <3>1, PcStays DEF Fails
  <2>3. ConnOK' /\ OpsOK'
    BY <1>6, <1>7, <2>1, WSASendTypes DEF Fails
  <2>4. QED
    BY <1>7, <2>1, <2>2, <2>3, PortSame, QueuesSame DEF Fails, mem, TypeOK
<1>8. CASE Advances
  <2> DEFINE ms == pc["sender"].ms
  <2> DEFINE o == IF IsPrefix(ms, ses[s].out) THEN SubSeq(ses[s].out, Len(ms) + 1, Len(ses[s].out)) ELSE <<Stale>>
  <2>1. s \in Slots /\ ms \in Text /\ ses[s].out \in Text /\ ver # "06"
    BY <1>3, <1>8, SesFacts DEF Advances, At
  <2>2. SubSeq(ses[s].out, Len(ms) + 1, Len(ses[s].out)) \in Text
    BY <2>1 DEF Text
  <2>3. <<Stale>> \in Text
    BY EchoConstants DEF Stale, Msg, None, Text
  <2>4. o \in Text /\ ses' = [ses EXCEPT ![s].out = o]
    BY <1>8, <2>2, <2>3 DEF Advances, MoveFront05
  <2> HIDE DEF o
  <2>5. SesOK' /\ Slots' = Slots
    BY <2>1, <2>4, SesWrites
  <2>6. QED
    BY <1>0, <1>8, <2>5, PcRests, ConnSame, PortSame, QueuesSame DEF Advances, net, TypeOK
<1>9. ASSUME NEW told \in BOOLEAN, Posts(told)
      PROVE  TypeOK'
  <2>1. SesOK' /\ Slots' = Slots
    BY <1>9, SesSame DEF Posts, mem
  <2>2. ConnOK' /\ OpsOK'
    BY <1>6, <1>9, <2>1, WSASendTypes DEF Posts
  <2>3. PcOK'
    <3>1. CASE told
      <4> DEFINE r == [pc["sender"] EXCEPT !.at = "movefront", !.ms = ses[s].out]
      <4>1. r \in PcRec /\ r.at = "movefront" /\ r.s = s
        BY <1>0, <1>6, <1>9, PcFacts DEF Posts, PcRec, Labels
      <4>2. Becomes("sender", r)
        BY <1>9, <3>1 DEF Posts
      <4> HIDE DEF r
      <4>3. Fits("sender", r)
        BY <1>6, <1>9, <4>1, ThreadFacts, LabelFacts DEF Fits, Posts
      <4>4. QED
        BY <1>0, <2>1, <4>2, <4>3, PcBecomes
    <3>2. CASE ~told
      BY <1>0, <1>1, <1>6, <1>9, <2>1, <3>2, PcStays DEF Posts
    <3>3. QED
      BY <3>1, <3>2
  <2>4. QED
    BY <1>9, <2>1, <2>2, <2>3, PortSame, QueuesSame DEF Posts, mem, TypeOK
<1>10. QED
  BY <1>2, <1>4, <1>5, <1>7, <1>8, <1>9 DEF SenderWorks

(* Every step keeps the types.                                             *)
LEMMA TypeStep ==
    ASSUME TypeOK, UNCHANGED ver, Known \/ \E w \in Workers : Misreads(w)
    PROVE  TypeOK'
<1>1. ASSUME NEW t \in Threads, Acts(t)
      PROVE  TypeOK'
  <2>1. t \in Threads \ {"main"} /\ Works(t)
    BY <1>1 DEF Acts
  <2>2. CASE Leaves(t)
    BY <2>1, <2>2, TypeLeaves
  <2>3. CASE AccepterWorks(t)
    BY <2>3, TypeAccepter DEF AccepterWorks
  <2>4. CASE WorkerWorks(t)
    BY <2>4, TypeWorker DEF WorkerWorks
  <2>5. CASE CloserWorks(t)
    BY <2>1, <2>5, TypeCloser
  <2>6. CASE PacketWorks(t)
    BY <2>6, TypePacket DEF PacketWorks
  <2>7. CASE SenderWorks(t)
    BY <2>7, TypeSender DEF SenderWorks
  <2>8. QED
    BY <2>1, <2>2, <2>3, <2>4, <2>5, <2>6, <2>7 DEF Works
<1>2. QED
  BY <1>1, TypeEnv, TypeKernel, TypeManages, TypeMisread DEF Known

-----------------------------------------------------------------------------
(* Nobody is started twice. *)
MainGoes(from, to, ts) ==
  /\ pc["main"].at = from /\ pc'["main"].at = to
  /\ \A t \in Threads \ {"main"} : t \notin ts => pc'[t] = pc[t]

LEMMA GoesTo ==
    ASSUME TypeOK, NEW from, NEW to, To(from, to)
    PROVE  MainGoes(from, to, {})
<1>1. pc["main"].at = from /\ pc' = [pc EXCEPT !["main"] = [Local(to) EXCEPT !.s = pc["main"].s]] /\ "main" \in DOMAIN pc
  BY ThreadFacts DEF To, At, Go, TypeOK, PcOK
<1>2. QED
  BY <1>1 DEF MainGoes, Local, TypeOK, PcOK

LEMMA GoesToken ==
    ASSUME TypeOK, NEW from, NEW to, PostToken("main", from, to)
    PROVE  MainGoes(from, to, {})
  BY ThreadFacts DEF PostToken, At, Enter, TypeOK, PcOK, MainGoes, Local

LEMMA GoesStart ==
    ASSUME TypeOK, NEW from, NEW to, NEW ts, Start(ts, from, to)
    PROVE  MainGoes(from, to, ts)
  BY ThreadFacts DEF Start, At, TypeOK, PcOK, MainGoes, Local

(* What is before the threads of the network are started stays before it.  *)
MainOrder ==
  /\ pc'["main"].at \in BeforeNet => pc["main"].at \in BeforeNet /\ \A t \in NetThreads : pc'[t] = pc[t]
  /\ pc'["main"].at \in BeforePackets => pc["main"].at \in BeforePackets /\ pc'["packet"] = pc["packet"]
  /\ pc'["main"].at \in BeforeRedis /\ ver = "08" => pc["main"].at \in BeforeRedis /\ pc'["redis"] = pc["redis"]

LEMMA OrderNet ==
    ASSUME ver # "08", NEW from, NEW to, NEW ts, MainGoes(from, to, ts), ts \subseteq NetThreads,
           ts # {} => to \notin BeforeNet, to \in BeforeNet => from \in BeforeNet,
           to \in {"init", "packets"} => from \in {"init", "packets"}
    PROVE  MainOrder
<1>1. NetThreads \subseteq Threads \ {"main"} /\ "packet" \in Threads \ {"main"} /\ "packet" \notin ts
  BY ThreadFacts DEF NetThreads
<1>2. QED
  BY <1>1 DEF MainOrder, MainGoes, BeforePackets

LEMMA OrderTo ==
    ASSUME TypeOK, ver # "08", NEW from, NEW to, To(from, to) \/ PostToken("main", from, to),
           to \in BeforeNet => from \in BeforeNet, to \in {"init", "packets"} => from \in {"init", "packets"}
    PROVE  MainOrder
<1>1. MainGoes(from, to, {})
  BY GoesTo, GoesToken
<1>2. QED
  BY <1>1, OrderNet

LEMMA OrderStart ==
    ASSUME TypeOK, ver # "08", NEW from, NEW to, to \notin BeforeNet,
           Start(Workers \cup {"accepter"}, from, to) \/ Start(Workers \cup {"accepter", "sender"}, from, to)
    PROVE  MainOrder
<1>1. Workers \cup {"accepter"} \subseteq NetThreads /\ Workers \cup {"accepter", "sender"} \subseteq NetThreads
  BY DEF NetThreads
<1>2. {"init", "packets"} \subseteq BeforeNet
  BY DEF BeforeNet
<1>3. MainGoes(from, to, Workers \cup {"accepter"}) \/ MainGoes(from, to, Workers \cup {"accepter", "sender"})
  BY GoesStart
<1>4. QED
  BY <1>1, <1>2, <1>3, OrderNet

LEMMA Order01 ==
    ASSUME TypeOK, ver \in {"01", "02"}, Main01
    PROVE  MainOrder
<1>0. ver # "08" /\ ver \notin Reusing
  BY DEF Reusing
<1>1. CASE InitSocket01
  BY <1>0, <1>1, OrderTo DEF InitSocket01, Try, BeforeNet
<1>2. CASE BindAndListen01
  BY <1>0, <1>2, OrderTo DEF BindAndListen01, Raise, BeforeNet
<1>3. CASE StartServer01
  BY <1>0, <1>3, OrderTo, OrderStart DEF StartServer01, Raise, BeforeNet
<1>4. CASE PostTerminateMsg01("main", "run", "destroy")
  BY <1>0, <1>4, OrderTo DEF PostTerminateMsg01, BeforeNet
<1>5. CASE DestroyThread01
  BY <1>0, <1>5, OrderTo DEF DestroyThread01, Lower, Join, BeforeNet
<1>6. QED
  BY <1>1, <1>2, <1>3, <1>4, <1>5 DEF Main01

LEMMA OrderDestroy ==
    ASSUME TypeOK, ver # "08", NEW x, NEW y \in {"close port", "stop sender"}, NEW z \in {"done", "join packet", "join sender"},
           \/ PostToken("main", "run", "destroy")
           \/ DestroyWorkerThread03 \/ DestroyAccepterThread03 \/ DestroyAccepterThread05
           \/ Lower(x, y, z)
    PROVE  MainOrder
<1>1. CASE PostToken("main", "run", "destroy")
  BY <1>1, OrderTo DEF BeforeNet
<1>2. CASE DestroyWorkerThread03
  BY <1>2, OrderTo DEF DestroyWorkerThread03, Lower, Join, BeforeNet
<1>3. CASE DestroyAccepterThread03 \/ DestroyAccepterThread05
  BY <1>3, OrderTo DEF DestroyAccepterThread03, DestroyAccepterThread05, Lower, Join, BeforeNet
<1>4. CASE Lower(x, y, z)
  BY <1>4, OrderTo DEF Lower, BeforeNet
<1>5. QED
  BY <1>1, <1>2, <1>3, <1>4

LEMMA Order03 ==
    ASSUME TypeOK, ver \in {"03", "03R"}, Main03 \/ Main03R
    PROVE  MainOrder
<1>0. ver # "08" /\ ver \notin Reusing
  BY DEF Reusing
<1>1. CASE InitSocket01 \/ BindAndListen01 \/ Listening03R
  BY <1>0, <1>1, OrderTo DEF InitSocket01, BindAndListen01, Listening03R, Try, Raise, BeforeNet
<1>2. CASE Raise({"server"}, "start", "port") \/ (To("port", "failed") /\ UNCHANGED on)
           \/ Raise({"server"}, "init", "socket") \/ Try("start", "threads", "run")
  BY <1>0, <1>2, OrderTo DEF Try, Raise, BeforeNet
<1>3. CASE Start(Workers \cup {"accepter"}, "port", "run") \/ Start(Workers \cup {"accepter"}, "threads", "run")
  BY <1>0, <1>3, OrderStart DEF BeforeNet
<1>4. CASE Terminate03 \/ NetworkTerminate03R \/ Lower({"server"}, "close port", "done")
  BY <1>0, <1>4, OrderDestroy DEF Terminate03, NetworkTerminate03R
<1>5. QED
  BY <1>1, <1>2, <1>3, <1>4 DEF Main03, StartServer03, Main03R, EchoServer03R, StartNetwork03R

LEMMA OrderPackets ==
    ASSUME TypeOK, ver # "08", CreatePacketProcessThread04 \/ DestroyPacketProcessThread04
    PROVE  MainOrder
<1>1. CASE Start({"packet"}, "packets", "socket")
  <2>1. MainGoes("packets", "socket", {"packet"})
    BY <1>1, GoesStart
  <2>2. NetThreads \subseteq Threads \ {"main"} /\ "packet" \notin NetThreads
    BY ThreadFacts DEF NetThreads
  <2>3. QED
    BY <2>1, <2>2 DEF MainGoes, MainOrder, BeforeNet, BeforePackets
<1>2. CASE Raise({"server"}, "init", "packets")
  BY <1>2, OrderTo DEF Raise, BeforeNet
<1>3. CASE DestroyPacketProcessThread04
  BY <1>3, OrderTo DEF DestroyPacketProcessThread04, Lower, Join, BeforeNet
<1>4. QED
  BY <1>1, <1>2, <1>3 DEF CreatePacketProcessThread04

LEMMA Order04 ==
    ASSUME TypeOK, ver \in {"04", "05", "06"}, Main04 \/ Main05 \/ Main06
    PROVE  MainOrder
<1>0. ver # "08" /\ ver \notin Reusing
  BY DEF Reusing
<1>1. CASE Listening03R \/ Try("start", "threads", "run")
  BY <1>0, <1>1, OrderTo DEF Listening03R, Try, Raise, BeforeNet
<1>2. CASE Start(Workers \cup {"accepter"}, "threads", "run") \/ Start(Workers \cup {"accepter", "sender"}, "threads", "run")
  BY <1>0, <1>2, OrderStart DEF BeforeNet
<1>3. CASE NetworkTerminate03R \/ NetworkTerminate05
  <2>1. CASE Join({"sender"}, "join sender", "close port")
    BY <1>0, <2>1, OrderTo DEF Join, BeforeNet
  <2>2. QED
    BY <1>0, <1>3, <2>1, OrderDestroy DEF NetworkTerminate03R, NetworkTerminate05, DestroySenderThread05
<1>4. QED
  BY <1>0, <1>1, <1>2, <1>3, OrderPackets
     DEF Main04, Main05, Main06, EchoServer04, EchoServer05, EchoServer06, StartNetwork04, StartNetwork05, StartNetwork06,
         StartNetwork03R, NetworkTerminate04, NetworkTerminate06

LEMMA Order07 ==
    ASSUME TypeOK, ver \in {"07", "07R"}, Main07
    PROVE  MainOrder
<1>0. ver # "08" /\ ver \in Reusing
  BY DEF Reusing
<1>1. CASE Try("socket", "iocp", "run") \/ Try("iocp", "threads", "run")
           \/ Raise({"listen"}, "bind", "associate") \/ (To("bind", "associate") /\ UNCHANGED on)
           \/ Raise({"assoc"}, "associate", "run") \/ (To("associate", "run") /\ UNCHANGED on)
  BY <1>0, <1>1, OrderTo DEF Try, Raise, BeforeNet
<1>2. CASE Start(Workers \cup {"accepter", "sender"}, "threads", "bind")
  BY <1>0, <1>2, OrderStart DEF BeforeNet
<1>3. CASE NetworkTerminate05
  <2>1. CASE Join({"sender"}, "join sender", "close port")
    BY <1>0, <2>1, OrderTo DEF Join, BeforeNet
  <2>2. QED
    BY <1>0, <1>3, <2>1, OrderDestroy DEF NetworkTerminate05, DestroySenderThread05
<1>4. QED
  BY <1>0, <1>1, <1>2, <1>3, OrderPackets DEF Main07, EchoServer07, StartNetwork07, NetworkTerminate07

LEMMA Order08 ==
    ASSUME TypeOK, ver = "08", Main08
    PROVE  MainOrder
<1>0. ver \in Reusing /\ NetThreads \subseteq Threads \ {"main"} /\ {"packet", "redis"} \subseteq Threads \ {"main"}
      /\ "packet" \notin NetThreads /\ "redis" \notin NetThreads
  BY ThreadFacts DEF Reusing, NetThreads
<1>1. ASSUME NEW from, NEW to, NEW ts, MainGoes(from, to, ts),
             to \in BeforeNet => from \in BeforeNet /\ ts = {},
             to \in BeforePackets => from \in BeforePackets /\ "packet" \notin ts,
             to \in BeforeRedis => from \in BeforeRedis /\ "redis" \notin ts
      PROVE  MainOrder
  BY <1>0, <1>1 DEF MainOrder, MainGoes
<1>2. ASSUME NEW from, NEW to, To(from, to) \/ PostToken("main", from, to), to \in BeforeNet => from \in BeforeNet,
             to \in BeforePackets => from \in BeforePackets, to \in BeforeRedis => from \in BeforeRedis
      PROVE  MainOrder
  BY <1>1, <1>2, GoesTo, GoesToken
<1>3. CASE StartNetwork08
  <2>1. CASE Start(Workers \cup {"accepter", "sender"}, "threads", "bind")
    <3>1. MainGoes("threads", "bind", Workers \cup {"accepter", "sender"})
      BY <2>1, GoesStart
    <3>2. {"packet", "redis"} \cap (Workers \cup {"accepter", "sender"}) = {}
      BY ThreadFacts
    <3>3. QED
      BY <1>0, <1>1, <3>1, <3>2 DEF BeforeNet, BeforePackets, BeforeRedis
  <2>2. QED
    BY <1>0, <1>2, <1>3, <2>1 DEF StartNetwork08, CreateSessionPool08, Raise, Try, BeforeNet, BeforePackets, BeforeRedis
<1>4. CASE PacketManagerStart08
  <2>1. CASE PacketManagerInit08 \/ RedisStart08
    BY <1>0, <1>2, <2>1 DEF PacketManagerInit08, RedisStart08, Raise, BeforeNet, BeforePackets, BeforeRedis
  <2>2. CASE RedisRun08
    <3>1. MainGoes("redis threads", "rooms", {"redis"})
      BY <2>2, GoesStart DEF RedisRun08
    <3>2. QED
      BY <1>0, <1>1, <3>1 DEF BeforeNet, BeforePackets, BeforeRedis
  <2>3. CASE PacketManagerRun08
    <3>1. MainGoes("rooms", "run", {"packet"})
      BY <2>3, ThreadFacts DEF PacketManagerRun08, MainGoes, TypeOK, PcOK, Local, At
    <3>2. QED
      BY <1>0, <1>1, <3>1 DEF BeforeNet, BeforePackets, BeforeRedis
  <2>4. QED
    BY <1>4, <2>1, <2>2, <2>3 DEF PacketManagerStart08
<1>5. CASE DestroyThread08
  <2>1. CASE DestroyWorkerThread03 \/ DestroyAccepterThread05
    BY <1>0, <1>2, <2>1 DEF DestroyWorkerThread03, DestroyAccepterThread05, Lower, Join, BeforeNet, BeforePackets, BeforeRedis
  <2>2. CASE DestroySenderThread05
    BY <1>0, <1>2, <2>2 DEF DestroySenderThread05, Lower, Join, BeforeNet, BeforePackets, BeforeRedis
  <2>3. QED
    BY <1>5, <2>1, <2>2 DEF DestroyThread08
<1>6. CASE PostToken("main", "run", "destroy") \/ Lower({"sessions"}, "close port", "stop redis")
  BY <1>0, <1>2, <1>6 DEF Lower, BeforeNet, BeforePackets, BeforeRedis
<1>7. CASE RedisTerminate08
  <2>1. CASE At("main", "stop redis") /\ Enter("main", "failed")
    <3>1. MainGoes("stop redis", "failed", {})
      BY <2>1, ThreadFacts DEF MainGoes, TypeOK, PcOK, Local, At, Enter
    <3>2. QED
      BY <1>0, <1>1, <3>1 DEF BeforeNet, BeforePackets, BeforeRedis
  <2>2. QED
    BY <1>0, <1>2, <1>7, <2>1 DEF RedisTerminate08, Lower, Join, BeforeNet, BeforePackets, BeforeRedis
<1>8. CASE DestroyPacketProcessThread08 \/ Lower({"server"}, "stopped", "done")
  BY <1>0, <1>2, <1>8 DEF DestroyPacketProcessThread08, Lower, Join, BeforeNet, BeforePackets, BeforeRedis
<1>9. QED
  BY <1>3, <1>4, <1>5, <1>6, <1>7, <1>8 DEF Main08, ChatTerminate08, NetworkTerminate08

LEMMA OrderMain ==
    ASSUME TypeOK, StartInv, UNCHANGED ver, MainOrder
    PROVE  StartInv'
<1>1. BeforeNet' = BeforeNet /\ BeforePackets' = BeforePackets /\ BeforeRedis' = BeforeRedis
  BY DEF BeforeNet, BeforePackets, BeforeRedis
<1>2. QED
  BY <1>1 DEF MainOrder, StartInv

(* Who misreads op_type_ is a worker that handles a completion, and moves  *)
(* alone.                                                                  *)
LEMMA MisreadGoes ==
    ASSUME TypeOK, NEW w, Misreads(w)
    PROVE  /\ w \in Workers /\ w # "main" /\ pc[w].at \in {"close", "got", "third"}
           /\ \A u \in Threads : u # w => pc'[u] = pc[u]
<1>1. w \in Workers /\ w # "main" /\ pc[w].at \in {"close", "got", "third"} /\ \E r : Becomes(w, r)
  BY ThreadFacts DEF Misreads, At, Rests
<1>2. QED
  BY <1>1 DEF Becomes, TypeOK, PcOK

(* The threads change nothing before they are started.                     *)
LEMMA OrderActs ==
    ASSUME TypeOK, StartInv, UNCHANGED ver, NEW t \in Threads, Acts(t) \/ Misreads(t)
    PROVE  StartInv'
<1>1. BeforeNet' = BeforeNet /\ BeforePackets' = BeforePackets /\ BeforeRedis' = BeforeRedis
  BY DEF BeforeNet, BeforePackets, BeforeRedis
<1>2. "main" # t /\ pc[t].at # "off" /\ \A u \in Threads : u # t => pc'[u] = pc[u]
  BY MisreadGoes DEF Acts, TypeOK, PcOK
<1>3. NetThreads \subseteq Threads /\ {"main", "packet", "redis"} \subseteq Threads
  BY ThreadFacts DEF NetThreads
<1>4. pc'["main"] = pc["main"]
  BY <1>2, <1>3
<1>5. QED
  BY <1>1, <1>2, <1>3, <1>4 DEF StartInv

(* Nobody is started twice.                                                *)
LEMMA StartStep ==
    ASSUME TypeOK, StartInv, [Next]_<<vars, ver>>
    PROVE  StartInv'
<1>0. UNCHANGED ver
  BY NextIs
<1>1. ASSUME UNCHANGED pc
      PROVE  StartInv'
  BY <1>0, <1>1 DEF StartInv, BeforeNet, BeforePackets, BeforeRedis
<1>2. CASE ClientStep
  BY <1>1, <1>2 DEF ClientStep, Clients, Connect, Say, Quit
<1>3. CASE KernelStep
  BY <1>1, <1>3 DEF KernelStep, Kernel, Sent, Abort, AcceptDone, Elapse
<1>4. ASSUME NEW t \in Threads, Step(t)
      PROVE  StartInv'
  <2>1. CASE t # "main"
    BY <1>0, <1>4, <2>1, StepIs, OrderActs
  <2>2. CASE t = "main"
    <3>1. MainOrder
      BY <1>4, <2>2, Order01, Order03, Order04, Order07, Order08, ThreadFacts
         DEF Step, Thread01, Thread02, Thread03, Thread03R, Thread04, Thread05, Thread06, Thread07, Thread07R, Thread08,
             Main02, Main07R, EchoServer07R, Main07
    <3>2. QED
      BY <1>0, <3>1, OrderMain
  <2>3. QED
    BY <2>1, <2>2
<1>5. CASE UNCHANGED <<vars, ver>>
  BY <1>1, <1>5 DEF vars
<1>6. QED
  BY <1>2, <1>3, <1>4, <1>5 DEF Next

(* Every practice keeps the types of its variables, and starts a thread    *)
(* only once.                                                              *)
THEOREM EchoTypes == Spec => [](TypeOK /\ StartInv)
<1>1. EchoInit => TypeOK /\ StartInv
  BY TypeInit
<1>2. ASSUME TypeOK, StartInv, [Next]_<<vars, ver>>
      PROVE  TypeOK' /\ StartInv'
  <2>1. UNCHANGED ver /\ (Known \/ (\E w \in Workers : Misreads(w)) \/ UNCHANGED <<vars, ver>>)
    BY <1>2, NextIs
  <2>2. CASE UNCHANGED <<vars, ver>>
    <3>1. UNCHANGED <<conn, accepts, port, pc, ses, deque, ver>>
      BY <2>2 DEF vars, net, mem
    <3>2. SesOK' /\ Slots' = Slots
      BY <1>2, <3>1, SesSame
    <3>3. ConnOK' /\ OpsOK' /\ PcOK' /\ PortOK' /\ QueuesOK'
      BY <1>2, <3>1, <3>2, ConnSame, PcSame, PortSame, QueuesSame
    <3>4. StartInv'
      BY <1>2, StartStep
    <3>5. QED
      BY <3>2, <3>3, <3>4 DEF TypeOK
  <2>3. QED
    BY <1>2, <2>1, <2>2, TypeStep, StartStep
<1>3. QED
  BY <1>1, <1>2, PTL DEF Spec

-----------------------------------------------------------------------------
(* Practice08's sessions *)

Over08(ts) == \A t \in ts : pc[t].at \in {"off", "ended"}
AfterSender   == {"close port", "stop redis", "join redis", "stop packet", "join packet", "stopped", "done", "failed"}
AfterAccepter == {"stop sender", "join sender"} \cup AfterSender
AfterWorkers  == {"close listen", "join accepter"} \cup AfterAccepter

(* The threads are joined before the sessions are deleted, and were not    *)
(* started before these were made.                                         *)
OutliveInv == ver = "08" =>
  /\ pc["main"].at \in {"iocp", "threads"} => "sessions" \in on
  /\ "sessions" \notin on => Over08(NetThreads)
  /\ pc["main"].at \in AfterWorkers => Over08(Workers)
  /\ pc["main"].at \in AfterAccepter => Over08({"accepter"})
  /\ pc["main"].at \in AfterSender => Over08({"sender"})

LEMMA OutliveGoes ==
    ASSUME OutliveInv, ver = "08", UNCHANGED ver, NEW from, NEW to, NEW ts, MainGoes(from, to, ts), ts \cap NetThreads = {},
           "sessions" \in on => "sessions" \in on',
           to \in {"iocp", "threads"} => from \in {"iocp", "threads"} \/ "sessions" \in on',
           to \in AfterWorkers => from \in AfterWorkers \/ Over08(Workers),
           to \in AfterAccepter => from \in AfterAccepter \/ Over08({"accepter"}),
           to \in AfterSender => from \in AfterSender \/ Over08({"sender"})
    PROVE  OutliveInv'
<1>1. \A t \in NetThreads : pc'[t] = pc[t]
  BY ThreadFacts DEF MainGoes, NetThreads
<1>2. Over08(NetThreads)' = Over08(NetThreads) /\ Over08(Workers)' = Over08(Workers)
      /\ Over08({"accepter"})' = Over08({"accepter"}) /\ Over08({"sender"})' = Over08({"sender"})
  BY <1>1 DEF Over08, NetThreads
<1>3. QED
  BY <1>2 DEF OutliveInv, MainGoes

LEMMA OutliveTo ==
    ASSUME TypeOK, OutliveInv, ver = "08", UNCHANGED ver, NEW from, NEW to, To(from, to) \/ PostToken("main", from, to),
           "sessions" \in on => "sessions" \in on',
           to \in {"iocp", "threads"} => from \in {"iocp", "threads"} \/ "sessions" \in on',
           to \in AfterWorkers => from \in AfterWorkers \/ Over08(Workers),
           to \in AfterAccepter => from \in AfterAccepter \/ Over08({"accepter"}),
           to \in AfterSender => from \in AfterSender \/ Over08({"sender"})
    PROVE  OutliveInv'
<1>1. MainGoes(from, to, {})
  BY GoesTo, GoesToken
<1>2. QED
  BY <1>1, OutliveGoes

LEMMA OutliveMain ==
    ASSUME TypeOK, OutliveInv, ver = "08", UNCHANGED ver, Main08
    PROVE  OutliveInv'
<1>1. CASE StartNetwork08
  <2>1. CASE Start(Workers \cup {"accepter", "sender"}, "threads", "bind")
    <3>0. pc["main"].at = "threads" /\ pc'["main"].at = "bind"
      BY <2>1, GoesStart DEF MainGoes
    <3>1. "sessions" \in on'
      BY <2>1, <3>0 DEF OutliveInv, Start
    <3>2. QED
      BY <3>0, <3>1 DEF OutliveInv, AfterWorkers, AfterAccepter, AfterSender
  <2>2. QED
    BY <1>1, <2>1, OutliveTo DEF StartNetwork08, CreateSessionPool08, Raise, Try, AfterWorkers, AfterAccepter, AfterSender
<1>2. CASE PacketManagerStart08
  <2>1. CASE PacketManagerInit08 \/ RedisStart08
    BY <2>1, OutliveTo DEF PacketManagerInit08, RedisStart08, Raise, AfterWorkers, AfterAccepter, AfterSender
  <2>2. CASE RedisRun08
    <3>1. MainGoes("redis threads", "rooms", {"redis"}) /\ on' = on
      BY <2>2, GoesStart DEF RedisRun08, Start
    <3>2. QED
      BY <3>1, ThreadFacts, OutliveGoes DEF AfterWorkers, AfterAccepter, AfterSender, NetThreads
  <2>3. CASE PacketManagerRun08
    <3>1. MainGoes("rooms", "run", {"packet"}) /\ on' = on
      BY <2>3, ThreadFacts DEF PacketManagerRun08, MainGoes, TypeOK, PcOK, Local, At
    <3>2. QED
      BY <3>1, ThreadFacts, OutliveGoes DEF AfterWorkers, AfterAccepter, AfterSender, NetThreads
  <2>4. QED
    BY <1>2, <2>1, <2>2, <2>3 DEF PacketManagerStart08
<1>3. CASE DestroyWorkerThread03
  BY <1>3, OutliveTo DEF DestroyWorkerThread03, Lower, Join, Over08, AfterWorkers, AfterAccepter, AfterSender
<1>4. CASE DestroyAccepterThread05
  BY <1>4, OutliveTo DEF DestroyAccepterThread05, Lower, Join, Over08, AfterWorkers, AfterAccepter, AfterSender
<1>5. CASE DestroySenderThread05
  BY <1>5, OutliveTo DEF DestroySenderThread05, Lower, Join, Over08, AfterWorkers, AfterAccepter, AfterSender
<1>6. CASE PostToken("main", "run", "destroy")
  <2>1. on' = on
    BY <1>6 DEF PostToken
  <2>2. QED
    BY <1>6, <2>1, OutliveTo DEF AfterWorkers, AfterAccepter, AfterSender
<1>7. CASE Lower({"sessions"}, "close port", "stop redis")
  <2>1. MainGoes("close port", "stop redis", {})
    BY <1>7, GoesTo DEF Lower
  <2>2. Over08(Workers) /\ Over08({"accepter"}) /\ Over08({"sender"})
    BY <2>1 DEF OutliveInv, MainGoes, AfterWorkers, AfterAccepter, AfterSender
  <2>3. \A t \in NetThreads : pc'[t] = pc[t] /\ pc[t].at \in {"off", "ended"}
    BY <2>1, <2>2, ThreadFacts DEF MainGoes, NetThreads, Over08
  <2>4. QED
    BY <2>1, <2>3 DEF OutliveInv, MainGoes, Over08, NetThreads
<1>8. CASE RedisTerminate08
  <2>1. CASE At("main", "stop redis") /\ Enter("main", "failed") /\ UNCHANGED on
    <3>1. MainGoes("stop redis", "failed", {})
      BY <2>1, ThreadFacts DEF MainGoes, TypeOK, PcOK, Local, At, Enter
    <3>2. {} \cap NetThreads = {} /\ on' = on
      BY <2>1
    <3>3. "failed" \notin {"iocp", "threads"} /\ "stop redis" \in AfterWorkers \cap AfterAccepter \cap AfterSender
      BY DEF AfterWorkers, AfterAccepter, AfterSender
    <3>4. QED
      BY <3>1, <3>2, <3>3, OutliveGoes
  <2>2. QED
    BY <1>8, <2>1, OutliveTo DEF RedisTerminate08, Lower, Join, AfterWorkers, AfterAccepter, AfterSender
<1>9. CASE DestroyPacketProcessThread08 \/ Lower({"server"}, "stopped", "done")
  BY <1>9, OutliveTo DEF DestroyPacketProcessThread08, Lower, Join, AfterWorkers, AfterAccepter, AfterSender
<1>10. QED
  BY <1>1, <1>2, <1>3, <1>4, <1>5, <1>6, <1>7, <1>8, <1>9 DEF Main08, ChatTerminate08, NetworkTerminate08, DestroyThread08

LEMMA OutliveStep ==
    ASSUME TypeOK, StartInv, OutliveInv, [Next]_<<vars, ver>>
    PROVE  OutliveInv'
<1>0. UNCHANGED ver
  BY NextIs
<1>1. ASSUME UNCHANGED <<pc, on>>
      PROVE  OutliveInv'
  BY <1>0, <1>1 DEF OutliveInv, Over08, AfterWorkers, AfterAccepter, AfterSender, NetThreads
<1>2. CASE ClientStep
  BY <1>1, <1>2 DEF ClientStep, Clients, Connect, Say, Quit
<1>3. CASE KernelStep
  BY <1>1, <1>3 DEF KernelStep, Kernel, Sent, Abort, AcceptDone, Elapse
<1>4. ASSUME NEW t \in Threads, Step(t)
      PROVE  OutliveInv'
  <2>1. CASE t # "main"
    <3>1. Acts(t) \/ Misreads(t)
      BY <1>4, <2>1, StepIs
    <3>2. /\ pc'["main"] = pc["main"] /\ ("sessions" \in on' <=> "sessions" \in on)
          /\ \A u \in NetThreads : pc[u].at \in {"off", "ended"} => pc'[u].at \in {"off", "ended"}
      <4>1. CASE Acts(t)
        BY <4>1, ThreadFacts DEF Acts, TypeOK, PcOK, NetThreads
      <4>2. CASE Misreads(t)
        <5>1. on' = on /\ NetThreads \cup {"main"} \subseteq Threads
          BY <4>2, ThreadFacts DEF Misreads, NetThreads
        <5>2. QED
          BY <4>2, <5>1, MisreadGoes
      <4>3. QED
        BY <3>1, <4>1, <4>2
    <3>3. QED
      BY <1>0, <3>2 DEF OutliveInv, Over08, AfterWorkers, AfterAccepter, AfterSender, NetThreads
  <2>2. CASE t = "main"
    <3>1. ver = "08" => Main08
      BY <1>4, <2>2, ThreadFacts DEF Step, Thread08
    <3>2. QED
      BY <1>0, <3>1, OutliveMain DEF OutliveInv
  <2>3. QED
    BY <2>1, <2>2
<1>5. CASE UNCHANGED <<vars, ver>>
  BY <1>1, <1>5 DEF vars
<1>6. QED
  BY <1>2, <1>3, <1>4, <1>5 DEF Next

(* Practice08 deletes its sessions when no thread of the network uses them *)
(* any more.                                                               *)
THEOREM EchoOutlive == Spec => []SessionsOutliveNetwork
<1>1. EchoInit => OutliveInv
  <2>1. ASSUME EchoInit
        PROVE  OutliveInv
    <3>1. pc["main"].at = "init" /\ \A t \in NetThreads : pc[t].at = "off"
      BY <2>1, ThreadFacts DEF EchoInit, Init, Local, NetThreads
    <3>2. QED
      BY <3>1 DEF OutliveInv, Over08, AfterWorkers, AfterAccepter, AfterSender
  <2>2. QED
    BY <2>1
<1>2. TypeOK /\ StartInv /\ OutliveInv /\ [Next]_<<vars, ver>> => OutliveInv'
  BY OutliveStep
<1>3. OutliveInv => SessionsOutliveNetwork
  BY DEF OutliveInv, SessionsOutliveNetwork, Over08, NetThreads
<1>4. QED
  BY <1>1, <1>2, <1>3, EchoTypes, PTL DEF Spec

-----------------------------------------------------------------------------
(* Tokens *)

LEMMA TailIn ==
    ASSUME NEW S, NEW q \in Seq(S), q # <<>>, NEW B
    PROVE  /\ NoneIn(q, B) <=> NoneIn(Tail(q), B) /\ Head(q) \notin B
           /\ OneIn(q, B) => OneIn(Tail(q), B)
           /\ OneIn(q, B) /\ Head(q) \in B => NoneIn(Tail(q), B)
<1> DEFINE n == Len(q)
<1>1. /\ n \in Nat /\ n > 0 /\ DOMAIN q = 1..n /\ DOMAIN Tail(q) = 1..(n - 1) /\ Head(q) = q[1]
      /\ \A i \in 1..(n - 1) : Tail(q)[i] = q[i + 1]
  BY SeqTail
<1> HIDE DEF n
<1>2. NoneIn(q, B) => NoneIn(Tail(q), B) /\ Head(q) \notin B
  BY <1>1 DEF NoneIn
<1>3. ASSUME NoneIn(Tail(q), B), Head(q) \notin B
      PROVE  NoneIn(q, B)
  <2>1. ASSUME NEW i \in 1..n
        PROVE  q[i] \notin B
    <3>1. CASE i = 1
      BY <1>1, <1>3, <3>1
    <3>2. CASE i > 1
      <4>1. i - 1 \in 1..(n - 1) /\ (i - 1) + 1 = i
        BY <1>1, <3>2
      <4>2. QED
        BY <1>1, <1>3, <4>1 DEF NoneIn
    <3>3. QED
      BY <1>1, <3>1, <3>2
  <2>2. QED
    BY <1>1, <2>1 DEF NoneIn
<1>4. OneIn(q, B) => OneIn(Tail(q), B)
  <2>1. ASSUME OneIn(q, B), NEW i \in 1..(n - 1), NEW j \in 1..(n - 1), Tail(q)[i] \in B, Tail(q)[j] \in B
        PROVE  i = j
    <3>1. i + 1 \in 1..n /\ j + 1 \in 1..n /\ q[i + 1] \in B /\ q[j + 1] \in B
      BY <1>1, <2>1
    <3>2. i + 1 = j + 1
      BY <1>1, <2>1, <3>1 DEF OneIn
    <3>3. QED
      BY <3>2
  <2>2. QED
    BY <1>1, <2>1 DEF OneIn
<1>5. OneIn(q, B) /\ Head(q) \in B => NoneIn(Tail(q), B)
  <2>1. ASSUME OneIn(q, B), Head(q) \in B, NEW i \in 1..(n - 1), Tail(q)[i] \in B
        PROVE  FALSE
    <3>1. i + 1 \in 1..n /\ 1 \in 1..n /\ q[i + 1] \in B /\ q[1] \in B
      BY <1>1, <2>1
    <3>2. i + 1 = 1
      BY <1>1, <2>1, <3>1 DEF OneIn
    <3>3. QED
      BY <3>2
  <2>2. QED
    BY <1>1, <2>1 DEF NoneIn
<1>6. QED
  BY <1>2, <1>3, <1>4, <1>5

LEMMA AppendIn ==
    ASSUME NEW S, NEW q \in Seq(S), NEW e \in S, NEW B
    PROVE  /\ NoneIn(Append(q, e), B) <=> NoneIn(q, B) /\ e \notin B
           /\ OneIn(q, B) /\ e \notin B => OneIn(Append(q, e), B)
           /\ NoneIn(q, B) => OneIn(Append(q, e), B)
           /\ NoneIn(q, B) => OneIn(q, B)
<1> DEFINE n == Len(q)
<1>1. /\ n \in Nat /\ DOMAIN q = 1..n /\ DOMAIN Append(q, e) = 1..(n + 1) /\ Append(q, e)[n + 1] = e
      /\ \A i \in 1..n : Append(q, e)[i] = q[i]
  BY SeqAppend
<1> HIDE DEF n
<1>2. \A i \in 1..(n + 1) : i \in 1..n \/ i = n + 1
  BY <1>1
<1>3. 1..n \subseteq 1..(n + 1) /\ n + 1 \in 1..(n + 1) /\ n + 1 \notin 1..n
  BY <1>1
<1> DEFINE p == Append(q, e)
<1>4. DOMAIN p = 1..(n + 1) /\ p[n + 1] = e /\ \A i \in 1..n : p[i] = q[i]
  BY <1>1
<1> HIDE DEF p
<1>5. NoneIn(p, B) <=> NoneIn(q, B) /\ e \notin B
  BY <1>1, <1>2, <1>3, <1>4 DEF NoneIn
<1>6. OneIn(q, B) /\ e \notin B => OneIn(p, B)
  BY <1>1, <1>2, <1>3, <1>4 DEF OneIn
<1>7. NoneIn(q, B) => OneIn(p, B)
  BY <1>1, <1>2, <1>3, <1>4 DEF OneIn, NoneIn
<1>8. QED
  BY <1>5, <1>6, <1>7 DEF NoneIn, OneIn, p

Families(S, f, g, c) ==
  /\ DOMAIN g = DOMAIN f /\ c \in DOMAIN f /\ \A d \in DOMAIN f : f[d] \in Seq(S)
  /\ \A d \in DOMAIN f : d # c => g[d] = f[d]
Shrinks(S, f, g, c) == Families(S, f, g, c) /\ f[c] # <<>> /\ g[c] = Tail(f[c])
Extends(S, f, g, c, x) == Families(S, f, g, c) /\ x \in S /\ g[c] = Append(f[c], x)
MayQueue(T, q, e, p) == q \in Seq(T) /\ e \in T /\ (p = q \/ p = Append(q, e))

(* A pending operation completes. *)
LEMMA TokenDone ==
    ASSUME NEW S, NEW T, NEW f, NEW g, NEW c, Shrinks(S, f, g, c),
           NEW q, NEW e, NEW p, MayQueue(T, q, e, p), NEW A, NEW B, NEW W, NEW V, V \subseteq W,
           e \in B => Head(f[c]) \in A
    PROVE  /\ Single(f, A, q, B, W) => Single(g, A, p, B, V)
           /\ Empty(f, A, q, B, W) => Empty(g, A, p, B, V)
<1> DEFINE D == DOMAIN f
<1>0. /\ DOMAIN g = D /\ c \in D /\ f[c] \in Seq(S) /\ f[c] # <<>> /\ g[c] = Tail(f[c])
      /\ \A d \in D : d # c => g[d] = f[d]
      /\ q \in Seq(T) /\ e \in T /\ (p = q \/ p = Append(q, e))
  BY DEF Shrinks, Families, MayQueue
<1>1. /\ NoneIn(f[c], A) <=> NoneIn(g[c], A) /\ Head(f[c]) \notin A
      /\ OneIn(f[c], A) => OneIn(g[c], A)
      /\ OneIn(f[c], A) /\ Head(f[c]) \in A => NoneIn(g[c], A)
  BY <1>0, TailIn
<1>2. /\ NoneIn(q, B) /\ e \notin B => NoneIn(p, B)
      /\ OneIn(q, B) /\ e \notin B => OneIn(p, B)
      /\ NoneIn(q, B) => OneIn(p, B)
  <2>1. CASE p = q
    BY <1>0, <2>1, AppendIn
  <2>2. CASE p = Append(q, e)
    BY <1>0, <2>2, AppendIn
  <2>3. QED
    BY <1>0, <2>1, <2>2
<1>3. ASSUME Single(f, A, q, B, W)
      PROVE  Single(g, A, p, B, V)
  <2>1. CASE e \in B
    <3>1. Head(f[c]) \in A /\ ~NoneIn(f[c], A)
      BY <1>1, <2>1
    <3>2. NoneIn(q, B) /\ W = {} /\ NoneIn(g[c], A) /\ \A d \in D : d # c => NoneIn(f[d], A)
      BY <1>0, <1>1, <1>3, <3>1 DEF Single
    <3>3. \A d \in D : NoneIn(g[d], A) /\ OneIn(g[d], A)
      BY <1>0, <1>1, <1>3, <3>2 DEF Single
    <3>4. QED
      BY <1>0, <1>2, <1>3, <3>2, <3>3 DEF Single
  <2>2. CASE e \notin B
    <3>1. \A d \in D : (NoneIn(f[d], A) => NoneIn(g[d], A)) /\ OneIn(g[d], A)
      BY <1>0, <1>1, <1>3 DEF Single
    <3>2. OneIn(p, B) /\ (NoneIn(q, B) => NoneIn(p, B))
      BY <1>2, <1>3, <2>2 DEF Single
    <3>3. QED
      BY <1>0, <1>3, <3>1, <3>2 DEF Single
  <2>3. QED
    BY <2>1, <2>2
<1>4. Empty(f, A, q, B, W) => Empty(g, A, p, B, V)
  BY <1>0, <1>1, <1>2 DEF Empty
<1>5. QED
  BY <1>3, <1>4

(* A completion is fetched, perhaps by a thread that keeps it. *)
LEMMA TokenFetched ==
    ASSUME NEW T, NEW f, NEW q \in Seq(T), q # <<>>, NEW A, NEW B, NEW W, NEW w, NEW V, V \subseteq W \cup {w},
           V \subseteq W \/ Head(q) \in B
    PROVE  /\ Single(f, A, q, B, W) => Single(f, A, Tail(q), B, V)
           /\ Empty(f, A, q, B, W) => Empty(f, A, Tail(q), B, V)
<1>1. /\ NoneIn(q, B) <=> NoneIn(Tail(q), B) /\ Head(q) \notin B
      /\ OneIn(q, B) => OneIn(Tail(q), B)
      /\ OneIn(q, B) /\ Head(q) \in B => NoneIn(Tail(q), B)
  BY TailIn
<1>2. ASSUME Single(f, A, q, B, W)
      PROVE  Single(f, A, Tail(q), B, V)
  <2>1. CASE V \subseteq W
    BY <1>1, <1>2, <2>1 DEF Single
  <2>2. CASE Head(q) \in B
    <3>1. W = {} /\ NoneIn(Tail(q), B) /\ \A c \in DOMAIN f : NoneIn(f[c], A)
      BY <1>1, <1>2, <2>2 DEF Single
    <3>2. QED
      BY <1>1, <1>2, <3>1 DEF Single
  <2>3. QED
    BY <2>1, <2>2
<1>3. Empty(f, A, q, B, W) => Empty(f, A, Tail(q), B, V)
  BY <1>1 DEF Empty
<1>4. QED
  BY <1>2, <1>3

(* A thread posts an operation for the token it held. *)
LEMMA TokenPosted ==
    ASSUME NEW S, NEW f, NEW g, NEW c, NEW x, Extends(S, f, g, c, x), NEW q, NEW A, NEW B, NEW W, NEW V, V \subseteq W
    PROVE  /\ Single(f, A, q, B, W) /\ (x \in A => \E w \in W : w \notin V) => Single(g, A, q, B, V)
           /\ Empty(f, A, q, B, W) /\ x \notin A => Empty(g, A, q, B, V)
           /\ Empty(f, A, q, B, W) => Single(g, A, q, B, V)
<1> DEFINE D == DOMAIN f
<1>0. /\ DOMAIN g = D /\ c \in D /\ f[c] \in Seq(S) /\ x \in S /\ g[c] = Append(f[c], x)
      /\ \A d \in D : d # c => g[d] = f[d]
  BY DEF Extends, Families
<1>1. /\ NoneIn(f[c], A) /\ x \notin A => NoneIn(g[c], A)
      /\ OneIn(f[c], A) /\ x \notin A => OneIn(g[c], A)
      /\ NoneIn(f[c], A) => OneIn(g[c], A) /\ OneIn(f[c], A)
  BY <1>0, AppendIn
<1>2. \A d \in D : NoneIn(f[d], A) => OneIn(f[d], A)
  BY DEF NoneIn, OneIn
<1>3. ASSUME Single(f, A, q, B, W), x \in A => \E w \in W : w \notin V
      PROVE  Single(g, A, q, B, V)
  <2>1. CASE x \in A
    <3>1. W # {} /\ V = {} /\ NoneIn(q, B) /\ \A d \in D : NoneIn(f[d], A)
      BY <1>0, <1>3, <2>1 DEF Single
    <3>2. QED
      BY <1>0, <1>1, <1>2, <1>3, <3>1 DEF Single
  <2>2. CASE x \notin A
    <3>1. \A d \in D : (NoneIn(f[d], A) => NoneIn(g[d], A)) /\ OneIn(g[d], A)
      BY <1>0, <1>1, <1>3, <2>2 DEF Single
    <3>2. QED
      BY <1>0, <1>3, <3>1 DEF Single
  <2>3. QED
    BY <2>1, <2>2
<1>4. Empty(f, A, q, B, W) /\ x \notin A => Empty(g, A, q, B, V)
  BY <1>0, <1>1 DEF Empty
<1>5. ASSUME Empty(f, A, q, B, W)
      PROVE  Single(g, A, q, B, V)
  <2>1. NoneIn(q, B) /\ W = {} /\ V = {} /\ OneIn(q, B)
    BY <1>5 DEF Empty, NoneIn, OneIn
  <2>2. \A d \in D : OneIn(g[d], A) /\ (d # c => NoneIn(g[d], A))
    BY <1>0, <1>1, <1>2, <1>5 DEF Empty
  <2>3. QED
    BY <1>0, <2>1, <2>2 DEF Single
<1>6. QED
  BY <1>3, <1>4, <1>5

(* Something else is queued, a thread drops its token; the first token.    *)
LEMMA TokenKept ==
    ASSUME NEW T, NEW f, NEW q, NEW e, NEW p, MayQueue(T, q, e, p), NEW A, NEW B, NEW W, NEW V, V \subseteq W
    PROVE  /\ Single(f, A, q, B, W) /\ (p # q => e \notin B) => Single(f, A, p, B, V)
           /\ Empty(f, A, q, B, W) /\ (p # q => e \notin B) => Empty(f, A, p, B, V)
           /\ Empty(f, A, q, B, W) => Single(f, A, p, B, V)
<1>0. q \in Seq(T) /\ e \in T /\ (p = q \/ p = Append(q, e))
  BY DEF MayQueue
<1>1. /\ NoneIn(q, B) /\ e \notin B => NoneIn(p, B)
      /\ OneIn(q, B) /\ e \notin B => OneIn(p, B)
      /\ NoneIn(q, B) => OneIn(p, B) /\ OneIn(q, B)
  <2>1. CASE p = q
    BY <1>0, <2>1, AppendIn
  <2>2. CASE p = Append(q, e)
    BY <1>0, <2>2, AppendIn
  <2>3. QED
    BY <1>0, <2>1, <2>2
<1>2. \A d \in DOMAIN f : NoneIn(f[d], A) => OneIn(f[d], A)
  BY DEF NoneIn, OneIn
<1>3. QED
  BY <1>0, <1>1, <1>2 DEF Single, Empty

(* A token comes to be.                                                    *)
LEMMA TokenTaken ==
    ASSUME NEW f, NEW q, NEW A, NEW B, NEW W, NEW V, \A v, w \in V : v = w, Empty(f, A, q, B, W)
    PROVE  Single(f, A, q, B, V)
<1>1. \A d \in DOMAIN f : NoneIn(f[d], A) => OneIn(f[d], A)
  BY DEF NoneIn, OneIn
<1>2. QED
  BY <1>1 DEF Single, Empty, NoneIn, OneIn

-----------------------------------------------------------------------------
(* What a step does to the connections *)

Calls ==
  \/ UNCHANGED conn
  \/ \E c \in Conns : Connect(c) \/ Say(c) \/ Quit(c) \/ Sent(c) \/ Abort(c)
  \/ AcceptFailed
  \/ \E s \in Slots : \/ Accepted("accepter", s) \/ Accepted("kernel", s) \/ closesocket(s)
                      \/ \E ok \in BOOLEAN : WSARecv(s, ok)
                      \/ \E ok \in BOOLEAN : \E ms \in Text : WSASend(s, ms, ok) \/ SendMsg01(s, ms, ok)

(* The text of a send of Practice06, and of an echo.                       *)
LEMMA PopText ==
    ASSUME TypeOK, NEW w \in Workers, Pops(w)
    PROVE  /\ pc[w].s \in Slots /\ pc[w].op = "send" /\ ses[pc[w].s].out \in Seq(Text) /\ ses[pc[w].s].out # <<>>
           /\ Tail(ses[pc[w].s].out) \in Seq(Text)
           /\ Tail(ses[pc[w].s].out) # <<>> => Head(Tail(ses[pc[w].s].out)) \in Text
<1>1. pc[w].s \in Slots
  BY GotFacts DEF Pops, SendCompleted06, At
<1> DEFINE q == ses[pc[w].s].out
<1> DEFINE T == Text
<1>2. q \in Seq(T) /\ q # <<>> /\ pc[w].op = "send"
  BY <1>1, SesFacts DEF Pops, SendCompleted06
<1> HIDE DEF q, T
<1>3. Tail(q) \in Seq(T)
  BY <1>2, SeqTail
<1>4. Tail(q) # <<>> => Head(Tail(q)) \in T
  BY <1>3, SeqTail
<1>5. QED
  BY <1>1, <1>2, <1>3, <1>4 DEF q, T

LEMMA LineText ==
    ASSUME TypeOK, Lines
    PROVE  /\ pc["packet"].s \in Slots /\ pc["packet"].ms \in Text /\ ses[pc["packet"].s].out \in Seq(Text)
           /\ Append(ses[pc["packet"].s].out, pc["packet"].ms) \in Seq(Text)
           /\ Head(Append(ses[pc["packet"].s].out, pc["packet"].ms)) \in Text
<1>1. pc["packet"].s \in Slots /\ pc["packet"].ms \in Text
  BY ThreadFacts, LabelFacts, WorksFor, PcFacts DEF Lines, At
<1> DEFINE q == ses[pc["packet"].s].out
<1> DEFINE m == pc["packet"].ms
<1> DEFINE T == Text
<1>2. q \in Seq(T) /\ m \in T
  BY <1>1, SesFacts DEF Lines
<1> HIDE DEF q, m, T
<1>3. Append(q, m) \in Seq(T) /\ Len(Append(q, m)) = Len(q) + 1 /\ Len(q) \in Nat
  BY <1>2, SeqAppend
<1>5. Append(q, m) # <<>>
  BY <1>3
<1>4. Head(Append(q, m)) \in T
  BY <1>3, <1>5, SeqTail
<1>6. QED
  BY <1>1, <1>2, <1>3, <1>4 DEF q, m, T

LEMMA EchoText ==
    ASSUME TypeOK, NEW w \in Workers, Echoes(w)
    PROVE  pc[w].s \in Slots /\ Data01(w) \in Text
<1>1. pc[w].s \in Slots /\ pc[w].ms \in Text
  BY GotFacts DEF Echoes, At
<1>2. Stale \in Msg
  BY EchoConstants DEF Stale, Msg, None
<1>3. QED
  BY <1>1, <1>2 DEF Data01, Text

LEMMA CloserSlot ==
    ASSUME TypeOK, NEW t, CloserWorks(t)
    PROVE  t \in Closers /\ t \in Threads \ {"main"} /\ pc[t].s \in Slots
<1>1. t \in Workers \cup {"sender"} /\ pc[t].at \in {"close", "closing", "clear"}
  BY DEF CloserWorks, Ends, Blocks, Shuts, Clears, At
<1>2. pc[t].s # None
  BY <1>1, ClosingHas DEF CloserWorks, Ends, Blocks, Shuts, Clears, At, Copying, Reusing, OneBuffer
<1>3. QED
  BY <1>1, <1>2, CloserFacts DEF Closers

LEMMA SendSlot ==
    ASSUME TypeOK, (\E told \in BOOLEAN : Posts(told)) \/ Fails
    PROVE  pc["sender"].s \in Slots /\ ses[pc["sender"].s].out \in Text
  BY SenderFacts, SesFacts DEF Posts, Fails, SendsAt, At

LEMMA AnswerText ==
    ASSUME TypeOK, Answers \/ Puts
    PROVE  pc["packet"].s \in Slots /\ pc["packet"].ms \in Text
  BY ThreadFacts, LabelFacts, WorksFor, PcFacts DEF Answers, Puts, At

LEMMA CallsActs ==
    ASSUME TypeOK, NEW t \in Threads, Acts(t)
    PROVE  Calls
<1>0. TRUE \in BOOLEAN /\ FALSE \in BOOLEAN
  OBVIOUS
<1>1. CASE Leaves(t)
  BY <1>1 DEF Leaves, net, Calls
<1>2. CASE AccepterWorks(t)
  BY <1>2 DEF AccepterWorks, Refuses, Chooses, Accepts, Binds, Offers, net, Calls
<1>3. CASE WorkerWorks(t)
  <2>1. CASE Echoes(t)
    <3>1. t \in Workers
      BY <1>3 DEF WorkerWorks
    <3>2. QED
      BY <2>1, <3>1, EchoText DEF Echoes, Calls
  <2>2. CASE Pops(t)
    <3>1. t \in Workers
      BY <1>3 DEF WorkerWorks
    <3>2. QED
      BY <2>2, <3>1, PopText DEF Pops, SendCompleted06, BindSend06, Calls
  <2>3. CASE Rebinds(t)
    <3>1. pc[t].s \in Slots
      BY <1>3, <2>3, GotFacts DEF WorkerWorks, Rebinds, At
    <3>2. QED
      BY <1>0, <2>3, <3>1 DEF Rebinds, Calls
  <2>4. QED
    BY <1>3, <2>1, <2>2, <2>3
       DEF WorkerWorks, Fetches, WorkerThread01, Reposts, PostToken, Queues, Frees, Activates, Unbinds, net, Calls
<1>4. CASE CloserWorks(t)
  BY <1>4, CloserSlot DEF CloserWorks, Ends, Blocks, Shuts, Clears, net, Calls
<1>5. CASE PacketWorks(t)
  <2>1. CASE Answers
    BY <2>1, AnswerText DEF Answers, Calls
  <2>2. CASE Lines
    BY <2>2, LineText DEF Lines, EnqueueSendData06, BindSend06, Calls
  <2>3. QED
    BY <1>5, <2>1, <2>2 DEF PacketWorks, Dequeues, Puts, net, Calls
<1>6. CASE SenderWorks(t)
  <2>1. CASE (\E told \in BOOLEAN : Posts(told)) \/ Fails
    BY <1>0, <2>1, SendSlot DEF Posts, Fails, Calls
  <2>2. QED
    BY <1>6, <2>1 DEF SenderWorks, Finds, Claims, Checks, Advances, net, Calls
<1>7. QED
  BY <1>1, <1>2, <1>3, <1>4, <1>5, <1>6 DEF Acts, Works

(* Only these calls change the connections.                                *)
LEMMA CallsKnown ==
    ASSUME TypeOK, Known
    PROVE  Calls
<1>1. CASE KernelRefuses \/ \E s \in Slots : KernelAccepts(s) \/ Elapse(s)
  BY <1>1 DEF KernelRefuses, KernelAccepts, Elapse, net, Calls
<1>2. CASE Manages
  BY <1>2 DEF Manages, Calls
<1>3. CASE \E c \in Conns : Connect(c) \/ Say(c) \/ Quit(c) \/ Sent(c) \/ Abort(c)
  BY <1>3 DEF Calls
<1>4. QED
  BY <1>1, <1>2, <1>3, CallsActs DEF Known

-----------------------------------------------------------------------------
(* What a step does to the pool *)

(* A field of the sessions that a step leaves alone.                        *)
SocksStay == \A r \in Slots : ses'[r].sock = ses[r].sock
ActiveStays == \A r \in Slots : ses'[r].active = ses[r].active
SendingStays == \A r \in Slots : ses'[r].sending = ses[r].sending
OutStays == \A r \in Slots : ses'[r].out = ses[r].out
TypedStays == \A r \in Slots : ses'[r].typed = ses[r].typed
ClosedStays == \A r \in Slots : ses'[r].closed = ses[r].closed

(* What is written of a session, field by field, and what not.             *)
LEMMA SesAfter ==
    ASSUME TypeOK, NEW s \in Slots, NEW x
    PROVE  /\ ses' = [ses EXCEPT ![s].sock = x] =>
                /\ Slots' = Slots /\ ActiveStays /\ SendingStays /\ OutStays /\ TypedStays /\ ClosedStays
                /\ \A r \in Slots : ses'[r].sock = (IF r = s THEN x ELSE ses[r].sock)
           /\ ses' = [ses EXCEPT ![s].active = x] =>
                /\ Slots' = Slots /\ SocksStay /\ SendingStays /\ OutStays /\ TypedStays /\ ClosedStays
                /\ \A r \in Slots : ses'[r].active = (IF r = s THEN x ELSE ses[r].active)
           /\ ses' = [ses EXCEPT ![s].sending = x] =>
                /\ Slots' = Slots /\ SocksStay /\ ActiveStays /\ OutStays /\ TypedStays /\ ClosedStays
                /\ \A r \in Slots : ses'[r].sending = (IF r = s THEN x ELSE ses[r].sending)
           /\ ses' = [ses EXCEPT ![s].out = x] =>
                /\ Slots' = Slots /\ SocksStay /\ ActiveStays /\ SendingStays /\ TypedStays /\ ClosedStays
                /\ \A r \in Slots : ses'[r].out = (IF r = s THEN x ELSE ses[r].out)
           /\ ses' = [ses EXCEPT ![s].typed = x] =>
                /\ Slots' = Slots /\ SocksStay /\ ActiveStays /\ SendingStays /\ OutStays /\ ClosedStays
                /\ \A r \in Slots : ses'[r].typed = (IF r = s THEN x ELSE ses[r].typed)
           /\ ses' = [ses EXCEPT ![s].closed = x] =>
                /\ Slots' = Slots /\ SocksStay /\ ActiveStays /\ SendingStays /\ OutStays /\ TypedStays
                /\ \A r \in Slots : ses'[r].closed = (IF r = s THEN x ELSE ses[r].closed)
<1>1. ses \in [Slots -> SesRec]
  BY DEF TypeOK, SesOK
<1>2. ASSUME ses' = [ses EXCEPT ![s].sock = x]
      PROVE  /\ Slots' = Slots /\ ActiveStays /\ SendingStays /\ OutStays /\ TypedStays /\ ClosedStays
             /\ \A r \in Slots : ses'[r].sock = (IF r = s THEN x ELSE ses[r].sock)
  BY <1>1, <1>2 DEF Slots, SesRec, ActiveStays, SendingStays, OutStays, TypedStays, ClosedStays
<1>3. ASSUME ses' = [ses EXCEPT ![s].active = x]
      PROVE  /\ Slots' = Slots /\ SocksStay /\ SendingStays /\ OutStays /\ TypedStays /\ ClosedStays
             /\ \A r \in Slots : ses'[r].active = (IF r = s THEN x ELSE ses[r].active)
  BY <1>1, <1>3 DEF Slots, SesRec, SocksStay, SendingStays, OutStays, TypedStays, ClosedStays
<1>4. ASSUME ses' = [ses EXCEPT ![s].sending = x]
      PROVE  /\ Slots' = Slots /\ SocksStay /\ ActiveStays /\ OutStays /\ TypedStays /\ ClosedStays
             /\ \A r \in Slots : ses'[r].sending = (IF r = s THEN x ELSE ses[r].sending)
  BY <1>1, <1>4 DEF Slots, SesRec, SocksStay, ActiveStays, OutStays, TypedStays, ClosedStays
<1>5. ASSUME ses' = [ses EXCEPT ![s].out = x]
      PROVE  /\ Slots' = Slots /\ SocksStay /\ ActiveStays /\ SendingStays /\ TypedStays /\ ClosedStays
             /\ \A r \in Slots : ses'[r].out = (IF r = s THEN x ELSE ses[r].out)
  BY <1>1, <1>5 DEF Slots, SesRec, SocksStay, ActiveStays, SendingStays, TypedStays, ClosedStays
<1>6. ASSUME ses' = [ses EXCEPT ![s].typed = x]
      PROVE  /\ Slots' = Slots /\ SocksStay /\ ActiveStays /\ SendingStays /\ OutStays /\ ClosedStays
             /\ \A r \in Slots : ses'[r].typed = (IF r = s THEN x ELSE ses[r].typed)
  BY <1>1, <1>6 DEF Slots, SesRec, SocksStay, ActiveStays, SendingStays, OutStays, ClosedStays
<1>7. ASSUME ses' = [ses EXCEPT ![s].closed = x]
      PROVE  /\ Slots' = Slots /\ SocksStay /\ ActiveStays /\ SendingStays /\ OutStays /\ TypedStays
             /\ \A r \in Slots : ses'[r].closed = (IF r = s THEN x ELSE ses[r].closed)
  BY <1>1, <1>7 DEF Slots, SesRec, SocksStay, ActiveStays, SendingStays, OutStays, TypedStays
<1>8. QED
  BY <1>2, <1>3, <1>4, <1>5, <1>6, <1>7

SetsSock(s, x) == ses' = [ses EXCEPT ![s].sock = x]
LEMMA SockSet ==
    ASSUME TypeOK, NEW s \in Slots, NEW x, SetsSock(s, x)
    PROVE  \A r \in Slots : ses'[r].sock = (IF r = s THEN x ELSE ses[r].sock)
<1>1. ses \in [Slots -> SesRec]
  BY DEF TypeOK, SesOK
<1>2. QED
  BY <1>1 DEF SesRec, SetsSock

LEMMA SesUnchanged ==
    ASSUME UNCHANGED ses
    PROVE  Slots' = Slots /\ SocksStay /\ ActiveStays /\ SendingStays /\ OutStays /\ TypedStays /\ ClosedStays
  BY DEF Slots, SocksStay, ActiveStays, SendingStays, OutStays, TypedStays, ClosedStays

LEMMA EndsAfter ==
    ASSUME TypeOK, NEW s \in Slots, ses' = [ses EXCEPT ![s].closed = "max", ![s].active = FALSE]
    PROVE  /\ Slots' = Slots /\ SocksStay /\ SendingStays /\ OutStays /\ TypedStays
           /\ \A r \in Slots : /\ ses'[r].active = (IF r = s THEN FALSE ELSE ses[r].active)
                               /\ ses'[r].closed = (IF r = s THEN "max" ELSE ses[r].closed)
<1>1. ses \in [Slots -> SesRec]
  BY DEF TypeOK, SesOK
<1>2. QED
  BY <1>1 DEF Slots, SesRec, SocksStay, SendingStays, OutStays, TypedStays

LEMMA ClearsAfter ==
    ASSUME TypeOK, NEW t, NEW s \in Slots, Clears(t), s = pc[t].s
    PROVE  /\ Slots' = Slots /\ ActiveStays /\ \A r \in Slots \ {s} : ses'[r] = ses[r]
           /\ ses'[s].sock = None
           /\ IF ver \in Copying THEN ses'[s].typed = FALSE /\ OutStays /\ SendingStays ELSE ses'[s].out = <<>> /\ TypedStays
           /\ ver \in {"05"} \cup Reusing => ses'[s].sending = FALSE
           /\ ver = "06" => SendingStays
           /\ IF ver \in Reusing THEN ses'[s].closed = "recent" ELSE ClosedStays
<1>1. ses \in [Slots -> SesRec]
  BY DEF TypeOK, SesOK
<1> DEFINE Others == Slots' = Slots /\ ActiveStays /\ (\A r \in Slots \ {s} : ses'[r] = ses[r]) /\ ses'[s].sock = None
<1>2. ASSUME ses' = [ses EXCEPT ![s].sock = None, ![s].typed = FALSE]
      PROVE  Others /\ OutStays /\ SendingStays /\ ses'[s].typed = FALSE /\ ClosedStays
  <2> DEFINE z == [ses[s] EXCEPT !.sock = None, !.typed = FALSE]
  <2>1. ses[s] \in SesRec
    BY <1>1
  <2>2. z.sock = None /\ z.active = ses[s].active /\ z.sending = ses[s].sending /\ z.typed = FALSE /\ z.closed = ses[s].closed
    BY <2>1 DEF SesRec
  <2>3. z.out = ses[s].out
    BY <2>1 DEF SesRec
  <2>4. Slots' = Slots /\ ses'[s] = z /\ \A r \in Slots \ {s} : ses'[r] = ses[r]
    BY <1>1, <1>2 DEF Slots
  <2> HIDE DEF z
  <2>5. QED
    BY <2>2, <2>3, <2>4 DEF ActiveStays, SendingStays, ClosedStays, OutStays
<1>3. ASSUME ses' = [ses EXCEPT ![s].sock = None, ![s].out = <<>>, ![s].sending = FALSE]
      PROVE  Others /\ ses'[s].out = <<>> /\ ses'[s].sending = FALSE /\ TypedStays /\ ClosedStays
  <2> DEFINE z == [ses[s] EXCEPT !.sock = None, !.out = <<>>, !.sending = FALSE]
  <2>1. ses[s] \in SesRec
    BY <1>1
  <2>2. z.sock = None /\ z.active = ses[s].active /\ z.sending = FALSE /\ z.typed = ses[s].typed /\ z.closed = ses[s].closed
    BY <2>1 DEF SesRec
  <2>3. z.out = <<>>
    BY <2>1 DEF SesRec
  <2>4. Slots' = Slots /\ ses'[s] = z /\ \A r \in Slots \ {s} : ses'[r] = ses[r]
    BY <1>1, <1>3 DEF Slots
  <2> HIDE DEF z
  <2>5. QED
    BY <2>2, <2>3, <2>4 DEF ActiveStays, TypedStays, ClosedStays
<1>4. ASSUME ses' = [ses EXCEPT ![s].sock = None, ![s].out = <<>>]
      PROVE  Others /\ ses'[s].out = <<>> /\ SendingStays /\ TypedStays /\ ClosedStays
  <2> DEFINE z == [ses[s] EXCEPT !.sock = None, !.out = <<>>]
  <2>1. ses[s] \in SesRec
    BY <1>1
  <2>2. z.sock = None /\ z.active = ses[s].active /\ z.sending = ses[s].sending /\ z.typed = ses[s].typed /\ z.closed = ses[s].closed
    BY <2>1 DEF SesRec
  <2>3. z.out = <<>>
    BY <2>1 DEF SesRec
  <2>4. Slots' = Slots /\ ses'[s] = z /\ \A r \in Slots \ {s} : ses'[r] = ses[r]
    BY <1>1, <1>4 DEF Slots
  <2> HIDE DEF z
  <2>5. QED
    BY <2>2, <2>3, <2>4 DEF ActiveStays, SendingStays, TypedStays, ClosedStays
<1>5. ASSUME ses' = [ses EXCEPT ![s].sock = None, ![s].out = <<>>, ![s].sending = FALSE, ![s].closed = "recent"]
      PROVE  Others /\ ses'[s].out = <<>> /\ ses'[s].sending = FALSE /\ TypedStays /\ ses'[s].closed = "recent"
  <2> DEFINE z == [ses[s] EXCEPT !.sock = None, !.out = <<>>, !.sending = FALSE, !.closed = "recent"]
  <2>1. ses[s] \in SesRec
    BY <1>1
  <2>2. z.sock = None /\ z.active = ses[s].active /\ z.sending = FALSE /\ z.typed = ses[s].typed /\ z.closed = "recent"
    BY <2>1 DEF SesRec
  <2>3. z.out = <<>>
    BY <2>1 DEF SesRec
  <2>4. Slots' = Slots /\ ses'[s] = z /\ \A r \in Slots \ {s} : ses'[r] = ses[r]
    BY <1>1, <1>5 DEF Slots
  <2> HIDE DEF z
  <2>5. QED
    BY <2>2, <2>3, <2>4 DEF ActiveStays, TypedStays
<1> HIDE DEF Others
<1>6. Others /\ (IF ver \in Copying THEN ses'[s].typed = FALSE /\ OutStays /\ SendingStays ELSE ses'[s].out = <<>> /\ TypedStays)
  BY <1>2, <1>3, <1>4, <1>5 DEF Clears, Copying, OneBuffer, Reusing
<1>7. /\ ver \in {"05"} \cup Reusing => ses'[s].sending = FALSE
      /\ ver = "06" => SendingStays
      /\ IF ver \in Reusing THEN ses'[s].closed = "recent" ELSE ClosedStays
  BY <1>2, <1>3, <1>4, <1>5 DEF Clears, Copying, OneBuffer, Reusing
<1>8. QED
  BY <1>6, <1>7 DEF Others

(* What writes which field.                                                *)
Clearing == \E t \in Closers : \E s \in Slots : Clears(t) /\ s = pc[t].s
Accepting == \E s \in Slots : Accepts(s) \/ KernelAccepts(s)
SesMoves ==
  /\ Slots' = Slots
  /\ SocksStay \/ Accepting \/ Clearing
  /\ ActiveStays \/ (ver \in Swapping /\ \E s \in Slots : Chooses(s)) \/ (\E w \in Workers : Activates(w))
     \/ \E t \in Closers : Ends(t)
  /\ SendingStays \/ (\E w \in Workers : Frees(w)) \/ Claims \/ Clearing
  /\ OutStays \/ Puts \/ Lines \/ (\E w \in Workers : Pops(w)) \/ Advances \/ Clearing
  /\ TypedStays \/ (\E w \in Workers : Echoes(w)) \/ Clearing
  /\ \/ ClosedStays \/ (\E s \in Slots : Offers(s) \/ Elapse(s)) \/ (\E t \in Closers : Ends(t) \/ Blocks(t))
     \/ Clearing

LEMMA SesActs ==
    ASSUME TypeOK, NEW t \in Threads, Acts(t)
    PROVE  SesMoves
<1>1. CASE UNCHANGED ses
  BY <1>1, SesUnchanged DEF SesMoves
<1>2. CASE AccepterWorks(t) /\ ~UNCHANGED ses
  <2>1. PICK s \in Slots : Chooses(s) \/ Accepts(s) \/ Offers(s)
    BY <1>2 DEF AccepterWorks, Refuses, Binds, mem
  <2>2. CASE Chooses(s)
    BY <1>2, <2>2, SesAfter DEF Chooses, SesMoves
  <2>3. CASE Accepts(s)
    <3>1. ses' = [ses EXCEPT ![s].sock = Caller]
      BY <2>3 DEF Accepts, Accepted
    <3>2. QED
      BY <2>3, <3>1, SesAfter DEF SesMoves, Accepting
  <2>4. CASE Offers(s)
    BY <2>4, SesAfter DEF Offers, SesMoves
  <2>5. QED
    BY <2>1, <2>2, <2>3, <2>4
<1>3. CASE WorkerWorks(t) /\ ~UNCHANGED ses
  <2>0. t \in Workers
    BY <1>3 DEF WorkerWorks
  <2>1. CASE Echoes(t)
    BY <2>0, <2>1, SesAfter, GotFacts DEF Echoes, SendMsg01, SesMoves, At
  <2>2. CASE Pops(t)
    BY <2>0, <2>2, SesAfter, GotFacts DEF Pops, SendCompleted06, SesMoves, At
  <2>3. CASE Frees(t)
    BY <2>0, <2>3, SesAfter, GotFacts DEF Frees, SesMoves, At
  <2>4. CASE Activates(t)
    BY <2>0, <2>4, SesAfter, GotFacts DEF Activates, SesMoves, At
  <2>5. QED
    BY <1>3, <2>1, <2>2, <2>3, <2>4
       DEF WorkerWorks, Fetches, WorkerThread01, Reposts, PostToken, Queues, Unbinds, Rebinds, mem
<1>4. CASE CloserWorks(t) /\ ~UNCHANGED ses
  <2>0. t \in Closers /\ pc[t].s \in Slots
    BY <1>4, CloserSlot
  <2>1. CASE Clears(t)
    <3>1. Clearing
      BY <2>0, <2>1 DEF Clearing
    <3>2. Slots' = Slots /\ ActiveStays
      BY <2>0, <2>1, ClearsAfter
    <3>3. QED
      BY <3>1, <3>2 DEF SesMoves
  <2>2. CASE Ends(t)
    <3>1. CASE ses' = [ses EXCEPT ![pc[t].s].active = FALSE]
      BY <2>0, <2>2, <3>1, SesAfter DEF SesMoves
    <3>2. CASE ses' = [ses EXCEPT ![pc[t].s].closed = "max", ![pc[t].s].active = FALSE]
      BY <2>0, <2>2, <3>2, EndsAfter DEF SesMoves
    <3>3. QED
      BY <2>2, <3>1, <3>2 DEF Ends
  <2>3. CASE Blocks(t)
    <3>1. ses' = [ses EXCEPT ![pc[t].s].closed = "max", ![pc[t].s].active = FALSE] /\ ~ses[pc[t].s].active
      BY <2>3 DEF Blocks
    <3>2. /\ Slots' = Slots /\ SocksStay /\ SendingStays /\ OutStays /\ TypedStays
          /\ \A r \in Slots : ses'[r].active = (IF r = pc[t].s THEN FALSE ELSE ses[r].active)
      BY <2>0, <3>1, EndsAfter
    <3>3. ActiveStays
      BY <2>0, <3>1, <3>2, SesFacts DEF ActiveStays
    <3>4. QED
      BY <2>0, <2>3, <3>2, <3>3 DEF SesMoves
  <2>4. QED
    BY <1>4, <2>1, <2>2, <2>3 DEF CloserWorks, Shuts, mem
<1>5. CASE PacketWorks(t) /\ ~UNCHANGED ses
  <2>1. CASE Puts
    BY <2>1, SesAfter, AnswerText DEF Puts, SesMoves
  <2>2. CASE Lines
    BY <2>2, SesAfter, LineText DEF Lines, EnqueueSendData06, SesMoves
  <2>3. QED
    BY <1>5, <2>1, <2>2 DEF PacketWorks, Dequeues, Answers, mem
<1>6. CASE SenderWorks(t) /\ ~UNCHANGED ses
  <2>1. pc["sender"].s \in Slots
    BY <1>6, SenderFacts DEF SenderWorks, Finds, Claims, Checks, Posts, Fails, SendsAt, Advances, mem, At
  <2>2. QED
    BY <1>6, <2>1, SesAfter DEF SenderWorks, Finds, Claims, Checks, Posts, Fails, Advances, MoveFront05, mem, SesMoves
<1>7. CASE Leaves(t)
  BY <1>1, <1>7 DEF Leaves, mem
<1>8. QED
  BY <1>1, <1>2, <1>3, <1>4, <1>5, <1>6, <1>7 DEF Acts, Works

(* Which steps change which field of which session.                        *)
LEMMA SesMove ==
    ASSUME TypeOK, Known
    PROVE  SesMoves
<1>1. CASE UNCHANGED ses
  BY <1>1, SesUnchanged DEF SesMoves
<1>2. CASE \E s \in Slots : KernelAccepts(s)
  <2>1. PICK s \in Slots : KernelAccepts(s)
    BY <1>2
  <2>2. ses' = [ses EXCEPT ![s].sock = Caller]
    BY <2>1 DEF KernelAccepts, Accepted
  <2>3. QED
    BY <2>1, <2>2, SesAfter DEF SesMoves, Accepting
<1>3. CASE \E s \in Slots : Elapse(s)
  BY <1>3, SesAfter DEF Elapse, SesMoves
<1>4. QED
  BY <1>1, <1>2, <1>3, SesActs DEF Known, Connect, Say, Quit, Sent, Abort, KernelRefuses, Manages, mem

(* marks only grows. *)
LEMMA MarksGrow ==
    ASSUME Known
    PROVE  marks \subseteq marks'
<1>1. CASE \E c \in Conns : Connect(c) \/ Say(c) \/ Quit(c) \/ Sent(c) \/ Abort(c)
  BY <1>1 DEF Connect, Say, Quit, Sent, Abort, hist
<1>2. CASE KernelRefuses \/ \E s \in Slots : KernelAccepts(s) \/ Elapse(s)
  BY <1>2 DEF KernelRefuses, KernelAccepts, Elapse, hist, Accepted, MarkIf, Mark
<1>3. CASE Manages
  BY <1>3 DEF Manages, Grows
<1>4. ASSUME NEW t \in Threads, Acts(t)
      PROVE  marks \subseteq marks'
  <2>1. CASE AccepterWorks(t)
    BY <2>1 DEF AccepterWorks, Refuses, Chooses, Accepts, Binds, Offers, hist, Grows, Accepted, MarkIf, Mark
  <2>2. CASE WorkerWorks(t)
    BY <2>2
       DEF WorkerWorks, Fetches, WorkerThread01, Reposts, PostToken, Echoes, Queues, Frees, Pops, SendCompleted06,
           Activates, Unbinds, Rebinds, hist, Grows
  <2>3. CASE CloserWorks(t)
    BY <2>3 DEF CloserWorks, Ends, Blocks, Shuts, Clears, hist, Grows, MarkIf, Mark
  <2>4. CASE PacketWorks(t) \/ SenderWorks(t) \/ Leaves(t)
    BY <2>4 DEF PacketWorks, Dequeues, Answers, Puts, Lines, SenderWorks, Finds, Claims, Checks, Posts, Fails, Advances,
                Leaves, hist, Grows
  <2>5. QED
    BY <1>4, <2>1, <2>2, <2>3, <2>4 DEF Acts, Works
<1>5. QED
  BY <1>1, <1>2, <1>3, <1>4 DEF Known

-----------------------------------------------------------------------------
(* Sockets *)

Fresh == {"idle", "backlog", "reset"}
Old   == {"open", "gone", "closed"}
SomeAccepted == \E s \in Slots : \E t \in {"accepter", "kernel"} : Accepted(t, s)
ConnMoves(c) ==
  /\ conn[c].st \in Old => conn'[c].st \in Old
  /\ conn[c].st = "closed" => conn'[c].st = "closed"
  /\ conn'[c].st \in {"open", "gone"} => conn[c].st \in {"open", "gone"} \/ (SomeAccepted /\ c = Caller)
  /\ conn'[c].st \in Fresh =>
       /\ conn[c].st \in Fresh /\ conn'[c].said = conn[c].said /\ conn'[c].heard = conn[c].heard
       /\ conn'[c].recvs = conn[c].recvs /\ conn'[c].sends = conn[c].sends

LEMMA MovesSame ==
    ASSUME NEW c, conn'[c] = conn[c]
    PROVE  ConnMoves(c)
  BY DEF ConnMoves

(* The life of a connection goes one way, and before it is accepted        *)
(* nothing is said, heard or posted.                                       *)
LEMMA ConnMove ==
    ASSUME TypeOK, SockInv, Calls, NEW c \in Conns
    PROVE  ConnMoves(c)
<1>0. conn \in [Conns -> ConnRec] /\ conn[c] \in ConnRec
  BY DEF TypeOK, ConnOK
<1>1. CASE UNCHANGED conn
  BY <1>1, MovesSame
<1>2. CASE \E d \in Conns : Connect(d) \/ Say(d) \/ Quit(d) \/ Sent(d) \/ Abort(d)
  <2>1. PICK d \in Conns : Connect(d) \/ Say(d) \/ Quit(d) \/ Sent(d) \/ Abort(d)
    BY <1>2
  <2>2. CASE c # d
    <3>1. conn'[c] = conn[c]
      BY <1>0, <2>1, <2>2 DEF Connect, Say, Quit, Sent, Abort
    <3>2. QED
      BY <3>1, MovesSame
  <2>3. CASE c = d /\ (Connect(d) \/ Quit(d))
    BY <1>0, <2>3 DEF Connect, Quit, ConnRec, ConnMoves, Old, Fresh
  <2>4. CASE c = d /\ (Say(d) \/ Sent(d) \/ Abort(d))
    <3>1. conn[c].st \in Old
      BY <2>4 DEF Say, Sent, Abort, Old
    <3>2. CASE Say(c)
      BY <1>0, <3>1, <3>2 DEF Say, ConnRec, ConnMoves, Old, Fresh
    <3>3. CASE Sent(c)
      BY <1>0, <3>1, <3>3 DEF Sent, ConnRec, ConnMoves, Old, Fresh
    <3>4. CASE Abort(c)
      <4>1. \/ conn' = [conn EXCEPT ![c].recvs = Tail(@)]
            \/ conn' = [conn EXCEPT ![c].sends = Tail(@)]
        BY <3>4 DEF Abort
      <4>2. conn'[c].st = conn[c].st
        BY <1>0, <4>1 DEF ConnRec
      <4>3. QED
        BY <3>1, <4>2 DEF ConnMoves, Old, Fresh
    <3>5. QED
      BY <2>4, <3>2, <3>3, <3>4
  <2>5. QED
    BY <2>1, <2>2, <2>3, <2>4
<1>3. CASE AcceptFailed
  <2>1. Caller \in Conns /\ conn[Caller].st = "reset" /\ conn' = [conn EXCEPT ![Caller].st = "closed"]
    BY <1>3, CallerFacts DEF AcceptFailed
  <2>2. conn'[c].st = (IF c = Caller THEN "closed" ELSE conn[c].st) /\ (c # Caller => conn'[c] = conn[c])
    BY <1>0, <2>1 DEF ConnRec
  <2>3. QED
    BY <2>1, <2>2, MovesSame DEF ConnMoves, Old, Fresh
<1>4. ASSUME NEW s \in Slots, Accepted("accepter", s) \/ Accepted("kernel", s)
      PROVE  ConnMoves(c)
  <2>1. Caller \in Conns /\ conn[Caller].st = "backlog" /\ conn' = [conn EXCEPT ![Caller].st = "open"] /\ SomeAccepted
    BY <1>4, CallerFacts DEF Accepted, SomeAccepted
  <2>2. conn'[c].st = (IF c = Caller THEN "open" ELSE conn[c].st) /\ (c # Caller => conn'[c] = conn[c])
    BY <1>0, <2>1 DEF ConnRec
  <2>3. QED
    BY <2>1, <2>2, MovesSame DEF ConnMoves, Old, Fresh
<1>5. ASSUME NEW s \in Slots, closesocket(s)
      PROVE  ConnMoves(c)
  <2>1. CASE ses[s].sock = None \/ c # ses[s].sock
    <3>1. conn'[c] = conn[c]
      BY <1>0, <1>5, <2>1 DEF closesocket
    <3>2. QED
      BY <3>1, MovesSame
  <2>2. CASE ses[s].sock # None /\ c = ses[s].sock
    <3>1. conn[c].st \in Old /\ conn'[c].st = "closed"
      BY <1>0, <1>5, <2>2 DEF closesocket, SockInv, ConnRec, Old
    <3>2. QED
      BY <3>1 DEF ConnMoves, Old, Fresh
  <2>3. QED
    BY <2>1, <2>2
<1>6. ASSUME NEW s \in Slots, NEW ok \in BOOLEAN, WSARecv(s, ok) \/ \E ms \in Text : WSASend(s, ms, ok)
      PROVE  ConnMoves(c)
  <2>1. CASE conn'[c] = conn[c]
    BY <2>1, MovesSame
  <2>2. CASE conn'[c] # conn[c]
    <3>1. ok /\ c = ses[s].sock /\ Live(s)
      BY <1>0, <1>6, <2>2 DEF WSARecv, WSASend, Taken
    <3>2. conn[c].st \in {"open", "gone"}
      BY <3>1 DEF Live
    <3>3. CASE WSARecv(s, ok)
      BY <1>0, <3>1, <3>2, <3>3 DEF WSARecv, ConnRec, ConnMoves, Old, Fresh
    <3>4. CASE \E ms \in Text : WSASend(s, ms, ok)
      BY <1>0, <3>1, <3>2, <3>4 DEF WSASend, ConnRec, ConnMoves, Old, Fresh
    <3>5. QED
      BY <1>6, <3>3, <3>4
  <2>3. QED
    BY <2>1, <2>2
<1>7. ASSUME NEW s \in Slots, NEW ok \in BOOLEAN, NEW ms \in Text, SendMsg01(s, ms, ok)
      PROVE  ConnMoves(c)
  <2> DEFINE over == Overwritten01(s, ms)
  <2>1. over = [d \in Conns |-> [conn[d] EXCEPT !.sends = Over(conn[d].sends, s, ms)]] /\ over \in [Conns -> ConnRec]
    BY OverwrittenIs
  <2>2. over[c].st = conn[c].st /\ over[c].said = conn[c].said /\ over[c].heard = conn[c].heard
        /\ over[c].recvs = conn[c].recvs /\ over[c].sends = Over(conn[c].sends, s, ms)
    <3> DEFINE q == Over(conn[c].sends, s, ms)
    <3>1. over[c] = [conn[c] EXCEPT !.sends = q]
      BY <2>1
    <3> HIDE DEF q, over
    <3>2. over[c].st = conn[c].st /\ over[c].said = conn[c].said /\ over[c].heard = conn[c].heard
          /\ over[c].recvs = conn[c].recvs /\ over[c].sends = q
      BY <1>0, <3>1 DEF ConnRec
    <3>3. QED
      BY <3>2 DEF q
  <2>3. conn' = IF ok THEN [over EXCEPT ![ses[s].sock].sends = Append(@, [s |-> s, ms |-> ms])] ELSE over
    BY <1>7 DEF SendMsg01
  <2> HIDE DEF over
  <2>4. conn'[c].st = conn[c].st
    BY <2>1, <2>2, <2>3 DEF ConnRec
  <2>5. CASE conn[c].st \in Fresh
    <3>1. ok => c # ses[s].sock
      BY <1>7, <2>5 DEF SendMsg01, Taken, Live, Fresh
    <3>2. conn'[c] = over[c]
      BY <2>1, <2>3, <3>1
    <3>3. conn[c].sends = <<>>
      BY <2>5 DEF SockInv, Fresh
    <3>4. Over(conn[c].sends, s, ms) = <<>>
      BY <3>3 DEF Over
    <3>5. QED
      BY <2>2, <2>4, <2>5, <3>2, <3>3, <3>4 DEF ConnMoves, Old, Fresh
  <2>6. CASE conn[c].st \notin Fresh
    BY <2>4, <2>6 DEF ConnMoves
  <2>7. QED
    BY <2>5, <2>6
<1>8. QED
  BY <1>1, <1>2, <1>3, <1>4, <1>5, <1>6, <1>7 DEF Calls

(* A step keeps SockInv: accept() and AcceptEx give a session the first in *)
(* the backlog, whom no session had.                                       *)
LEMMA SockStep ==
    ASSUME TypeOK, SockInv, Known
    PROVE  SockInv'
<1>1. SesMoves /\ Calls
  BY SesMove, CallsKnown
<1>2. \A c \in Conns : ConnMoves(c)
  BY <1>1, ConnMove
<1>3. Slots' = Slots
  BY <1>1 DEF SesMoves
<1>4. \A c \in Conns : conn'[c].st \in Fresh =>
        conn'[c].said = 0 /\ conn'[c].heard = <<>> /\ conn'[c].recvs = <<>> /\ conn'[c].sends = <<>>
  BY <1>2 DEF ConnMoves, SockInv, Fresh
<1>5. /\ \A s \in Slots : ses[s].sock # None => ses[s].sock \in Conns /\ conn[ses[s].sock].st \in Old
      /\ \A r, s \in Slots : ses[r].sock = ses[s].sock /\ ses[s].sock # None => r = s
  BY SesFacts DEF SockInv, Old
<1>6. /\ \A s \in Slots : ses'[s].sock # None => conn'[ses'[s].sock].st \in Old
      /\ \A r, s \in Slots : ses'[r].sock = ses'[s].sock /\ ses'[s].sock # None => r = s
  <2>1. CASE SocksStay
    BY <1>2, <1>5, <2>1 DEF SocksStay, ConnMoves
  <2>2. CASE Accepting
    <3>1. PICK s \in Slots : \E t \in {"accepter", "kernel"} : Accepted(t, s)
      BY <2>2 DEF Accepting, Accepts, KernelAccepts
    <3>2. Caller \in Conns /\ conn[Caller].st = "backlog" /\ conn' = [conn EXCEPT ![Caller].st = "open"]
      BY <3>1, CallerFacts DEF Accepted
    <3>3. ses' = [ses EXCEPT ![s].sock = Caller]
      BY <3>1 DEF Accepted
    <3>4. \A r \in Slots : ses'[r].sock = (IF r = s THEN Caller ELSE ses[r].sock)
      <4>1. SetsSock(s, Caller)
        BY <3>3 DEF SetsSock
      <4>2. QED
        BY <4>1, SockSet
    <3>5. \A r \in Slots : ses[r].sock # Caller
      BY <1>5, <3>2 DEF Old, None, Conns
    <3>6. conn'[Caller].st \in Old
      BY <3>2 DEF TypeOK, ConnOK, ConnRec, Old
    <3>7. QED
      BY <1>2, <1>5, <3>2, <3>4, <3>5, <3>6 DEF ConnMoves
  <2>3. CASE Clearing
    <3>1. PICK t \in Closers, s \in Slots : Clears(t) /\ s = pc[t].s
      BY <2>3 DEF Clearing
    <3>2. ses'[s].sock = None /\ \A r \in Slots \ {s} : ses'[r] = ses[r]
      BY <3>1, ClearsAfter
    <3>3. QED
      BY <1>2, <1>5, <3>2 DEF ConnMoves
  <2>4. QED
    BY <1>1, <2>1, <2>2, <2>3 DEF SesMoves
<1>7. QED
  BY <1>3, <1>4, <1>6 DEF SockInv, Fresh, Old

-----------------------------------------------------------------------------
(* Where a thread comes from *)

LEMMA LocalIs == \A l : Local(l).at = l /\ Local(l).s = None /\ Local(l).ms = <<>> /\ Local(l).op = ""
  BY DEF Local

LEMMA PcAfter ==
    ASSUME TypeOK, NEW t \in Threads
    PROVE  /\ Rests(t) => pc'[t].s = None /\ pc'[t].ms = <<>> /\ pc'[t].at \in {FirstStep(t), "ended"}
           /\ \A l : Stays(t, l) => pc'[t].at = l /\ pc'[t].s = pc[t].s /\ pc'[t].ms = <<>> /\ pc'[t].op = ""
           /\ \A r : Becomes(t, r) => pc'[t] = r
<1>1. pc \in [Threads -> PcRec]
  BY DEF TypeOK, PcOK
<1>2. \A r : Becomes(t, r) => pc'[t] = r
  BY <1>1 DEF Becomes
<1>3. Rests(t) => pc'[t].s = None /\ pc'[t].ms = <<>> /\ pc'[t].at \in {FirstStep(t), "ended"}
  BY <1>2, LocalIs DEF Rests
<1>4. ASSUME NEW l, Stays(t, l)
      PROVE  pc'[t].at = l /\ pc'[t].s = pc[t].s /\ pc'[t].ms = <<>> /\ pc'[t].op = ""
  <2>1. pc'[t] = [Local(l) EXCEPT !.s = pc[t].s]
    BY <1>2, <1>4 DEF Stays
  <2>2. QED
    BY <2>1 DEF Local
<1>5. QED
  BY <1>2, <1>3, <1>4

LEMMA FirstSteps ==
    ASSUME NEW t \in Threads
    PROVE  FirstStep(t) \in {"wait", "get", "scan", "take"}
  BY DEF FirstStep

(* What is not a step of a thread starts it at most. *)
LEMMA PcMove ==
    ASSUME TypeOK, Known, NEW u \in Threads \ {"main"}
    PROVE  \/ Acts(u)
           \/ pc'[u] = pc[u]
           \/ /\ pc[u].at = "off" /\ pc'[u].s = None /\ pc'[u].ms = <<>> /\ pc'[u].at \in {FirstStep(u), "begin"}
              /\ Manages
<1>0. pc \in [Threads -> PcRec]
  BY DEF TypeOK, PcOK
<1>1. ASSUME NEW t \in Threads, Acts(t)
      PROVE  Acts(u) \/ pc'[u] = pc[u]
  BY <1>0, <1>1 DEF Acts
<1>2. CASE Manages
  <2>1. PICK ts \in SUBSET (Threads \ {"main"}), l \in MainLabels :
          /\ \A t \in ts : pc[t].at = "off"
          /\ \/ pc' = [t \in Threads |-> IF t = "main" THEN Local(l)
                                         ELSE IF t \in ts THEN Local(FirstStep(t)) ELSE pc[t]]
             \/ ts = {} /\ Stays("main", l)
             \/ ts = {"packet"} /\ pc' = [pc EXCEPT !["main"] = Local(l), !["packet"] = Local("begin")]
    BY <1>2 DEF Manages
  <2>2. CASE pc' = [t \in Threads |-> IF t = "main" THEN Local(l) ELSE IF t \in ts THEN Local(FirstStep(t)) ELSE pc[t]]
    <3>1. pc'[u] = IF u \in ts THEN Local(FirstStep(u)) ELSE pc[u]
      BY <2>2
    <3>2. QED
      BY <1>2, <2>1, <3>1, LocalIs
  <2>3. CASE ts = {} /\ Stays("main", l)
    BY <1>0, <2>3 DEF Stays, Becomes
  <2>4. CASE ts = {"packet"} /\ pc' = [pc EXCEPT !["main"] = Local(l), !["packet"] = Local("begin")]
    <3>1. pc'[u] = IF u = "packet" THEN Local("begin") ELSE pc[u]
      BY <1>0, <2>4
    <3>2. u = "packet" => pc[u].at = "off"
      BY <2>1, <2>4
    <3>3. QED
      BY <1>2, <3>1, <3>2, LocalIs
  <2>5. QED
    BY <2>1, <2>2, <2>3, <2>4
<1>3. CASE UNCHANGED pc
  BY <1>3
<1>4. QED
  BY <1>1, <1>2, <1>3 DEF Known, Connect, Say, Quit, Sent, Abort, KernelRefuses, KernelAccepts, Elapse

LEMMA FetchGoes ==
    ASSUME TypeOK, NEW w \in Workers, Fetches(w)
    PROVE  /\ pc[w].at = "wait" /\ port # <<>> /\ port' = Tail(port)
           /\ LET e == Head(port) IN
                IF e.op = "end" THEN pc'[w].at = "repost" /\ pc'[w].s = None /\ pc'[w].ms = <<>>
                ELSE /\ pc'[w].at = (IF e.ok THEN "got" ELSE "close")
                     /\ pc'[w].s = e.s /\ pc'[w].op = e.op /\ pc'[w].ms = e.ms
<1> DEFINE e == Head(port)
<1> DEFINE r == IF e.op = "end" THEN Local("repost")
                ELSE [at |-> IF ~e.ok THEN "close" ELSE "got", s |-> e.s, op |-> e.op, ms |-> e.ms]
<1>1. w \in Threads /\ pc \in [Threads -> PcRec]
  BY ThreadFacts DEF TypeOK, PcOK
<1>2. pc' = [pc EXCEPT ![w] = r] /\ pc[w].at = "wait" /\ port # <<>> /\ port' = Tail(port)
  BY DEF Fetches, WorkerThread01, At, TerminateMsg01, ClientExited01
<1>3. pc'[w] = r
  BY <1>1, <1>2
<1>4. CASE e.op = "end"
  <2>1. pc'[w] = Local("repost")
    BY <1>3, <1>4
  <2>2. QED
    BY <1>2, <1>4, <2>1, LocalIs
<1>5. CASE e.op # "end"
  BY <1>2, <1>3, <1>5
<1>6. QED
  BY <1>4, <1>5

LEMMA RepostGoes ==
    ASSUME TypeOK, NEW w \in Workers, Reposts(w)
    PROVE  /\ pc[w].at = "repost" /\ port' = Append(port, Token)
           /\ pc'[w].at = "ended" /\ pc'[w].s = None /\ pc'[w].ms = <<>>
<1>1. w \in Threads /\ Becomes(w, Local("ended")) /\ pc[w].at = "repost" /\ port' = Append(port, Token)
  BY ThreadFacts DEF Reposts, PostToken, Enter, Becomes, At
<1>2. pc'[w] = Local("ended")
  BY <1>1, PcAfter
<1>3. QED
  BY <1>1, <1>2, LocalIs

LEMMA PostGoes ==
    ASSUME TypeOK, NEW told \in BOOLEAN, Posts(told)
    PROVE  /\ pc["sender"].at \in {"wsasend", "send"} /\ pc'["sender"].at = "movefront" /\ pc'["sender"].s = pc["sender"].s
           /\ pc'["sender"].ms = (IF told THEN ses[pc["sender"].s].out ELSE <<>>)
<1>1. pc["sender"].at \in {"wsasend", "send"}
  BY DEF Posts, SendsAt, At
<1>2. "sender" \in Threads /\ pc["sender"] \in PcRec
  BY ThreadFacts, PcFacts
<1>3. CASE told
  <2>1. Becomes("sender", [pc["sender"] EXCEPT !.at = "movefront", !.ms = ses[pc["sender"].s].out])
    BY <1>3 DEF Posts
  <2>2. pc'["sender"] = [pc["sender"] EXCEPT !.at = "movefront", !.ms = ses[pc["sender"].s].out]
    BY <1>2, <2>1, PcAfter
  <2>3. QED
    BY <1>1, <1>2, <1>3, <2>2 DEF PcRec
<1>4. CASE ~told
  BY <1>1, <1>2, <1>4, PcAfter DEF Posts
<1>5. QED
  BY <1>3, <1>4

(* Who is about to close, or to clear, and how it came there.              *)
LEMMA CloserArrives ==
    ASSUME TypeOK, NEW t \in Closers, Acts(t)
    PROVE  /\ pc'[t].at = "closing" => Ends(t) /\ pc'[t].s = pc[t].s
           /\ pc'[t].at = "clear" => Shuts(t) /\ pc'[t].s = pc[t].s
           /\ pc[t].at = "closing" => Shuts(t)
           /\ pc[t].at = "clear" => Clears(t)
           /\ pc[t].at \in {"closing", "clear"} => CloserWorks(t)
<1>1. t \in Threads /\ t # "accepter" /\ t # "packet" /\ t # "main"
  BY ThreadFacts DEF Closers
<1>2. FirstStep(t) \in {"wait", "scan"}
  BY ThreadFacts DEF Closers
<1>3. CASE Leaves(t)
  BY <1>1, <1>2, <1>3, PcAfter DEF Leaves, At
<1>4. CASE WorkerWorks(t)
  <2>1. CASE Fetches(t)
    BY <1>1, <1>4, <2>1, FetchGoes DEF WorkerWorks
  <2>2. CASE Pops(t)
    BY <1>1, <1>2, <2>2, PcAfter, RestIs DEF Pops, SendCompleted06, At
  <2>3. CASE Reposts(t)
    BY <1>1, <1>4, <2>3, RepostGoes DEF WorkerWorks
  <2>4. CASE Unbinds(t)
    <3>1. pc'[t] = [pc[t] EXCEPT !.at = "close"] /\ pc[t] \in PcRec /\ pc[t].at = "got"
      BY <1>1, <2>4, PcAfter, PcFacts DEF Unbinds, At
    <3>2. pc'[t].at = "close"
      BY <3>1 DEF PcRec
    <3>3. QED
      BY <3>1, <3>2
  <2>5. QED
    BY <1>1, <1>2, <1>4, <2>1, <2>2, <2>3, <2>4, PcAfter DEF WorkerWorks, Echoes, Queues, Frees, Activates, Rebinds, At
<1>5. CASE CloserWorks(t)
  <2>1. CASE Ends(t)
    BY <1>1, <2>1, PcAfter DEF Ends, At
  <2>2. CASE Blocks(t)
    BY <1>1, <1>2, <2>2, PcAfter DEF Blocks, At
  <2>3. CASE Shuts(t)
    BY <1>1, <1>5, <2>3, PcAfter DEF Shuts, At
  <2>4. CASE Clears(t)
    BY <1>1, <1>2, <1>5, <2>4, PcAfter DEF Clears, At
  <2>5. QED
    BY <1>5, <2>1, <2>2, <2>3, <2>4 DEF CloserWorks
<1>6. CASE SenderWorks(t)
  <2>1. CASE \E s \in Slots : Finds(s)
    <3>1. t = "sender" /\ pc[t].at = "scan"
      BY <1>6, <2>1 DEF SenderWorks, Finds, At
    <3>2. PICK s \in Slots : Becomes(t, [Local("cas") EXCEPT !.s = s])
      BY <2>1, <3>1 DEF Finds
    <3>3. pc'[t] = [Local("cas") EXCEPT !.s = s]
      BY <1>1, <3>2, PcAfter
    <3>4. pc'[t].at = "cas"
      BY <3>3 DEF Local
    <3>5. QED
      BY <3>1, <3>4
  <2>2. CASE \E told \in BOOLEAN : Posts(told)
    <3>1. t = "sender" /\ pc["sender"].at \in {"wsasend", "send"} /\ pc["sender"] \in PcRec
      BY <1>6, <2>2, PcFacts, ThreadFacts DEF SenderWorks, Posts, SendsAt, At
    <3>2. pc'["sender"].at = "movefront"
      BY <2>2, PostGoes
    <3>3. QED
      BY <3>1, <3>2
  <2>3. QED
    BY <1>1, <1>2, <1>6, <2>1, <2>2, PcAfter DEF SenderWorks, Claims, Checks, Fails, SendsAt, Advances, At
<1>7. QED
  BY <1>1, <1>3, <1>4, <1>5, <1>6 DEF Acts, Works, AccepterWorks, PacketWorks

-----------------------------------------------------------------------------
(* Closing *)

LEMMA AcceptedClean ==
    ASSUME NEW t, NEW s, Accepted(t, s), "overlap" \notin marks'
    PROVE  ~UnderWay(t, s) /\ ~LeftBehind(s)
  BY DEF Accepted, MarkIf, Mark

(* How the socket of a session may come to be another. *)
LEMMA SockChanges ==
    ASSUME TypeOK, SesMoves, NEW s \in Slots
    PROVE  \/ ses'[s].sock = ses[s].sock
           \/ (Accepts(s) \/ KernelAccepts(s)) /\ ses'[s].sock = Caller
           \/ (\E t \in Closers : Clears(t) /\ s = pc[t].s) /\ ses'[s].sock = None
<1>1. CASE SocksStay
  BY <1>1 DEF SocksStay
<1>2. CASE Accepting
  <2>1. PICK r \in Slots : Accepts(r) \/ KernelAccepts(r)
    BY <1>2 DEF Accepting
  <2>3. ses' = [ses EXCEPT ![r].sock = Caller]
    BY <2>1 DEF Accepts, KernelAccepts, Accepted
  <2>2. \A x \in Slots : ses'[x].sock = (IF x = r THEN Caller ELSE ses[x].sock)
    <3>1. SetsSock(r, Caller)
      BY <2>3 DEF SetsSock
    <3>2. QED
      BY <3>1, SockSet
  <2>4. QED
    BY <2>1, <2>2
<1>3. CASE Clearing
  <2>1. PICK t \in Closers, r \in Slots : Clears(t) /\ r = pc[t].s
    BY <1>3 DEF Clearing
  <2>2. ses'[r].sock = None /\ \A x \in Slots \ {r} : ses'[x] = ses[x]
    BY <2>1, ClearsAfter
  <2>3. QED
    BY <2>1, <2>2
<1>4. QED
  BY <1>1, <1>2, <1>3 DEF SesMoves

(* A step keeps ShutInv: closesocket comes before the session is cleared.  *)
LEMMA ShutStep ==
    ASSUME TypeOK, SockInv, ShutInv, Known
    PROVE  ShutInv'
<1> SUFFICES ASSUME ~Overlapped', NEW t \in Closers, pc'[t].at = "clear", ses'[pc'[t].s].sock # None
             PROVE  conn'[ses'[pc'[t].s].sock].st = "closed"
  BY DEF ShutInv, At
<1>1. SesMoves /\ Calls /\ Slots' = Slots /\ \A c \in Conns : ConnMoves(c)
  BY SesMove, CallsKnown, ConnMove DEF SesMoves
<1>2. ~Overlapped /\ "overlap" \notin marks'
  BY MarksGrow DEF Overlapped
<1>3. t \in Threads \ {"main"} /\ t \notin {"accepter", "kernel"}
  BY ThreadFacts DEF Closers
<1>4. CASE Acts(t)
  <2>1. Shuts(t) /\ pc'[t].s = pc[t].s
    BY <1>4, CloserArrives
  <2>2. closesocket(pc[t].s) /\ ses' = ses
    BY <2>1 DEF Shuts, mem
  <2>3. pc[t].s \in Slots
    BY <2>1, CloserSlot DEF CloserWorks, Closers
  <2>4. ses[pc[t].s].sock \in Conns /\ conn \in [Conns -> ConnRec]
    BY <2>1, <2>2, <2>3, SesFacts DEF TypeOK, ConnOK
  <2>5. QED
    BY <2>1, <2>2, <2>4 DEF closesocket, ConnRec
<1>5. CASE pc'[t] = pc[t]
  <2> DEFINE s == pc[t].s
  <2>1. s \in Slots /\ pc[t].at = "clear"
    BY <1>3, <1>5, CloserFacts, ClosingHas DEF Closers
  <2>2. ses'[s].sock = ses[s].sock
    <3>1. ~Accepts(s) /\ ~KernelAccepts(s)
      BY <1>2, <1>3, <2>1, AcceptedClean DEF UnderWay, Accepts, KernelAccepts
    <3>2. QED
      BY <1>1, <1>5, <2>1, <3>1, SockChanges
  <2>3. ses[s].sock \in Conns /\ conn[ses[s].sock].st = "closed"
    BY <1>2, <1>5, <2>1, <2>2, SesFacts DEF ShutInv, At
  <2>4. QED
    BY <1>1, <1>5, <2>2, <2>3 DEF ConnMoves
<1>6. QED
  BY <1>3, <1>4, <1>5, PcMove, FirstSteps

LEMMA AccepterArrives ==
    ASSUME TypeOK, Acts("accepter")
    PROVE  /\ pc'["accepter"].at = "accept" =>
                /\ pc["accepter"].at = "get" /\ pc'["accepter"].s \in Slots /\ Chooses(pc'["accepter"].s)
                /\ ver \notin Reusing
           /\ pc'["accepter"].at = "bind" => Accepts(pc'["accepter"].s) /\ pc'["accepter"].s = pc["accepter"].s
           /\ pc["accepter"].at = "accept" => Refuses \/ Leaves("accepter") \/ Accepts(pc["accepter"].s)
<1>1. "accepter" \in Threads /\ FirstStep("accepter") = "get" /\ "accepter" \notin Closers
  BY ThreadFacts DEF Closers
<1>2. CASE Leaves("accepter")
  BY <1>1, <1>2, PcAfter DEF Leaves
<1>3. CASE Refuses
  BY <1>1, <1>3, PcAfter DEF Refuses, At
<1>4. ASSUME NEW s \in Slots, Chooses(s)
      PROVE  pc'["accepter"].at = "accept" /\ pc'["accepter"].s = s /\ pc["accepter"].at = "get" /\ ver \notin Reusing
  <2>1. pc'["accepter"] = [Local("accept") EXCEPT !.s = s]
    BY <1>1, <1>4, PcAfter DEF Chooses
  <2>2. QED
    BY <1>4, <2>1 DEF Chooses, Local, At, Reusing, Swapping, Copying, OneBuffer
<1>5. ASSUME NEW s \in Slots, Accepts(s)
      PROVE  pc'["accepter"].at = "bind" /\ pc'["accepter"].s = s /\ s = pc["accepter"].s
  BY <1>1, <1>5, PcAfter DEF Accepts
<1>6. ASSUME NEW s \in Slots, Binds(s)
      PROVE  pc'["accepter"].at \notin {"accept", "bind"} /\ pc["accepter"].at # "accept"
  <2>1. pc["accepter"].at = "bind" /\ (Rests("accepter") \/ Stays("accepter", "ended"))
    BY <1>6 DEF Binds, At
  <2>2. pc'["accepter"].at \in {"get", "ended"}
    BY <1>1, <2>1, PcAfter
  <2>3. QED
    BY <2>1, <2>2
<1>7. ASSUME NEW s \in Slots, Offers(s)
      PROVE  pc'["accepter"] = pc["accepter"] /\ pc["accepter"].at = "get"
  BY <1>7 DEF Offers, At
<1>8. QED
  BY <1>1, <1>2, <1>3, <1>4, <1>5, <1>6, <1>7
     DEF Acts, Works, AccepterWorks, WorkerWorks, CloserWorks, PacketWorks, SenderWorks, Closers

SetsActive(s, x) == ses' = [ses EXCEPT ![s].active = x]
LEMMA ActiveSet ==
    ASSUME TypeOK, NEW s \in Slots, NEW x, SetsActive(s, x)
    PROVE  \A r \in Slots : ses'[r].active = (IF r = s THEN x ELSE ses[r].active)
<1>1. ses \in [Slots -> SesRec]
  BY DEF TypeOK, SesOK
<1>2. QED
  BY <1>1 DEF SesRec, SetsActive

LEMMA ChoosesAfter ==
    ASSUME TypeOK, NEW s \in Slots, Chooses(s), ver \in Swapping
    PROVE  \A r \in Slots : ses'[r].active = (IF r = s THEN TRUE ELSE ses[r].active)
<1>1. SetsActive(s, TRUE)
  BY DEF Chooses, Copying, Swapping, OneBuffer, SetsActive
<1>2. QED
  BY <1>1, ActiveSet

LEMMA ActivatesAfter ==
    ASSUME TypeOK, NEW w \in Workers, Activates(w)
    PROVE  pc[w].s \in Slots /\ \A r \in Slots : ses'[r].active = (IF r = pc[w].s THEN TRUE ELSE ses[r].active)
<1>1. SetsActive(pc[w].s, TRUE) /\ pc[w].s \in Slots
  BY GotFacts DEF Activates, At, SetsActive
<1>2. QED
  BY <1>1, ActiveSet

LEMMA EndsIs ==
    ASSUME TypeOK, NEW t \in Closers, Ends(t)
    PROVE  pc[t].s \in Slots /\ \A r \in Slots : ses'[r].active = (IF r = pc[t].s THEN FALSE ELSE ses[r].active)
<1>1. pc[t].s \in Slots
  BY CloserFacts DEF Ends, At, Closers
<1>2. CASE ses' = [ses EXCEPT ![pc[t].s].active = FALSE]
  <2>1. ses \in [Slots -> SesRec]
    BY DEF TypeOK, SesOK
  <2>2. QED
    BY <1>1, <1>2, <2>1 DEF SesRec
<1>3. CASE ses' = [ses EXCEPT ![pc[t].s].closed = "max", ![pc[t].s].active = FALSE]
  BY <1>1, <1>3, EndsAfter
<1>4. QED
  BY <1>1, <1>2, <1>3 DEF Ends

LEMMA ActiveChanges ==
    ASSUME TypeOK, SesMoves, NEW s \in Slots
    PROVE  \/ ses'[s].active = ses[s].active
           \/ ver \in Swapping /\ Chooses(s) /\ ses'[s].active = TRUE
           \/ (\E w \in Workers : Activates(w) /\ pc[w].s = s) /\ ses'[s].active = TRUE
           \/ (\E t \in Closers : Ends(t) /\ pc[t].s = s) /\ ses'[s].active = FALSE
<1>1. CASE ActiveStays
  BY <1>1 DEF ActiveStays
<1>2. CASE ver \in Swapping /\ \E r \in Slots : Chooses(r)
  BY <1>2, ChoosesAfter
<1>3. CASE \E w \in Workers : Activates(w)
  BY <1>3, ActivatesAfter
<1>4. CASE \E t \in Closers : Ends(t)
  BY <1>4, EndsIs
<1>5. QED
  BY <1>1, <1>2, <1>3, <1>4 DEF SesMoves

(* A step keeps GivenInv: the accepter takes sessions that have no socket, *)
(* or one with somebody who closes it.                                     *)
LEMMA GivenStep ==
    ASSUME TypeOK, SockInv, GivenInv, Known, UNCHANGED ver
    PROVE  GivenInv'
<1>1. SesMoves /\ Slots' = Slots
  BY SesMove DEF SesMoves
<1>0. "accepter" \in Threads \ {"main"} /\ FirstStep("accepter") = "get" /\ "accepter" \notin Closers
  BY ThreadFacts DEF Closers
<1> DEFINE a == pc["accepter"]
(* How the accepter comes to wait for a client. *)
<1>2. ASSUME NEW s, Awaits(s)'
      PROVE  \/ Chooses(s) /\ s \in Slots /\ ~Awaits(s)
             \/ Awaits(s) /\ s \in Slots /\ ~Accepts(s)
  <2>1. CASE Acts("accepter")
    BY <1>2, <2>1, AccepterArrives DEF Awaits, At
  <2>2. CASE pc'["accepter"] = pc["accepter"]
    <3>1. s \in Slots /\ Awaits(s)
      BY <1>0, <1>2, <2>2, WorksFor, LabelFacts DEF Awaits, At
    <3>2. ~Accepts(s)
      <4>1. Accepts(s) => Stays("accepter", "bind")
        BY DEF Accepts
      <4>2. pc'["accepter"].at = "accept"
        BY <1>2 DEF Awaits, At
      <4>3. Stays("accepter", "bind") => pc'["accepter"].at = "bind"
        BY <1>0, PcAfter
      <4>4. QED
        BY <4>1, <4>2, <4>3
    <3>3. QED
      BY <3>1, <3>2
  <2>3. QED
    BY <1>0, <1>2, <2>1, <2>2, PcMove DEF Awaits, At
<1>3. ASSUME ver \in Copying, NEW s \in Slots, Awaits(s)'
      PROVE  ses'[s].sock = None
  <2>1. ver \notin Swapping /\ ver \notin Reusing
    BY <1>3 DEF Copying, Swapping, Reusing, OneBuffer
  <2>2. CASE Chooses(s)
    BY <2>1, <2>2 DEF Chooses
  <2>3. CASE Awaits(s) /\ ~Accepts(s)
    <3>1. ses[s].sock = None /\ ~KernelAccepts(s)
      BY <1>3, <2>1, <2>3 DEF GivenInv, KernelAccepts
    <3>2. QED
      BY <1>1, <2>3, <3>1, SockChanges
  <2>4. QED
    BY <1>2, <1>3, <2>2, <2>3
<1>4. ASSUME ver \in Swapping, ~Overlapped', "taken" \notin marks'
      PROVE  /\ ~Overlapped /\ "taken" \notin marks
             /\ \A s \in Slots : Awaits(s) => ~\E t \in Closers : Ends(t) /\ pc[t].s = s
             /\ \A s : ~KernelAccepts(s)
             /\ ver \notin Copying /\ ver \notin Reusing
  BY <1>4, MarksGrow DEF Ends, Awaits, MarkIf, Mark, KernelAccepts, Reusing, Swapping, Copying, OneBuffer, Overlapped
<1>5. ASSUME ver \in Swapping, ~Overlapped', "taken" \notin marks', NEW s \in Slots
      PROVE  /\ Awaits(s)' => ses'[s].active
             /\ ses'[s].sock # None /\ (~ses'[s].active \/ Awaits(s)') =>
                  \E t \in Closers : pc'[t].at \in {"closing", "clear"} /\ pc'[t].s = s
  <2>1. (Awaits(s) => ses[s].active) /\ (ses[s].sock # None /\ (~ses[s].active \/ Awaits(s)) =>
                                           \E t \in Closers : pc[t].at \in {"closing", "clear"} /\ pc[t].s = s)
    BY <1>4, <1>5 DEF GivenInv
  <2>2. \/ ses'[s].active = ses[s].active
        \/ Chooses(s) /\ ses'[s].active = TRUE
        \/ \E t \in Closers : Ends(t) /\ pc[t].s = s
    BY <1>1, <1>4, <1>5, ActiveChanges DEF Activates
  <2>3. Awaits(s)' => ses'[s].active
    <3>1. CASE Chooses(s)
      BY <1>1, <1>4, <1>5, <3>1, ChoosesAfter DEF Chooses
    <3>2. CASE Awaits(s)
      BY <1>4, <1>5, <2>1, <2>2, <3>2
    <3>3. QED
      BY <1>2, <3>1, <3>2
  <2>4. ASSUME ses'[s].sock # None, ~ses'[s].active \/ Awaits(s)'
        PROVE  \E t \in Closers : pc'[t].at \in {"closing", "clear"} /\ pc'[t].s = s
    <3>1. CASE \E t \in Closers : Ends(t) /\ pc[t].s = s
      <4>1. PICK t \in Closers : Ends(t) /\ pc[t].s = s
        BY <3>1
      <4>2. t \in Threads /\ Stays(t, "closing")
        BY <4>1, ThreadFacts DEF Ends, Closers
      <4>3. pc'[t].at = "closing" /\ pc'[t].s = s
        BY <4>1, <4>2, PcAfter
      <4>4. QED
        BY <4>3
    <3>2. CASE ~\E t \in Closers : Ends(t) /\ pc[t].s = s
      <4>1. ~Accepts(s)
        <5>1. ASSUME Accepts(s)
              PROVE  FALSE
          <6>1. Awaits(s) /\ Stays("accepter", "bind")
            BY <5>1 DEF Accepts, Awaits
          <6>2. ses'[s].active
            BY <2>1, <2>2, <3>2, <6>1
          <6>3. pc'["accepter"].at = "bind"
            BY <1>0, <6>1, PcAfter
          <6>4. QED
            BY <2>4, <6>2, <6>3 DEF Awaits, At
        <5>2. QED
          BY <5>1
      <4>2. ses'[s].sock = ses[s].sock /\ ~\E t \in Closers : Clears(t) /\ s = pc[t].s
        BY <1>1, <1>4, <1>5, <2>4, <4>1, SockChanges, ClearsAfter
      <4>3. ~ses[s].active \/ Awaits(s)
        BY <1>2, <2>2, <2>4, <3>2 DEF Chooses, Copying, Swapping
      <4>4. PICK t \in Closers : pc[t].at \in {"closing", "clear"} /\ pc[t].s = s
        BY <2>1, <2>4, <4>2, <4>3
      <4>5. t \in Threads \ {"main"}
        BY ThreadFacts DEF Closers
      <4>6. CASE Acts(t)
        <5>1. Shuts(t)
          BY <4>2, <4>4, <4>6, CloserArrives
        <5>2. pc'[t].at = "clear" /\ pc'[t].s = s
          BY <4>4, <4>5, <5>1, PcAfter DEF Shuts
        <5>3. QED
          BY <5>2
      <4>7. QED
        BY <4>4, <4>5, <4>6, PcMove
    <3>3. QED
      BY <3>1, <3>2
  <2>5. QED
    BY <2>3, <2>4
<1>6. QED
  BY <1>1, <1>3, <1>5 DEF GivenInv

-----------------------------------------------------------------------------
(* What a step does to the port and to the accepts *)

(* The one who has the token is done with it, or hands it to another       *)
(* thread.                                                                 *)
LEMMA TokenDropped ==
    ASSUME NEW f, NEW q, NEW A, NEW B, NEW W, NEW w \in W, NEW V, V \subseteq W \ {w}, Single(f, A, q, B, W)
    PROVE  Empty(f, A, q, B, V)
<1>1. \A v \in W : v = w
  BY DEF Single
<1>2. V = {} /\ W # {}
  BY <1>1
<1>3. QED
  BY <1>2 DEF Single, Empty

LEMMA TokenPassed ==
    ASSUME NEW f, NEW q, NEW A, NEW B, NEW W, NEW V, V # {} => W # {}, \A v, w \in V : v = w, Single(f, A, q, B, W)
    PROVE  Single(f, A, q, B, V)
  BY DEF Single

PortMoves ==
  \/ port' = port
  \/ port' = Append(port, Token)
  \/ \E c \in Conns : Say(c) \/ Sent(c) \/ Abort(c)
  \/ KernelRefuses
  \/ \E s \in Slots : KernelAccepts(s)
  \/ \E w \in Workers : Fetches(w)

LEMMA PortMove ==
    ASSUME Known
    PROVE  PortMoves
<1>1. ASSUME NEW t \in Threads, Acts(t)
      PROVE  PortMoves
  <2>1. CASE WorkerWorks(t)
    BY <2>1 DEF WorkerWorks, Reposts, PostToken, Echoes, Queues, Frees, Pops, SendCompleted06, Activates, Unbinds, Rebinds,
                net, PortMoves
  <2>2. CASE AccepterWorks(t)
    BY <2>2 DEF AccepterWorks, Refuses, Chooses, Accepts, Binds, Offers, net, PortMoves
  <2>3. CASE CloserWorks(t) \/ PacketWorks(t) \/ SenderWorks(t) \/ Leaves(t)
    BY <2>3 DEF CloserWorks, Ends, Blocks, Shuts, Clears, PacketWorks, Dequeues, Answers, Puts, Lines,
                SenderWorks, Finds, Claims, Checks, Posts, Fails, Advances, Leaves, net, PortMoves
  <2>4. QED
    BY <1>1, <2>1, <2>2, <2>3 DEF Acts, Works
<1>2. QED
  BY <1>1 DEF Known, Connect, Quit, Elapse, Manages, net, PortMoves

LEMMA AcceptsMove ==
    ASSUME Known
    PROVE  \/ accepts' = accepts
           \/ KernelRefuses
           \/ \E s \in Slots : KernelAccepts(s) \/ Offers(s)
<1>1. ASSUME NEW t \in Threads, Acts(t)
      PROVE  accepts' = accepts \/ \E s \in Slots : Offers(s)
  <2>1. CASE WorkerWorks(t)
    BY <2>1 DEF WorkerWorks, Fetches, WorkerThread01, Reposts, PostToken, Echoes, Queues, Frees, Pops, SendCompleted06,
                Activates, Unbinds, Rebinds, net
  <2>2. CASE AccepterWorks(t)
    BY <2>2 DEF AccepterWorks, Refuses, Chooses, Accepts, Binds, net
  <2>3. CASE CloserWorks(t) \/ PacketWorks(t) \/ SenderWorks(t) \/ Leaves(t)
    BY <2>3 DEF CloserWorks, Ends, Blocks, Shuts, Clears, PacketWorks, Dequeues, Answers, Puts, Lines,
                SenderWorks, Finds, Claims, Checks, Posts, Fails, Advances, Leaves, net
  <2>4. QED
    BY <1>1, <2>1, <2>2, <2>3 DEF Acts, Works
<1>2. QED
  BY <1>1 DEF Known, Connect, Say, Quit, Sent, Abort, Elapse, Manages, net

(* The completions the kernel queues. *)
Arrives(c, e) ==
  /\ port' = Append(port, e)
  /\ \/ /\ e.op = "recv" /\ conn[c].recvs # <<>> /\ e.s = Head(conn[c].recvs)
        /\ conn'[c].recvs = Tail(conn[c].recvs) /\ conn'[c].sends = conn[c].sends
        /\ conn'[c].heard = conn[c].heard
        /\ IF e.ok THEN /\ Say(c) /\ e.ms = <<[c |-> c, n |-> conn[c].said + 1]>>
                        /\ conn'[c].said = conn[c].said + 1
           ELSE Abort(c) /\ e.ms = <<>> /\ conn'[c].said = conn[c].said
     \/ /\ e.op = "send" /\ conn[c].sends # <<>> /\ e.s = Head(conn[c].sends).s
        /\ conn'[c].sends = Tail(conn[c].sends) /\ conn'[c].recvs = conn[c].recvs
        /\ e.ms = Head(conn[c].sends).ms /\ conn'[c].said = conn[c].said
        /\ \/ Sent(c) /\ conn'[c].heard = conn[c].heard \o e.ms
           \/ Abort(c) /\ ~e.ok /\ conn'[c].heard = conn[c].heard
  /\ conn'[c].st = conn[c].st
  /\ \A d \in Conns : d # c => conn'[d] = conn[d]
LEMMA EnvDone ==
    ASSUME TypeOK, NEW c \in Conns, Say(c) \/ Sent(c) \/ Abort(c)
    PROVE  \E e \in Completion : Arrives(c, e)
<1>1. conn \in [Conns -> ConnRec] /\ conn[c] \in ConnRec /\ conn[c].said \in Nat
  BY ConnFacts DEF TypeOK, ConnOK
<1>2. /\ conn[c].recvs # <<>> => Head(conn[c].recvs) \in AllSlots
      /\ conn[c].sends # <<>> => Head(conn[c].sends).s \in AllSlots /\ Head(conn[c].sends).ms \in Text
  BY HeadOps, SlotFacts
<1>3. CASE Say(c)
  <2> DEFINE m == [c |-> c, n |-> conn[c].said + 1]
  <2>1. m \in Msg
    BY <1>1 DEF Msg, Conns
  <2> HIDE DEF m
  <2>2. <<m>> \in Text
    BY <2>1 DEF Text
  <2> DEFINE e == Done("recv", Head(conn[c].recvs), TRUE, <<m>>)
  <2>3. e \in Completion /\ e.op = "recv" /\ e.s = Head(conn[c].recvs) /\ e.ok /\ e.ms = <<m>>
    BY <1>2, <1>3, <2>2 DEF Say, Done, Completion
  <2>4. port' = Append(port, e) /\ conn[c].recvs # <<>>
    BY <1>3 DEF Say, m
  <2>5. /\ conn'[c].recvs = Tail(conn[c].recvs) /\ conn'[c].sends = conn[c].sends
        /\ conn'[c].heard = conn[c].heard /\ conn'[c].said = conn[c].said + 1 /\ conn'[c].st = conn[c].st
        /\ \A d \in Conns : d # c => conn'[d] = conn[d]
    BY <1>1, <1>3 DEF Say, ConnRec
  <2> HIDE DEF e
  <2>6. QED
    BY <1>3, <2>3, <2>4, <2>5 DEF m, Arrives
<1>4. CASE Sent(c)
  <2> DEFINE h == Head(conn[c].sends)
  <2> DEFINE e == Done("send", h.s, h.ms # <<>>, h.ms)
  <2>1. conn[c].sends # <<>> /\ port' = Append(port, e)
    BY <1>4 DEF Sent
  <2>2. e \in Completion /\ e.op = "send" /\ e.s = h.s /\ e.ms = h.ms
    BY <1>2, <2>1 DEF Done, Completion
  <2>3. /\ conn'[c].sends = Tail(conn[c].sends) /\ conn'[c].recvs = conn[c].recvs
        /\ conn'[c].heard = conn[c].heard \o h.ms /\ conn'[c].said = conn[c].said /\ conn'[c].st = conn[c].st
        /\ \A d \in Conns : d # c => conn'[d] = conn[d]
    BY <1>1, <1>4 DEF Sent, ConnRec
  <2> HIDE DEF e
  <2>4. QED
    BY <1>4, <2>1, <2>2, <2>3 DEF Arrives
<1>5. CASE Abort(c)
  <2>1. CASE /\ conn[c].recvs # <<>> /\ conn' = [conn EXCEPT ![c].recvs = Tail(@)]
             /\ port' = Append(port, Done("recv", Head(conn[c].recvs), FALSE, <<>>))
    <3> DEFINE e == Done("recv", Head(conn[c].recvs), FALSE, <<>>)
    <3>1. e \in Completion /\ e.op = "recv" /\ e.s = Head(conn[c].recvs) /\ ~e.ok /\ e.ms = <<>>
      BY <1>2, <2>1 DEF Done, Completion, Text
    <3>2. port' = Append(port, e)
      BY <2>1
    <3>3. /\ conn'[c].recvs = Tail(conn[c].recvs) /\ conn'[c].sends = conn[c].sends
          /\ conn'[c].heard = conn[c].heard /\ conn'[c].said = conn[c].said /\ conn'[c].st = conn[c].st
          /\ \A d \in Conns : d # c => conn'[d] = conn[d]
      BY <1>1, <2>1 DEF ConnRec
    <3> HIDE DEF e
    <3>4. QED
      BY <1>5, <2>1, <3>1, <3>2, <3>3 DEF Arrives
  <2>2. CASE /\ conn[c].sends # <<>> /\ conn' = [conn EXCEPT ![c].sends = Tail(@)]
             /\ port' = Append(port, LET e == Head(conn[c].sends) IN Done("send", e.s, FALSE, e.ms))
    <3> DEFINE h == Head(conn[c].sends)
    <3> DEFINE e == Done("send", h.s, FALSE, h.ms)
    <3>1. e \in Completion /\ e.op = "send" /\ e.s = h.s /\ ~e.ok /\ e.ms = h.ms
      BY <1>2, <2>2 DEF Done, Completion
    <3>2. port' = Append(port, e)
      BY <2>2
    <3>3. /\ conn'[c].sends = Tail(conn[c].sends) /\ conn'[c].recvs = conn[c].recvs
          /\ conn'[c].heard = conn[c].heard /\ conn'[c].said = conn[c].said /\ conn'[c].st = conn[c].st
          /\ \A d \in Conns : d # c => conn'[d] = conn[d]
      BY <1>1, <2>2 DEF ConnRec
    <3> HIDE DEF e
    <3>4. QED
      BY <1>5, <2>2, <3>1, <3>2, <3>3 DEF Arrives
  <2>3. QED
    BY <1>5, <2>1, <2>2 DEF Abort
<1>6. QED
  BY <1>3, <1>4, <1>5

-----------------------------------------------------------------------------
(* Practice07 on: one at a time *)

SetsClosed(s, x) == ses' = [ses EXCEPT ![s].closed = x]
LEMMA ClosedSet ==
    ASSUME TypeOK, NEW s \in Slots, NEW x, SetsClosed(s, x)
    PROVE  \A r \in Slots : ses'[r].closed = (IF r = s THEN x ELSE ses[r].closed)
<1>1. ses \in [Slots -> SesRec]
  BY DEF TypeOK, SesOK
<1>2. QED
  BY <1>1 DEF SesRec, SetsClosed

LEMMA ClosedChanges ==
    ASSUME TypeOK, SesMoves, NEW s \in Slots
    PROVE  \/ ses'[s].closed = ses[s].closed
           \/ Offers(s) /\ ses'[s].closed = "max"
           \/ ses[s].closed = "recent" /\ Elapse(s) /\ ses'[s].closed = "long ago"
           \/ ver \in Reusing /\ (\E t \in Closers : (Ends(t) \/ Blocks(t)) /\ pc[t].s = s) /\ ses'[s].closed = "max"
           \/ ver \in Reusing /\ (\E t \in Closers : Clears(t) /\ pc[t].s = s) /\ ses'[s].closed = "recent"
<1>1. CASE ClosedStays
  BY <1>1 DEF ClosedStays
<1>2. ASSUME NEW r \in Slots, Offers(r)
      PROVE  ses'[s].closed = ses[s].closed \/ (r = s /\ ses'[s].closed = "max")
  <2>1. SetsClosed(r, "max")
    BY <1>2 DEF Offers, SetsClosed
  <2>2. \A x \in Slots : ses'[x].closed = (IF x = r THEN "max" ELSE ses[x].closed)
    BY <2>1, ClosedSet
  <2>3. QED
    BY <2>2
<1>3. ASSUME NEW r \in Slots, Elapse(r)
      PROVE  ses'[s].closed = ses[s].closed \/ (r = s /\ ses[s].closed = "recent" /\ ses'[s].closed = "long ago")
  <2>1. SetsClosed(r, "long ago")
    BY <1>3 DEF Elapse, SetsClosed
  <2>2. \A x \in Slots : ses'[x].closed = (IF x = r THEN "long ago" ELSE ses[x].closed)
    BY <2>1, ClosedSet
  <2>3. QED
    BY <1>3, <2>2 DEF Elapse
<1>4. ASSUME NEW t \in Closers, Ends(t) \/ Blocks(t)
      PROVE  ses'[s].closed = ses[s].closed \/ (ver \in Reusing /\ pc[t].s = s /\ ses'[s].closed = "max")
  <2>1. pc[t].s \in Slots
    BY <1>4, CloserFacts DEF Ends, Blocks, At, Closers
  <2>2. CASE ver \in Swapping /\ ses' = [ses EXCEPT ![pc[t].s].active = FALSE]
    <3>1. ses \in [Slots -> SesRec]
      BY DEF TypeOK, SesOK
    <3>2. ses[s] \in SesRec /\ ses'[s] = IF s = pc[t].s THEN [ses[s] EXCEPT !.active = FALSE] ELSE ses[s]
      BY <2>1, <2>2, <3>1
    <3>3. [ses[s] EXCEPT !.active = FALSE].closed = ses[s].closed
      BY <3>2 DEF SesRec
    <3>4. QED
      BY <3>2, <3>3
  <2>3. CASE ver \in Reusing /\ ses' = [ses EXCEPT ![pc[t].s].closed = "max", ![pc[t].s].active = FALSE]
    BY <2>1, <2>3, EndsAfter
  <2>4. QED
    BY <1>4, <2>2, <2>3 DEF Ends, Blocks
<1>5. ASSUME NEW t \in Closers, NEW r \in Slots, Clears(t), r = pc[t].s
      PROVE  ses'[s].closed = ses[s].closed \/ (ver \in Reusing /\ r = s /\ ses'[s].closed = "recent")
  BY <1>5, ClearsAfter DEF ClosedStays
<1>6. QED
  BY <1>1, <1>2, <1>3, <1>4, <1>5 DEF SesMoves, Clearing

LEMMA GotGoes ==
    ASSUME TypeOK, NEW w \in Workers, Acts(w)
    PROVE  /\ pc'[w].at = "got" => Fetches(w)
           /\ pc'[w].at = "rebind" =>
                /\ Echoes(w) \/ Queues(w) \/ Activates(w)
                /\ pc[w].at = "got" /\ pc'[w].s = pc[w].s
<1>1. w \in Threads /\ w \notin {"main", "accepter", "sender", "packet", "redis", "kernel"} /\ FirstStep(w) = "wait"
  BY ThreadFacts
<1>2. CASE Leaves(w)
  BY <1>1, <1>2, PcAfter DEF Leaves
<1>3. CASE WorkerWorks(w)
  <2>1. CASE Fetches(w)
    BY <2>1, FetchGoes
  <2>2. CASE Pops(w)
    BY <1>1, <2>2, PcAfter, RestIs DEF Pops, SendCompleted06, At
  <2>3. CASE Reposts(w)
    BY <2>3, RepostGoes
  <2>4. CASE Rebinds(w)
    <3>1. Rests(w) \/ Stays(w, "close")
      BY <2>4 DEF Rebinds
    <3>2. pc'[w].at \in {"wait", "ended", "close"}
      BY <1>1, <3>1, PcAfter
    <3>3. QED
      BY <3>2
  <2>5. CASE Echoes(w) \/ Queues(w) \/ Activates(w)
    <3>1. Stays(w, "rebind") /\ pc[w].at = "got"
      BY <2>5 DEF Echoes, Queues, Activates, At
    <3>2. pc'[w].at = "rebind" /\ pc'[w].s = pc[w].s
      BY <1>1, <3>1, PcAfter
    <3>3. QED
      BY <2>5, <3>1, <3>2
  <2>6. CASE Frees(w)
    BY <1>1, <2>6, PcAfter DEF Frees
  <2>7. CASE Unbinds(w)
    <3>1. pc'[w] = [pc[w] EXCEPT !.at = "close"] /\ pc[w] \in PcRec
      BY <1>1, <2>7, PcAfter, PcFacts DEF Unbinds
    <3>2. pc'[w].at = "close"
      BY <3>1 DEF PcRec
    <3>3. QED
      BY <3>2
  <2>8. QED
    BY <1>3, <2>1, <2>2, <2>3, <2>4, <2>5, <2>6, <2>7 DEF WorkerWorks
<1>4. CASE CloserWorks(w)
  <2>1. Rests(w) \/ Stays(w, "closing") \/ Stays(w, "clear")
    BY <1>4 DEF CloserWorks, Ends, Blocks, Shuts, Clears
  <2>2. pc'[w].at \in {"wait", "ended", "closing", "clear"}
    BY <1>1, <2>1, PcAfter
  <2>3. QED
    BY <2>2
<1>5. QED
  BY <1>1, <1>2, <1>3, <1>4 DEF Acts, Works, AccepterWorks, PacketWorks, SenderWorks

(* Who comes to hold the phase of a session. *)
LEMMA PhaseComes ==
    ASSUME TypeOK, Known, SesMoves, ver \in Reusing, NEW s \in Slots, NEW h \in PhaseHolders(s)'
    PROVE  \/ h \in PhaseHolders(s)
           \/ h \in Closers /\ Ends(h) /\ pc[h].s = s
           \/ h \in Workers /\ Fetches(h) /\ Head(port) \in AcceptDoneOf(s)
           \/ h = "kernel" /\ \E w \in Workers : Activates(w) /\ pc[w].s = s
<1>1. CASE h \in Closers /\ Closing(h, s)'
  <2>1. h \in Threads \ {"main"} /\ FirstStep(h) \in {"wait", "scan"}
    BY <1>1, ThreadFacts DEF Closers
  <2>2. CASE pc'[h] = pc[h]
    BY <1>1, <2>2 DEF Closing, PhaseHolders
  <2>3. CASE Acts(h)
    <3>1. (Ends(h) \/ Shuts(h)) /\ pc'[h].s = pc[h].s
      BY <1>1, <2>3, CloserArrives DEF Closing
    <3>2. CASE Ends(h)
      BY <1>1, <3>1, <3>2 DEF Closing
    <3>3. CASE Shuts(h)
      <4>1. pc[h].at = "closing"
        BY <3>3 DEF Shuts, At, Copying, Reusing, OneBuffer
      <4>2. QED
        BY <1>1, <3>1, <4>1 DEF Closing, PhaseHolders
    <3>4. QED
      BY <3>1, <3>2, <3>3
  <2>4. QED
    BY <1>1, <2>1, <2>2, <2>3, PcMove DEF Closing
<1>2. CASE h \in Workers /\ Activating(h, s)'
  <2>1. h \in Threads \ {"main"} /\ FirstStep(h) = "wait"
    BY <1>2, ThreadFacts
  <2>2. CASE pc'[h] = pc[h]
    BY <1>2, <2>2 DEF Activating, PhaseHolders
  <2>3. CASE Acts(h)
    <3>1. Fetches(h)
      BY <1>2, <2>3, GotGoes DEF Activating
    <3>2. port # <<>> /\ Head(port).s = s /\ Head(port).op = "accept"
      BY <1>2, <3>1, FetchGoes DEF Activating
    <3>3. Head(port) \in Completion
      BY <3>2 DEF TypeOK, PortOK
    <3>4. QED
      BY <1>2, <3>1, <3>2, <3>3 DEF AcceptDoneOf
  <2>4. QED
    BY <1>2, <2>1, <2>2, <2>3, PcMove DEF Activating
<1>3. CASE h = "kernel" /\ ses'[s].active
  <2>1. CASE ses[s].active
    BY <1>3, <2>1 DEF PhaseHolders
  <2>2. CASE ~ses[s].active
    BY <1>3, <2>2, ActiveChanges DEF Reusing, Swapping
  <2>3. QED
    BY <2>1, <2>2
<1>4. QED
  BY <1>1, <1>2, <1>3 DEF PhaseHolders

LEMMA AcceptsFamily ==
    ASSUME TypeOK
    PROVE  /\ accepts \in Seq(Slots) /\ port \in Seq(Completion)
           /\ DOMAIN AcceptsOf = {1} /\ AcceptsOf[1] = accepts
           /\ DOMAIN AcceptsOf' = {1} /\ AcceptsOf'[1] = accepts'
<1>1. accepts \in Seq(AllSlots) /\ \A i \in DOMAIN accepts : accepts[i] \in Slots
  BY DEF TypeOK, QueuesOK
<1>2. accepts \in Seq(Slots)
  BY <1>1
<1>3. port \in Seq(Completion)
  BY DEF TypeOK, PortOK
<1>4. QED
  BY <1>2, <1>3 DEF AcceptsOf

(* The parts of a session's phase that are not with threads. *)
LEMMA PhaseKept ==
    ASSUME TypeOK, Known, NEW s \in Slots, NEW W, NEW V, V \subseteq W,
           ~\E w \in Workers : Fetches(w), ~Offers(s), NEW B, B = AcceptDoneOf(s)
    PROVE  /\ Single(AcceptsOf, {s}, port, B, W) => Single(AcceptsOf', {s}, port', B, V)
           /\ Empty(AcceptsOf, {s}, port, B, W) => Empty(AcceptsOf', {s}, port', B, V)
           /\ NoneIn(accepts, {s}) => NoneIn(accepts', {s})
<1>0. /\ accepts \in Seq(Slots) /\ port \in Seq(Completion)
      /\ DOMAIN AcceptsOf = {1} /\ AcceptsOf[1] = accepts
      /\ DOMAIN AcceptsOf' = {1} /\ AcceptsOf'[1] = accepts'
  BY AcceptsFamily
<1>a. B \subseteq Completion /\ \A e \in B : e.op = "accept" /\ e.s = s
  BY DEF AcceptDoneOf
<1>b. 1 \in {1} /\ (\A d \in {1} : AcceptsOf[d] \in Seq(Slots)) /\ \A d \in {1} : d # 1 => AcceptsOf'[d] = AcceptsOf[d]
  BY <1>0
<1>1. ASSUME NEW r \in Slots, Offers(r)
      PROVE  /\ Single(AcceptsOf, {s}, port, B, W) => Single(AcceptsOf', {s}, port', B, V)
             /\ Empty(AcceptsOf, {s}, port, B, W) => Empty(AcceptsOf', {s}, port', B, V)
             /\ NoneIn(accepts, {s}) => NoneIn(accepts', {s})
  <2>1. r # s /\ port' = port /\ (accepts' = accepts \/ accepts' = Append(accepts, r))
    BY <1>1 DEF Offers
  <2>2. CASE accepts' = accepts
    <3>1. AcceptsOf' = AcceptsOf
      BY <2>2 DEF AcceptsOf
    <3>2. QED
      BY <2>1, <2>2, <3>1 DEF Single, Empty
  <2>3. CASE accepts' = Append(accepts, r)
    <3>1. /\ Single(AcceptsOf, {s}, port, B, W) => Single(AcceptsOf', {s}, port, B, V)
          /\ Empty(AcceptsOf, {s}, port, B, W) => Empty(AcceptsOf', {s}, port, B, V)
      <4>1. Extends(Slots, AcceptsOf, AcceptsOf', 1, r) /\ r \notin {s}
        BY <1>0, <1>b, <2>1, <2>3 DEF Extends, Families
      <4>2. QED
        BY <4>1, TokenPosted
    <3>2. NoneIn(accepts, {s}) => NoneIn(accepts', {s})
      BY <1>0, <2>1, <2>3, AppendIn
    <3>3. QED
      BY <2>1, <3>1, <3>2
  <2>4. QED
    BY <2>1, <2>2, <2>3
<1>2. CASE KernelRefuses \/ \E r \in Slots : KernelAccepts(r)
  <2>1. accepts # <<>> /\ accepts' = Tail(accepts)
    BY <1>2 DEF KernelRefuses, KernelAccepts
  <2>2. PICK e \in Completion : port' \in {port, Append(port, e)} /\ (e.s = s => e.s = Head(accepts))
    <3>1. CASE KernelRefuses
      <4>1. Done("accept", None, FALSE, <<>>) \in Completion /\ s # None
        BY SlotFacts DEF Done, Completion, Text
      <4>2. Done("accept", None, FALSE, <<>>).s = None
        BY DEF Done
      <4>3. QED
        BY <3>1, <4>1, <4>2 DEF KernelRefuses
    <3>2. ASSUME NEW r \in Slots, KernelAccepts(r)
          PROVE  \E e \in Completion : port' \in {port, Append(port, e)} /\ (e.s = s => e.s = Head(accepts))
      <4>1. Done("accept", r, TRUE, <<>>) \in Completion /\ Done("accept", r, TRUE, <<>>).s = r
        BY SlotFacts DEF Done, Completion, Text
      <4>2. QED
        BY <3>2, <4>1 DEF KernelAccepts
    <3>3. QED
      BY <1>2, <3>1, <3>2
  <2>3. e \in B => Head(accepts) \in {s}
    BY <1>a, <2>2
  <2>4. /\ Single(AcceptsOf, {s}, port, B, W) => Single(AcceptsOf', {s}, port', B, V)
        /\ Empty(AcceptsOf, {s}, port, B, W) => Empty(AcceptsOf', {s}, port', B, V)
    <3>1. Shrinks(Slots, AcceptsOf, AcceptsOf', 1) /\ (e \in B => Head(AcceptsOf[1]) \in {s})
      BY <1>0, <1>b, <2>1, <2>3 DEF Shrinks, Families
    <3>2. MayQueue(Completion, port, e, port')
      BY <1>0, <2>2 DEF MayQueue
    <3>3. QED
      BY <3>1, <3>2, TokenDone
  <2>5. NoneIn(accepts, {s}) => NoneIn(accepts', {s})
    BY <1>0, <2>1, TailIn
  <2>6. QED
    BY <2>4, <2>5
<1>3. CASE ~KernelRefuses /\ ~(\E r \in Slots : KernelAccepts(r)) /\ ~\E r \in Slots : Offers(r)
  <2>1. accepts' = accepts /\ AcceptsOf' = AcceptsOf
    BY <1>3, AcceptsMove DEF AcceptsOf
  <2>2. PICK e \in Completion : port' \in {port, Append(port, e)} /\ e \notin B
    <3>1. Token \in Completion /\ Token.op = "end"
      BY DEF Token, Done, Completion, Text
    <3>2. ASSUME NEW c \in Conns, Say(c) \/ Sent(c) \/ Abort(c)
          PROVE  \E e \in Completion : port' \in {port, Append(port, e)} /\ e \notin B
      BY <1>a, <3>2, EnvDone DEF Arrives
    <3>3. QED
      BY <1>a, <1>3, <3>1, <3>2, PortMove DEF PortMoves
  <2>3. MayQueue(Completion, port, e, port')
    BY <1>0, <2>2 DEF MayQueue
  <2>4. QED
    BY <2>1, <2>2, <2>3, TokenKept
<1>4. QED
  BY <1>1, <1>2, <1>3

LEMMA PhaseFetched ==
    ASSUME TypeOK, NEW w \in Workers, Fetches(w), NEW s \in Slots, NEW W, NEW V, V \subseteq W \cup {w},
           V \subseteq W \/ Head(port) \in AcceptDoneOf(s)
    PROVE  /\ Single(AcceptsOf, {s}, port, AcceptDoneOf(s), W) => Single(AcceptsOf', {s}, port', AcceptDoneOf(s), V)
           /\ Empty(AcceptsOf, {s}, port, AcceptDoneOf(s), W) => Empty(AcceptsOf', {s}, port', AcceptDoneOf(s), V)
           /\ accepts' = accepts /\ ses' = ses
<1>1. accepts' = accepts /\ ses' = ses /\ AcceptsOf' = AcceptsOf
  BY DEF Fetches, WorkerThread01, mem, AcceptsOf
<1>2. port \in Seq(Completion) /\ port # <<>> /\ port' = Tail(port)
  BY FetchGoes DEF TypeOK, PortOK
<1>3. QED
  BY <1>1, <1>2, TokenFetched

(* The steps that move a thread leave the others where they are.           *)
OthersStay(t) == \A u \in Threads \ {t} : pc'[u] = pc[u]
LEMMA OthersAre ==
    ASSUME TypeOK, NEW t \in Threads
    PROVE  /\ \A r : Becomes(t, r) => OthersStay(t)
           /\ \A l : Stays(t, l) => OthersStay(t)
           /\ Rests(t) => OthersStay(t)
           /\ t \in Workers /\ Fetches(t) => OthersStay(t)
<1>1. pc \in [Threads -> PcRec]
  BY DEF TypeOK, PcOK
<1>2. \A r : Becomes(t, r) => OthersStay(t)
  BY <1>1 DEF Becomes, OthersStay
<1>3. t \in Workers /\ Fetches(t) => OthersStay(t)
  BY <1>1 DEF Fetches, WorkerThread01, OthersStay
<1>4. \A l : Stays(t, l) => OthersStay(t)
  BY <1>2 DEF Stays
<1>5. QED
  BY <1>2, <1>3, <1>4 DEF Rests

LEMMA PhaseActors ==
    ASSUME TypeOK, NEW t \in Threads, OthersStay(t)
    PROVE  /\ \A h \in Closers : Ends(h) => h = t
           /\ \A h \in Workers : Fetches(h) => h = t
           /\ \A h \in Workers : Activates(h) => h = t
<1>1. ASSUME NEW h \in Closers, Ends(h)
      PROVE  h = t
  <2>1. h \in Threads /\ pc[h].at = "close" /\ pc'[h].at = "closing"
    BY <1>1, ThreadFacts, PcAfter DEF Ends, At, Closers
  <2>2. QED
    BY <2>1 DEF OthersStay
<1>2. ASSUME NEW h \in Workers, Fetches(h)
      PROVE  h = t
  <2>1. h \in Threads /\ pc[h].at = "wait" /\ pc'[h].at # "wait"
    BY <1>2, ThreadFacts, FetchGoes
  <2>2. QED
    BY <2>1 DEF OthersStay
<1>3. ASSUME NEW h \in Workers, Activates(h)
      PROVE  h = t
  <2>1. h \in Threads /\ pc[h].at = "got" /\ pc'[h].at = "rebind"
    BY <1>3, ThreadFacts, PcAfter DEF Activates, At
  <2>2. QED
    BY <2>1 DEF OthersStay
<1>4. QED
  BY <1>1, <1>2, <1>3

(* The holders of the phase of a session are not each other.               *)
LEMMA PhaseNames ==
  /\ \A w \in Workers : w # "kernel"
  /\ \A t \in Closers : t # "kernel" /\ t \in Threads
  BY ThreadFacts DEF Closers

(* A step keeps PhaseInv: OnAccept, CloseSocket and the time of reuse hand *)
(* the session on.                                                         *)
LEMMA PhaseStep ==
    ASSUME TypeOK, PhaseInv, Known, UNCHANGED ver
    PROVE  PhaseInv'
<1> SUFFICES ASSUME ver \in Reusing, "misread" \notin marks', NEW s \in Slots
             PROVE  /\ OnePhase(s)'
                    /\ ses'[s].closed # "max" => NoPhase(s)' /\ ses'[s].sock = None
                    /\ ~NoneIn(accepts', {s}) => ses'[s].sock = None
  <2>1. Slots' = Slots
    BY SesMove DEF SesMoves
  <2>2. QED
    BY <2>1 DEF PhaseInv
<1>0. SesMoves /\ Slots' = Slots
  BY SesMove DEF SesMoves
<1> DEFINE B == AcceptDoneOf(s)
<1> DEFINE W == PhaseHolders(s)
<1> DEFINE V == PhaseHolders(s)'
<1>1. /\ Single(AcceptsOf, {s}, port, B, W)
      /\ ses[s].closed # "max" => Empty(AcceptsOf, {s}, port, B, W) /\ ses[s].sock = None
      /\ ~NoneIn(accepts, {s}) => ses[s].sock = None
  BY MarksGrow DEF PhaseInv, OnePhase, NoPhase
<1>2. /\ Single(AcceptsOf', {s}, port', B, V) => OnePhase(s)'
      /\ Empty(AcceptsOf', {s}, port', B, V) => NoPhase(s)'
  BY DEF OnePhase, NoPhase, AcceptDoneOf, Completion, AllSlots
<1>3. ASSUME NEW h \in V
      PROVE  \/ h \in W
             \/ h \in Closers /\ Ends(h) /\ pc[h].s = s
             \/ h \in Workers /\ Fetches(h) /\ Head(port) \in B
             \/ h = "kernel" /\ \E w \in Workers : Activates(w) /\ pc[w].s = s
  BY <1>0, <1>3, PhaseComes
<1>4. /\ "kernel" \in W <=> ses[s].active
      /\ "kernel" \in V <=> ses'[s].active
  BY PhaseNames DEF PhaseHolders
<1>5. \A h \in V : h = "kernel" \/ (h \in Closers /\ Closing(h, s)') \/ (h \in Workers /\ Activating(h, s)')
  BY DEF PhaseHolders
<1>6. /\ \A h \in Closers : Closing(h, s) => h \in W
      /\ \A h \in Workers : Activating(h, s) => h \in W
  BY DEF PhaseHolders
<1>7. \A v, w \in W : v = w
  BY <1>1 DEF Single
<1> HIDE DEF B, W, V
<1>8. CASE \E w \in Workers : Fetches(w)
  <2>1. PICK w \in Workers : Fetches(w)
    BY <1>8
  <2>2. OthersStay(w) /\ w \in Threads /\ pc[w].at = "wait" /\ ses' = ses
    BY <2>1, FetchGoes, OthersAre, ThreadFacts DEF Fetches, WorkerThread01, mem
  <2>3. ASSUME NEW h \in V
        PROVE  h \in W \/ (h = w /\ Head(port) \in B)
    <3>1. ~Ends(w) /\ ~Activates(w)
      BY <2>2 DEF Ends, Activates, At
    <3>2. QED
      BY <1>3, <2>2, <2>3, <3>1, PhaseActors
  <2>4. V \subseteq W \cup {w} /\ (V \subseteq W \/ Head(port) \in B)
    BY <2>3
  <2>5. /\ Single(AcceptsOf', {s}, port', B, V)
        /\ Empty(AcceptsOf, {s}, port, B, W) => Empty(AcceptsOf', {s}, port', B, V)
        /\ accepts' = accepts
    BY <1>1, <2>1, <2>4, PhaseFetched DEF B
  <2>6. QED
    BY <1>1, <1>2, <2>2, <2>5
<1>9. CASE Offers(s)
  <2>1. Empty(AcceptsOf, {s}, port, B, W) /\ ses[s].sock = None /\ port' = port /\ pc' = pc
    BY <1>1, <1>9 DEF Offers
  <2>2. ses' = [ses EXCEPT ![s].closed = "max"]
    BY <1>9 DEF Offers
  <2>3. ses'[s].sock = None /\ ses'[s].closed = "max" /\ ses'[s].active = ses[s].active
    <3>1. ses \in [Slots -> SesRec]
      BY DEF TypeOK, SesOK
    <3>2. QED
      BY <2>1, <2>2, <3>1 DEF SesRec
  <2>4. V \subseteq W
    BY <2>1, <2>3 DEF V, W, PhaseHolders, Closing, Activating
  <2>5. Single(AcceptsOf', {s}, port', B, V)
    <3>1. CASE accepts' = accepts
      <4>1. MayQueue(Completion, port, Token, port') /\ AcceptsOf' = AcceptsOf
        BY <2>1, <3>1, AcceptsFamily DEF MayQueue, Token, Done, Completion, Text, AcceptsOf
      <4>2. QED
        BY <2>1, <2>4, <4>1, TokenKept
    <3>2. CASE accepts' = Append(accepts, s)
      <4>1. Extends(Slots, AcceptsOf, AcceptsOf', 1, s)
        BY <3>2, AcceptsFamily DEF Extends, Families
      <4>2. QED
        BY <2>1, <2>4, <4>1, TokenPosted
    <3>3. QED
      BY <1>9, <3>1, <3>2 DEF Offers
  <2>6. QED
    BY <1>2, <2>3, <2>5
<1>10. CASE \E w \in Workers : Activates(w) /\ pc[w].s = s
  <2>1. PICK w \in Workers : Activates(w) /\ pc[w].s = s
    BY <1>10
  <2>2. w \in Threads /\ w \notin {"sender", "kernel"} /\ pc[w].at = "got" /\ pc[w].op = "accept" /\ Stays(w, "rebind")
    BY <2>1, ThreadFacts DEF Activates, At
  <2>3. OthersStay(w) /\ pc'[w].at = "rebind" /\ w \in W
    BY <1>6, <2>1, <2>2, OthersAre, PcAfter DEF Activating
  <2>4. \A h \in V : h = "kernel"
    <3>1. ~Ends(w) /\ ~Fetches(w)
      BY <2>2 DEF Ends, Fetches, WorkerThread01, At
    <3>2. w \notin V
      BY <1>5, <2>2, <2>3 DEF Closing, Activating
    <3>3. QED
      BY <1>3, <1>7, <2>2, <2>3, <3>1, <3>2, PhaseActors
  <2>5. port' = port /\ accepts' = accepts /\ AcceptsOf' = AcceptsOf
    BY <2>1 DEF Activates, net, AcceptsOf
  <2>6. Single(AcceptsOf', {s}, port', B, V)
    BY <1>1, <2>3, <2>4, <2>5, TokenPassed
  <2>7. ses'[s].closed = ses[s].closed /\ ses'[s].sock = ses[s].sock
    <3>1. ses \in [Slots -> SesRec] /\ ses' = [ses EXCEPT ![s].active = TRUE]
      BY <2>1 DEF TypeOK, SesOK, Activates
    <3>2. QED
      BY <3>1 DEF SesRec
  <2>8. ses[s].closed = "max"
    BY <1>1, <2>3 DEF Empty
  <2>9. QED
    BY <1>1, <1>2, <2>5, <2>6, <2>7, <2>8
<1>11. CASE \E t \in Closers : Ends(t) /\ pc[t].s = s
  <2>1. PICK t \in Closers : Ends(t) /\ pc[t].s = s
    BY <1>11
  <2>2. t \in Threads /\ pc[t].at = "close" /\ Stays(t, "closing") /\ ses[s].active
    BY <2>1, PhaseNames DEF Ends, At
  <2>3. OthersStay(t) /\ "kernel" \in W /\ ses'[s].active = FALSE
    BY <1>4, <2>1, <2>2, OthersAre, EndsIs
  <2>4. \A h \in V : h = t
    <3>1. ~Fetches(t)
      BY <2>2 DEF Fetches, WorkerThread01, At
    <3>2. "kernel" \notin V
      BY <1>4, <2>3
    <3>3. QED
      BY <1>3, <1>7, <2>2, <2>3, <3>1, <3>2, PhaseActors
  <2>5. port' = port /\ accepts' = accepts /\ AcceptsOf' = AcceptsOf
    BY <2>1 DEF Ends, net, AcceptsOf
  <2>6. Single(AcceptsOf', {s}, port', B, V)
    BY <1>1, <2>3, <2>4, <2>5, TokenPassed
  <2>7. ses' = [ses EXCEPT ![s].closed = "max", ![s].active = FALSE]
    BY <2>1 DEF Ends, Swapping, Reusing
  <2>8. ses'[s].closed = "max" /\ ses'[s].sock = ses[s].sock
    BY <2>7, EndsAfter DEF SocksStay
  <2>9. QED
    BY <1>1, <1>2, <2>5, <2>6, <2>8
<1>12. CASE \E t \in Closers : Clears(t) /\ pc[t].s = s
  <2>1. PICK t \in Closers : Clears(t) /\ pc[t].s = s
    BY <1>12
  <2>2. t \in Threads /\ pc[t].at = "clear" /\ Rests(t)
    BY <2>1, PhaseNames DEF Clears, At
  <2>3. OthersStay(t) /\ t \in W /\ pc'[t].s = None
    BY <1>6, <2>1, <2>2, OthersAre, PcAfter DEF Closing
  <2>4. V \subseteq W \ {t}
    <3>1. ~Fetches(t) /\ ~Ends(t) /\ ~Activates(t)
      BY <2>2 DEF Fetches, WorkerThread01, Ends, Activates, At
    <3>2. t \notin V
      BY <1>5, <2>3, PhaseNames, SlotFacts DEF Closing, Activating
    <3>3. QED
      BY <1>3, <2>2, <2>3, <3>1, <3>2, PhaseActors
  <2>5. port' = port /\ accepts' = accepts /\ AcceptsOf' = AcceptsOf
    BY <2>1 DEF Clears, net, AcceptsOf
  <2>6. Empty(AcceptsOf', {s}, port', B, V)
    BY <1>1, <2>3, <2>4, <2>5, TokenDropped
  <2>7. Single(AcceptsOf', {s}, port', B, V)
    <3>1. \A v, w \in V : v = w
      BY <1>7, <2>4
    <3>2. QED
      BY <2>6, <3>1, TokenTaken
  <2>8. ses'[s].sock = None
    BY <2>1, ClearsAfter
  <2>9. QED
    BY <1>2, <2>6, <2>7, <2>8
<1>13. CASE /\ ~(\E w \in Workers : Fetches(w)) /\ ~Offers(s) /\ ~(\E w \in Workers : Activates(w) /\ pc[w].s = s)
            /\ ~(\E t \in Closers : Ends(t) /\ pc[t].s = s) /\ ~(\E t \in Closers : Clears(t) /\ pc[t].s = s)
  <2>1. V \subseteq W
    BY <1>3, <1>13
  <2>2. /\ Single(AcceptsOf', {s}, port', B, V)
        /\ Empty(AcceptsOf, {s}, port, B, W) => Empty(AcceptsOf', {s}, port', B, V)
        /\ NoneIn(accepts, {s}) => NoneIn(accepts', {s})
    BY <1>1, <1>13, <2>1, PhaseKept DEF B
  <2>3. ses'[s].closed # "max" => ses[s].closed # "max"
    BY <1>0, <1>13, ClosedChanges
  <2>4. CASE ses'[s].sock = ses[s].sock
    BY <1>1, <1>2, <2>2, <2>3, <2>4
  <2>5. CASE ses'[s].sock # ses[s].sock
    <3>1. KernelAccepts(s)
      BY <1>0, <1>13, <2>5, SockChanges DEF Accepts
    <3>2. accepts # <<>> /\ Head(accepts) \in {s} /\ accepts' = Tail(accepts)
      BY <3>1 DEF KernelAccepts
    <3>3. ~NoneIn(accepts, {s}) /\ (OneIn(accepts, {s}) => NoneIn(accepts', {s}))
      BY <3>2, AcceptsFamily, TailIn
    <3>4. OneIn(accepts, {s}) /\ ~Empty(AcceptsOf, {s}, port, B, W)
      BY <1>1, <3>3, AcceptsFamily DEF Single, Empty
    <3>5. QED
      BY <1>1, <1>2, <2>2, <2>3, <3>3, <3>4
  <2>6. QED
    BY <2>4, <2>5
<1>14. QED
  BY <1>8, <1>9, <1>10, <1>11, <1>12, <1>13

-----------------------------------------------------------------------------
(* No connection is lost *)

(* The session the accepter gives a connection to, or an AcceptEx of which *)
(* the kernel completes, has no socket.                                     *)
Practices == Copying \cup Swapping \cup Reusing
LEMMA VerInit ==
    ASSUME EchoInit
    PROVE  ver \in Practices
  BY EchoVersions DEF EchoInit, Practices, Copying, Swapping, Reusing, OneBuffer

LEMMA AcceptsFree ==
    ASSUME TypeOK, GivenInv, PhaseInv, ver \in Practices, NEW s \in Slots, Accepts(s) \/ KernelAccepts(s),
           ~Overlapped, "taken" \notin marks, "overlap" \notin marks'
    PROVE  ses[s].sock = None
<1>1. CASE KernelAccepts(s)
  <2>1. ver \in Reusing /\ accepts # <<>> /\ Head(accepts) = s /\ accepts \in Seq(AllSlots)
    BY <1>1 DEF KernelAccepts, TypeOK, QueuesOK
  <2>2. 1 \in DOMAIN accepts /\ accepts[1] = s
    BY <2>1, SeqTail
  <2>3. ~NoneIn(accepts, {s})
    BY <2>2 DEF NoneIn
  <2>4. QED
    BY <2>1, <2>3 DEF PhaseInv, Overlapped
<1>2. CASE Accepts(s)
  <2>1. ver \notin Reusing /\ Awaits(s) /\ Accepted("accepter", s)
    BY <1>2 DEF Accepts, Awaits
  <2>2. CASE ver \in Copying
    BY <2>1, <2>2 DEF GivenInv
  <2>3. CASE ver \in Swapping /\ ses[s].sock # None
    <3>1. PICK t \in Closers : pc[t].s = s
      BY <1>2, <2>1, <2>3 DEF GivenInv
    <3>2. t \in Threads \ {"accepter"}
      BY ThreadFacts DEF Closers
    <3>3. UnderWay("accepter", s)
      BY <3>1, <3>2 DEF UnderWay
    <3>4. QED
      BY <2>1, <3>3, AcceptedClean
  <2>4. QED
    BY <2>1, <2>2, <2>3 DEF Practices
<1>3. QED
  BY <1>1, <1>2

(* A step keeps NoConnectionLost.                                          *)
LEMMA NoneLostStep ==
    ASSUME TypeOK, SockInv, ShutInv, GivenInv, PhaseInv, NoConnectionLost, ver \in Practices, Known
    PROVE  NoConnectionLost'
<1>1. SUFFICES ASSUME ~Overlapped', "taken" \notin marks', NEW c \in Conns, conn'[c].st \in {"open", "gone"}
               PROVE  \E s \in Slots : ses'[s].sock = c
  <2>1. Slots' = Slots
    BY SesMove DEF SesMoves
  <2>2. QED
    BY <1>1, <2>1 DEF NoConnectionLost, Overlapped
<1>2. "taken" \notin marks /\ "overlap" \notin marks' /\ ~Overlapped
  BY <1>1, MarksGrow DEF Overlapped
<1>3. SesMoves /\ ConnMoves(c)
  BY SesMove, ConnMove, CallsKnown
<1>4. CASE conn[c].st \in {"open", "gone"}
  <2>1. PICK s \in Slots : ses[s].sock = c
    BY <1>2, <1>4 DEF NoConnectionLost, Overlapped
  <2>2. c # None
    BY DEF Conns, None
  <2>3. ~(Accepts(s) \/ KernelAccepts(s))
    BY <1>2, <2>1, <2>2, AcceptsFree
  <2>4. ASSUME NEW t \in Closers, Clears(t), s = pc[t].s
        PROVE  FALSE
    <3>1. At(t, "clear")
      BY <2>4 DEF Clears
    <3>2. conn[ses[s].sock].st = "closed"
      BY <1>2, <2>1, <2>2, <2>4, <3>1 DEF ShutInv
    <3>3. QED
      BY <1>4, <2>1, <3>2
  <2>5. ses'[s].sock = ses[s].sock
    BY <1>3, <2>3, <2>4, SockChanges
  <2>6. QED
    BY <2>1, <2>5
<1>5. CASE SomeAccepted /\ c = Caller
  <2>1. PICK s \in Slots, t \in {"accepter", "kernel"} : Accepted(t, s)
    BY <1>5 DEF SomeAccepted
  <2>2. SetsSock(s, Caller)
    BY <2>1 DEF Accepted, SetsSock
  <2>3. \A r \in Slots : ses'[r].sock = (IF r = s THEN Caller ELSE ses[r].sock)
    BY <2>2, SockSet
  <2>4. ses'[s].sock = Caller
    BY <2>3
  <2>5. QED
    BY <1>5, <2>4
<1>6. QED
  BY <1>1, <1>3, <1>4, <1>5 DEF ConnMoves

LinkInv == SockInv /\ ShutInv /\ GivenInv /\ PhaseInv /\ ver \in Practices

LEMMA LinkSame ==
    ASSUME LinkInv, UNCHANGED <<vars, ver>>
    PROVE  LinkInv'
<1>1. UNCHANGED <<conn, accepts, port, ses, pc, marks, deque, ver>>
  BY DEF vars, net, mem, hist
<1>2. SockInv' /\ ShutInv' /\ GivenInv' /\ (ver \in Practices)'
  BY <1>1 DEF LinkInv, SockInv, ShutInv, GivenInv, Overlapped, Awaits, Slots, At, Copying, Swapping, Practices, Reusing
<1>3. PhaseInv'
  BY <1>1 DEF LinkInv, PhaseInv, OnePhase, NoPhase, AcceptsOf, PhaseHolders, AcceptDoneOf, Closing, Activating, Slots,
              NoneIn, Reusing, Single, Empty, OneIn
<1>4. QED
  BY <1>2, <1>3 DEF LinkInv

(* Misreading op_type_ changes no link yet; from then on there is less of  *)
(* them to say.                                                            *)
LEMMA LinkMisread ==
    ASSUME LinkInv, UNCHANGED ver, NEW w \in Workers, Misreads(w)
    PROVE  LinkInv'
<1>1. UNCHANGED <<conn, accepts, port, ses>> /\ "misread" \in marks' /\ ver \in Reusing /\ ver \notin Copying
  BY DEF Misreads, net, mem, Reusing, Copying, OneBuffer
<1>2. Overlapped' /\ (ver \in Practices)'
  BY <1>1 DEF Overlapped, LinkInv, Practices
<1>3. SockInv'
  BY <1>1 DEF LinkInv, SockInv, Slots
<1>4. ShutInv' /\ GivenInv' /\ PhaseInv'
  BY <1>1, <1>2 DEF ShutInv, GivenInv, PhaseInv
<1>5. QED
  BY <1>2, <1>3, <1>4 DEF LinkInv

(* What every practice begins with.                                        *)
LEMMA InitFacts ==
    ASSUME EchoInit
    PROVE  /\ marks = {} /\ accepts = <<>> /\ port = <<>> /\ deque = <<>>
           /\ \A c \in Conns : /\ conn[c].st = "idle" /\ conn[c].said = 0 /\ conn[c].heard = <<>>
                               /\ conn[c].recvs = <<>> /\ conn[c].sends = <<>>
           /\ \A s \in Slots : /\ ses[s].sock = None /\ ses[s].active = FALSE /\ ses[s].sending = FALSE
                               /\ ses[s].out = <<>> /\ ses[s].typed = FALSE /\ ses[s].closed = "long ago"
           /\ \A t \in Threads : pc[t].at \in {"init", "off"} /\ pc[t].s = None
           /\ \A t \in Threads \ {"main"} : pc[t].at = "off"
<1>1. PICK n \in 1..NumSlots :
        ses = [s \in 1..n |-> [sock |-> None, active |-> FALSE, sending |-> FALSE,
                               out |-> <<>>, typed |-> FALSE, closed |-> "long ago"]]
  BY DEF EchoInit, Init
<1>2. conn = [c \in Conns |-> [st |-> "idle", said |-> 0, heard |-> <<>>, recvs |-> <<>>, sends |-> <<>>]]
      /\ accepts = <<>> /\ port = <<>> /\ deque = <<>> /\ marks = {}
      /\ pc = [t \in Threads |-> Local(IF t = "main" THEN "init" ELSE "off")]
  BY DEF EchoInit, Init
<1>3. \A s \in Slots : /\ ses[s].sock = None /\ ses[s].active = FALSE /\ ses[s].sending = FALSE
                       /\ ses[s].out = <<>> /\ ses[s].typed = FALSE /\ ses[s].closed = "long ago"
  BY <1>1 DEF Slots
<1>4. \A t \in Threads : pc[t].at \in {"init", "off"} /\ pc[t].s = None /\ (t # "main" => pc[t].at = "off")
  BY <1>2 DEF Local
<1>5. QED
  BY <1>2, <1>3, <1>4

(* The links hold at first.                                                *)
LEMMA LinkInit ==
    ASSUME EchoInit
    PROVE  LinkInv
<1>1. ver \in Practices
  BY VerInit
<1>2. SockInv
  BY InitFacts, FirstSteps DEF SockInv
<1>3. \A t \in Closers : t \in Threads \ {"main"}
  BY ThreadFacts DEF Closers
<1>4. ShutInv /\ GivenInv
  <2>1. \A t \in Closers : ~At(t, "clear")
    BY <1>3, InitFacts DEF At
  <2>2. \A s \in Slots : ~Awaits(s)
    BY InitFacts, ThreadFacts DEF Awaits, At
  <2>3. QED
    BY <2>1, <2>2, InitFacts DEF ShutInv, GivenInv
<1>5. PhaseInv
  <2>1. ASSUME NEW s \in Slots
        PROVE  NoPhase(s) /\ NoneIn(accepts, {s})
    <3>1. PhaseHolders(s) = {}
      BY <1>3, InitFacts, ThreadFacts DEF PhaseHolders, Closing, Activating
    <3>2. NoneIn(accepts, {s}) /\ NoneIn(port, AcceptDoneOf(s))
      <4>1. accepts = <<>> /\ port = <<>>
        BY InitFacts
      <4>2. QED
        BY <4>1 DEF NoneIn
    <3>4. \A i \in DOMAIN AcceptsOf : AcceptsOf[i] = accepts
      BY DEF AcceptsOf
    <3>3. QED
      BY <3>1, <3>2, <3>4 DEF NoPhase, Empty
  <2>2. \A s \in Slots : OnePhase(s)
    <3>1. ASSUME NEW s \in Slots
          PROVE  OnePhase(s)
      <4>1. Empty(AcceptsOf, {s}, port, AcceptDoneOf(s), PhaseHolders(s))
        BY <2>1 DEF NoPhase
      <4>2. PhaseHolders(s) = {}
        BY <4>1 DEF Empty
      <4>3. Single(AcceptsOf, {s}, port, AcceptDoneOf(s), PhaseHolders(s))
        BY <4>1, <4>2, TokenTaken
      <4>4. QED
        BY <4>3 DEF OnePhase
    <3>2. QED
      BY <3>1
  <2>3. QED
    BY <2>1, <2>2, InitFacts DEF PhaseInv
<1>6. QED
  BY <1>1, <1>2, <1>4, <1>5 DEF LinkInv

(* Every step keeps the links.                                             *)
LEMMA LinkStep ==
    ASSUME TypeOK, StartInv, LinkInv, [Next]_<<vars, ver>>
    PROVE  LinkInv'
<1>1. UNCHANGED <<kind, ver>> /\ (Known \/ (\E w \in Workers : Misreads(w)) \/ UNCHANGED <<vars, ver>>)
  BY NextIs
<1>2. CASE Known
  <2>1. SockInv' /\ ShutInv' /\ GivenInv' /\ PhaseInv'
    BY <1>1, <1>2, SockStep, ShutStep, GivenStep, PhaseStep DEF LinkInv
  <2>2. (ver \in Practices)'
    BY <1>1 DEF LinkInv, Practices
  <2>3. QED
    BY <2>1, <2>2 DEF LinkInv
<1>3. CASE \E w \in Workers : Misreads(w)
  BY <1>1, <1>3, LinkMisread
<1>4. QED
  BY <1>1, <1>2, <1>3, LinkSame

(* The sockets, who closes them and who has been given a session, in every *)
(* state of every server.  What the links say of accepts, activations and  *)
(* closings from Practice07 on they say until a worker misreads op_type_.  *)
THEOREM EchoLinks == Spec => []LinkInv
<1>1. EchoInit => LinkInv
  BY LinkInit
<1>2. TypeOK /\ StartInv /\ LinkInv /\ [Next]_<<vars, ver>> => LinkInv'
  BY LinkStep
<1>3. QED
  BY <1>1, <1>2, EchoTypes, PTL DEF Spec

(* A connection that was accepted and not closed is some session's, unless *)
(* its session was given back while the accepter waited for it, or a       *)
(* worker of Practice07 misread op_type_.                                  *)
THEOREM EchoNoneLost == Spec => []NoConnectionLost
<1>1. EchoInit => NoConnectionLost
  BY InitFacts DEF NoConnectionLost
<1>2. TypeOK /\ StartInv /\ LinkInv /\ NoConnectionLost /\ [Next]_<<vars, ver>> => NoConnectionLost'
  <2>1. SUFFICES ASSUME TypeOK, StartInv, LinkInv, NoConnectionLost, [Next]_<<vars, ver>>
                 PROVE  NoConnectionLost'
    OBVIOUS
  <2>2. Known \/ (\E w \in Workers : Misreads(w)) \/ UNCHANGED <<vars, ver>>
    BY <2>1, NextIs
  <2>3. CASE Known
    BY <2>1, <2>3, NoneLostStep DEF LinkInv
  <2>4. CASE \E w \in Workers : Misreads(w)
    BY <2>4 DEF Misreads, NoConnectionLost
  <2>5. CASE UNCHANGED <<vars, ver>>
    BY <2>1, <2>5 DEF NoConnectionLost, vars, net, mem, hist, Slots
  <2>6. QED
    BY <2>2, <2>3, <2>4, <2>5
<1>3. QED
  BY <1>1, <1>2, EchoTypes, EchoLinks, PTL DEF Spec

-----------------------------------------------------------------------------
(* Where operations and words come from *)

(* Which receives and sends are pending, as families of queues.            *)
LEMMA IoFamilies ==
    ASSUME TypeOK
    PROVE  /\ DOMAIN RecvsOf = Conns /\ DOMAIN RecvsOf' = Conns /\ DOMAIN SendsOf = Conns /\ DOMAIN SendsOf' = Conns
           /\ \A c \in Conns : /\ RecvsOf[c] = conn[c].recvs /\ RecvsOf[c] \in Seq(AllSlots)
                               /\ SendsOf[c] = conn[c].sends /\ SendsOf[c] \in Seq(Op)
                               /\ RecvsOf'[c] = conn'[c].recvs /\ SendsOf'[c] = conn'[c].sends
<1>1. \A c \in Conns : conn[c].recvs \in Seq(AllSlots) /\ conn[c].sends \in Seq(Op)
  BY ConnFacts DEF Op
<1>2. QED
  BY <1>1 DEF RecvsOf, SendsOf

RecvsStay == \A c \in Conns : conn'[c].recvs = conn[c].recvs
SendsStay == \A c \in Conns : conn'[c].sends = conn[c].sends

LEMMA StaysOf ==
    ASSUME TypeOK
    PROVE  (RecvsStay => RecvsOf' = RecvsOf) /\ (SendsStay => SendsOf' = SendsOf)
  BY DEF RecvsStay, SendsStay, RecvsOf, SendsOf

LEMMA IoSet ==
    ASSUME TypeOK, NEW c \in Conns, NEW x
    PROVE  /\ conn' = [conn EXCEPT ![c].st = x] => RecvsStay /\ SendsStay
           /\ conn' = [conn EXCEPT ![c].recvs = x] =>
                SendsStay /\ conn'[c].recvs = x /\ \A d \in Conns : d # c => conn'[d].recvs = conn[d].recvs
           /\ conn' = [conn EXCEPT ![c].sends = x] =>
                RecvsStay /\ conn'[c].sends = x /\ \A d \in Conns : d # c => conn'[d].sends = conn[d].sends
<1>1. conn \in [Conns -> ConnRec] /\ conn[c] \in ConnRec
  BY ConnFacts DEF TypeOK, ConnOK
<1>2. ASSUME NEW r, conn' = [conn EXCEPT ![c] = r]
      PROVE  conn'[c] = r /\ \A d \in Conns : d # c => conn'[d] = conn[d]
  BY <1>1, <1>2
<1>3. ASSUME conn' = [conn EXCEPT ![c].st = x]
      PROVE  RecvsStay /\ SendsStay
  <2>1. conn'[c] = [conn[c] EXCEPT !.st = x] /\ \A d \in Conns : d # c => conn'[d] = conn[d]
    BY <1>2, <1>3
  <2>2. conn'[c].recvs = conn[c].recvs /\ conn'[c].sends = conn[c].sends
    BY <1>1, <2>1 DEF ConnRec
  <2>3. \A d \in Conns : d # c => conn'[d] = conn[d]
    BY <2>1
  <2>4. QED
    BY <2>2, <2>3 DEF RecvsStay, SendsStay
<1>4. ASSUME conn' = [conn EXCEPT ![c].recvs = x]
      PROVE  SendsStay /\ conn'[c].recvs = x /\ \A d \in Conns : d # c => conn'[d].recvs = conn[d].recvs
  <2>1. conn'[c] = [conn[c] EXCEPT !.recvs = x] /\ \A d \in Conns : d # c => conn'[d] = conn[d]
    BY <1>2, <1>4
  <2>2. conn'[c].recvs = x /\ conn'[c].sends = conn[c].sends
    BY <1>1, <2>1 DEF ConnRec
  <2>3. \A d \in Conns : d # c => conn'[d] = conn[d]
    BY <2>1
  <2>4. QED
    BY <2>2, <2>3 DEF SendsStay
<1>5. ASSUME conn' = [conn EXCEPT ![c].sends = x]
      PROVE  RecvsStay /\ conn'[c].sends = x /\ \A d \in Conns : d # c => conn'[d].sends = conn[d].sends
  <2>1. conn'[c] = [conn[c] EXCEPT !.sends = x] /\ \A d \in Conns : d # c => conn'[d] = conn[d]
    BY <1>2, <1>5
  <2>2. conn'[c].sends = x /\ conn'[c].recvs = conn[c].recvs
    BY <1>1, <2>1 DEF ConnRec
  <2>3. \A d \in Conns : d # c => conn'[d] = conn[d]
    BY <2>1
  <2>4. QED
    BY <2>2, <2>3 DEF RecvsStay
<1>6. QED
  BY <1>3, <1>4, <1>5

LEMMA RecvCall ==
    ASSUME TypeOK, NEW s \in Slots, NEW ok \in BOOLEAN, WSARecv(s, ok)
    PROVE  /\ SendsStay
           /\ IF ok THEN /\ Live(s) /\ ses[s].sock \in Conns
                         /\ conn'[ses[s].sock].recvs = Append(conn[ses[s].sock].recvs, s)
                         /\ \A d \in Conns : d # ses[s].sock => conn'[d].recvs = conn[d].recvs
              ELSE RecvsStay
<1>1. CASE ok
  <2>1. Live(s) /\ ses[s].sock \in Conns
    BY <1>1, SesFacts DEF WSARecv, Taken, Live
  <2>2. conn' = [conn EXCEPT ![ses[s].sock].recvs = Append(conn[ses[s].sock].recvs, s)]
    BY <1>1 DEF WSARecv
  <2>3. QED
    BY <1>1, <2>1, <2>2, IoSet
<1>2. CASE ~ok
  BY <1>2 DEF WSARecv, RecvsStay, SendsStay
<1>3. QED
  BY <1>1, <1>2

LEMMA SendCall ==
    ASSUME TypeOK, NEW s \in Slots, NEW ms \in Text, NEW ok \in BOOLEAN, WSASend(s, ms, ok)
    PROVE  /\ RecvsStay
           /\ IF ok THEN /\ Live(s) /\ ses[s].sock \in Conns
                         /\ conn'[ses[s].sock].sends = Append(conn[ses[s].sock].sends, [s |-> s, ms |-> ms])
                         /\ \A d \in Conns : d # ses[s].sock => conn'[d].sends = conn[d].sends
              ELSE SendsStay
<1>1. CASE ok
  <2>1. Live(s) /\ ses[s].sock \in Conns
    BY <1>1, SesFacts DEF WSASend, Taken, Live
  <2>2. conn' = [conn EXCEPT ![ses[s].sock].sends = Append(conn[ses[s].sock].sends, [s |-> s, ms |-> ms])]
    BY <1>1 DEF WSASend
  <2>3. QED
    BY <1>1, <2>1, <2>2, IoSet
<1>2. CASE ~ok
  BY <1>2 DEF WSASend, RecvsStay, SendsStay
<1>3. QED
  BY <1>1, <1>2

(* Who posts a receive, and who sends what. *)
RecvPosts(s) == Binds(s) \/ \E w \in Workers : Rebinds(w) /\ s = pc[w].s
Sending(t, s, ms) ==
  /\ s = pc[t].s
  /\ \/ t \in Workers /\ Echoes(t) /\ ms = Data01(t)
     \/ t \in Workers /\ Pops(t) /\ Tail(ses[s].out) # <<>> /\ ms = Head(Tail(ses[s].out))
     \/ t = "packet" /\ (Answers \/ (Lines /\ ses[s].out = <<>>)) /\ ms = pc[t].ms
     \/ t = "sender" /\ (\E told \in BOOLEAN : Posts(told)) /\ ms = ses[s].out

RecvsMoves ==
  \/ RecvsStay
  \/ \E c \in Conns : (Say(c) \/ Abort(c)) /\ Shrinks(AllSlots, RecvsOf, RecvsOf', c)
  \/ \E s \in Slots : RecvPosts(s) /\ Live(s) /\ Extends(AllSlots, RecvsOf, RecvsOf', ses[s].sock, s)
Base(s, ms) == IF ver \in OneBuffer THEN [c \in Conns |-> Over(conn[c].sends, s, ms)] ELSE SendsOf
SendsMoves ==
  \/ SendsStay
  \/ \E c \in Conns : (Sent(c) \/ Abort(c)) /\ Shrinks(Op, SendsOf, SendsOf', c)
  \/ \E t \in Threads : \E s \in Slots : \E ms \in Text :
       /\ Sending(t, s, ms)
       /\ \/ SendsOf' = Base(s, ms)
          \/ Live(s) /\ Extends(Op, Base(s, ms), SendsOf', ses[s].sock, [s |-> s, ms |-> ms])

LEMMA RecvsPosted ==
    ASSUME TypeOK, NEW s \in Slots, NEW ok \in BOOLEAN, WSARecv(s, ok), RecvPosts(s)
    PROVE  RecvsMoves /\ SendsMoves
<1>1. CASE ok
  <2>1. SendsStay /\ Live(s) /\ ses[s].sock \in Conns
        /\ conn'[ses[s].sock].recvs = Append(conn[ses[s].sock].recvs, s)
        /\ \A d \in Conns : d # ses[s].sock => conn'[d].recvs = conn[d].recvs
    BY <1>1, RecvCall
  <2>2. Extends(AllSlots, RecvsOf, RecvsOf', ses[s].sock, s)
    <3>1. /\ DOMAIN RecvsOf = Conns /\ DOMAIN RecvsOf' = Conns /\ \A d \in Conns : RecvsOf[d] \in Seq(AllSlots)
          /\ RecvsOf'[ses[s].sock] = Append(RecvsOf[ses[s].sock], s)
          /\ \A d \in Conns : d # ses[s].sock => RecvsOf'[d] = RecvsOf[d]
      BY <2>1, IoFamilies
    <3>2. QED
      BY <2>1, <3>1, SlotFacts DEF Extends, Families
  <2>3. QED
    BY <2>1, <2>2 DEF RecvsMoves, SendsMoves
<1>2. CASE ~ok
  BY <1>2, RecvCall DEF RecvsMoves, SendsMoves
<1>3. QED
  BY <1>1, <1>2

LEMMA SendsPosted ==
    ASSUME TypeOK, ver \notin OneBuffer, NEW t \in Threads, NEW s \in Slots, NEW ms \in Text, NEW ok \in BOOLEAN,
           WSASend(s, ms, ok), ok => Sending(t, s, ms)
    PROVE  RecvsMoves /\ SendsMoves
<1>1. CASE ok
  <2>1. RecvsStay /\ Live(s) /\ ses[s].sock \in Conns
        /\ conn'[ses[s].sock].sends = Append(conn[ses[s].sock].sends, [s |-> s, ms |-> ms])
        /\ \A d \in Conns : d # ses[s].sock => conn'[d].sends = conn[d].sends
    BY <1>1, SendCall
  <2>2. [s |-> s, ms |-> ms] \in Op
    BY SlotFacts DEF Op
  <2>3. Extends(Op, SendsOf, SendsOf', ses[s].sock, [s |-> s, ms |-> ms])
    <3>1. /\ DOMAIN SendsOf = Conns /\ DOMAIN SendsOf' = Conns /\ \A d \in Conns : SendsOf[d] \in Seq(Op)
      BY IoFamilies
    <3>2. \A d \in Conns : SendsOf[d] = conn[d].sends /\ SendsOf'[d] = conn'[d].sends
      BY IoFamilies
    <3>3. /\ SendsOf'[ses[s].sock] = Append(SendsOf[ses[s].sock], [s |-> s, ms |-> ms])
          /\ \A d \in Conns : d # ses[s].sock => SendsOf'[d] = SendsOf[d]
      BY <2>1, <3>2
    <3>4. QED
      BY <2>1, <2>2, <3>1, <3>3 DEF Extends, Families
  <2>4. Base(s, ms) = SendsOf
    BY DEF Base
  <2>5. QED
    BY <1>1, <2>1, <2>3, <2>4 DEF RecvsMoves, SendsMoves
<1>2. CASE ~ok
  BY <1>2, SendCall DEF RecvsMoves, SendsMoves
<1>3. QED
  BY <1>1, <1>2

LEMMA EchoPosted ==
    ASSUME TypeOK, ver \in OneBuffer, NEW t \in Threads, NEW s \in Slots, NEW ms \in Text, NEW ok \in BOOLEAN,
           SendMsg01(s, ms, ok), Sending(t, s, ms)
    PROVE  RecvsMoves /\ SendsMoves
<1>1. Overwritten01(s, ms) = [c \in Conns |-> [conn[c] EXCEPT !.sends = Over(conn[c].sends, s, ms)]]
      /\ Overwritten01(s, ms) \in [Conns -> ConnRec]
  BY OverwrittenIs
<1>2. \A c \in Conns : Overwritten01(s, ms)[c].sends = Over(conn[c].sends, s, ms)
                       /\ Overwritten01(s, ms)[c].recvs = conn[c].recvs
  BY <1>1, ConnFacts DEF ConnRec
<1>3. Base(s, ms) = [c \in Conns |-> Over(conn[c].sends, s, ms)]
  BY DEF Base
<1>4. CASE ~ok
  <2>1. conn' = Overwritten01(s, ms)
    BY <1>4 DEF SendMsg01
  <2>2. RecvsStay /\ SendsOf' = Base(s, ms)
    BY <1>2, <1>3, <2>1 DEF RecvsStay, SendsOf
  <2>3. QED
    BY <2>2 DEF RecvsMoves, SendsMoves
<1>5. CASE ok
  <2> DEFINE x == [s |-> s, ms |-> ms]
  <2>1. Live(s) /\ ses[s].sock \in Conns
    BY <1>5, SesFacts DEF SendMsg01, Taken, Live
  <2>2. conn' = [Overwritten01(s, ms) EXCEPT ![ses[s].sock].sends = Append(Over(conn[ses[s].sock].sends, s, ms), x)]
    BY <1>2, <1>5, <2>1 DEF SendMsg01
  <2>3. x \in Op
    BY SlotFacts DEF Op
  <2> HIDE DEF x
  <2>4. RecvsStay
    <3>1. Overwritten01(s, ms) \in [Conns -> ConnRec]
      BY <1>1
    <3>2. \A d \in Conns : conn'[d].recvs = Overwritten01(s, ms)[d].recvs
      BY <2>1, <2>2, <3>1 DEF ConnRec
    <3>3. QED
      BY <1>2, <3>2 DEF RecvsStay
  <2>5. /\ conn'[ses[s].sock].sends = Append(Over(conn[ses[s].sock].sends, s, ms), x)
        /\ \A d \in Conns : d # ses[s].sock => conn'[d].sends = Over(conn[d].sends, s, ms)
    BY <1>1, <1>2, <2>1, <2>2 DEF ConnRec
  <2>6. \A d \in Conns : Over(conn[d].sends, s, ms) \in Seq(Op)
    <3>1. \A d \in Conns : conn[d].sends \in Seq(Op)
      BY ConnFacts DEF Op
    <3>2. QED
      BY <3>1, OverSeq
  <2>7. Extends(Op, Base(s, ms), SendsOf', ses[s].sock, x)
    <3>1. /\ DOMAIN Base(s, ms) = Conns /\ DOMAIN SendsOf' = Conns /\ \A d \in Conns : Base(s, ms)[d] \in Seq(Op)
          /\ SendsOf'[ses[s].sock] = Append(Base(s, ms)[ses[s].sock], x)
          /\ \A d \in Conns : d # ses[s].sock => SendsOf'[d] = Base(s, ms)[d]
      BY <1>3, <2>1, <2>5, <2>6, IoFamilies
    <3>2. QED
      BY <2>1, <2>3, <3>1 DEF Extends, Families
  <2>8. QED
    BY <2>1, <2>4, <2>7 DEF RecvsMoves, SendsMoves, x
<1>6. QED
  BY <1>4, <1>5

LEMMA IoActs ==
    ASSUME TypeOK, NEW t \in Threads, Acts(t)
    PROVE  RecvsMoves /\ SendsMoves
<1>0. UNCHANGED conn => RecvsMoves /\ SendsMoves
  BY DEF RecvsMoves, SendsMoves, RecvsStay, SendsStay
<1>00. TRUE \in BOOLEAN /\ FALSE \in BOOLEAN
  OBVIOUS
<1>01. \A c \in Conns : \A x : conn' = [conn EXCEPT ![c].st = x] => RecvsMoves /\ SendsMoves
  BY IoSet DEF RecvsMoves, SendsMoves
<1>1. CASE Leaves(t)
  BY <1>0, <1>1 DEF Leaves, net
<1>2. CASE AccepterWorks(t)
  <2>1. ASSUME NEW s \in Slots, Binds(s)
        PROVE  RecvsMoves /\ SendsMoves
    <3>1. RecvPosts(s) /\ \E ok \in BOOLEAN : WSARecv(s, ok)
      BY <2>1 DEF RecvPosts, Binds
    <3>2. QED
      BY <3>1, RecvsPosted
  <2>2. ASSUME Refuses \/ \E s \in Slots : Accepts(s)
        PROVE  RecvsMoves /\ SendsMoves
    <3>1. Waiting # {} /\ \E x : conn' = [conn EXCEPT ![Caller].st = x]
      BY <2>2 DEF Refuses, Accepts, Accepted, AcceptFailed
    <3>2. QED
      BY <1>01, <3>1, CallerFacts
  <2>3. QED
    BY <1>0, <1>2, <2>1, <2>2 DEF AccepterWorks, Chooses, Offers, net
<1>3. CASE WorkerWorks(t)
  <2>0. t \in Workers /\ t \in Threads
    BY <1>3 DEF WorkerWorks
  <2>1. CASE Echoes(t)
    <3>1. pc[t].s \in Slots /\ Data01(t) \in Text /\ ver \in OneBuffer
      BY <2>0, <2>1, EchoText DEF Echoes
    <3>2. Sending(t, pc[t].s, Data01(t))
      BY <2>0, <2>1 DEF Sending
    <3>3. PICK ok \in BOOLEAN : SendMsg01(pc[t].s, Data01(t), ok)
      BY <2>1 DEF Echoes
    <3>4. QED
      BY <3>1, <3>2, <3>3, EchoPosted
  <2>2. CASE Pops(t)
    <3>1. pc[t].s \in Slots /\ ver \notin OneBuffer
      BY <2>0, <2>2, PopText DEF Pops, OneBuffer
    <3>2. CASE Tail(ses[pc[t].s].out) = <<>>
      BY <1>0, <2>2, <3>2 DEF Pops, SendCompleted06
    <3>3. CASE Tail(ses[pc[t].s].out) # <<>>
      <4>1. Head(Tail(ses[pc[t].s].out)) \in Text
        BY <2>0, <2>2, <3>3, PopText
      <4>2. \E ok \in BOOLEAN : WSASend(pc[t].s, Head(Tail(ses[pc[t].s].out)), ok)
        BY <2>2, <3>3 DEF Pops, SendCompleted06, BindSend06
      <4>3. Sending(t, pc[t].s, Head(Tail(ses[pc[t].s].out)))
        BY <2>0, <2>2, <3>3 DEF Sending
      <4>4. QED
        BY <3>1, <4>1, <4>2, <4>3, SendsPosted
    <3>4. QED
      BY <3>2, <3>3
  <2>3. CASE Rebinds(t)
    <3>1. pc[t].s \in Slots
      BY <2>0, <2>3, GotFacts DEF Rebinds, At
    <3>2. RecvPosts(pc[t].s) /\ \E ok \in BOOLEAN : WSARecv(pc[t].s, ok)
      BY <2>0, <2>3, <1>00 DEF RecvPosts, Rebinds
    <3>3. QED
      BY <3>1, <3>2, RecvsPosted
  <2>4. QED
    BY <1>0, <1>3, <2>1, <2>2, <2>3
       DEF WorkerWorks, Fetches, WorkerThread01, Reposts, PostToken, Queues, Frees, Activates, Unbinds, net
<1>4. CASE CloserWorks(t)
  <2>1. CASE Shuts(t)
    <3>1. pc[t].s \in Slots /\ ses[pc[t].s].sock \in {None} \cup Conns
      BY <1>4, CloserSlot, SesFacts
    <3>2. UNCHANGED conn \/ (ses[pc[t].s].sock # None /\ conn' = [conn EXCEPT ![ses[pc[t].s].sock].st = "closed"])
      BY <2>1 DEF Shuts, closesocket
    <3>3. QED
      BY <1>0, <1>01, <3>1, <3>2
  <2>2. QED
    BY <1>0, <1>4, <2>1 DEF CloserWorks, Ends, Blocks, Clears, net
<1>5. CASE PacketWorks(t)
  <2>0. t = "packet" /\ "packet" \in Threads
    BY <1>5, ThreadFacts DEF PacketWorks
  <2>1. CASE Answers
    <3>1. pc[t].s \in Slots /\ pc[t].ms \in Text /\ ver \notin OneBuffer
      BY <2>0, <2>1, AnswerText DEF Answers, OneBuffer
    <3>2. Sending(t, pc[t].s, pc[t].ms) /\ \E ok \in BOOLEAN : WSASend(pc[t].s, pc[t].ms, ok)
      BY <2>0, <2>1 DEF Sending, Answers
    <3>3. QED
      BY <3>1, <3>2, SendsPosted
  <2>2. CASE Lines
    <3>1. pc[t].s \in Slots /\ pc[t].ms \in Text /\ ver \notin OneBuffer /\ ses[pc[t].s].out \in Seq(Text)
      BY <2>0, <2>2, LineText DEF Lines, OneBuffer
    <3>2. CASE ses[pc[t].s].out # <<>>
      <4>1. Len(Append(ses[pc[t].s].out, pc[t].ms)) # 1
        BY <3>1, <3>2
      <4>2. UNCHANGED conn
        BY <2>0, <2>2, <4>1 DEF Lines, EnqueueSendData06
      <4>3. QED
        BY <1>0, <4>2
    <3>3. CASE ses[pc[t].s].out = <<>>
      <4>1. Len(Append(ses[pc[t].s].out, pc[t].ms)) = 1 /\ Head(Append(ses[pc[t].s].out, pc[t].ms)) = pc[t].ms
        BY <3>1, <3>3
      <4>2. \E ok \in BOOLEAN : WSASend(pc[t].s, pc[t].ms, ok)
        BY <2>0, <2>2, <4>1 DEF Lines, EnqueueSendData06, BindSend06
      <4>3. Sending(t, pc[t].s, pc[t].ms)
        BY <2>0, <2>2, <3>3 DEF Sending
      <4>4. QED
        BY <3>1, <4>2, <4>3, SendsPosted
    <3>4. QED
      BY <3>2, <3>3
  <2>3. QED
    BY <1>0, <1>5, <2>1, <2>2 DEF PacketWorks, Dequeues, Puts, net
<1>6. CASE SenderWorks(t)
  <2>1. CASE (\E told \in BOOLEAN : Posts(told)) \/ Fails
    <3>1. pc["sender"].s \in Slots /\ ses[pc["sender"].s].out \in Text /\ ver \notin OneBuffer /\ "sender" \in Threads
      BY <2>1, SendSlot, ThreadFacts DEF Posts, Fails, SendsAt, OneBuffer
    <3>2. CASE \E told \in BOOLEAN : Posts(told)
      <4>1. Sending("sender", pc["sender"].s, ses[pc["sender"].s].out)
            /\ WSASend(pc["sender"].s, ses[pc["sender"].s].out, TRUE)
        BY <3>2 DEF Sending, Posts
      <4>2. QED
        BY <1>00, <3>1, <4>1, SendsPosted
    <3>3. CASE Fails
      <4>1. WSASend(pc["sender"].s, ses[pc["sender"].s].out, FALSE)
        BY <3>3 DEF Fails
      <4>2. QED
        BY <1>00, <3>1, <4>1, SendsPosted
    <3>4. QED
      BY <2>1, <3>2, <3>3
  <2>2. QED
    BY <1>0, <1>6, <2>1 DEF SenderWorks, Finds, Claims, Checks, Advances, net
<1>7. QED
  BY <1>1, <1>2, <1>3, <1>4, <1>5, <1>6 DEF Acts, Works

(* Which steps post and complete receives and sends.                       *)
LEMMA IoMove ==
    ASSUME TypeOK, Known
    PROVE  RecvsMoves /\ SendsMoves
<1>1. ASSUME NEW t \in Threads, Acts(t)
      PROVE  RecvsMoves /\ SendsMoves
  BY <1>1, IoActs
<1>2. UNCHANGED conn => RecvsMoves /\ SendsMoves
  BY DEF RecvsMoves, SendsMoves, RecvsStay, SendsStay
<1>3. \A c \in Conns : \A x : conn' = [conn EXCEPT ![c].st = x] => RecvsMoves /\ SendsMoves
  BY IoSet DEF RecvsMoves, SendsMoves
<1>4. ASSUME NEW c \in Conns, Say(c) \/ Sent(c) \/ Abort(c)
      PROVE  RecvsMoves /\ SendsMoves
  <2>0. PICK e \in Completion : Arrives(c, e)
    BY <1>4, EnvDone
  <2>1. /\ \/ /\ conn[c].recvs # <<>> /\ (Say(c) \/ Abort(c))
              /\ conn'[c].recvs = Tail(conn[c].recvs) /\ conn'[c].sends = conn[c].sends
           \/ /\ conn[c].sends # <<>> /\ (Sent(c) \/ Abort(c))
              /\ conn'[c].sends = Tail(conn[c].sends) /\ conn'[c].recvs = conn[c].recvs
        /\ \A d \in Conns : d # c => conn'[d] = conn[d]
    BY <2>0 DEF Arrives
  <2>4. \A d \in Conns : d # c => conn'[d] = conn[d]
    BY <2>0 DEF Arrives
  <2>2. CASE /\ conn[c].recvs # <<>> /\ (Say(c) \/ Abort(c))
             /\ conn'[c].recvs = Tail(conn[c].recvs) /\ conn'[c].sends = conn[c].sends
    <3>1. SendsStay
      BY <2>1, <2>2 DEF SendsStay
    <3>2. Shrinks(AllSlots, RecvsOf, RecvsOf', c)
      <4>1. DOMAIN RecvsOf = Conns /\ DOMAIN RecvsOf' = Conns /\ \A d \in Conns : RecvsOf[d] \in Seq(AllSlots)
        BY IoFamilies
      <4>2. RecvsOf'[c] = Tail(RecvsOf[c]) /\ RecvsOf[c] # <<>>
        BY <2>2, IoFamilies
      <4>3. \A d \in Conns : conn'[d].recvs = RecvsOf'[d] /\ conn[d].recvs = RecvsOf[d]
        BY IoFamilies
      <4>4. \A d \in Conns : d # c => RecvsOf'[d] = RecvsOf[d]
        BY <2>4, <4>3
      <4>5. QED
        BY <4>1, <4>2, <4>4 DEF Shrinks, Families
    <3>3. QED
      BY <2>2, <3>1, <3>2 DEF RecvsMoves, SendsMoves
  <2>3. CASE /\ conn[c].sends # <<>> /\ (Sent(c) \/ Abort(c))
             /\ conn'[c].sends = Tail(conn[c].sends) /\ conn'[c].recvs = conn[c].recvs
    <3>1. RecvsStay
      BY <2>1, <2>3 DEF RecvsStay
    <3>2. Shrinks(Op, SendsOf, SendsOf', c)
      <4>1. DOMAIN SendsOf = Conns /\ DOMAIN SendsOf' = Conns /\ \A d \in Conns : SendsOf[d] \in Seq(Op)
        BY IoFamilies
      <4>2. SendsOf'[c] = Tail(SendsOf[c]) /\ SendsOf[c] # <<>>
        BY <2>3, IoFamilies
      <4>3. \A d \in Conns : conn'[d].sends = SendsOf'[d] /\ conn[d].sends = SendsOf[d]
        BY IoFamilies
      <4>4. \A d \in Conns : d # c => SendsOf'[d] = SendsOf[d]
        BY <2>4, <4>3
      <4>5. QED
        BY <4>1, <4>2, <4>4 DEF Shrinks, Families
    <3>3. QED
      BY <2>3, <3>1, <3>2 DEF RecvsMoves, SendsMoves
  <2>5. QED
    BY <2>1, <2>2, <2>3
<1>5. ASSUME NEW c \in Conns, Connect(c) \/ Quit(c)
      PROVE  RecvsMoves /\ SendsMoves
  <2>1. \E x : conn' = [conn EXCEPT ![c].st = x]
    BY <1>5 DEF Connect, Quit
  <2>2. QED
    BY <1>3, <2>1
<1>6. ASSUME KernelRefuses \/ \E s \in Slots : KernelAccepts(s)
      PROVE  RecvsMoves /\ SendsMoves
  <2>1. Waiting # {} /\ \E x : conn' = [conn EXCEPT ![Caller].st = x]
    BY <1>6 DEF KernelRefuses, KernelAccepts, Accepted, AcceptFailed
  <2>2. QED
    BY <1>3, <2>1, CallerFacts
<1>7. CASE Manages \/ \E s \in Slots : Elapse(s)
  BY <1>2, <1>7 DEF Manages, Elapse, net
<1>8. QED
  BY <1>1, <1>4, <1>5, <1>6, <1>7 DEF Known

(* What a thread works for, and the text it holds, after a step.           *)
LocalsMove(t) ==
  \/ pc'[t].s = pc[t].s /\ pc'[t].ms = pc[t].ms
  \/ pc'[t].ms = <<>> /\ pc'[t].s \in {None, pc[t].s}
  \/ t \in Workers /\ Fetches(t) /\ port # <<>> /\ pc'[t].s = Head(port).s /\ pc'[t].ms = Head(port).ms
  \/ t = "packet" /\ Dequeues /\ pc'[t].s = Head(deque).s /\ pc'[t].ms = Head(deque).ms
  \/ t = "sender" /\ pc'[t].ms = <<>> /\ \E s \in Slots : Finds(s) /\ pc'[t].s = s
  \/ t = "accepter" /\ pc'[t].ms = <<>> /\ \E s \in Slots : Chooses(s) /\ pc'[t].s = s
  \/ t = "sender" /\ pc'[t].s = pc[t].s /\ pc'[t].ms = ses[pc[t].s].out /\ \E told \in BOOLEAN : Posts(told)

(* Where the words a thread holds come from.                               *)
LEMMA LocalsGo ==
    ASSUME TypeOK, Known, NEW t \in Threads \ {"main"}
    PROVE  LocalsMove(t)
<1>0. /\ Rests(t) => pc'[t].s = None /\ pc'[t].ms = <<>>
      /\ \A l : Stays(t, l) => pc'[t].s = pc[t].s /\ pc'[t].ms = <<>>
      /\ \A r : Becomes(t, r) => pc'[t] = r
  BY PcAfter
<1>a. (Rests(t) \/ \E l : Stays(t, l)) => LocalsMove(t)
  BY <1>0 DEF LocalsMove
<1>1. CASE Acts(t)
  <2>1. CASE Leaves(t)
    BY <1>a, <2>1 DEF Leaves
  <2>2. CASE AccepterWorks(t)
    <3>1. ASSUME NEW s \in Slots, Chooses(s)
          PROVE  LocalsMove(t)
      <4>1. t = "accepter"
        BY <2>2 DEF AccepterWorks
      <4>2. pc'[t] = [Local("accept") EXCEPT !.s = s]
        BY <1>0, <3>1, <4>1 DEF Chooses
      <4>3. pc'[t].s = s /\ pc'[t].ms = <<>>
        BY <4>2 DEF Local
      <4>4. QED
        BY <3>1, <4>1, <4>3 DEF LocalsMove
    <3>2. QED
      BY <1>a, <2>2, <3>1 DEF AccepterWorks, Refuses, Accepts, Binds, Offers, LocalsMove
  <2>3. CASE WorkerWorks(t)
    <3>0. t \in Workers
      BY <2>3 DEF WorkerWorks
    <3>1. CASE Fetches(t)
      BY <3>0, <3>1, FetchGoes DEF LocalsMove
    <3>2. CASE Reposts(t)
      BY <3>0, <3>2, RepostGoes DEF LocalsMove
    <3>3. CASE Pops(t)
      <4>1. Rests(t)
        BY <3>0, <3>3, RestIs DEF Pops, SendCompleted06
      <4>2. QED
        BY <1>a, <4>1
    <3>4. CASE Unbinds(t)
      <4>1. pc'[t] = [pc[t] EXCEPT !.at = "close"] /\ pc[t] \in PcRec
        BY <1>0, <3>4, PcFacts DEF Unbinds
      <4>2. pc'[t].s = pc[t].s /\ pc'[t].ms = pc[t].ms
        BY <4>1 DEF PcRec
      <4>3. QED
        BY <4>2 DEF LocalsMove
    <3>5. QED
      BY <1>a, <2>3, <3>1, <3>2, <3>3, <3>4 DEF WorkerWorks, Echoes, Queues, Frees, Activates, Rebinds
  <2>4. CASE CloserWorks(t)
    BY <1>a, <2>4 DEF CloserWorks, Ends, Blocks, Shuts, Clears
  <2>5. CASE PacketWorks(t)
    <3>0. t = "packet"
      BY <2>5 DEF PacketWorks
    <3>1. CASE Dequeues
      <4>1. CASE Becomes("packet", [Local("send") EXCEPT !.s = Head(deque).s, !.ms = Head(deque).ms])
        <5>1. pc'[t] = [Local("send") EXCEPT !.s = Head(deque).s, !.ms = Head(deque).ms]
          BY <1>0, <3>0, <4>1
        <5>2. pc'[t].s = Head(deque).s /\ pc'[t].ms = Head(deque).ms
          BY <5>1 DEF Local
        <5>3. QED
          BY <3>0, <3>1, <5>2 DEF LocalsMove
      <4>2. CASE Becomes("packet", Local("send"))
        <5>1. pc'[t].s = None /\ pc'[t].ms = <<>>
          BY <1>0, <3>0, <4>2, LocalIs
        <5>2. QED
          BY <5>1 DEF LocalsMove
      <4>3. QED
        BY <3>1, <4>1, <4>2 DEF Dequeues, LocalsMove
    <3>2. QED
      BY <1>a, <2>5, <3>0, <3>1 DEF PacketWorks, Answers, Puts, Lines
  <2>6. CASE SenderWorks(t)
    <3>0. t = "sender"
      BY <2>6 DEF SenderWorks
    <3>1. ASSUME NEW s \in Slots, Finds(s)
          PROVE  LocalsMove(t)
      <4>1. pc'[t] = [Local("cas") EXCEPT !.s = s]
        BY <1>0, <3>0, <3>1 DEF Finds
      <4>2. pc'[t].s = s /\ pc'[t].ms = <<>>
        BY <4>1 DEF Local
      <4>3. QED
        BY <3>0, <3>1, <4>2 DEF LocalsMove
    <3>2. ASSUME NEW told \in BOOLEAN, Posts(told)
          PROVE  LocalsMove(t)
      BY <3>0, <3>2, PostGoes DEF LocalsMove
    <3>3. QED
      BY <1>a, <2>6, <3>0, <3>1, <3>2 DEF SenderWorks, Claims, Checks, Fails, Advances
  <2>7. QED
    BY <1>1, <2>1, <2>2, <2>3, <2>4, <2>5, <2>6 DEF Acts, Works
<1>2. CASE pc'[t] = pc[t]
  BY <1>2 DEF LocalsMove
<1>3. CASE ~Acts(t) /\ pc'[t] # pc[t]
  <2>1. pc'[t].s = None /\ pc'[t].ms = <<>>
    BY <1>3, PcMove
  <2>2. QED
    BY <2>1 DEF LocalsMove
<1>4. QED
  BY <1>1, <1>2, <1>3

(* Where what is queued or pending after a step comes from.                *)
LEMMA AppendOne ==
    ASSUME NEW S, NEW q \in Seq(S), NEW e \in S, NEW p, p = Append(q, e), NEW i \in DOMAIN p
    PROVE  p[i] = e \/ \E j \in DOMAIN q : p[i] = q[j]
<1>1. DOMAIN p = 1..(Len(q) + 1) /\ Len(q) \in Nat /\ DOMAIN q = 1..Len(q) /\ p[Len(q) + 1] = e
      /\ \A k \in 1..Len(q) : p[k] = q[k]
  BY SeqAppend
<1>2. QED
  BY <1>1
LEMMA TailOne ==
    ASSUME NEW S, NEW q \in Seq(S), q # <<>>, NEW i \in DOMAIN Tail(q)
    PROVE  \E j \in DOMAIN q : Tail(q)[i] = q[j]
<1>1. DOMAIN Tail(q) = 1..(Len(q) - 1) /\ Len(q) \in Nat /\ DOMAIN q = 1..Len(q)
      /\ \A k \in 1..(Len(q) - 1) : Tail(q)[k] = q[k + 1]
  BY SeqTail
<1>2. i + 1 \in DOMAIN q /\ Tail(q)[i] = q[i + 1]
  BY <1>1
<1>3. QED
  BY <1>2

(* Where what is in a queue comes from.                                    *)
LEMMA PortComes ==
    ASSUME TypeOK, Known, NEW i \in DOMAIN port', NEW s \in Slots, port'[i].s = s
    PROVE  \/ \E j \in DOMAIN port : port'[i] = port[j]
           \/ KernelAccepts(s) /\ port'[i].ms = <<>>
           \/ \E c \in Conns : Arrives(c, port'[i]) /\ port'[i] \in Completion /\ (Say(c) \/ Sent(c) \/ Abort(c))
<1>1. port \in Seq(Completion) /\ s # None /\ s \in AllSlots
  BY SlotFacts DEF TypeOK, PortOK
<1>2. ASSUME NEW e \in Completion, port' = Append(port, e), e.s = s => e.s = s
      PROVE  port'[i] = e \/ \E j \in DOMAIN port : port'[i] = port[j]
  BY <1>1, <1>2, AppendOne
<1>3. CASE port' = port
  BY <1>3
<1>4. CASE port' = Append(port, Token)
  <2>1. Token \in Completion /\ Token.s = None
    BY DEF Token, Done, Completion, Text
  <2>2. QED
    BY <1>1, <1>2, <1>4, <2>1
<1>5. ASSUME NEW c \in Conns, Say(c) \/ Sent(c) \/ Abort(c)
      PROVE  \/ \E j \in DOMAIN port : port'[i] = port[j]
             \/ Arrives(c, port'[i]) /\ port'[i] \in Completion
  <2>1. PICK e \in Completion : Arrives(c, e)
    BY <1>5, EnvDone
  <2>2. port' = Append(port, e)
    BY <2>1 DEF Arrives
  <2>3. QED
    BY <1>2, <2>1, <2>2
<1>6. CASE KernelRefuses
  <2>1. Done("accept", None, FALSE, <<>>) \in Completion /\ Done("accept", None, FALSE, <<>>).s = None
    BY DEF Done, Completion, Text
  <2>2. QED
    BY <1>1, <1>2, <1>3, <1>6, <2>1 DEF KernelRefuses
<1>7. ASSUME NEW r \in Slots, KernelAccepts(r)
      PROVE  \/ \E j \in DOMAIN port : port'[i] = port[j]
             \/ KernelAccepts(s) /\ port'[i].ms = <<>>
  <2> DEFINE e == Done("accept", r, TRUE, <<>>)
  <2>1. e \in Completion /\ e.s = r /\ e.ms = <<>>
    BY SlotFacts DEF Done, Completion, Text
  <2>2. port' \in {port, Append(port, e)}
    BY <1>7 DEF KernelAccepts
  <2> HIDE DEF e
  <2>3. CASE port' = Append(port, e)
    <3>1. port'[i] = e \/ \E j \in DOMAIN port : port'[i] = port[j]
      BY <1>1, <2>1, <2>3, AppendOne
    <3>2. QED
      BY <1>7, <2>1, <3>1
  <2>4. QED
    BY <1>3, <2>2, <2>3
<1>8. ASSUME NEW w \in Workers, Fetches(w)
      PROVE  \E j \in DOMAIN port : port'[i] = port[j]
  <2>1. port # <<>> /\ port' = Tail(port)
    BY <1>8, FetchGoes
  <2>2. QED
    BY <1>1, <2>1, TailOne
<1>9. QED
  BY <1>3, <1>4, <1>5, <1>6, <1>7, <1>8, PortMove DEF PortMoves

LEMMA DequeComes ==
    ASSUME TypeOK, Known, NEW i \in DOMAIN deque'
    PROVE  \/ \E j \in DOMAIN deque : deque'[i] = deque[j]
           \/ \E t \in Threads : /\ deque'[i].s = pc[t].s
                                 /\ deque'[i].ms = <<>> \/ (t \in Workers /\ Queues(t) /\ deque'[i].ms = pc[t].ms)
<1>1. deque \in Seq(Op)
  BY DEF TypeOK, QueuesOK, Op
<1>2. ASSUME NEW t \in Threads, NEW ms \in Text, pc[t].s \in Slots, deque' = Append(deque, [s |-> pc[t].s, ms |-> ms])
      PROVE  deque'[i] = [s |-> pc[t].s, ms |-> ms] \/ \E j \in DOMAIN deque : deque'[i] = deque[j]
  <2>1. [s |-> pc[t].s, ms |-> ms] \in Op
    BY <1>2, SlotFacts DEF Op
  <2>2. QED
    BY <1>1, <1>2, <2>1, AppendOne
<1>3. CASE UNCHANGED deque
  BY <1>3
<1>4. <<>> \in Text
  BY DEF Text
<1>5. ASSUME NEW w \in Workers, Queues(w)
      PROVE  \/ \E j \in DOMAIN deque : deque'[i] = deque[j]
             \/ deque'[i].s = pc[w].s /\ deque'[i].ms = pc[w].ms
  <2>1. pc[w].s \in Slots /\ pc[w].ms \in Text /\ w \in Threads
    BY <1>5, GotFacts DEF Queues, At
  <2>2. QED
    BY <1>2, <1>5, <2>1 DEF Queues
<1>6. ASSUME NEW t \in Threads, pc[t].s \in Slots,
             deque' \in {deque, Append(deque, [s |-> pc[t].s, ms |-> <<>>])}
      PROVE  \/ \E j \in DOMAIN deque : deque'[i] = deque[j]
             \/ deque'[i].s = pc[t].s /\ deque'[i].ms = <<>>
  BY <1>2, <1>4, <1>6
<1>7. ASSUME NEW w \in Workers, Activates(w)
      PROVE  \/ \E j \in DOMAIN deque : deque'[i] = deque[j]
             \/ deque'[i].s = pc[w].s /\ deque'[i].ms = <<>>
  <2>1. pc[w].s \in Slots /\ w \in Threads
    BY <1>7, GotFacts DEF Activates, At
  <2>2. QED
    BY <1>6, <1>7, <2>1 DEF Activates
<1>8. ASSUME NEW t, CloserWorks(t)
      PROVE  \/ \E j \in DOMAIN deque : deque'[i] = deque[j]
             \/ t \in Threads /\ deque'[i].s = pc[t].s /\ deque'[i].ms = <<>>
  <2>1. pc[t].s \in Slots /\ t \in Threads
    BY <1>8, CloserSlot
  <2>2. CASE Ends(t) \/ Blocks(t)
    BY <1>6, <2>1, <2>2 DEF Ends, Blocks
  <2>3. QED
    BY <1>3, <1>8, <2>2 DEF CloserWorks, Shuts, Clears, mem
<1>9. CASE Dequeues
  <2>1. deque # <<>> /\ deque' = Tail(deque)
    BY <1>9 DEF Dequeues
  <2>2. QED
    BY <1>1, <2>1, TailOne
<1>10. ASSUME NEW t \in Threads, Acts(t)
       PROVE  \/ \E j \in DOMAIN deque : deque'[i] = deque[j]
              \/ \E u \in Threads : /\ deque'[i].s = pc[u].s
                                    /\ deque'[i].ms = <<>> \/ (u \in Workers /\ Queues(u) /\ deque'[i].ms = pc[u].ms)
  <2>1. CASE Leaves(t)
    BY <1>3, <2>1 DEF Leaves, mem
  <2>2. CASE AccepterWorks(t)
    BY <1>3, <2>2 DEF AccepterWorks, Refuses, Chooses, Accepts, Binds, Offers, mem
  <2>3. CASE WorkerWorks(t)
    <3>1. t \in Workers
      BY <2>3 DEF WorkerWorks
    <3>2. CASE Queues(t)
      BY <1>5, <3>1, <3>2
    <3>3. CASE Activates(t)
      BY <1>7, <3>1, <3>3
    <3>4. CASE UNCHANGED deque
      BY <3>4
    <3>5. QED
      BY <2>3, <3>2, <3>3, <3>4 DEF WorkerWorks, Fetches, WorkerThread01, Reposts, PostToken, Echoes, Frees, Pops,
                                   SendCompleted06, Unbinds, Rebinds, mem
  <2>4. CASE CloserWorks(t)
    BY <1>8, <2>4
  <2>5. CASE PacketWorks(t)
    BY <1>3, <1>9, <2>5 DEF PacketWorks, Answers, Puts, Lines, mem
  <2>6. CASE SenderWorks(t)
    BY <1>3, <2>6 DEF SenderWorks, Finds, Claims, Checks, Posts, Fails, Advances, mem
  <2>7. QED
    BY <1>10, <2>1, <2>2, <2>3, <2>4, <2>5, <2>6 DEF Acts, Works
<1>11. QED
  BY <1>3, <1>10 DEF Known, Connect, Say, Quit, Sent, Abort, KernelRefuses, KernelAccepts, Elapse, Manages, mem

LEMMA RecvComes ==
    ASSUME TypeOK, Known, NEW c \in Conns, NEW i \in DOMAIN conn'[c].recvs
    PROVE  \/ \E j \in DOMAIN conn[c].recvs : conn'[c].recvs[i] = conn[c].recvs[j]
           \/ \E s \in Slots : s = conn'[c].recvs[i] /\ RecvPosts(s) /\ Live(s) /\ c = ses[s].sock
<1>1. conn[c].recvs \in Seq(AllSlots) /\ RecvsOf[c] = conn[c].recvs /\ RecvsOf'[c] = conn'[c].recvs /\ c \in DOMAIN RecvsOf
  BY IoFamilies
<1>2. CASE conn'[c].recvs = conn[c].recvs
  BY <1>2
<1>3. ASSUME NEW d \in Conns, Shrinks(AllSlots, RecvsOf, RecvsOf', d)
      PROVE  \E j \in DOMAIN conn[c].recvs : conn'[c].recvs[i] = conn[c].recvs[j]
  <2>1. CASE c = d
    <3>1. conn[c].recvs # <<>> /\ conn'[c].recvs = Tail(conn[c].recvs)
      BY <1>1, <1>3, <2>1 DEF Shrinks
    <3>2. QED
      BY <1>1, <3>1, TailOne
  <2>2. CASE c # d
    BY <1>1, <1>2, <1>3, <2>2 DEF Shrinks, Families
  <2>3. QED
    BY <2>1, <2>2
<1>4. ASSUME NEW s \in Slots, RecvPosts(s), Live(s), Extends(AllSlots, RecvsOf, RecvsOf', ses[s].sock, s)
      PROVE  \/ \E j \in DOMAIN conn[c].recvs : conn'[c].recvs[i] = conn[c].recvs[j]
             \/ s = conn'[c].recvs[i] /\ RecvPosts(s) /\ Live(s) /\ c = ses[s].sock
  <2>1. CASE c = ses[s].sock
    <3>1. conn'[c].recvs = Append(conn[c].recvs, s)
      BY <1>1, <1>4, <2>1 DEF Extends
    <3>2. conn'[c].recvs[i] = s \/ \E j \in DOMAIN conn[c].recvs : conn'[c].recvs[i] = conn[c].recvs[j]
      BY <1>1, <3>1, SlotFacts, AppendOne
    <3>3. QED
      BY <1>4, <2>1, <3>2
  <2>2. CASE c # ses[s].sock
    BY <1>1, <1>2, <1>4, <2>2 DEF Extends, Families
  <2>3. QED
    BY <2>1, <2>2
<1>5. CASE RecvsStay
  BY <1>2, <1>5 DEF RecvsStay
<1>6. QED
  BY <1>3, <1>4, <1>5, IoMove DEF RecvsMoves

LEMMA SendComes ==
    ASSUME TypeOK, Known, NEW c \in Conns, NEW i \in DOMAIN conn'[c].sends
    PROVE  \/ \E j \in DOMAIN conn[c].sends : conn'[c].sends[i] = conn[c].sends[j]
           \/ \E t \in Threads : \E s \in Slots : \E ms \in Text :
                /\ Sending(t, s, ms) /\ conn'[c].sends[i].s = s /\ conn'[c].sends[i].ms = ms
                /\ \/ Live(s) /\ c = ses[s].sock
                   \/ ver \in OneBuffer /\ \E j \in DOMAIN conn[c].sends : conn[c].sends[j].s = s
<1>1. conn[c].sends \in Seq(Op) /\ SendsOf[c] = conn[c].sends /\ SendsOf'[c] = conn'[c].sends /\ c \in DOMAIN SendsOf
  BY IoFamilies
<1>2. CASE conn'[c].sends = conn[c].sends
  BY <1>2
<1>3. ASSUME NEW d \in Conns, Shrinks(Op, SendsOf, SendsOf', d)
      PROVE  \E j \in DOMAIN conn[c].sends : conn'[c].sends[i] = conn[c].sends[j]
  <2>1. CASE c = d
    <3>1. conn[c].sends # <<>> /\ conn'[c].sends = Tail(conn[c].sends)
      BY <1>1, <1>3, <2>1 DEF Shrinks
    <3>2. QED
      BY <1>1, <3>1, TailOne
  <2>2. CASE c # d
    BY <1>1, <1>2, <1>3, <2>2 DEF Shrinks, Families
  <2>3. QED
    BY <2>1, <2>2
<1>4. ASSUME NEW t \in Threads, NEW s \in Slots, NEW ms \in Text, Sending(t, s, ms),
             \/ SendsOf' = Base(s, ms)
             \/ Live(s) /\ Extends(Op, Base(s, ms), SendsOf', ses[s].sock, [s |-> s, ms |-> ms])
      PROVE  \/ \E j \in DOMAIN conn[c].sends : conn'[c].sends[i] = conn[c].sends[j]
             \/ /\ conn'[c].sends[i].s = s /\ conn'[c].sends[i].ms = ms
                /\ \/ Live(s) /\ c = ses[s].sock
                   \/ ver \in OneBuffer /\ \E j \in DOMAIN conn[c].sends : conn[c].sends[j].s = s
  <2> DEFINE b == Base(s, ms)[c]
  <2> DEFINE x == [s |-> s, ms |-> ms]
  <2>0. x.s = s /\ x.ms = ms /\ x \in Op
    BY SlotFacts DEF Op
  <2>1. b \in Seq(Op) /\ DOMAIN b = DOMAIN conn[c].sends
        /\ \A j \in DOMAIN b : \/ b[j] = conn[c].sends[j]
                               \/ ver \in OneBuffer /\ conn[c].sends[j].s = s /\ b[j].s = s /\ b[j].ms = ms
    <3>1. CASE ver \in OneBuffer
      <4>1. b = Over(conn[c].sends, s, ms)
        BY <3>1 DEF Base
      <4>2. b \in Seq(Op) /\ DOMAIN b = DOMAIN conn[c].sends
        BY <1>1, <4>1, OverSeq
      <4>3. \A j \in DOMAIN conn[c].sends : b[j] = IF conn[c].sends[j].s = s THEN [conn[c].sends[j] EXCEPT !.ms = ms]
                                                   ELSE conn[c].sends[j]
        BY <4>1 DEF Over
      <4>4. \A j \in DOMAIN conn[c].sends : conn[c].sends[j] \in Op
        BY <1>1
      <4>5. ASSUME NEW j \in DOMAIN conn[c].sends
            PROVE  b[j] = conn[c].sends[j] \/ (conn[c].sends[j].s = s /\ b[j].s = s /\ b[j].ms = ms)
        <5>1. conn[c].sends[j] \in Op
          BY <4>4
        <5>2. QED
          BY <4>3, <5>1 DEF Op
      <4>6. QED
        BY <3>1, <4>2, <4>5
    <3>2. CASE ver \notin OneBuffer
      BY <1>1, <3>2 DEF Base
    <3>3. QED
      BY <3>1, <3>2
  <2> HIDE DEF b
  <2> HIDE DEF x
  <2>2. CASE conn'[c].sends = b
    BY <2>1, <2>2
  <2>3. CASE Live(s) /\ c = ses[s].sock /\ conn'[c].sends = Append(b, x)
    <3>1. conn'[c].sends[i] = x \/ \E j \in DOMAIN b : conn'[c].sends[i] = b[j]
      BY <2>0, <2>1, <2>3, AppendOne
    <3>2. QED
      BY <2>0, <2>1, <2>3, <3>1
  <2>4. SendsOf' = Base(s, ms) => conn'[c].sends = b
    BY <1>1 DEF b
  <2>5. ASSUME Live(s), Extends(Op, Base(s, ms), SendsOf', ses[s].sock, [s |-> s, ms |-> ms])
        PROVE  conn'[c].sends = b \/ (c = ses[s].sock /\ conn'[c].sends = Append(b, x))
    <3>1. DOMAIN SendsOf' = DOMAIN Base(s, ms) /\ DOMAIN SendsOf' = Conns
      BY <2>5, IoFamilies DEF Extends, Families
    <3>2. QED
      BY <1>1, <2>5, <3>1 DEF Extends, Families, b, x
  <2>6. QED
    BY <1>4, <2>2, <2>3, <2>4, <2>5
<1>5. CASE SendsStay
  BY <1>2, <1>5 DEF SendsStay
<1>6. QED
  BY <1>3, <1>4, <1>5, IoMove DEF SendsMoves
=============================================================================
