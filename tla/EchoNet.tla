------------------------------- MODULE EchoNet -------------------------------
(***************************************************************************)
(* What the echo servers Practice01 to Practice07_Refactor have in common: *)
(* their clients, Winsock and the completion port as the servers use them, *)
(* a pool of sessions, and threads that each take one small step at a      *)
(* time.  Every practice is a module of its own over these variables.      *)
(*                                                                         *)
(* A message is what one receive returns: [c, n], the n-th message of      *)
(* client c.  Stale is what a receive buffer holds that nobody received.   *)
(***************************************************************************)
EXTENDS Integers, Sequences, FiniteSets, Functions

CONSTANTS
  NumSlots,  \* the most sessions in the pool (bounds the model)
  NumConns,  \* clients, each connects once (bounds the model)
  Workers,   \* worker threads
  MaxMsgs    \* messages of all clients together (bounds the model)

ASSUME EchoConstants ==
  /\ NumSlots \in Nat \ {0} /\ NumConns \in Nat \ {0} /\ MaxMsgs \in Nat
  /\ Workers \cap {"main", "accepter", "sender", "packet", "redis", "kernel"} = {}

None    == 0
Conns   == 1..NumConns
Threads == Workers \cup {"main", "accepter", "sender", "packet", "redis"}
Stale   == [c |-> None, n |-> 0]

VARIABLES
  kind,   \* how the clients behave: "pingpong", "patient" or "any" (never changes)
  late,   \* how many sends may still be pending when WSASend returns (bounds the model)
  marks,  \* history: what has happened, see the operators that add to it
  conn,   \* client -> [st, said, heard, recvs, sends]: its connection and the I/O posted on it
  accepts,\* sessions with an AcceptEx pending, in the order posted
  port,   \* the completion port's queue
  pc,     \* thread -> [at, s, op, ms]: the step it is at and its locals
  on,     \* the boolean fields that are true, and "listen": the listening socket listens
  ses,    \* the pool: slot -> [sock, active, sending, out, typed, closed]
  ex,     \* slot -> its OverlappedEx whose op_type_ is set, and "unbound": its socket is not on the port
  deque   \* packet_deque_: [s, ms]

net  == <<conn, accepts, port>>
mem  == <<ses, deque>>
hist == <<late, marks>>
vars == <<kind, net, mem, hist, pc, on, ex>>

Slots == DOMAIN ses

Local(l) == [at |-> l, s |-> None, op |-> "", ms |-> <<>>]
At(t, l) == pc[t].at = l
Go(t, l) == pc' = [pc EXCEPT ![t] = [Local(l) EXCEPT !.s = pc[t].s]]
Enter(t, l) == pc' = [pc EXCEPT ![t] = Local(l)]

FirstStep(t) == CASE t \in Workers   -> "wait"
                  [] t = "accepter" -> "get"
                  [] t = "sender"   -> "scan"
                  [] OTHER          -> "take"

(* The end of a turn of a thread's loop.  A worker reads is_worker_running_ *)
(* before it blocks in GetQueuedCompletionStatus; the others when they      *)
(* begin their next turn.                                                   *)
Rest(t) == Enter(t, IF t \in Workers /\ "worker" \notin on THEN "ended" ELSE FirstStep(t))

Init ==
  /\ kind \in {"pingpong", "patient", "any"}
  /\ late \in {0, 1}
  /\ marks = {}
  /\ conn = [c \in Conns |-> [st |-> "idle", said |-> 0, heard |-> <<>>,
                              recvs |-> <<>>, sends |-> <<>>]]
  /\ accepts = <<>> /\ port = <<>> /\ deque = <<>>
  /\ pc = [t \in Threads |-> Local(IF t = "main" THEN "init" ELSE "off")]
  /\ on = {"worker", "accepter", "sender"}
  /\ \E n \in 1..NumSlots :
       ses = [s \in 1..n |-> [sock |-> None, active |-> FALSE, sending |-> FALSE,
                              out |-> <<>>, typed |-> FALSE, closed |-> "long ago"]]
  /\ ex = [s \in Slots |-> {}]

-----------------------------------------------------------------------------
(* Clients and the kernel.  A client that is "patient" leaves only when    *)
(* all it said has come back; a "pingpong" client also says one thing at a *)
(* time.                                                                   *)

Done(op, s, ok, ms) == [op |-> op, s |-> s, ok |-> ok, ms |-> ms]
Token == Done("end", None, TRUE, <<>>)

AllSaid == SumFunctionOnSet([c \in Conns |-> conn[c].said], Conns)

Connect(c) ==
  /\ "listen" \in on /\ conn[c].st = "idle" /\ (c > 1 => conn[c - 1].st # "idle")
  /\ conn' = [conn EXCEPT ![c].st = "backlog"]
  /\ UNCHANGED <<accepts, port, mem, hist, pc, on>>

Say(c) ==
  /\ conn[c].st = "open" /\ conn[c].recvs # <<>> /\ AllSaid < MaxMsgs
  /\ kind = "pingpong" => Len(conn[c].heard) >= conn[c].said
  /\ conn' = [conn EXCEPT ![c].said = @ + 1, ![c].recvs = Tail(@)]
  /\ port' = Append(port, Done("recv", Head(conn[c].recvs), TRUE, <<[c |-> c, n |-> conn[c].said + 1]>>))
  /\ UNCHANGED <<accepts, mem, hist, pc, on>>

(* A client that leaves before it is accepted is what accept() fails on.    *)
Quit(c) ==
  /\ \/ /\ conn[c].st = "open"
        /\ kind # "any" => Len(conn[c].heard) >= conn[c].said
        /\ conn' = [conn EXCEPT ![c].st = "gone"]
     \/ /\ conn[c].st = "backlog" /\ kind = "any"
        /\ conn' = [conn EXCEPT ![c].st = "reset"]
  /\ UNCHANGED <<accepts, port, mem, hist, pc, on>>

(* A send of no bytes completes with io_size 0, like a connection's end.   *)
Sent(c) ==
  /\ conn[c].st = "open" /\ conn[c].sends # <<>>
  /\ LET e == Head(conn[c].sends) IN
       /\ conn' = [conn EXCEPT ![c].heard = @ \o e.ms, ![c].sends = Tail(@)]
       /\ port' = Append(port, Done("send", e.s, e.ms # <<>>, e.ms))
  /\ UNCHANGED <<accepts, mem, hist, pc, on>>

Abort(c) ==
  /\ conn[c].st \in {"gone", "closed"}
  /\ \/ /\ conn[c].recvs # <<>>
        /\ conn' = [conn EXCEPT ![c].recvs = Tail(@)]
        /\ port' = Append(port, Done("recv", Head(conn[c].recvs), FALSE, <<>>))
     \/ /\ conn[c].sends # <<>>
        /\ conn' = [conn EXCEPT ![c].sends = Tail(@)]
        /\ port' = Append(port, LET e == Head(conn[c].sends) IN Done("send", e.s, FALSE, e.ms))
  /\ UNCHANGED <<accepts, mem, hist, pc, on>>

Waiting  == {c \in Conns : conn[c].st \in {"backlog", "reset"}}
First(S) == CHOOSE x \in S : \A y \in S : x <= y
Caller   == First(Waiting)

-----------------------------------------------------------------------------
(* The Winsock calls, as parts of a thread's step.                         *)

Stands(s) == ses[s].sock # None /\ conn[ses[s].sock].st = "open"
Live(s)   == ses[s].sock # None /\ conn[ses[s].sock].st \in {"open", "gone"}

(* A request on a connection its client has left may be refused at once;   *)
(* one on a socket that is closed, or on none, always is.                  *)
Taken(s, ok) == IF ok THEN Live(s) ELSE ~Stands(s)
WSARecv(s, ok) ==
  /\ Taken(s, ok)
  /\ conn' = IF ok THEN [conn EXCEPT ![ses[s].sock].recvs = Append(@, s)] ELSE conn
WSASend(s, ms, ok) ==
  /\ Taken(s, ok)
  /\ conn' = IF ok THEN [conn EXCEPT ![ses[s].sock].sends = Append(@, [s |-> s, ms |-> ms])]
             ELSE conn
closesocket(s) == conn' = IF ses[s].sock = None THEN conn
                          ELSE [conn EXCEPT ![ses[s].sock].st = "closed"]

(* Something of an earlier connection of the session is still under way: a *)
(* thread other than t works on it, an operation is pending or its         *)
(* completion queued, a packet of it waits, or it left something behind.   *)
(* To give the session a new connection then is what "overlap" marks.      *)
UnderWay(t, s) ==
  \/ \E u \in Threads \ {t} : pc[u].s = s
  \/ \E i \in DOMAIN port : port[i].s = s
  \/ \E i \in DOMAIN deque : deque[i].s = s
  \/ \E c \in Conns : \/ \E i \in DOMAIN conn[c].recvs : conn[c].recvs[i] = s
                     \/ \E i \in DOMAIN conn[c].sends : conn[c].sends[i].s = s
LeftBehind(s) == ses[s].out # <<>> \/ ses[s].sending \/ ses[s].typed
Mark(m) == marks' = marks \cup {m} /\ UNCHANGED late
MarkIf(b, m) == IF b THEN Mark(m) ELSE UNCHANGED hist

Accepted(t, s) ==
  /\ Waiting # {} /\ conn[Caller].st = "backlog"
  /\ conn' = [conn EXCEPT ![Caller].st = "open"]
  /\ ses' = [ses EXCEPT ![s].sock = Caller]
  /\ MarkIf(UnderWay(t, s) \/ LeftBehind(s), "overlap")
AcceptFailed ==
  /\ Waiting # {} /\ conn[Caller].st = "reset"
  /\ conn' = [conn EXCEPT ![Caller].st = "closed"]

(* AcceptEx (Practice07).  The kernel gives the pending accepts their      *)
(* connections in turn; nothing is queued for an accept that completes     *)
(* before the listening socket is associated with the port, and one that   *)
(* fails carries the key of the listening socket, NULL.                    *)
AcceptEx(s) == IF "listen" \in on THEN accepts' = Append(accepts, s) /\ UNCHANGED hist
               ELSE Mark("early") /\ UNCHANGED accepts
AcceptDone ==
  /\ accepts # <<>> /\ "listen" \in on
  /\ accepts' = Tail(accepts)
  /\ \/ /\ Accepted("kernel", Head(accepts))
        /\ port' = IF "assoc" \in on THEN Append(port, Done("accept", Head(accepts), TRUE, <<>>)) ELSE port
     \/ /\ AcceptFailed /\ UNCHANGED <<ses, hist>>
        /\ port' = IF "assoc" \in on THEN Append(port, Done("accept", None, FALSE, <<>>)) ELSE port
  /\ UNCHANGED <<deque, pc, on>>

(* SESSION_REUSE_TIME is assumed to be long enough for the threads and the *)
(* kernel to be done with what is left of the connection.                  *)
Elapse(s) ==
  /\ ses[s].closed = "recent"
  /\ ~UnderWay("kernel", s) /\ (ses[s].out # <<>> => ses[s].sending)
  /\ ses' = [ses EXCEPT ![s].closed = "long ago"]
  /\ UNCHANGED <<net, deque, hist, pc, on>>

Clients == \E c \in Conns : Connect(c) \/ Say(c) \/ Quit(c)
Kernel  == (\E c \in Conns : Sent(c) \/ Abort(c)) \/ AcceptDone \/ (\E s \in Slots : Elapse(s))

(* The main thread: a call that may fail, threads started, a flag cleared, *)
(* threads joined.                                                         *)
To(from, to) == At("main", from) /\ Go("main", to) /\ UNCHANGED <<net, mem, hist>>
Try(from, to, failed) == (To(from, to) \/ To(from, failed)) /\ UNCHANGED on
Start(ts, from, to) ==
  /\ At("main", from)
  /\ pc' = [t \in Threads |-> IF t = "main" THEN Local(to)
                              ELSE IF t \in ts THEN Local(FirstStep(t)) ELSE pc[t]]
  /\ UNCHANGED <<net, mem, hist, on>>
Raise(flags, from, to) == To(from, to) /\ on' = on \cup flags
Lower(flags, from, to) == To(from, to) /\ on' = on \ flags
Join(ts, from, to) ==
  To(from, to) /\ (\A t \in ts : pc[t].at \in {"off", "ended"}) /\ UNCHANGED on

(* PostQueuedCompletionStatus(iocp_, 0, NULL, NULL)                         *)
PostToken(t, from, to) ==
  /\ At(t, from) /\ Enter(t, to)
  /\ port' = Append(port, Token)
  /\ UNCHANGED <<conn, accepts, mem, hist, on>>

=============================================================================
