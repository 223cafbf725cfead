---------------------------- MODULE SessionPool ----------------------------
(***************************************************************************)
(* The session pool of the IOCP chat server (Practice08): network.cpp and  *)
(* session.cpp.  A fixed array of Session slots is shared, without a lock, *)
(* by the threads below; the kernel's completion port hands finished I/O   *)
(* to whichever worker asks first.                                         *)
(*                                                                         *)
(*   Workers   GetQueuedCompletionStatus, then the handler of what it says *)
(*   Accepter  scans the slots and posts AcceptEx on the reusable ones     *)
(*   Sender    scans the slots and posts WSASend where there is data       *)
(*   Packet    the logic thread, which only calls SendPacket               *)
(*                                                                         *)
(* A step of a thread is one access to shared memory (or one locked        *)
(* section); pc[t] names the next one, in the words of the code.           *)
(***************************************************************************)
EXTENDS Integers, FiniteSets

CONSTANTS NumSessions,      \* max_session_cnt, the length of session_list_
          Workers,          \* the worker threads
          Accepter, Sender, Packet, \* the other threads
          MaxConn,          \* bound: sockets created in one slot
          CntMod,           \* session_cnt_ is an unsigned integer modulo CntMod
          Faults,           \* which of FaultKinds may happen
          LogicSends,       \* does the logic ever call SendPacket?
          ReadsTimeTwice,   \* how the build loads a plain field, see CheckTime
          DrainBeforeReuse  \* timing assumption, see ReuseTimePasses

(***************************************************************************)
(* Failures outside the program's control:                                 *)
(*   socket    WSASocket returns INVALID_SOCKET                            *)
(*   acceptex  AcceptEx fails at once                                      *)
(*   aborted   a pending AcceptEx completes with an error                  *)
(*   iocp      CreateIoCompletionPort refuses the accepted socket          *)
(*   reset     the peer resets its connection instead of closing it        *)
(***************************************************************************)
FaultKinds == {"socket", "acceptex", "aborted", "iocp", "reset"}

ASSUME PoolAssumption ==
    /\ NumSessions \in Nat \ {0}
    /\ MaxConn \in Nat \ {0}
    /\ CntMod \in Nat \ {0, 1}
    /\ Faults \subseteq FaultKinds
    /\ LogicSends \in BOOLEAN
    /\ ReadsTimeTwice \in BOOLEAN
    /\ DrainBeforeReuse \in BOOLEAN
    /\ Workers \cap {Accepter, Sender, Packet} = {}
    /\ Accepter # Sender /\ Sender # Packet /\ Packet # Accepter

(* CreateWorkerThread starts max_worker_thread of them. *)
ASSUME WorkersFinite == IsFiniteSet(Workers)

Slots   == 1..NumSessions
Threads == Workers \cup {Accepter, Sender, Packet}
Closers == Workers \cup {Sender}    \* the threads that call CloseSocket

VARIABLES
  (* Session *)
  activated,   \* is_activated_
  sending,     \* is_sending_
  closedAt,    \* latest_conn_closed_: "max" is UINT64_MAX, see Ages
  socket,      \* socket_: 0 is INVALID_SOCKET, else the connection's number
  hasData,     \* send_buf_ holds something to send
  recvOp,      \* recv_overlapped_ex_.op_type_ is kRECV (else kNone)
  sendOp,      \* send_overlapped_ex_.op_type_ is kSEND (else kNone)
  (* Network *)
  sessionCnt,  \* session_cnt_
  (* threads *)
  pc, at,      \* the next step of a thread, the slot it is at
  job,         \* the completion a worker is handling
  (* kernel and peers *)
  conn,        \* number of sockets created in the slot so far
  link,        \* state of the latest of them
  io,          \* overlapped operations not yet taken from the port
  crashed,     \* the process has dereferenced a null Session*
  (* what the callbacks have told the logic *)
  heard,       \* OnRecv was called for the slot at least once
  gone         \* connection whose end OnDisconnect reported last, 0 if none

session == <<activated, sending, closedAt, socket, hasData, recvOp, sendOp>>
kernel  == <<conn, link, io>>
logic   == <<heard, gone>>
vars == <<session, sessionCnt, pc, at, job, kernel, crashed, logic>>

(***************************************************************************)
(* latest_conn_closed_ as the scan that runs next will see it: "elapsed"   *)
(* when more than SESSION_REUSE_TIME has passed, "cooling" when not.       *)
(***************************************************************************)
Ages   == {"elapsed", "cooling", "max"}
Links  == {"none", "fresh", "up", "fin", "rst"}
Ops    == {"accept", "recv", "send"}
IoRecs == [slot : Slots, conn : 0..MaxConn, op : Ops,
           status : {"pending", "ok", "zero", "fail"}]
NoJob  == [op |-> "none", conn |-> 0]
Jobs   == [op : Ops \cup {"none"}, conn : 0..MaxConn]
(* The steps of each thread, in the words of the code *)
CloseLabels    == {"close", "cas", "closesocket", "setsocket", "clearbuf",
                   "clearsending", "settime"}
WorkerLabels   == {"gqcs", "zero", "on", "clear", "recv", "count"} \cup CloseLabels
AccepterLabels == {"scan", "check", "time", "diff", "take", "socket", "acceptex"}
SenderLabels   == {"hasdata", "sendcas", "wsasend", "sent", "notsent"} \cup CloseLabels
PacketLabels   == {"free", "enqueue"}

LabelsOf(t) == CASE t = Accepter -> AccepterLabels
                 [] t = Sender   -> SenderLabels
                 [] t = Packet   -> PacketLabels
                 [] OTHER        -> WorkerLabels

Labels == WorkerLabels \cup AccepterLabels \cup SenderLabels \cup PacketLabels

Init ==
    /\ activated = [s \in Slots |-> FALSE]
    /\ sending   = [s \in Slots |-> FALSE]
    /\ closedAt  = [s \in Slots |-> "elapsed"]
    /\ socket    = [s \in Slots |-> 0]
    /\ hasData   = [s \in Slots |-> FALSE]
    /\ recvOp    = [s \in Slots |-> FALSE]
    /\ sendOp    = [s \in Slots |-> FALSE]
    /\ sessionCnt = 0
    /\ pc = [t \in Threads |-> CASE t = Accepter -> "scan"
                                 [] t = Sender   -> "hasdata"
                                 [] t = Packet   -> "free"
                                 [] OTHER        -> "gqcs"]
    /\ at  = [t \in Threads |-> 1]
    /\ job = [t \in Threads |-> NoJob]
    /\ conn = [s \in Slots |-> 0]
    /\ link = [s \in Slots |-> "none"]
    /\ io = {}
    /\ crashed = FALSE
    /\ heard = [s \in Slots |-> FALSE]
    /\ gone  = [s \in Slots |-> 0]

-----------------------------------------------------------------------------
(* Helpers *)

Goto(t, l) == pc' = [pc EXCEPT ![t] = l]

(* The thread goes back to the top of its loop; a worker drops its job. *)
Finish(t) ==
    /\ Goto(t, IF t = Sender THEN "hasdata" ELSE "gqcs")
    /\ at' = [at EXCEPT ![t] = IF t = Sender /\ at[t] < NumSessions
                               THEN at[t] + 1 ELSE 1]
    /\ job' = [job EXCEPT ![t] = NoJob]

(* Mutations of NextSlot: the loop's test is <=; the thread returns after a pass. *)
NextSlotOver(t, body, top) ==
    /\ at' = [at EXCEPT ![t] = IF @ <= NumSessions THEN @ + 1 ELSE 1]
    /\ Goto(t, IF at[t] <= NumSessions THEN body ELSE top)

NextSlotReturns(t, body, top) ==
    /\ at' = [at EXCEPT ![t] = IF @ < NumSessions THEN @ + 1 ELSE 1]
    /\ Goto(t, IF at[t] < NumSessions THEN body ELSE "returned")

(* A for loop over session_list_ goes to its next slot, or ends the pass. *)
NextSlot(t, body, top) ==
    /\ at' = [at EXCEPT ![t] = IF at[t] < NumSessions THEN at[t] + 1 ELSE 1]
    /\ Goto(t, IF at[t] < NumSessions THEN body ELSE top)

(* The socket in socket_ is open and its peer has not reset it. *)
Connected(s) == socket[s] # 0 /\ link[s] \in {"up", "fin"}

(* Mutation of ErrorHandler: it reports the failure, as its bool overload does. *)
ErrorHandlerReports(ok) == ok

(***************************************************************************)
(* ErrorHandler(int32_t, ...) logs the error and returns true all the same *)
(* so that BindRecv and BindSend never report a failed call.               *)
(***************************************************************************)
ErrorHandler(ok) == TRUE

(* send_lock_ of the slot is held by a thread that is between two steps. *)
SendLocked(s) ==
    \/ at[Sender] = s /\ pc[Sender] \in {"sent", "notsent"}
    \/ at[Packet] = s /\ pc[Packet] = "enqueue"

Rec(s, op, status) ==
    [slot |-> s, conn |-> conn[s], op |-> op, status |-> status]

(* What is pending on the n-th socket of the slot completes with a status. *)
PendingOps(s, n, ops) ==
    {c \in io : c.slot = s /\ c.conn = n /\ c.op \in ops /\ c.status = "pending"}

Complete(ops, status) ==
    io' = (io \ ops) \cup {[c EXCEPT !.status = status] : c \in ops}

-----------------------------------------------------------------------------
(* The accepter thread *)

ScanBegin ==
    /\ pc[Accepter] = "scan"
    /\ Goto(Accepter, "check")
    /\ UNCHANGED <<session, sessionCnt, at, job, kernel, crashed, logic>>

CheckActivated ==
    /\ pc[Accepter] = "check"
    /\ \/ /\ activated[at[Accepter]]
          /\ NextSlot(Accepter, "check", "scan")
       \/ /\ ~activated[at[Accepter]]
          /\ Goto(Accepter, "time")
          /\ UNCHANGED at
    /\ UNCHANGED <<session, sessionCnt, job, kernel, crashed, logic>>

(* Mutation of CheckTime: the time of the last closing is not looked at. *)
CheckTimeNot ==
    /\ pc[Accepter] = "time"
    /\ Goto(Accepter, "take")
    /\ UNCHANGED <<session, sessionCnt, at, job, kernel, crashed, logic>>

(***************************************************************************)
(* cur_time < latest_conn_closed_ is true of UINT64_MAX alone; then the    *)
(* difference is compared with SESSION_REUSE_TIME.  The field is a plain   *)
(* uint64_t: a build may load it once for both tests, or once for each.    *)
(***************************************************************************)
CheckTime ==
    LET age == closedAt[at[Accepter]] IN
    /\ pc[Accepter] = "time"
    /\ \/ /\ age = "max" \/ (age = "cooling" /\ ~ReadsTimeTwice)
          /\ NextSlot(Accepter, "check", "scan")
       \/ /\ age # "max"
          /\ ReadsTimeTwice
          /\ Goto(Accepter, "diff")
          /\ UNCHANGED at
       \/ /\ age = "elapsed"
          /\ ~ReadsTimeTwice
          /\ Goto(Accepter, "take")
          /\ UNCHANGED at
    /\ UNCHANGED <<session, sessionCnt, job, kernel, crashed, logic>>

(***************************************************************************)
(* cur_time - latest_conn_closed_ from a second load: if it is UINT64_MAX  *)
(* by now, the difference is unsigned, hence large, and the test passes.   *)
(***************************************************************************)
CheckDiff ==
    /\ pc[Accepter] = "diff"
    /\ \/ /\ closedAt[at[Accepter]] = "cooling"
          /\ NextSlot(Accepter, "check", "scan")
       \/ /\ closedAt[at[Accepter]] # "cooling"
          /\ Goto(Accepter, "take")
          /\ UNCHANGED at
    /\ UNCHANGED <<session, sessionCnt, job, kernel, crashed, logic>>

(* Mutation of TakeSlot: the slot is not kept from the next pass. *)
TakeSlotOpenly ==
    /\ pc[Accepter] = "take"
    /\ Goto(Accepter, "socket")
    /\ UNCHANGED <<session, sessionCnt, at, job, kernel, crashed, logic>>

(* BindAccept: latest_conn_closed_ = UINT64_MAX keeps the next pass away. *)
TakeSlot ==
    /\ pc[Accepter] = "take"
    /\ closedAt' = [closedAt EXCEPT ![at[Accepter]] = "max"]
    /\ Goto(Accepter, "socket")
    /\ UNCHANGED <<activated, sending, socket, hasData, recvOp, sendOp,
                   sessionCnt, at, job, kernel, crashed, logic>>

CreateSocket ==
    LET s == at[Accepter] IN
    /\ pc[Accepter] = "socket"
    /\ \/ /\ conn[s] < MaxConn
          /\ conn' = [conn EXCEPT ![s] = @ + 1]
          /\ socket' = [socket EXCEPT ![s] = conn[s] + 1]
          /\ link' = [link EXCEPT ![s] = "fresh"]
          /\ Goto(Accepter, "acceptex")
          /\ UNCHANGED at
       \/ /\ "socket" \in Faults
          /\ socket' = [socket EXCEPT ![s] = 0]
          /\ NextSlot(Accepter, "check", "scan")
          /\ UNCHANGED <<conn, link>>
    /\ UNCHANGED <<activated, sending, closedAt, hasData, recvOp, sendOp,
                   sessionCnt, job, io, crashed, logic>>

(* BindAccept's result is not looked at: a failure leaves the slot as it is. *)
PostAccept ==
    LET s == at[Accepter] IN
    /\ pc[Accepter] = "acceptex"
    /\ \/ io' = io \cup {Rec(s, "accept", "pending")}
       \/ "acceptex" \in Faults /\ UNCHANGED io
    /\ NextSlot(Accepter, "check", "scan")
    /\ UNCHANGED <<session, sessionCnt, job, conn, link, crashed, logic>>

-----------------------------------------------------------------------------
(* The sender thread *)

HasSendData ==
    LET s == at[Sender] IN
    /\ pc[Sender] = "hasdata"
    /\ ~SendLocked(s)
    /\ \/ /\ hasData[s]
          /\ Goto(Sender, "sendcas")
          /\ UNCHANGED at
       \/ /\ ~hasData[s]
          /\ NextSlot(Sender, "hasdata", "hasdata")
    /\ UNCHANGED <<session, sessionCnt, job, kernel, crashed, logic>>

(* Mutation of BindSendCas: a store in place of the compare-and-swap. *)
BindSendStore ==
    /\ pc[Sender] = "sendcas"
    /\ sending' = [sending EXCEPT ![at[Sender]] = TRUE]
    /\ Goto(Sender, "wsasend")
    /\ UNCHANGED <<activated, closedAt, socket, hasData, recvOp, sendOp,
                   sessionCnt, at, job, kernel, crashed, logic>>

(* BindSend: the compare-and-swap that allows one send at a time *)
BindSendCas ==
    LET s == at[Sender] IN
    /\ pc[Sender] = "sendcas"
    /\ \/ /\ sending[s]
          /\ NextSlot(Sender, "hasdata", "hasdata")
          /\ UNCHANGED sending
       \/ /\ ~sending[s]
          /\ sending' = [sending EXCEPT ![s] = TRUE]
          /\ Goto(Sender, "wsasend")
          /\ UNCHANGED at
    /\ UNCHANGED <<activated, closedAt, socket, hasData, recvOp, sendOp,
                   sessionCnt, job, kernel, crashed, logic>>

(***************************************************************************)
(* WSASend, under send_lock_.  It is accepted, with the bytes handed over  *)
(* now ("sent") or later ("notsent"), or it fails.  If the buffer has been *)
(* cleared since HasSendData the request is for no bytes at all.           *)
(***************************************************************************)
PostSend ==
    LET s == at[Sender] IN
    /\ pc[Sender] = "wsasend"
    /\ ~SendLocked(s)
    /\ sendOp' = [sendOp EXCEPT ![s] = TRUE]
    /\ \/ /\ Connected(s)
          /\ hasData[s]
          /\ io' = io \cup {Rec(s, "send", "pending")}
          /\ \E l \in {"sent", "notsent"} : Goto(Sender, l)
       \/ /\ Connected(s)
          /\ ~hasData[s]
          /\ io' = io \cup {Rec(s, "send", "zero")}
          /\ Goto(Sender, "notsent")
       \/ /\ ~Connected(s)
          /\ Goto(Sender, IF ErrorHandler(FALSE) THEN "notsent" ELSE "close")
          /\ UNCHANGED io
    /\ UNCHANGED <<activated, sending, closedAt, socket, hasData, recvOp,
                   sessionCnt, at, job, conn, link, crashed, logic>>

(***************************************************************************)
(* MoveFront(sent_bytes), then send_lock_ is released.  If the buffer was  *)
(* cleared since the indices were read, moving the front of an empty ring  *)
(* makes it look nearly full.                                              *)
(***************************************************************************)
MoveFront ==
    LET s == at[Sender] IN
    /\ \/ /\ pc[Sender] = "sent"
          /\ hasData' = [hasData EXCEPT ![s] = ~hasData[s]]
       \/ /\ pc[Sender] = "notsent"
          /\ UNCHANGED hasData
    /\ NextSlot(Sender, "hasdata", "hasdata")
    /\ UNCHANGED <<activated, sending, closedAt, socket, recvOp, sendOp,
                   sessionCnt, job, kernel, crashed, logic>>

-----------------------------------------------------------------------------
(***************************************************************************)
(* The logic's calls of SendPacket, from the packet thread: to a slot from *)
(* which a packet came at least once, whenever it likes.  (A user who has  *)
(* entered a room stays in its user list when the session ends.)           *)
(***************************************************************************)

SendPacketLock(s) ==
    /\ LogicSends
    /\ pc[Packet] = "free"
    /\ heard[s]
    /\ ~SendLocked(s)
    /\ at' = [at EXCEPT ![Packet] = s]
    /\ Goto(Packet, "enqueue")
    /\ UNCHANGED <<session, sessionCnt, job, kernel, crashed, logic>>

SendPacketEnqueue ==
    /\ pc[Packet] = "enqueue"
    /\ hasData' = [hasData EXCEPT ![at[Packet]] = TRUE]
    /\ at' = [at EXCEPT ![Packet] = 1]
    /\ Goto(Packet, "free")
    /\ UNCHANGED <<activated, sending, closedAt, socket, recvOp, sendOp,
                   sessionCnt, job, kernel, crashed, logic>>

-----------------------------------------------------------------------------
(* The workers: what GetQueuedCompletionStatus returns *)

Takes(w, c) ==
    /\ pc[w] = "gqcs"
    /\ io' = io \ {c}

Begin(w, c, l) ==
    /\ Goto(w, l)
    /\ at' = [at EXCEPT ![w] = c.slot]
    /\ job' = [job EXCEPT ![w] = [op |-> c.op, conn |-> c.conn]]

(***************************************************************************)
(* SessionExited: the operation failed, or moved no bytes (an accept does  *)
(* not move any).  The session is found through the completion key, which  *)
(* is null for an accept: the listening socket was bound with key 0.       *)
(***************************************************************************)
TakeExited(w, c) ==
    /\ Takes(w, c)
    /\ c.status \in {"fail", "zero"}
    /\ \/ /\ c.op # "accept"
          /\ gone' = [gone EXCEPT ![c.slot] = c.conn]
          /\ Begin(w, c, "close")
          /\ UNCHANGED crashed
       \/ /\ c.op = "accept"
          /\ crashed' = TRUE
          /\ UNCHANGED <<pc, at, job, gone>>
    /\ UNCHANGED <<session, sessionCnt, conn, link, heard>>

(* Mutation of TakeRecv: no BindRecv after OnRecv. *)
TakeRecvOnce(w, c) ==
    /\ Takes(w, c)
    /\ c.status = "ok" /\ c.op = "recv"
    /\ heard' = [heard EXCEPT ![c.slot] = @ \/ recvOp[c.slot]]
    /\ UNCHANGED <<session, sessionCnt, pc, at, job, conn, link, crashed, gone>>

(* OnRecv, then on to BindRecv; nothing at all if op_type_ was zeroed *)
TakeRecv(w, c) ==
    /\ Takes(w, c)
    /\ c.status = "ok" /\ c.op = "recv"
    /\ IF recvOp[c.slot]
       THEN Begin(w, c, "recv") /\ heard' = [heard EXCEPT ![c.slot] = TRUE]
       ELSE UNCHANGED <<pc, at, job, heard>>
    /\ UNCHANGED <<session, sessionCnt, conn, link, crashed, gone>>

(* Mutation of TakeSend: a kSEND falls through into the case of kRECV. *)
TakeSendFallsThrough(w, c) ==
    /\ Takes(w, c)
    /\ c.status = "ok" /\ c.op = "send"
    /\ sending' = [sending EXCEPT ![c.slot] = @ /\ ~sendOp[c.slot]]
    /\ Begin(w, c, "recv")
    /\ UNCHANGED <<activated, closedAt, socket, hasData, recvOp, sendOp,
                   sessionCnt, conn, link, crashed, logic>>

TakeSend(w, c) ==
    /\ Takes(w, c)
    /\ c.status = "ok" /\ c.op = "send"
    /\ sending' = [sending EXCEPT ![c.slot] = @ /\ ~sendOp[c.slot]]
    /\ UNCHANGED <<activated, closedAt, socket, hasData, recvOp, sendOp,
                   sessionCnt, pc, at, job, conn, link, crashed, logic>>

(* BindIOCompletionPort, then OnConnect; or CloseSocket when it fails *)
TakeAccept(w, c) ==
    /\ Takes(w, c)
    /\ c.status = "ok" /\ c.op = "accept"
    /\ \/ Begin(w, c, "zero")
       \/ "iocp" \in Faults /\ Begin(w, [c EXCEPT !.op = "none"], "close")
    /\ UNCHANGED <<session, sessionCnt, conn, link, crashed, logic>>

Gqcs(w) ==
    \E c \in io : \/ TakeExited(w, c)
                  \/ TakeRecv(w, c)
                  \/ TakeSend(w, c)
                  \/ TakeAccept(w, c)

-----------------------------------------------------------------------------
(* The workers: Activate, BindRecv, ++session_cnt_ *)

ActivateZero(w) ==
    /\ pc[w] = "zero"
    /\ recvOp' = [recvOp EXCEPT ![at[w]] = FALSE]
    /\ sendOp' = [sendOp EXCEPT ![at[w]] = FALSE]
    /\ Goto(w, "on")
    /\ UNCHANGED <<activated, sending, closedAt, socket, hasData,
                   sessionCnt, at, job, kernel, crashed, logic>>

ActivateOn(w) ==
    /\ pc[w] = "on"
    /\ activated' = [activated EXCEPT ![at[w]] = TRUE]
    /\ Goto(w, "clear")
    /\ UNCHANGED <<sending, closedAt, socket, hasData, recvOp, sendOp,
                   sessionCnt, at, job, kernel, crashed, logic>>

(* send_buf_.ClearBuffer() without send_lock_ *)
ActivateClear(w) ==
    /\ pc[w] = "clear"
    /\ hasData' = [hasData EXCEPT ![at[w]] = FALSE]
    /\ Goto(w, "recv")
    /\ UNCHANGED <<activated, sending, closedAt, socket, recvOp, sendOp,
                   sessionCnt, at, job, kernel, crashed, logic>>

(* WSARecv is accepted; or fails, which BindRecv reports if ErrorHandler does. *)
BindRecv(w) ==
    LET s == at[w] IN
    /\ pc[w] = "recv"
    /\ recvOp' = [recvOp EXCEPT ![s] = TRUE]
    /\ \E posted \in BOOLEAN :
         /\ Connected(s) => posted
         /\ posted => socket[s] # 0 /\ link[s] \in {"up", "fin", "rst"}
         /\ io' = IF posted
                  THEN io \cup {Rec(s, "recv", CASE link[s] = "up"  -> "pending"
                                                 [] link[s] = "fin" -> "zero"
                                                 [] OTHER           -> "fail")}
                  ELSE io
         /\ IF ErrorHandler(posted)
            THEN IF job[w].op = "accept"
                 THEN Goto(w, "count") /\ UNCHANGED <<at, job>>
                 ELSE Finish(w)
            ELSE Goto(w, "close") /\ UNCHANGED <<at, job>>
    /\ UNCHANGED <<activated, sending, closedAt, socket, hasData, sendOp,
                   sessionCnt, conn, link, crashed, logic>>

(* Mutation of CountSession: the session is not counted. *)
CountNoSession(w) ==
    /\ pc[w] = "count"
    /\ Finish(w)
    /\ UNCHANGED <<session, sessionCnt, kernel, crashed, logic>>

CountSession(w) ==
    /\ pc[w] = "count"
    /\ sessionCnt' = (sessionCnt + 1) % CntMod
    /\ Finish(w)
    /\ UNCHANGED <<session, kernel, crashed, logic>>

-----------------------------------------------------------------------------
(* CloseSocket and ClearSession, by a worker or the sender *)

CloseReturns(t) ==
    IF job[t].op = "accept" THEN Goto(t, "count") /\ UNCHANGED <<at, job>>
                            ELSE Finish(t)

CloseMax(t) ==
    /\ pc[t] = "close"
    /\ closedAt' = [closedAt EXCEPT ![at[t]] = "max"]
    /\ Goto(t, "cas")
    /\ UNCHANGED <<activated, sending, socket, hasData, recvOp, sendOp,
                   sessionCnt, at, job, kernel, crashed, logic>>

(* Mutation of CloseCas: a store in place of the compare-and-swap. *)
CloseStore(t) ==
    /\ pc[t] = "cas"
    /\ activated' = [activated EXCEPT ![at[t]] = FALSE]
    /\ Goto(t, "closesocket")
    /\ UNCHANGED <<sending, closedAt, socket, hasData, recvOp, sendOp,
                   sessionCnt, at, job, kernel, crashed, logic>>

(* Only the thread that turns is_activated_ off goes on. *)
CloseCas(t) ==
    /\ pc[t] = "cas"
    /\ \/ /\ activated[at[t]]
          /\ activated' = [activated EXCEPT ![at[t]] = FALSE]
          /\ Goto(t, "closesocket")
          /\ UNCHANGED <<at, job>>
       \/ /\ ~activated[at[t]]
          /\ CloseReturns(t)
          /\ UNCHANGED activated
    /\ UNCHANGED <<sending, closedAt, socket, hasData, recvOp, sendOp,
                   sessionCnt, kernel, crashed, logic>>

(* closesocket: what was pending on the socket completes with an error *)
CloseHandle(t) ==
    LET s == at[t] IN
    /\ pc[t] = "closesocket"
    /\ link' = [link EXCEPT ![s] = "none"]
    /\ Complete(PendingOps(s, socket[s], Ops), "fail")
    /\ Goto(t, "setsocket")
    /\ UNCHANGED <<session, sessionCnt, at, job, conn, crashed, logic>>

ClearSocket(t) ==
    /\ pc[t] = "setsocket"
    /\ socket' = [socket EXCEPT ![at[t]] = 0]
    /\ recvOp' = [recvOp EXCEPT ![at[t]] = FALSE]
    /\ Goto(t, "clearbuf")
    /\ UNCHANGED <<activated, sending, closedAt, hasData, sendOp,
                   sessionCnt, at, job, kernel, crashed, logic>>

ClearSendBuffer(t) ==
    /\ pc[t] = "clearbuf"
    /\ ~SendLocked(at[t])
    /\ hasData' = [hasData EXCEPT ![at[t]] = FALSE]
    /\ Goto(t, "clearsending")
    /\ UNCHANGED <<activated, sending, closedAt, socket, recvOp, sendOp,
                   sessionCnt, at, job, kernel, crashed, logic>>

(* Mutation of ClearSending: ClearSession ends without storing the time. *)
ClearSendingOnly(t) ==
    /\ pc[t] = "clearsending"
    /\ sending' = [sending EXCEPT ![at[t]] = FALSE]
    /\ CloseReturns(t)
    /\ UNCHANGED <<activated, closedAt, socket, hasData, recvOp, sendOp,
                   sessionCnt, kernel, crashed, logic>>

ClearSending(t) ==
    /\ pc[t] = "clearsending"
    /\ sending' = [sending EXCEPT ![at[t]] = FALSE]
    /\ Goto(t, "settime")
    /\ UNCHANGED <<activated, closedAt, socket, hasData, recvOp, sendOp,
                   sessionCnt, at, job, kernel, crashed, logic>>

(* The time of closing is stored and --session_cnt_ done: the slot is free. *)
ReleaseSlot(t) ==
    /\ pc[t] = "settime"
    /\ closedAt' = [closedAt EXCEPT ![at[t]] = "cooling"]
    /\ sessionCnt' = (sessionCnt - 1) % CntMod
    /\ CloseReturns(t)
    /\ UNCHANGED <<activated, sending, socket, hasData, recvOp, sendOp,
                   kernel, crashed, logic>>

CloseSocket(t) ==
    \/ CloseMax(t)
    \/ CloseCas(t)
    \/ CloseHandle(t)
    \/ ClearSocket(t)
    \/ ClearSendBuffer(t)
    \/ ClearSending(t)
    \/ ReleaseSlot(t)

-----------------------------------------------------------------------------
(* The clock, the peers and the kernel *)

(* No operation of the slot is in flight and no thread is working on it. *)
Quiet(s) ==
    /\ \A c \in io : c.slot # s
    /\ \A t \in Closers : at[t] = s => pc[t] \in {"gqcs", "hasdata"}

(***************************************************************************)
(* More than SESSION_REUSE_TIME seconds have passed since the slot was     *)
(* closed when the accepter reads cur_time for its next pass.  With        *)
(* DrainBeforeReuse, those seconds were enough for the workers and the     *)
(* sender to be done with the old connection.                              *)
(***************************************************************************)
ReuseTimePasses(s) ==
    /\ pc[Accepter] = "scan"
    /\ closedAt[s] = "cooling"
    /\ conn[s] < MaxConn
    /\ DrainBeforeReuse => Quiet(s)
    /\ closedAt' = [closedAt EXCEPT ![s] = "elapsed"]
    /\ UNCHANGED <<activated, sending, socket, hasData, recvOp, sendOp,
                   sessionCnt, pc, at, job, kernel, crashed, logic>>

Pending(s, op) == PendingOps(s, conn[s], {op})

PeerConnects(s) ==
    /\ Pending(s, "accept") # {}
    /\ link' = [link EXCEPT ![s] = "up"]
    /\ Complete(Pending(s, "accept"), "ok")
    /\ UNCHANGED <<session, sessionCnt, pc, at, job, conn, crashed, logic>>

AcceptAborts(s) ==
    /\ "aborted" \in Faults
    /\ Pending(s, "accept") # {}
    /\ Complete(Pending(s, "accept"), "fail")
    /\ UNCHANGED <<session, sessionCnt, pc, at, job, conn, link, crashed, logic>>

PeerSends(s) ==
    /\ link[s] = "up" /\ Pending(s, "recv") # {}
    /\ Complete(Pending(s, "recv"), "ok")
    /\ UNCHANGED <<session, sessionCnt, pc, at, job, conn, link, crashed, logic>>

SendCompletes(s) ==
    /\ link[s] \in {"up", "fin"} /\ Pending(s, "send") # {}
    /\ Complete(Pending(s, "send"), "ok")
    /\ UNCHANGED <<session, sessionCnt, pc, at, job, conn, link, crashed, logic>>

(* A graceful close: a pending receive completes with no bytes. *)
PeerCloses(s) ==
    /\ link[s] = "up"
    /\ link' = [link EXCEPT ![s] = "fin"]
    /\ Complete(Pending(s, "recv"), "zero")
    /\ UNCHANGED <<session, sessionCnt, pc, at, job, conn, crashed, logic>>

(* A reset: everything pending on the connection completes with an error. *)
PeerResets(s) ==
    /\ "reset" \in Faults
    /\ link[s] \in {"up", "fin"}
    /\ link' = [link EXCEPT ![s] = "rst"]
    /\ Complete(PendingOps(s, conn[s], Ops), "fail")
    /\ UNCHANGED <<session, sessionCnt, pc, at, job, conn, crashed, logic>>

-----------------------------------------------------------------------------
AccepterThread == \/ ScanBegin \/ CheckActivated \/ CheckTime \/ CheckDiff
                  \/ TakeSlot \/ CreateSocket \/ PostAccept

SenderThread == HasSendData \/ BindSendCas \/ PostSend \/ MoveFront

WorkerThread(w) ==
    \/ Gqcs(w)
    \/ ActivateZero(w) \/ ActivateOn(w) \/ ActivateClear(w)
    \/ BindRecv(w) \/ CountSession(w)

PacketThread == SendPacketEnqueue \/ \E s \in Slots : SendPacketLock(s)

Outside(s) == \/ ReuseTimePasses(s)
              \/ PeerConnects(s) \/ AcceptAborts(s)
              \/ PeerSends(s) \/ SendCompletes(s)
              \/ PeerCloses(s) \/ PeerResets(s)

Next ==
    /\ ~crashed
    /\ \/ AccepterThread
       \/ SenderThread
       \/ PacketThread
       \/ \E w \in Workers : WorkerThread(w)
       \/ \E t \in Closers : CloseSocket(t)
       \/ \E s \in Slots : Outside(s)

Spec == Init /\ [][Next]_vars

-----------------------------------------------------------------------------
(* Type correctness: every field keeps a value the code can store in it,  *)
(* and every thread stays in its own code.                                 *)
FieldsOK ==
    /\ activated \in [Slots -> BOOLEAN]
    /\ sending   \in [Slots -> BOOLEAN]
    /\ closedAt  \in [Slots -> Ages]
    /\ socket    \in [Slots -> 0..MaxConn]
    /\ hasData   \in [Slots -> BOOLEAN]
    /\ recvOp    \in [Slots -> BOOLEAN]
    /\ sendOp    \in [Slots -> BOOLEAN]
    /\ sessionCnt \in 0..(CntMod - 1)

ThreadsOK ==
    /\ pc  \in [Threads -> Labels]
    /\ \A t \in Threads : pc[t] \in LabelsOf(t)
    /\ at  \in [Threads -> Slots]
    /\ job \in [Threads -> Jobs] /\ job[Sender] = NoJob

KernelOK ==
    /\ conn \in [Slots -> 0..MaxConn]
    /\ link \in [Slots -> Links]
    /\ io \subseteq IoRecs
    /\ crashed \in BOOLEAN
    /\ heard \in [Slots -> BOOLEAN]
    /\ gone  \in [Slots -> 0..MaxConn]

TypeOK == FieldsOK /\ ThreadsOK /\ KernelOK

(* Who is at work on a slot *)
AcceptsInFlight(s) == {c \in io : c.slot = s /\ c.op = "accept"}
OpeningBy(s) == {w \in Workers : at[w] = s /\ pc[w] \in {"zero", "on"}}
ClosingBy(s) == {t \in Closers : /\ at[t] = s
                                 /\ pc[t] \in {"closesocket", "setsocket", "clearbuf",
                                               "clearsending", "settime"}}
Binding(s) == at[Accepter] = s /\ pc[Accepter] \in {"take", "socket", "acceptex"}

(***************************************************************************)
(* A slot has one owner at a time: the accepter while it binds it, the one *)
(* AcceptEx in flight, the one worker that activates it, the connection,   *)
(* or the one thread that closes it.  No lock protects the slot: the code  *)
(* relies on latest_conn_closed_ being UINT64_MAX from BindAccept to the   *)
(* end of ClearSession, and on the compare-and-swap of is_activated_.      *)
(***************************************************************************)
OneOwner ==
    \A s \in Slots :
        /\ \A c, d \in AcceptsInFlight(s) : c = d
        /\ \A v, w \in OpeningBy(s) : v = w
        /\ \A t, u \in ClosingBy(s) : t = u
        /\ Binding(s) => AcceptsInFlight(s) = {}
        /\ Binding(s) \/ AcceptsInFlight(s) # {} => OpeningBy(s) = {}
        /\ Binding(s) \/ AcceptsInFlight(s) # {} \/ OpeningBy(s) # {} => ~activated[s]
        /\ activated[s] \/ Binding(s) \/ AcceptsInFlight(s) # {} \/ OpeningBy(s) # {}
               => ClosingBy(s) = {}

(***************************************************************************)
(* closesocket is only ever called on the open socket of the slot's latest *)
(* connection: never twice on one connection, never on a handle that is    *)
(* already gone (the comment at the compare-and-swap: CloseSocket must not *)
(* run twice).                                                             *)
(***************************************************************************)
ClosesLiveSocket ==
    \A t \in Closers :
        pc[t] = "closesocket" =>
            /\ socket[at[t]] = conn[at[t]]
            /\ link[at[t]] \in {"up", "fin", "rst"}

(***************************************************************************)
(* A completion of an earlier connection never closes the one that has the *)
(* slot now.  This is what SESSION_REUSE_TIME is for: it holds with        *)
(* DrainBeforeReuse only.                                                  *)
(***************************************************************************)
ClosesOwnConnection ==
    \A w \in Workers :
        pc[w] = "closesocket" => job[w].conn = conn[at[w]]

(***************************************************************************)
(* One send at a time (BindSend's compare-and-swap of is_sending_): when   *)
(* the sender calls WSASend on a connection, no earlier WSASend of that    *)
(* connection is still in flight.                                          *)
(***************************************************************************)
OneSend ==
    LET s == at[Sender] IN
    pc[Sender] = "wsasend" /\ Connected(s) =>
        \A c \in io : ~(c.slot = s /\ c.conn = conn[s] /\ c.op = "send")

(***************************************************************************)
(* One receive at a time: a connection's recv_buf_ and recv_overlapped_ex_ *)
(* are never handed to the kernel while it still has them.                 *)
(***************************************************************************)
OneRecv ==
    \A w \in Workers :
        pc[w] = "recv" /\ Connected(at[w]) =>
            \A c \in io : ~(c.slot = at[w] /\ c.conn = conn[at[w]] /\ c.op = "recv")

(***************************************************************************)
(* session_cnt_ is the number of active sessions, but for the sessions     *)
(* that are active and not yet counted and those closed and not yet        *)
(* discounted; modulo its width, because --session_cnt_ may come first.    *)
(***************************************************************************)
SessionCntExact ==
    LET active   == {s \in Slots : activated[s]}
        uncounted == {w \in Workers : /\ job[w].op = "accept"
                                      /\ pc[w] \notin {"gqcs", "zero", "on"}}
        closing  == {t \in Closers : \E s \in Slots : t \in ClosingBy(s)}
    IN sessionCnt = (Cardinality(active) + Cardinality(closing)
                       - Cardinality(uncounted)) % CntMod

(***************************************************************************)
(* The logic is told of the end of a connection before its slot is taken   *)
(* away: whoever closes a slot comes from an OnDisconnect for it.          *)
(***************************************************************************)
ReportedBeforeClosed ==
    \A s \in Slots : ClosingBy(s) # {} => gone[s] = conn[s]

(***************************************************************************)
(* The pool implements SlotLifecycle: the phase of a slot is read off who  *)
(* is at work on it.                                                       *)
(***************************************************************************)
Phase(s) ==
    IF ClosingBy(s) # {} THEN "closing"
    ELSE IF activated[s] THEN "active"
    ELSE IF \/ at[Accepter] = s /\ pc[Accepter] = "acceptex"
            \/ AcceptsInFlight(s) # {}
            \/ OpeningBy(s) # {} THEN "opening"
    ELSE "idle"

Lifecycle == INSTANCE SlotLifecycle WITH
                 phase <- [s \in Slots |-> Phase(s)]

SlotsFollowLifecycle == Lifecycle!Spec

-----------------------------------------------------------------------------
(* What the comments in the code say, and the code does not do *)

(***************************************************************************)
(* "Set to MAX to prevent reuse for a moment" (CloseSocket): a slot whose  *)
(* time is UINT64_MAX has somebody who will give it back.                  *)
(***************************************************************************)
MaxIsForAMoment ==
    \A s \in Slots :
        closedAt[s] = "max" =>
            \/ Binding(s) \/ AcceptsInFlight(s) # {} \/ OpeningBy(s) # {}
            \/ activated[s]
            \/ ClosingBy(s) # {}
            \/ crashed

(***************************************************************************)
(* "Is a send going on now" (is_sending_): the flag of an active session   *)
(* is only on while a WSASend is in flight, the sender is inside BindSend, *)
(* or a worker is about to close the session.                              *)
(***************************************************************************)
SendingMeansSending ==
    \A s \in Slots :
        activated[s] /\ sending[s] =>
            \/ \E c \in io : c.slot = s /\ c.op = "send"
            \/ at[Sender] = s /\ pc[Sender] # "hasdata"
            \/ \E w \in Workers : at[w] = s /\ pc[w] \in {"close", "cas"}

(***************************************************************************)
(* "On failure of the Recv request, end the connection": an active session *)
(* always has a receive in flight, or a thread that will post one or close *)
(* it; otherwise nothing will ever notice that its peer is gone.           *)
(***************************************************************************)
ActiveHasReceive ==
    \A s \in Slots :
        activated[s] =>
            \/ \E c \in io : c.slot = s /\ c.op = "recv"
            \/ \E w \in Workers : at[w] = s /\ pc[w] \in {"clear", "recv", "close", "cas"}

(***************************************************************************)
(* "The lock of the data to send" (send_lock_): nobody clears send_buf_    *)
(* while another thread holds the lock.                                    *)
(***************************************************************************)
SendLockProtects ==
    \A w \in Workers : pc[w] = "clear" => ~SendLocked(at[w])

(***************************************************************************)
(* "Check whether the client has ended the connection" (SessionExited): a  *)
(* session is closed only when its peer has closed or reset it.            *)
(***************************************************************************)
ClosesOnlyExited ==
    \A t \in Closers : pc[t] = "closesocket" => link[at[t]] \in {"fin", "rst"}

(***************************************************************************)
(* "GQCS false: the client ended abnormally" (SessionExited): a failed     *)
(* completion has a client's session, whose index_ OnDisconnect is given.  *)
(***************************************************************************)
FailureHasSession == ~crashed

(***************************************************************************)
(* "Check whether it is a time at which it can be used" (AccepterThread):  *)
(* a slot is taken for a new connection only when its reuse time is over.  *)
(***************************************************************************)
TakenOnlyWhenElapsed ==
    pc[Accepter] = "take" => closedAt[at[Accepter]] = "elapsed"

-----------------------------------------------------------------------------
(***************************************************************************)
(* Fairness: every thread keeps running; the completion port is first in,  *)
(* first out, so no slot's completions are passed over for ever; and the   *)
(* clock keeps going.  Nothing is assumed of the peers or of the logic.    *)
(***************************************************************************)
Running(A) == ~crashed /\ A

GqcsFor(s) ==
    \E w \in Workers, c \in io :
        /\ c.slot = s
        /\ \/ TakeExited(w, c) \/ TakeRecv(w, c)
           \/ TakeSend(w, c)   \/ TakeAccept(w, c)

Fairness ==
    /\ WF_vars(Running(AccepterThread))
    /\ WF_vars(Running(SenderThread))
    /\ \A w \in Workers : WF_vars(Running(WorkerThread(w)))
    /\ \A t \in Closers : WF_vars(Running(CloseSocket(t)))
    /\ \A s \in Slots : /\ SF_vars(Running(GqcsFor(s)))
                        /\ SF_vars(Running(ReuseTimePasses(s)))

FairSpec == Spec /\ Fairness

(***************************************************************************)
(* The server notices that a peer has closed its connection, and gives the *)
(* slot up: is_activated_ does not stay on for ever.                       *)
(***************************************************************************)
PeerGoneIsNoticed ==
    \A s \in Slots : (activated[s] /\ link[s] = "fin") ~> ~activated[s]

(***************************************************************************)
(* A slot that was closed gets a new AcceptEx ("returned to the pool", as  *)
(* CloseSocket's comment says), as far as the bound on connections allows. *)
(***************************************************************************)
ClosedSlotIsReused ==
    \A s \in Slots :
        (closedAt[s] = "cooling" /\ conn[s] < MaxConn) ~> AcceptsInFlight(s) # {}

=============================================================================
