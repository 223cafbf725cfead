------------------------- MODULE SessionPoolProofs -------------------------
(***************************************************************************)
(* Theorems about SessionPool, for any number of slots, workers and        *)
(* connections, and for any of the faults.                                 *)
(***************************************************************************)
EXTENDS SessionPool, TLAPS, FiniteSetTheorems

(***************************************************************************)
(* A thread that opens or closes a slot (worker or sender), and an         *)
(* accepter that has seen the slot free and is on its way to AcceptEx      *)
(***************************************************************************)
OwnerLabels == {"zero", "on", "closesocket", "setsocket", "clearbuf",
                "clearsending", "settime"}
Owns(t, s)  == at[t] = s /\ pc[t] \in OwnerLabels
Taking(s)   == at[Accepter] = s /\ pc[Accepter] \in {"diff", "take", "socket", "acceptex"}

(***************************************************************************)
(* The inductive strengthening of OneOwner.  The code never names a slot's *)
(* owner; what makes it unique is that each owner finds the slot's time at *)
(* UINT64_MAX and leaves it there until it hands the slot on:              *)
(*   - an accept in flight excludes a taker, an owner and is_activated_;   *)
(*   - an owner is alone, and excludes a taker and is_activated_;          *)
(*   - is_activated_ excludes a taker;                                     *)
(*   - and under each of them, and under an accepter past BindAccept's     *)
(*     first statement, the time is UINT64_MAX, so that CheckTime turns    *)
(*     the accepter away.                                                  *)
(***************************************************************************)
AcceptAlone ==
    \A c \in io : c.op = "accept" =>
        /\ closedAt[c.slot] = "max"
        /\ ~activated[c.slot]
        /\ ~Taking(c.slot)
        /\ \A t \in Closers : ~Owns(t, c.slot)
        /\ \A d \in io : d.op = "accept" /\ d.slot = c.slot => d = c

OwnerAlone ==
    \A t \in Closers : pc[t] \in OwnerLabels =>
        /\ closedAt[at[t]] = "max"
        /\ ~activated[at[t]]
        /\ ~Taking(at[t])
        /\ \A u \in Closers : Owns(u, at[t]) => u = t

ActiveAlone ==
    \A s \in Slots : activated[s] => closedAt[s] = "max" /\ ~Taking(s)

BindHoldsMax ==
    pc[Accepter] \in {"socket", "acceptex"} => closedAt[at[Accepter]] = "max"

OwnerInv == AcceptAlone /\ OwnerAlone /\ ActiveAlone /\ BindHoldsMax

IInv == TypeOK /\ OwnerInv
-----------------------------------------------------------------------------
(* Type correctness *)

LEMMA ThreadKinds ==
    /\ {Accepter, Sender, Packet} \subseteq Threads
    /\ Workers \subseteq Threads /\ Workers \subseteq Closers /\ Closers \subseteq Threads
    /\ Sender \in Closers
    /\ LabelsOf(Accepter) = AccepterLabels
    /\ LabelsOf(Sender) = SenderLabels
    /\ LabelsOf(Packet) = PacketLabels
    /\ \A w \in Workers : LabelsOf(w) = WorkerLabels
    /\ \A t \in Closers : CloseLabels \subseteq LabelsOf(t)
    /\ \A t \in Threads : LabelsOf(t) \subseteq Labels
<1>1. \A w \in Workers : w # Accepter /\ w # Sender /\ w # Packet
  BY PoolAssumption
<1>2. Accepter # Sender /\ Sender # Packet /\ Packet # Accepter
  BY PoolAssumption
<1>3. /\ LabelsOf(Accepter) = AccepterLabels
      /\ LabelsOf(Sender) = SenderLabels
      /\ LabelsOf(Packet) = PacketLabels
      /\ \A w \in Workers : LabelsOf(w) = WorkerLabels
  BY <1>1, <1>2 DEF LabelsOf
<1>4. CloseLabels \subseteq WorkerLabels /\ CloseLabels \subseteq SenderLabels
  BY DEF WorkerLabels, SenderLabels
<1>5. QED
  BY <1>3, <1>4 DEF Threads, Closers, Labels

LEMMA GotoType ==
    ASSUME ThreadsOK, NEW t \in Threads, NEW l \in LabelsOf(t), Goto(t, l)
    PROVE  pc' \in [Threads -> Labels] /\ \A u \in Threads : pc'[u] \in LabelsOf(u)
BY ThreadKinds DEF ThreadsOK, Goto

LEMMA MoveType ==
    ASSUME ThreadsOK, NEW t \in Threads, NEW l \in LabelsOf(t),
           Goto(t, l), UNCHANGED <<at, job>>
    PROVE  ThreadsOK'
BY GotoType DEF ThreadsOK

LEMMA NextSlotType ==
    ASSUME ThreadsOK, NEW t \in Threads, NEW l \in LabelsOf(t), NEW m \in LabelsOf(t),
           NextSlot(t, l, m), UNCHANGED job
    PROVE  ThreadsOK'
<1>1. at' \in [Threads -> Slots]
  BY PoolAssumption DEF NextSlot, ThreadsOK, Slots
<1>2. \E k \in LabelsOf(t) : Goto(t, k)
  BY DEF NextSlot
<1>3. QED
  BY <1>1, <1>2, GotoType DEF ThreadsOK

LEMMA FinishType ==
    ASSUME ThreadsOK, NEW t \in Closers, Finish(t)
    PROVE  ThreadsOK'
<1>1. at' \in [Threads -> Slots]
  BY PoolAssumption, ThreadKinds DEF Finish, ThreadsOK, Slots
<1>2. job' \in [Threads -> Jobs] /\ job'[Sender] = NoJob
  BY PoolAssumption, ThreadKinds DEF Finish, ThreadsOK, Jobs, NoJob, Ops
<1>3. \E l \in LabelsOf(t) : Goto(t, l)
  <2>1. CASE t = Sender
    BY <2>1, ThreadKinds DEF Finish, SenderLabels
  <2>2. CASE t \in Workers
    BY <2>2, ThreadKinds, PoolAssumption DEF Finish, WorkerLabels
  <2>3. QED
    BY <2>1, <2>2 DEF Closers
<1>4. QED
  BY <1>1, <1>2, <1>3, GotoType, ThreadKinds DEF ThreadsOK

LEMMA BeginType ==
    ASSUME ThreadsOK, NEW w \in Workers, NEW c, c.slot \in Slots, c.conn \in 0..MaxConn,
           c.op \in Ops \cup {"none"}, NEW l \in WorkerLabels, Begin(w, c, l)
    PROVE  ThreadsOK'
<1>1. at' \in [Threads -> Slots]
  BY ThreadKinds DEF Begin, ThreadsOK
<1>2. job' \in [Threads -> Jobs] /\ job'[Sender] = NoJob
  BY ThreadKinds, PoolAssumption DEF Begin, ThreadsOK, Jobs
<1>3. QED
  BY <1>1, <1>2, GotoType, ThreadKinds DEF Begin, ThreadsOK

LEMMA TypeInit == Init => TypeOK
<1> SUFFICES ASSUME Init PROVE TypeOK
  OBVIOUS
<1>1. FieldsOK
  <2>1. sessionCnt \in 0..(CntMod - 1)
    BY PoolAssumption DEF Init
  <2>2. QED
    BY <2>1, PoolAssumption DEF Init, FieldsOK, Ages
<1>0. KernelOK
  <2>1. crashed \in BOOLEAN /\ heard \in [Slots -> BOOLEAN]
    BY Zenon DEF Init
  <2>2. /\ conn \in [Slots -> 0..MaxConn] /\ gone \in [Slots -> 0..MaxConn]
        /\ link \in [Slots -> Links]
        /\ io \subseteq IoRecs
    BY PoolAssumption DEF Init, Links
  <2>3. QED
    BY <2>1, <2>2 DEF KernelOK
<1>2. at \in [Threads -> Slots] /\ job \in [Threads -> Jobs] /\ job[Sender] = NoJob
  BY PoolAssumption, ThreadKinds DEF Init, Slots, Jobs, NoJob, Ops
<1>3. \A t \in Threads : pc[t] \in LabelsOf(t)
  BY PoolAssumption, ThreadKinds DEF Init, Threads, WorkerLabels, AccepterLabels,
     SenderLabels, PacketLabels
<1>4. pc \in [Threads -> Labels]
  BY <1>3, ThreadKinds DEF Init
<1>5. QED
  BY <1>1, <1>0, <1>2, <1>3, <1>4 DEF TypeOK, ThreadsOK

LEMMA FieldsStep == TypeOK /\ [Next]_vars => FieldsOK'
<1> SUFFICES ASSUME TypeOK, [Next]_vars PROVE FieldsOK'
  OBVIOUS
<1> USE PoolAssumption DEF TypeOK, FieldsOK, KernelOK, ThreadsOK, Closers, Threads, Ages,
        session
<1>1. CASE ScanBegin
  BY <1>1 DEF ScanBegin, Goto
<1>2. CASE CheckActivated
  BY <1>2 DEF CheckActivated, Goto, NextSlot
<1>3. CASE CheckTime
  BY <1>3 DEF CheckTime, Goto, NextSlot
<1>4. CASE CheckDiff
  BY <1>4 DEF CheckDiff, Goto, NextSlot
<1>5. CASE TakeSlot
  BY <1>5 DEF TakeSlot, Goto
<1>6. CASE CreateSocket
  BY <1>6 DEF CreateSocket, Goto, NextSlot
<1>7. CASE PostAccept
  BY <1>7 DEF PostAccept, Goto, NextSlot, Rec
<1>8. CASE HasSendData
  BY <1>8 DEF HasSendData, Goto, NextSlot
<1>9. CASE BindSendCas
  BY <1>9 DEF BindSendCas, Goto, NextSlot
<1>10. CASE PostSend
  BY <1>10 DEF PostSend, Goto, Rec, ErrorHandler
<1>11. CASE MoveFront
  BY <1>11 DEF MoveFront, Goto, NextSlot
<1>12. CASE SendPacketEnqueue
  BY <1>12 DEF SendPacketEnqueue, Goto
<1>13. ASSUME NEW s \in Slots, SendPacketLock(s) PROVE FieldsOK'
  BY <1>13 DEF SendPacketLock, Goto
<1>14. ASSUME NEW w \in Workers, NEW c \in io, TakeExited(w, c) PROVE FieldsOK'
  BY <1>14 DEF TakeExited, Goto, Takes, Begin
<1>15. ASSUME NEW w \in Workers, NEW c \in io, TakeRecv(w, c) PROVE FieldsOK'
  BY <1>15 DEF TakeRecv, Goto, Takes, Begin
<1>16. ASSUME NEW w \in Workers, NEW c \in io, TakeSend(w, c) PROVE FieldsOK'
  BY <1>16 DEF TakeSend, Takes
<1>17. ASSUME NEW w \in Workers, NEW c \in io, TakeAccept(w, c) PROVE FieldsOK'
  BY <1>17 DEF TakeAccept, Goto, Takes, Begin
<1>18. ASSUME NEW w \in Workers, ActivateZero(w) PROVE FieldsOK'
  BY <1>18 DEF ActivateZero, Goto
<1>19. ASSUME NEW w \in Workers, ActivateOn(w) PROVE FieldsOK'
  BY <1>19 DEF ActivateOn, Goto
<1>20. ASSUME NEW w \in Workers, ActivateClear(w) PROVE FieldsOK'
  BY <1>20 DEF ActivateClear, Goto
<1>21. ASSUME NEW w \in Workers, BindRecv(w) PROVE FieldsOK'
  BY <1>21 DEF BindRecv, Goto, Rec, Finish, ErrorHandler
<1>22. ASSUME NEW w \in Workers, CountSession(w) PROVE FieldsOK'
  BY <1>22 DEF CountSession, Goto, Finish
<1>23. ASSUME NEW t \in Closers, CloseMax(t) PROVE FieldsOK'
  BY <1>23 DEF CloseMax, Goto
<1>24. ASSUME NEW t \in Closers, CloseCas(t) PROVE FieldsOK'
  BY <1>24 DEF CloseCas, Goto, CloseReturns, Finish
<1>25. ASSUME NEW t \in Closers, CloseHandle(t) PROVE FieldsOK'
  BY <1>25 DEF CloseHandle, Goto, Complete, PendingOps
<1>26. ASSUME NEW t \in Closers, ClearSocket(t) PROVE FieldsOK'
  BY <1>26 DEF ClearSocket, Goto
<1>27. ASSUME NEW t \in Closers, ClearSendBuffer(t) PROVE FieldsOK'
  BY <1>27 DEF ClearSendBuffer, Goto
<1>28. ASSUME NEW t \in Closers, ClearSending(t) PROVE FieldsOK'
  BY <1>28 DEF ClearSending, Goto
<1>29. ASSUME NEW t \in Closers, ReleaseSlot(t) PROVE FieldsOK'
  BY <1>29 DEF ReleaseSlot, Goto, CloseReturns, Finish
<1>30. ASSUME NEW s \in Slots, ReuseTimePasses(s) PROVE FieldsOK'
  BY <1>30 DEF ReuseTimePasses
<1>31. ASSUME NEW s \in Slots, PeerConnects(s) PROVE FieldsOK'
  BY <1>31 DEF PeerConnects, Complete, PendingOps, Pending
<1>32. ASSUME NEW s \in Slots, AcceptAborts(s) PROVE FieldsOK'
  BY <1>32 DEF AcceptAborts, Complete, PendingOps, Pending
<1>33. ASSUME NEW s \in Slots, PeerSends(s) PROVE FieldsOK'
  BY <1>33 DEF PeerSends, Complete, PendingOps, Pending
<1>34. ASSUME NEW s \in Slots, SendCompletes(s) PROVE FieldsOK'
  BY <1>34 DEF SendCompletes, Complete, PendingOps, Pending
<1>35. ASSUME NEW s \in Slots, PeerCloses(s) PROVE FieldsOK'
  BY <1>35 DEF PeerCloses, Complete, PendingOps, Pending
<1>36. ASSUME NEW s \in Slots, PeerResets(s) PROVE FieldsOK'
  BY <1>36 DEF PeerResets, Complete, PendingOps, Pending
<1>37. CASE UNCHANGED vars
  BY <1>37 DEF vars, session, kernel, logic
<1>38. QED
  BY <1>1, <1>2, <1>3, <1>4, <1>5, <1>6, <1>7, <1>8, <1>9, <1>10, <1>11, <1>12, <1>13,
     <1>14, <1>15, <1>16, <1>17, <1>18, <1>19, <1>20, <1>21, <1>22, <1>23, <1>24, <1>25,
     <1>26, <1>27, <1>28, <1>29, <1>30, <1>31, <1>32, <1>33, <1>34, <1>35, <1>36,
     <1>37 DEF Next, AccepterThread, SenderThread,
     PacketThread, WorkerThread, Gqcs, CloseSocket, Outside

LEMMA KernelStep == TypeOK /\ [Next]_vars => KernelOK'
<1> SUFFICES ASSUME TypeOK, [Next]_vars PROVE KernelOK'
  OBVIOUS
<1> USE PoolAssumption DEF TypeOK, KernelOK, FieldsOK, ThreadsOK, Closers, Threads,
        Links, IoRecs, Ops, logic, kernel
<1>1. CASE ScanBegin
  BY <1>1 DEF ScanBegin, Goto
<1>2. CASE CheckActivated
  BY <1>2 DEF CheckActivated, Goto, NextSlot
<1>3. CASE CheckTime
  BY <1>3 DEF CheckTime, Goto, NextSlot
<1>4. CASE CheckDiff
  BY <1>4 DEF CheckDiff, Goto, NextSlot
<1>5. CASE TakeSlot
  BY <1>5 DEF TakeSlot, Goto
<1>6. CASE CreateSocket
  BY <1>6 DEF CreateSocket, Goto, NextSlot
<1>7. CASE PostAccept
  BY <1>7 DEF PostAccept, Goto, NextSlot, Rec
<1>8. CASE HasSendData
  BY <1>8 DEF HasSendData, Goto, NextSlot
<1>9. CASE BindSendCas
  BY <1>9 DEF BindSendCas, Goto, NextSlot
<1>10. CASE PostSend
  BY <1>10 DEF PostSend, Goto, Rec, ErrorHandler
<1>11. CASE MoveFront
  BY <1>11 DEF MoveFront, Goto, NextSlot
<1>12. CASE SendPacketEnqueue
  BY <1>12 DEF SendPacketEnqueue, Goto
<1>13. ASSUME NEW s \in Slots, SendPacketLock(s) PROVE KernelOK'
  BY <1>13 DEF SendPacketLock, Goto
<1>14. ASSUME NEW w \in Workers, NEW c \in io, TakeExited(w, c) PROVE KernelOK'
  BY <1>14 DEF TakeExited, Goto, Takes, Begin
<1>15. ASSUME NEW w \in Workers, NEW c \in io, TakeRecv(w, c) PROVE KernelOK'
  BY <1>15 DEF TakeRecv, Goto, Takes, Begin
<1>16. ASSUME NEW w \in Workers, NEW c \in io, TakeSend(w, c) PROVE KernelOK'
  BY <1>16 DEF TakeSend, Takes
<1>17. ASSUME NEW w \in Workers, NEW c \in io, TakeAccept(w, c) PROVE KernelOK'
  BY <1>17 DEF TakeAccept, Goto, Takes, Begin
<1>18. ASSUME NEW w \in Workers, ActivateZero(w) PROVE KernelOK'
  BY <1>18 DEF ActivateZero, Goto
<1>19. ASSUME NEW w \in Workers, ActivateOn(w) PROVE KernelOK'
  BY <1>19 DEF ActivateOn, Goto
<1>20. ASSUME NEW w \in Workers, ActivateClear(w) PROVE KernelOK'
  BY <1>20 DEF ActivateClear, Goto
<1>21. ASSUME NEW w \in Workers, BindRecv(w) PROVE KernelOK'
  BY <1>21 DEF BindRecv, Goto, Rec, Finish, ErrorHandler
<1>22. ASSUME NEW w \in Workers, CountSession(w) PROVE KernelOK'
  BY <1>22 DEF CountSession, Goto, Finish
<1>23. ASSUME NEW t \in Closers, CloseMax(t) PROVE KernelOK'
  BY <1>23 DEF CloseMax, Goto
<1>24. ASSUME NEW t \in Closers, CloseCas(t) PROVE KernelOK'
  BY <1>24 DEF CloseCas, Goto, CloseReturns, Finish
<1>25. ASSUME NEW t \in Closers, CloseHandle(t) PROVE KernelOK'
  BY <1>25 DEF CloseHandle, Goto, Complete, PendingOps
<1>26. ASSUME NEW t \in Closers, ClearSocket(t) PROVE KernelOK'
  BY <1>26 DEF ClearSocket, Goto
<1>27. ASSUME NEW t \in Closers, ClearSendBuffer(t) PROVE KernelOK'
  BY <1>27 DEF ClearSendBuffer, Goto
<1>28. ASSUME NEW t \in Closers, ClearSending(t) PROVE KernelOK'
  BY <1>28 DEF ClearSending, Goto
<1>29. ASSUME NEW t \in Closers, ReleaseSlot(t) PROVE KernelOK'
  BY <1>29 DEF ReleaseSlot, Goto, CloseReturns, Finish
<1>30. ASSUME NEW s \in Slots, ReuseTimePasses(s) PROVE KernelOK'
  BY <1>30 DEF ReuseTimePasses
<1>31. ASSUME NEW s \in Slots, PeerConnects(s) PROVE KernelOK'
  BY <1>31 DEF PeerConnects, Complete, PendingOps, Pending
<1>32. ASSUME NEW s \in Slots, AcceptAborts(s) PROVE KernelOK'
  BY <1>32 DEF AcceptAborts, Complete, PendingOps, Pending
<1>33. ASSUME NEW s \in Slots, PeerSends(s) PROVE KernelOK'
  BY <1>33 DEF PeerSends, Complete, PendingOps, Pending
<1>34. ASSUME NEW s \in Slots, SendCompletes(s) PROVE KernelOK'
  BY <1>34 DEF SendCompletes, Complete, PendingOps, Pending
<1>35. ASSUME NEW s \in Slots, PeerCloses(s) PROVE KernelOK'
  BY <1>35 DEF PeerCloses, Complete, PendingOps, Pending
<1>36. ASSUME NEW s \in Slots, PeerResets(s) PROVE KernelOK'
  BY <1>36 DEF PeerResets, Complete, PendingOps, Pending
<1>37. CASE UNCHANGED vars
  BY <1>37 DEF vars, session, kernel, logic
<1>38. QED
  BY <1>1, <1>2, <1>3, <1>4, <1>5, <1>6, <1>7, <1>8, <1>9, <1>10, <1>11, <1>12, <1>13,
     <1>14, <1>15, <1>16, <1>17, <1>18, <1>19, <1>20, <1>21, <1>22, <1>23, <1>24, <1>25,
     <1>26, <1>27, <1>28, <1>29, <1>30, <1>31, <1>32, <1>33, <1>34, <1>35, <1>36,
     <1>37 DEF Next, AccepterThread, SenderThread,
     PacketThread, WorkerThread, Gqcs, CloseSocket, Outside

LEMMA ThreadsStep == TypeOK /\ [Next]_vars => ThreadsOK'
<1> SUFFICES ASSUME TypeOK, [Next]_vars PROVE ThreadsOK'
  OBVIOUS
<1> USE DEF TypeOK
<1>1. CASE ScanBegin
  BY <1>1, MoveType, ThreadKinds DEF ScanBegin, AccepterLabels
<1>2. CASE CheckActivated
  BY <1>2, MoveType, NextSlotType, ThreadKinds DEF CheckActivated, AccepterLabels
<1>3. CASE CheckTime
  BY <1>3, MoveType, NextSlotType, ThreadKinds DEF CheckTime, AccepterLabels
<1>4. CASE CheckDiff
  BY <1>4, MoveType, NextSlotType, ThreadKinds DEF CheckDiff, AccepterLabels
<1>5. CASE TakeSlot
  BY <1>5, MoveType, ThreadKinds DEF TakeSlot, AccepterLabels
<1>6. CASE CreateSocket
  BY <1>6, MoveType, NextSlotType, ThreadKinds DEF CreateSocket, AccepterLabels
<1>7. CASE PostAccept
  BY <1>7, MoveType, NextSlotType, ThreadKinds DEF PostAccept, AccepterLabels
<1>8. CASE HasSendData
  BY <1>8, MoveType, NextSlotType, ThreadKinds DEF HasSendData, SenderLabels
<1>9. CASE BindSendCas
  BY <1>9, MoveType, NextSlotType, ThreadKinds DEF BindSendCas, SenderLabels
<1>10. CASE PostSend
  BY <1>10, MoveType, ThreadKinds DEF PostSend, SenderLabels, ErrorHandler
<1>11. CASE MoveFront
  BY <1>11, MoveType, NextSlotType, ThreadKinds DEF MoveFront, SenderLabels
<1>12. CASE SendPacketEnqueue
  BY <1>12, GotoType, PoolAssumption, ThreadKinds DEF SendPacketEnqueue, PacketLabels,
     Slots, ThreadsOK
<1>13. ASSUME NEW s \in Slots, SendPacketLock(s) PROVE ThreadsOK'
  BY <1>13, GotoType, ThreadKinds DEF SendPacketLock, PacketLabels, ThreadsOK
<1>14. ASSUME NEW w \in Workers, NEW c \in io, TakeExited(w, c) PROVE ThreadsOK'
  BY <1>14, BeginType, ThreadKinds DEF TakeExited, Takes, WorkerLabels, KernelOK, IoRecs,
     CloseLabels, ThreadsOK
<1>15. ASSUME NEW w \in Workers, NEW c \in io, TakeRecv(w, c) PROVE ThreadsOK'
  BY <1>15, BeginType, ThreadKinds DEF TakeRecv, Takes, WorkerLabels, KernelOK, IoRecs,
     CloseLabels, ThreadsOK
<1>16. ASSUME NEW w \in Workers, NEW c \in io, TakeSend(w, c) PROVE ThreadsOK'
  BY <1>16 DEF TakeSend, Takes, ThreadsOK
<1>17. ASSUME NEW w \in Workers, NEW c \in io, TakeAccept(w, c) PROVE ThreadsOK'
  <2>1. c.slot \in Slots /\ c.conn \in 0..MaxConn /\ c.op \in Ops
    BY DEF KernelOK, IoRecs
  <2>2. CASE Begin(w, c, "zero")
    BY <2>1, <2>2, BeginType DEF WorkerLabels
  <2>3. CASE Begin(w, [c EXCEPT !.op = "none"], "close")
    <3>1. c = [slot |-> c.slot, conn |-> c.conn, op |-> c.op, status |-> c.status]
      BY DEF KernelOK, IoRecs
    <3> DEFINE d == [c EXCEPT !.op = "none"]
    <3>2. d.slot = c.slot /\ d.conn = c.conn /\ d.op = "none"
      BY <3>1
    <3>3. "close" \in WorkerLabels
      BY DEF WorkerLabels, CloseLabels
    <3> HIDE DEF d
    <3>4. QED
      BY <2>1, <2>3, <3>2, <3>3, BeginType DEF d
  <2>4. QED
    BY <1>17, <2>2, <2>3 DEF TakeAccept
<1>18. ASSUME NEW w \in Workers, ActivateZero(w) PROVE ThreadsOK'
  BY <1>18, MoveType, ThreadKinds DEF ActivateZero, WorkerLabels
<1>19. ASSUME NEW w \in Workers, ActivateOn(w) PROVE ThreadsOK'
  BY <1>19, MoveType, ThreadKinds DEF ActivateOn, WorkerLabels
<1>20. ASSUME NEW w \in Workers, ActivateClear(w) PROVE ThreadsOK'
  BY <1>20, MoveType, ThreadKinds DEF ActivateClear, WorkerLabels
<1>21. ASSUME NEW w \in Workers, BindRecv(w) PROVE ThreadsOK'
  BY <1>21, MoveType, FinishType, ThreadKinds DEF BindRecv, WorkerLabels, ErrorHandler,
     CloseLabels
<1>22. ASSUME NEW w \in Workers, CountSession(w) PROVE ThreadsOK'
  BY <1>22, FinishType, ThreadKinds DEF CountSession
<1>23. ASSUME NEW t \in Closers, CloseMax(t) PROVE ThreadsOK'
  BY <1>23, MoveType, ThreadKinds DEF CloseMax, CloseLabels
<1>24. ASSUME NEW t \in Closers, CloseCas(t) PROVE ThreadsOK'
  <2>1. CASE Goto(t, "closesocket") /\ UNCHANGED <<at, job>>
    BY <2>1, MoveType, ThreadKinds DEF CloseLabels
  <2>2. CASE job[t].op = "accept" /\ Goto(t, "count") /\ UNCHANGED <<at, job>>
    <3>1. t \in Workers
      BY <2>2 DEF ThreadsOK, Closers, NoJob
    <3>2. QED
      BY <2>2, <3>1, MoveType, ThreadKinds DEF WorkerLabels
  <2>3. QED
    BY <1>24, <2>1, <2>2, FinishType DEF CloseCas, CloseReturns
<1>25. ASSUME NEW t \in Closers, CloseHandle(t) PROVE ThreadsOK'
  BY <1>25, MoveType, ThreadKinds DEF CloseHandle, CloseLabels
<1>26. ASSUME NEW t \in Closers, ClearSocket(t) PROVE ThreadsOK'
  BY <1>26, MoveType, ThreadKinds DEF ClearSocket, CloseLabels
<1>27. ASSUME NEW t \in Closers, ClearSendBuffer(t) PROVE ThreadsOK'
  BY <1>27, MoveType, ThreadKinds DEF ClearSendBuffer, CloseLabels
<1>28. ASSUME NEW t \in Closers, ClearSending(t) PROVE ThreadsOK'
  BY <1>28, MoveType, ThreadKinds DEF ClearSending, CloseLabels
<1>29. ASSUME NEW t \in Closers, ReleaseSlot(t) PROVE ThreadsOK'
  <2>1. CASE Finish(t)
    BY <2>1, FinishType, ThreadKinds DEF CloseLabels
  <2>2. CASE job[t].op = "accept" /\ Goto(t, "count") /\ UNCHANGED <<at, job>>
    <3>1. t \in Workers
      BY <2>2 DEF ThreadsOK, Closers, NoJob
    <3>2. QED
      BY <2>2, <3>1, MoveType, ThreadKinds DEF WorkerLabels
  <2>3. QED
    BY <1>29, <2>1, <2>2, FinishType DEF ReleaseSlot, CloseReturns
<1>30. ASSUME NEW s \in Slots, ReuseTimePasses(s) PROVE ThreadsOK'
  BY <1>30 DEF ReuseTimePasses, ThreadsOK
<1>31. ASSUME NEW s \in Slots, PeerConnects(s) PROVE ThreadsOK'
  BY <1>31 DEF PeerConnects, ThreadsOK
<1>32. ASSUME NEW s \in Slots, AcceptAborts(s) PROVE ThreadsOK'
  BY <1>32 DEF AcceptAborts, ThreadsOK
<1>33. ASSUME NEW s \in Slots, PeerSends(s) PROVE ThreadsOK'
  BY <1>33 DEF PeerSends, ThreadsOK
<1>34. ASSUME NEW s \in Slots, SendCompletes(s) PROVE ThreadsOK'
  BY <1>34 DEF SendCompletes, ThreadsOK
<1>35. ASSUME NEW s \in Slots, PeerCloses(s) PROVE ThreadsOK'
  BY <1>35 DEF PeerCloses, ThreadsOK
<1>36. ASSUME NEW s \in Slots, PeerResets(s) PROVE ThreadsOK'
  BY <1>36 DEF PeerResets, ThreadsOK
<1>37. CASE UNCHANGED vars
  BY <1>37 DEF vars, ThreadsOK
<1>38. QED
  BY <1>1, <1>2, <1>3, <1>4, <1>5, <1>6, <1>7, <1>8, <1>9, <1>10, <1>11, <1>12, <1>13,
     <1>14, <1>15, <1>16, <1>17, <1>18, <1>19, <1>20, <1>21, <1>22, <1>23, <1>24, <1>25,
     <1>26, <1>27, <1>28, <1>29, <1>30, <1>31, <1>32, <1>33, <1>34, <1>35, <1>36,
     <1>37 DEF Next, AccepterThread, SenderThread,
     PacketThread, WorkerThread, Gqcs, CloseSocket, Outside

(* TypeOK holds in every reachable state. *)
THEOREM TypeCorrect == Spec => []TypeOK
<1>1. TypeOK /\ [Next]_vars => TypeOK'
  BY FieldsStep, ThreadsStep, KernelStep DEF TypeOK
<1>2. QED
  BY <1>1, TypeInit, PTL DEF Spec

-----------------------------------------------------------------------------
(* One owner *)

LEMMA OwnerInit == Init => OwnerInv
BY PoolAssumption DEF Init, OwnerInv, AcceptAlone, OwnerAlone, ActiveAlone, BindHoldsMax,
   Owns, Taking, OwnerLabels, Threads, Closers

(* Completing operations renames no accept: each accept still in flight stands *)
(* for one that was, and is still the only one of its slot.                    *)
LEMMA CompleteAccepts ==
    ASSUME TypeOK, AcceptAlone, NEW ops \in SUBSET io, NEW st, Complete(ops, st)
    PROVE  \A c \in io' : c.op = "accept" =>
               /\ \E d \in io : d.op = "accept" /\ d.slot = c.slot
               /\ \A e \in io' : e.op = "accept" /\ e.slot = c.slot => e = c
<1> DEFINE upd(c) == [c EXCEPT !.status = st]
<1>1. \A c \in io : /\ upd(c) = [slot |-> c.slot, conn |-> c.conn, op |-> c.op, status |-> st]
                    /\ upd(c).slot = c.slot /\ upd(c).op = c.op
  <2> SUFFICES ASSUME NEW c \in io
               PROVE  /\ upd(c) = [slot |-> c.slot, conn |-> c.conn, op |-> c.op, status |-> st]
                      /\ upd(c).slot = c.slot /\ upd(c).op = c.op
    OBVIOUS
  <2>1. c = [slot |-> c.slot, conn |-> c.conn, op |-> c.op, status |-> c.status]
    BY DEF TypeOK, KernelOK, IoRecs
  <2>2. QED
    BY <2>1
<1>2. io' = (io \ ops) \cup {upd(c) : c \in ops}
  BY DEF Complete
<1> HIDE DEF upd
<1>3. \A c \in io' : \E d \in io : /\ d.op = c.op /\ d.slot = c.slot
                                 /\ c = IF d \in ops THEN upd(d) ELSE d
  BY <1>1, <1>2
<1>4. \A d, e \in io : d.op = "accept" /\ e.op = "accept" /\ d.slot = e.slot => d = e
  BY DEF AcceptAlone
<1>5. QED
  BY <1>3, <1>4

LEMMA OwnerStep == IInv /\ [Next]_vars => OwnerInv'
<1> SUFFICES ASSUME TypeOK, OwnerInv, [Next]_vars PROVE OwnerInv'
  BY DEF IInv
<1> USE PoolAssumption DEF TypeOK, FieldsOK, ThreadsOK, KernelOK, OwnerInv, AcceptAlone,
        OwnerAlone, ActiveAlone, BindHoldsMax, Owns, Taking, OwnerLabels,
        Closers, Threads, session, kernel
<1>1. CASE ScanBegin
  BY <1>1 DEF ScanBegin, Goto
<1>2. CASE CheckActivated
  BY <1>2 DEF CheckActivated, Goto, NextSlot
<1>3. CASE CheckTime
  BY <1>3 DEF CheckTime, Goto, NextSlot
<1>4. CASE CheckDiff
  BY <1>4 DEF CheckDiff, Goto, NextSlot
<1>5. CASE TakeSlot
  BY <1>5 DEF TakeSlot, Goto
<1>6. CASE CreateSocket
  BY <1>6 DEF CreateSocket, Goto, NextSlot
<1>7. CASE PostAccept
  BY <1>7 DEF PostAccept, Goto, NextSlot, Rec
<1>8. CASE HasSendData
  BY <1>8 DEF HasSendData, Goto, NextSlot
<1>9. CASE BindSendCas
  BY <1>9 DEF BindSendCas, Goto, NextSlot
<1>10. CASE PostSend
  BY <1>10 DEF PostSend, Goto, Rec, ErrorHandler
<1>11. CASE MoveFront
  BY <1>11 DEF MoveFront, Goto, NextSlot
<1>12. CASE SendPacketEnqueue
  BY <1>12 DEF SendPacketEnqueue, Goto
<1>13. ASSUME NEW s \in Slots, SendPacketLock(s) PROVE OwnerInv'
  BY <1>13 DEF SendPacketLock, Goto
<1>14. ASSUME NEW w \in Workers, NEW c \in io, TakeExited(w, c) PROVE OwnerInv'
  BY <1>14 DEF TakeExited, Goto, Takes, Begin
<1>15. ASSUME NEW w \in Workers, NEW c \in io, TakeRecv(w, c) PROVE OwnerInv'
  BY <1>15 DEF TakeRecv, Goto, Takes, Begin
<1>16. ASSUME NEW w \in Workers, NEW c \in io, TakeSend(w, c) PROVE OwnerInv'
  BY <1>16 DEF TakeSend, Takes
<1>17. ASSUME NEW w \in Workers, NEW c \in io, TakeAccept(w, c) PROVE OwnerInv'
  BY <1>17 DEF TakeAccept, Goto, Takes, Begin
<1>18. ASSUME NEW w \in Workers, ActivateZero(w) PROVE OwnerInv'
  BY <1>18 DEF ActivateZero, Goto
<1>19. ASSUME NEW w \in Workers, ActivateOn(w) PROVE OwnerInv'
  BY <1>19 DEF ActivateOn, Goto
<1>20. ASSUME NEW w \in Workers, ActivateClear(w) PROVE OwnerInv'
  BY <1>20 DEF ActivateClear, Goto
<1>21. ASSUME NEW w \in Workers, BindRecv(w) PROVE OwnerInv'
  BY <1>21 DEF BindRecv, Goto, Rec, Finish, ErrorHandler
<1>22. ASSUME NEW w \in Workers, CountSession(w) PROVE OwnerInv'
  BY <1>22 DEF CountSession, Goto, Finish
<1>23. ASSUME NEW t \in Closers, CloseMax(t) PROVE OwnerInv'
  BY <1>23 DEF CloseMax, Goto
<1>24. ASSUME NEW t \in Closers, CloseCas(t) PROVE OwnerInv'
  <2>1. CASE activated[at[t]]
    <3>1. /\ pc[t] = "cas" /\ Goto(t, "closesocket")
          /\ activated' = [activated EXCEPT ![at[t]] = FALSE]
          /\ UNCHANGED <<closedAt, at, io>>
      BY <1>24, <2>1 DEF CloseCas
    <3>2. AcceptAlone'
      BY <2>1, <3>1 DEF Goto
    <3>3. OwnerAlone'
      BY <2>1, <3>1 DEF Goto
    <3>4. ActiveAlone' /\ BindHoldsMax'
      BY <2>1, <3>1 DEF Goto
    <3>5. QED
      BY <3>2, <3>3, <3>4
  <2>2. CASE ~activated[at[t]]
    BY <1>24, <2>2 DEF CloseCas, Goto, CloseReturns, Finish
  <2>3. QED
    BY <2>1, <2>2
<1>25. ASSUME NEW t \in Closers, CloseHandle(t) PROVE OwnerInv'
  <2>1. \E ops \in SUBSET io : Complete(ops, "fail")
    BY <1>25 DEF CloseHandle, PendingOps
  <2>2. /\ pc[t] = "closesocket" /\ Goto(t, "setsocket")
        /\ UNCHANGED <<closedAt, activated, at>>
    BY <1>25 DEF CloseHandle
  <2>3. AcceptAlone'
    BY <2>1, <2>2, CompleteAccepts DEF Goto
  <2>4. OwnerAlone' /\ ActiveAlone' /\ BindHoldsMax'
    BY <2>2 DEF Goto
  <2>5. QED
    BY <2>3, <2>4
<1>26. ASSUME NEW t \in Closers, ClearSocket(t) PROVE OwnerInv'
  BY <1>26 DEF ClearSocket, Goto
<1>27. ASSUME NEW t \in Closers, ClearSendBuffer(t) PROVE OwnerInv'
  BY <1>27 DEF ClearSendBuffer, Goto
<1>28. ASSUME NEW t \in Closers, ClearSending(t) PROVE OwnerInv'
  BY <1>28 DEF ClearSending, Goto
<1>29. ASSUME NEW t \in Closers, ReleaseSlot(t) PROVE OwnerInv'
  BY <1>29 DEF ReleaseSlot, Goto, CloseReturns, Finish
<1>30. ASSUME NEW s \in Slots, ReuseTimePasses(s) PROVE OwnerInv'
  BY <1>30 DEF ReuseTimePasses
<1>31. ASSUME NEW s \in Slots, PeerConnects(s) PROVE OwnerInv'
  <2>1. \E ops \in SUBSET io, st \in {"ok", "zero", "fail"} : Complete(ops, st)
    BY <1>31 DEF PeerConnects, Pending, PendingOps
  <2>2. UNCHANGED <<closedAt, activated, pc, at>>
    BY <1>31 DEF PeerConnects
  <2>3. QED
    BY <2>1, <2>2, CompleteAccepts
<1>32. ASSUME NEW s \in Slots, AcceptAborts(s) PROVE OwnerInv'
  <2>1. \E ops \in SUBSET io, st \in {"ok", "zero", "fail"} : Complete(ops, st)
    BY <1>32 DEF AcceptAborts, Pending, PendingOps
  <2>2. UNCHANGED <<closedAt, activated, pc, at>>
    BY <1>32 DEF AcceptAborts
  <2>3. QED
    BY <2>1, <2>2, CompleteAccepts
<1>33. ASSUME NEW s \in Slots, PeerSends(s) PROVE OwnerInv'
  <2>1. \E ops \in SUBSET io, st \in {"ok", "zero", "fail"} : Complete(ops, st)
    BY <1>33 DEF PeerSends, Pending, PendingOps
  <2>2. UNCHANGED <<closedAt, activated, pc, at>>
    BY <1>33 DEF PeerSends
  <2>3. QED
    BY <2>1, <2>2, CompleteAccepts
<1>34. ASSUME NEW s \in Slots, SendCompletes(s) PROVE OwnerInv'
  <2>1. \E ops \in SUBSET io, st \in {"ok", "zero", "fail"} : Complete(ops, st)
    BY <1>34 DEF SendCompletes, Pending, PendingOps
  <2>2. UNCHANGED <<closedAt, activated, pc, at>>
    BY <1>34 DEF SendCompletes
  <2>3. QED
    BY <2>1, <2>2, CompleteAccepts
<1>35. ASSUME NEW s \in Slots, PeerCloses(s) PROVE OwnerInv'
  <2>1. \E ops \in SUBSET io, st \in {"ok", "zero", "fail"} : Complete(ops, st)
    BY <1>35 DEF PeerCloses, Pending, PendingOps
  <2>2. UNCHANGED <<closedAt, activated, pc, at>>
    BY <1>35 DEF PeerCloses
  <2>3. QED
    BY <2>1, <2>2, CompleteAccepts
<1>36. ASSUME NEW s \in Slots, PeerResets(s) PROVE OwnerInv'
  <2>1. \E ops \in SUBSET io, st \in {"ok", "zero", "fail"} : Complete(ops, st)
    BY <1>36 DEF PeerResets, Pending, PendingOps
  <2>2. UNCHANGED <<closedAt, activated, pc, at>>
    BY <1>36 DEF PeerResets
  <2>3. QED
    BY <2>1, <2>2, CompleteAccepts
<1>37. CASE UNCHANGED vars
  BY <1>37 DEF vars, session, kernel, logic
<1>38. QED
  BY <1>1, <1>2, <1>3, <1>4, <1>5, <1>6, <1>7, <1>8, <1>9, <1>10, <1>11, <1>12, <1>13,
     <1>14, <1>15, <1>16, <1>17, <1>18, <1>19, <1>20, <1>21, <1>22, <1>23, <1>24, <1>25,
     <1>26, <1>27, <1>28, <1>29, <1>30, <1>31, <1>32, <1>33, <1>34, <1>35, <1>36,
     <1>37 DEF Next, AccepterThread, SenderThread,
     PacketThread, WorkerThread, Gqcs, CloseSocket, Outside

(* The inductive invariant *)
THEOREM Inductive == Spec => []IInv
<1>1. Init => IInv
  BY TypeInit, OwnerInit DEF IInv
<1>2. IInv /\ [Next]_vars => IInv'
  BY FieldsStep, ThreadsStep, KernelStep, OwnerStep DEF TypeOK, IInv
<1>3. QED
  BY <1>1, <1>2, PTL DEF Spec

(* A slot has one owner at a time. *)
THEOREM SlotsHaveOneOwner == Spec => []OneOwner
<1>1. IInv => OneOwner
  <2> SUFFICES ASSUME IInv, NEW s \in Slots
      PROVE  /\ \A c, d \in AcceptsInFlight(s) : c = d
             /\ \A v, w \in OpeningBy(s) : v = w
             /\ \A t, u \in ClosingBy(s) : t = u
             /\ Binding(s) => AcceptsInFlight(s) = {}
             /\ Binding(s) \/ AcceptsInFlight(s) # {} => OpeningBy(s) = {}
             /\ Binding(s) \/ AcceptsInFlight(s) # {} \/ OpeningBy(s) # {} => ~activated[s]
             /\ activated[s] \/ Binding(s) \/ AcceptsInFlight(s) # {} \/ OpeningBy(s) # {}
                    => ClosingBy(s) = {}
    BY DEF OneOwner
  <2>1. \A w \in OpeningBy(s) : w \in Closers /\ Owns(w, s)
    BY DEF OpeningBy, Closers, Owns, OwnerLabels
  <2>2. \A t \in ClosingBy(s) : t \in Closers /\ Owns(t, s)
    BY DEF ClosingBy, Owns, OwnerLabels
  <2>3. Binding(s) => Taking(s)
    BY DEF Binding, Taking
  <2>4. ASSUME NEW c \in AcceptsInFlight(s) PROVE /\ ~activated[s] /\ ~Taking(s)
                                                 /\ \A t \in Closers : ~Owns(t, s)
                                                 /\ \A d \in AcceptsInFlight(s) : d = c
    BY DEF IInv, OwnerInv, AcceptAlone, AcceptsInFlight
  <2>5. ASSUME NEW t \in Closers, Owns(t, s) PROVE /\ ~activated[s] /\ ~Taking(s)
                                                 /\ \A u \in Closers : Owns(u, s) => u = t
    BY <2>5 DEF IInv, OwnerInv, OwnerAlone, Owns
  <2>6. activated[s] => ~Taking(s)
    BY DEF IInv, OwnerInv, ActiveAlone
  <2>7. \A w \in OpeningBy(s) : w \notin ClosingBy(s)
    BY DEF OpeningBy, ClosingBy
  <2>8. \A v, w \in OpeningBy(s) : v = w
    BY <2>1, <2>5
  <2>9. \A t, u \in ClosingBy(s) : t = u
    BY <2>2, <2>5
  <2>10. OpeningBy(s) # {} => ClosingBy(s) = {} /\ ~activated[s] /\ ~Taking(s)
    BY <2>1, <2>2, <2>5, <2>7
  <2>11. ClosingBy(s) # {} => ~activated[s] /\ ~Taking(s)
    BY <2>2, <2>5
  <2>12. AcceptsInFlight(s) # {} => /\ OpeningBy(s) = {} /\ ClosingBy(s) = {}
                                   /\ ~activated[s] /\ ~Taking(s)
    BY <2>1, <2>2, <2>4
  <2>13. \A c, d \in AcceptsInFlight(s) : c = d
    BY DEF IInv, OwnerInv, AcceptAlone, AcceptsInFlight
  <2>14. QED
    BY <2>3, <2>6, <2>8, <2>9, <2>10, <2>11, <2>12, <2>13
<1>2. QED
  BY <1>1, Inductive, PTL

-----------------------------------------------------------------------------
(* The pool implements SlotLifecycle *)

(* The slots in each of the situations that Phase tells apart *)
ClosingSlots ==
    {s \in Slots : \E t \in Closers :
        at[t] = s /\ pc[t] \in {"closesocket", "setsocket", "clearbuf",
                               "clearsending", "settime"}}
BindingSlots    == {s \in Slots : at[Accepter] = s /\ pc[Accepter] = "acceptex"}
AcceptingSlots  == {s \in Slots : \E c \in io : c.slot = s /\ c.op = "accept"}
ActivatingSlots == {s \in Slots : \E w \in Workers : at[w] = s /\ pc[w] \in {"zero", "on"}}

PhaseOf == [s \in Slots |-> Phase(s)]
Refines == [Lifecycle!Next]_(Lifecycle!vars)

(* PhaseOf, read off these sets *)
PhaseRule ==
    PhaseOf = [s \in Slots |->
                 IF s \in ClosingSlots THEN "closing"
                 ELSE IF activated[s] THEN "active"
                 ELSE IF s \in BindingSlots \cup AcceptingSlots \cup ActivatingSlots
                      THEN "opening"
                 ELSE "idle"]

LEMMA PhaseIs == PhaseRule /\ PhaseRule'
<1>1. PhaseRule
  <2>1. \A s \in Slots : ClosingBy(s) # {} <=> s \in ClosingSlots
    BY DEF ClosingBy, ClosingSlots
  <2>2. \A s \in Slots : AcceptsInFlight(s) # {} <=> s \in AcceptingSlots
    BY DEF AcceptsInFlight, AcceptingSlots
  <2>3. \A s \in Slots : OpeningBy(s) # {} <=> s \in ActivatingSlots
    BY DEF OpeningBy, ActivatingSlots
  <2>4. \A s \in Slots : at[Accepter] = s /\ pc[Accepter] = "acceptex" <=> s \in BindingSlots
    BY DEF BindingSlots
  <2>5. QED
    BY <2>1, <2>2, <2>3, <2>4 DEF Phase, PhaseOf, PhaseRule
<1>2. QED
  BY <1>1, PTL

LEMMA Stutters ==
    ASSUME UNCHANGED <<ClosingSlots, AcceptingSlots, BindingSlots, ActivatingSlots,
                       activated, conn>>
    PROVE  Refines
<1>1. PhaseOf' = PhaseOf
  BY PhaseIs DEF PhaseRule
<1>2. QED
  BY <1>1 DEF Refines, Lifecycle!vars, PhaseOf

LEMMA Moves ==
    ASSUME NEW s \in Slots, NEW from, NEW to, PhaseOf[s] = from,
           PhaseOf' = [PhaseOf EXCEPT ![s] = to]
    PROVE  Lifecycle!Move(s, from, to)
BY DEF Lifecycle!Move, PhaseOf

(* A slot has an accept in flight after a completion if it had before. *)
LEMMA CompleteSlots ==
    ASSUME TypeOK, NEW ops \in SUBSET io, NEW st, Complete(ops, st)
    PROVE  UNCHANGED AcceptingSlots
<1> DEFINE upd(c) == [c EXCEPT !.status = st]
<1>1. \A c \in io : upd(c).slot = c.slot /\ upd(c).op = c.op
  <2> SUFFICES ASSUME NEW c \in io PROVE upd(c).slot = c.slot /\ upd(c).op = c.op
    OBVIOUS
  <2>1. c = [slot |-> c.slot, conn |-> c.conn, op |-> c.op, status |-> c.status]
    BY DEF TypeOK, KernelOK, IoRecs
  <2>2. QED
    BY <2>1
<1>2. io' = (io \ ops) \cup {upd(c) : c \in ops}
  BY DEF Complete
<1> HIDE DEF upd
<1>3. QED
  BY <1>1, <1>2 DEF AcceptingSlots

(* An accept that leaves the port with nobody to activate the slot is given up. *)
LEMMA LoseAccept ==
    ASSUME TypeOK, OwnerInv, NEW c \in io, c.op = "accept", io' = io \ {c},
           UNCHANGED <<ClosingSlots, BindingSlots, ActivatingSlots, activated, conn>>
    PROVE  Refines
<1> DEFINE s == c.slot
<1>1. s \in Slots /\ s \in AcceptingSlots
  BY DEF TypeOK, KernelOK, IoRecs, AcceptingSlots
<1>2. /\ ~activated[s]
      /\ s \notin ClosingSlots \cup BindingSlots \cup ActivatingSlots
  BY DEF OwnerInv, AcceptAlone, OwnerAlone, ActiveAlone, Owns, Taking, OwnerLabels,
     Closers, ClosingSlots, BindingSlots, ActivatingSlots
<1>3. AcceptingSlots' = AcceptingSlots \ {s}
  BY DEF OwnerInv, AcceptAlone, AcceptingSlots
<1>4. PhaseOf[s] = "opening"
  BY <1>1, <1>2, PhaseIs DEF PhaseRule
<1>5. PhaseOf' = [PhaseOf EXCEPT ![s] = "idle"]
  BY <1>1, <1>2, <1>3, PhaseIs DEF PhaseRule
<1>6. Lifecycle!Abandon(s)
  BY <1>1, <1>4, <1>5, Moves DEF Lifecycle!Abandon
<1>7. QED
  BY <1>1, <1>6 DEF Refines, Lifecycle!Next

LEMMA RefinementInit == Init => Lifecycle!Init
<1> SUFFICES ASSUME Init PROVE Lifecycle!Init
  OBVIOUS
<1>1. /\ ClosingSlots = {} /\ AcceptingSlots = {} /\ BindingSlots = {} /\ ActivatingSlots = {}
      /\ \A s \in Slots : ~activated[s]
  BY PoolAssumption DEF Init, ClosingSlots, AcceptingSlots, BindingSlots, ActivatingSlots,
     Closers, Threads
<1>2. PhaseOf = [s \in Slots |-> "idle"]
  BY <1>1, PhaseIs DEF PhaseRule
<1>3. QED
  BY <1>2 DEF Init, Lifecycle!Init, PhaseOf

LEMMA RefinementStep == IInv /\ [Next]_vars => Refines
<1> SUFFICES ASSUME TypeOK, OwnerInv, [Next]_vars PROVE Refines
  BY DEF IInv
<1> USE PoolAssumption DEF TypeOK, FieldsOK, ThreadsOK, KernelOK, Closers, Threads,
        session, kernel
<1>1. CASE ScanBegin
  <2>1. UNCHANGED <<ClosingSlots, AcceptingSlots, BindingSlots, ActivatingSlots, activated, conn>>
    BY <1>1 DEF ScanBegin, Goto, ClosingSlots, AcceptingSlots, BindingSlots, ActivatingSlots
  <2>2. QED
    BY <2>1, Stutters
<1>2. CASE CheckActivated
  <2>1. UNCHANGED <<ClosingSlots, AcceptingSlots, BindingSlots, ActivatingSlots, activated, conn>>
    BY <1>2 DEF CheckActivated, Goto, NextSlot, ClosingSlots, AcceptingSlots,
       BindingSlots, ActivatingSlots
  <2>2. QED
    BY <2>1, Stutters
<1>3. CASE CheckTime
  <2>1. UNCHANGED <<ClosingSlots, AcceptingSlots, BindingSlots, ActivatingSlots, activated, conn>>
    BY <1>3 DEF CheckTime, Goto, NextSlot, ClosingSlots, AcceptingSlots, BindingSlots,
       ActivatingSlots
  <2>2. QED
    BY <2>1, Stutters
<1>4. CASE CheckDiff
  <2>1. UNCHANGED <<ClosingSlots, AcceptingSlots, BindingSlots, ActivatingSlots, activated, conn>>
    BY <1>4 DEF CheckDiff, Goto, NextSlot, ClosingSlots, AcceptingSlots, BindingSlots,
       ActivatingSlots
  <2>2. QED
    BY <2>1, Stutters
<1>5. CASE TakeSlot
  <2>1. UNCHANGED <<ClosingSlots, AcceptingSlots, BindingSlots, ActivatingSlots, activated, conn>>
    BY <1>5 DEF TakeSlot, Goto, ClosingSlots, AcceptingSlots, BindingSlots, ActivatingSlots
  <2>2. QED
    BY <2>1, Stutters
<1>6. CASE CreateSocket
  <2> DEFINE s == at[Accepter]
  <2>1. s \in Slots /\ pc[Accepter] = "socket"
    BY <1>6  DEF CreateSocket
  <2>2. s \notin ClosingSlots \cup AcceptingSlots \cup ActivatingSlots \cup BindingSlots
    BY <2>1 DEF OwnerInv, AcceptAlone, OwnerAlone, ActiveAlone, Owns, Taking,
       OwnerLabels, ClosingSlots, AcceptingSlots, ActivatingSlots, BindingSlots
  <2>3. ~activated[s]
    BY <2>1 DEF OwnerInv, ActiveAlone, Taking
  <2>4. PhaseOf[s] = "idle"
    BY <2>1, <2>2, <2>3, PhaseIs DEF PhaseRule
  <2>5. UNCHANGED <<ClosingSlots, AcceptingSlots, ActivatingSlots, activated>>
    BY <1>6 DEF CreateSocket, Goto, NextSlot, ClosingSlots, AcceptingSlots, ActivatingSlots
  <2>6. CASE conn' = [conn EXCEPT ![s] = @ + 1] /\ Goto(Accepter,
  "acceptex") /\ UNCHANGED at
    <3>1. BindingSlots' = BindingSlots \cup {s}
      BY <2>1, <2>6 DEF Goto, BindingSlots
    <3>2. PhaseOf' = [PhaseOf EXCEPT ![s] = "opening"]
      BY <2>1, <2>2, <2>3, <2>5, <3>1, PhaseIs DEF PhaseRule
    <3>3. Lifecycle!Open(s)
      BY <2>1, <2>4, <2>6, <3>2, Moves DEF Lifecycle!Open
    <3>4. QED
      BY <2>1, <3>3 DEF Refines, Lifecycle!Next
  <2>7. CASE NextSlot(Accepter, "check", "scan") /\ UNCHANGED conn
    <3>1. UNCHANGED BindingSlots
      BY <2>1, <2>7 DEF NextSlot, Goto, BindingSlots
    <3>2. QED
      BY <2>5, <2>7, <3>1, Stutters
  <2>8. QED
    BY <1>6, <2>6, <2>7 DEF CreateSocket
<1>7. CASE PostAccept
  <2> DEFINE s == at[Accepter]
  <2>1. s \in Slots /\ pc[Accepter] = "acceptex"
    BY <1>7 DEF PostAccept
  <2>2. s \notin ClosingSlots \cup AcceptingSlots \cup ActivatingSlots /\ BindingSlots = {s}
    BY <2>1 DEF OwnerInv, AcceptAlone, OwnerAlone, ActiveAlone, Owns, Taking,
       OwnerLabels, ClosingSlots, AcceptingSlots, ActivatingSlots, BindingSlots
  <2>3. ~activated[s]
    BY <2>1 DEF OwnerInv, ActiveAlone, Taking
  <2>4. PhaseOf[s] = "opening"
    BY <2>1, <2>2, <2>3, PhaseIs DEF PhaseRule
  <2>5. /\ UNCHANGED <<ClosingSlots, ActivatingSlots, activated, conn>>
        /\ BindingSlots' = {}
    BY <1>7 DEF PostAccept, NextSlot, Goto, ClosingSlots, ActivatingSlots, BindingSlots
  <2>6. CASE io' = io \cup {Rec(s, "accept", "pending")}
    <3>1. AcceptingSlots' = AcceptingSlots \cup {s}
      <4> DEFINE r == Rec(s, "accept", "pending")
      <4>1. r.slot = s /\ r.op = "accept"
        BY DEF Rec
      <4> HIDE DEF r
      <4>2. QED
        BY <2>1, <2>6, <4>1 DEF AcceptingSlots, r
    <3>2. PhaseOf' = PhaseOf
      BY <2>1, <2>2, <2>3, <2>5, <3>1, PhaseIs DEF PhaseRule
    <3>3. QED
      BY <2>5, <3>2 DEF Refines, Lifecycle!vars, PhaseOf
  <2>7. CASE UNCHANGED io
    <3>1. UNCHANGED AcceptingSlots
      BY <2>7 DEF AcceptingSlots
    <3>2. PhaseOf' = [PhaseOf EXCEPT ![s] = "idle"]
      BY <2>1, <2>2, <2>3, <2>5, <3>1, PhaseIs DEF PhaseRule
    <3>3. Lifecycle!Abandon(s)
      BY <2>1, <2>4, <2>5, <3>2, Moves DEF Lifecycle!Abandon
    <3>4. QED
      BY <2>1, <3>3 DEF Refines, Lifecycle!Next
  <2>8. QED
    BY <1>7, <2>6, <2>7 DEF PostAccept
<1>8. CASE HasSendData
  <2>1. UNCHANGED <<ClosingSlots, AcceptingSlots, BindingSlots, ActivatingSlots, activated, conn>>
    BY <1>8 DEF HasSendData, Goto, NextSlot, ClosingSlots, AcceptingSlots, BindingSlots,
       ActivatingSlots
  <2>2. QED
    BY <2>1, Stutters
<1>9. CASE BindSendCas
  <2>1. UNCHANGED <<ClosingSlots, AcceptingSlots, BindingSlots, ActivatingSlots, activated, conn>>
    BY <1>9 DEF BindSendCas, Goto, NextSlot, ClosingSlots, AcceptingSlots, BindingSlots,
       ActivatingSlots
  <2>2. QED
    BY <2>1, Stutters
<1>10. CASE PostSend
  <2>1. UNCHANGED <<ClosingSlots, AcceptingSlots, BindingSlots, ActivatingSlots, activated, conn>>
    BY <1>10 DEF PostSend, Goto, Rec, ErrorHandler, ClosingSlots, AcceptingSlots,
       BindingSlots, ActivatingSlots
  <2>2. QED
    BY <2>1, Stutters
<1>11. CASE MoveFront
  <2>1. UNCHANGED <<ClosingSlots, AcceptingSlots, BindingSlots, ActivatingSlots, activated, conn>>
    BY <1>11 DEF MoveFront, Goto, NextSlot, ClosingSlots, AcceptingSlots, BindingSlots,
       ActivatingSlots
  <2>2. QED
    BY <2>1, Stutters
<1>12. CASE SendPacketEnqueue
  <2>1. UNCHANGED <<ClosingSlots, AcceptingSlots, BindingSlots, ActivatingSlots, activated, conn>>
    BY <1>12 DEF SendPacketEnqueue, Goto, ClosingSlots, AcceptingSlots, BindingSlots,
       ActivatingSlots
  <2>2. QED
    BY <2>1, Stutters
<1>13. ASSUME NEW s \in Slots, SendPacketLock(s) PROVE Refines
  <2>1. UNCHANGED <<ClosingSlots, AcceptingSlots, BindingSlots, ActivatingSlots, activated, conn>>
    BY <1>13 DEF SendPacketLock, Goto, ClosingSlots, AcceptingSlots, BindingSlots,
       ActivatingSlots
  <2>2. QED
    BY <2>1, Stutters
<1>14. ASSUME NEW w \in Workers, NEW c \in io, TakeExited(w, c) PROVE Refines
  <2>1. c.slot \in Slots /\ io' = io \ {c} /\ UNCHANGED <<activated, conn>>
    BY <1>14 DEF TakeExited, Takes, IoRecs
  <2>2. UNCHANGED <<ClosingSlots, BindingSlots, ActivatingSlots>>
    BY <1>14 DEF TakeExited, Takes, Begin, Goto, ClosingSlots, BindingSlots, ActivatingSlots
  <2>3. CASE c.op = "accept"
    BY <2>1, <2>2, <2>3, LoseAccept
  <2>4. CASE c.op # "accept"
    <3>1. UNCHANGED AcceptingSlots
      BY <2>1, <2>4 DEF AcceptingSlots
    <3>2. QED
      BY <2>1, <2>2, <3>1, Stutters
  <2>5. QED
    BY <2>3, <2>4
<1>15. ASSUME NEW w \in Workers, NEW c \in io, TakeRecv(w, c) PROVE Refines
  <2>1. UNCHANGED <<ClosingSlots, AcceptingSlots, BindingSlots, ActivatingSlots, activated, conn>>
    BY <1>15 DEF TakeRecv, Goto, Takes, Begin, ClosingSlots, AcceptingSlots,
       BindingSlots, ActivatingSlots
  <2>2. QED
    BY <2>1, Stutters
<1>16. ASSUME NEW w \in Workers, NEW c \in io, TakeSend(w, c) PROVE Refines
  <2>1. UNCHANGED <<ClosingSlots, AcceptingSlots, BindingSlots, ActivatingSlots, activated, conn>>
    BY <1>16 DEF TakeSend, Takes, ClosingSlots, AcceptingSlots, BindingSlots,
       ActivatingSlots
  <2>2. QED
    BY <2>1, Stutters
<1>17. ASSUME NEW w \in Workers, NEW c \in io, TakeAccept(w, c) PROVE Refines
  <2> DEFINE s == c.slot
  <2>1. s \in Slots /\ io' = io \ {c} /\ c.op = "accept" /\ UNCHANGED <<activated, conn>>
    BY <1>17 DEF TakeAccept, Takes, IoRecs
  <2>2. pc[w] = "gqcs"
    BY <1>17 DEF TakeAccept, Takes
  <2>3. CASE Begin(w, [c EXCEPT !.op = "none"], "close")
    <3>1. UNCHANGED <<ClosingSlots, BindingSlots, ActivatingSlots>>
      BY <2>2, <2>3 DEF Begin, Goto, ClosingSlots, BindingSlots, ActivatingSlots
    <3>2. QED
      BY <2>1, <3>1, LoseAccept
  <2>4. CASE Begin(w, c, "zero")
    <3>1. s \notin ClosingSlots \cup ActivatingSlots \cup BindingSlots /\ ~activated[s]
      BY <2>1 DEF OwnerInv, AcceptAlone, OwnerAlone, ActiveAlone, Owns, Taking,
         OwnerLabels, ClosingSlots, ActivatingSlots, BindingSlots
    <3>2. UNCHANGED <<ClosingSlots, BindingSlots>>
      BY <2>2, <2>4 DEF Begin, Goto, ClosingSlots, BindingSlots
    <3>3. ActivatingSlots' = ActivatingSlots \cup {s}
      BY <2>1, <2>2, <2>4 DEF Begin, Goto, ActivatingSlots
    <3>4. AcceptingSlots' \cup {s} = AcceptingSlots
      BY <2>1 DEF AcceptingSlots
    <3>5. PhaseOf' = PhaseOf
      BY <2>1, <3>1, <3>2, <3>3, <3>4, PhaseIs DEF PhaseRule
    <3>6. QED
      BY <2>1, <3>5 DEF Refines, Lifecycle!vars, PhaseOf
  <2>5. QED
    BY <1>17, <2>3, <2>4 DEF TakeAccept
<1>18. ASSUME NEW w \in Workers, ActivateZero(w) PROVE Refines
  <2>1. UNCHANGED <<ClosingSlots, AcceptingSlots, BindingSlots, ActivatingSlots, activated, conn>>
    BY <1>18 DEF ActivateZero, Goto, ClosingSlots, AcceptingSlots, BindingSlots,
       ActivatingSlots
  <2>2. QED
    BY <2>1, Stutters
<1>19. ASSUME NEW w \in Workers, ActivateOn(w) PROVE Refines
  <2> DEFINE s == at[w]
  <2>1. /\ s \in Slots /\ pc[w] = "on" /\ Goto(w, "clear")
        /\ activated' = [activated EXCEPT ![s] = TRUE]
        /\ UNCHANGED <<at, io, conn>>
    BY <1>19 DEF ActivateOn
  <2>2. s \notin ClosingSlots /\ s \in ActivatingSlots /\ ~activated[s]
    BY <2>1 DEF OwnerInv, AcceptAlone, OwnerAlone, ActiveAlone, Owns, Taking,
       OwnerLabels, ClosingSlots, ActivatingSlots
  <2>3. PhaseOf[s] = "opening"
    BY <2>1, <2>2, PhaseIs DEF PhaseRule
  <2>4. UNCHANGED <<ClosingSlots, BindingSlots, AcceptingSlots>>
    BY <2>1 DEF Goto, ClosingSlots, BindingSlots, AcceptingSlots
  <2>5. ActivatingSlots' = ActivatingSlots \ {s}
    BY <2>1 DEF OwnerInv, AcceptAlone, OwnerAlone, ActiveAlone, Owns, Taking,
       OwnerLabels, Goto, ActivatingSlots
  <2>6. PhaseOf' = [PhaseOf EXCEPT ![s] = "active"]
    BY <2>1, <2>2, <2>4, <2>5, PhaseIs DEF PhaseRule
  <2>7. Lifecycle!Establish(s)
    BY <2>1, <2>3, <2>6, Moves DEF Lifecycle!Establish
  <2>8. QED
    BY <2>1, <2>7 DEF Refines, Lifecycle!Next
<1>20. ASSUME NEW w \in Workers, ActivateClear(w) PROVE Refines
  <2>1. UNCHANGED <<ClosingSlots, AcceptingSlots, BindingSlots, ActivatingSlots, activated, conn>>
    BY <1>20 DEF ActivateClear, Goto, ClosingSlots, AcceptingSlots, BindingSlots,
       ActivatingSlots
  <2>2. QED
    BY <2>1, Stutters
<1>21. ASSUME NEW w \in Workers, BindRecv(w) PROVE Refines
  <2>1. UNCHANGED <<ClosingSlots, AcceptingSlots, BindingSlots, ActivatingSlots, activated, conn>>
    BY <1>21 DEF BindRecv, Goto, Rec, Finish, ErrorHandler, ClosingSlots, AcceptingSlots,
       BindingSlots, ActivatingSlots
  <2>2. QED
    BY <2>1, Stutters
<1>22. ASSUME NEW w \in Workers, CountSession(w) PROVE Refines
  <2>1. UNCHANGED <<ClosingSlots, AcceptingSlots, BindingSlots, ActivatingSlots, activated, conn>>
    BY <1>22 DEF CountSession, Goto, Finish, ClosingSlots, AcceptingSlots, BindingSlots,
       ActivatingSlots
  <2>2. QED
    BY <2>1, Stutters
<1>23. ASSUME NEW t \in Closers, CloseMax(t) PROVE Refines
  <2>1. UNCHANGED <<ClosingSlots, AcceptingSlots, BindingSlots, ActivatingSlots, activated, conn>>
    BY <1>23 DEF CloseMax, Goto, ClosingSlots, AcceptingSlots, BindingSlots, ActivatingSlots
  <2>2. QED
    BY <2>1, Stutters
<1>24. ASSUME NEW t \in Closers, CloseCas(t) PROVE Refines
  <2> DEFINE s == at[t]
  <2>1. s \in Slots /\ pc[t] = "cas" /\ UNCHANGED <<io, conn>>
    BY <1>24 DEF CloseCas
  <2>2. CASE activated[s]
    <3>1. /\ Goto(t, "closesocket") /\ UNCHANGED at
          /\ activated' = [activated EXCEPT ![s] = FALSE]
      BY <1>24, <2>2 DEF CloseCas
    <3>2. s \notin ClosingSlots
      BY <2>1, <2>2 DEF OwnerInv, AcceptAlone, OwnerAlone, ActiveAlone, Owns, Taking,
         OwnerLabels, ClosingSlots
    <3>3. PhaseOf[s] = "active"
      BY <2>1, <2>2, <3>2, PhaseIs DEF PhaseRule
    <3>4. ClosingSlots' = ClosingSlots \cup {s}
      BY <2>1, <3>1 DEF Goto, ClosingSlots
    <3>5. UNCHANGED <<BindingSlots, AcceptingSlots, ActivatingSlots>>
      BY <2>1, <3>1 DEF Goto, BindingSlots, AcceptingSlots, ActivatingSlots
    <3>6. PhaseOf' = [PhaseOf EXCEPT ![s] = "closing"]
      BY <2>1, <3>1, <3>4, <3>5, PhaseIs DEF PhaseRule
    <3>7. Lifecycle!Close(s)
      BY <2>1, <3>3, <3>6, Moves DEF Lifecycle!Close
    <3>8. QED
      BY <2>1, <3>7 DEF Refines, Lifecycle!Next
  <2>3. CASE ~activated[s]
    <3>1. UNCHANGED <<ClosingSlots, AcceptingSlots, BindingSlots, ActivatingSlots,
    activated>>
      BY <1>24, <2>3 DEF CloseCas, CloseReturns, Finish, Goto, ClosingSlots,
         AcceptingSlots, BindingSlots, ActivatingSlots
    <3>2. QED
      BY <2>1, <3>1, Stutters
  <2>4. QED
    BY <2>2, <2>3
<1>25. ASSUME NEW t \in Closers, CloseHandle(t) PROVE Refines
  <2>1. \E ops \in SUBSET io, st \in {"ok", "zero", "fail"} : Complete(ops, st)
    BY <1>25 DEF CloseHandle, PendingOps
  <2>2. UNCHANGED AcceptingSlots
    BY <2>1, CompleteSlots
  <2>3. UNCHANGED <<ClosingSlots, BindingSlots, ActivatingSlots, activated, conn>>
    BY <1>25 DEF CloseHandle, Goto, ClosingSlots, BindingSlots, ActivatingSlots
  <2>4. QED
    BY <2>2, <2>3, Stutters
<1>26. ASSUME NEW t \in Closers, ClearSocket(t) PROVE Refines
  <2>1. UNCHANGED <<ClosingSlots, AcceptingSlots, BindingSlots, ActivatingSlots, activated, conn>>
    BY <1>26 DEF ClearSocket, Goto, ClosingSlots, AcceptingSlots, BindingSlots,
       ActivatingSlots
  <2>2. QED
    BY <2>1, Stutters
<1>27. ASSUME NEW t \in Closers, ClearSendBuffer(t) PROVE Refines
  <2>1. UNCHANGED <<ClosingSlots, AcceptingSlots, BindingSlots, ActivatingSlots, activated, conn>>
    BY <1>27 DEF ClearSendBuffer, Goto, ClosingSlots, AcceptingSlots, BindingSlots,
       ActivatingSlots
  <2>2. QED
    BY <2>1, Stutters
<1>28. ASSUME NEW t \in Closers, ClearSending(t) PROVE Refines
  <2>1. UNCHANGED <<ClosingSlots, AcceptingSlots, BindingSlots, ActivatingSlots, activated, conn>>
    BY <1>28 DEF ClearSending, Goto, ClosingSlots, AcceptingSlots, BindingSlots,
       ActivatingSlots
  <2>2. QED
    BY <2>1, Stutters
<1>29. ASSUME NEW t \in Closers, ReleaseSlot(t) PROVE Refines
  <2> DEFINE s == at[t]
  <2>1. s \in Slots /\ pc[t] = "settime" /\ UNCHANGED <<activated, io, conn>>
    BY <1>29 DEF ReleaseSlot
  <2>2. /\ ~activated[s]
        /\ s \in ClosingSlots
        /\ s \notin BindingSlots \cup AcceptingSlots \cup ActivatingSlots
    BY <2>1 DEF OwnerInv, AcceptAlone, OwnerAlone, ActiveAlone, Owns, Taking,
       OwnerLabels, ClosingSlots, BindingSlots, AcceptingSlots, ActivatingSlots
  <2>3. ClosingSlots' = ClosingSlots \ {s}
    <3>1. \A u \in Closers : Owns(u, s) => u = t
      BY <2>1 DEF OwnerInv, OwnerAlone, OwnerLabels
    <3>2. \A u \in Closers \ {t} : at'[u] = at[u] /\ pc'[u] = pc[u]
      BY <1>29 DEF ReleaseSlot, CloseReturns, Finish, Goto
    <3>3. pc'[t] \in {"count", "hasdata", "gqcs"}
      BY <1>29 DEF ReleaseSlot, CloseReturns, Finish, Goto
    <3>4. QED
      BY <2>1, <3>1, <3>2, <3>3 DEF Owns, OwnerLabels, ClosingSlots
  <2>4. UNCHANGED <<BindingSlots, AcceptingSlots, ActivatingSlots>>
    BY <1>29 DEF ReleaseSlot, CloseReturns, Finish, Goto, BindingSlots, AcceptingSlots,
       ActivatingSlots
  <2>5. PhaseOf[s] = "closing"
    BY <2>1, <2>2, PhaseIs DEF PhaseRule
  <2>6. PhaseOf' = [PhaseOf EXCEPT ![s] = "idle"]
    BY <2>1, <2>2, <2>3, <2>4, PhaseIs DEF PhaseRule
  <2>7. Lifecycle!Release(s)
    BY <2>1, <2>5, <2>6, Moves DEF Lifecycle!Release
  <2>8. QED
    BY <2>1, <2>7 DEF Refines, Lifecycle!Next
<1>30. ASSUME NEW s \in Slots, ReuseTimePasses(s) PROVE Refines
  <2>1. UNCHANGED <<ClosingSlots, AcceptingSlots, BindingSlots, ActivatingSlots, activated, conn>>
    BY <1>30 DEF ReuseTimePasses, ClosingSlots, AcceptingSlots, BindingSlots,
       ActivatingSlots
  <2>2. QED
    BY <2>1, Stutters
<1>31. ASSUME NEW s \in Slots, PeerConnects(s) PROVE Refines
  <2>1. \E ops \in SUBSET io, st \in {"ok", "zero", "fail"} : Complete(ops, st)
    BY <1>31 DEF PeerConnects, PendingOps, Pending
  <2>2. UNCHANGED AcceptingSlots
    BY <2>1, CompleteSlots
  <2>3. UNCHANGED <<ClosingSlots, BindingSlots, ActivatingSlots, activated, conn>>
    BY <1>31 DEF PeerConnects, ClosingSlots, BindingSlots, ActivatingSlots
  <2>4. QED
    BY <2>2, <2>3, Stutters
<1>32. ASSUME NEW s \in Slots, AcceptAborts(s) PROVE Refines
  <2>1. \E ops \in SUBSET io, st \in {"ok", "zero", "fail"} : Complete(ops, st)
    BY <1>32 DEF AcceptAborts, PendingOps, Pending
  <2>2. UNCHANGED AcceptingSlots
    BY <2>1, CompleteSlots
  <2>3. UNCHANGED <<ClosingSlots, BindingSlots, ActivatingSlots, activated, conn>>
    BY <1>32 DEF AcceptAborts, ClosingSlots, BindingSlots, ActivatingSlots
  <2>4. QED
    BY <2>2, <2>3, Stutters
<1>33. ASSUME NEW s \in Slots, PeerSends(s) PROVE Refines
  <2>1. \E ops \in SUBSET io, st \in {"ok", "zero", "fail"} : Complete(ops, st)
    BY <1>33 DEF PeerSends, PendingOps, Pending
  <2>2. UNCHANGED AcceptingSlots
    BY <2>1, CompleteSlots
  <2>3. UNCHANGED <<ClosingSlots, BindingSlots, ActivatingSlots, activated, conn>>
    BY <1>33 DEF PeerSends, ClosingSlots, BindingSlots, ActivatingSlots
  <2>4. QED
    BY <2>2, <2>3, Stutters
<1>34. ASSUME NEW s \in Slots, SendCompletes(s) PROVE Refines
  <2>1. \E ops \in SUBSET io, st \in {"ok", "zero", "fail"} : Complete(ops, st)
    BY <1>34 DEF SendCompletes, PendingOps, Pending
  <2>2. UNCHANGED AcceptingSlots
    BY <2>1, CompleteSlots
  <2>3. UNCHANGED <<ClosingSlots, BindingSlots, ActivatingSlots, activated, conn>>
    BY <1>34 DEF SendCompletes, ClosingSlots, BindingSlots, ActivatingSlots
  <2>4. QED
    BY <2>2, <2>3, Stutters
<1>35. ASSUME NEW s \in Slots, PeerCloses(s) PROVE Refines
  <2>1. \E ops \in SUBSET io, st \in {"ok", "zero", "fail"} : Complete(ops, st)
    BY <1>35 DEF PeerCloses, PendingOps, Pending
  <2>2. UNCHANGED AcceptingSlots
    BY <2>1, CompleteSlots
  <2>3. UNCHANGED <<ClosingSlots, BindingSlots, ActivatingSlots, activated, conn>>
    BY <1>35 DEF PeerCloses, ClosingSlots, BindingSlots, ActivatingSlots
  <2>4. QED
    BY <2>2, <2>3, Stutters
<1>36. ASSUME NEW s \in Slots, PeerResets(s) PROVE Refines
  <2>1. \E ops \in SUBSET io, st \in {"ok", "zero", "fail"} : Complete(ops, st)
    BY <1>36 DEF PeerResets, PendingOps, Pending
  <2>2. UNCHANGED AcceptingSlots
    BY <2>1, CompleteSlots
  <2>3. UNCHANGED <<ClosingSlots, BindingSlots, ActivatingSlots, activated, conn>>
    BY <1>36 DEF PeerResets, ClosingSlots, BindingSlots, ActivatingSlots
  <2>4. QED
    BY <2>2, <2>3, Stutters
<1>37. CASE UNCHANGED vars
  BY <1>37, Stutters DEF vars, ClosingSlots, AcceptingSlots, BindingSlots, ActivatingSlots
<1>38. QED
  BY <1>1, <1>2, <1>3, <1>4, <1>5, <1>6, <1>7, <1>8, <1>9, <1>10, <1>11, <1>12, <1>13,
     <1>14, <1>15, <1>16, <1>17, <1>18, <1>19, <1>20, <1>21, <1>22, <1>23, <1>24, <1>25,
     <1>26, <1>27, <1>28, <1>29, <1>30, <1>31, <1>32, <1>33, <1>34, <1>35, <1>36,
     <1>37 DEF Next, AccepterThread, SenderThread,
     PacketThread, WorkerThread, Gqcs, CloseSocket, Outside

(* Every behaviour of the pool is, slot by slot, a behaviour of SlotLifecycle. *)
THEOREM Refinement == Spec => SlotsFollowLifecycle
<1>1. Spec => []IInv
  BY Inductive
<1>2. QED
  BY <1>1, RefinementInit, RefinementStep, PTL DEF Spec, SlotsFollowLifecycle,
     Lifecycle!Spec, Refines

-----------------------------------------------------------------------------
(* closesocket is called on the live socket of the latest connection *)

Up == {"up", "fin", "rst"}

(***************************************************************************)
(* From AcceptEx to closesocket the slot's socket is that of the latest    *)
(* connection, and from the accept's completion on the connection is up.   *)
(***************************************************************************)
AcceptLive ==
    \A c \in io : c.op = "accept" =>
        /\ socket[c.slot] = conn[c.slot]
        /\ c.status = "ok" => link[c.slot] \in Up

OwnerLive ==
    \A t \in Closers : pc[t] \in {"zero", "on", "closesocket"} =>
        /\ socket[at[t]] = conn[at[t]]
        /\ link[at[t]] \in Up

ActiveLive ==
    \A s \in Slots : activated[s] => socket[s] = conn[s] /\ link[s] \in Up

BindLive ==
    pc[Accepter] = "acceptex" => socket[at[Accepter]] = conn[at[Accepter]]

LiveInv == AcceptLive /\ OwnerLive /\ ActiveLive /\ BindLive

(* What Complete does to the records: the operation stays, the status is new. *)
LEMMA CompleteRecs ==
    ASSUME TypeOK, NEW ops \in SUBSET io, NEW st, Complete(ops, st)
    PROVE  \A c \in io' : \/ c \in io /\ c \notin ops
                         \/ /\ c.status = st
                            /\ \E d \in ops : d.op = c.op /\ d.slot = c.slot
<1> DEFINE upd(c) == [c EXCEPT !.status = st]
<1>1. \A c \in io : upd(c).slot = c.slot /\ upd(c).op = c.op /\ upd(c).status = st
  <2> SUFFICES ASSUME NEW c \in io
               PROVE  upd(c).slot = c.slot /\ upd(c).op = c.op /\ upd(c).status = st
    OBVIOUS
  <2>1. c = [slot |-> c.slot, conn |-> c.conn, op |-> c.op, status |-> c.status]
    BY DEF TypeOK, KernelOK, IoRecs
  <2>2. QED
    BY <2>1
<1>2. io' = (io \ ops) \cup {upd(c) : c \in ops}
  BY DEF Complete
<1> HIDE DEF upd
<1>3. QED
  BY <1>1, <1>2

LEMMA LiveInit == Init => LiveInv
BY PoolAssumption DEF Init, LiveInv, AcceptLive, OwnerLive, ActiveLive, BindLive,
   Threads, Closers

LEMMA LiveStep == IInv /\ LiveInv /\ [Next]_vars => LiveInv'
<1> SUFFICES ASSUME TypeOK, OwnerInv, LiveInv, [Next]_vars PROVE LiveInv'
  BY DEF IInv
<1> USE PoolAssumption DEF TypeOK, FieldsOK, ThreadsOK, KernelOK, IoRecs, Closers, Threads,
        session, kernel, LiveInv, AcceptLive, OwnerLive, ActiveLive, BindLive, Up
<1>1. CASE ScanBegin
  BY <1>1 DEF ScanBegin, Goto
<1>2. CASE CheckActivated
  BY <1>2 DEF CheckActivated, Goto, NextSlot
<1>3. CASE CheckTime
  BY <1>3 DEF CheckTime, Goto, NextSlot
<1>4. CASE CheckDiff
  BY <1>4 DEF CheckDiff, Goto, NextSlot
<1>5. CASE TakeSlot
  BY <1>5 DEF TakeSlot, Goto
<1>6. CASE CreateSocket
  <2> DEFINE s == at[Accepter]
  <2>1. s \in Slots /\ pc[Accepter] = "socket" /\ UNCHANGED <<activated, io>>
    BY <1>6 DEF CreateSocket
  <2>2. /\ ~activated[s]
        /\ \A t \in Closers : ~Owns(t, s)
        /\ \A c \in io : c.op = "accept" => c.slot # s
    BY <2>1 DEF OwnerInv, AcceptAlone, OwnerAlone, ActiveAlone, Owns, Taking, OwnerLabels
  <2>3. \A r \in Slots \ {s} : socket'[r] = socket[r] /\ link'[r] = link[r] /\ conn'[r] = conn[r]
    BY <1>6 DEF CreateSocket
  <2>4. \A t \in Closers : pc'[t] = pc[t] /\ at'[t] = at[t]
    BY <1>6 DEF CreateSocket, Goto, NextSlot
  <2>5. AcceptLive' /\ ActiveLive'
    BY <2>1, <2>2, <2>3
  <2>6. OwnerLive'
    BY <2>1, <2>2, <2>3, <2>4 DEF Owns, OwnerLabels
  <2>7. BindLive'
    BY <1>6 DEF CreateSocket, Goto, NextSlot
  <2>8. QED
    BY <2>5, <2>6, <2>7
<1>7. CASE PostAccept
  BY <1>7 DEF PostAccept, Goto, NextSlot, Rec
<1>8. CASE HasSendData
  BY <1>8 DEF HasSendData, Goto, NextSlot
<1>9. CASE BindSendCas
  BY <1>9 DEF BindSendCas, Goto, NextSlot
<1>10. CASE PostSend
  BY <1>10 DEF PostSend, Goto, Rec, ErrorHandler
<1>11. CASE MoveFront
  BY <1>11 DEF MoveFront, Goto, NextSlot
<1>12. CASE SendPacketEnqueue
  BY <1>12 DEF SendPacketEnqueue, Goto
<1>13. ASSUME NEW s \in Slots, SendPacketLock(s) PROVE LiveInv'
  BY <1>13 DEF SendPacketLock, Goto
<1>14. ASSUME NEW w \in Workers, NEW c \in io, TakeExited(w, c) PROVE LiveInv'
  BY <1>14 DEF TakeExited, Goto, Takes, Begin
<1>15. ASSUME NEW w \in Workers, NEW c \in io, TakeRecv(w, c) PROVE LiveInv'
  BY <1>15 DEF TakeRecv, Goto, Takes, Begin
<1>16. ASSUME NEW w \in Workers, NEW c \in io, TakeSend(w, c) PROVE LiveInv'
  BY <1>16 DEF TakeSend, Takes
<1>17. ASSUME NEW w \in Workers, NEW c \in io, TakeAccept(w, c) PROVE LiveInv'
  BY <1>17 DEF TakeAccept, Goto, Takes, Begin
<1>18. ASSUME NEW w \in Workers, ActivateZero(w) PROVE LiveInv'
  BY <1>18 DEF ActivateZero, Goto
<1>19. ASSUME NEW w \in Workers, ActivateOn(w) PROVE LiveInv'
  BY <1>19 DEF ActivateOn, Goto
<1>20. ASSUME NEW w \in Workers, ActivateClear(w) PROVE LiveInv'
  BY <1>20 DEF ActivateClear, Goto
<1>21. ASSUME NEW w \in Workers, BindRecv(w) PROVE LiveInv'
  BY <1>21 DEF BindRecv, Goto, Rec, Finish, ErrorHandler
<1>22. ASSUME NEW w \in Workers, CountSession(w) PROVE LiveInv'
  BY <1>22 DEF CountSession, Goto, Finish
<1>23. ASSUME NEW t \in Closers, CloseMax(t) PROVE LiveInv'
  BY <1>23 DEF CloseMax, Goto
<1>24. ASSUME NEW t \in Closers, CloseCas(t) PROVE LiveInv'
  BY <1>24 DEF CloseCas, Goto, CloseReturns, Finish
<1>25. ASSUME NEW t \in Closers, CloseHandle(t) PROVE LiveInv'
  <2>1. PICK ops \in SUBSET io : /\ Complete(ops, "fail")
                                /\ \A c \in ops : c.slot = at[t]
    BY <1>25 DEF CloseHandle, PendingOps
  <2>2. /\ pc[t] = "closesocket" /\ Goto(t, "setsocket")
        /\ link' = [link EXCEPT ![at[t]] = "none"]
        /\ UNCHANGED <<activated, socket, at, conn>>
    BY <1>25 DEF CloseHandle
  <2>3. /\ ~activated[at[t]] /\ ~Taking(at[t])
        /\ \A u \in Closers : Owns(u, at[t]) => u = t
        /\ \A c \in io : c.op = "accept" => c.slot # at[t]
    BY <2>2 DEF OwnerInv, AcceptAlone, OwnerAlone, ActiveAlone, Owns, Taking, OwnerLabels
  <2>4. AcceptLive'
    BY <2>1, <2>2, <2>3, CompleteRecs
  <2>5. OwnerLive'
    BY <2>2, <2>3 DEF Goto, Owns, OwnerLabels
  <2>6. QED
    BY <2>2, <2>3, <2>4, <2>5 DEF Goto, Taking
<1>26. ASSUME NEW t \in Closers, ClearSocket(t) PROVE LiveInv'
  <2> DEFINE s == at[t]
  <2>1. /\ s \in Slots /\ pc[t] = "setsocket" /\ Goto(t, "clearbuf")
        /\ socket' = [socket EXCEPT ![s] = 0]
        /\ UNCHANGED <<activated, io, at, conn, link>>
    BY <1>26 DEF ClearSocket
  <2>2. /\ ~activated[s] /\ ~Taking(s)
        /\ \A u \in Closers : Owns(u, s) => u = t
        /\ \A c \in io : c.op = "accept" => c.slot # s
    BY <2>1 DEF OwnerInv, AcceptAlone, OwnerAlone, ActiveAlone, Owns, Taking, OwnerLabels
  <2>3. AcceptLive' /\ ActiveLive'
    BY <2>1, <2>2
  <2>4. OwnerLive'
    BY <2>1, <2>2 DEF Goto, Owns, OwnerLabels
  <2>5. BindLive'
    BY <2>1, <2>2 DEF Goto, Taking
  <2>6. QED
    BY <2>3, <2>4, <2>5
<1>27. ASSUME NEW t \in Closers, ClearSendBuffer(t) PROVE LiveInv'
  BY <1>27 DEF ClearSendBuffer, Goto
<1>28. ASSUME NEW t \in Closers, ClearSending(t) PROVE LiveInv'
  BY <1>28 DEF ClearSending, Goto
<1>29. ASSUME NEW t \in Closers, ReleaseSlot(t) PROVE LiveInv'
  BY <1>29 DEF ReleaseSlot, Goto, CloseReturns, Finish
<1>30. ASSUME NEW s \in Slots, ReuseTimePasses(s) PROVE LiveInv'
  BY <1>30 DEF ReuseTimePasses
<1>31. ASSUME NEW s \in Slots, PeerConnects(s) PROVE LiveInv'
  <2>1. PICK ops \in SUBSET io : /\ Complete(ops, "ok")
                                /\ \A c \in ops : c.slot = s
    BY <1>31 DEF PeerConnects, PendingOps, Pending
  <2>2. /\ link' = [link EXCEPT ![s] = "up"]
        /\ UNCHANGED <<activated, socket, pc, at, conn>>
    BY <1>31 DEF PeerConnects
  <2>3. AcceptLive'
    BY <2>1, <2>2, CompleteRecs
  <2>4. QED
    BY <2>2, <2>3
<1>32. ASSUME NEW s \in Slots, AcceptAborts(s) PROVE LiveInv'
  <2>1. PICK ops \in SUBSET io : Complete(ops, "fail")
    BY <1>32 DEF AcceptAborts, PendingOps, Pending
  <2>2. /\ UNCHANGED link
        /\ UNCHANGED <<activated, socket, pc, at, conn>>
    BY <1>32 DEF AcceptAborts
  <2>3. AcceptLive'
    BY <2>1, <2>2, CompleteRecs
  <2>4. QED
    BY <2>2, <2>3
<1>33. ASSUME NEW s \in Slots, PeerSends(s) PROVE LiveInv'
  <2>1. PICK ops \in SUBSET io : /\ Complete(ops, "ok")
                                /\ \A c \in ops : c.op # "accept"
    BY <1>33 DEF PeerSends, PendingOps, Pending
  <2>2. \A c \in io' : c.op = "accept" => c \in io
    BY <2>1, CompleteRecs
  <2>3. UNCHANGED <<activated, socket, pc, at, conn, link>>
    BY <1>33 DEF PeerSends
  <2>4. QED
    BY <2>2, <2>3
<1>34. ASSUME NEW s \in Slots, SendCompletes(s) PROVE LiveInv'
  <2>1. PICK ops \in SUBSET io : /\ Complete(ops, "ok")
                                /\ \A c \in ops : c.op # "accept"
    BY <1>34 DEF SendCompletes, PendingOps, Pending
  <2>2. \A c \in io' : c.op = "accept" => c \in io
    BY <2>1, CompleteRecs
  <2>3. UNCHANGED <<activated, socket, pc, at, conn, link>>
    BY <1>34 DEF SendCompletes
  <2>4. QED
    BY <2>2, <2>3
<1>35. ASSUME NEW s \in Slots, PeerCloses(s) PROVE LiveInv'
  <2>1. PICK ops \in SUBSET io : Complete(ops, "zero")
    BY <1>35 DEF PeerCloses, PendingOps, Pending
  <2>2. /\ link[s] = "up" /\ link' = [link EXCEPT ![s] = "fin"]
        /\ UNCHANGED <<activated, socket, pc, at, conn>>
    BY <1>35 DEF PeerCloses
  <2>3. AcceptLive'
    BY <2>1, <2>2, CompleteRecs
  <2>4. QED
    BY <2>2, <2>3
<1>36. ASSUME NEW s \in Slots, PeerResets(s) PROVE LiveInv'
  <2>1. PICK ops \in SUBSET io : Complete(ops, "fail")
    BY <1>36 DEF PeerResets, PendingOps, Pending
  <2>2. /\ link[s] \in {"up", "fin"} /\ link' = [link EXCEPT ![s] = "rst"]
        /\ UNCHANGED <<activated, socket, pc, at, conn>>
    BY <1>36 DEF PeerResets
  <2>3. AcceptLive'
    BY <2>1, <2>2, CompleteRecs
  <2>4. QED
    BY <2>2, <2>3
<1>37. CASE UNCHANGED vars
  BY <1>37 DEF vars, session, kernel, logic
<1>38. QED
  BY <1>1, <1>2, <1>3, <1>4, <1>5, <1>6, <1>7, <1>8, <1>9, <1>10, <1>11, <1>12, <1>13,
     <1>14, <1>15, <1>16, <1>17, <1>18, <1>19, <1>20, <1>21, <1>22, <1>23, <1>24, <1>25,
     <1>26, <1>27, <1>28, <1>29, <1>30, <1>31, <1>32, <1>33, <1>34, <1>35, <1>36,
     <1>37 DEF Next, AccepterThread, SenderThread,
     PacketThread, WorkerThread, Gqcs, CloseSocket, Outside

(* closesocket is only called on the open socket of the slot's latest connection. *)
THEOREM ClosesOnlyLiveSockets == Spec => []ClosesLiveSocket
<1>1. Init => IInv /\ LiveInv
  BY TypeInit, OwnerInit, LiveInit DEF IInv
<1>2. IInv /\ LiveInv /\ [Next]_vars => (IInv /\ LiveInv)'
  BY FieldsStep, ThreadsStep, KernelStep, OwnerStep, LiveStep DEF TypeOK, IInv
<1>3. LiveInv => ClosesLiveSocket
  BY DEF LiveInv, OwnerLive, ClosesLiveSocket, Up
<1>4. QED
  BY <1>1, <1>2, <1>3, PTL DEF Spec

-----------------------------------------------------------------------------
(***************************************************************************)
(* Nothing of the pool gets lost on the books: session_cnt_ is the number  *)
(* of active sessions, and a slot whose time is UINT64_MAX has somebody    *)
(* who will give it back.  Neither needs a timing assumption.              *)
(***************************************************************************)

-----------------------------------------------------------------------------
(* Arithmetic modulo CntMod *)

LEMMA ModDef ==
    ASSUME NEW m \in Nat \ {0}, NEW a \in Int
    PROVE  \E q \in Int : \E r \in 0..(m - 1) : a = m * q + r /\ r = a % m
<1>1. a = m * (a \div m) + (a % m)
  BY Z3
<1>2. a \div m \in Int /\ a % m \in 0..(m - 1)
  OBVIOUS
<1>3. QED
  BY <1>1, <1>2

LEMMA ModUnique ==
    ASSUME NEW m \in Nat \ {0}, NEW q \in Int, NEW p \in Int,
           NEW r \in 0..(m - 1), NEW k \in 0..(m - 1), m * q + r = m * p + k
    PROVE  r = k
<1>1. m * (q - p) = k - r
  OBVIOUS
<1>2. CASE q = p
  BY <1>2
<1>3. CASE q > p
  <2>1. m * (q - p) >= m
    BY <1>3
  <2>2. QED
    BY <2>1, <1>1
<1>4. CASE q < p
  <2>1. m * (p - q) >= m
    BY <1>4
  <2>2. m * (p - q) = r - k
    BY <1>1
  <2>3. QED
    BY <2>1, <2>2
<1>5. QED
  BY <1>2, <1>3, <1>4

(* A remainder may be taken before an addition. *)
LEMMA ModShift ==
    ASSUME NEW m \in Nat \ {0}, NEW a \in Int, NEW d \in Int
    PROVE  ((a % m) + d) % m = (a + d) % m
<1>1. PICK q \in Int, r \in 0..(m - 1) : a = m * q + r /\ r = a % m
  BY ModDef
<1> DEFINE b == r + d
           c == a + d
<1>2. b \in Int /\ c \in Int
  OBVIOUS
<1> HIDE DEF b, c
<1>3. PICK p \in Int, k \in 0..(m - 1) : b = m * p + k /\ k = b % m
  BY <1>2, ModDef
<1>4. PICK t \in Int, l \in 0..(m - 1) : c = m * t + l /\ l = c % m
  BY <1>2, ModDef
<1>5. m * t + l = m * (p + q) + k
  <2>1. m * (p + q) = m * p + m * q
    OBVIOUS
  <2>2. m * t + l = (m * q + r) + d /\ m * p + k = r + d
    BY <1>1, <1>3, <1>4 DEF b, c
  <2>3. m * t \in Int /\ m * q \in Int /\ m * p \in Int /\ m * (p + q) \in Int
    OBVIOUS
  <2>4. QED
    BY <2>1, <2>2, <2>3
<1>6. l = k
  BY <1>5, ModUnique
<1>7. QED
  BY <1>1, <1>3, <1>4, <1>6 DEF b, c

-----------------------------------------------------------------------------
(* session_cnt_ *)

(* The three sets that SessionCntExact counts *)
ActiveSet    == {s \in Slots : activated[s]}
UncountedSet == {w \in Workers : job[w].op = "accept" /\ pc[w] \notin {"gqcs", "zero", "on"}}
ClosingSet   == {t \in Closers : pc[t] \in {"closesocket", "setsocket", "clearbuf",
                                           "clearsending", "settime"}}

Balance == Cardinality(ActiveSet) + Cardinality(ClosingSet) - Cardinality(UncountedSet)

(***************************************************************************)
(* The inductive invariant: beside the balance, that only the handler of   *)
(* an accept activates a session and comes to ++session_cnt_.              *)
(***************************************************************************)
AcceptJobs ==
    \A w \in Workers : pc[w] \in {"zero", "on", "clear", "count"} => job[w].op = "accept"

CountInv == sessionCnt = Balance % CntMod /\ AcceptJobs

LEMMA SetsFinite ==
    ASSUME TypeOK
    PROVE  /\ IsFiniteSet(ActiveSet) /\ Cardinality(ActiveSet) \in Nat
           /\ IsFiniteSet(ClosingSet) /\ Cardinality(ClosingSet) \in Nat
           /\ IsFiniteSet(UncountedSet) /\ Cardinality(UncountedSet) \in Nat
<1>1. IsFiniteSet(Slots)
  BY FS_Interval, PoolAssumption DEF Slots
<1>2. IsFiniteSet(Closers)
  BY WorkersFinite, FS_AddElement DEF Closers
<1>3. IsFiniteSet(ActiveSet) /\ IsFiniteSet(ClosingSet) /\ IsFiniteSet(UncountedSet)
  <2>1. ActiveSet \in SUBSET Slots /\ ClosingSet \in SUBSET Closers
        /\ UncountedSet \in SUBSET Workers
    BY DEF ActiveSet, ClosingSet, UncountedSet
  <2>2. QED
    BY <1>1, <1>2, <2>1, WorkersFinite, FS_Subset
<1>4. QED
  BY <1>3, FS_CardinalityType

LEMMA CountIs ==
    ASSUME TypeOK
    PROVE  SessionCntExact <=> sessionCnt = Balance % CntMod
<1>1. {t \in Closers : \E s \in Slots : t \in ClosingBy(s)} = ClosingSet
  BY ThreadKinds DEF ClosingBy, ClosingSet, TypeOK, ThreadsOK
<1>2. QED
  BY <1>1 DEF SessionCntExact, Balance, ActiveSet, UncountedSet

LEMMA CountInit == Init => CountInv
<1> SUFFICES ASSUME Init PROVE CountInv
  OBVIOUS
<1>1. \A w \in Workers : pc[w] = "gqcs"
  BY PoolAssumption DEF Init, Threads
<1>2. pc[Sender] = "hasdata"
  BY PoolAssumption DEF Init, Threads
<1>3. ActiveSet = {} /\ UncountedSet = {}
  BY <1>1 DEF Init, ActiveSet, UncountedSet
<1>4. ClosingSet = {}
  BY <1>1, <1>2 DEF ClosingSet, Closers
<1>5. Balance = 0
  BY <1>3, <1>4, FS_EmptySet DEF Balance
<1>6. 0 % CntMod = 0
  BY PoolAssumption
<1>7. QED
  BY <1>1, <1>5, <1>6 DEF CountInv, AcceptJobs, Init

LEMMA CountShift ==
    ASSUME NEW b \in Int
    PROVE  /\ ((b % CntMod) + 1) % CntMod = (b + 1) % CntMod
           /\ ((b % CntMod) - 1) % CntMod = (b - 1) % CntMod
<1> DEFINE up == 1
           down == -1
<1>1. CntMod \in Nat \ {0} /\ up \in Int /\ down \in Int /\ b % CntMod \in Int
  BY PoolAssumption
<1> HIDE DEF up, down
<1>2. ((b % CntMod) + up) % CntMod = (b + up) % CntMod
  BY <1>1, ModShift
<1>3. ((b % CntMod) + down) % CntMod = (b + down) % CntMod
  BY <1>1, ModShift
<1>4. (b % CntMod) + down = (b % CntMod) - 1 /\ b + down = b - 1
  BY <1>1 DEF down
<1>5. QED
  BY <1>2, <1>3, <1>4 DEF up

LEMMA OneMore ==
    ASSUME NEW S, IsFiniteSet(S), NEW x, x \notin S
    PROVE  Cardinality(S \cup {x}) = Cardinality(S) + 1
BY FS_AddElement

LEMMA OneLess ==
    ASSUME NEW S, IsFiniteSet(S), NEW x, x \in S
    PROVE  Cardinality(S \ {x}) = Cardinality(S) - 1
BY FS_RemoveElement

LEMMA CountStep ==
    ASSUME TypeOK, OwnerInv, CountInv, [Next]_vars
    PROVE  sessionCnt' = Balance' % CntMod
<1> DEFINE Same == UNCHANGED <<ActiveSet, ClosingSet, UncountedSet, sessionCnt>>
<1>00. /\ IsFiniteSet(ActiveSet) /\ Cardinality(ActiveSet) \in Nat
      /\ IsFiniteSet(ClosingSet) /\ Cardinality(ClosingSet) \in Nat
      /\ IsFiniteSet(UncountedSet) /\ Cardinality(UncountedSet) \in Nat
      /\ Balance \in Int
  BY SetsFinite DEF Balance
<1>0. ASSUME Same PROVE sessionCnt' = Balance' % CntMod
  BY <1>0 DEF Balance, CountInv
<1> USE PoolAssumption, ThreadKinds DEF TypeOK, FieldsOK, ThreadsOK, KernelOK, IoRecs, Closers,
        Threads, session, kernel, NoJob
<1>1. CASE ScanBegin
  <2>1. Same
    BY <1>1 DEF ScanBegin, Goto, ActiveSet, ClosingSet, UncountedSet
  <2>2. QED
    BY <1>0, <2>1
<1>2. CASE CheckActivated
  <2>1. Same
    BY <1>2 DEF CheckActivated, Goto, NextSlot, ActiveSet, ClosingSet, UncountedSet
  <2>2. QED
    BY <1>0, <2>1
<1>3. CASE CheckTime
  <2>1. Same
    BY <1>3 DEF CheckTime, Goto, NextSlot, ActiveSet, ClosingSet, UncountedSet
  <2>2. QED
    BY <1>0, <2>1
<1>4. CASE CheckDiff
  <2>1. Same
    BY <1>4 DEF CheckDiff, Goto, NextSlot, ActiveSet, ClosingSet, UncountedSet
  <2>2. QED
    BY <1>0, <2>1
<1>5. CASE TakeSlot
  <2>1. Same
    BY <1>5 DEF TakeSlot, Goto, ActiveSet, ClosingSet, UncountedSet
  <2>2. QED
    BY <1>0, <2>1
<1>6. CASE CreateSocket
  <2>1. Same
    BY <1>6 DEF CreateSocket, Goto, NextSlot, ActiveSet, ClosingSet, UncountedSet
  <2>2. QED
    BY <1>0, <2>1
<1>7. CASE PostAccept
  <2>1. Same
    BY <1>7 DEF PostAccept, Goto, NextSlot, Rec, ActiveSet, ClosingSet, UncountedSet
  <2>2. QED
    BY <1>0, <2>1
<1>8. CASE HasSendData
  <2>1. Same
    BY <1>8 DEF HasSendData, Goto, NextSlot, ActiveSet, ClosingSet, UncountedSet
  <2>2. QED
    BY <1>0, <2>1
<1>9. CASE BindSendCas
  <2>1. Same
    BY <1>9 DEF BindSendCas, Goto, NextSlot, ActiveSet, ClosingSet, UncountedSet
  <2>2. QED
    BY <1>0, <2>1
<1>10. CASE PostSend
  <2>1. Same
    BY <1>10 DEF PostSend, Goto, Rec, ErrorHandler, ActiveSet, ClosingSet, UncountedSet
  <2>2. QED
    BY <1>0, <2>1
<1>11. CASE MoveFront
  <2>1. Same
    BY <1>11 DEF MoveFront, Goto, NextSlot, ActiveSet, ClosingSet, UncountedSet
  <2>2. QED
    BY <1>0, <2>1
<1>12. CASE SendPacketEnqueue
  <2>1. Same
    BY <1>12 DEF SendPacketEnqueue, Goto, ActiveSet, ClosingSet, UncountedSet
  <2>2. QED
    BY <1>0, <2>1
<1>13. ASSUME NEW s \in Slots, SendPacketLock(s) PROVE sessionCnt' = Balance' % CntMod
  <2>1. Same
    BY <1>13 DEF SendPacketLock, Goto, ActiveSet, ClosingSet, UncountedSet
  <2>2. QED
    BY <1>0, <2>1
<1>14. ASSUME NEW w \in Workers, NEW c \in io, TakeExited(w, c) PROVE sessionCnt' = Balance' % CntMod
  <2>1. Same
    BY <1>14 DEF TakeExited, Goto, Takes, Begin, ActiveSet, ClosingSet, UncountedSet
  <2>2. QED
    BY <1>0, <2>1
<1>15. ASSUME NEW w \in Workers, NEW c \in io, TakeRecv(w, c) PROVE sessionCnt' = Balance' % CntMod
  <2>1. /\ pc[w] = "gqcs" /\ c.op = "recv" /\ UNCHANGED <<activated, sessionCnt>>
        /\ \A u \in Threads \ {w} : pc'[u] = pc[u] /\ job'[u] = job[u]
        /\ \/ pc'[w] = "recv" /\ job'[w].op = "recv"
           \/ pc'[w] = "gqcs"
    BY <1>15 DEF TakeRecv, Goto, Takes, Begin
  <2>2. Same
    BY <2>1 DEF ActiveSet, ClosingSet, UncountedSet
  <2>3. QED
    BY <1>0, <2>2
<1>16. ASSUME NEW w \in Workers, NEW c \in io, TakeSend(w, c) PROVE sessionCnt' = Balance' % CntMod
  <2>1. Same
    BY <1>16 DEF TakeSend, Takes, ActiveSet, ClosingSet, UncountedSet
  <2>2. QED
    BY <1>0, <2>1
<1>17. ASSUME NEW w \in Workers, NEW c \in io, TakeAccept(w, c) PROVE sessionCnt' = Balance' % CntMod
  <2>1. Same
    BY <1>17 DEF TakeAccept, Goto, Takes, Begin, ActiveSet, ClosingSet, UncountedSet
  <2>2. QED
    BY <1>0, <2>1
<1>18. ASSUME NEW w \in Workers, ActivateZero(w) PROVE sessionCnt' = Balance' % CntMod
  <2>1. Same
    BY <1>18 DEF ActivateZero, Goto, ActiveSet, ClosingSet, UncountedSet
  <2>2. QED
    BY <1>0, <2>1
<1>19. ASSUME NEW w \in Workers, ActivateOn(w) PROVE sessionCnt' = Balance' % CntMod
  <2>1. /\ at[w] \in Slots \ ActiveSet /\ w \in Workers \ UncountedSet
        /\ ActiveSet' = ActiveSet \cup {at[w]}
        /\ UncountedSet' = UncountedSet \cup {w}
        /\ UNCHANGED <<ClosingSet, sessionCnt>>
    BY <1>19 DEF ActivateOn, Goto, ActiveSet, ClosingSet, UncountedSet, CountInv, AcceptJobs,
       OwnerInv, OwnerAlone, OwnerLabels
  <2>2. /\ Cardinality(ActiveSet') = Cardinality(ActiveSet) + 1
        /\ Cardinality(UncountedSet') = Cardinality(UncountedSet) + 1
    BY <1>00, <2>1, OneMore
  <2>3. Balance' = Balance
    BY <1>00, <2>1, <2>2 DEF Balance
  <2>4. QED
    BY <2>1, <2>3 DEF CountInv
<1>20. ASSUME NEW w \in Workers, ActivateClear(w) PROVE sessionCnt' = Balance' % CntMod
  <2>1. Same
    BY <1>20 DEF ActivateClear, Goto, ActiveSet, ClosingSet, UncountedSet
  <2>2. QED
    BY <1>0, <2>1
<1>21. ASSUME NEW w \in Workers, BindRecv(w) PROVE sessionCnt' = Balance' % CntMod
  <2>1. Same
    BY <1>21 DEF BindRecv, Goto, Rec, Finish, ErrorHandler, ActiveSet, ClosingSet, UncountedSet
  <2>2. QED
    BY <1>0, <2>1
<1>22. ASSUME NEW w \in Workers, CountSession(w) PROVE sessionCnt' = Balance' % CntMod
  <2>1. /\ w \in UncountedSet
        /\ UncountedSet' = UncountedSet \ {w}
        /\ UNCHANGED <<ActiveSet, ClosingSet>>
        /\ sessionCnt' = (sessionCnt + 1) % CntMod
    BY <1>22 DEF CountSession, Finish, Goto, ActiveSet, ClosingSet, UncountedSet, CountInv,
       AcceptJobs
  <2>2. Cardinality(UncountedSet') = Cardinality(UncountedSet) - 1
    BY <1>00, <2>1, OneLess
  <2>3. Balance' = Balance + 1
    BY <1>00, <2>1, <2>2 DEF Balance
  <2>4. sessionCnt' = ((Balance % CntMod) + 1) % CntMod
    BY <2>1 DEF CountInv
  <2>5. QED
    BY <1>00, <2>3, <2>4, CountShift
<1>23. ASSUME NEW t \in Closers, CloseMax(t) PROVE sessionCnt' = Balance' % CntMod
  <2>1. Same
    BY <1>23 DEF CloseMax, Goto, ActiveSet, ClosingSet, UncountedSet
  <2>2. QED
    BY <1>0, <2>1
<1>24. ASSUME NEW t \in Closers, CloseCas(t) PROVE sessionCnt' = Balance' % CntMod
  <2>1. CASE activated[at[t]]
    <3>1. /\ at[t] \in ActiveSet /\ t \in Closers \ ClosingSet
          /\ ActiveSet' = ActiveSet \ {at[t]}
          /\ ClosingSet' = ClosingSet \cup {t}
          /\ UNCHANGED <<UncountedSet, sessionCnt>>
      BY <2>1, <1>24 DEF CloseCas, Goto, ActiveSet, ClosingSet, UncountedSet
    <3>2. /\ Cardinality(ActiveSet') = Cardinality(ActiveSet) - 1
          /\ Cardinality(ClosingSet') = Cardinality(ClosingSet) + 1
      BY <1>00, <3>1, OneMore, OneLess
    <3>3. Balance' = Balance
      BY <1>00, <3>1, <3>2 DEF Balance
    <3>4. QED
      BY <3>1, <3>3 DEF CountInv
  <2>2. CASE ~activated[at[t]]
    <3>1. Same
      BY <2>2, <1>24 DEF CloseCas, Goto, CloseReturns, Finish, ActiveSet, ClosingSet,
         UncountedSet
    <3>2. QED
      BY <1>0, <3>1
  <2>3. QED
    BY <2>1, <2>2
<1>25. ASSUME NEW t \in Closers, CloseHandle(t) PROVE sessionCnt' = Balance' % CntMod
  <2>1. Same
    BY <1>25 DEF CloseHandle, Goto, ActiveSet, ClosingSet, UncountedSet
  <2>2. QED
    BY <1>0, <2>1
<1>26. ASSUME NEW t \in Closers, ClearSocket(t) PROVE sessionCnt' = Balance' % CntMod
  <2>1. Same
    BY <1>26 DEF ClearSocket, Goto, ActiveSet, ClosingSet, UncountedSet
  <2>2. QED
    BY <1>0, <2>1
<1>27. ASSUME NEW t \in Closers, ClearSendBuffer(t) PROVE sessionCnt' = Balance' % CntMod
  <2>1. Same
    BY <1>27 DEF ClearSendBuffer, Goto, ActiveSet, ClosingSet, UncountedSet
  <2>2. QED
    BY <1>0, <2>1
<1>28. ASSUME NEW t \in Closers, ClearSending(t) PROVE sessionCnt' = Balance' % CntMod
  <2>1. Same
    BY <1>28 DEF ClearSending, Goto, ActiveSet, ClosingSet, UncountedSet
  <2>2. QED
    BY <1>0, <2>1
<1>29. ASSUME NEW t \in Closers, ReleaseSlot(t) PROVE sessionCnt' = Balance' % CntMod
  <2>1. /\ t \in ClosingSet
        /\ ClosingSet' = ClosingSet \ {t}
        /\ UNCHANGED <<ActiveSet, UncountedSet>>
        /\ sessionCnt' = (sessionCnt - 1) % CntMod
    BY <1>29 DEF ReleaseSlot, CloseReturns, Finish, Goto, ActiveSet, ClosingSet, UncountedSet
  <2>2. Cardinality(ClosingSet') = Cardinality(ClosingSet) - 1
    BY <1>00, <2>1, OneLess
  <2>3. Balance' = Balance - 1
    BY <1>00, <2>1, <2>2 DEF Balance
  <2>4. sessionCnt' = ((Balance % CntMod) - 1) % CntMod
    BY <2>1 DEF CountInv
  <2>5. QED
    BY <1>00, <2>3, <2>4, CountShift
<1>30. ASSUME NEW s \in Slots, ReuseTimePasses(s) PROVE sessionCnt' = Balance' % CntMod
  <2>1. Same
    BY <1>30 DEF ReuseTimePasses, ActiveSet, ClosingSet, UncountedSet
  <2>2. QED
    BY <1>0, <2>1
<1>31. ASSUME NEW s \in Slots, PeerConnects(s) PROVE sessionCnt' = Balance' % CntMod
  <2>1. Same
    BY <1>31 DEF PeerConnects, ActiveSet, ClosingSet, UncountedSet
  <2>2. QED
    BY <1>0, <2>1
<1>32. ASSUME NEW s \in Slots, AcceptAborts(s) PROVE sessionCnt' = Balance' % CntMod
  <2>1. Same
    BY <1>32 DEF AcceptAborts, ActiveSet, ClosingSet, UncountedSet
  <2>2. QED
    BY <1>0, <2>1
<1>33. ASSUME NEW s \in Slots, PeerSends(s) PROVE sessionCnt' = Balance' % CntMod
  <2>1. Same
    BY <1>33 DEF PeerSends, ActiveSet, ClosingSet, UncountedSet
  <2>2. QED
    BY <1>0, <2>1
<1>34. ASSUME NEW s \in Slots, SendCompletes(s) PROVE sessionCnt' = Balance' % CntMod
  <2>1. Same
    BY <1>34 DEF SendCompletes, ActiveSet, ClosingSet, UncountedSet
  <2>2. QED
    BY <1>0, <2>1
<1>35. ASSUME NEW s \in Slots, PeerCloses(s) PROVE sessionCnt' = Balance' % CntMod
  <2>1. Same
    BY <1>35 DEF PeerCloses, ActiveSet, ClosingSet, UncountedSet
  <2>2. QED
    BY <1>0, <2>1
<1>36. ASSUME NEW s \in Slots, PeerResets(s) PROVE sessionCnt' = Balance' % CntMod
  <2>1. Same
    BY <1>36 DEF PeerResets, ActiveSet, ClosingSet, UncountedSet
  <2>2. QED
    BY <1>0, <2>1
<1>37. CASE UNCHANGED vars
  <2>1. Same
    BY <1>37 DEF vars, session, kernel, logic, ActiveSet, ClosingSet, UncountedSet
  <2>2. QED
    BY <1>0, <2>1
<1>38. QED
  BY <1>1, <1>2, <1>3, <1>4, <1>5, <1>6, <1>7, <1>8, <1>9, <1>10, <1>11, <1>12, <1>13,
     <1>14, <1>15, <1>16, <1>17, <1>18, <1>19, <1>20, <1>21, <1>22, <1>23, <1>24, <1>25,
     <1>26, <1>27, <1>28, <1>29, <1>30, <1>31, <1>32, <1>33, <1>34, <1>35, <1>36,
     <1>37 DEF Next, AccepterThread, SenderThread,
     PacketThread, WorkerThread, Gqcs, CloseSocket, Outside

LEMMA AcceptJobsStep ==
    ASSUME TypeOK, AcceptJobs, [Next]_vars
    PROVE  AcceptJobs'
<1> USE PoolAssumption, ThreadKinds DEF TypeOK, FieldsOK, ThreadsOK, KernelOK, IoRecs, Closers,
        Threads, session, kernel, logic, AcceptJobs, NoJob
<1>1. CASE ScanBegin
  BY <1>1 DEF ScanBegin, Goto
<1>2. CASE CheckActivated
  BY <1>2 DEF CheckActivated, Goto, NextSlot
<1>3. CASE CheckTime
  BY <1>3 DEF CheckTime, Goto, NextSlot
<1>4. CASE CheckDiff
  BY <1>4 DEF CheckDiff, Goto, NextSlot
<1>5. CASE TakeSlot
  BY <1>5 DEF TakeSlot, Goto
<1>6. CASE CreateSocket
  BY <1>6 DEF CreateSocket, Goto, NextSlot
<1>7. CASE PostAccept
  BY <1>7 DEF PostAccept, Goto, NextSlot, Rec
<1>8. CASE HasSendData
  BY <1>8 DEF HasSendData, Goto, NextSlot
<1>9. CASE BindSendCas
  BY <1>9 DEF BindSendCas, Goto, NextSlot
<1>10. CASE PostSend
  BY <1>10 DEF PostSend, Goto, Rec, ErrorHandler
<1>11. CASE MoveFront
  BY <1>11 DEF MoveFront, Goto, NextSlot
<1>12. CASE SendPacketEnqueue
  BY <1>12 DEF SendPacketEnqueue, Goto
<1>13. ASSUME NEW s \in Slots, SendPacketLock(s) PROVE AcceptJobs'
  BY <1>13 DEF SendPacketLock, Goto
<1>14. ASSUME NEW w \in Workers, NEW c \in io, TakeExited(w, c) PROVE AcceptJobs'
  BY <1>14 DEF TakeExited, Goto, Takes, Begin
<1>15. ASSUME NEW w \in Workers, NEW c \in io, TakeRecv(w, c) PROVE AcceptJobs'
  BY <1>15 DEF TakeRecv, Goto, Takes, Begin
<1>16. ASSUME NEW w \in Workers, NEW c \in io, TakeSend(w, c) PROVE AcceptJobs'
  BY <1>16 DEF TakeSend, Takes
<1>17. ASSUME NEW w \in Workers, NEW c \in io, TakeAccept(w, c) PROVE AcceptJobs'
  BY <1>17 DEF TakeAccept, Goto, Takes, Begin
<1>18. ASSUME NEW w \in Workers, ActivateZero(w) PROVE AcceptJobs'
  BY <1>18 DEF ActivateZero, Goto
<1>19. ASSUME NEW w \in Workers, ActivateOn(w) PROVE AcceptJobs'
  BY <1>19 DEF ActivateOn, Goto
<1>20. ASSUME NEW w \in Workers, ActivateClear(w) PROVE AcceptJobs'
  BY <1>20 DEF ActivateClear, Goto
<1>21. ASSUME NEW w \in Workers, BindRecv(w) PROVE AcceptJobs'
  BY <1>21 DEF BindRecv, Goto, Rec, Finish, ErrorHandler
<1>22. ASSUME NEW w \in Workers, CountSession(w) PROVE AcceptJobs'
  BY <1>22 DEF CountSession, Goto, Finish
<1>23. ASSUME NEW t \in Closers, CloseMax(t) PROVE AcceptJobs'
  BY <1>23 DEF CloseMax, Goto
<1>24. ASSUME NEW t \in Closers, CloseCas(t) PROVE AcceptJobs'
  BY <1>24 DEF CloseCas, Goto, CloseReturns, Finish
<1>25. ASSUME NEW t \in Closers, CloseHandle(t) PROVE AcceptJobs'
  BY <1>25 DEF CloseHandle, Goto
<1>26. ASSUME NEW t \in Closers, ClearSocket(t) PROVE AcceptJobs'
  BY <1>26 DEF ClearSocket, Goto
<1>27. ASSUME NEW t \in Closers, ClearSendBuffer(t) PROVE AcceptJobs'
  BY <1>27 DEF ClearSendBuffer, Goto
<1>28. ASSUME NEW t \in Closers, ClearSending(t) PROVE AcceptJobs'
  BY <1>28 DEF ClearSending, Goto
<1>29. ASSUME NEW t \in Closers, ReleaseSlot(t) PROVE AcceptJobs'
  BY <1>29 DEF ReleaseSlot, Goto, CloseReturns, Finish
<1>30. ASSUME NEW s \in Slots, ReuseTimePasses(s) PROVE AcceptJobs'
  BY <1>30 DEF ReuseTimePasses
<1>31. ASSUME NEW s \in Slots, PeerConnects(s) PROVE AcceptJobs'
  BY <1>31 DEF PeerConnects
<1>32. ASSUME NEW s \in Slots, AcceptAborts(s) PROVE AcceptJobs'
  BY <1>32 DEF AcceptAborts
<1>33. ASSUME NEW s \in Slots, PeerSends(s) PROVE AcceptJobs'
  BY <1>33 DEF PeerSends
<1>34. ASSUME NEW s \in Slots, SendCompletes(s) PROVE AcceptJobs'
  BY <1>34 DEF SendCompletes
<1>35. ASSUME NEW s \in Slots, PeerCloses(s) PROVE AcceptJobs'
  BY <1>35 DEF PeerCloses
<1>36. ASSUME NEW s \in Slots, PeerResets(s) PROVE AcceptJobs'
  BY <1>36 DEF PeerResets
<1>37. CASE UNCHANGED vars
  BY <1>37 DEF vars, session, kernel, logic
<1>38. QED
  BY <1>1, <1>2, <1>3, <1>4, <1>5, <1>6, <1>7, <1>8, <1>9, <1>10, <1>11, <1>12, <1>13,
     <1>14, <1>15, <1>16, <1>17, <1>18, <1>19, <1>20, <1>21, <1>22, <1>23, <1>24, <1>25,
     <1>26, <1>27, <1>28, <1>29, <1>30, <1>31, <1>32, <1>33, <1>34, <1>35, <1>36,
     <1>37 DEF Next, AccepterThread, SenderThread,
     PacketThread, WorkerThread, Gqcs, CloseSocket, Outside

(***************************************************************************)
(* session_cnt_ is the number of active sessions, modulo its width, but    *)
(* for those being opened or closed right now: no increment or decrement   *)
(* is lost or done twice, whoever closes, and in whatever order.           *)
(***************************************************************************)
THEOREM CountsSessions == Spec => []SessionCntExact
<1>1. Init => CountInv
  BY CountInit
<1>2. IInv /\ CountInv /\ [Next]_vars => CountInv'
  BY CountStep, AcceptJobsStep DEF CountInv, IInv
<1>3. IInv /\ CountInv => SessionCntExact
  BY CountIs DEF CountInv, IInv
<1>4. QED
  BY <1>1, <1>2, <1>3, Inductive, PTL DEF Spec

-----------------------------------------------------------------------------
(* UINT64_MAX is for a moment *)

(***************************************************************************)
(* Without sends, the receive of a connection is the only operation that   *)
(* can end it, so one worker at most comes to CloseSocket, and it finds    *)
(* the session active: no late closer turns the time of a slot that was    *)
(* already given back to UINT64_MAX again.                                 *)
(***************************************************************************)
NoSends ==
    /\ \A s \in Slots : ~hasData[s]
    /\ \A c \in io : c.op # "send"
    /\ pc[Sender] = "hasdata" /\ pc[Packet] = "free"

HandlerLabels == {"clear", "recv", "close", "cas"}
Handles(w, s) == at[w] = s /\ pc[w] \in HandlerLabels

OneHolder ==
    /\ \A c, d \in io : c.slot = d.slot => c = d
    /\ \A w \in Workers : pc[w] \in {"zero", "on"} \cup HandlerLabels =>
          /\ \A c \in io : c.slot # at[w]
          /\ \A v \in Workers : /\ at[v] = at[w]
                                /\ pc[v] \in {"zero", "on"} \cup HandlerLabels
                                => v = w

HolderActive ==
    /\ \A c \in io : c.op = "recv" => activated[c.slot]
    /\ \A w \in Workers : pc[w] \in HandlerLabels => activated[at[w]]

(* Somebody will give the slot back. *)
Kept(s) ==
    \/ Binding(s)
    \/ \E c \in io : c.slot = s /\ c.op = "accept"
    \/ activated[s]
    \/ \E t \in Closers : Owns(t, s)

MaxKept == \A s \in Slots : closedAt[s] = "max" => Kept(s) \/ crashed

MaxInv == NoSends /\ OneHolder /\ HolderActive /\ MaxKept

LEMMA MaxInit == Init => MaxInv
BY PoolAssumption DEF Init, MaxInv, NoSends, OneHolder, HolderActive, MaxKept, Threads,
   HandlerLabels

LEMMA CompleteHolders ==
    ASSUME TypeOK, OneHolder, NEW ops \in SUBSET io, NEW st, Complete(ops, st)
    PROVE  /\ \A c \in io' : \E d \in io : d.slot = c.slot /\ d.op = c.op
           /\ \A d \in io : \E c \in io' : d.slot = c.slot /\ d.op = c.op
           /\ \A c, d \in io' : c.slot = d.slot => c = d
<1> DEFINE upd(c) == [c EXCEPT !.status = st]
<1>1. \A c \in io : upd(c).slot = c.slot /\ upd(c).op = c.op
  <2> SUFFICES ASSUME NEW c \in io PROVE upd(c).slot = c.slot /\ upd(c).op = c.op
    OBVIOUS
  <2>1. c = [slot |-> c.slot, conn |-> c.conn, op |-> c.op, status |-> c.status]
    BY DEF TypeOK, KernelOK, IoRecs
  <2>2. QED
    BY <2>1
<1>2. io' = (io \ ops) \cup {upd(c) : c \in ops}
  BY DEF Complete
<1> HIDE DEF upd
<1>3. /\ \A c \in io' : \E d \in io : d.slot = c.slot /\ d.op = c.op
      /\ \A d \in io : \E c \in io' : d.slot = c.slot /\ d.op = c.op
  BY <1>1, <1>2
<1>4. \A c, d \in io' : c.slot = d.slot => c = d
  BY <1>1, <1>2 DEF OneHolder
<1>5. QED
  BY <1>3, <1>4

LEMMA MaxCompletes ==
    ASSUME TypeOK, MaxInv, NEW ops \in SUBSET io, NEW st, Complete(ops, st),
           UNCHANGED <<activated, closedAt, hasData, pc, at, crashed>>
    PROVE  MaxInv'
<1>1. /\ \A c \in io' : \E d \in io : d.slot = c.slot /\ d.op = c.op
      /\ \A d \in io : \E c \in io' : d.slot = c.slot /\ d.op = c.op
      /\ \A c, d \in io' : c.slot = d.slot => c = d
  BY CompleteHolders DEF MaxInv
<1>2. NoSends' /\ OneHolder' /\ HolderActive'
  BY <1>1 DEF MaxInv, NoSends, OneHolder, HolderActive
<1>3. \A s \in Slots : Kept(s) => Kept(s)'
  BY <1>1 DEF Kept, Binding, Owns
<1>4. MaxKept'
  BY <1>3 DEF MaxInv, MaxKept
<1>5. QED
  BY <1>2, <1>4 DEF MaxInv

LEMMA MaxStep ==
    ASSUME ~LogicSends, Faults \subseteq {"aborted", "reset"}, TypeOK, OwnerInv, MaxInv,
           [Next]_vars
    PROVE  MaxInv'
<1> USE PoolAssumption, ThreadKinds DEF TypeOK, FieldsOK, ThreadsOK, KernelOK, IoRecs, Closers,
        Threads, session, kernel, logic, MaxInv, NoSends, OneHolder, HolderActive, MaxKept,
        Kept, Binding, Owns, OwnerLabels, HandlerLabels
<1>1. CASE ScanBegin
  BY <1>1 DEF ScanBegin, Goto
<1>2. CASE CheckActivated
  BY <1>2 DEF CheckActivated, Goto, NextSlot
<1>3. CASE CheckTime
  BY <1>3 DEF CheckTime, Goto, NextSlot
<1>4. CASE CheckDiff
  BY <1>4, SMTT(30) DEF CheckDiff, Goto, NextSlot
<1>5. CASE TakeSlot
  BY <1>5 DEF TakeSlot, Goto
<1>6. CASE CreateSocket
  BY <1>6 DEF CreateSocket, Goto, NextSlot
<1>7. CASE PostAccept
  <2> DEFINE s == at[Accepter]
  <2>1. /\ pc[Accepter] = "acceptex" /\ s \in Slots
        /\ io' = io \cup {Rec(s, "accept", "pending")}
        /\ pc'[Accepter] \in {"check", "scan"}
        /\ UNCHANGED <<activated, closedAt, hasData, crashed>>
        /\ \A t \in Threads \ {Accepter} : pc'[t] = pc[t] /\ at'[t] = at[t]
    BY <1>7 DEF PostAccept, Goto, NextSlot
  <2>2. /\ \A c \in io : c.slot # s
        /\ \A w \in Workers : at[w] = s => pc[w] \notin {"zero", "on"} \cup HandlerLabels
    BY <2>1 DEF OwnerInv, AcceptAlone, OwnerAlone, ActiveAlone, Taking, IoRecs, Ops
  <2>3. /\ Rec(s, "accept", "pending").slot = s
        /\ Rec(s, "accept", "pending").op = "accept"
    BY DEF Rec
  <2>4. NoSends' /\ OneHolder' /\ HolderActive'
    BY <2>1, <2>2, <2>3
  <2>5. MaxKept'
    BY <2>1, <2>3, SMTT(30)
  <2>6. QED
    BY <2>4, <2>5
<1>8. CASE HasSendData
  BY <1>8, SMTT(30) DEF HasSendData, Goto, NextSlot
<1>9. CASE BindSendCas
  BY <1>9 DEF BindSendCas, Goto, NextSlot
<1>10. CASE PostSend
  BY <1>10 DEF PostSend, Goto, Rec, ErrorHandler
<1>11. CASE MoveFront
  BY <1>11 DEF MoveFront, Goto, NextSlot
<1>12. CASE SendPacketEnqueue
  BY <1>12 DEF SendPacketEnqueue, Goto
<1>13. ASSUME NEW s \in Slots, SendPacketLock(s) PROVE MaxInv'
  BY <1>13 DEF SendPacketLock, Goto
<1>14. ASSUME NEW w \in Workers, NEW c \in io, TakeExited(w, c) PROVE MaxInv'
  <2>1. /\ pc[w] = "gqcs" /\ io' = io \ {c} /\ c.slot \in Slots
        /\ UNCHANGED <<activated, closedAt, hasData>>
        /\ \A t \in Threads \ {w} : pc'[t] = pc[t] /\ at'[t] = at[t]
    BY <1>14 DEF TakeExited, Goto, Takes, Begin
  <2>2. \/ c.op = "recv" /\ pc'[w] = "close" /\ at'[w] = c.slot /\ crashed' = crashed
        \/ c.op = "accept" /\ pc'[w] = "gqcs" /\ crashed'
    BY <1>14 DEF TakeExited, IoRecs, Ops, Goto, Takes, Begin
  <2>3. /\ \A d \in io' : d.slot # c.slot
        /\ \A v \in Workers : at[v] = c.slot => pc[v] \notin {"zero", "on"} \cup HandlerLabels
    BY <2>1
  <2>4. NoSends' /\ OneHolder' /\ HolderActive'
    BY <2>1, <2>2, <2>3
  <2>5. MaxKept'
    <3> SUFFICES ASSUME NEW s \in Slots, Kept(s) \/ crashed PROVE Kept(s)' \/ crashed'
      BY <2>1
    <3>1. CASE s = c.slot
      BY <2>1, <2>2, <3>1
    <3>2. CASE s # c.slot
      BY <2>1, <2>2, <3>2
    <3>3. QED
      BY <3>1, <3>2
  <2>6. QED
    BY <2>4, <2>5
<1>15. ASSUME NEW w \in Workers, NEW c \in io, TakeRecv(w, c) PROVE MaxInv'
  <2>1. /\ pc[w] = "gqcs" /\ io' = io \ {c} /\ c.slot \in Slots
        /\ UNCHANGED <<activated, closedAt, hasData>>
        /\ \A t \in Threads \ {w} : pc'[t] = pc[t] /\ at'[t] = at[t]
    BY <1>15 DEF TakeRecv, Goto, Takes, Begin
  <2>2. /\ c.op = "recv" /\ crashed' = crashed
        /\ pc'[w] = "gqcs" \/ (pc'[w] = "recv" /\ at'[w] = c.slot)
    BY <1>15 DEF TakeRecv, Goto, Takes, Begin
  <2>3. /\ \A d \in io' : d.slot # c.slot
        /\ \A v \in Workers : at[v] = c.slot => pc[v] \notin {"zero", "on"} \cup HandlerLabels
    BY <2>1
  <2>4. NoSends' /\ OneHolder' /\ HolderActive'
    BY <2>1, <2>2, <2>3
  <2>5. MaxKept'
    <3> SUFFICES ASSUME NEW s \in Slots, Kept(s) \/ crashed PROVE Kept(s)' \/ crashed'
      BY <2>1
    <3>1. CASE s = c.slot
      BY <2>1, <2>2, <3>1
    <3>2. CASE s # c.slot
      BY <2>1, <2>2, <3>2
    <3>3. QED
      BY <3>1, <3>2
  <2>6. QED
    BY <2>4, <2>5
<1>16. ASSUME NEW w \in Workers, NEW c \in io, TakeSend(w, c) PROVE MaxInv'
  BY <1>16 DEF TakeSend, Takes
<1>17. ASSUME NEW w \in Workers, NEW c \in io, TakeAccept(w, c) PROVE MaxInv'
  <2>1. /\ pc[w] = "gqcs" /\ io' = io \ {c} /\ c.slot \in Slots
        /\ UNCHANGED <<activated, closedAt, hasData>>
        /\ \A t \in Threads \ {w} : pc'[t] = pc[t] /\ at'[t] = at[t]
    BY <1>17 DEF TakeAccept, Goto, Takes, Begin
  <2>2. /\ c.op = "accept" /\ crashed' = crashed
        /\ pc'[w] = "zero" /\ at'[w] = c.slot
    BY <1>17 DEF TakeAccept, Goto, Takes, Begin
  <2>3. /\ \A d \in io' : d.slot # c.slot
        /\ \A v \in Workers : at[v] = c.slot => pc[v] \notin {"zero", "on"} \cup HandlerLabels
    BY <2>1
  <2>4. NoSends' /\ OneHolder' /\ HolderActive'
    BY <2>1, <2>2, <2>3
  <2>5. MaxKept'
    <3> SUFFICES ASSUME NEW s \in Slots, Kept(s) \/ crashed PROVE Kept(s)' \/ crashed'
      BY <2>1
    <3>1. CASE s = c.slot
      BY <2>1, <2>2, <3>1
    <3>2. CASE s # c.slot
      BY <2>1, <2>2, <3>2
    <3>3. QED
      BY <3>1, <3>2
  <2>6. QED
    BY <2>4, <2>5
<1>18. ASSUME NEW w \in Workers, ActivateZero(w) PROVE MaxInv'
  BY <1>18 DEF ActivateZero, Goto
<1>19. ASSUME NEW w \in Workers, ActivateOn(w) PROVE MaxInv'
  BY <1>19 DEF ActivateOn, Goto
<1>20. ASSUME NEW w \in Workers, ActivateClear(w) PROVE MaxInv'
  BY <1>20 DEF ActivateClear, Goto
<1>21. ASSUME NEW w \in Workers, BindRecv(w) PROVE MaxInv'
  <2> DEFINE s == at[w]
  <2>1. /\ pc[w] = "recv" /\ s \in Slots /\ activated[s]
        /\ UNCHANGED <<activated, closedAt, hasData, crashed>>
        /\ \A t \in Threads \ {w} : pc'[t] = pc[t] /\ at'[t] = at[t]
        /\ pc'[w] \in {"gqcs", "count"}
    BY <1>21 DEF BindRecv, Goto, Finish, ErrorHandler
  <2>2. io' = io \/ \E st \in {"pending", "zero", "fail"} : io' = io \cup {Rec(s, "recv", st)}
    BY <1>21 DEF BindRecv
  <2>3. /\ io \subseteq io'
        /\ \A c \in io' \ io : c.slot = s /\ c.op = "recv"
        /\ \A c, d \in io' \ io : c = d
    BY <2>2 DEF Rec
  <2>4. /\ \A c \in io : c.slot # s
        /\ \A v \in Workers \ {w} : at[v] = s => pc[v] \notin {"zero", "on"} \cup HandlerLabels
    BY <2>1
  <2>5. NoSends'
    BY <2>1, <2>3
  <2>6. OneHolder' /\ HolderActive'
    BY <2>1, <2>3, <2>4, SMTT(30)
  <2>7. MaxKept'
    BY <2>1, <2>3
  <2>8. QED
    BY <2>5, <2>6, <2>7
<1>22. ASSUME NEW w \in Workers, CountSession(w) PROVE MaxInv'
  BY <1>22 DEF CountSession, Goto, Finish
<1>23. ASSUME NEW t \in Closers, CloseMax(t) PROVE MaxInv'
  BY <1>23 DEF CloseMax, Goto
<1>24. ASSUME NEW t \in Closers, CloseCas(t) PROVE MaxInv'
  BY <1>24, SMTT(30) DEF CloseCas, Goto, CloseReturns, Finish
<1>25. ASSUME NEW t \in Closers, CloseHandle(t) PROVE MaxInv'
  <2>1. PICK ops \in SUBSET io : Complete(ops, "fail")
    BY <1>25 DEF CloseHandle, PendingOps
  <2>2. /\ pc[t] = "closesocket" /\ Goto(t, "setsocket")
        /\ UNCHANGED <<activated, closedAt, hasData, at, crashed>>
    BY <1>25 DEF CloseHandle
  <2>3. /\ \A c \in io' : \E d \in io : d.slot = c.slot /\ d.op = c.op
        /\ \A d \in io : \E c \in io' : d.slot = c.slot /\ d.op = c.op
        /\ \A c, d \in io' : c.slot = d.slot => c = d
    <3> HIDE DEF TypeOK, MaxInv, OneHolder
    <3>1. OneHolder
      BY DEF MaxInv
    <3>2. QED
      BY <2>1, <3>1, CompleteHolders
  <2>4. NoSends' /\ OneHolder' /\ HolderActive'
    BY <2>2, <2>3 DEF Goto
  <2>5. MaxKept'
    BY <2>2, <2>3, SMTT(30) DEF Goto
  <2>6. QED
    BY <2>4, <2>5
<1>26. ASSUME NEW t \in Closers, ClearSocket(t) PROVE MaxInv'
  BY <1>26 DEF ClearSocket, Goto
<1>27. ASSUME NEW t \in Closers, ClearSendBuffer(t) PROVE MaxInv'
  BY <1>27 DEF ClearSendBuffer, Goto
<1>28. ASSUME NEW t \in Closers, ClearSending(t) PROVE MaxInv'
  BY <1>28 DEF ClearSending, Goto
<1>29. ASSUME NEW t \in Closers, ReleaseSlot(t) PROVE MaxInv'
  BY <1>29, SMTT(30) DEF ReleaseSlot, Goto, CloseReturns, Finish
<1>30. ASSUME NEW s \in Slots, ReuseTimePasses(s) PROVE MaxInv'
  BY <1>30 DEF ReuseTimePasses
<1>31. ASSUME NEW s \in Slots, PeerConnects(s) PROVE MaxInv'
  <2>1. PICK ops \in SUBSET io : Complete(ops, "ok")
    BY <1>31 DEF PeerConnects, Pending, PendingOps
  <2>2. UNCHANGED <<activated, closedAt, hasData, pc, at, crashed>>
    BY <1>31 DEF PeerConnects
  <2>3. QED
    <3> HIDE DEF TypeOK, MaxInv
    <3>1. QED
      BY <2>1, <2>2, MaxCompletes
<1>32. ASSUME NEW s \in Slots, AcceptAborts(s) PROVE MaxInv'
  <2>1. PICK ops \in SUBSET io : Complete(ops, "fail")
    BY <1>32 DEF AcceptAborts, Pending, PendingOps
  <2>2. UNCHANGED <<activated, closedAt, hasData, pc, at, crashed>>
    BY <1>32 DEF AcceptAborts
  <2>3. QED
    <3> HIDE DEF TypeOK, MaxInv
    <3>1. QED
      BY <2>1, <2>2, MaxCompletes
<1>33. ASSUME NEW s \in Slots, PeerSends(s) PROVE MaxInv'
  <2>1. PICK ops \in SUBSET io : Complete(ops, "ok")
    BY <1>33 DEF PeerSends, Pending, PendingOps
  <2>2. UNCHANGED <<activated, closedAt, hasData, pc, at, crashed>>
    BY <1>33 DEF PeerSends
  <2>3. QED
    <3> HIDE DEF TypeOK, MaxInv
    <3>1. QED
      BY <2>1, <2>2, MaxCompletes
<1>34. ASSUME NEW s \in Slots, SendCompletes(s) PROVE MaxInv'
  <2>1. PICK ops \in SUBSET io : Complete(ops, "ok")
    BY <1>34 DEF SendCompletes, Pending, PendingOps
  <2>2. UNCHANGED <<activated, closedAt, hasData, pc, at, crashed>>
    BY <1>34 DEF SendCompletes
  <2>3. QED
    <3> HIDE DEF TypeOK, MaxInv
    <3>1. QED
      BY <2>1, <2>2, MaxCompletes
<1>35. ASSUME NEW s \in Slots, PeerCloses(s) PROVE MaxInv'
  <2>1. PICK ops \in SUBSET io : Complete(ops, "zero")
    BY <1>35 DEF PeerCloses, Pending, PendingOps
  <2>2. UNCHANGED <<activated, closedAt, hasData, pc, at, crashed>>
    BY <1>35 DEF PeerCloses
  <2>3. QED
    <3> HIDE DEF TypeOK, MaxInv
    <3>1. QED
      BY <2>1, <2>2, MaxCompletes
<1>36. ASSUME NEW s \in Slots, PeerResets(s) PROVE MaxInv'
  <2>1. PICK ops \in SUBSET io : Complete(ops, "fail")
    BY <1>36 DEF PeerResets, Pending, PendingOps
  <2>2. UNCHANGED <<activated, closedAt, hasData, pc, at, crashed>>
    BY <1>36 DEF PeerResets
  <2>3. QED
    <3> HIDE DEF TypeOK, MaxInv
    <3>1. QED
      BY <2>1, <2>2, MaxCompletes
<1>37. CASE UNCHANGED vars
  BY <1>37 DEF vars, session, kernel, logic
<1>38. QED
  BY <1>1, <1>2, <1>3, <1>4, <1>5, <1>6, <1>7, <1>8, <1>9, <1>10, <1>11, <1>12, <1>13,
     <1>14, <1>15, <1>16, <1>17, <1>18, <1>19, <1>20, <1>21, <1>22, <1>23, <1>24, <1>25,
     <1>26, <1>27, <1>28, <1>29, <1>30, <1>31, <1>32, <1>33, <1>34, <1>35, <1>36,
     <1>37 DEF Next, AccepterThread, SenderThread,
     PacketThread, WorkerThread, Gqcs, CloseSocket, Outside

(***************************************************************************)
(* "Set to MAX to prevent reuse for a moment" (CloseSocket) is true where  *)
(* the logic sends nothing, and of the failures only aborted accepts and   *)
(* resets happen, whatever the timing.                                     *)
(***************************************************************************)
THEOREM MaxIsGivenBack ==
    ASSUME ~LogicSends, Faults \subseteq {"aborted", "reset"}
    PROVE  Spec => []MaxIsForAMoment
<1>1. Init => MaxInv
  BY MaxInit
<1>2. IInv /\ MaxInv /\ [Next]_vars => MaxInv'
  BY MaxStep DEF IInv
<1>3. MaxInv => MaxIsForAMoment
  BY DEF MaxInv, MaxKept, Kept, MaxIsForAMoment, Owns, OwnerLabels, OpeningBy, ClosingBy,
     AcceptsInFlight, NoSends, Closers
<1>4. QED
  BY <1>1, <1>2, <1>3, Inductive, PTL DEF Spec

-----------------------------------------------------------------------------
(***************************************************************************)
(* Theorems about SessionPool when SESSION_REUSE_TIME does what it is      *)
(* there for: by the time a slot may be reused, the workers and the sender *)
(* are done with its old connection (DrainBeforeReuse), and the accepter   *)
(* loads latest_conn_closed_ once for both of its tests (~ReadsTimeTwice). *)
(* Under these two, and for any number of slots, workers and connections   *)
(* and any of the faults, one connection never meets the next one in its   *)
(* slot.                                                                   *)
(***************************************************************************)

InTime == DrainBeforeReuse /\ ~ReadsTimeTwice

ClosingLabels == {"closesocket", "setsocket", "clearbuf", "clearsending", "settime"}

-----------------------------------------------------------------------------
(* One connection at a time in a slot *)

(* Nothing of the slot's last connection is left: a slot in this state is  *)
(* what BindAccept may take.                                               *)
Drained(s) ==
    /\ \A c \in io : c.slot # s
    /\ \A w \in Workers : at[w] = s => pc[w] = "gqcs"
    /\ ~Connected(s)

(***************************************************************************)
(* The inductive invariant of this part.  What the properties need is that *)
(* operations and jobs belong to the slot's latest connection; a new one   *)
(* comes about in CreateSocket, so the slot must be drained there, hence   *)
(* from ReuseTimePasses on, which needs that a cooling slot has no socket. *)
(***************************************************************************)
RecsAreLatest == \A c \in io : c.conn = conn[c.slot]

JobsAreLatest == \A w \in Workers : pc[w] # "gqcs" => job[w].conn = conn[at[w]]

ElapsedDrained == \A s \in Slots : closedAt[s] = "elapsed" => Drained(s)

TakerDrained ==
    /\ pc[Accepter] \in {"take", "socket", "acceptex"} => Drained(at[Accepter])
    /\ pc[Accepter] = "take" => closedAt[at[Accepter]] = "elapsed"
    /\ pc[Accepter] # "diff"

NoSocketLeft ==
    /\ \A s \in Slots : closedAt[s] # "max" => socket[s] = 0
    /\ \A w \in Workers : pc[w] \in {"clearbuf", "clearsending", "settime"}
                              => socket[at[w]] = 0

SenderNeverCloses == pc[Sender] \notin CloseLabels

DrainInv == /\ RecsAreLatest /\ JobsAreLatest
            /\ ElapsedDrained /\ TakerDrained
            /\ NoSocketLeft /\ SenderNeverCloses

LEMMA DrainInit == ~ReadsTimeTwice /\ Init => DrainInv
BY PoolAssumption DEF Init, DrainInv, RecsAreLatest, JobsAreLatest, ElapsedDrained,
   TakerDrained, NoSocketLeft, SenderNeverCloses, Drained, Connected, CloseLabels,
   Threads, Closers

(***************************************************************************)
(* What Complete does to the records as a set: each keeps its slot,        *)
(* connection and operation, and none is split in two.                     *)
(***************************************************************************)
Alike(c, d) == c.slot = d.slot /\ c.conn = d.conn /\ c.op = d.op

LEMMA CompleteAlike ==
    ASSUME TypeOK, NEW ops \in SUBSET io, NEW st, Complete(ops, st)
    PROVE  /\ \A c \in io' : \E d \in io : Alike(d, c)
           /\ \A d \in io : \E c \in io' : Alike(d, c)
           /\ \A b, c \in io' : b # c => \E d, e \in io : d # e /\ Alike(d, b) /\ Alike(e, c)
<1> DEFINE upd(c) == [c EXCEPT !.status = st]
<1>1. \A c \in io : Alike(c, upd(c))
  <2> SUFFICES ASSUME NEW c \in io PROVE Alike(c, upd(c))
    OBVIOUS
  <2>1. c = [slot |-> c.slot, conn |-> c.conn, op |-> c.op, status |-> c.status]
    BY DEF TypeOK, KernelOK, IoRecs
  <2>2. QED
    BY <2>1 DEF Alike
<1>2. io' = (io \ ops) \cup {upd(c) : c \in ops}
  BY DEF Complete
<1> HIDE DEF upd
<1>3. \A c \in io : Alike(c, c)
  BY DEF Alike
<1>4. \A c \in io' : \E d \in io : /\ Alike(d, c)
                                   /\ (c = d /\ d \notin ops) \/ (c = upd(d) /\ d \in ops)
  BY <1>1, <1>2, <1>3
<1>5. \A d \in io : \E c \in io' : Alike(d, c)
  BY <1>1, <1>2, <1>3
<1>6. ASSUME NEW b \in io', NEW c \in io', b # c
      PROVE  \E d, e \in io : d # e /\ Alike(d, b) /\ Alike(e, c)
  <2>1. PICK d \in io : Alike(d, b) /\ ((b = d /\ d \notin ops) \/ (b = upd(d) /\ d \in ops))
    BY <1>4
  <2>2. PICK e \in io : Alike(e, c) /\ ((c = e /\ e \notin ops) \/ (c = upd(e) /\ e \in ops))
    BY <1>4
  <2>3. d # e
    BY <2>1, <2>2, <1>6
  <2>4. QED
    BY <2>1, <2>2, <2>3
<1>7. QED
  BY <1>4, <1>5, <1>6

(* The steps of the peers and of closesocket only complete operations. *)
CompletesOnly == \E ops \in SUBSET io, st \in {"ok", "zero", "fail"} : Complete(ops, st)

LEMMA PeersComplete ==
    ASSUME TypeOK, NEW s \in Slots,
           \/ PeerConnects(s) \/ AcceptAborts(s) \/ PeerSends(s)
           \/ SendCompletes(s) \/ PeerCloses(s) \/ PeerResets(s)
    PROVE  /\ CompletesOnly
           /\ UNCHANGED <<activated, sending, closedAt, socket, recvOp, pc, at, job, conn, gone>>
           /\ \A r \in Slots : Connected(r)' => Connected(r) \/ \E c \in io : c.slot = r
BY DEF CompletesOnly, PeerConnects, AcceptAborts, PeerSends, SendCompletes, PeerCloses,
   PeerResets, Pending, PendingOps, session, logic, KernelOK, TypeOK,
   Connected

LEMMA DrainCompletes ==
    ASSUME TypeOK, DrainInv, CompletesOnly,
           UNCHANGED <<closedAt, socket, pc, at, job, conn>>,
           \A r \in Slots : Connected(r)' => Connected(r) \/ \E c \in io : c.slot = r
    PROVE  DrainInv'
<1> PICK ops \in SUBSET io, st \in {"ok", "zero", "fail"} : Complete(ops, st)
  BY DEF CompletesOnly
<1>1. \A c \in io' : \E d \in io : d.slot = c.slot /\ d.conn = c.conn
  BY CompleteAlike DEF Alike
<1>2. \A s \in Slots : Drained(s) => Drained(s)'
  BY <1>1 DEF Drained
<1>3. RecsAreLatest'
  BY <1>1 DEF DrainInv, RecsAreLatest
<1>4. JobsAreLatest' /\ NoSocketLeft' /\ SenderNeverCloses'
  BY DEF DrainInv, JobsAreLatest, NoSocketLeft, SenderNeverCloses
<1>5. ElapsedDrained' /\ TakerDrained'
  BY <1>2, ThreadKinds DEF DrainInv, ElapsedDrained, TakerDrained, TypeOK, ThreadsOK
<1>6. QED
  BY <1>3, <1>4, <1>5 DEF DrainInv

LEMMA DrainStep == InTime /\ IInv /\ DrainInv /\ [Next]_vars => DrainInv'
<1> SUFFICES ASSUME InTime, TypeOK, OwnerInv, DrainInv, [Next]_vars PROVE DrainInv'
  BY DEF IInv
<1> USE PoolAssumption DEF TypeOK, FieldsOK, ThreadsOK, KernelOK, IoRecs, Closers, Threads,
        session, kernel, InTime, DrainInv, RecsAreLatest, JobsAreLatest, ElapsedDrained,
        TakerDrained, NoSocketLeft, SenderNeverCloses, Drained, Connected, CloseLabels
<1>1. CASE ScanBegin
  BY <1>1 DEF ScanBegin, Goto
<1>2. CASE CheckActivated
  BY <1>2 DEF CheckActivated, Goto, NextSlot
<1>3. CASE CheckTime
  BY <1>3 DEF CheckTime, Goto, NextSlot
<1>4. CASE CheckDiff
  BY <1>4 DEF CheckDiff, Goto, NextSlot
<1>5. CASE TakeSlot
  BY <1>5 DEF TakeSlot, Goto
<1>6. CASE CreateSocket
  <2> DEFINE s == at[Accepter]
  <2>1. /\ s \in Slots /\ pc[Accepter] = "socket"
        /\ UNCHANGED <<io, job, closedAt>>
    BY <1>6 DEF CreateSocket
  <2>2. /\ Drained(s) /\ closedAt[s] = "max"
        /\ \A t \in Closers : ~Owns(t, s)
    BY <2>1 DEF OwnerInv, OwnerAlone, BindHoldsMax, Owns, Taking
  <2>3. \A r \in Slots \ {s} : socket'[r] = socket[r] /\ link'[r] = link[r] /\ conn'[r] = conn[r]
    BY <1>6 DEF CreateSocket
  <2>4. \A t \in Closers : pc'[t] = pc[t] /\ at'[t] = at[t]
    BY <1>6 DEF CreateSocket, Goto, NextSlot
  <2>5. socket'[s] = 0 \/ link'[s] = "fresh"
    BY <1>6 DEF CreateSocket
  <2>6. \A r \in Slots : Drained(r) => Drained(r)'
    BY <2>1, <2>3, <2>4, <2>5
  <2>7. RecsAreLatest'
    BY <2>1, <2>2, <2>3
  <2>8. JobsAreLatest'
    BY <2>1, <2>2, <2>3, <2>4
  <2>9. NoSocketLeft' /\ SenderNeverCloses'
    BY <2>1, <2>2, <2>3, <2>4 DEF Owns, OwnerLabels
  <2>10. ElapsedDrained' /\ TakerDrained'
    <3> HIDE DEF Drained
    <3>1. \/ pc'[Accepter] = "acceptex" /\ at'[Accepter] = s
          \/ pc'[Accepter] \in {"check", "scan"}
      BY <1>6 DEF CreateSocket, Goto, NextSlot
    <3>2. QED
      BY <2>1, <2>2, <2>6, <3>1
  <2>11. QED
    BY <2>7, <2>8, <2>9, <2>10
<1>7. CASE PostAccept
  BY <1>7 DEF PostAccept, Goto, NextSlot, Rec, OwnerInv, BindHoldsMax
<1>8. CASE HasSendData
  BY <1>8 DEF HasSendData, Goto, NextSlot
<1>9. CASE BindSendCas
  BY <1>9 DEF BindSendCas, Goto, NextSlot
<1>10. CASE PostSend
  BY <1>10 DEF PostSend, Goto, Rec, ErrorHandler
<1>11. CASE MoveFront
  BY <1>11 DEF MoveFront, Goto, NextSlot
<1>12. CASE SendPacketEnqueue
  BY <1>12 DEF SendPacketEnqueue, Goto
<1>13. ASSUME NEW s \in Slots, SendPacketLock(s) PROVE DrainInv'
  BY <1>13 DEF SendPacketLock, Goto
<1>14. ASSUME NEW w \in Workers, NEW c \in io, TakeExited(w, c) PROVE DrainInv'
  BY <1>14 DEF TakeExited, Goto, Takes, Begin
<1>15. ASSUME NEW w \in Workers, NEW c \in io, TakeRecv(w, c) PROVE DrainInv'
  BY <1>15 DEF TakeRecv, Goto, Takes, Begin
<1>16. ASSUME NEW w \in Workers, NEW c \in io, TakeSend(w, c) PROVE DrainInv'
  BY <1>16 DEF TakeSend, Takes
<1>17. ASSUME NEW w \in Workers, NEW c \in io, TakeAccept(w, c) PROVE DrainInv'
  BY <1>17 DEF TakeAccept, Goto, Takes, Begin
<1>18. ASSUME NEW w \in Workers, ActivateZero(w) PROVE DrainInv'
  BY <1>18 DEF ActivateZero, Goto
<1>19. ASSUME NEW w \in Workers, ActivateOn(w) PROVE DrainInv'
  BY <1>19 DEF ActivateOn, Goto
<1>20. ASSUME NEW w \in Workers, ActivateClear(w) PROVE DrainInv'
  BY <1>20 DEF ActivateClear, Goto
<1>21. ASSUME NEW w \in Workers, BindRecv(w) PROVE DrainInv'
  BY <1>21 DEF BindRecv, Goto, Rec, Finish, ErrorHandler
<1>22. ASSUME NEW w \in Workers, CountSession(w) PROVE DrainInv'
  BY <1>22 DEF CountSession, Goto, Finish
<1>23. ASSUME NEW t \in Closers, CloseMax(t) PROVE DrainInv'
  BY <1>23 DEF CloseMax, Goto
<1>24. ASSUME NEW t \in Closers, CloseCas(t) PROVE DrainInv'
  BY <1>24 DEF CloseCas, Goto, CloseReturns, Finish
<1>25. ASSUME NEW t \in Closers, CloseHandle(t) PROVE DrainInv'
  <2>1. PICK ops \in SUBSET io : Complete(ops, "fail")
    BY <1>25 DEF CloseHandle, PendingOps
  <2>2. \A c \in io' : \E d \in io : d.slot = c.slot /\ d.conn = c.conn
    <3> HIDE DEF TypeOK, DrainInv
    <3>1. QED
      BY <2>1, CompleteAlike DEF Alike
  <2>3. /\ pc[t] = "closesocket" /\ Goto(t, "setsocket")
        /\ link' = [link EXCEPT ![at[t]] = "none"]
        /\ UNCHANGED <<closedAt, socket, at, job, conn>>
    BY <1>25 DEF CloseHandle
  <2>4. t \in Workers
    BY <2>3
  <2>5. \A r \in Slots : Drained(r) => Drained(r)'
    BY <2>2, <2>3, <2>4 DEF Goto
  <2>6. RecsAreLatest'
    BY <2>2, <2>3
  <2>7. JobsAreLatest' /\ NoSocketLeft' /\ SenderNeverCloses'
    BY <2>3, <2>4 DEF Goto
  <2>8. ElapsedDrained' /\ TakerDrained'
    <3> HIDE DEF Drained
    <3>1. pc'[Accepter] = pc[Accepter]
      BY <2>3, <2>4 DEF Goto
    <3>2. QED
      BY <2>3, <2>5, <3>1
  <2>9. QED
    BY <2>6, <2>7, <2>8
<1>26. ASSUME NEW t \in Closers, ClearSocket(t) PROVE DrainInv'
  BY <1>26 DEF ClearSocket, Goto
<1>27. ASSUME NEW t \in Closers, ClearSendBuffer(t) PROVE DrainInv'
  BY <1>27 DEF ClearSendBuffer, Goto
<1>28. ASSUME NEW t \in Closers, ClearSending(t) PROVE DrainInv'
  BY <1>28 DEF ClearSending, Goto
<1>29. ASSUME NEW t \in Closers, ReleaseSlot(t) PROVE DrainInv'
  BY <1>29 DEF ReleaseSlot, Goto, CloseReturns, Finish
<1>30. ASSUME NEW s \in Slots, ReuseTimePasses(s) PROVE DrainInv'
  <2>1. \A w \in Workers : pc[w] # "hasdata"
    BY ThreadKinds DEF WorkerLabels
  <2>2. Drained(s)
    BY <1>30, <2>1 DEF ReuseTimePasses, Quiet
  <2>3. QED
    BY <1>30, <2>2 DEF ReuseTimePasses
<1>31. ASSUME NEW s \in Slots, PeerConnects(s) PROVE DrainInv'
  BY <1>31, PeersComplete, DrainCompletes
<1>32. ASSUME NEW s \in Slots, AcceptAborts(s) PROVE DrainInv'
  BY <1>32, PeersComplete, DrainCompletes
<1>33. ASSUME NEW s \in Slots, PeerSends(s) PROVE DrainInv'
  BY <1>33, PeersComplete, DrainCompletes
<1>34. ASSUME NEW s \in Slots, SendCompletes(s) PROVE DrainInv'
  BY <1>34, PeersComplete, DrainCompletes
<1>35. ASSUME NEW s \in Slots, PeerCloses(s) PROVE DrainInv'
  BY <1>35, PeersComplete, DrainCompletes
<1>36. ASSUME NEW s \in Slots, PeerResets(s) PROVE DrainInv'
  BY <1>36, PeersComplete, DrainCompletes
<1>37. CASE UNCHANGED vars
  BY <1>37 DEF vars, session, kernel, logic
<1>38. QED
  BY <1>1, <1>2, <1>3, <1>4, <1>5, <1>6, <1>7, <1>8, <1>9, <1>10, <1>11, <1>12, <1>13,
     <1>14, <1>15, <1>16, <1>17, <1>18, <1>19, <1>20, <1>21, <1>22, <1>23, <1>24, <1>25,
     <1>26, <1>27, <1>28, <1>29, <1>30, <1>31, <1>32, <1>33, <1>34, <1>35, <1>36,
     <1>37 DEF Next, AccepterThread, SenderThread,
     PacketThread, WorkerThread, Gqcs, CloseSocket, Outside
-----------------------------------------------------------------------------
(* One receive at a time *)

(***************************************************************************)
(* The right to hand recv_buf_ to the kernel is a token: the accept in     *)
(* flight, then the worker that activates the session, then the receive,   *)
(* the worker that handles it, and so on.  A slot never has two of them.   *)
(***************************************************************************)
ReceivingLabels == {"zero", "on", "clear", "recv"}
Receiving(w, s) == at[w] = s /\ pc[w] \in ReceivingLabels

TokenOfRecs ==
    \A c, d \in io : c.slot = d.slot /\ c.op # "send" /\ d.op # "send" => c = d

TokenOfWorkers ==
    \A w \in Workers : pc[w] \in ReceivingLabels =>
        /\ \A c \in io : c.slot = at[w] => c.op = "send"
        /\ \A v \in Workers : Receiving(v, at[w]) => v = w

TokenInv == TokenOfRecs /\ TokenOfWorkers

LEMMA TokenInit == Init => TokenInv
BY PoolAssumption DEF Init, TokenInv, TokenOfRecs, TokenOfWorkers, Receiving,
   ReceivingLabels, Threads

LEMMA TokenCompletes ==
    ASSUME TypeOK, TokenInv, CompletesOnly, UNCHANGED at,
           \A w \in Workers : pc[w] = pc'[w] \/ pc'[w] \notin ReceivingLabels
    PROVE  TokenInv'
<1> PICK ops \in SUBSET io, st \in {"ok", "zero", "fail"} : Complete(ops, st)
  BY DEF CompletesOnly
<1>1. \A c \in io' : \E d \in io : d.slot = c.slot /\ d.op = c.op
  BY CompleteAlike DEF Alike
<1>2. TokenOfRecs'
  <2> SUFFICES ASSUME NEW b \in io', NEW c \in io', b.slot = c.slot,
                      b.op # "send", c.op # "send", b # c
               PROVE  FALSE
    BY DEF TokenOfRecs
  <2>1. PICK d, e \in io : d # e /\ Alike(d, b) /\ Alike(e, c)
    BY CompleteAlike
  <2>2. QED
    BY <2>1 DEF Alike, TokenInv, TokenOfRecs
<1>3. TokenOfWorkers'
  BY <1>1 DEF TokenInv, TokenOfWorkers, Receiving
<1>4. QED
  BY <1>2, <1>3 DEF TokenInv

LEMMA TokenStep == IInv /\ DrainInv /\ TokenInv /\ [Next]_vars => TokenInv'
<1> SUFFICES ASSUME TypeOK, OwnerInv, DrainInv, TokenInv, [Next]_vars PROVE TokenInv'
  BY DEF IInv
<1> USE PoolAssumption DEF TypeOK, FieldsOK, ThreadsOK, KernelOK, IoRecs, Closers, Threads,
        session, kernel, TokenInv, TokenOfRecs, TokenOfWorkers, Receiving, ReceivingLabels
<1>1. CASE ScanBegin
  BY <1>1 DEF ScanBegin, Goto
<1>2. CASE CheckActivated
  BY <1>2 DEF CheckActivated, Goto, NextSlot
<1>3. CASE CheckTime
  BY <1>3 DEF CheckTime, Goto, NextSlot
<1>4. CASE CheckDiff
  BY <1>4 DEF CheckDiff, Goto, NextSlot
<1>5. CASE TakeSlot
  BY <1>5 DEF TakeSlot, Goto
<1>6. CASE CreateSocket
  BY <1>6 DEF CreateSocket, Goto, NextSlot
<1>7. CASE PostAccept
  BY <1>7 DEF PostAccept, Goto, NextSlot, Rec, DrainInv, TakerDrained, Drained
<1>8. CASE HasSendData
  BY <1>8 DEF HasSendData, Goto, NextSlot
<1>9. CASE BindSendCas
  BY <1>9 DEF BindSendCas, Goto, NextSlot
<1>10. CASE PostSend
  BY <1>10 DEF PostSend, Goto, Rec, ErrorHandler
<1>11. CASE MoveFront
  BY <1>11 DEF MoveFront, Goto, NextSlot
<1>12. CASE SendPacketEnqueue
  BY <1>12 DEF SendPacketEnqueue, Goto
<1>13. ASSUME NEW s \in Slots, SendPacketLock(s) PROVE TokenInv'
  BY <1>13 DEF SendPacketLock, Goto
<1>14. ASSUME NEW w \in Workers, NEW c \in io, TakeExited(w, c) PROVE TokenInv'
  BY <1>14 DEF TakeExited, Goto, Takes, Begin
<1>15. ASSUME NEW w \in Workers, NEW c \in io, TakeRecv(w, c) PROVE TokenInv'
  BY <1>15 DEF TakeRecv, Goto, Takes, Begin
<1>16. ASSUME NEW w \in Workers, NEW c \in io, TakeSend(w, c) PROVE TokenInv'
  BY <1>16 DEF TakeSend, Takes
<1>17. ASSUME NEW w \in Workers, NEW c \in io, TakeAccept(w, c) PROVE TokenInv'
  BY <1>17 DEF TakeAccept, Goto, Takes, Begin
<1>18. ASSUME NEW w \in Workers, ActivateZero(w) PROVE TokenInv'
  BY <1>18 DEF ActivateZero, Goto
<1>19. ASSUME NEW w \in Workers, ActivateOn(w) PROVE TokenInv'
  BY <1>19 DEF ActivateOn, Goto
<1>20. ASSUME NEW w \in Workers, ActivateClear(w) PROVE TokenInv'
  BY <1>20 DEF ActivateClear, Goto
<1>21. ASSUME NEW w \in Workers, BindRecv(w) PROVE TokenInv'
  BY <1>21 DEF BindRecv, Goto, Rec, Finish, ErrorHandler
<1>22. ASSUME NEW w \in Workers, CountSession(w) PROVE TokenInv'
  BY <1>22 DEF CountSession, Goto, Finish
<1>23. ASSUME NEW t \in Closers, CloseMax(t) PROVE TokenInv'
  BY <1>23 DEF CloseMax, Goto
<1>24. ASSUME NEW t \in Closers, CloseCas(t) PROVE TokenInv'
  BY <1>24 DEF CloseCas, Goto, CloseReturns, Finish
<1>25. ASSUME NEW t \in Closers, CloseHandle(t) PROVE TokenInv'
  <2>1. CompletesOnly
    BY <1>25 DEF CloseHandle, PendingOps, CompletesOnly
  <2>2. UNCHANGED at /\ \A w \in Workers : pc[w] = pc'[w] \/ pc'[w] = "setsocket"
    BY <1>25 DEF CloseHandle, Goto
  <2>3. QED
    <3> HIDE DEF TypeOK, TokenInv
    <3>1. QED
      BY <2>1, <2>2, TokenCompletes
<1>26. ASSUME NEW t \in Closers, ClearSocket(t) PROVE TokenInv'
  BY <1>26 DEF ClearSocket, Goto
<1>27. ASSUME NEW t \in Closers, ClearSendBuffer(t) PROVE TokenInv'
  BY <1>27 DEF ClearSendBuffer, Goto
<1>28. ASSUME NEW t \in Closers, ClearSending(t) PROVE TokenInv'
  BY <1>28 DEF ClearSending, Goto
<1>29. ASSUME NEW t \in Closers, ReleaseSlot(t) PROVE TokenInv'
  BY <1>29 DEF ReleaseSlot, Goto, CloseReturns, Finish
<1>30. ASSUME NEW s \in Slots, ReuseTimePasses(s) PROVE TokenInv'
  BY <1>30 DEF ReuseTimePasses
<1>31. ASSUME NEW s \in Slots, PeerConnects(s) PROVE TokenInv'
  BY <1>31, PeersComplete, TokenCompletes
<1>32. ASSUME NEW s \in Slots, AcceptAborts(s) PROVE TokenInv'
  BY <1>32, PeersComplete, TokenCompletes
<1>33. ASSUME NEW s \in Slots, PeerSends(s) PROVE TokenInv'
  BY <1>33, PeersComplete, TokenCompletes
<1>34. ASSUME NEW s \in Slots, SendCompletes(s) PROVE TokenInv'
  BY <1>34, PeersComplete, TokenCompletes
<1>35. ASSUME NEW s \in Slots, PeerCloses(s) PROVE TokenInv'
  BY <1>35, PeersComplete, TokenCompletes
<1>36. ASSUME NEW s \in Slots, PeerResets(s) PROVE TokenInv'
  BY <1>36, PeersComplete, TokenCompletes
<1>37. CASE UNCHANGED vars
  BY <1>37 DEF vars, session, kernel, logic
<1>38. QED
  BY <1>1, <1>2, <1>3, <1>4, <1>5, <1>6, <1>7, <1>8, <1>9, <1>10, <1>11, <1>12, <1>13,
     <1>14, <1>15, <1>16, <1>17, <1>18, <1>19, <1>20, <1>21, <1>22, <1>23, <1>24, <1>25,
     <1>26, <1>27, <1>28, <1>29, <1>30, <1>31, <1>32, <1>33, <1>34, <1>35, <1>36,
     <1>37 DEF Next, AccepterThread, SenderThread,
     PacketThread, WorkerThread, Gqcs, CloseSocket, Outside
-----------------------------------------------------------------------------
(* One send at a time *)

(***************************************************************************)
(* is_sending_ guards a slot from the moment it may be reused until its    *)
(* socket is cleared.  (In between, ClearSession turns the flag off while  *)
(* the sender may be past its compare-and-swap: there is no socket to send *)
(* on then, and the sender has moved on before the slot may be reused.)    *)
(***************************************************************************)
Settled(s) == closedAt[s] = "elapsed" \/ Taking(s) \/ socket[s] # 0

SendOfRecs ==
    /\ \A c, d \in io : /\ Settled(c.slot) /\ c.slot = d.slot
                        /\ c.op = "send" /\ d.op = "send"
                        => c = d
    /\ \A c \in io : Settled(c.slot) /\ c.op = "send" => sending[c.slot]

SendOfSender ==
    pc[Sender] = "wsasend" /\ Settled(at[Sender]) =>
        /\ sending[at[Sender]]
        /\ \A c \in io : c.op = "send" => c.slot # at[Sender]

SendInv == SendOfRecs /\ SendOfSender

LEMMA SendInit == Init => SendInv
BY PoolAssumption DEF Init, SendInv, SendOfRecs, SendOfSender, Threads

LEMMA SendCompletesOnly ==
    ASSUME TypeOK, SendInv, CompletesOnly, UNCHANGED <<closedAt, socket, sending, at>>,
           pc'[Sender] = "wsasend" => pc[Sender] = "wsasend",
           UNCHANGED pc[Accepter]
    PROVE  SendInv'
<1> PICK ops \in SUBSET io, st \in {"ok", "zero", "fail"} : Complete(ops, st)
  BY DEF CompletesOnly
<1>1. \A c \in io' : \E d \in io : d.slot = c.slot /\ d.op = c.op
  BY CompleteAlike DEF Alike
<1>2. \A s \in Slots : Settled(s)' => Settled(s)
  BY DEF Settled, Taking
<1>3. \A c \in io' : c.slot \in Slots
  BY <1>1 DEF TypeOK, KernelOK, IoRecs
<1>4. SendOfRecs'
  <2>1. ASSUME NEW b \in io', NEW c \in io', Settled(b.slot)', b.slot = c.slot,
               b.op = "send", c.op = "send", b # c
        PROVE  FALSE
    <3>1. PICK d, e \in io : d # e /\ Alike(d, b) /\ Alike(e, c)
      BY <2>1, CompleteAlike
    <3>2. QED
      BY <2>1, <3>1, <1>2, <1>3 DEF Alike, SendInv, SendOfRecs
  <2>2. \A c \in io' : Settled(c.slot)' /\ c.op = "send" => sending'[c.slot]
    BY <1>1, <1>2, <1>3 DEF SendInv, SendOfRecs
  <2>3. QED
    BY <2>1, <2>2 DEF SendOfRecs
<1>5. SendOfSender'
  BY <1>1, <1>2, ThreadKinds DEF SendInv, SendOfSender, TypeOK, ThreadsOK
<1>6. QED
  BY <1>4, <1>5 DEF SendInv

LEMMA SendStep == InTime /\ IInv /\ DrainInv /\ SendInv /\ [Next]_vars => SendInv'
<1> SUFFICES ASSUME InTime, TypeOK, OwnerInv, DrainInv, SendInv, [Next]_vars PROVE SendInv'
  BY DEF IInv
<1> USE PoolAssumption DEF TypeOK, FieldsOK, ThreadsOK, KernelOK, IoRecs, Closers, Threads,
        session, kernel, SendInv, SendOfRecs, SendOfSender, Settled, Taking
<1>1. CASE ScanBegin
  BY <1>1 DEF ScanBegin, Goto
<1>2. CASE CheckActivated
  BY <1>2 DEF CheckActivated, Goto, NextSlot
<1>3. CASE CheckTime
  BY <1>3 DEF CheckTime, Goto, NextSlot, InTime
<1>4. CASE CheckDiff
  BY <1>4 DEF CheckDiff, DrainInv, TakerDrained
<1>5. CASE TakeSlot
  BY <1>5 DEF TakeSlot, Goto
<1>6. CASE CreateSocket
  BY <1>6 DEF CreateSocket, Goto, NextSlot, DrainInv, TakerDrained, Drained
<1>7. CASE PostAccept
  BY <1>7 DEF PostAccept, Goto, NextSlot, Rec
<1>8. CASE HasSendData
  BY <1>8 DEF HasSendData, Goto, NextSlot
<1>9. CASE BindSendCas
  BY <1>9 DEF BindSendCas, Goto, NextSlot
<1>10. CASE PostSend
  BY <1>10 DEF PostSend, Goto, Rec, ErrorHandler
<1>11. CASE MoveFront
  BY <1>11 DEF MoveFront, Goto, NextSlot
<1>12. CASE SendPacketEnqueue
  BY <1>12 DEF SendPacketEnqueue, Goto
<1>13. ASSUME NEW s \in Slots, SendPacketLock(s) PROVE SendInv'
  BY <1>13 DEF SendPacketLock, Goto
<1>14. ASSUME NEW w \in Workers, NEW c \in io, TakeExited(w, c) PROVE SendInv'
  BY <1>14 DEF TakeExited, Goto, Takes, Begin
<1>15. ASSUME NEW w \in Workers, NEW c \in io, TakeRecv(w, c) PROVE SendInv'
  BY <1>15 DEF TakeRecv, Goto, Takes, Begin
<1>16. ASSUME NEW w \in Workers, NEW c \in io, TakeSend(w, c) PROVE SendInv'
  BY <1>16 DEF TakeSend, Takes
<1>17. ASSUME NEW w \in Workers, NEW c \in io, TakeAccept(w, c) PROVE SendInv'
  BY <1>17 DEF TakeAccept, Goto, Takes, Begin
<1>18. ASSUME NEW w \in Workers, ActivateZero(w) PROVE SendInv'
  BY <1>18 DEF ActivateZero, Goto
<1>19. ASSUME NEW w \in Workers, ActivateOn(w) PROVE SendInv'
  BY <1>19 DEF ActivateOn, Goto
<1>20. ASSUME NEW w \in Workers, ActivateClear(w) PROVE SendInv'
  BY <1>20 DEF ActivateClear, Goto
<1>21. ASSUME NEW w \in Workers, BindRecv(w) PROVE SendInv'
  BY <1>21 DEF BindRecv, Goto, Rec, Finish, ErrorHandler
<1>22. ASSUME NEW w \in Workers, CountSession(w) PROVE SendInv'
  BY <1>22 DEF CountSession, Goto, Finish
<1>23. ASSUME NEW t \in Closers, CloseMax(t) PROVE SendInv'
  BY <1>23 DEF CloseMax, Goto, DrainInv, SenderNeverCloses, CloseLabels
<1>24. ASSUME NEW t \in Closers, CloseCas(t) PROVE SendInv'
  BY <1>24 DEF CloseCas, Goto, CloseReturns, Finish, DrainInv, SenderNeverCloses, CloseLabels
<1>25. ASSUME NEW t \in Closers, CloseHandle(t) PROVE SendInv'
  <2>1. CompletesOnly
    BY <1>25 DEF CloseHandle, PendingOps, CompletesOnly
  <2>2. /\ UNCHANGED <<closedAt, socket, sending, at>> /\ UNCHANGED pc[Accepter]
        /\ pc'[Sender] = "wsasend" => pc[Sender] = "wsasend"
    BY <1>25 DEF CloseHandle, Goto
  <2>3. QED
    <3> HIDE DEF TypeOK, SendInv
    <3>1. QED
      BY <2>1, <2>2, SendCompletesOnly
<1>26. ASSUME NEW t \in Closers, ClearSocket(t) PROVE SendInv'
  BY <1>26 DEF ClearSocket, Goto
<1>27. ASSUME NEW t \in Closers, ClearSendBuffer(t) PROVE SendInv'
  BY <1>27 DEF ClearSendBuffer, Goto
<1>28. ASSUME NEW t \in Closers, ClearSending(t) PROVE SendInv'
  BY <1>28 DEF ClearSending, Goto, DrainInv, NoSocketLeft, SenderNeverCloses, CloseLabels,
     OwnerInv, OwnerAlone, OwnerLabels
<1>29. ASSUME NEW t \in Closers, ReleaseSlot(t) PROVE SendInv'
  BY <1>29 DEF ReleaseSlot, Goto, CloseReturns, Finish, DrainInv, SenderNeverCloses, CloseLabels
<1>30. ASSUME NEW s \in Slots, ReuseTimePasses(s) PROVE SendInv'
  BY <1>30 DEF ReuseTimePasses, Quiet, InTime
<1>31. ASSUME NEW s \in Slots, PeerConnects(s) PROVE SendInv'
  BY <1>31, PeersComplete, SendCompletesOnly
<1>32. ASSUME NEW s \in Slots, AcceptAborts(s) PROVE SendInv'
  BY <1>32, PeersComplete, SendCompletesOnly
<1>33. ASSUME NEW s \in Slots, PeerSends(s) PROVE SendInv'
  BY <1>33, PeersComplete, SendCompletesOnly
<1>34. ASSUME NEW s \in Slots, SendCompletes(s) PROVE SendInv'
  BY <1>34, PeersComplete, SendCompletesOnly
<1>35. ASSUME NEW s \in Slots, PeerCloses(s) PROVE SendInv'
  BY <1>35, PeersComplete, SendCompletesOnly
<1>36. ASSUME NEW s \in Slots, PeerResets(s) PROVE SendInv'
  BY <1>36, PeersComplete, SendCompletesOnly
<1>37. CASE UNCHANGED vars
  BY <1>37 DEF vars, session, kernel, logic
<1>38. QED
  BY <1>1, <1>2, <1>3, <1>4, <1>5, <1>6, <1>7, <1>8, <1>9, <1>10, <1>11, <1>12, <1>13,
     <1>14, <1>15, <1>16, <1>17, <1>18, <1>19, <1>20, <1>21, <1>22, <1>23, <1>24, <1>25,
     <1>26, <1>27, <1>28, <1>29, <1>30, <1>31, <1>32, <1>33, <1>34, <1>35, <1>36,
     <1>37 DEF Next, AccepterThread, SenderThread,
     PacketThread, WorkerThread, Gqcs, CloseSocket, Outside
-----------------------------------------------------------------------------
(* The logic is told before the slot is taken away *)

(***************************************************************************)
(* A worker may come to CloseSocket without an OnDisconnect for one reason *)
(* only, the accepted socket having been refused by the port.  Such a slot *)
(* is nobody's and never active again: its time stays UINT64_MAX, and the  *)
(* compare-and-swap turns the worker away.                                 *)
(***************************************************************************)
Orphan(s) ==
    /\ closedAt[s] = "max" /\ ~activated[s] /\ ~Taking(s)
    /\ \A c \in io : c.op = "accept" => c.slot # s
    /\ \A t \in Closers : ~Owns(t, s)

ReportInv ==
    \A w \in Workers :
        /\ pc[w] \in {"close", "cas"} => gone[at[w]] = conn[at[w]] \/ Orphan(at[w])
        /\ pc[w] \in ClosingLabels => gone[at[w]] = conn[at[w]]

LEMMA ReportInit == Init => ReportInv
BY PoolAssumption DEF Init, ReportInv, Threads, ClosingLabels

LEMMA OrphanCompletes ==
    ASSUME TypeOK, CompletesOnly, UNCHANGED <<activated, closedAt, pc, at>>,
           NEW s \in Slots, Orphan(s)
    PROVE  Orphan(s)'
<1>1. \A c \in io' : \E d \in io : d.slot = c.slot /\ d.op = c.op
  BY CompleteAlike DEF Alike, CompletesOnly
<1>2. QED
  BY <1>1 DEF Orphan, Taking, Owns

(* An orphan stays one. *)
LEMMA OrphanStep ==
    ASSUME InTime, TypeOK, OwnerInv, DrainInv, NEW r \in Slots, Orphan(r), [Next]_vars
    PROVE  Orphan(r)'
<1> USE PoolAssumption DEF TypeOK, FieldsOK, ThreadsOK, KernelOK, IoRecs, Closers, Threads,
        session, kernel, Orphan, Owns, Taking, OwnerLabels, CloseLabels, InTime, DrainInv,
        SenderNeverCloses
<1>1. CASE ScanBegin
  BY <1>1 DEF ScanBegin, Goto
<1>2. CASE CheckActivated
  BY <1>2 DEF CheckActivated, Goto, NextSlot
<1>3. CASE CheckTime
  BY <1>3 DEF CheckTime, Goto, NextSlot
<1>4. CASE CheckDiff
  BY <1>4 DEF CheckDiff, Goto, NextSlot
<1>5. CASE TakeSlot
  BY <1>5 DEF TakeSlot, Goto
<1>6. CASE CreateSocket
  BY <1>6 DEF CreateSocket, Goto, NextSlot
<1>7. CASE PostAccept
  BY <1>7 DEF PostAccept, Goto, NextSlot, Rec
<1>8. CASE HasSendData
  BY <1>8 DEF HasSendData, Goto, NextSlot
<1>9. CASE BindSendCas
  BY <1>9 DEF BindSendCas, Goto, NextSlot
<1>10. CASE PostSend
  BY <1>10 DEF PostSend, Goto, Rec, ErrorHandler
<1>11. CASE MoveFront
  BY <1>11 DEF MoveFront, Goto, NextSlot
<1>12. CASE SendPacketEnqueue
  BY <1>12 DEF SendPacketEnqueue, Goto
<1>13. ASSUME NEW s \in Slots, SendPacketLock(s) PROVE Orphan(r)'
  BY <1>13 DEF SendPacketLock, Goto
<1>14. ASSUME NEW w \in Workers, NEW c \in io, TakeExited(w, c) PROVE Orphan(r)'
  BY <1>14 DEF TakeExited, Goto, Takes, Begin
<1>15. ASSUME NEW w \in Workers, NEW c \in io, TakeRecv(w, c) PROVE Orphan(r)'
  BY <1>15 DEF TakeRecv, Goto, Takes, Begin
<1>16. ASSUME NEW w \in Workers, NEW c \in io, TakeSend(w, c) PROVE Orphan(r)'
  BY <1>16 DEF TakeSend, Takes
<1>17. ASSUME NEW w \in Workers, NEW c \in io, TakeAccept(w, c) PROVE Orphan(r)'
  BY <1>17 DEF TakeAccept, Goto, Takes, Begin
<1>18. ASSUME NEW w \in Workers, ActivateZero(w) PROVE Orphan(r)'
  BY <1>18 DEF ActivateZero, Goto
<1>19. ASSUME NEW w \in Workers, ActivateOn(w) PROVE Orphan(r)'
  BY <1>19 DEF ActivateOn, Goto
<1>20. ASSUME NEW w \in Workers, ActivateClear(w) PROVE Orphan(r)'
  BY <1>20 DEF ActivateClear, Goto
<1>21. ASSUME NEW w \in Workers, BindRecv(w) PROVE Orphan(r)'
  BY <1>21 DEF BindRecv, Goto, Rec, Finish, ErrorHandler
<1>22. ASSUME NEW w \in Workers, CountSession(w) PROVE Orphan(r)'
  BY <1>22 DEF CountSession, Goto, Finish
<1>23. ASSUME NEW t \in Closers, CloseMax(t) PROVE Orphan(r)'
  BY <1>23 DEF CloseMax, Goto
<1>24. ASSUME NEW t \in Closers, CloseCas(t) PROVE Orphan(r)'
  BY <1>24 DEF CloseCas, Goto, CloseReturns, Finish
<1>25. ASSUME NEW t \in Closers, CloseHandle(t) PROVE Orphan(r)'
  <2>1. CompletesOnly
    BY <1>25 DEF CloseHandle, PendingOps, CompletesOnly
  <2>2. /\ UNCHANGED <<activated, closedAt, at>>
        /\ pc[t] = "closesocket" /\ Goto(t, "setsocket")
    BY <1>25 DEF CloseHandle
  <2>3. /\ \A c \in io' : c.op = "accept" => c.slot # r
        /\ \A u \in Closers : ~Owns(u, r)'
        /\ ~Taking(r)'
    <3>1. \A c \in io' : \E d \in io : d.slot = c.slot /\ d.op = c.op
      <4> HIDE DEF TypeOK, Orphan
      <4>1. QED
        BY <2>1, CompleteAlike DEF Alike, CompletesOnly
    <3>2. QED
      BY <2>2, <3>1 DEF Goto
  <2>4. QED
    BY <2>2, <2>3
<1>26. ASSUME NEW t \in Closers, ClearSocket(t) PROVE Orphan(r)'
  BY <1>26 DEF ClearSocket, Goto
<1>27. ASSUME NEW t \in Closers, ClearSendBuffer(t) PROVE Orphan(r)'
  BY <1>27 DEF ClearSendBuffer, Goto
<1>28. ASSUME NEW t \in Closers, ClearSending(t) PROVE Orphan(r)'
  BY <1>28 DEF ClearSending, Goto
<1>29. ASSUME NEW t \in Closers, ReleaseSlot(t) PROVE Orphan(r)'
  BY <1>29 DEF ReleaseSlot, Goto, CloseReturns, Finish, OwnerLabels
<1>30. ASSUME NEW s \in Slots, ReuseTimePasses(s) PROVE Orphan(r)'
  BY <1>30 DEF ReuseTimePasses
<1>31. ASSUME NEW s \in Slots, PeerConnects(s) PROVE Orphan(r)'
  BY <1>31, PeersComplete, OrphanCompletes
<1>32. ASSUME NEW s \in Slots, AcceptAborts(s) PROVE Orphan(r)'
  BY <1>32, PeersComplete, OrphanCompletes
<1>33. ASSUME NEW s \in Slots, PeerSends(s) PROVE Orphan(r)'
  BY <1>33, PeersComplete, OrphanCompletes
<1>34. ASSUME NEW s \in Slots, SendCompletes(s) PROVE Orphan(r)'
  BY <1>34, PeersComplete, OrphanCompletes
<1>35. ASSUME NEW s \in Slots, PeerCloses(s) PROVE Orphan(r)'
  BY <1>35, PeersComplete, OrphanCompletes
<1>36. ASSUME NEW s \in Slots, PeerResets(s) PROVE Orphan(r)'
  BY <1>36, PeersComplete, OrphanCompletes
<1>37. CASE UNCHANGED vars
  BY <1>37 DEF vars, session, kernel, logic
<1>38. QED
  BY <1>1, <1>2, <1>3, <1>4, <1>5, <1>6, <1>7, <1>8, <1>9, <1>10, <1>11, <1>12, <1>13,
     <1>14, <1>15, <1>16, <1>17, <1>18, <1>19, <1>20, <1>21, <1>22, <1>23, <1>24, <1>25,
     <1>26, <1>27, <1>28, <1>29, <1>30, <1>31, <1>32, <1>33, <1>34, <1>35, <1>36,
     <1>37 DEF Next, AccepterThread, SenderThread,
     PacketThread, WorkerThread, Gqcs, CloseSocket, Outside

(* Whoever is closing stays reported, as an orphan stays an orphan. *)
LEMMA ReportStep ==
    ASSUME InTime, TypeOK, OwnerInv, DrainInv, ReportInv, [Next]_vars
    PROVE  ReportInv'
<1>0. \A s \in Slots : Orphan(s) => Orphan(s)'
  BY OrphanStep
<1> USE PoolAssumption DEF TypeOK, FieldsOK, ThreadsOK, KernelOK, IoRecs, Closers, Threads,
        session, kernel, logic, ReportInv, DrainInv, ClosingLabels
<1>1. CASE ScanBegin
  BY <1>0, <1>1 DEF ScanBegin, Goto
<1>2. CASE CheckActivated
  BY <1>0, <1>2 DEF CheckActivated, Goto, NextSlot
<1>3. CASE CheckTime
  BY <1>0, <1>3 DEF CheckTime, Goto, NextSlot
<1>4. CASE CheckDiff
  BY <1>0, <1>4 DEF CheckDiff, Goto, NextSlot
<1>5. CASE TakeSlot
  BY <1>0, <1>5 DEF TakeSlot, Goto
<1>6. CASE CreateSocket
  BY <1>0, <1>6 DEF CreateSocket, Goto, NextSlot, TakerDrained, Drained
<1>7. CASE PostAccept
  BY <1>0, <1>7 DEF PostAccept, Goto, NextSlot, Rec
<1>8. CASE HasSendData
  BY <1>0, <1>8 DEF HasSendData, Goto, NextSlot
<1>9. CASE BindSendCas
  BY <1>0, <1>9 DEF BindSendCas, Goto, NextSlot
<1>10. CASE PostSend
  BY <1>0, <1>10 DEF PostSend, Goto, Rec, ErrorHandler
<1>11. CASE MoveFront
  BY <1>0, <1>11 DEF MoveFront, Goto, NextSlot
<1>12. CASE SendPacketEnqueue
  BY <1>0, <1>12 DEF SendPacketEnqueue, Goto
<1>13. ASSUME NEW s \in Slots, SendPacketLock(s) PROVE ReportInv'
  BY <1>0, <1>13 DEF SendPacketLock, Goto
<1>14. ASSUME NEW w \in Workers, NEW c \in io, TakeExited(w, c) PROVE ReportInv'
  BY <1>0, <1>14 DEF TakeExited, Goto, Takes, Begin, RecsAreLatest
<1>15. ASSUME NEW w \in Workers, NEW c \in io, TakeRecv(w, c) PROVE ReportInv'
  BY <1>0, <1>15 DEF TakeRecv, Goto, Takes, Begin
<1>16. ASSUME NEW w \in Workers, NEW c \in io, TakeSend(w, c) PROVE ReportInv'
  BY <1>0, <1>16 DEF TakeSend, Takes
<1>17. ASSUME NEW w \in Workers, NEW c \in io, TakeAccept(w, c) PROVE ReportInv'
  <2>1. CASE Begin(w, c, "zero")
    BY <1>0, <2>1, <1>17 DEF TakeAccept, Takes, Begin, Goto
  <2>2. CASE Begin(w, [c EXCEPT !.op = "none"], "close")
    <3>1. c.slot \in Slots /\ c.op = "accept" /\ pc[w] = "gqcs" /\ io' = io \ {c}
      BY <1>17 DEF TakeAccept, Takes
    <3>2. /\ pc' = [pc EXCEPT ![w] = "close"] /\ at' = [at EXCEPT ![w] = c.slot]
          /\ UNCHANGED <<activated, closedAt, conn, gone>>
      BY <2>2, <1>17 DEF TakeAccept, Begin, Goto
    <3>3. /\ closedAt[c.slot] = "max" /\ ~activated[c.slot] /\ ~Taking(c.slot)
          /\ \A t \in Closers : ~Owns(t, c.slot)
          /\ \A d \in io : d.op = "accept" /\ d.slot = c.slot => d = c
      BY <3>1 DEF OwnerInv, AcceptAlone
    <3>4. Orphan(c.slot)'
      BY <3>1, <3>2, <3>3 DEF Orphan, Taking, Owns, OwnerLabels
    <3>5. QED
      BY <1>0, <3>1, <3>2, <3>4
  <2>3. QED
    BY <2>1, <2>2, <1>17 DEF TakeAccept
<1>18. ASSUME NEW w \in Workers, ActivateZero(w) PROVE ReportInv'
  BY <1>0, <1>18 DEF ActivateZero, Goto
<1>19. ASSUME NEW w \in Workers, ActivateOn(w) PROVE ReportInv'
  BY <1>0, <1>19 DEF ActivateOn, Goto
<1>20. ASSUME NEW w \in Workers, ActivateClear(w) PROVE ReportInv'
  BY <1>0, <1>20 DEF ActivateClear, Goto
<1>21. ASSUME NEW w \in Workers, BindRecv(w) PROVE ReportInv'
  BY <1>0, <1>21 DEF BindRecv, Goto, Rec, Finish, ErrorHandler
<1>22. ASSUME NEW w \in Workers, CountSession(w) PROVE ReportInv'
  BY <1>0, <1>22 DEF CountSession, Goto, Finish
<1>23. ASSUME NEW t \in Closers, CloseMax(t) PROVE ReportInv'
  BY <1>0, <1>23 DEF CloseMax, Goto
<1>24. ASSUME NEW t \in Closers, CloseCas(t) PROVE ReportInv'
  BY <1>0, <1>24 DEF CloseCas, Goto, CloseReturns, Finish, Orphan
<1>25. ASSUME NEW t \in Closers, CloseHandle(t) PROVE ReportInv'
  BY <1>0, <1>25 DEF CloseHandle, Goto
<1>26. ASSUME NEW t \in Closers, ClearSocket(t) PROVE ReportInv'
  BY <1>0, <1>26 DEF ClearSocket, Goto
<1>27. ASSUME NEW t \in Closers, ClearSendBuffer(t) PROVE ReportInv'
  BY <1>0, <1>27 DEF ClearSendBuffer, Goto
<1>28. ASSUME NEW t \in Closers, ClearSending(t) PROVE ReportInv'
  BY <1>0, <1>28 DEF ClearSending, Goto
<1>29. ASSUME NEW t \in Closers, ReleaseSlot(t) PROVE ReportInv'
  BY <1>0, <1>29 DEF ReleaseSlot, Goto, CloseReturns, Finish
<1>30. ASSUME NEW s \in Slots, ReuseTimePasses(s) PROVE ReportInv'
  BY <1>0, <1>30 DEF ReuseTimePasses
<1>31. ASSUME NEW s \in Slots, PeerConnects(s) PROVE ReportInv'
  BY <1>0, <1>31 DEF PeerConnects, logic
<1>32. ASSUME NEW s \in Slots, AcceptAborts(s) PROVE ReportInv'
  BY <1>0, <1>32 DEF AcceptAborts, logic
<1>33. ASSUME NEW s \in Slots, PeerSends(s) PROVE ReportInv'
  BY <1>0, <1>33 DEF PeerSends, logic
<1>34. ASSUME NEW s \in Slots, SendCompletes(s) PROVE ReportInv'
  BY <1>0, <1>34 DEF SendCompletes, logic
<1>35. ASSUME NEW s \in Slots, PeerCloses(s) PROVE ReportInv'
  BY <1>0, <1>35 DEF PeerCloses, logic
<1>36. ASSUME NEW s \in Slots, PeerResets(s) PROVE ReportInv'
  BY <1>0, <1>36 DEF PeerResets, logic
<1>37. CASE UNCHANGED vars
  BY <1>0, <1>37 DEF vars, session, kernel, logic
<1>38. QED
  BY <1>1, <1>2, <1>3, <1>4, <1>5, <1>6, <1>7, <1>8, <1>9, <1>10, <1>11, <1>12, <1>13,
     <1>14, <1>15, <1>16, <1>17, <1>18, <1>19, <1>20, <1>21, <1>22, <1>23, <1>24, <1>25,
     <1>26, <1>27, <1>28, <1>29, <1>30, <1>31, <1>32, <1>33, <1>34, <1>35, <1>36,
     <1>37 DEF Next, AccepterThread, SenderThread,
     PacketThread, WorkerThread, Gqcs, CloseSocket, Outside
-----------------------------------------------------------------------------
(* An active session has a receive *)

(***************************************************************************)
(* Without resets: WSARecv is accepted on every activated session, since   *)
(* its link is up or finished; and a completed receive of an active        *)
(* session is never dropped, op_type_ being kRECV by then.                 *)
(***************************************************************************)
RecvOpKept == \A c \in io : c.op = "recv" /\ activated[c.slot] => recvOp[c.slot]

LinkHasConn ==
    /\ \A s \in Slots : link[s] # "rst" /\ (link[s] # "none" => conn[s] # 0)
    /\ \A c \in io : conn[c.slot] # 0
    /\ pc[Accepter] = "acceptex" => conn[at[Accepter]] # 0

ReceiveInv == RecvOpKept /\ LinkHasConn /\ ActiveHasReceive

LEMMA ReceiveInit == Init => ReceiveInv
BY PoolAssumption, ThreadKinds DEF Init, ReceiveInv, RecvOpKept, LinkHasConn, ActiveHasReceive

LEMMA ReceiveCompletes ==
    ASSUME TypeOK, ReceiveInv, CompletesOnly, LinkHasConn',
           UNCHANGED <<recvOp, at>>,
           \A s \in Slots : activated'[s] => activated[s],
           \A w \in Workers : pc[w] \in {"clear", "recv", "close", "cas"}
                                  => pc'[w] = pc[w]
    PROVE  ReceiveInv'
<1>1. /\ \A c \in io' : \E d \in io : Alike(d, c)
      /\ \A d \in io : \E c \in io' : Alike(d, c)
  BY CompleteAlike DEF CompletesOnly
<1>2. RecvOpKept'
  BY <1>1 DEF Alike, ReceiveInv, RecvOpKept, TypeOK, KernelOK, IoRecs
<1>3. ActiveHasReceive'
  <2> SUFFICES ASSUME NEW s \in Slots, activated'[s]
               PROVE  \/ \E c \in io' : c.slot = s /\ c.op = "recv"
                      \/ \E w \in Workers : /\ at'[w] = s
                                            /\ pc'[w] \in {"clear", "recv", "close", "cas"}
    BY DEF ActiveHasReceive
  <2>1. CASE \E c \in io : c.slot = s /\ c.op = "recv"
    BY <1>1, <2>1 DEF Alike
  <2>2. CASE \E w \in Workers : at[w] = s /\ pc[w] \in {"clear", "recv", "close", "cas"}
    BY <2>2
  <2>3. QED
    BY <2>1, <2>2 DEF ReceiveInv, ActiveHasReceive
<1>4. QED
  BY <1>2, <1>3 DEF ReceiveInv

LEMMA ReceiveStep ==
    ASSUME "reset" \notin Faults, IInv, LiveInv, TokenInv, ReceiveInv, [Next]_vars
    PROVE  ReceiveInv'
<1>0. TypeOK /\ OwnerInv
  BY DEF IInv
<1> USE PoolAssumption DEF TypeOK, FieldsOK, ThreadsOK, KernelOK, IoRecs, Closers, Threads,
        session, kernel, logic, ReceiveInv, RecvOpKept, LinkHasConn, ActiveHasReceive
<1>1. CASE ScanBegin
  BY <1>0, <1>1 DEF ScanBegin, Goto
<1>2. CASE CheckActivated
  BY <1>0, <1>2 DEF CheckActivated, Goto, NextSlot
<1>3. CASE CheckTime
  BY <1>0, <1>3 DEF CheckTime, Goto, NextSlot
<1>4. CASE CheckDiff
  BY <1>0, <1>4 DEF CheckDiff, Goto, NextSlot
<1>5. CASE TakeSlot
  BY <1>0, <1>5 DEF TakeSlot, Goto
<1>6. CASE CreateSocket
  BY <1>0, <1>6 DEF CreateSocket, Goto, NextSlot
<1>7. CASE PostAccept
  BY <1>0, <1>7 DEF PostAccept, Goto, NextSlot, Rec
<1>8. CASE HasSendData
  BY <1>0, <1>8 DEF HasSendData, Goto, NextSlot
<1>9. CASE BindSendCas
  BY <1>0, <1>9 DEF BindSendCas, Goto, NextSlot
<1>10. CASE PostSend
  BY <1>0, <1>10 DEF PostSend, Goto, Rec, ErrorHandler, Connected
<1>11. CASE MoveFront
  BY <1>0, <1>11 DEF MoveFront, Goto, NextSlot
<1>12. CASE SendPacketEnqueue
  BY <1>0, <1>12 DEF SendPacketEnqueue, Goto
<1>13. ASSUME NEW s \in Slots, SendPacketLock(s) PROVE ReceiveInv'
  BY <1>0, <1>13 DEF SendPacketLock, Goto
<1>14. ASSUME NEW w \in Workers, NEW c \in io, TakeExited(w, c) PROVE ReceiveInv'
  BY <1>0, <1>14 DEF TakeExited, Goto, Takes, Begin
<1>15. ASSUME NEW w \in Workers, NEW c \in io, TakeRecv(w, c) PROVE ReceiveInv'
  <2>1. /\ pc[w] = "gqcs" /\ io' = io \ {c} /\ c.op = "recv" /\ c.slot \in Slots
        /\ UNCHANGED <<activated, recvOp, conn, link>>
        /\ \A u \in Threads \ {w} : pc'[u] = pc[u] /\ at'[u] = at[u]
        /\ recvOp[c.slot] => pc'[w] = "recv" /\ at'[w] = c.slot
    BY <1>0, <1>15 DEF TakeRecv, Goto, Takes, Begin
  <2>2. RecvOpKept' /\ LinkHasConn'
    BY <1>0, <2>1
  <2>3. ActiveHasReceive'
    <3> SUFFICES ASSUME NEW s \in Slots, activated[s]
                 PROVE  \/ \E d \in io' : d.slot = s /\ d.op = "recv"
                        \/ \E v \in Workers : /\ at'[v] = s
                                              /\ pc'[v] \in {"clear", "recv", "close", "cas"}
      BY <2>1
    <3>1. CASE c.slot = s
      BY <2>1, <3>1
    <3>2. CASE c.slot # s
      BY <1>0, <2>1, <3>2
    <3>3. QED
      BY <3>1, <3>2
  <2>4. QED
    BY <2>2, <2>3
<1>16. ASSUME NEW w \in Workers, NEW c \in io, TakeSend(w, c) PROVE ReceiveInv'
  BY <1>0, <1>16 DEF TakeSend, Takes
<1>17. ASSUME NEW w \in Workers, NEW c \in io, TakeAccept(w, c) PROVE ReceiveInv'
  BY <1>0, <1>17, SMTT(30) DEF TakeAccept, Goto, Takes, Begin
<1>18. ASSUME NEW w \in Workers, ActivateZero(w) PROVE ReceiveInv'
  BY <1>0, <1>18 DEF ActivateZero, Goto, OwnerInv, OwnerAlone, OwnerLabels
<1>19. ASSUME NEW w \in Workers, ActivateOn(w) PROVE ReceiveInv'
  BY <1>0, <1>19 DEF ActivateOn, Goto, TokenInv, TokenOfWorkers, ReceivingLabels
<1>20. ASSUME NEW w \in Workers, ActivateClear(w) PROVE ReceiveInv'
  BY <1>0, <1>20 DEF ActivateClear, Goto
<1>21. ASSUME NEW w \in Workers, BindRecv(w) PROVE ReceiveInv'
  <2> DEFINE s == at[w]
  <2>1. /\ s \in Slots /\ pc[w] = "recv"
        /\ recvOp' = [recvOp EXCEPT ![s] = TRUE]
        /\ UNCHANGED <<activated, conn, link>>
    BY <1>0, <1>21 DEF BindRecv
  <2>2. PICK posted \in BOOLEAN :
          /\ Connected(s) => posted
          /\ posted => socket[s] # 0 /\ link[s] \in {"up", "fin", "rst"}
          /\ \/ ~posted /\ io' = io
             \/ posted /\ \E st \in {"pending", "zero", "fail"} :
                             io' = io \cup {Rec(s, "recv", st)}
    BY <1>21 DEF BindRecv
  <2>3. \A u \in Threads \ {w} : pc'[u] = pc[u] /\ at'[u] = at[u]
    BY <1>0, <1>21 DEF BindRecv, Goto, Finish, ErrorHandler
  <2>4. \A c \in io' \ io : c.slot = s /\ posted
    BY <2>2 DEF Rec
  <2>5. io \subseteq io'
    BY <2>2
  <2>6. LinkHasConn'
    BY <1>0, <2>1, <2>2, <2>3, <2>4
  <2>7. RecvOpKept'
    BY <1>0, <2>1, <2>4
  <2>8. ASSUME activated[s] PROVE \E c \in io' : c.slot = s /\ c.op = "recv"
    <3>1. Connected(s)
      BY <1>0, <2>1, <2>8 DEF Connected, LiveInv, ActiveLive, Up
    <3>2. PICK st \in {"pending", "zero", "fail"} : io' = io \cup {Rec(s, "recv", st)}
      BY <2>2, <3>1
    <3>3. /\ Rec(s, "recv", st) \in io'
          /\ Rec(s, "recv", st).slot = s /\ Rec(s, "recv", st).op = "recv"
      BY <3>2 DEF Rec
    <3>4. QED
      BY <3>3
  <2>9. ActiveHasReceive'
    BY <1>0, <2>1, <2>3, <2>5, <2>8
  <2>10. QED
    BY <2>6, <2>7, <2>9
<1>22. ASSUME NEW w \in Workers, CountSession(w) PROVE ReceiveInv'
  BY <1>0, <1>22 DEF CountSession, Goto, Finish
<1>23. ASSUME NEW t \in Closers, CloseMax(t) PROVE ReceiveInv'
  BY <1>0, <1>23 DEF CloseMax, Goto
<1>24. ASSUME NEW t \in Closers, CloseCas(t) PROVE ReceiveInv'
  <2>1. /\ pc[t] = "cas" /\ UNCHANGED <<io, recvOp, conn, link>>
        /\ \A s \in Slots : activated'[s] => activated[s] /\ at[t] # s
        /\ \A u \in Threads \ {t} : pc'[u] = pc[u] /\ at'[u] = at[u]
    BY <1>0, <1>24 DEF CloseCas, Goto, CloseReturns, Finish
  <2>2. RecvOpKept' /\ LinkHasConn'
    BY <1>0, <2>1
  <2>3. ActiveHasReceive'
    BY <1>0, <2>1
  <2>4. QED
    BY <2>2, <2>3
<1>25. ASSUME NEW t \in Closers, CloseHandle(t) PROVE ReceiveInv'
  <2>1. CompletesOnly
    BY <1>25 DEF CloseHandle, PendingOps, CompletesOnly
  <2>2. /\ UNCHANGED <<activated, recvOp, at, conn>>
        /\ pc[t] = "closesocket" /\ Goto(t, "setsocket")
        /\ link' = [link EXCEPT ![at[t]] = "none"]
    BY <1>25 DEF CloseHandle
  <2>3. \A c \in io' : \E d \in io : d.slot = c.slot
    <3> HIDE DEF TypeOK
    <3>1. QED
      BY <1>0, <2>1, CompleteAlike DEF CompletesOnly, Alike
  <2>4. LinkHasConn'
    BY <1>0, <2>2, <2>3 DEF Goto
  <2>5. \A w \in Workers : pc[w] \in {"clear", "recv", "close", "cas"} => pc'[w] = pc[w]
    BY <1>0, <2>2 DEF Goto
  <2>6. QED
    <3> HIDE DEF TypeOK, ReceiveInv, LinkHasConn
    <3>1. QED
      BY <1>0, <2>1, <2>2, <2>4, <2>5, ReceiveCompletes
<1>26. ASSUME NEW t \in Closers, ClearSocket(t) PROVE ReceiveInv'
  BY <1>0, <1>26 DEF ClearSocket, Goto, OwnerInv, OwnerAlone, OwnerLabels
<1>27. ASSUME NEW t \in Closers, ClearSendBuffer(t) PROVE ReceiveInv'
  BY <1>0, <1>27 DEF ClearSendBuffer, Goto
<1>28. ASSUME NEW t \in Closers, ClearSending(t) PROVE ReceiveInv'
  BY <1>0, <1>28 DEF ClearSending, Goto
<1>29. ASSUME NEW t \in Closers, ReleaseSlot(t) PROVE ReceiveInv'
  BY <1>0, <1>29, SMTT(30) DEF ReleaseSlot, Goto, CloseReturns, Finish
<1>30. ASSUME NEW s \in Slots, ReuseTimePasses(s) PROVE ReceiveInv'
  BY <1>0, <1>30 DEF ReuseTimePasses
<1>31. ASSUME NEW s \in Slots, PeerConnects(s) PROVE ReceiveInv'
  <2>1. CompletesOnly /\ UNCHANGED <<activated, recvOp, pc, at, conn>>
    BY <1>0, <1>31, PeersComplete
  <2>2. \A c \in io' : \E d \in io : d.slot = c.slot
    <3> HIDE DEF TypeOK
    <3>1. QED
      BY <1>0, <2>1, CompleteAlike DEF CompletesOnly, Alike
  <2>3. LinkHasConn'
    BY <1>0, <2>1, <2>2, <1>31 DEF PeerConnects, Pending, PendingOps
  <2>4. QED
    <3> HIDE DEF TypeOK, ReceiveInv, LinkHasConn
    <3>1. QED
      BY <1>0, <2>1, <2>3, ReceiveCompletes
<1>32. ASSUME NEW s \in Slots, AcceptAborts(s) PROVE ReceiveInv'
  <2>1. CompletesOnly /\ UNCHANGED <<activated, recvOp, pc, at, conn>>
    BY <1>0, <1>32, PeersComplete
  <2>2. \A c \in io' : \E d \in io : d.slot = c.slot
    <3> HIDE DEF TypeOK
    <3>1. QED
      BY <1>0, <2>1, CompleteAlike DEF CompletesOnly, Alike
  <2>3. LinkHasConn'
    BY <1>0, <2>1, <2>2, <1>32 DEF AcceptAborts, Pending, PendingOps
  <2>4. QED
    <3> HIDE DEF TypeOK, ReceiveInv, LinkHasConn
    <3>1. QED
      BY <1>0, <2>1, <2>3, ReceiveCompletes
<1>33. ASSUME NEW s \in Slots, PeerSends(s) PROVE ReceiveInv'
  <2>1. CompletesOnly /\ UNCHANGED <<activated, recvOp, pc, at, conn>>
    BY <1>0, <1>33, PeersComplete
  <2>2. \A c \in io' : \E d \in io : d.slot = c.slot
    <3> HIDE DEF TypeOK
    <3>1. QED
      BY <1>0, <2>1, CompleteAlike DEF CompletesOnly, Alike
  <2>3. LinkHasConn'
    BY <1>0, <2>1, <2>2, <1>33 DEF PeerSends, Pending, PendingOps
  <2>4. QED
    <3> HIDE DEF TypeOK, ReceiveInv, LinkHasConn
    <3>1. QED
      BY <1>0, <2>1, <2>3, ReceiveCompletes
<1>34. ASSUME NEW s \in Slots, SendCompletes(s) PROVE ReceiveInv'
  <2>1. CompletesOnly /\ UNCHANGED <<activated, recvOp, pc, at, conn>>
    BY <1>0, <1>34, PeersComplete
  <2>2. \A c \in io' : \E d \in io : d.slot = c.slot
    <3> HIDE DEF TypeOK
    <3>1. QED
      BY <1>0, <2>1, CompleteAlike DEF CompletesOnly, Alike
  <2>3. LinkHasConn'
    BY <1>0, <2>1, <2>2, <1>34 DEF SendCompletes, Pending, PendingOps
  <2>4. QED
    <3> HIDE DEF TypeOK, ReceiveInv, LinkHasConn
    <3>1. QED
      BY <1>0, <2>1, <2>3, ReceiveCompletes
<1>35. ASSUME NEW s \in Slots, PeerCloses(s) PROVE ReceiveInv'
  <2>1. CompletesOnly /\ UNCHANGED <<activated, recvOp, pc, at, conn>>
    BY <1>0, <1>35, PeersComplete
  <2>2. \A c \in io' : \E d \in io : d.slot = c.slot
    <3> HIDE DEF TypeOK
    <3>1. QED
      BY <1>0, <2>1, CompleteAlike DEF CompletesOnly, Alike
  <2>3. LinkHasConn'
    BY <1>0, <2>1, <2>2, <1>35 DEF PeerCloses, Pending, PendingOps
  <2>4. QED
    <3> HIDE DEF TypeOK, ReceiveInv, LinkHasConn
    <3>1. QED
      BY <1>0, <2>1, <2>3, ReceiveCompletes
<1>36. ASSUME NEW s \in Slots, PeerResets(s) PROVE ReceiveInv'
  <2>1. CompletesOnly /\ UNCHANGED <<activated, recvOp, pc, at, conn>>
    BY <1>0, <1>36, PeersComplete
  <2>2. \A c \in io' : \E d \in io : d.slot = c.slot
    <3> HIDE DEF TypeOK
    <3>1. QED
      BY <1>0, <2>1, CompleteAlike DEF CompletesOnly, Alike
  <2>3. LinkHasConn'
    BY <1>0, <2>1, <2>2, <1>36 DEF PeerResets, Pending, PendingOps
  <2>4. QED
    <3> HIDE DEF TypeOK, ReceiveInv, LinkHasConn
    <3>1. QED
      BY <1>0, <2>1, <2>3, ReceiveCompletes
<1>37. CASE UNCHANGED vars
  BY <1>0, <1>37 DEF vars, session, kernel, logic
<1>38. QED
  BY <1>1, <1>2, <1>3, <1>4, <1>5, <1>6, <1>7, <1>8, <1>9, <1>10, <1>11, <1>12, <1>13,
     <1>14, <1>15, <1>16, <1>17, <1>18, <1>19, <1>20, <1>21, <1>22, <1>23, <1>24, <1>25,
     <1>26, <1>27, <1>28, <1>29, <1>30, <1>31, <1>32, <1>33, <1>34, <1>35, <1>36,
     <1>37 DEF Next, AccepterThread, SenderThread,
     PacketThread, WorkerThread, Gqcs, CloseSocket, Outside
-----------------------------------------------------------------------------
(* The theorems *)

ReuseInv == IInv /\ DrainInv /\ TokenInv /\ SendInv /\ ReportInv

(***************************************************************************)
(* The inductive invariant: a slot is drained when BindAccept takes it, so *)
(* operations and jobs are of its latest connection, which has at most one *)
(* receive and one send, and is closed only once its end was reported.     *)
(***************************************************************************)
THEOREM ReuseInductive ==
    ASSUME InTime
    PROVE  Spec => []ReuseInv
<1>1. Init => ReuseInv
  BY TypeInit, OwnerInit, DrainInit, TokenInit, SendInit, ReportInit
  DEF ReuseInv, IInv, InTime
<1>2. ReuseInv /\ [Next]_vars => ReuseInv'
  <2> SUFFICES ASSUME ReuseInv, [Next]_vars PROVE ReuseInv'
    OBVIOUS
  <2>1. IInv'
    BY FieldsStep, ThreadsStep, KernelStep, OwnerStep DEF ReuseInv, TypeOK, IInv
  <2>2. DrainInv' /\ TokenInv' /\ SendInv'
    BY DrainStep, TokenStep, SendStep DEF ReuseInv
  <2>3. ReportInv'
    BY ReportStep DEF ReuseInv, IInv
  <2>4. QED
    BY <2>1, <2>2, <2>3 DEF ReuseInv
<1>3. QED
  BY <1>1, <1>2, PTL DEF Spec

(* A completion of an earlier connection never closes the one that has the *)
(* slot now (OnDisconnect and CloseSocket of a late completion).           *)
THEOREM ClosesItsOwn ==
    ASSUME InTime
    PROVE  Spec => []ClosesOwnConnection
<1>1. ReuseInv => ClosesOwnConnection
  BY DEF ReuseInv, DrainInv, JobsAreLatest, ClosesOwnConnection
<1>2. QED
  BY <1>1, ReuseInductive, PTL

(* AccepterThread takes a slot only when its reuse time is over.           *)
THEOREM TakesOnlyElapsed ==
    ASSUME InTime
    PROVE  Spec => []TakenOnlyWhenElapsed
<1>1. ReuseInv => TakenOnlyWhenElapsed
  BY DEF ReuseInv, DrainInv, TakerDrained, TakenOnlyWhenElapsed
<1>2. QED
  BY <1>1, ReuseInductive, PTL

(* recv_buf_ and recv_overlapped_ex_ of a connection are never handed to   *)
(* the kernel (BindRecv) while it still has them.                          *)
THEOREM OneRecvAtATime ==
    ASSUME InTime
    PROVE  Spec => []OneRecv
<1>1. ReuseInv => OneRecv
  BY DEF ReuseInv, TokenInv, TokenOfWorkers, ReceivingLabels, OneRecv
<1>2. QED
  BY <1>1, ReuseInductive, PTL

(* BindSend never calls WSASend on a connection with one still in flight,  *)
(* although ClearSession turns is_sending_ off under the sender's feet.    *)
THEOREM OneSendAtATime ==
    ASSUME InTime
    PROVE  Spec => []OneSend
<1>1. ReuseInv => OneSend
  BY ThreadKinds
  DEF ReuseInv, IInv, TypeOK, ThreadsOK, SendInv, SendOfSender, Settled, Connected, OneSend
<1>2. QED
  BY <1>1, ReuseInductive, PTL

(* Whoever closes a slot has reported the end of its connection to the     *)
(* logic (OnDisconnect) before it.                                         *)
THEOREM ReportsBeforeClosing ==
    ASSUME InTime
    PROVE  Spec => []ReportedBeforeClosed
<1>1. ReuseInv => ReportedBeforeClosed
  BY DEF ReuseInv, ReportInv, DrainInv, SenderNeverCloses, ReportedBeforeClosed, ClosingBy,
     ClosingLabels, CloseLabels, Closers
<1>2. QED
  BY <1>1, ReuseInductive, PTL

(***************************************************************************)
(* Where no peer resets its connection, an active session always has a     *)
(* receive in flight, or a worker that will post one or close it; whatever *)
(* else fails, and whatever the logic sends.  (With resets it does not     *)
(* hold: BindRecv loses the session whose WSARecv fails.)                  *)
(***************************************************************************)
THEOREM ActiveIsListening ==
    ASSUME InTime, "reset" \notin Faults
    PROVE  Spec => []ActiveHasReceive
<1>1. Init => LiveInv /\ ReceiveInv
  BY LiveInit, ReceiveInit
<1>2. ReuseInv /\ LiveInv /\ ReceiveInv /\ [Next]_vars => LiveInv' /\ ReceiveInv'
  BY LiveStep, ReceiveStep DEF ReuseInv
<1>3. ReceiveInv => ActiveHasReceive
  BY DEF ReceiveInv
<1>4. QED
  BY <1>1, <1>2, <1>3, ReuseInductive, PTL DEF Spec

=============================================================================
