--------------------------- MODULE EchoWordProofs ---------------------------
(***************************************************************************)
(* The echo servers: what is under way for a session when it is reused, a  *)
(* session has one receive and one send at a time, a client hears only its *)
(* own words, and hears them in order; for any number of sessions,         *)
(* clients, workers and messages.                                          *)
(***************************************************************************)
EXTENDS EchoProofs

-----------------------------------------------------------------------------
(* What is under way for a session *)

(* Something is under way for a session only because it was, or because    *)
(* the sender or the accepter turns to the session, or the kernel accepts. *)
LEMMA UnderWayIs ==
    ASSUME NEW s
    PROVE  UnderWay("kernel", s) <=>
             \/ \E u \in Threads : pc[u].s = s
             \/ \E i \in DOMAIN port : port[i].s = s
             \/ \E i \in DOMAIN deque : deque[i].s = s
             \/ \E c \in Conns : \/ \E i \in DOMAIN conn[c].recvs : conn[c].recvs[i] = s
                                \/ \E i \in DOMAIN conn[c].sends : conn[c].sends[i].s = s
<1>1. Threads \ {"kernel"} = Threads
  BY ThreadFacts DEF Threads
<1>2. QED
  BY <1>1 DEF UnderWay

(* Something comes under way for a session by its sender, its accepter or  *)
(* the kernel only.                                                        *)
LEMMA UnderWayComes ==
    ASSUME TypeOK, Known, UNCHANGED ver, NEW s \in Slots, UnderWay("kernel", s)'
    PROVE  UnderWay("kernel", s) \/ Finds(s) \/ Chooses(s) \/ KernelAccepts(s)
<1>0. s # None /\ TypeOK'
  BY SlotFacts, TypeStep
<1>a. /\ \A u \in Threads : pc[u].s = s => UnderWay("kernel", s)
      /\ \A i \in DOMAIN port : port[i].s = s => UnderWay("kernel", s)
      /\ \A i \in DOMAIN deque : deque[i].s = s => UnderWay("kernel", s)
      /\ \A c \in Conns : /\ \A i \in DOMAIN conn[c].recvs : conn[c].recvs[i] = s => UnderWay("kernel", s)
                          /\ \A i \in DOMAIN conn[c].sends : conn[c].sends[i].s = s => UnderWay("kernel", s)
  BY UnderWayIs
<1>b. \/ \E u \in Threads : pc'[u].s = s
      \/ \E i \in DOMAIN port' : port'[i].s = s
      \/ \E i \in DOMAIN deque' : deque'[i].s = s
      \/ \E c \in Conns : \/ \E i \in DOMAIN conn'[c].recvs : conn'[c].recvs[i] = s
                         \/ \E i \in DOMAIN conn'[c].sends : conn'[c].sends[i].s = s
  <2>1. Threads \ {"kernel"} = Threads
    BY ThreadFacts DEF Threads
  <2>2. QED
    BY <2>1 DEF UnderWay
<1>1. ASSUME NEW u \in Threads, pc'[u].s = s
      PROVE  UnderWay("kernel", s) \/ Finds(s) \/ Chooses(s)
  <2>1. u # "main"
    BY <1>0, <1>1 DEF TypeOK, PcOK
  <2>2. LocalsMove(u)
    BY <2>1, LocalsGo
  <2>3. CASE pc[u].s = s
    BY <1>a, <2>3
  <2>4. CASE u \in Workers /\ port # <<>> /\ Head(port).s = s
    <3>1. 1 \in DOMAIN port /\ port[1].s = s
      BY <2>4, SeqTail DEF TypeOK, PortOK
    <3>2. QED
      BY <1>a, <3>1
  <2>5. CASE Dequeues /\ Head(deque).s = s
    <3>1. 1 \in DOMAIN deque /\ deque[1].s = s
      BY <2>5, SeqTail DEF TypeOK, QueuesOK, Dequeues
    <3>2. QED
      BY <1>a, <3>1
  <2>6. CASE Finds(s) \/ Chooses(s)
    BY <2>6
  <2>7. QED
    BY <1>0, <1>1, <2>2, <2>3, <2>4, <2>5, <2>6 DEF LocalsMove
<1>2. ASSUME NEW i \in DOMAIN port', port'[i].s = s
      PROVE  UnderWay("kernel", s) \/ KernelAccepts(s)
  <2>1. ASSUME NEW c \in Conns, Arrives(c, port'[i])
        PROVE  UnderWay("kernel", s)
    <3>1. \/ conn[c].recvs # <<>> /\ s = Head(conn[c].recvs)
          \/ conn[c].sends # <<>> /\ s = Head(conn[c].sends).s
      BY <1>2, <2>1 DEF Arrives
    <3>2. conn[c].recvs \in Seq(AllSlots) /\ conn[c].sends \in Seq(Op)
      BY ConnFacts DEF Op
    <3>3. /\ conn[c].recvs # <<>> => 1 \in DOMAIN conn[c].recvs /\ Head(conn[c].recvs) = conn[c].recvs[1]
          /\ conn[c].sends # <<>> => 1 \in DOMAIN conn[c].sends /\ Head(conn[c].sends) = conn[c].sends[1]
      BY <3>2, SeqTail
    <3>4. QED
      BY <1>a, <3>1, <3>3
  <2>2. QED
    BY <1>a, <1>2, <2>1, PortComes
<1>3. ASSUME NEW i \in DOMAIN deque', deque'[i].s = s
      PROVE  UnderWay("kernel", s)
  BY <1>a, <1>3, DequeComes
<1>4. ASSUME NEW c \in Conns, NEW i \in DOMAIN conn'[c].recvs, conn'[c].recvs[i] = s
      PROVE  UnderWay("kernel", s)
  <2>1. RecvPosts(s) => \E t \in Threads : pc[t].s = s
    BY ThreadFacts DEF RecvPosts, Binds
  <2>2. QED
    BY <1>a, <1>4, <2>1, RecvComes
<1>5. ASSUME NEW c \in Conns, NEW i \in DOMAIN conn'[c].sends, conn'[c].sends[i].s = s
      PROVE  UnderWay("kernel", s)
  <2>1. \A t \in Threads : \A ms \in Text : Sending(t, s, ms) => pc[t].s = s
    BY DEF Sending
  <2>2. QED
    BY <1>a, <1>5, <2>1, SendComes
<1>6. QED
  BY <1>b, <1>1, <1>2, <1>3, <1>4, <1>5

(* When a session is given a second connection too early. *)
LEMMA OverlapComes ==
    ASSUME Known, ~Overlapped, Overlapped'
    PROVE  \E s \in Slots : \/ Accepts(s) /\ (UnderWay("accepter", s) \/ LeftBehind(s))
                            \/ KernelAccepts(s) /\ (UnderWay("kernel", s) \/ LeftBehind(s))
<1>1. ASSUME NEW t, NEW s, Accepted(t, s)
      PROVE  UnderWay(t, s) \/ LeftBehind(s)
  BY <1>1 DEF Accepted, MarkIf, Mark, Overlapped, hist
<1>2. ASSUME Grows \/ UNCHANGED hist \/ (\E b : MarkIf(b, "taken"))
      PROVE  FALSE
  BY <1>2 DEF Grows, hist, MarkIf, Mark, Overlapped
<1>3. ASSUME NEW t \in Threads, Acts(t)
      PROVE  \E s \in Slots : Accepts(s) /\ (UnderWay("accepter", s) \/ LeftBehind(s))
  <2>1. CASE Leaves(t)
    BY <1>2, <2>1 DEF Leaves
  <2>2. CASE AccepterWorks(t)
    <3>1. ASSUME NEW s \in Slots, Accepts(s)
          PROVE  UnderWay("accepter", s) \/ LeftBehind(s)
      BY <1>1, <3>1 DEF Accepts
    <3>2. QED
      BY <1>2, <2>2, <3>1 DEF AccepterWorks, Refuses, Chooses, Binds, Offers
  <2>3. CASE WorkerWorks(t)
    BY <1>2, <2>3 DEF WorkerWorks, Fetches, WorkerThread01, Reposts, PostToken, Echoes, Queues, Frees, Pops,
                      SendCompleted06, Activates, Unbinds, Rebinds
  <2>4. CASE CloserWorks(t)
    BY <1>2, <2>4 DEF CloserWorks, Ends, Blocks, Shuts, Clears
  <2>5. CASE PacketWorks(t)
    BY <1>2, <2>5 DEF PacketWorks, Dequeues, Answers, Puts, Lines
  <2>6. CASE SenderWorks(t)
    BY <1>2, <2>6 DEF SenderWorks, Finds, Claims, Checks, Posts, Fails, Advances
  <2>7. QED
    BY <1>3, <2>1, <2>2, <2>3, <2>4, <2>5, <2>6 DEF Acts, Works
<1>4. ASSUME NEW s \in Slots, KernelAccepts(s)
      PROVE  UnderWay("kernel", s) \/ LeftBehind(s)
  BY <1>1, <1>4 DEF KernelAccepts
<1>5. QED
  BY <1>2, <1>3, <1>4 DEF Known, Connect, Say, Quit, Sent, Abort, KernelRefuses, Elapse, Manages

-----------------------------------------------------------------------------
(* Practice07_Refactor *)

LEMMA SenderGoes ==
    ASSUME TypeOK, ver = "07R", Acts("sender")
    PROVE  /\ pc'["sender"].at = "send" => /\ Checks /\ ses[pc["sender"].s].active /\ pc'["sender"].s = pc["sender"].s
                                           /\ pc["sender"].s \in Slots
           /\ pc'["sender"].at = "movefront" => pc["sender"].at = "send" /\ pc'["sender"].s = pc["sender"].s
           /\ pc["sender"].at = "wsasend" =>
                /\ Checks /\ pc'["sender"].s = pc["sender"].s
                /\ pc'["sender"].at = IF ses[pc["sender"].s].active THEN "send" ELSE "close"
           /\ pc["sender"].at = "close" => Ends("sender") \/ Blocks("sender")
<1>0. "sender" \in Threads /\ FirstStep("sender") = "scan" /\ "sender" \notin Workers /\ "sender" \notin {"accepter", "packet", "redis"}
  BY ThreadFacts
<1>1. /\ Rests("sender") => pc'["sender"].at \in {"scan", "ended"}
      /\ \A l : Stays("sender", l) => pc'["sender"].at = l /\ pc'["sender"].s = pc["sender"].s
      /\ \A r : Becomes("sender", r) => pc'["sender"] = r
  BY <1>0, PcAfter
<1>2. CASE Leaves("sender")
  <2>1. pc["sender"].at \in {"scan", "cas"} /\ pc'["sender"].at \in {"scan", "ended"}
    BY <1>0, <1>1, <1>2 DEF Leaves, At, Swapping
  <2>2. QED
    BY <2>1
<1>3. CASE CloserWorks("sender")
  <2>1. CASE Ends("sender") \/ Blocks("sender")
    BY <1>1, <2>1 DEF Ends, Blocks, At
  <2>2. CASE Shuts("sender") \/ Clears("sender")
    BY <1>1, <2>2 DEF Shuts, Clears, At, Copying, OneBuffer
  <2>3. QED
    BY <1>3, <2>1, <2>2 DEF CloserWorks
<1>4. CASE SenderWorks("sender")
  <2>1. ASSUME NEW s \in Slots, Finds(s)
        PROVE  pc'["sender"].at = "cas" /\ pc["sender"].at = "scan"
    <3>1. pc'["sender"] = [Local("cas") EXCEPT !.s = s]
      BY <1>1, <2>1 DEF Finds
    <3>2. QED
      BY <2>1, <3>1 DEF Finds, Local, At
  <2>2. CASE Claims
    BY <1>1, <2>2 DEF Claims, At
  <2>3. CASE Checks
    <3>1. /\ pc["sender"].at = "wsasend" /\ pc'["sender"].s = pc["sender"].s
          /\ pc'["sender"].at = IF ses[pc["sender"].s].active THEN "send" ELSE "close"
      BY <1>1, <2>3 DEF Checks, At
    <3>2. pc["sender"].s \in Slots
      BY <3>1, SenderFacts
    <3>3. QED
      BY <2>3, <3>1, <3>2
  <2>4. ASSUME NEW told \in BOOLEAN, Posts(told)
        PROVE  pc["sender"].at = "send" /\ pc'["sender"].at = "movefront" /\ pc'["sender"].s = pc["sender"].s
    BY <2>4, PostGoes DEF Posts, SendsAt, At
  <2>5. CASE Fails
    BY <1>1, <2>5 DEF Fails, SendsAt, At
  <2>6. CASE Advances
    BY <1>1, <2>6 DEF Advances, At
  <2>7. QED
    BY <1>4, <2>1, <2>2, <2>3, <2>4, <2>5, <2>6 DEF SenderWorks
<1>5. QED
  BY <1>0, <1>2, <1>3, <1>4 DEF Acts, Works, AccepterWorks, WorkerWorks, PacketWorks

(* What the worker and the sender do to is_sending_. *)
LEMMA SendingChanges ==
    ASSUME TypeOK, SesMoves, NEW s \in Slots
    PROVE  \/ ses'[s].sending = ses[s].sending
           \/ (\E w \in Workers : Frees(w) /\ pc[w].s = s) /\ ses'[s].sending = FALSE
           \/ Claims /\ pc["sender"].s = s /\ ses'[s].sending = TRUE
           \/ (\E t \in Closers : Clears(t) /\ pc[t].s = s) /\ ses'[s].sending = FALSE /\ ver \in {"05"} \cup Reusing
<1>0. ses \in [Slots -> SesRec]
  BY DEF TypeOK, SesOK
<1>1. CASE Claims
  <2>1. pc["sender"].s \in Slots /\ ses' = [ses EXCEPT ![pc["sender"].s].sending = TRUE]
    BY <1>1, SenderFacts DEF Claims, At
  <2>2. \A r \in Slots : ses'[r].sending = (IF r = pc["sender"].s THEN TRUE ELSE ses[r].sending)
    BY <1>0, <2>1 DEF SesRec
  <2>3. CASE s = pc["sender"].s
    BY <1>1, <2>2, <2>3
  <2>4. CASE s # pc["sender"].s
    BY <2>2, <2>4
  <2>5. QED
    BY <2>3, <2>4
<1>2. ASSUME NEW w \in Workers, Frees(w)
      PROVE  ses'[s].sending = ses[s].sending \/ (pc[w].s = s /\ ses'[s].sending = FALSE)
  <2>1. pc[w].s \in Slots /\ ses' = [ses EXCEPT ![pc[w].s].sending = FALSE]
    BY <1>2, GotFacts DEF Frees, At
  <2>2. \A r \in Slots : ses'[r].sending = (IF r = pc[w].s THEN FALSE ELSE ses[r].sending)
    BY <1>0, <2>1 DEF SesRec
  <2>3. CASE s = pc[w].s
    BY <2>2, <2>3
  <2>4. CASE s # pc[w].s
    BY <2>2, <2>4
  <2>5. QED
    BY <2>3, <2>4
<1>3. ASSUME NEW t \in Closers, NEW r \in Slots, Clears(t), r = pc[t].s
      PROVE  \/ ses'[s].sending = ses[s].sending
             \/ pc[t].s = s /\ ses'[s].sending = FALSE /\ ver \in {"05"} \cup Reusing
  <2>1. CASE r # s
    BY <1>3, <2>1, ClearsAfter
  <2>2. CASE r = s
    <3>1. ver \in {"05"} \cup Reusing => ses'[s].sending = FALSE
      BY <1>3, <2>2, ClearsAfter
    <3>2. ver \notin {"05"} \cup Reusing => ver \in Copying \/ ver = "06"
      BY <1>3 DEF Clears
    <3>3. ver \notin {"05"} \cup Reusing => SendingStays
      BY <1>3, <3>2, ClearsAfter
    <3>4. QED
      BY <1>3, <2>2, <3>1, <3>3 DEF SendingStays
  <2>3. QED
    BY <2>1, <2>2
<1>4. QED
  <2>1. \/ ses'[s].sending = ses[s].sending \/ (\E w \in Workers : Frees(w)) \/ Claims \/ Clearing
    BY DEF SesMoves, SendingStays
  <2>2. CASE Clearing
    BY <1>3, <2>2 DEF Clearing
  <2>3. QED
    BY <1>1, <1>2, <2>1, <2>2

(* What an offered session has left behind stays away. *)
LEMMA QuietStays ==
    ASSUME TypeOK, Known, UNCHANGED ver, ver = "07R", NEW s \in Slots, Quiet(s), ~KernelAccepts(s)
    PROVE  Quiet(s)'
<1>0. SesMoves /\ \A t \in Threads : pc[t].s # s
  BY SesMove, UnderWayIs DEF Quiet
<1>1. ~Finds(s) /\ ~Chooses(s)
  BY DEF Quiet, LeftBehind, Finds, Chooses, Copying, Swapping, OneBuffer
<1>2. ~UnderWay("kernel", s)'
  BY <1>1, UnderWayComes DEF Quiet
<1>3. ~\E t \in Closers : Clears(t) /\ pc[t].s = s
  BY <1>0, ThreadFacts DEF Closers
<1>4. Clearing => ses'[s] = ses[s]
  <2>1. ASSUME NEW t \in Closers, NEW r \in Slots, Clears(t), r = pc[t].s
        PROVE  ses'[s] = ses[s]
    <3>1. r # s
      BY <1>3, <2>1
    <3>2. \A x \in Slots \ {r} : ses'[x] = ses[x]
      BY <2>1, ClearsAfter
    <3>3. QED
      BY <3>1, <3>2
  <2>2. QED
    BY <2>1 DEF Clearing
<1>5. ses[s].out = <<>> /\ ~ses[s].sending /\ ~ses[s].typed
  BY DEF Quiet, LeftBehind
<1>6. ~ses'[s].typed
  <2>1. ~\E w \in Workers : Echoes(w)
    BY DEF Echoes, OneBuffer
  <2>2. QED
    BY <1>0, <1>4, <1>5, <2>1 DEF SesMoves, TypedStays
<1>7. ~ses'[s].sending
  BY <1>0, <1>5, SendingChanges, ThreadFacts
<1>8. ses'[s].out = <<>>
  <2>1. CASE Puts
    <3>1. ses' = [ses EXCEPT ![pc["packet"].s].out = @ \o pc["packet"].ms] /\ pc["packet"].s # s
      BY <1>0, <2>1, ThreadFacts DEF Puts
    <3>2. ses'[s].out = ses[s].out
      BY <3>1
    <3>3. QED
      BY <1>5, <3>2
  <2>2. CASE Advances
    <3>1. pc["sender"].s # s
      BY <1>0, ThreadFacts
    <3>2. ses'[s].out = ses[s].out
      BY <2>2, <3>1 DEF Advances, MoveFront05
    <3>3. QED
      BY <1>5, <3>2
  <2>3. ~Lines /\ ~\E w \in Workers : Pops(w)
    BY DEF Lines, Pops
  <2>4. QED
    BY <1>0, <1>4, <1>5, <2>1, <2>2, <2>3 DEF SesMoves, OutStays
<1>9. QED
  BY <1>2, <1>6, <1>7, <1>8 DEF Quiet, LeftBehind

(* A step keeps QuietInv.                                                  *)
LEMMA QuietStep ==
    ASSUME TypeOK, PhaseInv, QuietInv, Known, UNCHANGED ver
    PROVE  QuietInv'
<1>1. SUFFICES ASSUME ver = "07R", "misread" \notin marks' PROVE QuietInv'
  BY DEF QuietInv
<1>2. ver \in Reusing /\ ver \notin Copying /\ ver \notin Swapping /\ ver \notin OneBuffer
  BY <1>1 DEF Reusing, Copying, Swapping, OneBuffer
<1>3. SesMoves /\ Slots' = Slots /\ TypeOK'
  BY SesMove, TypeStep DEF SesMoves
<1>4. /\ ~Overlapped /\ "misread" \notin marks
      /\ \A s \in Slots :
           /\ ~ses[s].typed
           /\ ses[s].closed = "long ago" \/ ~NoneIn(accepts, {s}) => Quiet(s)
           /\ ses[s].closed = "recent" =>
                /\ ~(pc["sender"].at \in {"send", "movefront"} /\ pc["sender"].s = s)
                /\ ses[s].sending => pc["sender"].at \in {"wsasend", "close"} /\ pc["sender"].s = s
  BY <1>1, MarksGrow DEF QuietInv
<1>5. ASSUME NEW s \in Slots, KernelAccepts(s)
      PROVE  /\ Quiet(s) /\ ses[s].closed = "max" /\ NoneIn(accepts', {s})
             /\ ses' = [ses EXCEPT ![s].sock = Caller]
  <2>1. accepts # <<>> /\ accepts \in Seq(AllSlots) /\ Head(accepts) = s /\ accepts' = Tail(accepts)
    BY <1>5 DEF KernelAccepts, TypeOK, QueuesOK
  <2>2. 1 \in DOMAIN accepts /\ accepts[1] = s
    BY <2>1, SeqTail
  <2>3. ~NoneIn(accepts, {s})
    BY <2>2 DEF NoneIn
  <2>4. Quiet(s)
    BY <1>4, <2>3
  <2>5. AcceptsOf[1] = accepts /\ DOMAIN AcceptsOf = {1}
    BY DEF AcceptsOf
  <2>6. ses[s].closed = "max"
    BY <1>2, <1>4, <2>3, <2>5 DEF PhaseInv, NoPhase, Empty
  <2>7. OneIn(accepts, {s})
    BY <1>2, <1>4, <2>5 DEF PhaseInv, OnePhase, Single
  <2>8. NoneIn(accepts', {s})
    BY <2>1, <2>7, TailIn
  <2>9. QED
    BY <1>5, <2>4, <2>6, <2>8 DEF KernelAccepts, Accepted
<1>6. ~Overlapped'
  <2>1. SUFFICES ASSUME Overlapped' PROVE FALSE
    OBVIOUS
  <2>2. PICK s \in Slots : \/ Accepts(s) /\ (UnderWay("accepter", s) \/ LeftBehind(s))
                           \/ KernelAccepts(s) /\ (UnderWay("kernel", s) \/ LeftBehind(s))
    BY <1>4, <2>1, OverlapComes
  <2>3. ~Accepts(s)
    BY <1>2 DEF Accepts
  <2>4. QED
    BY <1>5, <2>2, <2>3 DEF Quiet
<1>7. ASSUME NEW s \in Slots
      PROVE  ~ses'[s].typed
  <2>1. ~\E w \in Workers : Echoes(w)
    BY <1>2 DEF Echoes
  <2>2. ASSUME NEW t \in Closers, NEW r \in Slots, Clears(t), r = pc[t].s
        PROVE  TypedStays
    BY <1>2, <2>2, ClearsAfter
  <2>3. TypedStays
    BY <1>3, <2>1, <2>2 DEF SesMoves, Clearing
  <2>4. QED
    BY <1>4, <2>3 DEF TypedStays
<1>8. ASSUME NEW s \in Slots, ses'[s].closed = "long ago" \/ ~NoneIn(accepts', {s})
      PROVE  Quiet(s)'
  <2>1. ~KernelAccepts(s)
    <3>1. SUFFICES ASSUME KernelAccepts(s) PROVE FALSE
      OBVIOUS
    <3>2. ses'[s].closed = ses[s].closed
      BY <1>5, <3>1, SesAfter DEF ClosedStays
    <3>3. QED
      BY <1>5, <1>8, <3>1, <3>2
  <2>2. CASE Quiet(s)
    BY <1>1, <2>1, <2>2, QuietStays
  <2>3. CASE ses[s].closed = "long ago" \/ ~NoneIn(accepts, {s})
    BY <1>4, <2>2, <2>3
  <2>4. CASE Elapse(s) /\ ses[s].closed = "recent"
    <3>1. ~UnderWay("kernel", s) /\ (ses[s].out # <<>> => ses[s].sending)
      BY <2>4 DEF Elapse
    <3>2. pc["sender"].s # s
      BY <3>1, UnderWayIs, ThreadFacts
    <3>3. ~ses[s].sending
      BY <1>4, <2>4, <3>2
    <3>4. Quiet(s)
      BY <1>4, <3>1, <3>3 DEF Quiet, LeftBehind
    <3>5. QED
      BY <2>2, <3>4
  <2>5. CASE ses'[s].closed = "long ago" /\ ses[s].closed # "long ago"
    BY <1>3, <2>4, <2>5, ClosedChanges
  <2>6. CASE ~NoneIn(accepts', {s}) /\ NoneIn(accepts, {s})
    <3>1. accepts \in Seq(Slots)
      BY DEF TypeOK, QueuesOK, AllSlots, SesOK
    <3>2. accepts' # accepts
      BY <2>6
    <3>3. KernelRefuses \/ (\E r \in Slots : KernelAccepts(r)) => accepts # <<>> /\ accepts' = Tail(accepts)
      BY DEF KernelRefuses, KernelAccepts
    <3>4. ~KernelRefuses /\ ~\E r \in Slots : KernelAccepts(r)
      BY <2>6, <3>1, <3>3, TailIn
    <3>5. PICK r \in Slots : Offers(r)
      BY <3>2, <3>4, AcceptsMove
    <3>6. accepts' = Append(accepts, r) /\ ses[r].closed = "long ago"
      BY <3>2, <3>5 DEF Offers
    <3>7. r = s
      BY <2>6, <3>1, <3>6, AppendIn
    <3>8. QED
      BY <2>3, <3>6, <3>7
  <2>7. QED
    BY <1>8, <2>3, <2>5, <2>6
<1>9. ASSUME NEW s \in Slots, ses'[s].closed = "recent"
      PROVE  /\ ~(pc'["sender"].at \in {"send", "movefront"} /\ pc'["sender"].s = s)
             /\ ses'[s].sending => pc'["sender"].at \in {"wsasend", "close"} /\ pc'["sender"].s = s
  <2>0. "sender" \in Threads \ {"main"} /\ "sender" \in Closers
    BY ThreadFacts DEF Closers
  <2>1. CASE \E t \in Closers : Clears(t) /\ pc[t].s = s
    <3>1. PICK t \in Closers : Clears(t) /\ pc[t].s = s
      BY <2>1
    <3>2. ~Locked07R(s)
      BY <1>1, <1>2, <3>1 DEF Clears
    <3>3. Rests(t) /\ t \in Threads
      BY <3>1, ThreadFacts DEF Clears, Closers
    <3>4. pc'["sender"] = pc["sender"] \/ (pc'["sender"].s = None /\ t = "sender")
      BY <2>0, <3>3, PcAfter, OthersAre DEF OthersStay
    <3>5. ses'[s].sending = FALSE
      BY <1>2, <3>1, ClearsAfter
    <3>6. QED
      BY <3>2, <3>4, <3>5, SlotFacts DEF Locked07R
  <2>2. CASE ses[s].closed = "recent" /\ ~\E t \in Closers : Clears(t) /\ pc[t].s = s
    <3>1. ~ses[s].active
      <4>1. "kernel" \notin PhaseHolders(s)
        BY <1>2, <1>4, <2>2 DEF PhaseInv, NoPhase, Empty
      <4>2. QED
        BY <4>1 DEF PhaseHolders
    <3>2. ~(pc'["sender"].at \in {"send", "movefront"} /\ pc'["sender"].s = s)
      <4>1. SUFFICES ASSUME pc'["sender"].at \in {"send", "movefront"} /\ pc'["sender"].s = s PROVE FALSE
        OBVIOUS
      <4>2. pc'["sender"] # pc["sender"]
        BY <1>4, <2>2, <4>1
      <4>3. Acts("sender")
        BY <2>0, <4>1, <4>2, PcMove, FirstSteps
      <4>4. QED
        BY <1>1, <1>4, <2>2, <3>1, <4>1, <4>3, SenderGoes
    <3>3. ASSUME ses'[s].sending
          PROVE  pc'["sender"].at \in {"wsasend", "close"} /\ pc'["sender"].s = s
      <4>1. CASE Claims /\ pc["sender"].s = s
        <5>1. Stays("sender", "wsasend")
          BY <4>1 DEF Claims
        <5>2. QED
          BY <2>0, <4>1, <5>1, PcAfter
      <4>2. CASE ses[s].sending
        <5>1. pc["sender"].at \in {"wsasend", "close"} /\ pc["sender"].s = s
          BY <1>4, <2>2, <4>2
        <5>2. CASE pc'["sender"] = pc["sender"]
          BY <5>1, <5>2
        <5>3. CASE Acts("sender") /\ pc["sender"].at = "wsasend"
          BY <1>1, <3>1, <5>1, <5>3, SenderGoes
        <5>4. CASE Acts("sender") /\ pc["sender"].at = "close"
          <6>1. Ends("sender") \/ Blocks("sender")
            BY <1>1, <5>4, SenderGoes
          <6>2. ~Ends("sender")
            BY <3>1, <5>1 DEF Ends
          <6>3. ses' = [ses EXCEPT ![s].closed = "max", ![s].active = FALSE]
            BY <5>1, <6>1, <6>2 DEF Blocks
          <6>4. ses'[s].closed = "max"
            BY <6>3, EndsAfter
          <6>5. QED
            BY <1>9, <6>4
        <5>5. QED
          BY <2>0, <5>1, <5>2, <5>3, <5>4, PcMove
      <4>3. QED
        BY <1>3, <3>3, <4>1, <4>2, SendingChanges
    <3>4. QED
      BY <3>2, <3>3
  <2>3. QED
    BY <1>3, <1>9, <2>1, <2>2, ClosedChanges
<1>10. QED
  BY <1>3, <1>6, <1>7, <1>8, <1>9 DEF QuietInv

LEMMA QuietInit ==
    ASSUME EchoInit
    PROVE  QuietInv
<1>1. ASSUME NEW s \in Slots
      PROVE  Quiet(s)
  <2>1. ~UnderWay("kernel", s)
    <3>1. \A t \in Threads : pc[t].s # s
      BY InitFacts, TypeInit, SlotFacts
    <3>2. port = <<>> /\ deque = <<>> /\ \A c \in Conns : conn[c].recvs = <<>> /\ conn[c].sends = <<>>
      BY InitFacts
    <3>3. DOMAIN port = {} /\ DOMAIN deque = {} /\ \A c \in Conns : DOMAIN conn[c].recvs = {} /\ DOMAIN conn[c].sends = {}
      BY <3>2
    <3>4. QED
      BY <3>1, <3>3, UnderWayIs
  <2>2. QED
    BY <2>1, InitFacts DEF Quiet, LeftBehind
<1>2. QED
  BY <1>1, InitFacts DEF QuietInv, Overlapped

(* Waiting for SESSION_REUSE_TIME and giving up sends on a session that is *)
(* not activated keep a session's connections apart in Practice07_Refactor:*)
(* whatever is under way for a session that may be offered again, or is,   *)
(* has ended; until a worker misreads op_type_ and accepts, or closes, for *)
(* the first session.                                                      *)
THEOREM EchoNeverOverlaps == Spec => []NeverOverlaps
<1>1. EchoInit => QuietInv
  BY QuietInit
<1>2. TypeOK /\ StartInv /\ LinkInv /\ QuietInv /\ [Next]_<<vars, ver>> => QuietInv'
  <2>1. SUFFICES ASSUME TypeOK, StartInv, LinkInv, QuietInv, [Next]_<<vars, ver>>
                 PROVE  QuietInv'
    OBVIOUS
  <2>2. UNCHANGED ver /\ (Known \/ (\E w \in Workers : Misreads(w)) \/ UNCHANGED <<vars, ver>>)
    BY <2>1, NextIs
  <2>3. CASE Known
    BY <2>1, <2>2, <2>3, QuietStep DEF LinkInv
  <2>4. CASE \E w \in Workers : Misreads(w)
    BY <2>4 DEF Misreads, QuietInv
  <2>5. CASE UNCHANGED <<vars, ver>>
    <3>1. UNCHANGED <<conn, accepts, port, ses, pc, marks, deque, ver>>
      BY <2>5 DEF vars, net, mem, hist
    <3>2. \A s : UnderWay("kernel", s)' <=> UnderWay("kernel", s)
      BY <3>1 DEF UnderWay
    <3>3. \A s \in Slots : Quiet(s) => Quiet(s)'
      BY <3>1, <3>2 DEF Quiet, LeftBehind
    <3>4. QED
      BY <2>1, <3>1, <3>3 DEF QuietInv, Overlapped, NoneIn, Slots
  <2>6. QED
    BY <2>2, <2>3, <2>4, <2>5
<1>3. QuietInv => NeverOverlaps
  BY DEF QuietInv, NeverOverlaps, Overlapped
<1>4. QED
  BY <1>1, <1>2, <1>3, EchoTypes, EchoLinks, PTL DEF Spec

-----------------------------------------------------------------------------
(* One receive *)

(* Who comes to have the receive, or the send, of a session.               *)
LEMMA RecvHoldersGo ==
    ASSUME TypeOK, Known, NEW s \in Slots, NEW h \in RecvHolders(s)', ~Accepts(s),
           \A w \in Workers : Echoes(w) /\ pc[w].s = s => pc[w].op # "send"
    PROVE  h \in RecvHolders(s) \/ (h \in Workers /\ Fetches(h) /\ Head(port) \in RecvsDone(s))
<1>1. CASE h \in Workers /\ Receiving(h, s)'
  <2>1. h \in Threads \ {"main"} /\ FirstStep(h) = "wait"
    BY <1>1, ThreadFacts
  <2>2. CASE pc'[h] = pc[h]
    BY <1>1, <2>2 DEF Receiving, RecvHolders
  <2>3. CASE Acts(h) /\ pc'[h].at = "rebind"
    <3>1. Echoes(h) \/ Queues(h) \/ Activates(h)
      BY <1>1, <2>3, GotGoes
    <3>2. pc[h].at = "got" /\ pc'[h].s = pc[h].s
      BY <1>1, <2>3, GotGoes
    <3>3. pc[h].s = s
      BY <1>1, <3>2 DEF Receiving
    <3>4. pc[h].op # "send"
      BY <1>1, <3>1, <3>3 DEF Queues, Activates
    <3>5. QED
      BY <1>1, <3>2, <3>3, <3>4 DEF Receiving, RecvHolders
  <2>4. CASE Acts(h) /\ pc'[h].at = "got"
    <3>1. Fetches(h)
      BY <1>1, <2>4, GotGoes
    <3>2. port # <<>> /\ Head(port).op # "end" /\ Head(port).s = pc'[h].s /\ Head(port).op = pc'[h].op
      BY <1>1, <2>4, <3>1, FetchGoes
    <3>a. Head(port) \in Completion
      BY <3>2, SeqTail DEF TypeOK, PortOK
    <3>3. Head(port) \in Completion /\ Head(port).op \in {"end", "recv", "send", "accept"}
      BY <3>a DEF Completion
    <3>4. pc'[h].s = s /\ pc'[h].op # "send"
      BY <1>1, <2>4 DEF Receiving
    <3>5. QED
      BY <1>1, <3>1, <3>2, <3>3, <3>4 DEF RecvsDone
  <2>5. QED
    BY <1>1, <2>1, <2>2, <2>3, <2>4, PcMove DEF Receiving
<1>2. CASE h = "accepter" /\ pc'["accepter"].at = "bind" /\ pc'["accepter"].s = s
  <2>1. "accepter" \in Threads \ {"main"} /\ FirstStep("accepter") = "get"
    BY ThreadFacts
  <2>2. ~Acts("accepter")
    BY <1>2, AccepterArrives
  <2>3. pc'["accepter"] = pc["accepter"]
    BY <1>2, <2>1, <2>2, PcMove
  <2>4. QED
    BY <1>2, <2>3 DEF RecvHolders, At
<1>3. QED
  BY <1>1, <1>2 DEF RecvHolders, At

LEMMA SendHoldersGo ==
    ASSUME TypeOK, Known, NEW s \in Slots, NEW h \in SendHolders(s)'
    PROVE  (h \in SendHolders(s) /\ pc'[h] = pc[h]) \/ (h \in Workers /\ Fetches(h) /\ Head(port) \in SendsDone(s))
<1>1. h \in Workers /\ pc'[h].s = s /\ pc'[h].at = "got" /\ pc'[h].op = "send"
  BY DEF SendHolders, SendDone
<1>2. h \in Threads \ {"main"} /\ FirstStep(h) = "wait"
  BY <1>1, ThreadFacts
<1>3. CASE pc'[h] = pc[h]
  BY <1>1, <1>3 DEF SendHolders, SendDone
<1>4. CASE Acts(h)
  <2>1. Fetches(h)
    BY <1>1, <1>4, GotGoes
  <2>2. port # <<>> /\ Head(port).s = s /\ Head(port).op = "send"
    BY <1>1, <2>1, FetchGoes
  <2>3. Head(port) \in Completion
    BY <2>2, SeqTail DEF TypeOK, PortOK
  <2>4. QED
    BY <1>1, <2>1, <2>2, <2>3 DEF SendsDone
<1>5. QED
  BY <1>1, <1>2, <1>3, <1>4, PcMove

(* A completion that is queued although nothing pending has ended. *)
LEMMA PortElse ==
    ASSUME TypeOK, Known, NEW s \in Slots, ~\E c \in Conns : Say(c) \/ Sent(c) \/ Abort(c), ~\E w \in Workers : Fetches(w)
    PROVE  \E e \in Completion : /\ MayQueue(Completion, port, e, port') /\ e \notin SendsDone(s)
                                 /\ ~KernelAccepts(s) => e \notin RecvsDone(s)
<1>0. port \in Seq(Completion) /\ s # None /\ s \in AllSlots
  BY SlotFacts DEF TypeOK, PortOK
<1>1. Token \in Completion /\ Token.s = None
  BY DEF Token, Done, Completion, Text
<1>2. CASE port' = port \/ port' = Append(port, Token)
  BY <1>0, <1>1, <1>2 DEF MayQueue, SendsDone, RecvsDone
<1>3. CASE KernelRefuses
  <2> DEFINE e == Done("accept", None, FALSE, <<>>)
  <2>1. e \in Completion /\ e.s = None
    BY DEF Done, Completion, Text
  <2>2. port' \in {port, Append(port, e)}
    BY <1>3 DEF KernelRefuses
  <2> HIDE DEF e
  <2>3. QED
    BY <1>0, <2>1, <2>2 DEF MayQueue, SendsDone, RecvsDone
<1>4. ASSUME NEW r \in Slots, KernelAccepts(r)
      PROVE  \E e \in Completion : /\ MayQueue(Completion, port, e, port') /\ e \notin SendsDone(s)
                                   /\ ~KernelAccepts(s) => e \notin RecvsDone(s)
  <2> DEFINE e == Done("accept", r, TRUE, <<>>)
  <2>1. e \in Completion /\ e.s = r /\ e.op = "accept"
    BY SlotFacts DEF Done, Completion, Text
  <2>2. port' \in {port, Append(port, e)}
    BY <1>4 DEF KernelAccepts
  <2> HIDE DEF e
  <2>3. MayQueue(Completion, port, e, port')
    BY <1>0, <2>1, <2>2 DEF MayQueue
  <2>4. e \notin SendsDone(s)
    BY <2>1 DEF SendsDone
  <2>5. ~KernelAccepts(s) => e \notin RecvsDone(s)
    BY <1>4, <2>1 DEF RecvsDone
  <2>6. QED
    BY <2>1, <2>3, <2>4, <2>5
<1>5. QED
  BY <1>2, <1>3, <1>4, PortMove DEF PortMoves

(* The one receive of a session. *)
LEMMA RecvKept ==
    ASSUME TypeOK, Known, NEW s \in Slots, OneRecv(s), ~Accepts(s), ~KernelAccepts(s),
           \A w \in Workers : Echoes(w) /\ pc[w].s = s => pc[w].op # "send"
    PROVE  OneRecv(s)'
<1> DEFINE V == RecvHolders(s)'
<1> DEFINE W == RecvHolders(s)
<1> DEFINE B == RecvsDone(s)
<1>1. Single(RecvsOf, {s}, port, B, W)
  BY DEF OneRecv
<1>2. \A h \in V : h \in W \/ (h \in Workers /\ Fetches(h) /\ Head(port) \in B)
  BY RecvHoldersGo
<1>3. SUFFICES Single(RecvsOf', {s}, port', B, V)
  <2>1. RecvsDone(s)' = RecvsDone(s)
    BY DEF RecvsDone, Completion
  <2>2. QED
    BY <2>1 DEF OneRecv
<1> HIDE DEF V, W
<1>4. CASE \E w \in Workers : Fetches(w)
  <2>1. PICK w \in Workers : Fetches(w)
    BY <1>4
  <2>2. port # <<>> /\ port' = Tail(port) /\ conn' = conn
    BY <2>1, FetchGoes DEF Fetches, WorkerThread01
  <2>3. port \in Seq(Completion) /\ RecvsOf' = RecvsOf
    BY <2>2 DEF TypeOK, PortOK, RecvsOf
  <2>4. \A h \in Workers : Fetches(h) => h = w
    BY <2>1, OthersAre, PhaseActors, ThreadFacts
  <2>5. V \subseteq W \cup {w} /\ (V \subseteq W \/ Head(port) \in B)
    BY <1>2, <2>4
  <2> HIDE DEF B
  <2>6. QED
    BY <1>1, <2>2, <2>3, <2>5, TokenFetched
<1>5. CASE ~\E w \in Workers : Fetches(w)
  <2>0. V \subseteq W
    BY <1>2, <1>5
  <2>1. ASSUME NEW c \in Conns, Say(c) \/ Sent(c) \/ Abort(c)
        PROVE  Single(RecvsOf', {s}, port', B, V)
    <3>1. PICK e \in Completion : Arrives(c, e)
      BY <2>1, EnvDone
    <3>2. MayQueue(Completion, port, e, port')
      BY <3>1 DEF Arrives, MayQueue, TypeOK, PortOK
    <3>3. \A d \in Conns : d # c => conn'[d] = conn[d]
      BY <3>1 DEF Arrives
    <3>4. CASE e.op = "recv"
      <4>1. conn[c].recvs # <<>> /\ e.s = Head(conn[c].recvs) /\ conn'[c].recvs = Tail(conn[c].recvs)
        BY <3>1, <3>4 DEF Arrives
      <4>2. DOMAIN RecvsOf = Conns /\ DOMAIN RecvsOf' = Conns /\ \A d \in Conns : RecvsOf[d] \in Seq(AllSlots)
        BY IoFamilies
      <4>3. RecvsOf'[c] = Tail(RecvsOf[c]) /\ RecvsOf[c] # <<>> /\ Head(RecvsOf[c]) = e.s
        BY <4>1, IoFamilies
      <4>4. \A d \in Conns : conn'[d].recvs = RecvsOf'[d] /\ conn[d].recvs = RecvsOf[d]
        BY IoFamilies
      <4>5. \A d \in Conns : d # c => RecvsOf'[d] = RecvsOf[d]
        BY <3>3, <4>4
      <4>6. Shrinks(AllSlots, RecvsOf, RecvsOf', c)
        BY <4>2, <4>3, <4>5 DEF Shrinks, Families
      <4>7. e \in B => Head(RecvsOf[c]) \in {s}
        BY <4>3 DEF RecvsDone
      <4> HIDE DEF B
      <4>8. QED
        BY <1>1, <2>0, <3>2, <4>6, <4>7, TokenDone
    <3>5. CASE e.op # "recv"
      <4>1. e.op = "send" /\ conn'[c].recvs = conn[c].recvs
        BY <3>1, <3>5 DEF Arrives
      <4>2. RecvsStay
        BY <3>3, <4>1 DEF RecvsStay
      <4>3. RecvsOf' = RecvsOf
        BY <4>2, StaysOf
      <4>4. e \notin B
        BY <4>1 DEF RecvsDone
      <4> HIDE DEF B
      <4>5. QED
        BY <1>1, <2>0, <3>2, <4>3, <4>4, TokenKept
    <3>6. QED
      BY <3>4, <3>5
  <2>2. ASSUME ~\E c \in Conns : Say(c) \/ Sent(c) \/ Abort(c)
        PROVE  Single(RecvsOf', {s}, port', B, V)
    <3>1. PICK e \in Completion : MayQueue(Completion, port, e, port') /\ e \notin B
      BY <1>5, <2>2, PortElse
    <3>2. CASE RecvsStay
      <4>1. RecvsOf' = RecvsOf
        BY <3>2, StaysOf
      <4> HIDE DEF B
      <4>2. QED
        BY <1>1, <2>0, <3>1, <4>1, TokenKept
    <3>3. ASSUME NEW r \in Slots, RecvPosts(r), Live(r), Extends(AllSlots, RecvsOf, RecvsOf', ses[r].sock, r)
          PROVE  Single(RecvsOf', {s}, port', B, V)
      <4>1. port' = port
        BY <3>3 DEF RecvPosts, Binds, Rebinds
      <4>2. r \in {s} => \E w \in W : w \notin V
        <5>1. ASSUME r = s, Binds(s)
              PROVE  "accepter" \in W /\ "accepter" \notin V
          <6>1. "accepter" \in W
            BY <5>1 DEF W, RecvHolders, Binds
          <6>a. Rests("accepter") \/ Stays("accepter", "ended")
            BY <5>1 DEF Binds
          <6>b. Rests("accepter") => pc'["accepter"].at \in {"get", "ended"}
            BY PcAfter, ThreadFacts
          <6>c. Stays("accepter", "ended") => pc'["accepter"].at = "ended"
            BY PcAfter, ThreadFacts
          <6>2. pc'["accepter"].at # "bind"
            BY <6>a, <6>b, <6>c
          <6>3. QED
            BY <6>1, <6>2, ThreadFacts DEF V, RecvHolders, At
        <5>2. ASSUME NEW w \in Workers, r = s, Rebinds(w), pc[w].s = s
              PROVE  w \in W /\ w \notin V
          <6>1. w \in W
            BY <5>2 DEF W, RecvHolders, Rebinds, Receiving, At
          <6>a. Rests(w) \/ Stays(w, "close")
            BY <5>2 DEF Rebinds
          <6>b. Rests(w) => pc'[w].at \in {"wait", "ended"}
            BY PcAfter, ThreadFacts
          <6>c. Stays(w, "close") => pc'[w].at = "close"
            BY PcAfter, ThreadFacts
          <6>2. pc'[w].at \notin {"rebind", "got"}
            BY <6>a, <6>b, <6>c
          <6>3. QED
            BY <6>1, <6>2, ThreadFacts DEF V, RecvHolders, Receiving
        <5>3. QED
          BY <3>3, <5>1, <5>2 DEF RecvPosts
      <4> HIDE DEF B
      <4>3. QED
        BY <1>1, <2>0, <3>3, <4>1, <4>2, TokenPosted
    <3>4. QED
      BY <2>2, <3>2, <3>3, IoMove DEF RecvsMoves
  <2>3. QED
    BY <2>1, <2>2
<1>6. QED
  BY <1>4, <1>5

(* A session that has just got its connection: there is nothing else of it. *)
NewSlot(s) ==
  /\ \A u \in Threads : pc[u].s = s => u = "accepter" /\ At(u, "bind") /\ pc[u].ms = <<>>
  /\ \A i \in DOMAIN port : port[i].s = s => port[i].op = "accept" /\ port[i].ms = <<>>
  /\ \A i \in DOMAIN deque : deque[i].s # s
  /\ \A c \in Conns : /\ \A i \in DOMAIN conn[c].recvs : conn[c].recvs[i] # s
                      /\ \A i \in DOMAIN conn[c].sends : conn[c].sends[i].s # s
  /\ ~LeftBehind(s)

(* A session that is accepted for without overlap is as new.               *)
LEMMA AcceptedFresh ==
    ASSUME TypeOK, NEW s \in Slots, Accepts(s) \/ KernelAccepts(s), ~Overlapped'
    PROVE  NewSlot(s)' /\ OneRecv(s)' /\ NoSend(s)'
<1> DEFINE e == Done("accept", s, TRUE, <<>>)
<1> DEFINE BR == RecvsDone(s)
<1> DEFINE BS == SendsDone(s)
<1>1. PICK t \in {"accepter", "kernel"} : Accepted(t, s) /\ (t = "accepter" => Accepts(s)) /\ (t = "kernel" => KernelAccepts(s))
  BY DEF Accepts, KernelAccepts
<1>2. ~UnderWay(t, s) /\ ~LeftBehind(s)
  BY <1>1, AcceptedClean DEF Overlapped
<1>3. /\ \A u \in Threads \ {t} : pc[u].s # s
      /\ \A i \in DOMAIN port : port[i].s # s
      /\ \A i \in DOMAIN deque : deque[i].s # s
      /\ \A c \in Conns : /\ \A i \in DOMAIN conn[c].recvs : conn[c].recvs[i] # s
                          /\ \A i \in DOMAIN conn[c].sends : conn[c].sends[i].s # s
  BY <1>2 DEF UnderWay
<1>4. RecvsStay /\ SendsStay
  <2>1. Caller \in Conns /\ conn' = [conn EXCEPT ![Caller].st = "open"]
    BY <1>1, CallerFacts DEF Accepted
  <2>2. QED
    BY <2>1, IoSet
<1>5. ~LeftBehind(s)'
  <2>1. ses' = [ses EXCEPT ![s].sock = Caller]
    BY <1>1 DEF Accepted
  <2>2. OutStays /\ SendingStays /\ TypedStays
    BY <2>1, SesAfter
  <2>3. ses'[s].out = <<>> /\ ~ses'[s].sending /\ ~ses'[s].typed
    BY <1>2, <2>2 DEF OutStays, SendingStays, TypedStays, LeftBehind
  <2>4. QED
    BY <2>3 DEF LeftBehind
<1>6. deque' = deque
  BY DEF Accepts, KernelAccepts
<1>7. /\ \A u \in Threads : pc'[u].s = s => u = "accepter" /\ pc'[u].at = "bind" /\ pc'[u].ms = <<>>
      /\ t = "kernel" => \A u \in Threads : pc'[u].s # s
  <2>1. CASE t = "kernel"
    <3>1. pc' = pc /\ \A u \in Threads : pc[u].s # s
      BY <1>1, <1>3, <2>1, ThreadFacts DEF KernelAccepts, Threads
    <3>2. QED
      BY <3>1
  <2>2. CASE t = "accepter"
    <3>1. Stays("accepter", "bind")
      BY <1>1, <2>2 DEF Accepts
    <3>2. OthersStay("accepter") /\ pc'["accepter"].at = "bind" /\ pc'["accepter"].ms = <<>>
      BY <3>1, OthersAre, PcAfter, ThreadFacts
    <3>3. QED
      BY <1>3, <2>2, <3>2 DEF OthersStay
  <2>3. QED
    BY <2>1, <2>2
<1>8. e \in Completion /\ e.s = s /\ e.op = "accept" /\ e.ms = <<>>
  BY SlotFacts DEF Done, Completion, Text
<1>9. port \in Seq(Completion) /\ port' \in {port, Append(port, e)} /\ (t = "accepter" => port' = port)
  BY <1>1 DEF TypeOK, PortOK, Accepts, KernelAccepts
<1> HIDE DEF e
<1>10. \A i \in DOMAIN port' : port'[i].s = s => port'[i] = e
  <2>1. ASSUME NEW i \in DOMAIN port', port'[i].s = s, port'[i] # e
        PROVE  FALSE
    <3>1. \E j \in DOMAIN port : port'[i] = port[j]
      BY <1>8, <1>9, <2>1, AppendOne
    <3>2. QED
      BY <1>3, <2>1, <3>1
  <2>2. QED
    BY <2>1
<1>11. NewSlot(s)'
  <2>1. \A i \in DOMAIN deque' : deque'[i].s # s
    BY <1>3, <1>6
  <2>2. \A c \in Conns : /\ \A i \in DOMAIN conn'[c].recvs : conn'[c].recvs[i] # s
                         /\ \A i \in DOMAIN conn'[c].sends : conn'[c].sends[i].s # s
    BY <1>3, <1>4 DEF RecvsStay, SendsStay
  <2>3. QED
    BY <1>5, <1>7, <1>8, <1>10, <2>1, <2>2 DEF NewSlot, At
<1>12. NoneIn(port, BR) /\ NoneIn(port', BS) /\ MayQueue(Completion, port, e, port')
  BY <1>3, <1>8, <1>9, <1>10 DEF NoneIn, RecvsDone, SendsDone, MayQueue
<1>13. RecvsOf' = RecvsOf /\ SendsOf' = SendsOf
  BY <1>4, StaysOf
<1>14. /\ \A c \in DOMAIN RecvsOf : NoneIn(RecvsOf[c], {s})
       /\ \A c \in DOMAIN SendsOf : NoneIn(SendsOf[c], SendOps(s))
  <2>1. DOMAIN RecvsOf = Conns /\ DOMAIN SendsOf = Conns
    BY IoFamilies
  <2>2. \A c \in Conns : RecvsOf[c] = conn[c].recvs /\ SendsOf[c] = conn[c].sends
    BY IoFamilies
  <2>3. \A c \in Conns : NoneIn(RecvsOf[c], {s})
    BY <1>3, <2>2 DEF NoneIn
  <2>4. \A c \in Conns : NoneIn(SendsOf[c], SendOps(s))
    BY <1>3, <2>2 DEF NoneIn, SendOps
  <2>5. QED
    BY <2>1, <2>3, <2>4
<1>15. RecvHolders(s)' \subseteq {"accepter"} /\ (t = "kernel" => RecvHolders(s)' = {}) /\ SendHolders(s)' = {}
  BY <1>7, ThreadFacts DEF RecvHolders, SendHolders, Receiving, SendDone, At
<1>16. RecvsDone(s)' = BR /\ SendsDone(s)' = BS
  BY DEF RecvsDone, SendsDone, Completion
<1>17. Empty(RecvsOf, {s}, port, BR, {})
  BY <1>12, <1>14 DEF Empty
<1> HIDE DEF BR, BS
<1>18. Single(RecvsOf, {s}, port', BR, RecvHolders(s)')
  <2>1. CASE t = "accepter"
    <3>1. \A v, w \in RecvHolders(s)' : v = w
      BY <1>15
    <3>2. port' = port
      BY <1>9, <2>1
    <3>3. QED
      BY <1>17, <3>1, <3>2, TokenTaken
  <2>2. CASE t = "kernel"
    <3>1. RecvHolders(s)' = {}
      BY <1>15, <2>2
    <3>2. Single(RecvsOf, {s}, port', BR, {})
      BY <1>12, <1>17, TokenKept
    <3>3. QED
      BY <3>1, <3>2
  <2>3. QED
    BY <2>1, <2>2
<1>19. OneRecv(s)'
  BY <1>13, <1>16, <1>18 DEF OneRecv
<1>20. NoSend(s)'
  BY <1>12, <1>13, <1>14, <1>15, <1>16 DEF NoSend, Empty
<1>21. QED
  BY <1>11, <1>19, <1>20

(* Writing over the buffer of one session's sends moves nobody's send. *)
LEMMA BaseKept ==
    ASSUME TypeOK, NEW r \in Slots, NEW ms \in Text, NEW s, NEW q, NEW B, NEW W
    PROVE  /\ DOMAIN Base(r, ms) = Conns /\ \A c \in Conns : Base(r, ms)[c] \in Seq(Op)
           /\ Empty(SendsOf, SendOps(s), q, B, W) => Empty(Base(r, ms), SendOps(s), q, B, W)
           /\ Single(SendsOf, SendOps(s), q, B, W) => Single(Base(r, ms), SendOps(s), q, B, W)
<1> DEFINE f == Base(r, ms)
<1> DEFINE A == SendOps(s)
<1>1. /\ DOMAIN SendsOf = Conns /\ \A c \in Conns : SendsOf[c] \in Seq(Op) /\ SendsOf[c] = conn[c].sends
  BY IoFamilies
<1>2. DOMAIN f = Conns
  BY <1>1 DEF Base
<1>3. ASSUME NEW c \in Conns
      PROVE  f[c] \in Seq(Op) /\ DOMAIN f[c] = DOMAIN SendsOf[c]
             /\ \A i \in DOMAIN f[c] : f[c][i] \in A <=> SendsOf[c][i] \in A
  <2>1. CASE ver \notin OneBuffer
    BY <1>1, <2>1 DEF Base
  <2>2. CASE ver \in OneBuffer
    <3> DEFINE p == Over(conn[c].sends, r, ms)
    <3>1. f[c] = p /\ SendsOf[c] = conn[c].sends /\ conn[c].sends \in Seq(Op)
      BY <1>1, <2>2 DEF Base
    <3>2. /\ p \in Seq(Op) /\ DOMAIN p = DOMAIN conn[c].sends
          /\ \A i \in DOMAIN conn[c].sends : p[i].s = conn[c].sends[i].s
      BY <3>1, OverSeq
    <3> HIDE DEF p, f
    <3>3. \A i \in DOMAIN p : p[i] \in Op /\ conn[c].sends[i] \in Op
      BY <3>1, <3>2
    <3>4. QED
      BY <3>1, <3>2, <3>3 DEF SendOps
  <2>3. QED
    BY <2>1, <2>2
<1> HIDE DEF f, A
<1>4. \A c \in Conns : (NoneIn(f[c], A) <=> NoneIn(SendsOf[c], A)) /\ (OneIn(f[c], A) <=> OneIn(SendsOf[c], A))
  BY <1>3 DEF NoneIn, OneIn
<1>5. Empty(SendsOf, A, q, B, W) => Empty(f, A, q, B, W)
  BY <1>1, <1>2, <1>4 DEF Empty
<1>6. Single(SendsOf, A, q, B, W) => Single(f, A, q, B, W)
  BY <1>1, <1>2, <1>4 DEF Single
<1>7. QED
  BY <1>2, <1>3, <1>5, <1>6 DEF f, A

(* Sends are posted without a look at the port. *)
LEMMA SendingPort ==
    ASSUME NEW t, NEW s, NEW ms, Sending(t, s, ms)
    PROVE  port' = port /\ t \in Threads /\ ver \in Practices \ {"08"}
<1>1. port' = port
  BY DEF Sending, Echoes, Pops, SendCompleted06, Answers, Lines, Posts
<1>2. t \in Threads
  BY ThreadFacts DEF Sending
<1>3. ver \in Practices \ {"08"}
  BY DEF Sending, Echoes, Pops, Answers, Lines, Posts, SendsAt, Practices, Copying, Swapping, Reusing, OneBuffer
<1>4. QED
  BY <1>1, <1>2, <1>3

NoPosting(s) == \A t \in Threads : \A ms \in Text : ~Sending(t, s, ms)
Room(s) == \A t \in Threads : \A ms \in Text :
  Sending(t, s, ms) /\ Live(s) => NoSend(s) \/ \E w \in SendHolders(s) : w \notin SendHolders(s)'
SendsSame(s) ==
  /\ NoPosting(s) /\ NoSend(s) => NoSend(s)'
  /\ Room(s) /\ OneSent(s) => OneSent(s)'

(* While none is posted, there is no send if there was none; while there   *)
(* is room for the one that is posted, there is one send at most.          *)
LEMMA SendsKept ==
    ASSUME TypeOK, Known, NEW s \in Slots
    PROVE  SendsSame(s)
<1> DEFINE V == SendHolders(s)'
<1> DEFINE W == SendHolders(s)
<1> DEFINE A == SendOps(s)
<1> DEFINE B == SendsDone(s)
<1> DEFINE Goal == /\ NoPosting(s) /\ Empty(SendsOf, A, port, B, W) => Empty(SendsOf', A, port', B, V)
                   /\ Room(s) /\ Single(SendsOf, A, port, B, W) => Single(SendsOf', A, port', B, V)
<1>1. \A h \in V : h \in W \/ (h \in Workers /\ Fetches(h) /\ Head(port) \in B)
  BY SendHoldersGo
<1>2. SUFFICES Goal
  <2>1. SendsDone(s)' = SendsDone(s) /\ SendOps(s)' = SendOps(s)
    BY DEF SendsDone, SendOps, Completion, Op
  <2>2. QED
    BY <2>1 DEF OneSent, NoSend, SendsSame
<1> HIDE DEF V, W
<1>4. CASE \E w \in Workers : Fetches(w)
  <2>1. PICK w \in Workers : Fetches(w)
    BY <1>4
  <2>2. port # <<>> /\ port' = Tail(port) /\ conn' = conn
    BY <2>1, FetchGoes DEF Fetches, WorkerThread01
  <2>3. port \in Seq(Completion) /\ SendsOf' = SendsOf
    BY <2>2 DEF TypeOK, PortOK, SendsOf
  <2>4. \A h \in Workers : Fetches(h) => h = w
    BY <2>1, OthersAre, PhaseActors, ThreadFacts
  <2>5. V \subseteq W \cup {w} /\ (V \subseteq W \/ Head(port) \in B)
    BY <1>1, <2>4
  <2> HIDE DEF A, B
  <2>6. QED
    BY <2>2, <2>3, <2>5, TokenFetched
<1>5. CASE ~\E w \in Workers : Fetches(w)
  <2>0. V \subseteq W
    BY <1>1, <1>5
  <2>1. ASSUME NEW c \in Conns, Say(c) \/ Sent(c) \/ Abort(c)
        PROVE  Goal
    <3>1. PICK e \in Completion : Arrives(c, e)
      BY <2>1, EnvDone
    <3>2. MayQueue(Completion, port, e, port')
      BY <3>1 DEF Arrives, MayQueue, TypeOK, PortOK
    <3>3. \A d \in Conns : d # c => conn'[d] = conn[d]
      BY <3>1 DEF Arrives
    <3>4. CASE e.op = "send"
      <4>1. conn[c].sends # <<>> /\ e.s = Head(conn[c].sends).s /\ conn'[c].sends = Tail(conn[c].sends)
        BY <3>1, <3>4 DEF Arrives
      <4>2. DOMAIN SendsOf = Conns /\ DOMAIN SendsOf' = Conns /\ \A d \in Conns : SendsOf[d] \in Seq(Op)
        BY IoFamilies
      <4>3. SendsOf'[c] = Tail(SendsOf[c]) /\ SendsOf[c] # <<>> /\ Head(SendsOf[c]).s = e.s
        BY <4>1, IoFamilies
      <4>4. \A d \in Conns : conn'[d].sends = SendsOf'[d] /\ conn[d].sends = SendsOf[d]
        BY IoFamilies
      <4>5. \A d \in Conns : d # c => SendsOf'[d] = SendsOf[d]
        BY <3>3, <4>4
      <4>6. Shrinks(Op, SendsOf, SendsOf', c)
        BY <4>2, <4>3, <4>5 DEF Shrinks, Families
      <4>a. Head(SendsOf[c]) \in Op
        BY <4>2, <4>3, SeqTail
      <4>7. e \in B => Head(SendsOf[c]) \in A
        BY <4>3, <4>a DEF SendsDone, SendOps
      <4> HIDE DEF A, B
      <4>8. QED
        BY <2>0, <3>2, <4>6, <4>7, TokenDone
    <3>5. CASE e.op # "send"
      <4>1. e.op = "recv" /\ conn'[c].sends = conn[c].sends
        BY <3>1, <3>5 DEF Arrives
      <4>2. SendsStay
        BY <3>3, <4>1 DEF SendsStay
      <4>3. SendsOf' = SendsOf
        BY <4>2, StaysOf
      <4>4. e \notin B
        BY <4>1 DEF SendsDone
      <4> HIDE DEF A, B
      <4>5. QED
        BY <2>0, <3>2, <4>3, <4>4, TokenKept
    <3>6. QED
      BY <3>4, <3>5
  <2>2. ASSUME ~\E c \in Conns : Say(c) \/ Sent(c) \/ Abort(c)
        PROVE  Goal
    <3>1. PICK e \in Completion : MayQueue(Completion, port, e, port') /\ e \notin B
      BY <1>5, <2>2, PortElse
    <3>2. CASE SendsStay
      <4>1. SendsOf' = SendsOf
        BY <3>2, StaysOf
      <4> HIDE DEF A, B
      <4>2. QED
        BY <2>0, <3>1, <4>1, TokenKept
    <3>3. ASSUME NEW t \in Threads, NEW r \in Slots, NEW ms \in Text, Sending(t, r, ms),
                 \/ SendsOf' = Base(r, ms)
                 \/ Live(r) /\ Extends(Op, Base(r, ms), SendsOf', ses[r].sock, [s |-> r, ms |-> ms])
          PROVE  Goal
      <4> DEFINE f == Base(r, ms)
      <4> DEFINE x == [s |-> r, ms |-> ms]
      <4>1. port' = port /\ (NoPosting(s) => r # s)
        BY <3>3, SendingPort DEF NoPosting
      <4>2. r # s => x \notin A
        BY DEF SendOps
      <4>3. (Empty(SendsOf, A, port, B, W) => Empty(f, A, port, B, W)) /\ (Single(SendsOf, A, port, B, W) => Single(f, A, port, B, W))
        BY BaseKept
      <4>4. CASE SendsOf' = f
        <5> HIDE DEF A, B, f
        <5>1. QED
          BY <2>0, <3>1, <4>1, <4>3, <4>4, TokenKept
      <4>5. CASE Live(r) /\ Extends(Op, f, SendsOf', ses[r].sock, x)
        <5>0. Room(s) /\ r = s => Empty(SendsOf, A, port, B, W) \/ \E w \in W : w \notin V
          BY <3>3, <4>5 DEF Room, NoSend, V, W
        <5> HIDE DEF A, B, f, x
        <5>1. /\ Single(f, A, port, B, W) /\ (x \in A => \E w \in W : w \notin V) => Single(SendsOf', A, port, B, V)
              /\ Empty(f, A, port, B, W) /\ x \notin A => Empty(SendsOf', A, port, B, V)
              /\ Empty(f, A, port, B, W) => Single(SendsOf', A, port, B, V)
          BY <2>0, <4>5, TokenPosted
        <5>2. QED
          BY <4>1, <4>2, <4>3, <5>0, <5>1
      <4>6. QED
        BY <3>3, <4>4, <4>5
    <3>4. QED
      BY <2>2, <3>2, <3>3, IoMove DEF SendsMoves
  <2>3. QED
    BY <2>1, <2>2
<1>6. QED
  BY <1>4, <1>5

LEMMA EchoesTyped ==
    ASSUME TypeOK, NEW w \in Workers, Echoes(w)
    PROVE  pc[w].s \in Slots /\ \A r \in Slots : ses'[r].typed = (IF r = pc[w].s THEN TRUE ELSE ses[r].typed)
<1>1. pc[w].s \in Slots
  BY EchoText
<1>2. ses' = [ses EXCEPT ![pc[w].s].typed = TRUE]
  BY DEF Echoes, SendMsg01
<1>3. ses \in [Slots -> SesRec]
  BY DEF TypeOK, SesOK
<1>4. \A r \in Slots : ses'[r].typed = (IF r = pc[w].s THEN TRUE ELSE ses[r].typed)
  BY <1>1, <1>2, <1>3 DEF SesRec
<1>5. QED
  BY <1>1, <1>4

LEMMA TypedChanges ==
    ASSUME TypeOK, SesMoves, NEW s \in Slots
    PROVE  \/ ses'[s].typed = ses[s].typed
           \/ \E w \in Workers : Echoes(w) /\ pc[w].s = s
           \/ (\E t \in Closers : Clears(t) /\ s = pc[t].s) /\ ses'[s].sock = None
<1>1. CASE TypedStays
  BY <1>1 DEF TypedStays
<1>2. CASE \E w \in Workers : Echoes(w)
  BY <1>2, EchoesTyped
<1>3. ASSUME NEW t \in Closers, NEW r \in Slots, Clears(t), r = pc[t].s
      PROVE  ses'[s].typed = ses[s].typed \/ (r = s /\ ses'[s].sock = None)
  <2>1. ses'[r].sock = None /\ \A x \in Slots \ {r} : ses'[x] = ses[x]
    BY <1>3, ClearsAfter
  <2>2. QED
    BY <2>1
<1>4. QED
  BY <1>1, <1>2, <1>3 DEF SesMoves, Clearing

(* A step keeps RecvInv.                                                   *)
LEMMA RecvStep ==
    ASSUME TypeOK, RecvInv, Known, UNCHANGED ver
    PROVE  RecvInv'
<1>0. SesMoves
  BY SesMove
<1>1. SUFFICES ASSUME ~Overlapped', NEW s \in Slots, ses'[s].sock # None
               PROVE  OneRecv(s)' /\ (ver \in OneBuffer /\ ~ses'[s].typed => NoSend(s)')
  <2>1. Slots' = Slots
    BY <1>0 DEF SesMoves
  <2>2. QED
    BY <1>1, <2>1 DEF RecvInv
<1>2. CASE Accepts(s) \/ KernelAccepts(s)
  BY <1>1, <1>2, AcceptedFresh
<1>3. CASE ~(Accepts(s) \/ KernelAccepts(s))
  <2>1. ses[s].sock # None /\ ~\E t \in Closers : Clears(t) /\ s = pc[t].s
    <3>1. ASSUME NEW t \in Closers, Clears(t), s = pc[t].s
          PROVE  FALSE
      BY <1>1, <3>1, ClearsAfter
    <3>2. QED
      BY <1>0, <1>1, <1>3, <3>1, SockChanges
  <2>2. ~Overlapped
    BY <1>1, MarksGrow DEF Overlapped
  <2>3. OneRecv(s) /\ (ver \in OneBuffer /\ ~ses[s].typed => NoSend(s))
    BY <2>1, <2>2 DEF RecvInv
  <2>4. ASSUME NEW w \in Workers, Echoes(w), pc[w].s = s
        PROVE  pc[w].op # "send"
    <3>1. SUFFICES ASSUME pc[w].op = "send" PROVE FALSE
      OBVIOUS
    <3>2. w \in SendHolders(s)
      BY <2>4, <3>1 DEF Echoes, SendHolders, SendDone, At
    <3>3. ver \in OneBuffer /\ ~ses[s].typed
      BY <2>4, <3>1 DEF Echoes, Received01
    <3>4. QED
      BY <2>3, <3>2, <3>3 DEF NoSend, Empty
  <2>5. OneRecv(s)'
    BY <1>3, <2>3, <2>4, RecvKept
  <2>6. ASSUME ver \in OneBuffer, ~ses'[s].typed
        PROVE  NoSend(s)'
    <3>1. ~\E w \in Workers : Echoes(w) /\ pc[w].s = s
      BY <2>6, EchoesTyped
    <3>2. ~ses[s].typed
      BY <1>0, <2>1, <2>6, <3>1, TypedChanges
    <3>3. NoPosting(s)
      BY <2>6, <3>1 DEF NoPosting, Sending, Pops, Answers, Lines, Posts, SendsAt, OneBuffer
    <3>4. QED
      BY <2>3, <2>6, <3>2, <3>3, SendsKept DEF SendsSame
  <2>7. QED
    BY <2>5, <2>6
<1>4. QED
  BY <1>2, <1>3

LEMMA AtMostOne ==
    ASSUME NEW S, \A x, y \in S : x = y
    PROVE  Cardinality(S) <= 1
<1>1. CASE S = {}
  BY <1>1, FS_EmptySet
<1>2. CASE S # {}
  <2>1. PICK x \in S : TRUE
    BY <1>2
  <2>2. S = {x}
    BY <2>1
  <2>3. QED
    BY <2>2, FS_Singleton
<1>3. QED
  BY <1>1, <1>2

(* One token makes at most one member of Receives(s).                      *)
LEMMA OneReceiveIs ==
    ASSUME TypeOK, NEW s \in Slots, OneRecv(s)
    PROVE  Cardinality(Receives(s)) <= 1
<1> DEFINE B == RecvsDone(s)
<1> DEFINE W == RecvHolders(s)
<1> DEFINE P(c) == {<<"pending", c, i>> : i \in {j \in DOMAIN conn[c].recvs : conn[c].recvs[j] = s}}
<1> DEFINE Q == {<<"port", i>> : i \in {j \in DOMAIN port : port[j].s = s /\ port[j].op \in {"recv", "accept"}}}
<1> DEFINE H == {<<"worker", w>> : w \in {v \in Workers : Receiving(v, s)}}
<1>1. DOMAIN RecvsOf = Conns /\ \A c \in Conns : RecvsOf[c] = conn[c].recvs
  BY IoFamilies
<1>2. Single(RecvsOf, {s}, port, B, W)
  BY DEF OneRecv
<1>3. /\ \A c \in Conns : OneIn(conn[c].recvs, {s})
      /\ \A c, d \in Conns : c # d => NoneIn(conn[c].recvs, {s}) \/ NoneIn(conn[d].recvs, {s})
      /\ OneIn(port, B) /\ \A v, w \in W : v = w
      /\ (\A c \in Conns : NoneIn(conn[c].recvs, {s})) \/ (NoneIn(port, B) /\ W = {})
      /\ NoneIn(port, B) \/ W = {}
  <2> HIDE DEF B, W
  <2>1. QED
    BY <1>1, <1>2 DEF Single
<1>4. \A i \in DOMAIN port : port[i] \in Completion
  <2>1. port \in Seq(Completion)
    BY DEF TypeOK, PortOK
  <2>2. QED
    BY <2>1
<1>5. \A i \in DOMAIN port : port[i].s = s /\ port[i].op \in {"recv", "accept"} => port[i] \in B
  BY <1>4 DEF RecvsDone
<1>6. \A v \in Workers : Receiving(v, s) => v \in W
  BY DEF RecvHolders
<1> HIDE DEF B, W
<1>7. ASSUME NEW c \in Conns, P(c) # {}
      PROVE  ~NoneIn(conn[c].recvs, {s})
  BY <1>7 DEF NoneIn
<1>8. Q # {} => ~NoneIn(port, B)
  BY <1>5 DEF NoneIn
<1>9. H # {} => W # {}
  BY <1>6
<1>10. \A c \in Conns : \A x, y \in P(c) : x = y
  BY <1>3 DEF OneIn
<1>11. \A x, y \in Q : x = y
  BY <1>3, <1>5 DEF OneIn
<1>12. \A x, y \in H : x = y
  BY <1>3, <1>6
<1>13. ASSUME NEW x \in Receives(s)
       PROVE  (\E c \in Conns : x \in P(c)) \/ x \in Q \/ x \in H
  <2> DEFINE F == {P(c) : c \in Conns}
  <2>1. Receives(s) = (UNION F) \cup Q \cup H
    BY DEF Receives
  <2>2. \A y \in F : \E c \in Conns : y = P(c)
    OBVIOUS
  <2> HIDE DEF F, P, Q, H
  <2>3. x \in (UNION F) \cup (Q \cup H)
    BY <2>1
  <2>4. x \in UNION F \/ x \in Q \/ x \in H
    BY <2>3
  <2>5. QED
    BY <2>2, <2>4
<1> HIDE DEF P, Q, H
<1>14. \A c, d \in Conns : P(c) # {} /\ P(d) # {} => c = d
  BY <1>3, <1>7
<1>15. (\A c \in Conns : P(c) = {}) \/ (Q = {} /\ H = {})
  BY <1>3, <1>7, <1>8, <1>9
<1>16. Q = {} \/ H = {}
  BY <1>3, <1>8, <1>9
<1>17. ASSUME NEW x \in Receives(s), NEW y \in Receives(s)
       PROVE  x = y
  <2>1. (\E c \in Conns : x \in P(c)) \/ x \in Q \/ x \in H
    BY <1>13
  <2>2. (\E c \in Conns : y \in P(c)) \/ y \in Q \/ y \in H
    BY <1>13
  <2>3. CASE \E c \in Conns : x \in P(c)
    <3>1. PICK c \in Conns : x \in P(c)
      BY <2>3
    <3>2. Q = {} /\ H = {}
      BY <1>15, <3>1
    <3>3. PICK d \in Conns : y \in P(d)
      BY <2>2, <3>2
    <3>4. c = d
      BY <1>14, <3>1, <3>3
    <3>5. QED
      BY <1>10, <3>1, <3>3, <3>4
  <2>4. CASE x \in Q \/ x \in H
    <3>1. \A c \in Conns : P(c) = {}
      BY <1>15, <2>4
    <3>2. y \in Q \/ y \in H
      BY <2>2, <3>1
    <3>3. QED
      BY <1>11, <1>12, <1>16, <2>4, <3>2
  <2>5. QED
    BY <2>1, <2>3, <2>4
<1>18. QED
  BY <1>17, AtMostOne

(* A session with a socket never has two receives: BindRecv posts the next *)
(* one only when the worker is done with the last.  The token moves from   *)
(* the kernel to the port to a worker (OneRecv), and an echo of the        *)
(* practices with one buffer for sends does not take the completion of a   *)
(* send for a receive (typed: op_type_).  A worker of Practice07 that      *)
(* misreads op_type_ marks it, and the theorem says nothing from there on. *)
THEOREM EchoOneReceive == Spec => []OneReceive
<1>1. EchoInit => RecvInv
  BY InitFacts DEF RecvInv
<1>2. TypeOK /\ StartInv /\ RecvInv /\ [Next]_<<vars, ver>> => RecvInv'
  <2>1. SUFFICES ASSUME TypeOK, StartInv, RecvInv, [Next]_<<vars, ver>>
                 PROVE  RecvInv'
    OBVIOUS
  <2>2. UNCHANGED ver /\ (Known \/ (\E w \in Workers : Misreads(w)) \/ UNCHANGED <<vars, ver>>)
    BY <2>1, NextIs
  <2>3. CASE Known
    BY <2>1, <2>2, <2>3, RecvStep
  <2>4. CASE \E w \in Workers : Misreads(w)
    BY <2>4 DEF Misreads, RecvInv, Overlapped
  <2>5. CASE UNCHANGED <<vars, ver>>
    <3>1. UNCHANGED <<conn, accepts, port, ses, pc, marks, deque, ver>>
      BY <2>5 DEF vars, net, mem, hist
    <3>2. \A s : (OneRecv(s)' <=> OneRecv(s)) /\ (NoSend(s)' <=> NoSend(s))
      BY <3>1 DEF OneRecv, NoSend, Single, Empty, NoneIn, OneIn, RecvsOf, SendsOf, RecvHolders, SendHolders, RecvsDone, SendsDone,
                  SendOps, Receiving, SendDone, At
    <3>3. QED
      BY <2>1, <3>1, <3>2 DEF RecvInv, Overlapped, Slots
  <2>6. QED
    BY <2>2, <2>3, <2>4, <2>5
<1>3. TypeOK /\ RecvInv => OneReceive
  BY OneReceiveIs DEF RecvInv, OneReceive, Overlapped
<1>4. QED
  BY <1>1, <1>2, <1>3, EchoTypes, PTL DEF Spec

-----------------------------------------------------------------------------
(* One send *)

(* The worker that had the send of a session is done with it.              *)
LEMMA SendDropped ==
    ASSUME TypeOK, Known, NEW s \in Slots, OneSent(s), NEW w \in SendHolders(s), w \notin SendHolders(s)',
           port' = port, conn' = conn
    PROVE  NoSend(s)'
<1> DEFINE V == SendHolders(s)'
<1> DEFINE W == SendHolders(s)
<1>1. SendsDone(s)' = SendsDone(s) /\ SendOps(s)' = SendOps(s) /\ SendsOf' = SendsOf
  BY DEF SendsDone, SendOps, Completion, Op, SendsOf
<1>2. ~\E h \in Workers : Fetches(h)
  <2>1. ASSUME NEW h \in Workers, Fetches(h)
        PROVE  FALSE
    <3>1. port # <<>> /\ port' = Tail(port) /\ port \in Seq(Completion)
      BY <2>1, FetchGoes DEF TypeOK, PortOK
    <3>2. Len(Tail(port)) = Len(port) - 1 /\ Len(port) \in Nat
      BY <3>1, SeqTail
    <3>3. QED
      BY <3>1, <3>2
  <2>2. QED
    BY <2>1
<1>3. V \subseteq W \ {w}
  BY <1>2, SendHoldersGo
<1>4. Single(SendsOf, SendOps(s), port, SendsDone(s), W)
  BY DEF OneSent
<1> HIDE DEF V, W
<1>5. w \in W
  BY DEF W
<1>6. Empty(SendsOf, SendOps(s), port, SendsDone(s), V)
  BY <1>3, <1>4, <1>5, TokenDropped
<1>7. QED
  BY <1>1, <1>6 DEF NoSend, V

LEMMA RingGoes ==
    ASSUME TypeOK, Acts("sender")
    PROVE  /\ pc'["sender"].at = "wsasend" => Claims /\ pc'["sender"].s = pc["sender"].s
           /\ pc'["sender"].at = "send" => Checks /\ pc'["sender"].s = pc["sender"].s
<1>1. "sender" \in Threads /\ FirstStep("sender") = "scan" /\ "sender" \notin Workers
  BY ThreadFacts
<1>2. Rests("sender") => pc'["sender"].at \in {"scan", "ended"}
  BY <1>1, PcAfter
<1>3. \A l : Stays("sender", l) => pc'["sender"].at = l /\ pc'["sender"].s = pc["sender"].s
  BY <1>1, PcAfter
<1>4. Works("sender")
  BY DEF Acts
<1>5. CASE Leaves("sender")
  BY <1>2, <1>5 DEF Leaves
<1>6. CASE CloserWorks("sender")
  BY <1>2, <1>3, <1>6 DEF CloserWorks, Ends, Blocks, Shuts, Clears
<1>7. CASE SenderWorks("sender")
  <2>1. ASSUME NEW s \in Slots, Finds(s)
        PROVE  pc'["sender"].at = "cas"
    <3>1. pc'["sender"] = [Local("cas") EXCEPT !.s = s]
      BY <1>1, <2>1, PcAfter DEF Finds
    <3>2. QED
      BY <3>1 DEF Local
  <2>2. ASSUME NEW told \in BOOLEAN, Posts(told)
        PROVE  pc'["sender"].at = "movefront"
    BY <2>2, PostGoes
  <2>3. Claims => Stays("sender", "wsasend")
    BY DEF Claims
  <2>4. Checks => Stays("sender", "send") \/ Stays("sender", "close")
    BY DEF Checks
  <2>5. Fails => Stays("sender", "close") \/ Stays("sender", "movefront")
    BY DEF Fails
  <2>6. Advances => Rests("sender")
    BY DEF Advances
  <2>7. QED
    BY <1>2, <1>3, <1>7, <2>1, <2>2, <2>3, <2>4, <2>5, <2>6 DEF SenderWorks
<1>8. QED
  BY <1>1, <1>4, <1>5, <1>6, <1>7 DEF Works, AccepterWorks, WorkerWorks, PacketWorks

SetsOut(s, x) == ses' = [ses EXCEPT ![s].out = x]
LEMMA OutSet ==
    ASSUME TypeOK, NEW s \in Slots, NEW x, SetsOut(s, x)
    PROVE  \A r \in Slots : ses'[r].out = (IF r = s THEN x ELSE ses[r].out)
<1>1. ses \in [Slots -> SesRec]
  BY DEF TypeOK, SesOK
<1>2. QED
  BY <1>1 DEF SesRec, SetsOut

(* Who changes what a session has to send.                                 *)
OutChange(s) ==
  \/ ses'[s].out = ses[s].out
  \/ Puts /\ pc["packet"].s = s /\ ses'[s].out = ses[s].out \o pc["packet"].ms
  \/ Lines /\ pc["packet"].s = s /\ ses'[s].out = Append(ses[s].out, pc["packet"].ms)
  \/ \E w \in Workers : Pops(w) /\ pc[w].s = s /\ ses[s].out # <<>> /\ ses'[s].out = Tail(ses[s].out)
  \/ /\ Advances /\ pc["sender"].s = s
     /\ ses'[s].out = LET ms == pc["sender"].ms IN
                        IF IsPrefix(ms, ses[s].out) THEN SubSeq(ses[s].out, Len(ms) + 1, Len(ses[s].out)) ELSE <<Stale>>
  \/ (\E t \in Closers : Clears(t) /\ s = pc[t].s) /\ ses'[s].sock = None
LEMMA OutChanges ==
    ASSUME TypeOK, SesMoves, NEW s \in Slots
    PROVE  OutChange(s)
<1>1. CASE OutStays
  BY <1>1 DEF OutStays, OutChange
<1>2. CASE Puts
  <2> DEFINE x == ses[pc["packet"].s].out \o pc["packet"].ms
  <2>1. pc["packet"].s \in Slots
    BY <1>2, AnswerText
  <2>2. ses' = [ses EXCEPT ![pc["packet"].s].out = x]
    BY <1>2 DEF Puts
  <2>3. ses'[s].out = (IF s = pc["packet"].s THEN x ELSE ses[s].out)
    <3> HIDE DEF x
    <3>1. SetsOut(pc["packet"].s, x)
      BY <2>2 DEF SetsOut
    <3>2. QED
      BY <2>1, <3>1, OutSet
  <2>4. QED
    BY <1>2, <2>3 DEF OutChange
<1>3. CASE Lines
  <2> DEFINE x == Append(ses[pc["packet"].s].out, pc["packet"].ms)
  <2>1. pc["packet"].s \in Slots
    BY <1>3, LineText
  <2>2. ses' = [ses EXCEPT ![pc["packet"].s].out = x]
    BY <1>3 DEF Lines, EnqueueSendData06
  <2>3. ses'[s].out = (IF s = pc["packet"].s THEN x ELSE ses[s].out)
    <3> HIDE DEF x
    <3>1. SetsOut(pc["packet"].s, x)
      BY <2>2 DEF SetsOut
    <3>2. QED
      BY <2>1, <3>1, OutSet
  <2>4. QED
    BY <1>3, <2>3 DEF OutChange
<1>4. ASSUME NEW w \in Workers, Pops(w)
      PROVE  OutChange(s)
  <2> DEFINE x == Tail(ses[pc[w].s].out)
  <2>1. pc[w].s \in Slots /\ ses[pc[w].s].out # <<>>
    BY <1>4, PopText
  <2>2. ses' = [ses EXCEPT ![pc[w].s].out = x]
    BY <1>4 DEF Pops, SendCompleted06
  <2>3. ses'[s].out = (IF s = pc[w].s THEN x ELSE ses[s].out)
    <3> HIDE DEF x
    <3>1. SetsOut(pc[w].s, x)
      BY <2>2 DEF SetsOut
    <3>2. QED
      BY <2>1, <3>1, OutSet
  <2>4. QED
    BY <1>4, <2>1, <2>3 DEF OutChange
<1>5. CASE Advances
  <2> DEFINE r == pc["sender"].s
  <2> DEFINE ms == pc["sender"].ms
  <2> DEFINE x == IF IsPrefix(ms, ses[r].out) THEN SubSeq(ses[r].out, Len(ms) + 1, Len(ses[r].out)) ELSE <<Stale>>
  <2>1. r \in Slots
    BY <1>5, SenderFacts DEF Advances, At
  <2>2. ses' = [ses EXCEPT ![r].out = x]
    BY <1>5 DEF Advances, MoveFront05
  <2>3. ses'[s].out = (IF s = r THEN x ELSE ses[s].out)
    <3> HIDE DEF x, r
    <3>1. SetsOut(r, x)
      BY <2>2 DEF SetsOut
    <3>2. QED
      BY <2>1, <3>1, OutSet
  <2>4. QED
    BY <1>5, <2>3 DEF OutChange
<1>6. ASSUME NEW t \in Closers, NEW r \in Slots, Clears(t), r = pc[t].s
      PROVE  OutChange(s)
  <2>1. ses'[r].sock = None /\ \A x \in Slots \ {r} : ses'[x] = ses[x]
    BY <1>6, ClearsAfter
  <2>2. CASE r = s
    BY <1>6, <2>1, <2>2 DEF OutChange
  <2>3. CASE r # s
    BY <2>1, <2>3 DEF OutChange
  <2>4. QED
    BY <2>2, <2>3
<1>7. QED
  BY <1>1, <1>2, <1>3, <1>4, <1>5, <1>6 DEF SesMoves, Clearing

(* What is known of the sends of a session that has a socket.              *)
SendTold(s) ==
  /\ ver \in Ringed => /\ ~ses[s].sending => NoSend(s)
                       /\ Calling(s) => ses[s].sending /\ NoSend(s)
  /\ ver = "06" /\ ses[s].out = <<>> => NoSend(s)

LEMMA SendRoom ==
    ASSUME TypeOK, ver \in Queued, NEW s \in Slots, ses[s].sock # None => SendTold(s)
    PROVE  Room(s)
<1>1. SUFFICES ASSUME NEW t \in Threads, NEW ms \in Text, Sending(t, s, ms), Live(s)
               PROVE  NoSend(s) \/ \E w \in SendHolders(s) : w \notin SendHolders(s)'
  BY DEF Room
<1>2. SendTold(s)
  BY <1>1 DEF Live
<1>3. CASE t \in Workers /\ Pops(t)
  <2>1. t \in SendHolders(s)
    BY <1>1, <1>3 DEF Sending, Pops, SendCompleted06, SendHolders, SendDone, At
  <2>2. Rests(t)
    BY <1>3, RestIs DEF Pops, SendCompleted06
  <2>3. pc'[t].s = None /\ None \notin Slots
    BY <2>2, PcAfter, SlotFacts
  <2>4. t \notin SendHolders(s)'
    BY <2>3 DEF SendHolders, SendDone
  <2>5. QED
    BY <2>1, <2>4
<1>4. CASE Lines /\ ses[s].out = <<>>
  BY <1>2, <1>4 DEF Lines, SendTold
<1>5. ASSUME NEW told \in BOOLEAN, t = "sender", Posts(told)
      PROVE  NoSend(s)
  <2>1. ver \in Ringed
    BY <1>5 DEF Posts, SendsAt, Ringed
  <2>2. Calling(s)
    BY <1>1, <1>5, PostGoes DEF Sending, Calling
  <2>3. QED
    BY <1>2, <2>1, <2>2 DEF SendTold
<1>6. QED
  BY <1>1, <1>3, <1>4, <1>5 DEF Sending, Echoes, Answers, Queued, OneBuffer

LEMMA EmptySingle ==
    ASSUME NEW s, NoSend(s)
    PROVE  OneSent(s)
<1>1. Empty(SendsOf, SendOps(s), port, SendsDone(s), SendHolders(s))
  BY DEF NoSend
<1>2. \A v, w \in SendHolders(s) : v = w
  BY <1>1 DEF Empty
<1>3. QED
  BY <1>1, <1>2, TokenTaken DEF OneSent

(* Who frees a session for the next send is done with the last one.        *)
LEMMA FreesSend ==
    ASSUME TypeOK, Known, NEW s \in Slots, OneSent(s), NEW w \in Workers, pc[w].s = s, Frees(w)
    PROVE  NoSend(s)' /\ w \in SendHolders(s)
<1>1. w \in SendHolders(s)
  BY DEF Frees, SendHolders, SendDone, At
<1>2. Rests(w)
  BY DEF Frees
<1>3. pc'[w].s = None /\ None \notin Slots
  BY <1>2, PcAfter, SlotFacts, ThreadFacts
<1>4. w \notin SendHolders(s)'
  BY <1>3 DEF SendHolders, SendDone
<1>5. port' = port /\ conn' = conn
  BY DEF Frees, net
<1>6. QED
  BY <1>1, <1>4, <1>5, SendDropped

(* is_sending_ tells whether the ring's send is under way.                 *)
LEMMA RingTold ==
    ASSUME TypeOK, Known, UNCHANGED ver, NEW s \in Slots, ver \in Ringed, OneSent(s), SendTold(s), ses'[s].sock # None
    PROVE  SendTold(s)'
<1>0. SesMoves
  BY SesMove
<1>1. (~ses[s].sending => NoSend(s)) /\ (Calling(s) => ses[s].sending /\ NoSend(s))
  BY DEF SendTold
<1>2. ~\E t \in Closers : Clears(t) /\ pc[t].s = s
  BY ClearsAfter
<1>3. \A t \in Threads : \A ms \in Text : Sending(t, s, ms) =>
        t = "sender" /\ Calling(s) /\ pc'["sender"].at = "movefront"
  <2>1. ASSUME NEW t \in Threads, NEW ms \in Text, Sending(t, s, ms)
        PROVE  t = "sender" /\ \E told \in BOOLEAN : Posts(told)
    BY <2>1 DEF Sending, Echoes, Pops, Answers, Lines, Ringed, OneBuffer
  <2>2. ASSUME NEW t \in Threads, NEW ms \in Text, Sending(t, s, ms)
        PROVE  t = "sender" /\ Calling(s) /\ pc'["sender"].at = "movefront"
    BY <2>1, <2>2, PostGoes DEF Calling, Sending
  <2>3. QED
    BY <2>2
<1>4. ~Calling(s) => NoPosting(s)
  BY <1>3 DEF NoPosting
<1>5. ASSUME ~ses'[s].sending
      PROVE  NoSend(s)'
  <2>1. CASE ses'[s].sending = ses[s].sending
    <3>1. NoSend(s) /\ ~Calling(s)
      BY <1>1, <1>5, <2>1
    <3>2. QED
      BY <1>4, <3>1, SendsKept DEF SendsSame
  <2>2. CASE \E w \in Workers : Frees(w) /\ pc[w].s = s
    BY <2>2, FreesSend
  <2>3. QED
    BY <1>0, <1>2, <1>5, <2>1, <2>2, SendingChanges
<1>6. ASSUME Calling(s)'
      PROVE  ses'[s].sending /\ NoSend(s)'
  <2>1. pc'["sender"].at \in {"wsasend", "send"} /\ pc'["sender"].s = s
    BY <1>6 DEF Calling
  <2>2. NoPosting(s)
    BY <1>3, <2>1 DEF NoPosting
  <2>3. "sender" \in Threads \ {"main"} /\ FirstStep("sender") = "scan"
    BY ThreadFacts
  <2>4. CASE Calling(s)
    <3>1. ses[s].sending /\ NoSend(s)
      BY <1>1, <2>4
    <3>2. NoSend(s)'
      BY <2>2, <3>1, SendsKept DEF SendsSame
    <3>3. ~\E w \in Workers : Frees(w) /\ pc[w].s = s
      BY <3>1, FreesSend DEF NoSend, Empty
    <3>4. ses'[s].sending
      BY <1>0, <1>2, <3>1, <3>3, SendingChanges
    <3>5. QED
      BY <3>2, <3>4
  <2>5. CASE Acts("sender") /\ ~Calling(s)
    <3>1. pc'["sender"].at = "wsasend"
      BY <2>1, <2>5, RingGoes DEF Checks, Calling, At
    <3>2. Claims /\ pc["sender"].s = s
      BY <2>1, <2>5, <3>1, RingGoes
    <3>3. ~ses[s].sending
      BY <3>2 DEF Claims
    <3>4. NoSend(s)'
      BY <1>1, <2>2, <3>3, SendsKept DEF SendsSame
    <3>5. ses' = [ses EXCEPT ![s].sending = TRUE] /\ ses \in [Slots -> SesRec]
      BY <3>2 DEF Claims, TypeOK, SesOK
    <3>6. ses'[s].sending
      BY <3>5 DEF SesRec
    <3>7. QED
      BY <3>4, <3>6
  <2>6. QED
    BY <2>1, <2>3, <2>4, <2>5, PcMove DEF Calling
<1>7. QED
  BY <1>5, <1>6 DEF SendTold, Ringed

(* The queue of sends is not empty while a send is under way.              *)
LEMMA QueueTold ==
    ASSUME TypeOK, Known, UNCHANGED ver, NEW s \in Slots, ver = "06", OneSent(s), SendTold(s), ses'[s].sock # None
    PROVE  SendTold(s)'
<1>0. OutChange(s) /\ ver \notin Ringed
  BY SesMove, OutChanges DEF Ringed
<1>1. SUFFICES ASSUME ses'[s].out = <<>>
               PROVE  NoSend(s)'
  BY <1>0, <1>1 DEF SendTold
<1>2. ~\E t \in Closers : Clears(t) /\ s = pc[t].s
  BY <1>1, ClearsAfter
<1>3. CASE \E w \in Workers : Pops(w) /\ pc[w].s = s
  <2>1. PICK w \in Workers : Pops(w) /\ pc[w].s = s
    BY <1>3
  <2>2. w \in SendHolders(s)
    BY <2>1 DEF Pops, SendCompleted06, SendHolders, SendDone, At
  <2>3. Rests(w)
    BY <2>1, RestIs, ThreadFacts DEF Pops, SendCompleted06
  <2>4. pc'[w].s = None /\ None \notin Slots
    BY <2>3, PcAfter, SlotFacts, ThreadFacts
  <2>5. w \notin SendHolders(s)'
    BY <2>4 DEF SendHolders, SendDone
  <2>6. ses' = [ses EXCEPT ![s].out = Tail(ses[s].out)] /\ ses \in [Slots -> SesRec]
    BY <2>1 DEF Pops, SendCompleted06, TypeOK, SesOK
  <2>7. ses'[s].out = Tail(ses[s].out)
    BY <2>6 DEF SesRec
  <2>8. Tail(ses[s].out) = <<>>
    BY <1>1, <2>7
  <2>9. port' = port /\ conn' = conn
    BY <2>1, <2>8 DEF Pops, SendCompleted06
  <2>10. QED
    BY <2>2, <2>5, <2>9, SendDropped
<1>4. CASE ~\E w \in Workers : Pops(w) /\ pc[w].s = s
  <2>1. ~(Lines /\ pc["packet"].s = s)
    <3>1. SUFFICES ASSUME Lines, pc["packet"].s = s PROVE FALSE
      OBVIOUS
    <3> DEFINE q == ses[s].out
    <3> DEFINE x == pc["packet"].ms
    <3>2. q \in Seq(Text) /\ x \in Text
      BY <3>1, LineText
    <3>3. ses' = [ses EXCEPT ![s].out = Append(q, x)] /\ ses \in [Slots -> SesRec]
      BY <3>1 DEF Lines, EnqueueSendData06, TypeOK, SesOK
    <3>4. ses'[s].out = Append(q, x)
      BY <3>3 DEF SesRec
    <3> HIDE DEF q, x
    <3>5. Len(Append(q, x)) = Len(q) + 1 /\ Len(q) \in Nat
      BY <3>2, SeqAppend
    <3>6. Len(<<>>) = 0
      OBVIOUS
    <3>7. QED
      BY <1>1, <3>4, <3>5, <3>6
  <2>2. ses[s].out = <<>>
    BY <1>0, <1>1, <1>2, <1>4, <2>1 DEF OutChange, Puts, Advances
  <2>3. NoSend(s)
    BY <2>2 DEF SendTold
  <2>4. NoPosting(s)
    BY <1>4, <2>1 DEF NoPosting, Sending, Echoes, Answers, Posts, SendsAt, OneBuffer
  <2>5. QED
    BY <2>3, <2>4, SendsKept DEF SendsSame
<1>5. QED
  BY <1>3, <1>4

(* A step keeps SendInv.                                                   *)
LEMMA SendStep ==
    ASSUME TypeOK, SendInv, Known, UNCHANGED ver
    PROVE  SendInv'
<1>0. SesMoves
  BY SesMove
<1>1. SUFFICES ASSUME ~Overlapped', ver \in Queued, NEW s \in Slots
               PROVE  OneSent(s)' /\ (ses'[s].sock # None => SendTold(s)')
  <2>1. Slots' = Slots
    BY <1>0 DEF SesMoves
  <2>2. QED
    BY <1>1, <2>1 DEF SendInv, SendTold
<1>2. CASE Accepts(s) \/ KernelAccepts(s)
  <2>1. NewSlot(s)' /\ NoSend(s)'
    BY <1>1, <1>2, AcceptedFresh
  <2>2. OneSent(s)'
    <3>1. Empty(SendsOf', SendOps(s)', port', SendsDone(s)', SendHolders(s)')
      BY <2>1 DEF NoSend
    <3>2. \A v, w \in SendHolders(s)' : v = w
      BY <3>1 DEF Empty
    <3>3. Single(SendsOf', SendOps(s)', port', SendsDone(s)', SendHolders(s)')
      BY <3>1, <3>2, TokenTaken
    <3>4. QED
      BY <3>3 DEF OneSent
  <2>3. ~Calling(s)'
    BY <2>1, ThreadFacts DEF NewSlot, Calling
  <2>4. QED
    BY <2>1, <2>2, <2>3 DEF SendTold
<1>3. CASE ~(Accepts(s) \/ KernelAccepts(s))
  <2>1. ses'[s].sock # None => ses[s].sock # None
    BY <1>0, <1>3, SockChanges
  <2>2. ~Overlapped
    BY <1>1, MarksGrow DEF Overlapped
  <2>3. OneSent(s) /\ (ses[s].sock # None => SendTold(s))
    BY <1>1, <2>2 DEF SendInv, SendTold
  <2>4. OneSent(s)'
    BY <1>1, <2>3, SendRoom, SendsKept DEF SendsSame
  <2>5. ver \in Ringed \/ ver = "06"
    BY <1>1 DEF Queued, Ringed
  <2>6. QED
    BY <2>1, <2>3, <2>4, <2>5, RingTold, QueueTold
<1>4. QED
  BY <1>2, <1>3

(* One token makes at most one member of Sends(s).                         *)
LEMMA OneSendIs ==
    ASSUME TypeOK, NEW s \in Slots, OneSent(s)
    PROVE  Cardinality(Sends(s)) <= 1
<1> DEFINE A == SendOps(s)
<1> DEFINE B == SendsDone(s)
<1> DEFINE W == SendHolders(s)
<1> DEFINE P(c) == {<<"pending", c, i>> : i \in {j \in DOMAIN conn[c].sends : conn[c].sends[j].s = s}}
<1> DEFINE Q == {<<"port", i>> : i \in {j \in DOMAIN port : port[j].s = s /\ port[j].op = "send"}}
<1> DEFINE H == {<<"worker", w>> : w \in {v \in Workers : SendDone(v, s)}}
<1>1. DOMAIN SendsOf = Conns /\ \A c \in Conns : SendsOf[c] = conn[c].sends /\ SendsOf[c] \in Seq(Op)
  BY IoFamilies
<1>2. Single(SendsOf, A, port, B, W)
  BY DEF OneSent
<1>3. /\ \A c \in Conns : OneIn(conn[c].sends, A)
      /\ \A c, d \in Conns : c # d => NoneIn(conn[c].sends, A) \/ NoneIn(conn[d].sends, A)
      /\ OneIn(port, B) /\ \A v, w \in W : v = w
      /\ (\A c \in Conns : NoneIn(conn[c].sends, A)) \/ (NoneIn(port, B) /\ W = {})
      /\ NoneIn(port, B) \/ W = {}
  <2> HIDE DEF A, B, W
  <2>1. QED
    BY <1>1, <1>2 DEF Single
<1>4. \A i \in DOMAIN port : port[i] \in Completion
  <2>1. port \in Seq(Completion)
    BY DEF TypeOK, PortOK
  <2>2. QED
    BY <2>1
<1>5. \A i \in DOMAIN port : port[i].s = s /\ port[i].op = "send" => port[i] \in B
  BY <1>4 DEF SendsDone
<1>6. \A v \in Workers : SendDone(v, s) => v \in W
  BY DEF SendHolders
<1>7. \A c \in Conns : \A i \in DOMAIN conn[c].sends : conn[c].sends[i].s = s => conn[c].sends[i] \in A
  <2>1. \A c \in Conns : conn[c].sends \in Seq(Op)
    BY <1>1
  <2>2. \A c \in Conns : \A i \in DOMAIN conn[c].sends : conn[c].sends[i] \in Op
    BY <2>1
  <2>3. QED
    BY <2>2 DEF SendOps
<1> HIDE DEF A, B, W
<1>8. ASSUME NEW c \in Conns, P(c) # {}
      PROVE  ~NoneIn(conn[c].sends, A)
  BY <1>7, <1>8 DEF NoneIn
<1>9. Q # {} => ~NoneIn(port, B)
  BY <1>5 DEF NoneIn
<1>10. H # {} => W # {}
  BY <1>6
<1>11. \A c \in Conns : \A x, y \in P(c) : x = y
  BY <1>3, <1>7 DEF OneIn
<1>12. \A x, y \in Q : x = y
  BY <1>3, <1>5 DEF OneIn
<1>13. \A x, y \in H : x = y
  BY <1>3, <1>6
<1>14. ASSUME NEW x \in Sends(s)
       PROVE  (\E c \in Conns : x \in P(c)) \/ x \in Q \/ x \in H
  <2> DEFINE F == {P(c) : c \in Conns}
  <2>1. Sends(s) = (UNION F) \cup Q \cup H
    BY DEF Sends
  <2>2. \A y \in F : \E c \in Conns : y = P(c)
    OBVIOUS
  <2> HIDE DEF F, P, Q, H
  <2>3. x \in (UNION F) \cup (Q \cup H)
    BY <2>1
  <2>4. x \in UNION F \/ x \in Q \/ x \in H
    BY <2>3
  <2>5. QED
    BY <2>2, <2>4
<1> HIDE DEF P, Q, H
<1>15. \A c, d \in Conns : P(c) # {} /\ P(d) # {} => c = d
  BY <1>3, <1>8
<1>16. (\A c \in Conns : P(c) = {}) \/ (Q = {} /\ H = {})
  BY <1>3, <1>8, <1>9, <1>10
<1>17. Q = {} \/ H = {}
  BY <1>3, <1>9, <1>10
<1>18. ASSUME NEW x \in Sends(s), NEW y \in Sends(s)
       PROVE  x = y
  <2>1. (\E c \in Conns : x \in P(c)) \/ x \in Q \/ x \in H
    BY <1>14
  <2>2. (\E c \in Conns : y \in P(c)) \/ y \in Q \/ y \in H
    BY <1>14
  <2>3. CASE \E c \in Conns : x \in P(c)
    <3>1. PICK c \in Conns : x \in P(c)
      BY <2>3
    <3>2. Q = {} /\ H = {}
      BY <1>16, <3>1
    <3>3. PICK d \in Conns : y \in P(d)
      BY <2>2, <3>2
    <3>4. c = d
      BY <1>15, <3>1, <3>3
    <3>5. QED
      BY <1>11, <3>1, <3>3, <3>4
  <2>4. CASE x \in Q \/ x \in H
    <3>1. \A c \in Conns : P(c) = {}
      BY <1>16, <2>4
    <3>2. y \in Q \/ y \in H
      BY <2>2, <3>1
    <3>3. QED
      BY <1>12, <1>13, <1>17, <2>4, <3>2
  <2>5. QED
    BY <2>1, <2>3, <2>4
<1>19. QED
  BY <1>18, AtMostOne

(* Practices with a ring or a queue of sends never have two sends of a     *)
(* session under way: is_sending_ (05, 07) and the queue that is not empty *)
(* (06) tell of the one that is (SendInv), while no worker of Practice07   *)
(* misreads op_type_.                                                      *)
THEOREM EchoOneSend == Spec => []OneSend
<1>1. EchoInit => SendInv
  <2>1. SUFFICES ASSUME EchoInit, NEW s \in Slots
                 PROVE  OneSent(s) /\ ses[s].sock = None
    BY DEF SendInv
  <2>2. \A c \in DOMAIN SendsOf : SendsOf[c] = <<>>
    BY <2>1, InitFacts DEF SendsOf
  <2>3. port = <<>> /\ ses[s].sock = None
    BY <2>1, InitFacts
  <2>4. SendHolders(s) = {}
    BY <2>1, InitFacts, ThreadFacts DEF SendHolders, SendDone
  <2>5. DOMAIN <<>> = {}
    OBVIOUS
  <2>6. NoSend(s)
    BY <2>2, <2>3, <2>4, <2>5 DEF NoSend, Empty, NoneIn
  <2>7. QED
    BY <2>3, <2>6, EmptySingle
<1>2. TypeOK /\ StartInv /\ SendInv /\ [Next]_<<vars, ver>> => SendInv'
  <2>1. SUFFICES ASSUME TypeOK, StartInv, SendInv, [Next]_<<vars, ver>>
                 PROVE  SendInv'
    OBVIOUS
  <2>2. UNCHANGED ver /\ (Known \/ (\E w \in Workers : Misreads(w)) \/ UNCHANGED <<vars, ver>>)
    BY <2>1, NextIs
  <2>3. CASE Known
    BY <2>1, <2>2, <2>3, SendStep
  <2>4. CASE \E w \in Workers : Misreads(w)
    BY <2>4 DEF Misreads, SendInv, Overlapped
  <2>5. CASE UNCHANGED <<vars, ver>>
    <3>1. UNCHANGED <<conn, accepts, port, ses, pc, marks, deque, ver>>
      BY <2>5 DEF vars, net, mem, hist
    <3>2. \A s : (OneSent(s)' <=> OneSent(s)) /\ (NoSend(s)' <=> NoSend(s)) /\ (Calling(s)' <=> Calling(s))
      BY <3>1 DEF OneSent, NoSend, Single, Empty, NoneIn, OneIn, SendsOf, SendHolders, SendsDone, SendOps, SendDone, Calling
    <3>3. QED
      BY <2>1, <3>1, <3>2 DEF SendInv, Overlapped, Slots
  <2>6. QED
    BY <2>2, <2>3, <2>4, <2>5
<1>3. TypeOK /\ SendInv => OneSend
  BY OneSendIs DEF SendInv, OneSend, Overlapped
<1>4. QED
  BY <1>1, <1>2, <1>3, EchoTypes, PTL DEF Spec

-----------------------------------------------------------------------------
(* Whose the words are *)

(* Whose an operation is stays so while no connection is accepted for the  *)
(* session.                                                                *)
LEMMA OwnedKept ==
    ASSUME TypeOK, SockInv, ShutInv, Known, ~Overlapped, NEW s \in Slots, NEW c \in Conns, OwnedBy(s, c),
           ~(Accepts(s) \/ KernelAccepts(s))
    PROVE  OwnedBy(s, c)'
<1>1. SesMoves /\ ConnMoves(c)
  BY SesMove, ConnMove, CallsKnown
<1>2. CASE ses'[s].sock = ses[s].sock
  BY <1>1, <1>2 DEF OwnedBy, ConnMoves
<1>3. ASSUME NEW t \in Closers, Clears(t), s = pc[t].s, ses'[s].sock = None
      PROVE  OwnedBy(s, c)'
  <2>1. ses[s].sock = c => conn[c].st = "closed"
    <3>1. At(t, "clear")
      BY <1>3 DEF Clears
    <3>2. c # None
      BY DEF Conns, None
    <3>3. QED
      BY <1>3, <3>1, <3>2 DEF ShutInv
  <2>2. conn[c].st = "closed"
    BY <2>1 DEF OwnedBy
  <2>3. QED
    BY <1>1, <1>3, <2>2 DEF ConnMoves, OwnedBy
<1>4. QED
  BY <1>1, <1>2, <1>3, SockChanges

(* A step keeps OwnInv: an operation is posted on its session's socket,    *)
(* and the socket of a session is taken away when it is closed.            *)
LEMMA OwnStep ==
    ASSUME TypeOK, SockInv, ShutInv, OwnInv, Known
    PROVE  OwnInv'
<1>1. SUFFICES ASSUME ~Overlapped', NEW c \in Conns
               PROVE  /\ \A i \in DOMAIN conn'[c].recvs : \A s : s = conn'[c].recvs[i] => OwnedBy(s, c)'
                      /\ \A i \in DOMAIN conn'[c].sends : \A s : s = conn'[c].sends[i].s => OwnedBy(s, c)'
  BY DEF OwnInv, OwnedBy
<1>2. ~Overlapped
  BY <1>1, MarksGrow DEF Overlapped
<1>3. /\ \A i \in DOMAIN conn[c].recvs : OwnedBy(conn[c].recvs[i], c)
      /\ \A i \in DOMAIN conn[c].sends : OwnedBy(conn[c].sends[i].s, c)
  BY <1>2 DEF OwnInv
<1>4. /\ \A i \in DOMAIN conn[c].recvs : conn[c].recvs[i] \in Slots
      /\ \A i \in DOMAIN conn[c].sends : conn[c].sends[i].s \in Slots
  BY DEF TypeOK, OpsOK
<1>5. ASSUME NEW i \in DOMAIN conn'[c].recvs, NEW s, s = conn'[c].recvs[i]
      PROVE  OwnedBy(s, c)'
  <2>1. s \in Slots /\ OwnedBy(s, c)
    <3>1. CASE \E j \in DOMAIN conn[c].recvs : s = conn[c].recvs[j]
      BY <1>3, <1>4, <1>5, <3>1
    <3>2. CASE \E r \in Slots : r = s /\ RecvPosts(r) /\ Live(r) /\ c = ses[r].sock
      BY <3>2 DEF OwnedBy
    <3>3. QED
      BY <1>5, <3>1, <3>2, RecvComes
  <2>2. ~(Accepts(s) \/ KernelAccepts(s))
    BY <1>1, <1>5, <2>1, AcceptedFresh DEF NewSlot
  <2>3. QED
    BY <1>2, <2>1, <2>2, OwnedKept
<1>6. ASSUME NEW i \in DOMAIN conn'[c].sends, NEW s, s = conn'[c].sends[i].s
      PROVE  OwnedBy(s, c)'
  <2>1. s \in Slots /\ OwnedBy(s, c)
    <3>1. CASE \E j \in DOMAIN conn[c].sends : conn'[c].sends[i] = conn[c].sends[j]
      BY <1>3, <1>4, <1>6, <3>1
    <3>2. CASE \E r \in Slots : r = s /\ Live(r) /\ c = ses[r].sock
      BY <3>2 DEF OwnedBy
    <3>3. CASE \E j \in DOMAIN conn[c].sends : conn[c].sends[j].s = s
      BY <1>3, <1>4, <3>3
    <3>4. QED
      BY <1>6, <3>1, <3>2, <3>3, SendComes
  <2>2. ~(Accepts(s) \/ KernelAccepts(s))
    BY <1>1, <1>6, <2>1, AcceptedFresh DEF NewSlot
  <2>3. QED
    BY <1>2, <2>1, <2>2, OwnedKept
<1>7. QED
  BY <1>5, <1>6

WordsMove(c) ==
  /\ conn'[c].st = "open" => conn[c].st \in {"open", "backlog"}
  /\ conn'[c].said = conn[c].said \/ (Say(c) /\ conn'[c].said = conn[c].said + 1)
  /\ conn'[c].heard = conn[c].heard \/ (Sent(c) /\ conn'[c].heard = conn[c].heard \o Head(conn[c].sends).ms)

(* A client says one word at a time and hears what a send carries.         *)
LEMMA WordsMoved ==
    ASSUME TypeOK, Calls, NEW c \in Conns
    PROVE  WordsMove(c)
<1>0. conn \in [Conns -> ConnRec] /\ conn[c] \in ConnRec
  BY DEF TypeOK, ConnOK
<1>1. ASSUME conn'[c] = conn[c]
      PROVE  WordsMove(c)
  BY <1>1 DEF WordsMove
<1>2. CASE \E d \in Conns : Connect(d) \/ Say(d) \/ Quit(d) \/ Sent(d) \/ Abort(d)
  <2>1. PICK d \in Conns : Connect(d) \/ Say(d) \/ Quit(d) \/ Sent(d) \/ Abort(d)
    BY <1>2
  <2>2. CASE c # d
    BY <1>0, <1>1, <2>1, <2>2 DEF Connect, Say, Quit, Sent, Abort
  <2>3. CASE c = d /\ (Connect(d) \/ Quit(d))
    BY <1>0, <2>3 DEF Connect, Quit, ConnRec, WordsMove
  <2>4. CASE c = d /\ (Say(d) \/ Sent(d) \/ Abort(d))
    <3>1. PICK e \in Completion : Arrives(c, e)
      BY <2>4, EnvDone
    <3>2. QED
      BY <3>1 DEF Arrives, WordsMove
  <2>5. QED
    BY <2>1, <2>2, <2>3, <2>4
<1>3. CASE AcceptFailed \/ \E s \in Slots : Accepted("accepter", s) \/ Accepted("kernel", s)
  <2>1. PICK l \in {"open", "closed"} : /\ Caller \in Conns /\ conn[Caller].st \in {"reset", "backlog"}
                                        /\ l = "open" => conn[Caller].st = "backlog"
                                        /\ conn' = [conn EXCEPT ![Caller].st = l]
    BY <1>3, CallerFacts DEF Accepted, AcceptFailed
  <2>2. CASE c # Caller
    BY <1>0, <1>1, <2>1, <2>2
  <2>3. CASE c = Caller
    BY <1>0, <2>1, <2>3 DEF ConnRec, WordsMove
  <2>4. QED
    BY <2>2, <2>3
<1>4. ASSUME NEW s \in Slots, closesocket(s)
      PROVE  WordsMove(c)
  <2>1. CASE ses[s].sock = None \/ c # ses[s].sock
    BY <1>0, <1>1, <1>4, <2>1 DEF closesocket
  <2>2. CASE ses[s].sock # None /\ c = ses[s].sock
    BY <1>0, <1>4, <2>2 DEF closesocket, ConnRec, WordsMove
  <2>3. QED
    BY <2>1, <2>2
<1>5. ASSUME NEW s \in Slots, NEW ok \in BOOLEAN, WSARecv(s, ok) \/ \E ms \in Text : WSASend(s, ms, ok)
      PROVE  WordsMove(c)
  <2>1. CASE conn'[c] = conn[c]
    BY <1>1, <2>1
  <2>2. CASE conn'[c] # conn[c]
    <3>1. ok /\ c = ses[s].sock
      BY <1>0, <1>5, <2>2 DEF WSARecv, WSASend
    <3>2. CASE WSARecv(s, ok)
      BY <1>0, <3>1, <3>2 DEF WSARecv, ConnRec, WordsMove
    <3>3. CASE \E ms \in Text : WSASend(s, ms, ok)
      BY <1>0, <3>1, <3>3 DEF WSASend, ConnRec, WordsMove
    <3>4. QED
      BY <1>5, <3>2, <3>3
  <2>3. QED
    BY <2>1, <2>2
<1>6. ASSUME NEW s \in Slots, NEW ok \in BOOLEAN, NEW ms \in Text, SendMsg01(s, ms, ok)
      PROVE  WordsMove(c)
  <2> DEFINE g == Overwritten01(s, ms)
  <2>1. g \in [Conns -> ConnRec] /\ g[c] = [conn[c] EXCEPT !.sends = Over(conn[c].sends, s, ms)]
    BY OverwrittenIs
  <2>2. g[c].st = conn[c].st /\ g[c].said = conn[c].said /\ g[c].heard = conn[c].heard
    BY <1>0, <2>1 DEF ConnRec
  <2>3. conn' = IF ok THEN [g EXCEPT ![ses[s].sock].sends = Append(@, [s |-> s, ms |-> ms])] ELSE g
    BY <1>6 DEF SendMsg01
  <2> HIDE DEF g
  <2>4. ASSUME NEW d, NEW x, conn' = [g EXCEPT ![d].sends = x]
        PROVE  conn'[c].st = g[c].st /\ conn'[c].said = g[c].said /\ conn'[c].heard = g[c].heard
    BY <2>1, <2>4 DEF ConnRec
  <2>5. conn'[c].st = g[c].st /\ conn'[c].said = g[c].said /\ conn'[c].heard = g[c].heard
    BY <2>3, <2>4
  <2>6. QED
    BY <2>2, <2>5 DEF WordsMove
<1>7. QED
  BY <1>1, <1>2, <1>3, <1>4, <1>5, <1>6 DEF Calls

(* Only Practice07 and later have completions of accepts.                  *)
LEMMA OpsStep ==
    ASSUME TypeOK, OpsInv, Known, UNCHANGED ver
    PROVE  OpsInv'
<1>1. SUFFICES ASSUME ver \notin Reusing
               PROVE  /\ \A i \in DOMAIN port' : port'[i].op # "accept"
                      /\ \A w \in Workers : pc'[w].at = "got" => pc'[w].op # "accept"
  BY DEF OpsInv, At
<1>2. port \in Seq(Completion) /\ \A i \in DOMAIN port : port[i].op # "accept"
  BY <1>1 DEF TypeOK, PortOK, OpsInv
<1>3. \A w \in Workers : Fetches(w) => /\ port # <<>> /\ port' = Tail(port) /\ Head(port).op # "accept"
                                       /\ pc'[w].at = "got" => pc'[w].op = Head(port).op
  <2>1. port # <<>> => Head(port).op # "accept"
    BY <1>2, SeqTail
  <2>2. QED
    BY <2>1, FetchGoes
<1>4. ASSUME NEW i \in DOMAIN port'
      PROVE  port'[i].op # "accept"
  <2>1. ASSUME NEW e \in Completion, port' = Append(port, e), e.op # "accept"
        PROVE  port'[i].op # "accept"
    BY <1>2, <1>4, <2>1, AppendOne
  <2>2. Token \in Completion /\ Token.op # "accept"
    BY DEF Token, Done, Completion, Text
  <2>3. ASSUME NEW c \in Conns, Say(c) \/ Sent(c) \/ Abort(c)
        PROVE  port'[i].op # "accept"
    BY <2>1, <2>3, EnvDone DEF Arrives
  <2>4. ASSUME NEW w \in Workers, Fetches(w)
        PROVE  port'[i].op # "accept"
    <3>1. port # <<>> /\ port' = Tail(port)
      BY <1>3, <2>4
    <3>2. QED
      BY <1>2, <1>4, <3>1, TailOne
  <2>5. ~KernelRefuses /\ \A s \in Slots : ~KernelAccepts(s)
    BY <1>1 DEF KernelRefuses, KernelAccepts
  <2>6. QED
    BY <1>2, <1>4, <2>1, <2>2, <2>3, <2>4, <2>5, PortMove DEF PortMoves
<1>5. ASSUME NEW w \in Workers, pc'[w].at = "got"
      PROVE  pc'[w].op # "accept"
  <2>1. w \in Threads \ {"main"}
    BY ThreadFacts
  <2>2. CASE Acts(w)
    BY <1>3, <1>5, <2>2, GotGoes
  <2>3. CASE pc'[w] = pc[w]
    BY <1>1, <1>5, <2>3 DEF OpsInv, At
  <2>4. CASE pc'[w].at \in {FirstStep(w), "begin"}
    BY <1>5, <2>4, ThreadFacts
  <2>5. QED
    BY <2>1, <2>2, <2>3, <2>4, PcMove
<1>6. QED
  BY <1>4, <1>5

(* An open connection of a session was its own before, unless it has just  *)
(* been accepted for it.                                                   *)
LEMMA StandsComes ==
    ASSUME TypeOK, SockInv, Known, NEW s \in Slots, Stands(s)', ~(Accepts(s) \/ KernelAccepts(s))
    PROVE  /\ Stands(s) /\ ses[s].sock \in Conns /\ ses'[s].sock = ses[s].sock /\ ses[s].sock # None
           /\ ~\E t \in Closers : Clears(t) /\ s = pc[t].s
<1>1. SesMoves /\ Calls
  BY SesMove, CallsKnown
<1>2. ses'[s].sock # None /\ conn'[ses'[s].sock].st = "open"
  BY DEF Stands
<1>3. ASSUME NEW t \in Closers, Clears(t), s = pc[t].s
      PROVE  FALSE
  BY <1>2, <1>3, ClearsAfter
<1>4. ses'[s].sock = ses[s].sock
  BY <1>1, <1>2, <1>3, SockChanges
<1>5. ses[s].sock \in Conns
  BY <1>2, <1>4, SesFacts
<1>6. conn[ses[s].sock].st \in {"open", "backlog"}
  BY <1>1, <1>2, <1>4, <1>5, WordsMoved DEF WordsMove
<1>7. conn[ses[s].sock].st \in {"open", "gone", "closed"}
  BY <1>2, <1>4 DEF SockInv
<1>8. QED
  BY <1>2, <1>3, <1>4, <1>5, <1>6, <1>7 DEF Stands

(* Words of one client, put together and taken apart, are its words.       *)
LEMMA MineCat ==
    ASSUME NEW c, NEW p \in Text, NEW q \in Text, Mine(p, c), Mine(q, c)
    PROVE  Mine(p \o q, c)
<1>1. SUFFICES ASSUME NEW i \in DOMAIN (p \o q)
               PROVE  (p \o q)[i].c = c
  BY DEF Mine
<1> DEFINE S == Msg
<1>2. p \in Seq(S) /\ q \in Seq(S)
  BY DEF Text
<1> HIDE DEF S
<1>3. /\ Len(p) \in Nat /\ Len(q) \in Nat /\ DOMAIN p = 1..Len(p) /\ DOMAIN q = 1..Len(q)
      /\ i \in 1..(Len(p) + Len(q))
      /\ (p \o q)[i] = IF i <= Len(p) THEN p[i] ELSE q[i - Len(p)]
  BY <1>1, <1>2
<1>4. QED
  BY <1>3 DEF Mine

LEMMA MineNone == \A c : Mine(<<>>, c)
<1>1. DOMAIN <<>> = {}
  OBVIOUS
<1>2. QED
  BY <1>1 DEF Mine

(* A new session has nobody's words.                                       *)
LEMMA OwnsNew ==
    ASSUME TypeOK', NEW s \in Slots', NEW c, NewSlot(s)'
    PROVE  Owns(s, c)'
<1>1. \A x : Mine(<<>>, x)
  BY MineNone
<1>2. ses'[s].out = <<>>
  BY DEF NewSlot, LeftBehind
<1>3. ~Advancing(s)'
  BY ThreadFacts DEF NewSlot, Advancing, Threads
<1>4. DOMAIN <<>> = {}
  OBVIOUS
<1>5. /\ \A t \in Threads : pc'[t].s = s => Mine(pc'[t].ms, c)
      /\ \A i \in DOMAIN port' : port'[i].s = s => Mine(port'[i].ms, c)
      /\ \A i \in DOMAIN deque' : deque'[i].s = s => Mine(deque'[i].ms, c)
      /\ \A d \in Conns : \A i \in DOMAIN conn'[d].sends : conn'[d].sends[i].s = s => Mine(conn'[d].sends[i].ms, c)
  BY <1>1 DEF NewSlot
<1>6. IF ver' = "06" THEN \A i \in DOMAIN ses'[s].out : Mine(ses'[s].out[i], c) ELSE Mine(ses'[s].out, c)
  BY <1>1, <1>2, <1>4
<1>7. QED
  BY <1>3, <1>5, <1>6 DEF Owns

(* What of a session an open connection's client said stays so.            *)
LEMMA OwnsLocals ==
    ASSUME TypeOK, TypeOK', Known, NEW s \in Slots, NEW c, Owns(s, c), NEW t \in Threads, pc'[t].s = s
    PROVE  Mine(pc'[t].ms, c)
<1>0. \A x : Mine(<<>>, x)
  BY MineNone
<1>1. s # None
  BY SlotFacts
<1>2. t # "main"
  BY <1>1 DEF TypeOK, PcOK
<1>3. CASE pc'[t].s = pc[t].s /\ pc'[t].ms = pc[t].ms
  BY <1>3 DEF Owns
<1>4. CASE pc'[t].ms = <<>>
  BY <1>0, <1>4
<1>5. CASE t \in Workers /\ Fetches(t) /\ port # <<>> /\ pc'[t].s = Head(port).s /\ pc'[t].ms = Head(port).ms
  <2>1. 1 \in DOMAIN port /\ Head(port) = port[1]
    <3>1. port \in Seq(Completion)
      BY DEF TypeOK, PortOK
    <3>2. QED
      BY <1>5, <3>1, SeqTail
  <2>2. QED
    BY <1>5, <2>1 DEF Owns
<1>6. CASE t = "packet" /\ Dequeues /\ pc'[t].s = Head(deque).s /\ pc'[t].ms = Head(deque).ms
  <2>1. 1 \in DOMAIN deque /\ Head(deque) = deque[1]
    <3>1. deque \in Seq([s : AllSlots, ms : Text]) /\ deque # <<>>
      BY <1>6 DEF TypeOK, QueuesOK, Dequeues
    <3>2. QED
      BY <3>1, SeqTail
  <2>2. QED
    BY <1>6, <2>1 DEF Owns
<1>7. CASE t = "sender" /\ pc'[t].s = pc[t].s /\ pc'[t].ms = ses[pc[t].s].out /\ \E told \in BOOLEAN : Posts(told)
  <2>1. ver # "06"
    BY <1>7 DEF Posts, SendsAt
  <2>2. QED
    BY <1>7, <2>1 DEF Owns
<1>8. QED
  BY <1>2, <1>3, <1>4, <1>5, <1>6, <1>7, LocalsGo DEF LocalsMove

LEMMA OwnsPort ==
    ASSUME TypeOK, OwnInv, ~Overlapped, Known, NEW s \in Slots, NEW c, Owns(s, c), Stands(s), ses[s].sock = c,
           ~KernelAccepts(s), NEW i \in DOMAIN port', port'[i].s = s
    PROVE  Mine(port'[i].ms, c)
<1>0. \A x : Mine(<<>>, x)
  BY MineNone
<1>1. CASE \E j \in DOMAIN port : port'[i] = port[j]
  BY <1>1 DEF Owns
<1>2. ASSUME NEW d \in Conns, NEW e, e = port'[i], Arrives(d, e), Say(d) \/ Sent(d) \/ Abort(d)
      PROVE  Mine(e.ms, c)
  <2>1. CASE e.op = "recv" /\ ~e.ok
    BY <1>0, <2>1, <1>2 DEF Arrives
  <2>2. CASE e.op = "recv" /\ e.ok
    <3>1. /\ e.ms = <<[c |-> d, n |-> conn[d].said + 1]>> /\ conn[d].recvs # <<>> /\ s = Head(conn[d].recvs)
          /\ conn[d].st = "open"
      BY <1>2, <2>2 DEF Arrives, Say
    <3>2. 1 \in DOMAIN conn[d].recvs /\ s = conn[d].recvs[1]
      BY <3>1, ConnFacts, SeqTail
    <3>3. OwnedBy(s, d)
      BY <3>2 DEF OwnInv
    <3>4. d = c
      BY <3>1, <3>3 DEF OwnedBy
    <3>5. QED
      BY <3>1, <3>4 DEF Mine
  <2>3. CASE e.op = "send"
    <3>1. conn[d].sends # <<>> /\ s = Head(conn[d].sends).s /\ e.ms = Head(conn[d].sends).ms
      BY <1>2, <2>3 DEF Arrives
    <3>2. 1 \in DOMAIN conn[d].sends /\ Head(conn[d].sends) = conn[d].sends[1]
      <4>1. conn[d].sends \in Seq(Op)
        BY ConnFacts DEF Op
      <4>2. QED
        BY <3>1, <4>1, SeqTail
    <3>3. QED
      BY <3>1, <3>2 DEF Owns
  <2>4. QED
    BY <1>2, <2>1, <2>2, <2>3 DEF Arrives
<1>3. QED
  BY <1>1, <1>2, PortComes

LEMMA OwnsDeque ==
    ASSUME TypeOK, Known, NEW s \in Slots, NEW c, Owns(s, c), NEW i \in DOMAIN deque', deque'[i].s = s
    PROVE  Mine(deque'[i].ms, c)
<1>0. \A x : Mine(<<>>, x)
  BY MineNone
<1>1. CASE \E j \in DOMAIN deque : deque'[i] = deque[j]
  BY <1>1 DEF Owns
<1>2. ASSUME NEW t \in Threads, deque'[i].s = pc[t].s, deque'[i].ms = <<>> \/ deque'[i].ms = pc[t].ms
      PROVE  Mine(deque'[i].ms, c)
  BY <1>0, <1>2 DEF Owns
<1>3. QED
  BY <1>1, <1>2, DequeComes

(* What is being sent for a session are its client's words.                *)
LEMMA OwnsSends ==
    ASSUME TypeOK, RecvInv, OpsInv, ~Overlapped, Known, NEW s \in Slots, NEW c, Owns(s, c), Stands(s),
           NEW d \in Conns, NEW i \in DOMAIN conn'[d].sends, conn'[d].sends[i].s = s
    PROVE  Mine(conn'[d].sends[i].ms, c)
<1>1. CASE \E j \in DOMAIN conn[d].sends : conn'[d].sends[i] = conn[d].sends[j]
  BY <1>1 DEF Owns
<1>2. ASSUME NEW t \in Threads, NEW ms \in Text, Sending(t, s, ms)
      PROVE  Mine(ms, c)
  <2>1. CASE t \in Workers /\ Echoes(t) /\ ms = Data01(t) /\ s = pc[t].s
    <3>1. ver \in OneBuffer /\ pc[t].at = "got" /\ (pc[t].op = "recv" \/ ~ses[s].typed)
      BY <2>1 DEF Echoes, Received01, At
    <3>2. pc[t].op # "send"
      <4>1. SUFFICES ASSUME pc[t].op = "send" PROVE FALSE
        OBVIOUS
      <4>2. NoSend(s)
        BY <3>1, <4>1 DEF RecvInv, Stands
      <4>3. t \in SendHolders(s)
        BY <2>1, <3>1, <4>1 DEF SendHolders, SendDone
      <4>4. QED
        BY <4>2, <4>3 DEF NoSend, Empty
    <3>3. pc[t].op # "accept"
      BY <2>1, <3>1 DEF OpsInv, OneBuffer, Reusing, At
    <3>4. pc[t].op \in {"recv", "send", "accept"}
      <4>1. t \in Threads \ {"main"}
        BY <2>1, ThreadFacts
      <4>2. Fits(t, pc[t])
        BY <4>1, PcFacts
      <4>3. QED
        BY <2>1, <3>1, <4>2 DEF Fits
    <3>5. ms = pc[t].ms
      BY <2>1, <3>2, <3>3, <3>4 DEF Data01
    <3>6. QED
      BY <2>1, <3>5 DEF Owns
  <2>2. CASE t \in Workers /\ Pops(t) /\ Tail(ses[s].out) # <<>> /\ ms = Head(Tail(ses[s].out)) /\ s = pc[t].s
    <3>1. ver = "06" /\ ses[s].out \in Seq(Text) /\ ses[s].out # <<>>
      BY <2>2, PopText DEF Pops
    <3>2. Tail(ses[s].out) \in Seq(Text) /\ 2 \in DOMAIN ses[s].out /\ ms = ses[s].out[2]
      BY <2>2, <3>1
    <3>3. QED
      BY <3>1, <3>2 DEF Owns
  <2>3. CASE t = "packet" /\ ms = pc[t].ms /\ s = pc[t].s
    BY <2>3 DEF Owns
  <2>4. CASE t = "sender" /\ (\E told \in BOOLEAN : Posts(told)) /\ ms = ses[s].out
    <3>1. ver # "06"
      BY <2>4 DEF Posts, SendsAt
    <3>2. QED
      BY <2>4, <3>1 DEF Owns
  <2>5. QED
    BY <1>2, <2>1, <2>2, <2>3, <2>4 DEF Sending
<1>3. QED
  BY <1>1, <1>2, SendComes

LEMMA MineSub ==
    ASSUME NEW c, NEW p \in Text, Mine(p, c), NEW k \in Nat
    PROVE  Mine(SubSeq(p, k + 1, Len(p)), c)
<1> DEFINE S == Msg
<1>1. p \in Seq(S)
  BY DEF Text
<1> HIDE DEF S
<1>2. \A i \in DOMAIN SubSeq(p, k + 1, Len(p)) : k + i \in DOMAIN p /\ SubSeq(p, k + 1, Len(p))[i] = p[k + i]
  <2>1. Len(p) \in Nat /\ DOMAIN p = 1..Len(p)
    BY <1>1
  <2>2. SubSeq(p, k + 1, Len(p)) = [i \in 1..(Len(p) - k) |-> p[k + i]]
    BY <1>1, <2>1
  <2>3. QED
    BY <2>1, <2>2
<1>3. QED
  BY <1>2 DEF Mine

(* What waits in a session to be sent are its client's words.              *)
LEMMA OwnsOut ==
    ASSUME TypeOK, Known, SesMoves, NEW s \in Slots, NEW c, Owns(s, c), ses'[s].sock # None, UNCHANGED ver
    PROVE  IF ver' = "06" THEN \A i \in DOMAIN ses'[s].out : Mine(ses'[s].out[i], c) ELSE Mine(ses'[s].out, c)
<1>1. /\ ver = "06" => ses[s].out \in Seq(Text)
      /\ ver # "06" => ses[s].out \in Text
  BY SesFacts
<1>2. CASE ses'[s].out = ses[s].out
  BY <1>2 DEF Owns
<1>3. CASE Puts /\ pc["packet"].s = s /\ ses'[s].out = ses[s].out \o pc["packet"].ms
  <2>1. ver # "06" /\ pc["packet"].ms \in Text
    BY <1>3, AnswerText DEF Puts
  <2>2. Mine(ses[s].out, c) /\ Mine(pc["packet"].ms, c)
    BY <1>3, <2>1, ThreadFacts DEF Owns
  <2>3. QED
    BY <1>1, <1>3, <2>1, <2>2, MineCat
<1>4. CASE Lines /\ pc["packet"].s = s /\ ses'[s].out = Append(ses[s].out, pc["packet"].ms)
  <2>1. ver = "06" /\ pc["packet"].ms \in Text
    BY <1>4, LineText DEF Lines
  <2>2. Mine(pc["packet"].ms, c) /\ \A i \in DOMAIN ses[s].out : Mine(ses[s].out[i], c)
    BY <1>4, <2>1, ThreadFacts DEF Owns
  <2>3. QED
    BY <1>1, <1>4, <2>1, <2>2, AppendOne
<1>5. CASE \E w \in Workers : Pops(w) /\ pc[w].s = s /\ ses[s].out # <<>> /\ ses'[s].out = Tail(ses[s].out)
  <2>1. ver = "06"
    BY <1>5 DEF Pops
  <2>2. \A i \in DOMAIN ses[s].out : Mine(ses[s].out[i], c)
    BY <2>1 DEF Owns
  <2>3. QED
    BY <1>1, <1>5, <2>1, <2>2, TailOne
<1>6. CASE /\ Advances /\ pc["sender"].s = s
           /\ ses'[s].out = LET ms == pc["sender"].ms IN
                IF IsPrefix(ms, ses[s].out) THEN SubSeq(ses[s].out, Len(ms) + 1, Len(ses[s].out)) ELSE <<Stale>>
  <2>1. Advancing(s) /\ ver # "06"
    BY <1>6 DEF Advances, Advancing, Ringed
  <2>2. Len(pc["sender"].ms) \in Nat
    <3>1. pc["sender"].ms \in Seq(Msg)
      BY ThreadFacts, PcFacts DEF Text
    <3>2. QED
      BY <3>1
  <2>3. ses'[s].out = SubSeq(ses[s].out, Len(pc["sender"].ms) + 1, Len(ses[s].out))
    BY <1>6, <2>1 DEF Owns
  <2>4. Mine(ses[s].out, c)
    BY <2>1 DEF Owns
  <2>5. QED
    BY <1>1, <2>1, <2>2, <2>3, <2>4, MineSub
<1>7. ~\E t \in Closers : Clears(t) /\ s = pc[t].s /\ ses'[s].sock = None
  OBVIOUS
<1>8. QED
  BY <1>2, <1>3, <1>4, <1>5, <1>6, <1>7, OutChanges DEF OutChange

LEMMA MoveFrontComes ==
    ASSUME TypeOK, Acts("sender"), pc'["sender"].at = "movefront"
    PROVE  (\E told \in BOOLEAN : Posts(told)) \/ (Fails /\ pc'["sender"].ms = <<>>)
<1>1. "sender" \in Threads /\ "sender" \notin Workers /\ FirstStep("sender") = "scan"
  BY ThreadFacts
<1>2. ~Rests("sender")
  BY <1>1, PcAfter
<1>3. \A l : Stays("sender", l) => l = "movefront" /\ pc'["sender"].ms = <<>>
  BY <1>1, PcAfter
<1>4. ~CloserWorks("sender")
  <2>1. ~Blocks("sender") /\ ~Clears("sender")
    BY <1>2 DEF Blocks, Clears
  <2>2. ~Ends("sender")
    BY <1>2, <1>3 DEF Ends
  <2>3. ~Shuts("sender")
    BY <1>3 DEF Shuts
  <2>4. QED
    BY <2>1, <2>2, <2>3 DEF CloserWorks
<1>5. ~Leaves("sender")
  BY <1>2 DEF Leaves
<1>6. \A s \in Slots : ~Finds(s)
  <2>1. \A s : Becomes("sender", [Local("cas") EXCEPT !.s = s]) => pc'["sender"] = [Local("cas") EXCEPT !.s = s]
    BY <1>1, PcAfter
  <2>2. \A s : [Local("cas") EXCEPT !.s = s].at = "cas"
    BY DEF Local
  <2>3. QED
    BY <2>1, <2>2 DEF Finds
<1>7. ~Claims /\ ~Checks /\ ~Advances
  BY <1>2, <1>3 DEF Claims, Checks, Advances
<1>8. Fails => pc'["sender"].ms = <<>>
  BY <1>3 DEF Fails
<1>9. QED
  BY <1>1, <1>4, <1>5, <1>6, <1>7, <1>8 DEF Acts, Works, AccepterWorks, WorkerWorks, PacketWorks, SenderWorks

LEMMA PrefixOf ==
    ASSUME NEW S, NEW p \in Seq(S)
    PROVE  IsPrefix(<<>>, p) /\ IsPrefix(p, p)
<1>1. Len(<<>>) = 0 /\ <<>> = SubSeq(p, 1, 0)
  OBVIOUS
<1>2. Len(p) \in Nat /\ p = SubSeq(p, 1, Len(p))
  OBVIOUS
<1>3. QED
  BY <1>1, <1>2 DEF IsPrefix

(* What the sender is about to take from the ring is at its front.         *)
LEMMA OwnsAdvance ==
    ASSUME TypeOK, Known, SesMoves, UNCHANGED ver, Clean', NEW s \in Slots, NEW c, Owns(s, c), ses'[s].sock # None, Advancing(s)'
    PROVE  IsPrefix(pc'["sender"].ms, ses'[s].out)
<1>0. "sender" \in Threads \ {"main"} /\ FirstStep("sender") = "scan"
  BY ThreadFacts
<1>1. s # None /\ ver \in Ringed /\ pc'["sender"].at = "movefront" /\ pc'["sender"].s = s
  BY SlotFacts DEF Advancing, At
<1>2. ses[s].out \in Text
  BY <1>1, SesFacts DEF Ringed
<1>3. CASE Acts("sender")
  <2>1. CASE \E told \in BOOLEAN : Posts(told)
    <3>1. PICK told \in BOOLEAN : Posts(told)
      BY <2>1
    <3>2. told
      BY <3>1 DEF Posts, Clean
    <3>3. pc["sender"].s = s /\ pc'["sender"].ms = ses[s].out /\ ses' = ses
      <4>1. ses' = ses
        BY <3>1 DEF Posts, mem
      <4>2. QED
        BY <1>1, <3>1, <3>2, <4>1, PostGoes
    <3>4. QED
      BY <1>2, <3>3, PrefixOf DEF Text
  <2>2. CASE Fails /\ pc'["sender"].ms = <<>>
    <3>1. ses' = ses
      BY <2>2 DEF Fails, mem
    <3>2. QED
      BY <1>2, <2>2, <3>1, PrefixOf DEF Text
  <2>3. QED
    BY <1>1, <1>3, <2>1, <2>2, MoveFrontComes
<1>4. CASE pc'["sender"] = pc["sender"]
  <2>1. Advancing(s) /\ At("sender", "movefront") /\ pc["sender"].s = s
    BY <1>1, <1>4 DEF Advancing, At
  <2>2. ~Advances
    BY <1>0, <1>1, PcAfter DEF Advances
  <2>3. ~(Puts /\ pc["packet"].s = s) /\ ~Lines /\ ~\E w \in Workers : Pops(w)
    BY <1>1, <2>1 DEF Puts, Lines, Pops, Ringed
  <2>4. ses'[s].out = ses[s].out
    BY <2>2, <2>3, OutChanges DEF OutChange
  <2>5. QED
    BY <1>4, <2>1, <2>4 DEF Owns
<1>5. CASE pc'["sender"].at \in {FirstStep("sender"), "begin"}
  BY <1>0, <1>1, <1>5
<1>6. QED
  BY <1>0, <1>3, <1>4, <1>5, PcMove

(* A step keeps TalkInv.                                                   *)
LEMMA TalkStep ==
    ASSUME TypeOK, SockInv, ShutInv, RecvInv, OwnInv, OpsInv, TalkInv, Known, UNCHANGED ver
    PROVE  TalkInv'
<1>0. SesMoves /\ Calls /\ TypeOK'
  BY SesMove, CallsKnown, TypeStep
<1>1. SUFFICES ASSUME Clean'
               PROVE  /\ \A c \in Conns : Mine(conn'[c].heard, c)
                      /\ \A s \in Slots : \A c \in Conns : Stands(s)' /\ ses'[s].sock = c => Owns(s, c)'
  <2>1. Slots' = Slots
    BY <1>0 DEF SesMoves
  <2>2. \A s \in Slots : Stands(s)' => ses'[s].sock \in Conns
    <3>1. SesOK'
      BY <1>0 DEF TypeOK
    <3>2. ses' \in [Slots -> SesRec']
      BY <2>1, <3>1 DEF SesOK
    <3>3. QED
      BY <3>2 DEF SesRec, Stands
  <2>3. QED
    BY <1>1, <2>1, <2>2 DEF TalkInv, Mine, Owns
<1>2. Clean /\ ~Overlapped /\ ~Overlapped'
  BY <1>1, MarksGrow DEF Clean, Overlapped
<1>3. ASSUME NEW c \in Conns
      PROVE  Mine(conn'[c].heard, c)
  <2>1. Mine(conn[c].heard, c)
    BY <1>2 DEF TalkInv
  <2>2. CASE Sent(c) /\ conn'[c].heard = conn[c].heard \o Head(conn[c].sends).ms
    <3> DEFINE e == conn[c].sends[1]
    <3>1. 1 \in DOMAIN conn[c].sends /\ Head(conn[c].sends) = e
      <4>1. conn[c].sends \in Seq(Op) /\ conn[c].sends # <<>>
        BY <2>2, ConnFacts DEF Op, Sent
      <4>2. QED
        BY <4>1, SeqTail
    <3>2. e.s \in Slots /\ OwnedBy(e.s, c) /\ conn[c].st = "open"
      BY <1>2, <2>2, <3>1 DEF OwnInv, TypeOK, OpsOK, Sent
    <3>3. Stands(e.s) /\ ses[e.s].sock = c
      BY <3>2 DEF OwnedBy, Stands, Conns, None
    <3>4. Mine(e.ms, c)
      BY <1>2, <3>1, <3>2, <3>3 DEF TalkInv, Owns
    <3>5. e.ms \in Text /\ conn[c].heard \in Text
      BY <2>2, <3>1, HeadOps, ConnFacts DEF Sent
    <3>6. QED
      BY <2>1, <2>2, <3>1, <3>4, <3>5, MineCat
  <2>3. QED
    BY <1>0, <2>1, <2>2, WordsMoved DEF WordsMove
<1>4. ASSUME NEW s \in Slots, NEW c \in Conns, Stands(s)', ses'[s].sock = c
      PROVE  Owns(s, c)'
  <2>1. CASE Accepts(s) \/ KernelAccepts(s)
    <3>1. NewSlot(s)'
      BY <1>2, <2>1, AcceptedFresh
    <3>2. s \in Slots'
      BY <1>0 DEF SesMoves
    <3>3. QED
      BY <1>0, <3>1, <3>2, OwnsNew
  <2>2. CASE ~(Accepts(s) \/ KernelAccepts(s))
    <3>1. Stands(s) /\ ses[s].sock = c /\ ses'[s].sock # None
      BY <1>4, <2>2, StandsComes DEF Stands
    <3>2. Owns(s, c)
      BY <1>2, <3>1 DEF TalkInv
    <3>3. \A t \in Threads : pc'[t].s = s => Mine(pc'[t].ms, c)
      BY <1>0, <3>2, OwnsLocals
    <3>4. \A i \in DOMAIN port' : port'[i].s = s => Mine(port'[i].ms, c)
      BY <1>2, <2>2, <3>1, <3>2, OwnsPort
    <3>5. \A i \in DOMAIN deque' : deque'[i].s = s => Mine(deque'[i].ms, c)
      BY <3>2, OwnsDeque
    <3>6. \A d \in Conns : \A i \in DOMAIN conn'[d].sends : conn'[d].sends[i].s = s => Mine(conn'[d].sends[i].ms, c)
      BY <1>2, <3>1, <3>2, OwnsSends
    <3>7. IF ver' = "06" THEN \A i \in DOMAIN ses'[s].out : Mine(ses'[s].out[i], c) ELSE Mine(ses'[s].out, c)
      BY <1>0, <3>1, <3>2, OwnsOut
    <3>8. Advancing(s)' => IsPrefix(pc'["sender"].ms, ses'[s].out)
      BY <1>0, <1>1, <3>1, <3>2, OwnsAdvance
    <3>9. QED
      BY <3>3, <3>4, <3>5, <3>6, <3>7, <3>8 DEF Owns, Mine
  <2>3. QED
    BY <2>1, <2>2
<1>5. QED
  BY <1>3, <1>4

(* Whatever the clients do, a client hears only words of its own: what the *)
(* packet thread, the ring or the queue of sends, the sender and the port  *)
(* hold of a session are words of the client whose connection it is        *)
(* (TalkInv), as an operation belongs to the session whose socket it is on *)
(* (OwnInv) and nothing is left of a session when it is accepted for again *)
(* (while nothing is marked, misread operations among it).                 *)
THEOREM EchoNoCrossTalk == Spec => []NoCrossTalk
<1> DEFINE I == RecvInv /\ OwnInv /\ OpsInv /\ TalkInv
<1>1. EchoInit => I
  <2>1. \A c : Mine(<<>>, c)
    BY MineNone
  <2>2. DOMAIN <<>> = {}
    OBVIOUS
  <2>3. SUFFICES ASSUME EchoInit PROVE I
    OBVIOUS
  <2>4. /\ port = <<>> /\ \A c \in Conns : conn[c].recvs = <<>> /\ conn[c].sends = <<>> /\ conn[c].heard = <<>>
        /\ (\A s \in Slots : ses[s].sock = None) /\ (\A t \in Threads : pc[t].at \in {"init", "off"})
    BY <2>3, InitFacts
  <2>5. RecvInv
    BY <2>4 DEF RecvInv
  <2>6. OwnInv
    BY <2>2, <2>4 DEF OwnInv
  <2>7. OpsInv
    BY <2>2, <2>4, ThreadFacts DEF OpsInv, At
  <2>8. TalkInv
    BY <2>1, <2>4 DEF TalkInv, Stands
  <2>9. QED
    BY <2>5, <2>6, <2>7, <2>8
<1>2. TypeOK /\ StartInv /\ LinkInv /\ I /\ [Next]_<<vars, ver>> => I'
  <2>1. SUFFICES ASSUME TypeOK, StartInv, LinkInv, I, [Next]_<<vars, ver>>
                 PROVE  I'
    OBVIOUS
  <2>2. UNCHANGED ver /\ (Known \/ (\E w \in Workers : Misreads(w)) \/ UNCHANGED <<vars, ver>>)
    BY <2>1, NextIs
  <2>3. CASE Known
    BY <2>1, <2>2, <2>3, RecvStep, OwnStep, OpsStep, TalkStep DEF LinkInv
  <2>4. CASE UNCHANGED <<vars, ver>>
    <3>1. UNCHANGED <<conn, accepts, port, ses, pc, marks, deque, ver>>
      BY <2>4 DEF vars, net, mem, hist
    <3>2. \A s : (OneRecv(s)' <=> OneRecv(s)) /\ (NoSend(s)' <=> NoSend(s))
      BY <3>1 DEF OneRecv, NoSend, Single, Empty, NoneIn, OneIn, RecvsOf, SendsOf, RecvHolders, SendHolders, RecvsDone, SendsDone,
                  SendOps, Receiving, SendDone, At
    <3>3. RecvInv'
      BY <2>1, <3>1, <3>2 DEF RecvInv, Overlapped, Slots
    <3>4. OwnInv' /\ OpsInv'
      BY <2>1, <3>1 DEF OwnInv, OpsInv, OwnedBy, Overlapped, At
    <3>5. \A s : \A c : Owns(s, c)' <=> Owns(s, c)
      BY <3>1 DEF Owns, Mine, Advancing, At
    <3>6. TalkInv'
      BY <2>1, <3>1, <3>5 DEF TalkInv, Clean, Mine, Stands, Slots
    <3>7. QED
      BY <3>3, <3>4, <3>6
  <2>5. CASE \E w \in Workers : Misreads(w)
    <3>1. "misread" \in marks' /\ ver' \in Reusing
      BY <2>2, <2>5 DEF Misreads, Reusing
    <3>2. QED
      BY <3>1 DEF RecvInv, OwnInv, OpsInv, TalkInv, Overlapped, Clean
  <2>6. QED
    BY <2>2, <2>3, <2>4, <2>5
<1>3. TypeOK /\ TalkInv => NoCrossTalk
  BY DEF TalkInv, NoCrossTalk, Mine
<1>4. QED
  BY <1>1, <1>2, <1>3, EchoTypes, EchoLinks, PTL DEF Spec

-----------------------------------------------------------------------------
(* In which order the words are *)

(* What the operators on sequences of words do.                            *)
LEMMA CountsMore ==
    ASSUME NEW c, NEW k \in Nat, NEW p \in Text, NEW q \in Text, Counts(p, c, k), Counts(q, c, k + Len(p))
    PROVE  Counts(p \o q, c, k)
<1>1. SUFFICES ASSUME NEW i \in DOMAIN (p \o q)
               PROVE  (p \o q)[i] = Word(c, k + i)
  BY DEF Counts
<1> DEFINE S == Msg
<1>2. p \in Seq(S) /\ q \in Seq(S)
  BY DEF Text
<1> HIDE DEF S
<1>3. /\ Len(p) \in Nat /\ Len(q) \in Nat /\ DOMAIN p = 1..Len(p) /\ DOMAIN q = 1..Len(q)
      /\ i \in 1..(Len(p) + Len(q))
      /\ (p \o q)[i] = IF i <= Len(p) THEN p[i] ELSE q[i - Len(p)]
  BY <1>1, <1>2
<1>4. CASE i <= Len(p)
  BY <1>3, <1>4 DEF Counts
<1>5. CASE ~(i <= Len(p))
  <2>1. i - Len(p) \in DOMAIN q /\ k + Len(p) + (i - Len(p)) = k + i
    BY <1>3, <1>5
  <2>2. QED
    BY <1>3, <1>5, <2>1 DEF Counts
<1>6. QED
  BY <1>4, <1>5

LEMMA CountsLess ==
    ASSUME NEW c, NEW k \in Int, NEW p \in Text, NEW a \in Nat, Counts(p, c, k), a <= Len(p)
    PROVE  Counts(SubSeq(p, a + 1, Len(p)), c, k + a) /\ Len(SubSeq(p, a + 1, Len(p))) = Len(p) - a
<1> DEFINE S == Msg
<1>1. p \in Seq(S)
  BY DEF Text
<1> HIDE DEF S
<1>2. /\ Len(p) \in Nat /\ Len(SubSeq(p, a + 1, Len(p))) = Len(p) - a
      /\ \A i \in DOMAIN SubSeq(p, a + 1, Len(p)) :
           a + i \in DOMAIN p /\ SubSeq(p, a + 1, Len(p))[i] = p[a + i] /\ k + (a + i) = (k + a) + i
  BY <1>1
<1>3. QED
  BY <1>2 DEF Counts

LEMMA CountsNone == \A c, k : Counts(<<>>, c, k)
<1>1. DOMAIN <<>> = {}
  OBVIOUS
<1>2. QED
  BY <1>1 DEF Counts

LEMMA CountsOne == \A c : \A k \in Int : Counts(<<Word(c, k + 1)>>, c, k)
<1>1. \A x : DOMAIN <<x>> = {1} /\ <<x>>[1] = x
  OBVIOUS
<1>2. QED
  BY <1>1 DEF Counts

LEMMA SendsSeq ==
    ASSUME NEW q \in Seq(Op)
    PROVE  /\ Len(q) \in Nat /\ DOMAIN q = 1..Len(q) /\ \A i \in DOMAIN q : q[i].ms \in Text
           /\ q = <<>> <=> Len(q) = 0
           /\ Len(q) <= 1 => q = <<>> \/ Tail(q) = <<>>
           /\ q # <<>> => Len(Tail(q)) = Len(q) - 1
<1>1. \A i \in DOMAIN q : q[i] \in Op
  OBVIOUS
<1>2. \A e \in Op : e.ms \in Text
  BY DEF Op
<1>3. QED
  BY <1>1, <1>2

(* The first send is done.                                                 *)
LEMMA OutwardSent ==
    ASSUME NEW v, NEW c, NEW h \in Nat, NEW q \in Seq(Op), NEW out, NEW a \in Int, q # <<>>,
           Outward(v, c, h, q, out, a), v = "06" \/ v \in Ringed \/ v \notin Queued
    PROVE  /\ Counts(q[1].ms, c, h) /\ h + Len(q[1].ms) \in Nat
           /\ Outward(v, c, h + Len(q[1].ms), Tail(q), out, a)
           /\ Reached(v, h + Len(q[1].ms), Tail(q), out, a) = Reached(v, h, q, out, a)
<1> DEFINE S == Op
<1>n. PICK n : n = Len(q[1].ms)
  OBVIOUS
<1>0. q \in Seq(S)
  OBVIOUS
<1>1. q[1].ms \in Text /\ Len(q) \in Nat /\ Len(q) > 0 /\ DOMAIN q = 1..Len(q) /\ Len(Tail(q)) = Len(q) - 1 /\ Tail(q) \in Seq(Op)
  BY SendsSeq, SeqTail
<1>2. n \in Nat
  BY <1>1, <1>n DEF Text
<1>3. DOMAIN Tail(q) = 1..(Len(q) - 1) /\ \A i \in DOMAIN Tail(q) : Tail(q)[i] = q[i + 1]
  BY SeqTail
<1>4. CASE v \in Ringed
  <2>1. Len(q) = 1 /\ Counts(q[1].ms, c, h) /\ Counts(out, c, h + n - a)
    BY <1>4, <1>n DEF Outward, Before, Posted, Ringed
  <2>2. Tail(q) = <<>>
    BY <1>1, <2>1, SendsSeq
  <2>3. (h + n) + 0 - a = h + n - a
    BY <1>2
  <2>4. QED
    BY <1>2, <1>4, <1>n, <2>1, <2>2, <2>3 DEF Outward, Before, Posted, Reached, Ringed, Queued
<1>5. CASE v \notin Ringed
  <2>1. \A i \in DOMAIN q : q[i].ms = <<Word(c, h + i)>>
    BY <1>5 DEF Outward
  <2>2. q[1].ms = <<Word(c, h + 1)>> /\ n = 1
    <3>1. \A x : Len(<<x>>) = 1
      OBVIOUS
    <3>2. 1 \in DOMAIN q
      BY <1>1
    <3>3. q[1].ms = <<Word(c, h + 1)>>
      BY <2>1, <3>2
    <3>4. QED
      BY <1>n, <3>1, <3>3
  <2>3. Counts(q[1].ms, c, h)
    BY <2>2, CountsOne
  <2>4. \A i \in DOMAIN Tail(q) : Tail(q)[i].ms = <<Word(c, (h + n) + i)>>
    <3>1. ASSUME NEW i \in DOMAIN Tail(q)
          PROVE  Tail(q)[i].ms = <<Word(c, (h + n) + i)>>
      <4>1. i + 1 \in DOMAIN q /\ Tail(q)[i] = q[i + 1] /\ h + (i + 1) = (h + n) + i
        BY <1>1, <1>3, <2>2, <3>1
      <4>2. QED
        BY <2>1, <4>1
    <3>2. QED
      BY <3>1
  <2>5. CASE v = "06"
    <3>1. Len(q) = 1 /\ Tail(q) = <<>> /\ out # <<>>
      BY <1>1, <2>5, SendsSeq DEF Outward
    <3>2. Before(v, h, q, out, a) = h /\ Before(v, h + n, Tail(q), out, a) = h
      BY <2>2, <2>5, <3>1 DEF Before
    <3>3. Len(Tail(q)) <= 1
      <4>1. Len(q) = 1
        BY <3>1
      <4>2. Len(Tail(q)) = Len(q) - 1
        BY <1>1
      <4>3. \A x, y : x = 1 /\ y = x - 1 => y <= 1
        OBVIOUS
      <4>4. QED
        BY <4>1, <4>2, <4>3
    <3>4. QED
      BY <1>2, <1>5, <1>n, <2>3, <2>4, <2>5, <3>1, <3>2, <3>3 DEF Outward, Reached, Queued
  <2>6. CASE v \notin Queued
    <3>1. Reached(v, h + n, Tail(q), out, a) = Reached(v, h, q, out, a)
      BY <1>1, <1>5, <2>2, <2>6 DEF Reached, Posted
    <3>2. v # "06"
      BY <2>6 DEF Queued
    <3>3. QED
      BY <1>2, <1>5, <1>n, <2>3, <2>4, <3>1, <3>2 DEF Outward
  <2>7. QED
    BY <1>5, <2>5, <2>6
<1>6. QED
  BY <1>4, <1>5

(* What the ring holds is sent, all of it; then it leaves the ring.        *)
LEMMA OutwardPosted ==
    ASSUME NEW v, NEW c, NEW h \in Nat, NEW s, NEW out \in Text, v \in Ringed, Outward(v, c, h, <<>>, out, 0)
    PROVE  /\ Outward(v, c, h, <<[s |-> s, ms |-> out]>>, out, Len(out))
           /\ Reached(v, h, <<[s |-> s, ms |-> out]>>, out, Len(out)) = Reached(v, h, <<>>, out, 0)
<1> DEFINE q == <<[s |-> s, ms |-> out]>>
<1>1. Len(q) = 1 /\ q # <<>> /\ q[1].ms = out
  OBVIOUS
<1>2. v # "06" /\ v \in Queued /\ Len(out) \in Nat
  BY DEF Ringed, Queued, Text
<1> HIDE DEF q
<1>3. Before(v, h, <<>>, out, 0) = h /\ Before(v, h, q, out, Len(out)) = h
  <2>1. Posted(v, <<>>) = 0 /\ Posted(v, q) = Len(out)
    BY <1>1 DEF Posted
  <2>2. QED
    BY <1>2, <2>1 DEF Before
<1>4. Counts(out, c, h)
  BY <1>3 DEF Outward
<1>5. Outward(v, c, h, q, out, Len(out)) /\ Reached(v, h, q, out, Len(out)) = Reached(v, h, <<>>, out, 0)
  BY <1>1, <1>2, <1>3, <1>4 DEF Outward, Reached
<1>6. QED
  BY <1>5 DEF q

LEMMA OutwardMoved ==
    ASSUME NEW v, NEW c, NEW h \in Nat, NEW q, NEW out \in Text, NEW a \in Nat, a <= Len(out), v \in Ringed, Posted(v, q) \in Nat,
           Outward(v, c, h, q, out, a)
    PROVE  /\ Outward(v, c, h, q, SubSeq(out, a + 1, Len(out)), 0)
           /\ Reached(v, h, q, SubSeq(out, a + 1, Len(out)), 0) = Reached(v, h, q, out, a)
<1>1. PICK r : r = SubSeq(out, a + 1, Len(out))
  OBVIOUS
<1>2. v # "06" /\ v \in Queued /\ Len(out) \in Nat
  BY DEF Ringed, Queued, Text
<1>3. /\ Before(v, h, q, out, a) = h + Posted(v, q) - a
      /\ Before(v, h, q, r, 0) = h + Posted(v, q) - 0
  BY <1>2 DEF Before
<1>4. Before(v, h, q, out, a) \in Int /\ Before(v, h, q, out, a) + a = Before(v, h, q, r, 0)
  BY <1>3
<1>5. Counts(out, c, Before(v, h, q, out, a))
  BY DEF Outward
<1>6. Counts(r, c, Before(v, h, q, out, a) + a) /\ Len(r) = Len(out) - a
  BY <1>1, <1>4, <1>5, CountsLess
<1>7. Outward(v, c, h, q, r, 0)
  BY <1>2, <1>4, <1>6 DEF Outward
<1>8. Reached(v, h, q, r, 0) = Reached(v, h, q, out, a)
  BY <1>2, <1>4, <1>6 DEF Reached
<1>9. QED
  BY <1>1, <1>7, <1>8

(* The front of the queue of sends is done, and the next one is sent.      *)
LEMMA OutwardPopped ==
    ASSUME NEW v, NEW c, NEW h \in Nat, NEW out \in Seq(Text), NEW a, v = "06", out # <<>>, Outward(v, c, h, <<>>, out, a)
    PROVE  /\ Tail(out) = <<>> => /\ Outward(v, c, h, <<>>, Tail(out), a)
                                  /\ Reached(v, h, <<>>, Tail(out), a) = Reached(v, h, <<>>, out, a)
           /\ \A e \in Op : e.ms = Head(Tail(out)) /\ Tail(out) # <<>> =>
                /\ Outward(v, c, h, <<e>>, Tail(out), a)
                /\ Reached(v, h, <<e>>, Tail(out), a) = Reached(v, h, <<>>, out, a)
<1>q. SUFFICES ASSUME NEW e, NEW q, Tail(out) = <<>> => q = <<>>, Tail(out) # <<>> => q = <<e>> /\ e.ms = Head(Tail(out))
               PROVE  Outward(v, c, h, q, Tail(out), a) /\ Reached(v, h, q, Tail(out), a) = Reached(v, h, <<>>, out, a)
  OBVIOUS
<1> DEFINE S == Text
<1>0. out \in Seq(S)
  OBVIOUS
<1> HIDE DEF S
<1>1. /\ Len(out) \in Nat /\ Len(out) > 0 /\ DOMAIN out = 1..Len(out) /\ Tail(out) \in Seq(S) /\ Len(Tail(out)) = Len(out) - 1
      /\ DOMAIN Tail(out) = 1..(Len(out) - 1) /\ \A i \in 1..(Len(out) - 1) : Tail(out)[i] = out[i + 1]
  BY <1>0, SeqTail
<1>2. v \notin Ringed /\ v \in Queued
  BY DEF Ringed, Queued
<1>3. Before(v, h, <<>>, out, a) = h - 1 /\ Before(v, h, q, Tail(out), a) = h
  <2>1. \A x : <<x>> # <<>>
    OBVIOUS
  <2>2. Tail(out) = <<>> \/ q # <<>>
    BY <1>q, <2>1
  <2>3. QED
    BY <2>2 DEF Before
<1>4. \A i \in DOMAIN out : out[i] = <<Word(c, h - 1 + i)>>
  BY <1>3 DEF Outward
<1>5. \A i \in DOMAIN Tail(out) : Tail(out)[i] = <<Word(c, h + i)>>
  <2>1. ASSUME NEW i \in DOMAIN Tail(out)
        PROVE  Tail(out)[i] = <<Word(c, h + i)>>
    <3>1. i + 1 \in DOMAIN out /\ Tail(out)[i] = out[i + 1] /\ h - 1 + (i + 1) = h + i
      BY <1>1, <2>1
    <3>2. QED
      BY <1>4, <3>1
  <2>2. QED
    BY <2>1
<1>6. Tail(out) # <<>> => 1 \in DOMAIN Tail(out) /\ Head(Tail(out)) = Tail(out)[1]
  BY <1>1, SeqTail
<1>7. /\ \A i \in DOMAIN q : q[i].ms = <<Word(c, h + i)>>
      /\ Len(q) <= 1 /\ (Tail(out) = <<>> => q = <<>>)
  <2>1. CASE Tail(out) = <<>>
    <3>1. q = <<>>
      BY <1>q, <2>1
    <3>2. DOMAIN q = {} /\ Len(q) = 0
      BY <3>1
    <3>3. QED
      BY <2>1, <3>1, <3>2
  <2>2. CASE Tail(out) # <<>>
    <3>1. Head(Tail(out)) = <<Word(c, h + 1)>>
      BY <1>5, <1>6, <2>2
    <3>2. \A x : DOMAIN <<x>> = {1} /\ <<x>>[1] = x /\ Len(<<x>>) = 1
      OBVIOUS
    <3>3. q = <<e>>
      BY <1>q, <2>2
    <3>4. DOMAIN q = {1} /\ q[1].ms = Head(Tail(out)) /\ Len(q) = 1
      BY <1>q, <2>2, <3>2, <3>3
    <3>5. QED
      BY <2>2, <3>1, <3>4
  <2>3. QED
    BY <2>1, <2>2
<1>8. Outward(v, c, h, q, Tail(out), a)
  BY <1>2, <1>3, <1>5, <1>7 DEF Outward
<1>9. Reached(v, h, q, Tail(out), a) = Reached(v, h, <<>>, out, a)
  BY <1>1, <1>2, <1>3 DEF Reached
<1>10. QED
  BY <1>8, <1>9

(* One word more.                                                          *)
LEMMA OutwardAnswered ==
    ASSUME NEW v, NEW c, NEW h \in Nat, NEW s, NEW q \in Seq(Op), NEW out, NEW a, v \notin Queued, Outward(v, c, h, q, out, a),
           NEW e \in Op, e.ms = <<Word(c, Reached(v, h, q, out, a) + 1)>>
    PROVE  /\ Outward(v, c, h, Append(q, e), out, a)
           /\ Reached(v, h, Append(q, e), out, a) = Reached(v, h, q, out, a) + 1
<1> DEFINE S == Op
<1>0. q \in Seq(S) /\ e \in S
  OBVIOUS
<1> HIDE DEF S
<1>1. /\ Len(q) \in Nat /\ DOMAIN q = 1..Len(q) /\ DOMAIN Append(q, e) = 1..(Len(q) + 1) /\ Len(Append(q, e)) = Len(q) + 1
      /\ \A i \in 1..Len(q) : Append(q, e)[i] = q[i]
      /\ Append(q, e)[Len(q) + 1] = e
  BY <1>0, SeqAppend
<1>2. v \notin Ringed /\ v # "06"
  BY DEF Ringed, Queued
<1>3. Reached(v, h, q, out, a) = h + Len(q) /\ Reached(v, h, Append(q, e), out, a) = h + Len(Append(q, e))
  BY <1>2 DEF Reached, Posted
<1>4. \A i \in DOMAIN q : q[i].ms = <<Word(c, h + i)>>
  BY <1>2 DEF Outward
<1>5. ASSUME NEW i \in DOMAIN Append(q, e)
      PROVE  Append(q, e)[i].ms = <<Word(c, h + i)>>
  <2>1. CASE i \in DOMAIN q
    BY <1>1, <1>4, <2>1
  <2>2. CASE i = Len(q) + 1
    <3>1. h + Len(q) + 1 = h + i
      BY <1>1, <2>2
    <3>2. QED
      BY <1>1, <1>3, <2>2, <3>1
  <2>3. QED
    BY <1>1, <1>5, <2>1, <2>2
<1>6. Outward(v, c, h, Append(q, e), out, a)
  BY <1>2, <1>5 DEF Outward
<1>7. QED
  BY <1>1, <1>3, <1>6

LEMMA OutwardPut ==
    ASSUME NEW v, NEW c, NEW h \in Nat, NEW q, NEW out \in Text, v \in Ringed, Posted(v, q) \in Nat, Outward(v, c, h, q, out, 0),
           NEW ms \in Text, ms = <<Word(c, Reached(v, h, q, out, 0) + 1)>>
    PROVE  Outward(v, c, h, q, out \o ms, 0) /\ Reached(v, h, q, out \o ms, 0) = Reached(v, h, q, out, 0) + 1
<1>1. v # "06" /\ v \in Queued /\ Len(out) \in Nat
  BY DEF Ringed, Queued, Text
<1>2. Len(ms) = 1
  <2>1. \A x : Len(<<x>>) = 1
    OBVIOUS
  <2>2. QED
    BY <2>1
<1>3. Len(out \o ms) = Len(out) + 1
  <2>1. Len(out \o ms) = Len(out) + Len(ms)
    BY DEF Text
  <2>2. QED
    BY <1>2, <2>1
<1>4. Before(v, h, q, out, 0) = h + Posted(v, q) /\ Before(v, h, q, out \o ms, 0) = h + Posted(v, q)
  BY <1>1 DEF Before
<1>5. PICK k \in Nat : k = h + Posted(v, q)
  OBVIOUS
<1>6. Counts(out, c, k) /\ Reached(v, h, q, out, 0) = k + Len(out)
  BY <1>1, <1>4, <1>5 DEF Outward, Reached
<1>7. Counts(ms, c, k + Len(out))
  <2>1. k + Len(out) \in Int
    BY <1>1
  <2>2. QED
    BY <1>6, <2>1, CountsOne
<1>8. Counts(out \o ms, c, k)
  BY <1>6, <1>7, CountsMore
<1>9. Outward(v, c, h, q, out \o ms, 0)
  BY <1>1, <1>4, <1>5, <1>8 DEF Outward
<1>10. Reached(v, h, q, out \o ms, 0) = k + (Len(out) + 1)
  BY <1>1, <1>3, <1>4, <1>5 DEF Reached
<1>11. QED
  BY <1>1, <1>6, <1>9, <1>10

LEMMA OutwardLined ==
    ASSUME NEW v, NEW c, NEW h \in Nat, NEW p \in Seq(Op), NEW out \in Seq(Text), NEW a, v = "06", Outward(v, c, h, p, out, a),
           NEW e \in Op, e.ms = <<Word(c, Reached(v, h, p, out, a) + 1)>>
    PROVE  /\ out = <<>> => /\ Outward(v, c, h, Append(p, e), Append(out, e.ms), a)
                            /\ Reached(v, h, Append(p, e), Append(out, e.ms), a) = Reached(v, h, p, out, a) + 1
           /\ out # <<>> => /\ Outward(v, c, h, p, Append(out, e.ms), a)
                            /\ Reached(v, h, p, Append(out, e.ms), a) = Reached(v, h, p, out, a) + 1
<1>q. SUFFICES ASSUME NEW q, out = <<>> => q = Append(p, e), out # <<>> => q = p
               PROVE  /\ Outward(v, c, h, q, Append(out, e.ms), a)
                      /\ Reached(v, h, q, Append(out, e.ms), a) = Reached(v, h, p, out, a) + 1
  OBVIOUS
<1> DEFINE S == Text
<1>0. out \in Seq(S) /\ e.ms \in S
  BY DEF Op
<1> HIDE DEF S
<1>r. PICK r : r = Append(out, e.ms)
  OBVIOUS
<1>1. /\ Len(out) \in Nat /\ DOMAIN out = 1..Len(out) /\ DOMAIN r = 1..(Len(out) + 1) /\ Len(r) = Len(out) + 1
      /\ (\A i \in 1..Len(out) : r[i] = out[i]) /\ r[Len(out) + 1] = e.ms
  BY <1>0, <1>r, SeqAppend
<1>2. v \notin Ringed /\ v \in Queued
  BY DEF Ringed, Queued
<1>3. r # <<>> /\ (out = <<>> <=> Len(out) = 0)
  <2>1. Len(<<>>) = 0
    OBVIOUS
  <2>2. Len(r) # 0
    BY <1>1
  <2>3. r # <<>>
    BY <2>1, <2>2
  <2>4. out = <<>> <=> Len(out) = 0
    OBVIOUS
  <2>5. QED
    BY <2>3, <2>4
<1>4. PICK k : k = Before(v, h, p, out, a)
  OBVIOUS
<1>5. k \in Int /\ Before(v, h, q, r, a) = k /\ (\A i \in DOMAIN q : q[i].ms = <<Word(c, h + i)>>) /\ Len(q) <= 1
  <2>1. CASE out = <<>>
    <3>1. p = <<>> /\ k = h
      BY <1>4, <2>1 DEF Outward, Before
    <3>2. q = <<e>>
      BY <1>q, <2>1, <3>1
    <3>3. \A x : DOMAIN <<x>> = {1} /\ <<x>>[1] = x /\ Len(<<x>>) = 1 /\ <<x>> # <<>>
      OBVIOUS
    <3>4. DOMAIN q = {1} /\ q[1] = e /\ Len(q) = 1 /\ q # <<>>
      BY <3>2, <3>3
    <3>5. Before(v, h, q, r, a) = h
      BY <3>4 DEF Before
    <3>6. Reached(v, h, p, out, a) = h
      BY <1>1, <1>2, <1>3, <1>4, <2>1, <3>1 DEF Reached
    <3>7. q[1].ms = <<Word(c, h + 1)>>
      BY <3>4, <3>6
    <3>8. QED
      BY <3>1, <3>4, <3>5, <3>7
  <2>2. CASE out # <<>>
    BY <1>2, <1>3, <1>4, <1>q, <2>2 DEF Outward, Before
  <2>3. QED
    BY <2>1, <2>2
<1>6. Reached(v, h, p, out, a) = k + Len(out) /\ Reached(v, h, q, r, a) = k + Len(r)
  BY <1>2, <1>4, <1>5 DEF Reached
<1>7. ASSUME NEW i \in DOMAIN r
      PROVE  r[i] = <<Word(c, k + i)>>
  <2>1. CASE i \in DOMAIN out
    BY <1>1, <1>4, <2>1 DEF Outward
  <2>2. CASE i = Len(out) + 1
    <3>1. k + Len(out) + 1 = k + i
      BY <1>1, <1>5, <2>2
    <3>2. QED
      BY <1>1, <1>6, <2>2, <3>1
  <2>3. QED
    BY <1>1, <1>7, <2>1, <2>2
<1>8. Outward(v, c, h, q, r, a)
  BY <1>2, <1>3, <1>5, <1>7 DEF Outward
<1>9. Reached(v, h, q, r, a) = Reached(v, h, p, out, a) + 1
  BY <1>1, <1>5, <1>6
<1>10. QED
  BY <1>r, <1>8, <1>9

(* The deque: what is of another session, and what is of this one.         *)
LEMMA InwardElse ==
    ASSUME NEW q \in Seq(Op), NEW s, NEW c, NEW lo, NEW hi, Inward(q, s, c, lo, hi)
    PROVE  /\ q # <<>> /\ Head(q).s # s => Inward(Tail(q), s, c, lo, hi)
           /\ \A e \in Op : e.s # s => Inward(Append(q, e), s, c, lo, hi)
<1> DEFINE S == Op
<1>0. q \in Seq(S)
  OBVIOUS
<1>1. ASSUME q # <<>>, Head(q).s # s
      PROVE  Inward(Tail(q), s, c, lo, hi)
  <2> HIDE DEF S
  <2>1. /\ Len(q) \in Nat /\ DOMAIN q = 1..Len(q) /\ DOMAIN Tail(q) = 1..(Len(q) - 1)
        /\ \A i \in 1..(Len(q) - 1) : Tail(q)[i] = q[i + 1]
        /\ Head(q) = q[1]
    BY <1>0, <1>1, SeqTail
  <2> DEFINE r == Tail(q)
  <2>2. \A i \in DOMAIN r : i \in Nat /\ i + 1 \in DOMAIN q /\ r[i] = q[i + 1]
    BY <2>1
  <2>3. \A i \in DOMAIN q : q[i].s = s => i - 1 \in DOMAIN r /\ r[i - 1] = q[i]
    BY <1>1, <2>1
  <2>4. \A i, j \in DOMAIN r : i < j => i + 1 < j + 1
    BY <2>1
  <2> HIDE DEF r
  <2>5. \A i \in DOMAIN r : r[i].s = s => \E n \in (lo + 1)..hi : r[i].ms = <<Word(c, n)>>
    BY <2>2 DEF Inward
  <2>6. \A n \in (lo + 1)..hi : \E i \in DOMAIN r : r[i].s = s /\ r[i].ms = <<Word(c, n)>>
    BY <2>3 DEF Inward
  <2>7. \A i, j \in DOMAIN r : i < j /\ r[i].s = s /\ r[j].s = s => r[i].ms[1].n < r[j].ms[1].n
    <3>1. SUFFICES ASSUME NEW i \in DOMAIN r, NEW j \in DOMAIN r, i < j, r[i].s = s, r[j].s = s
                   PROVE  r[i].ms[1].n < r[j].ms[1].n
      OBVIOUS
    <3>2. i + 1 \in DOMAIN q /\ j + 1 \in DOMAIN q /\ i + 1 < j + 1 /\ r[i] = q[i + 1] /\ r[j] = q[j + 1]
      BY <2>2, <2>4, <3>1
    <3>3. q[i + 1].ms[1].n < q[j + 1].ms[1].n
      BY <3>1, <3>2 DEF Inward
    <3>4. QED
      BY <3>2, <3>3
  <2>8. Inward(r, s, c, lo, hi)
    BY <2>5, <2>6, <2>7 DEF Inward
  <2>9. QED
    BY <2>8 DEF r
<1>2. ASSUME NEW e \in Op, e.s # s
      PROVE  Inward(Append(q, e), s, c, lo, hi)
  <2>0. e \in S
    OBVIOUS
  <2> HIDE DEF S
  <2>1. /\ Len(q) \in Nat /\ DOMAIN q = 1..Len(q) /\ DOMAIN Append(q, e) = 1..(Len(q) + 1)
        /\ \A i \in 1..Len(q) : Append(q, e)[i] = q[i]
        /\ Append(q, e)[Len(q) + 1] = e
    BY <1>0, <2>0, SeqAppend
  <2> DEFINE r == Append(q, e)
  <2>2. \A i \in DOMAIN r : r[i].s = s => i \in DOMAIN q /\ r[i] = q[i]
    BY <1>2, <2>1
  <2>3. \A i \in DOMAIN q : i \in DOMAIN r /\ r[i] = q[i]
    BY <2>1
  <2> HIDE DEF r
  <2>4. Inward(r, s, c, lo, hi)
    BY <2>2, <2>3 DEF Inward
  <2>5. QED
    BY <2>4 DEF r
<1>3. QED
  BY <1>1, <1>2

LEMMA WordIs == \A c, n : <<Word(c, n)>>[1].n = n
BY DEF Word

(* The packet thread takes the first word that is in the deque.            *)
LEMMA InwardTaken ==
    ASSUME NEW q \in Seq(Op), NEW s, NEW c, NEW lo \in Int, NEW hi \in Int, Inward(q, s, c, lo, hi), q # <<>>, Head(q).s = s
    PROVE  lo + 1 <= hi /\ Head(q).ms = <<Word(c, lo + 1)>> /\ Inward(Tail(q), s, c, lo + 1, hi)
<1> DEFINE S == Op
<1>0. q \in Seq(S)
  OBVIOUS
<1> HIDE DEF S
<1>1. /\ Len(q) \in Nat /\ Len(q) > 0 /\ DOMAIN q = 1..Len(q) /\ DOMAIN Tail(q) = 1..(Len(q) - 1)
      /\ \A i \in 1..(Len(q) - 1) : Tail(q)[i] = q[i + 1]
      /\ Head(q) = q[1]
  BY <1>0, SeqTail
<1>2. 1 \in DOMAIN q /\ q[1].s = s
  BY <1>1
<1>3. PICK m \in (lo + 1)..hi : q[1].ms = <<Word(c, m)>>
  BY <1>2 DEF Inward
<1>4. \A i \in DOMAIN q : q[i].s = s => \E n \in (lo + 1)..hi : q[i].ms = <<Word(c, n)>> /\ q[i].ms[1].n = n /\ (i # 1 => m < n)
  <2>1. SUFFICES ASSUME NEW i \in DOMAIN q, q[i].s = s
                 PROVE  \E n \in (lo + 1)..hi : q[i].ms = <<Word(c, n)>> /\ q[i].ms[1].n = n /\ (i # 1 => m < n)
    OBVIOUS
  <2>2. PICK n \in (lo + 1)..hi : q[i].ms = <<Word(c, n)>>
    BY <2>1 DEF Inward
  <2>3. q[i].ms[1].n = n /\ q[1].ms[1].n = m
    BY <1>3, <2>2, WordIs
  <2>4. i # 1 => m < n
    <3>1. i # 1 => 1 < i
      BY <1>1, <2>1
    <3>2. QED
      BY <1>2, <2>1, <2>3, <3>1 DEF Inward
  <2>5. QED
    BY <2>2, <2>3, <2>4
<1>5. m = lo + 1
  <2>1. PICK i \in DOMAIN q : q[i].s = s /\ q[i].ms = <<Word(c, lo + 1)>>
    <3>1. lo + 1 \in (lo + 1)..hi
      BY <1>3
    <3>2. QED
      BY <3>1 DEF Inward
  <2>2. PICK n \in (lo + 1)..hi : q[i].ms = <<Word(c, n)>> /\ q[i].ms[1].n = n /\ (i # 1 => m < n)
    BY <1>4, <2>1
  <2>3. n = lo + 1
    BY <2>1, <2>2, WordIs
  <2>4. i = 1
    BY <1>3, <2>2, <2>3
  <2>5. QED
    BY <1>3, <2>1, <2>4, WordIs
<1> DEFINE r == Tail(q)
<1>6. \A i \in DOMAIN r : i \in Nat /\ i + 1 # 1 /\ i + 1 \in DOMAIN q /\ r[i] = q[i + 1]
  BY <1>1
<1>7. \A i, j \in DOMAIN r : i < j => i + 1 < j + 1
  BY <1>1
<1>8. \A i \in DOMAIN q : i # 1 => i - 1 \in DOMAIN r /\ r[i - 1] = q[i]
  BY <1>1
<1> HIDE DEF r
<1>9. ASSUME NEW i \in DOMAIN r, r[i].s = s
      PROVE  \E n \in (lo + 2)..hi : r[i].ms = <<Word(c, n)>>
  <2>1. i + 1 # 1 /\ i + 1 \in DOMAIN q /\ r[i] = q[i + 1]
    BY <1>6, <1>9
  <2>2. PICK n \in (lo + 1)..hi : q[i + 1].ms = <<Word(c, n)>> /\ m < n
    BY <1>4, <1>9, <2>1
  <2>3. n \in (lo + 2)..hi
    BY <1>5, <2>2
  <2>4. QED
    BY <2>1, <2>2, <2>3
<1>10. ASSUME NEW n \in (lo + 2)..hi
       PROVE  \E i \in DOMAIN r : r[i].s = s /\ r[i].ms = <<Word(c, n)>>
  <2>1. n \in (lo + 1)..hi /\ n # m
    BY <1>5
  <2>2. PICK i \in DOMAIN q : q[i].s = s /\ q[i].ms = <<Word(c, n)>>
    BY <2>1 DEF Inward
  <2>3. i # 1
    <3>1. SUFFICES ASSUME i = 1
                   PROVE  FALSE
      OBVIOUS
    <3>2. <<Word(c, n)>> = <<Word(c, m)>>
      BY <1>3, <2>2, <3>1
    <3>3. <<Word(c, n)>>[1].n = n /\ <<Word(c, m)>>[1].n = m
      BY WordIs
    <3>4. QED
      BY <2>1, <3>2, <3>3
  <2>4. QED
    BY <1>8, <2>2, <2>3
<1>11. \A i, j \in DOMAIN r : i < j /\ r[i].s = s /\ r[j].s = s => r[i].ms[1].n < r[j].ms[1].n
  <2>1. SUFFICES ASSUME NEW i \in DOMAIN r, NEW j \in DOMAIN r, i < j, r[i].s = s, r[j].s = s
                 PROVE  r[i].ms[1].n < r[j].ms[1].n
    OBVIOUS
  <2>2. i + 1 \in DOMAIN q /\ j + 1 \in DOMAIN q /\ i + 1 < j + 1 /\ r[i] = q[i + 1] /\ r[j] = q[j + 1]
    BY <1>6, <1>7, <2>1
  <2>3. q[i + 1].ms[1].n < q[j + 1].ms[1].n
    BY <2>1, <2>2 DEF Inward
  <2>4. QED
    BY <2>2, <2>3
<1>12. lo + 1 + 1 = lo + 2
  OBVIOUS
<1>13. Inward(r, s, c, lo + 1, hi)
  BY <1>9, <1>10, <1>11, <1>12 DEF Inward
<1>14. QED
  BY <1>1, <1>3, <1>5, <1>13 DEF r

(* A worker puts the next word into the deque.                             *)
LEMMA InwardAdded ==
    ASSUME NEW q \in Seq(Op), NEW s, NEW c, NEW lo \in Int, NEW hi \in Int, Inward(q, s, c, lo, hi), lo <= hi,
           NEW e \in Op, e.s = s, e.ms = <<Word(c, hi + 1)>>
    PROVE  Inward(Append(q, e), s, c, lo, hi + 1)
<1> DEFINE S == Op
<1>0. q \in Seq(S) /\ e \in S
  OBVIOUS
<1> HIDE DEF S
<1>1. /\ Len(q) \in Nat /\ DOMAIN q = 1..Len(q) /\ DOMAIN Append(q, e) = 1..(Len(q) + 1)
      /\ \A i \in 1..Len(q) : Append(q, e)[i] = q[i]
      /\ Append(q, e)[Len(q) + 1] = e
  BY <1>0, SeqAppend
<1> DEFINE r == Append(q, e)
<1>2. /\ \A i \in DOMAIN r : (i \in DOMAIN q /\ r[i] = q[i]) \/ (i = Len(q) + 1 /\ r[i] = e)
      /\ \A i \in DOMAIN q : i \in DOMAIN r /\ r[i] = q[i] /\ i < Len(q) + 1
      /\ Len(q) + 1 \in DOMAIN r /\ r[Len(q) + 1] = e
      /\ \A i, j \in DOMAIN r : i < j => i # Len(q) + 1
  BY <1>1
<1> HIDE DEF r
<1>3. ASSUME NEW i \in DOMAIN r, r[i].s = s
      PROVE  \E n \in (lo + 1)..(hi + 1) : r[i].ms = <<Word(c, n)>> /\ r[i].ms[1].n = n /\ (i \in DOMAIN q => n < hi + 1)
  <2>1. CASE i \in DOMAIN q /\ r[i] = q[i]
    <3>1. PICK n \in (lo + 1)..hi : q[i].ms = <<Word(c, n)>>
      BY <1>3, <2>1 DEF Inward
    <3>2. n \in (lo + 1)..(hi + 1) /\ n < hi + 1
      BY <3>1
    <3>3. QED
      BY <2>1, <3>1, <3>2, WordIs
  <2>2. CASE i = Len(q) + 1 /\ r[i] = e
    <3>1. hi + 1 \in (lo + 1)..(hi + 1)
      OBVIOUS
    <3>2. i \notin DOMAIN q
      BY <1>1, <2>2
    <3>3. QED
      BY <2>2, <3>1, <3>2, WordIs
  <2>3. QED
    BY <1>2, <1>3, <2>1, <2>2
<1>4. ASSUME NEW n \in (lo + 1)..(hi + 1)
      PROVE  \E i \in DOMAIN r : r[i].s = s /\ r[i].ms = <<Word(c, n)>>
  <2>1. CASE n = hi + 1
    BY <1>2, <2>1
  <2>2. CASE n # hi + 1
    <3>1. n \in (lo + 1)..hi
      BY <2>2
    <3>2. PICK i \in DOMAIN q : q[i].s = s /\ q[i].ms = <<Word(c, n)>>
      BY <3>1 DEF Inward
    <3>3. QED
      BY <1>2, <3>2
  <2>3. QED
    BY <2>1, <2>2
<1>5. ASSUME NEW i \in DOMAIN r, NEW j \in DOMAIN r, i < j, r[i].s = s, r[j].s = s
      PROVE  r[i].ms[1].n < r[j].ms[1].n
  <2>1. i \in DOMAIN q /\ r[i] = q[i]
    BY <1>2, <1>5
  <2>2. CASE j \in DOMAIN q /\ r[j] = q[j]
    BY <1>5, <2>1, <2>2 DEF Inward
  <2>3. CASE r[j] = e
    <3>1. r[j].ms[1].n = hi + 1
      BY <2>3, WordIs
    <3>2. r[i].ms[1].n < hi + 1
      BY <1>3, <1>5, <2>1
    <3>3. QED
      BY <3>1, <3>2
  <2>4. QED
    BY <1>2, <1>5, <2>2, <2>3
<1>6. Inward(r, s, c, lo, hi + 1)
  BY <1>3, <1>4, <1>5 DEF Inward
<1>7. QED
  BY <1>6 DEF r

-----------------------------------------------------------------------------
(* Who carries a word *)

(* What a step leaves alone of what an open connection's words depend on.  *)
Talking(s, c) ==
  /\ TypeOK /\ SockInv /\ OwnInv /\ ~Overlapped /\ ver \in Echoing /\ c \in Conns
  /\ Stands(s) /\ ses[s].sock = c /\ ses'[s].sock # None

(* On an open connection of the session all operations are the session's,  *)
(* and the session has none elsewhere.                                     *)
LEMMA TalkingOps ==
    ASSUME NEW s \in Slots, NEW c, Talking(s, c), NEW d \in Conns
    PROVE  /\ conn[c].st = "open"
           /\ \A i \in DOMAIN conn[d].recvs : conn[d].recvs[i] = s <=> d = c
           /\ \A i \in DOMAIN conn[d].sends : conn[d].sends[i].s = s <=> d = c
           /\ d = c => /\ conn[c].recvs # <<>> => Head(conn[c].recvs) = s
                       /\ conn[c].sends # <<>> => Head(conn[c].sends).s = s /\ Head(conn[c].sends) = conn[c].sends[1]
           /\ d # c => /\ conn[d].recvs # <<>> => Head(conn[d].recvs) # s
                       /\ conn[d].sends # <<>> => Head(conn[d].sends).s # s
<1>1. conn[c].st = "open" /\ ses[s].sock = c /\ ses[s].sock # None /\ c \in Conns /\ TypeOK /\ SockInv /\ OwnInv /\ ~Overlapped
  BY DEF Talking, Stands
<1>2. \A r \in Slots : OwnedBy(r, d) /\ (r = s \/ d = c) => r = s /\ d = c
  BY <1>1 DEF OwnedBy, SockInv
<1>3. /\ \A i \in DOMAIN conn[d].recvs : OwnedBy(conn[d].recvs[i], d) /\ conn[d].recvs[i] \in Slots
      /\ \A i \in DOMAIN conn[d].sends : OwnedBy(conn[d].sends[i].s, d) /\ conn[d].sends[i].s \in Slots
  BY <1>1 DEF OwnInv, TypeOK, OpsOK
<1>4. /\ \A i \in DOMAIN conn[d].recvs : conn[d].recvs[i] = s <=> d = c
      /\ \A i \in DOMAIN conn[d].sends : conn[d].sends[i].s = s <=> d = c
  BY <1>2, <1>3
<1>5. /\ conn[d].recvs # <<>> => 1 \in DOMAIN conn[d].recvs /\ Head(conn[d].recvs) = conn[d].recvs[1]
      /\ conn[d].sends # <<>> => 1 \in DOMAIN conn[d].sends /\ Head(conn[d].sends) = conn[d].sends[1]
  <2>1. conn[d].recvs \in Seq(AllSlots) /\ conn[d].sends \in Seq(Op)
    BY <1>1, ConnFacts DEF Op
  <2>2. QED
    BY <2>1, SeqTail
<1>6. QED
  BY <1>1, <1>4, <1>5

(* Nobody posts a send for the session and none completes: its sends stay. *)
LEMMA SendsView ==
    ASSUME NEW s \in Slots, NEW c, Talking(s, c), Known, ~Sent(c), \A t \in Threads : \A ms \in Text : ~Sending(t, s, ms)
    PROVE  conn'[c].sends = conn[c].sends
<1>1. TypeOK /\ SockInv /\ c \in Conns /\ conn[c].st = "open" /\ ses[s].sock = c
  BY TalkingOps DEF Talking
<1>2. SendsOf[c] = conn[c].sends /\ SendsOf[c] \in Seq(Op) /\ SendsOf'[c] = conn'[c].sends
  BY <1>1, IoFamilies
<1>3. CASE SendsStay
  BY <1>1, <1>3 DEF SendsStay
<1>4. ASSUME NEW d \in Conns, Sent(d) \/ Abort(d), Shrinks(Op, SendsOf, SendsOf', d)
      PROVE  conn'[c].sends = conn[c].sends
  <2>1. d # c
    BY <1>1, <1>4 DEF Abort
  <2>2. SendsOf'[c] = SendsOf[c]
    <3>1. DOMAIN SendsOf = Conns
      BY <1>1, IoFamilies
    <3>2. QED
      BY <1>1, <1>4, <2>1, <3>1 DEF Shrinks, Families
  <2>3. QED
    BY <1>2, <2>2
<1>5. ASSUME NEW t \in Threads, NEW r \in Slots, NEW ms \in Text, Sending(t, r, ms),
             \/ SendsOf' = Base(r, ms)
             \/ Live(r) /\ Extends(Op, Base(r, ms), SendsOf', ses[r].sock, [s |-> r, ms |-> ms])
      PROVE  conn'[c].sends = conn[c].sends
  <2>1. r # s
    BY <1>5
  <2>2. Base(r, ms)[c] = conn[c].sends /\ c \in DOMAIN Base(r, ms)
    <3>1. \A i \in DOMAIN conn[c].sends : conn[c].sends[i].s # r
      BY <1>1, <2>1, TalkingOps
    <3>2. conn[c].sends = [i \in DOMAIN conn[c].sends |-> conn[c].sends[i]]
      BY <1>2
    <3>3. Over(conn[c].sends, r, ms) = conn[c].sends
      BY <3>1, <3>2 DEF Over
    <3>4. c \in DOMAIN Base(r, ms)
      BY <1>1, BaseKept
    <3>5. QED
      BY <1>1, <1>2, <3>3, <3>4 DEF Base
  <2>3. CASE SendsOf' = Base(r, ms)
    BY <1>2, <2>2, <2>3
  <2>4. CASE Live(r) /\ Extends(Op, Base(r, ms), SendsOf', ses[r].sock, [s |-> r, ms |-> ms])
    <3>1. ses[r].sock # c
      BY <1>1, <2>1, <2>4 DEF Live, SockInv
    <3>2. SendsOf'[c] = Base(r, ms)[c]
      BY <2>2, <2>4, <3>1 DEF Extends, Families
    <3>3. QED
      BY <1>2, <2>2, <3>2
  <2>5. QED
    BY <1>5, <2>3, <2>4
<1>6. QED
  BY <1>1, <1>3, <1>4, <1>5, IoMove DEF SendsMoves

(* A sender at movefront moves the front.                                  *)
LEMMA MoveFrontGoes ==
    ASSUME TypeOK, Acts("sender"), pc["sender"].at = "movefront"
    PROVE  Advances
<1>1. "sender" \notin Workers
  BY ThreadFacts
<1>2. ~Leaves("sender") /\ ~CloserWorks("sender")
  BY <1>1 DEF Leaves, CloserWorks, Ends, Blocks, Shuts, Clears, At
<1>3. (\A s \in Slots : ~Finds(s)) /\ ~Claims /\ ~Checks /\ ~Fails /\ \A told \in BOOLEAN : ~Posts(told)
  BY DEF Finds, Claims, Checks, Fails, Posts, SendsAt, At
<1>4. QED
  BY <1>1, <1>2, <1>3 DEF Acts, Works, AccepterWorks, WorkerWorks, PacketWorks, SenderWorks

LEMMA MovingView ==
    ASSUME NEW s \in Slots, NEW c, Talking(s, c), Known, UNCHANGED ver,
           pc["sender"].s = s => ~Advances /\ \A told \in BOOLEAN : ~Posts(told)
    PROVE  Moving(s)' = Moving(s) /\ (Advancing(s)' <=> Advancing(s))
<1>0. "sender" \in Threads \ {"main"} /\ FirstStep("sender") = "scan" /\ TypeOK /\ Stands(s)
  BY ThreadFacts DEF Talking
<1>1. CASE pc'["sender"] = pc["sender"]
  BY <1>1 DEF Moving, Advancing, At
<1>2. ASSUME ~Advancing(s), ~Advancing(s)'
      PROVE  Moving(s)' = Moving(s) /\ (Advancing(s)' <=> Advancing(s))
  BY <1>2 DEF Moving
<1>3. CASE Acts("sender")
  <2>1. ~Advancing(s)
    BY <1>0, <1>3, MoveFrontGoes DEF Advancing, At
  <2>2. ASSUME Advancing(s)'
        PROVE  FALSE
    <3>1. pc'["sender"].at = "movefront" /\ pc'["sender"].s = s
      BY <2>2 DEF Advancing, At
    <3>2. ASSUME NEW told \in BOOLEAN, Posts(told)
          PROVE  FALSE
      BY <1>0, <3>1, <3>2, PostGoes
    <3>3. ~Fails
      <4>1. SUFFICES ASSUME Fails PROVE FALSE
        OBVIOUS
      <4>2. pc'["sender"].s = pc["sender"].s
        <5>1. \A l : Stays("sender", l) => pc'["sender"].s = pc["sender"].s
          BY <1>0, PcAfter
        <5>2. QED
          BY <4>1, <5>1 DEF Fails
      <4>3. ~Stands(pc["sender"].s)
        BY <4>1 DEF Fails, WSASend, Taken
      <4>4. QED
        BY <1>0, <3>1, <4>2, <4>3
    <3>4. QED
      BY <1>0, <1>3, <3>1, <3>2, <3>3, MoveFrontComes
  <2>3. QED
    BY <1>2, <2>1, <2>2
<1>4. CASE pc["sender"].at = "off" /\ pc'["sender"].at \in {FirstStep("sender"), "begin"}
  BY <1>0, <1>2, <1>4 DEF Advancing, At
<1>5. QED
  BY <1>0, <1>1, <1>3, <1>4, PcMove

OutSame(s, c) ==
  /\ conn'[c].heard = conn[c].heard /\ conn'[c].sends = conn[c].sends
  /\ ses'[s].out = ses[s].out /\ Moving(s)' = Moving(s)

LEMMA OutView ==
    ASSUME NEW s \in Slots, NEW c, OutSame(s, c), UNCHANGED ver
    PROVE  (Sendings(s, c)' <=> Sendings(s, c)) /\ Handed(s, c)' = Handed(s, c)
<1>1. Heard(c)' = Heard(c) /\ conn'[c].sends = conn[c].sends /\ ses'[s].out = ses[s].out /\ Moving(s)' = Moving(s) /\ ver' = ver
  BY DEF OutSame, Heard
<1>2. QED
  BY <1>1 DEF Sendings, Handed

(* A step of somebody else leaves what goes out as it is.                  *)
LEMMA OutKept ==
    ASSUME NEW s \in Slots, NEW c, Talking(s, c), Known, UNCHANGED ver, ~Sent(c),
           \A w \in Workers : pc[w].s = s => ~Echoes(w) /\ ~Pops(w),
           pc["packet"].s = s => ~Answers /\ ~Puts /\ ~Lines,
           pc["sender"].s = s => ~Advances /\ \A told \in BOOLEAN : ~Posts(told)
    PROVE  OutSame(s, c)
<1>1. TypeOK /\ c \in Conns /\ SesMoves /\ Calls /\ ses'[s].sock # None
  BY SesMove, CallsKnown DEF Talking
<1>2. conn'[c].heard = conn[c].heard
  BY <1>1, WordsMoved DEF WordsMove
<1>3. \A t \in Threads : \A ms \in Text : ~Sending(t, s, ms)
  BY DEF Sending
<1>4. conn'[c].sends = conn[c].sends
  BY <1>3, SendsView
<1>5. ses'[s].out = ses[s].out
  BY <1>1, OutChanges DEF OutChange
<1>6. QED
  BY <1>2, <1>4, <1>5, MovingView DEF OutSame

PacketSame(s) == (pc'["packet"].s = s <=> pc["packet"].s = s) /\ (pc["packet"].s = s => pc'["packet"].ms = pc["packet"].ms)

(* A step of somebody else leaves the packet thread's packet, the deque    *)
(* and what has arrived as they are.                                       *)
LEMMA PacketView ==
    ASSUME NEW s \in Slots, NEW c, Talking(s, c), Known, UNCHANGED ver, ~(Dequeues /\ Head(deque).s = s),
           pc["packet"].s = s => ~Answers /\ ~Puts /\ ~Lines
    PROVE  PacketSame(s)
<1>0. /\ "packet" \in Threads \ {"main"} /\ "packet" \notin Workers /\ FirstStep("packet") = "take" /\ TypeOK /\ s # None
      /\ ver # "08"
  <2>1. ver # "08"
    BY DEF Talking, Echoing, OneBuffer, Queued
  <2>2. QED
    BY <2>1, ThreadFacts, SlotFacts DEF Talking
<1>1. CASE pc'["packet"] = pc["packet"]
  BY <1>1 DEF PacketSame
<1>2. Fits("packet", pc["packet"])
  BY <1>0, PcFacts
<1>3. pc["packet"].s = s => pc["packet"].at = "send"
  BY <1>0, <1>2, LabelFacts DEF Fits
<1>4. CASE Acts("packet")
  <2>1. Leaves("packet") \/ Dequeues \/ Answers \/ Puts \/ Lines
    BY <1>0, <1>4 DEF Acts, Works, AccepterWorks, WorkerWorks, CloserWorks, PacketWorks, SenderWorks
  <2>2. pc["packet"].s # s
    <3>1. CASE Leaves("packet") \/ Dequeues
      BY <1>0, <1>3, <3>1 DEF Leaves, Dequeues, At
    <3>2. QED
      BY <2>1, <3>1
  <2>3. pc'["packet"].s # s
    <3>1. Rests("packet") => pc'["packet"].s # s
      BY <1>0, PcAfter
    <3>2. Leaves("packet") \/ Answers \/ Puts \/ Lines => Rests("packet")
      BY DEF Leaves, Answers, Puts, Lines
    <3>3. CASE Dequeues
      <4>1. Becomes("packet", [Local("send") EXCEPT !.s = Head(deque).s, !.ms = Head(deque).ms])
        BY <1>0, <3>3 DEF Dequeues
      <4>2. pc'["packet"] = [Local("send") EXCEPT !.s = Head(deque).s, !.ms = Head(deque).ms]
        BY <1>0, <4>1, PcAfter
      <4>3. pc'["packet"].s = Head(deque).s
        BY <4>2 DEF Local
      <4>4. QED
        BY <3>3, <4>3
    <3>4. QED
      BY <2>1, <3>1, <3>2, <3>3
  <2>4. QED
    BY <2>2, <2>3 DEF PacketSame
<1>5. CASE pc["packet"].at = "off" /\ pc'["packet"].s = None
  BY <1>0, <1>3, <1>5 DEF PacketSame
<1>6. QED
  BY <1>0, <1>1, <1>4, <1>5, PcMove

LEMMA DequeMove ==
    ASSUME TypeOK, Known, ver # "08"
    PROVE  \/ deque' = deque
           \/ Dequeues /\ deque # <<>> /\ deque' = Tail(deque)
           \/ \E w \in Workers : Queues(w) /\ deque' = Append(deque, [s |-> pc[w].s, ms |-> pc[w].ms])
<1>1. ASSUME NEW t \in Threads, Acts(t)
      PROVE  \/ deque' = deque
             \/ Dequeues /\ deque # <<>> /\ deque' = Tail(deque)
             \/ \E w \in Workers : Queues(w) /\ deque' = Append(deque, [s |-> pc[w].s, ms |-> pc[w].ms])
  <2>1. CASE Leaves(t)
    BY <2>1 DEF Leaves, mem
  <2>2. CASE AccepterWorks(t)
    BY <2>2 DEF AccepterWorks, Refuses, Chooses, Accepts, Binds, Offers, mem
  <2>3. CASE WorkerWorks(t)
    <3>1. CASE t \in Workers /\ Queues(t)
      BY <3>1 DEF Queues
    <3>2. CASE deque' = deque
      BY <3>2
    <3>3. QED
      BY <2>3, <3>1, <3>2 DEF WorkerWorks, Fetches, WorkerThread01, Reposts, PostToken, Echoes, Frees, Pops, Activates, Unbinds,
                              SendCompleted06, Rebinds, mem, Reusing
  <2>4. CASE CloserWorks(t)
    BY <2>4 DEF CloserWorks, Ends, Blocks, Shuts, Clears, mem
  <2>5. CASE PacketWorks(t)
    BY <2>5 DEF PacketWorks, Dequeues, Answers, Puts, Lines, mem
  <2>6. CASE SenderWorks(t)
    BY <2>6 DEF SenderWorks, Finds, Claims, Checks, Posts, Fails, Advances, mem
  <2>7. QED
    BY <1>1, <2>1, <2>2, <2>3, <2>4, <2>5, <2>6 DEF Acts, Works
<1>2. CASE \E c \in Conns : Connect(c) \/ Say(c) \/ Quit(c) \/ Sent(c) \/ Abort(c)
  BY <1>2 DEF Connect, Say, Quit, Sent, Abort, mem
<1>3. CASE KernelRefuses \/ Manages \/ \E s \in Slots : KernelAccepts(s) \/ Elapse(s)
  BY <1>3 DEF KernelRefuses, KernelAccepts, Elapse, Manages
<1>4. QED
  BY <1>1, <1>2, <1>3 DEF Known

LEMMA DequeView ==
    ASSUME NEW s \in Slots, NEW c, Talking(s, c), Known, ~(Dequeues /\ Head(deque).s = s),
           \A w \in Workers : pc[w].s = s => ~Queues(w), NEW lo, NEW hi, Inward(deque, s, c, lo, hi)
    PROVE  Inward(deque', s, c, lo, hi)
<1>1. TypeOK /\ ver # "08"
  BY DEF Talking, Echoing, OneBuffer, Queued
<1>2. deque \in Seq(Op)
  BY <1>1 DEF TypeOK, QueuesOK, Op
<1>3. ASSUME NEW w \in Workers, Queues(w), deque' = Append(deque, [s |-> pc[w].s, ms |-> pc[w].ms])
      PROVE  Inward(deque', s, c, lo, hi)
  <2>1. pc[w].s \in Slots /\ pc[w].ms \in Text
    BY <1>1, <1>3, GotFacts DEF Queues, At
  <2>2. [s |-> pc[w].s, ms |-> pc[w].ms] \in Op
    BY <1>1, <2>1, SlotFacts DEF Op
  <2>3. QED
    BY <1>2, <1>3, <2>2, InwardElse
<1>4. QED
  BY <1>1, <1>2, <1>3, DequeMove, InwardElse

(* A worker that got a receive echoes it or queues it.                     *)
LEMMA GotActs ==
    ASSUME TypeOK, NEW w \in Workers, Acts(w), pc[w].at = "got", pc[w].op = "recv"
    PROVE  Echoes(w) \/ Queues(w)
<1>1. w \notin {"main", "accepter", "sender", "packet", "redis"}
  BY ThreadFacts
<1>2. ~Leaves(w)
  BY <1>1 DEF Leaves, At
<1>3. ~CloserWorks(w)
  BY DEF CloserWorks, Ends, Blocks, Shuts, Clears, At
<1>4. ~Fetches(w) /\ ~Reposts(w) /\ ~Frees(w) /\ ~Pops(w) /\ ~Activates(w) /\ ~Unbinds(w) /\ ~Rebinds(w)
  BY DEF Fetches, WorkerThread01, Reposts, PostToken, Frees, Pops, SendCompleted06, Activates, Unbinds, Rebinds, At
<1>5. QED
  BY <1>1, <1>2, <1>3, <1>4 DEF Acts, Works, AccepterWorks, WorkerWorks, PacketWorks, SenderWorks

(* The completions of receives of a session in the port's queue.           *)
Queueing(q, s, e) == e.s = s /\ e.op = "recv" /\ \E i \in DOMAIN q : q[i] = e

(* Which completions of receives of the session are in the port's queue.   *)
LEMMA QueueAppend ==
    ASSUME NEW q \in Seq(Completion), NEW x \in Completion, NEW s, ~(x.s = s /\ x.op = "recv")
    PROVE  \A e : Queueing(Append(q, x), s, e) <=> Queueing(q, s, e)
<1> DEFINE S == Completion
<1>1. q \in Seq(S) /\ x \in S
  OBVIOUS
<1> HIDE DEF S
<1>2. /\ Len(q) \in Nat /\ DOMAIN q = 1..Len(q) /\ DOMAIN Append(q, x) = 1..(Len(q) + 1)
      /\ \A i \in 1..Len(q) : Append(q, x)[i] = q[i]
      /\ Append(q, x)[Len(q) + 1] = x
  BY <1>1, SeqAppend
<1> DEFINE r == Append(q, x)
<1>3. /\ \A i \in DOMAIN r : r[i] = x \/ (i \in DOMAIN q /\ r[i] = q[i])
      /\ \A i \in DOMAIN q : i \in DOMAIN r /\ r[i] = q[i]
  BY <1>2
<1> HIDE DEF r
<1>4. \A e : Queueing(r, s, e) <=> Queueing(q, s, e)
  BY <1>3 DEF Queueing
<1>5. QED
  BY <1>4 DEF r

LEMMA QueueTail ==
    ASSUME NEW q \in Seq(Completion), q # <<>>, NEW s, ~(Head(q).s = s /\ Head(q).op = "recv")
    PROVE  \A e : Queueing(Tail(q), s, e) <=> Queueing(q, s, e)
<1> DEFINE S == Completion
<1>1. q \in Seq(S)
  OBVIOUS
<1> HIDE DEF S
<1>2. /\ Len(q) \in Nat /\ DOMAIN q = 1..Len(q) /\ DOMAIN Tail(q) = 1..(Len(q) - 1)
      /\ \A i \in 1..(Len(q) - 1) : Tail(q)[i] = q[i + 1]
      /\ Head(q) = q[1]
  BY <1>1, SeqTail
<1> DEFINE r == Tail(q)
<1>3. /\ \A i \in DOMAIN r : i + 1 \in DOMAIN q /\ r[i] = q[i + 1]
      /\ \A i \in DOMAIN q : q[i] = Head(q) \/ (i - 1 \in DOMAIN r /\ r[i - 1] = q[i])
  BY <1>2
<1> HIDE DEF r
<1>4. \A e : Queueing(r, s, e) <=> Queueing(q, s, e)
  BY <1>3 DEF Queueing
<1>5. QED
  BY <1>4 DEF r

LEMMA QueueView ==
    ASSUME NEW s \in Slots, NEW c, Talking(s, c), Known, ~Say(c),
           \A w \in Workers : Fetches(w) => ~(Head(port).s = s /\ Head(port).op = "recv")
    PROVE  \A e : Queueing(port', s, e) <=> Queueing(port, s, e)
<1>1. TypeOK /\ s # None /\ c \in Conns /\ conn[c].st = "open"
  BY SlotFacts, TalkingOps DEF Talking
<1>2. port \in Seq(Completion)
  BY <1>1 DEF TypeOK, PortOK
<1>3. CASE port' = Append(port, Token)
  <2>1. Token \in Completion /\ Token.s = None
    BY DEF Token, Done, Completion, Text
  <2>2. QED
    BY <1>1, <1>2, <1>3, <2>1, QueueAppend
<1>4. ASSUME NEW d \in Conns, Say(d) \/ Sent(d) \/ Abort(d)
      PROVE  \A e : Queueing(port', s, e) <=> Queueing(port, s, e)
  <2>1. PICK e \in Completion : Arrives(d, e)
    BY <1>1, <1>4, EnvDone
  <2>2. ~(e.s = s /\ e.op = "recv")
    <3>1. SUFFICES ASSUME e.s = s, e.op = "recv" PROVE FALSE
      OBVIOUS
    <3>2. conn[d].recvs # <<>> /\ Head(conn[d].recvs) = s
      BY <2>1, <3>1 DEF Arrives
    <3>3. d = c
      BY <3>2, TalkingOps
    <3>4. Say(c) \/ Abort(c)
      BY <2>1, <3>1, <3>3 DEF Arrives
    <3>5. QED
      BY <1>1, <3>4 DEF Abort
  <2>3. QED
    BY <1>2, <2>1, <2>2, QueueAppend DEF Arrives
<1>5. ASSUME NEW r, NEW ok \in BOOLEAN, r \in {None} \cup Slots, port' \in {port, Append(port, Done("accept", r, ok, <<>>))}
      PROVE  \A e : Queueing(port', s, e) <=> Queueing(port, s, e)
  <2> DEFINE x == Done("accept", r, ok, <<>>)
  <2>1. x \in Completion /\ x.op = "accept"
    BY <1>1, <1>5, SlotFacts DEF Done, Completion, Text
  <2>2. port' = port \/ port' = Append(port, x)
    BY <1>5
  <2> HIDE DEF x
  <2>3. CASE port' = port
    BY <2>3
  <2>4. CASE port' = Append(port, x)
    <3>1. ~(x.s = s /\ x.op = "recv")
      BY <2>1
    <3>2. \A e : Queueing(Append(port, x), s, e) <=> Queueing(port, s, e)
      BY <1>2, <2>1, <3>1, QueueAppend
    <3>3. QED
      BY <2>4, <3>2
  <2>5. QED
    BY <2>2, <2>3, <2>4
<1>6. CASE KernelRefuses
  BY <1>5, <1>6 DEF KernelRefuses
<1>7. ASSUME NEW r \in Slots, KernelAccepts(r)
      PROVE  \A e : Queueing(port', s, e) <=> Queueing(port, s, e)
  BY <1>5, <1>7 DEF KernelAccepts
<1>8. ASSUME NEW w \in Workers, Fetches(w)
      PROVE  \A e : Queueing(port', s, e) <=> Queueing(port, s, e)
  <2>1. port # <<>> /\ port' = Tail(port)
    BY <1>1, <1>8, FetchGoes
  <2>2. QED
    BY <1>2, <1>8, <2>1, QueueTail
<1>9. QED
  BY <1>3, <1>4, <1>6, <1>7, <1>8, PortMove DEF PortMoves

WorkersSame(s) == \A w \in Workers : (Fetched(w, s)' <=> Fetched(w, s)) /\ (Fetched(w, s) => pc'[w].ms = pc[w].ms)

LEMMA FetchedView ==
    ASSUME NEW s \in Slots, TypeOK, Known, NEW w \in Workers,
           Fetches(w) => ~(Head(port).s = s /\ Head(port).op = "recv"),
           pc[w].s = s => ~Echoes(w) /\ ~Queues(w)
    PROVE  (Fetched(w, s)' <=> Fetched(w, s)) /\ (Fetched(w, s) => pc'[w].ms = pc[w].ms)
<1>1. w \in Threads \ {"main"} /\ FirstStep(w) = "wait"
  BY ThreadFacts
<1>2. CASE pc'[w] = pc[w]
  BY <1>2 DEF Fetched, At
<1>3. CASE Acts(w)
  <2>1. ~Fetched(w, s)
    BY <1>3, GotActs DEF Fetched, At
  <2>2. ~Fetched(w, s)'
    <3>1. SUFFICES ASSUME pc'[w].at = "got", pc'[w].op = "recv", pc'[w].s = s PROVE FALSE
      BY DEF Fetched, At
    <3>2. Fetches(w)
      BY <1>3, <3>1, GotGoes
    <3>3. Head(port).s = s /\ Head(port).op = "recv"
      BY <3>1, <3>2, FetchGoes
    <3>4. QED
      BY <3>2, <3>3
  <2>3. QED
    BY <2>1, <2>2
<1>4. CASE pc[w].at = "off" /\ pc'[w].at \in {FirstStep(w), "begin"}
  BY <1>1, <1>4 DEF Fetched, At
<1>5. QED
  BY <1>1, <1>2, <1>3, <1>4, PcMove

LEMMA RecvView ==
    ASSUME NEW s \in Slots, NEW c, conn'[c].said = conn[c].said, WorkersSame(s),
           \A e : Queueing(port', s, e) <=> Queueing(port, s, e)
    PROVE  /\ RecvOrder(s, c)' <=> RecvOrder(s, c)
           /\ Arrived(s)' <=> Arrived(s)
           /\ Kept(s, c)' = Kept(s, c)
<1>1. Arrived(s)' <=> Arrived(s)
  BY DEF Arrived, Queueing, WorkersSame
<1>2. RecvOrder(s, c)' <=> RecvOrder(s, c)
  BY DEF RecvOrder, Queueing, WorkersSame
<1>3. Kept(s, c)' = Kept(s, c)
  BY <1>1 DEF Kept
<1>4. QED
  BY <1>1, <1>2, <1>3

(* What a client's saying something and the end of a send do.              *)
LEMMA SayIs ==
    ASSUME TypeOK, NEW c \in Conns, Say(c)
    PROVE  /\ conn[c].st = "open" /\ conn[c].recvs # <<>> /\ (kind = "pingpong" => Heard(c) >= conn[c].said)
           /\ conn'[c].said = conn[c].said + 1 /\ conn'[c].heard = conn[c].heard /\ conn'[c].sends = conn[c].sends
           /\ port' = Append(port, Done("recv", Head(conn[c].recvs), TRUE, <<Word(c, conn[c].said + 1)>>))
           /\ UNCHANGED <<pc, ses, deque>>
<1>1. conn[c] \in ConnRec /\ conn \in [Conns -> ConnRec]
  BY DEF TypeOK, ConnOK
<1>2. conn' = [conn EXCEPT ![c].said = @ + 1, ![c].recvs = Tail(@)]
  BY DEF Say
<1>3. conn'[c].said = conn[c].said + 1 /\ conn'[c].heard = conn[c].heard /\ conn'[c].sends = conn[c].sends
  BY <1>1, <1>2 DEF ConnRec
<1>4. QED
  BY <1>3 DEF Say, Heard, Word, mem

LEMMA SentIs ==
    ASSUME TypeOK, NEW c \in Conns, Sent(c)
    PROVE  /\ conn[c].st = "open" /\ conn[c].sends # <<>>
           /\ conn'[c].heard = conn[c].heard \o Head(conn[c].sends).ms /\ conn'[c].sends = Tail(conn[c].sends)
           /\ conn'[c].said = conn[c].said
           /\ UNCHANGED <<pc, ses, deque>>
<1>1. conn[c] \in ConnRec /\ conn \in [Conns -> ConnRec]
  BY DEF TypeOK, ConnOK
<1> DEFINE m == Head(conn[c].sends).ms
<1>2. conn' = [conn EXCEPT ![c].heard = @ \o m, ![c].sends = Tail(@)]
  BY DEF Sent
<1> HIDE DEF m
<1>3. conn'[c].heard = conn[c].heard \o m /\ conn'[c].sends = Tail(conn[c].sends) /\ conn'[c].said = conn[c].said
  BY <1>1, <1>2 DEF ConnRec
<1>4. QED
  BY <1>3 DEF Sent, mem, m

(* One thread at a time does something for what a client said.             *)
Carries(t, s) ==
  \/ t \in Workers /\ (Fetches(t) \/ (pc[t].s = s /\ (Echoes(t) \/ Queues(t) \/ Pops(t))))
  \/ t = "packet" /\ (Dequeues \/ (pc[t].s = s /\ (Answers \/ Puts \/ Lines)))
  \/ t = "sender" /\ pc[t].s = s /\ (Advances \/ \E told \in BOOLEAN : Posts(told))

LEMMA CarriesAlone ==
    ASSUME TypeOK, ver # "08", NEW t, NEW s, Carries(t, s)
    PROVE  t \in Threads /\ pc'[t] # pc[t] /\ \A u \in Threads \ {t} : pc'[u] = pc[u]
<1>0. t \in Threads
  BY ThreadFacts DEF Carries
<1>1. ASSUME t \in Workers, Fetches(t)
      PROVE  pc'[t] # pc[t] /\ OthersStay(t)
  <2>1. pc'[t].at # pc[t].at
    BY <1>1, FetchGoes
  <2>2. OthersStay(t)
    BY <1>0, <1>1, OthersAre
  <2>3. QED
    BY <2>1, <2>2
<1>2. ASSUME NEW l, Stays(t, l), pc[t].at # l
      PROVE  pc'[t] # pc[t] /\ OthersStay(t)
  BY <1>0, <1>2, PcAfter, OthersAre
<1>3. ASSUME Rests(t), pc[t].at \notin {FirstStep(t), "ended"}
      PROVE  pc'[t] # pc[t] /\ OthersStay(t)
  BY <1>0, <1>3, PcAfter, OthersAre
<1>4. ASSUME NEW w \in Workers, t = w, Echoes(w) \/ Queues(w)
      PROVE  Stays(t, "rebind") /\ pc[t].at = "got"
  BY <1>4 DEF Echoes, Queues, At
<1>5. ASSUME t \in Workers, Pops(t)
      PROVE  Rests(t) /\ pc[t].at = "got" /\ FirstStep(t) = "wait"
  <2>1. Rest(t) /\ pc[t].at = "got"
    BY <1>5 DEF Pops, SendCompleted06, At
  <2>2. QED
    BY <1>0, <1>5, <2>1, RestIs, ThreadFacts
<1>6. ASSUME t = "packet", Answers \/ Puts \/ Lines
      PROVE  Rests(t) /\ pc[t].at = "send" /\ FirstStep(t) = "take"
  BY <1>6, ThreadFacts DEF Answers, Puts, Lines, At
<1>7. ASSUME t = "packet", Dequeues
      PROVE  pc'[t] # pc[t] /\ OthersStay(t)
  <2>1. At("packet", "take") /\ Becomes("packet", [Local("send") EXCEPT !.s = Head(deque).s, !.ms = Head(deque).ms])
    BY <1>7 DEF Dequeues
  <2>2. pc'[t] = [Local("send") EXCEPT !.s = Head(deque).s, !.ms = Head(deque).ms] /\ OthersStay(t)
    BY <1>0, <1>7, <2>1, PcAfter, OthersAre
  <2>3. pc'[t].at = "send"
    BY <2>2 DEF Local
  <2>4. QED
    BY <1>7, <2>1, <2>2, <2>3 DEF At
<1>8. ASSUME t = "sender", Advances
      PROVE  Rests(t) /\ pc[t].at = "movefront" /\ FirstStep(t) = "scan"
  BY <1>8, ThreadFacts DEF Advances, At
<1>9. ASSUME t = "sender", NEW told \in BOOLEAN, Posts(told)
      PROVE  pc'[t] # pc[t] /\ OthersStay(t)
  <2>1. pc'[t].at # pc[t].at
    BY <1>9, PostGoes
  <2>2. \E r : Becomes(t, r)
    BY <1>9 DEF Posts, Stays
  <2>3. OthersStay(t)
    BY <1>0, <2>2, OthersAre
  <2>4. QED
    BY <2>1, <2>3
<1>10. pc'[t] # pc[t] /\ OthersStay(t)
  <2>1. CASE t \in Workers /\ (Echoes(t) \/ Queues(t))
    BY <1>2, <1>4, <2>1
  <2>2. CASE (t \in Workers /\ Pops(t)) \/ (t = "packet" /\ (Answers \/ Puts \/ Lines)) \/ (t = "sender" /\ Advances)
    BY <1>3, <1>5, <1>6, <1>8, <2>2
  <2>3. QED
    BY <1>1, <1>7, <1>9, <2>1, <2>2 DEF Carries
<1>11. QED
  BY <1>0, <1>10 DEF OthersStay

(* One thread at a time carries a word on.                                 *)
LEMMA CarriesOne ==
    ASSUME TypeOK, ver # "08", NEW t, NEW s, Carries(t, s)
    PROVE  /\ \A u : u # t => ~Carries(u, s)
           /\ \A c \in Conns : ~Say(c) /\ ~Sent(c)
<1>1. pc'[t] # pc[t] /\ t \in Threads /\ \A u \in Threads \ {t} : pc'[u] = pc[u]
  BY CarriesAlone
<1>2. ASSUME NEW u, u # t, Carries(u, s)
      PROVE  FALSE
  BY <1>1, <1>2, CarriesAlone
<1>3. ASSUME NEW c \in Conns, Say(c) \/ Sent(c)
      PROVE  FALSE
  BY <1>1, <1>3, SayIs, SentIs
<1>4. QED
  BY <1>2, <1>3

(* What was received for the session and not yet queued or echoed.         *)
RecvSame(s, c) == /\ RecvOrder(s, c)' <=> RecvOrder(s, c)
                  /\ Arrived(s)' <=> Arrived(s)
                  /\ Kept(s, c)' = Kept(s, c) /\ conn'[c].said = conn[c].said

(* A step of somebody else leaves the receiving side as it is.             *)
LEMMA RecvSide ==
    ASSUME NEW s \in Slots, NEW c, Talking(s, c), Known, ~Say(c),
           \A w \in Workers : Fetches(w) => ~(Head(port).s = s /\ Head(port).op = "recv"),
           \A w \in Workers : pc[w].s = s => ~Echoes(w) /\ ~Queues(w)
    PROVE  RecvSame(s, c)
<1>1. TypeOK /\ c \in Conns /\ Calls
  BY CallsKnown DEF Talking
<1>2. conn'[c].said = conn[c].said
  BY <1>1, WordsMoved DEF WordsMove
<1>3. WorkersSame(s)
  BY <1>1, FetchedView DEF WorkersSame
<1>4. \A e : Queueing(port', s, e) <=> Queueing(port, s, e)
  BY QueueView
<1>5. QED
  BY <1>2, <1>3, <1>4, RecvView DEF RecvSame

(* The numbers in the order are numbers.                                   *)
LEMMA OrderFacts ==
    ASSUME TypeOK, NEW s \in Slots, NEW c \in Conns
    PROVE  /\ Heard(c) \in Nat /\ Moving(s) \in Nat /\ Posted(ver, conn[c].sends) \in Nat /\ conn[c].sends \in Seq(Op)
           /\ conn[c].heard \in Text /\ conn[c].said \in Nat
           /\ Handed(s, c) \in Int /\ Passed(s, c) \in Int /\ Kept(s, c) \in Int
<1>1. conn[c].sends \in Seq(Op) /\ conn[c].heard \in Text /\ conn[c].said \in Nat
  BY ConnFacts DEF Op
<1>2. Heard(c) \in Nat
  BY <1>1 DEF Heard, Text
<1>3. Moving(s) \in Nat
  <2>1. pc["sender"].ms \in Text
    BY PcFacts, ThreadFacts
  <2>2. QED
    BY <2>1 DEF Moving, Text
<1>4. Posted(ver, conn[c].sends) \in Nat
  <2> DEFINE q == conn[c].sends
  <2>1. q \in Seq(Op)
    BY <1>1
  <2> HIDE DEF q
  <2>2. Len(q) \in Nat
    BY <2>1, SendsSeq
  <2>3. q # <<>> => Len(q[1].ms) \in Nat
    <3>1. q # <<>> => q[1].ms \in Text
      BY <2>1, SendsSeq
    <3>2. QED
      BY <3>1 DEF Text
  <2>4. Posted(ver, q) \in Nat
    BY <2>2, <2>3 DEF Posted
  <2>5. QED
    BY <2>4 DEF q
<1>5. Len(ses[s].out) \in Nat
  <2>1. ver = "06" => ses[s].out \in Seq(Text)
    BY SesFacts
  <2>2. ver # "06" => ses[s].out \in Text
    BY SesFacts
  <2>3. QED
    BY <2>1, <2>2 DEF Text
<1>6. Handed(s, c) \in Int
  <2>1. Before(ver, Heard(c), conn[c].sends, ses[s].out, Moving(s)) \in Int
    BY <1>2, <1>3, <1>4 DEF Before
  <2>2. QED
    BY <1>2, <1>4, <1>5, <2>1 DEF Handed, Reached
<1>7. Passed(s, c) \in Int /\ Kept(s, c) \in Int
  BY <1>1, <1>6 DEF Passed, Kept
<1>8. QED
  BY <1>1, <1>2, <1>3, <1>4, <1>6, <1>7

(* The packet thread's word is the next one as long as what was handed on  *)
(* is the same.                                                            *)
LEMMA PassedSame ==
    ASSUME NEW s, NEW c, PacketSame(s), Handed(s, c)' = Handed(s, c)
    PROVE  Passed(s, c)' = Passed(s, c) /\ (PacketOrder(s, c)' <=> PacketOrder(s, c))
<1>1. Passed(s, c)' = Passed(s, c)
  BY DEF Passed, PacketSame
<1>2. QED
  BY <1>1 DEF PacketOrder, PacketSame

(* A step with a connection that stays open, in whose session the words of *)
(* its client are in order.                                                *)
Carrying(s, c) ==
  /\ Talking(s, c) /\ TypeOK' /\ Known /\ UNCHANGED ver /\ InOrder(s, c) /\ Slots' = Slots
  /\ ver \in OneBuffer => kind = "pingpong"

(* What Carrying says, in parts.                                           *)
LEMMA CarryingFacts ==
    ASSUME NEW s \in Slots, NEW c, Carrying(s, c)
    PROVE  /\ TypeOK /\ TypeOK' /\ c \in Conns /\ ver # "08" /\ Stands(s) /\ ses[s].sock = c /\ s # None
           /\ Heard(c) \in Nat /\ Moving(s) \in Nat /\ Posted(ver, conn[c].sends) \in Nat /\ conn[c].sends \in Seq(Op)
           /\ conn[c].heard \in Text /\ conn[c].said \in Nat
           /\ Handed(s, c) \in Int /\ Passed(s, c) \in Int /\ Kept(s, c) \in Int
<1>1. /\ TypeOK /\ TypeOK' /\ c \in Conns /\ Stands(s) /\ ses[s].sock = c /\ ver # "08"
  BY DEF Carrying, Talking, Echoing, OneBuffer, Queued
<1>2. s # None
  BY <1>1, SlotFacts
<1>3. QED
  BY <1>1, <1>2, OrderFacts

(* A step that is none of those that move the words.                       *)
LEMMA SilentOrder ==
    ASSUME NEW s \in Slots, NEW c, Carrying(s, c), ~Say(c), ~Sent(c),
           \A w \in Workers : Fetches(w) => ~(Head(port).s = s /\ Head(port).op = "recv"),
           \A w \in Workers : pc[w].s = s => ~Echoes(w) /\ ~Queues(w) /\ ~Pops(w),
           ~(Dequeues /\ Head(deque).s = s),
           pc["packet"].s = s => ~Answers /\ ~Puts /\ ~Lines,
           pc["sender"].s = s => ~Advances /\ \A told \in BOOLEAN : ~Posts(told)
    PROVE  InOrder(s, c)'
<1>1. Talking(s, c) /\ Known /\ UNCHANGED ver /\ InOrder(s, c)
  BY DEF Carrying
<1>2. OutSame(s, c)
  BY <1>1, OutKept
<1>3. (Sendings(s, c)' <=> Sendings(s, c)) /\ Handed(s, c)' = Handed(s, c)
  BY <1>1, <1>2, OutView
<1>4. PacketSame(s)
  BY <1>1, PacketView
<1>5. Passed(s, c)' = Passed(s, c) /\ (PacketOrder(s, c)' <=> PacketOrder(s, c))
  BY <1>3, <1>4, PassedSame
<1>6. RecvSame(s, c)
  BY <1>1, RecvSide
<1>7. Inward(deque', s, c, Passed(s, c), Kept(s, c))
  BY <1>1, DequeView DEF InOrder
<1>8. Heard(c)' = Heard(c)
  BY <1>2 DEF OutSame, Heard
<1>9. QED
  BY <1>1, <1>3, <1>5, <1>6, <1>7, <1>8 DEF InOrder, RecvSame

(* While the client speaks or hears, no thread moves.                      *)
LEMMA EnvCarries ==
    ASSUME NEW s \in Slots, NEW c, Carrying(s, c), Say(c) \/ Sent(c)
    PROVE  /\ \A w \in Workers : pc[w].s = s => ~Echoes(w) /\ ~Queues(w) /\ ~Pops(w)
           /\ \A w \in Workers : ~Fetches(w)
           /\ ~Dequeues
           /\ pc["packet"].s = s => ~Answers /\ ~Puts /\ ~Lines
           /\ pc["sender"].s = s => ~Advances /\ \A told \in BOOLEAN : ~Posts(told)
<1>1. \A t : ~Carries(t, s)
  BY CarryingFacts, CarriesOne
<1>2. QED
  BY <1>1 DEF Carries

LEMMA ArrivedOne ==
    ASSUME TypeOK, NEW s \in Slots, NEW c \in Conns, OneRecv(s)
    PROVE  /\ conn[c].recvs # <<>> /\ Head(conn[c].recvs) = s => ~Arrived(s)
           /\ \A w \in Workers : Fetched(w, s) =>
                /\ \A i \in DOMAIN port : ~(port[i].s = s /\ port[i].op = "recv")
                /\ \A v \in Workers : Fetched(v, s) => v = w
           /\ \A i, j \in DOMAIN port : port[i].s = s /\ port[i].op = "recv" /\ port[j].s = s /\ port[j].op = "recv" => i = j
           /\ \A i \in DOMAIN port : port[i].s = s /\ port[i].op = "recv" => \A w \in Workers : ~Fetched(w, s)
<1>1. \A i \in DOMAIN port : port[i].s = s /\ port[i].op = "recv" => port[i] \in RecvsDone(s)
  <2>1. port \in Seq(Completion)
    BY DEF TypeOK, PortOK
  <2>2. \A i \in DOMAIN port : port[i] \in Completion
    BY <2>1
  <2>3. QED
    BY <2>2 DEF RecvsDone
<1>2. \A w \in Workers : Fetched(w, s) => w \in RecvHolders(s)
  BY DEF Fetched, RecvHolders, Receiving, At
<1>3. conn[c].recvs # <<>> /\ Head(conn[c].recvs) = s => ~NoneIn(RecvsOf[c], {s}) /\ c \in DOMAIN RecvsOf
  <2>1. RecvsOf[c] = conn[c].recvs
    BY IoFamilies
  <2>2. c \in DOMAIN RecvsOf
    BY IoFamilies
  <2>3. conn[c].recvs \in Seq(AllSlots)
    BY ConnFacts
  <2>4. conn[c].recvs # <<>> => 1 \in DOMAIN conn[c].recvs /\ Head(conn[c].recvs) = conn[c].recvs[1]
    BY <2>3, SeqTail
  <2>5. QED
    BY <2>1, <2>2, <2>4 DEF NoneIn
<1>4. /\ OneIn(port, RecvsDone(s)) /\ \A v, w \in RecvHolders(s) : v = w
      /\ (\A d \in DOMAIN RecvsOf : NoneIn(RecvsOf[d], {s})) \/ (NoneIn(port, RecvsDone(s)) /\ RecvHolders(s) = {})
      /\ NoneIn(port, RecvsDone(s)) \/ RecvHolders(s) = {}
  BY DEF OneRecv, Single
<1>5. conn[c].recvs # <<>> /\ Head(conn[c].recvs) = s => ~Arrived(s)
  BY <1>1, <1>2, <1>3, <1>4 DEF NoneIn, Arrived
<1>6. \A i \in DOMAIN port : port[i].s = s /\ port[i].op = "recv" => \A w \in Workers : ~Fetched(w, s)
  BY <1>1, <1>2, <1>4 DEF NoneIn
<1>7. \A i, j \in DOMAIN port : port[i].s = s /\ port[i].op = "recv" /\ port[j].s = s /\ port[j].op = "recv" => i = j
  BY <1>1, <1>4 DEF OneIn
<1>8. QED
  BY <1>2, <1>4, <1>5, <1>6, <1>7

(* A client says its next word: it arrives after those before it.          *)
LEMMA SayOrder ==
    ASSUME NEW s \in Slots, NEW c, Carrying(s, c), OneRecv(s), Say(c)
    PROVE  InOrder(s, c)'
<1>1. Talking(s, c) /\ Known /\ UNCHANGED ver /\ InOrder(s, c) /\ TypeOK /\ c \in Conns
  BY CarryingFacts DEF Carrying
<1>2. /\ conn[c].recvs # <<>> /\ conn'[c].said = conn[c].said + 1 /\ conn'[c].heard = conn[c].heard
      /\ UNCHANGED <<pc, ses, deque>> /\ (kind = "pingpong" => Heard(c) >= conn[c].said)
      /\ port' = Append(port, Done("recv", Head(conn[c].recvs), TRUE, <<Word(c, conn[c].said + 1)>>))
  BY <1>1, SayIs
<1>3. Head(conn[c].recvs) = s
  BY <1>1, <1>2, TalkingOps
<1>4. ~Sent(c)
  <2>1. conn[c].said \in Nat
    BY CarryingFacts
  <2>2. ASSUME Sent(c)
        PROVE  FALSE
    <3>1. conn'[c].said = conn[c].said
      BY <1>1, <2>2, SentIs
    <3>2. QED
      BY <1>2, <2>1, <3>1
  <2>3. QED
    BY <2>2
<1>5. OutSame(s, c)
  BY <1>1, <1>4, EnvCarries, OutKept
<1>6. (Sendings(s, c)' <=> Sendings(s, c)) /\ Handed(s, c)' = Handed(s, c)
  BY <1>1, <1>5, OutView
<1>7. PacketSame(s)
  BY <1>2 DEF PacketSame
<1>8. Passed(s, c)' = Passed(s, c) /\ (PacketOrder(s, c)' <=> PacketOrder(s, c))
  BY <1>6, <1>7, PassedSame
<1>9. ~Arrived(s)
  BY <1>1, <1>2, <1>3, ArrivedOne
<1> DEFINE e == Done("recv", s, TRUE, <<Word(c, conn[c].said + 1)>>)
<1>10. e.s = s /\ e.op = "recv" /\ e.ok /\ e.ms = <<Word(c, conn'[c].said)>> /\ port' = Append(port, e) /\ e \in Completion
  <2>1. e.s = s /\ e.op = "recv" /\ e.ok /\ e.ms = <<Word(c, conn'[c].said)>> /\ port' = Append(port, e)
    BY <1>2, <1>3 DEF Done
  <2>2. Word(c, conn[c].said + 1) \in Msg
    BY <1>1, CarryingFacts DEF Word, Msg, Conns
  <2>3. <<Word(c, conn[c].said + 1)>> \in Text
    BY <2>2 DEF Text
  <2>4. s \in {None} \cup AllSlots
    BY <1>1, SlotFacts
  <2>5. QED
    BY <2>1, <2>3, <2>4 DEF Done, Completion
<1> HIDE DEF e
<1>11. RecvOrder(s, c)' /\ Arrived(s)'
  <2>1. port \in Seq(Completion)
    BY <1>1 DEF TypeOK, PortOK
  <2>2. \A i \in DOMAIN port' : port'[i] = e \/ \E j \in DOMAIN port : port'[i] = port[j]
    BY <1>10, <2>1, AppendOne
  <2>3. \A i \in DOMAIN port' : port'[i].s = s /\ port'[i].op = "recv" => port'[i] = e
    BY <1>9, <2>2 DEF Arrived
  <2>4. \A w \in Workers : ~Fetched(w, s)'
    BY <1>2, <1>9 DEF Arrived, Fetched, At
  <2>5. \E i \in DOMAIN port' : port'[i] = e
    <3>1. Len(port) + 1 \in DOMAIN Append(port, e) /\ Append(port, e)[Len(port) + 1] = e
      BY <1>10, <2>1, SeqAppend
    <3>2. QED
      BY <1>10, <3>1
  <2>6. Arrived(s)'
    BY <1>10, <2>5 DEF Arrived
  <2>7. RecvOrder(s, c)'
    BY <1>10, <2>3, <2>4 DEF RecvOrder
  <2>8. QED
    BY <2>6, <2>7
<1>12. Kept(s, c)' = Kept(s, c)
  BY <1>2, <1>9, <1>11, CarryingFacts DEF Kept
<1>13. Heard(c)' = Heard(c)
  BY <1>2 DEF Heard
<1>14. ver \in OneBuffer => conn'[c].said <= Heard(c)' + 1
  BY <1>2, <1>13, CarryingFacts DEF Carrying
<1>15. Sendings(s, c)' /\ PacketOrder(s, c)' /\ Inward(deque', s, c, Passed(s, c)', Kept(s, c)')
  BY <1>1, <1>2, <1>6, <1>8, <1>12 DEF InOrder
<1>16. Passed(s, c)' <= Kept(s, c)' /\ (ver' \in OneBuffer => Passed(s, c)' = Kept(s, c)' /\ conn'[c].said <= Heard(c)' + 1)
  BY <1>1, <1>8, <1>12, <1>14 DEF InOrder
<1>17. QED
  BY <1>11, <1>15, <1>16 DEF InOrder

-----------------------------------------------------------------------------
(* Step by step *)

LEMMA CarriedElse ==
    ASSUME NEW s \in Slots, NEW c, Carrying(s, c), NEW t, Carries(t, s)
    PROVE  /\ ~Say(c) /\ ~Sent(c) /\ \A u : u # t => ~Carries(u, s)
           /\ conn'[c].said = conn[c].said /\ conn'[c].heard = conn[c].heard /\ Heard(c)' = Heard(c)
           /\ t \in Threads /\ \A u \in Threads \ {t} : pc'[u] = pc[u]
           /\ t \notin Workers => RecvSame(s, c)
           /\ t # "packet" => PacketSame(s)
           /\ t # "sender" => Moving(s)' = Moving(s)
           /\ t = "sender" => Inward(deque', s, c, Passed(s, c), Kept(s, c))
<1>0. TypeOK /\ c \in Conns /\ ver # "08" /\ Talking(s, c) /\ Known /\ UNCHANGED ver /\ InOrder(s, c)
  BY CarryingFacts DEF Carrying
<1>1. ~Say(c) /\ ~Sent(c) /\ \A u : u # t => ~Carries(u, s)
  BY <1>0, CarriesOne
<1>2. t \in Threads /\ \A u \in Threads \ {t} : pc'[u] = pc[u]
  BY <1>0, CarriesAlone
<1>3. WordsMove(c)
  BY <1>0, CallsKnown, WordsMoved
<1>4. conn'[c].said = conn[c].said /\ conn'[c].heard = conn[c].heard /\ Heard(c)' = Heard(c)
  BY <1>1, <1>3 DEF WordsMove, Heard
<1>5. ASSUME t \notin Workers
      PROVE  RecvSame(s, c)
  <2>1. \A w \in Workers : ~Carries(w, s)
    BY <1>1, <1>5
  <2>2. \A w \in Workers : ~Fetches(w) /\ (pc[w].s = s => ~Echoes(w) /\ ~Queues(w))
    BY <2>1 DEF Carries
  <2>3. QED
    BY <1>0, <1>1, <2>2, RecvSide
<1>6. ASSUME t # "packet"
      PROVE  PacketSame(s)
  <2>1. ~Carries("packet", s)
    BY <1>1, <1>6
  <2>2. ~Dequeues /\ (pc["packet"].s = s => ~Answers /\ ~Puts /\ ~Lines)
    BY <2>1 DEF Carries
  <2>3. QED
    BY <1>0, <2>2, PacketView
<1>7. ASSUME t # "sender"
      PROVE  Moving(s)' = Moving(s)
  <2>1. ~Carries("sender", s)
    BY <1>1, <1>7
  <2>2. pc["sender"].s = s => ~Advances /\ \A told \in BOOLEAN : ~Posts(told)
    BY <2>1 DEF Carries
  <2>3. QED
    BY <1>0, <2>2, MovingView
<1>8. ASSUME t = "sender"
      PROVE  Inward(deque', s, c, Passed(s, c), Kept(s, c))
  <2>1. ~Carries("packet", s) /\ \A w \in Workers : ~Carries(w, s)
    BY <1>1, <1>8, ThreadFacts
  <2>2. ~Dequeues /\ \A w \in Workers : pc[w].s = s => ~Queues(w)
    BY <2>1 DEF Carries
  <2>3. Inward(deque, s, c, Passed(s, c), Kept(s, c))
    BY <1>0 DEF InOrder
  <2>4. QED
    BY <1>0, <2>2, <2>3, DequeView
<1>9. QED
  BY <1>1, <1>2, <1>4, <1>5, <1>6, <1>7, <1>8

(* The end of a send. *)
LEMMA SentOrder ==
    ASSUME NEW s \in Slots, NEW c, Carrying(s, c), Sent(c)
    PROVE  InOrder(s, c)' /\ (Counts(conn[c].heard, c, 0) => Counts(conn'[c].heard, c, 0))
<1>0. TypeOK /\ c \in Conns /\ Talking(s, c) /\ Known /\ UNCHANGED ver /\ InOrder(s, c)
  BY CarryingFacts DEF Carrying
<1> DEFINE q == conn[c].sends  h == Heard(c)  ms == q[1].ms
<1>1. /\ q # <<>> /\ conn'[c].heard = conn[c].heard \o Head(q).ms /\ conn'[c].sends = Tail(q)
      /\ conn'[c].said = conn[c].said /\ UNCHANGED <<pc, ses, deque>>
  BY <1>0, SentIs
<1>2. Head(q) = q[1]
  BY <1>0, <1>1, TalkingOps
<1>3. ~Say(c)
  <2>1. ASSUME Say(c)
        PROVE  FALSE
    <3>1. conn'[c].said = conn[c].said + 1
      BY <1>0, <2>1, SayIs
    <3>2. QED
      BY <1>1, <3>1, CarryingFacts
  <2>2. QED
    BY <2>1
<1>4. RecvSame(s, c)
  BY <1>0, <1>3, EnvCarries, RecvSide
<1>5. Moving(s)' = Moving(s)
  BY <1>0, EnvCarries, MovingView
<1>6. /\ h \in Nat /\ q \in Seq(Op) /\ Moving(s) \in Int /\ Moving(s) \in Nat
  BY CarryingFacts
<1>7. /\ Counts(ms, c, h) /\ h + Len(ms) \in Nat
      /\ Outward(ver, c, h + Len(ms), Tail(q), ses[s].out, Moving(s))
      /\ Reached(ver, h + Len(ms), Tail(q), ses[s].out, Moving(s)) = Handed(s, c)
  <2>1. Outward(ver, c, h, q, ses[s].out, Moving(s))
    BY <1>0 DEF InOrder, Sendings
  <2>2. ver = "06" \/ ver \in Ringed \/ ver \notin Queued
    BY DEF Ringed, Queued
  <2> HIDE DEF q, h
  <2>3. /\ Counts(q[1].ms, c, h) /\ h + Len(q[1].ms) \in Nat
        /\ Outward(ver, c, h + Len(q[1].ms), Tail(q), ses[s].out, Moving(s))
        /\ Reached(ver, h + Len(q[1].ms), Tail(q), ses[s].out, Moving(s)) = Reached(ver, h, q, ses[s].out, Moving(s))
    BY <1>1, <1>6, <2>1, <2>2, OutwardSent
  <2>4. QED
    BY <2>3 DEF Handed, q, h
<1>8. ms \in Text
  <2> HIDE DEF q
  <2>1. 1 \in DOMAIN q
    BY <1>1, <1>6, SeqTail
  <2>2. QED
    BY <1>6, <2>1, SendsSeq
<1>9. Len(ms) \in Nat /\ conn[c].heard \in Text
  <2> HIDE DEF ms
  <2>1. conn[c].heard \in Text
    BY CarryingFacts
  <2>2. QED
    BY <1>8, <2>1 DEF Text
<1>10. Heard(c)' = h + Len(ms)
  <2> HIDE DEF ms
  <2>1. Len(conn[c].heard \o ms) = Len(conn[c].heard) + Len(ms)
    BY <1>8, <1>9 DEF Text
  <2>2. QED
    BY <1>1, <1>2, <2>1 DEF Heard, ms
<1>11. Sendings(s, c)' /\ Handed(s, c)' = Handed(s, c)
  <2>1. conn'[c].sends = Tail(q) /\ ses'[s].out = ses[s].out /\ ver' = ver
    BY <1>0, <1>1
  <2> HIDE DEF q, h, ms
  <2>2. QED
    BY <1>5, <1>7, <1>10, <2>1 DEF Sendings, Handed
<1>12. PacketSame(s)
  BY <1>1 DEF PacketSame
<1>13. Passed(s, c)' = Passed(s, c) /\ (PacketOrder(s, c)' <=> PacketOrder(s, c))
  BY <1>11, <1>12, PassedSame
<1>14. ver \in OneBuffer => conn'[c].said <= Heard(c)' + 1
  <2> HIDE DEF ms, h
  <2>1. ver \in OneBuffer => conn[c].said <= h + 1
    BY <1>0 DEF InOrder, h
  <2>2. conn[c].said \in Nat
    BY CarryingFacts
  <2>3. QED
    BY <1>1, <1>6, <1>9, <1>10, <2>1, <2>2
<1>15. InOrder(s, c)'
  BY <1>0, <1>1, <1>4, <1>11, <1>13, <1>14 DEF InOrder, RecvSame
<1>16. ASSUME Counts(conn[c].heard, c, 0)
       PROVE  Counts(conn'[c].heard, c, 0)
  <2>1. h = 0 + Len(conn[c].heard)
    BY <1>6, <1>9 DEF Heard, Text
  <2>2. Counts(conn[c].heard \o ms, c, 0)
    <3> HIDE DEF ms, h
    <3>1. Counts(ms, c, 0 + Len(conn[c].heard))
      BY <1>7, <2>1
    <3>2. QED
      BY <1>8, <1>9, <1>16, <3>1, CountsMore
  <2>3. QED
    BY <1>1, <1>2, <2>2
<1>17. QED
  BY <1>15, <1>16

(* A worker takes what was received from the port.                         *)
LEMMA FetchOrder ==
    ASSUME NEW s \in Slots, NEW c, Carrying(s, c), OneRecv(s), NEW w \in Workers, Fetches(w),
           Head(port).s = s, Head(port).op = "recv"
    PROVE  InOrder(s, c)'
<1>0. TypeOK /\ c \in Conns /\ Talking(s, c) /\ Known /\ UNCHANGED ver /\ InOrder(s, c)
  BY CarryingFacts DEF Carrying
<1>1. Carries(w, s) /\ w \notin {"packet", "sender"}
  BY ThreadFacts DEF Carries
<1>2. /\ ~Say(c) /\ ~Sent(c) /\ (\A u : u # w => ~Carries(u, s)) /\ conn'[c].said = conn[c].said /\ Heard(c)' = Heard(c)
      /\ (\A u \in Threads \ {w} : pc'[u] = pc[u]) /\ PacketSame(s)
  BY <1>1, CarriedElse
<1>3. pc[w].at = "wait" /\ port # <<>> /\ port' = Tail(port)
  BY <1>0, FetchGoes
<1>4. \A v \in Workers : pc[v].s = s => ~Echoes(v) /\ ~Queues(v) /\ ~Pops(v)
  <2>1. ~Echoes(w) /\ ~Queues(w) /\ ~Pops(w)
    BY <1>3 DEF Echoes, Queues, Pops, SendCompleted06, At
  <2>2. \A v \in Workers : v # w => ~Carries(v, s)
    BY <1>2
  <2>3. QED
    BY <2>1, <2>2 DEF Carries
<1>5. OutSame(s, c)
  <2>1. ~Carries("packet", s) /\ ~Carries("sender", s)
    BY <1>1, <1>2
  <2>2. pc["packet"].s = s => ~Answers /\ ~Puts /\ ~Lines
    BY <2>1 DEF Carries
  <2>3. pc["sender"].s = s => ~Advances /\ \A told \in BOOLEAN : ~Posts(told)
    BY <2>1 DEF Carries
  <2>4. QED
    BY <1>0, <1>2, <1>4, <2>2, <2>3, OutKept
<1>6. (Sendings(s, c)' <=> Sendings(s, c)) /\ Handed(s, c)' = Handed(s, c)
  BY <1>0, <1>5, OutView
<1>7. Passed(s, c)' = Passed(s, c) /\ (PacketOrder(s, c)' <=> PacketOrder(s, c))
  BY <1>2, <1>6, PassedSame
<1>8. Inward(deque', s, c, Passed(s, c), Kept(s, c))
  <2>1. ~Carries("packet", s)
    BY <1>1, <1>2
  <2>2. ~Dequeues
    BY <2>1 DEF Carries
  <2>3. QED
    BY <1>0, <1>4, <2>2, DequeView DEF InOrder
<1> DEFINE e == Head(port)
<1>9. /\ Len(port) \in Nat /\ DOMAIN port = 1..Len(port) /\ DOMAIN Tail(port) = 1..(Len(port) - 1) /\ Len(port) > 0
      /\ \A i \in 1..(Len(port) - 1) : Tail(port)[i] = port[i + 1]
      /\ e = port[1]
  <2>1. port \in Seq(Completion)
    BY <1>0 DEF TypeOK, PortOK
  <2> DEFINE S == Completion
  <2>2. port \in Seq(S)
    BY <2>1
  <2> HIDE DEF S
  <2>3. QED
    BY <1>3, <2>2, SeqTail
<1>10. e.s = s /\ e.op = "recv" /\ e.ok /\ e.ms = <<Word(c, conn[c].said)>> /\ 1 \in DOMAIN port /\ port[1] = e
  <2>1. 1 \in DOMAIN port /\ port[1] = e
    BY <1>9
  <2>2. RecvOrder(s, c)
    BY <1>0 DEF InOrder
  <2>3. QED
    BY <2>1, <2>2 DEF RecvOrder
<1>11. Fetched(w, s)' /\ pc'[w].ms = <<Word(c, conn[c].said)>>
  <2>1. pc'[w].at = (IF e.ok THEN "got" ELSE "close") /\ pc'[w].s = e.s /\ pc'[w].op = e.op /\ pc'[w].ms = e.ms
    BY <1>0, <1>10, FetchGoes
  <2>2. QED
    BY <1>10, <2>1 DEF Fetched, At
<1>12. \A i \in DOMAIN port' : ~(port'[i].s = s /\ port'[i].op = "recv")
  <2>1. SUFFICES ASSUME NEW i \in DOMAIN Tail(port), Tail(port)[i].s = s, Tail(port)[i].op = "recv"
                 PROVE  FALSE
    BY <1>3
  <2>2. i + 1 \in DOMAIN port /\ port[i + 1] = Tail(port)[i] /\ i + 1 # 1
    BY <1>9
  <2>3. i + 1 = 1
    BY <1>0, <1>10, <2>1, <2>2, ArrivedOne
  <2>4. QED
    BY <2>2, <2>3
<1>13. \A v \in Workers : v # w => ~Fetched(v, s)'
  <2>1. \A v \in Workers : ~Fetched(v, s)
    BY <1>0, <1>10, ArrivedOne
  <2>2. \A v \in Workers : v # w => pc'[v] = pc[v]
    BY <1>2, ThreadFacts
  <2>3. QED
    BY <2>1, <2>2 DEF Fetched, At
<1>14. RecvOrder(s, c)' /\ Arrived(s)' /\ Arrived(s)
  <2>1. Arrived(s)
    BY <1>10 DEF Arrived
  <2>2. Arrived(s)'
    BY <1>11 DEF Arrived
  <2>3. RecvOrder(s, c)'
    BY <1>2, <1>11, <1>12, <1>13 DEF RecvOrder
  <2>4. QED
    BY <2>1, <2>2, <2>3
<1>15. Kept(s, c)' = Kept(s, c)
  BY <1>2, <1>14 DEF Kept
<1>16. QED
  BY <1>0, <1>2, <1>6, <1>7, <1>8, <1>14, <1>15 DEF InOrder

(* A worker queues it. *)
LEMMA QueuesOrder ==
    ASSUME NEW s \in Slots, NEW c, Carrying(s, c), OneRecv(s), NEW w \in Workers, pc[w].s = s, Queues(w)
    PROVE  InOrder(s, c)'
<1>0. TypeOK /\ c \in Conns /\ Talking(s, c) /\ Known /\ UNCHANGED ver /\ InOrder(s, c) /\ ver # "08"
  BY CarryingFacts DEF Carrying
<1>1. Carries(w, s) /\ w \notin {"packet", "sender"}
  BY ThreadFacts DEF Carries
<1>2. /\ ~Say(c) /\ ~Sent(c) /\ (\A u : u # w => ~Carries(u, s)) /\ conn'[c].said = conn[c].said /\ Heard(c)' = Heard(c)
      /\ (\A u \in Threads \ {w} : pc'[u] = pc[u]) /\ PacketSame(s)
  BY <1>1, CarriedElse
<1>3. /\ ver \notin OneBuffer /\ Fetched(w, s) /\ pc'[w].at = "rebind" /\ port' = port
      /\ deque' = Append(deque, [s |-> s, ms |-> pc[w].ms])
  <2>1. Stays(w, "rebind") => pc'[w].at = "rebind"
    BY <1>0, ThreadFacts, PcAfter
  <2>2. QED
    BY <1>0, <2>1 DEF Queues, net, Fetched
<1>4. OutSame(s, c)
  <2>1. ~Carries("packet", s) /\ ~Carries("sender", s) /\ \A v \in Workers : v # w => ~Carries(v, s)
    BY <1>1, <1>2
  <2>2. pc["packet"].s = s => ~Answers /\ ~Puts /\ ~Lines
    BY <2>1 DEF Carries
  <2>3. pc["sender"].s = s => ~Advances /\ \A told \in BOOLEAN : ~Posts(told)
    BY <2>1 DEF Carries
  <2>4. ~Echoes(w) /\ ~Pops(w)
    BY <1>3 DEF Echoes, Pops, SendCompleted06, Fetched
  <2>5. \A v \in Workers : pc[v].s = s => ~Echoes(v) /\ ~Pops(v)
    BY <2>1, <2>4 DEF Carries
  <2>6. QED
    BY <1>0, <1>2, <2>2, <2>3, <2>5, OutKept
<1>5. (Sendings(s, c)' <=> Sendings(s, c)) /\ Handed(s, c)' = Handed(s, c)
  BY <1>0, <1>4, OutView
<1>6. Passed(s, c)' = Passed(s, c) /\ (PacketOrder(s, c)' <=> PacketOrder(s, c))
  BY <1>2, <1>5, PassedSame
<1>7. Arrived(s) /\ ~Arrived(s)'
  <2>1. \A i \in DOMAIN port' : ~(port'[i].s = s /\ port'[i].op = "recv")
    BY <1>0, <1>3, ArrivedOne
  <2>2. \A v \in Workers : v # w => ~Fetched(v, s)
    BY <1>0, <1>3, ArrivedOne
  <2>3. \A v \in Workers : v # w => pc'[v] = pc[v]
    BY <1>2, ThreadFacts
  <2>4. \A v \in Workers : ~Fetched(v, s)'
    BY <1>3, <2>2, <2>3 DEF Fetched, At
  <2>5. QED
    BY <1>3, <2>1, <2>4 DEF Arrived
<1>8. RecvOrder(s, c)'
  BY <1>7 DEF RecvOrder, Arrived
<1>9. Kept(s, c) = conn[c].said - 1 /\ Kept(s, c)' = conn[c].said /\ conn[c].said \in Nat /\ Kept(s, c) + 1 = conn[c].said
  <2>1. conn[c].said \in Nat
    BY CarryingFacts
  <2>2. QED
    BY <1>2, <1>7, <2>1 DEF Kept
<1>10. pc[w].ms = <<Word(c, conn[c].said)>>
  BY <1>0, <1>3 DEF InOrder, RecvOrder
<1>11. Inward(deque', s, c, Passed(s, c), conn[c].said)
  <2> DEFINE e == [s |-> s, ms |-> pc[w].ms]
  <2>1. e \in Op /\ e.s = s /\ e.ms = <<Word(c, Kept(s, c) + 1)>> /\ deque' = Append(deque, e)
    <3>1. pc[w].ms \in Text /\ s \in AllSlots
      BY <1>0, ThreadFacts, PcFacts, SlotFacts
    <3>2. QED
      BY <1>3, <1>9, <1>10, <3>1 DEF Op
  <2>2. deque \in Seq(Op)
    BY <1>0 DEF TypeOK, QueuesOK, Op
  <2>3. Passed(s, c) \in Int /\ Kept(s, c) \in Int /\ Passed(s, c) <= Kept(s, c) /\ Inward(deque, s, c, Passed(s, c), Kept(s, c))
    BY <1>0, CarryingFacts DEF InOrder
  <2> HIDE DEF e
  <2>4. Inward(Append(deque, e), s, c, Passed(s, c), Kept(s, c) + 1)
    BY <2>1, <2>2, <2>3, InwardAdded
  <2>5. QED
    BY <1>9, <2>1, <2>4
<1>12. Passed(s, c)' <= Kept(s, c)'
  <2>1. Passed(s, c) \in Int /\ Kept(s, c) \in Int /\ Passed(s, c) <= Kept(s, c)
    BY <1>0, CarryingFacts DEF InOrder
  <2>2. QED
    BY <1>6, <1>9, <2>1
<1>13. QED
  BY <1>0, <1>2, <1>3, <1>5, <1>6, <1>8, <1>9, <1>11, <1>12 DEF InOrder

(* No word in the deque.                                                   *)
LEMMA InwardNothing ==
    ASSUME NEW q, NEW s, NEW c, NEW k \in Int, NEW m \in Int, Inward(q, s, c, k, k)
    PROVE  Inward(q, s, c, m, m)
<1>1. (k + 1)..k = {} /\ (m + 1)..m = {}
  OBVIOUS
<1>2. \A i \in DOMAIN q : q[i].s # s
  BY <1>1 DEF Inward
<1>3. QED
  BY <1>1, <1>2 DEF Inward

(* The echo of a client who says one thing at a time goes into an empty    *)
(* buffer.                                                                 *)
LEMMA EchoesSends ==
    ASSUME TypeOK, NEW w \in Workers, Echoes(w), NEW s \in Slots, pc[w].s = s, Stands(s), NEW c \in Conns, ses[s].sock = c,
           conn[c].sends = <<>>, NEW ms \in Text, Data01(w) = ms
    PROVE  conn'[c].sends = Append(<<>>, [s |-> s, ms |-> ms])
<1>1. PICK ok \in BOOLEAN : SendMsg01(s, ms, ok)
  BY DEF Echoes
<1>2. ok
  BY <1>1 DEF SendMsg01, Taken
<1> DEFINE f == Overwritten01(s, ms)  e == [s |-> s, ms |-> ms]
<1>3. conn' = [f EXCEPT ![c].sends = Append(@, e)]
  BY <1>1, <1>2 DEF SendMsg01
<1>4. f = [d \in Conns |-> [conn[d] EXCEPT !.sends = Over(conn[d].sends, s, ms)]] /\ f \in [Conns -> ConnRec]
  BY OverwrittenIs
<1>5. Over(conn[c].sends, s, ms) = <<>>
  BY DEF Over
<1>6. conn[c] \in ConnRec
  BY DEF TypeOK, ConnOK
<1> HIDE DEF f, e
<1>7. f[c].sends = <<>>
  <2>1. f[c] = [conn[c] EXCEPT !.sends = <<>>]
    BY <1>4, <1>5
  <2>2. QED
    BY <1>6, <2>1 DEF ConnRec
<1>8. conn'[c].sends = Append(f[c].sends, e)
  <2> DEFINE x == Append(f[c].sends, e)
  <2>1. conn' = [f EXCEPT ![c].sends = x]
    BY <1>3
  <2> DEFINE r == [f[c] EXCEPT !.sends = x]
  <2> HIDE DEF x
  <2>2. f \in [Conns -> ConnRec]
    BY <1>4
  <2>3. conn'[c] = r
    BY <2>1, <2>2
  <2>4. f[c] \in ConnRec
    BY <2>2
  <2>5. r.sends = x
    BY <2>4 DEF ConnRec
  <2>6. QED
    BY <2>3, <2>5 DEF x
<1>9. QED
  BY <1>7, <1>8 DEF e

(* A worker echoes the received word; a client that waits for its echo has *)
(* no other under way.                                                     *)
LEMMA EchoesOrder ==
    ASSUME NEW s \in Slots, NEW c, Carrying(s, c), RecvInv, OpsInv, NEW w \in Workers, pc[w].s = s, Echoes(w)
    PROVE  InOrder(s, c)'
<1>0. /\ TypeOK /\ c \in Conns /\ Talking(s, c) /\ Known /\ UNCHANGED ver /\ InOrder(s, c) /\ ver # "08" /\ Stands(s)
      /\ ses[s].sock = c /\ ses[s].sock # None /\ ~Overlapped
  BY CarryingFacts DEF Carrying, Talking, Stands
<1>1. Carries(w, s) /\ w \notin {"packet", "sender"}
  BY ThreadFacts DEF Carries
<1>2. /\ ~Say(c) /\ ~Sent(c) /\ (\A u : u # w => ~Carries(u, s)) /\ conn'[c].said = conn[c].said /\ Heard(c)' = Heard(c)
      /\ (\A u \in Threads \ {w} : pc'[u] = pc[u]) /\ PacketSame(s) /\ Moving(s)' = Moving(s)
  BY <1>1, CarriedElse
<1>3. ver \in OneBuffer /\ pc[w].at = "got" /\ pc'[w].at = "rebind" /\ port' = port /\ deque' = deque
  <2>1. Stays(w, "rebind") => pc'[w].at = "rebind"
    BY <1>0, ThreadFacts, PcAfter
  <2>2. QED
    BY <2>1 DEF Echoes, At
<1>4. OneRecv(s)
  BY <1>0 DEF RecvInv
<1>5. Fetched(w, s)
  <2>1. pc[w].op \in {"recv", "send", "accept"}
    BY <1>0, <1>3, PcFacts, ThreadFacts DEF Fits
  <2>2. pc[w].op # "accept"
    BY <1>3 DEF OpsInv, At, OneBuffer, Reusing
  <2>3. pc[w].op # "send"
    <3>1. SUFFICES ASSUME pc[w].op = "send" PROVE FALSE
      OBVIOUS
    <3>2. ~ses[s].typed
      BY <3>1 DEF Echoes, Received01
    <3>3. NoSend(s)
      BY <1>0, <1>3, <3>2 DEF RecvInv
    <3>4. w \in SendHolders(s)
      BY <1>3, <3>1 DEF SendHolders, SendDone
    <3>5. QED
      BY <3>3, <3>4 DEF NoSend, Empty
  <2>4. QED
    BY <1>3, <2>1, <2>2, <2>3 DEF Fetched, At
<1>6. pc[w].ms = <<Word(c, conn[c].said)>> /\ Data01(w) = pc[w].ms /\ pc[w].ms \in Text
  <2>1. pc[w].ms = <<Word(c, conn[c].said)>>
    BY <1>0, <1>5 DEF InOrder, RecvOrder
  <2>2. Data01(w) = pc[w].ms
    BY <1>5 DEF Data01, Fetched
  <2>3. pc[w].ms \in Text
    BY <1>0, ThreadFacts, PcFacts
  <2>4. QED
    BY <2>1, <2>2, <2>3
<1>7. Arrived(s) /\ ~Arrived(s)'
  <2>1. \A i \in DOMAIN port' : ~(port'[i].s = s /\ port'[i].op = "recv")
    BY <1>0, <1>3, <1>4, <1>5, ArrivedOne
  <2>2. \A v \in Workers : v # w => ~Fetched(v, s)
    BY <1>0, <1>4, <1>5, ArrivedOne
  <2>3. \A v \in Workers : v # w => pc'[v] = pc[v]
    BY <1>2, ThreadFacts
  <2>4. \A v \in Workers : ~Fetched(v, s)'
    BY <1>3, <2>2, <2>3 DEF Fetched, At
  <2>5. QED
    BY <1>5, <2>1, <2>4 DEF Arrived
<1>8. RecvOrder(s, c)'
  BY <1>7 DEF RecvOrder, Arrived
<1> DEFINE q == conn[c].sends  p == IF pc["packet"].s = s THEN 1 ELSE 0
<1>9. q = <<>> /\ pc["packet"].s # s /\ Heard(c) + 1 = conn[c].said /\ Handed(s, c) = Heard(c)
  <2>1. /\ conn[c].said \in Nat /\ Heard(c) \in Nat /\ q \in Seq(Op) /\ Kept(s, c) = conn[c].said - 1
        /\ conn[c].said <= Heard(c) + 1 /\ Passed(s, c) = Kept(s, c) /\ p \in {0, 1}
    BY <1>0, <1>3, <1>7, CarryingFacts DEF Kept, InOrder
  <2>2. Handed(s, c) = Heard(c) + Len(q)
    BY <1>3 DEF Handed, Reached, Posted, OneBuffer, Queued, Ringed
  <2>3. Passed(s, c) = Handed(s, c) + p
    BY DEF Passed
  <2>4. Len(q) \in Nat /\ (q = <<>> <=> Len(q) = 0)
    <3> HIDE DEF q
    <3>1. QED
      BY <2>1, SendsSeq
  <2>5. Len(q) = 0 /\ p = 0
    <3> HIDE DEF q, p
    <3>1. QED
      BY <2>1, <2>2, <2>3, <2>4
  <2>6. Heard(c) + 1 = conn[c].said /\ Handed(s, c) = Heard(c)
    <3> HIDE DEF q, p
    <3>1. QED
      BY <2>1, <2>2, <2>3, <2>5
  <2>7. QED
    BY <2>4, <2>5, <2>6
<1> DEFINE e == [s |-> s, ms |-> pc[w].ms]
<1>10. conn'[c].sends = Append(q, e) /\ e \in Op /\ e.ms = <<Word(c, Handed(s, c) + 1)>>
  <2>1. e \in Op /\ e.ms = <<Word(c, Handed(s, c) + 1)>>
    <3>1. s \in AllSlots
      BY <1>0, SlotFacts
    <3>2. QED
      BY <1>6, <1>9, <3>1 DEF Op
  <2>2. conn'[c].sends = Append(<<>>, e)
    BY <1>0, <1>6, <1>9, EchoesSends
  <2>3. QED
    BY <1>9, <2>1, <2>2
<1>11. Sendings(s, c)' /\ Handed(s, c)' = Handed(s, c) + 1
  <2>1. ses'[s].out = ses[s].out
    <3>1. ses' = [ses EXCEPT ![s].typed = TRUE]
      BY DEF Echoes, SendMsg01
    <3>2. OutStays
      BY <1>0, <3>1, SesAfter
    <3>3. QED
      BY <3>2 DEF OutStays
  <2>2. Outward(ver, c, Heard(c), q, ses[s].out, Moving(s)) /\ ver \notin Queued
    BY <1>0, <1>3 DEF InOrder, Sendings, OneBuffer, Queued
  <2>3. Heard(c) \in Nat /\ q \in Seq(Op)
    BY CarryingFacts
  <2>4. e.ms = <<Word(c, Reached(ver, Heard(c), q, ses[s].out, Moving(s)) + 1)>>
    BY <1>10 DEF Handed
  <2> HIDE DEF q, e
  <2>5. /\ Outward(ver, c, Heard(c), Append(q, e), ses[s].out, Moving(s))
        /\ Reached(ver, Heard(c), Append(q, e), ses[s].out, Moving(s)) = Reached(ver, Heard(c), q, ses[s].out, Moving(s)) + 1
    BY <1>10, <2>2, <2>3, <2>4, OutwardAnswered
  <2>6. QED
    BY <1>0, <1>2, <1>10, <2>1, <2>5 DEF Sendings, Handed, q
<1>12. Passed(s, c)' = conn[c].said /\ Kept(s, c)' = conn[c].said /\ PacketOrder(s, c)'
  <2>1. pc'["packet"].s # s
    BY <1>2, <1>9 DEF PacketSame
  <2>2. conn[c].said \in Nat /\ Heard(c) \in Nat
    BY CarryingFacts
  <2>3. QED
    BY <1>2, <1>7, <1>9, <1>11, <2>1, <2>2 DEF Passed, Kept, PacketOrder
<1>13. Inward(deque', s, c, conn[c].said, conn[c].said)
  <2>1. Inward(deque, s, c, Kept(s, c), Kept(s, c)) /\ Kept(s, c) \in Int /\ conn[c].said \in Int
    BY <1>0, <1>3, CarryingFacts DEF InOrder
  <2>2. QED
    BY <1>3, <2>1, InwardNothing
<1>14. conn[c].said <= Heard(c)' + 1 /\ conn[c].said <= conn[c].said
  BY <1>2, <1>9, CarryingFacts
<1>15. QED
  BY <1>0, <1>2, <1>8, <1>11, <1>12, <1>13, <1>14 DEF InOrder

(* The packet thread takes a packet from the deque.                        *)
LEMMA DequeuesOrder ==
    ASSUME NEW s \in Slots, NEW c, Carrying(s, c), Dequeues, Head(deque).s = s
    PROVE  InOrder(s, c)'
<1>0. TypeOK /\ c \in Conns /\ Talking(s, c) /\ Known /\ UNCHANGED ver /\ InOrder(s, c) /\ ver # "08" /\ s # None
  BY CarryingFacts DEF Carrying
<1>1. Carries("packet", s) /\ "packet" \notin Workers
  BY ThreadFacts DEF Carries
<1>2. /\ ~Say(c) /\ ~Sent(c) /\ (\A u : u # "packet" => ~Carries(u, s)) /\ conn'[c].said = conn[c].said
      /\ Heard(c)' = Heard(c) /\ RecvSame(s, c)
  BY <1>1, CarriedElse
<1>3. pc["packet"].at = "take" /\ deque # <<>> /\ deque' = Tail(deque) /\ ver \notin OneBuffer
  BY DEF Dequeues, At
<1>4. pc'["packet"].s = s /\ pc'["packet"].ms = Head(deque).ms
  <2> DEFINE r == [Local("send") EXCEPT !.s = Head(deque).s, !.ms = Head(deque).ms]
  <2>1. Becomes("packet", r)
    BY <1>0 DEF Dequeues
  <2> HIDE DEF r
  <2>2. pc'["packet"] = r
    BY <1>0, <2>1, ThreadFacts, PcAfter
  <2>3. QED
    BY <2>2 DEF Local, r
<1>5. pc["packet"].s # s
  <2>1. Fits("packet", pc["packet"])
    BY <1>0, ThreadFacts, PcFacts
  <2>2. QED
    BY <1>0, <1>3, <2>1, LabelFacts DEF Fits
<1>6. OutSame(s, c)
  <2>1. ~Carries("sender", s) /\ \A v \in Workers : ~Carries(v, s)
    BY <1>1, <1>2
  <2>2. pc["sender"].s = s => ~Advances /\ \A told \in BOOLEAN : ~Posts(told)
    BY <2>1 DEF Carries
  <2>3. \A v \in Workers : pc[v].s = s => ~Echoes(v) /\ ~Pops(v)
    BY <2>1 DEF Carries
  <2>4. QED
    BY <1>0, <1>2, <1>5, <2>2, <2>3, OutKept
<1>7. (Sendings(s, c)' <=> Sendings(s, c)) /\ Handed(s, c)' = Handed(s, c)
  BY <1>0, <1>6, OutView
<1>8. Passed(s, c)' = Passed(s, c) + 1 /\ Passed(s, c) \in Int /\ Kept(s, c) \in Int
  <2>1. Handed(s, c) \in Int /\ Passed(s, c) \in Int /\ Kept(s, c) \in Int
    BY CarryingFacts
  <2>2. QED
    BY <1>4, <1>5, <1>7, <2>1 DEF Passed
<1>9. /\ Passed(s, c) + 1 <= Kept(s, c) /\ Head(deque).ms = <<Word(c, Passed(s, c) + 1)>>
      /\ Inward(deque', s, c, Passed(s, c) + 1, Kept(s, c))
  <2>1. deque \in Seq(Op)
    BY <1>0 DEF TypeOK, QueuesOK, Op
  <2>2. Inward(deque, s, c, Passed(s, c), Kept(s, c))
    BY <1>0 DEF InOrder
  <2>3. deque # <<>> /\ Head(deque).s = s /\ Passed(s, c) \in Int /\ Kept(s, c) \in Int
    BY <1>3, <1>8
  <2> DEFINE lo == Passed(s, c)  hi == Kept(s, c)  q == deque
  <2>4. q \in Seq(Op) /\ lo \in Int /\ hi \in Int /\ Inward(q, s, c, lo, hi) /\ q # <<>> /\ Head(q).s = s
    BY <2>1, <2>2, <2>3
  <2> HIDE DEF lo, hi, q
  <2>5. lo + 1 <= hi /\ Head(q).ms = <<Word(c, lo + 1)>> /\ Inward(Tail(q), s, c, lo + 1, hi)
    BY <2>4, InwardTaken
  <2>6. QED
    BY <1>3, <2>5 DEF lo, hi, q
<1>10. PacketOrder(s, c)'
  BY <1>4, <1>8, <1>9 DEF PacketOrder
<1>11. QED
  BY <1>0, <1>2, <1>3, <1>7, <1>8, <1>9, <1>10 DEF InOrder, RecvSame

(* The packet thread hands its packet on, whatever the practice does then. *)
LEMMA HandedOn ==
    ASSUME NEW s \in Slots, NEW c, Carrying(s, c), pc["packet"].s = s, Answers \/ Puts \/ Lines,
           Sendings(s, c)', Handed(s, c)' = Handed(s, c) + 1
    PROVE  InOrder(s, c)'
<1>0. TypeOK /\ c \in Conns /\ Talking(s, c) /\ Known /\ UNCHANGED ver /\ InOrder(s, c) /\ s # None
  BY CarryingFacts DEF Carrying
<1>1. Carries("packet", s) /\ "packet" \notin Workers
  BY ThreadFacts DEF Carries
<1>2. conn'[c].said = conn[c].said /\ Heard(c)' = Heard(c) /\ RecvSame(s, c)
  BY <1>1, CarriedElse
<1>3. pc'["packet"].s # s
  <2>1. Rests("packet")
    BY DEF Answers, Puts, Lines
  <2>2. QED
    BY <1>0, <2>1, ThreadFacts, PcAfter
<1>4. Passed(s, c)' = Passed(s, c) /\ PacketOrder(s, c)'
  <2>1. Handed(s, c) \in Int
    BY CarryingFacts
  <2>2. QED
    BY <1>3, <2>1 DEF Passed, PacketOrder
<1>5. deque' = deque /\ ver \notin OneBuffer
  BY DEF Answers, Puts, Lines, mem, OneBuffer
<1>6. QED
  BY <1>0, <1>2, <1>4, <1>5 DEF InOrder, RecvSame

(* The packet thread has the word after those handed on.                   *)
LEMMA PacketWord ==
    ASSUME NEW s \in Slots, NEW c, Carrying(s, c), pc["packet"].s = s
    PROVE  pc["packet"].ms \in Text /\ pc["packet"].ms = <<Word(c, Handed(s, c) + 1)>> /\ [s |-> s, ms |-> pc["packet"].ms] \in Op
<1>1. pc["packet"].ms \in Text /\ s \in AllSlots
  BY CarryingFacts, ThreadFacts, PcFacts, SlotFacts
<1>2. Passed(s, c) = Handed(s, c) + 1
  BY DEF Passed
<1>3. QED
  BY <1>1, <1>2 DEF Carrying, InOrder, PacketOrder, Op

(* Practice04 sends the word at once.                                      *)
LEMMA AnswersOrder ==
    ASSUME NEW s \in Slots, NEW c, Carrying(s, c), pc["packet"].s = s, Answers
    PROVE  InOrder(s, c)'
<1>0. TypeOK /\ c \in Conns /\ Talking(s, c) /\ Known /\ UNCHANGED ver /\ InOrder(s, c) /\ Stands(s) /\ ses[s].sock = c
  BY CarryingFacts DEF Carrying
<1>1. Carries("packet", s) /\ "packet" # "sender"
  BY DEF Carries
<1>2. Heard(c)' = Heard(c) /\ Moving(s)' = Moving(s)
  BY <1>1, CarriedElse
<1> DEFINE q == conn[c].sends  e == [s |-> s, ms |-> pc["packet"].ms]
<1>3. /\ pc["packet"].ms \in Text /\ e \in Op /\ e.ms = <<Word(c, Handed(s, c) + 1)>>
  BY PacketWord
<1>4. conn'[c].sends = Append(q, e) /\ ses'[s].out = ses[s].out
  <2>1. PICK ok \in BOOLEAN : WSASend(s, pc["packet"].ms, ok)
    BY DEF Answers
  <2>2. ok
    BY <1>0, <2>1 DEF WSASend, Taken
  <2>3. conn'[c].sends = Append(q, e)
    BY <1>0, <1>3, <2>1, <2>2, SendCall
  <2>4. QED
    BY <2>3 DEF Answers, mem
<1>5. ver \notin Queued
  BY DEF Answers, Queued
<1>6. Heard(c) \in Nat /\ q \in Seq(Op) /\ Outward(ver, c, Heard(c), q, ses[s].out, Moving(s))
  BY <1>0, CarryingFacts DEF InOrder, Sendings
<1>7. e.ms = <<Word(c, Reached(ver, Heard(c), q, ses[s].out, Moving(s)) + 1)>>
  BY <1>3 DEF Handed
<1>8. /\ Outward(ver, c, Heard(c), Append(q, e), ses[s].out, Moving(s))
      /\ Reached(ver, Heard(c), Append(q, e), ses[s].out, Moving(s)) = Reached(ver, Heard(c), q, ses[s].out, Moving(s)) + 1
  <2> HIDE DEF q, e
  <2>1. QED
    BY <1>3, <1>5, <1>6, <1>7, OutwardAnswered
<1>9. Sendings(s, c)' /\ Handed(s, c)' = Handed(s, c) + 1
  <2> HIDE DEF e
  <2>1. QED
    BY <1>0, <1>2, <1>4, <1>8 DEF Sendings, Handed
<1>10. QED
  BY <1>9, HandedOn

(* What a session's queue or ring holds.                                   *)
LEMMA OutText ==
    ASSUME NEW s \in Slots, NEW c, Carrying(s, c)
    PROVE  (ver = "06" => ses[s].out \in Seq(Text)) /\ (ver # "06" => ses[s].out \in Text)
  BY CarryingFacts, SesFacts

(* The packet thread puts the word at the end of the ring.                 *)
LEMMA PutsOrder ==
    ASSUME NEW s \in Slots, NEW c, Carrying(s, c), pc["packet"].s = s, Puts
    PROVE  InOrder(s, c)'
<1>0. TypeOK /\ c \in Conns /\ Talking(s, c) /\ Known /\ UNCHANGED ver /\ InOrder(s, c)
  BY CarryingFacts DEF Carrying
<1>1. Carries("packet", s) /\ "packet" # "sender" /\ "packet" \notin Workers
  BY ThreadFacts DEF Carries
<1>2. Heard(c)' = Heard(c) /\ Moving(s)' = Moving(s)
  BY <1>1, CarriedElse
<1> DEFINE q == conn[c].sends  out == ses[s].out  ms == pc["packet"].ms
<1>3. ms \in Text /\ ms = <<Word(c, Handed(s, c) + 1)>>
  BY PacketWord
<1>4. ver \in Ringed /\ ver # "06" /\ Moving(s) = 0
  BY DEF Puts, Ringed, Moving, Advancing
<1>5. conn'[c].sends = q /\ ses'[s].out = out \o ms
  <2>1. UNCHANGED net
    BY DEF Puts
  <2> DEFINE x == out \o ms
  <2>2. ses' = [ses EXCEPT ![s].out = x]
    BY DEF Puts
  <2> HIDE DEF x
  <2>3. ses'[s].out = x
    <3>1. ses \in [Slots -> SesRec]
      BY <1>0 DEF TypeOK, SesOK
    <3>2. QED
      BY <2>2, <3>1 DEF SesRec
  <2>4. QED
    BY <2>1, <2>3 DEF net, x
<1>6. Heard(c) \in Nat /\ Posted(ver, q) \in Nat /\ out \in Text /\ Outward(ver, c, Heard(c), q, out, 0)
  BY <1>0, <1>4, CarryingFacts, OutText DEF InOrder, Sendings
<1>7. ms = <<Word(c, Reached(ver, Heard(c), q, out, 0) + 1)>>
  BY <1>3, <1>4 DEF Handed
<1>8. /\ Outward(ver, c, Heard(c), q, out \o ms, 0)
      /\ Reached(ver, Heard(c), q, out \o ms, 0) = Reached(ver, Heard(c), q, out, 0) + 1
  <2> HIDE DEF q, out, ms
  <2>1. QED
    BY <1>3, <1>4, <1>6, <1>7, OutwardPut
<1>9. Sendings(s, c)' /\ Handed(s, c)' = Handed(s, c) + 1
  <2> HIDE DEF ms
  <2>1. QED
    BY <1>0, <1>2, <1>4, <1>5, <1>8 DEF Sendings, Handed
<1>10. QED
  BY <1>9, HandedOn

(* The packet thread puts the word at the end of the queue of sends, and   *)
(* sends it if it is alone there.                                          *)
LEMMA LinesOrder ==
    ASSUME NEW s \in Slots, NEW c, Carrying(s, c), pc["packet"].s = s, Lines
    PROVE  InOrder(s, c)'
<1>0. TypeOK /\ c \in Conns /\ Talking(s, c) /\ Known /\ UNCHANGED ver /\ InOrder(s, c) /\ Stands(s) /\ ses[s].sock = c
  BY CarryingFacts DEF Carrying
<1>1. Carries("packet", s) /\ "packet" # "sender" /\ "packet" \notin Workers
  BY ThreadFacts DEF Carries
<1>2. Heard(c)' = Heard(c) /\ Moving(s)' = Moving(s)
  BY <1>1, CarriedElse
<1> DEFINE p == conn[c].sends  out == ses[s].out  ms == pc["packet"].ms
           q == IF out = <<>> THEN Append(p, [s |-> s, ms |-> ms]) ELSE p
<1>3. ms \in Text /\ ms = <<Word(c, Handed(s, c) + 1)>>
  BY PacketWord
<1>4. ver = "06" /\ out \in Seq(Text)
  BY OutText DEF Lines
<1>5. ses'[s].out = Append(out, ms)
  <2> DEFINE x == Append(out, ms)
  <2>1. ses' = [ses EXCEPT ![s].out = x]
    BY DEF Lines, EnqueueSendData06
  <2> HIDE DEF x
  <2>2. ses \in [Slots -> SesRec]
    BY <1>0 DEF TypeOK, SesOK
  <2>3. ses'[s].out = x
    BY <2>1, <2>2 DEF SesRec
  <2>4. QED
    BY <2>3 DEF x
<1>6. conn'[c].sends = q
  <2>1. IF Len(Append(out, ms)) = 1 THEN \E ok \in BOOLEAN : BindSend06(s, Append(out, ms), ok) ELSE UNCHANGED conn
    BY DEF Lines, EnqueueSendData06
  <2> HIDE DEF out, ms, p
  <2>2. (Len(Append(out, ms)) = 1 <=> out = <<>>) /\ (out = <<>> => Head(Append(out, ms)) = ms)
    BY <1>3, <1>4
  <2>3. CASE out = <<>>
    <3>1. PICK ok \in BOOLEAN : WSASend(s, ms, ok)
      BY <2>1, <2>2, <2>3 DEF BindSend06
    <3>2. ok
      BY <1>0, <3>1 DEF WSASend, Taken
    <3>3. conn'[c].sends = Append(conn[c].sends, [s |-> s, ms |-> ms])
      BY <1>0, <1>3, <3>1, <3>2, SendCall
    <3>4. QED
      BY <2>3, <3>3 DEF p
  <2>4. CASE out # <<>>
    BY <2>1, <2>2, <2>4 DEF p
  <2>5. QED
    BY <2>3, <2>4
<1>7. Heard(c) \in Nat /\ p \in Seq(Op) /\ Outward(ver, c, Heard(c), p, out, Moving(s))
  BY <1>0, CarryingFacts DEF InOrder, Sendings
<1>8. ms = <<Word(c, Reached(ver, Heard(c), p, out, Moving(s)) + 1)>>
  BY <1>3 DEF Handed
<1>10. /\ Outward(ver, c, Heard(c), q, Append(out, ms), Moving(s))
       /\ Reached(ver, Heard(c), q, Append(out, ms), Moving(s)) = Reached(ver, Heard(c), p, out, Moving(s)) + 1
  <2> DEFINE h == Heard(c)  a == Moving(s)  e == [s |-> s, ms |-> ms]
  <2>1. /\ h \in Nat /\ p \in Seq(Op) /\ out \in Seq(Text) /\ ver = "06" /\ Outward(ver, c, h, p, out, a) /\ e \in Op
        /\ e.ms = <<Word(c, Reached(ver, h, p, out, a) + 1)>> /\ e.ms = ms
    BY <1>3, <1>4, <1>7, <1>8, PacketWord
  <2>2. (out = <<>> => q = Append(p, e)) /\ (out # <<>> => q = p)
    OBVIOUS
  <2> HIDE DEF q, p, out, ms, h, a, e
  <2>3. /\ out = <<>> => /\ Outward(ver, c, h, Append(p, e), Append(out, e.ms), a)
                         /\ Reached(ver, h, Append(p, e), Append(out, e.ms), a) = Reached(ver, h, p, out, a) + 1
        /\ out # <<>> => /\ Outward(ver, c, h, p, Append(out, e.ms), a)
                         /\ Reached(ver, h, p, Append(out, e.ms), a) = Reached(ver, h, p, out, a) + 1
    BY <2>1, OutwardLined
  <2>4. /\ Outward(ver, c, h, q, Append(out, e.ms), a)
        /\ Reached(ver, h, q, Append(out, e.ms), a) = Reached(ver, h, p, out, a) + 1
    BY <2>2, <2>3
  <2>5. QED
    BY <2>1, <2>4 DEF h, a
<1>11. Sendings(s, c)' /\ Handed(s, c)' = Handed(s, c) + 1
  <2> HIDE DEF ms, q
  <2>1. QED
    BY <1>0, <1>2, <1>5, <1>6, <1>10 DEF Sendings, Handed
<1>12. QED
  BY <1>11, HandedOn

(* No send of the session is pending.                                      *)
LEMMA NonePending ==
    ASSUME NEW s \in Slots, NEW c, Carrying(s, c), NoneIn(SendsOf[c], SendOps(s))
    PROVE  conn[c].sends = <<>>
<1>0. TypeOK /\ c \in Conns /\ Talking(s, c) /\ conn[c].sends \in Seq(Op)
  BY CarryingFacts DEF Carrying
<1>1. SendsOf[c] = conn[c].sends
  BY <1>0, IoFamilies
<1>2. SUFFICES ASSUME conn[c].sends # <<>> PROVE FALSE
  OBVIOUS
<1>3. 1 \in DOMAIN conn[c].sends /\ conn[c].sends[1] \in Op
  BY <1>0, <1>2, SeqTail
<1>4. conn[c].sends[1].s = s
  BY <1>0, <1>3, TalkingOps
<1>5. QED
  BY <1>1, <1>3, <1>4 DEF NoneIn, SendOps

(* The sender or a worker moves the words on that wait in the session.     *)
LEMMA MovedOn ==
    ASSUME NEW s \in Slots, NEW c, Carrying(s, c), NEW t, Carries(t, s), t # "packet",
           Sendings(s, c)', Handed(s, c)' = Handed(s, c), RecvSame(s, c), Inward(deque', s, c, Passed(s, c), Kept(s, c))
    PROVE  InOrder(s, c)'
<1>0. UNCHANGED ver /\ InOrder(s, c)
  BY DEF Carrying
<1>1. Heard(c)' = Heard(c) /\ PacketSame(s)
  BY CarriedElse
<1>2. Passed(s, c)' = Passed(s, c) /\ (PacketOrder(s, c)' <=> PacketOrder(s, c))
  BY <1>1, PassedSame
<1>3. QED
  BY <1>0, <1>1, <1>2 DEF InOrder, RecvSame

(* The sender posts all of the ring as one send, which is to be moved      *)
(* past.                                                                   *)
LEMMA PostsOrder ==
    ASSUME NEW s \in Slots, NEW c, Carrying(s, c), SendInv, Clean', NEW told \in BOOLEAN, pc["sender"].s = s, Posts(told)
    PROVE  InOrder(s, c)'
<1>0. TypeOK /\ c \in Conns /\ Talking(s, c) /\ Known /\ UNCHANGED ver /\ InOrder(s, c) /\ Stands(s) /\ ses[s].sock = c
      /\ ~Overlapped /\ ses[s].sock # None
  BY CarryingFacts DEF Carrying, Talking, Stands
<1>1. Carries("sender", s) /\ "packet" # "sender" /\ "sender" \notin Workers
  BY ThreadFacts DEF Carries
<1>2. Heard(c)' = Heard(c) /\ RecvSame(s, c) /\ Inward(deque', s, c, Passed(s, c), Kept(s, c))
  BY <1>1, CarriedElse
<1> DEFINE out == ses[s].out
<1>3. ver \in Ringed /\ ver \in Queued /\ ver # "06" /\ out \in Text /\ pc["sender"].at \in {"wsasend", "send"}
  BY OutText DEF Posts, SendsAt, Ringed, Queued, At
<1>4. told
  BY DEF Posts, Clean
<1>5. conn[c].sends = <<>>
  <2>1. NoSend(s)
    BY <1>0, <1>3 DEF SendInv, Calling
  <2>2. c \in DOMAIN SendsOf
    BY <1>0, IoFamilies
  <2>3. QED
    BY <2>1, <2>2, NonePending DEF NoSend, Empty
<1>6. Moving(s) = 0
  BY <1>3 DEF Moving, Advancing, At
<1>7. pc'["sender"].at = "movefront" /\ pc'["sender"].s = s /\ pc'["sender"].ms = out
  BY <1>0, <1>4, PostGoes
<1>8. Moving(s)' = Len(out)
  BY <1>0, <1>3, <1>7 DEF Moving, Advancing, At
<1>9. conn'[c].sends = <<[s |-> s, ms |-> out]>> /\ ses'[s].out = out
  <2>1. WSASend(s, out, TRUE)
    BY DEF Posts
  <2>2. conn'[c].sends = Append(conn[c].sends, [s |-> s, ms |-> out])
    BY <1>0, <1>3, <2>1, SendCall
  <2>3. Append(<<>>, [s |-> s, ms |-> out]) = <<[s |-> s, ms |-> out]>>
    OBVIOUS
  <2>4. QED
    BY <1>5, <2>2, <2>3 DEF Posts, mem
<1>10. Heard(c) \in Nat /\ Outward(ver, c, Heard(c), <<>>, out, 0)
  BY <1>0, <1>5, <1>6, CarryingFacts DEF InOrder, Sendings
<1>11. /\ Outward(ver, c, Heard(c), <<[s |-> s, ms |-> out]>>, out, Len(out))
       /\ Reached(ver, Heard(c), <<[s |-> s, ms |-> out]>>, out, Len(out)) = Reached(ver, Heard(c), <<>>, out, 0)
  <2> HIDE DEF out
  <2>1. QED
    BY <1>3, <1>10, OutwardPosted
<1>12. Sendings(s, c)' /\ Handed(s, c)' = Handed(s, c)
  BY <1>0, <1>2, <1>5, <1>6, <1>8, <1>9, <1>11 DEF Sendings, Handed
<1>13. QED
  BY <1>1, <1>2, <1>12, MovedOn

(* The sender moves the front past what it posted.                         *)
LEMMA AdvancesOrder ==
    ASSUME NEW s \in Slots, NEW c, Carrying(s, c), Owns(s, c), pc["sender"].s = s, Advances
    PROVE  InOrder(s, c)'
<1>0. TypeOK /\ c \in Conns /\ Talking(s, c) /\ Known /\ UNCHANGED ver /\ InOrder(s, c)
  BY CarryingFacts DEF Carrying
<1>1. Carries("sender", s) /\ "packet" # "sender" /\ "sender" \notin Workers
  BY ThreadFacts DEF Carries
<1>2. Heard(c)' = Heard(c) /\ RecvSame(s, c) /\ Inward(deque', s, c, Passed(s, c), Kept(s, c))
  BY <1>1, CarriedElse
<1> DEFINE q == conn[c].sends  out == ses[s].out  ms == pc["sender"].ms
<1>3. ver \in Ringed /\ ver # "06" /\ Advancing(s)
  BY DEF Advances, Ringed, Advancing
<1>4. Moving(s) = Len(ms) /\ ms \in Text /\ out \in Text
  <2>1. ms \in Text
    BY <1>0, ThreadFacts, PcFacts
  <2>2. QED
    BY <1>3, <2>1, OutText DEF Moving
<1>5. IsPrefix(ms, out) /\ Len(ms) <= Len(out) /\ Len(ms) \in Nat
  <2>1. IsPrefix(ms, out)
    BY <1>3 DEF Owns
  <2> HIDE DEF ms, out
  <2>2. QED
    BY <1>4, <2>1 DEF IsPrefix, Text
<1>6. Moving(s)' = 0
  <2>1. Rests("sender") => pc'["sender"].s = None
    BY <1>0, ThreadFacts, PcAfter
  <2>2. QED
    BY <2>1, CarryingFacts DEF Advances, Moving, Advancing
<1>7. conn'[c].sends = q /\ ses'[s].out = SubSeq(out, Len(ms) + 1, Len(out))
  <2> DEFINE x == SubSeq(out, Len(ms) + 1, Len(out))
  <2>1. ses' = [ses EXCEPT ![s].out = x]
    BY <1>5 DEF Advances, MoveFront05
  <2> HIDE DEF x
  <2>2. ses \in [Slots -> SesRec]
    BY <1>0 DEF TypeOK, SesOK
  <2>3. ses'[s].out = x
    BY <2>1, <2>2 DEF SesRec
  <2>4. UNCHANGED net
    BY DEF Advances
  <2>5. QED
    BY <2>3, <2>4 DEF net, x
<1> DEFINE h == Heard(c)  a == Len(ms)
<1>8. h \in Nat /\ Posted(ver, q) \in Nat /\ Outward(ver, c, h, q, out, a) /\ a \in Nat /\ a <= Len(out) /\ out \in Text
  BY <1>0, <1>4, <1>5, CarryingFacts DEF InOrder, Sendings
<1>9. /\ Outward(ver, c, h, q, SubSeq(out, a + 1, Len(out)), 0)
      /\ Reached(ver, h, q, SubSeq(out, a + 1, Len(out)), 0) = Reached(ver, h, q, out, a)
  <2> HIDE DEF h, a, q, out
  <2>1. QED
    BY <1>3, <1>8, OutwardMoved
<1>10. Sendings(s, c)' /\ Handed(s, c)' = Handed(s, c)
  <2> HIDE DEF ms
  <2>1. QED
    BY <1>0, <1>2, <1>4, <1>6, <1>7, <1>9 DEF Sendings, Handed
<1>11. QED
  BY <1>1, <1>2, <1>10, MovedOn

(* Practice06: the completion of a send pops it and posts the next one.    *)
LEMMA PopsOrder ==
    ASSUME NEW s \in Slots, NEW c, Carrying(s, c), SendInv, NEW w \in Workers, pc[w].s = s, Pops(w)
    PROVE  InOrder(s, c)'
<1>0. TypeOK /\ c \in Conns /\ Talking(s, c) /\ Known /\ UNCHANGED ver /\ InOrder(s, c) /\ Stands(s) /\ ses[s].sock = c
      /\ ~Overlapped
  BY CarryingFacts DEF Carrying, Talking
<1>1. Carries(w, s) /\ w # "packet" /\ w # "sender"
  BY ThreadFacts DEF Carries
<1>2. /\ Heard(c)' = Heard(c) /\ Moving(s)' = Moving(s) /\ ~Say(c) /\ \A u : u # w => ~Carries(u, s)
  BY <1>1, CarriedElse
<1> DEFINE out == ses[s].out  rest == Tail(out)  e == [s |-> s, ms |-> Head(rest)]
<1>3. ver = "06" /\ ver \in Queued /\ out \in Seq(Text) /\ out # <<>> /\ pc[w].at = "got" /\ pc[w].op = "send"
  BY OutText DEF Pops, SendCompleted06, At, Queued
<1>4. conn[c].sends = <<>>
  <2>1. OneSent(s)
    BY <1>0, <1>3 DEF SendInv
  <2>2. w \in SendHolders(s)
    BY <1>3 DEF SendHolders, SendDone
  <2>3. c \in DOMAIN SendsOf
    BY <1>0, IoFamilies
  <2>4. NoneIn(SendsOf[c], SendOps(s))
    BY <2>1, <2>2, <2>3 DEF OneSent, Single
  <2>5. QED
    BY <2>4, NonePending
<1>5. ses'[s].out = rest
  <2>1. ses' = [ses EXCEPT ![s].out = rest]
    BY DEF Pops, SendCompleted06
  <2> HIDE DEF rest
  <2>2. ses \in [Slots -> SesRec]
    BY <1>0 DEF TypeOK, SesOK
  <2>3. QED
    BY <2>1, <2>2 DEF SesRec
<1>6. conn'[c].sends = IF rest = <<>> THEN <<>> ELSE <<e>>
  <2>1. IF rest # <<>> THEN \E ok \in BOOLEAN : WSASend(s, Head(rest), ok) ELSE UNCHANGED conn
    BY DEF Pops, SendCompleted06, BindSend06
  <2>2. CASE rest # <<>>
    <3>1. PICK ok \in BOOLEAN : WSASend(s, Head(rest), ok)
      BY <2>1, <2>2
    <3>2. ok
      BY <1>0, <3>1 DEF WSASend, Taken
    <3>3. Head(rest) \in Text
      BY <1>0, <2>2, PopText
    <3>4. conn'[c].sends = Append(conn[c].sends, e)
      BY <1>0, <3>1, <3>2, <3>3, SendCall
    <3>5. Append(<<>>, e) = <<e>>
      OBVIOUS
    <3>6. QED
      BY <1>4, <2>2, <3>4, <3>5
  <2>3. CASE rest = <<>>
    BY <1>4, <2>1, <2>3
  <2>4. QED
    BY <2>2, <2>3
<1>7. RecvSame(s, c)
  <2>1. \A v \in Workers : v # w => ~Carries(v, s)
    BY <1>2
  <2>2. ~Fetches(w) /\ ~Echoes(w) /\ ~Queues(w)
    BY <1>3 DEF Fetches, WorkerThread01, Echoes, Queues, At, OneBuffer
  <2>3. \A v \in Workers : ~Fetches(v)
    BY <2>1, <2>2 DEF Carries
  <2>4. \A v \in Workers : pc[v].s = s => ~Echoes(v) /\ ~Queues(v)
    BY <2>1, <2>2 DEF Carries
  <2>5. QED
    BY <1>0, <1>2, <2>3, <2>4, RecvSide
<1>8. Inward(deque', s, c, Passed(s, c), Kept(s, c))
  BY <1>0 DEF InOrder, Pops, SendCompleted06
<1> DEFINE h == Heard(c)  a == Moving(s)
<1>9. h \in Nat /\ Outward(ver, c, h, <<>>, out, a) /\ e.ms = Head(rest)
  BY <1>0, <1>4, CarryingFacts DEF InOrder, Sendings
<1>10. /\ rest = <<>> => Outward(ver, c, h, <<>>, rest, a) /\ Reached(ver, h, <<>>, rest, a) = Reached(ver, h, <<>>, out, a)
       /\ rest # <<>> => Outward(ver, c, h, <<e>>, rest, a) /\ Reached(ver, h, <<e>>, rest, a) = Reached(ver, h, <<>>, out, a)
  <2>1. h \in Nat /\ out \in Seq(Text) /\ ver = "06" /\ out # <<>> /\ Outward(ver, c, h, <<>>, out, a) /\ e.ms = Head(Tail(out))
    BY <1>3, <1>9
  <2>2. Tail(out) # <<>> => e \in Op
    <3>1. Tail(out) # <<>> => Head(Tail(out)) \in Text
      BY <1>0, PopText
    <3>2. s \in AllSlots
      BY <1>0, SlotFacts
    <3>3. QED
      BY <3>1, <3>2 DEF Op
  <2> HIDE DEF h, a, out, e
  <2>3. /\ Tail(out) = <<>> => /\ Outward(ver, c, h, <<>>, Tail(out), a)
                               /\ Reached(ver, h, <<>>, Tail(out), a) = Reached(ver, h, <<>>, out, a)
        /\ Tail(out) # <<>> => /\ Outward(ver, c, h, <<e>>, Tail(out), a)
                               /\ Reached(ver, h, <<e>>, Tail(out), a) = Reached(ver, h, <<>>, out, a)
    BY <2>1, <2>2, OutwardPopped
  <2>4. QED
    BY <2>3
<1>11. Sendings(s, c)' /\ Handed(s, c)' = Handed(s, c)
  <2> HIDE DEF rest, e
  <2>1. QED
    BY <1>0, <1>2, <1>4, <1>5, <1>6, <1>10 DEF Sendings, Handed
<1>12. QED
  BY <1>1, <1>7, <1>8, <1>11, MovedOn

(* A session that was just accepted for has nothing in it and its client   *)
(* has said and heard nothing.                                             *)
LEMMA NewCalm ==
    ASSUME TypeOK, SockInv, NEW s \in Slots, Accepts(s) \/ KernelAccepts(s)
    PROVE  /\ ses'[s].sock = Caller /\ Caller \in Conns
           /\ conn'[Caller].said = 0 /\ conn'[Caller].heard = <<>> /\ conn'[Caller].sends = <<>>
<1>1. PICK t \in {"accepter", "kernel"} : Accepted(t, s)
  BY DEF Accepts, KernelAccepts
<1>2. Caller \in Conns /\ conn[Caller].st = "backlog" /\ conn' = [conn EXCEPT ![Caller].st = "open"]
  BY <1>1, CallerFacts DEF Accepted
<1>3. SetsSock(s, Caller)
  BY <1>1 DEF Accepted, SetsSock
<1>4. conn \in [Conns -> ConnRec]
  BY DEF TypeOK, ConnOK
<1>5. conn'[Caller].said = conn[Caller].said /\ conn'[Caller].heard = conn[Caller].heard /\ conn'[Caller].sends = conn[Caller].sends
  BY <1>2, <1>4 DEF ConnRec
<1>6. conn[Caller].said = 0 /\ conn[Caller].heard = <<>> /\ conn[Caller].sends = <<>>
  BY <1>2 DEF SockInv
<1>7. \A r \in Slots : ses'[r].sock = (IF r = s THEN Caller ELSE ses[r].sock)
  BY <1>3, SockSet
<1>8. QED
  BY <1>2, <1>5, <1>6, <1>7

(* Nothing is on its way out.                                              *)
LEMMA OutwardNone ==
    ASSUME NEW v, NEW c
    PROVE  Outward(v, c, 0, <<>>, <<>>, 0) /\ Reached(v, 0, <<>>, <<>>, 0) = 0
<1>1. DOMAIN <<>> = {} /\ Len(<<>>) = 0
  OBVIOUS
<1>2. Posted(v, <<>>) = 0
  BY <1>1 DEF Posted
<1>3. Before(v, 0, <<>>, <<>>, 0) = 0
  BY <1>2 DEF Before
<1>4. Outward(v, c, 0, <<>>, <<>>, 0)
  BY <1>1, <1>3, CountsNone DEF Outward
<1>5. Reached(v, 0, <<>>, <<>>, 0) = 0
  BY <1>1, <1>2, <1>3 DEF Reached
<1>6. QED
  BY <1>4, <1>5

(* The first words of a connection will be in order.                       *)
LEMMA NewOrder ==
    ASSUME TypeOK, SockInv, NEW s \in Slots, Accepts(s) \/ KernelAccepts(s), ~Overlapped', NEW c, ses'[s].sock = c
    PROVE  InOrder(s, c)'
<1>1. NewSlot(s)'
  BY AcceptedFresh
<1>2. conn'[c].said = 0 /\ conn'[c].heard = <<>> /\ conn'[c].sends = <<>>
  BY NewCalm
<1>3. ses'[s].out = <<>>
  BY <1>1 DEF NewSlot, LeftBehind
<1>4. ~Advancing(s)' /\ pc'["packet"].s # s
  BY <1>1, ThreadFacts DEF NewSlot, Advancing, Threads
<1>5. ~Arrived(s)' /\ RecvOrder(s, c)'
  <2>1. \A i \in DOMAIN port' : ~(port'[i].s = s /\ port'[i].op = "recv")
    BY <1>1 DEF NewSlot
  <2>2. \A w \in Workers : pc'[w].s # s
    BY <1>1, ThreadFacts DEF NewSlot, Threads
  <2>3. QED
    BY <2>1, <2>2 DEF Arrived, RecvOrder, Fetched
<1>6. Heard(c)' = 0 /\ Moving(s)' = 0
  <2>1. Len(<<>>) = 0
    OBVIOUS
  <2>2. QED
    BY <1>2, <1>4, <2>1 DEF Heard, Moving
<1>7. Sendings(s, c)' /\ Handed(s, c)' = 0
  BY <1>2, <1>3, <1>6, OutwardNone DEF Sendings, Handed
<1>8. Passed(s, c)' = 0 /\ Kept(s, c)' = 0
  <2>1. Passed(s, c)' = 0
    BY <1>4, <1>7 DEF Passed
  <2>2. ~Arrived(s)'
    BY <1>5
  <2>4. Kept(s, c)' = conn'[c].said - 0
    BY <2>2 DEF Kept
  <2>3. QED
    BY <1>2, <2>1, <2>4
<1>9. Inward(deque', s, c, 0, 0)
  BY <1>1 DEF NewSlot, Inward
<1>10. QED
  BY <1>2, <1>4, <1>5, <1>6, <1>7, <1>8, <1>9 DEF InOrder, PacketOrder

(* Every step that concerns an open session keeps the order of its words.  *)
LEMMA CarriedOrder ==
    ASSUME NEW s \in Slots, NEW c, Carrying(s, c), OneRecv(s), Owns(s, c), RecvInv, SendInv, OpsInv, Clean'
    PROVE  InOrder(s, c)'
<1>1. CASE Say(c)
  BY <1>1, SayOrder
<1>2. CASE Sent(c)
  BY <1>2, SentOrder
<1>3. ASSUME NEW w \in Workers, pc[w].s = s, Echoes(w) \/ Queues(w) \/ Pops(w)
      PROVE  InOrder(s, c)'
  BY <1>3, EchoesOrder, QueuesOrder, PopsOrder
<1>4. ASSUME NEW w \in Workers, Fetches(w), Head(port).s = s, Head(port).op = "recv"
      PROVE  InOrder(s, c)'
  BY <1>4, FetchOrder
<1>5. CASE Dequeues /\ Head(deque).s = s
  BY <1>5, DequeuesOrder
<1>6. CASE pc["packet"].s = s /\ (Answers \/ Puts \/ Lines)
  BY <1>6, AnswersOrder, PutsOrder, LinesOrder
<1>7. CASE pc["sender"].s = s /\ Advances
  BY <1>7, AdvancesOrder
<1>8. ASSUME NEW told \in BOOLEAN, pc["sender"].s = s, Posts(told)
      PROVE  InOrder(s, c)'
  BY <1>8, PostsOrder
<1>9. QED
  BY <1>1, <1>2, <1>3, <1>4, <1>5, <1>6, <1>7, <1>8, SilentOrder

(* A step keeps OrderInv.                                                  *)
LEMMA OrderStep ==
    ASSUME TypeOK, SockInv, ShutInv, RecvInv, SendInv, OwnInv, OpsInv, TalkInv, OrderInv, Known, UNCHANGED <<kind, ver>>
    PROVE  OrderInv'
<1>0. SesMoves /\ Calls /\ TypeOK' /\ Slots' = Slots /\ UNCHANGED ver
  <2>1. SesMoves /\ Calls /\ TypeOK'
    BY SesMove, CallsKnown, TypeStep
  <2>2. QED
    BY <2>1 DEF SesMoves
<1>1. SUFFICES ASSUME Ordered'
               PROVE  /\ \A c \in Conns : Counts(conn'[c].heard, c, 0)
                      /\ \A s \in Slots : \A c \in Conns : Stands(s)' /\ ses'[s].sock = c => InOrder(s, c)'
  <2>1. Ordered' => \A c \in Conns : Counts(conn'[c].heard, c, 0)
    BY <1>1
  <2>2. Ordered' => \A s \in Slots : \A c \in Conns : Stands(s)' /\ ses'[s].sock = c => InOrder(s, c)'
    BY <1>1
  <2>3. QED
    BY <1>0, <2>1, <2>2 DEF OrderInv, Counts
<1>2. Clean' /\ Clean /\ ~Overlapped /\ ~Overlapped' /\ ver \in Echoing /\ (ver \in OneBuffer => kind = "pingpong") /\ Ordered
  BY <1>0, <1>1, MarksGrow DEF Clean, Overlapped, Ordered
<1>3. ASSUME NEW s \in Slots, NEW c \in Conns, Stands(s), ses[s].sock = c, ses'[s].sock # None
      PROVE  Carrying(s, c) /\ OneRecv(s) /\ Owns(s, c)
  <2>1. ses[s].sock # None
    BY <1>3 DEF Stands
  <2>2. InOrder(s, c) /\ Owns(s, c) /\ OneRecv(s)
    BY <1>2, <1>3, <2>1 DEF OrderInv, TalkInv, RecvInv
  <2>3. QED
    BY <1>0, <1>2, <1>3, <2>2 DEF Carrying, Talking
<1>4. ASSUME NEW c \in Conns
      PROVE  Counts(conn'[c].heard, c, 0)
  <2>1. Counts(conn[c].heard, c, 0)
    BY <1>2 DEF OrderInv
  <2>2. CASE Sent(c)
    <3> DEFINE e == conn[c].sends[1]
    <3>1. 1 \in DOMAIN conn[c].sends
      <4>1. conn[c].sends \in Seq(Op) /\ conn[c].sends # <<>>
        BY <2>2, ConnFacts DEF Op, Sent
      <4>2. QED
        BY <4>1, SeqTail
    <3>2. e.s \in Slots /\ OwnedBy(e.s, c) /\ conn[c].st = "open"
      BY <1>2, <2>2, <3>1 DEF OwnInv, TypeOK, OpsOK, Sent
    <3>3. Stands(e.s) /\ ses[e.s].sock = c
      BY <3>2 DEF OwnedBy, Stands, Conns, None
    <3>4. ses' = ses
      BY <2>2, SentIs
    <3>5. Carrying(e.s, c)
      BY <1>3, <3>2, <3>3, <3>4 DEF Stands
    <3> HIDE DEF e
    <3>6. QED
      BY <2>1, <2>2, <3>2, <3>5, SentOrder
  <2>3. CASE ~Sent(c)
    <3>1. conn'[c].heard = conn[c].heard
      BY <1>0, <2>3, WordsMoved DEF WordsMove
    <3>2. QED
      BY <2>1, <3>1
  <2>4. QED
    BY <2>2, <2>3
<1>5. ASSUME NEW s \in Slots, NEW c \in Conns, Stands(s)', ses'[s].sock = c
      PROVE  InOrder(s, c)'
  <2>1. CASE Accepts(s) \/ KernelAccepts(s)
    BY <1>2, <1>5, <2>1, NewOrder
  <2>2. CASE ~(Accepts(s) \/ KernelAccepts(s))
    <3>1. Stands(s) /\ ses[s].sock = c /\ ses'[s].sock # None
      BY <1>5, <2>2, StandsComes DEF Stands
    <3>2. QED
      BY <1>2, <1>3, <3>1, CarriedOrder
  <2>3. QED
    BY <2>1, <2>2
<1>6. QED
  BY <1>4, <1>5

(* What a client has heard is what it said, from its first word on.        *)
LEMMA InOrderIs ==
    ASSUME TypeOK, OrderInv
    PROVE  EchoInOrder
<1>1. SUFFICES ASSUME Ordered, NEW c \in Conns PROVE conn[c].heard = Said(c)
  BY DEF EchoInOrder, Ordered
<1>2. conn[c].heard \in Text
  BY ConnFacts
<1>3. conn[c].heard = [i \in 1..Len(conn[c].heard) |-> conn[c].heard[i]] /\ DOMAIN conn[c].heard = 1..Len(conn[c].heard)
  BY <1>2 DEF Text
<1>4. \A i \in 1..Len(conn[c].heard) : conn[c].heard[i] = Word(c, 0 + i)
  BY <1>1, <1>3 DEF OrderInv, Counts
<1>5. \A i \in 1..Len(conn[c].heard) : conn[c].heard[i] = [c |-> c, n |-> i]
  BY <1>4 DEF Word
<1>6. QED
  BY <1>3, <1>5 DEF Said

(* What a client hears is what it said, from its first word on, without a  *)
(* gap, a repetition or an exchange: of a session, the words that are      *)
(* heard, being sent, to be sent, with the packet thread, in the deque,    *)
(* and received, follow one another in this order (OrderInv), over every   *)
(* interleaving of workers, packet thread and sender, as long as nothing   *)
(* is marked, misread operations among it (for the practices with one      *)
(* buffer for sends, if clients wait for the echo).                        *)
THEOREM EchoOrder == Spec => []EchoInOrder
<1> DEFINE I == RecvInv /\ SendInv /\ OwnInv /\ OpsInv /\ TalkInv /\ OrderInv
<1>1. EchoInit => I
  <2>1. (\A c : Mine(<<>>, c)) /\ (\A c : Counts(<<>>, c, 0))
    BY MineNone, CountsNone
  <2>2. DOMAIN <<>> = {}
    OBVIOUS
  <2>3. SUFFICES ASSUME EchoInit PROVE I
    OBVIOUS
  <2>4. /\ port = <<>> /\ \A c \in Conns : conn[c].recvs = <<>> /\ conn[c].sends = <<>> /\ conn[c].heard = <<>>
        /\ (\A s \in Slots : ses[s].sock = None) /\ (\A t \in Threads : pc[t].at \in {"init", "off"})
    BY <2>3, InitFacts
  <2>5. RecvInv
    BY <2>4 DEF RecvInv
  <2>6. SendInv
    <3>1. \A c \in Conns : SendsOf[c] = <<>>
      BY <2>4 DEF SendsOf
    <3>2. \A s : SendHolders(s) = {}
      BY <2>4, ThreadFacts DEF SendHolders, SendDone
    <3>3. \A s : NoSend(s)
      BY <2>2, <2>4, <3>1, <3>2 DEF NoSend, Empty, NoneIn, SendsOf
    <3>4. \A s : OneSent(s)
      BY <3>3, EmptySingle
    <3>5. QED
      BY <2>4, <3>4 DEF SendInv
  <2>7. OwnInv
    BY <2>2, <2>4 DEF OwnInv
  <2>8. OpsInv
    BY <2>2, <2>4, ThreadFacts DEF OpsInv, At
  <2>9. TalkInv
    BY <2>1, <2>4 DEF TalkInv, Stands
  <2>10. OrderInv
    BY <2>1, <2>4 DEF OrderInv, Stands
  <2>11. QED
    BY <2>5, <2>6, <2>7, <2>8, <2>9, <2>10
<1>2. TypeOK /\ StartInv /\ LinkInv /\ I /\ [Next]_<<vars, ver>> => I'
  <2>1. SUFFICES ASSUME TypeOK, StartInv, LinkInv, I, [Next]_<<vars, ver>>
                 PROVE  I'
    OBVIOUS
  <2>2. UNCHANGED <<kind, ver>> /\ UNCHANGED ver /\ (Known \/ (\E w \in Workers : Misreads(w)) \/ UNCHANGED <<vars, ver>>)
    BY <2>1, NextIs
  <2>3. CASE Known
    BY <2>1, <2>2, <2>3, RecvStep, SendStep, OwnStep, OpsStep, TalkStep, OrderStep DEF LinkInv
  <2>4. CASE UNCHANGED <<vars, ver>>
    <3>1. UNCHANGED <<conn, accepts, port, ses, pc, marks, deque, ver, kind>>
      BY <2>2, <2>4 DEF vars, net, mem, hist
    <3>2. \A s : (OneRecv(s)' <=> OneRecv(s)) /\ (NoSend(s)' <=> NoSend(s))
      BY <3>1 DEF OneRecv, NoSend, Single, Empty, NoneIn, OneIn, RecvsOf, SendsOf, RecvHolders, SendHolders, RecvsDone, SendsDone,
                  SendOps, Receiving, SendDone, At
    <3>3. \A s : OneSent(s)' <=> OneSent(s)
      BY <3>1 DEF OneSent, Single, NoneIn, OneIn, SendsOf, SendHolders, SendsDone, SendOps, SendDone
    <3>4. RecvInv'
      BY <2>1, <3>1, <3>2 DEF RecvInv, Overlapped, Slots
    <3>5. SendInv'
      BY <2>1, <3>1, <3>2, <3>3 DEF SendInv, Overlapped, Slots, Calling
    <3>6. OwnInv' /\ OpsInv'
      BY <2>1, <3>1 DEF OwnInv, OpsInv, OwnedBy, Overlapped, At
    <3>7. \A s : \A c : Owns(s, c)' <=> Owns(s, c)
      BY <3>1 DEF Owns, Mine, Advancing, At
    <3>8. TalkInv'
      BY <2>1, <3>1, <3>7 DEF TalkInv, Clean, Mine, Stands, Slots
    <3>9. \A s : \A c : InOrder(s, c)' <=> InOrder(s, c)
      <4>1. ASSUME NEW s, NEW c PROVE (Arrived(s)' <=> Arrived(s)) /\ Moving(s)' = Moving(s)
        BY <3>1 DEF Arrived, Fetched, Moving, Advancing, At
      <4>2. ASSUME NEW s, NEW c
            PROVE  (Sendings(s, c)' <=> Sendings(s, c)) /\ Passed(s, c)' = Passed(s, c)
        <5>1. (Sendings(s, c)' <=> Sendings(s, c)) /\ Handed(s, c)' = Handed(s, c)
          BY <3>1, <4>1 DEF Sendings, Handed, Heard
        <5>2. QED
          BY <3>1, <5>1 DEF Passed
      <4>3. ASSUME NEW s, NEW c PROVE Kept(s, c)' = Kept(s, c)
        BY <3>1, <4>1 DEF Kept
      <4>4. ASSUME NEW s, NEW c
            PROVE  (PacketOrder(s, c)' <=> PacketOrder(s, c)) /\ (RecvOrder(s, c)' <=> RecvOrder(s, c))
        BY <3>1, <4>2 DEF PacketOrder, RecvOrder, Fetched, At
      <4>5. QED
        BY <3>1, <4>2, <4>3, <4>4 DEF InOrder, Heard
    <3>10. OrderInv'
      BY <2>1, <3>1, <3>9 DEF OrderInv, Ordered, Clean, Counts, Stands, Slots
    <3>11. QED
      BY <3>4, <3>5, <3>6, <3>8, <3>10
  <2>5. CASE \E w \in Workers : Misreads(w)
    <3>1. "misread" \in marks' /\ ver' \in Reusing
      BY <2>2, <2>5 DEF Misreads, Reusing
    <3>2. RecvInv' /\ SendInv' /\ OwnInv' /\ OpsInv' /\ TalkInv'
      BY <3>1 DEF RecvInv, SendInv, OwnInv, OpsInv, TalkInv, Overlapped, Clean
    <3>3. QED
      BY <3>1, <3>2 DEF OrderInv, Ordered, Clean
  <2>6. QED
    BY <2>2, <2>3, <2>4, <2>5
<1>3. TypeOK /\ OrderInv => EchoInOrder
  BY InOrderIs
<1>4. QED
  BY <1>1, <1>2, <1>3, EchoTypes, EchoLinks, PTL DEF Spec
=============================================================================
