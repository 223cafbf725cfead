-------------------------- MODULE SendBufferProofs --------------------------
(***************************************************************************)
(* The sending half of a session, for every size of the ring, every set of *)
(* packets and whatever WSASend answers.                                   *)
(***************************************************************************)
EXTENDS SendBuffer, RingBufferProofs

(***************************************************************************)
(* is_sending_ is on from the compare-and-swap to the completion: there is *)
(* one request at a time, and no completion without one.                   *)
(***************************************************************************)
OneRequest ==
    /\ pc = "wsasend" => sending /\ request = <<>> /\ ~completed
    /\ request # <<>> => sending /\ late /\ ~completed
    /\ completed => sending

(***************************************************************************)
(* A request the kernel still has is what SetWsaBuf made when the ring     *)
(* ended at e; since then the ring has only grown.                         *)
(***************************************************************************)
EndingAt(e) == [ring EXCEPT !.rear = e]

RequestOfPrefix ==
    request # <<>> =>
        \E e \in Index : /\ request = WsaBufs(EndingAt(e))
                         /\ GetSizeInUse(EndingAt(e)) <= GetSizeInUse(ring)

IInv == TypeOK /\ OneRequest /\ RequestOfPrefix /\ StreamIntactUnlessLate

-----------------------------------------------------------------------------
LEMMA ConcatType == ASSUME NEW s \in Seq(Bytes), NEW t \in Seq(Bytes)
                    PROVE  s \o t \in Seq(Bytes) /\ Len(s \o t) = Len(s) + Len(t)
BY SMT

LEMMA EmptyType == ASSUME NEW S PROVE <<>> \in Seq(S)
BY SMT

LEMMA ConcatEmpty == <<>> \in Seq(Bytes) /\ <<>> \o <<>> = <<>>
BY SMT

LEMMA ConcatAssoc == ASSUME NEW s \in Seq(Bytes), NEW t \in Seq(Bytes),
                            NEW q \in Seq(Bytes)
                     PROVE  (s \o t) \o q = s \o (t \o q)
BY SMT

(* A sequence is its first n elements, then the others. *)
LEMMA SplitAt == ASSUME NEW s \in Seq(Bytes), NEW n \in 0..Len(s)
                 PROVE  /\ SubSeq(s, 1, n) \in Seq(Bytes)
                        /\ SubSeq(s, 1, n) \o SubSeq(s, n + 1, Len(s)) = s
<1> DEFINE a == SubSeq(s, 1, n)
           b == SubSeq(s, n + 1, Len(s))
<1>0. /\ n \in Nat /\ Len(s) \in Nat /\ Len(s) - n \in Nat
      /\ n + (Len(s) - n) = Len(s)
  OBVIOUS
<1>1. a \in Seq(Bytes) /\ Len(a) = n /\ \A k \in 1..n : a[k] = s[k]
  BY SMT
<1>2. /\ b \in Seq(Bytes) /\ Len(b) = Len(s) - n
      /\ \A k \in 1..(Len(s) - n) : b[k] = s[n + k]
  BY SMT
<1>3. a \o b \in Seq(Bytes) /\ Len(a \o b) = Len(s)
  <2>1. a \o b \in Seq(Bytes) /\ Len(a \o b) = Len(a) + Len(b)
    BY <1>1, <1>2, ConcatType
  <2> QED  BY <1>0, <1>1, <1>2, <2>1
<1>4. ASSUME NEW k \in 1..Len(s)
      PROVE  (a \o b)[k] = s[k]
  <2>1. k \in 1..(Len(a) + Len(b))  BY <1>0, <1>1, <1>2
  <2>2. (a \o b)[k] = IF k <= Len(a) THEN a[k] ELSE b[k - Len(a)]
    BY <1>1, <1>2, <2>1, ConcatAt
  <2>3. k > n => k - n \in 1..(Len(s) - n) /\ n + (k - n) = k
    OBVIOUS
  <2>4. CASE k <= n
    <3>1. k \in 1..n  BY <1>0, <2>4
    <3> QED  BY <1>1, <2>2, <2>4, <3>1
  <2>5. CASE ~(k <= n)
    <3>1. k > n  BY <1>0, <2>5
    <3>2. (a \o b)[k] = b[k - n]  BY <1>1, <2>2, <2>5
    <3> QED  BY <1>2, <2>3, <3>1, <3>2
  <2> QED  BY <2>4, <2>5
<1> QED  BY <1>1, <1>3, <1>4, SameBytes

(* A source is cut to what fits; the part that was taken is a sequence. *)
LEMMA TakenType == ASSUME NEW r \in Rings, NEW src \in Seq(Bytes)
                   PROVE  SubSeq(src, 1, Fitting(r, src)) \in Seq(Bytes)
<1>1. Fitting(r, src) \in 0..Len(src)  BY FittingType
<1> QED  BY <1>1, SplitAt

(* MoveFront(0), after a WSASend that is pending or failed, changes nothing. *)
LEMMA MoveNothing == ASSUME NEW r \in Rings
                     PROVE  MoveFront(r, 0) = r
<1>0. r.front \in Index /\ Size \in Nat \ {0}  BY RingAssumption DEF Rings
<1>1. (r.front + 0) % Size = r.front  BY <1>0, ModSmall, r.front + 0 = r.front DEF Index
<1> QED  BY <1>0, <1>1 DEF MoveFront, Rings

-----------------------------------------------------------------------------
LEMMA InitInv == Init => IInv
<1> SUFFICES ASSUME Init PROVE IInv
  OBVIOUS
<1>1. PICK b \in [Index -> Bytes] : ring = [front |-> 0, rear |-> 0, buf |-> b]
  BY DEF Init
<1>2. 0 \in Index  BY RingAssumption DEF Index
<1>3. ring \in Rings  BY <1>1, <1>2 DEF Rings
<1>4. GetSizeInUse(ring) = 0  BY <1>1 DEF GetSizeInUse
<1>5. Contents(ring) = <<>>  BY <1>3, <1>4, ContentsType
<1>6. TypeOK
  <2>1. request \in Seq([start : Index, len : Index])  BY EmptyType DEF Init
  <2>2. accepted \in Seq(Bytes) /\ delivered \in Seq(Bytes)  BY EmptyType DEF Init
  <2> QED  BY <1>3, <2>1, <2>2 DEF Init, TypeOK
<1>7. OneRequest /\ RequestOfPrefix  BY DEF Init, OneRequest, RequestOfPrefix
<1>8. StreamIntactUnlessLate  BY <1>5, ConcatEmpty DEF Init, StreamIntactUnlessLate
<1> QED  BY <1>6, <1>7, <1>8 DEF IInv

(* The steps that leave the ring alone, or move its front by nothing *)
LEMMA SameRing ==
    ASSUME TypeOK, RequestOfPrefix, UNCHANGED <<ring, request>>
    PROVE  RequestOfPrefix'
BY DEF RequestOfPrefix, EndingAt, WsaBufs, GetContinuousDequeueSize, GetSizeInUse

LEMMA EnqueueInv ==
    ASSUME IInv, NEW src \in Messages, EnqueueSendData(src)
    PROVE  IInv'
<1> DEFINE taken == SubSeq(src, 1, Fitting(ring, src))
<1>0. ring \in Rings /\ src \in Seq(Bytes) /\ accepted \in Seq(Bytes)
      /\ delivered \in Seq(Bytes) /\ ring' = Enqueue(ring, src)
      /\ accepted' = accepted \o taken
  BY SendAssumption DEF IInv, TypeOK, EnqueueSendData
<1>1. taken \in Seq(Bytes)  BY <1>0, TakenType
<1>2. ring' \in Rings /\ Contents(ring') = Contents(ring) \o taken
      /\ GetSizeInUse(ring') = GetSizeInUse(ring) + Fitting(ring, src)
  BY <1>0, EnqueueType, EnqueueContents
<1>3. accepted' \in Seq(Bytes)  BY <1>0, <1>1, ConcatType
<1>4. TypeOK'
  BY <1>2, <1>3 DEF IInv, TypeOK, EnqueueSendData
<1>5. OneRequest'  BY DEF IInv, OneRequest, EnqueueSendData
<1>6. RequestOfPrefix'
  <2> SUFFICES ASSUME request' # <<>>
               PROVE  \E e \in Index : /\ request' = WsaBufs(EndingAt(e)')
                                       /\ GetSizeInUse(EndingAt(e)') <= GetSizeInUse(ring')
    BY DEF RequestOfPrefix
  <2>1. PICK e \in Index : /\ request = WsaBufs(EndingAt(e))
                           /\ GetSizeInUse(EndingAt(e)) <= GetSizeInUse(ring)
    BY DEF IInv, RequestOfPrefix, EnqueueSendData
  <2>2. ring'.front = ring.front  BY <1>0 DEF Enqueue
  <2>3. EndingAt(e)'.front = EndingAt(e).front /\ EndingAt(e)'.rear = EndingAt(e).rear
    BY <1>0, <1>2, <2>2 DEF EndingAt, Rings
  <2>4. /\ GetSizeInUse(EndingAt(e)') = GetSizeInUse(EndingAt(e))
        /\ WsaBufs(EndingAt(e)') = WsaBufs(EndingAt(e))
    BY <2>3 DEF GetSizeInUse, GetContinuousDequeueSize, WsaBufs
  <2>5. GetSizeInUse(EndingAt(e)) <= GetSizeInUse(ring')
    <3>1. EndingAt(e) \in Rings  BY <1>0 DEF EndingAt, Rings
    <3>2. GetSizeInUse(EndingAt(e)) \in Nat  BY <3>1, Used, RingAssumption
    <3>3. GetSizeInUse(ring) \in Nat /\ Fitting(ring, src) \in Nat
      BY <1>0, Used, FittingType, RingAssumption
    <3> QED  BY <1>2, <2>1, <3>2, <3>3
  <2> QED  BY <2>1, <2>4, <2>5 DEF EnqueueSendData
<1>7. StreamIntactUnlessLate'
  <2> SUFFICES ASSUME ~late' PROVE accepted' = delivered' \o Contents(ring')
    BY DEF StreamIntactUnlessLate
  <2>1. accepted = delivered \o Contents(ring) /\ delivered' = delivered
    BY DEF IInv, StreamIntactUnlessLate, EnqueueSendData
  <2>2. Contents(ring) \in Seq(Bytes)  BY <1>0, ContentsType
  <2>3. (delivered \o Contents(ring)) \o taken = delivered \o (Contents(ring) \o taken)
    <3>1. delivered \in Seq(Bytes) /\ taken \in Seq(Bytes)  BY <1>0, <1>1
    <3> HIDE DEF taken
    <3> QED  BY <2>2, <3>1, ConcatAssoc, Zenon
  <2>4. accepted' = (delivered \o Contents(ring)) \o taken
    <3>1. accepted' = accepted \o taken  BY <1>0
    <3> QED  BY <2>1, <3>1
  <2>5. delivered' \o Contents(ring') = delivered \o (Contents(ring) \o taken)
    <3>1. Contents(ring') = Contents(ring) \o taken  BY <1>2
    <3> QED  BY <2>1, <3>1
  <2> QED  BY <2>3, <2>4, <2>5
<1> QED  BY <1>4, <1>5, <1>6, <1>7 DEF IInv

LEMMA SentNowInv ==
    ASSUME IInv, NEW n \in 1..GetSizeInUse(ring), SentNow(n)
    PROVE  /\ IInv'
           /\ Contents(ring') = SubSeq(Contents(ring), n + 1, Len(Contents(ring)))
<1> DEFINE c == Contents(ring)
           first == SubSeq(c, 1, n)
<1>0. ring \in Rings /\ delivered \in Seq(Bytes) /\ ring' = MoveFront(ring, n)
  BY DEF IInv, TypeOK, SentNow
<1>1. c \in Seq(Bytes) /\ Len(c) = GetSizeInUse(ring) /\ n \in 0..Len(c)
  BY <1>0, ContentsType, Used, RingAssumption
<1>2. first \in Seq(Bytes) /\ first \o SubSeq(c, n + 1, Len(c)) = c
  BY <1>1, SplitAt
<1>3. ring' \in Rings /\ Contents(ring') = SubSeq(c, n + 1, Len(c))
  BY <1>0, <1>1, MoveFrontContents
<1>4. delivered' = delivered \o first
  BY <1>0, GatherContents DEF SentNow
<1>5. delivered' \in Seq(Bytes)  BY <1>0, <1>2, <1>4, ConcatType
<1>6. TypeOK'  BY <1>3, <1>5 DEF IInv, TypeOK, SentNow
<1>7. OneRequest'  BY DEF IInv, OneRequest, SentNow
<1>8. RequestOfPrefix'  BY DEF IInv, OneRequest, RequestOfPrefix, SentNow
<1>9. StreamIntactUnlessLate'
  <2> SUFFICES ASSUME ~late' PROVE accepted' = delivered' \o Contents(ring')
    BY DEF StreamIntactUnlessLate
  <2>1. accepted' = delivered \o c
    BY DEF IInv, StreamIntactUnlessLate, SentNow
  <2>2. Contents(ring') \in Seq(Bytes)  BY <1>3, ContentsType
  <2>3. (delivered \o first) \o Contents(ring') = delivered \o (first \o Contents(ring'))
    BY <1>0, <1>2, <2>2, ConcatAssoc
  <2> QED  BY <1>2, <1>3, <1>4, <2>1, <2>3
<1> QED  BY <1>3, <1>6, <1>7, <1>8, <1>9 DEF IInv

LEMMA PendingInv ==
    ASSUME IInv, SendPending
    PROVE  IInv' /\ ring' = ring
<1>0. ring \in Rings /\ ring' = ring /\ request' = WsaBufs(ring)
  BY MoveNothing DEF IInv, TypeOK, SendPending
<1>1. TypeOK'
  BY <1>0, WsaBufsInside DEF IInv, TypeOK, SendPending
<1>2. OneRequest'  BY DEF IInv, OneRequest, SendPending
<1>3. RequestOfPrefix'
  <2>1. ring.rear \in Index /\ [ring EXCEPT !.rear = ring.rear] = ring
    BY <1>0 DEF Rings
  <2>2. GetSizeInUse(ring) <= GetSizeInUse(ring)
    BY <1>0, Used, RingAssumption
  <2> QED  BY <1>0, <2>1, <2>2 DEF RequestOfPrefix, EndingAt
<1>4. StreamIntactUnlessLate'  BY DEF StreamIntactUnlessLate, SendPending
<1> QED  BY <1>0, <1>1, <1>2, <1>3, <1>4 DEF IInv

LEMMA TransmitInv ==
    ASSUME IInv, Transmit
    PROVE  IInv'
<1>0. /\ ring \in Rings /\ delivered \in Seq(Bytes) /\ late
      /\ UNCHANGED <<ring, sending, pc, late, accepted>>
  BY DEF IInv, TypeOK, OneRequest, Transmit
<1>1. PICK e \in Index : request = WsaBufs(EndingAt(e))
  BY DEF IInv, RequestOfPrefix, Transmit
<1>2. EndingAt(e) \in Rings /\ EndingAt(e).buf = ring.buf
  BY <1>0 DEF EndingAt, Rings
<1>3. Gather(ring, request) = Contents(EndingAt(e))
  <2>1. Gather(ring, request) = Gather(EndingAt(e), request)
    BY <1>2 DEF Gather, Piece
  <2> QED  BY <1>1, <1>2, <2>1, GatherContents
<1>4. delivered' \in Seq(Bytes)
  BY <1>0, <1>2, <1>3, ContentsType, ConcatType DEF Transmit
<1>5. TypeOK'  BY <1>4 DEF IInv, TypeOK, Transmit
<1>6. OneRequest' /\ RequestOfPrefix'
  BY DEF IInv, OneRequest, RequestOfPrefix, Transmit
<1>7. StreamIntactUnlessLate'  BY <1>0 DEF StreamIntactUnlessLate
<1> QED  BY <1>5, <1>6, <1>7 DEF IInv

LEMMA NextConnectionInv ==
    ASSUME IInv, NextConnection
    PROVE  IInv' /\ Contents(ring') = <<>>
<1>0. ring \in Rings /\ ring' = ClearBuffer(ring)
  BY DEF IInv, TypeOK, NextConnection
<1>1. ring' \in Rings /\ Contents(ring') = <<>>  BY <1>0, ClearContents
<1>2. TypeOK'
  <2>1. request' \in Seq([start : Index, len : Index])
    BY EmptyType DEF NextConnection
  <2>2. accepted' \in Seq(Bytes) /\ delivered' \in Seq(Bytes)
    BY EmptyType DEF NextConnection
  <2> QED  BY <1>1, <2>1, <2>2 DEF IInv, TypeOK, NextConnection
<1>3. OneRequest' /\ RequestOfPrefix'
  BY DEF IInv, OneRequest, RequestOfPrefix, NextConnection
<1>4. StreamIntactUnlessLate'  BY <1>1, ConcatEmpty DEF StreamIntactUnlessLate, NextConnection
<1> QED  BY <1>1, <1>2, <1>3, <1>4 DEF IInv

(* Every step keeps the invariant. *)
LEMMA StepInv == IInv /\ [Next]_vars => IInv'
<1> SUFFICES ASSUME IInv, [Next]_vars PROVE IInv'
  OBVIOUS
<1>1. CASE UNCHANGED vars
  <2>1. UNCHANGED <<ring, request>>  BY <1>1 DEF vars
  <2>2. RequestOfPrefix'  BY <2>1, SameRing DEF IInv
  <2> QED  BY <1>1, <2>2 DEF IInv, TypeOK, OneRequest, StreamIntactUnlessLate, vars
<1>2. ASSUME NEW src \in Messages, EnqueueSendData(src) PROVE IInv'
  BY <1>2, EnqueueInv
<1>3. CASE BindSend
  <2>1. UNCHANGED <<ring, request>>  BY <1>3 DEF BindSend
  <2>2. RequestOfPrefix'  BY <2>1, SameRing DEF IInv
  <2> QED  BY <1>3, <2>2 DEF IInv, TypeOK, OneRequest, StreamIntactUnlessLate, BindSend
<1>4. ASSUME NEW n \in 1..GetSizeInUse(ring), SentNow(n) PROVE IInv'
  BY <1>4, SentNowInv
<1>5. CASE SendPending
  BY <1>5, PendingInv
<1>6. CASE SendFails
  <2>1. UNCHANGED <<ring, request>>
    BY <1>6, MoveNothing DEF IInv, TypeOK, SendFails
  <2>2. RequestOfPrefix'  BY <2>1, SameRing DEF IInv
  <2> QED  BY <1>6, <2>1, <2>2
           DEF IInv, TypeOK, OneRequest, StreamIntactUnlessLate, SendFails
<1>7. CASE Transmit
  BY <1>7, TransmitInv
<1>8. CASE SendCompletes
  <2>1. UNCHANGED <<ring, request>>  BY <1>8 DEF SendCompletes
  <2>2. RequestOfPrefix'  BY <2>1, SameRing DEF IInv
  <2> QED  BY <1>8, <2>2
           DEF IInv, TypeOK, OneRequest, StreamIntactUnlessLate, SendCompletes
<1>9. CASE NextConnection
  BY <1>9, NextConnectionInv
<1> QED  BY <1>1, <1>2, <1>3, <1>4, <1>5, <1>6, <1>7, <1>8, <1>9 DEF Next

(***************************************************************************)
(* One request at a time, of bytes still in the ring, and a stream without *)
(* loss or duplicate as long as no WSASend is left pending.                *)
(***************************************************************************)
THEOREM SendInductive == Spec => []IInv
<1> QED  BY InitInv, StepInv, PTL DEF Spec

(* The fields keep values the code can store in them. *)
THEOREM SendTypeCorrect == Spec => []TypeOK
<1>1. IInv => TypeOK  BY DEF IInv
<1> QED  BY <1>1, SendInductive, PTL

(***************************************************************************)
(* The peer gets every byte Enqueue took, once and in order, as long as    *)
(* WSASend takes the bytes over at once: MoveFront(sent_bytes) removes     *)
(* exactly what was handed over.                                           *)
(***************************************************************************)
THEOREM StreamInOrder == Spec => []StreamIntactUnlessLate
<1>1. IInv => StreamIntactUnlessLate  BY DEF IInv
<1> QED  BY <1>1, SendInductive, PTL

(* WSASend is given the bytes in use, wherever the ring wraps (SetWsaBuf). *)
THEOREM BuffersAreContents == Spec => []WsaBufsCoverContents
<1>1. IInv => WsaBufsCoverContents
  BY WsaBufsInside, GatherContents DEF IInv, TypeOK, WsaBufsCoverContents
<1> QED  BY <1>1, SendInductive, PTL

(* What a pending request points to is not overwritten (EnqueueSendData). *)
THEOREM PendingIsIntact == Spec => []RequestIntact
<1>1. IInv => RequestIntact
  <2> SUFFICES ASSUME IInv, request # <<>>
               PROVE  /\ Len(Gather(ring, request)) <= GetSizeInUse(ring)
                      /\ Gather(ring, request) = Peek(ring, Len(Gather(ring, request)))
    BY DEF RequestIntact
  <2>0. ring \in Rings  BY DEF IInv, TypeOK
  <2>1. PICK e \in Index : /\ request = WsaBufs(EndingAt(e))
                           /\ GetSizeInUse(EndingAt(e)) <= GetSizeInUse(ring)
    BY DEF IInv, RequestOfPrefix
  <2>2. /\ EndingAt(e) \in Rings /\ EndingAt(e).buf = ring.buf
        /\ EndingAt(e).front = ring.front
    BY <2>0 DEF EndingAt, Rings
  <2>3. Gather(ring, request) = Contents(EndingAt(e))
    <3>1. Gather(ring, request) = Gather(EndingAt(e), request)
      BY <2>2 DEF Gather, Piece
    <3> QED  BY <2>1, <2>2, <3>1, GatherContents
  <2>4. Len(Contents(EndingAt(e))) = GetSizeInUse(EndingAt(e))
    BY <2>2, ContentsType
  <2>5. GetSizeInUse(EndingAt(e)) \in Nat /\ GetSizeInUse(ring) \in Nat
    BY <2>0, <2>2, Used, RingAssumption
  <2>6. Lesser(GetSizeInUse(EndingAt(e)), GetSizeInUse(ring)) = GetSizeInUse(EndingAt(e))
    BY <2>1, <2>5 DEF Lesser
  <2>7. Peek(ring, GetSizeInUse(EndingAt(e))) = Contents(EndingAt(e))
    BY <2>2, <2>6 DEF Peek, Contents
  <2> QED  BY <2>1, <2>3, <2>4, <2>7
<1> QED  BY <1>1, SendInductive, PTL

-----------------------------------------------------------------------------
(* An empty ring is an empty queue. *)
LEMMA QueueInit == Init => Queue!Init
<1> SUFFICES ASSUME Init PROVE Contents(ring) = <<>>
  BY DEF Queue!Init, Init
<1>1. PICK b \in [Index -> Bytes] : ring = [front |-> 0, rear |-> 0, buf |-> b]
  BY DEF Init
<1>2. ring \in Rings  BY <1>1, RingAssumption DEF Rings, Index
<1>3. GetSizeInUse(ring) = 0  BY <1>1 DEF GetSizeInUse
<1> QED  BY <1>2, <1>3, ContentsType

(* Every step of the session is a step of the queue, or leaves it alone. *)
LEMMA QueueStep == IInv /\ [Next]_vars => [Queue!Next]_<<Contents(ring), accepted>>
<1> SUFFICES ASSUME IInv, [Next]_vars
             PROVE  Queue!Next \/ UNCHANGED <<Contents(ring), accepted>>
  OBVIOUS
<1>0. ring \in Rings  BY DEF IInv, TypeOK
<1>1. CASE UNCHANGED vars
  BY <1>1 DEF vars
<1>2. ASSUME NEW src \in Messages, EnqueueSendData(src) PROVE Queue!Next
  <2>1. src \in Seq(Bytes) /\ Len(src) \in Nat  BY SendAssumption
  <2>2. Queue!Free = GetFreeSize(ring)
    BY <1>0, Used, ContentsType, RingAssumption DEF Queue!Free
  <2>3. Fitting(ring, src) = IF Len(src) < Queue!Free THEN Len(src) ELSE Queue!Free
    BY <2>2 DEF Fitting, Lesser
  <2>4. Queue!Put(src)
    BY <1>0, <1>2, <2>1, <2>3, EnqueueContents DEF Queue!Put, Queue!Cut, EnqueueSendData
  <2> QED  BY <2>4 DEF Queue!Next
<1>3. CASE BindSend
  BY <1>3 DEF BindSend
<1>4. ASSUME NEW n \in 1..GetSizeInUse(ring), SentNow(n) PROVE Queue!Next
  <2>1. Len(Contents(ring)) = GetSizeInUse(ring)  BY <1>0, ContentsType
  <2>2. Queue!Take(n)  BY <1>4, SentNowInv DEF Queue!Take, SentNow
  <2> QED  BY <2>1, <2>2 DEF Queue!Next
<1>5. CASE SendPending
  BY <1>5, PendingInv DEF SendPending
<1>6. CASE SendFails
  BY <1>0, <1>6, MoveNothing DEF SendFails
<1>7. CASE Transmit
  BY <1>7 DEF Transmit
<1>8. CASE SendCompletes
  BY <1>8 DEF SendCompletes
<1>9. CASE NextConnection
  <2>1. Queue!Drop  BY <1>9, NextConnectionInv DEF Queue!Drop, NextConnection
  <2> QED  BY <2>1 DEF Queue!Next
<1> QED  BY <1>1, <1>2, <1>3, <1>4, <1>5, <1>6, <1>7, <1>8, <1>9 DEF Next

(***************************************************************************)
(* The ring buffer implements a bounded byte queue: Enqueue puts a prefix  *)
(* of its source behind the others, MoveFront takes from the front.        *)
(***************************************************************************)
THEOREM RingImplementsQueue == Spec => RingIsQueue
<1> QED  BY QueueInit, QueueStep, SendInductive, PTL DEF Spec, RingIsQueue, Queue!Spec

=============================================================================
