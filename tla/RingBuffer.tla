----------------------------- MODULE RingBuffer -----------------------------
(***************************************************************************)
(* ring_buffer.cpp of the chat server (Practice08): a byte queue in a      *)
(* fixed array.  front_ is the first byte in use, rear_ the first free     *)
(* one; one byte is always left free, so that front_ = rear_ means empty.  *)
(* A ring is a record of the three fields; its operations are operators,   *)
(* for the modules that own one (a Session's send_buf_, a User's           *)
(* packet_buf_).                                                           *)
(***************************************************************************)
EXTENDS Integers, Sequences

CONSTANTS Size,   \* size_
          Bytes   \* the values of a byte

ASSUME RingAssumption == Size \in Nat \ {0, 1}

Index == 0..(Size - 1)
Rings == [front : Index, rear : Index, buf : [Index -> Bytes]]

Lesser(a, b) == IF a < b THEN a ELSE b

GetSizeInUse(r) ==
    IF r.front > r.rear THEN Size - (r.front - r.rear) ELSE r.rear - r.front

(* Mutation of GetFreeSize: no byte is left free. *)
GetFreeSizeAll(r) == Size - GetSizeInUse(r)

GetFreeSize(r) == Size - GetSizeInUse(r) - 1

(* Mutation of GetContinuousDequeueSize: the last byte of the array is left out. *)
GetContinuousDequeueLess(r) ==
    IF r.front = r.rear THEN 0
    ELSE IF r.front = Size - 1 THEN 1
    ELSE IF r.front > r.rear THEN Size - r.front - 1
    ELSE r.rear - r.front

GetContinuousDequeueSize(r) ==
    IF r.front = r.rear THEN 0
    ELSE IF r.front = Size - 1 THEN 1
    ELSE IF r.front > r.rear THEN Size - r.front
    ELSE r.rear - r.front

(* The byte the loop of Enqueue stores at index i is the ahead-th of src. *)
Ahead(r, i) == (i - r.rear) % Size

(* How many bytes of a source the loop copies before the ring is full *)
Fitting(r, src) == Lesser(Len(src), GetFreeSize(r))

Enqueue(r, src) ==
    [front |-> r.front,
     rear  |-> (r.rear + Fitting(r, src)) % Size,
     buf   |-> [i \in Index |-> IF Ahead(r, i) < Fitting(r, src)
                                THEN src[Ahead(r, i) + 1]
                                ELSE r.buf[i]]]

(* Mutations of MoveFront: it does not wrap; it empties the ring, whatever n. *)
MoveFrontOver(r, n) == [r EXCEPT !.front = @ + n]
MoveFrontAll(r, n)  == [r EXCEPT !.front = r.rear]

MoveFront(r, n) == [r EXCEPT !.front = (@ + n) % Size]

ClearBuffer(r) == [r EXCEPT !.front = 0, !.rear = 0]

(* The first n bytes in use, or all of them when there are fewer *)
Peek(r, n) ==
    [k \in 1..Lesser(n, GetSizeInUse(r)) |-> r.buf[(r.front + k - 1) % Size]]

(* The bytes in use, in order: what the ring holds *)
Contents(r) == [k \in 1..GetSizeInUse(r) |-> r.buf[(r.front + k - 1) % Size]]

(***************************************************************************)
(* SetWsaBuf (session.cpp): the one or two pieces of the array that hold   *)
(* the bytes in use, as WSASend is given them.                             *)
(***************************************************************************)
WsaBufs(r) ==
    LET first == [start |-> r.front, len |-> GetContinuousDequeueSize(r)]
        rest  == [start |-> 0, len |-> GetSizeInUse(r) - GetContinuousDequeueSize(r)]
    IN IF GetSizeInUse(r) > GetContinuousDequeueSize(r)
       THEN <<first, rest>> ELSE <<first>>

(* The bytes of one piece, read from the array without wrapping round *)
Piece(r, w) == [k \in 1..w.len |-> r.buf[w.start + k - 1]]

(* All the bytes WSASend reads *)
Gather(r, bufs) ==
    IF Len(bufs) = 1 THEN Piece(r, bufs[1])
                     ELSE Piece(r, bufs[1]) \o Piece(r, bufs[2])

=============================================================================
