-------------------------- MODULE RingBufferProofs --------------------------
(***************************************************************************)
(* What the operations of a ring buffer do to the bytes it holds, for      *)
(* every size.                                                             *)
(***************************************************************************)
EXTENDS RingBuffer, TLAPS

(* Two sequences with the same elements are the same. *)
LEMMA SameBytes == ASSUME NEW s \in Seq(Bytes), NEW t \in Seq(Bytes), NEW n,
                         Len(s) = n, Len(t) = n,
                         \A k \in 1..n : s[k] = t[k]
                  PROVE  s = t
BY SMT

LEMMA ConcatAt == ASSUME NEW s \in Seq(Bytes), NEW t \in Seq(Bytes),
                         NEW k \in 1..(Len(s) + Len(t))
                  PROVE  (s \o t)[k] = IF k <= Len(s) THEN s[k] ELSE t[k - Len(s)]
BY SMT

(* Indices are taken modulo size_; they are never off by more than once. *)
LEMMA ModSmall == ASSUME NEW n \in Nat \ {0}, NEW x \in 0..(n - 1)
                  PROVE  x % n = x
BY SMT

LEMMA ModOver == ASSUME NEW n \in Nat \ {0}, NEW x \in n..(2 * n - 1)
                 PROVE  x % n = x - n
BY SMT

LEMMA ModUnder == ASSUME NEW n \in Nat \ {0}, NEW x \in (-n)..(-1)
                  PROVE  x % n = x + n
BY SMT

(* One step of at most size_ from an index ends at an index. *)
LEMMA Wrap == ASSUME NEW i \in Index, NEW n \in 0..Size
              PROVE  /\ (i + n) % Size = IF i + n < Size THEN i + n ELSE i + n - Size
                     /\ (i + n) % Size \in Index
<1>0. Size \in Nat \ {0}  BY RingAssumption
<1>1. CASE i + n < Size
  BY <1>0, <1>1, ModSmall, i + n \in 0..(Size - 1) DEF Index
<1>2. CASE i + n >= Size
  <2>1. i + n \in Size..(2 * Size - 1)  BY <1>0, <1>2 DEF Index
  <2>2. (i + n) % Size = (i + n) - Size  BY <1>0, <2>1, ModOver
  <2>3. i + n - Size \in 0..(Size - 1)  BY <1>0, <2>1 DEF Index
  <2> QED  BY <1>0, <1>2, <2>2, <2>3 DEF Index
<1> QED  BY <1>0, <1>1, <1>2 DEF Index

LEMMA WrapTwice == ASSUME NEW i \in Index, NEW m \in Nat, NEW n \in Nat,
                          m + n <= Size
                   PROVE  (((i + m) % Size) + n) % Size = (i + (m + n)) % Size
<1> DEFINE j == (i + m) % Size
<1>0. Size \in Nat \ {0} /\ m \in 0..Size /\ n \in 0..Size /\ m + n \in 0..Size
  BY RingAssumption
<1>1. /\ j = IF i + m < Size THEN i + m ELSE i + m - Size
      /\ j \in Index
  BY <1>0, Wrap
<1>2. (j + n) % Size = IF j + n < Size THEN j + n ELSE j + n - Size
  BY <1>0, <1>1, Wrap
<1>3. (i + (m + n)) % Size = IF i + (m + n) < Size THEN i + (m + n)
                                                   ELSE i + (m + n) - Size
  BY <1>0, Wrap
<1>4. i \in 0..(Size - 1) /\ j \in 0..(Size - 1)  BY <1>1 DEF Index
<1> HIDE DEF j
<1>5. i + m < Size => (j + n) % Size = (i + (m + n)) % Size
  BY <1>0, <1>1, <1>2, <1>3, <1>4
<1>6. i + m >= Size => (j + n) % Size = (i + (m + n)) % Size
  BY <1>0, <1>1, <1>2, <1>3, <1>4
<1>7. i + m < Size \/ i + m >= Size  BY <1>0, <1>4
<1>8. (j + n) % Size = (i + (m + n)) % Size  BY <1>5, <1>6, <1>7
<1> QED  BY <1>8 DEF j

LEMMA Distance == ASSUME NEW i \in Index, NEW j \in Index
                  PROVE  (i - j) % Size = IF i < j THEN i - j + Size ELSE i - j
<1>0. Size \in Nat \ {0}  BY RingAssumption
<1>1. CASE i < j
  BY <1>0, <1>1, ModUnder, i - j \in (-Size)..(-1) DEF Index
<1>2. CASE i >= j
  BY <1>0, <1>2, ModSmall, i - j \in 0..(Size - 1) DEF Index
<1> QED  BY <1>0, <1>1, <1>2 DEF Index

(* One byte is always free; rear_ is front_ moved by the bytes in use. *)
LEMMA Used == ASSUME NEW r \in Rings
              PROVE  /\ GetSizeInUse(r) \in 0..(Size - 1)
                     /\ GetFreeSize(r) \in 0..(Size - 1)
                     /\ GetFreeSize(r) = Size - 1 - GetSizeInUse(r)
                     /\ r.rear = (r.front + GetSizeInUse(r)) % Size
<1>0. Size \in Nat \ {0, 1} /\ r.front \in Index /\ r.rear \in Index
  BY RingAssumption DEF Rings
<1>1. GetSizeInUse(r) \in 0..(Size - 1)
  BY <1>0 DEF GetSizeInUse, Index
<1>2. r.rear = (r.front + GetSizeInUse(r)) % Size
  <2>1. (r.front + GetSizeInUse(r)) % Size
            = IF r.front + GetSizeInUse(r) < Size THEN r.front + GetSizeInUse(r)
              ELSE r.front + GetSizeInUse(r) - Size
    BY <1>0, <1>1, Wrap
  <2> QED  BY <1>0, <1>1, <2>1 DEF GetSizeInUse, Index
<1> QED  BY <1>0, <1>1, <1>2 DEF GetFreeSize

(* Where a ring ends is determined by where it begins and how full it is. *)
LEMMA UsedIs == ASSUME NEW r \in Rings, NEW n \in 0..(Size - 1),
                       r.rear = (r.front + n) % Size
                PROVE  GetSizeInUse(r) = n
<1>0. Size \in Nat \ {0, 1} /\ r.front \in Index /\ r.rear \in Index
  BY RingAssumption DEF Rings
<1>1. r.rear = IF r.front + n < Size THEN r.front + n ELSE r.front + n - Size
  BY <1>0, Wrap, n \in 0..Size
<1> QED  BY <1>0, <1>1 DEF GetSizeInUse, Index

LEMMA ContentsType == ASSUME NEW r \in Rings
                      PROVE  /\ Contents(r) \in Seq(Bytes)
                             /\ Len(Contents(r)) = GetSizeInUse(r)
                             /\ \A k \in 1..GetSizeInUse(r) :
                                   Contents(r)[k] = r.buf[(r.front + k - 1) % Size]
<1>0. Size \in Nat \ {0, 1} /\ r.front \in Index /\ r.buf \in [Index -> Bytes]
  BY RingAssumption DEF Rings
<1>1. GetSizeInUse(r) \in 0..(Size - 1)  BY Used
<1>2. ASSUME NEW k \in 1..GetSizeInUse(r)
      PROVE  (r.front + k - 1) % Size \in Index
  <2>1. k - 1 \in 0..Size  BY <1>0, <1>1
  <2>2. r.front + (k - 1) = r.front + k - 1  BY <1>0, <1>1 DEF Index
  <2> QED  BY <1>0, <2>1, <2>2, Wrap
<1> QED  BY <1>0, <1>1, <1>2 DEF Contents

-----------------------------------------------------------------------------
(* How many bytes Enqueue takes, and the ring it leaves *)
LEMMA FittingType == ASSUME NEW r \in Rings, NEW src \in Seq(Bytes)
                     PROVE  /\ Fitting(r, src) \in 0..GetFreeSize(r)
                            /\ Fitting(r, src) \in 0..Len(src)
BY Used, RingAssumption DEF Fitting, Lesser

LEMMA EnqueueType == ASSUME NEW r \in Rings, NEW src \in Seq(Bytes)
                     PROVE  /\ Enqueue(r, src) \in Rings
                            /\ GetSizeInUse(Enqueue(r, src))
                                   = GetSizeInUse(r) + Fitting(r, src)
<1> DEFINE n == Fitting(r, src)
           q == Enqueue(r, src)
<1>0. /\ Size \in Nat \ {0, 1} /\ r.front \in Index /\ r.rear \in Index
      /\ r.buf \in [Index -> Bytes]
  BY RingAssumption DEF Rings
<1>1. n \in 0..GetFreeSize(r) /\ n \in 0..Len(src) /\ n \in 0..Size
  BY <1>0, FittingType, Used
<1>2. (r.rear + n) % Size \in Index  BY <1>0, <1>1, Wrap
<1>3. ASSUME NEW i \in Index, Ahead(r, i) < n
      PROVE  src[Ahead(r, i) + 1] \in Bytes
  <2>1. Ahead(r, i) + 1 \in 1..Len(src)
    BY <1>0, <1>1, <1>3, Distance DEF Ahead, Index
  <2> QED  BY <2>1
<1>4. q \in Rings  BY <1>0, <1>2, <1>3 DEF Enqueue, Rings
<1>5. GetSizeInUse(r) + n \in 0..(Size - 1)  BY <1>0, <1>1, Used
<1>6. q.rear = (q.front + (GetSizeInUse(r) + n)) % Size
  <2>1. q.front = r.front /\ q.rear = (r.rear + n) % Size  BY DEF Enqueue
  <2>2. r.rear = (r.front + GetSizeInUse(r)) % Size  BY Used
  <2>3. GetSizeInUse(r) \in Nat /\ n \in Nat /\ GetSizeInUse(r) + n <= Size
    BY <1>0, <1>1, <1>5, Used
  <2> QED  BY <1>0, <2>1, <2>2, <2>3, WrapTwice
<1> QED  BY <1>4, <1>5, <1>6, UsedIs

(***************************************************************************)
(* How far the k-th byte from the front lies ahead of the rear: the bytes  *)
(* in use are too far ahead for Enqueue, the free ones come in order.      *)
(***************************************************************************)
LEMMA AheadOf ==
    ASSUME NEW r \in Rings, NEW k \in 1..(Size - 1)
    PROVE  Ahead(r, (r.front + k - 1) % Size)
               = IF k <= GetSizeInUse(r) THEN Size - GetSizeInUse(r) + k - 1
                                         ELSE k - 1 - GetSizeInUse(r)
<1>0. Size \in Nat \ {0} /\ r.front \in 0..(Size - 1) /\ r.rear \in Index
  BY RingAssumption DEF Rings, Index
<1>1. PICK u \in 0..(Size - 1) : u = GetSizeInUse(r)
  BY Used
<1>2. k - 1 \in 0..Size /\ r.front + (k - 1) = r.front + k - 1
  BY <1>0
<1>3. PICK i \in Index : i = (r.front + k - 1) % Size
  BY <1>0, <1>2, Wrap DEF Index
<1>4. i = IF r.front + (k - 1) < Size THEN r.front + (k - 1)
          ELSE r.front + (k - 1) - Size
  BY <1>0, <1>2, <1>3, Wrap DEF Index
<1>5. r.rear = IF r.front + u < Size THEN r.front + u ELSE r.front + u - Size
  BY <1>0, <1>1, Used, Wrap, u \in 0..Size DEF Index
<1>6. Ahead(r, i) = IF i < r.rear THEN i - r.rear + Size ELSE i - r.rear
  BY <1>0, Distance DEF Ahead
<1>7. Ahead(r, i) = IF k <= u THEN Size - u + k - 1 ELSE k - 1 - u
  BY <1>0, <1>4, <1>5, <1>6
<1> QED  BY <1>1, <1>3, <1>7

(* The bytes Enqueue takes are put behind those the ring held. *)
LEMMA EnqueueContents ==
    ASSUME NEW r \in Rings, NEW src \in Seq(Bytes)
    PROVE  Contents(Enqueue(r, src)) = Contents(r) \o SubSeq(src, 1, Fitting(r, src))
<1> DEFINE u == GetSizeInUse(r)
           n == Fitting(r, src)
           q == Enqueue(r, src)
           taken == SubSeq(src, 1, n)
<1>0. /\ Size \in Nat \ {0, 1} /\ r.front \in 0..(Size - 1)
      /\ u \in 0..(Size - 1) /\ n \in 0..Len(src) /\ u + n \in 0..(Size - 1)
  <2>1. n \in 0..GetFreeSize(r) /\ n \in 0..Len(src)  BY FittingType
  <2>2. GetFreeSize(r) = Size - 1 - u /\ u \in 0..(Size - 1)  BY Used
  <2> QED  BY <2>1, <2>2, RingAssumption DEF Rings, Index
<1>1. q \in Rings /\ GetSizeInUse(q) = u + n /\ q.front = r.front
  BY EnqueueType DEF Enqueue
<1>2. /\ Contents(r) \in Seq(Bytes) /\ Len(Contents(r)) = u
      /\ Contents(q) \in Seq(Bytes) /\ Len(Contents(q)) = u + n
  BY <1>1, ContentsType
<1>3. taken \in Seq(Bytes) /\ Len(taken) = n /\ \A k \in 1..n : taken[k] = src[k]
  BY <1>0
<1>4. ASSUME NEW k \in 1..(u + n)
      PROVE  Contents(q)[k] = (Contents(r) \o taken)[k]
  <2> DEFINE i == (r.front + k - 1) % Size
  <2>0. k \in Int /\ k - 1 \in 0..Size /\ r.front + (k - 1) = r.front + k - 1
    BY <1>0
  <2>1. i \in Index
    BY <1>0, <2>0, Wrap DEF Index
  <2>2. Ahead(r, i) = IF k <= u THEN Size - u + k - 1 ELSE k - 1 - u
    <3>1. k \in 1..(Size - 1)  BY <1>0
    <3> QED  BY <3>1, AheadOf
  <2>3. Contents(q)[k] = q.buf[i]
    BY <1>1, ContentsType
  <2>4. q.buf[i] = IF Ahead(r, i) < n THEN src[Ahead(r, i) + 1] ELSE r.buf[i]
    BY <2>1 DEF Enqueue
  <2>5. CASE k <= u
    <3>1. ~(Ahead(r, i) < n)  BY <1>0, <2>0, <2>2, <2>5
    <3>2. k \in 1..u  BY <1>0, <2>5
    <3>3. Contents(r)[k] = r.buf[i]  BY <3>2, ContentsType
    <3>4. (Contents(r) \o taken)[k] = Contents(r)[k]  BY <1>2, <1>3, <3>2
    <3> QED  BY <2>3, <2>4, <3>1, <3>3, <3>4
  <2>6. CASE k > u
    <3>1. Ahead(r, i) = k - 1 - u /\ Ahead(r, i) < n /\ k - u \in 1..n
      BY <1>0, <2>0, <2>2, <2>6, SMTT(30)
    <3>2. q.buf[i] = src[k - u]
      <4>1. Ahead(r, i) + 1 = k - u  BY <1>0, <2>0, <3>1
      <4> QED  BY <2>4, <3>1, <4>1
    <3>3. (Contents(r) \o taken)[k] = taken[k - u]
      <4>1. k \in 1..(Len(Contents(r)) + Len(taken))  BY <1>0, <1>2, <1>3
      <4>2. ~(k <= Len(Contents(r)))  BY <1>0, <1>2, <2>0, <2>6
      <4> QED  BY <1>2, <1>3, <4>1, <4>2, ConcatAt, Zenon
    <3> QED  BY <1>3, <2>3, <3>1, <3>2, <3>3
  <2>7. k <= u \/ k > u  BY <1>0, <2>0
  <2> QED  BY <2>5, <2>6, <2>7
<1>5. /\ Contents(r) \o taken \in Seq(Bytes)
      /\ Len(Contents(r) \o taken) = u + n
  BY <1>2, <1>3
<1> QED  BY <1>2, <1>4, <1>5, SameBytes

-----------------------------------------------------------------------------
(* MoveFront drops bytes from the front, as long as they are in use. *)
LEMMA MoveFrontContents ==
    ASSUME NEW r \in Rings, NEW n \in 0..GetSizeInUse(r)
    PROVE  /\ MoveFront(r, n) \in Rings
           /\ GetSizeInUse(MoveFront(r, n)) = GetSizeInUse(r) - n
           /\ Contents(MoveFront(r, n))
                  = SubSeq(Contents(r), n + 1, Len(Contents(r)))
<1> DEFINE q == MoveFront(r, n)
<1>0. Size \in Nat \ {0, 1} /\ r.front \in Index
  BY RingAssumption DEF Rings
<1>1. PICK u \in 0..(Size - 1) : u = GetSizeInUse(r)
  BY Used
<1>2. n \in 0..Size /\ n \in 0..u /\ u - n \in 0..(Size - 1)
  BY <1>0, <1>1
<1>3. /\ q \in Rings /\ q.front = (r.front + n) % Size /\ q.rear = r.rear
      /\ q.buf = r.buf
  BY <1>0, <1>2, Wrap DEF MoveFront, Rings
<1>4. GetSizeInUse(q) = u - n
  <2>1. r.rear = (r.front + u) % Size  BY <1>1, Used
  <2>2. n \in Nat /\ u - n \in Nat /\ n + (u - n) <= Size /\ n + (u - n) = u
    BY <1>0, <1>2
  <2>3. (q.front + (u - n)) % Size = (r.front + u) % Size
    BY <1>0, <1>3, <2>2, WrapTwice
  <2> QED  BY <1>2, <1>3, <2>1, <2>3, UsedIs
<1>5. /\ Contents(r) \in Seq(Bytes) /\ Len(Contents(r)) = u
      /\ Contents(q) \in Seq(Bytes) /\ Len(Contents(q)) = u - n
  BY <1>1, <1>3, <1>4, ContentsType
<1> DEFINE rest == SubSeq(Contents(r), n + 1, Len(Contents(r)))
<1>6. /\ rest \in Seq(Bytes) /\ Len(rest) = u - n
      /\ \A k \in 1..(u - n) : rest[k] = Contents(r)[n + k]
  BY <1>2, <1>5
<1>7. ASSUME NEW k \in 1..(u - n)
      PROVE  Contents(q)[k] = rest[k]
  <2>1. Contents(q)[k] = r.buf[(q.front + k - 1) % Size]
    BY <1>3, <1>4, ContentsType
  <2>2. n + k \in 1..u /\ k - 1 \in Nat /\ n \in Nat /\ n + (k - 1) <= Size
    BY <1>0, <1>2
  <2>3. Contents(r)[n + k] = r.buf[(r.front + (n + k) - 1) % Size]
    BY <1>1, <2>2, ContentsType
  <2>4. (q.front + (k - 1)) % Size = (r.front + (n + (k - 1))) % Size
    BY <1>0, <1>3, <2>2, WrapTwice
  <2>5. /\ q.front + (k - 1) = q.front + k - 1
        /\ r.front + (n + (k - 1)) = r.front + (n + k) - 1
    BY <1>0, <1>2, <1>3 DEF Rings, Index
  <2> QED  BY <1>6, <2>1, <2>3, <2>4, <2>5
<1> QED  BY <1>1, <1>3, <1>4, <1>5, <1>6, <1>7, SameBytes

(* ClearBuffer leaves an empty ring. *)
LEMMA ClearContents ==
    ASSUME NEW r \in Rings
    PROVE  ClearBuffer(r) \in Rings /\ Contents(ClearBuffer(r)) = <<>>
<1>0. 0 \in Index  BY RingAssumption DEF Index
<1>1. ClearBuffer(r) \in Rings  BY <1>0 DEF ClearBuffer, Rings
<1>2. GetSizeInUse(ClearBuffer(r)) = 0  BY DEF ClearBuffer, GetSizeInUse, Rings
<1> QED  BY <1>1, <1>2, ContentsType

-----------------------------------------------------------------------------
(* The first piece of the bytes in use ends with them, or with the array. *)
LEMMA Continuous ==
    ASSUME NEW r \in Rings
    PROVE  GetContinuousDequeueSize(r)
               = IF r.front + GetSizeInUse(r) < Size THEN GetSizeInUse(r)
                                                     ELSE Size - r.front
BY RingAssumption DEF Rings, Index, GetContinuousDequeueSize, GetSizeInUse

(* The pieces SetWsaBuf makes are inside the array. *)
LEMMA WsaBufsInside ==
    ASSUME NEW r \in Rings
    PROVE  /\ WsaBufs(r) \in Seq([start : Index, len : Index])
           /\ Len(WsaBufs(r)) \in 1..2
           /\ \A i \in DOMAIN WsaBufs(r) :
                  WsaBufs(r)[i].start + WsaBufs(r)[i].len <= Size
<1>0. Size \in Nat \ {0, 1} /\ r.front \in 0..(Size - 1) /\ 0 \in Index
      /\ r.front \in Index
  BY RingAssumption DEF Rings, Index
<1>1. PICK u \in 0..(Size - 1) : u = GetSizeInUse(r)
  BY Used
<1>2. PICK c : c = GetContinuousDequeueSize(r)  OBVIOUS
<1>3. c = IF r.front + u < Size THEN u ELSE Size - r.front
  BY <1>1, <1>2, Continuous
<1>4. c \in 0..Size /\ r.front + c <= Size /\ c \in Index
  BY <1>0, <1>3 DEF Index
<1>5. CASE u > c
  <2>1. WsaBufs(r) = << [start |-> r.front, len |-> c], [start |-> 0, len |-> u - c] >>
    BY <1>1, <1>2, <1>5 DEF WsaBufs
  <2>2. u - c \in Index /\ 0 + (u - c) <= Size  BY <1>0, <1>4, <1>5 DEF Index
  <2> QED  BY <1>0, <1>4, <2>1, <2>2
<1>6. CASE ~(u > c)
  <2>1. WsaBufs(r) = << [start |-> r.front, len |-> c] >>
    BY <1>1, <1>2, <1>6 DEF WsaBufs
  <2> QED  BY <1>0, <1>4, <2>1
<1> QED  BY <1>5, <1>6

(* Read one after the other, they are the bytes in use. *)
LEMMA GatherContents ==
    ASSUME NEW r \in Rings
    PROVE  Gather(r, WsaBufs(r)) = Contents(r)
<1>0. /\ Size \in Nat \ {0, 1} /\ r.front \in 0..(Size - 1)
      /\ r.buf \in [0..(Size - 1) -> Bytes]
  BY RingAssumption DEF Rings, Index
<1>1. PICK u \in 0..(Size - 1) : u = GetSizeInUse(r)
  BY Used
<1>2. PICK c : c = GetContinuousDequeueSize(r)  OBVIOUS
<1>3. c = IF r.front + u < Size THEN u ELSE Size - r.front
  BY <1>1, <1>2, Continuous
<1>4. c \in Nat /\ r.front + c <= Size /\ c <= u
  BY <1>0, <1>3
<1>5. /\ Contents(r) \in Seq(Bytes) /\ Len(Contents(r)) = u
      /\ \A k \in 1..u : Contents(r)[k] = r.buf[(r.front + k - 1) % Size]
  BY <1>1, ContentsType
<1>6. ASSUME NEW k \in 1..u
      PROVE  (r.front + k - 1) % Size
                 = IF k <= c THEN r.front + k - 1 ELSE k - c - 1
  <2>1. k - 1 \in 0..Size /\ r.front + (k - 1) = r.front + k - 1  BY <1>0
  <2>2. (r.front + k - 1) % Size
            = IF r.front + (k - 1) < Size THEN r.front + (k - 1)
              ELSE r.front + (k - 1) - Size
    BY <1>0, <2>1, Wrap DEF Index
  <2>3. CASE r.front + u < Size
    <3>1. k <= c /\ r.front + (k - 1) < Size  BY <1>0, <1>3, <2>3
    <3> QED  BY <2>1, <2>2, <3>1
  <2>4. CASE ~(r.front + u < Size)
    <3>1. c = Size - r.front  BY <1>3, <2>4
    <3>2. k <= c <=> r.front + (k - 1) < Size  BY <1>0, <3>1
    <3>3. r.front + (k - 1) - Size = k - c - 1  BY <1>0, <3>1
    <3> QED  BY <2>1, <2>2, <3>2, <3>3
  <2> QED  BY <2>3, <2>4
<1> DEFINE one == Piece(r, [start |-> r.front, len |-> c])
           two == Piece(r, [start |-> 0, len |-> u - c])
<1>7. /\ one \in Seq(Bytes) /\ Len(one) = c
      /\ \A k \in 1..c : one[k] = r.buf[r.front + k - 1]
  <2>1. \A k \in 1..c : r.front + k - 1 \in 0..(Size - 1)  BY <1>0, <1>4
  <2> QED  BY <1>0, <1>4, <2>1 DEF Piece
<1>8. CASE u > c
  <2>1. WsaBufs(r) = << [start |-> r.front, len |-> c], [start |-> 0, len |-> u - c] >>
    BY <1>1, <1>2, <1>8 DEF WsaBufs
  <2>2. Gather(r, WsaBufs(r)) = one \o two
    BY <2>1 DEF Gather
  <2>3. /\ two \in Seq(Bytes) /\ Len(two) = u - c
        /\ \A k \in 1..(u - c) : two[k] = r.buf[k - 1]
    <3>1. \A k \in 1..(u - c) : 0 + k - 1 = k - 1 /\ k - 1 \in 0..(Size - 1)
      BY <1>0, <1>4
    <3>2. u - c \in Nat  BY <1>4, <1>8
    <3> QED  BY <1>0, <3>1, <3>2 DEF Piece
  <2>4. one \o two \in Seq(Bytes) /\ Len(one \o two) = u
    BY <1>0, <1>4, <1>7, <2>3
  <2>5. ASSUME NEW k \in 1..u
        PROVE  (one \o two)[k] = Contents(r)[k]
    <3>1. k \in 1..(Len(one) + Len(two))  BY <1>4, <1>7, <2>3
    <3>2. (one \o two)[k] = IF k <= Len(one) THEN one[k] ELSE two[k - Len(one)]
      BY <1>7, <2>3, <3>1, ConcatAt
    <3>3. CASE k <= c
      <4>1. k \in 1..c  BY <1>4, <3>3
      <4>2. (one \o two)[k] = one[k]  BY <1>7, <3>2, <3>3
      <4> QED  BY <1>5, <1>6, <1>7, <3>3, <4>1, <4>2
    <3>4. CASE ~(k <= c)
      <4>1. k - c \in 1..(u - c)  BY <1>4, <3>4
      <4>2. (one \o two)[k] = two[k - c]  BY <1>7, <3>2, <3>4
      <4> QED  BY <1>5, <1>6, <2>3, <3>4, <4>1, <4>2
    <3> QED  BY <3>3, <3>4
  <2> QED  BY <1>5, <2>2, <2>4, <2>5, SameBytes
<1>9. CASE ~(u > c)
  <2>1. WsaBufs(r) = << [start |-> r.front, len |-> c] >> /\ c = u
    BY <1>1, <1>2, <1>4, <1>9 DEF WsaBufs
  <2>2. Gather(r, WsaBufs(r)) = one
    BY <2>1 DEF Gather
  <2>3. \A k \in 1..u : one[k] = Contents(r)[k]
    BY <1>5, <1>6, <1>7, <2>1
  <2> QED  BY <1>5, <1>7, <2>1, <2>2, <2>3, SameBytes
<1> QED  BY <1>8, <1>9

=============================================================================
