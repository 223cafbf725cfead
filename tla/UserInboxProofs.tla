--------------------------- MODULE UserInboxProofs --------------------------
(***************************************************************************)
(* Theorems about UserInbox: for rings, packets, receives and streams of   *)
(* any size.                                                               *)
(***************************************************************************)
EXTENDS UserInbox, RingBufferProofs, Induction, SequenceTheorems

-----------------------------------------------------------------------------
(* The bytes in a ring, one by one                                         *)

Nth(r, k) == r.buf[(r.front + k - 1) % Size]

LEMMA SizeIs == Size \in Nat \ {0, 1}
BY RingAssumption

LEMMA NthIndex ==
    ASSUME NEW r \in Rings, NEW k \in 1..Size
    PROVE  /\ (r.front + k - 1) % Size \in Index
           /\ (r.front + k - 1) % Size = IF r.front + k - 1 < Size THEN r.front + k - 1
                                         ELSE r.front + k - 1 - Size
<1>1. k - 1 \in 0..Size /\ r.front \in Index /\ r.front \in Int
  BY SizeIs DEF Rings, Index
<1>2. r.front + (k - 1) = r.front + k - 1
  BY <1>1
<1>3. QED
  BY <1>1, <1>2, Wrap

LEMMA NthByte ==
    ASSUME NEW r \in Rings, NEW k \in 1..Size
    PROVE  Nth(r, k) \in Bytes
BY NthIndex DEF Nth, Rings

(* The loop of Enqueue stores a byte while there is room, and then moves   *)
(* rear_ past it.                                                          *)
LEMMA StoreByte ==
    ASSUME NEW r \in Rings, NEW x \in Bytes, (r.rear + 1) % Size # r.front,
           NEW q, q = [r EXCEPT !.buf[r.rear] = x]
    PROVE  /\ GetSizeInUse(r) + 1 \in 0..(Size - 1)
           /\ q \in Rings /\ GetSizeInUse(q) = GetSizeInUse(r)
           /\ \A k \in 1..GetSizeInUse(r) : Nth(q, k) = Nth(r, k)
           /\ Nth(q, GetSizeInUse(r) + 1) = x
<1>1. PICK u \in 0..(Size - 1) : u = GetSizeInUse(r)
  BY Used
<1>2. /\ Size \in Nat \ {0, 1} /\ r.front \in Index /\ r.rear \in Index
      /\ r.buf \in [Index -> Bytes]
  BY SizeIs DEF Rings
<1>3. r.rear = IF r.front + u < Size THEN r.front + u ELSE r.front + u - Size
  <2>1. u \in 0..Size /\ r.rear = (r.front + u) % Size
    BY <1>1, <1>2, Used
  <2>2. QED
    BY <1>2, <2>1, Wrap
<1>4. u + 1 \in 0..(Size - 1)
  <2>1. (r.rear + 1) % Size = IF r.rear + 1 < Size THEN r.rear + 1 ELSE r.rear + 1 - Size
    BY <1>2, Wrap, 1 \in 0..Size
  <2>2. (IF r.rear + 1 < Size THEN r.rear + 1 ELSE r.rear + 1 - Size) # r.front
    BY <2>1
  <2>3. PICK f \in 0..(Size - 1), e \in 0..(Size - 1) : f = r.front /\ e = r.rear
    BY <1>2 DEF Index
  <2>4. /\ (IF e + 1 < Size THEN e + 1 ELSE e + 1 - Size) # f
        /\ e = IF f + u < Size THEN f + u ELSE f + u - Size
    BY <1>3, <2>2, <2>3, Zenon
  <2>5. QED
    BY <1>2, <2>4
<1>5. /\ q \in Rings /\ q.front = r.front /\ q.rear = r.rear
      /\ q.buf = [r.buf EXCEPT ![r.rear] = x]
  BY <1>2 DEF Rings
<1>6. GetSizeInUse(q) = u
  BY <1>1, <1>5 DEF GetSizeInUse
<1>7. ASSUME NEW k \in 1..u PROVE Nth(q, k) = Nth(r, k)
  <2>1. k \in 1..Size
    BY <1>2, <1>4
  <2>2. (r.front + k - 1) % Size \in Index /\ (r.front + k - 1) % Size # r.rear
    <3>1. /\ (r.front + k - 1) % Size \in Index
          /\ (r.front + k - 1) % Size = IF r.front + k - 1 < Size THEN r.front + k - 1
                                        ELSE r.front + k - 1 - Size
      BY <2>1, NthIndex
    <3>2. PICK f \in 0..(Size - 1), e \in 0..(Size - 1) : f = r.front /\ e = r.rear
      BY <1>2 DEF Index
    <3>3. (IF f + k - 1 < Size THEN f + k - 1 ELSE f + k - 1 - Size) # e
      BY <1>2, <1>3, <1>4, <3>2
    <3>4. QED
      BY <3>1, <3>2, <3>3, Zenon
  <2>3. QED
    BY <1>2, <1>5, <2>2 DEF Nth
<1>8. Nth(q, u + 1) = x
  <2>1. u + 1 \in 1..Size
    BY <1>2, <1>4
  <2>2. (r.front + (u + 1) - 1) % Size = r.rear
    BY <1>2, <1>3, <2>1, NthIndex DEF Index
  <2>3. QED
    BY <1>2, <1>5, <2>2 DEF Nth
<1>9. QED
  BY <1>1, <1>4, <1>5, <1>6, <1>7, <1>8

LEMMA MoveRear ==
    ASSUME NEW r \in Rings, GetSizeInUse(r) + 1 \in 0..(Size - 1),
           NEW q, q = [r EXCEPT !.rear = (r.rear + 1) % Size]
    PROVE  /\ q \in Rings /\ GetSizeInUse(q) = GetSizeInUse(r) + 1
           /\ \A k \in 1..Size : Nth(q, k) = Nth(r, k)
<1>1. PICK u \in 0..(Size - 1) : u = GetSizeInUse(r)
  BY Used
<1>2. Size \in Nat \ {0, 1} /\ r.front \in Index /\ r.rear \in Index
  BY SizeIs DEF Rings
<1>3. /\ q \in Rings /\ q.front = r.front /\ q.buf = r.buf
      /\ q.rear = (r.rear + 1) % Size
  BY <1>2, Wrap, 1 \in 0..Size DEF Rings
<1>4. GetSizeInUse(q) = u + 1
  <2>1. r.rear = (r.front + u) % Size /\ u + 1 <= Size /\ u \in Nat /\ 1 \in Nat
    BY <1>1, <1>2, Used
  <2>2. q.rear = (r.front + (u + 1)) % Size
    BY <1>2, <1>3, <2>1, WrapTwice
  <2>3. QED
    BY <1>1, <1>3, <2>2, UsedIs
<1>5. QED
  BY <1>1, <1>3, <1>4 DEF Nth

LEMMA MoveFrontBytes ==
    ASSUME NEW r \in Rings, NEW n \in 0..GetSizeInUse(r)
    PROVE  /\ MoveFront(r, n) \in Rings
           /\ GetSizeInUse(MoveFront(r, n)) = GetSizeInUse(r) - n
           /\ MoveFront(r, n).rear = r.rear
           /\ \A k \in 1..(Size - n) : Nth(MoveFront(r, n), k) = Nth(r, n + k)
<1>1. MoveFront(r, n) \in Rings /\ GetSizeInUse(MoveFront(r, n)) = GetSizeInUse(r) - n
  BY MoveFrontContents
<1>2. /\ MoveFront(r, n).front = (r.front + n) % Size
      /\ MoveFront(r, n).rear = r.rear /\ MoveFront(r, n).buf = r.buf
  BY DEF MoveFront, Rings
<1>3. Size \in Nat \ {0, 1} /\ r.front \in Index /\ n \in 0..(Size - 1)
  BY SizeIs, Used DEF Rings
<1>4. ASSUME NEW k \in 1..(Size - n)
      PROVE  Nth(MoveFront(r, n), k) = Nth(r, n + k)
  <2>1. n \in Nat /\ k - 1 \in Nat /\ n + (k - 1) <= Size
    BY <1>3
  <2>2. (((r.front + n) % Size) + (k - 1)) % Size = (r.front + (n + (k - 1))) % Size
    BY <1>3, <2>1, WrapTwice
  <2>3. (r.front + n) % Size \in Index
    BY <1>3, Wrap
  <2>4. /\ ((r.front + n) % Size) + (k - 1) = ((r.front + n) % Size) + k - 1
        /\ r.front + (n + (k - 1)) = r.front + (n + k) - 1
    BY <1>3, <2>3 DEF Index
  <2>5. QED
    BY <1>2, <2>2, <2>4 DEF Nth
<1>5. QED
  BY <1>1, <1>2, <1>4

LEMMA PeekBytes ==
    ASSUME NEW r \in Rings, NEW n \in Nat \ {0}
    PROVE  /\ Len(Peek(r, n)) = n <=> n <= GetSizeInUse(r)
           /\ Len(Peek(r, n)) = n => Peek(r, n) = [k \in 1..n |-> Nth(r, k)]
<1>1. PICK u \in 0..(Size - 1) : u = GetSizeInUse(r)
  BY Used
<1>2. Lesser(n, u) \in Nat /\ (Lesser(n, u) = n <=> n <= u)
  BY <1>1 DEF Lesser
<1>3. Peek(r, n) = [k \in 1..Lesser(n, u) |-> Nth(r, k)]
  BY <1>1 DEF Peek, Nth
<1>4. Len(Peek(r, n)) = Lesser(n, u)
  BY <1>2, <1>3
<1>5. QED
  BY <1>1, <1>2, <1>3, <1>4

(* Whichever two of the values that rear_ has had since there were u bytes *)
(* GetSizeInUse takes, it does not find more bytes than there are.         *)
LEMMA NeverTooMany ==
    ASSUME NEW r \in Rings, NEW u \in 0..GetSizeInUse(r),
           NEW old, old = (r.front + u) % Size
    PROVE  /\ old \in Index
           /\ (IF r.front > old THEN Size - (r.front - old) ELSE old - r.front) = u
           /\ (IF r.front > old THEN Size - (r.front - r.rear) ELSE r.rear - r.front)
                  <= GetSizeInUse(r)
<1>1. PICK w \in 0..(Size - 1) : w = GetSizeInUse(r)
  BY Used
<1>2. Size \in Nat \ {0, 1} /\ r.front \in Index /\ r.rear \in Index /\ u \in 0..w
  BY <1>1, SizeIs DEF Rings
<1>3. /\ old = IF r.front + u < Size THEN r.front + u ELSE r.front + u - Size
      /\ old \in Index
  BY <1>1, <1>2, u \in 0..Size, Wrap
<1>4. r.rear = IF r.front + w < Size THEN r.front + w ELSE r.front + w - Size
  <2>1. w \in 0..Size /\ r.rear = (r.front + w) % Size
    BY <1>1, <1>2, Used
  <2>2. QED
    BY <1>2, <2>1, Wrap
<1>5. QED
  BY <1>1, <1>2, <1>3, <1>4 DEF Index

-----------------------------------------------------------------------------
(* Where the packets of a stream begin and end                             *)

(* The structs of the handlers, and None                                   *)
Kinds == Structs \cup {None}

PacketRecs == [len : Header..MaxLen, struct : Kinds]

EndsUpTo(n, g) == g = [p \in 0..n |-> IF p = 0 THEN 0 ELSE g[p - 1] + packets[p].len]

LEMMA EndsExist ==
    ASSUME packets \in Seq(PacketRecs)
    PROVE  \A n \in Nat : \E g : EndsUpTo(n, g)
<1> DEFINE T == {n \in Nat : \E g : EndsUpTo(n, g)}
<1>1. 0 \in T
  <2> DEFINE g == [p \in 0..0 |-> 0]
  <2>1. EndsUpTo(0, g)
    BY DEF EndsUpTo
  <2>2. QED
    BY <2>1
<1>2. ASSUME NEW n \in Nat, n \in T PROVE n + 1 \in T
  <2>1. PICK h : EndsUpTo(n, h)
    BY <1>2
  <2> DEFINE g == [p \in 0..(n + 1) |-> IF p = n + 1 THEN h[n] + packets[p].len ELSE h[p]]
  <2>2. \A p \in 0..n : h[p] = IF p = 0 THEN 0 ELSE h[p - 1] + packets[p].len
    <3> HIDE DEF g
    <3>1. QED
      BY <2>1 DEF EndsUpTo
  <2>3. ASSUME NEW p \in 0..(n + 1)
        PROVE  g[p] = IF p = 0 THEN 0 ELSE g[p - 1] + packets[p].len
    <3>1. p = 0 \/ g[p - 1] = h[p - 1]
      OBVIOUS
    <3>2. QED
      BY <2>2, <3>1
  <2> HIDE DEF g
  <2>4. g = [p \in 0..(n + 1) |-> g[p]]
    BY DEF g
  <2>5. EndsUpTo(n + 1, g)
    BY <2>3, <2>4 DEF EndsUpTo
  <2>6. QED
    BY <2>5
<1> HIDE DEF T
<1>3. \A n \in Nat : n \in T
  BY <1>1, <1>2, SetInduction
<1>4. QED
  BY <1>3 DEF T

LEMMA EndIs ==
    ASSUME packets \in Seq(PacketRecs)
    PROVE  /\ End(0) = 0
           /\ \A p \in 1..Len(packets) : End(p) = End(p - 1) + packets[p].len
<1>1. \E g : EndsUpTo(Len(packets), g)
  BY EndsExist, LenProperties
<1>2. EndsUpTo(Len(packets), Ends)
  BY <1>1, Zenon DEF EndsUpTo, Ends
<1>3. Len(packets) \in Nat
  BY LenProperties
<1>4. \A p \in 0..Len(packets) :
         Ends[p] = IF p = 0 THEN 0 ELSE Ends[p - 1] + packets[p].len
  BY <1>2 DEF EndsUpTo
<1>5. QED
  BY <1>3, <1>4 DEF End

LEMMA EndGrows ==
    ASSUME packets \in Seq(PacketRecs)
    PROVE  /\ \A p \in 0..Len(packets) : End(p) \in Nat
           /\ \A p, q \in 0..Len(packets) : p < q => End(p) + Header <= End(q)
           /\ \A p, q \in 0..Len(packets) : p <= q => End(p) <= End(q)
<1>1. Len(packets) \in Nat /\ Header \in Nat \ {0}
  BY LenProperties, InboxConstants
<1>2. \A p \in 1..Len(packets) : packets[p].len \in Nat /\ packets[p].len >= Header
  <2>1. \A p \in 1..Len(packets) : packets[p] \in PacketRecs
    BY ElementOfSeq
  <2>2. QED
    BY <2>1, InboxConstants DEF PacketRecs
<1> DEFINE T == {n \in Nat : n <= Len(packets) =>
                    /\ \A p \in 0..n : End(p) \in Nat
                    /\ \A p \in 0..n : p < n => End(p) + Header <= End(n)}
<1>3. 0 \in T
  BY EndIs
<1>4. ASSUME NEW n \in Nat, n \in T PROVE n + 1 \in T
  <2> SUFFICES ASSUME n + 1 <= Len(packets)
               PROVE  /\ \A p \in 0..(n + 1) : End(p) \in Nat
                      /\ \A p \in 0..(n + 1) : p < n + 1 => End(p) + Header <= End(n + 1)
    OBVIOUS
  <2>1. /\ \A p \in 0..n : End(p) \in Nat
        /\ \A p \in 0..n : p < n => End(p) + Header <= End(n)
    BY <1>1, <1>4
  <2>2. /\ End(n + 1) = End(n) + packets[n + 1].len
        /\ packets[n + 1].len \in Nat /\ packets[n + 1].len >= Header
    <3>1. n + 1 \in 1..Len(packets) /\ (n + 1) - 1 = n
      BY <1>1
    <3>2. End(n + 1) = End((n + 1) - 1) + packets[n + 1].len
      BY <3>1, EndIs
    <3>3. QED
      BY <1>2, <3>1, <3>2
  <2> HIDE DEF T
  <2>3. ASSUME NEW p \in 0..(n + 1), p < n + 1 PROVE End(p) + Header <= End(n + 1)
    <3>1. CASE p = n
      BY <1>1, <2>1, <2>2, <3>1
    <3>2. CASE p < n
      <4>1. p \in 0..n /\ End(p) + Header <= End(n)
        BY <2>1, <3>2
      <4>2. End(p) \in Int
        BY <1>1, <2>1, <3>2, <4>1
      <4>3. QED
        BY <1>1, <2>1, <2>2, <4>1, <4>2
    <3>3. QED
      BY <2>3, <3>1, <3>2
  <2>4. \A p \in 0..(n + 1) : End(p) \in Nat
    <3>1. \A p \in 0..(n + 1) : p \in 0..n \/ p = n + 1
      OBVIOUS
    <3>2. n \in 0..n /\ End(n + 1) \in Nat
      BY <1>1, <2>1, <2>2
    <3>3. QED
      BY <2>1, <3>1, <3>2
  <2>5. QED
    BY <2>3, <2>4
<1> HIDE DEF T
<1>5. \A n \in Nat : n \in T
  BY <1>3, <1>4, SetInduction
<1>6. \A n \in 0..Len(packets) :
         End(n) \in Nat /\ \A p \in 0..n : p < n => End(p) + Header <= End(n)
  BY <1>1, <1>5 DEF T
<1>7. QED
  BY <1>1, <1>6

(* The headers that the bytes of a header can be read as.                  *)
LEMMA NumbersIs ==
    ASSUME NEW a \in Nat \ {0}, NEW b \in Nat, a <= b + 1, b <= MaxBytes
    PROVE  /\ Numbers(a, b) \in Seq(1..MaxBytes) /\ Len(Numbers(a, b)) = b - a + 1
           /\ \A k \in 1..(b - a + 1) : Numbers(a, b)[k] = a + k - 1
<1>1. MaxBytes \in Nat /\ b - a + 1 \in Nat
  BY InboxConstants
<1>2. \A k \in 1..(b - a + 1) : a + k - 1 \in 1..MaxBytes
  BY <1>1
<1>3. QED
  BY <1>1, <1>2 DEF Numbers

LEMMA HeadersAny ==
    ASSUME packets \in Seq(PacketRecs), NEW bytes, NEW h \in Headers(bytes)
    PROVE  h.len \in 0..MaxLen /\ h.struct \in Kinds
<1>1. \A p \in 1..Len(packets) : packets[p] \in PacketRecs
  BY ElementOfSeq
<1>2. h \in [len : 0..MaxLen, struct : Kinds] \/ \E p \in 1..Len(packets) : h = packets[p]
  <2>1. DOMAIN packets = 1..Len(packets)
    BY LenProperties
  <2>2. QED
    BY <2>1, Zenon DEF Headers, Kinds
<1>3. QED
  BY <1>1, <1>2, InboxConstants DEF PacketRecs

LEMMA HeadersOwn ==
    ASSUME packets \in Seq(PacketRecs), NEW p \in 0..(Len(packets) - 1), NEW bytes,
           End(Len(packets)) <= MaxBytes,
           bytes = [k \in 1..Header |-> End(p) + k]
    PROVE  Headers(bytes) = {packets[p + 1]}
<1>1. /\ Len(packets) \in Nat /\ Header \in Nat \ {0} /\ DOMAIN packets = 1..Len(packets)
      /\ \A q \in 0..Len(packets) : End(q) \in Nat
      /\ \A q, s \in 0..Len(packets) : q < s => End(q) + Header <= End(s)
  BY EndGrows, LenProperties, InboxConstants
<1> DEFINE fits == {q \in DOMAIN packets : bytes = Numbers(Start(q), Start(q) + Header - 1)}
<1>2. ASSUME NEW q \in 1..Len(packets)
      PROVE  Numbers(Start(q), Start(q) + Header - 1) = [k \in 1..Header |-> End(q - 1) + k]
  <2>1. End(q - 1) \in Nat
    BY <1>1
  <2>2. PICK e \in Nat : e = End(q - 1)
    BY <2>1
  <2>3. Start(q) = e + 1
    BY <2>2 DEF Start
  <2>4. ((e + 1) + Header - 1) - (e + 1) + 1 = Header
    BY <1>1
  <2>5. \A k \in 1..Header : (e + 1) + k - 1 = e + k
    BY <1>1
  <2>6. Numbers(e + 1, (e + 1) + Header - 1) = [k \in 1..Header |-> e + k]
    BY <2>4, <2>5, Zenon DEF Numbers
  <2>7. QED
    BY <2>2, <2>3, <2>6
<1>3. p + 1 \in fits
  <2>1. p + 1 \in 1..Len(packets) /\ (p + 1) - 1 = p
    BY <1>1
  <2>2. QED
    BY <1>1, <1>2, <2>1
<1>4. ASSUME NEW q \in fits PROVE q = p + 1
  <2>1. q \in 1..Len(packets) /\ bytes = [k \in 1..Header |-> End(q - 1) + k]
    BY <1>1, <1>2
  <2>2. End(q - 1) + 1 = End(p) + 1
    <3>1. bytes[1] = End(q - 1) + 1 /\ bytes[1] = End(p) + 1
      BY <1>1, <2>1
    <3>2. QED
      BY <3>1
  <2>3. q - 1 \in 0..Len(packets) /\ p \in 0..Len(packets)
    BY <1>1, <2>1, SMTT(30)
  <2>4. End(q - 1) = End(p)
    BY <1>1, <2>2, <2>3, SMTT(30)
  <2>5. q - 1 = p
    BY <1>1, <2>3, <2>4, SMTT(30)
  <2>6. QED
    BY <2>1, <2>5
<1>5. fits = {p + 1}
  BY <1>3, <1>4
<1>6. Headers(bytes) = {packets[q] : q \in fits}
  <2>1. fits # {}
    BY <1>3
  <2>2. QED
    BY <2>1, Zenon DEF Headers
<1> HIDE DEF fits
<1>7. QED
  BY <1>5, <1>6

-----------------------------------------------------------------------------
(* The parts of Enqueue's loop and of ConnectHandler                       *)

Stuck == (ring.rear + 1) % Size = ring.front
Held  == <<packets, whole, received, thread, indices, connect, handled>>

Drops ==
  /\ worker.at = "store" /\ Stuck
  /\ worker' = Idle("push") /\ upset' = upset \cup {"dropped"} /\ ring' = ring
  /\ UNCHANGED Held

Stores ==
  /\ worker.at = "store" /\ ~Stuck
  /\ ring' = [ring EXCEPT !.buf[ring.rear] = Head(worker.data)]
  /\ worker' = [worker EXCEPT !.at = "load", !.data = Tail(@)] /\ upset' = upset
  /\ UNCHANGED Held

Loads ==
  /\ worker.at = "load"
  /\ worker' = [worker EXCEPT !.at = "rear", !.rear = ring.rear]
  /\ ring' = ring /\ upset' = upset
  /\ UNCHANGED Held

Advances ==
  /\ worker.at = "rear"
  /\ ring' = [ring EXCEPT !.rear = (worker.rear + 1) % Size]
  /\ worker' = [worker EXCEPT !.at = IF worker.data = <<>> THEN "push" ELSE "store"]
  /\ upset' = upset
  /\ UNCHANGED Held

Rest == <<packets, whole, received, worker, indices, handled>>
Hit == upset \cup (IF worker.at \in {"store", "load", "rear"} THEN {"raced"} ELSE {})
             \cup (IF received > 0 THEN {"cleared"} ELSE {})

PassesBy ==
  /\ thread.at = "system" /\ thread' = Loop("packet")
  /\ ring' = ring /\ connect' = connect /\ upset' = upset
  /\ UNCHANGED Rest

ClearsFront ==
  /\ thread.at = "system" /\ connect
  /\ connect' = FALSE /\ thread' = Loop("clear")
  /\ upset' = Hit /\ ring' = [ring EXCEPT !.front = 0]
  /\ UNCHANGED Rest

ClearsRear ==
  /\ thread.at = "clear"
  /\ ring' = [ring EXCEPT !.rear = 0] /\ thread' = Loop("packet")
  /\ upset' = Hit /\ connect' = connect
  /\ UNCHANGED Rest

LEMMA Steps ==
    [Next]_vars => \/ Recv \/ Drops \/ Stores \/ Loads \/ Advances \/ EnqueuePacket
                   \/ DequeuePacket \/ GetPacketData \/ ProcessPacket \/ CompleteProcess
                   \/ PassesBy \/ ClearsFront \/ ClearsRear \/ UNCHANGED vars
<1>1. EnqueuePacketData => Drops \/ Stores \/ Loads \/ Advances
  BY DEF EnqueuePacketData, Enqueue1, Drops, Stores, Loads, Advances, Held, Stuck, stream
<1>2. ConnectHandler => PassesBy \/ ClearsFront \/ ClearsRear
  BY DEF ConnectHandler, Clear, PassesBy, ClearsFront, ClearsRear, Rest, Hit, stream
<1>3. QED
  BY <1>1, <1>2, Zenon DEF Next, Worker, PacketThread

-----------------------------------------------------------------------------
(* Types                                                                   *)

WorkerAt == {"recv", "store", "load", "rear", "push"}
ThreadAt == {"packet", "size", "handle", "complete", "system", "clear"}
GivenBytes == Seq(Bytes \cup {Beyond})
Reads      == [own : GivenBytes, past : GivenBytes]

TypeOK ==
  /\ packets \in Seq(PacketRecs) /\ whole \in BOOLEAN
  /\ End(Len(packets)) <= MaxBytes /\ received \in 0..End(Len(packets))
  /\ ring \in Rings
  /\ worker \in [at : WorkerAt, data : Seq(1..MaxBytes), rear : Index]
  /\ worker.at = "store" => worker.data # <<>>
  /\ thread \in [at : ThreadAt, rear : Index, len : 0..MaxLen, struct : Kinds]
  /\ indices \in Nat /\ connect \in BOOLEAN
  /\ handled \in Seq(Reads)
  /\ upset \subseteq {"dropped", "cleared", "raced", "reloaded"}

LEMMA TypeFacts ==
    ASSUME TypeOK
    PROVE  /\ Size \in Nat \ {0, 1} /\ 0 \in Index /\ 0 \in 0..MaxLen
           /\ None \in Kinds /\ Kinds \subseteq Nat
           /\ MaxBytes \in Nat /\ Header \in Nat \ {0} /\ MaxLen \in Nat
           /\ Old \in Bytes /\ 1..MaxBytes \subseteq Bytes
           /\ Len(packets) \in Nat /\ DOMAIN packets = 1..Len(packets)
           /\ \A p \in 0..Len(packets) : End(p) \in Nat
           /\ received \in Nat /\ received <= MaxBytes
           /\ Len(worker.data) \in Nat /\ Len(handled) \in Nat
           /\ DOMAIN handled = 1..Len(handled)
<1>1. Len(packets) \in Nat /\ DOMAIN packets = 1..Len(packets)
  BY LenProperties DEF TypeOK
<1>2. \A p \in 0..Len(packets) : End(p) \in Nat
  BY EndGrows DEF TypeOK
<1>3. End(Len(packets)) \in Nat
  BY <1>1, <1>2
<1>4. Len(worker.data) \in Nat /\ Len(handled) \in Nat /\ DOMAIN handled = 1..Len(handled)
  BY LenProperties DEF TypeOK
<1>5. QED
  BY <1>1, <1>2, <1>3, <1>4, SizeIs, InboxConstants DEF TypeOK, Index, Old, Kinds, None

(* What a handler reads, cut where its packet ends                         *)
LEMMA FrontBytes ==
    ASSUME ring \in Rings, NEW n \in Nat
    PROVE  FromFront(n) \in GivenBytes /\ Len(FromFront(n)) = n
<1>1. \A k \in 1..n : ring.front + k - 1 < Size => ring.front + k - 1 \in Index
  BY SizeIs DEF Rings, Index
<1>2. \A k \in 1..n :
         (IF ring.front + k - 1 < Size THEN ring.buf[ring.front + k - 1] ELSE Beyond)
             \in Bytes \cup {Beyond}
  BY <1>1 DEF Rings
<1>3. QED
  BY <1>2 DEF FromFront, GivenBytes

LEMMA ReadIs ==
    ASSUME TypeOK
    PROVE  /\ Read \in Reads
           /\ Read.own = FromFront(Lesser(thread.len, thread.struct))
           /\ Lesser(thread.len, thread.struct) \in 0..thread.len
           /\ Len(Read.own) = Lesser(thread.len, thread.struct)
           /\ Len(Read.own) + Len(Read.past) = thread.struct
<1> DEFINE n    == Lesser(thread.len, thread.struct)
           all  == FromFront(thread.struct)
           past == SubSeq(all, n + 1, thread.struct)
<1>1. thread.len \in Nat /\ thread.struct \in Nat /\ ring \in Rings
  BY TypeFacts, InboxConstants DEF TypeOK
<1>2. n \in 0..thread.len /\ n \in Nat /\ n <= thread.struct
  BY <1>1 DEF Lesser
<1>3. FromFront(n) \in GivenBytes /\ Len(FromFront(n)) = n
  BY <1>1, <1>2, FrontBytes
<1>4. all \in GivenBytes /\ Len(all) = thread.struct
  BY <1>1, FrontBytes
<1>5. Read = [own |-> FromFront(n), past |-> past]
  BY DEF Read
<1> HIDE DEF n, all
<1>6. past \in GivenBytes /\ Len(past) = thread.struct - n
  <2>1. \A i \in (n + 1)..thread.struct : all[i] \in Bytes \cup {Beyond}
    <3>1. \A i \in 1..Len(all) : all[i] \in Bytes \cup {Beyond}
      BY <1>4, ElementOfSeq DEF GivenBytes
    <3>2. QED
      BY <1>1, <1>2, <1>4, <3>1
  <2>2. n + 1 \in Int /\ thread.struct \in Int
    BY <1>1, <1>2
  <2>3. /\ past \in Seq(Bytes \cup {Beyond})
        /\ Len(past) = IF n + 1 <= thread.struct THEN thread.struct - (n + 1) + 1 ELSE 0
    BY <2>1, <2>2, SubSeqProperties
  <2>4. QED
    BY <1>1, <1>2, <2>3 DEF GivenBytes
<1> HIDE DEF past
<1>7. QED
  BY <1>1, <1>2, <1>3, <1>5, <1>6 DEF Reads, n

LEMMA EndSame == packets' = packets => Ends' = Ends
BY Zenon DEF Ends

LEMMA TypeInit == Init => TypeOK
<1> SUFFICES ASSUME Init PROVE TypeOK
  OBVIOUS
<1>1. packets \in Seq(PacketRecs)
  <2>1. PICK n \in Nat : packets \in [1..n -> PacketRecs]
    BY InboxConstants DEF Init, SeqOf, PacketRecs, Kinds
  <2>2. QED
    BY <2>1
<1>2. /\ Size \in Nat \ {0, 1} /\ 0 \in Index /\ 0 \in 0..MaxLen /\ 0 \in Bytes
      /\ MaxBytes \in Nat /\ None \in Kinds
  BY SizeIs, InboxConstants DEF Index, Kinds
<1>3. Len(packets) \in Nat /\ End(Len(packets)) \in Nat
  BY <1>1, EndGrows, LenProperties
<1>4. ring \in Rings
  BY <1>2 DEF Init, Rings, Old
<1>5. QED
  BY <1>1, <1>2, <1>3, <1>4 DEF Init, TypeOK, Idle, Loop, WorkerAt, ThreadAt, GivenBytes

LEMMA TypeStep == TypeOK /\ [Next]_vars => TypeOK'
<1> SUFFICES ASSUME TypeOK, [Next]_vars PROVE TypeOK'
  OBVIOUS
<1>1. /\ Size \in Nat \ {0, 1} /\ 0 \in Index /\ 0 \in 0..MaxLen /\ 1..MaxBytes \subseteq Bytes
      /\ MaxBytes \in Nat /\ received \in Nat /\ None \in Kinds
  BY TypeFacts
<1>2. packets' = packets /\ whole' = whole
  BY Steps, Zenon DEF Recv, Drops, Stores, Loads, Advances, EnqueuePacket, DequeuePacket,
     GetPacketData, ProcessPacket, CompleteProcess, PassesBy, ClearsFront, ClearsRear,
     Held, Rest, stream, vars
<1>3. End(Len(packets))' = End(Len(packets))
  BY <1>2, EndSame, Zenon DEF End
<1> DEFINE Fine == /\ received' \in 0..End(Len(packets))
                   /\ ring' \in Rings
                   /\ worker' \in [at : WorkerAt, data : Seq(1..MaxBytes), rear : Index]
                   /\ worker'.at = "store" => worker'.data # <<>>
                   /\ thread' \in [at : ThreadAt, rear : Index, len : 0..MaxLen, struct : Kinds]
                   /\ indices' \in Nat /\ connect' \in BOOLEAN
                   /\ handled' \in Seq(Reads)
                   /\ upset' \subseteq {"dropped", "cleared", "raced", "reloaded"}
<1>4. SUFFICES Fine
  BY <1>2, <1>3 DEF TypeOK
<1>5. CASE Recv
  <2>1. PICK n \in 1..MaxRecv :
           /\ received + n <= End(Len(packets)) /\ received' = received + n
           /\ worker' = [Idle("store") EXCEPT !.data = Numbers(received + 1, received + n)]
    BY <1>5 DEF Recv
  <2>2. n \in Nat \ {0} /\ received + n \in 0..End(Len(packets)) /\ received + n <= MaxBytes
    <3>1. MaxRecv \in Nat /\ End(Len(packets)) \in Nat
      BY InboxConstants, TypeFacts, LenProperties
    <3>2. End(Len(packets)) <= MaxBytes /\ MaxBytes \in Nat /\ received \in Nat
      BY <1>1 DEF TypeOK
    <3>3. QED
      BY <2>1, <3>1, <3>2
  <2>3. /\ Numbers(received + 1, received + n) \in Seq(1..MaxBytes)
        /\ Numbers(received + 1, received + n) # <<>>
    <3> DEFINE a == received + 1
               b == received + n
    <3>1. /\ a \in Nat \ {0} /\ b \in Nat /\ a <= b + 1 /\ b <= MaxBytes
          /\ b - a + 1 = n
      BY <1>1, <2>2
    <3> HIDE DEF a, b
    <3>2. Numbers(a, b) \in Seq(1..MaxBytes) /\ Len(Numbers(a, b)) = b - a + 1
      BY <3>1, NumbersIs
    <3>3. Numbers(a, b) # <<>>
      BY <2>2, <3>1, <3>2
    <3>4. QED
      BY <3>2, <3>3 DEF a, b
  <2>4. /\ worker' \in [at : WorkerAt, data : Seq(1..MaxBytes), rear : Index]
        /\ worker'.data # <<>>
    BY <1>1, <2>1, <2>3 DEF Idle, WorkerAt
  <2>5. QED
    BY <1>5, <2>1, <2>2, <2>4 DEF Recv, TypeOK
<1>6. CASE Drops
  BY <1>1, <1>6 DEF Drops, Held, TypeOK, Idle, WorkerAt
<1>7. CASE Stores
  <2>1. ring' \in Rings /\ worker' \in [at : WorkerAt, data : Seq(1..MaxBytes), rear : Index]
    <3>1. Head(worker.data) \in 1..MaxBytes /\ Tail(worker.data) \in Seq(1..MaxBytes)
      <4>1. worker.data \in Seq(1..MaxBytes) /\ worker.data # <<>>
        BY <1>7 DEF Stores, TypeOK
      <4>2. QED
        BY <4>1, HeadTailProperties
    <3>2. Head(worker.data) \in Bytes
      BY <1>1, <3>1
    <3>3. QED
      BY <1>7, <3>1, <3>2 DEF Stores, TypeOK, Rings, WorkerAt
  <2>2. QED
    BY <1>7, <2>1 DEF Stores, Held, TypeOK, WorkerAt
<1>8. CASE Loads
  BY <1>8 DEF Loads, Held, TypeOK, WorkerAt, Rings
<1>9. CASE Advances
  <2>1. (worker.rear + 1) % Size \in Index
    BY <1>1, Wrap, 1 \in 0..Size DEF TypeOK
  <2>2. ring' \in Rings
    BY <1>9, <2>1 DEF Advances, TypeOK, Rings
  <2>3. QED
    BY <1>9, <2>2 DEF Advances, Held, TypeOK, WorkerAt
<1>10. CASE EnqueuePacket
  BY <1>1, <1>10 DEF EnqueuePacket, TypeOK, Idle, WorkerAt, stream
<1>11. CASE DequeuePacket
  <2>1. thread' \in [at : ThreadAt, rear : Index, len : 0..MaxLen, struct : Kinds]
    <3>1. CASE thread' = Loop("system")
      BY <1>1, <3>1 DEF Loop, ThreadAt
    <3>2. CASE \E h \in Headers(Peek(ring, Header)) :
                 thread' = [at |-> "size", rear |-> ring.rear, len |-> h.len, struct |-> h.struct]
      <4>1. PICK h \in Headers(Peek(ring, Header)) :
               thread' = [at |-> "size", rear |-> ring.rear, len |-> h.len, struct |-> h.struct]
        BY <3>2
      <4>2. h.len \in 0..MaxLen /\ h.struct \in Kinds /\ ring.rear \in Index
        BY HeadersAny DEF TypeOK, Rings
      <4>3. QED
        BY <4>1, <4>2 DEF ThreadAt
    <3>3. QED
      BY <1>11, <3>1, <3>2, Zenon DEF DequeuePacket
  <2>2. indices' \in Nat
    BY <1>11 DEF DequeuePacket, TypeOK
  <2>3. QED
    BY <1>11, <2>1, <2>2 DEF DequeuePacket, TypeOK, stream
<1>12. CASE GetPacketData
  <2>1. \/ thread' = [thread EXCEPT !.at = "handle"] \/ thread' = Loop("system")
    BY <1>12 DEF GetPacketData
  <2>2. thread' \in [at : ThreadAt, rear : Index, len : 0..MaxLen, struct : Kinds]
    <3>1. [thread EXCEPT !.at = "handle"]
             \in [at : ThreadAt, rear : Index, len : 0..MaxLen, struct : Kinds]
      BY DEF TypeOK, ThreadAt
    <3>2. Loop("system") \in [at : ThreadAt, rear : Index, len : 0..MaxLen, struct : Kinds]
      BY <1>1 DEF Loop, ThreadAt
    <3>3. QED
      BY <2>1, <3>1, <3>2, Zenon
  <2>3. upset' \subseteq {"dropped", "cleared", "raced", "reloaded"}
    BY <1>12 DEF GetPacketData, TypeOK
  <2>4. QED
    BY <1>12, <2>2, <2>3 DEF GetPacketData, TypeOK
<1>13. CASE ProcessPacket
  <2>1. Append(handled, Read) \in Seq(Reads)
    BY ReadIs, AppendProperties DEF TypeOK
  <2>3. handled' \in Seq(Reads)
    BY <1>13, <2>1 DEF ProcessPacket, TypeOK
  <2>4. QED
    BY <1>1, <1>13, <2>3 DEF ProcessPacket, TypeOK, stream, Loop, ThreadAt
<1>14. CASE CompleteProcess
  <2>1. MoveFront(ring, thread.len) \in Rings
    <3>1. (ring.front + thread.len) % Size \in Index
      <4>1. ring.front + thread.len \in Nat
        BY InboxConstants DEF TypeOK, Rings, Index
      <4>2. QED
        BY <1>1, <4>1 DEF Index
    <3>2. QED
      BY <3>1 DEF MoveFront, TypeOK, Rings
  <2>2. QED
    BY <1>1, <1>14, <2>1 DEF CompleteProcess, TypeOK, stream, Loop, ThreadAt
<1>15. CASE PassesBy
  BY <1>1, <1>15 DEF PassesBy, Rest, TypeOK, Loop, ThreadAt
<1>16. CASE ClearsFront
  BY <1>1, <1>16 DEF ClearsFront, Rest, Hit, TypeOK, Rings, Loop, ThreadAt
<1>17. CASE ClearsRear
  BY <1>1, <1>17 DEF ClearsRear, Rest, Hit, TypeOK, Rings, Loop, ThreadAt
<1>18. CASE UNCHANGED vars
  BY <1>18 DEF vars, TypeOK, stream
<1>19. QED
  BY <1>5, <1>6, <1>7, <1>8, <1>9, <1>10, <1>11, <1>12, <1>13, <1>14, <1>15, <1>16,
     <1>17, <1>18, Steps, Zenon

-----------------------------------------------------------------------------
(* What the worker still has to store                                      *)

(* The bytes that have been stored, or dropped; the last of them may lie   *)
(* behind rear_ still.                                                     *)
Stored == received - Len(worker.data)
Flight == IF worker.at \in {"load", "rear"} THEN 1 ELSE 0
InUse  == GetSizeInUse(ring)

WorkerInv ==
  /\ Len(worker.data) <= received
  /\ \A k \in 1..Len(worker.data) : worker.data[k] = Stored + k
  /\ worker.at \in {"recv", "push"} => worker.data = <<>>
  /\ worker.at # "recv" => received > 0
  /\ Flight <= Stored
  /\ received = 0 => indices = 0
  /\ thread.at = "clear" => ring.front = 0 /\ ~connect

(* The worker takes over what is received, has a byte in hand, or is done. *)
LEMMA WorkerFacts ==
    ASSUME TypeOK, WorkerInv
    PROVE  /\ Len(worker.data) \in Nat /\ received \in Nat /\ Stored \in 0..received
           /\ received = Stored + Len(worker.data)
           /\ Flight \in 0..1 /\ Flight <= Stored
           /\ InUse \in 0..(Size - 1) /\ Size \in Nat \ {0, 1}
           /\ ring \in Rings
BY TypeFacts, Used DEF WorkerInv, Stored, Flight, InUse, TypeOK

LEMMA RecvGives ==
    ASSUME TypeOK, WorkerInv, Recv
    PROVE  /\ WorkerInv' /\ Stored' = Stored /\ Flight' = Flight
           /\ worker'.at = "store"
<1>1. PICK n \in 1..MaxRecv :
         /\ received + n <= End(Len(packets)) /\ received' = received + n
         /\ worker' = [Idle("store") EXCEPT !.data = Numbers(received + 1, received + n)]
  BY DEF Recv
<1>2. /\ received \in Nat /\ n \in Nat \ {0} /\ received + n <= MaxBytes
      /\ worker.data = <<>> /\ worker.at = "recv"
  <2>1. MaxRecv \in Nat /\ End(Len(packets)) \in Nat /\ MaxBytes \in Nat
    BY InboxConstants, TypeFacts
  <2>2. QED
    BY <1>1, <2>1, TypeFacts, SMTT(30) DEF TypeOK, Recv, WorkerInv
<1>3. /\ Len(worker'.data) = n /\ worker'.at = "store"
      /\ \A k \in 1..n : worker'.data[k] = received + k
  <2> DEFINE a == received + 1
             b == received + n
  <2>1. /\ a \in Nat \ {0} /\ b \in Nat /\ a <= b + 1 /\ b <= MaxBytes
        /\ b - a + 1 = n /\ \A k \in 1..n : a + k - 1 = received + k
    <3>1. received \in Nat /\ n \in Nat \ {0} /\ received + n <= MaxBytes
      BY <1>2
    <3>2. MaxBytes \in Nat
      BY InboxConstants
    <3>3. QED
      BY <3>1, <3>2
  <2> HIDE DEF a, b
  <2>2. /\ Len(Numbers(a, b)) = b - a + 1
        /\ \A k \in 1..(b - a + 1) : Numbers(a, b)[k] = a + k - 1
    BY <2>1, NumbersIs
  <2>3. worker' = [Idle("store") EXCEPT !.data = Numbers(a, b)]
    BY <1>1 DEF a, b
  <2>4. worker'.data = Numbers(a, b) /\ worker'.at = "store"
    BY <2>3 DEF Idle
  <2>5. QED
    BY <2>1, <2>2, <2>4
<1>4. Len(worker.data) = 0 /\ Stored = received
  BY <1>2 DEF Stored
<1>5. Stored' = received /\ Flight' = 0 /\ Flight = 0
  BY <1>1, <1>2, <1>3 DEF Stored, Flight
<1>6. QED
  BY <1>1, <1>2, <1>3, <1>4, <1>5 DEF WorkerInv, Recv

LEMMA DropsGives ==
    ASSUME TypeOK, WorkerInv, Drops
    PROVE  /\ WorkerInv' /\ Stored' = received /\ Flight = 0 /\ Flight' = 0
           /\ worker'.at = "push"
<1>1. worker'.at = "push" /\ worker'.data = <<>> /\ Len(worker'.data) = 0
  BY DEF Drops, Idle
<1>2. Stored' = received /\ Flight' = 0 /\ Flight = 0
  BY <1>1, TypeFacts DEF Drops, Held, Stored, Flight
<1>3. QED
  BY <1>1, <1>2, TypeFacts DEF WorkerInv, Drops, Held

LEMMA StoresGives ==
    ASSUME TypeOK, WorkerInv, Stores
    PROVE  /\ WorkerInv' /\ Stored' = Stored + 1 /\ Flight = 0 /\ Flight' = 1
           /\ Len(worker.data) = Len(worker'.data) + 1
           /\ worker'.at = "load" /\ Head(worker.data) = Stored + 1
<1>1. worker.data \in Seq(1..MaxBytes) /\ worker.data # <<>>
  BY DEF Stores, TypeOK
<1>2. /\ worker'.data = Tail(worker.data) /\ worker'.at = "load"
      /\ ring'.front = ring.front
  BY DEF Stores, TypeOK, Rings
<1>3. /\ Len(worker.data) \in Nat \ {0} /\ Head(worker.data) = worker.data[1]
      /\ Len(worker'.data) = Len(worker.data) - 1
      /\ \A k \in 1..Len(worker'.data) : /\ worker'.data[k] = worker.data[k + 1]
                                         /\ k + 1 \in 1..Len(worker.data)
  BY <1>1, <1>2, HeadTailProperties, EmptySeq
<1>4. Stored \in Nat /\ Stored' = Stored + 1 /\ Flight' = 1 /\ Flight = 0
  <2>1. Stored \in Nat /\ received \in Nat
    BY WorkerFacts
  <2>2. QED
    BY <1>2, <1>3, <2>1 DEF Stores, Held, Stored, Flight
<1>5. ASSUME NEW k \in 1..Len(worker'.data) PROVE worker'.data[k] = Stored' + k
  <2>1. worker'.data[k] = worker.data[k + 1] /\ k + 1 \in 1..Len(worker.data) /\ k \in Nat
    BY <1>3
  <2>2. worker.data[k + 1] = Stored + (k + 1)
    BY <2>1 DEF WorkerInv
  <2>3. QED
    BY <1>4, <2>1, <2>2
<1>6. received' = received /\ received \in Nat /\ Len(worker'.data) <= received'
  BY <1>3, TypeFacts DEF Stores, Held, WorkerInv
<1>7. QED
  BY <1>2, <1>3, <1>4, <1>5, <1>6 DEF WorkerInv, Stores, Held

LEMMA LoadsGives ==
    ASSUME TypeOK, WorkerInv, Loads
    PROVE  /\ WorkerInv' /\ Stored' = Stored /\ Flight = 1 /\ Flight' = 1
           /\ worker'.at = "rear" /\ worker'.rear = ring.rear
           /\ worker'.data = worker.data
<1>1. /\ worker'.at = "rear" /\ worker'.rear = ring.rear
      /\ worker'.data = worker.data
  BY DEF Loads, TypeOK
<1>2. QED
  BY <1>1 DEF WorkerInv, Loads, Held, Stored, Flight

LEMMA AdvancesGives ==
    ASSUME TypeOK, WorkerInv, Advances
    PROVE  /\ WorkerInv' /\ Stored' = Stored /\ Flight = 1 /\ Flight' = 0
           /\ worker'.at \in {"push", "store"} /\ worker'.data = worker.data
<1>1. /\ worker'.at = IF worker.data = <<>> THEN "push" ELSE "store"
      /\ worker'.data = worker.data /\ ring'.front = ring.front
  BY DEF Advances, TypeOK, Rings
<1>2. QED
  BY <1>1, WorkerFacts DEF WorkerInv, Advances, Held, Stored, Flight

LEMMA PushGives ==
    ASSUME TypeOK, WorkerInv, EnqueuePacket
    PROVE  /\ WorkerInv' /\ Stored' = Stored /\ Flight = 0 /\ Flight' = 0
           /\ worker'.at = "recv"
<1>1. worker'.at = "recv" /\ worker'.data = <<>> /\ worker.data = <<>>
  BY DEF EnqueuePacket, Idle, WorkerInv
<1>2. QED
  BY <1>1 DEF WorkerInv, EnqueuePacket, stream, Stored, Flight

(* The packet thread leaves the worker alone.                              *)
LEMMA ThreadGives ==
    ASSUME TypeOK, WorkerInv,
           \/ DequeuePacket \/ GetPacketData \/ ProcessPacket \/ CompleteProcess
           \/ PassesBy \/ ClearsFront \/ ClearsRear \/ UNCHANGED vars
    PROVE  WorkerInv' /\ worker' = worker /\ received' = received
           /\ Stored' = Stored /\ Flight' = Flight
<1>1. worker' = worker /\ received' = received
  BY DEF DequeuePacket, GetPacketData, ProcessPacket, CompleteProcess, PassesBy,
     ClearsFront, ClearsRear, Rest, vars
<1>2. Stored' = Stored /\ Flight' = Flight
  BY <1>1 DEF Stored, Flight
<1>3. received = 0 => indices' = 0
  BY TypeFacts DEF WorkerInv, DequeuePacket, GetPacketData, ProcessPacket, CompleteProcess,
     PassesBy, ClearsFront, ClearsRear, Rest, vars
<1>4. thread'.at = "clear" => ring'.front = 0 /\ ~connect'
  <2>1. CASE DequeuePacket
    <3>1. thread'.at \in {"size", "system"}
      BY <2>1 DEF DequeuePacket, Loop
    <3>2. QED
      BY <3>1
  <2>2. CASE GetPacketData
    <3>1. thread' = [thread EXCEPT !.at = "handle"] \/ thread' = Loop("system")
      BY <2>2 DEF GetPacketData
    <3>2. QED
      BY <3>1 DEF Loop, TypeOK
  <2>3. CASE ProcessPacket
    BY <2>3 DEF ProcessPacket, Loop, TypeOK
  <2>4. CASE CompleteProcess
    BY <2>4 DEF CompleteProcess, Loop
  <2>5. CASE PassesBy
    BY <2>5 DEF PassesBy, Loop
  <2>6. CASE ClearsFront
    BY <2>6 DEF ClearsFront, Loop, TypeOK, Rings
  <2>7. CASE ClearsRear
    BY <2>7 DEF ClearsRear, Loop
  <2>8. CASE UNCHANGED vars
    BY <2>8 DEF vars, WorkerInv
  <2>9. QED
    BY <2>1, <2>2, <2>3, <2>4, <2>5, <2>6, <2>7, <2>8
<1>5. QED
  BY <1>1, <1>2, <1>3, <1>4 DEF WorkerInv

LEMMA WorkerStep == TypeOK /\ WorkerInv /\ [Next]_vars => WorkerInv'
BY Steps, RecvGives, DropsGives, StoresGives, LoadsGives, AdvancesGives, PushGives,
   ThreadGives, Zenon

LEMMA WorkerInit == Init => WorkerInv
<1> SUFFICES ASSUME Init PROVE WorkerInv
  OBVIOUS
<1>1. /\ worker.at = "recv" /\ worker.data = <<>> /\ Len(worker.data) = 0
      /\ thread.at = "packet"
  BY DEF Init, Idle, Loop
<1>2. QED
  BY <1>1 DEF Init, WorkerInv, Stored, Flight

-----------------------------------------------------------------------------
(* What lies in the ring comes in the order of the stream                  *)

Width == InUse + Flight

Done == IF thread.at = "complete" THEN Len(handled) - 1 ELSE Len(handled)

RingInv ==
  /\ Width <= Size - 1
  /\ \A k \in 1..Width : Nth(ring, k) \in 1..Stored
  /\ \A k, l \in 1..Width : k < l => Nth(ring, k) < Nth(ring, l)

(* What the last handler read of its packet                                *)
LastGiven == handled[Len(handled)].own

ThreadInv ==
  /\ thread.at = "size" => \E u \in Header..InUse : thread.rear = (ring.front + u) % Size
  /\ thread.at \in {"handle", "complete"} => thread.len <= InUse
  /\ thread.at = "complete" =>
       /\ handled # <<>> /\ Len(LastGiven) \in 0..thread.len
       /\ \A k \in 1..Len(LastGiven) : LastGiven[k] \in {Nth(ring, k), Beyond}

(* Byte k of handled packet i, if it is one of the stream                  *)
Whole(i, k) == handled[i].own[k] # Beyond
Places(i)   == 1..Len(handled[i].own)

HandledInv ==
  /\ \A i \in 1..Len(handled) : \A k \in Places(i) :
       Whole(i, k) => handled[i].own[k] \in 1..Stored
  /\ \A i, j \in 1..Len(handled) : \A k \in Places(i), l \in Places(j) :
       Whole(i, k) /\ Whole(j, l) /\ Before(i, k, j, l) => handled[i].own[k] < handled[j].own[l]

DoneBefore ==
  \A i \in 1..Done : \A k \in Places(i) : \A l \in 1..Width :
    Whole(i, k) => handled[i].own[k] < Nth(ring, l)

Ordered ==
  /\ worker.at = "rear" => worker.rear = ring.rear
  /\ HandledInv
  /\ thread.at # "clear" => RingInv /\ ThreadInv /\ DoneBefore

OrderInv == "raced" \notin upset => Ordered

LEMMA HandledKept ==
    ASSUME HandledInv, handled' = handled, Stored \in Nat, Stored' \in Nat, Stored <= Stored'
    PROVE  HandledInv'
<1>1. \A b \in 1..Stored : b \in 1..Stored'
  OBVIOUS
<1>2. \A i \in 1..Len(handled') : \A k \in Places(i)' :
        Whole(i, k)' => handled'[i].own[k] \in 1..Stored'
  BY <1>1, ZenonT(30) DEF HandledInv, Whole, Places
<1>3. \A i, j \in 1..Len(handled') : \A k \in Places(i)', l \in Places(j)' :
        Whole(i, k)' /\ Whole(j, l)' /\ Before(i, k, j, l) => handled'[i].own[k] < handled'[j].own[l]
  BY ZenonT(30) DEF HandledInv, Whole, Places
<1>4. QED
  BY <1>2, <1>3, ZenonT(30) DEF HandledInv, Before

(* Steps that leave the ring and what was handled as they are.             *)
LEMMA QuietKeeps ==
    ASSUME TypeOK, WorkerInv, WorkerInv', Ordered, ring' = ring, handled' = handled,
           thread' = thread, Stored' \in Nat, Stored <= Stored', Flight' = Flight,
           worker'.at = "rear" => worker'.rear = ring.rear
    PROVE  Ordered'
<1>1. Stored \in Nat
  BY WorkerFacts
<1>2. HandledInv'
  BY <1>1, HandledKept DEF Ordered
<1>3. Width' = Width /\ InUse' = InUse /\ Done' = Done
  BY DEF Width, InUse, Done
<1>4. ASSUME thread.at # "clear" PROVE RingInv' /\ ThreadInv' /\ DoneBefore'
  <2>1. RingInv /\ ThreadInv /\ DoneBefore
    BY <1>4 DEF Ordered
  <2>2. RingInv'
    BY <1>1, <1>3, <2>1 DEF RingInv
  <2>3. ThreadInv'
    BY <1>3, <2>1 DEF ThreadInv, LastGiven
  <2>4. DoneBefore'
    BY <1>3, <2>1 DEF DoneBefore, Whole, Places
  <2>5. QED
    BY <2>2, <2>3, <2>4
<1>5. QED
  BY <1>2, <1>4 DEF Ordered

LEMMA StoresKeeps ==
    ASSUME TypeOK, WorkerInv, Ordered, Stores
    PROVE  Ordered'
<1>1. /\ Stored' = Stored + 1 /\ Flight = 0 /\ Flight' = 1 /\ Stored \in Nat
      /\ worker'.at = "load" /\ Head(worker.data) = Stored + 1
  BY StoresGives, WorkerFacts
<1>2. handled' = handled /\ thread' = thread
  BY DEF Stores, Held
<1>3. HandledInv'
  BY <1>1, <1>2, HandledKept DEF Ordered
<1>4. ASSUME thread.at # "clear" PROVE RingInv' /\ ThreadInv' /\ DoneBefore'
  <2>1. RingInv /\ ThreadInv /\ DoneBefore
    BY <1>4 DEF Ordered
  <2>2. Stored + 1 \in Bytes
    <3>1. worker.data \in Seq(1..MaxBytes) /\ worker.data # <<>>
      BY DEF TypeOK, Stores
    <3>2. Head(worker.data) \in 1..MaxBytes
      BY <3>1, HeadTailProperties
    <3>3. QED
      BY <1>1, <3>2, TypeFacts
  <2>3. /\ InUse + 1 \in 0..(Size - 1) /\ InUse' = InUse
        /\ \A k \in 1..InUse : Nth(ring', k) = Nth(ring, k)
        /\ Nth(ring', InUse + 1) = Stored + 1
        /\ ring'.front = ring.front
    <3>1. ring' = [ring EXCEPT !.buf[ring.rear] = Stored + 1] /\ ring \in Rings
      BY <1>1 DEF Stores, TypeOK
    <3>2. (ring.rear + 1) % Size # ring.front
      BY DEF Stores, Stuck
    <3>3. /\ GetSizeInUse(ring) + 1 \in 0..(Size - 1)
          /\ GetSizeInUse(ring') = GetSizeInUse(ring)
          /\ \A k \in 1..GetSizeInUse(ring) : Nth(ring', k) = Nth(ring, k)
          /\ Nth(ring', GetSizeInUse(ring) + 1) = Stored + 1
      BY <2>2, <3>1, <3>2, StoreByte
    <3>4. ring'.front = ring.front
      BY <3>1 DEF Rings
    <3>5. QED
      BY <3>3, <3>4 DEF InUse
  <2>4. InUse \in Nat /\ Width = InUse /\ Width' = InUse + 1 /\ Done' = Done
    BY <1>1, <1>2, <2>3, WorkerFacts DEF Width, Done
  <2>5. RingInv'
    <3>1. \A k \in 1..InUse : Nth(ring', k) \in 1..Stored
      BY <2>1, <2>3, <2>4 DEF RingInv
    <3>2. \A k \in 1..(InUse + 1) : k \in 1..InUse \/ k = InUse + 1
      BY <2>4
    <3>3. \A k \in 1..(InUse + 1) : Nth(ring', k) \in 1..(Stored + 1)
      BY <1>1, <2>3, <3>1, <3>2
    <3>4. \A k, l \in 1..(InUse + 1) : k < l => Nth(ring', k) < Nth(ring', l)
      <4>1. ASSUME NEW k \in 1..(InUse + 1), NEW l \in 1..(InUse + 1), k < l
            PROVE  Nth(ring', k) < Nth(ring', l)
        <5>1. k \in 1..InUse
          BY <2>4, <4>1
        <5>2. CASE l \in 1..InUse
          BY <2>1, <2>3, <2>4, <4>1, <5>1, <5>2 DEF RingInv
        <5>3. CASE l = InUse + 1
          BY <1>1, <2>3, <3>1, <5>1, <5>3
        <5>4. QED
          BY <3>2, <5>2, <5>3
      <4>2. QED
        BY <4>1
    <3>5. QED
      BY <1>1, <2>3, <2>4, <3>3, <3>4, TypeFacts DEF RingInv
  <2>6. ThreadInv'
    <3>1. thread.at = "complete" =>
            \A k \in 1..thread.len : Nth(ring', k) = Nth(ring, k)
      <4>1. thread.at = "complete" => thread.len \in Nat /\ thread.len <= InUse
        BY <2>1, InboxConstants DEF ThreadInv, TypeOK
      <4>2. QED
        BY <2>3, <2>4, <4>1
    <3>2. LastGiven' = LastGiven
      BY <1>2 DEF LastGiven
    <3>3. ASSUME thread.at = "complete"
          PROVE  /\ handled # <<>> /\ Len(LastGiven) \in 0..thread.len
                 /\ \A k \in 1..Len(LastGiven) : LastGiven[k] \in {Nth(ring', k), Beyond}
      <4>1. thread.len \in Nat /\ Len(LastGiven) \in 0..thread.len /\ handled # <<>>
        BY <2>1, <3>3, InboxConstants DEF ThreadInv, TypeOK
      <4>2. \A k \in 1..Len(LastGiven) : k \in 1..thread.len
        BY <4>1
      <4>3. QED
        BY <2>1, <3>1, <3>3, <4>1, <4>2 DEF ThreadInv
    <3>4. QED
      BY <1>2, <2>1, <2>3, <3>1, <3>2, <3>3 DEF ThreadInv
  <2>7. DoneBefore'
    <3>1. ASSUME NEW i \in 1..Done, NEW k \in Places(i), NEW l \in 1..(InUse + 1), Whole(i, k)
          PROVE  handled[i].own[k] < Nth(ring', l)
      <4>1. i \in 1..Len(handled) /\ handled[i].own[k] \in 1..Stored
        <5>1. i \in 1..Len(handled)
          BY TypeFacts DEF Done
        <5>2. QED
          BY <3>1, <5>1 DEF Ordered, HandledInv
      <4>2. CASE l \in 1..InUse
        BY <2>1, <2>3, <2>4, <3>1, <4>2 DEF DoneBefore
      <4>3. CASE l = InUse + 1
        BY <1>1, <2>3, <4>1, <4>3
      <4>4. QED
        BY <2>4, <4>2, <4>3
    <3>2. QED
      BY <1>2, <2>4, <3>1 DEF DoneBefore, Whole, Places
  <2>8. QED
    BY <2>5, <2>6, <2>7
<1>5. QED
  BY <1>1, <1>2, <1>3, <1>4 DEF Ordered

LEMMA AdvancesKeeps ==
    ASSUME TypeOK, WorkerInv, Ordered, Advances
    PROVE  Ordered'
<1>1. /\ Stored' = Stored /\ Flight = 1 /\ Flight' = 0 /\ Stored \in Nat
      /\ worker'.at # "rear"
  BY AdvancesGives, WorkerFacts
<1>2. handled' = handled /\ thread' = thread
  BY DEF Advances, Held
<1>3. HandledInv'
  BY <1>1, <1>2, HandledKept DEF Ordered
<1>4. ASSUME thread.at # "clear" PROVE RingInv' /\ ThreadInv' /\ DoneBefore'
  <2>1. RingInv /\ ThreadInv /\ DoneBefore
    BY <1>4 DEF Ordered
  <2>2. InUse \in Nat /\ InUse + 1 \in 0..(Size - 1) /\ Size \in Nat
    BY <1>1, <2>1, WorkerFacts DEF RingInv, Width
  <2>3. /\ InUse' = InUse + 1 /\ ring'.front = ring.front
        /\ \A k \in 1..Size : Nth(ring', k) = Nth(ring, k)
    <3>1. ring' = [ring EXCEPT !.rear = (ring.rear + 1) % Size] /\ ring \in Rings
      BY DEF Advances, TypeOK, Ordered
    <3>2. /\ GetSizeInUse(ring') = GetSizeInUse(ring) + 1
          /\ \A k \in 1..Size : Nth(ring', k) = Nth(ring, k)
      BY <2>2, <3>1, MoveRear DEF InUse
    <3>3. ring'.front = ring.front
      BY <3>1 DEF Rings
    <3>4. QED
      BY <3>2, <3>3 DEF InUse
  <2>4. Width = InUse + 1 /\ Width' = InUse + 1 /\ Done' = Done
    BY <1>1, <1>2, <2>2, <2>3 DEF Width, Done
  <2>5. \A k \in 1..(InUse + 1) : Nth(ring', k) = Nth(ring, k)
    BY <2>2, <2>3
  <2>6. RingInv'
    BY <1>1, <2>1, <2>4, <2>5 DEF RingInv
  <2>7. ThreadInv'
    <3>1. thread.at = "complete" =>
            \A k \in 1..thread.len : Nth(ring', k) = Nth(ring, k)
      <4>1. thread.at = "complete" => thread.len \in Nat /\ thread.len <= InUse
        BY <2>1, InboxConstants DEF ThreadInv, TypeOK
      <4>2. QED
        BY <2>2, <2>3, <4>1
    <3>2. thread.at \in {"handle", "complete"} => thread.len <= InUse + 1
      BY <2>1, <2>2, InboxConstants DEF ThreadInv, TypeOK
    <3>3. ASSUME thread.at = "size"
          PROVE  \E u \in Header..(InUse + 1) : thread.rear = (ring.front + u) % Size
      <4>1. PICK u \in Header..InUse : thread.rear = (ring.front + u) % Size
        BY <2>1, <3>3 DEF ThreadInv
      <4>2. u \in Header..(InUse + 1)
        BY <2>2, InboxConstants
      <4>3. QED
        BY <4>1, <4>2
    <3>4. LastGiven' = LastGiven
      BY <1>2 DEF LastGiven
    <3>5. ASSUME thread.at = "complete"
          PROVE  /\ handled # <<>> /\ Len(LastGiven) \in 0..thread.len
                 /\ \A k \in 1..Len(LastGiven) : LastGiven[k] \in {Nth(ring', k), Beyond}
      <4>1. thread.len \in Nat /\ Len(LastGiven) \in 0..thread.len /\ handled # <<>>
        BY <2>1, <3>5, InboxConstants DEF ThreadInv, TypeOK
      <4>2. \A k \in 1..Len(LastGiven) : k \in 1..thread.len
        BY <4>1
      <4>3. QED
        BY <2>1, <3>1, <3>5, <4>1, <4>2 DEF ThreadInv
    <3>6. QED
      BY <1>2, <2>1, <2>3, <3>1, <3>2, <3>3, <3>4, <3>5 DEF ThreadInv
  <2>8. DoneBefore'
    BY <1>2, <2>1, <2>4, <2>5 DEF DoneBefore, Whole, Places
  <2>9. QED
    BY <2>6, <2>7, <2>8
<1>5. QED
  BY <1>1, <1>2, <1>3, <1>4 DEF Ordered

(* Steps that only change what the thread is about to do.                  *)
LEMMA ThreadMoves ==
    ASSUME TypeOK, WorkerInv, Ordered, ring' = ring, handled' = handled, worker' = worker,
           received' = received,
           thread.at # "clear", thread.at # "complete", thread'.at # "complete",
           ThreadInv'
    PROVE  Ordered'
<1>1. /\ Stored' = Stored /\ Flight' = Flight /\ InUse' = InUse /\ Width' = Width
      /\ Done' = Done /\ Stored \in Nat
  BY WorkerFacts DEF Stored, Flight, InUse, Width, Done
<1>2. HandledInv'
  BY <1>1, HandledKept DEF Ordered
<1>3. RingInv /\ DoneBefore
  BY DEF Ordered
<1>4. RingInv'
  BY <1>1, <1>3 DEF RingInv
<1>5. DoneBefore'
  BY <1>1, <1>3 DEF DoneBefore, Whole, Places
<1>6. QED
  BY <1>2, <1>4, <1>5 DEF Ordered

LEMMA DequeueKeeps ==
    ASSUME TypeOK, WorkerInv, Ordered, DequeuePacket
    PROVE  Ordered'
<1>1. /\ ring' = ring /\ handled' = handled /\ worker' = worker /\ received' = received
      /\ thread.at = "packet"
  BY DEF DequeuePacket
<1>2. \/ thread' = Loop("system")
      \/ /\ Len(Peek(ring, Header)) = Header
         /\ \E h \in Headers(Peek(ring, Header)) :
              thread' = [at |-> "size", rear |-> ring.rear, len |-> h.len, struct |-> h.struct]
  BY Zenon DEF DequeuePacket
<1>3. CASE thread' = Loop("system")
  <2>1. thread'.at = "system"
    BY <1>3 DEF Loop
  <2>2. ThreadInv'
    BY <2>1 DEF ThreadInv
  <2>3. QED
    BY <1>1, <2>1, <2>2, ThreadMoves
<1>4. CASE /\ Len(Peek(ring, Header)) = Header
           /\ \E h \in Headers(Peek(ring, Header)) :
                thread' = [at |-> "size", rear |-> ring.rear, len |-> h.len, struct |-> h.struct]
  <2>1. thread'.at = "size" /\ thread'.rear = ring.rear
    BY <1>4
  <2>2. Header <= InUse /\ ring \in Rings
    BY <1>4, PeekBytes, InboxConstants DEF InUse, TypeOK
  <2>3. InUse \in Header..InUse /\ ring.rear = (ring.front + InUse) % Size
    BY <2>2, Used, InboxConstants, WorkerFacts DEF InUse
  <2>4. ThreadInv'
    <3>1. InUse' = InUse
      BY <1>1 DEF InUse
    <3>2. QED
      BY <1>1, <2>1, <2>3, <3>1 DEF ThreadInv
  <2>5. QED
    BY <1>1, <2>1, <2>4, ThreadMoves
<1>5. QED
  BY <1>2, <1>3, <1>4

LEMMA SizeKeeps ==
    ASSUME TypeOK, WorkerInv, Ordered, GetPacketData
    PROVE  Ordered'
<1>1. /\ ring' = ring /\ handled' = handled /\ worker' = worker /\ received' = received
      /\ thread.at = "size"
  BY DEF GetPacketData
<1>2. PICK rear \in {thread.rear, ring.rear} :
         thread' = IF SizeInUse(thread.rear, rear) >= thread.len
                   THEN [thread EXCEPT !.at = "handle"] ELSE Loop("system")
  BY DEF GetPacketData
<1>3. PICK u \in Header..InUse : thread.rear = (ring.front + u) % Size
  BY <1>1 DEF Ordered, ThreadInv
<1>4. u \in 0..InUse
  BY InboxConstants, WorkerFacts
<1>5. SizeInUse(thread.rear, rear) <= InUse /\ SizeInUse(thread.rear, rear) \in Int
  <2>1. /\ thread.rear \in Index
        /\ (IF ring.front > thread.rear THEN Size - (ring.front - thread.rear)
            ELSE thread.rear - ring.front) = u
        /\ (IF ring.front > thread.rear THEN Size - (ring.front - ring.rear)
            ELSE ring.rear - ring.front) <= InUse
    BY <1>3, <1>4, NeverTooMany DEF InUse, TypeOK
  <2>2. /\ ring.front \in Int /\ ring.rear \in Int /\ thread.rear \in Int
        /\ Size \in Int /\ InUse \in Int /\ u <= InUse
    BY <1>4, <2>1, WorkerFacts DEF TypeOK, Rings, Index
  <2>3. rear = thread.rear \/ rear = ring.rear
    OBVIOUS
  <2>4. QED
    BY <2>1, <2>2, <2>3 DEF SizeInUse
<1>6. CASE thread' = Loop("system")
  <2>1. thread'.at = "system"
    BY <1>6 DEF Loop
  <2>2. ThreadInv'
    BY <2>1 DEF ThreadInv
  <2>3. QED
    BY <1>1, <2>1, <2>2, ThreadMoves
<1>7. CASE /\ thread' = [thread EXCEPT !.at = "handle"]
           /\ SizeInUse(thread.rear, rear) >= thread.len
  <2>1. thread'.at = "handle" /\ thread'.len = thread.len
    BY <1>7 DEF TypeOK
  <2>2. thread.len <= InUse /\ InUse' = InUse
    <3>1. thread.len \in Int /\ InUse \in Int
      BY InboxConstants, WorkerFacts DEF TypeOK
    <3>2. QED
      BY <1>1, <1>5, <1>7, <3>1 DEF InUse
  <2>3. ThreadInv'
    BY <2>1, <2>2 DEF ThreadInv
  <2>4. QED
    BY <1>1, <2>1, <2>3, ThreadMoves
<1>8. QED
  BY <1>2, <1>6, <1>7, Zenon

(* A handler is given the first bytes of the ring, up to the array's end.  *)
LEMMA FromFrontIs ==
    ASSUME TypeOK, NEW n \in 0..InUse
    PROVE  /\ FromFront(n) \in GivenBytes /\ Len(FromFront(n)) = n
           /\ \A k \in 1..n : FromFront(n)[k] \in {Nth(ring, k), Beyond}
<1>1. /\ Size \in Nat \ {0, 1} /\ n \in 0..(Size - 1) /\ n \in Nat
      /\ ring \in Rings /\ ring.front \in Index
  BY SizeIs, Used DEF InUse, TypeOK, Rings
<1>2. ASSUME NEW k \in 1..n, ring.front + k - 1 < Size
      PROVE  ring.buf[ring.front + k - 1] = Nth(ring, k) /\ Nth(ring, k) \in Bytes
  <2>1. k \in 1..Size
    BY <1>1
  <2>2. (ring.front + k - 1) % Size = ring.front + k - 1
    BY <1>1, <1>2, <2>1, NthIndex
  <2>3. QED
    BY <1>1, <2>1, <2>2, NthByte DEF Nth
<1>3. \A k \in 1..n : FromFront(n)[k] \in {Nth(ring, k), Beyond}
  BY <1>2 DEF FromFront
<1>4. FromFront(n) \in GivenBytes /\ Len(FromFront(n)) = n
  <2>1. \A k \in 1..n : (IF ring.front + k - 1 < Size THEN ring.buf[ring.front + k - 1]
                         ELSE Beyond) \in Bytes \cup {Beyond}
    BY <1>2
  <2>2. QED
    BY <1>1, <2>1 DEF FromFront, GivenBytes
<1>5. QED
  BY <1>3, <1>4

LEMMA ProcessKeeps ==
    ASSUME TypeOK, WorkerInv, Ordered, ProcessPacket
    PROVE  Ordered'
<1>1. /\ ring' = ring /\ worker' = worker /\ received' = received
      /\ thread.at = "handle"
  BY DEF ProcessPacket
<1>2. CASE thread.struct = None
  <2>1. handled' = handled /\ thread'.at = "system"
    BY <1>2 DEF ProcessPacket, Loop
  <2>2. ThreadInv'
    BY <2>1 DEF ThreadInv
  <2>3. QED
    BY <1>1, <2>1, <2>2, ThreadMoves
<1>3. CASE thread.struct # None
  <2> DEFINE F == Read.own
             n == Len(handled)
  <2>1. RingInv /\ ThreadInv /\ DoneBefore /\ HandledInv
    BY <1>1 DEF Ordered
  <2>2. thread.len \in 0..InUse /\ InUse \in Nat /\ Width \in Nat /\ InUse <= Width
    BY <1>1, <2>1, WorkerFacts, InboxConstants, SMTT(30) DEF ThreadInv, TypeOK, Width
  <2>3. /\ F \in GivenBytes /\ Len(F) \in 0..thread.len /\ Read \in Reads
        /\ Len(F) = Lesser(thread.len, thread.struct)
        /\ \A k \in 1..Len(F) : F[k] \in {Nth(ring, k), Beyond}
    <3>1. PICK m \in 0..thread.len : m = Lesser(thread.len, thread.struct)
      BY ReadIs
    <3>2. m \in 0..InUse /\ F = FromFront(m) /\ Read \in Reads
      BY <2>2, <3>1, ReadIs
    <3>3. QED
      BY <3>1, <3>2, FromFrontIs
  <2>4. /\ handled' = Append(handled, Read) /\ thread' = [thread EXCEPT !.at = "complete"]
    BY <1>3 DEF ProcessPacket
  <2> HIDE DEF F
  <2>5. /\ n \in Nat /\ Len(handled') = n + 1 /\ handled'[n + 1].own = F
        /\ handled'[n + 1] = Read /\ \A i \in 1..n : handled'[i] = handled[i]
        /\ handled' # <<>>
    <3>1. handled \in Seq(Reads) /\ n \in Nat
      BY TypeFacts DEF TypeOK
    <3>2. handled' = Append(handled, Read) /\ Read \in Reads
      BY <2>3, <2>4
    <3>3. /\ Len(handled') = n + 1 /\ handled'[n + 1] = Read
          /\ \A i \in 1..n : handled'[i] = handled[i]
          /\ handled' # <<>>
      BY <3>1, <3>2, AppendProperties
    <3>4. QED
      BY <3>1, <3>3 DEF F
  <2>6. thread'.at = "complete" /\ thread'.len = thread.len
    BY <2>4 DEF TypeOK
  <2> HIDE DEF n
  <2>7. /\ Stored' = Stored /\ Stored \in Nat /\ InUse' = InUse /\ Width' = Width
        /\ Done = n /\ Done' = n
    <3>1. Done' = n
      BY <2>5, <2>6 DEF Done
    <3>2. QED
      BY <1>1, <3>1, WorkerFacts DEF Stored, Flight, InUse, Width, Done, n
  <2>8. RingInv'
    BY <1>1, <2>1, <2>7 DEF RingInv
  <2>9. ThreadInv'
    <3>1. LastGiven' = F
      BY <2>5 DEF LastGiven
    <3>2. QED
      BY <1>1, <2>2, <2>3, <2>5, <2>6, <2>7, <3>1 DEF ThreadInv
  <2>10. DoneBefore'
    <3>1. ASSUME NEW i \in 1..n, NEW k \in 1..Len(handled[i].own), NEW l \in 1..Width,
                 handled[i].own[k] # Beyond
          PROVE  handled[i].own[k] < Nth(ring, l)
      BY <2>1, <2>7, <3>1 DEF DoneBefore, Whole, Places
    <3>2. QED
      BY <1>1, <2>5, <2>7, <3>1 DEF DoneBefore, Whole, Places
  <2>11. ASSUME NEW k \in 1..Len(F), F[k] # Beyond
         PROVE  F[k] = Nth(ring, k) /\ k \in 1..Width
    BY <2>2, <2>3, <2>11
  <2>12. HandledInv'
    <3>1. ASSUME NEW i \in 1..(n + 1), NEW k \in 1..Len(handled'[i].own),
                 handled'[i].own[k] # Beyond
          PROVE  handled'[i].own[k] \in 1..Stored
      <4>1. CASE i \in 1..n
        BY <2>1, <2>5, <3>1, <4>1 DEF HandledInv, Whole, Places, n
      <4>2. CASE i = n + 1
        BY <2>1, <2>3, <2>5, <2>11, <3>1, <4>2 DEF RingInv
      <4>3. QED
        BY <2>5, <4>1, <4>2
    <3>2. ASSUME NEW i \in 1..(n + 1), NEW j \in 1..(n + 1),
                 NEW k \in 1..Len(handled'[i].own), NEW l \in 1..Len(handled'[j].own),
                 handled'[i].own[k] # Beyond, handled'[j].own[l] # Beyond, Before(i, k, j, l)
          PROVE  handled'[i].own[k] < handled'[j].own[l]
      <4>1. CASE j \in 1..n
        <5>1. i \in 1..n
          BY <2>5, <3>2, <4>1 DEF Before
        <5>2. QED
          BY <2>1, <2>5, <3>2, <4>1, <5>1 DEF HandledInv, Whole, Places, n
      <4>2. CASE j = n + 1 /\ i \in 1..n
        <5>1. handled'[i] = handled[i] /\ handled'[j].own = F
          BY <2>5, <4>2
        <5>2. F[l] = Nth(ring, l) /\ l \in 1..Width
          BY <2>3, <2>11, <3>2, <5>1
        <5>3. QED
          BY <2>1, <2>7, <3>2, <4>2, <5>1, <5>2 DEF DoneBefore, Whole, Places
      <4>3. CASE j = n + 1 /\ i = n + 1
        <5>1. k < l /\ handled'[i].own = F /\ handled'[j].own = F
          BY <2>5, <3>2, <4>3 DEF Before
        <5>2. /\ F[l] = Nth(ring, l) /\ l \in 1..Width
              /\ F[k] = Nth(ring, k) /\ k \in 1..Width
          BY <2>3, <2>11, <3>2, <5>1
        <5>3. QED
          BY <2>1, <5>1, <5>2 DEF RingInv
      <4>4. QED
        BY <2>5, <4>1, <4>2, <4>3
    <3>3. QED
      BY <2>5, <2>7, <3>1, <3>2 DEF HandledInv, Whole, Places, Before
  <2>13. QED
    BY <1>1, <2>6, <2>8, <2>9, <2>10, <2>12 DEF Ordered
<1>4. QED
  BY <1>2, <1>3

LEMMA CompleteKeeps ==
    ASSUME TypeOK, WorkerInv, Ordered, CompleteProcess
    PROVE  Ordered'
<1> DEFINE n == thread.len
           m == Len(handled)
<1>1. /\ ring' = MoveFront(ring, n) /\ worker' = worker /\ received' = received
      /\ handled' = handled /\ thread.at = "complete" /\ thread'.at = "system"
  BY DEF CompleteProcess, Loop
<1>2. RingInv /\ ThreadInv /\ DoneBefore /\ HandledInv
  BY <1>1 DEF Ordered
<1>3. /\ n \in 0..InUse /\ n \in Nat /\ InUse \in 0..(Size - 1) /\ Size \in Nat
      /\ ring \in Rings /\ m \in Nat
      /\ handled # <<>> /\ Len(handled[m].own) \in 0..n
      /\ \A k \in 1..Len(handled[m].own) : handled[m].own[k] \in {Nth(ring, k), Beyond}
  <2>1. /\ n \in Nat /\ n <= InUse /\ InUse \in 0..(Size - 1) /\ Size \in Nat
        /\ ring \in Rings /\ m \in Nat
    BY <1>1, <1>2, WorkerFacts, TypeFacts, InboxConstants DEF ThreadInv, TypeOK
  <2>2. /\ handled # <<>> /\ Len(LastGiven) \in 0..n
        /\ \A k \in 1..Len(LastGiven) : LastGiven[k] \in {Nth(ring, k), Beyond}
    BY <1>1, <1>2 DEF ThreadInv
  <2>3. QED
    BY <2>1, <2>2 DEF LastGiven
<1>4. m \in Nat \ {0}
  BY <1>3, EmptySeq DEF TypeOK
<1> HIDE DEF n, m
<1>5. /\ InUse' = InUse - n /\ ring'.rear = ring.rear
      /\ \A k \in 1..(Size - n) : Nth(ring', k) = Nth(ring, n + k)
  BY <1>1, <1>3, MoveFrontBytes DEF InUse
<1>6. /\ Stored' = Stored /\ Stored \in Nat /\ Flight' = Flight /\ Flight \in 0..1
      /\ Width = InUse + Flight /\ Width' = Width - n /\ Width <= Size - 1
      /\ Done = m - 1 /\ Done' = m
  <2>1. Done = m - 1 /\ Done' = m
    BY <1>1 DEF Done, m
  <2>2. Stored' = Stored /\ Flight' = Flight
    BY <1>1 DEF Stored, Flight
  <2>3. QED
    BY <1>2, <1>3, <1>5, <2>1, <2>2, WorkerFacts DEF Width, RingInv
<1>7. \A k \in 1..Width' : k \in 1..(Size - n) /\ n + k \in 1..Width
  BY <1>3, <1>6
<1>8. \A k \in 1..Width' : Nth(ring', k) = Nth(ring, n + k)
  BY <1>5, <1>7
<1>9. RingInv'
  <2>1. Width' <= Size - 1
    BY <1>3, <1>6
  <2>2. \A k \in 1..Width' : Nth(ring', k) \in 1..Stored
    BY <1>2, <1>7, <1>8 DEF RingInv
  <2>3. \A k, l \in 1..Width' : k < l => n + k < n + l
    BY <1>3, <1>6
  <2>4. \A k, l \in 1..Width' : k < l => Nth(ring', k) < Nth(ring', l)
    BY <1>2, <1>7, <1>8, <2>3 DEF RingInv
  <2>5. QED
    BY <1>6, <2>1, <2>2, <2>4 DEF RingInv
<1>10. ThreadInv'
  BY <1>1 DEF ThreadInv
<1>11. DoneBefore'
  <2>1. ASSUME NEW i \in 1..m, NEW k \in Places(i), NEW l \in 1..Width', Whole(i, k)
        PROVE  handled[i].own[k] < Nth(ring, n + l)
    <3>1. n + l \in 1..Width
      BY <1>7
    <3>2. CASE i = m
      <4>1. k \in 1..n /\ handled[m].own[k] = Nth(ring, k) /\ k < n + l /\ k \in 1..Width
        BY <1>3, <1>6, <2>1, <3>2 DEF Places, Whole
      <4>2. QED
        BY <1>2, <3>1, <3>2, <4>1 DEF RingInv
    <3>3. CASE i # m
      <4>1. i \in 1..Done
        BY <1>4, <1>6, <3>3
      <4>2. QED
        BY <1>2, <2>1, <3>1, <4>1 DEF DoneBefore
    <3>4. QED
      BY <3>2, <3>3
  <2>2. QED
    BY <1>1, <1>6, <1>8, <2>1 DEF DoneBefore, Whole, Places
<1>12. HandledInv'
  BY <1>1, <1>2, <1>6, HandledKept
<1>13. (worker.at = "rear" => worker.rear = ring.rear)'
  BY <1>1, <1>5 DEF Ordered
<1>14. QED
  BY <1>9, <1>10, <1>11, <1>12, <1>13 DEF Ordered

LEMMA PassesKeeps ==
    ASSUME TypeOK, WorkerInv, Ordered, PassesBy
    PROVE  Ordered'
<1>1. /\ ring' = ring /\ handled' = handled /\ worker' = worker /\ received' = received
      /\ thread.at = "system" /\ thread'.at = "packet"
  BY DEF PassesBy, Rest, Loop
<1>2. ThreadInv'
  BY <1>1 DEF ThreadInv
<1>3. QED
  BY <1>1, <1>2, ThreadMoves

LEMMA ClearsFrontKeeps ==
    ASSUME TypeOK, WorkerInv, Ordered, ClearsFront, "raced" \notin upset'
    PROVE  Ordered'
<1>1. /\ handled' = handled /\ worker' = worker /\ received' = received
      /\ thread'.at = "clear" /\ worker.at # "rear"
  BY DEF ClearsFront, Rest, Loop, Hit
<1>2. Stored' = Stored /\ Stored \in Nat
  BY <1>1, WorkerFacts DEF Stored
<1>3. HandledInv'
  BY <1>1, <1>2, HandledKept DEF Ordered
<1>4. QED
  BY <1>1, <1>3 DEF Ordered

LEMMA ClearsRearGives ==
    ASSUME TypeOK, WorkerInv, ClearsRear, "raced" \notin upset'
    PROVE  Flight = 0 /\ InUse' = 0 /\ Width' = 0 /\ worker.at \in {"recv", "push"}
<1>1. worker' = worker /\ worker.at \in {"recv", "push"}
  BY DEF ClearsRear, Rest, Hit, TypeOK, WorkerAt
<1>2. ring' = [ring EXCEPT !.rear = 0] /\ ring.front = 0 /\ ring \in Rings
  BY DEF ClearsRear, WorkerInv, TypeOK
<1>3. ring'.front = 0 /\ ring'.rear = 0
  BY <1>2 DEF Rings
<1>4. InUse' = 0
  BY <1>3 DEF InUse, GetSizeInUse
<1>5. Flight = 0 /\ Flight' = 0
  BY <1>1 DEF Flight
<1>6. QED
  BY <1>1, <1>4, <1>5 DEF Width

LEMMA ClearsRearKeeps ==
    ASSUME TypeOK, WorkerInv, Ordered, ClearsRear, "raced" \notin upset'
    PROVE  Ordered'
<1>1. /\ handled' = handled /\ worker' = worker /\ received' = received
      /\ thread'.at = "packet"
  BY DEF ClearsRear, Rest, Loop
<1>2. Width' = 0 /\ worker.at \in {"recv", "push"}
  BY ClearsRearGives
<1>3. Stored' = Stored /\ Stored \in Nat /\ Size \in Nat \ {0, 1}
  BY <1>1, WorkerFacts DEF Stored
<1>4. HandledInv'
  BY <1>1, <1>3, HandledKept DEF Ordered
<1>5. RingInv' /\ ThreadInv' /\ DoneBefore'
  BY <1>1, <1>2, <1>3 DEF RingInv, ThreadInv, DoneBefore
<1>6. QED
  BY <1>1, <1>2, <1>4, <1>5 DEF Ordered

LEMMA UpsetGrows == TypeOK /\ [Next]_vars => upset \subseteq upset'
<1> SUFFICES ASSUME TypeOK, [Next]_vars PROVE upset \subseteq upset'
  OBVIOUS
<1>1. CASE GetPacketData
  BY <1>1 DEF GetPacketData
<1>2. QED
  BY <1>1, Steps, Zenon DEF Recv, Drops, Stores, Loads, Advances, EnqueuePacket, DequeuePacket,
     ProcessPacket, CompleteProcess, PassesBy, ClearsFront, ClearsRear,
     Hit, vars

LEMMA OrderStep == TypeOK /\ WorkerInv /\ OrderInv /\ [Next]_vars => OrderInv'
<1> SUFFICES ASSUME TypeOK, WorkerInv, OrderInv, [Next]_vars, "raced" \notin upset'
             PROVE  Ordered'
  BY DEF OrderInv
<1>1. Ordered
  BY UpsetGrows DEF OrderInv
<1>2. WorkerInv'
  BY WorkerStep
<1>3. Stored \in Nat /\ received \in Nat /\ Stored <= received
  BY WorkerFacts
<1>4. CASE Recv
  <2>1. Stored' = Stored /\ Flight' = Flight /\ worker'.at = "store"
    BY <1>4, RecvGives
  <2>2. ring' = ring /\ handled' = handled /\ thread' = thread
    BY <1>4 DEF Recv
  <2>3. QED
    BY <1>1, <1>2, <1>3, <2>1, <2>2, QuietKeeps
<1>5. CASE Drops
  <2>1. Stored' = received /\ Flight' = Flight /\ worker'.at = "push"
    BY <1>5, DropsGives
  <2>2. ring' = ring /\ handled' = handled /\ thread' = thread
    BY <1>5 DEF Drops, Held
  <2>3. QED
    BY <1>1, <1>2, <1>3, <2>1, <2>2, QuietKeeps
<1>6. CASE Stores
  BY <1>1, <1>6, StoresKeeps
<1>7. CASE Loads
  <2>1. Stored' = Stored /\ Flight' = Flight /\ worker'.rear = ring.rear
    BY <1>7, LoadsGives
  <2>2. ring' = ring /\ handled' = handled /\ thread' = thread
    BY <1>7 DEF Loads, Held
  <2>3. QED
    BY <1>1, <1>2, <1>3, <2>1, <2>2, QuietKeeps
<1>8. CASE Advances
  BY <1>1, <1>8, AdvancesKeeps
<1>9. CASE EnqueuePacket
  <2>1. Stored' = Stored /\ Flight' = Flight /\ worker'.at = "recv"
    BY <1>9, PushGives
  <2>2. ring' = ring /\ handled' = handled /\ thread' = thread
    BY <1>9 DEF EnqueuePacket
  <2>3. QED
    BY <1>1, <1>2, <1>3, <2>1, <2>2, QuietKeeps
<1>10. CASE UNCHANGED vars
  <2>1. Stored' = Stored /\ Flight' = Flight /\ worker' = worker
    BY <1>10 DEF vars, Stored, Flight
  <2>2. ring' = ring /\ handled' = handled /\ thread' = thread
    BY <1>10 DEF vars
  <2>3. QED
    BY <1>1, <1>2, <1>3, <2>1, <2>2, QuietKeeps DEF Ordered
<1>11. QED
  BY <1>1, <1>4, <1>5, <1>6, <1>7, <1>8, <1>9, <1>10, Steps, DequeueKeeps, SizeKeeps,
     ProcessKeeps, CompleteKeeps, PassesKeeps, ClearsFrontKeeps, ClearsRearKeeps, Zenon

LEMMA InitFacts ==
    ASSUME Init
    PROVE  /\ Stored = 0 /\ Flight = 0 /\ InUse = 0 /\ Width = 0 /\ Done = 0
           /\ handled = <<>> /\ Len(handled) = 0
           /\ worker.at = "recv" /\ thread.at = "packet"
<1>1. /\ worker.at = "recv" /\ worker.data = <<>> /\ thread.at = "packet"
      /\ handled = <<>> /\ received = 0
  BY DEF Init, Idle, Loop
<1>2. Len(worker.data) = 0 /\ Len(handled) = 0
  BY <1>1
<1>3. InUse = 0
  BY SizeIs DEF Init, InUse, GetSizeInUse, Index
<1>4. Stored = 0
  <2>1. Stored = 0 - 0
    BY <1>1, <1>2, Zenon DEF Stored
  <2>2. QED
    BY <2>1
<1>5. Flight = 0 /\ Done = 0
  BY <1>1, <1>2 DEF Flight, Done
<1>6. QED
  BY <1>1, <1>2, <1>3, <1>4, <1>5 DEF Width

LEMMA OrderInit == Init => OrderInv
<1> SUFFICES ASSUME Init PROVE Ordered
  BY DEF OrderInv
<1>1. QED
  BY InitFacts, SizeIs DEF Ordered, HandledInv, RingInv, ThreadInv, DoneBefore

IInv == TypeOK /\ WorkerInv /\ OrderInv

(***************************************************************************)
(* What is in packet_buf_, and what handlers were given, are bytes of this *)
(* client in the order of its stream, until ConnectHandler clears the ring *)
(* under a worker that fills it (user.cpp:41, ring_buffer.cpp).            *)
(***************************************************************************)
THEOREM InboxInductive == Spec => []IInv
<1>1. Init => IInv
  BY TypeInit, WorkerInit, OrderInit DEF IInv
<1>2. IInv /\ [Next]_vars => IInv'
  BY TypeStep, WorkerStep, OrderStep DEF IInv
<1>3. QED
  BY <1>1, <1>2, PTL DEF Spec

(***************************************************************************)
(* Whatever is dropped, cleared or cut, no byte of a client is a part of   *)
(* two handled packets and none of an earlier client is a part of one      *)
(* (CompleteProcess, packet_manager.cpp:130), for every ring, every stream *)
(* and every size of a handler's struct.  What a handler reads past the    *)
(* end of a short packet is not a part of it.                              *)
(***************************************************************************)
THEOREM HandlersGetNoByteTwice == Spec => []NoByteTwice
<1>1. ASSUME IInv PROVE NoByteTwice
  <2> SUFFICES ASSUME HandledInv PROVE NoByteTwice
    BY <1>1 DEF IInv, OrderInv, Ordered, NoByteTwice
  <2>1. /\ DOMAIN handled = 1..Len(handled)
        /\ \A i \in 1..Len(handled) : DOMAIN handled[i].own = Places(i)
    <3>1. handled \in Seq(Reads)
      BY <1>1 DEF IInv, TypeOK
    <3>2. \A i \in 1..Len(handled) : handled[i].own \in GivenBytes
      <4>1. \A i \in 1..Len(handled) : handled[i] \in Reads
        BY <3>1, ElementOfSeq
      <4>2. QED
        BY <4>1 DEF Reads
    <3>3. QED
      BY <3>1, <3>2, LenProperties DEF GivenBytes, Places
  <2>2. Stored \in Nat
    BY <1>1, WorkerFacts DEF IInv
  <2>3. QED
    BY <2>1, <2>2 DEF NoByteTwice, HandledInv, Whole, Old
<1>2. QED
  BY <1>1, InboxInductive, PTL

-----------------------------------------------------------------------------
(* While nothing is lost, the ring holds what follows the handled packets  *)

Undisturbed == upset \subseteq {"reloaded"}

RingExact ==
  /\ Stored = End(Done) + Width
  /\ \A k \in 1..Width : Nth(ring, k) = End(Done) + k

HeaderExact ==
  thread.at \in {"size", "handle", "complete"} =>
    /\ Done < Len(packets)
    /\ thread.len = packets[Done + 1].len /\ thread.struct = packets[Done + 1].struct

HandledExact ==
  /\ Len(handled) <= Len(packets)
  /\ \A i \in 1..Len(handled) :
       /\ Len(handled[i].own) = Lesser(packets[i].len, packets[i].struct)
       /\ Len(handled[i].own) + Len(handled[i].past) = packets[i].struct
       /\ \A k \in Places(i) : Whole(i, k) => handled[i].own[k] = End(i - 1) + k

Exact ==
  /\ HandledExact
  /\ thread.at = "clear" => handled = <<>>
  /\ thread.at # "clear" => RingExact /\ HeaderExact

ExactInv == Undisturbed => Exact

LEMMA DoneIs ==
    ASSUME TypeOK, HandledExact, thread.at = "complete" => handled # <<>>
    PROVE  /\ Done \in 0..Len(packets) /\ End(Done) \in Nat
           /\ Len(handled) \in Nat /\ Len(packets) \in Nat
<1>1. Len(handled) \in Nat /\ Len(packets) \in Nat /\ Len(handled) <= Len(packets)
  BY TypeFacts DEF HandledExact
<1>2. handled # <<>> => Len(handled) # 0
  BY EmptySeq DEF TypeOK
<1>3. Done \in 0..Len(packets)
  BY <1>1, <1>2 DEF Done
<1>4. QED
  BY <1>1, <1>3, TypeFacts

LEMMA Calm ==
    ASSUME TypeOK, OrderInv, ExactInv, [Next]_vars, Undisturbed'
    PROVE  Undisturbed /\ Exact /\ Ordered
<1>1. Undisturbed
  BY UpsetGrows DEF Undisturbed
<1>2. QED
  BY <1>1 DEF Undisturbed, ExactInv, OrderInv

LEMMA StreamSame ==
    ASSUME packets' = packets
    PROVE  Len(packets)' = Len(packets) /\ \A p : End(p)' = End(p)
BY EndSame, Zenon DEF End

(* Steps that leave the ring and what was handled as they are.             *)
LEMMA QuietExact ==
    ASSUME TypeOK, Exact, packets' = packets, ring' = ring, handled' = handled,
           thread' = thread, Stored' = Stored, Flight' = Flight
    PROVE  Exact'
<1>1. Width' = Width /\ InUse' = InUse /\ Done' = Done
  BY DEF Width, InUse, Done
<1>2. Len(packets)' = Len(packets) /\ \A p : End(p)' = End(p)
  BY StreamSame
<1>3. HandledExact'
  BY <1>2 DEF Exact, HandledExact, Places, Whole
<1>4. ASSUME thread.at # "clear" PROVE RingExact' /\ HeaderExact'
  <2>1. RingExact /\ HeaderExact
    BY <1>4 DEF Exact
  <2>2. RingExact'
    BY <1>1, <1>2, <2>1 DEF RingExact
  <2>3. HeaderExact'
    BY <1>1, <2>1 DEF HeaderExact
  <2>4. QED
    BY <2>2, <2>3
<1>5. QED
  BY <1>3, <1>4 DEF Exact

LEMMA StoresExact ==
    ASSUME TypeOK, WorkerInv, Ordered, Exact, Stores
    PROVE  Exact'
<1>1. /\ Stored' = Stored + 1 /\ Flight = 0 /\ Flight' = 1 /\ Stored \in Nat
      /\ Head(worker.data) = Stored + 1
  BY StoresGives, WorkerFacts
<1>2. handled' = handled /\ thread' = thread /\ packets' = packets
  BY DEF Stores, Held
<1>3. Len(packets)' = Len(packets) /\ \A p : End(p)' = End(p)
  BY <1>2, StreamSame
<1>4. HandledExact'
  BY <1>2, <1>3 DEF Exact, HandledExact, Places, Whole
<1>5. ASSUME thread.at # "clear" PROVE RingExact' /\ HeaderExact'
  <2>1. RingExact /\ HeaderExact /\ ThreadInv /\ HandledExact
    BY <1>5 DEF Exact, Ordered
  <2>2. Stored + 1 \in Bytes
    <3>1. worker.data \in Seq(1..MaxBytes) /\ worker.data # <<>>
      BY DEF TypeOK, Stores
    <3>2. Head(worker.data) \in 1..MaxBytes
      BY <3>1, HeadTailProperties
    <3>3. QED
      BY <1>1, <3>2, TypeFacts
  <2>3. /\ InUse' = InUse
        /\ \A k \in 1..InUse : Nth(ring', k) = Nth(ring, k)
        /\ Nth(ring', InUse + 1) = Stored + 1
    <3>1. ring' = [ring EXCEPT !.buf[ring.rear] = Stored + 1] /\ ring \in Rings
      BY <1>1 DEF Stores, TypeOK
    <3>2. (ring.rear + 1) % Size # ring.front
      BY DEF Stores, Stuck
    <3>3. QED
      BY <2>2, <3>1, <3>2, StoreByte DEF InUse
  <2>4. InUse \in Nat /\ Width = InUse /\ Width' = InUse + 1 /\ Done' = Done
    BY <1>1, <1>2, <2>3, WorkerFacts DEF Width, Done
  <2>5. End(Done) \in Nat
    BY <2>1, DoneIs DEF ThreadInv
  <2>6. \A k \in 1..(InUse + 1) : k \in 1..InUse \/ k = InUse + 1
    BY <2>4
  <2>7. \A k \in 1..(InUse + 1) : Nth(ring', k) = End(Done) + k
    BY <2>1, <2>3, <2>4, <2>5, <2>6 DEF RingExact
  <2>8. Stored + 1 = End(Done) + (InUse + 1)
    BY <2>1, <2>4, <2>5 DEF RingExact
  <2>9. RingExact'
    BY <1>1, <1>3, <2>4, <2>7, <2>8 DEF RingExact
  <2>10. HeaderExact'
    BY <1>2, <1>3, <2>1, <2>4 DEF HeaderExact
  <2>11. QED
    BY <2>9, <2>10
<1>6. QED
  BY <1>2, <1>4, <1>5 DEF Exact

LEMMA AdvancesExact ==
    ASSUME TypeOK, WorkerInv, Ordered, Exact, Advances
    PROVE  Exact'
<1>1. /\ Stored' = Stored /\ Flight = 1 /\ Flight' = 0 /\ Stored \in Nat
  BY AdvancesGives, WorkerFacts
<1>2. handled' = handled /\ thread' = thread /\ packets' = packets
  BY DEF Advances, Held
<1>3. Len(packets)' = Len(packets) /\ \A p : End(p)' = End(p)
  BY <1>2, StreamSame
<1>4. HandledExact'
  BY <1>2, <1>3 DEF Exact, HandledExact, Places, Whole
<1>5. ASSUME thread.at # "clear" PROVE RingExact' /\ HeaderExact'
  <2>1. RingExact /\ HeaderExact /\ RingInv
    BY <1>5 DEF Exact, Ordered
  <2>2. InUse \in Nat /\ InUse + 1 \in 0..(Size - 1) /\ Size \in Nat
    BY <1>1, <2>1, WorkerFacts DEF RingInv, Width
  <2>3. /\ InUse' = InUse + 1
        /\ \A k \in 1..Size : Nth(ring', k) = Nth(ring, k)
    <3>1. ring' = [ring EXCEPT !.rear = (ring.rear + 1) % Size] /\ ring \in Rings
      BY DEF Advances, TypeOK, Ordered
    <3>2. QED
      BY <2>2, <3>1, MoveRear DEF InUse
  <2>4. Width' = Width /\ Done' = Done /\ Width = InUse + 1
    BY <1>1, <1>2, <2>2, <2>3 DEF Width, Done
  <2>5. \A k \in 1..Width : Nth(ring', k) = Nth(ring, k)
    BY <2>2, <2>3, <2>4
  <2>6. RingExact'
    BY <1>1, <1>3, <2>1, <2>4, <2>5 DEF RingExact
  <2>7. HeaderExact'
    BY <1>2, <1>3, <2>1, <2>4 DEF HeaderExact
  <2>8. QED
    BY <2>6, <2>7
<1>6. QED
  BY <1>2, <1>4, <1>5 DEF Exact

(* Steps that only change what the thread is about to do.                  *)
LEMMA ThreadExact ==
    ASSUME TypeOK, Exact, packets' = packets, ring' = ring, handled' = handled,
           worker' = worker, received' = received, thread.at # "clear",
           thread'.at # "clear", Done' = Done, HeaderExact'
    PROVE  Exact'
<1>1. /\ Stored' = Stored /\ Flight' = Flight /\ InUse' = InUse /\ Width' = Width
  BY DEF Stored, Flight, InUse, Width
<1>2. Len(packets)' = Len(packets) /\ \A p : End(p)' = End(p)
  BY StreamSame
<1>3. HandledExact'
  BY <1>2 DEF Exact, HandledExact, Places, Whole
<1>4. RingExact
  BY DEF Exact
<1>5. RingExact'
  BY <1>1, <1>2, <1>4 DEF RingExact
<1>6. QED
  BY <1>3, <1>5 DEF Exact

LEMMA DequeueExact ==
    ASSUME TypeOK, WorkerInv, Ordered, Exact, DequeuePacket
    PROVE  Exact'
<1>1. /\ ring' = ring /\ handled' = handled /\ worker' = worker /\ received' = received
      /\ packets' = packets /\ thread.at = "packet"
  BY DEF DequeuePacket, stream
<1>2. \/ thread' = Loop("system")
      \/ /\ Len(Peek(ring, Header)) = Header
         /\ \E h \in Headers(Peek(ring, Header)) :
              thread' = [at |-> "size", rear |-> ring.rear, len |-> h.len, struct |-> h.struct]
  BY Zenon DEF DequeuePacket
<1>3. CASE thread' = Loop("system")
  <2>1. thread'.at = "system"
    BY <1>3 DEF Loop
  <2>2. Done' = Done /\ HeaderExact'
    BY <1>1, <2>1 DEF Done, HeaderExact
  <2>3. QED
    BY <1>1, <2>1, <2>2, ThreadExact
<1>4. CASE /\ Len(Peek(ring, Header)) = Header
           /\ \E h \in Headers(Peek(ring, Header)) :
                thread' = [at |-> "size", rear |-> ring.rear, len |-> h.len, struct |-> h.struct]
  <2>1. PICK h \in Headers(Peek(ring, Header)) :
           thread' = [at |-> "size", rear |-> ring.rear, len |-> h.len, struct |-> h.struct]
    BY <1>4
  <2>2. /\ thread'.at = "size" /\ thread'.len = h.len /\ thread'.struct = h.struct
        /\ Done' = Done
    BY <1>1, <2>1 DEF Done
  <2>3. RingExact /\ HandledExact
    BY <1>1 DEF Exact
  <2>4. Done \in 0..Len(packets) /\ End(Done) \in Nat /\ Len(packets) \in Nat
    BY <1>1, <2>3, DoneIs
  <2>5. /\ Header <= InUse /\ InUse <= Width /\ Header \in Nat \ {0}
        /\ InUse \in Nat /\ Width \in Nat
        /\ Peek(ring, Header) = [k \in 1..Header |-> Nth(ring, k)]
    <3>1. Header \in Nat \ {0} /\ ring \in Rings
      BY InboxConstants DEF TypeOK
    <3>2. Header <= InUse /\ Peek(ring, Header) = [k \in 1..Header |-> Nth(ring, k)]
      BY <1>4, <3>1, PeekBytes DEF InUse
    <3>3. QED
      BY <3>1, <3>2, WorkerFacts DEF Width
  <2>6. Done < Len(packets)
    <3>1. Stored <= received /\ received <= End(Len(packets)) /\ Stored \in Nat
          /\ received \in Nat /\ End(Len(packets)) \in Nat
      BY WorkerFacts, TypeFacts, SMTT(30) DEF TypeOK
    <3>2. End(Done) < End(Len(packets))
      BY <2>3, <2>4, <2>5, <3>1 DEF RingExact
    <3>3. QED
      BY <2>4, <3>1, <3>2
  <2>7. h = packets[Done + 1]
    <3>1. \A k \in 1..Header : Nth(ring, k) = End(Done) + k
      BY <2>3, <2>5 DEF RingExact
    <3>2. Peek(ring, Header) = [k \in 1..Header |-> End(Done) + k]
      BY <2>5, <3>1
    <3>3. Done \in 0..(Len(packets) - 1)
      BY <2>4, <2>6
    <3>4. Headers(Peek(ring, Header)) = {packets[Done + 1]}
      BY <3>2, <3>3, HeadersOwn DEF TypeOK
    <3>5. QED
      BY <3>4
  <2>8. HeaderExact'
    BY <1>1, <2>2, <2>6, <2>7 DEF HeaderExact
  <2>9. QED
    BY <1>1, <2>2, <2>8, ThreadExact
<1>5. QED
  BY <1>2, <1>3, <1>4

LEMMA SizeExact ==
    ASSUME TypeOK, WorkerInv, Ordered, Exact, GetPacketData
    PROVE  Exact'
<1>1. /\ ring' = ring /\ handled' = handled /\ worker' = worker /\ received' = received
      /\ packets' = packets /\ thread.at = "size"
  BY DEF GetPacketData, stream
<1>2. thread' = Loop("system") \/ thread' = [thread EXCEPT !.at = "handle"]
  BY DEF GetPacketData
<1>3. CASE thread' = Loop("system")
  <2>1. thread'.at = "system"
    BY <1>3 DEF Loop
  <2>2. Done' = Done /\ HeaderExact'
    BY <1>1, <2>1 DEF Done, HeaderExact
  <2>3. QED
    BY <1>1, <2>1, <2>2, ThreadExact
<1>4. CASE thread' = [thread EXCEPT !.at = "handle"]
  <2>1. thread'.at = "handle" /\ thread'.len = thread.len /\ thread'.struct = thread.struct
    BY <1>4 DEF TypeOK
  <2>2. Done' = Done
    BY <1>1, <2>1 DEF Done
  <2>3. HeaderExact
    BY <1>1 DEF Exact
  <2>4. HeaderExact'
    BY <1>1, <2>1, <2>2, <2>3 DEF HeaderExact
  <2>5. QED
    BY <1>1, <2>1, <2>2, <2>4, ThreadExact
<1>5. QED
  BY <1>2, <1>3, <1>4

LEMMA ProcessExact ==
    ASSUME TypeOK, WorkerInv, Ordered, Exact, ProcessPacket
    PROVE  Exact'
<1>1. /\ ring' = ring /\ worker' = worker /\ received' = received
      /\ packets' = packets /\ thread.at = "handle"
  BY DEF ProcessPacket, stream
<1>2. CASE thread.struct = None
  <2>1. handled' = handled /\ thread'.at = "system"
    BY <1>2 DEF ProcessPacket, Loop
  <2>2. Done' = Done /\ HeaderExact'
    BY <1>1, <2>1 DEF Done, HeaderExact
  <2>3. QED
    BY <1>1, <2>1, <2>2, ThreadExact
<1>3. CASE thread.struct # None
  <2> DEFINE F == Read.own
             n == Len(handled)
  <2>1. ThreadInv /\ HandledExact /\ RingExact /\ HeaderExact
    BY <1>1 DEF Ordered, Exact
  <2>2. thread.len \in 0..InUse /\ InUse \in Nat /\ Width \in Nat /\ InUse <= Width
    BY <1>1, <2>1, WorkerFacts, InboxConstants, SMTT(30) DEF ThreadInv, TypeOK, Width
  <2>3. /\ F \in GivenBytes /\ Len(F) \in 0..thread.len /\ Read \in Reads
        /\ Len(F) = Lesser(thread.len, thread.struct)
        /\ \A k \in 1..Len(F) : F[k] \in {Nth(ring, k), Beyond}
    <3>1. PICK m \in 0..thread.len : m = Lesser(thread.len, thread.struct)
      BY ReadIs
    <3>2. m \in 0..InUse /\ F = FromFront(m) /\ Read \in Reads
      BY <2>2, <3>1, ReadIs
    <3>3. QED
      BY <3>1, <3>2, FromFrontIs
  <2>4. /\ handled' = Append(handled, Read) /\ thread' = [thread EXCEPT !.at = "complete"]
    BY <1>3 DEF ProcessPacket
  <2> HIDE DEF F
  <2>5. /\ n \in Nat /\ Len(handled') = n + 1 /\ handled'[n + 1].own = F
        /\ handled'[n + 1] = Read /\ \A i \in 1..n : handled'[i] = handled[i]
    <3>1. handled \in Seq(Reads) /\ n \in Nat
      BY TypeFacts DEF TypeOK
    <3>2. handled' = Append(handled, Read) /\ Read \in Reads
      BY <2>3, <2>4
    <3>3. /\ Len(handled') = n + 1 /\ handled'[n + 1] = Read
          /\ \A i \in 1..n : handled'[i] = handled[i]
          /\ handled' # <<>>
      BY <3>1, <3>2, AppendProperties
    <3>4. QED
      BY <3>1, <3>3 DEF F
  <2>6. thread'.at = "complete" /\ thread'.len = thread.len /\ thread'.struct = thread.struct
    BY <2>4 DEF TypeOK
  <2> HIDE DEF n
  <2>7. Done = n /\ Done' = n /\ Stored' = Stored /\ Width' = Width
    <3>1. Done' = n
      BY <2>5, <2>6 DEF Done
    <3>2. QED
      BY <1>1, <3>1 DEF Stored, Flight, InUse, Width, Done, n
  <2>8. Len(packets)' = Len(packets) /\ \A p : End(p)' = End(p)
    BY <1>1, StreamSame
  <2>9. RingExact'
    BY <1>1, <2>1, <2>7, <2>8 DEF RingExact
  <2>10. /\ n < Len(packets)
         /\ thread.len = packets[n + 1].len /\ thread.struct = packets[n + 1].struct
    BY <1>1, <2>1, <2>7 DEF HeaderExact
  <2>11. HeaderExact'
    BY <1>1, <2>1, <2>6, <2>7 DEF HeaderExact
  <2>12. HandledExact'
    <3>1. n + 1 <= Len(packets)
      BY <2>5, <2>10, TypeFacts
    <3>2. ASSUME NEW i \in 1..(n + 1)
          PROVE  /\ Len(handled'[i].own) = Lesser(packets[i].len, packets[i].struct)
                 /\ Len(handled'[i].own) + Len(handled'[i].past) = packets[i].struct
                 /\ \A k \in 1..Len(handled'[i].own) :
                      handled'[i].own[k] # Beyond => handled'[i].own[k] = End(i - 1) + k
      <4>1. CASE i \in 1..n
        <5>1. handled'[i] = handled[i]
          BY <2>5, <4>1
        <5>2. QED
          BY <2>1, <4>1, <5>1 DEF HandledExact, Places, Whole, n
      <4>2. CASE i = n + 1
        <5>1. handled'[i].own = F /\ handled'[i] = Read /\ i - 1 = n
          BY <2>5, <4>2
        <5>2. \A k \in 1..thread.len : Nth(ring, k) = End(n) + k
          BY <2>1, <2>2, <2>7 DEF RingExact
        <5>3. \A k \in 1..Len(F) : F[k] # Beyond => F[k] = End(n) + k
          BY <2>2, <2>3, <5>2
        <5>4. Len(F) = Lesser(packets[i].len, packets[i].struct)
          BY <2>3, <2>10, <4>2
        <5>5. Len(F) + Len(handled'[i].past) = packets[i].struct
          BY <2>10, <4>2, <5>1, ReadIs
        <5>6. QED
          BY <2>3, <5>1, <5>3, <5>4, <5>5
      <4>3. i \in 1..n \/ i = n + 1
        BY <2>5
      <4>4. QED
        BY <4>1, <4>2, <4>3, Zenon
    <3>3. QED
      BY <1>1, <2>5, <2>8, <3>1, <3>2 DEF HandledExact, Places, Whole
  <2>13. QED
    BY <2>6, <2>9, <2>11, <2>12 DEF Exact
<1>4. QED
  BY <1>2, <1>3

LEMMA CompleteExact ==
    ASSUME TypeOK, WorkerInv, Ordered, Exact, CompleteProcess
    PROVE  Exact'
<1> DEFINE n == thread.len
           m == Len(handled)
<1>1. /\ ring' = MoveFront(ring, n) /\ worker' = worker /\ received' = received
      /\ handled' = handled /\ thread.at = "complete" /\ thread'.at = "system"
      /\ packets' = packets
  BY DEF CompleteProcess, Loop, stream
<1>2. ThreadInv /\ HandledExact /\ RingExact /\ HeaderExact /\ RingInv
  BY <1>1 DEF Ordered, Exact
<1>3. /\ n \in 0..InUse /\ n \in Nat /\ InUse \in 0..(Size - 1) /\ Size \in Nat
      /\ ring \in Rings /\ m \in Nat /\ handled # <<>>
  BY <1>1, <1>2, WorkerFacts, TypeFacts, InboxConstants DEF ThreadInv, TypeOK
<1>4. m \in Nat \ {0}
  BY <1>3, EmptySeq DEF TypeOK
<1>5. /\ Done = m - 1 /\ Done' = m /\ m - 1 < Len(packets) /\ n = packets[m].len
  <2>1. Done = m - 1 /\ Done' = m
    BY <1>1 DEF Done
  <2>2. (m - 1) + 1 = m
    BY <1>4
  <2>3. QED
    BY <1>1, <1>2, <2>1, <2>2 DEF HeaderExact
<1> HIDE DEF n, m
<1>6. End(m) = End(m - 1) + n /\ End(m - 1) \in Nat /\ End(m) \in Nat
  <2>1. m \in 1..Len(packets) /\ m - 1 \in 0..Len(packets) /\ m \in 0..Len(packets)
    BY <1>4, <1>5, TypeFacts
  <2>2. QED
    BY <1>5, <2>1, EndIs, TypeFacts DEF TypeOK
<1>7. /\ InUse' = InUse - n
      /\ \A k \in 1..(Size - n) : Nth(ring', k) = Nth(ring, n + k)
  BY <1>1, <1>3, MoveFrontBytes DEF InUse
<1>8. /\ Stored' = Stored /\ Flight' = Flight /\ Flight \in 0..1
      /\ Width = InUse + Flight /\ Width' = Width - n /\ Width <= Size - 1
  <2>1. Stored' = Stored /\ Flight' = Flight
    BY <1>1 DEF Stored, Flight
  <2>2. QED
    BY <1>2, <1>3, <1>7, <2>1, WorkerFacts DEF Width, RingInv
<1>9. Len(packets)' = Len(packets) /\ \A p : End(p)' = End(p)
  BY <1>1, StreamSame
<1>10. RingExact'
  <2>1. Stored = End(m) + Width'
    BY <1>2, <1>3, <1>5, <1>6, <1>8, SMTT(30) DEF RingExact
  <2>2. ASSUME NEW k \in 1..Width' PROVE Nth(ring', k) = End(m) + k
    <3>1. k \in 1..(Size - n) /\ n + k \in 1..Width /\ k \in Nat
      BY <1>3, <1>8
    <3>2. Nth(ring, n + k) = End(m - 1) + (n + k)
      BY <1>2, <1>5, <3>1 DEF RingExact
    <3>3. QED
      BY <1>3, <1>6, <1>7, <3>1, <3>2
  <2>3. QED
    BY <1>5, <1>8, <1>9, <2>1, <2>2 DEF RingExact
<1>11. HandledExact'
  BY <1>1, <1>2, <1>9 DEF HandledExact, Places, Whole
<1>12. HeaderExact'
  BY <1>1 DEF HeaderExact
<1>13. QED
  BY <1>1, <1>10, <1>11, <1>12 DEF Exact

LEMMA PassesExact ==
    ASSUME TypeOK, Exact, PassesBy
    PROVE  Exact'
<1>1. /\ ring' = ring /\ handled' = handled /\ worker' = worker /\ received' = received
      /\ packets' = packets /\ thread.at = "system" /\ thread'.at = "packet"
  BY DEF PassesBy, Rest, Loop
<1>2. Done' = Done /\ HeaderExact'
  BY <1>1 DEF Done, HeaderExact
<1>3. QED
  BY <1>1, <1>2, ThreadExact

LEMMA UnclearedMeansNone ==
    ASSUME TypeOK, upset' = Hit, Undisturbed'
    PROVE  received = 0
<1>1. "cleared" \notin Hit
  BY DEF Undisturbed
<1>2. received > 0 => "cleared" \in Hit
  BY DEF Hit
<1>3. received \in Nat
  BY TypeFacts
<1>4. QED
  BY <1>1, <1>2, <1>3

(* The ring is cleared before anything was received.                       *)
LEMMA ClearsFrontExact ==
    ASSUME TypeOK, WorkerInv, Exact, ClearsFront, Undisturbed'
    PROVE  Exact'
<1>1. /\ handled' = handled /\ packets' = packets /\ received = 0
      /\ thread.at = "system" /\ thread'.at = "clear"
  <2>1. received = 0
    BY UnclearedMeansNone DEF ClearsFront
  <2>2. QED
    BY <2>1 DEF ClearsFront, Rest, Loop
<1>2. HandledExact /\ RingExact
  BY <1>1 DEF Exact
<1>3. /\ Len(packets)' = Len(packets) /\ \A p : End(p)' = End(p)
      /\ Len(handled) \in Nat /\ Len(packets) \in Nat
  BY <1>1, StreamSame, TypeFacts
<1>4. HandledExact'
  BY <1>1, <1>2, <1>3 DEF HandledExact, Places, Whole
<1>5. Done = Len(handled) /\ Done \in 0..Len(packets) /\ End(Done) \in Nat
  BY <1>1, <1>2, DoneIs DEF Done
<1>6. End(Done) = 0
  <2>1. Stored = 0 /\ Width \in Nat
    BY <1>1, WorkerFacts DEF Width
  <2>2. QED
    BY <1>2, <1>5, <2>1 DEF RingExact
<1>7. Done = 0
  <2>1. 0 < Done => End(0) + Header <= End(Done)
    <3>1. 0 \in 0..Len(packets)
      BY <1>3
    <3>2. QED
      BY <1>5, <3>1, EndGrows DEF TypeOK
  <2>2. End(0) = 0 /\ Header \in Nat \ {0}
    BY EndIs, InboxConstants DEF TypeOK
  <2>3. QED
    BY <1>5, <1>6, <2>1, <2>2
<1>8. handled = <<>>
  BY <1>5, <1>7, EmptySeq DEF TypeOK
<1>9. QED
  BY <1>1, <1>4, <1>8 DEF Exact

LEMMA ClearsRearExact ==
    ASSUME TypeOK, WorkerInv, Exact, ClearsRear, Undisturbed'
    PROVE  Exact'
<1>1. /\ handled' = handled /\ packets' = packets /\ received = 0 /\ received' = 0
      /\ thread.at = "clear" /\ thread'.at = "packet" /\ worker' = worker
  <2>1. received = 0
    BY UnclearedMeansNone DEF ClearsRear
  <2>2. QED
    BY <2>1 DEF ClearsRear, Rest, Loop
<1>2. HandledExact /\ handled = <<>> /\ Len(handled) = 0
  BY <1>1 DEF Exact
<1>3. Len(packets)' = Len(packets) /\ \A p : End(p)' = End(p)
  BY <1>1, StreamSame
<1>4. HandledExact'
  BY <1>1, <1>2, <1>3 DEF HandledExact, Places, Whole
<1>5. Stored' = 0 /\ Width' = 0 /\ Done' = 0
  <2>1. Stored = 0 /\ Stored' = Stored
    BY <1>1, WorkerFacts DEF Stored
  <2>2. Width' = 0
    BY ClearsRearGives DEF Undisturbed
  <2>3. QED
    BY <1>1, <1>2, <2>1, <2>2 DEF Done
<1>6. End(0) = 0
  BY EndIs DEF TypeOK
<1>7. RingExact'
  BY <1>3, <1>5, <1>6 DEF RingExact
<1>8. HeaderExact'
  BY <1>1 DEF HeaderExact
<1>9. QED
  BY <1>1, <1>4, <1>7, <1>8 DEF Exact

LEMMA ExactStep == IInv /\ ExactInv /\ [Next]_vars => ExactInv'
<1> SUFFICES ASSUME TypeOK, WorkerInv, OrderInv, ExactInv, [Next]_vars, Undisturbed'
             PROVE  Exact'
  BY DEF ExactInv, IInv
<1>1. Exact /\ Ordered
  BY Calm
<1>2. CASE Recv
  <2>1. Stored' = Stored /\ Flight' = Flight
    BY <1>2, RecvGives
  <2>2. ring' = ring /\ handled' = handled /\ thread' = thread /\ packets' = packets
    BY <1>2 DEF Recv, stream
  <2>3. QED
    BY <1>1, <2>1, <2>2, QuietExact
<1>3. CASE Drops
  BY <1>3 DEF Drops, Undisturbed
<1>4. CASE Loads
  <2>1. Stored' = Stored /\ Flight' = Flight
    BY <1>4, LoadsGives
  <2>2. ring' = ring /\ handled' = handled /\ thread' = thread /\ packets' = packets
    BY <1>4 DEF Loads, Held
  <2>3. QED
    BY <1>1, <2>1, <2>2, QuietExact
<1>5. CASE EnqueuePacket
  <2>1. Stored' = Stored /\ Flight' = Flight
    BY <1>5, PushGives
  <2>2. ring' = ring /\ handled' = handled /\ thread' = thread /\ packets' = packets
    BY <1>5 DEF EnqueuePacket, stream
  <2>3. QED
    BY <1>1, <2>1, <2>2, QuietExact
<1>6. CASE UNCHANGED vars
  <2>1. Stored' = Stored /\ Flight' = Flight
    BY <1>6 DEF vars, Stored, Flight
  <2>2. ring' = ring /\ handled' = handled /\ thread' = thread /\ packets' = packets
    BY <1>6 DEF vars, stream
  <2>3. QED
    BY <1>1, <2>1, <2>2, QuietExact
<1>7. QED
  BY <1>1, <1>2, <1>3, <1>4, <1>5, <1>6, Steps, StoresExact, AdvancesExact, DequeueExact,
     SizeExact, ProcessExact, CompleteExact, PassesExact, ClearsFrontExact,
     ClearsRearExact, Zenon

LEMMA ExactInit == Init => ExactInv
<1> SUFFICES ASSUME Init PROVE Exact
  BY DEF ExactInv
<1>1. TypeOK
  BY TypeInit
<1>2. End(0) = 0 /\ Len(packets) \in Nat
  BY <1>1, EndIs, TypeFacts DEF TypeOK
<1>3. HandledExact
  <2>1. Len(handled) = 0
    BY InitFacts
  <2>2. Len(handled) <= Len(packets) /\ \A i \in 1..Len(handled) : FALSE
    BY <1>2, <2>1
  <2>3. QED
    BY <2>2, Zenon DEF HandledExact
<1>4. QED
  BY <1>2, <1>3, InitFacts DEF Exact, RingExact, HeaderExact

(***************************************************************************)
(* Whatever the sizes, and wherever the receives cut the stream, the i-th  *)
(* handler reads the client's i-th packet, as much of it as its struct     *)
(* holds, but for the part that lies at the beginning of the array, while  *)
(* nothing was dropped or cleared (packet_manager.cpp:63, user.cpp:51).    *)
(***************************************************************************)
THEOREM PacketsInOrder == Spec => []HandledInOrder
<1>1. ASSUME IInv, ExactInv PROVE HandledInOrder
  <2> SUFFICES ASSUME HandledExact PROVE HandledInOrder
    BY <1>1 DEF ExactInv, Exact, Undisturbed, HandledInOrder
  <2>1. DOMAIN handled = 1..Len(handled) /\ Len(handled) \in Nat
    BY <1>1, TypeFacts DEF IInv
  <2>2. ASSUME NEW i \in 1..Len(handled)
        PROVE  /\ DOMAIN handled[i].own = Places(i)
               /\ \A k \in Places(i) : Start(i) + k - 1 = End(i - 1) + k
    <3>1. handled[i].own \in GivenBytes
      <4>1. handled[i] \in Reads
        BY <1>1, ElementOfSeq DEF IInv, TypeOK
      <4>2. QED
        BY <4>1 DEF Reads
    <3>2. i - 1 \in 0..Len(packets)
      BY <1>1, <2>1, TypeFacts DEF IInv, HandledExact
    <3>3. End(i - 1) \in Nat
      BY <1>1, <3>2, TypeFacts DEF IInv
    <3>4. DOMAIN handled[i].own = Places(i)
      BY <3>1, LenProperties DEF GivenBytes, Places
    <3>5. QED
      BY <3>3, <3>4 DEF Start, Places
  <2>3. ASSUME NEW i \in 1..Len(handled)
        PROVE  LET own == handled[i].own IN
                 /\ Len(own) = Lesser(packets[i].len, packets[i].struct)
                 /\ Len(own) + Len(handled[i].past) = packets[i].struct
                 /\ \A k \in DOMAIN own : own[k] \in {Start(i) + k - 1, Beyond}
    <3>1. \A k \in Places(i) : Whole(i, k) => handled[i].own[k] = End(i - 1) + k
      BY DEF HandledExact
    <3>2. \A k \in Places(i) : handled[i].own[k] \in {Start(i) + k - 1, Beyond}
      BY <2>2, <3>1 DEF Whole
    <3>3. QED
      BY <2>2, <3>2, Zenon DEF HandledExact
  <2>4. QED
    BY <2>1, <2>3 DEF HandledInOrder, HandledExact
<1>2. Init => ExactInv
  BY ExactInit
<1>3. IInv /\ ExactInv /\ [Next]_vars => ExactInv'
  BY ExactStep
<1>4. Spec => []IInv
  BY InboxInductive
<1>5. QED
  BY <1>1, <1>2, <1>3, <1>4, PTL DEF Spec

-----------------------------------------------------------------------------
(* While packets come whole, there is an index for each of them            *)

Busy    == IF worker.at # "recv" THEN 1 ELSE 0
Taken   == IF thread.at \in {"size", "handle", "complete"} THEN 1 ELSE 0
Pending == indices + Busy + Taken

(* The number of the packet that the last pending index is for.            *)
Promised == Done + Pending

AllKnown == \A p \in DOMAIN packets : packets[p].struct # None
Orderly  == whole /\ upset = {} /\ AllKnown

(* The thread has seen the rear_ of a moment when the packet was there.    *)
SizeSeen == thread.at = "size" =>
              \E u \in thread.len..InUse : thread.rear = (ring.front + u) % Size

(* The bytes received end with the packet of the last pending index, and   *)
(* those of all but that one are behind rear_.                             *)
Counted ==
  /\ Promised <= Len(packets) /\ received = End(Promised)
  /\ Busy = 1 => Stored - Flight >= End(Promised - 1)
  /\ SizeSeen

CountInv == Orderly /\ thread.at # "clear" => Counted

LEMMA PendingIs ==
    ASSUME TypeOK
    PROVE  /\ indices \in Nat /\ Busy \in 0..1 /\ Taken \in 0..1 /\ Pending \in Nat
           /\ Pending = indices + Busy + Taken
<1>1. indices \in Nat
  BY DEF TypeOK
<1>2. QED
  BY <1>1 DEF Pending, Busy, Taken

(* Steps that neither bring a packet nor lose an index.                    *)
LEMMA CountKept ==
    ASSUME Counted, packets' = packets, received' = received,
           Promised' = Promised,
           Busy' = 1 => Busy = 1 /\ Stored' - Flight' >= Stored - Flight,
           Stored \in Int, Flight \in Int, Stored' \in Int, Flight' \in Int,
           Busy = 1 => End(Promised - 1) \in Int, SizeSeen'
    PROVE  Counted'
<1>1. Len(packets)' = Len(packets) /\ \A p : End(p)' = End(p)
  BY StreamSame
<1>2. Promised' <= Len(packets)' /\ received' = End(Promised)'
  BY <1>1, Zenon DEF Counted, End
<1>3. Busy' = 1 => Stored' - Flight' >= End(Promised - 1)'
  <2> SUFFICES ASSUME Busy' = 1 PROVE Stored' - Flight' >= End(Promised - 1)'
    OBVIOUS
  <2>1. /\ Stored' - Flight' >= Stored - Flight /\ Stored - Flight >= End(Promised - 1)
        /\ End(Promised - 1) \in Int
    BY DEF Counted
  <2>2. Stored' - Flight' >= End(Promised - 1)
    <3> DEFINE a == Stored' - Flight'
               b == Stored - Flight
               e == End(Promised - 1)
    <3>1. a \in Int /\ b \in Int /\ e \in Int
      BY <2>1
    <3> HIDE DEF a, b, e
    <3>2. a >= b /\ b >= e
      BY <2>1, Zenon DEF a, b, e
    <3>3. a >= e
      BY <3>1, <3>2
    <3>4. QED
      BY <3>3, Zenon DEF a, e
  <2>3. End(Promised - 1)' = End(Promised - 1)
    BY EndSame, Zenon DEF End
  <2>4. QED
    BY <2>2, <2>3, Zenon
<1>4. QED
  BY <1>2, <1>3, Zenon DEF Counted

(* What the rest of the invariants say of the counters.                    *)
LEMMA CountFacts ==
    ASSUME TypeOK, WorkerInv, Ordered, Exact, Counted, thread.at # "clear"
    PROVE  /\ Done \in Nat /\ Pending \in Nat /\ Promised = Done + Pending
           /\ Promised \in 0..Len(packets) /\ Len(packets) \in Nat
           /\ Stored \in Int /\ Flight \in Int
           /\ Busy = 1 => Promised - 1 \in 0..Len(packets) /\ End(Promised - 1) \in Int
<1>1. Done \in 0..Len(packets) /\ Len(packets) \in Nat
  BY DoneIs DEF Exact, Ordered, ThreadInv
<1>2. Pending \in Nat /\ (Busy = 1 => Pending >= 1) /\ Busy \in 0..1
  BY PendingIs
<1>3. Promised = Done + Pending /\ Promised <= Len(packets)
  BY DEF Counted, Promised
<1>4. Busy = 1 => Promised - 1 \in 0..Len(packets)
  BY <1>1, <1>2, <1>3
<1>5. Stored \in Int /\ Flight \in Int
  BY WorkerFacts
<1>6. Busy = 1 => End(Promised - 1) \in Int
  BY <1>4, TypeFacts
<1>7. QED
  BY <1>1, <1>2, <1>3, <1>4, <1>5, <1>6

(* The packet of an index that is taken lies whole in the ring.            *)
LEMMA TakenIsWhole ==
    ASSUME TypeOK, WorkerInv, Ordered, Exact, Counted,
           thread.at = "packet", indices > 0
    PROVE  Done < Len(packets) /\ InUse >= packets[Done + 1].len
<1>1. /\ Done \in Nat /\ Pending \in Nat /\ Promised \in 0..Len(packets)
      /\ Promised = Done + Pending /\ Len(packets) \in Nat
  BY CountFacts
<1>2. RingExact
  BY DEF Exact
<1>3. Pending >= 1 + Busy /\ Busy \in 0..1 /\ Done + 1 \in 1..Len(packets)
  <2>1. Pending >= 1 + Busy /\ Busy \in 0..1
    BY PendingIs
  <2>2. QED
    BY <1>1, <2>1
<1>4. End(Done + 1) = End(Done) + packets[Done + 1].len
  <2>1. (Done + 1) - 1 = Done
    BY <1>1
  <2>2. End(Done + 1) = End((Done + 1) - 1) + packets[Done + 1].len
    BY <1>3, EndIs DEF TypeOK
  <2>3. QED
    BY <2>1, <2>2
<1>5. \A q \in 0..Len(packets) : End(q) \in Nat /\ (Done + 1 <= q => End(Done + 1) <= End(q))
  <2>1. Done + 1 \in 0..Len(packets)
    BY <1>3
  <2>2. QED
    BY <2>1, EndGrows DEF TypeOK
<1>6. packets[Done + 1].len \in Nat
  <2>1. packets[Done + 1] \in PacketRecs
    BY <1>3, ElementOfSeq DEF TypeOK
  <2>2. QED
    BY <2>1, InboxConstants DEF PacketRecs
<1>7. /\ Stored \in Nat /\ Flight \in 0..1 /\ InUse \in Nat /\ received \in Nat
      /\ received = Stored + Len(worker.data) /\ Stored = End(Done) + (InUse + Flight)
  BY <1>2, WorkerFacts DEF RingExact, Width
<1>8. Stored - Flight >= End(Done + 1)
  <2>1. CASE Busy = 1
    <3>1. Promised - 1 \in 0..Len(packets) /\ Done + 1 <= Promised - 1
      BY <1>1, <1>3, <2>1
    <3>2. End(Promised - 1) \in Nat /\ End(Done + 1) <= End(Promised - 1)
      BY <1>5, <3>1
    <3>3. Stored - Flight >= End(Promised - 1)
      BY <2>1 DEF Counted
    <3>4. End(Done + 1) \in Nat
      BY <1>3, <1>5
    <3>5. QED
      BY <1>7, <3>2, <3>3, <3>4
  <2>2. CASE Busy = 0
    <3>1. worker.at = "recv"
      BY <2>2 DEF Busy
    <3>2. worker.data = <<>> /\ Len(worker.data) = 0 /\ Flight = 0
      BY <3>1 DEF WorkerInv, Flight
    <3>3. Stored = received
      BY <1>7, <3>2
    <3>4. Done + 1 <= Promised
      BY <1>1, <1>3
    <3>5. received = End(Promised)
      BY DEF Counted
    <3>6. End(Done + 1) <= received
      BY <1>1, <1>5, <3>4, <3>5
    <3>7. QED
      BY <1>7, <3>2, <3>3, <3>6
  <2>3. QED
    BY <1>3, <2>1, <2>2
<1>9. End(Done) \in Nat /\ Done < Len(packets)
  <2>1. Done \in 0..Len(packets)
    BY <1>1, <1>3
  <2>2. QED
    BY <1>1, <1>3, <1>5, <2>1
<1>10. PICK e \in Nat, l \in Nat : e = End(Done) /\ l = packets[Done + 1].len
  BY <1>6, <1>9
<1>11. Stored = e + (InUse + Flight) /\ Stored - Flight >= e + l
  BY <1>4, <1>7, <1>8, <1>10, Zenon
<1>12. InUse >= l
  BY <1>7, <1>11
<1>13. QED
  BY <1>9, <1>10, <1>12, Zenon

LEMMA RecvCounts ==
    ASSUME TypeOK, WorkerInv, Ordered, Exact, Counted, thread.at # "clear", whole, Recv
    PROVE  Counted'
<1>1. PICK n \in 1..MaxRecv :
         /\ \E p \in DOMAIN packets : received + 1 = Start(p) /\ received + n = End(p)
         /\ received' = received + n
  BY DEF Recv
<1>2. PICK p \in DOMAIN packets : received + 1 = Start(p) /\ received + n = End(p)
  BY <1>1
<1>3. /\ packets' = packets /\ ring' = ring /\ thread' = thread /\ indices' = indices
      /\ handled' = handled /\ worker.at = "recv" /\ worker'.at = "store"
      /\ Stored' = Stored /\ Flight' = Flight
  BY RecvGives DEF Recv, stream
<1>4. Promised \in 0..Len(packets) /\ Len(packets) \in Nat /\ p \in 1..Len(packets)
  BY <1>2, CountFacts, TypeFacts
<1>5. received = End(Promised) /\ received = End(p - 1) /\ received \in Nat
  <2>1. p - 1 \in 0..Len(packets)
    BY <1>4
  <2>2. End(p - 1) \in Nat /\ received \in Nat
    BY <2>1, TypeFacts
  <2>3. received = End(Promised)
    BY DEF Counted
  <2>4. received + 1 = End(p - 1) + 1
    BY <1>2 DEF Start
  <2>5. QED
    BY <2>2, <2>3, <2>4
<1>6. p - 1 = Promised
  <2>1. p - 1 \in 0..Len(packets) /\ Header \in Nat \ {0}
    BY <1>4, TypeFacts, SMTT(30)
  <2>2. \A a, b \in 0..Len(packets) : a < b => End(a) + Header <= End(b)
    BY EndGrows DEF TypeOK
  <2>3. ~(p - 1 < Promised) /\ ~(Promised < p - 1)
    <3>1. p - 1 < Promised => received + Header <= received
      BY <1>4, <1>5, <2>1, <2>2, ZenonT(30)
    <3>2. Promised < p - 1 => received + Header <= received
      BY <1>4, <1>5, <2>1, <2>2, ZenonT(30)
    <3>3. QED
      BY <1>5, <2>1, <3>1, <3>2, SMTT(30)
  <2>4. QED
    BY <1>4, <2>1, <2>3, SMTT(30)
<1>7. Busy = 0 /\ Busy' = 1 /\ Taken' = Taken /\ Done' = Done
  BY <1>3 DEF Busy, Taken, Done
<1>8. Promised' = Promised + 1
  <2>1. /\ indices \in Nat /\ Taken \in 0..1 /\ Done \in Nat /\ Promised = Done + Pending
        /\ Pending = indices + Busy + Taken
    BY PendingIs, CountFacts
  <2>2. Pending' = indices + 1 + Taken /\ Promised' = Done + Pending'
    BY <1>3, <1>7 DEF Pending, Promised
  <2>3. QED
    BY <1>7, <2>1, <2>2
<1>9. Len(packets)' = Len(packets) /\ \A q : End(q)' = End(q)
  BY <1>3, StreamSame
<1>10. Promised' <= Len(packets)' /\ received' = End(Promised)'
  <2>1. Promised' = p
    BY <1>4, <1>6, <1>8
  <2>2. End(Promised)' = End(p)
    BY <1>3, <2>1, EndSame, Zenon DEF End
  <2>3. QED
    BY <1>1, <1>2, <1>4, <1>9, <2>1, <2>2
<1>11. Stored' - Flight' >= End(Promised - 1)'
  <2>1. Promised' - 1 = Promised
    BY <1>4, <1>8
  <2>2. End(Promised - 1)' = received
    BY <1>3, <1>5, <2>1, EndSame, Zenon DEF End
  <2>3. worker.data = <<>> /\ Len(worker.data) = 0 /\ Flight = 0
    BY <1>3 DEF WorkerInv, Flight
  <2>4. Stored = received
    BY <1>5, <2>3, WorkerFacts
  <2>5. Stored' - Flight' = received
    BY <1>3, <1>5, <2>3, <2>4
  <2>6. QED
    BY <1>5, <2>2, <2>5
<1>12. SizeSeen'
  BY <1>3 DEF Counted, SizeSeen, InUse
<1>13. QED
  BY <1>10, <1>11, <1>12, Zenon DEF Counted

(* The worker's other steps leave the number of its packets alone.         *)
LEMMA WorkerCounts ==
    ASSUME TypeOK, WorkerInv, Ordered, Exact, Counted, thread.at # "clear",
           Stores \/ Loads \/ Advances \/ EnqueuePacket
    PROVE  Counted'
<1>1. /\ packets' = packets /\ received' = received /\ thread' = thread /\ handled' = handled
  BY DEF Stores, Loads, Advances, EnqueuePacket, Held, stream
<1>2. ring' = ring \/ Stores \/ Advances
  BY DEF Loads, EnqueuePacket
<1>3. InUse' \in Int /\ InUse' >= InUse /\ InUse \in Int /\ ring'.front = ring.front
  <2>1. InUse \in Nat /\ ring \in Rings
    BY WorkerFacts
  <2>2. CASE ring' = ring
    BY <2>1, <2>2 DEF InUse
  <2>3. CASE Stores
    <3>1. Stored + 1 \in Bytes
      <4>1. worker.data \in Seq(1..MaxBytes) /\ worker.data # <<>>
        BY <2>3 DEF TypeOK, Stores
      <4>2. Head(worker.data) \in 1..MaxBytes
        BY <4>1, HeadTailProperties
      <4>3. QED
        BY <2>3, <4>2, StoresGives, TypeFacts
    <3>2. ring' = [ring EXCEPT !.buf[ring.rear] = Stored + 1] /\ (ring.rear + 1) % Size # ring.front
      BY <2>3, StoresGives DEF Stores, Stuck
    <3>3. InUse' = InUse
      BY <2>1, <3>1, <3>2, StoreByte DEF InUse
    <3>4. QED
      BY <2>1, <3>2, <3>3 DEF Rings
  <2>4. CASE Advances
    <3>1. InUse + 1 \in 0..(Size - 1)
      <4>1. RingInv /\ Flight = 1
        BY <2>4, AdvancesGives DEF Ordered
      <4>2. QED
        BY <4>1, WorkerFacts DEF RingInv, Width
    <3>2. ring' = [ring EXCEPT !.rear = (ring.rear + 1) % Size]
      BY <2>4 DEF Advances, Ordered
    <3>3. InUse' = InUse + 1
      BY <2>1, <3>1, <3>2, MoveRear DEF InUse
    <3>4. QED
      BY <2>1, <3>2, <3>3 DEF Rings
  <2>5. QED
    BY <1>2, <2>2, <2>3, <2>4
<1>4. SizeSeen'
  <2> SUFFICES ASSUME thread.at = "size"
               PROVE  \E u \in thread.len..InUse' : thread.rear = (ring'.front + u) % Size
    BY <1>1 DEF SizeSeen
  <2>1. PICK u \in thread.len..InUse : thread.rear = (ring.front + u) % Size
    BY DEF Counted, SizeSeen
  <2>2. thread.len \in Int
    BY InboxConstants DEF TypeOK
  <2>3. u \in thread.len..InUse'
    BY <1>3, <2>1, <2>2
  <2>4. QED
    BY <1>3, <2>1, <2>3
<1>5. Stored' \in Int /\ Flight' \in Int
      /\ (Busy' = 1 => Busy = 1 /\ Stored' - Flight' >= Stored - Flight)
  <2>1. Stored \in Int /\ Flight \in Int
    BY CountFacts
  <2>2. CASE Stores
    BY <2>1, <2>2, StoresGives DEF Busy, Stores
  <2>3. CASE Loads
    BY <2>1, <2>3, LoadsGives DEF Busy, Loads
  <2>4. CASE Advances
    BY <2>1, <2>4, AdvancesGives DEF Busy, Advances
  <2>5. CASE EnqueuePacket
    BY <2>1, <2>5, PushGives DEF Busy
  <2>6. QED
    BY <2>2, <2>3, <2>4, <2>5
<1>6. Promised' = Promised
  <2>1. Done' = Done /\ Taken' = Taken
    BY <1>1 DEF Done, Taken
  <2>2. indices' + Busy' = indices + Busy
    <3>1. indices \in Nat
      BY PendingIs
    <3>2. CASE Stores
      BY <3>2, StoresGives DEF Busy, Stores, Held
    <3>3. CASE Loads
      BY <3>3, LoadsGives DEF Busy, Loads, Held
    <3>4. CASE Advances
      <4>1. worker'.at # "recv" /\ worker.at # "recv" /\ indices' = indices
        BY <3>4, AdvancesGives DEF Advances, Held
      <4>2. QED
        BY <4>1 DEF Busy
    <3>5. CASE EnqueuePacket
      <4>1. worker'.at = "recv" /\ worker.at # "recv" /\ indices' = indices + 1
        BY <3>5, PushGives DEF EnqueuePacket
      <4>2. QED
        BY <3>1, <4>1 DEF Busy
    <3>6. QED
      BY <3>2, <3>3, <3>4, <3>5
  <2>3. QED
    BY <2>1, <2>2, Zenon DEF Promised, Pending
<1>7. QED
  BY <1>1, <1>4, <1>5, <1>6, CountFacts, CountKept

LEMMA DequeueCounts ==
    ASSUME TypeOK, WorkerInv, Ordered, Exact, Counted, DequeuePacket, Exact'
    PROVE  Counted'
<1>1. /\ ring' = ring /\ handled' = handled /\ worker' = worker /\ received' = received
      /\ packets' = packets /\ thread.at = "packet"
      /\ indices' = IF indices > 0 THEN indices - 1 ELSE 0
  BY DEF DequeuePacket, stream
<1>2. /\ Stored' = Stored /\ Flight' = Flight /\ InUse' = InUse /\ Busy' = Busy
      /\ Taken = 0 /\ indices \in Nat
  BY <1>1, PendingIs DEF Stored, Flight, InUse, Busy, Taken
<1>3. CASE indices = 0
  <2>1. thread' = Loop("system") /\ indices' = 0
    <3>1. ~(indices > 0)
      BY <1>3
    <3>2. QED
      BY <1>1, <3>1, Zenon DEF DequeuePacket
  <2>2. thread'.at = "system"
    BY <2>1 DEF Loop
  <2>3. Done' = Done /\ Taken' = Taken /\ SizeSeen'
    BY <1>1, <2>2 DEF Done, Taken, SizeSeen
  <2>4. Promised' = Promised
    BY <1>2, <1>3, <2>1, <2>3, Zenon DEF Promised, Pending
  <2>5. QED
    BY <1>1, <1>2, <2>3, <2>4, CountFacts, CountKept
<1>4. CASE indices > 0
  <2>1. Done < Len(packets) /\ InUse >= packets[Done + 1].len
    BY <1>1, <1>4, TakenIsWhole
  <2>2. Done \in Nat /\ Len(packets) \in Nat /\ Done + 1 \in 1..Len(packets)
    BY <1>1, <2>1, CountFacts
  <2>3. packets[Done + 1].len \in Nat /\ packets[Done + 1].len >= Header
    <3>1. packets[Done + 1] \in PacketRecs
      BY <2>2, ElementOfSeq DEF TypeOK
    <3>2. QED
      BY <3>1, InboxConstants DEF PacketRecs
  <2>4. Len(Peek(ring, Header)) = Header
    <3>1. Header \in Nat \ {0} /\ ring \in Rings /\ InUse \in Nat
      BY InboxConstants, WorkerFacts
    <3>2. Header <= InUse
      BY <2>1, <2>3, <3>1
    <3>3. QED
      BY <3>1, <3>2, PeekBytes DEF InUse
  <2>5. PICK h \in Headers(Peek(ring, Header)) :
           thread' = [at |-> "size", rear |-> ring.rear, len |-> h.len, struct |-> h.struct]
    BY <1>4, <2>4, Zenon DEF DequeuePacket
  <2>6. thread'.at = "size" /\ thread'.rear = ring.rear
    BY <2>5
  <2>7. Done' = Done /\ Taken' = 1
    BY <1>1, <2>6 DEF Done, Taken
  <2>8. thread'.len = packets[Done + 1].len
    BY <1>1, <2>6, <2>7 DEF Exact, HeaderExact
  <2>9. SizeSeen'
    <3>1. InUse \in Nat /\ ring.rear = (ring.front + InUse) % Size
      BY WorkerFacts, Used DEF InUse
    <3>2. InUse \in thread'.len..InUse'
      BY <1>2, <2>1, <2>3, <2>8, <3>1
    <3>3. QED
      BY <1>1, <2>6, <3>1, <3>2 DEF SizeSeen
  <2>10. Promised' = Promised
    <3>1. indices' = indices - 1
      BY <1>1, <1>4
    <3>2. indices' + Busy' + Taken' = indices + Busy + Taken
      BY <1>2, <2>7, <3>1, PendingIs
    <3>3. QED
      BY <2>7, <3>2, Zenon DEF Promised, Pending
  <2>11. QED
    BY <1>1, <1>2, <2>9, <2>10, CountFacts, CountKept
<1>5. QED
  BY <1>2, <1>3, <1>4

(* The size is enough for the packet unless rear_ was loaded anew.         *)
LEMMA SizeCounts ==
    ASSUME TypeOK, WorkerInv, Ordered, Exact, Counted, GetPacketData, "reloaded" \notin upset'
    PROVE  Counted'
<1>1. /\ ring' = ring /\ handled' = handled /\ worker' = worker /\ received' = received
      /\ packets' = packets /\ thread.at = "size" /\ indices' = indices
  BY DEF GetPacketData, stream
<1>2. thread' = IF SizeInUse(thread.rear, thread.rear) >= thread.len
                THEN [thread EXCEPT !.at = "handle"] ELSE Loop("system")
  <2>1. PICK rear \in {thread.rear, ring.rear} :
           /\ thread' = IF SizeInUse(thread.rear, rear) >= thread.len
                        THEN [thread EXCEPT !.at = "handle"] ELSE Loop("system")
           /\ upset' = IF rear # thread.rear THEN upset \cup {"reloaded"} ELSE upset
    BY DEF GetPacketData
  <2>2. rear = thread.rear
    BY <2>1
  <2>3. QED
    BY <2>1, <2>2, Zenon
<1>3. SizeInUse(thread.rear, thread.rear) >= thread.len
  <2>1. PICK u \in thread.len..InUse : thread.rear = (ring.front + u) % Size
    BY <1>1 DEF Counted, SizeSeen
  <2>2. u \in 0..InUse /\ thread.len \in Int /\ u >= thread.len
    BY <2>1, InboxConstants, WorkerFacts DEF TypeOK
  <2>3. SizeInUse(thread.rear, thread.rear) = u
    <3>1. (IF ring.front > thread.rear THEN Size - (ring.front - thread.rear)
           ELSE thread.rear - ring.front) = u
      BY <2>1, <2>2, NeverTooMany DEF InUse, TypeOK
    <3>2. QED
      BY <3>1, Zenon DEF SizeInUse
  <2>4. QED
    BY <2>2, <2>3
<1>4. thread'.at = "handle"
  BY <1>2, <1>3 DEF TypeOK
<1>5. Done' = Done /\ Taken' = Taken /\ Busy' = Busy /\ Stored' = Stored /\ Flight' = Flight
  BY <1>1, <1>4 DEF Done, Taken, Busy, Stored, Flight
<1>6. Promised' = Promised /\ SizeSeen'
  BY <1>1, <1>4, <1>5 DEF Promised, Pending, SizeSeen
<1>7. QED
  BY <1>1, <1>5, <1>6, CountFacts, CountKept

LEMMA ProcessCounts ==
    ASSUME TypeOK, WorkerInv, Ordered, Exact, Counted, AllKnown, ProcessPacket
    PROVE  Counted'
<1>1. /\ ring' = ring /\ worker' = worker /\ received' = received
      /\ packets' = packets /\ thread.at = "handle" /\ indices' = indices
  BY DEF ProcessPacket, stream
<1>2. thread.struct # None
  <2>1. Done < Len(packets) /\ thread.struct = packets[Done + 1].struct
    BY <1>1 DEF Exact, HeaderExact
  <2>2. Done + 1 \in DOMAIN packets
    <3>1. Done \in Nat /\ Len(packets) \in Nat
      BY <1>1, CountFacts
    <3>2. DOMAIN packets = 1..Len(packets)
      BY TypeFacts
    <3>3. QED
      BY <2>1, <3>1, <3>2
  <2>3. QED
    BY <2>1, <2>2 DEF AllKnown
<1>3. thread'.at = "complete" /\ handled' = Append(handled, Read)
  BY <1>2 DEF ProcessPacket, TypeOK
<1>4. Done' = Done
  <2>1. Read \in Reads
    BY ReadIs
  <2>2. Len(handled') = Len(handled) + 1 /\ Len(handled) \in Nat
    BY <1>3, <2>1, AppendProperties DEF TypeOK
  <2>3. QED
    BY <1>1, <1>3, <2>2 DEF Done
<1>5. Taken' = Taken /\ Busy' = Busy /\ Stored' = Stored /\ Flight' = Flight
  BY <1>1, <1>3 DEF Taken, Busy, Stored, Flight
<1>6. Promised' = Promised /\ SizeSeen'
  BY <1>1, <1>3, <1>4, <1>5 DEF Promised, Pending, SizeSeen
<1>7. QED
  BY <1>1, <1>5, <1>6, CountFacts, CountKept

LEMMA CompleteCounts ==
    ASSUME TypeOK, WorkerInv, Ordered, Exact, Counted, CompleteProcess
    PROVE  Counted'
<1>1. /\ worker' = worker /\ received' = received /\ handled' = handled /\ packets' = packets
      /\ indices' = indices /\ thread.at = "complete" /\ thread'.at = "system"
  BY DEF CompleteProcess, Loop, stream
<1>2. Busy' = Busy /\ Stored' = Stored /\ Flight' = Flight /\ SizeSeen'
  BY <1>1 DEF Busy, Stored, Flight, SizeSeen
<1>3. Promised' = Promised
  <2>1. Done = Len(handled) - 1 /\ Done' = Len(handled) /\ Taken = 1 /\ Taken' = 0
    BY <1>1 DEF Done, Taken
  <2>2. Len(handled) \in Nat /\ indices \in Nat /\ Busy \in 0..1
    BY TypeFacts, PendingIs
  <2>3. PICK n \in Nat, i \in Nat, b \in 0..1 : n = Len(handled) /\ i = indices /\ b = Busy
    BY <2>2
  <2>4. Promised = (n - 1) + (i + b + 1) /\ Promised' = n + (i + b + 0)
    BY <1>1, <1>2, <2>1, <2>3, Zenon DEF Promised, Pending
  <2>5. QED
    BY <2>3, <2>4
<1>4. QED
  BY <1>1, <1>2, <1>3, CountFacts, CountKept

(* ConnectHandler that found nothing received leaves nothing to wait.      *)
LEMMA ClearsRearCounts ==
    ASSUME TypeOK, WorkerInv, Exact, ClearsRear, Undisturbed'
    PROVE  Counted'
<1>1. received = 0 /\ received' = 0 /\ packets' = packets
  BY UnclearedMeansNone DEF ClearsRear, Rest
<1>2. /\ thread.at = "clear" /\ thread'.at = "packet" /\ worker' = worker
      /\ indices' = indices /\ handled' = handled
  BY DEF ClearsRear, Rest, Loop
<1>3. indices' = 0 /\ worker'.at = "recv" /\ handled' = <<>> /\ Len(handled') = 0
  BY <1>1, <1>2 DEF WorkerInv, Exact
<1>4. Busy' = 0 /\ Taken' = 0 /\ Done' = 0 /\ SizeSeen'
  BY <1>2, <1>3 DEF Busy, Taken, Done, SizeSeen
<1>5. Promised' = 0
  <2>1. Promised' = 0 + (0 + 0 + 0)
    BY <1>3, <1>4, Zenon DEF Promised, Pending
  <2>2. QED
    BY <2>1
<1>6. End(0) = 0 /\ Len(packets) \in Nat
  BY EndIs, TypeFacts DEF TypeOK
<1>7. End(Promised)' = End(0)
  BY <1>1, <1>5, EndSame, Zenon DEF End
<1>8. Promised' <= Len(packets)'
  BY <1>1, <1>5, <1>6
<1>9. QED
  BY <1>1, <1>4, <1>6, <1>7, <1>8 DEF Counted

LEMMA CountStep == IInv /\ ExactInv /\ CountInv /\ [Next]_vars => CountInv'
<1> SUFFICES ASSUME IInv, ExactInv, CountInv, [Next]_vars, Orderly', thread'.at # "clear"
             PROVE  Counted'
  BY DEF CountInv
<1>1. TypeOK /\ WorkerInv /\ OrderInv
  BY DEF IInv
<1>2. packets' = packets /\ whole' = whole
  BY Steps, Zenon DEF Recv, Drops, Stores, Loads, Advances, EnqueuePacket, DequeuePacket,
     GetPacketData, ProcessPacket, CompleteProcess, PassesBy, ClearsFront, ClearsRear,
     Held, Rest, stream, vars
<1>3. Orderly /\ AllKnown /\ whole
  <2>1. upset = {}
    BY <1>1, UpsetGrows DEF Orderly
  <2>2. QED
    BY <1>2, <2>1 DEF Orderly, AllKnown
<1>4. Undisturbed' /\ "reloaded" \notin upset'
  BY DEF Orderly, Undisturbed
<1>5. Exact /\ Ordered /\ Exact'
  <2>1. ExactInv'
    BY ExactStep
  <2>2. QED
    BY <1>1, <1>4, <2>1, Calm DEF ExactInv
<1>6. thread.at # "clear" => Counted
  BY <1>3 DEF CountInv
<1>7. CASE Recv
  <2>1. thread.at # "clear"
    BY <1>7 DEF Recv
  <2>2. QED
    BY <1>1, <1>3, <1>5, <1>6, <1>7, <2>1, RecvCounts
<1>8. CASE Drops
  BY <1>8 DEF Drops, Orderly
<1>9. CASE Stores \/ Loads \/ Advances \/ EnqueuePacket
  <2>1. thread.at # "clear"
    BY <1>9 DEF Stores, Loads, Advances, EnqueuePacket, Held
  <2>2. QED
    BY <1>1, <1>5, <1>6, <1>9, <2>1, WorkerCounts
<1>10. CASE DequeuePacket
  <2>1. thread.at # "clear"
    BY <1>10 DEF DequeuePacket
  <2>2. QED
    BY <1>1, <1>5, <1>6, <1>10, <2>1, DequeueCounts
<1>11. CASE GetPacketData
  <2>1. thread.at # "clear"
    BY <1>11 DEF GetPacketData
  <2>2. QED
    BY <1>1, <1>4, <1>5, <1>6, <1>11, <2>1, SizeCounts
<1>12. CASE ProcessPacket
  <2>1. thread.at # "clear"
    BY <1>12 DEF ProcessPacket
  <2>2. QED
    BY <1>1, <1>3, <1>5, <1>6, <1>12, <2>1, ProcessCounts
<1>13. CASE CompleteProcess
  <2>1. thread.at # "clear"
    BY <1>13 DEF CompleteProcess
  <2>2. QED
    BY <1>1, <1>5, <1>6, <1>13, <2>1, CompleteCounts
<1>14. CASE PassesBy \/ UNCHANGED vars
  <2>1. thread.at # "clear"
    BY <1>14 DEF PassesBy, vars
  <2>2. /\ received' = received /\ worker' = worker /\ ring' = ring
        /\ indices' = indices /\ handled' = handled
        /\ thread' = thread \/ (thread.at = "system" /\ thread'.at = "packet")
    BY <1>14 DEF PassesBy, Rest, Loop, vars
  <2>3. Done' = Done /\ Taken' = Taken /\ Busy' = Busy /\ Stored' = Stored /\ Flight' = Flight
    BY <2>2 DEF Done, Taken, Busy, Stored, Flight
  <2>4. Promised' = Promised
    BY <2>2, <2>3, Zenon DEF Promised, Pending
  <2>5. SizeSeen'
    BY <1>6, <2>1, <2>2 DEF SizeSeen, Counted, InUse
  <2>6. QED
    BY <1>1, <1>2, <1>5, <1>6, <2>1, <2>2, <2>3, <2>4, <2>5, CountFacts, CountKept
<1>15. CASE ClearsFront
  BY <1>15 DEF ClearsFront, Loop
<1>16. CASE ClearsRear
  BY <1>1, <1>4, <1>5, <1>16, ClearsRearCounts
<1>17. QED
  BY <1>7, <1>8, <1>9, <1>10, <1>11, <1>12, <1>13, <1>14, <1>15, <1>16, Steps, Zenon

LEMMA CountInit == Init => CountInv
<1> SUFFICES ASSUME Init PROVE Counted
  BY DEF CountInv
<1>1. TypeOK
  BY TypeInit
<1>2. End(0) = 0 /\ Len(packets) \in Nat
  BY <1>1, EndIs, TypeFacts DEF TypeOK
<1>3. Busy = 0 /\ Taken = 0 /\ Done = 0 /\ indices = 0 /\ received = 0 /\ SizeSeen
  BY InitFacts DEF Busy, Taken, SizeSeen, Init
<1>4. Promised = 0
  <2>1. Promised = 0 + (0 + 0 + 0)
    BY <1>3, Zenon DEF Promised, Pending
  <2>2. QED
    BY <2>1
<1>5. QED
  BY <1>2, <1>3, <1>4 DEF Counted

(***************************************************************************)
(* When no index is left, nothing is left in the ring either: a client     *)
(* that sends its packets whole never waits for an answer until it sends   *)
(* the next one, for every ring and every length, unless GetSizeInUse took *)
(* rear_ for two values (EnqueuePacket, packet_manager.cpp:63, pushes one  *)
(* index a receive; GetSizeInUse, ring_buffer.cpp:33).                     *)
(***************************************************************************)
THEOREM WholePacketsDoNotWait == Spec => []NothingWaits
<1>1. ASSUME IInv, ExactInv, CountInv PROVE NothingWaits
  <2> SUFFICES ASSUME Quiet, Orderly PROVE ring.front = ring.rear
    BY DEF NothingWaits, Orderly, AllKnown
  <2>1. thread.at = "packet" /\ worker.at = "recv" /\ indices = 0
    BY DEF Quiet
  <2>2. TypeOK /\ WorkerInv /\ Exact /\ Counted /\ Ordered
    BY <1>1, <2>1 DEF IInv, ExactInv, CountInv, Orderly, Undisturbed, OrderInv
  <2>3. Busy = 0 /\ Taken = 0
    BY <2>1 DEF Busy, Taken
  <2>4. received = End(Done)
    <3>1. Promised = Done + (0 + 0 + 0)
      BY <2>1, <2>3, Zenon DEF Promised, Pending
    <3>2. Done \in Nat
      BY <2>1, <2>2, CountFacts
    <3>3. Promised = Done
      BY <3>1, <3>2
    <3>4. QED
      BY <2>2, <3>3 DEF Counted
  <2>5. worker.data = <<>> /\ Len(worker.data) = 0 /\ Flight = 0
    BY <2>1, <2>2 DEF WorkerInv, Flight
  <2>6. Stored = End(Done) + Width /\ Width = InUse + Flight
    BY <2>1, <2>2 DEF Exact, RingExact, Width
  <2>7. InUse = 0
    BY <2>2, <2>4, <2>5, <2>6, WorkerFacts
  <2>8. /\ ring \in Rings /\ ring.front \in Index /\ ring.rear \in Index
        /\ GetSizeInUse(ring) = 0 /\ Size \in Nat \ {0, 1}
    BY <2>2, <2>7, SizeIs DEF TypeOK, Rings, InUse
  <2>9. QED
    BY <2>8 DEF GetSizeInUse, Index
<1>2. Init => ExactInv /\ CountInv
  BY ExactInit, CountInit
<1>3. IInv /\ ExactInv /\ CountInv /\ [Next]_vars => ExactInv' /\ CountInv'
  BY ExactStep, CountStep
<1>4. Spec => []IInv
  BY InboxInductive
<1>5. QED
  BY <1>1, <1>2, <1>3, <1>4, PTL DEF Spec

=============================================================================
