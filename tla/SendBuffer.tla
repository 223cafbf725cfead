----------------------------- MODULE SendBuffer -----------------------------
(***************************************************************************)
(* The sending half of one Session (session.cpp): the logic puts packets   *)
(* into the ring send_buf_, the sender thread hands the ring's bytes to    *)
(* WSASend, one request at a time, and the worker that takes the           *)
(* completion allows the next one.  Enqueue and BindSend's body each hold  *)
(* send_lock_, so each is one step; what may go wrong between the threads  *)
(* when a session is closed is the subject of SessionPool.                 *)
(***************************************************************************)
EXTENDS RingBuffer

CONSTANTS Messages,   \* the packets the logic may send
          Outcomes,   \* which of SendOutcomes WSASend may have
          MaxBytes    \* bound: bytes accepted, and bytes delivered before
                      \* the last request, on one connection

(***************************************************************************)
(* WSASend takes the bytes over at once ("now": it returns 0 and tells how *)
(* many), later ("pending": ERROR_IO_PENDING, and no count), or it fails.  *)
(***************************************************************************)
SendOutcomes == {"now", "pending", "fail"}

ASSUME SendAssumption ==
    /\ Messages \subseteq Seq(Bytes) \ {<<>>}
    /\ Outcomes \subseteq SendOutcomes
    /\ MaxBytes \in Nat

VARIABLES ring,       \* send_buf_
          sending,    \* is_sending_
          pc,         \* the sender: "idle", or "wsasend" inside BindSend
          request,    \* the buffers of the request the kernel has not read yet
          completed,  \* the completion of a send is in the port
          late,       \* WSASend has answered "pending" on this connection
          accepted,   \* bytes Enqueue took since the connection was opened
          delivered   \* bytes the kernel took over since then

vars == <<ring, sending, pc, request, completed, late, accepted, delivered>>

(* new char[size] leaves the array as it was. *)
Init ==
    /\ ring \in {[front |-> 0, rear |-> 0, buf |-> b] : b \in [Index -> Bytes]}
    /\ sending = FALSE
    /\ pc = "idle"
    /\ request = <<>>
    /\ completed = FALSE
    /\ late = FALSE
    /\ accepted = <<>>
    /\ delivered = <<>>

(* SendPacket: what Enqueue returns is not looked at. *)
EnqueueSendData(src) ==
    /\ Len(accepted) + Len(src) <= MaxBytes
    /\ ring' = Enqueue(ring, src)
    /\ accepted' = accepted \o SubSeq(src, 1, Fitting(ring, src))
    /\ UNCHANGED <<sending, pc, request, completed, late, delivered>>

(* The sender finds data (HasSendData) and wins the compare-and-swap. *)
BindSend ==
    /\ pc = "idle"
    /\ Len(delivered) < MaxBytes
    /\ GetSizeInUse(ring) > 0
    /\ ~sending
    /\ sending' = TRUE
    /\ pc' = "wsasend"
    /\ UNCHANGED <<ring, request, completed, late, accepted, delivered>>

(* sent_bytes, as WSASend sets it, is what leaves the ring. *)
SentNow(n) ==
    /\ pc = "wsasend"
    /\ "now" \in Outcomes
    /\ delivered' = delivered \o SubSeq(Gather(ring, WsaBufs(ring)), 1, n)
    /\ ring' = MoveFront(ring, n)
    /\ completed' = TRUE
    /\ pc' = "idle"
    /\ UNCHANGED <<sending, request, late, accepted>>

(* sent_bytes is still 0, the kernel keeps the addresses of the buffers. *)
SendPending ==
    /\ pc = "wsasend"
    /\ "pending" \in Outcomes
    /\ request' = WsaBufs(ring)
    /\ late' = TRUE
    /\ ring' = MoveFront(ring, 0)
    /\ pc' = "idle"
    /\ UNCHANGED <<sending, completed, accepted, delivered>>

(* ErrorHandler returns true all the same; there will be no completion. *)
SendFails ==
    /\ pc = "wsasend"
    /\ "fail" \in Outcomes
    /\ ring' = MoveFront(ring, 0)
    /\ pc' = "idle"
    /\ UNCHANGED <<sending, request, completed, late, accepted, delivered>>

(* The kernel reads the buffers of a pending request as they are by now. *)
Transmit ==
    /\ request # <<>>
    /\ delivered' = delivered \o Gather(ring, request)
    /\ request' = <<>>
    /\ completed' = TRUE
    /\ UNCHANGED <<ring, sending, pc, late, accepted>>

(* DispatchOverlapped, kSEND *)
SendCompletes ==
    /\ completed
    /\ completed' = FALSE
    /\ sending' = FALSE
    /\ UNCHANGED <<ring, pc, request, late, accepted, delivered>>

(***************************************************************************)
(* ClearSession, then Activate for the slot's next connection.  By then    *)
(* the sender has left BindSend and the completion of the old request,     *)
(* aborted or not, has been taken: SessionPool's DrainBeforeReuse.         *)
(***************************************************************************)
NextConnection ==
    /\ pc = "idle"
    /\ ring' = ClearBuffer(ring)
    /\ sending' = FALSE
    /\ request' = <<>>
    /\ completed' = FALSE
    /\ late' = FALSE
    /\ accepted' = <<>>
    /\ delivered' = <<>>
    /\ UNCHANGED pc

Next == \/ \E src \in Messages : EnqueueSendData(src)
        \/ BindSend
        \/ \E n \in 1..GetSizeInUse(ring) : SentNow(n)
        \/ SendPending \/ SendFails
        \/ Transmit \/ SendCompletes
        \/ NextConnection

Spec == Init /\ [][Next]_vars

-----------------------------------------------------------------------------
(* Type correctness *)
TypeOK ==
    /\ ring \in Rings
    /\ sending \in BOOLEAN
    /\ pc \in {"idle", "wsasend"}
    /\ request \in Seq([start : Index, len : Index])
    /\ completed \in BOOLEAN
    /\ late \in BOOLEAN
    /\ accepted \in Seq(Bytes)
    /\ delivered \in Seq(Bytes)

(***************************************************************************)
(* The ring is a queue: whatever the positions of front_ and rear_, the    *)
(* bytes go in and come out as those of a ByteQueue of size_ - 1 bytes.    *)
(* In particular, no byte that Enqueue accepts makes others disappear.     *)
(***************************************************************************)
Queue == INSTANCE ByteQueue WITH Capacity <- Size - 1, queue <- Contents(ring)

RingIsQueue == Queue!Spec

(***************************************************************************)
(* The buffers given to WSASend (SetWsaBuf) stay inside the array and hold *)
(* the bytes in use, all of them, in order, whether or not they wrap.      *)
(***************************************************************************)
WsaBufsCoverContents ==
    /\ \A i \in DOMAIN WsaBufs(ring) :
           WsaBufs(ring)[i].start + WsaBufs(ring)[i].len <= Size
    /\ Gather(ring, WsaBufs(ring)) = Contents(ring)

(***************************************************************************)
(* No packet the logic enqueues while a send is pending overwrites bytes   *)
(* the kernel has yet to read: BindSend hands out addresses in the ring.   *)
(***************************************************************************)
RequestIntact ==
    request # <<>> =>
        LET bytes == Gather(ring, request)
        IN /\ Len(bytes) <= GetSizeInUse(ring)
           /\ bytes = Peek(ring, Len(bytes))

(***************************************************************************)
(* The peer is sent the bytes Enqueue took, each once and in order: when   *)
(* no send is under way, the others are still in the ring.  ("As much as   *)
(* the send request has completed is removed from the ring": BindSend.)    *)
(***************************************************************************)
StreamIntact == ~sending => accepted = delivered \o Contents(ring)

(***************************************************************************)
(* The same, on the connections where every WSASend took the bytes over at *)
(* once: then sent_bytes is what has to leave the ring.                    *)
(***************************************************************************)
StreamIntactUnlessLate == ~late => accepted = delivered \o Contents(ring)

=============================================================================
