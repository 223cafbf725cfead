----------------------------- MODULE ByteQueue ------------------------------
(***************************************************************************)
(* What a ring buffer promises: a bounded first-in-first-out queue of      *)
(* bytes.  A source that does not fit is cut, and its end is lost; what is *)
(* accepted of it stays in the queue until it is taken or dropped.         *)
(***************************************************************************)
EXTENDS Naturals, Sequences

CONSTANTS Capacity, Messages

VARIABLES queue,     \* the bytes in the queue
          accepted   \* the bytes put into it since it was emptied last

Free == Capacity - Len(queue)

Init == queue = <<>> /\ accepted = <<>>

Cut(src) == SubSeq(src, 1, IF Len(src) < Free THEN Len(src) ELSE Free)

Put(src) == queue' = queue \o Cut(src) /\ accepted' = accepted \o Cut(src)

Take(n) == queue' = SubSeq(queue, n + 1, Len(queue)) /\ UNCHANGED accepted

Drop == queue' = <<>> /\ accepted' = <<>>

Next == \/ \E src \in Messages : Put(src)
        \/ \E n \in 1..Len(queue) : Take(n)
        \/ Drop

Spec == Init /\ [][Next]_<<queue, accepted>>
=============================================================================
