---------------------------- MODULE MCSendBuffer ----------------------------
(* Small instances of SendBuffer for TLC. *)
EXTENDS SendBuffer

CONSTANTS MaxLen   \* bytes in the longest packet

Packets == UNION {[1..n -> Bytes] : n \in 1..MaxLen}

NowOrFail == {"now", "fail"}
Anything  == SendOutcomes
NeverFail == {"now", "pending"}

=============================================================================
