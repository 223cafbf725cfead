----------------------------- MODULE EchoServers -----------------------------
(***************************************************************************)
(* One of the practices, with its clients and the kernel, and what all of  *)
(* them promise: an echo server sends every client what it said.  A        *)
(* definition of a practice ends in the practice's number.                 *)
(***************************************************************************)
EXTENDS Practice02, Practice06, Practice07R, Practice08

CONSTANT Versions  \* the practices looked at

ASSUME EchoVersions == Versions \subseteq {"01", "02", "03", "03R", "04", "05", "06", "07", "07R", "08"}

VARIABLE ver  \* which practice runs (never changes)

(* Only the practices with AcceptEx tell op_type_ of a structure in ex.     *)
Step(t) ==
  /\ \/ ver = "01"  /\ Thread01(t)
     \/ ver = "02"  /\ Thread02(t)
     \/ ver = "03"  /\ Thread03(t)
     \/ ver = "03R" /\ Thread03R(t)
     \/ ver = "04"  /\ Thread04(t)
     \/ ver = "05"  /\ Thread05(t)
     \/ ver = "06"  /\ Thread06(t)
     \/ ver = "07"  /\ Thread07(t)
     \/ ver = "07R" /\ Thread07R(t)
     \/ ver = "08"  /\ Thread08(t)
  /\ ver \notin {"07", "07R"} => UNCHANGED ex
  /\ UNCHANGED <<kind, ver>>

Alone == UNCHANGED <<kind, ver, ex>>
KernelStep == Kernel /\ Alone
ClientStep == Clients /\ Alone

Next == ClientStep \/ KernelStep \/ \E t \in Threads : Step(t)

OneBuffer == {"01", "02", "03", "03R"}       \* one buffer for all sends of a session
Queued    == {"05", "06", "07", "07R"}       \* one send at a time
Echoing   == OneBuffer \cup {"04"} \cup Queued

(* Only the practices with a ring tell a send that is still pending apart. *)
EchoInit == Init /\ ver \in Versions /\ (late > 0 => ver \in {"05", "07", "07R"})

Spec == EchoInit /\ [][Next]_<<vars, ver>>

(* Every thread that can go on does, and so does the kernel; the key that  *)
(* ends the server may never come.                                         *)
Fairness ==
  /\ \A t \in Threads \ {"main"} : WF_<<vars, ver>>(Step(t))
  /\ WF_<<vars, ver>>(~At("main", "run") /\ Step("main"))
  /\ \A c \in Conns : WF_<<vars, ver>>(Sent(c) /\ Alone) /\ WF_<<vars, ver>>(Abort(c) /\ Alone)
  /\ WF_<<vars, ver>>(AcceptDone /\ Alone)
  /\ \A s \in 1..NumSlots : WF_<<vars, ver>>(s \in Slots /\ Elapse(s) /\ Alone)
FairSpec == Spec /\ Fairness

-----------------------------------------------------------------------------
(* While a session never gets a new connection before the old one is done  *)
(* with, nothing is freed that is in use and no send is told to be still   *)
(* pending, a client hears what it said, in order.  With one buffer for    *)
(* all sends of a session that takes a client who waits for each echo.     *)
Clean == marks \subseteq {"early", "taken"}
Said(c) == [i \in 1..Len(conn[c].heard) |-> [c |-> c, n |-> i]]
EchoInOrder ==
  Clean /\ ver \in Echoing /\ (ver \in OneBuffer => kind = "pingpong")
    => \A c \in Conns : conn[c].heard = Said(c)

(* Whatever the clients do, one buffer mixes up only one client's words.   *)
NoCrossTalk ==
  Clean => \A c \in Conns : \A i \in DOMAIN conn[c].heard : conn[c].heard[i].c = c

(* Where the receives of a session are: pending, completed, or with a      *)
(* worker that handles what was received and has not posted the next.      *)
Receiving(w, s) == pc[w].s = s /\ (pc[w].at = "rebind" \/ (pc[w].at = "got" /\ pc[w].op # "send"))
Receives(s) ==
  (UNION {{<<"pending", c, i>> : i \in {j \in DOMAIN conn[c].recvs : conn[c].recvs[j] = s}} : c \in Conns})
  \cup {<<"port", i>> : i \in {j \in DOMAIN port : port[j].s = s /\ port[j].op \in {"recv", "accept"}}}
  \cup {<<"worker", w>> : w \in {v \in Workers : Receiving(v, s)}}
OneReceive ==
  marks \cap {"overlap", "misread"} = {} => \A s \in Slots : ses[s].sock # None => Cardinality(Receives(s)) <= 1

(* The sends of a session likewise, where is_sending_ or the queue of      *)
(* sends is to keep them apart.                                            *)
SendDone(w, s) == pc[w].s = s /\ pc[w].at = "got" /\ pc[w].op = "send"
Sends(s) ==
  (UNION {{<<"pending", c, i>> : i \in {j \in DOMAIN conn[c].sends : conn[c].sends[j].s = s}} : c \in Conns})
  \cup {<<"port", i>> : i \in {j \in DOMAIN port : port[j].s = s /\ port[j].op = "send"}}
  \cup {<<"worker", w>> : w \in {v \in Workers : SendDone(v, s)}}
OneSend ==
  marks \cap {"overlap", "misread", "freed"} = {} /\ ver \in Queued => \A s \in Slots : Cardinality(Sends(s)) <= 1

(* A connection that was accepted and not closed is some session's, unless *)
(* its session was given back while the accepter waited for it.            *)
NoConnectionLost ==
  marks \cap {"overlap", "misread", "taken"} = {} =>
    \A c \in Conns : conn[c].st \in {"open", "gone"} => \E s \in Slots : ses[s].sock = c

(* Waiting for SESSION_REUSE_TIME and giving up sends on a session that is *)
(* not activated keep a session's connections apart in Practice07_Refactor.*)
NeverOverlaps == ver = "07R" /\ "misread" \notin marks => "overlap" \notin marks

(* Practice08 deletes its sessions when no thread of the network uses them.*)
SessionsOutliveNetwork ==
  ver = "08" /\ "sessions" \notin on =>
    \A t \in Workers \cup {"accepter", "sender"} : pc[t].at \in {"off", "ended"}

(* What a client said comes back, unless the server is ended first.        *)
Ending == pc["main"].at \in
  {"destroy", "join workers", "close listen", "join accepter", "stop sender", "join sender", "close port",
   "join packet", "stop redis", "join redis", "stop packet", "stopped", "done", "failed"}
EchoArrives ==
  \A c \in Conns : \A n \in 1..MaxMsgs :
    (ver \in Echoing /\ kind \in {"patient", "pingpong"} /\ (ver \in OneBuffer => kind = "pingpong")
       /\ conn[c].said >= n)
      ~> (Len(conn[c].heard) >= n \/ Ending)

(* The server notices that a client has gone, unless the accepter failed   *)
(* to post its receive and returned, or its session was given back early.  *)
Unheard(c) == LET a == pc["accepter"] IN a.at = "ended" /\ a.s # None /\ ses[a.s].sock = c
GoneIsClosed ==
  \A c \in Conns :
    (ver \in OneBuffer \cup {"04", "05", "06"} /\ conn[c].st = "gone")
      ~> (conn[c].st = "closed" \/ Ending \/ Unheard(c) \/ marks \cap {"overlap", "taken"} # {})

(* The key ends the server and every thread of it.                         *)
KeyEndsServer ==
  Ending ~> \/ \A t \in Threads : pc[t].at \in {"off", "ended", "done", "failed"}
            \/ marks \cap {"revived", "unmade", "freed"} # {}
=============================================================================
