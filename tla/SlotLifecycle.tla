--------------------------- MODULE SlotLifecycle ---------------------------
(***************************************************************************)
(* What the session pool promises of each slot, with no threads, no flags  *)
(* and no completion port: a slot serves one connection after another, and *)
(* each connection is opened, perhaps established, and closed once before  *)
(* the slot is used again.                                                 *)
(***************************************************************************)
EXTENDS Naturals

CONSTANT Slots

VARIABLES phase,  \* what the slot is doing
          conn    \* number of connections opened in it so far

vars == <<phase, conn>>

Phases == {"idle", "opening", "active", "closing"}

Init == /\ phase = [s \in Slots |-> "idle"]
        /\ conn  = [s \in Slots |-> 0]

Move(s, from, to) ==
    /\ phase[s] = from
    /\ phase' = [phase EXCEPT ![s] = to]

(* Only an idle slot gets a new connection. *)
Open(s) == Move(s, "idle", "opening") /\ conn' = [conn EXCEPT ![s] = @ + 1]

(* A connection that is not established is given up. *)
Abandon(s) == Move(s, "opening", "idle") /\ UNCHANGED conn

Establish(s) == Move(s, "opening", "active") /\ UNCHANGED conn

Close(s) == Move(s, "active", "closing") /\ UNCHANGED conn

Release(s) == Move(s, "closing", "idle") /\ UNCHANGED conn

Next == \E s \in Slots : \/ Open(s) \/ Abandon(s) \/ Establish(s)
                         \/ Close(s) \/ Release(s)

Spec == Init /\ [][Next]_vars
=============================================================================
