------------------------------- MODULE MCEcho -------------------------------
(***************************************************************************)
(* Instances of EchoServers.  A client of kind "any" can do all the others *)
(* do: the other kinds are only looked at where a property is about them.  *)
(***************************************************************************)
EXTENDS EchoServers, TLC

SafetyInit ==
  /\ EchoInit
  /\ CASE Cardinality(Slots) > 1 -> late = 0 /\ (IF ver \in OneBuffer THEN kind = "pingpong" ELSE ver = "04" /\ kind = "patient")
       [] late > 0               -> kind = "pingpong"
       [] ver \in OneBuffer      -> kind \in {"pingpong", "any"}
       [] OTHER                  -> kind = "any"
SafetySpec == SafetyInit /\ [][Next]_<<vars, ver>>

(* For liveness the clients that do not leave before they are answered.    *)
LiveInit == EchoInit /\ late = 0 /\ kind = (IF ver \in OneBuffer THEN "pingpong" ELSE "patient")
LiveSpec == LiveInit /\ [][Next]_<<vars, ver>> /\ Fairness

(* What follows a session's being used for two connections at once, a use  *)
(* of freed memory or a misread op_type_ is not explored.                  *)
Defined == marks \subseteq {"early", "late", "taken"}

WorkerSymmetry == Permutations(Workers)

=============================================================================
