--------------------------- MODULE MCSessionPool ---------------------------
(* Small instances of SessionPool for TLC. *)
EXTENDS SessionPool, TLC

NoFaults  == {}
AllFaults == FaultKinds
ResetOnly == {"reset"}

(* The workers run the same code; nothing tells them apart. *)
WorkerSymmetry == Permutations(Workers)

=============================================================================
