---------------------------- MODULE MCUserInbox ----------------------------
(* An instance of UserInbox. *)
EXTENDS UserInbox

MCBytes == 0..MaxBytes

(* What follows the race of ConnectHandler with a worker is not explored.  *)
NotRaced == "raced" \notin upset

=============================================================================
