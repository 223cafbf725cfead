----------------------------- MODULE Practice02 -----------------------------
(***************************************************************************)
(* Practice02 is Practice01 with the buffers moved out of OverlappedEx     *)
(* into ClientInfo: there is still one send buffer and one send structure  *)
(* per client, and op_type_ is still cleared with the ClientInfo.          *)
(***************************************************************************)
EXTENDS Practice01

Main02           == Main01
AccepterThread02 == AccepterThread01
CloseSocket02(w) == CloseSocket01(w)
Worker02(w)      == \/ WorkerThread01(w) \/ DispatchOverlapped01(w) \/ CloseSocket02(w)
                    \/ PostTerminateMsg01(w, "repost", "ended")

Thread02(t) == \/ t = "main" /\ Main02
               \/ t = "accepter" /\ AccepterThread02
               \/ t \in Workers /\ Worker02(t)

=============================================================================
