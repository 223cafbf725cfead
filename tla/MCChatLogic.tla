---------------------------- MODULE MCChatLogic -----------------------------
(* Small instances of ChatLogic for TLC. *)
EXTENDS ChatLogic, TLC

(* Nothing tells the slots apart. *)
UserSymmetry == Permutations(Users)

Named(ops, lengths) == [op : ops, empty : lengths]

(* What moves a user between the domains, and what is left in its buffer *)
ChatPackets ==
    [op : {"login"}, id : Accounts, empty : {FALSE}]
      \cup [op : {"enter"}, room : Rooms, empty : {FALSE}]
      \cup Named({"leave", "chat", "connect", "disconnect"}, {FALSE})
      \cup Named({"result"}, {TRUE})
      \cup [op : {"unknown"}]

(* Logins, and what may keep a packet from being taken *)
LivePackets ==
    [op : {"login"}, id : Accounts, empty : {TRUE}]
      \cup [op : {"login"}, id : {NoId}, empty : {FALSE}]
      \cup Named({"connect", "disconnect", "result"}, {FALSE})
      \cup [op : {"unknown"}]

(* Logins only *)
LoginPackets == [op : {"login"}, id : UserIds, empty : {FALSE}]

=============================================================================
