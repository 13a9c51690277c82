--------------------------- MODULE MC_QrDiscovery ---------------------------
(***************************************************************************)
(* Instances of QrDiscovery for TLC.  The decimal text of a session id is  *)
(* one of the profile ids the clients may send: the code does not tell     *)
(* them apart.                                                             *)
(***************************************************************************)
EXTENDS QrDiscovery

MCDecimalText == [s \in SessionId |-> CHOOSE p \in ProfileId : TRUE]

=============================================================================
