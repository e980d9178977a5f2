------------------------------ MODULE MCDrain -------------------------------
(***************************************************************************)
(* Instances of Drain for TLC.                                             *)
(***************************************************************************)
EXTENDS Drain

\* Server::HandleNewConn passes true.
AllKept == [c \in Conns |-> TRUE]
=============================================================================
