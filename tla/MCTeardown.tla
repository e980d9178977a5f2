----------------------------- MODULE MCTeardown -----------------------------
(***************************************************************************)
(* Instances of Teardown for TLC.                                          *)
(***************************************************************************)
EXTENDS Teardown

\* Server::HandleNewConn passes true.
AllKept == [c \in Conns |-> TRUE]
=============================================================================
