------------------------------ MODULE MCWorker ------------------------------
(***************************************************************************)
(* Instances of Worker for TLC.                                            *)
(***************************************************************************)
EXTENDS Worker

\* Server::HandleNewConn passes true; the constructor takes either.
AllKept  == [c \in Conns |-> TRUE]
OneShort == [c \in Conns |-> c # CHOOSE d \in Conns : TRUE]
=============================================================================
