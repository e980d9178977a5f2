----------------------------- MODULE MCReplies -----------------------------
(***************************************************************************)
(* Instances of Replies for TLC.                                           *)
(***************************************************************************)
EXTENDS Replies, TLC
=============================================================================
