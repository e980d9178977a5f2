------------------------------ MODULE Deadlines ------------------------------
(***************************************************************************)
(* What the timers promise: a connection that has a deadline may be closed *)
(* by it once the deadline has passed, and never before.                   *)
(*                                                                         *)
(* README.md, "where to use timer?": the timer decides when a connection   *)
(* has expired.  How late it may be is Timer!NeverLate; it is not promised *)
(* here because the code does not keep it around the wrap of its clock.    *)
(***************************************************************************)
EXTENDS Integers

CONSTANTS
  Conns,     \* connections
  Timeouts   \* durations a deadline may be set to

NoDeadline == -1

VARIABLES
  left,      \* time left until the deadline of a connection
  expired    \* connections their deadline has closed

vars == <<left, expired>>

TypeOK ==
  /\ left \in [Conns -> Nat \cup {NoDeadline}]
  /\ expired \subseteq Conns

Init ==
  /\ left = [c \in Conns |-> NoDeadline]
  /\ expired = {}

Set(c) ==
  /\ c \notin expired
  /\ \E t \in Timeouts : left' = [left EXCEPT ![c] = t]
  /\ UNCHANGED expired

Cancel(c) ==
  /\ left' = [left EXCEPT ![c] = NoDeadline]
  /\ UNCHANGED expired

TimePasses ==
  /\ left' = [c \in Conns |-> IF left[c] > 0 THEN left[c] - 1 ELSE left[c]]
  /\ UNCHANGED expired

Expire(c) ==
  /\ left[c] = 0
  /\ left' = [left EXCEPT ![c] = NoDeadline]
  /\ expired' = expired \cup {c}

Next ==
  \/ TimePasses
  \/ \E c \in Conns : Set(c) \/ Cancel(c) \/ Expire(c)

Spec == Init /\ [][Next]_vars
=============================================================================
