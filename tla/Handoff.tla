------------------------------ MODULE Handoff ------------------------------
(***************************************************************************)
(* What the acceptor and the pool promise about accepted connections,      *)
(* without locks, list copies or wakeups: the workers are given them in    *)
(* turn, and each worker opens the connections of its line in order, each  *)
(* once, until it stops serving.  What a worker that has stopped is given  *)
(* is lost.                                                                *)
(***************************************************************************)
EXTENDS Integers, Sequences

CONSTANT ThreadNum   \* the workers are 0 .. ThreadNum - 1

VARIABLES sent,      \* how many connections have been handed over
          whose,     \* the worker whose turn it is
          line,      \* per worker: those it has still to open
          taken,     \* per worker: those it has opened
          serving    \* whether the worker still serves

vars == <<sent, whose, line, taken, serving>>

Workers == 0 .. ThreadNum - 1

Init == /\ sent = 0
        /\ whose = 0
        /\ line = [w \in Workers |-> <<>>]
        /\ taken = [w \in Workers |-> <<>>]
        /\ serving = [w \in Workers |-> TRUE]

Hand(w) ==
  /\ w = whose
  /\ whose' = IF w = ThreadNum - 1 THEN 0 ELSE w + 1
  /\ sent' = sent + 1
  /\ line' = IF serving[w] THEN [line EXCEPT ![w] = Append(@, sent + 1)] ELSE line
  /\ UNCHANGED <<taken, serving>>

Open(w) ==
  /\ line[w] # <<>>
  /\ taken' = [taken EXCEPT ![w] = Append(@, Head(line[w]))]
  /\ line' = [line EXCEPT ![w] = Tail(@)]
  /\ UNCHANGED <<sent, whose, serving>>

Stop(w) ==
  /\ serving[w]
  /\ serving' = [serving EXCEPT ![w] = FALSE]
  /\ line' = [line EXCEPT ![w] = <<>>]
  /\ UNCHANGED <<sent, whose, taken>>

Next == \E w \in Workers : Hand(w) \/ Open(w) \/ Stop(w)

Spec == Init /\ [][Next]_vars

=============================================================================
