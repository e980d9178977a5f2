--------------------------- MODULE ConnLifecycle ----------------------------
(***************************************************************************)
(* What a worker promises about connections, without loops, epoll, timers  *)
(* or buffers: an accepted connection is queued, opened once, closed once  *)
(* and released once, and a file descriptor number is held by at most one  *)
(* connection that has not been released.                                  *)
(***************************************************************************)
CONSTANTS Conns, Fds, None

VARIABLES phase,   \* how far each connection has come
          holds    \* the descriptor number it was given

vars == <<phase, holds>>

Phases == {"unborn", "queued", "open", "closed", "released"}

Init == /\ phase = [c \in Conns |-> "unborn"]
        /\ holds = [c \in Conns |-> None]

Step(c, from, to) == /\ phase[c] \in from
                     /\ phase' = [phase EXCEPT ![c] = to]

\* The number is free: whoever had it before has been released.
Accept(c, f) ==
  /\ Step(c, {"unborn"}, "queued")
  /\ \A d \in Conns : holds[d] = f => phase[d] = "released"
  /\ holds' = [holds EXCEPT ![c] = f]

Open(c)  == Step(c, {"queued"}, "open") /\ UNCHANGED holds
Close(c) == Step(c, {"open"}, "closed") /\ UNCHANGED holds

\* Closing and releasing may be one step.
Release(c) == Step(c, {"open", "closed"}, "released") /\ UNCHANGED holds

Next == \E c \in Conns : \/ \E f \in Fds : Accept(c, f)
                         \/ Open(c)
                         \/ Close(c)
                         \/ Release(c)

Spec == Init /\ [][Next]_vars

\* A queued connection is opened, a closed one does not keep its descriptor.
FairSpec == /\ Spec
            /\ \A c \in Conns : /\ WF_vars(Open(c))
                                /\ WF_vars(phase[c] = "closed" /\ Release(c))

=============================================================================
