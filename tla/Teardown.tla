------------------------------ MODULE Teardown ------------------------------
(***************************************************************************)
(* A worker that leaves Loop with connections open: ThreadFunc returns and *)
(* the EventLoop on its stack is destroyed, member by member in the        *)
(* reverse order of declaration, and within it the Epoll.  Each member     *)
(* that goes may hold the last reference to Http objects; those that a     *)
(* timer node owns are closed by ~TimerNode, which calls back into the     *)
(* Epoll that is being destroyed.                                          *)
(*                                                                         *)
(* The main thread may queue a connection until the destructor begins;     *)
(* what it queues later is Reactor's subject.                              *)
(***************************************************************************)
EXTENDS Worker

VARIABLE loop   \* "runs", "left", then the member that is being destroyed; "gone"

teardownVars == <<vars, loop>>

\* ~EventLoop destroys callback_list_ before epoller_, ~Epoll timer_manager_
\* before fd2http_.  (Mutant: timer_manager_ is declared before the maps.)
Following_TimersLast ==
  [left |-> "callback_list", callback_list |-> "fd2http", fd2http |-> "timer_manager",
   timer_manager |-> "gone"]

Following ==
  [left |-> "callback_list", callback_list |-> "timer_manager", timer_manager |-> "fd2http",
   fd2http |-> "gone"]

\* What keeps the destructor of a member busy.
Holds(member, c) ==
  \/ member = "callback_list" /\ c \in queue
  \/ member = "timer_manager" /\ nodes[c] > 0
  \/ member = "fd2http" /\ InTable(c)

TeardownInit == Init /\ loop = "runs"

\* While the loop runs, and for the peers always, as before.
Run ==
  /\ loop = "runs"
  /\ Next
  /\ UNCHANGED loop

Outside ==
  /\ loop # "runs"
  /\ \/ \E c \in Conns, f \in Fds : loop = "left" /\ Accept(c, f)
     \/ \E c \in Conns : PeerSends(c) \/ PeerReads(c) \/ PeerShutsDown(c) \/ PeerResets(c)
  /\ UNCHANGED loop

\* Loop finds is_looping_ unset or its idle timeouts used up.
Leave ==
  /\ loop = "runs" /\ proc = "run"
  /\ pc = "wait"
  /\ loop' = "left"
  /\ UNCHANGED vars

\* A closure is destroyed, and the Http it holds.
DropClosure(c) ==
  /\ loop = "callback_list" /\ proc = "run"
  /\ c \in queue
  /\ queue' = queue \ {c}
  /\ UNCHANGED <<calls, active, revents, cur, pc, httpVars, kernelVars, proc, stale, loop>>

\* A node of the heap is destroyed.
DropNode(c) ==
  /\ loop = "timer_manager" /\ proc = "run"
  /\ NodeDies(c)
  /\ UNCHANGED loop

\* An entry is destroyed; close() takes the descriptor off epoll's lists.
DropEntry(c) ==
  /\ loop = "fd2http" /\ proc = "run"
  /\ InTable(c)
  /\ table' = [table EXCEPT ![fd[c]] = None]
  /\ mask' = [mask EXCEPT ![c] = {}]
  /\ ready' = [ready EXCEPT ![c] = FALSE]
  /\ UNCHANGED <<loopVars, http, fd, nodes, linked, inq, room, peer, sends, proc, stale, loop>>

\* The destructor goes on to the next member.
NextMember ==
  /\ loop \in DOMAIN Following /\ proc = "run"
  /\ \A c \in Conns : ~Holds(loop, c)
  /\ loop' = Following[loop]
  /\ UNCHANGED vars

Destruction ==
  \/ \E c \in Conns : DropClosure(c) \/ DropNode(c) \/ DropEntry(c)
  \/ NextMember

TeardownNext == Run \/ Outside \/ Leave \/ Destruction

TeardownSpec == TeardownInit /\ [][TeardownNext]_teardownVars

\* The thread is scheduled; nothing in a destructor blocks.
FairTeardownSpec == TeardownSpec /\ WF_teardownVars(Destruction)

-----------------------------------------------------------------------------
(* Properties, with NoAbort of Worker: EpollDel's assertion holds for each  *)
(* node that dies with the heap, as its entry is still in the maps.         *)

\* Epoll.h:49-54: timers close what they own before the maps go, so whatever the
\* maps release without HandleClose is a connection that has lost its timer: one
\* whose peer had ended its stream.
HalfClosedLast ==
  loop = "fd2http" =>
    \A c \in Conns : InTable(c) => http[c].connectionState = "DISCONNECTING"

\* EventLoop.cpp:29-33: once the loop has been left, each of its connections
\* is destroyed and its descriptor closed, the half-closed ones included.
LeftReleasesAll ==
  loop = "left" ~> \A c \in Conns : ~Referenced(c)

-----------------------------------------------------------------------------
(* The inductive invariant; its proof is in TeardownProofs.                 *)

\* A loop that was left stands where it waits; what a destroyed member held
\* is gone.
Emptied ==
  /\ loop \in {"runs", "left", "gone"} \cup DOMAIN Following
  /\ loop # "runs" => pc = "wait"
  /\ loop \in {"timer_manager", "fd2http", "gone"} => queue = {}
  /\ loop \in {"fd2http", "gone"} => \A c \in Conns : nodes[c] = 0
  /\ loop = "gone" => \A c \in Conns : ~InTable(c)

TInv ==
  /\ IInv
  /\ Emptied
=============================================================================
