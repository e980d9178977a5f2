-------------------------------- MODULE Timer --------------------------------
(***************************************************************************)
(* TimerManager and TimerNode (src/src/Utils/Timer.cpp) with the clock they *)
(* read, and the calls the Http handlers make: when a connection is closed  *)
(* by its timer, and how long nodes stay in the heap.                       *)
(*                                                                         *)
(* The clock is gettimeofday() reduced to milliseconds modulo 1000 s; the   *)
(* model counts ticks modulo Period.  expire_time_ is the reading plus the  *)
(* timeout, which is not reduced.  The clock is not set back.               *)
(*                                                                         *)
(* The heap's shared_ptr is what keeps a node alive; timer_ is weak, so it  *)
(* stops yielding a node that has been popped.                              *)
(***************************************************************************)
EXTENDS Integers

CONSTANTS
  Conns,           \* connections
  Nodes,           \* bound: memory for timer nodes (used again once freed)
  None,            \* no connection, no node
  Period,          \* the 1000 s after which the clock starts again
  ExpireTime,      \* DEFAULT_EXPIRE_TIME
  KeepAliveTime,   \* DEFAULT_KEEP_ALIVE_TIME
  LoopTime         \* bound: ticks from the end of one HandleExpire to the next

ASSUME TimerAssumption ==
  /\ None \notin Conns /\ None \notin Nodes
  /\ Period \in Nat /\ LoopTime \in Nat
  /\ ExpireTime \in 1 .. Period /\ KeepAliveTime \in 1 .. Period

Timeouts == {ExpireTime, KeepAliveTime}

VARIABLES
  ms,       \* the clock: milliseconds modulo 1000 s
  heap,     \* timer_node_queue_
  node,     \* the TimerNodes; timeout, age and wrapped are history
  timer,    \* timer_.lock() of each Http
  conn,     \* "new", "open", "closed" by a handler, "expired"
  pc,       \* Loop: "events" up to DoCallbacks, "expire" in HandleExpire
  since     \* history: ticks since HandleExpire last ended

vars == <<ms, heap, node, timer, conn, pc, since>>

\* data is data_; timeout is what the node was armed with, age how long ago
\* (counted up to one Period), wrapped whether the clock has started again since.
TimerNode ==
  [ expire  : Nat,
    data    : Conns \cup {None},
    deleted : BOOLEAN,
    timeout : Timeouts,
    age     : 0 .. Period,
    wrapped : BOOLEAN ]

\* What a freed node is in the model.
Freed == [ expire |-> 0, data |-> None, deleted |-> TRUE, timeout |-> ExpireTime,
           age |-> 0, wrapped |-> FALSE ]

TypeOK ==
  /\ ms \in 0 .. Period - 1
  /\ heap \subseteq Nodes
  /\ node \in [Nodes -> TimerNode]
  /\ timer \in [Conns -> Nodes \cup {None}]
  /\ conn \in [Conns -> {"new", "open", "closed", "expired"}]
  /\ pc \in {"events", "expire"}
  /\ since \in 0 .. LoopTime

Init ==
  /\ ms \in 0 .. Period - 1
  /\ heap = {}
  /\ node = [n \in Nodes |-> Freed]
  /\ timer = [c \in Conns |-> None]
  /\ conn = [c \in Conns |-> "new"]
  /\ pc = "events"
  /\ since = 0

-----------------------------------------------------------------------------
(* The functions of TimerNode and TimerManager.                            *)

\* TimerNode::TimerNode.  (Mutant: the sum is reduced as the clock is, which
\* would spare the test of IsExpired the values it can never reach.)
NewNode_Reduced(c, t) ==
  [ expire |-> (ms + t) % Period, data |-> c, deleted |-> FALSE, timeout |-> t,
    age |-> 0, wrapped |-> FALSE ]

NewNode(c, t) ==
  [ expire |-> ms + t, data |-> c, deleted |-> FALSE, timeout |-> t,
    age |-> 0, wrapped |-> FALSE ]

\* TimerNode::ClearNode.  (Mutant: is_deleted_ is not set.)
Cleared_NotDeleted(r) == [r EXCEPT !.data = None]

Cleared(r) == [r EXCEPT !.data = None, !.deleted = TRUE]

\* TimerNode::IsExpired.
IsExpired(n) == ms >= node[n].expire

\* Http::seperateTimer and TimerManager::AddTimerNode, as both change node.
Separated(c) == [n \in Nodes |-> IF n = timer[c] THEN Cleared(node[n]) ELSE node[n]]

AddTimerNode(c, t, nodes) ==
  \E m \in Nodes \ heap :
    /\ heap' = heap \cup {m}
    /\ node' = [nodes EXCEPT ![m] = NewNode(c, t)]
    /\ timer' = [timer EXCEPT ![c] = m]

-----------------------------------------------------------------------------
(* What the handlers of a connection do to its timer.                      *)

Handler == pc = "events" /\ UNCHANGED <<ms, pc, since>>

\* Http::Init.
Open(c) ==
  /\ Handler
  /\ conn[c] = "new"
  /\ conn' = [conn EXCEPT ![c] = "open"]
  /\ AddTimerNode(c, ExpireTime, node)

\* HandleCurrentConn on a connection that goes on.
Rearm(c) ==
  /\ Handler
  /\ conn[c] = "open"
  /\ \E t \in Timeouts : AddTimerNode(c, t, Separated(c))
  /\ UNCHANGED conn

\* Http::reset, and HandleCurrentConn on a connection the peer has ended.
SeparateTimer(c) ==
  /\ Handler
  /\ conn[c] = "open"
  /\ node' = Separated(c)
  /\ timer' = [timer EXCEPT ![c] = None]
  /\ UNCHANGED <<heap, conn>>

\* HandleClose by HandleRead or HandleCurrentConn, which also separates the timer.
Close(c) ==
  /\ Handler
  /\ conn[c] = "open"
  /\ conn' = [conn EXCEPT ![c] = "closed"]
  /\ node' = Separated(c)
  /\ timer' = [timer EXCEPT ![c] = None]
  /\ UNCHANGED heap

-----------------------------------------------------------------------------
(* TimerManager::HandleExpire.                                             *)

StartExpire ==
  /\ pc = "events"
  /\ pc' = "expire"
  /\ UNCHANGED <<ms, heap, node, timer, conn, since>>

\* priority_queue::top: a node no other node expires before.
IsTop(n) == n \in heap /\ \A m \in heap : node[n].expire <= node[m].expire

\* The top goes if it is expired or deleted; ~TimerNode calls HandleClose if
\* data_ is still set.
Pop(n) ==
  /\ pc = "expire"
  /\ IsTop(n)
  /\ IsExpired(n) \/ node[n].deleted
  /\ heap' = heap \ {n}
  /\ node' = [node EXCEPT ![n] = Freed]
  /\ timer' = [c \in Conns |-> IF timer[c] = n THEN None ELSE timer[c]]
  /\ conn' = [c \in Conns |-> IF node[n].data = c THEN "expired" ELSE conn[c]]
  /\ UNCHANGED <<ms, pc, since>>

\* (Mutant: one look at the top, whatever is behind it.)
ExpireDone_AfterOne ==
  /\ pc = "expire"
  /\ pc' = "events"
  /\ since' = 0
  /\ UNCHANGED <<ms, heap, node, timer, conn>>

\* The heap is empty, or its top is neither expired nor deleted.
ExpireDone ==
  /\ pc = "expire"
  /\ \/ heap = {}
     \/ \E n \in Nodes : IsTop(n) /\ ~IsExpired(n) /\ ~node[n].deleted
  /\ pc' = "events"
  /\ since' = 0
  /\ UNCHANGED <<ms, heap, node, timer, conn>>

-----------------------------------------------------------------------------
(* The clock.                                                              *)

Older(r) == [r EXCEPT !.age = IF @ < Period THEN @ + 1 ELSE @,
                      !.wrapped = IF ms + 1 = Period THEN TRUE ELSE @]

\* A millisecond goes by, wherever the loop is; epoll_wait's timeout and the
\* handlers together take no more than LoopTime between two HandleExpires.
Tick ==
  /\ since < LoopTime
  /\ since' = since + 1
  /\ ms' = IF ms + 1 = Period THEN 0 ELSE ms + 1
  /\ node' = [n \in Nodes |-> IF n \in heap THEN Older(node[n]) ELSE node[n]]
  /\ UNCHANGED <<heap, timer, conn, pc>>

-----------------------------------------------------------------------------

Next ==
  \/ \E c \in Conns : Open(c) \/ Rearm(c) \/ SeparateTimer(c) \/ Close(c)
  \/ StartExpire
  \/ \E n \in Nodes : Pop(n)
  \/ ExpireDone
  \/ Tick

Spec == Init /\ [][Next]_vars

-----------------------------------------------------------------------------
(* Properties.                                                             *)

\* The deadline of a connection: what is left of the timeout of its node.
Left(c) ==
  IF timer[c] = None THEN -1
  ELSE LET r == node[timer[c]]
       IN IF r.age < r.timeout THEN r.timeout - r.age ELSE 0

Abstract == INSTANCE Deadlines
              WITH left <- [c \in Conns |-> Left(c)],
                   expired <- {c \in Conns : conn[c] = "expired"}

\* Timer.cpp:39-51 and 66-77: no connection is closed by its timer before the
\* timeout it was last armed with has gone by, although the clock the timers
\* compare starts again from 0 and cleared nodes stay in the heap.
ImplementsDeadlines == Abstract!Spec

\* Timer.cpp:66-77: until the clock starts again, every node leaves the heap
\* within one turn of the loop of its timeout, whether it is live or was
\* cleared behind a live root.  So a silent connection is closed in time, and
\* the cleared nodes that re-arming leaves behind do not pile up for longer.
NeverLate ==
  \A n \in heap : ~node[n].wrapped => node[n].age < node[n].timeout + LoopTime

\* README.md:55 says that a kept-alive connection is kept for a specific
\* duration before it is disconnected: so a connection that has been silent
\* for its timeout is closed in the next turn of the loop.
KeptForDuration ==
  \A c \in Conns :
    timer[c] # None => node[timer[c]].age <= node[timer[c]].timeout + LoopTime

-----------------------------------------------------------------------------
(* The inductive invariant; its proof is in TimerProofs.                   *)

\* timer_ and data_ name each other, and a node without data_ is deleted.
Links ==
  /\ \A c \in Conns : timer[c] # None =>
       /\ timer[c] \in heap /\ node[timer[c]].data = c
       /\ conn[c] = "open"
  /\ \A n \in heap : node[n].data # None =>
       timer[node[n].data] = n /\ ~node[n].deleted
  /\ \A n \in heap : node[n].data = None => node[n].deleted
  /\ \A c \in Conns : conn[c] = "new" => timer[c] = None

\* What expire_time_ says of a node: the clock read expire - timeout when it
\* was armed.  A wrap only makes the node look younger than it is.
Clocked ==
  \A n \in heap :
    LET r == node[n]
    IN /\ r.expire >= r.timeout
       /\ r.age >= ms - (r.expire - r.timeout)
       /\ ~r.wrapped => r.age = ms - (r.expire - r.timeout)

\* No node has been expired for longer than since HandleExpire last looked.
Looked == \A n \in heap : ~node[n].wrapped => node[n].age < node[n].timeout + since

IInv ==
  /\ TypeOK
  /\ Links
  /\ Clocked
  /\ Looked
=============================================================================
