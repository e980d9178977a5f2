--------------------------- MODULE TeardownProofs ---------------------------
(***************************************************************************)
(* Proofs about Teardown, on those about Worker: the worker's invariant    *)
(* outlives its loop, through the destruction of every member of EventLoop.*)
(***************************************************************************)
EXTENDS Teardown, WorkerProofs

\* Where the loop waits nothing is being dispatched.
LEMMA AtWait ==
  ASSUME IInv, pc = "wait"
  PROVE  cur = None /\ active = {} /\ calls = {}
BY DEF IInv, Dispatching

LEMMA InitTInv == TeardownInit => TInv
<1> SUFFICES ASSUME TeardownInit PROVE TInv
  OBVIOUS
<1>1. IInv
  BY InitIInv DEF TeardownInit
<1>2. Emptied
  BY DEF TeardownInit, Emptied
<1> QED
  BY <1>1, <1>2 DEF TInv

\* While the loop runs nothing has been destroyed; it is left where it waits.
LEMMA RunStep ==
  ASSUME TInv, Run \/ Leave
  PROVE  TInv'
<1>1. CASE Run
  <2>1. IInv'
    BY <1>1, NextIInv DEF Run, TInv
  <2>2. Emptied'
    BY <1>1 DEF Run, Emptied
  <2> QED
    BY <2>1, <2>2 DEF TInv
<1>2. CASE Leave
  <2>1. IInv'
    BY <1>2, NextIInv DEF Leave, TInv
  <2>2. Emptied'
    BY <1>2 DEF Leave, Emptied, TInv, vars, loopVars
  <2> QED
    BY <2>1, <2>2 DEF TInv
<1> QED
  BY <1>1, <1>2

\* The main thread and the peers touch none of what has been emptied.
LEMMA OutsideStep ==
  ASSUME TInv, Outside
  PROVE  TInv'
<1>1. IInv /\ Emptied /\ loop # "runs" /\ loop' = loop
  BY DEF TInv, Outside
<1>2. CASE \E c \in Conns, f \in Fds : loop = "left" /\ Accept(c, f)
  <2>1. IInv'
    BY <1>1, <1>2, AcceptStep
  <2>2. Emptied'
    BY <1>1, <1>2 DEF Accept, Emptied
  <2> QED
    BY <2>1, <2>2 DEF TInv
<1>3. CASE \E c \in Conns : PeerSends(c) \/ PeerReads(c) \/ PeerShutsDown(c) \/ PeerResets(c)
  <2>1. IInv'
    BY <1>1, <1>3, EnvironmentStep
  <2>2. UNCHANGED <<loopVars, httpVars>>
    BY <1>3 DEF PeerSends, PeerReads, PeerShutsDown, PeerResets
  <2>3. Emptied'
    BY <1>1, <2>2 DEF Emptied, InTable, Created, loopVars, httpVars
  <2> QED
    BY <2>1, <2>3 DEF TInv
<1> QED
  BY <1>2, <1>3 DEF Outside

\* The Http of a closure was never registered: only its object goes.
LEMMA DropClosureStep ==
  ASSUME TInv, NEW c \in Conns, DropClosure(c)
  PROVE  TInv'
<1>1. /\ IInv /\ Emptied /\ queue' = queue \ {c} /\ loop = "callback_list"
      /\ UNCHANGED <<calls, active, revents, cur, pc, httpVars, kernelVars, proc, stale, loop>>
  BY DEF DropClosure, TInv
<1>2. TypeOK'
  BY <1>1 DEF IInv, TypeOK, httpVars, kernelVars
<1>3. \A d \in Conns : /\ (InTable(d)' <=> InTable(d)) /\ (Created(d)' <=> Created(d))
                       /\ (Untouched(d)' <=> Untouched(d)) /\ (Serving(d)' <=> Serving(d))
                       /\ Referenced(d)' => Referenced(d)
  BY <1>1 DEF InTable, Created, Untouched, Serving, Referenced, httpVars
<1>4. Owners'
  <2>1. table' = table /\ fd' = fd /\ mask' = mask /\ ready' = ready
    BY <1>1 DEF httpVars, kernelVars
  <2> QED
    BY <1>1, <1>3, <2>1 DEF IInv, Owners
<1>5. Callbacks'
  <2>1. queue' \subseteq queue /\ calls' = calls
    BY <1>1
  <2> QED
    BY <1>1, <1>2, <1>3, <2>1 DEF IInv, TypeOK, Callbacks
<1>6. Timers' /\ Dispatching' /\ NoAbort'
  <2>1. nodes' = nodes /\ linked' = linked /\ http' = http
    BY <1>1 DEF httpVars
  <2>2. Timers' /\ NoAbort'
    BY <1>1, <2>1 DEF IInv, Timers, NoAbort
  <2>3. Dispatching'
    <3>1. cur = None /\ active = {} /\ calls = {} /\ pc = "wait"
      BY <1>1, AtWait DEF Emptied
    <3> QED
      BY <1>1, <3>1 DEF Dispatching
  <2> QED
    BY <2>2, <2>3
<1>7. Conditions'
  <2>1. http' = http /\ nodes' = nodes /\ cur' = cur /\ stale' = stale
    BY <1>1 DEF httpVars
  <2> QED
    BY <1>1, <1>3, <2>1 DEF IInv, Conditions, Consistent
<1>8. Emptied'
  BY <1>1, <1>3 DEF Emptied
<1> QED
  BY <1>2, <1>4, <1>5, <1>6, <1>7, <1>8 DEF TInv, IInv

\* fd2http_ outlives the heap, so a node that dies finds its connection there.
LEMMA DropNodeStep ==
  ASSUME TInv, NEW c \in Conns, DropNode(c)
  PROVE  TInv'
<1>1. /\ IInv /\ Emptied /\ loop = "timer_manager" /\ loop' = loop
      /\ NodeDies(c) /\ cur = None /\ active = {}
  BY AtWait DEF DropNode, TInv, Emptied
<1>2. IInv'
  BY <1>1, NodeDiesStep
<1>3. Emptied'
  BY <1>1 DEF NodeDies, Emptied, loopVars
<1> QED
  BY <1>2, <1>3 DEF TInv

\* An entry that goes takes its registration with it, and no timer is left.
LEMMA DropEntryStep ==
  ASSUME TInv, NEW c \in Conns, DropEntry(c)
  PROVE  TInv'
<1> USE DEF TInv
<1>1. /\ IInv /\ Emptied /\ loop = "fd2http" /\ loop' = loop /\ InTable(c)
      /\ UNCHANGED <<loopVars, http, fd, nodes, linked, inq, room, peer, sends, proc, stale>>
  BY DEF DropEntry
<1>2. /\ cur = None /\ pc = "wait" /\ queue = {} /\ \A d \in Conns : nodes[d] = 0
  BY <1>1, AtWait DEF Emptied
<1>3. fd[c] \in Fds /\ table[fd[c]] = c /\ c # None
  BY <1>1, WorkerAssumption DEF InTable, Created, IInv, TypeOK
<1>4. /\ table' \in [Fds -> Conns \cup {None}]
      /\ mask' \in [Conns -> SUBSET Interest]
      /\ ready' \in [Conns -> BOOLEAN]
  BY DEF DropEntry, IInv, TypeOK
<1>5. \A d \in Conns : InTable(d)' <=> InTable(d) /\ d # c
  BY <1>1, <1>3, WorkerAssumption DEF DropEntry, InTable, Created, IInv, TypeOK
<1>6. TypeOK'
  BY <1>1, <1>4 DEF IInv, TypeOK, loopVars
<1>7. Owners'
  <2>1. \A d \in Conns : Referenced(d)' => Referenced(d)
    BY <1>1, <1>5 DEF Referenced, loopVars
  <2>2. \A f \in Fds : table'[f] # None => fd'[table'[f]] = f
    BY <1>1, <1>3 DEF DropEntry, IInv, Owners, TypeOK
  <2>3. \A d \in Conns : (mask'[d] # {} <=> InTable(d)') /\ (ready'[d] => InTable(d)')
    BY <1>1, <1>5 DEF DropEntry, IInv, Owners, TypeOK
  <2> QED
    BY <1>1, <2>1, <2>2, <2>3 DEF IInv, Owners
<1>8. Callbacks'
  <2>1. queue' = {} /\ calls' = {}
    BY <1>1, <1>2, AtWait DEF loopVars
  <2>2. \A d \in Conns : (Created(d)' <=> Created(d)) /\ (Untouched(d) => Untouched(d)')
    BY <1>1, <1>5 DEF Created, Untouched
  <2> QED
    BY <1>1, <2>1, <2>2 DEF IInv, Callbacks
<1>9. Timers' /\ Dispatching' /\ NoAbort'
  <2>1. active' = {} /\ cur' = None /\ pc' = "wait" /\ calls' = {}
    BY <1>1, <1>2, AtWait DEF loopVars
  <2> QED
    BY <1>1, <2>1 DEF IInv, Timers, Dispatching, NoAbort
<1>10. Conditions'
  <2>1. \A d \in Conns : ~Serving(d)
    BY <1>1, <1>2, WorkerAssumption DEF IInv, Conditions, Consistent
  <2>2. \A d \in Conns : ~Serving(d)' /\ nodes'[d] = 0
    BY <1>1, <1>2, <1>5, <2>1 DEF Serving
  <2> QED
    BY <1>1, <1>5, <2>2 DEF IInv, Conditions, Consistent
<1>11. Emptied'
  <2>1. pc' = "wait" /\ queue' = {} /\ nodes' = nodes
    BY <1>1, <1>2 DEF loopVars
  <2> QED
    BY <1>1, <1>2, <2>1 DEF Emptied
<1> QED
  BY <1>6, <1>7, <1>8, <1>9, <1>10, <1>11 DEF IInv

\* A member is left only when it holds nothing.
LEMMA NextMemberStep ==
  ASSUME TInv, NextMember
  PROVE  TInv'
<1>1. IInv'
  BY NextIInv DEF NextMember, TInv
<1>2. /\ UNCHANGED <<queue, pc, nodes, table, fd>> /\ Emptied /\ queue \subseteq Conns
      /\ nodes \in [Conns -> Nat]
      /\ loop' = Following[loop] /\ loop \in DOMAIN Following
      /\ \A c \in Conns : ~Holds(loop, c)
  BY DEF NextMember, TInv, IInv, TypeOK, vars, loopVars, httpVars
<1>3. DOMAIN Following = {"left", "callback_list", "timer_manager", "fd2http"}
  BY DEF Following
<1>4. CASE loop = "callback_list"
  <2>1. queue = {} /\ loop' = "timer_manager"
    BY <1>2, <1>4 DEF Holds, Following
  <2> QED
    BY <1>1, <1>2, <1>4, <2>1 DEF TInv, Emptied, Following
<1>5. CASE loop = "timer_manager"
  <2>1. loop' = "fd2http" /\ queue = {} /\ \A c \in Conns : nodes[c] = 0
    BY <1>2, <1>5 DEF Holds, Following, Emptied
  <2> QED
    BY <1>1, <1>2, <1>5, <2>1 DEF TInv, Emptied, Following
<1>6. CASE loop = "fd2http"
  <2>1. /\ loop' = "gone" /\ queue = {} /\ \A c \in Conns : nodes[c] = 0
        /\ \A c \in Conns : ~InTable(c) /\ ~InTable(c)'
    BY <1>2, <1>6 DEF Holds, Following, Emptied, InTable, Created
  <2> QED
    BY <1>1, <1>2, <1>6, <2>1 DEF TInv, Emptied, Following
<1>7. CASE loop = "left"
  <2>1. loop' = "callback_list"
    BY <1>2, <1>7 DEF Following
  <2> QED
    BY <1>1, <1>2, <1>7, <2>1 DEF TInv, Emptied, Following
<1> QED
  BY <1>2, <1>3, <1>4, <1>5, <1>6, <1>7

LEMMA NextTInv == TInv /\ [TeardownNext]_teardownVars => TInv'
<1> SUFFICES ASSUME TInv, [TeardownNext]_teardownVars PROVE TInv'
  OBVIOUS
<1>1. CASE UNCHANGED teardownVars
  <2>1. IInv'
    BY <1>1, NextIInv DEF TInv, teardownVars
  <2>2. Emptied'
    BY <1>1 DEF TInv, Emptied, InTable, Created, teardownVars, vars, loopVars, httpVars
  <2> QED
    BY <2>1, <2>2 DEF TInv
<1>2. CASE Destruction
  BY <1>2, DropClosureStep, DropNodeStep, DropEntryStep, NextMemberStep DEF Destruction
<1> QED
  BY <1>1, <1>2, RunStep, OutsideStep DEF TeardownNext

\* The invariant holds while the loop runs and while it is destroyed, for any
\* number of connections and descriptors.
THEOREM TeardownInvariance == TeardownSpec => []TInv
<1>1. TeardownInit => TInv
  BY InitTInv
<1>2. TInv /\ [TeardownNext]_teardownVars => TInv'
  BY NextTInv
<1> QED
  BY <1>1, <1>2, PTL DEF TeardownSpec

\* EpollDel's assertion does not fail while the Epoll that it is a member of is
\* being destroyed either.
THEOREM NeverAbortsLate == TeardownSpec => []NoAbort
<1>1. TInv => NoAbort
  BY DEF TInv, IInv
<1> QED
  BY <1>1, TeardownInvariance, PTL

\* What is left for the maps to release when no timer is left is half-closed.
THEOREM OnlyHalfClosed == TeardownSpec => []HalfClosedLast
<1>1. TInv => HalfClosedLast
  <2> SUFFICES ASSUME TInv, loop = "fd2http", NEW c \in Conns, InTable(c)
               PROVE  http[c].connectionState = "DISCONNECTING"
    BY DEF HalfClosedLast
  <2>1. cur = None /\ nodes[c] = 0 /\ c # None
    BY AtWait, WorkerAssumption DEF TInv, Emptied
  <2>2. ~Serving(c) /\ http[c].connectionState # "DISCONNECTED"
    BY <2>1 DEF TInv, IInv, Conditions, Consistent
  <2>3. http[c] \in HttpObject
    BY DEF TInv, IInv, TypeOK
  <2> QED
    BY <2>2, <2>3 DEF Serving, HttpObject, ConnectionState
<1> QED
  BY <1>1, TeardownInvariance, PTL
=============================================================================
