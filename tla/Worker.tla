------------------------------- MODULE Worker -------------------------------
(***************************************************************************)
(* One worker thread: EventLoop::Loop with its Epoll, its TimerManager and *)
(* the Http connections the main thread hands to it, together with the     *)
(* kernel's side of their sockets and with the peers.                      *)
(*                                                                         *)
(* The thread runs one handler at a time; between two handlers (and        *)
(* between the parts of Channel::HandleEvents that make system calls) the  *)
(* peers and the main thread may act.  What the handlers do to an Http     *)
(* object is in HttpHandlers; this module adds what they do around it:     *)
(* epoll registration, timer nodes, the fd table and object lifetime.      *)
(*                                                                         *)
(* Http objects are owned by shared_ptrs.  The references are: the closure *)
(* std::bind(&Http::Init, http) while it is queued or about to run, the    *)
(* entry of fd2http_, and data_ of each live timer node.  An object with   *)
(* none of them has been destroyed and its fd closed.                      *)
(*                                                                         *)
(* Left out here: the loop's own exit (module Reactor), the length of the  *)
(* timeouts (an armed node may expire at any HandleExpire), the bytes of   *)
(* the messages.                                                           *)
(***************************************************************************)
EXTENDS HttpHandlers, FiniteSets

CONSTANTS
  Conns,       \* Http objects the main thread may create in a behaviour
  Fds,         \* file descriptor numbers accept() may return for them
  None,        \* no connection / no descriptor
  KeepAlive,   \* the keep_alive argument of each Http::Http (Server passes true)
  PeerMay,     \* which of "fin", "rst" a peer may send
  MaxSends,    \* bound: pieces of requests a peer sends on one connection
  SendRoom     \* pieces the kernel's send buffer of a socket holds

ASSUME WorkerAssumption ==
  /\ None \notin Conns
  /\ None \notin Fds
  /\ KeepAlive \in [Conns -> BOOLEAN]
  /\ PeerMay \subseteq {"fin", "rst"}
  /\ MaxSends \in Nat
  /\ SendRoom \in Nat

VARIABLES
  http,     \* the Http objects
  fd,       \* their fd_ (None: not created yet)
  queue,    \* callback_list_: connections whose Http::Init is queued
  calls,    \* to_copy_list of the running DoCallbacks
  table,    \* fd2channel_ and fd2http_ (they hold the same keys for these fds)
  nodes,    \* live timer nodes (data_ set) of each connection
  linked,   \* whether timer_.lock() yields a node
  active,   \* returned_channels of this iteration not dispatched yet
  revents,  \* active_events_ of each channel
  cur,      \* the connection whose HandleEvents is running
  pc,       \* where Loop is
  mask,     \* kernel: the interest registered with epoll ({}: not registered)
  ready,    \* kernel: on the epoll ready list
  inq,      \* kernel: pieces received and not read
  room,     \* kernel: free pieces of the send buffer
  peer,     \* "open", or the "fin" or "rst" that ended the peer's stream
  sends,    \* pieces the peer has sent
  proc,     \* the process: "run", "abort" (assert failed), "sigpipe" (killed)
  stale     \* connections a member function of which ran after ~Http

loopVars   == <<queue, calls, active, revents, cur, pc>>
httpVars   == <<http, fd, table, nodes, linked>>
kernelVars == <<mask, ready, inq, room, peer, sends>>
vars == <<loopVars, httpVars, kernelVars, proc, stale>>

PeerState == {"open", "fin", "rst"}
PCs == {"wait", "dispatch", "read", "conn", "callbacks", "expire"}

TypeOK ==
  /\ http \in [Conns -> HttpObject]
  /\ fd \in [Conns -> Fds \cup {None}]
  /\ queue \subseteq Conns
  /\ calls \subseteq Conns
  /\ table \in [Fds -> Conns \cup {None}]
  /\ nodes \in [Conns -> Nat]
  /\ linked \in [Conns -> BOOLEAN]
  /\ active \subseteq Conns
  /\ revents \in [Conns -> SUBSET {"IN", "OUT", "HUP"}]
  /\ cur \in Conns \cup {None}
  /\ pc \in PCs
  /\ mask \in [Conns -> SUBSET Interest]
  /\ ready \in [Conns -> BOOLEAN]
  /\ inq \in [Conns -> Nat]
  /\ room \in [Conns -> Nat]
  /\ peer \in [Conns -> PeerState]
  /\ sends \in [Conns -> Nat]
  /\ proc \in {"run", "abort", "sigpipe"}
  /\ stale \subseteq Conns

Init ==
  /\ http = [c \in Conns |-> NewHttp(KeepAlive[c])]
  /\ fd = [c \in Conns |-> None]
  /\ queue = {}
  /\ calls = {}
  /\ table = [f \in Fds |-> None]
  /\ nodes = [c \in Conns |-> 0]
  /\ linked = [c \in Conns |-> FALSE]
  /\ active = {}
  /\ revents = [c \in Conns |-> {}]
  /\ cur = None
  /\ pc = "wait"
  /\ mask = [c \in Conns |-> {}]
  /\ ready = [c \in Conns |-> FALSE]
  /\ inq = [c \in Conns |-> 0]
  /\ room = [c \in Conns |-> SendRoom]
  /\ peer = [c \in Conns |-> "open"]
  /\ sends = [c \in Conns |-> 0]
  /\ proc = "run"
  /\ stale = {}

-----------------------------------------------------------------------------
(* Ownership.                                                              *)

Created(c)    == fd[c] # None
InTable(c)    == Created(c) /\ table[fd[c]] = c
Referenced(c) == c \in queue \/ c \in calls \/ InTable(c) \/ nodes[c] > 0

-----------------------------------------------------------------------------
(* The kernel: what a socket is ready for, and edge-triggered epoll.       *)

\* poll() of the socket of c.  After a RST everything is ready and EPOLLHUP set.
Poll(c) ==
  (IF inq[c] > 0 \/ peer[c] # "open" THEN {"IN"} ELSE {}) \cup
  (IF room[c] > 0 \/ peer[c] = "rst" THEN {"OUT"} ELSE {}) \cup
  (IF peer[c] = "rst" THEN {"HUP"} ELSE {})

\* What epoll_wait reports for c: EPOLLHUP needs no registration.
Reported(c) == Poll(c) \cap (mask[c] \cup {"HUP"})

\* EPOLL_CTL_ADD and EPOLL_CTL_MOD: the new mask is polled at once, so a
\* condition that already holds makes an edge.
Register(c, events) ==
  /\ mask' = [mask EXCEPT ![c] = events]
  /\ ready' = [ready EXCEPT ![c] = @ \/ Poll(c) \cap (events \cup {"HUP"}) # {}]

\* A condition that begins to hold makes an edge for those who asked for it.
Edge(c, event) ==
  ready' = [ready EXCEPT ![c] = @ \/ (mask[c] # {} /\ event \in mask[c] \cup {"HUP"})]

-----------------------------------------------------------------------------
(* Steps several handlers share.                                           *)

\* Http::seperateTimer: the node's data_ is reset, timer_ forgotten.
\* (Mutant: no test of timer_.lock().)
SeparateTimer_Unchecked(c) ==
  /\ nodes' = [nodes EXCEPT ![c] = @ - 1]
  /\ linked' = [linked EXCEPT ![c] = FALSE]

SeparateTimer(c) ==
  IF linked[c]
    THEN /\ nodes' = [nodes EXCEPT ![c] = @ - 1]
         /\ linked' = [linked EXCEPT ![c] = FALSE]
    ELSE UNCHANGED <<nodes, linked>>

\* EventLoop::UpdateEpoller with a positive timeout, after seperateTimer:
\* EPOLL_CTL_MOD, and TimerManager::AddTimerNode links a new node.
\* (Mutants: the old node is left in place; the timeout is 0.)
UpdateEpoller_TwoNodes(c, events) ==
  /\ Register(c, events)
  /\ nodes' = [nodes EXCEPT ![c] = @ + 1]
  /\ linked' = [linked EXCEPT ![c] = TRUE]

UpdateEpoller_NoTimer(c, events) ==
  /\ Register(c, events)
  /\ nodes' = [nodes EXCEPT ![c] = IF linked[c] THEN @ - 1 ELSE @]
  /\ linked' = [linked EXCEPT ![c] = FALSE]

UpdateEpoller(c, events) ==
  /\ Register(c, events)
  /\ nodes' = [nodes EXCEPT ![c] = IF linked[c] THEN @ ELSE @ + 1]
  /\ linked' = [linked EXCEPT ![c] = TRUE]

\* Epoll::EpollDel: EPOLL_CTL_DEL, and both maps lose the key; the assertion
\* n == 1 wants it to have been there.  A write that met a reset peer
\* (broken) has killed the process before.
\* (Mutant: it returns when epoll_ctl is done and leaves the maps alone.)
EpollDel_KeepsEntry(c, broken) ==
  /\ mask' = [mask EXCEPT ![c] = {}]
  /\ ready' = [ready EXCEPT ![c] = FALSE]
  /\ proc' = IF broken THEN "sigpipe"
             ELSE IF table[fd[c]] = None THEN "abort" ELSE proc
  /\ UNCHANGED table

EpollDel(c, broken) ==
  /\ table' = [table EXCEPT ![fd[c]] = None]
  /\ mask' = [mask EXCEPT ![c] = {}]
  /\ ready' = [ready EXCEPT ![c] = FALSE]
  /\ proc' = IF broken THEN "sigpipe"
             ELSE IF table[fd[c]] = None THEN "abort" ELSE proc

\* Http::HandleClose leaves the object in this state.
ClosedHttp(h) == [h EXCEPT !.connectionState = "DISCONNECTED"]

\* A response is written in two calls (HandleWrite calls WriteToFd twice,
\* HandleError once for the header and once for the body): after a RST the
\* first call clears the socket's error, the second raises SIGPIPE.
Broken(c) == peer[c] = "rst"

-----------------------------------------------------------------------------
(* EventLoop::Loop: waiting and dispatching.                               *)

\* Epoll::EpollWait.  It returns the ready channels, or none after its
\* timeout or the wakeup fd; each edge is reported once.
EpollWait ==
  /\ pc = "wait"
  /\ active' = {c \in Conns : ready[c] /\ Reported(c) # {}}
  /\ revents' = [c \in Conns |-> IF c \in active' THEN Reported(c) ELSE revents[c]]
  /\ http' = [c \in Conns |-> IF c \in active' THEN [http[c] EXCEPT !.toListen = {}]
                                               ELSE http[c]]
  /\ ready' = [c \in Conns |-> FALSE]
  /\ pc' = "dispatch"
  /\ UNCHANGED <<queue, calls, cur, fd, table, nodes, linked, mask, inq, room, peer,
                 sends, proc, stale>>

\* Channel::HandleEvents returns at once on a hangup without input.
DispatchHangup(c) ==
  /\ pc = "dispatch"
  /\ c \in active
  /\ "HUP" \in revents[c] /\ "IN" \notin revents[c]
  /\ active' = active \ {c}
  /\ UNCHANGED <<queue, calls, revents, cur, pc, httpVars, kernelVars, proc, stale>>

\* Channel::HandleEvents on EPOLLOUT: Http::HandleWrite comes first.
DispatchWrite(c) ==
  /\ pc = "dispatch"
  /\ c \in active
  /\ "OUT" \in revents[c]
  /\ "HUP" \notin revents[c] \/ "IN" \in revents[c]
  /\ active' = active \ {c}
  /\ cur' = c
  /\ pc' = IF "IN" \in revents[c] THEN "read" ELSE "conn"
  /\ http' = [http EXCEPT ![c] = HandleWrite(@, room[c])]
  /\ room' = [room EXCEPT ![c] = @ - Written(http[c], @)]
  /\ proc' = IF Broken(c) /\ http[c].writeBuffer > 0 THEN "sigpipe" ELSE proc
  /\ UNCHANGED <<queue, calls, revents, fd, table, nodes, linked, mask, ready, inq, peer,
                 sends, stale>>

\* Channel::HandleEvents on EPOLLIN alone.
DispatchRead(c) ==
  /\ pc = "dispatch"
  /\ c \in active
  /\ "IN" \in revents[c] /\ "OUT" \notin revents[c]
  /\ active' = active \ {c}
  /\ cur' = c
  /\ pc' = "read"
  /\ UNCHANGED <<queue, calls, revents, httpVars, kernelVars, proc, stale>>

-----------------------------------------------------------------------------
(* Http::HandleRead, one turn of its recursion; g is the object after      *)
(* ReadFromFd and the parsers.                                             *)

\* The request was refused: HandleError has written an error page to the
\* socket, HandleClose follows.  The timer node still owns the object.
ReadFailed(c, g) ==
  /\ g.hasError
  /\ http' = [http EXCEPT ![c] = ClosedHttp(g)]
  /\ EpollDel(c, Broken(c))
  /\ pc' = "conn"
  /\ UNCHANGED <<nodes, linked, room>>

\* The request was answered: reset(), and the next pipelined request unless
\* the peer has ended its stream.
\* (Mutant: HandleClose() instead of reset(), as a comment there suggests.)
RequestDone_Closes(c, g) ==
  /\ ~g.hasError
  /\ g.processState = "FINISH"
  /\ http' = [http EXCEPT ![c] = ClosedHttp(HandleWrite(g, room[c]))]
  /\ room' = [room EXCEPT ![c] = @ - Written(g, @)]
  /\ EpollDel(c, FALSE)
  /\ pc' = "conn"
  /\ UNCHANGED <<nodes, linked>>

RequestDone(c, g) ==
  /\ ~g.hasError
  /\ g.processState = "FINISH"
  /\ http' = [http EXCEPT ![c] = ResetRequest(HandleWrite(g, room[c]))]
  /\ room' = [room EXCEPT ![c] = @ - Written(g, @)]
  /\ proc' = IF Broken(c) /\ g.writeBuffer > 0 THEN "sigpipe" ELSE proc
  /\ SeparateTimer(c)
  /\ pc' = IF g.readBuffer > 0 /\ g.connectionState # "DISCONNECTING"
             THEN "read" ELSE "conn"
  /\ UNCHANGED <<table, mask, ready>>

\* The request is not complete (or the connection is ending).
NeedMore(c, g) ==
  /\ ~g.hasError
  /\ g.processState # "FINISH"
  /\ http' = [http EXCEPT ![c] = AskForMore(HandleWrite(g, room[c]), http[c].toListen)]
  /\ room' = [room EXCEPT ![c] = @ - Written(g, @)]
  /\ proc' = IF Broken(c) /\ g.writeBuffer > 0 THEN "sigpipe" ELSE proc
  /\ pc' = "conn"
  /\ UNCHANGED <<table, nodes, linked, mask, ready>>

HandleRead(c) ==
  /\ pc = "read"
  /\ cur = c
  /\ inq' = [inq EXCEPT ![c] = 0]
  /\ \E g \in Received(http[c], inq[c], peer[c] = "fin", peer[c] = "rst") :
       ReadFailed(c, g) \/ RequestDone(c, g) \/ NeedMore(c, g)
  /\ UNCHANGED <<queue, calls, active, revents, cur, fd, peer, sends, stale>>

-----------------------------------------------------------------------------
(* Http::HandleCurrentConn, the connection callback every HandleEvents     *)
(* ends with.  It calls seperateTimer() before anything else.              *)

ConnStep(c) ==
  /\ pc = "conn"
  /\ cur = c
  /\ cur' = None
  /\ pc' = "dispatch"
  /\ UNCHANGED <<queue, calls, active, revents, fd, inq, room, peer, sends>>

\* CONNECTED and still interested in something: wait until the socket is
\* writable, even if what is missing is input.
ConnWantsOutput(c) ==
  /\ ConnStep(c)
  /\ ~http[c].hasError /\ http[c].connectionState = "CONNECTED"
  /\ http[c].toListen # {}
  /\ http' = [http EXCEPT ![c].toListen = {"OUT"}]
  /\ UpdateEpoller(c, {"OUT"})
  /\ UNCHANGED <<table, proc, stale>>

\* CONNECTED, nothing pending, keep-alive: wait for the next request.
\* (Mutants: the test of has_error_ and connectionState_ is gone; epoll is
\* not told.)
ConnIdles_Unguarded(c) ==
  /\ ConnStep(c)
  /\ http[c].toListen = {} /\ http[c].keepAlive
  /\ http' = [http EXCEPT ![c].toListen = {"IN"}]
  /\ UpdateEpoller(c, {"IN"})
  /\ UNCHANGED <<table, proc, stale>>

ConnIdles_Untold(c) ==
  /\ ConnStep(c)
  /\ ~http[c].hasError /\ http[c].connectionState = "CONNECTED"
  /\ http[c].toListen = {} /\ http[c].keepAlive
  /\ http' = [http EXCEPT ![c].toListen = {"IN"}]
  /\ UNCHANGED <<table, nodes, linked, mask, ready, proc, stale>>

ConnIdles(c) ==
  /\ ConnStep(c)
  /\ ~http[c].hasError /\ http[c].connectionState = "CONNECTED"
  /\ http[c].toListen = {} /\ http[c].keepAlive
  /\ http' = [http EXCEPT ![c].toListen = {"IN"}]
  /\ UpdateEpoller(c, {"IN"})
  /\ UNCHANGED <<table, proc, stale>>

\* Nothing pending on a short connection, or on one the peer has ended:
\* HandleClose drops the last reference.
ConnCloses(c) ==
  /\ ConnStep(c)
  /\ ~http[c].hasError
  /\ \/ http[c].connectionState = "CONNECTED" /\ http[c].toListen = {} /\ ~http[c].keepAlive
     \/ http[c].connectionState = "DISCONNECTING" /\ "OUT" \notin http[c].toListen
  /\ http' = [http EXCEPT ![c] = ClosedHttp(@)]
  /\ SeparateTimer(c)
  /\ EpollDel(c, FALSE)
  /\ UNCHANGED stale

\* The peer has ended its stream and output is left: the Channel asks for
\* EPOLLOUT, but epoll is not told and no timer is armed.
ConnDrains(c) ==
  /\ ConnStep(c)
  /\ ~http[c].hasError
  /\ http[c].connectionState = "DISCONNECTING" /\ "OUT" \in http[c].toListen
  /\ http' = [http EXCEPT ![c].toListen = {"OUT"}]
  /\ SeparateTimer(c)
  /\ UNCHANGED <<table, mask, ready, proc, stale>>

\* After HandleClose: seperateTimer() drops the timer's reference, which was
\* the last one, and the function goes on reading the destroyed object (its
\* memory still says has_error_, so nothing else happens).
ConnAfterClose(c) ==
  /\ ConnStep(c)
  /\ http[c].hasError \/ http[c].connectionState = "DISCONNECTED"
  /\ SeparateTimer(c)
  /\ stale' = IF c \in queue \/ c \in calls \/ InTable(c) \/ nodes'[c] > 0
                THEN stale ELSE stale \cup {c}
  /\ UNCHANGED <<http, table, mask, ready, proc>>

HandleCurrentConn(c) ==
  \/ ConnWantsOutput(c)
  \/ ConnIdles(c)
  \/ ConnCloses(c)
  \/ ConnDrains(c)
  \/ ConnAfterClose(c)

-----------------------------------------------------------------------------
(* EventLoop::Loop: callbacks and timers.                                  *)

\* EventLoop::DoCallbacks takes the whole list under the mutex.
\* (Mutant: the local list is never swapped with callback_list_.)
TakeCallbacks_NoSwap ==
  /\ pc = "dispatch"
  /\ active = {}
  /\ calls' = {}
  /\ pc' = "callbacks"
  /\ UNCHANGED <<queue, active, revents, cur, httpVars, kernelVars, proc, stale>>

TakeCallbacks ==
  /\ pc = "dispatch"
  /\ active = {}
  /\ calls' = queue
  /\ queue' = {}
  /\ pc' = "callbacks"
  /\ UNCHANGED <<active, revents, cur, httpVars, kernelVars, proc, stale>>

\* Http::Init run by DoCallbacks: EpollAdd arms the 3 s timer, registers the
\* fd and fills the maps (insert() keeps an entry that is already there).
HttpInit(c) ==
  /\ pc = "callbacks"
  /\ c \in calls
  /\ calls' = calls \ {c}
  /\ http' = [http EXCEPT ![c].toListen = {"IN"}]
  /\ Register(c, {"IN"})
  /\ nodes' = [nodes EXCEPT ![c] = @ + 1]
  /\ linked' = [linked EXCEPT ![c] = TRUE]
  /\ table' = [table EXCEPT ![fd[c]] = IF @ = None THEN c ELSE @]
  /\ UNCHANGED <<queue, active, revents, cur, pc, fd, inq, room, peer, sends, proc, stale>>

CallbacksDone ==
  /\ pc = "callbacks"
  /\ calls = {}
  /\ pc' = "expire"
  /\ UNCHANGED <<queue, calls, active, revents, cur, httpVars, kernelVars, proc, stale>>

\* A live node is destroyed: ~TimerNode calls HandleClose on its data_, then lets
\* go of it.
NodeDies(c) ==
  /\ nodes[c] > 0
  /\ nodes' = [nodes EXCEPT ![c] = @ - 1]
  /\ linked' = [linked EXCEPT ![c] = @ /\ nodes[c] > 1]
  /\ http' = [http EXCEPT ![c] = ClosedHttp(@)]
  /\ EpollDel(c, FALSE)
  /\ UNCHANGED <<loopVars, fd, inq, room, peer, sends, stale>>

\* TimerManager::HandleExpire pops a node that has expired.
Expire(c) == pc = "expire" /\ NodeDies(c)

ExpireDone ==
  /\ pc = "expire"
  /\ pc' = "wait"
  /\ UNCHANGED <<queue, calls, active, revents, cur, httpVars, kernelVars, proc, stale>>

-----------------------------------------------------------------------------
(* The main thread and the peers.                                          *)

\* Server::HandleNewConn: accept() returns a number that is not in use, and
\* Http::Init of the new object is queued for this loop.
Accept(c, f) ==
  /\ ~Created(c)
  /\ \A d \in Conns : fd[d] = f => ~Referenced(d)
  /\ fd' = [fd EXCEPT ![c] = f]
  /\ queue' = queue \cup {c}
  /\ UNCHANGED <<http, table, nodes, linked, calls, active, revents, cur, pc, kernelVars,
                 proc, stale>>

PeerSends(c) ==
  /\ Created(c)
  /\ peer[c] = "open" /\ sends[c] < MaxSends
  /\ sends' = [sends EXCEPT ![c] = @ + 1]
  /\ inq' = [inq EXCEPT ![c] = @ + 1]
  /\ Edge(c, "IN")
  /\ UNCHANGED <<loopVars, httpVars, mask, room, peer, proc, stale>>

\* The peer takes a piece; space in a full send buffer makes an edge.
PeerReads(c) ==
  /\ Created(c)
  /\ peer[c] # "rst" /\ room[c] < SendRoom
  /\ room' = [room EXCEPT ![c] = @ + 1]
  /\ IF room[c] = 0 THEN Edge(c, "OUT") ELSE UNCHANGED ready
  /\ UNCHANGED <<loopVars, httpVars, mask, inq, peer, sends, proc, stale>>

PeerShutsDown(c) ==
  /\ Created(c)
  /\ "fin" \in PeerMay /\ peer[c] = "open"
  /\ peer' = [peer EXCEPT ![c] = "fin"]
  /\ Edge(c, "IN")
  /\ UNCHANGED <<loopVars, httpVars, mask, inq, room, sends, proc, stale>>

PeerResets(c) ==
  /\ Created(c)
  /\ "rst" \in PeerMay /\ peer[c] # "rst"
  /\ peer' = [peer EXCEPT ![c] = "rst"]
  /\ Edge(c, "HUP")
  /\ UNCHANGED <<loopVars, httpVars, mask, inq, room, sends, proc, stale>>

-----------------------------------------------------------------------------

\* The worker thread, but for the nodes that happen to expire.
LoopStep ==
  \/ EpollWait
  \/ \E c \in Conns : DispatchHangup(c) \/ DispatchWrite(c) \/ DispatchRead(c)
  \/ \E c \in Conns : HandleRead(c)
  \/ \E c \in Conns : HandleCurrentConn(c)
  \/ TakeCallbacks
  \/ \E c \in Conns : HttpInit(c)
  \/ CallbacksDone
  \/ ExpireDone

Environment ==
  \/ \E c \in Conns, f \in Fds : Accept(c, f)
  \/ \E c \in Conns : PeerSends(c) \/ PeerReads(c) \/ PeerShutsDown(c) \/ PeerResets(c)

\* A process that was killed does nothing any more.
Next ==
  /\ proc = "run"
  /\ \/ LoopStep
     \/ \E c \in Conns : Expire(c)
     \/ Environment

Spec == Init /\ [][Next]_vars

\* The worker thread is scheduled; a node that is armed again and again when
\* HandleExpire looks has passed its time in one of those looks.
Fairness ==
  /\ WF_vars(proc = "run" /\ LoopStep)
  /\ \A c \in Conns : SF_vars(proc = "run" /\ Expire(c))

FairSpec == Spec /\ Fairness

-----------------------------------------------------------------------------
(* Properties.                                                             *)

AtRest == pc = "wait"

\* Connections the loop still expects something from.
Serving(c) == InTable(c) /\ http[c].connectionState = "CONNECTED"

\* Output is left for a peer that has ended its own stream.
Stranded(c) == /\ InTable(c)
               /\ http[c].connectionState = "DISCONNECTING"
               /\ http[c].writeBuffer > 0

\* The assertion n == 1 of Epoll::EpollDel never fails: whichever of the error
\* path, HandleCurrentConn and a timer closes a connection first, no other
\* closes it again.
NoAbort == proc # "abort"

\* Epoll::fd2channel_ against the kernel: no two objects that still exist have
\* the same fd, the entry of an fd is the connection that has it now, and a
\* connection is registered with epoll exactly while it has its entry.
FdOwnership ==
  /\ \A c, d \in Conns :
       c # d /\ Referenced(c) /\ Referenced(d) => fd[c] # fd[d]
  /\ \A f \in Fds : table[f] # None => fd[table[f]] = f
  /\ \A c \in Conns : mask[c] # {} <=> InTable(c)

\* TimerManager against Http: when the loop waits, every connection it serves
\* has exactly one live timer node.  Without one it is never closed, with two
\* the second expiry closes what the first has closed.
OneDeadline ==
  /\ \A c \in Conns : nodes[c] <= 1
  /\ AtRest => \A c \in Conns : Serving(c) => nodes[c] = 1 /\ linked[c]

\* Edge-triggered epoll: when the loop waits and the socket of a connection it
\* serves is ready for what its Channel asks for, an edge is pending.  A Channel
\* changed without telling epoll, or re-registered before the last system call
\* that could change the socket, would lose the event for good.  A connection the
\* peer has reset is left out: its next system call ends it or the process.
NoLostEdge ==
  AtRest => \A c \in Conns :
    Serving(c) /\ peer[c] # "rst" /\ Poll(c) \cap http[c].toListen # {} => ready[c]

\* When the loop waits, output that is left over is waited for with EPOLLOUT.
OutputWatched ==
  AtRest => \A c \in Conns :
    Serving(c) /\ http[c].writeBuffer > 0 => mask[c] = {"OUT"}

\* HandleCurrentConn runs on a destroyed Http only after HandleRead has refused
\* a request; closing from a timer or at the end of a connection is clean.
StaleOnlyAfterError == \A c \in stale : http[c].hasError

\* A connection that HandleClose has closed is never armed, registered or
\* served again, whatever part of HandleEvents is still to run.
ClosedForGood ==
  [][\A c \in Conns :
       http[c].connectionState = "DISCONNECTED" =>
         /\ http'[c].connectionState = "DISCONNECTED"
         /\ mask'[c] = {}
         /\ nodes'[c] <= nodes[c]]_vars

\* Every connection is closed and destroyed in the end, unless it is stranded:
\* the peers' supply of input is finite, and a silent one runs into its timer.
EventuallyClosed ==
  \A c \in Conns :
    Created(c) ~> (~Referenced(c) \/ Stranded(c) \/ proc # "run")

\* How far the connections have come, in the terms of ConnLifecycle.
Phase(c) ==
  IF ~Created(c) THEN "unborn"
  ELSE IF c \in queue \cup calls THEN "queued"
  ELSE IF InTable(c) THEN "open"
  ELSE IF nodes[c] > 0 THEN "closed"
  ELSE "released"

Lifecycle == INSTANCE ConnLifecycle
               WITH phase <- [c \in Conns |-> Phase(c)], holds <- fd

\* The worker implements the life cycle: opened once, closed once, and no
\* descriptor number is used again before its Http is destroyed.
ImplementsLifecycle == Lifecycle!Spec

\* ... and with its fairness, nothing queued is forgotten and nothing closed
\* keeps its descriptor.
ImplementsFairLifecycle == Lifecycle!FairSpec

\* Http.cpp:94 says of a peer that has shut down its sending side that the
\* server "should close after writing all the information".  So a connection
\* that rests with output left must be waiting for EPOLLOUT.
HalfClosedFlushed ==
  AtRest => \A c \in Conns : Stranded(c) => mask[c] = {"OUT"}

\* Http.cpp:93 says that writing to a connection the peer has closed raises
\* SIGPIPE and that it should be closed instead.
NoSigpipe == proc # "sigpipe"

-----------------------------------------------------------------------------
(* The inductive invariant behind the safety properties; its proof is in   *)
(* WorkerProofs.                                                           *)

\* Nothing has been done yet for an object that was not created or whose Init
\* has not run.
Untouched(c) ==
  /\ nodes[c] = 0
  /\ ~InTable(c)
  /\ ~http[c].hasError
  /\ http[c].connectionState = "CONNECTED"

\* At most one live timer node, which timer_ names.
Timers == \A c \in Conns : nodes[c] <= 1 /\ (linked[c] <=> nodes[c] = 1)

\* The fd table, epoll and the objects that still exist agree on the numbers.
Owners ==
  /\ \A f \in Fds : table[f] # None => fd[table[f]] = f
  /\ \A c \in Conns : mask[c] # {} <=> InTable(c)
  /\ \A c \in Conns : ready[c] => InTable(c)
  /\ \A c, d \in Conns : c # d /\ Referenced(c) /\ Referenced(d) => fd[c] # fd[d]

\* The callback lists hold new objects, each once.
Callbacks ==
  /\ queue \cap calls = {}
  /\ \A c \in queue \cup calls : Created(c) /\ Untouched(c)
  /\ \A c \in Conns : ~Created(c) => Untouched(c)

\* Where the loop is, and which connections it is about to handle.  Between
\* HandleRead and HandleCurrentConn the current one may already be closed.
Dispatching ==
  /\ (pc \in {"read", "conn"} <=> cur # None)
  /\ pc = "read" => InTable(cur)
  /\ pc = "conn" => InTable(cur) \/ http[cur].hasError
  /\ active # {} => pc \in {"dispatch", "read", "conn"}
  /\ \A c \in active : InTable(c) /\ c # cur
  /\ calls # {} => pc = "callbacks"

\* A connection in the table is not closed; one that is served has a timer
\* unless it is the current one; a timer belongs to a connection in the table
\* or to the current one after an error.
Consistent(c) ==
  /\ InTable(c) => ~http[c].hasError /\ http[c].connectionState # "DISCONNECTED"
  /\ Serving(c) => nodes[c] = 1 \/ c = cur
  /\ nodes[c] = 1 => InTable(c) \/ (c = cur /\ http[c].hasError)
  /\ c \in stale => http[c].hasError

Conditions == \A c \in Conns : Consistent(c)

\* All of it: what makes NoAbort, FdOwnership, OneDeadline and
\* StaleOnlyAfterError hold whatever comes next.
IInv ==
  /\ TypeOK
  /\ Timers
  /\ Owners
  /\ Callbacks
  /\ Dispatching
  /\ Conditions
  /\ NoAbort

\* What the Channel of c, the mask epoll has and the socket are to each other.
\* Between EpollWait and HandleCurrentConn the Channel collects; otherwise it asks
\* for the one event it is registered for, and a socket that is ready for that
\* event is on the ready list.  Output that is left asks for EPOLLOUT.
Watching(c) ==
  /\ mask[c] \in {{}, {"IN"}, {"OUT"}}
  /\ ~InTable(c) /\ ~http[c].hasError /\ http[c].connectionState = "CONNECTED" =>
       http[c].writeBuffer = 0
  /\ Serving(c) /\ http[c].writeBuffer > 0 =>
       IF c = cur THEN "OUT" \in http[c].toListen ELSE mask[c] = {"OUT"}
  /\ c \in active => /\ http[c].toListen = {}
                     /\ revents[c] \subseteq mask[c] \cup {"HUP"}
                     /\ "HUP" \in revents[c] => peer[c] = "rst"
  /\ Serving(c) /\ c # cur /\ c \notin active /\ peer[c] # "rst" =>
       /\ http[c].toListen = mask[c]
       /\ Poll(c) \cap mask[c] # {} => ready[c]

\* IInv, and what makes NoLostEdge and OutputWatched hold; its proof is in
\* EdgeProofs.
EdgeInv == IInv /\ \A c \in Conns : Watching(c)
=============================================================================
