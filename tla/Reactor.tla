------------------------------ MODULE Reactor ------------------------------
(***************************************************************************)
(* The threads of the server and what passes between them: the main thread *)
(* (Main.cpp, Server, its own EventLoop and the EventLoopThreadPool), the  *)
(* worker threads (EventLoopThread and EventLoop), and the clients that    *)
(* connect.                                                                *)
(*                                                                         *)
(* The threads share callback_list_ under its mutex, the eventfd of each   *)
(* loop, and without synchronisation eventloop_ and is_looping_.  The      *)
(* build is a debug build, so each access in the source is one access to   *)
(* memory; every such access is an action of its own.                      *)
(*                                                                         *)
(* Connections are numbered in the order accept() returns them.  What a    *)
(* worker does with an opened connection is module Worker; here it only    *)
(* makes epoll_wait return.                                                *)
(***************************************************************************)
EXTENDS Integers, Sequences

CONSTANTS
  ThreadNum,   \* thread_num of the Server (Main.cpp passes 3)
  IdleLimit,   \* the 5 of "timeout_count<5" in EventLoop::Loop
  MaxArrivals  \* bound: clients that connect

ASSUME ReactorAssumption ==
  /\ ThreadNum \in Nat \ {0}
  /\ IdleLimit \in Nat \ {0}
  /\ MaxArrivals \in Nat

Workers == 0 .. ThreadNum - 1

VARIABLES
  mpc,        \* where the main thread is
  turn,       \* the loop index i of start() and of ~EventLoopThreadPool
  eventloops, \* what the pool holds for each worker: "none" yet, "loop" or "null"
  next_loop,  \* next_loop_
  target,     \* the loop HandleNewConn has chosen
  accepted,   \* connections accepted so far
  midle,      \* timeout_count of the main thread's Loop
  listening,  \* whether SocketBindListen gave a socket that listens
  arrived,    \* clients that have connected
  backlog,    \* kernel: connections waiting in the listen queue
  lready,     \* kernel: the listening socket is on the main epoll's ready list
  gaveUp,     \* history: the last accept loop ended on an error
  wpc,        \* where each worker thread is
  eventloop,  \* whether eventloop_ of its EventLoopThread is not null
  looping,    \* is_looping_
  idle,       \* timeout_count
  queue,      \* callback_list_
  calls,      \* to_copy_list of the running DoCallbacks
  opened,     \* history: connections whose Http::Init has run
  wake,       \* kernel: the eventfd is on the worker's ready list
  strayed,    \* history: connections handed to a loop that no longer exists
  proc        \* "run", or "crash" (a null loop, or memory of a destroyed one)

mainVars   == <<mpc, turn, eventloops, next_loop, target, accepted, midle>>
listenVars == <<listening, arrived, backlog, lready, gaveUp>>
loopVars   == <<wpc, eventloop, looping, idle>>
handVars   == <<queue, calls, opened, wake, strayed>>
vars == <<mainVars, listenVars, loopVars, handVars, proc>>

MainPC == {"create", "spin", "take", "listen", "head", "wait", "accept", "push", "wake",
           "quit", "join", "done"}
WorkerPC == {"unborn", "new", "head", "wait", "swap", "run", "leave", "destroy", "gone"}

TypeOK ==
  /\ mpc \in MainPC
  /\ turn \in 0 .. ThreadNum
  /\ eventloops \in [Workers -> {"none", "loop", "null"}]
  /\ next_loop \in Workers
  /\ target \in Workers
  /\ accepted \in Nat
  /\ midle \in 0 .. IdleLimit
  /\ listening \in BOOLEAN
  /\ arrived \in Nat
  /\ backlog \in Nat
  /\ lready \in BOOLEAN
  /\ gaveUp \in BOOLEAN
  /\ wpc \in [Workers -> WorkerPC]
  /\ eventloop \in [Workers -> BOOLEAN]
  /\ looping \in [Workers -> BOOLEAN]
  /\ idle \in [Workers -> 0 .. IdleLimit]
  /\ queue \in [Workers -> Seq(Nat)]
  /\ calls \in [Workers -> Seq(Nat)]
  /\ opened \in [Workers -> Seq(Nat)]
  /\ wake \in [Workers -> BOOLEAN]
  /\ strayed \subseteq Nat
  /\ proc \in {"run", "crash"}

Init ==
  /\ mpc = "create"
  /\ turn = 0
  /\ eventloops = [w \in Workers |-> "none"]
  /\ next_loop = 0
  /\ target = 0
  /\ accepted = 0
  /\ midle = 0
  /\ listening = FALSE
  /\ arrived = 0
  /\ backlog = 0
  /\ lready = FALSE
  /\ gaveUp = FALSE
  /\ wpc = [w \in Workers |-> "unborn"]
  /\ eventloop = [w \in Workers |-> FALSE]
  /\ looping = [w \in Workers |-> FALSE]
  /\ idle = [w \in Workers |-> 0]
  /\ queue = [w \in Workers |-> <<>>]
  /\ calls = [w \in Workers |-> <<>>]
  /\ opened = [w \in Workers |-> <<>>]
  /\ wake = [w \in Workers |-> FALSE]
  /\ strayed = {}
  /\ proc = "run"

-----------------------------------------------------------------------------
(* EventLoopThreadPool::start.                                             *)

\* new EventLoopThread: its constructor starts the thread.
CreateThread ==
  /\ mpc = "create"
  /\ wpc' = [wpc EXCEPT ![turn] = "new"]
  /\ mpc' = "spin"
  /\ UNCHANGED <<turn, eventloops, next_loop, target, accepted, midle, listenVars,
                 eventloop, looping, idle, handVars, proc>>

\* GetLoop: the busy wait ...
Spin ==
  /\ mpc = "spin"
  /\ ~eventloop[turn]
  /\ UNCHANGED vars

\* ... sees eventloop_ set ...  (Mutant: nobody waits for it.)
SpinEnds_NoWait ==
  /\ mpc = "spin"
  /\ mpc' = "take"
  /\ UNCHANGED <<turn, eventloops, next_loop, target, accepted, midle, listenVars, loopVars,
                 handVars, proc>>

SpinEnds ==
  /\ mpc = "spin"
  /\ eventloop[turn]
  /\ mpc' = "take"
  /\ UNCHANGED <<turn, eventloops, next_loop, target, accepted, midle, listenVars, loopVars,
                 handVars, proc>>

\* ... and the return statement reads it again.
TakeLoop ==
  /\ mpc = "take"
  /\ eventloops' = [eventloops EXCEPT ![turn] = IF eventloop[turn] THEN "loop" ELSE "null"]
  /\ turn' = turn + 1
  /\ mpc' = IF turn + 1 < ThreadNum THEN "create" ELSE "listen"
  /\ UNCHANGED <<next_loop, target, accepted, midle, listenVars, loopVars, handVars, proc>>

\* Utils::SocketBindListen returns -1 when one of its calls fails.  Server::start
\* does not look: the number is given to a Channel that epoll_ctl refuses, and the
\* main Loop is entered.
Listen ==
  /\ mpc = "listen"
  /\ listening' \in BOOLEAN
  /\ mpc' = "head"
  /\ UNCHANGED <<turn, eventloops, next_loop, target, accepted, midle, arrived, backlog, lready,
                 gaveUp, loopVars, handVars, proc>>

-----------------------------------------------------------------------------
(* The main thread's Loop.  Its list of callbacks and its timers are never *)
(* used, and nobody calls Quit for it.                                     *)

MainHead ==
  /\ mpc = "head"
  /\ IF midle < IdleLimit
       THEN mpc' = "wait" /\ UNCHANGED turn
       ELSE mpc' = "quit" /\ turn' = 0
  /\ UNCHANGED <<eventloops, next_loop, target, accepted, midle, listenVars, loopVars,
                 handVars, proc>>

\* epoll_wait returns the listening channel; HandleNewConn follows.
MainEvent ==
  /\ mpc = "wait"
  /\ lready /\ backlog > 0
  /\ lready' = FALSE
  /\ mpc' = "accept"
  /\ UNCHANGED <<turn, eventloops, next_loop, target, accepted, midle, listening, arrived,
                 backlog, gaveUp, loopVars, handVars, proc>>

\* It times out.  An entry of the ready list that is not ready any more is
\* dropped on the way.
MainIdle ==
  /\ mpc = "wait"
  /\ ~(lready /\ backlog > 0)
  /\ lready' = FALSE
  /\ midle' = midle + 1
  /\ mpc' = "head"
  /\ UNCHANGED <<turn, eventloops, next_loop, target, accepted, listening, arrived,
                 backlog, gaveUp, loopVars, handVars, proc>>

-----------------------------------------------------------------------------
(* Server::HandleNewConn: the loop around accept().                        *)

\* EventLoopThreadPool::GetNextLoop.  (Mutant: an off-by-one in the modulus.)
GetNextLoop_OffByOne ==
  /\ target' = next_loop
  /\ next_loop' = (next_loop + 1) % (ThreadNum + 1)

GetNextLoop ==
  /\ target' = next_loop
  /\ next_loop' = (next_loop + 1) % ThreadNum

\* accept() returns a descriptor, and the Http is constructed.
AcceptConn ==
  /\ mpc = "accept"
  /\ backlog > 0
  /\ backlog' = backlog - 1
  /\ accepted' = accepted + 1
  /\ GetNextLoop
  /\ mpc' = "push"
  /\ UNCHANGED <<turn, eventloops, midle, listening, arrived, lready, gaveUp, loopVars,
                 handVars, proc>>

\* The listen queue is empty: accept() gives up after SO_RCVTIMEO.
AcceptEmpty ==
  /\ mpc = "accept"
  /\ backlog = 0
  /\ gaveUp' = FALSE
  /\ mpc' = "head"
  /\ UNCHANGED <<turn, eventloops, next_loop, target, accepted, midle, listening, arrived,
                 backlog, lready, loopVars, handVars, proc>>

\* It fails although connections wait, for want of descriptors for instance;
\* the loop does not ask why.
AcceptFails ==
  /\ mpc = "accept"
  /\ backlog > 0
  /\ gaveUp' = TRUE
  /\ mpc' = "head"
  /\ UNCHANGED <<turn, eventloops, next_loop, target, accepted, midle, listening, arrived,
                 backlog, lready, loopVars, handVars, proc>>

\* RunFunction and QueueINCallback as far as the mutex is held.  A null loop
\* is dereferenced.  In a destroyed one the list is dead memory: the closure is
\* lost with the connection in it, or the heap is corrupted.
PushLive ==
  /\ eventloops[target] # "null" /\ wpc[target] # "gone"
  /\ queue' = [queue EXCEPT ![target] = Append(@, accepted)]
  /\ mpc' = "wake"
  /\ UNCHANGED <<strayed, proc>>

PushDead ==
  /\ eventloops[target] # "null" /\ wpc[target] = "gone"
  /\ strayed' = strayed \cup {accepted}
  /\ proc' \in {"run", "crash"}
  /\ mpc' = "wake"
  /\ UNCHANGED queue

PushNull ==
  /\ eventloops[target] = "null"
  /\ proc' = "crash"
  /\ UNCHANGED <<mpc, queue, strayed>>

Push ==
  /\ mpc = "push"
  /\ PushLive \/ PushDead \/ PushNull
  /\ UNCHANGED <<turn, eventloops, next_loop, target, accepted, midle, listenVars, loopVars,
                 calls, opened, wake>>

\* WakeUpTargetEventLoop, after the unlock: every write to the eventfd makes
\* an edge.
\* (Mutants: a loop that runs callbacks is not woken; one accept() per event.)
Wake_UnlessRunning ==
  /\ mpc = "wake"
  /\ wake' = [wake EXCEPT ![target] = @ \/ wpc[target] \notin {"run", "destroy", "gone"}]
  /\ mpc' = "accept"
  /\ UNCHANGED <<turn, eventloops, next_loop, target, accepted, midle, listenVars, loopVars,
                 queue, calls, opened, strayed, proc>>

Wake_Once ==
  /\ mpc = "wake"
  /\ wake' = [wake EXCEPT ![target] = wpc[target] # "gone"]
  /\ gaveUp' = FALSE
  /\ mpc' = "head"
  /\ UNCHANGED <<turn, eventloops, next_loop, target, accepted, midle, listening, arrived,
                 backlog, lready, loopVars, queue, calls, opened, strayed, proc>>

Wake ==
  /\ mpc = "wake"
  /\ wake' = [wake EXCEPT ![target] = wpc[target] # "gone"]
  /\ mpc' = "accept"
  /\ UNCHANGED <<turn, eventloops, next_loop, target, accepted, midle, listenVars, loopVars,
                 queue, calls, opened, strayed, proc>>

-----------------------------------------------------------------------------
(* Server::shutdown: ~EventLoopThreadPool.                                 *)

NextTurn(here, after) ==
  IF turn + 1 < ThreadNum
    THEN mpc' = here /\ turn' = turn + 1
    ELSE mpc' = after /\ turn' = 0

\* Quit.  The is_looping_ of a destroyed loop is dead memory of a thread's
\* stack, which nobody uses again.  (Mutant: nothing is stored.)
QuitLoop_Forgets ==
  /\ mpc = "quit"
  /\ proc' = IF eventloops[turn] = "null" THEN "crash" ELSE proc
  /\ NextTurn("quit", "join")
  /\ UNCHANGED <<eventloops, next_loop, target, accepted, midle, listenVars, loopVars, handVars>>

QuitLoop ==
  /\ mpc = "quit"
  /\ proc' = IF eventloops[turn] = "null" THEN "crash" ELSE proc
  /\ looping' = [looping EXCEPT ![turn] = FALSE]
  /\ NextTurn("quit", "join")
  /\ UNCHANGED <<eventloops, next_loop, target, accepted, midle, listenVars, wpc, eventloop,
                 idle, handVars>>

\* thread_.join(); after the last one main() returns.
Join ==
  /\ mpc = "join"
  /\ wpc[turn] = "gone"
  /\ NextTurn("join", "done")
  /\ UNCHANGED <<eventloops, next_loop, target, accepted, midle, listenVars, loopVars, handVars,
                 proc>>

-----------------------------------------------------------------------------
(* The worker threads: EventLoopThread::ThreadFunc and EventLoop::Loop.    *)

At(w, here, next) == wpc[w] = here /\ wpc' = [wpc EXCEPT ![w] = next]

\* The EventLoop is constructed on the thread's stack and published.
Construct(w) ==
  /\ At(w, "new", "head")
  /\ looping' = [looping EXCEPT ![w] = TRUE]
  /\ eventloop' = [eventloop EXCEPT ![w] = TRUE]
  /\ UNCHANGED <<mainVars, listenVars, idle, handVars, proc>>

LoopHead(w) ==
  /\ At(w, "head", IF looping[w] /\ idle[w] < IdleLimit THEN "wait" ELSE "leave")
  /\ UNCHANGED <<mainVars, listenVars, eventloop, looping, idle, handVars, proc>>

\* epoll_wait returns the eventfd, or sockets of connections opened here; they
\* are handled.
WaitReturns(w) ==
  /\ At(w, "wait", "swap")
  /\ wake[w] \/ opened[w] # <<>>
  /\ wake' = [wake EXCEPT ![w] = FALSE]
  /\ UNCHANGED <<mainVars, listenVars, eventloop, looping, idle, queue, calls, opened,
                 strayed, proc>>

\* It times out.  timeout_count is never reset.
WaitTimesOut(w) ==
  /\ At(w, "wait", "swap")
  /\ ~wake[w]
  /\ idle' = [idle EXCEPT ![w] = @ + 1]
  /\ UNCHANGED <<mainVars, listenVars, eventloop, looping, handVars, proc>>

\* DoCallbacks takes the list under the mutex ...
\* (Mutant: it is copied and stays.)
Swap_Copies(w) ==
  /\ At(w, "swap", "run")
  /\ calls' = [calls EXCEPT ![w] = queue[w]]
  /\ UNCHANGED <<mainVars, listenVars, eventloop, looping, idle, queue, opened, wake, strayed,
                 proc>>

Swap(w) ==
  /\ At(w, "swap", "run")
  /\ calls' = [calls EXCEPT ![w] = queue[w]]
  /\ queue' = [queue EXCEPT ![w] = <<>>]
  /\ UNCHANGED <<mainVars, listenVars, eventloop, looping, idle, opened, wake, strayed, proc>>

\* ... and runs each Http::Init without it.
RunCallback(w) ==
  /\ wpc[w] = "run"
  /\ calls[w] # <<>>
  /\ opened' = [opened EXCEPT ![w] = Append(@, Head(calls[w]))]
  /\ calls' = [calls EXCEPT ![w] = Tail(@)]
  /\ UNCHANGED <<mainVars, listenVars, loopVars, queue, wake, strayed, proc>>

\* The end of the iteration; timers that expire only close connections.
CallbacksDone(w) ==
  /\ calls[w] = <<>>
  /\ At(w, "run", "head")
  /\ UNCHANGED <<mainVars, listenVars, eventloop, looping, idle, handVars, proc>>

\* Loop has returned: eventloop_ = nullptr ...
Unpublish(w) ==
  /\ At(w, "leave", "destroy")
  /\ eventloop' = [eventloop EXCEPT ![w] = FALSE]
  /\ UNCHANGED <<mainVars, listenVars, looping, idle, handVars, proc>>

\* ... and ~EventLoop destroys the callback list with the connections in it,
\* the epoll instance with the opened ones, and the eventfd; the thread ends.
Destroy(w) ==
  /\ At(w, "destroy", "gone")
  /\ queue' = [queue EXCEPT ![w] = <<>>]
  /\ wake' = [wake EXCEPT ![w] = FALSE]
  /\ UNCHANGED <<mainVars, listenVars, eventloop, looping, idle, calls, opened, strayed, proc>>

-----------------------------------------------------------------------------

\* A client connects: the kernel completes the connection on its own.
Arrive ==
  /\ mpc \in {"head", "wait", "accept", "push", "wake"}
  /\ listening /\ arrived < MaxArrivals
  /\ arrived' = arrived + 1
  /\ backlog' = backlog + 1
  /\ lready' = TRUE
  /\ UNCHANGED <<mainVars, listening, gaveUp, loopVars, handVars, proc>>

MainStep ==
  \/ CreateThread \/ Spin \/ SpinEnds \/ TakeLoop \/ Listen
  \/ MainHead \/ MainEvent \/ MainIdle
  \/ AcceptConn \/ AcceptEmpty \/ AcceptFails \/ Push \/ Wake
  \/ QuitLoop \/ Join

WorkerStep(w) ==
  \/ Construct(w) \/ LoopHead(w)
  \/ WaitReturns(w) \/ WaitTimesOut(w)
  \/ Swap(w) \/ RunCallback(w) \/ CallbacksDone(w)
  \/ Unpublish(w) \/ Destroy(w)

\* The process has ended.
Terminated ==
  /\ mpc = "done" \/ proc = "crash"
  /\ UNCHANGED vars

Next ==
  \/ proc = "run" /\ MainStep
  \/ proc = "run" /\ \E w \in Workers : WorkerStep(w)
  \/ proc = "run" /\ Arrive
  \/ Terminated

Spec == Init /\ [][Next]_vars

\* The threads are scheduled; epoll_wait and accept() return after their
\* timeouts at the latest.
Fairness ==
  /\ WF_vars(proc = "run" /\ MainStep)
  /\ \A w \in Workers : WF_vars(proc = "run" /\ WorkerStep(w))

FairSpec == Spec /\ Fairness

-----------------------------------------------------------------------------
(* Properties.                                                             *)

\* Nothing waits in the list of a loop that waits for epoll, unless the wakeup
\* is there or the main thread is about to send it: the eventfd is written
\* after the unlock, and the list may have been swapped in between.
NoLostWakeup ==
  \A w \in Workers :
    wpc[w] \in {"head", "wait"} /\ queue[w] # <<>> =>
      wake[w] \/ (mpc = "wake" /\ target = w)

\* The listening socket is edge-triggered: when the main thread waits, either
\* nothing is in the listen queue, or an edge is pending, or the last accept()
\* failed.
BacklogWatched ==
  mpc = "wait" /\ backlog > 0 => lready \/ gaveUp

\* Shutdown comes to its end: every loop is told to quit, leaves at the latest
\* after the timeout of its epoll_wait, and is joined, whatever its
\* connections do.
ShutdownEnds == mpc = "quit" ~> (mpc = "done" \/ proc = "crash")

\* The hand-over implements Handoff: round robin, in order, each connection
\* once.
Abstract == INSTANCE Handoff
              WITH sent    <- IF mpc = "push" THEN accepted - 1 ELSE accepted,
                   whose   <- IF mpc = "push" THEN target ELSE next_loop,
                   line    <- [w \in Workers |-> calls[w] \o queue[w]],
                   taken   <- opened,
                   serving <- [w \in Workers |-> wpc[w] # "gone"]

ImplementsHandoff == Abstract!Spec

\* README.md:40 says that new connections are assigned to the event loops
\* (threads) round robin: each is given to a loop that exists.
NoneStrayed == strayed = {}

\* EventLoopThread.cpp:24 says that GetLoop waits until the loop has been
\* initialised.  It reads eventloop_ twice without a lock, so the pool may still
\* keep a null pointer, but only for a worker that was initialised and has left
\* its loop again since the first read.
NullOnlyAfterExit ==
  \A w \in Workers : eventloops[w] = "null" => wpc[w] \in {"destroy", "gone"}

-----------------------------------------------------------------------------
(* The inductive invariant behind the safety properties; its proof is in   *)
(* ReactorProofs.                                                          *)

\* The loop indices and the counts of timeouts are within their ranges where
\* they are used; before the socket is bound nobody connects and threads are
\* created one after the other.
Ranges ==
  /\ mpc \in {"create", "spin", "take", "quit", "join"} => turn < ThreadNum
  /\ mpc \in {"create", "spin", "take", "listen"} =>
       /\ backlog = 0
       /\ \A w \in Workers : turn < w => wpc[w] = "unborn"
  /\ mpc = "create" => wpc[turn] = "unborn"
  /\ mpc = "wait" => midle < IdleLimit
  /\ \A w \in Workers : wpc[w] = "wait" => idle[w] < IdleLimit

\* While HandleNewConn holds a connection it has not passed on, next_loop_ is
\* one ahead of the loop it has chosen.
Turns ==
  mpc = "push" => accepted > 0 /\ next_loop = (target + 1) % ThreadNum

\* The accept loop is only left with a listen queue that is empty or given up.
Listening ==
  mpc \in {"head", "wait"} /\ backlog > 0 => lready \/ gaveUp

\* The copied list is empty but inside DoCallbacks; what is queued while the
\* loop does not hold the list announces itself; a destroyed loop has no list.
Lists ==
  /\ \A w \in Workers : calls[w] # <<>> => wpc[w] = "run"
  /\ \A w \in Workers :
       queue[w] # <<>> /\ wpc[w] \notin {"swap", "leave", "destroy"} =>
         wake[w] \/ (mpc = "wake" /\ target = w)
  /\ \A w \in Workers : wpc[w] = "gone" => queue[w] = <<>>

\* All of it: what makes NoLostWakeup, BacklogWatched and ImplementsHandoff
\* hold.
IInv ==
  /\ TypeOK
  /\ Ranges
  /\ Turns
  /\ Listening
  /\ Lists

\* eventloop_ is set from the construction of the loop to the end of it; a worker
\* whose loop GetLoop has seen has been constructed.  With IInv, which says that
\* a thread is created once, this makes NullOnlyAfterExit hold.
Published ==
  /\ \A w \in Workers :
       eventloop[w] <=> wpc[w] \notin {"unborn", "new", "destroy", "gone"}
  /\ mpc = "take" => wpc[turn] \notin {"unborn", "new"}
  /\ NullOnlyAfterExit
=============================================================================
