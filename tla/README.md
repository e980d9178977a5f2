# A TLA+ model of FlashWebserver

FlashWebserver is a small multi-threaded HTTP server in C++11: one main thread
accepts connections and hands them round robin to a pool of worker threads,
each of which runs an edge-triggered epoll loop with its own timers.  This
directory holds a model of it in TLA+, configurations that check the model
with TLC, and proofs that TLAPS checks.

Paths such as `Http.cpp:183` are short for `src/src/Server/Http.cpp:183`;
`Timer.*` and `Utils.*` are in `src/src/Utils/`, and `README.md:40` is a line of
`src/README.md`.

Contents: [the system](#the-system), [the modules](#the-modules),
[the runs](#the-runs), [fairness](#fairness), [the proofs](#the-proofs),
[what the code does against its own words](#findings),
[what is not modelled](#not-modelled), [the plan](#the-plan).

## The system

### Inventory

| component | state | operations | used by |
| --- | --- | --- | --- |
| **Http** (`Http.h`, `Http.cpp`): one connection and the requests on it | `connectionState_`, `process_state_`, `has_error_`, `keep_alive_`, `read_buffer_`, `write_buffer_`, `timer_` (weak), `channel_`, `fd_` | `Init`, `HandleRead`, `HandleWrite`, `HandleCurrentConn`, `HandleClose`, `HandleError`, `seperateTimer`, `reset`, `LinkTimer`, the parsers `ParseURI`, `ParseHeaders`, `ProcessRequest` | Channel callbacks, TimerNode |
| **Channel** (`Channel.h`, `Channel.cpp`): a descriptor and its callbacks | `to_listen_events_`, `active_events_`, `holder_` (weak) | `HandleEvents`, setters | EventLoop |
| **Epoll** (`Epoll.h`, `Epoll.cpp`): the epoll instance | `fd2channel_`, `fd2http_`, `timer_manager_` | `EpollAdd`, `EpollModify`, `EpollDel`, `EpollWait`, `HandleExpire` | EventLoop |
| **Timers** (`Timer.h`, `Timer.cpp`) | `timer_node_queue_` (a min-heap); per node `data_`, `is_deleted_`, `expire_time_` | `AddTimerNode`, `HandleExpire`, `IsExpired`, `ClearNode`, `~TimerNode` | Epoll, Http |
| **EventLoop** (`EventLoop.h`, `EventLoop.cpp`): one per thread | `is_looping_`, `callback_list_` with its mutex, `wakeup_fd_`, the local `timeout_count` | `Loop`, `DoCallbacks`, `RunFunction`, `QueueINCallback`, `WakeUpTargetEventLoop`, `Quit` | all threads |
| **Thread pool** (`EventLoopThread*.{h,cpp}`) | `eventloop_`, `threads`, `eventloops`, `next_loop_` | `start`, `GetLoop`, `ThreadFunc`, `GetNextLoop`, the destructor | Server |
| **Server**, `Main.cpp`: the acceptor | the listening socket | `start`, `HandleNewConn`, `shutdown` | main |
| **Socket helpers** (`Utils.h`, `Utils.cpp`) | none | `ReadFromFd`, `WriteToFd`, `SocketBindListen`, options | everything |

Not part of the server: `Timer.h.discard` and `Timer.tpp.discard` (never
compiled), the two stand-alone demos, and the vendored `doctest.h`.

### How the parts interact

* The main thread and a worker share `callback_list_` (under a mutex), the
  eventfd, and, without synchronisation, `is_looping_` and `eventloop_`.
  Everything else a worker touches is its own.
* Inside a worker, `Loop` repeats: wait for epoll; call
  `Channel::HandleEvents` of each returned channel, which calls `HandleWrite`,
  then `HandleRead`, then `HandleCurrentConn` of its Http; run the queued
  callbacks (all of them are `Http::Init`); expire timers.
* An Http is owned by `shared_ptr`s: the queued closure, the entry of
  `fd2http_`, and `data_` of its live timer node.  The Channel and the timer
  refer to each other's owners weakly.  `~Http` closes the descriptor, so the
  *lifetime of the object is the lifetime of the descriptor number*.
* A connection can be closed from three places: `HandleRead` after a refused
  request, `HandleCurrentConn` at the end of an event, and `~TimerNode` when
  the node expires.  All three call `HandleClose`, whose `EpollDel` asserts
  that the connection had not been closed before (`CMakeLists.txt` builds
  "Debug", so the assertion is compiled in).
* The handlers communicate through the Channel's interest mask:
  `EpollWait` sets it to 0, `HandleRead` and `HandleWrite` add what they still
  want, `HandleCurrentConn` reads it, decides, and tells epoll.

### What is hard, and what makes each part correct

| part | hard behaviour | correct when |
| --- | --- | --- |
| Http handlers | a fragment, pipelined requests, a half close or a RST at any point between the three handlers of one event; responses larger than the send buffer | output left over is waited for; a closed connection is not served again |
| Epoll and Channel | edge triggering: an edge is reported once, so interest, registration and the socket must agree whenever the loop waits; numbers used again by `accept` | no event is lost; the table names the connection that has the number now |
| Timers | re-arming by deleting lazily and adding; ownership through the node; a clock that wraps | each waiting connection has one deadline; nothing is closed twice; silent connections are closed in the end |
| Callbacks | the list is filled by one thread and swapped by another; the wakeup comes after the unlock | each accepted connection is opened exactly once, and soon |
| Pool | threads that start, leave their loop and destroy it while others hold its address | round robin over loops that exist; shutdown joins all of them |
| Parsers | a request cut anywhere between two reads | the same requests are recognised however they are cut |

`PROJECT.json` lists the single hazards under "hazards", each with its line and
with the properties that cover it, or the reason why none does.

## The modules

| module | what it is |
| --- | --- |
| `HttpHandlers` | the member functions of class Http as operators on one object: a record goes in, the record (or the set of records) the function may leave comes out |
| `Worker` | EXTENDS `HttpHandlers`; one worker thread with its Epoll, timers and connections, the kernel's side of the sockets, the accepting main thread and the peers; the properties and the inductive invariants |
| `ConnLifecycle` | the abstract specification: unborn, queued, open, closed, released, and who holds which descriptor number |
| `Drain` | EXTENDS `Worker`; the same with `ReadFromFd` call by call |
| `Teardown` | EXTENDS `Worker`; a worker that leaves its loop with connections open, and the destruction of its `EventLoop` member by member |
| `Timer` | the heap of timer nodes, lazy deletion, and the clock that starts again every 1000 s |
| `Deadlines` | the abstract specification of the timers: a connection is closed by its timer once its deadline has passed, and never before |
| `HttpParser` | `ParseURI` and `ParseHeaders` in the turns of `HandleRead`, on text that arrives in fragments |
| `Replies` | what one connection sends, system call by system call |
| `Reactor` | the threads: `main()`, the pool, the worker threads around their loops, and what passes between them |
| `Handoff` | the abstract specification of the pool: connections are given to the workers in turn, and each worker opens its own in order |
| `MCWorker`, `MCDrain`, `MCTeardown`, `MCTimer`, `MCHttpParser`, `MCReplies`, `MCReactor` | instances for TLC |
| `WorkerProofs`, `EdgeProofs` | proofs about `Worker`: the timers, the table and the lifetimes, and that it implements `ConnLifecycle`; the edges |
| `DrainProofs` | `Drain` implements `Worker` |
| `ParserProofs` | proofs about `HttpParser`: the parsers on text of any length, cut anywhere |
| `TeardownProofs`, `TimerProofs`, `RepliesProofs`, `ReactorProofs` | proofs about those modules, the refinements of `Deadlines` and `Handoff` included |

How they fit together:

* `Worker` composes `HttpHandlers` (by EXTENDS) and refines `ConnLifecycle` (by
  INSTANCE, with `phase <- Phase(c)` and `holds <- fd`).
* `Reactor` refines `Handoff` (what is in `to_copy_list` and `callback_list_`
  together is the worker's `line`).  `Reactor` and `Worker` meet in the callback
  list.  `Worker` looks at one thread from inside, with every connection in
  detail, and sees the rest as `Accept`, which appends to its list; its loop
  runs for ever.  `Reactor` looks at all the threads, with a loop's
  `HandleEvents`, callbacks and timers reduced to whether `epoll_wait` returns
  and to `RunCallback`; its loops start, count their idle timeouts, leave and
  are destroyed.
* `Teardown` is the piece between them: a `Worker` that may leave its loop, and
  then what `Reactor` has as the single step `Destroy`.
* `Drain` and `Replies` open up the two system calls `Worker` makes in one step.
  `Drain` refines `Worker` (with `inq <- Unhandled`: what `read` has taken and
  `HandleRead` has not been given yet still counts as input).  `Replies` follows
  one connection and keeps the order of what is written, which `Worker` only
  counts.
* `HttpParser` keeps the text that `HttpHandlers` abstracts to pieces.  Its
  property `ImplementsHandlers` says that every turn of the parsers is one of
  the outcomes `HttpHandlers!Received` allows, so that what is shown for
  `Worker` holds of the parsers as they are (`HandlersImplemented` proves it).
* `Timer` keeps the clock and the heap that `Worker` abstracts to "a live node
  may expire"; it refines `Deadlines`.

### State of a worker

| variable of `Worker` | in the code |
| --- | --- |
| `http[c]` | the fields of the Http object and its Channel's `to_listen_events_` |
| `fd[c]` | `fd_`, which `~Http` closes |
| `queue`, `calls` | `callback_list_`; `to_copy_list` in `DoCallbacks` |
| `table[f]` | `fd2channel_` and `fd2http_`: filled together by `EpollAdd` and emptied together by `EpollDel`, so for these descriptors they hold the same keys |
| `nodes[c]`, `linked[c]` | how many timer nodes have `data_` set to `c`; whether `timer_.lock()` succeeds |
| `active`, `revents`, `cur`, `pc` | `returned_channels` still to be handled, `active_events_`, the channel whose `HandleEvents` runs, and the place in `Loop` |
| `mask`, `ready`, `inq`, `room`, `peer`, `sends` | the kernel and the peer: the mask registered with epoll, the ready list, what can be read, what can be written, and how the peer's stream ended |
| `proc` | running, stopped by `assert`, or killed by SIGPIPE |
| `stale` | a history variable: connections whose member function ran on after `~Http` |

### Actions of a worker

| action | handler |
| --- | --- |
| `EpollWait` | `Epoll::EpollWait`, with `SetActiveEvents` and `SetToListenEvents(0)` |
| `DispatchHangup`, `DispatchWrite`, `DispatchRead` | the beginning of `Channel::HandleEvents`; `DispatchWrite` includes `Http::HandleWrite` |
| `HandleRead(c)`: `ReadFailed`, `RequestDone`, `NeedMore` | one turn of `Http::HandleRead`, from `ReadFromFd` to its last branch; a pipelined request makes it recurse, which is another turn |
| `HandleCurrentConn(c)`: `ConnWantsOutput`, `ConnIdles`, `ConnCloses`, `ConnDrains`, `ConnAfterClose` | the branches of `Http::HandleCurrentConn`, `seperateTimer` and `UpdateEpoller` included |
| `TakeCallbacks`, `HttpInit(c)`, `CallbacksDone` | `EventLoop::DoCallbacks`: the swap under the mutex, each `Http::Init` with its `EpollAdd` and timer, the end |
| `Expire(c)`, `ExpireDone` | `TimerManager::HandleExpire` popping a live node (`~TimerNode` calls `HandleClose`), and leaving |
| `Accept(c, f)` | one turn of the loop in `Server::HandleNewConn`, as far as this worker is concerned |
| `NodeDies(c)` | `~TimerNode` of a live node, a part of `Expire(c)` and of the destruction of the heap (`Teardown`) |
| `PeerSends`, `PeerReads`, `PeerShutsDown`, `PeerResets` | the client and the network, between any two of the above |

### The threads

| variable of `Reactor` | in the code |
| --- | --- |
| `mpc`, `turn` | where the main thread is; the loop index of `start()` and of `~EventLoopThreadPool` |
| `eventloops`, `next_loop`, `target` | the pool's members; `new_loop` in `HandleNewConn` |
| `eventloop[w]`, `looping[w]` | `eventloop_` (null or not) and `is_looping_`, which two threads use without a lock |
| `midle`, `idle[w]` | `timeout_count` of each `Loop` |
| `queue[w]`, `calls[w]` | `callback_list_`; `to_copy_list` |
| `listening`, `backlog`, `lready`, `wake[w]` | the kernel: whether the socket listens, its queue, and whether the listening socket and the eventfds are on the ready lists |
| `wpc[w]` | where the worker is, from `std::thread` to the end of `ThreadFunc` |
| `accepted`, `arrived`, `opened`, `gaveUp`, `strayed` | counts and histories |

| action | handler |
| --- | --- |
| `Listen` | `SocketBindListen` in `Server::start`: the socket listens, or `bind` or `listen` fails, which is not looked at, and the main loop runs over nothing |
| `CreateThread`, `Spin`, `SpinEnds`, `TakeLoop` | `EventLoopThreadPool::start` and `EventLoopThread::GetLoop`, whose two reads of `eventloop_` are two actions |
| `MainHead`, `MainEvent`, `MainIdle` | `EventLoop::Loop` on the main thread |
| `AcceptConn` (with `GetNextLoop`), `AcceptEmpty`, `AcceptFails` | the head of the loop in `Server::HandleNewConn`, and the new Http |
| `Push` | `RunFunction` and the locked part of `QueueINCallback`, on a loop that lives, is destroyed, or is null |
| `Wake` | `WakeUpTargetEventLoop`, after the unlock |
| `QuitLoop`, `Join` | the two loops of `~EventLoopThreadPool` |
| `Construct(w)`, `Unpublish(w)`, `Destroy(w)` | `ThreadFunc`: the loop on its stack, `eventloop_` set and reset, the destructor |
| `LoopHead(w)`, `WaitReturns(w)`, `WaitTimesOut(w)`, `Swap(w)`, `RunCallback(w)`, `CallbacksDone(w)` | `EventLoop::Loop` and `DoCallbacks` |
| `Arrive` | a client connects |

### Decisions about the threads

* **Memory.**  The build is a debug build, so an access in the source is an
  access to memory, and each access to `eventloop_` and `is_looping_` that
  matters is an action.
* **Destroyed loops.**  A worker that leaves `Loop` returns from `ThreadFunc`,
  which destroys the `EventLoop` on its stack, while the pool keeps its address.
  Queueing there is undefined: the closure is lost with its connection, or the
  process crashes.  `Quit` on such a loop stores a flag nobody reads again.  A
  null loop is dereferenced, and the process crashes.
* **Eventfd.**  It is registered edge-triggered and never read; each write makes
  an edge.
* **Listening.**  The socket is edge-triggered too, and `accept` blocks for at
  most the 5 s `SocketBindListen` sets (`SO_RCVTIMEO`), so the accept loop ends
  with `AcceptEmpty`; an error ends it as well.  When `epoll_wait` looks at a
  ready entry whose queue is empty by now, the entry is dropped.
* **Open connections** only make `epoll_wait` return: `WaitReturns` may happen
  at any time once the worker has opened one.
* **Not in it**: the main loop's callbacks and timers, which nobody uses, and
  `signalHandler`, which nobody installs.

### Decisions about a worker

* **Grain.**  A worker is one thread, so two handlers never overlap; but each
  makes system calls, and between two of them a peer may act.  An action
  therefore contains at most one point at which the socket's state is looked
  at or changed in a way a peer could notice, and then the effects that follow
  from it.
  A call of `ReadFromFd` is one point although it makes several `read`s; this
  is not assumed but proved (`Drain`).
  The write of a turn of `HandleRead` is taken together with its last `read`,
  and the two calls of `WriteToFd` in `HandleWrite` with each other: input and
  FIN that arrive in between change nothing the write looks at, a peer that
  takes output in between is `PeerReads` a moment earlier, and a RST there only
  meets a write, which kills the process (run `worker_reset` has that outcome).
* **Data.**  Requests and responses are counted in pieces.  A parser may
  return any result its buffer allows: with an empty buffer only "again";
  otherwise also "error", or "done", taking some of the pieces.  POST leads to
  `STATE_PARSE_BODY`, whose block in `HandleRead` is empty, so the connection
  stays there.
* **Masks.**  `EPOLLET` is in every mask given to `epoll_ctl` and in none that
  `HandleCurrentConn` tests (there the mask was set to 0 by `EpollWait` and
  then collects `EPOLLIN` and `EPOLLOUT`), so it is left out.
* **Edges.**  `EPOLL_CTL_ADD` and `EPOLL_CTL_MOD` poll the socket, so a
  condition that already holds makes an edge; otherwise an edge comes with new
  input, with room in a buffer that was full, and with the end of the stream.
  `EPOLLHUP` is reported whether asked for or not.
* **Reset.**  After a RST the first system call on the socket takes its error
  and the next write raises SIGPIPE.  Whoever writes to a reset connection
  here (`HandleWrite` calls `WriteToFd` twice, `HandleError` twice, after
  the failed `read`) makes that second call, and nothing in the program handles
  or ignores the signal, so the process is killed.
* **Timeouts.**  `Worker` has no clock: a live node may expire at any
  `HandleExpire`.  That covers every length of the timeouts and every order of
  expiry.  Deleted nodes that stay in the heap have no effect on the
  connections, since `~TimerNode` tests `data_`.
* **After ~Http.**  In `HandleCurrentConn` after the error path the timer's
  reference is the last one, so `seperateTimer()` destroys the object whose
  function is running.  The function goes on and reads `has_error_` from freed
  memory.  That is undefined; the model takes the outcome of the memory not
  having been reused in between (the bit is still set and the function returns)
  and records the event in `stale`.  In between are two statements.  When a
  pipelined request is refused after `reset()` has dropped the timer, it is more:
  the entry in the maps was the last reference then, the object goes inside
  `HandleClose`, and all of `HandleCurrentConn` runs after it, on a weak `timer_`
  that was reset before.
* **Error pages** are small and written straight to the socket; `room` counts
  the pieces of proper responses only.

### The clock and the heap

| variable of `Timer` | in the code |
| --- | --- |
| `ms` | the time `TimerNode` and `IsExpired` read: `gettimeofday`, in ms, modulo 1000 s |
| `heap`, `node[n]` | `timer_node_queue_`; a node's `expire_time_`, `data_`, `is_deleted_`, with the history of how old it is, what it was armed with, and whether the clock has wrapped since |
| `timer[c]` | `timer_.lock()` |
| `conn[c]`, `pc`, `since` | what has become of a connection; where `Loop` is; ticks since `HandleExpire` last ended |

| action | handler |
| --- | --- |
| `Open(c)` | `Http::Init`: `AddTimerNode` with 3 s |
| `Rearm(c)` | `HandleCurrentConn`: `seperateTimer`, then `AddTimerNode` with 3 s or 60 s |
| `SeparateTimer(c)`, `Close(c)` | `seperateTimer` alone, in `Http::reset` and for a half-closed peer; a handler's `HandleClose` |
| `StartExpire`, `Pop(n)`, `ExpireDone` | `TimerManager::HandleExpire`: the root of the heap is deleted or expired and is popped; `~TimerNode` closes a live one's connection; the root is neither, and the loop ends |
| `Tick` | time passes |

`expire_time_` is the reading of the clock plus the timeout and is not reduced,
as in the code; the clock alone is taken modulo `Period`.  The heap is a set:
any node with the smallest `expire_time_` may be the root, which is all
`priority_queue` says about equal ones.  The clock is not set back by anybody.

### The text

| variable of `HttpParser` | in the code |
| --- | --- |
| `http` | `process_state_`, `header_line_state`, `read_buffer_`, `method_`, `path_`, `headers_`, `has_error_` |
| `inq`, `turn` | the socket's input; whether a turn of `HandleRead` is due |
| `stream`, `at`, `off` | the client: the requests it sends, and how far it is |
| `answers`, `cut`, `piped` | histories: what the answered requests asked for; whether a read ended inside a header block; whether a read took more than one request |

`Arrive` brings the next few symbols, any number of them, and `HandleRead` is one turn.  The
automaton of `ParseHeaders` is `Scan`, which is applied to one symbol after the
other, with the same indices into the same buffer; they start at -1 in the code
and at 0, the place before the buffer, here.  A symbol stands for a
byte the parsers compare with (`r`, `/`, space, `?`, `:`, CR, LF), for a word
they compare or search, or for a run of other bytes; a cut inside such a word
or run is not distinguished from one beside it.

### Writing

| variable of `Replies` | in the code |
| --- | --- |
| `pc`, `call`, `reading` | where the handler is; which of its two calls of `WriteToFd` `HandleWrite` is in; who called it |
| `done`, `written`, `made` | `write_buffer_` holds the pieces `done + 1 .. made`; `writen_sum` of the current call |
| `pages` | what `HandleError` still has to write of its page |
| `toListen` | `to_listen_events_` of the Channel: emptied when an event is dispatched, and collected by the turns of that event |
| `mask`, `room`, `wire` | the interest registered; the send buffer; what the client has been sent |
| `unread`, `buffered`, `asked` | requests on the socket, in `read_buffer_`, and sent at all |
| `before` | a history variable: how many pieces had been made when `EPOLLIN` was last dispatched |

`Take`, `Page` and `Refuse` are the outcomes of a turn of `HandleRead`, `Write` one
`write()` that takes any part the socket has room for, `FirstReturns` and
`SecondReturns` the two ends of `WriteToFd` in `HandleWrite`, the latter with what
follows: the next turn of the recursion, with the events collected so far, or
`HandleCurrentConn`, which registers `EPOLLOUT` alone as soon as there are any.
`HandleWrite` only adds `EPOLLOUT`, so a turn that leaves output, followed by one that
writes everything, ends in `EPOLLOUT` with nothing to write and without `EPOLLIN`; the
write event that follows at once finds an empty buffer and puts `EPOLLIN` back
(`RequestsRead`).  `ErrorPiece` and `ErrorDone` are the writes of `HandleError`, `Ask` and `ClientReads` the client.  A
`write` that a signal interrupts is made again, which changes nothing.

### Reading

`Drain` adds one variable, `read_size`: what the current call of `ReadFromFd` has
read so far.  `ReadSome(c)` is a `read` that fills the buffer or takes what
there is; `ReadLast(c)` the one that finds the socket empty, after which
`HandleRead` makes its turn.  The peers act in between.

### Leaving the loop

`Teardown` adds `loop`: the loop runs, has been left, or the member that is being
destroyed.  Members go in the reverse order of their declaration
(`callback_list_` before `epoller_`; inside the Epoll the heap before the maps).
`DropClosure(c)` destroys a queued closure with the Http it holds; `DropNode(c)` is
`~TimerNode` in the destructor of the heap, which calls `HandleClose`, and through
it the Epoll that is being destroyed; `DropEntry(c)` erases an entry of the maps;
`NextMember` goes on when a member is empty.

## The runs

| run | instance | what it asks |
| --- | --- | --- |
| `drain_atomic` | one kept-alive connection read call by call: 4 input pieces, a read buffer of 2, responses of up to 3 pieces, a send buffer of 2, half close and reset, fair | `TypeOK`; `OneDeadline`; `NoLostEdge`; `OutputWatched`; `StaleOnlyAfterError`; `ClosedForGood`; `EventuallyClosed`; `ImplementsWorker` (safety) and `ImplementsFairWorker` (with the fairness) |
| `worker_lifecycle` | two connections, one kept alive and one not, on one descriptor number, 2 input pieces, half close, fair | `FdOwnership`; `EdgeInv`, the invariant the proofs use; the worker implements `ConnLifecycle`: `ImplementsLifecycle` (safety), `ImplementsFairLifecycle` (with the abstract fairness) |
| `teardown_order` | two connections on two numbers, half close, fair | `NoAbort`, also while the Epoll is destroyed; `HalfClosedLast`; `LeftReleasesAll`; `TInv`, the invariant the proofs use |
| `timer_clock` | two connections, three nodes, a clock of 7 ticks | `NeverLate`; `ImplementsDeadlines`; `IInv`, the invariant the proofs use |
| `parser_turns` | streams of one to three requests, well framed or not, in every fragmentation | `WholeAnswered`; `AnswersRight`; `InTurn`; `ImplementsHandlers`; `IInv`, the invariant the proofs use |
| `replies_order` | four requests, pages of 2 pieces, a send buffer of 3, fair | `InOrder`; `ErrorsWait`; `PagesSent`; `RequestsRead`; `IInv`, the invariant the proofs use |
| `reactor_handover` | two workers, three clients, two idle timeouts, fair | `TypeOK`; `NoLostWakeup`; `BacklogWatched`; `NullOnlyAfterExit`; `ImplementsHandoff`; `ShutdownEnds`; `IInv`, the invariant the proofs use |

These runs find their property violated; see [below](#findings):

| run | instance | property |
| --- | --- | --- |
| `worker_half_close` | one connection, half close | `HalfClosedFlushed` |
| `worker_reset` | one connection, half close and reset | `NoSigpipe` |
| `reactor_strayed` | two workers, three clients, five idle timeouts | `NoneStrayed` |
| `timer_kept` | one connection, two nodes | `KeptForDuration` |
| `parser_fragments` | as `parser_turns` | `FragmentsAgree` |

The properties of `Worker` are checked under `Drain` and `Teardown`, whose steps
are `Worker`'s with more detail, so that one state space answers both questions.

The properties, in the order of how much of the code has to work together:

* **`NoLostEdge`**: whenever the loop waits and a socket it serves is ready for
  what the Channel asks for, epoll has an edge pending.  This ties the Channel's
  interest, the registered mask, the order of system calls in the three
  handlers and the peer's timing together.  Connections the peer has reset are
  left out.
* **`OutputWatched`**: output left over is waited for with `EPOLLOUT`.
  `HandleRead` overwrites the interest `HandleWrite` has just added
  (`Http.cpp:77`, `:166`); this shows that `HandleCurrentConn` makes up for it.
* **`FdOwnership`**: the fd table, epoll and the objects that exist agree on
  who has a number, even though `insert()` never overwrites an entry and the
  kernel hands numbers out again at once.
* **`NoAbort`**: the assertion in `EpollDel` holds whichever of the three
  closers comes first.
* **`OneDeadline`**: every connection the loop serves has exactly one live node
  when the loop waits, and `timer_` names it.
* **`StaleOnlyAfterError`**: a destroyed Http is used only on the error path.
* **`ClosedForGood`** (action property): a closed connection is never armed,
  registered or served again, although `HandleCurrentConn` runs after the close.
* **`EventuallyClosed`** (liveness): every connection is destroyed in the end,
  unless it is stranded (see the findings) or the process was killed.
* **`ImplementsLifecycle`, `ImplementsFairLifecycle`**: opened once, closed
  once, released once, and no number given out while its last holder exists.

Of its system calls, its end, its timers and the text:

* **`ImplementsWorker`** (refinement): reading call by call, with input, FIN or RST
  between two `read`s, acts as the single step of `Worker`: nothing is read twice
  or left behind, and no edge is consumed for input that is still there.
  **`ImplementsFairWorker`** adds that a call that has begun comes to its end.
* **`NoAbort`** under `Teardown`: `~TimerNode` calls `EpollDel` on an Epoll whose
  destructor runs.  It is the order of its members that saves it (the mutant
  with the maps first aborts).
* **`HalfClosedLast`**: only a connection that `seperateTimer()` has left without
  a node is still in the maps when the heap is gone; `~Epoll` is what releases
  the stranded ones.
* **`LeftReleasesAll`** (liveness): once a loop has been left, every connection
  it had is destroyed.
* **`NeverLate`**: until the clock wraps, no node stays in the heap for more than
  one turn of the loop beyond its timeout, deleted ones included, although a
  deleted node is only looked at when it is the root.
* **`ImplementsDeadlines`** (refinement): no connection is closed by its timer
  before its timeout has passed, wrap or not.
* **`InOrder`**: what the client has been sent and what is in `write_buffer_`
  are, together, the pages in order, after any number of short writes; nothing
  follows an error page but error pages.
* **`ErrorsWait`**: an error page overtakes no page of an earlier event, although
  `HandleError` does not look at `write_buffer_`: while output is left only `EPOLLOUT`
  is registered, so nothing is read.  Pages of the same event it may overtake
  (finding 8).
* **`PagesSent`** (liveness): while the client reads, every page is sent to its
  end, or the connection is closed.
* **`RequestsRead`** (liveness): while the client reads, what it asks is read, or the
  connection is closed, also when `EPOLLOUT` is all that is registered.
* **`WholeAnswered`**: requests whose header block arrives in one piece and on
  its own are answered, each with its own path and headers, however the request
  line was cut.
* **`AnswersRight`**: when every request is `Framed` (its first `r` in its header
  block and not at the end of a line), then, however the stream is cut or pipelined,
  no request is answered before it has arrived, none is skipped or answered twice,
  and none gets the page of another.
* **`InTurn`**: for requests that need not be `Framed`, every answer is the page of a GET
  that has arrived, no request has two, and answers are in the order of the
  requests.  Some may be skipped: a request without an `r` takes the beginning of
  the next one with it, so that the answer the client gets second may be the page of
  its third request (finding 7).
* **`ImplementsHandlers`**: `HttpHandlers` allows what the parsers do.

And of the threads:

* **`ImplementsHandoff`**: round robin, in the order of `accept`, each connection
  opened at most once, with every interleaving of push, swap, copy, callbacks,
  exit and destruction; what is in a line when its worker stops goes down as a
  whole.
* **`NoLostWakeup`**: whatever waits in the list of a loop that is about to wait
  has a wakeup that is there or that the main thread is about to send.  The
  eventfd is written after the unlock, always.  The condition that is commented out
  at `EventLoop.cpp:94` would change nothing, since the main thread is never in the
  thread of the loop it pushes to; not waking a loop that runs callbacks would lose
  wakeups (the mutant `Wake_UnlessRunning`).
* **`BacklogWatched`**: with an edge-triggered listening socket the accept loop
  must empty the queue or be told of more; only an error of `accept` leaves
  connections behind.
* **`NullOnlyAfterExit`**: `GetLoop` reads `eventloop_` twice without a lock; if
  it returns null, the worker had been initialised and has left its loop since.
* **`ShutdownEnds`** (liveness): once the main loop has ended, all workers leave
  and are joined, however busy their connections keep them.

### Bounds

`MaxSends`, `SendRoom`, `MaxResponse`, `Conns`, `Fds` are the only bounds of a
worker, and `MAX_BUF_SIZE` that of `Drain`.  In `drain_atomic`, `MaxSends = 4` lets a
request arrive in fragments, requests arrive together, and a request come after
one that was answered; a buffer of 2 makes a call read once, twice or three times,
its last buffer full or not; `SendRoom = 2` with `MaxResponse = 3` lets a response
fit, fill the send buffer exactly, or be left over for later.  In
`worker_lifecycle` a second connection on one number gives the number its second
holder, and the two values of `keep_alive` take every branch of
`HandleCurrentConn`.  Handlers of different connections meet only through the fd
table, the callback list and the process, so the runs with several connections
keep the messages short; `teardown_order` has two of them open together, on two
numbers, and for more of them there are the proofs.  The server never refuses work at a
count, so there is no limit in the code that the bounds would hide (`MAXEVENTS`
is 4096; a ready channel beyond it is reported by the next wait).  In
`teardown_order` the loop is left with every combination of queued, served,
closed, stranded and unborn.

`ThreadNum`, `MaxArrivals` and `IdleLimit` bound `Reactor`.  Two workers are
enough for one of them to be gone while the other serves; three clients give
the first worker two connections, so that a push meets a list that is not
empty, a list being copied and a loop that has been served before.  `IdleLimit`
is 5 in the code; 2 keeps the checked run small and has the same cases
(a loop with none, some and all of its timeouts used), and the proofs are for
every value.  The run that looks for a violation uses 5.

`Timer` has a clock of 7 ticks with timeouts of 1 and 3 and looks at the heap every
2 ticks at most: a timeout shorter than a turn of the loop, one longer, and one
that crosses the wrap; three nodes for two connections let one be armed again
while another node still lies deleted below a live root.  The real numbers are
1,000,000 ms, 3 s and 60 s, and 5 s; only their order matters, and the proofs are
for every value.

`HttpParser` has requests of one or two header lines after the request line
(`Typical`: keys with and without a second symbol, values with a colon, a space
and an `r` in them, and a value that is too long; GET and POST), alone and up to
three in a row, and every way to cut the stream.  `Mixed` puts two requests of any
kind in front of a third: GETs and POSTs without an `r`, GETs with the first one in
the url, in the value of a header and at the end of a line, and regular ones.  All
have different pages, so an answer tells which request it is for.  Three are the
least in which an answer in the wrong place can be seen: two that are glued together
and one behind them.  `MaxValue` is 255 in the code; with 3 the
value of four symbols is just taken and the one of five just refused.  The proofs are for every value, and
for texts of every length.

`Replies` has pages larger than one piece, a send buffer that holds one page and
a part of the next (3 pieces), and four requests, so that pages queue up behind
a client that does not read and an error page meets an empty, a partly sent and
a full buffer.

`CHECK_DEADLOCK FALSE` is used where the system stops: SIGPIPE stops the process
in `WorkerReset.cfg` and `DrainAtomic.cfg`; the thread ends in
`TeardownOrder.cfg`; in `Parser*.cfg` and `Replies*.cfg` the client has sent all its
requests, or the connection is closed.  The loop itself never stops in the other
runs: `epoll_wait` returns after its timeout with no channel.

## Fairness

* `WF(LoopStep)`: a runnable worker thread is scheduled; no handler blocks
  (all sockets are non-blocking and `epoll_wait` has a timeout of 5 s).  This
  does not hold for a loop that has left `Loop`, which is the subject of
  `Reactor`.
* `SF(Expire(c))` for each connection: a node that is armed again and again
  when `HandleExpire` looks has, at some look, passed its time.  It has to
  be strong because the expiry is enabled only while the loop is at
  `HandleExpire`.  It is justified as long as the clock does not wrap (the clock
  is taken modulo 1000 s, `Timer.cpp:17`); `Timer` has the wrap, and finding 4 is
  what becomes of this there.  The peer's input is finite (`MaxSends`), so re-arming ends.
* `Teardown`: `WF` of the destruction; no destructor blocks.
* `Replies`: `WF(LoopStep)` as in `Worker`, and `WF(ClientReads)`, which is not the
  server's to give: `PagesSent` is about clients that do read.
* `Drain`: as `Worker`, with each `read` a step of the loop.
* `Timer` and `HttpParser` state safety only.
* In `Worker` nothing is assumed of the peers or of the main thread.
* In `Reactor`, `WF` of the main thread and of each worker: they are scheduled,
  and the two calls that block, `epoll_wait` and `accept`, have timeouts.  The
  busy wait in `GetLoop` changes nothing, so fairness does not end it; it ends
  because the new thread is scheduled.  Nothing is assumed of the clients.

## The proofs

### A worker

TLAPS proves the following for every set of connections and descriptors and
every size, from the assumptions `WorkerAssumption` and `MaxResponseAssumption`
(which TLC evaluates on every run).

| theorem | statement |
| --- | --- |
| `Invariance` | `Spec => []IInv` |
| `TypeCorrect` | `Spec => []TypeOK` |
| `NeverAborts` | `Spec => []NoAbort` |
| `OwnershipHolds` | `Spec => []FdOwnership` |
| `DeadlineHolds` | `Spec => []OneDeadline` |
| `StaleHolds` | `Spec => []StaleOnlyAfterError` |
| `ClosedHolds` | `Spec => ClosedForGood` |
| `LifecycleHolds` | `Spec => ImplementsLifecycle` |
| `EdgeInvariance` | `Spec => []EdgeInv` |
| `EdgesHold` | `Spec => []NoLostEdge` |
| `OutputHolds` | `Spec => []OutputWatched` |
| `DrainHolds` | `DrainSpec => ImplementsWorker` |
| `TeardownInvariance` | `TeardownSpec => []TInv` |
| `NeverAbortsLate` | `TeardownSpec => []NoAbort` |
| `OnlyHalfClosed` | `TeardownSpec => []HalfClosedLast` |

**The argument.**  `NoAbort` is not inductive: to know that `Expire(c)` finds
`c` in the table one needs that a live node belongs to a connection in the
table, which is false for a moment between the error path of `HandleRead` and
`HandleCurrentConn` of the same event, and which needs in turn that no
connection has two nodes.  `IInv` says all that:

* `Timers`: at most one live node, and `timer_` names it exactly then.  This is
  what makes `seperateTimer` sufficient before every `AddTimerNode`.
* `Owners`: table entries name the holder of their number; registered with epoll
  means in the table; living objects have different numbers.
* `Callbacks`: queued objects are untouched and queued once, so `insert()` in
  `EpollAdd` finds the key free.
* `Dispatching`: what the loop is about to handle is in the table; the current
  connection is in the table, or was refused in this very event.
* `Conditions`: a connection in the table is not closed; a served one has a
  node unless it is current; a node's connection is in the table unless it is
  current and was refused.

The lemmas follow the code: first what each operator of `HttpHandlers` does to
`has_error_` and `connectionState_`, then one lemma per action (`AcceptStep`,
`HandleReadStep`, `HandleCurrentConnStep`, ...), with one step per conjunct the
action can disturb.  `OthersKeep` serves the handlers that touch one connection
only.  `ClosedForGood` follows from `ClosedIsOut`: a closed connection is out of
the table and the lists, so the only actions left to it are `ConnAfterClose` and
the environment's.

`LifecycleHolds` rests on every step changing the phase of at most one
connection, along an edge of `ConnLifecycle`, or of none.

**The edges.**  `NoLostEdge` speaks of a loop that waits, but the edge may be
consumed by `EpollWait`, and the interest is taken apart and put together again,
while the connection is dispatched.  `EdgeInv` adds `Watching(c)` to `IInv`, which
says what is true at each place: of a served connection that is neither current
nor about to be handled, that the Channel's interest is the mask epoll has and
that a ready socket is on the ready list; of one about to be handled, that its
interest is empty and what is reported of it was asked for; of output left over,
that `EPOLLOUT` is the registered mask or in the interest being collected.  At the
end of an event `EpollModify` polls the socket again, which brings the current
connection back under the first of these.  Each action has a lemma for the
connection it is about, and `UntouchedWatching` serves all others.

**Reading call by call.**  The mapping adds `read_size` to the input of the
current connection.  A `read` is then a stutter (`ReadSomeStutters`), and the last
one is `Worker`'s `HandleRead` (`ReadLastReads`).  The invariant `DInv` says that
`read_size` is 0 unless a call runs.  The other handlers do not look at the
input of a connection that is being read; the lemmas `Same...` say so one by one.

**The end of a worker.**  `TInv` is `IInv` together with `Emptied`, which says
which members are empty when.  Destroying a closure or an entry is a part of what
`Worker`'s steps do, so the same conjuncts are kept for the same reasons;
`NoAbort` then follows because a node's connection is in the table (`Conditions`)
until the maps go, which is after the heap.

### The timers and the replies

`TimerProofs`, for every period, timeouts, connections and nodes:

| theorem | statement |
| --- | --- |
| `Invariance` | `Spec => []IInv` |
| `InTime` | `Spec => []NeverLate` |
| `NeverEarly` | `Spec => ImplementsDeadlines` |

`Links` says that connection and live node name each other; `Clocked` that
`expire_time_` minus the timeout is where the clock stood when the node was armed,
so that the clock never makes a node look older than it is, and before a wrap
not younger either; `Looked` that nothing is overdue by more than the time since
the last `HandleExpire`.  `NeverEarly` maps `left` to what is missing of a live
node's timeout.  A wrap only ever delays, which is why this holds and
`KeptForDuration` does not.

`RepliesProofs`, for pages and send buffers of every size:

| theorem | statement |
| --- | --- |
| `Invariance` | `Spec => []IInv` |
| `OrderHolds` | `Spec => []InOrder` |
| `ErrorsHold` | `Spec => []ErrorsWait` |

`Sent` says what has been sent up to each `write`, before `write_buffer_` is
trimmed; `Watched` that a connection which waits with output left is registered for
`EPOLLOUT` (not the converse: `EPOLLOUT` may be registered with nothing left), and
that all that had been made when `EPOLLIN` was last dispatched has been sent, which
is why an error page comes behind it.

### The text of requests

`ParserProofs`, for every set of streams that satisfies `ParserAssumption`, every
`MaxValue`, and every way a stream is cut or pipelined:

| theorem | statement |
| --- | --- |
| `Invariance` | `Spec => []IInv` |
| `WholeHolds` | `Spec => []WholeAnswered` |
| `RightAnswers` | `Spec => []AnswersRight` |
| `HandlersImplemented` | `Spec => []ImplementsHandlers` |

**The assumption.**  `ParserAssumption` asks only that streams are sequences of
requests and these of symbols, each with the place of its first `r` or 0.  What a
request has to be for a theorem stands in the theorem's property.  `Framed` requests
have a method, a url and a version before their first `r`, which is where
`ParseURI` stops; then lines that end in CR LF, none of them blank or with a space
at its end, and the blank line (`RequestLine`, `HeaderBlock`); the `r` is not the last
letter of a line.  Nothing else is asked of their length, words or headers: lines
without a colon, values that are too long and a first `r` in the value of a header are
allowed, and are what the automaton has to refuse.  `AnswersRight` has the premise
that all requests of the stream are `Framed`, `WholeAnswered` that they are `Readable` in
addition.  HTTP does not give that premise: a request may have no `r`, or its first
one in the url or at the end of a line, and then `AnswersRight` says nothing and its
conclusion does not hold (finding 7).  What does hold there is `InTurn`, which is checked
and not proved.  `ImplementsHandlers` has no premise.

**Where the buffer stands.**  That no answer is given for the wrong request
depends on where in the stream the buffer begins, which no variable says.
`Consumed` is that place, counted from the start of the stream: all that has
arrived less what is still in the buffer or the socket.  `Contents` says that the
buffer and the socket hold the stream from there on.  `AtLine` says that, between
requests, it is where the next request begins, one symbol before (the LF
which a block cut before its last byte leaves behind) or one behind (the byte
finding 6 loses).  `AtBlock` says that inside a block it is where a line begins or on
the LF before that, and in which state the automaton may have been left there.
From this, `LineFound` shows that `ParseURI` finds the request it is given or
refuses, and never takes another for it; and `BlockScan`, with a relation between
the state, the place and the two symbols around it, that the automaton cannot be at
the end before the block is, in whatever state the last call has left it.  A cut in
a header line may ruin the headers (finding 5), but not lead to the next request.
`Placed` joins these; `PlacedTurn` and `PlacedArrive` have it over the two actions.
`AtLine` and `AtBlock` are said of streams of `Framed` requests; `Resumes` is what is
left of them without that: the state of the automaton is the first one between two
requests, and not the last one inside a block.  `Placed` is what `AnswersRight` and
`ImplementsHandlers` need.

**Blocks that come whole.**  `Whole` adds what holds as long as no block was cut and
no request was pipelined: the buffer begins exactly at the next request, every
answer given has the path and the headers of its request, and only a POST stops
the connection.  Its core is `WholeScan`: after `i` bytes of a readable block
the automaton is where the header line around `i` says (`StateAt`), and `headers`
has what the lines before it say, the last one of a name winning (`Collected`).

**Induction.**  What a call computes is a recursive function over the buffer.  The
induction theorems of the library take an operator as a parameter, which the
provers cannot instantiate.  `SetInduction` says the same of a *set* of numbers:
one that has 0, and `n + 1` with `n`, has every number; it follows from `<` being well
founded.  With it, `ScanIsDefined` and `OffsetIsDefined` show that the recursive
definitions define functions, and `BlockScan`, `WholeScan` and `Offsets` are
inductions over the place in the text.

### The threads

For every number of workers and clients and every idle limit, from
`ReactorAssumption`:

| theorem of `ReactorProofs` | statement |
| --- | --- |
| `Invariance` | `Spec => []IInv` |
| `TypeCorrect` | `Spec => []TypeOK` |
| `WakeupHolds` | `Spec => []NoLostWakeup` |
| `NullHolds` | `Spec => []NullOnlyAfterExit` |
| `BacklogHolds` | `Spec => []BacklogWatched` |
| `HandoffHolds` | `Spec => ImplementsHandoff` |

`NoLostWakeup` speaks of a loop at its head or waiting, but the wakeup that
saves it may have been consumed by `epoll_wait` before the push, or sent while
the loop ran callbacks.  `IInv` therefore says it of every place but those where
the loop holds the list or will drop it (`Lists`): from the push on, the
pending write or the edge stays until the next `epoll_wait`, after which comes
the swap.  `Lists` also says that the copied list is empty outside
`DoCallbacks`, without which a swap would lose callbacks, and that a destroyed
loop has no list.  `Listening` extends `BacklogWatched` to the head of the loop;
`Turns` is the relation of `next_loop_` to the chosen loop that the refinement
needs; `Ranges` says that the indices and counts are in range where they are
used and that no thread exists before its turn.  `Published`, which
`NullOnlyAfterExit` needs on top of it, says when `eventloop_` is set and that a
loop `GetLoop` has seen had been constructed.  The refinement has one lemma
for each step that is not a stutter (`PushRefines`, `RunRefines`,
`DestroyRefines`) and one for the swap, which is (`SwapRefines`).

### Only model-checked

* `EventuallyClosed`, `ImplementsFairLifecycle`, `ImplementsFairWorker`, `ShutdownEnds`,
  `PagesSent`, `RequestsRead` and `LeftReleasesAll`: liveness under fairness is outside
  what the prover handles.
* `InTurn`: what is answered when requests are glued together.  The proof would
  need the place of the buffer in the stream for every way the first `r` can lie.
* The properties `drain_atomic` checks of `Drain` itself: the theorems are about
  `Worker`, and carry over through `DrainHolds` as far as they do not speak of the
  socket's input, which the mapping changes.

## Findings

Each of the first five is shown by a run.

1. *A half-closed peer is not answered in full, and its connection stays.*
   The comment at `Http.cpp:94` says that when the peer has shut down its
   sending side the server should close the connection after writing everything.
   `HandleCurrentConn` (`Http.cpp:215-217`) asks for `EPOLLOUT` in the Channel
   but does not call `UpdateEpoller`, and `seperateTimer()` has already dropped
   the deadline.  Epoll keeps the old mask.  Run `worker_half_close` ends in a
   state where the loop waits, output is left and `EPOLLOUT` is not registered.
   `Stranded` in the other properties is exactly this case.
2. *A reset connection kills the process.*  The comment at `Http.cpp:93` says
   that writing to a connection the peer has closed raises SIGPIPE and that the
   connection should be closed instead.  `HandleRead` (`Http.cpp:86-90`) answers
   a failed `read` with `HandleError`, which writes to the broken socket;
   SIGPIPE is neither ignored nor handled.  Run `worker_reset` shows it.
3. *Connections are given to loops that no longer exist.*  `README.md:40` says
   that new connections are assigned to the event loops round robin.
   `timeout_count` (`EventLoop.cpp:37-44`) is never set back to 0, so five idle
   timeouts in a worker's whole life end its loop and destroy it, and the pool
   goes on handing it every `ThreadNum`-th connection.  Run `reactor_strayed`
   shows it; `Handoff` has it as "what a worker that has stopped is given is
   lost".
4. *A connection may outlive its timeout for ever.*  `README.md:55` says that a
   kept-alive connection is kept for a specific duration.  A node armed in the
   last 60 s (or 3 s) before the clock of `Timer.cpp:17` starts again has an
   `expire_time_` the clock reaches a whole cycle late or never.  Run `timer_kept`.
5. *A header cut between two reads is not resumed where it was.*  The comments at
   `Http.cpp:76` and `Http.h:32` say that more data may come and parsing goes on.
   `ParseHeaders` keeps its state but not its indices (`Http.cpp:304`) and the
   buffer is cut back to the beginning of the line.  Run `parser_fragments`.

The modules contain four more, which the premises of the passing properties or their
wording leave room for:

6. *The first byte of a pipelined request is lost.*  `README.md:51` and the comment
   at `Http.cpp:158` promise pipelining.  `H_END_LF` is left only with the byte
   after the block, which `substr(i)` drops.  `WholeAnswered` does not hold
   without `~piped`.
7. *The request line ends at the first `r`.*  `find('/r')` (`Http.cpp:225`) searches
   for the letter, so the example in the comment at `Http.cpp:256` is refused.
   A request that has no `r` at all (`GET /a HTTP/1.1`, `Host: localhost`) is not found:
   alone it is never answered, and with another behind it the two are glued together
   (`Http.cpp:225-247`) and get one answer, with the url of the first and the headers
   of the second.  The third request of such a pipeline gets the second answer: the
   client, which counts answers, takes it for that of its second request.  An `r`
   at the end of a line leaves a CR in front of the block, with the like
   effects.  `Find` and `AtURI` have it so, and `Mixed` in `MCHttpParser` has such
   requests; `AnswersRight` is about the others, and `InTurn` says what is left of it.
8. *An error page may cut an earlier page short.*  `HandleError` writes past
   `write_buffer_`, and the connection is closed with what is left in it.  That happens
   to pages of requests read in the same event; `ErrorsWait` is about earlier ones.
9. *`GetLoop` may return null.*  The comment at `EventLoopThread.cpp:24` says it
   waits until `eventloop_` has been initialised.  It reads `eventloop_` a
   second time to return it, and the worker may have left its loop in between
   (`NullOnlyAfterExit`); the main thread would have to be held up for the 25 s of
   five timeouts.

## Not modelled

* Text that no control depends on: the bytes of pages, file names and their
  types, `mmap`, the wording of headers and error pages.
* Failures of `epoll_ctl` and `epoll_wait`, which the code only reports; running
  out of memory or descriptors, beyond `accept` failing (`AcceptFails`).
* `setSocketNonBlocking` is taken to succeed; `SetKeepAlive` sets a TCP option
  nothing here depends on.  `TimerNode::Update` is called nowhere.
* One peer that sends without end: `ReadFromFd` reads until the socket is empty, so
  such a peer keeps its worker for itself.  `MaxSends` bounds what a peer sends;
  there is no fairness between connections in the code to state.
* Several `Worker`s under `Reactor` in one specification.  Workers share nothing
  with each other, and what passes between a worker and the main thread is the
  callback list, the wakeup and the end of the loop, which `Reactor` (with
  `Handoff`) and `Teardown` have from both sides; the product of the two would
  repeat their states without another interaction.
* The stand-alone echo demos (`ServerDemo` includes `Server/Utils.h`, which does
  not exist, so it does not build), `Timer.h.discard` and `Timer.tpp.discard`
  (never compiled), and the vendored `doctest.h` (7019 of the 8987 lines).

## The plan

What remains, in this order:

1. Liveness of `Drain`: a peer that keeps sending against other connections of the
   same loop, if the code ever bounds a call of `ReadFromFd`.
2. Proofs: `InTurn` for requests that are not `Framed`; a bound on what a header line
   cut between two reads may do, beyond `AnswersRight` (the keys and values finding 5
   mangles).
3. A `Timer` with the wrap mended (comparing differences), as the specification
   of a correction to finding 4; likewise indices kept across calls for finding 5.
