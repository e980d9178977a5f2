--------------------------- MODULE ReactorProofs ---------------------------
(***************************************************************************)
(* Proofs about Reactor, for any number of workers and of clients: IInv is *)
(* inductive, no wakeup and no arrival is lost, and the hand-over          *)
(* implements Handoff.                                                     *)
(***************************************************************************)
EXTENDS Reactor, SequenceTheorems, TLAPS

-----------------------------------------------------------------------------
(* Facts about the index of the next loop and about the two lists.         *)

\* (next_loop_ + 1) % thread_num_ goes round the workers.
LEMMA RoundTheWorkers ==
  ASSUME NEW w \in Workers
  PROVE  /\ (w + 1) % ThreadNum \in Workers
         /\ (w + 1) % ThreadNum = IF w = ThreadNum - 1 THEN 0 ELSE w + 1
BY ReactorAssumption DEF Workers

\* Queueing a closure puts it at the end of what a worker has to run.
LEMMA QueueAtEnd ==
  ASSUME NEW s \in Seq(Nat), NEW t \in Seq(Nat), NEW k \in Nat
  PROVE  /\ Append(t, k) \in Seq(Nat)
         /\ s \o Append(t, k) = Append(s \o t, k)
BY AppendIsConcat, ConcatAssociative

\* Running the first closure of the copied list takes the head of what a worker
\* has to run.
LEMMA RunFromFront ==
  ASSUME NEW s \in Seq(Nat), NEW t \in Seq(Nat), s # <<>>
  PROVE  /\ Tail(s) \in Seq(Nat) /\ Head(s) \in Nat
         /\ s \o t # <<>>
         /\ Head(s \o t) = Head(s)
         /\ Tail(s \o t) = Tail(s) \o t
BY HeadTailProperties, ConcatProperties, SeqEqual

-----------------------------------------------------------------------------
(* IInv holds initially, and each thread's steps keep it.                  *)

\* The state main() starts in satisfies the invariant.
LEMMA InitIInv == Init => IInv
<1> SUFFICES ASSUME Init PROVE IInv
  OBVIOUS
<1>1. TypeOK
  <2>1. /\ mpc \in MainPC /\ turn \in 0 .. ThreadNum
        /\ eventloops \in [Workers -> {"none", "loop", "null"}]
        /\ next_loop \in Workers /\ target \in Workers
        /\ accepted \in Nat /\ midle \in 0 .. IdleLimit
    BY ReactorAssumption DEF Init, MainPC, Workers
  <2>2. /\ listening \in BOOLEAN /\ arrived \in Nat /\ backlog \in Nat
        /\ lready \in BOOLEAN /\ gaveUp \in BOOLEAN
    BY DEF Init
  <2>3. /\ wpc \in [Workers -> WorkerPC] /\ eventloop \in [Workers -> BOOLEAN]
        /\ looping \in [Workers -> BOOLEAN] /\ idle \in [Workers -> 0 .. IdleLimit]
    BY ReactorAssumption DEF Init, WorkerPC
  <2>4. /\ queue \in [Workers -> Seq(Nat)] /\ calls \in [Workers -> Seq(Nat)]
        /\ opened \in [Workers -> Seq(Nat)] /\ wake \in [Workers -> BOOLEAN]
        /\ strayed \subseteq Nat /\ proc \in {"run", "crash"}
    BY EmptySeq DEF Init
  <2> QED
    BY <2>1, <2>2, <2>3, <2>4 DEF TypeOK
<1>2. Ranges /\ Turns /\ Listening /\ Lists
  BY ReactorAssumption DEF Init, Ranges, Turns, Listening, Lists, Workers
<1> QED
  BY <1>1, <1>2 DEF IInv

\* EventLoopThreadPool::start: turn stays within the pool, nothing is queued.
LEMMA StartStep ==
  ASSUME IInv, CreateThread \/ Spin \/ SpinEnds \/ TakeLoop \/ Listen
  PROVE  IInv'
<1> USE ReactorAssumption DEF IInv
<1>1. CASE CreateThread
  <2>1. TypeOK'
    BY <1>1 DEF CreateThread, TypeOK, MainPC, WorkerPC, listenVars, handVars
  <2>2. turn \in Workers /\ wpc' = [wpc EXCEPT ![turn] = "new"] /\ wpc \in [Workers -> WorkerPC]
    BY <1>1 DEF CreateThread, TypeOK, Ranges, Workers
  <2>3. Lists'
    BY <1>1, <2>2 DEF CreateThread, Lists, Ranges, handVars
  <2>4. Ranges'
    BY <1>1, <2>2 DEF CreateThread, TypeOK, Ranges, Workers, listenVars
  <2>5. Turns' /\ Listening'
    BY <1>1 DEF CreateThread, Turns, Listening
  <2> QED
    BY <2>1, <2>3, <2>4, <2>5
<1>2. CASE Spin
  BY <1>2 DEF Spin, vars, mainVars, listenVars, loopVars, handVars, TypeOK, Ranges, Turns,
     Listening, Lists
<1>3. CASE SpinEnds
  BY <1>3 DEF SpinEnds, listenVars, loopVars, handVars, TypeOK, MainPC, Ranges, Turns,
     Listening, Lists
<1>4. CASE TakeLoop
  <2>1. turn < ThreadNum /\ turn \in Nat
    BY <1>4 DEF TakeLoop, Ranges, TypeOK
  <2>2. TypeOK'
    <3>1. eventloops' \in [Workers -> {"none", "loop", "null"}]
      BY <1>4 DEF TakeLoop, TypeOK
    <3>2. turn' \in 0 .. ThreadNum /\ mpc' \in MainPC
          /\ UNCHANGED <<next_loop, target, accepted, midle, listenVars, loopVars, handVars, proc>>
      BY <1>4, <2>1 DEF TakeLoop, MainPC
    <3> QED
      BY <3>1, <3>2 DEF TypeOK, listenVars, loopVars, handVars
  <2>3. Lists'
    BY <1>4 DEF TakeLoop, Lists, loopVars, handVars
  <2>4. turn' = turn + 1 /\ mpc' \in {"create", "listen"} /\ (mpc' = "create" => turn' \in Workers)
    BY <1>4, <2>1 DEF TakeLoop, Workers
  <2>5. Ranges'
    BY SMTT(30), <1>4, <2>1, <2>4 DEF TakeLoop, TypeOK, Ranges, Workers, listenVars, loopVars
  <2>6. Turns' /\ Listening'
    BY <1>4, <2>4 DEF TakeLoop, Ranges, Turns, Listening, listenVars
  <2> QED
    BY <2>2, <2>3, <2>5, <2>6
<1>5. CASE Listen
  BY <1>5 DEF Listen, loopVars, handVars, TypeOK, MainPC, Ranges, Turns, Listening, Lists
<1> QED
  BY <1>1, <1>2, <1>3, <1>4, <1>5

\* The main thread's Loop: it only goes back to epoll_wait with the listen queue
\* watched.
LEMMA MainLoopStep ==
  ASSUME IInv, MainHead \/ MainEvent \/ MainIdle
  PROVE  IInv'
<1> USE ReactorAssumption DEF IInv
<1>1. CASE MainHead
  <2>1. /\ mpc = "head" /\ turn' \in 0 .. ThreadNum
        /\ (mpc' = "wait" /\ midle < IdleLimit) \/ (mpc' = "quit" /\ turn' < ThreadNum)
        /\ UNCHANGED <<eventloops, next_loop, target, accepted, midle, listenVars, loopVars,
                       handVars, proc>>
    <3>1. midle \in 0 .. IdleLimit /\ turn \in 0 .. ThreadNum
      BY DEF TypeOK
    <3>2. CASE midle < IdleLimit
      <4>1. mpc = "head" /\ mpc' = "wait" /\ turn' = turn
        BY <1>1, <3>2 DEF MainHead
      <4> QED
        BY <1>1, <3>1, <3>2, <4>1 DEF MainHead
    <3>3. CASE ~(midle < IdleLimit)
      BY <1>1, <3>1, <3>3 DEF MainHead
    <3> QED
      BY <3>2, <3>3
  <2>2. TypeOK'
    BY <2>1 DEF TypeOK, MainPC, listenVars, loopVars, handVars
  <2>3. Ranges' /\ Turns' /\ Listening' /\ Lists'
    BY <2>1 DEF Ranges, Turns, Listening, Lists, listenVars, loopVars, handVars
  <2> QED
    BY <2>2, <2>3
<1>2. CASE MainEvent
  BY <1>2 DEF MainEvent, loopVars, handVars, TypeOK, MainPC, Ranges, Turns, Listening, Lists
<1>3. CASE MainIdle
  <2>1. TypeOK'
    <3>1. midle < IdleLimit /\ midle \in Nat
      BY <1>3 DEF MainIdle, TypeOK, Ranges
    <3>2. /\ midle' \in 0 .. IdleLimit
          /\ lready' \in BOOLEAN
          /\ mpc' \in MainPC
      <4>1. midle' = midle + 1 /\ lready' = FALSE /\ mpc' = "head"
        BY <1>3 DEF MainIdle
      <4>2. midle + 1 \in 0 .. IdleLimit
        BY <3>1
      <4> QED
        BY <4>1, <4>2 DEF MainPC
    <3>3. UNCHANGED <<turn, eventloops, next_loop, target, accepted, listening, arrived, backlog,
                      gaveUp, loopVars, handVars, proc>>
      BY <1>3 DEF MainIdle
    <3> QED
      BY <3>2, <3>3 DEF TypeOK, loopVars, handVars
  <2>2. Ranges' /\ Turns' /\ Listening' /\ Lists'
    BY <1>3 DEF MainIdle, loopVars, handVars, Ranges, Turns, Listening, Lists
  <2> QED
    BY <2>1, <2>2
<1> QED
  BY <1>1, <1>2, <1>3

\* accept(): the next loop goes round, and an emptied or failed loop ends with
\* the listen queue empty or given up.
LEMMA AcceptStep ==
  ASSUME IInv, AcceptConn \/ AcceptEmpty \/ AcceptFails
  PROVE  IInv'
<1> USE ReactorAssumption DEF IInv
<1>1. CASE AcceptConn
  <2>1. TypeOK'
    <3>1. target' \in Workers /\ next_loop' \in Workers
      <4>1. next_loop \in Workers /\ target' = next_loop /\ next_loop' = (next_loop + 1) % ThreadNum
        BY <1>1 DEF AcceptConn, GetNextLoop, TypeOK
      <4> QED
        BY <4>1, RoundTheWorkers
    <3>2. mpc' = "push" /\ backlog' \in Nat /\ accepted' \in Nat
      BY <1>1 DEF AcceptConn, TypeOK
    <3>3. UNCHANGED <<turn, eventloops, midle, listening, arrived, lready, gaveUp, loopVars,
                      handVars, proc>>
      BY <1>1 DEF AcceptConn
    <3> QED
      BY <3>1, <3>2, <3>3 DEF TypeOK, MainPC, loopVars, handVars
  <2>2. Ranges' /\ Turns' /\ Listening' /\ Lists'
    BY <1>1 DEF AcceptConn, GetNextLoop, TypeOK, Ranges, Turns, Listening, Lists, loopVars, handVars
  <2> QED
    BY <2>1, <2>2
<1>2. CASE AcceptEmpty \/ AcceptFails
  <2>1. /\ mpc = "accept" /\ mpc' = "head" /\ gaveUp' \in BOOLEAN /\ (backlog = 0 \/ gaveUp')
        /\ UNCHANGED <<turn, eventloops, next_loop, target, accepted, midle, listening, arrived,
                       backlog, lready, loopVars, handVars, proc>>
    BY <1>2 DEF AcceptEmpty, AcceptFails
  <2>2. TypeOK'
    BY <2>1 DEF TypeOK, MainPC, loopVars, handVars
  <2>3. Ranges' /\ Turns' /\ Listening' /\ Lists'
    BY <2>1 DEF TypeOK, Ranges, Turns, Listening, Lists, loopVars, handVars
  <2> QED
    BY <2>2, <2>3
<1> QED
  BY <1>1, <1>2

\* QueueINCallback: between the unlock and the write to the eventfd the main
\* thread itself is the promise of a wakeup.
LEMMA PushStep ==
  ASSUME IInv, Push
  PROVE  IInv'
<1> USE ReactorAssumption DEF IInv
<1>1. /\ mpc = "push" /\ mpc' \in {"push", "wake"}
      /\ target \in Workers /\ accepted \in Nat
      /\ UNCHANGED <<turn, eventloops, next_loop, target, accepted, midle, listenVars, loopVars,
                     calls, opened, wake>>
  BY DEF Push, PushLive, PushDead, PushNull, TypeOK
<1>2. CASE PushLive
  <2>1. mpc' = "wake" /\ UNCHANGED <<strayed, proc>> /\ wpc[target] # "gone"
    BY <1>2 DEF PushLive
  <2>2. queue' \in [Workers -> Seq(Nat)] /\ \A w \in Workers \ {target} : queue'[w] = queue[w]
    BY <1>1, <1>2, QueueAtEnd DEF PushLive, TypeOK
  <2>3. TypeOK'
    BY <1>1, <2>1, <2>2 DEF TypeOK, MainPC, listenVars, loopVars
  <2>4. Lists'
    BY <1>1, <2>1, <2>2 DEF Lists, loopVars
  <2>5. Ranges' /\ Turns' /\ Listening'
    BY <1>1, <2>1 DEF Ranges, Turns, Listening, listenVars, loopVars
  <2> QED
    BY <2>3, <2>4, <2>5
<1>3. CASE PushDead \/ PushNull
  <2>1. queue' = queue /\ proc' \in {"run", "crash"} /\ strayed' \subseteq Nat
    BY <1>1, <1>3 DEF PushDead, PushNull, TypeOK
  <2>2. TypeOK'
    BY <1>1, <2>1 DEF TypeOK, MainPC, listenVars, loopVars
  <2>3. Ranges' /\ Turns' /\ Listening' /\ Lists'
    BY <1>1, <2>1 DEF Ranges, Turns, Listening, Lists, listenVars, loopVars
  <2> QED
    BY <2>2, <2>3
<1> QED
  BY <1>2, <1>3 DEF Push

\* WakeUpTargetEventLoop keeps that promise.
LEMMA WakeStep ==
  ASSUME IInv, Wake
  PROVE  IInv'
<1> USE ReactorAssumption DEF IInv
<1>1. TypeOK'
  BY DEF Wake, TypeOK, MainPC, listenVars, loopVars
<1>2. Lists'
  BY DEF Wake, TypeOK, Lists, loopVars
<1>3. Ranges' /\ Turns' /\ Listening'
  BY DEF Wake, Ranges, Turns, Listening, listenVars, loopVars
<1> QED
  BY <1>1, <1>2, <1>3

\* Shutdown: telling and joining stay within the pool.
LEMMA ShutdownStep ==
  ASSUME IInv, QuitLoop \/ Join
  PROVE  IInv'
<1> USE ReactorAssumption DEF IInv
<1>1. /\ mpc \in {"quit", "join"} /\ mpc' \in {"quit", "join", "done"}
      /\ turn' \in 0 .. ThreadNum - 1
      /\ looping' \in [Workers -> BOOLEAN] /\ proc' \in {"run", "crash"}
      /\ UNCHANGED <<eventloops, next_loop, target, accepted, midle, listenVars, wpc, eventloop,
                     idle, handVars>>
  <2>1. turn \in 0 .. ThreadNum - 1 /\ looping \in [Workers -> BOOLEAN] /\ proc \in {"run", "crash"}
    BY DEF QuitLoop, Join, Ranges, TypeOK
  <2>2. CASE QuitLoop
    <3>1. looping' \in [Workers -> BOOLEAN] /\ proc' \in {"run", "crash"}
      BY <2>1, <2>2 DEF QuitLoop
    <3>2. /\ mpc = "quit" /\ mpc' \in {"quit", "join"} /\ turn' \in 0 .. ThreadNum - 1
          /\ UNCHANGED <<eventloops, next_loop, target, accepted, midle, listenVars, wpc,
                         eventloop, idle, handVars>>
      BY <2>1, <2>2 DEF QuitLoop, NextTurn
    <3> QED
      BY <3>1, <3>2
  <2>3. CASE Join
    BY <2>1, <2>3 DEF Join, NextTurn, loopVars
  <2> QED
    BY <2>2, <2>3
<1>2. TypeOK'
  BY SMTT(30), <1>1 DEF TypeOK, MainPC, listenVars, handVars
<1>3. Ranges' /\ Turns' /\ Listening' /\ Lists'
  BY <1>1 DEF Ranges, Turns, Listening, Lists, listenVars, handVars
<1> QED
  BY <1>2, <1>3

\* The worker's thread before and after Loop, and at its head: the list is not
\* touched before it is destroyed.
LEMMA ThreadStep ==
  ASSUME IInv, NEW w \in Workers, Construct(w) \/ LoopHead(w) \/ Unpublish(w) \/ Destroy(w)
  PROVE  IInv'
<1> USE ReactorAssumption DEF IInv
<1>1. /\ wpc[w] \in {"new", "head", "leave", "destroy"}
      /\ wpc' \in [Workers -> WorkerPC] /\ wpc'[w] \in {"head", "wait", "leave", "destroy", "gone"}
      /\ \A v \in Workers \ {w} : wpc'[v] = wpc[v] /\ queue'[v] = queue[v] /\ wake'[v] = wake[v]
      /\ UNCHANGED <<mainVars, listenVars, idle, calls, opened, strayed, proc>>
      /\ looping' \in [Workers -> BOOLEAN] /\ eventloop' \in [Workers -> BOOLEAN]
  BY ZenonT(30) DEF Construct, LoopHead, Unpublish, Destroy, At, TypeOK, WorkerPC, handVars
<1>2. queue' \in [Workers -> Seq(Nat)] /\ wake' \in [Workers -> BOOLEAN]
  <2>1. CASE Destroy(w)
    BY <2>1, EmptySeq DEF Destroy, TypeOK
  <2>2. CASE Construct(w) \/ LoopHead(w) \/ Unpublish(w)
    BY <2>2 DEF Construct, LoopHead, Unpublish, TypeOK, handVars
  <2> QED
    BY <2>1, <2>2
<1>3. TypeOK'
  BY <1>1, <1>2 DEF TypeOK, mainVars, listenVars
<1>4. \/ wpc'[w] = "gone" /\ queue'[w] = <<>>
      \/ /\ wpc'[w] \in {"head", "wait"} /\ wpc[w] \in {"new", "head"}
         /\ queue'[w] = queue[w] /\ wake'[w] = wake[w]
      \/ wpc'[w] \in {"leave", "destroy"}
  BY DEF Construct, LoopHead, Unpublish, Destroy, At, TypeOK, handVars
<1>5. Lists'
  BY <1>1, <1>4 DEF Lists, mainVars
<1>6. wpc'[w] = "wait" => idle[w] < IdleLimit
  BY DEF Construct, LoopHead, Unpublish, Destroy, At, TypeOK
<1>7. Ranges'
  <2>1. \A v \in Workers : wpc[v] = "unborn" => wpc'[v] = "unborn"
    BY <1>1
  <2>2. \A v \in Workers : wpc'[v] = "wait" => idle[v] < IdleLimit
    BY <1>1, <1>6 DEF Ranges
  <2>3. mpc = "create" => turn \in Workers
    BY DEF TypeOK, Ranges, Workers
  <2> QED
    BY <1>1, <2>1, <2>2, <2>3 DEF Ranges, mainVars, listenVars
<1>8. Turns' /\ Listening'
  BY <1>1 DEF Turns, Listening, mainVars, listenVars
<1> QED
  BY <1>3, <1>5, <1>7, <1>8

\* One iteration of the worker's Loop: what epoll_wait has taken the wakeup for
\* is swapped out next.
LEMMA IterationStep ==
  ASSUME IInv, NEW w \in Workers,
         \/ WaitReturns(w) \/ WaitTimesOut(w) \/ Swap(w) \/ RunCallback(w) \/ CallbacksDone(w)
  PROVE  IInv'
<1> USE ReactorAssumption DEF IInv
<1>1. /\ wpc[w] \in {"wait", "swap", "run"} /\ wpc'[w] \in {"swap", "run", "head"}
      /\ wpc' \in [Workers -> WorkerPC]
      /\ \A v \in Workers \ {w} :
           /\ wpc'[v] = wpc[v] /\ queue'[v] = queue[v] /\ wake'[v] = wake[v]
           /\ calls'[v] = calls[v] /\ idle'[v] = idle[v]
      /\ UNCHANGED <<mainVars, listenVars, eventloop, looping, strayed, proc>>
  BY ZenonT(30) DEF WaitReturns, WaitTimesOut, Swap, RunCallback, CallbacksDone, At, TypeOK, WorkerPC,
     handVars, loopVars
<1>2. /\ queue' \in [Workers -> Seq(Nat)] /\ calls' \in [Workers -> Seq(Nat)]
      /\ opened' \in [Workers -> Seq(Nat)]
  <2>1. CASE RunCallback(w)
    BY <2>1, RunFromFront, AppendProperties DEF RunCallback, TypeOK
  <2>2. CASE Swap(w)
    BY <2>2, EmptySeq DEF Swap, TypeOK
  <2>3. CASE WaitReturns(w) \/ WaitTimesOut(w) \/ CallbacksDone(w)
    BY <2>3 DEF WaitReturns, WaitTimesOut, CallbacksDone, TypeOK, handVars
  <2> QED
    BY <2>1, <2>2, <2>3
<1>3. idle' \in [Workers -> 0 .. IdleLimit] /\ wake' \in [Workers -> BOOLEAN]
  <2>1. CASE WaitReturns(w)
    BY <2>1 DEF WaitReturns, TypeOK
  <2>2. CASE WaitTimesOut(w)
    <3>1. idle[w] + 1 \in 0 .. IdleLimit
      BY <2>2 DEF WaitTimesOut, At, TypeOK, Ranges
    <3> QED
      BY <2>2, <3>1 DEF WaitTimesOut, TypeOK, handVars
  <2>3. CASE Swap(w) \/ RunCallback(w) \/ CallbacksDone(w)
    BY <2>3 DEF Swap, RunCallback, CallbacksDone, TypeOK, handVars, loopVars
  <2> QED
    BY <2>1, <2>2, <2>3
<1>4. TypeOK'
  BY <1>1, <1>2, <1>3 DEF TypeOK, mainVars, listenVars
<1>5. /\ calls'[w] # <<>> => wpc'[w] = "run"
      /\ \/ wpc'[w] = "swap"
         \/ queue'[w] = <<>>
         \/ queue'[w] = queue[w] /\ wake'[w] = wake[w] /\ wpc[w] = "run"
  BY DEF WaitReturns, WaitTimesOut, Swap, RunCallback, CallbacksDone, At, TypeOK, Lists, handVars,
     loopVars
<1>6. Lists'
  BY <1>1, <1>5 DEF Lists, mainVars
<1>7. Ranges'
  <2>1. \A v \in Workers : wpc[v] = "unborn" => wpc'[v] = "unborn"
    BY <1>1
  <2>2. \A v \in Workers : wpc'[v] = "wait" => idle'[v] < IdleLimit
    BY <1>1 DEF Ranges
  <2>3. mpc = "create" => turn \in Workers
    BY DEF TypeOK, Ranges, Workers
  <2> QED
    BY <1>1, <2>1, <2>2, <2>3 DEF Ranges, mainVars, listenVars
<1>8. Turns' /\ Listening'
  BY <1>1 DEF Turns, Listening, mainVars, listenVars
<1> QED
  BY <1>4, <1>6, <1>7, <1>8

\* A client that connects makes an edge.
LEMMA ArriveStep == IInv /\ Arrive => IInv'
BY DEF IInv, Arrive, mainVars, loopVars, handVars, TypeOK, Ranges, Turns, Listening, Lists

-----------------------------------------------------------------------------
(* The theorems.                                                           *)

\* The inductive step.
LEMMA NextIInv == IInv /\ [Next]_vars => IInv'
<1> SUFFICES ASSUME IInv, [Next]_vars PROVE IInv'
  OBVIOUS
<1>1. CASE Terminated \/ UNCHANGED vars
  <2>1. UNCHANGED <<mainVars, listenVars, loopVars, handVars, proc>>
    BY <1>1 DEF Terminated, vars
  <2>2. TypeOK'
    BY <2>1 DEF mainVars, listenVars, loopVars, handVars, IInv, TypeOK
  <2>3. Ranges'
    BY <2>1 DEF mainVars, listenVars, loopVars, IInv, Ranges
  <2>4. Turns' /\ Listening'
    BY <2>1 DEF mainVars, listenVars, IInv, Turns, Listening
  <2>5. Lists'
    BY <2>1 DEF mainVars, loopVars, handVars, IInv, Lists
  <2> QED
    BY <2>2, <2>3, <2>4, <2>5 DEF IInv
<1>2. CASE MainStep
  BY <1>2, StartStep, MainLoopStep, AcceptStep, PushStep, WakeStep, ShutdownStep DEF MainStep
<1>3. CASE \E w \in Workers : WorkerStep(w)
  BY <1>3, ThreadStep, IterationStep DEF WorkerStep
<1>4. CASE Arrive
  BY <1>4, ArriveStep
<1> QED
  BY <1>1, <1>2, <1>3, <1>4 DEF Next

\* The inductive invariant holds in every reachable state, for any number of
\* workers, of timeouts and of clients.
THEOREM Invariance == Spec => []IInv
<1>1. Init => IInv
  BY InitIInv
<1>2. IInv /\ [Next]_vars => IInv'
  BY NextIInv
<1> QED
  BY <1>1, <1>2, PTL DEF Spec

\* Every variable keeps its type, the counters of the eventfds and of the
\* timeouts included.
THEOREM TypeCorrect == Spec => []TypeOK
<1>1. IInv => TypeOK
  BY DEF IInv
<1> QED
  BY <1>1, Invariance, PTL

\* A queued connection never waits for the timeout of epoll_wait.
THEOREM WakeupHolds == Spec => []NoLostWakeup
<1>1. IInv => NoLostWakeup
  BY DEF IInv, Lists, NoLostWakeup
<1> QED
  BY <1>1, Invariance, PTL

\* Only the main thread, in start(), and the worker itself touch eventloop_.
LEMMA PublishedStep == IInv /\ Published /\ [Next]_vars => Published'
<1> SUFFICES ASSUME IInv, Published, [Next]_vars PROVE Published'
  OBVIOUS
<1> USE DEF mainVars, listenVars, loopVars, handVars
<1>1. /\ wpc \in [Workers -> {"unborn", "new", "head", "wait", "swap", "run", "leave",
                               "destroy", "gone"}]
      /\ eventloop \in [Workers -> BOOLEAN]
      /\ eventloops \in [Workers -> {"none", "loop", "null"}]
      /\ mpc = "create" => turn < ThreadNum /\ wpc[turn] = "unborn"
  BY DEF IInv, TypeOK, Ranges, WorkerPC
<1>2. ASSUME UNCHANGED <<wpc, eventloop, eventloops>>, mpc' # "take" \/ UNCHANGED <<mpc, turn>>
      PROVE  Published'
  BY <1>2 DEF Published, NullOnlyAfterExit
<1>3. CASE Terminated \/ UNCHANGED vars \/ Arrive \/ Spin
  BY <1>2, <1>3 DEF Terminated, vars, Arrive, Spin
<1>4. CASE CreateThread
  <2>1. mpc' # "take" /\ UNCHANGED <<eventloop, eventloops>>
    BY <1>4 DEF CreateThread
  <2>2. wpc' = [wpc EXCEPT ![turn] = "new"] /\ wpc[turn] = "unborn"
    BY <1>1, <1>4 DEF CreateThread
  <2> QED
    BY <1>1, <2>1, <2>2 DEF Published, NullOnlyAfterExit
<1>5. CASE SpinEnds
  <2>1. eventloop[turn] /\ UNCHANGED <<wpc, eventloop, eventloops, turn>>
    BY <1>5 DEF SpinEnds
  <2>2. turn \in Workers
    BY <1>5, ReactorAssumption DEF SpinEnds, IInv, TypeOK, Ranges, Workers
  <2> QED
    BY <2>1, <2>2 DEF Published, NullOnlyAfterExit
<1>6. CASE TakeLoop
  <2>1. /\ mpc = "take" /\ mpc' # "take"
        /\ UNCHANGED <<wpc, eventloop>>
        /\ eventloops' = [eventloops EXCEPT ![turn] = IF eventloop[turn] THEN "loop" ELSE "null"]
    BY <1>6 DEF TakeLoop
  <2> QED
    BY <1>1, <2>1 DEF Published, NullOnlyAfterExit
<1>7. CASE Listen \/ MainHead \/ MainEvent \/ MainIdle \/ AcceptConn \/ AcceptEmpty \/ AcceptFails
  <2>1. UNCHANGED <<wpc, eventloop, eventloops>> /\ mpc' # "take"
    BY <1>7 DEF Listen, MainHead, MainEvent, MainIdle, AcceptConn, AcceptEmpty, AcceptFails
  <2> QED
    BY <1>2, <2>1
<1>8. CASE Push \/ Wake \/ QuitLoop \/ Join
  <2>1. UNCHANGED <<wpc, eventloop, eventloops>> /\ mpc' # "take"
    BY <1>8 DEF Push, PushLive, PushDead, PushNull, Wake, QuitLoop, Join, NextTurn
  <2> QED
    BY <1>2, <2>1
<1>9. ASSUME NEW w \in Workers, WorkerStep(w)
      PROVE  Published'
  <2>1. UNCHANGED <<mpc, turn, eventloops>>
    BY <1>9 DEF WorkerStep, Construct, LoopHead, WaitReturns, WaitTimesOut, Swap, RunCallback,
       CallbacksDone, Unpublish, Destroy
  <2>2. CASE Construct(w)
    <3>1. /\ wpc' = [wpc EXCEPT ![w] = "head"]
          /\ eventloop' = [eventloop EXCEPT ![w] = TRUE]
          /\ wpc[w] = "new"
      BY <2>2 DEF Construct, At
    <3> QED
      BY <1>1, <2>1, <3>1 DEF Published, NullOnlyAfterExit
  <2>3. CASE Unpublish(w)
    <3>1. /\ wpc' = [wpc EXCEPT ![w] = "destroy"]
          /\ eventloop' = [eventloop EXCEPT ![w] = FALSE]
      BY <2>3 DEF Unpublish, At
    <3> QED
      BY <1>1, <2>1, <3>1 DEF Published, NullOnlyAfterExit
  <2>4. CASE Destroy(w)
    <3>1. wpc' = [wpc EXCEPT ![w] = "gone"] /\ wpc[w] = "destroy" /\ UNCHANGED eventloop
      BY <2>4 DEF Destroy, At
    <3> QED
      BY <1>1, <2>1, <3>1 DEF Published, NullOnlyAfterExit
  <2>5. CASE \/ LoopHead(w) \/ WaitReturns(w) \/ WaitTimesOut(w) \/ Swap(w) \/ RunCallback(w)
             \/ CallbacksDone(w)
    <3>1. /\ UNCHANGED eventloop
          /\ wpc[w] \in {"head", "wait", "swap", "run"}
          /\ \/ wpc' = wpc
             \/ \E next \in {"head", "wait", "swap", "run", "leave"} :
                  wpc' = [wpc EXCEPT ![w] = next]
      BY <2>5 DEF LoopHead, WaitReturns, WaitTimesOut, Swap, RunCallback, CallbacksDone, At
    <3>2. /\ UNCHANGED <<eventloop, eventloops, mpc, turn>>
          /\ eventloop[w]
      BY <2>1, <3>1 DEF Published
    <3>3. \A v \in Workers : v # w => wpc'[v] = wpc[v]
      BY <1>1, <3>1
    <3>4. wpc'[w] \notin {"unborn", "new", "destroy", "gone"}
      BY <1>1, <3>1
    <3>5. eventloops[w] # "null"
      BY <3>1 DEF Published, NullOnlyAfterExit
    <3>6. mpc = "take" => wpc'[turn] \notin {"unborn", "new"}
      <4>0. mpc = "take" => turn \in Workers
        BY ReactorAssumption DEF IInv, TypeOK, Ranges, Workers
      <4>1. CASE turn = w
        BY <3>4, <4>1
      <4>2. CASE turn # w
        BY <3>3, <4>0, <4>2 DEF Published
      <4> QED
        BY <4>1, <4>2
    <3> QED
      BY <3>2, <3>3, <3>4, <3>5, <3>6 DEF Published, NullOnlyAfterExit
  <2> QED
    BY <1>9, <2>2, <2>3, <2>4, <2>5 DEF WorkerStep
<1> QED
  BY <1>3, <1>4, <1>5, <1>6, <1>7, <1>8, <1>9 DEF Next, MainStep

\* GetLoop never hands out a null pointer for a loop that is still to come.
THEOREM NullHolds == Spec => []NullOnlyAfterExit
<1>1. Init => Published
  BY DEF Init, Published, NullOnlyAfterExit
<1>2. Published => NullOnlyAfterExit
  BY DEF Published
<1> QED
  BY <1>1, <1>2, Invariance, PublishedStep, PTL DEF Spec

\* The listen queue is never left unwatched but after an error of accept().
THEOREM BacklogHolds == Spec => []BacklogWatched
<1>1. IInv => BacklogWatched
  BY DEF IInv, Listening, BacklogWatched
<1> QED
  BY <1>1, Invariance, PTL

-----------------------------------------------------------------------------
(* Refinement of Handoff.                                                  *)

\* The refinement mapping of the lines and of who serves.
Line == [w \in Workers |-> calls[w] \o queue[w]]
Serving == [w \in Workers |-> wpc[w] # "gone"]

\* A step that moves no connection and ends no worker is a stutter of Handoff.
LEMMA Quiet ==
  ASSUME UNCHANGED <<calls, queue, opened, accepted, next_loop, target>>,
         mpc = "push" <=> mpc' = "push",
         \A w \in Workers : wpc'[w] = "gone" <=> wpc[w] = "gone"
  PROVE  UNCHANGED Abstract!vars
BY DEF Abstract!vars

\* The initial states are initial states of Handoff.
LEMMA InitRefines == Init => Abstract!Init
<1> SUFFICES ASSUME Init PROVE Abstract!Init
  OBVIOUS
<1>1. <<>> \o <<>> = <<>>
  BY EmptySeq, ConcatEmptySeq
<1> QED
  BY <1>1 DEF Init, Abstract!Init, Abstract!Workers, Workers

\* Queueing a closure hands the connection over, to nobody if the loop has been
\* destroyed.
LEMMA PushRefines ==
  ASSUME IInv, Push
  PROVE  Abstract!Next \/ UNCHANGED Abstract!vars
<1> USE ReactorAssumption DEF IInv
<1>1. /\ mpc = "push" /\ target \in Workers /\ accepted \in Nat \ {0}
      /\ next_loop = IF target = ThreadNum - 1 THEN 0 ELSE target + 1
      /\ UNCHANGED <<next_loop, target, accepted, calls, opened, wpc>>
  BY RoundTheWorkers DEF Push, TypeOK, Turns, loopVars
<1> PICK w \in Workers : w = target
  BY <1>1
<1>2. CASE PushNull
  BY <1>1, <1>2, Quiet DEF PushNull
<1>3. CASE PushLive
  <2>1. /\ mpc' = "wake" /\ wpc[target] # "gone"
        /\ queue' = [queue EXCEPT ![target] = Append(@, accepted)]
    BY <1>3 DEF PushLive
  <2>2. calls[w] \in Seq(Nat) /\ queue[w] \in Seq(Nat) /\ accepted \in Nat
    BY DEF TypeOK
  <2>3. calls[w] \o Append(queue[w], accepted) = Append(calls[w] \o queue[w], accepted)
    BY ONLY <2>2, QueueAtEnd
  <2>4. Line' = [Line EXCEPT ![w] = Append(@, accepted)]
    <3>1. Line' = [v \in Workers |-> calls[v] \o queue'[v]]
      BY <1>1 DEF Line
    <3>2. /\ queue'[w] = Append(queue[w], accepted)
          /\ \A v \in Workers \ {w} : queue'[v] = queue[v]
      BY <2>1 DEF TypeOK
    <3>3. \A v \in Workers : Line[v] = calls[v] \o queue[v]
      BY DEF Line
    <3>4. Append(Line[w], accepted) = calls[w] \o queue'[w]
      BY <2>3, <3>2, <3>3
    <3>5. [Line EXCEPT ![w] = Append(@, accepted)] = [v \in Workers |-> calls[v] \o queue'[v]]
      BY <3>2, <3>3, <3>4 DEF Line
    <3> QED
      BY <3>1, <3>5
  <2>5. accepted - 1 + 1 = accepted
    BY <1>1
  <2>6. Abstract!Hand(w)
    BY <1>1, <2>1, <2>4, <2>5 DEF Abstract!Hand, Line
  <2> QED
    BY <2>6 DEF Abstract!Next, Abstract!Workers, Workers
<1>4. CASE PushDead
  <2>1. mpc' = "wake" /\ queue' = queue /\ wpc[target] = "gone"
    BY <1>4 DEF PushDead
  <2>2. accepted - 1 + 1 = accepted
    BY <1>1
  <2>3. Abstract!Hand(w)
    BY <1>1, <2>1, <2>2 DEF Abstract!Hand
  <2> QED
    BY <2>3 DEF Abstract!Next, Abstract!Workers, Workers
<1> QED
  BY <1>2, <1>3, <1>4 DEF Push

\* Running a closure opens the head of the worker's line.
LEMMA RunRefines ==
  ASSUME IInv, NEW w \in Workers, RunCallback(w)
  PROVE  Abstract!Next
<1> USE DEF IInv
<1>1. /\ calls[w] # <<>> /\ calls[w] \in Seq(Nat) /\ queue[w] \in Seq(Nat)
      /\ calls' = [calls EXCEPT ![w] = Tail(@)]
      /\ opened' = [opened EXCEPT ![w] = Append(@, Head(calls[w]))]
      /\ UNCHANGED <<queue, accepted, next_loop, target, mpc, wpc>>
  BY DEF RunCallback, TypeOK, mainVars, loopVars
<1>2. /\ Line[w] # <<>> /\ Head(Line[w]) = Head(calls[w])
      /\ Tail(Line[w]) = Tail(calls[w]) \o queue[w]
  BY <1>1, RunFromFront DEF Line
<1>3. Line' = [Line EXCEPT ![w] = Tail(@)]
  BY <1>1, <1>2 DEF Line, TypeOK
<1>4. Abstract!Open(w)
  BY <1>1, <1>2, <1>3 DEF Abstract!Open, Line
<1> QED
  BY <1>4 DEF Abstract!Next, Abstract!Workers, Workers

\* Swapping the list moves a line from one place to another.
LEMMA SwapRefines ==
  ASSUME IInv, NEW w \in Workers, Swap(w)
  PROVE  UNCHANGED Abstract!vars
<1> USE DEF IInv
<1>1. /\ wpc[w] = "swap" /\ calls[w] = <<>> /\ queue[w] \in Seq(Nat)
      /\ calls' = [calls EXCEPT ![w] = queue[w]] /\ queue' = [queue EXCEPT ![w] = <<>>]
      /\ UNCHANGED <<opened, accepted, next_loop, target, mpc>>
      /\ \A v \in Workers : wpc'[v] = "gone" <=> wpc[v] = "gone"
  BY DEF Swap, At, TypeOK, Lists, mainVars
<1>2. queue[w] \o <<>> = <<>> \o queue[w]
  BY <1>1, ConcatEmptySeq
<1>3. Line' = Line
  BY <1>1, <1>2 DEF Line, TypeOK
<1> QED
  BY <1>1, <1>3 DEF Abstract!vars, Line

\* Destroying a loop stops its worker and loses its line.
LEMMA DestroyRefines ==
  ASSUME IInv, NEW w \in Workers, Destroy(w)
  PROVE  Abstract!Next
<1> USE DEF IInv
<1>1. /\ wpc[w] = "destroy" /\ calls[w] = <<>>
      /\ wpc' = [wpc EXCEPT ![w] = "gone"] /\ queue' = [queue EXCEPT ![w] = <<>>]
      /\ UNCHANGED <<calls, opened, accepted, next_loop, target, mpc>>
  BY DEF Destroy, At, Lists, mainVars
<1>2. <<>> \o <<>> = <<>>
  BY EmptySeq, ConcatEmptySeq
<1>3. Line' = [Line EXCEPT ![w] = <<>>] /\ Serving' = [Serving EXCEPT ![w] = FALSE] /\ Serving[w]
  BY <1>1, <1>2 DEF Line, Serving, TypeOK
<1>4. Abstract!Stop(w)
  BY <1>1, <1>3 DEF Abstract!Stop, Line, Serving
<1> QED
  BY <1>4 DEF Abstract!Next, Abstract!Workers, Workers

\* Every step of the threads is a step of Handoff or a stutter.
LEMMA StepRefines == IInv /\ [Next]_vars => [Abstract!Next]_(Abstract!vars)
<1> SUFFICES ASSUME IInv, [Next]_vars
             PROVE  Abstract!Next \/ UNCHANGED Abstract!vars
  OBVIOUS
<1>1. CASE Terminated \/ Arrive \/ UNCHANGED vars
  BY <1>1, Quiet DEF Terminated, Arrive, vars, mainVars, loopVars, handVars
<1>2. CASE MainStep
  <2>1. CASE CreateThread
    <3>1. /\ wpc' = [wpc EXCEPT ![turn] = "new"] /\ wpc[turn] = "unborn"
          /\ wpc \in [Workers -> WorkerPC]
      BY <1>2, <2>1 DEF CreateThread, IInv, TypeOK, Ranges
    <3>2. \A w \in Workers : wpc'[w] = "gone" <=> wpc[w] = "gone"
      BY <3>1
    <3> QED
      BY <2>1, <3>2, Quiet DEF CreateThread, handVars
  <2>2. CASE Spin \/ SpinEnds \/ TakeLoop \/ Listen \/ MainHead \/ MainEvent \/ MainIdle
    BY <2>2, Quiet DEF Spin, SpinEnds, TakeLoop, Listen, MainHead, MainEvent, MainIdle, vars,
       mainVars, loopVars, handVars
  <2>3. CASE AcceptEmpty \/ AcceptFails \/ Wake
    BY <2>3, Quiet DEF AcceptEmpty, AcceptFails, Wake, loopVars, handVars
  <2>4. CASE QuitLoop \/ Join
    BY <2>4, Quiet DEF QuitLoop, Join, NextTurn, loopVars, handVars
  <2>5. CASE AcceptConn
    <3>1. accepted \in Nat
      BY DEF IInv, TypeOK
    <3> QED
      BY <2>5, <3>1 DEF AcceptConn, GetNextLoop, Abstract!vars, loopVars, handVars
  <2>6. CASE Push
    BY <2>6, PushRefines
  <2> QED
    BY <1>2, <2>1, <2>2, <2>3, <2>4, <2>5, <2>6 DEF MainStep
<1>3. ASSUME NEW w \in Workers, WorkerStep(w)
      PROVE  Abstract!Next \/ UNCHANGED Abstract!vars
  <2>1. CASE Construct(w) \/ LoopHead(w) \/ Unpublish(w) \/ WaitReturns(w) \/ WaitTimesOut(w)
             \/ CallbacksDone(w)
    <3>1. \A v \in Workers : wpc'[v] = "gone" <=> wpc[v] = "gone"
      BY <2>1 DEF Construct, LoopHead, Unpublish, WaitReturns, WaitTimesOut, CallbacksDone, At,
         IInv, TypeOK
    <3> QED
      BY <2>1, <3>1, Quiet DEF Construct, LoopHead, Unpublish, WaitReturns, WaitTimesOut,
         CallbacksDone, mainVars, handVars
  <2> QED
    BY <1>3, <2>1, RunRefines, SwapRefines, DestroyRefines DEF WorkerStep
<1> QED
  BY <1>1, <1>2, <1>3 DEF Next

\* Accepted connections reach the workers round robin, each worker opens its own
\* in the order of accept() and each once, however the threads interleave.
THEOREM HandoffHolds == Spec => ImplementsHandoff
<1>1. Init => Abstract!Init
  BY InitRefines
<1>2. IInv /\ [Next]_vars => [Abstract!Next]_(Abstract!vars)
  BY StepRefines
<1> QED
  BY <1>1, <1>2, Invariance, PTL DEF Spec, Abstract!Spec, ImplementsHandoff

=============================================================================
