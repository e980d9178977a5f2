----------------------------- MODULE DrainProofs -----------------------------
(***************************************************************************)
(* Proof that a worker that reads call by call implements Worker: each     *)
(* read but the last is a stutter there, and the last one is HandleRead.   *)
(***************************************************************************)
EXTENDS Drain, TLAPS

\* Only ReadFromFd has pieces under way.
DInv ==
  /\ inq \in [Conns -> Nat]
  /\ read_size \in Nat
  /\ pc # "read" => read_size = 0
  /\ cur \in Conns \cup {None}

-----------------------------------------------------------------------------
(* The operators of Worker that do not look at inq are those of Whole.      *)

LEMMA SameHandlers ==
  /\ \A h, r : Whole!HandleWrite(h, r) = HandleWrite(h, r)
  /\ \A h, r : Whole!Written(h, r) = Written(h, r)
  /\ \A h : Whole!ResetRequest(h) = ResetRequest(h)
  /\ \A h, e : Whole!AskForMore(h, e) = AskForMore(h, e)
  /\ \A h : Whole!ClosedHttp(h) = ClosedHttp(h)
  /\ \A k : Whole!NewHttp(k) = NewHttp(k)
BY DEF HandleWrite, Written, ResetRequest, AskForMore, ClosedHttp, NewHttp,
       Whole!HandleWrite, Whole!Written, Whole!ResetRequest, Whole!AskForMore, Whole!ClosedHttp,
       Whole!NewHttp

LEMMA SameReceived ==
  ASSUME NEW h, NEW n, NEW fin, NEW rst
  PROVE  Whole!Received(h, n, fin, rst) = Received(h, n, fin, rst)
<1>1. \A g : Whole!Refused(g) = Refused(g)
  BY DEF Refused, Whole!Refused
<1>2. \A g : Whole!ParseURI(g) = ParseURI(g)
  BY <1>1 DEF ParseURI, Whole!ParseURI
<1>3. \A g : Whole!ParseHeaders(g) = ParseHeaders(g)
  BY DEF ParseHeaders, Whole!ParseHeaders, HeadersDone, Whole!HeadersDone, Refused, Whole!Refused
<1>4. \A g : Whole!ProcessRequest(g) = ProcessRequest(g)
  BY DEF ProcessRequest, Whole!ProcessRequest, Answered, Whole!Answered, Refused, Whole!Refused
<1>5. \A g : /\ Whole!AtURI(g) = AtURI(g)
             /\ Whole!AtHeaders(g) = AtHeaders(g)
             /\ Whole!AtProcess(g) = AtProcess(g)
  BY <1>2, <1>3, <1>4 DEF AtURI, AtHeaders, AtProcess, Whole!AtURI, Whole!AtHeaders, Whole!AtProcess
<1>6. \A g : Whole!Parsed(g) = Parsed(g)
  BY <1>5 DEF Parsed, Whole!Parsed
<1> QED
  BY <1>1, <1>6 DEF Received, Whole!Received

\* An epoll_ctl while no call of ReadFromFd is under way.
LEMMA SameRegister ==
  ASSUME Unhandled = inq, NEW c \in Conns, NEW events, Register(c, events)
  PROVE  Whole!Register(c, events)
BY DEF Register, Whole!Register, Poll, Whole!Poll

LEMMA SameEpollDel ==
  ASSUME NEW c, NEW broken, EpollDel(c, broken)
  PROVE  Whole!EpollDel(c, broken)
BY DEF EpollDel, Whole!EpollDel

LEMMA SameSeparateTimer ==
  ASSUME NEW c, SeparateTimer(c)
  PROVE  Whole!SeparateTimer(c)
BY DEF SeparateTimer, Whole!SeparateTimer

-----------------------------------------------------------------------------
(* Steps that begin and end with no call of ReadFromFd under way.           *)

LEMMA SameDispatch ==
  ASSUME Unhandled = inq, Unhandled' = inq',
         \/ EpollWait
         \/ \E c \in Conns : DispatchHangup(c) \/ DispatchWrite(c) \/ DispatchRead(c)
  PROVE  Whole!LoopStep
<1>1. CASE EpollWait
  <2>1. \A c \in Conns : Whole!Reported(c) = Reported(c)
    BY DEF Reported, Whole!Reported, Poll, Whole!Poll
  <2>2. Whole!EpollWait
    BY <1>1, <2>1 DEF EpollWait, Whole!EpollWait
  <2> QED
    BY <2>2 DEF Whole!LoopStep
<1>2. ASSUME NEW c \in Conns, DispatchHangup(c)
      PROVE  Whole!LoopStep
  <2>1. Whole!DispatchHangup(c)
    BY <1>2 DEF DispatchHangup, Whole!DispatchHangup, httpVars, kernelVars, Whole!httpVars,
                Whole!kernelVars
  <2> QED
    BY <2>1 DEF Whole!LoopStep
<1>3. ASSUME NEW c \in Conns, DispatchWrite(c)
      PROVE  Whole!LoopStep
  <2>1. Whole!DispatchWrite(c)
    BY <1>3, SameHandlers DEF DispatchWrite, Whole!DispatchWrite, Broken, Whole!Broken
  <2> QED
    BY <2>1 DEF Whole!LoopStep
<1>4. ASSUME NEW c \in Conns, DispatchRead(c)
      PROVE  Whole!LoopStep
  <2>1. Whole!DispatchRead(c)
    BY <1>4 DEF DispatchRead, Whole!DispatchRead, httpVars, kernelVars, Whole!httpVars,
                Whole!kernelVars
  <2> QED
    BY <2>1 DEF Whole!LoopStep
<1> QED
  BY <1>1, <1>2, <1>3, <1>4

LEMMA SameHandleCurrentConn ==
  ASSUME Unhandled = inq, Unhandled' = inq', NEW c \in Conns, HandleCurrentConn(c)
  PROVE  Whole!LoopStep
<1>1. ASSUME ConnStep(c) PROVE Whole!ConnStep(c)
  BY <1>1 DEF ConnStep, Whole!ConnStep
<1>2. ASSUME NEW events, UpdateEpoller(c, events) PROVE Whole!UpdateEpoller(c, events)
  BY <1>2, SameRegister DEF UpdateEpoller, Whole!UpdateEpoller
<1>3. CASE ConnWantsOutput(c)
  <2>1. Whole!ConnWantsOutput(c)
    BY <1>1, <1>2, <1>3 DEF ConnWantsOutput, Whole!ConnWantsOutput
  <2> QED
    BY <2>1 DEF Whole!HandleCurrentConn, Whole!LoopStep
<1>4. CASE ConnIdles(c)
  <2>1. Whole!ConnIdles(c)
    BY <1>1, <1>2, <1>4 DEF ConnIdles, Whole!ConnIdles
  <2> QED
    BY <2>1 DEF Whole!HandleCurrentConn, Whole!LoopStep
<1>5. CASE ConnCloses(c)
  <2>1. Whole!ConnCloses(c)
    BY <1>1, <1>5, SameHandlers, SameSeparateTimer, SameEpollDel DEF ConnCloses, Whole!ConnCloses
  <2> QED
    BY <2>1 DEF Whole!HandleCurrentConn, Whole!LoopStep
<1>6. CASE ConnDrains(c)
  <2>1. Whole!ConnDrains(c)
    BY <1>1, <1>6, SameSeparateTimer DEF ConnDrains, Whole!ConnDrains
  <2> QED
    BY <2>1 DEF Whole!HandleCurrentConn, Whole!LoopStep
<1>7. CASE ConnAfterClose(c)
  <2>1. Whole!InTable(c) <=> InTable(c)
    BY DEF InTable, Created, Whole!InTable, Whole!Created
  <2>2. Whole!ConnAfterClose(c)
    BY <1>1, <1>7, <2>1, SameSeparateTimer DEF ConnAfterClose, Whole!ConnAfterClose
  <2> QED
    BY <2>2 DEF Whole!HandleCurrentConn, Whole!LoopStep
<1> QED
  BY <1>3, <1>4, <1>5, <1>6, <1>7 DEF HandleCurrentConn

LEMMA SameCallbacks ==
  ASSUME Unhandled = inq, Unhandled' = inq',
         TakeCallbacks \/ CallbacksDone \/ ExpireDone \/ \E c \in Conns : HttpInit(c)
  PROVE  Whole!LoopStep
<1> USE DEF httpVars, kernelVars, Whole!httpVars, Whole!kernelVars
<1>1. CASE TakeCallbacks
  BY <1>1 DEF TakeCallbacks, Whole!TakeCallbacks, Whole!LoopStep
<1>2. CASE CallbacksDone
  BY <1>2 DEF CallbacksDone, Whole!CallbacksDone, Whole!LoopStep
<1>3. CASE ExpireDone
  BY <1>3 DEF ExpireDone, Whole!ExpireDone, Whole!LoopStep
<1>4. ASSUME NEW c \in Conns, HttpInit(c)
      PROVE  Whole!LoopStep
  <2>1. Whole!HttpInit(c)
    BY <1>4, SameRegister DEF HttpInit, Whole!HttpInit
  <2> QED
    BY <2>1 DEF Whole!LoopStep
<1> QED
  BY <1>1, <1>2, <1>3, <1>4

LEMMA SameExpire ==
  ASSUME Unhandled = inq, Unhandled' = inq', NEW c \in Conns, Expire(c)
  PROVE  Whole!Expire(c)
<1>1. Whole!NodeDies(c)
  BY SameHandlers, SameEpollDel DEF Expire, NodeDies, Whole!NodeDies, loopVars, Whole!loopVars
<1> QED
  BY <1>1 DEF Expire, Whole!Expire

-----------------------------------------------------------------------------
(* The main thread and the peers act at any time, in a call too.            *)

LEMMA SameAccept ==
  ASSUME NEW c \in Conns, NEW f \in Fds, Accept(c, f), UNCHANGED read_size, UNCHANGED Unhandled
  PROVE  Whole!Accept(c, f)
<1>1. \A d \in Conns : Whole!Referenced(d) <=> Referenced(d)
  BY DEF Referenced, InTable, Created, Whole!Referenced, Whole!InTable, Whole!Created
<1> QED
  BY <1>1 DEF Accept, Whole!Accept, Created, Whole!Created, kernelVars, Whole!kernelVars

LEMMA SamePeers ==
  ASSUME DInv, NEW c \in Conns, UNCHANGED read_size,
         PeerSends(c) \/ PeerReads(c) \/ PeerShutsDown(c) \/ PeerResets(c)
  PROVE  Whole!PeerSends(c) \/ Whole!PeerReads(c) \/ Whole!PeerShutsDown(c) \/ Whole!PeerResets(c)
<1> USE DEF loopVars, httpVars, Whole!loopVars, Whole!httpVars, Created, Whole!Created,
            Edge, Whole!Edge
<1>1. CASE PeerSends(c)
  <2>1. Unhandled' = [Unhandled EXCEPT ![c] = @ + 1]
    <3>1. inq' = [inq EXCEPT ![c] = @ + 1] /\ pc' = pc /\ cur' = cur /\ read_size' = read_size
      BY <1>1 DEF PeerSends
    <3>2. /\ inq'[c] = inq[c] + 1 /\ inq[c] \in Nat /\ read_size \in Nat
          /\ \A d \in Conns \ {c} : inq'[d] = inq[d]
      BY <3>1 DEF DInv
    <3>3. Unhandled'[c] = Unhandled[c] + 1 /\ \A d \in Conns \ {c} : Unhandled'[d] = Unhandled[d]
      BY <3>1, <3>2 DEF Unhandled
    <3> QED
      BY <3>3 DEF Unhandled
  <2> QED
    BY <1>1, <2>1 DEF PeerSends, Whole!PeerSends
<1>2. CASE PeerReads(c)
  <2>1. Unhandled' = Unhandled
    BY <1>2 DEF PeerReads, Unhandled
  <2> QED
    BY <1>2, <2>1 DEF PeerReads, Whole!PeerReads
<1>3. CASE PeerShutsDown(c)
  <2>1. Unhandled' = Unhandled
    BY <1>3 DEF PeerShutsDown, Unhandled
  <2> QED
    BY <1>3, <2>1 DEF PeerShutsDown, Whole!PeerShutsDown
<1>4. CASE PeerResets(c)
  <2>1. Unhandled' = Unhandled
    BY <1>4 DEF PeerResets, Unhandled
  <2> QED
    BY <1>4, <2>1 DEF PeerResets, Whole!PeerResets
<1> QED
  BY <1>1, <1>2, <1>3, <1>4

-----------------------------------------------------------------------------
(* The reads.                                                               *)

\* What read() has taken still counts as unread.
LEMMA ReadSomeStutters ==
  ASSUME DInv, NEW c \in Conns, ReadSome(c)
  PROVE  UNCHANGED Whole!vars
<1>1. Unhandled' = Unhandled
  <2> DEFINE n == IF inq[c] < MAX_BUF_SIZE THEN inq[c] ELSE MAX_BUF_SIZE
  <2>1. /\ pc = "read" /\ cur = c /\ pc' = pc /\ cur' = cur
        /\ inq' = [inq EXCEPT ![c] = @ - n] /\ read_size' = read_size + n
    BY DEF ReadSome, loopVars
  <2>2. n \in Nat /\ inq[c] \in Nat /\ read_size \in Nat
    BY BufferAssumption DEF DInv
  <2> HIDE DEF n
  <2>3. \A d \in Conns : Unhandled'[d] = Unhandled[d]
    BY <2>1, <2>2 DEF Unhandled, DInv
  <2> QED
    BY <2>3 DEF Unhandled
<1> QED
  BY <1>1 DEF ReadSome, loopVars, httpVars, Whole!vars, Whole!loopVars, Whole!httpVars,
              Whole!kernelVars

\* With the last one HandleRead has the whole input.
LEMMA ReadLastReads ==
  ASSUME DInv, NEW c \in Conns, ReadLast(c)
  PROVE  Whole!HandleRead(c)
<1>1. /\ pc = "read" /\ cur = c /\ cur' = c /\ inq[c] = 0 /\ inq' = inq /\ read_size' = 0
      /\ UNCHANGED <<queue, calls, active, revents, fd, peer, sends, stale>>
  BY DEF ReadLast, Returns
<1>2. Unhandled[c] = read_size /\ Unhandled' = [Unhandled EXCEPT ![c] = 0]
  <2>1. Unhandled[c] = read_size /\ Unhandled'[c] = 0
    BY <1>1 DEF Unhandled, DInv
  <2>2. \A d \in Conns \ {c} : Unhandled'[d] = Unhandled[d]
    BY <1>1 DEF Unhandled
  <2> QED
    BY <2>1, <2>2 DEF Unhandled
<1>3. PICK g \in Received(http[c], read_size, peer[c] = "fin", peer[c] = "rst") :
        ReadFailed(c, g) \/ RequestDone(c, g) \/ NeedMore(c, g)
  BY DEF ReadLast, Returns
<1>4. g \in Whole!Received(http[c], Unhandled[c], peer[c] = "fin", peer[c] = "rst")
  BY <1>2, <1>3, SameReceived
<1>5. Whole!ReadFailed(c, g) \/ Whole!RequestDone(c, g) \/ Whole!NeedMore(c, g)
  <2>1. CASE ReadFailed(c, g)
    BY <2>1, SameHandlers, SameEpollDel DEF ReadFailed, Whole!ReadFailed, Broken, Whole!Broken
  <2>2. CASE RequestDone(c, g)
    BY <2>2, SameHandlers, SameSeparateTimer DEF RequestDone, Whole!RequestDone, Broken, Whole!Broken
  <2>3. CASE NeedMore(c, g)
    BY <2>3, SameHandlers DEF NeedMore, Whole!NeedMore, Broken, Whole!Broken
  <2> QED
    BY <1>3, <2>1, <2>2, <2>3
<1> QED
  BY <1>1, <1>2, <1>4, <1>5 DEF Whole!HandleRead

-----------------------------------------------------------------------------

LEMMA InitDInv == DrainInit => DInv
BY DEF DrainInit, Init, DInv

LEMMA NextDInv == DInv /\ [DrainNext]_drainVars => DInv'
<1> SUFFICES ASSUME DInv, [DrainNext]_drainVars PROVE DInv'
  OBVIOUS
<1> USE DEF DInv, loopVars, httpVars, kernelVars
<1>1. CASE UNCHANGED drainVars
  BY <1>1 DEF drainVars, vars
<1>2. ASSUME NEW c \in Conns, ReadSome(c)
      PROVE  DInv'
  BY <1>2, BufferAssumption DEF ReadSome
<1>3. ASSUME NEW c \in Conns, ReadLast(c)
      PROVE  DInv'
  BY <1>3 DEF ReadLast, Returns
<1>4. CASE Other
  <2>1. ASSUME \/ EpollWait \/ TakeCallbacks \/ CallbacksDone \/ ExpireDone
               \/ \E c \in Conns : \/ DispatchHangup(c) \/ DispatchWrite(c) \/ DispatchRead(c)
                                   \/ HttpInit(c) \/ Expire(c)
        PROVE  pc # "read" /\ inq' = inq /\ cur' \in Conns \cup {None}
    BY <2>1 DEF EpollWait, TakeCallbacks, CallbacksDone, ExpireDone, DispatchHangup, DispatchWrite,
                DispatchRead, HttpInit, Expire, NodeDies
  <2>2. ASSUME NEW c \in Conns, HandleCurrentConn(c)
        PROVE  pc # "read" /\ inq' = inq /\ cur' = None
    BY <2>2 DEF HandleCurrentConn, ConnWantsOutput, ConnIdles, ConnCloses, ConnDrains,
                ConnAfterClose, ConnStep
  <2>3. CASE Environment
    <3>1. inq' \in [Conns -> Nat] /\ pc' = pc /\ cur' = cur
      BY <2>3 DEF Environment, Accept, PeerSends, PeerReads, PeerShutsDown, PeerResets
    <3> QED
      BY <1>4, <3>1 DEF Other
  <2> QED
    BY <1>4, <2>1, <2>2, <2>3 DEF Other, OtherHandlers
<1> QED
  BY <1>1, <1>2, <1>3, <1>4 DEF DrainNext

\* Outside a call there is nothing under way.
LEMMA Settled ==
  ASSUME DInv, pc # "read"
  PROVE  Unhandled = inq
BY DEF DInv, Unhandled

LEMMA OtherSteps ==
  ASSUME DInv, DInv', proc = "run", Other
  PROVE  Whole!Next
<1>1. CASE Environment
  <2>1. ASSUME NEW c \in Conns, NEW f \in Fds, Accept(c, f)
        PROVE  Whole!Next
    <3>1. UNCHANGED read_size /\ UNCHANGED Unhandled
      BY <2>1 DEF Other, Accept, Unhandled, kernelVars
    <3> QED
      BY <2>1, <3>1, SameAccept DEF Whole!Next, Whole!Environment
  <2>2. ASSUME NEW c \in Conns, PeerSends(c) \/ PeerReads(c) \/ PeerShutsDown(c) \/ PeerResets(c)
        PROVE  Whole!Next
    BY <2>2, SamePeers DEF Other, Whole!Next, Whole!Environment
  <2> QED
    BY <1>1, <2>1, <2>2 DEF Environment
<1>2. CASE ~Environment
  <2>1. pc # "read"
    BY <1>2 DEF Other, OtherHandlers, EpollWait, TakeCallbacks, CallbacksDone, ExpireDone, DispatchHangup,
         DispatchWrite, DispatchRead, HttpInit, Expire, HandleCurrentConn, ConnWantsOutput, ConnIdles,
         ConnCloses, ConnDrains, ConnAfterClose, ConnStep
  <2>2. Unhandled = inq
    BY <2>1, Settled
  <2>3. Unhandled' = inq'
    BY <2>1 DEF Other, DInv, Unhandled
  <2> QED
    BY <1>2, <2>2, <2>3, SameDispatch, SameHandleCurrentConn, SameCallbacks, SameExpire
    DEF Other, OtherHandlers, Whole!Next
<1> QED
  BY <1>1, <1>2

\* A worker that reads call by call, in buffers of any size, behaves as Worker:
\* what the peers do between two reads could as well have come before HandleRead.
THEOREM DrainHolds == DrainSpec => ImplementsWorker
<1>1. DrainInit => DInv
  BY InitDInv
<1>2. DInv /\ [DrainNext]_drainVars => DInv'
  BY NextDInv
<1>3. DrainInit => Whole!Init
  <2> SUFFICES ASSUME DrainInit PROVE Whole!Init
    OBVIOUS
  <2>1. Unhandled = [c \in Conns |-> 0]
    BY DEF DrainInit, Init, Unhandled
  <2> QED
    BY <2>1, SameHandlers DEF DrainInit, Init, Whole!Init
<1>4. DInv /\ DInv' /\ [DrainNext]_drainVars => [Whole!Next]_Whole!vars
  <2> SUFFICES ASSUME DInv, DInv', [DrainNext]_drainVars
               PROVE  Whole!Next \/ UNCHANGED Whole!vars
    OBVIOUS
  <2>1. CASE UNCHANGED drainVars
    BY <2>1 DEF drainVars, vars, loopVars, httpVars, kernelVars, Unhandled, Whole!vars,
                Whole!loopVars, Whole!httpVars, Whole!kernelVars
  <2>2. ASSUME NEW c \in Conns, ReadSome(c)
        PROVE  UNCHANGED Whole!vars
    BY <2>2, ReadSomeStutters
  <2>3. ASSUME NEW c \in Conns, ReadLast(c), proc = "run"
        PROVE  Whole!Next
    BY <2>3, ReadLastReads DEF Whole!Next, Whole!LoopStep
  <2> QED
    BY <2>1, <2>2, <2>3, OtherSteps DEF DrainNext
<1> QED
  BY <1>1, <1>2, <1>3, <1>4, PTL DEF DrainSpec, ImplementsWorker, Whole!Spec
=============================================================================
