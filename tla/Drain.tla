-------------------------------- MODULE Drain --------------------------------
(***************************************************************************)
(* Worker with Utils::ReadFromFd call by call: a worker reads a socket in  *)
(* buffers of MAX_BUF_SIZE until read() has nothing more to give, and the  *)
(* peers go on sending, ending and resetting between two of its reads.     *)
(* Worker takes the whole input in one step; ImplementsWorker says that    *)
(* nothing is lost by that.                                                *)
(***************************************************************************)
EXTENDS Worker

CONSTANT MAX_BUF_SIZE   \* pieces that one read() takes

ASSUME BufferAssumption == MAX_BUF_SIZE \in Nat \ {0}

VARIABLE read_size      \* pieces that this call of ReadFromFd has read

drainVars == <<vars, read_size>>

DrainInit == Init /\ read_size = 0

\* read() gives what there is, up to the buffer; read() that a signal
\* interrupts is made again, without a change.
ReadSome(c) ==
  /\ pc = "read" /\ cur = c
  /\ inq[c] > 0
  /\ LET per_read_size == IF inq[c] < MAX_BUF_SIZE THEN inq[c] ELSE MAX_BUF_SIZE
     IN  /\ inq' = [inq EXCEPT ![c] = @ - per_read_size]
         /\ read_size' = read_size + per_read_size
  /\ UNCHANGED <<loopVars, httpVars, mask, ready, room, peer, sends, proc, stale>>

\* ReadFromFd returns to Http::HandleRead, which makes its turn with it.
Returns(c) ==
  /\ pc = "read" /\ cur = c
  /\ \E g \in Received(http[c], read_size, peer[c] = "fin", peer[c] = "rst") :
       ReadFailed(c, g) \/ RequestDone(c, g) \/ NeedMore(c, g)
  /\ read_size' = 0
  /\ UNCHANGED <<queue, calls, active, revents, cur, fd, inq, peer, sends, stale>>

\* The last read() answers EAGAIN, the end of the stream or the error: only
\* when the socket is empty.
\* (Mutant: EINTR breaks the loop, as the commented-out line has it.)
ReadLast_Interrupted(c) == Returns(c)

\* (Mutant: EAGAIN is taken for EINTR as long as nothing has been read.)
ReadLast_NeedsInput(c) == inq[c] = 0 /\ read_size > 0 /\ Returns(c)

ReadLast(c) == inq[c] = 0 /\ Returns(c)

\* The other steps are Worker's: those of the loop,
OtherHandlers ==
  \/ EpollWait
  \/ \E c \in Conns : \/ DispatchHangup(c) \/ DispatchWrite(c) \/ DispatchRead(c)
                      \/ HandleCurrentConn(c) \/ HttpInit(c)
  \/ TakeCallbacks \/ CallbacksDone \/ ExpireDone

\* and all of them.
Other ==
  /\ OtherHandlers \/ (\E c \in Conns : Expire(c)) \/ Environment
  /\ UNCHANGED read_size

DrainNext ==
  /\ proc = "run"
  /\ \/ \E c \in Conns : ReadSome(c) \/ ReadLast(c)
     \/ Other

DrainSpec == DrainInit /\ [][DrainNext]_drainVars

\* The fairness of Worker: the thread is scheduled, and expires in the end.
DrainLoopStep ==
  /\ proc = "run"
  /\ \/ \E c \in Conns : ReadSome(c) \/ ReadLast(c)
     \/ OtherHandlers /\ UNCHANGED read_size

FairDrainSpec ==
  /\ DrainSpec
  /\ WF_drainVars(DrainLoopStep)
  /\ \A c \in Conns : SF_drainVars(proc = "run" /\ Expire(c) /\ UNCHANGED read_size)

-----------------------------------------------------------------------------
\* What HandleRead has not been given yet is still to be read in Worker.
Unhandled ==
  [c \in Conns |-> IF c = cur /\ pc = "read" THEN inq[c] + read_size ELSE inq[c]]

Whole == INSTANCE Worker WITH inq <- Unhandled

\* Utils.cpp:100-130: whatever the peer does between two reads, and wherever the
\* buffer cuts the input, the call acts as one step of Worker does: all the input
\* up to then, with the end or the error behind it if it has come, and no edge
\* used up that announces something unread.
ImplementsWorker == Whole!Spec

\* Utils.cpp:107: the loop around read() is left once the socket is empty, so that
\* a call of ReadFromFd that has begun is one that HandleRead makes in the end.
ImplementsFairWorker == Whole!FairSpec
=============================================================================
