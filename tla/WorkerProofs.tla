---------------------------- MODULE WorkerProofs ----------------------------
(***************************************************************************)
(* Proofs about Worker, for any number of connections and descriptors and  *)
(* any sizes: IInv is inductive, the safety properties follow, and Worker  *)
(* implements ConnLifecycle.                                               *)
(***************************************************************************)
EXTENDS Worker, TLAPS

-----------------------------------------------------------------------------
(* What the handlers do to an Http object.                                 *)

\* Utils::WriteToFd writes at most what there is and at most what fits.
LEMMA WrittenBounds ==
  ASSUME NEW h \in HttpObject, NEW n \in Nat
  PROVE  /\ Written(h, n) \in Nat
         /\ Written(h, n) <= h.writeBuffer
         /\ Written(h, n) <= n
BY DEF Written, HttpObject

\* Http::HandleWrite touches neither has_error_ nor connectionState_.
LEMMA HandleWriteKeeps ==
  ASSUME NEW h \in HttpObject, NEW n \in Nat
  PROVE  /\ HandleWrite(h, n) \in HttpObject
         /\ HandleWrite(h, n).hasError = h.hasError
         /\ HandleWrite(h, n).connectionState = h.connectionState
<1>1. /\ h.writeBuffer - Written(h, n) \in Nat
      /\ h.toListen \cup {"OUT"} \in SUBSET Interest
  BY WrittenBounds DEF HttpObject, Interest
<1> QED
  BY <1>1 DEF HandleWrite, HttpObject

\* Channel::SetToListenEvents and HandleClose change one field each.
LEMMA SetToListenKeeps ==
  ASSUME NEW h \in HttpObject, NEW events \in SUBSET Interest
  PROVE  /\ [h EXCEPT !.toListen = events] \in HttpObject
         /\ [h EXCEPT !.toListen = events].hasError = h.hasError
         /\ [h EXCEPT !.toListen = events].connectionState = h.connectionState
BY DEF HttpObject

\* Http::HandleClose sets connectionState_ to DISCONNECTED and nothing else.
LEMMA CloseKeeps ==
  ASSUME NEW h \in HttpObject
  PROVE  /\ ClosedHttp(h) \in HttpObject
         /\ ClosedHttp(h).hasError = h.hasError
         /\ ClosedHttp(h).connectionState = "DISCONNECTED"
BY DEF ClosedHttp, HttpObject, ConnectionState

\* reset() and the request for more input leave has_error_ and
\* connectionState_ alone.
LEMMA FinishKeeps ==
  ASSUME NEW h \in HttpObject, NEW events \in SUBSET Interest
  PROVE  /\ ResetRequest(h) \in HttpObject /\ AskForMore(h, events) \in HttpObject
         /\ ResetRequest(h).hasError = h.hasError
         /\ ResetRequest(h).connectionState = h.connectionState
         /\ AskForMore(h, events).hasError = h.hasError
         /\ AskForMore(h, events).connectionState = h.connectionState
<1>1. events \cup {"IN"} \in SUBSET Interest
  BY DEF Interest
<1>2. ResetRequest(h) \in HttpObject
  BY DEF ResetRequest, HttpObject, ProcessState
<1>3. AskForMore(h, events) \in HttpObject
  BY <1>1, SetToListenKeeps DEF AskForMore
<1> QED
  BY <1>1, <1>2, <1>3 DEF ResetRequest, AskForMore, HttpObject

\* Parsing and answering: an Http object stays one, and its connectionState_ is
\* left alone.
LEMMA ParsedKeeps ==
  ASSUME NEW h \in HttpObject, NEW g \in Parsed(h)
  PROVE  g \in HttpObject /\ g.connectionState = h.connectionState
<1>1. ASSUME NEW x \in HttpObject, NEW y \in AtURI(x)
      PROVE  y \in HttpObject /\ y.connectionState = x.connectionState
  BY <1>1 DEF AtURI, ParseURI, Refused, HttpObject, ProcessState
<1>2. ASSUME NEW x \in HttpObject, NEW y \in AtHeaders(x)
      PROVE  y \in HttpObject /\ y.connectionState = x.connectionState
  <2>1. CASE y \in {x, Refused(x)}
    BY <2>1 DEF Refused, HttpObject
  <2>2. ASSUME NEW next \in {"PROCESS", "BODY"}, NEW left \in 0 .. x.readBuffer - 1,
               y = HeadersDone(x, next, left)
        PROVE  y \in HttpObject /\ y.connectionState = x.connectionState
    <3>1. left \in Nat /\ next \in ProcessState
      BY DEF ProcessState
    <3> QED
      BY <2>2, <3>1 DEF HeadersDone, HttpObject
  <2> QED
    BY <1>2, <2>1, <2>2 DEF AtHeaders, ParseHeaders
<1>3. ASSUME NEW x \in HttpObject, NEW y \in AtProcess(x)
      PROVE  y \in HttpObject /\ y.connectionState = x.connectionState
  <2>1. CASE y \in {x, Refused(x)}
    BY <2>1 DEF Refused, HttpObject
  <2>2. ASSUME NEW size \in 1 .. MaxResponse, NEW ka \in BOOLEAN, y = Answered(x, size, ka)
        PROVE  y \in HttpObject /\ y.connectionState = x.connectionState
    <3>1. x.writeBuffer + size \in Nat /\ "FINISH" \in ProcessState
      BY MaxResponseAssumption DEF HttpObject, ProcessState
    <3> QED
      BY <2>2, <3>1 DEF Answered, HttpObject
  <2> QED
    BY <1>3, <2>1, <2>2 DEF AtProcess, ProcessRequest
<1>4. PICK f \in AtURI(h) : g \in UNION {AtProcess(k) : k \in AtHeaders(f)}
  BY DEF Parsed
<1>5. PICK k \in AtHeaders(f) : g \in AtProcess(k)
  BY <1>4
<1> QED
  BY <1>1, <1>2, <1>3, <1>4, <1>5

\* ... and so does reading, but for the end of the peer's stream.
LEMMA ReceivedKeeps ==
  ASSUME NEW h \in HttpObject, NEW n \in Nat, NEW fin \in BOOLEAN, NEW rst \in BOOLEAN,
         NEW g \in Received(h, n, fin, rst)
  PROVE  /\ g \in HttpObject
         /\ g.connectionState \in {h.connectionState, "DISCONNECTING"}
<1> DEFINE full == [h EXCEPT !.readBuffer = @ + n]
           halfway == [full EXCEPT !.connectionState = "DISCONNECTING"]
<1>1. full \in HttpObject /\ full.connectionState = h.connectionState
  BY DEF HttpObject
<1>2. halfway \in HttpObject /\ halfway.connectionState = "DISCONNECTING"
  <2> HIDE DEF full
  <2>1. "DISCONNECTING" \in ConnectionState
    BY DEF ConnectionState
  <2> QED
    BY <1>1, <2>1 DEF HttpObject
<1>3. CASE h.connectionState = "DISCONNECTING"
  BY <1>3 DEF Received, HttpObject
<1>4. CASE h.connectionState # "DISCONNECTING" /\ rst
  BY <1>1, <1>4 DEF Received, Refused, HttpObject
<1>5. CASE h.connectionState # "DISCONNECTING" /\ ~rst /\ fin /\ n = 0
  BY <1>2, <1>5 DEF Received
<1>6. CASE h.connectionState # "DISCONNECTING" /\ ~rst /\ ~(fin /\ n = 0)
  <2>1. g \in Parsed(IF fin THEN halfway ELSE full)
    BY <1>6 DEF Received
  <2> HIDE DEF full, halfway
  <2> QED
    BY <2>1, <1>1, <1>2, ParsedKeeps
<1> QED
  BY <1>3, <1>4, <1>5, <1>6

-----------------------------------------------------------------------------
(* IInv holds initially.                                                   *)

\* A freshly constructed loop with no connection satisfies the invariant.
LEMMA InitIInv == Init => IInv
<1> SUFFICES ASSUME Init PROVE IInv
  OBVIOUS
<1>1. \A c \in Conns : NewHttp(KeepAlive[c]) \in HttpObject
  BY WorkerAssumption DEF NewHttp, HttpObject, ConnectionState, ProcessState, Interest
<1>2. \A c \in Conns : ~http[c].hasError /\ http[c].connectionState = "CONNECTED"
  BY DEF Init, NewHttp
<1>3. \A c \in Conns : ~Created(c) /\ ~InTable(c) /\ ~Referenced(c)
  BY DEF Init, Created, InTable, Referenced
<1>4. TypeOK
  BY <1>1, WorkerAssumption DEF Init, TypeOK, PCs, PeerState, Interest
<1>5. Timers /\ Owners /\ NoAbort
  BY <1>3, WorkerAssumption DEF Init, Timers, Owners, NoAbort
<1>6. Callbacks /\ Dispatching /\ Conditions
  BY <1>2, <1>3 DEF Init, Callbacks, Untouched, Dispatching, Conditions, Consistent, Serving
<1> QED
  BY <1>4, <1>5, <1>6 DEF IInv

-----------------------------------------------------------------------------
(* Every action keeps IInv: one lemma per group of actions.                *)

\* Peers change nothing but the kernel's side; the loop's steps that only move
\* pc change nothing but the loop.
LEMMA EnvironmentStep ==
  ASSUME IInv, NEW c \in Conns,
         PeerSends(c) \/ PeerReads(c) \/ PeerShutsDown(c) \/ PeerResets(c)
  PROVE  IInv'
<1>1. UNCHANGED <<loopVars, httpVars, mask, proc, stale>>
  BY DEF PeerSends, PeerReads, PeerShutsDown, PeerResets
<1>2. TypeOK'
  <2>1. inq' \in [Conns -> Nat] /\ sends' \in [Conns -> Nat]
    BY DEF PeerSends, PeerReads, PeerShutsDown, PeerResets, IInv, TypeOK
  <2>2. room' \in [Conns -> Nat]
    BY DEF PeerSends, PeerReads, PeerShutsDown, PeerResets, IInv, TypeOK
  <2>3. peer' \in [Conns -> PeerState]
    BY DEF PeerSends, PeerReads, PeerShutsDown, PeerResets, IInv, TypeOK, PeerState
  <2>4. ready' \in [Conns -> BOOLEAN]
    BY DEF PeerSends, PeerReads, PeerShutsDown, PeerResets, Edge, IInv, TypeOK
  <2> QED
    BY <1>1, <2>1, <2>2, <2>3, <2>4 DEF IInv, TypeOK, loopVars, httpVars
<1>3. \A d \in Conns : ready'[d] => ready[d] \/ mask[d] # {}
  BY DEF PeerSends, PeerReads, PeerShutsDown, PeerResets, Edge, IInv, TypeOK
<1>4. Timers' /\ Callbacks' /\ Dispatching' /\ Conditions' /\ NoAbort'
  BY <1>1 DEF IInv, Timers, Callbacks, Dispatching, Conditions, Consistent, NoAbort, Untouched, InTable,
     Created, Serving, loopVars, httpVars
<1>5. Owners'
  BY <1>1, <1>3 DEF IInv, Owners, InTable, Created, Referenced, loopVars, httpVars
<1> QED
  BY <1>2, <1>4, <1>5 DEF IInv

\* HandleNewConn's new object has a number nobody alive holds, and is queued
\* untouched.
LEMMA AcceptStep ==
  ASSUME IInv, NEW c \in Conns, NEW f \in Fds, Accept(c, f)
  PROVE  IInv'
<1> USE DEF IInv, Accept, httpVars, kernelVars
<1>1. TypeOK'
  BY DEF TypeOK
<1>2. f # None /\ fd[c] = None /\ fd'[c] = f /\ \A d \in Conns \ {c} : fd'[d] = fd[d]
  BY WorkerAssumption DEF TypeOK, Created
<1>3. Untouched(c) /\ \A g \in Fds : table[g] # c
  <2>1. Untouched(c)
    BY <1>2 DEF Callbacks, Created
  <2>2. ASSUME NEW g \in Fds, table[g] = c
        PROVE  FALSE
    BY <1>2, <2>2, WorkerAssumption DEF Owners
  <2> QED
    BY <2>1, <2>2
<1>4. \A d \in Conns : InTable(d)' <=> InTable(d)
  BY <1>2, <1>3 DEF InTable, Created
<1>5. \A d \in Conns \ {c} : Referenced(d)' <=> Referenced(d)
  BY <1>2, <1>4 DEF Referenced
<1>6. Timers' /\ NoAbort'
  BY DEF Timers, NoAbort
<1>7. Owners'
  <2>1. \A g \in Fds : table'[g] # None => fd'[table'[g]] = g
    <3> SUFFICES ASSUME NEW g \in Fds, table[g] # None PROVE fd'[table[g]] = g
      OBVIOUS
    <3>1. table[g] \in Conns \ {c} /\ fd[table[g]] = g
      BY <1>3 DEF TypeOK, Owners
    <3> QED
      BY <1>2, <3>1
  <2>2. \A d \in Conns : (mask'[d] # {} <=> InTable(d)') /\ (ready'[d] => InTable(d)')
    BY <1>4 DEF Owners
  <2>3. \A d, e \in Conns : d # e /\ Referenced(d)' /\ Referenced(e)' => fd'[d] # fd'[e]
    BY <1>2, <1>5 DEF Owners
  <2> QED
    BY <2>1, <2>2, <2>3 DEF Owners
<1>8. Callbacks'
  <2>1. \A d \in Conns : Untouched(d) => Untouched(d)'
    BY <1>4 DEF Untouched
  <2>2. c \notin calls
    BY <1>2 DEF Callbacks, Created
  <2> QED
    BY <1>2, <1>3, <2>1, <2>2, WorkerAssumption DEF Callbacks, Created, TypeOK
<1>9. Dispatching'
  BY <1>4 DEF Dispatching, TypeOK
<1>10. Conditions'
  BY <1>4 DEF Conditions, Consistent, Serving
<1> QED
  BY <1>1, <1>6, <1>7, <1>8, <1>9, <1>10

\* The loop's own steps before and between the handlers.
LEMMA EpollWaitStep ==
  ASSUME IInv, EpollWait
  PROVE  IInv'
<1> USE DEF IInv, EpollWait
<1>1. \A c \in Conns : /\ http'[c] \in HttpObject
                      /\ http'[c].hasError = http[c].hasError
                      /\ http'[c].connectionState = http[c].connectionState
  <2> SUFFICES ASSUME NEW c \in Conns
               PROVE  /\ http'[c] \in HttpObject
                      /\ http'[c].hasError = http[c].hasError
                      /\ http'[c].connectionState = http[c].connectionState
    OBVIOUS
  <2>1. http[c] \in HttpObject /\ {} \in SUBSET Interest
    BY DEF TypeOK
  <2>2. http'[c] = http[c] \/ http'[c] = [http[c] EXCEPT !.toListen = {}]
    OBVIOUS
  <2> QED
    BY <2>1, <2>2, SetToListenKeeps
<1>2. \A c \in Conns : InTable(c)' <=> InTable(c)
  BY DEF InTable, Created
<1>3. \A c \in Conns : Referenced(c)' <=> Referenced(c)
  BY <1>2 DEF Referenced
<1>4. TypeOK'
  <2>1. http' \in [Conns -> HttpObject]
    BY <1>1
  <2>2. ready' \in [Conns -> BOOLEAN] /\ active' \subseteq Conns /\ pc' \in PCs
    BY DEF PCs
  <2>3. \A c \in Conns : Reported(c) \in SUBSET {"IN", "OUT", "HUP"}
    BY DEF Reported, Poll
  <2>4. revents' \in [Conns -> SUBSET {"IN", "OUT", "HUP"}]
    BY <2>3 DEF TypeOK
  <2> QED
    BY <2>1, <2>2, <2>4 DEF TypeOK
<1>5. Timers' /\ NoAbort'
  BY DEF Timers, NoAbort
<1>6. Owners'
  BY <1>2, <1>3 DEF Owners
<1>7. Callbacks'
  BY <1>1, <1>2 DEF Callbacks, Untouched, Created, TypeOK
<1>8. Dispatching'
  BY <1>2, WorkerAssumption DEF Dispatching, Owners
<1>9. Conditions'
  BY <1>1, <1>2 DEF Conditions, Consistent, Serving, TypeOK
<1> QED
  BY <1>4, <1>5, <1>6, <1>7, <1>8, <1>9

\* Channel::HandleEvents takes its connection from the active list; HandleWrite,
\* when it comes first, leaves has_error_ and connectionState_ alone.
LEMMA DispatchStep ==
  ASSUME IInv, NEW c \in Conns, DispatchHangup(c) \/ DispatchWrite(c) \/ DispatchRead(c)
  PROVE  IInv'
<1> USE DEF IInv
<1>1. /\ pc = "dispatch" /\ cur = None /\ c \in active /\ c # None /\ InTable(c)
      /\ active' = active \ {c}
      /\ UNCHANGED <<queue, calls, revents, fd, table, nodes, linked, mask, ready, inq, peer,
                     sends, stale>>
  BY WorkerAssumption DEF DispatchHangup, DispatchWrite, DispatchRead, Dispatching, httpVars,
     kernelVars
<1>2. \/ pc' = "dispatch" /\ cur' = None
      \/ pc' \in {"read", "conn"} /\ cur' = c
  BY <1>1 DEF DispatchHangup, DispatchWrite, DispatchRead
<1>3. http' \in [Conns -> HttpObject] /\ room' \in [Conns -> Nat]
  <2>1. CASE DispatchWrite(c)
    <3>1. http[c] \in HttpObject /\ room[c] \in Nat
      BY DEF TypeOK
    <3>2. HandleWrite(http[c], room[c]) \in HttpObject /\ room[c] - Written(http[c], room[c]) \in Nat
      BY <3>1, HandleWriteKeeps, WrittenBounds
    <3> QED
      BY <2>1, <3>2 DEF DispatchWrite, TypeOK
  <2>2. CASE DispatchHangup(c) \/ DispatchRead(c)
    BY <2>2 DEF DispatchHangup, DispatchRead, TypeOK, httpVars, kernelVars
  <2> QED
    BY <2>1, <2>2
<1>4. \A d \in Conns : /\ http'[d].hasError = http[d].hasError
                      /\ http'[d].connectionState = http[d].connectionState
  <2>1. CASE DispatchWrite(c)
    <3>1. http[c] \in HttpObject /\ room[c] \in Nat
      BY DEF TypeOK
    <3>2. \A d \in Conns : http'[d] = IF d = c THEN HandleWrite(http[c], room[c]) ELSE http[d]
      BY <2>1 DEF DispatchWrite, TypeOK
    <3> QED
      BY <3>1, <3>2, HandleWriteKeeps
  <2>2. CASE DispatchHangup(c) \/ DispatchRead(c)
    BY <2>2 DEF DispatchHangup, DispatchRead, httpVars
  <2> QED
    BY <2>1, <2>2
<1>5. proc' \in {proc, "sigpipe"}
  BY DEF DispatchHangup, DispatchWrite, DispatchRead
<1>6. \A d \in Conns : InTable(d)' <=> InTable(d)
  BY <1>1 DEF InTable, Created
<1>7. \A d \in Conns : Referenced(d)' <=> Referenced(d)
  BY <1>1, <1>6 DEF Referenced
<1>8. TypeOK'
  BY <1>1, <1>2, <1>3, <1>5 DEF TypeOK, PCs
<1>9. Timers' /\ NoAbort'
  BY <1>1, <1>5 DEF Timers, NoAbort
<1>10. Owners'
  BY <1>1, <1>6, <1>7 DEF Owners
<1>11. Callbacks'
  BY <1>1, <1>4, <1>6 DEF Callbacks, Untouched, Created, TypeOK
<1>12. Dispatching'
  BY <1>1, <1>2, <1>6 DEF Dispatching, TypeOK
<1>13. Conditions'
  <2> SUFFICES ASSUME NEW d \in Conns PROVE Consistent(d)'
    BY DEF Conditions
  <2>1. cur # d
    BY <1>1, WorkerAssumption
  <2>2. nodes[d] = 1 => InTable(d)
    BY <2>1 DEF Conditions, Consistent
  <2>3. Serving(d)' => Serving(d)
    BY <1>4, <1>6 DEF Serving
  <2> QED
    BY <1>1, <1>4, <1>6, <2>1, <2>2, <2>3 DEF Conditions, Consistent
<1> QED
  BY <1>8, <1>9, <1>10, <1>11, <1>12, <1>13

\* The swap in DoCallbacks moves the queued objects together; the ends of
\* DoCallbacks and HandleExpire only move the loop on.
LEMMA CallbackListStep ==
  ASSUME IInv, TakeCallbacks \/ CallbacksDone \/ ExpireDone
  PROVE  IInv'
<1> USE DEF IInv
<1>1. /\ pc \notin {"read", "conn"} /\ pc' \in {"callbacks", "expire", "wait"}
      /\ active = {} /\ active' = {}
      /\ UNCHANGED <<revents, cur, http, fd, table, nodes, linked, kernelVars, proc, stale>>
  BY DEF TakeCallbacks, CallbacksDone, ExpireDone, Dispatching, httpVars
<1>2. queue' \cap calls' = {} /\ queue' \subseteq queue /\ calls' \subseteq queue \cup calls
  BY DEF TakeCallbacks, CallbacksDone, ExpireDone, Callbacks
<1>3. \A d \in Conns : InTable(d)' <=> InTable(d)
  BY <1>1 DEF InTable, Created
<1>4. \A d \in Conns : Referenced(d)' => Referenced(d)
  BY <1>1, <1>2, <1>3 DEF Referenced
<1>5. TypeOK'
  BY <1>1, <1>2 DEF TypeOK, PCs, kernelVars
<1>6. Timers' /\ NoAbort'
  BY <1>1 DEF Timers, NoAbort
<1>7. Owners'
  BY <1>1, <1>3, <1>4 DEF Owners, kernelVars
<1>8. Callbacks'
  <2>1. \A d \in Conns : (Untouched(d)' <=> Untouched(d)) /\ (Created(d)' <=> Created(d))
    BY <1>1, <1>3 DEF Untouched, Created
  <2>2. queue' \cup calls' \subseteq queue \cup calls /\ queue \cup calls \subseteq Conns
    BY <1>2 DEF TypeOK
  <2> QED
    BY <1>2, <2>1, <2>2 DEF Callbacks
<1>9. Dispatching'
  <2>1. calls' # {} => pc' = "callbacks"
    BY DEF TakeCallbacks, CallbacksDone, ExpireDone, Dispatching
  <2> QED
    BY <1>1, <2>1 DEF Dispatching
<1>10. Conditions'
  BY <1>1, <1>3 DEF Conditions, Consistent, Serving
<1> QED
  BY <1>5, <1>6, <1>7, <1>8, <1>9, <1>10

\* Http::Init run by DoCallbacks: the number of a queued connection is in
\* nobody's entry.
LEMMA HttpInitStep ==
  ASSUME IInv, NEW c \in Conns, HttpInit(c)
  PROVE  IInv'
<1> USE DEF IInv
<1>1. /\ c \in calls /\ pc = "callbacks" /\ cur = None /\ active = {}
      /\ calls' = calls \ {c}
      /\ UNCHANGED <<queue, active, revents, cur, pc, fd, inq, room, peer, sends, proc, stale>>
  BY DEF HttpInit, Dispatching
<1>2. /\ Untouched(c) /\ Created(c) /\ Referenced(c) /\ fd[c] \in Fds /\ c # None
      /\ c \notin queue
  BY <1>1, WorkerAssumption DEF Callbacks, Referenced, Created, TypeOK
<1>3. table[fd[c]] = None
  <2> SUFFICES ASSUME table[fd[c]] # None PROVE FALSE
    OBVIOUS
  <2>1. /\ table[fd[c]] \in Conns /\ fd[table[fd[c]]] = fd[c]
    BY <1>2 DEF Owners, TypeOK
  <2>2. InTable(table[fd[c]]) /\ ~InTable(c)
    BY <1>2, <2>1 DEF InTable, Created, Untouched
  <2>3. Referenced(table[fd[c]]) /\ table[fd[c]] # c
    BY <2>2 DEF Referenced
  <2> QED
    BY <1>2, <2>1, <2>3 DEF Owners
<1>4. table' = [table EXCEPT ![fd[c]] = c]
  BY <1>2, <1>3 DEF HttpInit, TypeOK
<1>5. \A d \in Conns : InTable(d)' <=> InTable(d) \/ d = c
  BY <1>1, <1>2, <1>3, <1>4, WorkerAssumption DEF InTable, Created, TypeOK
<1>6. \A d \in Conns : Referenced(d)' => Referenced(d)
  BY <1>1, <1>2, <1>5 DEF HttpInit, Referenced, TypeOK
<1>7. /\ nodes' = [nodes EXCEPT ![c] = 1] /\ linked' = [linked EXCEPT ![c] = TRUE]
      /\ mask' = [mask EXCEPT ![c] = {"IN"}]
      /\ ready' \in [Conns -> BOOLEAN] /\ \A d \in Conns \ {c} : ready'[d] = ready[d]
  BY <1>2 DEF HttpInit, Register, Untouched, TypeOK
<1>8. /\ http' \in [Conns -> HttpObject]
      /\ \A d \in Conns : /\ http'[d].hasError = http[d].hasError
                          /\ http'[d].connectionState = http[d].connectionState
  <2>1. http[c] \in HttpObject /\ {"IN"} \in SUBSET Interest
    BY DEF TypeOK, Interest
  <2>2. http' = [http EXCEPT ![c] = [http[c] EXCEPT !.toListen = {"IN"}]]
    BY DEF HttpInit
  <2>3. [http[c] EXCEPT !.toListen = {"IN"}] \in HttpObject
    BY <2>1, SetToListenKeeps
  <2>4. \A d \in Conns : http'[d] = IF d = c THEN [http[c] EXCEPT !.toListen = {"IN"}] ELSE http[d]
    BY <2>2 DEF TypeOK
  <2> QED
    BY <2>1, <2>2, <2>3, <2>4, SetToListenKeeps DEF TypeOK
<1>9. TypeOK'
  BY <1>1, <1>2, <1>4, <1>7, <1>8 DEF TypeOK, Interest
<1>10. Timers' /\ NoAbort'
  BY <1>1, <1>7 DEF Timers, NoAbort, TypeOK
<1>11. Owners'
  <2>1. \A f \in Fds : table'[f] # None => fd'[table'[f]] = f
    BY <1>1, <1>2, <1>4 DEF Owners, TypeOK
  <2>2. \A d \in Conns : (mask'[d] # {} <=> InTable(d)') /\ (ready'[d] => InTable(d)')
    BY <1>5, <1>7 DEF Owners, TypeOK
  <2> QED
    BY <1>1, <1>6, <2>1, <2>2 DEF Owners
<1>12. Callbacks'
  <2>1. \A d \in Conns \ {c} : Untouched(d) => Untouched(d)'
    BY <1>5, <1>7, <1>8 DEF Untouched, TypeOK
  <2>2. \A d \in Conns : Created(d)' <=> Created(d)
    BY <1>1 DEF Created
  <2>3. queue' \cup calls' \subseteq (queue \cup calls) \ {c} /\ queue \cup calls \subseteq Conns
    BY <1>1, <1>2 DEF TypeOK
  <2> QED
    BY <1>1, <1>2, <2>1, <2>2, <2>3 DEF Callbacks
<1>13. Dispatching'
  BY <1>1 DEF Dispatching
<1>14. Conditions'
  <2> SUFFICES ASSUME NEW d \in Conns PROVE Consistent(d)'
    BY DEF Conditions
  <2>1. CASE d = c
    BY <1>1, <1>2, <1>5, <1>7, <1>8, <2>1 DEF Conditions, Consistent, Untouched, TypeOK
  <2>2. CASE d # c
    <3>1. nodes'[d] = nodes[d] /\ (Serving(d)' => Serving(d))
      BY <1>5, <1>7, <1>8, <2>2 DEF Serving, TypeOK
    <3> QED
      BY <1>1, <1>5, <1>8, <2>2, <3>1 DEF Conditions, Consistent
  <2> QED
    BY <2>1, <2>2
<1> QED
  BY <1>9, <1>10, <1>11, <1>12, <1>13, <1>14

\* HandleClose of a connection in the table: its entry and its registration go,
\* nobody else's do, and the assertion holds.
LEMMA EpollDelStep ==
  ASSUME IInv, NEW c \in Conns, NEW broken \in BOOLEAN, InTable(c), EpollDel(c, broken),
         UNCHANGED <<queue, calls, fd>>, nodes' \in [Conns -> Nat],
         \A d \in Conns : nodes'[d] <= nodes[d]
  PROVE  /\ table' \in [Fds -> Conns \cup {None}]
         /\ mask' \in [Conns -> SUBSET Interest]
         /\ ready' \in [Conns -> BOOLEAN]
         /\ proc' \in {proc, "sigpipe"}
         /\ \A d \in Conns : InTable(d)' <=> InTable(d) /\ d # c
         /\ Owners'
<1> USE DEF IInv
<1>1. fd[c] \in Fds /\ table[fd[c]] = c /\ c # None
  BY WorkerAssumption DEF InTable, Created, TypeOK
<1>2. /\ table' \in [Fds -> Conns \cup {None}]
      /\ mask' \in [Conns -> SUBSET Interest]
      /\ ready' \in [Conns -> BOOLEAN]
      /\ proc' \in {proc, "sigpipe"}
  BY <1>1 DEF EpollDel, TypeOK
<1>3. \A d \in Conns : InTable(d)' <=> InTable(d) /\ d # c
  BY <1>1, WorkerAssumption DEF EpollDel, InTable, Created, TypeOK
<1>4. \A d \in Conns : Referenced(d)' => Referenced(d)
  BY <1>3 DEF Referenced, TypeOK
<1>5. \A f \in Fds : table'[f] # None => fd'[table'[f]] = f
  BY <1>1 DEF EpollDel, Owners, TypeOK
<1>6. \A d \in Conns : (mask'[d] # {} <=> InTable(d)') /\ (ready'[d] => InTable(d)')
  BY <1>3 DEF EpollDel, Owners, TypeOK
<1> QED
  BY <1>2, <1>3, <1>4, <1>5, <1>6 DEF Owners

\* A handler that touches one connection, while no other is current, leaves the
\* callback lists and the other connections in order.
LEMMA OthersKeep ==
  ASSUME IInv, NEW c \in Conns, Created(c), c \notin queue, c \notin calls,
         UNCHANGED <<queue, calls, fd>>, cur \in {c, None}, stale' \subseteq stale \cup {c},
         \A d \in Conns \ {c} : /\ http'[d] = http[d]
                               /\ nodes'[d] = nodes[d]
                               /\ (InTable(d)' <=> InTable(d))
  PROVE  /\ Callbacks'
         /\ \A d \in Conns \ {c} : Consistent(d)'
<1> USE DEF IInv
<1>1. Callbacks'
  <2>1. \A d \in Conns \ {c} : Untouched(d) => Untouched(d)'
    BY DEF Untouched
  <2>2. \A d \in Conns : Created(d)' <=> Created(d)
    BY DEF Created
  <2>3. queue \cup calls \subseteq Conns \ {c}
    BY DEF TypeOK
  <2> QED
    BY <2>1, <2>2, <2>3 DEF Callbacks
<1>2. ASSUME NEW d \in Conns \ {c}
      PROVE  Consistent(d)'
  <2>1. d # cur /\ Consistent(d)
    BY WorkerAssumption DEF Conditions
  <2>2. (Serving(d)' <=> Serving(d)) /\ (InTable(d)' <=> InTable(d))
    BY DEF Serving
  <2>3. http'[d] = http[d] /\ nodes'[d] = nodes[d] /\ (d \in stale' => d \in stale)
    OBVIOUS
  <2> QED
    BY <2>1, <2>2, <2>3 DEF Consistent
<1> QED
  BY <1>1, <1>2

\* What is in the table is not queued any more, and neither is what has been
\* refused.
LEMMA NotQueued ==
  ASSUME IInv, NEW c \in Conns, InTable(c) \/ http[c].hasError
  PROVE  Created(c) /\ c \notin queue /\ c \notin calls
BY DEF IInv, Callbacks, Untouched, InTable

\* seperateTimer() leaves no live node.
LEMMA SeparateTimerLeaves ==
  ASSUME IInv, NEW c \in Conns, SeparateTimer(c)
  PROVE  /\ nodes' = [nodes EXCEPT ![c] = 0]
         /\ linked' = [linked EXCEPT ![c] = FALSE]
         /\ nodes' \in [Conns -> Nat] /\ linked' \in [Conns -> BOOLEAN]
         /\ \A d \in Conns : nodes'[d] <= nodes[d]
         /\ Timers'
<1>1. nodes[c] \in Nat /\ nodes[c] <= 1 /\ (linked[c] <=> nodes[c] = 1)
  BY DEF IInv, Timers, TypeOK
<1>2. CASE linked[c]
  <2>1. nodes[c] = 1 /\ nodes[c] - 1 = 0
    BY <1>1, <1>2
  <2>2. nodes' = [nodes EXCEPT ![c] = 0] /\ linked' = [linked EXCEPT ![c] = FALSE]
    BY <1>2, <2>1, Zenon DEF SeparateTimer
  <2> QED
    BY <2>2 DEF IInv, Timers, TypeOK
<1>3. CASE ~linked[c]
  <2>1. nodes[c] = 0 /\ linked[c] = FALSE /\ nodes' = nodes /\ linked' = linked
    BY <1>1, <1>3 DEF SeparateTimer, IInv, TypeOK
  <2>2. nodes = [nodes EXCEPT ![c] = 0] /\ linked = [linked EXCEPT ![c] = FALSE]
    BY <2>1 DEF IInv, TypeOK
  <2> QED
    BY <2>1, <2>2 DEF IInv, Timers, TypeOK
<1> QED
  BY <1>2, <1>3

\* The connection of a live node is still in the table, since nothing else has
\* closed it; ~TimerNode closes it, and no node is left.
LEMMA NodeDiesStep ==
  ASSUME IInv, NEW c \in Conns, NodeDies(c), cur = None, active = {}
  PROVE  IInv'
<1> USE DEF IInv
<1>1. /\ cur = None /\ active = {} /\ nodes[c] = 1
      /\ UNCHANGED <<loopVars, fd, inq, room, peer, sends, stale>>
  BY DEF NodeDies, Timers, TypeOK
<1>2. InTable(c)
  BY <1>1, WorkerAssumption DEF Conditions, Consistent
<1>3. /\ nodes' = [nodes EXCEPT ![c] = 0] /\ linked' = [linked EXCEPT ![c] = FALSE]
  <2>1. nodes[c] - 1 = 0 /\ ~(nodes[c] > 1)
    BY <1>1
  <2>2. (linked[c] /\ nodes[c] > 1) = FALSE
    BY <2>1, Zenon
  <2> QED
    BY <2>1, <2>2, Zenon DEF NodeDies
<1>4. /\ nodes' \in [Conns -> Nat] /\ linked' \in [Conns -> BOOLEAN]
      /\ \A d \in Conns : nodes'[d] <= nodes[d]
      /\ Timers'
  BY <1>1, <1>3 DEF Timers, TypeOK
<1>5. /\ table' \in [Fds -> Conns \cup {None}]
      /\ mask' \in [Conns -> SUBSET Interest]
      /\ ready' \in [Conns -> BOOLEAN]
      /\ proc' \in {proc, "sigpipe"}
      /\ \A d \in Conns : InTable(d)' <=> InTable(d) /\ d # c
      /\ Owners'
  <2>1. EpollDel(c, FALSE) /\ UNCHANGED <<queue, calls, fd>>
    BY DEF NodeDies, loopVars
  <2> QED
    BY <1>2, <1>4, <2>1, EpollDelStep
<1>6. http' = [http EXCEPT ![c] = ClosedHttp(http[c])] /\ ClosedHttp(http[c]) \in HttpObject
      /\ ClosedHttp(http[c]).hasError = http[c].hasError
  BY CloseKeeps DEF NodeDies, TypeOK
<1>7. TypeOK'
  BY <1>1, <1>4, <1>5, <1>6 DEF TypeOK, loopVars
<1>8. Callbacks' /\ \A d \in Conns \ {c} : Consistent(d)'
  <2>1. \A d \in Conns \ {c} : http'[d] = http[d] /\ nodes'[d] = nodes[d]
    BY <1>3, <1>6 DEF TypeOK
  <2> QED
    BY <1>1, <1>2, <1>5, <2>1, NotQueued, OthersKeep DEF loopVars
<1>9. Consistent(c)'
  <2>1. ~InTable(c)' /\ nodes'[c] = 0 /\ ~Serving(c)'
    BY <1>3, <1>5 DEF Serving, TypeOK
  <2>2. c \in stale' => http[c].hasError /\ http'[c] = ClosedHttp(http[c])
    BY <1>1, <1>6 DEF Conditions, Consistent, TypeOK
  <2> QED
    BY <1>6, <2>1, <2>2 DEF Consistent
<1>10. Dispatching'
  BY <1>1 DEF Dispatching, loopVars
<1>11. NoAbort'
  BY <1>5 DEF NoAbort
<1> QED
  BY <1>4, <1>5, <1>7, <1>8, <1>9, <1>10, <1>11 DEF Conditions

\* No connection is current when HandleExpire runs.
LEMMA ExpireStep ==
  ASSUME IInv, NEW c \in Conns, Expire(c)
  PROVE  IInv'
<1>1. cur = None /\ active = {} /\ NodeDies(c)
  BY DEF IInv, Expire, Dispatching
<1> QED
  BY <1>1, NodeDiesStep

\* HandleRead works on a connection in the table and leaves it there, or closes
\* it with has_error_ set.
LEMMA HandleReadStep ==
  ASSUME IInv, NEW c \in Conns, HandleRead(c)
  PROVE  IInv'
<1> USE DEF IInv
<1>1. /\ pc = "read" /\ cur = c /\ c # None /\ cur' = c /\ InTable(c)
      /\ inq' = [inq EXCEPT ![c] = 0]
      /\ UNCHANGED <<queue, calls, active, revents, cur, fd, peer, sends, stale>>
  BY WorkerAssumption DEF HandleRead, Dispatching
<1>2. /\ Created(c) /\ c \notin queue /\ c \notin calls
      /\ http[c] \in HttpObject /\ room[c] \in Nat /\ inq[c] \in Nat
      /\ http[c].toListen \in SUBSET Interest
      /\ c \notin stale /\ http[c].connectionState # "DISCONNECTED"
      /\ active \subseteq Conns \ {c} /\ \A d \in active : InTable(d)
  BY <1>1, NotQueued DEF TypeOK, HttpObject, Conditions, Consistent, Dispatching
<1>3. PICK g \in Received(http[c], inq[c], peer[c] = "fin", peer[c] = "rst") :
        ReadFailed(c, g) \/ RequestDone(c, g) \/ NeedMore(c, g)
  BY DEF HandleRead
<1>4. g \in HttpObject /\ g.connectionState # "DISCONNECTED"
  <2>1. (peer[c] = "fin") \in BOOLEAN /\ (peer[c] = "rst") \in BOOLEAN
    OBVIOUS
  <2>2. g \in HttpObject /\ g.connectionState \in {http[c].connectionState, "DISCONNECTING"}
    BY <1>2, <1>3, <2>1, ReceivedKeeps
  <2> QED
    BY <1>2, <2>2
<1>5. inq' \in [Conns -> Nat]
  BY <1>1 DEF TypeOK
<1>6. CASE ReadFailed(c, g)
  <2>1. /\ g.hasError /\ pc' = "conn" /\ UNCHANGED <<nodes, linked, room>>
        /\ http' = [http EXCEPT ![c] = ClosedHttp(g)] /\ EpollDel(c, Broken(c))
    BY <1>6 DEF ReadFailed
  <2>2. /\ table' \in [Fds -> Conns \cup {None}]
        /\ mask' \in [Conns -> SUBSET Interest]
        /\ ready' \in [Conns -> BOOLEAN]
        /\ proc' \in {proc, "sigpipe"}
        /\ \A d \in Conns : InTable(d)' <=> InTable(d) /\ d # c
        /\ Owners'
    <3>1. nodes' \in [Conns -> Nat] /\ \A d \in Conns : nodes'[d] <= nodes[d]
      BY <2>1 DEF TypeOK
    <3>2. Broken(c) \in BOOLEAN /\ UNCHANGED <<queue, calls, fd>>
      BY <1>1 DEF Broken
    <3> QED
      BY <1>1, <2>1, <3>1, <3>2, EpollDelStep
  <2>3. /\ http' \in [Conns -> HttpObject] /\ http'[c].hasError
        /\ \A d \in Conns \ {c} : http'[d] = http[d]
    BY <1>4, <2>1, CloseKeeps DEF TypeOK
  <2>4. TypeOK'
    BY <1>1, <1>5, <2>1, <2>2, <2>3 DEF TypeOK, PCs
  <2>5. Callbacks' /\ \A d \in Conns \ {c} : Consistent(d)'
    BY <1>1, <1>2, <2>1, <2>2, <2>3, OthersKeep
  <2>6. Consistent(c)'
    BY <1>1, <2>2, <2>3 DEF Consistent, Serving
  <2>7. Dispatching'
    BY <1>1, <1>2, <2>1, <2>2, <2>3 DEF Dispatching
  <2>8. Timers' /\ NoAbort'
    BY <2>1, <2>2 DEF Timers, NoAbort
  <2> QED
    BY <2>2, <2>4, <2>5, <2>6, <2>7, <2>8 DEF Conditions
<1>7. CASE RequestDone(c, g) \/ NeedMore(c, g)
  <2> DEFINE w == HandleWrite(g, room[c])
  <2>1. w \in HttpObject /\ ~w.hasError /\ w.connectionState # "DISCONNECTED"
    BY <1>2, <1>4, <1>7, HandleWriteKeeps DEF RequestDone, NeedMore
  <2>2. PICK e \in HttpObject : /\ http' = [http EXCEPT ![c] = e]
                                /\ ~e.hasError /\ e.connectionState # "DISCONNECTED"
    <3> HIDE DEF w
    <3>1. CASE RequestDone(c, g)
      <4>1. http' = [http EXCEPT ![c] = ResetRequest(w)]
        BY <3>1 DEF RequestDone, w
      <4>2. /\ ResetRequest(w) \in HttpObject
            /\ ~ResetRequest(w).hasError
            /\ ResetRequest(w).connectionState # "DISCONNECTED"
        BY <1>2, <2>1, FinishKeeps
      <4> QED
        BY <4>1, <4>2
    <3>2. CASE NeedMore(c, g)
      <4>1. http' = [http EXCEPT ![c] = AskForMore(w, http[c].toListen)]
        BY <3>2 DEF NeedMore, w
      <4>2. /\ AskForMore(w, http[c].toListen) \in HttpObject
            /\ ~AskForMore(w, http[c].toListen).hasError
            /\ AskForMore(w, http[c].toListen).connectionState # "DISCONNECTED"
        BY <1>2, <2>1, FinishKeeps
      <4> QED
        BY <4>1, <4>2
    <3> QED
      BY <1>7, <3>1, <3>2
  <2>3. /\ http' \in [Conns -> HttpObject] /\ http'[c] = e
        /\ \A d \in Conns \ {c} : http'[d] = http[d]
    BY <2>2 DEF TypeOK
  <2>4. /\ room' \in [Conns -> Nat] /\ proc' \in {proc, "sigpipe"} /\ pc' \in {"read", "conn"}
        /\ UNCHANGED <<table, mask, ready>>
    <3>1. room[c] - Written(g, room[c]) \in Nat
      BY <1>2, <1>4, WrittenBounds
    <3>2. room' = [room EXCEPT ![c] = room[c] - Written(g, room[c])]
      BY <1>7 DEF RequestDone, NeedMore
    <3> QED
      BY <1>7, <3>1, <3>2 DEF RequestDone, NeedMore, TypeOK
  <2>5. /\ nodes' \in [Conns -> Nat] /\ linked' \in [Conns -> BOOLEAN]
        /\ \A d \in Conns \ {c} : nodes'[d] = nodes[d]
        /\ \A d \in Conns : nodes'[d] <= nodes[d]
        /\ Timers'
    <3>1. CASE SeparateTimer(c)
      BY <3>1, SeparateTimerLeaves DEF TypeOK
    <3>2. CASE UNCHANGED <<nodes, linked>>
      BY <3>2 DEF TypeOK, Timers
    <3> QED
      BY <1>7, <3>1, <3>2 DEF RequestDone, NeedMore
  <2>6. \A d \in Conns : InTable(d)' <=> InTable(d)
    BY <1>1, <2>4 DEF InTable, Created
  <2>7. \A d \in Conns : Referenced(d)' => Referenced(d)
    BY <1>1, <2>5, <2>6 DEF Referenced, TypeOK
  <2>8. TypeOK'
    BY <1>1, <1>5, <2>3, <2>4, <2>5 DEF TypeOK, PCs
  <2>9. Owners'
    BY <1>1, <2>4, <2>6, <2>7 DEF Owners
  <2>10. Callbacks' /\ \A d \in Conns \ {c} : Consistent(d)'
    BY <1>1, <1>2, <2>3, <2>5, <2>6, OthersKeep
  <2>11. Consistent(c)'
    BY <1>1, <1>2, <2>2, <2>3, <2>6 DEF Consistent
  <2>12. Dispatching'
    BY <1>1, <1>2, <2>4, <2>6 DEF Dispatching
  <2>13. NoAbort'
    BY <2>4 DEF NoAbort
  <2> QED
    BY <2>5, <2>8, <2>9, <2>10, <2>11, <2>12, <2>13 DEF Conditions
<1> QED
  BY <1>3, <1>6, <1>7

\* HandleCurrentConn: whatever branch it takes, the connection it leaves in the
\* table has a timer, or is not served any more.
LEMMA HandleCurrentConnStep ==
  ASSUME IInv, NEW c \in Conns, HandleCurrentConn(c)
  PROVE  IInv'
<1> USE DEF IInv
<1>1. /\ pc = "conn" /\ cur = c /\ c # None /\ cur' = None /\ pc' = "dispatch"
      /\ UNCHANGED <<queue, calls, active, revents, fd, inq, room, peer, sends>>
      /\ InTable(c) \/ http[c].hasError
  BY WorkerAssumption DEF HandleCurrentConn, ConnWantsOutput, ConnIdles, ConnCloses, ConnDrains,
     ConnAfterClose, ConnStep, Dispatching
<1>2. /\ Created(c) /\ c \notin queue /\ c \notin calls /\ http[c] \in HttpObject
      /\ active \subseteq Conns \ {c} /\ \A d \in active : InTable(d)
      /\ (InTable(c) => ~http[c].hasError /\ http[c].connectionState # "DISCONNECTED")
      /\ (c \in stale => http[c].hasError)
  BY <1>1, NotQueued DEF TypeOK, Conditions, Consistent, Dispatching
<1>3. ASSUME stale' \subseteq stale \cup {c}, proc' \in {proc, "sigpipe"},
             http' \in [Conns -> HttpObject], nodes' \in [Conns -> Nat],
             linked' \in [Conns -> BOOLEAN], Timers', Owners',
             table' \in [Fds -> Conns \cup {None}],
             mask' \in [Conns -> SUBSET Interest], ready' \in [Conns -> BOOLEAN],
             \A d \in Conns \ {c} : /\ http'[d] = http[d]
                                   /\ nodes'[d] = nodes[d]
                                   /\ (InTable(d)' <=> InTable(d)),
             Consistent(c)'
      PROVE  IInv'
  <2>1. TypeOK'
    BY <1>1, <1>3 DEF TypeOK, PCs
  <2>2. Callbacks' /\ \A d \in Conns \ {c} : Consistent(d)'
    BY <1>1, <1>2, <1>3, OthersKeep
  <2>3. Dispatching'
    BY <1>1, <1>2, <1>3, WorkerAssumption DEF Dispatching
  <2>4. NoAbort'
    BY <1>3 DEF NoAbort
  <2> QED
    BY <1>3, <2>1, <2>2, <2>3, <2>4 DEF Conditions
<1>4. CASE ConnWantsOutput(c) \/ ConnIdles(c)
  <2>1. PICK events \in SUBSET Interest :
           /\ events # {} /\ http' = [http EXCEPT ![c] = [http[c] EXCEPT !.toListen = events]]
           /\ UpdateEpoller(c, events)
    <3>1. {"OUT"} \in SUBSET Interest /\ {"OUT"} # {} /\ {"IN"} \in SUBSET Interest /\ {"IN"} # {}
      BY DEF Interest
    <3> QED
      BY <1>4, <3>1 DEF ConnWantsOutput, ConnIdles
  <2>2. /\ ~http[c].hasError /\ InTable(c) /\ UNCHANGED <<table, proc, stale>>
    BY <1>1, <1>4 DEF ConnWantsOutput, ConnIdles
  <2>3. /\ http' \in [Conns -> HttpObject] /\ http'[c].hasError = http[c].hasError
        /\ \A d \in Conns \ {c} : http'[d] = http[d]
    BY <1>2, <2>1, SetToListenKeeps DEF TypeOK
  <2>4. /\ mask' = [mask EXCEPT ![c] = events]
        /\ ready' \in [Conns -> BOOLEAN] /\ \A d \in Conns \ {c} : ready'[d] = ready[d]
    BY <2>1 DEF UpdateEpoller, Register, TypeOK
  <2>5. nodes' = [nodes EXCEPT ![c] = 1] /\ linked' = [linked EXCEPT ![c] = TRUE]
    <3>1. nodes[c] \in Nat /\ nodes[c] <= 1 /\ (linked[c] <=> nodes[c] = 1)
      BY DEF Timers, TypeOK
    <3>2. (IF linked[c] THEN nodes[c] ELSE nodes[c] + 1) = 1
      BY <3>1
    <3> QED
      BY <2>1, <3>2, Zenon DEF UpdateEpoller
  <2>6. /\ nodes' \in [Conns -> Nat] /\ linked' \in [Conns -> BOOLEAN] /\ Timers'
        /\ nodes'[c] = 1 /\ \A d \in Conns \ {c} : nodes'[d] = nodes[d]
    BY <2>5 DEF Timers, TypeOK
  <2>7. \A d \in Conns : InTable(d)' <=> InTable(d)
    BY <1>1, <2>2 DEF InTable, Created
  <2>8. Owners'
    <3>1. \A d \in Conns : Referenced(d)' => Referenced(d)
      BY <1>1, <2>2, <2>6, <2>7 DEF Referenced
    <3>2. \A d \in Conns : (mask'[d] # {} <=> InTable(d)') /\ (ready'[d] => InTable(d)')
      BY <2>1, <2>2, <2>4, <2>7 DEF Owners, TypeOK
    <3> QED
      BY <1>1, <2>2, <3>1, <3>2 DEF Owners
  <2>9. http'[c].connectionState = http[c].connectionState
    BY <1>2, <2>1, SetToListenKeeps DEF TypeOK
  <2>10. Consistent(c)'
    BY <1>2, <2>2, <2>3, <2>6, <2>7, <2>9 DEF Consistent
  <2>11. mask' \in [Conns -> SUBSET Interest] /\ table' \in [Fds -> Conns \cup {None}]
    BY <2>2, <2>4 DEF TypeOK
  <2> QED
    BY <1>3, <2>2, <2>3, <2>4, <2>6, <2>7, <2>8, <2>10, <2>11
<1>5. CASE ConnCloses(c)
  <2>1. /\ ~http[c].hasError /\ InTable(c) /\ UNCHANGED stale
        /\ http' = [http EXCEPT ![c] = ClosedHttp(http[c])]
        /\ SeparateTimer(c) /\ EpollDel(c, FALSE)
    BY <1>1, <1>5 DEF ConnCloses
  <2>2. /\ nodes' = [nodes EXCEPT ![c] = 0]
        /\ nodes' \in [Conns -> Nat] /\ linked' \in [Conns -> BOOLEAN]
        /\ \A d \in Conns : nodes'[d] <= nodes[d]
        /\ Timers'
    BY <2>1, SeparateTimerLeaves
  <2>3. /\ table' \in [Fds -> Conns \cup {None}]
        /\ mask' \in [Conns -> SUBSET Interest]
        /\ ready' \in [Conns -> BOOLEAN]
        /\ proc' \in {proc, "sigpipe"}
        /\ \A d \in Conns : InTable(d)' <=> InTable(d) /\ d # c
        /\ Owners'
    BY <1>1, <2>1, <2>2, EpollDelStep
  <2>4. /\ http' \in [Conns -> HttpObject]
        /\ \A d \in Conns \ {c} : http'[d] = http[d] /\ nodes'[d] = nodes[d]
    BY <1>2, <2>1, <2>2, CloseKeeps DEF TypeOK
  <2>5. Consistent(c)'
    BY <1>2, <2>1, <2>2, <2>3 DEF Consistent, Serving, TypeOK
  <2> QED
    BY <1>3, <2>1, <2>2, <2>3, <2>4, <2>5
<1>6. CASE ConnDrains(c) \/ ConnAfterClose(c)
  <2>1. SeparateTimer(c) /\ UNCHANGED <<table, mask, ready, proc>>
    BY <1>6 DEF ConnDrains, ConnAfterClose
  <2>2. /\ nodes' = [nodes EXCEPT ![c] = 0]
        /\ nodes' \in [Conns -> Nat] /\ linked' \in [Conns -> BOOLEAN]
        /\ \A d \in Conns : nodes'[d] <= nodes[d]
        /\ Timers'
    BY <2>1, SeparateTimerLeaves
  <2>3. \A d \in Conns : InTable(d)' <=> InTable(d)
    BY <1>1, <2>1 DEF InTable, Created
  <2>4. \A d \in Conns : Referenced(d)' => Referenced(d)
    BY <1>1, <2>2, <2>3 DEF Referenced, TypeOK
  <2>5. Owners'
    BY <1>1, <2>1, <2>3, <2>4 DEF Owners
  <2>6. /\ http' \in [Conns -> HttpObject]
        /\ \A d \in Conns \ {c} : http'[d] = http[d] /\ nodes'[d] = nodes[d]
        /\ http'[c].hasError = http[c].hasError
        /\ http'[c].connectionState = http[c].connectionState
    <3>1. CASE ConnDrains(c)
      <4>1. {"OUT"} \in SUBSET Interest /\ http' = [http EXCEPT ![c] = [http[c] EXCEPT !.toListen = {"OUT"}]]
        BY <3>1 DEF ConnDrains, Interest
      <4> QED
        BY ZenonT(30), <1>2, <2>2, <4>1, SetToListenKeeps DEF TypeOK
    <3>2. CASE ConnAfterClose(c)
      BY <2>2, <3>2 DEF ConnAfterClose, TypeOK
    <3> QED
      BY <1>6, <3>1, <3>2
  <2>7. /\ stale' \subseteq stale \cup {c}
        /\ (c \in stale' => http[c].hasError)
        /\ (InTable(c) => http[c].connectionState # "CONNECTED")
    BY <1>1, <1>2, <1>6 DEF ConnDrains, ConnAfterClose
  <2>8. Consistent(c)'
    BY <1>2, <2>2, <2>3, <2>6, <2>7 DEF Consistent, Serving, TypeOK
  <2>9. /\ table' \in [Fds -> Conns \cup {None}]
        /\ mask' \in [Conns -> SUBSET Interest] /\ ready' \in [Conns -> BOOLEAN]
    BY <2>1 DEF TypeOK
  <2> QED
    BY <1>3, <2>1, <2>2, <2>3, <2>5, <2>6, <2>7, <2>8, <2>9
<1> QED
  BY <1>4, <1>5, <1>6 DEF HandleCurrentConn

-----------------------------------------------------------------------------
(* The theorems.                                                           *)

\* The inductive step.
LEMMA NextIInv == IInv /\ [Next]_vars => IInv'
<1> SUFFICES ASSUME IInv, [Next]_vars PROVE IInv'
  OBVIOUS
<1>1. CASE UNCHANGED vars
  BY <1>1 DEF vars, loopVars, httpVars, kernelVars, IInv, TypeOK, Timers, Owners, Callbacks,
     Dispatching, Conditions, Consistent, NoAbort, Untouched, InTable, Created, Referenced, Serving
<1>2. CASE LoopStep
  BY <1>2, EpollWaitStep, DispatchStep, HandleReadStep, HandleCurrentConnStep, CallbackListStep,
     HttpInitStep DEF LoopStep
<1>3. CASE \E c \in Conns : Expire(c)
  BY <1>3, ExpireStep
<1>4. CASE Environment
  BY <1>4, AcceptStep, EnvironmentStep DEF Environment
<1> QED
  BY <1>1, <1>2, <1>3, <1>4 DEF Next

\* The inductive invariant holds in every reachable state, for any number of
\* connections, descriptors and pieces.
THEOREM Invariance == Spec => []IInv
<1>1. Init => IInv
  BY InitIInv
<1>2. IInv /\ [Next]_vars => IInv'
  BY NextIInv
<1> QED
  BY <1>1, <1>2, PTL DEF Spec

\* Every variable keeps its type; in particular a timer node is never dropped
\* twice and a write never takes more than there is.
THEOREM TypeCorrect == Spec => []TypeOK
<1>1. IInv => TypeOK
  BY DEF IInv
<1> QED
  BY <1>1, Invariance, PTL

\* Epoll::EpollDel's assertion never fails.
THEOREM NeverAborts == Spec => []NoAbort
<1>1. IInv => NoAbort
  BY DEF IInv
<1> QED
  BY <1>1, Invariance, PTL

\* fd2channel_, epoll and the living Http objects agree on who owns which
\* descriptor number, however often the kernel hands a number out again.
THEOREM OwnershipHolds == Spec => []FdOwnership
<1>1. IInv => FdOwnership
  BY DEF IInv, Owners, FdOwnership
<1> QED
  BY <1>1, Invariance, PTL

\* A connection that is served while the loop waits has exactly one live timer
\* node, and timer_ names it.
THEOREM DeadlineHolds == Spec => []OneDeadline
<1>1. IInv => OneDeadline
  <2> SUFFICES ASSUME IInv PROVE OneDeadline
    OBVIOUS
  <2>1. AtRest => cur = None
    BY DEF IInv, Dispatching, AtRest
  <2> QED
    BY <2>1, WorkerAssumption DEF IInv, Timers, Conditions, Consistent, OneDeadline
<1> QED
  BY <1>1, Invariance, PTL

\* A destroyed Http is only ever used by the HandleCurrentConn that follows a
\* refused request.
THEOREM StaleHolds == Spec => []StaleOnlyAfterError
<1>1. IInv => StaleOnlyAfterError
  BY DEF IInv, TypeOK, Conditions, Consistent, StaleOnlyAfterError
<1> QED
  BY <1>1, Invariance, PTL

\* A closed connection is out of the table, out of epoll, and has no live node
\* but the one that still holds it after an error.
LEMMA ClosedIsOut ==
  ASSUME IInv, NEW c \in Conns, http[c].connectionState = "DISCONNECTED"
  PROVE  /\ ~InTable(c) /\ mask[c] = {} /\ ~ready[c]
         /\ c \notin active /\ c \notin calls
         /\ pc = "read" => cur # c
         /\ pc = "conn" /\ cur = c => http[c].hasError
         /\ pc = "expire" => nodes[c] = 0
<1> USE DEF IInv
<1>1. ~InTable(c)
  BY DEF Conditions, Consistent
<1>2. mask[c] = {} /\ ~ready[c] /\ c \notin active /\ c \notin calls
  BY <1>1 DEF Owners, Dispatching, Callbacks, Untouched
<1>3. (pc = "read" => cur # c) /\ (pc = "conn" /\ cur = c => http[c].hasError)
  BY <1>1 DEF Dispatching
<1>4. pc = "expire" => nodes[c] = 0
  <2>1. nodes[c] \in Nat /\ nodes[c] <= 1
    BY DEF Timers, TypeOK
  <2>2. pc = "expire" => cur # c
    BY WorkerAssumption DEF Dispatching
  <2>3. nodes[c] = 1 => c = cur
    BY <1>1 DEF Conditions, Consistent
  <2> QED
    BY <2>1, <2>2, <2>3
<1> QED
  BY <1>1, <1>2, <1>3, <1>4

\* A connection that HandleClose has closed is never armed, registered or
\* served again.
THEOREM ClosedHolds == Spec => ClosedForGood
<1> DEFINE Stays(c) == http[c].connectionState = "DISCONNECTED" =>
                         /\ http'[c].connectionState = "DISCONNECTED"
                         /\ mask'[c] = {}
                         /\ nodes'[c] <= nodes[c]
<1>1. ASSUME IInv, [Next]_vars
      PROVE  [\A c \in Conns : Stays(c)]_vars
  <2> USE <1>1
  <2> SUFFICES ASSUME Next, NEW c \in Conns, http[c].connectionState = "DISCONNECTED"
               PROVE  /\ http'[c].connectionState = "DISCONNECTED"
                      /\ mask'[c] = {}
                      /\ nodes'[c] <= nodes[c]
    OBVIOUS
  <2> DEFINE Same == http'[c] = http[c] /\ mask'[c] = mask[c] /\ nodes'[c] <= nodes[c]
  <2>1. /\ c \notin active /\ c \notin calls /\ ~ready[c] /\ mask[c] = {} /\ nodes[c] \in Nat
        /\ pc = "read" => cur # c
        /\ pc = "conn" /\ cur = c => http[c].hasError
        /\ pc = "expire" => nodes[c] = 0
    BY ClosedIsOut DEF IInv, TypeOK
  <2>2. CASE EpollWait
    <3>1. c \notin active' /\ UNCHANGED <<mask, nodes>>
      BY <2>1, <2>2 DEF EpollWait
    <3>2. http'[c] = http[c]
      BY <2>2, <3>1 DEF EpollWait
    <3> QED
      BY <2>1, <3>1, <3>2
  <2>3. ASSUME NEW d \in Conns, DispatchHangup(d) \/ DispatchWrite(d) \/ DispatchRead(d)
        PROVE  Same
    BY <2>1, <2>3 DEF DispatchHangup, DispatchWrite, DispatchRead, httpVars, kernelVars, IInv, TypeOK
  <2>4. ASSUME NEW d \in Conns, HandleRead(d)
        PROVE  Same
    <3>1. d # c
      BY <2>1, <2>4 DEF HandleRead
    <3> QED
      BY <2>1, <2>4, <3>1 DEF HandleRead, ReadFailed, RequestDone, NeedMore, EpollDel, SeparateTimer,
         IInv, TypeOK
  <2>5. ASSUME NEW d \in Conns, HandleCurrentConn(d)
        PROVE  Same
    <3>1. CASE d # c
      BY <2>1, <2>5, <3>1 DEF HandleCurrentConn, ConnWantsOutput, ConnIdles, ConnCloses, ConnDrains,
         ConnAfterClose, ConnStep, UpdateEpoller, Register, EpollDel, SeparateTimer, IInv, TypeOK
    <3>2. CASE d = c
      <4>1. ConnAfterClose(c)
        BY <2>1, <2>5, <3>2 DEF HandleCurrentConn, ConnWantsOutput, ConnIdles, ConnCloses,
           ConnDrains, ConnStep
      <4> QED
        BY <2>1, <4>1 DEF ConnAfterClose, SeparateTimer, IInv, TypeOK
    <3> QED
      BY <3>1, <3>2
  <2>6. ASSUME NEW d \in Conns, HttpInit(d)
        PROVE  Same
    BY <2>1, <2>6 DEF HttpInit, Register, IInv, TypeOK
  <2>7. ASSUME NEW d \in Conns, Expire(d)
        PROVE  Same
    BY <2>1, <2>7 DEF Expire, NodeDies, EpollDel, IInv, TypeOK
  <2>8. CASE TakeCallbacks \/ CallbacksDone \/ ExpireDone
    <3>1. UNCHANGED <<http, mask, nodes>>
      BY <2>8 DEF TakeCallbacks, CallbacksDone, ExpireDone, httpVars, kernelVars
    <3> QED
      BY <2>1, <3>1
  <2>9. CASE Environment
    <3>1. UNCHANGED <<http, mask, nodes>>
      BY <2>9 DEF Environment, Accept, PeerSends, PeerReads, PeerShutsDown, PeerResets,
         httpVars, kernelVars
    <3> QED
      BY <2>1, <3>1
  <2>10. CASE Same
    BY <2>1, <2>10
  <2> QED
    BY <2>2, <2>3, <2>4, <2>5, <2>6, <2>7, <2>8, <2>9, <2>10 DEF Next, LoopStep
<1> HIDE DEF Stays
<1>2. Spec => [][\A c \in Conns : Stays(c)]_vars
  BY <1>1, Invariance, PTL DEF Spec
<1> QED
  BY <1>2 DEF Stays, ClosedForGood

-----------------------------------------------------------------------------
(* The life cycle: under the refinement mapping Phase every step of the    *)
(* worker, of the main thread and of the peers is one of ConnLifecycle's   *)
(* or changes nothing there.                                               *)

\* What Phase says, without the nested conditionals.
LEMMA PhaseValues ==
  ASSUME IInv, NEW c \in Conns
  PROVE  /\ ~Created(c) => Phase(c) = "unborn"
         /\ c \in queue \cup calls => Phase(c) = "queued"
         /\ InTable(c) => Phase(c) = "open"
         /\ nodes[c] > 0 /\ ~InTable(c) => Phase(c) = "closed"
         /\ Created(c) /\ ~Referenced(c) => Phase(c) = "released"
BY DEF IInv, Callbacks, Untouched, TypeOK, InTable, Referenced, Phase

\* A step in which nothing the phases depend on changes is a stutter.
LEMMA SamePhases ==
  ASSUME UNCHANGED fd,
         \A c \in Conns : Phase(c)' = Phase(c)
  PROVE  UNCHANGED Lifecycle!vars
<1>1. [c \in Conns |-> Phase(c)]' = [c \in Conns |-> Phase(c)]
  OBVIOUS
<1> QED
  BY <1>1 DEF Lifecycle!vars

\* A step that changes the phase of one connection, along one of the arrows of
\* the life cycle, is that step of the life cycle.
LEMMA OnePhase ==
  ASSUME NEW c \in Conns, UNCHANGED fd,
         \A d \in Conns \ {c} : Phase(d)' = Phase(d),
         \/ Phase(c) = "queued" /\ Phase(c)' = "open"
         \/ Phase(c) = "open" /\ Phase(c)' = "closed"
         \/ Phase(c) \in {"open", "closed"} /\ Phase(c)' = "released"
  PROVE  Lifecycle!Next
<1> DEFINE ph == [d \in Conns |-> Phase(d)]
<1>1. ph' = [ph EXCEPT ![c] = Phase(c)'] /\ ph[c] = Phase(c)
  OBVIOUS
<1>2. Lifecycle!Open(c) \/ Lifecycle!Close(c) \/ Lifecycle!Release(c)
  BY <1>1 DEF Lifecycle!Open, Lifecycle!Close, Lifecycle!Release, Lifecycle!Step
<1> QED
  BY <1>2 DEF Lifecycle!Next

\* Phase depends on the callback lists, the table and the timer nodes only.
LEMMA PhaseKept ==
  ASSUME NEW d \in Conns, UNCHANGED <<queue, calls, fd>>,
         nodes'[d] = nodes[d], (InTable(d)' <=> InTable(d))
  PROVE  Phase(d)' = Phase(d)
BY DEF Phase, Created

\* A connection in the table is "open", whatever its timer does.
LEMMA OpenKept ==
  ASSUME NEW c \in Conns, IInv, IInv', InTable(c), UNCHANGED <<queue, calls, fd, table>>,
         \A d \in Conns \ {c} : nodes'[d] = nodes[d]
  PROVE  UNCHANGED Lifecycle!vars
<1>1. \A d \in Conns : InTable(d)' <=> InTable(d)
  BY DEF InTable, Created
<1>2. Phase(c) = "open" /\ Phase(c)' = "open"
  <2>1. Phase(c) = "open"
    BY PhaseValues
  <2>2. InTable(c)' /\ c \notin queue' \cup calls' /\ Created(c)'
    BY <1>1, NotQueued DEF Created
  <2> QED
    BY <2>1, <2>2 DEF Phase
<1>3. \A d \in Conns \ {c} : Phase(d)' = Phase(d)
  BY <1>1, PhaseKept
<1> QED
  BY <1>2, <1>3, SamePhases

\* EpollDel takes an open connection to "closed" while its timer node holds the
\* object, to "released" otherwise.
LEMMA OpenClosed ==
  ASSUME NEW c \in Conns, NEW broken \in BOOLEAN, IInv, IInv', InTable(c), EpollDel(c, broken),
         UNCHANGED <<queue, calls, fd>>,
         \A d \in Conns \ {c} : nodes'[d] = nodes[d]
  PROVE  Lifecycle!Next
<1>1. \A d \in Conns : InTable(d)' <=> InTable(d) /\ d # c
  BY WorkerAssumption DEF EpollDel, InTable, Created, IInv, TypeOK
<1>2. Phase(c) = "open" /\ Phase(c)' \in {"closed", "released"}
  <2>1. Phase(c) = "open"
    BY PhaseValues
  <2>2. ~InTable(c)' /\ c \notin queue' \cup calls' /\ Created(c)'
    BY <1>1, NotQueued DEF Created
  <2> QED
    BY <2>1, <2>2 DEF Phase
<1>3. \A d \in Conns \ {c} : Phase(d)' = Phase(d)
  BY <1>1, PhaseKept
<1> QED
  BY <1>2, <1>3, OnePhase

\* Accept gives a number whose last holder has been released.
LEMMA AcceptRefines ==
  ASSUME NEW c \in Conns, NEW f \in Fds, IInv, IInv', Accept(c, f)
  PROVE  Lifecycle!Next
<1> DEFINE ph == [d \in Conns |-> Phase(d)]
<1>1. f # None /\ fd' = [fd EXCEPT ![c] = f] /\ fd'[c] = f /\ \A d \in Conns \ {c} : fd'[d] = fd[d]
  BY WorkerAssumption DEF Accept, IInv, TypeOK
<1>2. Phase(c) = "unborn" /\ Phase(c)' = "queued"
  <2>1. ~Created(c) /\ Created(c)' /\ c \in queue'
    BY <1>1 DEF Accept, Created
  <2> QED
    BY <2>1 DEF Phase
<1>3. \A d \in Conns \ {c} : Phase(d)' = Phase(d)
  <2> SUFFICES ASSUME NEW d \in Conns \ {c} PROVE Phase(d)' = Phase(d)
    OBVIOUS
  <2>1. /\ (Created(d)' <=> Created(d)) /\ (InTable(d)' <=> InTable(d))
        /\ (d \in queue' \cup calls' <=> d \in queue \cup calls) /\ nodes' = nodes
    BY <1>1 DEF Accept, Created, InTable, httpVars
  <2> QED
    BY <2>1 DEF Phase
<1>4. \A d \in Conns : fd[d] = f => Phase(d) = "released"
  BY <1>1, PhaseValues DEF Accept, Created
<1>5. ph' = [ph EXCEPT ![c] = "queued"] /\ ph[c] = "unborn" /\ \A d \in Conns : ph[d] = Phase(d)
  BY <1>2, <1>3
<1>6. Lifecycle!Accept(c, f)
  BY <1>1, <1>4, <1>5 DEF Lifecycle!Accept, Lifecycle!Step
<1> QED
  BY <1>6 DEF Lifecycle!Next

\* Http::Init opens what was queued.
LEMMA HttpInitRefines ==
  ASSUME NEW c \in Conns, IInv, IInv', HttpInit(c)
  PROVE  Lifecycle!Next
<1>1. /\ c \in calls /\ UNCHANGED <<queue, fd>> /\ calls' = calls \ {c}
      /\ \A d \in Conns \ {c} : nodes'[d] = nodes[d]
      /\ Created(c) /\ fd[c] \in Fds
      /\ mask'[c] # {} /\ mask' = [mask EXCEPT ![c] = {"IN"}]
  BY DEF HttpInit, Register, IInv, Callbacks, Created, TypeOK
<1>2. \A d \in Conns \ {c} : InTable(d)' <=> InTable(d)
  BY <1>1 DEF IInv, Owners, TypeOK
<1>3. InTable(c)'
  BY <1>1 DEF IInv, Owners
<1>4. Phase(c) = "queued" /\ Phase(c)' = "open"
  <2>1. c \notin queue' \cup calls' /\ Created(c)'
    BY <1>1 DEF IInv, Callbacks, Created
  <2> QED
    BY <1>1, <1>3, <2>1, PhaseValues DEF Phase
<1>5. \A d \in Conns \ {c} : Phase(d)' = Phase(d)
  BY <1>1, <1>2 DEF Phase, Created
<1> QED
  BY <1>1, <1>4, <1>5, OnePhase

\* HandleCurrentConn after the error path: the timer's reference is the last.
LEMMA AfterCloseRefines ==
  ASSUME NEW c \in Conns, IInv, IInv', ConnAfterClose(c)
  PROVE  Lifecycle!Next \/ UNCHANGED Lifecycle!vars
<1>1. /\ pc = "conn" /\ cur = c /\ UNCHANGED <<queue, calls, fd, table>>
      /\ http[c].hasError \/ http[c].connectionState = "DISCONNECTED"
      /\ SeparateTimer(c)
  BY DEF ConnAfterClose, ConnStep
<1>2. ~InTable(c) /\ http[c].hasError
  BY <1>1 DEF IInv, Dispatching, Conditions, Consistent
<1>3. Created(c) /\ c \notin queue \cup calls
  BY <1>2, NotQueued
<1>4. nodes'[c] = 0 /\ \A d \in Conns \ {c} : nodes'[d] = nodes[d]
  BY <1>1, SeparateTimerLeaves DEF IInv, TypeOK
<1>5. \A d \in Conns : InTable(d)' <=> InTable(d)
  BY <1>1 DEF InTable, Created
<1>6. Phase(c) \in {"closed", "released"} /\ Phase(c)' = "released"
  BY <1>1, <1>2, <1>3, <1>4, <1>5 DEF Phase, Created
<1>7. \A d \in Conns \ {c} : Phase(d)' = Phase(d)
  BY <1>1, <1>4, <1>5, PhaseKept
<1>8. CASE Phase(c) = "closed"
  BY <1>1, <1>6, <1>7, <1>8, OnePhase
<1>9. CASE Phase(c) = "released"
  BY <1>1, <1>6, <1>7, <1>9, SamePhases
<1> QED
  BY <1>6, <1>8, <1>9

\* Every step of the worker is a step of the life cycle or leaves it alone.
LEMMA StepRefines ==
  ASSUME IInv, IInv', [Next]_vars
  PROVE  [Lifecycle!Next]_(Lifecycle!vars)
<1>1. ASSUME UNCHANGED <<queue, calls, fd, table, nodes>>
      PROVE  UNCHANGED Lifecycle!vars
  <2>1. \A d \in Conns : Phase(d)' = Phase(d)
    BY <1>1 DEF Phase, Created, InTable
  <2> QED
    BY <1>1, <2>1, SamePhases
<1>2. CASE UNCHANGED vars
  BY <1>1, <1>2 DEF vars, loopVars, httpVars
<1>3. CASE EpollWait \/ CallbacksDone \/ ExpireDone
  BY <1>1, <1>3 DEF EpollWait, CallbacksDone, ExpireDone, httpVars
<1>4. CASE TakeCallbacks
  <2>1. queue' \cup calls' = queue \cup calls /\ UNCHANGED <<fd, table, nodes>>
    BY <1>4 DEF TakeCallbacks, httpVars, IInv, Dispatching
  <2>2. \A d \in Conns : Phase(d)' = Phase(d)
    BY <2>1 DEF Phase, Created, InTable
  <2> QED
    BY <2>1, <2>2, SamePhases
<1>5. ASSUME NEW c \in Conns, DispatchHangup(c) \/ DispatchWrite(c) \/ DispatchRead(c)
      PROVE  UNCHANGED Lifecycle!vars
  BY <1>1, <1>5 DEF DispatchHangup, DispatchWrite, DispatchRead, httpVars
<1>6. ASSUME NEW c \in Conns, HandleRead(c)
      PROVE  Lifecycle!Next \/ UNCHANGED Lifecycle!vars
  <2>1. InTable(c) /\ UNCHANGED <<queue, calls, fd>>
    BY <1>6 DEF HandleRead, IInv, Dispatching
  <2>2. ASSUME NEW g, ReadFailed(c, g)
        PROVE  Lifecycle!Next
    <3>1. Broken(c) \in BOOLEAN /\ EpollDel(c, Broken(c)) /\ UNCHANGED nodes
      BY <2>2 DEF ReadFailed, Broken
    <3> QED
      BY <2>1, <3>1, OpenClosed
  <2>3. ASSUME NEW g, RequestDone(c, g) \/ NeedMore(c, g)
        PROVE  UNCHANGED Lifecycle!vars
    <3>1. UNCHANGED table /\ \A d \in Conns \ {c} : nodes'[d] = nodes[d]
      BY <2>3 DEF RequestDone, NeedMore, SeparateTimer, IInv, TypeOK
    <3> QED
      BY <2>1, <3>1, OpenKept
  <2> QED
    BY <1>6, <2>2, <2>3 DEF HandleRead
<1>7. ASSUME NEW c \in Conns, HandleCurrentConn(c)
      PROVE  Lifecycle!Next \/ UNCHANGED Lifecycle!vars
  <2>1. /\ UNCHANGED <<queue, calls, fd>> /\ (~http[c].hasError => InTable(c))
    BY <1>7 DEF HandleCurrentConn, ConnWantsOutput, ConnIdles, ConnCloses, ConnDrains,
       ConnAfterClose, ConnStep, IInv, Dispatching
  <2>2. CASE ConnWantsOutput(c) \/ ConnIdles(c) \/ ConnDrains(c)
    <3>1. InTable(c) /\ UNCHANGED table /\ \A d \in Conns \ {c} : nodes'[d] = nodes[d]
      BY <2>1, <2>2 DEF ConnWantsOutput, ConnIdles, ConnDrains, UpdateEpoller, SeparateTimer, IInv,
         TypeOK
    <3> QED
      BY <2>1, <3>1, OpenKept
  <2>3. CASE ConnCloses(c)
    <3>1. /\ InTable(c) /\ EpollDel(c, FALSE) /\ \A d \in Conns \ {c} : nodes'[d] = nodes[d]
      BY <2>1, <2>3 DEF ConnCloses, SeparateTimer, IInv, TypeOK
    <3> QED
      BY <2>1, <3>1, OpenClosed
  <2>4. CASE ConnAfterClose(c)
    BY <2>4, AfterCloseRefines
  <2> QED
    BY <1>7, <2>2, <2>3, <2>4 DEF HandleCurrentConn
<1>8. ASSUME NEW c \in Conns, Expire(c)
      PROVE  Lifecycle!Next
  <2>1. /\ pc = "expire" /\ nodes[c] = 1 /\ UNCHANGED <<queue, calls, fd>> /\ EpollDel(c, FALSE)
        /\ \A d \in Conns \ {c} : nodes'[d] = nodes[d]
    <3>1. pc = "expire" /\ UNCHANGED <<queue, calls, fd>> /\ EpollDel(c, FALSE)
      BY <1>8 DEF Expire, NodeDies, loopVars
    <3>2. nodes[c] = 1
      BY <1>8 DEF Expire, NodeDies, IInv, Timers, TypeOK
    <3>3. \A d \in Conns \ {c} : nodes'[d] = nodes[d]
      BY <1>8 DEF Expire, NodeDies, IInv, TypeOK
    <3> QED
      BY <3>1, <3>2, <3>3
  <2>2. InTable(c)
    BY <2>1, WorkerAssumption DEF IInv, Dispatching, Conditions, Consistent
  <2> QED
    BY <2>1, <2>2, OpenClosed
<1>9. CASE Environment
  <2>1. ASSUME NEW c \in Conns, PeerSends(c) \/ PeerReads(c) \/ PeerShutsDown(c) \/ PeerResets(c)
        PROVE  UNCHANGED Lifecycle!vars
    BY <1>1, <2>1 DEF PeerSends, PeerReads, PeerShutsDown, PeerResets, loopVars, httpVars
  <2> QED
    BY <1>9, <2>1, AcceptRefines DEF Environment
<1> QED
  BY <1>2, <1>3, <1>4, <1>5, <1>6, <1>7, <1>8, <1>9, HttpInitRefines DEF Next, LoopStep

\* The worker implements the life cycle, for any number of connections and
\* descriptors: opened once, closed once, and no number held twice.
THEOREM LifecycleHolds == Spec => ImplementsLifecycle
<1>1. Init => Lifecycle!Init
  <2> SUFFICES ASSUME Init PROVE Lifecycle!Init
    OBVIOUS
  <2>1. \A c \in Conns : Phase(c) = "unborn"
    BY DEF Init, Phase, Created
  <2> QED
    BY <2>1 DEF Init, Lifecycle!Init
<1>2. IInv /\ IInv' /\ [Next]_vars => [Lifecycle!Next]_(Lifecycle!vars)
  BY StepRefines
<1> QED
  BY <1>1, <1>2, Invariance, PTL DEF Spec, ImplementsLifecycle, Lifecycle!Spec

=============================================================================
