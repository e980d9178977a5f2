----------------------------- MODULE EdgeProofs -----------------------------
(***************************************************************************)
(* Proofs about Worker's use of edge-triggered epoll, for every set of     *)
(* connections and every size: EdgeInv is inductive, so no event is lost   *)
(* and output that is left is waited for.                                  *)
(***************************************************************************)
EXTENDS WorkerProofs

-----------------------------------------------------------------------------
(* What the handlers do to the output and to the Channel.                  *)

\* Parsing adds output only by finishing a request, and never touches the Channel.
LEMMA ParsedOutput ==
  ASSUME NEW h \in HttpObject, NEW g \in Parsed(h)
  PROVE  /\ g.toListen = h.toListen
         /\ g.processState = "FINISH" \/ g.writeBuffer = h.writeBuffer
<1>1. ASSUME NEW x \in HttpObject, NEW y \in AtURI(x)
      PROVE  y \in HttpObject /\ y.toListen = x.toListen /\ y.writeBuffer = x.writeBuffer
  BY ZenonT(30), <1>1 DEF AtURI, ParseURI, Refused, HttpObject, ProcessState
<1>2. ASSUME NEW x \in HttpObject, NEW y \in AtHeaders(x)
      PROVE  y \in HttpObject /\ y.toListen = x.toListen /\ y.writeBuffer = x.writeBuffer
  <2>1. CASE y = x
    BY <2>1
  <2>2. CASE y = Refused(x)
    BY <2>2 DEF Refused, HttpObject
  <2>3. ASSUME NEW next \in {"PROCESS", "BODY"}, NEW left \in 0 .. x.readBuffer - 1,
               y = HeadersDone(x, next, left)
        PROVE  y \in HttpObject /\ y.toListen = x.toListen /\ y.writeBuffer = x.writeBuffer
    <3>1. left \in Nat /\ next \in ProcessState
      BY DEF ProcessState
    <3> QED
      BY <2>3, <3>1 DEF HeadersDone, HttpObject
  <2> QED
    BY <1>2, <2>1, <2>2, <2>3 DEF AtHeaders, ParseHeaders
<1>3. ASSUME NEW x \in HttpObject, NEW y \in AtProcess(x)
      PROVE  /\ y.toListen = x.toListen
             /\ y.processState = "FINISH" \/ y.writeBuffer = x.writeBuffer
  <2>1. CASE y = x
    BY <2>1
  <2>2. CASE y = Refused(x)
    BY <2>2 DEF Refused, HttpObject
  <2>3. CASE \E size \in 1 .. MaxResponse, ka \in BOOLEAN : y = Answered(x, size, ka)
    BY <2>3 DEF Answered, HttpObject
  <2> QED
    BY <1>3, <2>1, <2>2, <2>3 DEF AtProcess, ProcessRequest
<1>4. PICK x \in AtURI(h) : \E y \in AtHeaders(x) : g \in AtProcess(y)
  BY DEF Parsed
<1>5. PICK y \in AtHeaders(x) : g \in AtProcess(y)
  BY <1>4
<1> QED
  BY <1>1, <1>2, <1>3, <1>4, <1>5

LEMMA ReceivedOutput ==
  ASSUME NEW h \in HttpObject, NEW n \in Nat, NEW fin \in BOOLEAN, NEW rst \in BOOLEAN,
         NEW g \in Received(h, n, fin, rst)
  PROVE  /\ g.toListen = h.toListen
         /\ g.processState = "FINISH" \/ g.writeBuffer = h.writeBuffer
<1> DEFINE full    == [h EXCEPT !.readBuffer = @ + n]
           halfway == [full EXCEPT !.connectionState = "DISCONNECTING"]
<1>1. full \in HttpObject /\ full.toListen = h.toListen /\ full.writeBuffer = h.writeBuffer
  BY DEF HttpObject
<1>2. /\ halfway \in HttpObject
      /\ halfway.toListen = h.toListen /\ halfway.writeBuffer = h.writeBuffer
  <2> HIDE DEF full
  <2>1. "DISCONNECTING" \in ConnectionState
    BY DEF ConnectionState
  <2> QED
    BY <1>1, <2>1 DEF HttpObject
<1>3. CASE g \in Parsed(full) \/ g \in Parsed(halfway)
  <2> HIDE DEF full, halfway
  <2> QED
    BY <1>1, <1>2, <1>3, ParsedOutput
<1>4. CASE g = halfway
  BY <1>2, <1>4
<1>5. CASE g = Refused(full) \/ g = [h EXCEPT !.readBuffer = 0]
  BY <1>1, <1>5 DEF Refused, HttpObject
<1> QED
  BY <1>3, <1>4, <1>5 DEF Received

\* HandleWrite asks for EPOLLOUT when something is left.
LEMMA HandleWriteOutput ==
  ASSUME NEW h \in HttpObject, NEW n \in Nat, ~h.hasError, h.connectionState # "DISCONNECTED"
  PROVE  /\ HandleWrite(h, n).writeBuffer > 0 => "OUT" \in HandleWrite(h, n).toListen
         /\ HandleWrite(h, n).writeBuffer > 0 => h.writeBuffer > 0
BY DEF HandleWrite, Written, HttpObject, Interest

-----------------------------------------------------------------------------
(* Connections a step does not touch.                                      *)

LEMMA UntouchedWatching ==
  ASSUME NEW d \in Conns, Watching(d),
         http'[d] = http[d], mask'[d] = mask[d], ready[d] => ready'[d],
         inq'[d] = inq[d], room'[d] = room[d], peer'[d] = peer[d],
         InTable(d)' <=> InTable(d), d = cur' <=> d = cur,
         d \in active' <=> d \in active, revents'[d] = revents[d]
  PROVE  Watching(d)'
<1>1. Poll(d)' = Poll(d) /\ (Serving(d)' <=> Serving(d))
  BY DEF Poll, Serving
<1> QED
  BY <1>1 DEF Watching

\* A closed connection has nothing left to watch.
LEMMA ClosedWatching ==
  ASSUME IInv', NEW c \in Conns, ~InTable(c)', http'[c].connectionState # "CONNECTED"
  PROVE  Watching(c)'
BY DEF IInv, Owners, Dispatching, Watching, Serving

-----------------------------------------------------------------------------
(* One lemma for each action, or for a few of a kind.                      *)

\* A peer's action that makes the socket ready for what is asked makes an edge.
LEMMA EnvironmentWatching ==
  ASSUME EdgeInv, NEW c \in Conns,
         PeerSends(c) \/ PeerReads(c) \/ PeerShutsDown(c) \/ PeerResets(c)
  PROVE  \A d \in Conns : Watching(d)'
<1>1. /\ UNCHANGED <<loopVars, httpVars, mask>>
      /\ inq \in [Conns -> Nat] /\ room \in [Conns -> Nat]
      /\ peer \in [Conns -> PeerState] /\ ready \in [Conns -> BOOLEAN]
  BY DEF PeerSends, PeerReads, PeerShutsDown, PeerResets, EdgeInv, IInv, TypeOK
<1>2. \A d \in Conns : InTable(d)' <=> InTable(d)
  BY <1>1 DEF InTable, Created, httpVars
<1>3. ASSUME NEW d \in Conns \ {c}
      PROVE  Watching(d)'
  <2>1. inq'[d] = inq[d] /\ room'[d] = room[d] /\ peer'[d] = peer[d] /\ ready'[d] = ready[d]
    BY <1>1 DEF PeerSends, PeerReads, PeerShutsDown, PeerResets, Edge
  <2> QED
    BY <1>1, <1>2, <2>1, UntouchedWatching DEF EdgeInv, loopVars, httpVars
<1>4. Watching(c)'
  <2>1. /\ http' = http /\ mask' = mask /\ cur' = cur /\ active' = active /\ revents' = revents
        /\ (InTable(c)' <=> InTable(c)) /\ (Serving(c)' <=> Serving(c))
        /\ Watching(c)
    BY <1>1, <1>2 DEF EdgeInv, loopVars, httpVars, Serving
  <2>2. peer[c] = "rst" => peer'[c] = "rst"
    BY <1>1 DEF PeerSends, PeerReads, PeerShutsDown, PeerResets
  <2>3. ASSUME Serving(c), c # cur, c \notin active, peer'[c] # "rst",
               Poll(c)' \cap mask[c] # {}
        PROVE  ready'[c]
    <3>1. mask[c] \in {{"IN"}, {"OUT"}}
      BY <2>1, <2>3 DEF Watching, Poll
    <3>2. Poll(c) \cap mask[c] # {} => ready[c]
      BY <2>1, <2>2, <2>3 DEF Watching
    <3>3. CASE PeerSends(c)
      BY <1>1, <2>3, <3>1, <3>2, <3>3 DEF PeerSends, Edge, Poll
    <3>4. CASE PeerReads(c)
      <4>1. CASE room[c] = 0
        BY <1>1, <2>3, <3>1, <3>2, <3>4, <4>1 DEF PeerReads, Edge, Poll
      <4>2. CASE room[c] # 0
        <5>1. Poll(c)' \cap mask[c] = Poll(c) \cap mask[c]
          BY <1>1, <3>1, <3>4, <4>2 DEF PeerReads, Poll
        <5> QED
          BY <2>3, <3>2, <3>4, <4>2, <5>1 DEF PeerReads
      <4> QED
        BY <4>1, <4>2
    <3>5. CASE PeerShutsDown(c)
      BY <1>1, <2>3, <3>1, <3>2, <3>5 DEF PeerShutsDown, Edge, Poll
    <3>6. CASE PeerResets(c)
      BY <1>1, <2>3, <3>6 DEF PeerResets
    <3> QED
      BY <3>3, <3>4, <3>5, <3>6
  <2> QED
    BY <2>1, <2>2, <2>3 DEF Watching
<1> QED
  BY <1>3, <1>4

\* A new connection is in no table.
LEMMA AcceptWatching ==
  ASSUME EdgeInv, NEW c \in Conns, NEW f \in Fds, Accept(c, f)
  PROVE  \A d \in Conns : Watching(d)'
<1>1. /\ fd[c] = None /\ fd' = [fd EXCEPT ![c] = f] /\ fd \in [Conns -> Fds \cup {None}]
      /\ UNCHANGED <<http, table, active, revents, cur, kernelVars>>
  BY DEF Accept, Created, EdgeInv, IInv, TypeOK
<1>2. \A d \in Conns : InTable(d)' <=> InTable(d)
  BY <1>1, WorkerAssumption DEF InTable, Created, EdgeInv, IInv, Owners
<1> QED
  BY <1>1, <1>2, UntouchedWatching DEF EdgeInv, kernelVars

\* epoll_wait takes every edge: what it does not return was not ready.
LEMMA EpollWaitWatching ==
  ASSUME EdgeInv, EpollWait
  PROVE  \A d \in Conns : Watching(d)'
<1> SUFFICES ASSUME NEW d \in Conns
             PROVE  Watching(d)'
  OBVIOUS
<1>1. /\ UNCHANGED <<cur, fd, table, mask, inq, room, peer>>
      /\ active' = {c \in Conns : ready[c] /\ Reported(c) # {}}
      /\ active = {} /\ cur = None /\ d # cur /\ d # cur'
      /\ http[d] \in HttpObject /\ Watching(d)
  BY WorkerAssumption DEF EpollWait, EdgeInv, IInv, TypeOK, Dispatching
<1>2. /\ InTable(d)' <=> InTable(d)
      /\ Poll(d)' = Poll(d)
  BY <1>1 DEF InTable, Created, Poll
<1>3. CASE d \in active'
  <2>1. /\ http'[d] = [http[d] EXCEPT !.toListen = {}] /\ revents'[d] = Reported(d)
        /\ http'[d].toListen = {} /\ http'[d].connectionState = http[d].connectionState
        /\ http'[d].writeBuffer = http[d].writeBuffer /\ http'[d].hasError = http[d].hasError
    BY <1>1, <1>3 DEF EpollWait, HttpObject
  <2>2. revents'[d] \subseteq mask[d] \cup {"HUP"} /\ ("HUP" \in revents'[d] => peer[d] = "rst")
    BY <1>1, <2>1 DEF Reported, Poll, Watching
  <2>3. Serving(d)' <=> Serving(d)
    BY <1>2, <2>1 DEF Serving
  <2> QED
    BY <1>1, <1>2, <1>3, <2>1, <2>2, <2>3 DEF Watching
<1>4. CASE d \notin active'
  <2>1. http'[d] = http[d]
    BY <1>4 DEF EpollWait
  <2>2. Serving(d)' <=> Serving(d)
    BY <1>2, <2>1 DEF Serving
  <2>3. Poll(d) \cap mask[d] # {} => ~ready[d]
    BY <1>1, <1>4 DEF Reported
  <2> QED
    BY <1>1, <1>2, <1>4, <2>1, <2>2, <2>3 DEF Watching
<1> QED
  BY <1>3, <1>4

\* HandleWrite runs before HandleRead, on a mask of EPOLLOUT; HandleRead without
\* it on one of EPOLLIN, with no output left.
LEMMA DispatchWatching ==
  ASSUME EdgeInv, NEW c \in Conns, DispatchHangup(c) \/ DispatchWrite(c) \/ DispatchRead(c)
  PROVE  \A d \in Conns : Watching(d)'
<1>1. /\ pc = "dispatch" /\ cur = None /\ c \in active /\ c # None /\ InTable(c)
      /\ active' = active \ {c} /\ UNCHANGED <<revents, fd, table, mask, ready, inq, peer>>
      /\ http[c] \in HttpObject /\ room[c] \in Nat /\ http \in [Conns -> HttpObject]
      /\ room \in [Conns -> Nat]
  BY WorkerAssumption DEF DispatchHangup, DispatchWrite, DispatchRead, EdgeInv, IInv, TypeOK,
     Dispatching, httpVars, kernelVars
<1>2. \A d \in Conns : InTable(d)' <=> InTable(d)
  BY <1>1 DEF InTable, Created
<1>3. ASSUME NEW d \in Conns \ {c}
      PROVE  Watching(d)'
  <2>1. /\ http'[d] = http[d] /\ room'[d] = room[d] /\ d # None /\ cur' \in {None, c}
        /\ (d \in active' <=> d \in active)
    BY <1>1, WorkerAssumption DEF DispatchHangup, DispatchWrite, DispatchRead, httpVars, kernelVars
  <2> QED
    BY <1>1, <1>2, <2>1, UntouchedWatching DEF EdgeInv
<1>4. /\ Watching(c) /\ http[c].toListen = {} /\ c \notin active'
      /\ revents[c] \subseteq mask[c] \cup {"HUP"} /\ ("HUP" \in revents[c] => peer[c] = "rst")
      /\ ~http[c].hasError /\ http[c].connectionState # "DISCONNECTED"
  BY <1>1 DEF EdgeInv, Watching, IInv, Conditions, Consistent
<1>5. Watching(c)'
  <2>1. CASE DispatchHangup(c)
    <3>1. peer'[c] = "rst" /\ http' = http /\ cur' = None /\ c # cur'
      BY <1>1, <1>4, <2>1 DEF DispatchHangup, httpVars
    <3> QED
      BY <1>1, <1>2, <1>4, <3>1 DEF Watching, Serving
  <2>2. CASE DispatchRead(c)
    <3>1. cur' = c /\ http' = http /\ "IN" \in mask[c]
      BY <1>4, <2>2 DEF DispatchRead, httpVars
    <3>2. Serving(c) => http[c].writeBuffer = 0
      <4>1. mask[c] = {"IN"}
        BY <1>4, <3>1 DEF Watching
      <4> QED
        BY <1>1, <1>4, <4>1 DEF Watching, HttpObject
    <3> QED
      BY <1>1, <1>2, <1>4, <3>1, <3>2 DEF Watching, Serving
  <2>3. CASE DispatchWrite(c)
    <3>1. cur' = c /\ http'[c] = HandleWrite(http[c], room[c])
      BY <1>1, <2>3 DEF DispatchWrite
    <3>2. http'[c].writeBuffer > 0 => "OUT" \in http'[c].toListen
      BY <1>1, <1>4, <3>1, HandleWriteOutput
    <3> QED
      BY <1>1, <1>2, <1>4, <3>1, <3>2 DEF Watching
  <2> QED
    BY <2>1, <2>2, <2>3
<1> QED
  BY <1>3, <1>5

\* HandleRead overwrites what HandleWrite asked for with the events it found on
\* entry; but output of an earlier turn had been among those.
LEMMA HandleReadWatching ==
  ASSUME EdgeInv, NEW c \in Conns, HandleRead(c)
  PROVE  \A d \in Conns : Watching(d)'
<1>1. /\ pc = "read" /\ cur = c /\ cur' = c /\ InTable(c) /\ IInv /\ Watching(c)
      /\ UNCHANGED <<active, revents, fd, peer>>
      /\ http \in [Conns -> HttpObject] /\ inq \in [Conns -> Nat] /\ room \in [Conns -> Nat]
      /\ mask \in [Conns -> SUBSET Interest] /\ ready \in [Conns -> BOOLEAN]
  BY DEF HandleRead, EdgeInv, IInv, TypeOK, Dispatching
<1>2. c \notin active /\ ~http[c].hasError /\ http[c].connectionState # "DISCONNECTED"
  BY <1>1 DEF IInv, Dispatching, Conditions, Consistent
<1>3. IInv'
  BY <1>1, HandleReadStep
<1>4. PICK g \in Received(http[c], inq[c], peer[c] = "fin", peer[c] = "rst") :
        ReadFailed(c, g) \/ RequestDone(c, g) \/ NeedMore(c, g)
  BY DEF HandleRead
<1>5. /\ g \in HttpObject /\ g.connectionState \in {http[c].connectionState, "DISCONNECTING"}
      /\ g.toListen = http[c].toListen
      /\ g.processState = "FINISH" \/ g.writeBuffer = http[c].writeBuffer
  <2>1. /\ http[c] \in HttpObject /\ inq[c] \in Nat
        /\ (peer[c] = "fin") \in BOOLEAN /\ (peer[c] = "rst") \in BOOLEAN
    BY <1>1
  <2>2. g \in HttpObject /\ g.connectionState \in {http[c].connectionState, "DISCONNECTING"}
    BY <1>4, <2>1, ReceivedKeeps
  <2>3. /\ g.toListen = http[c].toListen
        /\ g.processState = "FINISH" \/ g.writeBuffer = http[c].writeBuffer
    BY <1>4, <2>1, ReceivedOutput
  <2> QED
    BY <2>2, <2>3
<1>6. \A d \in Conns : d # c => (InTable(d)' <=> InTable(d)) /\ mask'[d] = mask[d] /\ ready'[d] = ready[d]
  <2>1. CASE ReadFailed(c, g)
    <3>1. nodes' = nodes /\ EpollDel(c, Broken(c)) /\ UNCHANGED <<queue, calls, fd>>
      BY <2>1 DEF ReadFailed, HandleRead
    <3>2. /\ nodes' \in [Conns -> Nat] /\ \A d \in Conns : nodes'[d] <= nodes[d]
          /\ Broken(c) \in BOOLEAN
      BY <1>1, <3>1 DEF IInv, TypeOK, Broken
    <3>3. \A d \in Conns : InTable(d)' <=> InTable(d) /\ d # c
      BY <1>1, <3>1, <3>2, EpollDelStep
    <3> QED
      BY <1>1, <3>1, <3>3 DEF EpollDel
  <2>2. CASE RequestDone(c, g) \/ NeedMore(c, g)
    BY <1>1, <2>2 DEF RequestDone, NeedMore, InTable, Created
  <2> QED
    BY <1>4, <2>1, <2>2
<1>7. ASSUME NEW d \in Conns \ {c}
      PROVE  Watching(d)'
  <2>1. http'[d] = http[d] /\ room'[d] = room[d] /\ inq'[d] = inq[d]
    BY <1>1, <1>4 DEF HandleRead, ReadFailed, RequestDone, NeedMore
  <2> QED
    BY <1>1, <1>6, <2>1, UntouchedWatching DEF EdgeInv
<1>8. Watching(c)'
  <2>1. CASE ReadFailed(c, g)
    <3>1. http'[c].connectionState = "DISCONNECTED"
      BY <1>1, <1>5, <2>1, CloseKeeps DEF ReadFailed
    <3>2. ~InTable(c)'
      <4>1. nodes' = nodes /\ EpollDel(c, Broken(c)) /\ UNCHANGED <<queue, calls, fd>>
        BY <2>1 DEF ReadFailed, HandleRead
      <4>2. /\ nodes' \in [Conns -> Nat] /\ \A d \in Conns : nodes'[d] <= nodes[d]
            /\ Broken(c) \in BOOLEAN
        BY <1>1, <4>1 DEF IInv, TypeOK, Broken
      <4> QED
        BY <1>1, <4>1, <4>2, EpollDelStep
    <3> QED
      BY <1>3, <3>1, <3>2, ClosedWatching
  <2>2. CASE RequestDone(c, g) \/ NeedMore(c, g)
    <3> DEFINE w == HandleWrite(g, room[c])
    <3>1. /\ ~g.hasError /\ g.connectionState # "DISCONNECTED"
          /\ w \in HttpObject
          /\ w.writeBuffer > 0 => "OUT" \in w.toListen /\ g.writeBuffer > 0
          /\ w.connectionState = g.connectionState /\ ~w.hasError
      BY <1>1, <1>2, <1>5, <2>2, HandleWriteKeeps, HandleWriteOutput DEF RequestDone, NeedMore
    <3>2. (InTable(c)' <=> InTable(c)) /\ mask' = mask
      BY <1>1, <2>2 DEF RequestDone, NeedMore, InTable, Created
    <3> HIDE DEF w
    <3>3. http'[c].writeBuffer > 0 /\ http'[c].connectionState = "CONNECTED" =>
            "OUT" \in http'[c].toListen
      <4>1. CASE RequestDone(c, g)
        <5>1. http'[c] = ResetRequest(w)
          BY <1>1, <4>1 DEF RequestDone, w
        <5> QED
          BY <3>1, <5>1 DEF ResetRequest, HttpObject
      <4>2. CASE NeedMore(c, g)
        <5>1. http'[c] = AskForMore(w, http[c].toListen) /\ g.processState # "FINISH"
          BY <1>1, <4>2 DEF NeedMore, w
        <5>2. http'[c].writeBuffer = w.writeBuffer
              /\ http'[c].connectionState = w.connectionState
              /\ http'[c].toListen = http[c].toListen \cup {"IN"}
          BY <3>1, <5>1 DEF AskForMore, HttpObject
        <5>3. SUFFICES ASSUME w.writeBuffer > 0, w.connectionState = "CONNECTED"
                       PROVE  "OUT" \in http[c].toListen
          BY <5>2
        <5>4. http[c].writeBuffer > 0 /\ http[c].connectionState = "CONNECTED"
          BY <1>5, <3>1, <5>1, <5>3
        <5> QED
          BY <1>1, <5>4 DEF Watching, Serving
      <4> QED
        BY <2>2, <4>1, <4>2
    <3> QED
      BY <1>1, <1>2, <3>2, <3>3 DEF Watching, Serving
  <2> QED
    BY <1>4, <2>1, <2>2
<1> QED
  BY <1>7, <1>8

\* EPOLL_CTL_MOD polls the socket again after everything the handlers did to it.
LEMMA HandleCurrentConnWatching ==
  ASSUME EdgeInv, NEW c \in Conns, HandleCurrentConn(c)
  PROVE  \A d \in Conns : Watching(d)'
<1>1. /\ pc = "conn" /\ cur = c /\ c # None /\ cur' = None /\ IInv /\ Watching(c)
      /\ UNCHANGED <<queue, calls, active, revents, fd, inq, room, peer>>
      /\ http \in [Conns -> HttpObject] /\ nodes \in [Conns -> Nat]
      /\ mask \in [Conns -> SUBSET Interest] /\ ready \in [Conns -> BOOLEAN]
  BY WorkerAssumption DEF HandleCurrentConn, ConnWantsOutput, ConnIdles, ConnCloses, ConnDrains,
     ConnAfterClose, ConnStep, EdgeInv, IInv, TypeOK
<1>2. c \notin active /\ IInv'
  BY <1>1, HandleCurrentConnStep DEF IInv, Dispatching
<1>3. CASE ConnWantsOutput(c) \/ ConnIdles(c)
  <2>1. PICK e \in {{"IN"}, {"OUT"}} :
          /\ http' = [http EXCEPT ![c].toListen = e] /\ Register(c, e) /\ table' = table
          /\ http[c].connectionState = "CONNECTED"
          /\ e = {"IN"} => http[c].toListen = {}
    BY <1>3 DEF ConnWantsOutput, ConnIdles, UpdateEpoller
  <2>2. \A d \in Conns : (InTable(d)' <=> InTable(d)) /\ Poll(d)' = Poll(d)
    BY <1>1, <2>1 DEF InTable, Created, Poll
  <2>3. ASSUME NEW d \in Conns \ {c}
        PROVE  Watching(d)'
    <3>1. http'[d] = http[d] /\ mask'[d] = mask[d] /\ ready'[d] = ready[d] /\ d # cur /\ d # cur'
      BY <1>1, <2>1, WorkerAssumption DEF Register
    <3> QED
      BY <1>1, <2>2, <3>1, UntouchedWatching DEF EdgeInv
  <2>4. Watching(c)'
    <3>1. /\ http'[c].toListen = e /\ http'[c].writeBuffer = http[c].writeBuffer
          /\ http'[c].connectionState = "CONNECTED" /\ mask'[c] = e
          /\ http'[c].hasError = http[c].hasError
      BY <1>1, <2>1 DEF Register, HttpObject
    <3>2. InTable(c)
      BY <1>1, <1>3 DEF IInv, Dispatching, ConnWantsOutput, ConnIdles
    <3>3. http[c].writeBuffer > 0 => e = {"OUT"}
      BY <1>1, <2>1, <3>2 DEF Watching, Serving
    <3>4. Poll(c) \cap e # {} => ready'[c]
      BY <1>1, <2>1 DEF Register
    <3> QED
      BY <1>1, <1>2, <2>1, <2>2, <3>1, <3>2, <3>3, <3>4 DEF Watching, Serving
  <2> QED
    BY <2>3, <2>4
<1>4. CASE ConnCloses(c)
  <2>1. SeparateTimer(c) /\ EpollDel(c, FALSE) /\ http' = [http EXCEPT ![c] = ClosedHttp(http[c])]
        /\ ~http[c].hasError
    BY <1>4 DEF ConnCloses
  <2>2. InTable(c)
    BY <1>1, <2>1 DEF IInv, Dispatching
  <2>3. \A d \in Conns : InTable(d)' <=> InTable(d) /\ d # c
    BY <1>1, <2>1, <2>2, EpollDelStep, SeparateTimerLeaves
  <2>4. ASSUME NEW d \in Conns \ {c}
        PROVE  Watching(d)'
    <3>1. http'[d] = http[d] /\ mask'[d] = mask[d] /\ ready'[d] = ready[d] /\ d # cur /\ d # cur'
      BY <1>1, <2>1, WorkerAssumption DEF EpollDel
    <3> QED
      BY <1>1, <2>3, <3>1, UntouchedWatching DEF EdgeInv
  <2>5. http'[c].connectionState = "DISCONNECTED"
    BY <1>1, <2>1, CloseKeeps
  <2> QED
    BY <1>2, <2>3, <2>4, <2>5, ClosedWatching
<1>5. CASE ConnDrains(c) \/ ConnAfterClose(c)
  <2>1. /\ UNCHANGED <<table, mask, ready>>
        /\ \A d \in Conns \ {c} : http'[d] = http[d]
        /\ http'[c].connectionState # "CONNECTED" \/ http'[c].hasError
        /\ http'[c].hasError = http[c].hasError
    BY <1>1, <1>5 DEF ConnDrains, ConnAfterClose, HttpObject
  <2>2. \A d \in Conns : InTable(d)' <=> InTable(d)
    BY <1>1, <2>1 DEF InTable, Created
  <2>3. ASSUME NEW d \in Conns \ {c}
        PROVE  Watching(d)'
    BY <1>1, <2>1, <2>2, UntouchedWatching, WorkerAssumption DEF EdgeInv
  <2>4. ~Serving(c)'
    BY <1>2, <2>1 DEF Serving, IInv, Conditions, Consistent
  <2>5. Watching(c)'
    BY <1>1, <1>2, <2>1, <2>4 DEF Watching
  <2> QED
    BY <2>3, <2>5
<1> QED
  BY <1>3, <1>4, <1>5 DEF HandleCurrentConn

\* Http::Init registers for EPOLLIN, and there is no output yet.
LEMMA HttpInitWatching ==
  ASSUME EdgeInv, NEW c \in Conns, HttpInit(c)
  PROVE  \A d \in Conns : Watching(d)'
<1>1. /\ cur = None /\ cur' = None /\ active = {} /\ active' = {} /\ c # None /\ IInv
      /\ c \in calls /\ Watching(c) /\ Created(c) /\ Untouched(c)
      /\ UNCHANGED <<revents, fd, inq, room, peer>>
      /\ http' = [http EXCEPT ![c].toListen = {"IN"}] /\ Register(c, {"IN"})
      /\ table' = [table EXCEPT ![fd[c]] = IF @ = None THEN c ELSE @]
      /\ http \in [Conns -> HttpObject] /\ table \in [Fds -> Conns \cup {None}]
      /\ fd \in [Conns -> Fds \cup {None}]
      /\ mask \in [Conns -> SUBSET Interest] /\ ready \in [Conns -> BOOLEAN]
  BY WorkerAssumption DEF HttpInit, EdgeInv, IInv, TypeOK, Dispatching, Callbacks
<1>2. table[fd[c]] = None
  <2>1. SUFFICES ASSUME table[fd[c]] # None
                 PROVE  FALSE
    OBVIOUS
  <2>2. fd[c] \in Fds /\ table[fd[c]] \in Conns /\ fd[table[fd[c]]] = fd[c]
    BY <1>1, <2>1 DEF Created, IInv, Owners
  <2>3. table[fd[c]] # c
    BY <1>1, <2>2 DEF Untouched, InTable
  <2> QED
    BY <1>1, <2>2, <2>3 DEF IInv, Owners, Referenced, InTable, Created
<1>3. \A d \in Conns : InTable(d)' <=> InTable(d) \/ d = c
  BY <1>1, <1>2, WorkerAssumption DEF InTable, Created
<1>4. ASSUME NEW d \in Conns \ {c}
      PROVE  Watching(d)'
  <2>1. http'[d] = http[d] /\ mask'[d] = mask[d] /\ ready'[d] = ready[d]
    BY <1>1 DEF Register
  <2> QED
    BY <1>1, <1>3, <2>1, UntouchedWatching DEF EdgeInv
<1>5. Watching(c)'
  <2>1. http[c].writeBuffer = 0
    BY <1>1 DEF Untouched, Watching
  <2>2. /\ http'[c].toListen = {"IN"} /\ http'[c].writeBuffer = 0 /\ mask'[c] = {"IN"}
        /\ Poll(c) \cap {"IN"} # {} => ready'[c]
        /\ Poll(c)' = Poll(c)
    BY <1>1, <2>1 DEF Register, HttpObject, Poll
  <2> QED
    BY <1>1, <1>3, <2>2 DEF Watching
<1> QED
  BY <1>4, <1>5

\* The connection of a node that dies is closed and taken off epoll.
LEMMA ExpireWatching ==
  ASSUME EdgeInv, NEW c \in Conns, Expire(c)
  PROVE  \A d \in Conns : Watching(d)'
<1>1. /\ pc = "expire" /\ cur = None /\ IInv /\ nodes[c] = 1
      /\ UNCHANGED <<queue, calls, active, revents, cur, fd, inq, room, peer>>
      /\ nodes' = [nodes EXCEPT ![c] = @ - 1] /\ EpollDel(c, FALSE)
      /\ http' = [http EXCEPT ![c] = ClosedHttp(http[c])]
      /\ http \in [Conns -> HttpObject] /\ nodes \in [Conns -> Nat]
      /\ mask \in [Conns -> SUBSET Interest] /\ ready \in [Conns -> BOOLEAN]
  <2>1. /\ pc = "expire" /\ IInv /\ nodes[c] > 0
        /\ UNCHANGED <<queue, calls, active, revents, cur, fd, inq, room, peer>>
        /\ nodes' = [nodes EXCEPT ![c] = @ - 1] /\ EpollDel(c, FALSE)
        /\ http' = [http EXCEPT ![c] = ClosedHttp(http[c])]
    BY DEF Expire, NodeDies, loopVars, EdgeInv
  <2>2. /\ http \in [Conns -> HttpObject] /\ nodes \in [Conns -> Nat]
        /\ mask \in [Conns -> SUBSET Interest] /\ ready \in [Conns -> BOOLEAN]
    BY <2>1 DEF IInv, TypeOK
  <2>3. cur = None
    BY <2>1 DEF IInv, Dispatching
  <2>4. nodes[c] = 1
    BY <2>1, <2>2 DEF IInv, Timers
  <2> QED
    BY <2>1, <2>2, <2>3, <2>4
<1>2. IInv' /\ InTable(c)
  BY <1>1, ExpireStep, WorkerAssumption DEF IInv, Conditions, Consistent
<1>3. \A d \in Conns : InTable(d)' <=> InTable(d) /\ d # c
  <2>1. nodes' \in [Conns -> Nat] /\ \A d \in Conns : nodes'[d] <= nodes[d]
    BY <1>1
  <2> QED
    BY <1>1, <1>2, <2>1, EpollDelStep
<1>4. ASSUME NEW d \in Conns \ {c}
      PROVE  Watching(d)'
  <2>1. http'[d] = http[d] /\ mask'[d] = mask[d] /\ ready'[d] = ready[d]
    BY <1>1 DEF EpollDel
  <2> QED
    BY <1>1, <1>3, <2>1, UntouchedWatching DEF EdgeInv
<1>5. http'[c].connectionState = "DISCONNECTED"
  BY <1>1, CloseKeeps
<1> QED
  BY <1>2, <1>3, <1>4, <1>5, ClosedWatching

\* Taking the callbacks and leaving them and HandleExpire concern no connection.
LEMMA CallbackListWatching ==
  ASSUME EdgeInv, TakeCallbacks \/ CallbacksDone \/ ExpireDone
  PROVE  \A d \in Conns : Watching(d)'
<1>1. UNCHANGED <<httpVars, kernelVars, active, revents, cur>>
  BY DEF TakeCallbacks, CallbacksDone, ExpireDone
<1>2. \A d \in Conns : InTable(d)' <=> InTable(d)
  BY <1>1 DEF InTable, Created, httpVars
<1> QED
  BY <1>1, <1>2, UntouchedWatching DEF EdgeInv, httpVars, kernelVars

-----------------------------------------------------------------------------

LEMMA EdgeInit == Init => EdgeInv
<1> SUFFICES ASSUME Init, NEW c \in Conns
             PROVE  Watching(c)
  BY InitIInv DEF EdgeInv
<1>1. /\ http[c].writeBuffer = 0 /\ mask[c] = {} /\ active = {} /\ ~InTable(c)
  BY DEF Init, NewHttp, InTable, Created
<1> QED
  BY <1>1 DEF Watching, Serving

LEMMA EdgeNext == EdgeInv /\ [Next]_vars => EdgeInv'
<1> SUFFICES ASSUME EdgeInv, [Next]_vars
             PROVE  \A d \in Conns : Watching(d)'
  BY NextIInv DEF EdgeInv
<1>1. CASE UNCHANGED vars
  <2>1. \A d \in Conns : InTable(d)' <=> InTable(d)
    BY <1>1 DEF InTable, Created, vars, httpVars
  <2> QED
    BY <1>1, <2>1, UntouchedWatching DEF EdgeInv, vars, loopVars, httpVars, kernelVars
<1>2. CASE LoopStep
  BY <1>2, EpollWaitWatching, DispatchWatching, HandleReadWatching, HandleCurrentConnWatching,
     HttpInitWatching, CallbackListWatching DEF LoopStep
<1>3. CASE \E c \in Conns : Expire(c)
  BY <1>3, ExpireWatching
<1>4. CASE Environment
  BY <1>4, AcceptWatching, EnvironmentWatching DEF Environment
<1> QED
  BY <1>1, <1>2, <1>3, <1>4 DEF Next

\* EventLoop::Loop, Channel and Epoll: the stronger invariant holds.
THEOREM EdgeInvariance == Spec => []EdgeInv
<1>1. Init => EdgeInv
  BY EdgeInit
<1>2. EdgeInv /\ [Next]_vars => EdgeInv'
  BY EdgeNext
<1> QED
  BY <1>1, <1>2, PTL DEF Spec

\* Edge-triggered epoll: when the loop waits and a socket it serves is ready for
\* what its Channel asks for, an edge is pending.
THEOREM EdgesHold == Spec => []NoLostEdge
<1>1. EdgeInv => NoLostEdge
  <2> SUFFICES ASSUME EdgeInv, AtRest, NEW c \in Conns, Serving(c), peer[c] # "rst",
                      Poll(c) \cap http[c].toListen # {}
               PROVE  ready[c]
    BY DEF NoLostEdge
  <2>1. cur = None /\ c # cur /\ c \notin active /\ Watching(c)
    BY WorkerAssumption DEF EdgeInv, IInv, Dispatching, AtRest
  <2> QED
    BY <2>1 DEF Watching
<1> QED
  BY <1>1, EdgeInvariance, PTL

\* Http.cpp:492-495 and :164-166: when the loop waits, output that is left over is
\* waited for with EPOLLOUT.
THEOREM OutputHolds == Spec => []OutputWatched
<1>1. EdgeInv => OutputWatched
  <2> SUFFICES ASSUME EdgeInv, AtRest, NEW c \in Conns, Serving(c), http[c].writeBuffer > 0
               PROVE  mask[c] = {"OUT"}
    BY DEF OutputWatched
  <2>1. c # cur /\ Watching(c)
    BY WorkerAssumption DEF EdgeInv, IInv, Dispatching, AtRest
  <2> QED
    BY <2>1 DEF Watching
<1> QED
  BY <1>1, EdgeInvariance, PTL
=============================================================================
