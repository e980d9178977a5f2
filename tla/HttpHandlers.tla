---------------------------- MODULE HttpHandlers ----------------------------
(***************************************************************************)
(* What the member functions of class Http (src/src/Server/Http.cpp) do to *)
(* the fields of one Http object and of the Channel it owns.  Everything   *)
(* here is a pure operator on a record; the epoll instance, the timers and *)
(* the event loop around the object are in module Worker.                  *)
(*                                                                         *)
(* Data is abstracted to what the control flow tests:                      *)
(*  - read_buffer_ and write_buffer_ are amounts: pieces of requests not   *)
(*    yet parsed, pieces of responses not yet written;                     *)
(*  - a parser returns any result the buffer allows (a request line or a   *)
(*    header block can only be finished or refused when there are bytes);  *)
(*  - an event mask is a subset of {"IN", "OUT"}.  EPOLLET is in every     *)
(*    mask handed to epoll_ctl and in none that is tested.                 *)
(***************************************************************************)
EXTENDS Integers

CONSTANT MaxResponse  \* the largest response, in pieces

ASSUME MaxResponseAssumption == MaxResponse \in Nat \ {0}

Interest == {"IN", "OUT"}

\* enum ConnectionState
ConnectionState == {"CONNECTED", "DISCONNECTING", "DISCONNECTED"}

\* enum ProcessState.  PROCESS and FINISH only survive inside one HandleRead
\* (or in an object whose request was refused).
ProcessState == {"URI", "HEADER", "BODY", "PROCESS", "FINISH"}

\* The fields of an Http object the handlers branch on; toListen is
\* to_listen_events_ of its Channel.
HttpObject ==
  [ connectionState : ConnectionState,
    hasError        : BOOLEAN,
    processState    : ProcessState,
    readBuffer      : Nat,
    writeBuffer     : Nat,
    keepAlive       : BOOLEAN,
    toListen        : SUBSET Interest ]

\* Http::Http
NewHttp(keep_alive) ==
  [ connectionState |-> "CONNECTED",
    hasError        |-> FALSE,
    processState    |-> "URI",
    readBuffer      |-> 0,
    writeBuffer     |-> 0,
    keepAlive       |-> keep_alive,
    toListen        |-> {} ]

-----------------------------------------------------------------------------
(* Parsing and answering.  Each operator is the set of objects the call    *)
(* and HandleRead's test of its result can leave; hasError stands for the  *)
(* ERROR results, an unchanged processState for the AGAIN results.         *)

Refused(h) == [h EXCEPT !.hasError = TRUE]

\* Http::ParseURI.  AGAIN keeps the buffer, whatever it holds.
ParseURI(h) ==
  {h} \cup IF h.readBuffer > 0
             THEN {Refused(h), [h EXCEPT !.processState = "HEADER"]}
             ELSE {}

\* Http::ParseHeaders.  A finished header block takes the request's pieces
\* out of the buffer; GET goes on to STATE_PROCESS, POST to STATE_PARSE_BODY.
HeadersDone(h, next, left) == [h EXCEPT !.processState = next, !.readBuffer = left]

ParseHeaders(h) ==
  {h} \cup IF h.readBuffer > 0
             THEN {Refused(h)} \cup
                  {HeadersDone(h, next, left) :
                     next \in {"PROCESS", "BODY"}, left \in 0 .. h.readBuffer - 1}
             ELSE {}

\* Http::ProcessRequest of a GET.  The file may be missing; a
\* "Connection: Keep-Alive" header turns keep_alive_ on and nothing turns it off.
Answered(h, size, ka) ==
  [h EXCEPT !.processState = "FINISH", !.writeBuffer = @ + size, !.keepAlive = @ \/ ka]

ProcessRequest(h) ==
  {Refused(h)} \cup {Answered(h, size, ka) : size \in 1 .. MaxResponse, ka \in BOOLEAN}

\* The three "if(process_state_ == ...)" blocks of HandleRead, in order.
\* STATE_PARSE_BODY has an empty block: a POST is never answered.
AtURI(h)     == IF h.processState = "URI" THEN ParseURI(h) ELSE {h}
AtHeaders(h) == IF h.processState = "HEADER" /\ ~h.hasError THEN ParseHeaders(h) ELSE {h}
AtProcess(h) == IF h.processState = "PROCESS" /\ ~h.hasError THEN ProcessRequest(h) ELSE {h}

Parsed(h) == UNION {UNION {AtProcess(g) : g \in AtHeaders(f)} : f \in AtURI(h)}

\* Utils::ReadFromFd, the checks HandleRead makes of its result, and the
\* parsing that follows: n pieces are waiting in the socket, the peer has sent
\* a FIN (fin) or a RST (rst).
Received(h, n, fin, rst) ==
  LET full    == [h EXCEPT !.readBuffer = @ + n]
      halfway == [full EXCEPT !.connectionState = "DISCONNECTING"]
  IN IF h.connectionState = "DISCONNECTING"
       THEN {[h EXCEPT !.readBuffer = 0]}
     ELSE IF rst
       THEN {Refused(full)}
     ELSE IF fin /\ n = 0
       THEN {halfway}
     ELSE Parsed(IF fin THEN halfway ELSE full)

-----------------------------------------------------------------------------
(* Writing and finishing.                                                  *)

\* Utils::WriteToFd(int, std::string&): it writes until the buffer is empty or
\* the socket, with room for that many pieces, answers EAGAIN.
Written(h, room) == IF h.writeBuffer <= room THEN h.writeBuffer ELSE room

\* Http::HandleWrite: what is left waits for EPOLLOUT.
\* (Mutant: EPOLLOUT is forgotten.)
HandleWrite_Forgets(h, room) ==
  IF h.hasError \/ h.connectionState = "DISCONNECTED"
    THEN h
    ELSE [h EXCEPT !.writeBuffer = @ - Written(h, room)]

HandleWrite(h, room) ==
  IF h.hasError \/ h.connectionState = "DISCONNECTED"
    THEN h
    ELSE [h EXCEPT !.writeBuffer = @ - Written(h, room),
                   !.toListen = IF h.writeBuffer > room THEN @ \cup {"OUT"} ELSE @]

\* Http::reset, without the seperateTimer() call at its end
ResetRequest(h) == [h EXCEPT !.processState = "URI"]

\* The branch of HandleRead for a request that is not finished: the events
\* read on entry, plus EPOLLIN, overwrite what HandleWrite has just asked for.
AskForMore(h, events) ==
  IF h.connectionState # "DISCONNECTED"
    THEN [h EXCEPT !.toListen = events \cup {"IN"}]
    ELSE h

=============================================================================
