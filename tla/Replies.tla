------------------------------- MODULE Replies -------------------------------
(***************************************************************************)
(* What one connection sends, system call by system call: both overloads   *)
(* of Utils::WriteToFd, Http::HandleWrite (which calls it twice),          *)
(* Http::HandleError (which writes past write_buffer_) and the turns of    *)
(* Http::HandleRead that use them.                                         *)
(*                                                                         *)
(* The pieces of the pages are numbered in the order ProcessRequest        *)
(* appends them to write_buffer_, so the buffer always holds an interval   *)
(* of numbers.  A write() takes as many pieces as it likes and the socket  *)
(* has room for; EINTR repeats the call and is a stuttering step.  The     *)
(* connection is kept alive and requests arrive whole; timers, half closes *)
(* and resets are Worker's.                                                *)
(***************************************************************************)
EXTENDS Integers, Sequences

CONSTANTS
  PagePieces,   \* pieces of a page
  SendRoom,     \* pieces the send buffer of the socket holds
  MaxRequests   \* bound: requests the client sends

ASSUME RepliesAssumption ==
  /\ PagePieces \in Nat \ {0}
  /\ SendRoom \in Nat \ {0}
  /\ MaxRequests \in Nat

Error == 0   \* a piece of an error page

VARIABLES
  pc,       \* "wait", "turn" of HandleRead, "write" of HandleWrite, "error", "closed"
  call,     \* which of its two calls of WriteToFd HandleWrite is in
  reading,  \* whether HandleRead called HandleWrite
  done,     \* pieces that have left write_buffer_ before this call
  written,  \* writen_sum of this call
  made,     \* pieces ProcessRequest has appended: the buffer is done+1 .. made
  pages,    \* pieces of error pages HandleError still has to write
  toListen, \* to_listen_events_ of the Channel, without EPOLLET
  mask,     \* kernel: what the connection is registered for
  room,     \* kernel: free pieces of the send buffer
  wire,     \* what the client has been sent
  unread,   \* requests received and not read,
  buffered, \* in read_buffer_,
  asked,    \* and sent at all
  before    \* history, read by no action: made, when EPOLLIN was last dispatched

bufferVars == <<done, written, made>>
clientVars == <<unread, asked>>
vars == <<pc, call, reading, bufferVars, pages, toListen, mask, room, wire, clientVars, buffered, before>>

TypeOK ==
  /\ pc \in {"wait", "turn", "write", "error", "closed"}
  /\ call \in {1, 2}
  /\ reading \in BOOLEAN
  /\ done \in Nat /\ written \in Nat /\ made \in Nat
  /\ pages \in Nat
  /\ toListen \in SUBSET {"IN", "OUT"}
  /\ mask \in {"IN", "OUT"}
  /\ room \in 0 .. SendRoom
  /\ wire \in Seq(Nat)
  /\ unread \in Nat /\ buffered \in Nat /\ asked \in Nat
  /\ before \in Nat

Init ==
  /\ pc = "wait"
  /\ call = 1
  /\ reading = FALSE
  /\ done = 0 /\ written = 0 /\ made = 0
  /\ pages = 0
  /\ toListen = {"IN"}
  /\ mask = "IN"
  /\ room = SendRoom
  /\ wire = <<>>
  /\ unread = 0 /\ buffered = 0 /\ asked = 0
  /\ before = 0

-----------------------------------------------------------------------------
(* EventLoop::Loop: an event of the connection is dispatched, after        *)
(* Epoll::EpollWait has set what the Channel is to listen for to nothing.   *)

\* EPOLLIN: HandleRead.
Readable ==
  /\ pc = "wait" /\ mask = "IN" /\ unread > 0
  /\ pc' = "turn"
  /\ toListen' = {}
  /\ before' = made
  /\ UNCHANGED <<call, reading, bufferVars, pages, mask, room, wire, clientVars, buffered>>

\* EPOLLOUT: HandleWrite.  (Mutant: the Channel's events are kept.)
Writable_Keeps ==
  /\ pc = "wait" /\ mask = "OUT" /\ room > 0
  /\ pc' = "write"
  /\ call' = 1
  /\ reading' = FALSE
  /\ UNCHANGED <<bufferVars, pages, toListen, mask, room, wire, clientVars, buffered, before>>

Writable ==
  /\ pc = "wait" /\ mask = "OUT" /\ room > 0
  /\ pc' = "write"
  /\ call' = 1
  /\ reading' = FALSE
  /\ toListen' = {}
  /\ UNCHANGED <<bufferVars, pages, mask, room, wire, clientVars, buffered, before>>

-----------------------------------------------------------------------------
(* Http::HandleRead, one turn: what arrived is read, one request is taken. *)

Take ==
  /\ pc = "turn"
  /\ unread' = 0
  /\ buffered' = buffered + unread - 1
  /\ UNCHANGED <<toListen, mask, room, wire, asked, before>>

\* ProcessRequest appends the page; HandleWrite follows.
Page ==
  /\ Take
  /\ made' = made + PagePieces
  /\ pc' = "write"
  /\ call' = 1
  /\ reading' = TRUE
  /\ UNCHANGED <<done, written, pages>>

\* A request that is refused gets one error page, a missing file two: a 404
\* from ProcessRequest and a 400 from its caller.  Each has a header and a body.
Refuse ==
  /\ Take
  /\ pages' \in {2, 4}
  /\ pc' = "error"
  /\ UNCHANGED <<call, reading, bufferVars>>

-----------------------------------------------------------------------------
(* Utils::WriteToFd on write_buffer_, called by HandleWrite.               *)

Left == made - done - written

\* write() takes n pieces.
Write(n) ==
  /\ pc = "write"
  /\ n <= Left /\ n <= room
  /\ wire' = wire \o [i \in 1 .. n |-> done + written + i]
  /\ written' = written + n
  /\ room' = room - n
  /\ UNCHANGED <<pc, call, reading, done, made, pages, toListen, mask, clientVars, buffered, before>>

\* The buffer is empty or write() says EAGAIN: what was written is cut off, and
\* HandleWrite calls again.  (Mutant: only what the last write() took.)
FirstReturns_LastOnly ==
  /\ pc = "write" /\ call = 1
  /\ Left = 0 \/ room = 0
  /\ done' = IF written > 0 THEN done + 1 ELSE done
  /\ written' = 0
  /\ call' = 2
  /\ UNCHANGED <<pc, reading, made, pages, toListen, mask, room, wire, clientVars, buffered, before>>

FirstReturns ==
  /\ pc = "write" /\ call = 1
  /\ Left = 0 \/ room = 0
  /\ done' = done + written
  /\ written' = 0
  /\ call' = 2
  /\ UNCHANGED <<pc, reading, made, pages, toListen, mask, room, wire, clientVars, buffered, before>>

\* What HandleWrite leaves in the Channel: EPOLLOUT is added, and never removed.
ToListenAfter == IF Left > 0 THEN toListen \union {"OUT"} ELSE toListen

\* The end of an event: HandleCurrentConn registers EPOLLOUT alone when the
\* handlers have left any event in the Channel, and EPOLLIN when they have not.
Registered(events) == IF events = {} THEN "IN" ELSE "OUT"

\* The second call returns: HandleRead takes the next request it has read, with
\* the events of this turn still in the Channel, or the event ends.
\* (Mutant: what is left is not asked for.)
SecondReturns_Forgets ==
  /\ pc = "write" /\ call = 2
  /\ Left = 0 \/ room = 0
  /\ done' = done + written
  /\ written' = 0
  /\ \/ /\ reading /\ buffered > 0
        /\ pc' = "turn"
        /\ UNCHANGED <<toListen, mask>>
     \/ /\ ~(reading /\ buffered > 0)
        /\ pc' = "wait"
        /\ mask' = Registered(toListen)
        /\ toListen' = {mask'}
  /\ UNCHANGED <<call, reading, made, pages, room, wire, clientVars, buffered, before>>

SecondReturns ==
  /\ pc = "write" /\ call = 2
  /\ Left = 0 \/ room = 0
  /\ done' = done + written
  /\ written' = 0
  /\ \/ /\ reading /\ buffered > 0
        /\ pc' = "turn"
        /\ toListen' = ToListenAfter
        /\ UNCHANGED mask
     \/ /\ ~(reading /\ buffered > 0)
        /\ pc' = "wait"
        /\ mask' = Registered(ToListenAfter)
        /\ toListen' = {mask'}
  /\ UNCHANGED <<call, reading, made, pages, room, wire, clientVars, buffered, before>>

-----------------------------------------------------------------------------
(* Http::HandleError: two calls of the other WriteToFd, straight to the    *)
(* socket, for each error page.                                            *)

\* The piece is sent, or there is no room and it is given up.
ErrorPiece ==
  /\ pc = "error" /\ pages > 0
  /\ pages' = pages - 1
  /\ IF room > 0 THEN wire' = Append(wire, Error) /\ room' = room - 1
                 ELSE UNCHANGED <<wire, room>>
  /\ UNCHANGED <<pc, call, reading, bufferVars, toListen, mask, clientVars, buffered, before>>

\* HandleRead closes the connection, with what is left in write_buffer_.
\* (Mutant: it does not.)
ErrorDone_GoesOn ==
  /\ pc = "error" /\ pages = 0
  /\ pc' = IF buffered > 0 THEN "turn" ELSE "wait"
  /\ UNCHANGED <<call, reading, bufferVars, pages, toListen, mask, room, wire, clientVars, buffered, before>>

ErrorDone ==
  /\ pc = "error" /\ pages = 0
  /\ pc' = "closed"
  /\ UNCHANGED <<call, reading, bufferVars, pages, toListen, mask, room, wire, clientVars, buffered, before>>

-----------------------------------------------------------------------------
(* The client.                                                             *)

Ask ==
  /\ asked < MaxRequests
  /\ asked' = asked + 1
  /\ unread' = unread + 1
  /\ UNCHANGED <<pc, call, reading, bufferVars, pages, toListen, mask, room, wire, buffered, before>>

ClientReads ==
  /\ room < SendRoom
  /\ room' = room + 1
  /\ UNCHANGED <<pc, call, reading, bufferVars, pages, toListen, mask, wire, clientVars, buffered, before>>

-----------------------------------------------------------------------------

LoopStep ==
  \/ Readable \/ Writable
  \/ Page \/ Refuse
  \/ \E n \in 1 .. SendRoom : Write(n)
  \/ FirstReturns \/ SecondReturns
  \/ ErrorPiece \/ ErrorDone

Next == LoopStep \/ Ask \/ ClientReads

Spec == Init /\ [][Next]_vars

\* The worker thread is scheduled, and the client reads what it is sent.
FairSpec == Spec /\ WF_vars(LoopStep) /\ WF_vars(ClientReads)

-----------------------------------------------------------------------------
(* Properties.                                                             *)

\* Utils.cpp:132-157 and Http.cpp:483-497: no piece of a page is lost, sent
\* twice or out of order, however the writes are cut and whichever of the two
\* calls they belong to; and nothing follows an error page but error pages.
InOrder ==
  \A i \in DOMAIN wire :
    wire[i] = i \/ \A j \in i .. Len(wire) : wire[j] = Error

\* Http.cpp:78-171, 456-481: HandleError does not look at write_buffer_, yet an
\* error page only ever overtakes pages of requests that were read in the same
\* event: nothing is read while pieces of an earlier event are left.  So a client
\* that waits for each response never gets the error page first.
ErrorsWait ==
  \A i \in DOMAIN wire : wire[i] = Error => i > before

\* Http.cpp:492-495: while the client reads, each page is sent to its end, or the
\* connection is closed.
PagesSent ==
  \A n \in 1 .. MaxRequests * PagePieces : made >= n ~> (n \in DOMAIN wire \/ pc = "closed")

\* Http.cpp:159-192, 492-495: EPOLLOUT that one turn of HandleRead collects stays
\* in the Channel though a later turn of the event sends everything, and then
\* stands in the registration alone, without EPOLLIN.  A request that arrives is
\* read all the same while the client reads, or the connection is closed.
RequestsRead ==
  unread > 0 ~> (unread = 0 \/ pc = "closed")

-----------------------------------------------------------------------------
(* The inductive invariant; its proof is in RepliesProofs.                 *)

\* Before the first error page the client has exactly what has left the buffer
\* or been written by the call that runs; the buffer is not used after it.
Sent ==
  /\ done + written <= made
  /\ pc # "write" => written = 0
  /\ pc \notin {"error", "closed"} =>
       /\ Len(wire) = done + written
       /\ \A i \in DOMAIN wire : wire[i] = i
  /\ InOrder

\* Where EPOLLOUT is not waited for, no piece is left (with EPOLLOUT there may be
\* none either); so when EPOLLIN is dispatched all that was made has been sent.
Watched ==
  /\ pc = "wait" /\ Left > 0 => mask = "OUT"
  /\ before <= Len(wire)
  /\ ErrorsWait
  /\ pc = "turn" => buffered + unread > 0

IInv ==
  /\ TypeOK
  /\ Sent
  /\ Watched
=============================================================================
