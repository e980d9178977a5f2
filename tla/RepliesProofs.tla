--------------------------- MODULE RepliesProofs ---------------------------
(***************************************************************************)
(* Proofs about Replies, for pages and send buffers of every size and any  *)
(* number of requests: IInv is inductive, so what a client is sent is in   *)
(* order, and an error page waits for all pages of earlier events.         *)
(***************************************************************************)
EXTENDS Replies, SequenceTheorems, TLAPS

-----------------------------------------------------------------------------

\* Nothing has been asked, made or sent at first.
LEMMA InitIInv == Init => IInv
<1> SUFFICES ASSUME Init
             PROVE  IInv
  OBVIOUS
<1> USE RepliesAssumption DEF Init
<1>1. wire \in Seq(Nat) /\ Len(wire) = 0 /\ DOMAIN wire = {}
  BY EmptySeq
<1>2. TypeOK
  <2>1. reading \in BOOLEAN /\ before \in Nat /\ toListen \in SUBSET {"IN", "OUT"}
    OBVIOUS
  <2>2. room \in 0 .. SendRoom
    OBVIOUS
  <2>3. /\ done \in Nat /\ written \in Nat /\ made \in Nat /\ pages \in Nat
        /\ unread \in Nat /\ buffered \in Nat /\ asked \in Nat
    OBVIOUS
  <2>4. pc = "wait" /\ call = 1 /\ mask = "IN"
    OBVIOUS
  <2> HIDE DEF Init
  <2> QED
    BY <1>1, <2>1, <2>2, <2>3, <2>4 DEF TypeOK
<1>3. Sent
  BY <1>1 DEF Sent, InOrder
<1>4. Watched
  BY <1>1 DEF Watched, ErrorsWait, Left
<1> QED
  BY <1>2, <1>3, <1>4 DEF IInv

\* What every step but a write, an error piece and the client's leaves: the
\* sent pieces and the free room.
QuietSteps ==
  \/ Readable \/ Writable \/ Page \/ Refuse
  \/ FirstReturns \/ SecondReturns \/ ErrorDone

LEMMA QuietType ==
  ASSUME IInv, QuietSteps
  PROVE  TypeOK' /\ wire' = wire
<1> USE RepliesAssumption DEF IInv, TypeOK, clientVars, bufferVars
<1>1. CASE Readable
  BY <1>1 DEF Readable
<1>2. CASE Writable
  BY <1>2 DEF Writable
<1>3. CASE Page
  BY <1>3 DEF Page, Take, Watched
<1>4. CASE Refuse
  BY <1>4 DEF Refuse, Take, Watched
<1>5. CASE FirstReturns
  BY <1>5 DEF FirstReturns
<1>6. CASE SecondReturns
  <2>1. toListen' \in SUBSET {"IN", "OUT"} /\ mask' \in {"IN", "OUT"} /\ pc' \in {"turn", "wait"}
    <3>1. ToListenAfter \in SUBSET {"IN", "OUT"}
      BY DEF ToListenAfter
    <3>2. Registered(ToListenAfter) \in {"IN", "OUT"}
      BY DEF Registered
    <3> HIDE DEF ToListenAfter, Registered
    <3> QED
      BY <1>6, <3>1, <3>2 DEF SecondReturns
  <2>2. /\ wire' = wire /\ done' = done + written /\ written' = 0
        /\ UNCHANGED <<call, reading, made, pages, room, clientVars, buffered, before>>
    BY <1>6 DEF SecondReturns
  <2> QED
    BY <2>1, <2>2
<1>7. CASE ErrorDone
  BY <1>7 DEF ErrorDone
<1> QED
  BY <1>1, <1>2, <1>3, <1>4, <1>5, <1>6, <1>7 DEF QuietSteps

\* They move numbers between done, written and made, but the sent pieces stay
\* those that left the buffer.
LEMMA QuietSent ==
  ASSUME IInv, QuietSteps
  PROVE  Sent'
<1>1. wire' = wire /\ TypeOK
  BY QuietType DEF IInv
<1> USE <1>1 DEF IInv, Sent, InOrder, clientVars, bufferVars
<1>2. CASE Readable \/ Writable
  BY <1>2 DEF Readable, Writable
<1>3. CASE Page
  BY <1>3, RepliesAssumption DEF Page, Take, TypeOK
<1>4. CASE Refuse
  BY <1>4 DEF Refuse, Take
<1>5. CASE FirstReturns
  BY <1>5 DEF FirstReturns, TypeOK
<1>6. CASE SecondReturns
  BY <1>6 DEF SecondReturns, TypeOK
<1>7. CASE ErrorDone
  BY <1>7 DEF ErrorDone
<1> QED
  BY <1>2, <1>3, <1>4, <1>5, <1>6, <1>7 DEF QuietSteps

\* Before an error page every piece has its own number, which is not Error.
LEMMA NoErrorYet ==
  ASSUME IInv, pc \notin {"error", "closed"}
  PROVE  ErrorsWait /\ \A i \in DOMAIN wire : wire[i] # Error
BY DEF IInv, TypeOK, Sent, ErrorsWait, Error

\* HandleCurrentConn registers EPOLLOUT while pieces are left, and a turn starts
\* with EPOLLIN only when none are.
LEMMA QuietWatched ==
  ASSUME IInv, QuietSteps
  PROVE  Watched'
<1>1. wire' = wire /\ TypeOK
  BY QuietType DEF IInv
<1> USE DEF clientVars, bufferVars
<1>2. before' <= Len(wire')
  <2>1. CASE Readable
    <3>1. before' = made /\ pc = "wait" /\ mask = "IN"
      BY <2>1 DEF Readable
    <3>2. made = done + written
      BY <1>1, <3>1 DEF IInv, Watched, Left, Sent, TypeOK
    <3> QED
      BY <1>1, <3>1, <3>2 DEF IInv, Sent
  <2>2. CASE ~Readable
    <3>1. before' = before
      BY <2>2 DEF QuietSteps, Writable, Page, Refuse, Take, FirstReturns, SecondReturns, ErrorDone
    <3> QED
      BY <1>1, <3>1 DEF IInv, Watched
  <2> QED
    BY <2>1, <2>2
<1>3. ErrorsWait'
  <2>1. CASE pc \in {"error", "closed"}
    <3>1. before' = before
      BY <2>1 DEF QuietSteps, Readable, Writable, Page, Refuse, Take, FirstReturns, SecondReturns, ErrorDone
    <3> QED
      BY <1>1, <3>1 DEF IInv, Watched, ErrorsWait
  <2>2. CASE pc \notin {"error", "closed"}
    BY <1>1, <2>2, NoErrorYet DEF ErrorsWait
  <2> QED
    BY <2>1, <2>2
<1>4. pc' = "turn" => buffered' + unread' > 0
  <2>1. CASE Readable
    BY <1>1, <2>1 DEF Readable, TypeOK
  <2>2. CASE SecondReturns
    BY <1>1, <2>2 DEF SecondReturns, TypeOK
  <2>3. CASE ~Readable /\ ~SecondReturns
    <3>1. pc' # "turn"
      BY <2>3 DEF QuietSteps, Writable, Page, Refuse, FirstReturns, ErrorDone
    <3> QED
      BY <3>1
  <2> QED
    BY <2>1, <2>2, <2>3
<1>5. pc' = "wait" /\ Left' > 0 => mask' = "OUT"
  <2> SUFFICES ASSUME pc' = "wait", Left' > 0
               PROVE  mask' = "OUT"
    OBVIOUS
  <2>1. SecondReturns
    BY DEF QuietSteps, Readable, Writable, Page, Refuse, FirstReturns, ErrorDone
  <2>2. Left' = Left
    BY <1>1, <2>1 DEF SecondReturns, Left, TypeOK
  <2>3. ToListenAfter # {} /\ mask' = Registered(ToListenAfter)
    BY <2>1, <2>2 DEF SecondReturns, ToListenAfter
  <2> QED
    BY <2>3 DEF Registered
<1> QED
  BY <1>2, <1>3, <1>4, <1>5 DEF Watched

\* write() continues where the last one stopped.
LEMMA WriteStep ==
  ASSUME IInv, NEW n \in 1 .. SendRoom, Write(n)
  PROVE  IInv'
<1> USE RepliesAssumption DEF IInv
<1> DEFINE pieces == [i \in 1 .. n |-> done + written + i]
<1>1. /\ pc = "write" /\ pc' = "write" /\ n <= made - done - written /\ n <= room
      /\ wire' = wire \o pieces
      /\ written' = written + n /\ room' = room - n
      /\ UNCHANGED <<call, reading, done, made, pages, toListen, mask, unread, asked, buffered, before>>
  BY DEF Write, Left, clientVars
<1>2. pieces \in Seq(Nat) /\ Len(pieces) = n
  <2>1. \A i \in 1 .. n : done + written + i \in Nat
    BY DEF TypeOK
  <2>2. pieces \in [1 .. n -> Nat] /\ n \in Nat
    BY <2>1
  <2> QED
    BY <2>2
<1>3. /\ wire \in Seq(Nat) /\ Len(wire) = done + written /\ Len(wire) \in Nat
      /\ \A i \in 1 .. Len(wire) : wire[i] = i
  BY <1>1, LenProperties DEF TypeOK, Sent
<1>4. /\ wire' \in Seq(Nat)
      /\ Len(wire') = Len(wire) + n
      /\ \A i \in 1 .. Len(wire) + n :
           wire'[i] = IF i <= Len(wire) THEN wire[i] ELSE pieces[i - Len(wire)]
  <2> HIDE DEF pieces
  <2> QED
    BY <1>1, <1>2, <1>3, ConcatProperties
<1>5. \A i \in DOMAIN wire' : wire'[i] = i
  <2> SUFFICES ASSUME NEW i \in DOMAIN wire'
               PROVE  wire'[i] = i
    OBVIOUS
  <2>1. i \in 1 .. Len(wire) + n
    BY <1>4
  <2>2. CASE i <= Len(wire)
    <3>1. wire'[i] = wire[i]
      BY <1>4, <2>1, <2>2
    <3>2. i \in 1 .. Len(wire)
      BY <1>3, <2>1, <2>2
    <3> QED
      BY <1>3, <3>1, <3>2
  <2>3. CASE ~(i <= Len(wire))
    <3>1. i - Len(wire) \in 1 .. n
      BY <1>3, <2>1, <2>3
    <3>2. pieces[i - Len(wire)] = done + written + (i - Len(wire))
      BY <3>1
    <3>3. wire'[i] = pieces[i - Len(wire)]
      BY <1>4, <2>1, <2>3
    <3>4. done + written + (i - Len(wire)) = i
      BY <1>3, <2>1 DEF TypeOK
    <3> QED
      BY <3>2, <3>3, <3>4
  <2> QED
    BY <2>2, <2>3
<1>6. TypeOK'
  BY <1>1, <1>4 DEF TypeOK
<1>7. Sent'
  <2>1. done' + written' <= made'
    BY <1>1 DEF TypeOK
  <2>2. Len(wire') = done' + written'
    BY <1>1, <1>3, <1>4 DEF TypeOK
  <2>3. InOrder'
    BY <1>5 DEF InOrder
  <2> QED
    BY <1>1, <1>5, <2>1, <2>2, <2>3 DEF Sent
<1>8. Watched'
  <2>1. before' <= Len(wire')
    BY <1>1, <1>3, <1>4 DEF Watched, TypeOK
  <2>2. ErrorsWait'
    <3> SUFFICES ASSUME NEW i \in DOMAIN wire', wire'[i] = Error
                 PROVE  i > before'
      BY DEF ErrorsWait
    <3>1. i = 0 /\ i \in 1 .. Len(wire) + n
      BY <1>4, <1>5 DEF Error
    <3> QED
      BY <3>1
  <2> QED
    BY <1>1, <2>1, <2>2 DEF Watched
<1> QED
  BY <1>6, <1>7, <1>8

\* A piece of an error page comes after everything sent so far.
LEMMA ErrorStep ==
  ASSUME IInv, ErrorPiece
  PROVE  IInv'
<1> USE RepliesAssumption DEF IInv
<1>1. /\ pc = "error" /\ pc' = "error" /\ pages > 0 /\ pages' = pages - 1
      /\ UNCHANGED <<call, reading, done, written, made, toListen, mask, unread, asked, buffered, before>>
  BY DEF ErrorPiece, clientVars, bufferVars
<1>2. CASE room > 0
  <2>1. wire' = Append(wire, Error) /\ room' = room - 1
    BY <1>2 DEF ErrorPiece
  <2>2. wire \in Seq(Nat) /\ Error \in Nat
    BY DEF TypeOK, Error
  <2>3. /\ wire' \in Seq(Nat) /\ Len(wire') = Len(wire) + 1
        /\ \A i \in 1 .. Len(wire) : wire'[i] = wire[i]
        /\ wire'[Len(wire) + 1] = Error
    BY <2>1, <2>2, AppendProperties
  <2>4. TypeOK'
    BY <1>1, <1>2, <2>1, <2>3 DEF TypeOK
  <2>5. InOrder'
    <3> SUFFICES ASSUME NEW i \in DOMAIN wire', wire'[i] # i, NEW j \in i .. Len(wire')
                 PROVE  wire'[j] = Error
      BY DEF InOrder
    <3>1. i \in 1 .. Len(wire) + 1 /\ j \in 1 .. Len(wire) + 1 /\ i <= j
      BY <2>2, <2>3
    <3>2. CASE j = Len(wire) + 1
      BY <2>3, <3>2
    <3>3. CASE j # Len(wire) + 1
      <4>1. i \in 1 .. Len(wire) /\ j \in i .. Len(wire)
        BY <2>2, <3>1, <3>3
      <4>2. i \in DOMAIN wire /\ wire[i] # i
        BY <2>2, <2>3, <4>1
      <4> QED
        BY <2>2, <2>3, <4>1, <4>2 DEF Sent, InOrder
    <3> QED
      BY <3>2, <3>3
  <2>6. before' <= Len(wire') /\ ErrorsWait'
    <3>1. before <= Len(wire) /\ ErrorsWait /\ Len(wire) \in Nat /\ before \in Nat
      BY <2>2, LenProperties DEF Watched, TypeOK
    <3>2. ASSUME NEW i \in DOMAIN wire', wire'[i] = Error
          PROVE  i > before
      <4>1. i \in 1 .. Len(wire) + 1
        BY <2>3
      <4>2. CASE i = Len(wire) + 1
        BY <3>1, <4>2
      <4>3. CASE i # Len(wire) + 1
        <5>1. i \in 1 .. Len(wire)
          BY <3>1, <4>1, <4>3
        <5>2. i \in DOMAIN wire /\ wire[i] = Error
          BY <2>2, <2>3, <3>2, <5>1
        <5> QED
          BY <3>1, <5>2 DEF ErrorsWait
      <4> QED
        BY <4>2, <4>3
    <3> QED
      BY <1>1, <2>3, <3>1, <3>2 DEF ErrorsWait
  <2> QED
    BY <1>1, <2>4, <2>5, <2>6 DEF Sent, Watched
<1>3. CASE ~(room > 0)
  <2>1. wire' = wire /\ room' = room
    BY <1>3 DEF ErrorPiece
  <2> QED
    BY <1>1, <2>1 DEF TypeOK, Sent, Watched, InOrder, ErrorsWait
<1> QED
  BY <1>2, <1>3

\* The client asks and reads: only unread, asked and room change.
LEMMA ClientStep ==
  ASSUME IInv, Ask \/ ClientReads
  PROVE  IInv'
<1> USE RepliesAssumption DEF IInv, Sent, Watched, InOrder, ErrorsWait, Left
<1>1. CASE Ask
  BY <1>1 DEF Ask, bufferVars, TypeOK
<1>2. CASE ClientReads
  BY <1>2 DEF ClientReads, bufferVars, clientVars, TypeOK
<1> QED
  BY <1>1, <1>2

LEMMA NextIInv ==
  ASSUME IInv, [Next]_vars
  PROVE  IInv'
<1>1. CASE QuietSteps
  BY <1>1, QuietType, QuietSent, QuietWatched DEF IInv
<1>2. CASE \E n \in 1 .. SendRoom : Write(n)
  BY <1>2, WriteStep
<1>3. CASE ErrorPiece
  BY <1>3, ErrorStep
<1>4. CASE Ask \/ ClientReads
  BY <1>4, ClientStep
<1>5. CASE UNCHANGED vars
  BY <1>5 DEF vars, bufferVars, clientVars, IInv, TypeOK, Sent, Watched, InOrder,
              ErrorsWait, Left
<1> QED
  BY <1>1, <1>2, <1>3, <1>4, <1>5 DEF Next, LoopStep, QuietSteps

-----------------------------------------------------------------------------
(* The theorems.                                                           *)

\* Utils::WriteToFd, Http::HandleWrite, Http::HandleError: the invariant holds.
THEOREM Invariance == Spec => []IInv
<1>1. Init => IInv
  BY InitIInv
<1>2. IInv /\ [Next]_vars => IInv'
  BY NextIInv
<1> QED
  BY <1>1, <1>2, PTL DEF Spec

\* Utils.cpp:132-157 and Http.cpp:483-497: however the writes are cut, no piece
\* is lost, sent twice or out of order.
THEOREM OrderHolds == Spec => []InOrder
<1>1. IInv => InOrder
  BY DEF IInv, Sent
<1> QED
  BY <1>1, Invariance, PTL

\* Http.cpp:78-171, 456-481: an error page waits for every page of an earlier
\* event, with pipelining and without.
THEOREM ErrorsHold == Spec => []ErrorsWait
<1>1. IInv => ErrorsWait
  BY DEF IInv, Watched
<1> QED
  BY <1>1, Invariance, PTL
=============================================================================
