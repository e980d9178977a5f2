---------------------------- MODULE ParserProofs ----------------------------
(***************************************************************************)
(* Proofs about HttpParser, for every stream of requests, every length and *)
(* every way the stream is cut: the parsers answer no request too early,   *)
(* twice or with another's page, and one that comes whole is answered with *)
(* its headers.                                                            *)
(*                                                                         *)
(* Induction over the text is done with sets: SetInduction needs no        *)
(* operator as a parameter.                                                *)
(***************************************************************************)
EXTENDS HttpParser, SequenceTheorems, WellFoundedInduction, TLAPS

-----------------------------------------------------------------------------
(* Induction over the natural numbers.                                     *)

\* A set of natural numbers that is not empty has a least element.
LEMMA Least ==
  ASSUME NEW T \in SUBSET Nat, T # {}
  PROVE  \E n \in T : \A m \in T : n <= m
<1> DEFINE R == {ss \in Nat \X Nat : ss[1] < ss[2]}
<1>1. IsWellFoundedOn(R, Nat)
  BY NatLessThanWellFounded DEF OpToRel
<1>2. PICK n \in T : \A m \in T : <<m, n>> \notin R
  <2> HIDE DEF R
  <2> QED
    BY <1>1, WFMin
<1>3. \A m \in T : <<m, n>> \in Nat \X Nat /\ <<m, n>>[1] = m /\ <<m, n>>[2] = n
  OBVIOUS
<1>4. \A m \in T : ~(m < n)
  BY <1>2, <1>3
<1> QED
  BY <1>4

\* A set that has 0, and n + 1 with n, has every number.
LEMMA SetInduction ==
  ASSUME NEW T \in SUBSET Nat, 0 \in T, \A n \in T : n + 1 \in T
  PROVE  T = Nat
<1> SUFFICES ASSUME Nat \ T # {} PROVE FALSE
  OBVIOUS
<1>1. PICK n \in Nat \ T : \A m \in Nat \ T : n <= m
  BY Least
<1>2. n - 1 \in T
  BY <1>1
<1> QED
  BY <1>1, <1>2

\* The same up to n.
LEMMA IndexInduction ==
  ASSUME NEW n \in Nat, NEW T, 0 \in T, \A i \in T : i \in 0 .. n - 1 => i + 1 \in T
  PROVE  \A i \in 0 .. n : i \in T
<1> DEFINE D == {i \in Nat : i <= n => i \in T}
<1>1. D \in SUBSET Nat /\ 0 \in D /\ \A i \in D : i + 1 \in D
  OBVIOUS
<1>2. D = Nat
  <2> HIDE DEF D
  <2> QED
    BY <1>1, SetInduction
<1> QED
  BY <1>2

-----------------------------------------------------------------------------
(* The stream and what of it has arrived.                                  *)

\* The text from a place on is a sequence.
LEMMA Suffix ==
  ASSUME NEW T, NEW s \in Seq(T), NEW k \in 1 .. Len(s) + 1
  PROVE  /\ From(s, k) \in Seq(T) /\ Len(From(s, k)) = Len(s) - k + 1
         /\ \A j \in 1 .. Len(s) - k + 1 : From(s, k)[j] = s[k + j - 1]
<1>1. \A i \in k .. Len(s) : s[i] \in T
  OBVIOUS
<1>2. Len(s) \in Nat
  OBVIOUS
<1> QED
  BY <1>1, <1>2, SubSeqProperties DEF From

\* What a client may send.
LEMMA Requests ==
  ASSUME stream \in Streams
  PROVE  /\ Len(stream) \in Nat /\ DOMAIN stream = 1 .. Len(stream)
         /\ \A m \in 1 .. Len(stream) :
              /\ stream[m].text \in Seq(Symbol) /\ Len(stream[m].text) \in Nat /\ Len(stream[m].text) > 0
              /\ stream[m].line \in 0 .. Len(stream[m].text)
              /\ stream[m].lines \in Seq(HeaderPlaces(Len(stream[m].text)))
              /\ AllFramed => /\ stream[m].line \in 1 .. Len(stream[m].text)
                              /\ RequestLine(stream[m]) /\ HeaderBlock(stream[m])
<1>1. stream \in Seq({stream[i] : i \in DOMAIN stream})
  BY ParserAssumption DEF IsSequence
<1>2. Len(stream) \in Nat /\ DOMAIN stream = 1 .. Len(stream)
  BY <1>1, LenProperties
<1>3. ASSUME NEW m \in 1 .. Len(stream)
      PROVE  /\ stream[m].text \in Seq(Symbol) /\ Len(stream[m].text) \in Nat /\ Len(stream[m].text) > 0
             /\ stream[m].line \in 0 .. Len(stream[m].text)
             /\ stream[m].lines \in Seq(HeaderPlaces(Len(stream[m].text)))
             /\ AllFramed => /\ stream[m].line \in 1 .. Len(stream[m].text)
                             /\ RequestLine(stream[m]) /\ HeaderBlock(stream[m])
  <2>1. /\ IsSequence(stream[m].text) /\ stream[m].text # <<>>
        /\ stream[m].line \in 0 .. Len(stream[m].text)
        /\ stream[m].lines \in Seq(HeaderPlaces(Len(stream[m].text)))
    BY <1>2, <1>3, ParserAssumption
  <2> DEFINE S == {stream[m].text[j] : j \in DOMAIN stream[m].text}
  <2>2. S \subseteq Symbol
    BY <1>2, <1>3 DEF Symbol
  <2>3. stream[m].text \in Seq(S)
    BY <2>1 DEF IsSequence
  <2> HIDE DEF S
  <2>4. stream[m].text \in Seq(Symbol) /\ Len(stream[m].text) \in Nat
    BY <2>2, <2>3, SeqMonotonic, LenProperties
  <2>5. Len(stream[m].text) > 0
    <3>1. Len(stream[m].text) # 0
      BY <2>1, <2>4, EmptySeq
    <3> QED
      BY <2>4, <3>1
  <2>6. AllFramed => /\ stream[m].line \in 1 .. Len(stream[m].text)
                     /\ RequestLine(stream[m]) /\ HeaderBlock(stream[m])
    <3>1. AllFramed => stream[m].line > 0 /\ RequestLine(stream[m]) /\ HeaderBlock(stream[m])
      BY <1>2, <1>3 DEF AllFramed, Framed
    <3> DEFINE l == stream[m].line
               k == Len(stream[m].text)
    <3>2. l \in 0 .. k /\ k \in Nat
      BY <2>1, <2>4
    <3> HIDE DEF l, k
    <3>3. l > 0 => l \in 1 .. k
      BY <3>2
    <3> QED
      BY <3>1, <3>3 DEF l, k
  <2> QED
    BY <2>1, <2>4, <2>5, <2>6
<1> QED
  BY <1>2, <1>3

\* The recursive definition of Offset defines a function.
LEMMA OffsetIsDefined ==
  ASSUME stream \in Streams
  PROVE  Offset = [m \in 1 .. Len(stream) + 1 |->
                     IF m = 1 THEN 0 ELSE Offset[m - 1] + Len(stream[m - 1].text)]
<1> DEFINE Is(g, n) == g = [m \in 1 .. n + 1 |->
                              IF m = 1 THEN 0 ELSE g[m - 1] + Len(stream[m - 1].text)]
           T == {n \in Nat : \E g : Is(g, n)}
<1>1. 0 \in T
  <2> DEFINE g == [m \in 1 .. 0 + 1 |-> 0]
  <2>1. Is(g, 0)
    OBVIOUS
  <2> HIDE DEF g, Is
  <2> QED
    BY <2>1
<1>2. ASSUME NEW n \in T PROVE n + 1 \in T
  <2>1. PICK g : Is(g, n)
    OBVIOUS
  <2> DEFINE f == [m \in 1 .. (n + 1) + 1 |->
                     IF m = 1 THEN 0 ELSE g[m - 1] + Len(stream[m - 1].text)]
  <2>2. \A m \in 1 .. n + 1 : f[m] = g[m]
    BY <2>1
  <2>3. \A m \in 1 .. (n + 1) + 1 : m # 1 => f[m - 1] = g[m - 1]
    <3> HIDE DEF f
    <3>1. n \in Nat
      OBVIOUS
    <3> HIDE DEF T
    <3> QED
      BY <2>2, <3>1
  <2>4. Is(f, n + 1)
    BY <2>3
  <2> HIDE DEF f, Is
  <2> QED
    BY <2>4
<1> HIDE DEF Is
<1>3. \E g : Is(g, Len(stream))
  <2>1. T = Nat
    <3>1. T \in SUBSET Nat
      OBVIOUS
    <3> HIDE DEF T
    <3> QED
      BY <1>1, <1>2, <3>1, SetInduction
  <2> QED
    BY <2>1, Requests
<1>4. Is(Offset, Len(stream))
  BY <1>3 DEF Offset, Is
<1> QED
  BY <1>4 DEF Is

\* A request begins where the last one ends, and behind all that are before it.
LEMMA Offsets ==
  ASSUME stream \in Streams
  PROVE  /\ \A m \in 1 .. Len(stream) + 1 : Offset[m] \in Nat
         /\ \A m \in 1 .. Len(stream) : Offset[m + 1] = Offset[m] + Len(stream[m].text)
         /\ \A m \in 1 .. Len(stream), k \in 1 .. Len(stream) + 1 :
              m < k => Offset[m] + Len(stream[m].text) <= Offset[k]
         /\ Offset[1] = 0
<1> DEFINE n == Len(stream)
<1>1. n \in Nat /\ \A m \in 1 .. n : Len(stream[m].text) \in Nat
  BY Requests
<1>2. Offset[1] = 0
  <2> HIDE DEF n
  <2>1. Offset = [m \in 1 .. n + 1 |->
                     IF m = 1 THEN 0 ELSE Offset[m - 1] + Len(stream[m - 1].text)]
    BY OffsetIsDefined DEF n
  <2> QED
    BY <1>1, <2>1
<1>3. \A m \in 1 .. n : Offset[m + 1] = Offset[m] + Len(stream[m].text)
  <2> HIDE DEF n
  <2>1. Offset = [m \in 1 .. n + 1 |->
                     IF m = 1 THEN 0 ELSE Offset[m - 1] + Len(stream[m - 1].text)]
    BY OffsetIsDefined DEF n
  <2> QED
    BY <1>1, <2>1
<1> HIDE DEF n
<1>4. \A m \in 1 .. n + 1 : Offset[m] \in Nat
  <2> DEFINE T == {i \in Nat : Offset[i + 1] \in Nat}
  <2>1. 0 \in T
    BY <1>2
  <2>2. ASSUME NEW i \in T, i \in 0 .. n - 1 PROVE i + 1 \in T
    <3>1. i + 1 \in 1 .. n /\ Offset[i + 1] \in Nat
      BY <1>1, <2>2
    <3>2. Offset[(i + 1) + 1] = Offset[i + 1] + Len(stream[i + 1].text)
      BY <1>3, <3>1
    <3> QED
      BY <1>1, <3>1, <3>2
  <2>3. \A i \in 0 .. n : i \in T
    <3> HIDE DEF T
    <3> QED
      BY <1>1, <2>1, <2>2, IndexInduction
  <2>4. ASSUME NEW m \in 1 .. n + 1 PROVE m - 1 \in T /\ (m - 1) + 1 = m
    <3> HIDE DEF T
    <3> QED
      BY <1>1, <2>3
  <2> QED
    BY <2>4
<1>5. ASSUME NEW m \in 1 .. n PROVE \A k \in 1 .. n + 1 : m < k => Offset[m] + Len(stream[m].text) <= Offset[k]
  <2> DEFINE T == {i \in Nat : m < i + 1 => Offset[m] + Len(stream[m].text) <= Offset[i + 1]}
  <2>1. 0 \in T
    BY <1>1
  <2>2. ASSUME NEW i \in T, i \in 0 .. n - 1 PROVE i + 1 \in T
    <3>1. Offset[(i + 1) + 1] = Offset[i + 1] + Len(stream[i + 1].text) /\ Len(stream[i + 1].text) \in Nat
      BY <1>1, <1>3, <2>2
    <3>2. Offset[(i + 1) + 1] \in Nat /\ Offset[i + 1] \in Nat /\ Offset[m] \in Nat /\ Len(stream[m].text) \in Nat
      BY <1>1, <1>4, <2>2
    <3>3. CASE m = i + 1
      BY <3>1, <3>2, <3>3
    <3>4. CASE m # i + 1
      BY <3>1, <3>2, <3>4
    <3> QED
      BY <3>3, <3>4
  <2>3. \A i \in 0 .. n : i \in T
    <3> HIDE DEF T
    <3> QED
      BY <1>1, <2>1, <2>2, IndexInduction
  <2>4. ASSUME NEW k \in 1 .. n + 1 PROVE k - 1 \in T /\ (k - 1) + 1 = k
    <3> HIDE DEF T
    <3> QED
      BY <1>1, <2>3
  <2> QED
    BY <2>4
<1> QED
  BY <1>2, <1>3, <1>4, <1>5 DEF n

-----------------------------------------------------------------------------
(* std::string::find.                                                      *)

\* Find returns the first place there is.
LEMMA FindAt ==
  ASSUME NEW s, NEW symbol, Len(s) \in Nat, NEW from \in Nat, from >= 1,
         NEW place \in from .. Len(s), s[place] = symbol,
         \A j \in from .. place - 1 : s[j] # symbol
  PROVE  Find(s, symbol, from) = place
<1> DEFINE places == {i \in from .. Len(s) : s[i] = symbol}
<1>1. place \in places /\ \A i \in places : place <= i
  OBVIOUS
<1>2. \A x \in places : (\A y \in places : x <= y) => x = place
  BY <1>1
<1> HIDE DEF places
<1>3. Min(places) = place
  BY <1>1, <1>2 DEF Min
<1> QED
  BY <1>1, <1>3 DEF Find, places

\* It returns 0 exactly if there is none.
LEMMA FindSpec ==
  ASSUME NEW s, NEW symbol, Len(s) \in Nat, NEW from \in Nat, from >= 1
  PROVE  \/ /\ Find(s, symbol, from) = 0
            /\ \A j \in from .. Len(s) : s[j] # symbol
         \/ /\ Find(s, symbol, from) \in from .. Len(s)
            /\ s[Find(s, symbol, from)] = symbol
            /\ \A j \in from .. Find(s, symbol, from) - 1 : s[j] # symbol
<1> DEFINE places == {i \in from .. Len(s) : s[i] = symbol}
<1>1. CASE places = {}
  BY <1>1 DEF Find
<1>2. CASE places # {}
  <2>1. PICK place \in places : \A i \in places : place <= i
    <3>1. places \in SUBSET Nat
      OBVIOUS
    <3> HIDE DEF places
    <3> QED
      BY <1>2, <3>1, Least
  <2>2. place \in from .. Len(s) /\ s[place] = symbol /\ \A j \in from .. place - 1 : s[j] # symbol
    BY <2>1
  <2>3. Find(s, symbol, from) = place
    BY <2>2, FindAt
  <2> QED
    BY <2>2, <2>3
<1> QED
  BY <1>1, <1>2

-----------------------------------------------------------------------------
(* The loop of ParseHeaders.                                               *)

\* The recursive definition of the loop defines a function: on every prefix
\* there is one.
LEMMA ScanIsDefined ==
  ASSUME NEW h, Len(h.buffer) \in Nat
  PROVE  ScanAll(h) = [i \in 0 .. Len(h.buffer) |->
                         IF i = 0 THEN Scanner(h) ELSE ScanNext(ScanAll(h)[i - 1], h.buffer, i)]
<1> DEFINE Is(g, n) == g = [i \in 0 .. n |->
                              IF i = 0 THEN Scanner(h) ELSE ScanNext(g[i - 1], h.buffer, i)]
           T == {n \in Nat : \E g : Is(g, n)}
<1>1. 0 \in T
  <2> DEFINE g == [i \in 0 .. 0 |-> Scanner(h)]
  <2>1. Is(g, 0)
    OBVIOUS
  <2> HIDE DEF g, Is
  <2> QED
    BY <2>1
<1>2. ASSUME NEW n \in T PROVE n + 1 \in T
  <2>1. PICK g : Is(g, n)
    OBVIOUS
  <2> DEFINE f == [i \in 0 .. n + 1 |->
                     IF i = 0 THEN Scanner(h) ELSE ScanNext(g[i - 1], h.buffer, i)]
  <2>2. \A i \in 0 .. n : f[i] = g[i]
    BY <2>1
  <2>3. \A i \in 0 .. n + 1 : i # 0 => f[i - 1] = g[i - 1]
    BY <2>2
  <2>4. Is(f, n + 1)
    BY <2>3
  <2> HIDE DEF f, Is
  <2> QED
    BY <2>4
<1> HIDE DEF Is
<1>3. \E g : Is(g, Len(h.buffer))
  <2>1. T = Nat
    <3>1. T \in SUBSET Nat
      OBVIOUS
    <3> HIDE DEF T
    <3> QED
      BY <1>1, <1>2, <3>1, SetInduction
  <2> QED
    BY <2>1
<1>4. Is(ScanAll(h), Len(h.buffer))
  BY <1>3 DEF ScanAll, Is
<1> QED
  BY <1>4 DEF Is

IsScanner(a) ==
  /\ DOMAIN a = { "state", "next", "keyStart", "keyEnd", "valueStart", "valueEnd",
                  "lineBegin", "headers", "result" }
  /\ a.state \in LineState /\ a.result \in {"AGAIN", "ERROR", "SUCCESS"}
  /\ a.next \in Nat /\ a.lineBegin \in Nat
  /\ a.keyStart \in Nat /\ a.keyEnd \in Nat /\ a.valueStart \in Nat /\ a.valueEnd \in Nat

\* What the automaton refuses.
Refuses(a, str, i) ==
  \/ a.state = "KEY" /\ (str[i] \in {"CR", "LF"} \/ (str[i] = ":" /\ i <= a.keyStart))
  \/ a.state = "COLON" /\ str[i] # "SP"
  \/ a.state = "VALUE" /\ IF str[i] = "CR" THEN i <= a.valueStart
                                           ELSE i - a.valueStart > MaxValue
  \/ a.state \in {"CR", "END_CR"} /\ str[i] # "LF"

\* Where it goes otherwise.
Goes(a, str, i) ==
  CASE a.state = "START"  -> IF str[i] \in {"CR", "LF"} THEN "START" ELSE "KEY"
    [] a.state = "KEY"    -> IF str[i] = ":" THEN "COLON" ELSE "KEY"
    [] a.state = "COLON"  -> "SPACES"
    [] a.state = "SPACES" -> "VALUE"
    [] a.state = "VALUE"  -> IF str[i] = "CR" THEN "CR" ELSE "VALUE"
    [] a.state = "CR"     -> "LF"
    [] a.state = "LF"     -> IF str[i] = "CR" THEN "END_CR" ELSE "KEY"
    [] OTHER              -> "END_LF"

\* One step of the loop, field by field.
Moves(a, b, str, i) ==
  /\ IsScanner(b) /\ b.next = i + 1
  /\ b.result = IF Refuses(a, str, i) THEN "ERROR"
                ELSE IF a.state = "END_LF" THEN "SUCCESS" ELSE "AGAIN"
  /\ ~Refuses(a, str, i) => b.state = Goes(a, str, i)
  /\ Refuses(a, str, i) => b.state = a.state
  /\ b.keyStart = IF b.state = "KEY" /\ a.state # "KEY" THEN i ELSE a.keyStart
  /\ b.keyEnd = IF b.state = "COLON" /\ a.state # "COLON" THEN i ELSE a.keyEnd
  /\ b.valueStart = IF b.state = "VALUE" /\ a.state # "VALUE" THEN i ELSE a.valueStart
  /\ b.valueEnd = IF b.state = "CR" /\ a.state # "CR" THEN i ELSE a.valueEnd
  /\ b.lineBegin = IF (a.state = "START" /\ b.state = "KEY") \/ (a.state = "CR" /\ b.state = "LF")
                     THEN i ELSE a.lineBegin
  /\ b.headers = IF a.state = "CR" /\ b.state = "LF" THEN Store(a, str) ELSE a.headers

LEMMA ScanMoves ==
  ASSUME NEW a, IsScanner(a), a.result = "AGAIN", NEW str, NEW i \in Nat,
         NEW b, b = ScanNext(a, str, i)
  PROVE  Moves(a, b, str, i)
<1> MaxValue \in Nat
  BY ParserAssumption
<1> DEFINE c == Scan(a, str, i)
<1>1. b = [c EXCEPT !.next = i + 1]
  BY DEF ScanNext
<1>2. CASE a.state = "START" /\ str[i] \in {"CR", "LF"}
  <2>1. c = a
    BY <1>2 DEF Scan, Refuses, Refuse
  <2> HIDE DEF c
  <2> QED
    BY <1>1, <1>2, <2>1 DEF Moves, Refuses, Goes, IsScanner, LineState
<1>3. CASE a.state = "START" /\ str[i] \notin {"CR", "LF"}
  <2>1. c = [a EXCEPT !.state = "KEY", !.keyStart = i, !.lineBegin = i]
    BY <1>3 DEF Scan, Refuses, Refuse
  <2> HIDE DEF c
  <2> QED
    BY <1>1, <1>3, <2>1 DEF Moves, Refuses, Goes, IsScanner, LineState
<1>4. CASE a.state = "KEY" /\ Refuses(a, str, i)
  <2>1. c = [a EXCEPT !.result = "ERROR"]
    BY <1>4 DEF Scan, Refuses, Refuse
  <2> HIDE DEF c
  <2> QED
    BY <1>1, <1>4, <2>1 DEF Moves, Refuses, Goes, IsScanner, LineState
<1>5. CASE a.state = "KEY" /\ ~Refuses(a, str, i) /\ str[i] = ":"
  <2>1. c = [a EXCEPT !.state = "COLON", !.keyEnd = i]
    BY <1>5 DEF Scan, Refuses, Refuse
  <2> HIDE DEF c
  <2> QED
    BY <1>1, <1>5, <2>1 DEF Moves, Refuses, Goes, IsScanner, LineState
<1>6. CASE a.state = "KEY" /\ ~Refuses(a, str, i) /\ str[i] # ":"
  <2>1. c = a
    BY <1>6 DEF Scan, Refuses, Refuse
  <2> HIDE DEF c
  <2> QED
    BY <1>1, <1>6, <2>1 DEF Moves, Refuses, Goes, IsScanner, LineState
<1>7. CASE a.state = "COLON" /\ str[i] = "SP"
  <2>1. c = [a EXCEPT !.state = "SPACES"]
    BY <1>7 DEF Scan, Refuses, Refuse
  <2> HIDE DEF c
  <2> QED
    BY <1>1, <1>7, <2>1 DEF Moves, Refuses, Goes, IsScanner, LineState
<1>8. CASE a.state = "COLON" /\ str[i] # "SP"
  <2>1. c = [a EXCEPT !.result = "ERROR"]
    BY <1>8 DEF Scan, Refuses, Refuse
  <2> HIDE DEF c
  <2> QED
    BY <1>1, <1>8, <2>1 DEF Moves, Refuses, Goes, IsScanner, LineState
<1>9. CASE a.state = "SPACES"
  <2>1. c = [a EXCEPT !.state = "VALUE", !.valueStart = i]
    BY <1>9 DEF Scan, Refuses, Refuse
  <2> HIDE DEF c
  <2> QED
    BY <1>1, <1>9, <2>1 DEF Moves, Refuses, Goes, IsScanner, LineState
<1>10. CASE a.state = "VALUE" /\ Refuses(a, str, i)
  <2>1. c = [a EXCEPT !.result = "ERROR"]
    BY <1>10 DEF Scan, Refuses, Refuse
  <2> HIDE DEF c
  <2> QED
    BY <1>1, <1>10, <2>1 DEF Moves, Refuses, Goes, IsScanner, LineState
<1>11. CASE a.state = "VALUE" /\ ~Refuses(a, str, i) /\ str[i] = "CR"
  <2>1. c = [a EXCEPT !.state = "CR", !.valueEnd = i]
    BY <1>11 DEF Scan, Refuses, Refuse
  <2> HIDE DEF c
  <2> QED
    BY <1>1, <1>11, <2>1 DEF Moves, Refuses, Goes, IsScanner, LineState
<1>12. CASE a.state = "VALUE" /\ ~Refuses(a, str, i) /\ str[i] # "CR"
  <2>1. c = a
    BY <1>12 DEF Scan, Refuses, Refuse
  <2> HIDE DEF c
  <2> QED
    BY <1>1, <1>12, <2>1 DEF Moves, Refuses, Goes, IsScanner, LineState
<1>13. CASE a.state = "CR" /\ str[i] = "LF"
  <2>1. c = [a EXCEPT !.state = "LF", !.headers = Store(a, str), !.lineBegin = i]
    BY <1>13 DEF Scan, Refuses, Refuse
  <2> HIDE DEF c
  <2> QED
    BY <1>1, <1>13, <2>1 DEF Moves, Refuses, Goes, IsScanner, LineState
<1>14. CASE a.state = "CR" /\ str[i] # "LF"
  <2>1. c = [a EXCEPT !.result = "ERROR"]
    BY <1>14 DEF Scan, Refuses, Refuse
  <2> HIDE DEF c
  <2> QED
    BY <1>1, <1>14, <2>1 DEF Moves, Refuses, Goes, IsScanner, LineState
<1>15. CASE a.state = "LF" /\ str[i] = "CR"
  <2>1. c = [a EXCEPT !.state = "END_CR"]
    BY <1>15 DEF Scan, Refuses, Refuse
  <2> HIDE DEF c
  <2> QED
    BY <1>1, <1>15, <2>1 DEF Moves, Refuses, Goes, IsScanner, LineState
<1>16. CASE a.state = "LF" /\ str[i] # "CR"
  <2>1. c = [a EXCEPT !.state = "KEY", !.keyStart = i]
    BY <1>16 DEF Scan, Refuses, Refuse
  <2> HIDE DEF c
  <2> QED
    BY <1>1, <1>16, <2>1 DEF Moves, Refuses, Goes, IsScanner, LineState
<1>17. CASE a.state = "END_CR" /\ str[i] = "LF"
  <2>1. c = [a EXCEPT !.state = "END_LF"]
    BY <1>17 DEF Scan, Refuses, Refuse
  <2> HIDE DEF c
  <2> QED
    BY <1>1, <1>17, <2>1 DEF Moves, Refuses, Goes, IsScanner, LineState
<1>18. CASE a.state = "END_CR" /\ str[i] # "LF"
  <2>1. c = [a EXCEPT !.result = "ERROR"]
    BY <1>18 DEF Scan, Refuses, Refuse
  <2> HIDE DEF c
  <2> QED
    BY <1>1, <1>18, <2>1 DEF Moves, Refuses, Goes, IsScanner, LineState
<1>19. CASE a.state = "END_LF"
  <2>1. c = [a EXCEPT !.result = "SUCCESS"]
    BY <1>19 DEF Scan, Refuses, Refuse
  <2> HIDE DEF c
  <2> QED
    BY <1>1, <1>19, <2>1 DEF Moves, Refuses, Goes, IsScanner, LineState
<1> QED
  BY <1>2, <1>3, <1>4, <1>5, <1>6, <1>7, <1>8, <1>9, <1>10, <1>11, <1>12, <1>13, <1>14, <1>15, <1>16, <1>17, <1>18, <1>19 DEF IsScanner, LineState

\* What the loop starts from, and what a byte does.
LEMMA ScanStarts ==
  ASSUME NEW h, IsHttp(h)
  PROVE  /\ ScanAll(h)[0] = Scanner(h) /\ IsScanner(Scanner(h))
         /\ Scanner(h).state = h.lineState /\ Scanner(h).result = "AGAIN"
         /\ Scanner(h).next = 1 /\ Scanner(h).lineBegin = 1 /\ Scanner(h).headers = h.headers
<1>1. Len(h.buffer) \in Nat
  BY LenProperties DEF IsHttp
<1>2. ScanAll(h)[0] = Scanner(h)
  BY <1>1, ScanIsDefined
<1> QED
  BY <1>2 DEF Scanner, IsScanner, IsHttp

LEMMA ScanStep ==
  ASSUME NEW h, IsHttp(h), NEW i \in 1 .. Len(h.buffer),
         NEW a, a = ScanAll(h)[i - 1], IsScanner(a), NEW b, b = ScanAll(h)[i]
  PROVE  /\ a.result # "AGAIN" => b = a
         /\ a.result = "AGAIN" => Moves(a, b, h.buffer, i)
<1>1. Len(h.buffer) \in Nat
  BY LenProperties DEF IsHttp
<1>2. b = ScanNext(a, h.buffer, i)
  BY <1>1, ScanIsDefined
<1>3. a.result # "AGAIN" => b = a
  BY <1>2 DEF ScanNext
<1>4. a.result = "AGAIN" => Moves(a, b, h.buffer, i)
  BY <1>2, ScanMoves
<1> QED
  BY <1>3, <1>4

\* How far the loop gets.  Behind H_END_LF it has taken a byte.
Bounds(a, i) ==
  /\ IsScanner(a)
  /\ 1 <= a.next /\ a.next <= i + 1 /\ (a.result = "AGAIN" => a.next = i + 1)
  /\ 1 <= a.lineBegin /\ (a.lineBegin = 1 \/ a.lineBegin <= i)
  /\ a.state = "END_LF" => 2 <= a.next
  /\ a.result # "AGAIN" => 1 <= i

LEMMA ScanBounds ==
  ASSUME NEW h, IsHttp(h), h.lineState # "END_LF"
  PROVE  \A i \in 0 .. Len(h.buffer) : Bounds(ScanAll(h)[i], i)
<1>1. Len(h.buffer) \in Nat
  BY LenProperties DEF IsHttp
<1> DEFINE T == {i \in Nat : Bounds(ScanAll(h)[i], i)}
<1>2. 0 \in T
  BY ScanStarts DEF Bounds
<1>3. ASSUME NEW i \in T, i \in 0 .. Len(h.buffer) - 1 PROVE i + 1 \in T
  <2> DEFINE a == ScanAll(h)[i]
             b == ScanAll(h)[i + 1]
  <2>1. i \in Nat /\ Bounds(a, i)
    BY <1>3
  <2>2. /\ a.result # "AGAIN" => b = a
        /\ a.result = "AGAIN" => Moves(a, b, h.buffer, i + 1)
    <3>1. i + 1 \in 1 .. Len(h.buffer) /\ a = ScanAll(h)[(i + 1) - 1] /\ IsScanner(a)
      BY <1>1, <1>3, <2>1 DEF Bounds
    <3> HIDE DEF a, b
    <3> QED
      BY <3>1, ScanStep DEF b
  <2> HIDE DEF a, b
  <2>3. Bounds(b, i + 1)
    <3>1. CASE a.result # "AGAIN"
      BY <2>1, <2>2, <3>1 DEF Bounds, IsScanner
    <3>2. CASE a.result = "AGAIN"
      BY <2>1, <2>2, <3>2 DEF Bounds, Moves, IsScanner
    <3> QED
      BY <3>1, <3>2
  <2> QED
    BY <2>1, <2>3 DEF b
<1>4. \A i \in 0 .. Len(h.buffer) : i \in T
  <2> HIDE DEF T
  <2> QED
    BY <1>1, <1>2, <1>3, IndexInduction
<1> QED
  BY <1>4

-----------------------------------------------------------------------------
(* What the parsers leave, field by field.                                 *)

\* A method is only taken from the line if it is there.
LEMMA ParsedMethod ==
  ASSUME NEW line, Len(line) \in Nat, ParseLine(line).ok
  PROVE  ParseLine(line).method \in {"GET", "POST"}
<1> DEFINE get    == Find(line, "GET", 1)
           post   == Find(line, "POST", 1)
           method == IF get # 0 THEN get ELSE post
<1>1. method # 0 => line[method] \in {"GET", "POST"}
  <2>1. \A symbol : Find(line, symbol, 1) # 0 => line[Find(line, symbol, 1)] = symbol
    BY FindSpec
  <2> QED
    BY <2>1
<1>2. ParseLine(line).ok => method # 0 /\ ParseLine(line).method = line[method]
  BY DEF ParseLine
<1> QED
  BY <1>1, <1>2

LEMMA ReadFields ==
  ASSUME NEW h, IsHttp(h), inq \in Seq(Symbol)
  PROVE  /\ IsHttp(Read(h)) /\ Read(h).buffer = h.buffer \o inq
         /\ Read(h).held = h.held + Len(inq)
         /\ Read(h).processState = h.processState /\ Read(h).lineState = h.lineState
         /\ Read(h).method = h.method /\ Read(h).path = h.path /\ Read(h).headers = h.headers
         /\ Read(h).hasError = h.hasError
<1>1. h.buffer \o inq \in Seq(Symbol) /\ h.held + Len(inq) \in Nat
  BY ConcatProperties, LenProperties DEF IsHttp
<1> QED
  BY <1>1 DEF Read, IsHttp, NewRequest

LEMMA AtURIFields ==
  ASSUME NEW h, IsHttp(h),
         NEW r, r = Find(h.buffer, "r", 1),
         NEW line, line = ParseLine(SubSeq(h.buffer, 1, r - 1)),
         NEW g, g = AtURI(h)
  PROVE  /\ h.processState # "URI" \/ r = 0 => g = h
         /\ h.processState = "URI" /\ r # 0 =>
              /\ r \in 1 .. Len(h.buffer)
              /\ g.buffer = From(h.buffer, r + 1)
              /\ g.hasError = (h.hasError \/ ~line.ok)
              /\ g.processState = (IF line.ok THEN "HEADER" ELSE "URI")
              /\ line.ok => g.method = line.method /\ g.path = line.path
         /\ IsHttp(g)
         /\ g.lineState = h.lineState /\ g.headers = h.headers /\ g.held = h.held
<1>1. Len(h.buffer) \in Nat
  BY LenProperties DEF IsHttp
<1>2. CASE h.processState # "URI" \/ r = 0
  <2>1. g = h
    BY <1>2 DEF AtURI
  <2> QED
    BY <1>2, <2>1
<1>3. CASE h.processState = "URI" /\ r # 0
  <2>1. r \in 1 .. Len(h.buffer)
    BY <1>1, <1>3, FindSpec
  <2>2. From(h.buffer, r + 1) \in Seq(Symbol)
    BY <1>1, <2>1, Suffix DEF IsHttp
  <2>3. CASE ~line.ok
    <3>1. g = [[h EXCEPT !.buffer = From(@, r + 1)] EXCEPT !.hasError = TRUE]
      BY <1>3, <2>3 DEF AtURI
    <3> QED
      BY <1>3, <2>1, <2>2, <2>3, <3>1 DEF IsHttp, NewRequest
  <2>4. CASE line.ok
    <3>1. g = [[h EXCEPT !.buffer = From(@, r + 1)] EXCEPT
                 !.processState = "HEADER", !.method = line.method, !.path = line.path]
      BY <1>3, <2>4 DEF AtURI
    <3>2. line.method \in {"GET", "POST"}
      <4>1. Len(SubSeq(h.buffer, 1, r - 1)) \in Nat
        BY <1>1, <2>1, SubSeqProperties, ElementOfSeq DEF IsHttp
      <4> QED
        BY <2>4, <4>1, ParsedMethod
    <3> QED
      BY <1>3, <2>1, <2>2, <2>4, <3>1, <3>2 DEF IsHttp, NewRequest
  <2> QED
    BY <2>3, <2>4
<1> QED
  BY <1>2, <1>3

LEMMA AtHeadersFields ==
  ASSUME NEW h, IsHttp(h), h.processState = "HEADER" /\ ~h.hasError => h.lineState # "END_LF",
         NEW a, a = ParseHeaders(h),
         NEW g, g = AtHeaders(h)
  PROVE  /\ h.processState # "HEADER" \/ h.hasError => g = h
         /\ h.processState = "HEADER" /\ ~h.hasError =>
              /\ Bounds(a, Len(h.buffer))
              /\ g.lineState = a.state /\ g.headers = a.headers
              /\ g.hasError = (a.result = "ERROR")
              /\ a.result = "ERROR" => g.processState = "HEADER" /\ g.buffer = h.buffer /\ g.held = h.held
              /\ a.result # "ERROR" /\ a.state # "END_LF" =>
                   g.processState = "HEADER" /\ g.buffer = From(h.buffer, a.lineBegin) /\ g.held = h.held
              /\ a.result # "ERROR" /\ a.state = "END_LF" =>
                   /\ g.processState = IF h.method = "GET" THEN "PROCESS" ELSE "BODY"
                   /\ g.buffer = From(h.buffer, a.next) /\ g.held = Len(h.buffer) - a.next + 1
         /\ IsHttp(g) /\ g.method = h.method /\ g.path = h.path
<1>1. Len(h.buffer) \in Nat
  BY LenProperties DEF IsHttp
<1>2. CASE h.processState # "HEADER" \/ h.hasError
  <2>1. g = h
    BY <1>2 DEF AtHeaders
  <2> QED
    BY <1>2, <2>1
<1>3. CASE h.processState = "HEADER" /\ ~h.hasError
  <2>1. Bounds(a, Len(h.buffer))
    BY <1>1, <1>3, ScanBounds DEF ParseHeaders
  <2>2. a.lineBegin \in 1 .. Len(h.buffer) + 1 /\ a.next \in 1 .. Len(h.buffer) + 1
    BY <1>1, <2>1 DEF Bounds, IsScanner
  <2>3. From(h.buffer, a.lineBegin) \in Seq(Symbol) /\ From(h.buffer, a.next) \in Seq(Symbol)
    BY <2>2, Suffix DEF IsHttp
  <2>4. CASE a.result = "ERROR"
    <3>1. g = [[h EXCEPT !.lineState = a.state, !.headers = a.headers] EXCEPT !.hasError = TRUE]
      BY <1>3, <2>4 DEF AtHeaders
    <3> QED
      BY <1>3, <2>1, <2>4, <3>1 DEF IsHttp, NewRequest, Bounds, IsScanner
  <2>5. CASE a.result # "ERROR" /\ a.state # "END_LF"
    <3>1. g = [[h EXCEPT !.lineState = a.state, !.headers = a.headers] EXCEPT
                 !.buffer = From(@, a.lineBegin)]
      BY <1>3, <2>5 DEF AtHeaders
    <3> QED
      BY <1>3, <2>1, <2>3, <2>5, <3>1 DEF IsHttp, NewRequest, Bounds, IsScanner
  <2>6. CASE a.result # "ERROR" /\ a.state = "END_LF"
    <3>1. g = [[h EXCEPT !.lineState = a.state, !.headers = a.headers] EXCEPT
                 !.buffer = From(@, a.next), !.held = Len(h.buffer) - a.next + 1,
                 !.processState = IF h.method = "GET" THEN "PROCESS" ELSE "BODY"]
      BY <1>3, <2>6 DEF AtHeaders
    <3>2. Len(h.buffer) - a.next + 1 \in Nat
      BY <1>1, <2>2
    <3> QED
      BY <1>3, <2>1, <2>3, <2>6, <3>1, <3>2 DEF IsHttp, NewRequest, Bounds, IsScanner
  <2> QED
    BY <2>4, <2>5, <2>6
<1> QED
  BY <1>2, <1>3

-----------------------------------------------------------------------------
(* The parsers implement those of HttpHandlers.                            *)

LEMMA SeenFields ==
  ASSUME NEW h
  PROVE  /\ Seen(h).processState = h.processState /\ Seen(h).hasError = h.hasError
         /\ Seen(h).readBuffer = h.held
  BY DEF Seen

LEMMA SeenChanges ==
  ASSUME NEW h, NEW g
  PROVE  /\ g.hasError = h.hasError
              => Seen(g) = Handlers!HeadersDone(Seen(h), g.processState, g.held)
         /\ g.held = h.held /\ g.hasError = h.hasError
              => Seen(g) = [Seen(h) EXCEPT !.processState = g.processState]
         /\ g.held = h.held /\ g.hasError = h.hasError /\ g.processState = h.processState
              => Seen(g) = Seen(h)
         /\ g.held = h.held /\ g.processState = h.processState /\ g.hasError = TRUE
              => Seen(g) = Handlers!Refused(Seen(h))
<1> DEFINE Fields == { "connectionState", "hasError", "processState", "readBuffer",
                       "writeBuffer", "keepAlive", "toListen" }
           x == Seen(h)
           y == Seen(g)
<1>1. x = [i \in Fields |-> x[i]] /\ y = [i \in Fields |-> y[i]]
  BY DEF Seen
<1>2. x.readBuffer = h.held /\ x.hasError = h.hasError /\ x.processState = h.processState
  BY DEF Seen
<1>3. y.readBuffer = g.held /\ y.hasError = g.hasError /\ y.processState = g.processState
  BY DEF Seen
<1>4. x.connectionState = y.connectionState /\ x.writeBuffer = y.writeBuffer
  BY DEF Seen
<1>5. x.toListen = y.toListen
  BY DEF Seen
<1>6. x.keepAlive = y.keepAlive
  BY DEF Seen
<1> HIDE DEF x, y
<1>7. /\ g.hasError = h.hasError => y = [x EXCEPT !.processState = g.processState, !.readBuffer = g.held]
      /\ g.held = h.held /\ g.hasError = h.hasError => y = [x EXCEPT !.processState = g.processState]
      /\ g.held = h.held /\ g.hasError = h.hasError /\ g.processState = h.processState => y = x
      /\ g.held = h.held /\ g.processState = h.processState => y = [x EXCEPT !.hasError = g.hasError]
  <2>1. g.hasError = h.hasError => y = [x EXCEPT !.processState = g.processState, !.readBuffer = g.held]
    BY <1>1, <1>2, <1>3, <1>4, <1>5, <1>6
  <2>2. g.held = h.held /\ g.hasError = h.hasError => y = [x EXCEPT !.processState = g.processState]
    BY <1>1, <1>2, <1>3, <1>4, <1>5, <1>6
  <2>3. g.held = h.held /\ g.hasError = h.hasError /\ g.processState = h.processState => y = x
    BY <1>1, <1>2, <1>3, <1>4, <1>5, <1>6
  <2>4. g.held = h.held /\ g.processState = h.processState => y = [x EXCEPT !.hasError = g.hasError]
    BY <1>1, <1>2, <1>3, <1>4, <1>5, <1>6
  <2> QED
    BY <2>1, <2>2, <2>3, <2>4
<1>8. g.hasError = TRUE => [x EXCEPT !.hasError = g.hasError] = [x EXCEPT !.hasError = TRUE]
  BY Zenon
<1> QED
  BY <1>7, <1>8, Zenon DEF x, y, Handlers!Refused, Handlers!HeadersDone

LEMMA AtURIImplements ==
  ASSUME NEW h, IsHttp(h), Len(h.buffer) <= h.held
  PROVE  /\ Seen(AtURI(h)) \in Handlers!AtURI(Seen(h))
         /\ Len(AtURI(h).buffer) <= AtURI(h).held
<1> DEFINE r == Find(h.buffer, "r", 1)
           line == ParseLine(SubSeq(h.buffer, 1, r - 1))
           g == AtURI(h)
<1>1. Len(h.buffer) \in Nat /\ h.held \in Nat
  BY LenProperties DEF IsHttp
<1>2. CASE h.processState # "URI" \/ r = 0
  <2>1. g = h
    BY <1>2 DEF AtURI
  <2>2. Seen(h) \in Handlers!AtURI(Seen(h))
    BY DEF Handlers!AtURI, Handlers!ParseURI
  <2> QED
    BY <2>1, <2>2
<1>3. CASE h.processState = "URI" /\ r # 0
  <2>1. /\ r \in 1 .. Len(h.buffer) /\ g.buffer = From(h.buffer, r + 1) /\ g.held = h.held
        /\ g.hasError = (h.hasError \/ ~line.ok)
        /\ g.processState = (IF line.ok THEN "HEADER" ELSE "URI")
    BY <1>3, AtURIFields
  <2>2. Len(g.buffer) <= g.held /\ h.held > 0
    BY <1>1, <2>1, Suffix DEF IsHttp
  <2>3. Handlers!AtURI(Seen(h)) = Handlers!ParseURI(Seen(h)) /\ Seen(h).readBuffer > 0
    BY <1>3, <2>2, SeenFields DEF Handlers!AtURI
  <2>4. CASE line.ok
    <3>1. g.hasError = h.hasError /\ g.processState = "HEADER"
      BY <2>1, <2>4 DEF IsHttp
    <3>2. Seen(g) = [Seen(h) EXCEPT !.processState = g.processState]
      BY <2>1, <3>1, SeenChanges, Zenon
    <3> QED
      BY <2>2, <2>3, <3>1, <3>2 DEF Handlers!ParseURI
  <2>5. CASE ~line.ok
    <3>1. g.hasError = TRUE /\ g.processState = h.processState
      BY <1>3, <2>1, <2>5
    <3>2. Seen(g) = Handlers!Refused(Seen(h))
      BY <2>1, <3>1, SeenChanges, Zenon
    <3> QED
      BY <2>2, <2>3, <3>2 DEF Handlers!ParseURI
  <2> QED
    BY <2>4, <2>5
<1> QED
  BY <1>2, <1>3

LEMMA AtHeadersImplements ==
  ASSUME NEW h, IsHttp(h), Len(h.buffer) <= h.held,
         h.processState = "HEADER" /\ ~h.hasError => h.lineState # "END_LF"
  PROVE  /\ Seen(AtHeaders(h)) \in Handlers!AtHeaders(Seen(h))
         /\ Len(AtHeaders(h).buffer) <= AtHeaders(h).held
<1> DEFINE a == ParseHeaders(h)
           g == AtHeaders(h)
           x == Seen(h)
<1>1. Len(h.buffer) \in Nat /\ h.held \in Nat
  BY LenProperties DEF IsHttp
<1>2. CASE h.processState # "HEADER" \/ h.hasError
  <2>1. g = h
    BY <1>2 DEF AtHeaders
  <2>2. Seen(h) \in Handlers!AtHeaders(Seen(h))
    BY <1>2, SeenFields DEF Handlers!AtHeaders
  <2> QED
    BY <2>1, <2>2
<1>3. CASE h.processState = "HEADER" /\ ~h.hasError
  <2>1. /\ Bounds(a, Len(h.buffer))
        /\ g.hasError = (a.result = "ERROR") /\ h.hasError = FALSE
        /\ a.result = "ERROR" => g.processState = "HEADER" /\ g.buffer = h.buffer /\ g.held = h.held
        /\ a.result # "ERROR" /\ a.state # "END_LF" =>
             g.processState = "HEADER" /\ g.buffer = From(h.buffer, a.lineBegin) /\ g.held = h.held
        /\ a.result # "ERROR" /\ a.state = "END_LF" =>
             /\ g.processState = IF h.method = "GET" THEN "PROCESS" ELSE "BODY"
             /\ g.buffer = From(h.buffer, a.next) /\ g.held = Len(h.buffer) - a.next + 1
    <3> HIDE DEF a, g
    <3> QED
      BY <1>3, AtHeadersFields DEF a, g, IsHttp
  <2>2. Handlers!AtHeaders(x) = Handlers!ParseHeaders(x) /\ x.readBuffer = h.held
    BY <1>3, SeenFields DEF Handlers!AtHeaders
  <2> HIDE DEF a, g, x
  <2>3. CASE a.result = "ERROR"
    <3>1. 1 <= Len(h.buffer)
      BY <2>1, <2>3 DEF Bounds
    <3>2. 0 < x.readBuffer
      BY <1>1, <2>2, <3>1
    <3>3. Seen(g) = Handlers!Refused(x)
      <4>1. g.held = h.held /\ g.processState = h.processState /\ g.hasError = TRUE
        BY <1>3, <2>1, <2>3
      <4> QED
        BY <4>1, SeenChanges, Zenon DEF x
    <3>4. Seen(g) \in Handlers!ParseHeaders(x)
      BY <3>2, <3>3 DEF Handlers!ParseHeaders
    <3> QED
      BY <2>1, <2>2, <2>3, <3>4 DEF g, x
  <2>4. CASE a.result # "ERROR" /\ a.state # "END_LF"
    <3>1. g.hasError = h.hasError /\ g.held = h.held /\ g.processState = h.processState
      BY <1>3, <2>1, <2>4
    <3>2. Seen(g) = x
      BY <3>1, SeenChanges, Zenon DEF x
    <3>3. a.lineBegin \in 1 .. Len(h.buffer) + 1
      BY <1>1, <2>1 DEF Bounds, IsScanner
    <3>4. Len(g.buffer) <= g.held
      BY <1>1, <2>1, <2>4, <3>3, Suffix DEF IsHttp
    <3>5. x \in Handlers!ParseHeaders(x)
      BY DEF Handlers!ParseHeaders
    <3> QED
      BY <2>2, <3>2, <3>4, <3>5 DEF g, x
  <2>5. CASE a.result # "ERROR" /\ a.state = "END_LF"
    <3>1. a.next \in 2 .. Len(h.buffer) + 1
      BY <1>1, <2>1, <2>5 DEF Bounds, IsScanner
    <3>2. Len(g.buffer) = g.held /\ g.held = Len(h.buffer) - a.next + 1
      <4>1. g.buffer = From(h.buffer, a.next) /\ g.held = Len(h.buffer) - a.next + 1
        BY <2>1, <2>5
      <4>2. h.buffer \in Seq(Symbol) /\ a.next \in 1 .. Len(h.buffer) + 1
        BY <1>1, <3>1 DEF IsHttp
      <4>3. Len(From(h.buffer, a.next)) = Len(h.buffer) - a.next + 1
        BY <4>2, Suffix
      <4> QED
        BY <4>1, <4>3
    <3>3. g.held \in 0 .. x.readBuffer - 1 /\ 0 < x.readBuffer /\ Len(g.buffer) <= g.held
      BY <1>1, <2>2, <3>1, <3>2
    <3>4. Seen(g) = Handlers!HeadersDone(x, g.processState, g.held)
      <4>1. g.hasError = h.hasError
        BY <2>1, <2>5
      <4> QED
        BY <4>1, SeenChanges, Zenon DEF x
    <3>5. g.processState \in {"PROCESS", "BODY"}
      BY <2>1, <2>5
    <3>6. Seen(g) \in Handlers!ParseHeaders(x)
      BY <3>3, <3>4, <3>5 DEF Handlers!ParseHeaders
    <3> QED
      BY <2>2, <3>3, <3>6 DEF g, x
  <2> QED
    BY <2>3, <2>4, <2>5 DEF g, x, a, Bounds, IsScanner
<1> QED
  BY <1>2, <1>3

-----------------------------------------------------------------------------
(* ParseURI on a request, from the symbol before it, from its first symbol *)
(* or from its second.                                                     *)

LEMMA Found ==
  ASSUME NEW s, NEW symbol, Len(s) \in Nat, NEW from \in Nat, from >= 1,
         NEW k, k = Find(s, symbol, from), k # 0
  PROVE  k \in from .. Len(s) /\ s[k] = symbol /\ \A j \in from .. k - 1 : s[j] # symbol
BY FindSpec

\* Where the parts of a request line are.
Parts(r, slash, space, version) ==
  /\ slash < space /\ space < version /\ version + 1 < r.line
  /\ r.text[slash] = "/" /\ \A j \in 1 .. slash - 1 : r.text[j] # "/"
  /\ r.text[space] = "SP" /\ \A j \in slash .. space - 1 : r.text[j] # "SP"
  /\ r.text[version] = "/" /\ \A j \in space .. version - 1 : r.text[j] # "/"
  /\ r.text[version + 1] \in {"1.0", "1.1"} /\ r.path = Path(r.text, slash, space)
  /\ r.text[r.line] = "r" /\ \A j \in 1 .. r.line - 1 : r.text[j] # "r"
  /\ r.text[1] = r.method /\ r.method \in {"GET", "POST"}
  /\ \A j \in 2 .. r.line - 1 : r.text[j] \notin {"GET", "POST"}

LEMMA LineParts ==
  ASSUME NEW r, Len(r.text) \in Nat, r.line \in 1 .. Len(r.text), RequestLine(r)
  PROVE  \E slash, space, version \in 1 .. Len(r.text) : Parts(r, slash, space, version)
<1> DEFINE slash   == Find(r.text, "/", 1)
           space   == Find(r.text, "SP", slash)
           version == Find(r.text, "/", space)
           n       == Len(r.text)
<1>1. /\ Find(r.text, "r", 1) = r.line
      /\ 0 < slash /\ slash < space /\ space < version /\ version + 1 < r.line
      /\ r.text[version + 1] \in {"1.0", "1.1"}
      /\ r.path = Path(r.text, slash, space)
      /\ r.text[1] = r.method /\ r.method \in {"GET", "POST"}
      /\ \A j \in 2 .. r.line - 1 : r.text[j] \notin {"GET", "POST"}
  BY DEF RequestLine
<1>2. r.text[r.line] = "r" /\ \A j \in 1 .. r.line - 1 : r.text[j] # "r"
  BY <1>1, Found
<1>3. slash \in 1 .. n /\ r.text[slash] = "/" /\ \A j \in 1 .. slash - 1 : r.text[j] # "/"
  BY <1>1, Found
<1>4. space \in slash .. n /\ r.text[space] = "SP" /\ \A j \in slash .. space - 1 : r.text[j] # "SP"
  <2>1. slash \in Nat /\ slash >= 1 /\ space # 0
    BY <1>1, <1>3
  <2> HIDE DEF slash
  <2> QED
    BY <2>1, Found
<1>5. version \in space .. n /\ r.text[version] = "/" /\ \A j \in space .. version - 1 : r.text[j] # "/"
  <2>1. space \in Nat /\ space >= 1 /\ version # 0
    BY <1>1, <1>3, <1>4
  <2> HIDE DEF space
  <2> QED
    BY <2>1, Found
<1>6. slash \in 1 .. n /\ space \in 1 .. n /\ version \in 1 .. n
  BY <1>3, <1>4, <1>5
<1> HIDE DEF slash, space, version
<1>7. Parts(r, slash, space, version)
  BY <1>1, <1>2, <1>3, <1>4, <1>5 DEF Parts
<1> QED
  BY <1>6, <1>7

\* U is what has been sent of a text, from d symbols behind its first on.  In
\* front of the first there is the LF of the last request.
Reads(U, t, d) ==
  /\ \A x \in 1 .. Len(U) : x + d \in 1 .. Len(t) => U[x] = t[x + d]
  /\ d = -1 => U[1] = "LF"

LEMMA LineFound ==
  ASSUME NEW r, r.text \in Seq(Symbol), r.line \in 1 .. Len(r.text), RequestLine(r),
         NEW U \in Seq(Symbol), NEW d \in {-1, 0, 1}, Reads(U, r.text, d),
         NEW e, e = Find(U, "r", 1), e # 0,
         NEW line, line = ParseLine(SubSeq(U, 1, e - 1))
  PROVE  /\ e = r.line - d
         /\ line.ok => d # 1 /\ line.method = r.method /\ line.path = r.path
         /\ d # 1 => line.ok
<1> DEFINE n == Len(r.text)
           t == r.text
           L == SubSeq(U, 1, e - 1)
<1>1. Len(U) \in Nat /\ n \in Nat
  BY LenProperties
<1>2. e \in 1 .. Len(U) /\ U[e] = "r" /\ \A j \in 1 .. e - 1 : U[j] # "r"
  BY <1>1, Found
<1>3. PICK slash \in 1 .. n, space \in 1 .. n, version \in 1 .. n : Parts(r, slash, space, version)
  BY <1>1, LineParts
<1> HIDE DEF n, t, L
<1>4. e = r.line - d
  <2>1. /\ r.line \in 1 .. n /\ r.line > 3 /\ t[r.line] = "r"
        /\ \A j \in 1 .. r.line - 1 : t[j] # "r"
    BY <1>1, <1>3 DEF Parts, n, t
  <2>2. ~(e < r.line - d)
    <3>1. SUFFICES ASSUME e < r.line - d PROVE FALSE
      OBVIOUS
    <3>2. CASE e + d = 0
      <4>1. e = 1 /\ d = -1
        BY <1>1, <1>2, <3>2
      <4> QED
        BY <1>2, <4>1 DEF Reads
    <3>3. CASE e + d # 0
      <4>1. e + d \in 1 .. r.line - 1 /\ e + d \in 1 .. n
        <5> DEFINE b == r.line
        <5>1. b \in 1 .. n /\ n \in Nat
          BY <1>1, <2>1
        <5>2. e \in Nat /\ e >= 1
          BY <1>1, <1>2
        <5>3. e < b - d /\ e + d # 0
          BY <3>1, <3>3
        <5> HIDE DEF b
        <5>4. e + d \in 1 .. b - 1 /\ e + d \in 1 .. n
          BY <5>1, <5>2, <5>3
        <5> QED
          BY <5>4 DEF b
      <4>2. U[e] = t[e + d]
        BY <1>2, <4>1 DEF n, t, Reads
      <4> QED
        BY <1>2, <2>1, <4>1, <4>2
    <3> QED
      BY <3>2, <3>3
  <2>3. ~(e > r.line - d)
    <3>1. SUFFICES ASSUME e > r.line - d PROVE FALSE
      OBVIOUS
    <3>2. r.line - d \in 1 .. e - 1 /\ r.line - d \in 1 .. Len(U) /\ (r.line - d) + d = r.line
      BY <1>1, <1>2, <2>1, <3>1
    <3>3. U[r.line - d] = t[r.line]
      BY <2>1, <3>2 DEF n, t, Reads
    <3> QED
      BY <1>2, <2>1, <3>2, <3>3
  <2> QED
    BY <1>1, <1>2, <2>1, <2>2, <2>3
<1>5. L \in Seq(Symbol) /\ Len(L) = r.line - d - 1 /\ \A x \in 1 .. Len(L) : L[x] = U[x]
  <2>1. (\A x \in 1 .. e - 1 : U[x] \in Symbol) /\ e - 1 \in Nat
    BY <1>1, <1>2, ElementOfSeq
  <2>2. /\ L \in Seq(Symbol) /\ Len(L) = IF 1 <= e - 1 THEN (e - 1) - 1 + 1 ELSE 0
        /\ \A x \in 1 .. (e - 1) - 1 + 1 : L[x] = U[1 + x - 1]
    BY <2>1, SubSeqProperties DEF L
  <2> QED
    BY <1>1, <1>2, <1>4, <2>1, <2>2
<1>6. /\ Len(L) \in Nat
      /\ \A x \in 1 .. Len(L) : x + d # 0 => L[x] = t[x + d]
      /\ d = -1 => L[1] = "LF" /\ Len(L) >= 1
  <2>1. ASSUME NEW x \in 1 .. Len(L), x + d # 0
        PROVE  x + d \in 1 .. n /\ x \in 1 .. Len(U)
    <3> DEFINE l == Len(L)
               m == Len(U)
    <3>1. l = r.line - d - 1 /\ l = e - 1 /\ r.line \in Nat /\ r.line >= 1 /\ r.line <= n
      BY <1>1, <1>4, <1>5 DEF n
    <3>2. e \in 1 .. m /\ m \in Nat /\ n \in Nat /\ x \in 1 .. l
      BY <1>1, <1>2, <2>1
    <3> HIDE DEF l, m
    <3>3. x + d \in 1 .. n
      <4>1. x \in Nat /\ x >= 1 /\ x <= r.line - d - 1
        BY <3>1, <3>2
      <4> QED
        BY <2>1, <3>1, <3>2, <4>1
    <3>4. x \in 1 .. m
      BY <3>1, <3>2
    <3> QED
      BY <3>3, <3>4 DEF m
  <2>2. \A x \in 1 .. Len(L) : x + d # 0 => U[x] = t[x + d]
    BY <2>1 DEF Reads, n, t
  <2>3. Len(L) \in Nat /\ Len(L) >= 1
    BY <1>1, <1>3, <1>5, LenProperties DEF Parts, n
  <2>4. d = -1 => U[1] = "LF"
    BY DEF Reads
  <2> QED
    BY <1>5, <2>2, <2>3, <2>4
<1>7. line = ParseLine(L)
  BY DEF L
<1>8. CASE d = 1
  <2>1. \A x \in 1 .. Len(L) : L[x] \notin {"GET", "POST"}
    <3>1. \A x \in 1 .. Len(L) : x + 1 \in 2 .. r.line - 1 /\ L[x] = t[x + 1]
      BY <1>1, <1>5, <1>6, <1>8 DEF n
    <3> QED
      BY <1>3, <3>1 DEF Parts, t
  <2>2. ASSUME NEW symbol \in {"GET", "POST"} PROVE Find(L, symbol, 1) = 0
    BY <1>6, <2>1, <2>2, Found
  <2>3. ~ParseLine(L).ok
    BY <2>2 DEF ParseLine
  <2> QED
    BY <1>4, <1>7, <1>8, <2>3
<1>9. CASE d \in {-1, 0}
  <2> DEFINE k == 1 - d
             get    == Find(L, "GET", 1)
             method == IF get # 0 THEN get ELSE Find(L, "POST", 1)
  <2>1. k \in 1 .. Len(L) /\ L[k] = r.method /\ \A x \in 1 .. k - 1 : L[x] = "LF"
    <3>1. k \in 1 .. Len(L) /\ k + d = 1 /\ (d = -1 \/ k = 1)
      <4>1. r.line \in Nat /\ r.line > 3
        BY <1>1, <1>3 DEF n, Parts
      <4> QED
        BY <1>5, <1>9, <4>1
    <3>2. L[k] = t[1]
      BY <1>6, <3>1
    <3>3. \A x \in 1 .. k - 1 : x = 1 /\ d = -1
      BY <1>9
    <3> QED
      BY <1>3, <1>6, <3>1, <3>2, <3>3 DEF Parts, t
  <2>2. \A x \in k + 1 .. Len(L) : L[x] \notin {"GET", "POST"}
    <3>1. \A x \in k + 1 .. Len(L) : x \in 1 .. Len(L) /\ x + d \in 2 .. r.line - 1
      BY <1>1, <1>5, <1>6, <1>9 DEF n
    <3>2. \A x \in k + 1 .. Len(L) : L[x] = t[x + d] /\ x + d \in 2 .. r.line - 1
      BY <1>6, <1>9, <3>1
    <3> QED
      BY <1>3, <3>2 DEF Parts, t
  <2>3. method = k
    <3> HIDE DEF k
    <3>1. CASE r.method = "GET"
      <4>1. \A x \in 1 .. k - 1 : L[x] # "GET"
        BY <2>1
      <4>2. get = k
        BY <1>6, <2>1, <3>1, <4>1, FindAt
      <4> QED
        BY <2>1, <4>2
    <3>2. CASE r.method = "POST"
      <4>1. \A x \in 1 .. k - 1 : L[x] # "POST" /\ L[x] # "GET"
        BY <2>1
      <4>2. \A x \in 1 .. Len(L) : L[x] # "GET"
        <5>1. \A x \in 1 .. Len(L) : x \in 1 .. k - 1 \/ x = k \/ x \in k + 1 .. Len(L)
          BY <1>6, <2>1
        <5> QED
          BY <2>1, <2>2, <3>2, <4>1, <5>1
      <4>3. get = 0
        BY <1>6, <4>2, Found
      <4>4. Find(L, "POST", 1) = k
        BY <1>6, <2>1, <3>2, <4>1, FindAt
      <4> QED
        BY <4>3, <4>4
    <3> QED
      BY <1>3, <3>1, <3>2 DEF Parts
  <2>4. ASSUME NEW from \in 1 .. n, NEW place \in from .. n, place + 1 < r.line,
               NEW symbol, t[place] = symbol, \A j \in from .. place - 1 : t[j] # symbol
        PROVE  Find(L, symbol, from - d) = place - d
    <3>1. from - d \in Nat /\ from - d >= 1 /\ place - d \in from - d .. Len(L)
      <4> DEFINE b == r.line
                 l == Len(L)
      <4>1. b \in Nat /\ n \in Nat
        BY <1>1 DEF n
      <4>2. l = b - d - 1 /\ place + 1 < b
        BY <1>5, <2>4
      <4> HIDE DEF b, l, n
      <4>3. from \in Nat /\ from >= 1 /\ place \in Nat /\ from <= place
        BY <4>1
      <4>4. from - d \in Nat /\ from - d >= 1 /\ place - d \in from - d .. l
        BY <1>9, <4>1, <4>2, <4>3
      <4> QED
        BY <4>4 DEF l
    <3>2. \A j \in from - d .. place - d : j + d \in from .. place /\ L[j] = t[j + d]
      <4> DEFINE l == Len(L)
      <4>1. l \in Nat /\ from - d >= 1 /\ place - d <= l
        BY <1>6, <3>1
      <4> HIDE DEF l, n
      <4>2. from \in Nat /\ from >= 1 /\ place \in Nat
        BY <1>1 DEF n
      <4>3. \A j \in from - d .. place - d : j + d \in from .. place /\ j \in 1 .. Len(L) /\ j + d # 0
        BY <1>9, <4>1, <4>2 DEF l
      <4> QED
        BY <1>6, <4>3
    <3>3. L[place - d] = symbol
      <4>1. place - d \in from - d .. place - d /\ (place - d) + d = place
        BY <1>1, <1>9, <3>1
      <4> QED
        BY <2>4, <3>2, <4>1
    <3>4. \A j \in from - d .. place - d - 1 : L[j] # symbol
      <4>1. \A j \in from - d .. place - d - 1 : j \in from - d .. place - d /\ j + d \in from .. place - 1
        BY <1>1, <1>9, <3>1
      <4> QED
        BY <2>4, <3>2, <4>1
    <3> DEFINE f == from - d
               g == place - d
    <3>5. f \in Nat /\ f >= 1 /\ g \in f .. Len(L) /\ L[g] = symbol /\ \A j \in f .. g - 1 : L[j] # symbol
      BY <3>1, <3>3, <3>4
    <3> HIDE DEF f, g
    <3>6. Find(L, symbol, f) = g
      BY <1>6, <3>5, FindAt
    <3> QED
      BY <3>6 DEF f, g
  <2>5. Find(L, "/", k) = slash - d
    <3>1. 1 \in 1 .. n /\ slash \in 1 .. n /\ slash + 1 < r.line
      BY <1>1, <1>3 DEF Parts, n
    <3>2. t[slash] = "/" /\ \A j \in 1 .. slash - 1 : t[j] # "/"
      BY <1>3 DEF Parts, t
    <3> HIDE DEF k
    <3> QED
      BY <2>4, <3>1, <3>2 DEF k
  <2>6. Find(L, "SP", slash - d) = space - d
    <3>1. space \in slash .. n /\ space + 1 < r.line
      BY <1>1, <1>3 DEF Parts, n
    <3> QED
      BY <1>1, <1>3, <2>4, <3>1 DEF Parts, t
  <2>7. Find(L, "/", space - d) = version - d
    <3>1. version \in space .. n /\ version + 1 < r.line
      BY <1>1, <1>3 DEF Parts, n
    <3> QED
      BY <1>1, <1>3, <2>4, <3>1 DEF Parts, t
  <2>8. Version(L, space - d) \in {"1.0", "1.1"}
    <3>1. version - d # 0 /\ version - d # Len(L) /\ version - d + 1 \in 1 .. Len(L) /\ (version - d + 1) + d = version + 1
      BY <1>1, <1>3, <1>5, <1>6, <1>9 DEF n, Parts
    <3>2. L[version - d + 1] = t[version + 1]
      BY <1>1, <1>3, <1>6, <3>1 DEF n
    <3>3. t[version + 1] \in {"1.0", "1.1"}
      BY <1>3 DEF Parts, t
    <3> QED
      BY <2>7, <3>1, <3>2, <3>3 DEF Version
  <2>9. SubSeq(L, (slash - d) + 1, (space - d) - 1) = SubSeq(t, slash + 1, space - 1)
    <3> DEFINE one == SubSeq(L, (slash - d) + 1, (space - d) - 1)
               two == SubSeq(t, slash + 1, space - 1)
    <3>1. slash \in Nat /\ space \in Nat /\ slash + 1 <= space /\ space < r.line
      BY <1>1, <1>3 DEF Parts, n
    <3>2. (slash - d) + 1 \in Int /\ (space - d) - 1 \in Int /\ slash + 1 \in Int /\ space - 1 \in Int
      BY <1>9, <3>1
    <3>3. \A j \in slash + 1 .. space - 1 : t[j] \in Symbol
      <4>1. \A j \in slash + 1 .. space - 1 : j \in 1 .. n
        BY <1>1, <1>3, <3>1
      <4> QED
        BY <4>1, ElementOfSeq DEF n, t
    <3>4. \A j \in (slash - d) + 1 .. (space - d) - 1 : L[j] \in Symbol /\ L[j] = t[j + d]
      <4> DEFINE b == r.line
                 l == Len(L)
      <4>1. b \in Nat /\ l = b - d - 1
        BY <1>5
      <4> HIDE DEF b, l
      <4>2. slash \in Nat /\ space \in Nat /\ slash >= 1 /\ space < b
        BY <1>1, <3>1 DEF b, n
      <4>3. \A j \in (slash - d) + 1 .. (space - d) - 1 : j \in 1 .. l /\ j + d # 0
        BY <1>9, <4>1, <4>2
      <4>4. \A j \in (slash - d) + 1 .. (space - d) - 1 : j \in 1 .. Len(L) /\ j + d # 0
        BY <4>3 DEF l
      <4> QED
        BY <1>5, <1>6, <4>4, ElementOfSeq
    <3>5. /\ two \in Seq(Symbol)
          /\ Len(two) = IF slash + 1 <= space - 1 THEN (space - 1) - (slash + 1) + 1 ELSE 0
          /\ \A i \in 1 .. (space - 1) - (slash + 1) + 1 : two[i] = t[(slash + 1) + i - 1]
      BY <3>2, <3>3, SubSeqProperties
    <3>6. /\ one \in Seq(Symbol)
          /\ Len(one) = IF (slash - d) + 1 <= (space - d) - 1 THEN ((space - d) - 1) - ((slash - d) + 1) + 1 ELSE 0
          /\ \A i \in 1 .. ((space - d) - 1) - ((slash - d) + 1) + 1 : one[i] = L[((slash - d) + 1) + i - 1]
      BY <3>2, <3>4, SubSeqProperties
    <3> HIDE DEF one, two
    <3>7. Len(one) = Len(two) /\ Len(two) = space - slash - 1
      <4>1. Len(two) = IF slash + 1 <= space - 1 THEN (space - 1) - (slash + 1) + 1 ELSE 0
        BY <3>5
      <4>2. Len(one) = IF (slash - d) + 1 <= (space - d) - 1 THEN ((space - d) - 1) - ((slash - d) + 1) + 1 ELSE 0
        BY <3>6
      <4> QED
        BY <1>9, <3>1, <4>1, <4>2
    <3>8. ASSUME NEW i \in 1 .. Len(one) PROVE one[i] = two[i]
      <4>1. one[i] = L[slash - d + i]
        BY <1>9, <3>1, <3>6, <3>7
      <4>2. L[slash - d + i] = t[slash + i]
        <5>1. i \in 1 .. space - slash - 1
          BY <3>7
        <5>2. slash - d + i \in (slash - d) + 1 .. (space - d) - 1 /\ (slash - d + i) + d = slash + i
          BY <1>9, <3>1, <5>1
        <5> QED
          BY <3>4, <5>2
      <4>3. two[i] = t[slash + i]
        BY <3>1, <3>5, <3>7
      <4> QED
        BY <4>1, <4>2, <4>3
    <3>9. one = two
      BY <3>5, <3>6, <3>7, <3>8, SeqEqual
    <3> QED
      BY <3>9 DEF one, two
  <2>10. Path(L, slash - d, space - d) = r.path
    <3>1. r.path = Path(t, slash, space)
      BY <1>3 DEF Parts, t
    <3> QED
      BY <2>9, <3>1 DEF Path
  <2>11. k # 0 /\ slash - d # 0 /\ space - d # 0
    <3>1. 1 < slash /\ slash < space /\ slash \in Nat /\ space \in Nat /\ d \in {-1, 0}
      BY <1>1, <1>3, <1>9 DEF Parts, n
    <3>2. slash - d # 0 /\ space - d # 0
      BY <3>1
    <3>3. k # 0
      BY <3>1
    <3> QED
      BY <3>2, <3>3
  <2>12. line = [ok |-> TRUE, method |-> L[k], path |-> Path(L, slash - d, space - d)]
    <3> DEFINE f == slash - d
               g == space - d
    <3>1. Find(L, "/", k) = f /\ f # 0 /\ k # 0
      BY <2>5, <2>11
    <3>2. Find(L, "SP", f) = g /\ g # 0 /\ Version(L, g) \in {"1.0", "1.1"}
      BY <2>6, <2>8, <2>11
    <3> HIDE DEF k, f, g
    <3>3. line = [ok |-> TRUE, method |-> L[k], path |-> Path(L, f, g)]
      BY <1>7, <2>3, <3>1, <3>2 DEF ParseLine
    <3> QED
      BY <3>3 DEF f, g
  <2>13. line.ok /\ line.method = r.method /\ line.path = r.path
    <3> HIDE DEF k, t, L
    <3>1. line.ok /\ line.method = L[k] /\ line.path = Path(L, slash - d, space - d)
      BY <2>12
    <3>2. L[k] = r.method
      BY <2>1
    <3> QED
      BY <2>10, <3>1, <3>2
  <2>14. d # 1
    BY <1>9
  <2> QED
    BY <1>4, <2>13, <2>14
<1> QED
  BY <1>8, <1>9

-----------------------------------------------------------------------------
(* ParseHeaders in a block, from the beginning of a line or the LF in      *)
(* front of it on, in whatever state the last call has left.               *)

\* What a block is to the symbols x and y at q and q + 1.
Neighbours(x, y, q, n) ==
  /\ y = "LF" => x = "CR"
  /\ y = "CR" => x # "SP"
  /\ y = "CR" /\ x = "LF" => q + 1 = n - 1
  /\ q + 1 = n - 2 => x = "CR" /\ y = "LF"
  /\ q + 1 = n - 1 => x = "LF" /\ y = "CR"
  /\ q + 1 = n => x = "CR" /\ y = "LF"

\* A call starts at p, on the symbol z, in the state st.
Starts(st, z, p, n) ==
  /\ p \in 1 .. n - 2 /\ z # "CR"
  /\ st \in LineState /\ st # "END_LF"
  /\ st = "START" => z # "LF"
  /\ st = "LF" => z = "LF"
  /\ st = "END_CR" => p = n - 2
  /\ p = n - 2 => z = "LF" /\ st \in {"LF", "END_CR"}

\* Where it is behind the symbol x at q, the i-th it reads: s is the state, lb
\* the place where it has seen the last line begin.
Here(s, lb, x, i, p, n, st) ==
  /\ lb \in Nat
  /\ lb = 1 \/ (2 <= lb /\ lb <= i /\ p + lb - 1 <= n - 2)
  /\ i = 0 => s = st
  /\ i > 0 =>
       /\ p + i - 1 <= n /\ s # "START"
       /\ s = "LF" => x = "LF" /\ lb = i
       /\ s = "END_CR" => p + i - 1 = n - 1 /\ i >= 2 /\ lb = i - 1
       /\ s = "END_LF" => p + i - 1 = n \/ (i = 1 /\ p = n - 2 /\ st = "END_CR")
       /\ s = "SPACES" => x = "SP"
       /\ x = "CR" => s = IF p + i - 1 = n - 1 THEN "END_CR" ELSE "CR"
       /\ x = "LF" /\ i > 1 => s = IF p + i - 1 = n THEN "END_LF" ELSE "LF"
       /\ p = n - 2 => i = 1 /\ s \in {"KEY", "END_LF"}
       /\ lb > 1 /\ p + lb - 1 = n - 2 => s \in {"LF", "END_CR", "END_LF"}

LEMMA BlockNeighbours ==
  ASSUME NEW r, r.text \in Seq(Symbol), r.line \in 1 .. Len(r.text), HeaderBlock(r),
         NEW q \in r.line + 1 .. Len(r.text) - 1
  PROVE  Neighbours(r.text[q], r.text[q + 1], q, Len(r.text))
<1> DEFINE n == Len(r.text)
           t == r.text
<1>1. n \in Nat /\ q \in Nat
  BY LenProperties
<1>2. q + 1 \in r.line + 2 .. n /\ (q + 1) - 1 = q
  BY <1>1
<1>3. /\ t[q + 1] = "LF" => t[q] = "CR"
      /\ t[q + 1] = "CR" => t[q] # "SP"
      /\ t[q + 1] = "CR" /\ t[q] = "LF" => q + 1 = n - 1
  <2> HIDE DEF n, t
  <2>1. /\ t[q + 1] = "LF" => t[(q + 1) - 1] = "CR"
        /\ t[q + 1] = "CR" => t[(q + 1) - 1] # "SP"
        /\ t[q + 1] = "CR" /\ t[(q + 1) - 1] = "LF" => q + 1 = n - 1
    BY <1>2 DEF HeaderBlock, n, t
  <2> QED
    BY <1>2, <2>1
<1>4. t[n - 3] = "CR" /\ t[n - 2] = "LF" /\ t[n - 1] = "CR" /\ t[n] = "LF"
  BY DEF HeaderBlock
<1>5. q + 1 = n - 2 => q = n - 3
  BY <1>1
<1>6. q + 1 = n - 1 => q = n - 2
  BY <1>1
<1>7. q + 1 = n => q = n - 1
  BY <1>1
<1> HIDE DEF n, t
<1> QED
  BY <1>3, <1>4, <1>5, <1>6, <1>7 DEF Neighbours, n, t

\* One symbol more.
LEMMA Advance ==
  ASSUME NEW n \in Nat, NEW p \in Nat, NEW i \in Nat, NEW st, NEW x, NEW y,
         NEW s \in LineState, s # "END_LF", NEW lb,
         Here(s, lb, x, i, p, n, st), p + i <= n,
         i = 0 => Starts(st, y, p, n), i > 0 => Neighbours(x, y, p + i - 1, n),
         1 <= p /\ p <= n - 2 /\ (p = n - 2 => st \in {"LF", "END_CR"}),
         NEW s2, NEW lb2,
         lb2 = IF (s = "START" /\ s2 = "KEY") \/ (s = "CR" /\ s2 = "LF") THEN i + 1 ELSE lb,
         \/ s = "START" /\ s2 = "KEY" /\ y \notin {"CR", "LF"}
         \/ s = "START" /\ s2 = "START" /\ y \in {"CR", "LF"}
         \/ s = "KEY" /\ s2 \in {"KEY", "COLON"} /\ y \notin {"CR", "LF"}
         \/ s = "COLON" /\ s2 = "SPACES" /\ y = "SP"
         \/ s = "SPACES" /\ s2 = "VALUE"
         \/ s = "VALUE" /\ s2 = "VALUE" /\ y # "CR"
         \/ s = "VALUE" /\ s2 = "CR" /\ y = "CR"
         \/ s = "CR" /\ s2 = "LF" /\ y = "LF"
         \/ s = "LF" /\ s2 = "KEY" /\ y # "CR"
         \/ s = "LF" /\ s2 = "END_CR" /\ y = "CR"
         \/ s = "END_CR" /\ s2 = "END_LF" /\ y = "LF"
  PROVE  Here(s2, lb2, y, i + 1, p, n, st)
<1> DEFINE q == p + i - 1
<1>1. q \in Int /\ q + 1 = p + i /\ p + (i + 1) - 1 = q + 1 /\ lb \in Nat /\ i + 1 > 0 /\ i + 1 # 0 /\ p >= 1
  BY DEF Here
<1> HIDE DEF q
<1>2. CASE i = 0
  <2>1. /\ q + 1 = p /\ y # "CR" /\ s = st /\ lb = 1
        /\ s = "START" => y # "LF"
        /\ s = "LF" => y = "LF"
        /\ s = "END_CR" => p = n - 2
        /\ p = n - 2 => y = "LF" /\ s \in {"LF", "END_CR"}
    BY <1>1, <1>2 DEF Here, Starts
  <2> QED
    BY <1>1, <1>2, <2>1 DEF Here
<1>3. CASE i > 0
  <2>1. /\ q <= n /\ s # "START"
        /\ lb = 1 \/ (2 <= lb /\ lb <= i /\ p + lb - 1 <= n - 2)
        /\ s = "LF" => x = "LF" /\ lb = i
        /\ s = "END_CR" => q = n - 1 /\ i >= 2 /\ lb = i - 1
        /\ s = "SPACES" => x = "SP"
        /\ x = "CR" => s = IF q = n - 1 THEN "END_CR" ELSE "CR"
        /\ x = "LF" /\ i > 1 => s = IF q = n THEN "END_LF" ELSE "LF"
        /\ p = n - 2 => i = 1 /\ s = "KEY"
        /\ lb > 1 /\ p + lb - 1 = n - 2 => s \in {"LF", "END_CR"}
    BY <1>3 DEF Here, q
  <2>2. /\ y = "LF" => x = "CR"
        /\ y = "CR" => x # "SP"
        /\ y = "CR" /\ x = "LF" => q + 1 = n - 1
        /\ q + 1 = n - 2 => x = "CR" /\ y = "LF"
        /\ q + 1 = n - 1 => x = "LF" /\ y = "CR"
        /\ q + 1 = n => x = "CR" /\ y = "LF"
    BY <1>3 DEF Neighbours, q
  <2>3. p # n - 2
    BY <1>1, <1>3, <2>1, <2>2 DEF q
  <2>4. CASE s = "KEY"
    BY <1>1, <1>3, <2>1, <2>2, <2>3, <2>4 DEF Here
  <2>5. CASE s = "COLON"
    BY <1>1, <1>3, <2>1, <2>2, <2>3, <2>5 DEF Here
  <2>6. CASE s = "SPACES"
    BY <1>1, <1>3, <2>1, <2>2, <2>3, <2>6 DEF Here
  <2>7. CASE s = "VALUE"
    BY <1>1, <1>3, <2>1, <2>2, <2>3, <2>7 DEF Here, q
  <2>8. CASE s = "CR"
    BY <1>1, <1>3, <2>1, <2>2, <2>3, <2>8 DEF Here, q
  <2>9. CASE s = "LF"
    BY <1>1, <1>3, <2>1, <2>2, <2>3, <2>9 DEF Here, q
  <2>10. CASE s = "END_CR"
    BY <1>1, <1>3, <2>1, <2>2, <2>3, <2>10 DEF Here, q
  <2> QED
    BY <2>1, <2>4, <2>5, <2>6, <2>7, <2>8, <2>9, <2>10 DEF LineState
<1> QED
  BY <1>2, <1>3
\* U is what has been sent of the text t, from p on.
Holds(U, t, p) == \A x \in 1 .. Len(U) : p + x - 1 <= Len(t) => U[x] = t[p + x - 1]

\* The loop behind the i-th symbol.
Scanned(a, i, r, p, st) ==
  /\ IsScanner(a)
  /\ a.result = "AGAIN" =>
       /\ a.next = i + 1
       /\ Here(a.state, a.lineBegin, r.text[p + i - 1], i, p, Len(r.text), st)
       /\ a.lineBegin = 1 \/ r.text[p + a.lineBegin - 1] = "LF"
  /\ a.result = "SUCCESS" =>
       /\ a.state = "END_LF"
       /\ a.next = Len(r.text) - p + 3 \/ (a.next = 3 /\ p = Len(r.text) - 2 /\ st = "END_CR")

\* A step of the loop that is not the last is one of those of Advance.
LEMMA MoveCases ==
  ASSUME NEW a, IsScanner(a), a.state # "END_LF", NEW b, NEW str, NEW i \in Nat, Moves(a, b, str, i),
         b.result = "AGAIN", NEW y, y = str[i]
  PROVE  \/ a.state = "START" /\ b.state = "KEY" /\ y \notin {"CR", "LF"}
         \/ a.state = "START" /\ b.state = "START" /\ y \in {"CR", "LF"}
         \/ a.state = "KEY" /\ b.state \in {"KEY", "COLON"} /\ y \notin {"CR", "LF"}
         \/ a.state = "COLON" /\ b.state = "SPACES" /\ y = "SP"
         \/ a.state = "SPACES" /\ b.state = "VALUE"
         \/ a.state = "VALUE" /\ b.state = "VALUE" /\ y # "CR"
         \/ a.state = "VALUE" /\ b.state = "CR" /\ y = "CR"
         \/ a.state = "CR" /\ b.state = "LF" /\ y = "LF"
         \/ a.state = "LF" /\ b.state = "KEY" /\ y # "CR"
         \/ a.state = "LF" /\ b.state = "END_CR" /\ y = "CR"
         \/ a.state = "END_CR" /\ b.state = "END_LF" /\ y = "LF"
<1>1. ~Refuses(a, str, i) /\ b.state = Goes(a, str, i)
  BY DEF Moves
<1>2. CASE a.state = "START"
  BY <1>1, <1>2 DEF Goes
<1>3. CASE a.state = "KEY"
  BY <1>1, <1>3 DEF Goes, Refuses
<1>4. CASE a.state = "COLON"
  BY <1>1, <1>4 DEF Goes, Refuses
<1>5. CASE a.state = "SPACES"
  BY <1>1, <1>5 DEF Goes
<1>6. CASE a.state = "VALUE"
  BY <1>1, <1>6 DEF Goes
<1>7. CASE a.state = "CR"
  BY <1>1, <1>7 DEF Goes, Refuses
<1>8. CASE a.state = "LF"
  BY <1>1, <1>8 DEF Goes
<1>9. CASE a.state = "END_CR"
  BY <1>1, <1>9 DEF Goes, Refuses
<1> QED
  BY <1>2, <1>3, <1>4, <1>5, <1>6, <1>7, <1>8, <1>9 DEF IsScanner, LineState

LEMMA BlockScan ==
  ASSUME NEW r, r.text \in Seq(Symbol), r.line \in 1 .. Len(r.text), HeaderBlock(r),
         NEW p \in r.line + 1 .. Len(r.text) - 2,
         NEW h, IsHttp(h), Holds(h.buffer, r.text, p),
         Starts(h.lineState, r.text[p], p, Len(r.text))
  PROVE  \A i \in 0 .. Len(h.buffer) : Scanned(ScanAll(h)[i], i, r, p, h.lineState)
<1> DEFINE n  == Len(r.text)
           t  == r.text
           U  == h.buffer
           st == h.lineState
           T  == {i \in Nat : Scanned(ScanAll(h)[i], i, r, p, st)}
<1>1. n \in Nat /\ Len(U) \in Nat /\ r.line \in Nat /\ p \in Nat /\ 1 <= p /\ p <= n - 2
  BY LenProperties DEF IsHttp
<1>2. 0 \in T
  <2>1. Here(st, 1, t[p + 0 - 1], 0, p, n, st)
    BY DEF Here
  <2> HIDE DEF n, t, U, st
  <2> QED
    BY <2>1, ScanStarts DEF Scanned, n, t, st
<1>3. ASSUME NEW i \in T, i \in 0 .. Len(U) - 1 PROVE i + 1 \in T
  <2> DEFINE a == ScanAll(h)[i]
             b == ScanAll(h)[i + 1]
             q == p + i - 1
  <2>1. i \in Nat /\ Scanned(a, i, r, p, st)
    BY <1>3
  <2>2. i + 1 \in 1 .. Len(U) /\ q + 1 = p + (i + 1) - 1 /\ q + 1 = p + i /\ q \in Int
    BY <1>1, <2>1, <1>3
  <2>3. /\ a.result # "AGAIN" => b = a
        /\ a.result = "AGAIN" => Moves(a, b, U, i + 1)
    <3>1. a = ScanAll(h)[(i + 1) - 1] /\ IsScanner(a)
      BY <2>1 DEF Scanned
    <3> HIDE DEF T, a, b, q
    <3> QED
      BY <2>2, <3>1, ScanStep DEF b
  <2> HIDE DEF T, n, t, U, st, a, b, q
  <2>4. CASE a.result # "AGAIN"
    <3>1. Scanned(b, i + 1, r, p, st)
      BY <2>1, <2>3, <2>4 DEF Scanned
    <3> QED
      BY <2>1, <3>1 DEF T, b
  <2>5. CASE a.result = "AGAIN"
    <3>1. /\ IsScanner(a) /\ a.next = i + 1 /\ Here(a.state, a.lineBegin, t[q], i, p, n, st)
          /\ a.lineBegin = 1 \/ t[p + a.lineBegin - 1] = "LF"
      BY <2>1, <2>5 DEF Scanned, t, n, q
    <3>2. Moves(a, b, U, i + 1)
      BY <2>3, <2>5
    <3>3. IsScanner(b) /\ b.next = (i + 1) + 1
      BY <3>2 DEF Moves
    <3>4. CASE b.result = "ERROR"
      <4>1. Scanned(b, i + 1, r, p, st)
        BY <3>3, <3>4 DEF Scanned
      <4> QED
        BY <2>1, <4>1 DEF T, b
    <3>5. CASE b.result = "SUCCESS"
      <4>1. a.state = "END_LF" /\ b.state = "END_LF"
        BY <3>2, <3>5 DEF Moves, Refuses, Goes
      <4>2. p + i - 1 = n \/ (i = 1 /\ p = n - 2 /\ st = "END_CR")
        <5>1. i # 0
          BY <3>1, <4>1 DEF Here, Starts, st
        <5> QED
          BY <2>1, <3>1, <4>1, <5>1 DEF Here
      <4>3. b.next = n - p + 3 \/ (b.next = 3 /\ p = n - 2 /\ st = "END_CR")
        BY <1>1, <2>1, <3>3, <4>2
      <4>4. Scanned(b, i + 1, r, p, st)
        BY <3>3, <3>5, <4>1, <4>3 DEF Scanned, n
      <4> QED
        BY <2>1, <4>4 DEF T, b
    <3>6. CASE b.result = "AGAIN"
      <4>1. a.state # "END_LF" /\ a.state \in LineState
        BY <3>1, <3>2, <3>6 DEF Moves, Refuses, IsScanner
      <4>2. p + i <= n
        <5>1. CASE i = 0
          BY <1>1, <5>1
        <5>2. CASE i > 0
          <6>1. q <= n /\ (t[q] = "LF" /\ i > 1 => a.state = IF q = n THEN "END_LF" ELSE "LF")
                /\ (p = n - 2 => i = 1)
            BY <3>1, <5>2 DEF Here, q
          <6>2. q = n => t[q] = "LF"
            BY DEF HeaderBlock, n, t
          <6>3. q # n
            <7>1. q = n => i > 1
              BY <1>1, <2>1 DEF q
            <7> QED
              BY <4>1, <6>1, <6>2, <7>1
          <6> QED
            BY <1>1, <2>1, <2>2, <6>1, <6>3
        <5> QED
          BY <2>1, <5>1, <5>2
      <4> DEFINE y == t[q + 1]
      <4>3. U[i + 1] = y
        <5>1. \A x \in 1 .. Len(U) : p + x - 1 <= n => U[x] = t[p + x - 1]
          BY DEF Holds, U, t, n
        <5>2. i + 1 \in 1 .. Len(U) /\ p + (i + 1) - 1 = q + 1 /\ q + 1 <= n
          BY <2>2, <4>2
        <5> QED
          BY <5>1, <5>2 DEF y
      <4>4. i = 0 => Starts(st, y, p, n)
        <5>1. i = 0 => q + 1 = p
          BY <1>1, <2>2
        <5> QED
          BY <5>1 DEF st, t, n
      <4>5. i > 0 => Neighbours(t[q], y, q, n)
        <5>1. i > 0 => q \in r.line + 1 .. n - 1
          BY <1>1, <2>1, <2>2, <4>2 DEF q, n
        <5> QED
          BY <5>1, BlockNeighbours DEF t, n
      <4> HIDE DEF y
      <4>6. \/ a.state = "START" /\ b.state = "KEY" /\ y \notin {"CR", "LF"}
            \/ a.state = "START" /\ b.state = "START" /\ y \in {"CR", "LF"}
            \/ a.state = "KEY" /\ b.state \in {"KEY", "COLON"} /\ y \notin {"CR", "LF"}
            \/ a.state = "COLON" /\ b.state = "SPACES" /\ y = "SP"
            \/ a.state = "SPACES" /\ b.state = "VALUE"
            \/ a.state = "VALUE" /\ b.state = "VALUE" /\ y # "CR"
            \/ a.state = "VALUE" /\ b.state = "CR" /\ y = "CR"
            \/ a.state = "CR" /\ b.state = "LF" /\ y = "LF"
            \/ a.state = "LF" /\ b.state = "KEY" /\ y # "CR"
            \/ a.state = "LF" /\ b.state = "END_CR" /\ y = "CR"
            \/ a.state = "END_CR" /\ b.state = "END_LF" /\ y = "LF"
        BY <2>1, <3>1, <3>2, <3>6, <4>1, <4>3, MoveCases
      <4>7. b.lineBegin = IF (a.state = "START" /\ b.state = "KEY") \/ (a.state = "CR" /\ b.state = "LF")
                            THEN i + 1 ELSE a.lineBegin
        BY <3>2 DEF Moves
      <4>8. p = n - 2 => st \in {"LF", "END_CR"}
        BY DEF Starts, st, n
      <4>9. Here(b.state, b.lineBegin, y, i + 1, p, n, st)
        BY <1>1, <2>1, <3>1, <4>1, <4>2, <4>4, <4>5, <4>6, <4>7, <4>8, Advance DEF q
      <4>10. b.lineBegin = 1 \/ t[p + b.lineBegin - 1] = "LF"
        <5>1. CASE a.state = "START" /\ b.state = "KEY"
          <6>1. i = 0
            BY <2>1, <3>1, <5>1 DEF Here
          <6> QED
            BY <4>7, <5>1, <6>1
        <5>2. CASE a.state = "CR" /\ b.state = "LF"
          <6>1. b.lineBegin = i + 1 /\ y = "LF"
            BY <4>6, <4>7, <5>2
          <6>2. p + (i + 1) - 1 = q + 1
            BY <2>2
          <6> QED
            BY <6>1, <6>2 DEF y
        <5>3. CASE b.lineBegin = a.lineBegin
          BY <3>1, <5>3
        <5> QED
          BY <4>7, <5>1, <5>2, <5>3
      <4>11. Scanned(b, i + 1, r, p, st)
        <5>1. Here(b.state, b.lineBegin, t[p + (i + 1) - 1], i + 1, p, n, st)
          BY <2>2, <4>9 DEF y
        <5> QED
          BY <3>3, <3>6, <4>10, <5>1 DEF Scanned, t, n
      <4> QED
        BY <2>1, <4>11 DEF T, b
    <3> QED
      BY <3>3, <3>4, <3>5, <3>6 DEF IsScanner
  <2> QED
    BY <2>4, <2>5
<1>4. \A i \in 0 .. Len(U) : i \in T
  <2> HIDE DEF T
  <2> QED
    BY <1>1, <1>2, <1>3, IndexInduction
<1> QED
  BY <1>4
\* Inside the block, with the buffer at p: what AtBlock says of an object.
InBlock(g, r, p) ==
  /\ p \in r.line + 1 .. Len(r.text) - 2 /\ r.text[p] # "CR"
  /\ g.lineState = "START" => p = r.line + 1 /\ g.buffer = <<>>
  /\ g.lineState # "START" => g.buffer # <<>>
  /\ g.lineState = "LF" => r.text[p] = "LF"
  /\ g.lineState = "END_CR" => p = Len(r.text) - 2 /\ Len(g.buffer) = 2
  /\ g.lineState # "END_LF"
  /\ p = Len(r.text) - 2 => g.lineState \in {"LF", "END_CR"}

\* Between two requests, c symbols behind the end of the last one.
OnLine(g, c) == c \in {-1, 0, 1} /\ (c = -1 => g.buffer # <<>> /\ g.buffer[1] = "LF")

\* What a call leaves that refuses nothing.
LEMMA BlockTurn ==
  ASSUME NEW r, r.text \in Seq(Symbol), r.line \in 1 .. Len(r.text), HeaderBlock(r),
         NEW p \in r.line + 1 .. Len(r.text) - 2,
         NEW h, IsHttp(h), Holds(h.buffer, r.text, p),
         Starts(h.lineState, r.text[p], p, Len(r.text)),
         h.processState = "HEADER", ~h.hasError,
         h.lineState = "START" => p = r.line + 1,
         h.lineState # "START" => Len(h.buffer) >= 2,
         h.lineState = "END_CR" => Len(h.buffer) >= 3,
         NEW g, g = AtHeaders(h), ~g.hasError
  PROVE  \/ /\ g.processState = "HEADER"
            /\ InBlock(g, r, p + Len(h.buffer) - Len(g.buffer))
         \/ /\ g.processState = IF h.method = "GET" THEN "PROCESS" ELSE "BODY"
            /\ OnLine(g, p + Len(h.buffer) - Len(g.buffer) - 1 - Len(r.text))
            /\ p + Len(h.buffer) - 1 >= Len(r.text)
<1> DEFINE n  == Len(r.text)
           t  == r.text
           U  == h.buffer
           k  == Len(U)
           st == h.lineState
           a  == ParseHeaders(h)
<1>1. n \in Nat /\ k \in Nat /\ p \in Nat /\ 1 <= p /\ p <= n - 2 /\ U \in Seq(Symbol)
  BY LenProperties DEF IsHttp
<1>2. Scanned(a, k, r, p, st) /\ Bounds(a, k)
  <2>1. k \in 0 .. Len(h.buffer)
    BY <1>1
  <2>2. h.lineState # "END_LF"
    BY DEF Starts
  <2> QED
    BY <2>1, <2>2, BlockScan, ScanBounds DEF ParseHeaders
<1>3. /\ g.lineState = a.state /\ a.result # "ERROR"
      /\ a.state # "END_LF" => g.processState = "HEADER" /\ g.buffer = From(U, a.lineBegin)
      /\ a.state = "END_LF" => /\ g.processState = IF h.method = "GET" THEN "PROCESS" ELSE "BODY"
                               /\ g.buffer = From(U, a.next)
  <2>1. h.lineState # "END_LF"
    BY DEF Starts
  <2>2. /\ g.lineState = a.state
        /\ g.hasError = (a.result = "ERROR")
        /\ a.result # "ERROR" /\ a.state # "END_LF" =>
             g.processState = "HEADER" /\ g.buffer = From(h.buffer, a.lineBegin)
        /\ a.result # "ERROR" /\ a.state = "END_LF" =>
             /\ g.processState = IF h.method = "GET" THEN "PROCESS" ELSE "BODY"
             /\ g.buffer = From(h.buffer, a.next)
    <3> HIDE DEF a
    <3> QED
      BY <2>1, AtHeadersFields DEF a
  <2> HIDE DEF a
  <2>3. a.result # "ERROR"
    BY <2>2
  <2> QED
    BY <2>2, <2>3
<1> HIDE DEF n, t, U, k, st, a
<1>4. /\ IsScanner(a)
      /\ a.result = "AGAIN" =>
           /\ a.next = k + 1
           /\ Here(a.state, a.lineBegin, t[p + k - 1], k, p, n, st)
           /\ a.lineBegin = 1 \/ t[p + a.lineBegin - 1] = "LF"
      /\ a.result = "SUCCESS" =>
           /\ a.state = "END_LF"
           /\ a.next = n - p + 3 \/ (a.next = 3 /\ p = n - 2 /\ st = "END_CR")
  BY <1>2 DEF Scanned, n, t
<1>5. /\ 1 <= a.next /\ a.next <= k + 1 /\ 1 <= a.lineBegin /\ (a.lineBegin = 1 \/ a.lineBegin <= k)
      /\ a.next \in Nat /\ a.lineBegin \in Nat
  BY <1>2 DEF Bounds, IsScanner
<1>6. /\ st = "START" => p = r.line + 1
      /\ st # "START" => k >= 2
      /\ st = "END_CR" => k >= 3
      /\ st \in LineState /\ st # "END_LF" /\ t[p] # "CR" /\ (p = n - 2 => st \in {"LF", "END_CR"})
  BY DEF st, t, n, k, U, Starts
<1>7. CASE a.state # "END_LF"
  <2> DEFINE b  == a.lineBegin
             p2 == p + b - 1
  <2>1. a.result = "AGAIN"
    BY <1>3, <1>4, <1>7 DEF IsScanner
  <2>2. Here(a.state, b, t[p + k - 1], k, p, n, st) /\ (b = 1 \/ t[p2] = "LF")
    BY <1>4, <2>1
  <2>3. b \in 1 .. k + 1 /\ b \in Nat
    BY <1>1, <1>5
  <2>4. Len(g.buffer) = k - b + 1 /\ g.buffer \in Seq(Symbol)
    BY <1>1, <1>3, <1>7, <2>3, Suffix DEF U, k
  <2> HIDE DEF b, p2
  <2>5. p + k - Len(g.buffer) = p2
    BY <1>1, <2>3, <2>4 DEF p2
  <2>6. p2 \in r.line + 1 .. n - 2
    <3>1. b = 1 \/ (2 <= b /\ p + b - 1 <= n - 2)
      BY <2>2 DEF Here
    <3> QED
      BY <1>1, <2>3, <3>1 DEF p2, n
  <2>7. t[p2] # "CR"
    <3>1. b = 1 => p2 = p
      BY <1>1 DEF p2
    <3> QED
      BY <1>6, <2>2, <3>1
  <2>8. a.state = "START" => k = 0 /\ b = 1 /\ st = "START"
    BY <1>1, <2>2, <2>3 DEF Here
  <2>9. a.state # "START" => k > 0 /\ b <= k
    <3>1. k = 0 => a.state = st
      BY <2>2 DEF Here
    <3> QED
      BY <1>1, <1>5, <1>6, <3>1 DEF b
  <2>10. a.state = "LF" => t[p2] = "LF"
    <3>1. a.state = "LF" => t[p + k - 1] = "LF" /\ b = k
      BY <1>1, <2>2, <2>9 DEF Here
    <3> QED
      BY <3>1 DEF p2
  <2>11. a.state = "END_CR" => p2 = n - 2 /\ Len(g.buffer) = 2
    <3>1. a.state = "END_CR" => p + k - 1 = n - 1 /\ b = k - 1
      BY <1>1, <2>2, <2>9 DEF Here
    <3> QED
      BY <1>1, <2>3, <2>4, <3>1 DEF p2
  <2>12. p2 = n - 2 => a.state \in {"LF", "END_CR"}
    <3>1. CASE b > 1
      <4>1. k > 0
        BY <1>1, <1>5, <3>1 DEF b
      <4> QED
        BY <1>7, <2>2, <3>1, <4>1 DEF Here, p2
    <3>2. CASE b = 1
      <4>1. p2 = p
        BY <1>1, <3>2 DEF p2
      <4>2. p = n - 2 => k >= 2
        BY <1>6
      <4>3. p = n - 2 /\ k > 0 => k = 1
        BY <2>2 DEF Here
      <4> QED
        BY <1>1, <4>1, <4>2, <4>3
    <3> QED
      BY <2>3, <3>1, <3>2
  <2>13. g.buffer = <<>> <=> Len(g.buffer) = 0
    BY <2>4, EmptySeq
  <2>14. InBlock(g, r, p2)
    <3>1. a.state = "START" => p2 = r.line + 1 /\ g.buffer = <<>>
      BY <1>1, <1>6, <2>4, <2>8, <2>13 DEF p2
    <3>2. a.state # "START" => g.buffer # <<>>
      BY <1>1, <2>3, <2>4, <2>9, <2>13
    <3> QED
      BY <1>3, <1>7, <2>6, <2>7, <2>10, <2>11, <2>12, <3>1, <3>2 DEF InBlock, n, t
  <2> QED
    BY <1>3, <1>7, <2>5, <2>14 DEF k, U
<1>8. CASE a.state = "END_LF"
  <2>1. k > 0
    <3>1. a.result = "AGAIN" /\ k = 0 => a.state = st
      BY <1>4 DEF Here
    <3>2. a.result = "SUCCESS" => a.next >= 3
      BY <1>1, <1>4
    <3> QED
      BY <1>1, <1>3, <1>4, <1>5, <1>6, <1>8, <3>1, <3>2 DEF IsScanner
  <2>2. /\ p + a.next - 2 - n \in {-1, 0, 1} /\ p + k - 1 >= n
        /\ p + a.next - 2 - n = -1 => a.next = 3 /\ p = n - 2 /\ k >= 3
    <3>1. CASE a.result = "AGAIN"
      <4>1. a.next = k + 1 /\ (p + k - 1 = n \/ (k = 1 /\ p = n - 2 /\ st = "END_CR"))
        BY <1>4, <1>8, <2>1, <3>1 DEF Here
      <4>2. p + k - 1 = n
        BY <1>6, <4>1
      <4> QED
        BY <1>1, <4>1, <4>2
    <3>2. CASE a.result = "SUCCESS"
      <4>1. a.next = n - p + 3 \/ (a.next = 3 /\ p = n - 2 /\ st = "END_CR")
        BY <1>4, <3>2
      <4>2. CASE a.next = n - p + 3
        <5>1. k >= n - p + 2
          BY <1>1, <1>5, <4>2
        <5>2. p + a.next - 2 - n = 1
          BY <1>1, <4>2
        <5>3. p + k - 1 >= n
          BY <1>1, <5>1
        <5> QED
          BY <5>2, <5>3
      <4>3. CASE a.next = 3 /\ p = n - 2 /\ st = "END_CR"
        BY <1>1, <1>6, <4>3
      <4> QED
        BY <4>1, <4>2, <4>3
    <3> QED
      BY <1>3, <1>4, <3>1, <3>2 DEF IsScanner
  <2>3. a.next \in 1 .. k + 1
    BY <1>1, <1>5
  <2>4. /\ Len(g.buffer) = k - a.next + 1 /\ g.buffer \in Seq(Symbol)
        /\ \A j \in 1 .. k - a.next + 1 : g.buffer[j] = U[a.next + j - 1]
    <3> DEFINE V == From(U, a.next)
    <3>1. g.buffer = V
      BY <1>3, <1>8
    <3>2. V \in Seq(Symbol) /\ Len(V) = k - a.next + 1 /\ \A j \in 1 .. k - a.next + 1 : V[j] = U[a.next + j - 1]
      BY <1>1, <2>3, Suffix DEF k
    <3> HIDE DEF V
    <3> QED
      BY <3>1, <3>2
  <2>5. p + k - Len(g.buffer) - 1 - n = p + a.next - 2 - n
    BY <1>1, <1>5, <2>4
  <2>6. p + a.next - 2 - n = -1 => g.buffer # <<>> /\ g.buffer[1] = "LF"
    <3>1. SUFFICES ASSUME p + a.next - 2 - n = -1 PROVE g.buffer # <<>> /\ g.buffer[1] = "LF"
      OBVIOUS
    <3>2. a.next = 3 /\ p = n - 2 /\ k >= 3
      BY <2>2, <3>1
    <3>3. 1 \in 1 .. k - a.next + 1 /\ a.next + 1 - 1 = 3 /\ Len(g.buffer) # 0 /\ 3 \in 1 .. k
      BY <1>1, <2>4, <3>2
    <3>4. g.buffer # <<>> /\ g.buffer[1] = U[3]
      BY <2>4, <3>3, EmptySeq
    <3>5. U[3] = t[n]
      <4>1. \A x \in 1 .. k : p + x - 1 <= n => U[x] = t[p + x - 1]
        BY DEF Holds, U, t, n, k
      <4>2. p + 3 - 1 = n
        BY <1>1, <3>2
      <4> QED
        BY <3>3, <4>1, <4>2, <1>1
    <3>6. t[n] = "LF"
      BY DEF HeaderBlock, t, n
    <3> QED
      BY <3>4, <3>5, <3>6
  <2>7. OnLine(g, p + a.next - 2 - n)
    BY <2>2, <2>6 DEF OnLine
  <2> QED
    BY <1>3, <1>8, <2>2, <2>5, <2>7 DEF k, U, n
<1> QED
  BY <1>7, <1>8

-----------------------------------------------------------------------------
(* A turn of HandleRead.                                                   *)

\* One request, and where it is.
LEMMA OneRequest ==
  ASSUME stream \in Streams, NEW m \in 1 .. Len(stream), NEW r, r = stream[m]
  PROVE  /\ r.text \in Seq(Symbol) /\ Len(r.text) \in Nat /\ Len(r.text) > 0
         /\ r.line \in 0 .. Len(r.text) /\ r.lines \in Seq(HeaderPlaces(Len(r.text)))
         /\ AllFramed => r.line \in 1 .. Len(r.text) /\ RequestLine(r) /\ HeaderBlock(r)
         /\ m \in Nat /\ m \in DOMAIN stream /\ Len(stream) \in Nat
         /\ Offset[m] \in Nat /\ Offset[m + 1] = Offset[m] + Len(r.text)
<1>1. /\ r.text \in Seq(Symbol) /\ Len(r.text) \in Nat /\ Len(r.text) > 0
      /\ r.line \in 0 .. Len(r.text) /\ r.lines \in Seq(HeaderPlaces(Len(r.text)))
      /\ AllFramed => r.line \in 1 .. Len(r.text) /\ RequestLine(r) /\ HeaderBlock(r)
      /\ m \in DOMAIN stream /\ Len(stream) \in Nat
  BY Requests
<1>2. m \in Nat /\ m \in 1 .. Len(stream) + 1
  BY <1>1
<1>3. Offset[m] \in Nat /\ Offset[m + 1] = Offset[m] + Len(stream[m].text)
  BY <1>2, Offsets
<1> QED
  BY <1>1, <1>2, <1>3

\* Where the connection is in the stream.
LEMMA Numbers ==
  ASSUME TypeOK
  PROVE  /\ stream \in Streams /\ Len(stream) \in Nat /\ at \in 1 .. Len(stream) + 1 /\ off \in Nat
         /\ Unread \in Seq(Symbol) /\ Len(Unread) \in Nat /\ Len(http.buffer) \in Nat /\ Len(inq) \in Nat
         /\ Len(Unread) = Len(http.buffer) + Len(inq)
         /\ Offset[at] \in Nat /\ Sent \in Nat /\ Consumed \in Int /\ Consumed + Len(Unread) = Sent
         /\ Len(answers) \in Nat /\ Current \in Nat
         /\ \A m \in 1 .. Len(stream) : Offset[m] + Len(stream[m].text) <= Sent => m < at
<1>1. stream \in Streams /\ Len(stream) \in Nat /\ at \in 1 .. Len(stream) + 1 /\ off \in Nat
  BY Requests DEF TypeOK
<1>2. /\ Unread \in Seq(Symbol) /\ Len(Unread) \in Nat /\ Len(http.buffer) \in Nat /\ Len(inq) \in Nat
      /\ Len(Unread) = Len(http.buffer) + Len(inq)
  BY ConcatProperties, LenProperties DEF TypeOK, IsHttp, Unread
<1>3. Offset[at] \in Nat
  BY <1>1, Offsets
<1>4. Sent = Offset[at] + off /\ Sent \in Nat
  BY <1>1, <1>3 DEF Sent
<1>5. Consumed \in Int /\ Consumed + Len(Unread) = Sent
  BY <1>2, <1>4 DEF Consumed
<1>6. Len(answers) \in Nat
  BY LenProperties DEF TypeOK, IsSequence
<1>7. Current \in Nat
  BY <1>6 DEF Current
<1>9. ASSUME NEW m \in 1 .. Len(stream), Offset[m] + Len(stream[m].text) <= Sent PROVE m < at
  <2> DEFINE om == Offset[m]
             lm == Len(stream[m].text)
             oa == Offset[at]
             la == Len(stream[at].text)
  <2>1. om \in Nat /\ lm \in Nat /\ lm > 0 /\ m \in Nat
    BY <1>1, OneRequest
  <2>2. oa \in Nat /\ off \in Nat /\ Sent = oa + off /\ om + lm <= Sent /\ (off > 0 => off < la)
    BY <1>1, <1>3, <1>4, <1>9 DEF TypeOK
  <2> HIDE DEF om, lm, oa, la
  <2>3. CASE m = at
    <3>1. om = oa /\ lm = la
      BY <2>3 DEF om, oa, lm, la
    <3> QED
      BY <2>1, <2>2, <3>1
  <2>4. CASE m > at
    <3>1. at \in 1 .. Len(stream)
      BY <1>1, <2>1, <2>4
    <3>2. la \in Nat /\ la > 0
      BY <1>1, <3>1, OneRequest DEF la
    <3>3. oa + la <= om
      <4>1. m \in 1 .. Len(stream) + 1
        BY <1>1
      <4> QED
        BY <1>1, <2>4, <3>1, <4>1, Offsets DEF oa, la, om
    <3> QED
      BY <2>1, <2>2, <3>2, <3>3
  <2> QED
    BY <1>1, <2>1, <2>3, <2>4
<1> QED
  BY <1>1, <1>2, <1>3, <1>4, <1>5, <1>6, <1>7, <1>9

\* The request that is due is one of those that have begun, or the next.
LEMMA InRange ==
  ASSUME TypeOK, OwnPages
  PROVE  Current \in 1 .. at /\ Offset[Current] \in Nat
<1>1. stream \in Streams /\ Len(stream) \in Nat /\ at \in 1 .. Len(stream) + 1 /\ Len(answers) \in Nat
  BY Numbers
<1>2. Len(answers) <= at - 1
  BY DEF OwnPages, Arrived
<1>3. Current \in 1 .. at /\ Current \in 1 .. Len(stream) + 1
  BY <1>1, <1>2 DEF Current
<1> QED
  BY <1>1, <1>3, Offsets

\* The buffer and what is read behind it are the text of any request, as far
\* as they reach into it.
LEMMA InStream ==
  ASSUME TypeOK, Contents, NEW m \in 1 .. Len(stream),
         NEW d, d = Consumed - Offset[m], NEW x \in 1 .. Len(Unread), x + d \in 1 .. Len(stream[m].text)
  PROVE  Unread[x] = stream[m].text[x + d]
<1>a. stream \in Streams /\ Consumed \in Int /\ Consumed + Len(Unread) = Sent /\ Len(Unread) \in Nat
  BY Numbers
<1>1. /\ Consumed \in Int /\ Consumed + Len(Unread) = Sent /\ Len(Unread) \in Nat /\ Offset[m] \in Nat
      /\ Len(stream[m].text) \in Nat /\ m \in DOMAIN stream
  BY <1>a, OneRequest
<1>2. Offset[m] + (x + d) = Consumed + x /\ Offset[m] + (x + d) - Consumed = x
  BY <1>1
<1>3. Consumed < Offset[m] + (x + d) /\ Offset[m] + (x + d) <= Sent
  <2> DEFINE c == Consumed
             u == Len(Unread)
  <2>1. c \in Int /\ u \in Nat /\ c + u = Sent /\ x \in 1 .. u
    BY <1>1
  <2> HIDE DEF c, u
  <2>2. c < c + x /\ c + x <= Sent
    BY <2>1
  <2> QED
    BY <1>2, <2>2 DEF c
<1>4. Unread[Offset[m] + (x + d) - Consumed] = stream[m].text[x + d]
  BY <1>1, <1>3 DEF Contents
<1> QED
  BY <1>2, <1>4

\* What a turn leaves of the object, with the next c symbols consumed.
Left(g, c) ==
  \/ /\ g.processState = "URI" /\ g.lineState = "START" /\ g.headers = <<>>
     /\ OnLine(g, c - Offset[Current])
  \/ /\ g.processState = "HEADER" /\ Current <= Len(stream)
     /\ g.path = stream[Current].path /\ g.method = stream[Current].method
     /\ InBlock(g, stream[Current], c - Offset[Current] + 1)
  \/ /\ g.processState \in {"PROCESS", "BODY"} /\ Current <= Len(stream) /\ Current < at
     /\ g.processState = "PROCESS" <=> stream[Current].method = "GET"
     /\ g.path = stream[Current].path
     /\ OnLine(g, c - Offset[Current + 1])

\* ParseHeaders, on what ParseURI or the last turn has left.
LEMMA BlockLeaves ==
  ASSUME TypeOK, AllFramed, Current \in 1 .. Len(stream),
         NEW h, IsHttp(h), h.processState = "HEADER", ~h.hasError,
         h.path = stream[Current].path, h.method = stream[Current].method,
         NEW p \in stream[Current].line + 1 .. Len(stream[Current].text) - 2,
         p = Sent - Len(h.buffer) - Offset[Current] + 1,
         Holds(h.buffer, stream[Current].text, p),
         Starts(h.lineState, stream[Current].text[p], p, Len(stream[Current].text)),
         h.lineState = "START" => p = stream[Current].line + 1,
         h.lineState # "START" => Len(h.buffer) >= 2,
         h.lineState = "END_CR" => Len(h.buffer) >= 3,
         NEW g, g = AtHeaders(h), ~g.hasError
  PROVE  Left(g, Sent - Len(g.buffer))
<1> DEFINE r == stream[Current]
           n == Len(r.text)
           k == Len(h.buffer)
           l == Len(g.buffer)
<1>1. /\ r.text \in Seq(Symbol) /\ r.line \in 1 .. n /\ HeaderBlock(r) /\ n \in Nat /\ k \in Nat
      /\ stream \in Streams /\ Len(stream) \in Nat
  <2>1. stream \in Streams
    BY Numbers
  <2> QED
    BY <2>1, OneRequest, LenProperties DEF IsHttp
<1>2. \/ g.processState = "HEADER" /\ InBlock(g, r, p + k - l)
      \/ /\ g.processState = IF h.method = "GET" THEN "PROCESS" ELSE "BODY"
         /\ OnLine(g, p + k - l - 1 - n) /\ p + k - 1 >= n
  <2> HIDE DEF r
  <2>1. /\ p \in r.line + 1 .. Len(r.text) - 2 /\ Holds(h.buffer, r.text, p)
        /\ Starts(h.lineState, r.text[p], p, Len(r.text))
        /\ h.lineState = "START" => p = r.line + 1
    BY DEF r
  <2> QED
    BY <1>1, <2>1, BlockTurn
<1>3. g.method = h.method /\ g.path = h.path /\ IsHttp(g) /\ l \in Nat
  <2>1. h.lineState # "END_LF"
    BY DEF Starts
  <2>2. g.method = h.method /\ g.path = h.path /\ IsHttp(g)
    BY <2>1, AtHeadersFields
  <2> QED
    BY <2>2, LenProperties DEF IsHttp
<1>4. Offset[Current] \in Nat /\ Sent \in Nat /\ Current \in Nat /\ Offset[Current + 1] = Offset[Current] + n
  <2>1. Sent \in Nat
    BY Numbers
  <2> QED
    BY <1>1, <2>1, OneRequest
<1> HIDE DEF r, n, k, l
<1>5. p = Sent - k - Offset[Current] + 1 /\ p \in Int
  BY <1>1, <1>4 DEF k
<1>6. CASE g.processState = "HEADER" /\ InBlock(g, r, p + k - l)
  <2>1. Sent - l - Offset[Current] + 1 = p + k - l
    BY <1>1, <1>3, <1>4, <1>5
  <2> QED
    BY <1>3, <1>6, <2>1 DEF Left, r, l
<1>7. CASE /\ g.processState = IF h.method = "GET" THEN "PROCESS" ELSE "BODY"
           /\ OnLine(g, p + k - l - 1 - n) /\ p + k - 1 >= n
  <2> DEFINE s == Sent
             o == Offset[Current]
             q == Offset[Current + 1]
  <2>0. /\ s \in Nat /\ o \in Nat /\ k \in Nat /\ l \in Nat /\ n \in Nat
        /\ q = o + n /\ p = s - k - o + 1 /\ p + k - 1 >= n
    BY <1>1, <1>3, <1>4, <1>5, <1>7
  <2> HIDE DEF s, o, q
  <2>10. s - l - q = p + k - l - 1 - n
    BY <2>0
  <2>1. Sent - l - Offset[Current + 1] = p + k - l - 1 - n
    BY <2>10 DEF s, q
  <2>20. o + n <= s
    BY <2>0
  <2>2. Offset[Current] + n <= Sent
    BY <2>20 DEF o, s
  <2>3. Current < at
    BY <2>2, Numbers DEF n, r
  <2> QED
    BY <1>3, <1>7, <2>1, <2>3 DEF Left, r, l
<1> QED
  BY <1>2, <1>6, <1>7

\* No request begins behind what has been sent, but the next one.
LEMMA Behind ==
  ASSUME TypeOK, OwnPages
  PROVE  /\ Offset[Current] <= Sent
         /\ Current > Len(stream) => Offset[Current] = Sent
<1>1. /\ stream \in Streams /\ Len(stream) \in Nat /\ at \in 1 .. Len(stream) + 1 /\ off \in Nat
      /\ Current \in 1 .. at /\ Offset[at] \in Nat /\ Offset[Current] \in Nat
  BY Numbers, InRange
<1>2. Sent = Offset[at] + off
  BY DEF Sent
<1>3. CASE Current = at
  <2>1. Current > Len(stream) => off = 0
    BY <1>1, <1>3 DEF TypeOK
  <2>2. Offset[Current] <= Offset[at] + off /\ (off = 0 => Offset[Current] = Offset[at] + off)
    BY <1>1, <1>3
  <2> QED
    BY <1>2, <2>1, <2>2
<1>4. CASE Current < at
  <2>1. Current \in 1 .. Len(stream) /\ at \in 1 .. Len(stream) + 1
    BY <1>1, <1>4
  <2>2. Offset[Current] + Len(stream[Current].text) <= Offset[at] /\ Len(stream[Current].text) \in Nat
    BY <1>1, <1>4, <2>1, Offsets, OneRequest
  <2> DEFINE oc == Offset[Current]
             oa == Offset[at]
             l  == Len(stream[Current].text)
  <2>3. oc + l <= oa /\ l \in Nat /\ oc \in Nat /\ oa \in Nat
    BY <1>1, <2>2
  <2>4. ~(Current > Len(stream))
    BY <1>1, <2>1
  <2> HIDE DEF oc, oa, l
  <2>5. oc <= oa + off
    BY <1>1, <2>3
  <2> QED
    BY <1>2, <2>4, <2>5 DEF oc, oa
<1> QED
  BY <1>1, <1>3, <1>4

\* On a line the turn finds a request, or nothing.
LEMMA LineLeaves ==
  ASSUME Placed, AllFramed, ~http.hasError, http.processState = "URI", NEW g, g = Parsed, ~g.hasError
  PROVE  Left(g, Sent - Len(g.buffer))
<1> DEFINE h == Read(http)
           U == Unread
           e == Find(U, "r", 1)
           line == ParseLine(SubSeq(U, 1, e - 1))
           f == AtURI(h)
           r == stream[Current]
           d == Consumed - Offset[Current]
<1>1. /\ TypeOK /\ OwnPages /\ Contents /\ http.lineState = "START" /\ http.headers = <<>>
      /\ d \in {-1, 0, 1} /\ (Consumed < Offset[Current] => U[1] = "LF")
  BY DEF Placed, AnswersRight, AtLine
<1>2. /\ stream \in Streams /\ U \in Seq(Symbol) /\ Len(U) \in Nat /\ Sent \in Nat /\ Consumed \in Int
      /\ Consumed + Len(U) = Sent /\ Offset[Current] \in Nat /\ Offset[Current] <= Sent
      /\ Len(stream) \in Nat /\ Current \in Nat /\ Current >= 1
  BY <1>1, Numbers, InRange, Behind
<1>3. /\ IsHttp(h) /\ h.buffer = U /\ h.processState = "URI" /\ h.lineState = "START"
      /\ h.headers = <<>> /\ ~h.hasError
  BY <1>1, ReadFields DEF TypeOK, Unread
<1>4. d = -1 => U # <<>> /\ U[1] = "LF"
  <2> DEFINE c == Consumed
             o == Offset[Current]
             k == Len(U)
  <2>1. c \in Int /\ k \in Nat /\ c + k = Sent /\ o \in Nat /\ o <= Sent /\ d = c - o
    BY <1>2
  <2>2. k = 0 => U = <<>>
    BY <1>2, EmptySeq
  <2>3. U = <<>> => k = 0
    OBVIOUS
  <2> HIDE DEF c, o, k, d
  <2>4. d = -1 => c < o /\ k # 0
    BY <2>1
  <2> QED
    BY <1>1, <2>3, <2>4 DEF c, o
<1>5. g = AtHeaders(f)
  BY DEF Parsed
<1> HIDE DEF h, e, line, f, r, U
<1>6. CASE e = 0
  <2>1. f = h
    BY <1>3, <1>6 DEF f, AtURI, e
  <2>2. g = h
    BY <1>3, <1>5, <2>1 DEF AtHeaders
  <2>3. Sent - Len(g.buffer) = Consumed
    BY <1>2, <1>3, <2>2
  <2>4. OnLine(g, d)
    BY <1>1, <1>3, <1>4, <2>2 DEF OnLine
  <2> QED
    BY <1>3, <2>2, <2>3, <2>4 DEF Left
<1>7. CASE e # 0
  <2>1. e \in 1 .. Len(U) /\ U[e] = "r"
    BY <1>2, <1>7, Found DEF e
  <2>2. Current \in 1 .. Len(stream)
    <3>1. SUFFICES ASSUME Current > Len(stream) PROVE FALSE
      BY <1>2
    <3>2. Offset[Current] = Sent
      BY <1>1, <3>1, Behind
    <3> DEFINE c == Consumed
               o == Offset[Current]
               k == Len(U)
    <3>3. c \in Int /\ k \in Nat /\ c + k = o /\ d = c - o /\ e \in 1 .. k /\ d \in {-1, 0, 1}
      BY <1>1, <1>2, <2>1, <3>2
    <3> HIDE DEF c, o, k, d
    <3>4. d = -1 /\ e = 1
      BY <3>3
    <3> QED
      BY <1>4, <2>1, <3>4
  <2>3. /\ r.text \in Seq(Symbol) /\ Len(r.text) \in Nat /\ r.line \in 1 .. Len(r.text)
        /\ RequestLine(r) /\ HeaderBlock(r)
    BY <1>2, <2>2, OneRequest DEF r
  <2> HIDE DEF d
  <2>4. \A x \in 1 .. Len(U) : x + d \in 1 .. Len(r.text) => U[x] = r.text[x + d]
    BY <1>1, <2>2, InStream DEF U, r, d
  <2>5. Reads(U, r.text, d)
    BY <1>4, <2>4 DEF Reads
  <2>6. /\ e = r.line - d
        /\ line.ok => d # 1 /\ line.method = r.method /\ line.path = r.path
    BY <1>1, <1>2, <1>7, <2>3, <2>5, LineFound DEF e, line
  <2>7. /\ f.buffer = From(U, e + 1)
        /\ f.hasError = (h.hasError \/ ~line.ok)
        /\ f.processState = (IF line.ok THEN "HEADER" ELSE "URI")
        /\ line.ok => f.method = line.method /\ f.path = line.path
        /\ IsHttp(f) /\ f.lineState = "START"
    BY <1>3, <1>7, AtURIFields DEF e, line, f
  <2>8. line.ok
    <3>1. SUFFICES ASSUME ~line.ok PROVE FALSE
      OBVIOUS
    <3>2. f.hasError
      BY <2>7, <3>1
    <3>3. g = f
      BY <1>5, <3>2 DEF AtHeaders
    <3> QED
      BY <3>2, <3>3
  <2>9. ~f.hasError /\ f.processState = "HEADER" /\ f.method = r.method /\ f.path = r.path
    BY <1>3, <2>6, <2>7, <2>8
  <2> DEFINE p == r.line + 1
             V == f.buffer
  <2>10. /\ Len(V) = Len(U) - e
         /\ \A x \in 1 .. Len(V) : V[x] = U[e + x]
    <3>1. e + 1 \in 1 .. Len(U) + 1
      BY <1>2, <2>1
    <3> DEFINE W == From(U, e + 1)
    <3>2. Len(W) = Len(U) - (e + 1) + 1 /\ \A j \in 1 .. Len(U) - (e + 1) + 1 : W[j] = U[(e + 1) + j - 1]
      BY <1>2, <3>1, Suffix
    <3>3. V = W
      BY <2>7
    <3> HIDE DEF V, W
    <3>4. Len(W) = Len(U) - e
      BY <1>2, <2>1, <3>2
    <3>5. \A x \in 1 .. Len(W) : (e + 1) + x - 1 = e + x /\ x \in 1 .. Len(U) - (e + 1) + 1
      BY <1>2, <2>1, <3>4
    <3> QED
      BY <3>2, <3>3, <3>4, <3>5
  <2> HIDE DEF V
  <2>11. p = Sent - Len(V) - Offset[Current] + 1
    <3> DEFINE c == Consumed
               o == Offset[Current]
               k == Len(U)
               b == r.line
               l == Len(V)
               s == Sent
    <3>1. c \in Int /\ k \in Nat /\ c + k = s /\ o \in Nat /\ d = c - o
      BY <1>2 DEF d
    <3>2. e = b - d /\ l = k - e
      BY <2>6, <2>10
    <3>3. b \in Nat
      BY <2>3
    <3>4. e \in Nat
      BY <1>2, <2>1
    <3> HIDE DEF c, o, k, b, l, s
    <3>5. b + 1 = s - l - o + 1
      BY <3>1, <3>2, <3>3, <3>4
    <3> QED
      BY <3>5 DEF b, o, l, s
  <2>12. p \in r.line + 1 .. Len(r.text) - 2 /\ p # Len(r.text) - 2 /\ p \in 1 .. Len(r.text) - 2
         /\ r.text[p] \notin {"CR", "LF"}
    BY <2>3 DEF HeaderBlock
  <2>13. Starts(f.lineState, r.text[p], p, Len(r.text))
    BY <2>7, <2>12 DEF Starts, LineState
  <2>14. Holds(V, r.text, p)
    <3>1. ASSUME NEW x \in 1 .. Len(V), p + x - 1 <= Len(r.text)
          PROVE  V[x] = r.text[p + x - 1]
      <4>1. e + x \in 1 .. Len(U) /\ (e + x) + d = p + x - 1 /\ (e + x) + d \in 1 .. Len(r.text)
        <5> DEFINE b == r.line
                   n == Len(r.text)
                   k == Len(U)
                   v == Len(V)
        <5>1. e \in 1 .. k /\ k \in Nat /\ v = k - e /\ d \in {-1, 0, 1}
          BY <1>1, <1>2, <2>1, <2>10
        <5>2. e = b - d /\ b \in Nat /\ n \in Nat
          BY <2>3, <2>6
        <5>3. x \in 1 .. v /\ p + x - 1 <= n /\ p = b + 1
          BY <3>1
        <5> HIDE DEF b, n, k, v, p
        <5>4. e + x \in 1 .. k
          BY <5>1, <5>3
        <5>5. (e + x) + d = p + x - 1
          BY <5>1, <5>2, <5>3
        <5>6. p + x - 1 \in 1 .. n
          BY <5>1, <5>2, <5>3
        <5> QED
          BY <5>4, <5>5, <5>6 DEF k, n
      <4> QED
        BY <2>4, <2>10, <4>1
    <3> QED
      BY <3>1 DEF Holds
  <2> HIDE DEF p
  <2>15. p = r.line + 1 /\ f.lineState = "START"
    BY <2>7 DEF p
  <2> QED
    BY <1>1, <1>5, <2>2, <2>7, <2>9, <2>11, <2>12, <2>13, <2>14, <2>15, BlockLeaves DEF r, V
<1> QED
  BY <1>6, <1>7

\* In a block the turn goes on where the last one has stopped.
LEMMA HeaderLeaves ==
  ASSUME Placed, AllFramed, turn, ~http.hasError, http.processState = "HEADER", NEW g, g = Parsed, ~g.hasError
  PROVE  Left(g, Sent - Len(g.buffer))
<1> DEFINE h == Read(http)
           U == Unread
           r == stream[Current]
           p == Consumed - Offset[Current] + 1
<1>1. /\ TypeOK /\ OwnPages /\ Contents /\ Current <= Len(stream)
      /\ http.path = r.path /\ http.method = r.method
      /\ p \in r.line + 1 .. Len(r.text) - 2 /\ r.text[p] # "CR"
      /\ http.lineState = "START" => p = r.line + 1
      /\ http.lineState # "START" => http.buffer # <<>>
      /\ http.lineState = "LF" => r.text[p] = "LF"
      /\ http.lineState = "END_CR" => p = Len(r.text) - 2 /\ Len(http.buffer) = 2
      /\ http.lineState # "END_LF"
      /\ p = Len(r.text) - 2 => http.lineState \in {"LF", "END_CR"}
      /\ inq # <<>>
  BY DEF Placed, AnswersRight, AtBlock
<1> HIDE DEF r, p
<1>2. /\ stream \in Streams /\ U \in Seq(Symbol) /\ Len(U) \in Nat /\ Sent \in Nat /\ Consumed \in Int
      /\ Consumed + Len(U) = Sent /\ Offset[Current] \in Nat /\ Current \in 1 .. Len(stream)
      /\ Len(U) = Len(http.buffer) + Len(inq) /\ Len(http.buffer) \in Nat /\ Len(inq) \in Nat
  BY <1>1, Numbers, InRange
<1>3. /\ IsHttp(h) /\ h.buffer = U /\ h.processState = "HEADER" /\ h.lineState = http.lineState
      /\ ~h.hasError /\ h.path = http.path /\ h.method = http.method
  BY <1>1, ReadFields DEF TypeOK, Unread
<1>4. g = AtHeaders(h)
  BY <1>3 DEF Parsed, AtURI
<1>5. /\ r.text \in Seq(Symbol) /\ Len(r.text) \in Nat /\ r.line \in 1 .. Len(r.text) /\ HeaderBlock(r)
  BY <1>2, OneRequest DEF r
<1>6. /\ Len(inq) > 0
      /\ http.lineState # "START" => Len(U) >= 2
      /\ http.lineState = "END_CR" => Len(U) >= 3
  <2>1. Len(inq) # 0 /\ (http.buffer # <<>> => Len(http.buffer) # 0)
    BY <1>1, EmptySeq DEF TypeOK, IsHttp
  <2> DEFINE i == Len(inq)
             b == Len(http.buffer)
  <2>2. i \in Nat /\ b \in Nat /\ Len(U) = b + i /\ i # 0
    BY <1>2, <2>1
  <2>3. /\ http.lineState # "START" => b # 0
        /\ http.lineState = "END_CR" => b = 2
    BY <1>1, <2>1
  <2> HIDE DEF i, b
  <2>4. i > 0 /\ (b # 0 => b + i >= 2) /\ (b = 2 => b + i >= 3)
    BY <2>2
  <2> QED
    BY <2>2, <2>3, <2>4 DEF i
<1> HIDE DEF h, U
<1>7. Holds(U, r.text, p)
  <2> DEFINE d == Consumed - Offset[Current]
  <2>1. ASSUME NEW x \in 1 .. Len(U), p + x - 1 <= Len(r.text)
        PROVE  U[x] = r.text[p + x - 1]
    <3> DEFINE n == Len(r.text)
               k == Len(U)
               b == r.line
    <3>1. d \in Int /\ p = d + 1 /\ p \in b + 1 .. n - 2 /\ b \in Nat /\ n \in Nat /\ k \in Nat
      <4>1. d \in Int
        BY <1>2
      <4>2. p = d + 1
        BY DEF p
      <4>3. p \in b + 1 .. n - 2 /\ b \in Nat /\ n \in Nat /\ k \in Nat
        BY <1>1, <1>2, <1>5
      <4> QED
        BY <4>1, <4>2, <4>3
    <3>2. x \in 1 .. k /\ p + x - 1 <= n
      BY <2>1
    <3> HIDE DEF n, k, b, d
    <3>3. x + d = p + x - 1 /\ x + d \in 1 .. n
      BY <3>1, <3>2
    <3>4. U[x] = r.text[x + d]
      BY <1>1, <1>2, <3>3, InStream DEF U, r, n, d
    <3> QED
      BY <3>3, <3>4
  <2> QED
    BY <2>1 DEF Holds
<1>8. p = Sent - Len(U) - Offset[Current] + 1
  <2> DEFINE c == Consumed
             k == Len(U)
  <2>1. c \in Int /\ k \in Nat /\ c + k = Sent
    BY <1>2
  <2> HIDE DEF c, k
  <2>2. c = Sent - k
    BY <2>1
  <2> QED
    BY <2>2 DEF c, k, p
<1>9. Starts(h.lineState, r.text[p], p, Len(r.text))
  <2>1. p \in 1 .. Len(r.text) - 2
    BY <1>1, <1>5
  <2>2. http.lineState = "START" => r.text[p] # "LF"
    BY <1>1 , <1>5 DEF HeaderBlock
  <2>3. p = Len(r.text) - 2 => r.text[p] = "LF"
    BY <1>5 DEF HeaderBlock
  <2>4. h.lineState \in LineState
    BY <1>3 DEF IsHttp
  <2> QED
    BY <1>1, <1>3, <2>1, <2>2, <2>3, <2>4 DEF Starts
<1> QED
  BY <1>1, <1>2, <1>3, <1>4, <1>6, <1>7, <1>8, <1>9, BlockLeaves DEF r

\* What a turn takes, it takes from the front.
LEMMA Takes ==
  ASSUME Placed, NEW g, g = Parsed
  PROVE  /\ IsHttp(g) /\ Len(g.buffer) \in Nat /\ Len(g.buffer) <= Len(Unread)
         /\ Len(g.buffer) <= g.held
         /\ http.hasError => g.hasError
         /\ g.processState = "PROCESS" => ~g.hasError
         /\ http.processState = "BODY" => g.processState = "BODY"
         /\ ~g.hasError => /\ g.processState = "URI" => g.lineState = "START"
                           /\ g.processState = "HEADER" => g.lineState # "END_LF"
         /\ \A j \in 1 .. Len(g.buffer) : g.buffer[j] = Unread[Len(Unread) - Len(g.buffer) + j]
         /\ Seen(g) \in UNION {Handlers!AtHeaders(x) : x \in Handlers!AtURI(Seen(Read(http)))}
<1> DEFINE h == Read(http)
           U == Unread
           f == AtURI(h)
           B(x, s) == /\ Len(x) \in Nat /\ Len(x) <= Len(s)
                      /\ \A j \in 1 .. Len(x) : x[j] = s[Len(s) - Len(x) + j]
<1>1. TypeOK /\ Len(http.buffer) <= http.held /\ Resumes
  BY DEF Placed
<1>2. IsHttp(http) /\ inq \in Seq(Symbol) /\ http.held \in Nat
  BY <1>1 DEF TypeOK, IsHttp
<1>3. U \in Seq(Symbol) /\ Len(U) \in Nat /\ Len(U) = Len(http.buffer) + Len(inq) /\ Len(inq) \in Nat
      /\ Len(http.buffer) \in Nat
  BY <1>1, Numbers
<1>4. /\ IsHttp(h) /\ h.buffer = U /\ h.held = http.held + Len(inq)
      /\ h.processState = http.processState /\ h.lineState = http.lineState /\ h.hasError = http.hasError
  BY <1>2, ReadFields DEF Unread
<1>5. Len(h.buffer) <= h.held
  BY <1>1, <1>2, <1>3, <1>4
<1>6. http.processState = "HEADER" /\ ~http.hasError => http.lineState # "END_LF"
  BY <1>1 DEF Resumes
<1>7. http.processState = "URI" /\ ~http.hasError => http.lineState = "START"
  BY <1>1 DEF Resumes
<1>8. g = AtHeaders(f)
  BY DEF Parsed
<1> HIDE DEF h, U, f
<1>9. \A s, i : s \in Seq(Symbol) /\ i \in 1 .. Len(s) + 1 => B(From(s, i), s)
  <2>1. ASSUME NEW s \in Seq(Symbol), NEW i \in 1 .. Len(s) + 1 PROVE B(From(s, i), s)
    <3> DEFINE x == From(s, i)
    <3>1. Len(x) = Len(s) - i + 1 /\ \A j \in 1 .. Len(s) - i + 1 : x[j] = s[i + j - 1]
      BY Suffix
    <3>2. Len(s) \in Nat
      BY LenProperties
    <3> HIDE DEF x
    <3>3. Len(x) \in Nat /\ Len(x) <= Len(s)
      BY <3>1, <3>2
    <3>4. ASSUME NEW j \in 1 .. Len(x) PROVE x[j] = s[Len(s) - Len(x) + j]
      <4>1. Len(s) - Len(x) + j = i + j - 1
        BY <3>1, <3>2
      <4> QED
        BY <3>1, <3>4, <4>1
    <3> QED
      BY <3>3, <3>4 DEF x
  <2> QED
    BY <2>1
<1>10. \A s : s \in Seq(Symbol) => B(s, s)
  BY LenProperties
<1>11. \A x, y, s : B(x, y) /\ B(y, s) /\ Len(s) \in Nat => B(x, s)
  <2>1. ASSUME NEW x, NEW y, NEW s, B(x, y), B(y, s), Len(s) \in Nat PROVE B(x, s)
    <3>1. ASSUME NEW j \in 1 .. Len(x) PROVE x[j] = s[Len(s) - Len(x) + j]
      <4> DEFINE lx == Len(x)
                 ly == Len(y)
                 ls == Len(s)
      <4>1. lx \in Nat /\ ly \in Nat /\ ls \in Nat /\ lx <= ly /\ ly <= ls /\ j \in 1 .. lx
        BY <2>1, <3>1
      <4>2. x[j] = y[ly - lx + j]
        BY <2>1, <3>1
      <4>3. \A i \in 1 .. ly : y[i] = s[ls - ly + i]
        BY <2>1
      <4> HIDE DEF lx, ly, ls
      <4>4. ly - lx + j \in 1 .. ly /\ ls - ly + (ly - lx + j) = ls - lx + j
        BY <4>1
      <4> QED
        BY <4>2, <4>3, <4>4 DEF lx, ls
    <3>2. Len(x) \in Nat /\ Len(x) <= Len(s)
      BY <2>1
    <3> QED
      BY <3>1, <3>2
  <2> QED
    BY <2>1
<1> HIDE DEF B
<1>12. /\ IsHttp(f) /\ B(f.buffer, U) /\ (h.hasError => f.hasError) /\ f.lineState = h.lineState
       /\ f.processState = "HEADER" => h.processState \in {"URI", "HEADER"}
       /\ h.processState = "BODY" => f.processState = "BODY"
       /\ f.processState # "PROCESS"
       /\ f.processState = "URI" /\ ~f.hasError => h.processState = "URI"
  <2> DEFINE e == Find(h.buffer, "r", 1)
             line == ParseLine(SubSeq(h.buffer, 1, e - 1))
  <2>1. /\ h.processState # "URI" \/ e = 0 => f = h
        /\ h.processState = "URI" /\ e # 0 =>
             /\ e \in 1 .. Len(h.buffer) /\ f.buffer = From(h.buffer, e + 1)
             /\ f.hasError = (h.hasError \/ ~line.ok)
             /\ f.processState = (IF line.ok THEN "HEADER" ELSE "URI")
        /\ IsHttp(f) /\ f.lineState = h.lineState
    <3> HIDE DEF e, line
    <3> QED
      BY <1>4, AtURIFields DEF f, e, line
  <2> HIDE DEF e, line
  <2>2. CASE h.processState # "URI" \/ e = 0
    <3>1. h.processState # "PROCESS"
      BY <1>1, <1>4 DEF TypeOK
    <3> QED
      BY <1>3, <1>4, <1>10, <2>1, <2>2, <3>1
  <2>3. CASE h.processState = "URI" /\ e # 0
    <3>1. e + 1 \in 1 .. Len(U) + 1
      BY <1>3, <1>4, <2>1, <2>3
    <3> QED
      BY <1>3, <1>4, <1>9, <2>1, <2>3, <3>1
  <2> QED
    BY <2>2, <2>3
<1>13. f.processState = "HEADER" /\ ~f.hasError => f.lineState # "END_LF"
  BY <1>4, <1>6, <1>7, <1>12
<1>14. /\ IsHttp(g) /\ B(g.buffer, f.buffer) /\ (f.hasError => g.hasError)
       /\ g.processState = "PROCESS" => ~g.hasError
       /\ f.processState = "BODY" => g.processState = "BODY"
       /\ ~g.hasError => /\ g.processState = "URI" => f.processState = "URI" /\ g.lineState = f.lineState
                         /\ g.processState = "HEADER" => g.lineState # "END_LF"
  <2> DEFINE a == ParseHeaders(f)
  <2>1. Len(f.buffer) \in Nat /\ f.buffer \in Seq(Symbol)
    BY <1>12, LenProperties DEF IsHttp
  <2>2. /\ f.processState # "HEADER" \/ f.hasError => g = f
        /\ f.processState = "HEADER" /\ ~f.hasError =>
             /\ Bounds(a, Len(f.buffer))
             /\ \/ g.buffer = f.buffer
                \/ g.buffer = From(f.buffer, a.lineBegin)
                \/ g.buffer = From(f.buffer, a.next)
             /\ g.hasError = (a.result = "ERROR")
             /\ a.result = "ERROR" => g.processState = "HEADER"
             /\ a.result # "ERROR" => /\ g.processState # "URI"
                                      /\ g.processState = "HEADER" => g.lineState # "END_LF"
        /\ IsHttp(g)
    <3> HIDE DEF a
    <3> QED
      BY <1>8, <1>12, <1>13, AtHeadersFields DEF a
  <2> HIDE DEF a
  <2>3. Bounds(a, Len(f.buffer)) => a.lineBegin \in 1 .. Len(f.buffer) + 1 /\ a.next \in 1 .. Len(f.buffer) + 1
    BY <2>1 DEF Bounds, IsScanner
  <2>4. CASE f.processState # "HEADER" \/ f.hasError
    BY <1>10, <1>12, <2>1, <2>2, <2>4
  <2>5. CASE f.processState = "HEADER" /\ ~f.hasError
    <3>1. /\ g.processState = "PROCESS" => ~g.hasError
          /\ ~g.hasError => /\ g.processState # "URI"
                            /\ g.processState = "HEADER" => g.lineState # "END_LF"
      BY <2>2, <2>5
    <3> QED
      BY <1>9, <1>10, <2>1, <2>2, <2>3, <2>5, <3>1
  <2> QED
    BY <2>4, <2>5
<1>15. B(g.buffer, U)
  BY <1>3, <1>11, <1>12, <1>14
<1>16. Seen(f) \in Handlers!AtURI(Seen(h)) /\ Len(f.buffer) <= f.held
  BY <1>4, <1>5, AtURIImplements DEF f
<1>17. Seen(g) \in Handlers!AtHeaders(Seen(f)) /\ Len(g.buffer) <= g.held
  BY <1>8, <1>12, <1>13, <1>16, AtHeadersImplements
<1>18. /\ Len(g.buffer) \in Nat /\ Len(g.buffer) <= Len(U)
       /\ \A j \in 1 .. Len(g.buffer) : g.buffer[j] = U[Len(U) - Len(g.buffer) + j]
  BY <1>15 DEF B
<1>19. ~g.hasError => /\ g.processState = "URI" => g.lineState = "START"
                      /\ g.processState = "HEADER" => g.lineState # "END_LF"
  BY <1>4, <1>7, <1>12, <1>14
<1> QED
  BY <1>4, <1>12, <1>14, <1>16, <1>17, <1>18, <1>19 DEF U, h

LEMMA TurnLeaves ==
  ASSUME Placed, AllFramed, turn, NEW g, g = Parsed, ~g.hasError
  PROVE  ~http.hasError /\ (g.processState = "BODY" \/ Left(g, Sent - Len(g.buffer)))
<1>1. ~http.hasError
  BY Takes
<1>2. http.processState \in {"URI", "HEADER", "BODY"}
  BY DEF Placed, TypeOK, IsHttp
<1>3. http.processState = "BODY" => g.processState = "BODY"
  BY Takes
<1> QED
  BY <1>1, <1>2, <1>3, LineLeaves, HeaderLeaves

-----------------------------------------------------------------------------
(* The invariant of every stream.                                          *)

LEMMA Fresh ==
  ASSUME NEW b \in Seq(Symbol)
  PROVE  /\ IsHttp(NewRequest(b)) /\ NewRequest(b).processState = "URI" /\ NewRequest(b).buffer = b
         /\ NewRequest(b).lineState = "START" /\ NewRequest(b).headers = <<>>
         /\ ~NewRequest(b).hasError /\ NewRequest(b).held = Len(b)
<1>1. Len(b) \in Nat
  BY LenProperties
<1> QED
  BY <1>1 DEF NewRequest, IsHttp, LineState

\* A sequence of anything is one of what it holds.
LEMMA SequenceOfItself ==
  ASSUME NEW T, NEW s \in Seq(T)
  PROVE  IsSequence(s) /\ Len(s) \in Nat /\ DOMAIN s = 1 .. Len(s)
<1>1. Len(s) \in Nat /\ DOMAIN s = 1 .. Len(s) /\ s = [i \in 1 .. Len(s) |-> s[i]]
  BY LenProperties
<1> DEFINE R == {s[i] : i \in DOMAIN s}
<1>2. \A i \in 1 .. Len(s) : s[i] \in R
  BY <1>1
<1> HIDE DEF R
<1>3. s \in Seq(R)
  BY <1>1, <1>2, IsASeq
<1> QED
  BY <1>1, <1>3 DEF IsSequence, R

LEMMA PlacedInit == Init => Placed
<1> SUFFICES ASSUME Init PROVE Placed
  OBVIOUS
<1>1. /\ stream \in Streams /\ http = NewRequest(<<>>) /\ inq = <<>> /\ turn = FALSE /\ at = 1 /\ off = 0
      /\ answers = <<>> /\ cut = FALSE /\ piped = FALSE
  BY DEF Init
<1>2. Len(stream) \in Nat
  BY <1>1, Requests
<1>3. <<>> \in Seq(Symbol) /\ Len(<<>>) = 0
  BY EmptySeq
<1>4. /\ IsHttp(http) /\ http.processState = "URI" /\ http.buffer = <<>>
      /\ http.lineState = "START" /\ http.headers = <<>> /\ http.held = 0
  BY <1>1, <1>3, Fresh
<1>5. IsSequence(answers)
  BY <1>1, <1>3, SequenceOfItself
<1>6. TypeOK
  <2>1. turn \in BOOLEAN /\ cut \in BOOLEAN /\ piped \in BOOLEAN
    BY <1>1
  <2>2. inq \in Seq(Symbol)
    BY <1>1, <1>3
  <2>3. at \in 1 .. Len(stream) + 1 /\ off \in Nat /\ ~(off > 0)
    BY <1>1, <1>2
  <2> QED
    BY <1>1, <1>4, <1>5, <2>1, <2>2, <2>3 DEF TypeOK
<1>7. AnswersRight
  BY <1>1 DEF AnswersRight, OwnPages, Arrived
<1>8. Offset[1] = 0
  BY <1>1, Offsets
<1>9. Sent = 0 /\ Consumed = 0 /\ Current = 1
  BY <1>1, <1>3, <1>4, <1>8, ConcatProperties DEF Sent, Consumed, Unread, Current
<1>10. Contents
  <2>1. ASSUME NEW m \in DOMAIN stream, NEW j \in 1 .. Len(stream[m].text), 0 < Offset[m] + j, Offset[m] + j <= 0
        PROVE  FALSE
    <3>1. m \in 1 .. Len(stream)
      BY <1>1, Requests
    <3>2. Offset[m] \in Nat
      BY <1>1, <3>1, OneRequest
    <3> QED
      BY <2>1, <3>2
  <2> QED
    BY <1>9, <2>1 DEF Contents
<1>11. AtLine /\ AtBlock /\ Resumes
  BY <1>4, <1>8, <1>9 DEF AtLine, AtBlock, Resumes
<1> QED
  BY <1>3, <1>4, <1>6, <1>7, <1>10, <1>11 DEF Placed
\* What arrives is the next piece of the request that is being sent.
Piece(n) ==
  LET text == stream[at].text
  IN /\ inq' = inq \o SubSeq(text, off + 1, off + n)
     /\ IF off + n = Len(text) THEN at' = at + 1 /\ off' = 0
                               ELSE at' = at /\ off' = off + n

LEMMA Arrives ==
  ASSUME TypeOK, Arrive
  PROVE  \E n \in Nat :
           /\ n >= 1 /\ off + n <= Len(stream[at].text) /\ at \in 1 .. Len(stream) /\ Piece(n)
           /\ Sent' = Sent + n /\ Unread' \in Seq(Symbol) /\ Len(Unread') = Len(Unread) + n
           /\ \A x \in 1 .. Len(Unread) : Unread'[x] = Unread[x]
           /\ \A x \in 1 .. n : Unread'[Len(Unread) + x] = stream[at].text[off + x]
           /\ Consumed' = Consumed /\ Current' = Current /\ Offset' = Offset /\ Arrived' >= Arrived
           /\ inq' \in Seq(Symbol) /\ inq' # <<>>
           /\ http' = http /\ stream' = stream /\ answers' = answers /\ turn' = TRUE
           /\ cut' = cut /\ piped' = piped /\ ~http.hasError
<1> DEFINE text == stream[at].text
<1>1. /\ ~http.hasError /\ at <= Len(stream) /\ turn' = TRUE
      /\ http' = http /\ stream' = stream /\ answers' = answers /\ cut' = cut /\ piped' = piped
  BY DEF Arrive
<1>2. PICK n \in 1 .. Len(text) - off : Piece(n)
  BY DEF Arrive, Piece
<1>3. /\ stream \in Streams /\ Len(stream) \in Nat /\ at \in 1 .. Len(stream) /\ off \in Nat
      /\ Unread \in Seq(Symbol) /\ Len(Unread) \in Nat /\ Offset[at] \in Nat /\ Sent \in Nat
      /\ Consumed \in Int /\ Consumed + Len(Unread) = Sent
  BY <1>1, Numbers
<1>4. text \in Seq(Symbol) /\ Len(text) \in Nat /\ Offset[at + 1] = Offset[at] + Len(text)
  BY <1>3, OneRequest
<1> HIDE DEF text
<1>5. n \in Nat /\ n >= 1 /\ off + n <= Len(text)
  BY <1>3, <1>4
<1> DEFINE q == SubSeq(text, off + 1, off + n)
<1>6. q \in Seq(Symbol) /\ Len(q) = n /\ \A x \in 1 .. n : q[x] = text[off + x]
  <2>1. \A i \in off + 1 .. off + n : text[i] \in Symbol
    <3>1. \A i \in off + 1 .. off + n : i \in 1 .. Len(text)
      BY <1>3, <1>4, <1>5
    <3> QED
      BY <1>4, <3>1, ElementOfSeq
  <2>2. off + 1 \in Int /\ off + n \in Int
    BY <1>3, <1>5
  <2>3. /\ q \in Seq(Symbol)
        /\ Len(q) = IF off + 1 <= off + n THEN (off + n) - (off + 1) + 1 ELSE 0
        /\ \A i \in 1 .. (off + n) - (off + 1) + 1 : q[i] = text[(off + 1) + i - 1]
    BY <2>1, <2>2, SubSeqProperties
  <2> HIDE DEF q
  <2>4. (off + n) - (off + 1) + 1 = n
    BY <1>3, <1>5
  <2>5. \A i \in 1 .. n : (off + 1) + i - 1 = off + i
    BY <1>3, <1>5
  <2> QED
    BY <1>3, <1>5, <2>3, <2>4, <2>5
<1>7. inq' = inq \o q
  BY <1>2 DEF Piece, q, text
<1> HIDE DEF q
<1>8. inq \in Seq(Symbol) /\ http.buffer \in Seq(Symbol) /\ Unread = http.buffer \o inq
  BY DEF TypeOK, IsHttp, Unread
<1>9. inq' \in Seq(Symbol) /\ Len(inq') = Len(inq) + n /\ Len(inq) \in Nat
  BY <1>6, <1>7, <1>8, ConcatProperties, LenProperties
<1>10. inq' # <<>>
  BY <1>5, <1>9
<1>11. Unread' = Unread \o q
  <2>1. Unread' = http.buffer \o (inq \o q)
    BY <1>1, <1>7 DEF Unread
  <2>2. (http.buffer \o inq) \o q = http.buffer \o (inq \o q)
    <3> DEFINE b == http.buffer
    <3>2. b \in Seq(Symbol) /\ inq \in Seq(Symbol) /\ q \in Seq(Symbol)
      BY <1>6, <1>8
    <3> HIDE DEF b
    <3>3. (b \o inq) \o q = b \o (inq \o q)
      BY <3>2, ConcatAssociative
    <3> QED
      BY <3>3 DEF b
  <2> QED
    BY <1>8, <2>1, <2>2
<1>12. /\ Unread' \in Seq(Symbol) /\ Len(Unread') = Len(Unread) + n
       /\ \A x \in 1 .. Len(Unread) : Unread'[x] = Unread[x]
       /\ \A x \in 1 .. n : Unread'[Len(Unread) + x] = text[off + x]
  <2> DEFINE U == Unread
             V == U \o q
  <2>1. V \in Seq(Symbol) /\ Len(V) = Len(U) + n
        /\ \A i \in 1 .. Len(U) + n : V[i] = IF i <= Len(U) THEN U[i] ELSE q[i - Len(U)]
    BY <1>3, <1>6, ConcatProperties
  <2>2. Unread' = V
    BY <1>11
  <2> HIDE DEF U, V
  <2>3. Len(U) \in Nat
    BY <1>3 DEF U
  <2>4. ASSUME NEW x \in 1 .. Len(U) PROVE V[x] = U[x]
    BY <1>5, <2>1, <2>3
  <2>5. ASSUME NEW x \in 1 .. n PROVE V[Len(U) + x] = text[off + x]
    <3> DEFINE i == Len(U) + x
    <3>1. i \in 1 .. Len(U) + n /\ ~(i <= Len(U)) /\ i - Len(U) = x
      BY <1>5, <2>3
    <3> HIDE DEF i
    <3>2. V[i] = q[x]
      BY <2>1, <3>1
    <3> QED
      BY <1>6, <3>2 DEF i
  <2> QED
    BY <2>1, <2>2, <2>4, <2>5 DEF U
<1>13. Offset' = Offset
  BY <1>1 DEF Offset
<1>14. Sent' = Sent + n /\ at' - 1 >= at - 1
  <2>1. Sent = Offset[at] + off /\ Sent' = Offset[at'] + off'
    BY <1>13 DEF Sent
  <2>2. IF off + n = Len(text) THEN at' = at + 1 /\ off' = 0
                               ELSE at' = at /\ off' = off + n
    BY <1>2 DEF Piece, text
  <2> DEFINE o == Offset[at]
             l == Len(text)
  <2>3. o \in Nat /\ l \in Nat /\ Sent = o + off /\ Offset[at + 1] = o + l /\ off \in Nat /\ at \in Nat
    BY <1>3, <1>4, <2>1
  <2> HIDE DEF o, l
  <2>4. CASE off + n = l
    <3>1. at' = at + 1 /\ Sent' = (o + l) + 0
      BY <2>1, <2>2, <2>3, <2>4 DEF l
    <3>2. (o + l) + 0 = (o + off) + n
      BY <1>5, <2>3, <2>4
    <3> QED
      BY <2>3, <3>1, <3>2
  <2>5. CASE off + n # l
    <3>1. at' = at /\ Sent' = o + (off + n)
      BY <2>1, <2>2, <2>5 DEF l, o
    <3>2. o + (off + n) = (o + off) + n
      BY <1>5, <2>3
    <3> QED
      BY <2>3, <3>1, <3>2
  <2> QED
    BY <2>4, <2>5
<1>15. Consumed' = Consumed
  <2> DEFINE c == Consumed
             u == Len(Unread)
             v == Len(Unread')
  <2>1. c \in Int /\ u \in Nat /\ c + u = Sent /\ v = u + n /\ Consumed' = Sent' - v
    BY <1>3, <1>12 DEF Consumed
  <2> HIDE DEF c, u, v
  <2>2. (Sent + n) - v = c
    BY <1>3, <1>5, <2>1
  <2> QED
    BY <1>14, <2>1, <2>2 DEF c
<1>16. Current' = Current
  BY <1>1 DEF Current
<1>17. Arrived' >= Arrived
  BY <1>14 DEF Arrived
<1> QED
  BY <1>1, <1>2, <1>3, <1>5, <1>9, <1>10, <1>12, <1>13, <1>14, <1>15, <1>16, <1>17 DEF text

LEMMA PlacedArrive ==
  ASSUME Placed, Arrive
  PROVE  Placed'
<1>1. /\ TypeOK /\ AnswersRight /\ Contents /\ Len(http.buffer) <= http.held /\ Resumes /\ ~http.hasError
      /\ AllFramed => OwnPages /\ AtLine /\ AtBlock
  BY DEF Placed, AnswersRight, Arrive
<1>2. PICK n \in Nat :
           /\ n >= 1 /\ off + n <= Len(stream[at].text) /\ at \in 1 .. Len(stream) /\ Piece(n)
           /\ Sent' = Sent + n /\ Unread' \in Seq(Symbol) /\ Len(Unread') = Len(Unread) + n
           /\ \A x \in 1 .. Len(Unread) : Unread'[x] = Unread[x]
           /\ \A x \in 1 .. n : Unread'[Len(Unread) + x] = stream[at].text[off + x]
           /\ Consumed' = Consumed /\ Current' = Current /\ Offset' = Offset /\ Arrived' >= Arrived
           /\ inq' \in Seq(Symbol) /\ inq' # <<>>
           /\ http' = http /\ stream' = stream /\ answers' = answers /\ turn' = TRUE
           /\ cut' = cut /\ piped' = piped /\ ~http.hasError
  BY <1>1, Arrives
<1>3. /\ stream \in Streams /\ Len(stream) \in Nat /\ off \in Nat /\ at \in Nat
      /\ Unread \in Seq(Symbol) /\ Len(Unread) \in Nat /\ Offset[at] \in Nat /\ Sent \in Nat
      /\ Consumed \in Int /\ Consumed + Len(Unread) = Sent /\ Len(answers) \in Nat
  BY <1>1, Numbers
<1>4. /\ Len(stream[at].text) \in Nat /\ Offset[at + 1] = Offset[at] + Len(stream[at].text)
      /\ Sent = Offset[at] + off
  BY <1>2, <1>3, OneRequest DEF Sent
<1>5. TypeOK'
  <2>1. /\ at' \in 1 .. Len(stream) + 1 /\ off' \in Nat
        /\ off' > 0 => at' <= Len(stream) /\ off' < Len(stream[at'].text)
    <3> DEFINE l == Len(stream[at].text)
    <3>1. IF off + n = l THEN at' = at + 1 /\ off' = 0 ELSE at' = at /\ off' = off + n
      BY <1>2 DEF Piece
    <3>2. l \in Nat /\ off \in Nat /\ n \in Nat /\ off + n <= l /\ at \in 1 .. Len(stream) /\ Len(stream) \in Nat
      BY <1>2, <1>3, <1>4
    <3> HIDE DEF l
    <3>3. CASE off + n = l
      BY <3>1, <3>2, <3>3
    <3>4. CASE off + n # l
      <4>1. at' = at /\ off' = off + n /\ off + n < l /\ off + n \in Nat
        BY <3>1, <3>2, <3>4
      <4> QED
        BY <3>2, <4>1 DEF l
    <3> QED
      BY <3>3, <3>4
  <2>2. turn' \in BOOLEAN /\ cut' \in BOOLEAN /\ piped' \in BOOLEAN
    BY <1>1, <1>2, Zenon DEF TypeOK
  <2>3. IsHttp(http)' /\ http'.processState # "PROCESS" /\ IsSequence(answers)' /\ stream' \in Streams
    BY <1>1, <1>2 DEF TypeOK
  <2>4. IsHttp(http') /\ IsSequence(answers')
    BY <1>1, <1>2 DEF TypeOK
  <2> QED
    BY <1>2, <2>1, <2>2, <2>3, <2>4 DEF TypeOK
<1>6. AnswersRight'
  <2> SUFFICES ASSUME AllFramed'
               PROVE  OwnPages'
    BY DEF AnswersRight
  <2>0. AllFramed
    BY <1>2 DEF AllFramed
  <2>1. Len(answers) <= Arrived /\ (\A i \in DOMAIN answers : answers[i].path = stream[i].path)
    BY <1>1, <2>0 DEF OwnPages
  <2>2. Arrived \in Int /\ Arrived' \in Int
    <3>1. at' = at \/ at' = at + 1
      BY <1>2 DEF Piece
    <3> QED
      BY <1>3, <3>1 DEF Arrived
  <2>3. Len(answers) <= Arrived'
    BY <1>2, <1>3, <2>1, <2>2
  <2> QED
    BY <1>2, <2>1, <2>3 DEF OwnPages
<1>7. Contents'
  <2>1. ASSUME NEW m \in DOMAIN stream, NEW j \in 1 .. Len(stream[m].text),
               Consumed < Offset[m] + j, Offset[m] + j <= Sent + n
        PROVE  Unread'[Offset[m] + j - Consumed] = stream[m].text[j]
    <3> DEFINE om == Offset[m]
               lm == Len(stream[m].text)
               c  == Consumed
               u  == Len(Unread)
               oa == Offset[at]
               la == Len(stream[at].text)
    <3>1. m \in 1 .. Len(stream)
      BY <1>3, Requests
    <3>2. om \in Nat /\ lm \in Nat /\ m \in Nat
      BY <1>3, <3>1, OneRequest
    <3>3. /\ c \in Int /\ u \in Nat /\ c + u = Sent /\ Sent = oa + off /\ oa \in Nat /\ la \in Nat
          /\ off \in Nat /\ n \in Nat /\ off + n <= la /\ n >= 1 /\ at \in Nat
      BY <1>2, <1>3, <1>4
    <3>4. j \in 1 .. lm /\ c < om + j /\ om + j <= Sent + n
      BY <2>1
    <3>5. m < at => om + lm <= oa
      <4>1. at \in 1 .. Len(stream) + 1
        BY <1>2, <1>3
      <4> QED
        BY <1>3, <3>1, <4>1, Offsets
    <3>6. at < m => oa + la <= om
      <4>1. m \in 1 .. Len(stream) + 1
        BY <1>3, <3>1
      <4> QED
        BY <1>2, <1>3, <4>1, Offsets
    <3>7. m = at => om = oa
      OBVIOUS
    <3> HIDE DEF om, lm, c, u, oa, la
    <3>8. CASE om + j <= Sent
      <4>1. om + j - c \in 1 .. u
        BY <3>2, <3>3, <3>4, <3>8
      <4>2. Unread'[om + j - c] = Unread[om + j - c]
        BY <1>2, <4>1 DEF u
      <4>3. Unread[om + j - c] = stream[m].text[j]
        BY <1>1, <3>4, <3>8 DEF Contents, om, c, lm
      <4> QED
        BY <4>2, <4>3 DEF om, c
    <3>9. CASE om + j > Sent
      <4>1. ~(m < at)
        BY <3>2, <3>3, <3>4, <3>5, <3>9
      <4>2. ~(at < m)
        BY <3>2, <3>3, <3>4, <3>6
      <4>3. m = at
        BY <3>2, <3>3, <4>1, <4>2
      <4>4. j - off \in 1 .. n /\ om + j - c = u + (j - off) /\ off + (j - off) = j
        BY <3>2, <3>3, <3>4, <3>7, <3>9, <4>3
      <4>5. Unread'[u + (j - off)] = stream[at].text[off + (j - off)]
        BY <1>2, <4>4 DEF u
      <4>6. Unread'[om + j - c] = stream[m].text[j]
        BY <4>3, <4>4, <4>5
      <4> QED
        BY <4>6 DEF om, c
    <3> QED
      BY <3>2, <3>3, <3>4, <3>8, <3>9
  <2>2. /\ Consumed' = Consumed /\ Offset' = Offset /\ stream' = stream /\ Sent' = Sent + n
    BY <1>2
  <2>3. \A m \in DOMAIN stream' : \A j \in 1 .. Len(stream'[m].text) :
          Consumed' < Offset'[m] + j /\ Offset'[m] + j <= Sent' =>
            Unread'[Offset'[m] + j - Consumed'] = stream'[m].text[j]
    BY <2>1, <2>2
  <2> QED
    BY <2>3 DEF Contents
<1>8. ASSUME AllFramed PROVE AtLine'
  <2>0. OwnPages /\ AtLine
    BY <1>1, <1>8
  <2>1. CASE http.processState = "URI"
    <3>1. /\ http.lineState = "START" /\ http.headers = <<>>
          /\ Consumed - Offset[Current] \in {-1, 0, 1}
          /\ Consumed < Offset[Current] => Unread[1] = "LF"
      BY <2>0, <2>1 DEF AtLine
    <3>2. Consumed < Offset[Current] => Unread'[1] = "LF"
      <4>1. Consumed < Offset[Current] => 1 \in 1 .. Len(Unread)
        <5> DEFINE c == Consumed
                   o == Offset[Current]
                   u == Len(Unread)
        <5>1. c \in Int /\ o \in Nat /\ u \in Nat /\ c + u = Sent /\ o <= Sent
          BY <1>1, <1>3, <2>0, InRange, Behind
        <5> HIDE DEF c, o, u
        <5>2. c < o => 1 \in 1 .. u
          BY <5>1
        <5> QED
          BY <5>2 DEF c, o, u
      <4> QED
        BY <1>2, <3>1, <4>1
    <3> QED
      BY <1>2, <2>1, <3>1, <3>2 DEF AtLine
  <2>2. CASE http.processState # "URI"
    BY <1>2, <2>2 DEF AtLine
  <2> QED
    BY <2>1, <2>2
<1>9. ASSUME AllFramed PROVE AtBlock'
  BY <1>1, <1>2, <1>9 DEF AtBlock
<1>10. (Len(http.buffer) <= http.held)' /\ Resumes'
  BY <1>1, <1>2 DEF Resumes
<1>11. AllFramed' => AllFramed
  BY <1>2 DEF AllFramed
<1> QED
  BY <1>5, <1>6, <1>7, <1>8, <1>9, <1>10, <1>11 DEF Placed

\* What any turn does to the rest of the state.
LEMMA Turns ==
  ASSUME Placed, HandleRead, NEW g, g = Parsed
  PROVE  /\ turn /\ IsHttp(http') /\ http'.buffer = g.buffer /\ Len(http'.buffer) <= http'.held
         /\ \/ /\ Answer(g) /\ g.processState = "PROCESS" /\ ~g.hasError
               /\ http' = NewRequest(g.buffer)
               /\ answers' = Append(answers, [path |-> g.path, headers |-> g.headers])
               /\ Current' = Current + 1 /\ turn' = (g.buffer # <<>>)
            \/ /\ Pause(g) /\ g.processState # "PROCESS" /\ http' = g /\ answers' = answers
               /\ Current' = Current /\ turn' = FALSE
         /\ inq' = <<>> /\ stream' = stream /\ at' = at /\ off' = off
         /\ Offset' = Offset /\ Sent' = Sent /\ Unread' = g.buffer
         /\ Consumed' = Sent - Len(g.buffer) /\ Arrived' = Arrived
         /\ cut' = (cut \/ (off > 0 /\ off > stream[at].line))
         /\ piped' = (piped \/ Begun > Len(answers) + 1)
         /\ turn' \in BOOLEAN
<1>1. /\ turn /\ (Answer(g) \/ Pause(g)) /\ inq' = <<>> /\ stream' = stream /\ at' = at /\ off' = off
      /\ cut' = (cut \/ (off > 0 /\ off > stream[at].line))
      /\ piped' = (piped \/ Begun > Len(answers) + 1)
  BY DEF HandleRead
<1>2. IsHttp(g) /\ g.buffer \in Seq(Symbol) /\ Len(g.buffer) <= g.held /\ (g.processState = "PROCESS" => ~g.hasError)
      /\ Len(g.buffer) \in Nat
  BY Takes DEF IsHttp
<1>3. TypeOK
  BY DEF Placed
<1>4. Len(answers) \in Nat
  BY <1>3, Numbers
<1>5. Offset' = Offset
  BY <1>1 DEF Offset
<1>6. Sent' = Sent /\ Arrived' = Arrived
  BY <1>1, <1>5 DEF Sent, Arrived
<1>7. /\ IsHttp(http') /\ http'.buffer = g.buffer /\ Len(http'.buffer) <= http'.held
      /\ \/ /\ Answer(g) /\ g.processState = "PROCESS" /\ ~g.hasError
            /\ http' = NewRequest(g.buffer)
            /\ answers' = Append(answers, [path |-> g.path, headers |-> g.headers])
            /\ Current' = Current + 1 /\ turn' = (g.buffer # <<>>)
         \/ /\ Pause(g) /\ g.processState # "PROCESS" /\ http' = g /\ answers' = answers
            /\ Current' = Current /\ turn' = FALSE
  <2>1. CASE Answer(g)
    <3>1. /\ g.processState = "PROCESS" /\ ~g.hasError /\ http' = NewRequest(g.buffer)
          /\ answers' = Append(answers, [path |-> g.path, headers |-> g.headers])
          /\ turn' = (g.buffer # <<>>)
      BY <2>1 DEF Answer, Reset
    <3>2. IsHttp(http') /\ http'.buffer = g.buffer /\ Len(http'.buffer) <= http'.held
      BY <1>2, <3>1, Fresh
    <3>3. Current' = Current + 1
      <4>1. Len(answers') = Len(answers) + 1
        BY <1>3, <3>1, AppendProperties DEF TypeOK, IsSequence
      <4> QED
        BY <1>4, <4>1 DEF Current
    <3> QED
      BY <2>1, <3>1, <3>2, <3>3
  <2>2. CASE Pause(g)
    <3>1. g.processState # "PROCESS" /\ http' = g /\ answers' = answers /\ turn' = FALSE
      BY <1>2, <2>2 DEF Pause
    <3>2. Current' = Current
      BY <3>1 DEF Current
    <3> QED
      BY <1>2, <2>2, <3>1, <3>2
  <2> QED
    BY <1>1, <2>1, <2>2
<1>8. Unread' = g.buffer
  <2>1. Unread' = g.buffer \o <<>>
    BY <1>1, <1>7 DEF Unread
  <2> QED
    BY <1>2, <2>1, ConcatEmptySeq
<1>9. Consumed' = Sent - Len(g.buffer)
  BY <1>6, <1>8 DEF Consumed
<1>10. turn' \in BOOLEAN
  BY <1>7, Zenon
<1> QED
  BY <1>1, <1>5, <1>6, <1>7, <1>8, <1>9, <1>10

LEMMA PlacedTurn ==
  ASSUME Placed, HandleRead
  PROVE  Placed'
<1> DEFINE g == Parsed
           c == Sent - Len(g.buffer)
<1>1. TypeOK /\ AnswersRight /\ Contents
  BY DEF Placed
<1>2. /\ turn /\ IsHttp(http') /\ http'.buffer = g.buffer /\ Len(http'.buffer) <= http'.held
      /\ \/ /\ Answer(g) /\ g.processState = "PROCESS" /\ ~g.hasError
            /\ http' = NewRequest(g.buffer)
            /\ answers' = Append(answers, [path |-> g.path, headers |-> g.headers])
            /\ Current' = Current + 1 /\ turn' = (g.buffer # <<>>)
         \/ /\ Pause(g) /\ g.processState # "PROCESS" /\ http' = g /\ answers' = answers
            /\ Current' = Current /\ turn' = FALSE
      /\ inq' = <<>> /\ stream' = stream /\ at' = at /\ off' = off
      /\ Offset' = Offset /\ Sent' = Sent /\ Unread' = g.buffer /\ Consumed' = c /\ Arrived' = Arrived
      /\ cut' = (cut \/ (off > 0 /\ off > stream[at].line))
      /\ piped' = (piped \/ Begun > Len(answers) + 1)
      /\ turn' \in BOOLEAN
  BY Turns
<1>3. /\ IsHttp(g) /\ Len(g.buffer) \in Nat /\ Len(g.buffer) <= Len(Unread)
      /\ \A j \in 1 .. Len(g.buffer) : g.buffer[j] = Unread[Len(Unread) - Len(g.buffer) + j]
  BY Takes
<1>4. ~g.hasError /\ AllFramed => ~http.hasError /\ (g.processState = "BODY" \/ Left(g, c))
  BY <1>2, TurnLeaves
<1>20. ~g.hasError => /\ g.processState = "URI" => g.lineState = "START"
                      /\ g.processState = "HEADER" => g.lineState # "END_LF"
  BY Takes
<1> HIDE DEF g
<1>5. /\ stream \in Streams /\ Len(stream) \in Nat /\ Sent \in Nat /\ Consumed \in Int /\ Len(Unread) \in Nat
      /\ Consumed + Len(Unread) = Sent /\ Len(answers) \in Nat /\ at \in 1 .. Len(stream) + 1
      /\ Current \in Nat
  BY <1>1, Numbers
<1>21. AllFramed' => AllFramed /\ OwnPages /\ Current \in 1 .. at /\ Offset[Current] \in Nat
  <2> SUFFICES ASSUME AllFramed' PROVE AllFramed /\ OwnPages /\ Current \in 1 .. at /\ Offset[Current] \in Nat
    OBVIOUS
  <2>1. AllFramed /\ OwnPages
    BY <1>1, <1>2 DEF AllFramed, AnswersRight
  <2> QED
    BY <1>1, <2>1, InRange
<1>6. g.buffer \in Seq(Symbol)
  BY <1>3 DEF IsHttp
<1>7. Contents'
  <2>1. ASSUME NEW m \in DOMAIN stream, NEW j \in 1 .. Len(stream[m].text),
               c < Offset[m] + j, Offset[m] + j <= Sent
        PROVE  Unread'[Offset[m] + j - c] = stream[m].text[j]
    <3> DEFINE om == Offset[m]
               u  == Len(Unread)
               l  == Len(g.buffer)
               b  == Consumed
               lm == Len(stream[m].text)
    <3>1. om \in Nat /\ lm \in Nat
      BY <1>5, Requests, OneRequest
    <3>2. j \in 1 .. lm /\ om + j <= Sent /\ c < om + j /\ c = Sent - l
      BY <2>1
    <3>3. l \in Nat /\ u \in Nat /\ l <= u /\ b \in Int /\ b + u = Sent /\ Sent \in Nat
      BY <1>3, <1>5
    <3> HIDE DEF om, u, l, b, c, lm
    <3>4. om + j - c \in 1 .. l /\ u - l + (om + j - c) = om + j - b /\ b < om + j
      BY <3>1, <3>2, <3>3
    <3>5. g.buffer[om + j - c] = Unread[u - l + (om + j - c)]
      BY <1>3, <3>4 DEF l, u
    <3>6. Unread[om + j - b] = stream[m].text[j]
      BY <1>1, <3>2, <3>4 DEF Contents, om, b, lm
    <3>7. Unread' = g.buffer
      BY <1>2
    <3> QED
      BY <3>4, <3>5, <3>6, <3>7 DEF om
  <2>2. \A m \in DOMAIN stream' : \A j \in 1 .. Len(stream'[m].text) :
          Consumed' < Offset'[m] + j /\ Offset'[m] + j <= Sent' =>
            Unread'[Offset'[m] + j - Consumed'] = stream'[m].text[j]
    <3> HIDE DEF c
    <3> QED
      BY <1>2, <2>1
  <2> QED
    BY <2>2 DEF Contents
<1> HIDE DEF c
<1>8. http'.processState # "PROCESS"
  BY <1>2, <1>6, Fresh
<1>9. IsSequence(answers')
  <2>1. CASE answers' = answers
    BY <1>1, <2>1 DEF TypeOK
  <2>2. CASE answers' = Append(answers, [path |-> g.path, headers |-> g.headers])
    <3> DEFINE R == {answers[i] : i \in DOMAIN answers} \cup {[path |-> g.path, headers |-> g.headers]}
    <3>1. answers \in Seq({answers[i] : i \in DOMAIN answers})
      BY <1>1 DEF TypeOK, IsSequence
    <3>2. [path |-> g.path, headers |-> g.headers] \in R /\ {answers[i] : i \in DOMAIN answers} \subseteq R
      OBVIOUS
    <3> HIDE DEF R
    <3>3. answers \in Seq(R)
      BY <3>1, <3>2, SeqMonotonic
    <3>4. answers' \in Seq(R)
      BY <2>2, <3>2, <3>3, AppendProperties
    <3> QED
      BY <3>4, SequenceOfItself
  <2> QED
    BY <1>2, <2>1, <2>2
<1>10. TypeOK'
  <2>1. cut' \in BOOLEAN /\ piped' \in BOOLEAN
    BY <1>2, Zenon
  <2>2. /\ stream' \in Streams /\ at' \in 1 .. Len(stream') + 1 /\ off' \in Nat
        /\ off' > 0 => at' <= Len(stream') /\ off' < Len(stream'[at'].text)
    BY <1>1, <1>2 DEF TypeOK
  <2>3. inq' \in Seq(Symbol)
    BY <1>2, EmptySeq
  <2> QED
    BY <1>2, <1>8, <1>9, <2>1, <2>2, <2>3 DEF TypeOK
<1>11. CASE Pause(g) /\ http' = g /\ answers' = answers /\ Current' = Current /\ turn' = FALSE
             /\ g.processState # "PROCESS"
  <2>1. AnswersRight'
    BY <1>2, <1>11, <1>21 DEF AnswersRight, OwnPages
  <2>3. Resumes'
    BY <1>11, <1>20 DEF Resumes
  <2>2. AllFramed' /\ ~http'.hasError => AtLine' /\ AtBlock'
    <3>1. SUFFICES ASSUME AllFramed', ~http'.hasError PROVE AtLine' /\ AtBlock'
      OBVIOUS
    <3>0. AllFramed
      BY <1>21, <3>1
    <3>2. CASE g.processState = "BODY"
      BY <1>11, <3>2 DEF AtLine, AtBlock
    <3>3. CASE g.processState = "URI"
      <4>1. g.lineState = "START" /\ g.headers = <<>> /\ OnLine(g, c - Offset[Current])
        BY <1>4, <1>11, <3>0, <3>1, <3>3 DEF Left
      <4>2. /\ c - Offset[Current] \in {-1, 0, 1}
            /\ c < Offset[Current] => g.buffer[1] = "LF"
        <5>1. c \in Int /\ Offset[Current] \in Nat
          BY <1>3, <1>5, <1>21, <3>1 DEF c
        <5> QED
          BY <4>1, <5>1 DEF OnLine
      <4> QED
        BY <1>2, <1>11, <3>3, <4>1, <4>2 DEF AtLine, AtBlock
    <3>4. CASE g.processState = "HEADER"
      <4>1. /\ Current <= Len(stream)
            /\ g.path = stream[Current].path /\ g.method = stream[Current].method
            /\ InBlock(g, stream[Current], c - Offset[Current] + 1)
        BY <1>4, <1>11, <3>0, <3>1, <3>4 DEF Left
      <4> QED
        BY <1>2, <1>11, <3>4, <4>1 DEF AtLine, AtBlock, InBlock
    <3> QED
      BY <1>3, <1>11, <3>2, <3>3, <3>4 DEF IsHttp
  <2> QED
    BY <1>2, <1>7, <1>10, <2>1, <2>2, <2>3 DEF Placed
<1>12. CASE /\ g.processState = "PROCESS" /\ ~g.hasError /\ http' = NewRequest(g.buffer)
            /\ answers' = Append(answers, [path |-> g.path, headers |-> g.headers])
            /\ Current' = Current + 1
  <2>1. AllFramed => /\ Current <= Len(stream) /\ Current < at
                     /\ g.path = stream[Current].path /\ OnLine(g, c - Offset[Current + 1])
    BY <1>4, <1>12 DEF Left
  <2>2. /\ http'.processState = "URI" /\ http'.lineState = "START" /\ http'.headers = <<>> /\ ~http'.hasError
    BY <1>6, <1>12, Fresh
  <2>3. AnswersRight'
    <3> SUFFICES ASSUME AllFramed' PROVE OwnPages'
      BY DEF AnswersRight
    <3>0. AllFramed /\ OwnPages /\ Current \in 1 .. at
      BY <1>21
    <3>1. Len(answers) <= Arrived /\ (\A i \in DOMAIN answers : answers[i].path = stream[i].path)
      BY <3>0 DEF OwnPages
    <3>2. answers \in Seq({answers[i] : i \in DOMAIN answers})
      BY <1>1 DEF TypeOK, IsSequence
    <3> DEFINE R == {answers[i] : i \in DOMAIN answers} \cup {[path |-> g.path, headers |-> g.headers]}
    <3>3. [path |-> g.path, headers |-> g.headers] \in R /\ {answers[i] : i \in DOMAIN answers} \subseteq R
      OBVIOUS
    <3> HIDE DEF R
    <3>4. answers \in Seq(R) /\ DOMAIN answers = 1 .. Len(answers)
      BY <3>2, <3>3, SeqMonotonic, LenProperties
    <3>5. /\ Len(answers') = Len(answers) + 1 /\ answers' \in Seq(R)
          /\ \A i \in 1 .. Len(answers) : answers'[i] = answers[i]
          /\ answers'[Len(answers) + 1] = [path |-> g.path, headers |-> g.headers]
      BY <1>12, <3>3, <3>4, AppendProperties
    <3>6. DOMAIN answers' = 1 .. Len(answers) + 1
      BY <3>5, LenProperties
    <3>7. Len(answers) + 1 <= Arrived
      BY <1>5, <2>1, <3>0 DEF Current, Arrived
    <3>8. answers'[Len(answers) + 1].path = stream[Len(answers) + 1].path
      BY <2>1, <3>0, <3>5 DEF Current
    <3>9. \A i \in 1 .. Len(answers) + 1 : answers'[i].path = stream[i].path
      <4>1. \A i \in 1 .. Len(answers) + 1 : i \in 1 .. Len(answers) \/ i = Len(answers) + 1
        BY <1>5
      <4> QED
        BY <3>1, <3>4, <3>5, <3>8, <4>1
    <3> QED
      BY <1>2, <3>5, <3>6, <3>7, <3>9 DEF OwnPages
  <2>4. AllFramed' => AtLine'
    <3> SUFFICES ASSUME AllFramed' PROVE AtLine'
      OBVIOUS
    <3>0. AllFramed
      BY <1>21
    <3>1. Current + 1 \in 1 .. Len(stream) + 1
      BY <1>5, <2>1, <3>0
    <3>2. c \in Int /\ Offset[Current + 1] \in Nat
      BY <1>3, <1>5, <3>1, Offsets DEF c
    <3>3. /\ c - Offset[Current + 1] \in {-1, 0, 1}
          /\ c < Offset[Current + 1] => g.buffer[1] = "LF"
      BY <2>1, <3>0, <3>2 DEF OnLine
    <3> QED
      BY <1>2, <1>12, <2>2, <3>3 DEF AtLine
  <2>5. AtBlock' /\ Resumes'
    BY <2>2 DEF AtBlock, Resumes
  <2> QED
    BY <1>2, <1>7, <1>10, <2>3, <2>4, <2>5 DEF Placed
<1> QED
  BY <1>2, <1>11, <1>12

LEMMA PlacedStep == Placed /\ [Next]_vars => Placed'
<1> SUFFICES ASSUME Placed, [Next]_vars PROVE Placed'
  OBVIOUS
<1>1. CASE HandleRead
  BY <1>1, PlacedTurn
<1>2. CASE Arrive
  BY <1>2, PlacedArrive
<1>3. CASE UNCHANGED vars
  <2>1. Offset' = Offset
    BY <1>3 DEF Offset, vars
  <2>2. Unread' = Unread /\ Sent' = Sent /\ Current' = Current
    BY <1>3, <2>1 DEF vars, Unread, Sent, Current
  <2>3. Consumed' = Consumed
    BY <2>2 DEF Consumed
  <2>4. TypeOK'
    BY <1>3 DEF Placed, vars, TypeOK
  <2>5. Contents'
    BY <1>3, <2>1, <2>2, <2>3 DEF Placed, vars, Contents
  <2>6. AnswersRight'
    BY <1>3 DEF Placed, vars, AnswersRight, AllFramed, OwnPages, Arrived
  <2>8. Resumes'
    BY <1>3 DEF Placed, vars, Resumes
  <2>7. (AllFramed /\ ~http.hasError => AtLine /\ AtBlock)'
    <3>1. AtLine => AtLine'
      BY <1>3, <2>1, <2>2, <2>3 DEF vars, AtLine
    <3>2. AtBlock => AtBlock'
      BY <1>3, <2>1, <2>2, <2>3 DEF vars, AtBlock
    <3> QED
      BY <1>3, <3>1, <3>2 DEF Placed, vars, AllFramed
  <2> QED
    BY <1>3, <2>4, <2>5, <2>6, <2>7, <2>8 DEF vars, Placed
<1> QED
  BY <1>1, <1>2, <1>3 DEF Next

\* The connection always is where Placed says: with requests that are Framed,
\* between two of them off by no more than a symbol, in a block at the beginning
\* of a line.
THEOREM PlacedHolds == Spec => []Placed
<1>1. Init => Placed
  BY PlacedInit
<1>2. Placed /\ [Next]_vars => Placed'
  BY PlacedStep
<1> QED
  BY <1>1, <1>2, PTL DEF Spec

\* When every request has its first letter r, where ParseURI ends the request
\* line, in its header block and not at the end of a line: no request is answered
\* before it has arrived, none is skipped or answered twice and none gets the page
\* of another, however the stream is cut or pipelined.  Of other requests only
\* InTurn holds, which is model-checked.
THEOREM RightAnswers == Spec => []AnswersRight
<1>1. Placed => AnswersRight
  BY DEF Placed
<1> QED
  BY <1>1, PlacedHolds, PTL

\* Every turn of the parsers is one of those HttpHandlers allows.
THEOREM HandlersImplemented == Spec => []ImplementsHandlers
<1>1. Placed => ImplementsHandlers
  BY Takes DEF ImplementsHandlers
<1> QED
  BY <1>1, PlacedHolds, PTL

-----------------------------------------------------------------------------
(* ParseHeaders on a whole block.                                          *)

\* A block in the buffer is its text, b symbols further.
Same(str, t, b, a, e)   == \A x \in a .. e - 1 : str[x] = t[b + x]
Copies(str, t, b, a, e) == Copy(str, a, e) = SubSeq(t, b + a, b + e - 1)

LEMMA Copied ==
  ASSUME NEW t \in Seq(Symbol), NEW str, NEW b \in Nat, NEW a \in Nat, NEW e \in Nat,
         1 <= a, a <= e, e + b - 1 <= Len(t), Same(str, t, b, a, e)
  PROVE  Copies(str, t, b, a, e)
<1> DEFINE one == Copy(str, a, e)
           two == SubSeq(t, b + a, b + e - 1)
<1>1. Len(t) \in Nat
  OBVIOUS
<1>2. two = [j \in 1 .. e - a |-> t[b + a + j - 1]]
  OBVIOUS
<1>3. \A j \in 1 .. e - a : a + j # 1 /\ a + j - 1 \in a .. e - 1 /\ b + (a + j - 1) = b + a + j - 1
  OBVIOUS
<1>4. one = [j \in 1 .. e - a |-> str[a + j - 1]]
  BY <1>3 DEF Copy
<1>5. \A j \in 1 .. e - a : str[a + j - 1] = t[b + a + j - 1]
  BY <1>3 DEF Same
<1> HIDE DEF one, two
<1>6. one = two
  BY <1>2, <1>4, <1>5
<1> QED
  BY <1>6 DEF one, two, Copies

\* The headers of the first m lines.
Collected(f, r, m) ==
  /\ DOMAIN f = {Name(r, i) : i \in 1 .. m}
  /\ m > 0 => f = [x \in DOMAIN f |-> f[x]]
  /\ \A i \in 1 .. m : (\A j \in i + 1 .. m : Name(r, j) # Name(r, i)) => f[Name(r, i)] = Value(r, i)

\* g is f and the header of line m.
Adds(g, f, r, m) ==
  g = [x \in DOMAIN f \cup {Name(r, m)} |-> IF x = Name(r, m) THEN Value(r, m) ELSE f[x]]

LEMMA CollectOne ==
  ASSUME NEW r, NEW m \in Nat, NEW f, Collected(f, r, m), NEW g, Adds(g, f, r, m + 1)
  PROVE  Collected(g, r, m + 1)
<1>0. g = [x \in DOMAIN f \cup {Name(r, m + 1)} |->
             IF x = Name(r, m + 1) THEN Value(r, m + 1) ELSE f[x]]
  BY DEF Adds
<1>1. DOMAIN g = {Name(r, i) : i \in 1 .. m + 1}
  <2>1. DOMAIN f = {Name(r, i) : i \in 1 .. m}
    BY DEF Collected
  <2>2. DOMAIN g = DOMAIN f \cup {Name(r, m + 1)}
    BY <1>0
  <2>3. 1 .. m + 1 = 1 .. m \cup {m + 1}
    OBVIOUS
  <2> QED
    BY <2>1, <2>2, <2>3
<1>2. g = [x \in DOMAIN g |-> g[x]]
  BY <1>0
<1>3. ASSUME NEW i \in 1 .. m + 1, \A j \in i + 1 .. m + 1 : Name(r, j) # Name(r, i)
      PROVE  g[Name(r, i)] = Value(r, i)
  <2>1. CASE i = m + 1
    BY <1>0, <2>1
  <2>2. CASE i # m + 1
    <3>1. i \in 1 .. m /\ m + 1 \in i + 1 .. m + 1 /\ \A j \in i + 1 .. m : j \in i + 1 .. m + 1
      BY <2>2
    <3>2. f[Name(r, i)] = Value(r, i) /\ Name(r, i) \in DOMAIN f
      BY <1>3, <3>1 DEF Collected
    <3>3. Name(r, m + 1) # Name(r, i)
      BY <1>3, <3>1
    <3> QED
      BY <1>0, <3>2, <3>3
  <2> QED
    BY <2>1, <2>2
<1> QED
  BY <1>1, <1>2, <1>3 DEF Collected

\* Those of all lines are what the request says.
LEMMA CollectedAll ==
  ASSUME NEW r, Len(r.lines) \in Nat, DOMAIN r.lines = 1 .. Len(r.lines), r.lines # <<>>, Len(r.lines) > 0,
         NEW f, Collected(f, r, Len(r.lines))
  PROVE  f = Headers(r)
<1> DEFINE m == Len(r.lines)
<1>1. /\ DOMAIN f = {Name(r, i) : i \in 1 .. m} /\ f = [x \in DOMAIN f |-> f[x]]
      /\ \A i \in 1 .. m : (\A j \in i + 1 .. m : Name(r, j) # Name(r, i)) => f[Name(r, i)] = Value(r, i)
  BY DEF Collected
<1>2. ASSUME NEW name \in {Name(r, i) : i \in 1 .. m}
      PROVE  f[name] = Value(r, LastOf(r, name))
  <2>1. \E i \in 1 .. m : Name(r, i) = name /\ \A j \in i + 1 .. m : Name(r, j) # name
    <3> DEFINE S == {d \in 0 .. m : m - d \in 1 .. m /\ Name(r, m - d) = name}
    <3>1. S # {}
      <4>1. PICK i \in 1 .. m : Name(r, i) = name
        OBVIOUS
      <4>2. m - i \in 0 .. m /\ m - (m - i) = i
        OBVIOUS
      <4> QED
        BY <4>1, <4>2
    <3>2. S \in SUBSET Nat
      OBVIOUS
    <3>3. PICK d \in S : \A e \in S : d <= e
      <4> HIDE DEF S
      <4> QED
        BY <3>1, <3>2, Least
    <3>4. m - d \in 1 .. m /\ Name(r, m - d) = name /\ d \in 0 .. m
      OBVIOUS
    <3>5. ASSUME NEW j \in (m - d) + 1 .. m, Name(r, j) = name PROVE FALSE
      <4>1. m - j \in 0 .. m /\ m - (m - j) = j /\ j \in 1 .. m /\ m - j < d
        <5>1. m \in Nat /\ d \in 0 .. m /\ j \in (m - d) + 1 .. m
          BY <3>4
        <5> HIDE DEF m, S
        <5> QED
          BY <5>1
      <4>2. m - j \in S
        BY <3>5, <4>1
      <4>3. d <= m - j
        BY <3>3, <4>2
      <4> QED
        BY <3>4, <4>1, <4>3
    <3> QED
      BY <3>4, <3>5
  <2> DEFINE l == LastOf(r, name)
  <2>2. l \in 1 .. m /\ Name(r, l) = name /\ \A j \in l + 1 .. m : Name(r, j) # name
    BY <2>1 DEF LastOf
  <2> HIDE DEF l
  <2>3. f[Name(r, l)] = Value(r, l)
    BY <1>1, <2>2
  <2> QED
    BY <2>2, <2>3 DEF l
<1>3. {Name(r, i) : i \in DOMAIN r.lines} = {Name(r, i) : i \in 1 .. m}
  OBVIOUS
<1>4. f = [name \in {Name(r, i) : i \in 1 .. m} |-> Value(r, LastOf(r, name))]
  <2> HIDE DEF m
  <2> QED
    BY <1>1, <1>2
<1> QED
  BY <1>3, <1>4 DEF Headers
\* A header line in a block: where the name begins, the colon, the CR.
IsLine(str, f, c, e) ==
  /\ f < c /\ c + 2 < e /\ e < Len(str) /\ e - c - 3 <= MaxValue
  /\ \A j \in f .. c - 1 : str[j] \notin {":", "CR", "LF"}
  /\ str[c] = ":" /\ str[c + 1] = "SP"
  /\ \A j \in c + 2 .. e - 1 : str[j] # "CR"
  /\ str[e] = "CR" /\ str[e + 1] = "LF"

\* The state behind the symbol at i of such a line.
StateAt(i, c, e) ==
  IF i < c THEN "KEY" ELSE IF i = c THEN "COLON" ELSE IF i = c + 1 THEN "SPACES"
  ELSE IF i < e THEN "VALUE" ELSE IF i = e THEN "CR" ELSE "LF"

Reading(a, i, f, c, e) ==
  /\ a.result = "AGAIN" /\ f <= i /\ i <= e + 1
  /\ a.state = StateAt(i, c, e) /\ a.keyStart = f
  /\ i >= c => a.keyEnd = c
  /\ i >= c + 2 => a.valueStart = c + 2
  /\ i >= e => a.valueEnd = e

\* One symbol more of a line, and the header is stored behind its last one.
LEMMA WithinLine ==
  ASSUME NEW str, NEW f \in Nat, NEW c \in Nat, NEW e \in Nat, IsLine(str, f, c, e),
         NEW i \in Nat, i <= e,
         NEW a, Reading(a, i, f, c, e), NEW d, Moves(a, d, str, i + 1)
  PROVE  /\ Reading(d, i + 1, f, c, e)
         /\ i = e => d.headers = Store(a, str)
         /\ i # e => d.headers = a.headers
<1> DEFINE y == str[i + 1]
<1>1. f < c /\ c + 2 < e /\ e - c - 3 <= MaxValue /\ MaxValue \in Nat
  BY ParserAssumption DEF IsLine
<1>2. /\ i + 1 < c /\ f <= i => y \notin {":", "CR", "LF"}
      /\ i + 1 = c => y = ":"
      /\ i = c => y = "SP"
      /\ c + 2 <= i + 1 /\ i + 1 < e => y # "CR"
      /\ i + 1 = e => y = "CR"
      /\ i = e => y = "LF"
  <2>1. \A j \in f .. c - 1 : str[j] \notin {":", "CR", "LF"}
    BY DEF IsLine
  <2>2. \A j \in c + 2 .. e - 1 : str[j] # "CR"
    BY DEF IsLine
  <2>3. str[c] = ":" /\ str[c + 1] = "SP" /\ str[e] = "CR" /\ str[e + 1] = "LF"
    BY DEF IsLine
  <2>4. i + 1 < c /\ f <= i => i + 1 \in f .. c - 1
    BY <1>1
  <2>5. c + 2 <= i + 1 /\ i + 1 < e => i + 1 \in c + 2 .. e - 1
    BY <1>1
  <2> QED
    BY <2>1, <2>2, <2>3, <2>4, <2>5
<1>3. /\ a.result = "AGAIN" /\ f <= i /\ a.state = StateAt(i, c, e) /\ a.keyStart = f
      /\ i >= c => a.keyEnd = c
      /\ i >= c + 2 => a.valueStart = c + 2
      /\ i >= e => a.valueEnd = e
  BY DEF Reading
<1>4. /\ d.result = IF Refuses(a, str, i + 1) THEN "ERROR"
                    ELSE IF a.state = "END_LF" THEN "SUCCESS" ELSE "AGAIN"
      /\ ~Refuses(a, str, i + 1) => d.state = Goes(a, str, i + 1)
      /\ d.keyStart = IF d.state = "KEY" /\ a.state # "KEY" THEN i + 1 ELSE a.keyStart
      /\ d.keyEnd = IF d.state = "COLON" /\ a.state # "COLON" THEN i + 1 ELSE a.keyEnd
      /\ d.valueStart = IF d.state = "VALUE" /\ a.state # "VALUE" THEN i + 1 ELSE a.valueStart
      /\ d.valueEnd = IF d.state = "CR" /\ a.state # "CR" THEN i + 1 ELSE a.valueEnd
      /\ d.headers = IF a.state = "CR" /\ d.state = "LF" THEN Store(a, str) ELSE a.headers
  BY DEF Moves
<1> HIDE DEF y
<1>5. CASE i + 1 < c
  <2>1. a.state = "KEY" /\ StateAt(i + 1, c, e) = "KEY" /\ y \notin {":", "CR", "LF"}
        /\ ~(i >= c) /\ ~(i + 1 >= c) /\ ~(i + 1 >= c + 2) /\ ~(i + 1 >= e) /\ i # e
        /\ f <= i + 1 /\ i + 1 <= e + 1
    BY <1>1, <1>2, <1>3, <1>5 DEF StateAt
  <2>2. ~Refuses(a, str, i + 1) /\ Goes(a, str, i + 1) = "KEY"
    BY <2>1 DEF Refuses, Goes, y
  <2>3. d.state = "KEY" /\ d.result = "AGAIN" /\ d.keyStart = a.keyStart /\ d.headers = a.headers
    BY <1>4, <2>1, <2>2
  <2> QED
    BY <1>3, <2>1, <2>3 DEF Reading
<1>6. CASE i + 1 = c
  <2>1. a.state = "KEY" /\ StateAt(i + 1, c, e) = "COLON" /\ y = ":" /\ ~(i + 1 <= a.keyStart)
        /\ ~(i + 1 >= c + 2) /\ ~(i + 1 >= e) /\ i # e
        /\ f <= i + 1 /\ i + 1 <= e + 1
    BY <1>1, <1>2, <1>3, <1>6 DEF StateAt
  <2>2. ~Refuses(a, str, i + 1) /\ Goes(a, str, i + 1) = "COLON"
    BY <2>1 DEF Refuses, Goes, y
  <2>3. d.state = "COLON" /\ d.result = "AGAIN" /\ d.keyStart = a.keyStart /\ d.headers = a.headers
        /\ d.keyEnd = i + 1
    BY <1>4, <2>1, <2>2
  <2> QED
    BY <1>3, <1>6, <2>1, <2>3 DEF Reading
<1>7. CASE i = c
  <2>1. a.state = "COLON" /\ StateAt(i + 1, c, e) = "SPACES" /\ y = "SP" /\ a.keyEnd = c
        /\ ~(i + 1 >= c + 2) /\ ~(i + 1 >= e) /\ i # e
        /\ f <= i + 1 /\ i + 1 <= e + 1
    BY <1>1, <1>2, <1>3, <1>7 DEF StateAt
  <2>2. ~Refuses(a, str, i + 1) /\ Goes(a, str, i + 1) = "SPACES"
    BY <2>1 DEF Refuses, Goes, y
  <2>3. d.state = "SPACES" /\ d.result = "AGAIN" /\ d.keyStart = a.keyStart /\ d.headers = a.headers
        /\ d.keyEnd = a.keyEnd
    BY <1>4, <2>1, <2>2
  <2> QED
    BY <1>3, <2>1, <2>3 DEF Reading
<1>8. CASE i = c + 1
  <2>1. a.state = "SPACES" /\ StateAt(i + 1, c, e) = "VALUE" /\ a.keyEnd = c /\ i + 1 = c + 2
        /\ ~(i + 1 >= e) /\ i # e
        /\ f <= i + 1 /\ i + 1 <= e + 1
    BY <1>1, <1>3, <1>8 DEF StateAt
  <2>2. ~Refuses(a, str, i + 1) /\ Goes(a, str, i + 1) = "VALUE"
    BY <2>1 DEF Refuses, Goes
  <2>3. d.state = "VALUE" /\ d.result = "AGAIN" /\ d.keyStart = a.keyStart /\ d.headers = a.headers
        /\ d.keyEnd = a.keyEnd /\ d.valueStart = i + 1
    BY <1>4, <2>1, <2>2
  <2> QED
    BY <1>3, <2>1, <2>3 DEF Reading
<1>9. CASE c + 2 <= i /\ i + 1 < e
  <2>1. a.state = "VALUE" /\ StateAt(i + 1, c, e) = "VALUE" /\ y # "CR"
        /\ a.keyEnd = c /\ a.valueStart = c + 2 /\ ~(i + 1 - a.valueStart > MaxValue)
        /\ ~(i + 1 >= e) /\ i # e
        /\ f <= i + 1 /\ i + 1 <= e + 1
    BY <1>1, <1>2, <1>3, <1>9 DEF StateAt
  <2>2. ~Refuses(a, str, i + 1) /\ Goes(a, str, i + 1) = "VALUE"
    BY <2>1 DEF Refuses, Goes, y
  <2>3. d.state = "VALUE" /\ d.result = "AGAIN" /\ d.keyStart = a.keyStart /\ d.headers = a.headers
        /\ d.keyEnd = a.keyEnd /\ d.valueStart = a.valueStart
    BY <1>4, <2>1, <2>2
  <2> QED
    BY <1>3, <2>1, <2>3 DEF Reading
<1>10. CASE c + 2 <= i /\ i + 1 = e
  <2>1. a.state = "VALUE" /\ StateAt(i + 1, c, e) = "CR" /\ y = "CR"
        /\ a.keyEnd = c /\ a.valueStart = c + 2 /\ ~(i + 1 <= a.valueStart)
        /\ i # e /\ f <= i + 1 /\ i + 1 <= e + 1
    BY <1>1, <1>2, <1>3, <1>10 DEF StateAt
  <2>2. ~Refuses(a, str, i + 1) /\ Goes(a, str, i + 1) = "CR"
    BY <2>1 DEF Refuses, Goes, y
  <2>3. d.state = "CR" /\ d.result = "AGAIN" /\ d.keyStart = a.keyStart /\ d.headers = a.headers
        /\ d.keyEnd = a.keyEnd /\ d.valueStart = a.valueStart /\ d.valueEnd = i + 1
    BY <1>4, <2>1, <2>2
  <2> QED
    BY <1>3, <1>10, <2>1, <2>3 DEF Reading
<1>11. CASE i = e
  <2>1. a.state = "CR" /\ StateAt(i + 1, c, e) = "LF" /\ y = "LF"
        /\ a.keyEnd = c /\ a.valueStart = c + 2 /\ a.valueEnd = e
        /\ f <= i + 1 /\ i + 1 <= e + 1
    BY <1>1, <1>2, <1>3, <1>11 DEF StateAt
  <2>2. ~Refuses(a, str, i + 1) /\ Goes(a, str, i + 1) = "LF"
    BY <2>1 DEF Refuses, Goes, y
  <2>3. d.state = "LF" /\ d.result = "AGAIN" /\ d.keyStart = a.keyStart /\ d.headers = Store(a, str)
        /\ d.keyEnd = a.keyEnd /\ d.valueStart = a.valueStart /\ d.valueEnd = a.valueEnd
    BY <1>4, <2>1, <2>2
  <2> QED
    BY <1>3, <1>11, <2>1, <2>3 DEF Reading
<1>12. \/ i + 1 < c \/ i + 1 = c \/ i = c \/ i = c + 1
       \/ c + 2 <= i /\ i + 1 < e
       \/ c + 2 <= i /\ i + 1 = e
       \/ i = e
  BY <1>1
<1> QED
  BY <1>5, <1>6, <1>7, <1>8, <1>9, <1>10, <1>11, <1>12
\* str is what comes behind the first b symbols of t.
IsBlock(str, t, b) == Len(str) = Len(t) - b /\ \A x \in 1 .. Len(str) : str[x] = t[b + x]

\* A header line, counted from the beginning of the block.
LEMMA LineInBlock ==
  ASSUME NEW t \in Seq(Symbol), NEW b \in Nat, NEW str, IsBlock(str, t, b),
         NEW f \in Nat, NEW c \in Nat, NEW e \in Nat, 1 <= f, IsLine(t, b + f, b + c, b + e)
  PROVE  /\ IsLine(str, f, c, e)
         /\ Copies(str, t, b, f, c) /\ Copies(str, t, b, c + 2, e)
<1> DEFINE n == Len(t)
           m == Len(str)
<1>1. /\ b + f < b + c /\ (b + c) + 2 < b + e /\ b + e < n /\ (b + e) - (b + c) - 3 <= MaxValue
      /\ MaxValue \in Nat /\ n \in Nat
  BY ParserAssumption, LenProperties DEF IsLine
<1>2. \A j \in b + f .. (b + c) - 1 : t[j] \notin {":", "CR", "LF"}
  BY DEF IsLine
<1>3. \A j \in (b + c) + 2 .. (b + e) - 1 : t[j] # "CR"
  BY DEF IsLine
<1>4. t[b + c] = ":" /\ t[(b + c) + 1] = "SP" /\ t[b + e] = "CR" /\ t[(b + e) + 1] = "LF"
  BY DEF IsLine
<1>5. m = n - b
  BY DEF IsBlock
<1>6. \A x \in 1 .. m : str[x] = t[b + x]
  BY DEF IsBlock
<1> HIDE DEF n, m
<1>7. f < c /\ c + 2 < e /\ e < m /\ e - c - 3 <= MaxValue /\ m \in Nat /\ e + b <= n
  BY <1>1, <1>5
<1>8. /\ c \in 1 .. m /\ c + 1 \in 1 .. m /\ e \in 1 .. m /\ e + 1 \in 1 .. m
      /\ b + (c + 1) = (b + c) + 1 /\ b + (e + 1) = (b + e) + 1
  BY <1>7
<1>9. str[c] = ":" /\ str[c + 1] = "SP" /\ str[e] = "CR" /\ str[e + 1] = "LF"
  BY <1>4, <1>6, <1>8
<1>10. ASSUME NEW j \in f .. c - 1 PROVE str[j] = t[b + j] /\ str[j] \notin {":", "CR", "LF"}
  <2>1. j \in 1 .. m /\ b + j \in b + f .. (b + c) - 1
    BY <1>7
  <2> QED
    BY <1>2, <1>6, <2>1
<1>11. ASSUME NEW j \in c + 2 .. e - 1 PROVE str[j] = t[b + j] /\ str[j] # "CR"
  <2>1. j \in 1 .. m /\ b + j \in (b + c) + 2 .. (b + e) - 1
    BY <1>7
  <2> QED
    BY <1>3, <1>6, <2>1
<1>12. IsLine(str, f, c, e)
  BY <1>7, <1>9, <1>10, <1>11 DEF IsLine, m
<1>13. Copies(str, t, b, f, c)
  <2>1. f <= c /\ c + b - 1 <= Len(t)
    BY <1>7 DEF n
  <2>2. Same(str, t, b, f, c)
    BY <1>10 DEF Same
  <2> QED
    BY <2>1, <2>2, Copied
<1>14. Copies(str, t, b, c + 2, e)
  <2> DEFINE k == c + 2
  <2>1. k \in Nat /\ 1 <= k /\ k <= e /\ e + b - 1 <= Len(t)
    BY <1>7 DEF n
  <2>2. Same(str, t, b, k, e)
    BY <1>11 DEF Same
  <2> HIDE DEF k
  <2>3. Copies(str, t, b, k, e)
    BY <2>1, <2>2, Copied
  <2> QED
    BY <2>3 DEF k
<1> QED
  BY <1>12, <1>13, <1>14

First(r, k) == r.lines[k].first - r.line
Colon(r, k) == r.lines[k].colon - r.line
End(r, k)   == r.lines[k].end - r.line

\* A block is header lines, one behind the other, and a blank one.
Lines(str, r) ==
  /\ Len(r.lines) \in Nat /\ 0 < Len(r.lines) /\ DOMAIN r.lines = 1 .. Len(r.lines)
  /\ \A k \in 1 .. Len(r.lines) :
       /\ First(r, k) \in Nat /\ Colon(r, k) \in Nat /\ End(r, k) \in Nat
       /\ IsLine(str, First(r, k), Colon(r, k), End(r, k))
       /\ Copy(str, First(r, k), Colon(r, k)) = Name(r, k)
       /\ Copy(str, Colon(r, k) + 2, End(r, k)) = Value(r, k)
  /\ First(r, 1) = 1 /\ End(r, Len(r.lines)) = Len(str) - 3
  /\ \A k \in 1 .. Len(r.lines) - 1 : First(r, k + 1) = End(r, k) + 2
  /\ str[1] \notin {"CR", "LF"} /\ str[Len(str) - 1] = "CR" /\ str[Len(str)] = "LF"

LEMMA BlockLines ==
  ASSUME NEW r, r.text \in Seq(Symbol), r.line \in 1 .. Len(r.text),
         r.lines \in Seq(HeaderPlaces(Len(r.text))), HeaderBlock(r), Readable(r),
         NEW str, IsBlock(str, r.text, r.line)
  PROVE  Lines(str, r)
<1> DEFINE K == Len(r.lines)
           n == Len(r.text)
           b == r.line
<1>0. DOMAIN r.lines = 1 .. K
  BY LenProperties
<1>1. K \in Nat /\ K > 0 /\ n \in Nat /\ b \in Nat /\ b >= 1 /\ b <= n
  BY LenProperties, EmptySeq DEF Readable
<1>2. ASSUME NEW k \in 1 .. K
      PROVE  r.lines[k] \in HeaderPlaces(n) /\ HeaderLine(r, r.lines[k])
  BY <1>0 DEF Readable
<1>3. ASSUME NEW k \in 1 .. K
      PROVE  /\ r.lines[k].first \in Nat /\ r.lines[k].colon \in Nat /\ r.lines[k].end \in Nat
             /\ r.lines[k].first < r.lines[k].colon /\ r.lines[k].colon + 2 < r.lines[k].end
  <2> DEFINE l == r.lines[k]
  <2>1. l.first < l.colon /\ l.colon + 2 < l.end
    BY <1>2 DEF HeaderLine
  <2>2. l \in HeaderPlaces(n)
    BY <1>2
  <2>3. n \in Nat
    BY <1>1
  <2> HIDE DEF l, n
  <2>4. l.first \in 1 .. n /\ l.colon \in 1 .. n /\ l.end \in 1 .. n
    BY <2>2 DEF HeaderPlaces
  <2>5. l.first \in Nat /\ l.colon \in Nat /\ l.end \in Nat
    BY <2>3, <2>4
  <2> QED
    BY <2>1, <2>5 DEF l
<1>4. r.lines[1].first = b + 1
  BY <1>0, <1>1 DEF Readable
<1>5. ASSUME NEW k \in 1 .. K - 1 PROVE r.lines[k + 1].first = r.lines[k].end + 2
  <2>1. k + 1 \in DOMAIN r.lines /\ k + 1 # 1 /\ (k + 1) - 1 = k
    BY <1>0, <1>1
  <2> QED
    BY <2>1 DEF Readable
<1>6. \A k \in 1 .. K : First(r, k) > 0
  <2> DEFINE T == {i \in Nat : i = 0 \/ r.lines[i].first > b}
  <2>1. \A i \in T : i \in 0 .. K - 1 => i + 1 \in T
    <3> SUFFICES ASSUME NEW i \in T, i \in 0 .. K - 1 PROVE i + 1 \in T
      OBVIOUS
    <3>1. CASE i = 0
      BY <1>1, <1>4, <3>1
    <3>2. CASE i # 0
      <4>1. i \in 1 .. K /\ i \in 1 .. K - 1 /\ r.lines[i].first > b
        <5>1. r.lines[i].first > b /\ i \in Nat
          BY <3>2
        <5> HIDE DEF K, b, T
        <5>2. i \in 1 .. K /\ i \in 1 .. K - 1
          BY <1>1, <3>2, <5>1
        <5> QED
          BY <5>1, <5>2
      <4>2. r.lines[i + 1].first = r.lines[i].end + 2
        BY <1>5, <4>1
      <4>3. r.lines[i + 1].first > b
        <5> DEFINE g == r.lines[i].first
                   d == r.lines[i].colon
                   h == r.lines[i].end
        <5>1. g \in Nat /\ d \in Nat /\ h \in Nat /\ g < d /\ d + 2 < h /\ g > b /\ b \in Nat
          BY <1>1, <1>3, <4>1
        <5>2. r.lines[i + 1].first = h + 2
          BY <4>2
        <5> HIDE DEF g, d, h, b, T
        <5> QED
          BY <5>1, <5>2
      <4> QED
        BY <4>1, <4>3
    <3> QED
      BY <3>1, <3>2
  <2>2. 0 \in T
    OBVIOUS
  <2>3. \A i \in 0 .. K : i \in T
    <3> HIDE DEF T, K
    <3> QED
      BY <1>1, <2>1, <2>2, IndexInduction
  <2>4. ASSUME NEW k \in 1 .. K PROVE r.lines[k].first > b
    BY <1>1, <2>3
  <2> QED
    BY <1>1, <1>3, <2>4 DEF First
<1>7. ASSUME NEW k \in 1 .. K
      PROVE  /\ First(r, k) \in Nat /\ Colon(r, k) \in Nat /\ End(r, k) \in Nat
             /\ IsLine(str, First(r, k), Colon(r, k), End(r, k))
             /\ Copy(str, First(r, k), Colon(r, k)) = Name(r, k)
             /\ Copy(str, Colon(r, k) + 2, End(r, k)) = Value(r, k)
  <2> DEFINE f == First(r, k)
             c == Colon(r, k)
             e == End(r, k)
             g == r.lines[k].first
             d == r.lines[k].colon
             h == r.lines[k].end
  <2>1. f = g - b /\ c = d - b /\ e = h - b /\ f > 0 /\ g \in Nat /\ d \in Nat /\ h \in Nat /\ g < d /\ d + 2 < h
    BY <1>3, <1>6 DEF First, Colon, End
  <2>2. IsLine(r.text, g, d, h)
    BY <1>2 DEF HeaderLine, IsLine
  <2>3. Name(r, k) = SubSeq(r.text, g, d - 1) /\ Value(r, k) = SubSeq(r.text, d + 2, h - 1)
    BY DEF Name, Value
  <2> HIDE DEF f, c, e, g, d, h, b
  <2>4. f \in Nat /\ c \in Nat /\ e \in Nat /\ 1 <= f /\ b + f = g /\ b + c = d /\ b + e = h /\ b + (c + 2) = d + 2
    BY <1>1, <2>1
  <2>5. IsLine(r.text, b + f, b + c, b + e) /\ IsBlock(str, r.text, b)
    BY <2>2, <2>4 DEF b
  <2>6. IsLine(str, f, c, e) /\ Copies(str, r.text, b, f, c) /\ Copies(str, r.text, b, c + 2, e)
    BY <1>1, <2>4, <2>5, LineInBlock
  <2>7. b + f = g /\ b + c - 1 = d - 1 /\ b + (c + 2) = d + 2 /\ b + e - 1 = h - 1
    BY <1>1, <2>4
  <2>8. Copy(str, f, c) = SubSeq(r.text, g, d - 1) /\ Copy(str, c + 2, e) = SubSeq(r.text, d + 2, h - 1)
    <3>1. Copy(str, f, c) = SubSeq(r.text, b + f, b + c - 1)
      BY <2>6 DEF Copies
    <3>2. Copy(str, c + 2, e) = SubSeq(r.text, b + (c + 2), b + e - 1)
      BY <2>6 DEF Copies
    <3> QED
      BY <2>7, <3>1, <3>2, Zenon
  <2> QED
    BY <2>3, <2>4, <2>6, <2>8 DEF f, c, e
<1>8. First(r, 1) = 1
  BY <1>1, <1>4 DEF First
<1>9. End(r, K) = Len(str) - 3
  <2>1. r.lines[K].end = n - 3 /\ Len(str) = n - b
    BY DEF Readable, IsBlock
  <2> QED
    BY <1>1, <2>1 DEF End
<1>10. ASSUME NEW k \in 1 .. K - 1 PROVE First(r, k + 1) = End(r, k) + 2
  <2> DEFINE x == r.lines[k + 1].first
             y == r.lines[k].end
  <2>1. k \in 1 .. K
    BY <1>1
  <2>2. x = y + 2 /\ y \in Nat /\ b \in Nat
    BY <1>1, <1>3, <1>5, <2>1
  <2> HIDE DEF x, y, b
  <2>3. x - b = (y - b) + 2
    BY <2>2
  <2> QED
    BY <2>3 DEF First, End, x, y, b
<1>11. str[1] \notin {"CR", "LF"} /\ str[Len(str) - 1] = "CR" /\ str[Len(str)] = "LF"
  <2>1. /\ b + 4 < n /\ r.text[b + 1] \notin {"CR", "LF"}
        /\ r.text[n - 1] = "CR" /\ r.text[n] = "LF"
    BY DEF HeaderBlock
  <2>2. Len(str) = n - b /\ \A x \in 1 .. Len(str) : str[x] = r.text[b + x]
    BY DEF IsBlock
  <2> DEFINE m == Len(str)
  <2>3. m = n - b /\ b + 4 < n
    BY <2>1, <2>2
  <2>4. \A x \in 1 .. m : str[x] = r.text[b + x]
    BY <2>2
  <2>5. r.text[b + 1] \notin {"CR", "LF"} /\ r.text[n - 1] = "CR" /\ r.text[n] = "LF"
    BY <2>1
  <2> HIDE DEF n, b, m
  <2>6. /\ 1 \in 1 .. m /\ m - 1 \in 1 .. m /\ m \in 1 .. m
        /\ b + (m - 1) = n - 1 /\ b + m = n
    BY <1>1, <2>3
  <2>7. str[1] \notin {"CR", "LF"} /\ str[m - 1] = "CR" /\ str[m] = "LF"
    BY <2>4, <2>5, <2>6
  <2> QED
    BY <2>7 DEF m
<1> QED
  BY <1>0, <1>1, <1>7, <1>8, <1>9, <1>10, <1>11 DEF Lines
\* What the loop has found in a whole block behind the symbol at i: nothing yet,
\* a part of line k, or all the lines.
ReadWhole(a, i, str, r) ==
  /\ a.result = "AGAIN"
  /\ \/ i = 0 /\ a.state = "START" /\ Collected(a.headers, r, 0)
     \/ \E k \in 1 .. Len(r.lines) :
          /\ Reading(a, i, First(r, k), Colon(r, k), End(r, k))
          /\ Collected(a.headers, r, IF i = End(r, k) + 1 THEN k ELSE k - 1)
     \/ i = Len(str) - 1 /\ a.state = "END_CR" /\ Collected(a.headers, r, Len(r.lines))
     \/ i = Len(str) /\ a.state = "END_LF" /\ Collected(a.headers, r, Len(r.lines))

\* The next line begins.
LEMMA NextLine ==
  ASSUME NEW str, NEW f \in Nat, NEW c \in Nat, NEW e \in Nat, IsLine(str, f, c, e),
         NEW a, a.result = "AGAIN", a.state \in {"START", "LF"}, str[f] \notin {"CR", "LF"},
         NEW d, Moves(a, d, str, f)
  PROVE  Reading(d, f, f, c, e) /\ d.headers = a.headers
<1>1. f < c /\ c + 2 < e
  BY DEF IsLine
<1>2. ~Refuses(a, str, f) /\ Goes(a, str, f) = "KEY"
  BY DEF Refuses, Goes
<1>3. d.state = "KEY" /\ d.result = "AGAIN" /\ d.keyStart = f /\ d.headers = a.headers
  BY <1>2 DEF Moves
<1>4. /\ f <= f /\ f <= e + 1 /\ StateAt(f, c, e) = "KEY"
      /\ ~(f >= c) /\ ~(f >= c + 2) /\ ~(f >= e)
  BY <1>1 DEF StateAt
<1> QED
  BY <1>3, <1>4 DEF Reading

\* A header is stored behind the last symbol of its line.
LEMMA LineCollected ==
  ASSUME NEW str, NEW r, Lines(str, r), NEW k \in 1 .. Len(r.lines),
         NEW i \in Nat, i <= End(r, k),
         NEW a, Reading(a, i, First(r, k), Colon(r, k), End(r, k)), Collected(a.headers, r, k - 1),
         NEW d, Moves(a, d, str, i + 1)
  PROVE  /\ Reading(d, i + 1, First(r, k), Colon(r, k), End(r, k))
         /\ Collected(d.headers, r, IF i + 1 = End(r, k) + 1 THEN k ELSE k - 1)
<1> DEFINE f == First(r, k)
           c == Colon(r, k)
           e == End(r, k)
<1>1. /\ f \in Nat /\ c \in Nat /\ e \in Nat /\ IsLine(str, f, c, e)
      /\ Copy(str, f, c) = Name(r, k) /\ Copy(str, c + 2, e) = Value(r, k)
  BY DEF Lines
<1>2. Reading(a, i, f, c, e) /\ i <= e
  OBVIOUS
<1>3. k \in Nat /\ k - 1 \in Nat /\ (k - 1) + 1 = k
  BY DEF Lines
<1> HIDE DEF f, c, e
<1>4. /\ Reading(d, i + 1, f, c, e)
      /\ i = e => d.headers = Store(a, str)
      /\ i # e => d.headers = a.headers
  BY <1>1, <1>2, WithinLine
<1>5. CASE i = e
  <2>1. c <= i /\ c + 2 <= i
    BY <1>1, <1>5 DEF IsLine
  <2>2. a.keyStart = f /\ a.keyEnd = c /\ a.valueStart = c + 2 /\ a.valueEnd = e
    BY <1>1, <1>2, <1>5, <2>1 DEF Reading
  <2>3. Copy(str, a.keyStart, a.keyEnd) = Name(r, k) /\ Copy(str, a.valueStart, a.valueEnd) = Value(r, k)
    BY <1>1, <2>2
  <2>4. d.headers = Store(a, str)
    BY <1>4, <1>5
  <2>5. Adds(d.headers, a.headers, r, (k - 1) + 1)
    BY <1>3, <2>3, <2>4 DEF Store, Adds
  <2>6. Collected(d.headers, r, (k - 1) + 1)
    BY <1>3, <2>5, CollectOne
  <2>7. i + 1 = e + 1
    BY <1>5
  <2> QED
    BY <1>3, <1>4, <2>6, <2>7 DEF f, c, e
<1>6. CASE i # e
  <2>1. i + 1 # e + 1
    BY <1>1, <1>6
  <2>2. d.headers = a.headers
    BY <1>4, <1>6
  <2> QED
    BY <1>4, <2>1, <2>2 DEF f, c, e
<1> QED
  BY <1>5, <1>6

LEMMA WholeMoves ==
  ASSUME NEW str, Len(str) \in Nat, NEW r, Lines(str, r), NEW i \in 0 .. Len(str) - 1,
         NEW a, ReadWhole(a, i, str, r), NEW d, Moves(a, d, str, i + 1)
  PROVE  ReadWhole(d, i + 1, str, r)
<1> DEFINE K == Len(r.lines)
           m == Len(str)
<1>1. K \in Nat /\ 1 \in 1 .. K /\ m \in Nat /\ i \in Nat /\ i <= m - 1
  BY DEF Lines
<1>2. a.result = "AGAIN"
  BY DEF ReadWhole
<1>3. ASSUME NEW k \in 1 .. K
      PROVE  /\ First(r, k) \in Nat /\ Colon(r, k) \in Nat /\ End(r, k) \in Nat
             /\ IsLine(str, First(r, k), Colon(r, k), End(r, k))
  BY DEF Lines
<1>4. ASSUME NEW k \in 1 .. K, d.result = "AGAIN",
             Reading(d, i + 1, First(r, k), Colon(r, k), End(r, k)),
             Collected(d.headers, r, IF i + 1 = End(r, k) + 1 THEN k ELSE k - 1)
      PROVE  ReadWhole(d, i + 1, str, r)
  BY <1>4 DEF ReadWhole
<1>5. ASSUME NEW k \in 1 .. K, First(r, k) = i + 1, a.state \in {"START", "LF"},
             str[i + 1] \notin {"CR", "LF"}, Collected(a.headers, r, k - 1)
      PROVE  ReadWhole(d, i + 1, str, r)
  <2> DEFINE f == First(r, k)
             c == Colon(r, k)
             e == End(r, k)
  <2>1. f \in Nat /\ c \in Nat /\ e \in Nat /\ IsLine(str, f, c, e) /\ f = i + 1 /\ str[f] \notin {"CR", "LF"}
    BY <1>3, <1>5
  <2>2. Moves(a, d, str, f)
    BY <2>1
  <2> HIDE DEF f, c, e
  <2>3. Reading(d, f, f, c, e) /\ d.headers = a.headers
    BY <1>2, <1>5, <2>1, <2>2, NextLine
  <2>4. i + 1 # e + 1
    BY <1>1, <2>1 DEF IsLine
  <2>5. d.result = "AGAIN"
    BY <2>3 DEF Reading
  <2>6. Reading(d, i + 1, f, c, e)
    BY <2>1, <2>3
  <2>7. Collected(d.headers, r, IF i + 1 = e + 1 THEN k ELSE k - 1)
    BY <1>5, <2>3, <2>4
  <2> QED
    BY <1>4, <2>5, <2>6, <2>7 DEF f, c, e
<1>6. CASE i = 0 /\ a.state = "START" /\ Collected(a.headers, r, 0)
  <2>1. First(r, 1) = i + 1 /\ str[i + 1] \notin {"CR", "LF"} /\ 1 - 1 = 0
    BY <1>6 DEF Lines
  <2> QED
    BY <1>1, <1>5, <1>6, <2>1
<1>7. CASE \E k \in 1 .. K : /\ Reading(a, i, First(r, k), Colon(r, k), End(r, k))
                             /\ Collected(a.headers, r, IF i = End(r, k) + 1 THEN k ELSE k - 1)
  <2>1. PICK k \in 1 .. K : /\ Reading(a, i, First(r, k), Colon(r, k), End(r, k))
                            /\ Collected(a.headers, r, IF i = End(r, k) + 1 THEN k ELSE k - 1)
    BY <1>7
  <2> DEFINE e == End(r, k)
  <2>2. e \in Nat /\ i <= e + 1
    BY <1>3, <2>1 DEF Reading
  <2>3. CASE i <= e
    <3>1. i # e + 1
      BY <1>1, <2>2, <2>3
    <3>2. Collected(a.headers, r, k - 1)
      BY <2>1, <3>1
    <3>3. /\ Reading(d, i + 1, First(r, k), Colon(r, k), End(r, k))
          /\ Collected(d.headers, r, IF i + 1 = End(r, k) + 1 THEN k ELSE k - 1)
      BY <1>1, <2>1, <2>3, <3>2, LineCollected
    <3>4. d.result = "AGAIN"
      BY <3>3 DEF Reading
    <3> QED
      BY <1>4, <3>3, <3>4
  <2>4. CASE i = e + 1
    <3>1. Collected(a.headers, r, k)
      BY <2>1, <2>4
    <3>2. a.state = "LF"
      <4>1. Colon(r, k) + 2 < e /\ Colon(r, k) \in Nat
        BY <1>3 DEF IsLine
      <4>2. a.state = StateAt(i, Colon(r, k), e)
        BY <2>1 DEF Reading
      <4> DEFINE c == Colon(r, k)
      <4> HIDE DEF c, e
      <4>3. StateAt(i, c, e) = "LF"
        BY <2>2, <2>4, <4>1 DEF StateAt, c
      <4> QED
        BY <4>2, <4>3 DEF c
    <3>3. CASE k < K
      <4>1. k \in 1 .. K - 1 /\ k + 1 \in 1 .. K /\ (k + 1) - 1 = k
        BY <1>1, <3>3
      <4>2. First(r, k + 1) = i + 1
        <5>1. First(r, k + 1) = e + 2
          BY <4>1 DEF Lines
        <5> QED
          BY <2>2, <2>4, <5>1
      <4>3. str[i + 1] \notin {"CR", "LF"}
        <5>1. IsLine(str, i + 1, Colon(r, k + 1), End(r, k + 1)) /\ Colon(r, k + 1) \in Nat
          BY <1>3, <4>1, <4>2
        <5>2. i + 1 < Colon(r, k + 1)
          BY <5>1 DEF IsLine
        <5>3. i + 1 \in i + 1 .. Colon(r, k + 1) - 1
          BY <1>1, <5>1, <5>2
        <5> QED
          BY <5>1, <5>3 DEF IsLine
      <4>4. Collected(a.headers, r, (k + 1) - 1)
        BY <3>1, <4>1
      <4> QED
        BY <1>5, <3>2, <4>1, <4>2, <4>3, <4>4
    <3>4. CASE k = K
      <4>1. e = m - 3
        BY <3>4 DEF Lines
      <4>2. i + 1 = m - 1
        BY <1>1, <2>2, <2>4, <4>1
      <4>3. str[i + 1] = "CR"
        BY <4>2 DEF Lines
      <4>4. ~Refuses(a, str, i + 1) /\ Goes(a, str, i + 1) = "END_CR"
        BY <3>2, <4>3 DEF Refuses, Goes
      <4>5. d.state = "END_CR" /\ d.result = "AGAIN" /\ d.headers = a.headers
        BY <3>2, <4>4 DEF Moves
      <4> QED
        BY <3>1, <3>4, <4>2, <4>5 DEF ReadWhole
    <3> QED
      BY <1>1, <3>3, <3>4
  <2> QED
    BY <1>1, <2>2, <2>3, <2>4
<1>8. CASE i = m - 1 /\ a.state = "END_CR" /\ Collected(a.headers, r, K)
  <2>1. i + 1 = m /\ str[i + 1] = "LF"
    BY <1>1, <1>8 DEF Lines
  <2>2. ~Refuses(a, str, i + 1) /\ Goes(a, str, i + 1) = "END_LF"
    BY <1>8, <2>1 DEF Refuses, Goes
  <2>3. d.state = "END_LF" /\ d.result = "AGAIN" /\ d.headers = a.headers
    BY <1>8, <2>2 DEF Moves
  <2> QED
    BY <1>8, <2>1, <2>3 DEF ReadWhole
<1>9. i # m
  BY <1>1
<1> QED
  BY <1>6, <1>7, <1>8, <1>9 DEF ReadWhole

LEMMA WholeScan ==
  ASSUME NEW h, IsHttp(h), h.lineState = "START", h.headers = <<>>, NEW r, Lines(h.buffer, r)
  PROVE  \A i \in 0 .. Len(h.buffer) : ReadWhole(ScanAll(h)[i], i, h.buffer, r)
<1> DEFINE str == h.buffer
           T == {i \in Nat : ReadWhole(ScanAll(h)[i], i, str, r)}
<1>1. Len(str) \in Nat
  BY LenProperties DEF IsHttp
<1>2. 0 \in T
  <2>1. Collected(h.headers, r, 0)
    BY DEF Collected
  <2>2. ReadWhole(ScanAll(h)[0], 0, str, r)
    BY <2>1, ScanStarts DEF ReadWhole
  <2> QED
    BY <2>2
<1>3. ASSUME NEW i \in T, i \in 0 .. Len(str) - 1 PROVE i + 1 \in T
  <2> DEFINE a == ScanAll(h)[i]
             d == ScanAll(h)[i + 1]
  <2>1. i \in Nat /\ ReadWhole(a, i, str, r)
    BY <1>3
  <2>2. i + 1 \in 1 .. Len(str) /\ (i + 1) - 1 = i /\ i \in 0 .. Len(str)
    BY <1>1, <1>3, <2>1
  <2>3. IsScanner(a) /\ a.result = "AGAIN"
    <3>1. Bounds(a, i)
      BY <2>2, ScanBounds
    <3> QED
      BY <2>1, <3>1 DEF Bounds, ReadWhole
  <2>4. Moves(a, d, str, i + 1)
    <3>1. a = ScanAll(h)[(i + 1) - 1]
      BY <2>2
    <3> HIDE DEF T, a, d
    <3> QED
      BY <2>2, <2>3, <3>1, ScanStep DEF d
  <2> HIDE DEF T, a, d, str
  <2>5. ReadWhole(d, i + 1, str, r)
    BY <1>1, <1>3, <2>1, <2>4, WholeMoves DEF str
  <2> QED
    BY <2>1, <2>5 DEF T, d
<1> HIDE DEF T
<1>4. \A i \in 0 .. Len(str) : i \in T
  BY <1>1, <1>2, <1>3, IndexInduction
<1> QED
  BY <1>4 DEF T

LEMMA NothingLeft ==
  ASSUME NEW s \in Seq(Symbol)
  PROVE  From(s, Len(s) + 1) = <<>>
<1>1. Len(s) + 1 \in 1 .. Len(s) + 1 /\ Len(s) - (Len(s) + 1) + 1 = 0
  BY LenProperties
<1>2. From(s, Len(s) + 1) \in Seq(Symbol) /\ Len(From(s, Len(s) + 1)) = 0
  BY <1>1, Suffix
<1> QED
  BY <1>2, EmptySeq

\* A whole block is accepted, and its headers are those of the request.
LEMMA WholeBlock ==
  ASSUME NEW h, IsHttp(h), h.processState = "HEADER", ~h.hasError,
         h.lineState = "START", h.headers = <<>>, NEW r, Lines(h.buffer, r),
         NEW g, g = AtHeaders(h)
  PROVE  /\ ~g.hasError /\ g.buffer = <<>> /\ g.headers = Headers(r)
         /\ g.processState = IF h.method = "GET" THEN "PROCESS" ELSE "BODY"
         /\ g.path = h.path /\ g.method = h.method
<1> DEFINE m == Len(h.buffer)
           a == ParseHeaders(h)
           K == Len(r.lines)
<1>1. m \in Nat
  BY LenProperties DEF IsHttp
<1>2. /\ Bounds(a, m) /\ g.headers = a.headers /\ g.hasError = (a.result = "ERROR")
      /\ a.result # "ERROR" /\ a.state = "END_LF" =>
           /\ g.processState = IF h.method = "GET" THEN "PROCESS" ELSE "BODY"
           /\ g.buffer = From(h.buffer, a.next)
      /\ g.path = h.path /\ g.method = h.method
  BY AtHeadersFields
<1>3. ReadWhole(a, m, h.buffer, r)
  <2>1. \A i \in 0 .. m : ReadWhole(ScanAll(h)[i], i, h.buffer, r)
    BY WholeScan
  <2>2. m \in 0 .. m
    BY <1>1
  <2> QED
    BY <2>1, <2>2 DEF ParseHeaders
<1>4. K \in Nat /\ 0 < K /\ DOMAIN r.lines = 1 .. K /\ K \in 1 .. K /\ r.lines # <<>>
  BY EmptySeq DEF Lines
<1>5. ASSUME NEW k \in 1 .. K
      PROVE  End(r, k) \in Nat /\ End(r, k) + 1 < m
  <2>1. /\ End(r, k) \in Nat /\ Colon(r, k) \in Nat /\ End(r, K) = m - 3
        /\ IsLine(h.buffer, First(r, k), Colon(r, k), End(r, k))
    BY DEF Lines
  <2>2. CASE k = K
    BY <1>1, <2>1, <2>2
  <2>3. CASE k # K
    <3>1. k \in 1 .. K - 1 /\ k + 1 \in 1 .. K
      BY <1>4, <2>3
    <3>2. /\ First(r, k + 1) = End(r, k) + 2 /\ Colon(r, k + 1) \in Nat /\ End(r, k + 1) \in Nat
          /\ IsLine(h.buffer, First(r, k + 1), Colon(r, k + 1), End(r, k + 1))
      BY <3>1 DEF Lines
    <3>3. First(r, k + 1) < Colon(r, k + 1) /\ Colon(r, k + 1) + 2 < End(r, k + 1) /\ End(r, k + 1) < m
      BY <3>2 DEF IsLine
    <3> QED
      BY <1>1, <2>1, <3>2, <3>3
  <2> QED
    BY <2>2, <2>3
<1>6. a.result = "AGAIN" /\ a.state = "END_LF" /\ Collected(a.headers, r, K)
  <2>1. a.result = "AGAIN"
    BY <1>3 DEF ReadWhole
  <2>2. m # 0 /\ m # m - 1
    BY <1>1, <1>4, <1>5
  <2>3. ASSUME NEW k \in 1 .. K, Reading(a, m, First(r, k), Colon(r, k), End(r, k)) PROVE FALSE
    <3>1. m <= End(r, k) + 1
      BY <2>3 DEF Reading
    <3> QED
      BY <1>1, <1>5, <3>1
  <2> QED
    BY <1>3, <2>1, <2>2, <2>3 DEF ReadWhole
<1>7. a.headers = Headers(r)
  BY <1>4, <1>6, CollectedAll
<1>8. a.next = m + 1
  BY <1>2, <1>6 DEF Bounds
<1>9. From(h.buffer, m + 1) = <<>>
  BY NothingLeft DEF IsHttp
<1> QED
  BY <1>2, <1>6, <1>7, <1>8, <1>9

\* Without a symbol the loop does nothing.
LEMMA EmptyBlock ==
  ASSUME NEW h, IsHttp(h), h.processState = "HEADER", ~h.hasError,
         h.lineState = "START", h.headers = <<>>, h.buffer = <<>>, NEW g, g = AtHeaders(h)
  PROVE  /\ ~g.hasError /\ g.buffer = <<>> /\ g.headers = <<>>
         /\ g.processState = "HEADER" /\ g.lineState = "START"
<1> DEFINE a == ParseHeaders(h)
<1>1. Len(h.buffer) = 0 /\ h.buffer \in Seq(Symbol)
  BY EmptySeq DEF IsHttp
<1>2. a = Scanner(h)
  BY <1>1, ScanStarts DEF ParseHeaders
<1>3. a.state = "START" /\ a.result = "AGAIN" /\ a.headers = <<>> /\ a.lineBegin = 1
  BY <1>2, ScanStarts
<1> HIDE DEF a
<1>4. /\ g.lineState = a.state /\ g.headers = a.headers
      /\ g.hasError = (a.result = "ERROR")
      /\ a.result # "ERROR" /\ a.state # "END_LF" =>
           g.processState = "HEADER" /\ g.buffer = From(h.buffer, a.lineBegin)
  BY AtHeadersFields DEF a
<1>5. From(h.buffer, 1) = <<>>
  <2> DEFINE U == h.buffer
  <2>1. U \in Seq(Symbol) /\ Len(U) + 1 = 1
    BY <1>1
  <2> HIDE DEF U
  <2>2. From(U, Len(U) + 1) = <<>>
    BY <2>1, NothingLeft
  <2> QED
    BY <2>1, <2>2 DEF U
<1> QED
  BY <1>3, <1>4, <1>5

-----------------------------------------------------------------------------
(* Requests that come whole.                                               *)

\* What has been answered so far is right.
RightSoFar(all, requests) ==
  \A i \in DOMAIN all :
    /\ all[i] = [path |-> requests[i].path, headers |-> Headers(requests[i])]
    /\ requests[i].method = "GET"

LEMMA OneMore ==
  ASSUME NEW T, NEW all \in Seq(T), NEW requests, RightSoFar(all, requests),
         NEW m, m = Len(all) + 1, requests[m].method = "GET",
         NEW x, x = [path |-> requests[m].path, headers |-> Headers(requests[m])]
  PROVE  RightSoFar(Append(all, x), requests)
<1> DEFINE more == Append(all, x)
<1>1. Len(all) \in Nat /\ DOMAIN all = 1 .. Len(all)
  BY LenProperties
<1>2. all \in Seq(T \cup {x}) /\ x \in T \cup {x}
  BY SeqMonotonic
<1>3. /\ DOMAIN more = 1 .. m /\ more[m] = x
      /\ \A i \in 1 .. Len(all) : more[i] = all[i]
  <2>1. /\ more \in Seq(T \cup {x}) /\ Len(more) = Len(all) + 1
        /\ \A i \in 1 .. Len(all) : more[i] = all[i]
        /\ more[Len(all) + 1] = x
    BY <1>2, AppendProperties
  <2> HIDE DEF more
  <2>2. DOMAIN more = 1 .. Len(more)
    BY <2>1, LenProperties
  <2> QED
    BY <2>1, <2>2
<1> HIDE DEF more
<1>4. ASSUME NEW i \in 1 .. m
      PROVE  /\ more[i] = [path |-> requests[i].path, headers |-> Headers(requests[i])]
             /\ requests[i].method = "GET"
  <2>1. CASE i = m
    BY <1>3, <2>1
  <2>2. CASE i # m
    <3>1. i \in 1 .. Len(all)
      BY <1>1, <2>2
    <3> QED
      BY <1>1, <1>3, <3>1 DEF RightSoFar
  <2> QED
    BY <2>1, <2>2
<1> QED
  BY <1>3, <1>4 DEF RightSoFar, more

\* What the reads have seen of the stream, as long as requests come whole.
LEMMA Alone ==
  ASSUME Placed, Whole, HandleRead, ~cut', ~piped', AllReadable
  PROVE  /\ ~http.hasError /\ RightSoFar(answers, stream)
         /\ \/ at = Current /\ (off > 0 => off <= stream[at].line)
            \/ at = Current + 1 /\ off = 0
         /\ http.processState = "URI" => Consumed = Offset[Current]
         /\ http.processState = "HEADER" => http.lineState = "START" /\ http.headers = <<>>
         /\ http.processState = "BODY" => Current <= Arrived /\ stream[Current].method = "POST"
<1>1. cut' = (cut \/ (off > 0 /\ off > stream[at].line)) /\ piped' = (piped \/ Begun > Len(answers) + 1)
  BY Turns
<1>2. ~cut /\ ~(off > 0 /\ off > stream[at].line) /\ ~piped /\ ~(Begun > Len(answers) + 1)
  BY <1>1
<1>3. /\ ~http.hasError /\ RightSoFar(answers, stream)
      /\ http.processState = "URI" => Consumed = Offset[Current]
      /\ http.processState = "HEADER" => http.lineState = "START" /\ http.headers = <<>>
      /\ http.processState = "BODY" => Current <= Arrived /\ stream[Current].method = "POST"
  BY <1>2 DEF Whole, RightSoFar
<1>4. /\ Len(stream) \in Nat /\ at \in 1 .. Len(stream) + 1 /\ off \in Nat
      /\ Len(answers) \in Nat /\ Current \in 1 .. at /\ Current = Len(answers) + 1
  BY Numbers, InRange DEF Placed, AnswersRight, AllReadable, Current
<1>5. CASE off = 0
  <2>1. Begun = at - 1
    BY <1>5 DEF Begun
  <2>2. at = Current \/ at = Current + 1
    BY <1>2, <1>4, <2>1
  <2> QED
    BY <1>3, <1>5, <2>2
<1>6. CASE off > 0
  <2>1. Begun = at
    BY <1>6 DEF Begun
  <2>2. at = Current
    BY <1>2, <1>4, <2>1
  <2>3. at <= Len(stream)
    BY <1>6 DEF Placed, TypeOK
  <2>4. stream[at].line \in Nat
    <3>1. at \in 1 .. Len(stream) /\ stream \in Streams
      BY <1>4, <2>3 DEF Placed, TypeOK
    <3>2. stream[at].line \in 0 .. Len(stream[at].text)
      BY <3>1, Requests
    <3> QED
      BY <3>2
  <2>5. off <= stream[at].line
    BY <1>2, <1>4, <1>6, <2>4
  <2> QED
    BY <1>3, <2>2, <2>5
<1> QED
  BY <1>4, <1>5, <1>6

\* A block that has come whole ends the request.
LEMMA BlockDone ==
  ASSUME Placed, HandleRead, AllReadable, RightSoFar(answers, stream),
         at = Current + 1, off = 0, NEW r, r = stream[Current],
         NEW h, IsHttp(h), h.processState = "HEADER", ~h.hasError,
         h.lineState = "START", h.headers = <<>>, h.path = r.path, h.method = r.method,
         IsBlock(h.buffer, r.text, r.line), Parsed = AtHeaders(h)
  PROVE  Whole'
<1> DEFINE g == Parsed
<1>1. /\ Len(stream) \in Nat /\ at \in 1 .. Len(stream) + 1 /\ Sent \in Nat
      /\ Len(answers) \in Nat /\ Current \in 1 .. at /\ Current = Len(answers) + 1
      /\ stream \in Streams /\ Sent = Offset[at] + off /\ Offset[at] \in Nat
  BY Numbers, InRange DEF Placed, AnswersRight, AllReadable, Current, Sent
<1>2. Current \in 1 .. Len(stream) /\ Current \in Nat
  BY <1>1
<1>3. /\ r.text \in Seq(Symbol) /\ r.line \in 1 .. Len(r.text)
      /\ r.lines \in Seq(HeaderPlaces(Len(r.text))) /\ HeaderBlock(r) /\ RequestLine(r)
      /\ Current \in DOMAIN stream
  BY <1>1, <1>2, OneRequest DEF AllReadable
<1>4. Readable(r)
  BY <1>3 DEF AllReadable
<1>5. Lines(h.buffer, r)
  BY <1>3, <1>4, BlockLines
<1>6. /\ ~g.hasError /\ g.buffer = <<>> /\ g.headers = Headers(r)
      /\ g.processState = IF h.method = "GET" THEN "PROCESS" ELSE "BODY"
      /\ g.path = h.path
  BY <1>5, WholeBlock
<1>7. r.method \in {"GET", "POST"}
  BY <1>3 DEF RequestLine
<1> HIDE DEF g
<1>8. /\ \/ /\ Answer(g) /\ g.processState = "PROCESS" /\ ~g.hasError
            /\ http' = NewRequest(g.buffer)
            /\ answers' = Append(answers, [path |-> g.path, headers |-> g.headers])
            /\ Current' = Current + 1 /\ turn' = (g.buffer # <<>>)
         \/ /\ Pause(g) /\ g.processState # "PROCESS" /\ http' = g /\ answers' = answers
            /\ Current' = Current /\ turn' = FALSE
      /\ stream' = stream /\ at' = at /\ off' = off
      /\ Offset' = Offset /\ Consumed' = Sent - Len(g.buffer) /\ Arrived' = Arrived
  BY Turns DEF g
<1>9. CASE r.method = "GET"
  <2>1. g.processState = "PROCESS"
    BY <1>6, <1>9
  <2>2. /\ http' = NewRequest(g.buffer) /\ Current' = Current + 1
        /\ answers' = Append(answers, [path |-> g.path, headers |-> g.headers])
    BY <1>8, <2>1
  <2>3. http'.processState = "URI" /\ ~http'.hasError
    <3>1. <<>> \in Seq(Symbol)
      OBVIOUS
    <3> QED
      BY <1>6, <2>2, <3>1, Fresh
  <2>4. RightSoFar(answers', stream')
    <3> DEFINE x == [path |-> g.path, headers |-> g.headers]
    <3>1. x = [path |-> stream[Current].path, headers |-> Headers(stream[Current])]
      BY <1>6
    <3>2. answers \in Seq({answers[i] : i \in DOMAIN answers})
      BY DEF Placed, TypeOK, IsSequence
    <3>3. stream[Current].method = "GET"
      BY <1>9
    <3> HIDE DEF x
    <3>4. RightSoFar(Append(answers, x), stream)
      BY <1>1, <3>1, <3>2, <3>3, OneMore
    <3> QED
      BY <1>8, <2>2, <3>4 DEF x
  <2>5. Consumed' = (Offset[Current])' /\ at' = Current' /\ ~(off' > 0)
    <3>1. Len(g.buffer) = 0
      BY <1>6, EmptySeq
    <3>2. Consumed' = Offset[at]
      BY <1>1, <1>8, <3>1
    <3> QED
      BY <1>8, <2>2, <3>2
  <2> QED
    BY <2>3, <2>4, <2>5 DEF Whole, RightSoFar
<1>10. CASE r.method = "POST"
  <2>1. g.processState = "BODY"
    BY <1>6, <1>10
  <2>2. http' = g /\ answers' = answers /\ Current' = Current
    BY <1>8, <2>1
  <2>3. http'.processState = "BODY" /\ ~http'.hasError
    BY <1>6, <2>1, <2>2
  <2>4. RightSoFar(answers', stream')
    BY <1>8, <2>2
  <2>5. Current' <= Arrived' /\ (stream[Current].method)' = "POST"
    BY <1>1, <1>2, <1>8, <1>10, <2>2 DEF Arrived
  <2> QED
    BY <2>3, <2>4, <2>5 DEF Whole, RightSoFar
<1> QED
  BY <1>7, <1>9, <1>10

\* The request line is parsed when its r has come.
LEMMA WholeLine ==
  ASSUME NEW r, r.text \in Seq(Symbol), r.line \in 1 .. Len(r.text), RequestLine(r),
         NEW h, IsHttp(h), h.processState = "URI", ~h.hasError, h.lineState = "START", h.headers = <<>>,
         Len(h.buffer) <= Len(r.text), Reads(h.buffer, r.text, 0),
         NEW f, f = AtURI(h)
  PROVE  /\ Len(h.buffer) < r.line => f = h
         /\ r.line <= Len(h.buffer) =>
              /\ IsHttp(f) /\ f.processState = "HEADER" /\ ~f.hasError
              /\ f.lineState = "START" /\ f.headers = <<>>
              /\ f.path = r.path /\ f.method = r.method
              /\ f.buffer = From(h.buffer, r.line + 1)
<1> DEFINE U == h.buffer
           k == Len(U)
           n == Len(r.text)
           b == r.line
           e == Find(U, "r", 1)
           line == ParseLine(SubSeq(U, 1, e - 1))
<1>1. U \in Seq(Symbol) /\ k \in Nat /\ n \in Nat /\ b \in Nat /\ 1 <= b /\ b <= n /\ k <= n
  BY LenProperties DEF IsHttp
<1>2. r.text[b] = "r" /\ \A j \in 1 .. b - 1 : r.text[j] # "r"
  <2>1. b = Find(r.text, "r", 1) /\ b # 0
    BY <1>1 DEF RequestLine
  <2> HIDE DEF b
  <2> QED
    BY <1>1, <2>1, Found
<1>3. \A x \in 1 .. k : U[x] = r.text[x]
  <2>1. \A x \in 1 .. k : x + 0 = x /\ x + 0 \in 1 .. n
    BY <1>1
  <2> QED
    BY <2>1 DEF Reads
<1> HIDE DEF U, k, n, b, e, line
<1>4. CASE k < b
  <2>1. \A x \in 1 .. k : U[x] # "r"
    BY <1>1, <1>2, <1>3, <1>4
  <2>2. e = 0
    <3>1. e # 0 => e \in 1 .. k /\ U[e] = "r"
      BY <1>1, Found DEF e, k
    <3> QED
      BY <2>1, <3>1
  <2>3. f = h
    BY <2>2 DEF AtURI, e, U
  <2> QED
    BY <1>1, <1>4, <2>3 DEF b, k, U
<1>5. CASE b <= k
  <2>1. b \in 1 .. k /\ U[b] = "r" /\ \A j \in 1 .. b - 1 : U[j] # "r"
    BY <1>1, <1>2, <1>3, <1>5
  <2>2. e = b
    BY <1>1, <2>1, FindAt DEF e, k
  <2>3. e # 0
    BY <1>1, <2>2
  <2>4. line.ok /\ line.method = r.method /\ line.path = r.path
    <3>1. 0 \in {-1, 0, 1} /\ 0 # 1
      OBVIOUS
    <3>2. Reads(U, r.text, 0)
      BY DEF U
    <3>3. line.ok
      BY <1>1, <2>3, <3>1, <3>2, LineFound DEF e, line
    <3> QED
      BY <1>1, <2>3, <3>1, <3>2, <3>3, LineFound DEF e, line
  <2>5. /\ f.buffer = From(h.buffer, e + 1)
        /\ f.hasError = (h.hasError \/ ~line.ok)
        /\ f.processState = (IF line.ok THEN "HEADER" ELSE "URI")
        /\ line.ok => f.method = line.method /\ f.path = line.path
        /\ IsHttp(f) /\ f.lineState = h.lineState /\ f.headers = h.headers
    BY <2>3, AtURIFields DEF e, line, U
  <2>6. ~f.hasError
    BY <2>4, <2>5
  <2> QED
    BY <1>1, <1>5, <2>2, <2>4, <2>5, <2>6 DEF b, k, U
<1> QED
  BY <1>1, <1>4, <1>5

\* What is left of a whole request is its block.
LEMMA BlockLeft ==
  ASSUME NEW t \in Seq(Symbol), NEW U \in Seq(Symbol), NEW b \in 1 .. Len(t), Len(U) = Len(t), Reads(U, t, 0)
  PROVE  IsBlock(From(U, b + 1), t, b)
<1> DEFINE V == From(U, b + 1)
           n == Len(t)
<1>1. n \in Nat /\ Len(U) = n /\ b \in Nat /\ b <= n /\ b + 1 \in 1 .. Len(U) + 1
  BY LenProperties
<1>2. Len(V) = Len(U) - (b + 1) + 1 /\ \A j \in 1 .. Len(U) - (b + 1) + 1 : V[j] = U[(b + 1) + j - 1]
  BY <1>1, Suffix
<1> HIDE DEF V, n
<1>3. Len(V) = n - b
  BY <1>1, <1>2
<1>4. ASSUME NEW x \in 1 .. Len(V) PROVE V[x] = t[b + x]
  <2>1. /\ x \in 1 .. Len(U) - (b + 1) + 1 /\ (b + 1) + x - 1 = b + x
        /\ b + x \in 1 .. Len(U) /\ (b + x) + 0 = b + x /\ (b + x) + 0 \in 1 .. Len(t)
    BY <1>1, <1>3 DEF n
  <2>2. V[x] = U[b + x]
    BY <1>2, <2>1
  <2>3. U[b + x] = t[b + x]
    BY <2>1 DEF Reads
  <2> QED
    BY <2>2, <2>3
<1> QED
  BY <1>3, <1>4 DEF IsBlock, V, n

\* A turn that answers nothing.
LEMMA Silent ==
  ASSUME Placed, HandleRead, RightSoFar(answers, stream),
         NEW g, g = Parsed, g.processState # "PROCESS", ~g.hasError,
         g.processState = "URI" =>
           Sent - Len(g.buffer) = Offset[Current] /\ at = Current /\ (off > 0 => off < stream[at].line),
         g.processState = "HEADER" =>
           g.lineState = "START" /\ g.headers = <<>> /\ at = Current /\ off = stream[at].line,
         g.processState = "BODY" => Current <= Arrived /\ stream[Current].method = "POST"
  PROVE  Whole'
<1>1. /\ http' = g /\ answers' = answers /\ Current' = Current
      /\ stream' = stream /\ at' = at /\ off' = off
      /\ Offset' = Offset /\ Consumed' = Sent - Len(g.buffer) /\ Arrived' = Arrived
  BY Turns
<1>2. RightSoFar(answers', stream') /\ ~http'.hasError
  BY <1>1
<1>3. http'.processState = "URI" =>
        /\ Consumed' = (Offset[Current])'
        /\ at' = Current' /\ (off' > 0 => off' < (stream[at].line)')
  BY <1>1
<1>4. http'.processState = "HEADER" =>
        /\ http'.lineState = "START" /\ http'.headers = <<>>
        /\ at' = Current' /\ off' = (stream[at].line)'
  BY <1>1
<1>5. http'.processState = "BODY" => Current' <= Arrived' /\ (stream[Current].method)' = "POST"
  BY <1>1
<1> QED
  BY <1>2, <1>3, <1>4, <1>5 DEF Whole, RightSoFar

LEMMA WholeInBody ==
  ASSUME Placed, Whole, HandleRead, ~cut', ~piped', AllReadable, http.processState = "BODY"
  PROVE  Whole'
<1> DEFINE h == Read(http)
<1>1. ~http.hasError /\ RightSoFar(answers, stream) /\ Current <= Arrived /\ stream[Current].method = "POST"
  BY Alone
<1>2. h.processState = "BODY" /\ ~h.hasError
  BY <1>1, ReadFields DEF Placed, TypeOK
<1>3. Parsed = h
  BY <1>2 DEF Parsed, AtURI, AtHeaders
<1> HIDE DEF h
<1> QED
  BY <1>1, <1>2, <1>3, Silent

LEMMA WholeInBlock ==
  ASSUME Placed, Whole, HandleRead, ~cut', ~piped', AllReadable, http.processState = "HEADER"
  PROVE  Whole'
<1> DEFINE h == Read(http)
           U == Unread
           r == stream[Current]
           n == Len(r.text)
           b == r.line
           k == Len(U)
           o == Offset[Current]
<1>1. /\ ~http.hasError /\ RightSoFar(answers, stream)
      /\ \/ at = Current /\ (off > 0 => off <= stream[at].line)
         \/ at = Current + 1 /\ off = 0
      /\ http.lineState = "START" /\ http.headers = <<>>
  BY Alone
<1>2. /\ TypeOK /\ OwnPages /\ Contents /\ turn /\ Current <= Len(stream)
      /\ http.path = r.path /\ http.method = r.method
      /\ Consumed - o + 1 = b + 1 /\ inq # <<>>
  <2>1. turn /\ AtBlock /\ OwnPages
    BY <1>1 DEF Placed, AnswersRight, AllReadable, HandleRead
  <2> QED
    BY <1>1, <2>1 DEF Placed, AtBlock
<1>3. /\ stream \in Streams /\ U \in Seq(Symbol) /\ k \in Nat /\ Sent \in Nat /\ Consumed \in Int
      /\ Consumed + k = Sent /\ o \in Nat /\ Current \in 1 .. Len(stream) /\ Sent = Offset[at] + off
      /\ k = Len(http.buffer) + Len(inq) /\ Len(http.buffer) \in Nat /\ Len(inq) \in Nat /\ off \in Nat
  BY <1>2, Numbers, InRange DEF Sent
<1>4. /\ r.text \in Seq(Symbol) /\ n \in Nat /\ b \in 1 .. n /\ Offset[Current + 1] = o + n
  BY <1>3, OneRequest DEF AllReadable
<1>5. /\ IsHttp(h) /\ h.buffer = U /\ h.processState = "HEADER" /\ h.lineState = "START"
      /\ h.headers = <<>> /\ ~h.hasError /\ h.path = r.path /\ h.method = r.method
  BY <1>1, <1>2, ReadFields DEF TypeOK, Unread
<1>6. Parsed = AtHeaders(h)
  BY <1>5 DEF Parsed, AtURI
<1>7. Len(inq) # 0
  BY <1>2, EmptySeq DEF TypeOK
<1> DEFINE s == Sent
           c == Consumed
<1> HIDE DEF h, U, r, n, b, k, o
<1>a. s \in Nat /\ c \in Int /\ c + k = s /\ o \in Nat /\ k \in Nat /\ n \in Nat /\ off \in Nat
  BY <1>3, <1>4
<1> HIDE DEF s, c
<1>8. Consumed = o + b /\ b \in Nat /\ b <= n /\ k > 0
  <2>1. c - o + 1 = b + 1 /\ b \in Nat /\ b <= n
    BY <1>2, <1>4 DEF c
  <2>2. k > 0
    <3> DEFINE i == Len(inq)
               j == Len(http.buffer)
    <3>1. i \in Nat /\ j \in Nat /\ k = j + i /\ i # 0
      BY <1>3, <1>7
    <3> HIDE DEF i, j
    <3> QED
      BY <3>1
  <2> QED
    BY <1>a, <2>1, <2>2 DEF c
<1>9. at = Current + 1 /\ off = 0
  <2>1. at # Current
    <3> SUFFICES ASSUME at = Current PROVE FALSE
      OBVIOUS
    <3>1. s = o + off
      BY <1>3 DEF o, s
    <3>2. c = o + b /\ b \in Nat /\ k > 0
      BY <1>8 DEF c
    <3>3. off > b /\ off > 0
      BY <1>a, <3>1, <3>2
    <3>4. off <= b
      <4>1. at # Current + 1
        BY <1>3
      <4> QED
        BY <1>1, <3>3, <4>1 DEF b, r
    <3> QED
      BY <1>a, <3>2, <3>3, <3>4
  <2> QED
    BY <1>1, <2>1
<1>10. k = n - b
  <2>1. s = o + n
    BY <1>3, <1>4, <1>9 DEF s
  <2>2. c = o + b /\ b \in Nat
    BY <1>8 DEF c
  <2> QED
    BY <1>a, <2>1, <2>2
<1>11. IsBlock(U, r.text, b)
  <2>1. ASSUME NEW x \in 1 .. k PROVE U[x] = r.text[b + x]
    <3>1. b = Consumed - o /\ x + b \in 1 .. n /\ x + b = b + x
      BY <1>3, <1>4, <1>8, <1>10
    <3>2. U[x] = r.text[x + b]
      BY <1>2, <1>3, <3>1, InStream DEF U, k, r, n, o
    <3> QED
      BY <3>1, <3>2
  <2> QED
    BY <1>10, <2>1 DEF IsBlock, k, n
<1> QED
  BY <1>1, <1>5, <1>6, <1>9, <1>11, BlockDone DEF r, b

LEMMA WholeOnLine ==
  ASSUME Placed, Whole, HandleRead, ~cut', ~piped', AllReadable, http.processState = "URI"
  PROVE  Whole'
<1> DEFINE h == Read(http)
           U == Unread
           r == stream[Current]
           n == Len(r.text)
           b == r.line
           k == Len(U)
           o == Offset[Current]
           f == AtURI(h)
           s == Sent
<1>1. /\ ~http.hasError /\ RightSoFar(answers, stream) /\ Consumed = o
      /\ \/ at = Current /\ (off > 0 => off <= stream[at].line)
         \/ at = Current + 1 /\ off = 0
  BY Alone
<1>2. TypeOK /\ OwnPages /\ Contents /\ http.lineState = "START" /\ http.headers = <<>>
  BY <1>1 DEF Placed, AnswersRight, AllReadable, AtLine
<1>3. /\ stream \in Streams /\ U \in Seq(Symbol) /\ s = Offset[at] + off
      /\ Current \in 1 .. at /\ Current \in Nat /\ at \in 1 .. Len(stream) + 1 /\ Len(stream) \in Nat
  BY <1>2, Numbers, InRange DEF Sent
<1>4. k \in Nat /\ o \in Nat /\ s \in Nat /\ off \in Nat /\ k = s - o
  <2> DEFINE c == Consumed
  <2>1. k \in Nat /\ o \in Nat /\ s \in Nat /\ off \in Nat /\ c + k = s /\ c = o
    BY <1>1, <1>2, Numbers, InRange
  <2> HIDE DEF c, s, k, o
  <2> QED
    BY <2>1
<1>5. /\ IsHttp(h) /\ h.buffer = U /\ h.processState = "URI" /\ h.lineState = "START"
      /\ h.headers = <<>> /\ ~h.hasError
  BY <1>1, <1>2, ReadFields DEF TypeOK, Unread
<1>6. Parsed = AtHeaders(f)
  BY DEF Parsed
<1>7. f = h => Parsed = h
  BY <1>5, <1>6 DEF AtHeaders
<1> HIDE DEF h, U, r, n, b, k, o, f, s
<1>8. ASSUME f = h, at = Current, off > 0 => off < stream[at].line PROVE Whole'
  <2>1. Parsed = h /\ s - Len(h.buffer) = o
    <3>1. Parsed = h /\ Len(h.buffer) = k
      BY <1>5, <1>7, <1>8 DEF k
    <3>2. s - k = o
      BY <1>4
    <3> QED
      BY <3>1, <3>2
  <2> QED
    BY <1>1, <1>5, <1>8, <2>1, Silent DEF s, o
<1>9. ASSUME Current \in 1 .. Len(stream)
      PROVE  /\ r.text \in Seq(Symbol) /\ n \in Nat /\ b \in 1 .. n /\ RequestLine(r)
             /\ Offset[Current + 1] = o + n
  BY <1>3, <1>9, OneRequest DEF AllReadable, r, n, b, o
<1>10. ASSUME Current \in 1 .. Len(stream), k <= n
       PROVE  /\ Reads(U, r.text, 0)
              /\ k < b => f = h
              /\ b <= k =>
                   /\ IsHttp(f) /\ f.processState = "HEADER" /\ ~f.hasError
                   /\ f.lineState = "START" /\ f.headers = <<>>
                   /\ f.path = r.path /\ f.method = r.method
                   /\ f.buffer = From(U, b + 1)
  <2>1. ASSUME NEW x \in 1 .. Len(U), x + 0 \in 1 .. Len(r.text) PROVE U[x] = r.text[x + 0]
    <3>1. 0 = Consumed - Offset[Current]
      BY <1>1, <1>4 DEF o
    <3> QED
      BY <1>2, <1>10, <2>1, <3>1, InStream DEF U, r
  <2>2. Reads(U, r.text, 0)
    BY <2>1 DEF Reads
  <2>3. /\ r.text \in Seq(Symbol) /\ r.line \in 1 .. Len(r.text) /\ RequestLine(r)
        /\ Len(h.buffer) <= Len(r.text) /\ Reads(h.buffer, r.text, 0)
    BY <1>5, <1>9, <1>10, <2>2 DEF k, n, b
  <2>4. /\ Len(h.buffer) < r.line => f = h
        /\ r.line <= Len(h.buffer) =>
             /\ IsHttp(f) /\ f.processState = "HEADER" /\ ~f.hasError
             /\ f.lineState = "START" /\ f.headers = <<>>
             /\ f.path = r.path /\ f.method = r.method
             /\ f.buffer = From(h.buffer, r.line + 1)
    BY <1>5, <2>3, WholeLine DEF f
  <2> QED
    BY <1>5, <2>2, <2>4 DEF k, b
<1>11. CASE at = Current /\ off = 0
  <2>1. k = 0
    BY <1>3, <1>4, <1>11 DEF o
  <2>2. Find(U, "r", 1) = 0
    <3>1. Find(U, "r", 1) # 0 => Find(U, "r", 1) \in 1 .. k
      BY <1>4, Found DEF k
    <3> QED
      BY <2>1, <3>1
  <2>3. f = h
    BY <1>5, <2>2 DEF f, AtURI
  <2> QED
    BY <1>8, <1>11, <2>3
<1>12. CASE at = Current /\ off > 0
  <2>1. Current \in 1 .. Len(stream) /\ off < n
    BY <1>2, <1>3, <1>12 DEF TypeOK, n, r
  <2>2. k = off
    <3>1. s = o + off
      BY <1>3, <1>12 DEF o
    <3> QED
      BY <1>4, <3>1
  <2>3. n \in Nat /\ b \in Nat /\ k <= n
    BY <1>4, <1>9, <2>1, <2>2
  <2>4. off <= b
    <3>1. at # Current + 1
      BY <1>3, <1>12
    <3> QED
      BY <1>1, <1>12, <3>1 DEF b, r
  <2>5. CASE off < b
    <3>1. f = h
      BY <1>10, <2>1, <2>2, <2>3, <2>5
    <3>2. off < stream[at].line
      BY <1>12, <2>5 DEF b, r
    <3> QED
      BY <1>8, <1>12, <3>1, <3>2
  <2>6. CASE off = b
    <3>1. b <= k
      BY <2>2, <2>3, <2>6
    <3>2. /\ IsHttp(f) /\ f.processState = "HEADER" /\ ~f.hasError
          /\ f.lineState = "START" /\ f.headers = <<>> /\ f.buffer = From(U, b + 1)
      BY <1>10, <2>1, <2>3, <3>1
    <3>3. From(U, b + 1) = <<>>
      <4>1. b = Len(U)
        BY <2>2, <2>6 DEF k
      <4> QED
        BY <1>3, <4>1, NothingLeft
    <3>4. f.buffer = <<>>
      BY <3>2, <3>3
    <3>5. /\ ~Parsed.hasError /\ Parsed.headers = <<>>
          /\ Parsed.processState = "HEADER" /\ Parsed.lineState = "START"
      BY <1>6, <3>2, <3>4, EmptyBlock
    <3>6. off = stream[at].line
      BY <1>12, <2>6 DEF b, r
    <3> QED
      BY <1>1, <1>12, <3>5, <3>6, Silent
  <2>7. off < b \/ off = b
    BY <1>4, <2>3, <2>4
  <2> QED
    BY <2>5, <2>6, <2>7
<1>13. CASE at = Current + 1 /\ off = 0
  <2>1. Current \in 1 .. Len(stream)
    BY <1>3, <1>13
  <2>2. k = n
    <3>1. s = o + n /\ n \in Nat
      <4>1. Offset[Current + 1] = o + n /\ n \in Nat
        BY <1>9, <2>1
      <4>2. s = Offset[Current + 1] + 0
        BY <1>3, <1>13
      <4> QED
        BY <1>4, <4>1, <4>2
    <3> QED
      BY <1>4, <3>1
  <2>3. k <= n /\ b <= k /\ b \in 1 .. Len(r.text) /\ r.text \in Seq(Symbol)
    <3>1. n \in Nat /\ b \in 1 .. n /\ r.text \in Seq(Symbol)
      BY <1>9, <2>1
    <3> QED
      BY <2>2, <3>1 DEF n
  <2>4. /\ Reads(U, r.text, 0)
        /\ IsHttp(f) /\ f.processState = "HEADER" /\ ~f.hasError
        /\ f.lineState = "START" /\ f.headers = <<>>
        /\ f.path = r.path /\ f.method = r.method
        /\ f.buffer = From(U, b + 1)
    BY <1>10, <2>1, <2>3
  <2>5. Len(U) = Len(r.text)
    BY <2>2 DEF k, n
  <2>6. IsBlock(From(U, b + 1), r.text, b)
    BY <1>3, <2>3, <2>4, <2>5, BlockLeft
  <2>7. IsBlock(f.buffer, r.text, r.line)
    BY <2>4, <2>6 DEF b
  <2> QED
    BY <1>1, <1>6, <1>13, <2>4, <2>7, BlockDone DEF r
<1>14. off = 0 \/ off > 0
  BY <1>4
<1> QED
  BY <1>1, <1>11, <1>12, <1>13, <1>14

LEMMA WholeTurn ==
  ASSUME Placed, Whole, HandleRead
  PROVE  Whole'
<1>1. CASE ~cut' /\ ~piped' /\ AllReadable'
  <2>1. AllReadable
    <3>1. stream' = stream
      BY Turns
    <3> QED
      BY <1>1, <3>1 DEF AllReadable, AllFramed
  <2>2. http.processState \in {"URI", "HEADER", "BODY"}
    BY DEF Placed, TypeOK, IsHttp
  <2> QED
    BY <1>1, <2>1, <2>2, WholeOnLine, WholeInBlock, WholeInBody
<1>2. CASE ~(~cut' /\ ~piped' /\ AllReadable')
  BY <1>2 DEF Whole
<1> QED
  BY <1>1, <1>2

LEMMA WholeArrive ==
  ASSUME Placed, Whole, Arrive
  PROVE  Whole'
<1>1. /\ Consumed' = Consumed /\ Current' = Current /\ Offset' = Offset /\ Arrived' >= Arrived
      /\ http' = http /\ stream' = stream /\ answers' = answers /\ turn' = TRUE
      /\ cut' = cut /\ piped' = piped
  BY Arrives DEF Placed
<1>2. CASE ~cut' /\ ~piped' /\ AllReadable'
  <2>1. ~cut /\ ~piped /\ AllReadable
    BY <1>1, <1>2 DEF AllReadable, AllFramed
  <2>2. /\ ~http.hasError /\ RightSoFar(answers, stream)
        /\ http.processState = "URI" => Consumed = Offset[Current]
        /\ http.processState = "HEADER" => http.lineState = "START" /\ http.headers = <<>>
        /\ http.processState = "BODY" => Current <= Arrived /\ stream[Current].method = "POST"
    BY <2>1 DEF Whole, RightSoFar
  <2>3. ~http'.hasError /\ RightSoFar(answers', stream')
    BY <1>1, <2>2
  <2>4. http'.processState = "URI" => Consumed' = (Offset[Current])'
    BY <1>1, <2>2
  <2>5. http'.processState = "HEADER" => http'.lineState = "START" /\ http'.headers = <<>>
    BY <1>1, <2>2
  <2>6. http'.processState = "BODY" => Current' <= Arrived' /\ (stream[Current].method)' = "POST"
    <3>1. Arrived \in Int /\ Arrived' \in Int /\ Current \in Int
      <4>1. at \in Int /\ at' \in Int /\ Current \in Int
        <5>1. at \in Int /\ Current \in Int /\ Len(stream) \in Int
          BY Numbers DEF Placed
        <5>2. at' \in {at, at + 1}
          BY DEF Arrive
        <5> QED
          BY <5>1, <5>2
      <4> QED
        BY <4>1 DEF Arrived
    <3>2. http'.processState = "BODY" => Current <= Arrived
      BY <1>1, <2>2
    <3>3. Arrived' >= Arrived
      BY <1>1
    <3>4. http'.processState = "BODY" => Current <= Arrived'
      BY <3>1, <3>2, <3>3
    <3> QED
      BY <1>1, <2>2, <3>4
  <2> QED
    BY <1>1, <2>3, <2>4, <2>5, <2>6 DEF Whole, RightSoFar
<1>3. CASE ~(~cut' /\ ~piped' /\ AllReadable')
  BY <1>3 DEF Whole
<1> QED
  BY <1>2, <1>3

LEMMA WholeInit == Init => Whole
<1> SUFFICES ASSUME Init PROVE Whole
  OBVIOUS
<1>1. Placed
  BY PlacedInit
<1>2. http.processState = "URI" /\ ~http.hasError /\ http.buffer = <<>>
  <2>1. <<>> \in Seq(Symbol)
    OBVIOUS
  <2> QED
    BY <2>1, Fresh DEF Init
<1>3. /\ Consumed + Len(Unread) = Sent /\ Consumed \in Int /\ Len(Unread) = Len(http.buffer) + Len(inq)
      /\ Sent = Offset[at] + off /\ Offset[at] \in Nat
  BY <1>1, Numbers DEF Placed, Sent
<1>4. Current = 1 /\ at = 1 /\ off = 0 /\ answers = <<>> /\ Len(http.buffer) = 0 /\ Len(inq) = 0
  BY <1>2, EmptySeq DEF Init, Current
<1>5. Consumed = Offset[Current]
  <2>1. Len(Unread) = 0 /\ Sent = Offset[Current]
    BY <1>3, <1>4
  <2> DEFINE c == Consumed
             u == Len(Unread)
  <2>2. c \in Int /\ u = 0 /\ c + u = Offset[Current]
    BY <1>3, <2>1
  <2> HIDE DEF c, u
  <2>3. c + 0 = c
    BY <2>2
  <2> QED
    BY <2>2, <2>3 DEF c
<1>6. DOMAIN answers = {}
  BY <1>4
<1> QED
  BY <1>2, <1>4, <1>5, <1>6 DEF Whole

LEMMA IInvStep == IInv /\ [Next]_vars => IInv'
<1> SUFFICES ASSUME IInv, [Next]_vars PROVE IInv'
  OBVIOUS
<1>1. Placed /\ Whole
  BY DEF IInv
<1>2. Placed'
  BY <1>1, PlacedStep
<1>3. Whole'
  <2>1. CASE HandleRead
    BY <1>1, <2>1, WholeTurn
  <2>2. CASE Arrive
    BY <1>1, <2>2, WholeArrive
  <2>3. CASE UNCHANGED vars
    <3>1. Offset' = Offset
      BY <2>3 DEF Offset, vars
    <3>2. AllReadable' <=> AllReadable
      BY <2>3 DEF AllReadable, AllFramed, vars
    <3> QED
      BY <1>1, <2>3, <3>1, <3>2 DEF vars, Whole, Consumed, Sent, Unread, Current, Arrived
  <2> QED
    BY <2>1, <2>2, <2>3 DEF Next
<1> QED
  BY <1>2, <1>3 DEF IInv

\* What has been answered is what has been asked, once nothing is left to parse.
LEMMA AllAnswered == IInv => WholeAnswered
<1> SUFFICES ASSUME IInv, AtRest, ~cut, ~piped, AllReadable PROVE answers = Asked
  BY DEF WholeAnswered
<1> DEFINE L == Len(answers)
           posts == {i \in DOMAIN stream : stream[i].method = "POST"}
           S == {Arrived} \cup {i - 1 : i \in posts}
<1>1. /\ RightSoFar(answers, stream) /\ ~turn
      /\ http.processState = "URI" => at = Current
      /\ http.processState = "HEADER" => at = Current
      /\ http.processState = "BODY" => Current <= Arrived /\ stream[Current].method = "POST"
  BY DEF IInv, Whole, AtRest, RightSoFar
<1>2. http.processState \in {"URI", "HEADER", "BODY"}
  BY DEF IInv, Placed, TypeOK, IsHttp
<1>3. /\ L \in Nat /\ Len(stream) \in Nat /\ at \in 1 .. Len(stream) + 1 /\ Current = L + 1
      /\ Arrived = at - 1 /\ L <= Arrived /\ stream \in Streams
  BY Numbers DEF IInv, Placed, AnswersRight, OwnPages, AllReadable, Arrived, Current
<1>4. DOMAIN stream = 1 .. Len(stream)
  BY <1>3, Requests
<1>5. DOMAIN answers = 1 .. L /\ answers = [i \in 1 .. L |-> answers[i]]
  <2>1. answers \in Seq({answers[i] : i \in DOMAIN answers})
    BY DEF IInv, Placed, TypeOK, IsSequence
  <2> QED
    BY <2>1
<1> HIDE DEF L
<1>6. L \in S
  <2>1. CASE at = Current
    BY <1>3, <2>1
  <2>2. CASE http.processState = "BODY"
    <3>1. Current \in DOMAIN stream /\ Current - 1 = L
      BY <1>1, <1>3, <1>4, <2>2
    <3>2. Current \in posts
      BY <1>1, <2>2, <3>1
    <3> QED
      BY <3>1, <3>2
  <2> QED
    BY <1>1, <1>2, <2>1, <2>2
<1>7. \A x \in S : L <= x
  <2>1. ASSUME NEW i \in posts PROVE L <= i - 1
    <3>1. i \in 1 .. Len(stream) /\ stream[i].method = "POST"
      BY <1>4
    <3>2. i \notin 1 .. L
      BY <1>1, <1>5, <3>1 DEF RightSoFar
    <3> QED
      BY <1>3, <3>1, <3>2
  <2> QED
    BY <1>3, <2>1
<1>8. S \in SUBSET Int
  BY <1>3, <1>4
<1> HIDE DEF S, posts
<1>9. Min(S) = L
  <2>1. \A x \in S : (\A y \in S : x <= y) => x = L
    BY <1>3, <1>6, <1>7, <1>8
  <2> QED
    BY <1>6, <1>7, <2>1 DEF Min
<1>10. Asked = [i \in 1 .. L |-> [path |-> stream[i].path, headers |-> Headers(stream[i])]]
  <2>1. Asked = [i \in 1 .. Min(S) |-> [path |-> stream[i].path, headers |-> Headers(stream[i])]]
    BY DEF Asked, S, posts
  <2> QED
    BY <1>9, <2>1
<1>11. \A i \in 1 .. L : answers[i] = [path |-> stream[i].path, headers |-> Headers(stream[i])]
  BY <1>1, <1>5 DEF RightSoFar
<1> QED
  BY <1>5, <1>10, <1>11

\* As long as requests come whole and one by one, each is answered right: the
\* request line is found whatever the stream has been cut into, and the state
\* machine of ParseHeaders takes every block of the form Readable describes.
THEOREM Invariance == Spec => []IInv
<1>1. Init => IInv
  BY PlacedInit, WholeInit DEF IInv
<1>2. IInv /\ [Next]_vars => IInv'
  BY IInvStep
<1> QED
  BY <1>1, <1>2, PTL DEF Spec

\* A request whose header block arrives in one piece and on its own is answered,
\* with the headers it has, however the request line was cut, for every request
\* and every length of its lines.
THEOREM WholeHolds == Spec => []WholeAnswered
<1>1. IInv => WholeAnswered
  BY AllAnswered
<1> QED
  BY <1>1, Invariance, PTL
=============================================================================
