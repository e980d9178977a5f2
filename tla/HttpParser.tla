----------------------------- MODULE HttpParser -----------------------------
(***************************************************************************)
(* Http::ParseURI and Http::ParseHeaders (src/src/Server/Http.cpp) inside  *)
(* the turns of Http::HandleRead, on one connection whose client sends     *)
(* requests in fragments of any size.                                      *)
(*                                                                         *)
(* The text is a sequence of symbols.  A byte the parsers look for is a    *)
(* symbol of its own: "r", "/", "SP", "?", ":", "CR", "LF"; a word they     *)
(* search for or compare ("GET", "POST", "1.0", "1.1") is one symbol, and  *)
(* so is a run of other bytes.  Losing the first byte of a word or losing  *)
(* the word is then the same, which it also is for find() and ==.          *)
(* Positions count from 1, so that the -1 the indices of ParseHeaders      *)
(* start with is 0, the place before the buffer.                           *)
(*                                                                         *)
(* Every page exists here; writing, closing and the timers are in Worker.  *)
(***************************************************************************)
EXTENDS Integers, Sequences, FiniteSetsExt

CONSTANTS
  Streams,   \* what the client may send: sequences of requests
  MaxValue   \* the 255 of ParseHeaders

VARIABLES
  http,     \* what the parsers read and write of the Http object
  inq,      \* kernel: symbols received and not read
  turn,     \* a turn of HandleRead is due
  stream,   \* the requests the client sends
  at,       \* the request it is sending, and
  off,      \* how much of it has arrived
  answers,  \* history: what the answered requests asked for
  cut,      \* history: a read ended inside a header block
  piped     \* history: a read took more than the next request

vars == <<http, inq, turn, stream, at, off, answers, cut, piped>>

\* held is history: symbols read since the request began.
NewRequest(buffer) ==
  [ processState |-> "URI", lineState |-> "START", buffer |-> buffer,
    method |-> "GET", path |-> <<>>, headers |-> <<>>, hasError |-> FALSE,
    held |-> Len(buffer) ]

-----------------------------------------------------------------------------
(* Http::ParseURI.                                                         *)

\* std::string::find from a position: 0 when there is none.
Find(s, symbol, from) ==
  LET places == {i \in from .. Len(s) : s[i] = symbol}
  IN IF places = {} THEN 0 ELSE Min(places)

From(s, i) == SubSeq(s, i, Len(s))

\* The url of a request line, from the method on, and the version after it.
Path(line, slash, space) ==
  LET name == SubSeq(line, slash + 1, space - 1)
      mark == Find(name, "?", 1)
  IN IF name = <<>> THEN <<"index.html">>
     ELSE IF mark = 0 THEN name ELSE SubSeq(name, 1, mark - 1)

Version(line, space) ==
  LET slash == Find(line, "/", space)
  IN IF slash = 0 \/ slash = Len(line) THEN "none" ELSE line[slash + 1]

\* The request line: an error, or the method and the path.
ParseLine(line) ==
  LET get    == Find(line, "GET", 1)
      method == IF get # 0 THEN get ELSE Find(line, "POST", 1)
      slash  == Find(line, "/", method)
      space  == Find(line, "SP", slash)
  IN IF method = 0 THEN [ok |-> FALSE]
     ELSE IF slash = 0 THEN [ok |-> TRUE, method |-> line[method], path |-> <<"index.html">>]
     ELSE IF space = 0 \/ Version(line, space) \notin {"1.0", "1.1"} THEN [ok |-> FALSE]
     ELSE [ok |-> TRUE, method |-> line[method], path |-> Path(line, slash, space)]

\* The line ends where find('/r') says: the constant is truncated to the
\* letter r.  Without one the buffer is kept for the next turn.
AtURI(h) ==
  LET r    == Find(h.buffer, "r", 1)
      line == ParseLine(SubSeq(h.buffer, 1, r - 1))
      rest == [h EXCEPT !.buffer = From(@, r + 1)]
  IN IF h.processState # "URI" \/ r = 0 THEN h
     ELSE IF ~line.ok THEN [rest EXCEPT !.hasError = TRUE]
     ELSE [rest EXCEPT !.processState = "HEADER", !.method = line.method, !.path = line.path]

-----------------------------------------------------------------------------
(* What a client sends.                                                    *)

\* A request is its text, what it asks for, and where its parts are: line is
\* the place of its first letter r, which ends the request line for ParseURI (0
\* if it has none), lines the header lines behind it, if that r is in the name of
\* a header: where a name begins, where its colon is and where the CR is.
HeaderPlaces(n) == [first : 1 .. n, colon : 1 .. n, end : 1 .. n]

IsSequence(s) == s \in Seq({s[i] : i \in DOMAIN s})

\* The request line is found: the method, a url and the version, all before the
\* first r.
RequestLine(r) ==
  LET slash   == Find(r.text, "/", 1)
      space   == Find(r.text, "SP", slash)
      version == Find(r.text, "/", space)
  IN /\ Find(r.text, "r", 1) = r.line
     /\ r.text[1] = r.method /\ r.method \in {"GET", "POST"}
     /\ \A j \in 2 .. r.line - 1 : r.text[j] \notin {"GET", "POST"}
     /\ 0 < slash /\ slash < space /\ space < version /\ version + 1 < r.line
     /\ r.text[version + 1] \in {"1.0", "1.1"}
     /\ r.path = Path(r.text, slash, space)

\* The rest is a header block: something of a line, lines that end in CR LF, none
\* of them blank or with a space at its end, and the blank line.
HeaderBlock(r) ==
  LET n == Len(r.text)
  IN /\ r.line + 4 < n
     /\ r.text[r.line + 1] \notin {"CR", "LF"}
     /\ r.text[n - 3] = "CR" /\ r.text[n - 2] = "LF"
     /\ r.text[n - 1] = "CR" /\ r.text[n] = "LF"
     /\ \A j \in r.line + 2 .. n :
          /\ r.text[j] = "LF" => r.text[j - 1] = "CR"
          /\ r.text[j] = "CR" => r.text[j - 1] # "SP"
          /\ r.text[j] = "CR" /\ r.text[j - 1] = "LF" => j = n - 1

\* A request that ParseURI and ParseHeaders divide where its parts meet.  HTTP
\* does not demand it: a request may have no r, or its first one in the url or at
\* the end of a line.
Framed(r) ==
  r.line > 0 /\ RequestLine(r) /\ HeaderBlock(r)

ASSUME ParserAssumption ==
  /\ MaxValue \in Nat
  /\ \A s \in Streams :
       /\ IsSequence(s)
       /\ \A i \in DOMAIN s :
            /\ IsSequence(s[i].text) /\ s[i].text # <<>>
            /\ s[i].line \in 0 .. Len(s[i].text)
            /\ s[i].lines \in Seq(HeaderPlaces(Len(s[i].text)))

\* A request ParseHeaders accepts when it sees it whole: every header is a name,
\* a colon, one space and a value of the length it allows, and the letter r that
\* ends the request line is in a name.
HeaderLine(r, l) ==
  /\ l.first < l.colon /\ l.colon + 2 < l.end /\ l.end < Len(r.text)
  /\ \A j \in l.first .. l.colon - 1 : r.text[j] \notin {":", "CR", "LF"}
  /\ r.text[l.colon] = ":" /\ r.text[l.colon + 1] = "SP"
  /\ \A j \in l.colon + 2 .. l.end - 1 : r.text[j] # "CR"
  /\ r.text[l.end] = "CR" /\ r.text[l.end + 1] = "LF"
  /\ l.end - l.colon - 3 <= MaxValue

Readable(r) ==
  /\ r.lines # <<>>
  /\ \A i \in DOMAIN r.lines :
       /\ r.lines[i].first = IF i = 1 THEN r.line + 1 ELSE r.lines[i - 1].end + 2
       /\ HeaderLine(r, r.lines[i])
  /\ r.lines[Len(r.lines)].end = Len(r.text) - 3

\* What its headers say: a name has the value of its last line.
Name(r, i)  == SubSeq(r.text, r.lines[i].first, r.lines[i].colon - 1)
Value(r, i) == SubSeq(r.text, r.lines[i].colon + 2, r.lines[i].end - 1)
LastOf(r, name) ==
  CHOOSE i \in DOMAIN r.lines :
    Name(r, i) = name /\ \A j \in i + 1 .. Len(r.lines) : Name(r, j) # name
Headers(r) == [name \in {Name(r, i) : i \in DOMAIN r.lines} |-> Value(r, LastOf(r, name))]

-----------------------------------------------------------------------------
(* Http::ParseHeaders.                                                     *)

\* A copy of str from begin + a up to begin + b; the place before the buffer
\* holds whatever is there.
Copy(str, a, b) == [j \in 1 .. b - a |-> IF a + j = 1 THEN "junk" ELSE str[a + j - 1]]

\* What a call starts from: the state is a member of Http, the rest is local.
Scanner(h) ==
  [ state |-> h.lineState, next |-> 1, keyStart |-> 0, keyEnd |-> 0, valueStart |-> 0,
    valueEnd |-> 0, lineBegin |-> 1, headers |-> h.headers, result |-> "AGAIN" ]

Refuse(a) == [a EXCEPT !.result = "ERROR"]

\* header_kv_[key] = value.  (Mutant: insert(), which keeps what is there.)
Store_Inserts(a, str) ==
  LET key == Copy(str, a.keyStart, a.keyEnd)
  IN [k \in DOMAIN a.headers \cup {key} |->
        IF k \in DOMAIN a.headers THEN a.headers[k] ELSE Copy(str, a.valueStart, a.valueEnd)]

Store(a, str) ==
  LET key == Copy(str, a.keyStart, a.keyEnd)
  IN [k \in DOMAIN a.headers \cup {key} |->
        IF k = key THEN Copy(str, a.valueStart, a.valueEnd) ELSE a.headers[k]]

\* One byte of the loop.
Scan(a, str, i) ==
  CASE a.state = "START" ->
         IF str[i] \in {"CR", "LF"} THEN a
         ELSE [a EXCEPT !.state = "KEY", !.keyStart = i, !.lineBegin = i]
    [] a.state = "KEY" ->
         IF str[i] = ":" THEN IF i <= a.keyStart THEN Refuse(a)
                              ELSE [a EXCEPT !.state = "COLON", !.keyEnd = i]
         ELSE IF str[i] \in {"CR", "LF"} THEN Refuse(a) ELSE a
    [] a.state = "COLON" ->
         IF str[i] = "SP" THEN [a EXCEPT !.state = "SPACES"] ELSE Refuse(a)
    [] a.state = "SPACES" -> [a EXCEPT !.state = "VALUE", !.valueStart = i]
    [] a.state = "VALUE" ->
         IF str[i] = "CR" THEN IF i <= a.valueStart THEN Refuse(a)
                               ELSE [a EXCEPT !.state = "CR", !.valueEnd = i]
         ELSE IF i - a.valueStart > MaxValue THEN Refuse(a) ELSE a
    [] a.state = "CR" ->
         IF str[i] = "LF" THEN [a EXCEPT !.state = "LF", !.headers = Store(a, str),
                                         !.lineBegin = i]
         ELSE Refuse(a)
    [] a.state = "LF" ->
         IF str[i] = "CR" THEN [a EXCEPT !.state = "END_CR"]
         ELSE [a EXCEPT !.state = "KEY", !.keyStart = i]
    [] a.state = "END_CR" ->
         IF str[i] = "LF" THEN [a EXCEPT !.state = "END_LF"] ELSE Refuse(a)
    [] a.state = "END_LF" -> [a EXCEPT !.result = "SUCCESS"]

\* The loop: it leaves on an error and behind H_END_LF, which takes a byte.
ScanNext(a, str, i) ==
  IF a.result # "AGAIN" THEN a ELSE [Scan(a, str, i) EXCEPT !.next = i + 1]

ScanAll(h) ==
  LET scan[i \in 0 .. Len(h.buffer)] ==
        IF i = 0 THEN Scanner(h) ELSE ScanNext(scan[i - 1], h.buffer, i)
  IN scan

ParseHeaders(h) == ScanAll(h)[Len(h.buffer)]

\* HandleRead's part: a finished block leaves the buffer behind it, a block
\* that is not finished leaves the line it ends in.
\* (Mutant: a finished block stays in the buffer.)
AtHeaders_Keeps(h) ==
  LET a == ParseHeaders(h)
  IN IF h.processState # "HEADER" \/ h.hasError \/ a.state # "END_LF" THEN h
     ELSE [h EXCEPT !.headers = a.headers, !.processState = "PROCESS"]

AtHeaders(h) ==
  LET a == ParseHeaders(h)
      seen == [h EXCEPT !.lineState = a.state, !.headers = a.headers]
  IN IF h.processState # "HEADER" \/ h.hasError THEN h
     ELSE IF a.result = "ERROR" THEN [seen EXCEPT !.hasError = TRUE]
     ELSE IF a.state # "END_LF" THEN [seen EXCEPT !.buffer = From(@, a.lineBegin)]
     ELSE [seen EXCEPT !.buffer = From(@, a.next), !.held = Len(h.buffer) - a.next + 1,
                       !.processState = IF h.method = "GET" THEN "PROCESS" ELSE "BODY"]

-----------------------------------------------------------------------------
(* Http::HandleRead, one turn of its recursion.                            *)

\* Utils::ReadFromFd and the two parsers.
Read(h) == [h EXCEPT !.buffer = @ \o inq, !.held = @ + Len(inq)]
Parsed  == AtHeaders(AtURI(Read(http)))

\* Http::reset.  (Mutant: header_line_state is kept.)
Reset_KeepsState(h) == [NewRequest(h.buffer) EXCEPT !.lineState = h.lineState]

Reset(h) == NewRequest(h.buffer)

\* Requests that have arrived as a whole, and those that have begun to.
Arrived == at - 1
Begun   == IF off > 0 THEN at ELSE at - 1

\* GET: ProcessRequest answers, and a rest of the buffer makes another turn.
Answer(h) ==
  /\ h.processState = "PROCESS" /\ ~h.hasError
  /\ answers' = Append(answers, [path |-> h.path, headers |-> h.headers])
  /\ http' = Reset(h)
  /\ turn' = (h.buffer # <<>>)

\* An error page and the close, or more to come; a POST is never answered.
Pause(h) ==
  /\ h.processState # "PROCESS" \/ h.hasError
  /\ http' = h
  /\ turn' = FALSE
  /\ UNCHANGED answers

HandleRead ==
  /\ turn
  /\ LET h == Parsed IN Answer(h) \/ Pause(h)
  /\ inq' = <<>>
  /\ cut' = (cut \/ (off > 0 /\ off > stream[at].line))
  /\ piped' = (piped \/ Begun > Len(answers) + 1)
  /\ UNCHANGED <<stream, at, off>>

-----------------------------------------------------------------------------
(* The client and the kernel.                                              *)

\* The next n symbols of a request arrive; the Channel's EPOLLIN brings about a
\* HandleRead.  (Two fragments of one request between two reads are one.)
Arrive ==
  /\ ~http.hasError
  /\ inq = <<>> \/ off = 0
  /\ at <= Len(stream)
  /\ LET text == stream[at].text
     IN \E n \in 1 .. Len(text) - off :
          /\ inq' = inq \o SubSeq(text, off + 1, off + n)
          /\ IF off + n = Len(text) THEN at' = at + 1 /\ off' = 0
                                    ELSE at' = at /\ off' = off + n
  /\ turn' = TRUE
  /\ UNCHANGED <<http, stream, answers, cut, piped>>

Init ==
  /\ stream \in Streams
  /\ http = NewRequest(<<>>)
  /\ inq = <<>>
  /\ turn = FALSE
  /\ at = 1
  /\ off = 0
  /\ answers = <<>>
  /\ cut = FALSE
  /\ piped = FALSE

Next == HandleRead \/ Arrive

Spec == Init /\ [][Next]_vars

-----------------------------------------------------------------------------
(* Properties.                                                             *)

\* Nothing is left to be read or parsed.
AtRest == ~turn /\ inq = <<>>

\* What the requests that have arrived ask for, as far as they are GETs: a POST
\* is not answered, and what follows it is taken for its body.
Asked ==
  LET posts == {i \in DOMAIN stream : stream[i].method = "POST"}
      last  == Min({Arrived} \cup {i - 1 : i \in posts})
  IN [i \in 1 .. last |-> [path |-> stream[i].path, headers |-> Headers(stream[i])]]

AllFramed   == \A i \in DOMAIN stream : Framed(stream[i])
AllReadable == AllFramed /\ \A i \in DOMAIN stream : Readable(stream[i])

\* Http.cpp:302-388: a request whose header block arrives in one piece and on
\* its own is answered, with the headers it has, however the request line was
\* cut: the state machine of ParseHeaders accepts such blocks and copies keys
\* and values, wherever ParseURI has left them in the buffer.
WholeAnswered ==
  AtRest /\ ~cut /\ ~piped /\ AllReadable => answers = Asked

\* Http.cpp:102-167, 224-300: for well-formed requests, also those that ParseURI and
\* ParseHeaders do not divide where they should (no r in one: its request line is
\* sought in the next; the first r in its url or at the end of a line), and
\* however they are cut and pipelined: an answer is for a GET that has arrived,
\* none is answered twice, and answers are in the order of the requests.  Requests
\* may be skipped: what was glued to another is not answered.
InTurn ==
  \E of \in [DOMAIN answers -> 1 .. Arrived] :
    \A i \in DOMAIN answers :
      /\ answers[i].path = stream[of[i]].path /\ stream[of[i]].method = "GET"
      /\ \A j \in 1 .. i - 1 : of[j] < of[i]

\* The answers are those of the first requests, one by one.
OwnPages ==
  /\ Len(answers) <= Arrived
  /\ \A i \in DOMAIN answers : answers[i].path = stream[i].path

\* Http.cpp:102-167: when every request has its first r in its header block and
\* not at the end of a line, then, however the stream is cut or pipelined, none is
\* skipped, answered before it has arrived, twice, or with the page of another,
\* although the parsers start on what the last request left behind.
AnswersRight == AllFramed => OwnPages

Handlers == INSTANCE HttpHandlers WITH MaxResponse <- 1

\* What HttpHandlers knows of the object: readBuffer counts what has been read
\* since the request began.
Seen(h) ==
  [ connectionState |-> "CONNECTED", hasError |-> h.hasError,
    processState |-> h.processState, readBuffer |-> h.held, writeBuffer |-> 0,
    keepAlive |-> TRUE, toListen |-> {} ]

\* HttpHandlers takes the results of the parsers from sets; what they really
\* leave in a turn is always one of them.  So what is shown of Worker holds
\* with these parsers: a finished request always takes something out of the
\* buffer, and HandleRead's recursion ends.
ImplementsHandlers ==
  turn => Seen(Parsed) \in UNION {Handlers!AtHeaders(g) : g \in Handlers!AtURI(Seen(Read(http)))}

-----------------------------------------------------------------------------
(* The inductive invariant.                                                *)

Symbol == UNION {UNION {{s[i].text[j] : j \in DOMAIN s[i].text} : i \in DOMAIN s} : s \in Streams}

LineState == {"START", "KEY", "COLON", "SPACES", "VALUE", "CR", "LF", "END_CR", "END_LF"}

IsHttp(h) ==
  /\ DOMAIN h = DOMAIN NewRequest(<<>>)
  /\ h.processState \in {"URI", "HEADER", "BODY", "PROCESS"} /\ h.lineState \in LineState
  /\ h.buffer \in Seq(Symbol) /\ h.method \in {"GET", "POST"}
  /\ h.hasError \in BOOLEAN /\ h.held \in Nat

TypeOK ==
  /\ IsHttp(http) /\ http.processState # "PROCESS"
  /\ inq \in Seq(Symbol) /\ turn \in BOOLEAN
  /\ stream \in Streams /\ at \in 1 .. Len(stream) + 1 /\ off \in Nat
  /\ off > 0 => at <= Len(stream) /\ off < Len(stream[at].text)
  /\ IsSequence(answers) /\ cut \in BOOLEAN /\ piped \in BOOLEAN

\* What comes before request m, what has not been parsed yet, and how much has.
Offset ==
  LET offset[m \in 1 .. Len(stream) + 1] ==
        IF m = 1 THEN 0 ELSE offset[m - 1] + Len(stream[m - 1].text)
  IN offset

Unread   == http.buffer \o inq
Sent     == Offset[at] + off
Consumed == Sent - Len(Unread)
Current  == Len(answers) + 1

\* The buffer and the socket hold the end of what has been sent.
Contents ==
  \A m \in DOMAIN stream : \A j \in 1 .. Len(stream[m].text) :
    Consumed < Offset[m] + j /\ Offset[m] + j <= Sent =>
      Unread[Offset[m] + j - Consumed] = stream[m].text[j]

\* Between two requests a read starts at the next one, on the LF in front of it,
\* or on its second symbol.
AtLine ==
  http.processState = "URI" =>
    /\ http.lineState = "START" /\ http.headers = <<>>
    /\ Consumed - Offset[Current] \in {-1, 0, 1}
    /\ Consumed < Offset[Current] => Unread[1] = "LF"

\* In a block the buffer starts at the beginning of a line or on the LF in front
\* of it, which may be that of the last line.
AtBlock ==
  http.processState = "HEADER" =>
    LET r == stream[Current]
        p == Consumed - Offset[Current] + 1
    IN /\ Current <= Len(stream)
       /\ http.path = r.path /\ http.method = r.method
       /\ p \in r.line + 1 .. Len(r.text) - 2 /\ r.text[p] # "CR"
       /\ http.lineState = "START" => p = r.line + 1 /\ http.buffer = <<>>
       /\ http.lineState # "START" => http.buffer # <<>>
       /\ http.lineState = "LF" => r.text[p] = "LF"
       /\ http.lineState = "END_CR" => p = Len(r.text) - 2 /\ Len(http.buffer) = 2
       /\ http.lineState # "END_LF"
       /\ p = Len(r.text) - 2 => http.lineState \in {"LF", "END_CR"}
       /\ turn => inq # <<>>

\* What the parsers of an unfinished request may start with, whatever was sent.
Resumes ==
  ~http.hasError =>
    /\ http.processState = "URI" => http.lineState = "START"
    /\ http.processState = "HEADER" => http.lineState # "END_LF"

Placed ==
  /\ TypeOK
  /\ Contents
  /\ Len(http.buffer) <= http.held
  /\ Resumes
  /\ AnswersRight
  /\ AllFramed /\ ~http.hasError => AtLine /\ AtBlock

\* As long as requests came whole and one by one, each has been answered right,
\* and only a POST keeps the connection from going on.
Whole ==
  ~cut /\ ~piped /\ AllReadable =>
    /\ ~http.hasError
    /\ \A i \in DOMAIN answers :
         /\ answers[i] = [path |-> stream[i].path, headers |-> Headers(stream[i])]
         /\ stream[i].method = "GET"
    /\ http.processState = "URI" =>
         /\ Consumed = Offset[Current]
         /\ ~turn => at = Current /\ (off > 0 => off < stream[at].line)
    /\ http.processState = "HEADER" =>
         /\ http.lineState = "START" /\ http.headers = <<>>
         /\ ~turn => at = Current /\ off = stream[at].line
    /\ http.processState = "BODY" =>
         Current <= Arrived /\ stream[Current].method = "POST"

IInv == Placed /\ Whole

\* Http.cpp:76 says that the buffer is appended to because "the data of one
\* request may take several writes to be complete", and Http.h:32 that a parser
\* is called again after more has been read.  So fragments make no difference.
FragmentsAgree ==
  AtRest /\ ~piped /\ AllReadable => answers = Asked
=============================================================================
