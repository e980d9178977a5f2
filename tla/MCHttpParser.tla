---------------------------- MODULE MCHttpParser ----------------------------
(***************************************************************************)
(* Instances of HttpParser for TLC: what the client sends.  The requests   *)
(* of a stream ask for different pages.                                    *)
(***************************************************************************)
EXTENDS HttpParser, SequencesExt

RequestText(method, page) ==
  <<method, "SP", "/">> \o page \o <<"SP", "HTTP", "/", "1.1", "CR", "LF">>

HeaderText(key, value) == key \o <<":", "SP">> \o value \o <<"CR", "LF">>

\* A request line, and the beginning of the header block up to the first "r",
\* which is in the name of the second header a browser sends.
Opening(method, page) ==
  RequestText(method, page) \o HeaderText(<<"Host">>, <<"localhost">>) \o <<"Use", "r">>

Block(lines) ==
  FlattenSeq([i \in DOMAIN lines |-> HeaderText(lines[i].key, lines[i].value)]) \o <<"CR", "LF">>

\* Where the header lines are that follow a request line that ends at from.
Places(from, lines) ==
  LET first[i \in DOMAIN lines] ==
        IF i = 1 THEN from + 1
        ELSE first[i - 1] + Len(lines[i - 1].key) + Len(lines[i - 1].value) + 4
  IN [i \in DOMAIN lines |->
        [ first |-> first[i],
          colon |-> first[i] + Len(lines[i].key),
          end   |-> first[i] + Len(lines[i].key) + 2 + Len(lines[i].value) ]]

Request(method, page, lines) ==
  LET opening == Opening(method, page)
  IN [ text |-> opening \o Block(lines), method |-> method, path |-> page,
       line |-> Len(opening), lines |-> Places(Len(opening), lines) ]

HeaderLines ==
  [ key : {<<"-Agent">>, <<"x", "y">>}, value : {<<"v">>, <<"v", ":", "SP", "r">>} ]

\* A value longer than the parser takes, when MaxValue is 3.
TooLong == [key |-> <<"x">>, value |-> <<"v", "v", "v", "v", "v">>]
Short   == [key |-> <<"x", "y">>, value |-> <<"v">>]

Get(page, lines) == Request("GET", page, lines)

\* One request of one or two header lines, two or three short ones, or a POST
\* between two GETs.
Regular ==
  {<<Get(<<"a">>, lines)>> : lines \in SeqOf(HeaderLines \cup {TooLong}, 2) \ {<<>>}}
    \cup {<<Get(<<"a">>, <<l>>), Get(<<"b">>, <<m>>)>> : l \in HeaderLines, m \in HeaderLines}
    \cup {<<Get(<<"a">>, <<Short>>), Request("POST", <<"b">>, <<Short>>), Get(<<"c">>, <<Short>>)>>}

\* Requests without a header of the kind: no "r" at all, the first one in the
\* url, in the value of a header, or at the end of the last line.
FirstR(text) == Find(text, "r", 1)
Irregular(method, page, host) ==
  LET text == RequestText(method, page) \o HeaderText(<<"Host">>, host) \o <<"CR", "LF">>
  IN [ text |-> text, method |-> method, path |-> page, line |-> FirstR(text), lines |-> <<>> ]

NoR(method, page) == Irregular(method, page, <<"localhost">>)
InUrl(page)       == Irregular("GET", <<"r">> \o page, <<"localhost">>)
InValue(page)     == Irregular("GET", page, <<"r", "est">>)
AtLineEnd(page)   == Irregular("GET", page, <<"serve", "r">>)

Kinds(page) ==
  {NoR("GET", page), NoR("POST", page), InUrl(page), InValue(page), AtLineEnd(page),
   Get(page, <<Short>>)}

\* Two of any kind in front of a regular one.
Mixed == {<<a, b, Get(<<"c">>, <<Short>>)>> : a \in Kinds(<<"a">>), b \in Kinds(<<"b">>)}

Typical == Regular \cup Mixed
=============================================================================
