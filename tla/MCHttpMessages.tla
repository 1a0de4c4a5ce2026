-------------------------- MODULE MCHttpMessages --------------------------
(***************************************************************************)
(* The streams that HttpParser is checked on, each with the callbacks that *)
(* a well-formed one should cause: a message is a record of its parts, and *)
(* both its characters and its callbacks are put together from the parts.  *)
(***************************************************************************)
EXTENDS Integers, Sequences, SequencesExt, HttpWords

CRLF == <<"CR", "LF">>

Hd(name, val) == [name |-> name, val |-> val]
Close == Hd(Word.connection, <<"c", "l">>)
Keep == Hd(<<"P", "r">>, <<"K", "a">>)
Up == Hd(Word.upgrade, <<"x">>)
ConnUp == Hd(Word.connection, <<"k", "a", ",", "SP", "u", "p">>)
Length(n) == Hd(Word.content_length, <<Nums[n + 1], "SP">>)
Chunks == Hd(Word.transfer_encoding, Word.chunked)
Other == Hd(<<"c", "o", "x">>, <<"c", "SP", "x">>)
NoValue == Hd(<<"u", "x">>, <<>>)

Ev(cb, data) == [cb |-> cb, data |-> data]

Each(Op(_), s) == FlattenSeq([i \in DOMAIN s |-> Op(s[i])])
Lines(hs) == Each(LAMBDA h : h.name \o <<":", "SP">> \o h.val \o CRLF, hs)
HdrEvents(hs) == Each(LAMBDA h : <<Ev("header_field", h.name), Ev("header_value", h.val)>>, hs)

----------------------------------------------------------------------------
(* Bodies: none, of a known length, up to the end, in chunks               *)

NoBody == [k |-> "none"]
LenBody == [k |-> "len", data |-> <<"a", "b">>]
EofBody == [k |-> "eof", data |-> <<"a", "b">>]
ChBody == [k |-> "chunked", data |-> <<<<"a", "b">>, <<"CR">>>>, ext |-> <<";", "x">>,
           trailer |-> <<Other>>]
ChBody2 == [k |-> "chunked", data |-> <<<<"a">>>>, ext |-> <<>>, trailer |-> <<>>]

BodyCells(b) ==
    CASE b.k = "none" -> <<>>
      [] b.k \in {"len", "eof"} -> b.data
      [] b.k = "chunked" ->
           Each(LAMBDA ck : <<Nums[Len(ck) + 1]>> \o b.ext \o CRLF \o ck \o CRLF, b.data)
           \o <<"0">> \o CRLF \o Lines(b.trailer) \o CRLF

BodyEvents(b) ==
    CASE b.k = "none" -> <<>>
      [] b.k \in {"len", "eof"} -> <<Ev("body", b.data)>>
      [] b.k = "chunked" ->
           Each(LAMBDA ck : <<Ev("chunk_header", [j \in DOMAIN ck |-> "size"]),
                              Ev("body", ck), Ev("chunk_complete", <<>>)>>, b.data)
           \o <<Ev("chunk_header", <<>>)>> \o HdrEvents(b.trailer)
           \o <<Ev("chunk_complete", <<>>)>>

----------------------------------------------------------------------------
(* Messages                                                                *)

Rq(m, u, v, hs, b) ==
    [type |-> "request", method |-> m, url |-> u, minor |-> v, hdrs |-> hs, body |-> b]
Rs(code, v, hs, b) ==
    [type |-> "response", method |-> "DELETE", code |-> code, url |-> <<"o">>, minor |-> v,
     hdrs |-> hs, body |-> b]
Get == Rq("GET", <<"/">>, "1", <<>>, NoBody)

Cells(m) ==
    (IF m.type = "request"
     THEN Method[m.method] \o <<"SP">> \o m.url \o <<"SP", "H", "T", "P", "/", "1", ".", m.minor>>
     ELSE <<"H", "T", "P", "/", "1", ".", m.minor, "SP">> \o m.code \o <<"SP">> \o m.url)
    \o CRLF \o Lines(m.hdrs) \o CRLF \o BodyCells(m.body)

Has(m, h) == \E i \in DOMAIN m.hdrs : m.hdrs[i] = h

KeepAlive(m) ==
    /\ IF m.minor = "1" THEN ~Has(m, Close) ELSE Has(m, Keep) \/ Has(m, ConnUp)
    /\ m.body.k # "eof"

Upgrade(m) ==
    \/ m.method = "CONNECT"
    \/ /\ Has(m, Up) /\ Has(m, ConnUp)
       /\ m.type = "request" \/ m.code = <<"1", "0", "1">>

Events(m) ==
    <<Ev("message_begin", <<>>), Ev(IF m.type = "request" THEN "url" ELSE "status", m.url)>>
    \o HdrEvents(m.hdrs)
    \o <<Ev("headers_complete", <<m.method, IF Upgrade(m) THEN "upgrade" ELSE "",
                                  IF KeepAlive(m) THEN "keep" ELSE "">>)>>
    \o BodyEvents(m.body) \o <<Ev("message_complete", <<>>)>>

\* The messages up to the one after which the connection is closed or no
\* longer speaks HTTP.
Heard(ms) ==
    LET last == {i \in DOMAIN ms : ~KeepAlive(ms[i]) \/ Upgrade(ms[i])}
    IN  IF last = {} THEN ms ELSE SubSeq(ms, 1, Min(last))

Raw(type, cells) ==
    [type |-> type, skip |-> 0, max |-> 80, cells |-> cells, msgs |-> <<>>, urls |-> {}, errno |-> "OK"]
\* A stream with a length that is too large.
Huge(type, cells) == [Raw(type, cells) EXCEPT !.errno = "INVALID_CONTENT_LENGTH"]
Script(ms) == [Raw(ms[1].type, Each(Cells, ms)) EXCEPT !.msgs = Each(Events, Heard(ms))]

----------------------------------------------------------------------------
(* URLs with the parts http_parser_parse_url should find in them, <<>> for *)
(* one it should refuse                                                    *)

After(mark, part) == IF part = <<>> THEN <<>> ELSE mark \o part

Url(ui, h, po, pa, q, f) ==
    [connect |-> FALSE,
     url |-> (IF h = <<>> THEN <<>> ELSE <<"h", ":", "/", "/">>)
             \o (IF ui = <<>> THEN <<>> ELSE ui \o <<"@">>)
             \o (IF h # <<>> /\ h[1] = "1" THEN <<"[">> \o h \o <<"]">> ELSE h)
             \o After(<<":">>, po) \o pa \o After(<<"?">>, q) \o After(<<"#">>, f),
     parts |-> IF po = Nums \/ (pa = <<>> /\ q = <<>> /\ f # <<>>) THEN <<>>
               ELSE <<IF h = <<>> THEN <<>> ELSE <<"h">>, ui, h, po, pa, q, f>>]

Urls ==
    {Url(ui, h, po, pa, q, f) :
        ui \in {<<>>, <<"a", ":", "b">>},
        h \in {<<"a", ".", "1">>, <<"1", ":", ":", "%", "a">>},
        po \in {<<>>, <<"8", "0">>, Nums}, pa \in {<<>>, <<"/", "a">>},
        q \in {<<>>, <<"?", "a">>}, f \in {<<>>, <<"a", "#", "?">>}}
    \cup {Url(<<>>, <<>>, <<>>, <<"/">>, <<>>, <<>>),
          [connect |-> TRUE, url |-> <<"a", ":", "8">>,
           parts |-> <<<<>>, <<>>, <<"a">>, <<"8">>, <<>>, <<>>, <<>>>>],
          [connect |-> TRUE, url |-> <<"a">>, parts |-> <<>>],
          [connect |-> FALSE, url |-> <<"h", ":", "/", "/", "/">>, parts |-> <<>>],
          [connect |-> FALSE, url |-> <<"h", ":", "/", "/", "a", "@", "@">>, parts |-> <<>>]}

----------------------------------------------------------------------------
\* Two messages on a connection, each kind of body, answers of
\* on_headers_complete that skip it, both limits, and refused streams.
Line(cells) == <<"G", "E", "SP", "/", "LF">> \o cells
Eight == [i \in 1 .. 8 |-> "x"]
OK == <<"2", "0", "0">>
Empty == <<"2", "0", "4">>

WellFormed ==
    {Script(<<Rq("POST", <<"*">>, "1", <<Length(2), NoValue>>, LenBody), Get>>),
     Script(<<Rq("GET", <<"/", "?", "x", "#", "x">>, "0", <<>>, NoBody), Get>>),
     Script(<<Rq("PUT", <<"h", ":", "/", "/", "a", "@", "a", "/">>, "1", <<Chunks>>, ChBody)>>),
     Script(<<Rs(OK, "1", <<Chunks, Close>>, ChBody2), Rs(Empty, "1", <<>>, NoBody)>>),
     Script(<<Rs(OK, "0", <<Keep, Length(2)>>, LenBody), Rs(OK, "1", <<Other>>, EofBody)>>),
     Script(<<Rs(<<"1", "0", "1">>, "1", <<Up, ConnUp>>, NoBody)>>),
     Script(<<Rq("CONNECT", <<"a", ":", "1">>, "1", <<>>, NoBody), Get>>),
     Script(<<Rq("PURGE", <<"/">>, "1", <<ConnUp, Up, Length(2)>>, LenBody)>>),
     [Script(<<Rs(OK, "1", <<Length(2)>>, NoBody), Rs(Empty, "1", <<>>, NoBody)>>) EXCEPT !.skip = 1],
     [Script(<<Rq("COPY", <<"/">>, "1", <<>>, NoBody), Get>>)
         EXCEPT !.skip = 2, !.msgs = Events(Rq("COPY", <<"/">>, "1", <<>>, NoBody))],
     [Script(<<Rq("HEAD", <<"/">>, "1", <<>>, NoBody)>>) EXCEPT !.type = "both", !.urls = Urls],
     [Script(<<Rs(<<"3", "0", "4">>, "1", <<>>, NoBody)>>) EXCEPT !.type = "both"]}

Refused ==
    {Raw("request", <<"LF", "S", "O", "SP", "/", "SP", "I", "C", "/", "1", ".", "0", "LF",
                      "c", "o", "n", "e", ":", "c", "l", "LF", "SP", "x", "CR", "LF", "LF", "H">>),
     Raw("request", Line(<<"c", "o", "t", "e", ":", "CR", "LF", "SP", "3", "2", "LF", "SP", "1", "LF">>)),
     Huge("request", Line(<<"c", "o", "t", "e", ":", "9", "9", "9", "LF">>)),
     Raw("request", Line(<<"c", "o", "t", "e", ":", "CR", "LF", "LF">>)),
     Raw("both", Cells(Rq("CHECKOUT", <<"/">>, "1", <<Length(2), Length(2)>>, LenBody))),
     Raw("request", Cells(Rq("SUBSCRIBE", <<"/">>, "1", <<Length(2), Chunks>>, LenBody))),
     [Raw("request", Line(Eight \o <<":", "SP", "x", "CR", "LF", "CR", "LF">>)) EXCEPT !.max = 11],
     [Raw("request", Line(<<"x", ":">> \o Eight \o <<"CR", "LF", "CR", "LF">>)) EXCEPT !.max = 11],
     Huge("response", <<"H", "T", "P", "/", "1", ".", "1", "SP", "SP", "2", "0", "0", "LF", "t", "e",
                       ":", "c", "h", "SP", "LF", "LF", "1", "f", "0", "f", "CR", "LF">>)}

Scripts == WellFormed \cup Refused
============================================================================
