----------------------------- MODULE HttpParser -----------------------------
(***************************************************************************)
(* http/src/http_parser.c in its strict build: http_parser_execute reads a *)
(* stream of requests or responses in pieces of any size and reports what  *)
(* it finds through callbacks, in which the application may pause it.      *)
(*                                                                         *)
(* A cell is a character.  The words the parser knows (methods, "HTTP",    *)
(* header names, "chunked" ...) are shortened to the letters that tell     *)
(* them apart, at least two, so that a piece can still end within a word.  *)
(* The state of a call is a record: the fields of struct http_parser, the  *)
(* local variables of the call, and the log of the callbacks so far, where *)
(* adjacent pieces of the same element are joined.                         *)
(***************************************************************************)
EXTENDS Integers, Sequences, SequencesExt, HttpWords

CONSTANTS
    Scripts,    \* [type, cells, skip, max, msgs, urls, errno]: what a peer may send
    LenMax,     \* ULLONG_MAX, which also stands for "no Content-Length"
    PauseMax    \* a call pauses at its first PauseMax callbacks or never

VARIABLES
    script,     \* the stream (type, cells), what on_headers_complete answers
                \* (skip), and the limit that the application set (max)
    parser,     \* the parser between two calls
    eof         \* http_parser_execute was called with length 0

vars == <<script, parser, eof>>

Kinds == {"header_field", "header_value", "url", "body", "status"}

\* Character classes, over the characters of the instances.
HexDigits == Nums \o <<"a", "b", "c", "d", "e", "f">>
Uppers == <<"C", "E", "G", "H", "I", "K", "N", "O", "P", "R", "S", "T", "U">>
Lowers == <<"c", "e", "g", "h", "i", "k", "n", "o", "p", "r", "s", "t", "u">>
IsNum(c) == c \in ToSet(Nums)
IsUpper(c) == c \in ToSet(Uppers)
IsAlpha(c) == IsUpper(c) \/ c \in ToSet(Lowers) \cup {"a", "b", "d", "f", "l", "x"}
Lower(c) == IF IsUpper(c) THEN Lowers[CHOOSE i \in DOMAIN Uppers : Uppers[i] = c] ELSE c
Val(c) == (CHOOSE i \in DOMAIN HexDigits : HexDigits[i] = c) - 1
Token(c) == IsAlpha(c) \/ IsNum(c) \/ c \in {"-", ".", "*", "#", "%"}
IsUserinfo(c) == IsAlpha(c) \/ IsNum(c) \/ c \in {"-", ".", "*", "%", ";", ":", ","}
IsUrlChar(c) == c \notin {"SP", "CR", "LF", "?", "#", "CTL"}
IsHostChar(c) == IsAlpha(c) \/ IsNum(c) \/ c \in {".", "-"}
IsHeaderChar(c) == c # "CTL"

----------------------------------------------------------------------------
(* Callbacks, marks, the count of header bytes, errors                     *)

Fail(s, e) == [s EXCEPT !.errno = e, !.ret = s.p - 1]
Go(s, st) == [s EXCEPT !.state = st]
Again(s) == [s EXCEPT !.again = TRUE]
Check(s, cond, e) == IF cond THEN Fail(s, e) ELSE s
Asserted(s, cond) == IF cond THEN s ELSE Fail(s, "ASSERT")

Joined(log, ev) ==
    IF log # <<>> /\ ev.cb \in Kinds /\ Last(log).cb = ev.cb
    THEN [log EXCEPT ![Len(log)].data = @ \o ev.data]
    ELSE Append(log, ev)

\* CALLBACK_NOTIFY_: the application hears of it and may pause the parser,
\* which makes the call return with er characters consumed.  Only
\* on_headers_complete saves the count of header characters in that case, the
\* others leave the parser with the count it had before the call.
Notify(s, cb, data, er) ==
    LET t == [s EXCEPT !.log = Joined(@, [cb |-> cb, data |-> data]),
                       !.pause = IF @ = 0 THEN 0 ELSE @ - 1]
    IN  IF s.pause # 1 THEN t
        ELSE [t EXCEPT !.errno = "PAUSED", !.ret = er, !.held = TRUE,
                       !.nread = IF cb = "headers_complete" THEN @ ELSE s.nread0]

\* CALLBACK_DATA_: what is between the mark and the last character.
CallbackData(s, k, last, er) ==
    IF s.mark[k] = 0 THEN s
    ELSE Notify([s EXCEPT !.mark[k] = 0], k, SubSeq(s.cells, s.mark[k], last), er)
Mark(s, k) == IF s.mark[k] = 0 THEN [s EXCEPT !.mark[k] = s.p] ELSE s

\* COUNT_HEADER_SIZE.
Count(s, n) ==
    LET t == [s EXCEPT !.nread = @ + n] IN Check(t, t.nread > s.max, "HEADER_OVERFLOW")
\* The loops of s_header_field and s_header_value count the characters after
\* their first one when they end; run is their number, -1 outside of a loop.
EndRun(s) == Count([s EXCEPT !.run = -1], IF s.run = -1 THEN 0 ELSE s.run)

----------------------------------------------------------------------------
(* URLs                                                                    *)

\* parse_url_char.
UrlServer(c) == CASE c = "/" -> "path" [] c = "?" -> "query_start"
                  [] c = "@" -> "server_with_at"
                  [] IsUserinfo(c) \/ c \in {"[", "]"} -> "server"
                  [] OTHER -> "dead"
ParseUrlChar(st, c) ==
    IF c \in {"SP", "CR", "LF"} THEN "dead"
    ELSE CASE st = "spaces_before_url" /\ c \in {"/", "*"} -> "path"
           [] st \in {"spaces_before_url", "schema"} /\ IsAlpha(c) -> "schema"
           [] st = "schema" /\ c = ":" -> "schema_slash"
           [] st = "schema_slash" /\ c = "/" -> "schema_slash_slash"
           [] st = "schema_slash_slash" /\ c = "/" -> "server_start"
           [] st = "server_with_at" /\ c # "@" -> UrlServer(c)
           [] st \in {"server_start", "server"} -> UrlServer(c)
           [] st = "path" /\ IsUrlChar(c) -> "path"
           [] st = "path" /\ c = "?" -> "query_start"
           [] st \in {"path", "query_start", "query"} /\ c = "#" -> "fragment_start"
           [] st \in {"query_start", "query"} /\ (IsUrlChar(c) \/ c = "?") -> "query"
           [] st = "fragment_start" /\ c = "#" -> "fragment_start"
           [] st = "fragment_start" /\ (IsUrlChar(c) \/ c = "?") -> "fragment"
           [] st = "fragment" /\ (IsUrlChar(c) \/ c \in {"?", "#"}) -> "fragment"
           [] OTHER -> "dead"

\* http_parse_host_char.
ParseHostChar(st, c) ==
    CASE st \in {"userinfo", "userinfo_start"} /\ c = "@" -> "host_start"
      [] st \in {"userinfo", "userinfo_start"} /\ IsUserinfo(c) -> "userinfo"
      [] st = "host_start" /\ c = "[" -> "v6_start"
      [] st \in {"host_start", "host"} /\ IsHostChar(c) -> "host"
      [] st \in {"host", "v6_end"} /\ c = ":" -> "port_start"
      [] st \in {"v6", "v6_zone"} /\ c = "]" -> "v6_end"
      [] st \in {"v6", "v6_start"} /\ (c \in ToSet(HexDigits) \cup {":", "."}) -> "v6"
      [] st = "v6" /\ c = "%" -> "v6_zone_start"
      [] st \in {"v6_zone", "v6_zone_start"} /\ (IsHostChar(c) \/ c = "%") -> "v6_zone"
      [] st \in {"port", "port_start"} /\ IsNum(c) -> "port"
      [] OTHER -> "dead"

\* The states an automaton is in after each character of u.
Trace(step(_, _), st, u) ==
    LET f[i \in 0..Len(u)] == IF i = 0 THEN st ELSE step(f[i-1], u[i]) IN f
\* The characters at which it is in one of some states, when they are
\* adjacent (a field is an offset and a length).
Field(tr, u, states) ==
    LET at == {i \in DOMAIN u : tr[i] \in states}
    IN  IF at = {} THEN <<>> ELSE SubSeq(u, Min(at), Min(at) + Cardinality(at) - 1)

\* http_parse_host.
ParseHost(h, at) ==
    LET tr == Trace(ParseHostChar, IF at THEN "userinfo_start" ELSE "host_start", h)
    IN  IF tr[Len(h)] \notin {"host", "v6_end", "port"} THEN <<>>
        ELSE <<Field(tr, h, {"userinfo"}),
               Field(tr, h, {"host", "v6", "v6_zone_start", "v6_zone"}),
               Field(tr, h, {"port"})>>

\* http_parser_parse_url: <<>> for a URL that is refused, else its fields.
ParseUrl(u, is_connect) ==
    LET tr == Trace(ParseUrlChar, IF is_connect THEN "server_start" ELSE "spaces_before_url", u)
        schema == Field(tr, u, {"schema"})
        server == Field(tr, u, {"server", "server_with_at"})
        host == IF server = <<>> THEN <<<<>>, <<>>, <<>>>>
                ELSE ParseHost(server, \E i \in DOMAIN u : tr[i] = "server_with_at")
        rest == <<Field(tr, u, {"path"}), Field(tr, u, {"query"}), Field(tr, u, {"fragment"})>>
        port[i \in 0..Len(host[3])] == IF i = 0 THEN 0 ELSE port[i-1] * 10 + Val(host[3][i])
    IN  IF \/ u = <<>> \/ tr[Len(u)] = "dead" \/ host = <<>>
           \/ \E i \in DOMAIN host[3] : port[i] > 65535
           \/ schema # <<>> /\ server = <<>>
           \/ is_connect /\ (host[1] # <<>> \/ host[2] = <<>> \/ host[3] = <<>>
                             \/ schema # <<>> \/ rest # <<<<>>, <<>>, <<>>>>)
        THEN <<>> ELSE <<schema>> \o host \o rest

UrlInner == {"schema", "schema_slash", "schema_slash_slash", "server_start"}
UrlOuter == {"server", "server_with_at", "path", "query_start", "query",
             "fragment_start", "fragment"}

----------------------------------------------------------------------------
(* The request line and the status line                                    *)

\* http_message_needs_eof and http_should_keep_alive.
NeedsEof(s) == /\ s.type = "response"
               /\ s.code \div 100 # 1 /\ s.code \notin {204, 304}
               /\ s.flags \cap {"SKIPBODY", "CHUNKED"} = {} /\ s.content_length = LenMax
ShouldKeepAlive(s) ==
    /\ IF s.ver[1] > 0 /\ s.ver[2] > 0 THEN "CLOSE" \notin s.flags ELSE "KEEP_ALIVE" \in s.flags
    /\ ~NeedsEof(s)
NewMessage(s) == Go(s, IF ~ShouldKeepAlive(s) THEN "dead"
                       ELSE IF s.type = "request" THEN "start_req" ELSE "start_res")

Fresh(s) == [s EXCEPT !.flags = {}, !.content_length = LenMax]

Start(s, c) ==
    CASE c \in {"CR", "LF"} -> s
      [] s.state = "dead" /\ c \notin {"CR", "LF"} -> Fail(s, "CLOSED_CONNECTION")
      [] s.state = "start_req_or_res" /\ c = "H" ->
            Notify(Go(Fresh(s), "res_or_resp_H"), "message_begin", <<>>, s.p)
      [] s.state = "start_req_or_res" /\ c \notin {"CR", "LF", "H"} ->
            Again(Go([Fresh(s) EXCEPT !.type = "request"], "start_req"))
      [] s.state = "start_res" /\ c = "H" ->
            Notify(Go(Fresh(s), "res_H"), "message_begin", <<>>, s.p)
      [] s.state = "start_res" /\ c \notin {"CR", "LF", "H"} -> Fail(s, "INVALID_CONSTANT")

ResOrRespH(s, c) ==
    CASE c = "T" -> Go([s EXCEPT !.type = "response"], "res_HT")
      [] c = "E" -> Go([s EXCEPT !.type = "request", !.method = "HEAD", !.index = 2], "req_method")
      [] OTHER -> Fail(s, "INVALID_CONSTANT")

StartReq(s, c) ==
    IF c \in {"CR", "LF"} THEN s
    ELSE IF c \notin DOMAIN FirstMethod THEN Fail(s, "INVALID_METHOD")
    ELSE Notify(Go([Fresh(s) EXCEPT !.method = FirstMethod[c], !.index = 1], "req_method"),
                "message_begin", <<>>, s.p)

ReqMethod(s, c) ==
    LET m == Method[s.method]
        sw == {x \in Switch : x[1] = s.method /\ x[2] = s.index /\ x[3] = c}
        t == [s EXCEPT !.index = @ + 1]
    IN  CASE c = "SP" /\ s.index = Len(m) -> Go(t, "spaces_before_url")
          [] s.index < Len(m) /\ c = m[s.index + 1] -> t
          [] OTHER -> IF sw = {} THEN Fail(s, "INVALID_METHOD")
                      ELSE [t EXCEPT !.method = (CHOOSE x \in sw : TRUE)[4]]

UrlStep(s, st, c) == LET n == ParseUrlChar(st, c)
                     IN  IF n = "dead" THEN Fail(Go(s, "dead"), "INVALID_URL") ELSE Go(s, n)

Url(s, c) ==
    IF s.state = "spaces_before_url"
    THEN IF c = "SP" THEN s
         ELSE UrlStep(Mark(s, "url"), IF s.method = "CONNECT" THEN "server_start" ELSE s.state, c)
    ELSE IF s.state \in UrlInner
    THEN IF c \in {"SP", "CR", "LF"} THEN Fail(s, "INVALID_URL") ELSE UrlStep(s, s.state, c)
    ELSE CASE c = "SP" -> CallbackData(Go(s, "req_http_start"), "url", s.p - 1, s.p)
           [] c \in {"CR", "LF"} ->
                 CallbackData(Go([s EXCEPT !.ver = <<0, 9>>],
                                 IF c = "CR" THEN "req_line_almost_done" ELSE "header_field_start"),
                              "url", s.p - 1, s.p)
           [] OTHER -> UrlStep(s, s.state, c)

\* "HTTP/" (and "ICE/" after SOURCE), a digit, a dot, a digit.
Expect == [res_H |-> <<"T", "res_HT", "STRICT">>, res_HT |-> <<"P", "res_HTTP", "STRICT">>,
           res_HTTP |-> <<"/", "res_http_major", "STRICT">>,
           res_http_dot |-> <<".", "res_http_minor", "INVALID_VERSION">>,
           res_http_end |-> <<"SP", "res_first_status_code", "INVALID_VERSION">>,
           req_http_H |-> <<"T", "req_http_HT", "STRICT">>,
           req_http_HT |-> <<"P", "req_http_HTTP", "STRICT">>,
           req_http_I |-> <<"C", "req_http_HTTP", "STRICT">>,
           req_http_HTTP |-> <<"/", "req_http_major", "STRICT">>,
           req_http_dot |-> <<".", "req_http_minor", "INVALID_VERSION">>,
           req_line_almost_done |-> <<"LF", "header_field_start", "LF_EXPECTED">>,
           res_line_almost_done |-> <<"LF", "header_field_start", "STRICT">>,
           header_almost_done |-> <<"LF", "header_value_lws", "LF_EXPECTED">>,
           header_value_discard_ws_almost_done |-> <<"LF", "header_value_discard_lws", "STRICT">>]
Literal(s, c) == IF c = Expect[s.state][1] THEN Go(s, Expect[s.state][2])
                 ELSE Fail(s, Expect[s.state][3])

Digit(s, c, i, next) == IF IsNum(c) THEN Go([s EXCEPT !.ver[i] = Val(c)], next)
                        ELSE Fail(s, "INVALID_VERSION")
HttpStart(s, c) ==
    CASE c = "SP" -> s
      [] c = "H" -> Go(s, "req_http_H")
      [] c = "I" /\ s.method = "SOURCE" -> Go(s, "req_http_I")
      [] OTHER -> Fail(s, "INVALID_CONSTANT")
HttpEnd(s, c) == CASE c = "CR" -> Go(s, "req_line_almost_done")
                   [] c = "LF" -> Go(s, "header_field_start")
                   [] OTHER -> Fail(s, "INVALID_VERSION")

FirstStatusCode(s, c) == IF IsNum(c) THEN Go([s EXCEPT !.code = Val(c)], "res_status_code")
                         ELSE IF c = "SP" THEN s ELSE Fail(s, "INVALID_STATUS")
StatusCode(s, c) ==
    LET t == [s EXCEPT !.code = @ * 10 + Val(c)] IN
    CASE IsNum(c) -> Check(t, t.code > 999, "INVALID_STATUS")
      [] c = "SP" -> Go(s, "res_status_start")
      [] c \in {"CR", "LF"} -> Again(Go(s, "res_status_start"))
      [] OTHER -> Fail(s, "INVALID_STATUS")
StatusStart(s, c) == LET t == Go([Mark(s, "status") EXCEPT !.index = 0], "res_status")
                     IN  IF c \in {"CR", "LF"} THEN Again(t) ELSE t
Status(s, c) ==
    IF c \notin {"CR", "LF"} THEN s
    ELSE CallbackData(Go(s, IF c = "CR" THEN "res_line_almost_done" ELSE "header_field_start"),
                      "status", s.p - 1, s.p)

----------------------------------------------------------------------------
(* Headers                                                                 *)

Hs(s, h) == [s EXCEPT !.header_state = h]
Matching(w) == <<"matching", w>>
State(h) == <<h, "">>

\* The letters of the words are compared one by one with parser->index; after
\* the last one the state is done, and miss as soon as one differs.
MatchWord(s, c, done, miss) ==
    LET w == Word[s.header_state[2]]
        i == s.index + 1
        t == [s EXCEPT !.index = i]
    IN  IF i >= Len(w) \/ c # w[i + 1] THEN Hs(t, miss)
        ELSE IF i = Len(w) - 1 THEN Hs(t, done) ELSE t

FieldStart(s, c) ==
    CASE c = "CR" -> Go(s, "headers_almost_done")
      [] c = "LF" -> Again(Go(s, "headers_almost_done"))
      [] c \notin {"CR", "LF"} /\ ~Token(c) -> Fail(s, "INVALID_HEADER_TOKEN")
      [] Token(c) ->
            LET l == Lower(c) IN
            Go(Hs([Mark(s, "header_field") EXCEPT !.index = 0],
                  CASE l = "c" -> State("C") [] l = "p" -> Matching("proxy_connection")
                    [] l = "t" -> Matching("transfer_encoding")
                    [] l = "u" -> Matching("upgrade") [] OTHER -> State("general")),
               "header_field")

\* The matching of a header name.  After it, any further letter spoils it.
MatchField(s, c) ==
    LET h == s.header_state
        l == Lower(c)
        t == [s EXCEPT !.index = @ + 1]
        name == IF h[2] = "proxy_connection" THEN "connection" ELSE h[2]
    IN  CASE h[1] = "C" -> Hs(t, IF l = "o" THEN State("CON") ELSE State("general"))
          [] h[1] = "CON" -> Hs(t, CASE l = "n" -> Matching("connection")
                                     [] l = "t" -> Matching("content_length")
                                     [] OTHER -> State("general"))
          [] h[1] = "matching" -> MatchWord(s, l, State(name), State("general"))
          [] OTHER -> Hs(s, State("general"))

HeaderField(s, c) ==
    LET r == [s EXCEPT !.run = @ + 1] IN
    IF Token(c) THEN MatchField(r, c)
    ELSE LET t == EndRun(r) IN
         IF t.errno # "OK" THEN t
         ELSE IF c = ":"
         THEN CallbackData(Go(t, "header_value_discard_ws"), "header_field", s.p - 1, s.p)
         ELSE Fail(t, "INVALID_HEADER_TOKEN")

ValueStart(s, c) ==
    LET t == Go([Mark(s, "header_value") EXCEPT !.index = 0], "header_value")
        h == s.header_state[1]
        l == Lower(c)
    IN  CASE h = "upgrade" -> Hs([t EXCEPT !.flags = @ \cup {"UPGRADE"}], State("general"))
          [] h = "transfer_encoding" ->
                Hs(t, IF l = "c" THEN Matching("chunked") ELSE State("general"))
          [] h = "content_length" ->
                IF ~IsNum(c) THEN Fail(t, "INVALID_CONTENT_LENGTH")
                ELSE IF "CONTENTLENGTH" \in s.flags THEN Fail(t, "UNEXPECTED_CONTENT_LENGTH")
                ELSE Hs([t EXCEPT !.flags = @ \cup {"CONTENTLENGTH"}, !.content_length = Val(c)],
                        State("content_length_num"))
          [] h \in {"content_length_ws", "connection_token_start"} -> t
          [] h = "connection" ->
                Hs(t, CASE l = "k" -> Matching("keep_alive") [] l = "c" -> Matching("close")
                        [] l = "u" -> Matching("upgrade") [] OTHER -> State("connection_token"))
          [] OTHER -> Hs(t, State("general"))

ValueDiscardWs(s, c) ==
    CASE c = "SP" -> s
      [] c = "CR" -> Go(s, "header_value_discard_ws_almost_done")
      [] c = "LF" -> Go(s, "header_value_discard_lws")
      [] OTHER -> ValueStart(s, c)

\* The flag that a Connection or Transfer-Encoding value sets when it ends.
FlagOf == [keep_alive |-> "KEEP_ALIVE", close |-> "CLOSE", upgrade |-> "CONNECTION_UPGRADE",
           chunked |-> "CHUNKED"]
Flagged(s) == IF s.header_state[1] = "value"
              THEN [s EXCEPT !.flags = @ \cup {FlagOf[s.header_state[2]]}] ELSE s

\* One more digit of Content-Length, with the width of the counter.
LengthDigit(s, c, base, e) ==
    IF (LenMax - base) \div base < s.content_length THEN Fail(s, e)
    ELSE [s EXCEPT !.content_length = (@ * base + Val(c)) % (LenMax + 1)]

MatchValue(s, c) ==
    LET h == s.header_state
        l == Lower(c)
        token == IF h[2] = "chunked" THEN State("general") ELSE State("connection_token")
    IN  CASE h[1] = "content_length_num" ->
                IF c = "SP" THEN Hs(s, State("content_length_ws"))
                ELSE IF ~IsNum(c) THEN Fail(s, "INVALID_CONTENT_LENGTH")
                ELSE LengthDigit(s, c, 10, "INVALID_CONTENT_LENGTH")
          [] h[1] = "content_length_ws" ->
                IF c = "SP" THEN s ELSE Fail(s, "INVALID_CONTENT_LENGTH")
          [] h[1] = "matching" -> MatchWord(s, l, <<"value", h[2]>>, token)
          [] h[1] = "connection_token_start" ->
                Hs(s, CASE l = "k" -> Matching("keep_alive") [] l = "c" -> Matching("close")
                        [] l = "u" -> Matching("upgrade") [] l = "SP" -> h
                        [] OTHER -> IF Token(l) THEN State("connection_token")
                                    ELSE State("general"))
          [] h[1] = "connection_token" ->
                IF c = "," THEN Hs([s EXCEPT !.index = 0], State("connection_token_start")) ELSE s
          [] h[1] = "value" ->
                IF c = "SP" THEN s
                ELSE IF c = "," /\ h[2] # "chunked"
                THEN Hs([Flagged(s) EXCEPT !.index = 0], State("connection_token_start"))
                ELSE Hs(s, token)
          [] OTHER -> Hs(s, State("general"))

HeaderValue(s, c) ==
    LET r == [s EXCEPT !.run = @ + 1] IN
    CASE c = "CR" ->
            LET t == CallbackData(Go(r, "header_almost_done"), "header_value", s.p - 1, s.p)
            IN  IF t.errno # "OK" THEN t ELSE EndRun(t)
      [] c = "LF" ->
            LET t == EndRun(Go(r, "header_almost_done"))
            IN  IF t.errno # "OK" THEN t
                ELSE Again(CallbackData(t, "header_value", s.p - 1, s.p - 1))
      [] c \notin {"CR", "LF"} ->
            IF IsHeaderChar(c) THEN MatchValue(r, c) ELSE Fail(r, "INVALID_HEADER_TOKEN")

\* A line that starts with a blank continues the value.
ValueLws(s, c) ==
    IF c = "SP"
    THEN Again(Go(IF s.header_state[1] = "content_length_num"
                  THEN Hs(s, State("content_length_ws")) ELSE s, "header_value_start"))
    ELSE Again(Go(Flagged(s), "header_field_start"))

ValueDiscardLws(s, c) ==
    IF c = "SP" THEN Go(s, "header_value_discard_ws")
    ELSE IF s.header_state[1] = "content_length" THEN Fail(s, "INVALID_CONTENT_LENGTH")
    ELSE Again(CallbackData(Go(Mark(Flagged(s), "header_value"), "header_field_start"),
                            "header_value", s.p - 1, s.p - 1))

\* The end of the headers, or of the trailer of a chunked message.
HeadersAlmostDone(s, c) ==
    LET up == IF {"UPGRADE", "CONNECTION_UPGRADE"} \subseteq s.flags
              THEN s.type = "request" \/ s.code = 101 ELSE s.method = "CONNECT"
        seen == [s EXCEPT !.upgrade = up, !.state = "headers_done"]
        info == <<s.method, IF up THEN "upgrade" ELSE "", IF ShouldKeepAlive(s) THEN "keep" ELSE "">>
        t == [Notify(seen, "headers_complete", info, s.p - 1) EXCEPT
                 !.upgrade = up \/ s.skip = 2,
                 !.flags = IF s.skip > 0 THEN @ \cup {"SKIPBODY"} ELSE @]
    IN  CASE c # "LF" -> Fail(s, "STRICT")
          [] c = "LF" /\ "TRAILING" \in s.flags ->
                Again(Notify(Go(s, "message_done"), "chunk_complete", <<>>, s.p - 1))
          [] c = "LF" /\ "TRAILING" \notin s.flags ->
                IF {"CHUNKED", "CONTENTLENGTH"} \subseteq s.flags
                THEN Fail(s, "UNEXPECTED_CONTENT_LENGTH") ELSE Again(t)

Complete(s) == Notify(NewMessage(s), "message_complete", <<>>, s.p)
\* RETURN: the rest of the stream is another protocol's.
Leave(s) == IF s.errno = "OK" THEN [s EXCEPT !.ret = s.p] ELSE s

HeadersDoneNoEof(s, c) ==                                        \* mutant
    LET t == [s EXCEPT !.nread = 0, !.nread0 = 0]
    IN  CASE c # "LF" -> Fail(s, "STRICT")
          [] c = "LF" /\ s.upgrade -> Leave(Complete(t))
          [] OTHER -> CASE "CHUNKED" \in s.flags -> Go(t, "chunk_size_start")
                        [] s.content_length \in {0, LenMax} -> Complete(t)
                        [] OTHER -> Go(t, "body_identity")
HeadersDone(s, c) ==
    LET hasBody == "CHUNKED" \in s.flags \/ s.content_length \notin {0, LenMax}
        t == [s EXCEPT !.nread = 0, !.nread0 = 0]
    IN  CASE c # "LF" -> Fail(s, "STRICT")
          [] c = "LF" /\ s.upgrade /\ (s.method = "CONNECT" \/ "SKIPBODY" \in s.flags \/ ~hasBody) ->
                Leave(Complete(t))
          [] OTHER ->
                CASE "SKIPBODY" \in s.flags -> Complete(t)
                  [] "SKIPBODY" \notin s.flags /\ "CHUNKED" \in s.flags -> Go(t, "chunk_size_start")
                  [] OTHER ->
                        CASE s.content_length = 0 -> Complete(t)
                          [] s.content_length \notin {0, LenMax} -> Go(t, "body_identity")
                          [] s.content_length = LenMax ->
                                IF NeedsEof(s) THEN Go(t, "body_identity_eof") ELSE Complete(t)

----------------------------------------------------------------------------
(* Bodies                                                                  *)

\* Up to content_length characters of the piece at once; p is moved to the
\* last of them.
Taken(s) == LET n == Min({s.content_length, s.end - s.p + 1})
            IN  [Mark(s, "body") EXCEPT !.content_length = @ - n, !.p = @ + n - 1]
Lengthy(s) == s.content_length \notin {0, LenMax}

BodyIdentity(s) ==
    LET t == Taken(s) IN
    IF t.content_length > 0 THEN Asserted(t, Lengthy(s))
    ELSE Again(CallbackData(Go(Asserted(t, Lengthy(s)), "message_done"), "body", t.p, t.p - 1))
BodyIdentityEof(s) == [Mark(s, "body") EXCEPT !.p = s.end]
MessageDone(s) == LET t == Complete(s) IN IF s.upgrade THEN Leave(t) ELSE t

Chunked(s) == Asserted(s, "CHUNKED" \in s.flags)
ChunkSizeStart(s, c) ==
    LET t == Asserted(Chunked(s), s.nread = 1) IN
    IF c \in ToSet(HexDigits) THEN Go([t EXCEPT !.content_length = Val(c)], "chunk_size")
    ELSE Fail(t, "INVALID_CHUNK_SIZE")
ChunkSize(s, c) ==
    CASE c = "CR" -> Go(Chunked(s), "chunk_size_almost_done")
      [] c \in {";", "SP"} -> Go(Chunked(s), "chunk_parameters")
      [] c \in ToSet(HexDigits) -> LengthDigit(Chunked(s), c, 16, "INVALID_CONTENT_LENGTH")
      [] OTHER -> Fail(s, "INVALID_CHUNK_SIZE")
ChunkParameters(s, c) == IF c = "CR" THEN Go(Chunked(s), "chunk_size_almost_done") ELSE Chunked(s)
ChunkSizeAlmostDone(s, c) ==
    LET t == [Chunked(s) EXCEPT !.nread = 0, !.nread0 = 0]
        n == IF s.content_length = 0
             THEN Go([t EXCEPT !.flags = @ \cup {"TRAILING"}], "header_field_start")
             ELSE Go(t, "chunk_data")
    IN  IF c # "LF" THEN Fail(s, "STRICT")
        ELSE Notify(n, "chunk_header", [i \in 1..s.content_length |-> "size"], s.p)
ChunkData(s) ==
    LET t == Taken(Asserted(Chunked(s), Lengthy(s)))
    IN  IF t.content_length = 0 THEN Go(t, "chunk_data_almost_done") ELSE t
ChunkDataAlmostDone(s, c) ==
    IF c # "CR" THEN Fail(s, "STRICT")
    ELSE CallbackData(Go(Asserted(Chunked(s), s.content_length = 0), "chunk_data_done"),
                      "body", s.p - 1, s.p)
ChunkDataDone(s, c) ==
    IF c # "LF" THEN Fail(s, "STRICT")
    ELSE Notify(Go([Chunked(s) EXCEPT !.nread = 0, !.nread0 = 0], "chunk_size_start"),
                "chunk_complete", <<>>, s.p)

----------------------------------------------------------------------------
(* http_parser_execute                                                     *)

BodyStates == {"chunk_data", "chunk_data_almost_done", "chunk_data_done",
               "body_identity", "body_identity_eof", "message_done"}

\* The switch over the states.
Char(s, c) ==
    LET st == s.state IN
    CASE st \in {"dead", "start_req_or_res", "start_res"} -> Start(s, c)
      [] st = "start_req" -> StartReq(s, c)
      [] st = "res_or_resp_H" -> ResOrRespH(s, c)
      [] st = "req_method" -> ReqMethod(s, c)
      [] st \in {"spaces_before_url"} \cup UrlInner \cup UrlOuter -> Url(s, c)
      [] st \in DOMAIN Expect -> Literal(s, c)
      [] st = "req_http_start" -> HttpStart(s, c)
      [] st = "req_http_major" -> Digit(s, c, 1, "req_http_dot")
      [] st = "req_http_minor" -> Digit(s, c, 2, "req_http_end")
      [] st = "res_http_major" -> Digit(s, c, 1, "res_http_dot")
      [] st = "res_http_minor" -> Digit(s, c, 2, "res_http_end")
      [] st = "req_http_end" -> HttpEnd(s, c)
      [] st = "res_first_status_code" -> FirstStatusCode(s, c)
      [] st = "res_status_code" -> StatusCode(s, c)
      [] st = "res_status_start" -> StatusStart(s, c)
      [] st = "res_status" -> Status(s, c)
      [] st = "header_field_start" -> FieldStart(s, c)
      [] st = "header_field" -> HeaderField(s, c)
      [] st = "header_value_discard_ws" -> ValueDiscardWs(s, c)
      [] st = "header_value_start" -> ValueStart(s, c)
      [] st = "header_value" -> HeaderValue(s, c)
      [] st = "header_value_lws" -> ValueLws(s, c)
      [] st = "header_value_discard_lws" -> ValueDiscardLws(s, c)
      [] st = "headers_almost_done" -> HeadersAlmostDone(s, c)
      [] st = "headers_done" -> HeadersDone(s, c)
      [] st = "body_identity" -> BodyIdentity(s)
      [] st = "body_identity_eof" -> BodyIdentityEof(s)
      [] st = "message_done" -> MessageDone(s)
      [] st = "chunk_size_start" -> ChunkSizeStart(s, c)
      [] st = "chunk_size" -> ChunkSize(s, c)
      [] st = "chunk_parameters" -> ChunkParameters(s, c)
      [] st = "chunk_size_almost_done" -> ChunkSizeAlmostDone(s, c)
      [] st = "chunk_data" -> ChunkData(s)
      [] st = "chunk_data_almost_done" -> ChunkDataAlmostDone(s, c)
      [] st = "chunk_data_done" -> ChunkDataDone(s, c)

\* The callbacks for the marks that are left at the end of a piece.
RECURSIVE Leftover(_, _)
Leftover(s, ks) ==
    IF s.ret >= 0 THEN s
    ELSE IF ks = <<>> THEN [s EXCEPT !.ret = s.end]
    ELSE Leftover(CallbackData(s, Head(ks), s.end, s.end), Tail(ks))

Finish(s) ==
    LET t == EndRun(s)
        m == Asserted(t, Cardinality({k \in Kinds : t.mark[k] # 0}) <= 1)
    IN  Leftover(IF t.errno = "OK" THEN m ELSE t,
                 <<"header_field", "header_value", "url", "body", "status">>)

\* From character s.p on; a run of a header loop goes on without the count.
RECURSIVE Loop(_)
Loop(s) ==
    IF s.ret >= 0 THEN s
    ELSE IF s.again THEN LET t == Char([s EXCEPT !.again = FALSE], s.cells[s.p])
                         IN  Loop(IF t.again \/ t.ret >= 0 THEN t ELSE [t EXCEPT !.p = @ + 1])
    ELSE IF s.p > s.end THEN Finish(s)
    ELSE LET inrun == s.run >= 0 /\ s.state \in {"header_field", "header_value"}
             n == IF inrun \/ s.state \in BodyStates THEN s
                  ELSE Count([s EXCEPT !.run = -1], 1)
             t == IF n.ret >= 0 THEN n ELSE Char(n, s.cells[s.p])
         IN  Loop(IF t.again \/ t.ret >= 0 THEN t ELSE [t EXCEPT !.p = @ + 1])

\* A call with the characters from..to; the marks of an element that goes on
\* are set to the start of the piece.
ExecuteNoUrlMark(s, from, to, pause) ==                          \* mutant
    Loop([s EXCEPT !.p = from, !.end = to, !.ret = -1, !.nread0 = s.nread, !.run = -1,
                   !.again = FALSE, !.pause = pause,
                   !.mark = [k \in Kinds |-> IF s.state = k THEN from ELSE 0]])
Execute(s, from, to, pause) ==
    LET on == CASE s.state = "header_field" -> "header_field"
                [] s.state = "header_value" -> "header_value"
                [] s.state \in UrlInner \cup UrlOuter -> "url"
                [] s.state = "res_status" -> "status"
                [] OTHER -> ""
    IN  Loop([s EXCEPT !.p = from, !.end = to, !.ret = -1, !.nread0 = s.nread, !.run = -1, !.again = FALSE,
                       !.pause = pause, !.mark = [k \in Kinds |-> IF k = on THEN from ELSE 0]])

\* A call with length 0.
ExecuteEof(s) ==
    CASE s.errno # "OK" -> s
      [] s.errno = "OK" /\ s.state = "body_identity_eof" ->
            Notify([s EXCEPT !.pause = 0], "message_complete", <<>>, s.ret)
      [] OTHER -> IF s.state \in {"dead", "start_req_or_res", "start_res", "start_req"} THEN s
                  ELSE [s EXCEPT !.errno = "INVALID_EOF_STATE"]

\* http_parser_init.
New(sc) ==
    [cells |-> sc.cells, skip |-> sc.skip, max |-> sc.max, type |-> sc.type, flags |-> {}, index |-> 0,
     state |-> CASE sc.type = "request" -> "start_req" [] sc.type = "response" -> "start_res"
                 [] sc.type = "both" -> "start_req_or_res",
     header_state |-> State("general"), nread |-> 0, nread0 |-> 0, held |-> FALSE, content_length |-> 0, ver |-> <<0, 0>>,
     code |-> 0, method |-> "DELETE", upgrade |-> FALSE, errno |-> "OK", log |-> <<>>,
     p |-> 1, end |-> 0, ret |-> 0, run |-> -1, again |-> FALSE, pause |-> 0,
     mark |-> [k \in Kinds |-> 0]]

\* What is kept between two calls: the locals get fixed values.
Kept(s) == [s EXCEPT !.p = 1, !.end = 0, !.run = -1, !.again = FALSE, !.pause = 0, !.nread0 = 0,
                     !.mark = [k \in Kinds |-> 0]]

Init == script \in Scripts /\ parser = New(script) /\ eof = FALSE

\* The upgrade flag tells the application to stop after the message.
Upgraded(s) == s.upgrade /\ s.log # <<>> /\ Last(s.log).cb = "message_complete"

Feed(n, pause) ==
    /\ parser.errno = "OK" /\ ~Upgraded(parser) /\ ~eof
    /\ parser.ret + n <= Len(script.cells)
    /\ parser' = Kept(Execute(parser, parser.ret + 1, parser.ret + n, pause))
    /\ UNCHANGED <<script, eof>>

\* http_parser_pause(parser, 0).
Unpause ==
    /\ parser.errno = "PAUSED"
    /\ parser' = [parser EXCEPT !.errno = "OK"]
    /\ UNCHANGED <<script, eof>>

Eof ==
    /\ parser.errno # "PAUSED" /\ ~eof
    /\ parser.ret = Len(script.cells) \/ parser.errno # "OK" \/ Upgraded(parser)
    /\ parser' = ExecuteEof(parser)
    /\ eof' = TRUE
    /\ UNCHANGED script

Next ==
    \/ \E n \in 1 .. Len(script.cells) - parser.ret, pause \in 0..PauseMax : Feed(n, pause)
    \/ Unpause
    \/ Eof

Spec == Init /\ [][Next]_vars

----------------------------------------------------------------------------
\* The pieces in which a stream arrives, and the callbacks at which the
\* application pauses, make no difference: in the end the callbacks, the
\* error and its place are those of a single call with the whole stream.
\* (When it is refused, a part of the offending element may have been reported
\* before; headers that are too long are refused after more or fewer
\* callbacks.  HeaderLimit is about them.)  No assertion of the parser fails.
Once == ExecuteEof(Kept(Execute(New(script), 1, Len(script.cells), 0)))
CutsInvisible ==
    eof => LET once == Once
               long == once.errno = "HEADER_OVERFLOW"
           IN  /\ once.errno = parser.errno \/ (long /\ parser.held)
               /\ parser.errno # "ASSERT"
               /\ once.errno = "OK" => once.log = parser.log /\ once.state = parser.state
               /\ ~long => /\ once.ret = parser.ret
                           /\ IsPrefix(SubSeq(once.log, 1, Len(once.log) - 1), parser.log)

\* "Don't allow the total size of the HTTP headers (including the status line)
\* to exceed max_header_size": headers that are refused when they come in one
\* piece are refused when the application pauses the parser, too.
HeaderLimit == eof /\ Once.errno = "HEADER_OVERFLOW" => parser.errno = "HEADER_OVERFLOW"

\* A stream of well-formed messages is reported as the messages it is made
\* of, up to the one after which the connection is closed or becomes another
\* protocol's; a Content-Length or chunk size that does not fit its counter is
\* refused; and a URL is split into the parts it was put together from.
MessagesReported ==
    /\ eof /\ script.msgs # <<>> => /\ parser.log = script.msgs
                                    /\ parser.errno \in {"OK", "CLOSED_CONNECTION"}
    /\ eof /\ script.errno # "OK" => parser.errno = script.errno
    /\ eof => \A u \in script.urls : ParseUrl(u.url, u.connect) = u.parts
=============================================================================
