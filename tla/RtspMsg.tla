------------------------------ MODULE RtspMsg ------------------------------
(***************************************************************************)
(* The messages of rtsp_lib/rtsp_msg.c on the stream that rtsp_recv_msg of *)
(* rtsp_demo.c reads, in pieces of any size, into a buffer of bounded      *)
(* size.  A message on the wire is a sequence of cells: a start line, a    *)
(* header line, "\r\n", a piece of a body, the four bytes that start an    *)
(* interleaved frame.  The text of a line is abstracted to its kind, its   *)
(* number, and whether its parser accepts it.                              *)
(***************************************************************************)
EXTENDS Integers, Sequences, SequencesExt

CONSTANTS
    Scripts,   \* the sequences of messages a client may send
    BufMax,    \* cells that fit into reqbuf (1023 bytes)
    SdpLen,    \* cells of the description DESCRIBE answers with
    LineMax,   \* 256: more cells than that without a "\r\n" are refused
    HdrMax     \* 1024, one more than BufMax: the same for the headers

VARIABLES
    script,    \* what the client sends
    wire,      \* the part of it that is not yet received
    buf,       \* reqbuf
    conn,      \* "open", or why the connection was deleted: "lost" by the peer or
               \* by an error of the socket, "refused" for an invalid message
    got,       \* the messages rtsp_do_event has taken from buf
    replies    \* the responses, in the order they are sent

vars == <<script, wire, buf, conn, got, replies>>

\* The header lines in the order of rtsp_msg_build_to_array.
Fields == <<"cseq", "date", "session", "transport", "range", "accept",
            "authorization", "user_agent", "public_", "rtp_info", "server",
            "content_type", "content_length">>
Known == ToSet(Fields) \ {"range", "authorization", "rtp_info"}

CRLF == [t |-> "crlf"]
Hdr(f, v) == [t |-> "hdr", name |-> f, val |-> v, ok |-> TRUE]

\* rtsp_msg_build_to_array.  hdrs maps the fields that are set to their
\* values; range, authorization and RTP-Info build no line.  A raw message is
\* one that this builder would not make.
Build(m) ==
    IF m.type = "raw" THEN m.cells
    ELSE IF m.type = "interleaved"
    THEN <<[t |-> "$", len |-> m.len]>> \o [i \in 1..m.len |-> [t |-> "body"]]
    ELSE LET set == SelectSeq(Fields, LAMBDA f : f \in DOMAIN m.hdrs /\ f \in Known)
             lines == FlattenSeq([i \in DOMAIN set |-> <<Hdr(set[i], m.hdrs[set[i]]), CRLF>>])
             body == IF "content_length" \in DOMAIN m.hdrs
                     THEN m.hdrs.content_length ELSE 0
         IN  <<[t |-> "start", type |-> m.type, method |-> m.method], CRLF>> \o lines \o <<CRLF>>
             \o [i \in 1..body |-> [t |-> "body"]]

----------------------------------------------------------------------------
IsCRLF(b, i) == i \in DOMAIN b /\ b[i].t = "crlf"

\* rtsp_msg_frame_size: 0 when data is missing, -1 for an invalid frame.
FrameSizeNoBody(b) ==                                            \* mutant
    LET first == {i \in DOMAIN b : IsCRLF(b, i)}
        ends  == {i \in first : IsCRLF(b, i + 1)}
    IN  IF first = {} THEN (IF Len(b) > LineMax THEN -1 ELSE 0)
        ELSE IF ends = {} THEN (IF Len(b) > HdrMax THEN -1 ELSE 0)
        ELSE Min(ends) + 1
FrameSize(b) ==
    LET first == {i \in DOMAIN b : IsCRLF(b, i)}
        ends  == {i \in first : IsCRLF(b, i + 1)}
        hdrlen == Min(ends) + 1
        lens  == {i \in 3..hdrlen : b[i].t = "hdr" /\ b[i].name = "content_length"}
        len   == IF lens = {} THEN 0
                 ELSE b[CHOOSE i \in lens : \A j \in lens : j <= i].val
    IN  IF first = {} THEN (IF Len(b) > LineMax THEN -1 ELSE 0)
        ELSE IF ends = {} THEN (IF Len(b) > HdrMax THEN -1 ELSE 0)
        ELSE IF \E i \in lens : ~b[i].ok THEN -1
        ELSE IF Len(b) < hdrlen + len THEN 0 ELSE hdrlen + len

\* rtsp_msg_parse_from_array.  A start line or a known header that its parser
\* refuses makes the whole message invalid; unknown lines are skipped, and of
\* a header that comes twice the second one counts.  With fewer than the four
\* bytes of an interleaved header, size < interlen + 4 whatever they hold.
Parse(b) ==
    IF b[1].t = "$"
    THEN IF Len(b) < b[1].len + 1 THEN [size |-> 0]
         ELSE [size |-> b[1].len + 1, msg |-> [type |-> "interleaved", len |-> b[1].len]]
    ELSE LET size == FrameSize(b)
             end  == Min({i \in DOMAIN b : IsCRLF(b, i) /\ IsCRLF(b, i + 1)})
             hdr(i) == b[i].t = "hdr"
             names == {b[i].name : i \in {i \in 2..end : hdr(i)}}
             last(f) == CHOOSE i \in 2..end :
                          /\ hdr(i) /\ b[i].name = f
                          /\ \A j \in i+1..end : ~(hdr(j) /\ b[j].name = f)
         IN  IF size <= 0 THEN [size |-> size]
             ELSE IF \/ b[1].t # "start"
                     \/ \E i \in 2..end : hdr(i) /\ ~b[i].ok
                     \/ \E i \in 2..end : hdr(i) /\ b[i].name = "content_length" /\ b[i].val < 0
             THEN [size |-> -1]
             ELSE [size |-> size,
                   msg |-> [type |-> b[1].type, method |-> b[1].method,
                            hdrs |-> [f \in names |-> b[last(f)].val]]]

\* rtsp_msg_set_*: a header gets a value, whether it was there or not.
Set(hdrs, f, v) == [g \in DOMAIN hdrs \cup {f} |-> IF g = f THEN v ELSE hdrs[g]]

\* The headers that the handler of a method adds to a response.
Adds(method) == CASE method = "OPTIONS" -> {"public_"}
                  [] method = "DESCRIBE" -> {"content_type", "content_length"}
                  [] method = "SETUP" -> {"transport", "session"}
                  [] OTHER -> {}

\* rtsp_process_request: a request without CSeq is answered with 400 and not
\* handled.
Response(m) ==
    LET base  == Set(Set(<<>>, "date", 0), "server", 0)
        cseq  == Set(base, "cseq", m.hdrs.cseq)
        added == [f \in DOMAIN cseq \cup Adds(m.method) |->
                     IF f = "content_length" THEN SdpLen
                     ELSE IF f \in DOMAIN cseq THEN cseq[f] ELSE 0]
    IN  [type |-> "response", method |-> "none",
         hdrs |-> IF "cseq" \in DOMAIN m.hdrs THEN added ELSE base]

----------------------------------------------------------------------------
Init ==
    /\ script \in Scripts
    /\ wire = FlattenSeq([i \in DOMAIN script |-> Build(script[i])])
    /\ buf = <<>> /\ conn = "open" /\ got = <<>> /\ replies = <<>>

\* One turn of the loop in rtsp_do_event: rtsp_recv_msg reads n cells, none
\* if there are none or the buffer is full, and parses; a request is
\* answered, anything else is dropped, an invalid message ends the connection.
RecvMsg(n) ==
    /\ conn = "open"
    /\ n <= Len(wire) /\ Len(buf) + n <= BufMax
    /\ LET b == buf \o SubSeq(wire, 1, n)
           r == IF b = <<>> THEN [size |-> 0] ELSE Parse(b)
       IN  /\ conn' = IF r.size >= 0 THEN "open" ELSE "refused"
           /\ buf' = IF r.size > 0 THEN SubSeq(b, r.size + 1, Len(b)) ELSE b
           /\ got' = IF r.size > 0 THEN Append(got, r.msg) ELSE got
           /\ replies' = IF r.size > 0 /\ r.msg.type = "request"
                         THEN Append(replies, Response(r.msg)) ELSE replies
    /\ wire' = SubSeq(wire, n + 1, Len(wire))
    /\ UNCHANGED script

Reads == \E n \in 0 .. Min({BufMax - Len(buf), Len(wire)}) : RecvMsg(n)

\* recv returns 0, after everything the peer sent before it closed was received,
\* or an error, at any time: the connection is deleted at once, with whatever
\* is left in the buffer.  A full buffer is not received into.
RecvFails ==
    /\ conn = "open" /\ Len(buf) < BufMax
    /\ conn' = "lost"
    /\ UNCHANGED <<script, wire, buf, got, replies>>

Next == Reads \/ RecvFails

\* select reports a socket with data, and the application keeps calling
\* rtsp_do_event: what can be read is read in the end.
Spec == Init /\ [][Next]_vars /\ WF_vars(Reads)

----------------------------------------------------------------------------
Requests == SelectSeq(got, LAMBDA m : m.type = "request")

\* The pieces in which the stream arrives make no difference: the messages
\* taken from the buffer are those that were sent, in order; each request is
\* answered once, with its own CSeq; and a client that parses the response
\* gets what the server put into it.
TakenInOrder ==
    /\ IsPrefix(got, script)
    /\ Len(replies) = Len(Requests)
    /\ \A i \in DOMAIN replies :
          /\ "cseq" \in DOMAIN Requests[i].hdrs
                => replies[i].hdrs.cseq = Requests[i].hdrs.cseq
          /\ LET b == Build(replies[i]) IN
             Parse(b) = [size |-> Len(b), msg |-> replies[i]]
    /\ wire = <<>> /\ buf = <<>> /\ conn # "refused" => got = script

\* Messages that the builder makes and that fit into the buffer are all taken
\* in the end, and none of them is refused, while the peer keeps the connection
\* and the socket does not fail.  A connection that is lost is deleted with the
\* complete messages that are still in the buffer, so that a client that sends
\* its requests at once and closes may get no answer to the last of them; and
\* behind a message that does not fit nothing is taken any more.
AllFit == \A i \in DOMAIN script : script[i].type # "raw" /\ Len(Build(script[i])) <= BufMax
Settled == got = script \/ conn = "lost"
AllTaken == AllFit => <>Settled

\* A message that fills the buffer without being complete is refused, as the
\* limit on the headers in rtsp_msg_frame_size says.
FullIsRefused == conn = "open" /\ Len(buf) = BufMax => Parse(buf).size # 0
============================================================================
