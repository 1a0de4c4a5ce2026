---------------------------- MODULE RtmpSession ----------------------------
(***************************************************************************)
(* An RTMP client above the chunk stream (src/rtmp_lib/rtmp.c): connecting *)
(* and opening a stream by remote calls whose answers come back in any     *)
(* number and late, reading media, pausing and resuming, being closed by   *)
(* either side and connecting again.  The RTMP structure is the record r;  *)
(* an operation maps it to what it leaves, the packets it sent included,   *)
(* so that a handler is the composition of the calls it makes.  The server *)
(* is external.  Bandwidth figures, metadata and the contents of packets   *)
(* are left out.                                                           *)
(***************************************************************************)
EXTENDS Integers, Sequences, SequencesExt

CONSTANTS Setups,     \* the flags of r->Link a program sets, with the bounds explored under them:
                      \* [write, live, plst, bufx, auth, media, noise, connects, asks, calls]
          Window      \* media packets the server sends before BufferEmpty

SessionConstants == Window \in Nat

VARIABLES r,      \* the RTMP structure
          app,    \* the call the application is in: "idle", "opening" (RTMP_ConnectStream), "reading"
          down,   \* the packets the server sent and the client did not read
          srv,    \* the server: [sid, playing, pos, left, noise, paused]
          got,    \* history: timestamps of the media packets the application was given
          made,   \* connections made so far
          link    \* the setup: write is RTMP_FEATURE_WRITE, live RTMP_LF_LIVE or a
                  \* subscribepath, plst RTMP_LF_PLST, bufx RTMP_LF_BUFX, auth how often
                  \* PublisherAuth finds another way to authenticate; bounds: media packets
                  \* of a stream, unasked packets of the server on a connection,
                  \* connections, what the application asks for while reading, and the
                  \* number of calls beyond which it asks for no more

vars == <<r, app, down, srv, got, made, link>>

----------------------------------------------------------------------------
(* Calls and their queue.                                                  *)

\* Mutant: the queue of calls outlives the connection.
CloseInternalKeepsCalls(s) ==
    [s EXCEPT !.sock = "none", !.sid = -1, !.bw = 0, !.seeking = FALSE, !.ts = <<0, 0>>,
              !.inv = 0, !.playing = FALSE, !.up = <<>>]

\* CloseInternal.  What it still sends is lost with the connection; m_pausing and
\* the stamps stay.
CloseInternal(s) ==
    [s EXCEPT !.sock = "none", !.sid = -1, !.bw = 0, !.seeking = FALSE, !.ts = <<0, 0>>,
              !.calls = <<>>, !.inv = 0, !.playing = FALSE, !.up = <<>>]

AV_queue(calls, name, txn) == Append(calls, [name |-> name, txn |-> txn])
AV_erase(calls, i) == RemoveAt(calls, i)

\* The first call P holds of is erased, if there is one.
EraseFirst(calls, P(_)) ==
    LET is == {i \in 1 .. Len(calls) : P(calls[i])} IN IF is = {} THEN calls ELSE AV_erase(calls, Min(is))

\* RTMP_SendPacket on a connection that broke closes it (WriteN) and queues nothing.
SendPacket(s, msg) ==
    IF s.sock # "up" THEN CloseInternal(s) ELSE [s EXCEPT !.up = Append(@, msg)]

\* A remote call under the next number, kept in the queue or not.
Invoke(s, name, arg, queue) ==
    LET n == s.inv + 1
        t == SendPacket([s EXCEPT !.inv = n], [name |-> name, txn |-> n, arg |-> arg])
    IN  IF s.sock = "up" /\ queue THEN [t EXCEPT !.calls = AV_queue(@, name, n)] ELSE t

SendConnectPacket(s) == Invoke(s, "connect", 0, TRUE)
RTMP_SendCreateStream(s) == Invoke(s, "createStream", 0, TRUE)
SendFCSubscribe(s) == Invoke(s, "FCSubscribe", 0, TRUE)
SendReleaseStream(s) == Invoke(s, "releaseStream", 0, FALSE)
SendFCPublish(s) == Invoke(s, "FCPublish", 0, FALSE)
SendPublish(s) == Invoke(s, "publish", 0, TRUE)
SendDeleteStream(s, id) == Invoke(s, "deleteStream", id, FALSE)
SendPlay(s) == Invoke(s, "play", 0, TRUE)
SendCheckBW(s) == Invoke(s, "_checkbw", 0, FALSE)
RTMP_SendPause(s, pause, time) == Invoke(s, IF pause THEN "pause" ELSE "unpause", time, TRUE)
RTMP_SendSeek(s, time) == Invoke([s EXCEPT !.seeking = TRUE], "seek", time, TRUE)

\* The one call that takes no number: it is sent, and waits, under number 0.
SendPlaylist(s) ==
    LET t == SendPacket(s, [name |-> "set_playlist", txn |-> 0, arg |-> 0])
    IN  IF s.sock = "up" THEN [t EXCEPT !.calls = AV_queue(@, "set_playlist", 0)] ELSE t

\* Packets that are no calls, or answer one under its own number.
RTMP_SendServerBW(s) == SendPacket(s, [name |-> "serverBW", txn |-> 0, arg |-> 0])
RTMP_SendCtrl(s, type) == SendPacket(s, [name |-> "ctrl", txn |-> 0, arg |-> type])
SendPong(s, txn) == SendPacket(s, [name |-> "pong", txn |-> txn, arg |-> 0])
SendCheckBWResult(s, txn) == SendPacket([s EXCEPT !.bw = @ + 1], [name |-> "_result", txn |-> txn, arg |-> 0])

----------------------------------------------------------------------------
(* HandleInvoke, by what the server invokes: the new structure.            *)

OnConnected(s) ==
    LET a == IF link.write THEN SendFCPublish(SendReleaseStream(s)) ELSE RTMP_SendCtrl(RTMP_SendServerBW(s), 3)
        b == RTMP_SendCreateStream(a)
    IN  IF ~link.write /\ link.live THEN SendFCSubscribe(b) ELSE b

OnStreamCreated(s, id) ==
    LET a == [s EXCEPT !.sid = id]
        b == IF link.plst THEN SendPlaylist(a) ELSE a
    IN  IF link.write THEN SendPublish(a) ELSE RTMP_SendCtrl(SendPlay(b), 3)

\* _result: the call with this number leaves the queue and tells what was answered.
OnResult(s, msg) ==
    LET is == {i \in 1 .. Len(s.calls) : s.calls[i].txn = msg.txn}
        name == s.calls[Min(is)].name
        t == [s EXCEPT !.calls = AV_erase(@, Min(is))]
    IN  IF is = {} THEN s
        ELSE CASE name = "connect" -> OnConnected(t)
               [] name = "createStream" -> OnStreamCreated(t, msg.arg)
               [] name \in {"play", "publish"} -> [t EXCEPT !.playing = TRUE]
               [] OTHER -> t

\* RTMP_Connect once the server accepted the socket and the handshake.
Connected(s) ==
    SendConnectPacket([s EXCEPT !.sock = "up", !.pausing = 0])

\* _error: only a publisher looks for the call; when its connect was refused it may
\* authenticate in another way, on a new connection (PublisherAuth).
OnError(s, msg) ==
    LET is == {i \in 1 .. Len(s.calls) : s.calls[i].txn = msg.txn}
        name == s.calls[Min(is)].name
        t == [s EXCEPT !.calls = AV_erase(@, Min(is))]
    IN  IF ~link.write \/ is = {} THEN s
        ELSE IF name = "connect" /\ s.auth < link.auth
        THEN Connected([CloseInternal(t) EXCEPT !.auth = @ + 1])
        ELSE t

OnStatus(s, code) ==
    CASE code \in {"Failed", "Play.Complete"} -> CloseInternal(s)
      [] code = "Play.Start" ->
            [s EXCEPT !.playing = TRUE, !.calls = EraseFirst(@, LAMBDA c : c.name = "play")]
      [] code = "Publish.Start" ->
            [s EXCEPT !.playing = TRUE, !.calls = EraseFirst(@, LAMBDA c : c.name = "publish")]
      [] code = "Seek.Notify" -> [s EXCEPT !.seeking = FALSE]
      [] code = "Pause.Notify" /\ s.pausing \in {1, 2} ->
            [RTMP_SendPause(s, FALSE, s.pauseStamp) EXCEPT !.pausing = 3]
      [] OTHER -> s

HandleInvoke(s, msg) ==
    CASE msg.name = "_result" -> OnResult(s, msg)
      [] msg.name = "_error" -> OnError(s, msg)
      [] msg.name = "onStatus" -> OnStatus(s, msg.code)
      [] msg.name = "onBWDone" -> IF s.bw = 0 THEN SendCheckBW(s) ELSE s
      [] msg.name = "_onbwcheck" -> SendCheckBWResult(s, msg.txn)
      [] msg.name = "_onbwdone" -> [s EXCEPT !.calls = EraseFirst(@, LAMBDA c : c.name = "_checkbw")]
      [] msg.name = "playlist_ready" -> [s EXCEPT !.calls = EraseFirst(@, LAMBDA c : c.name = "set_playlist")]
      [] msg.name = "ping" -> SendPong(s, msg.txn)
      [] msg.name \in {"close", "onFCUnsubscribe"} -> CloseInternal(s)
      [] OTHER -> s

\* HandleInvoke returns 1: the stream came to its end.
Ends(msg) == msg.name = "onFCUnsubscribe" \/ (msg.name = "onStatus" /\ msg.code = "Play.Complete")

\* The timestamp of the channel media arrives on; channel 0 before any did.
MediaTs(s) == IF s.media = 0 THEN 0 ELSE s.ts[s.media]

\* HandleCtrl: stream EOF, ping, buffer empty.
HandleCtrl(s, msg) ==
    CASE msg.code = "EOF" -> [s EXCEPT !.pausing = IF @ = 1 THEN 2 ELSE @]
      [] msg.code = "Ping" -> RTMP_SendCtrl(s, 7)
      [] msg.code = "BufferEmpty" /\ link.bufx /\ s.pausing = 0 ->
            [RTMP_SendPause([s EXCEPT !.pauseStamp = MediaTs(s)], TRUE, MediaTs(s)) EXCEPT !.pausing = 1]
      [] msg.code = "BufferEmpty" /\ link.bufx /\ s.pausing = 2 ->
            [RTMP_SendPause(s, FALSE, s.pauseStamp) EXCEPT !.pausing = 3]
      [] OTHER -> s

\* The timestamp RTMP_ReadPacket keeps of a media packet's channel.
Stamped(s, msg) == IF msg.name = "media" THEN [s EXCEPT !.ts[msg.ch] = msg.stamp] ELSE s

RTMP_ClientPacket(s, msg) ==
    CASE msg.name = "ctrl" -> HandleCtrl(s, msg)
      [] msg.name = "media" ->
            [s EXCEPT !.media = IF @ = 0 THEN msg.ch ELSE @,
                      !.mediaStamp = IF s.pausing = 0 THEN msg.stamp ELSE @]
      [] OTHER -> HandleInvoke(s, msg)

\* Mutant: the packet the stream was paused at is given again.
SkippedLess(s, msg) == s.pausing = 3 /\ msg.stamp < s.mediaStamp

\* RTMP_GetNextMediaPacket, one packet: after a resume, packets the application
\* has had are skipped.
Skipped(s, msg) == s.pausing = 3 /\ msg.stamp <= s.mediaStamp

----------------------------------------------------------------------------
(* The application.                                                        *)

NoServer == [sid |-> 0, playing |-> FALSE, pos |-> 1, left |-> Window, noise |-> 0, paused |-> FALSE]

Init ==
    /\ r = [sock |-> "none", sid |-> 0, playing |-> FALSE, pausing |-> 0, pauseStamp |-> 0,
            mediaStamp |-> 0, media |-> 0, ts |-> <<0, 0>>, inv |-> 0, calls |-> <<>>, bw |-> 0,
            seeking |-> FALSE, auth |-> 0, up |-> <<>>]
    /\ app = "idle" /\ down = <<>> /\ srv = NoServer /\ got = <<>> /\ made = 0
    /\ link \in Setups

\* A new structure has new connections at both ends.
Take(s) ==
    /\ r' = s
    /\ IF s.sock = "none" THEN down' = <<>> /\ srv' = NoServer
       ELSE IF s.auth # r.auth THEN down' = <<>> /\ srv' = NoServer
       ELSE down' = Tail(down) /\ srv' = srv

\* RTMP_Connect and the beginning of RTMP_ConnectStream.
RTMP_Connect ==
    /\ app = "idle" /\ r.sock = "none" /\ made < link.connects
    /\ made' = made + 1
    /\ r' = [Connected(r) EXCEPT !.media = 0]
    /\ app' = "opening"
    /\ down' = <<>> /\ srv' = NoServer /\ got' = <<>>
    /\ UNCHANGED link

\* The connection or the handshake fails.
ConnectFails ==
    /\ app = "idle" /\ r.sock = "none" /\ made < link.connects
    /\ made' = made + 1
    /\ r' = CloseInternal([r EXCEPT !.pausing = 0])
    /\ UNCHANGED <<app, down, srv, got, link>>

\* The loop of RTMP_ConnectStream ends and the application goes on to read, or gives up.
OpeningEnds ==
    /\ app = "opening" /\ (r.playing \/ r.sock = "none")
    /\ app' = IF r.playing THEN "reading" ELSE "idle"
    /\ UNCHANGED <<r, down, srv, got, made, link>>

\* A turn of the loop: media is ignored before play.
RTMP_ConnectStream ==
    /\ app = "opening" /\ ~r.playing /\ r.sock = "up" /\ down # <<>>
    /\ LET msg == Head(down)
       IN  Take(IF msg.name = "media" THEN Stamped(r, msg) ELSE RTMP_ClientPacket(r, msg))
    /\ UNCHANGED <<app, got, made, link>>

RTMP_GetNextMediaPacket ==
    /\ app = "reading" /\ r.sock = "up" /\ down # <<>>
    /\ LET msg == Head(down)
           s == RTMP_ClientPacket(Stamped(r, msg), msg)
           given == msg.name = "media" /\ ~Skipped(s, msg)
       IN  /\ got' = IF given THEN Append(got, msg.stamp) ELSE got
           /\ Take(IF given THEN [s EXCEPT !.pausing = IF @ = 3 THEN 0 ELSE @, !.playing = TRUE]
                   ELSE IF Ends(msg) /\ s.pausing # 3 THEN [s EXCEPT !.playing = TRUE]
                   ELSE s)
    /\ UNCHANGED <<app, made, link>>

\* The end of a reading: nothing more comes from a connection that is closed.
ReadingEnds ==
    /\ app = "reading" /\ r.sock = "none"
    /\ app' = "idle"
    /\ UNCHANGED <<r, down, srv, got, made, link>>

\* ReadN finds the connection broken, or the application closes it.
RTMP_Close ==
    /\ app # "idle" /\ r.sock # "none"
    /\ r' = CloseInternal(r)
    /\ down' = <<>> /\ srv' = NoServer
    /\ UNCHANGED <<app, got, made, link>>

\* Nothing came for the length of the timeout, because the server waits after a
\* full buffer: the application toggles the stream.
RTMP_ToggleStream ==
    /\ "toggle" \in link.asks
    /\ app = "reading" /\ r.sock # "none" /\ r.inv < link.calls
    /\ down = <<>> /\ r.up = <<>> /\ (srv.left = 0 \/ srv.paused)
    /\ LET s == IF r.pausing = 0 THEN [r EXCEPT !.pauseStamp = MediaTs(r)] ELSE r
           p == IF s.pausing = 0 THEN RTMP_SendPause(s, TRUE, s.pauseStamp) ELSE s
       IN  r' = IF p.sock = "none" THEN p ELSE [RTMP_SendPause(p, FALSE, s.pauseStamp) EXCEPT !.pausing = 3]
    /\ IF r'.sock = "none" THEN srv' = NoServer ELSE srv' = srv
    /\ UNCHANGED <<app, down, got, made, link>>

Seek ==
    /\ "seek" \in link.asks
    /\ app = "reading" /\ r.sock = "up" /\ r.inv < link.calls
    /\ r' = RTMP_SendSeek(r, 0)
    /\ UNCHANGED <<app, down, srv, got, made, link>>

\* RTMP_ReconnectStream: the stream is deleted and another one opened.  An application
\* that asks for it in the middle of a pause loses the packets of the new stream up to
\* the stamp of the old one, because m_pausing stays; it is taken not to.
RTMP_ReconnectStream ==
    /\ "reconnect" \in link.asks /\ r.pausing = 0
    /\ app = "reading" /\ r.sock = "up" /\ r.inv < link.calls
    /\ LET d == IF r.sid < 0 THEN r
                ELSE [SendDeleteStream([r EXCEPT !.playing = FALSE], r.sid) EXCEPT !.sid = -1]
       IN  r' = [RTMP_SendCreateStream(d) EXCEPT !.media = 0]
    /\ app' = "opening" /\ got' = <<>>
    /\ UNCHANGED <<down, srv, made, link>>

----------------------------------------------------------------------------
(* The server and the network.                                             *)

Msg(name, txn) == [name |-> name, txn |-> txn, arg |-> 0, code |-> "", ch |-> 0, stamp |-> 0, of |-> ""]
Status(code) == [Msg("onStatus", 0) EXCEPT !.code = code]
Ctrl(code) == [Msg("ctrl", 0) EXCEPT !.code = code]
Media(k) == [Msg("media", 0) EXCEPT !.ch = IF k % 2 = 1 THEN 1 ELSE 2, !.stamp = k]
Answer(name, c, arg) == [Msg(name, c.txn) EXCEPT !.arg = arg, !.of = c.name]

\* What the server may answer a packet with: sequences of packets.
Replies(c) ==
    CASE c.name \in {"connect", "createStream"} ->
            {<<Answer("_result", c, 1)>>, <<Answer("_error", c, 0)>>}
      [] c.name = "play" -> {<<Status("Play.Start")>>, <<Answer("_result", c, 0)>>, <<Status("Failed")>>}
      [] c.name = "publish" -> {<<Status("Publish.Start")>>, <<Answer("_result", c, 0)>>}
      [] c.name = "set_playlist" -> {<<Msg("playlist_ready", 0)>>, <<Answer("_result", c, 0)>>, <<>>}
      [] c.name = "pause" -> {<<Ctrl("EOF"), Status("Pause.Notify")>>, <<Status("Pause.Notify")>>}
      [] c.name = "seek" -> {<<Status("Seek.Notify")>>}
      [] c.name = "_checkbw" -> {<<Msg("_onbwcheck", 9), Msg("_onbwdone", 0)>>}
      [] OTHER -> {<<>>}

\* Resuming at the given time may begin with packets shortly before it.
ServerAfter(c, back) ==
    CASE c.name \in {"play", "publish"} -> [srv EXCEPT !.playing = (c.name = "play"), !.pos = 1, !.left = Window]
      [] c.name = "deleteStream" -> [srv EXCEPT !.playing = FALSE, !.paused = FALSE]
      [] c.name = "pause" -> [srv EXCEPT !.paused = TRUE]
      [] c.name = "unpause" /\ srv.paused ->
            [srv EXCEPT !.paused = FALSE, !.left = Window, !.pos = Max({1, c.arg + 1 - back})]
      [] OTHER -> srv

ServerTakes(back) ==
    /\ r.sock = "up" /\ r.up # <<>>
    /\ r' = [r EXCEPT !.up = Tail(@)]
    /\ \E rs \in Replies(Head(r.up)) : down' = down \o rs
    /\ srv' = ServerAfter(Head(r.up), back)
    /\ UNCHANGED <<app, got, made, link>>

\* The next media packet, and the notice that a buffer's worth of them was sent.
ServerSends ==
    /\ r.sock = "up" /\ srv.playing /\ ~srv.paused /\ srv.left > 0 /\ srv.pos <= link.media
    /\ down' = down \o (IF srv.left = 1 THEN <<Media(srv.pos), Ctrl("BufferEmpty")>> ELSE <<Media(srv.pos)>>)
    /\ srv' = [srv EXCEPT !.pos = @ + 1, !.left = @ - 1]
    /\ UNCHANGED <<r, app, got, made, link>>

Noise == {Msg("onBWDone", 0), Msg("ping", 5), Ctrl("Ping"), Msg("close", 0), Status("Play.Complete"),
          Msg("onFCUnsubscribe", 0)}

ServerNoise(msg) ==
    /\ r.sock = "up" /\ srv.noise < link.noise
    /\ down' = Append(down, msg)
    /\ srv' = [srv EXCEPT !.noise = @ + 1]
    /\ UNCHANGED <<r, app, got, made, link>>

\* The connection breaks: what was under way is lost.
Break ==
    /\ r.sock = "up"
    /\ r' = [r EXCEPT !.sock = "broken", !.up = <<>>]
    /\ down' = <<>> /\ srv' = NoServer
    /\ UNCHANGED <<app, got, made, link>>

Next ==
    \/ RTMP_Connect \/ ConnectFails \/ OpeningEnds \/ RTMP_ConnectStream
    \/ RTMP_GetNextMediaPacket \/ ReadingEnds \/ RTMP_Close
    \/ RTMP_ToggleStream \/ Seek \/ RTMP_ReconnectStream
    \/ \E back \in 0 .. 1 : ServerTakes(back)
    \/ ServerSends
    \/ \E msg \in Noise : ServerNoise(msg)
    \/ Break

Spec == Init /\ [][Next]_vars

----------------------------------------------------------------------------
(***************************************************************************)
(* An answer of the server that is under way can only be taken for an      *)
(* answer to a call of the kind it answers: a waiting call with its number *)
(* has the name of the call that was answered, and no two calls wait under *)
(* one number but playlists, which all go out as number 0; also after the  *)
(* connection was closed, the numbers began again and the stream was       *)
(* opened anew (HandleInvoke, RTMP_SendPacket, CloseInternal).             *)
(***************************************************************************)
AnswersMatched ==
    /\ \A i \in 1 .. Len(down), j \in 1 .. Len(r.calls) :
           down[i].of # "" /\ down[i].txn = r.calls[j].txn => down[i].of = r.calls[j].name
    /\ \A i, j \in 1 .. Len(r.calls) :
           i # j /\ r.calls[i].txn = r.calls[j].txn => r.calls[i].name = "set_playlist" /\ r.calls[i].txn = 0

(***************************************************************************)
(* The application is given the media of a stream in order, each packet    *)
(* once and none left out, through the pauses and resumptions that make    *)
(* the server send on (BufferEmpty, RTMP_ToggleStream), wherever in its    *)
(* stream the server resumes; for servers that send at least two packets   *)
(* between two pauses, nothing while paused and nothing unasked for.       *)
(***************************************************************************)
MediaOnce == link.noise = 0 => \A i \in 1 .. Len(got) : got[i] = i
=============================================================================
