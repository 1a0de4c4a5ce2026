----------------------------- MODULE RtmpChunk -----------------------------
(***************************************************************************)
(* The chunk stream of RTMP (src/rtmp_lib/rtmp.c): RTMP_SendPacket cuts    *)
(* messages into chunks with compressed headers, RTMP_ReadPacket puts them *)
(* together again.  The wire is a sequence of cells; a cell is a byte of a *)
(* basic header or of a body, or a whole 24 or 32 bit field.  A peer may   *)
(* interleave the chunks of messages of different channels, which          *)
(* RTMP_SendPacket itself never does.                                      *)
(***************************************************************************)
EXTENDS Integers, Sequences, SequencesExt

CONSTANTS Channels,    \* channel numbers, one for each length of the basic header
          Packets,     \* what is sent: [type, ptype, ts, size, info]
          ChunkSizes,  \* the chunk sizes the peer announces
          Default,     \* RTMP_DEFAULT_CHUNKSIZE
          Ts24,        \* the largest 24 bit number, 0xffffff
          TsMod,       \* timestamps are taken modulo this, 2^32
          MaxMsgs,     \* bound: messages of a connection
          Repeats,     \* whether callers repeat a timestamp that is not zero
          None

LARGE == 0
MEDIUM == 1
SMALL == 2
MINIMUM == 3

CHUNK_SIZE == 1    \* RTMP_PACKET_TYPE_CHUNK_SIZE

VARIABLES outPrev,   \* m_vecChannelsOut of the sender: the last packet of a channel
          outChunk,  \* m_outChunkSize of the sender
          pending,   \* the chunks of a channel's packet that are not on the wire yet
          wire,      \* what was sent and not read
          inPrev,    \* m_vecChannelsIn of the reader
          inTs,      \* m_channelTimestamp of the reader
          inChunk,   \* m_inChunkSize of the reader
          packet,    \* [info, abs]: what the reader's packet still holds of the last chunk
          sent,      \* history: the messages sent on a channel
          got,       \* history: the messages read from a channel
          stale      \* history: the reader kept the chunk size of an earlier connection

vars == <<outPrev, outChunk, pending, wire, inPrev, inTs, inChunk, packet, sent, got, stale>>

----------------------------------------------------------------------------
(* RTMP_SendPacket                                                         *)

\* The header actually used: "compress a bit by using the prev packet's attributes".
HeaderType(p, prev) ==
    LET small == \/ p.type = SMALL
                 \/ p.type = MEDIUM /\ prev.size = p.size /\ prev.ptype = p.ptype
    IN  IF prev = None \/ p.type = LARGE THEN p.type
        ELSE IF ~small THEN p.type
        ELSE IF prev.ts = p.ts THEN MINIMUM ELSE SMALL

\* The timestamp field before it is cut to 24 bits: absolute in a large header.
Delta(p, prev) ==
    (p.ts - (IF prev = None \/ p.type = LARGE THEN 0 ELSE prev.ts)) % TsMod

\* The first byte, and one or two more for channels above 63 and above 319.
Basic(type, ch) ==
    IF ch > 319 THEN <<64 * type + 1, (ch - 64) % 256, (ch - 64) \div 256>>
    ELSE IF ch > 63 THEN <<64 * type, ch - 64>>
    ELSE <<64 * type + ch>>

\* The extended timestamp, in the first chunk and in every later one.
Extended(t) == IF t >= Ts24 THEN <<t>> ELSE <<>>

Header(p, ch, type, t) ==
    Basic(type, ch)
      \o (IF type <= SMALL THEN <<Min({t, Ts24})>> ELSE <<>>)
      \o (IF type <= MEDIUM THEN <<p.size, p.ptype>> ELSE <<>>)
      \o (IF type = LARGE THEN <<p.info>> ELSE <<>>)
      \o Extended(t)

\* A packet in chunks of at most n body cells, each behind its header.
Cut(p, ch, body, prev, n) ==
    LET t == Delta(p, prev)
        head(i) == IF i = 1 THEN Header(p, ch, HeaderType(p, prev), t)
                   ELSE Basic(MINIMUM, ch) \o Extended(t)
    IN  [i \in 1 .. Max({1, (p.size + n - 1) \div n}) |->
            head(i) \o SubSeq(body, (i - 1) * n + 1, Min({i * n, p.size}))]

Message(p, body) == [ptype |-> p.ptype, ts |-> p.ts, body |-> body, info |-> p.info]

Total == Cardinality({x \in Channels \X (1 .. MaxMsgs) : x[2] <= Len(sent[x[1]])})

RTMP_SendPacket(ch, p, body) ==
    LET prev == outPrev[ch]
    IN  /\ pending[ch] = <<>> /\ Total < MaxMsgs
        /\ \/ Repeats
           \/ HeaderType(p, prev) # MINIMUM
           \/ \A i \in 1 .. Len(sent[ch]) : sent[ch][i].ts = 0
        /\ outPrev' = [outPrev EXCEPT ![ch] = [ts |-> p.ts, size |-> p.size, ptype |-> p.ptype]]
        /\ sent' = [sent EXCEPT ![ch] = Append(@, [Message(p, body) EXCEPT
                                 !.info = IF p.type = LARGE THEN @ ELSE None])]

Body(n, size) == [i \in 1 .. size |-> 10 * n + i]

SendMessage(ch, p) ==
    /\ RTMP_SendPacket(ch, p, Body(Total, p.size))
    /\ pending' = [pending EXCEPT ![ch] = Cut(p, ch, Body(Total, p.size), outPrev[ch], outChunk)]
    /\ UNCHANGED <<outChunk, wire, inPrev, inTs, inChunk, packet, got, stale>>

\* A peer announces the size of its chunks from the next packet on; the size is
\* in four bytes, and a shorter message is one the reader is to ignore.
SendChunkSize(ch, n, size) ==
    LET p == [type |-> LARGE, ptype |-> CHUNK_SIZE, ts |-> 0, size |-> size, info |-> 0]
        body == SubSeq(<<0, 0, 0, n>>, 5 - size, 4)
    IN
    /\ wire = <<>> /\ \A c \in Channels : pending[c] = <<>>
    /\ RTMP_SendPacket(ch, p, body)
    /\ wire' = wire \o FlattenSeq(Cut(p, ch, body, outPrev[ch], outChunk))
    /\ outChunk' = IF size = 4 THEN n ELSE outChunk
    /\ UNCHANGED <<pending, inPrev, inTs, inChunk, packet, got, stale>>

\* A chunk goes out.  The reader sees the same cells in the same order however far
\* it lags behind, so that it may be taken to have read what was sent before.
WriteN(ch) ==
    /\ pending[ch] # <<>> /\ wire = <<>>
    /\ wire' = wire \o Head(pending[ch])
    /\ pending' = [pending EXCEPT ![ch] = Tail(@)]
    /\ UNCHANGED <<outPrev, outChunk, inPrev, inTs, inChunk, packet, sent, got, stale>>

----------------------------------------------------------------------------
(* RTMP_ReadPacket: one chunk, [ch, type, pkt, ready, used].               *)

Fresh == [ts |-> 0, size |-> 0, ptype |-> 0, info |-> packet.info, abs |-> packet.abs, body |-> <<>>]

\* A cell of the wire; one that is not there yet holds back the whole chunk below.
Cell(w, i) == IF i <= Len(w) THEN w[i] ELSE 0

\* The channel and the length of the basic header.
Channel(w) ==
    LET low == w[1] % 64
    IN  IF low = 0 THEN [ch |-> Cell(w, 2) + 64, len |-> 2]
        ELSE IF low = 1 THEN [ch |-> Cell(w, 3) * 256 + Cell(w, 2) + 64, len |-> 3]
        ELSE [ch |-> low, len |-> 1]

\* What the packet holds before the fields of the header are read: the last
\* packet of the channel, unless the header is a large one.
Base(type, ch) ==
    IF type = LARGE THEN [Fresh EXCEPT !.abs = TRUE]
    ELSE IF ch \in Channels /\ inPrev[ch] # None THEN inPrev[ch] ELSE Fresh

\* The fields a header of this type brings; f is the wire behind the basic header.
Fields(pkt, type, f) ==
    LET timed == IF type <= SMALL THEN [pkt EXCEPT !.ts = Cell(f, 1)] ELSE pkt
        sized == IF type <= MEDIUM THEN [timed EXCEPT !.size = Cell(f, 2), !.ptype = Cell(f, 3), !.body = <<>>] ELSE timed
    IN  IF type = LARGE THEN [sized EXCEPT !.info = Cell(f, 4)] ELSE sized

FieldCount(type) == <<4, 3, 1, 0>>[type + 1]

ReadChunk(w) ==
    LET type == w[1] \div 64
        ch == Channel(w).ch
        f == SubSeq(w, Channel(w).len + 1, Len(w))
        n == FieldCount(type)
        p == Fields(Base(type, ch), type, f)
        ext == p.ts = Ts24
        stamped == IF ext THEN [p EXCEPT !.ts = Cell(f, n + 1)] ELSE p
        start == n + (IF ext THEN 1 ELSE 0)
        k == Min({inChunk, p.size - Len(p.body)})
        pkt == [stamped EXCEPT !.body = @ \o SubSeq(f, start + 1, Min({start + k, Len(f)}))]
    IN  [ch |-> ch, pkt |-> pkt, ext |-> ext, ready |-> Len(p.body) + k = p.size,
         used |-> Channel(w).len + start + k]

\* Mutant: m_hasAbsTimestamp of the stored packet is not reset.
StoredAbs(c) ==
    LET kept == IF c.ext THEN [c.pkt EXCEPT !.ts = Ts24] ELSE c.pkt
    IN  IF c.ready THEN [kept EXCEPT !.body = <<>>] ELSE kept

\* What is kept of the packet as reference for the next chunk of the channel.
Stored(c) ==
    LET kept == IF c.ext THEN [c.pkt EXCEPT !.ts = Ts24] ELSE c.pkt
    IN  IF c.ready THEN [kept EXCEPT !.body = <<>>, !.abs = FALSE] ELSE kept

\* "make packet's timestamp absolute"
Absolute(c) == IF c.pkt.abs THEN c.pkt.ts ELSE (c.pkt.ts + inTs[c.ch]) % TsMod

HandleChangeChunkSize(pkt) == IF pkt.size >= 4 THEN pkt.body[4] ELSE inChunk

\* ReadN waits until the chunk is there.
CanRead == wire # <<>> /\ ReadChunk(wire).ch \in Channels /\ ReadChunk(wire).used <= Len(wire)

\* The packet is handled before the next one is read (RTMP_ClientPacket).
RTMP_ReadPacket ==
    /\ CanRead
    /\ LET c == ReadChunk(wire)
       IN  /\ wire' = SubSeq(wire, c.used + 1, Len(wire))
           /\ inPrev' = [inPrev EXCEPT ![c.ch] = Stored(c)]
           /\ packet' = [info |-> c.pkt.info, abs |-> c.pkt.abs]
           /\ IF c.ready
              THEN /\ inTs' = [inTs EXCEPT ![c.ch] = Absolute(c)]
                   /\ got' = [got EXCEPT ![c.ch] = Append(@, Message([c.pkt EXCEPT !.ts = Absolute(c)], c.pkt.body))]
                   /\ inChunk' = IF c.pkt.ptype = CHUNK_SIZE THEN HandleChangeChunkSize(c.pkt) ELSE inChunk
              ELSE UNCHANGED <<inTs, got, inChunk>>
    /\ UNCHANGED <<outPrev, outChunk, pending, sent, stale>>

----------------------------------------------------------------------------
Init ==
    /\ outPrev = [c \in Channels |-> None] /\ inPrev = [c \in Channels |-> None]
    /\ outChunk = Default /\ inChunk = Default
    /\ pending = [c \in Channels |-> <<>>] /\ wire = <<>>
    /\ inTs = [c \in Channels |-> 0]
    /\ packet = [info |-> 0, abs |-> FALSE]
    /\ sent = [c \in Channels |-> <<>>] /\ got = [c \in Channels |-> <<>>]
    /\ stale = FALSE

\* The connection is lost and made again: RTMP_Close forgets the channels, but
\* neither it nor RTMP_Connect puts m_inChunkSize back; the peer starts at Default.
Reconnect ==
    /\ ~stale /\ \E c \in Channels : sent[c] # <<>>
    /\ outPrev' = [c \in Channels |-> None] /\ inPrev' = [c \in Channels |-> None]
    /\ outChunk' = Default
    /\ pending' = [c \in Channels |-> <<>>] /\ wire' = <<>>
    /\ inTs' = [c \in Channels |-> 0]
    /\ packet' = [info |-> 0, abs |-> FALSE]
    /\ sent' = [c \in Channels |-> <<>>] /\ got' = [c \in Channels |-> <<>>]
    /\ stale' = (inChunk # Default)
    /\ UNCHANGED inChunk

Next ==
    \/ \E ch \in Channels :
        \/ WriteN(ch)
        \/ \E p \in Packets : SendMessage(ch, p)
        \/ \E n \in ChunkSizes, size \in {3, 4} : SendChunkSize(ch, n, size)
    \/ RTMP_ReadPacket
    \/ Reconnect

Spec == Init /\ [][Next]_vars

----------------------------------------------------------------------------
Same(m, n) == m.ptype = n.ptype /\ m.ts = n.ts /\ m.body = n.body /\ (m.info = None \/ m.info = n.info)

(***************************************************************************)
(* Messages arrive whole, with their type, their absolute timestamp and,   *)
(* when they were sent with a large header, their stream, in the order     *)
(* they were sent on their channel, and nothing stays behind: however      *)
(* their headers were compressed, their timestamps grew past 24 bits or    *)
(* went back, chunks of several channels were interleaved and the size of  *)
(* the chunks changed between them.  Callers repeat a timestamp only while *)
(* a channel is at zero, and a reader that kept the chunk size of an       *)
(* earlier connection is left out (RTMP_SendPacket, RTMP_ReadPacket).      *)
(***************************************************************************)
Delivered ==
    ~stale => \A c \in Channels :
        /\ Len(got[c]) <= Len(sent[c])
        /\ \A i \in 1 .. Len(got[c]) : Same(sent[c][i], got[c][i])
        /\ ~CanRead /\ pending[c] = <<>> => Len(got[c]) = Len(sent[c])
=============================================================================
