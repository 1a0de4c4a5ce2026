----------------------------- MODULE RtspServer -----------------------------
(***************************************************************************)
(* The RTSP server of rtsp_lib/rtsp_demo.c over the stream queues of       *)
(* stream_queue.c.  One thread calls rtsp_do_event and rtsp_tx_*.  A pass  *)
(* of rtsp_do_event serves the connections that select reports; the turn   *)
(* of one of them is TurnBegins, the requests found in its buffer, and     *)
(* TurnEnds, as it keeps the pointers it read at its start.  A session is  *)
(* its path, a request names a path and, below it, a track.  Requests that *)
(* are answered with an error before they change anything are left out.    *)
(***************************************************************************)
EXTENDS Integers, FiniteSets

CONSTANTS
    Clients, Sessions,
    Tracks,     \* video and audio
    NbPkts,     \* VRTP_MAX_NBPKTS and ARTP_MAX_NBPKTS
    Ports,      \* the pairs of UDP ports __rtp_udp_local_setup tries
    MaxPkts,    \* bound: packets that enter one queue
    None        \* NULL

Slots  == 2 * NbPkts + 1          \* streamq_alloc(..., NBPKTS * 2 + 1)
Min(S) == CHOOSE x \in S : \A y \in S : x <= y

\* A stream queue, an RTP connection and a client connection.  A packet in a
\* queue is its number.
Indexes == 0 .. Slots - 1
Queue == [head : Indexes, tail : Indexes, n : Nat, slot : [Indexes -> Nat]]
Rtp   == [port : Ports \cup {None}, last : Nat, idx : Indexes]
Conn  == [state : {"init", "ready", "playing"}, session : Sessions \cup {None},
          rtp : [Tracks -> Rtp \cup {None}]]

\* What the proofs assume: NULL is none of them.
RtspConstants ==
    /\ NbPkts \in Nat \ {0} /\ Ports \subseteq Nat
    /\ None \notin Sessions /\ None \notin Clients /\ None \notin Ports
    /\ None \notin Queue /\ None \notin Rtp /\ None \notin Conn

VARIABLES
    q,       \* q[s][t]: the stream queue of a track, None before rtsp_set_*
    listed,  \* sessions_qhead
    cc,      \* the client connections, None where there is none
    open,    \* the UDP port pairs that have sockets
    turn,    \* the connection rtsp_do_event is at, and its vrtp and artp
    ub       \* the undefined behaviour that has been met; nothing follows it

vars == <<q, listed, cc, open, turn, ub>>

Idle   == [c |-> None, had |-> {}, freed |-> {}]
NewConn == [state |-> "init", session |-> None, rtp |-> [t \in Tracks |-> None]]
NewQueue == [head |-> 0, tail |-> 0, n |-> 0, slot |-> [i \in Indexes |-> 0]]

Init ==
    /\ q = [s \in Sessions |-> [t \in Tracks |-> None]]
    /\ listed = {} /\ open = {} /\ turn = Idle /\ ub = None
    /\ cc = [c \in Clients |-> None]

----------------------------------------------------------------------------
\* stream_queue.c
StreamqNext(i) == (i + 1) % Slots
StreamqInused(Q, i) == \/ Q.head <= i /\ i < Q.tail
                       \/ Q.head > Q.tail /\ (i >= Q.head \/ i < Q.tail)
\* The number of packets a reader at i has before it.
StreamqAhead(Q, i) == (Q.tail - i + Slots) % Slots

\* rtp_tx_*_packet: the first k packets before reader r go out.  The reader
\* remembers the last packet it sent.
TxPackets(Q, r, k) ==
    [r EXCEPT !.idx = (@ + k) % Slots,
              !.last = IF k = 0 THEN @ ELSE Q.slot[(r.idx + k - 1) % Slots]]

----------------------------------------------------------------------------
\* Sessions.
PairsOf(c, T) == {cc[c].rtp[t].port : t \in {t \in T : cc[c].rtp[t] # None}} \ {None}
BoundTo(s) == {c \in Clients : cc[c] # None /\ cc[c].session = s}

\* rtsp_new_session; of a path that is taken, the listed session is freed.
NewSession(s) ==
    /\ turn = Idle
    /\ IF s \in listed THEN ub' = "freed session" /\ UNCHANGED listed
       ELSE listed' = listed \cup {s} /\ UNCHANGED ub
    /\ UNCHANGED <<q, cc, open, turn>>

SetCodec(s, t) ==
    /\ turn = Idle /\ s \in listed /\ q[s][t] = None
    /\ q' = [q EXCEPT ![s][t] = NewQueue]
    /\ UNCHANGED <<listed, cc, open, turn, ub>>

\* rtsp_del_client_connection of the connections in C: their RTP connections
\* are closed, and they leave both lists.
DelClients(C) ==
    /\ cc' = [c \in Clients |-> IF c \in C THEN None ELSE cc[c]]
    /\ open' = open \ UNION {PairsOf(c, Tracks) : c \in C}

DelSessionKeepsClients(s) ==                                     \* mutant
    /\ turn = Idle /\ s \in listed
    /\ listed' = listed \ {s}
    /\ q' = [q EXCEPT ![s] = [t \in Tracks |-> None]]
    /\ UNCHANGED <<cc, open, turn, ub>>
DelSession(s) ==
    /\ turn = Idle /\ s \in listed
    /\ DelClients(BoundTo(s))
    /\ listed' = listed \ {s}
    /\ q' = [q EXCEPT ![s] = [t \in Tracks |-> None]]
    /\ UNCHANGED <<turn, ub>>

DelDemo ==
    /\ turn = Idle
    /\ DelClients({c \in Clients : cc[c] # None})
    /\ listed' = {}
    /\ q' = [s \in Sessions |-> [t \in Tracks |-> None]]
    /\ UNCHANGED <<turn, ub>>

----------------------------------------------------------------------------
\* Requests.  A request reaches its handler when its Session header is right
\* and its path is that of the connection's session, or of a listed one,
\* which then becomes the connection's session.
Reaches(s) ==
    /\ turn.c # None /\ s \in listed
    /\ cc[turn.c].session \in {None, s}

Handled(s, state, rtp) ==
    cc' = [cc EXCEPT ![turn.c] = [state |-> state, session |-> s, rtp |-> rtp]]

\* The tracks in T lose their RTP connection.
Freed(T) ==
    turn' = [turn EXCEPT !.freed = @ \cup {t \in T : cc[turn.c].rtp[t] # None}]

\* DESCRIBE, and PLAY or PAUSE before SETUP, which is answered with 455.
BindOnly(s) ==
    /\ Reaches(s)
    /\ Handled(s, cc[turn.c].state, cc[turn.c].rtp)
    /\ UNCHANGED <<q, listed, open, turn, ub>>

NewRtp(s, t, port) ==
    [port |-> port, last |-> 0,
     idx |-> IF cc[turn.c].state = "playing" THEN q[s][t].tail ELSE 0]

\* port is None over TCP.
SETUP(s, t, port) ==
    /\ Reaches(s) /\ q[s][t] # None
    /\ Handled(s, IF cc[turn.c].state = "init" THEN "ready" ELSE cc[turn.c].state,
               [cc[turn.c].rtp EXCEPT ![t] = NewRtp(s, t, port)])
    /\ open' = (open \ PairsOf(turn.c, {t})) \cup ({port} \ {None})
    /\ Freed({t})
    /\ UNCHANGED <<q, listed, ub>>

\* The first free pair, after the sockets of the old connection were closed.
FreePorts(t) == Ports \ (open \ PairsOf(turn.c, {t}))
SETUPUdp(s, t) ==
    Reaches(s) /\ FreePorts(t) # {} /\ SETUP(s, t, Min(FreePorts(t)))

\* Without a pair of sockets: 500, and the old connection is gone.
SETUPFails(s, t) ==
    /\ Reaches(s) /\ q[s][t] # None
    /\ Handled(s, cc[turn.c].state, [cc[turn.c].rtp EXCEPT ![t] = None])
    /\ open' = open \ PairsOf(turn.c, {t})
    /\ Freed({t})
    /\ UNCHANGED <<q, listed, ub>>

PAUSE(s) ==
    /\ Reaches(s) /\ cc[turn.c].state # "init"
    /\ Handled(s, "ready", cc[turn.c].rtp)
    /\ UNCHANGED <<q, listed, open, turn, ub>>

PLAY(s) ==
    /\ Reaches(s) /\ cc[turn.c].state # "init"
    /\ Handled(s, "playing",
               IF cc[turn.c].state = "playing" THEN cc[turn.c].rtp
               ELSE [t \in Tracks |->
                        IF cc[turn.c].rtp[t] = None THEN None
                        ELSE [cc[turn.c].rtp[t] EXCEPT !.idx = q[s][t].tail]])
    /\ UNCHANGED <<q, listed, open, turn, ub>>

\* T is one track, or both when the path names neither.
TEARDOWN(s, T) ==
    /\ Reaches(s)
    /\ LET rtp == [t \in Tracks |-> IF t \in T THEN None ELSE cc[turn.c].rtp[t]]
       IN  Handled(s, IF \A t \in Tracks : rtp[t] = None THEN "init"
                      ELSE cc[turn.c].state, rtp)
    /\ open' = open \ PairsOf(turn.c, T)
    /\ Freed(T)
    /\ UNCHANGED <<q, listed, ub>>

----------------------------------------------------------------------------
\* rtsp_do_event
Accept(c) ==
    /\ turn = Idle /\ cc[c] = None
    /\ cc' = [cc EXCEPT ![c] = NewConn]
    /\ UNCHANGED <<q, listed, open, turn, ub>>

TurnBegins(c) ==
    /\ turn = Idle /\ cc[c] # None
    /\ turn' = [c |-> c, had |-> {t \in Tracks : cc[c].rtp[t] # None}, freed |-> {}]
    /\ UNCHANGED <<q, listed, cc, open, ub>>

\* rtsp_recv_msg fails: the peer closed, an error, or a malformed message.
PeerGone ==
    /\ turn.c # None
    /\ DelClients({turn.c})
    /\ turn' = Idle
    /\ UNCHANGED <<q, listed, ub>>

\* No request is left; if the client plays, the packets its queues hold are
\* sent until the socket is full, k[t] of them.  The RTP connections looked
\* at are those found when the turn began.
TurnEnds(k) ==
    /\ turn.c # None
    /\ turn' = Idle
    /\ UNCHANGED <<q, listed, open>>
    /\ LET c == cc[turn.c]
           sends == {t \in turn.had : StreamqInused(q[c.session][t], c.rtp[t].idx)}
       IN  IF c.state # "playing" THEN UNCHANGED <<cc, ub>>
           ELSE IF turn.freed \cap turn.had # {}
           THEN ub' = "freed rtp connection" /\ UNCHANGED cc
           ELSE /\ UNCHANGED ub
                /\ \A t \in sends :
                      k[t] <= StreamqAhead(q[c.session][t], c.rtp[t].idx)
                /\ cc' = [cc EXCEPT ![turn.c].rtp =
                       [t \in Tracks |-> IF t \in sends
                           THEN TxPackets(q[c.session][t], c.rtp[t], k[t])
                           ELSE c.rtp[t]]]

----------------------------------------------------------------------------
\* rtsp_tx_video, rtsp_tx_audio
Playing(s, t) == {c \in BoundTo(s) : cc[c].state = "playing" /\ cc[c].rtp[t] # None}

\* Room for NbPkts packets is made by dropping the oldest ones.
GetFree(Q) ==
    LET free == Slots - 1 - StreamqAhead(Q, Q.head)
    IN  [Q EXCEPT !.head = (@ + (IF free < NbPkts THEN NbPkts - free ELSE 0)) % Slots]

\* A reader whose packet was dropped goes on with the oldest one.
MoveSlowNot(Q, r) == r                                           \* mutant
MoveSlow(Q, r) ==
    IF ~StreamqInused(Q, r.idx) /\ r.idx # Q.tail THEN [r EXCEPT !.idx = Q.head]
    ELSE r

\* A frame becomes count packets.
PushAll(Q, count) ==
    [Q EXCEPT !.tail = (@ + count) % Slots, !.n = @ + count,
              !.slot = [i \in DOMAIN @ |->
                  IF (i - Q.tail + Slots) % Slots < count
                  THEN Q.n + 1 + ((i - Q.tail + Slots) % Slots) ELSE @[i]]]

\* An encoder that fails returns after the first half: count is then 0 and
\* nothing is sent.
Tx(s, t, count, sent) ==
    /\ turn = Idle /\ q[s][t] # None
    /\ q[s][t].n + count <= MaxPkts
    /\ LET Q0 == GetFree(q[s][t])
           Q1 == PushAll(Q0, count)
       IN  /\ q' = [q EXCEPT ![s][t] = Q1]
           /\ cc' = [c \in Clients |->
                  IF c \notin Playing(s, t) THEN cc[c]
                  ELSE LET r == MoveSlow(Q0, cc[c].rtp[t])
                           ahead == StreamqAhead(Q1, r.idx)
                       IN  [cc[c] EXCEPT !.rtp[t] = TxPackets(Q1, r,
                                IF sent[c] > ahead THEN ahead ELSE sent[c])]]
    /\ UNCHANGED <<listed, open, turn, ub>>

TxVideo(s, count, sent) == "v" \in Tracks /\ Tx(s, "v", count, sent)
TxAudio(s, count, sent) == "a" \in Tracks /\ Tx(s, "a", count, sent)

\* The same, and the turns of a pass of rtsp_do_event follow.
SeverTxVideo(s, count, sent) == TxVideo(s, count, sent)

Requests(s) ==
    \/ BindOnly(s) \/ PAUSE(s) \/ PLAY(s)
    \/ \E t \in Tracks : \/ SETUP(s, t, None) \/ SETUPUdp(s, t)
                         \/ SETUPFails(s, t)
    \/ \E T \in {{t} : t \in Tracks} \cup {Tracks} : TEARDOWN(s, T)

Next ==
    /\ ub = None
    /\ \/ \E s \in Sessions :
             \/ NewSession(s) \/ DelSession(s) \/ Requests(s)
             \/ \E t \in Tracks : SetCodec(s, t)
             \/ \E count \in 0..NbPkts, sent \in [Clients -> 0..Slots-1] :
                   \/ TxVideo(s, count, sent) \/ SeverTxVideo(s, count, sent)
                   \/ TxAudio(s, count, sent)
       \/ \E c \in Clients : Accept(c) \/ TurnBegins(c)
       \/ \E k \in [Tracks -> 0..Slots-1] : TurnEnds(k)
       \/ PeerGone \/ DelDemo

Spec == Init /\ [][Next]_vars

----------------------------------------------------------------------------
Conns == {c \in Clients : cc[c] # None}

\* A connection's session is listed, each of its RTP connections has a stream
\* queue behind it, it is set up before it is ready, and the UDP sockets that
\* are open are those of live RTP connections, each pair in one of them.
RtspLinked ==
    /\ \A c \in Conns :
          LET r == cc[c].rtp IN
          /\ cc[c].session # None => cc[c].session \in listed
          /\ \A t \in Tracks : r[t] # None =>
                /\ cc[c].session # None /\ q[cc[c].session][t] # None
                /\ cc[c].state # "init"
    /\ open = UNION {PairsOf(c, Tracks) : c \in Conns}
    /\ \A c, d \in Conns, t, u \in Tracks :
          cc[c].rtp[t] # None /\ cc[d].rtp[u] # None
          /\ cc[c].rtp[t].port = cc[d].rtp[u].port /\ cc[c].rtp[t].port # None => c = d /\ t = u

\* A playing client reads its queue at a place the writer has not overtaken:
\* what it sends next is newer than all it has sent.
RtspReadsForward ==
    \A s \in Sessions, t \in Tracks : q[s][t] # None => \A c \in Playing(s, t) :
        LET Q == q[s][t]  r == cc[c].rtp[t] IN
        \/ r.idx = Q.tail
        \/ StreamqInused(Q, r.idx) /\ Q.slot[r.idx] > r.last

\* rtsp_do_event keeps no pointer to what a request of the same turn freed.
NoStaleRtp == ub # "freed rtp connection"
============================================================================
