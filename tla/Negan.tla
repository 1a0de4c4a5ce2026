------------------------------- MODULE Negan -------------------------------
(***************************************************************************)
(* The session server of negan.c and negan_adapt.c.  One thread calls      *)
(* NEG_doEvent, which selects, accepts, and then walks the list of clients *)
(* with the pointer to the next one read before the current one is served. *)
(* The protocol is a set of callbacks (external): its messages are MsgLen   *)
(* bytes long, and handling one may bind the client to a session and start *)
(* it playing.  Peers write and close at any time.                         *)
(***************************************************************************)
EXTENDS Integers, Sequences, SequencesExt

CONSTANTS
    Clients,    \* file descriptors of connections
    Sessions,   \* paths
    MsgLen,     \* bytes of a message
    BufMax,     \* sizeof(reqbuf) - 1
    Sent,       \* bound: bytes a peer writes
    None        \* NULL

NeganConstants == MsgLen \in Nat /\ BufMax \in Nat /\ None \notin Clients \cup Sessions

VARIABLES
    sessions,   \* d->m_dlSession
    clients,    \* d->m_dlClient, in order
    peer,       \* what the peer of a descriptor did: bytes written, closed
    cc,         \* m_ptSession, m_enState, bytes read, and messages handled
    walk,       \* rfds and the pointers cc1 and cc of NEG_doEvent
    failed      \* NULL that was dereferenced

vars == <<sessions, clients, peer, cc, walk, failed>>

Quiet == [rfds |-> {}, cc1 |-> None, cc |-> None]
NewClient == [session |-> None, playing |-> FALSE, read |-> 0, reqlen |-> 0, handled |-> 0]

Init ==
    /\ sessions = <<>> /\ clients = <<>> /\ walk = Quiet /\ failed = FALSE
    /\ peer = [c \in Clients |-> [wrote |-> 0, closed |-> FALSE, here |-> FALSE]]
    /\ cc = [c \in Clients |-> NewClient]

Idle == walk = Quiet /\ ~failed

\* The list l after the members of C were unlinked.
Unlinked(l, C) ==
    LET loop[n \in 0 .. Len(l)] ==
            IF n = 0 THEN <<>>
            ELSE IF l[n] \in C THEN loop[n - 1] ELSE Append(loop[n - 1], l[n])
    IN  loop[Len(l)]

----------------------------------------------------------------------------
\* The peers.
Connect(c) ==
    /\ ~peer[c].here /\ ~Contains(clients, c)
    /\ peer' = [peer EXCEPT ![c] = [wrote |-> 0, closed |-> FALSE, here |-> TRUE]]
    /\ UNCHANGED <<sessions, clients, cc, walk, failed>>
Write(c) ==
    /\ peer[c].here /\ ~peer[c].closed /\ peer[c].wrote < Sent
    /\ peer' = [peer EXCEPT ![c].wrote = @ + 1]
    /\ UNCHANGED <<sessions, clients, cc, walk, failed>>
Close(c) ==
    /\ peer[c].here /\ ~peer[c].closed
    /\ peer' = [peer EXCEPT ![c].closed = TRUE]
    /\ UNCHANGED <<sessions, clients, cc, walk, failed>>

----------------------------------------------------------------------------
\* NEG_APT_AllocSession puts the session in the list before the protocol's
\* funcSessionCreate, which may refuse it; NEG_NewSession then uses NULL.
AllocSession(s, ok) ==
    /\ sessions' = IF ok THEN Append(sessions, s) ELSE sessions
    /\ failed' = ~ok
NewSession(s, ok) ==
    /\ Idle
    /\ ~Contains(sessions, s) /\ AllocSession(s, ok)
    /\ UNCHANGED <<clients, peer, cc, walk>>

Bound(s) == {c \in Clients : Contains(clients, c) /\ cc[c].session = s}

\* NEG_APT_FreeClientConnection and close() of the clients in C.
FreeClients(C) ==
    /\ clients' = Unlinked(clients, C)
    /\ peer' = [c \in Clients |-> IF c \in C THEN [peer[c] EXCEPT !.here = FALSE] ELSE peer[c]]
    /\ cc' = [c \in Clients |-> IF c \in C THEN NewClient ELSE cc[c]]

DelSession(s) ==
    /\ Idle /\ Contains(sessions, s)
    /\ FreeClients(Bound(s))
    /\ sessions' = Unlinked(sessions, {s})
    /\ UNCHANGED <<walk, failed>>
Destroy ==
    /\ Idle /\ sessions \o clients # <<>>
    /\ FreeClients(ToSet(clients))
    /\ sessions' = <<>>
    /\ UNCHANGED <<walk, failed>>

----------------------------------------------------------------------------
\* NEG_doEvent.
Unread(c) == peer[c].wrote - cc[c].read
Ready == {c \in ToSet(clients) : Unread(c) > 0 \/ peer[c].closed}
Pending == {c \in Clients : peer[c].here /\ ~Contains(clients, c)}
GetNext(l, c) ==
    LET i == IF c = None THEN 0 ELSE CHOOSE i \in DOMAIN l : l[i] = c
    IN  IF i = Len(l) THEN None ELSE l[i + 1]

\* A pass begins: select, the new connection, the head of the list.
Accept(c) ==
    /\ Idle /\ c \in Pending
    /\ LET l == Append(clients, c) IN
       /\ clients' = l
       /\ walk' = [rfds |-> Ready, cc1 |-> None, cc |-> GetNext(l, None)]
    /\ cc' = [cc EXCEPT ![c] = NewClient]
    /\ UNCHANGED <<sessions, peer, failed>>
\* The protocol refuses the client: NEG_APT_AllocClientConnection unlinks and
\* frees it, and new_client_connection fills in NULL.
AcceptRefused(c) ==
    /\ Idle /\ c \in Pending
    /\ failed' = TRUE
    /\ UNCHANGED <<sessions, clients, peer, cc, walk>>
\* No connection is pending, or accept fails.
NoAccept ==
    /\ Idle /\ Ready \cup Pending # {} /\ clients # <<>>
    /\ walk' = [rfds |-> Ready, cc1 |-> None, cc |-> GetNext(clients, None)]
    /\ UNCHANGED <<sessions, clients, peer, cc, failed>>

\* cc1 = cc, and cc becomes the next one or NULL at the list's head.
VisitStaleNext ==                                                \* mutant
    /\ walk.cc1 = None /\ walk.cc # None
    /\ walk' = [walk EXCEPT !.cc1 = walk.cc,
                            !.cc = GetNext(clients, clients[1])]
    /\ UNCHANGED <<sessions, clients, peer, cc, failed>>
Visit ==
    /\ walk.cc1 = None /\ walk.cc # None
    /\ walk' = [walk EXCEPT !.cc1 = walk.cc, !.cc = GetNext(clients, walk.cc)]
    /\ UNCHANGED <<sessions, clients, peer, cc, failed>>

\* The visit of cc1 ends: funcSelectProcess if it plays, and the next turn.
Leave(w) == IF w.cc = None THEN Quiet ELSE [w EXCEPT !.cc1 = None]
Skip ==
    /\ walk.cc1 # None /\ walk.cc1 \notin walk.rfds
    /\ walk' = Leave(walk)
    /\ UNCHANGED <<sessions, clients, peer, cc, failed>>

\* NEG_APT_RecvMsg of the ready cc1: what came since the last call, cut at
\* the end of the buffer.  Without anything new it returns 0, even if the
\* buffer still holds a message.
Reading == walk.cc1 # None /\ walk.cc1 \in walk.rfds
Taken(c) == LET r == BufMax - cc[c].reqlen IN IF Unread(c) < r THEN Unread(c) ELSE r
\* The peer closed, recv failed (a reset drops what was not read), or the
\* protocol's funcRecvMsgParse (external) finds an invalid frame.
RecvClosed ==
    LET c == walk.cc1 IN
    /\ Reading
    /\ \/ peer[c].closed /\ cc[c].reqlen < BufMax
       \/ Taken(c) > 0 \/ cc[c].reqlen = BufMax
    /\ FreeClients({c})
    /\ walk' = Leave(walk)
    /\ UNCHANGED <<sessions, failed>>
RecvNothing ==
    LET c == walk.cc1 IN
    /\ Reading
    /\ \/ Unread(c) = 0 /\ ~peer[c].closed
       \/ cc[c].reqlen = BufMax     \* no recv: ret is what the stack held
       \/ Unread(c) > 0 /\ cc[c].reqlen + Taken(c) < MsgLen
    /\ cc' = [cc EXCEPT ![c].read = @ + Taken(c), ![c].reqlen = @ + Taken(c)]
    /\ walk' = Leave(walk)
    /\ UNCHANGED <<sessions, clients, peer, failed>>
\* A whole message: it leaves the buffer and funcMsgRequest handles it, which
\* may bind the client to s and let it play.  cc1 is read again.
RecvMsg(s) ==
    LET c == walk.cc1 IN
    /\ Reading /\ Unread(c) > 0 /\ Taken(c) > 0 /\ cc[c].reqlen + Taken(c) >= MsgLen
    /\ s # None => Contains(sessions, s)
    /\ cc' = [cc EXCEPT ![c].read = @ + Taken(c), ![c].reqlen = @ + Taken(c) - MsgLen,
                        ![c].handled = @ + 1, ![c].playing = s # None,
                        ![c].session = IF @ = None THEN s ELSE @]
    /\ UNCHANGED <<sessions, clients, peer, walk, failed>>

Next ==
    \/ \E c \in Clients : Connect(c) \/ Write(c) \/ Close(c) \/ Accept(c) \/ AcceptRefused(c)
    \/ \E s \in Sessions : DelSession(s) \/ \E ok \in BOOLEAN : NewSession(s, ok)
    \/ \E s \in Sessions \cup {None} : RecvMsg(s)
    \/ NoAccept \/ Visit \/ Skip \/ RecvClosed \/ RecvNothing \/ Destroy

\* The thread that calls NEG_doEvent goes on.
Pass == Visit \/ Skip \/ RecvClosed \/ RecvNothing \/ \E s \in Sessions \cup {None} : RecvMsg(s)
Spec == Init /\ [][Next]_vars /\ WF_vars(Pass)

----------------------------------------------------------------------------
\* The bytes of a client are handled once each and in order: those read are
\* in handled messages or in the buffer, and the buffer fits.
BytesKept ==
    \A c \in ToSet(clients) :
        /\ cc[c].read = MsgLen * cc[c].handled + cc[c].reqlen
        /\ cc[c].reqlen <= BufMax /\ cc[c].read <= peer[c].wrote

\* A pass that serves client cc1 has the client before it in the list behind
\* it and goes on with the client after it: no client is left out of a pass
\* or served after it was freed.
WalkInOrder ==
    /\ walk.cc1 # None /\ walk.cc # None => GetNext(clients, walk.cc1) = walk.cc
    /\ walk.cc # None => Contains(clients, walk.cc)

\* A bound client's session is in the session list.
BoundToLive == \A c \in ToSet(clients) : cc[c].session # None => Contains(sessions, cc[c].session)
============================================================================
