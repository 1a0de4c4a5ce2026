------------------------- MODULE RtmpSessionProofs -------------------------
(***************************************************************************)
(* AnswersMatched for every setup and every length of the exchange.  The   *)
(* numbers of the calls begin again with every connection and the queue of *)
(* calls is searched by number only, so what must be shown is that nothing *)
(* of an earlier connection is left when they do, on either side, through  *)
(* every handler that closes the connection half way or opens another one. *)
(* A handler is a composition of operations on the structure; each of them *)
(* is shown to lead from a sound structure to one that a sound structure   *)
(* may become (Keeps), a relation that composes.  A playlist is the one    *)
(* call that goes out under number 0, as often as streams are opened: the  *)
(* numbers of all others are told apart from it and from one another.      *)
(***************************************************************************)
EXTENDS RtmpSession, SequenceTheorems, WellFoundedInduction, TLAPS

CallNames == {"connect", "createStream", "FCSubscribe", "releaseStream", "FCPublish", "publish",
              "deleteStream", "play", "set_playlist", "_checkbw", "pause", "unpause", "seek"}
OtherNames == {"serverBW", "ctrl", "pong", "_result"}
Numbered == CallNames \ {"set_playlist"}
Call == [name : CallNames, txn : Nat]
Packet == [name : CallNames \cup OtherNames, txn : Int, arg : Int]

Structure ==
    [sock : {"none", "up", "broken"}, sid : Int, playing : BOOLEAN, pausing : 0 .. 3,
     pauseStamp : Int, mediaStamp : Int, media : 0 .. 2, ts : [1 .. 2 -> Int], inv : Nat,
     calls : Seq(Call), bw : Nat, seeking : BOOLEAN, auth : Nat, up : Seq(Packet)]

\* The calls that the server answers under their number.
Asked == {"connect", "createStream", "play", "publish", "set_playlist"}

\* Number 0 is a playlist, and a playlist is number 0.
Zero(txn, name) == txn = 0 <=> name = "set_playlist"

\* A packet that asks for an answer has a number that was given, and no call of
\* another kind in the queue has it.
AsksFor(s, p) ==
    p.name \in Asked =>
        /\ p.txn <= s.inv /\ Zero(p.txn, p.name)
        /\ \A j \in 1 .. Len(s.calls) : s.calls[j].txn = p.txn => s.calls[j].name = p.name

Sound(s) ==
    /\ s \in Structure
    /\ \A j \in 1 .. Len(s.calls) : s.calls[j].txn \in 0 .. s.inv /\ Zero(s.calls[j].txn, s.calls[j].name)
    /\ \A i, j \in 1 .. Len(s.calls) : i # j => s.calls[i].txn # s.calls[j].txn \/ s.calls[i].txn = 0
    /\ \A i \in 1 .. Len(s.up) : AsksFor(s, s.up[i])
    /\ s.sock # "up" => s.up = <<>>
    /\ s.sock = "none" => s.calls = <<>> /\ s.inv = 0

\* t is what s may become without a new connection: the calls of t are calls of
\* s, have numbers that s did not give, or are playlists.
Keeps(s, t) ==
    /\ Sound(t) /\ t.auth = s.auth
    /\ t.sock # "none" => t.sock = s.sock /\ s.inv <= t.inv
    /\ t.sock # "none" => \A j \in 1 .. Len(t.calls) :
           t.calls[j].txn > s.inv \/ t.calls[j].txn = 0 \/ \E i \in 1 .. Len(s.calls) : t.calls[j] = s.calls[i]

----------------------------------------------------------------------------
\* The parts of the operations.
LEMMA StructureIs ==
    ASSUME NEW s \in Structure
    PROVE  /\ s.sock \in {"none", "up", "broken"} /\ s.sid \in Int /\ s.pausing \in 0 .. 3
           /\ s.pauseStamp \in Int /\ s.mediaStamp \in Int /\ s.media \in 0 .. 2
           /\ s.ts \in [1 .. 2 -> Int] /\ s.inv \in Nat /\ s.calls \in Seq(Call) /\ s.bw \in Nat
           /\ s.auth \in Nat /\ s.up \in Seq(Packet)
  BY DEF Structure

LEMMA CallIs ==
    ASSUME NEW s \in Structure, NEW j \in 1 .. Len(s.calls)
    PROVE  s.calls[j] \in Call /\ s.calls[j].txn \in Nat
  <1>1. s.calls[j] \in Call
    BY StructureIs
  <1> QED BY <1>1 DEF Call

\* One field of a structure is set.
LEMMA SetFields ==
    ASSUME NEW s \in Structure
    PROVE  /\ \A x \in {"none", "up", "broken"} : [s EXCEPT !.sock = x] \in Structure
           /\ \A x \in Int : [s EXCEPT !.sid = x] \in Structure
           /\ \A x \in BOOLEAN : [s EXCEPT !.playing = x] \in Structure
           /\ \A x \in 0 .. 3 : [s EXCEPT !.pausing = x] \in Structure
           /\ \A x \in Int : [s EXCEPT !.pauseStamp = x] \in Structure
           /\ \A x \in Int : [s EXCEPT !.mediaStamp = x] \in Structure
           /\ \A x \in 0 .. 2 : [s EXCEPT !.media = x] \in Structure
           /\ \A x \in [1 .. 2 -> Int] : [s EXCEPT !.ts = x] \in Structure
           /\ \A x \in Nat : [s EXCEPT !.inv = x] \in Structure
           /\ \A x \in Seq(Call) : [s EXCEPT !.calls = x] \in Structure
           /\ \A x \in Nat : [s EXCEPT !.bw = x] \in Structure
           /\ \A x \in BOOLEAN : [s EXCEPT !.seeking = x] \in Structure
           /\ \A x \in Nat : [s EXCEPT !.auth = x] \in Structure
           /\ \A x \in Seq(Packet) : [s EXCEPT !.up = x] \in Structure
  BY DEF Structure

\* The fields the numbering is about, when others are set.
LEMMA SetOthers ==
    ASSUME NEW s \in Structure, NEW t, NEW x,
           t \in {[s EXCEPT !.sid = x], [s EXCEPT !.playing = x], [s EXCEPT !.pausing = x],
                  [s EXCEPT !.pauseStamp = x], [s EXCEPT !.mediaStamp = x], [s EXCEPT !.media = x],
                  [s EXCEPT !.ts = x], [s EXCEPT !.bw = x], [s EXCEPT !.seeking = x]}
    PROVE  t.sock = s.sock /\ t.auth = s.auth /\ t.inv = s.inv /\ t.calls = s.calls /\ t.up = s.up
  BY DEF Structure

LEMMA KeepsTwice ==
    ASSUME NEW s, NEW t, NEW u, Sound(s), Keeps(s, t), Keeps(t, u)
    PROVE  Keeps(s, u)
  <1>0. s \in Structure /\ t \in Structure /\ u \in Structure
    BY DEF Keeps, Sound
  <1>1. s.inv \in Nat /\ t.inv \in Nat /\ u.inv \in Nat
    BY <1>0, StructureIs
  <1>2. u.sock # "none" => /\ t.sock # "none" /\ u.sock = s.sock
                           /\ s.inv <= t.inv /\ t.inv <= u.inv /\ s.inv <= u.inv
    BY <1>1 DEF Keeps
  <1>3. ASSUME u.sock # "none", NEW j \in 1 .. Len(u.calls)
        PROVE  \/ u.calls[j].txn > s.inv \/ u.calls[j].txn = 0
               \/ \E i \in 1 .. Len(s.calls) : u.calls[j] = s.calls[i]
    <2>0. u.calls[j].txn \in Nat
      BY <1>0, CallIs
    <2>1. CASE u.calls[j].txn > t.inv
      BY <2>0, <2>1, <1>1, <1>2, <1>3
    <2>2. CASE \E i \in 1 .. Len(t.calls) : u.calls[j] = t.calls[i]
      BY <2>2, <1>2, <1>3 DEF Keeps
    <2>3. CASE u.calls[j].txn = 0
      BY <2>3
    <2> QED BY <1>3, <2>1, <2>2, <2>3 DEF Keeps
  <1> QED BY <1>2, <1>3 DEF Keeps

LEMMA KeepsSound == ASSUME NEW s, NEW t, Keeps(s, t) PROVE Sound(t)
  BY DEF Keeps

\* What changes nothing that the numbering is about.
LEMMA KeepsSame ==
    ASSUME NEW s, NEW t, Sound(s), t \in Structure,
           t.sock = s.sock, t.auth = s.auth, t.inv = s.inv, t.calls = s.calls, t.up = s.up
    PROVE  Keeps(s, t) /\ Sound(t)
  <1>1. s.inv \in Nat
    BY StructureIs DEF Sound
  <1> QED BY <1>1 DEF Keeps, Sound, AsksFor

LEMMA KeepsItself == ASSUME NEW s, Sound(s) PROVE Keeps(s, s)
  BY KeepsSame DEF Sound

LEMMA CloseFacts ==
    ASSUME NEW s \in Structure
    PROVE  /\ CloseInternal(s) \in Structure
           /\ CloseInternal(s).sock = "none" /\ CloseInternal(s).inv = 0
           /\ CloseInternal(s).calls = <<>> /\ CloseInternal(s).up = <<>>
           /\ CloseInternal(s).auth = s.auth
  <1> DEFINE a == [s EXCEPT !.sock = "none"]
             b == [a EXCEPT !.sid = -1]
             c == [b EXCEPT !.bw = 0]
             d == [c EXCEPT !.seeking = FALSE]
             e == [d EXCEPT !.ts = <<0, 0>>]
             f == [e EXCEPT !.calls = <<>>]
             g == [f EXCEPT !.inv = 0]
             h == [g EXCEPT !.playing = FALSE]
             k == [h EXCEPT !.up = <<>>]
  <1>0. /\ <<>> \in Seq(Call) /\ <<>> \in Seq(Packet) /\ <<0, 0>> \in [1 .. 2 -> Int]
        /\ -1 \in Int /\ 0 \in Nat /\ FALSE \in BOOLEAN
    OBVIOUS
  <1>1. a \in Structure BY SetFields
  <1> HIDE DEF a
  <1>2. b \in Structure BY <1>0, <1>1, SetFields
  <1> HIDE DEF b
  <1>3. c \in Structure BY <1>0, <1>2, SetFields
  <1> HIDE DEF c
  <1>4. d \in Structure BY <1>0, <1>3, SetFields
  <1> HIDE DEF d
  <1>5. e \in Structure BY <1>0, <1>4, SetFields
  <1> HIDE DEF e
  <1>6. f \in Structure BY <1>0, <1>5, SetFields
  <1> HIDE DEF f
  <1>7. g \in Structure BY <1>0, <1>6, SetFields
  <1> HIDE DEF g
  <1>8. h \in Structure BY <1>0, <1>7, SetFields
  <1> HIDE DEF h
  <1>9. k \in Structure BY <1>0, <1>8, SetFields
  <1>10. CloseInternal(s) = k
    BY DEF a, b, c, d, e, f, g, h, CloseInternal
  <1>11. /\ CloseInternal(s).sock = "none" /\ CloseInternal(s).inv = 0
         /\ CloseInternal(s).calls = <<>> /\ CloseInternal(s).up = <<>>
         /\ CloseInternal(s).auth = s.auth
    BY DEF CloseInternal, Structure
  <1> QED BY <1>9, <1>10, <1>11

LEMMA CloseKeeps ==
    ASSUME NEW s \in Structure, NEW u, u.auth = s.auth
    PROVE  Keeps(u, CloseInternal(s)) /\ Sound(CloseInternal(s))
  BY CloseFacts DEF Keeps, Sound, AsksFor

LEMMA SendFacts ==
    ASSUME NEW s \in Structure, s.sock = "up", NEW p \in Packet
    PROVE  /\ SendPacket(s, p) = [s EXCEPT !.up = Append(s.up, p)]
           /\ SendPacket(s, p) \in Structure
  <1>1. SendPacket(s, p) = [s EXCEPT !.up = Append(s.up, p)]
    BY DEF SendPacket
  <1>2. Append(s.up, p) \in Seq(Packet)
    BY StructureIs
  <1>3. s.up \in Seq(Packet)
    BY StructureIs
  <1> QED BY <1>1, <1>2, <1>3, SetFields

\* A packet that is no call.
LEMMA SendKeeps ==
    ASSUME NEW s, Sound(s), NEW p \in Packet, p.name \notin Asked
    PROVE  Keeps(s, SendPacket(s, p))
  <1>1. CASE s.sock # "up"
    BY <1>1, CloseKeeps DEF SendPacket, Sound
  <1>2. CASE s.sock = "up"
    <2> DEFINE t == SendPacket(s, p)
    <2>1. /\ t \in Structure /\ t.sock = "up" /\ t.inv = s.inv /\ t.calls = s.calls
          /\ t.auth = s.auth /\ t.up = Append(s.up, p)
      <3>1. s \in Structure BY DEF Sound
      <3>2. t \in Structure /\ t = [s EXCEPT !.up = Append(s.up, p)]
        BY <1>2, <3>1, SendFacts
      <3> HIDE DEF t
      <3> QED BY <1>2, <3>1, <3>2 DEF Structure
    <2>2. \A i \in 1 .. Len(t.up) : AsksFor(t, t.up[i])
      <3> SUFFICES ASSUME NEW i \in 1 .. Len(t.up) PROVE AsksFor(t, t.up[i]) OBVIOUS
      <3>1. s.up \in Seq(Packet) BY StructureIs DEF Sound
      <3>2. t.up[i] = p \/ (i \in 1 .. Len(s.up) /\ t.up[i] = s.up[i])
        BY <2>1, <3>1
      <3> HIDE DEF t
      <3> QED BY <2>1, <3>2 DEF AsksFor, Sound
    <2> HIDE DEF t
    <2>3. Sound(t)
      BY <1>2, <2>1, <2>2 DEF Sound
    <2>4. Keeps(s, t)
      <3>1. s.inv \in Nat
        BY StructureIs DEF Sound
      <3>2. /\ s.inv <= t.inv /\ t.auth = s.auth /\ t.sock = s.sock
            /\ \A j \in 1 .. Len(t.calls) : \E i \in 1 .. Len(s.calls) : t.calls[j] = s.calls[i]
        BY <1>2, <2>1, <3>1
      <3> QED BY <2>3, <3>2 DEF Keeps
    <2> QED BY <2>4 DEF t
  <1> QED BY <1>1, <1>2

\* A remote call: a number that no call has.
LEMMA InvokeFacts ==
    ASSUME NEW s, Sound(s), s.sock = "up", NEW name \in CallNames, NEW arg \in Int, NEW queue \in BOOLEAN,
           NEW t, t = Invoke(s, name, arg, queue)
    PROVE  /\ t \in Structure /\ t.sock = "up" /\ t.auth = s.auth /\ t.inv = s.inv + 1
           /\ t.up = Append(s.up, [name |-> name, txn |-> s.inv + 1, arg |-> arg])
           /\ t.calls = IF queue THEN Append(s.calls, [name |-> name, txn |-> s.inv + 1]) ELSE s.calls
  <1> DEFINE n == s.inv + 1
             p == [name |-> name, txn |-> n, arg |-> arg]
             a == [s EXCEPT !.inv = n]
             b == [a EXCEPT !.up = Append(a.up, p)]
  <1>1. s \in Structure /\ n \in Nat /\ s.up \in Seq(Packet) /\ s.calls \in Seq(Call)
    BY StructureIs DEF Sound
  <1>2. /\ a \in Structure /\ a.sock = "up" /\ a.auth = s.auth /\ a.inv = n /\ a.up = s.up
        /\ a.calls = s.calls
    <2>1. a \in Structure
      BY <1>1, SetFields
    <2> QED BY <1>1, <2>1 DEF Structure
  <1>3. p \in Packet
    BY <1>1 DEF Packet
  <1>4. [name |-> name, txn |-> n] \in Call
    BY <1>1 DEF Call
  <1>5. SendPacket(a, p) = b /\ b \in Structure
    <2> HIDE DEF a, p
    <2> QED BY <1>2, <1>3, SendFacts
  <1>6. /\ b.sock = "up" /\ b.auth = s.auth /\ b.inv = n /\ b.up = Append(s.up, p)
        /\ b.calls = s.calls
    <2> HIDE DEF a, p
    <2> QED BY <1>2 DEF Structure
  <1>7. t = IF queue THEN [b EXCEPT !.calls = Append(b.calls, [name |-> name, txn |-> n])] ELSE b
    <2> HIDE DEF b
    <2> QED BY <1>5 DEF Invoke, AV_queue
  <1> HIDE DEF a, b
  <1>8. CASE queue
    <2> DEFINE q == Append(s.calls, [name |-> name, txn |-> n])
    <2>1. q \in Seq(Call)
      BY <1>1, <1>4
    <2>2. t = [b EXCEPT !.calls = q]
      BY <1>6, <1>7, <1>8
    <2> HIDE DEF q, p, n
    <2>5. b \in Structure
      BY <1>5
    <2>6. [b EXCEPT !.calls = q] \in Structure
      BY <2>1, <2>5, SetFields
    <2>3. t \in Structure
      BY <2>2, <2>6
    <2>4. t.sock = "up" /\ t.auth = s.auth /\ t.inv = n /\ t.up = Append(s.up, p) /\ t.calls = q
      BY <1>5, <1>6, <2>2 DEF Structure
    <2> QED BY <2>3, <2>4, <1>8 DEF q, p, n
  <1>9. CASE ~queue
    BY <1>5, <1>6, <1>7, <1>9
  <1> QED BY <1>8, <1>9

LEMMA InvokeKeeps ==
    ASSUME NEW s, Sound(s), NEW name \in Numbered, NEW arg \in Int, NEW queue \in BOOLEAN
    PROVE  Keeps(s, Invoke(s, name, arg, queue))
  <1> DEFINE t == Invoke(s, name, arg, queue)
             n == s.inv + 1
             p == [name |-> name, txn |-> n, arg |-> arg]
             c == [name |-> name, txn |-> n]
  <1>0. /\ s \in Structure /\ s.inv \in Nat /\ n \in Nat /\ s.up \in Seq(Packet) /\ s.calls \in Seq(Call)
        /\ name \in CallNames /\ name # "set_playlist" /\ n # 0
    BY StructureIs DEF Sound, Numbered
  <1>1. CASE s.sock # "up"
    <2> DEFINE a == [s EXCEPT !.inv = n]
    <2>1. a \in Structure
      BY <1>0, SetFields
    <2>2. a.sock = s.sock /\ a.auth = s.auth
      BY <1>0 DEF Structure
    <2>3. t = SendPacket(a, p)
      BY <1>1 DEF Invoke
    <2> HIDE DEF a
    <2>4. t = CloseInternal(a)
      BY <1>1, <2>2, <2>3 DEF SendPacket
    <2> QED BY <2>1, <2>2, <2>4, CloseKeeps
  <1>2. CASE s.sock = "up"
    <2>0. t = Invoke(s, name, arg, queue)
      OBVIOUS
    <2> HIDE DEF t
    <2>1. /\ t \in Structure /\ t.sock = "up" /\ t.auth = s.auth /\ t.inv = n
          /\ t.up = Append(s.up, p) /\ t.calls = IF queue THEN Append(s.calls, c) ELSE s.calls
      BY SMTT(30), <1>0, <1>2, <2>0, InvokeFacts
    <2>2. /\ t.calls \in Seq(Call) /\ \A j \in 1 .. Len(t.calls) : t.calls[j] \in Call
          /\ \A j \in 1 .. Len(s.calls) : /\ s.calls[j].txn \in 0 .. s.inv
                                          /\ Zero(s.calls[j].txn, s.calls[j].name)
      BY <2>1, CallIs, StructureIs DEF Sound
    <2>3. \A j \in 1 .. Len(t.calls) :
              \/ j \in 1 .. Len(s.calls) /\ t.calls[j] = s.calls[j]
              \/ queue /\ j = Len(s.calls) + 1 /\ t.calls[j] = c
      <3> HIDE DEF c, p, n
      <3>1. CASE queue BY <1>0, <2>1, <3>1
      <3>2. CASE ~queue BY <1>0, <2>1, <3>2
      <3> QED BY <3>1, <3>2
    <2>4. \A j \in 1 .. Len(t.calls) : t.calls[j].txn \in 0 .. t.inv /\ Zero(t.calls[j].txn, t.calls[j].name)
      <3> SUFFICES ASSUME NEW j \in 1 .. Len(t.calls)
                   PROVE  t.calls[j].txn \in 0 .. n /\ Zero(t.calls[j].txn, t.calls[j].name)
        BY <2>1
      <3>1. c.txn = n /\ Zero(c.txn, c.name)
        BY <1>0 DEF Zero
      <3> HIDE DEF c
      <3>2. s.inv \in Nat /\ n = s.inv + 1 BY <1>0
      <3> HIDE DEF n
      <3>3. CASE j \in 1 .. Len(s.calls) /\ t.calls[j] = s.calls[j]
        <4>1. s.calls[j].txn \in 0 .. s.inv /\ Zero(s.calls[j].txn, s.calls[j].name)
          BY <2>2, <3>3
        <4> QED BY <3>2, <3>3, <4>1
      <3>4. CASE t.calls[j] = c
        BY <3>1, <3>2, <3>4
      <3> QED BY <2>3, <3>3, <3>4
    <2>5. ASSUME NEW i \in 1 .. Len(t.calls), NEW j \in 1 .. Len(t.calls), i # j
          PROVE  t.calls[i].txn # t.calls[j].txn \/ t.calls[i].txn = 0
      <3>1. c.txn = n /\ \A k \in 1 .. Len(s.calls) : s.calls[k].txn # n
        BY <1>0, <2>2
      <3> HIDE DEF c, n
      <3> QED BY <2>3, <2>5, <3>1 DEF Sound
    <2>6. ASSUME NEW i \in 1 .. Len(t.up) PROVE AsksFor(t, t.up[i])
      <3>1. t.up[i] = p \/ (i \in 1 .. Len(s.up) /\ t.up[i] = s.up[i])
        BY <1>0, <2>1, <2>6
      <3>2. CASE t.up[i] = p
        <4>1. p.name = name /\ p.txn = n /\ c.txn = n /\ c.name = name /\ Zero(n, name)
          BY <1>0 DEF Zero
        <4>2. \A k \in 1 .. Len(s.calls) : s.calls[k].txn # n
          BY <1>0, <2>2
        <4> HIDE DEF p, c, n
        <4>3. \A j \in 1 .. Len(t.calls) : t.calls[j].txn = n => t.calls[j].name = name
          BY <2>3, <4>1, <4>2
        <4> QED BY SMTT(30), <1>0, <2>1, <3>2, <4>1, <4>3 DEF AsksFor
      <3>3. CASE i \in 1 .. Len(s.up) /\ t.up[i] = s.up[i]
        <4>1. AsksFor(s, t.up[i])
          BY <3>3 DEF Sound
        <4>2. t.up[i].txn \in Int
          <5>1. s.up[i] \in Packet BY <1>0, <3>3
          <5> QED BY <3>3, <5>1 DEF Packet
        <4>3. c.txn = n /\ s.inv \in Nat /\ n = s.inv + 1
          BY <1>0
        <4> HIDE DEF c, n
        <4>4. ASSUME t.up[i].name \in Asked
              PROVE  /\ t.up[i].txn <= t.inv /\ Zero(t.up[i].txn, t.up[i].name)
                     /\ \A j \in 1 .. Len(t.calls) :
                           t.calls[j].txn = t.up[i].txn => t.calls[j].name = t.up[i].name
          <5>1. /\ t.up[i].txn <= s.inv /\ Zero(t.up[i].txn, t.up[i].name)
                /\ \A j \in 1 .. Len(s.calls) :
                      s.calls[j].txn = t.up[i].txn => s.calls[j].name = t.up[i].name
            BY <4>1, <4>4 DEF AsksFor
          <5>2. t.up[i].txn <= t.inv /\ c.txn # t.up[i].txn
            BY SMTT(30), <2>1, <4>2, <4>3, <5>1
          <5> QED BY <2>3, <5>1, <5>2
        <4> QED BY <4>4 DEF AsksFor
      <3> QED BY <3>1, <3>2, <3>3
    <2>7. Sound(t)
      BY <2>1, <2>4, <2>5, <2>6 DEF Sound
    <2>8. ASSUME NEW j \in 1 .. Len(t.calls)
          PROVE  t.calls[j].txn > s.inv \/ \E i \in 1 .. Len(s.calls) : t.calls[j] = s.calls[i]
      <3>1. c.txn = n /\ s.inv \in Nat /\ n = s.inv + 1
        BY <1>0
      <3>2. c.txn > s.inv
        BY <3>1
      <3> HIDE DEF c, n
      <3> QED BY <2>3, <3>2
    <2>9. s.inv <= t.inv
      BY <1>0, <2>1
    <2> QED BY <1>2, <2>1, <2>7, <2>8, <2>9 DEF Keeps, t
  <1> QED BY <1>1, <1>2

LEMMA EraseKeeps ==
    ASSUME NEW s, Sound(s), NEW k \in 1 .. Len(s.calls)
    PROVE  /\ Keeps(s, [s EXCEPT !.calls = AV_erase(s.calls, k)])
           /\ [s EXCEPT !.calls = AV_erase(s.calls, k)].sock = s.sock
  <1> DEFINE q == AV_erase(s.calls, k)
             t == [s EXCEPT !.calls = q]
  <1>0. s \in Structure /\ s.inv \in Nat /\ s.calls \in Seq(Call)
    BY StructureIs DEF Sound
  <1>1. /\ q \in Seq(Call)
        /\ \A j \in 1 .. Len(q) : /\ (IF j < k THEN j ELSE j + 1) \in 1 .. Len(s.calls)
                                  /\ q[j] = s.calls[IF j < k THEN j ELSE j + 1]
    <2> DEFINE a == SubSeq(s.calls, 1, k - 1)
               b == SubSeq(s.calls, k + 1, Len(s.calls))
    <2>1. /\ a \in Seq(Call) /\ Len(a) = k - 1
          /\ \A j \in 1 .. k - 1 : a[j] = s.calls[j]
      BY <1>0
    <2>2. /\ b \in Seq(Call) /\ Len(b) = Len(s.calls) - k
          /\ \A j \in 1 .. Len(s.calls) - k : b[j] = s.calls[j + k]
      BY <1>0
    <2>3. q = a \o b
      BY DEF AV_erase, RemoveAt
    <2> HIDE DEF a, b, q
    <2>4. q \in Seq(Call) /\ Len(q) = Len(s.calls) - 1
      BY <1>0, <2>1, <2>2, <2>3
    <2>5. ASSUME NEW j \in 1 .. Len(q), j < k PROVE j \in 1 .. Len(s.calls) /\ q[j] = s.calls[j]
      BY <1>0, <2>1, <2>2, <2>3, <2>4, <2>5
    <2>6. ASSUME NEW j \in 1 .. Len(q), ~(j < k)
          PROVE  j + 1 \in 1 .. Len(s.calls) /\ q[j] = s.calls[j + 1]
      <3>1. j - (k - 1) \in 1 .. Len(s.calls) - k /\ j - (k - 1) + k = j + 1
        BY <1>0, <2>4, <2>6
      <3>2. q[j] = b[j - (k - 1)]
        BY <1>0, <2>1, <2>2, <2>3, <2>4, <2>6
      <3>3. b[j - (k - 1)] = s.calls[j - (k - 1) + k]
        BY <2>2, <3>1
      <3>4. j + 1 \in 1 .. Len(s.calls)
        BY <1>0, <2>4, <2>6
      <3> QED BY <3>1, <3>2, <3>3, <3>4
    <2> QED BY <2>4, <2>5, <2>6
  <1> HIDE DEF q
  <1>2. /\ t \in Structure /\ t.calls = q /\ t.sock = s.sock /\ t.auth = s.auth /\ t.inv = s.inv
        /\ t.up = s.up
    <2>1. t \in Structure
      BY <1>0, <1>1, SetFields
    <2> QED BY <1>0, <2>1 DEF Structure
  <1> HIDE DEF t
  <1>3. \A i, j \in 1 .. Len(q) : i # j => q[i].txn # q[j].txn \/ q[i].txn = 0
    <2> SUFFICES ASSUME NEW i \in 1 .. Len(q), NEW j \in 1 .. Len(q), i # j
                 PROVE  q[i].txn # q[j].txn \/ q[i].txn = 0
      OBVIOUS
    <2> DEFINE a == IF i < k THEN i ELSE i + 1
               b == IF j < k THEN j ELSE j + 1
    <2>1. a # b OBVIOUS
    <2>2. a \in 1 .. Len(s.calls) /\ b \in 1 .. Len(s.calls) /\ q[i] = s.calls[a] /\ q[j] = s.calls[b]
      BY <1>1
    <2> HIDE DEF a, b
    <2> QED BY <2>1, <2>2 DEF Sound
  <1>4. Sound(t)
    <2>1. \A j \in 1 .. Len(t.calls) : t.calls[j].txn \in 0 .. t.inv /\ Zero(t.calls[j].txn, t.calls[j].name)
      BY <1>1, <1>2 DEF Sound
    <2>2. ASSUME NEW i \in 1 .. Len(t.up) PROVE AsksFor(t, t.up[i])
      <3>1. AsksFor(s, t.up[i]) BY <1>2 DEF Sound
      <3>2. \A j \in 1 .. Len(t.calls) : \E m \in 1 .. Len(s.calls) : t.calls[j] = s.calls[m]
        BY <1>1, <1>2
      <3> QED BY <1>2, <3>1, <3>2 DEF AsksFor
    <2>3. t.sock = "none" => t.calls = <<>>
      <3>1. s.sock # "none"
        BY <1>0 DEF Sound
      <3> QED BY <1>2, <3>1
    <2> QED BY <1>2, <1>3, <2>1, <2>2, <2>3 DEF Sound
  <1>5. Keeps(s, t)
    <2>1. s.inv <= t.inv
      BY <1>0, <1>2
    <2>2. \A j \in 1 .. Len(t.calls) : \E i \in 1 .. Len(s.calls) : t.calls[j] = s.calls[i]
      BY <1>1, <1>2
    <2> QED BY <1>2, <1>4, <2>1, <2>2 DEF Keeps
  <1> QED BY <1>2, <1>5 DEF t, q

\* A call on a connection that is up leaves it up.
LEMMA InvokeStaysUp ==
    ASSUME NEW s, Sound(s), s.sock = "up", NEW name \in CallNames, NEW arg \in Int, NEW queue \in BOOLEAN
    PROVE  Invoke(s, name, arg, queue).sock = "up" /\ Invoke(s, name, arg, queue).auth = s.auth
  <1> DEFINE t == Invoke(s, name, arg, queue)
  <1>1. t = Invoke(s, name, arg, queue)
    OBVIOUS
  <1> HIDE DEF t
  <1>2. /\ t \in Structure /\ t.sock = "up" /\ t.auth = s.auth /\ t.inv = s.inv + 1
        /\ t.up = Append(s.up, [name |-> name, txn |-> s.inv + 1, arg |-> arg])
        /\ t.calls = IF queue THEN Append(s.calls, [name |-> name, txn |-> s.inv + 1]) ELSE s.calls
    BY <1>1, InvokeFacts
  <1> QED BY <1>1, <1>2

\* Min is of a set of places in a queue.
LEMMA FirstIs ==
    ASSUME NEW n \in Nat, NEW S \in SUBSET (1 .. n), S # {}
    PROVE  Min(S) \in S
  <1>1. IsWellFoundedOn(OpToRel(<, Nat), Nat)
    BY NatLessThanWellFounded
  <1>2. S \subseteq Nat
    OBVIOUS
  <1>3. PICK x \in S : \A y \in S : ~(<<y, x>> \in OpToRel(<, Nat))
    BY <1>1, <1>2, WFMin, Zenon
  <1>4. \A y \in S : ~(y < x)
    BY <1>2, <1>3 DEF OpToRel
  <1>5. \A y \in S : x <= y
    BY <1>4
  <1> QED BY <1>5 DEF Min

----------------------------------------------------------------------------
\* A playlist: number 0 once more.
LEMMA PlaylistFacts ==
    ASSUME NEW s, Sound(s), s.sock = "up", NEW t, t = SendPlaylist(s)
    PROVE  /\ t \in Structure /\ t.sock = "up" /\ t.auth = s.auth /\ t.inv = s.inv
           /\ t.up = Append(s.up, [name |-> "set_playlist", txn |-> 0, arg |-> 0])
           /\ t.calls = Append(s.calls, [name |-> "set_playlist", txn |-> 0])
  <1> DEFINE p == [name |-> "set_playlist", txn |-> 0, arg |-> 0]
             c == [name |-> "set_playlist", txn |-> 0]
             b == [s EXCEPT !.up = Append(s.up, p)]
             q == Append(s.calls, c)
  <1>1. s \in Structure /\ s.up \in Seq(Packet) /\ s.calls \in Seq(Call)
    BY StructureIs DEF Sound
  <1>2. p \in Packet /\ c \in Call
    BY DEF Packet, Call, CallNames
  <1>3. SendPacket(s, p) = b /\ b \in Structure
    <2> HIDE DEF p
    <2> QED BY <1>1, <1>2, SendFacts
  <1>4. b.sock = "up" /\ b.auth = s.auth /\ b.inv = s.inv /\ b.up = Append(s.up, p) /\ b.calls = s.calls
    <2> HIDE DEF p
    <2> QED BY <1>1 DEF Structure
  <1>5. t = [b EXCEPT !.calls = Append(b.calls, c)]
    <2> HIDE DEF b
    <2> QED BY <1>3 DEF SendPlaylist, AV_queue
  <1>6. q \in Seq(Call)
    BY <1>1, <1>2
  <1> HIDE DEF b, p, c, q
  <1>7. t = [b EXCEPT !.calls = q]
    BY <1>4, <1>5 DEF q
  <1>8. t \in Structure
    <2>1. [b EXCEPT !.calls = q] \in Structure
      BY <1>3, <1>6, SetFields
    <2> QED BY <1>7, <2>1
  <1>9. t.sock = "up" /\ t.auth = s.auth /\ t.inv = s.inv /\ t.up = Append(s.up, p) /\ t.calls = q
    BY <1>3, <1>4, <1>7 DEF Structure
  <1> QED BY <1>8, <1>9 DEF p, c, q

LEMMA PlaylistKeeps == ASSUME NEW s, Sound(s) PROVE Keeps(s, SendPlaylist(s))
  <1> DEFINE t == SendPlaylist(s)
             p == [name |-> "set_playlist", txn |-> 0, arg |-> 0]
             c == [name |-> "set_playlist", txn |-> 0]
  <1>0. s \in Structure /\ s.inv \in Nat /\ s.up \in Seq(Packet) /\ s.calls \in Seq(Call)
    BY StructureIs DEF Sound
  <1>1. CASE s.sock # "up"
    <2>1. t = CloseInternal(s)
      BY <1>1 DEF SendPlaylist, SendPacket
    <2> QED BY <1>0, <2>1, CloseKeeps
  <1>2. CASE s.sock = "up"
    <2>0. t = SendPlaylist(s)
      OBVIOUS
    <2> HIDE DEF t
    <2>1. /\ t \in Structure /\ t.sock = "up" /\ t.auth = s.auth /\ t.inv = s.inv
          /\ t.up = Append(s.up, p) /\ t.calls = Append(s.calls, c)
      BY <1>2, <2>0, PlaylistFacts
    <2>2. /\ c.txn = 0 /\ c.name = "set_playlist" /\ p.txn = 0 /\ p.name = "set_playlist"
          /\ Zero(0, "set_playlist")
      BY DEF Zero
    <2> HIDE DEF c, p
    <2>3. \A j \in 1 .. Len(t.calls) : t.calls[j] = c \/ (j \in 1 .. Len(s.calls) /\ t.calls[j] = s.calls[j])
      BY <1>0, <2>1
    <2>4. ASSUME NEW j \in 1 .. Len(t.calls)
          PROVE  t.calls[j].txn \in 0 .. t.inv /\ Zero(t.calls[j].txn, t.calls[j].name)
      <3>1. CASE t.calls[j] = c
        BY <1>0, <2>1, <2>2, <3>1
      <3>2. CASE j \in 1 .. Len(s.calls) /\ t.calls[j] = s.calls[j]
        BY <2>1, <3>2 DEF Sound
      <3> QED BY <2>3, <3>1, <3>2
    <2>5. ASSUME NEW i \in 1 .. Len(t.calls), NEW j \in 1 .. Len(t.calls), i # j
          PROVE  t.calls[i].txn # t.calls[j].txn \/ t.calls[i].txn = 0
      <3>1. CASE t.calls[i] = c \/ t.calls[j] = c
        BY <2>2, <3>1
      <3>2. CASE /\ i \in 1 .. Len(s.calls) /\ t.calls[i] = s.calls[i]
                 /\ j \in 1 .. Len(s.calls) /\ t.calls[j] = s.calls[j]
        BY <2>5, <3>2 DEF Sound
      <3> QED BY <2>3, <3>1, <3>2
    <2>6. ASSUME NEW i \in 1 .. Len(t.up) PROVE AsksFor(t, t.up[i])
      <3>0. /\ t.up[i] = p \/ (i \in 1 .. Len(s.up) /\ t.up[i] = s.up[i])
            /\ \A j \in 1 .. Len(t.calls) : Zero(t.calls[j].txn, t.calls[j].name)
        BY <1>0, <2>1, <2>4
      <3>1. CASE t.up[i] = p
        BY <1>0, <2>1, <2>2, <3>0, <3>1 DEF AsksFor, Zero
      <3>2. CASE i \in 1 .. Len(s.up) /\ t.up[i] = s.up[i]
        <4>1. AsksFor(s, t.up[i])
          BY <3>2 DEF Sound
        <4> QED BY <2>1, <2>2, <2>3, <4>1 DEF AsksFor, Zero
      <3> QED BY <3>0, <3>1, <3>2
    <2>7. Sound(t)
      BY <2>1, <2>4, <2>5, <2>6 DEF Sound
    <2>8. s.inv <= t.inv
      BY <1>0, <2>1
    <2> QED BY <1>2, <2>1, <2>2, <2>3, <2>7, <2>8 DEF Keeps, t
  <1> QED BY <1>1, <1>2

\* Every operation of the client keeps a sound structure sound.
LEMMA CallsKeep ==
    ASSUME NEW s, Sound(s)
    PROVE  /\ Keeps(s, SendConnectPacket(s)) /\ Keeps(s, RTMP_SendCreateStream(s))
           /\ Keeps(s, SendFCSubscribe(s)) /\ Keeps(s, SendReleaseStream(s)) /\ Keeps(s, SendFCPublish(s))
           /\ Keeps(s, SendPublish(s)) /\ Keeps(s, SendPlay(s)) /\ Keeps(s, SendPlaylist(s))
           /\ Keeps(s, SendCheckBW(s))
           /\ \A id \in Int : Keeps(s, SendDeleteStream(s, id))
           /\ \A pause \in BOOLEAN, time \in Int : Keeps(s, RTMP_SendPause(s, pause, time))
  <1>1. \A name \in Numbered, arg \in Int, queue \in BOOLEAN : Keeps(s, Invoke(s, name, arg, queue))
    BY InvokeKeeps
  <1>0. \A name \in Numbered : Keeps(s, Invoke(s, name, 0, TRUE)) /\ Keeps(s, Invoke(s, name, 0, FALSE))
    <2>1. TRUE \in BOOLEAN /\ FALSE \in BOOLEAN /\ 0 \in Int
      OBVIOUS
    <2> QED BY <1>1, <2>1, Zenon
  <1>2. Keeps(s, SendConnectPacket(s)) /\ Keeps(s, RTMP_SendCreateStream(s)) /\ Keeps(s, SendFCSubscribe(s))
    BY <1>0 DEF SendConnectPacket, RTMP_SendCreateStream, SendFCSubscribe, Numbered, CallNames
  <1>3. Keeps(s, SendReleaseStream(s)) /\ Keeps(s, SendFCPublish(s)) /\ Keeps(s, SendPublish(s))
    BY <1>0 DEF SendReleaseStream, SendFCPublish, SendPublish, Numbered, CallNames
  <1>4. Keeps(s, SendPlay(s)) /\ Keeps(s, SendPlaylist(s)) /\ Keeps(s, SendCheckBW(s))
    BY <1>0, PlaylistKeeps DEF SendPlay, SendCheckBW, Numbered, CallNames
  <1>5. \A id \in Int : Keeps(s, SendDeleteStream(s, id))
    BY <1>1 DEF SendDeleteStream, Numbered, CallNames
  <1>6. \A pause \in BOOLEAN, time \in Int : Keeps(s, RTMP_SendPause(s, pause, time))
    BY <1>1 DEF RTMP_SendPause, Numbered, CallNames
  <1> QED BY <1>2, <1>3, <1>4, <1>5, <1>6

LEMMA PacketsKeep ==
    ASSUME NEW s, Sound(s)
    PROVE  /\ Keeps(s, RTMP_SendServerBW(s))
           /\ \A type \in Int : Keeps(s, RTMP_SendCtrl(s, type))
           /\ \A txn \in Int : Keeps(s, SendPong(s, txn)) /\ Keeps(s, SendCheckBWResult(s, txn))
  <1>1. \A name \in OtherNames, txn \in Int, arg \in Int :
            [name |-> name, txn |-> txn, arg |-> arg] \in Packet
    BY Zenon DEF Packet
  <1>2. \A name \in OtherNames : name \notin Asked
    BY DEF Asked, OtherNames
  <1>3. ASSUME NEW t, Sound(t), NEW name \in OtherNames,
               NEW txn \in Int, NEW arg \in Int
        PROVE  Keeps(t, SendPacket(t, [name |-> name, txn |-> txn, arg |-> arg]))
    <2> DEFINE p == [name |-> name, txn |-> txn, arg |-> arg]
    <2>1. p \in Packet /\ p.name = name
      BY <1>1
    <2> HIDE DEF p
    <2>2. Keeps(t, SendPacket(t, p))
      BY <1>2, <1>3, <2>1, SendKeeps
    <2> QED BY <2>2 DEF p
  <1>4. Keeps(s, RTMP_SendServerBW(s)) /\ \A type \in Int : Keeps(s, RTMP_SendCtrl(s, type))
    BY <1>3 DEF RTMP_SendServerBW, RTMP_SendCtrl, OtherNames
  <1>5. ASSUME NEW txn \in Int PROVE Keeps(s, SendPong(s, txn)) /\ Keeps(s, SendCheckBWResult(s, txn))
    <2>1. Keeps(s, SendPong(s, txn))
      BY <1>3 DEF SendPong, OtherNames
    <2> DEFINE t == [s EXCEPT !.bw = s.bw + 1]
    <2>2. s.bw + 1 \in Nat /\ s \in Structure
      BY StructureIs DEF Sound
    <2>3. t \in Structure /\ t.sock = s.sock /\ t.auth = s.auth /\ t.inv = s.inv /\ t.calls = s.calls /\ t.up = s.up
      <3>1. t \in Structure
        BY <2>2, SetFields
      <3> QED BY <2>2, <3>1 DEF Structure
    <2>4. SendCheckBWResult(s, txn) = SendPacket(t, [name |-> "_result", txn |-> txn, arg |-> 0])
      BY DEF SendCheckBWResult
    <2> HIDE DEF t
    <2>5. Keeps(s, t) /\ Sound(t)
      BY <2>3, KeepsSame
    <2>6. Keeps(t, SendCheckBWResult(s, txn))
      BY <1>3, <2>4, <2>5 DEF OtherNames
    <2> QED BY <2>1, <2>5, <2>6, KeepsTwice
  <1> QED BY <1>4, <1>5

\* The first call P holds of is erased, if there is one.
LEMMA EraseFirstKeeps ==
    ASSUME NEW s, Sound(s), NEW name \in CallNames
    PROVE  Keeps(s, [s EXCEPT !.calls = EraseFirst(s.calls, LAMBDA c : c.name = name)])
  <1> DEFINE is == {i \in 1 .. Len(s.calls) : s.calls[i].name = name}
             q == EraseFirst(s.calls, LAMBDA c : c.name = name)
  <1>1. q = IF is = {} THEN s.calls ELSE AV_erase(s.calls, Min(is))
    BY DEF EraseFirst
  <1>2. CASE is = {}
    <2>1. [s EXCEPT !.calls = s.calls] = s
      BY DEF Sound, Structure
    <2>2. q = s.calls
      BY <1>1, <1>2
    <2> HIDE DEF q
    <2>3. Keeps(s, [s EXCEPT !.calls = q])
      BY <2>1, <2>2, KeepsItself
    <2> QED BY <2>3 DEF q
  <1>3. CASE is # {}
    <2>1. Min(is) \in 1 .. Len(s.calls)
      <3>1. Len(s.calls) \in Nat /\ is \in SUBSET (1 .. Len(s.calls))
        BY StructureIs DEF Sound
      <3> HIDE DEF is
      <3> QED BY <1>3, <3>1, FirstIs
    <2>2. q = AV_erase(s.calls, Min(is))
      BY <1>1, <1>3
    <2> HIDE DEF q, is
    <2>3. Keeps(s, [s EXCEPT !.calls = q])
      BY <2>1, <2>2, EraseKeeps
    <2> QED BY <2>3 DEF q
  <1> QED BY <1>2, <1>3

----------------------------------------------------------------------------
\* The handlers.  A message of the server, as far as they read it.
IsMessage(m) ==
    /\ m.txn \in Int /\ m.arg \in Int /\ m.stamp \in Int
    /\ m.name = "media" => m.ch \in 1 .. 2

\* t is what s may become, or the beginning of another connection.
Becomes(s, t) == Keeps(s, t) \/ (Sound(t) /\ t.sock = "up" /\ t.auth # s.auth)

LEMMA BecomesAfter ==
    ASSUME NEW s, NEW t, NEW u, Sound(s), Keeps(s, t), Becomes(t, u)
    PROVE  Becomes(s, u)
  <1>1. CASE Keeps(t, u)
    BY <1>1, KeepsTwice DEF Becomes
  <1>2. CASE Sound(u) /\ u.sock = "up" /\ u.auth # t.auth
    BY <1>2 DEF Becomes, Keeps
  <1> QED BY <1>1, <1>2 DEF Becomes

\* Setting what the numbering is not about.
LEMMA SetKeeps ==
    ASSUME NEW s, Sound(s)
    PROVE  /\ \A x \in Int : Keeps(s, [s EXCEPT !.sid = x]) /\ Keeps(s, [s EXCEPT !.pauseStamp = x])
                             /\ Keeps(s, [s EXCEPT !.mediaStamp = x])
           /\ \A x \in BOOLEAN : Keeps(s, [s EXCEPT !.playing = x]) /\ Keeps(s, [s EXCEPT !.seeking = x])
           /\ \A x \in 0 .. 3 : Keeps(s, [s EXCEPT !.pausing = x])
           /\ \A x \in 0 .. 2 : Keeps(s, [s EXCEPT !.media = x])
           /\ \A x \in [1 .. 2 -> Int] : Keeps(s, [s EXCEPT !.ts = x])
  <1>0. s \in Structure
    BY DEF Sound
  <1>1. ASSUME NEW x \in Int
        PROVE  /\ Keeps(s, [s EXCEPT !.sid = x]) /\ Keeps(s, [s EXCEPT !.pauseStamp = x])
               /\ Keeps(s, [s EXCEPT !.mediaStamp = x])
    <2>1. ASSUME NEW t \in {[s EXCEPT !.sid = x], [s EXCEPT !.pauseStamp = x], [s EXCEPT !.mediaStamp = x]}
          PROVE  Keeps(s, t)
      <3>1. t \in Structure
        BY <1>0, <2>1, SetFields
      <3>2. t.sock = s.sock /\ t.auth = s.auth /\ t.inv = s.inv /\ t.calls = s.calls /\ t.up = s.up
        BY <1>0, <2>1, SetOthers
      <3> QED BY <3>1, <3>2, KeepsSame
    <2> QED BY <2>1
  <1>2. ASSUME NEW x \in BOOLEAN
        PROVE  Keeps(s, [s EXCEPT !.playing = x]) /\ Keeps(s, [s EXCEPT !.seeking = x])
    <2>1. ASSUME NEW t \in {[s EXCEPT !.playing = x], [s EXCEPT !.seeking = x]}
          PROVE  Keeps(s, t)
      <3>1. t \in Structure
        BY <1>0, <2>1, SetFields
      <3>2. t.sock = s.sock /\ t.auth = s.auth /\ t.inv = s.inv /\ t.calls = s.calls /\ t.up = s.up
        BY <1>0, <2>1, SetOthers
      <3> QED BY <3>1, <3>2, KeepsSame
    <2> QED BY <2>1
  <1>3. ASSUME NEW x \in 0 .. 3 PROVE Keeps(s, [s EXCEPT !.pausing = x])
    <2>1. [s EXCEPT !.pausing = x] \in Structure
      BY <1>0, SetFields
    <2> QED BY <1>0, <2>1, SetOthers, KeepsSame
  <1>4. ASSUME NEW x \in 0 .. 2 PROVE Keeps(s, [s EXCEPT !.media = x])
    <2>1. [s EXCEPT !.media = x] \in Structure
      BY <1>0, SetFields
    <2> DEFINE t == [s EXCEPT !.media = x]
    <2>2. t.sock = s.sock /\ t.auth = s.auth /\ t.inv = s.inv /\ t.calls = s.calls /\ t.up = s.up
      BY <1>0, SetOthers
    <2> HIDE DEF t
    <2>3. Keeps(s, t)
      BY <2>1, <2>2, KeepsSame DEF t
    <2> QED BY <2>3 DEF t
  <1>5. ASSUME NEW x \in [1 .. 2 -> Int] PROVE Keeps(s, [s EXCEPT !.ts = x])
    <2>1. [s EXCEPT !.ts = x] \in Structure
      BY <1>0, SetFields
    <2> QED BY <1>0, <2>1, SetOthers, KeepsSame
  <1> QED BY <1>1, <1>2, <1>3, <1>4, <1>5

LEMMA ConnectedFacts ==
    ASSUME NEW s, Sound(s), s.sock = "none"
    PROVE  Sound(Connected(s)) /\ Connected(s).sock = "up" /\ Connected(s).auth = s.auth
  <1> DEFINE a == [s EXCEPT !.sock = "up"]
             b == [a EXCEPT !.pausing = 0]
  <1>0. s \in Structure /\ s.calls = <<>> /\ s.up = <<>> /\ s.inv = 0
    BY DEF Sound
  <1>1. a \in Structure /\ a.sock = "up" /\ a.auth = s.auth /\ a.calls = <<>> /\ a.up = <<>> /\ a.inv = 0
    <2>1. a \in Structure BY <1>0, SetFields
    <2> QED BY <1>0, <2>1 DEF Structure
  <1> HIDE DEF a
  <1>2. Sound(a)
    BY <1>1 DEF Sound
  <1>3. Keeps(a, b) /\ b.sock = "up" /\ b.auth = s.auth
    <2>1. 0 \in 0 .. 3 OBVIOUS
    <2>2. Keeps(a, b)
      BY <1>2, <2>1, SetKeeps
    <2>3. b.sock = a.sock /\ b.auth = a.auth
      BY <1>1 DEF Structure
    <2> QED BY <1>1, <2>2, <2>3
  <1>4. Connected(s) = SendConnectPacket(b)
    BY DEF Connected, a
  <1> HIDE DEF b
  <1>5. Sound(b)
    BY <1>3 DEF Keeps
  <1>6. Keeps(b, SendConnectPacket(b))
    BY <1>5, CallsKeep
  <1>7. SendConnectPacket(b).sock = "up" /\ SendConnectPacket(b).auth = b.auth
    <2>1. SendConnectPacket(b) = Invoke(b, "connect", 0, TRUE) /\ "connect" \in CallNames
          /\ 0 \in Int /\ TRUE \in BOOLEAN
      BY DEF SendConnectPacket, CallNames
    <2>2. Invoke(b, "connect", 0, TRUE).sock = "up" /\ Invoke(b, "connect", 0, TRUE).auth = b.auth
      BY <1>3, <1>5, <2>1, InvokeStaysUp, Zenon
    <2> QED BY <2>1, <2>2
  <1> QED BY <1>3, <1>4, <1>6, <1>7 DEF Keeps

LEMMA ConnectingKeeps ==
    ASSUME NEW s, Sound(s)
    PROVE  /\ Keeps(s, OnConnected(s))
           /\ \A id \in Int : Keeps(s, OnStreamCreated(s, id))
  <1>1. Keeps(s, OnConnected(s))
    <2> DEFINE f == SendReleaseStream(s)
               g == RTMP_SendServerBW(s)
               a == IF link.write THEN SendFCPublish(f) ELSE RTMP_SendCtrl(g, 3)
               b == RTMP_SendCreateStream(a)
    <2>1. Keeps(s, a) /\ Sound(a)
      <3>1. Keeps(s, f) /\ Sound(f) /\ Keeps(s, g) /\ Sound(g)
        BY CallsKeep, PacketsKeep DEF Keeps
      <3> HIDE DEF f, g
      <3>2. Keeps(f, SendFCPublish(f)) /\ Keeps(g, RTMP_SendCtrl(g, 3))
        BY <3>1, CallsKeep, PacketsKeep
      <3>3. Keeps(s, SendFCPublish(f)) /\ Keeps(s, RTMP_SendCtrl(g, 3))
        BY <3>1, <3>2, KeepsTwice
      <3> QED BY <3>3 DEF Keeps
    <2> HIDE DEF a
    <2>2. Keeps(s, b) /\ Sound(b)
      BY <2>1, CallsKeep, KeepsTwice, KeepsSound
    <2> HIDE DEF b
    <2>3. Keeps(s, SendFCSubscribe(b))
      BY <2>2, CallsKeep, KeepsTwice
    <2>4. OnConnected(s) = IF ~link.write /\ link.live THEN SendFCSubscribe(b) ELSE b
      BY DEF OnConnected, a, b
    <2> QED BY <2>2, <2>3, <2>4
  <1>2. ASSUME NEW id \in Int PROVE Keeps(s, OnStreamCreated(s, id))
    <2> DEFINE a == [s EXCEPT !.sid = id]
               b == IF link.plst THEN SendPlaylist(a) ELSE a
               c == SendPlay(b)
    <2>1. Keeps(s, a) /\ Sound(a)
      BY SetKeeps, KeepsSound
    <2>2. OnStreamCreated(s, id) = IF link.write THEN SendPublish(a) ELSE RTMP_SendCtrl(c, 3)
      BY DEF OnStreamCreated
    <2> HIDE DEF a
    <2>3. Keeps(s, SendPublish(a)) /\ Keeps(s, SendPlaylist(a))
      BY <2>1, CallsKeep, KeepsTwice
    <2>4. Keeps(s, b) /\ Sound(b)
      BY <2>1, <2>3 DEF Keeps
    <2> HIDE DEF b
    <2>5. Keeps(s, c) /\ Sound(c)
      BY <2>4, CallsKeep, KeepsTwice, KeepsSound
    <2> HIDE DEF c
    <2>6. Keeps(s, RTMP_SendCtrl(c, 3))
      BY <2>5, PacketsKeep, KeepsTwice
    <2> QED BY <2>2, <2>3, <2>6
  <1> QED BY <1>1, <1>2

LEMMA AnswersKeep ==
    ASSUME NEW s, Sound(s), NEW msg, IsMessage(msg)
    PROVE  Keeps(s, OnResult(s, msg)) /\ Becomes(s, OnError(s, msg))
  <1> DEFINE is == {i \in 1 .. Len(s.calls) : s.calls[i].txn = msg.txn}
             k == Min(is)
             t == [s EXCEPT !.calls = AV_erase(s.calls, k)]
             name == s.calls[k].name
  <1>1. OnResult(s, msg) =
            IF is = {} THEN s
            ELSE CASE name = "connect" -> OnConnected(t)
                   [] name = "createStream" -> OnStreamCreated(t, msg.arg)
                   [] name \in {"play", "publish"} -> [t EXCEPT !.playing = TRUE]
                   [] OTHER -> t
    BY DEF OnResult
  <1>2. OnError(s, msg) =
            IF ~link.write \/ is = {} THEN s
            ELSE IF name = "connect" /\ s.auth < link.auth
            THEN Connected([CloseInternal(t) EXCEPT !.auth = @ + 1]) ELSE t
    BY DEF OnError
  <1>3. CASE is = {}
    BY <1>1, <1>2, <1>3, KeepsItself DEF Becomes
  <1>4. CASE is # {}
    <2>1. k \in 1 .. Len(s.calls)
      <3>1. Len(s.calls) \in Nat /\ is \in SUBSET (1 .. Len(s.calls))
        BY StructureIs DEF Sound
      <3> HIDE DEF is
      <3> QED BY <1>4, <3>1, FirstIs
    <2> HIDE DEF is, k, name
    <2>2. Keeps(s, t) /\ Sound(t)
      BY <2>1, EraseKeeps DEF Keeps
    <2> HIDE DEF t
    <2>3. Keeps(s, OnConnected(t)) /\ Keeps(s, OnStreamCreated(t, msg.arg))
      BY <2>2, ConnectingKeeps, KeepsTwice DEF IsMessage
    <2>4. Keeps(s, [t EXCEPT !.playing = TRUE])
      <3>1. Keeps(t, [t EXCEPT !.playing = TRUE])
        BY <2>2, SetKeeps
      <3> QED BY <2>2, <3>1, KeepsTwice
    <2>5. Keeps(s, OnResult(s, msg))
      BY <1>1, <1>4, <2>2, <2>3, <2>4
    <2> DEFINE a == CloseInternal(t)
               b == [a EXCEPT !.auth = a.auth + 1]
    <2>6. Sound(a) /\ a.sock = "none" /\ a.auth = s.auth
      BY <2>2, CloseKeeps, CloseFacts DEF Keeps, Sound
    <2> HIDE DEF a
    <2>7. Sound(b) /\ b.sock = "none" /\ b.auth # s.auth
      <3>1. a \in Structure /\ a.auth \in Nat
        BY <2>6, StructureIs DEF Sound
      <3>2. b \in Structure
        <4>1. \A x \in Nat : [a EXCEPT !.auth = x] \in Structure
          BY <3>1, SetFields
        <4> QED BY <3>1, <4>1
      <3>3. /\ b.sock = a.sock /\ b.auth = a.auth + 1 /\ b.inv = a.inv /\ b.calls = a.calls
            /\ b.up = a.up
        BY <3>1 DEF Structure
      <3> HIDE DEF b
      <3> QED BY <2>6, <3>1, <3>2, <3>3 DEF Sound, AsksFor
    <2> HIDE DEF b
    <2>8. Becomes(s, Connected(b))
      BY <2>7, ConnectedFacts DEF Becomes
    <2>9. Connected(b) = Connected([CloseInternal(t) EXCEPT !.auth = @ + 1])
      BY DEF a, b
    <2>10. Becomes(s, OnError(s, msg))
      <3>1. Becomes(s, s) /\ Becomes(s, t)
        BY <2>2, KeepsItself DEF Becomes
      <3> QED BY <1>2, <2>8, <2>9, <3>1
    <2> QED BY <2>5, <2>10
  <1> QED BY <1>3, <1>4

LEMMA StatusKeeps ==
    ASSUME NEW s, Sound(s), NEW code
    PROVE  Keeps(s, OnStatus(s, code))
  <1> DEFINE started(name) == [s EXCEPT !.calls = EraseFirst(s.calls, LAMBDA c : c.name = name)]
             paused == RTMP_SendPause(s, FALSE, s.pauseStamp)
  <1>1. Keeps(s, CloseInternal(s))
    BY CloseKeeps DEF Sound
  <1>2. ASSUME NEW name \in CallNames
        PROVE  Keeps(s, [s EXCEPT !.playing = TRUE, !.calls = EraseFirst(s.calls, LAMBDA c : c.name = name)])
    <2> DEFINE t == [s EXCEPT !.playing = TRUE]
               u == [t EXCEPT !.calls = EraseFirst(t.calls, LAMBDA c : c.name = name)]
    <2>1. Keeps(s, t) /\ Sound(t) /\ t.calls = s.calls
      <3>1. Keeps(s, t)
        BY SetKeeps
      <3>2. t.calls = s.calls
        BY SetOthers DEF Sound
      <3> QED BY <3>1, <3>2, KeepsSound
    <2>2. [s EXCEPT !.playing = TRUE, !.calls = EraseFirst(s.calls, LAMBDA c : c.name = name)] = u
      BY <2>1
    <2> HIDE DEF t
    <2>3. Keeps(t, u)
      BY <2>1, EraseFirstKeeps
    <2> HIDE DEF u
    <2> QED BY <2>1, <2>2, <2>3, KeepsTwice
  <1>3. "play" \in CallNames /\ "publish" \in CallNames
    BY DEF CallNames
  <1>4. Keeps(s, [s EXCEPT !.seeking = FALSE])
    BY SetKeeps
  <1>5. Keeps(s, [paused EXCEPT !.pausing = 3])
    <2>1. Keeps(s, paused) /\ Sound(paused)
      <3>1. s.pauseStamp \in Int /\ FALSE \in BOOLEAN
        BY StructureIs DEF Sound
      <3> QED BY <3>1, CallsKeep, KeepsSound
    <2> HIDE DEF paused
    <2>2. 3 \in 0 .. 3
      OBVIOUS
    <2>3. Keeps(paused, [paused EXCEPT !.pausing = 3])
      BY <2>1, <2>2, SetKeeps
    <2> QED BY <2>1, <2>3, KeepsTwice
  <1>6. CASE code \in {"Failed", "Play.Complete"}
    BY <1>1, <1>6 DEF OnStatus
  <1>7. CASE code = "Play.Start"
    <2>1. OnStatus(s, code) =
              [s EXCEPT !.playing = TRUE, !.calls = EraseFirst(s.calls, LAMBDA c : c.name = "play")]
      BY <1>7 DEF OnStatus
    <2> QED BY <1>2, <1>3, <2>1
  <1>8. CASE code = "Publish.Start"
    <2>1. OnStatus(s, code) =
              [s EXCEPT !.playing = TRUE, !.calls = EraseFirst(s.calls, LAMBDA c : c.name = "publish")]
      BY <1>8 DEF OnStatus
    <2> QED BY <1>2, <1>3, <2>1
  <1>9. CASE code = "Seek.Notify"
    BY <1>4, <1>9 DEF OnStatus
  <1>10. CASE code = "Pause.Notify" /\ s.pausing \in {1, 2}
    BY <1>5, <1>10 DEF OnStatus
  <1>11. CASE /\ code \notin {"Failed", "Play.Complete"} /\ code # "Play.Start" /\ code # "Publish.Start"
              /\ code # "Seek.Notify" /\ ~(code = "Pause.Notify" /\ s.pausing \in {1, 2})
    <2>1. OnStatus(s, code) = s
      BY <1>11 DEF OnStatus
    <2> QED BY <2>1, KeepsItself
  <1> QED BY <1>6, <1>7, <1>8, <1>9, <1>10, <1>11

LEMMA InvokeHandled ==
    ASSUME NEW s, Sound(s), NEW msg, IsMessage(msg)
    PROVE  Becomes(s, HandleInvoke(s, msg))
  <1>1. Keeps(s, s) /\ Keeps(s, CloseInternal(s)) /\ Keeps(s, OnResult(s, msg)) /\ Keeps(s, OnStatus(s, msg.code))
        /\ Keeps(s, SendCheckBW(s)) /\ Keeps(s, SendCheckBWResult(s, msg.txn)) /\ Keeps(s, SendPong(s, msg.txn))
    BY KeepsItself, CloseKeeps, AnswersKeep, StatusKeeps, CallsKeep, PacketsKeep DEF Sound, IsMessage
  <1>2. \A name \in CallNames : Keeps(s, [s EXCEPT !.calls = EraseFirst(s.calls, LAMBDA c : c.name = name)])
    BY EraseFirstKeeps
  <1>3. Becomes(s, OnError(s, msg))
    BY AnswersKeep
  <1>4. CASE msg.name = "_result"
    BY <1>1, <1>4 DEF HandleInvoke, Becomes
  <1>5. CASE msg.name = "_error"
    BY <1>3, <1>5 DEF HandleInvoke
  <1>6. CASE msg.name = "onStatus"
    BY <1>1, <1>6 DEF HandleInvoke, Becomes
  <1>7. CASE msg.name = "onBWDone"
    BY <1>1, <1>7 DEF HandleInvoke, Becomes
  <1>8. CASE msg.name = "_onbwcheck"
    BY <1>1, <1>8 DEF HandleInvoke, Becomes
  <1>9. CASE msg.name = "_onbwdone"
    <2>1. HandleInvoke(s, msg) = [s EXCEPT !.calls = EraseFirst(s.calls, LAMBDA c : c.name = "_checkbw")]
      BY <1>9 DEF HandleInvoke
    <2>2. "_checkbw" \in CallNames
      BY DEF CallNames
    <2> QED BY <1>2, <2>1, <2>2 DEF Becomes
  <1>10. CASE msg.name = "playlist_ready"
    <2>1. HandleInvoke(s, msg) = [s EXCEPT !.calls = EraseFirst(s.calls, LAMBDA c : c.name = "set_playlist")]
      BY <1>10 DEF HandleInvoke
    <2>2. "set_playlist" \in CallNames
      BY DEF CallNames
    <2> QED BY <1>2, <2>1, <2>2 DEF Becomes
  <1>11. CASE msg.name = "ping"
    BY <1>1, <1>11 DEF HandleInvoke, Becomes
  <1>12. CASE msg.name \in {"close", "onFCUnsubscribe"}
    BY <1>1, <1>12 DEF HandleInvoke, Becomes
  <1>13. CASE msg.name \notin {"_result", "_error", "onStatus", "onBWDone", "_onbwcheck", "_onbwdone",
                               "playlist_ready", "ping", "close", "onFCUnsubscribe"}
    BY <1>1, <1>13 DEF HandleInvoke, Becomes
  <1> QED BY <1>4, <1>5, <1>6, <1>7, <1>8, <1>9, <1>10, <1>11, <1>12, <1>13

LEMMA PauseKeeps ==
    ASSUME NEW s, Sound(s), NEW pause \in BOOLEAN, NEW time \in Int, NEW x \in 0 .. 3
    PROVE  Keeps(s, [RTMP_SendPause(s, pause, time) EXCEPT !.pausing = x])
  <1> DEFINE t == RTMP_SendPause(s, pause, time)
  <1>1. Keeps(s, t) /\ Sound(t)
    BY CallsKeep, KeepsSound
  <1> HIDE DEF t
  <1>2. Keeps(t, [t EXCEPT !.pausing = x])
    BY <1>1, SetKeeps
  <1>3. Keeps(s, [t EXCEPT !.pausing = x])
    BY <1>1, <1>2, KeepsTwice
  <1> QED BY <1>3 DEF t

LEMMA MediaTsIs == ASSUME NEW s, Sound(s) PROVE MediaTs(s) \in Int
  <1>1. s.media \in 0 .. 2 /\ s.ts \in [1 .. 2 -> Int]
    BY StructureIs DEF Sound
  <1> QED BY <1>1 DEF MediaTs

LEMMA CtrlKeeps ==
    ASSUME NEW s, Sound(s), NEW msg, IsMessage(msg)
    PROVE  Keeps(s, HandleCtrl(s, msg))
  <1>0. s.pausing \in 0 .. 3 /\ s.pauseStamp \in Int /\ MediaTs(s) \in Int
    BY StructureIs, MediaTsIs DEF Sound
  <1>1. CASE msg.code = "EOF"
    <2> DEFINE x == IF s.pausing = 1 THEN 2 ELSE s.pausing
    <2>1. x \in 0 .. 3
      BY <1>0
    <2>2. HandleCtrl(s, msg) = [s EXCEPT !.pausing = x]
      BY <1>1 DEF HandleCtrl
    <2> HIDE DEF x
    <2>3. Keeps(s, [s EXCEPT !.pausing = x])
      BY <2>1, SetKeeps
    <2> QED BY <2>2, <2>3
  <1>2. CASE msg.code = "Ping"
    BY <1>2, PacketsKeep DEF HandleCtrl
  <1>3. CASE msg.code = "BufferEmpty" /\ link.bufx /\ s.pausing = 0
    <2> DEFINE a == [s EXCEPT !.pauseStamp = MediaTs(s)]
               b == [RTMP_SendPause(a, TRUE, MediaTs(s)) EXCEPT !.pausing = 1]
    <2>1. HandleCtrl(s, msg) = b
      BY <1>3 DEF HandleCtrl
    <2>2. Keeps(s, a) /\ Sound(a)
      BY <1>0, SetKeeps, KeepsSound
    <2> HIDE DEF a
    <2>3. 1 \in 0 .. 3 /\ TRUE \in BOOLEAN
      OBVIOUS
    <2>4. Keeps(a, b)
      BY <1>0, <2>2, <2>3, PauseKeeps
    <2> HIDE DEF b
    <2> QED BY <2>1, <2>2, <2>4, KeepsTwice
  <1>4. CASE msg.code = "BufferEmpty" /\ link.bufx /\ s.pausing = 2
    <2>1. HandleCtrl(s, msg) = [RTMP_SendPause(s, FALSE, s.pauseStamp) EXCEPT !.pausing = 3]
      BY <1>4 DEF HandleCtrl
    <2>2. 3 \in 0 .. 3 /\ FALSE \in BOOLEAN
      OBVIOUS
    <2>3. Keeps(s, [RTMP_SendPause(s, FALSE, s.pauseStamp) EXCEPT !.pausing = 3])
      BY <1>0, <2>2, PauseKeeps
    <2> QED BY <2>1, <2>3
  <1>5. CASE /\ msg.code # "EOF" /\ msg.code # "Ping"
             /\ ~(msg.code = "BufferEmpty" /\ link.bufx /\ s.pausing = 0)
             /\ ~(msg.code = "BufferEmpty" /\ link.bufx /\ s.pausing = 2)
    <2>1. HandleCtrl(s, msg) = s
      BY <1>5 DEF HandleCtrl
    <2> QED BY <2>1, KeepsItself
  <1> QED BY <1>1, <1>2, <1>3, <1>4, <1>5

LEMMA PacketHandled ==
    ASSUME NEW s, Sound(s), NEW msg, IsMessage(msg)
    PROVE  Becomes(s, RTMP_ClientPacket(s, msg))
  <1>1. CASE msg.name = "ctrl"
    BY <1>1, CtrlKeeps DEF RTMP_ClientPacket, Becomes
  <1>2. CASE msg.name = "media"
    <2> DEFINE x == IF s.media = 0 THEN msg.ch ELSE s.media
               y == IF s.pausing = 0 THEN msg.stamp ELSE s.mediaStamp
               a == [s EXCEPT !.media = x]
               b == [a EXCEPT !.mediaStamp = y]
    <2>1. x \in 0 .. 2 /\ y \in Int /\ msg.name # "ctrl"
      BY <1>2, StructureIs DEF IsMessage, Sound
    <2>2. RTMP_ClientPacket(s, msg) = b
      BY <1>2, <2>1 DEF RTMP_ClientPacket
    <2> HIDE DEF x, y
    <2>3. Keeps(s, a) /\ Sound(a)
      BY <2>1, SetKeeps, KeepsSound
    <2> HIDE DEF a
    <2>4. Keeps(a, b)
      BY <2>1, <2>3, SetKeeps
    <2> HIDE DEF b
    <2> QED BY <2>2, <2>3, <2>4, KeepsTwice DEF Becomes
  <1>3. CASE msg.name # "ctrl" /\ msg.name # "media"
    BY <1>3, InvokeHandled DEF RTMP_ClientPacket
  <1> QED BY <1>1, <1>2, <1>3

LEMMA StampedKeeps ==
    ASSUME NEW s, Sound(s), NEW msg, IsMessage(msg)
    PROVE  Keeps(s, Stamped(s, msg))
  <1>1. CASE msg.name = "media"
    <2> DEFINE f == [s.ts EXCEPT ![msg.ch] = msg.stamp]
    <2>1. f \in [1 .. 2 -> Int]
      BY <1>1, StructureIs DEF IsMessage, Sound
    <2>2. Stamped(s, msg) = [s EXCEPT !.ts = f]
      BY <1>1 DEF Stamped
    <2> HIDE DEF f
    <2>3. \A g \in [1 .. 2 -> Int] : Keeps(s, [s EXCEPT !.ts = g])
      BY SetKeeps
    <2> QED BY <2>1, <2>2, <2>3
  <1>2. CASE msg.name # "media"
    BY <1>2, KeepsItself DEF Stamped
  <1> QED BY <1>1, <1>2

----------------------------------------------------------------------------
\* The invariant: the structure is sound, and of every answer under way the
\* number was given and no other call in the queue has it.
Server == [sid : Int, playing : BOOLEAN, pos : Int, left : Int, noise : Int, paused : BOOLEAN]

MessageNames == {"_result", "_error", "onStatus", "ctrl", "media", "playlist_ready", "_onbwcheck",
                 "_onbwdone", "onBWDone", "ping", "close", "onFCUnsubscribe"}
Codes == {"", "Play.Start", "Publish.Start", "Play.Complete", "Failed", "Seek.Notify", "Pause.Notify",
          "EOF", "Ping", "BufferEmpty"}

Plain == [name : MessageNames, txn : Int, arg : Int, code : Codes, ch : 0 .. 2, stamp : Int,
          of : Asked \cup {""}]
Messages == {m \in Plain : m.name = "media" => m.ch \in 1 .. 2}

Matched(s, m) ==
    m.of # "" =>
        /\ m.txn <= s.inv /\ Zero(m.txn, m.of)
        /\ \A j \in 1 .. Len(s.calls) : s.calls[j].txn = m.txn => s.calls[j].name = m.of

SessionInv ==
    /\ Sound(r) /\ srv \in Server /\ down \in Seq(Messages)
    /\ \A i \in 1 .. Len(down) : Matched(r, down[i])
    /\ r.sock # "up" => down = <<>>

LEMMA MessageIs == ASSUME NEW m \in Messages PROVE IsMessage(m)
  BY DEF Messages, Plain, IsMessage

LEMMA MatchedKept ==
    ASSUME NEW s, NEW t, NEW m \in Messages, Sound(s), Keeps(s, t), t.sock # "none", Matched(s, m)
    PROVE  Matched(t, m)
  <1>1. m.txn \in Int /\ s.inv \in Nat /\ t.inv \in Nat /\ s.inv <= t.inv
    BY MessageIs, StructureIs DEF IsMessage, Sound, Keeps
  <1>2. \A j \in 1 .. Len(t.calls) : \/ t.calls[j].txn > s.inv \/ t.calls[j].txn = 0
                                     \/ \E i \in 1 .. Len(s.calls) : t.calls[j] = s.calls[i]
    BY DEF Keeps
  <1>3. \A j \in 1 .. Len(t.calls) : t.calls[j].txn \in Nat
    BY CallIs DEF Keeps, Sound
  <1>4. ASSUME m.of # "", NEW j \in 1 .. Len(t.calls), t.calls[j].txn = m.txn
        PROVE  t.calls[j].name = m.of
    <2>1. m.txn <= s.inv
      BY <1>4 DEF Matched
    <2>2. ~(t.calls[j].txn > s.inv)
      <3>1. ASSUME NEW x \in Int, NEW y \in Nat, x <= y PROVE ~(x > y)
        BY <3>1
      <3>2. ~(m.txn > s.inv)
        BY <1>1, <2>1, <3>1
      <3> QED BY <1>4, <3>2
    <2>3. CASE t.calls[j].txn = 0
      <3>1. Zero(t.calls[j].txn, t.calls[j].name) /\ Zero(m.txn, m.of)
        BY <1>4 DEF Keeps, Sound, Matched
      <3> QED BY <1>4, <2>3, <3>1 DEF Zero
    <2>4. CASE \E i \in 1 .. Len(s.calls) : t.calls[j] = s.calls[i]
      BY <1>4, <2>4 DEF Matched
    <2> QED BY <1>2, <2>2, <2>3, <2>4
  <1>5. ASSUME m.of # "" PROVE m.txn <= t.inv
    <2>1. m.txn <= s.inv
      BY <1>5 DEF Matched
    <2>2. ASSUME NEW x \in Int, NEW y \in Nat, NEW z \in Nat, x <= y, y <= z PROVE x <= z
      BY <2>2
    <2> QED BY <1>1, <2>1, <2>2
  <1> QED BY <1>4, <1>5 DEF Matched

LEMMA NoServerIs == ASSUME SessionConstants PROVE NoServer \in Server
  BY DEF SessionConstants, NoServer, Server

LEMMA InitInv == ASSUME SessionConstants, Init PROVE SessionInv
  <1>1. r \in Structure
    <2>1. <<>> \in Seq(Call) /\ <<>> \in Seq(Packet) /\ <<0, 0>> \in [1 .. 2 -> Int]
      OBVIOUS
    <2> QED BY <2>1 DEF Init, Structure
  <1>2. r.calls = <<>> /\ r.up = <<>> /\ r.inv = 0
    BY DEF Init
  <1>3. Sound(r)
    BY <1>1, <1>2 DEF Sound
  <1> QED BY <1>3, NoServerIs DEF Init, SessionInv

\* Take of what the structure became while the head of down was read.
LEMMA TakeKeeps ==
    ASSUME SessionConstants, SessionInv, NEW s, Becomes(r, s), Take(s), down # <<>>
    PROVE  SessionInv'
  <1>1. r' = s /\ Sound(r')
    BY DEF Take, Becomes, Keeps
  <1>2. srv' \in Server
    BY NoServerIs DEF Take, SessionInv
  <1>3. CASE down' = <<>>
    BY <1>1, <1>2, <1>3 DEF SessionInv
  <1>4. CASE s.sock # "none" /\ s.auth = r.auth /\ down' = Tail(down)
    <2>1. Keeps(r, s)
      BY <1>4 DEF Becomes
    <2>2. down \in Seq(Messages)
      BY DEF SessionInv
    <2>3. /\ down' \in Seq(Messages) /\ Len(down') = Len(down) - 1
          /\ \A i \in 1 .. Len(down') : i + 1 \in 1 .. Len(down) /\ down'[i] = down[i + 1]
      BY <1>4, <2>2
    <2>4. \A i \in 1 .. Len(down') : Matched(s, down'[i])
      <3> SUFFICES ASSUME NEW i \in 1 .. Len(down') PROVE Matched(s, down'[i]) OBVIOUS
      <3>1. down[i + 1] \in Messages /\ Matched(r, down[i + 1])
        BY <2>2, <2>3 DEF SessionInv
      <3> QED BY <1>4, <2>1, <2>3, <3>1, MatchedKept DEF SessionInv
    <2>5. s.sock # "up" => down = <<>>
      BY <1>4, <2>1 DEF Keeps, SessionInv
    <2> QED BY <1>1, <1>2, <2>3, <2>4, <2>5 DEF SessionInv
  <1> QED BY <1>3, <1>4 DEF Take

\* A structure that a call of the application left, with what the server sent unread.
LEMMA KeepsInv ==
    ASSUME SessionConstants, SessionInv, NEW s, Keeps(r, s), r' = s,
           \/ down' = <<>> /\ srv' \in Server
           \/ s.sock # "none" /\ down' = down /\ srv' \in Server
    PROVE  SessionInv'
  <1>1. Sound(r')
    BY DEF Keeps
  <1>2. CASE down' = <<>> /\ srv' \in Server
    BY <1>1, <1>2 DEF SessionInv
  <1>3. CASE s.sock # "none" /\ down' = down /\ srv' \in Server
    <2>1. \A i \in 1 .. Len(down) : Matched(s, down[i])
      BY <1>3, MatchedKept DEF SessionInv
    <2>2. s.sock = r.sock
      BY <1>3 DEF Keeps
    <2> QED BY <1>1, <1>3, <2>1, <2>2 DEF SessionInv
  <1> QED BY <1>2, <1>3

LEMMA StepConnect == ASSUME SessionConstants, SessionInv, RTMP_Connect PROVE SessionInv'
  <1> DEFINE s == Connected(r)
             t == [s EXCEPT !.media = 0]
  <1>1. Sound(s)
    BY ConnectedFacts DEF RTMP_Connect, SessionInv
  <1>2. r' = t
    BY DEF RTMP_Connect
  <1> HIDE DEF s
  <1>3. 0 \in 0 .. 2
    OBVIOUS
  <1>4. Sound(t)
    BY <1>1, <1>3, SetKeeps, KeepsSound
  <1> HIDE DEF t
  <1>5. down' = <<>> /\ srv' \in Server
    BY NoServerIs DEF RTMP_Connect
  <1> QED BY <1>2, <1>4, <1>5 DEF SessionInv

LEMMA StepConnectFails == ASSUME SessionConstants, SessionInv, ConnectFails PROVE SessionInv'
  <1> DEFINE a == [r EXCEPT !.pausing = 0]
  <1>1. Sound(r) /\ r.sock = "none" /\ down = <<>> /\ 0 \in 0 .. 3
    BY DEF ConnectFails, SessionInv
  <1>2. Keeps(r, a) /\ Sound(a)
    BY <1>1, SetKeeps, KeepsSound
  <1>3. r' = CloseInternal(a) /\ down' = <<>> /\ srv' \in Server
    BY <1>1 DEF ConnectFails, SessionInv
  <1> HIDE DEF a
  <1>4. Keeps(r, CloseInternal(a))
    BY <1>2, CloseKeeps DEF Keeps, Sound
  <1> QED BY <1>3, <1>4, KeepsInv

LEMMA StepConnectStream == ASSUME SessionConstants, SessionInv, RTMP_ConnectStream PROVE SessionInv'
  <1> DEFINE msg == Head(down)
             s == IF msg.name = "media" THEN Stamped(r, msg) ELSE RTMP_ClientPacket(r, msg)
  <1>1. down # <<>> /\ Take(s)
    BY DEF RTMP_ConnectStream
  <1>2. msg \in Messages
    BY <1>1 DEF SessionInv
  <1> HIDE DEF msg
  <1>3. IsMessage(msg)
    BY <1>2, MessageIs
  <1>4. Becomes(r, s)
    BY <1>3, StampedKeeps, PacketHandled DEF Becomes, SessionInv
  <1> HIDE DEF s
  <1> QED BY <1>1, <1>4, TakeKeeps

LEMMA SetAfter ==
    ASSUME NEW s, NEW t, NEW u, Sound(s), Becomes(s, t), Keeps(t, u), u.sock = t.sock
    PROVE  Becomes(s, u)
  <1>1. CASE Keeps(s, t)
    BY <1>1, KeepsTwice DEF Becomes
  <1>2. CASE t.sock = "up" /\ t.auth # s.auth
    BY <1>2 DEF Becomes, Keeps
  <1> QED BY <1>1, <1>2 DEF Becomes

LEMMA StepGetNextMediaPacket ==
    ASSUME SessionConstants, SessionInv, RTMP_GetNextMediaPacket PROVE SessionInv'
  <1> DEFINE msg == Head(down)
             a == Stamped(r, msg)
             s == RTMP_ClientPacket(a, msg)
             x == IF s.pausing = 3 THEN 0 ELSE s.pausing
             b == [s EXCEPT !.pausing = x]
             c == [b EXCEPT !.playing = TRUE]
             d == [s EXCEPT !.playing = TRUE]
  <1>1. PICK t \in {s, c, d} : Take(t)
    <2>1. c = [s EXCEPT !.pausing = IF @ = 3 THEN 0 ELSE @, !.playing = TRUE]
      OBVIOUS
    <2> HIDE DEF c, d, a
    <2> QED BY <2>1 DEF RTMP_GetNextMediaPacket, d, a
  <1>2. down # <<>> /\ Sound(r) /\ msg \in Messages
    BY DEF RTMP_GetNextMediaPacket, SessionInv
  <1> HIDE DEF msg
  <1>3. IsMessage(msg)
    BY <1>2, MessageIs
  <1>4. Keeps(r, a) /\ Sound(a)
    BY <1>2, <1>3, StampedKeeps, KeepsSound
  <1> HIDE DEF a
  <1>5. Becomes(r, s)
    <2>1. Becomes(a, s)
      BY <1>3, <1>4, PacketHandled
    <2> HIDE DEF s
    <2> QED BY <1>2, <1>4, <2>1, BecomesAfter
  <1> HIDE DEF s
  <1>6. Sound(s) /\ s \in Structure /\ x \in 0 .. 3
    <2>1. Sound(s)
      BY <1>5, KeepsSound DEF Becomes
    <2>2. s \in Structure
      BY <2>1 DEF Sound
    <2> QED BY <2>1, <2>2, StructureIs
  <1> HIDE DEF x
  <1>7. Keeps(s, b) /\ Sound(b) /\ b.sock = s.sock /\ b \in Structure
    <2>1. Keeps(s, b)
      BY <1>6, SetKeeps
    <2>2. b.sock = s.sock
      BY <1>6, SetOthers
    <2> HIDE DEF b
    <2> QED BY <2>1, <2>2 DEF Keeps, Sound
  <1> HIDE DEF b
  <1>8. Keeps(s, c) /\ c.sock = s.sock
    <2>1. Keeps(b, c)
      BY <1>7, SetKeeps
    <2>2. c.sock = b.sock
      BY <1>7, SetOthers
    <2> HIDE DEF c
    <2> QED BY <1>6, <1>7, <2>1, <2>2, KeepsTwice
  <1>9. Keeps(s, d) /\ d.sock = s.sock
    <2>1. Keeps(s, d)
      BY <1>6, SetKeeps
    <2>2. d.sock = s.sock
      BY <1>6, SetOthers
    <2> QED BY <2>1, <2>2
  <1> HIDE DEF c, d
  <1>10. Becomes(r, t)
    BY <1>1, <1>2, <1>5, <1>8, <1>9, SetAfter
  <1> QED BY <1>1, <1>2, <1>10, TakeKeeps

LEMMA StepClose == ASSUME SessionConstants, SessionInv, RTMP_Close PROVE SessionInv'
  <1>1. Keeps(r, CloseInternal(r))
    BY CloseKeeps DEF SessionInv, Sound
  <1>2. r' = CloseInternal(r) /\ down' = <<>> /\ srv' \in Server
    BY NoServerIs DEF RTMP_Close
  <1> QED BY <1>1, <1>2, KeepsInv

LEMMA StepToggle == ASSUME SessionConstants, SessionInv, RTMP_ToggleStream PROVE SessionInv'
  <1> DEFINE s == IF r.pausing = 0 THEN [r EXCEPT !.pauseStamp = MediaTs(r)] ELSE r
             p == IF s.pausing = 0 THEN RTMP_SendPause(s, TRUE, s.pauseStamp) ELSE s
             q == [RTMP_SendPause(p, FALSE, s.pauseStamp) EXCEPT !.pausing = 3]
  <1>1. r' \in {p, q} /\ down' = <<>>
    BY DEF RTMP_ToggleStream
  <1>2. srv' \in Server
    BY NoServerIs DEF RTMP_ToggleStream, SessionInv
  <1>3. Sound(r)
    BY DEF SessionInv
  <1>4. Keeps(r, s) /\ Sound(s)
    <2>1. Keeps(r, [r EXCEPT !.pauseStamp = MediaTs(r)])
      BY <1>3, MediaTsIs, SetKeeps
    <2> QED BY <1>3, <2>1, KeepsItself DEF Keeps
  <1> HIDE DEF s
  <1>5. s.pauseStamp \in Int /\ TRUE \in BOOLEAN /\ FALSE \in BOOLEAN /\ 3 \in 0 .. 3
    BY <1>4, StructureIs DEF Sound
  <1>6. Keeps(r, p) /\ Sound(p)
    <2>1. Keeps(s, RTMP_SendPause(s, TRUE, s.pauseStamp))
      BY <1>4, <1>5, CallsKeep
    <2>2. Keeps(s, p)
      BY <1>4, <2>1, KeepsItself
    <2> HIDE DEF p
    <2> QED BY <1>3, <1>4, <2>2, KeepsTwice, KeepsSound
  <1> HIDE DEF p
  <1>7. Keeps(r, q)
    <2>1. Keeps(p, q)
      BY <1>5, <1>6, PauseKeeps
    <2> HIDE DEF q
    <2> QED BY <1>3, <1>6, <2>1, KeepsTwice
  <1> HIDE DEF q
  <1> QED BY <1>1, <1>2, <1>6, <1>7, KeepsInv

\* A call on a connection that is up leaves it up.
LEMMA UpInvoke ==
    ASSUME NEW s, Sound(s), s.sock = "up", NEW name \in Numbered, NEW arg \in Int, NEW queue \in BOOLEAN
    PROVE  /\ Keeps(s, Invoke(s, name, arg, queue)) /\ Sound(Invoke(s, name, arg, queue))
           /\ Invoke(s, name, arg, queue).sock = "up"
  BY InvokeKeeps, InvokeStaysUp, KeepsSound DEF Numbered

LEMMA StepSeek == ASSUME SessionConstants, SessionInv, Seek PROVE SessionInv'
  <1> DEFINE a == [r EXCEPT !.seeking = TRUE]
             s == Invoke(a, "seek", 0, TRUE)
  <1>1. Sound(r) /\ r \in Structure /\ r.sock = "up" /\ r' = s /\ down' = down /\ srv' \in Server
    BY DEF SessionInv, Sound, Seek, RTMP_SendSeek
  <1>2. Keeps(r, a) /\ Sound(a) /\ a.sock = "up"
    <2>1. Keeps(r, a)
      BY <1>1, SetKeeps
    <2>2. a.sock = r.sock
      BY <1>1, SetOthers
    <2> HIDE DEF a
    <2> QED BY <1>1, <2>1, <2>2, KeepsSound
  <1> HIDE DEF a
  <1>3. "seek" \in Numbered /\ 0 \in Int /\ TRUE \in BOOLEAN
    BY DEF Numbered, CallNames
  <1>4. Keeps(a, s) /\ s.sock = "up"
    BY <1>2, <1>3, UpInvoke, Zenon
  <1> HIDE DEF s
  <1>5. Keeps(r, s)
    BY <1>1, <1>2, <1>4, KeepsTwice
  <1> QED BY <1>1, <1>4, <1>5, KeepsInv

LEMMA StepReconnect == ASSUME SessionConstants, SessionInv, RTMP_ReconnectStream PROVE SessionInv'
  <1> DEFINE a == [r EXCEPT !.playing = FALSE]
             b == SendDeleteStream(a, r.sid)
             c == [b EXCEPT !.sid = -1]
             d == IF r.sid < 0 THEN r ELSE c
             e == RTMP_SendCreateStream(d)
             f == [e EXCEPT !.media = 0]
  <1>1. Sound(r) /\ r \in Structure /\ r.sock = "up" /\ r.sid \in Int
    BY StructureIs DEF SessionInv, Sound, RTMP_ReconnectStream
  <1>2. r' = f /\ down' = down /\ srv' \in Server
    BY DEF RTMP_ReconnectStream, SessionInv
  <1>3. Keeps(r, a) /\ Sound(a) /\ a.sock = "up"
    <2>1. Keeps(r, a)
      BY <1>1, SetKeeps
    <2>2. a.sock = r.sock
      BY <1>1, SetOthers
    <2> HIDE DEF a
    <2> QED BY <1>1, <2>1, <2>2, KeepsSound
  <1> HIDE DEF a
  <1>4. "deleteStream" \in Numbered /\ "createStream" \in Numbered /\ TRUE \in BOOLEAN /\ FALSE \in BOOLEAN
        /\ 0 \in 0 .. 2 /\ 0 \in Int /\ -1 \in Int
    BY DEF Numbered, CallNames
  <1>5. Keeps(r, b) /\ Sound(b) /\ b.sock = "up"
    <2>1. b = Invoke(a, "deleteStream", r.sid, FALSE)
      BY DEF SendDeleteStream
    <2> HIDE DEF b
    <2>2. Keeps(a, b) /\ Sound(b) /\ b.sock = "up"
      BY <1>1, <1>3, <1>4, <2>1, UpInvoke, Zenon
    <2> QED BY <1>1, <1>3, <2>2, KeepsTwice
  <1> HIDE DEF b
  <1>6. Keeps(r, c) /\ c.sock = "up"
    <2>1. Keeps(b, c)
      BY <1>4, <1>5, SetKeeps
    <2>2. c.sock = b.sock
      BY <1>5, SetOthers DEF Sound
    <2> HIDE DEF c
    <2> QED BY <1>1, <1>5, <2>1, <2>2, KeepsTwice
  <1> HIDE DEF c
  <1>7. Keeps(r, d) /\ d.sock = "up"
    BY <1>1, <1>6, KeepsItself
  <1> HIDE DEF d
  <1>8. Keeps(r, e) /\ Sound(e) /\ e.sock = "up"
    <2>1. e = Invoke(d, "createStream", 0, TRUE)
      BY DEF RTMP_SendCreateStream
    <2> HIDE DEF e
    <2>2. Sound(d)
      BY <1>7, KeepsSound
    <2>3. Keeps(d, e) /\ Sound(e) /\ e.sock = "up"
      BY <1>4, <1>7, <2>1, <2>2, UpInvoke, Zenon
    <2> QED BY <1>1, <1>7, <2>3, KeepsTwice
  <1> HIDE DEF e
  <1>9. Keeps(r, f) /\ f.sock = "up"
    <2>1. Keeps(e, f)
      BY <1>4, <1>8, SetKeeps
    <2>2. f.sock = e.sock
      BY <1>8, SetOthers DEF Sound
    <2> HIDE DEF f
    <2> QED BY <1>1, <1>8, <2>1, <2>2, KeepsTwice
  <1> HIDE DEF f
  <1> QED BY <1>2, <1>9, KeepsInv

\* Sequences of one packet, and of two that answer no call.
LEMMA OneIs ==
    ASSUME NEW S, NEW m \in S
    PROVE  <<m>> \in Seq(S) /\ Len(<<m>>) = 1 /\ \A i \in 1 .. Len(<<m>>) : <<m>>[i] = m
  OBVIOUS

LEMMA TwoAre ==
    ASSUME NEW S, NEW m \in S, NEW n \in S
    PROVE  <<m, n>> \in Seq(S) /\ \A i \in 1 .. Len(<<m, n>>) : <<m, n>>[i] \in {m, n}
  <1> DEFINE q == <<m, n>>
  <1>1. q \in Seq(S) /\ Len(q) = 2 /\ q[1] = m /\ q[2] = n
    OBVIOUS
  <1> HIDE DEF q
  <1>2. ASSUME NEW i \in 1 .. Len(q) PROVE q[i] \in {m, n}
    <2>1. i = 1 \/ i = 2
      BY <1>1
    <2> QED BY <1>1, <2>1
  <1>3. q \in Seq(S) /\ \A i \in 1 .. Len(q) : q[i] \in {m, n}
    BY <1>1, <1>2
  <1> QED BY <1>3 DEF q

Unasked(m) == m.of = ""

LEMMA TwoUnasked ==
    ASSUME NEW m \in Messages, Unasked(m), NEW n \in Messages, Unasked(n)
    PROVE  <<m, n>> \in Seq(Messages) /\ \A i \in 1 .. Len(<<m, n>>) : <<m, n>>[i].of = ""
  <1> DEFINE q == <<m, n>>
  <1>1. q \in Seq(Messages) /\ \A i \in 1 .. Len(q) : q[i] \in {m, n}
    BY TwoAre
  <1> HIDE DEF q
  <1>2. \A i \in 1 .. Len(q) : Unasked(q[i])
    BY <1>1
  <1> QED BY <1>1, <1>2 DEF q, Unasked

\* A packet of the server and one field of it set.
LEMMA PlainIs ==
    ASSUME NEW name \in MessageNames, NEW txn \in Int
    PROVE  /\ Msg(name, txn) \in Plain /\ Msg(name, txn).name = name /\ Msg(name, txn).txn = txn
           /\ Msg(name, txn).of = ""
  <1>1. "" \in Codes /\ "" \in Asked \cup {""} /\ 0 \in Int /\ 0 \in 0 .. 2
    BY DEF Codes
  <1>2. Msg(name, txn) = [name |-> name, txn |-> txn, arg |-> 0, code |-> "", ch |-> 0, stamp |-> 0, of |-> ""]
    BY DEF Msg
  <1>3. Msg(name, txn).name = name /\ Msg(name, txn).txn = txn /\ Msg(name, txn).of = ""
    BY Zenon DEF Msg
  <1>4. ASSUME NEW a \in Int, NEW b \in Codes, NEW c \in 0 .. 2, NEW d \in Int, NEW e \in Asked \cup {""}
        PROVE  [name |-> name, txn |-> txn, arg |-> a, code |-> b, ch |-> c, stamp |-> d, of |-> e] \in Plain
    BY DEF Plain
  <1>5. Msg(name, txn) \in Plain
    BY <1>1, <1>2, <1>4
  <1> QED BY <1>3, <1>5

LEMMA SetCode ==
    ASSUME NEW m \in Plain, NEW x \in Codes
    PROVE  /\ [m EXCEPT !.code = x] \in Plain /\ [m EXCEPT !.code = x].name = m.name
           /\ [m EXCEPT !.code = x].of = m.of
  BY DEF Plain

LEMMA SetCh ==
    ASSUME NEW m \in Plain, NEW x \in 0 .. 2
    PROVE  /\ [m EXCEPT !.ch = x] \in Plain /\ [m EXCEPT !.ch = x].name = m.name
           /\ [m EXCEPT !.ch = x].of = m.of /\ [m EXCEPT !.ch = x].ch = x
  BY DEF Plain

LEMMA SetStamp ==
    ASSUME NEW m \in Plain, NEW x \in Int
    PROVE  /\ [m EXCEPT !.stamp = x] \in Plain /\ [m EXCEPT !.stamp = x].name = m.name
           /\ [m EXCEPT !.stamp = x].of = m.of /\ [m EXCEPT !.stamp = x].ch = m.ch
  BY DEF Plain

LEMMA SetArg ==
    ASSUME NEW m \in Plain, NEW x \in Int
    PROVE  /\ [m EXCEPT !.arg = x] \in Plain /\ [m EXCEPT !.arg = x].name = m.name
           /\ [m EXCEPT !.arg = x].txn = m.txn
  BY DEF Plain

LEMMA SetOf ==
    ASSUME NEW m \in Plain, NEW x \in Asked \cup {""}
    PROVE  /\ [m EXCEPT !.of = x] \in Plain /\ [m EXCEPT !.of = x].name = m.name
           /\ [m EXCEPT !.of = x].txn = m.txn /\ [m EXCEPT !.of = x].of = x
  BY DEF Plain

\* What the server sends: messages, and answers under the number of the call.
LEMMA SentAre ==
    /\ \A name \in MessageNames \ {"media"}, txn \in Int : Msg(name, txn) \in Messages /\ Msg(name, txn).of = ""
    /\ \A code \in Codes : /\ Status(code) \in Messages /\ Status(code).of = ""
                           /\ Ctrl(code) \in Messages /\ Ctrl(code).of = ""
    /\ \A k \in Int : Media(k) \in Messages /\ Media(k).of = ""
  <1>0. "onStatus" \in MessageNames /\ "ctrl" \in MessageNames /\ "media" \in MessageNames /\ 0 \in Int
    BY DEF MessageNames
  <1>1. ASSUME NEW name \in MessageNames, name # "media", NEW txn \in Int
        PROVE  Msg(name, txn) \in Messages /\ Msg(name, txn).of = ""
    BY <1>1, PlainIs DEF Messages
  <1>2. ASSUME NEW code \in Codes
        PROVE  /\ Status(code) \in Messages /\ Status(code).of = ""
               /\ Ctrl(code) \in Messages /\ Ctrl(code).of = ""
    <2>1. ASSUME NEW name \in {"onStatus", "ctrl"}
          PROVE  [Msg(name, 0) EXCEPT !.code = code] \in Messages /\ [Msg(name, 0) EXCEPT !.code = code].of = ""
      <3> DEFINE m == Msg(name, 0)
                 t == [m EXCEPT !.code = code]
      <3>1. m \in Plain /\ m.name = name /\ m.of = ""
        <4>1. name \in MessageNames
          BY <1>0, <2>1
        <4> QED BY <1>0, <4>1, PlainIs
      <3> HIDE DEF m
      <3>2. t \in Plain /\ t.name = name /\ t.of = ""
        BY <3>1, SetCode
      <3> HIDE DEF t
      <3>3. t \in Messages /\ t.of = ""
        BY <2>1, <3>2 DEF Messages
      <3> QED BY <3>3 DEF t, m
    <2> QED BY <2>1 DEF Status, Ctrl
  <1>3. ASSUME NEW k \in Int PROVE Media(k) \in Messages /\ Media(k).of = ""
    <2> DEFINE c == IF k % 2 = 1 THEN 1 ELSE 2
               m == Msg("media", 0)
               t == [m EXCEPT !.ch = c]
               u == [t EXCEPT !.stamp = k]
    <2>1. c \in 1 .. 2 /\ c \in 0 .. 2
      OBVIOUS
    <2>2. Media(k) = u
      BY DEF Media
    <2> HIDE DEF c
    <2>3. m \in Plain /\ m.name = "media" /\ m.of = ""
      BY <1>0, PlainIs
    <2> HIDE DEF m
    <2>4. t \in Plain /\ t.name = "media" /\ t.of = "" /\ t.ch = c
      BY <2>1, <2>3, SetCh
    <2> HIDE DEF t
    <2>5. u \in Plain /\ u.name = "media" /\ u.of = "" /\ u.ch = c
      BY <2>4, SetStamp
    <2> QED BY <2>1, <2>2, <2>5 DEF Messages
  <1> QED BY <1>1, <1>2, <1>3

LEMMA AnswerIs ==
    ASSUME NEW name \in {"_result", "_error"}, NEW c \in Packet, c.name \in Asked, NEW arg \in Int
    PROVE  /\ Answer(name, c, arg) \in Messages
           /\ Answer(name, c, arg).of = c.name /\ Answer(name, c, arg).txn = c.txn
  <1> DEFINE m == Msg(name, c.txn)
             t == [m EXCEPT !.arg = arg]
             u == [t EXCEPT !.of = c.name]
  <1>1. Answer(name, c, arg) = u
    BY DEF Answer
  <1>2. m \in Plain /\ m.name = name /\ m.txn = c.txn
    <2>1. c.txn \in Int /\ name \in MessageNames
      BY DEF Packet, MessageNames
    <2> QED BY <2>1, PlainIs
  <1> HIDE DEF m
  <1>3. t \in Plain /\ t.name = name /\ t.txn = c.txn
    BY <1>2, SetArg
  <1> HIDE DEF t
  <1>4. u \in Plain /\ u.name = name /\ u.txn = c.txn /\ u.of = c.name
    BY <1>3, SetOf
  <1> HIDE DEF u
  <1> QED BY <1>1, <1>4 DEF Messages

LEMMA RepliesAre ==
    ASSUME NEW c \in Packet, NEW rs \in Replies(c)
    PROVE  /\ rs \in Seq(Messages)
           /\ \A i \in 1 .. Len(rs) : rs[i].of # "" => c.name \in Asked /\ rs[i].of = c.name /\ rs[i].txn = c.txn
  <1> DEFINE Fits(q) == /\ q \in Seq(Messages)
                        /\ \A i \in 1 .. Len(q) :
                               q[i].of # "" => c.name \in Asked /\ q[i].of = c.name /\ q[i].txn = c.txn
  <1>1. ASSUME NEW m \in Messages, m.of = "" PROVE Fits(<<m>>)
    BY <1>1, OneIs
  <1>2. ASSUME NEW m \in Messages, m.of = "", NEW n \in Messages, n.of = "" PROVE Fits(<<m, n>>)
    <2> HIDE DEF Fits
    <2> DEFINE q == <<m, n>>
    <2>1. q \in Seq(Messages) /\ \A i \in 1 .. Len(q) : q[i].of = ""
      BY <1>2, TwoUnasked DEF Unasked
    <2> HIDE DEF q
    <2>2. Fits(q)
      BY <2>1 DEF Fits
    <2> QED BY <2>2 DEF q
  <1>3. ASSUME c.name \in Asked, NEW name \in {"_result", "_error"}, NEW arg \in Int
        PROVE  Fits(<<Answer(name, c, arg)>>)
    <2> DEFINE m == Answer(name, c, arg)
    <2>1. m \in Messages /\ m.of = c.name /\ m.txn = c.txn
      BY <1>3, AnswerIs
    <2> HIDE DEF m
    <2>2. <<m>> \in Seq(Messages) /\ \A i \in 1 .. Len(<<m>>) : <<m>>[i] = m
      BY <2>1, OneIs
    <2>3. Fits(<<m>>)
      BY <1>3, <2>1, <2>2
    <2> QED BY <2>3 DEF m
  <1>4. Fits(<<>>)
    OBVIOUS
  <1>5. /\ "Play.Start" \in Codes /\ "Failed" \in Codes /\ "Publish.Start" \in Codes /\ "EOF" \in Codes
        /\ "Pause.Notify" \in Codes /\ "Seek.Notify" \in Codes
        /\ {"playlist_ready", "_onbwcheck", "_onbwdone"} \subseteq MessageNames \ {"media"}
        /\ 0 \in Int /\ 1 \in Int /\ 9 \in Int
    BY DEF Codes, MessageNames
  <1> SUFFICES Fits(rs)
    OBVIOUS
  <1> HIDE DEF Fits
  <1>6. CASE c.name \in {"connect", "createStream"}
    <2>1. rs = <<Answer("_result", c, 1)>> \/ rs = <<Answer("_error", c, 0)>>
      BY <1>6 DEF Replies
    <2>2. Fits(<<Answer("_result", c, 1)>>) /\ Fits(<<Answer("_error", c, 0)>>)
      BY <1>3, <1>5, <1>6 DEF Asked
    <2> QED BY <2>1, <2>2
  <1>7. CASE c.name = "play"
    <2>1. rs = <<Status("Play.Start")>> \/ rs = <<Answer("_result", c, 0)>> \/ rs = <<Status("Failed")>>
      BY <1>7 DEF Replies
    <2>2. Fits(<<Answer("_result", c, 0)>>)
      BY <1>3, <1>5, <1>7 DEF Asked
    <2>3. Fits(<<Status("Play.Start")>>) /\ Fits(<<Status("Failed")>>)
      BY <1>1, <1>5, SentAre
    <2> QED BY <2>1, <2>2, <2>3
  <1>8. CASE c.name = "publish"
    <2>1. rs = <<Status("Publish.Start")>> \/ rs = <<Answer("_result", c, 0)>>
      BY <1>8 DEF Replies
    <2>2. Fits(<<Answer("_result", c, 0)>>)
      BY <1>3, <1>5, <1>8 DEF Asked
    <2>3. Fits(<<Status("Publish.Start")>>)
      BY <1>1, <1>5, SentAre
    <2> QED BY <2>1, <2>2, <2>3
  <1>9. CASE c.name = "set_playlist"
    <2>1. rs = <<Msg("playlist_ready", 0)>> \/ rs = <<Answer("_result", c, 0)>> \/ rs = <<>>
      BY <1>9 DEF Replies
    <2>2. Fits(<<Answer("_result", c, 0)>>)
      BY <1>3, <1>5, <1>9 DEF Asked
    <2>3. Fits(<<Msg("playlist_ready", 0)>>)
      BY <1>1, <1>5, SentAre
    <2> QED BY <1>4, <2>1, <2>2, <2>3
  <1>10. CASE c.name = "pause"
    <2>1. rs = <<Ctrl("EOF"), Status("Pause.Notify")>> \/ rs = <<Status("Pause.Notify")>>
      BY <1>10 DEF Replies
    <2>2. /\ Ctrl("EOF") \in Messages /\ Ctrl("EOF").of = ""
          /\ Status("Pause.Notify") \in Messages /\ Status("Pause.Notify").of = ""
      BY <1>5, SentAre
    <2>3. Fits(<<Ctrl("EOF"), Status("Pause.Notify")>>) /\ Fits(<<Status("Pause.Notify")>>)
      BY <1>1, <1>2, <2>2
    <2> QED BY <2>1, <2>3
  <1>11. CASE c.name = "seek"
    <2>1. rs = <<Status("Seek.Notify")>>
      BY <1>11 DEF Replies
    <2>2. Fits(<<Status("Seek.Notify")>>)
      BY <1>1, <1>5, SentAre
    <2> QED BY <2>1, <2>2
  <1>12. CASE c.name = "_checkbw"
    <2>1. rs = <<Msg("_onbwcheck", 9), Msg("_onbwdone", 0)>>
      BY <1>12 DEF Replies
    <2>2. /\ Msg("_onbwcheck", 9) \in Messages /\ Msg("_onbwcheck", 9).of = ""
          /\ Msg("_onbwdone", 0) \in Messages /\ Msg("_onbwdone", 0).of = ""
      BY <1>5, SentAre
    <2>3. Fits(<<Msg("_onbwcheck", 9), Msg("_onbwdone", 0)>>)
      BY <1>2, <2>2
    <2> QED BY <2>1, <2>3
  <1>13. CASE c.name \notin {"connect", "createStream", "play", "publish", "set_playlist", "pause", "seek",
                             "_checkbw"}
    <2>1. rs = <<>>
      BY <1>13 DEF Replies
    <2> QED BY <1>4, <2>1
  <1> QED BY <1>6, <1>7, <1>8, <1>9, <1>10, <1>11, <1>12, <1>13

\* More is on its way from the server.
LEMMA SendsInv ==
    ASSUME SessionInv, r.sock = "up", NEW rs \in Seq(Messages), NEW s, Sound(s), s.sock = "up", r' = s,
           s.inv = r.inv, s.calls = r.calls, \A i \in 1 .. Len(rs) : Matched(s, rs[i]),
           down' = down \o rs, srv' \in Server
    PROVE  SessionInv'
  <1>1. down \in Seq(Messages) /\ down' \in Seq(Messages)
    BY DEF SessionInv
  <1>2. ASSUME NEW i \in 1 .. Len(down') PROVE Matched(s, down'[i])
    <2>1. CASE i \in 1 .. Len(down)
      <3>1. down'[i] = down[i] /\ Matched(r, down[i])
        BY <1>1, <2>1 DEF SessionInv
      <3> QED BY <3>1 DEF Matched
    <2>2. CASE i \notin 1 .. Len(down)
      <3>1. i - Len(down) \in 1 .. Len(rs) /\ down'[i] = rs[i - Len(down)]
        BY <1>1, <2>2
      <3> QED BY <3>1
    <2> QED BY <2>1, <2>2
  <1> QED BY <1>1, <1>2 DEF SessionInv

LEMMA ServerIs == ASSUME NEW s \in Server PROVE s.pos \in Int /\ s.left \in Int /\ s.noise \in Int
  BY DEF Server

LEMMA SetOneOfServer ==
    ASSUME NEW s \in Server
    PROVE  /\ \A x \in Int : /\ [s EXCEPT !.pos = x] \in Server /\ [s EXCEPT !.left = x] \in Server
                             /\ [s EXCEPT !.noise = x] \in Server
           /\ \A b \in BOOLEAN : [s EXCEPT !.playing = b] \in Server /\ [s EXCEPT !.paused = b] \in Server
  BY DEF Server

LEMMA SetServer ==
    ASSUME NEW s \in Server
    PROVE  /\ \A b \in BOOLEAN, n \in Nat : [s EXCEPT !.playing = b, !.pos = 1, !.left = n] \in Server
           /\ [s EXCEPT !.playing = FALSE, !.paused = FALSE] \in Server /\ [s EXCEPT !.paused = TRUE] \in Server
           /\ \A n \in Nat, x \in Int : [s EXCEPT !.paused = FALSE, !.left = n, !.pos = x] \in Server
           /\ \A x \in Int, n \in Int : [s EXCEPT !.pos = x, !.left = n] \in Server
           /\ \A x \in Int : [s EXCEPT !.noise = x] \in Server
  <1>0. TRUE \in BOOLEAN /\ FALSE \in BOOLEAN /\ 1 \in Int /\ Nat \subseteq Int
    OBVIOUS
  <1>1. ASSUME NEW b \in BOOLEAN, NEW n \in Nat
        PROVE  [s EXCEPT !.playing = b, !.pos = 1, !.left = n] \in Server
    <2> DEFINE t == [s EXCEPT !.playing = b]
               u == [t EXCEPT !.pos = 1]
    <2>1. t \in Server
      BY SetOneOfServer
    <2> HIDE DEF t
    <2>2. u \in Server
      BY <1>0, <2>1, SetOneOfServer
    <2> HIDE DEF u
    <2>3. [u EXCEPT !.left = n] \in Server
      BY <1>0, <2>2, SetOneOfServer
    <2> QED BY <2>3 DEF t, u
  <1>2. [s EXCEPT !.playing = FALSE, !.paused = FALSE] \in Server /\ [s EXCEPT !.paused = TRUE] \in Server
    <2> DEFINE t == [s EXCEPT !.playing = FALSE]
    <2>1. t \in Server /\ [s EXCEPT !.paused = TRUE] \in Server
      BY <1>0, SetOneOfServer
    <2> HIDE DEF t
    <2>2. [t EXCEPT !.paused = FALSE] \in Server
      BY <1>0, <2>1, SetOneOfServer
    <2> QED BY <2>1, <2>2 DEF t
  <1>3. ASSUME NEW n \in Nat, NEW x \in Int
        PROVE  [s EXCEPT !.paused = FALSE, !.left = n, !.pos = x] \in Server
    <2> DEFINE t == [s EXCEPT !.paused = FALSE]
               u == [t EXCEPT !.left = n]
    <2>1. t \in Server
      BY <1>0, SetOneOfServer
    <2> HIDE DEF t
    <2>2. u \in Server
      BY <1>0, <2>1, SetOneOfServer
    <2> HIDE DEF u
    <2>3. [u EXCEPT !.pos = x] \in Server
      BY <2>2, SetOneOfServer
    <2> QED BY <2>3 DEF t, u
  <1>4. ASSUME NEW x \in Int, NEW n \in Int PROVE [s EXCEPT !.pos = x, !.left = n] \in Server
    <2> DEFINE t == [s EXCEPT !.pos = x]
    <2>1. t \in Server
      BY SetOneOfServer
    <2> HIDE DEF t
    <2>2. [t EXCEPT !.left = n] \in Server
      BY <2>1, SetOneOfServer
    <2> QED BY <2>2 DEF t
  <1> QED BY <1>1, <1>2, <1>3, <1>4, SetOneOfServer

LEMMA StepServerTakes ==
    ASSUME SessionConstants, SessionInv, NEW back \in 0 .. 1, ServerTakes(back)
    PROVE  SessionInv'
  <1> DEFINE c == Head(r.up)
             s == [r EXCEPT !.up = Tail(r.up)]
  <1>1. Sound(r) /\ r \in Structure /\ r.up \in Seq(Packet) /\ r.up # <<>> /\ r.sock = "up"
    BY StructureIs DEF SessionInv, Sound, ServerTakes
  <1>2. c \in Packet /\ c = r.up[1] /\ AsksFor(r, c)
    <2>1. 1 \in 1 .. Len(r.up) /\ c = r.up[1]
      BY <1>1
    <2> QED BY <1>1, <2>1 DEF Sound
  <1>3. s \in Structure /\ s.sock = "up" /\ s.inv = r.inv /\ s.calls = r.calls /\ s.up = Tail(r.up)
    <2>1. Tail(r.up) \in Seq(Packet)
      BY <1>1
    <2>2. s \in Structure
      BY <1>1, <2>1, SetFields
    <2> QED BY <1>1, <2>2 DEF Structure
  <1>4. r' = s
    BY DEF ServerTakes
  <1> HIDE DEF s
  <1>5. Sound(s)
    <2>1. ASSUME NEW i \in 1 .. Len(s.up) PROVE AsksFor(s, s.up[i])
      <3>1. i + 1 \in 1 .. Len(r.up) /\ s.up[i] = r.up[i + 1]
        BY <1>1, <1>3
      <3>2. AsksFor(r, s.up[i])
        BY <1>1, <3>1 DEF Sound
      <3> QED BY <1>3, <3>2 DEF AsksFor
    <2> QED BY <1>1, <1>3, <2>1 DEF Sound
  <1>6. srv' \in Server
    <2>1. srv \in Server /\ c.arg \in Int /\ srv' = ServerAfter(c, back) /\ Window \in Nat
      BY <1>2 DEF SessionInv, ServerTakes, SessionConstants, Packet
    <2> HIDE DEF c
    <2>2. Max({1, c.arg + 1 - back}) \in Int
      <3> DEFINE S == {1, c.arg + 1 - back}
                 x == IF c.arg + 1 - back > 1 THEN c.arg + 1 - back ELSE 1
      <3>1. x \in S /\ \A y \in S : x >= y
        BY <2>1
      <3>2. S \subseteq Int
        BY <2>1
      <3> HIDE DEF S, x
      <3>3. Max(S) \in S
        BY <3>1 DEF Max
      <3>4. Max(S) \in Int
        BY <3>2, <3>3
      <3> QED BY <3>4 DEF S
    <2>3. /\ [srv EXCEPT !.playing = (c.name = "play"), !.pos = 1, !.left = Window] \in Server
          /\ [srv EXCEPT !.playing = FALSE, !.paused = FALSE] \in Server /\ [srv EXCEPT !.paused = TRUE] \in Server
      BY <2>1, SetServer
    <2>4. [srv EXCEPT !.paused = FALSE, !.left = Window, !.pos = Max({1, c.arg + 1 - back})] \in Server
      <3>1. \A x \in Int : [srv EXCEPT !.paused = FALSE, !.left = Window, !.pos = x] \in Server
        BY <2>1, SetServer
      <3> QED BY <2>2, <3>1
    <2> QED BY <2>1, <2>3, <2>4 DEF ServerAfter
  <1>7. PICK rs \in Replies(c) : down' = down \o rs
    BY DEF ServerTakes
  <1> HIDE DEF c
  <1>8. rs \in Seq(Messages) /\ \A i \in 1 .. Len(rs) : Matched(s, rs[i])
    <2>1. /\ rs \in Seq(Messages)
          /\ \A i \in 1 .. Len(rs) : rs[i].of # "" => c.name \in Asked /\ rs[i].of = c.name /\ rs[i].txn = c.txn
      BY <1>2, RepliesAre
    <2> QED BY <1>2, <1>3, <2>1 DEF AsksFor, Matched
  <1> QED BY <1>1, <1>3, <1>4, <1>5, <1>6, <1>7, <1>8, SendsInv

LEMMA StepServerSends == ASSUME SessionConstants, SessionInv, ServerSends PROVE SessionInv'
  <1>1. srv \in Server /\ Sound(r) /\ r.sock = "up" /\ r' = r /\ srv' \in Server /\ srv.pos \in Int
    <2>1. srv \in Server /\ Sound(r) /\ r.sock = "up" /\ r' = r /\ srv' = [srv EXCEPT !.pos = @ + 1, !.left = @ - 1]
      BY DEF SessionInv, ServerSends
    <2>2. \A x \in Int, n \in Int : [srv EXCEPT !.pos = x, !.left = n] \in Server
      BY <2>1, SetServer
    <2>3. srv.pos + 1 \in Int /\ srv.left - 1 \in Int /\ srv.pos \in Int
      BY <2>1, ServerIs
    <2> QED BY <2>1, <2>2, <2>3
  <1>2. Media(srv.pos) \in Messages /\ Media(srv.pos).of = "" /\ "BufferEmpty" \in Codes
    BY <1>1, SentAre DEF Codes
  <1>3. Ctrl("BufferEmpty") \in Messages /\ Ctrl("BufferEmpty").of = ""
    BY <1>2, SentAre
  <1> DEFINE rs == IF srv.left = 1 THEN <<Media(srv.pos), Ctrl("BufferEmpty")>> ELSE <<Media(srv.pos)>>
  <1>4. rs \in Seq(Messages) /\ \A i \in 1 .. Len(rs) : rs[i].of = ""
    <2> DEFINE m == Media(srv.pos)
               n == Ctrl("BufferEmpty")
    <2>1. m \in Messages /\ m.of = "" /\ n \in Messages /\ n.of = ""
      BY <1>2, <1>3
    <2> HIDE DEF m, n
    <2>2. <<m>> \in Seq(Messages) /\ \A i \in 1 .. Len(<<m>>) : <<m>>[i].of = ""
      BY <2>1, OneIs
    <2>3. <<m, n>> \in Seq(Messages) /\ \A i \in 1 .. Len(<<m, n>>) : <<m, n>>[i].of = ""
      BY <2>1, TwoUnasked DEF Unasked
    <2>4. rs = IF srv.left = 1 THEN <<m, n>> ELSE <<m>>
      BY DEF m, n
    <2> HIDE DEF rs
    <2> QED BY <2>2, <2>3, <2>4
  <1>5. down' = down \o rs
    BY DEF ServerSends
  <1> HIDE DEF rs
  <1>6. \A i \in 1 .. Len(rs) : Matched(r, rs[i])
    BY <1>4 DEF Matched
  <1> QED BY <1>1, <1>4, <1>5, <1>6, SendsInv

LEMMA StepServerNoise == ASSUME SessionConstants, SessionInv, NEW msg \in Noise, ServerNoise(msg) PROVE SessionInv'
  <1>1. srv \in Server /\ Sound(r) /\ r.sock = "up" /\ r' = r /\ srv' \in Server
    <2>1. srv \in Server /\ Sound(r) /\ r.sock = "up" /\ r' = r /\ srv' = [srv EXCEPT !.noise = @ + 1]
      BY DEF SessionInv, ServerNoise
    <2>2. \A x \in Int : [srv EXCEPT !.noise = x] \in Server
      BY <2>1, SetServer
    <2>3. srv.noise + 1 \in Int
      BY <2>1, ServerIs
    <2> QED BY <2>1, <2>2, <2>3
  <1>2. msg \in Messages /\ msg.of = ""
    <2>1. /\ {"onBWDone", "ping", "close", "onFCUnsubscribe"} \subseteq MessageNames \ {"media"}
          /\ "Ping" \in Codes /\ "Play.Complete" \in Codes /\ 0 \in Int /\ 5 \in Int
      BY DEF MessageNames, Codes
    <2>2. /\ \A name \in {"onBWDone", "close", "onFCUnsubscribe"} : Msg(name, 0) \in Messages /\ Msg(name, 0).of = ""
          /\ Msg("ping", 5) \in Messages /\ Msg("ping", 5).of = ""
          /\ Ctrl("Ping") \in Messages /\ Ctrl("Ping").of = ""
          /\ Status("Play.Complete") \in Messages /\ Status("Play.Complete").of = ""
      BY <2>1, SentAre
    <2> QED BY <2>2 DEF Noise
  <1>3. down \in Seq(Messages) /\ down' = down \o <<msg>> /\ <<msg>> \in Seq(Messages)
    <2>1. down \in Seq(Messages) /\ down' = Append(down, msg)
      BY DEF SessionInv, ServerNoise
    <2>2. Append(down, msg) = down \o <<msg>>
      BY <1>2, <2>1, AppendIsConcat
    <2> QED BY <1>2, <2>1, <2>2, OneIs
  <1>4. \A i \in 1 .. Len(<<msg>>) : Matched(r, <<msg>>[i])
    BY <1>2, OneIs DEF Matched
  <1> QED BY <1>1, <1>3, <1>4, SendsInv

LEMMA StepBreak == ASSUME SessionConstants, SessionInv, Break PROVE SessionInv'
  <1> DEFINE a == [r EXCEPT !.sock = "broken"]
             s == [a EXCEPT !.up = <<>>]
  <1>1. Sound(r) /\ r \in Structure /\ r.sock = "up" /\ <<>> \in Seq(Packet)
    BY DEF SessionInv, Sound, Break
  <1>2. a \in Structure
    BY <1>1, SetFields
  <1>3. s \in Structure
    <2> HIDE DEF a
    <2> QED BY <1>1, <1>2, SetFields
  <1>4. s.sock = "broken" /\ s.inv = r.inv /\ s.calls = r.calls /\ s.up = <<>>
    BY <1>1, <1>2 DEF Structure
  <1>5. r' = s /\ down' = <<>> /\ srv' \in Server
    BY NoServerIs DEF Break
  <1> HIDE DEF a, s
  <1>6. Sound(s)
    BY <1>1, <1>3, <1>4 DEF Sound
  <1> QED BY <1>4, <1>5, <1>6 DEF SessionInv

LEMMA NextInv == ASSUME SessionConstants, SessionInv, [Next]_vars PROVE SessionInv'
  <1>1. CASE UNCHANGED <<r, down, srv>>
    BY <1>1 DEF SessionInv
  <1>2. CASE RTMP_Connect BY <1>2, StepConnect
  <1>3. CASE ConnectFails BY <1>3, StepConnectFails
  <1>4. CASE OpeningEnds BY <1>1, <1>4 DEF OpeningEnds
  <1>5. CASE RTMP_ConnectStream BY <1>5, StepConnectStream
  <1>6. CASE RTMP_GetNextMediaPacket BY <1>6, StepGetNextMediaPacket
  <1>7. CASE ReadingEnds BY <1>1, <1>7 DEF ReadingEnds
  <1>8. CASE RTMP_Close BY <1>8, StepClose
  <1>9. CASE RTMP_ToggleStream BY <1>9, StepToggle
  <1>10. CASE Seek BY <1>10, StepSeek
  <1>11. CASE RTMP_ReconnectStream BY <1>11, StepReconnect
  <1>12. CASE \E back \in 0 .. 1 : ServerTakes(back) BY <1>12, StepServerTakes
  <1>13. CASE ServerSends BY <1>13, StepServerSends
  <1>14. CASE \E msg \in Noise : ServerNoise(msg) BY <1>14, StepServerNoise
  <1>15. CASE Break BY <1>15, StepBreak
  <1>16. CASE UNCHANGED vars BY <1>1, <1>16 DEF vars
  <1> QED BY <1>2, <1>3, <1>4, <1>5, <1>6, <1>7, <1>8, <1>9, <1>10, <1>11, <1>12, <1>13, <1>14,
             <1>15, <1>16 DEF Next

(***************************************************************************)
(* An answer of the server that is under way is taken for an answer to no  *)
(* call of another kind than the one it answers, and only playlists share  *)
(* a number: what HandleInvoke finds in the queue by the number of an      *)
(* answer (AV_queue, AV_erase, CloseInternal, SendPlaylist), for every     *)
(* setup, whatever is closed, broken or opened again in between.           *)
(***************************************************************************)
THEOREM AnswersAreMatched == ASSUME SessionConstants PROVE Spec => []AnswersMatched
  <1>1. Init => SessionInv
    BY InitInv
  <1>2. SessionInv /\ [Next]_vars => SessionInv'
    BY NextInv
  <1>3. SessionInv => AnswersMatched
    <2>1. ASSUME SessionInv, NEW i \in 1 .. Len(down), NEW j \in 1 .. Len(r.calls),
                 down[i].of # "", down[i].txn = r.calls[j].txn
          PROVE  down[i].of = r.calls[j].name
      <3>1. Matched(r, down[i])
        BY <2>1 DEF SessionInv
      <3> QED BY <2>1, <3>1 DEF Matched
    <2>2. ASSUME SessionInv, NEW i \in 1 .. Len(r.calls), NEW j \in 1 .. Len(r.calls), i # j,
                 r.calls[i].txn = r.calls[j].txn
          PROVE  r.calls[i].name = "set_playlist" /\ r.calls[i].txn = 0
      <3>1. r.calls[i].txn = 0 /\ Zero(r.calls[i].txn, r.calls[i].name)
        BY <2>2 DEF SessionInv, Sound
      <3> QED BY <3>1 DEF Zero
    <2> QED BY <2>1, <2>2 DEF AnswersMatched
  <1> QED BY <1>1, <1>2, <1>3, PTL DEF Spec
============================================================================
